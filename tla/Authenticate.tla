---------------------------- MODULE Authenticate ----------------------------
(***************************************************************************)
(* The authenticate middleware and its two caches, for one account and the *)
(* refresh token of one of its sessions.                                   *)
(*                                                                         *)
(* A request is judged by the account as userCache has it, else as the     *)
(* database has it, which then goes into the cache; then by the state of   *)
(* its session, through statusCache in the same way.  Between a query and  *)
(* its callback other requests run: they may write the account, wait for   *)
(* the write, and drop the cache entry before the callback fills it.       *)
(*                                                                         *)
(* Time is in ticks.  Latency bounds how long the answer to a query takes  *)
(* to be used; checks that need no query take no time.                     *)
(*                                                                         *)
(* A writer of the account either increments tokenVersion in SQL, or reads *)
(* the row and, after the hash of a password or another query, saves the   *)
(* version it read plus one.  What such an overlap does to revocation is   *)
(* TokenVersion's subject, here it is the gate of mustChangePassword.  The *)
(* rotation and the number of sessions are in UserSessions.                *)
(*                                                                         *)
(* Source: middlewares/auth.middleware.ts, services/userSession.service.ts,*)
(* services/user.service.ts, and the controllers that write accounts.      *)
(***************************************************************************)
EXTENDS Integers

CONSTANTS
    Reqs,      \* slots for requests in flight
    TTL,       \* USER_CACHE_TTL_MS and SESSION_STATUS_TTL_MS, both 30 s
    Latency,   \* how long an answer of the database may wait for its callback
    MaxTv,     \* bound on tokenVersion
    MaxWrites, \* bound on the requests that write
    MaxNow     \* bound on the clock

ASSUME TimingAssumption == TTL \in Nat \ {0} /\ Latency \in Nat
ASSUME BoundAssumption  == MaxTv \in Nat /\ MaxWrites \in Nat /\ MaxNow \in Nat

VARIABLES
    now,          \* Date.now()
    acct,         \* the account row, with its role
    sess,         \* the session row of the refresh token
    userCache,    \* the account's entry
    statusCache,  \* the refresh token's entry
    req,          \* requests in flight
    top,          \* history: the highest tokenVersion so far
    crossed,      \* history: when a save last wrote a version worked out from
                  \* an outdated read, {} if none did
    turned,       \* history: when the account's verdict on each tv last changed
    endedAt,      \* history: when the session was ended, 0 unless it is
    writes        \* history: how many requests that write there were

vars    == <<now, acct, sess, userCache, statusCache, req, top, crossed, turned, endedAt,
             writes>>
caches  == <<userCache, statusCache>>
account == <<acct, top, crossed, turned>>
session == <<sess, endedAt>>

Versions == 0 .. MaxTv
Bars     == {"inactive", "deleted", "role"}
Account  == [tv : Versions, bars : SUBSET Bars, must : BOOLEAN]
Paths    == {"auth", "other"}   \* under /api/auth/, or not

None == [none |-> TRUE]
Idle == [step |-> "idle"]

CachedUser   == [user : Account, at : Nat]
CachedStatus == [revoked : BOOLEAN, at : Nat]

\* Requests of the token's holder.  at: when the account was read ("fill"),
\* when the session's lookup began ("lookup", "answer").  by: what the verdict
\* ok rests on last: the account, the session's row, a failed lookup of it, or
\* the lack of a refresh_token cookie.
Fetch   == [step : {"fetch"}, tv : Versions]
Fill    == [step : {"fill"}, tv : Versions, user : Account, at : Nat]
Lookup  == [step : {"lookup"}, tv : Versions, must : BOOLEAN, at : Nat]
Answer  == [step : {"answer"}, tv : Versions, must : BOOLEAN, at : Nat, revoked : BOOLEAN]
Done    == [step : {"done"}, tv : Versions, path : Paths, ok : BOOLEAN,
            by : {"user", "session", "unknown", "untracked"}]

\* Requests that write.  Of a row that was read: its version, what changes
\* besides (nothing, mustChangePassword, isActive, the role), and what follows.
Changes == {"version", "gate", "open", "inactive", "role"}
Save    == [step : {"save"}, tv : Versions \ {MaxTv}, what : Changes, next : {"end", "expire"}]
\* Which cache entry to drop and what to do then.
Forget  == [step : {"forget"}, what : {"user", "status"}, next : {"end", "raise", "expire"}]
Write   == [step : {"raise", "expire", "destroy"}]

Request == Fetch \cup Fill \cup Lookup \cup Answer \cup Done
           \cup Save \cup Forget \cup Write

TypeOK ==
    /\ now \in Nat
    /\ acct \in Account
    /\ sess \in {"unborn", "active", "ended", "gone"}
    /\ userCache \in CachedUser \cup {None}
    /\ statusCache \in CachedStatus \cup {None}
    /\ req \in [Reqs -> Request \cup {Idle}]
    /\ top \in Versions
    /\ crossed \subseteq Nat
    /\ turned \in [Versions -> Nat]
    /\ endedAt \in Nat
    /\ writes \in 0 .. MaxWrites

----------------------------------------------------------------------------
(* The middleware.                                                          *)

Free(q)   == req[q] = Idle
At(q, s)  == req[q].step = s
Put(q, r) == req' = [req EXCEPT ![q] = r]

\* isDeleted, tvMismatch, isActive, roleInfo and roleInfo.isActive.
Refuses(a, k) == a.tv # k \/ a.bars # {}

\* Mutant of StatusHit: an entry as old as the TTL is still used.
StatusHitLate == statusCache # None /\ now - statusCache.at <= TTL

\* getCachedUser and the cache test of isSessionRevoked.
UserHit   == userCache # None /\ now - userCache.at <= TTL
StatusHit == statusCache # None /\ now - statusCache.at < TTL

\* A verdict, with the mustChangePassword gate, which looks at the path.
Decide(q, k, must, passes, by) ==
    \E path \in Paths :
        Put(q, [step |-> "done", tv |-> k, path |-> path, by |-> by,
                ok |-> passes /\ ~(must /\ path # "auth")])

\* isSessionRevoked up to its query, unless the request has no cookie.
CheckSession(q, k, must) ==
    \/ Decide(q, k, must, TRUE, "untracked")
    \/ /\ StatusHit
       /\ Decide(q, k, must, ~statusCache.revoked, "session")
    \/ /\ ~StatusHit
       /\ Put(q, [step |-> "lookup", tv |-> k, must |-> must, at |-> now])

Judge(q, k, a) ==
    \/ /\ Refuses(a, k)
       /\ Decide(q, k, FALSE, FALSE, "user")
    \/ /\ ~Refuses(a, k)
       /\ CheckSession(q, k, a.must)

\* Mutant of Hit: using an entry renews it.
HitRenewing(q, k) ==
    /\ Free(q)
    /\ k <= top
    /\ UserHit
    /\ Judge(q, k, userCache.user)
    /\ userCache' = [userCache EXCEPT !.at = now]
    /\ UNCHANGED <<writes, now, account, session, statusCache>>

\* A request with a token of version k, which was signed at some time.
Hit(q, k) ==
    /\ Free(q)
    /\ k <= top
    /\ UserHit
    /\ Judge(q, k, userCache.user)
    /\ UNCHANGED <<writes, now, account, session, caches>>

Miss(q, k) ==
    /\ Free(q)
    /\ k <= top
    /\ ~UserHit
    /\ Put(q, [step |-> "fetch", tv |-> k])
    /\ userCache' = None
    /\ UNCHANGED <<writes, now, account, session, statusCache>>

\* The database reads the row; a query that fails ends the request with a 500.
ReadUser(q) ==
    /\ At(q, "fetch")
    /\ \/ Put(q, [step |-> "fill", tv |-> req[q].tv, user |-> acct, at |-> now])
       \/ Put(q, Idle)
    /\ UNCHANGED <<writes, now, account, session, caches>>

\* The callback: it caches what was read as of now.
FillUser(q) ==
    /\ At(q, "fill")
    /\ userCache' = [user |-> req[q].user, at |-> now]
    /\ Judge(q, req[q].tv, req[q].user)
    /\ UNCHANGED <<writes, now, account, session, statusCache>>

\* isSessionRevoked's query.  A session row that is gone is not revoked; an
\* error is answered with "not revoked" and not cached.
ReadStatus(q) ==
    /\ At(q, "lookup")
    /\ \/ Put(q, [step |-> "answer", tv |-> req[q].tv, must |-> req[q].must,
                  at |-> req[q].at, revoked |-> sess = "ended"])
       \/ Decide(q, req[q].tv, req[q].must, TRUE, "unknown")
    /\ UNCHANGED <<writes, now, account, session, caches>>

FillStatus(q) ==
    /\ At(q, "answer")
    /\ statusCache' = [revoked |-> req[q].revoked, at |-> now]
    /\ Decide(q, req[q].tv, req[q].must, ~req[q].revoked, "session")
    /\ UNCHANGED <<writes, now, account, session, userCache>>

\* The handler runs, or the refusal is sent.
Reply(q) ==
    /\ At(q, "done")
    /\ Put(q, Idle)
    /\ UNCHANGED <<writes, now, account, session, caches>>

----------------------------------------------------------------------------
(* Writers.  A write takes effect in the database; the request that made it *)
(* drops the cache entry when it hears of it.                               *)

\* turned notes the versions on which the account's verdict changes.
SetAccount(a) ==
    /\ acct' = a
    /\ top' = IF a.tv > top THEN a.tv ELSE top
    /\ turned' = [k \in Versions |->
                    IF Refuses(a, k) # Refuses(acct, k) THEN now ELSE turned[k]]

SetBars(B) ==
    /\ SetAccount([tv |-> acct.tv, bars |-> B, must |-> acct.must])
    /\ UNCHANGED crossed

\* Mutant of Raise: the version goes down.
Lower(B) ==
    /\ acct.tv < MaxTv
    /\ SetAccount([tv |-> acct.tv - 1, bars |-> B, must |-> acct.must])
    /\ UNCHANGED crossed

\* increment({ tokenVersion: 1 }), in SQL.
Raise(B) ==
    /\ acct.tv < MaxTv
    /\ SetAccount([tv |-> acct.tv + 1, bars |-> B, must |-> acct.must])
    /\ UNCHANGED crossed

\* findByPk: the row is read, and will be saved with what has changed.
Read(q, what, next) ==
    /\ acct.tv < MaxTv
    /\ Put(q, [step |-> "save", tv |-> acct.tv, what |-> what, next |-> next])

Forgetting(what, next) == [step |-> "forget", what |-> what, next |-> next]

Found == "deleted" \notin acct.bars

\* Ends the session if it is active.
Expire ==
    \/ sess = "active" /\ sess' = "ended" /\ endedAt' = now
    \/ sess # "active" /\ UNCHANGED session

\* A request that writes begins.
Enter ==
    /\ writes < MaxWrites
    /\ writes' = writes + 1

\* logout; a failing increment does not stop it.
Logout(q) ==
    /\ Enter
    /\ Free(q)
    /\ \/ /\ Found
          /\ Raise(acct.bars)
          /\ Put(q, Forgetting("user", "expire"))
       \/ /\ Put(q, [step |-> "expire"])
          /\ UNCHANGED account
    /\ UNCHANGED <<now, session, caches>>

\* changePassword clears mustChangePassword; resetPassword with a token leaves
\* it, and wants an active account.
ChangePassword(q) ==
    /\ Enter
    /\ Free(q)
    /\ Found
    /\ \/ Read(q, IF acct.must THEN "open" ELSE "version", "expire")
       \/ "inactive" \notin acct.bars /\ Read(q, "version", "expire")
    /\ UNCHANGED <<now, account, session, caches>>

\* The administrator's resetPassword.
AdminReset(q) ==
    /\ Enter
    /\ Free(q)
    /\ Found
    /\ Read(q, IF acct.must THEN "version" ELSE "gate", "end")
    /\ UNCHANGED <<now, account, session, caches>>

\* deactivateUser, and updateUser with isActive false or another (active) role;
\* updateUser with isActive true raises nothing.
UpdateUser(q) ==
    /\ Enter
    /\ Free(q)
    /\ Found
    /\ \/ /\ \/ Read(q, IF "inactive" \in acct.bars THEN "version" ELSE "inactive", "end")
             \/ Read(q, "role", "end")
          /\ UNCHANGED account
       \/ /\ SetBars(acct.bars \ {"inactive"})
          /\ Put(q, Forgetting("user", "end"))
    /\ UNCHANGED <<now, session, caches>>

\* What a save makes of mustChangePassword and of the bars: it writes the
\* fields that were changed.
MustAfter(what) == what = "gate" \/ (what # "open" /\ acct.must)
BarsAfter(what) ==
    (acct.bars \cup ({"inactive"} \cap {what})) \ ({"role"} \cap {what})

\* Mutant of SaveUser: the old tokens stay valid.
SaveUnversioned(q) ==
    /\ At(q, "save")
    /\ SetAccount([tv |-> req[q].tv, bars |-> BarsAfter(req[q].what),
                   must |-> MustAfter(req[q].what)])
    /\ crossed' = IF req[q].tv # acct.tv THEN {now} ELSE crossed
    /\ Put(q, Forgetting("user", req[q].next))
    /\ UNCHANGED <<writes, now, session, caches>>

\* user.save: the version is that of the read plus one, whatever it is by now.
SaveUser(q) ==
    /\ At(q, "save")
    /\ SetAccount([tv |-> req[q].tv + 1, bars |-> BarsAfter(req[q].what),
                   must |-> MustAfter(req[q].what)])
    /\ crossed' = IF req[q].tv # acct.tv THEN {now} ELSE crossed
    /\ Put(q, Forgetting("user", req[q].next))
    /\ UNCHANGED <<writes, now, session, caches>>

\* approveUser drops no cache entry.
ApproveUser ==
    /\ Enter
    /\ Found
    /\ "inactive" \in acct.bars
    /\ SetBars(acct.bars \ {"inactive"})
    /\ UNCHANGED <<now, session, caches, req>>

\* updateRole switches the role off or on for all its users, deleteRole moves
\* the users it finds to the active role guest; then clearAllUserCaches.
ChangeRole(q) ==
    /\ Enter
    /\ Free(q)
    /\ \/ SetBars(acct.bars \cup {"role"})
       \/ SetBars(acct.bars \ {"role"})
       \/ Found /\ Raise(acct.bars \ {"role"})
    /\ Put(q, Forgetting("user", "end"))
    /\ UNCHANGED <<now, session, caches>>

\* deleteUser ends the sessions (an error does not stop it), then deletes softly;
\* it drops no cache entry.
DeleteUser(q) ==
    /\ Enter
    /\ Free(q)
    /\ Found
    /\ Expire \/ UNCHANGED session
    /\ Put(q, [step |-> "destroy"])
    /\ UNCHANGED <<now, account, caches>>

DestroyUser(q) ==
    /\ At(q, "destroy")
    /\ SetBars(acct.bars \cup {"deleted"})
    /\ Put(q, Idle)
    /\ UNCHANGED <<writes, now, session, caches>>

RestoreUser(q) ==
    /\ Enter
    /\ Free(q)
    /\ ~Found
    /\ SetBars(acct.bars \ {"deleted", "inactive"})
    /\ Put(q, Forgetting("user", "end"))
    /\ UNCHANGED <<now, session, caches>>

\* terminateOwnSession ends an active session; the administrator's forceLogout
\* any, and then raises tokenVersion.
EndSession(q) ==
    /\ Enter
    /\ Free(q)
    /\ \/ sess = "active" /\ Put(q, Forgetting("status", "end"))
       \/ sess \in {"active", "ended"} /\ Put(q, Forgetting("status", "raise"))
    /\ Expire
    /\ UNCHANGED <<now, account, caches>>

\* The rest of forceLogoutSession; an error is logged.
RaiseAfterEnd(q) ==
    /\ At(q, "raise")
    /\ \/ /\ Found
          /\ Raise(acct.bars)
          /\ Put(q, Forgetting("user", "end"))
       \/ /\ Put(q, Idle)
          /\ UNCHANGED account
    /\ UNCHANGED <<writes, now, session, caches>>

\* invalidateUserCache, clearAllUserCaches, invalidateStatus, and what follows.
ForgetEntry(q) ==
    /\ At(q, "forget")
    /\ IF req[q].what = "user"
         THEN userCache' = None /\ UNCHANGED statusCache
         ELSE statusCache' = None /\ UNCHANGED userCache
    /\ Put(q, IF req[q].next = "end" THEN Idle ELSE [step |-> req[q].next])
    /\ UNCHANGED <<writes, now, account, session>>

\* expireAllUserSessions drops no entry of statusCache; an error is logged.
ExpireAll(q) ==
    /\ At(q, "expire")
    /\ Expire \/ UNCHANGED session
    /\ Put(q, Idle)
    /\ UNCHANGED <<writes, now, account, caches>>

\* createSession, some time after its login; rotateSession gives the row to
\* another token, cleanExpiredSessions deletes it.
MoveSession ==
    /\ \/ sess = "unborn" /\ sess' = "active"
       \/ sess \in {"active", "ended"} /\ sess' = "gone"
    /\ endedAt' = 0
    /\ UNCHANGED <<writes, now, account, caches, req>>

----------------------------------------------------------------------------
Tick ==
    /\ now < MaxNow
    /\ \A q \in Reqs :
          /\ ~At(q, "done")
          /\ req[q].step \in {"fill", "lookup", "answer"} => now - req[q].at < Latency
    /\ now' = now + 1
    /\ UNCHANGED <<writes, account, session, caches, req>>

Init ==
    /\ now = 0
    /\ acct = [tv |-> 0, bars |-> {}, must |-> FALSE]
    /\ sess = "unborn"
    /\ userCache = None
    /\ statusCache = None
    /\ req = [q \in Reqs |-> Idle]
    /\ top = 0
    /\ crossed = {}
    /\ turned = [k \in Versions |-> 0]
    /\ endedAt = 0
    /\ writes = 0

Handle(q) ==
    \/ \E k \in Versions : Hit(q, k) \/ Miss(q, k)
    \/ ReadUser(q) \/ FillUser(q) \/ ReadStatus(q) \/ FillStatus(q) \/ Reply(q)

Administer(q) ==
    \/ Logout(q) \/ ChangePassword(q) \/ AdminReset(q) \/ UpdateUser(q) \/ SaveUser(q)
    \/ ChangeRole(q)
    \/ DeleteUser(q) \/ DestroyUser(q) \/ RestoreUser(q) \/ EndSession(q)
    \/ RaiseAfterEnd(q) \/ ForgetEntry(q) \/ ExpireAll(q)

Next ==
    \/ \E q \in Reqs : Handle(q) \/ Administer(q)
    \/ ApproveUser \/ MoveSession \/ Tick

Spec == Init /\ [][Next]_vars

----------------------------------------------------------------------------
(* Properties.                                                              *)

Decided(q) == At(q, "done")

\* The caches may be wrong about an account, in either direction and whatever
\* drops or fails to drop them, only for so long: a verdict the database no
\* longer supports is given at most one TTL and two answers after the database
\* changed its mind.  (The bound the comment on USER_CACHE_TTL_MS promises;
\* deleteUser and approveUser rely on nothing else.)
BoundedStaleness ==
    \A q \in Reqs :
        Decided(q) /\ (req[q].by = "user") # Refuses(acct, req[q].tv)
            => now <= turned[req[q].tv] + TTL + 2 * Latency

\* The session row is trusted no longer: a request is passed on the word of an
\* ended session less than one TTL and one answer after its end, although
\* expireAllUserSessions leaves statusCache alone.
SessionStaleness ==
    \A q \in Reqs :
        Decided(q) /\ req[q].ok /\ req[q].by = "session" /\ sess = "ended"
            => now < endedAt + TTL + Latency

\* Whoever holds a current token of an account whose password must be changed
\* gets nowhere but /api/auth/, however stale the caches: the flag changes with
\* tokenVersion.  Not so after a save that wrote a version worked out from an
\* outdated read, which others may have used before: then a copy of the account
\* from before may open the gate, but only as long as the caches keep it.
GateHolds ==
    \A q \in Reqs :
        Decided(q) /\ req[q].ok /\ req[q].path = "other" /\ req[q].tv = acct.tv /\ acct.must
            => \E t \in crossed : now <= t + TTL + 2 * Latency
=============================================================================
