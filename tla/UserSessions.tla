---------------------------- MODULE UserSessions ----------------------------
(***************************************************************************)
(* The session rows of one account and the refresh tokens of its devices.  *)
(*                                                                         *)
(* A login sets a refresh token cookie and, without waiting for it, starts *)
(* createSession: upsert a row keyed by the token's hash, then read the    *)
(* active rows and deactivate the oldest beyond the limit.  A refresh      *)
(* checks that the row of its token is active, replaces the row's token by *)
(* the new one, and answers with the new one whatever the replacement did. *)
(* Ending a session clears the row's isActive flag.  (Its names are apart   *)
(* from those of TokenVersion: the two are checked in one run.)            *)
(*                                                                         *)
(* A token is identified by what is signed into it: the tokenVersion and   *)
(* the second it was signed in.  A cookie jar belongs to a device; its     *)
(* tabs refresh independently of each other.                               *)
(*                                                                         *)
(* Source: services/userSession.service.ts, services/auth.service.ts,      *)
(* controllers/userSession.controller.ts, controllers/auth.controller.ts.  *)
(***************************************************************************)
EXTENDS Naturals, FiniteSets

CONSTANTS
    Devices,
    Refreshes,    \* slots for refreshes in flight
    MaxSessions,  \* MAX_SESSIONS_PER_USER
    SameSecond,   \* TRUE: two tokens may be signed in the same second
    MaxFaults,    \* bound on lost answers and failing statements
    MaxLogins,    \* bound on the logins, and so on the rows
    MaxSec,       \* bound on the clock
    MaxTv         \* bound on tokenVersion

ASSUME SessionsAssumption == MaxSessions \in Nat \ {0} /\ SameSecond \in BOOLEAN
ASSUME SessionBounds == MaxLogins \in Nat /\ MaxSec \in Nat /\ MaxTv \in Nat
                        /\ MaxFaults \in Nat

VARIABLES
    sec,       \* the clock, in seconds
    version,   \* users.tokenVersion
    row,       \* the row each login created
    job,       \* createSession of each login: its next step
    expiring,  \* an expireAllUserSessions of a logout is on its way
    jar,       \* the refresh_token cookie of each device
    refresh,   \* refreshes in flight
    home,      \* history: the login each device's cookie descends from
    single,    \* history: its refreshes were one at a time and all answered
    spent,     \* history: tokens that were exchanged for another one
    faults     \* history: how many answers were lost and statements failed

sessionVars == <<sec, version, row, job, expiring, jar, refresh, home, single, spent, faults>>

Logins == 1 .. MaxLogins
RefreshToken == [sec : 0 .. MaxSec, tv : 0 .. MaxTv]
None   == [none |-> TRUE]
Failed == [step |-> "failed"]    \* createSession ended in an error
Absent == [state |-> "absent"]   \* no row yet
Gone   == [state |-> "gone"]     \* the row was ended and has been deleted
Row    == [state : {"active", "ended"}, token : RefreshToken, last : 0 .. MaxSec]
Job    == [step : {"upsert", "limit", "evict"}, token : RefreshToken, excess : SUBSET Logins]
Exchange == [step : {"validate", "rotate", "reply"}, dev : Devices, home : 0 .. MaxLogins,
             old : RefreshToken, new : RefreshToken]

SessionsTypeOK ==
    /\ sec \in 0 .. MaxSec
    /\ version \in 0 .. MaxTv
    /\ row \in [Logins -> Row \cup {Absent, Gone}]
    /\ job \in [Logins -> Job \cup {None, Failed}]
    /\ expiring \in BOOLEAN
    /\ jar \in [Devices -> RefreshToken \cup {None}]
    /\ refresh \in [Refreshes -> Exchange \cup {None}]
    /\ home \in [Devices -> 0 .. MaxLogins]
    /\ single \in [Devices -> BOOLEAN]
    /\ spent \subseteq RefreshToken
    /\ faults \in 0 .. MaxFaults

----------------------------------------------------------------------------
Rows       == {n \in Logins : row[n].state \in {"active", "ended"}}
Active     == {n \in Logins : row[n].state = "active"}
Holding(t) == {n \in Rows : row[n].token = t}

RefreshesOf(d) == {q \in Refreshes : refresh[q] # None /\ refresh[q].dev = d}
Overlap(d)     == \E p \in RefreshesOf(d) : TRUE

Fault   == faults < MaxFaults /\ faults' = faults + 1
NoFault == UNCHANGED faults

\* jwt.sign: the token of this second.
Signed == [sec |-> sec, tv |-> version]

\* Time passes between two signatures, unless they fall in the same second.
Sign == \/ sec < MaxSec /\ sec' = sec + 1
        \/ SameSecond /\ UNCHANGED sec

----------------------------------------------------------------------------
(* Login and createSession.                                                 *)

\* login: the response sets the cookie while createSession is on its way.
Login(d, n) ==
    /\ n = 1 + Cardinality({m \in Logins : job[m] # None \/ row[m] # Absent})
    /\ Sign
    /\ jar' = [jar EXCEPT ![d] = Signed]
    /\ job' = [job EXCEPT ![n] = [step |-> "upsert", token |-> Signed, excess |-> {}]]
    /\ home' = [home EXCEPT ![d] = n]
    /\ single' = [single EXCEPT ![d] = ~Overlap(d)]
    /\ UNCHANGED <<version, row, expiring, refresh, spent, faults>>

\* An upsert that leaves lastActiveAt out.
UpsertUndated(n) ==
    /\ job[n] # None /\ job[n].step = "upsert"
    /\ row' = [row EXCEPT ![n] = [state |-> "active", token |-> job[n].token]]
    /\ job' = [job EXCEPT ![n].step = "limit"]
    /\ UNCHANGED <<sec, version, expiring, jar, refresh, home, single, spent, faults>>

\* UserSession.upsert, on the unique sessionToken: a row that has it already
\* is made active again.
Upsert(n) ==
    /\ job[n] # None /\ job[n].step = "upsert"
    /\ LET t == job[n].token
           r == [state |-> "active", token |-> t, last |-> sec] IN
         IF Holding(t) = {} THEN row' = [row EXCEPT ![n] = r]
         ELSE row' = [m \in Logins |-> IF m \in Holding(t) THEN r
                                       ELSE IF m = n THEN Gone ELSE row[m]]
    /\ job' = [job EXCEPT ![n].step = "limit"]
    /\ UNCHANGED <<sec, version, expiring, jar, refresh, home, single, spent, faults>>

\* One too few.
OldestButOne(S, k) ==
    /\ Cardinality(S) = k - 1
    /\ \A m \in S, n \in Active \ S : row[m].last <= row[n].last

\* S are k of the active rows, and none of the others was active earlier.
Oldest(S, k) ==
    /\ Cardinality(S) = k
    /\ \A m \in S, n \in Active \ S : row[m].last <= row[n].last

\* enforceSessionLimit reads the active rows ...
ReadLimit(n) ==
    /\ job[n] # None /\ job[n].step = "limit"
    /\ IF Cardinality(Active) > MaxSessions
       THEN \E S \in SUBSET Active :
              /\ Oldest(S, Cardinality(Active) - MaxSessions)
              /\ job' = [job EXCEPT ![n].step = "evict", ![n].excess = S]
       ELSE job' = [job EXCEPT ![n] = None]
    /\ UNCHANGED <<sec, version, row, expiring, jar, refresh, home, single, spent, faults>>

End(S) == row' = [n \in Logins |->
                    IF n \in S \cap Rows THEN [row[n] EXCEPT !.state = "ended"] ELSE row[n]]

\* ... and deactivates, by id, those it found to be too many.
Evict(n) ==
    /\ job[n] # None /\ job[n].step = "evict"
    /\ End(job[n].excess)
    /\ job' = [job EXCEPT ![n] = None]
    /\ UNCHANGED <<sec, version, expiring, jar, refresh, home, single, spent, faults>>

\* An error in createSession is logged: no row, or no end to the excess.
SessionFails(n) ==
    /\ Fault
    /\ job[n] \notin {None, Failed}
    /\ row' = [row EXCEPT ![n] = IF job[n].step = "upsert" THEN Gone ELSE @]
    /\ job' = [job EXCEPT ![n] = Failed]
    /\ UNCHANGED <<sec, version, expiring, jar, refresh, home, single, spent>>

----------------------------------------------------------------------------
(* Refresh.                                                                 *)

\* refreshToken compares the tokenVersion and signs the new token.
RefreshBegin(q, d) ==
    /\ refresh[q] = None
    /\ jar[d] # None /\ jar[d].tv = version
    /\ Sign
    /\ refresh' = [refresh EXCEPT ![q] =
                     [step |-> "validate", dev |-> d, home |-> home[d],
                      old |-> jar[d], new |-> Signed]]
    /\ single' = [single EXCEPT ![d] = @ /\ ~Overlap(d)]
    /\ UNCHANGED <<version, row, job, expiring, jar, home, spent, faults>>

At(q, s) == refresh[q] # None /\ refresh[q].step = s

\* validateSession: an active row has the old token, or the refresh is refused,
\* as it is after an error.
Validate(q) ==
    /\ At(q, "validate")
    /\ \/ /\ Holding(refresh[q].old) \cap Active # {}
          /\ refresh' = [refresh EXCEPT ![q].step = "rotate"]
          /\ NoFault
       \/ /\ \/ Holding(refresh[q].old) \cap Active = {} /\ NoFault
             \/ Fault
          /\ refresh' = [refresh EXCEPT ![q] = None]
    /\ UNCHANGED <<sec, version, row, job, expiring, jar, home, single, spent>>

\* A rotation that only marks the row as used.
RotateTouching(q) ==
    /\ At(q, "rotate")
    /\ row' = [n \in Logins |->
         IF n \in Holding(refresh[q].old) \cap Active THEN [row[n] EXCEPT !.last = sec] ELSE row[n]]
    /\ spent' = spent \cup {refresh[q].old}
    /\ refresh' = [refresh EXCEPT ![q].step = "reply"]
    /\ UNCHANGED <<sec, version, job, expiring, jar, home, single, faults>>

\* A rotation that makes whatever row it finds active.
RotateReviving(q) ==
    /\ At(q, "rotate")
    /\ LET new == [state |-> "active", token |-> refresh[q].new, last |-> sec] IN
         row' = [n \in Logins |-> IF n \in Holding(refresh[q].old) THEN new ELSE row[n]]
    /\ spent' = spent \cup {refresh[q].old}
    /\ refresh' = [refresh EXCEPT ![q].step = "reply"]
    /\ UNCHANGED <<sec, version, job, expiring, jar, home, single, faults>>

\* rotateSession replaces the token of the active row; no such row, and a row
\* that already has the new token (a unique violation), are both ignored.
Rotate(q) ==
    /\ At(q, "rotate")
    /\ LET old == refresh[q].old
           new == refresh[q].new
           hit == Holding(old) \cap Active IN
         /\ IF hit # {} /\ Holding(new) \subseteq hit
            THEN row' = [n \in Logins |->
                   IF n \in hit THEN [row[n] EXCEPT !.token = new, !.last = sec] ELSE row[n]]
            ELSE UNCHANGED row
         /\ spent' = IF new = old THEN spent ELSE spent \cup {old}
    /\ refresh' = [refresh EXCEPT ![q].step = "reply"]
    /\ UNCHANGED <<sec, version, job, expiring, jar, home, single, faults>>

\* So is any other error of the statement; the old token is not exchanged.
RotateFails(q) ==
    /\ Fault
    /\ At(q, "rotate")
    /\ refresh' = [refresh EXCEPT ![q].step = "reply"]
    /\ single' = [single EXCEPT ![refresh[q].dev] = FALSE]
    /\ UNCHANGED <<sec, version, row, job, expiring, jar, home, spent>>

\* An answer that leaves the old cookie.
ReplyWithoutCookie(q) ==
    /\ At(q, "reply")
    /\ refresh' = [refresh EXCEPT ![q] = None]
    /\ UNCHANGED <<sec, version, row, job, expiring, jar, home, single, spent, faults>>

\* The answer sets the cookie ...
Reply(q) ==
    /\ At(q, "reply")
    /\ jar' = [jar EXCEPT ![refresh[q].dev] = refresh[q].new]
    /\ home' = [home EXCEPT ![refresh[q].dev] = refresh[q].home]
    /\ refresh' = [refresh EXCEPT ![q] = None]
    /\ UNCHANGED <<sec, version, row, job, expiring, single, spent, faults>>

\* ... or never arrives.
ReplyLost(q) ==
    /\ Fault
    /\ At(q, "reply")
    /\ single' = [single EXCEPT ![refresh[q].dev] = FALSE]
    /\ refresh' = [refresh EXCEPT ![q] = None]
    /\ UNCHANGED <<sec, version, row, job, expiring, jar, home, spent>>

----------------------------------------------------------------------------
(* Ending sessions.                                                         *)

\* terminateOwnSession, from a device d whose own session it is not.
Terminate(d, n) ==
    /\ jar[d] # None /\ jar[d].tv = version
    /\ n \in Active
    /\ row[n].token # jar[d]
    /\ End({n})
    /\ UNCHANGED <<sec, version, job, expiring, jar, refresh, home, single, spent, faults>>

\* forceLogoutSession ends the row, then raises tokenVersion; a failure of the
\* second step is logged and ignored.
ForceLogout(n) ==
    /\ n \in Rows
    /\ End({n})
    /\ \/ version < MaxTv /\ version' = version + 1 /\ NoFault
       \/ Fault /\ UNCHANGED version
    /\ UNCHANGED <<sec, job, expiring, jar, refresh, home, single, spent>>

\* logout raises tokenVersion (an error is ignored), starts
\* expireAllUserSessions without waiting for it, and clears the cookie.
LogoutDevice(d) ==
    /\ jar[d] # None /\ jar[d].tv = version
    /\ \/ version < MaxTv /\ version' = version + 1 /\ NoFault
       \/ Fault /\ UNCHANGED version
    /\ expiring' = TRUE
    /\ jar' = [jar EXCEPT ![d] = None]
    /\ UNCHANGED <<sec, row, job, refresh, home, single, spent>>

ExpireAll ==
    /\ expiring
    /\ \/ End(Active) /\ NoFault
       \/ Fault /\ UNCHANGED row
    /\ expiring' = FALSE
    /\ UNCHANGED <<sec, version, job, jar, refresh, home, single, spent>>

\* cleanExpiredSessions deletes ended rows created more than a week ago.
Clean(n) ==
    /\ n \in Rows \ Active
    /\ row' = [row EXCEPT ![n] = Gone]
    /\ UNCHANGED <<sec, version, job, expiring, jar, refresh, home, single, spent, faults>>

----------------------------------------------------------------------------
SessionsInit ==
    /\ sec = 0
    /\ version = 0
    /\ row = [n \in Logins |-> Absent]
    /\ job = [n \in Logins |-> None]
    /\ expiring = FALSE
    /\ jar = [d \in Devices |-> None]
    /\ refresh = [q \in Refreshes |-> None]
    /\ home = [d \in Devices |-> 0]
    /\ single = [d \in Devices |-> TRUE]
    /\ spent = {}
    /\ faults = 0

SessionsNext ==
    \/ ExpireAll
    \/ \E n \in Logins :
         \/ \E d \in Devices : Login(d, n) \/ Terminate(d, n)
         \/ Upsert(n) \/ ReadLimit(n) \/ Evict(n) \/ SessionFails(n)
         \/ ForceLogout(n) \/ Clean(n)
    \/ \E q \in Refreshes :
         \/ \E d \in Devices : RefreshBegin(q, d)
         \/ Validate(q) \/ Rotate(q) \/ RotateFails(q) \/ Reply(q) \/ ReplyLost(q)
    \/ \E d \in Devices : LogoutDevice(d)

SessionsSpec == SessionsInit /\ [][SessionsNext]_sessionVars

----------------------------------------------------------------------------
(* Properties.                                                              *)

\* Once every createSession has finished without an error, at most MaxSessions sessions are
\* active, however the unlocked reads and updates of concurrent logins mix
\* with each other and with refreshes.
SessionLimit ==
    (\A n \in Logins : job[n] = None) => Cardinality(Active) <= MaxSessions

\* A token that was exchanged is in no active row again, so it can never be
\* exchanged a second time by a refresh that starts later.
ExchangedTokensAreDead ==
    \A n \in Active : row[n].token \notin spent

\* A device whose session was ended is out until it logs in again: no rotation
\* or createSession under way brings the session back, and what the device
\* holds is in no active row, although a refresh answers with a new token even
\* when its session was ended meanwhile.
Out(d) == jar[d] # None /\ row[home[d]].state \in {"ended", "gone"}
EndedDevicesCannotRefresh ==
    [][\A d \in Devices :
         (Out(d) /\ jar'[d] # None /\ home'[d] = home[d])
             => Out(d)' /\ (Holding(jar[d]) \cap Active = {})']_sessionVars

\* A device that refreshes one at a time, without errors, and gets every
\* answer, holds the token of its session's row for as long as that is active.
SteadyDevicesKeepTheirSession ==
    \A d \in Devices :
        (single[d] /\ jar[d] # None /\ RefreshesOf(d) = {} /\ home[d] \in Active)
            => row[home[d]].token = jar[d]
=============================================================================
