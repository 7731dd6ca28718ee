------------------------- MODULE AuthenticateProofs -------------------------
(***************************************************************************)
(* Proofs about Authenticate, for any number of requests in flight, any    *)
(* TTL, any latency and any bounds.                                        *)
(***************************************************************************)
EXTENDS Authenticate, TLAPS

----------------------------------------------------------------------------
(* The types of a request at a given step.                                  *)

LEMMA RequestAt ==
    ASSUME TypeOK, NEW q \in Reqs
    PROVE  /\ At(q, "fetch") => req[q] \in Fetch
           /\ At(q, "fill") => req[q] \in Fill
           /\ At(q, "lookup") => req[q] \in Lookup
           /\ At(q, "answer") => req[q] \in Answer
           /\ At(q, "done") => req[q] \in Done
           /\ At(q, "save") => req[q] \in Save
           /\ At(q, "forget") => req[q] \in Forget
<1>1. req[q] \in Request \cup {Idle}
  BY DEF TypeOK
<1> QED
  BY <1>1 DEF Request, Fetch, Fill, Lookup, Answer, Done, Save, Forget, Write, Idle, At

LEMMA PutType ==
    ASSUME TypeOK, NEW q \in Reqs, NEW r \in Request \cup {Idle}, Put(q, r)
    PROVE  req' \in [Reqs -> Request \cup {Idle}]
BY DEF TypeOK, Put

LEMMA DecideType ==
    ASSUME TypeOK, NEW q \in Reqs, NEW k \in Versions, NEW must, NEW passes,
           NEW by \in {"user", "session", "unknown", "untracked"},
           Decide(q, k, must, passes, by)
    PROVE  req' \in [Reqs -> Request \cup {Idle}]
<1>1. PICK path \in Paths :
        Put(q, [step |-> "done", tv |-> k, path |-> path, by |-> by,
                ok |-> passes /\ ~(must /\ path # "auth")])
  BY DEF Decide
<1> DEFINE ok == passes /\ ~(must /\ path # "auth")
           r  == [step |-> "done", tv |-> k, path |-> path, by |-> by, ok |-> ok]
<1>2. ok \in BOOLEAN
  OBVIOUS
<1>3. r \in Done
  <2> HIDE DEF ok
  <2> QED
    BY <1>2 DEF Done
<1>4. r \in Request
  BY <1>3 DEF Request
<1> QED
  BY <1>1, <1>4, PutType

LEMMA JudgeType ==
    ASSUME TypeOK, NEW q \in Reqs, NEW k \in Versions, NEW a \in Account, Judge(q, k, a)
    PROVE  req' \in [Reqs -> Request \cup {Idle}]
<1>1. a.must \in BOOLEAN /\ now \in Nat
  BY DEF Account, TypeOK
<1>2. CASE Put(q, [step |-> "lookup", tv |-> k, must |-> a.must, at |-> now])
  <2>1. [step |-> "lookup", tv |-> k, must |-> a.must, at |-> now] \in Request
    BY <1>1 DEF Request, Lookup
  <2> QED
    BY <1>2, <2>1, PutType
<1>3. CASE \/ Decide(q, k, FALSE, FALSE, "user")
           \/ Decide(q, k, a.must, TRUE, "untracked")
           \/ Decide(q, k, a.must, ~statusCache.revoked, "session")
  BY <1>3, DecideType
<1> QED
  BY <1>2, <1>3 DEF Judge, CheckSession

LEMMA HandleType ==
    ASSUME TypeOK, NEW q \in Reqs, Handle(q)
    PROVE  TypeOK'
<1>1. ASSUME NEW k \in Versions, Hit(q, k) PROVE TypeOK'
  <2>1. userCache.user \in Account
    BY <1>1 DEF Hit, UserHit, TypeOK, CachedUser
  <2>2. req' \in [Reqs -> Request \cup {Idle}]
    BY <1>1, <2>1, JudgeType DEF Hit
  <2> QED
    BY <1>1, <2>2 DEF Hit, TypeOK, account, session, caches
<1>2. ASSUME NEW k \in Versions, Miss(q, k) PROVE TypeOK'
  <2>1. [step |-> "fetch", tv |-> k] \in Request
    BY DEF Request, Fetch
  <2>2. req' \in [Reqs -> Request \cup {Idle}]
    BY <1>2, <2>1, PutType DEF Miss
  <2> QED
    BY <1>2, <2>2 DEF Miss, TypeOK, account, session
<1>3. CASE ReadUser(q)
  <2>1. req[q] \in Fetch
    BY <1>3, RequestAt DEF ReadUser
  <2>2. [step |-> "fill", tv |-> req[q].tv, user |-> acct, at |-> now] \in Request
    BY <2>1 DEF TypeOK, Fetch, Request, Fill
  <2>3. req' \in [Reqs -> Request \cup {Idle}]
    BY <1>3, <2>2, PutType DEF ReadUser
  <2> QED
    BY <1>3, <2>3 DEF ReadUser, TypeOK, account, session, caches
<1>4. CASE FillUser(q)
  <2>1. req[q] \in Fill
    BY <1>4, RequestAt DEF FillUser
  <2>2. req[q].user \in Account /\ req[q].tv \in Versions
    BY <2>1 DEF Fill
  <2>3. req' \in [Reqs -> Request \cup {Idle}]
    BY <1>4, <2>2, JudgeType DEF FillUser
  <2>4. userCache' \in CachedUser
    BY <1>4, <2>2 DEF FillUser, CachedUser, TypeOK
  <2> QED
    BY <1>4, <2>3, <2>4 DEF FillUser, TypeOK, account, session
<1>5. CASE ReadStatus(q)
  <2>1. req[q] \in Lookup
    BY <1>5, RequestAt DEF ReadStatus
  <2> DEFINE revoked == sess = "ended"
  <2>2. revoked \in BOOLEAN
    OBVIOUS
  <2>3. [step |-> "answer", tv |-> req[q].tv, must |-> req[q].must,
         at |-> req[q].at, revoked |-> revoked] \in Request
    <3> HIDE DEF revoked
    <3> QED
      BY <2>1, <2>2 DEF Lookup, Request, Answer
  <2>4. req' \in [Reqs -> Request \cup {Idle}]
    <3>1. req[q].tv \in Versions
      BY <2>1 DEF Lookup
    <3> QED
      BY <1>5, <2>3, <3>1, PutType, DecideType DEF ReadStatus
  <2> QED
    BY <1>5, <2>4 DEF ReadStatus, TypeOK, account, session, caches
<1>6. CASE FillStatus(q)
  <2>1. req[q] \in Answer
    BY <1>6, RequestAt DEF FillStatus
  <2>2. req[q].tv \in Versions
    BY <2>1 DEF Answer
  <2>3. req' \in [Reqs -> Request \cup {Idle}]
    BY <1>6, <2>2, DecideType DEF FillStatus
  <2>4. statusCache' \in CachedStatus
    BY <1>6, <2>1 DEF FillStatus, CachedStatus, Answer, TypeOK
  <2> QED
    BY <1>6, <2>3, <2>4 DEF FillStatus, TypeOK, account, session
<1>7. CASE Reply(q)
  <2>1. req' \in [Reqs -> Request \cup {Idle}]
    BY <1>7, PutType DEF Reply
  <2> QED
    BY <1>7, <2>1 DEF Reply, TypeOK, account, session, caches
<1> QED
  BY <1>1, <1>2, <1>3, <1>4, <1>5, <1>6, <1>7 DEF Handle

----------------------------------------------------------------------------
(* The types of what writers leave.                                         *)

LEMMA SetAccountType ==
    ASSUME TypeOK, NEW a \in Account, SetAccount(a)
    PROVE  acct' \in Account /\ top' \in Versions /\ turned' \in [Versions -> Nat]
BY DEF SetAccount, TypeOK, Account

LEMMA SetBarsType ==
    ASSUME TypeOK, NEW B \in SUBSET Bars, SetBars(B)
    PROVE  /\ acct' \in Account /\ top' \in Versions /\ turned' \in [Versions -> Nat]
           /\ crossed' = crossed
<1>1. [tv |-> acct.tv, bars |-> B, must |-> acct.must] \in Account
  BY DEF TypeOK, Account
<1> QED
  BY <1>1, SetAccountType DEF SetBars

LEMMA RaiseType ==
    ASSUME TypeOK, NEW B \in SUBSET Bars, Raise(B)
    PROVE  /\ acct' \in Account /\ top' \in Versions /\ turned' \in [Versions -> Nat]
           /\ crossed' = crossed
<1>1. acct.tv + 1 \in Versions
  BY BoundAssumption DEF Raise, TypeOK, Account, Versions
<1>2. [tv |-> acct.tv + 1, bars |-> B, must |-> acct.must] \in Account
  BY <1>1 DEF Account, TypeOK
<1> QED
  BY <1>2, SetAccountType DEF Raise

\* What a save writes.
SavedAccount(w) == [tv |-> w.tv + 1, bars |-> BarsAfter(w.what), must |-> MustAfter(w.what)]

LEMMA SavedType ==
    ASSUME TypeOK, NEW w \in Save
    PROVE  SavedAccount(w) \in Account
<1>1. w.tv + 1 \in Versions
  BY BoundAssumption DEF Save, Versions
<1>2. BarsAfter(w.what) \in SUBSET Bars
  BY DEF BarsAfter, Bars, TypeOK, Account
<1>3. MustAfter(w.what) \in BOOLEAN
  BY DEF MustAfter
<1> QED
  BY <1>1, <1>2, <1>3 DEF SavedAccount, Account

\* What the writers make of bars and mustChangePassword has its type.
LEMMA BarsAndMust ==
    ASSUME TypeOK
    PROVE  /\ acct.bars \in SUBSET Bars
           /\ \A b : acct.bars \ {b} \in SUBSET Bars
           /\ \A b, c : acct.bars \ {b, c} \in SUBSET Bars
           /\ \A b \in Bars : acct.bars \cup {b} \in SUBSET Bars
           /\ acct.must \in BOOLEAN
           /\ {"inactive", "deleted", "role"} \subseteq Bars
<1>1. acct.bars \in SUBSET Bars /\ acct.must \in BOOLEAN
  BY DEF TypeOK, Account
<1>2. {"inactive", "deleted", "role"} \subseteq Bars
  BY DEF Bars
<1> QED
  BY <1>1, <1>2

LEMMA WriterRecords ==
    /\ \A s \in {"raise", "expire", "destroy"} : [step |-> s] \in Request
    /\ \A what \in {"user", "status"}, next \in {"end", "raise", "expire"} :
          Forgetting(what, next) \in Request
    /\ \A tv \in Versions \ {MaxTv}, what \in Changes, next \in {"end", "expire"} :
          [step |-> "save", tv |-> tv, what |-> what, next |-> next] \in Request
BY DEF Request, Write, Forget, Forgetting, Save

LEMMA EnterType == TypeOK /\ Enter => writes' \in 0 .. MaxWrites
BY BoundAssumption DEF TypeOK, Enter

LEMMA ExpireType ==
    ASSUME TypeOK, Expire \/ UNCHANGED session
    PROVE  sess' \in {"unborn", "active", "ended", "gone"} /\ endedAt' \in Nat
BY DEF TypeOK, Expire, session

LEMMA ReadType ==
    ASSUME TypeOK, NEW q \in Reqs, NEW what \in Changes, NEW next \in {"end", "expire"},
           Read(q, what, next)
    PROVE  req' \in [Reqs -> Request \cup {Idle}]
<1>1. acct.tv \in Versions \ {MaxTv}
  BY BoundAssumption DEF Read, TypeOK, Account, Versions
<1> QED
  BY <1>1, WriterRecords, PutType DEF Read

\* The requests that write the account, but for a save.
AccountWriter(q) ==
    \/ Logout(q) \/ ChangePassword(q) \/ AdminReset(q) \/ UpdateUser(q)
    \/ ChangeRole(q) \/ DestroyUser(q) \/ RestoreUser(q) \/ RaiseAfterEnd(q)

\* All they do to the account, as one disjunction.
LEMMA WhatWritersWrite ==
    ASSUME TypeOK, NEW q \in Reqs, AccountWriter(q)
    PROVE  /\ \/ \E B \in SUBSET Bars : SetBars(B)
              \/ \E B \in SUBSET Bars : Raise(B)
              \/ UNCHANGED account
           /\ \/ \E what \in Changes, next \in {"end", "expire"} : Read(q, what, next)
              \/ \E next \in {"end", "expire"} : Put(q, Forgetting("user", next))
              \/ Put(q, [step |-> "expire"])
              \/ Put(q, Idle)
           /\ Enter \/ UNCHANGED writes
           /\ UNCHANGED <<now, session, caches>>
<1>1. CASE Logout(q)
  BY <1>1, BarsAndMust DEF Logout
<1>2. CASE ChangePassword(q)
  BY <1>2 DEF ChangePassword, Changes
<1>3. CASE AdminReset(q)
  BY <1>3 DEF AdminReset, Changes
<1>4. CASE UpdateUser(q)
  BY <1>4, BarsAndMust DEF UpdateUser, Changes
<1>5. CASE ChangeRole(q)
  BY <1>5, BarsAndMust DEF ChangeRole
<1>6. CASE DestroyUser(q)
  BY <1>6, BarsAndMust DEF DestroyUser
<1>7. CASE RestoreUser(q)
  BY <1>7, BarsAndMust DEF RestoreUser
<1>8. CASE RaiseAfterEnd(q)
  BY <1>8, BarsAndMust DEF RaiseAfterEnd
<1> QED
  BY <1>1, <1>2, <1>3, <1>4, <1>5, <1>6, <1>7, <1>8 DEF AccountWriter

LEMMA AccountWriterType ==
    ASSUME TypeOK, NEW q \in Reqs, AccountWriter(q)
    PROVE  TypeOK'
<1>1. /\ acct' \in Account /\ top' \in Versions /\ turned' \in [Versions -> Nat]
      /\ crossed' = crossed
  BY WhatWritersWrite, SetBarsType, RaiseType DEF account, TypeOK
<1>2. req' \in [Reqs -> Request \cup {Idle}]
  BY WhatWritersWrite, WriterRecords, PutType, ReadType
<1>3. writes' \in 0 .. MaxWrites
  BY WhatWritersWrite, EnterType DEF TypeOK
<1> QED
  BY <1>1, <1>2, <1>3, WhatWritersWrite DEF TypeOK, session, caches

LEMMA SaveUserType ==
    ASSUME TypeOK, NEW q \in Reqs, SaveUser(q)
    PROVE  TypeOK'
<1>1. req[q] \in Save
  BY RequestAt DEF SaveUser
<1>2. acct' \in Account /\ top' \in Versions /\ turned' \in [Versions -> Nat]
  BY <1>1, SavedType, SetAccountType DEF SaveUser, SavedAccount
<1>3. crossed' \subseteq Nat
  BY DEF SaveUser, TypeOK
<1>4. req' \in [Reqs -> Request \cup {Idle}]
  <2>1. Forgetting("user", req[q].next) \in Request
    BY <1>1, WriterRecords DEF Save
  <2> QED
    BY <2>1, PutType DEF SaveUser
<1> QED
  BY <1>2, <1>3, <1>4 DEF SaveUser, TypeOK, session, caches

LEMMA AdministerType ==
    ASSUME TypeOK, NEW q \in Reqs, Administer(q)
    PROVE  TypeOK'
<1>1. CASE AccountWriter(q)
  BY <1>1, AccountWriterType
<1>2. CASE DeleteUser(q)
  <2>1. req' \in [Reqs -> Request \cup {Idle}]
    BY <1>2, WriterRecords, PutType DEF DeleteUser
  <2> QED
    BY <1>2, <2>1, ExpireType, EnterType DEF DeleteUser, TypeOK, account, caches
<1>3. CASE EndSession(q)
  <2>1. req' \in [Reqs -> Request \cup {Idle}]
    BY <1>3, WriterRecords, PutType DEF EndSession
  <2> QED
    BY <1>3, <2>1, ExpireType, EnterType DEF EndSession, TypeOK, account, caches
<1>4. CASE ForgetEntry(q)
  <2>1. req[q] \in Forget
    BY <1>4, RequestAt DEF ForgetEntry
  <2>2. req[q].next \in {"end", "raise", "expire"}
    BY <2>1 DEF Forget
  <2>3. (IF req[q].next = "end" THEN Idle ELSE [step |-> req[q].next]) \in Request \cup {Idle}
    BY <2>2, WriterRecords
  <2>4. req' \in [Reqs -> Request \cup {Idle}]
    BY <1>4, <2>3, PutType DEF ForgetEntry
  <2> QED
    BY <1>4, <2>4 DEF ForgetEntry, TypeOK, account, session
<1>5. CASE ExpireAll(q)
  <2>1. req' \in [Reqs -> Request \cup {Idle}]
    BY <1>5, PutType DEF ExpireAll
  <2> QED
    BY <1>5, <2>1, ExpireType DEF ExpireAll, TypeOK, account, caches
<1>6. CASE SaveUser(q)
  BY <1>6, SaveUserType
<1> QED
  BY <1>1, <1>2, <1>3, <1>4, <1>5, <1>6 DEF Administer, AccountWriter

LEMMA NextType == TypeOK /\ [Next]_vars => TypeOK'
<1> SUFFICES ASSUME TypeOK, [Next]_vars PROVE TypeOK'
  OBVIOUS
<1>1. ASSUME NEW q \in Reqs, Handle(q) \/ Administer(q) PROVE TypeOK'
  BY <1>1, HandleType, AdministerType
<1>2. CASE ApproveUser
  <2>1. /\ acct' \in Account /\ top' \in Versions /\ turned' \in [Versions -> Nat]
        /\ crossed' = crossed
    BY <1>2, BarsAndMust, SetBarsType DEF ApproveUser
  <2> QED
    BY <1>2, <2>1, EnterType DEF ApproveUser, TypeOK, session, caches
<1>3. CASE MoveSession
  BY <1>3 DEF MoveSession, TypeOK, account, caches
<1>4. CASE Tick
  BY <1>4 DEF Tick, TypeOK, account, session, caches
<1>5. CASE UNCHANGED vars
  BY <1>5 DEF vars, TypeOK
<1> QED
  BY <1>1, <1>2, <1>3, <1>4, <1>5 DEF Next

LEMMA InitType == Init => TypeOK
<1> SUFFICES ASSUME Init PROVE TypeOK
  OBVIOUS
<1>1. 0 \in Versions /\ 0 \in 0 .. MaxWrites
  BY BoundAssumption DEF Versions
<1>2. acct \in Account
  BY <1>1 DEF Init, Account
<1> QED
  BY <1>1, <1>2 DEF Init, TypeOK

\* The variables keep their types.
THEOREM TypeCorrect == Spec => []TypeOK
BY InitType, NextType, PTL DEF Spec

----------------------------------------------------------------------------
(* The inductive invariant: how far each copy of the account and of the     *)
(* session may lag behind the database.                                     *)

\* a was the account at time t or later: whatever the database says otherwise
\* about a token it has said since t.
Trails(a, t) ==
    \A k \in Versions : Refuses(a, k) # Refuses(acct, k) => t <= turned[k]

\* A save from an outdated read came at time t or later.
Crossed(t) == \E c \in crossed : t <= c

\* Otherwise mustChangePassword has changed only together with tokenVersion
\* since t, and that has not gone down.
Dated(k, must, t) ==
    \/ Crossed(t)
    \/ k <= acct.tv /\ (k = acct.tv => must = acct.must)

\* A request that passed the account's check at time t.
Passed(k, must, t) ==
    /\ Refuses(acct, k) => t <= turned[k] + Latency + TTL
    /\ Dated(k, must, t - Latency - TTL)

Recent(t) == t <= now /\ now <= t + Latency

HistoryInv == endedAt <= now /\ \A k \in Versions : turned[k] <= now

UserCacheInv ==
    userCache # None =>
        /\ userCache.at <= now
        /\ Trails(userCache.user, userCache.at - Latency)
        /\ Dated(userCache.user.tv, userCache.user.must, userCache.at - Latency)

StatusCacheInv ==
    statusCache # None =>
        /\ statusCache.at <= now
        /\ ~statusCache.revoked /\ sess = "ended" => statusCache.at <= endedAt + Latency

FillInv(q) ==
    At(q, "fill") =>
        /\ Recent(req[q].at)
        /\ Trails(req[q].user, req[q].at)
        /\ Dated(req[q].user.tv, req[q].user.must, req[q].at)

LookupInv(q) ==
    At(q, "lookup") \/ At(q, "answer") =>
        /\ Recent(req[q].at)
        /\ Passed(req[q].tv, req[q].must, req[q].at)

AnswerInv(q) ==
    At(q, "answer") =>
        (~req[q].revoked /\ sess = "ended" => req[q].at <= endedAt)

DoneInv(q) ==
    At(q, "done") =>
        /\ (req[q].by = "user") # Refuses(acct, req[q].tv)
              => now <= turned[req[q].tv] + TTL + 2 * Latency
        /\ req[q].ok /\ req[q].by = "session" /\ sess = "ended"
              => now < endedAt + TTL + Latency
        /\ req[q].ok /\ req[q].path = "other"
              => Dated(req[q].tv, FALSE, now - TTL - 2 * Latency)

RequestInv(q) == FillInv(q) /\ LookupInv(q) /\ AnswerInv(q) /\ DoneInv(q)

IInv ==
    /\ TypeOK
    /\ HistoryInv
    /\ UserCacheInv
    /\ StatusCacheInv
    /\ \A q \in Reqs : RequestInv(q)

LEMMA InitInv == Init => IInv
<1> SUFFICES ASSUME Init PROVE IInv
  OBVIOUS
<1>1. HistoryInv /\ UserCacheInv /\ StatusCacheInv
  BY DEF Init, HistoryInv, UserCacheInv, StatusCacheInv
<1>2. \A q \in Reqs : RequestInv(q)
  BY DEF Init, Idle, RequestInv, FillInv, LookupInv, AnswerInv, DoneInv, At
<1> QED
  BY <1>1, <1>2, InitType DEF IInv

----------------------------------------------------------------------------
(* Steps of the database: the account or the session changes, no request    *)
(* moves forward except the writer itself, cache entries are only dropped.  *)

AccountStep ==
    /\ \/ crossed' = {now}
       \/ /\ crossed' = crossed
          /\ acct'.tv >= acct.tv
          /\ acct'.tv = acct.tv => acct'.must = acct.must
    /\ \A k \in Versions :
          \/ turned'[k] = now
          \/ turned'[k] = turned[k] /\ Refuses(acct, k)' = Refuses(acct, k)

SessionStep ==
    /\ endedAt' <= now
    /\ sess' = "ended" => endedAt' = now \/ (sess = "ended" /\ endedAt' = endedAt)

\* The requests that are no writers' stay as they are.
Bystanders ==
    \A q \in Reqs :
        \/ req'[q] = req[q]
        \/ ~\E s \in {"fill", "lookup", "answer", "done"} : At(q, s)'

DatabaseStep ==
    /\ AccountStep /\ SessionStep /\ Bystanders
    /\ now' = now
    /\ userCache' \in {userCache, None}
    /\ statusCache' \in {statusCache, None}

LEMMA TrailsOn ==
    ASSUME AccountStep, NEW a, NEW t, t <= now, Trails(a, t)
    PROVE  \A k \in Versions : Refuses(a, k) # Refuses(acct', k) => t <= turned'[k]
<1> SUFFICES ASSUME NEW k \in Versions, Refuses(a, k) # Refuses(acct', k)
             PROVE  t <= turned'[k]
  OBVIOUS
<1>1. CASE turned'[k] = now
  BY <1>1
<1>2. CASE turned'[k] = turned[k] /\ Refuses(acct', k) = Refuses(acct, k)
  BY <1>2 DEF Trails
<1> QED
  BY <1>1, <1>2 DEF AccountStep, Refuses

LEMMA DatedOn ==
    ASSUME TypeOK, TypeOK', AccountStep, NEW k \in Versions, NEW must, NEW t \in Int,
           t <= now, Dated(k, must, t)
    PROVE  \/ \E c \in crossed' : t <= c
           \/ k <= acct'.tv /\ (k = acct'.tv => must = acct'.must)
<1>1. CASE crossed' = {now}
  BY <1>1 DEF Crossed
<1>2. CASE crossed' = crossed /\ Crossed(t)
  BY <1>2 DEF Crossed
<1>3. CASE /\ acct'.tv >= acct.tv /\ (acct'.tv = acct.tv => acct'.must = acct.must)
           /\ k <= acct.tv /\ (k = acct.tv => must = acct.must)
  <2>1. acct.tv \in Int /\ acct'.tv \in Int /\ k \in Int
    BY DEF TypeOK, Account, Versions
  <2> QED
    BY <1>3, <2>1
<1> QED
  BY <1>1, <1>2, <1>3 DEF AccountStep, Dated

LEMMA PassedOn ==
    ASSUME TypeOK, TypeOK', AccountStep, NEW k \in Versions, NEW must, NEW t \in Nat,
           t <= now, Passed(k, must, t)
    PROVE  /\ Refuses(acct', k) => t <= turned'[k] + Latency + TTL
           /\ \/ \E c \in crossed' : t - Latency - TTL <= c
              \/ k <= acct'.tv /\ (k = acct'.tv => must = acct'.must)
<1>1. \/ \E c \in crossed' : t - Latency - TTL <= c
      \/ k <= acct'.tv /\ (k = acct'.tv => must = acct'.must)
  <2>1. t - Latency - TTL \in Int /\ t - Latency - TTL <= now
    BY TimingAssumption DEF TypeOK
  <2> QED
    BY <2>1, DatedOn DEF Passed
<1>2. ASSUME Refuses(acct', k) PROVE t <= turned'[k] + Latency + TTL
  <2>1. CASE turned'[k] = now
    BY <2>1, TimingAssumption DEF TypeOK
  <2>2. CASE turned'[k] = turned[k] /\ Refuses(acct', k) = Refuses(acct, k)
    BY <1>2, <2>2 DEF Passed
  <2> QED
    BY <2>1, <2>2 DEF AccountStep, Refuses
<1> QED
  BY <1>1, <1>2

LEMMA DatabaseKeeps ==
    ASSUME IInv, TypeOK', DatabaseStep
    PROVE  IInv'
<1>1. HistoryInv'
  BY DEF DatabaseStep, AccountStep, SessionStep, HistoryInv, IInv, Versions, TypeOK
<1>2. UserCacheInv'
  <2> SUFFICES ASSUME userCache' # None
               PROVE  /\ userCache.at <= now
                      /\ Trails(userCache.user, userCache.at - Latency)'
                      /\ Dated(userCache.user.tv, userCache.user.must, userCache.at - Latency)'
    BY DEF UserCacheInv, DatabaseStep
  <2>1. userCache # None /\ userCache' = userCache
    BY DEF DatabaseStep
  <2>2. userCache.user \in Account /\ userCache.at \in Nat
    BY <2>1 DEF IInv, TypeOK, CachedUser
  <2>3. /\ userCache.at <= now
        /\ Trails(userCache.user, userCache.at - Latency)
        /\ Dated(userCache.user.tv, userCache.user.must, userCache.at - Latency)
    BY <2>1 DEF IInv, UserCacheInv
  <2>4. userCache.at - Latency \in Int /\ userCache.at - Latency <= now
    BY <2>2, <2>3, TimingAssumption DEF IInv, TypeOK
  <2>5. TypeOK /\ HistoryInv /\ AccountStep
    BY DEF IInv, DatabaseStep
  <2>6. Dated(userCache.user.tv, userCache.user.must, userCache.at - Latency)'
    <3>1. userCache.user.tv \in Versions
      BY <2>2 DEF Account
    <3> QED
      BY <2>1, <2>3, <2>4, <2>5, <3>1, DatedOn DEF Dated, Crossed
  <2>7. Trails(userCache.user, userCache.at - Latency)'
    BY <2>1, <2>3, <2>4, <2>5, TrailsOn DEF Trails, Refuses
  <2> QED
    BY <2>3, <2>6, <2>7
<1>3. StatusCacheInv'
  <2> SUFFICES ASSUME statusCache' # None PROVE StatusCacheInv'
    BY DEF StatusCacheInv
  <2>1. statusCache # None /\ statusCache' = statusCache
    BY DEF DatabaseStep
  <2>2. statusCache.at \in Nat /\ endedAt \in Nat /\ endedAt' \in Nat /\ now \in Nat
    BY <2>1 DEF IInv, TypeOK, CachedStatus
  <2> QED
    BY <2>1, <2>2, TimingAssumption
    DEF IInv, StatusCacheInv, DatabaseStep, SessionStep
<1>4. ASSUME NEW q \in Reqs PROVE RequestInv(q)'
  <2>1. CASE ~\E s \in {"fill", "lookup", "answer", "done"} : At(q, s)'
    BY <2>1 DEF RequestInv, FillInv, LookupInv, AnswerInv, DoneInv
  <2>2. CASE req'[q] = req[q]
    <3>1. /\ TypeOK /\ HistoryInv /\ AccountStep /\ SessionStep /\ now' = now
          /\ RequestInv(q)
      BY DEF IInv, DatabaseStep
    <3>2. FillInv(q)'
      <4> SUFFICES ASSUME At(q, "fill") PROVE FillInv(q)'
        BY <2>2 DEF FillInv, At
      <4>1. req[q].user \in Account /\ req[q].at \in Nat
        BY <3>1, RequestAt DEF Fill
      <4>2. /\ Recent(req[q].at) /\ req[q].at <= now
            /\ Trails(req[q].user, req[q].at)
            /\ Dated(req[q].user.tv, req[q].user.must, req[q].at)
        BY <3>1 DEF RequestInv, FillInv, Recent
      <4>3. Trails(req[q].user, req[q].at)'
        BY <2>2, <3>1, <4>2, TrailsOn DEF Trails, Refuses
      <4>4. Dated(req[q].user.tv, req[q].user.must, req[q].at)'
        <5>1. req[q].user.tv \in Versions /\ req[q].at \in Int
          BY <4>1 DEF Account
        <5> QED
          BY <2>2, <3>1, <4>2, <5>1, DatedOn DEF Dated, Crossed
      <4> QED
        BY <2>2, <3>1, <4>2, <4>3, <4>4 DEF FillInv, Recent
    <3>3. LookupInv(q)'
      <4> SUFFICES ASSUME At(q, "lookup") \/ At(q, "answer") PROVE LookupInv(q)'
        BY <2>2 DEF LookupInv, At
      <4>1. req[q].tv \in Versions /\ req[q].must \in BOOLEAN /\ req[q].at \in Nat
        BY <3>1, RequestAt DEF Lookup, Answer
      <4>2. Recent(req[q].at) /\ Passed(req[q].tv, req[q].must, req[q].at)
        BY <3>1 DEF RequestInv, LookupInv
      <4> DEFINE k == req[q].tv
                 m == req[q].must
                 t == req[q].at
      <4>3. Recent(t)'
        BY <2>2, <3>1, <4>2 DEF Recent
      <4>4. Passed(k, m, t)'
        BY <2>2, <3>1, <4>1, <4>2, PassedOn DEF Passed, Recent, Refuses, Dated, Crossed
      <4> QED
        BY <4>3, <4>4 DEF LookupInv
    <3>4. AnswerInv(q)'
      <4> SUFFICES ASSUME At(q, "answer") PROVE AnswerInv(q)'
        BY <2>2 DEF AnswerInv, At
      <4>1. req[q].at <= now
        BY <3>1 DEF RequestInv, LookupInv, Recent
      <4> QED
        BY <2>2, <3>1, <4>1 DEF RequestInv, AnswerInv, SessionStep
    <3>5. DoneInv(q)'
      <4> SUFFICES ASSUME At(q, "done") PROVE DoneInv(q)'
        BY <2>2 DEF DoneInv, At
      <4> DEFINE k == req[q].tv
      <4>1. k \in Versions /\ k \in Nat /\ now \in Nat /\ endedAt' \in Nat
        BY <3>1, RequestAt DEF Done, Versions, TypeOK
      <4>2. DoneInv(q)
        BY <3>1 DEF RequestInv
      <4>3. (req[q].by = "user") # Refuses(acct', k)
               => now <= turned'[k] + TTL + 2 * Latency
        <5>1. CASE turned'[k] = now
          BY <4>1, <5>1, TimingAssumption
        <5>2. CASE turned'[k] = turned[k] /\ Refuses(acct', k) = Refuses(acct, k)
          BY <4>2, <5>2 DEF DoneInv
        <5> QED
          BY <3>1, <4>1, <5>1, <5>2 DEF AccountStep, Refuses
      <4>4. req[q].ok /\ req[q].by = "session" /\ sess' = "ended"
               => now < endedAt' + TTL + Latency
        <5>1. CASE endedAt' = now
          BY <4>1, <5>1, TimingAssumption
        <5>2. CASE sess = "ended" /\ endedAt' = endedAt
          BY <4>2, <5>2 DEF DoneInv
        <5> QED
          BY <3>1, <5>1, <5>2 DEF SessionStep
      <4>5. req[q].ok /\ req[q].path = "other"
               => Dated(k, FALSE, now - TTL - 2 * Latency)'
        <5> DEFINE t == now - TTL - 2 * Latency
        <5>1. t \in Int /\ t <= now
          BY <4>1, TimingAssumption
        <5>2. ASSUME Dated(k, FALSE, t)
              PROVE  \/ \E c \in crossed' : t <= c
                     \/ k <= acct'.tv /\ (k = acct'.tv => FALSE = acct'.must)
          <6> HIDE DEF t
          <6> QED
            BY <3>1, <4>1, <5>1, <5>2, DatedOn
        <5> QED
          BY <2>2, <3>1, <4>2, <5>2 DEF DoneInv, Dated, Crossed
      <4> QED
        BY <2>2, <3>1, <4>3, <4>4, <4>5 DEF DoneInv, Refuses
    <3> QED
      BY <3>2, <3>3, <3>4, <3>5 DEF RequestInv
  <2> QED
    BY <2>1, <2>2 DEF DatabaseStep, Bystanders
<1> QED
  BY <1>1, <1>2, <1>3, <1>4 DEF IInv

LEMMA SetAccountStep ==
    ASSUME TypeOK, NEW a \in Account, SetAccount(a),
           \/ crossed' = {now}
           \/ crossed' = crossed /\ a.tv >= acct.tv /\ (a.tv = acct.tv => a.must = acct.must)
    PROVE  AccountStep
BY DEF SetAccount, AccountStep, Refuses

LEMMA WriteStep ==
    ASSUME TypeOK, UNCHANGED now,
           \/ \E B \in SUBSET Bars : SetBars(B)
           \/ \E B \in SUBSET Bars : Raise(B)
           \/ UNCHANGED account
    PROVE  AccountStep
<1>1. ASSUME NEW B \in SUBSET Bars, SetBars(B) PROVE AccountStep
  <2>1. [tv |-> acct.tv, bars |-> B, must |-> acct.must] \in Account
    BY DEF TypeOK, Account
  <2>2. acct.tv >= acct.tv
    BY DEF TypeOK, Account, Versions
  <2> QED
    BY <1>1, <2>1, <2>2, SetAccountStep DEF SetBars
<1>2. ASSUME NEW B \in SUBSET Bars, Raise(B) PROVE AccountStep
  <2>1. acct.tv \in Int /\ acct.tv + 1 \in Versions
    BY <1>2, BoundAssumption DEF Raise, TypeOK, Account, Versions
  <2>2. [tv |-> acct.tv + 1, bars |-> B, must |-> acct.must] \in Account
    BY <2>1 DEF Account, TypeOK
  <2>3. acct.tv + 1 >= acct.tv /\ acct.tv + 1 # acct.tv
    BY <2>1
  <2> QED
    BY <1>2, <2>2, <2>3, SetAccountStep DEF Raise
<1>3. CASE UNCHANGED account
  BY <1>3 DEF account, AccountStep, TypeOK, Account, Versions, Refuses
<1> QED
  BY <1>1, <1>2, <1>3

\* A save raises the version of a row that is still as it was read, or is marked.
LEMMA SaveStep ==
    ASSUME TypeOK, NEW q \in Reqs, SaveUser(q)
    PROVE  AccountStep
<1>1. req[q] \in Save
  BY RequestAt DEF SaveUser
<1>2. SavedAccount(req[q]) \in Account /\ SetAccount(SavedAccount(req[q]))
  BY <1>1, SavedType DEF SaveUser, SavedAccount
<1>3. SavedAccount(req[q]).tv = req[q].tv + 1 /\ req[q].tv \in Nat
  BY <1>1 DEF SavedAccount, Save, Versions
<1>4. CASE req[q].tv = acct.tv
  BY <1>2, <1>3, <1>4, SetAccountStep DEF SaveUser
<1>5. CASE req[q].tv # acct.tv
  BY <1>2, <1>5, SetAccountStep DEF SaveUser
<1> QED
  BY <1>4, <1>5

LEMMA ExpireStep ==
    ASSUME IInv, Expire \/ UNCHANGED session
    PROVE  SessionStep
BY DEF IInv, TypeOK, HistoryInv, Expire, session, SessionStep

\* What a writer's request becomes is no request of a token's holder.
LEMMA WriterPuts ==
    ASSUME TypeOK, NEW q \in Reqs, NEW r, Put(q, r),
           r.step \notin {"fill", "lookup", "answer", "done"}
    PROVE  Bystanders
BY DEF TypeOK, Put, Bystanders, At

LEMMA WriterRecordSteps ==
    ASSUME NEW r,
           \/ r = Idle
           \/ \E s \in {"raise", "expire", "destroy"} : r = [step |-> s]
           \/ \E what, next : r = Forgetting(what, next)
           \/ \E tv, what, next : r = [step |-> "save", tv |-> tv, what |-> what, next |-> next]
    PROVE  r.step \notin {"fill", "lookup", "answer", "done"}
BY DEF Idle, Forgetting

LEMMA AdministerStep ==
    ASSUME IInv, NEW q \in Reqs, Administer(q)
    PROVE  DatabaseStep
<1> TypeOK
  BY DEF IInv
<1>1. UNCHANGED session => SessionStep
  BY ExpireStep
<1>2. UNCHANGED account /\ UNCHANGED now => AccountStep
  BY WriteStep
<1>3. CASE AccountWriter(q)
  <2>1. AccountStep
    BY <1>3, WhatWritersWrite, WriteStep
  <2>2. PICK r :
          /\ Put(q, r)
          /\ \/ r = Idle
             \/ \E s \in {"raise", "expire", "destroy"} : r = [step |-> s]
             \/ \E what, next : r = Forgetting(what, next)
             \/ \E tv, what, next : r = [step |-> "save", tv |-> tv, what |-> what, next |-> next]
    BY <1>3, WhatWritersWrite DEF Read
  <2>3. r.step \notin {"fill", "lookup", "answer", "done"}
    BY <2>2, WriterRecordSteps
  <2>4. Bystanders
    BY <2>2, <2>3, WriterPuts
  <2> QED
    BY <1>1, <1>3, <2>1, <2>4, WhatWritersWrite DEF DatabaseStep, caches
<1>4. CASE DeleteUser(q)
  <2>1. Bystanders
    BY <1>4, WriterPuts, WriterRecordSteps DEF DeleteUser
  <2> QED
    BY <1>2, <1>4, <2>1, ExpireStep DEF DeleteUser, DatabaseStep, caches
<1>5. CASE EndSession(q)
  <2>1. Bystanders
    BY <1>5, WriterPuts, WriterRecordSteps DEF EndSession
  <2> QED
    BY <1>2, <1>5, <2>1, ExpireStep DEF EndSession, DatabaseStep, caches
<1>6. CASE ForgetEntry(q)
  <2>1. req[q].next \in {"end", "raise", "expire"}
    BY <1>6, RequestAt DEF ForgetEntry, Forget
  <2>2. Bystanders
    BY <1>6, <2>1, WriterPuts, WriterRecordSteps DEF ForgetEntry
  <2> QED
    BY <1>1, <1>2, <1>6, <2>2 DEF ForgetEntry, DatabaseStep
<1>7. CASE ExpireAll(q)
  <2>1. Bystanders
    BY <1>7, WriterPuts, WriterRecordSteps DEF ExpireAll
  <2> QED
    BY <1>2, <1>7, <2>1, ExpireStep DEF ExpireAll, DatabaseStep, caches
<1>8. CASE SaveUser(q)
  <2>1. Bystanders
    BY <1>8, WriterPuts, WriterRecordSteps DEF SaveUser
  <2> QED
    BY <1>1, <1>8, <2>1, SaveStep DEF SaveUser, DatabaseStep, caches
<1> QED
  BY <1>3, <1>4, <1>5, <1>6, <1>7, <1>8 DEF Administer, AccountWriter

LEMMA ApproveStep ==
    ASSUME IInv, ApproveUser
    PROVE  DatabaseStep
<1> TypeOK
  BY DEF IInv
<1>1. AccountStep
  BY BarsAndMust, WriteStep DEF ApproveUser
<1> QED
  BY <1>1, ExpireStep DEF ApproveUser, DatabaseStep, caches, Bystanders

LEMMA MoveStep ==
    ASSUME IInv, MoveSession
    PROVE  DatabaseStep
<1> TypeOK
  BY DEF IInv
<1>1. SessionStep
  BY DEF MoveSession, SessionStep, TypeOK
<1> QED
  BY <1>1, WriteStep DEF MoveSession, DatabaseStep, caches, Bystanders

----------------------------------------------------------------------------
(* Steps of the requests: the database stays as it is.                      *)

HandleKeepsRows == UNCHANGED <<now, acct, crossed, turned, sess, endedAt>>

\* A request's own step, with the caches it may fill, leaves the others sound.
LEMMA HandleOthers ==
    ASSUME IInv, HandleKeepsRows, NEW q \in Reqs, NEW p \in Reqs, p # q,
           NEW r, Put(q, r)
    PROVE  RequestInv(p)'
<1>1. req'[p] = req[p]
  BY DEF Put, IInv, TypeOK
<1>2. RequestInv(p)
  BY DEF IInv
<1> QED
  BY <1>1, <1>2 DEF HandleKeepsRows, RequestInv, FillInv, LookupInv, AnswerInv, DoneInv,
                    At, Recent, Trails, Dated, Crossed, Passed, Refuses

\* A verdict given at time now on a copy of the account that trails the database
\* by no more than t, and on a word about the session that is not too old.
LEMMA DecideSound ==
    ASSUME IInv, TypeOK', HandleKeepsRows, NEW q \in Reqs, NEW k \in Versions,
           NEW must \in BOOLEAN, NEW passes \in BOOLEAN, NEW by \in {"user", "session", "unknown", "untracked"},
           Decide(q, k, must, passes, by),
           by = "user" /\ ~Refuses(acct, k) => now <= turned[k] + TTL + 2 * Latency,
           by # "user" /\ Refuses(acct, k) => now <= turned[k] + TTL + 2 * Latency,
           passes => Dated(k, must, now - TTL - 2 * Latency),
           passes /\ by = "session" /\ sess = "ended" => now < endedAt + TTL + Latency
    PROVE  RequestInv(q)'
<1>1. PICK path \in Paths :
        Put(q, [step |-> "done", tv |-> k, path |-> path, by |-> by,
                ok |-> passes /\ ~(must /\ path # "auth")])
  BY DEF Decide
<1> DEFINE ok == passes /\ ~(must /\ path # "auth")
<1>2. req'[q] = [step |-> "done", tv |-> k, path |-> path, by |-> by, ok |-> ok]
  BY <1>1 DEF Put, IInv, TypeOK
<1>3. /\ req'[q].step = "done" /\ req'[q].tv = k /\ req'[q].path = path
      /\ req'[q].by = by /\ req'[q].ok = ok
  <2> HIDE DEF ok
  <2> QED
    BY <1>2
<1>4. FillInv(q)' /\ LookupInv(q)' /\ AnswerInv(q)'
  BY <1>3 DEF FillInv, LookupInv, AnswerInv, At
<1>5. (by = "user") # Refuses(acct', k) => now' <= turned'[k] + TTL + 2 * Latency
  BY DEF HandleKeepsRows, Refuses
<1>6. ok /\ by = "session" /\ sess' = "ended" => now' < endedAt' + TTL + Latency
  BY DEF HandleKeepsRows
<1>7. ok /\ path = "other" => passes /\ must = FALSE
  OBVIOUS
<1>8. ok /\ path = "other" => Dated(k, FALSE, now - TTL - 2 * Latency)'
  <2> HIDE DEF ok
  <2> QED
    BY <1>7 DEF HandleKeepsRows, Dated, Crossed
<1>9. DoneInv(q)'
  <2> HIDE DEF ok
  <2> QED
    BY <1>3, <1>5, <1>6, <1>8 DEF DoneInv, Refuses
<1> QED
  BY <1>4, <1>9 DEF RequestInv

\* The rest of the middleware, from a copy of the account at most TTL + Latency
\* old on.
LEMMA JudgeSound ==
    ASSUME IInv, TypeOK', HandleKeepsRows, NEW q \in Reqs, NEW k \in Versions,
           NEW a \in Account, Judge(q, k, a), Dated(a.tv, a.must, now - Latency - TTL),
           Trails(a, now - Latency - TTL)
    PROVE  RequestInv(q)'
<1>1. now \in Nat /\ turned[k] \in Nat /\ endedAt \in Nat /\ Latency \in Nat /\ TTL \in Nat
  BY TimingAssumption DEF IInv, TypeOK
<1>2. Refuses(a, k) # Refuses(acct, k) => now <= turned[k] + Latency + TTL
  BY <1>1 DEF Trails
<1>3. /\ Refuses(a, k) /\ ~Refuses(acct, k) => now <= turned[k] + TTL + 2 * Latency
      /\ ~Refuses(a, k) /\ Refuses(acct, k) => now <= turned[k] + TTL + 2 * Latency
  BY <1>1, <1>2 DEF Refuses
<1>4. ASSUME ~Refuses(a, k)
      PROVE  /\ Dated(k, a.must, now - Latency - TTL)
             /\ Dated(k, a.must, now - TTL - 2 * Latency)
  <2>1. a.tv = k
    BY <1>4 DEF Refuses
  <2>2. Dated(k, a.must, now - Latency - TTL)
    BY <2>1
  <2>3. Crossed(now - Latency - TTL) => Crossed(now - TTL - 2 * Latency)
    BY <1>1 DEF Crossed, IInv, TypeOK
  <2> QED
    BY <2>2, <2>3 DEF Dated
<1>5. CASE Refuses(a, k) /\ Decide(q, k, FALSE, FALSE, "user")
  BY <1>3, <1>5, DecideSound
<1>6. CASE ~Refuses(a, k) /\ Decide(q, k, a.must, TRUE, "untracked")
  <2>1. a.must \in BOOLEAN
    BY DEF Account
  <2> QED
    BY <1>3, <1>4, <1>6, <2>1, DecideSound
<1>7. CASE ~Refuses(a, k) /\ StatusHit /\ Decide(q, k, a.must, ~statusCache.revoked, "session")
  <2>1. statusCache # None /\ now - statusCache.at < TTL
    BY <1>7 DEF StatusHit
  <2>2. statusCache.at \in Nat
    BY <2>1 DEF IInv, TypeOK, CachedStatus
  <2>3. ~statusCache.revoked /\ sess = "ended" => statusCache.at <= endedAt + Latency
    BY <2>1 DEF IInv, StatusCacheInv
  <2>4. ~statusCache.revoked /\ sess = "ended" => now < endedAt + TTL + Latency
    BY <1>1, <2>1, <2>2, <2>3
  <2>5. a.must \in BOOLEAN /\ (~statusCache.revoked) \in BOOLEAN
    BY DEF Account
  <2> QED
    BY <1>3, <1>4, <1>7, <2>4, <2>5, DecideSound
<1>8. CASE ~Refuses(a, k) /\ Put(q, [step |-> "lookup", tv |-> k, must |-> a.must, at |-> now])
  <2>1. req'[q] = [step |-> "lookup", tv |-> k, must |-> a.must, at |-> now]
    BY <1>8 DEF Put, IInv, TypeOK
  <2>2. /\ Refuses(acct, k) => now <= turned[k] + Latency + TTL
        /\ Dated(k, a.must, now - Latency - TTL)
    BY <1>2, <1>4, <1>8
  <2>3. LookupInv(q)'
    BY <1>1, <2>1, <2>2 DEF LookupInv, Recent, Passed, Dated, Crossed, Refuses, HandleKeepsRows
  <2> QED
    BY <2>1, <2>3 DEF RequestInv, FillInv, AnswerInv, DoneInv, At
<1> QED
  BY <1>5, <1>6, <1>7, <1>8 DEF Judge, CheckSession

\* The caches, when a request fills neither.
LEMMA CachesKept ==
    ASSUME IInv, HandleKeepsRows, userCache' \in {userCache, None}, UNCHANGED statusCache
    PROVE  HistoryInv' /\ UserCacheInv' /\ StatusCacheInv'
BY DEF IInv, HandleKeepsRows, HistoryInv, UserCacheInv, StatusCacheInv, Trails, Dated, Crossed, Refuses

LEMMA HandleKeeps ==
    ASSUME IInv, NEW q \in Reqs, Handle(q)
    PROVE  IInv'
<1>1. HandleKeepsRows
  BY DEF Handle, Hit, Miss, ReadUser, FillUser, ReadStatus, FillStatus, Reply,
         account, session, HandleKeepsRows
<1>2. TypeOK /\ TypeOK'
  BY HandleType DEF IInv
<1>3. /\ now \in Nat /\ endedAt \in Nat /\ Latency \in Nat /\ TTL \in Nat
      /\ \A k \in Versions : turned[k] \in Nat
  BY <1>2, TimingAssumption DEF TypeOK
<1>4. ASSUME NEW r, Put(q, r), NEW p \in Reqs, p # q PROVE RequestInv(p)'
  BY <1>1, <1>4, HandleOthers
<1>5. ASSUME NEW k \in Versions, NEW must, NEW passes, NEW by,
             Decide(q, k, must, passes, by), NEW p \in Reqs, p # q
      PROVE  RequestInv(p)'
  BY <1>4, <1>5 DEF Decide
<1>6. ASSUME NEW k \in Versions, NEW a, Judge(q, k, a), NEW p \in Reqs, p # q
      PROVE  RequestInv(p)'
  BY <1>4, <1>5, <1>6 DEF Judge, CheckSession
<1>7. ASSUME NEW k \in Versions, Hit(q, k) PROVE IInv'
  <2>1. userCache # None /\ now - userCache.at <= TTL
    BY <1>7 DEF Hit, UserHit
  <2>2. userCache.user \in Account /\ userCache.at \in Nat
    BY <1>2, <2>1 DEF TypeOK, CachedUser
  <2>3. /\ Dated(userCache.user.tv, userCache.user.must, userCache.at - Latency)
        /\ Trails(userCache.user, userCache.at - Latency)
    BY <2>1 DEF IInv, UserCacheInv
  <2>4. Trails(userCache.user, now - Latency - TTL)
    BY <1>3, <2>1, <2>2, <2>3 DEF Trails
  <2>41. Dated(userCache.user.tv, userCache.user.must, now - Latency - TTL)
    BY <1>2, <1>3, <2>1, <2>2, <2>3 DEF Dated, Crossed, TypeOK
  <2>5. RequestInv(q)'
    BY <1>1, <1>2, <1>7, <2>2, <2>4, <2>41, JudgeSound DEF Hit
  <2>6. ASSUME NEW p \in Reqs, p # q PROVE RequestInv(p)'
    BY <1>6, <1>7, <2>6 DEF Hit
  <2> QED
    BY <1>1, <1>2, <1>7, <2>5, <2>6, CachesKept DEF Hit, caches, IInv
<1>8. ASSUME NEW k \in Versions, Miss(q, k) PROVE IInv'
  <2>1. req'[q] = [step |-> "fetch", tv |-> k]
    BY <1>2, <1>8 DEF Miss, Put, TypeOK
  <2>2. RequestInv(q)'
    BY <2>1 DEF RequestInv, FillInv, LookupInv, AnswerInv, DoneInv, At
  <2>3. ASSUME NEW p \in Reqs, p # q PROVE RequestInv(p)'
    BY <1>4, <1>8, <2>3 DEF Miss
  <2> QED
    BY <1>1, <1>2, <1>8, <2>2, <2>3, CachesKept DEF Miss, IInv
<1>9. CASE ReadUser(q)
  <2>1. ASSUME Put(q, [step |-> "fill", tv |-> req[q].tv, user |-> acct, at |-> now])
        PROVE  RequestInv(q)'
    <3>1. req'[q] = [step |-> "fill", tv |-> req[q].tv, user |-> acct, at |-> now]
      BY <1>2, <2>1 DEF Put, TypeOK
    <3>2. Recent(now)' /\ Trails(acct, now)' /\ Dated(acct.tv, acct.must, now)'
      BY <1>1, <1>2, <1>3 DEF Recent, Trails, Dated, Crossed, HandleKeepsRows, TypeOK, Account, Versions
    <3>3. FillInv(q)'
      BY <1>1, <3>1, <3>2 DEF FillInv, Recent, Trails, Dated, Crossed, Refuses, HandleKeepsRows
    <3> QED
      BY <3>1, <3>3 DEF RequestInv, LookupInv, AnswerInv, DoneInv, At
  <2>2. ASSUME Put(q, Idle) PROVE RequestInv(q)'
    <3>1. req'[q] = Idle
      BY <1>2, <2>2 DEF Put, TypeOK
    <3> QED
      BY <3>1 DEF Idle, RequestInv, FillInv, LookupInv, AnswerInv, DoneInv, At
  <2>3. RequestInv(q)'
    BY <1>9, <2>1, <2>2 DEF ReadUser
  <2>4. ASSUME NEW p \in Reqs, p # q PROVE RequestInv(p)'
    BY <1>4, <1>9, <2>4 DEF ReadUser
  <2> QED
    BY <1>1, <1>2, <1>9, <2>3, <2>4, CachesKept DEF ReadUser, caches, IInv
<1>10. CASE FillUser(q)
  <2>1. req[q].tv \in Versions /\ req[q].user \in Account /\ req[q].at \in Nat
    BY <1>2, <1>10, RequestAt DEF FillUser, Fill
  <2>2. /\ Recent(req[q].at) /\ Trails(req[q].user, req[q].at)
        /\ Dated(req[q].user.tv, req[q].user.must, req[q].at)
    BY <1>10 DEF FillUser, IInv, RequestInv, FillInv
  <2>3. Trails(req[q].user, now - Latency)
    BY <1>3, <2>1, <2>2 DEF Trails, Recent
  <2>4. Trails(req[q].user, now - Latency - TTL)
    BY <1>3, <2>3 DEF Trails
  <2>41. /\ Dated(req[q].user.tv, req[q].user.must, now - Latency)
         /\ Dated(req[q].user.tv, req[q].user.must, now - Latency - TTL)
    BY <1>2, <1>3, <2>1, <2>2 DEF Dated, Crossed, Recent, TypeOK
  <2>5. RequestInv(q)'
    BY <1>1, <1>2, <1>10, <2>1, <2>4, <2>41, JudgeSound DEF FillUser
  <2>6. ASSUME NEW p \in Reqs, p # q PROVE RequestInv(p)'
    BY <1>6, <1>10, <2>1, <2>6 DEF FillUser
  <2>7. UserCacheInv'
    <3>1. userCache'.user = req[q].user /\ userCache'.at = now
      BY <1>10 DEF FillUser
    <3> QED
      BY <1>1, <1>3, <2>3, <2>41, <3>1
      DEF UserCacheInv, HandleKeepsRows, Trails, Dated, Crossed, Refuses
  <2>8. HistoryInv' /\ StatusCacheInv'
    BY <1>1, <1>10 DEF FillUser, IInv, HistoryInv, StatusCacheInv, HandleKeepsRows
  <2> QED
    BY <1>2, <2>5, <2>6, <2>7, <2>8 DEF IInv
<1>11. CASE ReadStatus(q)
  <2>1. req[q].tv \in Versions /\ req[q].must \in BOOLEAN /\ req[q].at \in Nat
    BY <1>2, <1>11, RequestAt DEF ReadStatus, Lookup
  <2>2. Recent(req[q].at) /\ Passed(req[q].tv, req[q].must, req[q].at)
    BY <1>11 DEF ReadStatus, IInv, RequestInv, LookupInv
  <2>3. ASSUME Put(q, [step |-> "answer", tv |-> req[q].tv, must |-> req[q].must,
                       at |-> req[q].at, revoked |-> sess = "ended"])
        PROVE  RequestInv(q)'
    <3> DEFINE revoked == sess = "ended"
    <3>1. req'[q] = [step |-> "answer", tv |-> req[q].tv, must |-> req[q].must,
                     at |-> req[q].at, revoked |-> revoked]
      BY <1>2, <2>3 DEF Put, TypeOK
    <3>2. /\ req'[q].step = "answer" /\ req'[q].tv = req[q].tv
          /\ req'[q].must = req[q].must /\ req'[q].at = req[q].at
          /\ req'[q].revoked = revoked
      <4> HIDE DEF revoked
      <4> QED
        BY <3>1
    <3>3. LookupInv(q)'
      BY <1>1, <2>2, <3>2 DEF LookupInv, Recent, Passed, Dated, Crossed, Refuses, HandleKeepsRows
    <3>4. AnswerInv(q)'
      BY <1>1, <3>2 DEF AnswerInv, HandleKeepsRows
    <3> QED
      BY <3>2, <3>3, <3>4 DEF RequestInv, FillInv, DoneInv, At
  <2>4. ASSUME Decide(q, req[q].tv, req[q].must, TRUE, "unknown")
        PROVE  RequestInv(q)'
    <3>1. Refuses(acct, req[q].tv) => now <= turned[req[q].tv] + TTL + 2 * Latency
      BY <1>3, <2>1, <2>2 DEF Passed, Recent
    <3>2. Dated(req[q].tv, req[q].must, now - TTL - 2 * Latency)
      BY <1>2, <1>3, <2>1, <2>2 DEF Passed, Recent, Dated, Crossed, TypeOK
    <3> QED
      BY <1>1, <1>2, <2>1, <2>4, <3>1, <3>2, DecideSound
  <2>5. RequestInv(q)'
    BY <1>11, <2>3, <2>4 DEF ReadStatus
  <2>6. ASSUME NEW p \in Reqs, p # q PROVE RequestInv(p)'
    BY <1>4, <1>5, <1>11, <2>1, <2>6 DEF ReadStatus
  <2> QED
    BY <1>1, <1>2, <1>11, <2>5, <2>6, CachesKept DEF ReadStatus, caches, IInv
<1>12. CASE FillStatus(q)
  <2>1. /\ req[q].tv \in Versions /\ req[q].must \in BOOLEAN /\ req[q].at \in Nat
        /\ req[q].revoked \in BOOLEAN
    BY <1>2, <1>12, RequestAt DEF FillStatus, Answer
  <2>2. Recent(req[q].at) /\ Passed(req[q].tv, req[q].must, req[q].at)
    BY <1>12 DEF FillStatus, IInv, RequestInv, LookupInv
  <2>3. ~req[q].revoked /\ sess = "ended" => req[q].at <= endedAt
    BY <1>12 DEF FillStatus, IInv, RequestInv, AnswerInv
  <2>4. Refuses(acct, req[q].tv) => now <= turned[req[q].tv] + TTL + 2 * Latency
    BY <1>3, <2>1, <2>2 DEF Passed, Recent
  <2>5. Dated(req[q].tv, req[q].must, now - TTL - 2 * Latency)
    BY <1>2, <1>3, <2>1, <2>2 DEF Passed, Recent, Dated, Crossed, TypeOK
  <2>6. ~req[q].revoked /\ sess = "ended" => now <= endedAt + Latency
    BY <1>3, <2>1, <2>2, <2>3 DEF Recent
  <2>7. ~req[q].revoked /\ sess = "ended" => now < endedAt + TTL + Latency
    BY <1>3, <2>6, TimingAssumption
  <2>8. RequestInv(q)'
    BY <1>1, <1>2, <1>12, <2>1, <2>4, <2>5, <2>7, DecideSound DEF FillStatus
  <2>9. ASSUME NEW p \in Reqs, p # q PROVE RequestInv(p)'
    BY <1>5, <1>12, <2>1, <2>9 DEF FillStatus
  <2>10. StatusCacheInv'
    <3>1. statusCache'.revoked = req[q].revoked /\ statusCache'.at = now
      BY <1>12 DEF FillStatus
    <3> QED
      BY <1>1, <1>3, <2>6, <3>1 DEF StatusCacheInv, HandleKeepsRows
  <2>11. HistoryInv' /\ UserCacheInv'
    BY <1>1, <1>12
    DEF FillStatus, IInv, HistoryInv, UserCacheInv, HandleKeepsRows, Trails, Dated, Crossed, Refuses
  <2> QED
    BY <1>2, <2>8, <2>9, <2>10, <2>11 DEF IInv
<1>13. CASE Reply(q)
  <2>1. req'[q] = Idle
    BY <1>2, <1>13 DEF Reply, Put, TypeOK
  <2>2. RequestInv(q)'
    BY <2>1 DEF Idle, RequestInv, FillInv, LookupInv, AnswerInv, DoneInv, At
  <2>3. ASSUME NEW p \in Reqs, p # q PROVE RequestInv(p)'
    BY <1>4, <1>13, <2>3 DEF Reply
  <2> QED
    BY <1>1, <1>2, <1>13, <2>2, <2>3, CachesKept DEF Reply, caches, IInv
<1> QED
  BY <1>7, <1>8, <1>9, <1>10, <1>11, <1>12, <1>13 DEF Handle

\* The clock: no answer waits longer than Latency, and no verdict waits at all.
LEMMA TickKeeps ==
    ASSUME IInv, Tick
    PROVE  IInv'
<1>1. TypeOK /\ TypeOK'
  BY NextType DEF IInv, Next
<1>2. now \in Nat /\ now' = now + 1 /\ Latency \in Nat /\ endedAt \in Nat
  BY <1>1, TimingAssumption DEF TypeOK, Tick
<1>3. UNCHANGED <<acct, crossed, turned, sess, endedAt, userCache, statusCache, req>>
  BY DEF Tick, account, session, caches
<1>4. HistoryInv'
  BY <1>1, <1>2, <1>3 DEF IInv, HistoryInv, TypeOK
<1>5. UserCacheInv'
  <2>1. userCache # None => userCache.at \in Nat
    BY <1>1 DEF TypeOK, CachedUser
  <2> QED
    BY <1>2, <1>3, <2>1 DEF IInv, UserCacheInv, Trails, Dated, Crossed, Refuses
<1>6. StatusCacheInv'
  <2>1. statusCache # None => statusCache.at \in Nat
    BY <1>1 DEF TypeOK, CachedStatus
  <2> QED
    BY <1>2, <1>3, <2>1 DEF IInv, StatusCacheInv
<1>7. ASSUME NEW q \in Reqs PROVE RequestInv(q)'
  <2>1. RequestInv(q) /\ ~At(q, "done")
    BY DEF IInv, Tick
  <2>2. ASSUME At(q, "fill") \/ At(q, "lookup") \/ At(q, "answer")
        PROVE  Recent(req[q].at) => Recent(req[q].at)'
    <3>1. now - req[q].at < Latency
      BY <2>2 DEF Tick, At
    <3>2. req[q].at \in Nat
      BY <1>1, <2>2, RequestAt DEF Fill, Lookup, Answer
    <3> QED
      BY <1>2, <1>3, <3>1, <3>2 DEF Recent
  <2>3. FillInv(q)'
    BY <1>3, <2>1, <2>2 DEF RequestInv, FillInv, At, Trails, Dated, Crossed, Refuses, Recent
  <2>4. LookupInv(q)'
    BY <1>3, <2>1, <2>2 DEF RequestInv, LookupInv, At, Passed, Dated, Crossed, Refuses, Recent
  <2>5. AnswerInv(q)' /\ DoneInv(q)'
    BY <1>3, <2>1 DEF RequestInv, AnswerInv, DoneInv, At
  <2> QED
    BY <2>3, <2>4, <2>5 DEF RequestInv
<1> QED
  BY <1>1, <1>4, <1>5, <1>6, <1>7 DEF IInv

LEMMA NextInv == IInv /\ [Next]_vars => IInv'
<1> SUFFICES ASSUME IInv, [Next]_vars PROVE IInv'
  OBVIOUS
<1>1. TypeOK'
  BY NextType DEF IInv
<1>2. ASSUME NEW q \in Reqs, Handle(q) PROVE IInv'
  BY <1>2, HandleKeeps
<1>3. ASSUME NEW q \in Reqs, Administer(q) PROVE IInv'
  BY <1>1, <1>3, AdministerStep, DatabaseKeeps
<1>4. CASE ApproveUser \/ MoveSession
  BY <1>1, <1>4, ApproveStep, MoveStep, DatabaseKeeps
<1>5. CASE Tick
  BY <1>5, TickKeeps
<1>6. CASE UNCHANGED vars
  BY <1>1, <1>6 DEF vars, IInv, HistoryInv, UserCacheInv, StatusCacheInv, RequestInv, FillInv,
     LookupInv, AnswerInv, DoneInv, At, Trails, Dated, Crossed, Passed, Refuses, Recent
<1> QED
  BY <1>2, <1>3, <1>4, <1>5, <1>6 DEF Next

\* The bounds on every copy hold throughout.
THEOREM Invariance == Spec => []IInv
BY InitInv, NextInv, PTL DEF Spec

\* A verdict the database no longer supports is given at most one TTL and two
\* answers after the database changed its mind.
THEOREM StalenessIsBounded == Spec => []BoundedStaleness
<1>1. IInv => BoundedStaleness
  BY DEF IInv, RequestInv, DoneInv, BoundedStaleness, Decided
<1> QED
  BY <1>1, Invariance, PTL

\* An ended session is trusted for less than one TTL and one answer.
THEOREM SessionStalenessIsBounded == Spec => []SessionStaleness
<1>1. IInv => SessionStaleness
  BY DEF IInv, RequestInv, DoneInv, SessionStaleness, Decided
<1> QED
  BY <1>1, Invariance, PTL

\* No current token opens more than /api/auth/ while the password must change,
\* but for one TTL and two answers after a save from an outdated read.
THEOREM TheGateHolds == Spec => []GateHolds
<1>1. IInv => GateHolds
  <2> SUFFICES ASSUME IInv, NEW q \in Reqs, At(q, "done"), req[q].ok, req[q].path = "other",
                      req[q].tv = acct.tv, acct.must
               PROVE  \E t \in crossed : now <= t + TTL + 2 * Latency
    BY DEF GateHolds, Decided
  <2>1. Dated(req[q].tv, FALSE, now - TTL - 2 * Latency)
    BY DEF IInv, RequestInv, DoneInv
  <2>2. Crossed(now - TTL - 2 * Latency)
    BY <2>1 DEF Dated
  <2>3. now \in Nat /\ crossed \subseteq Nat /\ TTL \in Nat /\ Latency \in Nat
    BY TimingAssumption DEF IInv, TypeOK
  <2> QED
    BY <2>2, <2>3 DEF Crossed
<1> QED
  BY <1>1, Invariance, PTL
=============================================================================
