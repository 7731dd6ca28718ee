--------------------------- MODULE AccountsProofs ---------------------------
(***************************************************************************)
(* Proofs about Accounts, for any number of handlers in flight, any number *)
(* of attempts and any bounds.                                             *)
(***************************************************************************)
EXTENDS Accounts, FiniteSetTheorems, TLAPS

----------------------------------------------------------------------------
(* The inductive invariant                                                  *)

Guessing == {q \in Reqs : Op(q) \in {"password", "code"}}
Counting == {q \in Reqs : Op(q) \in {"counted", "lock"}}

\* Every wrong guess but those of failing statements is in the counter.  While
\* the account is not locked, each guess from the last admissible one on has a
\* handler that will lock it; once it is locked nobody begins to guess.
LoginInv ==
    /\ guesses <= attempts + faults
    /\ lock # "on" => guesses <= MaxAttempts - 1 + faults + Cardinality(Counting)
    /\ lock = "on" => guesses + Cardinality(Guessing) <= Most + faults

\* What the handlers of the second factor have read.
FactorInv ==
    /\ \A q \in Reqs : /\ Op(q) \in {"generate", "enable", "disable"} =>
                            req[q].secret <= shown
                       /\ Op(q) = "generate" => ~req[q].on
                       /\ Op(q) = "enable" => req[q].secret # 0
    /\ on /\ ~crossed => secret \in proven

\* Requests are numbered as they come; one is answered once, by the approve
\* that holds it.
Numbered  == \E k \in 0 .. MaxAsks : Created = 1 .. k
OneHolder == \A p, q \in Reqs : Op(p) = "approve" /\ Op(q) = "approve"
                                  /\ req[p].ask = req[q].ask => p = q
Answered  == \A a \in Asks :
               /\ status[a] \in {"none", "pending"} => issued[a] = 0
               /\ issued[a] = 1 /\ a \notin overruled => status[a] = "approved"
Held      == \A q \in Reqs : /\ Op(q) = "approve" => status[req[q].ask] = "pending"
                             /\ Op(q) = "reject" => status[req[q].ask] # "none"

AskInv == Numbered /\ OneHolder /\ Answered /\ Held

\* What is used was issued.  A link that only one handler at a time was at is
\* gone from the row when that one has saved.
OneRedeemer(a) == \A p, q \in Reqs : Op(p) = "redeem" /\ req[p].ask = a
                                        /\ Op(q) = "redeem" /\ req[q].ask = a => p = q
LinkInv ==
    /\ \A a \in Asks : issued[a] <= 1 /\ (used[a] # 0 => issued[a] = 1)
    /\ \A q \in Reqs : Op(q) = "redeem" => issued[req[q].ask] = 1
    /\ link # 0 => issued[link] = 1 /\ used[link] = 0
    /\ \A a \in Asks \ raced : /\ used[a] <= 1 /\ OneRedeemer(a)
                               /\ Redeemed(a) => used[a] = 0

\* While createRequests come one at a time, the one that creates found nothing.
OneAsker == \A p, q \in Reqs : Op(p) = "ask" /\ Op(q) = "ask" => p = q
WaitInv  == ~doubled => /\ OneAsker
                        /\ (\E q \in Reqs : Op(q) = "ask") => Pending = {}
                        /\ \A a, b \in Pending : a = b

IInv == TypeOK /\ LoginInv /\ FactorInv /\ AskInv /\ LinkInv /\ WaitInv

----------------------------------------------------------------------------
(* Types                                                                    *)

Places == {Idle} \cup Login \cup Factor \cup Reset \cup Plain

LEMMA Constants ==
    /\ IsFiniteSet(Reqs) /\ Cardinality(Reqs) \in Nat
    /\ MaxAttempts \in Nat /\ MaxAttempts >= 1
    /\ MaxLocks \in Nat /\ MaxSecrets \in Nat /\ MaxAsks \in Nat /\ MaxFaults \in Nat
BY AccountsAssumption, FS_CardinalityType

LEMMA SlotTypes ==
    ASSUME TypeOK, NEW q \in Reqs
    PROVE  /\ Op(q) \in {"password", "code"} => req[q] \in Login
           /\ Op(q) \in {"generate", "enable", "disable"} =>
                req[q] \in Factor /\ req[q].secret \in 0 .. MaxSecrets
                /\ req[q].on \in BOOLEAN
           /\ Op(q) \in {"approve", "reject", "redeem"} =>
                req[q] \in Reset /\ req[q].ask \in Asks
<1>1. req[q] \in Places
  BY DEF TypeOK, Places
<1> QED
  BY <1>1 DEF Places, Idle, Login, Factor, Reset, Plain, Op

LEMMA PlaceTypes ==
    /\ Idle \in Places /\ Idle.op = "idle"
    /\ \A op \in {"counted", "lock", "ask"} : [op |-> op] \in Places
    /\ \A op \in {"approve", "reject", "redeem"}, a \in Asks :
         [op |-> op, ask |-> a] \in Places
BY DEF Places, Idle, Reset, Plain

LEMMA ThenType ==
    ASSUME TypeOK, NEW q \in Reqs, NEW r \in Places, Then(q, r)
    PROVE  /\ req' \in [Reqs -> Places]
           /\ req'[q] = r
           /\ \A p \in Reqs \ {q} : req'[p] = req[p]
BY DEF TypeOK, Then, Places

LEMMA SlotSets ==
    ASSUME NEW S \in SUBSET Reqs
    PROVE  /\ IsFiniteSet(S) /\ Cardinality(S) \in Nat
           /\ Cardinality(S) <= Cardinality(Reqs)
BY Constants, FS_Subset, FS_CardinalityType

\* Where a handler that moves is counted.
LEMMA Moves ==
    ASSUME TypeOK, NEW q \in Reqs, NEW r \in Places, Then(q, r)
    PROVE  /\ Guessing' = IF r.op \in {"password", "code"}
                          THEN Guessing \cup {q} ELSE Guessing \ {q}
           /\ Counting' = IF r.op \in {"counted", "lock"}
                          THEN Counting \cup {q} ELSE Counting \ {q}
<1>1. /\ req'[q] = r
      /\ \A p \in Reqs \ {q} : req'[p] = req[p]
  BY ThenType
<1>2. /\ \A p \in Reqs \ {q} : Op(p)' = Op(p)
      /\ Op(q)' = r.op
  BY <1>1 DEF Op
<1>3. Guessing' = IF r.op \in {"password", "code"}
                  THEN Guessing \cup {q} ELSE Guessing \ {q}
  BY <1>2 DEF Guessing
<1>4. Counting' = IF r.op \in {"counted", "lock"}
                  THEN Counting \cup {q} ELSE Counting \ {q}
  BY <1>2 DEF Counting
<1> QED
  BY <1>3, <1>4

\* Adding to, and taking from, the handlers that are counted.
LEMMA Counts ==
    ASSUME NEW S, IsFiniteSet(S), NEW x
    PROVE  /\ x \in S => Cardinality(S \cup {x}) = Cardinality(S)
           /\ x \notin S => Cardinality(S \cup {x}) = Cardinality(S) + 1
           /\ x \in S => Cardinality(S \ {x}) = Cardinality(S) - 1
           /\ x \notin S => Cardinality(S \ {x}) = Cardinality(S)
           /\ Cardinality(S) \in Nat
BY FS_AddElement, FS_RemoveElement, FS_CardinalityType

LEMMA InitInv == Init => IInv
<1> SUFFICES ASSUME Init PROVE IInv
  OBVIOUS
<1>1. \A q \in Reqs : req[q] = Idle /\ Op(q) = "idle"
  BY DEF Init, Op, Idle
<1>2. Guessing = {} /\ Counting = {} /\ Pending = {} /\ Created = {}
  BY <1>1 DEF Guessing, Counting, Pending, Created, Init
<1>3. Cardinality({}) = 0
  BY FS_EmptySet
<1>4. TypeOK
  <2>1. req \in [Reqs -> {Idle} \cup Login \cup Factor \cup Reset \cup Plain]
    BY DEF Init
  <2>2. /\ status \in [Asks -> {"none", "pending", "approved", "rejected"}]
        /\ issued \in [Asks -> Nat] /\ used \in [Asks -> Nat]
    BY DEF Init
  <2>3. secret \in 0 .. MaxSecrets /\ shown \in 0 .. MaxSecrets /\ secret <= shown
    BY Constants DEF Init
  <2>4. /\ link \in 0 .. MaxAsks /\ locks \in 0 .. MaxLocks /\ faults \in 0 .. MaxFaults
        /\ attempts \in Nat /\ guesses \in Nat
    BY Constants DEF Init
  <2>5. on \in BOOLEAN /\ crossed \in BOOLEAN /\ lock \in {"none", "on", "past"}
    BY DEF Init
  <2>6. proven \subseteq 1 .. shown /\ overruled \subseteq Asks
    BY DEF Init
  <2>7. raced \subseteq Asks /\ doubled \in BOOLEAN
    BY DEF Init
  <2> QED
    BY <2>1, <2>2, <2>3, <2>4, <2>5, <2>6, <2>7 DEF TypeOK
<1>5. LoginInv
  BY <1>2, <1>3, Constants DEF Init, LoginInv
<1>6. FactorInv
  BY <1>1 DEF Init, FactorInv
<1>7. AskInv
  <2>1. Created = 1 .. 0 /\ 0 \in 0 .. MaxAsks
    BY <1>2, Constants
  <2> QED
    BY <1>1, <2>1 DEF Init, AskInv, Numbered, OneHolder, Answered, Held
<1>8. LinkInv /\ WaitInv
  BY <1>1, <1>2 DEF Init, LinkInv, WaitInv, OneRedeemer, Redeemed, OneAsker
<1> QED
  BY <1>4, <1>5, <1>6, <1>7, <1>8 DEF IInv

----------------------------------------------------------------------------
(* What a handler of one part leaves alone                                  *)

LoginOps  == {"password", "code", "counted", "lock"}
FactorOps == {"generate", "enable", "disable"}
ResetOps  == {"ask", "approve", "reject", "redeem"}

LEMMA LoginFrame ==
    ASSUME TypeOK, LoginInv, UNCHANGED login,
           NEW q \in Reqs, NEW r \in Places, Then(q, r),
           Op(q) \notin LoginOps, r.op \notin LoginOps
    PROVE  LoginInv'
<1>1. q \notin Guessing /\ q \notin Counting
  BY DEF Guessing, Counting, LoginOps
<1>2. Guessing' = Guessing /\ Counting' = Counting
  BY <1>1, Moves DEF LoginOps
<1> QED
  BY <1>2 DEF LoginInv, login

LEMMA FactorFrame ==
    ASSUME TypeOK, FactorInv, UNCHANGED factor,
           NEW q \in Reqs, NEW r \in Places, Then(q, r), r.op \notin FactorOps
    PROVE  FactorInv'
<1>1. /\ Op(q)' = r.op
      /\ \A p \in Reqs \ {q} : req'[p] = req[p] /\ Op(p)' = Op(p)
  BY ThenType DEF Op
<1> QED
  BY <1>1 DEF FactorInv, factor, FactorOps

LEMMA ResetFrame ==
    ASSUME TypeOK, AskInv, LinkInv, WaitInv, UNCHANGED resets,
           NEW q \in Reqs, NEW r \in Places, Then(q, r),
           Op(q) \notin ResetOps, r.op \notin ResetOps
    PROVE  AskInv' /\ LinkInv' /\ WaitInv'
<1>1. /\ Op(q)' = r.op
      /\ \A p \in Reqs \ {q} : req'[p] = req[p] /\ Op(p)' = Op(p)
  BY ThenType DEF Op
<1>2. /\ Pending' = Pending /\ Created' = Created
      /\ UNCHANGED <<link, status, issued, used, overruled, raced, doubled>>
  BY DEF Pending, Created, resets, answers, races
<1>3. AskInv'
  BY <1>1, <1>2 DEF AskInv, Numbered, OneHolder, Answered, Held, ResetOps
<1>4. LinkInv'
  BY <1>1, <1>2 DEF LinkInv, OneRedeemer, Redeemed, ResetOps
<1>5. WaitInv'
  BY <1>1, <1>2 DEF WaitInv, OneAsker, ResetOps
<1> QED
  BY <1>3, <1>4, <1>5

----------------------------------------------------------------------------
(* Signing in                                                               *)

\* A step of a sign-in: its types, and the invariants of the other two parts.
LEMMA LoginOthers ==
    ASSUME IInv, UNCHANGED <<factor, resets>>,
           NEW q \in Reqs, NEW r \in Places, Then(q, r),
           Op(q) \in LoginOps \cup {"idle"}, r.op \in LoginOps \cup {"idle"},
           attempts' \in Nat, guesses' \in Nat, lock' \in {"none", "on", "past"},
           locks' \in 0 .. MaxLocks, faults' \in 0 .. MaxFaults, LoginInv'
    PROVE  IInv'
<1>1. TypeOK /\ FactorInv /\ AskInv /\ LinkInv /\ WaitInv
  BY DEF IInv
<1>2. req' \in [Reqs -> Places]
  BY <1>1, ThenType
<1>3. TypeOK'
  BY <1>1, <1>2 DEF TypeOK, factor, resets, answers, races, Places
<1>4. FactorInv'
  BY <1>1, FactorFrame DEF FactorOps, LoginOps
<1>5. AskInv' /\ LinkInv' /\ WaitInv'
  BY <1>1, ResetFrame DEF ResetOps, LoginOps
<1> QED
  BY <1>3, <1>4, <1>5 DEF IInv

\* The handlers that guess and those that count them are different ones.
LEMMA GuessOrCount ==
    /\ IsFiniteSet(Guessing) /\ IsFiniteSet(Counting)
    /\ Cardinality(Guessing) \in Nat /\ Cardinality(Counting) \in Nat
    /\ Cardinality(Guessing) <= Cardinality(Reqs)
    /\ Cardinality(Guessing) + Cardinality(Counting) <= Cardinality(Reqs)
<1>1. Guessing \in SUBSET Reqs /\ Counting \in SUBSET Reqs
      /\ Guessing \cup Counting \in SUBSET Reqs
  BY DEF Guessing, Counting
<1>2. Guessing \cap Counting = {}
  BY DEF Guessing, Counting
<1>3. IsFiniteSet(Guessing) /\ IsFiniteSet(Counting)
  BY <1>1, SlotSets
<1>4. Cardinality(Guessing \cup Counting)
        = Cardinality(Guessing) + Cardinality(Counting) - Cardinality(Guessing \cap Counting)
  BY <1>3, FS_Union
<1>5. Cardinality(Guessing \cap Counting) = 0
  BY <1>2, FS_EmptySet
<1>6. /\ Cardinality(Guessing) \in Nat /\ Cardinality(Counting) \in Nat
      /\ Cardinality(Guessing) <= Cardinality(Reqs)
      /\ Cardinality(Guessing \cup Counting) <= Cardinality(Reqs)
  BY <1>1, SlotSets
<1> QED
  BY <1>3, <1>4, <1>5, <1>6, Constants

LEMMA LoginNumbers ==
    ASSUME IInv
    PROVE  /\ TypeOK /\ LoginInv
           /\ attempts \in Nat /\ guesses \in Nat /\ faults \in Nat /\ Most \in Nat
           /\ lock \in {"none", "on", "past"} /\ locks \in 0 .. MaxLocks
           /\ faults \in 0 .. MaxFaults
BY Constants DEF IInv, TypeOK, Most

LEMMA LoginReadKeeps ==
    ASSUME IInv, NEW q \in Reqs, NEW op \in {"password", "code"}, LoginRead(q, op)
    PROVE  IInv'
<1> DEFINE r == [op |-> op, attempts |-> attempts, lock |-> lock, on |-> on]
<1>1. /\ TypeOK /\ LoginInv /\ Op(q) = "idle" /\ lock # "on" /\ Then(q, r)
      /\ UNCHANGED <<login, factor, resets>>
  BY DEF LoginRead, IInv
<1>2. lock \in {"none", "past"} /\ attempts \in Nat /\ on \in BOOLEAN
  BY <1>1 DEF TypeOK
<1>3. r \in Places /\ r.op = op
  BY <1>2 DEF Places, Login
<1> HIDE DEF r
<1>4. q \notin Counting
  BY <1>1 DEF Counting
<1>5. Counting' = Counting
  BY <1>1, <1>3, <1>4, Moves
<1>6. LoginInv'
  BY <1>1, <1>5 DEF LoginInv, login
<1> QED
  BY <1>1, <1>3, <1>6, LoginNumbers, LoginOthers DEF LoginOps, login

LEMMA WrongKeeps ==
    ASSUME IInv, NEW q \in Reqs, Wrong(q)
    PROVE  IInv'
<1> DEFINE r == [op |-> "counted"]
<1>1. /\ TypeOK /\ Op(q) \in {"password", "code"} /\ Then(q, r)
      /\ attempts' = attempts + 1 /\ guesses' = guesses + 1
      /\ UNCHANGED <<lock, locks, faults, factor, resets>>
  BY DEF Wrong, IInv
<1>2. r \in Places /\ r.op = "counted"
  BY PlaceTypes
<1> HIDE DEF r
<1>3. q \in Guessing /\ q \notin Counting
  BY <1>1 DEF Guessing, Counting
<1>4. Guessing' = Guessing \ {q} /\ Counting' = Counting \cup {q}
  BY <1>1, <1>2, Moves
<1>5. /\ Cardinality(Guessing)' = Cardinality(Guessing) - 1
      /\ Cardinality(Counting)' = Cardinality(Counting) + 1
  BY <1>3, <1>4, Counts, GuessOrCount
<1>6. Cardinality(Guessing) \in Nat /\ Cardinality(Counting) \in Nat
  BY GuessOrCount
<1>7. LoginInv'
  BY <1>1, <1>5, <1>6, LoginNumbers, Constants DEF LoginInv, Most
<1> QED
  BY <1>1, <1>2, <1>7, LoginNumbers, LoginOthers DEF LoginOps

LEMMA ReloadKeeps ==
    ASSUME IInv, NEW q \in Reqs, Reload(q)
    PROVE  IInv'
<1>1. /\ TypeOK /\ LoginInv /\ Op(q) = "counted" /\ UNCHANGED <<login, factor, resets>>
      /\ Then(q, IF attempts >= MaxAttempts THEN [op |-> "lock"] ELSE Idle)
  BY DEF Reload, IInv
<1>2. q \notin Guessing /\ q \in Counting
  BY <1>1 DEF Guessing, Counting
<1>3. CASE attempts >= MaxAttempts
  <2> DEFINE r == [op |-> "lock"]
  <2>1. Then(q, r) /\ r \in Places /\ r.op = "lock"
    BY <1>1, <1>3, PlaceTypes
  <2> HIDE DEF r
  <2>2. Guessing' = Guessing /\ Counting' = Counting
    BY <1>1, <1>2, <2>1, Moves
  <2>3. LoginInv'
    BY <1>1, <2>2 DEF LoginInv, login
  <2> QED
    BY <1>1, <2>1, <2>3, LoginNumbers, LoginOthers DEF LoginOps, login
<1>4. CASE ~(attempts >= MaxAttempts)
  <2>1. Then(q, Idle) /\ Idle \in Places /\ Idle.op = "idle"
    BY <1>1, <1>4, PlaceTypes
  <2>2. Guessing' = Guessing /\ Counting' = Counting \ {q}
    BY <1>1, <1>2, <2>1, Moves
  <2>3. guesses <= MaxAttempts - 1 + faults
    BY <1>1, <1>4, LoginNumbers, Constants DEF LoginInv
  <2>4. Cardinality(Counting') \in Nat
    <3>1. Counting' \in SUBSET Reqs
      BY DEF Counting
    <3> QED
      BY <3>1, SlotSets
  <2>5. LoginInv'
    BY <1>1, <2>2, <2>3, <2>4, LoginNumbers, Constants DEF LoginInv, login
  <2> QED
    BY <1>1, <2>1, <2>5, LoginNumbers, LoginOthers DEF LoginOps, login
<1> QED
  BY <1>3, <1>4

LEMMA LockKeeps ==
    ASSUME IInv, NEW q \in Reqs, Lock(q)
    PROVE  IInv'
<1>1. /\ TypeOK /\ LoginInv /\ Op(q) = "lock" /\ Then(q, Idle) /\ lock' = "on"
      /\ UNCHANGED <<attempts, guesses, locks, faults, factor, resets>>
  BY DEF Lock, IInv
<1>2. Idle \in Places /\ Idle.op = "idle"
  BY PlaceTypes
<1>3. q \notin Guessing
  BY <1>1 DEF Guessing
<1>4. Guessing' = Guessing
  BY <1>1, <1>2, <1>3, Moves
<1>5. guesses + Cardinality(Guessing) <= Most + faults
  BY <1>1, GuessOrCount, LoginNumbers, Constants DEF LoginInv, Most
<1>6. LoginInv'
  BY <1>1, <1>4, <1>5 DEF LoginInv, Most
<1> QED
  BY <1>1, <1>2, <1>6, LoginNumbers, LoginOthers DEF LoginOps

LEMMA HalfWayKeeps ==
    ASSUME IInv, NEW q \in Reqs, HalfWay(q)
    PROVE  IInv'
<1>1. /\ TypeOK /\ LoginInv /\ Op(q) = "password" /\ Then(q, Idle)
      /\ UNCHANGED <<login, factor, resets>>
  BY DEF HalfWay, IInv
<1>2. Idle \in Places /\ Idle.op = "idle"
  BY PlaceTypes
<1>3. q \in Guessing /\ q \notin Counting
  BY <1>1 DEF Guessing, Counting
<1>4. Guessing' = Guessing \ {q} /\ Counting' = Counting
  BY <1>1, <1>2, <1>3, Moves
<1>5. Cardinality(Guessing)' = Cardinality(Guessing) - 1 /\ Cardinality(Guessing) \in Nat
  BY <1>3, <1>4, Counts, GuessOrCount
<1>6. LoginInv'
  BY <1>1, <1>4, <1>5, LoginNumbers DEF LoginInv, login, Most
<1> QED
  BY <1>1, <1>2, <1>6, LoginNumbers, LoginOthers DEF LoginOps, login

\* Whatever becomes of the counter and of the lock, no guess is on the account.
LEMMA NoGuess ==
    ASSUME IInv, guesses' = 0, attempts' \in Nat, faults' \in Nat
    PROVE  LoginInv'
<1>1. /\ Cardinality(Guessing)' \in Nat /\ Cardinality(Counting)' \in Nat
      /\ Cardinality(Guessing)' <= Cardinality(Reqs)
  <2>1. Guessing' \in SUBSET Reqs /\ Counting' \in SUBSET Reqs
    BY DEF Guessing, Counting
  <2> QED
    BY <2>1, SlotSets
<1>2. guesses' <= attempts' + faults'
  <2>1. \A a, f \in Nat : 0 <= a + f
    OBVIOUS
  <2> QED
    BY <2>1
<1>3. guesses' <= MaxAttempts - 1 + faults' + Cardinality(Counting)'
  BY <1>1, Constants
<1>4. guesses' + Cardinality(Guessing)' <= Most + faults'
  <2>1. guesses' + Cardinality(Guessing)' <= Cardinality(Reqs)
    BY <1>1, Constants
  <2>2. Most \in Nat /\ Cardinality(Reqs) <= Most
    BY Constants DEF Most
  <2> QED
    BY <1>1, <2>1, <2>2, Constants
<1>5. Most' = Most
  BY DEF Most
<1> QED
  BY <1>2, <1>3, <1>4, <1>5 DEF LoginInv

LEMMA RightKeeps ==
    ASSUME IInv, NEW q \in Reqs, Right(q)
    PROVE  IInv'
<1>1. /\ TypeOK /\ Op(q) \in {"password", "code"} /\ Then(q, Idle) /\ guesses' = 0
      /\ attempts' = (IF req[q].attempts = 0 THEN attempts ELSE 0)
      /\ lock' = (IF req[q].lock = "none" THEN lock ELSE "none")
      /\ UNCHANGED <<locks, faults, factor, resets>>
  BY DEF Right, IInv
<1>2. Idle \in Places /\ Idle.op = "idle"
  BY PlaceTypes
<1>3. attempts' \in Nat /\ lock' \in {"none", "on", "past"} /\ faults' \in Nat
  BY <1>1, LoginNumbers
<1> QED
  BY <1>1, <1>2, <1>3, NoGuess, LoginNumbers, LoginOthers DEF LoginOps

LEMMA SignInFaultKeeps ==
    ASSUME IInv, NEW q \in Reqs, SignInFault(q)
    PROVE  IInv'
<1>1. /\ TypeOK /\ LoginInv /\ Op(q) \in {"password", "code"} /\ Then(q, Idle)
      /\ faults < MaxFaults /\ faults' = faults + 1
      /\ guesses' \in {guesses + 1, 0}
      /\ UNCHANGED <<attempts, lock, locks, factor, resets>>
  BY DEF SignInFault, IInv
<1>2. Idle \in Places /\ Idle.op = "idle"
  BY PlaceTypes
<1>3. faults' \in 0 .. MaxFaults /\ faults' \in Nat /\ attempts' \in Nat /\ guesses' \in Nat
  BY <1>1, LoginNumbers, Constants
<1>4. LoginInv'
  <2>1. CASE guesses' = 0
    BY <1>3, <2>1, NoGuess
  <2>2. CASE guesses' = guesses + 1
    <3>1. q \in Guessing /\ q \notin Counting
      BY <1>1 DEF Guessing, Counting
    <3>2. Guessing' = Guessing \ {q} /\ Counting' = Counting
      BY <1>1, <1>2, <3>1, Moves
    <3>3. Cardinality(Guessing)' = Cardinality(Guessing) - 1
      BY <3>1, <3>2, Counts, GuessOrCount
    <3> QED
      BY <1>1, <2>2, <3>2, <3>3, GuessOrCount, LoginNumbers, Constants DEF LoginInv, Most
  <2> QED
    BY <1>1, <2>1, <2>2
<1> QED
  BY <1>1, <1>2, <1>3, <1>4, LoginNumbers, LoginOthers DEF LoginOps

LEMMA CountFaultKeeps ==
    ASSUME IInv, NEW q \in Reqs, CountFault(q)
    PROVE  IInv'
<1>1. /\ TypeOK /\ LoginInv /\ Op(q) \in {"counted", "lock"} /\ Then(q, Idle)
      /\ faults < MaxFaults /\ faults' = faults + 1
      /\ UNCHANGED <<attempts, lock, guesses, locks, factor, resets>>
  BY DEF CountFault, IInv
<1>2. Idle \in Places /\ Idle.op = "idle"
  BY PlaceTypes
<1>3. faults' \in 0 .. MaxFaults /\ attempts' \in Nat /\ guesses' \in Nat
  BY <1>1, LoginNumbers, Constants
<1>4. q \notin Guessing /\ q \in Counting
  BY <1>1 DEF Guessing, Counting
<1>5. Guessing' = Guessing /\ Counting' = Counting \ {q}
  BY <1>1, <1>2, <1>4, Moves
<1>6. Cardinality(Counting)' = Cardinality(Counting) - 1
  BY <1>4, <1>5, Counts, GuessOrCount
<1>7. LoginInv'
  BY <1>1, <1>5, <1>6, GuessOrCount, LoginNumbers, Constants DEF LoginInv, Most
<1> QED
  BY <1>1, <1>2, <1>3, <1>7, LoginNumbers, LoginOthers DEF LoginOps

LEMMA LockEndsKeeps ==
    ASSUME IInv, LockEnds
    PROVE  IInv'
<1>1. /\ TypeOK /\ lock' = "past" /\ locks < MaxLocks /\ locks' = locks + 1 /\ guesses' = 0
      /\ UNCHANGED <<attempts, faults, factor, resets, req>>
  BY DEF LockEnds, IInv
<1>2. locks' \in 0 .. MaxLocks /\ attempts' \in Nat /\ faults' \in Nat
  BY <1>1, LoginNumbers, Constants
<1>3. LoginInv'
  BY <1>1, <1>2, NoGuess
<1>4. TypeOK'
  BY <1>1, <1>2 DEF TypeOK, factor, resets, answers, races
<1> QED
  BY <1>1, <1>3, <1>4
  DEF IInv, FactorInv, AskInv, Numbered, OneHolder, Answered, Held, LinkInv, OneRedeemer,
      Redeemed, WaitInv, OneAsker, Pending, Created, Op, factor, resets, answers, races

----------------------------------------------------------------------------
(* The second factor                                                        *)

LEMMA FactorOthers ==
    ASSUME IInv, UNCHANGED <<login, resets>>,
           NEW q \in Reqs, NEW r \in Places, Then(q, r),
           Op(q) \in FactorOps \cup {"idle"}, r.op \in FactorOps \cup {"idle"},
           secret' \in 0 .. MaxSecrets, on' \in BOOLEAN, shown' \in 0 .. MaxSecrets,
           secret' <= shown', proven' \subseteq 1 .. shown', crossed' \in BOOLEAN, FactorInv'
    PROVE  IInv'
<1>1. TypeOK /\ LoginInv /\ AskInv /\ LinkInv /\ WaitInv
  BY DEF IInv
<1>2. req' \in [Reqs -> Places]
  BY <1>1, ThenType
<1>3. TypeOK'
  BY <1>1, <1>2 DEF TypeOK, login, resets, answers, races, Places
<1>4. LoginInv'
  BY <1>1, LoginFrame DEF FactorOps, LoginOps
<1>5. AskInv' /\ LinkInv' /\ WaitInv'
  BY <1>1, ResetFrame DEF ResetOps, FactorOps
<1> QED
  BY <1>3, <1>4, <1>5 DEF IInv

LEMMA FactorNumbers ==
    ASSUME IInv
    PROVE  /\ TypeOK /\ FactorInv /\ MaxSecrets \in Nat
           /\ secret \in 0 .. MaxSecrets /\ on \in BOOLEAN /\ shown \in 0 .. MaxSecrets
           /\ secret <= shown /\ proven \subseteq 1 .. shown /\ crossed \in BOOLEAN
BY Constants DEF IInv, TypeOK

LEMMA FactorReadKeeps ==
    ASSUME IInv, NEW q \in Reqs, NEW op \in FactorOps, FactorRead(q, op)
    PROVE  IInv'
<1> DEFINE r == [op |-> op, secret |-> secret, on |-> on]
<1>1. /\ Op(q) = "idle" /\ MayBegin(op) /\ Then(q, r) /\ UNCHANGED <<login, factor, resets>>
  BY DEF FactorRead
<1>2. r \in Factor /\ r.op = op /\ r.secret = secret /\ r.on = on
  BY FactorNumbers DEF Factor, FactorOps
<1> HIDE DEF r
<1>3. r \in Places
  BY <1>2 DEF Places
<1>4. /\ req'[q] = r /\ Op(q)' = op
      /\ \A p \in Reqs \ {q} : req'[p] = req[p] /\ Op(p)' = Op(p)
  BY <1>1, <1>2, <1>3, FactorNumbers, ThenType DEF Op
<1>5. (op = "generate" => ~on) /\ (op = "enable" => secret # 0)
  BY <1>1 DEF MayBegin
<1>6. FactorInv'
  BY <1>1, <1>2, <1>4, <1>5, FactorNumbers DEF FactorInv, factor
<1> QED
  BY <1>1, <1>2, <1>3, <1>6, FactorNumbers, FactorOthers DEF factor

\* A handler that ends.
LEMMA FactorEnds ==
    ASSUME IInv, NEW q \in Reqs, Then(q, Idle)
    PROVE  /\ Idle \in Places /\ Idle.op = "idle" /\ Op(q)' = "idle"
           /\ \A p \in Reqs \ {q} : req'[p] = req[p] /\ Op(p)' = Op(p)
BY FactorNumbers, PlaceTypes, ThenType DEF Op

LEMMA GenerateKeeps ==
    ASSUME IInv, NEW q \in Reqs, GenerateSave(q)
    PROVE  IInv'
<1>1. /\ Op(q) = "generate" /\ shown < MaxSecrets
      /\ shown' = shown + 1 /\ secret' = shown + 1
      /\ crossed' = (crossed \/ secret # req[q].secret \/ on # req[q].on)
      /\ Then(q, Idle) /\ UNCHANGED <<on, proven, login, resets>>
  BY DEF GenerateSave, Crossed
<1>2. /\ Idle \in Places /\ Idle.op = "idle" /\ Op(q)' = "idle"
      /\ \A p \in Reqs \ {q} : req'[p] = req[p] /\ Op(p)' = Op(p)
  BY <1>1, FactorEnds
<1>3. /\ secret' \in 0 .. MaxSecrets /\ shown' \in 0 .. MaxSecrets /\ secret' <= shown'
      /\ 1 .. shown \subseteq 1 .. shown' /\ crossed' \in BOOLEAN
  BY <1>1, FactorNumbers
<1>4. \A p \in Reqs : Op(p) \in {"generate", "enable", "disable"} => req[p].secret <= shown'
  BY <1>1, FactorNumbers, SlotTypes DEF FactorInv
\* What was read said that the factor was off.
<1>5. on /\ ~crossed' => FALSE
  BY <1>1, FactorNumbers DEF FactorInv
<1>6. FactorInv'
  BY <1>1, <1>2, <1>4, <1>5, FactorNumbers DEF FactorInv
<1> QED
  BY <1>1, <1>2, <1>3, <1>6, FactorNumbers, FactorOthers DEF FactorOps

LEMMA EnableKeeps ==
    ASSUME IInv, NEW q \in Reqs, EnableSave(q)
    PROVE  IInv'
<1>1. /\ Op(q) = "enable" /\ proven' = proven \cup {req[q].secret}
      /\ on' = (on \/ ~req[q].on)
      /\ crossed' = (crossed \/ secret # req[q].secret \/ on # req[q].on)
      /\ Then(q, Idle) /\ UNCHANGED <<secret, shown, login, resets>>
  BY DEF EnableSave, Crossed
<1>2. /\ Idle \in Places /\ Idle.op = "idle" /\ Op(q)' = "idle"
      /\ \A p \in Reqs \ {q} : req'[p] = req[p] /\ Op(p)' = Op(p)
  BY <1>1, FactorEnds
<1>3. req[q].secret \in 1 .. shown
  BY <1>1, FactorNumbers, SlotTypes DEF FactorInv
<1>4. on' \in BOOLEAN /\ crossed' \in BOOLEAN /\ proven' \subseteq 1 .. shown'
  BY <1>1, <1>3, FactorNumbers
<1>5. ~crossed' => secret' \in proven'
  BY <1>1
<1>6. FactorInv'
  BY <1>1, <1>2, <1>5, FactorNumbers DEF FactorInv
<1> QED
  BY <1>1, <1>2, <1>4, <1>6, FactorNumbers, FactorOthers DEF FactorOps

LEMMA DisableKeeps ==
    ASSUME IInv, NEW q \in Reqs, DisableSave(q)
    PROVE  IInv'
<1>1. /\ Op(q) = "disable" /\ on' = FALSE /\ secret' = 0
      /\ crossed' = (crossed \/ secret # req[q].secret \/ on # req[q].on)
      /\ Then(q, Idle) /\ UNCHANGED <<shown, proven, login, resets>>
  BY DEF DisableSave, Crossed
<1>2. /\ Idle \in Places /\ Idle.op = "idle" /\ Op(q)' = "idle"
      /\ \A p \in Reqs \ {q} : req'[p] = req[p] /\ Op(p)' = Op(p)
  BY <1>1, FactorEnds
<1>3. /\ secret' \in 0 .. MaxSecrets /\ secret' <= shown' /\ crossed' \in BOOLEAN
      /\ on' \in BOOLEAN /\ proven' \subseteq 1 .. shown'
  <2>1. secret' \in 0 .. MaxSecrets /\ secret' <= shown'
    BY <1>1, FactorNumbers
  <2>2. crossed' \in BOOLEAN /\ on' \in BOOLEAN
    BY <1>1, FactorNumbers
  <2>3. proven' \subseteq 1 .. shown'
    BY <1>1, FactorNumbers
  <2> QED
    BY <2>1, <2>2, <2>3
<1>4. FactorInv'
  BY <1>1, <1>2, FactorNumbers DEF FactorInv
<1> QED
  BY <1>1, <1>2, <1>3, <1>4, FactorNumbers, FactorOthers DEF FactorOps

----------------------------------------------------------------------------
(* The reset requests                                                       *)

LEMMA ResetOthers ==
    ASSUME IInv, UNCHANGED <<login, factor>>,
           NEW q \in Reqs, NEW r \in Places, Then(q, r),
           Op(q) \in ResetOps \cup {"idle"}, r.op \in ResetOps \cup {"idle"},
           link' \in 0 .. MaxAsks,
           status' \in [Asks -> {"none", "pending", "approved", "rejected"}],
           issued' \in [Asks -> Nat], used' \in [Asks -> Nat], overruled' \subseteq Asks,
           raced' \subseteq Asks, doubled' \in BOOLEAN,
           AskInv', LinkInv', WaitInv'
    PROVE  IInv'
<1>1. TypeOK /\ LoginInv /\ FactorInv
  BY DEF IInv
<1>2. req' \in [Reqs -> Places]
  BY <1>1, ThenType
<1>3. TypeOK'
  BY <1>1, <1>2 DEF TypeOK, login, factor, Places
<1>4. LoginInv'
  BY <1>1, LoginFrame DEF ResetOps, LoginOps
<1>5. FactorInv'
  BY <1>1, FactorFrame DEF ResetOps, FactorOps
<1> QED
  BY <1>3, <1>4, <1>5 DEF IInv

LEMMA ResetNumbers ==
    ASSUME IInv
    PROVE  /\ TypeOK /\ AskInv /\ LinkInv /\ WaitInv
           /\ link \in 0 .. MaxAsks /\ MaxAsks \in Nat /\ 0 \in 0 .. MaxAsks
           /\ status \in [Asks -> {"none", "pending", "approved", "rejected"}]
           /\ issued \in [Asks -> Nat] /\ used \in [Asks -> Nat] /\ overruled \subseteq Asks
           /\ raced \subseteq Asks /\ doubled \in BOOLEAN
           /\ Pending \in SUBSET Asks /\ Created \in SUBSET Asks
BY Constants DEF IInv, TypeOK, Pending, Created

\* What a step does to the handlers.
LEMMA Others ==
    ASSUME IInv, NEW q \in Reqs, NEW r \in Places, Then(q, r)
    PROVE  /\ req'[q] = r /\ Op(q)' = r.op
           /\ \A p \in Reqs \ {q} : req'[p] = req[p] /\ Op(p)' = Op(p)
BY ThenType DEF IInv, Op

\* A step that only moves a handler, which does not redeem afterwards.
LEMMA SameLinks ==
    ASSUME IInv, UNCHANGED <<link, issued, used, raced>>,
           NEW q \in Reqs, NEW r \in Places, Then(q, r),
           Op(q) # "redeem", r.op # "redeem"
    PROVE  LinkInv'
<1>1. /\ Op(q)' = r.op
      /\ \A p \in Reqs \ {q} : req'[p] = req[p] /\ Op(p)' = Op(p)
  BY Others
<1> QED
  BY <1>1, ResetNumbers DEF LinkInv, OneRedeemer, Redeemed

LEMMA SameWaiting ==
    ASSUME IInv, Pending' \subseteq Pending, UNCHANGED doubled,
           NEW q \in Reqs, NEW r \in Places, Then(q, r), r.op # "ask"
    PROVE  WaitInv'
<1>1. /\ Op(q)' = r.op
      /\ \A p \in Reqs \ {q} : Op(p)' = Op(p)
  BY Others
<1>2. WaitInv
  BY ResetNumbers
<1>3. \A p \in Reqs : Op(p)' = "ask" => Op(p) = "ask"
  BY <1>1
<1> QED
  BY <1>2, <1>3 DEF WaitInv, OneAsker

LEMMA AskReadKeeps ==
    ASSUME IInv, NEW q \in Reqs, AskRead(q)
    PROVE  IInv'
<1> DEFINE r == [op |-> "ask"]
<1>1. /\ Op(q) = "idle" /\ Pending = {} /\ Then(q, r)
      /\ doubled' = (doubled \/ \E p \in Reqs : Op(p) = "ask")
      /\ UNCHANGED <<link, status, issued, used, overruled, raced, login, factor>>
  BY DEF AskRead, answers
<1>2. r \in Places /\ r.op = "ask"
  BY PlaceTypes
<1> HIDE DEF r
<1>3. /\ Op(q)' = "ask"
      /\ \A p \in Reqs \ {q} : req'[p] = req[p] /\ Op(p)' = Op(p)
  BY <1>1, <1>2, Others
<1>4. AskInv'
  BY <1>1, <1>3, ResetNumbers DEF AskInv, Numbered, OneHolder, Answered, Held, Created
<1>5. LinkInv'
  BY <1>1, <1>2, SameLinks
<1>6. WaitInv'
  <2>1. Pending' = {}
    BY <1>1 DEF Pending
  <2> QED
    BY <1>1, <1>3, <2>1 DEF WaitInv, OneAsker
<1>7. doubled' \in BOOLEAN
  BY <1>1, ResetNumbers
<1> QED
  BY <1>1, <1>2, <1>4, <1>5, <1>6, <1>7, ResetNumbers, ResetOthers DEF ResetOps

LEMMA AskCreateKeeps ==
    ASSUME IInv, NEW q \in Reqs, AskCreate(q)
    PROVE  IInv'
<1> DEFINE id == Cardinality(Created) + 1
<1>1. /\ Op(q) = "ask" /\ Created # Asks /\ Then(q, Idle)
      /\ status' = [status EXCEPT ![id] = "pending"]
      /\ UNCHANGED <<link, issued, used, overruled, raced, doubled, login, factor>>
  BY DEF AskCreate, races
<1>2. PICK k \in 0 .. MaxAsks : Created = 1 .. k
  BY ResetNumbers DEF AskInv, Numbered
<1>3. Cardinality(Created) = k
  BY <1>2, FS_Interval, Constants
<1>4. id = k + 1 /\ id \in Asks /\ id \notin Created
  BY <1>1, <1>2, <1>3, Constants DEF Asks
<1> HIDE DEF id
<1>5. status[id] = "none" /\ issued[id] = 0
  BY <1>4, ResetNumbers DEF Created, AskInv, Answered
<1>6. /\ status' \in [Asks -> {"none", "pending", "approved", "rejected"}]
      /\ status'[id] = "pending" /\ \A a \in Asks \ {id} : status'[a] = status[a]
  BY <1>1, <1>4, ResetNumbers
<1>7. /\ Idle \in Places /\ Idle.op = "idle" /\ Op(q)' = "idle"
      /\ \A p \in Reqs \ {q} : req'[p] = req[p] /\ Op(p)' = Op(p)
  BY <1>1, Others, PlaceTypes
<1>8. Created' = Created \cup {id} /\ Pending' = Pending \cup {id} /\ id \notin Pending
  BY <1>4, <1>5, <1>6 DEF Created, Pending
<1>9. AskInv'
  <2>1. Numbered'
    <3>1. k + 1 \in 0 .. MaxAsks /\ 1 .. (k + 1) = (1 .. k) \cup {k + 1}
      BY <1>4, Constants DEF Asks
    <3> QED
      BY <1>2, <1>4, <1>8, <3>1 DEF Numbered
  <2>2. \A p \in Reqs : Op(p) \in {"approve", "reject"} => req[p].ask \in Asks \ {id}
    <3>1. TypeOK /\ Held
      BY ResetNumbers DEF AskInv
    <3>2. ASSUME NEW p \in Reqs, Op(p) \in {"approve", "reject"}
          PROVE  req[p].ask \in Asks /\ req[p].ask # id
      <4>1. req[p].ask \in Asks
        BY <3>1, <3>2, SlotTypes
      <4>2. status[req[p].ask] # "none"
        BY <3>1, <3>2 DEF Held
      <4> QED
        BY <1>5, <4>1, <4>2
    <3> QED
      BY <3>2
  <2>3. Answered'
    BY <1>1, <1>5, <1>6, ResetNumbers DEF AskInv, Answered
  <2>4. Held'
    BY <1>6, <1>7, <2>2, ResetNumbers DEF AskInv, Held
  <2>5. OneHolder'
    BY <1>7, ResetNumbers DEF AskInv, OneHolder
  <2> QED
    BY <2>1, <2>3, <2>4, <2>5 DEF AskInv
<1>10. LinkInv'
  BY <1>1, <1>7, SameLinks
<1>11. WaitInv'
  <2>1. ~doubled => Pending = {} /\ \A p \in Reqs \ {q} : Op(p) # "ask"
    BY <1>1, ResetNumbers DEF WaitInv, OneAsker
  <2> QED
    BY <1>1, <1>7, <1>8, <2>1 DEF WaitInv, OneAsker
<1> QED
  BY <1>1, <1>6, <1>7, <1>9, <1>10, <1>11, ResetNumbers, ResetOthers DEF ResetOps

LEMMA ApproveReadKeeps ==
    ASSUME IInv, NEW q \in Reqs, NEW a \in Asks, ApproveRead(q, a)
    PROVE  IInv'
<1> DEFINE r == [op |-> "approve", ask |-> a]
<1>1. /\ Op(q) = "idle" /\ ~LockedAsk(a) /\ status[a] = "pending" /\ Then(q, r)
      /\ UNCHANGED <<login, factor, resets>>
  BY DEF ApproveRead
<1>2. r \in Places /\ r.op = "approve" /\ r.ask = a
  BY PlaceTypes
<1> HIDE DEF r
<1>3. /\ req'[q] = r /\ Op(q)' = "approve"
      /\ \A p \in Reqs \ {q} : req'[p] = req[p] /\ Op(p)' = Op(p)
  BY <1>1, <1>2, Others
<1>4. \A p \in Reqs : Op(p) = "approve" => req[p].ask # a
  BY <1>1 DEF LockedAsk
<1>5. AskInv'
  BY <1>1, <1>2, <1>3, <1>4, ResetNumbers
  DEF AskInv, Numbered, OneHolder, Answered, Held, Created, resets, answers, races
<1>6. LinkInv'
  BY <1>1, <1>2, SameLinks DEF resets, answers, races
<1>7. Pending' = Pending
  BY <1>1 DEF Pending, resets, answers, races
<1>8. WaitInv'
  BY <1>1, <1>2, <1>7, SameWaiting DEF resets, races
<1> QED
  BY <1>1, <1>2, <1>5, <1>6, <1>8, ResetNumbers, ResetOthers DEF ResetOps, resets, answers, races

LEMMA ApproveCommitKeeps ==
    ASSUME IInv, NEW q \in Reqs, ApproveCommit(q)
    PROVE  IInv'
<1> DEFINE a == req[q].ask
<1>1. /\ Op(q) = "approve" /\ Then(q, Idle)
      /\ status' = [status EXCEPT ![a] = "approved"]
      /\ issued' = [issued EXCEPT ![a] = @ + 1] /\ link' = a
      /\ UNCHANGED <<used, overruled, raced, doubled, login, factor>>
  BY DEF ApproveCommit, races
<1>2. /\ a \in Asks /\ status[a] = "pending" /\ issued[a] = 0 /\ used[a] = 0
  <2>1. TypeOK /\ Answered /\ Held /\ LinkInv
    BY ResetNumbers DEF AskInv
  <2>2. a \in Asks
    BY <1>1, <2>1, SlotTypes
  <2>3. status[a] = "pending"
    BY <1>1, <2>1 DEF Held
  <2>4. issued[a] = 0
    BY <2>1, <2>2, <2>3 DEF Answered
  <2>5. used[a] = 0
    BY <2>1, <2>2, <2>4 DEF LinkInv
  <2> QED
    BY <2>2, <2>3, <2>4, <2>5
<1>3. /\ Idle \in Places /\ Idle.op = "idle" /\ Op(q)' = "idle"
      /\ \A p \in Reqs \ {q} : req'[p] = req[p] /\ Op(p)' = Op(p)
  BY <1>1, Others, PlaceTypes
<1>4. \A p \in Reqs \ {q} : Op(p) = "approve" => req[p].ask # a
  BY <1>1, ResetNumbers DEF AskInv, OneHolder
<1> HIDE DEF a
<1>5. /\ status' \in [Asks -> {"none", "pending", "approved", "rejected"}]
      /\ status'[a] = "approved" /\ \A b \in Asks \ {a} : status'[b] = status[b]
      /\ issued' \in [Asks -> Nat]
      /\ issued'[a] = 1 /\ \A b \in Asks \ {a} : issued'[b] = issued[b]
  BY <1>1, <1>2, ResetNumbers
<1>6. Created' = Created /\ Pending' \subseteq Pending
  BY <1>2, <1>5 DEF Created, Pending
<1>7. \A p \in Reqs : Op(p) \in {"approve", "reject", "redeem"} => req[p].ask \in Asks
  BY ResetNumbers, SlotTypes
<1>8. AskInv'
  <2>1. Numbered'
    BY <1>6, ResetNumbers DEF AskInv, Numbered
  <2>2. Answered'
    BY <1>1, <1>5, ResetNumbers DEF AskInv, Answered
  <2>3. Held'
    BY <1>3, <1>4, <1>5, <1>7, ResetNumbers DEF AskInv, Held
  <2>4. OneHolder'
    BY <1>3, ResetNumbers DEF AskInv, OneHolder
  <2> QED
    BY <2>1, <2>2, <2>3, <2>4 DEF AskInv
<1>9. LinkInv'
  <2>1. \A b \in Asks : issued'[b] <= 1 /\ (used'[b] # 0 => issued'[b] = 1)
    BY <1>1, <1>2, <1>5, ResetNumbers DEF LinkInv
  <2>2. \A p \in Reqs : Op(p)' = "redeem" => issued'[req'[p].ask] = 1
    BY <1>3, <1>5, <1>7, ResetNumbers DEF LinkInv
  <2>3. link' # 0 => issued'[link'] = 1 /\ used'[link'] = 0
    BY <1>1, <1>2, <1>5
  <2>4. ASSUME NEW b \in Asks \ raced
        PROVE  used'[b] <= 1 /\ OneRedeemer(b)' /\ (Redeemed(b)' => used'[b] = 0)
    BY <1>1, <1>3, ResetNumbers DEF LinkInv, OneRedeemer, Redeemed
  <2> QED
    BY <1>1, <2>1, <2>2, <2>3, <2>4 DEF LinkInv
<1>10. WaitInv'
  BY <1>1, <1>3, <1>6, SameWaiting
<1>11. link' \in 0 .. MaxAsks
  BY <1>1, <1>2, Constants DEF Asks
<1> QED
  BY <1>1, <1>3, <1>5, <1>8, <1>9, <1>10, <1>11, ResetNumbers, ResetOthers DEF ResetOps

LEMMA RejectReadKeeps ==
    ASSUME IInv, NEW q \in Reqs, NEW a \in Asks, RejectRead(q, a)
    PROVE  IInv'
<1> DEFINE r == [op |-> "reject", ask |-> a]
<1>1. /\ Op(q) = "idle" /\ status[a] = "pending" /\ Then(q, r)
      /\ UNCHANGED <<login, factor, resets>>
  BY DEF RejectRead
<1>2. r \in Places /\ r.op = "reject" /\ r.ask = a
  BY PlaceTypes
<1> HIDE DEF r
<1>3. /\ req'[q] = r /\ Op(q)' = "reject"
      /\ \A p \in Reqs \ {q} : req'[p] = req[p] /\ Op(p)' = Op(p)
  BY <1>1, <1>2, Others
<1>4. AskInv'
  BY <1>1, <1>2, <1>3, ResetNumbers
  DEF AskInv, Numbered, OneHolder, Answered, Held, Created, resets, answers, races
<1>5. LinkInv'
  BY <1>1, <1>2, SameLinks DEF resets, answers, races
<1>6. Pending' = Pending
  BY <1>1 DEF Pending, resets, answers, races
<1>7. WaitInv'
  BY <1>1, <1>2, <1>6, SameWaiting DEF resets, races
<1> QED
  BY <1>1, <1>2, <1>4, <1>5, <1>7, ResetNumbers, ResetOthers DEF ResetOps, resets, answers, races

LEMMA RejectSaveKeeps ==
    ASSUME IInv, NEW q \in Reqs, RejectSave(q)
    PROVE  IInv'
<1> DEFINE a == req[q].ask
<1>1. /\ Op(q) = "reject" /\ Then(q, Idle) /\ ~LockedAsk(a)
      /\ status' = [status EXCEPT ![a] = "rejected"]
      /\ overruled' = (IF status[a] = "approved" THEN overruled \cup {a} ELSE overruled)
      /\ UNCHANGED <<link, issued, used, raced, doubled, login, factor>>
  BY DEF RejectSave, races
<1>2. a \in Asks /\ status[a] # "none"
  <2>1. TypeOK /\ Held
    BY ResetNumbers DEF AskInv
  <2> QED
    BY <1>1, <2>1, SlotTypes DEF Held
<1>3. /\ Idle \in Places /\ Idle.op = "idle" /\ Op(q)' = "idle"
      /\ \A p \in Reqs \ {q} : req'[p] = req[p] /\ Op(p)' = Op(p)
  BY <1>1, Others, PlaceTypes
<1>4. \A p \in Reqs : Op(p) = "approve" => req[p].ask # a
  BY <1>1 DEF LockedAsk
<1> HIDE DEF a
<1>5. /\ status' \in [Asks -> {"none", "pending", "approved", "rejected"}]
      /\ status'[a] = "rejected" /\ \A b \in Asks \ {a} : status'[b] = status[b]
      /\ overruled' \subseteq Asks /\ overruled \subseteq overruled'
  BY <1>1, <1>2, ResetNumbers
<1>6. Created' = Created /\ Pending' \subseteq Pending
  BY <1>2, <1>5 DEF Created, Pending
<1>7. \A p \in Reqs : Op(p) \in {"approve", "reject"} => req[p].ask \in Asks
  BY ResetNumbers, SlotTypes
<1>8. AskInv'
  <2>1. Numbered'
    BY <1>6, ResetNumbers DEF AskInv, Numbered
\* An approved request that is rejected all the same is in overruled.
  <2>2. Answered'
    <3>1. issued[a] = 1 => a \in overruled'
      BY <1>1, <1>2, ResetNumbers DEF AskInv, Answered
    <3> QED
      BY <1>1, <1>5, <3>1, ResetNumbers DEF AskInv, Answered
  <2>3. Held'
    BY <1>3, <1>4, <1>5, <1>7, ResetNumbers DEF AskInv, Held
  <2>4. OneHolder'
    BY <1>3, ResetNumbers DEF AskInv, OneHolder
  <2> QED
    BY <2>1, <2>2, <2>3, <2>4 DEF AskInv
<1>9. LinkInv'
  BY <1>1, <1>3, SameLinks
<1>10. WaitInv'
  BY <1>1, <1>3, <1>6, SameWaiting
<1> QED
  BY <1>1, <1>3, <1>5, <1>8, <1>9, <1>10, ResetNumbers, ResetOthers DEF ResetOps

LEMMA SameAsks ==
    ASSUME IInv, UNCHANGED <<status, issued, overruled>>,
           NEW q \in Reqs, NEW r \in Places, Then(q, r),
           r.op \notin {"approve", "reject"}
    PROVE  AskInv' /\ Pending' = Pending
<1>1. /\ Op(q)' = r.op
      /\ \A p \in Reqs \ {q} : req'[p] = req[p] /\ Op(p)' = Op(p)
  BY Others
<1>2. Created' = Created /\ Pending' = Pending
  BY DEF Created, Pending
<1> QED
  BY <1>1, <1>2, ResetNumbers DEF AskInv, Numbered, OneHolder, Answered, Held

LEMMA RedeemReadKeeps ==
    ASSUME IInv, NEW q \in Reqs, RedeemRead(q)
    PROVE  IInv'
<1> DEFINE r == [op |-> "redeem", ask |-> link]
<1>1. /\ Op(q) = "idle" /\ link # 0 /\ Then(q, r)
      /\ raced' = (IF Redeemed(link) THEN raced \cup {link} ELSE raced)
      /\ UNCHANGED <<link, status, issued, used, overruled, doubled, login, factor>>
  BY DEF RedeemRead, answers
<1>2. link \in Asks /\ issued[link] = 1 /\ used[link] = 0
  BY <1>1, ResetNumbers DEF Asks, LinkInv
<1>3. r \in Places /\ r.op = "redeem" /\ r.ask = link
  BY <1>2, PlaceTypes
<1> HIDE DEF r
<1>4. /\ req'[q] = r /\ Op(q)' = "redeem"
      /\ \A p \in Reqs \ {q} : req'[p] = req[p] /\ Op(p)' = Op(p)
  BY <1>1, <1>3, Others
<1>5. AskInv' /\ Pending' = Pending
  BY <1>1, <1>3, SameAsks
\* A second handler at the link is in raced; none begins once it has been used.
<1>6. LinkInv'
  <2>1. ASSUME NEW b \in Asks \ raced'
        PROVE  used'[b] <= 1 /\ OneRedeemer(b)' /\ (Redeemed(b)' => used'[b] = 0)
    <3>1. /\ b \in Asks \ raced /\ used'[b] = used[b]
          /\ used[b] <= 1 /\ OneRedeemer(b) /\ (Redeemed(b) => used[b] = 0)
      BY <1>1, <2>1, ResetNumbers DEF LinkInv
    <3>2. CASE b = link
      <4>1. \A p \in Reqs : ~(Op(p) = "redeem" /\ req[p].ask = b)
        BY <1>1, <2>1, <3>2 DEF Redeemed
      <4> QED
        BY <1>2, <1>4, <3>1, <3>2, <4>1 DEF OneRedeemer
    <3>3. CASE b # link
      <4>1. \A p \in Reqs : Op(p)' = "redeem" /\ req'[p].ask = b
                               => Op(p) = "redeem" /\ req[p].ask = b
        BY <1>3, <1>4, <3>3
      <4> QED
        BY <3>1, <4>1 DEF OneRedeemer, Redeemed
    <3> QED
      BY <3>2, <3>3
  <2>2. \A p \in Reqs : Op(p)' = "redeem" => issued'[req'[p].ask] = 1
    BY <1>1, <1>2, <1>3, <1>4, ResetNumbers DEF LinkInv
  <2> QED
    BY <1>1, <2>1, <2>2, ResetNumbers DEF LinkInv
<1>7. WaitInv'
  BY <1>1, <1>3, <1>5, SameWaiting
<1>8. raced' \subseteq Asks
  BY <1>1, <1>2, ResetNumbers
<1> QED
  BY <1>1, <1>3, <1>5, <1>6, <1>7, <1>8, ResetNumbers, ResetOthers DEF ResetOps

LEMMA RedeemSaveKeeps ==
    ASSUME IInv, NEW q \in Reqs, RedeemSave(q)
    PROVE  IInv'
<1> DEFINE a == req[q].ask
<1>1. /\ Op(q) = "redeem" /\ Then(q, Idle) /\ link' = 0
      /\ used' = [used EXCEPT ![a] = @ + 1]
      /\ UNCHANGED <<status, issued, overruled, raced, doubled, login, factor>>
  BY DEF RedeemSave, races
<1>2. a \in Asks /\ issued[a] = 1
  BY <1>1, ResetNumbers, SlotTypes DEF LinkInv
<1>3. /\ Idle \in Places /\ Idle.op = "idle" /\ Op(q)' = "idle"
      /\ \A p \in Reqs \ {q} : req'[p] = req[p] /\ Op(p)' = Op(p)
  BY <1>1, Others, PlaceTypes
<1>4. Redeemed(a) /\ \A p \in Reqs \ {q} : OneRedeemer(a) =>
                           ~(Op(p) = "redeem" /\ req[p].ask = a)
  BY <1>1 DEF Redeemed, OneRedeemer
<1> HIDE DEF a
<1>5. /\ used' \in [Asks -> Nat] /\ used'[a] = used[a] + 1 /\ used[a] \in Nat
      /\ \A b \in Asks \ {a} : used'[b] = used[b]
  BY <1>1, <1>2, ResetNumbers
<1>6. AskInv' /\ Pending' = Pending
  BY <1>1, <1>3, SameAsks
\* If one handler was at the link, it is this one, and nobody had used it.
<1>7. LinkInv'
  <2>1. ASSUME NEW b \in Asks \ raced
        PROVE  used'[b] <= 1 /\ OneRedeemer(b)' /\ (Redeemed(b)' => used'[b] = 0)
    <3>1. used[b] <= 1 /\ OneRedeemer(b) /\ (Redeemed(b) => used[b] = 0)
      BY ResetNumbers DEF LinkInv
    <3>2. OneRedeemer(b)'
      BY <1>3, <3>1 DEF OneRedeemer
    <3>3. CASE b = a
      <4>1. used'[b] = 1
        BY <1>4, <1>5, <3>1, <3>3
      <4>2. ~Redeemed(b)'
        BY <1>3, <1>4, <3>1, <3>3 DEF Redeemed
      <4> QED
        BY <3>2, <4>1, <4>2
    <3>4. CASE b # a
      <4>1. used'[b] = used[b]
        BY <1>5, <3>4
      <4>2. Redeemed(b)' => Redeemed(b)
        BY <1>3 DEF Redeemed
      <4> QED
        BY <3>1, <3>2, <4>1, <4>2
    <3> QED
      BY <3>3, <3>4
  <2>2. \A b \in Asks : issued'[b] <= 1 /\ (used'[b] # 0 => issued'[b] = 1)
    BY <1>1, <1>2, <1>5, ResetNumbers DEF LinkInv
  <2>3. \A p \in Reqs : Op(p)' = "redeem" => issued'[req'[p].ask] = 1
    BY <1>1, <1>3, ResetNumbers DEF LinkInv
  <2> QED
    BY <1>1, <2>1, <2>2, <2>3 DEF LinkInv
<1>8. WaitInv'
  BY <1>1, <1>3, <1>6, SameWaiting
<1> QED
  BY <1>1, <1>3, <1>5, <1>6, <1>7, <1>8, ResetNumbers, ResetOthers DEF ResetOps

----------------------------------------------------------------------------
(* All steps, and what follows                                              *)

LEMMA NextInv == IInv /\ [Next]_vars => IInv'
<1> SUFFICES ASSUME IInv, [Next]_vars PROVE IInv'
  OBVIOUS
<1>1. ASSUME NEW q \in Reqs, LoginStep(q) PROVE IInv'
  BY <1>1, LoginReadKeeps, WrongKeeps, ReloadKeeps, LockKeeps, HalfWayKeeps, RightKeeps,
     SignInFaultKeeps, CountFaultKeeps DEF LoginStep
<1>2. ASSUME NEW q \in Reqs, FactorStep(q) PROVE IInv'
  BY <1>2, FactorReadKeeps, GenerateKeeps, EnableKeeps, DisableKeeps DEF FactorStep, FactorOps
<1>3. ASSUME NEW q \in Reqs, ResetStep(q) PROVE IInv'
  BY <1>3, AskReadKeeps, AskCreateKeeps, ApproveReadKeeps, ApproveCommitKeeps,
     RejectReadKeeps, RejectSaveKeeps, RedeemReadKeeps, RedeemSaveKeeps DEF ResetStep
<1>4. CASE LockEnds
  BY <1>4, LockEndsKeeps
<1>5. CASE UNCHANGED vars
  BY <1>5
  DEF vars, login, factor, resets, answers, races, IInv, TypeOK, LoginInv, FactorInv, AskInv, Numbered,
      OneHolder, Answered, Held, LinkInv, OneRedeemer, Redeemed, WaitInv, OneAsker, Guessing,
      Counting, Pending, Created, Op
<1> QED
  BY <1>1, <1>2, <1>3, <1>4, <1>5 DEF Next

\* The inductive invariant.
THEOREM Invariance == Spec => []IInv
BY InitInv, NextInv, PTL DEF Spec

\* The row, the requests and the handlers stay what they are declared to be.
THEOREM TypesHold == Spec => []TypeOK
<1>1. IInv => TypeOK
  BY DEF IInv
<1> QED
  BY <1>1, Invariance, PTL

\* Whatever handlers overlap, the wrong guesses between two good sign-ins or two
\* ends of a lock are at most maxLoginAttempts, one more per other handler in
\* flight, and those whose statement failed.
THEOREM GuessesStayBounded == Spec => []GuessesAreBounded
<1>1. IInv => GuessesAreBounded
  <2> SUFFICES ASSUME IInv PROVE guesses <= Most + faults
    BY DEF GuessesAreBounded
  <2>1. CASE lock = "on"
    BY <2>1, GuessOrCount, LoginNumbers DEF LoginInv
  <2>2. CASE lock # "on"
    <3>1. guesses <= MaxAttempts - 1 + faults + Cardinality(Counting)
      BY <2>2, LoginNumbers DEF LoginInv
    <3>2. Cardinality(Counting) <= Cardinality(Reqs)
      BY GuessOrCount, Constants
    <3> QED
      BY <3>1, <3>2, GuessOrCount, LoginNumbers, Constants DEF Most
  <2> QED
    BY <2>1, <2>2
<1> QED
  BY <1>1, Invariance, PTL

\* A second factor that is on has a secret for which a code was given, unless a
\* handler saved over what it had not read.
THEOREM TheFactorWorks == Spec => []FactorWorks
<1>1. IInv => FactorWorks
  BY DEF IInv, FactorInv, FactorWorks
<1> QED
  BY <1>1, Invariance, PTL

\* One link answers a request; it sets the password once, and one request waits,
\* but for two handlers that were at it at once.
THEOREM LinksStayApproved == Spec => []LinksAreApproved
<1>1. IInv => LinksAreApproved
  BY ResetNumbers DEF LinksAreApproved, LinkInv, AskInv, Answered, WaitInv
<1> QED
  BY <1>1, Invariance, PTL
=============================================================================
