------------------------- MODULE UserSessionsProofs -------------------------
(***************************************************************************)
(* Proofs about UserSessions, for any number of devices, refreshes and     *)
(* logins and any limit.  The session limit holds even when two tokens are *)
(* signed in one second; the rest assumes that none are.                   *)
(***************************************************************************)
EXTENDS UserSessions, FiniteSetTheorems, TLAPS

----------------------------------------------------------------------------
(* The inductive invariant                                                  *)

Pending == {n \in Logins : job[n] # None /\ job[n].step = "upsert"}
Begun   == {n \in Logins : job[n] # None \/ row[n] # Absent}
Excess  == UNION {job[n].excess : n \in {m \in Logins : job[m] # None /\ job[m].step = "evict"}}

\* Logins are numbered as they come, and a row is there once createSession has
\* upserted it or given up.
Numbered ==
    /\ \E k \in 0 .. MaxLogins : Begun = 1 .. k
    /\ \A n \in Logins : job[n] # None => (row[n] = Absent <=> n \in Pending)

\* Whoever upserted last has not looked yet, or what it found to be too many is
\* about to go.
Limited ==
    (\A n \in Logins : job[n] # Failed) =>
        \/ \E n \in Logins : job[n] # None /\ job[n].step = "limit"
        \/ Cardinality(Active \ Excess) <= MaxSessions

\* Tokens are signed in the past: the next one is new.
Past ==
    /\ \A t \in spent : t.sec < sec
    /\ \A n \in Rows : row[n].token.sec < sec
    /\ \A n \in Pending : job[n].token.sec < sec
    /\ \A d \in Devices : jar[d] # None => jar[d].sec < sec
    /\ \A q \in Refreshes : refresh[q] # None => refresh[q].old.sec < sec /\ refresh[q].new.sec < sec

\* A token that a rotation or an upsert has yet to write is nobody else's.
Unwritten(q) == refresh[q] # None /\ refresh[q].step # "reply"
NewInv ==
    \A q \in Refreshes : Unwritten(q) =>
        /\ refresh[q].new \notin spent /\ Holding(refresh[q].new) = {}
        /\ \A d \in Devices : jar[d] # refresh[q].new
        /\ \A p \in Refreshes : refresh[p] # None => /\ refresh[p].old # refresh[q].new
                                                     /\ p # q => refresh[p].new # refresh[q].new
JobInv ==
    \A n \in Pending :
        /\ job[n].token \notin spent /\ Holding(job[n].token) = {}
        /\ \A m \in Pending : job[m].token = job[n].token => m = n
        /\ \A q \in Refreshes : refresh[q] # None => refresh[q].new # job[n].token

\* A token leads to the login it descends from, and a login to its device.
BelongsTo(t, n) ==
    /\ n \in Begun /\ Holding(t) \subseteq {n}
    /\ \A m \in Pending : job[m].token = t => m = n
Belongs ==
    /\ \A d \in Devices : jar[d] # None => BelongsTo(jar[d], home[d])
    /\ \A q \in Refreshes : refresh[q] # None => /\ BelongsTo(refresh[q].old, refresh[q].home)
                                                 /\ BelongsTo(refresh[q].new, refresh[q].home)
                                                 /\ refresh[q].step # "validate" =>
                                                      row[refresh[q].home] # Absent
Owned ==
    /\ \A d \in Devices : home[d] \in Begun \cup {0}
    /\ \A d, e \in Devices : home[d] = home[e] /\ home[d] # 0 => d = e
    /\ \A q \in Refreshes, d \in Devices : refresh[q] # None /\ refresh[q].home = home[d] => refresh[q].dev = d
    /\ \A p, q \in Refreshes : refresh[p] # None /\ refresh[q] # None /\ refresh[p].home = refresh[q].home
                            => refresh[p].dev = refresh[q].dev

\* What a device that behaves is about to hold is what its row holds, or will.
Keeps(n, t) == /\ n \in Active => row[n].token = t
               /\ n \in Pending => job[n].token = t
Steady ==
    \A d \in Devices : single[d] =>
        /\ \A p, q \in RefreshesOf(d) : p = q
        /\ \A q \in RefreshesOf(d) :
             /\ refresh[q].home = home[d]
             /\ Unwritten(q) => Keeps(home[d], refresh[q].old)
                                /\ jar[d] \in {None, refresh[q].old}
             /\ ~Unwritten(q) => Keeps(home[d], refresh[q].new)
        /\ RefreshesOf(d) = {} /\ jar[d] # None => Keeps(home[d], jar[d])

Base == SessionsTypeOK /\ Numbered /\ Limited
Rest == Past /\ NewInv /\ JobInv /\ ExchangedTokensAreDead /\ Belongs /\ Owned /\ Steady
IInv == Base /\ Rest

----------------------------------------------------------------------------
(* Types                                                                    *)

LEMMA Constants ==
    /\ MaxSessions \in Nat /\ MaxSessions >= 1 /\ MaxLogins \in Nat
    /\ MaxSec \in Nat /\ MaxTv \in Nat /\ MaxFaults \in Nat
BY SessionsAssumption, SessionBounds

LEMMA LoginSets ==
    ASSUME NEW S \in SUBSET Logins
    PROVE  IsFiniteSet(S) /\ Cardinality(S) \in Nat
<1>1. IsFiniteSet(Logins)
  BY Constants, FS_Interval DEF Logins
<1> QED
  BY <1>1, FS_Subset, FS_CardinalityType

LEMMA RowTypes ==
    /\ Absent \notin Row /\ Gone \notin Row /\ Absent # Gone
    /\ Absent.state = "absent" /\ Gone.state = "gone"
    /\ \A x \in Row : /\ x.state \in {"active", "ended"} /\ x.token \in RefreshToken
                      /\ x.last \in 0 .. MaxSec /\ x # Absent /\ x # Gone
    /\ \A s \in {"active", "ended"}, t \in RefreshToken, l \in 0 .. MaxSec :
         [state |-> s, token |-> t, last |-> l] \in Row
BY DEF Absent, Gone, Row

LEMMA RowStates ==
    ASSUME SessionsTypeOK
    PROVE  /\ \A n \in Logins : n \in Rows <=> row[n] \in Row
           /\ \A n \in Logins : n \in Rows <=> row[n] # Absent /\ row[n] # Gone
           /\ Active \subseteq Rows /\ Rows \subseteq Logins
           /\ \A n \in Rows : row[n].token \in RefreshToken
BY RowTypes DEF SessionsTypeOK, Rows, Active

LEMMA JobTypes ==
    /\ None \notin Job /\ Failed \notin Job /\ None # Failed
    /\ Failed.step = "failed"
    /\ \A x \in Job : /\ x.step \in {"upsert", "limit", "evict"} /\ x.token \in RefreshToken
                      /\ x.excess \in SUBSET Logins /\ x # None /\ x # Failed
                      /\ x = [step |-> x.step, token |-> x.token, excess |-> x.excess]
    /\ \A s \in {"upsert", "limit", "evict"}, t \in RefreshToken, S \in SUBSET Logins :
         [step |-> s, token |-> t, excess |-> S] \in Job
BY DEF None, Failed, Job

LEMMA JobStates ==
    ASSUME SessionsTypeOK, NEW n \in Logins, job[n] # None,
           job[n].step \in {"upsert", "limit", "evict"}
    PROVE  job[n] \in Job /\ job[n] # Failed
BY JobTypes DEF SessionsTypeOK

LEMMA TokenTypes == \A t \in RefreshToken : t # None /\ t.sec \in 0 .. MaxSec
BY DEF RefreshToken, None

LEMMA FlightTypes ==
    /\ None \notin Exchange
    /\ \A x \in Exchange : /\ x.step \in {"validate", "rotate", "reply"} /\ x.dev \in Devices
                           /\ x.home \in 0 .. MaxLogins /\ x.old \in RefreshToken /\ x.new \in RefreshToken
                           /\ x # None
                           /\ x = [step |-> x.step, dev |-> x.dev, home |-> x.home,
                                   old |-> x.old, new |-> x.new]
    /\ \A s \in {"validate", "rotate", "reply"}, d \in Devices, h \in 0 .. MaxLogins,
          o, n \in RefreshToken :
         [step |-> s, dev |-> d, home |-> h, old |-> o, new |-> n] \in Exchange
BY DEF None, Exchange

LEMMA FlightStates ==
    ASSUME SessionsTypeOK, NEW q \in Refreshes, refresh[q] # None
    PROVE  refresh[q] \in Exchange
BY DEF SessionsTypeOK

\* jwt.sign: a second in the range of the clock, which goes on.
LEMMA SignTypes ==
    ASSUME SessionsTypeOK, Sign
    PROVE  /\ sec \in Nat /\ Signed \in RefreshToken /\ sec' \in 0 .. MaxSec /\ sec <= sec'
           /\ Signed.sec = sec
           /\ SameSecond = FALSE => sec' = sec + 1
BY Constants DEF SessionsTypeOK, Sign, Signed, RefreshToken

\* A refresh that moves on.
LEMMA StepTypes ==
    ASSUME SessionsTypeOK, NEW q \in Refreshes, refresh[q] # None, NEW s \in {"validate", "rotate", "reply"},
           refresh' = [refresh EXCEPT ![q].step = s]
    PROVE  /\ refresh' \in [Refreshes -> Exchange \cup {None}] /\ refresh'[q] # None
           /\ refresh'[q].step = s /\ refresh'[q].dev = refresh[q].dev /\ refresh'[q].home = refresh[q].home
           /\ refresh'[q].old = refresh[q].old /\ refresh'[q].new = refresh[q].new
           /\ \A p \in Refreshes \ {q} : refresh'[p] = refresh[p]
<1>1. refresh[q] \in Exchange
  BY FlightStates
<1>2. /\ refresh'[q] = [refresh[q] EXCEPT !.step = s]
      /\ \A p \in Refreshes \ {q} : refresh'[p] = refresh[p]
  BY DEF SessionsTypeOK
<1>3. refresh'[q] = [step |-> s, dev |-> refresh[q].dev, home |-> refresh[q].home,
                     old |-> refresh[q].old, new |-> refresh[q].new]
  BY <1>1, <1>2, FlightTypes
<1>4. refresh'[q] \in Exchange
  BY <1>1, <1>3, FlightTypes
<1>5. refresh' \in [Refreshes -> Exchange \cup {None}]
  BY <1>2, <1>4 DEF SessionsTypeOK
<1> QED
  BY <1>2, <1>3, <1>4, <1>5, FlightTypes

\* The rows after some have been ended.
LEMMA EndTypes ==
    ASSUME SessionsTypeOK, NEW S, End(S)
    PROVE  /\ row' \in [Logins -> Row \cup {Absent, Gone}]
           /\ \A n \in Rows \cap S : /\ row'[n] \in Row /\ row'[n].state = "ended"
                                     /\ row'[n].token = row[n].token
           /\ \A n \in Logins \ (Rows \cap S) : row'[n] = row[n]
           /\ Rows' = Rows /\ Active' = Active \ S
<1>1. \A n \in Rows \cap S : row[n] \in Row /\ row'[n] = [row[n] EXCEPT !.state = "ended"]
  BY RowStates DEF End
<1>2. \A n \in Rows \cap S : /\ row'[n] \in Row /\ row'[n].state = "ended"
                             /\ row'[n].token = row[n].token
  BY <1>1 DEF Row
<1>3. \A n \in Logins \ (Rows \cap S) : row'[n] = row[n]
  BY DEF End
<1>4. row' \in [Logins -> Row \cup {Absent, Gone}]
  <2>1. \A n \in Logins : row'[n] \in Row \cup {Absent, Gone}
    BY <1>2, <1>3 DEF SessionsTypeOK
  <2>2. row' = [n \in Logins |-> row'[n]]
    BY DEF End
  <2> QED
    BY <2>1, <2>2
<1>5. Rows' = Rows /\ Active' = Active \ S
  BY <1>2, <1>3, RowStates, RowTypes DEF Rows, Active
<1> QED
  BY <1>2, <1>3, <1>4, <1>5

----------------------------------------------------------------------------
(* Types, numbers and the limit, action by action                           *)

\* The limit is a matter of the active rows and of the jobs.
LEMMA LimitedKept ==
    ASSUME Base, Active' \subseteq Active,
           \A n \in Logins : job[n] # None => job'[n] = job[n],
           \A n \in Logins : job'[n] # job[n] => job'[n].step = "upsert"
    PROVE  Limited'
<1> SUFFICES ASSUME \A n \in Logins : job'[n] # Failed
             PROVE  \/ \E n \in Logins : job'[n] # None /\ job'[n].step = "limit"
                    \/ Cardinality((Active \ Excess)') <= MaxSessions
  BY DEF Limited
<1>1. \A n \in Logins : job[n] # Failed
  BY JobTypes
<1>2. CASE \E n \in Logins : job[n] # None /\ job[n].step = "limit"
  BY <1>2
<1>3. CASE Cardinality(Active \ Excess) <= MaxSessions
  <2>1. (Active \ Excess)' \subseteq Active \ Excess
    BY DEF Excess
  <2>2. Active \ Excess \subseteq Logins
    BY DEF Active
  <2>3. Cardinality((Active \ Excess)') <= Cardinality(Active \ Excess)
        /\ Cardinality((Active \ Excess)') \in Nat /\ Cardinality(Active \ Excess) \in Nat
    BY <2>1, <2>2, LoginSets, FS_Subset
  <2> QED
    BY <1>3, <2>3, Constants
<1> QED
  BY <1>1, <1>2, <1>3 DEF Base, Limited

\* Actions that leave the rows and the jobs alone.
LEMMA BaseKept ==
    ASSUME Base, SessionsTypeOK', UNCHANGED <<row, job>>
    PROVE  Base'
<1>1. Numbered'
  BY DEF Base, Numbered, Begun, Pending
<1>2. Limited'
  BY LimitedKept DEF Active
<1> QED
  BY <1>1, <1>2 DEF Base

\* Actions that only end rows or delete ended ones.
LEMMA BaseEnding ==
    ASSUME Base, SessionsTypeOK', UNCHANGED job, Active' \subseteq Active,
           \A n \in Logins : row'[n] = Absent <=> row[n] = Absent
    PROVE  Base'
<1>1. Numbered'
  BY DEF Base, Numbered, Begun, Pending
<1>2. Limited'
  BY LimitedKept
<1> QED
  BY <1>1, <1>2 DEF Base

LEMMA LoginNumber ==
    ASSUME Base, NEW d \in Devices, NEW n \in Logins, Login(d, n)
    PROVE  /\ n \notin Begun /\ job[n] = None /\ row[n] = Absent
           /\ \E k \in 0 .. MaxLogins : Begun = 1 .. k /\ n = k + 1
<1>1. PICK k \in 0 .. MaxLogins : Begun = 1 .. k
  BY DEF Base, Numbered
<1>2. k \in Nat
  BY Constants
<1>3. Cardinality(1 .. k) = k
  BY <1>2, FS_Interval
<1>4. Cardinality(Begun) = k
  BY <1>1, <1>3, Zenon
<1>5. n = 1 + Cardinality(Begun)
  BY DEF Login, Begun
<1>6. n = k + 1
  BY <1>2, <1>4, <1>5
<1>7. n \notin Begun
  BY <1>1, <1>2, <1>6
<1> QED
  BY <1>1, <1>6, <1>7 DEF Begun

LEMMA LoginBase ==
    ASSUME Base, NEW d \in Devices, NEW n \in Logins, Login(d, n)
    PROVE  Base'
<1> DEFINE j == [step |-> "upsert", token |-> Signed, excess |-> {}]
<1>1. Signed \in RefreshToken /\ sec' \in 0 .. MaxSec
  BY SignTypes DEF Login, Base
<1>2. j \in Job
  BY <1>1 DEF Job
<1>3. /\ job' = [job EXCEPT ![n] = j] /\ job'[n] = j
      /\ \A m \in Logins \ {n} : job'[m] = job[m]
  BY DEF Login, Base, SessionsTypeOK
<1>4. SessionsTypeOK'
  <2>1. job' \in [Logins -> Job \cup {None, Failed}]
    BY <1>2, <1>3 DEF Base, SessionsTypeOK
  <2>2. jar' \in [Devices -> RefreshToken \cup {None}] /\ home' \in [Devices -> 0 .. MaxLogins]
        /\ single' \in [Devices -> BOOLEAN]
    BY <1>1, Constants DEF Login, Base, SessionsTypeOK, Logins
  <2> QED
    BY <1>1, <2>1, <2>2 DEF Login, Base, SessionsTypeOK
<1>5. Numbered'
  <2>1. PICK k \in 0 .. MaxLogins : Begun = 1 .. k /\ n = k + 1
    BY LoginNumber
  <2>2. Begun' = Begun \cup {n}
    <3>1. job'[n] # None /\ row' = row
      BY <1>2, <1>3, JobTypes DEF Login
    <3> QED
      BY <1>3, <3>1 DEF Begun
  <2>3. k \in Nat /\ k + 1 \in 0 .. MaxLogins
    BY <2>1, Constants DEF Logins
  <2>4. Begun' = 1 .. (k + 1)
    <3>1. (1 .. k) \cup {k + 1} = 1 .. (k + 1)
      BY <2>3
    <3> QED
      BY <2>1, <2>2, <3>1
  <2>5. \A m \in Logins : job'[m] # None => (row'[m] = Absent <=> m \in Pending')
    <3>1. job'[n] # None /\ job'[n].step = "upsert" /\ row' = row /\ row[n] = Absent
      BY <1>2, <1>3, LoginNumber, JobTypes DEF Login
    <3> HIDE DEF j
    <3> QED
      BY <1>3, <3>1 DEF Base, Numbered, Pending
  <2> QED
    BY <2>3, <2>4, <2>5 DEF Numbered
<1>6. Limited'
  <2>1. Active' = Active
    BY DEF Login, Active
  <2>2. job[n] = None
    BY LoginNumber
  <2> QED
    BY <1>3, <2>1, <2>2, LimitedKept
<1> QED
  BY <1>4, <1>5, <1>6 DEF Base

LEMMA UpsertBase ==
    ASSUME Base, NEW n \in Logins, Upsert(n)
    PROVE  Base'
<1> DEFINE t == job[n].token
           r == [state |-> "active", token |-> t, last |-> sec]
<1>1. /\ job[n] # None /\ job[n].step = "upsert" /\ job' = [job EXCEPT ![n].step = "limit"]
      /\ row' = IF Holding(t) = {} THEN [row EXCEPT ![n] = r]
                ELSE [m \in Logins |-> IF m \in Holding(t) THEN r
                                       ELSE IF m = n THEN Gone ELSE row[m]]
      /\ UNCHANGED <<sec, version, expiring, jar, refresh, home, single, spent, faults>>
  BY DEF Upsert
<1>2. job[n] \in Job
  BY <1>1, JobStates DEF Base
<1>3. r \in Row
  BY <1>2, JobTypes, RowTypes DEF Base, SessionsTypeOK
<1>4. /\ job'[n] \in Job /\ job'[n].step = "limit"
      /\ \A m \in Logins \ {n} : job'[m] = job[m]
  BY <1>1, <1>2 DEF Base, SessionsTypeOK, Job
<1>5. /\ \A m \in Logins : row'[m] \in {r, Gone, row[m]}
      /\ row'[n] \in {r, Gone} /\ row' = [m \in Logins |-> row'[m]]
      /\ \A m \in Logins : row'[m] # row[m] => m = n \/ row[m] # Absent
  BY <1>1, RowStates, RowTypes DEF Base, SessionsTypeOK, Holding
<1>6. SessionsTypeOK'
  <2>1. row' \in [Logins -> Row \cup {Absent, Gone}]
    BY <1>3, <1>5 DEF Base, SessionsTypeOK
  <2>2. job' \in [Logins -> Job \cup {None, Failed}]
    BY <1>1, <1>4 DEF Base, SessionsTypeOK
  <2> QED
    BY <1>1, <2>1, <2>2 DEF Base, SessionsTypeOK
<1>7. row[n] = Absent /\ n \in Pending
  BY <1>1 DEF Base, Numbered, Pending
<1>8. \A m \in Logins \ {n} : row'[m] = Absent <=> row[m] = Absent
  BY <1>3, <1>5, RowTypes
<1>9. Numbered'
  <2>1. Begun' = Begun
    BY <1>1, <1>3, <1>4, <1>5, <1>8, RowTypes, JobTypes DEF Begun
  <2>2. \A m \in Logins : job'[m] # None => (row'[m] = Absent <=> m \in Pending')
    BY <1>3, <1>4, <1>5, <1>8, RowTypes DEF Base, Numbered, Pending
  <2> QED
    BY <2>1, <2>2 DEF Base, Numbered
<1>10. Limited'
  BY <1>4, JobTypes DEF Limited
<1> QED
  BY <1>6, <1>9, <1>10 DEF Base

LEMMA ReadLimitBase ==
    ASSUME Base, NEW n \in Logins, ReadLimit(n)
    PROVE  Base'
<1>1. /\ job[n] # None /\ job[n].step = "limit"
      /\ UNCHANGED <<sec, version, row, expiring, jar, refresh, home, single, spent, faults>>
  BY DEF ReadLimit
<1>2. job[n] \in Job /\ row[n] # Absent /\ n \notin Pending
  BY <1>1, JobStates DEF Base, Numbered, Pending
<1>3. PICK E \in SUBSET Logins :
        /\ Cardinality(Active \ E) <= MaxSessions
        /\ \/ E = {} /\ job' = [job EXCEPT ![n] = None]
           \/ job' = [job EXCEPT ![n].step = "evict", ![n].excess = E]
  <2>1. IsFiniteSet(Active) /\ Cardinality(Active) \in Nat /\ Active \subseteq Logins
    BY LoginSets DEF Active
  <2>2. CASE Cardinality(Active) > MaxSessions
    <3>1. PICK S \in SUBSET Active :
            /\ Oldest(S, Cardinality(Active) - MaxSessions)
            /\ job' = [job EXCEPT ![n].step = "evict", ![n].excess = S]
      BY <2>2 DEF ReadLimit
    <3>2. Cardinality(S) = Cardinality(Active) - MaxSessions
      BY <3>1 DEF Oldest
    <3>3. Active \cap S = S
      OBVIOUS
    <3>4. Cardinality(Active \ S) = Cardinality(Active) - Cardinality(Active \cap S)
      BY <2>1, FS_Difference
    <3>5. Cardinality(Active \ S) = Cardinality(Active) - Cardinality(S)
      BY <3>3, <3>4
    <3>6. Cardinality(Active \ S) <= MaxSessions
      BY <2>1, <3>2, <3>5, Constants
    <3> QED
      BY <2>1, <3>1, <3>6
  <2>3. CASE ~(Cardinality(Active) > MaxSessions)
    <3>1. job' = [job EXCEPT ![n] = None]
      BY <2>3 DEF ReadLimit
    <3>2. Active \ {} = Active
      OBVIOUS
    <3>3. Cardinality(Active \ {}) <= MaxSessions
      BY <2>1, <2>3, <3>2, Constants
    <3> QED
      BY <3>1, <3>3
  <2> QED
    BY <2>2, <2>3
<1>4. /\ \/ E = {} /\ job'[n] = None
         \/ job'[n] \in Job /\ job'[n].step = "evict" /\ job'[n].excess = E
      /\ \A m \in Logins \ {n} : job'[m] = job[m]
      /\ job' \in [Logins -> Job \cup {None, Failed}]
  <2>1. CASE E = {} /\ job' = [job EXCEPT ![n] = None]
    BY <2>1 DEF Base, SessionsTypeOK
  <2>2. CASE job' = [job EXCEPT ![n].step = "evict", ![n].excess = E]
    <3>1. /\ job'[n] = [job[n] EXCEPT !.step = "evict", !.excess = E]
          /\ \A m \in Logins \ {n} : job'[m] = job[m]
          /\ job' = [m \in Logins |-> job'[m]]
      BY <2>2 DEF Base, SessionsTypeOK
    <3>2. job'[n] \in Job /\ job'[n].step = "evict" /\ job'[n].excess = E
      BY <1>2, <3>1 DEF Job
    <3> QED
      BY <3>1, <3>2 DEF Base, SessionsTypeOK
  <2> QED
    BY <1>3, <2>1, <2>2
<1>5. SessionsTypeOK'
  BY <1>1, <1>4 DEF Base, SessionsTypeOK
<1>6. Numbered'
  <2>1. n \notin Pending' /\ Pending' = Pending
    BY <1>2, <1>4 DEF Pending
  <2>2. Begun' = Begun
    BY <1>1, <1>2, <1>4 DEF Begun
  <2> QED
    BY <1>1, <1>2, <1>4, <2>1, <2>2 DEF Base, Numbered
<1>7. Limited'
  <2>1. (Active \ Excess)' \subseteq Active \ E
    <3>1. ASSUME NEW m \in E PROVE m \in Excess'
      <4>1. job'[n] # None /\ job'[n].step = "evict" /\ job'[n].excess = E
        BY <1>4, <3>1, JobTypes
      <4> QED
        BY <3>1, <4>1 DEF Excess
    <3>2. Active' = Active
      BY <1>1 DEF Active
    <3> QED
      BY <3>1, <3>2
  <2>2. Active \ E \subseteq Logins
    BY DEF Active
  <2>3. Cardinality((Active \ Excess)') <= Cardinality(Active \ E)
        /\ Cardinality((Active \ Excess)') \in Nat
        /\ Cardinality(Active \ E) \in Nat
    BY <2>1, <2>2, LoginSets, FS_Subset
  <2> QED
    BY <1>3, <2>3, Constants DEF Limited
<1> QED
  BY <1>5, <1>6, <1>7 DEF Base

LEMMA EvictBase ==
    ASSUME Base, NEW n \in Logins, Evict(n)
    PROVE  Base'
<1> DEFINE S == job[n].excess
<1>1. /\ job[n] # None /\ job[n].step = "evict" /\ End(S)
      /\ job' = [job EXCEPT ![n] = None]
      /\ UNCHANGED <<sec, version, expiring, jar, refresh, home, single, spent, faults>>
  BY DEF Evict
<1>2. row[n] # Absent /\ n \notin Pending
  BY <1>1 DEF Base, Numbered, Pending
<1>3. job'[n] = None /\ \A m \in Logins \ {n} : job'[m] = job[m]
  BY <1>1 DEF Base, SessionsTypeOK
<1>4. /\ row' \in [Logins -> Row \cup {Absent, Gone}]
      /\ \A m \in Rows \cap S : row'[m] \in Row
      /\ \A m \in Logins \ (Rows \cap S) : row'[m] = row[m]
      /\ Active' = Active \ S
  BY <1>1, EndTypes DEF Base
<1>5. SessionsTypeOK'
  BY <1>1, <1>4 DEF Base, SessionsTypeOK
<1>6. \A m \in Logins : row'[m] = Absent <=> row[m] = Absent
  BY <1>4, RowStates, RowTypes DEF Base
<1>7. Numbered'
  <2>1. Pending' = Pending
    BY <1>2, <1>3 DEF Pending
  <2>2. Begun' = Begun
    BY <1>2, <1>3, <1>6 DEF Begun
  <2> QED
    BY <1>3, <1>6, <2>1, <2>2 DEF Base, Numbered
<1>8. Limited'
  <2> SUFFICES ASSUME \A m \in Logins : job'[m] # Failed
               PROVE  \/ \E m \in Logins : job'[m] # None /\ job'[m].step = "limit"
                      \/ Cardinality((Active \ Excess)') <= MaxSessions
    BY DEF Limited
  <2>1. \A m \in Logins : job[m] # Failed
    BY <1>1, <1>3, JobTypes
  <2>2. CASE \E m \in Logins : job[m] # None /\ job[m].step = "limit"
    BY <1>1, <1>3, <2>2
  <2>3. CASE Cardinality(Active \ Excess) <= MaxSessions
    <3>1. (Active \ Excess)' \subseteq Active \ Excess
      BY <1>1, <1>3, <1>4 DEF Excess
    <3>2. Active \ Excess \subseteq Logins
      BY DEF Active
    <3>3. Cardinality((Active \ Excess)') <= Cardinality(Active \ Excess)
          /\ Cardinality((Active \ Excess)') \in Nat /\ Cardinality(Active \ Excess) \in Nat
      BY <3>1, <3>2, LoginSets, FS_Subset
    <3> QED
      BY <2>3, <3>3, Constants
  <2> QED
    BY <2>1, <2>2, <2>3 DEF Base, Limited
<1> QED
  BY <1>5, <1>7, <1>8 DEF Base

LEMMA SessionFailsBase ==
    ASSUME Base, NEW n \in Logins, SessionFails(n)
    PROVE  Base'
<1>1. /\ job[n] \notin {None, Failed} /\ job' = [job EXCEPT ![n] = Failed]
      /\ row' = [row EXCEPT ![n] = IF job[n].step = "upsert" THEN Gone ELSE @]
      /\ faults' = faults + 1 /\ faults < MaxFaults
      /\ UNCHANGED <<sec, version, expiring, jar, refresh, home, single, spent>>
  BY DEF SessionFails, Fault
<1>2. job'[n] = Failed /\ \A m \in Logins \ {n} : job'[m] = job[m]
  BY <1>1 DEF Base, SessionsTypeOK
<1>3. /\ row'[n] \in {Gone, row[n]} /\ row'[n] # Absent
      /\ \A m \in Logins \ {n} : row'[m] = row[m]
  BY <1>1, RowTypes DEF Base, SessionsTypeOK, Numbered, Pending
<1>4. SessionsTypeOK'
  <2>1. row' \in [Logins -> Row \cup {Absent, Gone}]
    BY <1>1 DEF Base, SessionsTypeOK
  <2>2. job' \in [Logins -> Job \cup {None, Failed}]
    BY <1>1 DEF Base, SessionsTypeOK
  <2>3. faults' \in 0 .. MaxFaults
    BY <1>1, Constants DEF Base, SessionsTypeOK
  <2> QED
    BY <1>1, <2>1, <2>2, <2>3 DEF Base, SessionsTypeOK
<1>5. Numbered'
  <2>1. Begun' = Begun
    BY <1>1, <1>2, <1>3, JobTypes DEF Begun
  <2>2. \A m \in Logins : job'[m] # None => (row'[m] = Absent <=> m \in Pending')
    BY <1>2, <1>3, JobTypes DEF Base, Numbered, Pending
  <2> QED
    BY <2>1, <2>2 DEF Base, Numbered
<1>6. Limited'
  BY <1>2 DEF Limited
<1> QED
  BY <1>4, <1>5, <1>6 DEF Base

\* A refresh begins, ends, or moves on.
LEMMA RefreshBase ==
    ASSUME Base, NEW q \in Refreshes,
           \/ \E d \in Devices : RefreshBegin(q, d)
           \/ Validate(q) \/ Rotate(q) \/ RotateFails(q) \/ Reply(q) \/ ReplyLost(q)
    PROVE  Base'
<1>1. ASSUME NEW d \in Devices, RefreshBegin(q, d) PROVE Base'
  <2> DEFINE f == [step |-> "validate", dev |-> d, home |-> home[d],
                   old |-> jar[d], new |-> Signed]
  <2>1. /\ refresh' = [refresh EXCEPT ![q] = f] /\ jar[d] # None
        /\ single' = [single EXCEPT ![d] = @ /\ ~Overlap(d)]
        /\ UNCHANGED <<version, row, job, expiring, jar, home, spent, faults>>
    BY <1>1 DEF RefreshBegin
  <2>2. Signed \in RefreshToken /\ sec' \in 0 .. MaxSec
    BY <1>1, SignTypes DEF RefreshBegin, Base
  <2>3. f \in Exchange
    BY <2>1, <2>2, FlightTypes DEF Base, SessionsTypeOK
  <2>4. refresh' \in [Refreshes -> Exchange \cup {None}]
    BY <2>1, <2>3 DEF Base, SessionsTypeOK
  <2>5. single' \in [Devices -> BOOLEAN]
    BY <2>1 DEF Base, SessionsTypeOK
  <2>6. SessionsTypeOK'
    BY <2>1, <2>2, <2>4, <2>5 DEF Base, SessionsTypeOK
  <2> QED
    BY <2>1, <2>6, BaseKept
<1>2. CASE Validate(q)
  <2>1. /\ refresh[q] # None
        /\ UNCHANGED <<sec, version, row, job, expiring, jar, home, single, spent>>
    BY <1>2 DEF Validate, At
  <2>2. /\ \/ refresh' = [refresh EXCEPT ![q].step = "rotate"]
           \/ refresh' = [refresh EXCEPT ![q] = None]
        /\ \/ UNCHANGED faults
           \/ faults < MaxFaults /\ faults' = faults + 1
    BY <1>2 DEF Validate, Fault, NoFault
  <2>3. refresh' \in [Refreshes -> Exchange \cup {None}]
    BY <2>1, <2>2, StepTypes DEF Base, SessionsTypeOK
  <2>4. faults' \in 0 .. MaxFaults
    BY <2>2, Constants DEF Base, SessionsTypeOK
  <2> QED
    BY <2>1, <2>3, <2>4, BaseKept DEF Base, SessionsTypeOK
<1>3. CASE Rotate(q)
  <2> DEFINE new == refresh[q].new
             hit == Holding(refresh[q].old) \cap Active
  <2>1. /\ refresh[q] # None /\ refresh' = [refresh EXCEPT ![q].step = "reply"]
        /\ spent' \in {spent, spent \cup {refresh[q].old}}
        /\ \/ row' = [n \in Logins |->
                IF n \in hit THEN [row[n] EXCEPT !.token = new, !.last = sec] ELSE row[n]]
           \/ UNCHANGED row
        /\ UNCHANGED <<sec, version, job, expiring, jar, home, single, faults>>
    BY <1>3 DEF Rotate, At
  <2>2. refresh[q].old \in RefreshToken /\ new \in RefreshToken
    BY <2>1, FlightStates, FlightTypes DEF Base
  <2>3. \A n \in Logins :
          \/ row'[n] = row[n]
          \/ n \in hit /\ row'[n] = [row[n] EXCEPT !.token = new, !.last = sec]
    BY <2>1
  <2>4. \A n \in hit : row[n] \in Row /\ row[n].state = "active"
    BY RowStates DEF Base, Active
  <2>5. \A n \in hit : [row[n] EXCEPT !.token = new, !.last = sec] \in Row
                       /\ [row[n] EXCEPT !.token = new, !.last = sec].state = "active"
    BY <2>2, <2>4 DEF Row, Base, SessionsTypeOK
  <2>6. \A n \in Logins : \/ row'[n] = row[n]
                          \/ n \in hit /\ row'[n] \in Row /\ row'[n].state = "active"
    BY <2>3, <2>5
  <2>7. row' \in [Logins -> Row \cup {Absent, Gone}]
    <3> HIDE DEF hit
    <3> QED
      BY <2>1, <2>6 DEF Base, SessionsTypeOK
  <2>8. Active' = Active /\ \A n \in Logins : row'[n] = Absent <=> row[n] = Absent
    BY <2>4, <2>6, RowTypes DEF Active
  <2>9. refresh' \in [Refreshes -> Exchange \cup {None}] /\ spent' \subseteq RefreshToken
    BY <2>1, <2>2, StepTypes DEF Base, SessionsTypeOK
  <2>10. SessionsTypeOK'
    BY <2>1, <2>7, <2>9 DEF Base, SessionsTypeOK
  <2> QED
    BY <2>1, <2>8, <2>10, BaseEnding
<1>4. CASE RotateFails(q)
  <2>1. /\ refresh[q] # None /\ refresh' = [refresh EXCEPT ![q].step = "reply"]
        /\ single' = [single EXCEPT ![refresh[q].dev] = FALSE]
        /\ faults < MaxFaults /\ faults' = faults + 1
        /\ UNCHANGED <<sec, version, row, job, expiring, jar, home, spent>>
    BY <1>4 DEF RotateFails, At, Fault
  <2>2. refresh' \in [Refreshes -> Exchange \cup {None}]
    BY <2>1, StepTypes DEF Base
  <2>3. faults' \in 0 .. MaxFaults
    BY <2>1, Constants DEF Base, SessionsTypeOK
  <2>4. single' \in [Devices -> BOOLEAN]
    BY <2>1 DEF Base, SessionsTypeOK
  <2> QED
    BY <2>1, <2>2, <2>3, <2>4, BaseKept DEF Base, SessionsTypeOK
<1>5. CASE Reply(q)
  <2>1. /\ refresh[q] # None /\ refresh' = [refresh EXCEPT ![q] = None]
        /\ jar' = [jar EXCEPT ![refresh[q].dev] = refresh[q].new]
        /\ home' = [home EXCEPT ![refresh[q].dev] = refresh[q].home]
        /\ UNCHANGED <<sec, version, row, job, expiring, single, spent, faults>>
    BY <1>5 DEF Reply, At
  <2>2. refresh[q].new \in RefreshToken /\ refresh[q].home \in 0 .. MaxLogins
    BY <2>1, FlightStates, FlightTypes DEF Base
  <2>3. SessionsTypeOK'
    BY <2>1, <2>2 DEF Base, SessionsTypeOK
  <2> QED
    BY <2>1, <2>3, BaseKept
<1>6. CASE ReplyLost(q)
  <2>1. /\ refresh' = [refresh EXCEPT ![q] = None]
        /\ single' = [single EXCEPT ![refresh[q].dev] = FALSE]
        /\ faults < MaxFaults /\ faults' = faults + 1
        /\ UNCHANGED <<sec, version, row, job, expiring, jar, home, spent>>
    BY <1>6 DEF ReplyLost, Fault
  <2>2. refresh' \in [Refreshes -> Exchange \cup {None}]
    BY <2>1 DEF Base, SessionsTypeOK
  <2>3. faults' \in 0 .. MaxFaults
    BY <2>1, Constants DEF Base, SessionsTypeOK
  <2>4. single' \in [Devices -> BOOLEAN]
    BY <2>1 DEF Base, SessionsTypeOK
  <2> QED
    BY <2>1, <2>2, <2>3, <2>4, BaseKept DEF Base, SessionsTypeOK
<1> QED
  BY <1>1, <1>2, <1>3, <1>4, <1>5, <1>6

\* Ending sessions and deleting ended ones.
LEMMA EndingBase ==
    ASSUME Base,
           \/ ExpireAll
           \/ \E n \in Logins : (\E d \in Devices : Terminate(d, n)) \/ ForceLogout(n) \/ Clean(n)
           \/ \E d \in Devices : LogoutDevice(d)
    PROVE  Base'
<1>1. ASSUME NEW S, End(S), UNCHANGED <<sec, job, jar, refresh, home, single, spent>>,
             version' \in 0 .. MaxTv, expiring' \in BOOLEAN, faults' \in 0 .. MaxFaults
      PROVE  Base'
  <2>1. /\ row' \in [Logins -> Row \cup {Absent, Gone}] /\ Active' \subseteq Active
        /\ \A n \in Rows \cap S : row'[n] \in Row
        /\ \A n \in Logins \ (Rows \cap S) : row'[n] = row[n]
    BY <1>1, EndTypes DEF Base
  <2>2. \A n \in Logins : row'[n] = Absent <=> row[n] = Absent
    BY <2>1, RowStates, RowTypes DEF Base
  <2>3. SessionsTypeOK'
    BY <1>1, <2>1 DEF Base, SessionsTypeOK
  <2> QED
    BY <1>1, <2>1, <2>2, <2>3, BaseEnding
<1>2. CASE \E n \in Logins, d \in Devices : Terminate(d, n)
  BY <1>1, <1>2 DEF Terminate, Base, SessionsTypeOK
<1>3. CASE \E n \in Logins : ForceLogout(n)
  <2>1. PICK n \in Logins : ForceLogout(n)
    BY <1>3
  <2>2. version' \in 0 .. MaxTv /\ faults' \in 0 .. MaxFaults
    BY <2>1, Constants DEF ForceLogout, Fault, NoFault, Base, SessionsTypeOK
  <2> QED
    BY <1>1, <2>1, <2>2 DEF ForceLogout, Base, SessionsTypeOK
<1>4. CASE ExpireAll
  <2>1. faults' \in 0 .. MaxFaults
    BY <1>4, Constants DEF ExpireAll, Fault, NoFault, Base, SessionsTypeOK
  <2>2. CASE End(Active)
    BY <1>1, <1>4, <2>1, <2>2 DEF ExpireAll, Base, SessionsTypeOK
  <2>3. CASE UNCHANGED row
    BY <1>4, <2>1, <2>3, BaseKept DEF ExpireAll, Base, SessionsTypeOK
  <2> QED
    BY <1>4, <2>2, <2>3 DEF ExpireAll
<1>5. CASE \E n \in Logins : Clean(n)
  <2>1. PICK n \in Logins : Clean(n)
    BY <1>5
  <2>2. /\ row' = [row EXCEPT ![n] = Gone] /\ n \in Rows \ Active
        /\ UNCHANGED <<sec, version, job, expiring, jar, refresh, home, single, spent, faults>>
    BY <2>1 DEF Clean
  <2>3. SessionsTypeOK'
    BY <2>2 DEF Base, SessionsTypeOK
  <2>4. row'[n] = Gone /\ \A m \in Logins \ {n} : row'[m] = row[m]
    BY <2>2 DEF Base, SessionsTypeOK
  <2>5. Active' \subseteq Active /\ \A m \in Logins : row'[m] = Absent <=> row[m] = Absent
    BY <2>2, <2>4, RowStates, RowTypes DEF Base, Active
  <2> QED
    BY <2>2, <2>3, <2>5, BaseEnding
<1>6. CASE \E d \in Devices : LogoutDevice(d)
  <2>1. PICK d \in Devices : LogoutDevice(d)
    BY <1>6
  <2>2. version' \in 0 .. MaxTv /\ faults' \in 0 .. MaxFaults
    BY <2>1, Constants DEF LogoutDevice, Fault, NoFault, Base, SessionsTypeOK
  <2>3. SessionsTypeOK'
    BY <2>1, <2>2 DEF LogoutDevice, Base, SessionsTypeOK
  <2> QED
    BY <2>1, <2>3, BaseKept DEF LogoutDevice
<1> QED
  BY <1>2, <1>3, <1>4, <1>5, <1>6

LEMMA BaseInit == SessionsInit => Base
<1> SUFFICES ASSUME SessionsInit PROVE Base
  OBVIOUS
<1>1. SessionsTypeOK
  <2>1. row \in [Logins -> Row \cup {Absent, Gone}] /\ job \in [Logins -> Job \cup {None, Failed}]
    BY DEF SessionsInit
  <2>2. jar \in [Devices -> RefreshToken \cup {None}] /\ refresh \in [Refreshes -> Exchange \cup {None}]
    BY DEF SessionsInit
  <2>3. home \in [Devices -> 0 .. MaxLogins] /\ single \in [Devices -> BOOLEAN]
    BY Constants DEF SessionsInit
  <2>4. sec \in 0 .. MaxSec /\ version \in 0 .. MaxTv /\ faults \in 0 .. MaxFaults
    BY Constants DEF SessionsInit
  <2> QED
    BY <2>1, <2>2, <2>3, <2>4 DEF SessionsInit, SessionsTypeOK
<1>2. Numbered
  <2>1. Begun = {} /\ Begun = 1 .. 0
    BY DEF SessionsInit, Begun
  <2> QED
    BY <2>1, Constants DEF SessionsInit, Numbered
<1>3. Limited
  <2>1. Active \ Excess = {}
    BY RowTypes DEF SessionsInit, Active
  <2>2. Cardinality(Active \ Excess) = 0
    BY <2>1, FS_EmptySet, Zenon
  <2> QED
    BY <2>2, Constants DEF Limited
<1> QED
  BY <1>1, <1>2, <1>3 DEF Base

LEMMA BaseStep == Base /\ [SessionsNext]_sessionVars => Base'
<1> SUFFICES ASSUME Base, [SessionsNext]_sessionVars PROVE Base'
  OBVIOUS
<1>1. CASE UNCHANGED sessionVars
  <2>1. SessionsTypeOK'
    BY <1>1 DEF sessionVars, Base, SessionsTypeOK
  <2> QED
    BY <1>1, <2>1, BaseKept DEF sessionVars
<1>2. ASSUME NEW n \in Logins,
             \/ \E d \in Devices : Login(d, n)
             \/ Upsert(n) \/ ReadLimit(n) \/ Evict(n) \/ SessionFails(n)
      PROVE  Base'
  BY <1>2, LoginBase, UpsertBase, ReadLimitBase, EvictBase, SessionFailsBase
<1> QED
  BY <1>1, <1>2, RefreshBase, EndingBase DEF SessionsNext

\* Types, numbering and the bound on the active rows, whatever the clock does.
THEOREM BaseInvariance == SessionsSpec => []Base
BY BaseInit, BaseStep, PTL DEF SessionsSpec

\* Every variable keeps its type.
THEOREM TypesHold == SessionsSpec => []SessionsTypeOK
<1>1. Base => SessionsTypeOK
  BY DEF Base
<1> QED
  BY <1>1, BaseInvariance, PTL

\* When every createSession is done without an error, the account has at most
\* MaxSessions active sessions, for any number of logins at once.
THEOREM SessionsAreLimited == SessionsSpec => []SessionLimit
<1>1. Base => SessionLimit
  <2> SUFFICES ASSUME Base, \A n \in Logins : job[n] = None
               PROVE  Cardinality(Active) <= MaxSessions
    BY DEF SessionLimit
  <2>1. \A n \in Logins : job[n] # Failed
    BY JobTypes
  <2>2. Cardinality(Active \ Excess) <= MaxSessions
    BY <2>1 DEF Base, Limited
  <2>3. Active \ Excess = Active
    BY DEF Excess
  <2> QED
    BY <2>2, <2>3
<1> QED
  BY <1>1, BaseInvariance, PTL

----------------------------------------------------------------------------
(* Tokens, when no two are signed in one second                             *)

\* Rows that only end or vanish, jobs that only finish and jars that only empty
\* disturb nothing that is said of tokens.
LEMMA CalmKeeps ==
    ASSUME IInv, Base', UNCHANGED <<sec, refresh, home, single, spent>>,
           Begun' = Begun, Rows' \subseteq Rows, Active' \subseteq Active,
           \A n \in Rows' : row'[n].token = row[n].token,
           \A n \in Logins : row[n] # Absent => row'[n] # Absent,
           Pending' \subseteq Pending,
           \A n \in Pending' : job'[n].token = job[n].token,
           \A d \in Devices : jar'[d] \in {None, jar[d]}
    PROVE  Rest'
<1>1. Past'
  BY DEF IInv, Rest, Past
<1>2. Active \subseteq Rows /\ Active' \subseteq Rows'
  BY DEF Active, Rows
<1>3. NewInv'
  <2> SUFFICES ASSUME NEW q \in Refreshes, Unwritten(q)'
               PROVE  (/\ refresh[q].new \notin spent /\ Holding(refresh[q].new) = {}
                       /\ \A d \in Devices : jar[d] # refresh[q].new
                       /\ \A p \in Refreshes : refresh[p] # None =>
                            /\ refresh[p].old # refresh[q].new
                            /\ p # q => refresh[p].new # refresh[q].new)'
    BY DEF NewInv
  <2>1. Unwritten(q) /\ refresh[q] # None
    BY DEF Unwritten
  <2>2. refresh[q].new # None
    BY <2>1, FlightStates, FlightTypes, TokenTypes DEF IInv, Base
  <2>3. Holding(refresh[q].new)' \subseteq Holding(refresh[q].new)
    BY DEF Holding
  <2> QED
    BY <2>1, <2>2, <2>3 DEF IInv, Rest, NewInv
<1>4. JobInv'
  <2> SUFFICES ASSUME NEW n \in Pending'
               PROVE  /\ job'[n].token \notin spent /\ Holding(job[n].token)' = {}
                      /\ \A m \in Pending' : job'[m].token = job'[n].token => m = n
                      /\ \A q \in Refreshes : refresh[q] # None => refresh[q].new # job'[n].token
    BY DEF JobInv, Holding
  <2>1. Holding(job[n].token)' \subseteq Holding(job[n].token)
    BY DEF Holding
  <2> QED
    BY <2>1 DEF IInv, Rest, JobInv
<1>5. ExchangedTokensAreDead'
  BY <1>2 DEF IInv, Base, Rest, ExchangedTokensAreDead
<1>7. Belongs'
  <2>1. ASSUME NEW d \in Devices, jar'[d] # None PROVE BelongsTo(jar[d], home[d])'
    <3>1. jar'[d] = jar[d] /\ BelongsTo(jar[d], home[d])
      BY <2>1 DEF IInv, Rest, Belongs
    <3> QED
      BY <3>1 DEF BelongsTo, Holding
  <2>2. ASSUME NEW q \in Refreshes, refresh[q] # None
        PROVE  /\ BelongsTo(refresh[q].old, refresh[q].home)' /\ BelongsTo(refresh[q].new, refresh[q].home)'
               /\ refresh[q].step # "validate" => row'[refresh[q].home] # Absent
    <3>1. /\ BelongsTo(refresh[q].old, refresh[q].home) /\ BelongsTo(refresh[q].new, refresh[q].home)
          /\ refresh[q].step # "validate" => row[refresh[q].home] # Absent
      BY <2>2 DEF IInv, Rest, Belongs
    <3>2. refresh[q].home \in Logins
      BY <3>1 DEF BelongsTo, Begun
    <3> QED
      BY <3>1, <3>2 DEF BelongsTo, Holding
  <2> QED
    BY <2>1, <2>2 DEF Belongs, BelongsTo, Holding
<1>8. Owned'
  BY DEF IInv, Rest, Owned
<1>10. Steady'
  <2> SUFFICES ASSUME NEW d \in Devices, single[d]
               PROVE  /\ \A p, q \in RefreshesOf(d) : p = q
                      /\ \A q \in RefreshesOf(d) :
                           /\ refresh[q].home = home[d]
                           /\ Unwritten(q) => /\ Keeps(home[d], refresh[q].old)'
                                              /\ jar'[d] \in {None, refresh[q].old}
                           /\ ~Unwritten(q) => Keeps(home[d], refresh[q].new)'
                      /\ RefreshesOf(d) = {} /\ jar'[d] # None => Keeps(home[d], jar[d])'
    BY DEF Steady, Unwritten, RefreshesOf, Keeps
  <2>1. /\ \A p, q \in RefreshesOf(d) : p = q
        /\ \A q \in RefreshesOf(d) :
             /\ refresh[q].home = home[d]
             /\ Unwritten(q) => Keeps(home[d], refresh[q].old) /\ jar[d] \in {None, refresh[q].old}
             /\ ~Unwritten(q) => Keeps(home[d], refresh[q].new)
        /\ RefreshesOf(d) = {} /\ jar[d] # None => Keeps(home[d], jar[d])
    BY DEF IInv, Rest, Steady
  <2>2. \A q \in RefreshesOf(d) :
          /\ Keeps(home[d], refresh[q].old) => Keeps(home[d], refresh[q].old)'
          /\ Keeps(home[d], refresh[q].new) => Keeps(home[d], refresh[q].new)'
    BY <1>2 DEF Keeps
  <2>3. jar'[d] # None /\ Keeps(home[d], jar[d]) => Keeps(home[d], jar[d])'
    BY <1>2 DEF Keeps
  <2> QED
    BY <2>1, <2>2, <2>3
<1> QED
  BY <1>1, <1>3, <1>4, <1>5, <1>7, <1>8, <1>10 DEF Rest

\* So do the actions that end sessions and the ends of createSession.
LEMMA EndingRest ==
    ASSUME IInv, Base',
           \/ ExpireAll
           \/ \E n \in Logins : (\E d \in Devices : Terminate(d, n)) \/ ForceLogout(n) \/ Clean(n)
           \/ \E d \in Devices : LogoutDevice(d)
           \/ UNCHANGED sessionVars
    PROVE  Rest'
<1>1. ASSUME UNCHANGED job PROVE Pending' = Pending /\ \A n \in Pending' : job'[n].token = job[n].token
  BY <1>1 DEF Pending
<1>2. ASSUME NEW S, End(S), UNCHANGED <<sec, job, jar, refresh, home, single, spent>> PROVE Rest'
  <2>1. /\ \A n \in Rows \cap S : row'[n] \in Row /\ row'[n].token = row[n].token
        /\ \A n \in Logins \ (Rows \cap S) : row'[n] = row[n]
        /\ Rows' = Rows /\ Active' = Active \ S
    BY <1>2, EndTypes DEF IInv, Base
  <2>2. \A n \in Rows' : row'[n].token = row[n].token
    BY <2>1 DEF Rows
  <2>3. \A n \in Logins : row[n] # Absent <=> row'[n] # Absent
    BY <2>1, RowStates, RowTypes DEF IInv, Base
  <2>4. Begun' = Begun
    BY <1>2, <2>3 DEF Begun
  <2> QED
    BY <1>1, <1>2, <2>1, <2>2, <2>3, <2>4, CalmKeeps
<1>3. ASSUME UNCHANGED <<sec, row, job, refresh, home, single, spent>>,
             \A d \in Devices : jar'[d] \in {None, jar[d]}
      PROVE  Rest'
  <2>1. /\ Begun' = Begun /\ Rows' = Rows /\ Active' = Active
        /\ \A n \in Rows' : row'[n].token = row[n].token
    BY <1>3 DEF Begun, Rows, Active
  <2> QED
    BY <1>1, <1>3, <2>1, CalmKeeps
<1>4. CASE \E n \in Logins, d \in Devices : Terminate(d, n)
  BY <1>2, <1>4 DEF Terminate
<1>5. CASE \E n \in Logins : ForceLogout(n)
  BY <1>2, <1>5 DEF ForceLogout
<1>6. CASE ExpireAll
  BY <1>2, <1>3, <1>6 DEF ExpireAll
<1>7. CASE \E n \in Logins : Clean(n)
  <2>1. PICK n \in Logins : Clean(n)
    BY <1>7
  <2>2. /\ row' = [row EXCEPT ![n] = Gone] /\ n \in Rows \ Active
        /\ UNCHANGED <<sec, version, job, expiring, jar, refresh, home, single, spent, faults>>
    BY <2>1 DEF Clean
  <2>3. row'[n] = Gone /\ \A m \in Logins \ {n} : row'[m] = row[m]
    BY <2>2 DEF IInv, Base, SessionsTypeOK
  <2>4. /\ Rows' = Rows \ {n} /\ Active' = Active /\ Rows \subseteq Logins
        /\ \A m \in Logins : row[m] # Absent <=> row'[m] # Absent
    BY <2>2, <2>3, RowStates, RowTypes DEF IInv, Base, Rows, Active
  <2>5. Begun' = Begun
    BY <2>2, <2>4 DEF Begun
  <2>6. \A m \in Rows' : row'[m].token = row[m].token
    BY <2>3, <2>4
  <2> QED
    BY <1>1, <2>2, <2>4, <2>5, <2>6, CalmKeeps
<1>8. CASE \E d \in Devices : LogoutDevice(d)
  <2>1. PICK d \in Devices : LogoutDevice(d)
    BY <1>8
  <2>2. \A e \in Devices : jar'[e] \in {None, jar[e]}
    BY <2>1 DEF LogoutDevice, IInv, Base, SessionsTypeOK
  <2> QED
    BY <1>3, <2>1, <2>2 DEF LogoutDevice
<1>9. CASE UNCHANGED sessionVars
  BY <1>3, <1>9 DEF sessionVars
<1> QED
  BY <1>4, <1>5, <1>6, <1>7, <1>8, <1>9

LEMMA JobEndsRest ==
    ASSUME IInv, Base', NEW n \in Logins, ReadLimit(n) \/ Evict(n) \/ SessionFails(n)
    PROVE  Rest'
<1>1. /\ UNCHANGED <<sec, refresh, home, single, spent, jar>> /\ job[n] # None
      /\ \A m \in Logins \ {n} : job'[m] = job[m]
  BY DEF ReadLimit, Evict, SessionFails, IInv, Base, SessionsTypeOK
<1>2. /\ Rows' = Rows /\ Active' \subseteq Active
      /\ \A m \in Rows : row'[m].token = row[m].token
      /\ \A m \in Logins \ {n} : row[m] # Absent <=> row'[m] # Absent
      /\ row'[n] # Absent
  <2>1. CASE ReadLimit(n)
    <3>1. row' = row /\ job[n].step = "limit"
      BY <2>1 DEF ReadLimit
    <3>2. row[n] # Absent
      BY <1>1, <3>1 DEF IInv, Base, Numbered, Pending
    <3> QED
      BY <3>1, <3>2 DEF Rows, Active
  <2>2. CASE Evict(n)
    <3>1. End(job[n].excess) /\ job[n].step = "evict"
      BY <2>2 DEF Evict
    <3>2. row[n] # Absent
      BY <1>1, <3>1 DEF IInv, Base, Numbered, Pending
    <3>3. /\ \A m \in Rows \cap job[n].excess : row'[m] \in Row /\ row'[m].token = row[m].token
          /\ \A m \in Logins \ (Rows \cap job[n].excess) : row'[m] = row[m]
          /\ Rows' = Rows /\ Active' = Active \ job[n].excess
      BY <3>1, EndTypes DEF IInv, Base
    <3> QED
      BY <3>2, <3>3, RowStates, RowTypes DEF IInv, Base
  <2>3. CASE SessionFails(n)
    <3>1. /\ row' = [row EXCEPT ![n] = IF job[n].step = "upsert" THEN Gone ELSE @]
          /\ job[n] \notin {None, Failed}
      BY <2>3 DEF SessionFails
    <3>2. \A m \in Logins \ {n} : row'[m] = row[m]
      BY <3>1 DEF IInv, Base, SessionsTypeOK
    <3>3. CASE job[n].step = "upsert"
      <4>1. row'[n] = Gone /\ row[n] = Absent
        BY <1>1, <3>1, <3>3 DEF IInv, Base, SessionsTypeOK, Numbered, Pending
      <4> QED
        BY <3>2, <4>1, RowTypes DEF Rows, Active
    <3>4. CASE job[n].step # "upsert"
      <4>1. row'[n] = row[n] /\ row[n] # Absent
        BY <1>1, <3>1, <3>4 DEF IInv, Base, SessionsTypeOK, Numbered, Pending
      <4> QED
        BY <3>2, <4>1 DEF Rows, Active
    <3> QED
      BY <3>3, <3>4
  <2> QED
    BY <2>1, <2>2, <2>3
<1>3. job'[n] = None \/ job'[n].step # "upsert"
  <2>1. CASE ReadLimit(n)
    <3>1. \/ job' = [job EXCEPT ![n] = None]
          \/ \E S \in SUBSET Active : job' = [job EXCEPT ![n].step = "evict", ![n].excess = S]
      BY <2>1 DEF ReadLimit
    <3>2. job[n] \in Job
      BY <1>1, <2>1, JobStates DEF ReadLimit, IInv, Base
    <3>3. ASSUME NEW S \in SUBSET Active,
                 job' = [job EXCEPT ![n].step = "evict", ![n].excess = S]
          PROVE  job'[n].step = "evict"
      BY <3>2, <3>3 DEF IInv, Base, SessionsTypeOK, Job
    <3> QED
      BY <3>1, <3>3 DEF IInv, Base, SessionsTypeOK
  <2>2. CASE Evict(n) \/ SessionFails(n)
    <3>1. job'[n] \in {None, Failed}
      BY <2>2 DEF Evict, SessionFails, IInv, Base, SessionsTypeOK
    <3> QED
      BY <3>1, JobTypes
  <2> QED
    BY <2>1, <2>2
<1>4. Begun' = Begun
  BY <1>1, <1>2 DEF Begun
<1>5. Pending' \subseteq Pending /\ \A m \in Pending' : job'[m].token = job[m].token
  BY <1>1, <1>3 DEF Pending
<1> QED
  BY <1>1, <1>2, <1>4, <1>5, CalmKeeps

\* A token signed now is nobody's yet.
LEMMA Fresh ==
    ASSUME IInv, SameSecond = FALSE, Sign
    PROVE  /\ Signed \notin spent /\ Holding(Signed) = {}
           /\ \A n \in Pending : job[n].token # Signed
           /\ \A d \in Devices : jar[d] # None => jar[d] # Signed
           /\ \A q \in Refreshes : refresh[q] # None => refresh[q].old # Signed /\ refresh[q].new # Signed
           /\ Signed # None /\ sec' = sec + 1 /\ sec \in Nat
<1>1. Signed.sec = sec /\ sec \in Nat /\ sec' = sec + 1 /\ Signed \in RefreshToken
  BY SignTypes DEF IInv, Base
<1>2. Past
  BY DEF IInv, Rest
<1>3. Holding(Signed) = {}
  BY <1>1, <1>2 DEF Past, Holding
<1> QED
  BY <1>1, <1>2, <1>3, TokenTypes DEF Past

\* What was signed before stays so.
LEMMA TimeGoesOn ==
    ASSUME IInv, SameSecond = FALSE, Sign
    PROVE  /\ \A t \in RefreshToken : t.sec < sec => t.sec < sec'
           /\ Signed.sec < sec'
           /\ spent \subseteq RefreshToken
           /\ \A n \in Rows : row[n].token \in RefreshToken
           /\ \A n \in Pending : job[n].token \in RefreshToken
           /\ \A d \in Devices : jar[d] # None => jar[d] \in RefreshToken
           /\ \A q \in Refreshes : refresh[q] # None => refresh[q].old \in RefreshToken /\ refresh[q].new \in RefreshToken
<1>1. Signed.sec = sec /\ sec \in Nat /\ sec' = sec + 1 /\ Signed \in RefreshToken
  BY SignTypes DEF IInv, Base
<1>2. \A t \in RefreshToken : t.sec \in Nat
  BY TokenTypes, Constants
<1>3. \A n \in Pending : job[n].token \in RefreshToken
  BY JobStates, JobTypes DEF IInv, Base, Pending
<1>4. \A q \in Refreshes : refresh[q] # None => refresh[q].old \in RefreshToken /\ refresh[q].new \in RefreshToken
  BY FlightStates, FlightTypes DEF IInv, Base
<1> QED
  BY <1>1, <1>2, <1>3, <1>4, RowStates DEF IInv, Base, SessionsTypeOK

\* What a login leads to is numbered.
LEMMA HomesBegun ==
    ASSUME IInv
    PROVE  /\ \A d \in Devices : home[d] \in Begun \cup {0}
           /\ \A d \in Devices : jar[d] # None => home[d] \in Begun
           /\ \A q \in Refreshes : refresh[q] # None => refresh[q].home \in Begun
           /\ Begun \subseteq Logins /\ 0 \notin Logins
           /\ Pending \subseteq Logins /\ Rows \subseteq Logins
BY Constants DEF IInv, Rest, Belongs, BelongsTo, Owned, Begun, Pending, Rows, Logins

LEMMA LoginRest ==
    ASSUME IInv, SameSecond = FALSE, NEW d \in Devices, NEW n \in Logins, Login(d, n)
    PROVE  Rest'
<1> DEFINE S == Signed
<1>1. /\ Sign /\ S \in RefreshToken
      /\ jar'[d] = S /\ \A e \in Devices \ {d} : jar'[e] = jar[e]
      /\ home'[d] = n /\ \A e \in Devices \ {d} : home'[e] = home[e]
      /\ single'[d] = ~Overlap(d) /\ \A e \in Devices \ {d} : single'[e] = single[e]
      /\ UNCHANGED <<version, row, expiring, refresh, spent, faults>>
  BY SignTypes DEF Login, IInv, Base, SessionsTypeOK
<1>2. PICK t \in RefreshToken : t = S
  BY <1>1
<1>3. /\ job'[n] # None /\ job'[n].step = "upsert" /\ job'[n].token = t
      /\ \A m \in Logins \ {n} : job'[m] = job[m]
  BY <1>1, <1>2, JobTypes DEF Login, IInv, Base, SessionsTypeOK
<1>4. n \notin Begun /\ job[n] = None /\ row[n] = Absent
  BY LoginNumber DEF IInv
<1>5. /\ Begun' = Begun \cup {n} /\ Pending' = Pending \cup {n} /\ n \notin Pending
      /\ Rows' = Rows /\ Active' = Active /\ n \notin Active
  BY <1>1, <1>3, <1>4, RowTypes DEF Begun, Pending, Rows, Active
<1>6. /\ t \notin spent /\ Holding(t) = {} /\ t # None /\ sec' = sec + 1 /\ sec \in Nat
      /\ \A m \in Pending : job[m].token # t
      /\ \A e \in Devices : jar[e] # None => jar[e] # t
      /\ \A q \in Refreshes : refresh[q] # None => refresh[q].old # t /\ refresh[q].new # t
  BY <1>1, <1>2, Fresh
<1> HIDE DEF S
<1>7. Past'
  <2>1. /\ \A x \in RefreshToken : x.sec < sec => x.sec < sec'
        /\ t.sec < sec'
    BY <1>1, <1>2, TimeGoesOn DEF S
  <2>2. (\A x \in spent : x.sec < sec)'
    BY <1>1, <2>1, TimeGoesOn DEF IInv, Rest, Past
  <2>3. (\A m \in Rows : row[m].token.sec < sec)'
    BY <1>1, <1>5, <2>1, TimeGoesOn DEF IInv, Rest, Past
  <2>4. (\A m \in Pending : job[m].token.sec < sec)'
    BY <1>1, <1>3, <1>5, <2>1, TimeGoesOn, HomesBegun DEF IInv, Rest, Past
  <2>5. (\A e \in Devices : jar[e] # None => jar[e].sec < sec)'
    BY <1>1, <1>2, <2>1, TimeGoesOn DEF IInv, Rest, Past
  <2>6. (\A q \in Refreshes : refresh[q] # None => refresh[q].old.sec < sec /\ refresh[q].new.sec < sec)'
    BY <1>1, <2>1, TimeGoesOn DEF IInv, Rest, Past
  <2> QED
    BY <2>2, <2>3, <2>4, <2>5, <2>6 DEF Past
<1>8. NewInv'
  <2> SUFFICES ASSUME NEW q \in Refreshes, Unwritten(q)'
               PROVE  (/\ refresh[q].new \notin spent /\ Holding(refresh[q].new) = {}
                       /\ \A e \in Devices : jar[e] # refresh[q].new
                       /\ \A p \in Refreshes : refresh[p] # None =>
                            /\ refresh[p].old # refresh[q].new
                            /\ p # q => refresh[p].new # refresh[q].new)'
    BY DEF NewInv
  <2>1. Unwritten(q) /\ refresh[q] # None
    BY <1>1 DEF Unwritten
  <2>2. Holding(refresh[q].new)' = Holding(refresh[q].new)
    BY <1>1, <1>5 DEF Holding
  <2> QED
    BY <1>1, <1>2, <1>6, <2>1, <2>2 DEF IInv, Rest, NewInv
<1>9. JobInv'
  <2> SUFFICES ASSUME NEW m \in Pending'
               PROVE  (/\ job[m].token \notin spent /\ Holding(job[m].token) = {}
                       /\ \A k \in Pending : job[k].token = job[m].token => k = m
                       /\ \A q \in Refreshes : refresh[q] # None => refresh[q].new # job[m].token)'
    BY DEF JobInv
  <2>1. Holding(job[m].token)' = {}
    BY <1>1, <1>3, <1>5, <1>6, HomesBegun DEF Holding, IInv, Rest, JobInv
  <2> QED
    BY <1>1, <1>3, <1>5, <1>6, <2>1, HomesBegun DEF IInv, Rest, JobInv
<1>10. ExchangedTokensAreDead'
  BY <1>1, <1>5 DEF IInv, Rest, ExchangedTokensAreDead
<1>11. Belongs'
  <2>2. ASSUME NEW e \in Devices, jar'[e] # None PROVE BelongsTo(jar[e], home[e])'
    <3>1. CASE e = d
      <4>1. jar'[e] = t /\ home'[e] = n
        BY <1>1, <1>2, <3>1
      <4>2. Holding(t)' = {}
        BY <1>1, <1>5, <1>6 DEF Holding
      <4>3. \A m \in Pending' : job'[m].token = t => m = n
        BY <1>3, <1>5, <1>6, HomesBegun
      <4> QED
        BY <1>5, <4>1, <4>2, <4>3 DEF BelongsTo, Holding
    <3>2. CASE e # d
      <4>1. jar'[e] = jar[e] /\ home'[e] = home[e] /\ BelongsTo(jar[e], home[e]) /\ jar[e] # t
        BY <1>1, <1>6, <2>2, <3>2 DEF IInv, Rest, Belongs
      <4> QED
        BY <1>1, <1>3, <1>5, <4>1, HomesBegun DEF BelongsTo, Holding
    <3> QED
      BY <3>1, <3>2
  <2>3. ASSUME NEW q \in Refreshes, refresh'[q] # None
        PROVE  (/\ BelongsTo(refresh[q].old, refresh[q].home) /\ BelongsTo(refresh[q].new, refresh[q].home)
                /\ refresh[q].step # "validate" => row[refresh[q].home] # Absent)'
    <3>1. /\ BelongsTo(refresh[q].old, refresh[q].home) /\ BelongsTo(refresh[q].new, refresh[q].home)
          /\ refresh[q].step # "validate" => row[refresh[q].home] # Absent
          /\ refresh[q].old # t /\ refresh[q].new # t
      BY <1>1, <1>6, <2>3 DEF IInv, Rest, Belongs
    <3> QED
      BY <1>1, <1>3, <1>5, <3>1, HomesBegun DEF BelongsTo, Holding
  <2> QED
    BY <2>2, <2>3 DEF Belongs
<1>12. Owned'
  BY <1>1, <1>4, <1>5, HomesBegun DEF IInv, Rest, Owned
<1>13. Steady'
  <2> SUFFICES ASSUME NEW e \in Devices, single'[e]
               PROVE  (/\ \A p, q \in RefreshesOf(e) : p = q
                       /\ \A q \in RefreshesOf(e) :
                            /\ refresh[q].home = home[e]
                            /\ Unwritten(q) => Keeps(home[e], refresh[q].old)
                                               /\ jar[e] \in {None, refresh[q].old}
                            /\ ~Unwritten(q) => Keeps(home[e], refresh[q].new)
                       /\ RefreshesOf(e) = {} /\ jar[e] # None => Keeps(home[e], jar[e]))'
    BY DEF Steady
  <2>1. CASE e = d
    <3>1. RefreshesOf(e)' = {}
      BY <1>1, <2>1 DEF Overlap, RefreshesOf
    <3>2. Keeps(home[e], jar[e])'
      BY <1>1, <1>2, <1>3, <1>5, <2>1 DEF Keeps
    <3> QED
      BY <3>1, <3>2
  <2>2. CASE e # d
    <3>1. /\ home'[e] = home[e] /\ jar'[e] = jar[e] /\ home[e] # n
          /\ single[e] /\ RefreshesOf(e)' = RefreshesOf(e)
      BY <1>1, <1>4, <2>2, HomesBegun DEF RefreshesOf
    <3>2. (/\ \A p, q \in RefreshesOf(e) : p = q
           /\ \A q \in RefreshesOf(e) :
                /\ refresh[q].home = home[e]
                /\ Unwritten(q) => Keeps(home[e], refresh[q].old)
                                   /\ jar[e] \in {None, refresh[q].old}
                /\ ~Unwritten(q) => Keeps(home[e], refresh[q].new)
           /\ RefreshesOf(e) = {} /\ jar[e] # None => Keeps(home[e], jar[e]))
      BY <3>1 DEF IInv, Rest, Steady
    <3>3. \A q \in Refreshes : (Unwritten(q)' <=> Unwritten(q)) /\ refresh'[q] = refresh[q]
      BY <1>1 DEF Unwritten
    <3> QED
      BY <1>1, <1>3, <1>5, <3>1, <3>2, <3>3, HomesBegun DEF Keeps, RefreshesOf
  <2> QED
    BY <2>1, <2>2
<1> QED
  BY <1>7, <1>8, <1>9, <1>10, <1>11, <1>12, <1>13 DEF Rest

LEMMA UpsertRest ==
    ASSUME IInv, NEW n \in Logins, Upsert(n)
    PROVE  Rest'
<1>1. PICK t \in RefreshToken : t = job[n].token
  BY JobStates, JobTypes DEF Upsert, IInv, Base
<1>2. /\ n \in Pending /\ row[n] = Absent /\ n \notin Rows /\ n \notin Active
      /\ UNCHANGED <<sec, version, expiring, jar, refresh, home, single, spent, faults>>
  BY RowTypes DEF Upsert, IInv, Base, Numbered, Pending, Rows, Active
<1>3. /\ t \notin spent /\ Holding(t) = {}
      /\ \A m \in Pending : job[m].token = t => m = n
      /\ \A q \in Refreshes : refresh[q] # None => refresh[q].new # t
  BY <1>1, <1>2 DEF IInv, Rest, JobInv
<1>4. row' = [row EXCEPT ![n] = [state |-> "active", token |-> t, last |-> sec]]
  BY <1>1, <1>3 DEF Upsert
<1>5. /\ row'[n].state = "active" /\ row'[n].token = t
      /\ row'[n] # Absent
      /\ \A m \in Logins \ {n} : row'[m] = row[m]
  BY <1>4, RowTypes DEF IInv, Base, SessionsTypeOK
<1>6. /\ job'[n] # None /\ job'[n].step # "upsert"
      /\ \A m \in Logins \ {n} : job'[m] = job[m]
  <2>1. job[n] \in Job /\ job' = [job EXCEPT ![n].step = "limit"]
    BY JobStates DEF Upsert, IInv, Base
  <2>2. job'[n].step = "limit" /\ job'[n] \in Job
    BY <2>1 DEF IInv, Base, SessionsTypeOK, Job
  <2> QED
    BY <2>1, <2>2, JobTypes DEF IInv, Base, SessionsTypeOK
<1>7. /\ Begun' = Begun /\ Rows' = Rows \cup {n} /\ Active' = Active \cup {n}
      /\ Pending' = Pending \ {n}
  BY <1>2, <1>5, <1>6 DEF Begun, Rows, Active, Pending
<1>8. /\ \A m \in Rows : row'[m].token = row[m].token
      /\ \A m \in Pending' : job'[m] = job[m]
  BY <1>2, <1>5, <1>6, <1>7, HomesBegun
<1>9. Past'
  BY <1>1, <1>2, <1>5, <1>7, <1>8 DEF IInv, Rest, Past
<1>10. NewInv'
  <2> SUFFICES ASSUME NEW q \in Refreshes, Unwritten(q)'
               PROVE  (/\ refresh[q].new \notin spent /\ Holding(refresh[q].new) = {}
                       /\ \A e \in Devices : jar[e] # refresh[q].new
                       /\ \A p \in Refreshes : refresh[p] # None =>
                            /\ refresh[p].old # refresh[q].new
                            /\ p # q => refresh[p].new # refresh[q].new)'
    BY DEF NewInv
  <2>1. Unwritten(q) /\ refresh[q] # None
    BY <1>2 DEF Unwritten
  <2>2. Holding(refresh[q].new)' = {}
    BY <1>2, <1>3, <1>5, <1>7, <1>8, <2>1 DEF IInv, Rest, NewInv, Holding
  <2> QED
    BY <1>2, <2>1, <2>2 DEF IInv, Rest, NewInv
<1>11. JobInv'
  <2> SUFFICES ASSUME NEW m \in Pending'
               PROVE  (/\ job[m].token \notin spent /\ Holding(job[m].token) = {}
                       /\ \A k \in Pending : job[k].token = job[m].token => k = m
                       /\ \A q \in Refreshes : refresh[q] # None => refresh[q].new # job[m].token)'
    BY DEF JobInv
  <2>1. m \in Pending /\ job'[m] = job[m] /\ job[m].token # t
    BY <1>3, <1>7, <1>8
  <2>2. Holding(job[m].token)' = {}
    BY <1>5, <1>7, <1>8, <2>1 DEF IInv, Rest, JobInv, Holding
  <2> QED
    BY <1>2, <1>7, <1>8, <2>1, <2>2 DEF IInv, Rest, JobInv
<1>12. ExchangedTokensAreDead'
  <2>1. Active \subseteq Rows
    BY DEF Active, Rows
  <2> QED
    BY <1>2, <1>3, <1>5, <1>7, <1>8, <2>1 DEF IInv, Rest, ExchangedTokensAreDead
<1>13. Belongs'
  <2>1. ASSUME NEW e \in Devices, jar'[e] # None PROVE BelongsTo(jar[e], home[e])'
    <3>1. BelongsTo(jar[e], home[e]) /\ jar'[e] = jar[e] /\ home'[e] = home[e]
      BY <1>2, <2>1 DEF IInv, Rest, Belongs
    <3> QED
      BY <1>1, <1>2, <1>5, <1>7, <1>8, <3>1 DEF BelongsTo, Holding
  <2>2. ASSUME NEW q \in Refreshes, refresh'[q] # None
        PROVE  (/\ BelongsTo(refresh[q].old, refresh[q].home) /\ BelongsTo(refresh[q].new, refresh[q].home)
                /\ refresh[q].step # "validate" => row[refresh[q].home] # Absent)'
    <3>1. /\ BelongsTo(refresh[q].old, refresh[q].home) /\ BelongsTo(refresh[q].new, refresh[q].home)
          /\ refresh[q].step # "validate" => row[refresh[q].home] # Absent
          /\ refresh'[q] = refresh[q] /\ refresh[q].home \in Logins
      BY <1>2, <2>2, HomesBegun DEF IInv, Rest, Belongs
    <3>2. BelongsTo(refresh[q].old, refresh[q].home)'
      BY <1>1, <1>2, <1>5, <1>7, <1>8, <3>1 DEF BelongsTo, Holding
    <3>3. BelongsTo(refresh[q].new, refresh[q].home)'
      BY <1>1, <1>2, <1>5, <1>7, <1>8, <3>1 DEF BelongsTo, Holding
    <3> QED
      BY <1>5, <3>1, <3>2, <3>3
  <2> QED
    BY <2>1, <2>2 DEF Belongs
<1>14. Owned'
  BY <1>2, <1>7 DEF IInv, Rest, Owned
<1>15. Steady'
  <2> SUFFICES ASSUME NEW e \in Devices, single'[e]
               PROVE  (/\ \A p, q \in RefreshesOf(e) : p = q
                       /\ \A q \in RefreshesOf(e) :
                            /\ refresh[q].home = home[e]
                            /\ Unwritten(q) => Keeps(home[e], refresh[q].old)
                                               /\ jar[e] \in {None, refresh[q].old}
                            /\ ~Unwritten(q) => Keeps(home[e], refresh[q].new)
                       /\ RefreshesOf(e) = {} /\ jar[e] # None => Keeps(home[e], jar[e]))'
    BY DEF Steady
  <2>1. /\ home'[e] = home[e] /\ jar'[e] = jar[e] /\ single[e]
        /\ RefreshesOf(e)' = RefreshesOf(e)
        /\ \A q \in Refreshes : (Unwritten(q)' <=> Unwritten(q)) /\ refresh'[q] = refresh[q]
    BY <1>2 DEF RefreshesOf, Unwritten
  <2>2. (/\ \A p, q \in RefreshesOf(e) : p = q
         /\ \A q \in RefreshesOf(e) :
              /\ refresh[q].home = home[e]
              /\ Unwritten(q) => Keeps(home[e], refresh[q].old)
                                 /\ jar[e] \in {None, refresh[q].old}
              /\ ~Unwritten(q) => Keeps(home[e], refresh[q].new)
         /\ RefreshesOf(e) = {} /\ jar[e] # None => Keeps(home[e], jar[e]))
    BY <2>1 DEF IInv, Rest, Steady
  <2>3. Active \subseteq Rows
    BY DEF Active, Rows
  <2> QED
    BY <1>1, <1>2, <1>5, <1>7, <1>8, <2>1, <2>2, <2>3 DEF Keeps, RefreshesOf
<1> QED
  BY <1>9, <1>10, <1>11, <1>12, <1>13, <1>14, <1>15 DEF Rest

LEMMA RefreshBeginRest ==
    ASSUME IInv, SameSecond = FALSE, NEW q \in Refreshes, NEW d \in Devices, RefreshBegin(q, d)
    PROVE  Rest'
<1>1. /\ Sign /\ refresh[q] = None /\ jar[d] # None
      /\ UNCHANGED <<version, row, job, expiring, jar, home, spent, faults>>
      /\ single'[d] = (single[d] /\ ~Overlap(d))
      /\ \A e \in Devices \ {d} : single'[e] = single[e]
  BY DEF RefreshBegin, IInv, Base, SessionsTypeOK
<1>2. PICK t \in RefreshToken : t = Signed
  BY <1>1, SignTypes DEF IInv, Base
<1>3. /\ refresh'[q] # None /\ refresh'[q].step = "validate" /\ refresh'[q].dev = d
      /\ refresh'[q].home = home[d] /\ refresh'[q].old = jar[d] /\ refresh'[q].new = t
      /\ \A p \in Refreshes \ {q} : refresh'[p] = refresh[p]
  <2> DEFINE f == [step |-> "validate", dev |-> d, home |-> home[d],
                   old |-> jar[d], new |-> t]
  <2>1. refresh' = [refresh EXCEPT ![q] = f]
    BY <1>2 DEF RefreshBegin
  <2>2. f \in Exchange
    BY <1>1, FlightTypes DEF IInv, Base, SessionsTypeOK
  <2> QED
    BY <2>1, <2>2, FlightTypes DEF IInv, Base, SessionsTypeOK
<1>4. /\ t \notin spent /\ Holding(t) = {} /\ t # None /\ sec' = sec + 1 /\ sec \in Nat
      /\ \A m \in Pending : job[m].token # t
      /\ \A e \in Devices : jar[e] # None => jar[e] # t
      /\ \A p \in Refreshes : refresh[p] # None => refresh[p].old # t /\ refresh[p].new # t
  BY <1>1, <1>2, Fresh
<1>5. Begun' = Begun /\ Rows' = Rows /\ Active' = Active /\ Pending' = Pending
  BY <1>1 DEF Begun, Rows, Active, Pending
<1>6. Past'
  <2>1. /\ \A x \in RefreshToken : x.sec < sec => x.sec < sec'
        /\ t.sec < sec'
    BY <1>1, <1>2, TimeGoesOn
  <2>2. (\A x \in spent : x.sec < sec)'
    BY <1>1, <2>1, TimeGoesOn DEF IInv, Rest, Past
  <2>3. (\A m \in Rows : row[m].token.sec < sec)'
    BY <1>1, <1>5, <2>1, TimeGoesOn DEF IInv, Rest, Past
  <2>4. (\A m \in Pending : job[m].token.sec < sec)'
    BY <1>1, <1>5, <2>1, TimeGoesOn DEF IInv, Rest, Past
  <2>5. (\A e \in Devices : jar[e] # None => jar[e].sec < sec)'
    BY <1>1, <2>1, TimeGoesOn DEF IInv, Rest, Past
  <2>6. (\A p \in Refreshes : refresh[p] # None => refresh[p].old.sec < sec /\ refresh[p].new.sec < sec)'
    BY <1>1, <1>3, <2>1, <2>5, TimeGoesOn DEF IInv, Rest, Past
  <2> QED
    BY <2>2, <2>3, <2>4, <2>5, <2>6 DEF Past
<1>7. NewInv'
  <2> SUFFICES ASSUME NEW r \in Refreshes, Unwritten(r)'
               PROVE  (/\ refresh[r].new \notin spent /\ Holding(refresh[r].new) = {}
                       /\ \A e \in Devices : jar[e] # refresh[r].new
                       /\ \A p \in Refreshes : refresh[p] # None =>
                            /\ refresh[p].old # refresh[r].new
                            /\ p # r => refresh[p].new # refresh[r].new)'
    BY DEF NewInv
  <2>1. CASE r = q
    <3>1. Holding(refresh[r].new)' = {}
      BY <1>1, <1>3, <1>4, <1>5, <2>1 DEF Holding
    <3> QED
      BY <1>1, <1>3, <1>4, <2>1, <3>1
  <2>2. CASE r # q
    <3>1. refresh'[r] = refresh[r] /\ Unwritten(r) /\ refresh[r] # None
      BY <1>3, <2>2 DEF Unwritten
    <3>2. Holding(refresh[r].new)' = Holding(refresh[r].new)
      BY <1>1, <1>5, <3>1 DEF Holding
    <3> QED
      BY <1>1, <1>3, <1>4, <3>1, <3>2 DEF IInv, Rest, NewInv
  <2> QED
    BY <2>1, <2>2
<1>8. JobInv'
  <2> SUFFICES ASSUME NEW m \in Pending'
               PROVE  (/\ job[m].token \notin spent /\ Holding(job[m].token) = {}
                       /\ \A k \in Pending : job[k].token = job[m].token => k = m
                       /\ \A p \in Refreshes : refresh[p] # None => refresh[p].new # job[m].token)'
    BY DEF JobInv
  <2>1. Holding(job[m].token)' = Holding(job[m].token)
    BY <1>1, <1>5 DEF Holding
  <2> QED
    BY <1>1, <1>3, <1>4, <1>5, <2>1 DEF IInv, Rest, JobInv
<1>9. ExchangedTokensAreDead'
  BY <1>1, <1>5 DEF IInv, Rest, ExchangedTokensAreDead
<1>10. Belongs'
  <2>1. ASSUME NEW e \in Devices, jar'[e] # None PROVE BelongsTo(jar[e], home[e])'
    BY <1>1, <1>5, <2>1 DEF IInv, Rest, Belongs, BelongsTo, Holding
  <2>2. ASSUME NEW p \in Refreshes, refresh'[p] # None
        PROVE  (/\ BelongsTo(refresh[p].old, refresh[p].home) /\ BelongsTo(refresh[p].new, refresh[p].home)
                /\ refresh[p].step # "validate" => row[refresh[p].home] # Absent)'
    <3>1. CASE p = q
      <4>1. BelongsTo(refresh[p].old, refresh[p].home)'
        BY <1>1, <1>3, <1>5, <3>1 DEF IInv, Rest, Belongs, BelongsTo, Holding
      <4>2. Holding(t)' = {}
        BY <1>1, <1>4, <1>5 DEF Holding
      <4>3. BelongsTo(refresh[p].new, refresh[p].home)'
        BY <1>1, <1>3, <1>4, <1>5, <3>1, <4>2, HomesBegun DEF BelongsTo, Holding
      <4> QED
        BY <1>3, <3>1, <4>1, <4>3
    <3>2. CASE p # q
      BY <1>1, <1>3, <1>5, <2>2, <3>2 DEF IInv, Rest, Belongs, BelongsTo, Holding
    <3> QED
      BY <3>1, <3>2
  <2> QED
    BY <2>1, <2>2 DEF Belongs
<1>11. Owned'
  BY <1>1, <1>3, <1>5, HomesBegun DEF IInv, Rest, Owned
<1>12. Steady'
  <2> SUFFICES ASSUME NEW e \in Devices, single'[e]
               PROVE  (/\ \A p, r \in RefreshesOf(e) : p = r
                       /\ \A r \in RefreshesOf(e) :
                            /\ refresh[r].home = home[e]
                            /\ Unwritten(r) => Keeps(home[e], refresh[r].old)
                                               /\ jar[e] \in {None, refresh[r].old}
                            /\ ~Unwritten(r) => Keeps(home[e], refresh[r].new)
                       /\ RefreshesOf(e) = {} /\ jar[e] # None => Keeps(home[e], jar[e]))'
    BY DEF Steady
  <2>1. single[e]
    BY <1>1
  <2>2. (/\ \A p, r \in RefreshesOf(e) : p = r
         /\ \A r \in RefreshesOf(e) :
              /\ refresh[r].home = home[e]
              /\ Unwritten(r) => Keeps(home[e], refresh[r].old)
                                 /\ jar[e] \in {None, refresh[r].old}
              /\ ~Unwritten(r) => Keeps(home[e], refresh[r].new)
         /\ RefreshesOf(e) = {} /\ jar[e] # None => Keeps(home[e], jar[e]))
    BY <2>1 DEF IInv, Rest, Steady
  <2>3. CASE e = d
    <3>1. RefreshesOf(e) = {}
      BY <1>1, <2>3 DEF Overlap, RefreshesOf
    <3>2. RefreshesOf(e)' = {q}
      BY <1>3, <2>3, <3>1 DEF RefreshesOf
    <3>3. Unwritten(q)'
      BY <1>3 DEF Unwritten
    <3> QED
      BY <1>1, <1>3, <1>5, <2>2, <2>3, <3>1, <3>2, <3>3 DEF Keeps
  <2>4. CASE e # d
    <3>1. /\ RefreshesOf(e)' = RefreshesOf(e) /\ q \notin RefreshesOf(e)
          /\ \A r \in RefreshesOf(e) : refresh'[r] = refresh[r] /\ r \in Refreshes
      BY <1>1, <1>3, <2>4 DEF RefreshesOf
    <3>2. \A r \in RefreshesOf(e) : Unwritten(r)' <=> Unwritten(r)
      BY <3>1 DEF Unwritten
    <3> QED
      BY <1>1, <1>5, <2>2, <3>1, <3>2 DEF Keeps
  <2> QED
    BY <2>3, <2>4
<1> QED
  BY <1>6, <1>7, <1>8, <1>9, <1>10, <1>11, <1>12 DEF Rest

\* A refresh that ends or moves on without writing anything.
LEMMA MovesKeep ==
    ASSUME IInv, UNCHANGED <<sec, row, job, jar, home, spent>>,
           NEW q \in Refreshes, refresh[q] # None,
           \A p \in Refreshes \ {q} : refresh'[p] = refresh[p],
           \/ refresh'[q] = None
           \/ /\ refresh'[q] # None /\ refresh'[q].dev = refresh[q].dev /\ refresh'[q].home = refresh[q].home
              /\ refresh'[q].old = refresh[q].old /\ refresh'[q].new = refresh[q].new
              /\ Unwritten(q)' => Unwritten(q)
              /\ row[refresh[q].home] # Absent,
           \A e \in Devices : single'[e] => single[e],
           single'[refresh[q].dev] => Unwritten(q) /\ (refresh'[q] = None \/ Unwritten(q)')
    PROVE  Rest'
<1>1. Begun' = Begun /\ Rows' = Rows /\ Active' = Active /\ Pending' = Pending
  BY DEF Begun, Rows, Active, Pending
<1>2. \A p \in Refreshes : refresh'[p] # None =>
        /\ refresh[p] # None /\ refresh'[p].dev = refresh[p].dev /\ refresh'[p].home = refresh[p].home
        /\ refresh'[p].old = refresh[p].old /\ refresh'[p].new = refresh[p].new
        /\ Unwritten(p)' => Unwritten(p)
  BY DEF Unwritten
<1>3. Past'
  BY <1>1, <1>2 DEF IInv, Rest, Past
<1>4. NewInv'
  <2> SUFFICES ASSUME NEW r \in Refreshes, Unwritten(r)'
               PROVE  (/\ refresh[r].new \notin spent /\ Holding(refresh[r].new) = {}
                       /\ \A e \in Devices : jar[e] # refresh[r].new
                       /\ \A p \in Refreshes : refresh[p] # None =>
                            /\ refresh[p].old # refresh[r].new
                            /\ p # r => refresh[p].new # refresh[r].new)'
    BY DEF NewInv
  <2>1. refresh'[r] # None /\ Unwritten(r) /\ refresh'[r].new = refresh[r].new
    BY <1>2 DEF Unwritten
  <2>2. Holding(refresh[r].new)' = Holding(refresh[r].new)
    BY <1>1, <2>1 DEF Holding
  <2> QED
    BY <1>2, <2>1, <2>2 DEF IInv, Rest, NewInv
<1>5. JobInv'
  <2> SUFFICES ASSUME NEW m \in Pending'
               PROVE  (/\ job[m].token \notin spent /\ Holding(job[m].token) = {}
                       /\ \A k \in Pending : job[k].token = job[m].token => k = m
                       /\ \A p \in Refreshes : refresh[p] # None => refresh[p].new # job[m].token)'
    BY DEF JobInv
  <2>1. Holding(job[m].token)' = Holding(job[m].token)
    BY <1>1 DEF Holding
  <2> QED
    BY <1>1, <1>2, <2>1 DEF IInv, Rest, JobInv
<1>6. ExchangedTokensAreDead'
  BY <1>1 DEF IInv, Rest, ExchangedTokensAreDead
<1>7. Belongs'
  <2>1. ASSUME NEW e \in Devices, jar'[e] # None PROVE BelongsTo(jar[e], home[e])'
    BY <1>1, <2>1 DEF IInv, Rest, Belongs, BelongsTo, Holding
  <2>2. ASSUME NEW p \in Refreshes, refresh'[p] # None
        PROVE  (/\ BelongsTo(refresh[p].old, refresh[p].home) /\ BelongsTo(refresh[p].new, refresh[p].home)
                /\ refresh[p].step # "validate" => row[refresh[p].home] # Absent)'
    BY <1>1, <1>2, <2>2 DEF IInv, Rest, Belongs, BelongsTo, Holding
  <2> QED
    BY <2>1, <2>2 DEF Belongs
<1>8. Owned'
  BY <1>1, <1>2 DEF IInv, Rest, Owned
<1>9. Steady'
  <2> SUFFICES ASSUME NEW e \in Devices, single'[e]
               PROVE  (/\ \A p, r \in RefreshesOf(e) : p = r
                       /\ \A r \in RefreshesOf(e) :
                            /\ refresh[r].home = home[e]
                            /\ Unwritten(r) => Keeps(home[e], refresh[r].old)
                                               /\ jar[e] \in {None, refresh[r].old}
                            /\ ~Unwritten(r) => Keeps(home[e], refresh[r].new)
                       /\ RefreshesOf(e) = {} /\ jar[e] # None => Keeps(home[e], jar[e]))'
    BY DEF Steady
  <2>1. (/\ \A p, r \in RefreshesOf(e) : p = r
         /\ \A r \in RefreshesOf(e) :
              /\ refresh[r].home = home[e]
              /\ Unwritten(r) => Keeps(home[e], refresh[r].old)
                                 /\ jar[e] \in {None, refresh[r].old}
              /\ ~Unwritten(r) => Keeps(home[e], refresh[r].new)
         /\ RefreshesOf(e) = {} /\ jar[e] # None => Keeps(home[e], jar[e]))
    BY DEF IInv, Rest, Steady
  <2>2. CASE e = refresh[q].dev
    <3>1. RefreshesOf(e) = {q} /\ Unwritten(q)
      BY <2>1, <2>2 DEF RefreshesOf
    <3>2. CASE refresh'[q] = None
      <4>1. RefreshesOf(e)' = {}
        BY <3>1, <3>2 DEF RefreshesOf
      <4> QED
        BY <1>1, <2>1, <3>1, <4>1 DEF Keeps
    <3>3. CASE refresh'[q] # None
      <4>1. RefreshesOf(e)' = {q} /\ Unwritten(q)'
        BY <1>2, <2>2, <3>1, <3>3 DEF RefreshesOf
      <4> QED
        BY <1>1, <1>2, <2>1, <3>1, <3>3, <4>1 DEF Keeps
    <3> QED
      BY <3>2, <3>3
  <2>3. CASE e # refresh[q].dev
    <3>1. /\ RefreshesOf(e)' = RefreshesOf(e) /\ q \notin RefreshesOf(e)
          /\ \A r \in RefreshesOf(e) : refresh'[r] = refresh[r] /\ r \in Refreshes
      BY <1>2, <2>3 DEF RefreshesOf
    <3>2. \A r \in RefreshesOf(e) : Unwritten(r)' <=> Unwritten(r)
      BY <3>1 DEF Unwritten
    <3> QED
      BY <1>1, <2>1, <3>1, <3>2 DEF Keeps
  <2> QED
    BY <2>2, <2>3
<1> QED
  BY <1>3, <1>4, <1>5, <1>6, <1>7, <1>8, <1>9 DEF Rest

LEMMA MovesRest ==
    ASSUME IInv, NEW q \in Refreshes, Validate(q) \/ RotateFails(q) \/ ReplyLost(q)
    PROVE  Rest'
<1>1. CASE Validate(q)
  <2>1. /\ refresh[q] # None /\ Unwritten(q)
        /\ UNCHANGED <<sec, row, job, jar, home, single, spent>>
    BY <1>1 DEF Validate, At, Unwritten
  <2>2. CASE refresh' = [refresh EXCEPT ![q] = None]
    <3>1. refresh'[q] = None /\ \A p \in Refreshes \ {q} : refresh'[p] = refresh[p]
      BY <2>2 DEF IInv, Base, SessionsTypeOK
    <3> QED
      BY <2>1, <3>1, MovesKeep
  <2>3. CASE /\ Holding(refresh[q].old) \cap Active # {}
             /\ refresh' = [refresh EXCEPT ![q].step = "rotate"]
    <3>1. row[refresh[q].home] # Absent
      <4>1. Holding(refresh[q].old) \subseteq {refresh[q].home}
        BY <2>1 DEF IInv, Rest, Belongs, BelongsTo
      <4> QED
        BY <2>3, <4>1, RowStates DEF IInv, Base
    <3>2. /\ refresh'[q] # None /\ refresh'[q].step = "rotate" /\ refresh'[q].dev = refresh[q].dev
          /\ refresh'[q].home = refresh[q].home /\ refresh'[q].old = refresh[q].old
          /\ refresh'[q].new = refresh[q].new
          /\ \A p \in Refreshes \ {q} : refresh'[p] = refresh[p]
      BY <2>1, <2>3, StepTypes DEF IInv, Base
    <3>3. Unwritten(q)'
      BY <3>2 DEF Unwritten
    <3> QED
      BY <2>1, <3>1, <3>2, <3>3, MovesKeep
  <2> QED
    BY <1>1, <2>2, <2>3 DEF Validate
<1>2. CASE RotateFails(q)
  <2>1. /\ refresh[q] # None /\ refresh[q].step = "rotate"
        /\ refresh' = [refresh EXCEPT ![q].step = "reply"]
        /\ UNCHANGED <<sec, row, job, jar, home, spent>>
    BY <1>2 DEF RotateFails, At
  <2>2. /\ refresh'[q] # None /\ refresh'[q].step = "reply" /\ refresh'[q].dev = refresh[q].dev
        /\ refresh'[q].home = refresh[q].home /\ refresh'[q].old = refresh[q].old
        /\ refresh'[q].new = refresh[q].new
        /\ \A p \in Refreshes \ {q} : refresh'[p] = refresh[p]
    BY <2>1, StepTypes DEF IInv, Base
  <2>3. row[refresh[q].home] # Absent
    BY <2>1 DEF IInv, Rest, Belongs
  <2>4. ~Unwritten(q)'
    BY <2>2 DEF Unwritten
  <2>5. refresh[q].dev \in Devices
    BY <2>1, FlightStates, FlightTypes DEF IInv, Base
  <2>6. ~single'[refresh[q].dev] /\ \A e \in Devices : single'[e] => single[e]
    BY <1>2, <2>5 DEF RotateFails, IInv, Base, SessionsTypeOK
  <2> QED
    BY <2>1, <2>2, <2>3, <2>4, <2>6, MovesKeep
<1>3. CASE ReplyLost(q)
  <2>1. /\ refresh[q] # None /\ refresh' = [refresh EXCEPT ![q] = None]
        /\ UNCHANGED <<sec, row, job, jar, home, spent>>
    BY <1>3 DEF ReplyLost, At
  <2>2. refresh'[q] = None /\ \A p \in Refreshes \ {q} : refresh'[p] = refresh[p]
    BY <2>1 DEF IInv, Base, SessionsTypeOK
  <2>3. refresh[q].dev \in Devices
    BY <2>1, FlightStates, FlightTypes DEF IInv, Base
  <2>4. ~single'[refresh[q].dev] /\ \A e \in Devices : single'[e] => single[e]
    BY <1>3, <2>3 DEF ReplyLost, IInv, Base, SessionsTypeOK
  <2> QED
    BY <2>1, <2>2, <2>4, MovesKeep
<1> QED
  BY <1>1, <1>2, <1>3

LEMMA RotateRest ==
    ASSUME IInv, NEW q \in Refreshes, Rotate(q)
    PROVE  Rest'
<1>1. /\ refresh[q] # None /\ refresh[q].step = "rotate"
      /\ refresh' = [refresh EXCEPT ![q].step = "reply"]
      /\ UNCHANGED <<sec, version, job, expiring, jar, home, single, faults>>
  BY DEF Rotate, At
<1>2. refresh[q] \in Exchange /\ refresh[q].dev \in Devices /\ Unwritten(q)
  BY <1>1, FlightStates, FlightTypes DEF IInv, Base, Unwritten
<1>3. PICK old \in RefreshToken, new \in RefreshToken, h \in Logins :
        old = refresh[q].old /\ new = refresh[q].new /\ h = refresh[q].home
  BY <1>1, <1>2, FlightTypes, HomesBegun
<1>4. /\ refresh'[q] # None /\ refresh'[q].step = "reply" /\ refresh'[q].dev = refresh[q].dev
      /\ refresh'[q].home = h /\ refresh'[q].old = old /\ refresh'[q].new = new
      /\ \A p \in Refreshes \ {q} : refresh'[p] = refresh[p]
  BY <1>1, <1>3, StepTypes DEF IInv, Base
<1>5. /\ new \notin spent /\ Holding(new) = {} /\ old # new
      /\ \A e \in Devices : jar[e] # new
      /\ \A p \in Refreshes : refresh[p] # None => refresh[p].old # new /\ (p # q => refresh[p].new # new)
  BY <1>1, <1>2, <1>3 DEF IInv, Rest, NewInv
<1>6. /\ Holding(old) \subseteq {h} /\ row[h] # Absent /\ h \in Begun /\ h \notin Pending
      /\ \A m \in Pending : job[m].token # old /\ job[m].token # new
  BY <1>1, <1>3 DEF IInv, Base, Numbered, Rest, Belongs, BelongsTo, JobInv, Pending
<1>7. /\ \A n \in Logins : n # h \/ row[n].state # "active" \/ row[n].token # old =>
                             row'[n] = row[n]
      /\ row[h].state = "active" /\ row[h].token = old =>
           row'[h].state = "active" /\ row'[h].token = new /\ row'[h] # Absent
      /\ spent' = spent \cup {old}
  <2>1. /\ IF Holding(old) \cap Active # {} /\ Holding(new) \subseteq Holding(old) \cap Active
           THEN row' = [n \in Logins |->
                  IF n \in Holding(old) \cap Active
                  THEN [row[n] EXCEPT !.token = new, !.last = sec] ELSE row[n]]
           ELSE UNCHANGED row
        /\ spent' = spent \cup {old}
    BY <1>3, <1>5 DEF Rotate
  <2>2. h \in Holding(old) \cap Active <=> row[h].state = "active" /\ row[h].token = old
    BY DEF Holding, Active, Rows
  <2>3. CASE Holding(old) \cap Active = {}
    BY <2>1, <2>2, <2>3
  <2>4. CASE Holding(old) \cap Active # {}
    <3>1. Holding(old) \cap Active = {h} /\ row[h] \in Row
      BY <1>6, <2>4, RowStates DEF IInv, Base
    <3>2. row' = [n \in Logins |-> IF n = h
                                   THEN [row[n] EXCEPT !.token = new, !.last = sec] ELSE row[n]]
      BY <1>5, <2>1, <2>4, <3>1
    <3>3. row'[h] = [row[h] EXCEPT !.token = new, !.last = sec]
      BY <3>2
    <3>4. row'[h] \in Row /\ row'[h].state = row[h].state /\ row'[h].token = new
      BY <3>1, <3>3 DEF Row, IInv, Base, SessionsTypeOK
    <3> QED
      BY <2>1, <2>2, <3>1, <3>2, <3>4, RowTypes
  <2> QED
    BY <2>3, <2>4
<1>8. /\ Rows' = Rows /\ Active' = Active /\ Begun' = Begun /\ Pending' = Pending
      /\ \A n \in Logins : row'[n] # Absent <=> row[n] # Absent
  BY <1>1, <1>6, <1>7, RowTypes DEF Rows, Active, Begun, Pending
<1>9. /\ \A n \in Rows : row'[n].token = row[n].token \/ (n = h /\ row'[n].token = new)
      /\ \A n \in Active : row'[n].token # old
      /\ Active \subseteq Rows /\ Rows \subseteq Logins
  <2>1. Active \subseteq Rows /\ Rows \subseteq Logins
    BY DEF Active, Rows
  <2>2. \A n \in Rows : row'[n].token = row[n].token \/ (n = h /\ row'[n].token = new)
    BY <1>7, <2>1
  <2>3. ASSUME NEW n \in Active PROVE row'[n].token # old
    <3>1. row[n].token = old => n = h
      BY <1>6, <2>1 DEF Holding
    <3> QED
      BY <1>5, <1>7, <2>1, <3>1 DEF Active
  <2> QED
    BY <2>1, <2>2, <2>3
<1>10. Past'
  BY <1>1, <1>3, <1>4, <1>7, <1>8, <1>9 DEF IInv, Rest, Past
<1>11. NewInv'
  <2> SUFFICES ASSUME NEW r \in Refreshes, Unwritten(r)'
               PROVE  (/\ refresh[r].new \notin spent /\ Holding(refresh[r].new) = {}
                       /\ \A e \in Devices : jar[e] # refresh[r].new
                       /\ \A p \in Refreshes : refresh[p] # None =>
                            /\ refresh[p].old # refresh[r].new
                            /\ p # r => refresh[p].new # refresh[r].new)'
    BY DEF NewInv
  <2>1. r # q /\ refresh'[r] = refresh[r] /\ Unwritten(r) /\ refresh[r] # None
    BY <1>4 DEF Unwritten
  <2>2. refresh[r].new # new /\ refresh[r].new # old /\ Holding(refresh[r].new) = {}
    BY <1>1, <1>3, <1>5, <2>1 DEF IInv, Rest, NewInv
  <2>3. Holding(refresh[r].new)' = {}
    BY <1>8, <1>9, <2>1, <2>2 DEF Holding
  <2> QED
    BY <1>1, <1>3, <1>4, <1>7, <2>1, <2>2, <2>3 DEF IInv, Rest, NewInv
<1>12. JobInv'
  <2> SUFFICES ASSUME NEW m \in Pending'
               PROVE  (/\ job[m].token \notin spent /\ Holding(job[m].token) = {}
                       /\ \A k \in Pending : job[k].token = job[m].token => k = m
                       /\ \A p \in Refreshes : refresh[p] # None => refresh[p].new # job[m].token)'
    BY DEF JobInv
  <2>1. m \in Pending /\ job[m].token # old /\ job[m].token # new /\ Holding(job[m].token) = {}
    BY <1>6, <1>8 DEF IInv, Rest, JobInv
  <2>2. Holding(job[m].token)' = {}
    BY <1>1, <1>8, <1>9, <2>1 DEF Holding
  <2> QED
    BY <1>1, <1>3, <1>4, <1>7, <1>8, <2>1, <2>2 DEF IInv, Rest, JobInv
<1>13. ExchangedTokensAreDead'
  <2> SUFFICES ASSUME NEW n \in Active PROVE row'[n].token \notin spent'
    BY <1>8 DEF ExchangedTokensAreDead
  <2> QED
    BY <1>5, <1>7, <1>9 DEF IInv, Rest, ExchangedTokensAreDead
<1>14. Belongs'
  <2>1. ASSUME NEW e \in Devices, jar'[e] # None PROVE BelongsTo(jar[e], home[e])'
    <3>1. /\ BelongsTo(jar[e], home[e]) /\ jar'[e] = jar[e] /\ home'[e] = home[e]
          /\ jar[e] # new
      BY <1>1, <1>5, <2>1 DEF IInv, Rest, Belongs
    <3> QED
      BY <1>1, <1>8, <1>9, <3>1 DEF BelongsTo, Holding
  <2>2. ASSUME NEW p \in Refreshes, refresh'[p] # None
        PROVE  (/\ BelongsTo(refresh[p].old, refresh[p].home) /\ BelongsTo(refresh[p].new, refresh[p].home)
                /\ refresh[p].step # "validate" => row[refresh[p].home] # Absent)'
    <3>1. /\ refresh[p] # None /\ refresh'[p].old = refresh[p].old /\ refresh'[p].new = refresh[p].new
          /\ refresh'[p].home = refresh[p].home /\ refresh[p].home \in Logins
      BY <1>1, <1>3, <1>4, <2>2, HomesBegun
    <3>2. BelongsTo(refresh[p].old, refresh[p].home) /\ BelongsTo(refresh[p].new, refresh[p].home)
      BY <3>1 DEF IInv, Rest, Belongs
    <3>3. BelongsTo(refresh[p].old, refresh[p].home)'
      <4>1. refresh[p].old # new
        BY <1>5, <3>1
      <4> QED
        BY <1>1, <1>8, <1>9, <3>1, <3>2, <4>1 DEF BelongsTo, Holding
    <3>4. BelongsTo(refresh[p].new, refresh[p].home)'
      <4>1. refresh[p].new = new => refresh[p].home = h
        BY <1>3, <1>5, <3>1
      <4> QED
        BY <1>1, <1>8, <1>9, <3>1, <3>2, <4>1 DEF BelongsTo, Holding
    <3>5. refresh'[p].step # "validate" => row'[refresh'[p].home] # Absent
      BY <1>3, <1>4, <1>6, <1>8, <3>1 DEF IInv, Rest, Belongs
    <3> QED
      BY <3>3, <3>4, <3>5
  <2> QED
    BY <2>1, <2>2 DEF Belongs
<1>15. Owned'
  BY <1>1, <1>3, <1>4, <1>8 DEF IInv, Rest, Owned
<1>16. Steady'
  <2> SUFFICES ASSUME NEW e \in Devices, single'[e]
               PROVE  (/\ \A p, r \in RefreshesOf(e) : p = r
                       /\ \A r \in RefreshesOf(e) :
                            /\ refresh[r].home = home[e]
                            /\ Unwritten(r) => Keeps(home[e], refresh[r].old)
                                               /\ jar[e] \in {None, refresh[r].old}
                            /\ ~Unwritten(r) => Keeps(home[e], refresh[r].new)
                       /\ RefreshesOf(e) = {} /\ jar[e] # None => Keeps(home[e], jar[e]))'
    BY DEF Steady
  <2>1. (/\ \A p, r \in RefreshesOf(e) : p = r
         /\ \A r \in RefreshesOf(e) :
              /\ refresh[r].home = home[e]
              /\ Unwritten(r) => Keeps(home[e], refresh[r].old)
                                 /\ jar[e] \in {None, refresh[r].old}
              /\ ~Unwritten(r) => Keeps(home[e], refresh[r].new)
         /\ RefreshesOf(e) = {} /\ jar[e] # None => Keeps(home[e], jar[e]))
    BY <1>1 DEF IInv, Rest, Steady
  <2>2. CASE e = refresh[q].dev
    <3>1. RefreshesOf(e) = {q} /\ home[e] = h /\ Keeps(h, old)
      BY <1>1, <1>2, <1>3, <2>1, <2>2 DEF RefreshesOf
    <3>2. RefreshesOf(e)' = {q} /\ ~Unwritten(q)'
      BY <1>4, <2>2, <3>1 DEF RefreshesOf, Unwritten
    <3>3. Keeps(home[e], refresh[q].new)'
      BY <1>1, <1>4, <1>6, <1>7, <1>8, <3>1 DEF Keeps, Active
    <3> QED
      BY <1>1, <1>4, <3>1, <3>2, <3>3
  <2>3. CASE e # refresh[q].dev
    <3>1. /\ RefreshesOf(e)' = RefreshesOf(e) /\ q \notin RefreshesOf(e)
          /\ \A r \in RefreshesOf(e) : refresh'[r] = refresh[r] /\ r \in Refreshes
      BY <1>4, <2>3 DEF RefreshesOf
    <3>2. \A r \in RefreshesOf(e) : Unwritten(r)' <=> Unwritten(r)
      BY <3>1 DEF Unwritten
    <3>3. home[e] # h
      BY <1>1, <1>3, <2>3 DEF IInv, Rest, Owned
    <3>4. home[e] \in Active => row'[home[e]] = row[home[e]]
      BY <1>7, <1>9, <3>3
    <3> QED
      BY <1>1, <1>8, <2>1, <3>1, <3>2, <3>4 DEF Keeps
  <2> QED
    BY <2>2, <2>3
<1> QED
  BY <1>10, <1>11, <1>12, <1>13, <1>14, <1>15, <1>16 DEF Rest

LEMMA ReplyRest ==
    ASSUME IInv, NEW q \in Refreshes, Reply(q)
    PROVE  Rest'
<1>1. /\ refresh[q] # None /\ refresh[q].step = "reply" /\ ~Unwritten(q)
      /\ UNCHANGED <<sec, version, row, job, expiring, single, spent, faults>>
  BY DEF Reply, At, Unwritten
<1>2. PICK d \in Devices, new \in RefreshToken, h \in Logins :
        d = refresh[q].dev /\ new = refresh[q].new /\ h = refresh[q].home
  BY <1>1, FlightStates, FlightTypes, HomesBegun DEF IInv, Base
<1>3. /\ refresh'[q] = None /\ \A p \in Refreshes \ {q} : refresh'[p] = refresh[p]
      /\ jar'[d] = new /\ \A e \in Devices \ {d} : jar'[e] = jar[e]
      /\ home'[d] = h /\ \A e \in Devices \ {d} : home'[e] = home[e]
  BY <1>2 DEF Reply, IInv, Base, SessionsTypeOK
<1>4. Begun' = Begun /\ Rows' = Rows /\ Active' = Active /\ Pending' = Pending /\ h \in Begun
  BY <1>1, <1>2, HomesBegun DEF Begun, Rows, Active, Pending
<1>5. new # None
  BY TokenTypes
<1>6. Past'
  BY <1>1, <1>2, <1>3, <1>4 DEF IInv, Rest, Past
<1>7. NewInv'
  <2> SUFFICES ASSUME NEW r \in Refreshes, Unwritten(r)'
               PROVE  (/\ refresh[r].new \notin spent /\ Holding(refresh[r].new) = {}
                       /\ \A e \in Devices : jar[e] # refresh[r].new
                       /\ \A p \in Refreshes : refresh[p] # None =>
                            /\ refresh[p].old # refresh[r].new
                            /\ p # r => refresh[p].new # refresh[r].new)'
    BY DEF NewInv
  <2>1. r # q /\ refresh'[r] = refresh[r] /\ Unwritten(r) /\ refresh[r] # None
    BY <1>3 DEF Unwritten
  <2>2. Holding(refresh[r].new)' = Holding(refresh[r].new) /\ refresh[r].new # new
    BY <1>1, <1>2, <1>4, <2>1 DEF IInv, Rest, NewInv, Holding
  <2> QED
    BY <1>1, <1>3, <2>1, <2>2 DEF IInv, Rest, NewInv
<1>8. JobInv'
  <2> SUFFICES ASSUME NEW m \in Pending'
               PROVE  (/\ job[m].token \notin spent /\ Holding(job[m].token) = {}
                       /\ \A k \in Pending : job[k].token = job[m].token => k = m
                       /\ \A p \in Refreshes : refresh[p] # None => refresh[p].new # job[m].token)'
    BY DEF JobInv
  <2>1. Holding(job[m].token)' = Holding(job[m].token)
    BY <1>1, <1>4 DEF Holding
  <2> QED
    BY <1>1, <1>3, <1>4, <2>1 DEF IInv, Rest, JobInv
<1>9. ExchangedTokensAreDead'
  BY <1>1, <1>4 DEF IInv, Rest, ExchangedTokensAreDead
<1>10. Belongs'
  <2>1. ASSUME NEW e \in Devices, jar'[e] # None PROVE BelongsTo(jar[e], home[e])'
    <3>1. CASE e = d
      <4>1. BelongsTo(refresh[q].new, refresh[q].home)
        BY <1>1 DEF IInv, Rest, Belongs
      <4> QED
        BY <1>1, <1>2, <1>3, <1>4, <3>1, <4>1 DEF BelongsTo, Holding
    <3>2. CASE e # d
      BY <1>1, <1>3, <1>4, <2>1, <3>2 DEF IInv, Rest, Belongs, BelongsTo, Holding
    <3> QED
      BY <3>1, <3>2
  <2>2. ASSUME NEW p \in Refreshes, refresh'[p] # None
        PROVE  (/\ BelongsTo(refresh[p].old, refresh[p].home) /\ BelongsTo(refresh[p].new, refresh[p].home)
                /\ refresh[p].step # "validate" => row[refresh[p].home] # Absent)'
    BY <1>1, <1>3, <1>4, <2>2 DEF IInv, Rest, Belongs, BelongsTo, Holding
  <2> QED
    BY <2>1, <2>2 DEF Belongs
<1>11. Owned'
  <2>1. \A e \in Devices : home[e] = h => e = d
    BY <1>1, <1>2 DEF IInv, Rest, Owned
  <2>2. (\A e \in Devices : home[e] \in Begun \cup {0})'
    BY <1>3, <1>4 DEF IInv, Rest, Owned
  <2>3. (\A e, f \in Devices : home[e] = home[f] /\ home[e] # 0 => e = f)'
    BY <1>3, <2>1 DEF IInv, Rest, Owned
  <2>4. (\A p \in Refreshes, e \in Devices : refresh[p] # None /\ refresh[p].home = home[e] => refresh[p].dev = e)'
    BY <1>1, <1>2, <1>3 DEF IInv, Rest, Owned
  <2>5. (\A p, r \in Refreshes : refresh[p] # None /\ refresh[r] # None /\ refresh[p].home = refresh[r].home
                             => refresh[p].dev = refresh[r].dev)'
    BY <1>3 DEF IInv, Rest, Owned
  <2> QED
    BY <2>2, <2>3, <2>4, <2>5 DEF Owned
<1>12. Steady'
  <2> SUFFICES ASSUME NEW e \in Devices, single'[e]
               PROVE  (/\ \A p, r \in RefreshesOf(e) : p = r
                       /\ \A r \in RefreshesOf(e) :
                            /\ refresh[r].home = home[e]
                            /\ Unwritten(r) => Keeps(home[e], refresh[r].old)
                                               /\ jar[e] \in {None, refresh[r].old}
                            /\ ~Unwritten(r) => Keeps(home[e], refresh[r].new)
                       /\ RefreshesOf(e) = {} /\ jar[e] # None => Keeps(home[e], jar[e]))'
    BY DEF Steady
  <2>1. (/\ \A p, r \in RefreshesOf(e) : p = r
         /\ \A r \in RefreshesOf(e) :
              /\ refresh[r].home = home[e]
              /\ Unwritten(r) => Keeps(home[e], refresh[r].old)
                                 /\ jar[e] \in {None, refresh[r].old}
              /\ ~Unwritten(r) => Keeps(home[e], refresh[r].new)
         /\ RefreshesOf(e) = {} /\ jar[e] # None => Keeps(home[e], jar[e]))
    BY <1>1 DEF IInv, Rest, Steady
  <2>2. CASE e = d
    <3>1. RefreshesOf(e) = {q} /\ home[e] = h /\ Keeps(h, new)
      BY <1>1, <1>2, <2>1, <2>2 DEF RefreshesOf
    <3>2. RefreshesOf(e)' = {}
      BY <1>3, <3>1 DEF RefreshesOf
    <3> QED
      BY <1>1, <1>3, <1>4, <2>2, <3>1, <3>2 DEF Keeps
  <2>3. CASE e # d
    <3>1. /\ RefreshesOf(e)' = RefreshesOf(e) /\ q \notin RefreshesOf(e)
          /\ \A r \in RefreshesOf(e) : refresh'[r] = refresh[r] /\ r \in Refreshes
          /\ jar'[e] = jar[e] /\ home'[e] = home[e]
      BY <1>2, <1>3, <2>3 DEF RefreshesOf
    <3>2. \A r \in RefreshesOf(e) : Unwritten(r)' <=> Unwritten(r)
      BY <3>1 DEF Unwritten
    <3> QED
      BY <1>1, <1>4, <2>1, <3>1, <3>2 DEF Keeps
  <2> QED
    BY <2>2, <2>3
<1> QED
  BY <1>6, <1>7, <1>8, <1>9, <1>10, <1>11, <1>12 DEF Rest

----------------------------------------------------------------------------
(* The theorems about tokens                                                *)

LEMMA IInvInit == SessionsInit => IInv
<1> SUFFICES ASSUME SessionsInit PROVE IInv
  OBVIOUS
<1>1. Base
  BY BaseInit
<1>2. /\ Begun = {} /\ Rows = {} /\ Pending = {} /\ Active = {} /\ spent = {}
      /\ \A d \in Devices : jar[d] = None /\ home[d] = 0
      /\ \A q \in Refreshes : refresh[q] = None
  BY RowTypes DEF SessionsInit, Begun, Rows, Pending, Active
<1>3. Past /\ NewInv /\ JobInv /\ ExchangedTokensAreDead /\ Belongs /\ Owned
  BY <1>2 DEF Past, NewInv, JobInv, ExchangedTokensAreDead, Belongs, Owned, Unwritten
<1>4. Steady
  BY <1>2 DEF Steady, RefreshesOf
<1> QED
  BY <1>1, <1>3, <1>4 DEF IInv, Rest

LEMMA IInvStep ==
    ASSUME SameSecond = FALSE
    PROVE  IInv /\ [SessionsNext]_sessionVars => IInv'
<1> SUFFICES ASSUME IInv, [SessionsNext]_sessionVars PROVE IInv'
  OBVIOUS
<1>1. Base'
  BY BaseStep DEF IInv
<1>2. Rest'
  <2>1. ASSUME NEW n \in Logins,
               \/ \E d \in Devices : Login(d, n)
               \/ Upsert(n) \/ ReadLimit(n) \/ Evict(n) \/ SessionFails(n)
        PROVE  Rest'
    BY <1>1, <2>1, LoginRest, UpsertRest, JobEndsRest
  <2>2. ASSUME NEW q \in Refreshes,
               \/ \E d \in Devices : RefreshBegin(q, d)
               \/ Validate(q) \/ Rotate(q) \/ RotateFails(q) \/ Reply(q) \/ ReplyLost(q)
        PROVE  Rest'
    BY <2>2, RefreshBeginRest, MovesRest, RotateRest, ReplyRest
  <2> QED
    BY <1>1, <2>1, <2>2, EndingRest DEF SessionsNext
<1> QED
  BY <1>1, <1>2 DEF IInv

\* All of the inductive invariant, when no two tokens are signed in one second.
THEOREM Invariance ==
    ASSUME SameSecond = FALSE
    PROVE  SessionsSpec => []IInv
BY IInvInit, IInvStep, PTL DEF SessionsSpec

\* A token that a refresh has exchanged is in no active row, so nobody refreshes
\* with it again, when no two tokens are signed in one second.
THEOREM ExchangedTokensStayDead ==
    ASSUME SameSecond = FALSE
    PROVE  SessionsSpec => []ExchangedTokensAreDead
<1>1. IInv => ExchangedTokensAreDead
  BY DEF IInv, Rest
<1> QED
  BY <1>1, Invariance, PTL

\* A device that refreshes one at a time and gets its answers holds the token of
\* its session, when no two tokens are signed in one second.
THEOREM SteadyDevicesStayIn ==
    ASSUME SameSecond = FALSE
    PROVE  SessionsSpec => []SteadyDevicesKeepTheirSession
<1>1. IInv => SteadyDevicesKeepTheirSession
  BY DEF IInv, Rest, Steady, Keeps, SteadyDevicesKeepTheirSession
<1> QED
  BY <1>1, Invariance, PTL

\* No step makes an ended session active.
LEMMA EndedStays ==
    ASSUME IInv, [SessionsNext]_sessionVars, NEW n \in Logins, row[n].state \in {"ended", "gone"}
    PROVE  row'[n].state \in {"ended", "gone"}
<1>1. ASSUME NEW S, End(S) PROVE row'[n].state \in {"ended", "gone"}
  <2>1. /\ \A m \in Rows \cap S : row'[m].state = "ended"
        /\ \A m \in Logins \ (Rows \cap S) : row'[m] = row[m]
    BY <1>1, EndTypes DEF IInv, Base
  <2> QED
    BY <2>1
<1>2. CASE UNCHANGED row
  BY <1>2
<1>3. ASSUME NEW m \in Logins, Upsert(m) PROVE row'[n].state \in {"ended", "gone"}
  <2>1. m \in Pending /\ row[m] = Absent
    BY <1>3 DEF Upsert, IInv, Base, Numbered, Pending
  <2>2. Holding(job[m].token) = {} /\ n # m
    BY <2>1, RowTypes DEF IInv, Rest, JobInv
  <2>3. row' = [row EXCEPT ![m] = [state |-> "active", token |-> job[m].token, last |-> sec]]
    BY <1>3, <2>2 DEF Upsert
  <2>4. row'[n] = row[n]
    BY <2>2, <2>3 DEF IInv, Base, SessionsTypeOK
  <2> QED
    BY <2>4
<1>4. ASSUME NEW m \in Logins, SessionFails(m) \/ Clean(m)
      PROVE  row'[n].state \in {"ended", "gone"}
  <2>1. row'[n] \in {row[n], Gone}
    BY <1>4 DEF SessionFails, Clean, IInv, Base, SessionsTypeOK
  <2> QED
    BY <2>1, RowTypes
<1>5. ASSUME NEW q \in Refreshes, Rotate(q) PROVE row'[n].state \in {"ended", "gone"}
  <2>1. n \notin Active
    BY DEF Active
  <2>2. row'[n] = row[n]
    BY <1>5, <2>1 DEF Rotate
  <2> QED
    BY <2>2
<1>6. ASSUME NEW m \in Logins,
             \/ \E d \in Devices : Login(d, m) \/ Terminate(d, m)
             \/ Upsert(m) \/ ReadLimit(m) \/ Evict(m) \/ SessionFails(m)
             \/ ForceLogout(m) \/ Clean(m)
      PROVE  row'[n].state \in {"ended", "gone"}
  <2>1. CASE \E d \in Devices : Login(d, m)
    BY <1>2, <2>1 DEF Login
  <2>2. CASE (\E d \in Devices : Terminate(d, m)) \/ Evict(m) \/ ForceLogout(m)
    BY <1>1, <2>2 DEF Terminate, Evict, ForceLogout
  <2>3. CASE ReadLimit(m)
    BY <1>2, <2>3 DEF ReadLimit
  <2> QED
    BY <1>3, <1>4, <1>6, <2>1, <2>2, <2>3
<1>7. ASSUME NEW q \in Refreshes,
             \/ \E d \in Devices : RefreshBegin(q, d)
             \/ Validate(q) \/ Rotate(q) \/ RotateFails(q) \/ Reply(q) \/ ReplyLost(q)
      PROVE  row'[n].state \in {"ended", "gone"}
  <2>1. CASE \/ \E d \in Devices : RefreshBegin(q, d)
             \/ Validate(q) \/ RotateFails(q) \/ Reply(q) \/ ReplyLost(q)
    BY <1>2, <2>1 DEF RefreshBegin, Validate, RotateFails, Reply, ReplyLost
  <2> QED
    BY <1>5, <1>7, <2>1
<1>8. CASE ExpireAll
  BY <1>1, <1>2, <1>8 DEF ExpireAll
<1>9. CASE (\E d \in Devices : LogoutDevice(d)) \/ UNCHANGED sessionVars
  BY <1>2, <1>9 DEF LogoutDevice, sessionVars
<1> QED
  BY <1>6, <1>7, <1>8, <1>9 DEF SessionsNext

\* A device whose session was ended stays out until it logs in again, whatever
\* refresh or createSession is under way, when no two tokens are signed in one
\* second.
THEOREM EndedDevicesStayOut ==
    ASSUME SameSecond = FALSE
    PROVE  SessionsSpec => EndedDevicesCannotRefresh
<1> DEFINE A == \A d \in Devices :
                  (Out(d) /\ jar'[d] # None /\ home'[d] = home[d])
                      => Out(d)' /\ (Holding(jar[d]) \cap Active = {})'
<1>1. ASSUME IInv, IInv', [SessionsNext]_sessionVars PROVE A
  <2> SUFFICES ASSUME NEW d \in Devices, Out(d), jar'[d] # None, home'[d] = home[d]
               PROVE  Out(d)' /\ (Holding(jar[d]) \cap Active = {})'
    OBVIOUS
  <2>1. home[d] \in Logins
    BY <1>1, HomesBegun DEF Out
  <2>2. row'[home[d]].state \in {"ended", "gone"}
    BY <1>1, <2>1, EndedStays DEF Out
  <2>3. (Holding(jar[d]) \subseteq {home[d]})'
    BY <1>1 DEF IInv, Rest, Belongs, BelongsTo
  <2>4. (home[d] \notin Active)'
    BY <2>2 DEF Active
  <2>5. Out(d)'
    BY <2>2 DEF Out
  <2> QED
    BY <2>3, <2>4, <2>5
<1>2. IInv /\ IInv' /\ [SessionsNext]_sessionVars => [A]_sessionVars
  BY <1>1
<1> QED
  BY <1>2, Invariance, PTL DEF SessionsSpec, EndedDevicesCannotRefresh

=============================================================================
