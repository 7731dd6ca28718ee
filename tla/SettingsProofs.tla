--------------------------- MODULE SettingsProofs ---------------------------
(***************************************************************************)
(* Proofs about what administrators set while the server runs: the copies  *)
(* that Caches keeps of rules and settings, for any number of requests in  *)
(* flight, any validity, any query time and any bounds; and the limiters   *)
(* that RateLimits builds from rows, for any limits and administrators.    *)
(***************************************************************************)
EXTENDS Caches, RateLimits, FiniteSetTheorems, FunctionTheorems, TLAPS

----------------------------------------------------------------------------
(* The copies: the inductive invariant                                      *)

\* The settings are loaded before the server answers, and never dropped.
SettingsLoaded == kind = "settings" => cache # None

\* No load has been on its way for longer than QueryTime; what it was answered
\* was not replaced before it was sent.
LoadsAreYoung ==
    \A q \in Slots : req[q] # None =>
        /\ now - req[q].sent <= QueryTime
        /\ req[q].at = "fill" =>
             req[q].ver = ver \/ req[q].sent <= ended[req[q].ver]

\* A copy was not replaced before its query was sent.
CopyIsYoung ==
    (cache # None /\ cache.ver # ver) =>
        /\ kind = "ip" => cache.stamp <= ended[cache.ver]
        /\ kind = "maintenance" => cache.stamp <= ended[cache.ver] + QueryTime

\* Whoever must drop an outdated copy, or load it again, is on the way.
CopyIsWatched ==
    (cache # None /\ cache.ver # ver) =>
        \/ cache.late
        \/ \E q \in Slots : /\ req[q] # None /\ req[q].ver = ver
                            /\ req[q].at = "saved" \/ kind = "settings"

IInv == TypeOK /\ SettingsLoaded /\ LoadsAreYoung /\ CopyIsYoung /\ CopyIsWatched

----------------------------------------------------------------------------
(* Types                                                                    *)

LEMMA InitInv == Init => IInv
<1> SUFFICES ASSUME Init PROVE IInv
  OBVIOUS
<1>1. 0 \in 0 .. MaxVer /\ 0 \in 0 .. MaxTime /\ MaxVer \in Nat
  BY CachesAssumption
<1>2. cache \in Copy \cup {None}
  BY <1>1 DEF Init, Copy
<1>3. TypeOK
  BY <1>1, <1>2 DEF Init, TypeOK
<1>4. SettingsLoaded
  BY DEF Init, SettingsLoaded, None
<1>5. LoadsAreYoung
  BY DEF Init, LoadsAreYoung
<1>6. cache # None => cache.ver = ver
  BY DEF Init
<1> QED
  BY <1>3, <1>4, <1>5, <1>6 DEF IInv, CopyIsYoung, CopyIsWatched

LEMMA SetType ==
    ASSUME TypeOK, NEW q \in Slots, NEW w \in Work, Set(q, w)
    PROVE  /\ req' \in [Slots -> Work \cup {None}]
           /\ req'[q] = w
           /\ \A p \in Slots \ {q} : req'[p] = req[p]
BY DEF TypeOK, Set

LEMMA ClearType ==
    ASSUME TypeOK, NEW q \in Slots, Set(q, None)
    PROVE  /\ req' \in [Slots -> Work \cup {None}]
           /\ req'[q] = None
           /\ \A p \in Slots \ {q} : req'[p] = req[p]
BY DEF TypeOK, Set

LEMMA WorkType ==
    ASSUME TypeOK, NEW q \in Slots, req[q] # None
    PROVE  /\ req[q] \in Work
           /\ req[q].at \in {"saved", "query", "fill"}
           /\ req[q].sent \in 0 .. MaxTime /\ req[q].sent <= now
           /\ req[q].ver \in 0 .. MaxVer /\ req[q].ver <= ver
BY DEF TypeOK, Work

LEMMA CopyType ==
    ASSUME TypeOK, cache # None
    PROVE  /\ cache \in Copy
           /\ cache.ver \in 0 .. MaxVer /\ cache.ver <= ver
           /\ cache.stamp \in 0 .. MaxTime /\ cache.stamp <= now
           /\ cache.late \in BOOLEAN
BY DEF TypeOK, Copy

\* The numbers of a state.
LEMMA Numbers ==
    ASSUME TypeOK
    PROVE  /\ MaxVer \in Nat /\ MaxTime \in Nat /\ TTL \in Nat /\ QueryTime \in Nat
           /\ now \in Nat /\ now <= MaxTime /\ ver \in Nat /\ ver <= MaxVer
           /\ now \in 0 .. MaxTime /\ ver \in 0 .. MaxVer
           /\ \A v \in 0 .. MaxVer : ended[v] \in Nat /\ ended[v] <= now
BY CachesAssumption DEF TypeOK

----------------------------------------------------------------------------
(* The steps                                                                *)

\* A slot that sends a query, or is given up, disturbs nothing but itself.
LEMMA MissKeeps ==
    ASSUME IInv, NEW q \in Slots, Miss(q)
    PROVE  IInv'
<1> DEFINE w == [at |-> "query", sent |-> now, ver |-> ver]
<1>1. TypeOK
  BY DEF IInv
<1>2. w \in Work
  BY <1>1, Numbers DEF Work
<1>3. /\ Set(q, w) /\ req[q] = None /\ kind # "settings"
      /\ kind' = kind /\ now' = now /\ ver' = ver /\ ended' = ended /\ cache' = cache
  BY DEF Miss
<1> HIDE DEF w
<1>4. /\ req' \in [Slots -> Work \cup {None}] /\ req'[q] = w
      /\ \A p \in Slots \ {q} : req'[p] = req[p]
  BY <1>1, <1>2, <1>3, SetType
<1>5. w.at = "query" /\ w.sent = now /\ w.ver = ver
  BY DEF w
<1>6. TypeOK'
  BY <1>1, <1>3, <1>4, <1>5, Numbers DEF TypeOK
<1>7. LoadsAreYoung'
  BY <1>1, <1>3, <1>4, <1>5, Numbers DEF IInv, LoadsAreYoung
<1>8. CopyIsWatched'
  BY <1>3, <1>4 DEF IInv, CopyIsWatched
<1> QED
  BY <1>3, <1>6, <1>7, <1>8 DEF IInv, SettingsLoaded, CopyIsYoung

LEMMA AnswerKeeps ==
    ASSUME IInv, NEW q \in Slots, Answer(q)
    PROVE  IInv'
<1> DEFINE w == [req[q] EXCEPT !.at = "fill", !.ver = ver]
<1>1. TypeOK /\ req[q] # None
  BY DEF IInv, Answer
<1>2. /\ w \in Work /\ w.at = "fill" /\ w.ver = ver /\ w.sent = req[q].sent
  BY <1>1, WorkType, Numbers DEF Work
<1>3. /\ Set(q, w) /\ req[q].at = "query"
      /\ kind' = kind /\ now' = now /\ ver' = ver /\ ended' = ended /\ cache' = cache
  BY DEF Answer
<1> HIDE DEF w
<1>4. /\ req' \in [Slots -> Work \cup {None}] /\ req'[q] = w
      /\ \A p \in Slots \ {q} : req'[p] = req[p]
  BY <1>1, <1>2, <1>3, SetType
<1>5. w # None
  BY <1>2 DEF Work, None
<1>6. TypeOK'
  BY <1>1, <1>2, <1>3, <1>4, WorkType, Numbers DEF TypeOK
<1>7. LoadsAreYoung'
  BY <1>1, <1>2, <1>3, <1>4 DEF IInv, LoadsAreYoung
<1>8. CopyIsWatched'
  BY <1>2, <1>3, <1>4, <1>5 DEF IInv, CopyIsWatched
<1> QED
  BY <1>3, <1>6, <1>7, <1>8 DEF IInv, SettingsLoaded, CopyIsYoung

LEMMA StoreKeeps ==
    ASSUME IInv, NEW q \in Slots, Store(q)
    PROVE  IInv'
<1> DEFINE late == req[q].ver # ver
           c == [ver |-> req[q].ver, stamp |-> Stamp(req[q]), late |-> late]
<1>1. TypeOK /\ req[q] # None /\ req[q].at = "fill"
  BY DEF IInv, Store
<1>2. /\ Set(q, None) /\ cache' = c
      /\ kind' = kind /\ now' = now /\ ver' = ver /\ ended' = ended
  BY DEF Store
<1>3. late \in BOOLEAN
  OBVIOUS
<1>4. Stamp(req[q]) \in 0 .. MaxTime /\ Stamp(req[q]) <= now
  BY <1>1, WorkType, Numbers DEF Stamp
<1>5. c \in Copy /\ c.ver = req[q].ver /\ c.stamp = Stamp(req[q]) /\ c.late = late
  <2> HIDE DEF late
  <2> QED
    BY <1>1, <1>3, <1>4, WorkType DEF Copy
<1>6. c # None
  BY DEF None
<1> HIDE DEF c
<1>7. /\ req' \in [Slots -> Work \cup {None}] /\ req'[q] = None
      /\ \A p \in Slots \ {q} : req'[p] = req[p]
  BY <1>1, <1>2, ClearType
<1>8. TypeOK'
  BY <1>1, <1>2, <1>4, <1>5, <1>7, WorkType DEF TypeOK
<1>9. LoadsAreYoung'
  BY <1>1, <1>2, <1>7 DEF IInv, LoadsAreYoung
<1>10. CopyIsYoung'
  <2>1. req[q].ver = ver \/ req[q].sent <= ended[req[q].ver]
    BY <1>1 DEF IInv, LoadsAreYoung
  <2>2. now - req[q].sent <= QueryTime
    BY <1>1 DEF IInv, LoadsAreYoung
  <2>3. CASE req[q].ver = ver
    BY <1>2, <1>5, <2>3 DEF CopyIsYoung
  <2>4. CASE kind = "ip" /\ req[q].sent <= ended[req[q].ver]
    BY <1>2, <1>5, <2>4 DEF CopyIsYoung, Stamp
  <2>5. CASE kind # "ip" /\ req[q].sent <= ended[req[q].ver]
    <3>1. now <= ended[req[q].ver] + QueryTime
      BY <1>1, <2>2, <2>5, WorkType, Numbers
    <3> QED
      BY <1>2, <1>5, <2>5, <3>1 DEF CopyIsYoung, Stamp
  <2> QED
    BY <2>1, <2>3, <2>4, <2>5
<1>11. CopyIsWatched'
  BY <1>2, <1>5 DEF CopyIsWatched
<1> QED
  BY <1>2, <1>6, <1>8, <1>9, <1>10, <1>11 DEF IInv, SettingsLoaded

LEMMA FailsKeeps ==
    ASSUME IInv, NEW q \in Slots, Fails(q)
    PROVE  IInv'
<1>1. TypeOK /\ req[q] # None /\ req[q].at = "query"
  BY DEF IInv, Fails
<1>2. /\ Set(q, None)
      /\ kind' = kind /\ now' = now /\ ver' = ver /\ ended' = ended
      /\ cache' = IF kind = "settings" THEN [cache EXCEPT !.late = TRUE] ELSE cache
  BY DEF Fails
<1>3. /\ req' \in [Slots -> Work \cup {None}] /\ req'[q] = None
      /\ \A p \in Slots \ {q} : req'[p] = req[p]
  BY <1>1, <1>2, ClearType
<1>4. LoadsAreYoung'
  BY <1>2, <1>3 DEF IInv, LoadsAreYoung
<1>5. CASE kind = "settings"
  <2>1. cache # None
    BY <1>5 DEF IInv, SettingsLoaded
  <2>2. /\ cache' \in Copy /\ cache'.ver = cache.ver /\ cache'.stamp = cache.stamp
        /\ cache'.late = TRUE
    BY <1>1, <1>2, <1>5, <2>1, CopyType DEF Copy
  <2>3. cache' # None
    BY <2>2 DEF Copy, None
  <2>4. TypeOK'
    BY <1>1, <1>2, <1>3, <2>1, <2>2, CopyType DEF TypeOK
  <2> QED
    BY <1>2, <1>4, <1>5, <2>2, <2>3, <2>4
    DEF IInv, SettingsLoaded, CopyIsYoung, CopyIsWatched
<1>6. CASE kind # "settings"
  <2>1. TypeOK'
    BY <1>1, <1>2, <1>3, <1>6 DEF TypeOK
  <2>2. CopyIsWatched'
    BY <1>1, <1>2, <1>3, <1>6 DEF IInv, CopyIsWatched
  <2> QED
    BY <1>2, <1>4, <1>6, <2>1, <2>2 DEF IInv, SettingsLoaded, CopyIsYoung
<1> QED
  BY <1>5, <1>6

LEMMA SaveKeeps ==
    ASSUME IInv, NEW q \in Slots, Save(q)
    PROVE  IInv'
<1> DEFINE w == [at |-> "saved", sent |-> now, ver |-> ver + 1]
<1>1. TypeOK /\ req[q] = None /\ ver < MaxVer
  BY DEF IInv, Save
<1>2. w \in Work /\ w.at = "saved" /\ w.sent = now /\ w.ver = ver + 1
  BY <1>1, Numbers DEF Work
<1>3. w # None
  BY DEF None
<1>4. /\ Set(q, w) /\ ver' = ver + 1 /\ ended' = [ended EXCEPT ![ver] = now]
      /\ kind' = kind /\ now' = now /\ cache' = cache
  BY DEF Save
<1> HIDE DEF w
<1>5. /\ req' \in [Slots -> Work \cup {None}] /\ req'[q] = w
      /\ \A p \in Slots \ {q} : req'[p] = req[p]
  BY <1>1, <1>2, <1>4, SetType
<1>6. /\ ended' \in [0 .. MaxVer -> 0 .. now]
      /\ ended'[ver] = now
      /\ \A v \in 0 .. MaxVer \ {ver} : ended'[v] = ended[v]
  BY <1>1, <1>4, Numbers DEF TypeOK
<1>7. TypeOK'
  <2>1. ver' \in 0 .. MaxVer /\ ver < ver'
    BY <1>1, <1>4, Numbers
  <2>2. cache' # None => cache'.ver <= ver' /\ cache'.stamp <= now'
    BY <1>1, <1>4, CopyType, Numbers
  <2>3. \A p \in Slots : req'[p] # None => req'[p].ver <= ver' /\ req'[p].sent <= now'
    BY <1>1, <1>2, <1>4, <1>5, WorkType, Numbers
  <2> QED
    BY <1>1, <1>4, <1>5, <1>6, <2>1, <2>2, <2>3 DEF TypeOK
\* The version that was current ends now, which is after every query was sent.
<1>8. LoadsAreYoung'
  <2> SUFFICES ASSUME NEW p \in Slots, req'[p] # None
               PROVE  /\ now - req'[p].sent <= QueryTime
                      /\ req'[p].at = "fill" =>
                           req'[p].ver = ver' \/ req'[p].sent <= ended'[req'[p].ver]
    BY <1>4 DEF LoadsAreYoung
  <2>1. CASE p = q
    BY <1>1, <1>2, <1>5, <2>1, Numbers
  <2>2. CASE p # q
    <3>1. req'[p] = req[p]
      BY <1>5, <2>2
    <3> QED
      BY <1>1, <1>6, <3>1, WorkType, Numbers DEF IInv, LoadsAreYoung
  <2> QED
    BY <2>1, <2>2
<1>9. CopyIsYoung'
  <2> SUFFICES ASSUME cache # None
               PROVE  /\ kind = "ip" => cache.stamp <= ended'[cache.ver]
                      /\ kind = "maintenance" => cache.stamp <= ended'[cache.ver] + QueryTime
    BY <1>4 DEF CopyIsYoung
  <2>1. CASE cache.ver = ver
    <3>1. cache.stamp \in Nat /\ cache.stamp <= now
      BY <1>1, CopyType
    <3> QED
      BY <1>1, <1>6, <2>1, <3>1, Numbers
  <2>2. CASE cache.ver # ver
    <3>1. ended'[cache.ver] = ended[cache.ver]
      BY <1>1, <1>6, <2>2, CopyType
    <3> QED
      BY <2>2, <3>1 DEF IInv, CopyIsYoung
  <2> QED
    BY <2>1, <2>2
<1>10. CopyIsWatched'
  BY <1>2, <1>3, <1>4, <1>5 DEF CopyIsWatched
<1> QED
  BY <1>4, <1>7, <1>8, <1>9, <1>10 DEF IInv, SettingsLoaded

LEMMA AfterSaveKeeps ==
    ASSUME IInv, NEW q \in Slots, AfterSave(q)
    PROVE  IInv'
<1>1. /\ TypeOK /\ req[q] # None /\ req[q].at = "saved"
      /\ kind' = kind /\ now' = now /\ ver' = ver /\ ended' = ended
  BY DEF IInv, AfterSave
<1>2. CASE kind = "settings"
  <2> DEFINE w == [req[q] EXCEPT !.at = "query", !.sent = now]
  <2>1. w \in Work /\ w.at = "query" /\ w.sent = now /\ w.ver = req[q].ver
    BY <1>1, WorkType, Numbers DEF Work
  <2>2. Set(q, w) /\ cache' = cache
    BY <1>2 DEF AfterSave
  <2>3. w # None
    BY <2>1 DEF Work, None
  <2> HIDE DEF w
  <2>4. /\ req' \in [Slots -> Work \cup {None}] /\ req'[q] = w
        /\ \A p \in Slots \ {q} : req'[p] = req[p]
    BY <1>1, <2>1, <2>2, SetType
  <2>5. TypeOK'
    BY <1>1, <2>1, <2>2, <2>4, WorkType, Numbers DEF TypeOK
  <2>6. LoadsAreYoung'
    BY <1>1, <2>1, <2>4, Numbers DEF IInv, LoadsAreYoung
  <2>7. CopyIsWatched'
    BY <1>1, <1>2, <2>1, <2>2, <2>3, <2>4 DEF IInv, CopyIsWatched
  <2> QED
    BY <1>1, <2>2, <2>5, <2>6, <2>7 DEF IInv, SettingsLoaded, CopyIsYoung
<1>3. CASE kind # "settings"
  <2>1. Set(q, None) /\ cache' = None
    BY <1>3 DEF AfterSave
  <2>2. /\ req' \in [Slots -> Work \cup {None}] /\ req'[q] = None
        /\ \A p \in Slots \ {q} : req'[p] = req[p]
    BY <1>1, <2>1, ClearType
  <2>3. TypeOK'
    BY <1>1, <2>1, <2>2 DEF TypeOK
  <2>4. LoadsAreYoung'
    BY <1>1, <2>2 DEF IInv, LoadsAreYoung
  <2> QED
    BY <1>1, <1>3, <2>1, <2>3, <2>4 DEF IInv, SettingsLoaded, CopyIsYoung, CopyIsWatched
<1> QED
  BY <1>2, <1>3

LEMMA TickKeeps ==
    ASSUME IInv, Tick
    PROVE  IInv'
<1>1. /\ TypeOK /\ now < MaxTime /\ now' = now + 1
      /\ kind' = kind /\ ver' = ver /\ ended' = ended /\ cache' = cache /\ req' = req
      /\ \A q \in Slots : req[q] # None => now - req[q].sent < QueryTime
  BY DEF IInv, Tick
<1>2. now' \in 0 .. MaxTime /\ now < now'
  BY <1>1, Numbers
<1>3. ended' \in [0 .. MaxVer -> 0 .. now']
  BY <1>1, <1>2, Numbers DEF TypeOK
<1>4. TypeOK'
  <2>1. cache # None => cache.stamp <= now'
    BY <1>1, <1>2, CopyType, Numbers
  <2>2. \A q \in Slots : req[q] # None => req[q].sent <= now'
    BY <1>1, <1>2, WorkType, Numbers
  <2> QED
    BY <1>1, <1>2, <1>3, <2>1, <2>2 DEF TypeOK
<1>5. LoadsAreYoung'
  BY <1>1, WorkType, Numbers DEF IInv, LoadsAreYoung
<1> QED
  BY <1>1, <1>4, <1>5 DEF IInv, SettingsLoaded, CopyIsYoung, CopyIsWatched

LEMMA NextInv == IInv /\ [Next]_vars => IInv'
<1> SUFFICES ASSUME IInv, [Next]_vars PROVE IInv'
  OBVIOUS
<1>1. ASSUME NEW q \in Slots,
             Miss(q) \/ Answer(q) \/ Store(q) \/ Fails(q) \/ Save(q) \/ AfterSave(q)
      PROVE  IInv'
  BY <1>1, MissKeeps, AnswerKeeps, StoreKeeps, FailsKeeps, SaveKeeps, AfterSaveKeeps
<1>2. CASE Tick
  BY <1>2, TickKeeps
<1>3. CASE UNCHANGED vars
  BY <1>3 DEF vars, IInv, TypeOK, SettingsLoaded, LoadsAreYoung, CopyIsYoung, CopyIsWatched
<1> QED
  BY <1>1, <1>2, <1>3 DEF Next

\* The inductive invariant.
THEOREM Invariance == Spec => []IInv
BY InitInv, NextInv, PTL DEF Spec

----------------------------------------------------------------------------
(* The theorems about the copies                                            *)

\* The copies, the requests and the versions they carry stay what they are
\* declared to be.
THEOREM TypesHold == Spec => []TypeOK
<1>1. IInv => TypeOK
  BY DEF IInv
<1> QED
  BY <1>1, Invariance, PTL

\* A copy of the IP rules or of the maintenance mode is applied no longer than
\* its validity (and one query) after it was replaced, even by a load that had
\* crossed the save that replaced it.
THEOREM OldRulesDoExpire == Spec => []OldRulesExpire
<1>1. IInv => OldRulesExpire
  <2> SUFFICES ASSUME IInv, Valid(cache)
               PROVE  /\ kind = "ip" => Age(cache.ver) < TTL
                      /\ kind = "maintenance" => Age(cache.ver) <= TTL + QueryTime
    BY DEF OldRulesExpire
  <2>1. TypeOK /\ cache # None /\ TTL \in Nat \ {0}
    BY CachesAssumption DEF IInv, Valid
  <2>2. CASE cache.ver = ver
    BY <2>1, <2>2, Numbers DEF Age
  <2>3. CASE cache.ver # ver
    <3>1. /\ cache.ver \in 0 .. MaxVer /\ cache.stamp \in Nat
          /\ ended[cache.ver] \in Nat /\ now \in Nat /\ QueryTime \in Nat
      BY <2>1, CopyType, Numbers
    <3>2. CASE kind = "ip"
      BY <2>1, <2>3, <3>1, <3>2 DEF IInv, CopyIsYoung, Valid, Age
    <3>3. CASE kind = "maintenance"
      BY <2>1, <2>3, <3>1, <3>3 DEF IInv, CopyIsYoung, Valid, Age
    <3> QED
      BY <3>2, <3>3
  <2> QED
    BY <2>2, <2>3
<1> QED
  BY <1>1, Invariance, PTL

\* Nothing but a save still on its way, a load that had crossed a save, or a
\* failed load leaves an outdated copy in force.
THEOREM SavesDoTakeEffect == Spec => []SavesTakeEffect
<1>1. IInv => SavesTakeEffect
  BY DEF IInv, CopyIsWatched, SavesTakeEffect, Valid
<1> QED
  BY <1>1, Invariance, PTL

----------------------------------------------------------------------------
(* The limits: the inductive invariant                                      *)

\* A toggle under way has a row to write: what deletes it stops the toggle.
TogglesHaveRows == \A j \in Jobs : job[j] \in Toggle => row[job[j].key] # Absent

\* rows, as a refresh has read them, are right about the limit k.
Seen(rows, k) == IF k \in Limiting THEN rows[k] = row[k] ELSE rows[k] = Absent

\* No refresh under way has old news of a limit that is not dirty ...
NewsIsGood ==
    \A j \in Jobs : job[j] \in Loaded => \A k \in Keys \ dirty : Seen(job[j].rows, k)

\* ... and what the map says of it is what its row says.
MapIsGood ==
    \A k \in Keys \ dirty : k \in Cached => k \in Limiting /\ limiters[k].limit = row[k].limit

LimitsInv == LimitsTypeOK /\ TogglesHaveRows /\ NewsIsGood /\ MapIsGood

----------------------------------------------------------------------------
(* Rows, entries and jobs                                                   *)

LEMMA EntryTypes ==
    /\ Absent \notin Row /\ Absent \notin Entry
    /\ \A r \in Row : /\ r.on \in BOOLEAN /\ r.limit \in Limits /\ r.skip \in BOOLEAN
                      /\ r # Absent
                      /\ \A b \in BOOLEAN : [r EXCEPT !.on = b] \in Row
    /\ \A e \in Entry : e # Absent /\ e.mw \in Middlewares /\ e.limit \in Limits
    /\ \A m \in Middlewares, l \in Limits, b \in BOOLEAN :
         /\ [mw |-> m, limit |-> l, made |-> b] \in Entry
         /\ [mw |-> m, limit |-> l, made |-> b].mw = m
         /\ [mw |-> m, limit |-> l, made |-> b].limit = l
    /\ \A b \in BOOLEAN, l \in Limits : [on |-> b, limit |-> l, skip |-> TRUE] \in Row
BY DEF Absent, Row, Entry

LEMMA JobTypes ==
    /\ Idle.at = "idle" /\ Read.at = "read"
    /\ Idle \notin Toggle \cup Loaded /\ Read \notin Toggle \cup Loaded
    /\ \A x \in Toggle : x.at = "toggle" /\ x.key \in Keys /\ x.on \in BOOLEAN
    /\ \A x \in Loaded : x.at = "loaded" /\ x.rows \in [Keys -> Row \cup {Absent}]
    /\ \A k \in Keys, b \in BOOLEAN :
         /\ [at |-> "toggle", key |-> k, on |-> b] \in Toggle
         /\ [at |-> "toggle", key |-> k, on |-> b].key = k
         /\ [at |-> "toggle", key |-> k, on |-> b] \notin Loaded
    /\ \A f \in [Keys -> Row \cup {Absent}] :
         /\ [at |-> "loaded", rows |-> f] \in Loaded
         /\ [at |-> "loaded", rows |-> f].rows = f
         /\ [at |-> "loaded", rows |-> f] \notin Toggle
BY DEF Idle, Read, Toggle, Loaded

\* What a job is can be told by where it is.
LEMMA JobKinds ==
    ASSUME LimitsTypeOK, NEW j \in Jobs
    PROVE  /\ job[j] \in {Idle, Read} \cup Toggle \cup Loaded
           /\ At(j, "idle") <=> job[j] = Idle
           /\ At(j, "read") <=> job[j] = Read
           /\ At(j, "toggle") <=> job[j] \in Toggle
           /\ At(j, "loaded") <=> job[j] \in Loaded
<1>1. job[j] \in {Idle, Read} \cup Toggle \cup Loaded
  BY DEF LimitsTypeOK
<1> QED
  BY <1>1, JobTypes DEF At

----------------------------------------------------------------------------
(* Middlewares for the fresh rows of a map                                  *)

\* The map holds at most one middleware for each key ...
LEMMA HeldMiddlewares ==
    ASSUME LimitsTypeOK
    PROVE  /\ IsFiniteSet({limiters[k].mw : k \in Cached})
           /\ Cardinality({limiters[k].mw : k \in Cached}) \in Nat
           /\ Cardinality({limiters[k].mw : k \in Cached}) <= Cardinality(Keys)
<1> DEFINE held == {limiters[k].mw : k \in Cached}
           mw   == [k \in Cached |-> limiters[k].mw]
<1>1. IsFiniteSet(Keys) /\ Cached \in SUBSET Keys
  BY LimitsAssumption DEF Cached
<1>2. IsFiniteSet(Cached) /\ Cardinality(Cached) <= Cardinality(Keys)
  BY <1>1, FS_Subset
<1>3. mw \in Surjection(Cached, held)
  BY DEF Surjection
<1>4. IsFiniteSet(held) /\ Cardinality(held) <= Cardinality(Cached)
  BY <1>2, <1>3, FS_Surjection
<1>5. Cardinality(held) \in Nat /\ Cardinality(Cached) \in Nat /\ Cardinality(Keys) \in Nat
  BY <1>1, <1>2, <1>4, FS_CardinalityType
<1> HIDE DEF held
<1> QED
  BY <1>2, <1>4, <1>5 DEF held

\* ... so that as many are left.
LEMMA FreeMiddlewares ==
    ASSUME LimitsTypeOK
    PROVE  LET free == Middlewares \ {limiters[k].mw : k \in Cached} IN
           IsFiniteSet(free) /\ Cardinality(free) \in Nat /\ Cardinality(Keys) <= Cardinality(free)
<1> DEFINE held == {limiters[k].mw : k \in Cached}
           free == Middlewares \ held
           both == Middlewares \cap held
           n    == Cardinality(Keys)
<1>1. n \in Nat
  BY LimitsAssumption, FS_CardinalityType
<1>2. IsFiniteSet(held) /\ Cardinality(held) \in Nat /\ Cardinality(held) <= n
  BY HeldMiddlewares
<1> HIDE DEF n, held
<1>3. IsFiniteSet(Middlewares) /\ Cardinality(Middlewares) = 2 * n
  <2>1. 1 \in Int /\ 2 * n \in Int
    BY <1>1
  <2>2. IsFiniteSet(1 .. 2 * n) /\ Cardinality(1 .. 2 * n) = IF 1 > 2 * n THEN 0 ELSE 2 * n - 1 + 1
    BY <2>1, FS_Interval
  <2>3. Cardinality(1 .. 2 * n) = 2 * n
    BY <1>1, <2>2
  <2> QED
    BY <2>2, <2>3 DEF Middlewares, n
<1>4. IsFiniteSet(both) /\ Cardinality(both) <= Cardinality(held)
  <2>1. both \in SUBSET held
    OBVIOUS
  <2> QED
    BY <1>2, <2>1, FS_Subset
<1>5. Cardinality(both) \in Nat
  BY <1>4, FS_CardinalityType
<1>6. IsFiniteSet(free) /\ Cardinality(free) = Cardinality(Middlewares) - Cardinality(both)
  BY <1>3, FS_Difference
<1> HIDE DEF free, both
<1>7. Cardinality(free) \in Nat /\ n <= Cardinality(free)
  <2>1. Cardinality(free) \in Nat
    BY <1>6, FS_CardinalityType
  <2> QED
    BY <1>1, <1>2, <1>3, <1>4, <1>5, <1>6, <2>1
<1> QED
  BY <1>6, <1>7 DEF free, held, n

\* There is a way to build what a refresh has to build.
LEMMA BuildIsFresh ==
    ASSUME LimitsTypeOK, NEW fresh \in SUBSET Keys
    PROVE  /\ Build(fresh) \in [fresh -> Middlewares \ {limiters[k].mw : k \in Cached}]
           /\ \A k, l \in fresh : Build(fresh)[k] = Build(fresh)[l] => k = l
<1> DEFINE free == Middlewares \ {limiters[k].mw : k \in Cached}
           n    == Cardinality(fresh)
           m    == Cardinality(free)
<1>1. IsFiniteSet(free) /\ m \in Nat /\ Cardinality(Keys) <= m
  BY FreeMiddlewares
<1>2. IsFiniteSet(fresh) /\ n <= Cardinality(Keys)
  BY LimitsAssumption, FS_Subset
<1>3. ExistsBijection(1 .. n, fresh) /\ ExistsBijection(1 .. m, free) /\ n \in Nat
  <2> HIDE DEF free
  <2> QED
    BY <1>1, <1>2, FS_CardinalityType
<1>4. Cardinality(Keys) \in Nat
  BY LimitsAssumption, FS_CardinalityType
<1>5. 1 .. n \subseteq 1 .. m
  <2> HIDE DEF n, m
  <2> QED
    BY <1>1, <1>2, <1>3, <1>4
<1> HIDE DEF n, m, free
<1>6. PICK b \in Bijection(fresh, 1 .. n) : TRUE
  <2>1. ExistsBijection(fresh, 1 .. n)
    BY <1>3, Fun_ExistsBijSymmetric
  <2> QED
    BY <2>1 DEF ExistsBijection
<1>7. PICK g \in Bijection(1 .. m, free) : TRUE
  BY <1>3 DEF ExistsBijection
<1>8. b \in [fresh -> 1 .. n] /\ \A k, l \in fresh : b[k] = b[l] => k = l
  BY <1>6 DEF Bijection, Injection, IsInjective
<1>9. g \in [1 .. m -> free] /\ \A i, j \in 1 .. m : g[i] = g[j] => i = j
  BY <1>7 DEF Bijection, Injection, IsInjective
<1> DEFINE f == [k \in fresh |-> g[b[k]]]
<1>10. f \in [fresh -> free] /\ \A k, l \in fresh : f[k] = f[l] => k = l
  BY <1>5, <1>8, <1>9
<1> HIDE DEF f
<1> QED
  BY <1>10 DEF Build, free

----------------------------------------------------------------------------
(* What a step does to the invariant                                        *)

\* A row changes, and a job that was idle goes on to refresh: what the other
\* limits are known by stays right.
LEMMA ChangeKeeps ==
    ASSUME LimitsInv, NEW k \in Keys, NEW r \in Row \cup {Absent}, Change(k, r),
           writes' \in 0 .. MaxWrites,
           job' \in [Jobs -> {Idle, Read} \cup Toggle \cup Loaded],
           \A j \in Jobs : /\ job'[j] \in Loaded => job'[j] = job[j]
                           /\ job'[j] \in Toggle => /\ job'[j] = job[j]
                                                    /\ r = Absent => job[j].key # k
    PROVE  LimitsInv'
<1>1. /\ LimitsTypeOK /\ TogglesHaveRows /\ NewsIsGood /\ MapIsGood
      /\ row \in [Keys -> Row \cup {Absent}] /\ row' = [row EXCEPT ![k] = r]
      /\ dirty' = dirty \cup {k} /\ limiters' = limiters
  BY DEF LimitsInv, LimitsTypeOK, Change
<1>2. \A l \in Keys : l # k => row'[l] = row[l] /\ (l \in Limiting' <=> l \in Limiting)
  BY <1>1 DEF Limiting
<1>3. LimitsTypeOK'
  BY <1>1 DEF LimitsTypeOK, Change
<1>4. TogglesHaveRows'
  <2> SUFFICES ASSUME NEW j \in Jobs, job'[j] \in Toggle PROVE row'[job'[j].key] # Absent
    BY DEF TogglesHaveRows
  <2>1. job'[j] = job[j] /\ job[j].key \in Keys /\ row[job[j].key] # Absent
    BY <1>1, JobTypes DEF TogglesHaveRows
  <2> QED
    BY <1>1, <2>1
<1>5. NewsIsGood'
  BY <1>1, <1>2 DEF NewsIsGood, Seen
<1>6. MapIsGood'
  BY <1>1, <1>2 DEF MapIsGood, Cached
<1> QED
  BY <1>3, <1>4, <1>5, <1>6 DEF LimitsInv

\* A job goes elsewhere, rows and map stay.
LEMMA PutKeeps ==
    ASSUME LimitsInv, NEW j \in Jobs, NEW w \in {Idle, Read} \cup Toggle \cup Loaded, Put(j, w),
           UNCHANGED <<row, limiters, dirty>>,
           writes' \in 0 .. MaxWrites, faults' \in 0 .. MaxFaults, ready' \in BOOLEAN,
           w \in Toggle => row[w.key] # Absent,
           w \in Loaded => \A k \in Keys : Seen(w.rows, k)
    PROVE  LimitsInv'
<1>1. /\ LimitsTypeOK /\ TogglesHaveRows /\ NewsIsGood /\ MapIsGood
      /\ job \in [Jobs -> {Idle, Read} \cup Toggle \cup Loaded] /\ job' = [job EXCEPT ![j] = w]
  BY DEF LimitsInv, LimitsTypeOK, Put
<1>2. LimitsTypeOK'
  BY <1>1 DEF LimitsTypeOK
<1>3. TogglesHaveRows'
  BY <1>1 DEF TogglesHaveRows
<1>4. NewsIsGood'
  BY <1>1 DEF NewsIsGood, Seen, Limiting
<1>5. MapIsGood'
  BY <1>1 DEF MapIsGood, Cached, Limiting
<1> QED
  BY <1>2, <1>3, <1>4, <1>5 DEF LimitsInv

LEMMA Writes ==
    ASSUME LimitsTypeOK, Write
    PROVE  writes' \in 0 .. MaxWrites
BY LimitsAssumption DEF LimitsTypeOK, Write

LEMMA ChangeSteps ==
    ASSUME LimitsInv, NEW j \in Admins, NEW k \in Keys,
           \/ \E r \in Row : Create(j, k, r) \/ Update(j, k, r)
           \/ Delete(j, k)
           \/ ToggleRead(j, k)
    PROVE  LimitsInv'
<1>1. /\ LimitsTypeOK /\ j \in Jobs
      /\ job \in [Jobs -> {Idle, Read} \cup Toggle \cup Loaded]
      /\ row \in [Keys -> Row \cup {Absent}]
  BY DEF LimitsInv, LimitsTypeOK, Jobs
<1>2. ASSUME NEW r \in Row, Create(j, k, r) \/ Update(j, k, r) PROVE LimitsInv'
  <2>1. /\ Change(k, r) /\ job' = [job EXCEPT ![j] = Read] /\ writes' \in 0 .. MaxWrites
        /\ r # Absent
    BY <1>1, <1>2, Writes, EntryTypes DEF Create, Update, Put
  <2>2. /\ job' \in [Jobs -> {Idle, Read} \cup Toggle \cup Loaded]
        /\ \A i \in Jobs : job'[i] \in Toggle \cup Loaded => job'[i] = job[i]
    BY <1>1, <2>1, JobTypes
  <2> QED
    BY <2>1, <2>2, ChangeKeeps
<1>3. CASE Delete(j, k)
  <2>1. /\ Change(k, Absent) /\ writes' \in 0 .. MaxWrites
        /\ job' = [i \in Jobs |-> IF i = j THEN Read
                                  ELSE IF job[i] \in Toggle /\ job[i].key = k THEN Idle
                                  ELSE job[i]]
    BY <1>1, <1>3, Writes DEF Delete
  <2>2. /\ job' \in [Jobs -> {Idle, Read} \cup Toggle \cup Loaded]
        /\ \A i \in Jobs : /\ job'[i] \in Loaded => job'[i] = job[i]
                           /\ job'[i] \in Toggle => job'[i] = job[i] /\ job[i].key # k
    BY <1>1, <2>1, JobTypes
  <2> QED
    BY <2>1, <2>2, ChangeKeeps
<1>4. CASE ToggleRead(j, k)
  <2> DEFINE w == [at |-> "toggle", key |-> k, on |-> ~row[k].on]
  <2>1. /\ Put(j, w) /\ writes' \in 0 .. MaxWrites /\ row[k] # Absent
        /\ UNCHANGED <<row, limiters, ready, dirty, faults>>
    BY <1>1, <1>4, Writes DEF ToggleRead
  <2>2. w \in Toggle /\ w.key = k /\ w \notin Loaded
    BY JobTypes
  <2>3. faults \in 0 .. MaxFaults /\ ready \in BOOLEAN
    BY <1>1 DEF LimitsTypeOK
  <2> HIDE DEF w
  <2> QED
    BY <1>1, <2>1, <2>2, <2>3, PutKeeps
<1> QED
  BY <1>2, <1>3, <1>4

LEMMA ToggleWriteKeeps ==
    ASSUME LimitsInv, NEW j \in Admins, ToggleWrite(j)
    PROVE  LimitsInv'
<1> DEFINE k == job[j].key
           r == [row[k] EXCEPT !.on = job[j].on]
<1>1. /\ LimitsTypeOK /\ TogglesHaveRows /\ j \in Jobs
      /\ job \in [Jobs -> {Idle, Read} \cup Toggle \cup Loaded]
      /\ row \in [Keys -> Row \cup {Absent}] /\ writes \in 0 .. MaxWrites
  BY DEF LimitsInv, LimitsTypeOK, Jobs
<1>2. job[j] \in Toggle /\ k \in Keys /\ job[j].on \in BOOLEAN /\ row[k] # Absent
  BY <1>1, JobKinds, JobTypes DEF ToggleWrite, TogglesHaveRows
<1>3. r \in Row /\ r # Absent
  BY <1>1, <1>2, EntryTypes
<1>4. Change(k, r) /\ job' = [job EXCEPT ![j] = Read] /\ writes' = writes
  BY DEF ToggleWrite, Put
<1>5. /\ job' \in [Jobs -> {Idle, Read} \cup Toggle \cup Loaded]
      /\ \A i \in Jobs : job'[i] \in Toggle \cup Loaded => job'[i] = job[i]
  BY <1>1, <1>4, JobTypes
<1> HIDE DEF k, r
<1> QED
  BY <1>1, <1>2, <1>3, <1>4, <1>5, ChangeKeeps

LEMMA RefreshSteps ==
    ASSUME LimitsInv, NEW j \in Jobs, RefreshBegin(j) \/ RefreshRead(j) \/ RefreshFails(j)
    PROVE  LimitsInv'
<1>1. /\ LimitsTypeOK /\ row \in [Keys -> Row \cup {Absent}] /\ writes \in 0 .. MaxWrites
      /\ faults \in 0 .. MaxFaults /\ ready \in BOOLEAN /\ MaxFaults \in Nat
  BY LimitsAssumption DEF LimitsInv, LimitsTypeOK
<1>2. CASE RefreshBegin(j)
  <2>1. writes' \in 0 .. MaxWrites
    BY <1>1, <1>2, Writes DEF RefreshBegin
  <2> QED
    BY <1>1, <1>2, <2>1, JobTypes, PutKeeps DEF RefreshBegin
<1>3. CASE RefreshRead(j)
  <2> DEFINE rows == [k \in Keys |-> IF k \in Limiting THEN row[k] ELSE Absent]
             w    == [at |-> "loaded", rows |-> rows]
  <2>1. rows \in [Keys -> Row \cup {Absent}]
    BY <1>1
  <2>2. w \in Loaded /\ w.rows = rows /\ w \notin Toggle
    <3> HIDE DEF rows
    <3> QED
      BY <2>1, JobTypes
  <2>3. \A k \in Keys : Seen(rows, k)
    BY DEF Seen
  <2>4. Put(j, w) /\ UNCHANGED <<row, limiters, ready, dirty, writes, faults>>
    BY <1>3 DEF RefreshRead
  <2> HIDE DEF rows, w
  <2> QED
    BY <1>1, <2>2, <2>3, <2>4, PutKeeps
<1>4. CASE RefreshFails(j)
  <2>1. Put(j, Idle) /\ ready' = TRUE /\ UNCHANGED <<row, limiters, dirty, writes>>
    BY <1>4 DEF RefreshFails
  <2>2. faults' \in 0 .. MaxFaults
    BY <1>1, <1>4 DEF RefreshFails
  <2> QED
    BY <1>1, <2>1, <2>2, JobTypes, PutKeeps
<1> QED
  BY <1>2, <1>3, <1>4

\* The map that a refresh stores: every enabled row that was read has an entry
\* with its limit, and no two entries share a middleware.
LEMMA NewMap ==
    ASSUME LimitsTypeOK, NEW j \in Jobs, job[j] \in Loaded, RefreshStore(j)
    PROVE  /\ limiters' \in [Keys -> Entry \cup {Absent}]
           /\ \A k, l \in Keys :
                limiters'[k] # Absent /\ limiters'[l] # Absent /\ k # l =>
                  limiters'[k].mw # limiters'[l].mw
           /\ \A k \in Keys : LET r == job[j].rows[k] IN
                /\ limiters'[k] # Absent <=> r # Absent
                /\ r # Absent => limiters'[k].limit = r.limit
<1> DEFINE rows  == job[j].rows
           there == {k \in Keys : rows[k] # Absent}
           fresh == {k \in there : ~Reusable(k, rows[k])}
           held  == {limiters[k].mw : k \in Cached}
<1>0. /\ rows \in [Keys -> Row \cup {Absent}]
      /\ limiters' = [k \in Keys |->
              IF k \notin there THEN Absent
              ELSE IF k \in fresh
                   THEN [mw |-> Build(fresh)[k], limit |-> rows[k].limit,
                         made |-> rows[k].skip]
                   ELSE limiters[k]]
  BY JobTypes DEF RefreshStore
<1> HIDE DEF rows
<1>1. limiters \in [Keys -> Entry \cup {Absent}]
  BY DEF LimitsTypeOK
<1>2. fresh \in SUBSET Keys
  OBVIOUS
<1>3. /\ Build(fresh) \in [fresh -> Middlewares \ held]
      /\ \A k, l \in fresh : Build(fresh)[k] = Build(fresh)[l] => k = l
  BY <1>2, BuildIsFresh
<1>4. ASSUME NEW k \in Keys, k \notin there PROVE limiters'[k] = Absent /\ rows[k] = Absent
  BY <1>0, <1>4
<1>5. ASSUME NEW k \in fresh
      PROVE  /\ limiters'[k] \in Entry /\ limiters'[k].mw = Build(fresh)[k]
             /\ limiters'[k].mw \notin held
             /\ limiters'[k].limit = rows[k].limit /\ rows[k] # Absent
  <2>1. k \in Keys /\ k \in there /\ rows[k] \in Row
    BY <1>0, <1>5
  <2>2. rows[k].limit \in Limits /\ rows[k].skip \in BOOLEAN /\ Build(fresh)[k] \in Middlewares \ held
    BY <1>3, <2>1, EntryTypes
  <2>3. limiters'[k] = [mw |-> Build(fresh)[k], limit |-> rows[k].limit, made |-> rows[k].skip]
    BY <1>0, <2>1
  <2> HIDE DEF held
  <2> QED
    BY <2>1, <2>2, <2>3, EntryTypes
<1>6. ASSUME NEW k \in there, k \notin fresh
      PROVE  /\ limiters'[k] = limiters[k] /\ limiters[k] \in Entry /\ limiters[k].mw \in held
             /\ limiters'[k].limit = rows[k].limit /\ rows[k] # Absent
  <2>1. k \in Keys /\ Reusable(k, rows[k]) /\ limiters'[k] = limiters[k] /\ rows[k] # Absent
    BY <1>0, <1>6
  <2>2. k \in Cached /\ limiters[k] # Absent /\ limiters[k].limit = rows[k].limit
    BY <2>1 DEF Reusable, Cached
  <2> QED
    BY <1>1, <2>1, <2>2
<1>7. limiters' \in [Keys -> Entry \cup {Absent}]
  <2>1. \A k \in Keys : limiters'[k] \in Entry \cup {Absent}
    BY <1>4, <1>5, <1>6
  <2> HIDE DEF held
  <2> QED
    BY <1>0, <2>1
<1>8. ASSUME NEW k \in Keys, NEW l \in Keys,
             limiters'[k] # Absent, limiters'[l] # Absent, k # l
      PROVE  limiters'[k].mw # limiters'[l].mw
  <2>1. k \in there /\ l \in there
    BY <1>4, <1>8
  <2>2. CASE k \in fresh /\ l \in fresh
    BY <1>3, <1>5, <1>8, <2>2
  <2>3. CASE k \in fresh /\ l \notin fresh
    BY <1>5, <1>6, <2>1, <2>3
  <2>4. CASE k \notin fresh /\ l \in fresh
    BY <1>5, <1>6, <2>1, <2>4
  <2>5. CASE k \notin fresh /\ l \notin fresh
    BY <1>6, <1>8, <2>1, <2>5, EntryTypes DEF LimitsTypeOK
  <2> QED
    BY <2>2, <2>3, <2>4, <2>5
<1>9. \A k \in Keys : /\ limiters'[k] # Absent <=> rows[k] # Absent
                      /\ rows[k] # Absent => limiters'[k].limit = rows[k].limit
  BY <1>4, <1>5, <1>6, EntryTypes
<1> QED
  BY <1>7, <1>8, <1>9 DEF rows

LEMMA StoreKeepsLimits ==
    ASSUME LimitsInv, NEW j \in Jobs, RefreshStore(j)
    PROVE  LimitsInv'
<1> DEFINE rows  == job[j].rows
           alone == \A i \in Jobs \ {j} : At(i, "idle")
           seen(k) == IF k \in Limiting THEN rows[k] = row[k] ELSE rows[k] = Absent
<1>1. /\ LimitsTypeOK /\ TogglesHaveRows /\ NewsIsGood /\ MapIsGood
      /\ job \in [Jobs -> {Idle, Read} \cup Toggle \cup Loaded] /\ dirty \subseteq Keys
  BY DEF LimitsInv, LimitsTypeOK
<1>2. job[j] \in Loaded /\ rows \in [Keys -> Row \cup {Absent}]
  BY <1>1, JobKinds, JobTypes DEF RefreshStore
<1>3. /\ job' = [job EXCEPT ![j] = Idle] /\ ready' = TRUE /\ UNCHANGED <<row, writes, faults>>
      /\ dirty' = IF alone THEN {k \in dirty : ~seen(k)} ELSE dirty
  BY DEF RefreshStore, Put
<1>4. /\ limiters' \in [Keys -> Entry \cup {Absent}]
      /\ \A k, l \in Keys :
           limiters'[k] # Absent /\ limiters'[l] # Absent /\ k # l =>
             limiters'[k].mw # limiters'[l].mw
      /\ \A k \in Keys : /\ limiters'[k] # Absent <=> rows[k] # Absent
                         /\ rows[k] # Absent => limiters'[k].limit = rows[k].limit
  BY <1>1, <1>2, NewMap
<1>5. \A k \in Keys \ dirty : seen(k)
  BY <1>1, <1>2 DEF NewsIsGood, Seen
<1>6. \A k \in Keys \ dirty' : seen(k)
  BY <1>3, <1>5
<1>7. dirty' \subseteq Keys
  BY <1>1, <1>3
<1>8. LimitsTypeOK'
  BY <1>1, <1>3, <1>4, <1>7 DEF LimitsTypeOK
<1>9. TogglesHaveRows'
  BY <1>1, <1>3, JobTypes DEF TogglesHaveRows
<1>10. NewsIsGood'
  <2>1. CASE alone
    <3>1. \A i \in Jobs : job'[i] \notin Loaded
      BY <1>1, <1>3, <2>1, JobTypes, JobKinds
    <3> QED
      BY <3>1 DEF NewsIsGood
  <2>2. CASE ~alone
    BY <1>1, <1>3, <2>2, JobTypes DEF NewsIsGood, Seen, Limiting
  <2> QED
    BY <2>1, <2>2
<1>11. MapIsGood'
  <2> SUFFICES ASSUME NEW k \in Keys \ dirty', limiters'[k] # Absent
               PROVE  k \in Limiting' /\ limiters'[k].limit = row'[k].limit
    BY DEF MapIsGood, Cached
  <2>1. rows[k] # Absent /\ limiters'[k].limit = rows[k].limit
    BY <1>4
  <2>2. k \in Limiting /\ rows[k] = row[k]
    BY <1>6, <2>1
  <2> QED
    BY <1>3, <2>1, <2>2 DEF Limiting
<1> QED
  BY <1>8, <1>9, <1>10, <1>11 DEF LimitsInv

----------------------------------------------------------------------------
(* The theorems about the limits                                            *)

LEMMA LimitsInvInit == LimitsInit => LimitsInv
<1> SUFFICES ASSUME LimitsInit PROVE LimitsInv
  OBVIOUS
<1>1. (CHOOSE l \in Limits : TRUE) \in Limits
  BY LimitsAssumption
<1>2. \A j \in Jobs : job[j] \in {Idle, Read}
  BY DEF LimitsInit
<1>3. \A j \in Jobs : job[j] \notin Toggle \cup Loaded
  BY <1>2, JobTypes
<1>4. LimitsTypeOK
  <2>1. [on |-> TRUE, limit |-> CHOOSE l \in Limits : TRUE, skip |-> TRUE] \in Row
    BY <1>1, EntryTypes
  <2>2. row \in [Keys -> Row \cup {Absent}]
    BY <2>1 DEF LimitsInit
  <2>3. job \in [Jobs -> {Idle, Read} \cup Toggle \cup Loaded]
    BY DEF LimitsInit
  <2>4. writes \in 0 .. MaxWrites /\ faults \in 0 .. MaxFaults
    BY LimitsAssumption DEF LimitsInit
  <2> QED
    BY <2>2, <2>3, <2>4 DEF LimitsInit, LimitsTypeOK
<1>5. TogglesHaveRows /\ NewsIsGood
  BY <1>3 DEF TogglesHaveRows, NewsIsGood
<1>6. MapIsGood
  BY DEF LimitsInit, MapIsGood, Cached
<1> QED
  BY <1>4, <1>5, <1>6 DEF LimitsInv

LEMMA LimitsInvStep == LimitsInv /\ [LimitsNext]_limitVars => LimitsInv'
<1> SUFFICES ASSUME LimitsInv, [LimitsNext]_limitVars PROVE LimitsInv'
  OBVIOUS
<1>1. CASE UNCHANGED limitVars
  BY <1>1 DEF limitVars, LimitsInv, LimitsTypeOK, TogglesHaveRows, NewsIsGood, MapIsGood, Seen,
              Cached, Limiting
<1>2. CASE LimitsNext
  BY <1>2, ChangeSteps, ToggleWriteKeeps, RefreshSteps, StoreKeepsLimits DEF LimitsNext
<1> QED
  BY <1>1, <1>2

\* The inductive invariant of the limits, for any number of limits and administrators.
THEOREM LimitsInvariant == LimitsSpec => []LimitsInv
<1> QED
  BY LimitsInvInit, LimitsInvStep, PTL DEF LimitsSpec

\* What the limiter keeps has its type; no two limits share a middleware, however
\* refreshes overlap, so that no request is counted against another limit.
THEOREM LimitTypes == LimitsSpec => []LimitsTypeOK
<1>1. LimitsInv => LimitsTypeOK
  BY DEF LimitsInv
<1> QED
  BY <1>1, LimitsInvariant, PTL

\* A refresh that stores its map keeps the middleware of a limit nobody changed.
LEMMA StoreKeepsCounters ==
    ASSUME LimitsInv, [LimitsNext]_limitVars, NEW k \in Keys \ dirty, k \in Cached
    PROVE  limiters'[k] # Absent /\ limiters'[k].mw = limiters[k].mw
<1>1. limiters[k] # Absent
  BY DEF Cached
<1>2. ASSUME NEW j \in Jobs, RefreshStore(j)
      PROVE  limiters'[k] = limiters[k]
  <2> DEFINE rows  == job[j].rows
             there == {l \in Keys : rows[l] # Absent}
             fresh == {l \in there : ~Reusable(l, rows[l])}
  <2>1. /\ LimitsTypeOK /\ NewsIsGood /\ MapIsGood
        /\ row \in [Keys -> Row \cup {Absent}]
    BY DEF LimitsInv, LimitsTypeOK
  <2>2. job[j] \in Loaded
    BY <1>2, <2>1, JobKinds DEF RefreshStore
  <2>3. k \in Limiting /\ limiters[k].limit = row[k].limit
    BY <2>1 DEF MapIsGood
  <2>4. rows[k] = row[k] /\ row[k] # Absent
    BY <2>1, <2>2, <2>3 DEF NewsIsGood, Seen, Limiting
  <2>5. k \in there /\ k \notin fresh
    BY <2>3, <2>4 DEF Reusable
  <2>6. limiters' = [l \in Keys |->
              IF l \notin there THEN Absent
              ELSE IF l \in fresh
                   THEN [mw |-> Build(fresh)[l], limit |-> rows[l].limit,
                         made |-> rows[l].skip]
                   ELSE limiters[l]]
    BY <1>2 DEF RefreshStore
  <2> HIDE DEF there, fresh
  <2> QED
    BY <2>5, <2>6
<1>3. CASE UNCHANGED limiters
  BY <1>1, <1>3
<1>4. UNCHANGED limiters \/ \E j \in Jobs : RefreshStore(j)
  BY DEF LimitsNext, Create, Update, Delete, ToggleRead, ToggleWrite, Change, RefreshBegin,
         RefreshRead, RefreshFails, limitVars
<1> QED
  BY <1>1, <1>2, <1>3, <1>4

\* The timer's refreshes, and those that follow a change of another limit, let
\* a limit that is settled in the map go on counting.
THEOREM CountersDoSurvive == LimitsSpec => CountersSurvive
<1>1. LimitsInv /\ [LimitsNext]_limitVars =>
        [\A k \in Keys \ dirty : k \in Cached => limiters'[k] # Absent
                                                 /\ limiters'[k].mw = limiters[k].mw]_limitVars
  BY StoreKeepsCounters
<1> QED
  BY <1>1, LimitsInvariant, PTL DEF LimitsSpec, CountersSurvive

\* No limit that is settled is missing, as long as no read has failed: a first
\* read that fails leaves the map empty although nobody has changed a row.
MapIsWhole ==
    ready /\ faults = 0 => \A k \in Keys \ dirty : k \in Limiting => k \in Cached

LEMMA WholeStep == LimitsInv /\ MapIsWhole /\ [LimitsNext]_limitVars => MapIsWhole'
<1> SUFFICES ASSUME LimitsInv, MapIsWhole, [LimitsNext]_limitVars PROVE MapIsWhole'
  OBVIOUS
<1>1. /\ LimitsTypeOK /\ NewsIsGood
      /\ row \in [Keys -> Row \cup {Absent}] /\ faults \in Nat
  BY LimitsAssumption DEF LimitsInv, LimitsTypeOK
<1>2. ASSUME NEW j \in Jobs, RefreshStore(j) PROVE MapIsWhole'
  <2> SUFFICES ASSUME NEW k \in Keys \ dirty', k \in Limiting PROVE limiters'[k] # Absent
    BY <1>2 DEF MapIsWhole, RefreshStore, Limiting, Cached
  <2>1. job[j] \in Loaded
    BY <1>1, <1>2, JobKinds DEF RefreshStore
  <2>2. job[j].rows[k] = row[k]
    <3>1. k \in dirty => job[j].rows[k] = row[k]
      BY <1>2 DEF RefreshStore
    <3> QED
      BY <1>1, <2>1, <3>1 DEF NewsIsGood, Seen
  <2>3. row[k] # Absent
    BY DEF Limiting
  <2> QED
    BY <1>1, <1>2, <2>1, <2>2, <2>3, NewMap
<1>3. ASSUME NEW k \in Keys, NEW r, Change(k, r) PROVE MapIsWhole'
  <2>1. \A l \in Keys \ dirty' : l \notin dirty /\ row'[l] = row[l]
    BY <1>1, <1>3 DEF Change
  <2> QED
    BY <1>3, <2>1 DEF MapIsWhole, Change, Limiting, Cached
<1>4. CASE UNCHANGED <<row, limiters, ready, dirty, faults>>
  BY <1>4 DEF MapIsWhole, Limiting, Cached
<1>5. ASSUME NEW j \in Jobs, RefreshFails(j) PROVE MapIsWhole'
  BY <1>1, <1>5 DEF RefreshFails, MapIsWhole
<1>6. ASSUME NEW j \in Admins, ToggleWrite(j) PROVE MapIsWhole'
  <2>1. job[j] \in Toggle /\ job[j].key \in Keys
    BY <1>1, <1>6, JobKinds, JobTypes DEF ToggleWrite, Jobs
  <2> QED
    BY <1>3, <1>6, <2>1 DEF ToggleWrite
<1> QED
  BY <1>2, <1>3, <1>4, <1>5, <1>6
     DEF LimitsNext, limitVars, Create, Update, Delete, ToggleRead, RefreshBegin, RefreshRead

\* What every settled limit is worth: the safety part of EveryLimitApplied.  At any
\* time, and not only when the administrators have stopped, the limits in force
\* that nobody is changing are those of the enabled rows, and no others.
THEOREM SettledLimitsApply ==
    LimitsSpec => [](ready /\ faults = 0 =>
                       \A k \in Keys \ dirty :
                         IF k \in Limiting
                         THEN k \in Cached /\ limiters[k].limit = row[k].limit
                         ELSE k \notin Cached)
<1>1. LimitsInit => MapIsWhole
  BY DEF LimitsInit, MapIsWhole
<1>2. LimitsSpec => []MapIsWhole
  BY <1>1, LimitsInvariant, WholeStep, PTL DEF LimitsSpec
<1>3. LimitsInv /\ MapIsWhole =>
        (ready /\ faults = 0 =>
           \A k \in Keys \ dirty :
             IF k \in Limiting
             THEN k \in Cached /\ limiters[k].limit = row[k].limit
             ELSE k \notin Cached)
  BY DEF LimitsInv, MapIsWhole, MapIsGood
<1> QED
  BY <1>2, <1>3, LimitsInvariant, PTL

=============================================================================
