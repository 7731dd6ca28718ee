----------------------------- MODULE RateLimits -----------------------------
(***************************************************************************)
(* The rate limits an administrator can change while the server runs.      *)
(*                                                                         *)
(* A row of rate_limit_settings describes a limit; the manager keeps, for  *)
(* every enabled row, a middleware built from it, which counts requests in *)
(* a store of its own.  A refresh reads the rows and, when the answer is   *)
(* there, builds the whole map anew, taking over the middleware of a row   *)
(* whose compared fields are those of the map, so that its counters go on. *)
(* Every change of a row is followed by a refresh, and a timer runs one    *)
(* every five minutes; refreshes may overlap and may fail.                 *)
(*                                                                         *)
(* Source: middlewares/dynamicRateLimit.ts,                                *)
(* controllers/rateLimitAdmin.controller.ts.                               *)
(***************************************************************************)
EXTENDS Naturals, FiniteSets

CONSTANTS
    Keys,         \* category.name
    Limits,       \* the values of windowMs, maxRequests, ... together
    Admins,       \* slots for an administrator's requests in flight
    Timer,        \* the slot of the five-minute timer
    MaxWrites,    \* bound on what administrators do
    MaxFaults     \* bound on the refreshes that fail

ASSUME LimitsAssumption == /\ IsFiniteSet(Keys) /\ Timer \notin Admins /\ Limits # {}
                           /\ MaxWrites \in Nat /\ MaxFaults \in Nat

VARIABLES
    row,      \* the rows
    limiters, \* the manager's map
    job,      \* the requests and the timer's refresh
    ready,    \* initialize has ended
    dirty,    \* history: rows that were written and not yet taken over in peace
    writes, faults

limitVars == <<row, limiters, job, ready, dirty, writes, faults>>

Jobs   == Admins \cup {Timer}
Absent == [none |-> TRUE]
\* limit: the fields settingsChanged compares; skip: skipSuccessfulRequests and
\* skipFailedRequests, which it does not.
Row    == [on : BOOLEAN, limit : Limits, skip : BOOLEAN]
\* Enough names for the middlewares of two maps.
Middlewares == 1 .. 2 * Cardinality(Keys)
\* mw: the middleware; limit: the snapshot; made: the skip flags mw was made with.
Entry  == [mw : Middlewares, limit : Limits, made : BOOLEAN]
Idle   == [at |-> "idle"]
Read   == [at |-> "read"]     \* a refresh's query is on its way
Toggle == [at : {"toggle"}, key : Keys, on : BOOLEAN]
Loaded == [at : {"loaded"}, rows : [Keys -> Row \cup {Absent}]]

LimitsTypeOK ==
    /\ row \in [Keys -> Row \cup {Absent}]
    /\ limiters \in [Keys -> Entry \cup {Absent}]
    /\ job \in [Jobs -> {Idle, Read} \cup Toggle \cup Loaded]
    /\ ready \in BOOLEAN
    /\ dirty \subseteq Keys
    /\ writes \in 0 .. MaxWrites /\ faults \in 0 .. MaxFaults
    /\ \A k, l \in Keys : limiters[k] # Absent /\ limiters[l] # Absent /\ k # l =>
                          limiters[k].mw # limiters[l].mw

----------------------------------------------------------------------------
At(j, s)  == job[j].at = s
Put(j, w) == job' = [job EXCEPT ![j] = w]
Cached    == {k \in Keys : limiters[k] # Absent}
Limiting  == {k \in Keys : row[k] # Absent /\ row[k].on}
Write     == writes < MaxWrites /\ writes' = writes + 1

\* What changes a row ends in `await this.refreshCache()'.
Change(k, r) ==
    /\ row' = [row EXCEPT ![k] = r]
    /\ dirty' = dirty \cup {k}
    /\ UNCHANGED <<limiters, ready, faults>>

\* createRateLimitSettings.
Create(j, k, r) == /\ ready /\ At(j, "idle") /\ Write /\ row[k] = Absent
                   /\ Change(k, r) /\ Put(j, Read)

\* updateRateLimitSettings and the presets, which update one row after another.
Update(j, k, r) == /\ ready /\ At(j, "idle") /\ Write /\ row[k] # Absent
                   /\ Change(k, r) /\ Put(j, Read)

\* deleteRateLimitSettings.  A toggle that has read the row will update none,
\* and an update of no row is not followed by a refresh.
Delete(j, k) ==
    /\ ready /\ At(j, "idle") /\ Write /\ row[k] # Absent
    /\ Change(k, Absent)
    /\ job' = [i \in Jobs |-> IF i = j THEN Read
                              ELSE IF job[i] \in Toggle /\ job[i].key = k THEN Idle
                              ELSE job[i]]

\* toggleRateLimitSettings reads the row, then writes the opposite of what it read.
ToggleRead(j, k) ==
    /\ ready /\ At(j, "idle") /\ Write /\ row[k] # Absent
    /\ Put(j, [at |-> "toggle", key |-> k, on |-> ~row[k].on])
    /\ UNCHANGED <<row, limiters, ready, dirty, faults>>

ToggleWrite(j) ==
    /\ At(j, "toggle")
    /\ Change(job[j].key, [row[job[j].key] EXCEPT !.on = job[j].on])
    /\ Put(j, Read)
    /\ UNCHANGED writes

----------------------------------------------------------------------------
\* The timer, and an administrator's refreshRateLimitCache.
RefreshBegin(j) ==
    /\ ready /\ At(j, "idle")
    /\ IF j = Timer THEN UNCHANGED writes ELSE Write
    /\ Put(j, Read)
    /\ UNCHANGED <<row, limiters, ready, dirty, faults>>

RefreshRead(j) ==
    /\ At(j, "read")
    /\ Put(j, [at |-> "loaded",
               rows |-> [k \in Keys |-> IF k \in Limiting THEN row[k] ELSE Absent]])
    /\ UNCHANGED <<row, limiters, ready, dirty, writes, faults>>

\* A comparison that misses the limit itself, and one that never reuses.
ReusableAlways(k, r) == k \in Cached
ReusableNever(k, r) == FALSE

\* settingsChanged, on a row that is in the map.
Reusable(k, r) == k \in Cached /\ limiters[k].limit = r.limit

\* All limits that are built together share one middleware.
BuildShared(fresh) == CHOOSE f \in [fresh -> Middlewares \ {limiters[k].mw : k \in Cached}] :
                        \A k, l \in fresh : f[k] = f[l]

\* The rows of fresh get middlewares of their own, which the map does not hold.
Build(fresh) == CHOOSE f \in [fresh -> Middlewares \ {limiters[k].mw : k \in Cached}] :
                  \A k, l \in fresh : f[k] = f[l] => k = l

\* The loop over the rows and the assignment of the new map are one step.
RefreshStore(j) ==
    /\ At(j, "loaded")
    /\ LET rows == job[j].rows
           there == {k \in Keys : rows[k] # Absent}
           fresh == {k \in there : ~Reusable(k, rows[k])}
           alone == \A i \in Jobs \ {j} : At(i, "idle")
           seen(k) == IF k \in Limiting THEN rows[k] = row[k] ELSE rows[k] = Absent IN
         /\ limiters' = [k \in Keys |->
              IF k \notin there THEN Absent
              ELSE IF k \in fresh
                   THEN [mw |-> Build(fresh)[k], limit |-> rows[k].limit,
                         made |-> rows[k].skip]
                   ELSE limiters[k]]
         /\ dirty' = IF alone THEN {k \in dirty : ~seen(k)} ELSE dirty
    /\ ready' = TRUE
    /\ Put(j, Idle)
    /\ UNCHANGED <<row, writes, faults>>

\* refreshCache catches its error; initialize goes on with an empty map.
RefreshFails(j) ==
    /\ At(j, "read") /\ faults < MaxFaults
    /\ faults' = faults + 1
    /\ ready' = TRUE
    /\ Put(j, Idle)
    /\ UNCHANGED <<row, limiters, dirty, writes>>

----------------------------------------------------------------------------
\* initialize has seen to the default rows and starts its refresh.
LimitsInit ==
    /\ row \in [Keys -> {[on |-> TRUE, limit |-> CHOOSE l \in Limits : TRUE, skip |-> TRUE],
                         Absent}]
    /\ limiters = [k \in Keys |-> Absent]
    /\ job = [j \in Jobs |-> IF j = Timer THEN Read ELSE Idle]
    /\ ready = FALSE
    /\ dirty = {} /\ writes = 0 /\ faults = 0

LimitsNext ==
    \/ \E j \in Admins, k \in Keys :
         \/ \E r \in Row : Create(j, k, r) \/ Update(j, k, r)
         \/ Delete(j, k) \/ ToggleRead(j, k)
    \/ \E j \in Admins : ToggleWrite(j)
    \/ \E j \in Jobs : RefreshBegin(j) \/ RefreshRead(j) \/ RefreshStore(j) \/ RefreshFails(j)

\* setInterval goes on for ever, and what is in flight goes on.
Fairness ==
    /\ \A j \in Admins : WF_limitVars(ToggleWrite(j))
    /\ \A j \in Jobs : WF_limitVars(RefreshRead(j)) /\ WF_limitVars(RefreshStore(j))
    /\ WF_limitVars(RefreshBegin(Timer))

LimitsSpec == LimitsInit /\ [][LimitsNext]_limitVars /\ Fairness

----------------------------------------------------------------------------
(* Properties                                                               *)

\* A limit that nobody changes keeps counting where it is: once the last change
\* of its row is in the map, no refresh, whether of the timer or of a change of
\* another row, replaces its middleware.
CountersSurvive ==
    [][\A k \in Keys \ dirty : k \in Cached => limiters'[k] # Absent
                                               /\ limiters'[k].mw = limiters[k].mw]_limitVars

\* When the administrators stop, the limits in force become those of the
\* enabled rows, whatever order the refreshes ended in and whichever failed.
EveryLimitApplied ==
    \A k \in Keys : <>[](IF k \in Limiting
                         THEN k \in Cached /\ limiters[k].limit = row[k].limit
                         ELSE k \notin Cached)

\* ... and so do their skip flags: "settingsChanged" calls itself a deep
\* comparison of what a middleware captures (dynamicRateLimit.ts:194).
EverySkipFlagApplied ==
    \A k \in Keys : <>[](k \in Limiting => k \in Cached /\ limiters[k].made = row[k].skip)
=============================================================================
