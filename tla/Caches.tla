------------------------------- MODULE Caches -------------------------------
(***************************************************************************)
(* The copies the server keeps of its settings in memory, and how old they *)
(* may get.  There are three, filled in three ways:                        *)
(*                                                                         *)
(*   "ip"           the admin IP rules: valid for 30 s from the moment the *)
(*                  query was SENT, dropped when a rule is saved;          *)
(*   "maintenance"  the maintenance mode: valid for 30 s from the moment   *)
(*                  the answer was STORED, dropped when settings are saved; *)
(*   "settings"     the site settings: valid for ever, read again by every *)
(*                  save before it answers.                                *)
(*                                                                         *)
(* A save and the drop that follows it are two steps, and so are a query's *)
(* answer and its storing, so that a load may cross a save.  What is saved *)
(* is a version, numbered in the order of the commits.                     *)
(*                                                                         *)
(* Source: services/ipRule.service.ts, middlewares/maintenance.middleware.ts, *)
(* utils/settingsCache.ts, controllers/siteSettings.ts.                    *)
(***************************************************************************)
EXTENDS Integers

CONSTANTS
    Slots,        \* requests in flight: those that load and those that save
    TTL,          \* CACHE_TTL_MS and CACHE_TTL, in ticks
    QueryTime,    \* how long a load is on its way at most, in ticks
    MaxVer,       \* bound on the saves
    MaxTime       \* bound on the clock

ASSUME CachesAssumption == /\ TTL \in Nat \ {0} /\ QueryTime \in Nat
                           /\ MaxVer \in Nat /\ MaxTime \in Nat

VARIABLES
    kind,    \* which of the three copies this is
    now,     \* Date.now(), in ticks
    ver,     \* the committed version
    ended,   \* when each earlier version was replaced
    cache,   \* the copy and its time stamp
    req      \* the requests in flight

vars == <<kind, now, ver, ended, cache, req>>

Kinds == {"ip", "maintenance", "settings"}
None  == [none |-> TRUE]
\* late (history): it was outdated when it was stored, or reading it again failed.
Copy  == [ver : 0 .. MaxVer, stamp : 0 .. MaxTime, late : BOOLEAN]
\* at: "saved" a save has committed, "query" the query is sent, "fill" answered.
Work  == [at : {"saved", "query", "fill"}, sent : 0 .. MaxTime, ver : 0 .. MaxVer]

TypeOK ==
    /\ kind \in Kinds
    /\ now \in 0 .. MaxTime /\ ver \in 0 .. MaxVer
    /\ ended \in [0 .. MaxVer -> 0 .. now]
    /\ cache \in Copy \cup {None}
    /\ cache # None => cache.ver <= ver /\ cache.stamp <= now
    /\ req \in [Slots -> Work \cup {None}]
    /\ \A q \in Slots : req[q] # None => req[q].ver <= ver /\ req[q].sent <= now

----------------------------------------------------------------------------
\* Whether a request is served from the copy as it is.
Valid(c) ==
    /\ c # None
    /\ \/ kind = "ip" /\ now - c.stamp < TTL
       \/ kind = "maintenance" /\ now <= c.stamp + TTL
       \/ kind = "settings"

\* How long ago version v was the committed one.
Age(v) == IF v = ver THEN 0 ELSE now - ended[v]

Set(q, w) == req' = [req EXCEPT ![q] = w]

\* A request misses the copy; the settings are never loaded on demand.
Miss(q) ==
    /\ kind # "settings" /\ req[q] = None /\ ~Valid(cache)
    /\ Set(q, [at |-> "query", sent |-> now, ver |-> ver])
    /\ UNCHANGED <<kind, now, ver, ended, cache>>

\* The database answers with what is committed.
Answer(q) ==
    /\ req[q] # None /\ req[q].at = "query"
    /\ Set(q, [req[q] EXCEPT !.at = "fill", !.ver = ver])
    /\ UNCHANGED <<kind, now, ver, ended, cache>>

\* loadedAt taken when the answer is stored.
StampStored(w) == now

\* A time stamp that is the end of the validity.
StampExpiry(w) == IF kind = "ip" THEN w.sent ELSE now + TTL

\* The time stamp of a copy: loadedAt is taken before the query, _expiry after.
Stamp(w) == IF kind = "ip" THEN w.sent ELSE now

Store(q) ==
    /\ req[q] # None /\ req[q].at = "fill"
    /\ cache' = [ver |-> req[q].ver, stamp |-> Stamp(req[q]), late |-> req[q].ver # ver]
    /\ Set(q, None)
    /\ UNCHANGED <<kind, now, ver, ended>>

\* A query that fails leaves the copy as it is: the request falls back to the
\* environment's list, to no maintenance, to the settings as they were.
Fails(q) ==
    /\ req[q] # None /\ req[q].at = "query"
    /\ Set(q, None)
    /\ cache' = IF kind = "settings" THEN [cache EXCEPT !.late = TRUE] ELSE cache
    /\ UNCHANGED <<kind, now, ver, ended>>

----------------------------------------------------------------------------
\* An administrator's save commits.
Save(q) ==
    /\ req[q] = None /\ ver < MaxVer
    /\ ver' = ver + 1
    /\ ended' = [ended EXCEPT ![ver] = now]
    /\ Set(q, [at |-> "saved", sent |-> now, ver |-> ver + 1])
    /\ UNCHANGED <<kind, now, cache>>

\* A save that drops nothing.
AfterSaveNothing(q) ==
    /\ req[q] # None /\ req[q].at = "saved"
    /\ IF kind = "settings"
       THEN Set(q, [req[q] EXCEPT !.at = "query", !.sent = now]) /\ UNCHANGED cache
       ELSE Set(q, None) /\ UNCHANGED cache
    /\ UNCHANGED <<kind, now, ver, ended>>

\* invalidateIpRuleCache, refreshMaintenanceCache and refreshSettingsCache.
AfterSave(q) ==
    /\ req[q] # None /\ req[q].at = "saved"
    /\ IF kind = "settings"
       THEN Set(q, [req[q] EXCEPT !.at = "query", !.sent = now]) /\ UNCHANGED cache
       ELSE Set(q, None) /\ cache' = None
    /\ UNCHANGED <<kind, now, ver, ended>>

\* Time passes; no load is on its way for longer than QueryTime.
Tick ==
    /\ now < MaxTime
    /\ \A q \in Slots : req[q] # None => now - req[q].sent < QueryTime
    /\ now' = now + 1
    /\ UNCHANGED <<kind, ver, ended, cache, req>>

----------------------------------------------------------------------------
\* The server starts with the settings loaded and the other two copies empty.
Init ==
    /\ kind \in Kinds
    /\ now = 0 /\ ver = 0
    /\ ended = [v \in 0 .. MaxVer |-> 0]
    /\ cache = IF kind = "settings" THEN [ver |-> 0, stamp |-> 0, late |-> FALSE]
               ELSE None
    /\ req = [q \in Slots |-> None]

Next ==
    \/ \E q \in Slots : \/ Miss(q) \/ Answer(q) \/ Store(q) \/ Fails(q)
                        \/ Save(q) \/ AfterSave(q)
    \/ Tick

Spec == Init /\ [][Next]_vars

----------------------------------------------------------------------------
(* Properties                                                               *)

\* A load that crosses a save brings back what the save has replaced, and the
\* drop does not help; but a rule or a maintenance mode that is still applied
\* was the committed one less than the validity ago (plus, for the maintenance
\* mode, the time of the query).
OldRulesExpire ==
    Valid(cache) => /\ kind = "ip" => Age(cache.ver) < TTL
                    /\ kind = "maintenance" => Age(cache.ver) <= TTL + QueryTime

\* What is applied is what is committed, unless a save has not had the time to
\* drop the copy or to read it again, or the copy came from a load that had
\* crossed a save.
SavesTakeEffect ==
    Valid(cache) /\ cache.ver # ver =>
        \/ cache.late
        \/ \E q \in Slots : /\ req[q] # None /\ req[q].ver = ver
                            /\ req[q].at = "saved" \/ kind = "settings"
=============================================================================
