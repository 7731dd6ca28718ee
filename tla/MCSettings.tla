----------------------------- MODULE MCSettings -----------------------------
(* Caches and RateLimits on a small instance: how a change of the settings  *)
(* comes to be applied, in the copies that are kept of them and in the rate *)
(* limiters that are made from them.                                        *)
EXTENDS Caches, RateLimits

\* The two share no variable and no property is about both, so a behaviour moves
\* the one or the other.
CachesAtRest == Init /\ kind = "ip"
LimitsAtRest == LimitsInit /\ row = [k \in Keys |-> Absent]

MCInit == Init /\ LimitsInit
MCNext == \/ LimitsAtRest /\ Next /\ UNCHANGED limitVars
          \/ CachesAtRest /\ LimitsNext /\ UNCHANGED vars
MCSpec == MCInit /\ [][MCNext]_<<vars, limitVars>> /\ Fairness
=============================================================================
