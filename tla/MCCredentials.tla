--------------------------- MODULE MCCredentials ---------------------------
(* TokenVersion and UserSessions on a small instance.                       *)
EXTENDS TokenVersion, UserSessions, TLC

SerialWorkload == {}

\* What an account's version admits and what its session rows admit are two
\* conditions on a refresh, and no property is about both.  So a behaviour moves
\* the one or the other.
VersionsAtRest == Init /\ bars = [u \in Users |-> {}]
SessionsAtRest == SessionsInit

MCInit == Init /\ SessionsInit
MCNext == \/ SessionsAtRest /\ Next /\ UNCHANGED sessionVars
          \/ VersionsAtRest /\ SessionsNext /\ UNCHANGED vars
MCSpec == MCInit /\ [][MCNext]_<<vars, sessionVars>>

\* Devices and refreshes are interchangeable; logins are numbered.
Symmetry == Permutations(Devices) \cup Permutations(Refreshes)
=============================================================================
