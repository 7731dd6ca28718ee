--------------------------- MODULE MCAuthenticate ---------------------------
(* Authenticate on a small instance.                                        *)
EXTENDS Authenticate, TLC

Symmetry == Permutations(Reqs)
=============================================================================
