----------------------------- MODULE MCThreads -----------------------------
(* Threads for TLC: users and requests are interchangeable.                 *)
EXTENDS Threads, TLC

Symmetry == Permutations(Users) \cup Permutations(Reqs)
=============================================================================
