----------------------------- MODULE MCWikiTree -----------------------------
(* WikiTree on a small instance.                                            *)
EXTENDS WikiTree, TLC

Symmetry == Permutations(Pages) \cup Permutations(Reqs) \cup Permutations(Texts)
=============================================================================
