----------------------------- MODULE MCAccounts -----------------------------
(* Accounts for TLC: the reset requests apart from the rest of the row.     *)
EXTENDS Accounts, TLC

Symmetry == Permutations(Reqs)

\* Signing in and the second factor share no variable with the reset requests,
\* and no property is about both: a behaviour of the two is an interleaving of
\* one of each.  TLC goes on from the states in which only one has moved.
OnePart ==
    \/ status = [a \in Asks |-> "none"] /\ \A q \in Reqs : req[q].op # "ask"
    \/ /\ attempts = 0 /\ lock = "none" /\ shown = 0
       /\ \A q \in Reqs : req[q] \notin Login \cup Factor
=============================================================================
