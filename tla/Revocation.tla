----------------------------- MODULE Revocation -----------------------------
(***************************************************************************)
(* What the sign-in code promises about credentials, with nothing of how:  *)
(* a credential is valid or revoked; revoking an owner's credentials takes *)
(* all of them at once; a revoked credential is revoked for good.          *)
(*                                                                         *)
(* TokenVersion implements it with one counter per account.                *)
(***************************************************************************)
CONSTANTS Creds,    \* every credential that can be handed out
          Owner(_)  \* the account a credential was handed out for

VARIABLES valid,    \* credentials handed out and accepted
          revoked   \* credentials handed out and no longer accepted

vars == <<valid, revoked>>

Init == valid = {} /\ revoked = {}

\* A sign-in hands out a credential.
Grant(c) ==
    /\ c \notin revoked
    /\ valid' = valid \cup {c}
    /\ UNCHANGED revoked

\* A sign-in that a revocation overtook hands out a credential nobody accepts.
Stillborn(c) ==
    /\ c \notin valid
    /\ revoked' = revoked \cup {c}
    /\ UNCHANGED valid

OwnedBy(S) == {c \in valid : Owner(c) \in S}

\* Every credential of the owners in S is revoked in one step.
RevokeAll(S) ==
    /\ valid' = valid \ OwnedBy(S)
    /\ revoked' = revoked \cup OwnedBy(S)

Next ==
    \/ \E S \in SUBSET {Owner(c) : c \in Creds} : RevokeAll(S)
    \/ \E c \in Creds : Grant(c) \/ Stillborn(c)

Spec == Init /\ [][Next]_vars
=============================================================================
