-------------------------- MODULE CredentialProofs --------------------------
(***************************************************************************)
(* Proofs about the two ends of a login: the credentials that the server   *)
(* issues and revokes (TokenVersion), for any accounts, any number of      *)
(* requests in flight and any bound on the revocations; and the tab of the *)
(* client that keeps and refreshes them (ClientAuth), for any calls, any   *)
(* timers and any tokens that are enough for what holds one.               *)
(***************************************************************************)
EXTENDS TokenVersion, ClientAuth, FiniteSetTheorems, TLAPS

----------------------------------------------------------------------------
(* The server: types                                                        *)

\* What a request writes when it begins has the type of a request in flight.
LEMMA BeginType ==
    ASSUME TypeOK, NEW q \in Reqs, NEW u \in Users,
           NEW step \in Steps, NEW kind \in Kinds, NEW g \in Nat,
           Begin(q, step, u, kind, g)
    PROVE  req' \in [Reqs -> Flight \cup {Idle}]
BY DEF TypeOK, Begin, Flight

\* A request that ends, or changes its step, keeps the type.
LEMMA FinishType ==
    ASSUME TypeOK, NEW q \in Reqs, Finish(q)
    PROVE  req' \in [Reqs -> Flight \cup {Idle}]
BY DEF TypeOK, Finish

LEMMA StepType ==
    ASSUME TypeOK, NEW q \in Reqs, req[q].step \in Steps, NEW s \in Steps,
           req' = [req EXCEPT ![q].step = s]
    PROVE  req' \in [Reqs -> Flight \cup {Idle}]
BY DEF TypeOK, Flight, Idle, Steps

\* A request at a step of its own is in flight, so its fields have types.
LEMMA RequestInFlight ==
    ASSUME TypeOK, NEW q \in Reqs, req[q].step \in Steps
    PROVE  req[q] \in Flight /\ req[q] # Idle
BY DEF TypeOK, Flight, Idle, Steps

\* Replacing what bars one account keeps the type.
LEMMA BarsType ==
    ASSUME TypeOK, NEW u, NEW B \in SUBSET Bars, SetBars(u, B)
    PROVE  bars' \in [Users -> SUBSET Bars]
BY DEF TypeOK, SetBars

LEMMA InitType == Init => TypeOK
<1> SUFFICES ASSUME Init PROVE TypeOK
  OBVIOUS
<1>1. {{}, {"absent"}} \subseteq SUBSET Bars
  BY DEF Bars
<1>2. bars \in [Users -> SUBSET Bars]
  BY <1>1 DEF Init
<1>3. gen \in [Users -> 0 .. MaxRevocations]
  BY BoundAssumption DEF Init
<1> QED
  BY <1>2, <1>3 DEF Init, TypeOK

\* Signing in and refreshing keep the types.
LEMMA SignInType ==
    ASSUME TypeOK, NEW q \in Reqs, SignIn(q) PROVE TypeOK'
<1>1. ASSUME NEW u \in Users, LoginRead(q, u) PROVE TypeOK'
  <2>1. \E kind \in Kinds : Begin(q, "compare", u, kind, gen[u])
    BY <1>1 DEF LoginRead, Kinds
  <2>2. gen[u] \in Nat
    BY BoundAssumption DEF TypeOK
  <2>3. req' \in [Reqs -> Flight \cup {Idle}]
    BY <2>1, <2>2, BeginType DEF Steps
  <2> QED
    BY <1>1, <2>3 DEF LoginRead, account, TypeOK
<1>2. ASSUME NEW u \in Users, FailedAttempt(u) PROVE bars' \in [Users -> SUBSET Bars]
  <2>1. PICK B \in {bars[u], bars[u] \cup {"locked"}} : SetBars(u, B)
    BY <1>2 DEF FailedAttempt
  <2>2. B \in SUBSET Bars
    BY <2>1 DEF TypeOK, Bars
  <2> QED
    BY <2>1, <2>2, BarsType
<1>3. CASE WrongPassword(q)
  <2>1. req[q].user \in Users
    BY <1>3, RequestInFlight DEF WrongPassword, Steps, Flight
  <2> QED
    BY <1>2, <1>3, <2>1, FinishType DEF WrongPassword, TypeOK
<1>4. CASE RightPassword(q)
  <2>1. \E s \in Steps : req' = [req EXCEPT ![q].step = s]
    BY <1>4 DEF RightPassword, Steps
  <2>2. req[q].step \in Steps
    BY <1>4 DEF RightPassword, Steps
  <2>3. req' \in [Reqs -> Flight \cup {Idle}]
    BY <2>1, <2>2, StepType
  <2> QED
    BY <1>4, <2>3 DEF RightPassword, account, TypeOK
<1>5. CASE VerifyCode(q)
  <2>1. req[q] \in Flight
    BY <1>5, RequestInFlight DEF VerifyCode, Steps
  <2>2. req[q].user \in Users /\ req[q].gen \in Nat
    BY <2>1 DEF Flight
  <2>3. req' \in [Reqs -> Flight \cup {Idle}]
    BY <1>5, <2>2, BeginType DEF VerifyCode, Steps, Kinds
  <2> QED
    BY <1>5, <2>3 DEF VerifyCode, account, TypeOK
<1>6. CASE WrongCode(q)
  <2>1. req[q].user \in Users
    BY <1>6, RequestInFlight DEF WrongCode, Steps, Flight
  <2>2. FailedAttempt(req[q].user)
    BY <1>6 DEF WrongCode
  <2> QED
    BY <1>2, <1>6, <2>1, <2>2 DEF WrongCode, TypeOK
<1>7. CASE TempTokenExpires(q)
  BY <1>7, FinishType DEF TempTokenExpires, account, TypeOK
<1>8. CASE Issue(q)
  <2>1. req[q] \in Flight
    BY <1>8, RequestInFlight DEF Issue, Steps
  <2>2. SignedToken(q) \in Token
    BY <2>1 DEF SignedToken, Token, Flight
  <2>3. PICK B \in {{}, {"locked"}} : SetBars(req[q].user, bars[req[q].user] \ B)
    BY <1>8 DEF Issue
  <2>4. bars[req[q].user] \ B \in SUBSET Bars
    BY <2>1 DEF Flight, TypeOK
  <2>5. bars' \in [Users -> SUBSET Bars]
    BY <2>3, <2>4, BarsType
  <2>6. Finish(q) \/ req' = [req EXCEPT ![q].step = "verify"]
    BY <1>8 DEF Issue
  <2>7. req' \in [Reqs -> Flight \cup {Idle}]
    BY <1>8, <2>6, FinishType, StepType DEF Issue, Steps
  <2> QED
    BY <1>8, <2>2, <2>5, <2>7 DEF Issue, TypeOK
<1> QED
  BY <1>1, <1>3, <1>4, <1>5, <1>6, <1>7, <1>8 DEF SignIn

LEMMA RefreshType ==
    ASSUME TypeOK, NEW q \in Reqs, Refresh(q) PROVE TypeOK'
<1>1. ASSUME NEW t \in tokens, RefreshRead(q, t) PROVE TypeOK'
  <2>1. t.user \in Users /\ t.gen \in Nat
    BY DEF TypeOK, Token
  <2>2. req' \in [Reqs -> Flight \cup {Idle}]
    BY <1>1, <2>1, BeginType DEF RefreshRead, Steps, Kinds
  <2> QED
    BY <1>1, <2>2 DEF RefreshRead, account, TypeOK
<1>2. CASE RefreshIssue(q)
  <2>1. req[q] \in Flight
    BY <1>2, RequestInFlight DEF RefreshIssue, Steps
  <2>2. SignedToken(q) \in Token
    BY <2>1 DEF SignedToken, Token, Flight
  <2> QED
    BY <1>2, <2>2, FinishType DEF RefreshIssue, account, TypeOK
<1>3. CASE RefreshDenied(q)
  BY <1>3, FinishType DEF RefreshDenied, account, TypeOK
<1> QED
  BY <1>1, <1>2, <1>3 DEF Refresh

\* Raising tv in SQL keeps the types of tv and of the history counter.
LEMMA IncrementType ==
    ASSUME TypeOK, NEW S \in SUBSET Users, Increment(S),
           \A u \in S : gen[u] < MaxRevocations
    PROVE  tv' \in [Users -> Nat] /\ gen' \in [Users -> 0 .. MaxRevocations]
BY BoundAssumption DEF TypeOK, Increment

LEMMA RevokeType ==
    ASSUME TypeOK, Revoke PROVE TypeOK'
<1>1. ASSUME NEW u \in Users, Logout(u) \/ ForceLogoutSession(u) PROVE TypeOK'
  <2>1. Increment({u}) /\ gen[u] < MaxRevocations
    BY <1>1 DEF Logout, ForceLogoutSession, MayRevoke
  <2>2. tv' \in [Users -> Nat] /\ gen' \in [Users -> 0 .. MaxRevocations]
    BY <2>1, IncrementType
  <2> QED
    BY <1>1, <2>2 DEF Logout, ForceLogoutSession, TypeOK
<1>2. ASSUME NEW S \in SUBSET Users, DeleteRole(S) PROVE TypeOK'
  <2>1. tv' \in [Users -> Nat] /\ gen' \in [Users -> 0 .. MaxRevocations]
    BY <1>2, IncrementType DEF DeleteRole, MayRevoke
  <2>2. bars' \in [Users -> SUBSET Bars]
    BY <1>2 DEF DeleteRole, TypeOK
  <2> QED
    BY <1>2, <2>1, <2>2 DEF DeleteRole, TypeOK
<1>3. ASSUME NEW q \in Reqs, NEW u \in Users, NEW kind \in Kinds \ {"plain", "2fa"},
             RevokeRead(q, u, kind)
      PROVE  TypeOK'
  <2>1. gen[u] \in Nat
    BY BoundAssumption DEF TypeOK
  <2>2. req' \in [Reqs -> Flight \cup {Idle}]
    BY <1>3, <2>1, BeginType DEF RevokeRead, Steps
  <2> QED
    BY <1>3, <2>2 DEF RevokeRead, account, TypeOK
<1>4. ASSUME NEW q \in Reqs, RevokeSave(q) PROVE TypeOK'
  <2> DEFINE u == req[q].user
  <2>1. req[q] \in Flight
    BY <1>4, RequestInFlight DEF RevokeSave, Steps
  <2>2. u \in Users /\ req[q].tv \in Nat
    BY <2>1 DEF Flight
  <2>3. req' \in [Reqs -> Flight \cup {Idle}]
    BY <1>4, FinishType DEF RevokeSave
  <2>4. CASE Present(u)
    <3>1. /\ gen[u] < MaxRevocations
          /\ tv' = [tv EXCEPT ![u] = req[q].tv + 1]
          /\ \E B \in BarsAfter(u, req[q].kind) : SetBars(u, B)
          /\ gen' = [gen EXCEPT ![u] = @ + 1]
      BY <1>4, <2>4 DEF RevokeSave
    <3>2. tv' \in [Users -> Nat] /\ gen' \in [Users -> 0 .. MaxRevocations]
      BY <2>2, <3>1, BoundAssumption DEF TypeOK
    <3>3. BarsAfter(u, req[q].kind) \subseteq SUBSET Bars
      <4>1. bars[u] \subseteq Bars /\ "inactive" \in Bars
        BY <2>2 DEF TypeOK, Bars
      <4> QED
        BY <4>1 DEF BarsAfter
    <3>4. bars' \in [Users -> SUBSET Bars]
      BY <3>1, <3>3, BarsType
    <3> QED
      BY <1>4, <2>3, <3>2, <3>4 DEF RevokeSave, TypeOK
  <2>5. CASE ~Present(u)
    <3>1. UNCHANGED <<tv, bars, gen>>
      BY <1>4, <2>5 DEF RevokeSave
    <3> QED
      BY <1>4, <2>3, <3>1 DEF RevokeSave, TypeOK
  <2> QED
    BY <2>4, <2>5
<1>5. ASSUME NEW q \in Reqs, RevokeAbandoned(q) PROVE TypeOK'
  BY <1>5, FinishType DEF RevokeAbandoned, account, TypeOK
<1> QED
  BY <1>1, <1>2, <1>3, <1>4, <1>5 DEF Revoke

LEMMA AdministerType ==
    ASSUME TypeOK, Administer PROVE TypeOK'
<1>1. ASSUME NEW u \in Users, ApproveUser(u) \/ RejectUser(u) \/ RestoreUser(u) \/ LockExpires(u)
      PROVE  TypeOK'
  <2>1. PICK B \in SUBSET Bars : SetBars(u, B)
    BY <1>1 DEF ApproveUser, RejectUser, RestoreUser, LockExpires, TypeOK, Bars
  <2>2. bars' \in [Users -> SUBSET Bars]
    BY <2>1, BarsType
  <2> QED
    BY <1>1, <2>2 DEF ApproveUser, RejectUser, RestoreUser, LockExpires, TypeOK
<1>2. ASSUME NEW u \in Users, Register(u) PROVE TypeOK'
  <2>1. PICK B \in {{}, {"inactive"}, {"role"}} : SetBars(u, B)
    BY <1>2 DEF Register
  <2>2. B \in SUBSET Bars
    BY <2>1 DEF Bars
  <2>3. bars' \in [Users -> SUBSET Bars]
    BY <2>1, <2>2, BarsType
  <2>4. gen' \in [Users -> 0 .. MaxRevocations]
    BY <1>2, BoundAssumption DEF Register, TypeOK
  <2> QED
    BY <1>2, <2>3, <2>4 DEF Register, TypeOK
<1>3. ASSUME NEW u \in Users, DeleteUser(u) PROVE TypeOK'
  <2>1. bars[u] \cup {"deleted"} \in SUBSET Bars
    BY DEF TypeOK, Bars
  <2>2. bars' \in [Users -> SUBSET Bars]
    BY <1>3, <2>1, BarsType DEF DeleteUser
  <2> QED
    BY <1>3, <2>2 DEF DeleteUser, TypeOK
<1>4. ASSUME NEW u \in Users, NEW on \in BOOLEAN, SetTwoFactor(u, on) PROVE TypeOK'
  BY <1>4 DEF SetTwoFactor, TypeOK
<1>5. ASSUME NEW S \in SUBSET Users, NEW active \in BOOLEAN, SetRoleActive(S, active)
      PROVE  TypeOK'
  <2>1. \A u \in Users : bars[u] \cup {"role"} \in SUBSET Bars /\ bars[u] \ {"role"} \in SUBSET Bars
    BY DEF TypeOK, Bars
  <2>2. bars' \in [Users -> SUBSET Bars]
    BY <1>5, <2>1 DEF SetRoleActive
  <2> QED
    BY <1>5, <2>2 DEF SetRoleActive, TypeOK
<1> QED
  BY <1>1, <1>2, <1>3, <1>4, <1>5 DEF Administer

LEMMA TypeStep == TypeOK /\ [Next]_vars => TypeOK'
<1> SUFFICES ASSUME TypeOK, [Next]_vars PROVE TypeOK'
  OBVIOUS
<1>1. CASE UNCHANGED vars
  BY <1>1 DEF vars, TypeOK
<1> QED
  BY <1>1, SignInType, RefreshType, RevokeType, AdministerType DEF Next

\* Type correctness: every variable keeps its type, and the counter of
\* revocations its bound, whatever the workload.
THEOREM TypeCorrect == Spec => []TypeOK
BY InitType, TypeStep, PTL DEF Spec

----------------------------------------------------------------------------
(* Revocation, when the revocations of an account do not overlap and no used *)
(* id is registered again.                                                   *)

\* A credential as a token or a request holds it.
Cred(c) == c.user \in Users /\ c.tv \in Nat /\ c.gen \in Nat

LEMMA CredType ==
    ASSUME TypeOK
    PROVE  /\ \A t \in tokens : Cred(t)
           /\ \A q \in Reqs : req[q] # Idle => req[q] \in Flight /\ Cred(req[q])
<1>1. \A t \in tokens : Cred(t)
  BY DEF TypeOK, Token, Cred
<1>2. ASSUME NEW q \in Reqs, req[q] # Idle PROVE req[q] \in Flight
  BY <1>2 DEF TypeOK
<1>3. \A x \in Flight : Cred(x)
  BY DEF Flight, Cred
<1> QED
  BY <1>1, <1>2, <1>3

\* Steps that revoke nothing: what they hand out or put in flight follows.
LEMMA QuietStep ==
    ASSUME IInv, TypeOK', UNCHANGED <<tv, gen>>,
           \A t \in tokens' : t \in tokens \/ Follows(t),
           \A p \in Reqs : \/ req'[p] = req[p]
                           \/ req'[p] = Idle
                           \/ req'[p].step # "save" /\ Follows(req'[p])
    PROVE  IInv'
<1>1. \A c : Follows(c) => Follows(c)'
  BY DEF Follows, Matches
<1>2. CountersFollow'
  BY DEF IInv, CountersFollow
<1>3. TokensFollow'
  BY <1>1 DEF IInv, TokensFollow
<1>4. FlightsFollow'
  BY <1>1 DEF IInv, FlightsFollow, IsSave
<1>5. \A p \in Reqs : IsSave(p)' => IsSave(p) /\ req'[p] = req[p]
  BY DEF IsSave
<1>6. SavesCurrent'
  BY <1>5 DEF IInv, SavesCurrent
<1>7. SavesAlone'
  BY <1>5 DEF IInv, SavesAlone
<1> QED
  BY <1>2, <1>3, <1>4, <1>6, <1>7 DEF IInv

\* A credential follows its account through a revocation.
LEMMA FollowsIncrement ==
    ASSUME TypeOK, NEW S \in SUBSET Users, Increment(S), NEW c, Cred(c), Follows(c)
    PROVE  Follows(c)'
<1>1. tv[c.user] \in Nat /\ gen[c.user] \in Nat
  BY BoundAssumption DEF TypeOK, Cred
<1>2. /\ tv'[c.user] = IF c.user \in S THEN tv[c.user] + 1 ELSE tv[c.user]
      /\ gen'[c.user] = IF c.user \in S THEN gen[c.user] + 1 ELSE gen[c.user]
  BY DEF Increment, Cred
<1> QED
  BY <1>1, <1>2 DEF Follows, Matches, Cred

\* A revocation of the accounts S, none of which is in the middle of another.
LEMMA RevokingStep ==
    ASSUME IInv, TypeOK', NEW S \in SUBSET Users, Increment(S),
           tokens' = tokens,
           \A p \in Reqs : req'[p] = req[p] \/ req'[p] = Idle,
           \A p \in Reqs : IsSave(p)' => req[p].user \notin S
    PROVE  IInv'
<1> USE DEF IInv
<1>1. CountersFollow'
  <2> SUFFICES ASSUME NEW u \in Users PROVE tv'[u] <= gen'[u]
    BY DEF CountersFollow
  <2>1. tv[u] \in Nat /\ gen[u] \in Nat /\ tv[u] <= gen[u]
    BY BoundAssumption DEF TypeOK, CountersFollow
  <2> QED
    BY <2>1 DEF Increment
<1>2. TokensFollow'
  BY CredType, FollowsIncrement DEF TokensFollow
<1>3. FlightsFollow'
  <2> SUFFICES ASSUME NEW p \in Reqs, req'[p] # Idle, ~IsSave(p)' PROVE Follows(req[p])'
    BY DEF FlightsFollow
  <2>1. req'[p] = req[p] /\ req[p] # Idle /\ ~IsSave(p)
    BY DEF IsSave
  <2>2. Cred(req[p]) /\ Follows(req[p])
    BY <2>1, CredType DEF FlightsFollow
  <2>3. \A c : Cred(c) /\ Follows(c) => Follows(c)'
    BY FollowsIncrement
  <2> QED
    BY <2>1, <2>2, <2>3 DEF Follows, Matches
<1>4. \A p \in Reqs : IsSave(p)' => IsSave(p) /\ req'[p] = req[p] /\ req[p].user \in Users \ S
  <2> SUFFICES ASSUME NEW p \in Reqs, IsSave(p)'
               PROVE  IsSave(p) /\ req'[p] = req[p] /\ req[p].user \in Users \ S
    OBVIOUS
  <2>1. IsSave(p) /\ req'[p] = req[p]
    BY DEF IsSave
  <2>2. req[p].user \in Users
    BY <2>1, CredType DEF IsSave, Cred
  <2> QED
    BY <2>1, <2>2
<1>5. SavesCurrent'
  BY <1>4 DEF SavesCurrent, Increment
<1>6. SavesAlone'
  BY <1>4 DEF SavesAlone
<1> QED
  BY <1>1, <1>2, <1>3, <1>5, <1>6

\* A sign-in or a refresh hands out at most one credential, which follows.
Handout ==
    /\ UNCHANGED <<tv, gen>>
    /\ tokens' = tokens \/ \E c \in Token : Follows(c) /\ tokens' = tokens \cup {c}

LEMMA Signing ==
    ASSUME IInv, NEW q \in Reqs, req[q] # Idle, ~IsSave(q),
           tokens' = tokens \cup {SignedToken(q)}, UNCHANGED <<tv, gen>>
    PROVE  Handout /\ \A t \in tokens' : t \in tokens \/ Follows(t)
<1>1. req[q] \in Flight /\ Follows(req[q])
  BY CredType DEF IInv, FlightsFollow
<1>2. SignedToken(q) \in Token
  BY <1>1 DEF SignedToken, Token, Flight
<1>3. Follows(SignedToken(q))
  BY <1>1 DEF Follows, Matches, SignedToken
<1> QED
  BY <1>2, <1>3 DEF Handout

\* A request that moves to another step holds the credential it held.
LEMMA Moving ==
    ASSUME IInv, NEW q \in Reqs, req[q] # Idle, ~IsSave(q),
           NEW s \in Steps \ {"save"}, req' = [req EXCEPT ![q].step = s]
    PROVE  \A p \in Reqs : req'[p] = req[p] \/ (req'[p].step # "save" /\ Follows(req'[p]))
<1>1. req[q] \in Flight /\ Follows(req[q])
  BY CredType DEF IInv, FlightsFollow
<1>2. req'[q] = [req[q] EXCEPT !.step = s]
  BY DEF IInv, TypeOK
<1>3. /\ req'[q].step = s /\ req'[q].user = req[q].user
      /\ req'[q].tv = req[q].tv /\ req'[q].gen = req[q].gen
  BY <1>1, <1>2 DEF Flight
<1>4. Follows(req'[q])
  BY <1>1, <1>3 DEF Follows, Matches
<1> QED
  BY <1>3, <1>4 DEF IInv, TypeOK

\* A request that begins holds the tv the row has now.
LEMMA Beginning ==
    ASSUME IInv, NEW q \in Reqs, NEW u \in Users, NEW s \in Steps \ {"save"},
           NEW kind, NEW g \in Nat, g = gen[u], Begin(q, s, u, kind, g)
    PROVE  \A p \in Reqs : req'[p] = req[p] \/ (req'[p].step # "save" /\ Follows(req'[p]))
<1>1. req'[q] = [step |-> s, user |-> u, kind |-> kind, tv |-> tv[u], gen |-> g]
  BY DEF Begin, IInv, TypeOK
<1>2. tv[u] \in Nat /\ gen[u] \in Nat
  BY BoundAssumption DEF IInv, TypeOK
<1>3. Follows(req'[q])
  BY <1>1, <1>2 DEF Follows, Matches
<1> QED
  BY <1>1, <1>3 DEF Begin, IInv, TypeOK

LEMMA SignInStep ==
    ASSUME IInv, TypeOK', NEW q \in Reqs, SignIn(q) PROVE Handout /\ IInv'
<1> USE DEF Handout
<1>1. ASSUME NEW u \in Users, LoginRead(q, u) PROVE Handout /\ IInv'
  <2>1. PICK kind : Begin(q, "compare", u, kind, gen[u])
    BY <1>1 DEF LoginRead
  <2>2. gen[u] \in Nat
    BY BoundAssumption DEF IInv, TypeOK
  <2>3. \A p \in Reqs : req'[p] = req[p] \/ (req'[p].step # "save" /\ Follows(req'[p]))
    BY <2>1, <2>2, Beginning DEF Steps
  <2> QED
    BY <1>1, <2>3, QuietStep DEF LoginRead, account
<1>2. ASSUME Finish(q) PROVE \A p \in Reqs : req'[p] = req[p] \/ req'[p] = Idle
  BY <1>2 DEF Finish, IInv, TypeOK
<1>3. CASE WrongPassword(q)
  BY <1>2, <1>3, QuietStep DEF WrongPassword
<1>4. ASSUME req[q].step \in Steps \ {"save"} PROVE req[q] # Idle /\ ~IsSave(q)
  BY <1>4, RequestInFlight DEF IInv, IsSave
<1>5. CASE RightPassword(q)
  <2>1. \E s \in Steps \ {"save"} : req' = [req EXCEPT ![q].step = s]
    BY <1>5 DEF RightPassword, Steps
  <2>2. req[q] # Idle /\ ~IsSave(q)
    BY <1>4, <1>5 DEF RightPassword, Steps
  <2>3. \A p \in Reqs : req'[p] = req[p] \/ (req'[p].step # "save" /\ Follows(req'[p]))
    BY <2>1, <2>2, Moving
  <2> QED
    BY <1>5, <2>3, QuietStep DEF RightPassword, account
<1>6. CASE VerifyCode(q)
  <2> DEFINE u == req[q].user
  <2>1. req[q] # Idle /\ ~IsSave(q)
    BY <1>4, <1>6 DEF VerifyCode, Steps
  <2>2. u \in Users /\ req[q].gen \in Nat /\ Follows(req[q])
    BY <2>1, CredType DEF IInv, FlightsFollow, Cred
  <2>3. Begin(q, "issue", u, "2fa", req[q].gen) /\ req[q].gen = gen[u]
    BY <1>6, <2>2 DEF VerifyCode, Follows
  <2>4. \A p \in Reqs : req'[p] = req[p] \/ (req'[p].step # "save" /\ Follows(req'[p]))
    BY <2>2, <2>3, Beginning DEF Steps
  <2> QED
    BY <1>6, <2>4, QuietStep DEF VerifyCode, account
<1>7. CASE WrongCode(q)
  BY <1>7, QuietStep DEF WrongCode
<1>8. CASE TempTokenExpires(q)
  BY <1>2, <1>8, QuietStep DEF TempTokenExpires, account
<1>9. CASE Issue(q)
  <2>1. req[q] # Idle /\ ~IsSave(q)
    BY <1>4, <1>9 DEF Issue, Steps
  <2>2. Handout /\ \A t \in tokens' : t \in tokens \/ Follows(t)
    BY <1>9, <2>1, Signing DEF Issue
  <2>3. Finish(q) \/ req' = [req EXCEPT ![q].step = "verify"]
    BY <1>9 DEF Issue
  <2>4. \A p \in Reqs : \/ req'[p] = req[p] \/ req'[p] = Idle
                        \/ req'[p].step # "save" /\ Follows(req'[p])
    BY <1>2, <2>1, <2>3, Moving DEF Steps
  <2> QED
    BY <1>9, <2>2, <2>4, QuietStep DEF Issue
<1> QED
  BY <1>1, <1>3, <1>5, <1>6, <1>7, <1>8, <1>9 DEF SignIn

LEMMA RefreshStep ==
    ASSUME IInv, TypeOK', NEW q \in Reqs, Refresh(q) PROVE Handout /\ IInv'
<1>1. ASSUME NEW t \in tokens, RefreshRead(q, t) PROVE Handout /\ IInv'
  <2>1. t.user \in Users /\ t.gen \in Nat /\ Follows(t)
    BY CredType DEF IInv, TokensFollow, Cred
  <2>2. Begin(q, "rotate", t.user, "plain", t.gen) /\ t.gen = gen[t.user]
    BY <1>1, <2>1 DEF RefreshRead, Follows
  <2>3. \A p \in Reqs : req'[p] = req[p] \/ (req'[p].step # "save" /\ Follows(req'[p]))
    BY <2>1, <2>2, Beginning DEF Steps
  <2> QED
    BY <1>1, <2>3, QuietStep DEF RefreshRead, account, Handout
<1>2. ASSUME Finish(q) PROVE \A p \in Reqs : req'[p] = req[p] \/ req'[p] = Idle
  BY <1>2 DEF Finish, IInv, TypeOK
<1>3. CASE RefreshIssue(q)
  <2>1. req[q] # Idle /\ ~IsSave(q)
    BY <1>3, RequestInFlight DEF RefreshIssue, Steps, IInv, IsSave
  <2>2. Handout /\ \A t \in tokens' : t \in tokens \/ Follows(t)
    BY <1>3, <2>1, Signing DEF RefreshIssue, account
  <2> QED
    BY <1>2, <1>3, <2>2, QuietStep DEF RefreshIssue, account
<1>4. CASE RefreshDenied(q)
  BY <1>2, <1>4, QuietStep DEF RefreshDenied, account, Handout
<1> QED
  BY <1>1, <1>3, <1>4 DEF Refresh

\* Steps that hand nothing out: a revocation of some accounts, the first row of
\* an unused id, or neither.
Revocations ==
    /\ tokens' = tokens
    /\ \/ UNCHANGED <<tv, gen>>
       \/ \E S \in SUBSET Users : Increment(S)
       \/ \E u \in Users : ~SignedIn(u) /\ tv' = [tv EXCEPT ![u] = 0]

LEMMA RevokeStep ==
    ASSUME Allow = {}, IInv, TypeOK', Revoke PROVE Revocations /\ IInv'
<1> USE DEF Revocations
<1>1. ASSUME NEW S \in SUBSET Users, Increment(S), \A u \in S : MayRevoke(u),
             tokens' = tokens, req' = req
      PROVE  IInv'
  <2>1. \A u \in S : ~Saving(u)
    BY <1>1 DEF MayRevoke
  <2>2. \A p \in Reqs : IsSave(p)' => req[p].user \notin S
    BY <1>1, <2>1 DEF IsSave, Saving
  <2> QED
    BY <1>1, <2>2, RevokingStep
<1>2. ASSUME NEW u \in Users, Logout(u) \/ ForceLogoutSession(u)
      PROVE  Revocations /\ IInv'
  <2>1. {u} \in SUBSET Users /\ Increment({u}) /\ \A v \in {u} : MayRevoke(v)
    BY <1>2 DEF Logout, ForceLogoutSession
  <2>2. tokens' = tokens /\ req' = req
    BY <1>2 DEF Logout, ForceLogoutSession
  <2> QED
    BY <1>1, <2>1, <2>2
<1>3. ASSUME NEW S \in SUBSET Users, DeleteRole(S) PROVE Revocations /\ IInv'
  BY <1>1, <1>3 DEF DeleteRole
<1>4. ASSUME NEW q \in Reqs, NEW u \in Users, NEW kind \in Kinds \ {"plain", "2fa"},
             RevokeRead(q, u, kind)
      PROVE  Revocations /\ IInv'
  <2>1. tokens' = tokens /\ tv' = tv /\ gen' = gen
    BY <1>4 DEF RevokeRead, account
  <2>2. ~Saving(u)
    BY <1>4 DEF RevokeRead, MayRevoke
  <2>3. req' = [req EXCEPT ![q] =
            [step |-> "save", user |-> u, kind |-> kind, tv |-> tv[u], gen |-> gen[u]]]
    BY <1>4 DEF RevokeRead, Begin
  <2>4. /\ req'[q] = [step |-> "save", user |-> u, kind |-> kind, tv |-> tv[u], gen |-> gen[u]]
        /\ \A p \in Reqs : p # q => req'[p] = req[p]
    BY <2>3 DEF IInv, TypeOK
  <2>5. /\ req'[q].step = "save" /\ req'[q].user = u /\ req'[q].tv = tv[u]
    BY <2>4
  <2>6. \A p \in Reqs : IsSave(p) => req[p].user # u
    BY <2>2 DEF Saving
  <2>7. \A c : Follows(c) => Follows(c)'
    BY <2>1 DEF Follows, Matches
  <2>8. CountersFollow' /\ TokensFollow'
    BY <2>1, <2>7 DEF IInv, CountersFollow, TokensFollow
  <2>9. FlightsFollow'
    BY <2>4, <2>5, <2>7 DEF IInv, FlightsFollow, IsSave
  <2>10. SavesCurrent'
    BY <2>1, <2>4, <2>5 DEF IInv, SavesCurrent, IsSave
  <2>11. SavesAlone'
    BY <2>4, <2>5, <2>6 DEF IInv, SavesAlone, IsSave
  <2> QED
    BY <2>1, <2>8, <2>9, <2>10, <2>11 DEF IInv
<1>5. ASSUME NEW q \in Reqs, Finish(q)
      PROVE  /\ \A p \in Reqs : req'[p] = req[p] \/ req'[p] = Idle
             /\ ~IsSave(q)'
  BY <1>5 DEF Finish, IInv, TypeOK, IsSave
<1>6. ASSUME NEW q \in Reqs, RevokeSave(q) PROVE Revocations /\ IInv'
  <2> DEFINE u == req[q].user
  <2>1. IsSave(q) /\ u \in Users /\ req[q].tv = tv[u]
    <3>1. req[q] # Idle /\ req[q] \in Flight
      BY <1>6, RequestInFlight DEF RevokeSave, Steps, IInv
    <3> QED
      BY <1>6, <3>1 DEF RevokeSave, IsSave, Flight, IInv, SavesCurrent
  <2>2. CASE Present(u)
    <3>1. /\ tv' = [tv EXCEPT ![u] = tv[u] + 1]
          /\ gen' = [gen EXCEPT ![u] = gen[u] + 1]
      BY <1>6, <2>1, <2>2 DEF RevokeSave
    <3>2. Increment({u})
      BY <2>1, <3>1 DEF Increment, IInv, TypeOK
    <3>3. \A p \in Reqs : IsSave(p)' => req[p].user # u
      BY <1>5, <1>6, <2>1 DEF RevokeSave, IInv, SavesAlone, IsSave
    <3> QED
      BY <1>5, <1>6, <2>1, <3>2, <3>3, RevokingStep DEF RevokeSave
  <2>3. CASE ~Present(u)
    <3>1. UNCHANGED <<tv, gen>>
      BY <1>6, <2>3 DEF RevokeSave
    <3> QED
      BY <1>5, <1>6, <3>1, QuietStep DEF RevokeSave
  <2> QED
    BY <2>2, <2>3
<1>7. ASSUME NEW q \in Reqs, RevokeAbandoned(q) PROVE Revocations /\ IInv'
  BY <1>5, <1>7, QuietStep DEF RevokeAbandoned, account
<1> QED
  BY <1>2, <1>3, <1>4, <1>6, <1>7 DEF Revoke

LEMMA AdministerStep ==
    ASSUME Allow = {}, IInv, TypeOK', Administer PROVE Revocations /\ IInv'
<1> USE DEF Revocations
<1>1. ASSUME NEW u \in Users, Register(u) PROVE Revocations /\ IInv'
  <2>1. Unused(u) /\ tv' = [tv EXCEPT ![u] = 0] /\ gen' = gen /\ tokens' = tokens /\ req' = req
    BY <1>1 DEF Register
  <2>2. /\ \A t \in tokens : t.user # u
        /\ \A q \in Reqs : req[q] # Idle => req[q].user # u
    BY <2>1 DEF Unused, SignedIn
  <2>3. \A c : Cred(c) /\ Follows(c) /\ c.user # u => Follows(c)'
    BY <2>1 DEF Follows, Matches, Cred, IInv, TypeOK
  <2>4. CountersFollow'
    BY <2>1, BoundAssumption DEF IInv, CountersFollow, TypeOK
  <2>5. TokensFollow'
    BY <2>1, <2>2, <2>3, CredType DEF IInv, TokensFollow
  <2>6. FlightsFollow'
    <3>1. \A q \in Reqs : req[q] # Idle /\ ~IsSave(q) => Follows(req[q]) /\ Cred(req[q])
      BY CredType DEF IInv, FlightsFollow
    <3> SUFFICES ASSUME NEW q \in Reqs, req[q] # Idle, ~IsSave(q)
                 PROVE  Follows(req[q])'
      BY <2>1 DEF FlightsFollow, IsSave
    <3>2. tv'[req[q].user] = tv[req[q].user] /\ gen'[req[q].user] = gen[req[q].user]
      BY <2>1, <2>2, <3>1 DEF IInv, TypeOK, Cred
    <3> QED
      BY <2>1, <3>1, <3>2 DEF Follows, Matches
  <2>7. SavesCurrent'
    BY <2>1, <2>2, CredType DEF IInv, SavesCurrent, IsSave, Cred, TypeOK
  <2>8. SavesAlone'
    BY <2>1 DEF IInv, SavesAlone, IsSave
  <2> QED
    BY <2>1, <2>2, <2>4, <2>5, <2>6, <2>7, <2>8 DEF IInv, Unused
<1>2. CASE UNCHANGED <<tv, tokens, req, gen>>
  BY <1>2, QuietStep
<1> QED
  BY <1>1, <1>2 DEF Administer, ApproveUser, RejectUser, DeleteUser, RestoreUser,
                    LockExpires, SetTwoFactor, SetRoleActive

LEMMA IInvInit == Init => IInv
<1> SUFFICES ASSUME Init PROVE IInv
  OBVIOUS
<1>1. TypeOK
  BY InitType
<1>2. \A q \in Reqs : req[q] = Idle
  BY DEF Init
<1>3. CountersFollow /\ TokensFollow
  BY DEF Init, CountersFollow, TokensFollow
<1>4. FlightsFollow /\ SavesCurrent /\ SavesAlone
  BY <1>2 DEF FlightsFollow, SavesCurrent, SavesAlone, IsSave
<1> QED
  BY <1>1, <1>3, <1>4 DEF IInv

LEMMA IInvStep ==
    ASSUME Allow = {}, IInv, [Next]_vars
    PROVE  IInv' /\ (Handout \/ Revocations)
<1>1. TypeOK'
  BY TypeStep DEF IInv
<1>2. CASE UNCHANGED vars
  BY <1>1, <1>2, QuietStep DEF vars, Handout
<1> QED
  BY <1>1, <1>2, SignInStep, RefreshStep, RevokeStep, AdministerStep DEF Next

\* The inductive invariant: no credential is ahead of its account, a credential
\* level with it saw every revocation, and a revocation between its read and
\* its save is the only one of its account and has read the current tv.
THEOREM Invariance ==
    ASSUME Allow = {}
    PROVE  Spec => []IInv
BY IInvInit, IInvStep, PTL DEF Spec

\* What passes the tokenVersion check descends from a sign-in that came after
\* the account's last revocation.
THEOREM LiveTokensAreRecent ==
    ASSUME Allow = {}
    PROVE  Spec => []LiveTokensPostdateRevocations
<1>1. IInv => LiveTokensPostdateRevocations
  BY DEF IInv, TokensFollow, Follows, LiveTokensPostdateRevocations
<1> QED
  BY <1>1, Invariance, PTL

\* So does what is about to be signed.
THEOREM PendingSignInsAreRecent ==
    ASSUME Allow = {}
    PROVE  Spec => []PendingSignInsPostdateRevocations
<1>1. IInv => PendingSignInsPostdateRevocations
  BY DEF IInv, FlightsFollow, Follows, IsSave, PendingSignInsPostdateRevocations
<1> QED
  BY <1>1, Invariance, PTL

\* The tv of an account somebody holds a token of never falls.
LEMMA NeverBack ==
    ASSUME Allow = {}, IInv, [Next]_vars, NEW t \in tokens
    PROVE  Cred(t) /\ tv[t.user] \in Nat /\ tv'[t.user] \in Nat /\ tv[t.user] <= tv'[t.user]
<1>1. Cred(t)
  BY CredType DEF IInv
<1>2. tv[t.user] \in Nat
  BY <1>1 DEF Cred, IInv, TypeOK
<1>3. CASE Handout
  BY <1>1, <1>2, <1>3 DEF Handout
<1>4. CASE Revocations
  <2>1. CASE UNCHANGED <<tv, gen>>
    BY <1>1, <1>2, <2>1
  <2>2. CASE \E S \in SUBSET Users : Increment(S)
    BY <1>1, <1>2, <2>2 DEF Increment, Cred
  <2>3. CASE \E u \in Users : ~SignedIn(u) /\ tv' = [tv EXCEPT ![u] = 0]
    BY <1>1, <1>2, <2>3 DEF SignedIn, Cred, IInv, TypeOK
  <2> QED
    BY <1>4, <2>1, <2>2, <2>3 DEF Revocations
<1> QED
  BY <1>3, <1>4, IInvStep

\* A token that no longer passes the check never passes it again.
THEOREM RevocationIsFinal ==
    ASSUME Allow = {}
    PROVE  Spec => RevokedForGood
<1> DEFINE A == \A t \in tokens : ~Matches(t) => ~Matches(t)'
<1>1. ASSUME IInv, [Next]_vars PROVE A
  <2> SUFFICES ASSUME NEW t \in tokens, ~Matches(t) PROVE ~Matches(t)'
    OBVIOUS
  <2>1. t.tv \in Nat /\ t.tv <= tv[t.user] /\ t.tv # tv[t.user]
    BY <1>1, CredType DEF IInv, TokensFollow, Follows, Matches, Cred
  <2>2. tv[t.user] \in Nat /\ tv'[t.user] \in Nat /\ tv[t.user] <= tv'[t.user]
    BY <1>1, NeverBack
  <2> QED
    BY <2>1, <2>2 DEF Matches
<1> QED
  BY <1>1, Invariance, PTL DEF Spec, RevokedForGood

----------------------------------------------------------------------------
(* Refinement.                                                              *)

\* Whatever follows its account is one of the abstract credentials.
LEMMA CredentialType ==
    ASSUME IInv, NEW c \in Token, Follows(c)
    PROVE  c \in Credential
<1>1. c.user \in Users /\ c.tv \in Nat /\ c.gen \in Nat
  BY DEF Token
<1>2. /\ tv[c.user] \in Nat /\ gen[c.user] \in 0 .. MaxRevocations
      /\ tv[c.user] <= gen[c.user]
  BY <1>1 DEF IInv, TypeOK, CountersFollow
<1>3. c.tv <= tv[c.user] /\ c.gen <= gen[c.user]
  BY DEF Follows
<1>4. c.tv \in 0 .. MaxRevocations /\ c.gen \in 0 .. MaxRevocations
  BY <1>1, <1>2, <1>3, BoundAssumption
<1> QED
  BY <1>1, <1>4 DEF Token, Credential

LEMMA EveryOwner == {OwnerOf(c) : c \in Credential} = Users
<1>1. \A u \in Users : [user |-> u, tv |-> 0, gen |-> 0] \in Credential
  BY BoundAssumption DEF Credential
<1>2. \A u \in Users : \E c \in Credential : OwnerOf(c) = u
  BY <1>1 DEF OwnerOf
<1>3. \A c \in Credential : OwnerOf(c) \in Users
  BY DEF Credential, OwnerOf
<1> QED
  BY <1>2, <1>3

LEMMA RefinementStep ==
    ASSUME Allow = {}, IInv, [Next]_vars
    PROVE  [Rev!Next]_(Rev!vars)
<1> DEFINE dead == tokens \ LiveTokens
<1>1. CASE Handout
  <2>1. CASE tokens' = tokens
    <3>1. LiveTokens' = LiveTokens
      BY <1>1, <2>1 DEF Handout, LiveTokens, Matches
    <3> QED
      BY <2>1, <3>1 DEF Rev!vars
  <2>2. ASSUME NEW c \in Token, Follows(c), tokens' = tokens \cup {c}
        PROVE  [Rev!Next]_(Rev!vars)
    <3>1. c \in Credential
      BY <2>2, CredentialType
    <3>2. CASE Matches(c)
      <4>1. LiveTokens' = LiveTokens \cup {c} /\ c \notin dead
        BY <1>1, <2>2, <3>2 DEF Handout, LiveTokens, Matches
      <4>2. dead' = dead
        BY <1>1, <2>2, <3>2, <4>1 DEF Handout, LiveTokens, Matches
      <4> QED
        BY <3>1, <4>1, <4>2 DEF Rev!Next, Rev!Grant
    <3>3. CASE ~Matches(c)
      <4>1. LiveTokens' = LiveTokens /\ c \notin LiveTokens
        BY <1>1, <2>2, <3>3 DEF Handout, LiveTokens, Matches
      <4>2. dead' = dead \cup {c}
        BY <2>2, <4>1
      <4> QED
        BY <3>1, <4>1, <4>2 DEF Rev!Next, Rev!Stillborn
    <3> QED
      BY <3>2, <3>3
  <2> QED
    BY <1>1, <2>1, <2>2 DEF Handout
<1>2. CASE Revocations
  <2>1. tokens' = tokens
    BY <1>2 DEF Revocations
  <2>2. CASE UNCHANGED <<tv, gen>>
    <3>1. LiveTokens' = LiveTokens
      BY <2>1, <2>2 DEF LiveTokens, Matches
    <3> QED
      BY <2>1, <3>1 DEF Rev!vars
  <2>3. ASSUME NEW S \in SUBSET Users, Increment(S) PROVE [Rev!Next]_(Rev!vars)
    <3>1. \A t \in tokens : t.user \in Users /\ t.tv \in Nat /\ tv[t.user] \in Nat /\ t.tv <= tv[t.user]
      BY CredType DEF IInv, TokensFollow, Follows, Cred, TypeOK
    <3>2. \A t \in tokens : Matches(t)' <=> Matches(t) /\ t.user \notin S
      BY <2>3, <3>1 DEF Matches, Increment
    <3>3. LiveTokens' = LiveTokens \ Rev!OwnedBy(S)
      BY <2>1, <3>2 DEF LiveTokens, Rev!OwnedBy, OwnerOf
    <3>4. dead' = dead \cup Rev!OwnedBy(S)
      BY <2>1, <3>2 DEF LiveTokens, Rev!OwnedBy, OwnerOf
    <3> QED
      BY <2>3, <3>3, <3>4, EveryOwner DEF Rev!Next, Rev!RevokeAll
  <2>4. ASSUME NEW u \in Users, ~SignedIn(u), tv' = [tv EXCEPT ![u] = 0]
        PROVE  [Rev!Next]_(Rev!vars)
    <3>1. \A t \in tokens : t.user \in Users /\ t.user # u
      BY <2>4, CredType DEF IInv, SignedIn, Cred
    <3>2. \A t \in tokens : tv'[t.user] = tv[t.user]
      BY <2>4, <3>1 DEF IInv, TypeOK
    <3>3. LiveTokens' = LiveTokens
      BY <2>1, <3>2 DEF LiveTokens, Matches
    <3> QED
      BY <2>1, <3>3 DEF Rev!vars
  <2> QED
    BY <1>2, <2>2, <2>3, <2>4 DEF Revocations
<1> QED
  BY <1>1, <1>2, IInvStep

\* tokenVersion implements the abstract revocation: a credential is accepted
\* or revoked, all of an account's credentials are revoked in one step, and a
\* revoked one is revoked for good.
THEOREM ImplementsRevocation ==
    ASSUME Allow = {}
    PROVE  Spec => RefinesRevocation
<1>1. Init => Rev!Init
  BY DEF Init, Rev!Init, LiveTokens
<1>2. IInv /\ [Next]_vars => [Rev!Next]_(Rev!vars)
  BY RefinementStep
<1> QED
  BY <1>1, <1>2, Invariance, PTL DEF Spec, RefinesRevocation, Rev!Spec

----------------------------------------------------------------------------
(* The tab of the client: its inductive invariant                           *)

\* A page that was left waits for nothing, and nobody is logged in on it.
LeftBehind ==
    page = "left" => /\ ~user /\ ~refreshing
                     /\ \A c \in All : call[c] = Nothing
                     /\ \A w \in Who : ref[w] = Nothing

\* After a served logout no refresh under way has a token that is worth something.
NoTokenLeft ==
    quit = "served" => jar = Void /\ \A w \in InFlight : ref[w].token = Void

TabInv == TabTypeOK /\ LeftBehind /\ QueueHasALeader /\ NoTokenLeft

----------------------------------------------------------------------------
(* Calls, refreshes and tokens                                              *)

LEMMA CallTypes ==
    /\ Nothing \notin Call /\ Nothing \notin Fetch /\ Nothing.step = "idle"
    /\ \A x \in Call : /\ x.step \in {"sent", "leader", "queued"} /\ x # Nothing
                       /\ x.access \in Ages
                       /\ \A a \in Ages : [x EXCEPT !.access = a] \in Call
                                          /\ [x EXCEPT !.access = a].step = x.step
    /\ \A x \in Fetch : /\ x.step \in {"sent", "ok", "failed"} /\ x # Nothing
                        /\ x.token \in Tokens \cup {Void}
                        /\ \A t \in Tokens \cup {Void} :
                             [x EXCEPT !.token = t] \in Fetch
                             /\ [x EXCEPT !.token = t].token = t
                             /\ [x EXCEPT !.token = t].step = x.step
                        /\ [x EXCEPT !.step = "failed"] \in Fetch
                        /\ [x EXCEPT !.step = "failed"].token = x.token
    /\ \A s \in {"sent", "ok", "failed"}, t \in Tokens \cup {Void} :
         [step |-> s, token |-> t] \in Fetch
    /\ \A a \in Ages : Asked(a) \in Call /\ Retried(a) \in Call
                       /\ Asked(a).step = "sent" /\ Retried(a).step = "sent"
    /\ \A s \in {"leader", "queued"} : WaitingAs(s) \in Call /\ WaitingAs(s).step = s
BY DEF Nothing, Call, Fetch, Asked, Retried, WaitingAs, Ages

LEMMA AgeTypes ==
    /\ \A a \in Ages : Dead(a) \in Ages
    /\ \A a \in Ages \cup {"no", "done", "failed"} :
         Dead(a) \in Ages \cup {"no", "done", "failed"}
BY DEF Dead, Ages

\* What has not begun and what waits can be told by the step.
LEMMA TabSteps ==
    ASSUME TabTypeOK
    PROVE  /\ \A c \in All : call[c] \in Call \/ call[c] = Nothing
           /\ \A c \in All, s \in {"sent", "leader", "queued"} : At(c, s) => call[c] \in Call
           /\ \A w \in Who : ref[w] \in Fetch \/ ref[w] = Nothing
           /\ \A w \in Who : ref[w].step \in {"sent", "ok", "failed"} => ref[w] \in Fetch
           /\ \A w \in Who : w \in InFlight <=> ref[w] \in Fetch
           /\ InFlight \subseteq Who
           /\ "queue" \in Who /\ "init" \in Who /\ Timers \subseteq Who /\ Me \in All
BY CallTypes DEF TabTypeOK, At, InFlight, Who, All

\* One element more, one element less.
LEMMA Sizes ==
    ASSUME NEW S, IsFiniteSet(S), NEW x
    PROVE  /\ Cardinality(S) \in Nat
           /\ IsFiniteSet(S \cup {x}) /\ Cardinality(S \cup {x}) \in Nat
           /\ Cardinality(S \cup {x}) <= Cardinality(S) + 1
           /\ IsFiniteSet(S \ {x}) /\ Cardinality(S \ {x}) \in Nat
           /\ Cardinality(S \ {x}) <= Cardinality(S)
<1>1. Cardinality(S) \in Nat
  BY FS_CardinalityType
<1>2. /\ IsFiniteSet(S \cup {x})
      /\ Cardinality(S \cup {x}) = IF x \in S THEN Cardinality(S) ELSE Cardinality(S) + 1
  BY FS_AddElement
<1>3. /\ IsFiniteSet(S \ {x})
      /\ Cardinality(S \ {x}) = IF x \in S THEN Cardinality(S) - 1 ELSE Cardinality(S)
  BY FS_RemoveElement
<1>4. Cardinality(S \ {x}) \in Nat
  BY <1>3, FS_CardinalityType
<1> QED
  BY <1>1, <1>2, <1>3, <1>4

\* There is a token that neither the jar nor a refresh holds.
LEMMA NewTokens ==
    ASSUME TabTypeOK
    PROVE  NewToken \in Tokens
<1> DEFINE token == [w \in Who |-> IF w \in InFlight THEN ref[w].token ELSE Void]
           held  == {t \in Tokens : \E w \in Who : token[w] = t}
<1>1. IsFiniteSet(Who) /\ Cardinality(Who) <= Cardinality(Timers) + 2
  <2> DEFINE most == Timers \cup {"queue"}
  <2>1. /\ IsFiniteSet(most) /\ Cardinality(most) <= Cardinality(Timers) + 1
        /\ Cardinality(Timers) \in Nat /\ Cardinality(most) \in Nat
    BY TimersAssumption, Sizes
  <2>2. Who = most \cup {"init"}
    BY DEF Who
  <2> HIDE DEF most
  <2>3. IsFiniteSet(Who) /\ Cardinality(Who) <= Cardinality(most) + 1 /\ Cardinality(Who) \in Nat
    BY <2>1, <2>2, Sizes
  <2> QED
    BY <2>1, <2>3
<1>2. IsFiniteSet(held) /\ Cardinality(held) <= Cardinality(Who)
  <2> DEFINE image == {token[w] : w \in Who}
  <2>1. token \in Surjection(Who, image)
    BY DEF Surjection
  <2>2. IsFiniteSet(image) /\ Cardinality(image) <= Cardinality(Who)
    BY <1>1, <2>1, FS_Surjection
  <2>3. held \in SUBSET image
    OBVIOUS
  <2>4. IsFiniteSet(held) /\ Cardinality(held) <= Cardinality(image)
    BY <2>2, <2>3, FS_Subset
  <2>5. Cardinality(held) \in Nat /\ Cardinality(image) \in Nat /\ Cardinality(Who) \in Nat
    BY <1>1, <2>2, <2>4, FS_CardinalityType
  <2> HIDE DEF held, image
  <2> QED
    BY <2>2, <2>4, <2>5
<1>3. /\ IsFiniteSet((held \cup {jar}) \ {Void})
      /\ Cardinality((held \cup {jar}) \ {Void}) <= Cardinality(Timers) + 3
  <2> DEFINE more == held \cup {jar}
  <2>1. /\ IsFiniteSet(more) /\ Cardinality(more) <= Cardinality(held) + 1
        /\ Cardinality(more) \in Nat /\ Cardinality(held) \in Nat
    <3> HIDE DEF held
    <3> QED
      BY <1>2, Sizes
  <2> HIDE DEF more
  <2>2. /\ IsFiniteSet(more \ {Void}) /\ Cardinality(more \ {Void}) <= Cardinality(more)
        /\ Cardinality(more \ {Void}) \in Nat
    BY <2>1, Sizes
  <2>3. Cardinality(Who) \in Nat /\ Cardinality(Timers) \in Nat
    BY <1>1, TimersAssumption, FS_CardinalityType
  <2> HIDE DEF held
  <2>4. Cardinality(more \ {Void}) <= Cardinality(Timers) + 3
    BY <1>1, <1>2, <2>1, <2>2, <2>3
  <2> QED
    BY <2>2, <2>4 DEF more
<1>4. (held \cup {jar}) \ {Void} \in SUBSET Tokens
  BY DEF TabTypeOK
<1>5. PICK t \in Tokens : t \notin (held \cup {jar}) \ {Void}
  <2> HIDE DEF held
  <2> QED
    BY <1>3, <1>4, TokensAssumption
<1>6. t # jar /\ \A w \in InFlight : t # ref[w].token
  BY <1>5, VoidAssumption DEF InFlight
<1> QED
  BY <1>6 DEF NewToken

----------------------------------------------------------------------------
(* Types                                                                    *)

LEMMA LeaveTypes ==
    ASSUME TabTypeOK, Leave, saved' \in BOOLEAN
    PROVE  TabTypeOK'
BY DEF TabTypeOK, Leave, cookies

LEMMA CallSteps ==
    ASSUME TabTypeOK, NEW c \in All, Send(c) \/ Answer(c)
    PROVE  TabTypeOK'
<1> USE DEF TabTypeOK, At, Ask, Settled, Rejected, SetUser, ClearUser, store, cookies, tab, exit
<1>1. CASE Send(c)
  BY <1>1, CallTypes DEF Send
<1>2. CASE Succeed(c)
  BY <1>2 DEF Succeed
<1>3. CASE Lead(c)
  BY <1>3, CallTypes, TabSteps DEF Lead
<1>4. CASE Queue(c)
  BY <1>4, CallTypes DEF Queue
<1>5. CASE Fail(c)
  BY <1>5 DEF Fail
<1>6. CASE Unauthorized(c)
  <2>1. CASE c = Me /\ ref' = [ref EXCEPT !["init"] = [step |-> "sent", token |-> jar]]
    <3>1. [step |-> "sent", token |-> jar] \in Fetch
      BY CallTypes
    <3>2. "init" \in Who /\ ref' \in [Who -> Fetch \cup {Nothing}]
      BY <2>1, <3>1, TabSteps
    <3>3. CASE c = Me /\ call' = Settled(c)
               /\ UNCHANGED <<page, loading, refreshing, user, saved, timing, jar, access,
                              leaving, quit>>
      BY <3>2, <3>3
    <3>4. CASE Leave /\ UNCHANGED saved
      BY <3>4, LeaveTypes
    <3> QED
      BY <1>6, <3>3, <3>4 DEF Unauthorized
  <2>2. CASE Leave /\ UNCHANGED saved
    BY <2>2, LeaveTypes
  <2> QED
    BY <1>6, <2>1, <2>2 DEF Unauthorized
<1>7. CASE Forbidden(c)
  BY <1>7, LeaveTypes DEF Forbidden
<1> QED
  BY <1>1, <1>2, <1>3, <1>4, <1>5, <1>6, <1>7 DEF Answer

\* What is left of the refreshes when tokens are void.
LEMMA Voids ==
    ASSUME TabTypeOK, NEW T
    PROVE  /\ Voided(T) \in [Who -> Fetch \cup {Nothing}]
           /\ \A w \in Who : /\ Voided(T)[w] = Nothing <=> ref[w] = Nothing
                             /\ w \in InFlight => /\ Voided(T)[w].step = ref[w].step
                                                  /\ Voided(T)[w].token = Unless(T, ref[w].token)
           /\ \A t \in Tokens \cup {Void} : Unless(T, t) \in Tokens \cup {Void}
           /\ Tokens \subseteq T => \A t \in Tokens \cup {Void} : Unless(T, t) = Void
<1>1. \A t \in Tokens \cup {Void} : Unless(T, t) \in Tokens \cup {Void}
  BY DEF Unless
<1>2. Tokens \subseteq T => \A t \in Tokens \cup {Void} : Unless(T, t) = Void
  BY DEF Unless
<1>3. ASSUME NEW w \in InFlight
      PROVE
        /\ ref[w] \in Fetch /\ [ref[w] EXCEPT !.token = Unless(T, ref[w].token)] \in Fetch
        /\ [ref[w] EXCEPT !.token = Unless(T, ref[w].token)].step = ref[w].step
        /\ [ref[w] EXCEPT !.token = Unless(T, ref[w].token)].token = Unless(T, ref[w].token)
  <2>1. ref[w] \in Fetch
    BY TabSteps
  <2>2. ref[w].token \in Tokens \cup {Void}
    BY <2>1 DEF Fetch
  <2>3. Unless(T, ref[w].token) \in Tokens \cup {Void}
    BY <1>1, <2>2
  <2> QED
    BY <2>1, <2>3 DEF Fetch
<1>4. \A w \in Who : w \notin InFlight => ref[w] = Nothing
  BY DEF InFlight
<1> QED
  BY <1>1, <1>2, <1>3, <1>4, CallTypes DEF Voided

LEMMA RefreshSteps ==
    ASSUME TabTypeOK,
           \/ \E w \in Who : Serve(w) \/ Lose(w)
           \/ \E w \in Timers : TimerFires(w) \/ TimerRefreshed(w) \/ TimerFailed(w)
           \/ Refreshed \/ RefreshFailed \/ InitRefreshed \/ InitFailed \/ InitTimeout
           \/ TimerExpires
    PROVE  TabTypeOK'
<1> USE DEF TabTypeOK, Ask, Arrives, TakeCookies, SetUser, UpdateInfo, ClearUser, Rejected,
            store, cookies, tab, exit
<1>1. ASSUME NEW w \in Who, Serve(w) PROVE TabTypeOK'
  <2>1. ref[w] \in Fetch /\ NewToken \in Tokens
    BY <1>1, TabSteps, NewTokens DEF Serve
  <2>2. CASE ref[w].token # Void
    <3> DEFINE t == ref[w].token
    <3>1. /\ jar' = Unless({t}, jar)
          /\ ref' = [Voided({t}) EXCEPT ![w] = [step |-> "ok", token |-> NewToken]]
      BY <1>1, <2>2 DEF Serve
    <3>2. Unless({t}, jar) \in Tokens \cup {Void} /\ Voided({t}) \in [Who -> Fetch \cup {Nothing}]
      BY Voids
    <3>3. [step |-> "ok", token |-> NewToken] \in Fetch
      BY <2>1, CallTypes
    <3> QED
      BY <1>1, <3>1, <3>2, <3>3 DEF Serve
  <2>3. CASE ref[w].token = Void
    <3>1. [ref[w] EXCEPT !.step = "failed"] \in Fetch
      BY <2>1, CallTypes
    <3> QED
      BY <1>1, <2>3, <3>1 DEF Serve
  <2> QED
    BY <2>2, <2>3
<1>2. ASSUME NEW w \in Who, Lose(w) PROVE TabTypeOK'
  BY <1>2, CallTypes DEF Lose
<1>3. ASSUME NEW w \in Timers, TimerFires(w) PROVE TabTypeOK'
  BY <1>3, CallTypes, TabSteps DEF TimerFires
<1>4. ASSUME NEW w \in Who, ref[w].step = "ok" PROVE ref[w].token \in Tokens \cup {Void}
  BY <1>4, CallTypes, TabSteps
<1>5. {"good", "dead"} \subseteq Ages
  BY DEF Ages
<1>6. ASSUME NEW w \in Timers, TimerRefreshed(w) PROVE TabTypeOK'
  BY <1>4, <1>5, <1>6, TabSteps DEF TimerRefreshed
<1>7. ASSUME NEW w \in Timers, TimerFailed(w) PROVE TabTypeOK'
  BY <1>7, TabSteps, LeaveTypes DEF TimerFailed
<1>8. CASE Refreshed
  BY <1>4, <1>5, <1>8, TabSteps, CallTypes DEF Refreshed
<1>9. CASE RefreshFailed
  BY <1>9, TabSteps, LeaveTypes DEF RefreshFailed, Settled
<1>10. CASE InitRefreshed
  BY <1>4, <1>5, <1>10, TabSteps DEF InitRefreshed
<1>11. CASE InitFailed
  BY <1>11, TabSteps DEF InitFailed
<1>12. CASE InitTimeout
  BY <1>12 DEF InitTimeout
<1>13. CASE TimerExpires
  BY <1>13, LeaveTypes DEF TimerExpires
<1> QED
  BY <1>1, <1>2, <1>3, <1>6, <1>7, <1>8, <1>9, <1>10, <1>11, <1>12, <1>13

LEMMA KillTypes ==
    ASSUME TabTypeOK, NEW T, Kill(T)
    PROVE  /\ jar' \in Tokens \cup {Void} /\ access' \in Ages
           /\ ref' \in [Who -> Fetch \cup {Nothing}] /\ call' \in [All -> Call \cup {Nothing}]
BY CallTypes, AgeTypes, TabSteps, Voids DEF Kill, TabTypeOK

LEMMA OtherSteps ==
    ASSUME TabTypeOK,
           \/ Login \/ LogoutSend \/ LogoutServe \/ LogoutRefused \/ LogoutLost \/ LogoutAnswer
           \/ EndSession \/ Age \/ Close \/ Load
    PROVE  TabTypeOK'
<1> USE DEF TabTypeOK, SetUser, ClearUser, store, cookies, tab, exit
<1>1. CASE Login
  BY <1>1, NewTokens DEF Login, Ages
<1>2. CASE LogoutSend
  BY <1>2 DEF LogoutSend
<1>3. CASE LogoutServe
  BY <1>3, KillTypes DEF LogoutServe, Kill
<1>4. CASE LogoutRefused
  BY <1>4 DEF LogoutRefused
<1>5. CASE LogoutLost
  BY <1>5 DEF LogoutLost
<1>6. CASE LogoutAnswer
  BY <1>6 DEF LogoutAnswer, Ages
<1>7. CASE EndSession
  BY <1>7, KillTypes, AgeTypes DEF EndSession, Kill
<1>8. CASE Age
  BY <1>8 DEF Age, Ages
<1>9. CASE Close
  BY <1>9, LeaveTypes DEF Close
<1>10. CASE Load
  BY <1>10, CallTypes DEF Load, LoadWith
<1> QED
  BY <1>1, <1>2, <1>3, <1>4, <1>5, <1>6, <1>7, <1>8, <1>9, <1>10

LEMMA TypesStep == TabTypeOK /\ [TabNext]_tabVars => TabTypeOK'
<1> SUFFICES ASSUME TabTypeOK, [TabNext]_tabVars PROVE TabTypeOK'
  OBVIOUS
<1>1. CASE UNCHANGED tabVars
  BY <1>1 DEF tabVars, TabTypeOK
<1>2. \A c \in Calls : c \in All
  BY DEF All
<1> QED
  BY <1>1, <1>2, CallSteps, RefreshSteps, OtherSteps DEF TabNext

----------------------------------------------------------------------------
(* The rest of the invariant                                                *)

Rest == LeftBehind /\ QueueHasALeader /\ NoTokenLeft

\* A refresh of the queue goes on, for the same leader.
LEMMA QueueKept ==
    ASSUME QueueHasALeader, refreshing' = refreshing,
           ref'["queue"] = Nothing <=> ref["queue"] = Nothing,
           \A c \in All : /\ call'[c].step = "leader" <=> At(c, "leader")
                          /\ call'[c].step = "queued" => At(c, "queued")
    PROVE  QueueHasALeader'
BY DEF QueueHasALeader, At

\* It is over, for everyone.
LEMMA QueueOver ==
    ASSUME refreshing' = FALSE, ref'["queue"] = Nothing,
           \A c \in All : call'[c].step \notin {"leader", "queued"}
    PROVE  QueueHasALeader'
BY DEF QueueHasALeader, At

\* Nobody gets a token.
LEMMA NoTokenKept ==
    ASSUME NoTokenLeft, quit' = quit, jar' \in {jar, Void},
           \A w \in Who : \/ ref'[w] = Nothing
                          \/ ref'[w].token \in {jar, Void}
                          \/ w \in InFlight /\ ref'[w].token = ref[w].token
    PROVE  NoTokenLeft'
BY DEF NoTokenLeft, InFlight

LEMMA LeaveRest ==
    ASSUME TabInv, Leave
    PROVE  Rest'
<1>1. LeftBehind'
  BY DEF LeftBehind, Leave
<1>2. "queue" \in Who /\ Nothing.step = "idle"
  BY DEF Who, Nothing
<1>3. QueueHasALeader'
  BY <1>2, QueueOver DEF Leave
<1>4. NoTokenLeft'
  BY NoTokenKept DEF TabInv, Leave, cookies
<1> QED
  BY <1>1, <1>3, <1>4 DEF Rest

\* On a page that was left no call and no refresh is answered.
LEMMA NotLeft ==
    ASSUME TabInv
    PROVE  /\ \A c \in All : call[c] # Nothing => page # "left"
           /\ \A w \in Who : ref[w] # Nothing => page # "left"
           /\ user => page # "left"
BY DEF TabInv, LeftBehind

LEMMA CallRest ==
    ASSUME TabInv, NEW c \in All, Send(c) \/ Answer(c)
    PROVE  Rest'
<1> USE DEF At
<1>1. /\ Nothing.step = "idle" /\ "queue" \in Who /\ "init" \in Who /\ "queue" # "init"
      /\ call \in [All -> Call \cup {Nothing}] /\ ref \in [Who -> Fetch \cup {Nothing}]
  BY TabSteps DEF Nothing, TabInv, TabTypeOK
<1>2. call[c] = Nothing \/ page # "left"
  BY NotLeft
<1>3. LeftBehind /\ QueueHasALeader /\ NoTokenLeft
  BY DEF TabInv
<1>4. CASE Send(c)
  <2>1. LeftBehind'
    BY <1>4 DEF Send, Open, LeftBehind
  <2>2. QueueHasALeader'
    BY <1>1, <1>3, <1>4, QueueKept DEF Send, Asked
  <2>3. NoTokenLeft'
    BY <1>3, <1>4, NoTokenKept DEF Send, cookies, exit, InFlight
  <2> QED
    BY <2>1, <2>2, <2>3 DEF Rest
<1>5. CASE Succeed(c) \/ Fail(c)
  <2>1. /\ page # "left" /\ call[c].step = "sent" /\ call' = Settled(c)
        /\ UNCHANGED <<page, refreshing, ref, cookies, exit>>
    BY <1>1, <1>2, <1>5 DEF Succeed, Fail
  <2>2. LeftBehind'
    BY <2>1 DEF LeftBehind
  <2>3. QueueHasALeader'
    BY <1>1, <1>3, <2>1, QueueKept DEF Settled
  <2>4. NoTokenLeft'
    BY <1>3, <2>1, NoTokenKept DEF cookies, exit, InFlight
  <2> QED
    BY <2>2, <2>3, <2>4 DEF Rest
<1>6. CASE Lead(c)
  <2>1. /\ page # "left" /\ page' = page /\ ~refreshing /\ refreshing' = TRUE
        /\ ref' = [ref EXCEPT !["queue"] = [step |-> "sent", token |-> jar]]
        /\ call' = [call EXCEPT ![c] = WaitingAs("leader")]
    BY <1>1, <1>2, <1>6 DEF Lead, Expired, Ask
  <2>2. LeftBehind'
    BY <2>1 DEF LeftBehind
  <2>3. QueueHasALeader'
    <3>1. ref'["queue"] # Nothing
      BY <1>1, <2>1
    <3>2. \A b \in All : call'[b].step = "leader" <=> b = c
      BY <1>1, <1>3, <2>1 DEF QueueHasALeader, WaitingAs
    <3> QED
      BY <2>1, <3>1, <3>2 DEF QueueHasALeader
  <2>4. NoTokenLeft'
    <3>1. \A w \in Who : \/ ref'[w] = ref[w]
                         \/ ref'[w].token = jar
      BY <1>1, <2>1
    <3> QED
      BY <1>3, <1>6, <3>1, NoTokenKept DEF Lead, cookies, exit, InFlight
  <2> QED
    BY <2>2, <2>3, <2>4 DEF Rest
<1>7. CASE Queue(c)
  <2>1. /\ page # "left" /\ refreshing /\ call[c].step = "sent"
        /\ call' = [call EXCEPT ![c] = WaitingAs("queued")]
        /\ UNCHANGED <<page, refreshing, ref, cookies, exit>>
    BY <1>1, <1>2, <1>7 DEF Queue, Expired
  <2>2. LeftBehind'
    BY <2>1 DEF LeftBehind
  <2>3. QueueHasALeader'
    <3>1. \A b \in All : call'[b].step = "leader" <=> call[b].step = "leader"
      BY <1>1, <2>1 DEF WaitingAs
    <3> QED
      BY <1>3, <2>1, <3>1 DEF QueueHasALeader
  <2>4. NoTokenLeft'
    BY <1>3, <2>1, NoTokenKept DEF cookies, exit, InFlight
  <2> QED
    BY <2>2, <2>3, <2>4 DEF Rest
<1>8. CASE Unauthorized(c)
  <2>1. CASE Leave
    BY <2>1, LeaveRest
  <2>2. CASE /\ page # "left" /\ call[c].step = "sent" /\ call' = Settled(c) /\ Ask("init")
             /\ UNCHANGED <<page, loading, refreshing, store, cookies, exit>>
    <3>1. LeftBehind'
      BY <2>2 DEF LeftBehind
    <3>2. QueueHasALeader'
      BY <1>1, <1>3, <2>2, QueueKept DEF Settled, Ask
    <3>3. \A w \in Who : ref'[w] = ref[w] \/ ref'[w].token = jar
      BY <1>1, <2>2 DEF Ask
    <3>4. NoTokenLeft'
      BY <1>3, <2>2, <3>3, NoTokenKept DEF cookies, exit, InFlight
    <3> QED
      BY <3>1, <3>2, <3>4 DEF Rest
  <2> QED
    BY <1>1, <1>2, <1>8, <2>1, <2>2 DEF Unauthorized
<1>9. CASE Forbidden(c)
  BY <1>9, LeaveRest DEF Forbidden
<1> QED
  BY <1>4, <1>5, <1>6, <1>7, <1>8, <1>9 DEF Answer

LEMMA ServeRest ==
    ASSUME TabInv, NEW w \in Who, Serve(w) \/ Lose(w)
    PROVE  Rest'
<1>1. /\ Nothing \notin Fetch /\ "queue" \in Who
      /\ call \in [All -> Call \cup {Nothing}] /\ ref \in [Who -> Fetch \cup {Nothing}]
      /\ ref[w] \in Fetch /\ w \in InFlight
      /\ UNCHANGED <<tab, store, access, exit>>
  BY TabSteps, CallTypes DEF TabInv, TabTypeOK, Serve, Lose, cookies
<1>2. /\ page # "left" /\ TabTypeOK
      /\ LeftBehind /\ QueueHasALeader /\ NoTokenLeft
  BY <1>1, CallTypes, NotLeft DEF TabInv
<1>3. LeftBehind'
  BY <1>1, <1>2 DEF LeftBehind, tab
<1>4. SUFFICES ASSUME \A v \in Who : ref'[v] = Nothing <=> ref[v] = Nothing
               PROVE  NoTokenLeft'
  <2>1. \A v \in Who : ref'[v] = Nothing <=> ref[v] = Nothing
    <3>1. CASE Lose(w)
      <4>1. [step |-> "failed", token |-> Void] # Nothing
        BY DEF Nothing
      <4> QED
        BY <1>1, <3>1, <4>1 DEF Lose
    <3>2. CASE Serve(w) /\ ref[w].token = Void
      <4>1. [ref[w] EXCEPT !.step = "failed"] # Nothing
        BY <1>1, CallTypes
      <4> QED
        BY <1>1, <3>2, <4>1 DEF Serve
    <3>3. CASE Serve(w) /\ ref[w].token # Void
      <4> DEFINE after == Voided({ref[w].token})
      <4>1. ref' = [after EXCEPT ![w] = [step |-> "ok", token |-> NewToken]]
        BY <3>3 DEF Serve
      <4>2. /\ after \in [Who -> Fetch \cup {Nothing}]
            /\ \A v \in Who : after[v] = Nothing <=> ref[v] = Nothing
        BY <1>2, Voids
      <4>3. [step |-> "ok", token |-> NewToken] # Nothing
        BY DEF Nothing
      <4> HIDE DEF after
      <4> QED
        BY <1>1, <4>1, <4>2, <4>3
    <3> QED
      BY <3>1, <3>2, <3>3
  <2>2. QueueHasALeader'
    BY <1>1, <1>2, <2>1, QueueKept DEF tab, At
  <2> QED
    BY <1>3, <2>1, <2>2 DEF Rest
<1>5. CASE Lose(w)
  <2>1. \A v \in Who : ref'[v] = ref[v] \/ ref'[v].token = Void
    BY <1>1, <1>5 DEF Lose
  <2> QED
    BY <1>2, <1>5, <2>1, NoTokenKept DEF Lose, cookies, exit, InFlight
<1>6. CASE Serve(w) /\ ref[w].token = Void
  <2>1. [ref[w] EXCEPT !.step = "failed"].token = Void
    BY <1>1, <1>6, CallTypes
  <2>2. \A v \in Who : ref'[v] = ref[v] \/ ref'[v].token = Void
    BY <1>1, <1>6, <2>1 DEF Serve
  <2> QED
    BY <1>2, <1>6, <2>2, NoTokenKept DEF Serve, exit, InFlight
<1>7. CASE Serve(w) /\ ref[w].token # Void
  BY <1>1, <1>2, <1>7 DEF NoTokenLeft, exit
<1> QED
  BY <1>5, <1>6, <1>7

LEMMA TimerRest ==
    ASSUME TabInv, NEW w \in Timers, TimerFires(w) \/ TimerRefreshed(w) \/ TimerFailed(w)
    PROVE  Rest'
<1>1. /\ w \in Who /\ w # "queue" /\ "queue" \in Who
      /\ call \in [All -> Call \cup {Nothing}] /\ ref \in [Who -> Fetch \cup {Nothing}]
      /\ ref[w].step \in {"sent", "ok", "failed"} => ref[w] \in Fetch /\ w \in InFlight
      /\ LeftBehind /\ QueueHasALeader /\ NoTokenLeft
  BY TabSteps, TimersAssumption DEF TabInv, TabTypeOK
<1>2. CASE Leave
  BY <1>2, LeaveRest
<1>3. CASE ~Leave
  <2>1. UNCHANGED <<page, refreshing, call, quit>>
    BY <1>3 DEF TimerFires, TimerRefreshed, TimerFailed, tab, exit
  <2>2. \/ ref' = [ref EXCEPT ![w] = [step |-> "sent", token |-> jar]] /\ user
        \/ ref' = [ref EXCEPT ![w] = Nothing] /\ ref[w] \in Fetch
    BY <1>1, <1>3 DEF TimerFires, TimerRefreshed, TimerFailed, Ask, Arrives
  <2>3. page # "left"
    BY <1>1, <2>2, NotLeft, CallTypes
  <2>4. jar' = jar \/ (ref[w] \in Fetch /\ w \in InFlight /\ jar' = ref[w].token)
    BY <1>1, <1>3 DEF TimerFires, TimerRefreshed, TimerFailed, Arrives, TakeCookies, cookies
  <2>5. LeftBehind'
    BY <2>1, <2>3 DEF LeftBehind
  <2>6. QueueHasALeader'
    BY <1>1, <2>1, <2>2, QueueKept DEF At
  <2>7. NoTokenLeft'
    <3>1. \A v \in Who : ref'[v] = ref[v] \/ ref'[v] = Nothing \/ ref'[v].token = jar
      BY <1>1, <2>2
    <3> QED
      BY <1>1, <2>1, <2>4, <3>1 DEF NoTokenLeft, InFlight
  <2> QED
    BY <2>5, <2>6, <2>7 DEF Rest
<1> QED
  BY <1>2, <1>3

LEMMA RefreshRest ==
    ASSUME TabInv, \/ Refreshed \/ RefreshFailed \/ InitRefreshed \/ InitFailed \/ InitTimeout
                   \/ TimerExpires
    PROVE  Rest'
<1>1. /\ "queue" \in Who /\ "init" \in Who /\ Nothing.step = "idle"
      /\ call \in [All -> Call \cup {Nothing}] /\ ref \in [Who -> Fetch \cup {Nothing}]
      /\ \A w \in Who : ref[w].step \in {"ok", "failed"} => ref[w] \in Fetch /\ w \in InFlight
      /\ LeftBehind /\ QueueHasALeader /\ NoTokenLeft
  BY TabSteps DEF TabInv, TabTypeOK, Nothing
<1>2. CASE Leave
  BY <1>2, LeaveRest
<1>3. CASE Refreshed \/ (RefreshFailed /\ ~Leave)
  <2>1. /\ ref["queue"] \in Fetch /\ "queue" \in InFlight
        /\ ref' = [ref EXCEPT !["queue"] = Nothing]
        /\ refreshing' = FALSE /\ UNCHANGED <<page, quit>>
        /\ jar' \in {jar, ref["queue"].token}
    BY <1>1, <1>3 DEF Refreshed, RefreshFailed, Arrives, TakeCookies, exit, cookies
  <2>2. \A c \in All : call'[c].step \notin {"leader", "queued"}
    BY <1>1, <1>3 DEF Refreshed, RefreshFailed, Waiting, Retried
  <2>3. page # "left"
    BY <1>1, <2>1, NotLeft, CallTypes
  <2>4. LeftBehind'
    BY <2>1, <2>3 DEF LeftBehind
  <2>5. QueueHasALeader'
    BY <1>1, <2>1, <2>2, QueueOver
  <2>6. NoTokenLeft'
    BY <1>1, <2>1 DEF NoTokenLeft, InFlight
  <2> QED
    BY <2>4, <2>5, <2>6 DEF Rest
<1>4. CASE InitRefreshed \/ InitFailed
  <2>1. /\ ref["init"] \in Fetch /\ "init" \in InFlight
        /\ ref' = [ref EXCEPT !["init"] = Nothing]
        /\ UNCHANGED <<page, refreshing, call, quit>>
        /\ jar' \in {jar, ref["init"].token}
    BY <1>1, <1>4 DEF InitRefreshed, InitFailed, Arrives, TakeCookies, exit, cookies
  <2>2. page # "left"
    BY <1>1, <2>1, NotLeft, CallTypes
  <2>3. LeftBehind'
    BY <2>1, <2>2 DEF LeftBehind
  <2>4. QueueHasALeader'
    BY <1>1, <2>1, QueueKept DEF At
  <2>5. NoTokenLeft'
    BY <1>1, <2>1 DEF NoTokenLeft, InFlight
  <2> QED
    BY <2>3, <2>4, <2>5 DEF Rest
<1>5. CASE InitTimeout
  <2>1. LeftBehind' /\ NoTokenLeft'
    BY <1>1, <1>5 DEF InitTimeout, Open, LeftBehind, NoTokenLeft, InFlight, cookies, exit
  <2>2. QueueHasALeader'
    BY <1>1, <1>5, QueueKept DEF InitTimeout, At
  <2> QED
    BY <2>1, <2>2 DEF Rest
<1> QED
  BY <1>2, <1>3, <1>4, <1>5 DEF TimerExpires

\* Kill changes neither who waits nor for what.
LEMMA KillKeeps ==
    ASSUME TabInv, NEW T, Kill(T)
    PROVE  /\ LeftBehind' /\ QueueHasALeader'
           /\ jar' = Unless(T, jar)
           /\ \A w \in Who : /\ ref'[w] = Nothing <=> ref[w] = Nothing
                             /\ w \in InFlight => ref'[w].token = Unless(T, ref[w].token)
<1>1. /\ TabTypeOK /\ LeftBehind /\ QueueHasALeader
      /\ "queue" \in Who /\ call \in [All -> Call \cup {Nothing}] /\ Nothing.step = "idle"
  BY TabSteps DEF TabInv, TabTypeOK, Nothing
<1>2. \A w \in Who : /\ ref'[w] = Nothing <=> ref[w] = Nothing
                     /\ w \in InFlight => ref'[w].token = Unless(T, ref[w].token)
  BY <1>1, Voids DEF Kill
<1>3. \A c \in All : /\ call'[c].step = call[c].step
                     /\ call[c] = Nothing => call'[c] = Nothing
  <2> TAKE c \in All
  <2>1. call[c] \in Call => [call[c] EXCEPT !.access = Dead(@)].step = call[c].step
    BY DEF Call
  <2>2. call[c] # Nothing => call[c] \in Call
    BY <1>1
  <2>3. call'[c] = IF call[c].step = "sent" THEN [call[c] EXCEPT !.access = Dead(@)] ELSE call[c]
    BY DEF Kill, At
  <2> QED
    BY <1>1, <2>1, <2>2, <2>3
<1>4. LeftBehind'
  BY <1>1, <1>2, <1>3 DEF LeftBehind, Kill, store
<1>5. QueueHasALeader'
  BY <1>1, <1>2, <1>3, QueueKept DEF Kill, At
<1> QED
  BY <1>2, <1>4, <1>5 DEF Kill

LEMMA OtherRest ==
    ASSUME TabInv,
           \/ Login \/ LogoutSend \/ LogoutServe \/ LogoutRefused \/ LogoutLost \/ LogoutAnswer
           \/ EndSession \/ Age \/ Close \/ Load
    PROVE  Rest'
<1>1. /\ TabTypeOK /\ LeftBehind /\ QueueHasALeader /\ NoTokenLeft
      /\ "queue" \in Who /\ Nothing.step = "idle"
  BY TabSteps DEF TabInv, Nothing
<1> USE DEF store, cookies, tab, exit
<1>2. CASE Login
  <2>1. LeftBehind' /\ NoTokenLeft'
    BY <1>2 DEF Login, Open, LeftBehind, NoTokenLeft
  <2>2. QueueHasALeader'
    BY <1>1, <1>2, QueueKept DEF Login, At
  <2> QED
    BY <2>1, <2>2 DEF Rest
<1>3. CASE LogoutSend \/ LogoutRefused \/ LogoutLost \/ LogoutAnswer \/ Age
  <2>1. LeftBehind'
    BY <1>1, <1>3
       DEF LogoutSend, LogoutRefused, LogoutLost, LogoutAnswer, Age, ClearUser, LeftBehind
  <2>2. QueueHasALeader'
    BY <1>1, <1>3, QueueKept
       DEF LogoutSend, LogoutRefused, LogoutLost, LogoutAnswer, Age, At
  <2>3. NoTokenLeft'
    BY <1>1, <1>3
       DEF LogoutSend, LogoutRefused, LogoutLost, LogoutAnswer, Age, NoTokenLeft, InFlight
  <2> QED
    BY <2>1, <2>2, <2>3 DEF Rest
<1>4. CASE LogoutServe \/ EndSession
  <2>1. Kill(Tokens) /\ (quit' = quit \/ quit' = "served")
    BY <1>4 DEF LogoutServe, EndSession
  <2>2. LeftBehind' /\ QueueHasALeader'
    BY <2>1, KillKeeps
  <2>3. \A t \in Tokens \cup {Void} : Unless(Tokens, t) = Void
    BY DEF Unless
  <2>4. jar \in Tokens \cup {Void} /\ \A w \in InFlight : ref[w].token \in Tokens \cup {Void}
    BY <1>1, TabSteps, CallTypes DEF TabTypeOK
  <2>5. jar' = Void /\ \A w \in InFlight' : ref'[w].token = Void
    BY <2>1, <2>3, <2>4, KillKeeps DEF InFlight
  <2> QED
    BY <2>2, <2>5 DEF Rest, NoTokenLeft
<1>5. CASE Close
  BY <1>5, LeaveRest DEF Close
<1>6. CASE Load
  <2>1. page = "left" /\ page' = "open" /\ UNCHANGED <<refreshing, ref, jar, quit>>
    BY <1>6 DEF Load
  <2>2. ~refreshing /\ ref["queue"] = Nothing
    BY <1>1, <2>1 DEF LeftBehind
  <2>3. \A c \in All : call'[c].step \notin {"leader", "queued"}
    BY <1>1, <1>6 DEF Load, LoadWith, Asked
  <2>4. QueueHasALeader'
    BY <1>1, <2>1, <2>2, <2>3, QueueOver DEF TabTypeOK
  <2>5. LeftBehind' /\ NoTokenLeft'
    BY <1>1, <2>1 DEF LeftBehind, NoTokenLeft, InFlight
  <2> QED
    BY <2>4, <2>5 DEF Rest
<1> QED
  BY <1>2, <1>3, <1>4, <1>5, <1>6

LEMMA TabInvInit == TabInit => TabInv
<1> SUFFICES ASSUME TabInit PROVE TabInv
  OBVIOUS
<1>1. \E t : t \in Tokens
  <2>1. IsFiniteSet({}) /\ Cardinality({}) = 0
    BY FS_EmptySet
  <2>2. Cardinality(Timers) \in Nat
    BY FS_CardinalityType, TimersAssumption
  <2>3. {} # Tokens
    BY <2>1, <2>2, TokensAssumption
  <2> QED
    BY <2>3
<1>2. (CHOOSE t \in Tokens : TRUE) \in Tokens
  BY <1>1
<1>3. \A c \in All : call[c].step = "sent" \/ call[c].step = "idle"
  BY DEF TabInit, LoadWith, Asked, Nothing
<1>4. "queue" \in Who /\ \A w \in Who : ref[w] = Nothing
  BY DEF TabInit, Who
<1>5. TabTypeOK
  BY <1>2, CallTypes DEF TabInit, TabTypeOK, LoadWith
<1>6. QueueHasALeader
  BY <1>3, <1>4 DEF TabInit, QueueHasALeader, At
<1>7. LeftBehind /\ NoTokenLeft
  BY DEF TabInit, LeftBehind, NoTokenLeft
<1> QED
  BY <1>5, <1>6, <1>7 DEF TabInv

LEMMA TabInvStep == TabInv /\ [TabNext]_tabVars => TabInv'
<1> SUFFICES ASSUME TabInv, [TabNext]_tabVars PROVE TabInv'
  OBVIOUS
<1>1. TabTypeOK'
  BY TypesStep DEF TabInv
<1>2. CASE UNCHANGED tabVars
  BY <1>1, <1>2 DEF tabVars, TabInv, LeftBehind, QueueHasALeader, NoTokenLeft, At, InFlight
<1>3. ASSUME TabNext PROVE Rest'
  <2>1. \A c \in Calls : c \in All
    BY DEF All
  <2> QED
    BY <1>3, <2>1, CallRest, ServeRest, TimerRest, RefreshRest, OtherRest DEF TabNext
<1> QED
  BY <1>1, <1>2, <1>3 DEF TabInv, Rest

----------------------------------------------------------------------------
(* The theorems about the client                                            *)

\* The inductive invariant of the tab, for any number of calls and timers.
THEOREM TabInvariant == TabSpec => []TabInv
<1> QED
  BY TabInvInit, TabInvStep, PTL DEF TabSpec

\* What the tab keeps has its type: AuthProvider's flag is up only while somebody
\* is logged in, and a refresh is always answered with a token nobody holds.
THEOREM TabTypes == TabSpec => []TabTypeOK
<1>1. TabInv => TabTypeOK
  BY DEF TabInv
<1> QED
  BY <1>1, TabInvariant, PTL

\* However many calls are answered 419 while one refresh is under way, they wait
\* for one that exists, on behalf of one leader: isRefreshing and failedQueue of
\* axios.ts are neither left behind by a page that is left nor by /auth/me.
THEOREM QueueLed == TabSpec => []QueueHasALeader
<1>1. TabInv => QueueHasALeader
  BY DEF TabInv
<1> QED
  BY <1>1, TabInvariant, PTL

\* After a logout that the server carried out no refresh token that this browser
\* holds, or that a refresh still under way may bring, has a session.
THEOREM LogoutStays == TabSpec => []LogoutSticks
<1>1. TabInv => LogoutSticks
  BY DEF TabInv, NoTokenLeft, LogoutSticks
<1> QED
  BY <1>1, TabInvariant, PTL

\* Whoever ends a refresh of the timer while nobody is logged in, be it its own
\* answer or the end of the page, does not bring tokenInfo back.
LEMMA BringsNothingBack ==
    ASSUME TabTypeOK, [TabNext]_tabVars, NEW w \in Timers,
           ref[w] # Nothing, ref'[w] = Nothing, ~user, ~saved
    PROVE  ~saved'
<1> USE DEF store, cookies, tab, exit
<1>1. /\ w \in Who /\ w # "queue" /\ w # "init" /\ "queue" \in Who /\ "init" \in Who
      /\ timing = FALSE /\ ref \in [Who -> Fetch \cup {Nothing}]
  <2>1. w \in Who /\ "queue" \in Who /\ "init" \in Who
    BY DEF Who
  <2>2. w # "queue" /\ w # "init"
    BY TimersAssumption
  <2>3. ref \in [Who -> Fetch \cup {Nothing}] /\ timing \in {FALSE, user /\ saved}
    BY DEF TabTypeOK
  <2>4. timing = FALSE
    BY <2>3
  <2> QED
    BY <2>1, <2>2, <2>3, <2>4
<1>2. UNCHANGED ref => FALSE
  OBVIOUS
<1>3. CASE UNCHANGED tabVars
  BY <1>2, <1>3 DEF tabVars
<1>4. ASSUME NEW c \in All, Send(c) \/ Answer(c) PROVE ~saved'
  <2>1. CASE Lead(c)
    BY <1>1, <2>1 DEF Lead, Ask
  <2>2. CASE Unauthorized(c)
    BY <2>2 DEF Unauthorized
  <2>3. CASE Forbidden(c)
    BY <2>3 DEF Forbidden
  <2> QED
    BY <1>2, <1>4, <2>1, <2>2, <2>3 DEF Answer, Send, Succeed, Queue, Fail
<1>5. ASSUME NEW v \in Who, Serve(v) \/ Lose(v) PROVE ~saved'
  BY <1>5 DEF Serve, Lose
<1>6. ASSUME NEW v \in Timers, TimerFires(v) \/ TimerRefreshed(v) \/ TimerFailed(v)
      PROVE  ~saved'
  BY <1>1, <1>6 DEF TimerFires, TimerRefreshed, TimerFailed
<1>7. CASE Refreshed \/ RefreshFailed
  BY <1>1, <1>7 DEF Refreshed, RefreshFailed, Arrives
<1>8. CASE InitRefreshed \/ InitFailed \/ InitTimeout
  BY <1>1, <1>2, <1>8 DEF InitRefreshed, InitFailed, InitTimeout, Arrives
<1>9. CASE TimerExpires \/ Close
  BY <1>9 DEF TimerExpires, Close
<1>10. CASE LogoutServe \/ EndSession
  BY <1>10 DEF LogoutServe, EndSession, Kill
<1>11. CASE Login \/ LogoutSend \/ LogoutRefused \/ LogoutLost \/ LogoutAnswer \/ Age \/ Load
  BY <1>2, <1>11 DEF Login, LogoutSend, LogoutRefused, LogoutLost, LogoutAnswer, Age, Load
<1>12. \A c \in Calls : c \in All
  BY DEF All
<1> QED
  BY <1>3, <1>4, <1>5, <1>6, <1>7, <1>8, <1>9, <1>10, <1>11, <1>12 DEF TabNext

\* AuthProvider's check of its flag after the await is enough: the interceptors
\* and useAuthInit share the store with it and know nothing of the flag.
THEOREM NothingBroughtBack == TabSpec => TimerBringsNothingBack
<1>1. TabInv /\ [TabNext]_tabVars =>
        [\A w \in Timers :
           ref[w] # Nothing /\ ref'[w] = Nothing /\ ~user /\ ~saved => ~saved']_tabVars
  BY BringsNothingBack DEF TabInv
<1> QED
  BY <1>1, TabInvariant, PTL DEF TabSpec, TimerBringsNothingBack
=============================================================================
