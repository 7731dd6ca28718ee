---------------------------- MODULE TokenVersion ----------------------------
(***************************************************************************)
(* The account row and the tokens signed from it.                          *)
(*                                                                         *)
(* Every access and refresh token carries the tokenVersion ("tv") its      *)
(* account row had when the request that signed it read the row, and every *)
(* check compares it with the row.  Revoking is raising the row's tv:      *)
(* logout, a forced logout and the deletion of a role do it with one SQL   *)
(* increment; a password change, a password reset, a deactivation and an   *)
(* administrator's update read the row, compute tv + 1 in the process, and *)
(* save it after at least one await.  Sign-ins and refreshes read the row, *)
(* wait (bcrypt, TOTP entry, database) and sign with what they read.       *)
(*                                                                         *)
(* Source: services/auth.service.ts, services/user.service.ts,             *)
(* controllers/auth.controller.ts, controllers/twoFactor.controller.ts,    *)
(* controllers/userSession.controller.ts, services/role.service.ts.        *)
(* Session rows are in UserSessions, the caches of the authentication      *)
(* middleware in Authenticate.                                             *)
(***************************************************************************)
EXTENDS Naturals

CONSTANTS
    Users,           \* account ids
    Reqs,            \* slots for requests in flight
    Allow,           \* the workloads allowed, a subset of Workloads
    MaxRevocations   \* bound on the revocations of one account

\* "overlap": a revoking request of an account may run between the read and
\*            the save of another one of the same account.
\* "reuse":   the id of a rejected account is registered again although tokens
\*            were signed for it.
Workloads == {"overlap", "reuse"}

ASSUME AllowAssumption == Allow \subseteq Workloads
ASSUME BoundAssumption == MaxRevocations \in Nat

VARIABLES
    tv,         \* users.tokenVersion of each account
    bars,       \* what bars the account from signing in
    twoFactor,  \* users.twoFactorEnabled
    tokens,     \* token pairs signed and handed out
    req,        \* requests in flight: what each has read, and its next step
    gen         \* history: how many revocations each account has completed

account == <<tv, bars, twoFactor>>
vars == <<tv, bars, twoFactor, tokens, req, gen>>

\* Why an account may not sign in: isActive is false, isDeleted is true, its
\* role is missing or inactive, lockUntil is in the future, no such row.
Bars == {"inactive", "deleted", "role", "locked", "absent"}

Steps == {"compare", "verify", "issue", "rotate", "save"}
Kinds == {"plain", "2fa", "password", "reset", "adminReset", "deactivate", "role"}

\* tv is in the token; gen is history: the revocations the account had seen
\* when the credential this one descends from was established.
Token == [user : Users, tv : Nat, gen : Nat]

Flight == [step : Steps, user : Users, kind : Kinds, tv : Nat, gen : Nat]
Idle   == [step |-> "idle"]

TypeOK ==
    /\ tv \in [Users -> Nat]
    /\ bars \in [Users -> SUBSET Bars]
    /\ twoFactor \in [Users -> BOOLEAN]
    /\ tokens \subseteq Token
    /\ req \in [Reqs -> Flight \cup {Idle}]
    /\ gen \in [Users -> 0 .. MaxRevocations]

----------------------------------------------------------------------------
Free(q)    == req[q] = Idle
Finish(q)  == req' = [req EXCEPT ![q] = Idle]
Present(u) == "absent" \notin bars[u]
\* What a paranoid findByPk finds: rows that are not soft-deleted.
Found(u)   == bars[u] \cap {"absent", "deleted"} = {}
\* Somebody holds a token of the account: what authenticate asks for.
SignedIn(u) == \E t \in tokens : t.user = u

SetBars(u, B) == bars' = [bars EXCEPT ![u] = B]

\* The tokenVersion comparison of authenticate, refreshToken and verify2FALogin.
Matches(t) == t.tv = tv[t.user]

\* A request that will save a tokenVersion computed from an earlier read.
IsSave(q) == req[q] # Idle /\ req[q].step = "save"
Saving(u) == \E q \in Reqs : IsSave(q) /\ req[q].user = u

MayRevoke(u) ==
    /\ "overlap" \in Allow \/ ~Saving(u)
    /\ gen[u] < MaxRevocations

Begin(q, step, u, kind, g) ==
    req' = [req EXCEPT ![q] =
              [step |-> step, user |-> u, kind |-> kind, tv |-> tv[u], gen |-> g]]

----------------------------------------------------------------------------
(* Signing in: login, verify2FALogin and refreshToken.                      *)

\* AuthService.login reads the row and refuses an account that is barred.
LoginRead(q, u) ==
    /\ Free(q)
    /\ bars[u] = {}
    /\ Begin(q, "compare", u, IF twoFactor[u] THEN "2fa" ELSE "plain", gen[u])
    /\ UNCHANGED <<account, tokens, gen>>

\* A failed attempt, counted; from maxLoginAttempts on it locks the account.
FailedAttempt(u) ==
    \E locks \in BOOLEAN :
        SetBars(u, IF locks /\ Present(u) THEN bars[u] \cup {"locked"} ELSE bars[u])

\* The password does not match.
WrongPassword(q) ==
    /\ req[q].step = "compare"
    /\ FailedAttempt(req[q].user)
    /\ Finish(q)
    /\ UNCHANGED <<tv, twoFactor, tokens, gen>>

\* The password matches: with 2FA the client gets a temporary token that
\* carries the tv read, otherwise the request goes on to sign.
RightPassword(q) ==
    /\ req[q].step = "compare"
    /\ req' = [req EXCEPT ![q].step = IF req[q].kind = "2fa" THEN "verify" ELSE "issue"]
    /\ UNCHANGED <<account, tokens, gen>>

\* verify2FALogin without the comparison.
VerifyCodeUnchecked(q) ==
    /\ req[q].step = "verify"
    /\ LET u == req[q].user IN
         /\ bars[u] = {}
         /\ twoFactor[u]
         /\ Begin(q, "issue", u, "2fa", req[q].gen)
    /\ UNCHANGED <<account, tokens, gen>>

\* verify2FALogin with a right code: reads the row again, compares its tv with
\* the temporary token's, and goes on to sign with the row's.
VerifyCode(q) ==
    /\ req[q].step = "verify"
    /\ LET u == req[q].user IN
         /\ bars[u] = {}
         /\ Matches(req[q])
         /\ twoFactor[u]
         /\ Begin(q, "issue", u, "2fa", req[q].gen)
    /\ UNCHANGED <<account, tokens, gen>>

\* verify2FALogin with a wrong code: counted like a wrong password.
WrongCode(q) ==
    /\ req[q].step = "verify"
    /\ LET u == req[q].user IN
         /\ bars[u] = {}
         /\ Matches(req[q])
         /\ twoFactor[u]
         /\ FailedAttempt(u)
    /\ UNCHANGED <<tv, twoFactor, tokens, req, gen>>

\* The temporary token is good for any number of tries, then expires.
TempTokenExpires(q) ==
    /\ req[q].step = "verify"
    /\ Finish(q)
    /\ UNCHANGED <<account, tokens, gen>>

\* A signer that leaves tv out of the token.
UnversionedToken(q) == [user |-> req[q].user, gen |-> req[q].gen]

SignedToken(q) == [user |-> req[q].user, tv |-> req[q].tv, gen |-> req[q].gen]

\* resetFailedAttempts, then sign.  The save writes lockUntil only when the
\* instance held an (expired) value, so it may or may not clear a lock that
\* another request has set since.  A temporary token outlives its use.
Issue(q) ==
    /\ req[q].step = "issue"
    /\ \E B \in {{}, {"locked"}} :
         SetBars(req[q].user, bars[req[q].user] \ B)
    /\ tokens' = tokens \cup {SignedToken(q)}
    /\ IF req[q].kind = "2fa" THEN req' = [req EXCEPT ![q].step = "verify"] ELSE Finish(q)
    /\ UNCHANGED <<tv, twoFactor, gen>>

\* refreshToken without the comparison.
RefreshReadUnchecked(q, t) ==
    /\ Free(q)
    /\ bars[t.user] = {}
    /\ Begin(q, "rotate", t.user, "plain", t.gen)
    /\ UNCHANGED <<account, tokens, gen>>

\* refreshToken reads the row, refuses a barred account and compares tv.
RefreshRead(q, t) ==
    /\ Free(q)
    /\ bars[t.user] = {}
    /\ Matches(t)
    /\ Begin(q, "rotate", t.user, "plain", t.gen)
    /\ UNCHANGED <<account, tokens, gen>>

\* The session row is active: the new pair is returned.
RefreshIssue(q) ==
    /\ req[q].step = "rotate"
    /\ tokens' = tokens \cup {SignedToken(q)}
    /\ Finish(q)
    /\ UNCHANGED <<account, gen>>

\* validateSession finds no active row (see UserSessions).
RefreshDenied(q) ==
    /\ req[q].step = "rotate"
    /\ Finish(q)
    /\ UNCHANGED <<account, tokens, gen>>
----------------------------------------------------------------------------
(* Revoking with one SQL increment.                                         *)

\* A version of one bit.
IncrementOneBit(S) ==
    /\ tv'  = [u \in Users |-> IF u \in S THEN (tv[u] + 1) % 2 ELSE tv[u]]
    /\ gen' = [u \in Users |-> IF u \in S THEN gen[u] + 1 ELSE gen[u]]

Increment(S) ==
    /\ tv'  = [u \in Users |-> IF u \in S THEN tv[u] + 1 ELSE tv[u]]
    /\ gen' = [u \in Users |-> IF u \in S THEN gen[u] + 1 ELSE gen[u]]

Logout(u) ==
    /\ Found(u)
    /\ SignedIn(u)
    /\ MayRevoke(u)
    /\ Increment({u})
    /\ UNCHANGED <<bars, twoFactor, tokens, req>>

\* forceLogoutSession: an administrator ends a session of another account.
ForceLogoutSession(u) ==
    /\ Found(u)
    /\ SignedIn(u)
    /\ MayRevoke(u)
    /\ Increment({u})
    /\ UNCHANGED <<bars, twoFactor, tokens, req>>

\* deleteRole raises the tv of the role's members and moves them to the active
\* role guest in one transaction.  A soft-deleted member is not moved, and the
\* foreign key of its role column then rolls the transaction back.
DeleteRole(S) ==
    /\ \A u \in S : Found(u) /\ MayRevoke(u)
    /\ Increment(S)
    /\ bars' = [u \in Users |-> IF u \in S THEN bars[u] \ {"role"} ELSE bars[u]]
    /\ UNCHANGED <<twoFactor, tokens, req>>

----------------------------------------------------------------------------
(* Revoking by read, compute and save.                                      *)

\* resetPassword by token asks for an active account; deactivating an inactive
\* one saves tv alone, like "adminReset"; changePassword is behind authenticate.
Revisable(u, kind) ==
    /\ Found(u)
    /\ kind \in {"reset", "deactivate"} => "inactive" \notin bars[u]
    /\ kind = "password" => SignedIn(u)

\* changePassword, resetPassword, deactivateUser, updateUser read the row.
RevokeRead(q, u, kind) ==
    /\ Free(q)
    /\ Revisable(u, kind)
    /\ MayRevoke(u)
    /\ Begin(q, "save", u, kind, gen[u])
    /\ UNCHANGED <<account, tokens, gen>>

\* A deactivation clears isActive; updateUser moves the account to an active
\* role and may set isActive either way in the same save.
BarsAfter(u, kind) ==
    CASE kind = "deactivate" -> {bars[u] \cup {"inactive"}}
      [] kind = "role"       -> {(bars[u] \ {"role", "inactive"}) \cup B :
                                   B \in {{}, {"inactive"}}}
      [] OTHER               -> {bars[u]}

\* ... and save tv + 1, an absolute value; an UPDATE of a row that has been
\* removed in between changes nothing.
RevokeSave(q) ==
    /\ req[q].step = "save"
    /\ LET u == req[q].user IN
         IF Present(u)
         THEN /\ gen[u] < MaxRevocations
              /\ tv' = [tv EXCEPT ![u] = req[q].tv + 1]
              /\ \E B \in BarsAfter(u, req[q].kind) : SetBars(u, B)
              /\ gen' = [gen EXCEPT ![u] = @ + 1]
         ELSE UNCHANGED <<tv, bars, gen>>
    /\ Finish(q)
    /\ UNCHANGED <<twoFactor, tokens>>

\* The current password is wrong, or the save fails: nothing is written.
RevokeAbandoned(q) ==
    /\ req[q].step = "save"
    /\ Finish(q)
    /\ UNCHANGED <<account, tokens, gen>>

----------------------------------------------------------------------------
(* Administration of the account that leaves tv alone.                      *)

\* approveUser, and updateUser with isActive true.
ApproveUser(u) ==
    /\ Found(u)
    /\ "inactive" \in bars[u]
    /\ SetBars(u, bars[u] \ {"inactive"})
    /\ UNCHANGED <<tv, twoFactor, tokens, req, gen>>

\* rejectUser destroys the row of an account that is not active.
RejectUser(u) ==
    /\ Found(u)
    /\ "inactive" \in bars[u]
    /\ SetBars(u, {"absent"})
    /\ UNCHANGED <<tv, twoFactor, tokens, req, gen>>

Unused(u) ==
    /\ ~SignedIn(u)
    /\ \A q \in Reqs : req[q] # Idle => req[q].user # u

\* register makes an inactive row, createUser an active one whose role may be
\* inactive; both at tv 0.  For tokens signed for an earlier row of the same id
\* this is a revocation.
Register(u) ==
    /\ ~Present(u)
    /\ ~Unused(u) => "reuse" \in Allow
    /\ tv' = [tv EXCEPT ![u] = 0]
    /\ \E B \in {{}, {"inactive"}, {"role"}} : SetBars(u, B)
    /\ twoFactor' = [twoFactor EXCEPT ![u] = FALSE]
    /\ IF Unused(u) THEN UNCHANGED gen
       ELSE gen[u] < MaxRevocations /\ gen' = [gen EXCEPT ![u] = @ + 1]
    /\ UNCHANGED <<tokens, req>>

\* deleteUser: soft delete; anonymizeAccount switches 2FA off.  tv stays.
DeleteUser(u) ==
    /\ Found(u)
    /\ SetBars(u, bars[u] \cup {"deleted"})
    /\ twoFactor' = [twoFactor EXCEPT ![u] = FALSE]
    /\ UNCHANGED <<tv, tokens, req, gen>>

\* A restore that makes the row anew, with the default tv.
RestoreUserAnew(u) ==
    /\ Present(u)
    /\ "deleted" \in bars[u]
    /\ SetBars(u, bars[u] \ {"deleted", "inactive"})
    /\ tv' = [tv EXCEPT ![u] = 0]
    /\ UNCHANGED <<twoFactor, tokens, req, gen>>

RestoreUser(u) ==
    /\ Present(u)
    /\ "deleted" \in bars[u]
    /\ SetBars(u, bars[u] \ {"deleted", "inactive"})
    /\ UNCHANGED <<tv, twoFactor, tokens, req, gen>>

\* updateRole switches a role, and with it the sign-in of its members S.
SetRoleActive(S, active) ==
    /\ \A u \in S : Present(u) /\ (active <=> "role" \in bars[u])
    /\ bars' = [u \in Users |->
         IF u \notin S THEN bars[u]
         ELSE IF active THEN bars[u] \ {"role"} ELSE bars[u] \cup {"role"}]
    /\ UNCHANGED <<tv, twoFactor, tokens, req, gen>>

\* lockUntil passes.
LockExpires(u) ==
    /\ "locked" \in bars[u]
    /\ SetBars(u, bars[u] \ {"locked"})
    /\ UNCHANGED <<tv, twoFactor, tokens, req, gen>>

\* enable2FA and disable2FA save only their own columns.
SetTwoFactor(u, on) ==
    /\ Found(u)
    /\ twoFactor[u] # on
    /\ SignedIn(u)
    /\ twoFactor' = [twoFactor EXCEPT ![u] = on]
    /\ UNCHANGED <<tv, bars, tokens, req, gen>>

----------------------------------------------------------------------------
Init ==
    /\ tv = [u \in Users |-> 0]
    /\ bars \in [Users -> {{}, {"absent"}}]
    /\ twoFactor = [u \in Users |-> FALSE]
    /\ tokens = {}
    /\ req = [q \in Reqs |-> Idle]
    /\ gen = [u \in Users |-> 0]

SignIn(q) ==
    \/ \E u \in Users : LoginRead(q, u)
    \/ WrongPassword(q) \/ RightPassword(q)
    \/ VerifyCode(q) \/ WrongCode(q) \/ TempTokenExpires(q)
    \/ Issue(q)

Refresh(q) ==
    \/ \E t \in tokens : RefreshRead(q, t)
    \/ RefreshIssue(q) \/ RefreshDenied(q)

Revoke ==
    \/ \E u \in Users : Logout(u) \/ ForceLogoutSession(u)
    \/ \E S \in SUBSET Users : DeleteRole(S)
    \/ \E q \in Reqs :
         \/ \E u \in Users, kind \in Kinds \ {"plain", "2fa"} : RevokeRead(q, u, kind)
         \/ RevokeSave(q) \/ RevokeAbandoned(q)

Administer ==
    \/ \E u \in Users :
         \/ ApproveUser(u) \/ RejectUser(u) \/ Register(u)
         \/ DeleteUser(u) \/ RestoreUser(u) \/ LockExpires(u)
         \/ \E on \in BOOLEAN : SetTwoFactor(u, on)
    \/ \E S \in SUBSET Users, active \in BOOLEAN : SetRoleActive(S, active)

Next ==
    \/ \E q \in Reqs : SignIn(q) \/ Refresh(q)
    \/ Revoke
    \/ Administer

Spec == Init /\ [][Next]_vars

----------------------------------------------------------------------------
(* Properties.                                                              *)

\* A token pair that still passes the tokenVersion check descends from a
\* sign-in that came after the account's last revocation: logout, password
\* change, reset, deactivation and role change really end every session that
\* came before them, whatever sign-ins and refreshes were in flight.
LiveTokensPostdateRevocations ==
    \A t \in tokens : Matches(t) => t.gen = gen[t.user]

\* The same of what is not a token yet: a sign-in, a temporary 2FA token or a
\* refresh that would sign a matching token descends from a sign-in after the
\* account's last revocation.
PendingSignInsPostdateRevocations ==
    \A q \in Reqs :
        (req[q] # Idle /\ req[q].step # "save" /\ Matches(req[q]))
            => req[q].gen = gen[req[q].user]

\* A token that no longer passes the check never passes it again, not after
\* an approval, a restore or a later revocation either.
RevokedForGood ==
    [][\A t \in tokens : ~Matches(t) => ~Matches(t)']_vars

----------------------------------------------------------------------------
(* The inductive invariant behind them, for the workloads in which the      *)
(* revocations of an account do not overlap and no used id is registered    *)
(* again.                                                                   *)

\* A credential is never ahead of its account, and level with it only if no
\* revocation came between.
Follows(c) ==
    /\ c.tv <= tv[c.user]
    /\ c.gen <= gen[c.user]
    /\ Matches(c) => c.gen = gen[c.user]

CountersFollow == \A u \in Users : tv[u] <= gen[u]
TokensFollow   == \A t \in tokens : Follows(t)
FlightsFollow  == \A q \in Reqs : req[q] # Idle /\ ~IsSave(q) => Follows(req[q])
SavesCurrent   == \A q \in Reqs : IsSave(q) => req[q].tv = tv[req[q].user]
SavesAlone     == \A p, q \in Reqs :
                     IsSave(p) /\ IsSave(q) /\ req[p].user = req[q].user => p = q

IInv == /\ TypeOK
        /\ CountersFollow /\ TokensFollow /\ FlightsFollow
        /\ SavesCurrent /\ SavesAlone

----------------------------------------------------------------------------
(* The abstract specification.                                              *)

\* tokenVersion implements the abstract revocation of credentials.
Credential == [user : Users, tv : 0 .. MaxRevocations, gen : 0 .. MaxRevocations]
OwnerOf(c) == c.user
LiveTokens == {t \in tokens : Matches(t)}

Rev == INSTANCE Revocation WITH
         Creds <- Credential, Owner <- OwnerOf,
         valid <- LiveTokens, revoked <- tokens \ LiveTokens

RefinesRevocation == Rev!Spec
=============================================================================
