------------------------------ MODULE Accounts ------------------------------
(***************************************************************************)
(* One account's row besides its tokenVersion: the failed-login counter    *)
(* and the lock, the second factor, and the link that resets a forgotten   *)
(* password, with the requests for one.                                    *)
(*                                                                         *)
(* Nearly every handler reads the row without a lock, works (bcrypt, TOTP), *)
(* and saves the object it read.  A save writes the columns the handler    *)
(* changed in its object, and only these: what it read unchanged stays out *)
(* of the UPDATE, whatever the row has become.  The counter is the         *)
(* exception, an atomic increment, and the approval of a reset request is  *)
(* a transaction that locks the request.                                   *)
(*                                                                         *)
(* Source: models/User.ts, services/auth.service.ts,                       *)
(* controllers/twoFactor.controller.ts,                                    *)
(* services/passwordResetRequest.service.ts.                               *)
(***************************************************************************)
EXTENDS Naturals, FiniteSets

CONSTANTS
    Reqs,           \* slots for handlers in flight
    MaxAttempts,    \* settings.maxLoginAttempts
    MaxLocks,       \* bound on the locks that expire
    MaxSecrets,     \* bound on the 2FA secrets that are shown
    MaxAsks,        \* bound on the reset requests that are created
    MaxFaults       \* bound on the failing statements of a sign-in

ASSUME AccountsAssumption ==
    /\ IsFiniteSet(Reqs) /\ MaxAttempts \in Nat \ {0}
    /\ MaxLocks \in Nat /\ MaxSecrets \in Nat /\ MaxAsks \in Nat
    /\ MaxFaults \in Nat

VARIABLES
    attempts,    \* users.failedLoginAttempts
    lock,        \* users.lockUntil: null, in the future, in the past
    secret, on,  \* users.twoFactorSecret (0 is null), users.twoFactorEnabled
    link,        \* users.passwordResetToken: the request it was issued for, or 0
    status,      \* password_reset_requests of the account
    req,         \* what each handler in flight has read
    guesses,     \* history: wrong passwords and codes since the last good one,
                 \* or since the last lock ran out
    locks,       \* history: how many locks ran out
    faults,      \* history: sign-ins whose statement failed and that went on
    shown,       \* history: how many secrets were shown
    proven,      \* history: secrets a code was given for
    crossed,     \* history: a 2FA handler saved over what it had not read
    issued,      \* history: how many links each request was answered with
    used,        \* history: how often each link has set the password
    overruled,   \* history: requests whose rejection had read them pending
                 \* before they were approved
    raced,       \* history: links that two resetPasswords were at, at once
    doubled      \* history: two createRequests were under way at once

login   == <<attempts, lock, guesses, locks, faults>>
factor  == <<secret, on, shown, proven, crossed>>
answers == <<link, status, issued, used, overruled>>
races   == <<raced, doubled>>
resets  == <<answers, races>>
vars    == <<login, factor, resets, req>>

Asks    == 1 .. MaxAsks
Most    == MaxAttempts - 1 + Cardinality(Reqs)
Idle    == [op |-> "idle"]
Login   == [op : {"password", "code"}, attempts : Nat, lock : {"none", "past"}, on : BOOLEAN]
Factor  == [op : {"generate", "enable", "disable"}, secret : 0 .. MaxSecrets, on : BOOLEAN]
Reset   == [op : {"approve", "reject", "redeem"}, ask : Asks]
Plain   == [op : {"counted", "lock", "ask"}]

TypeOK ==
    /\ attempts \in Nat /\ lock \in {"none", "on", "past"}
    /\ secret \in 0 .. MaxSecrets /\ on \in BOOLEAN
    /\ link \in 0 .. MaxAsks
    /\ status \in [Asks -> {"none", "pending", "approved", "rejected"}]
    /\ req \in [Reqs -> {Idle} \cup Login \cup Factor \cup Reset \cup Plain]
    /\ guesses \in Nat /\ locks \in 0 .. MaxLocks /\ faults \in 0 .. MaxFaults
    /\ shown \in 0 .. MaxSecrets /\ secret <= shown
    /\ proven \subseteq 1 .. shown /\ crossed \in BOOLEAN
    /\ issued \in [Asks -> Nat] /\ used \in [Asks -> Nat]
    /\ overruled \subseteq Asks /\ raced \subseteq Asks /\ doubled \in BOOLEAN

Op(q) == req[q].op
Then(q, r) == req' = [req EXCEPT ![q] = r]

----------------------------------------------------------------------------
(* login and verify2FALogin                                                 *)

\* Both read the row and refuse an account that is locked.  A temporary token
\* of the password step is taken to be at hand: it may be used again for five
\* minutes.
LoginRead(q, op) ==
    /\ Op(q) = "idle" /\ lock # "on"
    /\ op = "code" => on /\ secret # 0
    /\ Then(q, [op |-> op, attempts |-> attempts, lock |-> lock, on |-> on])
    /\ UNCHANGED <<login, factor, resets>>

\* A counter that is saved from the row as it was read.
WrongSaved(q) ==
    /\ Op(q) \in {"password", "code"}
    /\ attempts' = req[q].attempts + 1 /\ guesses' = guesses + 1
    /\ Then(q, [op |-> "counted"])
    /\ UNCHANGED <<lock, locks, faults, factor, resets>>

\* incrementFailedAttempts: the counter, the reload, the lock.
Wrong(q) ==
    /\ Op(q) \in {"password", "code"}
    /\ attempts' = attempts + 1 /\ guesses' = guesses + 1
    /\ Then(q, [op |-> "counted"])
    /\ UNCHANGED <<lock, locks, faults, factor, resets>>

Reload(q) ==
    /\ Op(q) = "counted"
    /\ Then(q, IF attempts >= MaxAttempts THEN [op |-> "lock"] ELSE Idle)
    /\ UNCHANGED <<login, factor, resets>>

Lock(q) ==
    /\ Op(q) = "lock"
    /\ lock' = "on"
    /\ Then(q, Idle)
    /\ UNCHANGED <<attempts, guesses, locks, faults, factor, resets>>

\* A right password of an account with a second factor: a temporary token.
HalfWay(q) ==
    /\ Op(q) = "password" /\ req[q].on
    /\ Then(q, Idle)
    /\ UNCHANGED <<login, factor, resets>>

\* resetFailedAttempts saves the columns in which its object has changed.
Right(q) ==
    /\ \/ Op(q) = "code"
       \/ Op(q) = "password" /\ ~req[q].on
    /\ attempts' = IF req[q].attempts = 0 THEN attempts ELSE 0
    /\ lock' = IF req[q].lock = "none" THEN lock ELSE "none"
    /\ guesses' = 0
    /\ Then(q, Idle)
    /\ UNCHANGED <<locks, faults, factor, resets>>

\* A failing counter or reset is logged, and the sign-in goes on.
SignInFault(q) ==
    /\ Op(q) \in {"password", "code"} /\ faults < MaxFaults
    /\ faults' = faults + 1
    /\ guesses' \in {guesses + 1} \cup (IF req[q].op = "password" /\ req[q].on
                                       THEN {} ELSE {0})
    /\ Then(q, Idle)
    /\ UNCHANGED <<attempts, lock, locks, factor, resets>>

\* So is a failing reload or lock: the guess is counted, and nobody locks.
CountFault(q) ==
    /\ Op(q) \in {"counted", "lock"} /\ faults < MaxFaults
    /\ faults' = faults + 1
    /\ Then(q, Idle)
    /\ UNCHANGED <<attempts, lock, guesses, locks, factor, resets>>

\* Nothing but the clock: the counter stays.
LockEnds ==
    /\ lock = "on" /\ locks < MaxLocks
    /\ lock' = "past" /\ locks' = locks + 1 /\ guesses' = 0
    /\ UNCHANGED <<attempts, faults, factor, resets, req>>

----------------------------------------------------------------------------
(* generate2FASecret, enable2FA, disable2FA                                 *)

\* A generate2FASecret that does not ask whether the factor is on.
MayBeginAny(op) == \/ op = "generate"
                   \/ op = "enable" /\ secret # 0
                   \/ op = "disable" /\ on /\ secret # 0

\* An enable2FA that does not ask whether there is a secret.
MayBeginUnset(op) == \/ op = "generate" /\ ~on
                     \/ op = "enable"
                     \/ op = "disable" /\ on /\ secret # 0

\* What each refuses at once; without a secret the code check throws.
MayBegin(op) == \/ op = "generate" /\ ~on
                \/ op = "enable" /\ secret # 0
                \/ op = "disable" /\ on /\ secret # 0

FactorRead(q, op) ==
    /\ Op(q) = "idle" /\ MayBegin(op)
    /\ Then(q, [op |-> op, secret |-> secret, on |-> on])
    /\ UNCHANGED <<login, factor, resets>>

Crossed(q) == crossed' = (crossed \/ secret # req[q].secret \/ on # req[q].on)

GenerateSave(q) ==
    /\ Op(q) = "generate" /\ shown < MaxSecrets
    /\ shown' = shown + 1 /\ secret' = shown + 1
    /\ Crossed(q) /\ Then(q, Idle)
    /\ UNCHANGED <<on, proven, login, resets>>

\* The code is checked against the secret that was read; enabling twice
\* changes nothing in the object, and so saves nothing.
EnableSave(q) ==
    /\ Op(q) = "enable"
    /\ proven' = proven \cup {req[q].secret}
    /\ on' = (on \/ ~req[q].on)
    /\ Crossed(q) /\ Then(q, Idle)
    /\ UNCHANGED <<secret, shown, login, resets>>

DisableSave(q) ==
    /\ Op(q) = "disable"
    /\ on' = FALSE /\ secret' = 0
    /\ Crossed(q) /\ Then(q, Idle)
    /\ UNCHANGED <<shown, proven, login, resets>>

----------------------------------------------------------------------------
(* passwordResetRequest.service and AuthService.resetPassword               *)

Pending == {a \in Asks : status[a] = "pending"}
Created == {a \in Asks : status[a] # "none"}

\* createRequest: no pending request is found, and one is created.
AskRead(q) ==
    /\ Op(q) = "idle" /\ Pending = {}
    /\ Then(q, [op |-> "ask"])
    /\ doubled' = (doubled \/ \E p \in Reqs : Op(p) = "ask")
    /\ UNCHANGED <<answers, raced, login, factor>>

AskCreate(q) ==
    /\ Op(q) = "ask" /\ Created # Asks
    /\ status' = [status EXCEPT ![Cardinality(Created) + 1] = "pending"]
    /\ Then(q, Idle)
    /\ UNCHANGED <<link, issued, used, overruled, races, login, factor>>

\* An approve that reads without a lock.
LockedAskNever(a) == FALSE

\* approve holds the request's row from its read to its commit.
LockedAsk(a) == \E q \in Reqs : Op(q) = "approve" /\ req[q].ask = a

ApproveRead(q, a) ==
    /\ Op(q) = "idle" /\ ~LockedAsk(a) /\ status[a] = "pending"
    /\ Then(q, [op |-> "approve", ask |-> a])
    /\ UNCHANGED <<login, factor, resets>>

ApproveCommit(q) ==
    /\ Op(q) = "approve"
    /\ LET a == req[q].ask IN
         /\ status' = [status EXCEPT ![a] = "approved"]
         /\ issued' = [issued EXCEPT ![a] = @ + 1]
         /\ link' = a
    /\ Then(q, Idle)
    /\ UNCHANGED <<used, overruled, races, login, factor>>

\* reject reads and saves without a lock, but its UPDATE waits for one.
RejectRead(q, a) ==
    /\ Op(q) = "idle" /\ status[a] = "pending"
    /\ Then(q, [op |-> "reject", ask |-> a])
    /\ UNCHANGED <<login, factor, resets>>

RejectSave(q) ==
    /\ Op(q) = "reject"
    /\ LET a == req[q].ask IN
         /\ ~LockedAsk(a)
         /\ status' = [status EXCEPT ![a] = "rejected"]
         /\ overruled' = IF status[a] = "approved" THEN overruled \cup {a} ELSE overruled
    /\ Then(q, Idle)
    /\ UNCHANGED <<link, issued, used, races, login, factor>>

Redeemed(a) == \E q \in Reqs : Op(q) = "redeem" /\ req[q].ask = a

\* resetPassword finds the row by the token, hashes, and saves; its object's
\* token becomes null whatever the row's has become.
RedeemRead(q) ==
    /\ Op(q) = "idle" /\ link # 0
    /\ Then(q, [op |-> "redeem", ask |-> link])
    /\ raced' = IF Redeemed(link) THEN raced \cup {link} ELSE raced
    /\ UNCHANGED <<answers, doubled, login, factor>>

RedeemSave(q) ==
    /\ Op(q) = "redeem"
    /\ link' = 0 /\ used' = [used EXCEPT ![req[q].ask] = @ + 1]
    /\ Then(q, Idle)
    /\ UNCHANGED <<status, issued, overruled, races, login, factor>>

----------------------------------------------------------------------------
Init ==
    /\ attempts = 0 /\ lock = "none" /\ guesses = 0 /\ locks = 0 /\ faults = 0
    /\ secret = 0 /\ on = FALSE /\ shown = 0 /\ proven = {} /\ crossed = FALSE
    /\ link = 0 /\ status = [a \in Asks |-> "none"]
    /\ issued = [a \in Asks |-> 0] /\ used = issued /\ overruled = {}
    /\ raced = {} /\ doubled = FALSE
    /\ req = [q \in Reqs |-> Idle]

LoginStep(q) ==
    \/ \E op \in {"password", "code"} : LoginRead(q, op)
    \/ Wrong(q) \/ Reload(q) \/ Lock(q) \/ HalfWay(q) \/ Right(q)
    \/ SignInFault(q) \/ CountFault(q)

FactorStep(q) ==
    \/ \E op \in {"generate", "enable", "disable"} : FactorRead(q, op)
    \/ GenerateSave(q) \/ EnableSave(q) \/ DisableSave(q)

ResetStep(q) ==
    \/ AskRead(q) \/ AskCreate(q)
    \/ \E a \in Asks : ApproveRead(q, a) \/ RejectRead(q, a)
    \/ ApproveCommit(q) \/ RejectSave(q) \/ RedeemRead(q) \/ RedeemSave(q)

Next == \/ \E q \in Reqs : LoginStep(q) \/ FactorStep(q) \/ ResetStep(q)
        \/ LockEnds

Spec == Init /\ [][Next]_vars

----------------------------------------------------------------------------
(* Properties                                                               *)

\* Between two good logins, or two ends of a lock, at most maxLoginAttempts
\* wrong passwords and codes are tried, and one more for every other handler
\* that was in flight: no concurrent failure is lost from the counter but those
\* whose statement fails.
GuessesAreBounded == guesses <= Most + faults

\* An account whose second factor is on has a secret, one that a code was given
\* for, unless a 2FA handler saved over a change it had not read.
FactorWorks == on /\ ~crossed => secret \in proven

\* A request is answered with one link at most, however many administrators
\* approve it at once, and stays approved unless a rejection had read it before.
\* A link that works was issued; it sets the password once, but for a second
\* resetPassword that had found it before the first one saved.  One request
\* waits, but for a second createRequest that had found none before the first
\* one created it.
LinksAreApproved ==
    /\ \A a \in Asks : /\ issued[a] <= 1 /\ (a \notin raced => used[a] <= 1)
                       /\ issued[a] = 1 /\ a \notin overruled => status[a] = "approved"
    /\ link # 0 => issued[link] = 1
    /\ ~doubled => \A a, b \in Pending : a = b

\* "A one-time reset token" (passwordResetRequest.service.ts:74): a link that an
\* administrator was answered with sets the password once.
LinksAreOneTime == \A a \in Asks : used[a] <= 1
=============================================================================
