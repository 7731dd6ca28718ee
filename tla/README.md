# Myhome: a verification project

Myhome is a self-hosted board: a React client (`src/client`) and an Express server
(`src/server`) that keeps its data with Sequelize in SQLite, MySQL, MariaDB or
PostgreSQL. One node process serves all requests; what makes it concurrent is that
every `await` lets other requests run, and that on databases other than SQLite the
transactions of those requests overlap too.

This directory holds TLA+ modules of the parts whose correctness depends on such
interleavings, TLC runs that check them on small instances, and proofs of their most
important invariants for every instance.

`PROJECT.json` lists the components, the runs, for every definition the source lines
it stands for, the hazards of the code, and for every property a mutant of the code
that the property catches.

## Inventory

Paths are under `src/server/src` unless they begin with `client`.

| Component | State | Operations | Hard behaviour | What makes it correct |
|---|---|---|---|---|
| Account row and `tokenVersion` (`services/auth.service.ts`, `services/user.service.ts`, `controllers/auth`, `twoFactor`, `userSession`, `admin`) | `users.tokenVersion`, `isActive`, `isDeleted`, `lockUntil`, role, 2FA flag; signed tokens in clients' hands | login, 2FA login, refresh; logout, forced logout, password change, reset, deactivation, role change and deletion; approve, reject, register, delete, restore | sign-ins read the row and sign awaits later; some revocations increment in SQL, others save a value computed from an old read | no credential survives a revocation that came after it; what was revoked stays revoked |
| Session rows (`services/userSession.service.ts`) | one row per login: hashed refresh token, `isActive`, `lastActivityAt` | create (upsert and limit), validate, rotate, terminate, force out, expire all, clean | two tabs rotate at once; a session ends between check and rotation; `createSession` is not awaited; answers get lost | session limit; an exchanged token is dead; an ended device stays out; a device that behaves keeps its session |
| `authenticate` middleware (`middlewares/auth.middleware.ts`) | `userCache`, `statusCache`, 30 s each | hit, miss, fill; invalidation by every writer of accounts | a fill after an invalidation restores what was dropped; some writers drop nothing | staleness is bounded; the `mustChangePassword` gate holds |
| Wiki (`services/wiki.service.ts`) | `WikiPages.parentId` (no foreign key), revisions | create, update with a walk up the ancestors, delete | checks read other rows than the locked one; READ COMMITTED | the pages stay a tree; parents exist; the newest revision is the page |
| Lockout and second factor (`models/User.ts`, `services/auth.service.ts`, `controllers/twoFactor`) | attempt counter, `lockUntil`, secret and flag of the second factor | failed and successful sign-ins, set-up, enabling, disabling | an SQL increment beside saves of a row read earlier | guesses between two good sign-ins are bounded; a factor that is on has a proven secret |
| Password reset requests (`services/passwordResetRequest.service.ts`) | request rows `pending / approved / rejected`, the token in the account | request, approve, reject, redeem | check and create are two statements; `reject` takes no lock | one link per request; an approved request stays approved |
| Roles and board permissions (`services/role.service.ts`, `board.service.ts`, `boardManager.service.ts`, `middlewares/boardAccess`, `roleCheck`) | roles, access rows, managers | create, update, delete, grant | the deletion of a role moves its members | no access without a grant; no member without a role |
| Posts and attachments (`services/post.service.ts`, `board.service.ts`, `index.ts`) | rows (live, trash, gone) that name files, files on disk | create, update and move, delete, purge, deletion of a board | no transaction spans rows and files; lists computed from unlocked reads; a stop between commit and unlink | a file that a post names is there; a file that is there is named |
| Comments, likes, notifications (`services/comment`, `commentLike`, `like`, `notification.service.ts`) | comment tree, two tables of likes, a denormalised `likeCount`, notifications | comment, reply, remove, toggle, deletion of the post, of the board, of a user | limits counted before the insert; controllers read without a lock; notifications nobody waits for | `likeCount` is right; number and depth are bounded; a deleted thread stays deleted |
| Tags, bookmarks, reads, pins | rows of their own | one statement each | none | |
| Client session handling (`client/src/api/axios.ts`, `components/AuthProvider.tsx`, `hooks/useAuthInit.ts`, `store/auth.ts`) | refresh flag, queue of waiting requests, stored token info | intercept 419, refresh, retry, timer refresh, initial load with a timeout | three independent refreshers in one tab; late answers after a logout | every waiting request is settled; one retry each |
| Rate limits (`middlewares/dynamicRateLimit`, `rateLimitAdmin.controller.ts`) | rows of limits; a map of middlewares, each with its counters | initialise, refresh by timer, by request and after every change; create, update, toggle, delete, presets | refreshes overlap, fail and rebuild the whole map | a limit nobody touches keeps its counters; in the end the limits in force are the rows |
| IP rules, maintenance mode, site settings (`services/ipRule.service.ts`, `middlewares/maintenance`, `ipWhitelist`, `utils/settingsCache.ts`) | one copy in memory each, two of them valid for 30 s | load, save, drop, read again | a load that crosses a save stores what the save replaced | an outdated copy is applied for a bounded time |
| Reports, memos, events (`services/*.service.ts`) | rows with a status or an order | file, decide, read, reorder | single statements | |
| Uploads, logs, rendering, secrets, CSRF, HTTP response cache, pages of the client | files and append-only rows, or nothing | | | pure functions or I/O; not the subject of a model |

How they interact: every request passes the rate limiter and, unless public,
`authenticate`, which reads the account and the session row through its caches. The
account's handlers write the row, then drop cache entries, then (or before) end
session rows: three steps with awaits between them. The client turns an expired
access token (419) into one refresh, for which all of the tab's requests wait; a
refresh checks `tokenVersion` and the session row and rotates the token in the row.
Comments, likes and notifications hang on a post, and a post on its board: whoever
deletes one of these deletes what hangs on it, statement by statement, while requests
that have read the post are still to add to it. Settings and rules reach every request
through copies in memory, which the administrators' handlers drop or read again after
they have committed.

## Plan

The order is by what a mistake costs: who may act as whom comes first.

1. `TokenVersion`, with the abstract `Revocation` it implements, and its proofs. **Done.**
2. `UserSessions` and its proofs. **Done.**
3. `Authenticate` and its proofs. **Done.**
4. `Posts`: rows against files, with stops and failures, and `Threads`: what hangs on a
   post. **Done**, with their proofs; the liveness of `Posts` is for TLC.
5. `WikiTree` and its proofs. **Done.**
6. `ClientAuth`: the refresh queue of a tab beside the timer of `AuthProvider` and
   the initial load of `useAuthInit`. **Done**, with proofs of its safety part; its
   liveness is for TLC.
7. `Accounts`: lockout, second factor, password reset, and its proofs. **Done.**
8. `Caches` and `RateLimits`. **Done**, with their proofs; the liveness of `RateLimits`
   is for TLC.
9. Board access rows under `setBoardAccessPermissions`, `deleteRole` and `deleteBoard`,
   whose locks make them serial: the only part left with a protocol of several rows.

No safety property of a passing run is left without a theorem. The runs stay few: a
passing run per component, or per two components that share no variable, and a run with
a violation only for a real disagreement between the code and what it says of itself.

## Modules

### Revocation and TokenVersion

`Revocation` says what revoking credentials means: a credential is valid or revoked;
`RevokeAll` takes all credentials of some owners at once; none comes back.

`TokenVersion` is the code. `tv` is `users.tokenVersion`, `bars` collects whatever
keeps an account from signing in (`isActive`, `isDeleted`, a role that is missing or
inactive, `lockUntil`, no row), `tokens` is what clients hold, and a member of `req`
is a request between two of its awaits: after `LoginRead` it compares the password
(`WrongPassword`, `RightPassword`), may hand out a temporary token and wait for a
code (`VerifyCode`, `WrongCode`), and signs (`Issue`) with the `tokenVersion` it read
first. `Logout`, `ForceLogoutSession` and `DeleteRole` increment in SQL;
`RevokeRead` and `RevokeSave` are the two halves of the password change, the reset, the
deactivation and the administrator's update. `gen` is a history variable: the
number of revocations an account has seen. It bounds the model (`MaxRevocations`)
and lets the properties speak of "before" and "after".

`Allow` names the workloads: with `{}` the revocations of one account do not overlap,
and an id that was in use is not registered again. Both restrictions are the code's
weak spots; the run `TokenVersionOverlap` lifts the first.

### UserSessions

One account, several devices with a cookie jar each, several refreshes in flight
(`refresh`), also of one device. `version` is its `tokenVersion` and `row` holds the session row of each login, `job` the steps of its
`createSession` (`Upsert`, `ReadLimit`, `Evict`), which login does not wait for. A
refresh is `RefreshBegin`, `Validate`, `Rotate`, `Reply`; the last may be lost
(`ReplyLost`), each database step may fail (`RotateFails`, `SessionFails` and the
error branches, `MaxFaults` of them). A token is what is signed into it, `tokenVersion`
and second; with `SameSecond = FALSE` no two are signed in one second. The history
variables `home`, `single` and `spent` say which login a cookie descends from,
whether a device behaved, and which tokens were exchanged.

### Authenticate

One account and one of its sessions. A request of the token's holder is judged in
steps: `Hit` or `Miss`, `ReadUser` and `FillUser`, `ReadStatus` and `FillStatus`,
`Reply`. Writers change the row in one step and drop the entry in another
(`ForgetEntry`), or in none where the code forgets to. `Logout`, `RaiseAfterEnd` and the
deletion of a role (`ChangeRole`) increment `tokenVersion` in SQL. `AdminReset`,
`ChangePassword` (with the reset by link) and `UpdateUser` (with the deactivation) only
read (`Read`); between that and `SaveUser` there is a hash or another query, and the save
writes the version that was read plus one, whatever the row has by then, and of the other
columns those the handler has changed. `DeleteUser`, `DestroyUser`, `RestoreUser`,
`EndSession`, `ApproveUser` leave the version alone. Time is in ticks; `Latency`
bounds how long the answer to a query may wait for its callback, and a verdict is
given in the tick it is reached. `turned` and `endedAt` record when the database
changed its mind, `crossed` when a save last wrote a version worked out from a read that
was outdated by then, `top` the highest version there was.

Two saves that cross, or a logout between the read and the save of one, write one version
twice: a token that was signed for it in between stays current, and a cache entry with
`mustChangePassword` off matches it. So `GateHolds` says that a current token passes the
gate no later than `TTL + 2 * Latency` after such a save, and never without one.

### WikiTree

Each operation is a transaction that locks one row and reads others without a lock.
`iso` chooses SQLite's IMMEDIATE transactions, one after the other, or READ COMMITTED.
`CreateBegin`, `Insert`; `UpdateBegin`, `CheckParent`, `Walk` (one ancestor per
step), `Save`; `DeleteBegin`, `CountChildren`, `Destroy`: one action per statement
that reads the tree, and one for what a commit makes visible. `Walk` gives up after
`MaxWalk` ancestors (100 in the code) and lets the move pass: pages are not bounded, so a page
moved under a deep one may come to lie below itself. `moved` and `cut` are history
variables: the pages that `updatePage` has ever put under another one, and whether one of them
was, where transactions are serial, after a walk that was cut off (`CutOff`).

### ClientAuth

One tab. `call` holds the calls in flight, that of `/auth/me` (`Me`) among them: sent,
or waiting for the interceptor's refresh as its leader or in its queue. `ref` holds
the refreshes in flight by who waits for them: the interceptors (`"queue"`), the interval of
`AuthProvider` (`Timers`), `useAuthInit` (`"init"`). `Lead`, `Queue`, `Refreshed` and
`RefreshFailed` are the branches of the response interceptor, which `uploadApi` repeats;
`TimerFires`, `TimerRefreshed`, `TimerFailed` the interval's callback around its
await; `InitRefreshed`, `InitFailed`, `InitTimeout` the initial load; `LogoutSend` to
`LogoutAnswer` the button, with the server's answer in between. `jar` and `access` are
the cookies. Of the server there is what a tab can tell: a refresh token is a name as long as
an active row has it, and `Void` from then on, wherever it is held. `Serve` is the whole
exchange: that the server checks the token and rotates it in two steps
(`auth.service.ts:391-401`) is modelled in `UserSessions`, and no property of a tab depends
on it. Leaving a page drops
all that its scripts wait for and keeps cookies and `localStorage`. There are no dates: an
access token may expire at any time, and the timer may find it about to, because
`/auth/me` dates `tokenInfo` from its own answer (`auth.controller.ts:85`). A token that
nobody holds may be given out again, so `Tokens` need only be more than the jar and the
refreshes in flight can hold (`TokensAssumption`): `NewToken` always finds one.

### Accounts

One account's row besides its `tokenVersion`, and handlers that read it, work, and save
the columns they have changed in the object they read: `LoginRead`, then `Wrong`,
`Right`, `HalfWay` or `SignInFault`; a wrong guess goes on with `Reload` and `Lock`, since
`incrementFailedAttempts` is an increment, a reload and a save, of which the last two may fail
with the guess counted (`CountFault`). `FactorRead` and
`GenerateSave`, `EnableSave` or `DisableSave` are the handlers of the second factor.
`AskRead`, `AskCreate`, `ApproveRead`, `ApproveCommit`, `RejectRead`, `RejectSave`,
`RedeemRead`, `RedeemSave` are the requests for a reset and the use of its link. The
history variables count guesses, links and uses, and mark four races in which a handler
acts on what is no longer so: `crossed` (a set-up that crosses another handler of the
factor), `overruled` (a rejection that had read a request before its approval), `raced` (two
redemptions that have both found one link) and `doubled` (two `createRequest`s that have both
found nothing pending). `LinksAreApproved` is exact about them: one use of a link and one
pending request, but for the links and requests so marked. That the code says "one-time"
without the proviso is what the run `AccountsLinks` is about.

### Posts

`row` is the posts table, `disk` the uploads directory, and a member of `req` what a
request has in hand: `put`, the list it will save; `fresh`, the uploads that came with
it; `drop`, what it will unlink. `CreateBegin` and `UpdateBegin` read and compute,
`CreateCommit` and `UpdateCommit` are the transactions, `Refuse` an error answer that unlinks
the uploads, `ValidatorFails` the one that does not: an error in the validator itself
(`validator.ts:130-133`). `DeleteBegin` and `BoardBegin` with their commits are the
deletions, `Rollback` a transaction of theirs that fails. `PurgeBegin` lists
the expired rows, `PurgeBatch` is one transaction of at most `Batch` of them, and the last one
goes on to unlink the files of all; `PurgeFails` leaves the batches before it
committed and their files where they are. `Unlink` and `UnlinkFails` are what comes after a
commit, `Stop` the end of the process at any step. `stale` and `leaked` collect what an
outdated read, a stop, a failing unlink, validator or batch explain, so that the invariants
say: nothing else goes wrong.

Two limits bear on the number of files. `MaxUploads` is multer's, which `post.routes.ts:94`
binds when the routes are loaded (`.array('files', 5)` of the multer of that moment), and
which a later change of the settings does not reach; it is all that `createPost` is held to.
`MaxFileCount` is `settings.maxFileCount`, which only `updatePost` reads (`Cut`). So a
row may name as many files as the larger of the two, and that is what `TypeOK` says.

### Threads

One post, its comments, the likes of both, and the notifications that point at it. A
request that has read the post (`CommentBegin`, `LikeBegin`, `PostLikeBegin`,
`RemoveBegin`, `DeleteBegin`) acts in later steps: `CommentCount` and `CommentInsert` are two
statements of one transaction, `LikeToggle`, `PostLikeToggle` and `RemoveCommit` lock what
they change, `DeleteLikes` and `DeleteCommit` are `deletePost`, whose deleted rows are locked
until its commit. `Purge`, `BoardDelete` and `Reject` work through foreign keys.
`Notify` comes after the transaction. `escaped` counts who may still add when a
deletion commits, `lost` the likes that went with a user: `LikeCountsMatch` says that
`likeCount` is out by these and by nothing else, and the run `ThreadsLikes` that it is out,
which two comments of `commentLike.service.ts` (`:11-12`, `:40`) rule out.

### Caches

One copy in memory, of one of three kinds that `Init` chooses: the IP rules, the
maintenance mode, the site settings. `Miss`, `Answer`, `Store` are a load, `Save`,
`AfterSave` a handler that commits and then drops the copy or reads it again, `Fails` a
query that fails, `Tick` the clock. The kinds differ in when the time stamp is taken
(`Stamp`) and in whether a save loads (`AfterSave`). A version stands for the contents.

### RateLimits

`row` is the table, `limiters` the manager's map, `job` what each administrator's request
and the timer have in flight. `Create`, `Update`, `Delete`, `ToggleRead` and
`ToggleWrite` change rows and go on with a refresh: `RefreshRead` is its query,
`RefreshStore` the loop and the assignment of the new map, `RefreshFails` its `catch`.
A middleware is a name; keeping its name is keeping its counters. `dirty` marks the rows
that were written and have not been taken over by a refresh that ran alone.

## Runs

| Run | Expected | Shows | Bounds |
|---|---|---|---|
| `Credentials` | pass | versions: a matching token, or a sign-in that would sign one, is younger than the account's last revocation; a refused token is refused for good; the refinement of `Revocation`. Session rows: limit, dead tokens, ended devices, steady devices | 1 account, 3 requests, 2 revocations, revocations one at a time; 2 devices, 2 refreshes, 2 logins, 1 session allowed, 1 fault, 4 s |
| `TokenVersionOverlap` | violation | two overlapping revocations count as one, and the second revokes nothing | 2 requests, 2 revocations |
| `Authenticate` | pass | both staleness bounds and the gate, saves that cross included | 2 requests, TTL 1, latency 1, 2 writers, version 1, 4 ticks |
| `ClientAuth` | pass | every call is settled; whoever waits, waits for one refresh under way; late answers and late cookies undo no logout | 1 call beside `/auth/me`, 1 refresh of each kind, 5 tokens |
| `WikiTree` | pass | a tree where transactions are serial; parents of unmoved pages and the revision log at either level | 3 pages, 2 transactions, 2 texts, walk cut off after 2 |
| `Accounts` | pass | guesses are bounded; a factor that is on works; one link answers a request, and is used once but for a race that is marked | 3 handlers, 2 attempts, 1 lock that runs out, 2 secrets, 3 requests for a reset, 1 failing statement |
| `AccountsLinks` | violation | two redemptions under way at once both use a link | the same |
| `Posts` | pass | a named file is there, a file that is there is named, but for what an outdated read or a failure explains; the files of a deleted post go | 2 boards, 2 files, purge batches of 1; 1 post, 2 requests, 1 failure or stop; or 2 posts, 1 request at a time, 2 failures or stops |
| `Threads` | pass | `likeCount` is right but for the likes that went with a user; the comments are bounded; a deletion leaves what was in flight and nothing else | 2 users, 2 requests, 3 comments, limit 1, 2 levels, 1 notification |
| `ThreadsLikes` | violation | the rejection of a user leaves `likeCount` above the number of likes | the same |
| `Settings` | pass | copies: an outdated copy is applied for a bounded time, and only a load that crossed a save leaves one. Limits: untouched limits keep their counters; in the end the map is that of the enabled rows | 3 requests, 2 saves, validity 3, query 2, 7 ticks; 2 limits, 2 administrators and the timer, 2 changes, 1 failing refresh |
| `RateLimitsSkip` | violation | a change of nothing but the skip flags never reaches the middleware | 1 limit, 1 change |

`Credentials` (`MCCredentials`) and `Settings` (`MCSettings`) each run two modules that
share no variable and no property: a step of their `MCNext` moves one while the other is at rest in
an initial state, so the run holds the behaviours of the one and those of the other and no
products of the two. Likewise TLC goes on in `Accounts` only from states in which
one of its two independent parts has moved (`OnePart` of `MCAccounts`), and in `Posts` from
states with one post, or with two that meet in a purge or in the end of their board
while requests come one at a time and no post is edited (`OneOrTwo` of `MCPosts`). The proofs
are about the modules as they are, without these restrictions.

Why the bounds are enough. Accounts do not interact except through `DeleteRole` and
`SetRoleActive`, which treat each member alike, so one account shows what is wrong with
many; three requests are a sign-in, a refresh and a revocation at once. Two devices
and a limit of one make every second login evict. In `Authenticate` a stale verdict
takes one reader to fill and one to hit, or one reader and one writer, and four ticks are
past `TTL + 2 * Latency` so that an unbounded staleness would show; two writers with versions 0
and 1 are enough for a version that is written twice, while a version that goes down, which
takes a third, is covered by the proof only. Three pages are the
smallest tree in which a walk has an ancestor that is neither the page nor its new
parent, and with `MaxWalk = 2` the smallest in which a walk is cut off and a circle
results. In `ClientAuth` one call and `/auth/me` take turns as leader and in the queue (the
15 s limit lets the page send calls while `/auth/me` waits), all three refreshers can be
under way at once, and with four holders of a token five names leave one for the next. A
timer's refresh that outlives a logout keeps the next one of the timer waiting, which
the code does not do: the slots are `Timers`.

In `Accounts` a lost or doubled count takes two handlers, and the third is the one that
guesses meanwhile; three requests for a reset are as many as can be asked for at once, each
of them before any is stored. In `Posts` a file is left behind by one update that overtakes
another, or by one fault; two boards are what a move and a board's deletion need, two posts
what a purge needs to fail between two batches. With one upload at most and lists of one file
at most, a list that is not cut would show. In `Threads` a limit of 1 with two requests lets
the limit be exceeded; of the replies the bound on comments lets one level happen, and the
refusal of a deeper one is covered by `TypeOK` of the proof, for every depth. Among the copies
a load that begins before a save, a drop and a later load are three requests, and 7 ticks are
past `TTL + QueryTime`. Among the limits two overlapping refreshes and a third that follows a
change are all there are.
The proofs remove the bounds of the safety properties of all ten modules; the liveness of
`Posts`, `ClientAuth` and `RateLimits` keeps them.

The runs of the server's modules allow deadlock, except `RateLimitsSkip`, where the timer
never stops: all counters are bounded (`MaxRevocations`, `MaxLogins`,
`MaxSec`, `MaxTv`, `MaxFaults`, `MaxWrites`, `MaxNow`, `MaxLocks`, `MaxSecrets`, `MaxAsks`,
`MaxComments`, `MaxNotes`, `MaxVer`, `MaxTime`, finite sets of pages, posts and files), and
at the bounds a model may stop where the program goes on.

Symmetry is over request slots, refreshes, devices, users, pages and texts, which no definition tells
apart; `ClientAuth`, `Posts` and `Settings`, where liveness is checked, use none.

Fairness. Most specifications of the server state none: it gives none of its requests a
promise that it ends, and their properties are safety properties. `Posts` assumes that a
request whose transaction has begun ends, with a commit or an error answer, that an unlink
ends one way or the other, that a purge goes on to its next batch, and that it runs again and
again for a post whose time has come (`index.ts` starts it daily); users owe nothing, and the process may stop.
`RateLimits` assumes that a query in flight is answered and that `setInterval` goes
on (`dynamicRateLimit.ts:62-92`); it asks for nothing of the administrators but that a toggle they
have begun ends. That a refresh may fail at most `MaxFaults` times is what "in the end" means there. `ClientAuth` assumes
weak fairness of three things. A call in flight is answered or fails: axios gives up
after 30 s (`axios.ts:55`), an upload when its connection does. The interceptor's refresh
is answered or fails: it is a plain `fetch`, which ends with its connection. The
browser runs the callback of a refresh that has ended. The user, the timers, the other
refreshes, logins and logouts owe nothing.

## Proofs

Proved with TLAPS, for every value of the constants that satisfies the named
assumptions of the modules:

- `CredentialProofs`, the server (`TokenVersion`): `TypeOK`; `LiveTokensPostdateRevocations`,
  `PendingSignInsPostdateRevocations`, `RevokedForGood` and the refinement of
  `Revocation`, assuming `Allow = {}`. Neither property is inductive: the step that
  breaks them is a save of a value that was read earlier. `IInv` therefore says that
  every credential *follows* its account (its version is not ahead, and if level, then
  with all revocations seen), that a pending save was computed from the current version,
  and that an account has at most one of them. The last two are what
  the workloads without overlap give, and what the run `TokenVersionOverlap` shows to be
  necessary.
- `CredentialProofs`, the client (`ClientAuth`): `TabTypeOK`, `QueueHasALeader`,
  `LogoutSticks` and the action property `TimerBringsNothingBack`, for any number of calls
  and timers. Types need that a new token exists: the jar and the refreshes in flight hold
  fewer than there are (`NewTokens`, from `TokensAssumption` by counting). `QueueHasALeader`
  is inductive only together with `LeftBehind`: a page that was left has no flag up and
  waits for nothing, so that the next one begins without a leader. `LogoutSticks` needs
  `NoTokenLeft`: after a served logout not only the cookie but every refresh under way is
  worth nothing. That a timer brings nothing back rests on the type of its flag, which
  is up only while somebody is logged in.
- `AuthenticateProofs`: `TypeOK`, `BoundedStaleness`, `SessionStaleness`,
  `GateHolds`, for every TTL and latency. The invariant says of every copy of the
  account (cache entry, query answer, verdict) that it is the truth, or that the truth changed
  no longer ago than the age the copy can have; the bounds are the sums of these ages. For the
  gate it says the same of a copy of the current version with the flag off: that a save that
  crossed another writer is no older than the copy can be.
- `WikiTreeProofs`: `TypeOK`, `UnmovedPagesHaveParents` and `RevisionsMatch` at either
  isolation level, from `Locked`: locks are apart, a locked page exists and is as it was
  read, and a page about to be destroyed has no unmoved child. `SerialTree` needs no bound on
  the number of pages: its invariant (`Serial`) says that a walk that is not cut off has
  collected a set of pages closed upwards that does not contain the page being moved, so that a set of
  pages in a circle after the move would contain a smaller one before it; after a move whose
  walk was cut off it promises the parents only.
- `AccountsProofs`: `TypeOK`, `GuessesAreBounded`, `FactorWorks`, `LinksAreApproved`, for
  any number of handlers and attempts. The bound on guesses is not inductive: `LoginInv` says
  that every guess beyond the last admissible one has a handler between its increment and
  its lock, and that nobody begins to guess under a lock. `AskInv` says that a request is held
  by one `approve` at most and that its link was issued by that one; `LinkInv` that a link that
  no two handlers were at, at once, is used once and then gone from the row; `WaitInv` that
  whoever creates a request, if no other is about to, has found none pending.
- `ThreadsProofs`: `TypeOK`, `LikeCountsMatch`, `ThreadIsBounded`, for any number of users and
  requests and any settings. `Bounded` counts, beside the comments there are, the inserts that have
  already been counted as admissible (while the post is live) or were in flight when it
  went (afterwards). `LostInv` says that a like that went with its user cannot come back,
  because that user can no longer like.
- `SettingsProofs`, the copies (`Caches`): `TypeOK`, `OldRulesExpire`, `SavesTakeEffect`, for
  every validity, query time and number of requests. The invariant says of every version that is in a copy or in
  flight that it was not replaced before its query was sent, and who is on the way to drop
  an outdated copy.
- `SettingsProofs`, the limits (`RateLimits`): `LimitsTypeOK` and the action property
  `CountersSurvive`, for any finite set of limits, any administrators and any failures. That
  no two limits share a middleware needs that a refresh finds enough unused ones
  (`BuildIsFresh`: twice as many names as limits, of which the map holds half at
  most). `NewsIsGood` says that no refresh under way has read old news of a limit that is not
  `dirty`, `MapIsGood` that the map says of it what its row does: then every refresh finds it
  reusable. `SettledLimitsApply` is the safety part of `EveryLimitApplied`: as long as no read
  has failed, the limits in force are, but for the dirty ones, those of the enabled rows. It
  needs that proviso: a first read that fails leaves the map empty (`RefreshFails`) until
  the timer's next refresh.
- `UserSessionsProofs`: `TypeOK` and `SessionLimit` for any number of devices, logins and
  refreshes; `ExchangedTokensAreDead`, `EndedDevicesCannotRefresh` and
  `SteadyDevicesKeepTheirSession` assuming `SameSecond = FALSE`, without which two logins may
  share a token. The limit is not inductive: `Limited` says that somebody who has
  upserted has yet to count the rows, or that what was found too many is about to go. The other three rest
  on where tokens are: one that has been signed and not yet written is in no row and in no other
  hand (`NewInv`, `JobInv`), a token leads to the login it descends from (`Belongs`), and
  a device that behaved holds what its row or its one refresh under way does (`Steady`).
- `PostsProofs`: `TypeOK`, `AttachmentsExist`, `NothingForgotten`, for any posts, boards, files
  and requests, failures and stops. `Sound` says of a file that no outdated read has
  touched: one row names it at most (`Alone`), an upload is nobody else's (`Fresh`),
  nobody is about to unlink what a live post names (`There`), and who means to drop a file has
  read it in the row that names it (`Read`), which is what makes the commits safe. `Kept` says
  that a file on disk is named, about to be named, or about to be unlinked; through the batches of
  a purge it is the list of the whole purge that keeps the files of rows that are gone.

Only model-checked: the liveness properties `EveryCallSettles` (`ClientAuth`),
`EveryLimitApplied` (`RateLimits`) and `EveryDeletedFileGoes` (`Posts`), and the runs that
expect a violation. Out of reach of the prover are liveness under fairness, `ENABLED`, and what a
recursive definition computes for every input; no module needs a recursive operator.
`ClientAuth`, `RateLimits` and `UserSessions` name their definitions apart from those of the modules
they share a proof module or a run with (`TabInit`, `TabNext`, `LimitsInit`, `LimitsNext`, ...).

## What the models found

Four runs expect a violation, and the entries under `findings` of `PROJECT.json` quote the
comment and the line of the code.

- `TokenVersionOverlap`: two overlapping revocations that save a version computed from an
  old read count as one (every revocation should be an SQL increment).
- `RateLimitsSkip`: `settingsChanged` forgets two of the fields that the middleware captures.
- `AccountsLinks`: a reset link is called one-time, and two redemptions that both look it up
  before one has saved both set the password.
- `ThreadsLikes`: `likeCount` is said to equal the number of likes always, and the rejection of
  a user deletes that user's likes through a foreign key without lowering it.

Other behaviours met while modelling are in the models, and the properties are stated
around them. Where a comment promises otherwise, it is named:

- an id that is rejected and registered again starts at `tokenVersion` 0 and accepts old
  tokens (`RejectUser`, `Register` of `TokenVersion`, allowed by `Allow`);
- a session that is ended in the middle of its refresh leaves an access token that nothing
  refuses, and two logins of one account in one second get the same token and share a row (`UserSessions`);
- a query in flight across a logout restores the entry the logout dropped (`Authenticate`);
- under READ COMMITTED two concurrent moves close a circle of pages, and a deletion beside a
  move leaves a page without its parent (`WikiTree`, hence `SerialTree` for one transaction at a time);
- a logout with an expired access token is refused and leaves the refresh cookie good (`ClientAuth`);
- two requests for a reset may both be created, although the comments above the check
  (`passwordResetRequest.service.ts:19-21`, `:32`) say that it prevents duplicates (`doubled` marks
  the only way); a rejection may end an approved request whose link works;
  generating a secret while another handler enables the factor leaves it on with a secret
  nobody has proven (`Accounts`);
- an update of a post computes its files from a row read without a lock, and may unlink what
  another update has just named; `deleteBoard` does the same to a post that is moved meanwhile; a purge
  that fails after its first batch, and an error in the content validator, leave files that no row
  names; and a change of `maxFileCount` does not reach the uploads of posts, although the comment on
  the proxy (`upload/file.ts:108-114`) says that routes may go on using
  `uploadFiles.array('files', 5)` (`Posts`);
- comments may exceed their limit by the number of overlapping creations, comments and
  notifications of requests in flight survive the deletion of their post (`Threads`);
- two saves may read the settings again in one order and store them in the other, and nothing
  reads them again after; a load that crosses a save keeps the old rules for one more
  validity (`Caches`).

## Not modelled

- In the modelled parts: expiry of session rows, tokens and links by date, except the
  temporary token's; `expireSession`, which nothing can reach because logout is behind
  `authenticate`; profile data, names and e-mail addresses; the TOTP window (a code is right
  or wrong); `isPublished`, `order`, slugs and reading permissions of the wiki; the
  contents of posts and comments, secret posts, pins, and the filters of the reading queries.
- Of the client: two-factor login (a login is one step), other tabs (`UserSessions` has
  them), dates, the toast about an expired session, a logout whose `tokenVersion` and
  session rows both fail to be written.
- Tags, bookmarks, reads, reports, memos and events: every handler is a single statement on
  a row that no other handler reads between two of its steps. A model of one would
  restate the statement.
- Board access rows: changed in transactions that lock the board and the roles first, and read
  by a check in one query.
- The counting of requests (`express-rate-limit`), the HTTP response cache, the session of
  the database: third-party code, used through calls that are one step here.
- Uploads, logs, rendering, encryption of secrets, CSRF header: I/O, append-only tables and
  pure functions without a protocol.
- The pages and components of the client, more than half of the repository's lines: they
  render what they fetch. This is why the share of the lines that the models stand for stays
  small: what is modelled is the code in which the order of steps matters.
