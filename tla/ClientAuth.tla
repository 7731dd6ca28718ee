----------------------------- MODULE ClientAuth -----------------------------
(***************************************************************************)
(* One tab of the client: its calls, and the three places that refresh its *)
(* tokens without knowing of each other.                                   *)
(*                                                                         *)
(* A call that is answered 419 (access token expired) makes the response   *)
(* interceptor refresh; calls answered 419 meanwhile queue up and are sent *)
(* again, once, when the refresh is over.  AuthProvider's timer refreshes  *)
(* ahead of time.  useAuthInit asks /auth/me when a page is loaded,        *)
(* refreshes if it is answered 401, and gives up after 15 seconds without  *)
(* stopping either.  All of them share the cookies and the store.          *)
(*                                                                         *)
(* Of the server (UserSessions, TokenVersion): a refresh exchanges a token *)
(* that an active session row has, and ending a session makes its tokens   *)
(* dead.  A refresh token is a member of Tokens while a row has it; from   *)
(* then on it is Void, wherever it is held, like a cookie that is not set. *)
(*                                                                         *)
(* Source: client/src/api/axios.ts and api/auth.ts, store/auth.ts,         *)
(* hooks/useAuthInit.ts, components/AuthProvider.tsx, UserDropdown.tsx.    *)
(***************************************************************************)
EXTENDS Naturals, FiniteSets

CONSTANTS Calls,   \* slots for calls of the page
          Me,      \* the call of /auth/me
          Timers,  \* slots for refreshes of the timer
          Tokens,  \* refresh tokens; one that nobody holds is given out again
          Void     \* no refresh token, or a dead one

ASSUME MeAssumption   == Me \notin Calls
ASSUME VoidAssumption == Void \notin Tokens
ASSUME TimersAssumption == IsFiniteSet(Timers) /\ "queue" \notin Timers /\ "init" \notin Timers
\* The jar and the refreshes in flight do not hold all of them.
ASSUME TokensAssumption ==
    \A T \in SUBSET Tokens :
        IsFiniteSet(T) /\ Cardinality(T) <= Cardinality(Timers) + 3 => T # Tokens

VARIABLES
    page,        \* "open", or "left": closed, reloading or sent elsewhere
    loading,     \* store.isLoading: nothing is rendered yet
    user,        \* store.user # null
    saved,       \* tokenInfo, in localStorage and, while user, in the store
    timing,      \* AuthProvider's isRefreshing
    refreshing,  \* axios.ts' isRefreshing
    call,        \* calls in flight
    ref,         \* refreshes in flight, by who waits for them
    jar,         \* the refresh_token cookie
    access,      \* the access_token cookie
    leaving,     \* handleLogout: the access token it sent, then how it ended
    quit         \* history: what became of the logout since the last login

store   == <<user, saved, timing>>
cookies == <<jar, access>>
tab     == <<page, loading, refreshing, call>>
exit    == <<leaving, quit>>
tabVars == <<page, loading, user, saved, timing, refreshing, call, ref, jar, access,
             leaving, quit>>

All   == Calls \cup {Me}
Who   == {"queue", "init"} \cup Timers
\* A dead token has not expired, but its session has ended.
Ages  == {"good", "dead", "expired", "none"}
Nothing  == [step |-> "idle"]
\* access: the cookie a call was sent with.  A leader waits for its refresh.
Call  == [step : {"sent", "leader", "queued"}, access : Ages, retry : BOOLEAN]
Fetch == [step : {"sent", "ok", "failed"}, token : Tokens \cup {Void}]

\* The timer's flag is up only while somebody is logged in.
TabTypeOK ==
    /\ page \in {"open", "left"}
    /\ loading \in BOOLEAN /\ user \in BOOLEAN /\ saved \in BOOLEAN
    /\ timing \in {FALSE, user /\ saved}
    /\ refreshing \in BOOLEAN
    /\ call \in [All -> Call \cup {Nothing}]
    /\ ref \in [Who -> Fetch \cup {Nothing}]
    /\ jar \in Tokens \cup {Void}
    /\ access \in Ages
    /\ leaving \in Ages \cup {"no", "done", "failed"}
    /\ quit \in {"no", "served", "refused"}

----------------------------------------------------------------------------
At(c, s) == call[c].step = s
Waiting  == {c \in All : call[c].step \in {"leader", "queued"}}
Open     == page = "open"

\* setUser, updateTokenInfo, clearUser.  A change makes React run the cleanup
\* of AuthProvider's effect, which resets its flag, before any other callback.
SetUser    == user' = TRUE /\ saved' = TRUE /\ timing' = FALSE
UpdateInfo == saved' = TRUE /\ timing' = FALSE /\ UNCHANGED user

\* Mutant of ClearUser: the cleanup leaves the flag alone.
ClearUserOnly == user' = FALSE /\ saved' = FALSE /\ UNCHANGED timing

ClearUser  == user' = FALSE /\ saved' = FALSE /\ timing' = FALSE

\* setAuthCookies, as the browser carries it out.
TakeCookies(t) == jar' = t /\ access' = IF t = Void THEN "dead" ELSE "good"

\* refreshToken() of api/auth.ts: a plain fetch, outside the interceptors.
Ask(w)     == ref' = [ref EXCEPT ![w] = [step |-> "sent", token |-> jar]]
Settled(c) == [call EXCEPT ![c] = Nothing]

\* The page ends, and with it all that its scripts wait for; localStorage stays.
Leave ==
    /\ page' = "left"
    /\ loading' = TRUE
    /\ user' = FALSE /\ timing' = FALSE /\ refreshing' = FALSE
    /\ call' = [c \in All |-> Nothing]
    /\ ref' = [w \in Who |-> Nothing]
    /\ leaving' = "no"
    /\ UNCHANGED <<cookies, quit>>

\* What useAuthInit does when its call is rejected, and other callers do not.
Rejected(C) == IF Me \in C THEN ClearUser /\ loading' = FALSE
               ELSE UNCHANGED <<store, loading>>

----------------------------------------------------------------------------
(* Calls and the interceptors.                                              *)

Asked(a)     == [step |-> "sent", access |-> a, retry |-> FALSE]
Retried(a)   == [step |-> "sent", access |-> a, retry |-> TRUE]
WaitingAs(s) == [step |-> s, access |-> "none", retry |-> TRUE]

Send(c) ==
    /\ Open /\ ~loading
    /\ call[c] = Nothing
    /\ call' = [call EXCEPT ![c] = Asked(access)]
    /\ UNCHANGED <<page, loading, refreshing, store, ref, cookies, exit>>

\* The server's caches let a dead token pass for a while.
Passes(a) == a \in {"good", "dead"}

Succeed(c) ==
    /\ At(c, "sent") /\ Passes(call[c].access)
    /\ call' = Settled(c)
    /\ IF c = Me THEN SetUser /\ loading' = FALSE ELSE UNCHANGED <<store, loading>>
    /\ UNCHANGED <<page, refreshing, ref, cookies, exit>>

\* Mutant of Expired: _retry is not looked at.
ExpiredAgain(c) == At(c, "sent") /\ call[c].access # "none"

\* 419, the first time: the token had expired, or expired on its way.
Expired(c) == At(c, "sent") /\ call[c].access # "none" /\ ~call[c].retry

Lead(c) ==
    /\ Expired(c)
    /\ ~refreshing
    /\ refreshing' = TRUE
    /\ Ask("queue")
    /\ call' = [call EXCEPT ![c] = WaitingAs("leader")]
    /\ UNCHANGED <<page, loading, store, cookies, exit>>

Queue(c) ==
    /\ Expired(c)
    /\ refreshing
    /\ call' = [call EXCEPT ![c] = WaitingAs("queued")]
    /\ UNCHANGED <<page, loading, refreshing, store, ref, cookies, exit>>

\* 419 again, or any other error, a timeout among them.
Fail(c) ==
    /\ At(c, "sent")
    /\ call' = Settled(c)
    /\ Rejected({c})
    /\ UNCHANGED <<page, refreshing, ref, cookies, exit>>

\* 401: no cookie, or a session that has ended.  /auth/me is not redirected.
Unauthorized(c) ==
    /\ At(c, "sent") /\ call[c].access \in {"none", "dead"}
    /\ \/ c = Me
          /\ call' = Settled(c)
          /\ Ask("init")
          /\ UNCHANGED <<page, loading, refreshing, store, cookies, exit>>
       \/ c # Me /\ Leave /\ UNCHANGED saved

\* 403: the account or its role has been switched off.
Forbidden(c) ==
    /\ At(c, "sent") /\ Passes(call[c].access)
    /\ Leave
    /\ saved' = (saved /\ c # Me)

----------------------------------------------------------------------------
(* Refreshing.                                                              *)

InFlight == {w \in Who : ref[w] # Nothing}
NewToken == CHOOSE t \in Tokens : t # jar /\ \A w \in InFlight : t # ref[w].token

\* The holders of the tokens in T, once no row has them.
Unless(T, t) == IF t \in T THEN Void ELSE t
Voided(T)    == [w \in Who |-> IF w \in InFlight
                               THEN [ref[w] EXCEPT !.token = Unless(T, @)] ELSE Nothing]

\* The server exchanges the token, if a row has it.  There the check and the
\* rotation are two steps; a tab sees one, and what may come between them is in
\* UserSessions.
Serve(w) ==
    /\ ref[w].step = "sent"
    /\ LET t == ref[w].token IN
         IF t # Void
         THEN /\ jar' = Unless({t}, jar)
              /\ ref' = [Voided({t}) EXCEPT ![w] = [step |-> "ok", token |-> NewToken]]
         ELSE ref' = [ref EXCEPT ![w].step = "failed"] /\ UNCHANGED jar
    /\ UNCHANGED <<tab, store, access, exit>>

\* The refresh is lost before or after that.
Lose(w) ==
    /\ ref[w].step \in {"sent", "ok"}
    /\ ref' = [ref EXCEPT ![w] = [step |-> "failed", token |-> Void]]
    /\ UNCHANGED <<tab, store, cookies, exit>>

Arrives(w, how) == ref[w].step = how /\ ref' = [ref EXCEPT ![w] = Nothing]

\* The interceptor's refresh: everyone who waits is sent again ...
Refreshed ==
    /\ Arrives("queue", "ok")
    /\ TakeCookies(ref["queue"].token)
    /\ UpdateInfo
    /\ call' = [c \in All |-> IF c \in Waiting THEN Retried(access') ELSE call[c]]
    /\ refreshing' = FALSE
    /\ UNCHANGED <<page, loading, exit>>

\* Mutant of RefreshFailed: only the call that asked for it is rejected.
RefreshFailedLeader ==
    \/ /\ Arrives("queue", "failed")
       /\ At(Me, "leader")
       /\ call' = Settled(Me)
       /\ Rejected({Me})
       /\ refreshing' = FALSE
       /\ UNCHANGED <<page, cookies, exit>>
    \/ /\ ref["queue"].step = "failed"
       /\ ~At(Me, "leader")
       /\ Leave
       /\ UNCHANGED saved

\* ... or rejected, and the page is left unless /auth/me has led.
RefreshFailed ==
    \/ /\ Arrives("queue", "failed")
       /\ At(Me, "leader")
       /\ call' = [c \in All |-> IF c \in Waiting THEN Nothing ELSE call[c]]
       /\ Rejected(Waiting)
       /\ refreshing' = FALSE
       /\ UNCHANGED <<page, cookies, exit>>
    \/ /\ ref["queue"].step = "failed"
       /\ ~At(Me, "leader")
       /\ Leave
       /\ saved' = (saved /\ Me \notin Waiting)

\* AuthProvider's interval: tokenInfo says that the access token expires within
\* 30 minutes.  /auth/me has dated tokenInfo from its own answer, so it may say
\* so at any time; an earlier refresh may still be under way after a new login.
TimerFires(w) ==
    /\ user /\ saved /\ ~timing
    /\ ref[w] = Nothing
    /\ timing' = TRUE
    /\ Ask(w)
    /\ UNCHANGED <<tab, user, saved, cookies, exit>>

\* tokenInfo says that the refresh token has expired.
TimerExpires ==
    /\ user /\ saved /\ ~timing
    /\ Leave
    /\ saved' = FALSE

\* Mutant of TimerRefreshed: the flag is not looked at.
TimerRefreshedAnyway(w) ==
    /\ Arrives(w, "ok")
    /\ TakeCookies(ref[w].token)
    /\ UpdateInfo
    /\ UNCHANGED <<tab, exit>>

\* The browser takes the cookies; the store is updated unless it has changed.
TimerRefreshed(w) ==
    /\ Arrives(w, "ok")
    /\ TakeCookies(ref[w].token)
    /\ IF timing THEN UpdateInfo ELSE UNCHANGED store
    /\ UNCHANGED <<tab, exit>>

\* The page is left if tokenInfo is gone or says that the access token has expired.
TimerFailed(w) ==
    \/ /\ Arrives(w, "failed")
       /\ saved /\ timing' = FALSE
       /\ UNCHANGED <<tab, user, saved, cookies, exit>>
    \/ /\ ref[w].step = "failed"
       /\ Leave
       /\ saved' = FALSE

InitRefreshed ==
    /\ Arrives("init", "ok")
    /\ TakeCookies(ref["init"].token)
    /\ SetUser
    /\ loading' = FALSE
    /\ UNCHANGED <<page, refreshing, call, exit>>

InitFailed ==
    /\ Arrives("init", "failed")
    /\ ClearUser
    /\ loading' = FALSE
    /\ UNCHANGED <<page, refreshing, call, cookies, exit>>

\* 15 seconds: what useAuthInit waits for may still come.
InitTimeout ==
    /\ Open /\ loading
    /\ ClearUser
    /\ loading' = FALSE
    /\ UNCHANGED <<page, refreshing, call, ref, cookies, exit>>

----------------------------------------------------------------------------
(* Logging in and out, loading a page, and what happens elsewhere.          *)

\* A password login.
Login ==
    /\ Open /\ ~loading /\ ~user
    /\ jar' = NewToken
    /\ access' = "good"
    /\ SetUser
    /\ quit' = "no"
    /\ UNCHANGED <<tab, ref, leaving>>

\* The rows of the tokens in T end, and the access tokens are dead.
Dead(a) == IF a = "good" THEN "dead" ELSE a
Kill(T) ==
    /\ jar' = Unless(T, jar)
    /\ access' = Dead(access)
    /\ ref' = Voided(T)
    /\ call' = [c \in All |-> IF At(c, "sent") THEN [call[c] EXCEPT !.access = Dead(@)]
                              ELSE call[c]]
    /\ UNCHANGED <<page, loading, refreshing, store>>

\* handleLogout: a plain fetch.
LogoutSend ==
    /\ user
    /\ leaving = "no"
    /\ leaving' = access
    /\ UNCHANGED <<tab, store, ref, cookies, quit>>

\* Mutant of LogoutServe: only the row of the cookie is ended.
LogoutServeOne ==
    /\ Passes(leaving)
    /\ Kill({jar})
    /\ leaving' = "done" /\ quit' = "served"

\* The server ends every session ...
LogoutServe ==
    /\ Passes(leaving)
    /\ Kill(Tokens)
    /\ leaving' = "done" /\ quit' = "served"

\* ... or authenticate, which the route has in front of it, refuses: 401, 419.
LogoutRefused ==
    /\ leaving \in {"dead", "expired", "none"}
    /\ leaving' = "failed" /\ quit' = "refused"
    /\ UNCHANGED <<tab, store, ref, cookies>>

LogoutLost ==
    /\ leaving \in Ages \cup {"done"}
    /\ leaving' = "failed"
    /\ UNCHANGED <<tab, store, ref, cookies, quit>>

\* The user is logged out here whatever the answer.
LogoutAnswer ==
    /\ leaving \in {"done", "failed"}
    /\ IF leaving = "done" THEN jar' = Void /\ access' = "none" ELSE UNCHANGED cookies
    /\ ClearUser
    /\ leaving' = "no"
    /\ UNCHANGED <<tab, ref, quit>>

\* Another device, or an administrator, ends the sessions.
EndSession ==
    /\ Kill(Tokens)
    /\ leaving' = Dead(leaving)
    /\ UNCHANGED quit

\* The token expires; the browser, which has been told the same lifetime, drops
\* the cookie less than a second later.
Age ==
    /\ \/ access \in {"good", "dead"} /\ access' = "expired"
       \/ access = "expired" /\ access' = "none"
    /\ UNCHANGED <<tab, store, ref, jar, exit>>

\* The user closes or reloads the page.
Close == Open /\ Leave /\ UNCHANGED saved

\* useAuthInit asks who is logged in.
LoadWith(a) == [c \in All |-> IF c = Me THEN Asked(a) ELSE Nothing]

Load ==
    /\ page = "left" /\ page' = "open"
    /\ call' = LoadWith(access)
    /\ UNCHANGED <<loading, refreshing, store, ref, cookies, exit>>

----------------------------------------------------------------------------
\* A page is loaded, with or without the cookies of an active session.
TabInit ==
    /\ page = "open"
    /\ loading = TRUE
    /\ user = FALSE /\ timing = FALSE /\ refreshing = FALSE
    /\ saved \in BOOLEAN
    /\ access \in Ages
    /\ jar = IF access = "dead" THEN Void ELSE CHOOSE t \in Tokens : TRUE
    /\ call = LoadWith(access)
    /\ ref = [w \in Who |-> Nothing]
    /\ leaving = "no" /\ quit = "no"

Answer(c) == Succeed(c) \/ Lead(c) \/ Queue(c) \/ Fail(c) \/ Unauthorized(c) \/ Forbidden(c)

TabNext ==
    \/ \E c \in Calls : Send(c)
    \/ \E c \in All : Answer(c)
    \/ \E w \in Who : Serve(w) \/ Lose(w)
    \/ \E w \in Timers : TimerFires(w) \/ TimerRefreshed(w) \/ TimerFailed(w)
    \/ Refreshed \/ RefreshFailed
    \/ InitRefreshed \/ InitFailed \/ InitTimeout
    \/ TimerExpires
    \/ Login \/ LogoutSend \/ LogoutServe \/ LogoutRefused \/ LogoutLost \/ LogoutAnswer
    \/ EndSession \/ Age \/ Close \/ Load

\* A call ends, by axios' timeout if by nothing else; a refresh is answered or
\* fails in the browser; the browser runs the interceptor's callback.
Fairness ==
    /\ \A c \in All : WF_tabVars(Answer(c))
    /\ WF_tabVars(Serve("queue"))
    /\ WF_tabVars(Refreshed \/ RefreshFailed)

TabSpec == TabInit /\ [][TabNext]_tabVars /\ Fairness

----------------------------------------------------------------------------
(* Properties.                                                              *)

\* "갱신 중복 요청 방지", "무한 대기 방지" (axios.ts): whoever waits for a refresh of
\* the interceptors waits for one that is under way, on behalf of exactly one
\* call: nobody is forgotten in the queue, and no second refresh is begun.
QueueHasALeader ==
    /\ refreshing <=> ref["queue"] # Nothing
    /\ refreshing <=> \E c \in All : At(c, "leader")
    /\ \A c \in All : At(c, "queued") => refreshing
    /\ \A b, c \in All : At(b, "leader") /\ At(c, "leader") => b = c

\* Every call is settled, or its page is left: neither a refresh that fails nor a
\* server that goes on answering 419 keeps a caller waiting.
EveryCallSettles ==
    \A c \in All : call[c] # Nothing ~> call[c] = Nothing

\* After a logout that the server has carried out, the cookies that a refresh
\* under way may still bring are worth nothing: loading a page logs nobody in.
LogoutSticks == quit = "served" => jar = Void

\* "갱신 중 로그아웃(clearUser)이 발생했으면 ... 재주입 방지" (AuthProvider): while nobody
\* is logged in, the answer to a timer's refresh does not bring tokenInfo back.
TimerBringsNothingBack ==
    [][\A w \in Timers :
         ref[w] # Nothing /\ ref'[w] = Nothing /\ ~user /\ ~saved => ~saved']_tabVars
=============================================================================
