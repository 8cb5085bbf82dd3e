---------------------------- MODULE ClientSession ----------------------------
(***************************************************************************)
(* The session of the web client: the axios instance with its interceptors *)
(* (lib/axios.ts), the auth store, the public pages with their forms, and  *)
(* the ways a session ends (App.tsx, PrivateRoute, AppShell, Topbar).      *)
(*                                                                         *)
(* JavaScript runs one callback at a time, so an action is what happens    *)
(* between two awaits.  The store lives in memory: navigation within the   *)
(* application keeps it, a full page load (window.location.href = ...)     *)
(* starts again with nothing, and until that load happens the callbacks of *)
(* the page that is left go on.                                            *)
(***************************************************************************)
EXTENDS Integers

CONSTANTS
  Users,      \* accounts of the people at this browser
  Reqs,       \* requests of the pages that show data
  MaxTokens,  \* bound: access tokens issued
  NoUser      \* "nobody is signed in"

WithForm == {"login", "register", "invite", "forgot", "reset"}
Public == WithForm \cup {"plans"}
Pages == Public \cup {"app", "unauthorized"}
Forms == {"idle", "checking", "loading", "success", "error", "waiting", "closed"}

ASSUME ClientAssumption ==
  /\ MaxTokens \in Nat
  /\ NoUser \notin Users

VARIABLES
  user,          \* authStore.user
  token,         \* authStore.accessToken: a number, 0 for null
  issued,        \* access tokens are numbered in the order they are issued
  expired,       \* those the server no longer accepts
  req,           \* req[r]: a request of the application
  isRefreshing,  \* the module variable of lib/axios.ts
  page,          \* the route shown
  leaving,       \* where window.location.href points, "none" if not assigned
  form,          \* pageState of the page, when it has a form
  typed,         \* the account typed into the login form
  late           \* accounts whose login is answered after its form was left

sessionVars == <<user, token, issued, expired>>
pageVars == <<page, leaving, form, typed, late>>
clientVars == <<sessionVars, req, isRefreshing, pageVars>>

\* A request: "idle" if none is under way, "sent" to the server, "leading"
\* if it awaits the refresh it started, "queued" in failedQueue; the token of
\* its Authorization header, its _retry mark, how often it was sent.
Request == [state : {"idle", "sent", "leading", "queued"}, token : Nat,
            retry : BOOLEAN, sent : Nat]
NoRequest == [state |-> "idle", token |-> 0, retry |-> FALSE, sent |-> 0]

CliTypeOK ==
  /\ user \in Users \cup {NoUser}
  /\ issued \in Nat
  /\ token \in 0..issued
  /\ expired \subseteq 1..issued
  /\ req \in [Reqs -> Request]
  /\ isRefreshing \in BOOLEAN
  /\ page \in Pages
  /\ leaving \in Pages \cup {"none"}
  /\ form \in Forms
  /\ typed \in Users \cup {NoUser}
  /\ late \subseteq Users

Opened(p) == IF p = "invite" THEN "checking" ELSE "idle"

CliInit ==
  /\ user = NoUser
  /\ token = 0
  /\ issued = 0
  /\ expired = {}
  /\ req = [r \in Reqs |-> NoRequest]
  /\ isRefreshing = FALSE
  /\ page \in Public
  /\ leaving = "none"
  /\ form = Opened(page)
  /\ typed = NoUser
  /\ late = {}

-----------------------------------------------------------------------------
(* The pages.                                                              *)

\* The page p is mounted within the application; a login the page left
\* behind awaits is answered to nobody.
Goto(p) ==
  /\ page' = p
  /\ form' = Opened(p)
  /\ typed' = NoUser
  /\ late' = IF page = "login" /\ form = "loading" THEN late \cup {typed} ELSE late

\* PrivateRoute shows /login instead of a page of nobody.
SignedOut ==
  /\ user' = NoUser
  /\ token' = 0
  /\ IF page = "app" THEN Goto("login") ELSE UNCHANGED <<page, form, typed, late>>

\* A link between public pages; those of /unauthorized lead to the
\* dashboard, which PrivateRoute keeps from nobody.
Follow(p) ==
  /\ \/ page \in Public /\ p \in WithForm
     \/ page = "unauthorized" /\ p = IF user = NoUser THEN "login" ELSE "app"
  /\ Goto(p)
  /\ UNCHANGED <<sessionVars, req, isRefreshing, leaving>>

\* A full page load, to where window.location.href points or wherever the
\* user wants to: nothing in memory survives, and tokens that nobody holds
\* any more count as expired.
Load(p) ==
  /\ user' = NoUser
  /\ token' = 0
  /\ req' = [r \in Reqs |-> NoRequest]
  /\ isRefreshing' = FALSE
  /\ page' = p
  /\ leaving' = "none"
  /\ form' = Opened(p)
  /\ typed' = NoUser
  /\ late' = {}
  /\ expired' = 1..issued
  /\ UNCHANGED issued

Redirect == leaving # "none" /\ Load(leaving)

\* The buttons of Topbar and Sidebar.
Logout ==
  /\ page = "app"
  /\ SignedOut
  /\ UNCHANGED <<issued, expired, req, isRefreshing, leaving>>

\* Half an hour (an hour in the portal) without an input event.
IdleTimeout ==
  /\ page = "app"
  /\ SignedOut
  /\ UNCHANGED <<issued, expired, req, isRefreshing, leaving>>

-----------------------------------------------------------------------------
(* The forms.                                                              *)

Submit(u) ==
  /\ page \in WithForm
  /\ form \in {"idle", "error"}
  /\ form' = "loading"
  /\ typed' = IF page = "login" THEN u ELSE NoUser
  /\ UNCHANGED <<sessionVars, req, isRefreshing, page, leaving, late>>

\* The page that follows is the dashboard, or where ?redirect= points, which
\* may be a page of another role.
SignIn ==
  /\ page = "login"
  /\ form = "loading"
  /\ issued < MaxTokens
  /\ issued' = issued + 1
  /\ user' = typed
  /\ token' = issued'
  /\ page' \in {"app", "unauthorized"}
  /\ form' = "idle"
  /\ typed' = NoUser
  /\ UNCHANGED <<expired, req, isRefreshing, leaving, late>>

\* 429 disables the button until the countdown ends, 403 replaces the page.
SignInFails ==
  /\ page = "login"
  /\ form = "loading"
  /\ form' \in {"error", "waiting", "closed"}
  /\ UNCHANGED <<sessionVars, req, isRefreshing, page, leaving, typed, late>>

\* The countdown ends; "Try a different account".
SignInAgain ==
  /\ page = "login"
  /\ form \in {"waiting", "closed"}
  /\ form' = "error"
  /\ UNCHANGED <<sessionVars, req, isRefreshing, page, leaving, typed, late>>

\* The account is made, but the body has no data field (useAuth.ts):
\* onSuccess throws on undefined, which is an error of the mutation or,
\* with a library that catches it, leaves the form at success.
Registered ==
  /\ page = "register"
  /\ form = "loading"
  /\ form' \in {"success", "error"}
  /\ UNCHANGED <<sessionVars, req, isRefreshing, page, leaving, typed, late>>

\* The invitation is looked up before its form is shown.
InviteChecked ==
  /\ page = "invite"
  /\ form = "checking"
  /\ form' \in {"idle", "closed"}
  /\ UNCHANGED <<sessionVars, req, isRefreshing, page, leaving, typed, late>>

Accepted ==
  /\ page = "invite"
  /\ form = "loading"
  /\ Goto("login") \/ (form' = "error" /\ UNCHANGED <<page, typed, late>>)
  /\ UNCHANGED <<sessionVars, req, isRefreshing, leaving>>

\* Whatever the answer, the form says that an e-mail was sent.
ResetRequested ==
  /\ page = "forgot"
  /\ form = "loading"
  /\ form' = "success"
  /\ UNCHANGED <<sessionVars, req, isRefreshing, page, leaving, typed, late>>

PasswordReset ==
  /\ page = "reset"
  /\ form = "loading"
  /\ Goto("login") \/ (form' = "error" /\ UNCHANGED <<page, typed, late>>)
  /\ UNCHANGED <<sessionVars, req, isRefreshing, leaving>>

\* Faulty: the store is set by the hook, not by the page's callback.
LateSignIn_Kept(u) ==
  /\ u \in late
  /\ late' = late \ {u}
  /\ issued < MaxTokens
  /\ issued' = issued + 1
  /\ user' = u
  /\ token' = issued'
  /\ UNCHANGED <<expired, req, isRefreshing, page, leaving, form, typed>>

\* The login of a form that was left succeeds: the callbacks given to
\* mutate are those of an unmounted page and do not run.
LateSignIn(u) ==
  /\ u \in late
  /\ late' = late \ {u}
  /\ UNCHANGED <<sessionVars, req, isRefreshing, page, leaving, form, typed>>

-----------------------------------------------------------------------------
(* The interceptors.                                                       *)

Live == (1..issued) \ expired

Expire(t) ==
  /\ t \in Live
  /\ expired' = expired \cup {t}
  /\ UNCHANGED <<user, token, issued, req, isRefreshing, pageVars>>

\* The request interceptor reads the store.
Sent(q, t) == [state |-> "sent", token |-> t, retry |-> q.retry, sent |-> q.sent + 1]

\* The public page of plans, where a visitor may arrive, asks for the visitor's subscription, too.
Send(r) ==
  /\ page \in {"app", "plans"}
  /\ req[r].state = "idle"
  /\ req' = [req EXCEPT ![r] = Sent(NoRequest, token)]
  /\ UNCHANGED <<sessionVars, isRefreshing, pageVars>>

\* Any answer the interceptor hands on: success, an error other than 401
\* and 403, no answer within the timeout.
Settle(r) ==
  /\ req[r].state = "sent"
  /\ req' = [req EXCEPT ![r] = NoRequest]
  /\ UNCHANGED <<sessionVars, isRefreshing, pageVars>>

Forbidden(r) ==
  /\ req[r].state = "sent"
  /\ req[r].token \in Live
  /\ req' = [req EXCEPT ![r] = NoRequest]
  /\ leaving' = "unauthorized"
  /\ UNCHANGED <<sessionVars, isRefreshing, page, form, typed, late>>

Refused(r) == req[r].state = "sent" /\ req[r].token \notin Live

\* Faulty: the mark is set where the refresh starts, not before the queue.
Enqueue_Unmarked(r) ==
  /\ Refused(r) /\ ~req[r].retry
  /\ isRefreshing
  /\ req' = [req EXCEPT ![r].state = "queued"]
  /\ UNCHANGED <<sessionVars, isRefreshing, pageVars>>

\* 401 during a refresh: the request waits for its outcome.
Enqueue(r) ==
  /\ Refused(r) /\ ~req[r].retry
  /\ isRefreshing
  /\ req' = [req EXCEPT ![r].state = "queued", ![r].retry = TRUE]
  /\ UNCHANGED <<sessionVars, isRefreshing, pageVars>>

\* Faulty: every request refused starts a refresh.
StartRefresh_Each(r) ==
  /\ Refused(r) /\ ~req[r].retry
  /\ isRefreshing' = TRUE
  /\ req' = [req EXCEPT ![r].state = "leading", ![r].retry = TRUE]
  /\ UNCHANGED <<sessionVars, pageVars>>

\* 401 otherwise: the request starts a refresh and awaits it.
StartRefresh(r) ==
  /\ Refused(r) /\ ~req[r].retry
  /\ ~isRefreshing
  /\ isRefreshing' = TRUE
  /\ req' = [req EXCEPT ![r].state = "leading", ![r].retry = TRUE]
  /\ UNCHANGED <<sessionVars, pageVars>>

\* 401 to a request that was already sent again.
GiveUp(r) ==
  /\ Refused(r) /\ req[r].retry
  /\ req' = [req EXCEPT ![r] = NoRequest]
  /\ SignedOut
  /\ leaving' = "login"
  /\ UNCHANGED <<issued, expired, isRefreshing>>

Waiting == {r \in Reqs : req[r].state \in {"leading", "queued"}}

\* Faulty: the mutex is released only where the refresh fails.
RefreshSucceeds_Held ==
  /\ \E r \in Reqs : req[r].state = "leading"
  /\ issued < MaxTokens
  /\ issued' = issued + 1
  /\ token' = issued'
  /\ req' = [r \in Reqs |-> IF r \in Waiting THEN Sent(req[r], token') ELSE req[r]]
  /\ UNCHANGED <<user, expired, isRefreshing, pageVars>>

\* Faulty: the token is read from a body that does not have it, unnoticed.
RefreshSucceeds_Unread ==
  /\ \E r \in Reqs : req[r].state = "leading"
  /\ issued < MaxTokens
  /\ token' = issued + 1
  /\ req' = [r \in Reqs |-> IF r \in Waiting THEN Sent(req[r], token') ELSE req[r]]
  /\ isRefreshing' = FALSE
  /\ UNCHANGED <<user, issued, expired, pageVars>>

\* A body of the form { data: { accessToken } }: the store takes the token,
\* whoever is signed in by now, and the requests that waited are sent again.
RefreshSucceeds ==
  /\ \E r \in Reqs : req[r].state = "leading"
  /\ issued < MaxTokens
  /\ issued' = issued + 1
  /\ token' = issued'
  /\ req' = [r \in Reqs |-> IF r \in Waiting THEN Sent(req[r], token') ELSE req[r]]
  /\ isRefreshing' = FALSE
  /\ UNCHANGED <<user, expired, pageVars>>

\* The refresh is refused, times out, or answers a body of another form (the
\* server of this repository answers { access_token }): everybody who waited
\* fails, and whoever is signed in by now is signed out.
RefreshFails ==
  /\ \E r \in Reqs : req[r].state = "leading"
  /\ req' = [r \in Reqs |-> IF r \in Waiting THEN NoRequest
                                             ELSE req[r]]
  /\ isRefreshing' = FALSE
  /\ SignedOut
  /\ leaving' = "login"
  /\ UNCHANGED <<issued, expired>>

-----------------------------------------------------------------------------

FormAnswer ==
  \/ SignIn
  \/ SignInFails
  \/ Registered
  \/ InviteChecked
  \/ Accepted
  \/ ResetRequested
  \/ PasswordReset

Answer(r) ==
  \/ Settle(r)
  \/ Forbidden(r)
  \/ Enqueue(r)
  \/ StartRefresh(r)
  \/ GiveUp(r)

RefreshAnswer == RefreshSucceeds \/ RefreshFails

People ==
  \/ \E p \in Pages : Follow(p)
  \/ \E p \in WithForm : Load(p)
  \/ Logout
  \/ IdleTimeout
  \/ \E u \in Users : Submit(u)
  \/ SignInAgain

CliNext ==
  \/ People
  \/ FormAnswer
  \/ Redirect
  \/ RefreshAnswer
  \/ \E r \in Reqs : Send(r) \/ Answer(r)
  \/ \E u \in Users : LateSignIn(u)
  \/ \E t \in 1..issued : Expire(t)

\* Every request is answered or times out (timeout: 30000), a countdown
\* ends, and the browser loads the page it is sent to; what people do, and
\* when a token expires, is up to them.
CliFairness ==
  /\ WF_clientVars(FormAnswer)
  /\ WF_clientVars(Redirect)
  /\ WF_clientVars(RefreshAnswer)
  /\ \A r \in Reqs : WF_clientVars(Answer(r))

CliSpec == CliInit /\ [][CliNext]_clientVars /\ CliFairness

-----------------------------------------------------------------------------

\* The refresh mutex: while isRefreshing, exactly one request awaits the
\* refresh, and nothing waits in failedQueue without it, so that requests
\* refused together start one refresh and none is forgotten (axios.ts:
\* "Refresh-token mutex").
OneRefresh ==
  /\ isRefreshing <=> \E r \in Reqs : req[r].state = "leading"
  /\ \A r, s \in Reqs : req[r].state = "leading" /\ req[s].state = "leading" => r = s
  /\ \A r \in Reqs : req[r].state = "queued" => isRefreshing

\* No request is sent more than twice, however often tokens expire while it
\* waits, is sent again or is refused again (axios.ts, _retry).
SentAtMostTwice == \A r \in Reqs : req[r].sent <= 2

\* Nobody becomes the signed-in user but by the form shown, with the account
\* typed into it: not by the late answer of a form that was left, nor by a
\* refresh that outlives its session (LoginPage.tsx, onSubmit).
SignInIsAsked ==
  [][user' \notin {user, NoUser}
       => page = "login" /\ form = "loading" /\ user' = typed]_clientVars

\* Every request comes to an end for the page that made it: none waits for
\* ever in failedQueue, on a lock nobody will release.
EveryRequestSettles ==
  \A r \in Reqs : (req[r].state # "idle") ~> (req[r].state = "idle")
=============================================================================
