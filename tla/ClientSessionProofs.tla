------------------------- MODULE ClientSessionProofs -------------------------
(***************************************************************************)
(* Theorems about ClientSession, for any number of requests, accounts and  *)
(* tokens: the refresh mutex, the bound on what is sent again, and who may *)
(* become the signed-in user.                                              *)
(***************************************************************************)
EXTENDS ClientSession, TLAPS

\* What a request has behind it: one that waits was sent once and carries
\* its mark, one on its way was sent twice only with the mark.
Marked ==
  \A r \in Reqs :
    /\ req[r].state \in {"leading", "queued"} => req[r].retry /\ req[r].sent = 1
    /\ req[r].state = "sent" => req[r].sent = 1 \/ (req[r].retry /\ req[r].sent = 2)
    /\ req[r].state = "idle" => req[r].sent = 0

\* A login under way has the account it is for.
LoginIsTyped == page = "login" /\ form = "loading" => typed \in Users

CliInv == CliTypeOK /\ LoginIsTyped /\ OneRefresh /\ Marked

-----------------------------------------------------------------------------

\* A client that has just been loaded satisfies the invariant.
LEMMA InitInv == CliInit => CliInv
<1> SUFFICES ASSUME CliInit PROVE CliInv
  OBVIOUS
<1>1. page \in Pages /\ form \in Forms
  BY DEF CliInit, Pages, Public, WithForm, Forms, Opened
<1>2. NoRequest \in Request
  BY DEF NoRequest, Request
<1>3. req \in [Reqs -> Request]
  BY <1>2 DEF CliInit
<1>4. CliTypeOK
  <2>1. issued \in Nat /\ token \in 0..issued /\ expired \subseteq 1..issued
    BY DEF CliInit
  <2>2. /\ user \in Users \cup {NoUser} /\ typed \in Users \cup {NoUser}
        /\ late \subseteq Users /\ isRefreshing \in BOOLEAN
        /\ leaving \in Pages \cup {"none"}
    BY DEF CliInit
  <2>3. QED BY <1>1, <1>3, <2>1, <2>2 DEF CliTypeOK
<1>5. LoginIsTyped
  BY DEF CliInit, LoginIsTyped, Opened
<1>6. \A r \in Reqs : req[r].state = "idle" /\ req[r].sent = 0
  BY DEF CliInit, NoRequest
<1>7. OneRefresh /\ Marked
  BY <1>6 DEF CliInit, OneRefresh, Marked
<1>8. QED BY <1>4, <1>5, <1>7 DEF CliInv

\* The types of what a change of the page leaves, and of the login it loses.
LEMMA GotoType ==
  ASSUME CliTypeOK, LoginIsTyped, NEW p \in Pages, Goto(p)
  PROVE  /\ page' \in Pages /\ form' \in Forms
         /\ typed' \in Users \cup {NoUser} /\ late' \subseteq Users
         /\ LoginIsTyped'
BY DEF CliTypeOK, LoginIsTyped, Goto, Opened, Forms, Pages

\* Signing out leaves the rest of the session well typed.
LEMMA SignedOutType ==
  ASSUME CliTypeOK, LoginIsTyped, SignedOut
  PROVE  /\ user' \in Users \cup {NoUser} /\ token' = 0
         /\ page' \in Pages /\ form' \in Forms
         /\ typed' \in Users \cup {NoUser} /\ late' \subseteq Users
         /\ LoginIsTyped'
<1>1. CASE page = "app"
  <2>1. Goto("login") BY <1>1 DEF SignedOut
  <2>2. "login" \in Pages BY DEF Pages, Public, WithForm
  <2>3. QED BY <2>1, <2>2, GotoType DEF SignedOut
<1>2. CASE page # "app"
  BY <1>2 DEF SignedOut, CliTypeOK, LoginIsTyped
<1>3. QED BY <1>1, <1>2

\* Sending a request again counts it and keeps its mark.
LEMMA SentIs ==
  ASSUME NEW q \in Request, NEW t \in Nat
  PROVE  /\ Sent(q, t) \in Request
         /\ Sent(q, t).state = "sent" /\ Sent(q, t).retry = q.retry
         /\ Sent(q, t).sent = q.sent + 1
BY DEF Sent, Request

\* A request that was not made is neither sent nor marked.
LEMMA NoRequestIs ==
  /\ NoRequest \in Request /\ NoRequest.state = "idle"
  /\ NoRequest.retry = FALSE /\ NoRequest.sent = 0
BY DEF NoRequest, Request

\* What a step does to the requests and the mutex: nothing, or one of the
\* moves below.  The rest of the invariant depends on nothing else.
Unmoved == req' = req /\ isRefreshing' = isRefreshing
Emptied == req' = [r \in Reqs |-> NoRequest] /\ isRefreshing' = FALSE
Moved ==
  \E r \in Reqs :
    \/ Send(r)
    \/ req[r].state = "sent" /\ req' = [req EXCEPT ![r] = NoRequest]
         /\ isRefreshing' = isRefreshing
    \/ Enqueue(r)
    \/ StartRefresh(r)
Resent ==
  /\ req' = [r \in Reqs |-> IF r \in Waiting THEN Sent(req[r], token') ELSE req[r]]
  /\ isRefreshing' = FALSE
Failed ==
  /\ req' = [r \in Reqs |-> IF r \in Waiting THEN NoRequest ELSE req[r]]
  /\ isRefreshing' = FALSE

\* Every step makes one of these moves.
LEMMA RequestsMove ==
  ASSUME CliInv, CliNext
  PROVE  Unmoved \/ Emptied \/ Moved \/ Resent \/ Failed
<1>1. ASSUME People PROVE Unmoved \/ Emptied
  BY <1>1 DEF People, Follow, Load, Logout, IdleTimeout, Submit, SignInAgain,
              Unmoved, Emptied
<1>2. ASSUME FormAnswer PROVE Unmoved
  BY <1>2 DEF FormAnswer, SignIn, SignInFails, Registered, InviteChecked,
              Accepted, ResetRequested, PasswordReset, Unmoved
<1>3. ASSUME Redirect PROVE Emptied
  BY <1>3 DEF Redirect, Load, Emptied
<1>4. ASSUME RefreshAnswer PROVE Resent \/ Failed
  BY <1>4 DEF RefreshAnswer, RefreshSucceeds, RefreshFails, Resent, Failed
<1>5. ASSUME NEW r \in Reqs, Send(r) \/ Answer(r) PROVE Moved
  BY <1>5 DEF Answer, Settle, Forbidden, GiveUp, Refused, Moved
<1>6. ASSUME NEW u \in Users, LateSignIn(u) PROVE Unmoved
  BY <1>6 DEF LateSignIn, Unmoved
<1>7. ASSUME NEW t \in 1..issued, Expire(t) PROVE Unmoved
  BY <1>7 DEF Expire, Unmoved
<1>8. QED BY <1>1, <1>2, <1>3, <1>4, <1>5, <1>6, <1>7 DEF CliNext

\* The mutex and the marks survive each of the moves.
LEMMA MutexStep ==
  ASSUME CliInv, CliTypeOK', Unmoved \/ Emptied \/ Moved \/ Resent \/ Failed
  PROVE  OneRefresh' /\ Marked'
<1>1. CASE Unmoved
  BY <1>1 DEF Unmoved, CliInv, OneRefresh, Marked
<1>2. CASE Emptied
  <2>1. \A r \in Reqs : req'[r].state = "idle" /\ req'[r].sent = 0
    BY <1>2 DEF Emptied, NoRequest
  <2>2. QED BY <1>2, <2>1 DEF Emptied, OneRefresh, Marked
<1>3. CASE Moved
  <2>1. PICK r \in Reqs :
          \/ Send(r)
          \/ req[r].state = "sent" /\ req' = [req EXCEPT ![r] = NoRequest]
               /\ isRefreshing' = isRefreshing
          \/ Enqueue(r)
          \/ StartRefresh(r)
    BY <1>3 DEF Moved
  <2>2. req \in [Reqs -> Request]
    BY DEF CliInv, CliTypeOK
  <2>3. \A s \in Reqs \ {r} : req'[s] = req[s]
    BY <2>1, <2>2 DEF Send, Enqueue, StartRefresh
  <2>4. CASE Send(r)
    <3>1. /\ req[r].state = "idle" /\ isRefreshing' = isRefreshing
          /\ req'[r].state = "sent" /\ req'[r].sent = 1
      <4>1. token \in Nat BY DEF CliInv, CliTypeOK
      <4>2. req'[r] = Sent(NoRequest, token) BY <2>4, <2>2 DEF Send
      <4>3. isRefreshing' = isRefreshing /\ req[r].state = "idle"
        BY <2>4 DEF Send
      <4>4. Sent(NoRequest, token).state = "sent" /\ Sent(NoRequest, token).sent = 1
        BY <4>1, SentIs, NoRequestIs
      <4>5. QED BY <4>2, <4>3, <4>4
    <3>2. \A s \in Reqs :
            /\ req'[s].state = "leading" <=> req[s].state = "leading"
            /\ req'[s].state = "queued" <=> req[s].state = "queued"
      BY <3>1, <2>3
    <3>3. OneRefresh'
      BY <3>1, <3>2 DEF CliInv, OneRefresh
    <3>4. Marked'
      BY <3>1, <2>3 DEF CliInv, Marked
    <3>5. QED BY <3>3, <3>4
  <2>5. CASE req[r].state = "sent" /\ req' = [req EXCEPT ![r] = NoRequest]
               /\ isRefreshing' = isRefreshing
    <3>1. req'[r].state = "idle" /\ req'[r].sent = 0
      BY <2>5, <2>2 DEF NoRequest
    <3>2. QED BY <3>1, <2>3, <2>5 DEF CliInv, OneRefresh, Marked
  <2>6. CASE Enqueue(r)
    <3>1. /\ req[r].state = "sent" /\ req[r].sent = 1
          /\ isRefreshing /\ isRefreshing' = isRefreshing
          /\ req'[r].state = "queued" /\ req'[r].retry /\ req'[r].sent = 1
      BY <2>6, <2>2 DEF Enqueue, Refused, CliInv, Marked, Request
    <3>2. QED BY <3>1, <2>3 DEF CliInv, OneRefresh, Marked
  <2>7. CASE StartRefresh(r)
    <3>1. /\ req[r].state = "sent" /\ req[r].sent = 1
          /\ ~isRefreshing /\ isRefreshing'
          /\ req'[r].state = "leading" /\ req'[r].retry /\ req'[r].sent = 1
      BY <2>7, <2>2 DEF StartRefresh, Refused, CliInv, Marked, Request
    <3>2. QED BY <3>1, <2>3 DEF CliInv, OneRefresh, Marked
  <2>8. QED BY <2>1, <2>4, <2>5, <2>6, <2>7
<1>4. CASE Resent
  <2>1. req \in [Reqs -> Request]
    BY DEF CliInv, CliTypeOK
  <2>2. \A r \in Waiting :
          /\ req'[r].state = "sent" /\ req'[r].retry /\ req'[r].sent = 2
    <3>1. token' \in Nat
      BY DEF CliTypeOK
    <3>2. SUFFICES ASSUME NEW r \in Waiting
                   PROVE  /\ req'[r].state = "sent" /\ req'[r].retry
                          /\ req'[r].sent = 2
      OBVIOUS
    <3>3. req'[r] = Sent(req[r], token') /\ req[r] \in Request
      BY <1>4, <2>1 DEF Resent, Waiting
    <3>4. req[r].retry /\ req[r].sent = 1
      BY DEF Waiting, CliInv, Marked
    <3>5. QED BY <3>1, <3>3, <3>4, SentIs
  <2>3. \A r \in Reqs \ Waiting :
          req'[r] = req[r] /\ req[r].state \notin {"leading", "queued"}
    BY <1>4 DEF Resent, Waiting
  <2>4. QED BY <1>4, <2>2, <2>3 DEF Resent, CliInv, OneRefresh, Marked
<1>5. CASE Failed
  <2>1. \A r \in Waiting : req'[r].state = "idle" /\ req'[r].sent = 0
    BY <1>5 DEF Failed, Waiting, NoRequest
  <2>2. \A r \in Reqs \ Waiting :
          req'[r] = req[r] /\ req[r].state \notin {"leading", "queued"}
    BY <1>5 DEF Failed, Waiting
  <2>3. QED BY <1>5, <2>1, <2>2 DEF Failed, CliInv, OneRefresh, Marked
<1>6. QED BY <1>1, <1>2, <1>3, <1>4, <1>5

\* The requests keep their type whatever moves them.
LEMMA RequestsType ==
  ASSUME CliInv, issued' \in Nat, token' \in 0..issued',
         Unmoved \/ Emptied \/ Moved \/ Resent \/ Failed
  PROVE  req' \in [Reqs -> Request] /\ isRefreshing' \in BOOLEAN
<1>1. req \in [Reqs -> Request] /\ isRefreshing \in BOOLEAN /\ token \in Nat
  BY DEF CliInv, CliTypeOK
<1>2. CASE Unmoved BY <1>1, <1>2 DEF Unmoved
<1>3. CASE Emptied BY <1>3, NoRequestIs DEF Emptied
<1>4. CASE Moved
  <2>1. PICK r \in Reqs :
          \/ Send(r)
          \/ req[r].state = "sent" /\ req' = [req EXCEPT ![r] = NoRequest]
               /\ isRefreshing' = isRefreshing
          \/ Enqueue(r)
          \/ StartRefresh(r)
    BY <1>4 DEF Moved
  <2>2. CASE Send(r)
    <3>1. Sent(NoRequest, token) \in Request BY <1>1, SentIs, NoRequestIs
    <3>2. QED BY <1>1, <2>2, <3>1 DEF Send
  <2>3. CASE req[r].state = "sent" /\ req' = [req EXCEPT ![r] = NoRequest]
               /\ isRefreshing' = isRefreshing
    BY <1>1, <2>3, NoRequestIs
  <2>4. CASE Enqueue(r) BY <1>1, <2>4 DEF Enqueue, Request
  <2>5. CASE StartRefresh(r) BY <1>1, <2>5 DEF StartRefresh, Request
  <2>6. QED BY <2>1, <2>2, <2>3, <2>4, <2>5
<1>5. CASE Resent
  <2>1. \A r \in Reqs : Sent(req[r], token') \in Request
    BY <1>1, SentIs
  <2>2. QED BY <1>1, <1>5, <2>1 DEF Resent
<1>6. CASE Failed BY <1>1, <1>6, NoRequestIs DEF Failed
<1>7. QED BY <1>2, <1>3, <1>4, <1>5, <1>6

\* What is left of the type invariant, action by action.
RestType ==
  /\ user \in Users \cup {NoUser}
  /\ issued \in Nat
  /\ token \in 0..issued
  /\ expired \subseteq 1..issued
  /\ page \in Pages
  /\ leaving \in Pages \cup {"none"}
  /\ form \in Forms
  /\ typed \in Users \cup {NoUser}
  /\ late \subseteq Users

\* Every step keeps what the invariant says of the session and the pages.
LEMMA RestStep ==
  ASSUME CliInv, CliNext
  PROVE  RestType' /\ LoginIsTyped'
<1> USE DEF CliInv
<1>0. RestType BY DEF CliTypeOK, RestType
<1>1. ASSUME NEW p \in Pages, Follow(p) PROVE RestType' /\ LoginIsTyped'
  <2>1. Goto(p) /\ UNCHANGED sessionVars /\ leaving' = leaving
    BY <1>1 DEF Follow
  <2>2. QED BY <1>0, <2>1, GotoType DEF RestType, sessionVars
<1>2. ASSUME NEW p \in Pages, Load(p) PROVE RestType' /\ LoginIsTyped'
  BY <1>0, <1>2 DEF Load, Opened, RestType, LoginIsTyped, Forms
<1>3. ASSUME SignedOut, issued' = issued, expired' = expired,
             leaving' = leaving \/ leaving' = "login"
      PROVE  RestType' /\ LoginIsTyped'
  <2>1. "login" \in Pages BY DEF Pages, Public, WithForm
  <2>2. QED BY <1>0, <1>3, <2>1, SignedOutType DEF RestType
<1>4. ASSUME NEW u \in Users, Submit(u) PROVE RestType' /\ LoginIsTyped'
  BY <1>0, <1>4 DEF Submit, RestType, LoginIsTyped, sessionVars, Forms
<1>5. ASSUME SignIn PROVE RestType' /\ LoginIsTyped'
  <2>1. page' \in Pages /\ form' \in Forms
    BY <1>5 DEF SignIn, Pages, Forms
  <2>2. QED BY <1>0, <1>5, <2>1 DEF SignIn, RestType, LoginIsTyped
<1>6. ASSUME form' \in Forms, form' # "loading", UNCHANGED sessionVars,
             page' = page, leaving' = leaving, typed' = typed, late' = late
      PROVE  RestType' /\ LoginIsTyped'
  BY <1>0, <1>6 DEF RestType, LoginIsTyped, sessionVars
<1>7. ASSUME UNCHANGED sessionVars, leaving' = leaving,
             Goto("login") \/ (form' = "error" /\ UNCHANGED <<page, typed, late>>)
      PROVE  RestType' /\ LoginIsTyped'
  <2>1. "login" \in Pages /\ "error" \in Forms
    BY DEF Pages, Public, WithForm, Forms
  <2>2. CASE Goto("login")
    BY <1>0, <1>7, <2>1, <2>2, GotoType DEF RestType, sessionVars
  <2>3. CASE form' = "error" /\ UNCHANGED <<page, typed, late>>
    BY <1>6, <1>7, <2>1, <2>3
  <2>4. QED BY <1>7, <2>2, <2>3
<1>8. ASSUME RefreshSucceeds PROVE RestType' /\ LoginIsTyped'
  BY <1>0, <1>8 DEF RefreshSucceeds, RestType, LoginIsTyped, pageVars
<1>9. ASSUME NEW u \in Users, LateSignIn(u) PROVE RestType' /\ LoginIsTyped'
  BY <1>0, <1>9 DEF LateSignIn, RestType, LoginIsTyped, sessionVars
<1>10. ASSUME NEW t \in 1..issued, Expire(t) PROVE RestType' /\ LoginIsTyped'
  BY <1>0, <1>10 DEF Expire, Live, RestType, LoginIsTyped, pageVars
<1>11. ASSUME NEW r \in Reqs, Send(r) \/ Settle(r) \/ Enqueue(r) \/ StartRefresh(r)
       PROVE RestType' /\ LoginIsTyped'
  BY <1>0, <1>11 DEF Send, Settle, Enqueue, StartRefresh, RestType,
                     LoginIsTyped, sessionVars, pageVars
<1>12. ASSUME NEW r \in Reqs, Forbidden(r) PROVE RestType' /\ LoginIsTyped'
  BY <1>0, <1>12 DEF Forbidden, RestType, LoginIsTyped, sessionVars, Pages
<1>13. ASSUME People PROVE RestType' /\ LoginIsTyped'
  <2>1. WithForm \subseteq Pages BY DEF Pages, Public
  <2>2. ASSUME Logout \/ IdleTimeout PROVE RestType' /\ LoginIsTyped'
    BY <1>3, <2>2 DEF Logout, IdleTimeout
  <2>3. ASSUME SignInAgain PROVE RestType' /\ LoginIsTyped'
    BY <1>6, <2>3 DEF SignInAgain, Forms
  <2>4. QED BY <1>1, <1>2, <1>4, <1>13, <2>1, <2>2, <2>3 DEF People
<1>14. ASSUME FormAnswer PROVE RestType' /\ LoginIsTyped'
  <2>1. ASSUME SignInFails \/ Registered \/ InviteChecked \/ ResetRequested
        PROVE RestType' /\ LoginIsTyped'
    BY <1>6, <2>1 DEF SignInFails, Registered, InviteChecked, ResetRequested, Forms
  <2>2. ASSUME Accepted \/ PasswordReset PROVE RestType' /\ LoginIsTyped'
    BY <1>7, <2>2 DEF Accepted, PasswordReset
  <2>3. QED BY <1>5, <1>14, <2>1, <2>2 DEF FormAnswer
<1>15. ASSUME Redirect PROVE RestType' /\ LoginIsTyped'
  <2>1. leaving \in Pages /\ Load(leaving) BY <1>0, <1>15 DEF Redirect, RestType
  <2>2. QED BY <1>2, <2>1
<1>16. ASSUME RefreshFails PROVE RestType' /\ LoginIsTyped'
  BY <1>3, <1>16 DEF RefreshFails
<1>17. ASSUME NEW r \in Reqs, GiveUp(r) PROVE RestType' /\ LoginIsTyped'
  BY <1>3, <1>17 DEF GiveUp
<1>18. QED BY <1>8, <1>9, <1>10, <1>11, <1>12, <1>13, <1>14, <1>15, <1>16, <1>17
           DEF CliNext, RefreshAnswer, Answer

\* The invariant is inductive.
LEMMA StepInv == CliInv /\ [CliNext]_clientVars => CliInv'
<1>1. ASSUME CliInv, CliNext PROVE CliInv'
  <2>1. RestType' /\ LoginIsTyped' BY <1>1, RestStep
  <2>2. Unmoved \/ Emptied \/ Moved \/ Resent \/ Failed BY <1>1, RequestsMove
  <2>3. CliTypeOK' BY <1>1, <2>1, <2>2, RequestsType DEF RestType, CliTypeOK
  <2>4. QED BY <1>1, <2>1, <2>2, <2>3, MutexStep DEF CliInv
<1>2. ASSUME CliInv, UNCHANGED clientVars PROVE CliInv'
  BY <1>2 DEF clientVars, sessionVars, pageVars, CliInv, CliTypeOK, LoginIsTyped,
              OneRefresh, Marked
<1>3. QED BY <1>1, <1>2

\* The inductive invariant holds in every run, fair or not.
THEOREM ClientIsConsistent == CliSpec => []CliInv
BY InitInv, StepInv, PTL DEF CliSpec

\* The type invariant (authStore.ts, lib/axios.ts and the forms).
THEOREM ClientTypeCorrect == CliSpec => []CliTypeOK
<1>1. CliInv => CliTypeOK BY DEF CliInv
<1>2. QED BY <1>1, ClientIsConsistent, PTL

\* However many requests are refused together, one of them refreshes, and
\* the others wait only while it does (axios.ts, the refresh-token mutex).
THEOREM RefreshIsExclusive == CliSpec => []OneRefresh
<1>1. CliInv => OneRefresh BY DEF CliInv
<1>2. QED BY <1>1, ClientIsConsistent, PTL

\* No request is sent a third time (axios.ts, _retry).
THEOREM RetriesAreBounded == CliSpec => []SentAtMostTwice
<1>1. CliInv => SentAtMostTwice
  <2>1. SUFFICES ASSUME CliInv, NEW r \in Reqs PROVE req[r].sent <= 2
    BY DEF SentAtMostTwice
  <2>2. req[r].state \in {"idle", "sent", "leading", "queued"} /\ req[r].sent \in Nat
    BY <2>1 DEF CliInv, CliTypeOK, Request
  <2>3. QED BY <2>1, <2>2 DEF CliInv, Marked
<1>2. QED BY <1>1, ClientIsConsistent, PTL

\* Only the login form shown signs anybody in, and the account typed into it.
THEOREM SignInsAreAsked == CliSpec => SignInIsAsked
<1>1. ASSUME [CliNext]_clientVars, user' \notin {user, NoUser}
      PROVE  page = "login" /\ form = "loading" /\ user' = typed
  <2>1. CASE CliNext
    <3>1. ASSUME FormAnswer PROVE SignIn
      BY <1>1, <3>1 DEF FormAnswer, SignInFails, Registered, InviteChecked, Accepted,
                        ResetRequested, PasswordReset, sessionVars
    <3>2. ASSUME People PROVE FALSE
      BY <1>1, <3>2 DEF People, Follow, Load, Logout, IdleTimeout, SignedOut, Submit,
                        SignInAgain, sessionVars
    <3>3. ASSUME Redirect \/ RefreshAnswer PROVE FALSE
      BY <1>1, <3>3 DEF Redirect, Load, RefreshAnswer, RefreshSucceeds, RefreshFails,
                        SignedOut
    <3>4. ASSUME NEW r \in Reqs, Send(r) \/ Answer(r) PROVE FALSE
      BY <1>1, <3>4 DEF Send, Answer, Settle, Forbidden, Enqueue, StartRefresh, GiveUp,
                        SignedOut, sessionVars
    <3>5. ASSUME NEW u \in Users, LateSignIn(u) PROVE FALSE
      BY <1>1, <3>5 DEF LateSignIn, sessionVars
    <3>6. ASSUME NEW t \in 1..issued, Expire(t) PROVE FALSE
      BY <1>1, <3>6 DEF Expire
    <3>7. SignIn
      BY <2>1, <3>1, <3>2, <3>3, <3>4, <3>5, <3>6 DEF CliNext
    <3>8. QED BY <3>7 DEF SignIn
  <2>2. CASE UNCHANGED clientVars
    BY <1>1, <2>2 DEF clientVars, sessionVars
  <2>3. QED BY <1>1, <2>1, <2>2
<1>2. QED BY <1>1, PTL DEF CliSpec, SignInIsAsked
=============================================================================
