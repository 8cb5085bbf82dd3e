-------------------------- MODULE TokenFamiliesProofs --------------------------
(***************************************************************************)
(* Theorems of TokenFamilies, for any number of requests in flight, any    *)
(* number of logins and any length of time.                                *)
(***************************************************************************)
EXTENDS TokenFamilies, TLAPS

-----------------------------------------------------------------------------
(* Type correctness.                                                       *)

\* A request under way has the type of its step.
LEMMA RequestType ==
  ASSUME TokTypeOK, NEW w \in Workers, rq[w] # Idle
  PROVE  /\ rq[w] \in Requests(now)
         /\ rq[w] \in Request
         /\ rq[w].fam \in Families
         /\ rq[w].new \in (0..now) \cup {Keep}
         /\ rq[w].step \in Issuing => rq[w].new \in 0..now
BY DEF TokTypeOK, Request, Requests

\* One worker has a request r now, or none.
LEMMA OneRequest ==
  ASSUME TokTypeOK, NEW w \in Workers, NEW r \in Requests(now)
  PROVE  [rq EXCEPT ![w] = r] \in [Workers -> Requests(now)]
BY DEF TokTypeOK

\* A worker without a request.
LEMMA NoRequest == Idle \in Requests(now)
BY DEF Requests

\* The request of w goes on to step s.
LEMMA NextStep ==
  ASSUME TokTypeOK, NEW w \in Workers, rq[w] # Idle,
         NEW s \in Steps, rq[w].new = Keep => s \notin Issuing
  PROVE  [rq[w] EXCEPT !.step = s] \in Requests(now)
<1>1. [rq[w] EXCEPT !.step = s] \in Request
  BY RequestType DEF Request
<1>2. /\ [rq[w] EXCEPT !.step = s].new = rq[w].new
      /\ [rq[w] EXCEPT !.step = s].step = s
  BY RequestType DEF Request
<1> QED
  BY <1>1, <1>2, RequestType DEF Requests

\* Redis, the session rows and the open requests have the types the model
\* declares; no token is of a later second than the clock.
THEOREM TokensTypeCorrect == Spec => []TokTypeOK
<1>1. Init => TokTypeOK
  BY FamilyAssumption, NoRequest DEF Init, TokTypeOK
<1>2. TokTypeOK /\ [Next]_vars => TokTypeOK'
  <2> SUFFICES ASSUME TokTypeOK, [Next]_vars PROVE TokTypeOK'
    OBVIOUS
  <2> USE FamilyAssumption
  <2>1. CASE Tick
    <3>1. Requests(now) \subseteq Requests(now + 1)
      BY DEF Requests, TokTypeOK
    <3>2. now' = now + 1 /\ rq' = rq
      BY <2>1 DEF Tick
    <3>3. rq' \in [Workers -> Requests(now')]
      BY <3>1, <3>2 DEF TokTypeOK
    <3> QED
      BY <2>1, <3>3 DEF Tick, TokTypeOK
  <2>2. ASSUME NEW w \in Workers, Serve(w) PROVE TokTypeOK'
    <3>1. ASSUME NEW f \in Families, Login(w, f) PROVE TokTypeOK'
      <4> DEFINE r == [step |-> "register", fam |-> f, old |-> now, new |-> now,
                      todo |-> {}, revoke |-> {}, hash |-> now]
      <4>1. r \in Requests(now)
        BY <3>1 DEF Steps, TokTypeOK, Issuing, Requests, Request
      <4>2. rq' = [rq EXCEPT ![w] = r] /\ now' = now
        BY <3>1 DEF Login
      <4>3. rq' \in [Workers -> Requests(now)]
        BY <4>1, <4>2, OneRequest
      <4> QED
        BY <3>1, <4>3 DEF Login, TokTypeOK
    <3>2. CASE Register(w)
      <4>1. rq[w] # Idle /\ (rq[w].new = Keep => "commit" \notin Issuing)
        BY <3>2, RequestType DEF Register, At, Issuing
      <4>2. rq' \in [Workers -> Requests(now)]
        BY <3>2, <4>1, OneRequest, NextStep DEF Steps, Register, Go
      <4> QED
        BY <3>2, <4>1, <4>2, RequestType DEF Register, At, Issuing, TokTypeOK
    <3>3. ASSUME NEW f \in Families, NEW t \in issued[f], Present(w, f, t) PROVE TokTypeOK'
      <4> DEFINE r == [step |-> "remove", fam |-> f, old |-> t, new |-> now,
                      todo |-> {}, revoke |-> {}, hash |-> Keep]
      <4> t \in 0..now
        BY DEF TokTypeOK
      <4>1. r \in Requests(now)
        BY <3>3 DEF Steps, TokTypeOK, Issuing, Requests, Request
      <4>2. rq' = [rq EXCEPT ![w] = r] /\ now' = now
        BY <3>3 DEF Present
      <4>3. rq' \in [Workers -> Requests(now)]
        BY <4>1, <4>2, OneRequest
      <4> QED
        BY <3>3, <4>3 DEF Present, TokTypeOK
    <3>4. CASE Remove(w)
      <4>1. rq[w] # Idle /\ rq[w].new # Keep
        BY <3>4, RequestType DEF Remove, At, Issuing
      <4>2. \A s \in Steps : [rq EXCEPT ![w].step = s] \in [Workers -> Requests(now)]
        BY <4>1, OneRequest, NextStep
      <4>3. rq' \in [Workers -> Requests(now)]
        BY <3>4, <4>2 DEF Steps, Remove, Go
      <4>4. redis' \in [Families -> SUBSET (0..now)]
        BY <3>4 DEF Remove, TokTypeOK
      <4>5. spent' \in [Families -> SUBSET (0..now)]
        BY <3>4 DEF Remove, TokTypeOK
      <4> QED
        BY <3>4, <4>3, <4>4, <4>5 DEF Remove, TokTypeOK
    <3>5. CASE Delete(w)
      <4>1. rq' \in [Workers -> Requests(now)]
        BY <3>5, OneRequest, NoRequest DEF Delete
      <4> QED
        BY <3>5, <4>1, RequestType DEF Delete, At, TokTypeOK
    <3>6. CASE Add(w)
      <4>1. rq[w] # Idle /\ (rq[w].new = Keep => "rotate" \notin Issuing)
        BY <3>6, RequestType DEF Add, At, Issuing
      <4>2. rq' \in [Workers -> Requests(now)]
        BY <3>6, <4>1, OneRequest, NextStep DEF Steps, Add, Go
      <4> QED
        BY <3>6, <4>1, <4>2, RequestType DEF Add, At, Issuing, TokTypeOK
    <3>7. CASE Rotate(w)
      <4> DEFINE h == IF Open(rq[w].fam) /\ session[rq[w].fam].hash = rq[w].old
                        THEN rq[w].new ELSE Keep
                 r == [rq[w] EXCEPT !.step = "commit", !.hash = h]
      <4>1. rq[w] # Idle
        BY <3>7 DEF Rotate, At
      <4>2. h \in Nat \cup {Keep}
        BY <4>1, RequestType
      <4> HIDE DEF h
      <4>3. r \in Request /\ r.new = rq[w].new /\ r.step = "commit"
        BY <4>1, <4>2, RequestType DEF Request, Steps
      <4>4. r \in Requests(now)
        BY <4>1, <4>3, RequestType DEF Requests, Issuing
      <4>5. rq' = [rq EXCEPT ![w] = r]
        BY <3>7 DEF Rotate, h
      <4>6. rq' \in [Workers -> Requests(now)]
        BY <4>4, <4>5, OneRequest
      <4> QED
        BY <3>7, <4>6 DEF Rotate, TokTypeOK
    <3>8. ASSUME NEW f \in Families, Logout(w, f) PROVE TokTypeOK'
      <4> DEFINE r == [step |-> "drop", fam |-> f, old |-> now, new |-> Keep,
                      todo |-> {f}, revoke |-> {}, hash |-> Keep]
      <4>1. r \in Requests(now)
        BY <3>8 DEF Steps, TokTypeOK, Issuing, Requests, Request
      <4>2. rq' = [rq EXCEPT ![w] = r] /\ now' = now
        BY <3>8 DEF Logout
      <4>3. rq' \in [Workers -> Requests(now)]
        BY <4>1, <4>2, OneRequest
      <4> QED
        BY <3>8, <4>3 DEF Logout, TokTypeOK
    <3>9. ASSUME NEW F \in SUBSET Families, Revoke(w, F) PROVE TokTypeOK'
      <4> DEFINE f == CHOOSE g \in F : TRUE
                 r == [step |-> "drop", fam |-> f, old |-> now, new |-> Keep,
                       todo |-> F, revoke |-> F, hash |-> Keep]
      <4>1. f \in Families
        BY <3>9 DEF Revoke
      <4>2. rq' = [rq EXCEPT ![w] = r]
        BY <3>9 DEF Revoke
      <4> HIDE DEF f
      <4>3. r \in Requests(now)
        BY <4>1 DEF Steps, TokTypeOK, Issuing, Requests, Request
      <4>4. rq' \in [Workers -> Requests(now)]
        BY <4>2, <4>3, OneRequest
      <4> QED
        BY <3>9, <4>4 DEF Revoke, TokTypeOK
    <3>10. ASSUME NEW f \in Families, Drop(w, f) PROVE TokTypeOK'
      <4> DEFINE left == rq[w].todo \ {f}
                 s == IF left # {} THEN "drop"
                      ELSE IF rq[w].revoke = {} THEN "revoke" ELSE "commit"
                 r == [rq[w] EXCEPT !.todo = left, !.step = s]
      <4>1. rq[w] # Idle
        BY <3>10 DEF Drop, At
      <4>2. left \in SUBSET Families /\ s \in {"drop", "revoke", "commit"}
        BY <4>1, RequestType DEF Request
      <4>3. rq' = [rq EXCEPT ![w] = r]
        BY <3>10 DEF Drop
      <4> HIDE DEF left, s
      <4>4. r \in Request /\ r.new = rq[w].new /\ r.step = s
        BY <4>1, <4>2, RequestType DEF Request, Steps
      <4>5. r \in Requests(now)
        BY <4>1, <4>2, <4>4, RequestType DEF Requests, Issuing
      <4>6. rq' \in [Workers -> Requests(now)]
        BY <4>3, <4>5, OneRequest
      <4> QED
        BY <3>10, <4>6 DEF Drop, TokTypeOK
    <3>11. CASE RevokeRows(w)
      <4> DEFINE G == {f \in {rq[w].fam} : Open(f)}
                 r == [rq[w] EXCEPT !.step = "commit", !.revoke = G]
      <4>1. rq[w] # Idle
        BY <3>11 DEF RevokeRows, At
      <4>2. G \in SUBSET Families
        BY <4>1, RequestType
      <4>3. rq' = [rq EXCEPT ![w] = r]
        BY <3>11 DEF RevokeRows
      <4> HIDE DEF G
      <4>4. r \in Request /\ r.new = rq[w].new /\ r.step = "commit"
        BY <4>1, <4>2, RequestType DEF Request, Steps
      <4>5. r \in Requests(now)
        BY <4>1, <4>4, RequestType DEF Requests, Issuing
      <4>6. rq' \in [Workers -> Requests(now)]
        BY <4>3, <4>5, OneRequest
      <4> QED
        BY <3>11, <4>6 DEF RevokeRows, TokTypeOK
    <3>12. CASE Answer(w)
      BY <3>12, RequestType DEF Answer, At, TokTypeOK
    <3>13. CASE Commit(w)
      <4>1. rq' \in [Workers -> Requests(now)]
        BY <3>13, OneRequest, NoRequest DEF Commit
      <4>2. rq[w] # Idle /\ rq[w].hash \in Nat \cup {Keep}
        BY <3>13, RequestType DEF Commit, At, Request
      <4>3. session' \in [Families -> [hash : Nat \cup {Keep}, revoked : BOOLEAN]]
        BY <3>13, <4>2 DEF Commit, TokTypeOK
      <4> QED
        BY <3>13, <4>1, <4>3 DEF Commit, TokTypeOK
    <3>14. CASE Fail(w)
      <4>1. rq' \in [Workers -> Requests(now)]
        BY <3>14, OneRequest, NoRequest DEF Fail
      <4> QED
        BY <3>14, <4>1 DEF Fail, TokTypeOK
    <3> QED
      BY <2>2, <3>1, <3>2, <3>3, <3>4, <3>5, <3>6, <3>7, <3>8, <3>9, <3>10,
         <3>11, <3>12, <3>13, <3>14 DEF Serve
  <2>3. CASE UNCHANGED vars
    BY <2>3 DEF vars, TokTypeOK
  <2> QED
    BY <2>1, <2>2, <2>3 DEF Next
<1> QED
  BY <1>1, <1>2, PTL DEF Spec

-----------------------------------------------------------------------------
(* The families.                                                           *)

\* A step of one request that leaves the tokens alone and does not go on to
\* add one.
LEMMA QuietStep ==
  ASSUME FamilyInv, UNCHANGED <<redis, issued, started, spent, ended>>,
         \A f \in Families \ started : session'[f].hash = Keep,
         NEW w \in Workers, \A v \in Workers \ {w} : rq'[v] = rq[v],
         rq'[w] # Idle =>
           /\ rq'[w].fam \in started
           /\ rq'[w].step \notin {"add", "register"}
           /\ rq'[w].step = "remove" => rq'[w].old <= rq'[w].new
           /\ rq'[w].step \in {"drop", "revoke"} => rq'[w].new = Keep
           /\ rq'[w].step \in {"rotate", "commit"} /\ rq'[w].new # Keep =>
                \/ rq'[w].fam \in ended
                \/ rq'[w].new \in redis[rq'[w].fam] \cup spent[rq'[w].fam]
  PROVE  FamilyInv'
<1>1. Fresh'
  BY DEF FamilyInv, Fresh
<1>2. OneLiveToken' /\ RotationMovesForward' /\ UnspentIsLive'
  BY DEF FamilyInv, OneLiveToken, RotationMovesForward, UnspentIsLive
<1>3. AddsAlone'
  BY DEF FamilyInv, AddsAlone, Adding, At
<1>4. AnswersLive'
  BY DEF FamilyInv, AnswersLive, At
<1> QED
  BY <1>1, <1>2, <1>3, <1>4 DEF FamilyInv

\* A request works on a family whose login has begun.
LEMMA Begun ==
  ASSUME TokTypeOK, FamilyInv, NEW w \in Workers, rq[w] # Idle
  PROVE  rq[w].fam \in started
BY RequestType DEF FamilyInv, Fresh

\* A request adds its token to its family, which was empty, and goes on.
LEMMA AddStep ==
  ASSUME TokTypeOK, FamilyInv, NEW w \in Workers, Adding(w),
         redis' = [redis EXCEPT ![rq[w].fam] = @ \cup {rq[w].new}],
         UNCHANGED <<session, issued, started, spent, ended>>,
         \A v \in Workers \ {w} : rq'[v] = rq[v],
         rq'[w].fam = rq[w].fam, rq'[w].new = rq[w].new,
         rq'[w].step \in {"rotate", "commit"}
  PROVE  FamilyInv'
<1> DEFINE f == rq[w].fam
           n == rq[w].new
<1>1. f \in Families /\ f \in started
  BY Begun, RequestType DEF Adding, At
<1>2. redis[f] = {} /\ \A u \in spent[f] : u <= n
  BY DEF FamilyInv, AddsAlone
<1>3. /\ redis'[f] = {n}
      /\ \A g \in Families \ {f} : redis'[g] = redis[g]
  BY <1>1, <1>2 DEF TokTypeOK
<1>4. \A v \in Workers \ {w} : Adding(v) => rq[v].fam # f
  BY DEF FamilyInv, AddsAlone
<1> HIDE DEF f, n
<1>5. Fresh'
  BY <1>1, <1>3 DEF f, FamilyInv, Fresh
<1>6. OneLiveToken'
  BY <1>3 DEF FamilyInv, OneLiveToken
<1>7. AddsAlone'
  BY <1>3, <1>4 DEF FamilyInv, AddsAlone, Adding, At
<1>8. RotationMovesForward'
  BY <1>2, <1>3 DEF FamilyInv, RotationMovesForward
<1>9. AnswersLive'
  BY <1>2, <1>3 DEF f, n, FamilyInv, AnswersLive, At
<1>10. UnspentIsLive'
  BY <1>2, <1>3 DEF FamilyInv, UnspentIsLive
<1> QED
  BY <1>5, <1>6, <1>7, <1>8, <1>9, <1>10 DEF FamilyInv

\* A family is deleted from Redis.
LEMMA DeleteStep ==
  ASSUME TokTypeOK, FamilyInv, NEW w \in Workers, NEW f \in Families,
         redis' = [redis EXCEPT ![f] = {}], ended' = ended \cup {f},
         UNCHANGED <<session, issued, started, spent>>,
         \A v \in Workers \ {w} : rq'[v] = rq[v],
         rq'[w] # Idle => /\ rq'[w].fam \in started
                          /\ rq'[w].step \in {"drop", "revoke", "commit"}
                          /\ rq'[w].new = Keep
  PROVE  FamilyInv'
<1>1. /\ redis'[f] = {}
      /\ \A g \in Families \ {f} : redis'[g] = redis[g]
  BY DEF TokTypeOK
<1>2. Fresh'
  BY <1>1 DEF FamilyInv, Fresh
<1>3. OneLiveToken' /\ RotationMovesForward' /\ UnspentIsLive'
  BY <1>1 DEF FamilyInv, OneLiveToken, RotationMovesForward, UnspentIsLive
<1>4. AddsAlone'
  <2>1. \A v \in Workers : Adding(v)' => v # w /\ Adding(v) /\ rq'[v] = rq[v]
    BY DEF Adding, At
  <2>2. \A v \in Workers : Adding(v) => rq[v].fam \in Families
    BY RequestType DEF Adding, At
  <2> QED
    BY <1>1, <2>1, <2>2 DEF FamilyInv, AddsAlone
<1>5. AnswersLive'
  <2>1. \A v \in Workers : rq[v] # Idle => rq[v].fam \in Families
    BY RequestType
  <2> QED
    BY <1>1, <2>1 DEF FamilyInv, AnswersLive, At
<1> QED
  BY <1>2, <1>3, <1>4, <1>5 DEF FamilyInv

\* FamilyInv is inductive.
LEMMA FamilyInvInductive == TokTypeOK /\ FamilyInv /\ [Next]_vars => FamilyInv'
<1> SUFFICES ASSUME TokTypeOK, FamilyInv, [Next]_vars PROVE FamilyInv'
  OBVIOUS
<1> USE FamilyAssumption
<1>1. CASE Tick
  BY <1>1 DEF Tick, FamilyInv, Fresh, OneLiveToken, AddsAlone, Adding, At,
     RotationMovesForward, AnswersLive, UnspentIsLive
<1>2. ASSUME NEW w \in Workers, Serve(w) PROVE FamilyInv'
  <2>1. ASSUME NEW f \in Families, Login(w, f) PROVE FamilyInv'
    <3>1. /\ rq[w] = Idle
          /\ f \notin started
          /\ started' = started \cup {f}
          /\ \A v \in Workers \ {w} : rq'[v] = rq[v]
          /\ rq'[w].fam = f /\ rq'[w].new = now /\ rq'[w].step = "register"
          /\ UNCHANGED <<now, redis, session, issued, spent, ended>>
      BY <2>1 DEF Login, TokTypeOK
    <3>2. Fresh'
      BY <3>1 DEF FamilyInv, Fresh
    <3>3. OneLiveToken' /\ RotationMovesForward' /\ UnspentIsLive'
      BY <3>1 DEF FamilyInv, OneLiveToken, RotationMovesForward, UnspentIsLive
    <3>4. AddsAlone'
      <4>1. redis[f] = {} /\ \A u \in spent[f] : u <= now
        BY <3>1 DEF FamilyInv, Fresh, TokTypeOK
      <4>2. \A v \in Workers : rq[v] # Idle => rq[v].fam # f
        BY <3>1 DEF FamilyInv, Fresh
      <4> QED
        BY <3>1, <4>1, <4>2 DEF FamilyInv, AddsAlone, Adding, At
    <3>5. AnswersLive'
      BY <3>1 DEF FamilyInv, AnswersLive, At
    <3> QED
      BY <3>2, <3>3, <3>4, <3>5 DEF FamilyInv
  <2>2. CASE Register(w)
    <3>1. rq[w] # Idle /\ Adding(w)
      BY <2>2 DEF Register, Adding, At
    <3>2. /\ \A v \in Workers \ {w} : rq'[v] = rq[v]
          /\ rq'[w].fam = rq[w].fam /\ rq'[w].new = rq[w].new
          /\ rq'[w].step = "commit"
      BY <2>2, <3>1, RequestType DEF Register, At, Go, TokTypeOK, Request
    <3> QED
      BY <2>2, <3>1, <3>2, AddStep DEF Register
  <2>3. ASSUME NEW f \in Families, NEW t \in issued[f], Present(w, f, t)
        PROVE  FamilyInv'
    <3>1. /\ f \in started
          /\ t <= now
      BY DEF FamilyInv, Fresh, TokTypeOK
    <3>2. /\ \A v \in Workers \ {w} : rq'[v] = rq[v]
          /\ rq'[w].fam = f /\ rq'[w].step = "remove"
          /\ rq'[w].old = t /\ rq'[w].new = now
          /\ UNCHANGED <<redis, session, issued, started, spent, ended>>
      BY <2>3 DEF Present, TokTypeOK
    <3> QED
      BY <3>1, <3>2, QuietStep DEF FamilyInv, Fresh
  <2>4. CASE Remove(w)
    <3> DEFINE f == rq[w].fam
               t == rq[w].old
    <3>1. /\ rq[w] # Idle /\ rq[w].step = "remove"
          /\ rq[w] \in Request /\ f \in Families /\ f \in started
          /\ rq[w].new \in Nat /\ t <= rq[w].new
      BY <2>4, RequestType, Begun
         DEF Remove, At, Issuing, FamilyInv, AnswersLive, TokTypeOK
    <3>2. CASE t \notin redis[f]
      <4>1. /\ \A v \in Workers \ {w} : rq'[v] = rq[v]
            /\ rq'[w].fam = f /\ rq'[w].step = "delete"
            /\ UNCHANGED <<redis, session, issued, started, spent, ended>>
        BY <2>4, <3>1, <3>2 DEF Remove, Go, TokTypeOK, Request
      <4> QED
        BY <3>1, <4>1, QuietStep DEF FamilyInv, Fresh
    <3>3. CASE t \in redis[f]
      <4>1. /\ \A v \in Workers \ {w} : rq'[v] = rq[v]
            /\ rq'[w].fam = f /\ rq'[w].step = "add" /\ rq'[w].new = rq[w].new
            /\ UNCHANGED <<now, session, issued, started, ended>>
        BY <2>4, <3>1, <3>3 DEF Remove, Go, TokTypeOK, Request
      <4>2. /\ redis' = [redis EXCEPT ![f] = @ \ {t}]
            /\ spent' = [spent EXCEPT ![f] = @ \cup {t}]
        BY <2>4, <3>3 DEF Remove
      <4>3. redis[f] = {t} /\ \A u \in spent[f] : u <= t
        BY <3>1, <3>3 DEF FamilyInv, OneLiveToken, RotationMovesForward
      <4>4. /\ redis'[f] = {}
            /\ spent'[f] = spent[f] \cup {t}
            /\ \A g \in Families \ {f} : redis'[g] = redis[g] /\ spent'[g] = spent[g]
        BY <3>1, <4>2, <4>3 DEF TokTypeOK
      <4>5. spent[f] \subseteq Nat /\ t \in Nat
        BY <3>1, <3>3 DEF TokTypeOK
      <4>6. \A v \in Workers : Adding(v) => rq[v].fam \in Families /\ rq[v].fam # f
        BY <4>3, RequestType DEF FamilyInv, AddsAlone, Adding, At
      <4>7. \A v \in Workers : rq[v] # Idle => rq[v].fam \in Families
        BY RequestType
      <4> HIDE DEF f, t
      <4>8. Fresh'
        BY <3>1, <4>1, <4>4 DEF FamilyInv, Fresh
      <4>9. OneLiveToken' /\ RotationMovesForward'
        BY <4>4 DEF FamilyInv, OneLiveToken, RotationMovesForward
      <4>10. AddsAlone'
        <5>1. \A u \in spent'[f] : u <= rq[w].new
          BY <3>1, <4>3, <4>4, <4>5
        <5> QED
          BY <4>1, <4>4, <4>6, <5>1 DEF FamilyInv, AddsAlone, Adding, At
      <4>11. AnswersLive'
        BY <4>1, <4>3, <4>4, <4>7 DEF FamilyInv, AnswersLive, At
      <4>12. UnspentIsLive'
        BY <4>1, <4>3, <4>4 DEF FamilyInv, UnspentIsLive
      <4> QED
        BY <4>8, <4>9, <4>10, <4>11, <4>12 DEF FamilyInv
    <3> QED
      BY <3>2, <3>3
  <2>5. CASE Delete(w)
    <3>1. rq[w].fam \in Families
      BY <2>5, RequestType DEF Delete, At
    <3>2. rq'[w] = Idle /\ \A v \in Workers \ {w} : rq'[v] = rq[v]
      BY <2>5 DEF Delete, TokTypeOK
    <3> QED
      BY <2>5, <3>1, <3>2, DeleteStep DEF Delete
  <2>6. CASE Add(w)
    <3>1. rq[w] # Idle /\ Adding(w)
      BY <2>6 DEF Add, Adding, At
    <3>2. /\ \A v \in Workers \ {w} : rq'[v] = rq[v]
          /\ rq'[w].fam = rq[w].fam /\ rq'[w].new = rq[w].new
          /\ rq'[w].step = "rotate"
      BY <2>6, <3>1, RequestType DEF Add, At, Go, TokTypeOK, Request
    <3> QED
      BY <2>6, <3>1, <3>2, AddStep DEF Add
  <2>7. CASE Rotate(w)
    <3>1. rq[w] # Idle /\ rq[w].step = "rotate" /\ rq[w].fam \in started
      BY <2>7, Begun DEF Rotate, At
    <3>2. /\ \A v \in Workers \ {w} : rq'[v] = rq[v]
          /\ rq'[w].fam = rq[w].fam /\ rq'[w].new = rq[w].new
          /\ rq'[w].step = "commit"
          /\ UNCHANGED <<redis, session, issued, started, spent, ended>>
      BY <2>7, <3>1, RequestType DEF Rotate, TokTypeOK, Request
    <3>3. rq[w].new # Keep => \/ rq[w].fam \in ended
                             \/ rq[w].new \in redis[rq[w].fam] \cup spent[rq[w].fam]
      BY <3>1 DEF FamilyInv, AnswersLive, At
    <3> QED
      BY <3>1, <3>2, <3>3, QuietStep DEF FamilyInv, Fresh
  <2>8. ASSUME NEW f \in Families, Logout(w, f) PROVE FamilyInv'
    <3>1. /\ f \in started
          /\ \A v \in Workers \ {w} : rq'[v] = rq[v]
          /\ rq'[w].fam = f /\ rq'[w].step = "drop" /\ rq'[w].new = Keep
          /\ UNCHANGED <<redis, session, issued, started, spent, ended>>
      BY <2>8 DEF Logout, FamilyInv, Fresh, TokTypeOK
    <3> QED
      BY <3>1, QuietStep DEF FamilyInv, Fresh
  <2>9. ASSUME NEW F \in SUBSET Families, Revoke(w, F) PROVE FamilyInv'
    <3> DEFINE f == CHOOSE g \in F : TRUE
    <3>1. f \in F
      BY <2>9 DEF Revoke
    <3>2. /\ \A v \in Workers \ {w} : rq'[v] = rq[v]
          /\ rq'[w].fam = f /\ rq'[w].step = "drop" /\ rq'[w].new = Keep
          /\ UNCHANGED <<redis, session, issued, started, spent, ended>>
      BY <2>9 DEF Revoke, TokTypeOK
    <3>3. Open(f)
      BY <2>9, <3>1 DEF Revoke
    <3> HIDE DEF f
    <3>4. f \in started
      BY <3>1, <3>3 DEF Open, FamilyInv, Fresh
    <3> QED
      BY <3>2, <3>4, QuietStep DEF FamilyInv, Fresh
  <2>10. ASSUME NEW f \in Families, Drop(w, f) PROVE FamilyInv'
    <3>1. rq[w] # Idle /\ rq[w].step = "drop" /\ rq[w].fam \in started
      BY <2>10, Begun DEF Drop, At
    <3>2. rq[w].new = Keep
      BY <3>1 DEF FamilyInv, AnswersLive, At
    <3>3. /\ \A v \in Workers \ {w} : rq'[v] = rq[v]
          /\ rq'[w].fam = rq[w].fam /\ rq'[w].new = rq[w].new
          /\ rq'[w].step \in {"drop", "revoke", "commit"}
      BY <2>10, <3>1, RequestType DEF Drop, TokTypeOK, Request
    <3> QED
      BY <2>10, <3>1, <3>2, <3>3, DeleteStep DEF Drop
  <2>11. CASE RevokeRows(w)
    <3>1. rq[w] # Idle /\ rq[w].step = "revoke" /\ rq[w].fam \in started
      BY <2>11, Begun DEF RevokeRows, At
    <3>2. rq[w].new = Keep
      BY <3>1 DEF FamilyInv, AnswersLive, At
    <3>3. /\ \A v \in Workers \ {w} : rq'[v] = rq[v]
          /\ rq'[w].fam = rq[w].fam /\ rq'[w].new = rq[w].new
          /\ rq'[w].step = "commit"
          /\ UNCHANGED <<redis, session, issued, started, spent, ended>>
      BY <2>11, <3>1, RequestType DEF RevokeRows, TokTypeOK, Request
    <3> QED
      BY <3>1, <3>2, <3>3, QuietStep DEF FamilyInv, Fresh
  <2>12. CASE Answer(w)
    <3> DEFINE f == rq[w].fam
               n == rq[w].new
    <3>1. /\ f \in Families /\ f \in started /\ n # Keep
          /\ rq[w] # Idle /\ rq[w].step = "commit"
      BY <2>12, Begun, RequestType DEF Answer, At
    <3>2. f \in ended \/ n \in redis[f] \cup spent[f]
      BY <3>1 DEF FamilyInv, AnswersLive, At
    <3>3. /\ issued'[f] = issued[f] \cup {n}
          /\ \A g \in Families \ {f} : issued'[g] = issued[g]
          /\ UNCHANGED <<redis, session, started, rq, spent, ended>>
      BY <2>12, <3>1 DEF Answer, TokTypeOK
    <3> HIDE DEF f, n
    <3>4. Fresh'
      BY <3>1, <3>3 DEF FamilyInv, Fresh
    <3>5. /\ OneLiveToken' /\ RotationMovesForward' /\ AddsAlone' /\ AnswersLive'
      BY <3>3 DEF FamilyInv, OneLiveToken, RotationMovesForward, AddsAlone,
         Adding, AnswersLive, At
    <3>6. UnspentIsLive'
      BY <3>2, <3>3 DEF FamilyInv, UnspentIsLive
    <3> QED
      BY <3>4, <3>5, <3>6 DEF FamilyInv
  <2>13. CASE Commit(w)
    <3>1. rq[w] # Idle /\ rq[w].fam \in started
      BY <2>13, Begun DEF Commit, At
    <3>2. /\ \A v \in Workers \ {w} : rq'[v] = rq[v]
          /\ rq'[w] = Idle
          /\ UNCHANGED <<redis, issued, started, spent, ended>>
      BY <2>13 DEF Commit, TokTypeOK
    <3>3. \A f \in Families \ started : session'[f].hash = session[f].hash
      BY <2>13, <3>1 DEF Commit
    <3> QED
      BY <3>2, <3>3, QuietStep DEF FamilyInv, Fresh
  <2>14. CASE Fail(w)
    <3>1. /\ \A v \in Workers \ {w} : rq'[v] = rq[v]
          /\ rq'[w] = Idle
          /\ UNCHANGED <<redis, session, issued, started, spent, ended>>
      BY <2>14 DEF Fail, TokTypeOK
    <3> QED
      BY <3>1, QuietStep DEF FamilyInv, Fresh
  <2> QED
    BY <1>2, <2>1, <2>2, <2>3, <2>4, <2>5, <2>6, <2>7, <2>8, <2>9, <2>10,
       <2>11, <2>12, <2>13, <2>14 DEF Serve
<1>3. CASE UNCHANGED vars
  BY <1>3 DEF vars, FamilyInv, Fresh, OneLiveToken, AddsAlone, Adding, At,
     RotationMovesForward, AnswersLive, UnspentIsLive
<1> QED
  BY <1>1, <1>2, <1>3 DEF Next

\* The inductive invariant of the families, from any number of overlapping
\* logins, refreshes, logouts and revocations that fail at any step.
THEOREM FamiliesAreConsistent == Spec => []FamilyInv
<1>1. Init => FamilyInv
  BY DEF Init, FamilyInv, Fresh, OneLiveToken, AddsAlone, Adding, At,
     RotationMovesForward, AnswersLive, UnspentIsLive
<1> QED
  BY <1>1, TokensTypeCorrect, FamilyInvInductive, PTL DEF Spec

\* A family never has two live tokens, though a rotation takes two calls of
\* Redis.
THEOREM OneTokenIsLive == Spec => []OneLiveToken
<1>1. FamilyInv => OneLiveToken
  BY DEF FamilyInv
<1> QED
  BY <1>1, FamiliesAreConsistent, PTL

\* Counted in seconds, rotation never goes back: no live token is older than
\* a token that a refresh has taken out, whoever replays which token when.
THEOREM RotationsMoveForward == Spec => []RotationMovesForward
<1>1. FamilyInv => RotationMovesForward
  BY DEF FamilyInv
<1> QED
  BY <1>1, FamiliesAreConsistent, PTL

\* A token the client was given and has not used stays good until the family
\* is deleted.
THEOREM UnspentTokensAreLive == Spec => []UnspentIsLive
<1>1. FamilyInv => UnspentIsLive
  BY DEF FamilyInv
<1> QED
  BY <1>1, FamiliesAreConsistent, PTL

\* No step takes back the revocation of a session row.
THEOREM RevocationsStay == Spec => RevokedForGood
<1>1. TokTypeOK /\ [Next]_vars =>
        [\A f \in Families : session[f].revoked => session'[f].revoked]_vars
  <2> SUFFICES ASSUME TokTypeOK, [Next]_vars, NEW f \in Families,
                      session[f].revoked
               PROVE  session'[f].revoked
    OBVIOUS
  <2>1. ASSUME NEW w \in Workers, Commit(w) PROVE session'[f].revoked
    BY <2>1 DEF Commit
  <2>2. (\A w \in Workers : ~Commit(w)) => session' = session
    BY DEF Next, vars, Serve, Tick, Login, Register, Present, Remove, Delete,
       Add, Rotate, Logout, Revoke, Drop, RevokeRows, Answer, Fail
  <2> QED
    BY <2>1, <2>2
<1> QED
  BY <1>1, TokensTypeCorrect, PTL DEF Spec, RevokedForGood
=============================================================================
