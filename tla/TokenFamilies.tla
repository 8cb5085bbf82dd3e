----------------------------- MODULE TokenFamilies -----------------------------
(***************************************************************************)
(* Refresh tokens of one user (services/auth.py, token_family.py and the   *)
(* sessions of services/portal.py).  Every login starts a family of        *)
(* tokens; Redis holds the hash of the family's live token, the database a *)
(* session row.  A refresh takes the old token out of Redis and, if it was *)
(* there, puts a new one in; if it was not, the family is deleted.         *)
(*                                                                         *)
(* Every call of Redis takes effect at once and on its own; the session    *)
(* row changes when the request commits.  Requests overlap at every await, *)
(* and the client may send any token it was ever given, more than once.    *)
(*                                                                         *)
(* A token is a signed payload of user, family and second of issue, so     *)
(* within a family a token is the second: two that are issued in the same  *)
(* second are the same token.                                              *)
(***************************************************************************)
EXTENDS Integers

CONSTANTS
  Workers,    \* requests that can be in flight at once
  Families,   \* logins of the user
  MaxTime,    \* bound: the last second
  Faults,     \* TRUE: a request may fail between two steps
  Keep,       \* "the column is not written"
  Idle        \* "the worker has no request"

ASSUME FamilyAssumption ==
  /\ MaxTime \in Nat
  /\ Faults \in BOOLEAN
  /\ Keep \notin Nat

Steps == {"register", "remove", "add", "delete", "rotate", "drop", "revoke",
          "commit"}

\* A request: its next step, the family and tokens it works on (new is Keep
\* if it issues none), the families it has still to delete from Redis, the
\* session rows it will set revoked, and the hash it will write to the row.
Request == [step : Steps, fam : Families, old : Nat, new : Nat \cup {Keep},
            todo : SUBSET Families, revoke : SUBSET Families,
            hash : Nat \cup {Keep}]

\* A request that is to issue a token has it from its first step on.
Issuing == {"register", "remove", "add", "rotate"}

\* What a worker may have before the second t is over.
Requests(t) ==
  {r \in Request : /\ r.new \in (0..t) \cup {Keep}
                   /\ r.new = Keep => r.step \notin Issuing} \cup {Idle}

VARIABLES
  now,      \* the second
  redis,    \* redis[f]: the set at the key of family f
  session,  \* session[f]: the committed row of sessions
  issued,   \* issued[f]: the tokens of f the client was given
  started,  \* families whose login has begun
  rq,       \* rq[w]: the request of worker w
  \* What has happened, for the properties only:
  spent,    \* spent[f]: the tokens of f a refresh has taken out
  ended     \* families that were deleted from Redis

vars == <<now, redis, session, issued, started, rq, spent, ended>>

TokTypeOK ==
  /\ now \in Nat
  /\ redis \in [Families -> SUBSET (0..now)]
  /\ session \in [Families -> [hash : Nat \cup {Keep}, revoked : BOOLEAN]]
  /\ issued \in [Families -> SUBSET (0..now)]
  /\ started \in SUBSET Families
  /\ rq \in [Workers -> Requests(now)]
  /\ spent \in [Families -> SUBSET (0..now)]
  /\ ended \in SUBSET Families

Init ==
  /\ now = 0
  /\ redis = [f \in Families |-> {}]
  /\ session = [f \in Families |-> [hash |-> Keep, revoked |-> FALSE]]
  /\ issued = [f \in Families |-> {}]
  /\ started = {}
  /\ rq = [w \in Workers |-> Idle]
  /\ spent = [f \in Families |-> {}]
  /\ ended = {}

Tick ==
  /\ now < MaxTime
  /\ now' = now + 1
  /\ UNCHANGED <<redis, session, issued, started, rq, spent, ended>>

\* The row of f exists and is not revoked (as every query of it asks).
Open(f) == session[f].hash # Keep /\ ~session[f].revoked

At(w, step) == rq[w] # Idle /\ rq[w].step = step

\* The request goes on to step.
Go(w, step) == rq' = [rq EXCEPT ![w].step = step]

-----------------------------------------------------------------------------
(* Login: the session row, the set in Redis, the commit.                   *)

Login(w, f) ==
  /\ rq[w] = Idle
  /\ f \notin started
  /\ started' = started \cup {f}
  /\ rq' = [rq EXCEPT ![w] =
       [step |-> "register", fam |-> f, old |-> now, new |-> now, todo |-> {},
        revoke |-> {}, hash |-> now]]
  /\ UNCHANGED <<now, redis, session, issued, spent, ended>>

Register(w) ==
  /\ At(w, "register")
  /\ redis' = [redis EXCEPT ![rq[w].fam] = @ \cup {rq[w].new}]
  /\ Go(w, "commit")
  /\ UNCHANGED <<now, session, issued, started, spent, ended>>

-----------------------------------------------------------------------------
(* Refresh.                                                                *)

\* Faulty: the token carries the second after its issue.
Present_Ahead(w, f, t) ==
  /\ rq[w] = Idle
  /\ t \in issued[f]
  /\ rq' = [rq EXCEPT ![w] =
       [step |-> "remove", fam |-> f, old |-> t, new |-> now + 1, todo |-> {},
        revoke |-> {}, hash |-> Keep]]
  /\ UNCHANGED <<now, redis, session, issued, started, spent, ended>>

\* The client sends t; the new token is made before the old is looked up.
Present(w, f, t) ==
  /\ rq[w] = Idle
  /\ t \in issued[f]
  /\ rq' = [rq EXCEPT ![w] =
       [step |-> "remove", fam |-> f, old |-> t, new |-> now, todo |-> {},
        revoke |-> {}, hash |-> Keep]]
  /\ UNCHANGED <<now, redis, session, issued, started, spent, ended>>

\* Faulty: the old token is looked up and not taken out.
Remove_Kept(w) ==
  /\ At(w, "remove")
  /\ LET f == rq[w].fam
         t == rq[w].old
     IN  IF t \in redis[f]
           THEN /\ spent' = [spent EXCEPT ![f] = @ \cup {t}]
                /\ Go(w, "add")
           ELSE Go(w, "delete") /\ UNCHANGED spent
  /\ UNCHANGED <<now, redis, session, issued, started, ended>>

Remove(w) ==
  /\ At(w, "remove")
  /\ LET f == rq[w].fam
         t == rq[w].old
     IN  IF t \in redis[f]
           THEN /\ redis' = [redis EXCEPT ![f] = @ \ {t}]
                /\ spent' = [spent EXCEPT ![f] = @ \cup {t}]
                /\ Go(w, "add")
           ELSE Go(w, "delete") /\ UNCHANGED <<redis, spent>>
  /\ UNCHANGED <<now, session, issued, started, ended>>

\* Reuse.  The handler goes on to revoke the session rows, and reports the
\* reuse by an exception, which rolls that back: the request ends here.
Delete(w) ==
  /\ At(w, "delete")
  /\ redis' = [redis EXCEPT ![rq[w].fam] = {}]
  /\ ended' = ended \cup {rq[w].fam}
  /\ rq' = [rq EXCEPT ![w] = Idle]
  /\ UNCHANGED <<now, session, issued, started, spent>>

\* Faulty: the old token is good for one more use.
Add_Grace(w) ==
  /\ At(w, "add")
  /\ redis' = [redis EXCEPT ![rq[w].fam] = @ \cup {rq[w].old, rq[w].new}]
  /\ Go(w, "rotate")
  /\ UNCHANGED <<now, session, issued, started, spent, ended>>

\* Faulty: the new token is added to a key that exists only.
Add_IfPresent(w) ==
  /\ At(w, "add")
  /\ redis' = [redis EXCEPT ![rq[w].fam] = IF @ = {} THEN @ ELSE @ \cup {rq[w].new}]
  /\ Go(w, "rotate")
  /\ UNCHANGED <<now, session, issued, started, spent, ended>>

Add(w) ==
  /\ At(w, "add")
  /\ redis' = [redis EXCEPT ![rq[w].fam] = @ \cup {rq[w].new}]
  /\ Go(w, "rotate")
  /\ UNCHANGED <<now, session, issued, started, spent, ended>>

\* _rotate_session: a row that does not hold the old hash is left alone.
Rotate(w) ==
  /\ At(w, "rotate")
  /\ LET f == rq[w].fam
         found == Open(f) /\ session[f].hash = rq[w].old
     IN  rq' = [rq EXCEPT ![w].step = "commit",
                          ![w].hash = IF found THEN rq[w].new ELSE Keep]
  /\ UNCHANGED <<now, redis, session, issued, started, spent, ended>>

-----------------------------------------------------------------------------
(* Logout with a token of family f; revocation in the portal.              *)

\* logout deletes in Redis before it reads the row; it takes any token of
\* the family, live or not.
Logout(w, f) ==
  /\ rq[w] = Idle
  /\ issued[f] # {}
  /\ rq' = [rq EXCEPT ![w] =
       [step |-> "drop", fam |-> f, old |-> now, new |-> Keep, todo |-> {f},
        revoke |-> {}, hash |-> Keep]]
  /\ UNCHANGED <<now, redis, session, issued, started, spent, ended>>

\* revoke_session and revoke_all_sessions: of one open session, of all, or
\* of all but the current one.
Revoke(w, F) ==
  /\ rq[w] = Idle
  /\ F # {}
  /\ \A f \in F : Open(f)
  /\ LET f == CHOOSE g \in F : TRUE
     IN  rq' = [rq EXCEPT ![w] =
           [step |-> "drop", fam |-> f, old |-> now, new |-> Keep, todo |-> F,
            revoke |-> F, hash |-> Keep]]
  /\ UNCHANGED <<now, redis, session, issued, started, spent, ended>>

\* TokenFamilyService.revoke_family, for one family after the other.
Drop(w, f) ==
  /\ At(w, "drop")
  /\ f \in rq[w].todo
  /\ redis' = [redis EXCEPT ![f] = {}]
  /\ ended' = ended \cup {f}
  /\ LET left == rq[w].todo \ {f}
     IN  rq' = [rq EXCEPT ![w].todo = left,
                          ![w].step = IF left # {} THEN "drop"
                                      ELSE IF rq[w].revoke = {} THEN "revoke"
                                      ELSE "commit"]
  /\ UNCHANGED <<now, session, issued, started, spent>>

\* _revoke_family_sessions, in a logout.
RevokeRows(w) ==
  /\ At(w, "revoke")
  /\ rq' = [rq EXCEPT ![w].step = "commit",
                      ![w].revoke = {f \in {rq[w].fam} : Open(f)}]
  /\ UNCHANGED <<now, redis, session, issued, started, spent, ended>>

-----------------------------------------------------------------------------
(* The end of a request.                                                   *)

\* Faulty: the row is written as it was read, with revoked_at null.
Commit_WholeRow(w) ==
  /\ At(w, "commit")
  /\ session' = [f \in Families |->
       [hash |-> IF f = rq[w].fam /\ rq[w].hash # Keep THEN rq[w].hash
                                                       ELSE session[f].hash,
        revoked |-> IF f = rq[w].fam /\ rq[w].hash # Keep THEN FALSE
                    ELSE session[f].revoked \/ f \in rq[w].revoke]]
  /\ rq' = [rq EXCEPT ![w] = Idle]
  /\ UNCHANGED <<now, redis, issued, started, spent, ended>>

\* The client has the answer, unless it is lost.  Releases of FastAPI differ
\* in whether it is sent before get_db commits; sent after the commit it does
\* what it does sent just before.
Answer(w) ==
  /\ At(w, "commit")
  /\ rq[w].new # Keep
  /\ issued' = [issued EXCEPT ![rq[w].fam] = @ \cup {rq[w].new}]
  /\ UNCHANGED <<now, redis, session, started, rq, spent, ended>>

Commit(w) ==
  /\ At(w, "commit")
  /\ session' = [f \in Families |->
       [hash |-> IF f = rq[w].fam /\ rq[w].hash # Keep THEN rq[w].hash
                                                       ELSE session[f].hash,
        revoked |-> session[f].revoked \/ f \in rq[w].revoke]]
  /\ rq' = [rq EXCEPT ![w] = Idle]
  /\ UNCHANGED <<now, redis, issued, started, spent, ended>>

\* The request fails: what it did to Redis stays, the transaction does not.
Fail(w) ==
  /\ Faults
  /\ rq[w] # Idle
  /\ rq' = [rq EXCEPT ![w] = Idle]
  /\ UNCHANGED <<now, redis, session, issued, started, spent, ended>>

-----------------------------------------------------------------------------

Serve(w) ==
  \/ \E f \in Families : Login(w, f)
  \/ Register(w)
  \/ \E f \in Families : \E t \in issued[f] : Present(w, f, t)
  \/ Remove(w)
  \/ Delete(w)
  \/ Add(w)
  \/ Rotate(w)
  \/ \E f \in Families : Logout(w, f)
  \/ \E F \in SUBSET Families : Revoke(w, F)
  \/ \E f \in Families : Drop(w, f)
  \/ RevokeRows(w)
  \/ Answer(w)
  \/ Commit(w)
  \/ Fail(w)

Next == Tick \/ \E w \in Workers : Serve(w)

Spec == Init /\ [][Next]_vars

-----------------------------------------------------------------------------
(* However requests overlap, fail, repeat a token or lose their answer:    *)

\* A family never has two live tokens (token_family.py: "On each refresh,
\* the old hash is replaced"), though replacing it takes two calls of Redis
\* that others come between.
OneLiveToken ==
  \A f \in Families : \A t, u \in redis[f] : t = u

\* No live token was issued in an earlier second than a token that a refresh
\* has taken out.  It says nothing of one second: the token taken out may be
\* the one put back.
RotationMovesForward ==
  \A f \in Families : \A t \in redis[f], u \in spent[f] : u <= t

\* A token the client holds and has not used is good until its family is
\* deleted: nobody is told of a reuse who is not part of one.
UnspentIsLive ==
  \A f \in Families \ ended : issued[f] \subseteq redis[f] \cup spent[f]

\* The inductive invariant behind these: what no request has begun is empty;
\* a request about to add a token to a family is the only one, finds the
\* family empty, and brings a token no older than those used up; what a
\* refresh is about to answer with is live or used up already.
Fresh ==
  \A f \in Families \ started :
    /\ redis[f] = {}
    /\ issued[f] = {}
    /\ session[f].hash = Keep
    /\ \A w \in Workers : rq[w] # Idle => rq[w].fam # f

Adding(w) == At(w, "add") \/ At(w, "register")

AddsAlone ==
  \A w \in Workers : Adding(w) =>
    /\ redis[rq[w].fam] = {}
    /\ \A u \in spent[rq[w].fam] : u <= rq[w].new
    /\ \A v \in Workers \ {w} : Adding(v) => rq[v].fam # rq[w].fam

AnswersLive ==
  \A w \in Workers :
    /\ At(w, "remove") => rq[w].old <= rq[w].new
    /\ At(w, "drop") \/ At(w, "revoke") => rq[w].new = Keep
    /\ (At(w, "rotate") \/ At(w, "commit")) /\ rq[w].new # Keep =>
         \/ rq[w].fam \in ended
         \/ rq[w].new \in redis[rq[w].fam] \cup spent[rq[w].fam]

FamilyInv ==
  /\ Fresh
  /\ OneLiveToken
  /\ AddsAlone
  /\ RotationMovesForward
  /\ AnswersLive
  /\ UnspentIsLive

\* A revoked session stays revoked, a refresh of it that overlaps the
\* revocation included: its late write of the row leaves revoked_at alone.
RevokedForGood ==
  [][\A f \in Families : session[f].revoked => session'[f].revoked]_vars

=============================================================================
