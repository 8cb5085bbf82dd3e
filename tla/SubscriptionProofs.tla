-------------------------- MODULE SubscriptionProofs --------------------------
(***************************************************************************)
(* Theorems of SubscriptionLifecycle, for any set of workers, rows, plans  *)
(* and prices, any assignment of the rows to customers, any desks.         *)
(***************************************************************************)
EXTENDS SubscriptionLifecycle, TLAPS

-----------------------------------------------------------------------------
(* What the handlers open.                                                 *)

\* A transaction that has written nothing yet.
LEMMA NoWritesType ==
  NoWrites \in Tx /\ \A s \in Subs : Untouched(NoWrites, s)
BY DEF NoWrites, Tx, Untouched

\* The columns of a transaction.
LEMMA TxType ==
  ASSUME NEW t \in Tx, NEW s \in Subs
  PROVE  /\ t.set[s] \in States \cup {Keep}
         /\ t.plan[s] \in Plans \cup {Keep}
         /\ t.down[s] \in Plans \cup {NoPlan, Keep}
         /\ t.bill[s] \in Nat
         /\ t.delta[s] \in Nat
BY DEF Tx

\* A row is inserted with all its columns, and no other row is touched.
LEMMA InsertWrites ==
  ASSUME NEW s \in Subs, NEW new \in States, NEW p \in Plans
  PROVE  /\ Insert(s, new, p) \in Tx
         /\ WritesOnly(Insert(s, new, p), s, new, p, Keep,
                       IF new = "active" THEN 1 ELSE 0, 0)
BY DEF Insert, NoWrites, Tx, WritesOnly, Untouched

\* The delta invoice is never negative.
LEMMA DeltaType ==
  ASSUME NEW old \in Plans, NEW new \in Plans
  PROVE  Delta(old, new) \in Nat
BY SubscriptionAssumption DEF Delta

\* A change of plan writes the plan column if the plan differs.
LEMMA SetPlanWrites ==
  ASSUME NEW s \in Subs, NEW p \in Plans, NEW d \in Nat
  PROVE  LET t == [SetPlan({s}, p) EXCEPT !.delta[s] = d]
         IN  t \in Tx /\ WritesOnly(t, s, Keep, IF plan[s] = p THEN Keep ELSE p,
                                    Keep, 0, d)
BY DEF SetPlan, NoWrites, Tx, WritesOnly, Untouched

\* A finalisation moves the row to the plan and clears the schedule.
LEMMA FinalizeWrites ==
  ASSUME NEW s \in Subs, NEW p \in Plans
  PROVE  LET t == [SetPlan({s}, p) EXCEPT !.down[s] = NoPlan]
         IN  t \in Tx /\ WritesOnly(t, s, Keep, IF plan[s] = p THEN Keep ELSE p,
                                    NoPlan, 0, 0)
BY DEF SetPlan, NoWrites, Tx, WritesOnly, Untouched

\* Scheduling a downgrade writes the schedule only.
LEMMA ScheduleWrites ==
  ASSUME NEW s \in Subs, NEW p \in Plans
  PROVE  LET t == [NoWrites EXCEPT !.down[s] = p]
         IN  t \in Tx /\ WritesOnly(t, s, Keep, Keep, p, 0, 0)
BY DEF NoWrites, Tx, WritesOnly, Untouched

\* A change of status of one row, with or without its invoice.
LEMMA SetStatusWrites ==
  ASSUME NEW s \in Subs, NEW new \in States, NEW b \in Nat
  PROVE  /\ LET t == [SetStatus({s}, new) EXCEPT !.bill[s] = b]
            IN  t \in Tx /\ WritesOnly(t, s, new, Keep, Keep, b, 0)
         /\ LET t == SetStatus({s}, new)
            IN  t \in Tx /\ WritesOnly(t, s, new, Keep, Keep, 0, 0)
BY DEF SetStatus, NoWrites, Tx, WritesOnly, Untouched

\* A bulk change of status.
LEMMA BulkStatusWrites ==
  ASSUME NEW S \in SUBSET Subs, NEW new \in States
  PROVE  /\ SetStatus(S, new) \in Tx
         /\ \A s \in Subs :
              LET t == SetStatus(S, new)
              IN  /\ s \notin S => Untouched(t, s)
                  /\ t.set[s] \in {new, Keep} /\ t.down[s] = Keep
                  /\ t.bill[s] = 0 /\ t.delta[s] = 0
BY DEF SetStatus, NoWrites, Tx, Untouched

\* A bulk change of plan.
LEMMA BulkPlanWrites ==
  ASSUME NEW S \in SUBSET Subs, NEW p \in Plans, NEW t, t = SetPlan(S, p)
  PROVE  /\ t \in Tx
         /\ \A s \in Subs :
              /\ s \notin S => Untouched(t, s)
              /\ t.set[s] \in {"active", "closed", Keep} /\ t.down[s] = Keep
              /\ t.bill[s] = 0 /\ t.delta[s] = 0
BY DEF SetPlan, NoWrites, Tx, Untouched

\* A transaction that a handler opens is one of the seven kinds, on the rows
\* as they are; a row that does not exist is written to by its only insertion.
Opens(w, t) ==
  /\ Begin(w, t)
  /\ UpToDate(t)
  /\ \A s \in Subs : status[s] = "none" /\ ~Untouched(t, s) =>
       NewRow(t, s) /\ ~Inserting(s)

\* An insertion, the portal's or the staff's.
LEMMA InsertOpens ==
  ASSUME SubTypeOK, NEW w \in Workers, NEW s \in Subs, NEW p \in Plans,
         NEW new \in {"draft", "active"},
         new = "active" => ~HasSubscription(Owner[s]),
         Fresh(s), Begin(w, Insert(s, new, p))
  PROVE  \E t \in Tx : Opens(w, t)
<1> DEFINE t == Insert(s, new, p)
<1>1. /\ t \in Tx
      /\ WritesOnly(t, s, new, p, Keep, IF new = "active" THEN 1 ELSE 0, 0)
  BY InsertWrites DEF States
<1>2. Begin(w, t)
  OBVIOUS
<1> HIDE DEF t
<1>3. status[s] = "none" /\ ~Inserting(s)
  BY SubscriptionAssumption DEF Fresh
<1>4. Inserts(t, s)
  BY <1>1, <1>3 DEF Inserts
<1>5. NewRow(t, s) /\ \A r \in Subs : ~Untouched(t, r) => r = s
  BY <1>1 DEF WritesOnly, NewRow
<1> QED
  BY <1>1, <1>2, <1>3, <1>4, <1>5 DEF Opens, UpToDate

\* A transaction on one row that exists.
LEMMA RowOpens ==
  ASSUME NEW w \in Workers, NEW s \in Subs, status[s] # "none", NEW t \in Tx,
         \A r \in Subs \ {s} : Untouched(t, r),
         \/ Upgrades(t, s) \/ Schedules(t, s) \/ Finalizes(t, s)
         \/ Activates(t, s) \/ Closes(t, s),
         Begin(w, t)
  PROVE  Opens(w, t)
BY DEF Opens, UpToDate

\* An upgrade, when the new plan is dearer.
LEMMA UpgradeOpens ==
  ASSUME SubTypeOK, NEW w \in Workers, NEW s \in Subs, NEW p \in Plans,
         Price[p] > Price[plan[s]], Upgrade(w, s, p)
  PROVE  \E t \in Tx : Opens(w, t)
<1> DEFINE t == [SetPlan({s}, p) EXCEPT !.delta[s] = Delta(plan[s], p)]
<1>1. status[s] = "active" /\ plan[s] # p /\ plan[s] \in Plans /\ Begin(w, t)
  BY DEF Upgrade, SubTypeOK
<1>2. t \in Tx /\ WritesOnly(t, s, Keep, p, Keep, 0, Delta(plan[s], p))
  BY <1>1, SetPlanWrites, DeltaType
<1> HIDE DEF t
<1>3. Upgrades(t, s) /\ \A r \in Subs \ {s} : Untouched(t, r)
  BY <1>1, <1>2 DEF Upgrades, WritesOnly
<1> QED
  BY <1>1, <1>2, <1>3, RowOpens

\* A scheduled downgrade, when the new plan is not dearer.
LEMMA ScheduleOpens ==
  ASSUME SubTypeOK, NEW w \in Workers, NEW s \in Subs, NEW p \in Plans,
         ~(Price[p] > Price[plan[s]]), ScheduleDowngrade(w, s, p)
  PROVE  \E t \in Tx : Opens(w, t)
<1> DEFINE t == [NoWrites EXCEPT !.down[s] = p]
<1>1. /\ status[s] = "active" /\ plan[s] # p /\ plan[s] \in Plans
      /\ Begin(w, t)
  BY DEF ScheduleDowngrade, SubTypeOK
<1>2. t \in Tx /\ WritesOnly(t, s, Keep, Keep, p, 0, 0)
  BY ScheduleWrites
<1> HIDE DEF t
<1>3. Price[p] <= Price[plan[s]]
  BY <1>1, SubscriptionAssumption
<1>4. Schedules(t, s) /\ \A r \in Subs \ {s} : Untouched(t, r)
  BY <1>1, <1>2, <1>3 DEF Schedules, WritesOnly
<1> QED
  BY <1>1, <1>2, <1>4, RowOpens

\* Closing an active row that may be closed, by the staff or the portal.
LEMMA CloseOpens ==
  ASSUME NEW w \in Workers, NEW s \in Subs, Allowed(status[s], "closed"),
         plan[s] \in Closable, Begin(w, SetStatus({s}, "closed"))
  PROVE  \E t \in Tx : Opens(w, t)
<1> DEFINE t == SetStatus({s}, "closed")
<1>1. status[s] = "active" /\ Begin(w, t)
  BY DEF Allowed, Transitions
<1>2. t \in Tx /\ WritesOnly(t, s, "closed", Keep, Keep, 0, 0)
  BY SetStatusWrites DEF States
<1> HIDE DEF t
<1>3. Closes(t, s) /\ \A r \in Subs \ {s} : Untouched(t, r)
  BY <1>1, <1>2 DEF Closes, WritesOnly
<1> QED
  BY <1>1, <1>2, <1>3, RowOpens

\* Activation, one step of the status machine at a time.
LEMMA ActivateOpens ==
  ASSUME NEW w \in Workers, NEW s \in Subs, Activate(w, s)
  PROVE  \E t \in Tx : Opens(w, t)
<1> DEFINE target == Toward[status[s]]
           b == IF target = "active" THEN 1 ELSE 0
           t == [SetStatus({s}, target) EXCEPT !.bill[s] = b]
<1>1. /\ status[s] \in {"draft", "quotation", "confirmed"}
      /\ Begin(w, t)
  BY DEF Activate, Toward
<1>2. /\ target \in States
      /\ b = IF status[s] = "confirmed" THEN 1 ELSE 0
  BY <1>1 DEF Toward, States
<1>3. t \in Tx /\ WritesOnly(t, s, target, Keep, Keep, b, 0)
  BY <1>2, SetStatusWrites
<1> HIDE DEF t
<1>4. Activates(t, s) /\ \A r \in Subs \ {s} : Untouched(t, r)
  BY <1>1, <1>2, <1>3 DEF Activates, WritesOnly
<1> QED
  BY <1>1, <1>3, <1>4, RowOpens

\* Putting a scheduled downgrade into effect.
LEMMA FinalizeOpens ==
  ASSUME SubTypeOK, InsertInv, NEW w \in Workers, NEW s \in Subs,
         Finalize(w, s)
  PROVE  \E t \in Tx : Opens(w, t)
<1> DEFINE t == [SetPlan({s}, downTo[s]) EXCEPT !.down[s] = NoPlan]
<1>1. downTo[s] # NoPlan /\ downTo[s] \in Plans /\ Begin(w, t)
  BY DEF Finalize, SubTypeOK
<1>2. /\ t \in Tx
      /\ WritesOnly(t, s, Keep, IF plan[s] = downTo[s] THEN Keep ELSE downTo[s],
                    NoPlan, 0, 0)
  BY <1>1, FinalizeWrites
<1> HIDE DEF t
<1>3. Finalizes(t, s) /\ \A r \in Subs \ {s} : Untouched(t, r)
  BY <1>1, <1>2 DEF Finalizes, WritesOnly
<1>4. status[s] # "none"
  BY <1>1 DEF InsertInv
<1> QED
  BY <1>1, <1>2, <1>3, <1>4, RowOpens

\* A bulk operation.
LEMMA BulkOpens ==
  ASSUME SubTypeOK, NEW w \in Workers, Bulk(w)
  PROVE  \E t \in Tx : Opens(w, t)
<1> USE SubscriptionAssumption
<1>1. ASSUME NEW S \in SUBSET Selectable, NEW t \in Tx, Begin(w, t),
             \A s \in S : status[s] \notin {"none", "closed"},
             \A s \in Subs :
               /\ s \notin S => Untouched(t, s)
               /\ t.set[s] \in {"active", "closed", Keep} /\ t.down[s] = Keep
               /\ t.bill[s] = 0 /\ t.delta[s] = 0
      PROVE  Opens(w, t)
  <2>1. Selects(t)
    BY <1>1 DEF Selects
  <2>2. \A s \in Subs : status[s] = "none" => Untouched(t, s)
    BY <1>1
  <2> QED
    BY <1>1, <2>1, <2>2 DEF Opens, UpToDate
<1>2. ASSUME NEW S \in SUBSET Selectable, BulkActivate(w, S)
      PROVE  \E t \in Tx : Opens(w, t)
  <2> DEFINE R == {s \in S : status[s] \in {"confirmed", "paused"}}
             t == SetStatus(R, "active")
  <2>1. R \in SUBSET Selectable /\ R \in SUBSET Subs /\ Begin(w, t)
    BY <1>2 DEF BulkActivate
  <2>2. \A s \in R : status[s] \notin {"none", "closed"}
    OBVIOUS
  <2> HIDE DEF R
  <2>3. t \in Tx /\ \A s \in Subs :
          /\ s \notin R => Untouched(t, s)
          /\ t.set[s] \in {"active", "closed", Keep} /\ t.down[s] = Keep
          /\ t.bill[s] = 0 /\ t.delta[s] = 0
    BY <2>1, BulkStatusWrites DEF States
  <2> HIDE DEF t
  <2>4. Opens(w, t)
    BY <1>1, <2>1, <2>2, <2>3
  <2> QED
    BY <2>3, <2>4
<1>3. ASSUME NEW S \in SUBSET Selectable, BulkClose(w, S)
      PROVE  \E t \in Tx : Opens(w, t)
  <2> DEFINE R == {s \in S : status[s] \notin {"none", "closed", "draft"}}
             t == SetStatus(R, "closed")
  <2>1. R \in SUBSET Selectable /\ R \in SUBSET Subs /\ Begin(w, t)
    BY <1>3 DEF BulkClose
  <2>2. \A s \in R : status[s] \notin {"none", "closed"}
    OBVIOUS
  <2> HIDE DEF R
  <2>3. t \in Tx /\ \A s \in Subs :
          /\ s \notin R => Untouched(t, s)
          /\ t.set[s] \in {"active", "closed", Keep} /\ t.down[s] = Keep
          /\ t.bill[s] = 0 /\ t.delta[s] = 0
    BY <2>1, BulkStatusWrites DEF States
  <2> HIDE DEF t
  <2>4. Opens(w, t)
    BY <1>1, <2>1, <2>2, <2>3
  <2> QED
    BY <2>3, <2>4
<1>4. ASSUME NEW S \in SUBSET Selectable, NEW p \in Plans,
             BulkChangePlan(w, S, p)
      PROVE  \E t \in Tx : Opens(w, t)
  <2> DEFINE R == {s \in S : status[s] \notin {"none", "closed"}}
             t == SetPlan(R, p)
  <2>1. R \in SUBSET Selectable /\ R \in SUBSET Subs /\ Begin(w, t)
    BY <1>4 DEF BulkChangePlan
  <2>2. \A s \in R : status[s] \notin {"none", "closed"}
    OBVIOUS
  <2> HIDE DEF R
  <2>3. t \in Tx /\ \A s \in Subs :
          /\ s \notin R => Untouched(t, s)
          /\ t.set[s] \in {"active", "closed", Keep} /\ t.down[s] = Keep
          /\ t.bill[s] = 0 /\ t.delta[s] = 0
    <3>1. t = SetPlan(R, p)
      OBVIOUS
    <3> HIDE DEF t
    <3> QED
      BY <2>1, <3>1, BulkPlanWrites
  <2> HIDE DEF t
  <2>4. Opens(w, t)
    BY <1>1, <2>1, <2>2, <2>3
  <2> QED
    BY <2>3, <2>4
<1> QED
  BY <1>2, <1>3, <1>4 DEF Bulk

\* Every request opens a transaction of one of these kinds, commits the one
\* it has open, or loses it.
LEMMA RequestOpens ==
  ASSUME SubTypeOK, InsertInv, NEW w \in Workers, Request(w)
  PROVE  CommitSub(w) \/ RollbackSub(w) \/ \E t \in Tx : Opens(w, t)
<1>1. ASSUME NEW s \in Subs, NEW p \in Plans, Create(w, s, p)
      PROVE  \E t \in Tx : Opens(w, t)
  BY <1>1, InsertOpens DEF Create
<1>2. ASSUME NEW s \in Subs, NEW p \in Plans, PortalCreate(w, s, p)
      PROVE  \E t \in Tx : Opens(w, t)
  BY <1>2, InsertOpens DEF PortalCreate
<1>3. ASSUME NEW c \in Customers, NEW p \in Plans, PortalChangePlan(w, c, p)
      PROVE  \E t \in Tx : Opens(w, t)
  <2>1. PICK s \in Subs : IF Price[p] > Price[plan[s]]
                            THEN Upgrade(w, s, p)
                            ELSE ScheduleDowngrade(w, s, p)
    BY <1>3 DEF PortalChangePlan, Own
  <2> QED
    BY <2>1, UpgradeOpens, ScheduleOpens
<1>4. ASSUME NEW c \in Customers, PortalCancel(w, c)
      PROVE  \E t \in Tx : Opens(w, t)
  BY <1>4, CloseOpens DEF PortalCancel, Own
<1>5. ASSUME NEW s \in Subs, Close(w, s)
      PROVE  \E t \in Tx : Opens(w, t)
  BY <1>5, CloseOpens DEF Close
<1> QED
  BY <1>1, <1>2, <1>3, <1>4, <1>5, ActivateOpens, FinalizeOpens, BulkOpens
     DEF Request, Staff, Portal
-----------------------------------------------------------------------------
(* Type correctness.                                                       *)

\* What a commit does, row by row and worker by worker.
LEMMA CommitSubWrites ==
  ASSUME SubTypeOK, NEW w \in Workers, CommitSub(w)
  PROVE  /\ stx[w] \in Tx /\ stx[w] # NoTx
         /\ \A s \in Subs :
              /\ status'[s] = Written(status[s], stx[w].set[s])
              /\ plan'[s] = Written(plan[s], stx[w].plan[s])
              /\ downTo'[s] = Written(downTo[s], stx[w].down[s])
              /\ first'[s] = IF status[s] = "none"
                               THEN Written(first[s], stx[w].plan[s])
                               ELSE first[s]
              /\ bills'[s] = bills[s] + stx[w].bill[s]
              /\ deltas'[s] = deltas[s] + stx[w].delta[s]
         /\ \A v \in Workers : stx'[v] = IF v = w THEN NoTx ELSE stx[v]
BY DEF CommitSub, SubTypeOK

\* A step that replaces the open transaction of one worker keeps the rows.
LEMMA WriteKeepsInsertInv ==
  ASSUME SubTypeOK, InsertInv, NEW w \in Workers, NEW t \in Tx \cup {NoTx},
         stx' = [stx EXCEPT ![w] = t], UNCHANGED rows,
         \A s \in Subs : status[s] = "none" /\ t # NoTx /\ ~Untouched(t, s) =>
           /\ NewRow(t, s)
           /\ \A v \in Workers \ {w} : stx[v] # NoTx => Untouched(stx[v], s)
  PROVE  SubTypeOK' /\ InsertInv'
<1>1. SubTypeOK'
  BY DEF SubTypeOK, rows
<1>2. \A v \in Workers : stx'[v] = IF v = w THEN t ELSE stx[v]
  BY DEF SubTypeOK
<1>3. ASSUME NEW s \in Subs, status'[s] = "none", NEW v \in Workers,
             stx'[v] # NoTx, ~Untouched(stx'[v], s)
      PROVE  /\ NewRow(stx'[v], s)
             /\ \A u \in Workers \ {v} : stx'[u] # NoTx => Untouched(stx'[u], s)
  <2>1. status[s] = "none"
    BY <1>3 DEF rows
  <2>2. CASE v = w
    BY <1>2, <1>3, <2>1, <2>2
  <2>3. CASE v # w
    <3>1. /\ NewRow(stx[v], s)
          /\ \A u \in Workers \ {v} : stx[u] # NoTx => Untouched(stx[u], s)
      BY <1>2, <1>3, <2>1, <2>3 DEF InsertInv
    <3>2. t # NoTx => Untouched(t, s)
      BY <1>2, <1>3, <2>1, <2>3
    <3> QED
      BY <1>2, <2>3, <3>1, <3>2
  <2> QED
    BY <2>2, <2>3
<1>4. \A s \in Subs : status'[s] = "none" =>
        /\ plan'[s] = NoPlan /\ downTo'[s] = NoPlan /\ first'[s] = NoPlan
        /\ bills'[s] = 0 /\ deltas'[s] = 0
  BY DEF InsertInv, rows
<1>5. InsertInv'
  BY <1>3, <1>4 DEF InsertInv, Untouched, NewRow
<1> QED
  BY <1>1, <1>5

\* A commit fills all the columns of the row it inserts, and none of any
\* other row that does not exist.
LEMMA CommitKeepsInsertInv ==
  ASSUME SubTypeOK, InsertInv, NEW w \in Workers, CommitSub(w)
  PROVE  /\ SubTypeOK' /\ InsertInv'
         /\ \A s \in Subs :
              /\ status[s] # "none" => status'[s] # "none"
              /\ status[s] = "none" /\ status'[s] # "none" => NewRow(stx[w], s)
              /\ status'[s] = "none" => Untouched(stx[w], s)
<1> USE SubscriptionAssumption
<1> DEFINE t == stx[w]
<1>1. /\ t \in Tx /\ t # NoTx
      /\ \A s \in Subs :
           /\ status'[s] = Written(status[s], t.set[s])
           /\ plan'[s] = Written(plan[s], t.plan[s])
           /\ downTo'[s] = Written(downTo[s], t.down[s])
           /\ first'[s] = IF status[s] = "none"
                            THEN Written(first[s], t.plan[s]) ELSE first[s]
           /\ bills'[s] = bills[s] + t.bill[s]
           /\ deltas'[s] = deltas[s] + t.delta[s]
      /\ \A v \in Workers : stx'[v] = IF v = w THEN NoTx ELSE stx[v]
  BY CommitSubWrites
<1>2. \A s \in Subs :
        /\ t.set[s] \in States \cup {Keep}
        /\ t.plan[s] \in Plans \cup {Keep}
        /\ t.down[s] \in Plans \cup {NoPlan, Keep}
        /\ t.bill[s] \in Nat
        /\ t.delta[s] \in Nat
  BY <1>1, TxType
<1>3. \A s \in Subs : status[s] = "none" => Untouched(t, s) \/ NewRow(t, s)
  BY <1>1 DEF InsertInv
<1>4. ASSUME NEW s \in Subs, status'[s] = "none"
      PROVE  /\ status[s] = "none" /\ Untouched(t, s)
             /\ plan'[s] = NoPlan /\ downTo'[s] = NoPlan /\ first'[s] = NoPlan
             /\ bills'[s] = 0 /\ deltas'[s] = 0
  <2>1. status[s] = "none" /\ t.set[s] = Keep
    BY <1>1, <1>2, <1>4 DEF Written, States
  <2>2. Untouched(t, s)
    BY <1>3, <2>1 DEF NewRow, States
  <2>3. /\ plan[s] = NoPlan /\ downTo[s] = NoPlan /\ first[s] = NoPlan
        /\ bills[s] = 0 /\ deltas[s] = 0
    BY <2>1 DEF InsertInv
  <2> QED
    BY <1>1, <2>1, <2>2, <2>3 DEF Untouched, Written
<1>5. ASSUME NEW s \in Subs, status'[s] # "none"
      PROVE  plan'[s] \in Plans /\ first'[s] \in Plans
  <2>1. CASE status[s] = "none"
    <3>1. NewRow(t, s)
      BY <1>1, <1>3, <1>5, <2>1 DEF Untouched, Written
    <3> QED
      BY <1>1, <2>1, <3>1 DEF NewRow, Written
  <2>2. CASE status[s] # "none"
    <3>1. plan[s] \in Plans /\ first[s] \in Plans
      BY <2>2 DEF SubTypeOK
    <3> QED
      BY <1>1, <1>2, <2>2, <3>1 DEF Written
  <2> QED
    BY <2>1, <2>2
<1>6. SubTypeOK'
  <2>1. ASSUME NEW s \in Subs
        PROVE  /\ Written(status[s], t.set[s]) \in States \cup {"none"}
               /\ Written(plan[s], t.plan[s]) \in Plans \cup {NoPlan}
               /\ Written(downTo[s], t.down[s]) \in Plans \cup {NoPlan}
               /\ Written(first[s], t.plan[s]) \in Plans \cup {NoPlan}
               /\ first[s] \in Plans \cup {NoPlan}
               /\ bills[s] + t.bill[s] \in Nat
               /\ deltas[s] + t.delta[s] \in Nat
    <3>1. /\ status[s] \in States \cup {"none"}
          /\ plan[s] \in Plans \cup {NoPlan}
          /\ downTo[s] \in Plans \cup {NoPlan}
          /\ first[s] \in Plans \cup {NoPlan}
          /\ bills[s] \in Nat /\ deltas[s] \in Nat
      BY DEF SubTypeOK
    <3> HIDE DEF t
    <3> QED
      BY <1>2, <3>1 DEF Written
  <2>2. stx' \in [Workers -> Tx \cup {NoTx}]
    BY DEF CommitSub, SubTypeOK
  <2> QED
    BY <1>5, <2>1, <2>2 DEF CommitSub, SubTypeOK
<1>7. ASSUME NEW s \in Subs, status'[s] = "none", NEW v \in Workers,
             stx'[v] # NoTx, ~Untouched(stx'[v], s)
      PROVE  /\ NewRow(stx'[v], s)
             /\ \A u \in Workers \ {v} : stx'[u] # NoTx => Untouched(stx'[u], s)
  BY <1>1, <1>4, <1>7 DEF InsertInv
<1>8. InsertInv'
  BY <1>4, <1>7 DEF InsertInv, Untouched, NewRow
<1>9. \A s \in Subs : /\ status[s] # "none" => status'[s] # "none"
                      /\ status[s] = "none" /\ status'[s] # "none" => NewRow(t, s)
  BY <1>1, <1>3, <1>4 DEF Untouched, Written
<1> QED
  BY <1>4, <1>6, <1>8, <1>9

\* What a request opens keeps the invariant.
LEMMA OpenKeepsInsertInv ==
  ASSUME SubTypeOK, InsertInv, NEW w \in Workers, NEW t \in Tx, Opens(w, t)
  PROVE  SubTypeOK' /\ InsertInv'
<1>1. ASSUME NEW s \in Subs, status[s] = "none", ~Untouched(t, s),
             NEW v \in Workers, stx[v] # NoTx
      PROVE  Untouched(stx[v], s)
  <2>1. stx[v].set[s] = Keep
    BY <1>1 DEF Opens, Inserting
  <2>2. ~NewRow(stx[v], s)
    BY <2>1, SubscriptionAssumption DEF NewRow, States
  <2> QED
    BY <1>1, <2>2 DEF InsertInv
<1> QED
  BY <1>1, WriteKeepsInsertInv DEF Opens, Begin

\* A rollback keeps it too.
LEMMA RollbackKeepsInsertInv ==
  ASSUME SubTypeOK, InsertInv, NEW w \in Workers, RollbackSub(w)
  PROVE  SubTypeOK' /\ InsertInv'
BY WriteKeepsInsertInv DEF RollbackSub

\* One step of one request.
LEMMA RequestKeepsInsertInv ==
  ASSUME SubTypeOK, InsertInv, NEW w \in Workers, Request(w)
  PROVE  SubTypeOK' /\ InsertInv'
BY RequestOpens, CommitKeepsInsertInv, OpenKeepsInsertInv,
   RollbackKeepsInsertInv

\* The tables are empty at first.
LEMMA InsertInvInit == SubInit => SubTypeOK /\ InsertInv
BY DEF SubInit, SubTypeOK, InsertInv

\* InsertInv is inductive.
LEMMA InsertInvStep ==
  ASSUME SubTypeOK, InsertInv, [SubNext]_subVars
  PROVE  SubTypeOK' /\ InsertInv'
<1>1. CASE UNCHANGED subVars
  BY <1>1 DEF subVars, SubTypeOK, InsertInv
<1> QED
  BY <1>1, RequestKeepsInsertInv DEF SubNext

\* Every row, inserted by whichever desk and in whichever interleaving, has
\* a plan and a status of the model's type, and so has every transaction.
THEOREM SubTypeCorrect == SubSpec => []SubTypeOK
<1> QED
  BY InsertInvInit, InsertInvStep, PTL DEF SubSpec

\* No row is half inserted, or inserted twice.
THEOREM RowsAppearOnce == SubSpec => []InsertInv
<1> QED
  BY InsertInvInit, InsertInvStep, PTL DEF SubSpec

-----------------------------------------------------------------------------
(* Requests overlap.                                                       *)

\* A row a transaction leaves alone is charged and billed for.
LEMMA UntouchedIsHarmless ==
  ASSUME NEW t, NEW s \in Subs, Untouched(t, s)
  PROVE  ChargedFor(t, s) /\ BilledFor(t, s)
BY SubscriptionAssumption DEF Untouched, ChargedFor, BilledFor, States

\* What was charged for a row that exists is a number.
LEMMA ChargedType ==
  ASSUME SubTypeOK, NEW s \in Subs, status[s] # "none"
  PROVE  Charged(s) \in Nat
BY SubscriptionAssumption DEF Charged, SubTypeOK

\* Of the rows the bulk operations leave alone a transaction writes to one.
LEMMA UpToDateRow ==
  ASSUME NEW t, UpToDate(t), NEW s \in Unselected
  PROVE  \/ Untouched(t, s)
         \/ /\ \A r \in Subs \ {s} : Untouched(t, r)
            /\ \/ Inserts(t, s) \/ Upgrades(t, s) \/ Schedules(t, s)
               \/ Finalizes(t, s) \/ Activates(t, s) \/ Closes(t, s)
<1>1. s \in Subs /\ s \notin Selectable
  BY DEF Unselected
<1>2. Selects(t) => Untouched(t, s)
  BY <1>1 DEF Selects
<1>3. ASSUME NEW r \in Subs,
             \/ Inserts(t, r) \/ Upgrades(t, r) \/ Schedules(t, r)
             \/ Finalizes(t, r) \/ Activates(t, r) \/ Closes(t, r)
      PROVE  \A u \in Subs \ {r} : Untouched(t, u)
  BY <1>3 DEF Inserts, Upgrades, Schedules, Finalizes, Activates, Closes,
              WritesOnly
<1> QED
  BY <1>1, <1>2, <1>3 DEF UpToDate

\* What a handler opens is charged and billed for, on the rows it has read.
LEMMA UpToDateIsCharged ==
  ASSUME SubTypeOK, PlanIsCharged,
         NEW t \in Tx, UpToDate(t),
         NEW s \in Unselected, status[s] # "none"
  PROVE  ChargedFor(t, s) /\ (ActiveIsBilled => BilledFor(t, s))
<1> USE SubscriptionAssumption
<1>1. /\ s \in Subs /\ Charged(s) \in Nat /\ plan[s] \in Plans
      /\ Price[plan[s]] \in Nat /\ Price[plan[s]] <= Charged(s)
      /\ downTo[s] # NoPlan => Price[downTo[s]] <= Charged(s)
      /\ ActiveIsBilled => (status[s] = "active" => bills[s] >= 1)
      /\ downTo[s] \in Plans \cup {NoPlan}
  BY ChargedType DEF Unselected, SubTypeOK, PlanIsCharged, ActiveIsBilled
<1>2. CASE Untouched(t, s)
  BY <1>1, <1>2, UntouchedIsHarmless
<1>3. CASE Upgrades(t, s)
  <2>1. PICK p \in Plans : /\ Price[p] > Price[plan[s]]
                           /\ WritesOnly(t, s, Keep, p, Keep, 0, Delta(plan[s], p))
    BY <1>3 DEF Upgrades
  <2>2. /\ t.plan[s] = p /\ t.down[s] = Keep /\ t.set[s] = Keep
        /\ t.delta[s] = Price[p] - Price[plan[s]] /\ Price[p] \in Nat
    BY <2>1 DEF WritesOnly, Delta
  <2> QED
    BY <1>1, <2>2 DEF ChargedFor, BilledFor, States
<1>4. CASE Schedules(t, s)
  <2>1. PICK p \in Plans : /\ Price[p] <= Price[plan[s]]
                           /\ WritesOnly(t, s, Keep, Keep, p, 0, 0)
    BY <1>4 DEF Schedules
  <2>2. /\ t.plan[s] = Keep /\ t.down[s] = p /\ t.set[s] = Keep
        /\ Price[p] \in Nat
    BY <2>1 DEF WritesOnly
  <2> QED
    BY <1>1, <2>1, <2>2 DEF ChargedFor, BilledFor, States
<1>5. CASE Finalizes(t, s)
  <2>1. /\ downTo[s] # NoPlan /\ t.set[s] = Keep /\ t.down[s] = NoPlan
        /\ t.plan[s] \in {Keep, downTo[s]} /\ t.delta[s] = 0
    BY <1>5 DEF Finalizes, WritesOnly
  <2> QED
    BY <1>1, <2>1 DEF ChargedFor, BilledFor, States
<1>6. CASE Activates(t, s)
  <2>1. /\ t.plan[s] = Keep /\ t.down[s] = Keep /\ t.set[s] # "closed"
        /\ t.set[s] = "active" => t.bill[s] = 1
    BY <1>6 DEF Activates, WritesOnly, Toward
  <2> QED
    BY <1>1, <2>1 DEF ChargedFor, BilledFor, States
<1>7. CASE Closes(t, s)
  <2>1. /\ t.plan[s] = Keep /\ t.down[s] = Keep /\ t.set[s] = "closed"
        /\ status[s] = "active"
    BY <1>7 DEF Closes, WritesOnly
  <2> QED
    BY <1>1, <2>1 DEF ChargedFor, BilledFor, States
<1>8. ~Inserts(t, s)
  BY DEF Inserts
<1> QED
  BY <1>2, <1>3, <1>4, <1>5, <1>6, <1>7, <1>8, UpToDateRow

\* Opening a transaction keeps both invariants.
LEMMA OpenIsCharged ==
  ASSUME SubTypeOK, ChargeInv, NEW w \in Workers, NEW t \in Tx \cup {NoTx},
         t # NoTx => UpToDate(t), stx' = [stx EXCEPT ![w] = t], UNCHANGED rows
  PROVE  ChargeInv' /\ (BillInv => BillInv')
<1>1. \A v \in Workers : stx'[v] = IF v = w THEN t ELSE stx[v]
  BY DEF SubTypeOK
<1>2. PlanIsCharged' /\ (BillInv => ActiveIsBilled')
  BY DEF ChargeInv, BillInv, PlanIsCharged, ActiveIsBilled, Charged, rows
<1>3. ASSUME NEW s \in Unselected, status[s] # "none", NEW v \in Workers,
             stx'[v] # NoTx
      PROVE  ChargedFor(stx'[v], s) /\ (BillInv => BilledFor(stx'[v], s))
  <2>1. CASE v = w
    BY <1>1, <1>3, <2>1, UpToDateIsCharged DEF ChargeInv, BillInv
  <2>2. CASE v # w
    BY <1>1, <1>3, <2>2 DEF ChargeInv, BillInv
  <2> QED
    BY <2>1, <2>2
<1> QED
  BY <1>2, <1>3 DEF ChargeInv, BillInv, ChargedFor, BilledFor, Charged, rows

\* A commit keeps ChargeInv, and BillInv as well: of the other transactions of
\* the row it only raises what was charged and the number of invoices.
LEMMA CommitIsCharged ==
  ASSUME SubTypeOK, InsertInv, ChargeInv, NEW w \in Workers, CommitSub(w)
  PROVE  ChargeInv' /\ (BillInv => BillInv')
<1> USE SubscriptionAssumption
<1> DEFINE t == stx[w]
<1>1. /\ t \in Tx /\ t # NoTx
      /\ \A s \in Subs :
           /\ status'[s] = Written(status[s], t.set[s])
           /\ plan'[s] = Written(plan[s], t.plan[s])
           /\ downTo'[s] = Written(downTo[s], t.down[s])
           /\ first'[s] = IF status[s] = "none"
                            THEN Written(first[s], t.plan[s]) ELSE first[s]
           /\ bills'[s] = bills[s] + t.bill[s]
           /\ deltas'[s] = deltas[s] + t.delta[s]
      /\ \A v \in Workers : stx'[v] = IF v = w THEN NoTx ELSE stx[v]
  BY CommitSubWrites
<1>2. \A s \in Subs :
        /\ t.set[s] \in States \cup {Keep}
        /\ t.plan[s] \in Plans \cup {Keep}
        /\ t.down[s] \in Plans \cup {NoPlan, Keep}
        /\ t.bill[s] \in Nat
        /\ t.delta[s] \in Nat
  BY <1>1, TxType
<1>3. ASSUME NEW s \in Unselected, status'[s] # "none"
      PROVE  /\ Price[plan'[s]] <= Charged(s)'
             /\ downTo'[s] # NoPlan => Price[downTo'[s]] <= Charged(s)'
             /\ BillInv => (status'[s] \in {"active", "closed"} => bills'[s] >= 1)
             /\ \A v \in Workers : stx'[v] # NoTx =>
                  ChargedFor(stx[v], s)' /\ (BillInv => BilledFor(stx[v], s)')
  <2>0. s \in Subs
    BY DEF Unselected
  <2>1. CASE status[s] = "none"
    <3>1. NewRow(t, s)
      BY <1>3, <2>0, <2>1, CommitKeepsInsertInv
    <3>2. /\ downTo[s] = NoPlan /\ bills[s] = 0 /\ deltas[s] = 0
      BY <2>0, <2>1 DEF InsertInv
    <3>3. ~Untouched(t, s)
      BY <3>1 DEF NewRow, Untouched, States
    <3>4. \A v \in Workers : stx'[v] # NoTx => Untouched(stx'[v], s)
      BY <1>1, <2>0, <2>1, <3>3 DEF InsertInv
    <3>5. /\ plan'[s] = t.plan[s] /\ first'[s] = t.plan[s]
          /\ t.plan[s] \in Plans
          /\ downTo'[s] = NoPlan /\ deltas'[s] = 0
          /\ status'[s] = "active" => bills'[s] = 1
          /\ status'[s] # "closed"
      BY <1>1, <2>0, <2>1, <3>1, <3>2 DEF NewRow, Written, States
    <3>6. Charged(s)' = Price[t.plan[s]] /\ Price[t.plan[s]] \in Nat
      BY <3>5 DEF Charged
    <3>7. \A v \in Workers : stx'[v] # NoTx =>
            ChargedFor(stx[v], s)' /\ BilledFor(stx[v], s)'
      BY <3>4 DEF Untouched, ChargedFor, BilledFor, States
    <3> QED
      BY <3>5, <3>6, <3>7
  <2>2. CASE status[s] # "none"
    <3>1. /\ Charged(s) \in Nat /\ plan[s] \in Plans
          /\ Price[plan[s]] \in Nat /\ Price[plan[s]] <= Charged(s)
          /\ downTo[s] # NoPlan => Price[downTo[s]] <= Charged(s)
          /\ BillInv => (status[s] \in {"active", "closed"} => bills[s] >= 1)
          /\ bills[s] \in Nat /\ deltas[s] \in Nat
          /\ downTo[s] \in Plans \cup {NoPlan}
      BY <2>0, <2>2, ChargedType
         DEF SubTypeOK, ChargeInv, BillInv, PlanIsCharged, ActiveIsBilled
    <3>2. \A v \in Workers : stx[v] # NoTx =>
            ChargedFor(stx[v], s) /\ (BillInv => BilledFor(stx[v], s))
      BY <2>0, <2>2 DEF ChargeInv, BillInv
    <3>3. Charged(s)' = Charged(s) + t.delta[s]
      BY <1>1, <1>2, <2>0, <2>2, <3>1 DEF Charged, SubTypeOK
    <3>4. ASSUME NEW p \in Plans PROVE Price[p] \in Nat
      OBVIOUS
    <3>5. ChargedFor(t, s) /\ (BillInv => BilledFor(t, s))
      BY <1>1, <3>2
    <3> HIDE DEF t
    <3>6. Price[plan'[s]] <= Charged(s)'
      <4>1. CASE t.plan[s] = Keep
        BY <1>1, <1>2, <2>0, <3>1, <3>3, <4>1 DEF Written
      <4>2. CASE t.plan[s] # Keep
        BY <1>1, <1>2, <2>0, <3>5, <3>3, <4>2 DEF Written, ChargedFor
      <4> QED
        BY <4>1, <4>2
    <3>7. downTo'[s] # NoPlan => Price[downTo'[s]] <= Charged(s)'
      <4>1. CASE t.down[s] = Keep
        BY <1>1, <1>2, <2>0, <3>1, <3>3, <3>4, <4>1 DEF Written
      <4>2. CASE t.down[s] \in Plans
        BY <1>1, <1>2, <2>0, <3>1, <3>5, <3>3, <3>4, <4>2
           DEF Written, ChargedFor
      <4>3. CASE t.down[s] = NoPlan
        BY <1>1, <2>0, <4>3 DEF Written
      <4> QED
        BY <1>2, <2>0, <4>1, <4>2, <4>3
    <3>8. BillInv => (status'[s] \in {"active", "closed"} => bills'[s] >= 1)
      <4>1. CASE t.set[s] = Keep
        BY <1>1, <1>2, <2>0, <3>1, <4>1 DEF Written
      <4>2. CASE t.set[s] # Keep
        BY <1>1, <1>2, <2>0, <3>1, <3>5, <4>2 DEF Written, BilledFor
      <4> QED
        BY <4>1, <4>2
    <3>9. ASSUME NEW v \in Workers, stx'[v] # NoTx
          PROVE  ChargedFor(stx[v], s)' /\ (BillInv => BilledFor(stx[v], s)')
      <4>1. stx'[v] = stx[v] /\ stx[v] # NoTx /\ stx[v] \in Tx
        BY <1>1, <3>9 DEF SubTypeOK
      <4>2. /\ stx[v].plan[s] \in Plans \cup {Keep} /\ stx[v].delta[s] \in Nat
            /\ stx[v].bill[s] \in Nat
        BY <2>0, <4>1, TxType
      <4>3. ChargedFor(stx[v], s) /\ (BillInv => BilledFor(stx[v], s))
        BY <3>2, <4>1
      <4>4. bills'[s] >= bills[s] /\ bills'[s] \in Nat
            /\ Charged(s)' >= Charged(s) /\ Charged(s)' \in Nat
        BY <1>1, <1>2, <2>0, <3>1, <3>3
      <4>5. /\ stx[v].plan[s] # Keep =>
                 Price[stx[v].plan[s]] <= Charged(s)' + stx[v].delta[s]
            /\ stx[v].down[s] \in Plans => Price[stx[v].down[s]] <= Charged(s)'
            /\ BillInv => /\ stx[v].set[s] = "active" => stx[v].bill[s] >= 1
                          /\ stx[v].set[s] = "closed" => bills'[s] >= 1
        BY <3>1, <3>4, <4>2, <4>3, <4>4 DEF ChargedFor, BilledFor
      <4> QED
        BY <4>1, <4>5 DEF ChargedFor, BilledFor
    <3> QED
      BY <3>6, <3>7, <3>8, <3>9
  <2> QED
    BY <2>1, <2>2
<1>4. PlanIsCharged' /\ (BillInv => ActiveIsBilled')
  BY <1>3 DEF PlanIsCharged, ActiveIsBilled
<1> QED
  BY <1>3, <1>4 DEF ChargeInv, BillInv

\* Both invariants are inductive for any number of overlapping requests.
LEMMA ChargeInvStep ==
  ASSUME SubTypeOK, InsertInv, ChargeInv, BillInv, [SubNext]_subVars
  PROVE  ChargeInv' /\ BillInv'
<1>1. CASE UNCHANGED subVars
  BY <1>1 DEF subVars, ChargeInv, BillInv, PlanIsCharged, ActiveIsBilled,
              Charged, ChargedFor, BilledFor
<1>2. ASSUME NEW w \in Workers, NEW t \in Tx, Opens(w, t)
      PROVE  ChargeInv' /\ BillInv'
  BY <1>2, OpenIsCharged DEF Opens, Begin
<1>3. ASSUME NEW w \in Workers, RollbackSub(w)
      PROVE  ChargeInv' /\ BillInv'
  BY <1>3, OpenIsCharged DEF RollbackSub
<1> QED
  BY <1>1, <1>2, <1>3, CommitIsCharged, RequestOpens DEF SubNext

\* There is nothing to charge or to bill for at first.
LEMMA ChargeInvInit == SubInit => ChargeInv /\ BillInv
BY DEF SubInit, ChargeInv, BillInv, PlanIsCharged, ActiveIsBilled, Unselected

\* However many upgrades, downgrades, activations and finalisations overlap,
\* no row that the bulk operations leave alone is on a plan, or scheduled to
\* move to one, dearer than what its customer was charged for.
THEOREM PlansAreCharged == SubSpec => []PlanIsCharged
<1>1. ChargeInv => PlanIsCharged
  BY DEF ChargeInv
<1> QED
  BY <1>1, InsertInvInit, ChargeInvInit, InsertInvStep, ChargeInvStep, PTL
     DEF SubSpec

\* ... and none is active, or was closed, without an invoice.
THEOREM ActiveRowsAreBilled == SubSpec => []ActiveIsBilled
<1>1. BillInv => ActiveIsBilled
  BY DEF BillInv
<1> QED
  BY <1>1, InsertInvInit, ChargeInvInit, InsertInvStep, ChargeInvStep, PTL
     DEF SubSpec

-----------------------------------------------------------------------------
(* One request at a time.                                                  *)

\* An up-to-date transaction and the downgrade schedule it leaves behind.
LEMMA CommitKeepsSchedule ==
  ASSUME SubTypeOK, InsertInv, DowngradeIsCheaper,
         NEW w \in Workers, CommitSub(w), UpToDate(stx[w])
  PROVE  DowngradeIsCheaper'
<1> USE SubscriptionAssumption
<1> DEFINE t == stx[w]
<1> SUFFICES ASSUME NEW s \in Unselected, downTo'[s] # NoPlan
             PROVE  /\ plan'[s] # downTo'[s]
                    /\ Price[downTo'[s]] <= Price[plan'[s]]
  BY DEF DowngradeIsCheaper
<1>1. s \in Subs /\ s \notin Selectable
  BY DEF Unselected
<1>2. /\ plan'[s] = Written(plan[s], t.plan[s])
      /\ downTo'[s] = Written(downTo[s], t.down[s])
      /\ t \in Tx
  BY <1>1, CommitSubWrites
<1>3. downTo[s] # NoPlan =>
        /\ plan[s] # downTo[s] /\ Price[downTo[s]] <= Price[plan[s]]
        /\ plan[s] \in Plans /\ downTo[s] \in Plans
        /\ Price[plan[s]] \in Nat /\ Price[downTo[s]] \in Nat
  BY <1>1 DEF DowngradeIsCheaper, InsertInv, SubTypeOK
<1>4. UpToDate(t)
  OBVIOUS
<1> HIDE DEF t
<1>5. CASE Untouched(t, s)
  BY <1>2, <1>3, <1>5 DEF Untouched, Written
<1>6. CASE Upgrades(t, s)
  <2>1. PICK p \in Plans :
          /\ Price[p] > Price[plan[s]]
          /\ WritesOnly(t, s, Keep, p, Keep, 0, Delta(plan[s], p))
    BY <1>6 DEF Upgrades
  <2>2. t.plan[s] = p /\ t.down[s] = Keep
    BY <2>1 DEF WritesOnly
  <2>3. plan'[s] = p /\ downTo'[s] = downTo[s] /\ downTo[s] # NoPlan
    BY <1>2, <2>2 DEF Written
  <2>4. Price[p] \in Nat
    OBVIOUS
  <2>5. Price[downTo[s]] < Price[p]
    BY <1>3, <2>1, <2>3, <2>4
  <2> QED
    BY <1>3, <2>3, <2>4, <2>5
<1>7. CASE Schedules(t, s)
  <2>1. PICK p \in Plans :
          /\ p # plan[s] /\ Price[p] <= Price[plan[s]]
          /\ WritesOnly(t, s, Keep, Keep, p, 0, 0)
    BY <1>7 DEF Schedules
  <2> QED
    BY <1>2, <2>1 DEF WritesOnly, Written
<1>8. CASE Finalizes(t, s)
  BY <1>2, <1>8 DEF Finalizes, WritesOnly, Written
<1>9. CASE Activates(t, s) \/ Closes(t, s)
  <2>1. t.plan[s] = Keep /\ t.down[s] = Keep
    BY <1>9 DEF Activates, Closes, WritesOnly
  <2> QED
    BY <1>2, <1>3, <2>1 DEF Written
<1>10. CASE Inserts(t, s)
  <2>1. downTo[s] = NoPlan
    BY <1>1, <1>10 DEF Inserts, InsertInv
  <2>2. t.down[s] = Keep
    BY <1>10 DEF Inserts, WritesOnly
  <2> QED
    BY <1>2, <2>1, <2>2 DEF Written
<1> QED
  BY <1>4, <1>5, <1>6, <1>7, <1>8, <1>9, <1>10, UpToDateRow

\* ... and the invoices of the rows that are still on offer.
LEMMA CommitKeepsOffers ==
  ASSUME SubTypeOK, InsertInv, ReadInv, NEW w \in Workers, CommitSub(w),
         NEW s \in Unselected, status'[s] \in {"draft", "quotation", "confirmed"}
  PROVE  bills'[s] = 0
<1> USE SubscriptionAssumption
<1> DEFINE t == stx[w]
<1>1. /\ status'[s] = Written(status[s], t.set[s])
      /\ bills'[s] = bills[s] + t.bill[s]
      /\ t \in Tx /\ UpToDate(t) /\ s \in Subs
  BY CommitSubWrites DEF Unselected, ReadInv
<1>2. /\ status[s] = "none" => bills[s] = 0
      /\ status[s] \in {"draft", "quotation", "confirmed"} => bills[s] = 0
  BY <1>1 DEF InsertInv, ReadInv
<1> HIDE DEF t
<1>3. CASE Untouched(t, s)
  BY <1>1, <1>2, <1>3 DEF Untouched, Written
<1>4. CASE Inserts(t, s)
  <2>1. /\ status[s] = "none" /\ t.set[s] \in {"draft", "active"}
        /\ t.set[s] = "draft" => t.bill[s] = 0
    BY <1>4 DEF Inserts, WritesOnly
  <2> QED
    BY <1>1, <1>2, <2>1 DEF Written, States
<1>5. CASE Activates(t, s)
  <2>1. /\ status[s] \in {"draft", "quotation", "confirmed"}
        /\ t.set[s] = "active" \/ t.bill[s] = 0
    BY <1>5 DEF Activates, WritesOnly, Toward
  <2> QED
    BY <1>1, <1>2, <2>1 DEF Written, States
<1>6. CASE Upgrades(t, s) \/ Schedules(t, s) \/ Finalizes(t, s)
  <2>1. t.set[s] = Keep /\ t.bill[s] = 0
    BY <1>6 DEF Upgrades, Schedules, Finalizes, WritesOnly
  <2> QED
    BY <1>1, <1>2, <2>1 DEF Written
<1>7. CASE Closes(t, s)
  BY <1>1, <1>7 DEF Closes, WritesOnly, Written, States
<1> QED
  BY <1>1, <1>3, <1>4, <1>5, <1>6, <1>7, UpToDateRow

\* With one worker, nothing changes the rows between a read and its commit.
LEMMA ReadInvStep ==
  ASSUME NEW w, Workers = {w}, SubTypeOK, InsertInv, ReadInv,
         DowngradeIsCheaper, [SubNext]_subVars
  PROVE  ReadInv' /\ DowngradeIsCheaper'
<1>1. ASSUME UNCHANGED rows, stx'[w] # NoTx => UpToDate(stx'[w])
      PROVE  ReadInv' /\ DowngradeIsCheaper'
  <2>1. stx'[w] # NoTx => UpToDate(stx[w])'
    <3> DEFINE t == stx'[w]
    <3> HIDE DEF t
    <3>1. t # NoTx => UpToDate(t)
      BY <1>1 DEF t
    <3>2. UNCHANGED rows
      BY <1>1
    <3> QED
      BY <3>1, <3>2 DEF t, rows, UpToDate, Inserts, Upgrades, Schedules,
         Finalizes, Activates, Closes, Selects, WritesOnly, Untouched,
         HasSubscription, Delta, Toward
  <2> QED
    BY <1>1, <2>1 DEF ReadInv, DowngradeIsCheaper, rows
<1>2. CASE UNCHANGED subVars
  <2>1. UNCHANGED rows /\ stx' = stx
    BY <1>2 DEF subVars, rows
  <2> QED
    BY <1>1, <2>1 DEF ReadInv
<1>3. ASSUME NEW t \in Tx, Opens(w, t) PROVE ReadInv' /\ DowngradeIsCheaper'
  <2>1. UNCHANGED rows /\ stx'[w] = t
    BY <1>3 DEF Opens, Begin, SubTypeOK
  <2> QED
    BY <1>1, <1>3, <2>1 DEF Opens
<1>4. CASE RollbackSub(w)
  <2>1. UNCHANGED rows /\ stx'[w] = NoTx
    BY <1>4 DEF RollbackSub, SubTypeOK
  <2> QED
    BY <1>1, <2>1
<1>5. CASE CommitSub(w)
  <2>1. stx'[w] = NoTx
    BY <1>5, CommitSubWrites
  <2>2. UpToDate(stx[w])
    BY <1>5 DEF CommitSub, ReadInv
  <2>3. ReadInv'
    BY <1>5, <2>1, CommitKeepsOffers DEF ReadInv
  <2> QED
    BY <1>5, <2>2, <2>3, CommitKeepsSchedule
<1> QED
  BY <1>2, <1>3, <1>4, <1>5, RequestOpens DEF SubNext

\* No request is open at first.
LEMMA ReadInvInit == SubInit => ReadInv /\ DowngradeIsCheaper
BY DEF SubInit, ReadInv, DowngradeIsCheaper, Unselected

\* The invariant of the theorems below: with one worker, every step but the
\* commit of an up-to-date transaction leaves the rows alone.
SerialSubInv ==
  /\ SubTypeOK /\ InsertInv /\ ChargeInv /\ BillInv
  /\ ReadInv /\ DowngradeIsCheaper

\* With one worker SerialSubInv holds.
LEMMA SerialSubHolds ==
  ASSUME NEW w, Workers = {w}
  PROVE  SubSpec => []SerialSubInv
<1>1. SubInit => SerialSubInv
  BY InsertInvInit, ChargeInvInit, ReadInvInit DEF SerialSubInv
<1>2. SerialSubInv /\ [SubNext]_subVars => SerialSubInv'
  BY InsertInvStep, ChargeInvStep, ReadInvStep DEF SerialSubInv
<1> QED
  BY <1>1, <1>2, PTL DEF SubSpec

\* A step that changes a row commits what its handler would open now.
LEMMA OnlyCommitsWriteRows ==
  ASSUME NEW w, Workers = {w}, SerialSubInv, [SubNext]_subVars
  PROVE  UNCHANGED rows \/ (CommitSub(w) /\ stx[w] \in Tx /\ UpToDate(stx[w]))
<1>1. CASE UNCHANGED subVars
  BY <1>1 DEF subVars, rows
<1>2. CASE CommitSub(w)
  BY <1>2 DEF CommitSub, SerialSubInv, ReadInv, SubTypeOK
<1>3. CASE RollbackSub(w)
  BY <1>3 DEF RollbackSub
<1> QED
  BY <1>1, <1>2, <1>3, RequestOpens DEF SubNext, SerialSubInv, Opens, Begin

\* When requests do not overlap, a scheduled downgrade always leads to
\* another plan that is no dearer, even after the upgrades, finalisations and
\* closures in between.
THEOREM SchedulesAreCheaper ==
  ASSUME NEW w, Workers = {w}
  PROVE  SubSpec => []DowngradeIsCheaper
<1>1. SerialSubInv => DowngradeIsCheaper
  BY DEF SerialSubInv
<1> QED
  BY <1>1, SerialSubHolds, PTL

\* ... the portal never gives a customer a second open subscription,
THEOREM PortalGivesOneSubscription ==
  ASSUME NEW w, Workers = {w}
  PROVE  SubSpec => OneSubscription
<1> USE SubscriptionAssumption
<1>1. SerialSubInv /\ [SubNext]_subVars
        => [\A s \in Subs : status[s] = "none" /\ status'[s] = "active" =>
              \A t \in Subs \ {s} : Owner[t] = Owner[s] =>
                status[t] \in {"none", "closed"}]_subVars
  <2> SUFFICES ASSUME SerialSubInv, [SubNext]_subVars, NEW s \in Subs,
                      status[s] = "none", status'[s] = "active"
               PROVE  ~HasSubscription(Owner[s])
    BY DEF HasSubscription
  <2>1. CommitSub(w) /\ stx[w] \in Tx /\ UpToDate(stx[w])
    BY OnlyCommitsWriteRows DEF rows
  <2> DEFINE t == stx[w]
  <2>2. t.set[s] = "active"
    BY <2>1, CommitSubWrites DEF SerialSubInv, Written
  <2>3. UpToDate(t)
    BY <2>1
  <2> HIDE DEF t
  <2>4. ~Untouched(t, s)
    BY <2>2 DEF Untouched, States
  <2>5. Inserts(t, s)
    <3>1. downTo[s] = NoPlan
      BY DEF SerialSubInv, InsertInv
    <3>2. ~Selects(t)
      BY <2>4 DEF Selects
    <3>3. PICK r \in Subs : \/ Inserts(t, r) \/ Upgrades(t, r) \/ Schedules(t, r)
                            \/ Finalizes(t, r) \/ Activates(t, r) \/ Closes(t, r)
      BY <2>3, <3>2 DEF UpToDate
    <3>4. r = s
      BY <2>4, <3>3 DEF Inserts, Upgrades, Schedules, Finalizes, Activates,
                        Closes, WritesOnly
    <3> QED
      BY <3>1, <3>3, <3>4 DEF Upgrades, Schedules, Finalizes, Activates, Closes
  <2> QED
    BY <2>2, <2>5 DEF Inserts, WritesOnly
<1> QED
  BY <1>1, SerialSubHolds, PTL DEF SubSpec, OneSubscription

\* ... every status change of a row the bulk operations leave alone is one of
\* the table of transitions,
THEOREM StatusesFollowMachine ==
  ASSUME NEW w, Workers = {w}
  PROVE  SubSpec => FollowsMachine
<1> USE SubscriptionAssumption
<1>1. SerialSubInv /\ [SubNext]_subVars
        => [\A s \in Unselected :
              status[s] = "none" \/ status'[s] = status[s]
                \/ Allowed(status[s], status'[s])]_subVars
  <2> SUFFICES ASSUME SerialSubInv, [SubNext]_subVars, NEW s \in Unselected,
                      status[s] # "none", status'[s] # status[s]
               PROVE  Allowed(status[s], status'[s])
    OBVIOUS
  <2>1. CommitSub(w) /\ stx[w] \in Tx /\ UpToDate(stx[w])
    BY OnlyCommitsWriteRows DEF rows
  <2> DEFINE t == stx[w]
  <2>2. t.set[s] # Keep /\ status'[s] = t.set[s]
    BY <2>1, CommitSubWrites DEF SerialSubInv, Written, Unselected
  <2>3. UpToDate(t)
    BY <2>1
  <2> HIDE DEF t
  <2>4. Activates(t, s) \/ Closes(t, s)
    BY <2>2, <2>3, UpToDateRow DEF Untouched, Inserts, Upgrades, Schedules,
                                   Finalizes, WritesOnly
  <2>5. CASE Activates(t, s)
    BY <2>2, <2>5 DEF Activates, WritesOnly, Toward, Allowed, Transitions
  <2>6. CASE Closes(t, s)
    BY <2>2, <2>6 DEF Closes, WritesOnly, Allowed, Transitions
  <2> QED
    BY <2>4, <2>5, <2>6
<1> QED
  BY <1>1, SerialSubHolds, PTL DEF SubSpec, FollowsMachine

\* ... and a closed row stays closed, on its plan or on the one a downgrade
\* was scheduled to, whatever is selected for the bulk operations.
THEOREM ClosedRowsAreFrozen ==
  ASSUME NEW w, Workers = {w}
  PROVE  SubSpec => ClosedIsFrozen
<1> USE SubscriptionAssumption
<1>1. SerialSubInv /\ [SubNext]_subVars
        => [\A s \in Subs : status[s] = "closed" =>
              status'[s] = "closed" /\ plan'[s] \in {plan[s], downTo[s]}]_subVars
  <2> SUFFICES ASSUME SerialSubInv, [SubNext]_subVars, NEW s \in Subs,
                      status[s] = "closed"
               PROVE  status'[s] = "closed" /\ plan'[s] \in {plan[s], downTo[s]}
    OBVIOUS
  <2>1. CASE UNCHANGED rows
    BY <2>1 DEF rows
  <2>2. CASE CommitSub(w) /\ stx[w] \in Tx /\ UpToDate(stx[w])
    <3> DEFINE t == stx[w]
    <3>1. /\ status'[s] = Written(status[s], t.set[s])
          /\ plan'[s] = Written(plan[s], t.plan[s])
      BY <2>2, CommitSubWrites DEF SerialSubInv
    <3>2. UpToDate(t)
      BY <2>2
    <3> HIDE DEF t
    <3>3. CASE Selects(t)
      BY <3>1, <3>3 DEF Selects, Untouched, Written
    <3>4. CASE ~Selects(t)
      <4>1. PICK r \in Subs : \/ Inserts(t, r) \/ Upgrades(t, r) \/ Schedules(t, r)
                              \/ Finalizes(t, r) \/ Activates(t, r) \/ Closes(t, r)
        BY <3>2, <3>4 DEF UpToDate
      <4>2. CASE r # s
        <5>1. Untouched(t, s)
          BY <4>1, <4>2 DEF Inserts, Upgrades, Schedules, Finalizes, Activates,
                            Closes, WritesOnly
        <5> QED
          BY <3>1, <5>1 DEF Untouched, Written
      <4>3. CASE r = s
        <5>1. Finalizes(t, s)
          BY <4>1, <4>3 DEF Inserts, Upgrades, Schedules, Activates, Closes
        <5> QED
          BY <3>1, <5>1 DEF Finalizes, WritesOnly, Written
      <4> QED
        BY <4>2, <4>3
    <3> QED
      BY <3>3, <3>4
  <2> QED
    BY <2>1, <2>2, OnlyCommitsWriteRows
<1> QED
  BY <1>1, SerialSubHolds, PTL DEF SubSpec, ClosedIsFrozen

-----------------------------------------------------------------------------
(* One request at a time, a subscription honours its contract.             *)

\* A commit leaves the columns of the rows it does not touch alone.
LEMMA CommitSpares ==
  ASSUME SubTypeOK, NEW w \in Workers, CommitSub(w),
         NEW s \in Subs, Untouched(stx[w], s)
  PROVE  /\ status'[s] = status[s] /\ plan'[s] = plan[s]
         /\ first'[s] = first[s] /\ bills'[s] = bills[s] /\ deltas'[s] = deltas[s]
<1>1. bills[s] \in Nat /\ deltas[s] \in Nat
  BY DEF SubTypeOK
<1> QED
  BY <1>1, CommitSubWrites DEF Untouched, Written

\* The contract of a row, column by column.
LEMMA ContractColumns ==
  ASSUME NEW s \in Unselected
  PROVE  /\ status[s] = "none" => ContractPhase[s] = "absent"
         /\ status[s] \in {"draft", "quotation", "confirmed"} =>
              ContractPhase[s] = "offered"
         /\ status[s] = "active" => ContractPhase[s] = "running"
         /\ status[s] = "closed" => ContractPhase[s] = "ended"
         /\ ContractPhase[s] = "absent" => status[s] = "none"
         /\ ContractPlan[s] = plan[s]
         /\ ContractBills[s] = bills[s]
         /\ ContractCharge[s] = IF first[s] = NoPlan THEN deltas[s] ELSE Charged(s)
BY DEF ContractPhase, ContractPlan, ContractBills, ContractCharge

\* A commit that touches one row changes the contract of that row only.
LEMMA OneContract ==
  ASSUME NEW s \in Unselected,
         \A r \in Unselected \ {s} :
           /\ status'[r] = status[r] /\ plan'[r] = plan[r]
           /\ first'[r] = first[r] /\ bills'[r] = bills[r]
           /\ deltas'[r] = deltas[r]
  PROVE  /\ \A x : x = ContractPhase'[s] =>
              ContractPhase' = [ContractPhase EXCEPT ![s] = x]
         /\ \A x : x = ContractPlan'[s] =>
              ContractPlan' = [ContractPlan EXCEPT ![s] = x]
         /\ \A x : x = ContractBills'[s] =>
              ContractBills' = [ContractBills EXCEPT ![s] = x]
         /\ \A x : x = ContractCharge'[s] =>
              ContractCharge' = [ContractCharge EXCEPT ![s] = x]
<1>1. \A x : x = ContractPhase'[s] =>
        ContractPhase' = [ContractPhase EXCEPT ![s] = x]
  BY DEF ContractPhase
<1>2. \A x : x = ContractPlan'[s] =>
        ContractPlan' = [ContractPlan EXCEPT ![s] = x]
  BY DEF ContractPlan
<1>3. \A x : x = ContractBills'[s] =>
        ContractBills' = [ContractBills EXCEPT ![s] = x]
  BY DEF ContractBills
<1>4. \A x : x = ContractCharge'[s] =>
        ContractCharge' = [ContractCharge EXCEPT ![s] = x]
  BY DEF ContractCharge, Charged
<1> QED
  BY <1>1, <1>2, <1>3, <1>4

\* The column of a row that keeps its value keeps the whole function.
LEMMA SameContract ==
  ASSUME NEW s \in Unselected
  PROVE  /\ [ContractPhase EXCEPT ![s] = ContractPhase[s]] = ContractPhase
         /\ [ContractPlan EXCEPT ![s] = ContractPlan[s]] = ContractPlan
         /\ [ContractBills EXCEPT ![s] = ContractBills[s]] = ContractBills
         /\ [ContractCharge EXCEPT ![s] = ContractCharge[s]] = ContractCharge
BY DEF ContractPhase, ContractPlan, ContractBills, ContractCharge

\* The commit of an up-to-date transaction is a step of the contract, or none.
LEMMA CommitHonours ==
  ASSUME SerialSubInv, NEW w \in Workers, CommitSub(w), UpToDate(stx[w])
  PROVE  \/ Contract!ContractNext
         \/ UNCHANGED <<ContractPhase, ContractPlan, ContractBills, ContractCharge>>
<1> USE SubscriptionAssumption
<1> DEFINE t == stx[w]
<1>0. SubTypeOK /\ UpToDate(t)
  BY DEF SerialSubInv
<1>1. CASE \A s \in Unselected : Untouched(t, s)
  BY <1>0, <1>1, CommitSpares
     DEF Unselected, ContractPhase, ContractPlan, ContractBills, ContractCharge,
         Charged
<1>2. ASSUME NEW s \in Unselected, ~Untouched(t, s)
      PROVE  \/ Contract!ContractNext
             \/ UNCHANGED <<ContractPhase, ContractPlan, ContractBills,
                            ContractCharge>>
  <2>1. s \in Subs
    BY DEF Unselected
  <2>2. /\ t \in Tx
        /\ status'[s] = Written(status[s], t.set[s])
        /\ plan'[s] = Written(plan[s], t.plan[s])
        /\ first'[s] = IF status[s] = "none"
                         THEN Written(first[s], t.plan[s]) ELSE first[s]
        /\ bills'[s] = bills[s] + t.bill[s]
        /\ deltas'[s] = deltas[s] + t.delta[s]
    BY <1>0, <2>1, CommitSubWrites
  <2>3. \/ Inserts(t, s) \/ Upgrades(t, s) \/ Schedules(t, s)
        \/ Finalizes(t, s) \/ Activates(t, s) \/ Closes(t, s)
    BY <1>0, <1>2, UpToDateRow
  <2>4. \A r \in Unselected \ {s} :
          /\ status'[r] = status[r] /\ plan'[r] = plan[r]
          /\ first'[r] = first[r] /\ bills'[r] = bills[r]
          /\ deltas'[r] = deltas[r]
    BY <1>0, <1>2, CommitSpares, UpToDateRow DEF Unselected
  <2>5. /\ bills[s] \in Nat /\ deltas[s] \in Nat
        /\ downTo[s] \in Plans \cup {NoPlan}
        /\ status[s] = "none" => bills[s] = 0 /\ deltas[s] = 0
        /\ status[s] # "none" =>
             /\ plan[s] \in Plans /\ first[s] \in Plans
             /\ Charged(s) \in Nat /\ Price[plan[s]] \in Nat
             /\ Price[plan[s]] <= Charged(s)
             /\ downTo[s] # NoPlan => Price[downTo[s]] <= Charged(s)
             /\ status[s] \in {"draft", "quotation", "confirmed"} => bills[s] = 0
             /\ ContractCharge[s] = Charged(s)
    BY <1>0, <2>1, ChargedType, ContractColumns
       DEF SerialSubInv, SubTypeOK, InsertInv, ReadInv, ChargeInv, PlanIsCharged
  <2> DEFINE phase == ContractPhase
             current == ContractPlan
             invoices == ContractBills
             charged == ContractCharge
  <2>6. /\ \A x : x = phase'[s] => phase' = [phase EXCEPT ![s] = x]
        /\ \A x : x = current'[s] => current' = [current EXCEPT ![s] = x]
        /\ \A x : x = invoices'[s] => invoices' = [invoices EXCEPT ![s] = x]
        /\ \A x : x = charged'[s] => charged' = [charged EXCEPT ![s] = x]
    BY <2>4, OneContract
  <2>7. /\ phase'[s] = phase[s] => phase' = phase
        /\ current'[s] = current[s] => current' = current
        /\ invoices'[s] = invoices[s] => invoices' = invoices
        /\ charged'[s] = charged[s] => charged' = charged
    BY <2>6, SameContract
  <2>8. status'[s] # "none" =>
          /\ status'[s] \in {"draft", "quotation", "confirmed"} =>
               phase'[s] = "offered"
          /\ status'[s] = "active" => phase'[s] = "running"
          /\ status'[s] = "closed" => phase'[s] = "ended"
    BY DEF ContractPhase
  <2>9. /\ current'[s] = plan'[s] /\ invoices'[s] = bills'[s]
        /\ charged'[s] = IF first'[s] = NoPlan THEN deltas'[s]
                         ELSE Price[first'[s]] + deltas'[s]
    BY DEF ContractPlan, ContractBills, ContractCharge, Charged
  <2> HIDE DEF t, phase, current, invoices, charged
  <2>10. CASE Inserts(t, s)
    <3>1. PICK new \in {"draft", "active"}, p \in Plans :
            WritesOnly(t, s, new, p, Keep, IF new = "active" THEN 1 ELSE 0, 0)
      BY <2>10 DEF Inserts
    <3>2. /\ status[s] = "none" /\ status'[s] = new
          /\ plan'[s] = p /\ first'[s] = p /\ deltas'[s] = 0
          /\ bills'[s] = IF new = "active" THEN 1 ELSE 0
      BY <2>2, <2>5, <2>10, <3>1 DEF Inserts, WritesOnly, Written, States
    <3>3. phase[s] = "absent" /\ invoices[s] = 0
      BY <2>5, <3>2, ContractColumns DEF phase, invoices
    <3>4. /\ current' = [current EXCEPT ![s] = p]
          /\ charged' = [charged EXCEPT ![s] = Price[p]]
      <4>1. current'[s] = p /\ charged'[s] = Price[p]
        BY <2>9, <3>2
      <4> QED
        BY <2>6, <4>1
    <3>5. CASE new = "draft"
      <4>1. /\ phase' = [phase EXCEPT ![s] = "offered"]
            /\ invoices' = invoices
        BY <2>6, <2>7, <2>8, <2>9, <3>2, <3>3, <3>5
      <4>2. Contract!Offer(s, p)
        BY <3>3, <3>4, <4>1
           DEF Contract!Offer, phase, current, invoices, charged
      <4> QED
        BY <4>2 DEF Contract!ContractNext
    <3>6. CASE new = "active"
      <4>1. /\ phase' = [phase EXCEPT ![s] = "running"]
            /\ invoices' = [invoices EXCEPT ![s] = 1]
        BY <2>6, <2>8, <2>9, <3>2, <3>6
      <4>2. Contract!Subscribe(s, p)
        BY <3>3, <3>4, <4>1
           DEF Contract!Subscribe, phase, current, invoices, charged
      <4> QED
        BY <4>2 DEF Contract!ContractNext
    <3> QED
      BY <3>1, <3>5, <3>6
  <2>11. CASE Upgrades(t, s)
    <3>1. PICK p \in Plans :
            /\ Price[p] > Price[plan[s]]
            /\ WritesOnly(t, s, Keep, p, Keep, 0, Delta(plan[s], p))
      BY <2>11 DEF Upgrades
    <3>2. /\ status[s] = "active" /\ status'[s] = "active"
          /\ plan'[s] = p /\ first'[s] = first[s] /\ bills'[s] = bills[s]
          /\ deltas'[s] = deltas[s] + (Price[p] - Price[plan[s]])
          /\ Price[p] \in Nat
      BY <2>2, <2>5, <2>11, <3>1 DEF Upgrades, WritesOnly, Written, Delta
    <3>3. /\ phase[s] = "running" /\ phase' = phase /\ invoices' = invoices
          /\ current' = [current EXCEPT ![s] = p]
          /\ charged' = [charged EXCEPT ![s] = charged'[s]]
      <4>1. phase[s] = "running" /\ invoices[s] = bills[s]
        BY <3>2, ContractColumns DEF phase, invoices
      <4> QED
        BY <2>6, <2>7, <2>8, <2>9, <3>2, <4>1
    <3>4. charged'[s] >= charged[s] /\ charged'[s] >= Price[p]
      <4>1. /\ charged[s] = Price[first[s]] + deltas[s]
            /\ charged[s] \in Nat /\ Price[plan[s]] <= charged[s]
        BY <2>5, <3>2 DEF Charged, charged
      <4>2. charged'[s] = charged[s] + (Price[p] - Price[plan[s]])
        BY <2>5, <2>9, <3>2, <4>1
      <4> QED
        BY <2>5, <3>1, <3>2, <4>1, <4>2
    <3>5. Contract!Move(s, p)
      BY <3>3, <3>4 DEF Contract!Move, phase, current, invoices, charged
    <3> QED
      BY <3>5 DEF Contract!ContractNext
  <2>12. CASE Schedules(t, s)
    <3>1. /\ status[s] = "active" /\ status'[s] = status[s] /\ plan'[s] = plan[s]
          /\ first'[s] = first[s] /\ bills'[s] = bills[s]
          /\ deltas'[s] = deltas[s]
      BY <2>2, <2>5, <2>12 DEF Schedules, WritesOnly, Written
    <3> QED
      BY <2>4, <3>1 DEF ContractPhase, ContractPlan, ContractBills,
                        ContractCharge, Charged
  <2>13. CASE Finalizes(t, s)
    <3>1. status[s] # "none" /\ downTo[s] \in Plans
      BY <2>1, <2>5, <2>13 DEF Finalizes, SerialSubInv, InsertInv
    <3>2. /\ status'[s] = status[s] /\ plan'[s] = downTo[s]
          /\ first'[s] = first[s] /\ bills'[s] = bills[s]
          /\ deltas'[s] = deltas[s]
      BY <2>2, <2>5, <2>13, <3>1 DEF Finalizes, WritesOnly, Written
    <3>3. phase'[s] = phase[s] /\ phase[s] # "absent"
      BY <3>1, <3>2, ContractColumns DEF phase, ContractPhase
    <3>4. /\ invoices'[s] = invoices[s] /\ charged'[s] = charged[s]
          /\ charged[s] >= Price[downTo[s]]
          /\ charged[s] \in Nat
      <4>1. invoices[s] = bills[s] /\ charged[s] = Charged(s)
        BY <2>5, <3>1, ContractColumns DEF invoices, charged
      <4>2. charged'[s] = charged[s]
        BY <2>5, <2>9, <3>1, <3>2, <4>1 DEF Charged
      <4> QED
        BY <2>5, <2>9, <2>13, <3>1, <3>2, <4>1, <4>2 DEF Finalizes
    <3>5. /\ phase' = phase /\ invoices' = invoices
          /\ current' = [current EXCEPT ![s] = downTo[s]]
          /\ charged' = [charged EXCEPT ![s] = charged'[s]]
      BY <2>6, <2>7, <2>9, <3>2, <3>3, <3>4
    <3>6. Contract!Move(s, downTo[s])
      BY <3>3, <3>4, <3>5 DEF Contract!Move, phase, current, invoices, charged
    <3> QED
      BY <3>1, <3>6 DEF Contract!ContractNext
  <2>14. CASE Activates(t, s)
    <3>1. /\ status[s] \in {"draft", "quotation", "confirmed"}
          /\ status'[s] = IF status[s] = "draft" THEN "quotation"
                          ELSE IF status[s] = "quotation" THEN "confirmed"
                          ELSE "active"
          /\ plan'[s] = plan[s] /\ first'[s] = first[s]
          /\ deltas'[s] = deltas[s]
          /\ bills'[s] = IF status[s] = "confirmed" THEN 1 ELSE 0
          /\ bills[s] = 0
      BY <2>2, <2>5, <2>14 DEF Activates, WritesOnly, Written, Toward, States
    <3>2. /\ phase[s] = "offered" /\ invoices[s] = 0 /\ current[s] = plan[s]
          /\ charged'[s] = charged[s]
      BY <2>5, <2>9, <3>1, ContractColumns
         DEF phase, invoices, current, charged, Charged
    <3>3. current' = current /\ charged' = charged
      BY <2>7, <2>9, <3>1, <3>2
    <3>4. CASE status[s] = "confirmed"
      <4>1. /\ phase' = [phase EXCEPT ![s] = "running"]
            /\ invoices' = [invoices EXCEPT ![s] = 1]
        BY <2>6, <2>8, <2>9, <3>1, <3>4
      <4>2. Contract!Start(s)
        BY <3>2, <3>3, <4>1
           DEF Contract!Start, phase, current, invoices, charged
      <4> QED
        BY <4>2 DEF Contract!ContractNext
    <3>5. CASE status[s] # "confirmed"
      <4>1. phase' = phase /\ invoices' = invoices
        BY <2>7, <2>8, <2>9, <3>1, <3>2, <3>5
      <4> QED
        BY <3>3, <4>1 DEF phase, current, invoices, charged
    <3> QED
      BY <3>4, <3>5
  <2>15. CASE Closes(t, s)
    <3>1. /\ status[s] = "active" /\ plan[s] \in Closable
          /\ status'[s] = "closed" /\ plan'[s] = plan[s]
          /\ first'[s] = first[s] /\ deltas'[s] = deltas[s]
          /\ bills'[s] = bills[s]
      BY <2>2, <2>5, <2>15 DEF Closes, WritesOnly, Written, States
    <3>2. /\ phase[s] = "running" /\ invoices'[s] = invoices[s]
          /\ current[s] = plan[s] /\ charged'[s] = charged[s]
      BY <2>5, <2>9, <3>1, ContractColumns
         DEF phase, invoices, current, charged, Charged
    <3>3. /\ phase' = [phase EXCEPT ![s] = "ended"]
          /\ current' = current /\ invoices' = invoices /\ charged' = charged
      BY <2>6, <2>7, <2>8, <2>9, <3>1, <3>2
    <3>4. Contract!End(s)
      BY <3>1, <3>2, <3>3 DEF Contract!End, phase, current, invoices, charged
    <3> QED
      BY <3>4 DEF Contract!ContractNext
  <2> QED
    BY <2>3, <2>10, <2>11, <2>12, <2>13, <2>14, <2>15
<1> QED
  BY <1>1, <1>2

\* When requests do not overlap, every request takes effect at its commit as
\* one step of the contract of at most one subscription: the services
\* implement SubscriptionContract for the rows the bulk operations leave alone.
THEOREM SubscriptionsHonourContract ==
  ASSUME NEW w, Workers = {w}
  PROVE  SubSpec => HonoursContract
<1>1. SubInit => Contract!ContractInit
  BY DEF SubInit, Contract!ContractInit, ContractPhase, ContractPlan,
         ContractBills, ContractCharge, Unselected
<1>2. SerialSubInv /\ [SubNext]_subVars
        => [Contract!ContractNext]_<<ContractPhase, ContractPlan, ContractBills,
                                     ContractCharge>>
  <2> SUFFICES ASSUME SerialSubInv, [SubNext]_subVars
               PROVE  \/ Contract!ContractNext
                      \/ UNCHANGED <<ContractPhase, ContractPlan, ContractBills,
                                     ContractCharge>>
    OBVIOUS
  <2>1. CASE UNCHANGED rows
    BY <2>1 DEF rows, ContractPhase, ContractPlan, ContractBills,
                ContractCharge, Charged
  <2> QED
    BY <2>1, OnlyCommitsWriteRows, CommitHonours
<1> QED
  BY <1>1, <1>2, SerialSubHolds, PTL
     DEF SubSpec, HonoursContract, Contract!ContractSpec, Contract!contractVars
===============================================================================
