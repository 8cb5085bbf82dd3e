---------------------------- MODULE DunningProofs ----------------------------
(***************************************************************************)
(* Theorems of Dunning, for any set of workers, processors, subscriptions, *)
(* invoices and batches, and any days.                                     *)
(***************************************************************************)
EXTENDS Dunning, SubscriptionProofs

-----------------------------------------------------------------------------
(* The schedule and the steps of the system.                               *)

\* The four steps of config/dunning.py, in the order of their days; the last
\* one cancels.
LEMMA ScheduleFacts ==
  /\ Steps = 1..4
  /\ \A k \in Steps : /\ Schedule[k].day \in Nat
                      /\ Schedule[k].action \in {"retry", "suspend", "cancel"}
                      /\ Schedule[k].action = "cancel" => k = 4
                      /\ Schedule[k].action \in DOMAIN Target =>
                           Schedule[k].action # "retry"
  /\ \A j, k \in Steps : j < k => Schedule[j].day < Schedule[k].day
BY DEF Steps, Schedule, Target

\* A schedule row is a batch and a step.
LEMMA RowFacts ==
  ASSUME NEW r \in Rows
  PROVE  /\ r[1] \in Batches /\ r[2] \in Steps /\ r = <<r[1], r[2]>>
         /\ InvoiceOf[r[1]] \in Invoices /\ SubOf[InvoiceOf[r[1]]] \in Subs
BY DunningAssumption DEF Rows

\* What the execution of row r in the run of w does: the row leaves the to-do
\* list with outcome o, and a success writes the status of its subscription.
Executes(w, r, o) ==
  LET i == InvoiceOf[r[1]]
      s == SubOf[i]
      new == Target[Schedule[r[2]].action]
  IN  /\ run[w] # NoRun
      /\ r \in run[w].todo
      /\ o \in Settled
      /\ run' = [run EXCEPT ![w] = run'[w]]
      /\ run'[w] \in Run
      /\ run'[w].todo = run[w].todo \ {r}
      /\ run'[w].inv = run[w].inv
      /\ run'[w].out = [run[w].out EXCEPT ![r] = o]
      /\ o = "failed" => Schedule[r[2]].action = "retry"
      /\ o = "success" => /\ run[w].inv[i] # "paid"
                          /\ Schedule[r[2]].action \in DOMAIN Target
      /\ IF o = "success"
           THEN stx' = [stx EXCEPT ![w] = [stx[w] EXCEPT !.set[s] =
                          IF run[w].sub[s] = new THEN @ ELSE new]]
           ELSE stx' = stx
      /\ UNCHANGED <<rows, invoice, row, since, now>>

\* Skipping, retrying and punishing execute a row.
LEMMA Execution ==
  ASSUME DunTypeOK, NEW w \in Processors, NEW r \in Rows, run[w] # NoRun,
         Skip(w, r) \/ Retry(w, r) \/ Punish(w, r)
  PROVE  \E o \in Settled : Executes(w, r, o)
<1> USE DunningAssumption
<1> DEFINE i == InvoiceOf[r[1]]
           s == SubOf[i]
           action == Schedule[r[2]].action
<1>1. /\ i \in Invoices /\ s \in Subs
      /\ action \in {"retry", "suspend", "cancel"}
      /\ action \in DOMAIN Target => action # "retry"
  BY RowFacts, ScheduleFacts
<1>2. /\ run[w] \in Run /\ run \in [Processors -> Run \cup {NoRun}]
      /\ stx \in [Workers -> Tx \cup {NoTx}] /\ stx[w] \in Tx
      /\ status[s] \in States \cup {"none"}
  BY <1>1 DEF DunTypeOK, SubTypeOK
<1>3. ASSUME NEW o \in Settled,
             run' = [run EXCEPT ![w].todo = @ \ {r}, ![w].out[r] = o]
      PROVE  /\ run'[w] \in Run
             /\ run' = [run EXCEPT ![w] = run'[w]]
             /\ run'[w].todo = run[w].todo \ {r}
             /\ run'[w].inv = run[w].inv
             /\ run'[w].out = [run[w].out EXCEPT ![r] = o]
  BY <1>1, <1>2, <1>3 DEF Run, RowStates
<1>4. CASE Skip(w, r)
  <2>1. /\ r \in run[w].todo /\ stx' = stx
        /\ UNCHANGED <<rows, invoice, row, since, now>>
        /\ run' = [run EXCEPT ![w].todo = @ \ {r}, ![w].out[r] = "skipped"]
    BY <1>4 DEF Skip, subVars, rows
  <2>2. Executes(w, r, "skipped")
    BY <1>3, <2>1 DEF Executes, Settled
  <2> QED
    BY <2>2 DEF Settled
<1>5. CASE Retry(w, r)
  <2>1. /\ r \in run[w].todo /\ stx' = stx /\ action = "retry"
        /\ UNCHANGED <<rows, invoice, row, since, now>>
        /\ run' = [run EXCEPT ![w].todo = @ \ {r}, ![w].out[r] = "failed"]
    BY <1>5 DEF Retry, subVars, rows
  <2>2. Executes(w, r, "failed")
    BY <1>3, <2>1 DEF Executes, Settled
  <2> QED
    BY <2>2 DEF Settled
<1>6. CASE Punish(w, r)
  <2> DEFINE set == IF run[w].sub[s] = Target[action] THEN stx[w].set[s]
                                                      ELSE Target[action]
             x == Written(status[s], set)
             rec == [run[w] EXCEPT !.todo = @ \ {r}, !.out[r] = "success",
                                   !.sub[s] = x]
  <2>1. /\ r \in run[w].todo /\ action \in DOMAIN Target
        /\ run[w].inv[i] # "paid"
        /\ UNCHANGED <<rows, invoice, row, since, now>>
        /\ run' = [run EXCEPT ![w].todo = @ \ {r}, ![w].out[r] = "success",
                              ![w].sub[s] = x]
        /\ stx' = [stx EXCEPT ![w].set[s] = set]
    BY <1>6 DEF Punish
  <2>2. set \in States \cup {Keep}
    BY <1>1, <1>2, <2>1 DEF Target, States, Tx
  <2>3. x \in States \cup {"none"}
    BY <1>2, <2>2 DEF Written
  <2>4. /\ run' = [run EXCEPT ![w] = rec]
        /\ stx' = [stx EXCEPT ![w] = [stx[w] EXCEPT !.set[s] = set]]
    BY <1>2, <2>1 DEF Run, Tx
  <2> HIDE DEF x
  <2>5. /\ rec \in Run
        /\ rec.todo = run[w].todo \ {r}
        /\ rec.inv = run[w].inv
        /\ rec.out = [run[w].out EXCEPT ![r] = "success"]
    BY <1>1, <1>2, <2>3 DEF Run, RowStates, Settled
  <2> HIDE DEF rec
  <2>6. run'[w] = rec
    BY <1>2, <2>4
  <2>7. Executes(w, r, "success")
    BY <2>1, <2>4, <2>5, <2>6 DEF Executes, Settled
  <2> QED
    BY <2>7 DEF Settled
<1> QED
  BY <1>4, <1>5, <1>6

\* Passing over the row of an invoice that is not found: it leaves the to-do
\* list, and nothing else happens.
LEMMA Missing ==
  ASSUME DunTypeOK, NEW w \in Processors, NEW r \in Rows, run[w] # NoRun,
         Miss(w, r)
  PROVE  /\ run' = [run EXCEPT ![w] = run'[w]]
         /\ run'[w] \in Run /\ run'[w] # NoRun
         /\ run'[w].todo = run[w].todo \ {r}
         /\ run'[w].inv = run[w].inv /\ run'[w].out = run[w].out
         /\ \A v \in Processors \ {w} : run'[v] = run[v] /\ Taken(v)' = Taken(v)
         /\ Taken(w)' \subseteq Taken(w) /\ Taken(w) \subseteq Taken(w)' \cup {r}
         /\ ~Found(InvoiceOf[r[1]])
         /\ UNCHANGED <<subVars, invoice, row, since, now>>
<1> USE DunningAssumption
<1> DEFINE rec == [run[w] EXCEPT !.todo = @ \ {r}]
<1>1. run[w] \in Run /\ run \in [Processors -> Run \cup {NoRun}]
  BY DEF DunTypeOK
<1>2. /\ run' = [run EXCEPT ![w] = rec] /\ ~Found(InvoiceOf[r[1]])
      /\ UNCHANGED <<subVars, invoice, row, since, now>>
  BY DEF Miss
<1>3. /\ rec \in Run /\ rec.todo = run[w].todo \ {r}
      /\ rec.inv = run[w].inv /\ rec.out = run[w].out
  BY <1>1 DEF Run
<1> HIDE DEF rec
<1>4. run'[w] = rec /\ \A v \in Processors \ {w} : run'[v] = run[v]
  BY <1>1, <1>2
<1> QED
  BY <1>2, <1>3, <1>4 DEF Taken

\* A run starts with the due rows, the invoices and subscriptions as they
\* are, and nothing written.
LEMMA Starting ==
  ASSUME DunTypeOK, NEW w \in Processors, StartRun(w)
  PROVE  /\ run[w] = NoRun /\ stx[w] = NoTx
         /\ run' = [run EXCEPT ![w] = run'[w]]
         /\ run'[w] \in Run
         /\ run'[w].todo = {r \in Rows : Due(r)}
         /\ run'[w].inv = invoice
         /\ run'[w].out = [r \in Rows |-> "pending"]
         /\ stx' = [stx EXCEPT ![w] = NoWrites]
         /\ UNCHANGED <<rows, invoice, row, since, now>>
<1> DEFINE new == Begun({r \in Rows : Due(r)})
<1>1. new \in Run
  BY DEF Begun, Run, RowStates, DunTypeOK, SubTypeOK
<1>2. /\ run[w] = NoRun /\ stx[w] = NoTx
      /\ run' = [run EXCEPT ![w] = new]
      /\ stx' = [stx EXCEPT ![w] = NoWrites]
      /\ UNCHANGED <<rows, invoice, row, since, now>>
  BY DEF StartRun
<1>3. run'[w] = new
  BY <1>2 DEF DunTypeOK
<1>4. /\ new.todo = {r \in Rows : Due(r)}
      /\ new.inv = invoice
      /\ new.out = [r \in Rows |-> "pending"]
  BY DEF Begun
<1> HIDE DEF new
<1> QED
  BY <1>1, <1>2, <1>3, <1>4

\* What happens to an invoice outside.
Marks(i) == Pay(i) \/ CancelInvoice(i) \/ RemoveInvoice(i)

\* The kinds of steps, for the proofs below.
LEMMA StepKinds ==
  ASSUME DunTypeOK, [Next]_vars
  PROVE  \/ UNCHANGED vars
         \/ \E w \in Workers \ Processors : Request(w) /\ UNCHANGED dunVars
         \/ \E b \in Batches : CreateBatch(b)
         \/ \E i \in Invoices : Marks(i)
         \/ Tick
         \/ \E w \in Processors :
              \/ StartRun(w) \/ FinishRun(w) \/ AbortRun(w)
              \/ \E r \in Rows : run[w] # NoRun /\ Miss(w, r)
              \/ \E r \in Rows, o \in Settled : Executes(w, r, o)
<1>1. ASSUME NEW w \in Processors, NEW r \in Rows, run[w] # NoRun,
             Skip(w, r) \/ Retry(w, r) \/ Punish(w, r)
      PROVE  \E o \in Settled : Executes(w, r, o)
  BY <1>1, Execution
<1> QED
  BY <1>1 DEF Next, Others, Process, Execute, Marks

-----------------------------------------------------------------------------
(* Type correctness.                                                       *)

\* A request changes its own transaction only, and never unmakes a row.
LEMMA RequestFrame ==
  ASSUME SubTypeOK, InsertInv, NEW w \in Workers, Request(w)
  PROVE  /\ \A v \in Workers \ {w} : stx'[v] = stx[v]
         /\ \A s \in Subs : status[s] # "none" => status'[s] # "none"
<1>1. CASE CommitSub(w)
  BY <1>1, CommitSubWrites, CommitKeepsInsertInv
<1>2. CASE RollbackSub(w)
  BY <1>2 DEF RollbackSub, SubTypeOK, rows
<1>3. ASSUME NEW t \in Tx, Opens(w, t)
      PROVE  /\ \A v \in Workers \ {w} : stx'[v] = stx[v]
             /\ \A s \in Subs : status[s] # "none" => status'[s] # "none"
  BY <1>3 DEF Opens, Begin, SubTypeOK, rows
<1> QED
  BY <1>1, <1>2, <1>3, RequestOpens

\* The part of the inductive invariants that everything else needs.
DunInv == DunTypeOK /\ InsertInv /\ BatchInv

\* The invariant is inductive: a run never writes to a subscription whose row
\* does not exist, since its schedule rows were created for one that does.
LEMMA DunInvStep ==
  ASSUME DunInv, [Next]_vars
  PROVE  DunInv'
<1> USE DunningAssumption, SubscriptionAssumption
<1>1. DunTypeOK /\ SubTypeOK /\ InsertInv /\ BatchInv
  BY DEF DunInv, DunTypeOK
<1>2. \A w \in Processors : w \in Workers /\ (run[w] # NoRun => run[w] \in Run)
  BY <1>1 DEF DunTypeOK
<1>3. CASE UNCHANGED vars
  BY <1>1, <1>3 DEF vars, dunVars, subVars, DunInv, DunTypeOK, SubTypeOK,
                    InsertInv, BatchInv, Taken
<1>4. ASSUME NEW w \in Workers \ Processors, Request(w), UNCHANGED dunVars
      PROVE  DunInv'
  <2>1. /\ SubTypeOK' /\ InsertInv'
        /\ \A v \in Workers \ {w} : stx'[v] = stx[v]
        /\ \A s \in Subs : status[s] # "none" => status'[s] # "none"
    BY <1>1, <1>4, RequestKeepsInsertInv, RequestFrame
  <2>2. DunTypeOK'
    BY <1>1, <1>2, <1>4, <2>1 DEF DunTypeOK, dunVars
  <2>3. UNCHANGED <<row, run>> /\ \A v \in Processors : Taken(v)' = Taken(v)
    BY <1>4 DEF dunVars, Taken
  <2>4. ASSUME NEW r \in Rows, row'[r] # "none"
        PROVE  status'[SubOf[InvoiceOf[r[1]]]] # "none"
    BY <1>1, <2>1, <2>3, <2>4, RowFacts DEF BatchInv
  <2>5. BatchInv'
    BY <1>1, <2>3, <2>4 DEF BatchInv
  <2> QED
    BY <2>1, <2>2, <2>5 DEF DunInv
<1>5. ASSUME NEW b \in Batches, CreateBatch(b) PROVE DunInv'
  <2>1. /\ row' \in [Rows -> RowStates \cup {"none"}]
        /\ since' \in [Batches -> Nat]
        /\ UNCHANGED <<subVars, invoice, now, run>>
        /\ \A r \in Rows : row'[r] = IF r[1] = b THEN "pending" ELSE row[r]
        /\ status[SubOf[InvoiceOf[b]]] # "none"
    BY <1>1, <1>5 DEF CreateBatch, DunTypeOK, RowStates
  <2>2. SubTypeOK' /\ InsertInv' /\ DunTypeOK'
    BY <1>1, <2>1 DEF subVars, SubTypeOK, InsertInv, DunTypeOK
  <2>3. BatchInv'
    <3>1. \A c \in Batches, j, k \in Steps :
            row'[<<c, j>>] = "none" => row'[<<c, k>>] = "none"
      BY <1>1, <2>1 DEF BatchInv, Rows
    <3>2. \A r \in Rows : row'[r] # "none" =>
                            status'[SubOf[InvoiceOf[r[1]]]] # "none"
      BY <1>1, <2>1 DEF BatchInv, subVars
    <3>3. \A v \in Processors : run'[v] # NoRun =>
            \A r \in Rows : r \in Taken(v)' => row'[r] # "none"
      BY <1>1, <2>1 DEF BatchInv, Taken
    <3>4. \A v \in Processors : run'[v] # NoRun => Taken(v)' \subseteq Rows
      BY <1>2, <2>1 DEF Taken, Run
    <3>5. \A v \in Processors : run'[v] # NoRun =>
            \A r \in run'[v].todo : run'[v].out[r] = "pending"
      BY <1>1, <2>1 DEF BatchInv
    <3> QED
      BY <3>1, <3>2, <3>3, <3>4, <3>5 DEF BatchInv
  <2> QED
    BY <2>2, <2>3 DEF DunInv
<1>6. ASSUME NEW i \in Invoices, Marks(i) PROVE DunInv'
  BY <1>1, <1>6 DEF Marks, Pay, CancelInvoice, RemoveInvoice, subVars, DunInv,
                    DunTypeOK, SubTypeOK, InsertInv, BatchInv, Taken, InvoiceStates
<1>7. CASE Tick
  <2>1. now' \in Nat /\ UNCHANGED <<subVars, invoice, row, since, run>>
    BY <1>7 DEF Tick
  <2> QED
    BY <1>1, <2>1 DEF subVars, DunInv, DunTypeOK, SubTypeOK, InsertInv,
                      BatchInv, Taken
<1>8. ASSUME NEW w \in Processors, StartRun(w) PROVE DunInv'
  <2>1. NoWrites \in Tx /\ \A s \in Subs : Untouched(NoWrites, s)
    BY NoWritesType
  <2>2. SubTypeOK' /\ InsertInv'
    <3>1. stx' = [stx EXCEPT ![w] = NoWrites] /\ UNCHANGED rows
      BY <1>1, <1>8, Starting
    <3> QED
      BY <1>1, <1>2, <2>1, <3>1, WriteKeepsInsertInv
  <2>3. DunTypeOK'
    BY <1>1, <1>2, <1>8, <2>1, <2>2, Starting DEF DunTypeOK, SubTypeOK
  <2>4. \A v \in Processors : run'[v] # NoRun =>
          /\ \A r \in Taken(v)' : row'[r] # "none"
          /\ \A r \in run'[v].todo : run'[v].out[r] = "pending"
    <3>1. ASSUME NEW v \in Processors, run'[v] # NoRun, NEW r \in Taken(v)'
          PROVE  row'[r] # "none"
      <4>1. CASE v = w
        BY <1>1, <1>8, <3>1, <4>1, Starting DEF Taken, Due
      <4>2. CASE v # w
        BY <1>1, <1>8, <3>1, <4>2, Starting DEF Taken, DunTypeOK, BatchInv
      <4> QED
        BY <4>1, <4>2
    <3>2. ASSUME NEW v \in Processors, run'[v] # NoRun, NEW r \in run'[v].todo
          PROVE  run'[v].out[r] = "pending"
      <4>1. CASE v = w
        BY <1>1, <1>8, <3>2, <4>1, Starting
      <4>2. CASE v # w
        BY <1>1, <1>8, <3>2, <4>2, Starting DEF DunTypeOK, BatchInv
      <4> QED
        BY <4>1, <4>2
    <3> QED
      BY <3>1, <3>2
  <2>5. BatchInv'
    BY <1>1, <1>8, <2>4, Starting DEF BatchInv, rows
  <2> QED
    BY <2>2, <2>3, <2>5 DEF DunInv
<1>9. ASSUME NEW w \in Processors, NEW r \in Rows, NEW o \in Settled,
             Executes(w, r, o)
      PROVE  DunInv'
  <2> DEFINE s == SubOf[InvoiceOf[r[1]]]
  <2>1. /\ run[w] # NoRun /\ r \in run[w].todo /\ s \in Subs
        /\ run' = [run EXCEPT ![w] = run'[w]] /\ run'[w] \in Run
        /\ run'[w].todo = run[w].todo \ {r}
        /\ run'[w].out = [run[w].out EXCEPT ![r] = o]
        /\ UNCHANGED <<rows, invoice, row, since, now>>
    BY <1>9, RowFacts DEF Executes
  <2>2. status[s] # "none"
    BY <1>1, <2>1 DEF BatchInv, Taken
  <2>3. stx[w] \in Tx /\ stx[w] # NoTx
    BY <1>1, <1>2, <2>1 DEF DunTypeOK, SubTypeOK
  <2>4. PICK t \in Tx : /\ stx' = [stx EXCEPT ![w] = t]
                        /\ \A q \in Subs : q # s => Untouched(t, q) = Untouched(stx[w], q)
                        /\ \A q \in Subs : q # s => NewRow(t, q) = NewRow(stx[w], q)
    <3>1. CASE o = "success"
      <4> DEFINE new == Target[Schedule[r[2]].action]
                 x == IF run[w].sub[s] = new THEN stx[w].set[s] ELSE new
                 t == [stx[w] EXCEPT !.set[s] = x]
      <4>1. stx' = [stx EXCEPT ![w] = t] /\ Schedule[r[2]].action \in DOMAIN Target
        BY <1>9, <3>1, <2>3 DEF Executes, Tx
      <4>2. x \in States \cup {Keep}
        BY <2>1, <2>3, <4>1 DEF Target, States, Tx
      <4> HIDE DEF x
      <4>3. t \in Tx
        BY <2>3, <4>2 DEF Tx
      <4>4. \A q \in Subs : q # s =>
              /\ Untouched(t, q) = Untouched(stx[w], q)
              /\ NewRow(t, q) = NewRow(stx[w], q)
        BY <2>3 DEF Tx, Untouched, NewRow
      <4> HIDE DEF t
      <4> QED
        BY <4>1, <4>3, <4>4
    <3>2. CASE o # "success"
      <4>1. stx' = [stx EXCEPT ![w] = stx[w]]
        BY <1>1, <1>9, <3>2 DEF Executes, SubTypeOK
      <4> QED
        BY <2>3, <4>1
    <3> QED
      BY <3>1, <3>2
  <2> HIDE DEF s
  <2>5. \A q \in Subs : status[q] = "none" /\ t # NoTx /\ ~Untouched(t, q) =>
          /\ NewRow(t, q)
          /\ \A v \in Workers \ {w} : stx[v] # NoTx => Untouched(stx[v], q)
    BY <1>1, <1>2, <2>2, <2>3, <2>4 DEF InsertInv
  <2>6. SubTypeOK' /\ InsertInv'
    BY <1>1, <1>2, <2>1, <2>4, <2>5, WriteKeepsInsertInv
  <2>7. DunTypeOK'
    BY <1>1, <1>2, <2>1, <2>3, <2>4, <2>6 DEF DunTypeOK, SubTypeOK
  <2>8. \A v \in Processors : run'[v] # NoRun => run[v] # NoRun /\ Taken(v)' = Taken(v)
    <3>1. ASSUME NEW v \in Processors, run'[v] # NoRun, v # w
          PROVE  run[v] # NoRun /\ Taken(v)' = Taken(v)
      BY <1>1, <2>1, <3>1 DEF Taken, DunTypeOK
    <3>2. run[w].out \in [Rows -> RowStates]
      BY <1>2, <2>1 DEF Run
    <3>3. Taken(w)' = Taken(w)
      BY <2>1, <3>2 DEF Taken, Settled
    <3> QED
      BY <2>1, <3>1, <3>3
  <2>9. ASSUME NEW v \in Processors, run'[v] # NoRun, NEW q \in run'[v].todo
        PROVE  run'[v].out[q] = "pending"
    <3>1. CASE v = w
      <4>1. q # r /\ q \in run[w].todo /\ q \in Rows
        BY <1>2, <2>1, <2>9, <3>1 DEF Run
      <4>2. run[w].out \in [Rows -> RowStates]
        BY <1>2, <2>1 DEF Run
      <4> QED
        BY <1>1, <2>1, <3>1, <4>1, <4>2 DEF BatchInv
    <3>2. CASE v # w
      BY <1>1, <2>1, <2>9, <3>2 DEF BatchInv, DunTypeOK
    <3> QED
      BY <3>1, <3>2
  <2>10. BatchInv'
    BY <1>1, <2>1, <2>8, <2>9 DEF BatchInv, rows
  <2> QED
    BY <2>6, <2>7, <2>10 DEF DunInv
<1>10. ASSUME NEW w \in Processors, FinishRun(w) PROVE DunInv'
  <2>1. SubTypeOK' /\ InsertInv' /\
        \A s \in Subs : status[s] # "none" => status'[s] # "none"
    BY <1>1, <1>2, <1>10, CommitKeepsInsertInv DEF FinishRun
  <2>2. \A v \in Workers : stx'[v] = IF v = w THEN NoTx ELSE stx[v]
    BY <1>1, <1>2, <1>10, CommitSubWrites DEF FinishRun
  <2>3. /\ run' = [run EXCEPT ![w] = NoRun] /\ UNCHANGED <<invoice, since, now>>
        /\ run[w] # NoRun
        /\ row' = [r \in Rows |-> IF run[w].out[r] = "pending" THEN row[r]
                                  ELSE run[w].out[r]]
    BY <1>10 DEF FinishRun
  <2>4. run[w].out \in [Rows -> RowStates]
    BY <1>2, <2>3 DEF Run
  <2>5. \A r \in Rows : /\ row'[r] = "none" <=> row[r] = "none"
                        /\ row'[r] \in RowStates \cup {"none"}
    BY <1>1, <2>3, <2>4 DEF BatchInv, Taken, RowStates, Settled, DunTypeOK
  <2>6. DunTypeOK'
    BY <1>1, <1>2, <2>1, <2>2, <2>3, <2>5 DEF DunTypeOK
  <2>7. ASSUME NEW r \in Rows, row'[r] # "none"
        PROVE  status'[SubOf[InvoiceOf[r[1]]]] # "none"
    BY <1>1, <2>1, <2>5, <2>7, RowFacts DEF BatchInv
  <2>8. \A v \in Processors : run'[v] # NoRun =>
          run[v] # NoRun /\ Taken(v)' = Taken(v) /\ Taken(v) \subseteq Rows
    BY <1>1, <1>2, <2>3 DEF DunTypeOK, Taken, Run
  <2>9. \A b \in Batches, k \in Steps : <<b, k>> \in Rows
    BY DEF Rows
  <2>10. ASSUME NEW b \in Batches, NEW j \in Steps, NEW k \in Steps,
                row'[<<b, j>>] = "none"
         PROVE  row'[<<b, k>>] = "none"
    BY <1>1, <2>5, <2>9, <2>10 DEF BatchInv
  <2>11. ASSUME NEW v \in Processors, run'[v] # NoRun, NEW r \in Taken(v)'
         PROVE  row'[r] # "none"
    BY <1>1, <2>5, <2>8, <2>11 DEF BatchInv
  <2>12. BatchInv'
    <3>1. \A v \in Processors : run'[v] # NoRun => run'[v] = run[v]
      BY <1>1, <2>3 DEF DunTypeOK
    <3> QED
      BY <1>1, <2>7, <2>10, <2>11, <3>1 DEF BatchInv
  <2> QED
    BY <2>1, <2>6, <2>12 DEF DunInv
<1>11. ASSUME NEW w \in Processors, AbortRun(w) PROVE DunInv'
  <2>1. SubTypeOK' /\ InsertInv'
    BY <1>1, <1>2, <1>11, RollbackKeepsInsertInv DEF AbortRun
  <2>2. /\ run' = [run EXCEPT ![w] = NoRun] /\ stx' = [stx EXCEPT ![w] = NoTx]
        /\ UNCHANGED <<rows, invoice, row, since, now>>
    BY <1>11 DEF AbortRun, RollbackSub
  <2>3. DunTypeOK'
    BY <1>1, <1>2, <2>1, <2>2 DEF DunTypeOK, SubTypeOK
  <2>4. \A v \in Processors : run'[v] # NoRun =>
          run'[v] = run[v] /\ Taken(v)' = Taken(v)
    BY <1>1, <2>2 DEF DunTypeOK, Taken
  <2>5. BatchInv'
    BY <1>1, <2>2, <2>4 DEF BatchInv, rows
  <2> QED
    BY <2>1, <2>3, <2>5 DEF DunInv
<1>12. ASSUME NEW w \in Processors, NEW r \in Rows, run[w] # NoRun, Miss(w, r)
       PROVE  DunInv'
  <2>1. /\ run' = [run EXCEPT ![w] = run'[w]]
        /\ run'[w] \in Run /\ run'[w] # NoRun
        /\ run'[w].todo \subseteq run[w].todo /\ run'[w].out = run[w].out
        /\ \A v \in Processors : Taken(v)' \subseteq Taken(v)
        /\ \A v \in Processors \ {w} : run'[v] = run[v]
        /\ UNCHANGED <<subVars, invoice, row, since, now>>
    BY <1>1, <1>12, Missing
  <2>2. SubTypeOK' /\ InsertInv'
    BY <1>1, <2>1 DEF subVars, SubTypeOK, InsertInv
  <2>3. DunTypeOK'
    BY <1>1, <1>2, <1>12, <2>1, <2>2 DEF DunTypeOK, subVars
  <2>4. BatchInv'
    BY <1>1, <1>12, <2>1 DEF BatchInv, subVars
  <2> QED
    BY <2>2, <2>3, <2>4 DEF DunInv
<1> QED
  BY <1>1, <1>3, <1>4, <1>5, <1>6, <1>7, <1>8, <1>9, <1>10, <1>11, <1>12, StepKinds

\* No table holds anything at first, and no run is open.
LEMMA DunInvInit == Init => DunInv
<1> SUFFICES ASSUME Init PROVE DunInv
  OBVIOUS
<1>1. SubTypeOK /\ InsertInv
  BY InsertInvInit DEF Init
<1>2. DunTypeOK
  BY <1>1, DunningAssumption
     DEF Init, SubInit, DunTypeOK, InvoiceStates, RowStates
<1>3. BatchInv
  BY DEF Init, BatchInv, Rows
<1> QED
  BY <1>1, <1>2, <1>3 DEF DunInv

\* DunInv holds in every reachable state.
LEMMA DunInvHolds == Spec => []DunInv
<1> QED
  BY DunInvInit, DunInvStep, PTL DEF Spec

\* Beside overlapping requests, payments and any number of processors, every
\* schedule row, run and subscription has the type the model declares.
THEOREM DunTypeCorrect == Spec => []DunTypeOK
<1>1. DunInv => DunTypeOK
  BY DEF DunInv
<1> QED
  BY <1>1, DunInvHolds, PTL

-----------------------------------------------------------------------------
(* Whatever happens.                                                       *)

\* Executing a row changes no other run, and the row stays taken.
LEMMA ExecuteFrame ==
  ASSUME DunTypeOK, NEW w \in Processors, NEW r \in Rows, NEW o \in Settled,
         Executes(w, r, o)
  PROVE  /\ run[w] \in Run /\ run[w] # NoRun /\ run'[w] # NoRun
         /\ \A v \in Processors \ {w} : run'[v] = run[v]
         /\ \A v \in Processors : run[v] # NoRun => Taken(v)' = Taken(v)
         /\ \A q \in Rows : run'[w].out[q] = IF q = r THEN o ELSE run[w].out[q]
<1>1. /\ run[w] # NoRun /\ r \in run[w].todo
      /\ run' = [run EXCEPT ![w] = run'[w]] /\ run'[w] \in Run
      /\ run'[w].todo = run[w].todo \ {r}
      /\ run'[w].out = [run[w].out EXCEPT ![r] = o]
  BY DEF Executes
<1>2. run \in [Processors -> Run \cup {NoRun}] /\ run[w] \in Run
  BY <1>1 DEF DunTypeOK
<1>3. run[w].out \in [Rows -> RowStates]
  BY <1>2 DEF Run
<1>4. \A v \in Processors \ {w} : run'[v] = run[v]
  BY <1>1, <1>2
<1>5. \A q \in Rows : run'[w].out[q] = IF q = r THEN o ELSE run[w].out[q]
  BY <1>1, <1>3
<1>6. Taken(w)' = Taken(w)
  BY <1>1, <1>5 DEF Taken, Settled
<1>7. \A v \in Processors \ {w} : Taken(v)' = Taken(v)
  BY <1>4 DEF Taken
<1> QED
  BY <1>1, <1>2, <1>4, <1>5, <1>6, <1>7, DunningAssumption

\* The end of a run, committed or not, changes no other run; a commit stores
\* the outcomes.
LEMMA EndFrame ==
  ASSUME DunTypeOK, NEW w \in Processors, FinishRun(w) \/ AbortRun(w)
  PROVE  /\ run[w] \in Run /\ run[w] # NoRun /\ run'[w] = NoRun
         /\ \A v \in Processors \ {w} : run'[v] = run[v] /\ Taken(v)' = Taken(v)
         /\ UNCHANGED <<invoice, since, now>>
         /\ AbortRun(w) => row' = row
         /\ FinishRun(w) =>
              /\ Taken(w) = {r \in Rows : run[w].out[r] # "pending"}
              /\ \A r \in Rows :
                   /\ run[w].out[r] \in RowStates
                   /\ row'[r] = IF r \in Taken(w) THEN run[w].out[r] ELSE row[r]
<1>1. /\ run[w] # NoRun /\ run' = [run EXCEPT ![w] = NoRun]
      /\ UNCHANGED <<invoice, since, now>>
      /\ FinishRun(w) =>
           /\ run[w].todo = {}
           /\ row' = [r \in Rows |-> IF run[w].out[r] = "pending" THEN row[r]
                                     ELSE run[w].out[r]]
      /\ AbortRun(w) => row' = row
  BY DEF FinishRun, AbortRun
<1>2. run[w] \in Run /\ run \in [Processors -> Run \cup {NoRun}]
  BY <1>1 DEF DunTypeOK
<1>3. run[w].out \in [Rows -> RowStates]
  BY <1>2 DEF Run
<1>4. \A v \in Processors \ {w} : run'[v] = run[v] /\ Taken(v)' = Taken(v)
  BY <1>1, <1>2 DEF Taken
<1>5. FinishRun(w) =>
        /\ Taken(w) = {r \in Rows : run[w].out[r] # "pending"}
        /\ \A r \in Rows :
             /\ run[w].out[r] \in RowStates
             /\ row'[r] = IF r \in Taken(w) THEN run[w].out[r] ELSE row[r]
  BY <1>1, <1>3 DEF Taken
<1> QED
  BY <1>1, <1>2, <1>4, <1>5

\* EscalateInv is inductive: a run selects every due row at once, and an
\* earlier step is due whenever a later one is.
LEMMA EscalateInvStep ==
  ASSUME DunInv, EscalateInv, [Next]_vars
  PROVE  EscalateInv'
<1>1. DunTypeOK /\ BatchInv
  BY DEF DunInv
<1>2. \A b \in Batches, k \in Steps : <<b, k>> \in Rows
  BY DEF Rows
<1>3. ASSUME UNCHANGED <<row, run>>, \A i \in Invoices : ~Found(i) => ~Found(i)'
      PROVE  EscalateInv'
  BY <1>3, DunningAssumption DEF EscalateInv, StepsEscalate, Taken
<1>4. ASSUME NEW b \in Batches, CreateBatch(b) PROVE EscalateInv'
  <2>1. /\ UNCHANGED <<run, invoice>> /\ row[<<b, 1>>] = "none" /\ 1 \in Steps
        /\ \A c \in Batches, k \in Steps :
             row'[<<c, k>>] = IF c = b THEN "pending" ELSE row[<<c, k>>]
    BY <1>2, <1>4, ScheduleFacts DEF CreateBatch
  <2>2. \A k \in Steps : row[<<b, k>>] = "none"
    BY <1>1, <2>1 DEF BatchInv
  <2>3. StepsEscalate'
    BY <2>1 DEF EscalateInv, StepsEscalate, Found, Settled
  <2>4. \A v \in Processors : run[v] # NoRun => Taken(v)' = Taken(v) /\
          \A k \in Steps : <<b, k>> \notin Taken(v)
    BY <1>1, <2>1, <2>2 DEF BatchInv, Taken
  <2> QED
    BY <2>1, <2>3, <2>4 DEF EscalateInv, Found
<1>5. ASSUME NEW w \in Processors, StartRun(w) PROVE EscalateInv'
  <2>1. /\ run' = [run EXCEPT ![w] = run'[w]] /\ UNCHANGED <<row, invoice>>
        /\ run'[w].todo = {r \in Rows : Due(r)}
        /\ run'[w].out = [r \in Rows |-> "pending"]
    BY <1>1, <1>5, Starting
  <2>2. StepsEscalate'
    BY <2>1 DEF EscalateInv, StepsEscalate, Found
  <2>3. Taken(w)' = {r \in Rows : Due(r)}
    BY <2>1 DEF Taken
  <2>4. ASSUME NEW b \in Batches, NEW j \in Steps, NEW k \in Steps, j < k,
               <<b, k>> \in Taken(w)'
        PROVE  <<b, j>> \in Taken(w)' \/ row'[<<b, j>>] \in Settled
    <3>1. /\ row[<<b, k>>] = "pending"
          /\ since[b] + Schedule[k].day <= now
      BY <2>3, <2>4 DEF Due
    <3>2. row[<<b, j>>] # "none" /\ row[<<b, j>>] \in RowStates \cup {"none"}
      BY <1>1, <1>2, <3>1 DEF BatchInv, DunTypeOK
    <3>3. since[b] + Schedule[j].day <= now
      BY <1>1, <2>4, <3>1, ScheduleFacts DEF DunTypeOK
    <3>4. row[<<b, j>>] = "pending" => Due(<<b, j>>)
      BY <3>3 DEF Due
    <3> QED
      BY <1>2, <2>1, <2>3, <3>2, <3>4 DEF RowStates, Settled
  <2>5. \A v \in Processors \ {w} : run'[v] = run[v] /\ Taken(v)' = Taken(v)
    BY <1>1, <2>1 DEF DunTypeOK, Taken
  <2> QED
    BY <2>1, <2>2, <2>4, <2>5 DEF EscalateInv, Found
<1>6. ASSUME NEW w \in Processors, NEW r \in Rows, NEW o \in Settled,
             Executes(w, r, o)
      PROVE  EscalateInv'
  <2>1. UNCHANGED <<row, invoice>>
    BY <1>6 DEF Executes
  <2>2. \A v \in Processors : run'[v] # NoRun => run[v] # NoRun /\ Taken(v)' = Taken(v)
    BY <1>1, <1>6, ExecuteFrame
  <2> QED
    BY <2>1, <2>2 DEF EscalateInv, StepsEscalate, Found
<1>7. ASSUME NEW w \in Processors, FinishRun(w) PROVE EscalateInv'
  <2>1. /\ run'[w] = NoRun /\ run[w] # NoRun
        /\ \A v \in Processors \ {w} : run'[v] = run[v] /\ Taken(v)' = Taken(v)
        /\ invoice' = invoice
        /\ \A b \in Batches, k \in Steps :
             /\ row'[<<b, k>>] = IF <<b, k>> \in Taken(w)
                                   THEN run[w].out[<<b, k>>] ELSE row[<<b, k>>]
             /\ <<b, k>> \in Taken(w) => run[w].out[<<b, k>>] \in Settled
    BY <1>1, <1>2, <1>7, EndFrame DEF RowStates, Settled
  <2>2. \A b \in Batches, k \in Steps :
          /\ row[<<b, k>>] \in Settled \/ <<b, k>> \in Taken(w)
               => row'[<<b, k>>] \in Settled
          /\ row'[<<b, k>>] \in Settled
               => row[<<b, k>>] \in Settled \/ <<b, k>> \in Taken(w)
    BY <2>1
  <2>3. \A b \in Batches, j, k \in Steps : j < k /\ <<b, k>> \in Taken(w) =>
          <<b, j>> \in Taken(w) \/ row[<<b, j>>] \in Settled \/ ~Found(InvoiceOf[b])
    BY <2>1 DEF EscalateInv
  <2>4. StepsEscalate'
    BY <2>1, <2>2, <2>3 DEF EscalateInv, StepsEscalate, Found
  <2> QED
    BY <2>1, <2>2, <2>4 DEF EscalateInv, Found
<1>8. ASSUME NEW w \in Processors, AbortRun(w) PROVE EscalateInv'
  BY <1>1, <1>8, EndFrame DEF EscalateInv, StepsEscalate, Found
<1>9. ASSUME NEW w \in Processors, NEW r \in Rows, run[w] # NoRun, Miss(w, r)
      PROVE  EscalateInv'
  <2>1. /\ \A v \in Processors \ {w} : run'[v] = run[v] /\ Taken(v)' = Taken(v)
        /\ Taken(w)' \subseteq Taken(w) /\ Taken(w) \subseteq Taken(w)' \cup {r}
        /\ ~Found(InvoiceOf[r[1]]) /\ UNCHANGED <<row, invoice>>
    BY <1>1, <1>9, Missing
  <2>2. StepsEscalate'
    BY <2>1 DEF EscalateInv, StepsEscalate, Found
  <2>3. ASSUME NEW b \in Batches, NEW j \in Steps, NEW k \in Steps, j < k,
               <<b, k>> \in Taken(w)'
        PROVE  \/ <<b, j>> \in Taken(w)'
               \/ row'[<<b, j>>] \in Settled
               \/ ~Found(InvoiceOf[b])'
    <3>1. CASE <<b, j>> = r
      BY <2>1, <3>1 DEF Found
    <3>2. CASE <<b, j>> # r
      BY <1>9, <2>1, <2>3, <3>2 DEF EscalateInv, Found
    <3> QED
      BY <3>1, <3>2
  <2> QED
    BY <2>1, <2>2, <2>3 DEF EscalateInv, Found
<1>10. ASSUME NEW i \in Invoices, Marks(i) PROVE EscalateInv'
  <2>1. /\ UNCHANGED <<row, run>>
        /\ \A j \in Invoices : ~Found(j) => ~Found(j)'
    BY <1>1, <1>10 DEF Marks, Pay, CancelInvoice, RemoveInvoice, Found, DunTypeOK
  <2> QED
    BY <1>3, <2>1
<1>11. ASSUME UNCHANGED <<row, run, invoice>> PROVE EscalateInv'
  BY <1>3, <1>11 DEF Found
<1> QED
  BY <1>1, <1>4, <1>5, <1>6, <1>7, <1>8, <1>9, <1>10, <1>11, StepKinds
     DEF vars, dunVars, Tick

\* Whatever order the database returns the rows in and however the runs of
\* several processors overlap, no step of a batch is settled before the
\* earlier ones, unless its invoice is deleted (dunning_service.py,
\* process_pending).
THEOREM StepsAreTakenInOrder == Spec => []StepsEscalate
<1>1. Init => EscalateInv
  BY DEF Init, EscalateInv, StepsEscalate, Rows
<1>2. EscalateInv => StepsEscalate
  BY DEF EscalateInv
<1> QED
  BY <1>1, <1>2, EscalateInvStep, DunInvHolds, PTL DEF Spec

\* No request pauses a subscription.
LEMMA RequestsDoNotPause ==
  ASSUME NEW t \in Tx, UpToDate(t), NEW s \in Subs
  PROVE  t.set[s] # "paused"
<1> USE SubscriptionAssumption
<1>1. Selects(t) => t.set[s] # "paused"
  BY DEF Selects, States
<1>2. ASSUME NEW r \in Subs,
             \/ Inserts(t, r) \/ Upgrades(t, r) \/ Schedules(t, r)
             \/ Finalizes(t, r) \/ Activates(t, r) \/ Closes(t, r)
      PROVE  t.set[s] # "paused"
  <2>1. CASE r = s
    BY <1>2, <2>1 DEF Inserts, Upgrades, Schedules, Finalizes, Activates, Closes,
                      WritesOnly, Toward, States
  <2>2. CASE r # s
    <3>1. Untouched(t, s)
      BY <1>2, <2>2 DEF Inserts, Upgrades, Schedules, Finalizes, Activates,
                        Closes, WritesOnly
    <3> QED
      BY <3>1 DEF Untouched, States
  <2> QED
    BY <2>1, <2>2
<1> QED
  BY <1>1, <1>2 DEF UpToDate

\* PauseInv is inductive.
LEMMA PauseInvStep ==
  ASSUME DunInv, PauseInv, [Next]_vars
  PROVE  PauseInv'
<1> USE DunningAssumption, SubscriptionAssumption
<1>1. DunTypeOK /\ SubTypeOK /\ InsertInv /\ BatchInv
  BY DEF DunInv, DunTypeOK
<1>2. \A s \in Subs : status[s] = "paused" =>
        \E r \in Rows : Suspends(r, s) /\ row[r] \in {"success", "skipped"}
  BY DEF PauseInv, PausedByDunning, Suspends
<1>3. CASE UNCHANGED <<subVars, row, run>>
  BY <1>3 DEF PauseInv, PausedByDunning, Suspends, subVars
<1>4. ASSUME NEW w \in Workers \ Processors, Request(w), UNCHANGED dunVars
      PROVE  PauseInv'
  <2>1. row' = row /\ run' = run
    BY <1>4 DEF dunVars
  <2>2. \A v \in Workers \ {w} : stx'[v] = stx[v]
    BY <1>1, <1>4, RequestFrame
  <2>3. ASSUME NEW s \in Subs
        PROVE  /\ status'[s] = "paused" => status[s] = "paused"
               /\ stx'[w] # NoTx => stx'[w].set[s] # "paused"
    <3>1. CASE CommitSub(w)
      <4>1. status'[s] = Written(status[s], stx[w].set[s]) /\ stx'[w] = NoTx
        BY <1>1, <3>1, CommitSubWrites
      <4>2. stx[w].set[s] # "paused"
        BY <3>1 DEF PauseInv, CommitSub
      <4> QED
        BY <4>1, <4>2 DEF Written
    <3>2. CASE RollbackSub(w)
      BY <1>1, <3>2 DEF RollbackSub, SubTypeOK, rows
    <3>3. ASSUME NEW t \in Tx, Opens(w, t)
          PROVE  /\ status'[s] = "paused" => status[s] = "paused"
                 /\ stx'[w] # NoTx => stx'[w].set[s] # "paused"
      <4>1. status' = status /\ stx'[w] = t /\ UpToDate(t)
        BY <1>1, <3>3 DEF Opens, Begin, SubTypeOK, rows
      <4> QED
        BY <4>1, RequestsDoNotPause
    <3> QED
      BY <1>1, <1>4, <3>1, <3>2, <3>3, RequestOpens
  <2>4. PausedByDunning'
    BY <1>2, <2>1, <2>3 DEF PausedByDunning, Suspends
  <2>5. ASSUME NEW v \in Workers, NEW s \in Subs, stx'[v] # NoTx,
               stx'[v].set[s] = "paused"
        PROVE  v \in Processors /\ \E r \in Rows :
                 Suspends(r, s) /\ run'[v].out[r] = "success"
    BY <2>1, <2>2, <2>3, <2>5 DEF PauseInv
  <2> QED
    BY <2>1, <2>4, <2>5 DEF PauseInv, Suspends
<1>5. ASSUME NEW b \in Batches, CreateBatch(b) PROVE PauseInv'
  <2>1. /\ UNCHANGED <<subVars, run>> /\ row[<<b, 1>>] = "none"
        /\ \A r \in Rows : row'[r] = IF r[1] = b THEN "pending" ELSE row[r]
    BY <1>5 DEF CreateBatch
  <2>2. \A r \in Rows : r[1] = b => row[r] = "none"
    <3>1. 1 \in Steps
      BY ScheduleFacts
    <3> QED
      BY <1>1, <2>1, <3>1, RowFacts DEF BatchInv
  <2>3. \A r \in Rows : row'[r] = row[r] \/ row[r] = "none"
    BY <2>1, <2>2
  <2>4. \A r \in Rows : row'[r] = "failed" => row[r] = "failed"
    BY <2>1
  <2>5. PausedByDunning'
    BY <1>2, <2>1, <2>3 DEF PausedByDunning, Suspends, subVars
  <2> QED
    BY <2>1, <2>4, <2>5 DEF PauseInv, Suspends, subVars
<1>6. ASSUME NEW w \in Processors, StartRun(w) PROVE PauseInv'
  <2>1. /\ UNCHANGED <<rows, row>>
        /\ run'[w].out = [r \in Rows |-> "pending"]
        /\ run' = [run EXCEPT ![w] = run'[w]]
        /\ stx' = [stx EXCEPT ![w] = NoWrites]
    BY <1>1, <1>6, Starting
  <2>2. \A v \in Processors \ {w} : run'[v] = run[v]
    BY <1>1, <2>1 DEF DunTypeOK
  <2>3. \A v \in Workers : stx'[v] = IF v = w THEN NoWrites ELSE stx[v]
    BY <1>1, <2>1 DEF SubTypeOK
  <2>4. \A s \in Subs : NoWrites.set[s] # "paused"
    BY NoWritesType DEF Untouched, States
  <2>5. PausedByDunning'
    BY <1>2, <2>1 DEF PausedByDunning, Suspends, rows
  <2>6. ASSUME NEW v \in Workers, NEW s \in Subs, stx'[v] # NoTx,
               stx'[v].set[s] = "paused"
        PROVE  v \in Processors /\ \E r \in Rows :
                 Suspends(r, s) /\ run'[v].out[r] = "success"
    BY <2>2, <2>3, <2>4, <2>6 DEF PauseInv
  <2>7. ASSUME NEW v \in Processors, run'[v] # NoRun, NEW r \in Rows,
               run'[v].out[r] = "failed"
        PROVE  Schedule[r[2]].action = "retry"
    BY <2>1, <2>2, <2>7 DEF PauseInv
  <2> QED
    BY <2>1, <2>5, <2>6, <2>7 DEF PauseInv, Suspends
<1>7. ASSUME NEW w \in Processors, NEW r \in Rows, NEW o \in Settled,
             Executes(w, r, o)
      PROVE  PauseInv'
  <2> DEFINE s == SubOf[InvoiceOf[r[1]]]
             new == Target[Schedule[r[2]].action]
  <2>1. /\ UNCHANGED <<rows, row>> /\ run[w] # NoRun
        /\ o = "failed" => Schedule[r[2]].action = "retry"
        /\ o = "success" => Schedule[r[2]].action \in DOMAIN Target
    BY <1>7 DEF Executes
  <2>2. /\ \A v \in Processors \ {w} : run'[v] = run[v]
        /\ \A q \in Rows : run'[w].out[q] = IF q = r THEN o ELSE run[w].out[q]
    BY <1>1, <1>7, ExecuteFrame
  <2>3. stx[w] \in Tx /\ stx[w] # NoTx
    BY <1>1, <2>1 DEF DunTypeOK, SubTypeOK
  <2>4. /\ \A v \in Workers \ {w} : stx'[v] = stx[v]
        /\ \A q \in Subs : stx'[w].set[q] = "paused" =>
             \/ stx[w].set[q] = "paused"
             \/ q = s /\ o = "success" /\ new = "paused"
    <3>1. CASE o = "success"
      <4>1. PICK x \in {stx[w].set[s], new} :
              stx' = [stx EXCEPT ![w] = [stx[w] EXCEPT !.set[s] = x]]
        BY <1>7, <3>1 DEF Executes
      <4>2. stx'[w] = [stx[w] EXCEPT !.set[s] = x]
        BY <1>1, <4>1 DEF SubTypeOK
      <4>3. stx[w].set \in [Subs -> States \cup {Keep}]
        BY <2>3 DEF Tx
      <4>4. \A q \in Subs : stx'[w].set[q] = IF q = s THEN x ELSE stx[w].set[q]
        BY <2>3, <4>2, <4>3 DEF Tx
      <4> QED
        BY <1>1, <3>1, <4>1, <4>4 DEF SubTypeOK
    <3>2. CASE o # "success"
      BY <1>7, <3>2 DEF Executes
    <3> QED
      BY <3>1, <3>2
  <2>5. o = "success" /\ new = "paused" => Suspends(r, s)
    BY <2>1, ScheduleFacts, RowFacts DEF Target, Suspends
  <2>6. PausedByDunning'
    BY <1>2, <2>1 DEF PausedByDunning, Suspends, rows
  <2>7. ASSUME NEW v \in Workers, NEW q \in Subs, stx'[v] # NoTx,
               stx'[v].set[q] = "paused"
        PROVE  v \in Processors /\ \E u \in Rows :
                 Suspends(u, q) /\ run'[v].out[u] = "success"
    <3>1. CASE v # w
      BY <2>2, <2>4, <2>7, <3>1 DEF PauseInv
    <3>2. CASE v = w /\ stx[w].set[q] = "paused"
      <4>1. PICK u \in Rows : Suspends(u, q) /\ run[w].out[u] = "success"
        BY <2>3, <3>2 DEF PauseInv
      <4>2. run[w].out[r] = "pending"
        BY <1>1, <1>7, <2>1 DEF BatchInv, Executes
      <4> QED
        BY <2>2, <3>2, <4>1, <4>2
    <3>3. CASE v = w /\ stx[w].set[q] # "paused"
      BY <2>2, <2>4, <2>5, <2>7, <3>3
    <3> QED
      BY <3>1, <3>2, <3>3
  <2>8. ASSUME NEW v \in Processors, run'[v] # NoRun, NEW q \in Rows,
               run'[v].out[q] = "failed"
        PROVE  Schedule[q[2]].action = "retry"
    BY <2>1, <2>2, <2>8 DEF PauseInv
  <2> QED
    BY <2>1, <2>6, <2>7, <2>8 DEF PauseInv, Suspends
<1>8. ASSUME NEW w \in Processors, FinishRun(w) PROVE PauseInv'
  <2>1. /\ run'[w] = NoRun /\ run[w] # NoRun
        /\ \A v \in Processors \ {w} : run'[v] = run[v]
        /\ \A r \in Rows :
             row'[r] = IF run[w].out[r] # "pending" THEN run[w].out[r] ELSE row[r]
        /\ \A r \in Rows : run[w].out[r] \in RowStates
    BY <1>1, <1>8, EndFrame
  <2>2. /\ \A q \in Subs : status'[q] = Written(status[q], stx[w].set[q])
        /\ \A v \in Workers : stx'[v] = IF v = w THEN NoTx ELSE stx[v]
        /\ stx[w] # NoTx
    BY <1>1, <1>8, CommitSubWrites DEF FinishRun
  <2>3. \A r \in Rows : row'[r] = "failed" => Schedule[r[2]].action = "retry"
    BY <2>1 DEF PauseInv
  <2>4. ASSUME NEW q \in Subs, status'[q] = "paused"
        PROVE  \E r \in Rows : Suspends(r, q) /\ row'[r] \in {"success", "skipped"}
    <3>1. PICK r \in Rows : /\ Suspends(r, q)
                            /\ \/ row[r] \in {"success", "skipped"}
                               \/ run[w].out[r] = "success"
      <4>1. CASE status[q] = "paused"
        BY <1>2, <4>1
      <4>2. CASE stx[w].set[q] = "paused"
        BY <2>2, <4>2 DEF PauseInv
      <4> QED
        BY <2>2, <2>4, <4>1, <4>2 DEF Written
    <3>2. row'[r] # "failed"
      BY <2>3, <3>1 DEF Suspends
    <3> QED
      BY <2>1, <3>1, <3>2 DEF RowStates, Settled
  <2>5. PausedByDunning'
    BY <2>4 DEF PausedByDunning, Suspends
  <2>6. ASSUME NEW v \in Workers, NEW q \in Subs, stx'[v] # NoTx,
               stx'[v].set[q] = "paused"
        PROVE  v \in Processors /\ \E r \in Rows :
                 Suspends(r, q) /\ run'[v].out[r] = "success"
    BY <2>1, <2>2, <2>6 DEF PauseInv
  <2>7. ASSUME NEW v \in Processors, run'[v] # NoRun, NEW r \in Rows,
               run'[v].out[r] = "failed"
        PROVE  Schedule[r[2]].action = "retry"
    BY <2>1, <2>7 DEF PauseInv
  <2> QED
    BY <2>3, <2>5, <2>6, <2>7 DEF PauseInv, Suspends
<1>9. ASSUME NEW w \in Processors, AbortRun(w) PROVE PauseInv'
  <2>1. /\ run'[w] = NoRun /\ row' = row
        /\ \A v \in Processors \ {w} : run'[v] = run[v]
    BY <1>1, <1>9, EndFrame
  <2>2. /\ UNCHANGED rows
        /\ \A v \in Workers : stx'[v] = IF v = w THEN NoTx ELSE stx[v]
    BY <1>1, <1>9 DEF AbortRun, RollbackSub, SubTypeOK
  <2>3. PausedByDunning'
    BY <1>2, <2>1, <2>2 DEF PausedByDunning, Suspends, rows
  <2> QED
    BY <2>1, <2>2, <2>3 DEF PauseInv, Suspends
<1>10. ASSUME NEW w \in Processors, NEW r \in Rows, run[w] # NoRun, Miss(w, r)
       PROVE  PauseInv'
  <2>1. /\ UNCHANGED <<subVars, row>> /\ run'[w].out = run[w].out
        /\ \A v \in Processors \ {w} : run'[v] = run[v]
    BY <1>1, <1>10, Missing
  <2>2. \A v \in Processors : /\ run'[v].out = run[v].out
                             /\ run'[v] # NoRun => run[v] # NoRun
    BY <1>10, <2>1
  <2>3. PausedByDunning'
    BY <1>2, <2>1 DEF PausedByDunning, Suspends, subVars
  <2> QED
    BY <2>1, <2>2, <2>3 DEF PauseInv, Suspends, subVars
<1> QED
  BY <1>1, <1>3, <1>4, <1>5, <1>6, <1>7, <1>8, <1>9, <1>10, StepKinds
     DEF vars, dunVars, Marks, Pay, CancelInvoice, RemoveInvoice, Tick

\* Whoever writes to a subscription meanwhile, from whatever rows it has
\* read, and however many processors run, a paused subscription has a suspend
\* row that was executed (dunning_service.py, SuspendAction).
THEOREM PausesAreDunnings == Spec => []PausedByDunning
<1>1. Init => PauseInv
  BY SubscriptionAssumption
     DEF Init, SubInit, PauseInv, PausedByDunning, Suspends
<1>2. PauseInv => PausedByDunning
  BY DEF PauseInv
<1> QED
  BY <1>1, <1>2, PauseInvStep, DunInvHolds, PTL DEF Spec

-----------------------------------------------------------------------------
(* One processor: one run is open at a time.                               *)

\* FinalInv is inductive: another run that stored outcomes, or a new batch of
\* the same rows, could not come between the selection and the commit.
LEMMA FinalInvStep ==
  ASSUME \A v, w \in Processors : v = w, DunInv, FinalInv, [Next]_vars
  PROVE  FinalInv'
<1> USE DunningAssumption
<1>1. DunTypeOK /\ BatchInv
  BY DEF DunInv
<1>2. ASSUME UNCHANGED <<row, run>> PROVE FinalInv'
  BY <1>2 DEF FinalInv, Taken
<1>3. ASSUME NEW b \in Batches, CreateBatch(b) PROVE FinalInv'
  <2>1. /\ run' = run
        /\ \A r \in Rows : row'[r] = IF r[1] = b THEN "pending" ELSE row[r]
    BY <1>3 DEF CreateBatch
  <2>2. \A w \in Processors : run[w] # NoRun =>
          Taken(w)' = Taken(w) /\ Taken(w) \subseteq Rows
    BY <1>1, <2>1 DEF Taken, Run, DunTypeOK
  <2> QED
    BY <2>1, <2>2 DEF FinalInv
<1>4. ASSUME NEW w \in Processors, StartRun(w) PROVE FinalInv'
  <2>1. /\ run' = [run EXCEPT ![w] = run'[w]] /\ UNCHANGED row
        /\ run'[w].todo = {r \in Rows : Due(r)}
        /\ run'[w].out = [r \in Rows |-> "pending"]
    BY <1>1, <1>4, Starting
  <2>2. \A v \in Processors \ {w} : run'[v] = NoRun
    OBVIOUS
  <2>3. Taken(w)' = {r \in Rows : Due(r)}
    BY <2>1 DEF Taken
  <2>4. \A r \in Taken(w)' : row'[r] = "pending"
    BY <2>1, <2>3 DEF Due
  <2> QED
    BY <2>2, <2>4 DEF FinalInv
<1>5. ASSUME NEW w \in Processors, NEW r \in Rows, NEW o \in Settled,
             Executes(w, r, o)
      PROVE  FinalInv'
  <2>1. row' = row
    BY <1>5 DEF Executes
  <2> QED
    BY <1>1, <1>5, <2>1, ExecuteFrame DEF FinalInv
<1>6. ASSUME NEW w \in Processors, FinishRun(w) \/ AbortRun(w) PROVE FinalInv'
  <2>1. \A v \in Processors : run'[v] = NoRun
    BY <1>1, <1>6, EndFrame DEF FinalInv
  <2> QED
    BY <2>1 DEF FinalInv
<1>7. ASSUME NEW w \in Processors, NEW r \in Rows, run[w] # NoRun, Miss(w, r)
      PROVE  FinalInv'
  BY <1>1, <1>7, Missing DEF FinalInv
<1> QED
  BY <1>1, <1>2, <1>3, <1>4, <1>5, <1>6, <1>7, StepKinds
     DEF vars, dunVars, Marks, Pay, CancelInvoice, RemoveInvoice, Tick

\* A step of the system does not change the outcome of a row.
LEMMA OutcomeStep ==
  ASSUME DunInv, FinalInv, [Next]_vars
  PROVE  \A r \in Rows : row[r] \in Settled => row'[r] = row[r]
<1> USE DunningAssumption
<1>1. DunTypeOK /\ BatchInv
  BY DEF DunInv
<1>2. SUFFICES ASSUME NEW r \in Rows, row[r] \in Settled PROVE row'[r] = row[r]
  OBVIOUS
<1>3. ASSUME NEW b \in Batches, CreateBatch(b) PROVE row'[r] = row[r]
  <2>1. /\ row[<<b, 1>>] = "none" /\ 1 \in Steps
        /\ row'[r] = IF r[1] = b THEN "pending" ELSE row[r]
    BY <1>3, ScheduleFacts DEF CreateBatch
  <2>2. r[1] # b
    BY <1>1, <1>2, <2>1, RowFacts DEF BatchInv, Settled
  <2> QED
    BY <2>1, <2>2
<1>4. ASSUME NEW w \in Processors, StartRun(w) PROVE row'[r] = row[r]
  BY <1>4 DEF StartRun
<1>5. ASSUME NEW w \in Processors, NEW q \in Rows, NEW o \in Settled,
             Executes(w, q, o)
      PROVE  row'[r] = row[r]
  BY <1>5 DEF Executes
<1>6. ASSUME NEW w \in Processors, FinishRun(w) \/ AbortRun(w)
      PROVE  row'[r] = row[r]
  BY <1>1, <1>2, <1>6, EndFrame DEF FinalInv, Settled
<1>7. ASSUME NEW w \in Processors, NEW q \in Rows, Miss(w, q)
      PROVE  row'[r] = row[r]
  BY <1>7 DEF Miss
<1> QED
  BY <1>1, <1>3, <1>4, <1>5, <1>6, <1>7, StepKinds
     DEF vars, dunVars, Marks, Pay, CancelInvoice, RemoveInvoice, Tick

\* With one processor, no row is executed twice: a run commits the outcomes
\* of rows that nobody else has settled since it selected them, whatever
\* requests and payments commit meanwhile (dunning_service.py,
\* process_pending).
THEOREM OutcomesAreFinal ==
  ASSUME \A v, w \in Processors : v = w
  PROVE  Spec => OutcomeIsFinal
<1>1. Init => FinalInv
  BY DEF Init, FinalInv
<1>2. DunInv /\ FinalInv /\ [Next]_vars => FinalInv'
  BY FinalInvStep
<1>3. DunInv /\ FinalInv /\ [Next]_vars =>
        [\A r \in Rows : row[r] \in Settled => row'[r] = row[r]]_vars
  BY OutcomeStep
<1> QED
  BY <1>1, <1>2, <1>3, DunInvHolds, PTL DEF Spec, OutcomeIsFinal

-----------------------------------------------------------------------------
(* Invoices that are paid.                                                 *)

\* SpareInv is inductive: the session keeps showing an invoice as it was when
\* the run began, and the actions go by what it shows.
LEMMA SpareInvStep ==
  ASSUME DunInv, SpareInv, [Next]_vars
  PROVE  SpareInv'
<1> USE DunningAssumption
<1>1. DunTypeOK
  BY DEF DunInv
<1>2. ASSUME UNCHANGED run PROVE SpareInv'
  BY <1>2 DEF SpareInv
<1>3. ASSUME NEW w \in Processors,
             \A v \in Processors \ {w} : run'[v] = run[v],
             \A r \in Rows : run'[w].out[r] = "success" =>
                             run'[w].inv[InvoiceOf[r[1]]] # "paid"
      PROVE  SpareInv'
  BY <1>3 DEF SpareInv
<1>4. ASSUME NEW w \in Processors, StartRun(w) PROVE SpareInv'
  <2>1. /\ run' = [run EXCEPT ![w] = run'[w]]
        /\ run'[w].out = [r \in Rows |-> "pending"]
    BY <1>1, <1>4, Starting
  <2>2. \A v \in Processors \ {w} : run'[v] = run[v]
    BY <1>1, <2>1 DEF DunTypeOK
  <2> QED
    BY <1>3, <2>1, <2>2
<1>5. ASSUME NEW w \in Processors, NEW r \in Rows, NEW o \in Settled,
             Executes(w, r, o)
      PROVE  SpareInv'
  <2>1. /\ run[w] # NoRun /\ run'[w].inv = run[w].inv
        /\ o = "success" => run[w].inv[InvoiceOf[r[1]]] # "paid"
    BY <1>5 DEF Executes
  <2>2. /\ \A v \in Processors \ {w} : run'[v] = run[v]
        /\ \A q \in Rows : run'[w].out[q] = IF q = r THEN o ELSE run[w].out[q]
    BY <1>1, <1>5, ExecuteFrame
  <2>3. ASSUME NEW q \in Rows, run'[w].out[q] = "success"
        PROVE  run'[w].inv[InvoiceOf[q[1]]] # "paid"
    BY <2>1, <2>2, <2>3 DEF SpareInv
  <2> QED
    BY <1>3, <2>2, <2>3
<1>6. ASSUME NEW w \in Processors, FinishRun(w) \/ AbortRun(w) PROVE SpareInv'
  BY <1>1, <1>6, EndFrame DEF SpareInv
<1>7. ASSUME NEW w \in Processors, NEW r \in Rows, run[w] # NoRun, Miss(w, r)
      PROVE  SpareInv'
  BY <1>1, <1>7, Missing DEF SpareInv
<1> QED
  BY <1>1, <1>2, <1>4, <1>5, <1>6, <1>7, StepKinds
     DEF vars, dunVars, CreateBatch, Marks, Pay, CancelInvoice, RemoveInvoice, Tick

\* A step that stores a success belongs to a run that has not seen the
\* invoice paid.
LEMMA SpareStep ==
  ASSUME DunInv, SpareInv, [Next]_vars, NEW r \in Rows,
         ~Unaware(InvoiceOf[r[1]]), row'[r] = "success"
  PROVE  row[r] = "success"
<1> USE DunningAssumption
<1>1. DunTypeOK
  BY DEF DunInv
<1>2. ASSUME NEW b \in Batches, CreateBatch(b) PROVE row[r] = "success"
  BY <1>2 DEF CreateBatch
<1>3. ASSUME NEW w \in Processors, FinishRun(w) PROVE row[r] = "success"
  <2>1. /\ run[w] # NoRun
        /\ row'[r] = IF r \in Taken(w) THEN run[w].out[r] ELSE row[r]
    BY <1>1, <1>3, EndFrame
  <2>2. run[w].out[r] # "success"
    BY <2>1 DEF SpareInv, Unaware
  <2> QED
    BY <2>1, <2>2
<1>4. ASSUME NEW w \in Processors, AbortRun(w) PROVE row[r] = "success"
  BY <1>1, <1>4, EndFrame
<1>5. ASSUME NEW w \in Processors, StartRun(w) PROVE row[r] = "success"
  BY <1>5 DEF StartRun
<1>6. ASSUME NEW w \in Processors, NEW q \in Rows, NEW o \in Settled,
             Executes(w, q, o)
      PROVE  row[r] = "success"
  BY <1>6 DEF Executes
<1>7. ASSUME NEW w \in Processors, NEW q \in Rows, Miss(w, q)
      PROVE  row[r] = "success"
  BY <1>7 DEF Miss
<1> QED
  BY <1>1, <1>2, <1>3, <1>4, <1>5, <1>6, <1>7, StepKinds
     DEF vars, dunVars, Marks, Pay, CancelInvoice, RemoveInvoice, Tick

\* Once an invoice is paid and the runs that began earlier have ended, no
\* later run pauses or closes a subscription for it, however many processors
\* there are and whatever else commits while they run (dunning_service.py,
\* SuspendAction and CancelAction).
THEOREM PaidInvoicesAreSpared == Spec => PaidBeforeRunIsSpared
<1>1. Init => SpareInv
  BY DEF Init, SpareInv
<1>2. DunInv /\ SpareInv /\ [Next]_vars => SpareInv'
  BY SpareInvStep
<1>3. DunInv /\ SpareInv /\ [Next]_vars =>
        [\A r \in Rows :
           LET i == InvoiceOf[r[1]]
           IN  invoice[i] = "paid" /\ ~Unaware(i) /\ row'[r] = "success"
                 => row[r] = "success"]_vars
  BY SpareStep
<1> QED
  BY <1>1, <1>2, <1>3, DunInvHolds, PTL DEF Spec, PaidBeforeRunIsSpared

-----------------------------------------------------------------------------
(* Subscriptions beside dunning.                                           *)

\* Dunning writes statuses only, and so keeps what the services guarantee of
\* plans and charges.
LEMMA ChargeInvBesideDunning ==
  ASSUME DunInv, ChargeInv, [Next]_vars
  PROVE  ChargeInv'
<1> USE DunningAssumption
<1>1. DunTypeOK /\ SubTypeOK /\ InsertInv
  BY DEF DunInv, DunTypeOK
<1>2. ASSUME UNCHANGED subVars PROVE ChargeInv'
  BY <1>2 DEF subVars, ChargeInv, PlanIsCharged, Charged, ChargedFor
<1>3. ASSUME NEW w \in Workers, NEW t \in Tx \cup {NoTx}, t # NoTx => UpToDate(t),
             stx' = [stx EXCEPT ![w] = t], UNCHANGED rows
      PROVE  ChargeInv'
  BY <1>1, <1>3, OpenIsCharged
<1>4. ASSUME NEW w \in Workers, Request(w) PROVE ChargeInv'
  <2>1. ASSUME NEW t \in Tx, Opens(w, t) PROVE ChargeInv'
    BY <1>3, <2>1 DEF Opens, Begin
  <2>2. ASSUME RollbackSub(w) PROVE ChargeInv'
    BY <1>3, <2>2 DEF RollbackSub
  <2> QED
    BY <1>1, <1>4, <2>1, <2>2, RequestOpens, CommitIsCharged
<1>5. ASSUME NEW w \in Processors, StartRun(w) PROVE ChargeInv'
  <2>1. NoWrites \in Tx /\ UpToDate(NoWrites)
    BY NoWritesType DEF UpToDate, Selects, Untouched
  <2>2. stx' = [stx EXCEPT ![w] = NoWrites] /\ UNCHANGED rows
    BY <1>1, <1>5, Starting
  <2> QED
    BY <1>3, <2>1, <2>2
<1>6. ASSUME NEW w \in Processors, NEW r \in Rows, NEW o \in Settled,
             Executes(w, r, o)
      PROVE  ChargeInv'
  <2>1. UNCHANGED rows /\ run[w] # NoRun
    BY <1>6 DEF Executes
  <2>2. ASSUME NEW v \in Workers, stx'[v] # NoTx
        PROVE  /\ stx[v] # NoTx
               /\ stx'[v].plan = stx[v].plan /\ stx'[v].down = stx[v].down
               /\ stx'[v].delta = stx[v].delta
    <3>1. PICK x : \/ stx' = stx
                   \/ stx' = [stx EXCEPT ![w] = [stx[w] EXCEPT !.set = x]]
      <4>1. CASE o = "success"
        <5> DEFINE s == SubOf[InvoiceOf[r[1]]]
        <5>1. PICK y : stx' = [stx EXCEPT ![w] = [stx[w] EXCEPT !.set[s] = y]]
          BY <1>6, <4>1 DEF Executes
        <5>2. stx' = [stx EXCEPT ![w] =
                        [stx[w] EXCEPT !.set = [stx[w].set EXCEPT ![s] = y]]]
          BY <5>1
        <5> QED
          BY <5>2
      <4>2. CASE o # "success"
        BY <1>6, <4>2 DEF Executes
      <4> QED
        BY <4>1, <4>2
    <3>2. stx[w] \in Tx /\ stx[w] # NoTx
      BY <1>1, <2>1 DEF DunTypeOK, SubTypeOK
    <3> QED
      BY <1>1, <2>2, <3>1, <3>2 DEF SubTypeOK, Tx
  <2> QED
    BY <2>1, <2>2 DEF rows, ChargeInv, PlanIsCharged, Charged, ChargedFor
<1>7. ASSUME NEW w \in Processors, FinishRun(w) PROVE ChargeInv'
  BY <1>1, <1>7, CommitIsCharged DEF FinishRun
<1>8. ASSUME NEW w \in Processors, AbortRun(w) PROVE ChargeInv'
  BY <1>3, <1>8 DEF AbortRun, RollbackSub
<1>9. ASSUME NEW w \in Processors, NEW r \in Rows, Miss(w, r) PROVE ChargeInv'
  BY <1>2, <1>9 DEF Miss
<1> QED
  BY <1>1, <1>2, <1>4, <1>5, <1>6, <1>7, <1>8, <1>9, StepKinds
     DEF vars, CreateBatch, Marks, Pay, CancelInvoice, RemoveInvoice, Tick

\* What is guaranteed of plans and charges stays so beside any number of
\* dunning runs, although they close and pause the subscriptions under the
\* upgrades and downgrades that have read them: nobody is on a plan, nor
\* scheduled to move to one, dearer than what was charged.
THEOREM PlansAreChargedBesideDunning == Spec => []PlanIsCharged
<1>1. Init => ChargeInv
  BY ChargeInvInit DEF Init
<1>2. ChargeInv => PlanIsCharged
  BY DEF ChargeInv
<1> QED
  BY <1>1, <1>2, ChargeInvBesideDunning, DunInvHolds, PTL DEF Spec
=============================================================================
