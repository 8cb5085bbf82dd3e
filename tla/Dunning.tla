------------------------------- MODULE Dunning -------------------------------
(***************************************************************************)
(* Dunning (services/billing/dunning_service.py) beside the subscriptions  *)
(* it pauses and closes.  A failed payment leaves a batch of schedule rows *)
(* for an invoice, one per step of config/dunning.py.  A run of            *)
(* process_pending is one transaction: it selects the due rows, executes   *)
(* them one after the other, in whatever order the database returned them, *)
(* and commits at the end.  Requests, payments and other runs commit in    *)
(* between.  The relationships are loaded eagerly: with the schedule rows  *)
(* come their invoices, with these their subscriptions, and the session    *)
(* shows both for the rest of the run as they were then.                   *)
(***************************************************************************)
EXTENDS SubscriptionLifecycle

CONSTANTS
  Processors,    \* the workers that execute process_pending
  Invoices,
  SubOf,         \* SubOf[i]: the subscription invoice i is for
  Batches,       \* calls of create_from_invoice
  InvoiceOf,     \* InvoiceOf[b]: the invoice of batch b
  Days,          \* bound: the days on which something can happen
  NoRun          \* "the processor is idle"

\* DUNNING_SCHEDULE
Schedule ==
  <<[day |-> 3, action |-> "retry"], [day |-> 7, action |-> "retry"],
    [day |-> 14, action |-> "suspend"], [day |-> 21, action |-> "cancel"]>>

Steps == DOMAIN Schedule
Rows == Batches \X Steps
InvoiceStates == {"unpaid", "paid", "cancelled", "deleted"}
Settled == {"success", "failed", "skipped"}
RowStates == Settled \cup {"pending"}

\* A run: the rows it has still to execute, the invoices and subscriptions
\* as its session shows them, and the statuses it gives to the rows it has
\* executed.
Run == [todo : SUBSET Rows, inv : [Invoices -> InvoiceStates],
        sub : [Subs -> States \cup {"none"}], out : [Rows -> RowStates]]

ASSUME DunningAssumption ==
  /\ Processors \subseteq Workers
  /\ SubOf \in [Invoices -> Subs]
  /\ InvoiceOf \in [Batches -> Invoices]
  /\ Days \subseteq Nat
  /\ NoRun \notin Run

VARIABLES
  invoice,  \* invoice[i]: what dunning tells apart of invoices.status
  row,      \* row[r]: dunning_schedules.status, "none" before the row exists
  since,    \* since[b]: the day batch b was created
  now,      \* the day
  run       \* run[w]: the open run of processor w

dunVars == <<invoice, row, since, now, run>>
vars == <<subVars, dunVars>>

DunTypeOK ==
  /\ SubTypeOK
  /\ invoice \in [Invoices -> InvoiceStates]
  /\ row \in [Rows -> RowStates \cup {"none"}]
  /\ since \in [Batches -> Nat]
  /\ now \in Nat
  /\ run \in [Processors -> Run \cup {NoRun}]
  /\ \A w \in Processors : run[w] = NoRun <=> stx[w] = NoTx

Init ==
  /\ SubInit
  /\ invoice = [i \in Invoices |-> "unpaid"]
  /\ row = [r \in Rows |-> "none"]
  /\ since = [b \in Batches |-> 0]
  /\ now = 0
  /\ run = [w \in Processors |-> NoRun]

\* Faulty: the comparison is the wrong way round.
Due_Reversed(r) == row[r] = "pending" /\ since[r[1]] + Schedule[r[2]].day >= now

\* scheduled_at <= now and status pending (find_pending_due).
Due(r) == row[r] = "pending" /\ since[r[1]] + Schedule[r[2]].day <= now

-----------------------------------------------------------------------------
(* The rest of the system.                                                 *)

\* create_from_invoice: nothing keeps a second batch of an invoice out, and
\* its status is not looked at.
CreateBatch(b) ==
  /\ row[<<b, 1>>] = "none"
  /\ status[SubOf[InvoiceOf[b]]] # "none"
  /\ row' = [r \in Rows |-> IF r[1] = b THEN "pending" ELSE row[r]]
  /\ since' = [since EXCEPT ![b] = now]
  /\ UNCHANGED <<subVars, invoice, now, run>>

\* PaymentService or PayPal marks the invoice paid (InvoicePayments).
Pay(i) ==
  /\ invoice[i] \in {"unpaid", "cancelled"}
  /\ invoice' = [invoice EXCEPT ![i] = "paid"]
  /\ UNCHANGED <<subVars, row, since, now, run>>

\* InvoiceService.cancel
CancelInvoice(i) ==
  /\ invoice[i] = "unpaid"
  /\ invoice' = [invoice EXCEPT ![i] = "cancelled"]
  /\ UNCHANGED <<subVars, row, since, now, run>>

\* soft_delete of the repository.  No route of this commit deletes invoices,
\* but the actions below provide for one that is not found.
RemoveInvoice(i) ==
  /\ invoice[i] # "deleted"
  /\ invoice' = [invoice EXCEPT ![i] = "deleted"]
  /\ UNCHANGED <<subVars, row, since, now, run>>

\* Time passes, to one of the later days.
Tick ==
  /\ \E d \in Days : now < d /\ now' = d
  /\ UNCHANGED <<subVars, invoice, row, since, run>>

-----------------------------------------------------------------------------
(* A run of process_pending.                                               *)

\* A run that has selected the rows due, and loaded what belongs to them.
Begun(due) == [todo |-> due, inv |-> invoice, sub |-> status,
               out |-> [r \in Rows |-> "pending"]]

StartRun(w) ==
  /\ run[w] = NoRun
  /\ stx[w] = NoTx
  /\ LET due == {r \in Rows : Due(r)}
     IN  due # {} /\ run' = [run EXCEPT ![w] = Begun(due)]
  /\ stx' = [stx EXCEPT ![w] = NoWrites]
  /\ UNCHANGED <<rows, invoice, row, since, now>>

\* find_by_id in an action: the database says whether the invoice is there,
\* the session what its status is.
Found(i) == invoice[i] # "deleted"

\* The status an action gives its subscription (SuspendAction, CancelAction).
Target == [suspend |-> "paused", cancel |-> "closed"]

\* Every action gives up on an invoice that is not found: the row has had
\* its turn and stays pending.
Miss(w, r) ==
  /\ r \in run[w].todo
  /\ ~Found(InvoiceOf[r[1]])
  /\ run' = [run EXCEPT ![w].todo = @ \ {r}]
  /\ UNCHANGED <<subVars, invoice, row, since, now>>

\* A paid invoice: the action marks its row skipped.  The invoice's other
\* statuses, cancelled among them, are no reason to skip.
Skip(w, r) ==
  LET i == InvoiceOf[r[1]]
  IN  /\ r \in run[w].todo
      /\ Found(i) /\ run[w].inv[i] = "paid"
      /\ run' = [run EXCEPT ![w].todo = @ \ {r}, ![w].out[r] = "skipped"]
      /\ UNCHANGED <<subVars, invoice, row, since, now>>

\* RetryAction: the retry is simulated, and fails.
Retry(w, r) ==
  LET i == InvoiceOf[r[1]]
  IN  /\ r \in run[w].todo
      /\ Schedule[r[2]].action = "retry"
      /\ Found(i) /\ run[w].inv[i] # "paid"
      /\ run' = [run EXCEPT ![w].todo = @ \ {r}, ![w].out[r] = "failed"]
      /\ UNCHANGED <<subVars, invoice, row, since, now>>

\* Faulty: the invoice is not looked at.
Punish_Anyway(w, r) ==
  LET s == SubOf[InvoiceOf[r[1]]]
      action == Schedule[r[2]].action
  IN  /\ r \in run[w].todo
      /\ action \in DOMAIN Target
      /\ run' = [run EXCEPT ![w].todo = @ \ {r}, ![w].out[r] = "success"]
      /\ stx' = [stx EXCEPT ![w].set[s] = Target[action]]
      /\ UNCHANGED <<rows, invoice, row, since, now>>

\* SuspendAction and CancelAction set the status of the subscription past
\* the status machine; the column is written if it differs from the one the
\* session shows, which is then read again.
Punish(w, r) ==
  LET i == InvoiceOf[r[1]]
      s == SubOf[i]
      action == Schedule[r[2]].action
      set == IF run[w].sub[s] = Target[action] THEN stx[w].set[s]
                                               ELSE Target[action]
  IN  /\ r \in run[w].todo
      /\ action \in DOMAIN Target
      /\ Found(i) /\ run[w].inv[i] # "paid"
      /\ run' = [run EXCEPT ![w].todo = @ \ {r}, ![w].out[r] = "success",
                            ![w].sub[s] = Written(status[s], set)]
      /\ stx' = [stx EXCEPT ![w].set[s] = set]
      /\ UNCHANGED <<rows, invoice, row, since, now>>

\* Faulty: the outcomes are not stored.
FinishRun_Forgets(w) ==
  /\ run[w] # NoRun
  /\ run[w].todo = {}
  /\ run' = [run EXCEPT ![w] = NoRun]
  /\ CommitSub(w)
  /\ UNCHANGED <<invoice, row, since, now>>

FinishRun(w) ==
  /\ run[w] # NoRun
  /\ run[w].todo = {}
  /\ row' = [r \in Rows |-> IF run[w].out[r] = "pending" THEN row[r]
                                                         ELSE run[w].out[r]]
  /\ run' = [run EXCEPT ![w] = NoRun]
  /\ CommitSub(w)
  /\ UNCHANGED <<invoice, since, now>>

AbortRun(w) ==
  /\ run[w] # NoRun
  /\ RollbackSub(w)
  /\ run' = [run EXCEPT ![w] = NoRun]
  /\ UNCHANGED <<invoice, row, since, now>>

-----------------------------------------------------------------------------

Execute(w, r) == Miss(w, r) \/ Skip(w, r) \/ Retry(w, r) \/ Punish(w, r)

Process(w) ==
  \/ StartRun(w)
  \/ \E r \in Rows : run[w] # NoRun /\ Execute(w, r)
  \/ FinishRun(w)

Others ==
  \/ \E w \in Workers \ Processors : Request(w) /\ UNCHANGED dunVars
  \/ \E b \in Batches : CreateBatch(b)
  \/ \E i \in Invoices : Pay(i)
  \/ \E i \in Invoices : CancelInvoice(i)
  \/ \E i \in Invoices : RemoveInvoice(i)
  \/ Tick

Next == Others \/ \E w \in Processors : Process(w) \/ AbortRun(w)

Spec == Init /\ [][Next]_vars

-----------------------------------------------------------------------------
(* Whatever happens.                                                       *)

\* The steps of a batch are taken in order: a run that takes one takes, or
\* finds taken, the earlier ones, whatever order the database returns.  Only
\* the rows of an invoice that was deleted meanwhile are passed over.
StepsEscalate ==
  \A b \in Batches, j, k \in Steps :
    j < k /\ row[<<b, k>>] \in Settled
      => row[<<b, j>>] \in Settled \/ ~Found(InvoiceOf[b])

\* A subscription is paused by dunning only: the suspend step of one of its
\* invoices was executed, whoever else wrote to the subscription meanwhile
\* (a second processor may have overwritten the outcome with skipped).
PausedByDunning ==
  \A s \in Subs : status[s] = "paused" =>
    \E r \in Rows : /\ SubOf[InvoiceOf[r[1]]] = s
                    /\ Schedule[r[2]].action = "suspend"
                    /\ row[r] \in {"success", "skipped"}

\* A run is open that began before invoice i was paid.
Unaware(i) == \E w \in Processors : run[w] # NoRun /\ run[w].inv[i] # "paid"

\* Once an invoice is paid and the runs that began earlier have ended, no
\* subscription is paused or closed for it any more.
PaidBeforeRunIsSpared ==
  [][\A r \in Rows :
       LET i == InvoiceOf[r[1]]
       IN  invoice[i] = "paid" /\ ~Unaware(i) /\ row'[r] = "success"
             => row[r] = "success"]_vars

-----------------------------------------------------------------------------
(* One processor.                                                          *)

\* The outcome of a row is final: no row is executed twice.
OutcomeIsFinal ==
  [][\A r \in Rows : row[r] \in Settled => row'[r] = row[r]]_vars

-----------------------------------------------------------------------------
(* What the repository says, and the code does not always do.              *)

\* "Cancel the subscription permanently." (CancelAction): once a cancel step
\* has succeeded and its subscription is closed, it stays closed.
CancelledForGood ==
  [][\A r \in Rows :
       LET s == SubOf[InvoiceOf[r[1]]]
       IN  /\ Schedule[r[2]].action = "cancel" /\ row[r] = "success"
           /\ status[s] = "closed"
           => status'[s] = "closed"]_vars

-----------------------------------------------------------------------------
(* Inductive invariants: what the open runs have taken on.                 *)

\* The rows that the run of w selected: still to do, or executed.
Taken(w) == run[w].todo \cup {r \in Rows : run[w].out[r] # "pending"}

\* Behind DunTypeOK: the rows of a batch appear together, for a subscription
\* that exists; a run takes on rows that exist, and executes each one once.
BatchInv ==
  /\ \A b \in Batches, j, k \in Steps :
       row[<<b, j>>] = "none" => row[<<b, k>>] = "none"
  /\ \A r \in Rows : row[r] # "none" => status[SubOf[InvoiceOf[r[1]]]] # "none"
  /\ \A w \in Processors : run[w] # NoRun =>
       /\ \A r \in Taken(w) : row[r] # "none"
       /\ \A r \in run[w].todo : run[w].out[r] = "pending"

\* Behind StepsEscalate: with a step, a run takes on the earlier ones that
\* are not settled.
EscalateInv ==
  /\ StepsEscalate
  /\ \A w \in Processors : run[w] # NoRun =>
       \A b \in Batches, j, k \in Steps : j < k /\ <<b, k>> \in Taken(w) =>
         \/ <<b, j>> \in Taken(w)
         \/ row[<<b, j>>] \in Settled
         \/ ~Found(InvoiceOf[b])

Suspends(r, s) == SubOf[InvoiceOf[r[1]]] = s /\ Schedule[r[2]].action = "suspend"

\* Behind PausedByDunning: only a run pauses, and only along with a suspend
\* row, which is never stored as failed.
PauseInv ==
  /\ PausedByDunning
  /\ \A r \in Rows : row[r] = "failed" => Schedule[r[2]].action = "retry"
  /\ \A w \in Processors : run[w] # NoRun =>
       \A r \in Rows : run[w].out[r] = "failed" => Schedule[r[2]].action = "retry"
  /\ \A w \in Workers, s \in Subs : stx[w] # NoTx /\ stx[w].set[s] = "paused" =>
       w \in Processors /\ \E r \in Rows : Suspends(r, s) /\ run[w].out[r] = "success"

\* Behind OutcomeIsFinal: one run is open at a time, and what it took on
\* stays pending until it ends.
FinalInv ==
  \A w \in Processors : run[w] # NoRun =>
    /\ \A v \in Processors \ {w} : run[v] = NoRun
    /\ \A r \in Taken(w) : row[r] = "pending"

\* Behind PaidBeforeRunIsSpared: a run punishes for no invoice that was paid
\* when it began.
SpareInv ==
  \A w \in Processors : run[w] # NoRun =>
    \A r \in Rows : run[w].out[r] = "success" => run[w].inv[InvoiceOf[r[1]]] # "paid"
=============================================================================
