------------------------ MODULE SubscriptionLifecycle ------------------------
(***************************************************************************)
(* Subscriptions of one tenant (services/subscriptions, services/bulk):    *)
(* the status machine, activation and its invoice, plan upgrades and       *)
(* scheduled downgrades, the customers' portal and the bulk operations.    *)
(*                                                                         *)
(* As in InvoicePayments, a request is a transaction of two steps: a       *)
(* handler reads rows, checks them and prepares its writes; Commit applies *)
(* the columns it changed.  Nothing locks a row it has read.               *)
(*                                                                         *)
(* Rows are numbered in the order of their created_at.  The plans are      *)
(* fixed; an amount is counted at the price of a full billing cycle.       *)
(***************************************************************************)
EXTENDS Integers

CONSTANTS
  Workers,     \* requests that can be in flight at once
  Subs,        \* rows the table of subscriptions may come to hold
  Customers,
  Owner,       \* Owner[s]: customer_id of row s
  Plans,
  Price,       \* Price[p]: the price of plan p
  Closable,    \* plans whose flags_json does not say closable: false
  Desks,       \* who sends requests: portal, staff, bulk, beat
  Selectable,  \* rows the bulk operations may be given
  MaxDelta,    \* bound: no upgrade once the delta invoices exceed it
  Faults,      \* TRUE: a transaction may fail before it commits
  Keep,        \* "the ORM does not write this column"
  NoPlan,      \* downgrade_to_plan_id (and downgrade_at) is null
  NoTx         \* "the worker has no open transaction"

States == {"draft", "quotation", "confirmed", "active", "paused", "closed"}

\* The writes of an open transaction, per row: the columns status, plan_id
\* and downgrade_to_plan_id, the subscription invoices it inserts, and the
\* amount of the delta invoice it inserts.
Tx == [set : [Subs -> States \cup {Keep}], plan : [Subs -> Plans \cup {Keep}],
       down : [Subs -> Plans \cup {NoPlan, Keep}], bill : [Subs -> Nat],
       delta : [Subs -> Nat]]

ASSUME SubscriptionAssumption ==
  /\ Subs \subseteq Nat
  /\ Owner \in [Subs -> Customers]
  /\ Price \in [Plans -> Nat]
  /\ Closable \subseteq Plans
  /\ Desks \subseteq {"portal", "staff", "bulk", "beat"}
  /\ Selectable \subseteq Subs
  /\ MaxDelta \in Nat
  /\ Faults \in BOOLEAN
  /\ Keep \notin States
  /\ Keep \notin Plans
  /\ NoPlan \notin Plans
  /\ Keep # NoPlan
  /\ NoTx \notin Tx

VARIABLES
  status,   \* status[s]: subscriptions.status, "none" before the row exists
  plan,     \* plan[s]: plan_id, NoPlan before the row exists
  downTo,   \* downTo[s]: downgrade_to_plan_id; downgrade_at is set with it
  first,    \* first[s]: the plan the row was inserted with
  bills,    \* bills[s]: the invoices create_from_subscription made for s
  deltas,   \* deltas[s]: the sum of the delta invoices of s
  stx       \* stx[w]: the open transaction of worker w

subVars == <<status, plan, downTo, first, bills, deltas, stx>>
rows == <<status, plan, downTo, first, bills, deltas>>

SubTypeOK ==
  /\ status \in [Subs -> States \cup {"none"}]
  /\ plan \in [Subs -> Plans \cup {NoPlan}]
  /\ downTo \in [Subs -> Plans \cup {NoPlan}]
  /\ first \in [Subs -> Plans \cup {NoPlan}]
  /\ bills \in [Subs -> Nat]
  /\ deltas \in [Subs -> Nat]
  /\ stx \in [Workers -> Tx \cup {NoTx}]
  /\ \A s \in Subs : status[s] # "none" => plan[s] \in Plans /\ first[s] \in Plans

SubInit ==
  /\ status = [s \in Subs |-> "none"]
  /\ plan = [s \in Subs |-> NoPlan]
  /\ downTo = [s \in Subs |-> NoPlan]
  /\ first = [s \in Subs |-> NoPlan]
  /\ bills = [s \in Subs |-> 0]
  /\ deltas = [s \in Subs |-> 0]
  /\ stx = [w \in Workers |-> NoTx]

-----------------------------------------------------------------------------
(* The status machine (fsm.py).                                            *)

Transitions ==
  [draft     |-> {"quotation"},
   quotation |-> {"confirmed", "draft"},
   confirmed |-> {"active"},
   active    |-> {"closed"},
   closed    |-> {}]

Allowed(from, to) == from \in DOMAIN Transitions /\ to \in Transitions[from]

\* _next_activation_status: the next step toward active.
Toward == [draft |-> "quotation", quotation |-> "confirmed", confirmed |-> "active"]

-----------------------------------------------------------------------------
(* Transactions.                                                           *)

NoWrites ==
  [set |-> [s \in Subs |-> Keep], plan |-> [s \in Subs |-> Keep],
   down |-> [s \in Subs |-> Keep], bill |-> [s \in Subs |-> 0],
   delta |-> [s \in Subs |-> 0]]

\* A transaction that sets the status of the rows S.
SetStatus(S, new) ==
  [NoWrites EXCEPT !.set = [s \in Subs |-> IF s \in S THEN new ELSE Keep]]

SetPlan(S, p) ==
  [NoWrites EXCEPT !.plan =
     [s \in Subs |-> IF s \in S /\ plan[s] # p THEN p ELSE Keep]]

\* Faulty: the row starts without its invoice.
Insert_Unbilled(s, new, p) == [NoWrites EXCEPT !.set[s] = new, !.plan[s] = p]

\* A transaction that inserts row s, with an invoice if it starts active.
Insert(s, new, p) ==
  [NoWrites EXCEPT !.set[s] = new, !.plan[s] = p,
                   !.bill[s] = IF new = "active" THEN 1 ELSE 0]

Begin(w, t) ==
  /\ stx[w] = NoTx
  /\ stx' = [stx EXCEPT ![w] = t]
  /\ UNCHANGED rows

Inserting(s) == \E w \in Workers :
  stx[w] # NoTx /\ status[s] = "none" /\ stx[w].set[s] # Keep

\* s can be the next row of its customer.
Fresh(s) ==
  \A t \in Subs : Owner[t] = Owner[s] /\ t >= s =>
    status[t] = "none" /\ ~Inserting(t)

-----------------------------------------------------------------------------
(* Plan changes (upgrade.py, downgrade.py).                                *)

\* Faulty: the old price minus the new one.
Delta_Reversed(old, new) == IF Price[old] > Price[new] THEN Price[old] - Price[new] ELSE 0

\* ProRataCalculator's amount_due over a full cycle.
Delta(old, new) == IF Price[new] > Price[old] THEN Price[new] - Price[old] ELSE 0

\* UpgradeService.execute; a downgrade that was scheduled stays scheduled.
Upgrade(w, s, p) ==
  /\ status[s] = "active"
  /\ plan[s] # p
  /\ deltas[s] <= MaxDelta
  /\ Begin(w, [SetPlan({s}, p) EXCEPT !.delta[s] = Delta(plan[s], p)])

\* DowngradeService.execute
ScheduleDowngrade(w, s, p) ==
  /\ status[s] = "active"
  /\ downTo[s] = NoPlan
  /\ plan[s] # p
  /\ Begin(w, [NoWrites EXCEPT !.down[s] = p])

\* Faulty: the schedule is not cleared.
Finalize_Keeps(w, s) ==
  /\ "beat" \in Desks
  /\ downTo[s] # NoPlan
  /\ Begin(w, SetPlan({s}, downTo[s]))

\* DowngradeService.finalize, which the hourly beat task is to call.  It
\* looks neither at the status nor at the plan of the subscription.
Finalize(w, s) ==
  /\ "beat" \in Desks
  /\ downTo[s] # NoPlan
  /\ Begin(w, [SetPlan({s}, downTo[s]) EXCEPT !.down[s] = NoPlan])

-----------------------------------------------------------------------------
(* The portal (portal.py).                                                 *)

\* _require_own_subscription: the newest row of the customer in one of four
\* states, in a singleton; empty if there is none.
OwnStates == {"active", "confirmed", "draft", "quotation"}
Own(c) ==
  LET mine == {s \in Subs : Owner[s] = c /\ status[s] \in OwnStates}
  IN  {s \in mine : \A t \in mine : t <= s}

HasSubscription(c) ==
  \E s \in Subs : Owner[s] = c /\ status[s] \notin {"none", "closed"}

\* Faulty: the customer's other subscriptions are not looked at.
PortalCreate_Unchecked(w, s, p) ==
  /\ "portal" \in Desks
  /\ Fresh(s)
  /\ Begin(w, Insert(s, "active", p))

PortalCreate(w, s, p) ==
  /\ "portal" \in Desks
  /\ ~HasSubscription(Owner[s])
  /\ Fresh(s)
  /\ Begin(w, Insert(s, "active", p))

PortalChangePlan(w, c, p) ==
  /\ "portal" \in Desks
  /\ \E s \in Own(c) :
       IF Price[p] > Price[plan[s]] THEN Upgrade(w, s, p)
                                    ELSE ScheduleDowngrade(w, s, p)

PortalCancel(w, c) ==
  /\ "portal" \in Desks
  /\ \E s \in Own(c) :
       /\ Allowed(status[s], "closed")
       /\ plan[s] \in Closable
       /\ Begin(w, SetStatus({s}, "closed"))

-----------------------------------------------------------------------------
(* SubscriptionService, which the company's staff calls.                   *)

Create(w, s, p) ==
  /\ "staff" \in Desks
  /\ Fresh(s)
  /\ Begin(w, Insert(s, "draft", p))

\* Faulty: straight to active; without the invoice.
Activate_Straight(w, s) ==
  /\ "staff" \in Desks
  /\ status[s] \in DOMAIN Toward
  /\ Begin(w, [SetStatus({s}, "active") EXCEPT !.bill[s] = 1])
Activate_NoInvoice(w, s) ==
  /\ "staff" \in Desks
  /\ status[s] \in DOMAIN Toward
  /\ Begin(w, SetStatus({s}, Toward[status[s]]))

Activate(w, s) ==
  /\ "staff" \in Desks
  /\ status[s] \in DOMAIN Toward
  /\ LET target == Toward[status[s]]
     IN  /\ Allowed(status[s], target)
         /\ Begin(w, [SetStatus({s}, target) EXCEPT
                        !.bill[s] = IF target = "active" THEN 1 ELSE 0])

Close(w, s) ==
  /\ "staff" \in Desks
  /\ Allowed(status[s], "closed")
  /\ plan[s] \in Closable
  /\ Begin(w, SetStatus({s}, "closed"))

-----------------------------------------------------------------------------
(* Bulk operations (bulk/operations.py): the selected rows S that are in   *)
(* an acceptable status are changed, the others reported as failed.        *)

BulkActivate(w, S) ==
  /\ "bulk" \in Desks
  /\ Begin(w, SetStatus({s \in S : status[s] \in {"confirmed", "paused"}}, "active"))

BulkClose(w, S) ==
  /\ "bulk" \in Desks
  /\ Begin(w, SetStatus({s \in S : status[s] \notin {"none", "closed", "draft"}},
                        "closed"))

\* Faulty: closed rows are changed too.
BulkChangePlan_Any(w, S, p) ==
  /\ "bulk" \in Desks
  /\ Begin(w, SetPlan({s \in S : status[s] # "none"}, p))

BulkChangePlan(w, S, p) ==
  /\ "bulk" \in Desks
  /\ Begin(w, SetPlan({s \in S : status[s] \notin {"none", "closed"}}, p))

-----------------------------------------------------------------------------
(* The end of a request.                                                   *)

\* Faulty: a column that is not in the request is nulled.
Written_Nulls(old, new) == new

\* The value of a column after a transaction that writes new, or Keep.
Written(old, new) == IF new = Keep THEN old ELSE new

CommitSub(w) ==
  /\ stx[w] # NoTx
  /\ status' = [s \in Subs |-> Written(status[s], stx[w].set[s])]
  /\ plan' = [s \in Subs |-> Written(plan[s], stx[w].plan[s])]
  /\ downTo' = [s \in Subs |-> Written(downTo[s], stx[w].down[s])]
  /\ first' = [s \in Subs |-> IF status[s] = "none"
                                THEN Written(first[s], stx[w].plan[s])
                                ELSE first[s]]
  /\ bills' = [s \in Subs |-> bills[s] + stx[w].bill[s]]
  /\ deltas' = [s \in Subs |-> deltas[s] + stx[w].delta[s]]
  /\ stx' = [stx EXCEPT ![w] = NoTx]

RollbackSub(w) ==
  /\ Faults
  /\ stx[w] # NoTx
  /\ stx' = [stx EXCEPT ![w] = NoTx]
  /\ UNCHANGED rows

-----------------------------------------------------------------------------

Staff(w) ==
  \/ \E s \in Subs, p \in Plans : Create(w, s, p)
  \/ \E s \in Subs : Activate(w, s)
  \/ \E s \in Subs : Close(w, s)

Portal(w) ==
  \/ \E s \in Subs, p \in Plans : PortalCreate(w, s, p)
  \/ \E c \in Customers, p \in Plans : PortalChangePlan(w, c, p)
  \/ \E c \in Customers : PortalCancel(w, c)

Bulk(w) ==
  \/ \E S \in SUBSET Selectable : BulkActivate(w, S)
  \/ \E S \in SUBSET Selectable : BulkClose(w, S)
  \/ \E S \in SUBSET Selectable, p \in Plans : BulkChangePlan(w, S, p)

Request(w) ==
  \/ Staff(w)
  \/ Portal(w)
  \/ Bulk(w)
  \/ \E s \in Subs : Finalize(w, s)
  \/ CommitSub(w)
  \/ RollbackSub(w)

SubNext == \E w \in Workers : Request(w)

SubSpec == SubInit /\ [][SubNext]_subVars

-----------------------------------------------------------------------------
(* Portal, staff, bulk and beat task, one request at a time (a single      *)
(* worker).  A bulk operation does not ask the status machine: a row it is *)
(* given may leave the table, the charges and the contract, and no other   *)
(* row with it.                                                            *)

Unselected == Subs \ Selectable

\* The portal gives a subscription only to a customer who has no other open
\* one (portal.py: "Create a new subscription if the portal user does not
\* have one"); only the portal inserts a row that is active at once.
OneSubscription ==
  [][\A s \in Subs : status[s] = "none" /\ status'[s] = "active" =>
       \A t \in Subs \ {s} : Owner[t] = Owner[s] =>
         status[t] \in {"none", "closed"}]_subVars

\* Every status change is one the table of transitions allows: a closed
\* subscription stays closed, and none is activated by a shortcut.
FollowsMachine ==
  [][\A s \in Unselected :
       status[s] = "none" \/ status'[s] = status[s]
         \/ Allowed(status[s], status'[s])]_subVars

\* A scheduled downgrade leads to another plan, never a dearer one, even
\* after the upgrades that do not clear it.
DowngradeIsCheaper ==
  \A s \in Unselected : downTo[s] # NoPlan =>
    plan[s] # downTo[s] /\ Price[downTo[s]] <= Price[plan[s]]

\* What the customer of s was charged for: the plan s began with and the
\* delta invoices of its upgrades.
Charged(s) == Price[first[s]] + deltas[s]

\* The contract that the columns of the unselected rows stand for.
ContractPhase ==
  [s \in Unselected |->
     CASE status[s] = "none" -> "absent"
       [] status[s] \in {"draft", "quotation", "confirmed"} -> "offered"
       [] status[s] = "closed" -> "ended"
       [] OTHER -> "running"]
ContractPlan == [s \in Unselected |-> plan[s]]
ContractBills == [s \in Unselected |-> bills[s]]
ContractCharge ==
  [s \in Unselected |-> IF first[s] = NoPlan THEN deltas[s] ELSE Charged(s)]

\* Each request takes effect at its commit as one step of the contract.
Contract == INSTANCE SubscriptionContract WITH
  Subs <- Unselected, phase <- ContractPhase, current <- ContractPlan,
  invoices <- ContractBills, charged <- ContractCharge
HonoursContract == Contract!ContractSpec

\* A closed subscription stays closed, on the plan it was closed with: the
\* staff and the portal leave it alone, and so do the bulk operations, which
\* do not ask the status machine (fsm.py: "'closed': []").  Only a downgrade
\* scheduled before a bulk close still takes effect on it.
ClosedIsFrozen ==
  [][\A s \in Subs : status[s] = "closed" =>
       status'[s] = "closed" /\ plan'[s] \in {plan[s], downTo[s]}]_subVars

-----------------------------------------------------------------------------
(* Requests of portal, staff, bulk and beat task overlap; of a row a bulk  *)
(* operation may be given nothing is said.                                 *)

\* Nobody is on a plan, nor scheduled to move to one, that is dearer than
\* what was charged, however the requests of portal and staff, upgrades,
\* downgrades and their finalisation interleave.
PlanIsCharged ==
  \A s \in Unselected : status[s] # "none" =>
    /\ Price[plan[s]] <= Charged(s)
    /\ downTo[s] # NoPlan => Price[downTo[s]] <= Charged(s)

\* A subscription that is or was active has been invoiced, even when two
\* requests activate it at once.
ActiveIsBilled ==
  \A s \in Unselected : status[s] \in {"active", "closed"} => bills[s] >= 1

-----------------------------------------------------------------------------
(* Inductive invariants: what the open transactions may be about to write. *)

Untouched(t, s) ==
  /\ t.set[s] = Keep /\ t.plan[s] = Keep /\ t.down[s] = Keep
  /\ t.bill[s] = 0 /\ t.delta[s] = 0

WritesOnly(t, s, new, p, down, bill, delta) ==
  /\ t.set[s] = new /\ t.plan[s] = p /\ t.down[s] = down
  /\ t.bill[s] = bill /\ t.delta[s] = delta
  /\ \A r \in Subs \ {s} : Untouched(t, r)

\* What t writes to a row that does not exist yet, if it inserts it.
NewRow(t, s) ==
  /\ t.set[s] \in {"draft", "active"}
  /\ t.plan[s] \in Plans
  /\ t.down[s] = Keep
  /\ t.bill[s] = (IF t.set[s] = "active" THEN 1 ELSE 0)
  /\ t.delta[s] = 0

\* Behind SubTypeOK: a row that does not exist is empty, and at most one
\* open transaction writes to it, which inserts it with a plan.
InsertInv ==
  \A s \in Subs : status[s] = "none" =>
    /\ plan[s] = NoPlan /\ downTo[s] = NoPlan /\ first[s] = NoPlan
    /\ bills[s] = 0 /\ deltas[s] = 0
    /\ \A w \in Workers : stx[w] # NoTx /\ ~Untouched(stx[w], s) =>
         /\ NewRow(stx[w], s)
         /\ \A v \in Workers \ {w} : stx[v] # NoTx => Untouched(stx[v], s)

\* Behind PlanIsCharged: the plan an open transaction moves the row to is
\* charged for once its own delta invoice is, the one it schedules already.
ChargedFor(t, s) ==
  /\ t.plan[s] # Keep => Price[t.plan[s]] <= Charged(s) + t.delta[s]
  /\ t.down[s] \in Plans => Price[t.down[s]] <= Charged(s)
ChargeInv ==
  /\ PlanIsCharged
  /\ \A s \in Unselected, w \in Workers :
       status[s] # "none" /\ stx[w] # NoTx => ChargedFor(stx[w], s)

\* Behind ActiveIsBilled: who activates the row bills it, and who closes it
\* found it billed.
BilledFor(t, s) ==
  /\ t.set[s] = "active" => t.bill[s] >= 1
  /\ t.set[s] = "closed" => bills[s] >= 1
BillInv ==
  /\ ActiveIsBilled
  /\ \A s \in Unselected, w \in Workers :
       status[s] # "none" /\ stx[w] # NoTx => BilledFor(stx[w], s)

\* The transactions a handler opens on the rows as they are now.
Inserts(t, s) ==
  /\ status[s] = "none"
  /\ \E new \in {"draft", "active"}, p \in Plans :
       /\ new = "active" => ~HasSubscription(Owner[s])
       /\ WritesOnly(t, s, new, p, Keep, IF new = "active" THEN 1 ELSE 0, 0)
Upgrades(t, s) ==
  /\ status[s] = "active"
  /\ \E p \in Plans : /\ Price[p] > Price[plan[s]]
                      /\ WritesOnly(t, s, Keep, p, Keep, 0, Delta(plan[s], p))
Schedules(t, s) ==
  /\ status[s] = "active"
  /\ \E p \in Plans : /\ p # plan[s] /\ Price[p] <= Price[plan[s]]
                      /\ WritesOnly(t, s, Keep, Keep, p, 0, 0)
Finalizes(t, s) ==
  /\ downTo[s] # NoPlan
  /\ WritesOnly(t, s, Keep, IF plan[s] = downTo[s] THEN Keep ELSE downTo[s],
                NoPlan, 0, 0)
Activates(t, s) ==
  /\ status[s] \in {"draft", "quotation", "confirmed"}
  /\ WritesOnly(t, s, Toward[status[s]], Keep, Keep,
                IF status[s] = "confirmed" THEN 1 ELSE 0, 0)
Closes(t, s) ==
  /\ status[s] = "active" /\ plan[s] \in Closable
  /\ WritesOnly(t, s, "closed", Keep, Keep, 0, 0)
Selects(t) ==
  \A s \in Subs :
    /\ s \notin Selectable \/ status[s] \in {"none", "closed"} => Untouched(t, s)
    /\ t.set[s] \in {"active", "closed", Keep} /\ t.down[s] = Keep
    /\ t.bill[s] = 0 /\ t.delta[s] = 0

UpToDate(t) ==
  \/ Selects(t)
  \/ \E s \in Subs : \/ Inserts(t, s) \/ Upgrades(t, s) \/ Schedules(t, s)
                     \/ Finalizes(t, s) \/ Activates(t, s) \/ Closes(t, s)

\* With one request at a time: the open transaction is the one its handler
\* would open now, and an offered subscription has no invoice.
ReadInv ==
  /\ \A w \in Workers : stx[w] # NoTx => UpToDate(stx[w])
  /\ \A s \in Unselected :
       status[s] \in {"draft", "quotation", "confirmed"} => bills[s] = 0
=============================================================================
