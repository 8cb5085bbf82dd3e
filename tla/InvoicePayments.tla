--------------------------- MODULE InvoicePayments ---------------------------
(***************************************************************************)
(* Invoices, payments and PayPal orders of one tenant                      *)
(* (services/billing: invoice_service, payment_service, paypal_service).   *)
(*                                                                         *)
(* Every HTTP request runs in a database transaction of its own            *)
(* (dependencies/db.py) at READ COMMITTED, and no query takes a row lock.  *)
(* A handler is therefore two steps: it reads the invoice row, checks it   *)
(* and prepares its writes; later the transaction commits them (or rolls   *)
(* back), whatever other requests have committed in between.  The writes   *)
(* are the ORM's: only the columns whose value differs from the row that   *)
(* was read, set to the values computed from that row.                     *)
(*                                                                         *)
(* A handler that refuses its request (409, 404, 422) writes nothing, so   *)
(* the refusal is the guard of the reading step; handle_success, which has *)
(* called PayPal by then, is the exception.                                *)
(***************************************************************************)
EXTENDS Integers

CONSTANTS
  Workers,        \* requests that can be in flight at once
  Invoices,       \* invoice rows of the tenant
  Orders,         \* PayPal orders
  Total,          \* Total[i]: the total the builder computed for invoice i
  Customers,      \* the tenant's customers, who use the portal
  Owner,          \* Owner[i]: invoices.customer_id
  Amounts,        \* amounts a company user types into a manual payment
  PatchStatuses,  \* statuses clients send in PATCH /invoices/{id}
  MaxReceived,    \* bound: no further manual or portal payment above it
  Faults,         \* TRUE: a transaction may fail before it commits
  NoCustomer,     \* "the request comes from the company": no customer_id
  Keep,           \* "the ORM does not write the status column"
  NoOrder,        \* "the payment does not come from PayPal"
  NoTx            \* "the worker has no open transaction"

Statuses == {"draft", "confirmed", "paid", "cancelled", "overdue"}

\* The writes of an open transaction: the invoice it read, the status it
\* sets, the amount of the payment row it inserts (0: none) and the
\* amount_paid it sets along with it, the PayPal order that row comes from.
Tx == [inv : Invoices, set : Statuses \cup {Keep}, pay : Int, paid : Int,
       order : Orders \cup {NoOrder}]

ASSUME ConstantsAssumption ==
  /\ Total \in [Invoices -> Nat]
  /\ Owner \in [Invoices -> Customers]
  /\ NoCustomer \notin Customers
  /\ Amounts \subseteq Nat \ {0}
  /\ PatchStatuses \subseteq Statuses
  /\ MaxReceived \in Nat
  /\ Faults \in BOOLEAN
  /\ Keep \notin Statuses
  /\ NoOrder \notin Orders
  /\ NoTx \notin Tx

VARIABLES
  status,    \* status[i]: invoices.status, "none" before the row exists
  paid,      \* paid[i]: invoices.amount_paid
  received,  \* received[i]: the sum of the rows of payments for i
  tx,        \* tx[w]: the open transaction of worker w
  order,     \* order[o]: what PayPal knows of order o
  credited   \* credited[o]: the number of payment rows that record order o

vars == <<status, paid, received, tx, order, credited>>

OrderStates == {"none", "created", "approved", "pending", "captured"}

TypeOK ==
  /\ status \in [Invoices -> Statuses \cup {"none"}]
  /\ paid \in [Invoices -> Int]
  /\ received \in [Invoices -> Int]
  /\ tx \in [Workers -> Tx \cup {NoTx}]
  /\ order \in [Orders -> [state : OrderStates, amount : Int]]
  /\ credited \in [Orders -> Nat]

Init ==
  /\ status = [i \in Invoices |-> "none"]
  /\ paid = [i \in Invoices |-> 0]
  /\ received = [i \in Invoices |-> 0]
  /\ tx = [w \in Workers |-> NoTx]
  /\ order = [o \in Orders |-> [state |-> "none", amount |-> 0]]
  /\ credited = [o \in Orders |-> 0]

-----------------------------------------------------------------------------
(* What a handler reads and prepares.                                      *)

\* Invoice.amount_due
AmountDue(i) == Total[i] - paid[i]

\* The status column as the ORM writes it: not at all if it is unchanged.
Changed(i, s) == IF s = status[i] THEN Keep ELSE s

\* A transaction that only sets the status of i.
StatusWrite(i, s) ==
  [inv |-> i, set |-> Changed(i, s), pay |-> 0, paid |-> 0, order |-> NoOrder]

\* Faulty variants of PaymentWrite, for the mutation runs: amount_paid is
\* overwritten instead of increased; the comparison with the total is
\* strict; any payment marks the invoice paid.
PaymentWrite_Overwrites(i, a, o) ==
  [inv |-> i, set |-> IF a >= Total[i] THEN Changed(i, "paid") ELSE Keep,
   pay |-> a, paid |-> a, order |-> o]
PaymentWrite_Strict(i, a, o) ==
  [inv |-> i, set |-> IF paid[i] + a > Total[i] THEN Changed(i, "paid") ELSE Keep,
   pay |-> a, paid |-> paid[i] + a, order |-> o]
PaymentWrite_Always(i, a, o) ==
  [inv |-> i, set |-> Changed(i, "paid"),
   pay |-> a, paid |-> paid[i] + a, order |-> o]

\* A transaction that inserts a payment of a and updates the invoice
\* (_update_invoice_paid, and the same lines of handle_success).
PaymentWrite(i, a, o) ==
  LET newPaid == paid[i] + a
  IN  [inv |-> i,
       set |-> IF newPaid >= Total[i] THEN Changed(i, "paid") ELSE Keep,
       pay |-> a, paid |-> newPaid, order |-> o]

Open(w, t) ==
  /\ tx[w] = NoTx
  /\ tx' = [tx EXCEPT ![w] = t]

-----------------------------------------------------------------------------
(* Invoice handlers: the read half.                                        *)

\* A row appears: draft from the builder and the invoice factory, confirmed
\* from the portal's checkout of a new subscription.
Create(i) ==
  /\ status[i] = "none"
  /\ \E s \in {"draft", "confirmed"} : status' = [status EXCEPT ![i] = s]
  /\ UNCHANGED <<paid, received, tx, order, credited>>

ReadConfirm(w, i) ==
  /\ status[i] = "draft"
  /\ Open(w, StatusWrite(i, "confirmed"))
  /\ UNCHANGED <<status, paid, received, order, credited>>

ReadCancel(w, i) ==
  /\ status[i] \notin {"none", "paid"}
  /\ paid[i] <= 0
  /\ Open(w, StatusWrite(i, "cancelled"))
  /\ UNCHANGED <<status, paid, received, order, credited>>

\* Faulty: a PATCH that only refuses cancelled invoices.
ReadUpdate_Paid(w, i, s) ==
  /\ status[i] \notin {"none", "cancelled"}
  /\ Open(w, StatusWrite(i, s))
  /\ UNCHANGED <<status, paid, received, order, credited>>

ReadUpdate(w, i, s) ==
  /\ status[i] \in {"draft", "confirmed"}
  /\ Open(w, StatusWrite(i, s))
  /\ UNCHANGED <<status, paid, received, order, credited>>

-----------------------------------------------------------------------------
(* Payment handlers: the read half.                                        *)

\* Faulty: the amount is not compared with the amount due.
ReadRecordPayment_Unchecked(w, i, a) ==
  /\ status[i] \in {"confirmed", "overdue"}
  /\ received[i] <= MaxReceived
  /\ Open(w, PaymentWrite(i, a, NoOrder))
  /\ UNCHANGED <<status, paid, received, order, credited>>

ReadRecordPayment(w, i, a) ==
  /\ status[i] \in {"confirmed", "overdue"}
  /\ a <= AmountDue(i)
  /\ received[i] <= MaxReceived
  /\ Open(w, PaymentWrite(i, a, NoOrder))
  /\ UNCHANGED <<status, paid, received, order, credited>>

\* Faulty: the portal pays an invoice in any status.
ReadPortalPay_AnyStatus(w, i) ==
  /\ status[i] # "none"
  /\ received[i] <= MaxReceived
  /\ Open(w, PaymentWrite(i, AmountDue(i), NoOrder))
  /\ UNCHANGED <<status, paid, received, order, credited>>

ReadPortalPay(w, i) ==
  /\ status[i] \in {"confirmed", "overdue"}
  /\ received[i] <= MaxReceived
  /\ Open(w, PaymentWrite(i, AmountDue(i), NoOrder))
  /\ UNCHANGED <<status, paid, received, order, credited>>

-----------------------------------------------------------------------------
(* PayPal.                                                                 *)

\* create_checkout writes nothing: the order exists at PayPal only.
CreateCheckout(o, i) ==
  /\ order[o].state = "none"
  /\ status[i] \in {"confirmed", "overdue"}
  /\ AmountDue(i) > 0
  /\ order' = [order EXCEPT ![o] = [state |-> "created",
                                    amount |-> AmountDue(i)]]
  /\ UNCHANGED <<status, paid, received, tx, credited>>

\* The customer approves the order on PayPal's page.
Approve(o) ==
  /\ order[o].state = "created"
  /\ order' = [order EXCEPT ![o].state = "approved"]
  /\ UNCHANGED <<status, paid, received, tx, credited>>

\* The invoice that the path of a request names is found for caller c: it
\* exists and, unless the caller is the company, it is the caller's own.
FoundFor(i, c) == status[i] # "none" /\ c \in {NoCustomer, Owner[i]}

\* Faulty: the handler takes an order PayPal reports as captured for one it
\* has just captured.
HandleSuccess_Reported(w, o, i, c) ==
  /\ order[o].state \in {"approved", "captured"}
  /\ order' = [order EXCEPT ![o].state = "captured"]
  /\ FoundFor(i, c)
  /\ Open(w, PaymentWrite(i, order[o].amount, o))
  /\ UNCHANGED <<status, paid, received, credited>>

\* handle_success captures first: PayPal lets an approved order through
\* once and refuses any later capture.  Only then does it read the invoice
\* the request names: it records the payment there, whatever the invoice's
\* status and amount, or raises because the invoice is not found, and the
\* capture stands.
HandleSuccess(w, o, i, c) ==
  /\ order[o].state = "approved"
  /\ order' = [order EXCEPT ![o].state = "captured"]
  /\ \/ FoundFor(i, c) /\ Open(w, PaymentWrite(i, order[o].amount, o))
     \/ ~FoundFor(i, c) /\ UNCHANGED tx
  /\ UNCHANGED <<status, paid, received, credited>>

\* Faulty: a status of the application's own enum is written for PayPal's.
HandleSuccessIncomplete_Failed(o) ==
  /\ order[o].state = "approved"
  /\ order' = [order EXCEPT ![o].state = "failed"]
  /\ UNCHANGED <<status, paid, received, tx, credited>>

\* PayPal answers the capture with another status than COMPLETED: the
\* handler raises, and PayPal takes no second capture of the order.
HandleSuccessIncomplete(o) ==
  /\ order[o].state = "approved"
  /\ order' = [order EXCEPT ![o].state = "pending"]
  /\ UNCHANGED <<status, paid, received, tx, credited>>

-----------------------------------------------------------------------------
(* The end of a request.                                                   *)

Commit(w) ==
  /\ tx[w] # NoTx
  /\ status' = [status EXCEPT ![tx[w].inv] =
                  IF tx[w].set = Keep THEN @ ELSE tx[w].set]
  /\ paid' = [paid EXCEPT ![tx[w].inv] =
                IF tx[w].pay = 0 THEN @ ELSE tx[w].paid]
  /\ received' = [received EXCEPT ![tx[w].inv] = @ + tx[w].pay]
  /\ credited' = [o \in Orders |->
                    credited[o] + (IF tx[w].order = o THEN 1 ELSE 0)]
  /\ tx' = [tx EXCEPT ![w] = NoTx]
  /\ UNCHANGED order

\* The connection, the database or the process fails: get_db rolls back.
Rollback(w) ==
  /\ Faults
  /\ tx[w] # NoTx
  /\ tx' = [tx EXCEPT ![w] = NoTx]
  /\ UNCHANGED <<status, paid, received, order, credited>>

-----------------------------------------------------------------------------

Handle(w) ==
  \/ \E i \in Invoices : ReadConfirm(w, i)
  \/ \E i \in Invoices : ReadCancel(w, i)
  \/ \E i \in Invoices, s \in PatchStatuses : ReadUpdate(w, i, s)
  \/ \E i \in Invoices, a \in Amounts : ReadRecordPayment(w, i, a)
  \/ \E i \in Invoices : ReadPortalPay(w, i)
  \/ \E o \in Orders, i \in Invoices, c \in Customers \cup {NoCustomer} :
       HandleSuccess(w, o, i, c)
  \/ Commit(w)
  \/ Rollback(w)

Next ==
  \/ \E i \in Invoices : Create(i)
  \/ \E o \in Orders, i \in Invoices : CreateCheckout(o, i)
  \/ \E o \in Orders : Approve(o)
  \/ \E o \in Orders : HandleSuccessIncomplete(o)
  \/ \E w \in Workers : Handle(w)

Spec == Init /\ [][Next]_vars

-----------------------------------------------------------------------------
(* One request at a time: these hold when requests do not overlap (a       *)
(* single worker), whatever the clients send.                              *)

\* amount_paid, which every handler updates by reading and rewriting it,
\* equals the sum of the invoice's rows in payments.
BooksBalance == \A i \in Invoices : paid[i] = received[i]

\* An invoice that took money and is not marked paid still owes some: the
\* payment that covers the total always marks it (_update_invoice_paid).
OpenOwes ==
  \A i \in Invoices :
    status[i] # "paid" /\ received[i] > 0 => AmountDue(i) > 0

\* The sum of the payments of an invoice never shrinks: no handler records
\* a negative payment, in spite of portal_pay taking amount_due unchecked.
LedgerOnlyGrows ==
  [][\A i \in Invoices : received'[i] >= received[i]]_vars

\* No request takes an invoice out of paid: confirm, cancel, update and the
\* payments all refuse a paid invoice or leave it paid.
PaidIsFinal ==
  [][\A i \in Invoices : status[i] = "paid" => status'[i] = "paid"]_vars

\* The account that the status column stands for: voided while cancelled,
\* settled while paid.
AccountState ==
  [i \in Invoices |->
     CASE status[i] = "none" -> "absent"
       [] status[i] = "paid" -> "settled"
       [] status[i] = "cancelled" -> "void"
       [] OTHER -> "open"]

\* Seen as an account, an invoice behaves as InvoiceAccount says: each
\* request takes effect at its commit as one step of the account.
Account == INSTANCE InvoiceAccount WITH state <- AccountState, money <- received
IsAccount == Account!AccountSpec

-----------------------------------------------------------------------------
(* Requests overlap, and PayPal is not used yet: these hold for any number *)
(* of workers as long as no PATCH sets the status to paid.                 *)

NoCheckout == \A o \in Orders : order[o].state = "none"

Covered == \A i \in Invoices : status[i] = "paid" => received[i] >= Total[i]

Modest == \A i \in Invoices : paid[i] <= received[i] /\ paid[i] <= Total[i]

\* A paid invoice is covered by payments that were really recorded, even
\* when concurrent payments overwrite each other's amount_paid
\* (payment_service.py, _update_invoice_paid).
PaidIsCovered == NoCheckout => Covered

\* Lost updates only ever lower amount_paid: it never claims more than was
\* recorded nor more than the total, so amount_due is never negative
\* (payment_service.py, _update_invoice_paid).
ColumnIsModest == NoCheckout => Modest

-----------------------------------------------------------------------------
(* Requests overlap, PayPal included.                                      *)

\* No PayPal order is recorded twice, nor recorded without its capture:
\* reloading the success page, or opening it twice, is harmless.
CreditedOnce ==
  \A o \in Orders :
    credited[o] <= (IF order[o].state = "captured" THEN 1 ELSE 0)

-----------------------------------------------------------------------------
(* Inductive invariants: what the open transactions may be about to write. *)

\* Behind CreditedOnce: an order has a pending payment only once captured,
\* at most one, and none any more when it is credited.
CreditInv ==
  \A o \in Orders :
    LET Pending(w) == tx[w] # NoTx /\ tx[w].order = o
    IN  /\ credited[o] <= 1
        /\ order[o].state # "captured" =>
             credited[o] = 0 /\ \A w \in Workers : ~Pending(w)
        /\ \A w \in Workers : Pending(w) =>
             credited[o] = 0 /\ \A v \in Workers \ {w} : ~Pending(v)

\* Behind PaidIsCovered and ColumnIsModest: a pending payment is never
\* negative, the amount_paid it carries stays within the total and within
\* what will have been recorded, and it sets paid only if that covers.
CoverageInv ==
  /\ Covered
  /\ Modest
  /\ \A w \in Workers : tx[w] # NoTx =>
       LET i == tx[w].inv
           recorded == received[i] + tx[w].pay
       IN  /\ tx[w].pay >= 0
           /\ tx[w].pay # 0 => tx[w].paid <= recorded /\ tx[w].paid <= Total[i]
           /\ tx[w].set = "paid" => recorded >= Total[i]

\* Behind BooksBalance and OpenOwes: with one request at a time the open
\* transaction still sees the row it read.
SerialInv ==
  /\ BooksBalance
  /\ OpenOwes
  /\ \A i \in Invoices : received[i] >= 0
  /\ \A o \in Orders : order[o].amount >= 0
  /\ \A w \in Workers : tx[w] # NoTx =>
       LET i == tx[w].inv
       IN  /\ status[i] # "none"
           /\ tx[w].pay >= 0
           /\ tx[w].set # Keep => status[i] # "paid"
           /\ tx[w].pay # 0 => tx[w].paid = paid[i] + tx[w].pay
           /\ tx[w].pay # 0 /\ tx[w].paid >= Total[i] =>
                status[i] = "paid" \/ tx[w].set = "paid"

Unsettled == {"draft", "confirmed", "overdue"}

\* Behind IsAccount: an open transaction that cancels, or moves between the
\* unsettled statuses, does so to an unsettled invoice and brings no money; one
\* that sets paid covers the total, or is a PATCH of an unsettled invoice.
AccountInv ==
  \A w \in Workers : tx[w] # NoTx =>
    LET i == tx[w].inv
    IN  /\ tx[w].set \notin {Keep, "paid"} =>
             tx[w].pay = 0 /\ status[i] \in Unsettled
        /\ tx[w].set = "paid" =>
             \/ received[i] + tx[w].pay >= Total[i]
             \/ tx[w].pay = 0 /\ status[i] \in Unsettled

-----------------------------------------------------------------------------
(* What the repository says, and the code does not always do.              *)

\* payment_service.py: "Payment validation (amount <= outstanding)".
NoOverpayment == \A i \in Invoices : received[i] <= Total[i]

\* paypal_service.py, handle_success: "captures the PayPal payment and
\* records it in the database": money that was captured is recorded once no
\* open request is about to.
CapturedIsRecorded ==
  \A o \in Orders :
    /\ order[o].state = "captured"
    /\ \A w \in Workers : tx[w] # NoTx => tx[w].order # o
    => credited[o] = 1
=============================================================================
