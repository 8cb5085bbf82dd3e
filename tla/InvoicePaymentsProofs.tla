------------------------ MODULE InvoicePaymentsProofs ------------------------
(***************************************************************************)
(* Theorems of InvoicePayments, for any set of workers, invoices, orders,  *)
(* totals and amounts.                                                     *)
(***************************************************************************)
EXTENDS InvoicePayments, TLAPS

-----------------------------------------------------------------------------
(* Type correctness.                                                       *)

\* What a status-only transaction looks like to TypeOK.
LEMMA StatusWriteType ==
  ASSUME TypeOK, NEW i \in Invoices, NEW s \in Statuses
  PROVE  StatusWrite(i, s) \in Tx
BY ConstantsAssumption DEF TypeOK, StatusWrite, Changed, Tx

\* What a payment transaction looks like to TypeOK.
LEMMA PaymentWriteType ==
  ASSUME TypeOK, NEW i \in Invoices, NEW a \in Int,
         NEW o \in Orders \cup {NoOrder}
  PROVE  PaymentWrite(i, a, o) \in Tx
BY ConstantsAssumption DEF TypeOK, PaymentWrite, Changed, Tx, Statuses

\* amount_due is an integer.
LEMMA AmountDueType ==
  ASSUME TypeOK, NEW i \in Invoices
  PROVE  AmountDue(i) \in Int
BY ConstantsAssumption DEF TypeOK, AmountDue

\* Every state of the billing tables, of the open requests and of PayPal has
\* the type the model declares, whatever the requests and their order.
THEOREM TypeCorrect == Spec => []TypeOK
<1>1. Init => TypeOK
  BY DEF Init, TypeOK, OrderStates
<1>2. TypeOK /\ [Next]_vars => TypeOK'
  <2> SUFFICES ASSUME TypeOK, [Next]_vars PROVE TypeOK'
    OBVIOUS
  <2> USE ConstantsAssumption
  <2>1. ASSUME NEW i \in Invoices, Create(i) PROVE TypeOK'
    BY <2>1 DEF Create, TypeOK, Statuses
  <2>2. ASSUME NEW o \in Orders, NEW i \in Invoices, CreateCheckout(o, i)
        PROVE  TypeOK'
    BY <2>2, AmountDueType DEF CreateCheckout, TypeOK, OrderStates
  <2>3. ASSUME NEW o \in Orders, Approve(o) PROVE TypeOK'
    BY <2>3 DEF Approve, TypeOK, OrderStates
  <2>4. ASSUME NEW o \in Orders, HandleSuccessIncomplete(o) PROVE TypeOK'
    BY <2>4 DEF HandleSuccessIncomplete, TypeOK, OrderStates
  <2>5. ASSUME NEW w \in Workers, Handle(w) PROVE TypeOK'
    <3>1. ASSUME NEW i \in Invoices, ReadConfirm(w, i) PROVE TypeOK'
      BY <3>1, StatusWriteType, "confirmed" \in Statuses
         DEF ReadConfirm, Open, TypeOK, Statuses
    <3>2. ASSUME NEW i \in Invoices, ReadCancel(w, i) PROVE TypeOK'
      BY <3>2, StatusWriteType, "cancelled" \in Statuses
         DEF ReadCancel, Open, TypeOK, Statuses
    <3>3. ASSUME NEW i \in Invoices, NEW s \in PatchStatuses,
                 ReadUpdate(w, i, s)
          PROVE  TypeOK'
      BY <3>3, StatusWriteType DEF ReadUpdate, Open, TypeOK
    <3>4. ASSUME NEW i \in Invoices, NEW a \in Amounts,
                 ReadRecordPayment(w, i, a)
          PROVE  TypeOK'
      BY <3>4, PaymentWriteType, a \in Int
         DEF ReadRecordPayment, Open, TypeOK
    <3>5. ASSUME NEW i \in Invoices, ReadPortalPay(w, i) PROVE TypeOK'
      BY <3>5, PaymentWriteType, AmountDueType
         DEF ReadPortalPay, Open, TypeOK
    <3>6. ASSUME NEW o \in Orders, NEW i \in Invoices, NEW c,
                 HandleSuccess(w, o, i, c)
          PROVE  TypeOK'
      <4>1. PaymentWrite(i, order[o].amount, o) \in Tx
        BY PaymentWriteType DEF TypeOK
      <4>2. order' \in [Orders -> [state : OrderStates, amount : Int]]
        BY <3>6 DEF HandleSuccess, TypeOK, OrderStates
      <4>3. tx' \in [Workers -> Tx \cup {NoTx}]
        BY <3>6, <4>1 DEF HandleSuccess, Open, TypeOK
      <4> QED
        BY <3>6, <4>2, <4>3 DEF HandleSuccess, TypeOK
    <3>7. CASE Commit(w)
      <4>1. tx[w] \in Tx
        BY <3>7 DEF Commit, TypeOK
      <4>2. /\ tx[w].inv \in Invoices
            /\ tx[w].set \in Statuses \cup {Keep}
            /\ tx[w].pay \in Int
            /\ tx[w].paid \in Int
        BY <4>1 DEF Tx
      <4>3. status' \in [Invoices -> Statuses \cup {"none"}]
        BY <3>7, <4>2 DEF Commit, TypeOK
      <4>4. paid' \in [Invoices -> Int] /\ received' \in [Invoices -> Int]
        BY <3>7, <4>2 DEF Commit, TypeOK
      <4>5. credited' \in [Orders -> Nat]
        BY <3>7 DEF Commit, TypeOK
      <4> QED
        BY <3>7, <4>3, <4>4, <4>5 DEF Commit, TypeOK
    <3>8. CASE Rollback(w)
      BY <3>8 DEF Rollback, TypeOK
    <3> QED
      BY <2>5, <3>1, <3>2, <3>3, <3>4, <3>5, <3>6, <3>7, <3>8 DEF Handle
  <2>6. CASE UNCHANGED vars
    BY <2>6 DEF vars, TypeOK
  <2> QED
    BY <2>1, <2>2, <2>3, <2>4, <2>5, <2>6 DEF Next
<1> QED
  BY <1>1, <1>2, PTL DEF Spec

-----------------------------------------------------------------------------
(* No PayPal order is credited twice.                                      *)

\* CreditInv is inductive: capture hands an order to one request only.
LEMMA CreditInvStep ==
  ASSUME TypeOK, CreditInv, [Next]_vars
  PROVE  CreditInv'
<1> USE ConstantsAssumption
<1>1. ASSUME NEW i \in Invoices, Create(i) PROVE CreditInv'
  BY <1>1 DEF Create, CreditInv
<1>2. ASSUME NEW o \in Orders, NEW i \in Invoices, CreateCheckout(o, i)
      PROVE  CreditInv'
  BY <1>2 DEF CreateCheckout, CreditInv, TypeOK
<1>3. ASSUME NEW o \in Orders, Approve(o) PROVE CreditInv'
  BY <1>3 DEF Approve, CreditInv, TypeOK
<1>4. ASSUME NEW o \in Orders, HandleSuccessIncomplete(o) PROVE CreditInv'
  BY <1>4 DEF HandleSuccessIncomplete, CreditInv, TypeOK
<1>5. ASSUME NEW w \in Workers, Handle(w) PROVE CreditInv'
  <2>1. ASSUME NEW t \in Tx, Open(w, t), t.order = NoOrder,
               UNCHANGED <<order, credited>>
        PROVE  CreditInv'
    BY <2>1 DEF Open, CreditInv, TypeOK
  <2>2. ASSUME NEW i \in Invoices, NEW st \in Statuses,
               Open(w, StatusWrite(i, st)), UNCHANGED <<order, credited>>
        PROVE  CreditInv'
    <3>1. StatusWrite(i, st).order = NoOrder
      BY DEF StatusWrite
    <3> QED
      BY <2>1, <2>2, <3>1, StatusWriteType
  <2>3. ASSUME NEW i \in Invoices, NEW a \in Int,
               Open(w, PaymentWrite(i, a, NoOrder)),
               UNCHANGED <<order, credited>>
        PROVE  CreditInv'
    <3>1. PaymentWrite(i, a, NoOrder).order = NoOrder
      BY DEF PaymentWrite
    <3> QED
      BY <2>1, <2>3, <3>1, PaymentWriteType
  <2>4. ASSUME NEW i \in Invoices, ReadConfirm(w, i) PROVE CreditInv'
    BY <2>2, <2>4, "confirmed" \in Statuses DEF ReadConfirm, Statuses
  <2>5. ASSUME NEW i \in Invoices, ReadCancel(w, i) PROVE CreditInv'
    BY <2>2, <2>5, "cancelled" \in Statuses DEF ReadCancel, Statuses
  <2>6. ASSUME NEW i \in Invoices, NEW st \in PatchStatuses,
               ReadUpdate(w, i, st)
        PROVE  CreditInv'
    BY <2>2, <2>6 DEF ReadUpdate
  <2>7. ASSUME NEW i \in Invoices, NEW a \in Amounts,
               ReadRecordPayment(w, i, a)
        PROVE  CreditInv'
    BY <2>3, <2>7, a \in Int DEF ReadRecordPayment
  <2>8. ASSUME NEW i \in Invoices, ReadPortalPay(w, i) PROVE CreditInv'
    BY <2>3, <2>8, AmountDueType DEF ReadPortalPay
  <2>9. ASSUME NEW o \in Orders, NEW i \in Invoices, NEW c,
               HandleSuccess(w, o, i, c)
        PROVE  CreditInv'
    <3> DEFINE t == PaymentWrite(i, order[o].amount, o)
    <3>1. t.order = o
      BY DEF PaymentWrite
    <3>2. t # NoTx
      BY PaymentWriteType DEF TypeOK
    <3>3. /\ order[o].state = "approved"
          /\ \A p \in Orders : order'[p].state =
               IF p = o THEN "captured" ELSE order[p].state
          /\ credited' = credited
      BY <2>9 DEF HandleSuccess, TypeOK
    <3>4. \/ tx[w] = NoTx /\ tx' = [tx EXCEPT ![w] = t]
          \/ tx' = tx
      BY <2>9 DEF HandleSuccess, Open
    <3> HIDE DEF t
    <3>5. CASE tx[w] = NoTx /\ tx' = [tx EXCEPT ![w] = t]
      BY <3>1, <3>2, <3>3, <3>5 DEF CreditInv, TypeOK
    <3>6. CASE tx' = tx
      BY <3>3, <3>6 DEF CreditInv, TypeOK
    <3> QED
      BY <3>4, <3>5, <3>6
  <2>10. CASE Commit(w)
    <3>1. /\ tx[w] # NoTx
          /\ tx' = [tx EXCEPT ![w] = NoTx]
          /\ order' = order
          /\ \A o \in Orders : credited'[o] =
               credited[o] + (IF tx[w].order = o THEN 1 ELSE 0)
      BY <2>10 DEF Commit
    <3> QED
      BY <3>1 DEF CreditInv, TypeOK
  <2>11. CASE Rollback(w)
    BY <2>11 DEF Rollback, CreditInv, TypeOK
  <2> QED
    BY <1>5, <2>4, <2>5, <2>6, <2>7, <2>8, <2>9, <2>10, <2>11 DEF Handle
<1>6. CASE UNCHANGED vars
  BY <1>6 DEF vars, CreditInv
<1> QED
  BY <1>1, <1>2, <1>3, <1>4, <1>5, <1>6 DEF Next

\* Whatever the requests, their number and their interleaving, no PayPal
\* order is recorded twice, and none is recorded that was not captured.
THEOREM OrdersAreCreditedOnce == Spec => []CreditedOnce
<1>1. Init => CreditInv
  BY DEF Init, CreditInv
<1>2. TypeOK /\ CreditInv => CreditedOnce
  BY DEF TypeOK, CreditInv, CreditedOnce
<1> QED
  BY <1>1, <1>2, CreditInvStep, TypeCorrect, PTL DEF Spec

-----------------------------------------------------------------------------
(* Overlapping requests without PayPal.                                    *)

\* A step that only opens a harmless transaction keeps CoverageInv.
LEMMA CoverageOpen ==
  ASSUME TypeOK, CoverageInv, NEW w \in Workers, NEW t \in Tx, Open(w, t),
         UNCHANGED <<status, paid, received>>,
         t.pay >= 0,
         t.pay # 0 => /\ t.paid <= received[t.inv] + t.pay
                      /\ t.paid <= Total[t.inv],
         t.set = "paid" => received[t.inv] + t.pay >= Total[t.inv]
  PROVE  CoverageInv'
<1>1. \A v \in Workers : tx'[v] = IF v = w THEN t ELSE tx[v]
  BY DEF Open, TypeOK
<1>2. Covered' /\ Modest'
  BY DEF CoverageInv, Covered, Modest
<1> QED
  BY <1>1, <1>2 DEF CoverageInv

\* A status-only transaction that does not set paid is harmless.
LEMMA CoverageStatusWrite ==
  ASSUME TypeOK, CoverageInv, NEW w \in Workers, NEW i \in Invoices,
         NEW s \in Statuses \ {"paid"}, Open(w, StatusWrite(i, s)),
         UNCHANGED <<status, paid, received>>
  PROVE  CoverageInv'
<1> DEFINE t == StatusWrite(i, s)
<1>1. t \in Tx
  BY StatusWriteType
<1>2. t.pay = 0 /\ t.set # "paid"
  BY ConstantsAssumption DEF StatusWrite, Changed, Statuses
<1>3. Open(w, t)
  OBVIOUS
<1> HIDE DEF t
<1> QED
  BY <1>1, <1>2, <1>3, CoverageOpen

\* A payment of at most the amount due is harmless.
LEMMA CoveragePaymentWrite ==
  ASSUME TypeOK, CoverageInv, NEW w \in Workers, NEW i \in Invoices,
         NEW a \in Nat, a <= AmountDue(i),
         Open(w, PaymentWrite(i, a, NoOrder)),
         UNCHANGED <<status, paid, received>>
  PROVE  CoverageInv'
<1> DEFINE t == PaymentWrite(i, a, NoOrder)
<1>1. t \in Tx
  BY PaymentWriteType
<1>2. /\ t.inv = i /\ t.pay = a /\ t.paid = paid[i] + a
      /\ t.set = "paid" => paid[i] + a >= Total[i]
  BY ConstantsAssumption DEF PaymentWrite, Changed, Statuses
<1>3. /\ paid[i] \in Int /\ received[i] \in Int /\ Total[i] \in Nat
      /\ paid[i] <= received[i] /\ a <= Total[i] - paid[i]
  BY ConstantsAssumption
     DEF TypeOK, CoverageInv, Modest, AmountDue
<1>4. /\ t.pay >= 0
      /\ t.paid <= received[t.inv] + t.pay /\ t.paid <= Total[t.inv]
      /\ t.set = "paid" => received[t.inv] + t.pay >= Total[t.inv]
  BY <1>2, <1>3
<1>5. Open(w, t)
  OBVIOUS
<1> HIDE DEF t
<1> QED
  BY <1>1, <1>4, <1>5, CoverageOpen

\* A commit keeps CoverageInv: the payment row and the columns go together.
LEMMA CoverageCommit ==
  ASSUME TypeOK, CoverageInv, NEW w \in Workers, Commit(w)
  PROVE  CoverageInv'
<1> DEFINE t == tx[w]
           i == t.inv
<1>1. t \in Tx /\ t # NoTx
  BY DEF Commit, TypeOK
<1>2. /\ i \in Invoices /\ t.set \in Statuses \cup {Keep}
      /\ t.pay \in Int /\ t.paid \in Int
  BY <1>1 DEF Tx
<1>3. /\ t.pay >= 0
      /\ t.pay # 0 => t.paid <= received[i] + t.pay /\ t.paid <= Total[i]
      /\ t.set = "paid" => received[i] + t.pay >= Total[i]
  BY <1>1 DEF CoverageInv
<1>4. \A j \in Invoices :
        /\ status'[j] = IF j = i /\ t.set # Keep THEN t.set ELSE status[j]
        /\ paid'[j] = IF j = i /\ t.pay # 0 THEN t.paid ELSE paid[j]
        /\ received'[j] = IF j = i THEN received[j] + t.pay ELSE received[j]
  BY <1>2 DEF Commit, TypeOK
<1>5. \A v \in Workers : tx'[v] # NoTx => v # w /\ tx'[v] = tx[v]
  BY DEF Commit, TypeOK
<1> HIDE DEF t, i
<1>6. ASSUME NEW j \in Invoices
      PROVE  /\ status'[j] = "paid" => received'[j] >= Total[j]
             /\ paid'[j] <= received'[j] /\ paid'[j] <= Total[j]
             /\ received'[j] >= received[j]
             /\ received'[j] \in Int
  <2>1. /\ paid[j] \in Int /\ received[j] \in Int /\ Total[j] \in Nat
        /\ paid[j] <= received[j] /\ paid[j] <= Total[j]
        /\ status[j] = "paid" => received[j] >= Total[j]
    BY ConstantsAssumption
       DEF TypeOK, CoverageInv, Covered, Modest
  <2> QED
    BY <1>2, <1>3, <1>4, <2>1
<1>7. Covered' /\ Modest'
  BY <1>6 DEF Covered, Modest
<1>8. ASSUME NEW v \in Workers, tx'[v] # NoTx
      PROVE  LET k == tx'[v].inv
                 recorded == received'[k] + tx'[v].pay
             IN  /\ tx'[v].pay >= 0
                 /\ tx'[v].pay # 0 =>
                      tx'[v].paid <= recorded /\ tx'[v].paid <= Total[k]
                 /\ tx'[v].set = "paid" => recorded >= Total[k]
  <2>1. tx'[v] = tx[v] /\ tx[v] # NoTx /\ tx[v] \in Tx
    BY <1>5, <1>8 DEF TypeOK
  <2>2. /\ tx[v].inv \in Invoices /\ tx[v].pay \in Int
        /\ tx[v].paid \in Int
    BY <2>1 DEF Tx
  <2>3. /\ received[tx[v].inv] \in Int /\ Total[tx[v].inv] \in Nat
        /\ received'[tx[v].inv] >= received[tx[v].inv]
        /\ received'[tx[v].inv] \in Int
    BY <1>6, <2>2, ConstantsAssumption DEF TypeOK
  <2>4. /\ tx[v].pay >= 0
        /\ tx[v].pay # 0 =>
             /\ tx[v].paid <= received[tx[v].inv] + tx[v].pay
             /\ tx[v].paid <= Total[tx[v].inv]
        /\ tx[v].set = "paid" =>
             received[tx[v].inv] + tx[v].pay >= Total[tx[v].inv]
    BY <2>1 DEF CoverageInv
  <2> QED
    BY <2>1, <2>2, <2>3, <2>4
<1> QED
  BY <1>7, <1>8 DEF CoverageInv

\* CoverageInv is inductive when money comes from manual and portal
\* payments only and no client patches the status to paid.
LEMMA CoverageInvStep ==
  ASSUME NoCheckout, "paid" \notin PatchStatuses,
         TypeOK, CoverageInv, [Next]_vars, NoCheckout'
  PROVE  CoverageInv'
<1> USE ConstantsAssumption
<1>1. ASSUME NEW i \in Invoices, Create(i) PROVE CoverageInv'
  BY <1>1 DEF Create, CoverageInv, Covered, Modest, TypeOK
<1>2. ASSUME NEW w \in Workers, Handle(w) PROVE CoverageInv'
  <2>1. ASSUME NEW i \in Invoices, ReadConfirm(w, i) PROVE CoverageInv'
    BY <2>1, CoverageStatusWrite, "confirmed" \in Statuses \ {"paid"}
       DEF ReadConfirm, Statuses
  <2>2. ASSUME NEW i \in Invoices, ReadCancel(w, i) PROVE CoverageInv'
    BY <2>2, CoverageStatusWrite, "cancelled" \in Statuses \ {"paid"}
       DEF ReadCancel, Statuses
  <2>3. ASSUME NEW i \in Invoices, NEW s \in PatchStatuses,
               ReadUpdate(w, i, s)
        PROVE  CoverageInv'
    BY <2>3, CoverageStatusWrite DEF ReadUpdate
  <2>4. ASSUME NEW i \in Invoices, NEW a \in Amounts,
               ReadRecordPayment(w, i, a)
        PROVE  CoverageInv'
    BY <2>4, CoveragePaymentWrite, a \in Nat DEF ReadRecordPayment
  <2>5. ASSUME NEW i \in Invoices, ReadPortalPay(w, i) PROVE CoverageInv'
    <3>1. AmountDue(i) \in Nat /\ AmountDue(i) <= AmountDue(i)
      BY DEF AmountDue, TypeOK, CoverageInv, Modest
    <3> QED
      BY <2>5, <3>1, CoveragePaymentWrite DEF ReadPortalPay
  <2>6. CASE Commit(w)
    BY <2>6, CoverageCommit
  <2>7. CASE Rollback(w)
    BY <2>7 DEF Rollback, CoverageInv, Covered, Modest, TypeOK
  <2>8. ASSUME NEW o \in Orders, NEW i \in Invoices, NEW c,
               HandleSuccess(w, o, i, c)
        PROVE  FALSE
    BY <2>8 DEF HandleSuccess, NoCheckout
  <2> QED
    BY <1>2, <2>1, <2>2, <2>3, <2>4, <2>5, <2>6, <2>7, <2>8 DEF Handle
<1>3. CASE UNCHANGED vars
  BY <1>3 DEF vars, CoverageInv, Covered, Modest
<1>4. ASSUME NEW o \in Orders, NEW i \in Invoices, CreateCheckout(o, i)
      PROVE  FALSE
  BY <1>4 DEF CreateCheckout, NoCheckout, TypeOK
<1>5. ASSUME NEW o \in Orders, Approve(o) \/ HandleSuccessIncomplete(o)
      PROVE  FALSE
  BY <1>5 DEF Approve, HandleSuccessIncomplete, NoCheckout
<1> QED
  BY <1>1, <1>2, <1>3, <1>4, <1>5 DEF Next

\* An order, once created, stays one: no step makes checkouts unhappen.
LEMMA CheckoutsStay ==
  ASSUME TypeOK, [Next]_vars, NoCheckout'
  PROVE  NoCheckout
<1>1. ASSUME NEW i \in Invoices, Create(i) PROVE NoCheckout
  BY <1>1 DEF Create, NoCheckout
<1>2. ASSUME NEW o \in Orders, NEW i \in Invoices, CreateCheckout(o, i)
      PROVE  NoCheckout
  BY <1>2 DEF CreateCheckout, NoCheckout, TypeOK
<1>3. ASSUME NEW o \in Orders, Approve(o) \/ HandleSuccessIncomplete(o)
      PROVE  NoCheckout
  BY <1>3 DEF Approve, HandleSuccessIncomplete, NoCheckout, TypeOK
<1>4. ASSUME NEW w \in Workers, Handle(w) PROVE NoCheckout
  <2>1. ASSUME NEW o \in Orders, NEW i \in Invoices, NEW c,
               HandleSuccess(w, o, i, c)
        PROVE  NoCheckout
    BY <2>1 DEF HandleSuccess, NoCheckout, TypeOK
  <2> QED
    BY <1>4, <2>1 DEF Handle, ReadConfirm, ReadCancel, ReadUpdate,
       ReadRecordPayment, ReadPortalPay, Commit, Rollback, NoCheckout
<1>5. CASE UNCHANGED vars
  BY <1>5 DEF vars, NoCheckout
<1> QED
  BY <1>1, <1>2, <1>3, <1>4, <1>5 DEF Next

\* The invariant behind the two theorems below, until the first checkout.
THEOREM CoverageHolds ==
  ASSUME "paid" \notin PatchStatuses
  PROVE  Spec => [](NoCheckout => CoverageInv)
<1>1. Init => (NoCheckout => CoverageInv)
  BY ConstantsAssumption DEF Init, CoverageInv, Covered, Modest
<1>2. TypeOK /\ (NoCheckout => CoverageInv) /\ [Next]_vars
        => (NoCheckout => CoverageInv)'
  BY CoverageInvStep, CheckoutsStay
<1> QED
  BY <1>1, <1>2, TypeCorrect, PTL DEF Spec

\* As long as nobody checks out with PayPal, and without a PATCH to paid, a
\* paid invoice is covered by recorded payments however many requests
\* overwrite each other (payment_service.py, _update_invoice_paid).
THEOREM PaidInvoicesAreCovered ==
  ASSUME "paid" \notin PatchStatuses
  PROVE  Spec => []PaidIsCovered
<1>1. (NoCheckout => CoverageInv) => PaidIsCovered
  BY DEF CoverageInv, PaidIsCovered
<1> QED
  BY <1>1, CoverageHolds, PTL

\* ... and amount_due is then never negative, nor amount_paid overstated.
THEOREM ColumnsAreModest ==
  ASSUME "paid" \notin PatchStatuses
  PROVE  Spec => []ColumnIsModest
<1>1. (NoCheckout => CoverageInv) => ColumnIsModest
  BY DEF CoverageInv, ColumnIsModest
<1> QED
  BY <1>1, CoverageHolds, PTL

-----------------------------------------------------------------------------
(* One request at a time.                                                  *)

\* SerialInv is inductive when there is a single worker.
LEMMA SerialInvStep ==
  ASSUME NEW w, Workers = {w}, TypeOK, SerialInv, [Next]_vars
  PROVE  SerialInv'
<1> USE ConstantsAssumption
<1> DEFINE ReadHalf(t) ==
      LET i == t.inv
      IN  /\ status[i] # "none"
          /\ t.pay >= 0
          /\ t.set # Keep => status[i] # "paid"
          /\ t.pay # 0 => t.paid = paid[i] + t.pay
          /\ t.pay # 0 /\ t.paid >= Total[i] =>
               status[i] = "paid" \/ t.set = "paid"
<1>1. ASSUME NEW i \in Invoices, Create(i) PROVE SerialInv'
  <2>1. /\ paid' = paid /\ received' = received /\ tx' = tx /\ order' = order
        /\ \A j \in Invoices : status'[j] # status[j] =>
             status[j] = "none" /\ status'[j] \in {"draft", "confirmed"}
    BY <1>1 DEF Create, TypeOK
  <2>2. ASSUME tx[w] # NoTx PROVE tx[w].inv \in Invoices
    BY <2>2 DEF TypeOK, Tx
  <2>3. OpenOwes'
    BY <2>1 DEF SerialInv, OpenOwes, AmountDue
  <2> QED
    BY <2>1, <2>2, <2>3 DEF SerialInv, BooksBalance
<1>2. ASSUME NEW o \in Orders, NEW i \in Invoices, CreateCheckout(o, i)
      PROVE  SerialInv'
  <2>1. /\ UNCHANGED <<status, paid, received, tx>>
        /\ \A p \in Orders : order'[p].amount =
             IF p = o THEN AmountDue(i) ELSE order[p].amount
        /\ AmountDue(i) > 0 /\ AmountDue(i) \in Int
    BY <1>2, AmountDueType DEF CreateCheckout, TypeOK
  <2> QED
    BY <2>1 DEF SerialInv, BooksBalance, OpenOwes, AmountDue
<1>3. ASSUME UNCHANGED <<status, paid, received, tx>>,
             \A p \in Orders : order'[p].amount = order[p].amount
      PROVE  SerialInv'
  BY <1>3 DEF SerialInv, BooksBalance, OpenOwes, AmountDue
<1>4. ASSUME NEW o \in Orders, Approve(o) PROVE SerialInv'
  <2>1. \A p \in Orders : order'[p].amount = order[p].amount
    BY <1>4 DEF Approve, TypeOK
  <2> QED
    BY <1>3, <1>4, <2>1 DEF Approve
<1>5. ASSUME NEW o \in Orders, HandleSuccessIncomplete(o) PROVE SerialInv'
  <2>1. \A p \in Orders : order'[p].amount = order[p].amount
    BY <1>5 DEF HandleSuccessIncomplete, TypeOK
  <2> QED
    BY <1>3, <1>5, <2>1 DEF HandleSuccessIncomplete
<1>6. ASSUME Handle(w) PROVE SerialInv'
  <2>1. ASSUME NEW t \in Tx, Open(w, t), ReadHalf(t),
               UNCHANGED <<status, paid, received>>,
               \A p \in Orders : order'[p].amount = order[p].amount
        PROVE  SerialInv'
    <3>1. tx'[w] = t
      BY <2>1 DEF Open, TypeOK
    <3>2. BooksBalance' /\ OpenOwes'
      BY <2>1 DEF SerialInv, BooksBalance, OpenOwes, AmountDue
    <3> QED
      BY <2>1, <3>1, <3>2 DEF SerialInv
  <2>2. ASSUME NEW i \in Invoices, NEW s \in Statuses,
               status[i] \notin {"none", "paid"},
               Open(w, StatusWrite(i, s)),
               UNCHANGED <<status, paid, received, order>>
        PROVE  SerialInv'
    <3> DEFINE t == StatusWrite(i, s)
    <3>1. t \in Tx
      BY StatusWriteType
    <3>2. t.inv = i /\ t.pay = 0
      BY DEF StatusWrite
    <3>3. Open(w, t)
      BY <2>2
    <3> HIDE DEF t
    <3>4. ReadHalf(t)
      BY <2>2, <3>2
    <3> HIDE DEF ReadHalf
    <3> QED
      BY <2>1, <2>2, <3>1, <3>3, <3>4
  <2>3. ASSUME NEW i \in Invoices, NEW a \in Nat,
               NEW o \in Orders \cup {NoOrder}, status[i] # "none",
               Open(w, PaymentWrite(i, a, o)),
               UNCHANGED <<status, paid, received>>,
               \A p \in Orders : order'[p].amount = order[p].amount
        PROVE  SerialInv'
    <3> DEFINE t == PaymentWrite(i, a, o)
    <3>1. t \in Tx
      BY PaymentWriteType
    <3>2. /\ t.inv = i /\ t.pay = a /\ t.paid = paid[i] + a
          /\ t.set # Keep => status[i] # "paid"
          /\ t.paid >= Total[i] => status[i] = "paid" \/ t.set = "paid"
      BY DEF PaymentWrite, Changed, Statuses
    <3>3. Open(w, t)
      BY <2>3
    <3> HIDE DEF t
    <3>4. ReadHalf(t)
      BY <2>3, <3>2
    <3> HIDE DEF ReadHalf
    <3> QED
      BY <2>1, <2>3, <3>1, <3>3, <3>4
  <2>4. ASSUME NEW i \in Invoices, ReadConfirm(w, i) PROVE SerialInv'
    BY <2>2, <2>4 DEF ReadConfirm, Statuses
  <2>5. ASSUME NEW i \in Invoices, ReadCancel(w, i) PROVE SerialInv'
    BY <2>2, <2>5 DEF ReadCancel, Statuses
  <2>6. ASSUME NEW i \in Invoices, NEW s \in PatchStatuses,
               ReadUpdate(w, i, s)
        PROVE  SerialInv'
    BY <2>2, <2>6 DEF ReadUpdate
  <2>7. ASSUME NEW i \in Invoices, NEW a \in Amounts,
               ReadRecordPayment(w, i, a)
        PROVE  SerialInv'
    BY <2>3, <2>7, a \in Nat DEF ReadRecordPayment
  <2>8. ASSUME NEW i \in Invoices, ReadPortalPay(w, i) PROVE SerialInv'
    <3>1. AmountDue(i) \in Nat
      <4>1. status[i] # "paid"
        BY <2>8 DEF ReadPortalPay
      <4>2. /\ paid[i] = received[i] /\ received[i] >= 0
            /\ received[i] \in Int /\ Total[i] \in Nat
            /\ received[i] > 0 => AmountDue(i) > 0
        BY <4>1 DEF SerialInv, BooksBalance, OpenOwes, TypeOK
      <4> QED
        BY <4>2 DEF AmountDue
    <3> QED
      BY <2>3, <2>8, <3>1 DEF ReadPortalPay
  <2>9. ASSUME NEW o \in Orders, NEW i \in Invoices, NEW c,
               HandleSuccess(w, o, i, c)
        PROVE  SerialInv'
    <3>1. \A p \in Orders : order'[p].amount = order[p].amount
      BY <2>9 DEF HandleSuccess, TypeOK
    <3>2. order[o].amount \in Nat
      BY DEF SerialInv, TypeOK
    <3>3. UNCHANGED <<status, paid, received>>
      BY <2>9 DEF HandleSuccess
    <3>4. CASE FoundFor(i, c)
      <4>1. Open(w, PaymentWrite(i, order[o].amount, o)) /\ status[i] # "none"
        BY <2>9, <3>4 DEF HandleSuccess, FoundFor
      <4> QED
        BY <2>3, <3>1, <3>2, <3>3, <4>1
    <3>5. CASE ~FoundFor(i, c)
      BY <1>3, <2>9, <3>1, <3>5 DEF HandleSuccess
    <3> QED
      BY <3>4, <3>5
  <2>10. CASE Commit(w)
    <3> DEFINE t == tx[w]
               i == t.inv
    <3>1. t \in Tx /\ t # NoTx
      BY <2>10 DEF Commit, TypeOK
    <3>2. /\ i \in Invoices /\ t.set \in Statuses \cup {Keep}
          /\ t.pay \in Int /\ t.paid \in Int
      BY <3>1 DEF Tx
    <3>3. /\ t.pay >= 0
          /\ t.set # Keep => status[i] # "paid"
          /\ t.pay # 0 => t.paid = paid[i] + t.pay
          /\ t.pay # 0 /\ t.paid >= Total[i] =>
               status[i] = "paid" \/ t.set = "paid"
          /\ "paid" # Keep
      BY <3>1 DEF SerialInv, Statuses
    <3>4. \A j \in Invoices :
            /\ status'[j] = IF j = i /\ t.set # Keep THEN t.set ELSE status[j]
            /\ paid'[j] = IF j = i /\ t.pay # 0 THEN t.paid ELSE paid[j]
            /\ received'[j] = IF j = i THEN received[j] + t.pay
                                      ELSE received[j]
      BY <2>10, <3>2 DEF Commit, TypeOK
    <3>5. tx'[w] = NoTx /\ order' = order
      BY <2>10 DEF Commit, TypeOK
    <3> HIDE DEF t, i
    <3>6. ASSUME NEW j \in Invoices
          PROVE  /\ paid'[j] = received'[j]
                 /\ received'[j] >= 0
                 /\ status'[j] # "paid" /\ received'[j] > 0 =>
                      Total[j] - paid'[j] > 0
      <4>1. /\ paid[j] = received[j] /\ received[j] \in Int
            /\ received[j] >= 0 /\ Total[j] \in Nat
            /\ status[j] # "paid" /\ received[j] > 0 =>
                 Total[j] - paid[j] > 0
        BY DEF SerialInv, BooksBalance, OpenOwes, AmountDue, TypeOK
      <4>2. CASE j # i
        BY <3>4, <4>1, <4>2
      <4>3. CASE j = i /\ t.pay = 0
        BY <3>2, <3>3, <3>4, <4>1, <4>3
      <4>4. CASE j = i /\ t.pay # 0
        BY <3>2, <3>3, <3>4, <4>1, <4>4
      <4> QED
        BY <4>2, <4>3, <4>4
    <3>7. BooksBalance' /\ OpenOwes'
      BY <3>6 DEF BooksBalance, OpenOwes, AmountDue
    <3> QED
      BY <3>5, <3>6, <3>7 DEF SerialInv
  <2>11. CASE Rollback(w)
    <3>1. tx'[w] = NoTx /\ UNCHANGED <<status, paid, received, order>>
      BY <2>11 DEF Rollback, TypeOK
    <3> QED
      BY <3>1 DEF SerialInv, BooksBalance, OpenOwes, AmountDue
  <2> QED
    BY <1>6, <2>4, <2>5, <2>6, <2>7, <2>8, <2>9, <2>10, <2>11 DEF Handle
<1>7. CASE UNCHANGED vars
  BY <1>3, <1>7 DEF vars
<1> QED
  BY <1>1, <1>2, <1>4, <1>5, <1>6, <1>7 DEF Next

\* SerialInv holds initially.
LEMMA SerialInvInit == Init => SerialInv
BY ConstantsAssumption
   DEF Init, SerialInv, BooksBalance, OpenOwes, AmountDue

\* When requests do not overlap, amount_paid is the sum of the payments,
\* whatever the statuses clients patch, the orders and the faults.
THEOREM SerialBooksBalance ==
  ASSUME NEW w, Workers = {w}
  PROVE  Spec => []BooksBalance
<1>1. SerialInv => BooksBalance
  BY DEF SerialInv
<1> QED
  BY <1>1, SerialInvInit, SerialInvStep, TypeCorrect, PTL DEF Spec

\* ... and an invoice that took money and still is not paid owes some.
THEOREM SerialOpenOwes ==
  ASSUME NEW w, Workers = {w}
  PROVE  Spec => []OpenOwes
<1>1. SerialInv => OpenOwes
  BY DEF SerialInv
<1> QED
  BY <1>1, SerialInvInit, SerialInvStep, TypeCorrect, PTL DEF Spec

\* What a commit does to the rows, for the proofs below.
LEMMA CommitWrites ==
  ASSUME TypeOK, NEW w \in Workers, Commit(w)
  PROVE  /\ tx[w] \in Tx /\ tx[w] # NoTx /\ tx[w].inv \in Invoices
         /\ tx[w].set \in Statuses \cup {Keep} /\ tx[w].pay \in Int
         /\ \A j \in Invoices :
              /\ status'[j] = IF j = tx[w].inv /\ tx[w].set # Keep
                                THEN tx[w].set ELSE status[j]
              /\ received'[j] = IF j = tx[w].inv THEN received[j] + tx[w].pay
                                                ELSE received[j]
<1>1. tx[w] \in Tx /\ tx[w] # NoTx
  BY DEF Commit, TypeOK
<1>2. /\ tx[w].inv \in Invoices /\ tx[w].set \in Statuses \cup {Keep}
      /\ tx[w].pay \in Int
  BY <1>1 DEF Tx
<1> QED
  BY <1>1, <1>2 DEF Commit, TypeOK

\* Every step but the commits leaves the money alone, and the statuses of
\* the rows that exist.
LEMMA OnlyCommitsWrite ==
  ASSUME TypeOK, [Next]_vars
  PROVE  \/ \E w \in Workers : Commit(w)
         \/ /\ received' = received
            /\ \A i \in Invoices : status[i] # "none" => status'[i] = status[i]
<1>1. ASSUME NEW i \in Invoices, Create(i)
      PROVE  /\ received' = received
             /\ \A j \in Invoices : status[j] # "none" => status'[j] = status[j]
  BY <1>1 DEF Create, TypeOK
<1>2. ASSUME NEW w \in Workers, Handle(w)
      PROVE  Commit(w) \/ UNCHANGED <<status, received>>
  BY <1>2 DEF Handle, ReadConfirm, ReadCancel, ReadUpdate, ReadRecordPayment,
              ReadPortalPay, HandleSuccess, Rollback
<1> QED
  BY <1>1, <1>2
     DEF Next, CreateCheckout, Approve, HandleSuccessIncomplete, vars

\* When requests do not overlap, no step lowers the sum of the payments of an
\* invoice, whatever amount_due the portal pays and PayPal captures.
THEOREM SerialLedgerOnlyGrows ==
  ASSUME NEW w, Workers = {w}
  PROVE  Spec => LedgerOnlyGrows
<1>1. TypeOK /\ SerialInv /\ [Next]_vars
        => [\A i \in Invoices : received'[i] >= received[i]]_vars
  <2> SUFFICES ASSUME TypeOK, SerialInv, [Next]_vars, NEW i \in Invoices
               PROVE  received'[i] >= received[i]
    OBVIOUS
  <2>0. received[i] \in Int
    BY DEF TypeOK
  <2>1. CASE Commit(w)
    <3>1. tx[w].pay >= 0
      BY <2>1 DEF SerialInv, Commit
    <3> QED
      BY <2>0, <2>1, <3>1, CommitWrites
  <2>2. CASE received' = received
    BY <2>0, <2>2
  <2> QED
    BY <2>1, <2>2, OnlyCommitsWrite
<1> QED
  BY <1>1, SerialInvInit, SerialInvStep, TypeCorrect, PTL
     DEF Spec, LedgerOnlyGrows

\* ... and no request takes an invoice out of paid: its confirm, its cancel,
\* its update and its payments all leave a paid invoice paid.
THEOREM SerialPaidIsFinal ==
  ASSUME NEW w, Workers = {w}
  PROVE  Spec => PaidIsFinal
<1>1. TypeOK /\ SerialInv /\ [Next]_vars
        => [\A i \in Invoices : status[i] = "paid" => status'[i] = "paid"]_vars
  <2> SUFFICES ASSUME TypeOK, SerialInv, [Next]_vars, NEW i \in Invoices,
                      status[i] = "paid"
               PROVE  status'[i] = "paid"
    OBVIOUS
  <2>1. CASE Commit(w)
    <3>1. tx[w].set # Keep => status[tx[w].inv] # "paid"
      BY <2>1 DEF SerialInv, Commit
    <3> QED
      BY <2>1, <3>1, CommitWrites
  <2> QED
    BY <2>1, OnlyCommitsWrite
<1> QED
  BY <1>1, SerialInvInit, SerialInvStep, TypeCorrect, PTL
     DEF Spec, PaidIsFinal

-----------------------------------------------------------------------------
(* One request at a time, an invoice is an account.                        *)

\* AccountInv is inductive, along with SerialInv: nothing changes the row
\* between the read and the commit of the only request there is.
LEMMA AccountInvStep ==
  ASSUME NEW w, Workers = {w}, TypeOK, SerialInv, AccountInv, [Next]_vars
  PROVE  AccountInv'
<1> USE ConstantsAssumption
<1> DEFINE Harmless(t) ==
      /\ t.set \notin {Keep, "paid"} =>
           t.pay = 0 /\ status[t.inv] \in Unsettled
      /\ t.set = "paid" =>
           \/ received[t.inv] + t.pay >= Total[t.inv]
           \/ t.pay = 0 /\ status[t.inv] \in Unsettled
<1>1. ASSUME NEW t \in Tx, Open(w, t), Harmless(t),
             UNCHANGED <<status, received>>
      PROVE  AccountInv'
  <2>1. tx'[w] = t
    BY <1>1 DEF Open, TypeOK
  <2> QED
    BY <1>1, <2>1 DEF AccountInv
<1>2. ASSUME NEW i \in Invoices, NEW s \in Statuses,
             Changed(i, s) = Keep \/ status[i] \in Unsettled,
             Open(w, StatusWrite(i, s)), UNCHANGED <<status, received>>
      PROVE  AccountInv'
  <2> DEFINE t == StatusWrite(i, s)
  <2>1. t \in Tx
    BY StatusWriteType
  <2>2. t.inv = i /\ t.pay = 0 /\ t.set = Changed(i, s) /\ Keep # "paid"
    BY DEF StatusWrite, Statuses
  <2>3. Open(w, t)
    BY <1>2
  <2> HIDE DEF t
  <2>4. Harmless(t)
    BY <1>2, <2>2
  <2> HIDE DEF Harmless
  <2> QED
    BY <1>1, <1>2, <2>1, <2>3, <2>4
<1>3. ASSUME NEW i \in Invoices, NEW a \in Int,
             NEW o \in Orders \cup {NoOrder},
             Open(w, PaymentWrite(i, a, o)), UNCHANGED <<status, received>>
      PROVE  AccountInv'
  <2> DEFINE t == PaymentWrite(i, a, o)
  <2>1. t \in Tx
    BY PaymentWriteType
  <2>2. /\ t.inv = i /\ t.pay = a /\ t.set \in {Keep, "paid"}
        /\ t.set = "paid" => paid[i] + a >= Total[i]
    BY DEF PaymentWrite, Changed, Statuses
  <2>3. paid[i] = received[i]
    BY DEF SerialInv, BooksBalance
  <2>4. Open(w, t)
    BY <1>3
  <2> HIDE DEF t
  <2>5. Harmless(t)
    BY <2>2, <2>3
  <2> HIDE DEF Harmless
  <2> QED
    BY <1>1, <1>3, <2>1, <2>4, <2>5
<1>4. ASSUME NEW i \in Invoices, Create(i) PROVE AccountInv'
  <2>1. /\ received' = received /\ tx' = tx
        /\ \A j \in Invoices : status[j] # "none" => status'[j] = status[j]
    BY <1>4 DEF Create, TypeOK
  <2>2. tx[w] # NoTx => /\ tx[w].inv \in Invoices
                        /\ status[tx[w].inv] # "none"
    BY DEF SerialInv, TypeOK, Tx
  <2> QED
    BY <2>1, <2>2 DEF AccountInv
<1>5. ASSUME UNCHANGED <<status, received, tx>> PROVE AccountInv'
  BY <1>5 DEF AccountInv
<1>6. ASSUME Handle(w) PROVE AccountInv'
  <2>1. ASSUME NEW i \in Invoices, ReadConfirm(w, i) PROVE AccountInv'
    BY <2>1, <1>2 DEF ReadConfirm, Unsettled, Statuses
  <2>2. ASSUME NEW i \in Invoices, ReadCancel(w, i) PROVE AccountInv'
    <3>1. Changed(i, "cancelled") = Keep \/ status[i] \in Unsettled
      BY <2>2 DEF ReadCancel, Changed, Unsettled, Statuses, TypeOK
    <3> QED
      BY <2>2, <3>1, <1>2 DEF ReadCancel, Statuses
  <2>3. ASSUME NEW i \in Invoices, NEW s \in PatchStatuses,
               ReadUpdate(w, i, s)
        PROVE  AccountInv'
    BY <2>3, <1>2 DEF ReadUpdate, Unsettled
  <2>4. ASSUME NEW i \in Invoices, NEW a \in Amounts,
               ReadRecordPayment(w, i, a)
        PROVE  AccountInv'
    BY <2>4, <1>3, a \in Int DEF ReadRecordPayment
  <2>5. ASSUME NEW i \in Invoices, ReadPortalPay(w, i) PROVE AccountInv'
    BY <2>5, <1>3, AmountDueType DEF ReadPortalPay
  <2>6. ASSUME NEW o \in Orders, NEW i \in Invoices, NEW c,
               HandleSuccess(w, o, i, c)
        PROVE  AccountInv'
    <3>1. order[o].amount \in Int
      BY DEF TypeOK
    <3>2. CASE Open(w, PaymentWrite(i, order[o].amount, o))
      BY <2>6, <3>1, <3>2, <1>3 DEF HandleSuccess
    <3>3. CASE UNCHANGED tx
      BY <2>6, <3>3 DEF HandleSuccess, AccountInv
    <3> QED
      BY <2>6, <3>2, <3>3 DEF HandleSuccess
  <2>7. CASE Commit(w) \/ Rollback(w)
    <3>1. tx'[w] = NoTx
      BY <2>7 DEF Commit, Rollback, TypeOK
    <3> QED
      BY <3>1 DEF AccountInv
  <2> QED
    BY <1>6, <2>1, <2>2, <2>3, <2>4, <2>5, <2>6, <2>7 DEF Handle
<1> QED
  BY <1>4, <1>5, <1>6
     DEF Next, CreateCheckout, Approve, HandleSuccessIncomplete, vars

\* When requests do not overlap, each request takes effect at its commit as
\* one step of the account its invoice stands for: the billing services
\* implement InvoiceAccount.
THEOREM SerialIsAccount ==
  ASSUME NEW w, Workers = {w}
  PROVE  Spec => IsAccount
<1> USE ConstantsAssumption
<1>1. Init => AccountInv
  BY DEF Init, AccountInv
<1>2. Init => Account!AccountInit
  BY DEF Init, Account!AccountInit, AccountState
<1>3. TypeOK /\ SerialInv /\ AccountInv /\ [Next]_vars
        => [Account!AccountNext]_<<AccountState, received>>
  <2> SUFFICES ASSUME TypeOK, SerialInv, AccountInv, [Next]_vars
               PROVE  \/ Account!AccountNext
                      \/ AccountState' = AccountState /\ received' = received
    OBVIOUS
  <2>1. ASSUME NEW i \in Invoices, Create(i) PROVE Account!AccountNext
    <3>1. /\ status[i] = "none" /\ received' = received
          /\ \A j \in Invoices :
               IF j = i THEN status'[j] \in {"draft", "confirmed"}
                        ELSE status'[j] = status[j]
      BY <2>1 DEF Create, TypeOK
    <3>2. AccountState[i] = "absent"
      BY <3>1 DEF AccountState
    <3>3. AccountState' = [AccountState EXCEPT ![i] = "open"]
      BY <3>1 DEF AccountState
    <3> QED
      BY <3>1, <3>2, <3>3 DEF Account!AccountNext, Account!Bill
  <2>2. CASE Commit(w)
    <3> DEFINE t == tx[w]
               i == t.inv
    <3>1. /\ t # NoTx /\ i \in Invoices
          /\ t.set \in Statuses \cup {Keep} /\ t.pay \in Int
          /\ received[i] \in Int /\ Total[i] \in Nat
          /\ \A j \in Invoices :
               /\ status'[j] = IF j = i /\ t.set # Keep
                                 THEN t.set ELSE status[j]
               /\ received'[j] = IF j = i THEN received[j] + t.pay
                                         ELSE received[j]
      BY <2>2, CommitWrites DEF TypeOK
    <3>2. /\ status[i] # "none" /\ t.pay >= 0
          /\ t.pay # 0 /\ received[i] + t.pay >= Total[i] =>
               status[i] = "paid" \/ t.set = "paid"
      BY <3>1 DEF SerialInv, BooksBalance
    <3>3. /\ t.set \notin {Keep, "paid"} =>
               t.pay = 0 /\ status[i] \in Unsettled
          /\ t.set = "paid" =>
               \/ received[i] + t.pay >= Total[i]
               \/ t.pay = 0 /\ status[i] \in Unsettled
      BY <3>1 DEF AccountInv
    <3>4. /\ received' \in [Invoices -> Int] /\ received \in [Invoices -> Int]
      <4>1. received' \in [Invoices -> Int]
        BY <2>2, <3>1 DEF Commit, TypeOK
      <4> QED
        BY <4>1 DEF TypeOK
    <3>5. Keep \notin Statuses
      OBVIOUS
    <3> HIDE DEF t, i
    <3>6. received' = [received EXCEPT ![i] = received'[i]]
      BY <3>1, <3>4
    <3>7. t.pay = 0 => received' = received
      BY <3>1, <3>4
    <3>8. \A st : st = AccountState'[i] =>
             AccountState' = [AccountState EXCEPT ![i] = st]
      BY <3>1 DEF AccountState
    <3>9. CASE t.set = Keep /\ t.pay = 0
      <4>1. AccountState' = AccountState
        BY <3>1, <3>9 DEF AccountState
      <4> QED
        BY <3>7, <3>9, <4>1
    <3>10. CASE t.set = Keep /\ t.pay # 0
      <4>1. AccountState'[i] = AccountState[i] /\ AccountState[i] # "absent"
        BY <3>1, <3>2, <3>10 DEF AccountState
      <4>2. received'[i] >= Total[i] => AccountState[i] = "settled"
        BY <3>1, <3>2, <3>5, <3>10 DEF AccountState, Statuses
      <4>3. received'[i] >= received[i]
        BY <3>1, <3>2
      <4>4. AccountState' =
              [AccountState EXCEPT ![i] = IF received'[i] >= Total[i]
                                            THEN "settled" ELSE @]
        BY <4>1, <4>2, <3>1, <3>8 DEF AccountState
      <4>5. Account!Receive(i)
        BY <3>6, <4>1, <4>3, <4>4 DEF Account!Receive
      <4> QED
        BY <3>1, <4>5 DEF Account!AccountNext
    <3>11. CASE t.set = "paid" /\ received[i] + t.pay >= Total[i]
      <4>1. AccountState'[i] = "settled" /\ AccountState[i] # "absent"
        BY <3>1, <3>2, <3>5, <3>11 DEF AccountState, Statuses
      <4>2. received'[i] >= received[i] /\ received'[i] >= Total[i]
        BY <3>1, <3>2, <3>11
      <4>3. AccountState' =
              [AccountState EXCEPT ![i] = IF received'[i] >= Total[i]
                                            THEN "settled" ELSE @]
        BY <4>1, <4>2, <3>8
      <4>4. Account!Receive(i)
        BY <3>6, <4>1, <4>2, <4>3 DEF Account!Receive
      <4> QED
        BY <3>1, <4>4 DEF Account!AccountNext
    <3>12. CASE t.set = "paid" /\ t.pay = 0 /\ status[i] \in Unsettled
      <4>1. AccountState'[i] = "settled" /\ AccountState[i] = "open"
        BY <3>1, <3>5, <3>12 DEF AccountState, Statuses, Unsettled
      <4>2. AccountState' = [AccountState EXCEPT ![i] = "settled"]
        BY <4>1, <3>8
      <4>3. Account!Settle(i)
        BY <3>7, <3>12, <4>1, <4>2 DEF Account!Settle
      <4> QED
        BY <3>1, <4>3 DEF Account!AccountNext
    <3>13. CASE t.set = "cancelled"
      <4>0. t.pay = 0 /\ status[i] \in Unsettled
        BY <3>3, <3>5, <3>13 DEF Statuses
      <4>1. AccountState'[i] = "void" /\ AccountState[i] = "open"
        BY <3>1, <3>5, <3>13, <4>0 DEF AccountState, Statuses, Unsettled
      <4>2. AccountState' = [AccountState EXCEPT ![i] = "void"]
        BY <4>1, <3>8
      <4>3. Account!Void(i)
        BY <3>7, <4>0, <4>1, <4>2 DEF Account!Void
      <4> QED
        BY <3>1, <4>3 DEF Account!AccountNext
    <3>14. CASE t.set \in Unsettled
      <4>0. t.pay = 0 /\ status[i] \in Unsettled
        BY <3>3, <3>5, <3>14 DEF Statuses, Unsettled
      <4>1. AccountState' = AccountState
        BY <3>1, <3>5, <3>14, <4>0 DEF AccountState, Statuses, Unsettled
      <4> QED
        BY <3>7, <4>0, <4>1
    <3> QED
      BY <3>1, <3>3, <3>9, <3>10, <3>11, <3>12, <3>13, <3>14
         DEF Statuses, Unsettled
  <2>3. CASE UNCHANGED <<status, received>>
    BY <2>3 DEF AccountState
  <2>4. ASSUME NEW v \in Workers, Handle(v)
        PROVE  Commit(w) \/ UNCHANGED <<status, received>>
    BY <2>4 DEF Handle, ReadConfirm, ReadCancel, ReadUpdate, ReadRecordPayment,
                ReadPortalPay, HandleSuccess, Rollback
  <2> QED
    BY <2>1, <2>2, <2>3, <2>4
       DEF Next, CreateCheckout, Approve, HandleSuccessIncomplete, vars
<1> QED
  BY <1>1, <1>2, <1>3, SerialInvInit, SerialInvStep, AccountInvStep,
     TypeCorrect, PTL
     DEF Spec, IsAccount, Account!AccountSpec, Account!accountVars
=============================================================================
