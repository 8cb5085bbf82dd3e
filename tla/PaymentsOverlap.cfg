SPECIFICATION Spec
CONSTANTS
  Workers = {w1, w2, w3}
  Invoices = {i1, i2}
  Orders = {o1}
  Total <- MCTotal
  Customers = {c1, c2}
  Owner <- MCOwner
  Amounts = {1, 2}
  PatchStatuses = {"cancelled", "overdue"}
  MaxReceived = 2
  Faults = FALSE
  Keep = Keep
  NoCustomer = NoCustomer
  NoOrder = NoOrder
  NoTx = NoTx
SYMMETRY MCSymmetry
INVARIANTS CreditedOnce PaidIsCovered ColumnIsModest
CHECK_DEADLOCK FALSE
