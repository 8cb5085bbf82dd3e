SPECIFICATION Spec
CONSTANTS
  Workers = {w1, w2}
  Invoices = {i1}
  Orders = {}
  Total <- MCTotal
  Customers = {c1}
  Owner <- MCOwner
  Amounts = {1, 2}
  PatchStatuses = {}
  MaxReceived = 4
  Faults = FALSE
  Keep = Keep
  NoCustomer = NoCustomer
  NoOrder = NoOrder
  NoTx = NoTx
INVARIANT NoOverpayment
CHECK_DEADLOCK FALSE
