SPECIFICATION Spec
CONSTANTS
  Workers = {w1}
  Invoices = {i1, i2}
  Orders = {o1}
  Total <- MCTotal
  Customers = {c1, c2}
  Owner <- MCOwner
  Amounts = {1, 2}
  PatchStatuses = {}
  MaxReceived = 2
  Faults = FALSE
  NoCustomer = NoCustomer
  Keep = Keep
  NoOrder = NoOrder
  NoTx = NoTx
INVARIANT CapturedIsRecorded
CHECK_DEADLOCK FALSE
