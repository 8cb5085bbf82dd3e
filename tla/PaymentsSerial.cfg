SPECIFICATION Spec
CONSTANTS
  Workers = {w1}
  Invoices = {i1, i2}
  Orders = {o1}
  Total <- MCTotal
  Customers = {c1, c2}
  Owner <- MCOwner
  Amounts = {1, 2}
  PatchStatuses = {"draft", "confirmed", "paid", "cancelled", "overdue"}
  MaxReceived = 4
  Faults = TRUE
  Keep = Keep
  NoCustomer = NoCustomer
  NoOrder = NoOrder
  NoTx = NoTx
INVARIANTS TypeOK BooksBalance OpenOwes
PROPERTIES LedgerOnlyGrows PaidIsFinal IsAccount
CHECK_DEADLOCK FALSE
