SPECIFICATION Spec
CONSTANTS
  Workers = {w1, p1}
  Processors = {p1}
  Subs = {1}
  Customers = {c1}
  Owner <- MCOwner
  Plans = {1}
  Price <- MCPrice
  Closable = {1}
  Desks = {"portal"}
  Selectable = {1}
  MaxDelta = 0
  Faults = FALSE
  Invoices = {i1, i2}
  SubOf <- MCSubOf
  Batches = {1, 2}
  InvoiceOf <- MCInvoiceOf
  Days = {0, 14, 21, 28}
  Keep = Keep
  NoPlan = NoPlan
  NoTx = NoTx
  NoRun = NoRun
PROPERTY CancelledForGood
CHECK_DEADLOCK FALSE
