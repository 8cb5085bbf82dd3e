SPECIFICATION Spec
CONSTANTS
  Workers = {w1, p1, p2}
  Processors = {p1, p2}
  Subs = {1}
  Customers = {c1}
  Owner <- MCOwner
  Plans = {1}
  Price <- MCPrice
  Closable = {1}
  Desks = {"portal", "bulk"}
  Selectable = {1}
  MaxDelta = 0
  Faults = TRUE
  Invoices = {i1}
  SubOf <- MCSubOf
  Batches = {1}
  InvoiceOf <- MCInvoiceOf
  Days = {0, 3, 7, 14, 21}
  Keep = Keep
  NoPlan = NoPlan
  NoTx = NoTx
  NoRun = NoRun
SYMMETRY MCSymmetry
INVARIANTS DunTypeOK StepsEscalate PausedByDunning
PROPERTY PaidBeforeRunIsSpared
CHECK_DEADLOCK FALSE
