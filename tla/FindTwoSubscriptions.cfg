SPECIFICATION SubSpec
CONSTANTS
  Workers = {w1, w2}
  Subs = {1, 2}
  Customers = {c1}
  Owner <- MCOwner
  Plans = {1, 2}
  Price <- MCPrice
  Closable = {1}
  Desks = {"portal"}
  Selectable = {}
  MaxDelta = 2
  Faults = FALSE
  Keep = Keep
  NoPlan = NoPlan
  NoTx = NoTx
PROPERTY OneSubscription
CHECK_DEADLOCK FALSE
