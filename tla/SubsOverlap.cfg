SPECIFICATION SubSpec
CONSTANTS
  Workers = {w1, w2, w3}
  Subs = {1}
  Customers = {c1}
  Owner <- MCOwner
  Plans = {1, 2, 3}
  Price <- MCPrice
  Closable = {1, 2, 3}
  Desks = {"portal", "staff", "beat"}
  Selectable = {}
  MaxDelta = 2
  Faults = FALSE
  Keep = Keep
  NoPlan = NoPlan
  NoTx = NoTx
SYMMETRY MCSymmetry
INVARIANTS PlanIsCharged ActiveIsBilled
CHECK_DEADLOCK FALSE
