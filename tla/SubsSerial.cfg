SPECIFICATION SubSpec
CONSTANTS
  Workers = {w1}
  Subs = {1, 2}
  Customers = {c1}
  Owner <- MCOwner
  Plans = {1, 2, 3}
  Price <- MCPrice
  Closable = {1, 2}
  Desks = {"portal", "staff", "bulk", "beat"}
  Selectable = {2}
  MaxDelta = 2
  Faults = TRUE
  Keep = Keep
  NoPlan = NoPlan
  NoTx = NoTx
INVARIANTS SubTypeOK DowngradeIsCheaper
PROPERTIES OneSubscription FollowsMachine HonoursContract ClosedIsFrozen
CHECK_DEADLOCK FALSE
