SPECIFICATION Spec
CONSTANTS
  Workers = {w1, w2}
  Families = {f1, f2}
  MaxTime = 1
  Faults = TRUE
  Keep = Keep
  Idle = Idle
SYMMETRY MCSymmetry
INVARIANTS TokTypeOK OneLiveToken RotationMovesForward UnspentIsLive
PROPERTY RevokedForGood
CHECK_DEADLOCK FALSE
