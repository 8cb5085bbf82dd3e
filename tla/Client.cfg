SPECIFICATION Spec
CONSTANTS
  a1 = a1
  a2 = a2
  s1 = s1
  s2 = s2
  Calls <- MCCalls
  Rows <- MCRows
  Shapes <- PageShapes
  MaxWrites = 2
INVARIANTS ClientTypeOK FreshHasOwnWrites SubmittedIsChosen
PROPERTIES PagesSettle
