SPECIFICATION Spec
CONSTANTS
  p1 = p1
  p2 = p2
  p3 = p3
  t1 = t1
  t2 = t2
  t3 = t3
  NoProc = NoProc
  Proc = {p1, p2, p3}
  Thread = {t3}
  home <- MCHome
  NrSlots = 2
  MaxEpoch = 5
  Monitored = {p3}
  FalseSuspicion = TRUE
  reach <- MCReachAll
  TornVerdicts = FALSE
  ReuseCondemned = TRUE
INVARIANTS OperationHoldsFrontier
CHECK_DEADLOCK FALSE
