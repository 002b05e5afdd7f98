SPECIFICATION Spec
CONSTANTS
  p1 = p1
  p2 = p2
  p3 = p3
  t1 = t1
  t2 = t2
  t3 = t3
  NoProc = NoProc
  Proc = {p1, p2}
  Thread = {t1, t2}
  home <- MCHome
  NrSlots = 2
  MaxEpoch = 5
  Monitored = {p1}
  FalseSuspicion = TRUE
  reach <- MCReachAll
  TornVerdicts = FALSE
  ReuseCondemned = FALSE
INVARIANTS TypeOK CriticalLag SlotOwned
PROPERTIES EpochStable ImplementsEpochs
CHECK_DEADLOCK FALSE
