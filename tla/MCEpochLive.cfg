SPECIFICATION FairSpec
CONSTANTS
  p1 = p1
  p2 = p2
  p3 = p3
  t1 = t1
  t2 = t2
  t3 = t3
  NoProc = NoProc
  Proc = {p1, p2}
  Thread = {t1}
  home <- MCHome
  NrSlots = 2
  MaxEpoch = 4
  Monitored = {p2}
  FalseSuspicion = FALSE
  reach <- MCReachOwn
  TornVerdicts = FALSE
  ReuseCondemned = FALSE
PROPERTIES FrontierMoves
CHECK_DEADLOCK FALSE
