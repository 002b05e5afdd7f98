SPECIFICATION Spec
CONSTANTS
  p1 = p1
  p2 = p2
  NoChunk = NoChunk
  Proc <- MCProc
  MaxLevel = 2
  AllocLevel = {0, 1, 2}
  LogWidth = 3
  MaxDeaths = 1
INVARIANTS GCStaysInZone
CHECK_DEADLOCK FALSE
