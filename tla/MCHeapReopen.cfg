CONSTANTS
  p1 = p1
  p2 = p2
  Proc <- MCProc
  Gone = Gone
  MaxData = 2
  MaxLives = 2
  PermLives = 1
  MaxEvents = 1
SPECIFICATION Spec
SYMMETRY Symmetry
CHECK_DEADLOCK FALSE
INVARIANT MappingCurrent
