SPECIFICATION Spec
CONSTANTS
  p1 = p1
  p2 = p2
  Nobody = Nobody
  Proc = {p1, p2}
  ShelfCount = 2
  VersionCount = 32768
  StartVersion = 0
  MaxEvents = 3
  MaxVersion = 3
  MaxLives = 2
  Rand <- MCRand
INVARIANTS TypeOK VersionOnce SoloRecoverCleans
PROPERTIES MarksOwnFile ImplementsShelfPool
CHECK_DEADLOCK FALSE
