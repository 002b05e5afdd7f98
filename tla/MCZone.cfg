SPECIFICATION Spec
CONSTANTS
  p1 = p1
  p2 = p2
  NoChunk = NoChunk
  Proc <- MCProc
  MaxLevel = 3
  AllocLevel = {1, 2}
  LogWidth = 3
  MaxDeaths = 2
SYMMETRY Symmetry
INVARIANTS TypeOK NoOverlap Tiled MergeAsserts GCRecovers BuddiesMerged LevelRight
PROPERTIES ImplementsAllocator
CHECK_DEADLOCK FALSE
