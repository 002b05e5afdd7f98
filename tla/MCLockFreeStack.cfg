SPECIFICATION Spec
CONSTANTS
  p1 = p1
  p2 = p2
  b1 = b1
  b2 = b2
  Nil = Nil
  Proc = {p1, p2}
  Block <- MCBlock
  owner <- MCOwner
  MaxAba = 4
SYMMETRY Symmetry
INVARIANTS TypeOK LinkFresh
PROPERTIES ImplementsAtomicStack
CHECK_DEADLOCK FALSE
