SPECIFICATION Spec
CONSTANTS
  a = a
  b = b
  c = c
  ta = ta
  tb = tb
  tc = tc
  Proc = {a, b, c}
  First = {a, b}
  User = {ta, tb, tc}
  home <- MCHome
  pidOf <- MCPid
  btimeOf <- MCBtime
  blind <- MCBlind
  ItemCount = 1
  ListCount = 1
  BlockCount = 1
  Capacity = 1
  MaxEvents = 2
INVARIANTS TypeOK
PROPERTIES ImplementsObjectHeap
CHECK_DEADLOCK FALSE
