SPECIFICATION Spec
CONSTANTS
  a = a
  b = b
  c = c
  ta = ta
  tb = tb
  tc = tc
  Proc = {a, b, c}
  First = {a, b}
  User = {ta, tb, tc}
  home <- MCHome
  pidOf <- MCPid
  btimeOf <- MCBtime
  blind <- MCNodes
  ItemCount = 2
  ListCount = 2
  BlockCount = 1
  Capacity = 1
  MaxEvents = 2
INVARIANTS SoleUser
CHECK_DEADLOCK FALSE
