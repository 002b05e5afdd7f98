SPECIFICATION Spec
CONSTANTS
  p1 = p1
  p2 = p2
  t1 = t1
  t2 = t2
  w1 = w1
  w2 = w2
  Proc = {p1, p2}
  Thread = {t1, t2, w1, w2}
  Worker = {w1, w2}
  home <- MCHome
  Block = {b1, b2}
  FirstEpoch = 2
  MaxEpoch = 8
  kFreeCnt = 1
INVARIANTS TypeOK NoEarlyReclaim InOnePlace PushPopApart
