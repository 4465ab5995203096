SPECIFICATION Spec
CONSTANTS
  Pools = {p1, p2}
  Calls = {c1, c2}
  Trades = {t1, t2, t3}
PROPERTY ExecutedOnce
CHECK_DEADLOCK FALSE
