SPECIFICATION AnsweredSpec
CONSTANTS
  Pools = {p1, p2}
  Calls = {c1, c2, c3}
  Trades = {t1, t2, t3}
PROPERTY EvaluationsEnd
CHECK_DEADLOCK FALSE
