SPECIFICATION FairSpec
CONSTANTS
  Pools = {p1, p2}
  Calls = {c1, c2, c3}
  Trades = {t1, t2, t3}
INVARIANTS ExecutingIsFirst MachineWaits
PROPERTY ExecutionsEnd
CHECK_DEADLOCK FALSE
