SPECIFICATION FairSpec
CONSTANTS
  Callers = {c1, c2}
  Nobody = nobody
  CallTriggers <- LifeTriggers
  ForcedStates = {"CLOSED"}
  Prices = {p1, p2}
  Reasons = {forced}
  DefaultReason = forced
  Stamped = stamped
  Undefined = undefined
  NoTrigger = none
  MaxHistory = 2
INVARIANTS TransitionsExclusive OpenPnlMatchesPrice
PROPERTIES LifecycleSpec CallsReturn
