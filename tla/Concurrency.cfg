SPECIFICATION PartSpec
CONSTANTS
  Callers = {c1, c2}
  Nobody = nobody
  CallTriggers = {}
  ForcedStates = {"CLOSED"}
  Prices = {p1, p2}
  Reasons = {forced}
  DefaultReason = forced
  Stamped = stamped
  Undefined = undefined
  NoTrigger = none
  MaxHistory = 1
  MaxCalls = 4
  IndexedPositions = {i1, i2, i3}
  IndexPrices = {a, b}
  NoPrice = n
  MaxPositions = 4
  MaxLocked = 2
  MaxCounter = 5
  Requesters = {r1, r2, r3}
  MarketTokens = {t1}
  MarketPrices = {a, b}
  QueueSize = 3
  Batch = 2
  MaxTimers = 2
INVARIANTS CacheCatchesUp ReportedCloses PriceIsOwn ToldOnce
PROPERTY RingsAreQueues
CHECK_DEADLOCK FALSE
