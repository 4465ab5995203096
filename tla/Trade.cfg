SPECIFICATION FairSpec
CONSTANTS
  Trades = {t1, t2}
  Decisions <- AnyDecision
  FirstBalance <- MCFirstBalance
  MaxTradeUsd = 4
  RiskPercent = 25
  TotalRiskPercent = 40
  MaxRetries = 3
  ResetAfter = 1
  DatabaseFails = TRUE
INVARIANTS BoughtOnce ReportsAreTrue
PROPERTY TradesEnd
CHECK_DEADLOCK FALSE
