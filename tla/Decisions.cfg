SPECIFICATION PartSpec
CONSTANTS
  Prices = {p1, p2}
  Reasons = {requested, forced}
  DefaultReason = forced
  Stamped = stamped
  Undefined = undefined
  NoTrigger = none
  MaxHistory = 3
  ExitStrategies <- Strategies
  ExitPrices = {50, 80, 90, 100, 120, 150, 200}
  MaxMinutes = 2
  RiskPositions = {r1, r2}
  TradeAmounts = {1, 2}
  Pnls = {1}
  Volatilities = {0, 100}
  maxTotalExposure = 3
  maxSinglePositionSize = 1
  maxPortfolioPercentage = 50
  maxDailyLoss = 1
  maxDrawdown = 40
  Volatility = {10, 90}
  PoolLiquidity = {1, 40, 200, 2000}
  Amounts = {1, 10}
  BaseSlippage = 100
  MaxSlippage = 500
  EmergencySlippage = 1500
  VolatilityMultiplier = 2
  LiquidityThreshold = 50
  MarketImpactThreshold = 50
  ResetTimeout = 3
  TripTimers = {x1, x2}
  AmountsOut = {0, 90, 95, 100, 106}
  Fees = {1, 3}
  maxSlippagePercent = 5
  maxGasFee = 2
  MarketTokens = {t1}
  Trends <- PriceTrends
  Scores = {2, 3, 5, 6, 7, 9}
  Enough = 2
  Analyses = {a1, a2}
  MaxPoints = 3
  MonitoredServices = {coingecko}
  OpensAt = 2
  OpenTime = 2
  AlertWindow = 2
SYMMETRY Symmetry
INVARIANTS ExposureIsAlerted VolatilityIsRecent  FavorableIsSafe
PROPERTIES LifecycleSpec DecidesAsConfigured EveryOutageIsAlerted
CHECK_DEADLOCK FALSE
