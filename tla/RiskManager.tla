---------------------------- MODULE RiskManager ----------------------------
(***************************************************************************)
(* The RiskManager of security/risk-manager.ts: it is told of positions,   *)
(* trades and prices, and assesses the portfolio at intervals, on changes  *)
(* and before a trade.  It raises alerts; it rejects nothing.  What it     *)
(* calls the value of the portfolio is what the open positions cost.  A    *)
(* call awaits nothing that waits, and is one step; its circuit breakers   *)
(* stay closed, as nothing they guard fails.                               *)
(***************************************************************************)
EXTENDS Integers, FiniteSets, FiniteSetsExt

CONSTANTS
  RiskPositions,  \* ids of positions, each of a token of its own
  TradeAmounts,   \* what a position may cost, in USD
  Pnls,           \* what its closing may bring
  Volatilities,   \* what the prices of a token may come to, in percent
  maxTotalExposure, maxSinglePositionSize, maxPortfolioPercentage,
  maxDailyLoss, maxDrawdown  \* of RiskConfig

ASSUME RiskAssumption ==
  /\ IsFiniteSet(RiskPositions)
  /\ TradeAmounts \subseteq Nat \ {0} /\ Pnls \subseteq Int /\ Volatilities \subseteq Nat
  /\ {maxTotalExposure, maxSinglePositionSize, maxDailyLoss, maxDrawdown} \subseteq Nat
  /\ maxPortfolioPercentage \in Nat \ {0}

VARIABLES isRunning,       \* isRunning, and the interval with it
          status, cost,    \* positions: the status of each, and amount * entryPrice
          tokenVolatility,      \* what calculateTokenVolatility() makes of priceHistory
          dailyStartValue, maxDrawdownSeen,
          metrics,         \* currentMetrics: dailyPnl and drawdown
          riskScore,       \* currentAssessment.riskScore, times 100
          assessedLately,  \* the last assessment is less than half an interval ago
          alerts,          \* what has been alerted of; the size of a single position is alerted
                   \* with the type EXPOSURE_LIMIT too, and the severity HIGH
          awaited,         \* trades assessed whose positions are not open yet
          realized, oneByOne \* profit of closed positions, and whether no two trades
                             \* were awaited at once; only properties look at them

riskTracking == <<dailyStartValue, maxDrawdownSeen, metrics, riskScore, assessedLately>>
riskGhosts == <<realized, oneByOne>>
riskVars == <<isRunning, status, cost, tokenVolatility, riskTracking, alerts, awaited, riskGhosts>>

RiskInit ==
  /\ isRunning = FALSE
  /\ status = [p \in RiskPositions |-> "none"] /\ cost = [p \in RiskPositions |-> 0]
  /\ tokenVolatility = [p \in RiskPositions |-> 0]
  /\ dailyStartValue = 0 /\ maxDrawdownSeen = 0
  /\ metrics = [dailyPnl |-> 0, drawdown |-> 0] /\ riskScore = 0
  /\ assessedLately = FALSE
  /\ alerts = {} /\ awaited = {} /\ realized = 0 /\ oneByOne = TRUE
-----------------------------------------------------------------------------
(* What the open ones of the positions cost: their dollars, counted. *)
CostOf(positions, s, c) ==
  Cardinality(UNION {{p} \X (1..c[p]) : p \in {q \in positions : s[q] = "OPEN"}})
CalculateTotalExposure == CostOf(RiskPositions, status, cost)

Percent(part, whole) == IF whole > 0 THEN (100 * part) \div whole ELSE 0

(* calculateDrawdown(): from the larger of the first value seen and the present one. *)
Drawdown(value) ==
  IF dailyStartValue = 0 THEN 0
  ELSE LET peak == Max({dailyStartValue, value}) IN Percent(peak - value, peak)

(* The parts of the score, of what is open (and a pending trade).  No two positions are
   correlated: the matrix has addresses of tokens, and is asked for ids of positions. *)
OpenOnes(s) == {p \in RiskPositions : s[p] = "OPEN"}
ExposureScore(s, c, pending) ==
  LET value == CostOf(RiskPositions, s, c)
  IN  Min({100, Percent(Percent(value + pending, value), maxPortfolioPercentage)})
CorrelationScore == 0
VolatilityScore(s, v) ==
  IF OpenOnes(s) = {} THEN 0
  ELSE Min({100, MapThenSumSet(LAMBDA p : v[p], OpenOnes(s)) \div Cardinality(OpenOnes(s))})
LiquidityScoreOf(s) == IF OpenOnes(s) = {} THEN 0 ELSE 100 \* every pool counts as liquid

(* calculateOverallRiskScore(), times 100. *)
RiskScore(s, c, v, pending) ==
  30 * ExposureScore(s, c, pending) + 25 * CorrelationScore + 25 * VolatilityScore(s, v)
  + 20 * (100 - LiquidityScoreOf(s))

RiskLevel(score) == CASE score >= 8000 -> "CRITICAL" [] score >= 6000 -> "HIGH"
                      [] score >= 4000 -> "MEDIUM"   [] OTHER -> "LOW"

(* calculateRiskMetrics(), of a portfolio of that value. *)
MetricsOf(value) == [dailyPnl |-> value - dailyStartValue, drawdown |-> Drawdown(value)]

(* checkRiskThresholds(); there is no correlation to alert of. *)
AlertsOf(m) == {a \in {"DAILY_LOSS", "DRAWDOWN"} :
                  \/ a = "DAILY_LOSS" /\ m.dailyPnl < -maxDailyLoss
                  \/ a = "DRAWDOWN" /\ m.drawdown > maxDrawdown}

(* performRiskAssessment() over the positions s at cost c. *)
PerformRiskAssessment(s, c, v) ==
  LET m == MetricsOf(CostOf(RiskPositions, s, c))
  IN  /\ metrics' = m
      /\ maxDrawdownSeen' = Max({maxDrawdownSeen, m.drawdown})
      /\ riskScore' = RiskScore(s, c, v, 0)
      /\ assessedLately' = TRUE
      /\ alerts' = alerts \cup AlertsOf(m)
      /\ UNCHANGED dailyStartValue

StartRiskManager ==
  /\ ~isRunning /\ isRunning' = TRUE
  /\ PerformRiskAssessment(status, cost, tokenVolatility)
  /\ UNCHANGED <<status, cost, tokenVolatility, awaited, riskGhosts>>

StopRiskManager ==
  /\ isRunning /\ isRunning' = FALSE
  /\ UNCHANGED <<status, cost, tokenVolatility, riskTracking, alerts, awaited, riskGhosts>>

(* The interval's timer. *)
AssessAtInterval ==
  /\ isRunning
  /\ PerformRiskAssessment(status, cost, tokenVolatility)
  /\ UNCHANGED <<isRunning, status, cost, tokenVolatility, awaited, riskGhosts>>

(* A faulty variant: the limit is held against what is exposed already. *)
ExposureWithout(amount) == CalculateTotalExposure
ExposureWith(amount) == CalculateTotalExposure + amount

(* assessTradeRisk() of a trade that would open p. *)
AssessTradeRisk(p, amount) ==
  /\ status[p] = "none" /\ p \notin awaited
  /\ alerts' = alerts \cup {a \in {"EXPOSURE_LIMIT", "POSITION_SIZE"} :
                 \/ a = "EXPOSURE_LIMIT" /\ ExposureWith(amount) > maxTotalExposure
                 \/ a = "POSITION_SIZE" /\ amount > maxSinglePositionSize}
  /\ awaited' = awaited \cup {p}
  /\ cost' = [cost EXCEPT ![p] = amount]
  /\ oneByOne' = (oneByOne /\ awaited = {})
  /\ UNCHANGED <<isRunning, status, tokenVolatility, riskTracking, realized>>

(* updatePosition(): the portfolio is assessed unless it has been lately. *)
UpdatePosition(p, s) ==
  /\ status' = [status EXCEPT ![p] = s]
  /\ IF assessedLately THEN UNCHANGED <<riskTracking, alerts>>
     ELSE PerformRiskAssessment(status', cost, tokenVolatility)

PositionIsOpened(p) ==
  /\ p \in awaited /\ awaited' = awaited \ {p}
  /\ UpdatePosition(p, "OPEN")
  /\ UNCHANGED <<isRunning, cost, tokenVolatility, riskGhosts>>

PositionIsClosed(p) ==
  /\ status[p] = "OPEN"
  /\ UpdatePosition(p, "CLOSED")
  /\ \E pnl \in Pnls : realized' = realized + pnl
  /\ UNCHANGED <<isRunning, cost, tokenVolatility, awaited, oneByOne>>

(* updateTrade(): the first one, or the first with a position open, fixes the day's value. *)
UpdateTrade ==
  /\ dailyStartValue = 0 /\ CalculateTotalExposure > 0
  /\ dailyStartValue' = CalculateTotalExposure
  /\ UNCHANGED <<isRunning, status, cost, tokenVolatility, maxDrawdownSeen, metrics, riskScore,
                 assessedLately, alerts, awaited, riskGhosts>>

UpdatePriceData(p) ==
  /\ \E v \in Volatilities : tokenVolatility' = [tokenVolatility EXCEPT ![p] = v]
  /\ UNCHANGED <<isRunning, status, cost, riskTracking, alerts, awaited, riskGhosts>>

HalfAnIntervalPasses ==
  /\ assessedLately /\ assessedLately' = FALSE
  /\ UNCHANGED <<isRunning, status, cost, tokenVolatility, dailyStartValue, maxDrawdownSeen,
                 metrics, riskScore, alerts, awaited, riskGhosts>>

RiskNext == \/ StartRiskManager \/ StopRiskManager \/ AssessAtInterval
            \/ UpdateTrade \/ HalfAnIntervalPasses
            \/ \E p \in RiskPositions :
                 \/ \E amount \in TradeAmounts : AssessTradeRisk(p, amount)
                 \/ PositionIsOpened(p) \/ PositionIsClosed(p) \/ UpdatePriceData(p)

RiskSpec == RiskInit /\ [][RiskNext]_riskVars
-----------------------------------------------------------------------------
(* When no trade is assessed while another one is awaited, the exposure never gets over its
   limit without an alert: the assessment adds the trade to what is open at that time
   (risk-manager.ts, assessTradeRisk).  Trades that are awaited together are each held
   against the limit alone, and may pass it unnoticed. *)
ExposureIsAlerted ==
  oneByOne /\ CalculateTotalExposure > maxTotalExposure => "EXPOSURE_LIMIT" \in alerts

(* The same whatever is awaited: "Maximum total USD exposure across all positions"
   (risk-manager.ts:8).  Two assessments in a row do not know of each other. *)
ExposureIsAlwaysAlerted ==
  CalculateTotalExposure > maxTotalExposure => "EXPOSURE_LIMIT" \in alerts

(* "Daily loss threshold exceeded" (risk-manager.ts:670): an alert of a daily loss means
   that money was lost.  A position that is closed at a profit counts as a loss of its
   cost, as the portfolio's value is what its open positions cost. *)
DailyLossIsLoss == "DAILY_LOSS" \in alerts => realized < 0

(* The levels HIGH and CRITICAL of determineRiskLevel() are never reached: what is open is
   always 100 % of the value, correlations are never found, and nothing is illiquid, so
   that the score is at most 55. *)
RiskStaysMedium == RiskLevel(riskScore) \in {"LOW", "MEDIUM"}
=============================================================================
