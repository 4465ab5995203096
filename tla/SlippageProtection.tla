------------------------- MODULE SlippageProtection -------------------------
(***************************************************************************)
(* SlippageProtection of security/slippage-protection.ts for one token and *)
(* one pool: how much slippage a trade may have, from the volatility of    *)
(* the token, which is computed at most once a minute, the liquidity of    *)
(* the pool and the size of the trade, and an emergency breaker that is    *)
(* reset by a timer.  Percentages are in hundredths, and so are the        *)
(* fractions the code mixes with them; amounts are in thousands of USD.    *)
(* Time passes by halves of a minute; adaptiveSlippageEnabled is on.       *)
(***************************************************************************)
EXTENDS Integers, FiniteSetsExt

CONSTANTS
  Volatility,     \* overallVolatility of the price history, in hundredths
  PoolLiquidity,  \* liquidity the program may be told of
  Amounts,        \* of trades
  BaseSlippage, MaxSlippage, EmergencySlippage, VolatilityMultiplier,
  LiquidityThreshold, MarketImpactThreshold, \* of SlippageProtectionConfig
  ResetTimeout,   \* resetTimeoutMs
  TripTimers      \* bound: calls of triggerCircuitBreaker() whose timers run

ASSUME SlippageAssumption ==
  /\ Volatility \subseteq 0..100 /\ PoolLiquidity \subseteq Nat /\ Amounts \subseteq Nat
  /\ {BaseSlippage, MaxSlippage, EmergencySlippage, VolatilityMultiplier,
      MarketImpactThreshold} \subseteq Nat
  /\ {LiquidityThreshold, ResetTimeout} \subseteq Nat \ {0}

VARIABLES
  volatility,   \* what the price history of the token comes to now
  cachedFor,    \* half minutes since the cached metrics were computed; 2: too long ago
  cached,       \* volatilityCache
  liquidity,    \* liquidityCache, 0 for a pool not in it
  circuitBreakerTripped,
  resetIn,      \* the timers of triggerCircuitBreaker(): half minutes left, or 0
  limits,       \* getAdaptiveSlippageLimits() at the last call, and what it used
  trueFor       \* half minutes since each volatility was the true one, up to 2; only a
                \* property looks at it

breakerOfSlippage == <<circuitBreakerTripped, resetIn>>
slippageVars == <<volatility, cachedFor, cached, liquidity, breakerOfSlippage, limits, trueFor>>

NoLimits == [currentLimit |-> 0, emergency |-> FALSE, used |-> 0, amount |-> 0]

SlippageInit ==
  /\ volatility \in Volatility
  /\ cachedFor = 2 /\ cached = 0 /\ liquidity = 0
  /\ circuitBreakerTripped = FALSE /\ resetIn = [t \in TripTimers |-> 0]
  /\ limits = NoLimits
  /\ trueFor = [v \in Volatility |-> IF v = volatility THEN 0 ELSE 2]
-----------------------------------------------------------------------------
(* The integer square root. *)
Root(n) == CHOOSE r \in 0..n : r * r <= n /\ (r + 1) * (r + 1) > n

(* estimateMarketImpact(): a pool that is not known, or is empty, is taken for one of 100. *)
Depth == IF liquidity = 0 THEN 100 ELSE liquidity

EstimatedImpact(amount) ==
  LET base == Root((100 * amount) \div Depth)
      adjusted == IF Depth < 50 THEN (15 * base) \div 10
                  ELSE IF Depth > 1000 THEN (7 * base) \div 10 ELSE base
  IN  Min({15, adjusted})

LiquidityAdjustment == Max({0, (200 * (LiquidityThreshold - liquidity)) \div LiquidityThreshold})
RiskAdjustment(amount) == Max({0, (150 * (50 * amount - Depth)) \div Depth})

(* calculateDynamicSlippage() with the volatility v. *)
DynamicSlippage(v, amount) ==
  LET wanted == BaseSlippage + v * VolatilityMultiplier + LiquidityAdjustment
                + Max({0, EstimatedImpact(amount) - MarketImpactThreshold})
                + RiskAdjustment(amount)
  IN  Max({BaseSlippage \div 2, Min({MaxSlippage, wanted})})

(* A faulty variant: an answer from the cache makes it young again. *)
CacheIsYoungAgain == /\ cachedFor' = 0
                     /\ cached' = IF cachedFor < 2 THEN cached ELSE volatility

(* getVolatilityMetrics(): the cached metrics, unless they are a minute old. *)
GetVolatilityMetrics == IF cachedFor < 2 THEN UNCHANGED <<cachedFor, cached>>
                        ELSE cachedFor' = 0 /\ cached' = volatility

(* getAdaptiveSlippageLimits() *)
AskForLimits(amount) ==
  /\ GetVolatilityMetrics
  /\ LET emergency == \/ circuitBreakerTripped
                      \/ cached' > 80
                      \/ 10 * liquidity < LiquidityThreshold
     IN  limits' = [currentLimit |-> IF emergency THEN EmergencySlippage
                                     ELSE DynamicSlippage(cached', amount),
                    emergency |-> emergency, used |-> cached', amount |-> amount]
  /\ UNCHANGED <<volatility, liquidity, breakerOfSlippage, trueFor>>

(* updatePriceData() *)
PricesChange(v) ==
  /\ v # volatility /\ volatility' = v
  /\ trueFor' = [trueFor EXCEPT ![v] = 0]
  /\ limits' = NoLimits
  /\ UNCHANGED <<cachedFor, cached, liquidity, breakerOfSlippage>>

UpdateLiquidityData(l) ==
  /\ l # liquidity /\ liquidity' = l
  /\ limits' = NoLimits
  /\ UNCHANGED <<volatility, cachedFor, cached, breakerOfSlippage, trueFor>>

TriggerCircuitBreaker(t) ==
  /\ resetIn[t] = 0
  /\ circuitBreakerTripped' = TRUE
  /\ resetIn' = [resetIn EXCEPT ![t] = ResetTimeout]
  /\ limits' = NoLimits
  /\ UNCHANGED <<volatility, cachedFor, cached, liquidity, trueFor>>

(* Half a minute passes; a timer that ends resets the breaker, whoever tripped it last. *)
TimePasses ==
  /\ cachedFor' = Min({2, cachedFor + 1})
  /\ trueFor' = [v \in Volatility |-> IF v = volatility THEN 0 ELSE Min({2, trueFor[v] + 1})]
  /\ resetIn' = [t \in TripTimers |-> Max({0, resetIn[t] - 1})]
  /\ circuitBreakerTripped' = (circuitBreakerTripped /\ \A t \in TripTimers : resetIn[t] # 1)
  /\ limits' = NoLimits
  /\ UNCHANGED <<volatility, cached, liquidity>>

SlippageNext == \/ \E amount \in Amounts : AskForLimits(amount)
                \/ \E v \in Volatility : PricesChange(v)
                \/ \E l \in PoolLiquidity : UpdateLiquidityData(l)
                \/ \E t \in TripTimers : TriggerCircuitBreaker(t)
                \/ TimePasses

SlippageSpec == SlippageInit /\ [][SlippageNext]_slippageVars
-----------------------------------------------------------------------------
(* A limit on slippage never rests on a volatility that has not been true for a minute,
   however often it is asked for (slippage-protection.ts, getVolatilityMetrics: the age is
   that of the computation). *)
VolatilityIsRecent == limits # NoLimits => trueFor[limits.used] < 2

(* "Auto-reset after specified timeout" (slippage-protection.ts:371): a breaker that was
   tripped stays so until its timeout.  The timer of an earlier trip resets it before. *)
TripLasts == (\E t \in TripTimers : resetIn[t] > 0) => circuitBreakerTripped

(* "estimatedImpact: number; // percentage" (slippage-protection.ts:22): the market impact
   of a large trade adds to its slippage.  The estimate is a fraction of at most 0.15, and
   is below any threshold in percent. *)
ImpactCounts ==
  \E amount \in Amounts : EstimatedImpact(amount) > MarketImpactThreshold
=============================================================================
