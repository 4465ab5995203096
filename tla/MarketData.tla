----------------------------- MODULE MarketData -----------------------------
(***************************************************************************)
(* MarketDataManager of data/market-data-manager.ts: price updates make a  *)
(* history for each token, and a timer starts an analysis that goes        *)
(* through the monitored tokens one by one.  Of each it computes the       *)
(* volatility and the sentiment of the history, asks the price feed for    *)
(* the volume, and then, whatever has happened meanwhile, stores what it   *)
(* found as the condition of the market.  An analysis that takes longer    *)
(* than the interval overlaps with the next.                               *)
(***************************************************************************)
EXTENDS Integers, FiniteSets

CONSTANTS
  MarketTokens,
  Trends,        \* volatility and sentiment a history may come to
  Scores,        \* liquidity scores, from the volume of 24 hours
  Enough,        \* points an analysis needs: 10
  Analyses,      \* bound: analyses under way at once
  MaxPoints      \* bound: points in a history

ASSUME MarketAssumption ==
  /\ Trends \subseteq [volatility : {"low", "medium", "high", "extreme"},
                       sentiment : {"bearish", "neutral", "bullish"}]
  /\ Scores \subseteq 1..9 /\ Enough \in Nat \ {0} /\ MaxPoints \in Nat

VARIABLES
  monitoredTokens,
  monitoring,       \* monitoringInterval is set
  points, trend,    \* priceHistory: how many points, and what they come to
  analysis,         \* of each analysis: the tokens it is done with, the one it waits
                    \* for the liquidity of, and what it found in that one's history
  marketConditions, \* of each token: what was found and the liquidity, or none
  exposed,          \* tokens with more than a tenth of the portfolio
  newest, wasShut   \* points of the history behind each condition, and whether
                    \* shutdown() was called; only properties look at them

analysisVars == <<analysis, marketConditions, newest>>
marketVars == <<monitoredTokens, monitoring, points, trend, exposed, wasShut, analysisVars>>

NotAnalyzing == [done |-> {}, token |-> "none"]
NoCondition == [volatility |-> "unknown"]

MarketInit ==
  /\ monitoredTokens = {} /\ monitoring = FALSE
  /\ points = [t \in MarketTokens |-> 0] /\ trend \in [MarketTokens -> Trends]
  /\ analysis = [a \in Analyses |-> NotAnalyzing]
  /\ marketConditions = [t \in MarketTokens |-> NoCondition]
  /\ exposed = {} /\ newest = [t \in MarketTokens |-> 0] /\ wasShut = FALSE
-----------------------------------------------------------------------------
(* assessRiskLevel() *)
RiskOf(c) ==
  LET volatilityPart == CASE c.volatility = "low" -> 1 [] c.volatility = "medium" -> 2
                          [] c.volatility = "high" -> 3 [] OTHER -> 4
      liquidityPart == IF c.liquidity < 3 THEN 2 ELSE IF c.liquidity < 6 THEN 1 ELSE 0
      sum == volatilityPart + liquidityPart + (IF c.sentiment = "bearish" THEN 1 ELSE 0)
  IN  CASE sum <= 2 -> "low" [] sum = 3 -> "medium" [] sum \in {4, 5} -> "high" [] OTHER -> "extreme"

(* determineRecommendedAction() *)
ActionFor(c) ==
  CASE RiskOf(c) = "extreme" \/ c.liquidity < 3 -> "avoid"
    [] RiskOf(c) = "low" /\ c.sentiment = "bullish" /\ c.liquidity >= 3 -> "buy"
    [] RiskOf(c) # "extreme" /\ c.sentiment = "bearish" /\ c.volatility = "high"
         /\ c.liquidity >= 3 -> "sell"
    [] RiskOf(c) # "extreme" /\ c.volatility = "extreme" /\ c.liquidity >= 3 -> "avoid"
    [] OTHER -> "hold"

(* A faulty variant: the volatility is not looked at. *)
FavorableSentiment(c) ==
  \/ c.sentiment = "bullish" /\ c.liquidity >= 6
  \/ c.sentiment = "neutral" /\ c.liquidity >= 7

(* isMarketFavorable() of a token whose condition is known. *)
IsMarketFavorable(c) ==
  /\ c.volatility \in {"low", "medium"}
  /\ \/ c.sentiment = "bullish" /\ c.liquidity >= 6 /\ RiskOf(c) # "extreme"
     \/ c.sentiment = "neutral" /\ c.liquidity >= 7 /\ RiskOf(c) = "low"

(* getRecommendedPositionSize(), in percent of the capital that may be risked. *)
RecommendedSize(t) ==
  LET c == marketConditions[t]
      byVolatility == CASE c.volatility = "low" -> 120 [] c.volatility = "medium" -> 100
                        [] c.volatility = "high" -> 70 [] OTHER -> 30
      byLiquidity == IF c.liquidity >= 8 THEN 110 ELSE IF c.liquidity < 5 THEN 70 ELSE 100
      bySentiment == CASE c.sentiment = "bullish" -> 110 [] c.sentiment = "bearish" -> 60
                       [] OTHER -> 100
  IN  IF c = NoCondition THEN 0
      ELSE (byVolatility * byLiquidity * bySentiment * (IF t \in exposed THEN 50 ELSE 100))
             \div 1000000
-----------------------------------------------------------------------------
StartTokenMonitoring(t) ==
  /\ t \notin monitoredTokens \/ ~monitoring
  /\ monitoredTokens' = monitoredTokens \cup {t} /\ monitoring' = TRUE
  /\ UNCHANGED <<points, trend, exposed, wasShut, analysisVars>>

(* stopMonitoring() of one token leaves the timer, and what is known of the token. *)
StopMonitoringToken(t) ==
  /\ t \in monitoredTokens /\ monitoredTokens' = monitoredTokens \ {t}
  /\ UNCHANGED <<monitoring, points, trend, exposed, wasShut, analysisVars>>

StopAllMonitoring ==
  /\ monitoring /\ monitoring' = FALSE /\ monitoredTokens' = {}
  /\ UNCHANGED <<points, trend, exposed, wasShut, analysisVars>>

(* shutdown() clears all but the analyses under way. *)
ShutdownMarketData ==
  /\ ~wasShut /\ wasShut' = TRUE
  /\ monitoring' = FALSE /\ monitoredTokens' = {}
  /\ points' = [t \in MarketTokens |-> 0]
  /\ marketConditions' = [t \in MarketTokens |-> NoCondition]
  /\ newest' = [t \in MarketTokens |-> 0]
  /\ UNCHANGED <<trend, exposed, analysis>>

(* handlePriceUpdate(); the listener of the price feed is never removed. *)
HandlePriceUpdate(t) ==
  /\ points[t] < MaxPoints
  /\ points' = [points EXCEPT ![t] = @ + 1]
  /\ \E r \in Trends : trend' = [trend EXCEPT ![t] = r]
  /\ UNCHANGED <<monitoredTokens, monitoring, exposed, wasShut, analysisVars>>

UpdatePortfolioPositions(positions) ==
  /\ positions # exposed /\ exposed' = positions
  /\ UNCHANGED <<monitoredTokens, monitoring, points, trend, wasShut, analysisVars>>

Analyzable(done) == {t \in monitoredTokens \ done : points[t] >= Enough}

(* calculateVolatility() and calculateSentiment() of the history as it is. *)
FoundIn(t) == trend[t]
(* calculateLiquidityScore(): by the volume, and 3 without one or without an answer. *)
LiquidityScores == Scores \cup {3}

(* The analysis goes on to a token with enough points, or is over. *)
GoOn(a, done) ==
  \/ \E t \in Analyzable(done) :
       analysis' = [analysis EXCEPT ![a] =
         [done |-> done \cup {t}, token |-> t, found |-> FoundIn(t), of |-> points[t]]]
  \/ /\ Analyzable(done) = {}
     /\ analysis' = [analysis EXCEPT ![a] = NotAnalyzing]

PerformMarketAnalysis(a) ==
  /\ monitoring /\ analysis[a] = NotAnalyzing /\ Analyzable({}) # {}
  /\ GoOn(a, {})
  /\ UNCHANGED <<monitoredTokens, monitoring, points, trend, exposed, wasShut,
                 marketConditions, newest>>

(* The price feed has answered, or failed. *)
AnalyzeTokenMarketCondition(a) ==
  /\ analysis[a] # NotAnalyzing
  /\ LET at == analysis[a] IN
       /\ \E score \in LiquidityScores :
            marketConditions' = [marketConditions EXCEPT ![at.token] =
              [volatility |-> at.found.volatility, sentiment |-> at.found.sentiment,
               liquidity |-> score]]
       /\ newest' = [newest EXCEPT ![at.token] = at.of]
       /\ GoOn(a, at.done)
  /\ UNCHANGED <<monitoredTokens, monitoring, points, trend, exposed, wasShut>>

MarketNext ==
  \/ \E t \in MarketTokens :
       StartTokenMonitoring(t) \/ StopMonitoringToken(t) \/ HandlePriceUpdate(t)
  \/ StopAllMonitoring \/ ShutdownMarketData
  \/ \E positions \in SUBSET MarketTokens : UpdatePortfolioPositions(positions)
  \/ \E a \in Analyses : PerformMarketAnalysis(a) \/ AnalyzeTokenMarketCondition(a)

MarketSpec == MarketInit /\ [][MarketNext]_marketVars
-----------------------------------------------------------------------------
(* What isMarketFavorable() says of a token never contradicts the action that was
   recommended for it, nor the risk: two tables of thresholds, of volatility, sentiment and
   liquidity, that are written independently (market-data-manager.ts). *)
FavorableIsSafe ==
  \A t \in MarketTokens : LET c == marketConditions[t] IN
    c # NoCondition /\ IsMarketFavorable(c) =>
      ActionFor(c) \in {"buy", "hold"} /\ RiskOf(c) \in {"low", "medium"}

(* "Assess if market conditions are favorable for trading" (market-data-manager.ts:227):
   they are when the condition recommends to buy.  A liquidity score of 3 to 5 is enough to
   buy, and too low to be favorable. *)
BuyIsFavorable ==
  \A t \in MarketTokens : LET c == marketConditions[t] IN
    c # NoCondition /\ ActionFor(c) = "buy" => IsMarketFavorable(c)

(* "Clear all data" (market-data-manager.ts:735): after shutdown() no condition of the market
   is known, until the manager is used again.  An analysis under way stores its own. *)
ShutdownClears ==
  (wasShut /\ points = [t \in MarketTokens |-> 0]) =>
    \A t \in MarketTokens : marketConditions[t] = NoCondition

(* The condition of a token comes from ever newer histories: of two analyses that overlap the
   older one may answer last. *)
ConditionsGetNewer ==
  [][\A t \in MarketTokens : newest'[t] >= newest[t] \/ newest'[t] = 0]_marketVars

(* "maxRiskPercent" bounds the position that is recommended (market-data-manager.ts:295);
   good conditions make it up to 1.45 times that. *)
SizeWithinRisk == \A t \in MarketTokens : RecommendedSize(t) <= 100
=============================================================================
