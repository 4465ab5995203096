--------------------------- MODULE ExitDecisions ---------------------------
(***************************************************************************)
(* What makes the position manager exit a position: the exit strategies of *)
(* trading/position-manager.ts and trading/advanced-exit-strategies.ts,    *)
(* each a function of its configuration, the position and the price, and   *)
(* the strategies that are put together from others.  Prices are in        *)
(* hundredths of the price of entry, so that gains are percentages; the    *)
(* tolerance of 0.001 % in the comparisons is below that grain.            *)
(***************************************************************************)
EXTENDS Integers, SequencesExt

CONSTANTS ExitStrategies, \* configurations of the exit strategy of a position
          ExitPrices,     \* prices the monitor may see
          MaxMinutes      \* bound: how long a position is held

ASSUME PricesAssumption == ExitPrices \subseteq Nat \ {0} /\ MaxMinutes \in Nat

VARIABLES exitStrategy, \* position.exitStrategy
          price,        \* the current price
          minutes,      \* the holding time
          highest,      \* the highest price so far; only properties look at it
          decision      \* what evaluateExitConditions() has answered last

decisionVars == <<exitStrategy, price, minutes, highest, decision>>

EntryPrice == 100
AssumedVolatility == 15
Simple == {"time", "profit", "loss"}
(* What a multi-condition strategy can be made of; other types are left out with a warning. *)
KnownConditions == Simple \cup {"trailing-stop", "volatility-stop", "volume-based",
                                "sentiment-analysis", "creator-monitoring"}
-----------------------------------------------------------------------------
Hold == [shouldExit |-> FALSE, urgency |-> "LOW", percentage |-> 100]
Exit(urgency) == [shouldExit |-> TRUE, urgency |-> urgency, percentage |-> 100]
NotAsked == [shouldExit |-> FALSE, urgency |-> "NONE", percentage |-> 100] \* since the last change
ExitIf(condition, urgency) == IF condition THEN Exit(urgency) ELSE Hold

Gain == price - EntryPrice

AbsoluteOf(n) == IF n < 0 THEN -n ELSE n

TimeLimitReached(c) == minutes >= c.percent
ProfitTargetReached(c) == Gain >= c.percent
StopLossReached(c) == Gain <= -AbsoluteOf(c.percent)

(* The trail is taken from the current price, not from the highest. *)
TrailingStopReached(c) ==
  /\ Gain >= c.activation
  /\ \/ 100 * price <= price * (100 - c.percent)
     \/ 100 * price <= EntryPrice * (100 - c.initial)

VolatilityStopReached(c) ==
  LET adjusted == c.percent + AssumedVolatility * c.multiplier
      bounded == Min({Max({adjusted, c.least}), c.most})
  IN  100 * price <= price * (100 - bounded)

(* evaluate() of the strategies that are not put together from others. *)
EvaluateCondition(c) ==
  CASE c.type = "time"            -> ExitIf(TimeLimitReached(c), "MEDIUM")
    [] c.type = "profit"          -> ExitIf(ProfitTargetReached(c), "HIGH")
    [] c.type = "loss"            -> ExitIf(StopLossReached(c), "HIGH")
    [] c.type = "trailing-stop"   -> ExitIf(TrailingStopReached(c), "HIGH")
    [] c.type = "volatility-stop" -> ExitIf(VolatilityStopReached(c), "HIGH")
    [] OTHER -> Hold \* placeholders: volume, sentiment, creator, liquidity, developer
-----------------------------------------------------------------------------
Weight == [LOW |-> 1, MEDIUM |-> 2, HIGH |-> 3]

(* The first of the most urgent results. *)
HighestUrgency(results) ==
  FoldLeft(LAMBDA best, r : IF Weight[r.urgency] > Weight[best.urgency] THEN r ELSE best,
           Head(results), Tail(results))

(* A faulty variant: the priority is not looked at. *)
SelectFirst(results, priority) == Head(results)

SelectResult(results, priority) ==
  IF priority = "FIRST_MATCH" THEN Head(results) ELSE HighestUrgency(results)

CombineResults(results, operator, priority) ==
  LET exits == SelectSeq(results, LAMBDA r : r.shouldExit)
  IN  CASE operator = "AND" -> IF exits = results THEN HighestUrgency(exits) ELSE Hold
        [] operator = "OR" -> IF exits # << >> THEN SelectResult(exits, priority) ELSE Hold

EvaluateMultiCondition(c) ==
  LET known == SelectSeq(c.conditions, LAMBDA d : d.enabled /\ d.type \in KnownConditions)
      results == [i \in DOMAIN known |-> EvaluateCondition(known[i])]
  IN  IF results = << >> THEN Hold ELSE CombineResults(results, c.operator, c.priority)

(* The first stage whose trigger holds; no record is kept of the stages already taken. *)
EvaluatePartialExit(c) ==
  LET triggers(s) == /\ s.condition.enabled /\ s.condition.type \in Simple
                     /\ EvaluateCondition(s.condition).shouldExit
      triggered == SelectSeq(c.stages, triggers)
  IN  IF triggered = << >> THEN Hold
      ELSE [EvaluateCondition(Head(triggered).condition)
              EXCEPT !.percentage = Head(triggered).percentage]

EvaluateExitConditions(c) ==
  CASE c.type = "multi-condition" -> EvaluateMultiCondition(c)
    [] c.type = "partial-exit"    -> EvaluatePartialExit(c)
    [] OTHER                      -> EvaluateCondition(c)
-----------------------------------------------------------------------------
DecisionInit == /\ exitStrategy \in ExitStrategies
                /\ price = EntryPrice /\ highest = EntryPrice /\ minutes = 0
                /\ decision = NotAsked

(* A price for the token, from whoever watches it. *)
UpdateTokenPrice(p) ==
  /\ ~decision.shouldExit /\ p # price
  /\ price' = p
  /\ highest' = IF p > highest THEN p ELSE highest
  /\ decision' = NotAsked
  /\ UNCHANGED <<exitStrategy, minutes>>

MinutePasses ==
  /\ ~decision.shouldExit /\ minutes < MaxMinutes
  /\ minutes' = minutes + 1
  /\ decision' = NotAsked
  /\ UNCHANGED <<exitStrategy, price, highest>>

(* A monitor looks at the position. *)
MonitorDecides ==
  /\ ~decision.shouldExit
  /\ decision' = EvaluateExitConditions(exitStrategy)
  /\ UNCHANGED <<exitStrategy, price, minutes, highest>>

DecisionNext == \/ \E p \in ExitPrices : UpdateTokenPrice(p)
                \/ MinutePasses
                \/ MonitorDecides

DecisionSpec == DecisionInit /\ [][DecisionNext]_decisionVars
-----------------------------------------------------------------------------
Elements(s) == {s[i] : i \in DOMAIN s}
Met(c) == EvaluateCondition(c).shouldExit
Counted(c) == {d \in Elements(c.conditions) : d.enabled /\ d.type \in KnownConditions}

(* What a combined strategy is configured to do, whatever order its parts are in: an OR
   exits as urgently as the most urgent condition that is met, an AND when there are
   conditions and all are met; FIRST_MATCH alone takes the first. *)
ConfiguredUrgency(c) ==
  LET met == {d \in Counted(c) : Met(d)}
      urgencies == {EvaluateCondition(d).urgency : d \in met}
      exits == IF c.operator = "AND" THEN met # {} /\ met = Counted(c) ELSE met # {}
  IN  CASE ~exits -> {"LOW"}
        [] exits /\ c.operator = "OR" /\ c.priority = "FIRST_MATCH" -> urgencies
        [] OTHER -> {u \in urgencies : \A v \in urgencies : Weight[u] >= Weight[v]}

(* A combined exit strategy decides as configured: it exits if and only if its counted
   conditions call for it, with the urgency of the most urgent one that is met, although
   the code walks through the list once and keeps the best result so far
   (advanced-exit-strategies.ts, combineResults and getHighestUrgency). *)
DecidesAsConfigured ==
  [][MonitorDecides /\ exitStrategy.type = "multi-condition" =>
       /\ decision'.urgency \in ConfiguredUrgency(exitStrategy)
       /\ decision'.shouldExit <=> decision'.urgency # "LOW"]_decisionVars

(* calculateTrailingStop() of analysis-utils.ts, which nothing but tests calls: what a
   trailing stop comes to when the highest price is kept. *)
TrailingStopCalculated(c) ==
  Gain >= c.activation /\ 100 * price <= highest * (100 - c.percent)

(* "Trailing Stop Loss: Dynamic stop prices that follow profitable moves" (README.md:23): a
   price that has come down from the highest by the trail is an exit.  The code takes the
   current price for the highest one, and its trailing stop never exits. *)
TrailingStopTrails ==
  [][MonitorDecides /\ exitStrategy.type = "trailing-stop" =>
       (TrailingStopCalculated(exitStrategy) => decision'.shouldExit)]_decisionVars

(* "All conditions met" (advanced-exit-strategies.ts, the reason of an AND): every enabled
   condition is.  A condition of a type the strategy does not know is left out. *)
AllMeansAll ==
  [][MonitorDecides /\ exitStrategy.type = "multi-condition" /\ exitStrategy.operator = "AND" =>
       (decision'.shouldExit =>
          \A d \in Elements(exitStrategy.conditions) : d.enabled => Met(d))]_decisionVars
=============================================================================
