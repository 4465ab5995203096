---------------------------- MODULE MCDecisions ----------------------------
(***************************************************************************)
(* The synchronous position machine, the exit strategies, the analysis of  *)
(* the market and the checks of security/ for TLC.  A behaviour is one of  *)
(* a single component, chosen at the start, and the others stay as they    *)
(* were: their states are added, not multiplied.                           *)
(***************************************************************************)
EXTENDS PositionMachine, ExitDecisions, RiskManager, SlippageProtection, TransactionSimulator,
        MarketData, PriceFeedMonitor, TLC

VARIABLE part
-----------------------------------------------------------------------------
(* Exit strategies: the single ones, and combinations of a few conditions.  *)
Cond(t, n) == [type |-> t, enabled |-> TRUE, percent |-> n]
Disabled(c) == [c EXCEPT !.enabled = FALSE]
Trailing == [type |-> "trailing-stop", enabled |-> TRUE, percent |-> 10,
             activation |-> 0, initial |-> 15]
Volatile == [type |-> "volatility-stop", enabled |-> TRUE, percent |-> 15,
             multiplier |-> 1, least |-> 5, most |-> 40]
Stage(c, n) == [condition |-> c, percentage |-> n]

ConditionLists ==
  {<<Cond("time", 1), Cond("profit", 20), Cond("loss", 20)>>,
   <<Cond("loss", 20), Disabled(Cond("profit", 0)), Cond("time", 1)>>,
   <<Cond("profit", 20), Cond("liquidity", 0)>>,
   <<Cond("time", 2), Trailing, Volatile>>,
   <<Cond("liquidity", 0)>>}
Strategies ==
  {Cond("time", 2), Cond("profit", 50), Cond("loss", -20), Trailing, Volatile,
   Cond("liquidity", 0)}
  \cup [type : {"multi-condition"}, conditions : ConditionLists, operator : {"AND", "OR"},
        priority : {"HIGHEST_URGENCY", "FIRST_MATCH"}]
  \cup {[type |-> "partial-exit",
         stages |-> <<Stage(Disabled(Cond("time", 0)), 10), Stage(Cond("profit", 50), 30),
                      Stage(Cond("profit", 20), 50)>>]}
Trend(v, s) == [volatility |-> v, sentiment |-> s]
PriceTrends == {Trend("low", "bullish"), Trend("medium", "neutral"),
                Trend("extreme", "bullish"), Trend("high", "bearish")}
-----------------------------------------------------------------------------
Parts == {"machine", "exits", "risk", "slippage", "simulator", "market", "monitor"}

(* The choices of an initial state are made for the component that runs.   *)
PartInit ==
  /\ part \in Parts
  /\ MachineInit /\ DecisionInit /\ RiskInit /\ SlippageInit /\ SimulatorInit /\ MarketInit
  /\ MonitorInit
  /\ part # "exits" => exitStrategy = Trailing
  /\ part # "slippage" => volatility = 10
  /\ part # "simulator" => /\ transaction = [expected |-> 100, minimum |-> 95, fee |-> 1,
                                             risk |-> "LOW"]
                           /\ prepared
  /\ part # "market" => \A t \in MarketTokens : trend[t] = Trend("low", "bullish")

OthersStay(p) ==
  /\ p # "machine" => UNCHANGED machineVars
  /\ p # "exits" => UNCHANGED decisionVars
  /\ p # "risk" => UNCHANGED riskVars
  /\ p # "slippage" => UNCHANGED slippageVars
  /\ p # "simulator" => UNCHANGED simulatorVars
  /\ p # "market" => UNCHANGED marketVars
  /\ p # "monitor" => UNCHANGED monitorVars

PartNext ==
  \/ part = "machine" /\ MachineNext /\ OthersStay("machine")
  \/ part = "exits" /\ DecisionNext /\ OthersStay("exits")
  \/ part = "risk" /\ RiskNext /\ OthersStay("risk")
  \/ part = "slippage" /\ SlippageNext /\ OthersStay("slippage")
  \/ part = "simulator" /\ SimulatorNext /\ OthersStay("simulator")
  \/ part = "market" /\ MarketNext /\ OthersStay("market")
  \/ part = "monitor" /\ MonitorNext /\ OthersStay("monitor")

partVars == <<part, machineVars, decisionVars, riskVars, slippageVars, simulatorVars, marketVars,
              monitorVars>>
PartSpec == PartInit /\ [][PartNext /\ UNCHANGED part]_partVars

(* The prices of the position machine have nothing but a name.             *)
Symmetry == Permutations(Prices)
=============================================================================
