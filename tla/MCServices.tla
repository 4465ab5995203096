----------------------------- MODULE MCServices -----------------------------
(***************************************************************************)
(* The exits of positions, the services around the trading core and the    *)
(* database for TLC.  A behaviour is one of a single component, chosen at  *)
(* the start, and the others stay as they were: their states are added,    *)
(* not multiplied.                                                         *)
(***************************************************************************)
EXTENDS PositionExits, ErrorRecovery, Notifications, PriceFeed, TradingDatabase,
        DatabaseUpkeep, TokenInfo, TLC

VARIABLE part
-----------------------------------------------------------------------------
(* Two of the rules of setupDefaultRules(): one has an hourly limit and two *)
(* channels, the other a cooldown and one channel.                          *)
RuleNames == <<"alerts", "status">>
RuleChannels == [alerts |-> <<"console", "event">>, status |-> <<"console">>]
RulePerHour == [alerts |-> 1, status |-> 0]
RuleCooldown == [alerts |-> 0, status |-> 1]

RequestLimit == [coingecko |-> 1, birdeye |-> 2]

PairOfPools == [p \in DbPools |-> <<"a", "b">>]
SolPools == {<<"sol", "x">>}
-----------------------------------------------------------------------------
Parts == {"exits", "errors", "notifications", "prices", "rows", "upkeep", "tokens"}

PartInit ==
  /\ part \in Parts
  /\ Init /\ ErrorInit /\ NotificationInit /\ FeedInit
  /\ DbInit /\ UpkeepInit /\ InfoInit
  /\ part # "exits" => dryRun

OthersStay(p) ==
  /\ p # "exits" => UNCHANGED vars
  /\ p # "errors" => UNCHANGED errorVars
  /\ p # "notifications" => UNCHANGED notificationVars
  /\ p # "prices" => UNCHANGED feedVars
  /\ p # "rows" => UNCHANGED dbVars
  /\ p # "upkeep" => UNCHANGED upkeepVars
  /\ p # "tokens" => UNCHANGED infoVars

PartNext ==
  \/ part = "exits" /\ Next /\ OthersStay("exits")
  \/ part = "errors" /\ ErrorNext /\ OthersStay("errors")
  \/ part = "notifications" /\ NotificationNext /\ OthersStay("notifications")
  \/ part = "prices" /\ FeedNext /\ OthersStay("prices")
  \/ part = "rows" /\ DbNext /\ OthersStay("rows")
  \/ part = "upkeep" /\ UpkeepNext /\ OthersStay("upkeep")
  \/ part = "tokens" /\ InfoNext /\ OthersStay("tokens")
partVars == <<part, vars, errorVars, notificationVars, feedVars,
              dbVars, upkeepVars, infoVars>>
PartSpec == PartInit /\ [][PartNext /\ UNCHANGED part]_partVars

(* Evaluations have nothing but a name.                                     *)
Symmetry == Permutations(Evaluations)
=============================================================================
