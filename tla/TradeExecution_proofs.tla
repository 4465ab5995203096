------------------------ MODULE TradeExecution_proofs ------------------------
(***************************************************************************)
(* Whatever fails, and however many trades run at once, a decision buys at *)
(* most once and what is reported as bought has been bought.  The          *)
(* invariant ties the rows of a trade to the fate of its one transaction:  *)
(* it has bought exactly if that was executed, and a trade that goes on to *)
(* its records has seen that it was.                                       *)
(***************************************************************************)
EXTENDS TradeExecution, TLAPS

Ended == {"succeeded", "failed"}

(* One trade: its transaction, its rows and where it is agree. *)
Agree(t) ==
  /\ bought[t] = IF chain[t] = "executed" THEN 1 ELSE 0
  /\ at[t] = "refreshing" => chain[t] = "executed"
  /\ at[t] \in {"idle"} \cup Steps => records[t] = "none" /\ ~held[t]
  /\ records[t] = "CONFIRMED" => chain[t] = "executed"
  /\ held[t] <=> at[t] = "succeeded"
  /\ held[t] => records[t] = "CONFIRMED"

TradeTypes ==
  /\ at \in [Trades -> {"idle"} \cup Steps \cup Ended]
  /\ chain \in [Trades -> {"unsent", "pending", "executed", "failed"}]
  /\ bought \in [Trades -> Nat]
  /\ records \in [Trades -> {"none", "CONFIRMED", "FAILED"}]
  /\ held \in [Trades -> BOOLEAN]

TradeInv == TradeTypes /\ \A t \in Trades : Agree(t)

(* The catch of executeTrade() leaves a row CONFIRMED only if it was one. *)
LEMMA FailsAgrees ==
  ASSUME TradeTypes, NEW t \in Trades, NEW row \in {"none", "CONFIRMED"}, Fails(t, row)
  PROVE  /\ at' = [at EXCEPT ![t] = "failed"]
         /\ \E r \in {"none", "CONFIRMED", "FAILED"} :
              records' = [records EXCEPT ![t] = r] /\ (r = "CONFIRMED" => row = "CONFIRMED")
BY DEF Fails, GoesTo, TradeTypes

(***************************************************************************)
(* A step of the trade t to a place on its way, which changes nothing but  *)
(* the fate of its transaction, or to its failure: the invariant is kept   *)
(* if the transaction's fate is.                                           *)
(***************************************************************************)
LEMMA OnlyMoves ==
  ASSUME TradeInv, NEW t \in Trades, at[t] \in {"idle"} \cup Steps,
         NEW c \in {"unsent", "pending", "executed", "failed"},
         c = "executed" <=> chain[t] = "executed",
         chain' = [chain EXCEPT ![t] = c], UNCHANGED <<bought, held>>,
         \/ \E s \in Steps : /\ at' = [at EXCEPT ![t] = s] /\ UNCHANGED records
                             /\ s = "refreshing" => c = "executed"
         \/ \E row \in {"none", "CONFIRMED"} : /\ Fails(t, row)
                                               /\ row = "CONFIRMED" => c = "executed"
  PROVE  TradeInv'
<1>1. CASE \E s \in Steps : /\ at' = [at EXCEPT ![t] = s] /\ UNCHANGED records
                            /\ s = "refreshing" => c = "executed"
  BY <1>1 DEF TradeInv, TradeTypes, Agree, Steps, Ended
<1>2. CASE \E row \in {"none", "CONFIRMED"} : Fails(t, row) /\ (row = "CONFIRMED" => c = "executed")
  <2>1. PICK row \in {"none", "CONFIRMED"} : Fails(t, row) /\ (row = "CONFIRMED" => c = "executed")
    BY <1>2
  <2>2. PICK r \in {"none", "CONFIRMED", "FAILED"} :
          records' = [records EXCEPT ![t] = r] /\ (r = "CONFIRMED" => row = "CONFIRMED")
    BY <2>1, FailsAgrees DEF TradeInv
  <2>3. at' = [at EXCEPT ![t] = "failed"]
    BY <2>1 DEF Fails, GoesTo
  <2> QED BY <2>1, <2>2, <2>3 DEF TradeInv, TradeTypes, Agree, Steps, Ended
<1> QED BY <1>1, <1>2

LEMMA TradeInvStep == TradeInv /\ [Next]_vars => TradeInv'
<1> SUFFICES ASSUME TradeInv, [Next]_vars PROVE TradeInv'
  OBVIOUS
<1>1. CASE LoadWallet \/ Tick \/ UNCHANGED vars
  BY <1>1 DEF LoadWallet, Tick, vars, TradeInv, TradeTypes, Agree
<1>2. ASSUME NEW t \in Trades, Ask(t) \/ CheckFails(t) PROVE TradeInv'
  <2>1. chain' = [chain EXCEPT ![t] = chain[t]] /\ chain[t] \in {"unsent", "pending", "executed", "failed"}
    BY <1>2 DEF Ask, CheckFails, TradeInv, TradeTypes
  <2>2. \/ \E s \in Steps : /\ at' = [at EXCEPT ![t] = s] /\ UNCHANGED records /\ s # "refreshing"
        \/ Fails(t, "none")
    BY <1>2 DEF Ask, CheckFails, GoesTo, Steps
  <2>3. at[t] \in {"idle"} \cup Steps /\ UNCHANGED <<bought, held>>
    BY <1>2 DEF Ask, CheckFails, Steps
  <2> QED BY <2>1, <2>2, <2>3, OnlyMoves
<1>3. ASSUME NEW t \in Trades,
             BalanceAnswered(t) \/ NetworkAnswered(t) \/ LimitsAnswered(t) \/ Prepared(t)
      PROVE  TradeInv'
  <2>1. chain' = [chain EXCEPT ![t] = chain[t]] /\ chain[t] \in {"unsent", "pending", "executed", "failed"}
    BY <1>3 DEF BalanceAnswered, NetworkAnswered, LimitsAnswered, Prepared, TradeInv, TradeTypes
  <2>2. \/ \E s \in Steps : /\ at' = [at EXCEPT ![t] = s] /\ UNCHANGED records /\ s # "refreshing"
        \/ Fails(t, "none")
    BY <1>3 DEF BalanceAnswered, NetworkAnswered, LimitsAnswered, Prepared, GoesTo, Steps
  <2>3. at[t] \in {"idle"} \cup Steps /\ UNCHANGED <<bought, held>>
    BY <1>3 DEF BalanceAnswered, NetworkAnswered, LimitsAnswered, Prepared, Steps
  <2> QED BY <2>1, <2>2, <2>3, OnlyMoves
<1>4. ASSUME NEW t \in Trades, Sends(t) \/ Confirmed(t) PROVE TradeInv'
  <2>1. PICK c \in {"unsent", "pending", "executed", "failed"} :
          /\ chain' = [chain EXCEPT ![t] = c]
          /\ c = "executed" <=> chain[t] = "executed"
          /\ \/ \E s \in Steps : /\ at' = [at EXCEPT ![t] = s] /\ UNCHANGED records
                                 /\ s = "refreshing" => c = "executed"
             \/ Fails(t, "none")
    <3>1. CASE Sends(t)
      BY <3>1 DEF Sends, Retries, SameTransaction, GoesTo, Steps, TradeInv, TradeTypes
    <3>2. CASE Confirmed(t)
      BY <3>2 DEF Confirmed, Confirms, Retries, SameTransaction, GoesTo, Steps, TradeInv, TradeTypes
    <3> QED BY <1>4, <3>1, <3>2
  <2>2. at[t] \in {"idle"} \cup Steps /\ UNCHANGED <<bought, held>>
    BY <1>4 DEF Sends, Confirmed, Steps
  <2> QED BY <2>1, <2>2, OnlyMoves
<1>5. ASSUME NEW t \in Trades, Recorded(t) PROVE TradeInv'
  <2>1. chain' = [chain EXCEPT ![t] = chain[t]] /\ chain[t] = "executed" /\ UNCHANGED bought
    BY <1>5 DEF Recorded, TradeInv, TradeTypes, Agree
  <2>2. at[t] \in {"idle"} \cup Steps
    BY <1>5 DEF Recorded, Steps
  <2>3. CASE UNCHANGED held /\ (Fails(t, "none") \/ Fails(t, "CONFIRMED"))
    BY <2>1, <2>2, <2>3, OnlyMoves
  <2>4. CASE /\ at' = [at EXCEPT ![t] = "succeeded"]
             /\ records' = [records EXCEPT ![t] = "CONFIRMED"] /\ held' = [held EXCEPT ![t] = TRUE]
    BY <2>1, <2>4 DEF TradeInv, TradeTypes, Agree, Steps, Ended
  <2> QED BY <1>5, <2>3, <2>4 DEF Recorded, GoesTo
<1>6. ASSUME NEW t \in Trades, ChainDecides(t) PROVE TradeInv'
  BY <1>6 DEF ChainDecides, TradeInv, TradeTypes, Agree
<1> QED BY <1>1, <1>2, <1>3, <1>4, <1>5, <1>6 DEF Next, Step

LEMMA TradeInvariance == Spec => []TradeInv
<1>1. Init => TradeInv
  BY DEF Init, TradeInv, TradeTypes, Agree, Steps, Ended
<1> QED BY <1>1, TradeInvStep, PTL DEF Spec

(***************************************************************************)
(* For any decisions, limits and number of attempts: a decision buys at    *)
(* most once, because every attempt sends the same transaction.            *)
(***************************************************************************)
THEOREM DecisionsBuyOnce == Spec => []BoughtOnce
<1>1. TradeInv => BoughtOnce
  BY DEF TradeInv, TradeTypes, Agree, BoughtOnce
<1> QED BY <1>1, TradeInvariance, PTL

(* What is reported or recorded as bought has been bought. *)
THEOREM ReportsHold == Spec => []ReportsAreTrue
<1>1. TradeInv => ReportsAreTrue
  BY DEF TradeInv, TradeTypes, Agree, ReportsAreTrue, Steps, Ended
<1> QED BY <1>1, TradeInvariance, PTL
=============================================================================
