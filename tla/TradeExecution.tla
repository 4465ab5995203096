--------------------------- MODULE TradeExecution ---------------------------
(***************************************************************************)
(* TradeExecutor.executeTrade() of trading/trade-executor.ts, run for      *)
(* several decisions at once, with the chain and the records of db/.       *)
(*                                                                         *)
(* A trade is a chain of awaits: the wallet's balance, the network's       *)
(* state, the balance again, the quote and the transaction, then up to     *)
(* MaxRetries times its submission and confirmation.  Between two awaits   *)
(* the other trades, the chain and the clock go on.  The database is       *)
(* synchronous, so that what a trade records is one step.                  *)
(*                                                                         *)
(* Amounts are in dollars: a token counts one dollar, as getWalletBalance() *)
(* has it.                                                                 *)
(***************************************************************************)
EXTENDS Integers, FiniteSetsExt, Functions

CONSTANTS
  Trades,           \* calls of executeTrade()
  Decisions,        \* [base, usd, saved]: the base token, the amount, the pool is in the database
  FirstBalance,     \* [sol, token]: the wallet at first
  MaxTradeUsd,      \* tradeConfig.maxTradeAmountUsd
  RiskPercent,      \* wallet.riskPercent
  TotalRiskPercent, \* wallet.maxTotalRiskPercent, which nothing reads
  MaxRetries,       \* MAX_RETRIES
  ResetAfter,       \* the breaker's resetAfter
  DatabaseFails     \* whether an INSERT may fail though its keys are right

ASSUME RetriesAssumption == MaxRetries \in Nat \ {0}
ASSUME ResetAssumption == ResetAfter \in Nat
ASSUME DecisionsAssumption == Decisions \subseteq [base : {"SOL", "mint"}, usd : Nat, saved : BOOLEAN]
ASSUME BalanceAssumption == FirstBalance \in [sol : Nat, token : Nat]
ASSUME FaultsAssumption == DatabaseFails \in BOOLEAN

MinGas == 1   \* stands for the 0.01 SOL a trade needs for its fees

VARIABLES
  wallet,    \* the keypair is loaded
  at,        \* where a trade is
  decided,   \* its decision
  input,     \* the amount its quote is for
  attempts,  \* retryCount
  chain,     \* what became of its transaction
  bought,    \* how often the chain has executed a transaction of it
  records,   \* its row in table trades
  held,      \* whether it has a row in table positions
  balance,   \* the wallet on the chain
  cached,    \* tokenAccounts: the balance of the base token
  breaker    \* circuitBreakers.get('trading'), with its age instead of trippedAt

vars == <<wallet, at, decided, input, attempts, chain, bought, records, held, balance, cached,
          breaker>>

Steps == {"balance", "network", "limits", "preparing", "sending", "confirming", "refreshing"}
Closed == [isTripped |-> FALSE, age |-> 0]

Init ==
  /\ wallet = FALSE
  /\ at = [t \in Trades |-> "idle"]
  /\ decided \in [Trades -> Decisions]
  /\ input = [t \in Trades |-> 0]
  /\ attempts = [t \in Trades |-> 0]
  /\ chain = [t \in Trades |-> "unsent"]
  /\ bought = [t \in Trades |-> 0]
  /\ records = [t \in Trades |-> "none"]
  /\ held = [t \in Trades |-> FALSE]
  /\ balance = FirstBalance
  /\ cached = 0
  /\ breaker = Closed
-----------------------------------------------------------------------------
GoesTo(t, step) == at' = [at EXCEPT ![t] = step]

(* isCircuitBreakerTripped() *)
Blocks == breaker.isTripped /\ breaker.age <= ResetAfter

(***************************************************************************)
(* The catch of executeTrade(), given the row the trade has already.       *)
(* recordFailedTrade() inserts a row under the same id, which the keys may *)
(* refuse; updateCircuitBreaker() counts failures at random.               *)
(***************************************************************************)
Fails(t, row) ==
  /\ GoesTo(t, "failed")
  /\ records' \in {[records EXCEPT ![t] = r] :
                     r \in IF row # "none" \/ ~decided[t].saved THEN {row}
                           ELSE IF DatabaseFails THEN {"none", "FAILED"} ELSE {"FAILED"}}
  /\ \/ breaker' = [isTripped |-> TRUE, age |-> 0]
     \/ UNCHANGED breaker

(* initialize(), which loads the keypair. *)
LoadWallet ==
  /\ ~wallet
  /\ wallet' = TRUE
  /\ cached' \in {cached, balance.token}
  /\ UNCHANGED <<at, decided, input, attempts, chain, bought, records, held, balance, breaker>>

(* executeTrade() is called. *)
Ask(t) ==
  /\ at[t] = "idle"
  /\ IF wallet /\ ~Blocks
     THEN GoesTo(t, "balance") /\ breaker' = Closed /\ UNCHANGED records
     ELSE Fails(t, "none")
  /\ UNCHANGED <<wallet, decided, input, attempts, chain, bought, held, balance, cached>>

(* refreshTokenAccounts(): when it fails, the cache stays as it is. *)
Refresh == cached' \in {cached, balance.token}

BalanceAnswered(t) ==
  /\ at[t] = "balance"
  /\ Refresh
  /\ IF balance.sol >= MinGas THEN GoesTo(t, "network") /\ UNCHANGED <<records, breaker>>
                              ELSE Fails(t, "none")
  /\ UNCHANGED <<wallet, decided, input, attempts, chain, bought, held, balance>>

NetworkAnswered(t) ==
  /\ at[t] = "network"
  /\ GoesTo(t, "limits")
  /\ UNCHANGED <<wallet, decided, input, attempts, chain, bought, records, held, balance, cached,
                 breaker>>

(* validateTradeDecision(), given the balance of the tokens. *)
WithinLimits(d, tokens) ==
  /\ 1 <= d.usd /\ d.usd <= MaxTradeUsd
  /\ d.usd * 100 <= (balance.sol + tokens) * RiskPercent

(***************************************************************************)
(* calculateInputAmount(): for a base token other than 'SOL' all there is  *)
(* in the wallet.  An account that is not in the cache counts 0, whatever  *)
(* it holds.                                                               *)
(***************************************************************************)
InputAmount(d, tokens) == IF d.base = "SOL" THEN d.usd ELSE tokens

LimitsAnswered(t) ==
  /\ at[t] = "limits"
  /\ Refresh
  /\ IF WithinLimits(decided[t], cached')
     THEN /\ GoesTo(t, "preparing")
          /\ input' = [input EXCEPT ![t] = InputAmount(decided[t], cached')]
          /\ UNCHANGED <<records, breaker>>
     ELSE Fails(t, "none") /\ UNCHANGED input
  /\ UNCHANGED <<wallet, decided, attempts, chain, bought, held, balance>>

(* The quote and the transaction are there; a quote for nothing is not valid. *)
Prepared(t) ==
  /\ at[t] = "preparing"
  /\ IF input[t] > 0 THEN GoesTo(t, "sending") /\ UNCHANGED <<records, breaker>>
                     ELSE Fails(t, "none")
  /\ UNCHANGED <<wallet, decided, input, attempts, chain, bought, held, balance, cached>>

(* What a trade waits for before it sends anything may fail. *)
CheckFails(t) ==
  /\ at[t] \in {"balance", "network", "limits", "preparing"}
  /\ Fails(t, "none")
  /\ UNCHANGED <<wallet, decided, input, attempts, chain, bought, held, balance, cached>>
-----------------------------------------------------------------------------
(* Faulty variants: an attempt is not counted; one attempt more; a new transaction for each. *)
Uncounted(n) == n

AttemptsLeftOrEqual(n) == n <= MaxRetries

FreshTransaction(c) == "unsent"

Counted(n) == n + 1

AttemptsLeft(n) == n < MaxRetries

(* The same transaction is signed again, which gives the same signature. *)
SameTransaction(c) == c

(* The catch of an attempt, with what became of its transaction, and the delay after it. *)
Retries(t, c) ==
  /\ attempts' = [attempts EXCEPT ![t] = Counted(@)]
  /\ chain' = [chain EXCEPT ![t] = SameTransaction(c)]
  /\ IF AttemptsLeft(attempts'[t]) THEN GoesTo(t, "sending") /\ UNCHANGED <<records, breaker>>
                                   ELSE Fails(t, "none")

(***************************************************************************)
(* The node accepts the transaction, or the call fails, which does not     *)
(* mean that the node has not got it.  A transaction the chain has dealt   *)
(* with already is refused.                                                *)
(***************************************************************************)
Sends(t) ==
  /\ at[t] = "sending"
  /\ \/ /\ chain[t] \in {"unsent", "pending"}
        /\ chain' = [chain EXCEPT ![t] = "pending"]
        /\ GoesTo(t, "confirming")
        /\ UNCHANGED <<attempts, records, breaker>>
     \/ \E c \in {chain[t]} \cup (IF chain[t] = "unsent" THEN {"pending"} ELSE {}) : Retries(t, c)
  /\ UNCHANGED <<wallet, decided, input, bought, held, balance, cached>>

(* A faulty variant: a transaction that failed on the chain counts as confirmed. *)
ConfirmsAny(t) == chain[t] \in {"executed", "failed"}

(* confirmTransaction() says so, without an error. *)
Confirms(t) == chain[t] = "executed"

(***************************************************************************)
(* waitForConfirmation(): the transaction is confirmed and its details are *)
(* there; or it failed; or the wait, or the question for the details,      *)
(* failed, whatever became of the transaction.                             *)
(***************************************************************************)
Confirmed(t) ==
  /\ at[t] = "confirming"
  /\ \/ Confirms(t) /\ GoesTo(t, "refreshing") /\ UNCHANGED <<chain, attempts, records, breaker>>
     \/ Retries(t, chain[t])
  /\ UNCHANGED <<wallet, decided, input, bought, held, balance, cached>>

(* The row of the trade and that of its position. *)
Recorded(t) ==
  /\ at[t] = "refreshing"
  /\ Refresh
  /\ \/ /\ decided[t].saved
        /\ GoesTo(t, "succeeded")
        /\ records' = [records EXCEPT ![t] = "CONFIRMED"] /\ held' = [held EXCEPT ![t] = TRUE]
        /\ UNCHANGED breaker
     \/ /\ DatabaseFails \/ ~decided[t].saved   \* addTrade() throws
        /\ Fails(t, "none")
        /\ UNCHANGED held
     \/ /\ DatabaseFails /\ decided[t].saved    \* addPosition() throws
        /\ Fails(t, "CONFIRMED")
        /\ UNCHANGED held
  /\ UNCHANGED <<wallet, decided, input, attempts, chain, bought, balance>>
-----------------------------------------------------------------------------
(* The chain executes a transaction once, or it fails, or its blockhash expires. *)
ChainDecides(t) ==
  /\ chain[t] = "pending"
  /\ LET from == IF decided[t].base = "SOL" THEN "sol" ELSE "token" IN
     \/ /\ input[t] <= balance[from]
        /\ chain' = [chain EXCEPT ![t] = "executed"]
        /\ bought' = [bought EXCEPT ![t] = @ + 1]
        /\ balance' = [balance EXCEPT ![from] = @ - input[t]]
     \/ /\ chain' = [chain EXCEPT ![t] = "failed"]
        /\ UNCHANGED <<bought, balance>>
  /\ UNCHANGED <<wallet, at, decided, input, attempts, records, held, cached, breaker>>

(* Time passes, as far as the breaker sees it. *)
Tick ==
  /\ Blocks
  /\ breaker' = [breaker EXCEPT !.age = @ + 1]
  /\ UNCHANGED <<wallet, at, decided, input, attempts, chain, bought, records, held, balance,
                 cached>>

Step(t) ==
  \/ BalanceAnswered(t) \/ NetworkAnswered(t) \/ LimitsAnswered(t) \/ Prepared(t)
  \/ CheckFails(t) \/ Sends(t) \/ Confirmed(t) \/ Recorded(t)

Next == LoadWallet \/ Tick \/ \E t \in Trades : Ask(t) \/ Step(t) \/ ChainDecides(t)

Spec == Init /\ [][Next]_vars

(* Every request of a trade is answered or times out. *)
FairSpec == Spec /\ \A t \in Trades : WF_vars(Step(t))
-----------------------------------------------------------------------------
TradeTypeOK ==
  /\ wallet \in BOOLEAN
  /\ at \in [Trades -> Steps \cup {"idle", "succeeded", "failed"}]
  /\ decided \in [Trades -> Decisions]
  /\ input \in [Trades -> Nat]
  /\ attempts \in [Trades -> 0..MaxRetries]
  /\ chain \in [Trades -> {"unsent", "pending", "executed", "failed"}]
  /\ bought \in [Trades -> Nat]
  /\ records \in [Trades -> {"none", "CONFIRMED", "FAILED"}]
  /\ held \in [Trades -> BOOLEAN]
  /\ balance \in [sol : Nat, token : Nat] /\ cached \in Nat
  /\ breaker \in [isTripped : BOOLEAN, age : 0..(ResetAfter + 1)]
  /\ \A t \in Trades : attempts[t] = MaxRetries => at[t] = "failed"

(***************************************************************************)
(* However often the transaction is sent, and whatever answers are lost,   *)
(* a decision buys at most once.                                           *)
(***************************************************************************)
BoughtOnce == \A t \in Trades : bought[t] <= 1

(***************************************************************************)
(* What is reported and recorded as bought has been bought: a success has  *)
(* its trade CONFIRMED and its position, and a row that says CONFIRMED     *)
(* stands for an execution on the chain.                                   *)
(***************************************************************************)
ReportsAreTrue ==
  \A t \in Trades :
    /\ at[t] = "succeeded" => held[t]
    /\ held[t] => records[t] = "CONFIRMED"
    /\ records[t] = "CONFIRMED" => bought[t] = 1 /\ at[t] \in {"succeeded", "failed"}

(* A trade that was asked for comes to an end. *)
TradesEnd == \A t \in Trades : at[t] \in Steps ~> at[t] \in {"succeeded", "failed"}

(* "Record failed trade attempt": a trade recorded as FAILED has bought nothing. *)
FailedBoughtNothing == \A t \in Trades : records[t] = "FAILED" => bought[t] = 0

(* "Record successful trade": what a trade has bought, and it saw that, is recorded. *)
BoughtIsRecorded ==
  [][\A t \in Trades : at[t] = "refreshing" /\ at'[t] # at[t] => records'[t] = "CONFIRMED"]_vars

(***************************************************************************)
(* "Maximum percentage of wallet value per trade": no trade spends more of *)
(* the wallet than that, by what the wallet was at first.                  *)
(***************************************************************************)
WithinPercent(spent, percent) == spent * 100 <= (FirstBalance.sol + FirstBalance.token) * percent
TradeWithinRisk == \A t \in Trades : bought[t] > 0 => WithinPercent(input[t], RiskPercent)

(* "Maximum 20% of portfolio at risk at any time": all trades together. *)
TotalWithinRisk == WithinPercent(MapThenSumSet(LAMBDA t : bought[t] * input[t], Trades), TotalRiskPercent)

(* "5 minutes": that the breaker refuses a trade does not begin its time anew. *)
RefusalsDoNotProlong ==
  [][\A t \in Trades : at[t] = "idle" /\ at'[t] = "failed" /\ Blocks => breaker'.age >= breaker.age]_vars
=============================================================================
