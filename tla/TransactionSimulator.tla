------------------------ MODULE TransactionSimulator ------------------------
(***************************************************************************)
(* validateTransaction() of security/transaction-simulator.ts: a           *)
(* simulation, an analysis of what others may gain from the transaction    *)
(* and a validation of its fee run side by side on one transaction object, *)
(* which the simulation completes after its first answer; then the         *)
(* slippage is validated and the four are put together.                    *)
(***************************************************************************)
EXTENDS Integers

CONSTANTS
  AmountsOut,        \* expected, minimal and simulated amounts; 0 is none or zero
  Fees,              \* what the network says it costs; a null answer counts as 5000 lamports
  maxSlippagePercent, maxGasFee \* of TransactionSecurityConfig

ASSUME SimulatorAssumption ==
  /\ 0 \in AmountsOut /\ AmountsOut \subseteq Nat /\ Fees \subseteq Nat
  /\ maxSlippagePercent \in 0..100 /\ maxGasFee \in Nat

VARIABLES
  transaction, \* amounts asked for, the true fee and the risk of others gaining from it
  prepared,    \* recentBlockhash and feePayer are set
  simulating,  \* simulateTransaction(): how far it is, then its result
  simulatedOut,\* actualAmountOut, 0 when the logs do not tell
  validating,  \* validateGasLimits(): how far it is, then its result
  verdict,     \* isValid of validateTransaction()
  warned       \* 'Gas validation failed - using default estimates' is recommended with it

simulatorVars == <<transaction, prepared, simulating, simulatedOut, validating, verdict, warned>>

RiskLevels == {"LOW", "MEDIUM", "HIGH", "CRITICAL"}

(* A transaction to be validated; if the analysis fails or is disabled its risk is not CRITICAL. *)
SimulatorInit ==
  /\ transaction \in [expected : AmountsOut, minimum : AmountsOut, fee : Fees, risk : RiskLevels]
  /\ prepared \in BOOLEAN /\ simulatedOut = 0
  /\ simulating = "blockhash" /\ validating = "blockhash" /\ verdict = "none" /\ warned = FALSE
-----------------------------------------------------------------------------
(* getLatestBlockhash() has answered: the transaction is completed. *)
PrepareTransaction ==
  /\ simulating = "blockhash"
  /\ \/ simulating' = "simulation" /\ prepared' = TRUE
     \/ simulating' = "failed" /\ UNCHANGED prepared
  /\ UNCHANGED <<transaction, simulatedOut, validating, verdict, warned>>

(* connection.simulateTransaction() has answered: it failed, or it went well. *)
SimulationAnswers ==
  /\ simulating = "simulation"
  /\ \/ simulating' = "failed" /\ UNCHANGED simulatedOut
     \/ simulating' = "success" /\ simulatedOut' \in AmountsOut
  /\ UNCHANGED <<transaction, prepared, validating, verdict, warned>>

(* A faulty variant: networkError is not set, and the fee estimated without an answer, which is
   small, is held against the maximum. *)
AskOrEstimate ==
  /\ validating = "blockhash"
  /\ \/ prepared /\ validating' = "fee"
     \/ validating' = "reasonable"
  /\ UNCHANGED <<transaction, prepared, simulating, simulatedOut, verdict, warned>>

(* getRecentBlockhash() has answered: compileMessage() throws without fee payer and blockhash,
   and after an error of this or of the next request the defaults are returned: reasonable,
   with a warning. *)
AskForFee ==
  /\ validating = "blockhash"
  /\ \/ prepared /\ validating' = "fee"
     \/ validating' = "defaults"
  /\ UNCHANGED <<transaction, prepared, simulating, simulatedOut, verdict, warned>>

FeeAnswers ==
  /\ validating = "fee"
  /\ \/ validating' = IF transaction.fee <= maxGasFee THEN "reasonable" ELSE "unreasonable"
     \/ validating' = "defaults"
  /\ UNCHANGED <<transaction, prepared, simulating, simulatedOut, verdict, warned>>

AmountLost(from, to) == IF from >= to THEN from - to ELSE to - from

(* validateSlippage() *)
SlippageIsValid(expected, minimum, actual) ==
  /\ 100 * minimum >= expected * (100 - maxSlippagePercent)
  /\ actual # 0 => 100 * AmountLost(expected, actual) <= maxSlippagePercent * expected

(* Amounts that are zero are taken for none, and nothing is validated. *)
SlippageCheck == transaction.expected # 0 /\ transaction.minimum # 0 =>
                   SlippageIsValid(transaction.expected, transaction.minimum, simulatedOut)

(* Promise.all() is done: validateTransaction() concludes. *)
ConcludeValidation ==
  /\ verdict = "none"
  /\ simulating \in {"success", "failed"}
  /\ validating \in {"reasonable", "unreasonable", "defaults"}
  /\ verdict' = IF /\ simulating = "success" /\ SlippageCheck
                   /\ transaction.risk # "CRITICAL" /\ validating # "unreasonable"
                THEN "valid" ELSE "invalid"
  /\ warned' = (validating = "defaults")
  /\ UNCHANGED <<transaction, prepared, simulating, simulatedOut, validating>>

SimulatorNext == \/ PrepareTransaction \/ SimulationAnswers \/ AskForFee \/ FeeAnswers
                 \/ ConcludeValidation

SimulatorSpec == SimulatorInit /\ [][SimulatorNext]_simulatorVars
-----------------------------------------------------------------------------
(* A fee above the maximum is let through only with the warning that nobody has seen it.  The
   validation of the fee and the simulation overlap on one transaction object: the blockhash
   without which the message cannot be compiled may come too late, and either request may fail
   (transaction-simulator.ts, validateGasLimits and validateTransaction). *)
HighFeeIsSaid == verdict = "valid" /\ transaction.fee > maxGasFee => warned

(* "Comprehensive transaction validation combining all security checks"
   (transaction-simulator.ts:360): a valid transaction has a reasonable fee.  When the
   blockhash of the fee's validation answers before that of the simulation the message cannot
   be compiled, and the fee is called reasonable unseen. *)
ValidFeeIsReasonable == verdict = "valid" => transaction.fee <= maxGasFee

(* "Validate slippage if amounts provided" (transaction-simulator.ts:385): a minimum of zero
   is provided, and accepts any loss; it is taken for none. *)
ZeroIsValidated ==
  verdict = "valid" /\ transaction.expected # 0 =>
    100 * transaction.minimum >= transaction.expected * (100 - maxSlippagePercent)
=============================================================================
