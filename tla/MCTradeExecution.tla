-------------------------- MODULE MCTradeExecution --------------------------
(* Two trades at once for TLC, of a wallet with four dollars in SOL and four in the base token. *)
EXTENDS TradeExecution

MCFirstBalance == [sol |-> 4, token |-> 4]
Decision(b, u, s) == [base |-> b, usd |-> u, saved |-> s]
AnyDecision == {Decision("SOL", 2, TRUE), Decision("mint", 1, TRUE), Decision("mint", 2, FALSE),
                Decision("SOL", 5, TRUE)}
SolDecisions == {Decision("SOL", 2, TRUE)}
SavedDecisions == {Decision("mint", 2, TRUE)}
UnsavedDecisions == {Decision("mint", 2, FALSE)}
=============================================================================
