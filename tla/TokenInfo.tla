----------------------------- MODULE TokenInfo ------------------------------
(***************************************************************************)
(* What the program knows of a token when it decides on a new pool: the    *)
(* pool's row and the placeholder rows of its tokens (core/controller.ts,  *)
(* db/index.ts), the token information service with its cache over the     *)
(* rows over the chain (blockchain/token-info-service.ts), and the two     *)
(* strategies (trading/strategy-engine.ts).  Times are ages in ticks, and  *)
(* Window is the half hour of the cache and of the rows.                   *)
(***************************************************************************)
EXTENDS Naturals

CONSTANTS Evaluations, TokenPools,  \* pools as <<tokenA, tokenB>>
          Known,        \* the tokens with a row of an earlier day
          Sound,        \* the tokens of low supply that no holder dominates
          Window, MaxLatency, Unknown

ASSUME WindowAssumption == Window \in Nat \ {0} /\ MaxLatency \in Nat
ASSUME UnknownAssumption == Unknown \notin TokenPools

Sides == {1, 2}
TokensOfPools == {p[n] : p \in TokenPools, n \in Sides}
ToldWithin == 2 * (Window - 1) + 2 * MaxLatency
Oldest == ToldWithin + 1   \* ages stop here
Older(age) == IF age < Oldest THEN age + 1 ELSE age

VARIABLES waited,        \* evaluation -> ticks since it asked
          row,           \* token -> the age of first_seen, or Unknown without a row
          entry,         \* token -> the cached info and the time it has left, or Unknown
          pool,          \* evaluation -> its pool, or Unknown
          at,            \* evaluation, side -> "chain", "price" or "done"
          info,          \* evaluation, side -> what was found
          recommended    \* what evaluatePool() has answered in the last step

infoVars == <<waited, row, entry, pool, at, info, recommended>>

Nothing == [answer |-> "none"]

InfoInit ==
  /\ waited = [e \in Evaluations |-> 0]
  /\ row = [t \in TokensOfPools |-> IF t \in Known THEN Oldest ELSE Unknown]
  /\ entry = [t \in TokensOfPools |-> Unknown]
  /\ pool = [e \in Evaluations |-> Unknown]
  /\ at = [e \in Evaluations |-> [n \in Sides |-> "done"]]
  /\ info = [e \in Evaluations |-> [n \in Sides |-> Unknown]]
  /\ recommended = Nothing

(* calculateRiskScore(): points for supply (0-2), holders (0-3), age (0-2), *)
(* metadata (0-2) and verification (0-1), middling ones for the unknown.    *)
(* It is given the age 0 for what the chain tells and none for a row.       *)
AgePoints(age) == IF age = Unknown THEN 1 ELSE 2
TokenRiskScore(supply, holders, age, symbol) ==
  (IF supply = Unknown THEN 1 ELSE supply)
  + (IF holders = Unknown THEN 2 ELSE holders)
  + AgePoints(age) + (IF symbol THEN 0 ELSE 2) + 1

(* A row has no supply, holders or age of its own, and no row has a symbol; *)
(* the age that is told with it is the time since it was first seen.        *)
FromRow(t, age) == [risk |-> TokenRiskScore(Unknown, Unknown, Unknown, FALSE), symbol |-> FALSE,
                    age |-> age, asOf |-> age, token |-> t]

(* fetchOnChainMetadata() finds the decimals only, and the age is set to 0. *)
(* The supply and the holders may not be found.                             *)
FromChain(t) ==
  LET found(s, h) == [risk |-> TokenRiskScore(s, h, 0, FALSE), symbol |-> FALSE,
                      age |-> 0, asOf |-> 0, token |-> t]
  IN  {found(Unknown, Unknown), IF t \in Sound THEN found(0, 0) ELSE found(2, 3)}

(* An entry that has expired is as good as none: it is not read again.      *)
EntryIsYoung(t) == entry[t] # Unknown
RowIsFreshAtLimit(age) == age <= Window   \* a faulty variant
RowIsFresh(age) == age < Window

(* Where getTokenInfo() goes, and with what, before the network: the cache, *)
(* then the row.                                                            *)
Asked(t, age) ==
  IF EntryIsYoung(t) THEN [to |-> "done", found |-> entry[t].found]
  ELSE IF RowIsFresh(age) THEN [to |-> "price", found |-> FromRow(t, age)]
  ELSE [to |-> "chain", found |-> Unknown]

(* A new pool: placeholder rows first, with the time of the event, then an  *)
(* evaluation that asks for both tokens at once.                            *)
FirstSeen(t) == IF row[t] = Unknown THEN 0 ELSE row[t]
PoolRowOf(p) ==
  row' = [t \in TokensOfPools |-> IF t \in {p[1], p[2]} THEN FirstSeen(t) ELSE row[t]]
HandleNewPool(e, p) ==
  /\ pool[e] = Unknown
  /\ PoolRowOf(p)
  /\ pool' = [pool EXCEPT ![e] = p]
  /\ at' = [at EXCEPT ![e] = [n \in Sides |-> Asked(p[n], FirstSeen(p[n])).to]]
  /\ info' = [info EXCEPT ![e] = [n \in Sides |-> Asked(p[n], FirstSeen(p[n])).found]]
  /\ UNCHANGED <<waited, entry>> /\ recommended' = Nothing

Found(e, n, s, found) == /\ at' = [at EXCEPT ![e][n] = s]
                         /\ info' = [info EXCEPT ![e][n] = found]

(* The chain answers: nothing without metadata.  The row stays as it is.    *)
ReadChain(e, n) ==
  /\ at[e][n] = "chain"
  /\ \/ Found(e, n, "done", Unknown)
     \/ \E found \in FromChain(pool[e][n]) : Found(e, n, "price", found)
  /\ UNCHANGED <<waited, row, entry, pool>> /\ recommended' = Nothing

(* The price, or none: the info is cached from now on.                      *)
ReadPrice(e, n) ==
  /\ at[e][n] = "price"
  /\ entry' = [entry EXCEPT ![pool[e][n]] = [found |-> info[e][n], left |-> Window]]
  /\ Found(e, n, "done", info[e][n])
  /\ UNCHANGED <<waited, row, pool>> /\ recommended' = Nothing

(* isNewToken(): without symbols, the younger one, and tokenB of two equals.*)
NewToken(a, b) == IF a.age < b.age THEN a ELSE b

(* The strategies, for a pool of so many thousands of dollars: a risk of    *)
(* more than 7 is refused, and so is a confidence of at most 30 percent.    *)
Eligible(found) == found.symbol /\ found.risk <= 8
RiskAccepted(found, thousands) ==
  /\ found.risk <= 7
  /\ (10 - found.risk) * 7 + 3 * thousands > 30
Approves(found, thousands) ==
  thousands >= 1 /\ Eligible(found) /\ RiskAccepted(found, thousands)

EvaluatePool(e) ==
  /\ pool[e] # Unknown /\ \A n \in Sides : at[e][n] = "done"
  /\ IF \E n \in Sides : info[e][n] = Unknown
     THEN recommended' = Nothing
     ELSE \E thousands \in {0, 10} :
            LET new == NewToken(info[e][1], info[e][2])
            IN  recommended' = [answer |-> IF Approves(new, thousands) THEN "trade" ELSE "skip",
                                new |-> new.token, pool |-> pool[e], thousands |-> thousands]
  /\ pool' = [pool EXCEPT ![e] = Unknown]
  /\ info' = [info EXCEPT ![e] = [n \in Sides |-> Unknown]]
  /\ waited' = [waited EXCEPT ![e] = 0]
  /\ UNCHANGED <<row, entry, at>>

(* A tick: no call takes more than MaxLatency of them.  What was found is a *)
(* tick older, and what it says of the token's age is as it was.            *)
AsOfOlder(found) == IF found = Unknown THEN found ELSE [found EXCEPT !.asOf = Older(@)]
Ticks ==
  /\ \A e \in Evaluations : pool[e] # Unknown => waited[e] < MaxLatency
  /\ waited' = [e \in Evaluations |-> IF pool[e] = Unknown THEN 0 ELSE waited[e] + 1]
  /\ row' = [t \in TokensOfPools |-> IF row[t] = Unknown THEN Unknown ELSE Older(row[t])]
  /\ entry' = [t \in TokensOfPools |->
                 IF entry[t] = Unknown \/ entry[t].left = 1 THEN Unknown
                 ELSE [found |-> AsOfOlder(entry[t].found), left |-> entry[t].left - 1]]
  /\ info' = [e \in Evaluations |-> [n \in Sides |-> AsOfOlder(info[e][n])]]
  /\ UNCHANGED <<pool, at>> /\ recommended' = Nothing

InfoNext ==
  \/ \E e \in Evaluations :
       \/ \E p \in TokenPools : HandleNewPool(e, p)
       \/ \E n \in Sides : ReadChain(e, n) \/ ReadPrice(e, n)
       \/ EvaluatePool(e)
  \/ Ticks

InfoSpec == InfoInit /\ [][InfoNext]_infoVars

-----------------------------------------------------------------------------
(* What an evaluation is told of a token was true at most an hour and the   *)
(* time of a call ago: half an hour as a row, then half an hour in the      *)
(* cache, which starts again however old the row was.                       *)
AnswersAreRecent ==
  \A e \in Evaluations, n \in Sides :
    pool[e] # Unknown /\ at[e][n] = "done" /\ info[e][n] # Unknown
      => info[e][n].asOf <= ToldWithin

(* Not so: the token taken for the new one is not the one seen earlier.     *)
NewIsNew ==
  recommended.answer # "none"
    => \A n \in Sides : row[recommended.new] <= row[recommended.pool[n]]

(* "evaluates trading opportunities based on configurable criteria"         *)
(* (README.md:11): a new token of low supply that no holder dominates, in a *)
(* pool with enough liquidity, is bought.  Not so: isTokenEligible() wants  *)
(* a symbol (strategy-engine.ts:95), which no token has, although "Metadata *)
(* extraction (symbol, name, decimals)" is checked off (docs/project/       *)
(* TODO.md:189); and as the placeholder row of a new token is fresh its     *)
(* risk is guessed, at 7, the most that is accepted.                        *)
GoodPoolsAreApproved ==
  recommended.answer = "skip" => recommended.thousands = 0 \/ recommended.new \notin Sound
=============================================================================
