-------------------------- MODULE TradingDatabase ---------------------------
(***************************************************************************)
(* The tables of the database (db/index.ts) and the operations on them.  A *)
(* statement runs at once and may be refused (disk full, locked, a         *)
(* reference to no row); what an operation does between two statements is  *)
(* a step of its own, for the calls await each other.  The schema and what *)
(* keeps the file in shape are in DatabaseUpkeep.  A row is the rows it    *)
(* refers to, and a position's status; the tokens and the pools never      *)
(* leave.                                                                  *)
(***************************************************************************)
EXTENDS Naturals, FiniteSets

CONSTANTS Clients, DbTokens, DbPools, DbTrades, DbPositions, NoTrade,
          PairOf   \* tokenA and tokenB of each pool

ASSUME NoTradeAssumption == NoTrade \notin DbTrades

VARIABLES handle,  \* "open" or "closed"
          stage,   \* where each client's call is: <<"idle">>, <<"run">>, ...
          tokens, pools, trades, positions,   \* the tables, by primary key
          stats    \* the counts getStats() answered last

dbVars == <<handle, stage, tokens, pools, trades, positions, stats>>
tables == <<tokens, pools, trades, positions>>

Empty == [k \in {} |-> NoTrade]
Put(table, key, row) == [k \in DOMAIN table \cup {key} |-> IF k = key THEN row ELSE table[k]]
GoTo(c, s) == stage' = [stage EXCEPT ![c] = s]
Settles(c) == GoTo(c, <<"idle">>)

(* What the FOREIGN KEY clauses of the schema let in.                       *)
PoolRefers(p) == PairOf[p][1] \in tokens /\ PairOf[p][2] \in tokens
TradeRefers(row) == row.pool \in pools /\ row.token \in tokens
TokenRefers(row) == row.token \in tokens  \* the schema without the keys of the trades
PositionRefers(row) == /\ row.token \in tokens
                       /\ row.entry \in DOMAIN trades
                       /\ row.exit \in DOMAIN trades \cup {NoTrade}

DbInit == /\ handle = "open" /\ stage = [c \in Clients |-> <<"idle">>]
          /\ tokens = {} /\ pools = {} /\ trades = Empty /\ positions = Empty
          /\ stats = [open |-> 0, closed |-> 0, rows |-> 0]

CallOperation(c) == /\ stage[c] = <<"idle">> /\ GoTo(c, <<"run">>)
                    /\ UNCHANGED <<handle, tables, stats>>

(* The statement is refused: the operation throws.                          *)
OperationFails(c) == /\ stage[c][1] \in {"run", "pool", "count"} /\ Settles(c)
                     /\ UNCHANGED <<handle, tables, stats>>

(* A statement that ends the operation of client c, and may write a table.  *)
Statement(c, s) == stage[c] = s /\ handle = "open" /\ Settles(c) /\ UNCHANGED <<handle, stats>>

(* addToken() inserts or ignores, upsertToken() reads and replaces.         *)
AddToken(c, t) == /\ Statement(c, <<"run">>)
                  /\ tokens' = tokens \cup {t} /\ UNCHANGED <<pools, trades, positions>>

(* addLiquidityPool() adds a placeholder for each token without a row: a    *)
(* failure only warns, and skips the rest.  Then it adds the pool.          *)
AddLiquidityPool(c, p) ==
  /\ stage[c] = <<"run">> /\ GoTo(c, <<"placeholder", p, 1>>) /\ UNCHANGED <<handle, tables, stats>>
AddPlaceholder(c, p, n) ==
  /\ stage[c] = <<"placeholder", p, n>>
  /\ \/ /\ handle = "open"
        /\ tokens' = tokens \cup {PairOf[p][n]}
        /\ GoTo(c, IF n = 1 THEN <<"placeholder", p, 2>> ELSE <<"pool", p>>)
     \/ GoTo(c, <<"pool", p>>) /\ UNCHANGED tokens
  /\ UNCHANGED <<handle, pools, trades, positions, stats>>
AddPool(c, p) == /\ Statement(c, <<"pool", p>>) /\ PoolRefers(p)
                 /\ pools' = pools \cup {p} /\ UNCHANGED <<tokens, trades, positions>>
UpsertLiquidityPool(c, p) == /\ Statement(c, <<"run">>) /\ PoolRefers(p)
                             /\ pools' = pools \cup {p} /\ UNCHANGED <<tokens, trades, positions>>

AddTrade(c, t) ==
  /\ Statement(c, <<"run">>) /\ t \notin DOMAIN trades
  /\ \E row \in [pool : DbPools, token : DbTokens] :
       TradeRefers(row) /\ trades' = Put(trades, t, row)
  /\ UNCHANGED <<tokens, pools, positions>>

AddPosition(c, p) ==
  /\ Statement(c, <<"run">>) /\ p \notin DOMAIN positions
  /\ \E row \in [token : DbTokens, entry : DbTrades, exit : {NoTrade}, status : {"OPEN"}] :
       PositionRefers(row) /\ positions' = Put(positions, p, row)
  /\ UNCHANGED <<tokens, pools, trades>>

(* closePosition() updates the row that is still OPEN, or none: then its    *)
(* answer is FALSE.                                                         *)
Present(p) == p \in DOMAIN positions   \* the update without its status condition
Closable(p) == p \in DOMAIN positions /\ positions[p].status = "OPEN"
CloseRowOf(c, p) ==
  /\ Statement(c, <<"run">>)
  /\ IF Closable(p)
     THEN \E e \in DbTrades :
            LET row == [positions[p] EXCEPT !.exit = e, !.status = "CLOSED"]
            IN  PositionRefers(row) /\ positions' = [positions EXCEPT ![p] = row]
     ELSE UNCHANGED positions
  /\ UNCHANGED <<tokens, pools, trades>>

(* getStats() counts in statements with an await between them.              *)
WithStatus(s) == Cardinality({p \in DOMAIN positions : positions[p].status = s})
CountOpen(c) == /\ stage[c] = <<"run">> /\ handle = "open"
                /\ GoTo(c, <<"count", WithStatus("OPEN")>>)
                /\ UNCHANGED <<handle, tables, stats>>
CountClosed(c) ==
  /\ stage[c][1] = "count" /\ handle = "open" /\ Settles(c)
  /\ stats' = [open |-> stage[c][2], closed |-> WithStatus("CLOSED"),
               rows |-> Cardinality(DOMAIN positions)]
  /\ UNCHANGED <<handle, tables>>

(* Every other read is one statement, as is an update of a column that is   *)
(* not a reference: whether a token is verified, how liquid a pool is, the  *)
(* status of a trade.  A filter or an order of the rows changes nothing.    *)
LeavesReferences(c) == Statement(c, <<"run">>) /\ UNCHANGED tables
ReadOrVerifyToken(c) == LeavesReferences(c)
ReadOrUpdatePool(c) == LeavesReferences(c)
ReadOrUpdateTrade(c) == LeavesReferences(c)
ReadPositions(c) == LeavesReferences(c)
ReadAllRows(c) == LeavesReferences(c)

Close == /\ handle = "open" /\ handle' = "closed" /\ UNCHANGED <<stage, tables, stats>>

(* The process dies, or has ended, and is started again: the tables stay.   *)
Restart == /\ handle' = "open" /\ stage' = [c \in Clients |-> <<"idle">>]
           /\ stats' = [open |-> 0, closed |-> 0, rows |-> 0]
           /\ UNCHANGED tables

DbNext ==
  \/ \E c \in Clients :
       \/ CallOperation(c) \/ OperationFails(c) \/ CountOpen(c) \/ CountClosed(c)
       \/ ReadOrVerifyToken(c) \/ ReadOrUpdatePool(c) \/ ReadOrUpdateTrade(c)
       \/ ReadPositions(c) \/ ReadAllRows(c)
       \/ \E t \in DbTokens : AddToken(c, t)
       \/ \E p \in DbPools : \/ AddLiquidityPool(c, p) \/ AddPool(c, p) \/ UpsertLiquidityPool(c, p)
                             \/ \E n \in 1..2 : AddPlaceholder(c, p, n)
       \/ \E t \in DbTrades : AddTrade(c, t)
       \/ \E p \in DbPositions : AddPosition(c, p) \/ CloseRowOf(c, p)
  \/ Close \/ Restart

DbSpec == DbInit /\ [][DbNext]_dbVars

-----------------------------------------------------------------------------
(* Whatever statements are refused, whoever races, and wherever the process *)
(* dies, the tables lead from every position to what was traded: its trades *)
(* are recorded, their pools are known, and so are the tokens of those.     *)
RecordsAreLinked ==
  /\ \A p \in pools : PoolRefers(p)
  /\ \A t \in DOMAIN trades : TradeRefers(trades[t])
  /\ \A p \in DOMAIN positions :
       /\ positions[p].token \in tokens /\ positions[p].entry \in DOMAIN trades
       /\ positions[p].status = "CLOSED" => positions[p].exit \in DOMAIN trades

(* A position is closed once: of two that close it at the same time one     *)
(* writes its exit, and no later statement and no restart changes that.     *)
ClosedRowsStay ==
  [][\A p \in DOMAIN positions :
       p \in DOMAIN positions' /\ (positions[p].status = "CLOSED" => positions'[p] = positions[p])]_dbVars

(* Not so: the counts of one answer of getStats() are of different moments, *)
(* and a position that closes in between is counted twice.                  *)
StatsAddUp == stats.open + stats.closed = stats.rows
=============================================================================
