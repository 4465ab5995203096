-------------------------- MODULE Services_proofs --------------------------
(***************************************************************************)
(* The exits of positions, the services around the trading core and the    *)
(* database: what holds of them for any positions, callers and limits.     *)
(* Each part has its inductive invariant, a lemma that a step of the part  *)
(* keeps it, and the theorem.                                              *)
(***************************************************************************)
EXTENDS PositionExits, ErrorRecovery, Notifications, PriceFeed, TradingDatabase,
        DatabaseUpkeep, TokenInfo, FiniteSetTheorems, WellFoundedInduction,
        NaturalsInduction, TLAPS

-----------------------------------------------------------------------------
(***************************************************************************)
(* The exits of positions.  What a call that waits for the database has    *)
(* found, and that nothing has changed since: it is the only one, and its  *)
(* position is open, with no decision yet.                                 *)
(***************************************************************************)

(* One position. *)
AskedOnce(p) ==
  /\ begun[p] > 0 => begun[p] = 1 /\ status[p] = "OPEN" /\ decisions[p] = 0
  /\ decisions[p] <= 1
  /\ p \in pending => status[p] = "OPEN" /\ decisions[p] = 1
  /\ status[p] = "OPEN" /\ decisions[p] = 1 => p \in pending
  /\ status[p] = "none" => decisions[p] = 0

ExitTypes ==
  /\ status \in [Positions -> {"none", "OPEN", "CLOSED"}]
  /\ begun \in [Positions -> Nat]
  /\ decisions \in [Positions -> Nat]
  /\ pending \in SUBSET Positions

ExitInv == ExitTypes /\ \A p \in Positions \ raced : AskedOnce(p)

(* Exits that are taken while no call waits keep the invariant. *)
LEMMA TakenOnce ==
  ASSUME ExitInv, QueueIsEmpty, NEW taken \in SUBSET (Open \ pending),
         pending' = pending \cup taken, Emitted(taken), UNCHANGED <<status, begun, raced>>
  PROVE  ExitInv'
<1>1. ExitTypes'
  <2>1. decisions' \in [Positions -> Nat]
    BY DEF Emitted, CountedTwice, ExitInv, ExitTypes
  <2> QED BY <2>1 DEF Open, ExitInv, ExitTypes
<1>2. ASSUME NEW p \in Positions \ raced PROVE AskedOnce(p)'
  <2>1. CASE p \in taken
    BY <2>1 DEF Emitted, CountedTwice, Open, QueueIsEmpty, ExitInv, ExitTypes, AskedOnce
  <2>2. CASE p \notin taken
    BY <2>2 DEF Emitted, ExitInv, ExitTypes, AskedOnce
  <2> QED BY <2>1, <2>2
<1> QED BY <1>1, <1>2 DEF ExitInv

LEMMA ExitInvStep ==
  ASSUME ExitInv, [Next]_vars
  PROVE  ExitInv'
<1>1. ASSUME NEW p \in Positions, PositionOpens(p) PROVE ExitInv'
  BY <1>1 DEF PositionOpens, ExitInv, ExitTypes, AskedOnce
<1>2. ASSUME NEW p \in Positions, ClosePosition(p) PROVE ExitInv'
  BY <1>2 DEF ClosePosition, NoLongerPending, Open, QueueIsEmpty, ExitInv, ExitTypes, AskedOnce
<1>3. ASSUME NEW p \in Positions, ExitRequested(p) PROVE ExitInv'
  <2>1. CASE UNCHANGED begun
    BY <1>3, <2>1 DEF ExitRequested, ExitInv, ExitTypes, AskedOnce
  <2>2. CASE p \in ExitsTaken({p}) /\ begun' = [begun EXCEPT ![p] = @ + 1]
    BY <1>3, <2>2 DEF ExitRequested, ExitsTaken, Open, QueueIsEmpty, ExitInv, ExitTypes, AskedOnce
  <2> QED BY <1>3, <2>1, <2>2 DEF ExitRequested
<1>4. ASSUME NEW p \in Positions, ExitGoesOn(p) PROVE ExitInv'
  <2>1. decisions' = [q \in Positions |-> IF q = p THEN CountedTwice(decisions[q]) ELSE decisions[q]]
    BY <1>4 DEF ExitGoesOn, Emitted
  <2>2. ExitTypes'
    <3>1. decisions' \in [Positions -> Nat]
      BY <2>1 DEF CountedTwice, ExitInv, ExitTypes
    <3>2. begun' \in [Positions -> Nat]
      <4>1. begun \in [Positions -> Nat] /\ begun[p] > 0 /\ begun' = [begun EXCEPT ![p] = begun[p] - 1]
        BY <1>4 DEF ExitGoesOn, ExitInv, ExitTypes
      <4>2. begun[p] - 1 \in Nat
        BY <4>1
      <4> QED BY <4>1, <4>2
    <3>3. pending' \in SUBSET Positions /\ status' = status
      BY <1>4 DEF ExitGoesOn, ExitInv, ExitTypes
    <3> QED BY <3>1, <3>2, <3>3 DEF ExitInv, ExitTypes
  <2>3. ASSUME NEW q \in Positions \ raced' PROVE AskedOnce(q)'
    <3>1. q \in Positions \ raced /\ AskedOnce(q)
      BY <1>4, <2>3 DEF ExitGoesOn, ExitInv
    <3>2. CASE q = p
      <4>1. decisions[p] = 0
        BY <1>4, <3>1, <3>2 DEF ExitGoesOn, AskedOnce, ExitInv, ExitTypes
      <4>2. decisions'[p] = 1
        BY <2>1, <4>1 DEF CountedTwice
      <4> QED BY <1>4, <3>1, <3>2, <4>2 DEF ExitGoesOn, AskedOnce, ExitInv, ExitTypes
    <3>3. CASE q # p
      BY <1>4, <2>1, <3>1, <3>3 DEF ExitGoesOn, AskedOnce, ExitInv, ExitTypes
    <3> QED BY <3>2, <3>3
  <2> QED BY <2>2, <2>3 DEF ExitInv
<1>5. CASE ManagerMonitors
  <2>1. PICK taken \in SUBSET (Open \ pending) : pending' = pending \cup taken /\ Emitted(taken)
    BY <1>5 DEF ManagerMonitors
  <2> QED BY <1>5, <2>1, TakenOnce DEF ManagerMonitors
<1>6. CASE WorkflowMonitors
  <2>1. PICK taken \in SUBSET (Open \ pending) : pending' = pending \cup taken /\ Emitted(taken)
    BY <1>6 DEF WorkflowMonitors, ExitsTaken
  <2> QED BY <1>6, <2>1, TakenOnce DEF WorkflowMonitors
<1>7. CASE ControllerMonitors
  <2>1. PICK taken \in SUBSET (Open \ pending) : pending' = pending \cup taken /\ Emitted(taken)
    BY <1>7 DEF ControllerMonitors, ExitsTaken
  <2> QED BY <1>7, <2>1, TakenOnce DEF ControllerMonitors
<1>8. CASE \/ \E p \in Positions : PriceChanges(p) \/ \E mark \in {"ACTIVE", "PAUSED"} : MarkMonitoring(p, mark)
           \/ \E m \in Monitors : StartMonitor(m) \/ StopMonitor(m)
           \/ UNCHANGED vars
  BY <1>8 DEF PriceChanges, MarkMonitoring, StartMonitor, StopMonitor, vars, ExitInv, ExitTypes, AskedOnce
<1> QED BY <1>1, <1>2, <1>3, <1>4, <1>5, <1>6, <1>7, <1>8 DEF Next

(***************************************************************************)
(* Whoever asks, at most one decision to exit is emitted for a position    *)
(* that is not asked for twice in one turn of the event loop.              *)
(***************************************************************************)
THEOREM ExitDecidedOnce == Spec => []OneExitPerPosition
<1>1. Init => ExitInv
  BY DEF Init, ExitInv, ExitTypes, AskedOnce
<1>2. ExitInv /\ [Next]_vars => ExitInv'
  BY ExitInvStep
<1>3. ExitInv => OneExitPerPosition
  BY DEF ExitInv, AskedOnce, Open, ExitedOnce, OneExitPerPosition
<1> QED BY <1>1, <1>2, <1>3, PTL DEF Spec
-----------------------------------------------------------------------------
(***************************************************************************)
(* The upkeep of the database.  Whoever has finished createSchema(), now   *)
(* or before, has left all the tables, and nobody takes one away.          *)
(***************************************************************************)
UpkeepInv ==
  /\ reached \in [Users -> {"idle", "version", "migrate", "schema", "ready", "run"}]
  /\ created \in 0..2
  /\ initialized => created = 2
  /\ \A u \in Users : reached[u] \in {"ready", "run"} => created = 2

(* Every step of the upkeep keeps the invariant. *)
LEMMA UpkeepInvStep ==
  ASSUME UpkeepInv, [UpkeepNext]_upkeepVars
  PROVE  UpkeepInv'
<1> USE DEF UpkeepInv, Reach, schema, backups, journal
<1>1. ASSUME NEW u \in Users,
             \/ BeginOperation(u) \/ CreateVersionTable(u) \/ MigrateSchema(u) \/ CreateSchema(u)
      PROVE  UpkeepInv'
  BY <1>1 DEF BeginOperation, CreateVersionTable, MigrateSchema, CreateSchema
<1>2. ASSUME NEW u \in Users, Initialized(u) \/ OperationThrows(u) PROVE UpkeepInv'
  BY <1>2 DEF Initialized, OperationThrows
<1>3. ASSUME NEW u \in Users, Operate(u) \/ AddLogEvent(u) \/ CleanupOldEvents(u) PROVE UpkeepInv'
  <2>1. reached' = [reached EXCEPT ![u] = "idle"] /\ UNCHANGED schema
    BY <1>3 DEF Operate, AddLogEvent, CleanupOldEvents, Writes
  <2> QED BY <2>1
<1>4. CASE DayPasses \/ CreateBackup \/ CopyEnds \/ CleanupOldBackups \/ UNCHANGED upkeepVars
  <2>1. UNCHANGED <<reached, created, initialized>>
    BY <1>4 DEF DayPasses, CreateBackup, CopyEnds, CleanupOldBackups, upkeepVars
  <2> QED BY <2>1
<1>5. CASE CloseDatabase \/ RestartProcess
  BY <1>5 DEF CloseDatabase, RestartProcess
<1> QED BY <1>1, <1>2, <1>3, <1>4, <1>5 DEF UpkeepNext

(***************************************************************************)
(* An operation gets to its statements only when all the tables are there, *)
(* for any number of callers, whichever of them created the tables.        *)
(***************************************************************************)
THEOREM TablesComeFirst == UpkeepSpec => []TablesBeforeStatements
<1>1. UpkeepInit => UpkeepInv
  BY DEF UpkeepInit, UpkeepInv
<1>2. UpkeepInv /\ [UpkeepNext]_upkeepVars => UpkeepInv'
  BY UpkeepInvStep
<1>3. UpkeepInv => TablesBeforeStatements
  BY DEF UpkeepInv, TablesBeforeStatements
<1> QED BY <1>1, <1>2, <1>3, PTL DEF UpkeepSpec
-----------------------------------------------------------------------------
(***************************************************************************)
(* The rows of the database.  What a row is, besides what it refers to:    *)
(* a position that is closed has a trade as its exit, not none.            *)
(***************************************************************************)
RowTypes ==
  /\ \A t \in DOMAIN trades : trades[t] \in [pool : DbPools, token : DbTokens]
  /\ \A p \in DOMAIN positions :
       positions[p] \in [token : DbTokens, entry : DbTrades, exit : DbTrades \cup {NoTrade},
                        status : {"OPEN", "CLOSED"}]

RowInv == RowTypes /\ RecordsAreLinked

(* A statement that only adds rows that nothing refers to keeps the links. *)
LEMMA LinksSurvive ==
  ASSUME RowInv, tokens \subseteq tokens', pools' = pools, UNCHANGED <<trades, positions>>
  PROVE  RowInv'
BY DEF RowInv, RowTypes, RecordsAreLinked, PoolRefers, TradeRefers

(* Every step of the database keeps the links. *)
LEMMA RowInvStep ==
  ASSUME RowInv, [DbNext]_dbVars
  PROVE  RowInv'
<1> USE DEF Statement, tables
<1>1. ASSUME NEW c \in Clients, NEW t \in DbTokens, AddToken(c, t) PROVE RowInv'
  BY <1>1, LinksSurvive DEF AddToken
<1>2. ASSUME NEW c \in Clients, NEW p \in DbPools, NEW n \in 1..2, AddPlaceholder(c, p, n)
      PROVE  RowInv'
  BY <1>2, LinksSurvive DEF AddPlaceholder
<1>3. ASSUME NEW c \in Clients, NEW p \in DbPools, AddPool(c, p) \/ UpsertLiquidityPool(c, p)
      PROVE  RowInv'
  BY <1>3 DEF AddPool, UpsertLiquidityPool, RowInv, RowTypes, RecordsAreLinked, PoolRefers, TradeRefers
<1>4. ASSUME NEW c \in Clients, NEW t \in DbTrades, AddTrade(c, t) PROVE RowInv'
  <2>1. PICK r \in [pool : DbPools, token : DbTokens] : TradeRefers(r) /\ trades' = Put(trades, t, r)
    BY <1>4 DEF AddTrade
  <2>2. /\ DOMAIN trades' = DOMAIN trades \cup {t}
        /\ \A u \in DOMAIN trades' : trades'[u] = IF u = t THEN r ELSE trades[u]
        /\ UNCHANGED <<tokens, pools, positions>>
    BY <1>4, <2>1 DEF AddTrade, Put
  <2> QED BY <2>1, <2>2 DEF RowInv, RowTypes, RecordsAreLinked, PoolRefers, TradeRefers
<1>5. ASSUME NEW c \in Clients, NEW p \in DbPositions, AddPosition(c, p) PROVE RowInv'
  <2>1. PICK r \in [token : DbTokens, entry : DbTrades, exit : {NoTrade}, status : {"OPEN"}] :
          PositionRefers(r) /\ positions' = Put(positions, p, r)
    BY <1>5 DEF AddPosition
  <2>2. /\ DOMAIN positions' = DOMAIN positions \cup {p}
        /\ \A q \in DOMAIN positions' : positions'[q] = IF q = p THEN r ELSE positions[q]
        /\ UNCHANGED <<tokens, pools, trades>>
    BY <1>5, <2>1 DEF AddPosition, Put
  <2> QED BY <2>1, <2>2
         DEF RowInv, RowTypes, RecordsAreLinked, PoolRefers, TradeRefers, PositionRefers
<1>6. ASSUME NEW c \in Clients, NEW p \in DbPositions, CloseRowOf(c, p) PROVE RowInv'
  <2>1. CASE ~Closable(p)
    BY <1>6, <2>1, LinksSurvive DEF CloseRowOf
  <2>2. CASE Closable(p)
    <3>1. PICK e \in DbTrades :
            LET r == [positions[p] EXCEPT !.exit = e, !.status = "CLOSED"]
            IN  PositionRefers(r) /\ positions' = [positions EXCEPT ![p] = r]
      BY <1>6, <2>2 DEF CloseRowOf
    <3> DEFINE r == [positions[p] EXCEPT !.exit = e, !.status = "CLOSED"]
    <3>2. /\ p \in DOMAIN positions
          /\ r \in [token : DbTokens, entry : DbTrades, exit : DbTrades \cup {NoTrade},
                    status : {"OPEN", "CLOSED"}]
          /\ r.exit = e
      BY <2>2 DEF Closable, RowInv, RowTypes
    <3>3. e \in DOMAIN trades /\ r.token \in tokens /\ r.entry \in DOMAIN trades
      BY <3>1, <3>2, NoTradeAssumption DEF PositionRefers
    <3>4. DOMAIN positions' = DOMAIN positions
          /\ \A q \in DOMAIN positions : positions'[q] = IF q = p THEN r ELSE positions[q]
      BY <3>1
    <3> HIDE DEF r
    <3>5. UNCHANGED <<tokens, pools, trades>>
      BY <1>6 DEF CloseRowOf
    <3> QED BY <3>2, <3>3, <3>4, <3>5 DEF RowInv, RowTypes, RecordsAreLinked, PoolRefers, TradeRefers
  <2> QED BY <2>1, <2>2
<1>7. ASSUME NEW c \in Clients,
             \/ CallOperation(c) \/ OperationFails(c) \/ CountOpen(c) \/ CountClosed(c)
             \/ ReadOrVerifyToken(c) \/ ReadOrUpdatePool(c) \/ ReadOrUpdateTrade(c)
             \/ ReadPositions(c) \/ ReadAllRows(c)
      PROVE  RowInv'
  <2>1. UNCHANGED tables
    BY <1>7 DEF CallOperation, OperationFails, CountOpen, CountClosed, ReadOrVerifyToken,
       ReadOrUpdatePool, ReadOrUpdateTrade, ReadPositions, ReadAllRows, LeavesReferences
  <2> QED BY <2>1, LinksSurvive
<1>8. ASSUME NEW c \in Clients, NEW p \in DbPools, AddLiquidityPool(c, p) PROVE RowInv'
  BY <1>8, LinksSurvive DEF AddLiquidityPool
<1>9. CASE Close \/ Restart \/ UNCHANGED dbVars
  BY <1>9, LinksSurvive DEF Close, Restart, dbVars
<1> QED BY <1>1, <1>2, <1>3, <1>4, <1>5, <1>6, <1>7, <1>8, <1>9 DEF DbNext

(***************************************************************************)
(* From every position the tables lead to its trades, their pools and the  *)
(* tokens of those, whatever is refused and wherever the process dies.     *)
(***************************************************************************)
THEOREM RowsLinked == DbSpec => []RecordsAreLinked
<1>1. DbInit => RowInv
  BY DEF DbInit, Empty, RowInv, RowTypes, RecordsAreLinked
<1>2. RowInv /\ [DbNext]_dbVars => RowInv'
  BY RowInvStep
<1>3. RowInv => RecordsAreLinked
  BY DEF RowInv
<1> QED BY <1>1, <1>2, <1>3, PTL DEF DbSpec
(***************************************************************************)
(* A position is closed once: no later statement, of whatever client, and  *)
(* no restart takes its row away or changes its exit.                      *)
(***************************************************************************)
THEOREM ClosedForGood == DbSpec => ClosedRowsStay
<1> DEFINE Stays == \A p \in DOMAIN positions :
                      /\ p \in DOMAIN positions'
                      /\ positions[p].status = "CLOSED" => positions'[p] = positions[p]
<1>1. ASSUME [DbNext]_dbVars PROVE Stays
  <2>1. CASE UNCHANGED positions
    BY <2>1
  <2>2. ASSUME NEW c \in Clients, NEW p \in DbPositions, AddPosition(c, p) PROVE Stays
    BY <2>2 DEF AddPosition, Put
  <2>3. ASSUME NEW c \in Clients, NEW p \in DbPositions, CloseRowOf(c, p) PROVE Stays
    BY <2>3 DEF CloseRowOf, Closable
  <2>4. ASSUME NEW c \in Clients, NEW p \in DbPools, NEW n \in 1..2, AddPlaceholder(c, p, n)
        PROVE  UNCHANGED positions
    BY <2>4 DEF AddPlaceholder
  <2>5. ASSUME NEW c \in Clients, NEW p \in DbPools,
               AddLiquidityPool(c, p) \/ AddPool(c, p) \/ UpsertLiquidityPool(c, p)
        PROVE  UNCHANGED positions
    BY <2>5 DEF AddLiquidityPool, AddPool, UpsertLiquidityPool, Statement, tables
  <2>6. ASSUME NEW c \in Clients,
               \/ CallOperation(c) \/ OperationFails(c) \/ CountOpen(c) \/ CountClosed(c)
               \/ ReadOrVerifyToken(c) \/ ReadOrUpdatePool(c) \/ ReadOrUpdateTrade(c)
               \/ ReadPositions(c) \/ ReadAllRows(c)
        PROVE  UNCHANGED positions
    BY <2>6 DEF CallOperation, OperationFails, CountOpen, CountClosed, ReadOrVerifyToken,
       ReadOrUpdatePool, ReadOrUpdateTrade, ReadPositions, ReadAllRows, LeavesReferences, tables
  <2>7. ASSUME NEW c \in Clients, \/ \E t \in DbTokens : AddToken(c, t)
                                  \/ \E t \in DbTrades : AddTrade(c, t)
        PROVE  UNCHANGED positions
    BY <2>7 DEF AddToken, AddTrade
  <2>8. CASE Close \/ Restart \/ UNCHANGED dbVars
    BY <2>1, <2>8 DEF Close, Restart, dbVars, tables
  <2> HIDE DEF Stays
  <2> QED BY <1>1, <2>1, <2>2, <2>3, <2>4, <2>5, <2>6, <2>7, <2>8 DEF DbNext
<1>2. [DbNext]_dbVars =>
        [\A p \in DOMAIN positions :
           p \in DOMAIN positions' /\ (positions[p].status = "CLOSED" => positions'[p] = positions[p])]_dbVars
  BY <1>1
<1> HIDE DEF Stays
<1> QED BY <1>2, PTL DEF DbSpec, ClosedRowsStay
-----------------------------------------------------------------------------
(***************************************************************************)
(* What is told of a token.  An answer of the database or of the chain is  *)
(* less than a window old when it is given, and waits for the price no     *)
(* longer than a call takes; so is what the cache keeps, which it does for *)
(* less than another window before a call is given it.                     *)
(***************************************************************************)
FoundInfo == [risk : Nat, symbol : BOOLEAN, age : Nat, asOf : Nat, token : TokensOfPools]

InfoTypes ==
  /\ waited \in [Evaluations -> 0..MaxLatency]
  /\ row \in [TokensOfPools -> Nat \cup {Unknown}]
  /\ entry \in [TokensOfPools -> [found : FoundInfo, left : 1..Window] \cup {Unknown}]
  /\ pool \in [Evaluations -> TokenPools \cup {Unknown}]
  /\ at \in [Evaluations -> [Sides -> {"chain", "price", "done"}]]
  /\ info \in [Evaluations -> [Sides -> FoundInfo \cup {Unknown}]]

(* What the cache keeps of a token. *)
CachedRecently(t) ==
  entry[t] # Unknown => entry[t].found.asOf + entry[t].left <= 2 * Window - 1 + MaxLatency

(* What an evaluation knows of a token of its pool. *)
KnownRecently(e, n) ==
  /\ at[e][n] = "price" => /\ info[e][n] \in FoundInfo
                           /\ info[e][n].asOf <= Window - 1 + waited[e]
  /\ at[e][n] = "done" /\ info[e][n] # Unknown
       => info[e][n].asOf <= 2 * (Window - 1) + MaxLatency + waited[e]

InfoInv ==
  /\ InfoTypes
  /\ \A t \in TokensOfPools : CachedRecently(t)
  /\ \A e \in Evaluations :
       IF pool[e] = Unknown THEN waited[e] = 0 /\ \A n \in Sides : at[e][n] = "done"
                            ELSE \A n \in Sides : KnownRecently(e, n)


(* Every step of what is told of a token keeps the invariant. *)
LEMMA InfoInvStep ==
  ASSUME InfoInv, [InfoNext]_infoVars
  PROVE  InfoInv'
<1>1. ASSUME NEW e \in Evaluations, NEW p \in TokenPools, HandleNewPool(e, p) PROVE InfoInv'
  <2> DEFINE A(n) == Asked(p[n], FirstSeen(p[n]))
  <2>1. ASSUME NEW n \in Sides
        PROVE  /\ p[n] \in TokensOfPools
               /\ A(n).to \in {"done", "price", "chain"}
               /\ A(n).found \in FoundInfo \cup {Unknown}
               /\ A(n).to = "price" => /\ A(n).found \in FoundInfo
                                       /\ A(n).found.asOf <= Window - 1
               /\ A(n).to = "done" => A(n).found.asOf <= 2 * (Window - 1) + MaxLatency
    <3>1. p[n] \in TokensOfPools
      BY DEF TokensOfPools
    <3>2. FirstSeen(p[n]) \in Nat
      BY <3>1 DEF FirstSeen, InfoInv, InfoTypes
    <3>3. CASE EntryIsYoung(p[n])
      <4>1. /\ entry[p[n]] \in [found : FoundInfo, left : 1..Window]
            /\ entry[p[n]].found.asOf + entry[p[n]].left <= 2 * Window - 1 + MaxLatency
        BY <3>1, <3>3 DEF EntryIsYoung, InfoInv, InfoTypes, CachedRecently
      <4>2. A(n) = [to |-> "done", found |-> entry[p[n]].found]
        BY <3>3 DEF Asked
      <4>3. entry[p[n]].found.asOf \in Nat /\ entry[p[n]].left \in 1..Window
        BY <4>1 DEF FoundInfo
      <4> QED BY <3>1, <4>1, <4>2, <4>3, WindowAssumption
    <3>4. CASE ~EntryIsYoung(p[n]) /\ RowIsFresh(FirstSeen(p[n]))
      <4>1. A(n) = [to |-> "price", found |-> FromRow(p[n], FirstSeen(p[n]))]
        BY <3>4 DEF Asked
      <4>2. FromRow(p[n], FirstSeen(p[n])) \in FoundInfo
        BY <3>1, <3>2 DEF FromRow, FoundInfo, TokenRiskScore, AgePoints
      <4>3. FromRow(p[n], FirstSeen(p[n])).asOf <= Window - 1
        BY <3>2, <3>4, WindowAssumption DEF FromRow, RowIsFresh
      <4> QED BY <3>1, <4>1, <4>2, <4>3
    <3>5. CASE ~EntryIsYoung(p[n]) /\ ~RowIsFresh(FirstSeen(p[n]))
      BY <3>1, <3>5 DEF Asked
    <3> QED BY <3>3, <3>4, <3>5
  <2>2. /\ pool' = [pool EXCEPT ![e] = p] /\ pool[e] = Unknown
        /\ at' = [at EXCEPT ![e] = [n \in Sides |-> A(n).to]]
        /\ info' = [info EXCEPT ![e] = [n \in Sides |-> A(n).found]]
        /\ UNCHANGED <<waited, entry>>
    BY <1>1 DEF HandleNewPool
  <2>3. row' \in [TokensOfPools -> Nat \cup {Unknown}]
    BY <1>1 DEF HandleNewPool, PoolRowOf, FirstSeen, InfoInv, InfoTypes
  <2> HIDE DEF A
  <2>4. InfoTypes'
    BY <2>1, <2>2, <2>3 DEF InfoInv, InfoTypes
  <2>5. ASSUME NEW t \in TokensOfPools PROVE CachedRecently(t)'
    BY <2>2 DEF InfoInv, CachedRecently
  <2>6. ASSUME NEW n \in Sides PROVE KnownRecently(e, n)'
    <3>1. at'[e][n] = A(n).to /\ info'[e][n] = A(n).found /\ waited'[e] = 0
      BY <2>2 DEF InfoInv, InfoTypes
    <3> QED BY <2>1, <3>1, WindowAssumption DEF KnownRecently
  <2>7. ASSUME NEW f \in Evaluations, f # e, NEW n \in Sides
        PROVE  at'[f] = at[f] /\ info'[f] = info[f] /\ waited'[f] = waited[f] /\ pool'[f] = pool[f]
    BY <2>2, <2>7 DEF InfoInv, InfoTypes
  <2>8. pool'[e] # Unknown
    BY <2>2, UnknownAssumption DEF InfoInv, InfoTypes
  <2> QED BY <2>4, <2>5, <2>6, <2>7, <2>8 DEF InfoInv, KnownRecently, Sides
<1>2. ASSUME NEW e \in Evaluations, NEW n \in Sides, ReadChain(e, n) PROVE InfoInv'
  <2>1. /\ UNCHANGED <<waited, row, entry, pool>> /\ pool[e] # Unknown
        /\ pool[e] \in TokenPools
    BY <1>2 DEF ReadChain, InfoInv, InfoTypes
  <2>2. ASSUME NEW s \in {"done", "price"}, NEW f \in FoundInfo \cup {Unknown}, Found(e, n, s, f),
               IF s = "done" THEN f = Unknown ELSE f \in FoundInfo /\ f.asOf = 0
        PROVE  InfoInv'
    <3>1. InfoTypes'
      BY <2>1, <2>2 DEF Found, InfoInv, InfoTypes
    <3>2. waited[e] \in Nat /\ Window \in Nat \ {0}
      BY WindowAssumption DEF InfoInv, InfoTypes
    <3>3. ASSUME NEW g \in Evaluations, NEW m \in Sides, pool[g] # Unknown
          PROVE  KnownRecently(g, m)'
      BY <2>1, <2>2, <3>2, <3>3 DEF Found, InfoInv, InfoTypes, KnownRecently
    <3>4. ASSUME NEW g \in Evaluations, pool[g] = Unknown, NEW m \in Sides
          PROVE  waited'[g] = 0 /\ at'[g][m] = "done"
      BY <2>1, <2>2, <3>4 DEF Found, InfoInv, InfoTypes
    <3>5. ASSUME NEW t \in TokensOfPools PROVE CachedRecently(t)'
      BY <2>1 DEF InfoInv, CachedRecently
    <3> QED BY <2>1, <3>1, <3>3, <3>4, <3>5 DEF InfoInv
  <2>3. CASE Found(e, n, "done", Unknown)
    BY <2>2, <2>3
  <2>4. CASE \E f \in FromChain(pool[e][n]) : Found(e, n, "price", f)
    <3>1. PICK f \in FromChain(pool[e][n]) : Found(e, n, "price", f)
      BY <2>4
    <3>2. pool[e][n] \in TokensOfPools
      BY <2>1 DEF TokensOfPools
    <3>3. \E s \in {Unknown, 0, 2}, h \in {Unknown, 0, 3} :
            f = [risk |-> TokenRiskScore(s, h, 0, FALSE), symbol |-> FALSE,
                 age |-> 0, asOf |-> 0, token |-> pool[e][n]]
      BY <3>1 DEF FromChain
    <3>4. \A s \in {Unknown, 0, 2}, h \in {Unknown, 0, 3} : TokenRiskScore(s, h, 0, FALSE) \in Nat
      <4> SUFFICES ASSUME NEW s \in {Unknown, 0, 2}, NEW h \in {Unknown, 0, 3}
                   PROVE  TokenRiskScore(s, h, 0, FALSE) \in Nat
        OBVIOUS
      <4> DEFINE sp == IF s = Unknown THEN 1 ELSE s
                 hp == IF h = Unknown THEN 2 ELSE h
      <4>1. 0 \in Nat /\ 1 \in Nat /\ 2 \in Nat /\ 3 \in Nat
        BY SMT
      <4>2. sp \in Nat /\ hp \in Nat
        BY <4>1, Zenon
      <4>3. AgePoints(0) \in Nat
        BY <4>1, Zenon DEF AgePoints
      <4>4. TokenRiskScore(s, h, 0, FALSE) = sp + hp + AgePoints(0) + 2 + 1
        BY DEF TokenRiskScore
      <4> HIDE DEF sp, hp
      <4>5. sp + hp + AgePoints(0) + 2 + 1 \in Nat
        BY <4>2, <4>3, SMT
      <4> QED BY <4>4, <4>5, Zenon
    <3>5. f \in FoundInfo /\ f.asOf = 0
      <4>1. PICK s \in {Unknown, 0, 2}, h \in {Unknown, 0, 3} :
              f = [risk |-> TokenRiskScore(s, h, 0, FALSE), symbol |-> FALSE,
                   age |-> 0, asOf |-> 0, token |-> pool[e][n]]
        BY <3>3
      <4>2. TokenRiskScore(s, h, 0, FALSE) \in Nat
        BY <3>4
      <4> QED BY <3>2, <4>1, <4>2 DEF FoundInfo
    <3> QED BY <2>2, <3>1, <3>5
  <2> QED BY <1>2, <2>3, <2>4 DEF ReadChain
<1>3. ASSUME NEW e \in Evaluations, NEW n \in Sides, ReadPrice(e, n) PROVE InfoInv'
  <2>1. /\ at[e][n] = "price" /\ pool[e] # Unknown /\ pool[e] \in TokenPools
        /\ UNCHANGED <<waited, row, pool>>
        /\ at' = [at EXCEPT ![e][n] = "done"]
        /\ info' = [info EXCEPT ![e][n] = info[e][n]]
        /\ entry' = [entry EXCEPT ![pool[e][n]] = [found |-> info[e][n], left |-> Window]]
    BY <1>3 DEF ReadPrice, Found, InfoInv, InfoTypes
  <2>2. /\ info[e][n] \in FoundInfo /\ info[e][n].asOf \in Nat
        /\ info[e][n].asOf <= Window - 1 + waited[e]
        /\ waited[e] \in 0..MaxLatency /\ Window \in 1..Window /\ MaxLatency \in Nat
    BY <2>1, WindowAssumption DEF InfoInv, InfoTypes, KnownRecently, FoundInfo
  <2>3. pool[e][n] \in TokensOfPools
    BY <2>1 DEF TokensOfPools
  <2>4. info' = info
    BY <2>1 DEF InfoInv, InfoTypes
  <2>5. InfoTypes'
    BY <2>1, <2>2, <2>3, <2>4 DEF InfoInv, InfoTypes
  <2>6. ASSUME NEW t \in TokensOfPools PROVE CachedRecently(t)'
    <3>1. CASE t = pool[e][n]
      <4>1. entry'[t] = [found |-> info[e][n], left |-> Window]
        BY <2>1, <3>1 DEF InfoInv, InfoTypes
      <4> QED BY <2>2, <4>1 DEF CachedRecently
    <3>2. CASE t # pool[e][n]
      BY <2>1, <3>2 DEF InfoInv, InfoTypes, CachedRecently
    <3> QED BY <3>1, <3>2
  <2>7. ASSUME NEW g \in Evaluations, NEW m \in Sides, pool[g] # Unknown
        PROVE  KnownRecently(g, m)'
    <3>1. CASE g = e /\ m = n
      BY <2>1, <2>2, <2>4, <3>1 DEF InfoInv, InfoTypes, KnownRecently
    <3>2. CASE ~(g = e /\ m = n)
      BY <2>1, <2>4, <2>7, <3>2 DEF InfoInv, InfoTypes, KnownRecently
    <3> QED BY <3>1, <3>2
  <2>8. ASSUME NEW g \in Evaluations, pool[g] = Unknown, NEW m \in Sides
        PROVE  waited'[g] = 0 /\ at'[g][m] = "done"
    BY <2>1, <2>8 DEF InfoInv, InfoTypes
  <2> QED BY <2>1, <2>5, <2>6, <2>7, <2>8 DEF InfoInv
<1>4. ASSUME NEW e \in Evaluations, EvaluatePool(e) PROVE InfoInv'
  BY <1>4, WindowAssumption DEF EvaluatePool, InfoInv, InfoTypes, CachedRecently, KnownRecently
<1>5. CASE Ticks
  <2>1. /\ waited' = [e \in Evaluations |-> IF pool[e] = Unknown THEN 0 ELSE waited[e] + 1]
        /\ row' = [t \in TokensOfPools |-> IF row[t] = Unknown THEN Unknown ELSE Older(row[t])]
        /\ entry' = [t \in TokensOfPools |->
                       IF entry[t] = Unknown \/ entry[t].left = 1 THEN Unknown
                       ELSE [found |-> AsOfOlder(entry[t].found), left |-> entry[t].left - 1]]
        /\ info' = [e \in Evaluations |-> [n \in Sides |-> AsOfOlder(info[e][n])]]
        /\ UNCHANGED <<pool, at>>
        /\ \A e \in Evaluations : pool[e] # Unknown => waited[e] < MaxLatency
    BY <1>5 DEF Ticks
  <2>2. ASSUME NEW f \in FoundInfo
        PROVE  AsOfOlder(f) \in FoundInfo /\ AsOfOlder(f).asOf \in f.asOf..(f.asOf + 1)
    BY WindowAssumption DEF AsOfOlder, FoundInfo, Older, Oldest, ToldWithin
  <2>3. ASSUME NEW a \in Nat PROVE Older(a) \in Nat
    BY WindowAssumption DEF Older, Oldest, ToldWithin
  <2>4. ASSUME NEW e \in Evaluations, NEW n \in Sides
        PROVE  /\ info'[e][n] = AsOfOlder(info[e][n])
               /\ info[e][n] = Unknown => info'[e][n] = Unknown
               /\ info[e][n] # Unknown => info[e][n] \in FoundInfo /\ info[e][n].asOf \in Nat
    BY <2>1 DEF AsOfOlder, InfoInv, InfoTypes, FoundInfo
  <2>5. ASSUME NEW t \in TokensOfPools, entry'[t] # Unknown
        PROVE  /\ entry[t] # Unknown /\ entry[t] \in [found : FoundInfo, left : 1..Window]
               /\ entry[t].left - 1 \in 1..Window
               /\ entry[t].found \in FoundInfo /\ entry[t].found.asOf \in Nat
               /\ entry'[t] = [found |-> AsOfOlder(entry[t].found), left |-> entry[t].left - 1]
    <3>1. entry[t] # Unknown /\ entry[t].left # 1
      BY <2>1, <2>5
    <3>2. entry[t] \in [found : FoundInfo, left : 1..Window]
      BY <3>1 DEF InfoInv, InfoTypes
    <3> QED BY <2>1, <3>1, <3>2, WindowAssumption DEF FoundInfo
  <2>6. InfoTypes'
    <3>1. waited' \in [Evaluations -> 0..MaxLatency]
      BY <2>1, WindowAssumption DEF InfoInv, InfoTypes
    <3>2. row' \in [TokensOfPools -> Nat \cup {Unknown}]
      BY <2>1, <2>3 DEF InfoInv, InfoTypes
    <3>3. entry' \in [TokensOfPools -> [found : FoundInfo, left : 1..Window] \cup {Unknown}]
      BY <2>1, <2>2, <2>5
    <3>4. info' \in [Evaluations -> [Sides -> FoundInfo \cup {Unknown}]]
      BY <2>1, <2>2, <2>4
    <3> QED BY <2>1, <3>1, <3>2, <3>3, <3>4 DEF InfoInv, InfoTypes
  <2>7. ASSUME NEW t \in TokensOfPools PROVE CachedRecently(t)'
    <3> SUFFICES ASSUME entry'[t] # Unknown
                 PROVE  entry'[t].found.asOf + entry'[t].left <= 2 * Window - 1 + MaxLatency
      BY DEF CachedRecently
    <3>1. entry[t].found.asOf + entry[t].left <= 2 * Window - 1 + MaxLatency
      BY <2>5 DEF InfoInv, CachedRecently
    <3>2. AsOfOlder(entry[t].found).asOf \in entry[t].found.asOf..(entry[t].found.asOf + 1)
      BY <2>2, <2>5
    <3>5. entry'[t] = [found |-> AsOfOlder(entry[t].found), left |-> entry[t].left - 1]
      BY <2>5
    <3>3. entry'[t].found.asOf = AsOfOlder(entry[t].found).asOf /\ entry'[t].left = entry[t].left - 1
      BY <3>5
    <3>6. entry[t].found.asOf \in Nat /\ entry[t].left - 1 \in 1..Window
      BY <2>5
    <3>7. entry[t] \in [found : FoundInfo, left : 1..Window]
      BY <2>5
    <3>4. entry[t].found.asOf \in Nat /\ entry[t].left \in Nat
      BY <3>6, <3>7
    <3> QED BY <3>1, <3>2, <3>3, <3>4, WindowAssumption
  <2>8. ASSUME NEW e \in Evaluations, NEW n \in Sides, pool[e] # Unknown
        PROVE  KnownRecently(e, n)'
    <3>1. KnownRecently(e, n) /\ waited[e] \in Nat /\ waited'[e] = waited[e] + 1
      BY <2>1, <2>8 DEF InfoInv, InfoTypes
    <3>2. CASE info[e][n] = Unknown /\ at[e][n] # "price"
      BY <2>1, <2>4, <3>2 DEF KnownRecently
    <3>3. CASE info[e][n] \in FoundInfo
      <4>1. info'[e][n] \in FoundInfo /\ info'[e][n].asOf \in info[e][n].asOf..(info[e][n].asOf + 1)
        BY <2>2, <2>4, <3>3
      <4>2. info[e][n].asOf \in Nat
        BY <3>3 DEF FoundInfo
      <4>3. info'[e][n] # Unknown => info[e][n] # Unknown
        BY <2>4
      <4> QED BY <2>1, <3>1, <4>1, <4>2, <4>3, WindowAssumption DEF KnownRecently
    <3> QED BY <2>4, <3>1, <3>2, <3>3 DEF KnownRecently
  <2>9. ASSUME NEW e \in Evaluations, pool[e] = Unknown, NEW n \in Sides
        PROVE  waited'[e] = 0 /\ at'[e][n] = "done"
    BY <2>1, <2>9 DEF InfoInv, InfoTypes
  <2> QED BY <2>1, <2>6, <2>7, <2>8, <2>9 DEF InfoInv
<1>6. CASE UNCHANGED infoVars
  BY <1>6 DEF infoVars, InfoInv, InfoTypes, CachedRecently, KnownRecently
<1> QED BY <1>1, <1>2, <1>3, <1>4, <1>5, <1>6 DEF InfoNext

(***************************************************************************)
(* What an evaluation is told of a token was true at most two windows and  *)
(* the time of two calls ago, for any window, latency and pools.           *)
(***************************************************************************)
THEOREM AnswersNotStale == InfoSpec => []AnswersAreRecent
<1>1. InfoInit => InfoInv
  BY WindowAssumption DEF InfoInit, InfoInv, InfoTypes, CachedRecently, Oldest, ToldWithin
<1>2. InfoInv /\ [InfoNext]_infoVars => InfoInv'
  BY InfoInvStep
<1>3. InfoInv => AnswersAreRecent
  <2> SUFFICES ASSUME InfoInv, NEW e \in Evaluations, NEW n \in Sides,
                      pool[e] # Unknown, at[e][n] = "done", info[e][n] # Unknown
               PROVE  info[e][n].asOf <= ToldWithin
    BY DEF AnswersAreRecent
  <2>1. info[e][n] \in FoundInfo /\ waited[e] \in 0..MaxLatency
    BY DEF InfoInv, InfoTypes
  <2>2. info[e][n].asOf <= 2 * (Window - 1) + MaxLatency + waited[e]
    BY DEF InfoInv, KnownRecently
  <2>3. info[e][n].asOf \in Nat
    BY <2>1 DEF FoundInfo
  <2> QED BY <2>1, <2>2, <2>3, WindowAssumption DEF ToldWithin
<1> QED BY <1>1, <1>2, <1>3, PTL DEF InfoSpec
-----------------------------------------------------------------------------
(***************************************************************************)
(* Recovery from errors.  The flag is set by the one error that is being   *)
(* recovered from, and it is that error that takes it back.                *)
(***************************************************************************)
Recovering == { e \in Errors : phase[e] \in {"recovering", "pausing"} }

RecoveryInv ==
  /\ phase \in [Errors -> Phases]
  /\ recoveryInProgress \in BOOLEAN
  /\ IF recoveryInProgress THEN \E e \in Errors : Recovering = {e} ELSE Recovering = {}

(* The attempt that the workflow waits for is of an error that it handles. *)
DirectWaits ==
  /\ phase \in [Errors -> Phases]
  /\ waiting \in [Errors -> [routed : BOOLEAN, direct : BOOLEAN, later : Nat]]
  /\ \A e \in Errors : waiting[e].direct => phase[e] = "handling"

(* Every step keeps that: handling ends only with the attempt that is waited for. *)
LEMMA DirectWaitsStep ==
  ASSUME DirectWaits, [ErrorNext]_errorVars
  PROVE  DirectWaits'
<1>1. ASSUME NEW inner \in SUBSET Errors, NEW leaves \in SUBSET Errors, NEW comp \in Components,
             NEW fix \in BOOLEAN, NEW rec \in BOOLEAN, NEW first \in inner \cup leaves,
             Raise(first, inner, leaves, comp, fix, rec)
      PROVE  DirectWaits'
  <2> DEFINE raised == inner \cup leaves
             Both(e) == e \in inner /\ fix
  <2>1. /\ waiting' = [e \in Errors |->
                         IF e \in raised
                         THEN [routed |-> Both(e), direct |-> Both(e), later |-> 0]
                         ELSE waiting[e]]
        /\ phase' = [e \in Errors |-> IF e \notin raised THEN phase[e]
                                      ELSE IF Both(e) THEN "handling" ELSE "handled"]
    BY <1>1 DEF Raise
  <2>2. \A e \in Errors : Both(e) \in BOOLEAN
    OBVIOUS
  <2> HIDE DEF raised, Both
  <2>3. phase' \in [Errors -> Phases]
    BY <2>1 DEF DirectWaits, Phases
  <2>4. waiting' \in [Errors -> [routed : BOOLEAN, direct : BOOLEAN, later : Nat]]
    BY <2>1, <2>2 DEF DirectWaits
  <2>5. ASSUME NEW e \in Errors, waiting'[e].direct PROVE phase'[e] = "handling"
    BY <2>1, <2>5 DEF DirectWaits
  <2> QED BY <2>3, <2>4, <2>5 DEF DirectWaits
<1>2. ASSUME NEW e \in Errors, RoutedEnds(e) PROVE DirectWaits'
  BY <1>2 DEF RoutedEnds, DirectWaits
<1>3. ASSUME NEW e \in Errors, LaterEnds(e) PROVE DirectWaits'
  BY <1>3 DEF LaterEnds, DirectWaits
<1>4. ASSUME NEW e \in Errors, ScheduledStarts(e) PROVE DirectWaits'
  BY <1>4 DEF ScheduledStarts, DirectWaits
<1>5. ASSUME NEW e \in Errors, DirectEnds(e) PROVE DirectWaits'
  <2>1. /\ phase' = [phase EXCEPT ![e] = IF Repaired(e) THEN "over" ELSE "handled"]
        /\ waiting' = [waiting EXCEPT ![e].direct = FALSE]
    BY <1>5 DEF DirectEnds
  <2> QED BY <2>1 DEF DirectWaits, Phases
<1>6. ASSUME NEW e \in Errors,
             AttemptRecovery(e) \/ Dropped(e) \/ ActionEnds(e) \/ PauseEnds(e)
      PROVE  DirectWaits'
  <2>1. waiting' = waiting /\ phase[e] # "handling"
    BY <1>6 DEF AttemptRecovery, Dropped, ActionEnds, PauseEnds, ofHandler
  <2>2. \E s \in Phases : phase' = [phase EXCEPT ![e] = s]
    BY <1>6 DEF AttemptRecovery, Dropped, ActionEnds, PauseEnds, RecoveryEnds, Phases
  <2> QED BY <2>1, <2>2 DEF DirectWaits
<1>7. CASE UNCHANGED errorVars
  BY <1>7 DEF errorVars, ofHandler, DirectWaits
<1> QED BY <1>1, <1>2, <1>3, <1>4, <1>5, <1>6, <1>7 DEF ErrorNext

(* An error whose handling goes on without a recovery changes nothing. *)
LEMMA OthersRecover ==
  ASSUME RecoveryInv, recoveryInProgress' = recoveryInProgress, phase' \in [Errors -> Phases],
         \A e \in Errors : phase'[e] = phase[e]
                           \/ (e \in Recovering <=> phase'[e] \in {"recovering", "pausing"})
  PROVE  RecoveryInv'
<1>1. Recovering' = Recovering
  BY DEF Recovering
<1> QED BY <1>1 DEF RecoveryInv

(* The end of a recovery, by the error that it is of. *)
LEMMA RecoveryOver ==
  ASSUME RecoveryInv, NEW e \in Errors, NEW n, e \in Recovering, RecoveryEnds(e, n)
  PROVE  RecoveryInv'
<1>1. Recovering = {e}
  BY DEF RecoveryInv
<1>2. phase' = [phase EXCEPT ![e] = "over"] /\ recoveryInProgress' = FALSE
  BY DEF RecoveryEnds
<1>3. phase' \in [Errors -> Phases]
  BY <1>2 DEF RecoveryInv, Phases
<1>4. Recovering' = {}
  BY <1>1, <1>2 DEF Recovering, RecoveryInv
<1> QED BY <1>2, <1>3, <1>4 DEF RecoveryInv

(* Every step of the recovery from errors keeps the invariant. *)
LEMMA RecoveryInvStep ==
  ASSUME RecoveryInv, DirectWaits, [ErrorNext]_errorVars
  PROVE  RecoveryInv'
<1>1. ASSUME NEW inner \in SUBSET Errors, NEW leaves \in SUBSET Errors, NEW comp \in Components,
             NEW fix \in BOOLEAN, NEW rec \in BOOLEAN, NEW first \in inner \cup leaves,
             Raise(first, inner, leaves, comp, fix, rec)
      PROVE  RecoveryInv'
  <2>1. /\ \A e \in inner \cup leaves : phase[e] = "unraised"
        /\ phase' = [e \in Errors |-> IF e \notin inner \cup leaves THEN phase[e]
                                      ELSE IF e \in inner /\ fix THEN "handling" ELSE "handled"]
        /\ UNCHANGED recoveryInProgress
    BY <1>1 DEF Raise, ofWorkflow
  <2>2. phase' \in [Errors -> Phases]
    BY <2>1 DEF RecoveryInv, Phases
  <2>3. \A e \in Errors : phase'[e] = phase[e]
                          \/ (e \in Recovering <=> phase'[e] \in {"recovering", "pausing"})
    BY <2>1 DEF Recovering
  <2> QED BY <2>1, <2>2, <2>3, OthersRecover
<1>2. ASSUME NEW e \in Errors, RoutedEnds(e) \/ LaterEnds(e) \/ ScheduledStarts(e)
      PROVE  RecoveryInv'
  <2>1. UNCHANGED <<phase, recoveryInProgress>>
    BY <1>2 DEF RoutedEnds, LaterEnds, ScheduledStarts, AttemptEnds, ofWorkflow
  <2> QED BY <2>1 DEF RecoveryInv, Recovering
<1>3. ASSUME NEW e \in Errors, AttemptRecovery(e) PROVE RecoveryInv'
  <2>1. /\ ~recoveryInProgress /\ recoveryInProgress' = TRUE
        /\ phase' = [phase EXCEPT ![e] = "recovering"]
    BY <1>3 DEF AttemptRecovery
  <2>2. Recovering' = {e}
    BY <2>1 DEF Recovering, RecoveryInv
  <2>3. phase' \in [Errors -> Phases]
    BY <2>1 DEF RecoveryInv, Phases
  <2> QED BY <2>1, <2>2, <2>3 DEF RecoveryInv
<1>4. ASSUME NEW e \in Errors, Dropped(e) PROVE RecoveryInv'
  <2>1. phase[e] = "handled" /\ phase' = [phase EXCEPT ![e] = "over"] /\ UNCHANGED recoveryInProgress
    BY <1>4 DEF Dropped, ofWorkflow
  <2> QED BY <2>1, OthersRecover DEF Recovering, RecoveryInv, Phases
<1>5. ASSUME NEW e \in Errors, ActionEnds(e) PROVE RecoveryInv'
  <2>1. e \in Recovering
    BY <1>5 DEF ActionEnds, Recovering
  <2>2. CASE RecoveryEnds(e, tries[e] + 1)
    BY <2>1, <2>2, RecoveryOver
  <2>3. CASE phase' = [phase EXCEPT ![e] = "pausing"] /\ UNCHANGED recoveryInProgress
    BY <2>1, <2>3, OthersRecover DEF Recovering, RecoveryInv, Phases
  <2> QED BY <1>5, <2>2, <2>3 DEF ActionEnds
<1>6. ASSUME NEW e \in Errors, PauseEnds(e) PROVE RecoveryInv'
  <2>1. e \in Recovering
    BY <1>6 DEF PauseEnds, Recovering
  <2>2. CASE RecoveryEnds(e, tries[e])
    BY <2>1, <2>2, RecoveryOver
  <2>3. CASE phase' = [phase EXCEPT ![e] = "recovering"] /\ UNCHANGED recoveryInProgress
    BY <2>1, <2>3, OthersRecover DEF Recovering, RecoveryInv, Phases
  <2> QED BY <1>6, <2>2, <2>3 DEF PauseEnds
<1>7. ASSUME NEW e \in Errors, DirectEnds(e) PROVE RecoveryInv'
  <2>1. /\ phase' = [phase EXCEPT ![e] = IF Repaired(e) THEN "over" ELSE "handled"]
        /\ UNCHANGED recoveryInProgress
    BY <1>7 DEF DirectEnds, AttemptEnds, ofWorkflow
  <2>2. phase[e] = "handling"
    BY <1>7 DEF DirectEnds, DirectWaits
  <2> QED BY <2>1, <2>2, OthersRecover DEF Recovering, RecoveryInv, Phases
<1>8. CASE UNCHANGED errorVars
  BY <1>8 DEF errorVars, ofWorkflow, RecoveryInv, Recovering
<1> QED BY <1>1, <1>2, <1>3, <1>4, <1>5, <1>6, <1>7, <1>8 DEF ErrorNext

(***************************************************************************)
(* At most one error is recovered from at a time, and the flag says so.    *)
(***************************************************************************)
THEOREM OneRecovery == ErrorSpec => []RecoveryIsExclusive
<1>1. ErrorInit => RecoveryInv /\ DirectWaits
  <2>1. ErrorInit => RecoveryInv
    BY DEF ErrorInit, RecoveryInv, Recovering, Phases
  <2>2. ErrorInit => DirectWaits
    BY DEF ErrorInit, DirectWaits, Phases
  <2> QED BY <2>1, <2>2
<1>2. RecoveryInv /\ DirectWaits /\ [ErrorNext]_errorVars => RecoveryInv' /\ DirectWaits'
  BY RecoveryInvStep, DirectWaitsStep
<1>3. RecoveryInv => RecoveryIsExclusive
  BY FS_Singleton, FS_EmptySet DEF RecoveryInv, Recovering, RecoveryIsExclusive
<1> QED BY <1>1, <1>2, <1>3, PTL DEF ErrorSpec
-----------------------------------------------------------------------------
(***************************************************************************)
(* The price feed.  A call that looks at the limit is not among those that *)
(* are let through and not counted yet, and finds less than the limit      *)
(* counted: so the others that are let through fill the rest of the bound. *)
(***************************************************************************)
AskStages == {"idle", "fallback", "sentC", "sentB"} \cup Services

FeedInv ==
  /\ current \in [Services -> Nat]
  /\ asking \in [Askers -> [stage : {"idle"}] \cup [stage : AskStages, address : FeedAddresses]]
  /\ RequestsBounded

(* The requests let through are some of the calls. *)
LEMMA UnsentFinite ==
  ASSUME NEW S \in SUBSET Askers
  PROVE  IsFiniteSet(S) /\ Cardinality(S) \in Nat /\ Cardinality(S) <= Cardinality(Askers)
BY FS_Subset, FS_CardinalityType, AskersAssumption

(* What is let through and what is counted stays, or falls. *)
LEMMA BoundStays ==
  ASSUME FeedInv, NEW s \in Services,
         current'[s] \in Nat, current'[s] <= current[s], Unsent(s)' \subseteq Unsent(s)
  PROVE  current'[s] + Cardinality(Unsent(s)') <= Limit[s] + Cardinality(Askers) - 1
<1>1. Unsent(s) \in SUBSET Askers /\ Unsent(s)' \in SUBSET Unsent(s)
  BY DEF Unsent
<1>2. /\ IsFiniteSet(Unsent(s)) /\ Cardinality(Unsent(s)) \in Nat
      /\ Cardinality(Askers) \in Nat /\ Limit[s] \in Nat
  BY <1>1, UnsentFinite, FS_CardinalityType, AskersAssumption, LimitAssumption
<1>3. Cardinality(Unsent(s)') \in Nat /\ Cardinality(Unsent(s)') <= Cardinality(Unsent(s))
  BY <1>1, <1>2, FS_Subset, FS_CardinalityType
<1>4. current[s] + Cardinality(Unsent(s)) <= Limit[s] + Cardinality(Askers) - 1
  BY DEF FeedInv, RequestsBounded
<1> QED BY <1>2, <1>3, <1>4 DEF FeedInv

(* A call that is let through when less than the limit is counted. *)
LEMMA LetThrough ==
  ASSUME FeedInv, NEW s \in Services, NEW c \in Askers, c \notin Unsent(s),
         Unsent(s)' \subseteq Unsent(s) \cup {c},
         current'[s] \in Nat, current'[s] < Limit[s]
  PROVE  current'[s] + Cardinality(Unsent(s)') <= Limit[s] + Cardinality(Askers) - 1
<1>1. Unsent(s)' \in SUBSET Askers
  BY DEF Unsent
<1>2. /\ Cardinality(Unsent(s)') \in Nat /\ Cardinality(Unsent(s)') <= Cardinality(Askers)
      /\ Cardinality(Askers) \in Nat /\ Limit[s] \in Nat
  BY <1>1, UnsentFinite, FS_CardinalityType, AskersAssumption, LimitAssumption
<1> QED BY <1>2

(* A call that asks a service, or does not. *)
LEMMA AskServiceStep ==
  ASSUME FeedInv, NEW c \in Askers, NEW a \in FeedAddresses, NEW s \in Services,
         asking[c].stage \in {"idle", "fallback"}, RenewWindow(s),
         IF MayRequest(s) THEN Stage(c, a, s) ELSE Stage(c, a, "fallback") \/ Return(c)
  PROVE  FeedInv'
<1>1. /\ current' = [current EXCEPT ![s] = IF s \in windowOver THEN 0 ELSE current[s]]
      /\ current' \in [Services -> Nat]
  BY DEF RenewWindow, FeedInv
<1>2. \/ MayRequest(s) /\ Stage(c, a, s)
      \/ Stage(c, a, "fallback") \/ Return(c)
  OBVIOUS
<1>3. asking' \in [Askers -> [stage : {"idle"}] \cup [stage : AskStages, address : FeedAddresses]]
  BY <1>2 DEF Stage, Return, Done, FeedInv, AskStages
<1>4. ASSUME NEW r \in Services
      PROVE  current'[r] + Cardinality(Unsent(r)') <= Limit[r] + Cardinality(Askers) - 1
  <2>1. c \notin Unsent(r)
    BY DEF Unsent, Services
  <2>2. CASE r = s /\ MayRequest(s) /\ Stage(c, a, s)
    <3>1. Unsent(r)' \subseteq Unsent(r) \cup {c}
      BY <2>2 DEF Stage, Unsent, FeedInv
    <3>2. current'[r] < Limit[r]
      <4>1. current'[s] = IF s \in windowOver THEN 0 ELSE current[s]
        BY <1>1 DEF FeedInv
      <4>2. s \in windowOver \/ current[s] < Limit[s]
        BY <2>2 DEF MayRequest
      <4>3. Limit[s] > 0
        BY LimitAssumption
      <4> QED BY <2>2, <4>1, <4>2, <4>3
    <3> QED BY <1>1, <2>1, <3>1, <3>2, LetThrough
  <2>3. CASE ~(r = s /\ MayRequest(s) /\ Stage(c, a, s))
    <3>1. Unsent(r)' \subseteq Unsent(r)
      BY <1>2, <2>3 DEF Stage, Return, Done, Unsent, FeedInv, Services
    <3>2. current'[r] \in Nat /\ current'[r] <= current[r]
      BY <1>1 DEF FeedInv
    <3> QED BY <3>1, <3>2, BoundStays
  <2> QED BY <2>2, <2>3
<1> QED BY <1>1, <1>3, <1>4 DEF FeedInv, RequestsBounded

(* A step that counts nothing and lets nothing through. *)
LEMMA NothingLetThrough ==
  ASSUME FeedInv, UNCHANGED current,
         asking' \in [Askers -> [stage : {"idle"}] \cup [stage : AskStages, address : FeedAddresses]],
         \A c \in Askers : asking'[c].stage \in Services => asking'[c] = asking[c]
  PROVE  FeedInv'
<1>1. ASSUME NEW s \in Services
      PROVE  current'[s] + Cardinality(Unsent(s)') <= Limit[s] + Cardinality(Askers) - 1
  <2>1. Unsent(s)' \subseteq Unsent(s)
    BY DEF Unsent
  <2>2. current'[s] \in Nat /\ current'[s] <= current[s]
    BY DEF FeedInv
  <2> QED BY <2>1, <2>2, BoundStays
<1> QED BY <1>1 DEF FeedInv, RequestsBounded

(* Every step of the feed keeps the invariant. *)
LEMMA FeedInvStep ==
  ASSUME FeedInv, [FeedNext]_feedVars
  PROVE  FeedInv'
<1>1. ASSUME NEW c \in Askers, NEW t \in FeedTokens, GetTokenPrice(c, t) PROVE FeedInv'
  BY <1>1, AskServiceStep DEF GetTokenPrice, AskService, FeedAddresses, Services
<1>2. ASSUME NEW c \in Askers, NEW p \in FeedPools, GetPoolLiquidity(c, p) PROVE FeedInv'
  BY <1>2, AskServiceStep DEF GetPoolLiquidity, AskService, FeedAddresses, Services
<1>3. ASSUME NEW c \in Askers, FallBack(c) PROVE FeedInv'
  <2>1. asking[c].address \in FeedAddresses
    BY <1>3 DEF FallBack, FeedInv
  <2> QED BY <1>3, <2>1, AskServiceStep DEF FallBack, AskService, Services
<1>4. ASSUME NEW c \in Askers, RequestSent(c) PROVE FeedInv'
  <2> DEFINE r == asking[c].stage
  <2>1. /\ r \in Services /\ asking[c].address \in FeedAddresses
        /\ current' = [current EXCEPT ![r] = current[r] + 1]
        /\ current' \in [Services -> Nat]
        /\ asking' = [asking EXCEPT ![c] = [stage |-> IF r = "coingecko" THEN "sentC" ELSE "sentB",
                                            address |-> asking[c].address]]
    BY <1>4 DEF RequestSent, Stage, FeedInv, Services
  <2>2. asking' \in [Askers -> [stage : {"idle"}] \cup [stage : AskStages, address : FeedAddresses]]
    BY <2>1 DEF FeedInv, AskStages
  <2>3. ASSUME NEW s \in Services
        PROVE  current'[s] + Cardinality(Unsent(s)') <= Limit[s] + Cardinality(Askers) - 1
    <3>1. CASE s = r
      <4>1. c \in Unsent(s) /\ Unsent(s)' = Unsent(s) \ {c}
        BY <2>1, <3>1 DEF Unsent, FeedInv, Services
      <4>2. IsFiniteSet(Unsent(s)) /\ Cardinality(Unsent(s)) \in Nat
        BY UnsentFinite DEF Unsent
      <4>3. Cardinality(Unsent(s)') = Cardinality(Unsent(s)) - 1
        BY <4>1, <4>2, FS_RemoveElement
      <4>4. current'[s] = current[s] + 1 /\ current[s] \in Nat
        BY <2>1, <3>1 DEF FeedInv
      <4>5. current[s] + Cardinality(Unsent(s)) <= Limit[s] + Cardinality(Askers) - 1
        BY DEF FeedInv, RequestsBounded
      <4>6. current'[s] + Cardinality(Unsent(s)') = current[s] + Cardinality(Unsent(s))
        BY <4>2, <4>3, <4>4
      <4> QED BY <4>5, <4>6
    <3>2. CASE s # r
      <4>1. Unsent(s)' \subseteq Unsent(s)
        BY <2>1 DEF Unsent, FeedInv, Services
      <4>2. current'[s] \in Nat /\ current'[s] <= current[s]
        BY <2>1, <3>2 DEF FeedInv
      <4> QED BY <4>1, <4>2, BoundStays
    <3> QED BY <3>1, <3>2
  <2> QED BY <2>1, <2>2, <2>3 DEF FeedInv, RequestsBounded
<1>5. ASSUME NEW c \in Askers, Answered(c) \/ Unanswered(c) PROVE FeedInv'
  <2>1. /\ asking[c].address \in FeedAddresses /\ UNCHANGED current
        /\ Return(c) \/ Stage(c, asking[c].address, "fallback")
    BY <1>5 DEF Answered, Unanswered, limitsOfFeed, FeedInv
  <2>2. asking' \in [Askers -> [stage : {"idle"}] \cup [stage : AskStages, address : FeedAddresses]]
    BY <2>1 DEF Stage, Return, Done, FeedInv, AskStages
  <2>3. \A d \in Askers : asking'[d].stage \in Services => asking'[d] = asking[d]
    BY <2>1 DEF Stage, Return, Done, FeedInv, Services
  <2> QED BY <2>1, <2>2, <2>3, NothingLetThrough
<1>6. CASE \/ \E a \in FeedAddresses : Expires(a)
           \/ \E s \in Services : WindowExpires(s)
           \/ \E t \in FeedTokens : \/ StartMonitoring(t) \/ StopMonitoring(t)
                                    \/ Reconnect(t) \/ SocketPrice(t)
           \/ \E s \in Sockets : SocketCloses(s)
           \/ UNCHANGED feedVars
  <2>1. UNCHANGED <<current, asking>>
    BY <1>6 DEF Expires, WindowExpires, StartMonitoring, StopMonitoring, Reconnect, SocketPrice,
       SocketCloses, feedVars, limitsOfFeed
  <2> QED BY <2>1, NothingLetThrough DEF FeedInv
<1> QED BY <1>1, <1>2, <1>3, <1>4, <1>5, <1>6 DEF FeedNext

(***************************************************************************)
(* A service is asked no more often in a window than its limit and the     *)
(* calls that overlap allow, for any limits and any number of calls.       *)
(***************************************************************************)
THEOREM RequestsKeepLimit == FeedSpec => []RequestsBounded
<1>1. FeedInit => FeedInv
  <2> SUFFICES ASSUME FeedInit PROVE FeedInv
    OBVIOUS
  <2>1. asking \in [Askers -> [stage : {"idle"}] \cup [stage : AskStages, address : FeedAddresses]]
    BY DEF FeedInit, Done
  <2>2. ASSUME NEW s \in Services PROVE Unsent(s) = {} /\ current[s] = 0
    BY DEF FeedInit, Done, Unsent, Services
  <2>3. Cardinality(Askers) \in Nat
    BY AskersAssumption, FS_CardinalityType
  <2>4. current \in [Services -> Nat]
    BY DEF FeedInit
  <2> QED BY <2>1, <2>2, <2>3, <2>4, FS_EmptySet, LimitAssumption DEF FeedInv, RequestsBounded
<1>2. FeedInv /\ [FeedNext]_feedVars => FeedInv'
  BY FeedInvStep
<1>3. FeedInv => RequestsBounded
  BY DEF FeedInv
<1> QED BY <1>1, <1>2, <1>3, PTL DEF FeedSpec
-----------------------------------------------------------------------------
(***************************************************************************)
(* Notifications.  A call that begins with a rule is not on its way        *)
(* through it yet, and finds less than the limit counted: so the others    *)
(* that are on their way fill the rest of the bound.  A call that ends     *)
(* with a rule counts for at most one notification more.                   *)
(***************************************************************************)
JobsOver(R, C) == [Senders -> [id : Nat, rules : R, channels : C, sending : BOOLEAN]]

SendTypes ==
  /\ hourlyCounts \in [RuleIds -> UNION {[D -> Nat] : D \in SUBSET Nat}]
  /\ \A r \in RuleIds : IsFiniteSet(DOMAIN hourlyCounts[r])
  /\ \E R, C : job \in JobsOver(R, C)
  /\ sends \in Nat

SendInv ==
  /\ SendTypes
  /\ \A r \in RuleIds : MaxPerHour[r] > 0 =>
       InTheHour(r) <= MaxPerHour[r] + Cardinality(Senders) - 1

(* What counts and what is on its way are numbers. *)
LEMMA SendsAreNumbers ==
  ASSUME SendTypes, NEW r \in RuleIds
  PROVE  /\ IsFiniteSet(Recent(hourlyCounts[r])) /\ Cardinality(Recent(hourlyCounts[r])) \in Nat
         /\ IsFiniteSet(OnTheirWay(r)) /\ Cardinality(OnTheirWay(r)) \in Nat
         /\ Cardinality(OnTheirWay(r)) <= Cardinality(Senders)
         /\ Cardinality(Senders) \in Nat /\ MaxPerHour[r] \in Nat
<1>1. Recent(hourlyCounts[r]) \in SUBSET DOMAIN hourlyCounts[r]
  BY DEF Recent
<1>2. OnTheirWay(r) \in SUBSET Senders
  BY DEF OnTheirWay
<1> QED BY <1>1, <1>2, FS_Subset, FS_CardinalityType, SendersAssumption, RulesAssumption DEF SendTypes

(* A step after which no more counts and no more is on its way. *)
LEMMA NoMoreSends ==
  ASSUME SendInv, SendTypes',
         NEW r \in RuleIds, MaxPerHour[r] > 0,
         Recent(hourlyCounts'[r]) \subseteq Recent(hourlyCounts[r]), OnTheirWay(r)' \subseteq OnTheirWay(r)
  PROVE  InTheHour(r)' <= MaxPerHour[r] + Cardinality(Senders) - 1
<1>1. /\ IsFiniteSet(Recent(hourlyCounts[r])) /\ Cardinality(Recent(hourlyCounts[r])) \in Nat
      /\ IsFiniteSet(OnTheirWay(r)) /\ Cardinality(OnTheirWay(r)) \in Nat
      /\ Cardinality(Senders) \in Nat /\ MaxPerHour[r] \in Nat
  BY SendsAreNumbers DEF SendInv
<1>2. /\ Cardinality(Recent(hourlyCounts'[r])) <= Cardinality(Recent(hourlyCounts[r]))
      /\ Cardinality(Recent(hourlyCounts'[r])) \in Nat
  BY <1>1, FS_Subset, FS_CardinalityType
<1>3. /\ Cardinality(OnTheirWay(r)') <= Cardinality(OnTheirWay(r))
      /\ Cardinality(OnTheirWay(r)') \in Nat
  BY <1>1, FS_Subset, FS_CardinalityType
<1>4. InTheHour(r) <= MaxPerHour[r] + Cardinality(Senders) - 1
  BY DEF SendInv
<1>5. InTheHour(r)' = Cardinality(Recent(hourlyCounts'[r])) + Cardinality(OnTheirWay(r)')
  BY DEF InTheHour, Recent
<1>6. InTheHour(r) = Cardinality(Recent(hourlyCounts[r])) + Cardinality(OnTheirWay(r))
  BY DEF InTheHour
<1> QED BY <1>1, <1>2, <1>3, <1>4, <1>5, <1>6

(* A step of one call that counts nothing and takes it through no rule. *)
LEMMA CallStaysOff ==
  ASSUME SendInv, NEW s \in Senders, UNCHANGED hourlyCounts, sends' \in Nat,
         \E R, C : job' \in JobsOver(R, C), \A u \in Senders : u # s => job'[u] = job[u],
         job'[s].channels # <<>> => job[s].channels # <<>> /\ job'[s].rules = job[s].rules
  PROVE  SendInv'
<1>1. SendTypes'
  BY DEF SendInv, SendTypes
<1>2. ASSUME NEW r \in RuleIds PROVE OnTheirWay(r)' \subseteq OnTheirWay(r)
  BY DEF OnTheirWay
<1> QED BY <1>1, <1>2, NoMoreSends DEF SendInv

(* Every step of the notifications keeps the invariant. *)
LEMMA SendInvStep ==
  ASSUME SendInv, [NotificationNext]_notificationVars
  PROVE  SendInv'
<1>0. PICK R, C : job \in JobsOver(R, C)
  BY DEF SendInv, SendTypes
<1>1. ASSUME NEW s \in Senders, NEW m \in SUBSET RuleIds, Send(s, m) PROVE SendInv'
  <2> DEFINE rs == SelectSeq(RuleOrder, LAMBDA r : r \in m)
  <2>1. /\ UNCHANGED hourlyCounts /\ sends \in Nat /\ sends' = sends + 1
        /\ job' = [job EXCEPT ![s] = [id |-> sends + 1, rules |-> rs, channels |-> <<>>,
                                      sending |-> TRUE]]
    BY <1>1 DEF Send, limits, SendInv, SendTypes
  <2> HIDE DEF rs
  <2>2. job' \in JobsOver(R \cup {rs}, C \cup {<<>>})
    BY <1>0, <2>1 DEF JobsOver
  <2>3. job'[s].channels = <<>> /\ \A u \in Senders : u # s => job'[u] = job[u]
    BY <1>0, <2>1 DEF JobsOver
  <2>4. sends' \in Nat
    BY <2>1
  <2> QED BY <2>1, <2>2, <2>3, <2>4, CallStaysOff
<1>2. ASSUME NEW s \in Senders, SkipRule(s) \/ ChannelGone(s) \/ Sent(s) PROVE SendInv'
  <2>1. UNCHANGED hourlyCounts /\ sends' \in Nat
    BY <1>2 DEF SkipRule, ChannelGone, Sent, limits, SendInv, SendTypes
  <2>2. CASE job' = [job EXCEPT ![s] = Idle]
    <3>1. job' \in JobsOver(R \cup {<<>>}, C \cup {<<>>})
      BY <1>0, <2>2 DEF JobsOver, Idle
    <3>2. job'[s].channels = <<>> /\ \A u \in Senders : u # s => job'[u] = job[u]
      BY <1>0, <2>2 DEF JobsOver, Idle
    <3> QED BY <2>1, <3>1, <3>2, CallStaysOff
  <2>3. CASE Between(s) /\ job' = [job EXCEPT ![s].rules = Tail(@)]
    <3>1. job' \in JobsOver(R \cup {Tail(job[s].rules)}, C)
      BY <1>0, <2>3 DEF JobsOver
    <3>2. job'[s].channels = <<>> /\ \A u \in Senders : u # s => job'[u] = job[u]
      BY <1>0, <2>3 DEF JobsOver, Between
    <3> QED BY <2>1, <3>1, <3>2, CallStaysOff
  <2> QED BY <1>2, <2>2, <2>3 DEF SkipRule, ChannelGone, Sent
<1>3. ASSUME NEW s \in Senders, BeginRule(s) PROVE SendInv'
  <2> DEFINE q == Head(job[s].rules)
  <2>1. /\ UNCHANGED <<hourlyCounts, sends>> /\ job[s].channels = <<>> /\ CanSendForRule(q)
        /\ job' = [job EXCEPT ![s].channels = ChannelsOf[q]]
    BY <1>3 DEF BeginRule, Between, limits
  <2>2. SendTypes'
    <3>1. job' \in JobsOver(R, C \cup {ChannelsOf[q]})
      BY <1>0, <2>1 DEF JobsOver
    <3> QED BY <2>1, <3>1 DEF SendInv, SendTypes
  <2>3. ASSUME NEW r \in RuleIds, MaxPerHour[r] > 0
        PROVE  InTheHour(r)' <= MaxPerHour[r] + Cardinality(Senders) - 1
    <3>1. CASE r = q
      <4>1. Cardinality(Recent(hourlyCounts[r])) < MaxPerHour[r]
        BY <2>1, <2>3, <3>1, RulesAssumption DEF CanSendForRule
      <4>2. /\ Cardinality(OnTheirWay(r)') \in Nat /\ Cardinality(OnTheirWay(r)') <= Cardinality(Senders)
        <5>1. OnTheirWay(r)' \in SUBSET Senders
          BY DEF OnTheirWay
        <5> QED BY <5>1, SendersAssumption, FS_Subset, FS_CardinalityType
      <4>3. /\ Cardinality(Recent(hourlyCounts[r])) \in Nat /\ MaxPerHour[r] \in Nat
            /\ Cardinality(Senders) \in Nat
        BY SendsAreNumbers DEF SendInv
      <4>4. InTheHour(r)' = Cardinality(Recent(hourlyCounts[r])) + Cardinality(OnTheirWay(r)')
        BY <2>1 DEF InTheHour, Recent
      <4> QED BY <4>1, <4>2, <4>3, <4>4
    <3>2. CASE r # q
      <4>1. OnTheirWay(r)' \subseteq OnTheirWay(r)
        BY <1>0, <2>1, <3>2 DEF OnTheirWay, JobsOver
      <4> QED BY <2>1, <2>2, <2>3, <4>1, NoMoreSends
    <3> QED BY <3>1, <3>2
  <2> QED BY <2>2, <2>3 DEF SendInv
<1>4. ASSUME NEW s \in Senders, ChannelAnswers(s) PROVE SendInv'
  <2> DEFINE q == Head(job[s].rules)
  <2>1. job[s].channels # <<>> /\ UNCHANGED sends
    BY <1>4 DEF ChannelAnswers
  <2>2. CASE UNCHANGED limits /\ job' = [job EXCEPT ![s].channels = Tail(job[s].channels)]
    <3>1. job' \in JobsOver(R, C \cup {Tail(job[s].channels)})
      BY <1>0, <2>2 DEF JobsOver
    <3>2. job'[s].rules = job[s].rules /\ \A u \in Senders : u # s => job'[u] = job[u]
      BY <1>0, <2>2 DEF JobsOver
    <3>3. UNCHANGED hourlyCounts /\ sends' \in Nat
      BY <2>1, <2>2 DEF limits, SendInv, SendTypes
    <3> QED BY <2>1, <3>1, <3>2, <3>3, CallStaysOff
  <2>3. CASE /\ job' = [job EXCEPT ![s].channels = <<>>, ![s].rules = Tail(@)]
             /\ UpdateRuleLimits(q, job[s].id)
    <3>1. job'[s].channels = <<>> /\ \A u \in Senders : u # s => job'[u] = job[u]
      BY <1>0, <2>3 DEF JobsOver
    <3>2. /\ DOMAIN hourlyCounts' = RuleIds
          /\ \A r \in RuleIds : r # q \/ MaxPerHour[r] = 0 => hourlyCounts'[r] = hourlyCounts[r]
      BY <2>3 DEF UpdateRuleLimits, SendInv, SendTypes
    <3>3. ASSUME q \in RuleIds, MaxPerHour[q] > 0
          PROVE  hourlyCounts'[q] = Counted(hourlyCounts[q], job[s].id)
      BY <2>3, <3>3 DEF UpdateRuleLimits, SendInv, SendTypes
    <3> HIDE DEF q
    <3>4. SendTypes'
      <4>1. ASSUME NEW r \in RuleIds
            PROVE  /\ hourlyCounts'[r] \in UNION {[D -> Nat] : D \in SUBSET Nat}
                   /\ IsFiniteSet(DOMAIN hourlyCounts'[r])
        <5>1. CASE r # q \/ MaxPerHour[r] = 0
          BY <3>2, <5>1 DEF SendInv, SendTypes
        <5>2. CASE r = q /\ MaxPerHour[r] > 0
          <6>0. PICK D \in SUBSET Nat : hourlyCounts[r] \in [D -> Nat]
            BY DEF SendInv, SendTypes
          <6>1. /\ Recent(hourlyCounts[r]) \in SUBSET Nat /\ job[s].id \in Nat
                /\ \A n \in Recent(hourlyCounts[r]) : hourlyCounts[r][n] \in Nat
            BY <1>0, <6>0 DEF Recent, JobsOver
          <6>2. IsFiniteSet(Recent(hourlyCounts[r]) \cup {job[s].id})
            BY SendsAreNumbers, FS_AddElement DEF SendInv
          <6>3. Counted(hourlyCounts[r], job[s].id)
                  \in [Recent(hourlyCounts[r]) \cup {job[s].id} -> Nat]
            BY <6>1 DEF Counted
          <6>4. Recent(hourlyCounts[r]) \cup {job[s].id} \in SUBSET Nat
            BY <6>1
          <6>5. hourlyCounts'[r] = Counted(hourlyCounts[r], job[s].id)
            BY <3>3, <5>2
          <6> QED BY <6>2, <6>3, <6>4, <6>5
        <5> QED BY <5>1, <5>2, RulesAssumption
      <4>2. hourlyCounts' \in [RuleIds -> UNION {[D -> Nat] : D \in SUBSET Nat}]
        <5>1. hourlyCounts' = [r \in RuleIds |-> hourlyCounts'[r]]
          BY <2>3 DEF UpdateRuleLimits, SendInv, SendTypes
        <5> QED BY <4>1, <5>1
      <4>3. job' \in JobsOver(R \cup {Tail(job[s].rules)}, C \cup {<<>>})
        BY <1>0, <2>3 DEF JobsOver
      <4> QED BY <2>1, <4>1, <4>2, <4>3 DEF SendInv, SendTypes
    <3>5. ASSUME NEW r \in RuleIds, MaxPerHour[r] > 0
          PROVE  InTheHour(r)' <= MaxPerHour[r] + Cardinality(Senders) - 1
      <4>1. CASE r = q
        <5>1. s \in OnTheirWay(r) /\ OnTheirWay(r)' = OnTheirWay(r) \ {s}
          BY <2>1, <3>1, <4>1 DEF OnTheirWay, q
        <5>2. Recent(hourlyCounts'[r]) \subseteq Recent(hourlyCounts[r]) \cup {job[s].id}
          BY <3>3, <3>5, <4>1 DEF Recent, Counted
        <5>3. /\ IsFiniteSet(Recent(hourlyCounts[r])) /\ Cardinality(Recent(hourlyCounts[r])) \in Nat
              /\ IsFiniteSet(OnTheirWay(r)) /\ Cardinality(OnTheirWay(r)) \in Nat
              /\ Cardinality(Senders) \in Nat /\ MaxPerHour[r] \in Nat
          BY SendsAreNumbers DEF SendInv
        <5>4. Cardinality(OnTheirWay(r)') = Cardinality(OnTheirWay(r)) - 1
          BY <5>1, <5>3, FS_RemoveElement
        <5>5. /\ Cardinality(Recent(hourlyCounts'[r])) <= Cardinality(Recent(hourlyCounts[r])) + 1
              /\ Cardinality(Recent(hourlyCounts'[r])) \in Nat
          <6>1. /\ IsFiniteSet(Recent(hourlyCounts[r]) \cup {job[s].id})
                /\ Cardinality(Recent(hourlyCounts[r]) \cup {job[s].id})
                     <= Cardinality(Recent(hourlyCounts[r])) + 1
                /\ Cardinality(Recent(hourlyCounts[r]) \cup {job[s].id}) \in Nat
            <7>1. IsFiniteSet(Recent(hourlyCounts[r]) \cup {job[s].id})
              BY <5>3, FS_AddElement
            <7>2. Cardinality(Recent(hourlyCounts[r]) \cup {job[s].id})
                    = IF job[s].id \in Recent(hourlyCounts[r]) THEN Cardinality(Recent(hourlyCounts[r]))
                      ELSE Cardinality(Recent(hourlyCounts[r])) + 1
              BY <5>3, FS_AddElement
            <7> QED BY <5>3, <7>1, <7>2
          <6>2. /\ Cardinality(Recent(hourlyCounts'[r]))
                     <= Cardinality(Recent(hourlyCounts[r]) \cup {job[s].id})
                /\ Cardinality(Recent(hourlyCounts'[r])) \in Nat
            BY <5>2, <6>1, FS_Subset, FS_CardinalityType
          <6> QED BY <5>3, <6>1, <6>2
        <5>6. InTheHour(r) <= MaxPerHour[r] + Cardinality(Senders) - 1
          BY <3>5 DEF SendInv
        <5>7. InTheHour(r)' = Cardinality(Recent(hourlyCounts'[r])) + Cardinality(OnTheirWay(r)')
          BY DEF InTheHour, Recent
        <5>8. InTheHour(r) = Cardinality(Recent(hourlyCounts[r])) + Cardinality(OnTheirWay(r))
          BY DEF InTheHour
        <5> QED BY <5>3, <5>4, <5>5, <5>6, <5>7, <5>8
      <4>2. CASE r # q
        <5>1. OnTheirWay(r)' \subseteq OnTheirWay(r)
          BY <3>1 DEF OnTheirWay
        <5> QED BY <3>2, <3>4, <3>5, <4>2, <5>1, NoMoreSends
      <4> QED BY <4>1, <4>2
    <3> QED BY <3>4, <3>5 DEF SendInv
  <2> QED BY <1>4, <2>2, <2>3 DEF ChannelAnswers, Onwards
<1>5. CASE Tick
  <2>1. /\ hourlyCounts' = [r \in RuleIds |-> [n \in DOMAIN hourlyCounts[r] |-> Aged(hourlyCounts[r][n])]]
        /\ UNCHANGED <<job, sends>>
    BY <1>5 DEF Tick
  <2>2. ASSUME NEW r \in RuleIds
        PROVE  /\ DOMAIN hourlyCounts[r] \in SUBSET Nat
               /\ hourlyCounts[r] \in [DOMAIN hourlyCounts[r] -> Nat]
               /\ hourlyCounts'[r] = [n \in DOMAIN hourlyCounts[r] |-> Aged(hourlyCounts[r][n])]
    <3>1. PICK D \in SUBSET Nat : hourlyCounts[r] \in [D -> Nat]
      BY DEF SendInv, SendTypes
    <3>2. D = DOMAIN hourlyCounts[r]
      BY <3>1
    <3> QED BY <2>1, <3>1, <3>2
  <2>3. ASSUME NEW a \in Nat PROVE Aged(a) \in Nat /\ (Aged(a) < Hour => a < Hour)
    BY HourAssumption DEF Aged
  <2>4. ASSUME NEW r \in RuleIds
        PROVE  /\ hourlyCounts'[r] \in [DOMAIN hourlyCounts[r] -> Nat]
               /\ Recent(hourlyCounts'[r]) \subseteq Recent(hourlyCounts[r])
    <3>1. \A n \in DOMAIN hourlyCounts[r] : hourlyCounts[r][n] \in Nat
      BY <2>2
    <3>4. \A n \in DOMAIN hourlyCounts[r] : Aged(hourlyCounts[r][n]) \in Nat
      BY <2>3, <3>1
    <3>2. hourlyCounts'[r] \in [DOMAIN hourlyCounts[r] -> Nat]
      BY <2>2, <3>4
    <3>3. \A n \in DOMAIN hourlyCounts[r] : hourlyCounts'[r][n] = Aged(hourlyCounts[r][n])
      BY <2>2
    <3> QED BY <2>3, <3>1, <3>2, <3>3 DEF Recent
  <2>5. SendTypes'
    <3>1. hourlyCounts' \in [RuleIds -> UNION {[D -> Nat] : D \in SUBSET Nat}]
      BY <2>1, <2>2, <2>4
    <3>2. \A r \in RuleIds : IsFiniteSet(DOMAIN hourlyCounts'[r])
      BY <2>2 DEF SendInv, SendTypes
    <3> QED BY <2>1, <3>1, <3>2 DEF SendInv, SendTypes
  <2>6. ASSUME NEW r \in RuleIds PROVE OnTheirWay(r)' \subseteq OnTheirWay(r)
    BY <2>1 DEF OnTheirWay
  <2> QED BY <2>4, <2>5, <2>6, NoMoreSends DEF SendInv
<1>6. CASE (\E c \in Channels : RemoveChannel(c)) \/ UNCHANGED notificationVars
  <2>1. UNCHANGED <<hourlyCounts, job, sends>>
    BY <1>6 DEF RemoveChannel, notificationVars, limits
  <2> QED BY <2>1 DEF SendInv, SendTypes, InTheHour, OnTheirWay, Recent
<1> QED BY <1>1, <1>2, <1>3, <1>4, <1>5, <1>6 DEF NotificationNext

(***************************************************************************)
(* The notifications of an hour and those on their way exceed a rule's     *)
(* limit by no more than the calls that overlap, for any rules and hour.   *)
(***************************************************************************)
THEOREM SendsKeepLimit == NotificationSpec => []OvershootBounded
<1>1. NotificationInit => SendInv
  <2> SUFFICES ASSUME NotificationInit PROVE SendInv
    OBVIOUS
  <2>1. NoSends \in [{} -> Nat] /\ IsFiniteSet({})
    BY FS_EmptySet DEF NoSends
  <2>2. SendTypes
    <3>1. hourlyCounts \in [RuleIds -> UNION {[D -> Nat] : D \in SUBSET Nat}]
      BY <2>1 DEF NotificationInit
    <3>2. \A r \in RuleIds : IsFiniteSet(DOMAIN hourlyCounts[r])
      BY <2>1 DEF NotificationInit
    <3>3. job \in JobsOver({<<>>}, {<<>>}) /\ sends \in Nat
      BY DEF NotificationInit, JobsOver, Idle
    <3> QED BY <3>1, <3>2, <3>3 DEF SendTypes
  <2>3. ASSUME NEW r \in RuleIds PROVE InTheHour(r) = 0
    <3>1. Recent(hourlyCounts[r]) = {} /\ OnTheirWay(r) = {}
      BY <2>1 DEF NotificationInit, Recent, OnTheirWay, Idle
    <3> QED BY <3>1, FS_EmptySet DEF InTheHour
  <2> QED BY <2>2, <2>3, SendsAreNumbers DEF SendInv
<1>2. SendInv /\ [NotificationNext]_notificationVars => SendInv'
  BY SendInvStep
<1>3. SendInv => OvershootBounded
  BY DEF SendInv, OvershootBounded
<1> QED BY <1>1, <1>2, <1>3, PTL DEF NotificationSpec
=============================================================================
