# A verification of liquid-snipe in TLA+

liquid-snipe watches Solana's decentralised exchanges for new liquidity pools,
decides by configured strategies whether to buy the new token, buys it, and
watches the position until one of its exit strategies says to sell. This
directory holds TLA+ modules that model the program's control, TLC runs that
check them on small instances, and theorems that TLAPS proves for every value of
the constants. Everything is translated from the code under `src/src`; a line
number below is a line of the file named with it.

- `X.tla` is a component, `X_proofs.tla` its theorems, `*.cfg` one run each.
  `MCX.tla` is there where TLC needs definitions (sets of inputs, symmetry, a
  balance) and where one run checks several components that share nothing;
  elsewhere a cfg instantiates the component itself. `PROJECT.json`
  lists the runs, the lines each definition translates, the hazards, the findings
  and, for every property, a plausible bug of the code that breaks it.
- `tlc -config Trade.cfg MCTradeExecution`, `tlapm TradeExecution_proofs.tla`.

## How the program runs, and what a step is

The program is single threaded. Three rules about that decide what a step of a
model is, and they matter more than anything else here.

1. *Code between two awaits is one step.* Emitting an event runs every handler
   in order of registration, up to each handler's first await, within the step.
2. *A wait for the database is not a wait.* better-sqlite3 is synchronous, so an
   `await` of a method of `db/` goes on in the queue of microtasks, before any
   timer, socket or signal is looked at. A run of a position monitor, which
   awaits nothing else, is therefore one step; but several requests made in one
   turn of the event loop do interleave at these awaits (`PositionExits`, whose
   variable `raced` has the positions that was done to), and a chain of saves that
   feeds itself starves the event loop (`TradingPipeline`, operator `Turns`).
3. *A wait for the network, a timer or the user lets everything in.* Such a call
   is two steps, and it goes on in whatever state it finds then.

## The system

| part | state | operations and who calls them | what is hard |
|---|---|---|---|
| position state machines (`core/state-machines/position-state-machine.ts`, `atomic-position-state-machine.ts`) | state, history, context of price and profit | `transition`, `updatePrice`, `forceState`, reads; by managers and workflows | two mutexes, a compare-and-swap, an un-awaited write |
| trading pipeline (`core/workflows/trading-workflow.ts`, `core/state-machines/trading-state-machine.ts`, `trading/strategy-engine.ts`, `core/controller.ts`) | a Map of state machines by pool | handlers of `newPool`, `tradeDecision`, `tradeResult`, in the coordinator and in the controller | which workflow an answer belongs to; two handlers for one event |
| trade executor (`trading/trade-executor.ts`) | wallet, breaker, trades under way, records | `executeTrade`, `initialize` | lost and late answers of the chain, retries, limits read before an await |
| position manager and workflow (`trading/position-manager.ts`, `core/workflows/position-workflow.ts`) | open positions, pending exits, price histories, timers | monitors of three parties, exit requests | asking twice for the same exit, the limit of pending exits |
| exit strategies (`trading/advanced-exit-strategies.ts`) | none; the price histories are the manager's | `evaluate`, by the position manager | combinations by operator and priority; rules that can never fire |
| connection manager (`blockchain/connection-manager.ts`) | connection, flag, attempts, timers | `initialize`, health check, retries, `reconnect`, `shutdown` | overlapping checks, retries after shutdown |
| blockchain watcher (`blockchain/blockchain-watcher.ts`) | subscriptions, timer, `isActive` | `start`, `stop`, `pause`, events of the connection | subscriptions that are forgotten but live |
| circuit breaker (`core/circuit-breaker.ts`) | state, counts, next attempt, downtime | `execute`, forced changes | calls that settle in another state than they began in |
| system lifecycle (`index.ts`, `core/controller.ts`, `core/state-machines/system-state-machine.ts`, `core/workflows/user-interaction-workflow.ts`) | state machine, status of components, timers | `initialize`, `start`, `shutdown`, signals, commands, the TUI's quit | a shutdown in the middle of a start |
| data management (`core/workflows/data-management-workflow.ts`) | two timers, backup status | start, stop, backup, cleanup, reconfiguration | a timer overwritten without being cleared |
| error recovery (`core/workflows/error-recovery-workflow.ts`, `core/error-handler.ts`) | active errors, attempts, the flag of a recovery under way | `captureError`, `handleError`, actions with pauses | errors emitted while they are handled; a second error during a recovery |
| database (`db/`) | rows, foreign keys, schema version, log events, copies, a backup timer | inserts, updates, backup, migration, close | a refused row after the money is spent; opening on demand by overlapping calls; a crash between two statements |
| atomic position managers (`trading/atomic-position-manager.ts`, `concurrency/atomic-position-manager.ts`, `core/state-machines/atomic-compatibility-wrapper.ts`, `position-manager-integration.ts`) | positions over the concurrent machine; slots in shared memory | create, price, close | caches that lag behind; slots never freed |
| lock-free market data (`concurrency/lock-free-market-data.ts`) | ring buffer in a SharedArrayBuffer | enqueue, dequeue, clear | head and tail moved apart from the slots |
| price feed (`data/price-feed-service.ts`, `monitoring/price-feed-monitor.ts`) | caches, requests per window, web sockets, breakers, alerts | prices, pools, start and stop of monitoring, health checks | limits read before a request and counted after; a socket that reconnects after it was stopped |
| market data (`data/market-data-manager.ts`) | histories, conditions, monitored tokens | price updates, analysis at intervals, recommendations | analyses that overlap, and outlive `shutdown()` |
| token information (`blockchain/token-info-service.ts`) | cache over rows over the chain | `getTokenInfo`, by the strategy engine | placeholder rows, ages on two levels |
| risk, slippage, simulation (`security/risk-manager.ts`, `slippage-protection.ts`, `transaction-simulator.ts`) | positions, alerts; a breaker and its timers; none | assessments, limits, validation | trades assessed together; timers of several trips; three calls on one transaction |
| key storage, hardware wallets (`security/`) | keys, lock timer, backups, devices | lock, unlock, connect | – |
| notifications (`core/notification-system.ts`) | rules, channels, sends per hour | `sendNotification` | limits read before channels are awaited and updated after |
| events (`events/`) | handlers, stored events | emit, on, off | order of handlers |
| pool parsers (`blockchain/dex-parsers/`) | none | parse | which account is which token |
| configuration, interface, logging, types | – | – | – |

Shared between the parts are the event manager, the database, the connection
and the configuration; timers belong to the connection manager (health check,
retry), the watcher (resubscription), data management (backup, cleanup), the
position manager, the position workflow and the controller (one monitor each).

The events `userCommand`, `tuiCommand`, `configUpdate`, and `exitRequest` but for
the one of a user's command, are emitted by nothing in `src`. They are the
program's event interface; the models let them happen at any time. What the
program never calls is modelled as it stands when its class is used by tests or
examples (the synchronous position machine, `closePosition`), and is named where
it matters (`ExecutorIsReady`). Nothing but tests and examples creates the atomic
position managers, the lock-free queues, the risk manager, slippage protection,
the transaction simulator and the monitor of the price feed; the controller
creates the market data manager (controller.ts:169) and does not use it.

## The modules

**PositionRules, PositionContext, PositionLifecycle, PositionMachine,
AtomicPosition.** `PositionRules` has the rule table of each machine as triples.
`PositionContext` has the fields of the context that decide something.
`PositionLifecycle` is the abstract specification: the state changes by one rule
at a time or by force, and the history records each change. `PositionMachine` is
the synchronous machine and `AtomicPosition` the concurrent one: a mutex is the
queue of its holder and waiters (async-mutex is FIFO), a call has a pc with one
label per await, and `ServeContext` is the exclusive section of `contextMutex`.
Both implement `PositionLifecycle` (property `LifecycleSpec`).

**CircuitBreaker.** `execute()` is `Begin` and then `Succeed` or `Fail`; nothing
limits how many calls are between the two. Clock readings are relative to now.

**ConnectionManager, BlockchainWatcher.** The manager's calls are records of what
is in flight; each settles by `CallFails` or its success. The watcher EXTENDS the
manager, reacts to its events in the same step, and keeps apart the
subscriptions it has recorded and those that live, on the current Connection
object or on a replaced one. Two variables only remember what happened, for the
properties to refer to: `recovered` (error recovery has restarted the manager)
and `paused` (the watcher was paused at some time).

**TradingPipeline.** Pools, evaluations and trades. `book` is the Map: for each
pool its state machine, the trade it waits for, and the pools inserted `before`
it, because the coordinator finds the workflow of an answer by taking the first.

**TradeExecution.** A trade is a program counter over the awaits of
`executeTrade()`; the chain executes, drops or expires what was sent, at any
time; the database may refuse a row. Amounts are whole dollars.

**PositionExits.** The set `pendingExits`, four parties who ask for exits, and
the coordinator's workflows.

**PositionManagers, PositionIntegration, PositionIndex.** The three other managers
of positions. `PositionManagers` EXTENDS `AtomicPosition`: the wrapper checks a
transition, starts it as a call of one of the `Callers`, answers, and shows a copy
of the context; `due` and `arriving` are the refreshes of the copy that wait and
that were read. `PositionIntegration` is the manager that keeps a row as well, at the grain
of its awaits; a call of the machine is one step there, which is what
`AtomicPosition` implements. `PositionIndex` is the manager over shared memory:
slots, and the counter that is both the next slot and a statistic.

**LockFreeQueue, BoundedQueues.** The ring buffers with head, tail and slots, one
for all tokens and one for each; and what they promise, bounded FIFO queues. The
refinement maps the slots from head to tail to a sequence (`Held`). The code's
compare-and-swap cannot fail, as nothing hands the buffers to a worker; what
interleaves is timers and calls.

**ErrorRecovery.** An error is raised, told by the handler, captured again by the
workflow that listens to what the handler emits (a cascade, one step), and
recovered from by the strategies of its component, whose outcome is open, with
pauses between.

**Notifications.** A sender works off its rules and their channels, one answer of a
channel per step. `hourlyCounts` has the age of each notification by its number, so
that two of one age count as two, as the entries of the code's list do.

**PriceFeed, PriceFeedMonitor.** A call asks CoinGecko, then Birdeye; the check of
the limit, the sending and the answer are steps. Sockets open, close and reconnect.
The monitor has a breaker for each service, and the age of what it has alerted.

**TradingDatabase, DatabaseUpkeep.** The first has the rows and what they refer to;
each statement may be refused, operations interleave at their awaits, the process may die
between any two statements. The second has opening on demand, the migration, log
events, cleanup, backups and their rotation, closing.

**TokenInfo.** A pool is saved with rows for its tokens, evaluated with what cache,
row or chain tell, and decided on by the two strategies. Times are ages.

**ExitDecisions.** Every exit strategy as a function of its configuration, the
position and the price, over prices and minutes that move.

**RiskManager, SlippageProtection, TransactionSimulator, MarketData.** Assessments,
limits, validation and recommendations, with their thresholds as constants.
Results of statistics over prices are inputs; what is compared with what, when
it was computed and what is stored is modelled.

**MCConcurrency, MCServices, MCDecisions.** Compositions for TLC of components
that share no state. A behaviour is one of a single component, chosen by `part` in the
initial state, and the others stay as they were: the sets of states are added, not
multiplied, and each component has every behaviour it has alone.

**DataManagement, SystemLifecycle.** The first has the timers as a field and a
count of timers that run and are in no field any more. The second EXTENDS it
with start-up, shutdown, signals, quitting, the state machine of the system and
what is shown of its health.

## The runs

In a run marked ✗ TLC finds the property violated: a comment of the program says
it holds, and the trace shows how the code does otherwise. `findings` quotes the
line.

| run | property | shows |
|---|---|---|
| atomic_position | `TransitionsExclusive`, `OpenPnlMatchesPrice`, `LifecycleSpec`, `CallsReturn` | Two callers take a position through its life, update its price and force it: transitions exclude each other and implement the lifecycle, price and profit never tear before the exit is stamped, and every call returns. |
| breaker | `ThresholdsActedOn`, `OpensForWholeTimeout`, `Recovers` | Three overlapping calls, forced changes and passing time: counts are acted on at their thresholds, no call gets to the service before a whole timeout has passed since the last opening, whatever opened it, and once calls stop failing and nobody forces it open it closes for good. |
| watcher | `UsableIsChecked`, `LostHasTimer`, `RecordedOnce`, `Resubscribes` | The watcher over the connection manager, with overlapping checks and retries, reconnections, restarts, shutdown and every request: a connection that is handed out is under a running check until error recovery restarts it, a watcher that lost its subscriptions has a timer to restore them and, until it is paused, never records two, and once the node answers connection and subscriptions come back for good. |
| pipeline | `ExecutingIsFirst`, `MachineWaits`, `ExecutionsEnd` | Two pools, overlapping evaluations of coordinator and controller and overlapping trades, in a dry run and not: who waits for a trade is where its result looks and stops waiting while the event loop turns, and state machines take only their own evaluation. |
| pipeline_starved ✗ | `EvaluationsEnd` | The controller listens to the 'newPool' it emits after a save: saves follow each other without a turn of the event loop, and no evaluation that asks the network is answered. |
| pipeline_once ✗ | `ExecutedOnce` | The coordinator and the controller both execute the trade of a decision. |
| lifecycle | `StateIsTrue`, `BackupTimerIsKept`, `SentWhenRecordable`, `ShutdownEnds` | Start-up, shutdown, signals, quitting, losses of the connection and reconfiguration in any order: the state machine tells the truth about the process, the backup timer can always be cleared, no trade is sent that could not be recorded, and a shutdown that has begun comes to its end. |
| trade | `BoughtOnce`, `ReportsAreTrue`, `TradesEnd` | Two trades at once, with lost answers, resent and expired transactions and failing records: a decision buys at most once, what is reported as bought has been, and executeTrade() comes to an end. |
| concurrency | `CacheCatchesUp`, `ReportedCloses`, `PriceIsOwn`, `ToldOnce`, `RingsAreQueues` | The other three managers of positions and the market data queues, one at a time. The copy of the context that is shown agrees with the machine once all is over; a position reported closed ends closed; no two positions share a slot; an exit is decided and a closing told once; each ring buffer is a bounded queue. |
| services | `OneExitPerPosition`, `RecoveryIsExclusive`, `OvershootBounded`, `RequestsBounded`, `RecordsAreLinked`, `TablesBeforeStatements`, `AnswersAreRecent` | Exits of positions, error recovery, notifications, the price feed, the rows and the upkeep of the database, and token information, one at a time. At most one decision to exit is emitted for a position not asked for twice in one turn; one recovery at a time; limits per hour and per window are exceeded by overlapping calls only; every row refers to rows there are, over failures and restarts; no statement before the schema; what an evaluation is told of a token is an hour old at most. |
| pools_approved ✗ | `GoodPoolsAreApproved` | A pool of sound tokens is evaluated after it was saved: the save leaves a token row without a symbol, which is all the evaluation is told. |
| decisions | `ExposureIsAlerted`, `VolatilityIsRecent`, `HighFeeIsSaid`, `FavorableIsSafe`, `LifecycleSpec`, `DecidesAsConfigured`, `EveryOutageIsAlerted` | The synchronous position machine, exit strategies, the analysis of the market, the monitor of the price feed and the checks of security/, one at a time. The synchronous machine implements the lifecycle too; a combination of exit conditions decides as configured; exposure over its limit is alerted when trades are assessed one by one; limits on slippage rest on recent volatility; a fee above the maximum is let through with a warning only; a market called favorable is never one to avoid; no outage of a price service goes without its alert although alerts are deduplicated. |

### Bounds

A bound is a constant of the cfg, or a saturating count named here.

- *Position machines*: two prices (a torn pair needs two). The synchronous
  machine has a history of 3 entries instead of 50, so that the oldest entry is
  dropped within four transitions. The concurrent one has two callers, the
  triggers that lead through the whole life of a position (`LifeTriggers`), forced
  changes to CLOSED, the state no rule leaves, in the middle of a transition, and 2
  entries: a pair of entries is what the properties of the history are about.
- *Circuit breaker*: thresholds 3 and 2, a timeout of 2 ticks, three calls:
  enough for calls that begin before an outage and end during the second probe.
  Counts stop at their thresholds, which are all they are compared with; ages
  stop at `MaxAge`.
- *Connection and watcher*: two requests in flight at once, which is what it takes
  to overlap; one retry per outage. Retries must be used up for the interesting
  cases, so the small number is the sharp one. `MaxLive` = 2 stops the count of
  subscriptions: one more than there should be.
- *Pipeline*: two pools (the first and the one meant), three evaluations under
  way (two of the coordinator's and one of the controller's, or the other way
  round) and three trades, one more than one decision starts. A dry run and the
  real thing are both initial states.
- *Lifecycle*: only timers that are lost grow; `MaxLost` = 2.
- *Trades*: two at once, three attempts each as in the code. A wallet of 4 dollars
  in each token and limits of 25 and 40 per cent make one trade allowed and two
  trades too much. `ResetAfter` = 1 tick is the breaker's five minutes.
- *Exits*: two positions and a limit of one pending exit; decisions are counted
  up to two, which is one too many.
- *Other managers*: two callers of the machine and at most four calls (`MaxCalls`),
  enough for a call that overlaps each of the others; three positions for four slots,
  so that the counter, which jumps, passes the last one (`MaxCounter`); three
  requesters; rings of three slots, which go round after two points; two timers of
  a loop (`MaxTimers`), one more than there should be.
- *Services*: three errors at once; two senders, two rules and three sends; limits of
  one and two requests per window; two users of the database over two trades with a
  shared pool; days 3 to 5 and a retention of one day; two evaluations of pools with a
  common token. Half an hour is two ticks, so that a row can age before it is used.
- *Decisions*: prices on both sides of each threshold (50 to 200 per cent of the
  entry), amounts that pass a limit only together, volatility below and above its thresholds,
  two analyses and two trips at once, breakers that open at two failures.

`CHECK_DEADLOCK FALSE` is given where the program really may stop: after a
shutdown, when all calls are used, when every trade has ended, when all
positions are closed, when a component has nothing left to do.

### Fairness

A component's run checks its safety and its liveness under one specification,
`FairSpec`; safety does not depend on the fairness (the theorems below are about
`Spec`), liveness does. `FairSpec` assumes what the runtime gives:

- a promise continuation that is ready runs (weak fairness of `ServeContext` and
  `Continue`, of `PoolSaved`): the queue of microtasks is drained;
- a request to the node, to an API or to the database is answered or times out
  (weak fairness of `Progress(c)`, `Step(t)`, `WatcherStops`, `BackupCompletes`,
  `TradeAnswered`). In the pipeline answers are taken only while the event loop
  turns, and a save may stop that again and again; an answer that has arrived is
  taken in some turn, so the fairness of `TradeSettles` is strong. It is not
  assumed of the evaluations: `AnsweredSpec`, which does, is the specification of
  `pipeline_starved`, where even that is not enough;
- an interval or a timeout fires (`HealthBegins`, `RetryFires`, `WatchTimerFires`,
  `Tick`).

The three compositions check safety only, and state no fairness. Nothing is assumed of users, of pools, of prices, or of when the node answers;
`Resubscribes` and `Recovers` say what happens *if* it answers from some time on.

### Disagreements

These are said of the program by a comment, a document or a test (or are what a
name promises), and are not so. They are stated in the modules; a line added to the
cfg of the component's run makes TLC show the trace. `UsableIsChecked` and
`ExitedOnceAlways` are checked properties without the premise that makes those
hold. What the runs marked ✗ show is not repeated here.

| definition | module | said | what happens |
|---|---|---|---|
| `ClosedPnlMatchesPrice` | AtomicPosition | tests/race-condition-regression.test.ts:335 "Final PnL should be correctly calculated and consistent" | the closing action (atomic-position-state-machine.ts:494) computes the PnL before the compare-and-swap and does not await its write; a price update granted in between leaves the PnL of the older price |
| `DowntimeTracked` | CircuitBreaker | circuit-breaker.ts:142 "Track downtime when transitioning from open back to closed/half-open" | a `forceOpen()` of a circuit that is open sets the time of the change anew (148) |
| `UsableIsChecked` without `~recovered` | ConnectionManager | connection-manager.ts:142 "Check every 30 seconds" | `shutdown()` and `initialize()`, as error recovery does, leave `isShuttingDown` set: each check returns at 123 |
| `ShutdownDisconnects` | ConnectionManager | tests/blockchain/connection-manager.test.ts:95, not connected after `shutdown()` | a health check under way sets the status to connected (129) |
| `LossSchedulesRetry` | ConnectionManager | docs/project/SPEC.md:1155 "Automatic reconnection for RPC failures with exponential backoff" | a budget of retries that is used up (157) stays used up when a health check finds the node back |
| `ActiveOnlyIfAsked` | BlockchainWatcher | blockchain-watcher.ts:412 "Re-establish subscriptions if we were active before" | a watcher that was stopped or paused is made active (420) |
| `StoppedIsQuiet` | BlockchainWatcher | blockchain-watcher.ts:110 "Stop monitoring and clean up subscriptions" | without a connection line 120 throws past the cleanup |
| `NothingLeft` | TradingPipeline | trading-workflow.ts:181 "Cleanup completed workflow" | a result is given to the first workflow (202); another one stays in the Map |
| `EvaluatedIsPrepared` | TradingPipeline | trading-workflow.ts:80 "Have both tokenAddress (from initial context) and tradeAmount" | the machine refuses the transition of 81, whose result is ignored |
| `ExitsAfterShutdown` | SystemLifecycle | docs/project/TODO.md:412 "Graceful shutdown" | the TUI's quit calls `process.exit(0)` (tui/index.ts:195) |
| `TradesRecorded` | SystemLifecycle | docs/project/TODO.md:412 "Graceful shutdown" | `shutdown()` (controller.ts:372) does not wait for trades under way; their answer finds the database closed |
| `StoppedIsQuiet` | SystemLifecycle | tests/core/controller.test.ts:189 "should shutdown all components gracefully" | a shutdown inside the 100 ms of `start()` (controller.ts:340): the start goes on and starts interface and monitors |
| `PausedSendsNothing` | SystemLifecycle | user-interaction-workflow.ts:215 "Trading paused" | nothing listens to the action PAUSE_TRADING (209) |
| `HealthIsTrue` | SystemLifecycle | controller.ts:833 "Get comprehensive system health information" | the status is set once (101) and not when the connection is lost |
| `ExecutorIsReady` | SystemLifecycle | controller.ts:187 "Initialize trade executor" | the executor is created (188) and its `initialize()`, which loads the wallet, never called |
| `CleanupTimerIsKept` | DataManagement | data-management-workflow.ts:282 "Restart cleanup workflow with new settings" | an update sets the field while the start awaits its first backup (77); the start then sets it again (130), and the first timer is lost |
| `FailedBoughtNothing` | TradeExecution | trade-executor.ts:328 "Record failed trade attempt" | the wait for the confirmation ends with an error (715) although the chain executes the transaction |
| `BoughtIsRecorded` | TradeExecution | trade-executor.ts:283 "Record successful trade" | the database refuses the row (298) |
| `TradeWithinRisk` | TradeExecution | config/default.ts:41 "Maximum percentage of wallet value per trade" | the amount is turned into units of the token spent without its price (trade-executor.ts:525) |
| `TotalWithinRisk` | TradeExecution | config/default.ts:42 "Maximum 20% of portfolio at risk at any time" | only the trade in hand is looked at (trade-executor.ts:942); nothing reads the limit |
| `RefusalsDoNotProlong` | TradeExecution | trade-executor.ts:994 "5 minutes" | a refusal by the breaker is reported to it as a failure (332) and begins the time anew |
| `ExitedOnceAlways` | PositionExits | position-manager.ts:417 "Exit already pending for position" | two requests in one turn both pass the check before either adds (await at 421) |
| `ExitsWithinLimit` | PositionExits | position-manager.ts:540 "Maximum concurrent exits reached" | only the manager's own monitor looks at the limit (538) |
| `CompletedIsClosed` | PositionExits | position-workflow.ts:208 "Position exit completed" | the request that was made may have been ignored, or emit a decision nobody closes the position for |
| `PausedIsLeftAlone` | PositionExits | position-workflow.ts:241 "Position monitoring paused for" | the cycle (113) evaluates every open position; nothing reads the mark |
| `ClosedByProbes` | CircuitBreaker | circuit-breaker.ts:28 "Testing if service has recovered" | results of calls begun before the outage are counted as probes (96) |
| `DeliveredOnce` | BlockchainWatcher | blockchain-watcher.ts:447 "Connection lost, subscriptions cleared" | the listeners are forgotten, not removed (441); a log arrives at them and at the new ones |
| `ReasonCatchesUp` | PositionManagers | atomic-compatibility-wrapper.ts:69 "Update cached context immediately" | a transition the machine refuses has left its exit reason in the copy |
| `MachineCloses` | PositionIntegration | position-manager-integration.ts:263 "Atomic transition to closed state" | the answer of the transition is not looked at, and the machine may be in a state that refuses it |
| `RefusedWhenFull` | PositionIndex | concurrency/atomic-position-manager.ts:328 "Maximum positions reached" | successful updates count as slots given out (366) |
| `OneLoop` | LockFreeQueue | lock-free-market-data.ts:406 "Processor already running" | `stop()` (420) clears no timer; a `start()` before it fires makes a second loop |
| `LatestIsNewest` | LockFreeQueue | lock-free-market-data.ts:463 "Get latest price for token" | the oldest point is taken out (465) |
| `CapturedOnce` | ErrorRecovery | tests/error-handling.test.ts:463, one error is counted once | with the workflow listening each capture emits an error that is captured (error-recovery-workflow.ts:102) |
| `AttemptsBounded` | ErrorRecovery | error-handler.ts:148 "Attempting recovery n/maxRetries" | handling that is entered again counts on |
| `FailureIsTold` | ErrorRecovery | error-recovery-workflow.ts:250 "If all recovery attempts failed" | strategies run out before the attempts do; nothing is told |
| `WithinHourlyLimit` | Notifications | notification-system.ts:20 `maxPerHour` | the limit is read before the channels answer (323) and counted after |
| `WithinLimit` | PriceFeed | price-feed-service.ts:251 "Process in batches to respect rate limits" | calls of one batch pass the check before one is counted |
| `StoppedStaysStopped`, `SocketsTracked` | PriceFeed | price-feed-service.ts:229 "Stop real-time monitoring" | the closing of a socket starts a reconnection (460); starting again replaces a socket that lives |
| `NewIsNew` | TokenInfo | token-info-service.ts:441 "Identify if a token is likely new" | of two placeholder rows, and of cached ages, the token seen earlier may be the younger |
| `StatsAddUp` | TradingDatabase | db/index.ts:1096 "Get database stats" | the counts are read by statements with awaits between (1097) |
| `OldEventsGo` | DatabaseUpkeep | data-management-workflow.ts:200 "Clean up old log events" | the time of the cutoff (198) is passed where a number of days is expected (db/index.ts:1247) |
| `ClosedStopsBackups` | DatabaseUpkeep | db/index.ts:1079, `close()` clears the backup timer | two calls that initialise at once set two timers |
| `BackupsBounded` | DatabaseUpkeep | db/index.ts:38 `maxBackups` | the rotation lists the directory before the copy is there |
| `TrailingStopTrails` | ExitDecisions | README.md:23 "Dynamic stop prices that follow profitable moves" | the current price is taken for the highest (advanced-exit-strategies.ts:218), and the stop never fires |
| `AllMeansAll` | ExitDecisions | advanced-exit-strategies.ts:140 "All conditions met" | a condition of an unknown type is left out |
| `ExposureIsAlwaysAlerted` | RiskManager | risk-manager.ts:8 "Maximum total USD exposure across all positions" | trades that are assessed before either is open are each held against the limit alone |
| `DailyLossIsLoss` | RiskManager | risk-manager.ts:670 "Daily loss threshold exceeded" | the value is the cost of open positions; a closing at a profit lowers it |
| `TripLasts` | SlippageProtection | slippage-protection.ts:371 "Auto-reset after specified timeout" | the timer of an earlier trip resets the breaker |
| `ImpactCounts` | SlippageProtection | slippage-protection.ts:22 "percentage" | the estimate is a fraction, below any threshold in per cent |
| `ValidFeeIsReasonable` | TransactionSimulator | transaction-simulator.ts:360 "combining all security checks" | the fee is looked at before the simulation has set the blockhash, fails, and is called reasonable |
| `ZeroIsValidated` | TransactionSimulator | transaction-simulator.ts:385 "Validate slippage if amounts provided" | zero is taken for not provided |
| `BuyIsFavorable` | MarketData | market-data-manager.ts:227 "Assess if market conditions are favorable for trading" | a liquidity score of 3 to 5 is enough to recommend buying and too low to be favorable |
| `ShutdownClears` | MarketData | market-data-manager.ts:735 "Clear all data" | an analysis under way stores its condition afterwards |
| `ConditionsGetNewer` | MarketData | market-data-manager.ts:412, analyses at intervals | the older of two that overlap may answer last |
| `SizeWithinRisk` | MarketData | market-data-manager.ts:295 `maxRiskPercent` | good conditions multiply it by up to 1.45 |

Three more facts of the code that the models have and no definition states: a
`closePosition()` of the manager over the wrapper answers false for a position that is
only monitored; a position is sold whole whatever part a partial exit names, and the
executor is given the first exit strategy only (trade-executor.ts:733); and a failure
while the monitor's breaker is half-open does not open it again
(price-feed-monitor.ts:337).

## What is proved

TLAPS proves the following for every value of the constants, from the named
assumptions of the modules. What is assumed, beyond that thresholds and bounds are
natural numbers and model values differ:

- a set is finite where it is counted (`Senders`, `Askers`, `Positions`,
  `RiskPositions`): the calls and positions of a process are;
- the counter of slots can pass the last slot (`MaxCounter >= MaxPositions` in
  `PositionIndex`): a smaller bound would cut off the case the model is for;
- the age of a breaker's opening is counted up to its timeout at least (`MaxAge >=
  Timeout` in `CircuitBreaker`), as whether it has passed is asked of that age;
- an alert is remembered no longer than a breaker stays open (`AlertWindow \in
  1..OpenTime` in `PriceFeedMonitor`): both are five minutes in the code. Without it
  `EveryOutageIsAlerted` is false;
- `ReportMeansClosed` has a premise of its own, that `forceState()` is used to close a
  position and for nothing else. The program calls it nowhere but in the wrapper,
  which passes on what it is given; a caller that forced a position that is being
  closed back to MONITORING would make the theorem false.

- `PositionLifecycle_proofs!Truthful`: Whatever the rule table and the history bound, the audit trail is bounded, ends in the current state and consecutive entries follow by a rule with the recorded trigger.
- `AtomicPosition_proofs!Implements` (`LifecycleSpec`): The concurrent machine implements the lifecycle for any number of callers: the compare-and-swap makes every step a rule taken from the current state.
- `AtomicPosition_proofs!Audited`: The history of the concurrent machine ends in its current state, and consecutive entries follow by a rule.
- `AtomicPosition_proofs!ClosedStaysClosed`: No interleaving of transitions reopens a closed position.
- `AtomicPosition_proofs!Typing`: Every variable of the concurrent machine keeps its type.
- `AtomicPosition_proofs!Exclusion` (`TransitionsExclusive`): transition() is mutually exclusive across its awaits, for any number of callers.
- `AtomicPosition_proofs!PnlAgreement` (`OpenPnlMatchesPrice`): Before an exit is stamped, no interleaving tears price and PnL apart.
- `Guards_proofs!MachineImplements`: The synchronous machine implements the lifecycle, for any history bound and any context: its steps are rules taken from the current state, forced changes or stutters.
- `Guards_proofs!MachineAudited`: The history of the synchronous machine ends in its state, and consecutive entries follow by a rule.
- `Guards_proofs!MachineAgrees`: Where nothing interleaves, the PnL shown is that of the latest price at every moment, and what is closed by a rule is stamped.
- `Guards_proofs!Thresholds` (`ThresholdsActedOn`): For any thresholds and any number of overlapping calls, no state keeps a count it should have acted on.
- `Guards_proofs!WholeTimeout` (`OpensForWholeTimeout`): However calls overlap and whatever opened it last, an open circuit lets no call through before a whole timeout has passed, changes to HALF_OPEN no sooner, and rejects none after it.
- `BlockchainWatcher_proofs!ConnectionTyping`: For any number of calls in flight, reconnections and restarts, the manager never makes more attempts than its policy allows.
- `BlockchainWatcher_proofs!AlwaysChecked` (`UsableIsChecked`): As long as error recovery has left the manager alone, a connection that is handed out is under a running health check, for any number of overlapping checks and retries.
- `BlockchainWatcher_proofs!LostSubscriptionsHaveATimer` (`LostHasTimer`): An active watcher without subscriptions always has a timer set, whatever happens to the connection.
- `BlockchainWatcher_proofs!NeverRecordedTwice` (`RecordedOnce`): As long as nobody pauses the watcher, its timer, the event of the manager and start() never record two subscriptions to one DEX.
- `TradingPipeline_proofs!PipelineTyping`: For any pools, evaluations and trades, the state is well typed and the Map, whose first key stands for every lookup, orders the active workflows.
- `TradingPipeline_proofs!WaitingWorkflowIsFound` (`ExecutingIsFirst`): However pools, decisions and results interleave, a workflow that waits for a trade is the one a result will find, and its trade is under way; in a dry run nobody waits.
- `TradingPipeline_proofs!OwnMachineWaits` (`MachineWaits`): However pools are found again while evaluations and trades are under way, the machine of an evaluation waits for it.
- `Concurrency_proofs!TruthfulState` (`StateIsTrue`): Through any order of start, shutdown, signals, quitting and losses of the connection, what the state machine says of the process is so.
- `Concurrency_proofs!BackupTimerKept` (`BackupTimerIsKept`): The timer of backups that runs is the one the field can clear, across any updates of the configuration.
- `Concurrency_proofs!SentRecordable` (`SentWhenRecordable`): A trade is sent only while the database is open, whatever shuts down meanwhile.
- `TradeExecution_proofs!DecisionsBuyOnce` (`BoughtOnce`): For any trades, decisions, balances and number of attempts, a decision buys at most once, because every attempt sends the same transaction.
- `TradeExecution_proofs!ReportsHold` (`ReportsAreTrue`): A success has its CONFIRMED row and its position, and a CONFIRMED row stands for a transaction the chain executed.
- `Services_proofs!ExitDecidedOnce` (`OneExitPerPosition`): For any positions and any limit, whoever asks, at most one decision to exit is emitted for a position that is not asked for twice in one turn of the event loop.
- `Concurrency_proofs!PricesAreOwn` (`PriceIsOwn`): The price read for a position from shared memory is the last one written for it, for any number of positions and slots: no two positions share a slot.
- `Concurrency_proofs!ExitToldOnce` (`ToldOnce`): For any number of overlapping calls an exit is decided once, and its closing told once and of a closed row.
- `Concurrency_proofs!RingsImplementQueues` (`RingsAreQueues`): For every ring size and batch the rings of all tokens and of each token implement bounded FIFO queues.
- `AtomicPosition_proofs!CopyCatchesUp` (`CacheCatchesUp`): For any number of callers and forced changes, when nothing is under way any more, price, profit and stamp of the copy the wrapper shows are the machine's.
- `AtomicPosition_proofs!ReportMeansClosed` (`ReportedCloses`): If force is used to close only, a position whose closing was answered with true ends CLOSED, whatever the other callers do meanwhile.
- `AtomicPosition_proofs!ManagerKeepsAgreement`: Driven by the manager through the wrapper, transitions exclude each other too, and price and profit do not tear before an exit is stamped.
- `Services_proofs!TablesComeFirst` (`TablesBeforeStatements`): For any number of callers that open the database on demand, none gets to a statement before the tables are there.
- `Services_proofs!RowsLinked` (`RecordsAreLinked`): For any rows and clients, over refused statements and restarts, each row refers to rows that are there.
- `Services_proofs!ClosedForGood`: No statement and no restart takes away or changes the row of a closed position.
- `Services_proofs!AnswersNotStale` (`AnswersAreRecent`): For any freshness window, latency and pools, what an evaluation is told of a token was true at most two windows and two calls ago.
- `Services_proofs!OneRecovery` (`RecoveryIsExclusive`): At most one error is recovered from at a time, over cascades of errors, and the flag says so.
- `Services_proofs!RequestsKeepLimit` (`RequestsBounded`): For any limits, the requests of a window exceed the limit of a service by no more than the calls that overlap.
- `Services_proofs!SendsKeepLimit` (`OvershootBounded`): For any rules and senders, the notifications of an hour exceed the limit of a rule by no more than the calls that overlap.
- `Guards_proofs!ExposureNoticed` (`ExposureIsAlerted`): For any limit, positions and sizes, trades assessed one by one never take the exposure over the limit without an alert.
- `Guards_proofs!HighFeesAreSaid` (`HighFeeIsSaid`): For any fees and amounts, and however the validation of the fee and the simulation overlap, a valid verdict on a fee above the maximum carries the warning that it was not looked at.
- `Guards_proofs!FavorableNeverRisky` (`FavorableIsSafe`): A market called favorable is none to sell in or avoid and not of high risk, however analyses overlap.
- `Guards_proofs!OutagesAreSaid` (`EveryOutageIsAlerted`): For any thresholds, if a breaker stays open for as long as an alert is remembered, no opening and no recovery goes unsaid.
- `Guards_proofs!VolatilityFresh` (`VolatilityIsRecent`): No limit rests on a volatility that has not been true within the cache time.

The arguments:

- *PositionLifecycle*: `Truthful`, that the history's last entry is the current
  state and consecutive entries follow by a rule, is inductive as it is, once
  trimming is shown to keep consecutive pairs. It holds for every rule table that
  is `WellFormed` (triples of states and a trigger), which those of both machines are
  shown to be. That nothing but a forced change leaves CLOSED needs a table in which no
  rule does, which is shown of the machines' tables too.
- *AtomicPosition*: that it implements the lifecycle needs no invariant: the
  compare-and-swap makes each change of the state one by a rule from the state
  that is there, whoever ran in between; every other step is a stutter. The
  theorems of the lifecycle then hold of it. Exclusion is proved from the queue (a
  caller inside `transition` is the head of `transitionQueue`, and is in it once).
  `OpenPnlMatchesPrice` needs the strengthening `IInv`, the conjunction of the two
  with `Requested` (who waits in `contextQueue` has a request there) and
  `UpdatesConsistent` (each request that waits carries price and profit together,
  or neither).
- *PositionManagers*: the manager's steps are the machine's and a few more requests,
  so `IInv` holds of it too. `CopyCatchesUp` adds `CacheInv`: unless a refresh is due or
  queued or a price update is under way (`Pending`), the last context read for the
  copy, or the copy, agrees with the machine's on all but the reason; and a write nobody
  awaits, which is the closing action's, has a refresh behind it in the queue or due
  (`WritesAreFollowed`). This is where the order of the queue is used.
  `ReportMeansClosed` adds `CloseInv`: the five triggers of the manager lead forward
  only, so that a transition that completes an exit was loaded in EXITING or finds
  the position closed, and is not refused before that.
- *PositionMachine*: its steps are rules, forced changes or stutters of the lifecycle,
  for whatever context they write; `MachineAgrees` is inductive with the types.
- *PositionIndex, PositionIntegration, LockFreeQueue*: `PriceIsOwn` rests on `IndexInv`:
  slots given out lie below the counter, no two positions have one slot, and slots at
  and above the counter are empty; a jump of the counter wastes slots and shares none.
  `ToldOnce` rests on who is between two awaits: at most one call creates the row, and
  at most one completes the closing. The rings implement bounded queues by the
  refinement mapping `Held`; what is needed of head and tail is that they are slots
  (`RingInv`), the rest are lemmas about subtraction and remainders modulo a ring's size:
  the length, and what `Held` shows at each place, after each operation.
- *SystemLifecycle, DataManagement*: `LifecycleInv` says in which order the process
  lives (`InitializesInOrder`, `RunsInOrder`): before `start()` nothing runs, between it
  and `shutdown()` the machine is RUNNING, and the database stays open until the last
  step of the shutdown. The three theorems follow from it and the types.
- *CircuitBreaker*: `TypeOK /\ ThresholdsActedOn` is inductive because each
  increment is compared at once. `OpensForWholeTimeout` says what callers see: while
  the circuit is open no call gets to the service, and but for a force it stays open,
  before `Timeout` ticks have passed since the last opening, and none is rejected
  after them. It rests on `ClocksAgree`, by which the two times the code keeps,
  nextAttemptTime and stateChangeTime, belong to one opening: what remains and what
  has passed add up to the timeout. Late results in OPEN must not move either.
- *RiskManager, SlippageProtection, TransactionSimulator, MarketData*: `RiskInv` says
  that, while trades are assessed one by one, the exposure with the trade that is
  awaited was held against the limit; that closing and opening change the sum by one
  position's cost is a lemma (`CostOf` counts dollars). `SlippageInv` bounds the time since the cached volatility was true by the time it has
  been in the cache, and `SimulatorInv` says that a fee called reasonable was seen, and
  that a verdict of valid on one that was not has the warning with it.
  `FavorableNeverRisky` is a comparison of two tables of thresholds and needs only the
  types of what overlapping analyses store.
- *PriceFeedMonitor*: `ForgottenInTime`: the time since an opening or a recovery was said
  and the time the breaker has yet to stay open add up to the window at least, so that
  what was said is forgotten before it must be said again.
- *ConnectionManager, BlockchainWatcher*: `AlwaysChecked` strengthens the
  invariant by `Life`, the life of the manager until error recovery intervenes:
  a shutdown leaves no connection, retry or check behind, `initialize()` runs
  once, and nothing but it runs before it has succeeded. `LostSubscriptionsHaveATimer`
  adds the watcher's flags; `NeverRecordedTwice` that a watcher nobody has paused records
  one at most, and is active if it records one (`ActiveWithOne`). All
  are theorems of the composed specification, of which the manager's steps are
  shown to be steps or stutters of the manager.
- *TradingPipeline*: `PipelineInv` says that the Map orders the active workflows
  (transitively, without a cycle), that a machine that executes has its trade
  under way, and that it is the first: from this follows that a result finds it.
  `OwnMachineWaits` adds `Owns`: an evaluation that has a machine has that of an active
  workflow, in the state in which it was left, and has it alone.
- *TradeExecution*: `TradeInv` has, for each trade, what its program counter says
  about the chain and the record (`Agree`); that all attempts send one transaction
  is what makes a second purchase impossible.
- *PositionExits*: for each position outside `raced`, the decisions so far, the
  requests begun and its membership in `pendingExits` add up to at most one.
- *TradingDatabase, DatabaseUpkeep, TokenInfo*: that rows are linked is inductive with
  the types of the rows, as no statement deletes one that is referred to and a crash
  leaves those that were written. `TablesComeFirst` follows what each call that opens
  the database has passed: beyond the creation of the tables only when they are there,
  whoever created them. `InfoInv` bounds the age of what the cache keeps
  (`CachedRecently`) by the window its entry has left, and of what an evaluation knows
  (`KnownRecently`) by the time it has waited.
- *ErrorRecovery*: while the flag is set exactly one error is in a phase of recovery,
  and none otherwise.
- *Notifications, PriceFeed*: both bounds need to be strengthened by who is on the way: sends
  counted and senders past the check, requests counted and callers past theirs, are
  together below the limit and the number of calls (`InTheHour`, `RequestsBounded`).
  The lemmas are about cardinalities: one caller more or less past the check, one
  entry more in the hour.

Not proved, only checked by TLC:

- every liveness property (`CallsReturn`, `Recovers`, `Resubscribes`, `ExecutionsEnd`,
  `ShutdownEnds`, `TradesEnd`): fairness and ENABLED are out of the prover's reach;
- `DecidesAsConfigured` of `ExitDecisions`: the decision is a fold over the configured
  strategies, and what a fold computes for every list needs induction over data;
- what the runs marked ✗ refute, of course.

Type invariants that are theorems are in no run any more; `HistoryFollowsRules` is proved
of both machines (`Audited`, `MachineAudited`) and, as part of what `LifecycleSpec`
implies, not run by itself. `ClosedForGood` and `MachineAgrees` state properties no run checks: the
first is proved from the invariant of the rows, the second has no interleaving to find.

## What is not modelled

Floating-point arithmetic (prices are compared, or are whole numbers), texts and
layout, the Solana library, cryptography, files. Left out as components:

- the parsers of pools, which read positions of accounts in a transaction and keep
  nothing;
- key storage and hardware wallets: nothing imports the first, and the devices of the
  second are mocked in the source itself;
- `monitoring/market-monitor.ts`, a loop that compares averages with thresholds, which
  nothing creates; `core/database-optional-controller.ts`, a controller nothing
  creates;
- the event manager: emission is in the actions of the composed modules; its own
  lists and the pruning of stored events are left out;
- configuration, which is merged once at start, the text interface but for its
  quitting, logging, types.

Within the modules these details are abstracted, and no property speaks of them:

- the counter of slots stops at `MaxCounter`, where that of the code, an Int32, wraps
  after 2^31 counts (concurrency/atomic-position-manager.ts:325, 372);
- a point of the lock-free queue comes out as it went in, where the code keeps times
  modulo 2^32, prices as float32 and a hash of the token
  (concurrency/lock-free-market-data.ts:124, 338): `RingsAreQueues` is about order and
  capacity, not payload;
- errors that are captured while one is handled are raised `Levels` deep in one step; in
  the code, with the workflow listening, the cascade goes about a thousand deep, and
  keeps the event loop as well;
- the watcher subscribes to all DEXes in one step; between two of them the code gives
  way to microtasks only (blockchain-watcher.ts:201);
- the risk manager's positions are those it has assessed, at the assessed cost, though
  `updatePosition()` (risk-manager.ts:283) takes any: `ExposureIsAlerted` is about this use;
- where the computation of the volatility fails a fixed one of 0.3 is taken
  (slippage-protection.ts:342), which `VolatilityIsRecent` says nothing of.

## Plan

Done, in the order of importance: position machines, breaker, connection and
watcher, pipeline, lifecycle, trade execution, exits; then the other position managers
and the queues, error recovery, notifications, price feed and its monitor, database,
token information, exit strategies, risk, slippage, simulation, market data. Whatever of
the program is left is listed above.

Every safety property the passing runs check, but `DecidesAsConfigured`, is a theorem
now. What is left to prove is what the runs do not ask: that the exit strategies that are not
put together from others decide only in their conditions, and that a trailing stop as it is
written never exits (`ExitDecisions`, without the fold); and the parts of the disagreements
that remain true and are worth stating, as `ClosedStaysClosed` is for the history.
