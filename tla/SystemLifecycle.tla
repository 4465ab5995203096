-------------------------- MODULE SystemLifecycle --------------------------
(***************************************************************************)
(* The life of the process: CoreController.initialize(), start() and       *)
(* shutdown() of core/controller.ts, the SystemStateMachine they drive,    *)
(* the signals, the TUI's quit key, and the data management workflow that  *)
(* start() waits for.                                                      *)
(*                                                                         *)
(* The awaits that let other events in are the first check of the          *)
(* connection, the first backup, and the removal of the watcher's          *)
(* subscriptions; everything between two of them is one step.              *)
(***************************************************************************)
EXTENDS DataManagement

VARIABLES system,     \* SystemStateMachine.currentState
          status,     \* its context.components
          phase,      \* how far initialize() and start() are
          stop,       \* how far shutdown() is
          asked,      \* who called shutdown(): a signal handler exits after it
          node,       \* the connection manager would hand out its connection
          open,       \* the database is open
          watching,   \* the blockchain watcher is active
          monitors,   \* position monitors whose timer runs
          interface,  \* the user interface that runs
          paused,     \* the last command of the user was PAUSE_TRADING
          wallet,     \* the trade executor has its keypair
          trade,      \* a trade: sent to the chain, or ended without a record
          exited      \* the process has ended

vars == <<dataVars, system, status, phase, stop, asked, node, open, watching, monitors,
          interface, paused, wallet, trade, exited>>

SystemStates == {"INITIALIZING", "READY", "RUNNING", "PAUSED", "MAINTENANCE", "ERROR",
                 "SHUTTING_DOWN", "STOPPED"}
Active == {"READY", "RUNNING", "PAUSED", "MAINTENANCE"}

(* The transition rules: from, trigger, to. *)
Rules ==
  {<<"INITIALIZING", "INITIALIZATION_COMPLETED", "READY">>,
   <<"INITIALIZING", "ERROR_OCCURRED", "ERROR">>,
   <<"READY", "START_REQUESTED", "RUNNING">>,
   <<"RUNNING", "PAUSE_REQUESTED", "PAUSED">>,
   <<"RUNNING", "MAINTENANCE_MODE_REQUESTED", "MAINTENANCE">>,
   <<"PAUSED", "RESUME_REQUESTED", "RUNNING">>,
   <<"MAINTENANCE", "MAINTENANCE_COMPLETED", "RUNNING">>,
   <<"ERROR", "RECOVERY_COMPLETED", "READY">>,
   <<"SHUTTING_DOWN", "SHUTDOWN_COMPLETED", "STOPPED">>}
  \cup {<<s, "SHUTDOWN_REQUESTED", "SHUTTING_DOWN">> : s \in Active \cup {"ERROR"}}
  \cup {<<s, "ERROR_OCCURRED", "ERROR">> : s \in Active}
  \cup {<<s, "FORCE_STOP", "STOPPED">> : s \in SystemStates \ {"STOPPED"}}

(* The rules' guard: to become READY takes the database and the connection. *)
Guarded(trigger, components) ==
  trigger \in {"INITIALIZATION_COMPLETED", "RECOVERY_COMPLETED"}
    => components.database = "CONNECTED" /\ components.rpc = "CONNECTED"

(* transition(): without a rule the state stays. *)
After(s, trigger, components) ==
  LET to == {r[3] : r \in {q \in Rules : q[1] = s /\ q[2] = trigger}} IN
  IF to # {} /\ Guarded(trigger, components) THEN CHOOSE t \in to : TRUE ELSE s

Init ==
  /\ DataInit
  /\ system = "INITIALIZING"
  /\ status = [database |-> "DISCONNECTED", rpc |-> "DISCONNECTED", blockchain |-> "STOPPED"]
  /\ phase = "created" /\ stop = "no" /\ asked = "nobody"
  /\ node = FALSE /\ open = FALSE /\ watching = FALSE
  /\ monitors = {} /\ interface = "none"
  /\ paused = FALSE /\ wallet = FALSE /\ trade = "none" /\ exited = FALSE

(* process.exit(); a trade that was sent will not be recorded. *)
Exit ==
  /\ exited' = TRUE
  /\ trade' = IF trade = "sent" THEN "lost" ELSE trade

(* initialize() opens the database and goes on to the connection. *)
DatabaseOpens ==
  /\ phase = "created" /\ ~exited
  /\ phase' = "connecting" /\ open' = TRUE
  /\ status' = [status EXCEPT !.database = "CONNECTED"]
  /\ UNCHANGED <<dataVars, system, stop, asked, node, watching, monitors, interface, paused,
                 wallet, trade, exited>>

(* initialize() fails in the database or the connection: index.ts exits. *)
InitializeFails ==
  /\ phase \in {"created", "connecting"} /\ ~exited
  /\ system' = After(system, "ERROR_OCCURRED", status)
  /\ Exit
  /\ UNCHANGED <<dataVars, status, phase, stop, asked, node, open, watching, monitors,
                 interface, paused, wallet>>

(***************************************************************************)
(* The connection is there: the rest of initialize(), and start() up to    *)
(* the first backup.  w: a DEX is enabled, so that there is a watcher.     *)
(***************************************************************************)
Connected(w) ==
  /\ phase = "connecting" /\ ~exited
  /\ node' = TRUE
  /\ status' = [status EXCEPT !.rpc = "CONNECTED", !.blockchain = IF w THEN "MONITORING" ELSE @]
  /\ system' = After(After(system, "INITIALIZATION_COMPLETED", status'), "START_REQUESTED", status')
  /\ watching' = w
  /\ StartData
  /\ UNCHANGED <<stop, asked, open, paused, wallet, trade, exited>>

(* start() goes on after the coordinators: with the legacy monitor and the interface. *)
FinishStart ==
  /\ phase' = "started"
  /\ interface' \in {"tui", "console"}

Starts(w) ==
  /\ Connected(w)
  /\ IF backupStatus' = "IN_PROGRESS"
     THEN phase' = "starting" /\ monitors' = {"workflow"} /\ UNCHANGED interface
     ELSE FinishStart /\ monitors' = {"workflow", "controller"}

(* The watcher cannot subscribe: start() throws, index.ts exits. *)
StartFails ==
  /\ phase = "connecting" /\ ~exited
  /\ node' = TRUE
  /\ status' = [status EXCEPT !.rpc = "CONNECTED"]
  /\ system' = After(After(system, "INITIALIZATION_COMPLETED", status'), "START_REQUESTED", status')
  /\ Exit
  /\ UNCHANGED <<dataVars, phase, stop, asked, open, watching, monitors, interface, paused, wallet>>

(* A backup completes; start() goes on, in a shutdown as well. *)
BackupCompletes ==
  /\ ~exited
  /\ BackupDone
  /\ IF waiting = "start"
     THEN FinishStart /\ monitors' = monitors \cup {"controller"}
     ELSE UNCHANGED <<phase, interface, monitors>>
  /\ UNCHANGED <<system, status, stop, asked, node, open, watching, paused,
                 wallet, trade, exited>>

(* The operator's events for the data management workflow. *)
DataEvent ==
  /\ ~exited /\ phase \in {"starting", "started"}
  /\ BackupAsked \/ \E sections \in SUBSET Kinds : ConfigUpdate(sections)
  /\ UNCHANGED <<system, status, phase, stop, asked, node, open, watching, monitors, interface,
                 paused,
                 wallet, trade, exited>>
-----------------------------------------------------------------------------
(* A faulty variant: the end of shutdown() does not look at the database. *)
StateAfterCloseAnyway(closed) ==
  After(After(system, "SHUTDOWN_REQUESTED", status), "SHUTDOWN_COMPLETED", status)

(* SHUTDOWN_COMPLETED is reached only if the database has closed. *)
StateAfterClose(closed) ==
  LET requested == After(system, "SHUTDOWN_REQUESTED", status) IN
  IF closed THEN After(requested, "SHUTDOWN_COMPLETED", status) ELSE requested

(* A faulty variant: the connection manager is not shut down. *)
LeftConnected == UNCHANGED node

(* The manager hands out no connection once it is shut down. *)
Disconnected == node' = FALSE

(* The end of shutdown(), after the watcher; the handler of a signal then exits. *)
Close(by) ==
  /\ stop' = "done"
  /\ Disconnected /\ interface' = "none"
  /\ \/ open' = FALSE /\ status' = [status EXCEPT !.database = "DISCONNECTED"]
     \/ UNCHANGED <<open, status>>   \* the database refuses to close: logged
  /\ system' = StateAfterClose(~open')
  /\ IF by = "signal" THEN Exit ELSE UNCHANGED <<trade, exited>>

(***************************************************************************)
(* shutdown() up to the removal of the subscriptions, which needs the      *)
(* connection: without it stop() of the watcher fails and leaves it as it  *)
(* is.                                                                     *)
(***************************************************************************)
ShutdownBegins(by) ==
  /\ stop = "no" /\ phase \in {"starting", "started"} /\ ~exited
  /\ asked' = by
  /\ StopData
  /\ monitors' = {}
  /\ IF watching /\ node
     THEN /\ stop' = "watcher"
          /\ system' = After(system, "SHUTDOWN_REQUESTED", status)
          /\ UNCHANGED <<status, node, open, interface, wallet, trade, exited>>
     ELSE Close(by)
  /\ UNCHANGED <<phase, watching, paused, wallet>>

(* A faulty variant: the rest waits for a connection. *)
WatcherStopsIfConnected ==
  /\ stop = "watcher" /\ ~exited /\ node
  /\ watching' = FALSE
  /\ Close(asked)
  /\ UNCHANGED <<dataVars, phase, asked, monitors, paused, wallet>>

(* The subscriptions are removed, or their removal fails. *)
WatcherStops ==
  /\ stop = "watcher" /\ ~exited
  /\ watching' = FALSE
  /\ Close(asked)
  /\ UNCHANGED <<dataVars, phase, asked, monitors, paused, wallet>>

(* A signal during a shutdown: its handler finds shuttingDown set, and exits. *)
SignalAgain ==
  /\ stop = "watcher" /\ ~exited
  /\ Exit
  /\ UNCHANGED <<dataVars, system, status, phase, stop, asked, node, open, watching, monitors,
                 interface, paused, wallet>>

(* The quit key of the TUI. *)
TuiQuits ==
  /\ interface = "tui" /\ ~exited
  /\ interface' = "none"
  /\ Exit
  /\ UNCHANGED <<dataVars, system, status, phase, stop, asked, node, open, watching, monitors,
                 paused, wallet>>

(* The connection is lost or comes back, until the manager is shut down. *)
ConnectionChanges ==
  /\ phase \in {"starting", "started"} /\ stop # "done" /\ ~exited
  /\ node' = ~node
  /\ UNCHANGED <<dataVars, system, status, phase, stop, asked, open, watching, monitors,
                 interface, paused,
                 wallet, trade, exited>>

(***************************************************************************)
(* An event with the command PAUSE_TRADING or RESUME_TRADING, from outside: *)
(* 'systemControl' is emitted, and nothing that trades listens to it.      *)
(***************************************************************************)
PauseOrResume ==
  /\ phase \in {"starting", "started"} /\ ~exited
  /\ paused' = ~paused
  /\ UNCHANGED <<dataVars, system, status, phase, stop, asked, node, open, watching, monitors,
                 interface, wallet, trade, exited>>

(***************************************************************************)
(* TradeExecutor.initialize().  The controller never calls it; who embeds  *)
(* the controller can (getTradeExecutor()).                                *)
(***************************************************************************)
WalletLoads ==
  /\ phase \in {"starting", "started"} /\ ~wallet /\ ~exited
  /\ wallet' = TRUE
  /\ UNCHANGED <<dataVars, system, status, phase, stop, asked, node, open, watching, monitors,
                 interface, paused, trade, exited>>

(* The handlers of a decision send a trade: the wallet and the connection are asked for. *)
TradeSent ==
  /\ wallet /\ node /\ trade = "none" /\ ~exited
  /\ trade' = "sent"
  /\ UNCHANGED <<dataVars, system, status, phase, stop, asked, node, open, watching, monitors,
                 interface, paused, wallet, exited>>

(* The chain's answer comes, and the trade is recorded if the database is open. *)
TradeAnswered ==
  /\ trade = "sent" /\ ~exited
  /\ trade' = IF open THEN "none" ELSE "lost"
  /\ UNCHANGED <<dataVars, system, status, phase, stop, asked, node, open, watching, monitors,
                 interface, paused, wallet, exited>>

Next ==
  \/ DatabaseOpens \/ InitializeFails \/ StartFails
  \/ \E w \in BOOLEAN : Starts(w)
  \/ BackupCompletes \/ DataEvent
  \/ \E by \in {"signal", "caller"} : ShutdownBegins(by)
  \/ WatcherStops \/ SignalAgain \/ TuiQuits
  \/ ConnectionChanges \/ PauseOrResume \/ WalletLoads \/ TradeSent \/ TradeAnswered

Spec == Init /\ [][Next]_vars

(***************************************************************************)
(* A request to the node, a backup and a trade come to an end.             *)
(***************************************************************************)
FairSpec == Spec /\ WF_vars(WatcherStops) /\ WF_vars(BackupCompletes) /\ WF_vars(TradeAnswered)
-----------------------------------------------------------------------------
LifecycleTypeOK ==
  /\ DataTypeOK
  /\ system \in SystemStates
  /\ status \in [database : {"CONNECTED", "DISCONNECTED"}, rpc : {"CONNECTED", "DISCONNECTED"},
                 blockchain : {"MONITORING", "STOPPED"}]
  /\ phase \in {"created", "connecting", "starting", "started"}
  /\ stop \in {"no", "watcher", "done"} /\ asked \in {"nobody", "signal", "caller"}
  /\ monitors \subseteq {"workflow", "controller"} /\ interface \in {"none", "tui", "console"}
  /\ trade \in {"none", "sent", "lost"}
  /\ {node, open, watching, paused, wallet, exited} \subseteq BOOLEAN

(***************************************************************************)
(* The state machine tells the truth about the process: it is RUNNING from *)
(* the start to the shutdown, with the database open and the positions     *)
(* monitored, and STOPPED when the database is closed and the connection   *)
(* is gone.                                                                *)
(***************************************************************************)
Up == phase \in {"starting", "started"} /\ stop = "no"
StateIsTrue ==
  /\ ~exited => (system = "RUNNING" <=> Up)
  /\ ~exited /\ system = "RUNNING" => open /\ "workflow" \in monitors
  /\ system = "STOPPED" => ~open /\ ~node

(* "Initialize trade executor": a system that has started can execute a trade. *)
ExecutorIsReady == phase = "started" => wallet

(* A trade is sent only when its outcome can still be recorded. *)
SentWhenRecordable == [][trade # "sent" /\ trade' = "sent" => open]_vars

(* A shutdown comes to its end, whatever happens to the connection meanwhile. *)
ShutdownEnds == stop = "watcher" ~> stop = "done" \/ exited

(***************************************************************************)
(* "Graceful shutdown": the process does not end before shutdown() has.    *)
(***************************************************************************)
ExitsAfterShutdown == exited /\ phase = "started" => stop = "done"

(* "Graceful shutdown": a trade that was sent is recorded. *)
TradesRecorded == trade # "lost"

(* "Shutdown all components": in a system that is STOPPED no monitor and no interface runs. *)
StoppedIsQuiet == system = "STOPPED" => monitors = {} /\ interface = "none"

(* "Trading paused": after the command no trade is sent. *)
PausedSendsNothing == [][paused => ~(trade # "sent" /\ trade' = "sent")]_vars

(* "Get comprehensive system health information": CONNECTED means connected. *)
HealthIsTrue == Up /\ status.rpc = "CONNECTED" => node
=============================================================================
