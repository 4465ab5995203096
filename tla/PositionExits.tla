--------------------------- MODULE PositionExits ---------------------------
(***************************************************************************)
(* How a position comes to be exited: the PositionManager of               *)
(* trading/position-manager.ts with its set of pending exits, and those    *)
(* who ask it for exits: its own monitor, the PositionWorkflowCoordinator  *)
(* of core/workflows/position-workflow.ts, the controller's monitor, and   *)
(* 'exitRequest' events.                                                   *)
(*                                                                         *)
(* All of them wait for nothing but the synchronous database, that is, in  *)
(* the queue of microtasks.  A monitor's run is started by a timer, when   *)
(* that queue is empty, and is over before anything else: it is one step.  *)
(* Events may come several in one turn of the event loop; then the exits   *)
(* they ask for interleave at the await of processExitRequest().           *)
(***************************************************************************)
EXTENDS Naturals, FiniteSets

CONSTANTS
  Positions,           \* ids of positions
  MaxConcurrentExits   \* options.maxConcurrentExits

ASSUME ExitsAssumption == IsFiniteSet(Positions) /\ MaxConcurrentExits \in Nat \ {0}

VARIABLES
  dryRun,     \* config.dryRun, which stays as it is
  status,     \* the rows of table positions
  pending,    \* pendingExits
  begun,      \* processExitRequest() calls that found a position open, and wait
  decisions,  \* exit decisions emitted for a position, counted up to 2
  completed,  \* positions whose exit the coordinator has called completed
  workflow,   \* activePositionWorkflows, by what they say of the monitoring
  running,    \* the monitors whose timer runs
  prices,     \* currentPrices: none, or as old as they are
  raced       \* positions asked for twice in one turn; only a property looks at it

vars == <<dryRun, status, pending, begun, decisions, completed, workflow, running, prices, raced>>

Monitors == {"manager", "workflow", "controller"}

Init ==
  /\ dryRun \in BOOLEAN /\ raced = {}
  /\ status = [p \in Positions |-> "none"]
  /\ pending = {}
  /\ begun = [p \in Positions |-> 0]
  /\ decisions = [p \in Positions |-> 0]
  /\ completed = {}
  /\ workflow = [p \in Positions |-> "none"]
  /\ running = {}
  /\ prices = [p \in Positions |-> "none"]
-----------------------------------------------------------------------------
Open == {p \in Positions : status[p] = "OPEN"}
QueueIsEmpty == \A p \in Positions : begun[p] = 0
CountedTwice(n) == IF n < 2 THEN n + 1 ELSE n

(* The exit decisions for a set of positions are emitted. *)
Emitted(exits) ==
  decisions' = [p \in Positions |-> IF p \in exits THEN CountedTwice(decisions[p]) ELSE decisions[p]]

(* The manager's monitor leaves room for no more than its limit. *)
Room(exits) == exits # {} => Cardinality(pending \cup exits) <= MaxConcurrentExits

(* A faulty variant: a position whose exit is pending is asked for again. *)
ExitsAskedAgain(wanted) == wanted \cap Open

(* processExitRequest() refuses what is pending or not open. *)
ExitsTaken(wanted) == (wanted \cap Open) \ pending

(* A faulty variant: the exit stays pending when the position is closed. *)
StillPending(p) == pending

NoLongerPending(p) == pending \ {p}

(* A trade has succeeded: its position is open, and the coordinator has a workflow for it. *)
PositionOpens(p) ==
  /\ QueueIsEmpty /\ status[p] = "none"
  /\ status' = [status EXCEPT ![p] = "OPEN"]
  /\ workflow' = [workflow EXCEPT ![p] = "ACTIVE"]
  /\ UNCHANGED <<dryRun, raced, pending, begun, decisions, completed, running, prices>>

(* updateTokenPrice(), and time that passes. *)
PriceChanges(p) ==
  /\ QueueIsEmpty
  /\ prices' \in {[prices EXCEPT ![p] = a] : a \in {"fresh", "stale"}}
  /\ prices' # prices /\ (prices[p] = "none" => prices'[p] = "fresh")
  /\ UNCHANGED <<dryRun, raced, status, pending, begun, decisions, completed, workflow, running>>

(* The timers are set and cleared; the coordinator marks its workflows when it stops. *)
StartMonitor(m) ==
  /\ QueueIsEmpty /\ m \notin running
  /\ running' = running \cup {m}
  /\ UNCHANGED <<dryRun, raced, status, pending, begun, decisions, completed, workflow, prices>>

StopMonitor(m) ==
  /\ QueueIsEmpty /\ m \in running
  /\ running' = running \ {m}
  /\ workflow' = IF m = "workflow"
                 THEN [p \in Positions |-> IF workflow[p] = "none" THEN "none" ELSE "STOPPED"]
                 ELSE workflow
  /\ UNCHANGED <<dryRun, raced, status, pending, begun, decisions, completed, prices>>

(* pausePositionMonitoring() and resumePositionMonitoring() *)
MarkMonitoring(p, mark) ==
  /\ QueueIsEmpty /\ workflow[p] # "none"
  /\ workflow' = [workflow EXCEPT ![p] = mark]
  /\ UNCHANGED <<dryRun, raced, status, pending, begun, decisions, completed, running, prices>>
-----------------------------------------------------------------------------
(***************************************************************************)
(* monitorPositions() of the manager: positions with a fresh price and no  *)
(* pending exit are evaluated, and those that should be exited taken in    *)
(* turn while there is room.                                               *)
(***************************************************************************)
ManagerMonitors ==
  /\ "manager" \in running /\ QueueIsEmpty
  /\ \E wanted \in SUBSET {p \in Open \ pending : prices[p] = "fresh"} :
     \E taken \in SUBSET wanted :
       /\ Room(taken)
       /\ taken # wanted => ~Room(taken \cup {CHOOSE p \in wanted \ taken : TRUE})
       /\ pending' = pending \cup taken /\ Emitted(taken)
  /\ UNCHANGED <<dryRun, raced, status, begun, completed, workflow, running, prices>>

(***************************************************************************)
(* executeMonitoringCycle() of the coordinator: every open position is     *)
(* evaluated, and for those that should be exited handleExitRequest() is   *)
(* done.  A read that fails leaves the position, and its workflow, for the *)
(* next cycle.                                                             *)
(***************************************************************************)
WorkflowMonitors ==
  /\ "workflow" \in running /\ QueueIsEmpty
  /\ \E read \in SUBSET Open :
     \E wanted \in SUBSET read :
       /\ completed' = IF dryRun THEN completed ELSE completed \cup wanted
       /\ workflow' = [p \in Positions |->
                         IF p \in wanted THEN "none"
                         ELSE IF p \in Open /\ workflow[p] = "none" THEN "ACTIVE" ELSE workflow[p]]
       /\ LET taken == IF dryRun THEN {} ELSE ExitsTaken(wanted) IN
          pending' = pending \cup taken /\ Emitted(taken)
  /\ UNCHANGED <<dryRun, raced, status, begun, running, prices>>

(* checkAndExitPositions() of the controller *)
ControllerMonitors ==
  /\ "controller" \in running /\ QueueIsEmpty /\ ~dryRun
  /\ \E wanted \in SUBSET Open :
       LET taken == ExitsTaken(wanted) IN pending' = pending \cup taken /\ Emitted(taken)
  /\ UNCHANGED <<dryRun, raced, status, begun, completed, workflow, running, prices>>

(***************************************************************************)
(* An 'exitRequest' event: handleExitRequest() up to the await of          *)
(* processExitRequest(), or to its end if that refuses.                    *)
(***************************************************************************)
ExitRequested(p) ==
  /\ status[p] # "none"
  /\ raced' = IF begun[p] > 0 THEN raced \cup {p} ELSE raced
  /\ IF ~dryRun /\ p \in ExitsTaken({p})
     THEN /\ begun[p] < 2
          /\ begun' = [begun EXCEPT ![p] = @ + 1]
          /\ UNCHANGED <<workflow, completed>>
     ELSE /\ workflow' = [workflow EXCEPT ![p] = "none"]
          /\ completed' = IF dryRun THEN completed ELSE completed \cup {p}
          /\ UNCHANGED begun
  /\ UNCHANGED <<dryRun, status, pending, decisions, running, prices>>

(* processExitRequest() goes on, and its caller. *)
ExitGoesOn(p) ==
  /\ begun[p] > 0
  /\ begun' = [begun EXCEPT ![p] = @ - 1]
  /\ pending' = pending \cup {p} /\ Emitted({p})
  /\ completed' = completed \cup {p}
  /\ workflow' = [workflow EXCEPT ![p] = "none"]
  /\ UNCHANGED <<dryRun, raced, status, running, prices>>

(* closePosition(): nothing in the program calls it, who embeds it can. *)
ClosePosition(p) ==
  /\ QueueIsEmpty /\ p \in Open
  /\ status' = [status EXCEPT ![p] = "CLOSED"]
  /\ pending' = NoLongerPending(p)
  /\ UNCHANGED <<dryRun, raced, begun, decisions, completed, workflow, running, prices>>

Next ==
  \/ \E p \in Positions :
       \/ PositionOpens(p) \/ PriceChanges(p) \/ ExitRequested(p) \/ ExitGoesOn(p) \/ ClosePosition(p)
       \/ \E mark \in {"ACTIVE", "PAUSED"} : MarkMonitoring(p, mark)
  \/ \E m \in Monitors : StartMonitor(m) \/ StopMonitor(m)
  \/ ManagerMonitors \/ WorkflowMonitors \/ ControllerMonitors

Spec == Init /\ [][Next]_vars
-----------------------------------------------------------------------------
(* The state is well typed; an exit is pending only for a position that is open. *)
ExitsTypeOK ==
  /\ status \in [Positions -> {"none", "OPEN", "CLOSED"}]
  /\ pending \subseteq Open /\ completed \subseteq Positions
  /\ begun \in [Positions -> 0..2] /\ decisions \in [Positions -> 0..2]
  /\ workflow \in [Positions -> {"none", "ACTIVE", "PAUSED", "STOPPED"}]
  /\ running \subseteq Monitors /\ dryRun \in BOOLEAN /\ raced \subseteq Positions
  /\ prices \in [Positions -> {"none", "fresh", "stale"}]

(***************************************************************************)
(* "Exit already pending": whoever asks, and however often, at most one    *)
(* decision to exit is emitted for a position, and its exit is pending     *)
(* from then on until it is closed.  (Not so if it is asked for twice in   *)
(* one turn of the event loop: both requests find nothing pending.)        *)
(***************************************************************************)
ExitedOnce(p) ==
  /\ decisions[p] <= 1
  /\ p \in Open => (decisions[p] = 1 <=> p \in pending)
OneExitPerPosition == \A p \in Positions \ raced : ExitedOnce(p)
ExitedOnceAlways == \A p \in Positions : ExitedOnce(p)

(* "Maximum concurrent exits reached": no more exits than that are pending. *)
ExitsWithinLimit == Cardinality(pending) <= MaxConcurrentExits

(* "Position exit completed": a position whose exit is completed is not open. *)
CompletedIsClosed == completed \cap Open = {}

(* "Position monitoring paused": no exit is decided for a position that is PAUSED. *)
PausedIsLeftAlone ==
  [][\A p \in Positions : workflow[p] = "PAUSED" /\ WorkflowMonitors => decisions'[p] = decisions[p]]_vars
=============================================================================
