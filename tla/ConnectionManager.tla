------------------------- MODULE ConnectionManager -------------------------
(***************************************************************************)
(* ConnectionManager of blockchain/connection-manager.ts: one RPC          *)
(* connection, a health check on an interval, retries with backoff, and    *)
(* the reconnect() and restart that error recovery asks for.               *)
(*                                                                         *)
(* Every request to the RPC node is awaited, so a call is two steps: it    *)
(* begins, and it settles in whatever state the manager has by then.       *)
(* Health checks come on a timer that does not wait for the previous one.  *)
(***************************************************************************)
EXTENDS Naturals

CONSTANTS Calls,        \* identities of requests in flight
          MaxRetries    \* reconnectPolicy.maxRetries

ASSUME RetriesAssumption == MaxRetries \in Nat

VARIABLES connection,      \* is there a Connection object
          connected,       \* status.isConnected
          attempts,        \* status.reconnectAttempts
          retryTimer,      \* reconnectTimeout is set
          healthChecking,  \* healthCheckInterval is set
          shuttingDown,    \* isShuttingDown
          call,            \* what each call in flight is for
          recovered        \* error recovery has intervened; only a property looks at it

connectionVars ==
  <<connection, connected, attempts, retryTimer, healthChecking, shuttingDown, call,
    recovered>>

Kinds == {"init", "health", "retry", "forced"}

(* getConnection() returns a connection instead of throwing. *)
Usable == connection /\ connected

ConnectionInit ==
  /\ connection = FALSE /\ connected = FALSE
  /\ attempts = 0
  /\ retryTimer = FALSE /\ healthChecking = FALSE /\ shuttingDown = FALSE
  /\ call = [c \in Calls |-> "none"]
  /\ recovered = FALSE
-----------------------------------------------------------------------------
Begins(c, kind) == call[c] = "none" /\ call' = [call EXCEPT ![c] = kind]
Settles(c, kind) == call[c] = kind /\ call' = [call EXCEPT ![c] = "none"]

(* connect() up to its request, on a new Connection object. *)
Connect(c, kind) == Begins(c, kind) /\ connection' = TRUE

(* connect() once its request is answered. *)
Connected == connected' = TRUE /\ attempts' = 0

(* A faulty variant: the budget of retries is not looked at. *)
ScheduleForever ==
  retryTimer' = (retryTimer \/ ~shuttingDown)

(* scheduleReconnection() *)
ScheduleReconnection ==
  retryTimer' = (retryTimer \/ (~shuttingDown /\ attempts < MaxRetries))

(* initialize(), which the program calls once. *)
Initialize(c) ==
  /\ ~connection /\ ~shuttingDown
  /\ Connect(c, "init")
  /\ UNCHANGED <<connected, attempts, retryTimer, healthChecking, shuttingDown>>

(* initialize() succeeds: the health check starts and 'connected' is emitted. *)
InitSucceeds(c) ==
  /\ Settles(c, "init")
  /\ Connected
  /\ healthChecking' = TRUE
  /\ UNCHANGED <<connection, retryTimer, shuttingDown>>

(* A request fails, and nothing but the error is left of it. *)
CallFails(c) ==
  /\ \/ Settles(c, "init")
     \/ Settles(c, "forced")
     \/ Settles(c, "health") /\ ~connected
  /\ UNCHANGED <<connection, connected, attempts, retryTimer, healthChecking, shuttingDown>>

(* A faulty variant: a lost connection is not checked any more. *)
HealthBeginsIfConnected(c) ==
  /\ healthChecking /\ ~shuttingDown /\ connected
  /\ Begins(c, "health")
  /\ UNCHANGED <<connection, connected, attempts, retryTimer, healthChecking, shuttingDown>>

(* The interval fires: a health check begins. *)
HealthBegins(c) ==
  /\ healthChecking /\ ~shuttingDown
  /\ Begins(c, "health")
  /\ UNCHANGED <<connection, connected, attempts, retryTimer, healthChecking, shuttingDown>>

(* A health check passes, perhaps after the connection was lost. *)
HealthPasses(c) ==
  /\ Settles(c, "health")
  /\ connected' = TRUE
  /\ UNCHANGED <<connection, attempts, retryTimer, healthChecking, shuttingDown>>

(* A health check fails on a connection taken for good: 'disconnected'. *)
HealthDrops(c) ==
  /\ Settles(c, "health") /\ connected
  /\ connected' = FALSE
  /\ ScheduleReconnection
  /\ UNCHANGED <<connection, attempts, healthChecking, shuttingDown>>

(* The retry timer fires. *)
RetryFires(c) ==
  /\ retryTimer /\ retryTimer' = FALSE
  /\ attempts' = attempts + 1
  /\ Connect(c, "retry")
  /\ UNCHANGED <<connected, healthChecking, shuttingDown>>

RetryFails(c) ==
  /\ Settles(c, "retry")
  /\ ScheduleReconnection
  /\ UNCHANGED <<connection, connected, attempts, healthChecking, shuttingDown>>

(* A retry or a forced reconnection succeeds. *)
Reconnected(c) ==
  /\ Settles(c, "retry") \/ Settles(c, "forced")
  /\ Connected
  /\ UNCHANGED <<connection, retryTimer, healthChecking, shuttingDown>>

(* Signal handlers and error recovery are set up after initialize() has succeeded. *)
Initialized == healthChecking \/ shuttingDown

(* reconnect(), called by error recovery. *)
Reconnect(c) ==
  /\ Initialized
  /\ Connect(c, "forced")
  /\ connected' = FALSE /\ attempts' = 0 /\ retryTimer' = FALSE
  /\ recovered' = TRUE
  /\ UNCHANGED <<healthChecking, shuttingDown>>

(* A faulty variant: shutdown() keeps the Connection object. *)
ShutdownKeepingObject ==
  /\ Initialized
  /\ shuttingDown' = TRUE
  /\ healthChecking' = FALSE /\ retryTimer' = FALSE
  /\ connected' = FALSE
  /\ UNCHANGED <<connection, attempts, call>>

(* shutdown() *)
Shutdown ==
  /\ Initialized
  /\ shuttingDown' = TRUE
  /\ healthChecking' = FALSE /\ retryTimer' = FALSE
  /\ connected' = FALSE /\ connection' = FALSE
  /\ UNCHANGED <<attempts, call>>

(* restartComponent('connection') of error recovery: shutdown() and initialize(). *)
Restart(c) ==
  /\ Initialized
  /\ shuttingDown' = TRUE
  /\ healthChecking' = FALSE /\ retryTimer' = FALSE
  /\ connected' = FALSE
  /\ Connect(c, "init")
  /\ recovered' = TRUE
  /\ UNCHANGED attempts

(* What the manager does by itself, or the controller asks of it. *)
Own(c) == \/ Initialize(c) \/ InitSucceeds(c) \/ CallFails(c)
          \/ HealthBegins(c) \/ HealthPasses(c) \/ HealthDrops(c)
          \/ RetryFires(c) \/ RetryFails(c) \/ Reconnected(c)

ConnectionNext ==
  \/ ((\E c \in Calls : Own(c)) \/ Shutdown) /\ UNCHANGED recovered
  \/ \E c \in Calls : Reconnect(c) \/ Restart(c)

(* Requests settle, the interval keeps firing and so does a timer. *)
Progress(c) == \/ InitSucceeds(c) \/ CallFails(c) \/ HealthPasses(c)
               \/ HealthDrops(c) \/ RetryFails(c) \/ Reconnected(c)
-----------------------------------------------------------------------------
ConnectionTypeOK ==
  /\ connection \in BOOLEAN /\ connected \in BOOLEAN
  /\ attempts \in 0..MaxRetries
  /\ retryTimer \in BOOLEAN /\ healthChecking \in BOOLEAN /\ shuttingDown \in BOOLEAN
  /\ call \in [Calls -> Kinds \cup {"none"}]
  /\ recovered \in BOOLEAN

(***************************************************************************)
(* A connection that getConnection() hands out is one that the health      *)
(* check will look at again, whatever calls were under way when it was     *)
(* lost or shut down.  (Not once error recovery has intervened: its        *)
(* restart leaves isShuttingDown set, and each health check then returns   *)
(* at its first line.)                                                     *)
(***************************************************************************)
UsableIsChecked == Usable /\ ~recovered => healthChecking /\ ~shuttingDown

(* What goes wrong with the node, or is done by others than the manager itself. *)
Quiet(c) == ~ ( \/ CallFails(c) \/ HealthDrops(c) \/ RetryFails(c)
                \/ Reconnect(c) \/ Restart(c) \/ Shutdown )

(***************************************************************************)
(* Said of the manager, and not so.  connection-manager.test.ts, "should   *)
(* shutdown gracefully": once shut down, the status is not connected.      *)
(***************************************************************************)
ShutdownDisconnects == shuttingDown /\ ~recovered => ~connected

(***************************************************************************)
(* docs/project/SPEC.md, "Automatic reconnection for RPC failures with     *)
(* exponential backoff": losing a connection schedules a retry, or one is  *)
(* under way.  Not so either: a used-up budget may stay used up.           *)
(***************************************************************************)
LossSchedulesRetry ==
  [][(\E c \in Calls : HealthDrops(c)) /\ ~shuttingDown
       => retryTimer' \/ \E c \in Calls : call[c] \in {"retry", "forced"}]_connectionVars
=============================================================================
