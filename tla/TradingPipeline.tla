-------------------------- MODULE TradingPipeline --------------------------
(***************************************************************************)
(* How a new pool becomes a trade: the TradingWorkflowCoordinator of       *)
(* core/workflows/trading-workflow.ts, the state machine it keeps for each *)
(* pool, and the handlers of the CoreController for the same events.       *)
(*                                                                         *)
(* Events are delivered synchronously: emitting one runs every handler up  *)
(* to its first await, the coordinator's before the controller's.  Pool    *)
(* evaluations and trades are the awaits during which other events come.   *)
(* Saving a pool is an await as well, but of the synchronous database: it  *)
(* goes on before the event loop turns, and the controller, who listens to *)
(* 'newPool', emits it after every save.  What needs the network, a timer  *)
(* or the user has the guard Turns.                                        *)
(*                                                                         *)
(* The coordinator finds the workflow of a decision or of a result by      *)
(* taking the first of its Map, so the order of insertion is part of the   *)
(* state: "before" holds the active workflows inserted earlier.            *)
(***************************************************************************)
CONSTANTS Pools,
          Calls,     \* bound: evaluations in flight
          Trades     \* bound: executions in flight

ASSUME PoolsAssumption == {"none", "controller"} \cap Pools = {}

VARIABLES dryRun,  \* config.dryRun, which stays as it is
          saving,  \* the pool the controller is saving
          book,    \* activeWorkflows and activeStateMachines
          call,    \* evaluations in flight
          trade    \* executions in flight, with the workflow they were started for

vars == <<dryRun, saving, book, call, trade>>

Flow == [active     : BOOLEAN,
         before     : SUBSET Pools,
         evaluation : {"PENDING", "IN_PROGRESS", "COMPLETED"},
         execution  : {"PENDING", "IN_PROGRESS"},
         machine    : {"IDLE", "EVALUATING_POOL", "PREPARING_TRADE"}]

NoFlow == [active |-> FALSE, before |-> {}, evaluation |-> "PENDING",
           execution |-> "PENDING", machine |-> "IDLE"]

(* own: the call's state machine is the one the coordinator still keeps. *)
NoCall == [by |-> "none", pool |-> "none", own |-> FALSE]
Call == [by : {"workflow", "controller"}, pool : Pools, own : BOOLEAN] \cup {NoCall}

Init ==
  /\ dryRun \in BOOLEAN
  /\ saving = "none"
  /\ book = [p \in Pools |-> NoFlow]
  /\ call = [c \in Calls |-> NoCall]
  /\ trade = [t \in Trades |-> "none"]

(* The event loop turns when no handler can go on without it. *)
Turns == saving = "none"
-----------------------------------------------------------------------------
Active(b) == {p \in Pools : b[p].active}

(* The first key of the Map, if it has one. *)
First(b) == {p \in Active(b) : b[p].before = {}}

(* cleanupWorkflow() *)
Cleanup(b, S) ==
  [q \in Pools |-> IF q \in S THEN NoFlow ELSE [b[q] EXCEPT !.before = @ \ S]]

(* A faulty variant: the last of the Map is taken, not the first. *)
FinishedLast(b) == Cleanup(b, {p \in Active(b) : \A q \in Active(b) : p \notin b[q].before})

(* handleTradeResultWorkflow(), for a success and for a failure. *)
Finished(b) == Cleanup(b, First(b))

(* A faulty variant: every workflow is marked, not the first. *)
MarkedAll(b) ==
  [q \in Pools |-> IF b[q].active THEN [b[q] EXCEPT !.execution = "IN_PROGRESS"] ELSE b[q]]

(* handleTradeDecisionWorkflow() up to its await. *)
Marked(b) ==
  [q \in Pools |-> IF q \in First(b) THEN [b[q] EXCEPT !.execution = "IN_PROGRESS"] ELSE b[q]]

(***************************************************************************)
(* What the handlers of a decision do to the workflows.  In a dry run the  *)
(* coordinator emits a result if it has a workflow, and so does the        *)
(* controller.                                                             *)
(***************************************************************************)
Decided(b, shouldTrade) ==
  IF ~shouldTrade THEN Cleanup(b, First(b))
  ELSE IF dryRun THEN Finished(Finished(Marked(b)))
  ELSE Marked(b)

(* The executions they start: the coordinator's, if it has a workflow, and the controller's. *)
TradesStart(b, shouldTrade) ==
  \/ /\ ~shouldTrade \/ dryRun
     /\ UNCHANGED trade
  \/ /\ shouldTrade /\ ~dryRun /\ First(b) = {}
     /\ \E u \in Trades : trade[u] = "none" /\ trade' = [trade EXCEPT ![u] = "controller"]
  \/ /\ shouldTrade /\ ~dryRun
     /\ \E p \in First(b), t, u \in Trades :
          /\ t # u /\ trade[t] = "none" /\ trade[u] = "none"
          /\ trade' = [trade EXCEPT ![t] = p, ![u] = "controller"]

(* A faulty variant: the state machine of a running evaluation stays the coordinator's. *)
DisownedNever(calls, S) == calls

(* The calls when the state machines of the pools in S are reset or replaced. *)
Disowned(calls, S) ==
  [c \in Calls |-> IF calls[c] # NoCall /\ calls[c].pool \in S
                   THEN [calls[c] EXCEPT !.own = FALSE] ELSE calls[c]]

(* A handler leaves the workflows as b and the evaluations as calls. *)
Leaves(b, calls) ==
  /\ book' = b
  /\ call' = Disowned(calls, Active(book) \ Active(b))

(* A faulty variant: the workflow is put first. *)
InsertedFirst(b, p) ==
  [b EXCEPT ![p] = [active |-> TRUE, before |-> {}, evaluation |-> "IN_PROGRESS",
                    execution |-> "PENDING", machine |-> "EVALUATING_POOL"]]

(* Map.set() on a key that is there leaves it at its place. *)
Inserted(b, p) ==
  [b EXCEPT ![p] = [active |-> TRUE,
                    before |-> IF b[p].active THEN b[p].before ELSE Active(b),
                    evaluation |-> "IN_PROGRESS", execution |-> "PENDING",
                    machine |-> "EVALUATING_POOL"]]

(* The watcher found a pool, and the controller saves it. *)
PoolDetected(p) ==
  /\ Turns
  /\ saving' = p
  /\ UNCHANGED <<dryRun, book, call, trade>>

(***************************************************************************)
(* The pool is saved and 'newPool' emitted.  The coordinator starts a      *)
(* workflow and evaluates the pool, the controller saves it again as one   *)
(* of the listeners, and evaluates it as the one who emitted.              *)
(***************************************************************************)
PoolSaved(p) ==
  /\ saving = p
  /\ \E c, d \in Calls :
       /\ c # d /\ call[c] = NoCall /\ call[d] = NoCall
       /\ call' = [Disowned(call, {p}) EXCEPT
                     ![c] = [by |-> "workflow", pool |-> p, own |-> TRUE],
                     ![d] = [by |-> "controller", pool |-> p, own |-> FALSE]]
  /\ book' = Inserted(book, p)
  /\ UNCHANGED <<dryRun, saving, trade>>

(* The database fails: the controller logs it and drops the pool. *)
SaveFails(p) ==
  /\ saving = p
  /\ saving' = "none"
  /\ UNCHANGED <<dryRun, book, call, trade>>

(* The coordinator notes that an evaluation is complete, if it still knows the pool. *)
Evaluated(b, e, shouldTrade) ==
  IF e.by = "controller" \/ ~b[e.pool].active THEN b
  ELSE [b EXCEPT ![e.pool].evaluation = "COMPLETED",
                 ![e.pool].machine = IF e.own /\ shouldTrade /\ @ = "EVALUATING_POOL"
                                     THEN "PREPARING_TRADE" ELSE @]

(* The coordinator's evaluation recommends nothing, or fails. *)
NothingRecommended(c) ==
  /\ call[c].by = "workflow"
  /\ Leaves(Cleanup(book, {call[c].pool}), [call EXCEPT ![c] = NoCall])
  /\ UNCHANGED <<dryRun, saving, trade>>

(* The controller's evaluation recommends nothing. *)
ControllerFindsNothing(c) ==
  /\ call[c].by = "controller"
  /\ Leaves(book, [call EXCEPT ![c] = NoCall])
  /\ UNCHANGED <<dryRun, saving, trade>>

(* An evaluation, which asked the network for prices, ends with a decision: it is emitted. *)
DecisionMade(c, shouldTrade) ==
  /\ Turns /\ call[c] # NoCall
  /\ LET b == Evaluated(book, call[c], shouldTrade) IN
       /\ Leaves(Decided(b, shouldTrade), [call EXCEPT ![c] = NoCall])
       /\ TradesStart(b, shouldTrade)
  /\ UNCHANGED <<dryRun, saving>>

(* A manual trade, or the exit of a position: a decision without a pool. *)
OtherDecision ==
  /\ Turns
  /\ Leaves(Decided(book, TRUE), call)
  /\ TradesStart(book, TRUE)
  /\ UNCHANGED <<dryRun, saving>>

(* A trade succeeds or fails, and its result is emitted. *)
TradeSettles(t) ==
  /\ Turns /\ trade[t] # "none"
  /\ trade' = [trade EXCEPT ![t] = "none"]
  /\ Leaves(Finished(book), call)
  /\ UNCHANGED <<dryRun, saving>>

CallSettles(c) ==
  \/ NothingRecommended(c) \/ ControllerFindsNothing(c)
  \/ \E shouldTrade \in BOOLEAN : DecisionMade(c, shouldTrade)

Next ==
  \/ \E p \in Pools : PoolDetected(p) \/ PoolSaved(p) \/ SaveFails(p)
  \/ \E c \in Calls : CallSettles(c)
  \/ OtherDecision
  \/ \E t \in Trades : TradeSettles(t)

Spec == Init /\ [][Next]_vars

(***************************************************************************)
(* A save ends, and executeTrade(), whose requests are answered or time    *)
(* out, goes on with the answer as soon as the event loop turns.           *)
(***************************************************************************)
FairSpec ==
  /\ Spec
  /\ \A p \in Pools : WF_vars(PoolSaved(p))
  /\ \A t \in Trades : SF_vars(TradeSettles(t))

(* The requests of an evaluation are answered or time out as well. *)
AnsweredSpec == FairSpec /\ \A c \in Calls : SF_vars(Turns /\ CallSettles(c))
-----------------------------------------------------------------------------
(* The Map orders the active workflows, and keeps nothing of the others. *)
Ordered(b) ==
  /\ \A p \in Pools \ Active(b) : b[p] = NoFlow
  /\ \A p \in Active(b) : b[p].before \subseteq Active(b) \ {p}
  /\ \A p, q \in Active(b) : p # q => (p \in b[q].before <=> q \notin b[p].before)
  /\ \A p, q \in Active(b) : p \in b[q].before => b[p].before \subseteq b[q].before

PipelineTypeOK ==
  /\ dryRun \in BOOLEAN
  /\ saving \in Pools \cup {"none"}
  /\ book \in [Pools -> Flow]
  /\ call \in [Calls -> Call]
  /\ trade \in [Trades -> Pools \cup {"none", "controller"}]
  /\ Ordered(book)

(***************************************************************************)
(* An evaluation that ends takes the state machine it was started with     *)
(* into the next state only if the coordinator still keeps it: then the    *)
(* machine is in EVALUATING_POOL, and no other evaluation has it.          *)
(***************************************************************************)
MachineWaits ==
  \A c \in Calls : call[c].own =>
    /\ call[c].pool \in Active(book) /\ book[call[c].pool].machine = "EVALUATING_POOL"
    /\ \A d \in Calls : call[d].own /\ call[d].pool = call[c].pool => d = c

(***************************************************************************)
(* A workflow that waits for its trade is the first of the Map, which is   *)
(* where a result looks for it, and a trade that was started for it is     *)
(* under way: no result, skipped pool, manual trade or position exit in    *)
(* between leaves a workflow waiting for a trade that has ended.           *)
(***************************************************************************)
Executing(b) == {p \in Active(b) : b[p].execution = "IN_PROGRESS"}
ExecutingIsFirst ==
  /\ Executing(book) \subseteq First(book)
  /\ \A p \in Executing(book) : \E t \in Trades : trade[t] = p

(* As long as the event loop turns, a workflow does not wait for its trade for ever. *)
ExecutionsEnd == []<>Turns => \A p \in Pools : p \in Executing(book) ~> p \notin Executing(book)

(***************************************************************************)
(* "Evaluate pool for trading if strategy engine is available": an         *)
(* evaluation that was started is answered, which takes the event loop to  *)
(* turn after a pool was saved.  (In the program there is always room for  *)
(* an evaluation; that Calls has none left may not be why.)                *)
(***************************************************************************)
HasRoom == \E c, d \in Calls : c # d /\ call[c] = NoCall /\ call[d] = NoCall
EvaluationsEnd ==
  []<>(Turns \/ HasRoom) => \A c \in Calls : call[c] # NoCall ~> call[c] = NoCall

(***************************************************************************)
(* "Cleanup completed workflow": when no evaluation and no trade is under  *)
(* way, no workflow is left.                                               *)
(***************************************************************************)
Quiet == call = [c \in Calls |-> NoCall] /\ trade = [t \in Trades |-> "none"]
NothingLeft == Quiet => Active(book) = {}

(***************************************************************************)
(* "Execute a trade based on a decision": a decision starts one trade.     *)
(***************************************************************************)
ExecutedOnce ==
  [][\A t, u \in Trades : trade[t] = "none" /\ trade[u] = "none"
                          /\ trade'[t] # "none" /\ trade'[u] # "none" => t = u]_vars

(***************************************************************************)
(* "Have both tokenAddress (from initial context) and tradeAmount": the    *)
(* state machine of a workflow whose evaluation is complete has taken it.  *)
(***************************************************************************)
EvaluatedIsPrepared ==
  \A p \in Active(book) :
    book[p].evaluation = "COMPLETED" => book[p].machine = "PREPARING_TRADE"
=============================================================================
