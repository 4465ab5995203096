--------------------------- MODULE AtomicPosition ---------------------------
(***************************************************************************)
(* AtomicPositionStateMachine: the state is one atomic integer, the        *)
(* context is guarded by contextMutex, and transition() holds              *)
(* transitionMutex across its awaits.  The program is single threaded, so  *)
(* the code between two awaits is one step, and the steps of concurrent    *)
(* calls interleave at every await.                                        *)
(*                                                                         *)
(* async-mutex grants in FIFO order: a mutex is the sequence of its        *)
(* holder and waiters.  The exclusive section of contextMutex contains no  *)
(* await, so its queue holds whole requests that ServeContext runs one at  *)
(* a time; a request whose "who" is Nobody was not awaited.                *)
(***************************************************************************)
EXTENDS PositionRules, PositionContext, Naturals, Sequences

CONSTANTS Callers,      \* concurrent callers of the machine, one call each at a time
          Nobody,       \* the issuer of an update that nothing awaits
          CallTriggers, \* triggers that callers pass to transition()
          ForcedStates, \* states that callers pass to forceState()
          MaxHistory,   \* entries kept by recordStateChange(); 50 in the code
          NoTrigger,    \* the omitted trigger of a forced change
          DefaultReason \* 'Force closed due to error'

ASSUME NobodyAssumption == Nobody \notin Callers
ASSUME CallTriggersAssumption == CallTriggers \subseteq Triggers
ASSUME ForcedStatesAssumption == ForcedStates \subseteq States
ASSUME HistoryAssumption == MaxHistory \in Nat \ {0} /\ NoTrigger \notin Triggers
ASSUME DefaultReasonAssumption == DefaultReason \in Reasons

VARIABLES atomicState,     \* STATE_NAMES[Atomics.load(atomicState, 0)]
          stateHistory,
          context,         \* contextManager.context
          contextQueue,    \* contextMutex: requests, the head is next to run
          transitionQueue, \* transitionMutex: callers, the head holds it
          pc,              \* where each caller's call is suspended
          call,            \* its arguments
          loaded,          \* currentState, loaded when the mutex is granted
          seen             \* the copy of the context that atomicRead() returned

machine == <<atomicState, stateHistory>>
locals == <<call, loaded, seen>>
vars == <<machine, context, contextQueue, transitionQueue, pc, locals>>

Lifecycle == INSTANCE PositionLifecycle
  WITH Rules <- AtomicRules, state <- atomicState, history <- stateHistory

CallerUpdates == {NoUpdates} \cup { ReasonUpdate(r) : r \in Reasons }
Calls == [trigger : Triggers \cup {NoTrigger}, updates : Updates]
NoCall == [trigger |-> NoTrigger, updates |-> NoUpdates]
Requests == [who : Callers \cup {Nobody}, updates : Updates]

Init == /\ atomicState = "CREATED"
        /\ stateHistory = Lifecycle!Record(<<>>, "CREATED", NoTrigger)
        /\ context = InitialContext
        /\ contextQueue = <<>>
        /\ transitionQueue = <<>>
        /\ pc = [c \in Callers |-> "idle"]
        /\ call = [c \in Callers |-> NoCall]
        /\ loaded = [c \in Callers |-> "CREATED"]
        /\ seen = [c \in Callers |-> InitialContext]
-----------------------------------------------------------------------------
(* contextMutex *)

Request(who, updates) == [who |-> who, updates |-> updates]
Ask(who, updates) == contextQueue' = Append(contextQueue, Request(who, updates))

(* Suspended on a request, and where the call goes on once it was served. *)
Waiting == {"updating", "reading", "pricing", "writing"}
Resumed == [l \in Waiting |-> CASE l = "updating" -> "updated"
                               [] l = "reading"  -> "seen"
                               [] l = "pricing"  -> "priced"
                               [] l = "writing"  -> "idle"]

(***************************************************************************)
(* atomicUpdate() and atomicRead(): the exclusive section of the request   *)
(* at the head.  A read is a request that updates nothing.                 *)
(***************************************************************************)
ServeContext ==
  /\ contextQueue # <<>>
  /\ LET req == Head(contextQueue)
     IN  /\ context' = Spread(context, req.updates)
         /\ contextQueue' = Tail(contextQueue)
         /\ \/ req.who = Nobody /\ UNCHANGED <<pc, seen>>
            \/ /\ req.who \in Callers
               /\ pc' = [pc EXCEPT ![req.who] = Resumed[@]]
               /\ seen' = IF pc[req.who] = "reading"
                          THEN [seen EXCEPT ![req.who] = context] ELSE seen
  /\ UNCHANGED <<machine, transitionQueue, call, loaded>>

(* transition(): the call, which queues for transitionMutex. *)
CallTransition(c, trigger, updates) ==
  /\ pc[c] = "idle"
  /\ pc' = [pc EXCEPT ![c] = "queued"]
  /\ call' = [call EXCEPT ![c] = [trigger |-> trigger, updates |-> updates]]
  /\ transitionQueue' = Append(transitionQueue, c)
  /\ UNCHANGED <<machine, context, contextQueue, loaded, seen>>

(* A faulty variant: the exclusive section starts without waiting for the mutex. *)
EnterWithoutMutex(c) ==
  /\ pc[c] = "queued"
  /\ loaded' = [loaded EXCEPT ![c] = atomicState]
  /\ Ask(c, call[c].updates)
  /\ pc' = [pc EXCEPT ![c] = IF call[c].updates = NoUpdates THEN "reading" ELSE "updating"]
  /\ UNCHANGED <<machine, context, transitionQueue, call, seen>>

(* The mutex is granted: load the state, then update the context or read it. *)
EnterTransition(c) ==
  /\ pc[c] = "queued"
  /\ transitionQueue # <<>> /\ Head(transitionQueue) = c
  /\ loaded' = [loaded EXCEPT ![c] = atomicState]
  /\ Ask(c, call[c].updates)
  /\ pc' = [pc EXCEPT ![c] = IF call[c].updates = NoUpdates THEN "reading" ELSE "updating"]
  /\ UNCHANGED <<machine, context, transitionQueue, call, seen>>

(* atomicUpdate() has returned: read the context back. *)
ReadAfterUpdate(c) ==
  /\ pc[c] = "updated"
  /\ Ask(c, NoUpdates)
  /\ pc' = [pc EXCEPT ![c] = "reading"]
  /\ UNCHANGED <<machine, context, transitionQueue, locals>>

(* return from transition(): the exclusive section ends, the mutex is released. *)
EndTransition(c) ==
  /\ transitionQueue' = Tail(transitionQueue)
  /\ pc' = [pc EXCEPT ![c] = "idle"]
  /\ call' = [call EXCEPT ![c] = NoCall]
  /\ loaded' = [loaded EXCEPT ![c] = "CREATED"]
  /\ seen' = [seen EXCEPT ![c] = InitialContext]
  /\ UNCHANGED context

(* A faulty variant: an early return that leaves the mutex held. *)
RefuseAndKeepMutex(c) ==
  /\ pc[c] = "seen"
  /\ \/ ~CanTransition(AtomicRules, loaded[c], call[c].trigger)
     \/ atomicState # loaded[c]
  /\ pc' = [pc EXCEPT ![c] = "idle"]
  /\ UNCHANGED <<machine, context, contextQueue, transitionQueue, locals>>

(* No rule leaves the loaded state on this trigger, or the CAS finds another state. *)
RefuseTransition(c) ==
  /\ pc[c] = "seen"
  /\ \/ ~CanTransition(AtomicRules, loaded[c], call[c].trigger)
     \/ atomicState # loaded[c]
  /\ EndTransition(c)
  /\ UNCHANGED <<machine, contextQueue>>

(***************************************************************************)
(* The updates a rule's action starts and does not await, computed from    *)
(* the context that was read before the compare-and-swap.                  *)
(***************************************************************************)
ActionUpdates(rule, ctx) ==
  IF rule[1] = "EXITING" /\ rule[3] = "CLOSED" /\ ctx["price"] # Undefined
  THEN {ClosedPnl(ctx)}
  ELSE IF rule[1] = "ERROR" /\ rule[3] = "CLOSED"
       THEN {ForcedClose(ctx, DefaultReason)}
       ELSE {}

(* A faulty variant: the new state is stored without comparing. *)
StoreWithoutCompare(c) ==
  /\ pc[c] = "seen"
  /\ \E rule \in Applicable(AtomicRules, loaded[c], call[c].trigger) :
       /\ atomicState' = rule[3]
       /\ stateHistory' = Lifecycle!Record(stateHistory, rule[3], call[c].trigger)
       /\ \/ ActionUpdates(rule, seen[c]) = {} /\ UNCHANGED contextQueue
          \/ \E u \in ActionUpdates(rule, seen[c]) : Ask(Nobody, u)
  /\ EndTransition(c)

(* The compare-and-swap succeeds: run the rule's action, record the change. *)
TakeTransition(c) ==
  /\ pc[c] = "seen"
  /\ atomicState = loaded[c]
  /\ \E rule \in Applicable(AtomicRules, loaded[c], call[c].trigger) :
       /\ atomicState' = rule[3]
       /\ stateHistory' = Lifecycle!Record(stateHistory, rule[3], call[c].trigger)
       /\ \/ ActionUpdates(rule, seen[c]) = {} /\ UNCHANGED contextQueue
          \/ \E u \in ActionUpdates(rule, seen[c]) : Ask(Nobody, u)
  /\ EndTransition(c)
-----------------------------------------------------------------------------
(* updatePrice(): read the context for entryPrice and amount ... *)
CallUpdatePrice(c, p) ==
  /\ pc[c] = "idle"
  /\ pc' = [pc EXCEPT ![c] = "pricing"]
  /\ call' = [call EXCEPT ![c] = [trigger |-> NoTrigger, updates |-> PriceUpdate(p)]]
  /\ Ask(c, NoUpdates)
  /\ UNCHANGED <<machine, context, transitionQueue, loaded, seen>>

(* A faulty variant: the price is written without the PnL. *)
WritePriceOnly(c) ==
  /\ pc[c] = "priced"
  /\ pc' = [pc EXCEPT ![c] = "writing"]
  /\ call' = [call EXCEPT ![c] = NoCall]
  /\ Ask(c, [f \in {"price"} |-> call[c].updates["price"]])
  /\ UNCHANGED <<machine, context, transitionQueue, loaded, seen>>

(* ... then write price and PnL together. *)
WritePrice(c) ==
  /\ pc[c] = "priced"
  /\ pc' = [pc EXCEPT ![c] = "writing"]
  /\ call' = [call EXCEPT ![c] = NoCall]
  /\ Ask(c, call[c].updates)
  /\ UNCHANGED <<machine, context, transitionQueue, loaded, seen>>

(* updateContext(); the callers pass an exit reason. *)
CallUpdateContext(c, r) ==
  /\ pc[c] = "idle"
  /\ pc' = [pc EXCEPT ![c] = "writing"]
  /\ Ask(c, ReasonUpdate(r))
  /\ UNCHANGED <<machine, context, transitionQueue, locals>>

(* forceState(): a plain store that takes no mutex. *)
ForceState(s) ==
  /\ atomicState' = s
  /\ stateHistory' = Lifecycle!Record(stateHistory, s, NoTrigger)
  /\ UNCHANGED <<context, contextQueue, transitionQueue, pc, locals>>

(* The steps the event loop takes on behalf of suspended calls. *)
Continue(c) == EnterTransition(c) \/ ReadAfterUpdate(c) \/ RefuseTransition(c)
               \/ TakeTransition(c) \/ WritePrice(c)

Next ==
  \/ \E c \in Callers :
       \/ \E t \in CallTriggers, u \in CallerUpdates : CallTransition(c, t, u)
       \/ \E p \in Prices : CallUpdatePrice(c, p)
       \/ \E r \in Reasons : CallUpdateContext(c, r)
       \/ EnterTransition(c)
       \/ ReadAfterUpdate(c)
       \/ RefuseTransition(c)
       \/ TakeTransition(c)
       \/ WritePrice(c)
  \/ ServeContext
  \/ \E s \in ForcedStates : ForceState(s)

Spec == Init /\ [][Next]_vars

(* A promise continuation that is ready runs: the microtask queue is drained. *)
FairSpec == Spec /\ WF_vars(ServeContext) /\ \A c \in Callers : WF_vars(Continue(c))
-----------------------------------------------------------------------------
PcLabels == {"idle", "queued", "updating", "updated", "reading", "seen",
             "pricing", "priced", "writing"}

TypeOK ==
  /\ atomicState \in States
  /\ stateHistory \in Seq(Lifecycle!Entry)
  /\ Len(stateHistory) \in 1..MaxHistory
  /\ context \in [Fields -> Values]
  /\ contextQueue \in Seq(Requests)
  /\ transitionQueue \in Seq(Callers)
  /\ pc \in [Callers -> PcLabels]
  /\ call \in [Callers -> Calls]
  /\ loaded \in [Callers -> States]
  /\ seen \in [Callers -> [Fields -> Values]]

(* A caller between the grant and the release of transitionMutex. *)
Inside(c) == pc[c] \in {"updating", "updated", "reading", "seen"}

(***************************************************************************)
(* At most one call is inside transition(), and it is the head of the      *)
(* queue, over the three awaits of the exclusive section and whichever     *)
(* way it returns.                                                         *)
(***************************************************************************)
TransitionsExclusive ==
  \A c \in Callers : Inside(c) => transitionQueue # <<>> /\ Head(transitionQueue) = c

(***************************************************************************)
(* Until an exit is stamped, the PnL shown is that of the latest price, no *)
(* matter how the read and the write of concurrent updatePrice() calls and *)
(* transitions interleave.                                                 *)
(***************************************************************************)
OpenPnlMatchesPrice ==
  context["exitTimestamp"] = Undefined => context["pnl"] = context["price"]

(***************************************************************************)
(* The parts of the inductive invariant that are of no interest by         *)
(* themselves: an awaited request belongs to a caller suspended on it,     *)
(* which has no other; and whoever writes price or PnL writes both from    *)
(* one price, or stamps the exit.                                          *)
(***************************************************************************)
Requested ==
  /\ \A i \in 1..Len(contextQueue) :
       contextQueue[i].who \in Callers => pc[contextQueue[i].who] \in Waiting
  /\ \A i, j \in 1..Len(contextQueue) :
       contextQueue[i].who = contextQueue[j].who /\ contextQueue[i].who \in Callers => i = j

Consistent(u) ==
  /\ "exitTimestamp" \in DOMAIN u => u["exitTimestamp"] = Stamped
  /\ {"price", "pnl"} \cap DOMAIN u # {} /\ "exitTimestamp" \notin DOMAIN u
       => {"price", "pnl"} \subseteq DOMAIN u /\ u["price"] = u["pnl"]

UpdatesConsistent ==
  /\ \A i \in 1..Len(contextQueue) : Consistent(contextQueue[i].updates)
  /\ \A c \in Callers : Consistent(call[c].updates)

IInv == TypeOK /\ TransitionsExclusive /\ Requested /\ UpdatesConsistent /\ OpenPnlMatchesPrice

(***************************************************************************)
(* The state and the history behave as PositionLifecycle promises, though  *)
(* transition() suspends three times between load and compare-and-swap and *)
(* forceState() takes no mutex.                                            *)
(***************************************************************************)
LifecycleSpec == Lifecycle!Spec

(* A closed position leaves CLOSED only by forceState(), recorded as such. *)
ClosedIsFinal == Lifecycle!ClosedIsFinal

(* The history is truthful (PositionLifecycle!HistoryFollowsRules). *)
HistoryFollowsRules == Lifecycle!HistoryFollowsRules

(***************************************************************************)
(* No call hangs: both mutexes are released on every path, and waiting for *)
(* contextMutex while holding transitionMutex cannot deadlock.             *)
(***************************************************************************)
CallsReturn == \A c \in Callers : pc[c] # "idle" ~> pc[c] = "idle"

(***************************************************************************)
(* race-condition-regression.test.ts: "Final PnL should be correctly       *)
(* calculated and consistent" once a position is CLOSED.  With no request  *)
(* left to run, the PnL should be that of the price the context shows.     *)
(***************************************************************************)
ClosedPnlMatchesPrice ==
  atomicState = "CLOSED" /\ contextQueue = <<>> => context["pnl"] = context["price"]
=============================================================================
