-------------------------- MODULE PositionMachine --------------------------
(***************************************************************************)
(* PositionStateMachine, the original position state machine: every        *)
(* operation is synchronous, so each is one step.                          *)
(***************************************************************************)
EXTENDS PositionRules, PositionContext, Naturals, Sequences

CONSTANTS MaxHistory,   \* entries kept by recordStateChange(); 50 in the code
          NoTrigger,    \* the omitted trigger of a forced change
          DefaultReason \* 'Force closed due to error'

ASSUME DefaultReasonAssumption == DefaultReason \in Reasons
ASSUME HistoryAssumption == MaxHistory \in Nat \ {0} /\ NoTrigger \notin Triggers

VARIABLES currentState, stateHistory, context
machineVars == <<currentState, stateHistory, context>>

Lifecycle == INSTANCE PositionLifecycle
  WITH Rules <- BaseRules, state <- currentState, history <- stateHistory

MachineInit == /\ currentState = "CREATED"
               /\ stateHistory = Lifecycle!Record(<<>>, "CREATED", NoTrigger)
               /\ context = InitialContext

(* A faulty variant: the exit is stamped only when a price is known. *)
StampWithPriceOnly(rule, ctx) ==
  IF rule[1] = "EXITING" /\ rule[3] = "CLOSED" /\ ctx["price"] # Undefined
  THEN ClosedPnl(ctx)
  ELSE IF rule[1] = "ERROR" /\ rule[3] = "CLOSED"
       THEN ForcedClose(ctx, DefaultReason)
       ELSE NoUpdates

(* What the action of a rule writes into the context it is given. *)
RuleWrites(rule, ctx) ==
  IF rule[1] = "EXITING" /\ rule[3] = "CLOSED"
  THEN IF ctx["price"] # Undefined THEN ClosedPnl(ctx) ELSE StampOnly
  ELSE IF rule[1] = "ERROR" /\ rule[3] = "CLOSED"
       THEN ForcedClose(ctx, DefaultReason)
       ELSE NoUpdates

(* A faulty variant: the rule is looked up by its trigger alone. *)
TransitionFromAnyState(trigger, updates) ==
  \E rule \in { r \in BaseRules : r[2] = trigger } :
    /\ currentState' = rule[3]
    /\ context' = Spread(Spread(context, updates), RuleWrites(rule, Spread(context, updates)))
    /\ stateHistory' = Lifecycle!Record(stateHistory, rule[3], trigger)

(* The context is updated before the rule is looked up, rule or no rule. *)
Transition(trigger, updates) ==
  LET given == Spread(context, updates)
  IN  \/ /\ ~CanTransition(BaseRules, currentState, trigger)
         /\ context' = given
         /\ UNCHANGED <<currentState, stateHistory>>
      \/ \E rule \in Applicable(BaseRules, currentState, trigger) :
           /\ currentState' = rule[3]
           /\ context' = Spread(given, RuleWrites(rule, given))
           /\ stateHistory' = Lifecycle!Record(stateHistory, rule[3], trigger)

(* A faulty variant: the PnL is left as it was. *)
UpdatePriceOnly(p) ==
  /\ context' = Spread(context, [f \in {"price"} |-> p])
  /\ UNCHANGED <<currentState, stateHistory>>

UpdatePrice(p) ==
  /\ context' = Spread(context, PriceUpdate(p))
  /\ UNCHANGED <<currentState, stateHistory>>

ForceState(s) ==
  /\ currentState' = s
  /\ stateHistory' = Lifecycle!Record(stateHistory, s, NoTrigger)
  /\ UNCHANGED context

CallerUpdates == {NoUpdates} \cup { ReasonUpdate(r) : r \in Reasons }

MachineNext == \/ \E t \in Triggers, u \in CallerUpdates : Transition(t, u)
               \/ \E p \in Prices : UpdatePrice(p)
               \/ \E s \in States : ForceState(s)

MachineSpec == MachineInit /\ [][MachineNext]_machineVars
-----------------------------------------------------------------------------
MachineTypes == /\ currentState \in States
                /\ stateHistory \in Seq(Lifecycle!Entry)
                /\ Len(stateHistory) \in 1..MaxHistory
                /\ context \in [Fields -> Values]

(***************************************************************************)
(* The profit and loss shown is that of the latest price, at every moment  *)
(* and also across a close, whose action recomputes it.  The atomic        *)
(* machine that replaces this one does not keep it (AtomicPosition).       *)
(***************************************************************************)
PnlMatchesPrice == context["pnl"] = context["price"]

(***************************************************************************)
(* A position that a rule closed has its exit stamped, whatever happened   *)
(* before: prices may have come or not, the exit may have failed first.    *)
(***************************************************************************)
ClosedIsStamped ==
  currentState = "CLOSED" /\ stateHistory[Len(stateHistory)].trigger = "EXIT_COMPLETED"
    => context["exitTimestamp"] = Stamped

(* The state and its history behave as PositionLifecycle promises. *)
LifecycleSpec == Lifecycle!Spec
=============================================================================
