----------------------- MODULE AtomicPosition_proofs -----------------------
(***************************************************************************)
(* Proofs about AtomicPosition for any number of callers, prices, reasons  *)
(* and history entries, and about the manager that drives it through the   *)
(* wrapper (PositionManagers, at the end).  The argument: requests in      *)
(* contextQueue belong to distinct suspended callers and each writes       *)
(* either both price and PnL, consistently, or a stamp (Requested,         *)
(* Consistent); with the types this is inductive.  That the machine        *)
(* implements PositionLifecycle needs no invariant: the compare-and-swap   *)
(* is what makes each step a rule's.                                       *)
(***************************************************************************)
EXTENDS PositionManagers, TLAPS

Proved == INSTANCE PositionLifecycle_proofs
  WITH Rules <- AtomicRules, state <- atomicState, history <- stateHistory

(* The rule table is well formed, and no rule leaves CLOSED. *)
LEMMA RuleTable == /\ AtomicRules \subseteq States \X Triggers \X States
                   /\ \A r \in AtomicRules : r[1] # "CLOSED"
  BY DEF AtomicRules, BaseRules, States, Triggers

(***************************************************************************)
(* AtomicPosition implements PositionLifecycle: every step is a rule of    *)
(* the table taken from the state that is current, a forced change, or a   *)
(* stutter, and history gets exactly that change.                          *)
(***************************************************************************)
THEOREM Implements == Spec => LifecycleSpec
<1>1. Init => Lifecycle!Init
  BY DEF Init, Lifecycle!Init
<1>2. [Next]_vars => [Lifecycle!Next]_(Lifecycle!vars)
  <2> SUFFICES ASSUME [Next]_vars PROVE Lifecycle!Next \/ UNCHANGED machine
    BY DEF machine, Lifecycle!vars
  <2>1. ASSUME NEW c \in Callers, TakeTransition(c) PROVE Lifecycle!Next
    <3>1. PICK rule \in Applicable(AtomicRules, loaded[c], call[c].trigger) :
            /\ atomicState' = rule[3]
            /\ stateHistory' = Lifecycle!Record(stateHistory, rule[3], call[c].trigger)
      BY <2>1 DEF TakeTransition
    <3>2. rule \in Applicable(AtomicRules, atomicState, call[c].trigger)
      BY <2>1, <3>1 DEF TakeTransition
    <3>3. call[c].trigger \in Triggers
      BY <3>1, RuleTable DEF Applicable
    <3> QED
      BY <3>1, <3>2, <3>3 DEF Lifecycle!Next, Lifecycle!Transition, Applicable,
                              Lifecycle!Applicable, Triggers, Lifecycle!Triggers
  <2>2. ASSUME NEW s \in ForcedStates, ForceState(s) PROVE Lifecycle!Next
    BY <2>2, ForcedStatesAssumption
       DEF ForceState, Lifecycle!Next, Lifecycle!ForceState, States, Lifecycle!States
  <2>3. ASSUME NEW c \in Callers,
               \/ \E t \in CallTriggers, u \in CallerUpdates : CallTransition(c, t, u)
               \/ \E p \in Prices : CallUpdatePrice(c, p)
               \/ \E r \in Reasons : CallUpdateContext(c, r)
               \/ EnterTransition(c) \/ ReadAfterUpdate(c)
               \/ RefuseTransition(c) \/ WritePrice(c)
        PROVE  UNCHANGED machine
    BY <2>3 DEF CallTransition, CallUpdatePrice, CallUpdateContext, EnterTransition,
                ReadAfterUpdate, RefuseTransition, WritePrice
  <2>4. ServeContext => UNCHANGED machine
    BY DEF ServeContext
  <2>5. UNCHANGED vars => UNCHANGED machine
    BY DEF vars
  <2> QED
    BY <2>1, <2>2, <2>3, <2>4, <2>5 DEF Next
<1> QED
  BY <1>1, <1>2, PTL DEF Spec, LifecycleSpec, Lifecycle!Spec

(* The instance of PositionLifecycle is well formed. *)
LEMMA Instance == Proved!WellFormed
  BY RuleTable, HistoryAssumption
  DEF Proved!WellFormed, States, Triggers, Proved!States, Proved!Triggers

(* PositionLifecycle and the module of its proofs name the same behaviours. *)
LEMMA SameSpec == Lifecycle!Spec <=> Proved!Spec
  BY PTL DEF Lifecycle!Spec, Lifecycle!Init, Lifecycle!Next, Lifecycle!vars, Lifecycle!Transition,
             Lifecycle!ForceState, Lifecycle!Applicable, Lifecycle!Record, Lifecycle!States,
             Lifecycle!Triggers, Proved!Spec, Proved!Init, Proved!Next, Proved!vars,
             Proved!Transition, Proved!ForceState, Proved!Applicable, Proved!Record,
             Proved!States, Proved!Triggers

(***************************************************************************)
(* The audit trail of AtomicPositionStateMachine is truthful: it ends in   *)
(* the current state, and consecutive entries are linked by rules.         *)
(***************************************************************************)
THEOREM Audited == Spec => []HistoryFollowsRules
<1>1. Proved!Spec => [](Proved!TypeOK /\ Proved!HistoryFollowsRules)
  BY Instance, Proved!Truthful
<1>2. Proved!HistoryFollowsRules => HistoryFollowsRules
  BY DEF HistoryFollowsRules, Lifecycle!HistoryFollowsRules, Proved!HistoryFollowsRules
<1> QED
  BY <1>1, <1>2, Implements, SameSpec, PTL DEF LifecycleSpec

(***************************************************************************)
(* No transition, however its awaits interleave with other calls, takes a  *)
(* closed position out of CLOSED.                                          *)
(***************************************************************************)
THEOREM ClosedStaysClosed == Spec => ClosedIsFinal
<1>1. Proved!Spec => Proved!ClosedIsFinal
  BY Instance, RuleTable, Proved!Final
<1> QED
  BY <1>1, Implements, SameSpec, PTL
     DEF LifecycleSpec, ClosedIsFinal, Lifecycle!ClosedIsFinal, Proved!ClosedIsFinal,
         Lifecycle!vars, Proved!vars
-----------------------------------------------------------------------------
(* The updates that are ever requested are well typed and consistent. *)
LEMMA UpdateFacts ==
  /\ NoUpdates \in Updates /\ Consistent(NoUpdates)
  /\ \A r \in Reasons : ReasonUpdate(r) \in Updates /\ Consistent(ReasonUpdate(r))
  /\ \A p \in Prices : PriceUpdate(p) \in Updates /\ Consistent(PriceUpdate(p))
  /\ \A rule \in AtomicRules, ctx \in [Fields -> Values] :
       \A u \in ActionUpdates(rule, ctx) : u \in Updates /\ Consistent(u)
<1>1. NoUpdates \in [{} -> Values] /\ DOMAIN NoUpdates = {}
  BY DEF NoUpdates
<1>2. NoUpdates \in Updates /\ Consistent(NoUpdates)
  BY <1>1 DEF Updates, Consistent
<1>3. ASSUME NEW r \in Reasons PROVE ReasonUpdate(r) \in Updates /\ Consistent(ReasonUpdate(r))
  <2>1. ReasonUpdate(r) \in [{"exitReason"} -> Values] /\ DOMAIN ReasonUpdate(r) = {"exitReason"}
    BY DEF ReasonUpdate, Values
  <2> QED
    BY <2>1 DEF Updates, Fields, Consistent
<1>4. ASSUME NEW p \in Prices PROVE PriceUpdate(p) \in Updates /\ Consistent(PriceUpdate(p))
  <2>1. /\ PriceUpdate(p) \in [{"price", "pnl"} -> Values]
        /\ DOMAIN PriceUpdate(p) = {"price", "pnl"}
        /\ PriceUpdate(p)["price"] = PriceUpdate(p)["pnl"]
    BY DEF PriceUpdate, Values
  <2> QED
    BY <2>1 DEF Updates, Fields, Consistent
<1>5. ASSUME NEW ctx \in [Fields -> Values]
      PROVE  /\ ClosedPnl(ctx) \in Updates /\ Consistent(ClosedPnl(ctx))
             /\ ForcedClose(ctx, DefaultReason) \in Updates
             /\ Consistent(ForcedClose(ctx, DefaultReason))
  <2>1. ctx["price"] \in Values /\ ctx["exitReason"] \in Values
    BY DEF Fields
  <2>2. Stamped \in Values /\ DefaultReason \in Values
    BY DefaultReasonAssumption DEF Values
  <2>3. /\ ClosedPnl(ctx) \in [{"pnl", "exitTimestamp"} -> Values]
        /\ DOMAIN ClosedPnl(ctx) = {"pnl", "exitTimestamp"}
        /\ ClosedPnl(ctx)["exitTimestamp"] = Stamped
    BY <2>1, <2>2 DEF ClosedPnl
  <2>4. /\ ForcedClose(ctx, DefaultReason) \in [{"exitTimestamp", "exitReason"} -> Values]
        /\ DOMAIN ForcedClose(ctx, DefaultReason) = {"exitTimestamp", "exitReason"}
        /\ ForcedClose(ctx, DefaultReason)["exitTimestamp"] = Stamped
    BY <2>1, <2>2 DEF ForcedClose
  <2>5. ClosedPnl(ctx) \in Updates /\ ForcedClose(ctx, DefaultReason) \in Updates
    BY <2>3, <2>4 DEF Updates, Fields
  <2> QED
    BY <2>3, <2>4, <2>5 DEF Consistent
<1> QED
  BY <1>2, <1>3, <1>4, <1>5 DEF ActionUpdates

(* Asking for a consistent update on behalf of a caller that has no other. *)
LEMMA AskFacts ==
  ASSUME IInv, NEW who \in Callers \cup {Nobody}, NEW u \in Updates, Consistent(u),
         who \in Callers => pc[who] \notin Waiting,
         who \in Callers => pc'[who] \in Waiting,
         \A d \in Callers \ {who} : pc'[d] = pc[d] \/ pc[d] \notin Waiting,
         Ask(who, u)
  PROVE  /\ contextQueue' \in Seq(Requests)
         /\ Requested'
         /\ \A i \in 1..Len(contextQueue') : Consistent(contextQueue'[i].updates)
<1>1. Request(who, u) \in Requests
  BY DEF Request, Requests
<1>2. /\ contextQueue' \in Seq(Requests)
      /\ Len(contextQueue') = Len(contextQueue) + 1
      /\ contextQueue'[Len(contextQueue) + 1] = Request(who, u)
      /\ \A i \in 1..Len(contextQueue) : contextQueue'[i] = contextQueue[i]
      /\ Len(contextQueue) \in Nat
  BY <1>1 DEF Ask, IInv, TypeOK
<1>3. Request(who, u).who = who /\ Request(who, u).updates = u
  BY DEF Request
<1>4. \A i \in 1..Len(contextQueue') : Consistent(contextQueue'[i].updates)
  BY <1>2, <1>3 DEF IInv, UpdatesConsistent
<1>5. \A i \in 1..Len(contextQueue) : contextQueue[i].who \in Callers => contextQueue[i].who # who
  BY DEF IInv, Requested
<1>6. Requested'
  BY <1>2, <1>3, <1>5 DEF IInv, Requested
<1> QED
  BY <1>2, <1>4, <1>6

(* Applying a consistent update keeps PnL and price in agreement until a stamp. *)
LEMMA SpreadFacts ==
  ASSUME NEW ctx \in [Fields -> Values], NEW u \in Updates, Consistent(u),
         ctx["exitTimestamp"] = Undefined => ctx["pnl"] = ctx["price"]
  PROVE  LET new == Spread(ctx, u)
         IN  /\ new \in [Fields -> Values]
             /\ new["exitTimestamp"] = Undefined => new["pnl"] = new["price"]
<1>1. PICK D \in SUBSET Fields : u \in [D -> Values]
  BY DEF Updates
<1>2. Stamped # Undefined
  BY UndefinedAssumption
<1>3. \A f \in Fields : Spread(ctx, u)[f] = IF f \in D THEN u[f] ELSE ctx[f]
  BY <1>1 DEF Spread
<1>4. Spread(ctx, u) \in [Fields -> Values]
  BY <1>1 DEF Spread
<1>5. {"price", "pnl", "exitTimestamp"} \subseteq Fields
  BY DEF Fields
<1> QED
  BY <1>1, <1>2, <1>3, <1>4, <1>5 DEF Consistent

LEMMA InitInvariant == Init => IInv
<1> SUFFICES ASSUME Init PROVE IInv
  OBVIOUS
<1>1. /\ stateHistory \in Seq(Lifecycle!Entry)
      /\ Len(stateHistory) \in 1..MaxHistory
  <2>1. Proved!Init
    BY DEF Init, Proved!Init, Proved!Record, Lifecycle!Record
  <2>2. Proved!TypeOK
    BY <2>1, Instance, Proved!InitFacts
  <2> QED
    BY <2>2 DEF Proved!TypeOK, Proved!Entry, Lifecycle!Entry, Proved!States, Lifecycle!States,
                Proved!Triggers, Lifecycle!Triggers
<1>2. InitialContext \in [Fields -> Values] /\ InitialContext["pnl"] = InitialContext["price"]
  BY DEF InitialContext, Fields, Values
<1>3. NoCall \in Calls
  BY UpdateFacts DEF NoCall, Calls
<1>4. TypeOK
  BY <1>1, <1>2, <1>3 DEF Init, TypeOK, States, PcLabels
<1>5. UpdatesConsistent
  BY UpdateFacts DEF Init, UpdatesConsistent, NoCall
<1> QED
  BY <1>2, <1>4, <1>5 DEF Init, IInv, TransitionsExclusive, Inside, Requested, OpenPnlMatchesPrice

(* What a step may do to the machine. *)
MachineStep == \/ \E c \in Callers : TakeTransition(c)
               \/ \E s \in ForcedStates :
                    /\ atomicState' = s
                    /\ stateHistory' = Lifecycle!Record(stateHistory, s, NoTrigger)
               \/ UNCHANGED machine

(* The machine variables keep their types in every step. *)
LEMMA MachineTypes ==
  ASSUME TypeOK, MachineStep
  PROVE  /\ atomicState' \in States
         /\ stateHistory' \in Seq(Lifecycle!Entry)
         /\ Len(stateHistory') \in 1..MaxHistory
<1>1. ASSUME NEW s \in States, NEW t \in Triggers \cup {NoTrigger},
             stateHistory' = Lifecycle!Record(stateHistory, s, t)
      PROVE  stateHistory' \in Seq(Lifecycle!Entry) /\ Len(stateHistory') \in 1..MaxHistory
  <2>1. /\ stateHistory \in Seq(Proved!Entry)
        /\ Len(stateHistory) \in 0..MaxHistory
        /\ s \in Proved!States /\ t \in Proved!Triggers \cup {NoTrigger}
    BY HistoryAssumption
       DEF TypeOK, Proved!Entry, Lifecycle!Entry, Proved!States, Lifecycle!States, States,
           Proved!Triggers, Lifecycle!Triggers, Triggers
  <2>2. stateHistory' = Proved!Record(stateHistory, s, t)
    BY <1>1 DEF Proved!Record, Lifecycle!Record
  <2>3. stateHistory' \in Seq(Proved!Entry) /\ Len(stateHistory') \in 1..MaxHistory
    BY <2>1, <2>2, Instance, Proved!RecordFacts
  <2> QED
    BY <2>3 DEF Proved!Entry, Lifecycle!Entry, Proved!States, Lifecycle!States,
                Proved!Triggers, Lifecycle!Triggers
<1>2. ASSUME NEW c \in Callers, TakeTransition(c)
      PROVE  /\ atomicState' \in States
             /\ stateHistory' \in Seq(Lifecycle!Entry) /\ Len(stateHistory') \in 1..MaxHistory
  <2>1. PICK rule \in Applicable(AtomicRules, loaded[c], call[c].trigger) :
          /\ atomicState' = rule[3]
          /\ stateHistory' = Lifecycle!Record(stateHistory, rule[3], call[c].trigger)
    BY <1>2 DEF TakeTransition
  <2>2. rule[3] \in States /\ call[c].trigger \in Triggers
    BY <2>1, RuleTable DEF Applicable
  <2> QED
    BY <1>1, <2>1, <2>2
<1>3. ASSUME NEW s \in ForcedStates,
             atomicState' = s, stateHistory' = Lifecycle!Record(stateHistory, s, NoTrigger)
      PROVE  /\ atomicState' \in States
             /\ stateHistory' \in Seq(Lifecycle!Entry) /\ Len(stateHistory') \in 1..MaxHistory
  BY <1>1, <1>3, ForcedStatesAssumption
<1>4. ASSUME UNCHANGED machine
      PROVE  /\ atomicState' \in States
             /\ stateHistory' \in Seq(Lifecycle!Entry) /\ Len(stateHistory') \in 1..MaxHistory
  BY <1>4 DEF machine, TypeOK
<1> QED
  BY <1>2, <1>3, <1>4 DEF MachineStep

LEMMA CallTransitionInvariant ==
  ASSUME IInv, NEW c \in Callers, NEW t \in Triggers, NEW u \in CallerUpdates,
         CallTransition(c, t, u)
  PROVE  IInv'
<1>1. u \in Updates /\ Consistent(u)
  BY UpdateFacts DEF CallerUpdates
<1>2. /\ transitionQueue' \in Seq(Callers)
      /\ transitionQueue' # <<>>
      /\ transitionQueue # <<>> => Head(transitionQueue') = Head(transitionQueue)
  BY DEF CallTransition, IInv, TypeOK
<1>3. \A d \in Callers : d # c => pc'[d] = pc[d]
  BY DEF CallTransition, IInv, TypeOK
<1>4. pc'[c] = "queued" /\ pc[c] = "idle"
  BY DEF CallTransition, IInv, TypeOK
<1>5. TypeOK'
  BY <1>1, <1>2, MachineTypes DEF MachineStep, CallTransition, IInv, TypeOK, Calls, PcLabels
<1>6. TransitionsExclusive'
  BY <1>2, <1>3, <1>4 DEF IInv, TransitionsExclusive, Inside
<1>7. Requested'
  BY <1>3, <1>4 DEF CallTransition, IInv, Requested, Waiting
<1>8. UpdatesConsistent'
  BY <1>1 DEF CallTransition, IInv, TypeOK, UpdatesConsistent
<1> QED
  BY <1>5, <1>6, <1>7, <1>8 DEF IInv, OpenPnlMatchesPrice, CallTransition

LEMMA EnterTransitionInvariant ==
  ASSUME IInv, NEW c \in Callers, EnterTransition(c)
  PROVE  IInv'
<1>1. call[c].updates \in Updates /\ Consistent(call[c].updates)
  BY DEF IInv, TypeOK, Calls, UpdatesConsistent
<1>2. /\ pc[c] = "queued" /\ pc'[c] \in {"reading", "updating"}
      /\ \A d \in Callers : d # c => pc'[d] = pc[d]
  BY DEF EnterTransition, IInv, TypeOK
<1>3. /\ contextQueue' \in Seq(Requests) /\ Requested'
      /\ \A i \in 1..Len(contextQueue') : Consistent(contextQueue'[i].updates)
  BY <1>1, <1>2, AskFacts DEF EnterTransition, Waiting
<1>4. TypeOK'
  BY <1>3, MachineTypes DEF MachineStep, EnterTransition, IInv, TypeOK, PcLabels
<1>5. TransitionsExclusive'
  BY <1>2 DEF EnterTransition, IInv, TransitionsExclusive, Inside
<1> QED
  BY <1>3, <1>4, <1>5 DEF IInv, OpenPnlMatchesPrice, EnterTransition, UpdatesConsistent

LEMMA ReadAfterUpdateInvariant ==
  ASSUME IInv, NEW c \in Callers, ReadAfterUpdate(c)
  PROVE  IInv'
<1>1. /\ pc[c] = "updated" /\ pc'[c] = "reading"
      /\ \A d \in Callers : d # c => pc'[d] = pc[d]
  BY DEF ReadAfterUpdate, IInv, TypeOK
<1>2. /\ contextQueue' \in Seq(Requests) /\ Requested'
      /\ \A i \in 1..Len(contextQueue') : Consistent(contextQueue'[i].updates)
  BY <1>1, UpdateFacts, AskFacts DEF ReadAfterUpdate, Waiting
<1>3. TypeOK'
  BY <1>2, MachineTypes DEF MachineStep, ReadAfterUpdate, IInv, TypeOK, PcLabels, locals
<1>4. TransitionsExclusive'
  BY <1>1 DEF ReadAfterUpdate, IInv, TransitionsExclusive, Inside
<1> QED
  BY <1>2, <1>3, <1>4 DEF IInv, OpenPnlMatchesPrice, ReadAfterUpdate, UpdatesConsistent, locals

(* What every return from transition() does, success or not. *)
LEMMA EndTransitionFacts ==
  ASSUME IInv, NEW c \in Callers, pc[c] = "seen", EndTransition(c)
  PROVE  /\ transitionQueue' \in Seq(Callers)
         /\ pc' \in [Callers -> PcLabels] /\ call' \in [Callers -> Calls]
         /\ loaded' \in [Callers -> States] /\ seen' \in [Callers -> [Fields -> Values]]
         /\ context' = context
         /\ \A d \in Callers : d # c => pc'[d] = pc[d] /\ ~Inside(d)
         /\ pc'[c] = "idle"
         /\ TransitionsExclusive'
         /\ \A d \in Callers : Consistent(call'[d].updates)
<1>1. transitionQueue # <<>> /\ Head(transitionQueue) = c
  BY DEF IInv, TransitionsExclusive, Inside
<1>2. transitionQueue' \in Seq(Callers)
  BY <1>1 DEF EndTransition, IInv, TypeOK
<1>3. NoCall \in Calls /\ Consistent(NoCall.updates)
  BY UpdateFacts DEF NoCall, Calls
<1>4. InitialContext \in [Fields -> Values] /\ "CREATED" \in States /\ "idle" \in PcLabels
  BY DEF InitialContext, Values, States, PcLabels
<1>5. /\ pc' \in [Callers -> PcLabels] /\ call' \in [Callers -> Calls]
      /\ loaded' \in [Callers -> States] /\ seen' \in [Callers -> [Fields -> Values]]
      /\ context' = context
  BY <1>3, <1>4 DEF EndTransition, IInv, TypeOK
<1>6. \A d \in Callers : d # c => pc'[d] = pc[d] /\ ~Inside(d)
  BY <1>1 DEF EndTransition, IInv, TypeOK, TransitionsExclusive
<1>7. pc'[c] = "idle"
  BY DEF EndTransition, IInv, TypeOK
<1>8. TransitionsExclusive'
  BY <1>6, <1>7 DEF TransitionsExclusive, Inside
<1>9. \A d \in Callers : Consistent(call'[d].updates)
  BY <1>3 DEF EndTransition, IInv, TypeOK, UpdatesConsistent
<1> QED
  BY <1>2, <1>5, <1>6, <1>7, <1>8, <1>9

LEMMA RefuseTransitionInvariant ==
  ASSUME IInv, NEW c \in Callers, RefuseTransition(c)
  PROVE  IInv'
<1>1. pc[c] = "seen" /\ EndTransition(c) /\ UNCHANGED contextQueue /\ MachineStep
  BY DEF RefuseTransition, MachineStep
<1>2. TypeOK'
  BY <1>1, EndTransitionFacts, MachineTypes DEF IInv, TypeOK
<1>3. Requested'
  BY <1>1, EndTransitionFacts DEF IInv, Requested, Waiting
<1>4. UpdatesConsistent'
  BY <1>1, EndTransitionFacts DEF IInv, UpdatesConsistent
<1> QED
  BY <1>1, <1>2, <1>3, <1>4, EndTransitionFacts DEF IInv, OpenPnlMatchesPrice

LEMMA TakeTransitionInvariant ==
  ASSUME IInv, NEW c \in Callers, TakeTransition(c)
  PROVE  IInv'
<1>1. pc[c] = "seen" /\ EndTransition(c) /\ MachineStep
  BY DEF TakeTransition, MachineStep
<1>2. /\ contextQueue' \in Seq(Requests) /\ Requested'
      /\ \A i \in 1..Len(contextQueue') : Consistent(contextQueue'[i].updates)
  <2>1. CASE UNCHANGED contextQueue
    BY <1>1, <2>1, EndTransitionFacts
       DEF IInv, TypeOK, Requested, Waiting, UpdatesConsistent
  <2>2. CASE ~ UNCHANGED contextQueue
    <3>1. PICK rule \in AtomicRules :
            \E u \in ActionUpdates(rule, seen[c]) : Ask(Nobody, u)
      BY <2>2 DEF TakeTransition, Applicable
    <3>2. PICK u \in ActionUpdates(rule, seen[c]) : Ask(Nobody, u)
      BY <3>1
    <3>4. u \in Updates /\ Consistent(u)
      BY <3>2, UpdateFacts DEF IInv, TypeOK
    <3>3. \A d \in Callers \ {Nobody} : pc'[d] = pc[d] \/ pc[d] \notin Waiting
      BY <1>1, EndTransitionFacts DEF Waiting
    <3> QED
      BY <3>2, <3>3, <3>4, NobodyAssumption, AskFacts
  <2> QED
    BY <2>1, <2>2
<1>3. TypeOK'
  BY <1>1, <1>2, EndTransitionFacts, MachineTypes DEF IInv, TypeOK
<1>4. UpdatesConsistent'
  BY <1>1, <1>2, EndTransitionFacts DEF UpdatesConsistent
<1> QED
  BY <1>1, <1>2, <1>3, <1>4, EndTransitionFacts DEF IInv, OpenPnlMatchesPrice

LEMMA PriceInvariant ==
  ASSUME IInv, NEW c \in Callers,
         \/ \E p \in Prices : CallUpdatePrice(c, p)
         \/ WritePrice(c)
         \/ \E r \in Reasons : CallUpdateContext(c, r)
  PROVE  IInv'
<1>1. PICK u \in Updates :
        /\ Consistent(u) /\ Ask(c, u)
        /\ pc[c] \notin Waiting /\ ~Inside(c)
        /\ pc'[c] \in {"pricing", "writing"} /\ pc' \in [Callers -> PcLabels]
        /\ \A d \in Callers : d # c => pc'[d] = pc[d]
  BY UpdateFacts DEF CallUpdatePrice, WritePrice, CallUpdateContext, IInv, TypeOK,
     UpdatesConsistent, Calls, Waiting, Inside, PcLabels
<1>2. /\ contextQueue' \in Seq(Requests) /\ Requested'
      /\ \A i \in 1..Len(contextQueue') : Consistent(contextQueue'[i].updates)
  BY <1>1, AskFacts DEF Waiting
<1>3. call' \in [Callers -> Calls] /\ \A d \in Callers : Consistent(call'[d].updates)
  <2>1. CASE \E p \in Prices : CallUpdatePrice(c, p)
    BY <2>1, UpdateFacts DEF CallUpdatePrice, IInv, TypeOK, Calls, UpdatesConsistent
  <2>2. CASE WritePrice(c)
    BY <2>2, UpdateFacts DEF WritePrice, IInv, TypeOK, Calls, NoCall, UpdatesConsistent
  <2>3. CASE \E r \in Reasons : CallUpdateContext(c, r)
    BY <2>3 DEF CallUpdateContext, IInv, TypeOK, UpdatesConsistent, locals
  <2> QED
    BY <2>1, <2>2, <2>3
<1>4. UNCHANGED <<context, transitionQueue, loaded, seen>> /\ MachineStep
  BY DEF CallUpdatePrice, WritePrice, CallUpdateContext, locals, MachineStep
<1>5. TypeOK'
  BY <1>1, <1>2, <1>3, <1>4, MachineTypes DEF IInv, TypeOK
<1>6. TransitionsExclusive'
  BY <1>1, <1>4 DEF IInv, TransitionsExclusive, Inside
<1> QED
  BY <1>2, <1>3, <1>4, <1>5, <1>6 DEF IInv, OpenPnlMatchesPrice, UpdatesConsistent

LEMMA ServeContextInvariant ==
  ASSUME IInv, ServeContext
  PROVE  IInv'
<1> DEFINE req == contextQueue[1]
<1>1. /\ contextQueue \in Seq(Requests) /\ Len(contextQueue) \in Nat \ {0}
      /\ Head(contextQueue) = req /\ req \in Requests /\ Consistent(req.updates)
      /\ contextQueue' = Tail(contextQueue)
      /\ context' = Spread(context, req.updates)
  BY DEF ServeContext, IInv, TypeOK, UpdatesConsistent
<1>2. /\ contextQueue' \in Seq(Requests) /\ Len(contextQueue') = Len(contextQueue) - 1
      /\ \A i \in 1..Len(contextQueue') : contextQueue'[i] = contextQueue[i + 1] /\ i + 1 \in 1..Len(contextQueue)
  BY <1>1
<1>3. context' \in [Fields -> Values] /\ OpenPnlMatchesPrice'
  BY <1>1, SpreadFacts DEF IInv, TypeOK, Requests, OpenPnlMatchesPrice
<1>4. \A i \in 1..Len(contextQueue') : Consistent(contextQueue'[i].updates)
  BY <1>2 DEF IInv, UpdatesConsistent
<1>5. /\ UNCHANGED <<machine, transitionQueue, call, loaded>>
      /\ \/ req.who = Nobody /\ UNCHANGED <<pc, seen>>
         \/ /\ req.who \in Callers
            /\ pc' = [pc EXCEPT ![req.who] = Resumed[@]]
            /\ seen' = IF pc[req.who] = "reading"
                       THEN [seen EXCEPT ![req.who] = context] ELSE seen
  BY <1>1 DEF ServeContext
<1>6. /\ \A d \in Callers : d # req.who => pc'[d] = pc[d]
      /\ req.who \in Callers => /\ pc[req.who] \in Waiting
                                /\ pc'[req.who] = Resumed[pc[req.who]]
  BY <1>1, <1>5, NobodyAssumption DEF IInv, TypeOK, Requested
<1>7. /\ \A l \in Waiting : Resumed[l] \in PcLabels
      /\ \A l \in Waiting : Resumed[l] \in {"updated", "seen"} => l \in {"updating", "reading"}
      /\ \A l \in Waiting : Resumed[l] \notin {"updating", "reading"}
  BY DEF Resumed, Waiting, PcLabels
<1>8. pc' \in [Callers -> PcLabels] /\ seen' \in [Callers -> [Fields -> Values]]
  <2>1. CASE req.who \in Callers
    <3>1. Resumed[pc[req.who]] \in PcLabels
      BY <1>6, <1>7, <2>1
    <3> HIDE DEF req
    <3> QED
      BY <1>5, <2>1, <3>1, NobodyAssumption DEF IInv, TypeOK
  <2>2. CASE req.who \notin Callers
    BY <1>5, <2>2 DEF IInv, TypeOK
  <2> QED
    BY <2>1, <2>2
<1>9. TypeOK'
  BY <1>2, <1>3, <1>5, <1>8, MachineTypes DEF MachineStep, IInv, TypeOK
<1>10. TransitionsExclusive'
  BY <1>5, <1>6, <1>7 DEF IInv, TransitionsExclusive, Inside
<1>11. Requested'
  <2>1. ASSUME NEW i \in 1..Len(contextQueue'), contextQueue'[i].who \in Callers
        PROVE  contextQueue'[i].who # req.who
    <3>1. i + 1 # 1 /\ 1 \in 1..Len(contextQueue)
      BY <1>1
    <3> QED
      BY <1>2, <2>1, <3>1 DEF IInv, Requested
  <2>2. ASSUME NEW i \in 1..Len(contextQueue'), contextQueue'[i].who \in Callers
        PROVE  pc'[contextQueue'[i].who] \in Waiting
    BY <1>2, <1>6, <2>1, <2>2 DEF IInv, Requested
  <2>3. ASSUME NEW i \in 1..Len(contextQueue'), NEW j \in 1..Len(contextQueue'),
               contextQueue'[i].who = contextQueue'[j].who, contextQueue'[i].who \in Callers
        PROVE  i = j
    <3>1. i + 1 = j + 1
      BY <1>2, <2>3 DEF IInv, Requested
    <3> QED
      BY <3>1
  <2> QED
    BY <2>2, <2>3 DEF Requested
<1> QED
  BY <1>3, <1>4, <1>5, <1>9, <1>10, <1>11 DEF IInv, UpdatesConsistent

LEMMA ForceStateInvariant ==
  ASSUME IInv, NEW s \in ForcedStates, ForceState(s)
  PROVE  IInv'
<1>1. UNCHANGED <<context, contextQueue, transitionQueue, pc, call, loaded, seen>> /\ MachineStep
  BY DEF ForceState, locals, MachineStep
<1>2. TypeOK'
  BY <1>1, MachineTypes DEF IInv, TypeOK
<1> QED
  BY <1>1, <1>2 DEF IInv, TransitionsExclusive, Inside, Requested, UpdatesConsistent,
                    OpenPnlMatchesPrice

LEMMA StutterInvariant ==
  ASSUME IInv, UNCHANGED vars
  PROVE  IInv'
  BY DEF vars, machine, locals, IInv, TypeOK, TransitionsExclusive, Inside, Requested,
         UpdatesConsistent, OpenPnlMatchesPrice

(* The inductive invariant holds in every reachable state. *)
THEOREM Invariance == Spec => []IInv
<1>1. IInv /\ [Next]_vars => IInv'
  BY CallTransitionInvariant, EnterTransitionInvariant, ReadAfterUpdateInvariant,
     RefuseTransitionInvariant, TakeTransitionInvariant, PriceInvariant,
     ServeContextInvariant, ForceStateInvariant, StutterInvariant, CallTriggersAssumption
  DEF Next
<1> QED
  BY InitInvariant, <1>1, PTL DEF Spec

(* Every variable keeps its type; no queue ever holds a stranger. *)
THEOREM Typing == Spec => []TypeOK
  BY Invariance, PTL DEF IInv

(* transition() is mutually exclusive across its awaits, for any number of callers. *)
THEOREM Exclusion == Spec => []TransitionsExclusive
  BY Invariance, PTL DEF IInv

(* Until an exit is stamped, concurrent updatePrice() calls cannot tear price and PnL. *)
THEOREM PnlAgreement == Spec => []OpenPnlMatchesPrice
  BY Invariance, PTL DEF IInv
-----------------------------------------------------------------------------
(***************************************************************************)
(* The manager over the wrapper (PositionManagers).                        *)
(*                                                                         *)
(* The cache: while a refresh is due or queued, or a price update is under *)
(* way, nothing is claimed of the copy (Pending).  When there is none, the *)
(* last context read for the copy, or the copy itself, agrees with the     *)
(* machine's on all that is told.  A write that nobody awaits is always    *)
(* followed by a refresh, due or queued behind it (WritesAreFollowed).     *)
(***************************************************************************)
Told == Fields \ {"exitReason"}
Agree(a, b) == \A f \in Told : a[f] = b[f]
Harmless(u) == DOMAIN u \subseteq {"exitReason"}

Pending == \/ due > 0
           \/ \E i \in 1..Len(contextQueue) : Refreshes(contextQueue[i])
           \/ \E c \in Callers : pc[c] \in {"pricing", "priced", "writing"}

LastIsTrue == ~Pending => IF arriving = <<>> THEN Agree(cached, context)
                          ELSE Agree(arriving[Len(arriving)], context)

WritesAreFollowed ==
  \A i \in 1..Len(contextQueue) :
    contextQueue[i].who = Nobody /\ ~Refreshes(contextQueue[i])
      => due > 0 \/ \E j \in 1..Len(contextQueue) : i < j /\ Refreshes(contextQueue[j])

(* A transition writes nothing but the reason before it is taken. *)
TransitionsHarmless ==
  /\ \A c \in Callers : pc[c] = "queued" => Harmless(call[c].updates)
  /\ \A i \in 1..Len(contextQueue) :
       contextQueue[i].who \in Callers /\ pc[contextQueue[i].who] \in {"updating", "reading"}
         => Harmless(contextQueue[i].updates)

WrapperTyped == /\ due \in Nat
                /\ arriving \in Seq([Fields -> Values])
                /\ cached \in [Fields -> Values]

CacheInv == WrapperTyped /\ LastIsTrue /\ WritesAreFollowed /\ TransitionsHarmless

(***************************************************************************)
(* The closing: the manager's triggers take the state forward only, and a  *)
(* transition that is to close the position cannot be refused before it is *)
(* closed.                                                                 *)
(***************************************************************************)
Going == {"queued", "updating", "updated", "reading", "seen"}
ManagerTriggers == {"POSITION_OPENED", "EXIT_CONDITION_MET", "MANUAL_EXIT_REQUESTED",
                    "EXIT_APPROVED", "EXIT_COMPLETED"}
ManagerStates == {"CREATED", "MONITORING", "EXIT_PENDING", "EXITING", "CLOSED"}
Closing(c) == pc[c] \in Going /\ call[c].trigger = "EXIT_COMPLETED"

CloseInv ==
  /\ atomicState \in ManagerStates
  /\ \A c \in Callers : pc[c] \in Going => call[c].trigger \in ManagerTriggers
  /\ \A c \in Callers : Closing(c) => atomicState \in {"EXITING", "CLOSED"}
  /\ \A c \in Callers : Closing(c) /\ pc[c] # "queued"
                          => \/ loaded[c] = "EXITING"
                             \/ atomicState = "CLOSED"
  /\ reported => \/ atomicState = "CLOSED"
                 \/ atomicState = "EXITING" /\ \E c \in Callers : Closing(c)
(* The kinds of step the manager, the wrapper and the machine take. *)
Started(c, t, u) == /\ StartTransition(c, t, u)
                    /\ UNCHANGED <<due, arriving>>
                    /\ reported' = reported \/ t = "EXIT_COMPLETED"

LEMMA ManagerSteps ==
  ASSUME [ManagerNext]_managerVars
  PROVE  \/ \E c \in Callers, t \in ManagerTriggers, u \in CallerUpdates : Started(c, t, u)
         \/ \E c \in Callers, p \in Prices :
              StartPriceUpdate(c, p) /\ UNCHANGED <<due, arriving, reported>>
         \/ \E c \in Callers : TransitionEnds(c) \/ Working(c)
         \/ Serve \/ Refresh \/ CacheArrives
         \/ \E s \in ForcedStates : ForceAndRefresh(s)
         \/ /\ UNCHANGED <<vars, cached, due, arriving>>
            /\ reported' = reported \/ atomicState = "CLOSED"
<1>1. ASSUME NEW c \in Callers, CreatePosition(c)
      PROVE  Started(c, "POSITION_OPENED", NoUpdates)
  BY <1>1 DEF CreatePosition, Started
<1>2. ASSUME NEW c \in Callers, NEW p \in Prices, UpdatePrices(c, p)
      PROVE  StartPriceUpdate(c, p) /\ UNCHANGED <<due, arriving, reported>>
  BY <1>2 DEF UpdatePrices
<1>3. ASSUME NEW c \in Callers, NEW r \in Reasons, EvaluateExitConditions(c, r)
      PROVE  Started(c, "EXIT_CONDITION_MET", ReasonUpdate(r))
  BY <1>3 DEF EvaluateExitConditions, Started
<1>4. ASSUME NEW c \in Callers, NEW r \in Reasons, ClosePosition(c, r)
      PROVE  \/ Started(c, "MANUAL_EXIT_REQUESTED", ReasonUpdate(r))
             \/ Started(c, "EXIT_APPROVED", NoUpdates)
             \/ Started(c, "EXIT_COMPLETED", ReasonUpdate(r))
             \/ /\ UNCHANGED <<vars, cached, due, arriving>>
                /\ atomicState = "CLOSED"
  BY <1>4 DEF ClosePosition, Started
<1>5. Cleanup \/ UNCHANGED managerVars
        => UNCHANGED <<vars, cached, due, arriving>> /\ reported' = reported
  BY DEF Cleanup, managerVars, wrapper
<1>6. /\ \A t \in {"POSITION_OPENED", "EXIT_CONDITION_MET", "MANUAL_EXIT_REQUESTED",
                   "EXIT_APPROVED", "EXIT_COMPLETED"} : t \in ManagerTriggers
      /\ NoUpdates \in CallerUpdates
      /\ \A r \in Reasons : ReasonUpdate(r) \in CallerUpdates
  BY DEF ManagerTriggers, CallerUpdates
<1> QED
  BY <1>1, <1>2, <1>3, <1>4, <1>5, <1>6, Zenon DEF ManagerNext

(* A refresh is a request like the others. *)
LEMMA RefreshInvariant ==
  ASSUME IInv, MachineStep, Ask(Nobody, NoUpdates),
         UNCHANGED <<context, transitionQueue, pc, locals>>
  PROVE  IInv'
<1>1. /\ contextQueue' \in Seq(Requests) /\ Requested'
      /\ \A i \in 1..Len(contextQueue') : Consistent(contextQueue'[i].updates)
  BY UpdateFacts, NobodyAssumption, AskFacts
<1>2. TypeOK'
  BY <1>1, MachineTypes DEF IInv, TypeOK, locals
<1> QED
  BY <1>1, <1>2 DEF IInv, TransitionsExclusive, Inside, UpdatesConsistent,
                    OpenPnlMatchesPrice, locals

LEMMA ManagerKeepsIInv ==
  ASSUME IInv, [ManagerNext]_managerVars
  PROVE  IInv'
<1>1. ASSUME NEW c \in Callers, NEW t \in ManagerTriggers, NEW u \in CallerUpdates,
             Started(c, t, u)
      PROVE  IInv'
  <2>1. t \in Triggers /\ CallTransition(c, t, u)
    BY <1>1 DEF ManagerTriggers, Triggers, Started, StartTransition
  <2> QED
    BY <2>1, CallTransitionInvariant
<1>2. ASSUME NEW c \in Callers, NEW p \in Prices, StartPriceUpdate(c, p)
      PROVE  IInv'
  BY <1>2, PriceInvariant DEF StartPriceUpdate
<1>3. ASSUME NEW c \in Callers, TransitionEnds(c) \/ Working(c)
      PROVE  IInv'
  BY <1>3, TakeTransitionInvariant, RefuseTransitionInvariant, EnterTransitionInvariant,
     ReadAfterUpdateInvariant, PriceInvariant DEF TransitionEnds, Working
<1>4. Serve => IInv'
  BY ServeContextInvariant DEF Serve
<1>5. Refresh => IInv'
  BY RefreshInvariant DEF Refresh, MachineStep
<1>6. ASSUME NEW s \in ForcedStates, ForceAndRefresh(s)
      PROVE  IInv'
  BY <1>6, RefreshInvariant DEF ForceAndRefresh, MachineStep
<1>7. UNCHANGED vars => IInv'
  BY StutterInvariant
<1> QED
  BY <1>1, <1>2, <1>3, <1>4, <1>5, <1>6, <1>7, ManagerSteps DEF CacheArrives

(* A request at the end of the queue. *)
LEMMA Appended ==
  ASSUME IInv, NEW who \in Callers \cup {Nobody}, NEW u \in Updates, Ask(who, u)
  PROVE  /\ Len(contextQueue) \in Nat
         /\ Len(contextQueue') = Len(contextQueue) + 1
         /\ contextQueue'[Len(contextQueue) + 1] = Request(who, u)
         /\ \A i \in 1..Len(contextQueue) : contextQueue'[i] = contextQueue[i]
  BY DEF Ask, IInv, TypeOK, Request, Requests

LEMMA AskFollowed ==
  ASSUME IInv, WritesAreFollowed,
         NEW who \in Callers \cup {Nobody}, NEW u \in Updates, Ask(who, u),
         \/ due' > 0
         \/ due' = due /\ who # Nobody
         \/ who = Nobody /\ u = NoUpdates
  PROVE  WritesAreFollowed'
<1> DEFINE last == Len(contextQueue) + 1
<1>1. /\ Len(contextQueue) \in Nat /\ Len(contextQueue') = last
      /\ contextQueue'[last] = Request(who, u)
      /\ \A i \in 1..Len(contextQueue) : contextQueue'[i] = contextQueue[i]
  BY Appended
<1>2. CASE due' > 0
  BY <1>2 DEF WritesAreFollowed
<1>3. CASE due' = due /\ who # Nobody
  <2>1. ~Refreshes(contextQueue'[last]) /\ contextQueue'[last].who # Nobody
    BY <1>1, <1>3 DEF Request, Refreshes
  <2> QED
    BY <1>1, <1>3, <2>1 DEF WritesAreFollowed
<1>4. CASE who = Nobody /\ u = NoUpdates
  <2>1. Refreshes(contextQueue'[last])
    BY <1>1, <1>4 DEF Refreshes
  <2> QED
    BY <1>1, <2>1 DEF WritesAreFollowed
<1> QED
  BY <1>2, <1>3, <1>4

LEMMA AskHarmless ==
  ASSUME IInv, TransitionsHarmless,
         NEW who \in Callers \cup {Nobody}, NEW u \in Updates, Ask(who, u),
         who \in Callers => /\ pc[who] \notin Waiting
                            /\ pc'[who] \in {"updating", "reading"} => Harmless(u),
         \A d \in Callers \ {who} : pc'[d] = pc[d] \/ pc'[d] \notin {"updating", "reading"},
         \A d \in Callers : pc'[d] = "queued" => Harmless(call'[d].updates)
  PROVE  TransitionsHarmless'
<1>1. /\ Len(contextQueue) \in Nat /\ Len(contextQueue') = Len(contextQueue) + 1
      /\ contextQueue'[Len(contextQueue) + 1] = Request(who, u)
      /\ \A i \in 1..Len(contextQueue) : contextQueue'[i] = contextQueue[i]
  BY Appended
<1>2. ASSUME NEW i \in 1..Len(contextQueue'), contextQueue'[i].who \in Callers,
             pc'[contextQueue'[i].who] \in {"updating", "reading"}
      PROVE  Harmless(contextQueue'[i].updates)
  <2>1. CASE i \in 1..Len(contextQueue)
    <3>1. contextQueue[i].who # who
      BY <1>1, <1>2, <2>1 DEF IInv, Requested
    <3> QED
      BY <1>1, <1>2, <2>1, <3>1 DEF TransitionsHarmless
  <2>2. CASE i = Len(contextQueue) + 1
    BY <1>1, <1>2, <2>2, NobodyAssumption DEF Request
  <2> QED
    BY <1>1, <2>1, <2>2
<1> QED
  BY <1>2 DEF TransitionsHarmless, Harmless
LEMMA HarmlessFacts ==
  /\ \A u \in CallerUpdates : Harmless(u) /\ u \in Updates
  /\ Harmless(NoUpdates)
  /\ \A ctx \in [Fields -> Values], u \in Updates : Spread(ctx, u) \in [Fields -> Values]
  /\ \A ctx, u : Harmless(u) => Agree(Spread(ctx, u), ctx)
<1>1. \A r \in Reasons : Harmless(ReasonUpdate(r))
  BY DEF ReasonUpdate, Harmless
<1>2. Harmless(NoUpdates)
  BY DEF NoUpdates, Harmless
<1>3. ASSUME NEW ctx \in [Fields -> Values], NEW u \in Updates
      PROVE  Spread(ctx, u) \in [Fields -> Values]
  <2>1. PICK D \in SUBSET Fields : u \in [D -> Values]
    BY DEF Updates
  <2> QED
    BY <2>1 DEF Spread
<1>4. ASSUME NEW ctx, NEW u, Harmless(u) PROVE Agree(Spread(ctx, u), ctx)
  BY <1>4 DEF Spread, Agree, Told, Harmless
<1> QED
  BY <1>1, <1>2, <1>3, <1>4, UpdateFacts DEF CallerUpdates

(* A step that leaves alone what the invariant of the cache is about. *)
LEMMA CacheUntouched ==
  ASSUME IInv, CacheInv, UNCHANGED <<context, contextQueue, arriving>>,
         due' \in Nat, due' >= due,
         cached' \in [Fields -> Values], Agree(cached', cached),
         \A c \in Callers : \/ pc'[c] = pc[c] /\ call'[c] = call[c]
                            \/ /\ pc[c] \notin {"pricing", "priced", "writing"}
                               /\ pc'[c] \notin {"updating", "reading"}
                               /\ pc'[c] = "queued" => Harmless(call'[c].updates)
  PROVE  CacheInv'
<1>1. WrapperTyped'
  BY DEF CacheInv, WrapperTyped
<1>2. Pending => Pending'
  BY DEF Pending, CacheInv, WrapperTyped
<1>3. Agree(cached, context) => Agree(cached', context')
  BY DEF Agree
<1>4. LastIsTrue'
  BY <1>2, <1>3 DEF CacheInv, LastIsTrue, Agree
<1>5. WritesAreFollowed'
  BY DEF CacheInv, WrapperTyped, WritesAreFollowed
<1>6. TransitionsHarmless'
  BY DEF CacheInv, TransitionsHarmless
<1> QED
  BY <1>1, <1>4, <1>5, <1>6 DEF CacheInv

LEMMA StartedKeepsCache ==
  ASSUME IInv, CacheInv, NEW c \in Callers, NEW t \in ManagerTriggers,
         NEW u \in CallerUpdates, Started(c, t, u)
  PROVE  CacheInv'
<1>1. /\ UNCHANGED <<context, contextQueue, arriving, due>>
      /\ cached' = Spread(cached, u)
      /\ pc[c] = "idle"
      /\ pc' = [pc EXCEPT ![c] = "queued"]
      /\ call' = [call EXCEPT ![c] = [trigger |-> t, updates |-> u]]
  BY DEF Started, StartTransition, CallTransition
<1>2. pc'[c] = "queued" /\ call'[c].updates = u
  BY <1>1 DEF IInv, TypeOK
<1>3. \A d \in Callers \ {c} : pc'[d] = pc[d] /\ call'[d] = call[d]
  BY <1>1 DEF IInv, TypeOK
<1>4. cached' \in [Fields -> Values] /\ Agree(cached', cached) /\ Harmless(u)
  BY <1>1, HarmlessFacts DEF CacheInv, WrapperTyped
<1>5. due \in Nat
  BY DEF CacheInv, WrapperTyped
<1> QED
  BY <1>1, <1>2, <1>3, <1>4, <1>5, CacheUntouched

(* What is left to show of a step that reads nothing for the cache. *)
LEMMA CacheParts ==
  ASSUME CacheInv, WritesAreFollowed', TransitionsHarmless',
         context' = context, arriving' = arriving,
         due' \in Nat, cached' \in [Fields -> Values],
         Pending' \/ ((Pending => Pending') /\ cached' = cached)
  PROVE  CacheInv'
<1>1. WrapperTyped'
  BY DEF CacheInv, WrapperTyped
<1>2. LastIsTrue'
  BY DEF CacheInv, LastIsTrue
<1> QED
  BY <1>1, <1>2 DEF CacheInv

LEMMA PriceKeepsCache ==
  ASSUME IInv, CacheInv, NEW c \in Callers, NEW p \in Prices,
         StartPriceUpdate(c, p), UNCHANGED <<due, arriving>>
  PROVE  CacheInv'
<1>1. /\ context' = context /\ due' = due /\ arriving' = arriving /\ Ask(c, NoUpdates)
      /\ cached' = Spread(cached, PriceUpdate(p))
      /\ pc[c] = "idle"
      /\ pc' = [pc EXCEPT ![c] = "pricing"]
      /\ call' = [call EXCEPT ![c] = [trigger |-> NoTrigger, updates |-> PriceUpdate(p)]]
  BY DEF StartPriceUpdate, CallUpdatePrice
<1>2. /\ pc'[c] = "pricing" /\ \A d \in Callers \ {c} : pc'[d] = pc[d] /\ call'[d] = call[d]
  BY <1>1 DEF IInv, TypeOK
<1>3. Pending'
  BY <1>2 DEF Pending
<1>4. /\ cached' \in [Fields -> Values] /\ due' \in Nat
  BY <1>1, HarmlessFacts, UpdateFacts DEF CacheInv, WrapperTyped
<1>5. \A d \in Callers : pc'[d] = "queued" => Harmless(call'[d].updates)
  BY <1>2 DEF CacheInv, TransitionsHarmless
<1>6. c # Nobody /\ NoUpdates \in Updates
  BY NobodyAssumption, UpdateFacts
<1>7. pc[c] \notin Waiting /\ pc'[c] \notin {"updating", "reading"}
  BY <1>1, <1>2 DEF Waiting
<1>8. WritesAreFollowed'
  BY <1>1, <1>6, AskFollowed DEF CacheInv
<1>9. TransitionsHarmless'
  BY <1>1, <1>2, <1>5, <1>6, <1>7, AskHarmless DEF CacheInv
<1>10. context' = context /\ arriving' = arriving
  BY <1>1
<1> QED
  BY <1>3, <1>4, <1>8, <1>9, <1>10, CacheParts

LEMMA WorkKeepsCache ==
  ASSUME IInv, CacheInv, NEW c \in Callers, Working(c)
  PROVE  CacheInv'
<1>0. /\ due' = due /\ arriving' = arriving /\ cached' = cached
      /\ due \in Nat /\ cached \in [Fields -> Values]
  BY DEF Working, wrapper, CacheInv, WrapperTyped
<1>1. c # Nobody
  BY NobodyAssumption
<1>2. CASE EnterTransition(c)
  <2>1. /\ pc[c] = "queued" /\ Ask(c, call[c].updates) /\ context' = context /\ call' = call
        /\ pc' = [pc EXCEPT ![c] = IF call[c].updates = NoUpdates THEN "reading" ELSE "updating"]
    BY <1>2 DEF EnterTransition
  <2>2. /\ pc'[c] \in {"reading", "updating"} /\ \A d \in Callers \ {c} : pc'[d] = pc[d]
    BY <2>1 DEF IInv, TypeOK
  <2>3. call[c].updates \in Updates /\ Harmless(call[c].updates)
    BY <2>1 DEF IInv, TypeOK, Calls, CacheInv, TransitionsHarmless
  <2>4. \A d \in Callers : pc'[d] = "queued" => Harmless(call'[d].updates)
    BY <2>1, <2>2 DEF CacheInv, TransitionsHarmless
  <2>5. Pending => Pending'
    <3>1. \A d \in Callers : pc'[d] \in {"pricing", "priced", "writing"}
                               <=> pc[d] \in {"pricing", "priced", "writing"}
      BY <2>1, <2>2
    <3>2. (\E i \in 1..Len(contextQueue') : Refreshes(contextQueue'[i]))
            <=> (\E i \in 1..Len(contextQueue) : Refreshes(contextQueue[i]))
      <4>1. ~Refreshes(Request(c, call[c].updates))
        BY <1>1 DEF Request, Refreshes
      <4> QED
        BY <2>1, <2>3, <4>1, Appended
    <3> QED
      BY <1>0, <3>1, <3>2 DEF Pending
  <2>6. pc[c] \notin Waiting
    BY <2>1 DEF Waiting
  <2>7. WritesAreFollowed'
    BY <1>0, <1>1, <2>1, <2>3, AskFollowed DEF CacheInv
  <2>8. TransitionsHarmless'
    BY <2>1, <2>2, <2>3, <2>4, <2>6, AskHarmless DEF CacheInv
  <2> QED
    BY <1>0, <2>1, <2>5, <2>7, <2>8, CacheParts
<1>3. CASE ReadAfterUpdate(c)
  <2>1. /\ pc[c] = "updated" /\ Ask(c, NoUpdates) /\ context' = context /\ call' = call
        /\ pc' = [pc EXCEPT ![c] = "reading"]
    BY <1>3 DEF ReadAfterUpdate, locals
  <2>2. /\ pc'[c] = "reading" /\ \A d \in Callers \ {c} : pc'[d] = pc[d]
    BY <2>1 DEF IInv, TypeOK
  <2>3. NoUpdates \in Updates /\ Harmless(NoUpdates)
    BY UpdateFacts, HarmlessFacts
  <2>4. \A d \in Callers : pc'[d] = "queued" => Harmless(call'[d].updates)
    BY <2>1, <2>2 DEF CacheInv, TransitionsHarmless
  <2>5. Pending => Pending'
    <3>1. \A d \in Callers : pc'[d] \in {"pricing", "priced", "writing"}
                               <=> pc[d] \in {"pricing", "priced", "writing"}
      BY <2>1, <2>2
    <3>2. (\E i \in 1..Len(contextQueue') : Refreshes(contextQueue'[i]))
            <=> (\E i \in 1..Len(contextQueue) : Refreshes(contextQueue[i]))
      <4>1. ~Refreshes(Request(c, NoUpdates))
        BY <1>1 DEF Request, Refreshes
      <4> QED
        BY <2>1, <2>3, <4>1, Appended
    <3> QED
      BY <1>0, <3>1, <3>2 DEF Pending
  <2>6. pc[c] \notin Waiting
    BY <2>1 DEF Waiting
  <2>7. WritesAreFollowed'
    BY <1>0, <1>1, <2>1, <2>3, AskFollowed DEF CacheInv
  <2>8. TransitionsHarmless'
    BY <2>1, <2>2, <2>3, <2>4, <2>6, AskHarmless DEF CacheInv
  <2> QED
    BY <1>0, <2>1, <2>5, <2>7, <2>8, CacheParts
<1>4. CASE WritePrice(c)
  <2>1. /\ pc[c] = "priced" /\ Ask(c, call[c].updates) /\ context' = context
        /\ pc' = [pc EXCEPT ![c] = "writing"] /\ call' = [call EXCEPT ![c] = NoCall]
    BY <1>4 DEF WritePrice
  <2>2. /\ pc'[c] = "writing" /\ \A d \in Callers \ {c} : pc'[d] = pc[d] /\ call'[d] = call[d]
    BY <2>1 DEF IInv, TypeOK
  <2>3. call[c].updates \in Updates
    BY DEF IInv, TypeOK, Calls
  <2>4. \A d \in Callers : pc'[d] = "queued" => Harmless(call'[d].updates)
    BY <2>2 DEF CacheInv, TransitionsHarmless
  <2>5. Pending'
    BY <2>2 DEF Pending
  <2>6. pc[c] \notin Waiting
    BY <2>1 DEF Waiting
  <2>7. WritesAreFollowed'
    BY <1>0, <1>1, <2>1, <2>3, AskFollowed DEF CacheInv
  <2>8. TransitionsHarmless'
    BY <2>1, <2>2, <2>3, <2>4, <2>6, AskHarmless DEF CacheInv
  <2> QED
    BY <1>0, <2>1, <2>5, <2>7, <2>8, CacheParts
<1> QED
  BY <1>2, <1>3, <1>4 DEF Working
LEMMA EndKeepsCache ==
  ASSUME IInv, CacheInv, NEW c \in Callers, TransitionEnds(c)
  PROVE  CacheInv'
<1>1. /\ pc[c] = "seen" /\ EndTransition(c)
      /\ cached' = cached /\ arriving' = arriving
  BY DEF TransitionEnds, TakeTransition, RefuseTransition
<1>2. /\ context' = context
      /\ pc'[c] = "idle" /\ \A d \in Callers \ {c} : pc'[d] = pc[d] /\ call'[d] = call[d]
  BY <1>1 DEF EndTransition, IInv, TypeOK
<1>3. due \in Nat /\ cached \in [Fields -> Values]
  BY DEF CacheInv, WrapperTyped
<1>4. CASE contextQueue' = contextQueue /\ (due' = due \/ due' = due + 1)
  <2>1. due' \in Nat /\ due' >= due
    BY <1>3, <1>4
  <2>2. Agree(cached', cached)
    BY <1>1 DEF Agree
  <2>3. \A d \in Callers : \/ pc'[d] = pc[d] /\ call'[d] = call[d]
                           \/ /\ pc[d] \notin {"pricing", "priced", "writing"}
                              /\ pc'[d] \notin {"updating", "reading"}
                              /\ pc'[d] = "queued" => Harmless(call'[d].updates)
    BY <1>1, <1>2
  <2> QED
    BY <1>1, <1>2, <1>3, <1>4, <2>1, <2>2, <2>3, CacheUntouched
<1>5. CASE due' = due + 1 /\ \E u \in Updates : Ask(Nobody, u)
  <2>1. PICK u \in Updates : Ask(Nobody, u)
    BY <1>5
  <2>2. due' > 0 /\ due' \in Nat
    BY <1>3, <1>5
  <2>3. Pending'
    BY <2>2 DEF Pending
  <2>4. WritesAreFollowed'
    BY <2>1, <2>2, AskFollowed DEF CacheInv
  <2>5. \A d \in Callers \ {Nobody} : pc'[d] = pc[d] \/ pc'[d] \notin {"updating", "reading"}
    BY <1>2
  <2>6. \A d \in Callers : pc'[d] = "queued" => Harmless(call'[d].updates)
    BY <1>2 DEF CacheInv, TransitionsHarmless
  <2>7. TransitionsHarmless'
    BY <2>1, <2>5, <2>6, NobodyAssumption, AskHarmless DEF CacheInv
  <2> QED
    BY <1>1, <1>2, <1>3, <2>2, <2>3, <2>4, <2>7, CacheParts
<1>6. TakeTransition(c) /\ contextQueue' # contextQueue => \E u \in Updates : Ask(Nobody, u)
  BY UpdateFacts DEF TakeTransition, Applicable, IInv, TypeOK
<1> QED
  BY <1>4, <1>5, <1>6 DEF TransitionEnds, RefuseTransition

LEMMA RefreshKeepsCache ==
  ASSUME IInv, CacheInv, Ask(Nobody, NoUpdates),
         context' = context, pc' = pc, call' = call, cached' = cached, arriving' = arriving,
         due' \in Nat
  PROVE  CacheInv'
<1>1. Nobody \in Callers \cup {Nobody} /\ NoUpdates \in Updates
  BY UpdateFacts
<1>2. WritesAreFollowed'
  BY <1>1, AskFollowed DEF CacheInv
<1>3. \A d \in Callers : pc'[d] = "queued" => Harmless(call'[d].updates)
  BY DEF CacheInv, TransitionsHarmless
<1>4. TransitionsHarmless'
  BY <1>1, <1>3, NobodyAssumption, AskHarmless DEF CacheInv
<1>5. Refreshes(contextQueue'[Len(contextQueue) + 1])
      /\ Len(contextQueue) + 1 \in 1..Len(contextQueue')
  BY <1>1, Appended DEF Refreshes
<1>6. Pending'
  BY <1>5 DEF Pending
<1>7. cached' \in [Fields -> Values]
  BY DEF CacheInv, WrapperTyped
<1> QED
  BY <1>2, <1>4, <1>6, <1>7, CacheParts

LEMMA ArrivalKeepsCache ==
  ASSUME IInv, CacheInv, CacheArrives
  PROVE  CacheInv'
<1>1. /\ arriving \in Seq([Fields -> Values]) /\ arriving # <<>> /\ arriving' = Tail(arriving)
      /\ cached' = arriving[1]
      /\ UNCHANGED <<context, contextQueue, pc, call, due>>
  BY DEF CacheArrives, vars, locals, CacheInv, WrapperTyped
<1>2. /\ Len(arriving) \in Nat \ {0} /\ arriving' \in Seq([Fields -> Values])
      /\ Len(arriving') = Len(arriving) - 1
      /\ \A i \in 1..Len(arriving') : arriving'[i] = arriving[i + 1]
      /\ (arriving' = <<>>) <=> (Len(arriving') = 0)
  <2> DEFINE T == [Fields -> Values]
  <2> HIDE DEF T
  <2>1. arriving \in Seq(T) /\ arriving # <<>> /\ arriving' = Tail(arriving)
    BY <1>1 DEF T
  <2>2. /\ Len(arriving) \in Nat \ {0} /\ arriving' \in Seq(T)
        /\ Len(arriving') = Len(arriving) - 1
    BY <2>1
  <2>3. \A i \in 1..Len(arriving') : arriving'[i] = arriving[i + 1]
    BY <2>1
  <2>4. (arriving' = <<>>) <=> (Len(arriving') = 0)
    <3>1. arriving' = <<>> => Len(arriving') = 0
      OBVIOUS
    <3>2. Len(arriving') = 0 => arriving' = <<>>
      BY <2>2
    <3> QED
      BY <3>1, <3>2
  <2> QED
    BY <2>2, <2>3, <2>4 DEF T
<1>3. WrapperTyped'
  BY <1>1, <1>2 DEF CacheInv, WrapperTyped
<1>4. IF arriving' = <<>> THEN cached' = arriving[Len(arriving)]
      ELSE arriving'[Len(arriving')] = arriving[Len(arriving)]
  BY <1>1, <1>2
<1>5. Pending' => Pending
  BY <1>1 DEF Pending
<1>6. Pending => Pending'
  BY <1>1 DEF Pending
<1>7. LastIsTrue'
  BY <1>1, <1>4, <1>5, <1>6 DEF CacheInv, LastIsTrue
<1>8. WritesAreFollowed' /\ TransitionsHarmless'
  BY <1>1 DEF CacheInv, WritesAreFollowed, TransitionsHarmless
<1> QED
  BY <1>3, <1>7, <1>8 DEF CacheInv
LEMMA ServeKeepsCache ==
  ASSUME IInv, CacheInv, Serve
  PROVE  CacheInv'
<1> DEFINE req == contextQueue[1]
           last == Len(contextQueue)
<1>1. /\ contextQueue \in Seq(Requests) /\ last \in Nat \ {0} /\ Head(contextQueue) = req
      /\ req \in Requests /\ contextQueue' = Tail(contextQueue)
      /\ context' = Spread(context, req.updates)
      /\ context \in [Fields -> Values] /\ cached' = cached
  BY DEF Serve, ServeContext, IInv, TypeOK
<1>2. /\ Len(contextQueue') = last - 1
      /\ \A i \in 1..Len(contextQueue') : /\ contextQueue'[i] = contextQueue[i + 1]
                                          /\ i + 1 \in 2..last
      /\ \A i \in 2..last : i - 1 \in 1..Len(contextQueue') /\ contextQueue'[i - 1] = contextQueue[i]
  BY <1>1
<1>3. /\ arriving' = IF Refreshes(req) THEN Append(arriving, context) ELSE arriving
      /\ due' = IF req.who \in Callers /\ pc[req.who] = "writing" THEN due + 1 ELSE due
      /\ call' = call
      /\ \/ req.who = Nobody /\ pc' = pc
         \/ req.who \in Callers /\ pc' = [pc EXCEPT ![req.who] = Resumed[@]]
  BY <1>1 DEF Serve, ServeContext
<1>4. 1 \in 1..last /\ req.who \in Callers \cup {Nobody} /\ req.updates \in Updates
  BY <1>1 DEF Requests
<1>5. ASSUME req.who \in Callers
      PROVE  pc[req.who] \in Waiting /\ pc'[req.who] = Resumed[pc[req.who]]
  BY <1>3, <1>4, <1>5, NobodyAssumption DEF IInv, TypeOK, Requested
<1>6. \A d \in Callers : d # req.who => pc'[d] = pc[d]
  BY <1>3 DEF IInv, TypeOK
<1>7. /\ Resumed["pricing"] = "priced"
      /\ \A l \in Waiting : Resumed[l] \notin {"updating", "reading", "queued"}
  BY DEF Resumed, Waiting
<1> HIDE DEF req, last
<1>8. due \in Nat /\ due' \in Nat /\ due' >= due
  BY <1>3 DEF CacheInv, WrapperTyped
<1>9. WrapperTyped'
  BY <1>1, <1>3, <1>8 DEF CacheInv, WrapperTyped
<1>10. TransitionsHarmless'
  <2>1. \A d \in Callers : pc'[d] \in {"updating", "reading", "queued"} => pc'[d] = pc[d]
    BY <1>5, <1>6, <1>7
  <2>2. \A d \in Callers : pc'[d] = "queued" => Harmless(call'[d].updates)
    BY <1>3, <2>1 DEF CacheInv, TransitionsHarmless
  <2>3. ASSUME NEW i \in 1..Len(contextQueue'), contextQueue'[i].who \in Callers,
               pc'[contextQueue'[i].who] \in {"updating", "reading"}
        PROVE  Harmless(contextQueue'[i].updates)
    <3>1. i + 1 \in 1..Len(contextQueue) /\ contextQueue'[i] = contextQueue[i + 1]
      BY <1>1, <1>2 DEF last
    <3> QED
      BY <2>1, <2>3, <3>1 DEF CacheInv, TransitionsHarmless
  <2> QED
    BY <2>2, <2>3 DEF TransitionsHarmless, Harmless
<1>11. WritesAreFollowed'
  <2> SUFFICES ASSUME NEW i \in 1..Len(contextQueue'), contextQueue'[i].who = Nobody,
                      ~Refreshes(contextQueue'[i])
               PROVE  \/ due' > 0
                      \/ \E j \in 1..Len(contextQueue') : i < j /\ Refreshes(contextQueue'[j])
    BY DEF WritesAreFollowed, Refreshes
  <2>1. i + 1 \in 1..Len(contextQueue) /\ contextQueue'[i] = contextQueue[i + 1]
    BY <1>1, <1>2 DEF last
  <2>2. CASE due > 0
    BY <1>8, <2>2
  <2>3. CASE \E j \in 1..Len(contextQueue) : i + 1 < j /\ Refreshes(contextQueue[j])
    <3>1. PICK j \in 1..Len(contextQueue) : i + 1 < j /\ Refreshes(contextQueue[j])
      BY <2>3
    <3>2. /\ j - 1 \in 1..Len(contextQueue') /\ i < j - 1
          /\ contextQueue'[j - 1] = contextQueue[j]
      BY <1>1, <1>2, <3>1 DEF last
    <3> QED
      BY <3>1, <3>2
  <2> QED
    BY <2>1, <2>2, <2>3 DEF CacheInv, WritesAreFollowed, Refreshes
<1>12. LastIsTrue'
  <2>1. CASE Refreshes(req)
    <3>1. Agree(context', context)
      BY <1>1, <2>1, HarmlessFacts DEF Refreshes, Request
    <3>2. arriving' = Append(arriving, context) /\ arriving \in Seq([Fields -> Values])
      BY <1>3, <2>1 DEF CacheInv, WrapperTyped
    <3>3. arriving' # <<>> /\ arriving'[Len(arriving')] = context
      <4> DEFINE T == [Fields -> Values]
      <4>1. arriving \in Seq(T) /\ context \in T /\ arriving' = Append(arriving, context)
        BY <1>1, <3>2
      <4> HIDE DEF T
      <4> QED
        BY <4>1
    <3> QED
      BY <3>1, <3>3 DEF LastIsTrue, Agree
  <2>2. CASE req.who = Nobody /\ ~Refreshes(req)
    <3>1. due > 0 \/ \E j \in 1..Len(contextQueue) : 1 < j /\ Refreshes(contextQueue[j])
      BY <1>4, <2>2 DEF CacheInv, WritesAreFollowed, req, last
    <3>2. Pending'
      <4>1. ASSUME NEW j \in 1..Len(contextQueue), 1 < j, Refreshes(contextQueue[j])
            PROVE  Pending'
        <5>1. j - 1 \in 1..Len(contextQueue') /\ contextQueue'[j - 1] = contextQueue[j]
          BY <1>1, <1>2, <4>1 DEF last
        <5>2. Refreshes(contextQueue'[j - 1])
          BY <4>1, <5>1
        <5> QED
          BY <5>1, <5>2 DEF Pending, Refreshes
      <4> QED
        BY <1>8, <3>1, <4>1 DEF Pending
    <3> QED
      BY <3>2 DEF LastIsTrue
  <2>3. CASE req.who \in Callers /\ pc[req.who] = "writing"
    <3>1. Pending'
      BY <1>3, <1>8, <2>3 DEF Pending
    <3> QED
      BY <3>1 DEF LastIsTrue
  <2>4. CASE req.who \in Callers /\ pc[req.who] = "pricing"
    <3>1. Pending'
      BY <1>5, <1>7, <2>4 DEF Pending
    <3> QED
      BY <3>1 DEF LastIsTrue
  <2>5. CASE req.who \in Callers /\ pc[req.who] \in {"updating", "reading"}
    <3>1. Harmless(req.updates)
      BY <1>4, <2>5 DEF CacheInv, TransitionsHarmless, req, last
    <3>2. Agree(context', context)
      BY <1>1, <3>1, HarmlessFacts
    <3>3. ~Refreshes(req)
      BY <2>5, NobodyAssumption DEF Refreshes, Request
    <3>4. Pending => Pending'
      <4>1. ASSUME NEW j \in 1..Len(contextQueue), Refreshes(contextQueue[j]) PROVE Pending'
        <5>1. j # 1
          BY <3>3, <4>1 DEF req
        <5>2. j - 1 \in 1..Len(contextQueue') /\ contextQueue'[j - 1] = contextQueue[j]
          BY <1>1, <1>2, <5>1 DEF last
        <5>3. Refreshes(contextQueue'[j - 1])
          BY <4>1, <5>2
        <5> QED
          BY <5>2, <5>3 DEF Pending, Refreshes
      <4>2. ASSUME NEW d \in Callers, pc[d] \in {"pricing", "priced", "writing"} PROVE Pending'
        BY <1>6, <2>5, <4>2 DEF Pending
      <4>3. due > 0 => Pending'
        BY <1>8 DEF Pending
      <4> QED
        BY <4>1, <4>2, <4>3 DEF Pending
    <3>5. arriving' = arriving /\ cached' = cached
      BY <1>1, <1>3, <3>3
    <3> QED
      BY <3>2, <3>4, <3>5 DEF CacheInv, LastIsTrue, Agree
  <2> QED
    BY <1>4, <1>5, <2>1, <2>2, <2>3, <2>4, <2>5 DEF Waiting
<1> QED
  BY <1>9, <1>10, <1>11, <1>12 DEF CacheInv

LEMMA CacheInvariant == ManagerSpec => [](IInv /\ CacheInv)
<1>1. ManagerInit => IInv /\ CacheInv
  <2> SUFFICES ASSUME ManagerInit PROVE IInv /\ CacheInv
    OBVIOUS
  <2>1. /\ cached = InitialContext /\ context = InitialContext /\ due = 0 /\ arriving = <<>>
        /\ contextQueue = <<>> /\ pc = [c \in Callers |-> "idle"]
    BY DEF ManagerInit, Init
  <2>2. InitialContext \in [Fields -> Values]
    BY DEF InitialContext, Values
  <2>3. WrapperTyped
    BY <2>1, <2>2 DEF WrapperTyped
  <2>4. LastIsTrue /\ WritesAreFollowed /\ TransitionsHarmless
    BY <2>1 DEF LastIsTrue, Agree, WritesAreFollowed, TransitionsHarmless
  <2> QED
    BY <2>3, <2>4, InitInvariant DEF ManagerInit, CacheInv
<1>2. IInv /\ CacheInv /\ [ManagerNext]_managerVars => (IInv /\ CacheInv)'
  <2> SUFFICES ASSUME IInv, CacheInv, [ManagerNext]_managerVars PROVE CacheInv'
    BY ManagerKeepsIInv
  <2>1. ASSUME UNCHANGED <<vars, cached, due, arriving>> PROVE CacheInv'
    BY <2>1 DEF vars, locals, CacheInv, WrapperTyped, LastIsTrue, Pending, WritesAreFollowed,
                TransitionsHarmless, Harmless, Agree, Refreshes
  <2>2. Refresh => CacheInv'
    BY RefreshKeepsCache DEF Refresh, locals, CacheInv, WrapperTyped
  <2>3. ASSUME NEW s \in ForcedStates, ForceAndRefresh(s) PROVE CacheInv'
    BY <2>3, RefreshKeepsCache DEF ForceAndRefresh, locals, CacheInv, WrapperTyped
  <2> QED
    BY <2>1, <2>2, <2>3, ManagerSteps, StartedKeepsCache, PriceKeepsCache, EndKeepsCache,
       WorkKeepsCache, ServeKeepsCache, ArrivalKeepsCache
<1> QED
  BY <1>1, <1>2, PTL DEF ManagerSpec

(***************************************************************************)
(* When nothing is under way any more, price, PnL and stamp of the copy    *)
(* the wrapper shows are the machine's, for any number of callers, however *)
(* its refreshes overlap with transitions, price updates and force.        *)
(***************************************************************************)
THEOREM CopyCatchesUp == ManagerSpec => []CacheCatchesUp
<1>1. CacheInv => CacheCatchesUp
  <2> SUFFICES ASSUME CacheInv, Quiet PROVE Agree(cached, context)
    BY DEF CacheCatchesUp, Agree, Told
  <2>1. ~Pending
    BY DEF Quiet, Pending
  <2> QED
    BY <2>1 DEF Quiet, CacheInv, LastIsTrue
<1> QED
  BY <1>1, CacheInvariant, PTL
-----------------------------------------------------------------------------
(* The manager's triggers lead forward only, and from EXITING to CLOSED only. *)
LEMMA ManagerRules ==
  \A r \in AtomicRules :
    r[1] \in ManagerStates /\ r[2] \in ManagerTriggers
      => /\ r[3] \in ManagerStates /\ r[1] # "CLOSED"
         /\ r[1] = "EXITING" => r[3] = "CLOSED"
  BY DEF AtomicRules, BaseRules, States, ManagerStates, ManagerTriggers

LEMMA CompletedApplies ==
  /\ CanTransition(AtomicRules, "EXITING", "EXIT_COMPLETED")
  /\ \A s \in ManagerStates : CanTransition(AtomicRules, s, "EXIT_COMPLETED") => s = "EXITING"
<1>1. <<"EXITING", "EXIT_COMPLETED", "CLOSED">> \in AtomicRules
  BY DEF AtomicRules, BaseRules
<1>2. \A r \in AtomicRules : r[2] = "EXIT_COMPLETED" => r[1] \in {"EXITING", "ERROR"}
  BY DEF AtomicRules, BaseRules, States
<1> QED
  BY <1>1, <1>2 DEF CanTransition, Applicable, ManagerStates

(* A call goes on, or its arguments and what it has loaded stay; what it loads is current. *)
GoesOn(c) ==
  /\ pc[c] \in Going <=> pc'[c] \in Going
  /\ pc[c] \in Going => /\ call'[c].trigger = call[c].trigger
                        /\ pc'[c] # "queued" =>
                             \/ pc[c] # "queued" /\ loaded'[c] = loaded[c]
                             \/ loaded'[c] = atomicState

LEMMA StateStays ==
  ASSUME CloseInv, atomicState' = atomicState,
         reported' => reported \/ atomicState = "CLOSED",
         \A c \in Callers : GoesOn(c)
  PROVE  CloseInv'
<1>1. \A c \in Callers : Closing(c)' <=> Closing(c)
  BY DEF GoesOn, Closing
<1>2. \A c \in Callers : pc'[c] \in Going => call'[c].trigger \in ManagerTriggers
  BY DEF GoesOn, CloseInv
<1>3. ASSUME NEW c \in Callers, Closing(c), pc'[c] # "queued"
      PROVE  loaded'[c] = "EXITING" \/ atomicState = "CLOSED"
  BY <1>3 DEF GoesOn, CloseInv, Closing
<1>4. reported' => \/ atomicState' = "CLOSED"
                   \/ atomicState' = "EXITING" /\ \E c \in Callers : Closing(c)'
  BY <1>1 DEF CloseInv
<1> QED
  BY <1>1, <1>2, <1>3, <1>4 DEF CloseInv

LEMMA StartedKeepsClose ==
  ASSUME IInv, CloseInv, NEW c \in Callers, NEW t \in ManagerTriggers,
         NEW u \in CallerUpdates, Started(c, t, u)
  PROVE  CloseInv'
<1>1. /\ pc[c] = "idle" /\ pc'[c] = "queued" /\ call'[c].trigger = t
      /\ \A d \in Callers \ {c} : pc'[d] = pc[d] /\ call'[d] = call[d]
      /\ atomicState' = atomicState /\ loaded' = loaded
      /\ CanTransition(AtomicRules, atomicState, t)
      /\ t # "EXIT_COMPLETED" => reported' = reported
  BY DEF Started, StartTransition, Accepts, CallTransition, machine, IInv, TypeOK
<1>2. \A d \in Callers \ {c} : Closing(d)' <=> Closing(d)
  BY <1>1 DEF Closing
<1>3. ~Closing(c) /\ (Closing(c)' <=> t = "EXIT_COMPLETED")
  BY <1>1 DEF Closing, Going
<1>4. t = "EXIT_COMPLETED" => atomicState = "EXITING"
  BY <1>1, CompletedApplies DEF CloseInv
<1>5. \A d \in Callers : pc'[d] \in Going => call'[d].trigger \in ManagerTriggers
  BY <1>1 DEF CloseInv
<1>6. \A d \in Callers : Closing(d)' => atomicState' \in {"EXITING", "CLOSED"}
  BY <1>1, <1>2, <1>3, <1>4 DEF CloseInv
<1>7. \A d \in Callers : Closing(d)' /\ pc'[d] # "queued"
                           => loaded'[d] = "EXITING" \/ atomicState' = "CLOSED"
  BY <1>1, <1>2 DEF CloseInv
<1>8. reported' => \/ atomicState' = "CLOSED"
                   \/ atomicState' = "EXITING" /\ \E d \in Callers : Closing(d)'
  <2>1. CASE t = "EXIT_COMPLETED"
    BY <1>1, <1>3, <1>4, <2>1
  <2>2. CASE t # "EXIT_COMPLETED"
    BY <1>1, <1>2, <1>3, <2>2 DEF CloseInv
  <2> QED
    BY <2>1, <2>2
<1> QED
  BY <1>1, <1>5, <1>6, <1>7, <1>8 DEF CloseInv

LEMMA EndKeepsClose ==
  ASSUME IInv, CloseInv, NEW c \in Callers, TransitionEnds(c)
  PROVE  CloseInv'
<1>1. /\ pc[c] = "seen" /\ pc'[c] = "idle" /\ reported' = reported
      /\ \A d \in Callers \ {c} : /\ pc'[d] = pc[d] /\ call'[d] = call[d]
                                  /\ loaded'[d] = loaded[d]
  BY DEF TransitionEnds, TakeTransition, RefuseTransition, EndTransition, IInv, TypeOK
<1>2. \A d \in Callers \ {c} : Closing(d)' <=> Closing(d)
  BY <1>1 DEF Closing
<1>3. ~Closing(c)'
  BY <1>1 DEF Closing, Going
<1>4. \A d \in Callers : pc'[d] \in Going => call'[d].trigger \in ManagerTriggers
  BY <1>1 DEF CloseInv, Going
<1>5. call[c].trigger \in ManagerTriggers
  BY <1>1 DEF CloseInv, Going
<1>6. CASE TakeTransition(c)
  <2>1. PICK rule \in AtomicRules : /\ rule[1] = atomicState /\ rule[2] = call[c].trigger
                                    /\ atomicState' = rule[3]
    BY <1>6 DEF TakeTransition, Applicable
  <2>2. /\ atomicState' \in ManagerStates /\ atomicState # "CLOSED"
        /\ atomicState = "EXITING" => atomicState' = "CLOSED"
    BY <1>5, <2>1, ManagerRules DEF CloseInv
  <2>3. \A d \in Callers : Closing(d) => atomicState' = "CLOSED"
    BY <2>2 DEF CloseInv
  <2>4. reported => atomicState' = "CLOSED"
    BY <2>2 DEF CloseInv
  <2> QED
    BY <1>1, <1>2, <1>3, <1>4, <2>2, <2>3, <2>4 DEF CloseInv
<1>7. CASE RefuseTransition(c)
  <2>1. /\ atomicState' = atomicState
        /\ \/ ~CanTransition(AtomicRules, loaded[c], call[c].trigger)
           \/ atomicState # loaded[c]
    BY <1>7 DEF RefuseTransition, machine
  <2>2. Closing(c) => atomicState = "CLOSED"
    BY <1>1, <2>1, CompletedApplies DEF CloseInv, Closing
  <2>3. reported' => \/ atomicState' = "CLOSED"
                     \/ atomicState' = "EXITING" /\ \E d \in Callers : Closing(d)'
    BY <1>1, <1>2, <2>1, <2>2 DEF CloseInv
  <2> QED
    BY <1>1, <1>2, <1>3, <1>4, <2>1, <2>3 DEF CloseInv
<1> QED
  BY <1>6, <1>7 DEF TransitionEnds

LEMMA ForceKeepsClose ==
  ASSUME CloseInv, atomicState' = "CLOSED", UNCHANGED <<pc, locals>>
  PROVE  CloseInv'
<1>1. \A c \in Callers : Closing(c)' <=> Closing(c)
  BY DEF Closing, locals
<1> QED
  BY <1>1 DEF CloseInv, ManagerStates, locals

LEMMA WorkKeepsClose ==
  ASSUME IInv, CloseInv, NEW c \in Callers,
         Working(c) \/ (\E p \in Prices : StartPriceUpdate(c, p) /\ UNCHANGED reported)
  PROVE  CloseInv'
<1>1. /\ atomicState' = atomicState /\ reported' = reported
      /\ \A d \in Callers \ {c} : /\ pc'[d] = pc[d] /\ call'[d] = call[d]
                                  /\ loaded'[d] = loaded[d]
  BY DEF Working, StartPriceUpdate, CallUpdatePrice, EnterTransition, ReadAfterUpdate,
         WritePrice, machine, wrapper, locals, IInv, TypeOK
<1>2. \/ /\ pc[c] = "queued" /\ pc'[c] \in {"reading", "updating"}
         /\ call' = call /\ loaded'[c] = atomicState
      \/ pc[c] = "updated" /\ pc'[c] = "reading" /\ call' = call /\ loaded' = loaded
      \/ pc[c] \in {"idle", "priced"} /\ pc'[c] \in {"pricing", "writing"}
  BY DEF Working, StartPriceUpdate, CallUpdatePrice, EnterTransition, ReadAfterUpdate,
         WritePrice, locals, IInv, TypeOK
<1>3. GoesOn(c)
  BY <1>2 DEF GoesOn, Going
<1>4. \A d \in Callers \ {c} : GoesOn(d)
  BY <1>1 DEF GoesOn
<1> QED
  BY <1>1, <1>3, <1>4, StateStays

LEMMA ServeKeepsClose ==
  ASSUME IInv, CloseInv, Serve
  PROVE  CloseInv'
<1> DEFINE req == contextQueue[1]
<1>1. /\ atomicState' = atomicState /\ reported' = reported
      /\ call' = call /\ loaded' = loaded
      /\ \/ req.who = Nobody /\ pc' = pc
         \/ req.who \in Callers /\ pc' = [pc EXCEPT ![req.who] = Resumed[@]]
      /\ 1 \in 1..Len(contextQueue)
  BY DEF Serve, ServeContext, machine, IInv, TypeOK
<1>2. req.who \in Callers => pc[req.who] \in Waiting
  BY <1>1 DEF IInv, Requested
<1>3. \A d \in Callers : \/ pc'[d] = pc[d]
                         \/ pc[d] \in Waiting /\ pc'[d] = Resumed[pc[d]]
  <2> HIDE DEF req
  <2> QED
    BY <1>1, <1>2 DEF IInv, TypeOK
<1>4. \A l \in Waiting : /\ l \in Going <=> Resumed[l] \in Going
                         /\ l # "queued"
  BY DEF Resumed, Waiting, Going
<1>5. \A d \in Callers : GoesOn(d)
  BY <1>1, <1>3, <1>4 DEF GoesOn
<1> QED
  BY <1>1, <1>5, StateStays

(***************************************************************************)
(* Once closePosition() has answered true the position ends CLOSED, for    *)
(* any number of callers, though the answer is given before the machine    *)
(* has moved.  The premise: force is used to close, and for nothing else.  *)
(***************************************************************************)
THEOREM ReportMeansClosed ==
  ASSUME ForcedStates \subseteq {"CLOSED"}
  PROVE  ManagerSpec => []ReportedCloses
<1>1. ManagerInit => CloseInv
  BY DEF ManagerInit, Init, CloseInv, ManagerStates, Closing, Going
<1>2. IInv /\ CloseInv /\ [ManagerNext]_managerVars => CloseInv'
  <2> SUFFICES ASSUME IInv, CloseInv, [ManagerNext]_managerVars PROVE CloseInv'
    OBVIOUS
  <2>1. ASSUME UNCHANGED vars, reported' => reported \/ atomicState = "CLOSED" PROVE CloseInv'
    <3>1. \A c \in Callers : GoesOn(c)
      BY <2>1 DEF GoesOn, vars, locals
    <3> QED
      BY <2>1, <3>1, StateStays DEF vars, machine
  <2>2. Refresh => CloseInv'
    <3>1. Refresh => /\ atomicState' = atomicState /\ reported' = reported
                     /\ \A c \in Callers : GoesOn(c)
      BY DEF Refresh, GoesOn, machine, locals
    <3> QED
      BY <3>1, StateStays
  <2>3. ASSUME NEW s \in ForcedStates, ForceAndRefresh(s) PROVE CloseInv'
    BY <2>3, ForceKeepsClose DEF ForceAndRefresh
  <2>4. CacheArrives => CloseInv'
    BY <2>1 DEF CacheArrives
  <2> QED
    BY <2>1, <2>2, <2>3, <2>4, ManagerSteps, StartedKeepsClose, EndKeepsClose, WorkKeepsClose,
       ServeKeepsClose
<1>3. CloseInv => ReportedCloses
  BY DEF CloseInv, Closing, Going, ReportedCloses, Quiet
<1>4. ManagerSpec => []IInv
  BY CacheInvariant, PTL
<1> QED
  BY <1>1, <1>2, <1>3, <1>4, PTL DEF ManagerSpec

(***************************************************************************)
(* Under the wrapper, too, transitions exclude each other, and price and   *)
(* PnL do not tear before an exit is stamped.                              *)
(***************************************************************************)
THEOREM ManagerKeepsAgreement == ManagerSpec => [](TransitionsExclusive /\ OpenPnlMatchesPrice)
  BY CacheInvariant, PTL DEF IInv
=============================================================================
