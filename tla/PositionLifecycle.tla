------------------------- MODULE PositionLifecycle -------------------------
(***************************************************************************)
(* What both position state machines promise: the state changes only by    *)
(* one rule at a time or by forceState(), and every change, with the       *)
(* trigger that caused it, is appended to a history bounded to its last    *)
(* MaxHistory entries (50 in the code).  PositionMachine and               *)
(* AtomicPosition are both checked against this specification.             *)
(***************************************************************************)
EXTENDS PositionRules, Naturals, Sequences

CONSTANTS Rules,        \* the rule table of the machine
          MaxHistory,   \* entries kept by recordStateChange(); 50 in the code
          NoTrigger     \* the omitted trigger of a forced change

(* What the tables and bounds of both machines satisfy. *)
WellFormed ==
  /\ Rules \subseteq States \X Triggers \X States
  /\ MaxHistory \in Nat \ {0}

VARIABLES state, history
vars == <<state, history>>

Entry == [state : States, trigger : Triggers \cup {NoTrigger}]

(* A faulty variant: the history is never trimmed. *)
RecordForever(h, s, t) == Append(h, [state |-> s, trigger |-> t])

(* push(), then slice(-MaxHistory) when the array has grown past the cap. *)
Record(h, s, t) ==
  LET longer == Append(h, [state |-> s, trigger |-> t])
  IN  IF Len(longer) > MaxHistory THEN Tail(longer) ELSE longer

Init == /\ state = "CREATED"
        /\ history = Record(<<>>, "CREATED", NoTrigger)

(* A faulty variant: the rule is looked up by its trigger alone. *)
TransitionFromAnyState(t) ==
  \E r \in { q \in Rules : q[2] = t } :
    /\ state' = r[3]
    /\ history' = Record(history, r[3], t)

(* transition() that finds a rule; one that finds none stutters. *)
Transition(t) ==
  \E r \in Applicable(Rules, state, t) :
    /\ state' = r[3]
    /\ history' = Record(history, r[3], t)

(* forceState(): no rule, no guard. *)
ForceState(s) ==
  /\ state' = s
  /\ history' = Record(history, s, NoTrigger)

Next == \/ \E t \in Triggers : Transition(t)
        \/ \E s \in States : ForceState(s)

Spec == Init /\ [][Next]_vars
-----------------------------------------------------------------------------
TypeOK == /\ state \in States
          /\ history \in Seq(Entry)
          /\ Len(history) \in 1..MaxHistory

(***************************************************************************)
(* The audit trail is truthful: it ends in the current state, and every    *)
(* entry but a forced one follows from the entry before it by a rule that  *)
(* has the recorded trigger.  It can break over several steps, when a      *)
(* transition writes a state computed from one that is no longer current.  *)
(***************************************************************************)
HistoryFollowsRules ==
  /\ history[Len(history)].state = state
  /\ \A i \in 1..(Len(history) - 1) :
       \/ history[i + 1].trigger = NoTrigger
       \/ <<history[i].state, history[i + 1].trigger, history[i + 1].state>> \in Rules

(***************************************************************************)
(* A closed position is never reopened by a transition: only forceState(), *)
(* which records no trigger, can take the machine out of CLOSED.           *)
(***************************************************************************)
ClosedIsFinal ==
  [][state = "CLOSED" /\ state' # "CLOSED" => history'[Len(history')].trigger = NoTrigger]_vars
=============================================================================
