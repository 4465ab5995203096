---------------------- MODULE PositionLifecycle_proofs ----------------------
(* Proofs about PositionLifecycle, for every rule table and history bound. *)
EXTENDS PositionLifecycle, TLAPS

(***************************************************************************)
(* recordStateChange() never loses the entry it was given, keeps every     *)
(* other kept entry in place relative to it, and keeps at most MaxHistory. *)
(***************************************************************************)
LEMMA RecordFacts ==
  ASSUME WellFormed,
         NEW h \in Seq(Entry), Len(h) \in 0..MaxHistory,
         NEW s \in States, NEW t \in Triggers \cup {NoTrigger}
  PROVE  LET r == Record(h, s, t)
         IN  /\ r \in Seq(Entry)
             /\ Len(r) \in 1..MaxHistory
             /\ r[Len(r)] = [state |-> s, trigger |-> t]
             /\ \E k \in {0, 1} :
                  /\ Len(r) = Len(h) + 1 - k
                  /\ \A i \in 1..(Len(r) - 1) : r[i] = h[i + k]
<1>0. MaxHistory \in Nat \ {0}
  BY DEF WellFormed
<1> DEFINE e == [state |-> s, trigger |-> t]
           longer == Append(h, e)
<1>1. e \in Entry
  BY DEF Entry
<1>2. /\ longer \in Seq(Entry)
      /\ Len(longer) = Len(h) + 1
      /\ longer[Len(h) + 1] = e
      /\ \A i \in 1..Len(h) : longer[i] = h[i]
  BY <1>1
<1>3. CASE Len(longer) > MaxHistory
  <2>1. Record(h, s, t) = Tail(longer)
    BY <1>3 DEF Record
  <2>2. /\ Tail(longer) \in Seq(Entry)
        /\ Len(Tail(longer)) = Len(h)
        /\ \A i \in 1..Len(h) : Tail(longer)[i] = longer[i + 1]
    BY <1>2
  <2>3. Len(h) = MaxHistory /\ Len(h) \in Nat \ {0}
    BY <1>2, <1>3, <1>0
  <2>4. Tail(longer)[Len(h)] = e /\ \A i \in 1..(Len(h) - 1) : Tail(longer)[i] = h[i + 1]
    BY <1>2, <2>2, <2>3
  <2> HIDE DEF longer, e
  <2> QED
    BY <2>1, <2>2, <2>3, <2>4, <1>0 DEF e
<1>4. CASE ~(Len(longer) > MaxHistory)
  <2>1. Record(h, s, t) = longer
    BY <1>4 DEF Record
  <2>2. Len(longer) \in 1..MaxHistory
    BY <1>2, <1>4, <1>0
  <2> HIDE DEF longer, e
  <2> QED
    BY <1>2, <2>1, <2>2 DEF e
<1> QED
  BY <1>3, <1>4

(* The first entry, CREATED without a trigger. *)
LEMMA InitFacts ==
  ASSUME WellFormed, Init
  PROVE  TypeOK /\ HistoryFollowsRules
<1>0. MaxHistory \in Nat \ {0}
  BY DEF WellFormed
<1>1. <<>> \in Seq(Entry) /\ Len(<<>>) = 0 /\ 0 \in 0..MaxHistory
  BY <1>0
<1>2. "CREATED" \in States /\ NoTrigger \in Triggers \cup {NoTrigger}
  BY DEF States
<1> DEFINE r == Record(<<>>, "CREATED", NoTrigger)
<1>3. /\ r \in Seq(Entry)
      /\ Len(r) \in 1..MaxHistory
      /\ r[Len(r)] = [state |-> "CREATED", trigger |-> NoTrigger]
      /\ \E k \in {0, 1} : Len(r) = Len(<<>>) + 1 - k
  <2> HIDE DEF r
  <2>1. ASSUME NEW h \in Seq(Entry), h = <<>>, Len(h) \in 0..MaxHistory
        PROVE  LET q == Record(h, "CREATED", NoTrigger)
               IN  /\ q \in Seq(Entry)
                   /\ Len(q) \in 1..MaxHistory
                   /\ q[Len(q)] = [state |-> "CREATED", trigger |-> NoTrigger]
                   /\ \E k \in {0, 1} : Len(q) = Len(h) + 1 - k
    BY <1>2, <2>1, RecordFacts
  <2> QED
    BY <1>1, <2>1 DEF r
<1>4. history = r
  BY DEF Init
<1> HIDE DEF r
<1>5. Len(history) = 1
  <2>1. PICK k \in {0, 1} : Len(r) = 0 + 1 - k
    BY <1>1, <1>3
  <2>2. Len(r) \in Nat \ {0}
    BY <1>3, <1>0
  <2>3. Len(r) = 1
    BY <2>1, <2>2
  <2> QED
    BY <2>3, <1>4
<1> QED
  BY <1>2, <1>3, <1>4, <1>5, <1>0 DEF Init, TypeOK, HistoryFollowsRules

(***************************************************************************)
(* Appending a change to a truthful history keeps it truthful, also when   *)
(* the oldest entry drops out.                                             *)
(***************************************************************************)
LEMMA RecordTruthful ==
  ASSUME WellFormed, TypeOK, HistoryFollowsRules,
         NEW s \in States, NEW t \in Triggers \cup {NoTrigger},
         t = NoTrigger \/ <<state, t, s>> \in Rules,
         state' = s, history' = Record(history, s, t)
  PROVE  TypeOK' /\ HistoryFollowsRules' /\ history'[Len(history')].trigger = t
<1>0. MaxHistory \in Nat \ {0}
  BY DEF WellFormed
<1>1. history \in Seq(Entry) /\ Len(history) \in 0..MaxHistory /\ Len(history) \in 1..MaxHistory
  BY <1>0 DEF TypeOK
<1>2. /\ history' \in Seq(Entry)
      /\ Len(history') \in 1..MaxHistory
      /\ history'[Len(history')] = [state |-> s, trigger |-> t]
  BY <1>1, RecordFacts
<1>3. PICK k \in {0, 1} :
        /\ Len(history') = Len(history) + 1 - k
        /\ \A i \in 1..(Len(history') - 1) : history'[i] = history[i + k]
  BY <1>1, RecordFacts
<1>4. ASSUME NEW i \in 1..(Len(history') - 1)
      PROVE  \/ history'[i + 1].trigger = NoTrigger
             \/ <<history'[i].state, history'[i + 1].trigger, history'[i + 1].state>> \in Rules
  <2>1. history'[i] = history[i + k] /\ i + k \in 1..Len(history)
    BY <1>1, <1>2, <1>3
  <2>2. CASE i + 1 = Len(history')
    <3>1. i + k = Len(history)
      BY <1>1, <1>2, <1>3, <2>2
    <3>2. history'[i].state = state
      BY <2>1, <3>1 DEF HistoryFollowsRules
    <3>3. history'[i + 1].state = s /\ history'[i + 1].trigger = t
      BY <1>2, <2>2
    <3> QED
      BY <3>2, <3>3
  <2>3. CASE i + 1 # Len(history')
    <3>1. /\ i + 1 \in 1..(Len(history') - 1)
          /\ i + k \in 1..(Len(history) - 1)
          /\ (i + 1) + k = (i + k) + 1
      BY <1>1, <1>2, <1>3, <2>3
    <3>2. history'[i + 1] = history[(i + k) + 1]
      BY <1>3, <3>1
    <3> QED
      BY <2>1, <3>1, <3>2 DEF HistoryFollowsRules
  <2> QED
    BY <2>2, <2>3
<1> QED
  BY <1>2, <1>4 DEF TypeOK, HistoryFollowsRules

(* One step of the machine keeps its types and its history truthful. *)
LEMMA StepTruthful ==
  ASSUME WellFormed, TypeOK, HistoryFollowsRules, [Next]_vars
  PROVE  TypeOK' /\ HistoryFollowsRules'
<1>1. ASSUME NEW t \in Triggers, Transition(t)
      PROVE  TypeOK' /\ HistoryFollowsRules'
  <2>1. PICK r \in Applicable(Rules, state, t) : state' = r[3] /\ history' = Record(history, r[3], t)
    BY <1>1 DEF Transition
  <2>2. r \in Rules /\ r[1] = state /\ r[2] = t
    BY <2>1 DEF Applicable
  <2>3. r[3] \in States /\ r = <<state, t, r[3]>>
    BY <2>2 DEF WellFormed
  <2> QED
    BY <2>1, <2>2, <2>3, RecordTruthful
<1>2. ASSUME NEW s \in States, ForceState(s)
      PROVE  TypeOK' /\ HistoryFollowsRules'
  BY <1>2, RecordTruthful DEF ForceState
<1>3. ASSUME UNCHANGED vars
      PROVE  TypeOK' /\ HistoryFollowsRules'
  BY <1>3 DEF vars, TypeOK, HistoryFollowsRules
<1> QED
  BY <1>1, <1>2, <1>3 DEF Next

(***************************************************************************)
(* The audit trail of every machine that implements this specification is  *)
(* well typed, bounded and truthful in every reachable state.              *)
(***************************************************************************)
THEOREM Truthful ==
  ASSUME WellFormed
  PROVE  Spec => [](TypeOK /\ HistoryFollowsRules)
<1>0. Init => TypeOK /\ HistoryFollowsRules
  BY InitFacts
<1>1. (TypeOK /\ HistoryFollowsRules) /\ [Next]_vars => (TypeOK /\ HistoryFollowsRules)'
  BY StepTruthful
<1> QED
  BY <1>0, <1>1, PTL DEF Spec

(* With a table in which no rule leaves CLOSED, only a forced change does. *)
LEMMA Final ==
  ASSUME WellFormed, \A r \in Rules : r[1] # "CLOSED"
  PROVE  Spec => ClosedIsFinal
<1>0. Spec => [](TypeOK /\ HistoryFollowsRules)
  BY Truthful
<1>1. TypeOK /\ HistoryFollowsRules /\ [Next]_vars
        => [state = "CLOSED" /\ state' # "CLOSED" => history'[Len(history')].trigger = NoTrigger]_vars
  <2> SUFFICES ASSUME TypeOK, HistoryFollowsRules, Next, state = "CLOSED"
               PROVE  history'[Len(history')].trigger = NoTrigger
    OBVIOUS
  <2>1. ASSUME NEW t \in Triggers, Transition(t) PROVE FALSE
    BY <2>1 DEF Transition, Applicable
  <2>2. ASSUME NEW s \in States, ForceState(s)
        PROVE  history'[Len(history')].trigger = NoTrigger
    BY <2>2, RecordTruthful DEF ForceState
  <2> QED
    BY <2>1, <2>2 DEF Next
<1> QED
  BY <1>0, <1>1, PTL DEF Spec, ClosedIsFinal
=============================================================================
