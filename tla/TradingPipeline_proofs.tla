----------------------- MODULE TradingPipeline_proofs -----------------------
(***************************************************************************)
(* Proofs about TradingPipeline, for any numbers of pools, evaluations and *)
(* trades.  The lemmas say what each operation on the workflows keeps: the *)
(* order of the Map, the first of it, and who waits for a trade.           *)
(***************************************************************************)
EXTENDS TradingPipeline, TLAPS

Books == [Pools -> Flow]

(* An order has one first element. *)
LEMMA FirstIsUnique ==
  ASSUME NEW b \in Books, Ordered(b), NEW p \in First(b), NEW q \in First(b)
  PROVE  p = q
BY DEF Ordered, First, Active

(* cleanupWorkflow() takes workflows out and leaves the others in their order. *)
LEMMA CleanupKeepsOrder ==
  ASSUME NEW b \in Books, Ordered(b), NEW S \in SUBSET Pools
  PROVE  /\ Cleanup(b, S) \in Books /\ Ordered(Cleanup(b, S))
         /\ Active(Cleanup(b, S)) = Active(b) \ S
         /\ Executing(Cleanup(b, S)) = Executing(b) \ S
         /\ First(b) \ S \subseteq First(Cleanup(b, S))
<1> DEFINE d == Cleanup(b, S)
<1>1. d \in Books
  BY DEF Cleanup, Books, Flow, NoFlow
<1>2. \A q \in Pools : q \in S => d[q] = NoFlow
  BY DEF Cleanup
<1>3. \A q \in Pools : q \notin S =>
        /\ d[q].active = b[q].active /\ d[q].execution = b[q].execution
        /\ d[q].before = b[q].before \ S
        /\ b[q] = NoFlow => d[q] = NoFlow
  <2> SUFFICES ASSUME NEW q \in Pools, q \notin S
               PROVE  /\ d[q].active = b[q].active /\ d[q].execution = b[q].execution
                      /\ d[q].before = b[q].before \ S
                      /\ b[q] = NoFlow => d[q] = NoFlow
    OBVIOUS
  <2>1. d[q] = [b[q] EXCEPT !.before = b[q].before \ S]
    BY DEF Cleanup
  <2>2. b[q] \in Flow
    BY DEF Books
  <2>3. /\ d[q].active = b[q].active /\ d[q].execution = b[q].execution
        /\ d[q].before = b[q].before \ S
    BY <2>1, <2>2 DEF Flow
  <2>4. ASSUME b[q] = NoFlow PROVE d[q] = NoFlow
    <3>1. [NoFlow EXCEPT !.before = NoFlow.before \ S] = NoFlow
      BY DEF NoFlow
    <3> QED
      BY <2>1, <2>4, <3>1
  <2> QED
    BY <2>3, <2>4
<1>4. Active(d) = Active(b) \ S
  BY <1>2, <1>3 DEF Active, NoFlow
<1> HIDE DEF d
<1>5. Ordered(d)
  <2>1. \A p \in Pools \ Active(d) : d[p] = NoFlow
    BY <1>2, <1>3, <1>4 DEF Ordered
  <2>2. \A p \in Active(d) : p \in Pools /\ p \in Active(b) /\ d[p].before = b[p].before \ S
    BY <1>3, <1>4 DEF Active
  <2> QED
    BY <1>4, <2>1, <2>2 DEF Ordered
<1>6. Executing(d) = Executing(b) \ S
  BY <1>3, <1>4 DEF Executing, Active
<1>7. First(b) \ S \subseteq First(d)
  BY <1>3, <1>4 DEF First, Active
<1> QED
  BY <1>1, <1>4, <1>5, <1>6, <1>7 DEF d

(* Marking the first workflow, or noting an evaluation, changes no order. *)
SameOrder(b, d) ==
  \A q \in Pools : /\ d[q].active = b[q].active /\ d[q].before = b[q].before
                   /\ b[q] = NoFlow => d[q] = NoFlow

LEMMA SameOrderIsOrdered ==
  ASSUME NEW b \in Books, NEW d \in Books, Ordered(b), SameOrder(b, d)
  PROVE  Ordered(d) /\ Active(d) = Active(b) /\ First(d) = First(b)
<1>1. Active(d) = Active(b)
  BY DEF Active, SameOrder
<1>2. First(d) = First(b)
  BY <1>1 DEF First, Active, SameOrder
<1>3. \A p \in Pools \ Active(d) : d[p] = NoFlow
  BY <1>1 DEF Ordered, SameOrder
<1>4. \A p \in Active(d) : d[p].before = b[p].before
  BY DEF Active, SameOrder
<1> QED
  BY <1>1, <1>2, <1>3, <1>4 DEF Ordered

(* A decision to trade makes the first workflow wait, and no other. *)
LEMMA MarkedKeepsOrder ==
  ASSUME NEW b \in Books, Ordered(b)
  PROVE  /\ Marked(b) \in Books /\ Ordered(Marked(b))
         /\ Active(Marked(b)) = Active(b) /\ First(Marked(b)) = First(b)
         /\ Executing(Marked(b)) = Executing(b) \cup First(b)
<1>1. Marked(b) \in Books
  BY DEF Marked, Books, Flow
<1>2. SameOrder(b, Marked(b))
  <2>1. ASSUME NEW q \in Pools
        PROVE  Marked(b)[q].active = b[q].active /\ Marked(b)[q].before = b[q].before
    BY DEF Marked, Books, Flow
  <2>2. ASSUME NEW q \in Pools, b[q] = NoFlow PROVE Marked(b)[q] = NoFlow
    <3>1. q \notin First(b)
      BY <2>2 DEF First, Active, NoFlow
    <3> QED
      BY <2>2, <3>1 DEF Marked
  <2> QED
    BY <2>1, <2>2 DEF SameOrder
<1>3. /\ Ordered(Marked(b))
      /\ Active(Marked(b)) = Active(b) /\ First(Marked(b)) = First(b)
  BY <1>1, <1>2, SameOrderIsOrdered
<1>4. \A q \in Pools :
        Marked(b)[q].execution = IF q \in First(b) THEN "IN_PROGRESS" ELSE b[q].execution
  BY DEF Marked, Books, Flow
<1>5. Executing(Marked(b)) = Executing(b) \cup First(b)
  BY <1>3, <1>4 DEF Executing, First, Active
<1> QED
  BY <1>1, <1>3, <1>5

(* The end of an evaluation changes no order and nobody's wait for a trade. *)
LEMMA EvaluatedKeepsOrder ==
  ASSUME NEW b \in Books, Ordered(b), NEW e \in Call, e # NoCall, NEW s \in BOOLEAN
  PROVE  LET d == Evaluated(b, e, s) IN
         /\ d \in Books /\ Ordered(d)
         /\ Active(d) = Active(b) /\ First(d) = First(b) /\ Executing(d) = Executing(b)
<1> DEFINE d == Evaluated(b, e, s)
<1>1. e.pool \in Pools
  BY DEF Call
<1>2. CASE e.by = "controller" \/ ~b[e.pool].active
  BY <1>2 DEF Evaluated
<1>3. CASE ~(e.by = "controller" \/ ~b[e.pool].active)
  <2>1. d \in Books
    BY <1>1, <1>3 DEF Evaluated, Books, Flow
  <2>2. SameOrder(b, d) /\ \A q \in Pools : d[q].execution = b[q].execution
    <3>1. \A q \in Pools \ {e.pool} : d[q] = b[q]
      BY <1>1, <1>3 DEF Evaluated, Books
    <3>2. /\ d[e.pool].active = b[e.pool].active /\ d[e.pool].before = b[e.pool].before
          /\ d[e.pool].execution = b[e.pool].execution
      BY <1>1, <1>3 DEF Evaluated, Books, Flow
    <3>3. b[e.pool] # NoFlow
      BY <1>3 DEF NoFlow
    <3> QED
      BY <1>1, <3>1, <3>2, <3>3 DEF SameOrder
  <2> HIDE DEF d
  <2>3. Ordered(d) /\ Active(d) = Active(b) /\ First(d) = First(b)
    BY <2>1, <2>2, SameOrderIsOrdered
  <2>4. Executing(d) = Executing(b)
    BY <2>2, <2>3 DEF Executing, Active
  <2> QED
    BY <2>1, <2>3, <2>4 DEF d
<1> QED
  BY <1>2, <1>3

(* A new workflow is the last, and one that starts again keeps its place. *)
LEMMA InsertedKeepsOrder ==
  ASSUME NEW b \in Books, Ordered(b), NEW p \in Pools
  PROVE  LET d == Inserted(b, p) IN
         /\ d \in Books /\ Ordered(d)
         /\ Executing(d) = Executing(b) \ {p} /\ First(b) \subseteq First(d)
<1> DEFINE d == Inserted(b, p)
<1>1. d \in Books
  BY DEF Inserted, Books, Flow, Active
<1>2. \A q \in Pools \ {p} : d[q] = b[q]
  BY DEF Inserted, Books
<1>3. /\ d[p].active /\ d[p].execution = "PENDING"
      /\ d[p].before = IF b[p].active THEN b[p].before ELSE Active(b)
  BY DEF Inserted, Books
<1> HIDE DEF d
<1>4. Active(d) = Active(b) \cup {p}
  BY <1>2, <1>3 DEF Active
<1>5. Executing(d) = Executing(b) \ {p}
  BY <1>2, <1>3, <1>4 DEF Executing, Active
<1>6. First(b) \subseteq First(d)
  BY <1>2, <1>3, <1>4 DEF First, Active
<1>7. Ordered(d)
  <2>1. \A q \in Pools \ Active(d) : d[q] = NoFlow
    BY <1>2, <1>4 DEF Ordered
  <2>2. \A q \in Active(b) : d[q].before = b[q].before
    BY <1>2, <1>3 DEF Active
  <2>3. p \notin Active(b) => d[p].before = Active(b)
    BY <1>3 DEF Active
  <2>4. CASE p \in Active(b)
    BY <1>4, <2>1, <2>2, <2>4 DEF Ordered
  <2>5. CASE p \notin Active(b)
    BY <1>4, <2>1, <2>2, <2>3, <2>5 DEF Ordered
  <2> QED
    BY <2>4, <2>5
<1> QED
  BY <1>1, <1>5, <1>6, <1>7 DEF d
-----------------------------------------------------------------------------
(* What the handlers do to the workflows when a decision is made or a result comes. *)
LEMMA FinishedLeavesNobodyWaiting ==
  ASSUME NEW b \in Books, Ordered(b), Executing(b) \subseteq First(b)
  PROVE  Finished(b) \in Books /\ Ordered(Finished(b)) /\ Executing(Finished(b)) = {}
<1> DEFINE d == Cleanup(b, First(b))
<1>1. First(b) \in SUBSET Pools
  BY DEF First, Active
<1>2. d \in Books /\ Ordered(d) /\ Executing(d) = Executing(b) \ First(b)
  BY <1>1, CleanupKeepsOrder
<1> QED
  BY <1>2 DEF Finished

(* In a dry run, or when the pool is skipped, a decision leaves nobody waiting. *)
LEMMA DecidedWithoutTrade ==
  ASSUME NEW b \in Books, Ordered(b), Executing(b) \subseteq First(b),
         NEW s \in BOOLEAN, ~s \/ dryRun
  PROVE  Decided(b, s) \in Books /\ Ordered(Decided(b, s)) /\ Executing(Decided(b, s)) = {}
<1>1. CASE ~s
  BY <1>1, FinishedLeavesNobodyWaiting DEF Decided, Finished
<1>2. CASE s
  <2> DEFINE m == Marked(b)
  <2>1. m \in Books /\ Ordered(m) /\ Executing(m) \subseteq First(m)
    BY MarkedKeepsOrder
  <2>2. /\ Finished(m) \in Books /\ Ordered(Finished(m))
        /\ Executing(Finished(m)) = {}
    BY <2>1, FinishedLeavesNobodyWaiting
  <2>3. /\ Finished(Finished(m)) \in Books /\ Ordered(Finished(Finished(m)))
        /\ Executing(Finished(Finished(m))) = {}
    BY <2>2, FinishedLeavesNobodyWaiting
  <2> QED
    BY <1>2, <2>3 DEF Decided
<1> QED
  BY <1>1, <1>2

(* Everybody who waits for a trade is the first, and a trade is under way for it. *)
Waiting(b, trades) ==
  /\ Executing(b) \subseteq First(b)
  /\ \A p \in Executing(b) : \E t \in Trades : trades[t] = p

TradeType == trade \in [Trades -> Pools \cup {"none", "controller"}]

(* A decision leaves the workflows ordered and those who wait with a trade. *)
LEMMA DecidedKeeps ==
  ASSUME NEW b \in Books, Ordered(b), Waiting(b, trade), TradeType,
         NEW s \in BOOLEAN, TradesStart(b, s)
  PROVE  /\ Decided(b, s) \in Books /\ Ordered(Decided(b, s))
         /\ Waiting(Decided(b, s), trade') /\ TradeType'
<1>1. CASE ~s \/ dryRun
  <2>1. /\ Decided(b, s) \in Books /\ Ordered(Decided(b, s))
        /\ Executing(Decided(b, s)) = {}
    BY <1>1, DecidedWithoutTrade DEF Waiting
  <2>2. UNCHANGED trade
    BY <1>1 DEF TradesStart
  <2> QED
    BY <2>1, <2>2 DEF Waiting, TradeType
<1>2. CASE s /\ ~dryRun
  <2> DEFINE d == Marked(b)
  <2>1. Decided(b, s) = d
    BY <1>2 DEF Decided
  <2>2. /\ d \in Books /\ Ordered(d) /\ First(d) = First(b)
        /\ Executing(d) \subseteq First(b)
    BY MarkedKeepsOrder DEF Waiting
  <2> HIDE DEF d
  <2>3. CASE First(b) = {}
    <3>1. Executing(d) = {}
      BY <2>2, <2>3
    <3>2. TradeType'
      BY <1>2, <2>3 DEF TradesStart, TradeType
    <3> QED
      BY <2>1, <2>2, <3>1, <3>2 DEF Waiting
  <2>4. CASE First(b) # {}
    <3>1. PICK p \in First(b), t \in Trades, u \in Trades :
            /\ t # u /\ trade[t] = "none" /\ trade[u] = "none"
            /\ trade' = [trade EXCEPT ![t] = p, ![u] = "controller"]
      BY <1>2, <2>4 DEF TradesStart
    <3>2. p \in Pools
      BY DEF First, Active
    <3>3. TradeType' /\ trade'[t] = p
      BY <3>1, <3>2 DEF TradeType
    <3>4. \A q \in Executing(d) : q = p
      BY <2>2, FirstIsUnique
    <3> QED
      BY <2>1, <2>2, <3>3, <3>4 DEF Waiting
  <2> QED
    BY <2>3, <2>4
<1> QED
  BY <1>1, <1>2

(* Calls are well typed whatever state machines are taken from them. *)
LEMMA DisownedTyped ==
  ASSUME NEW calls \in [Calls -> Call], NEW S
  PROVE  Disowned(calls, S) \in [Calls -> Call]
BY DEF Disowned, Call, NoCall
-----------------------------------------------------------------------------
(* Types, the order of the Map and the wait for a trade, as one invariant. *)
Good(b, trades) ==
  /\ b \in Books /\ Ordered(b) /\ Waiting(b, trades)
PipelineInv ==
  /\ dryRun \in BOOLEAN
  /\ saving \in Pools \cup {"none"} /\ call \in [Calls -> Call] /\ TradeType
  /\ Good(book, trade)

(* The evaluations stay well typed when a handler leaves. *)
LEMMA LeavesTyped ==
  ASSUME NEW b, NEW calls \in [Calls -> Call], Leaves(b, calls)
  PROVE  book' = b /\ call' \in [Calls -> Call]
BY DisownedTyped DEF Leaves

LEMMA PipelineStep ==
  ASSUME PipelineInv, [Next]_vars
  PROVE  PipelineInv'
<1> USE DEF PipelineInv
<1>a. \A c \in Calls : [call EXCEPT ![c] = NoCall] \in [Calls -> Call]
  BY DEF Call
<1>b. First(book) \subseteq Pools
  BY DEF First, Active
<1>1. ASSUME NEW p \in Pools, PoolDetected(p) \/ SaveFails(p) PROVE PipelineInv'
  BY <1>1 DEF PoolDetected, SaveFails, TradeType
<1>2. ASSUME NEW p \in Pools, PoolSaved(p) PROVE PipelineInv'
  <2> DEFINE b == Inserted(book, p)
  <2>1. Good(b, trade)
    <3>1. /\ b \in Books /\ Ordered(b)
          /\ Executing(b) = Executing(book) \ {p} /\ First(book) \subseteq First(b)
      BY InsertedKeepsOrder DEF Good
    <3> QED
      BY <3>1 DEF Good, Waiting
  <2>2. PICK c \in Calls, d \in Calls :
          call' = [Disowned(call, {p}) EXCEPT
                     ![c] = [by |-> "workflow", pool |-> p, own |-> TRUE],
                     ![d] = [by |-> "controller", pool |-> p, own |-> FALSE]]
    BY <1>2 DEF PoolSaved
  <2>3. Disowned(call, {p}) \in [Calls -> Call]
    BY DisownedTyped
  <2>4. /\ [by |-> "workflow", pool |-> p, own |-> TRUE] \in Call
        /\ [by |-> "controller", pool |-> p, own |-> FALSE] \in Call
    BY DEF Call
  <2>5. call' \in [Calls -> Call]
    BY <2>2, <2>3, <2>4
  <2>6. book' = b /\ UNCHANGED <<dryRun, saving, trade>>
    BY <1>2 DEF PoolSaved
  <2> HIDE DEF b
  <2> QED
    BY <2>1, <2>5, <2>6 DEF TradeType
<1>3. ASSUME NEW c \in Calls, NothingRecommended(c) PROVE PipelineInv'
  <2> DEFINE S == {call[c].pool}
             b == Cleanup(book, S)
  <2>1. S \in SUBSET Pools
    BY <1>3 DEF NothingRecommended, Call, NoCall
  <2> HIDE DEF S
  <2>2. /\ b \in Books /\ Ordered(b)
        /\ Executing(b) = Executing(book) \ S /\ First(book) \ S \subseteq First(b)
    BY <2>1, CleanupKeepsOrder DEF Good
  <2>3. Good(b, trade)
    BY <2>2 DEF Good, Waiting
  <2>4. Leaves(b, [call EXCEPT ![c] = NoCall]) /\ UNCHANGED <<dryRun, saving, trade>>
    BY <1>3 DEF NothingRecommended, S
  <2> HIDE DEF b
  <2>5. book' = b /\ call' \in [Calls -> Call]
    BY <1>a, <2>4, LeavesTyped
  <2> QED
    BY <2>3, <2>4, <2>5 DEF TradeType
<1>4. ASSUME NEW c \in Calls, ControllerFindsNothing(c) PROVE PipelineInv'
  <2>1. Leaves(book, [call EXCEPT ![c] = NoCall]) /\ UNCHANGED <<dryRun, saving, trade>>
    BY <1>4 DEF ControllerFindsNothing
  <2>2. book' = book /\ call' \in [Calls -> Call]
    BY <1>a, <2>1, LeavesTyped
  <2> QED
    BY <2>1, <2>2 DEF TradeType
<1>5. ASSUME NEW c \in Calls, NEW s \in BOOLEAN, DecisionMade(c, s) PROVE PipelineInv'
  <2> DEFINE b == Evaluated(book, call[c], s)
             d == Decided(b, s)
  <2>1. call[c] \in Call /\ call[c] # NoCall
    BY <1>5 DEF DecisionMade
  <2>2. /\ b \in Books /\ Ordered(b) /\ First(b) = First(book)
        /\ Executing(b) = Executing(book)
    BY <2>1, EvaluatedKeepsOrder DEF Good
  <2>3. /\ Leaves(d, [call EXCEPT ![c] = NoCall]) /\ TradesStart(b, s)
        /\ UNCHANGED <<dryRun, saving>>
    BY <1>5 DEF DecisionMade
  <2> HIDE DEF b
  <2>4. Waiting(b, trade)
    BY <2>2 DEF Good, Waiting
  <2>5. d \in Books /\ Ordered(d) /\ Waiting(d, trade') /\ TradeType'
    BY <2>2, <2>3, <2>4, DecidedKeeps
  <2> HIDE DEF d
  <2>6. book' = d /\ call' \in [Calls -> Call]
    BY <1>a, <2>3, LeavesTyped
  <2> QED
    BY <2>3, <2>5, <2>6 DEF Good
<1>6. ASSUME OtherDecision PROVE PipelineInv'
  <2> DEFINE d == Decided(book, TRUE)
  <2>1. Leaves(d, call) /\ TradesStart(book, TRUE) /\ UNCHANGED <<dryRun, saving>>
    BY <1>6 DEF OtherDecision
  <2>2. d \in Books /\ Ordered(d) /\ Waiting(d, trade') /\ TradeType'
    BY <2>1, DecidedKeeps DEF Good
  <2> HIDE DEF d
  <2>3. book' = d /\ call' \in [Calls -> Call]
    BY <2>1, LeavesTyped
  <2> QED
    BY <2>1, <2>2, <2>3 DEF Good
<1>7. ASSUME NEW t \in Trades, TradeSettles(t) PROVE PipelineInv'
  <2> DEFINE d == Finished(book)
  <2>1. /\ Leaves(d, call) /\ UNCHANGED <<dryRun, saving>>
        /\ trade' = [trade EXCEPT ![t] = "none"]
    BY <1>7 DEF TradeSettles
  <2>2. d \in Books /\ Ordered(d) /\ Executing(d) = {}
    BY FinishedLeavesNobodyWaiting DEF Good, Waiting
  <2> HIDE DEF d
  <2>3. book' = d /\ call' \in [Calls -> Call]
    BY <2>1, LeavesTyped
  <2>4. TradeType'
    BY <2>1 DEF TradeType
  <2>5. Good(d, trade')
    BY <2>2 DEF Good, Waiting
  <2> QED
    BY <2>1, <2>3, <2>4, <2>5
<1>8. CASE UNCHANGED vars
  BY <1>8 DEF vars, TradeType
<1> QED
  BY <1>1, <1>2, <1>3, <1>4, <1>5, <1>6, <1>7, <1>8 DEF Next, CallSettles

LEMMA PipelineInit ==
  ASSUME Init
  PROVE  PipelineInv
<1>1. \A p \in Pools : book[p] = NoFlow
  BY DEF Init
<1>2. Active(book) = {}
  BY <1>1 DEF Active, NoFlow
<1>3. Good(book, trade)
  <2>1. book \in Books
    BY DEF Init, Books, Flow, NoFlow
  <2>2. Ordered(book)
    BY <1>1, <1>2 DEF Ordered
  <2> QED
    BY <1>2, <2>1, <2>2 DEF Good, Waiting, Executing
<1> QED
  BY <1>3 DEF Init, PipelineInv, TradeType, Call

(***************************************************************************)
(* The pipeline's state is well typed, and the coordinator's Map, whose    *)
(* first key stands for every lookup, orders the active workflows.         *)
(***************************************************************************)
THEOREM PipelineTyping == Spec => []PipelineTypeOK
<1>1. Init => PipelineInv
  BY PipelineInit
<1>2. PipelineInv /\ [Next]_vars => PipelineInv'
  BY PipelineStep
<1>3. PipelineInv => PipelineTypeOK
  BY DEF PipelineInv, Good, TradeType, PipelineTypeOK, Books
<1> QED
  BY <1>1, <1>2, <1>3, PTL DEF Spec

(***************************************************************************)
(* However pools, decisions and results of several trades interleave, a    *)
(* workflow that waits for its trade is the one a result will find, and    *)
(* its trade is under way.  The Map's order is needed: that two workflows  *)
(* are never both the first is what keeps a decision from marking two.     *)
(***************************************************************************)
THEOREM WaitingWorkflowIsFound == Spec => []ExecutingIsFirst
<1>1. Init => PipelineInv
  BY PipelineInit
<1>2. PipelineInv /\ [Next]_vars => PipelineInv'
  BY PipelineStep
<1>3. PipelineInv => ExecutingIsFirst
  BY DEF PipelineInv, Good, Waiting, ExecutingIsFirst
<1> QED
  BY <1>1, <1>2, <1>3, PTL DEF Spec
-----------------------------------------------------------------------------
(***************************************************************************)
(* The state machines.  What the handlers do to the workflows leaves the   *)
(* state machine of each that stays as it was, and only the evaluation     *)
(* that ends moves one, its own.                                           *)
(***************************************************************************)
SameMachines(b, d) ==
  /\ Active(d) \subseteq Active(b)
  /\ \A q \in Active(d) : d[q].machine = b[q].machine

LEMMA CleanupKeepsMachines ==
  ASSUME NEW b \in Books, NEW S
  PROVE  SameMachines(b, Cleanup(b, S))
<1>1. ASSUME NEW q \in Active(Cleanup(b, S))
      PROVE  q \in Active(b) /\ Cleanup(b, S)[q].machine = b[q].machine
  <2>1. q \in Pools /\ Cleanup(b, S)[q].active
    BY <1>1 DEF Active
  <2>2. q \notin S
    BY <2>1 DEF Cleanup, NoFlow
  <2>3. Cleanup(b, S)[q] = [b[q] EXCEPT !.before = b[q].before \ S] /\ b[q] \in Flow
    BY <2>1, <2>2 DEF Cleanup, Books
  <2> QED
    BY <2>1, <2>3 DEF Flow, Active
<1> QED
  BY <1>1 DEF SameMachines

LEMMA MarkedKeepsMachines ==
  ASSUME NEW b \in Books
  PROVE  Marked(b) \in Books /\ SameMachines(b, Marked(b))
<1>1. Marked(b) \in Books
  BY DEF Marked, Books, Flow
<1>2. \A q \in Pools : /\ Marked(b)[q].active = b[q].active
                       /\ Marked(b)[q].machine = b[q].machine
  BY DEF Marked, Books, Flow
<1> QED
  BY <1>1, <1>2 DEF SameMachines, Active

LEMMA CleanupIsBook ==
  ASSUME NEW b \in Books, NEW S
  PROVE  Cleanup(b, S) \in Books
BY DEF Cleanup, Books, Flow, NoFlow

LEMMA DecidedKeepsMachines ==
  ASSUME NEW b \in Books, NEW s \in BOOLEAN
  PROVE  SameMachines(b, Decided(b, s))
<1> DEFINE m == Marked(b)
           f == Finished(m)
           g == Finished(f)
<1>1. m \in Books /\ SameMachines(b, m)
  BY MarkedKeepsMachines
<1> HIDE DEF m
<1>2. f \in Books /\ SameMachines(m, f)
  BY <1>1, CleanupIsBook, CleanupKeepsMachines DEF Finished
<1> HIDE DEF f
<1>3. SameMachines(f, g)
  BY <1>2, CleanupKeepsMachines DEF Finished
<1> HIDE DEF g
<1>4. SameMachines(b, g)
  BY <1>1, <1>2, <1>3 DEF SameMachines
<1>5. SameMachines(b, Cleanup(b, First(b)))
  BY CleanupKeepsMachines
<1> QED
  BY <1>1, <1>4, <1>5 DEF Decided, m, f, g

(* Every evaluation that owns a state machine has the one of an active workflow that waits
   for it, and has it alone. *)
Owns(b, calls) ==
  \A c \in Calls : calls[c].own =>
    /\ calls[c].pool \in Active(b) /\ b[calls[c].pool].machine = "EVALUATING_POOL"
    /\ \A d \in Calls : calls[d].own /\ calls[d].pool = calls[c].pool => d = c

LEMMA DisownedFacts ==
  ASSUME NEW calls \in [Calls -> Call], NEW S, NEW c \in Calls, Disowned(calls, S)[c].own
  PROVE  calls[c].own /\ calls[c].pool \notin S /\ Disowned(calls, S)[c] = calls[c]
<1>1. CASE calls[c] # NoCall /\ calls[c].pool \in S
  <2>1. Disowned(calls, S)[c] = [calls[c] EXCEPT !.own = FALSE]
    BY <1>1 DEF Disowned
  <2>2. calls[c] \in [by : {"workflow", "controller"}, pool : Pools, own : BOOLEAN]
    BY <1>1 DEF Call
  <2> QED
    BY <2>1, <2>2
<1>2. CASE ~(calls[c] # NoCall /\ calls[c].pool \in S)
  <2>1. Disowned(calls, S)[c] = calls[c]
    BY <1>2 DEF Disowned
  <2>2. calls[c] # NoCall
    BY <2>1 DEF NoCall
  <2> QED
    BY <1>2, <2>1, <2>2
<1> QED
  BY <1>1, <1>2

(* A handler that keeps the machines takes ownership from what it cleans up. *)
LEMMA LeavesOwned ==
  ASSUME book \in Books, NEW b \in Books, NEW d, NEW calls \in [Calls -> Call],
         Owns(b, calls), Active(b) = Active(book), SameMachines(b, d), Leaves(d, calls)
  PROVE  Owns(book', call')
<1> DEFINE S == Active(book) \ Active(d)
<1>1. book' = d /\ call' = Disowned(calls, S)
  BY DEF Leaves
<1> HIDE DEF S
<1>2. ASSUME NEW c \in Calls, call'[c].own
      PROVE  calls[c].own /\ calls[c].pool \notin S /\ call'[c] = calls[c]
  BY <1>1, <1>2, DisownedFacts
<1>3. ASSUME NEW c \in Calls, call'[c].own
      PROVE  /\ call'[c].pool \in Active(d) /\ d[call'[c].pool].machine = "EVALUATING_POOL"
             /\ \A e \in Calls : call'[e].own /\ call'[e].pool = call'[c].pool => e = c
  <2>1. calls[c].own /\ calls[c].pool \notin S /\ call'[c] = calls[c]
    BY <1>2, <1>3
  <2>2. calls[c].pool \in Active(b) /\ b[calls[c].pool].machine = "EVALUATING_POOL"
    BY <2>1 DEF Owns
  <2>3. calls[c].pool \in Active(d)
    BY <2>1, <2>2 DEF S
  <2>4. d[calls[c].pool].machine = "EVALUATING_POOL"
    BY <2>2, <2>3 DEF SameMachines
  <2>5. \A e \in Calls : call'[e].own /\ call'[e].pool = call'[c].pool => e = c
    BY <1>2, <2>1 DEF Owns
  <2> QED
    BY <2>1, <2>3, <2>4, <2>5
<1> QED
  BY <1>1, <1>3 DEF Owns

(* A call that is over owns nothing. *)
LEMMA EndedOwnsNothing ==
  ASSUME NEW c \in Calls, call \in [Calls -> Call], Owns(book, call)
  PROVE  /\ [call EXCEPT ![c] = NoCall] \in [Calls -> Call]
         /\ Owns(book, [call EXCEPT ![c] = NoCall])
<1> DEFINE calls == [call EXCEPT ![c] = NoCall]
<1>1. calls \in [Calls -> Call]
  BY DEF Call
<1>2. \A d \in Calls : calls[d].own => d # c /\ calls[d] = call[d]
  BY DEF NoCall
<1> HIDE DEF calls
<1>3. Owns(book, calls)
  BY <1>2 DEF Owns
<1> QED
  BY <1>1, <1>3 DEF calls

(* The evaluation that ends moves its own machine, which no other evaluation has. *)
LEMMA EvaluatedOwned ==
  ASSUME PipelineInv, NEW c \in Calls, call[c] # NoCall, NEW s \in BOOLEAN, Owns(book, call)
  PROVE  LET b == Evaluated(book, call[c], s) IN
         /\ b \in Books /\ Active(b) = Active(book)
         /\ Owns(b, [call EXCEPT ![c] = NoCall])
<1> DEFINE b == Evaluated(book, call[c], s)
           calls == [call EXCEPT ![c] = NoCall]
           p == call[c].pool
<1>1. call[c] \in Call /\ book \in Books /\ Ordered(book)
  BY DEF PipelineInv, Good
<1>2. b \in Books /\ Active(b) = Active(book)
  BY <1>1, EvaluatedKeepsOrder
<1>3. \A d \in Calls : calls[d].own => d # c /\ calls[d] = call[d]
  BY DEF NoCall, PipelineInv
<1>4. Owns(book, calls)
  BY EndedOwnsNothing DEF PipelineInv
<1>5. p \in Pools
  BY <1>1 DEF Call
<1>6. \A q \in Pools \ {p} : b[q] = book[q]
  BY <1>1, <1>5 DEF Evaluated, Books
<1>7. ~call[c].own => b[p].machine = book[p].machine
  <2> SUFFICES ASSUME ~call[c].own PROVE b[p].machine = book[p].machine
    OBVIOUS
  <2>1. CASE b = book
    BY <2>1
  <2>2. CASE b # book
    <3>1. b = [book EXCEPT ![p].evaluation = "COMPLETED",
                           ![p].machine = book[p].machine]
      BY <2>2 DEF Evaluated
    <3> QED
      BY <1>1, <1>5, <3>1 DEF Books, Flow
  <2> QED
    BY <2>1, <2>2
<1>8. ASSUME NEW d \in Calls, calls[d].own
      PROVE  b[calls[d].pool].machine = "EVALUATING_POOL"
  <2>1. d # c /\ call[d] = calls[d] /\ call[d].own
    BY <1>3, <1>8
  <2>2. /\ call[d].pool \in Active(book) /\ book[call[d].pool].machine = "EVALUATING_POOL"
        /\ call[c].own => call[d].pool # p
    BY <2>1 DEF Owns
  <2>3. call[d].pool \in Pools
    BY <2>2 DEF Active
  <2> HIDE DEF b, calls
  <2>4. CASE call[d].pool = p
    BY <1>7, <2>1, <2>2, <2>4
  <2>5. CASE call[d].pool # p
    BY <1>6, <2>1, <2>2, <2>3, <2>5
  <2> QED
    BY <2>4, <2>5
<1> HIDE DEF b, calls
<1>9. Owns(b, calls)
  BY <1>2, <1>4, <1>8 DEF Owns
<1> QED
  BY <1>2, <1>9 DEF b, calls

LEMMA OwnsStep ==
  ASSUME PipelineInv, Owns(book, call), [Next]_vars
  PROVE  Owns(book, call)'
<1>0. book \in Books /\ call \in [Calls -> Call] /\ Ordered(book)
  BY DEF PipelineInv, Good
<1>1. ASSUME NEW p \in Pools, PoolDetected(p) \/ SaveFails(p) PROVE Owns(book, call)'
  BY <1>1 DEF PoolDetected, SaveFails, Owns
<1>2. ASSUME NEW p \in Pools, PoolSaved(p) PROVE Owns(book, call)'
  <2>1. PICK c \in Calls, d \in Calls :
          /\ c # d
          /\ call' = [Disowned(call, {p}) EXCEPT
                     ![c] = [by |-> "workflow", pool |-> p, own |-> TRUE],
                     ![d] = [by |-> "controller", pool |-> p, own |-> FALSE]]
    BY <1>2 DEF PoolSaved
  <2>2. DOMAIN Disowned(call, {p}) = Calls
    BY DEF Disowned
  <2>3. /\ call'[c].own /\ call'[c].pool = p /\ ~call'[d].own
        /\ \A e \in Calls \ {c, d} : call'[e] = Disowned(call, {p})[e]
    BY <2>1, <2>2
  <2>4. ASSUME NEW e \in Calls \ {c}, call'[e].own
        PROVE  call[e].own /\ call[e].pool # p /\ call'[e] = call[e]
    BY <1>0, <2>3, <2>4, DisownedFacts
  <2>5. book' = Inserted(book, p)
    BY <1>2 DEF PoolSaved
  <2>6. /\ p \in Active(book') /\ book'[p].machine = "EVALUATING_POOL"
        /\ \A q \in Active(book) \ {p} : q \in Active(book') /\ book'[q] = book[q]
    BY <1>0, <2>5 DEF Inserted, Books, Active
  <2>7. ASSUME NEW e \in Calls, call'[e].own
        PROVE  /\ call'[e].pool \in Active(book')
               /\ book'[call'[e].pool].machine = "EVALUATING_POOL"
               /\ \A f \in Calls : call'[f].own /\ call'[f].pool = call'[e].pool => f = e
    <3>1. CASE e = c
      BY <2>3, <2>4, <2>6, <3>1
    <3>2. CASE e # c
      <4>1. call[e].own /\ call[e].pool # p /\ call'[e] = call[e]
        BY <2>4, <2>7, <3>2
      <4>2. /\ call[e].pool \in Active(book)
            /\ book[call[e].pool].machine = "EVALUATING_POOL"
        BY <4>1 DEF Owns
      <4>3. \A f \in Calls : call'[f].own /\ call'[f].pool = call'[e].pool => f = e
        BY <2>3, <2>4, <4>1 DEF Owns
      <4> QED
        BY <2>6, <4>1, <4>2, <4>3
    <3> QED
      BY <3>1, <3>2
  <2> QED
    BY <2>7 DEF Owns
<1>3. ASSUME NEW c \in Calls, NothingRecommended(c) PROVE Owns(book, call)'
  <2>1. Leaves(Cleanup(book, {call[c].pool}), [call EXCEPT ![c] = NoCall])
    BY <1>3 DEF NothingRecommended
  <2>2. SameMachines(book, Cleanup(book, {call[c].pool}))
    BY <1>0, CleanupKeepsMachines
  <2> QED
    BY <1>0, <2>1, <2>2, EndedOwnsNothing, LeavesOwned
<1>4. ASSUME NEW c \in Calls, ControllerFindsNothing(c) PROVE Owns(book, call)'
  <2>1. Leaves(book, [call EXCEPT ![c] = NoCall])
    BY <1>4 DEF ControllerFindsNothing
  <2>2. SameMachines(book, book)
    BY DEF SameMachines
  <2> QED
    BY <1>0, <2>1, <2>2, EndedOwnsNothing, LeavesOwned
<1>5. ASSUME NEW c \in Calls, NEW s \in BOOLEAN, DecisionMade(c, s) PROVE Owns(book, call)'
  <2> DEFINE b == Evaluated(book, call[c], s)
             calls == [call EXCEPT ![c] = NoCall]
  <2>1. call[c] # NoCall /\ Leaves(Decided(b, s), calls)
    BY <1>5 DEF DecisionMade
  <2>2. b \in Books /\ Active(b) = Active(book) /\ Owns(b, calls)
    BY <2>1, EvaluatedOwned
  <2>3. calls \in [Calls -> Call]
    BY <1>0 DEF Call
  <2> HIDE DEF b, calls
  <2>4. SameMachines(b, Decided(b, s))
    BY <2>2, DecidedKeepsMachines
  <2> QED
    BY <1>0, <2>1, <2>2, <2>3, <2>4, LeavesOwned
<1>6. ASSUME OtherDecision PROVE Owns(book, call)'
  <2>1. Leaves(Decided(book, TRUE), call)
    BY <1>6 DEF OtherDecision
  <2>2. SameMachines(book, Decided(book, TRUE))
    BY <1>0, DecidedKeepsMachines
  <2> QED
    BY <1>0, <2>1, <2>2, LeavesOwned
<1>7. ASSUME NEW t \in Trades, TradeSettles(t) PROVE Owns(book, call)'
  <2>1. Leaves(Finished(book), call)
    BY <1>7 DEF TradeSettles
  <2>2. SameMachines(book, Finished(book))
    BY <1>0, CleanupKeepsMachines DEF Finished
  <2> QED
    BY <1>0, <2>1, <2>2, LeavesOwned
<1>8. CASE UNCHANGED vars
  BY <1>8 DEF vars, Owns
<1> QED
  BY <1>1, <1>2, <1>3, <1>4, <1>5, <1>6, <1>7, <1>8 DEF Next, CallSettles

(***************************************************************************)
(* An evaluation that has a state machine of the coordinator finds it      *)
(* waiting, and alone, whatever pools are found again and whatever         *)
(* decisions and results have cleaned up since it was started.             *)
(***************************************************************************)
THEOREM OwnMachineWaits == Spec => []MachineWaits
<1>1. Init => PipelineInv /\ Owns(book, call)
  BY PipelineInit DEF Init, Owns, NoCall
<1>2. PipelineInv /\ Owns(book, call) /\ [Next]_vars => PipelineInv' /\ Owns(book, call)'
  BY PipelineStep, OwnsStep
<1>3. Owns(book, call) => MachineWaits
  BY DEF Owns, MachineWaits
<1> QED
  BY <1>1, <1>2, <1>3, PTL DEF Spec
=============================================================================
