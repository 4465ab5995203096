------------------------- MODULE Concurrency_proofs -------------------------
(***************************************************************************)
(* The shared index of positions, the position manager with the machines,  *)
(* the market data queues, and the life of the process: for any positions, *)
(* prices, callers and timers that are lost, and for rings of any size.    *)
(***************************************************************************)
EXTENDS PositionIndex, PositionIntegration, LockFreeQueue, SystemLifecycle, TLAPS

(***************************************************************************)
(* PositionIndex.  What was given out lies below the counter, every slot   *)
(* has one position, and the slots above hold nothing: that is why a jump  *)
(* of the counter wastes slots and never shares one.                       *)
(***************************************************************************)
HasSlot(p) == positionIndex[p] # NoSlot

IndexTypes ==
  /\ positionIndex \in [IndexedPositions -> Slots \cup {NoSlot}]
  /\ prices \in [Slots -> IndexPrices \cup {NoPrice}]
  /\ counter \in Nat
  /\ locked \in Seq(Update)
  /\ written \in [IndexedPositions -> IndexPrices \cup {NoPrice}]

SlotsBelowCounter == \A p \in IndexedPositions : HasSlot(p) => positionIndex[p] < counter
SlotsAreOwn == \A p, q \in IndexedPositions :
                 HasSlot(p) /\ HasSlot(q) /\ positionIndex[p] = positionIndex[q] => p = q
FreeSlotsAreEmpty == \A s \in Slots : s >= counter => prices[s] = NoPrice

IndexInv == IndexTypes /\ SlotsBelowCounter /\ SlotsAreOwn /\ FreeSlotsAreEmpty /\ PriceIsOwn

(* What getOrCreatePositionIndex() returns is nobody else's, and was never written if it is new. *)
LEMMA SlotForFacts ==
  ASSUME IndexInv, NEW p \in IndexedPositions
  PROVE  /\ SlotFor(p) \in Slots \cup {NoSlot}
         /\ HasSlot(p) => SlotFor(p) = positionIndex[p]
         /\ ~HasSlot(p) /\ SlotFor(p) # NoSlot =>
              SlotFor(p) = counter /\ counter < MaxPositions /\ prices[SlotFor(p)] = NoPrice
         /\ SlotFor(p) # NoSlot =>
              \A q \in IndexedPositions \ {p} : HasSlot(q) => positionIndex[q] # SlotFor(p)
  BY SlotsAssumption DEF IndexInv, IndexTypes, SlotsBelowCounter, SlotsAreOwn, FreeSlotsAreEmpty,
     SlotFor, HasSlot, Slots, NoSlot

(* A slot is given, or was there, and the counter is moved past it. *)
LEMMA RememberKeeps ==
  ASSUME IndexInv, NEW p \in IndexedPositions, NEW n \in Nat, n >= Asked(p),
         Remember(p), Count(n)
  PROVE  /\ positionIndex' \in [IndexedPositions -> Slots \cup {NoSlot}]
         /\ counter' \in Nat
         /\ SlotsBelowCounter' /\ SlotsAreOwn'
         /\ \A s \in Slots : s >= counter' => s >= counter /\ s # SlotFor(p)
<1>1. /\ positionIndex' = [positionIndex EXCEPT ![p] = SlotFor(p)]
      /\ positionIndex \in [IndexedPositions -> Slots \cup {NoSlot}]
  BY DEF Remember, IndexInv, IndexTypes
<1>2. /\ counter \in Nat /\ counter' \in Nat
      /\ counter < MaxPositions => counter' >= counter + Asked(p)
      /\ counter >= MaxPositions => counter' >= MaxPositions
  BY SlotsAssumption DEF Count, Asked, IndexInv, IndexTypes
<1>3. /\ Asked(p) = IF HasSlot(p) THEN 0 ELSE 1
      /\ \A q \in IndexedPositions : HasSlot(q) => positionIndex[q] < counter /\ positionIndex[q] < MaxPositions
  BY SlotsAssumption DEF Asked, HasSlot, Slots, IndexInv, IndexTypes, SlotsBelowCounter, NoSlot
<1>4. SlotsBelowCounter'
  <2>1. ASSUME NEW q \in IndexedPositions, q # p, HasSlot(q)' PROVE positionIndex'[q] < counter'
    BY <1>1, <1>2, <1>3, <2>1, SlotsAssumption DEF HasSlot, Slots, NoSlot, Asked
  <2>2. ASSUME HasSlot(p)' PROVE positionIndex'[p] < counter'
    BY <1>1, <1>2, <1>3, <2>2, SlotForFacts, SlotsAssumption DEF HasSlot, Slots, NoSlot
  <2> QED BY <2>1, <2>2 DEF SlotsBelowCounter
<1>5. SlotsAreOwn'
  BY <1>1, SlotForFacts DEF SlotsAreOwn, HasSlot, IndexInv
<1>6. \A s \in Slots : s >= counter' => s >= counter /\ s # SlotFor(p)
  BY <1>2, <1>3, SlotForFacts, SlotsAssumption DEF HasSlot, Slots, NoSlot
<1> QED BY <1>1, <1>2, <1>4, <1>5, <1>6, SlotForFacts

(* A price is stored in the slot of its position, which is then read back. *)
LEMMA StoreKeeps ==
  ASSUME IndexInv, NEW p \in IndexedPositions, NEW price \in IndexPrices, NEW n \in Nat,
         n >= Asked(p), SlotFor(p) # NoSlot, Remember(p), Count(n), Store(p, price),
         locked' \in Seq(Update)
  PROVE  IndexInv'
<1>1. /\ prices \in [Slots -> IndexPrices \cup {NoPrice}]
      /\ written \in [IndexedPositions -> IndexPrices \cup {NoPrice}]
      /\ prices' = [prices EXCEPT ![SlotFor(p)] = price]
      /\ written' = [written EXCEPT ![p] = price]
      /\ SlotFor(p) \in Slots
  BY SlotForFacts DEF Store, IndexInv, IndexTypes
<1>2. IndexTypes'
  BY <1>1, RememberKeeps DEF IndexTypes
<1>3. FreeSlotsAreEmpty'
  BY <1>1, RememberKeeps DEF FreeSlotsAreEmpty, IndexInv
<1>4. ASSUME NEW q \in IndexedPositions PROVE AtomicPrice(q)' = written'[q]
  <2>1. CASE q = p
    BY <1>1, <2>1 DEF AtomicPrice, Remember, IndexInv, IndexTypes
  <2>2. CASE q # p
    <3>1. positionIndex'[q] = positionIndex[q] /\ written'[q] = written[q]
      BY <1>1, <2>2 DEF Remember, IndexInv, IndexTypes
    <3>2. HasSlot(q) => positionIndex[q] # SlotFor(p) /\ positionIndex[q] \in Slots
      BY <2>2, SlotForFacts DEF HasSlot, IndexInv, IndexTypes
    <3> QED BY <1>1, <3>1, <3>2 DEF AtomicPrice, HasSlot, IndexInv, PriceIsOwn
  <2> QED BY <2>1, <2>2
<1> QED BY <1>2, <1>3, <1>4, RememberKeeps DEF IndexInv, PriceIsOwn

(* Without a price the new slot reads as nothing, which is what was written. *)
LEMMA RememberOnlyKeeps ==
  ASSUME IndexInv, NEW p \in IndexedPositions, NEW n \in Nat, n >= Asked(p),
         Remember(p), Count(n), UNCHANGED <<prices, written>>, locked' \in Seq(Update)
  PROVE  IndexInv'
<1>1. IndexTypes' /\ FreeSlotsAreEmpty'
  BY RememberKeeps DEF IndexTypes, IndexInv, FreeSlotsAreEmpty
<1>2. ASSUME NEW q \in IndexedPositions PROVE AtomicPrice(q)' = written'[q]
  <2>1. positionIndex'[q] = IF q = p THEN SlotFor(p) ELSE positionIndex[q]
    BY DEF Remember, IndexInv, IndexTypes
  <2>2. AtomicPrice(q) = written[q]
    BY DEF IndexInv, PriceIsOwn
  <2> QED BY <2>1, <2>2, SlotForFacts DEF AtomicPrice, HasSlot
<1> QED BY <1>1, <1>2, RememberKeeps DEF IndexInv, PriceIsOwn

(* Every step of the index keeps its invariant. *)
LEMMA IndexInvStep ==
  ASSUME IndexInv, [IndexNext]_indexVars
  PROVE  IndexInv'
<1> USE DEF Asked
<1>0. locked \in Seq(Update)
  BY DEF IndexInv, IndexTypes
<1>1. ASSUME NEW p \in IndexedPositions, NEW price \in IndexPrices,
             NEW expected \in IndexPrices \cup {NoPrice}, Swapped(p, price, expected)
      PROVE  IndexInv'
  BY <1>0, <1>1, StoreKeeps DEF Swapped, Swappable
<1>2. ASSUME NEW p \in IndexedPositions, NEW price \in IndexPrices, Lock(p, price)
      PROVE  locked' \in Seq(Update) /\ UNCHANGED <<prices, written>>
  BY <1>0, <1>2 DEF Lock, Update
<1>3. ASSUME NEW p \in IndexedPositions, NEW price \in IndexPrices,
             NEW expected \in IndexPrices \cup {NoPrice}, NotSwapped(p, price, expected)
      PROVE  IndexInv'
  BY <1>2, <1>3, RememberOnlyKeeps DEF NotSwapped
<1>4. ASSUME NEW p \in IndexedPositions, NEW price \in IndexPrices, UpdateUnseen(p, price)
      PROVE  IndexInv'
  BY <1>2, <1>4 DEF UpdateUnseen, IndexInv, IndexTypes, SlotsBelowCounter, SlotsAreOwn, HasSlot,
     FreeSlotsAreEmpty, PriceIsOwn, AtomicPrice
<1>5. CASE Granted
  <2>1. Head(locked) \in Update /\ locked' \in Seq(Update)
    BY <1>0, <1>5 DEF Granted
  <2>2. Head(locked).position \in IndexedPositions /\ Head(locked).price \in IndexPrices
    BY <2>1 DEF Update
  <2>3. CASE SlotFor(Head(locked).position) # NoSlot
    BY <1>5, <2>1, <2>2, <2>3, StoreKeeps DEF Granted
  <2>4. CASE SlotFor(Head(locked).position) = NoSlot
    BY <1>5, <2>1, <2>2, <2>4, RememberOnlyKeeps DEF Granted
  <2> QED BY <2>3, <2>4
<1>6. CASE UNCHANGED indexVars
  BY <1>6 DEF indexVars, IndexInv, IndexTypes, SlotsBelowCounter, SlotsAreOwn, HasSlot,
     FreeSlotsAreEmpty, PriceIsOwn, AtomicPrice
<1> QED BY <1>1, <1>3, <1>4, <1>5, <1>6 DEF IndexNext

(***************************************************************************)
(* The price read for a position is the last one written for it, for any   *)
(* number of positions, slots and updates that wait.                       *)
(***************************************************************************)
THEOREM PricesAreOwn == IndexSpec => []PriceIsOwn
<1>1. IndexInit => IndexInv
  BY DEF IndexInit, IndexInv, IndexTypes, SlotsBelowCounter, SlotsAreOwn, HasSlot,
     FreeSlotsAreEmpty, PriceIsOwn, AtomicPrice
<1>2. IndexInv /\ [IndexNext]_indexVars => IndexInv'
  BY IndexInvStep
<1>3. IndexInv => PriceIsOwn
  BY DEF IndexInv
<1> QED BY <1>1, <1>2, <1>3, PTL DEF IndexSpec

(***************************************************************************)
(* PositionIntegration.  The row leaves "none" by the one call that        *)
(* creates the position, and OPEN by the one call that closes it; the      *)
(* machine leaves MONITORING by the one exit that is decided.              *)
(***************************************************************************)
Creates(c) == at[c] \in {"opening", "adding"}
Completes(c) == at[c] = "completing"

IntegrationTypes ==
  /\ tracked \in BOOLEAN
  /\ machineState \in {"CREATED", "MONITORING", "EXIT_PENDING"}
  /\ row \in {"none", "OPEN", "CLOSED"}
  /\ at \in [Requesters -> {"idle", "opening", "adding", "requesting", "closing", "completing"}]

OneCreates == /\ \A c \in Requesters : Creates(c) => tracked /\ row = "none"
              /\ \A c, d \in Requesters : Creates(c) /\ Creates(d) => c = d
OneCompletes == /\ \A c \in Requesters : Completes(c) => row = "CLOSED" /\ closedTold = 0
                /\ \A c, d \in Requesters : Completes(c) /\ Completes(d) => c = d
DecidedAsMoved == decided = IF machineState = "EXIT_PENDING" THEN 1 ELSE 0
ToldOfClosed == closedTold \in {0, 1} /\ (closedTold = 1 => row = "CLOSED")

IntegrationInv == IntegrationTypes /\ OneCreates /\ OneCompletes /\ DecidedAsMoved /\ ToldOfClosed

(* The three triggers the manager uses, in the states they can find. *)
LEMMA MovedFacts ==
  ASSUME machineState \in {"CREATED", "MONITORING", "EXIT_PENDING"}
  PROVE  /\ Moved("POSITION_OPENED") = IF machineState = "CREATED" THEN "MONITORING" ELSE machineState
         /\ CanTransition(AtomicRules, machineState, "EXIT_CONDITION_MET") <=> machineState = "MONITORING"
         /\ Moved("EXIT_CONDITION_MET") = IF machineState = "MONITORING" THEN "EXIT_PENDING" ELSE machineState
         /\ Moved("EXIT_COMPLETED") = machineState
<1>1. Applicable(AtomicRules, machineState, "POSITION_OPENED") =
        IF machineState = "CREATED" THEN {<<"CREATED", "POSITION_OPENED", "MONITORING">>} ELSE {}
  BY DEF Applicable, AtomicRules, BaseRules, States
<1>2. Applicable(AtomicRules, machineState, "EXIT_CONDITION_MET") =
        IF machineState = "MONITORING" THEN {<<"MONITORING", "EXIT_CONDITION_MET", "EXIT_PENDING">>} ELSE {}
  BY DEF Applicable, AtomicRules, BaseRules, States
<1>3. Applicable(AtomicRules, machineState, "EXIT_COMPLETED") = {}
  BY DEF Applicable, AtomicRules, BaseRules, States
<1>4. ASSUME NEW t, NEW r, Applicable(AtomicRules, machineState, t) = {r}
      PROVE  Moved(t) = r[3]
  BY <1>4 DEF Moved, CanTransition
<1>5. ASSUME NEW t, Applicable(AtomicRules, machineState, t) = {}
      PROVE  Moved(t) = machineState
  BY <1>5 DEF Moved, CanTransition
<1>6. /\ Moved("POSITION_OPENED") = IF machineState = "CREATED" THEN "MONITORING" ELSE machineState
      /\ Moved("EXIT_CONDITION_MET") = IF machineState = "MONITORING" THEN "EXIT_PENDING" ELSE machineState
      /\ Moved("EXIT_COMPLETED") = machineState
  <2>1. ASSUME machineState = "CREATED" PROVE Moved("POSITION_OPENED") = "MONITORING"
    <3>1. Applicable(AtomicRules, machineState, "POSITION_OPENED") = {<<"CREATED", "POSITION_OPENED", "MONITORING">>}
      BY <1>1, <2>1
    <3>2. Moved("POSITION_OPENED") = <<"CREATED", "POSITION_OPENED", "MONITORING">>[3]
      BY <1>4, <3>1
    <3> QED BY <3>2
  <2>2. machineState # "CREATED" => Moved("POSITION_OPENED") = machineState
    BY <1>1, <1>5
  <2>3. ASSUME machineState = "MONITORING" PROVE Moved("EXIT_CONDITION_MET") = "EXIT_PENDING"
    <3>1. Applicable(AtomicRules, machineState, "EXIT_CONDITION_MET") = {<<"MONITORING", "EXIT_CONDITION_MET", "EXIT_PENDING">>}
      BY <1>2, <2>3
    <3>2. Moved("EXIT_CONDITION_MET") = <<"MONITORING", "EXIT_CONDITION_MET", "EXIT_PENDING">>[3]
      BY <1>4, <3>1
    <3> QED BY <3>2
  <2>4. machineState # "MONITORING" => Moved("EXIT_CONDITION_MET") = machineState
    BY <1>2, <1>5
  <2>5. Moved("EXIT_COMPLETED") = machineState
    BY <1>3, <1>5
  <2> QED BY <2>1, <2>2, <2>3, <2>4, <2>5
<1>7. CanTransition(AtomicRules, machineState, "EXIT_CONDITION_MET") <=> machineState = "MONITORING"
  BY <1>2 DEF CanTransition
<1> QED BY <1>6, <1>7

(* Every step of the manager keeps its invariant. *)
LEMMA IntegrationInvStep ==
  ASSUME IntegrationInv, [IntegrationNext]_integrationVars
  PROVE  IntegrationInv'
<1> USE DEF IntegrationInv, IntegrationTypes
<1>1. ASSUME NEW c \in Requesters, CreateEntry(c) PROVE IntegrationInv'
  BY <1>1 DEF CreateEntry, Goto, OneCreates, Creates, OneCompletes, Completes, DecidedAsMoved, ToldOfClosed
<1>2. ASSUME NEW c \in Requesters, Opened(c) PROVE IntegrationInv'
  BY <1>2, MovedFacts DEF Opened, Goto, OneCreates, Creates, OneCompletes, Completes, DecidedAsMoved,
     ToldOfClosed
<1>3. ASSUME NEW c \in Requesters, AddRow(c) PROVE IntegrationInv'
  BY <1>3 DEF AddRow, Goto, OneCreates, Creates, OneCompletes, Completes, DecidedAsMoved, ToldOfClosed
<1>4. ASSUME NEW c \in Requesters, ExitRequested(c) \/ CloseCalled(c) PROVE IntegrationInv'
  BY <1>4 DEF ExitRequested, CloseCalled, CalledOnce, Goto, OneCreates, Creates, OneCompletes, Completes,
     DecidedAsMoved, ToldOfClosed
<1>5. ASSUME NEW c \in Requesters, ExitTaken(c) PROVE IntegrationInv'
  BY <1>5, MovedFacts DEF ExitTaken, Goto, OneCreates, Creates, OneCompletes, Completes, DecidedAsMoved,
     ToldOfClosed
<1>6. ASSUME NEW c \in Requesters, CloseRow(c) PROVE IntegrationInv'
  BY <1>6 DEF CloseRow, Goto, OneCreates, Creates, OneCompletes, Completes, DecidedAsMoved, ToldOfClosed
<1>7. ASSUME NEW c \in Requesters, Completed(c) PROVE IntegrationInv'
  <2>1. row = "CLOSED" /\ row' = row /\ closedTold = 0 /\ closedTold' = 1
    BY <1>7 DEF Completed, OneCompletes, Completes
  <2>2. machineState' = machineState /\ decided' = decided /\ tracked' = FALSE
    BY <1>7, MovedFacts DEF Completed
  <2>3. at' = [at EXCEPT ![c] = "idle"] /\ Completes(c)
    BY <1>7 DEF Completed, Goto, Completes
  <2>4. \A d \in Requesters : ~Creates(d)' /\ ~Completes(d)'
    BY <2>1, <2>3 DEF OneCreates, Creates, OneCompletes, Completes
  <2>5. OneCreates' /\ OneCompletes'
    BY <2>4 DEF OneCreates, OneCompletes
  <2> QED BY <2>1, <2>2, <2>3, <2>5 DEF DecidedAsMoved, ToldOfClosed
<1>8. CASE ManagerStops
  BY <1>8 DEF ManagerStops, OneCreates, Creates, OneCompletes, Completes, DecidedAsMoved, ToldOfClosed
<1>9. CASE UNCHANGED integrationVars
  BY <1>9 DEF integrationVars, OneCreates, Creates, OneCompletes, Completes, DecidedAsMoved, ToldOfClosed
<1> QED BY <1>1, <1>2, <1>3, <1>4, <1>5, <1>6, <1>7, <1>8, <1>9 DEF IntegrationNext

(***************************************************************************)
(* An exit is decided once, and the closing told once and of a closed row, *)
(* for any number of calls that overlap.                                   *)
(***************************************************************************)
THEOREM ExitToldOnce == IntegrationSpec => []ToldOnce
<1>1. ASSUME IntegrationInit PROVE IntegrationInv
  <2>1. IntegrationTypes
    BY <1>1 DEF IntegrationInit, IntegrationTypes
  <2>3. DecidedAsMoved /\ ToldOfClosed
    BY <1>1 DEF IntegrationInit, DecidedAsMoved, ToldOfClosed
  <2>2. \A c \in Requesters : ~Creates(c) /\ ~Completes(c)
    BY <1>1 DEF IntegrationInit, Creates, Completes
  <2> QED BY <2>1, <2>2, <2>3 DEF IntegrationInv, OneCreates, OneCompletes
<1>2. IntegrationInv /\ [IntegrationNext]_integrationVars => IntegrationInv'
  BY IntegrationInvStep
<1>3. IntegrationInv => ToldOnce
  BY DEF IntegrationInv, IntegrationTypes, DecidedAsMoved, ToldOfClosed, ToldOnce
<1> QED BY <1>1, <1>2, <1>3, PTL DEF IntegrationSpec

(***************************************************************************)
(* LockFreeQueue.  Head and tail stay in the ring, and so a length and an  *)
(* index into the ring are a subtraction with at most one turn round.      *)
(***************************************************************************)
Turned(n) == IF n < QueueSize THEN n ELSE n - QueueSize
Shown == Point \cup {Unwritten}

RingInv == /\ head \in [Queues -> Slot]
           /\ tail \in [Queues -> Slot]
           /\ slots \in [Queues -> [Slot -> Shown]]

(* The remainder of a number below two turns takes one turn off at most. *)
LEMMA RemainderFacts ==
  ASSUME NEW n \in 0..(2 * QueueSize - 1)
  PROVE  n % QueueSize = Turned(n) /\ n % QueueSize \in Slot
<1>1. CASE n < QueueSize
  <2>1. n % QueueSize = n
    BY <1>1, QueueSizeAssumption, SMTT(60)
  <2> QED BY <1>1, <2>1, QueueSizeAssumption DEF Turned, Slot
<1>2. CASE ~(n < QueueSize)
  <2>1. n - QueueSize \in 0..(QueueSize - 1)
    BY <1>2, QueueSizeAssumption
  <2>2. n % QueueSize = n - QueueSize
    BY <2>1, QueueSizeAssumption, SMTT(60)
  <2> QED BY <1>2, <2>1, <2>2, QueueSizeAssumption DEF Turned, Slot
<1> QED BY <1>1, <1>2

(* An index that is moved on by at most a turn. *)
LEMMA AdvanceFacts ==
  ASSUME NEW n \in Slot, NEW k \in 0..QueueSize
  PROVE  Advance(n, k) = Turned(n + k) /\ Advance(n, k) \in Slot
<1>1. n + k \in 0..(2 * QueueSize - 1)
  BY QueueSizeAssumption DEF Slot
<1> QED BY <1>1, RemainderFacts DEF Advance

LengthIs(q) ==
  /\ QueueLength(q) = IF tail[q] >= head[q] THEN tail[q] - head[q]
                       ELSE tail[q] + QueueSize - head[q]
  /\ QueueLength(q) \in 0..(QueueSize - 1)
  /\ Full(q) <=> QueueLength(q) = QueueSize - 1

(* The length that getStats() computes, and what a full ring is. *)
LEMMA LengthFacts == RingInv => \A q \in Queues : LengthIs(q)
<1> SUFFICES ASSUME RingInv, NEW q \in Queues PROVE LengthIs(q)
  OBVIOUS
<1>1. head[q] \in Slot /\ tail[q] \in Slot
  BY DEF RingInv
<1>2. QueueLength(q) = Turned(tail[q] + QueueSize - head[q])
  <2>1. tail[q] + QueueSize - head[q] \in 0..(2 * QueueSize - 1)
    BY <1>1, QueueSizeAssumption DEF Slot
  <2> QED BY <2>1, RemainderFacts DEF QueueLength
<1>3. Advance(tail[q], 1) = Turned(tail[q] + 1)
  BY <1>1, AdvanceFacts, QueueSizeAssumption
<1> QED BY <1>1, <1>2, <1>3, QueueSizeAssumption DEF Turned, Slot, Full, LengthIs

(* What a ring shows is a sequence of points. *)
HeldIs(q) ==
  /\ Held(q) \in Seq(Shown)
  /\ Len(Held(q)) = QueueLength(q)
  /\ \A i \in 1..QueueLength(q) : Held(q)[i] = slots[q][Turned(head[q] + i - 1)]

(* Its elements are those of the slots from the head on. *)
LEMMA HeldFacts == RingInv => \A q \in Queues : HeldIs(q)
<1> SUFFICES ASSUME RingInv, NEW q \in Queues PROVE HeldIs(q)
  OBVIOUS
<1>1. QueueLength(q) \in 0..(QueueSize - 1) /\ head[q] \in Slot
  BY LengthFacts DEF RingInv, LengthIs
<1>2. \A i \in 1..QueueLength(q) :
        Advance(head[q], i - 1) = Turned(head[q] + i - 1) /\ Advance(head[q], i - 1) \in Slot
  BY <1>1, AdvanceFacts, QueueSizeAssumption
<1>3. \A i \in 1..QueueLength(q) : slots[q][Advance(head[q], i - 1)] \in Shown
  BY <1>2 DEF RingInv
<1>4. Held(q) \in Seq(Shown) /\ Len(Held(q)) = QueueLength(q)
  BY <1>1, <1>3, QueueSizeAssumption DEF Held
<1> QED BY <1>2, <1>4 DEF Held, HeldIs

RingsShow == \A q \in Queues : LengthIs(q) /\ HeldIs(q)

(* Both, of every ring. *)
LEMMA RingFacts == RingInv => RingsShow
  BY LengthFacts, HeldFacts DEF RingsShow

(* No step leaves the ring. *)
LEMMA RingInvStep ==
  ASSUME RingInv, [QueueNext]_queueVars
  PROVE  RingInv'
<1>1. ASSUME NEW p \in Point, ProcessPoint(p) PROVE RingInv'
  <2>1. \A q \in Queues : Advance(tail[q], 1) \in Slot
    BY AdvanceFacts, QueueSizeAssumption DEF RingInv
  <2>2. p \in Shown
    BY DEF Shown
  <2> QED BY <1>1, <2>1, <2>2 DEF ProcessPoint, RingInv
<1>2. ASSUME NEW q \in Queues, NEW n \in Nat, Dequeue(q, n), UNCHANGED <<tail, slots>>
      PROVE  RingInv'
  <2>1. Fewer(n, QueueLength(q)) \in 0..QueueSize
    BY LengthFacts, QueueSizeAssumption DEF Fewer, LengthIs
  <2>2. Advance(head[q], Fewer(n, QueueLength(q))) \in Slot
    BY <2>1, AdvanceFacts DEF RingInv
  <2> QED BY <1>2, <2>2 DEF Dequeue, RingInv
<1>3. ASSUME RunLoop PROVE RingInv'
  BY <1>2, <1>3, BatchAssumption DEF RunLoop, Queues
<1>4. ASSUME NEW t \in MarketTokens, GetLatestPrice(t) PROVE RingInv'
  BY <1>2, <1>4 DEF GetLatestPrice, Queues
<1>5. ASSUME NEW q \in Queues, ClearQueue(q) PROVE RingInv'
  BY <1>5, QueueSizeAssumption DEF ClearQueue, RingInv, Slot
<1>6. CASE UNCHANGED rings
  BY <1>6 DEF rings, RingInv
<1> QED BY <1>1, <1>3, <1>4, <1>5, <1>6 DEF QueueNext, StartProcessing, StopProcessing, LoopFires,
        MonitorLoopFires, queueVars, timersOfQueue

(* Two sequences of the same length with the same elements. *)
LEMMA SameSequence ==
  ASSUME NEW s \in Seq(Shown), NEW t \in Seq(Shown), Len(s) = Len(t),
         \A i \in 1..Len(s) : s[i] = t[i]
  PROVE  s = t
  OBVIOUS

(* A point goes behind the others: no index of theirs is the old tail. *)
LEMMA HeldWithPoint ==
  ASSUME RingInv, RingInv', NEW q \in Queues, NEW p \in Point, ~Full(q),
         head'[q] = head[q], tail'[q] = Advance(tail[q], 1),
         slots'[q] = [slots[q] EXCEPT ![tail[q]] = p]
  PROVE  Held(q)' = Append(Held(q), p)
<1>a. LengthIs(q) /\ HeldIs(q) /\ head[q] \in Slot /\ tail[q] \in Slot
  BY LengthFacts, HeldFacts DEF RingInv
<1>b. LengthIs(q)' /\ HeldIs(q)'
  <2>1. (RingInv => RingsShow)'
    BY RingFacts, PTL
  <2> QED BY <2>1 DEF RingsShow
<1>1. /\ tail'[q] = Turned(tail[q] + 1) /\ tail'[q] \in Slot
      /\ QueueLength(q) \in 0..(QueueSize - 2)
  BY <1>a, AdvanceFacts, QueueSizeAssumption DEF LengthIs
<1>2. QueueLength(q)' = IF tail'[q] >= head[q] THEN tail'[q] - head[q]
                        ELSE tail'[q] + QueueSize - head[q]
  BY <1>b DEF LengthIs
<1>3. QueueLength(q)' = QueueLength(q) + 1
  BY <1>a, <1>1, <1>2, QueueSizeAssumption DEF Turned, Slot, LengthIs
<1>4. /\ Held(q)' \in Seq(Shown)
      /\ Len(Held(q)') = QueueLength(q) + 1
      /\ \A i \in 1..(QueueLength(q) + 1) : Held(q)'[i] = slots'[q][Turned(head[q] + i - 1)]
  BY <1>b, <1>3 DEF HeldIs
<1>5. /\ Append(Held(q), p) \in Seq(Shown)
      /\ Len(Append(Held(q), p)) = QueueLength(q) + 1
      /\ \A i \in 1..(QueueLength(q) + 1) :
           Append(Held(q), p)[i] = IF i = QueueLength(q) + 1 THEN p ELSE Held(q)[i]
  BY <1>a, <1>1 DEF Shown, HeldIs
<1>6. ASSUME NEW i \in 1..(QueueLength(q) + 1)
      PROVE  slots'[q][Turned(head[q] + i - 1)] =
               IF i = QueueLength(q) + 1 THEN p ELSE slots[q][Turned(head[q] + i - 1)]
  <2>1. /\ Turned(head[q] + i - 1) \in Slot
        /\ Turned(head[q] + i - 1) = tail[q] <=> i = QueueLength(q) + 1
    BY <1>a, <1>1, QueueSizeAssumption DEF Turned, Slot, LengthIs
  <2>2. slots[q] \in [Slot -> Shown]
    BY DEF RingInv
  <2> QED BY <1>1, <2>1, <2>2
<1>7. \A i \in 1..(QueueLength(q) + 1) : Held(q)'[i] = Append(Held(q), p)[i]
  BY <1>a, <1>1, <1>4, <1>5, <1>6 DEF HeldIs
<1> QED BY <1>4, <1>5, <1>7, SameSequence

(* The first n points leave. *)
LEMMA HeldWithout ==
  ASSUME RingInv, RingInv', NEW q \in Queues, NEW n \in 0..QueueLength(q),
         head'[q] = Advance(head[q], n), tail'[q] = tail[q], slots'[q] = slots[q]
  PROVE  Held(q)' = SubSeq(Held(q), n + 1, Len(Held(q)))
<1>a. LengthIs(q) /\ HeldIs(q) /\ head[q] \in Slot /\ tail[q] \in Slot
  BY LengthFacts, HeldFacts DEF RingInv
<1>b. LengthIs(q)' /\ HeldIs(q)'
  <2>1. (RingInv => RingsShow)'
    BY RingFacts, PTL
  <2> QED BY <2>1 DEF RingsShow
<1>1. /\ QueueLength(q) \in 0..(QueueSize - 1) /\ n \in 0..QueueSize
      /\ head'[q] = Turned(head[q] + n) /\ head'[q] \in Slot
  BY <1>a, AdvanceFacts, QueueSizeAssumption DEF LengthIs
<1>2. QueueLength(q)' = IF tail[q] >= head'[q] THEN tail[q] - head'[q]
                        ELSE tail[q] + QueueSize - head'[q]
  BY <1>b DEF LengthIs
<1>3. QueueLength(q)' = QueueLength(q) - n
  BY <1>a, <1>1, <1>2, QueueSizeAssumption DEF Turned, Slot, LengthIs
<1>4. /\ Held(q)' \in Seq(Shown)
      /\ Len(Held(q)') = QueueLength(q) - n
      /\ \A i \in 1..(QueueLength(q) - n) : Held(q)'[i] = slots[q][Turned(head'[q] + i - 1)]
  BY <1>b, <1>3 DEF HeldIs
<1> DEFINE rest == SubSeq(Held(q), n + 1, Len(Held(q)))
<1>5. /\ rest \in Seq(Shown)
      /\ Len(rest) = QueueLength(q) - n
      /\ \A i \in 1..(QueueLength(q) - n) : rest[i] = Held(q)[i + n]
  BY <1>a, <1>1 DEF HeldIs
<1>6. \A i \in 1..(QueueLength(q) - n) : Turned(head'[q] + i - 1) = Turned(head[q] + (i + n) - 1)
  BY <1>a, <1>1, QueueSizeAssumption DEF Turned, Slot
<1>7. \A i \in 1..(QueueLength(q) - n) : i + n \in 1..QueueLength(q)
  BY <1>1
<1> HIDE DEF rest
<1>8. \A i \in 1..(QueueLength(q) - n) : Held(q)'[i] = rest[i]
  BY <1>a, <1>1, <1>4, <1>5, <1>6, <1>7 DEF HeldIs
<1>9. Held(q)' = rest
  BY <1>4, <1>5, <1>8, SameSequence
<1> QED BY <1>9 DEF rest

(* A ring whose head is its tail shows nothing. *)
EmptyRingsShowNothing == \A q \in Queues : head[q] = tail[q] => Held(q) = << >>

(* One that is set back is such a ring. *)
LEMMA HeldCleared == RingInv => EmptyRingsShowNothing
<1> SUFFICES ASSUME RingInv, NEW q \in Queues, head[q] = tail[q] PROVE Held(q) = << >>
  BY DEF EmptyRingsShowNothing
<1>1. QueueLength(q) = 0
  BY LengthFacts DEF RingInv, Slot, LengthIs
<1>2. Held(q) \in Seq(Shown) /\ Len(Held(q)) = 0
  BY <1>1, HeldFacts DEF HeldIs
<1> QED BY <1>2

(* A ring that is left alone shows what it did. *)
LEMMA HeldSame ==
  ASSUME NEW q \in Queues, head'[q] = head[q], tail'[q] = tail[q], slots'[q] = slots[q]
  PROVE  Held(q)' = Held(q)
  BY DEF Held, QueueLength

(* Each call is the promised one: it is made on its queues, and leaves the others alone. *)
LEMMA PutIsPromised ==
  ASSUME RingInv, RingInv', NEW p \in Point, ProcessPoint(p)
  PROVE  Promise!Next
<1>1. /\ operation' = [kind |-> "put", queues |-> {Global, p.token}]
      /\ operation' \in Promise!Call
  BY DEF ProcessPoint, Did, Promise!Call, Point, Queues
<1>2. ASSUME NEW q \in Queues
      PROVE  Held(q)' = IF q \in operation'.queues
                        THEN IF Len(Held(q)) < QueueSize - 1 THEN Append(Held(q), p) ELSE Held(q)
                        ELSE Held(q)
  <2>1. LengthIs(q) /\ HeldIs(q)
    BY RingFacts DEF RingsShow
  <2>2. CASE q \in {Global, p.token} /\ ~Full(q)
    <3>1. /\ head'[q] = head[q] /\ tail'[q] = Advance(tail[q], 1)
          /\ slots'[q] = [slots[q] EXCEPT ![tail[q]] = p]
      BY <2>2 DEF ProcessPoint, RingInv
    <3> QED BY <1>1, <2>1, <2>2, <3>1, HeldWithPoint, QueueSizeAssumption DEF LengthIs, HeldIs
  <2>3. CASE ~(q \in {Global, p.token} /\ ~Full(q))
    <3>1. head'[q] = head[q] /\ tail'[q] = tail[q] /\ slots'[q] = slots[q]
      BY <2>3 DEF ProcessPoint, RingInv
    <3> QED BY <1>1, <2>1, <2>3, <3>1, HeldSame, QueueSizeAssumption DEF LengthIs, HeldIs
  <2> QED BY <2>2, <2>3
<1>3. Promise!Put
  BY <1>2 DEF Promise!Put, Promise!Accept
<1> QED BY <1>1, <1>3 DEF Promise!Next

(* A batch that is taken. *)
LEMMA TakeIsPromised ==
  ASSUME RingInv, RingInv', NEW q \in Queues, NEW n \in Nat, Dequeue(q, n), UNCHANGED <<tail, slots>>
  PROVE  Promise!Next
<1> DEFINE k == Fewer(n, QueueLength(q))
<1>1. /\ operation' = [kind |-> "take", queues |-> {q}]
      /\ operation' \in Promise!Call
  BY DEF Dequeue, Did, Promise!Call
<1>2. k \in 0..(QueueSize - 1) /\ k \in 0..QueueLength(q)
  BY RingFacts, QueueSizeAssumption DEF RingsShow, LengthIs, Fewer
<1>3. head' = [head EXCEPT ![q] = Advance(head[q], k)] /\ head \in [Queues -> Slot]
  BY DEF Dequeue, RingInv
<1> HIDE DEF k
<1>4. ASSUME NEW r \in Queues
      PROVE  Held(r)' = IF r \in operation'.queues
                        THEN SubSeq(Held(r), k + 1, Len(Held(r))) ELSE Held(r)
  <2>1. CASE r = q
    <3>1. head'[q] = Advance(head[q], k)
      BY <1>3
    <3>2. Held(q)' = SubSeq(Held(q), k + 1, Len(Held(q)))
      BY <1>2, <3>1, HeldWithout
    <3> QED BY <1>1, <2>1, <3>2
  <2>2. CASE r # q
    <3>1. head'[r] = head[r] /\ r \notin operation'.queues
      BY <1>1, <1>3, <2>2
    <3> QED BY <3>1, HeldSame
  <2> QED BY <2>1, <2>2
<1>5. Promise!Take
  BY <1>2, <1>4 DEF Promise!Take, Promise!Rest
<1> QED BY <1>1, <1>5 DEF Promise!Next

(* A ring that is set back. *)
LEMMA ClearIsPromised ==
  ASSUME RingInv, RingInv', NEW q \in Queues, ClearQueue(q)
  PROVE  Promise!Next
<1>1. /\ operation' = [kind |-> "clear", queues |-> {q}]
      /\ operation' \in Promise!Call
  BY DEF ClearQueue, Did, Promise!Call
<1>2. ASSUME NEW r \in Queues
      PROVE  Held(r)' = IF r \in operation'.queues THEN << >> ELSE Held(r)
  <2>1. CASE r = q
    <3>1. head'[r] = tail'[r]
      BY <2>1 DEF ClearQueue, RingInv
    <3>2. EmptyRingsShowNothing'
      BY HeldCleared, PTL
    <3> QED BY <1>1, <2>1, <3>1, <3>2 DEF EmptyRingsShowNothing
  <2>2. CASE r # q
    BY <1>1, <2>2, HeldSame DEF ClearQueue, RingInv
  <2> QED BY <2>1, <2>2
<1>3. Promise!Clear
  BY <1>2 DEF Promise!Clear
<1> QED BY <1>1, <1>3 DEF Promise!Next

(***************************************************************************)
(* Each ring of each token is a bounded queue, for rings of any size above *)
(* one and batches of any length: no point is lost, doubled or overtaken.  *)
(***************************************************************************)
THEOREM RingsImplementQueues == QueueSpec => RingsAreQueues
<1>1. QueueInit => RingInv /\ Promise!Init
  <2> SUFFICES ASSUME QueueInit PROVE RingInv /\ Promise!Init
    OBVIOUS
  <2>1. RingInv
    BY QueueSizeAssumption DEF QueueInit, RingInv, Slot, Shown
  <2>2. \A q \in Queues : Held(q) = << >>
    BY <2>1, HeldCleared DEF QueueInit, EmptyRingsShowNothing
  <2> QED BY <2>1, <2>2 DEF Promise!Init, QueueInit
<1>2. RingInv /\ [QueueNext]_queueVars => RingInv'
  BY RingInvStep
<1>3. RingInv /\ RingInv' /\ [QueueNext]_queueVars =>
        [Promise!Next]_<<[q \in Queues |-> Held(q)], operation>>
  <2> SUFFICES ASSUME RingInv, RingInv', [QueueNext]_queueVars
               PROVE  [Promise!Next]_<<[q \in Queues |-> Held(q)], operation>>
    OBVIOUS
  <2>1. ASSUME NEW p \in Point, ProcessPoint(p) PROVE Promise!Next
    BY <2>1, PutIsPromised
  <2>2. ASSUME NEW t \in MarketTokens, GetLatestPrice(t) PROVE Promise!Next
    BY <2>2, TakeIsPromised DEF GetLatestPrice, Queues
  <2>3. ASSUME RunLoop PROVE Promise!Next
    BY <2>3, TakeIsPromised, BatchAssumption DEF RunLoop, Queues
  <2>4. ASSUME NEW q \in Queues, ClearQueue(q) PROVE Promise!Next
    BY <2>4, ClearIsPromised
  <2>5. CASE UNCHANGED rings
    BY <2>5, HeldSame DEF rings
  <2> QED BY <2>1, <2>2, <2>3, <2>4, <2>5 DEF QueueNext, StartProcessing, StopProcessing, LoopFires,
          MonitorLoopFires, queueVars, timersOfQueue
<1> QED BY <1>1, <1>2, <1>3, PTL DEF QueueSpec, RingsAreQueues, Promise!Spec

(***************************************************************************)
(* SystemLifecycle.  The state of the machine follows from how far         *)
(* initialize(), start() and shutdown() are, whatever else comes in.       *)
(***************************************************************************)
(* The transition there is one rule for, and which its guard lets pass. *)
LEMMA AfterRule ==
  ASSUME NEW s, NEW trigger, NEW components, NEW t,
         <<s, trigger, t>> \in Rules,
         \A r \in Rules : r[1] = s /\ r[2] = trigger => r[3] = t,
         Guarded(trigger, components)
  PROVE  After(s, trigger, components) = t
<1> DEFINE to == {r[3] : r \in {q \in Rules : q[1] = s /\ q[2] = trigger}}
<1>1. to = {t}
  <2>1. <<s, trigger, t>>[1] = s /\ <<s, trigger, t>>[2] = trigger /\ <<s, trigger, t>>[3] = t
    OBVIOUS
  <2>2. t \in to
    BY <2>1
  <2>3. \A u \in to : u = t
    OBVIOUS
  <2> QED BY <2>2, <2>3
<1>2. After(s, trigger, components) = CHOOSE u \in to : TRUE
  BY <1>1 DEF After
<1> HIDE DEF to
<1> QED BY <1>1, <1>2

(* The transitions that initialize(), start() and shutdown() ask for. *)
LEMMA AfterFacts ==
  ASSUME NEW components
  PROVE  /\ components.database = "CONNECTED" /\ components.rpc = "CONNECTED" =>
              After(After("INITIALIZING", "INITIALIZATION_COMPLETED", components),
                    "START_REQUESTED", components) = "RUNNING"
         /\ After("INITIALIZING", "ERROR_OCCURRED", components) = "ERROR"
         /\ After("RUNNING", "SHUTDOWN_REQUESTED", components) = "SHUTTING_DOWN"
         /\ After("SHUTTING_DOWN", "SHUTDOWN_REQUESTED", components) = "SHUTTING_DOWN"
         /\ After("SHUTTING_DOWN", "SHUTDOWN_COMPLETED", components) = "STOPPED"
<1> USE DEF Rules, SystemStates, Active
<1>1. /\ <<"INITIALIZING", "INITIALIZATION_COMPLETED", "READY">> \in Rules
      /\ <<"READY", "START_REQUESTED", "RUNNING">> \in Rules
      /\ <<"INITIALIZING", "ERROR_OCCURRED", "ERROR">> \in Rules
      /\ <<"RUNNING", "SHUTDOWN_REQUESTED", "SHUTTING_DOWN">> \in Rules
      /\ <<"SHUTTING_DOWN", "SHUTDOWN_COMPLETED", "STOPPED">> \in Rules
  OBVIOUS
<1>2. \A r \in Rules :
        /\ r[2] = "INITIALIZATION_COMPLETED" => r[3] = "READY"
        /\ r[2] = "START_REQUESTED" => r[3] = "RUNNING"
        /\ r[2] = "ERROR_OCCURRED" => r[3] = "ERROR"
        /\ r[2] = "SHUTDOWN_REQUESTED" => r[3] = "SHUTTING_DOWN" /\ r[1] # "SHUTTING_DOWN"
        /\ r[2] = "SHUTDOWN_COMPLETED" => r[3] = "STOPPED"
  OBVIOUS
<1> HIDE DEF Rules, SystemStates, Active
<1>3. After("SHUTTING_DOWN", "SHUTDOWN_REQUESTED", components) = "SHUTTING_DOWN"
  <2>1. {q \in Rules : q[1] = "SHUTTING_DOWN" /\ q[2] = "SHUTDOWN_REQUESTED"} = {}
    BY <1>2
  <2> QED BY <2>1 DEF After
<1>4. After("INITIALIZING", "ERROR_OCCURRED", components) = "ERROR"
  BY <1>1, <1>2, AfterRule DEF Guarded
<1>5. After("RUNNING", "SHUTDOWN_REQUESTED", components) = "SHUTTING_DOWN"
  BY <1>1, <1>2, AfterRule DEF Guarded
<1>6. After("SHUTTING_DOWN", "SHUTDOWN_COMPLETED", components) = "STOPPED"
  BY <1>1, <1>2, AfterRule DEF Guarded
<1>7. After("READY", "START_REQUESTED", components) = "RUNNING"
  BY <1>1, <1>2, AfterRule DEF Guarded
<1>8. ASSUME components.database = "CONNECTED", components.rpc = "CONNECTED"
      PROVE  After("INITIALIZING", "INITIALIZATION_COMPLETED", components) = "READY"
  BY <1>1, <1>2, <1>8, AfterRule DEF Guarded
<1> QED BY <1>3, <1>4, <1>5, <1>6, <1>7, <1>8

(* The types that the proofs below need. *)
TimersType == [field : [Kinds -> BOOLEAN], lost : [Kinds -> Nat]]

LifecycleTypes ==
  /\ timers \in TimersType
  /\ enabled \in [Kinds -> BOOLEAN]
  /\ status \in [database : {"CONNECTED", "DISCONNECTED"}, rpc : {"CONNECTED", "DISCONNECTED"},
                 blockchain : {"MONITORING", "STOPPED"}]
  /\ phase \in {"created", "connecting", "starting", "started"}
  /\ stop \in {"no", "watcher", "done"}
  /\ monitors \subseteq {"workflow", "controller"}

(* initialize() and start(), one after the other: before them nothing runs. *)
Begun == phase \in {"starting", "started"}
InitializesInOrder ==
  /\ ~Begun => stop = "no" /\ waiting = "nobody" /\ ~wallet /\ ~timers.field["backup"]
  /\ ~Begun /\ ~exited => system = "INITIALIZING"
  /\ phase = "connecting" => open /\ status.database = "CONNECTED"
  /\ waiting = "start" => phase = "starting"

(* From start() to the end of shutdown(). *)
RunsInOrder ==
  /\ Begun /\ stop = "no" => system = "RUNNING" /\ open /\ "workflow" \in monitors
  /\ stop = "watcher" => system = "SHUTTING_DOWN" /\ open
  /\ stop = "done" => ~node /\ IF open THEN system = "SHUTTING_DOWN" ELSE system = "STOPPED"
  /\ ~Begun => system # "STOPPED"

LifecycleInv == LifecycleTypes /\ InitializesInOrder /\ RunsInOrder

(* A timer is lost only when a field that holds one is set again. *)
LEMMA StartedFacts ==
  ASSUME NEW d \in TimersType, NEW k \in Kinds
  PROVE  /\ Started(d, k) \in TimersType
         /\ k # "backup" => Started(d, k).lost["backup"] = d.lost["backup"]
         /\ ~d.field[k] => Started(d, k).lost["backup"] = d.lost["backup"]
  BY DEF Started, TimersType

(* clearInterval() of a field loses none ... *)
LEMMA ClearedFacts ==
  ASSUME NEW d \in TimersType, NEW k \in Kinds
  PROVE  /\ Cleared(d, k) \in TimersType
         /\ Cleared(d, k).lost = d.lost
         /\ ~Cleared(d, k).field[k]
  BY DEF Cleared, TimersType

(* ... and so no restart does, which clears the field first. *)
LEMMA RestartedFacts ==
  ASSUME NEW d \in TimersType, NEW k \in Kinds, NEW on \in BOOLEAN
  PROVE  /\ Restarted(d, k, on) \in TimersType
         /\ Restarted(d, k, on).lost["backup"] = d.lost["backup"]
  BY StartedFacts, ClearedFacts DEF Restarted

(* What the workflow does, whatever the process is at. *)
LEMMA DataSteps ==
  ASSUME timers \in TimersType, enabled \in [Kinds -> BOOLEAN],
         \/ StartData /\ ~timers.field["backup"]
         \/ StopData \/ BackupAsked \/ BackupDone
         \/ \E sections \in SUBSET Kinds : ConfigUpdate(sections)
  PROVE  /\ timers' \in TimersType
         /\ enabled' \in [Kinds -> BOOLEAN]
         /\ timers'.lost["backup"] = timers.lost["backup"]
<1>1. "backup" \in Kinds /\ "cleanup" \in Kinds /\ enabled["cleanup"] \in BOOLEAN
  BY DEF Kinds
<1>2. CASE StartData /\ ~timers.field["backup"]
  BY <1>1, <1>2, StartedFacts DEF StartData
<1>3. CASE StopData
  BY <1>1, <1>3, ClearedFacts DEF StopData
<1>4. CASE BackupAsked
  BY <1>4 DEF BackupAsked
<1>5. CASE BackupDone
  <2>1. CASE UNCHANGED <<timers, enabled>>
    BY <2>1
  <2>2. CASE UNCHANGED enabled /\ timers' = IF enabled["cleanup"] THEN Started(timers, "cleanup") ELSE timers
    BY <1>1, <2>2, StartedFacts
  <2>3. ASSUME NEW on \in BOOLEAN, enabled' = [enabled EXCEPT !["cleanup"] = on],
               timers' = Restarted(timers, "cleanup", on)
        PROVE  /\ timers' \in TimersType
               /\ enabled' \in [Kinds -> BOOLEAN]
               /\ timers'.lost["backup"] = timers.lost["backup"]
    BY <1>1, <2>3, RestartedFacts
  <2> QED BY <1>5, <2>1, <2>2, <2>3 DEF BackupDone
<1>6. ASSUME NEW sections \in SUBSET Kinds, ConfigUpdate(sections)
      PROVE  /\ timers' \in TimersType
             /\ enabled' \in [Kinds -> BOOLEAN]
             /\ timers'.lost["backup"] = timers.lost["backup"]
  <2>1. PICK e \in [Kinds -> BOOLEAN] : ConfigUpdate(sections)!(e)
    BY <1>6 DEF ConfigUpdate
  <2> DEFINE d == IF "backup" \in sections THEN Restarted(timers, "backup", e["backup"]) ELSE timers
             whole == IF "cleanup" \in sections THEN Restarted(d, "cleanup", e["cleanup"]) ELSE d
  <2>2. d \in TimersType /\ d.lost["backup"] = timers.lost["backup"]
    BY <1>1, RestartedFacts
  <2>3. timers' \in {d, whole} /\ enabled' \in {e, [enabled EXCEPT !["backup"] = TRUE]}
    BY <2>1
  <2> HIDE DEF d
  <2>4. whole \in TimersType /\ whole.lost["backup"] = timers.lost["backup"]
    BY <1>1, <2>2, RestartedFacts
  <2> HIDE DEF d, whole
  <2> QED BY <2>2, <2>3, <2>4
<1> QED BY <1>2, <1>3, <1>4, <1>5, <1>6

(* Who waits for a backup: start() from the moment it begins the first. *)
LEMMA WaitingFacts ==
  ASSUME waiting = "start" => phase = "starting"
  PROVE  /\ StopData \/ BackupAsked => waiting' = waiting
         /\ BackupDone => waiting' = "nobody"
         /\ (\E sections \in SUBSET Kinds : ConfigUpdate(sections)) => waiting' \in {waiting, "update", "nobody"}
<1>1. ASSUME NEW sections \in SUBSET Kinds, ConfigUpdate(sections)
      PROVE  waiting' \in {waiting, "update", "nobody"}
  BY <1>1 DEF ConfigUpdate
<1> QED BY <1>1 DEF StopData, BackupAsked, BackupDone

(* Where the end of shutdown() leaves the process. *)
LEMMA CloseFacts ==
  ASSUME LifecycleTypes, NEW by, Close(by), open, system \in {"RUNNING", "SHUTTING_DOWN"}
  PROVE  /\ stop' = "done" /\ ~node'
         /\ status' \in [database : {"CONNECTED", "DISCONNECTED"}, rpc : {"CONNECTED", "DISCONNECTED"},
                         blockchain : {"MONITORING", "STOPPED"}]
         /\ IF open' THEN system' = "SHUTTING_DOWN" ELSE system' = "STOPPED"
  BY AfterFacts DEF Close, Disconnected, StateAfterClose, LifecycleTypes

(* One step: the invariant stays, and no timer for backups is lost. *)
LEMMA LifecycleInvStep ==
  ASSUME LifecycleInv, [Next]_vars
  PROVE  LifecycleInv' /\ timers'.lost["backup"] = timers.lost["backup"]
<1> USE DEF LifecycleInv, InitializesInOrder, RunsInOrder, Begun
<1> DEFINE Goal == LifecycleInv' /\ timers'.lost["backup"] = timers.lost["backup"]
<1>1. CASE DatabaseOpens
  BY <1>1 DEF DatabaseOpens, dataVars, LifecycleTypes
<1>2. CASE InitializeFails \/ StartFails
  BY <1>2, AfterFacts DEF InitializeFails, StartFails, Exit, dataVars, LifecycleTypes
<1>3. ASSUME NEW w \in BOOLEAN, Starts(w) PROVE Goal
  <2>1. /\ timers' \in TimersType /\ enabled' \in [Kinds -> BOOLEAN]
        /\ timers'.lost["backup"] = timers.lost["backup"]
    BY <1>3, DataSteps DEF Starts, Connected, LifecycleTypes
  <2>2. /\ status' \in [database : {"CONNECTED", "DISCONNECTED"}, rpc : {"CONNECTED", "DISCONNECTED"},
                        blockchain : {"MONITORING", "STOPPED"}]
        /\ status'.database = "CONNECTED" /\ status'.rpc = "CONNECTED"
    BY <1>3 DEF Starts, Connected, LifecycleTypes
  <2>3. system' = "RUNNING"
    BY <1>3, <2>2, AfterFacts DEF Starts, Connected
  <2>4. /\ phase' \in {"starting", "started"} /\ monitors' \subseteq {"workflow", "controller"}
        /\ "workflow" \in monitors' /\ UNCHANGED <<stop, open>> /\ stop = "no" /\ open
        /\ waiting' = "start" => phase' = "starting"
    BY <1>3 DEF Starts, Connected, FinishStart, StartData
  <2> QED BY <2>1, <2>2, <2>3, <2>4 DEF LifecycleTypes
<1>4. CASE BackupCompletes
  <2>1. /\ timers' \in TimersType /\ enabled' \in [Kinds -> BOOLEAN]
        /\ timers'.lost["backup"] = timers.lost["backup"] /\ waiting' = "nobody"
    BY <1>4, DataSteps, WaitingFacts DEF BackupCompletes, LifecycleTypes
  <2>2. /\ UNCHANGED <<system, status, stop, node, open, wallet, exited>>
        /\ Begun' <=> Begun
        /\ phase' \in {"created", "connecting", "starting", "started"}
        /\ monitors \subseteq monitors' /\ monitors' \subseteq {"workflow", "controller"}
        /\ phase = "connecting" <=> phase' = "connecting"
    BY <1>4 DEF BackupCompletes, FinishStart, LifecycleTypes
  <2>3. ~Begun => timers'.field["backup"] = timers.field["backup"]
    BY <1>4 DEF BackupCompletes, BackupDone, LifecycleTypes, Started, Kinds
  <2> QED BY <2>1, <2>2, <2>3 DEF LifecycleTypes
<1>5. CASE DataEvent
  <2>1. /\ timers' \in TimersType /\ enabled' \in [Kinds -> BOOLEAN]
        /\ timers'.lost["backup"] = timers.lost["backup"]
        /\ waiting' \in {waiting, "update", "nobody"}
    BY <1>5, DataSteps, WaitingFacts DEF DataEvent, LifecycleTypes
  <2> QED BY <1>5, <2>1 DEF DataEvent, LifecycleTypes
<1>6. ASSUME NEW by \in {"signal", "caller"}, ShutdownBegins(by) PROVE Goal
  <2>1. /\ timers' \in TimersType /\ enabled' \in [Kinds -> BOOLEAN]
        /\ timers'.lost["backup"] = timers.lost["backup"] /\ waiting' = waiting
    BY <1>6, DataSteps, WaitingFacts DEF ShutdownBegins, LifecycleTypes
  <2>2. Begun /\ stop = "no" /\ open /\ system = "RUNNING" /\ phase' = phase /\ monitors' = {}
    BY <1>6 DEF ShutdownBegins
  <2>3. CASE watching /\ node
    BY <1>6, <2>1, <2>2, <2>3, AfterFacts DEF ShutdownBegins, LifecycleTypes
  <2>4. CASE Close(by)
    BY <2>1, <2>2, <2>4, CloseFacts DEF LifecycleTypes
  <2> QED BY <1>6, <2>3, <2>4 DEF ShutdownBegins
<1>7. CASE WatcherStops
  <2>1. Begun /\ open /\ system = "SHUTTING_DOWN" /\ UNCHANGED <<dataVars, phase, monitors, wallet>>
    BY <1>7 DEF WatcherStops
  <2> QED BY <1>7, <2>1, CloseFacts DEF WatcherStops, dataVars, LifecycleTypes
<1>8. CASE SignalAgain \/ TuiQuits
  <2>1. /\ UNCHANGED <<dataVars, system, status, phase, stop, node, open, monitors, wallet>>
        /\ exited' = TRUE
    BY <1>8 DEF SignalAgain, TuiQuits, Exit
  <2> QED BY <2>1 DEF dataVars, LifecycleTypes
<1>9. CASE ConnectionChanges \/ PauseOrResume \/ WalletLoads \/ TradeSent \/ TradeAnswered
  <2>1. /\ UNCHANGED <<dataVars, system, status, phase, stop, open, monitors, exited>>
        /\ wallet' = wallet \/ Begun
        /\ node' = node \/ stop # "done"
    BY <1>9 DEF ConnectionChanges, PauseOrResume, WalletLoads, TradeSent, TradeAnswered
  <2> QED BY <2>1 DEF dataVars, LifecycleTypes
<1>10. CASE UNCHANGED vars
  BY <1>10 DEF vars, dataVars, LifecycleTypes
<1> QED BY <1>1, <1>2, <1>3, <1>4, <1>5, <1>6, <1>7, <1>8, <1>9, <1>10 DEF Next

(* The process as it is created. *)
LEMMA LifecycleInvInit == Init => LifecycleInv /\ BackupTimerIsKept
<1> SUFFICES ASSUME Init PROVE LifecycleInv /\ BackupTimerIsKept
  OBVIOUS
<1>1. LifecycleTypes /\ BackupTimerIsKept /\ ~timers.field["backup"]
  BY DEF Init, DataInit, LifecycleTypes, TimersType, BackupTimerIsKept, Kinds
<1> QED BY <1>1 DEF Init, DataInit, LifecycleInv, InitializesInOrder, RunsInOrder, Begun

(* The invariant holds in every behaviour of the process, however many timers are lost. *)
LEMMA LifecycleInvariance == Spec => []LifecycleInv
<1>1. LifecycleInv /\ [Next]_vars => LifecycleInv'
  BY LifecycleInvStep
<1> QED BY <1>1, LifecycleInvInit, PTL DEF Spec

(***************************************************************************)
(* The state machine tells the truth about the process, whatever is        *)
(* signalled, lost or refused while it starts and stops.                   *)
(***************************************************************************)
THEOREM TruthfulState == Spec => []StateIsTrue
<1>1. LifecycleInv => StateIsTrue
  BY DEF LifecycleInv, LifecycleTypes, InitializesInOrder, RunsInOrder, Begun, Up, StateIsTrue
<1> QED BY <1>1, LifecycleInvariance, PTL

(* The timer for backups that runs is the one its field can clear. *)
THEOREM BackupTimerKept == Spec => []BackupTimerIsKept
<1>1. LifecycleInv /\ BackupTimerIsKept /\ [Next]_vars => BackupTimerIsKept'
  BY LifecycleInvStep DEF BackupTimerIsKept
<1> QED BY <1>1, LifecycleInvInit, LifecycleInvariance, PTL DEF Spec

(* A trade is sent only while the database is open. *)
THEOREM SentRecordable == Spec => SentWhenRecordable
<1>1. LifecycleInv /\ [Next]_vars => [trade # "sent" /\ trade' = "sent" => open]_vars
  <2> SUFFICES ASSUME LifecycleInv, Next, trade # "sent", trade' = "sent" PROVE open
    OBVIOUS
  <2>1. TradeSent
    BY DEF Next, DatabaseOpens, InitializeFails, StartFails, Starts, Connected, BackupCompletes,
       DataEvent, ShutdownBegins, Close, WatcherStops, SignalAgain, TuiQuits, ConnectionChanges,
       PauseOrResume, WalletLoads, TradeAnswered, Exit
  <2> QED BY <2>1 DEF TradeSent, LifecycleInv, LifecycleTypes, InitializesInOrder, RunsInOrder, Begun
<1> QED BY <1>1, LifecycleInvariance, PTL DEF Spec, SentWhenRecordable
=============================================================================
