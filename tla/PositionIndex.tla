--------------------------- MODULE PositionIndex ---------------------------
(***************************************************************************)
(* AtomicPositionManager of concurrency/: prices in shared memory, a slot  *)
(* for each position, given out by a counter that nothing sets back.  An   *)
(* update compares and swaps in one step, or waits for positionMutex and   *)
(* stores.  counters[0] is both the next free slot and the number of       *)
(* successful updates: getOrCreatePositionIndex() and recordMetrics()      *)
(* share it.                                                               *)
(***************************************************************************)
EXTENDS Integers, Sequences, FiniteSets

CONSTANTS IndexedPositions,
          IndexPrices,
          NoPrice,         \* the bits of a slot that was never written
          MaxPositions,    \* MAX_POSITIONS; 1000 in the code
          MaxLocked,       \* bound: updates that wait for positionMutex
          MaxCounter       \* bound: where the counter stops, with no slot left

ASSUME NoPriceAssumption == NoPrice \notin IndexPrices
ASSUME SlotsAssumption == /\ MaxPositions \in Nat \ {0} /\ MaxLocked \in Nat
                          /\ MaxCounter \in Nat /\ MaxCounter >= MaxPositions

VARIABLES positionIndex, \* slot of each position that has one, else NoSlot
          prices,        \* of each slot
          counter,       \* counters[0]
          locked,        \* positionMutex: updates waiting for it
          written        \* the price last written for each position; a property looks at it

indexVars == <<positionIndex, prices, counter, locked, written>>

NoSlot == -1
Slots == 0..(MaxPositions - 1)
Update == [position : IndexedPositions, price : IndexPrices]

IndexInit == /\ positionIndex = [p \in IndexedPositions |-> NoSlot]
             /\ prices = [s \in Slots |-> NoPrice]
             /\ counter = 0
             /\ locked = <<>>
             /\ written = [p \in IndexedPositions |-> NoPrice]

(* A faulty variant: two counts that follow each other give one slot. *)
SlotByCount(p) ==
  IF positionIndex[p] # NoSlot THEN positionIndex[p]
  ELSE IF counter < MaxPositions THEN counter \div 2 ELSE NoSlot

(* getOrCreatePositionIndex(): the slot it returns. *)
SlotFor(p) ==
  IF positionIndex[p] # NoSlot THEN positionIndex[p]
  ELSE IF counter < MaxPositions THEN counter ELSE NoSlot

(* Asking for a slot moves the counter on, whether one is left or not. *)
Asked(p) == IF positionIndex[p] # NoSlot THEN 0 ELSE 1

Remember(p) == positionIndex' = [positionIndex EXCEPT ![p] = SlotFor(p)]
(* Atomics.add(), up to the bound: the wrap of the Int32 after 2^31 counts is left out. *)
Count(n) == counter' = IF counter + n > MaxCounter THEN MaxCounter ELSE counter + n

Store(p, price) == /\ prices' = [prices EXCEPT ![SlotFor(p)] = price]
                   /\ written' = [written EXCEPT ![p] = price]

(***************************************************************************)
(* updatePosition() with the price the caller has seen: if the slot still  *)
(* holds it the new one is there at once, and the success is counted.      *)
(***************************************************************************)
Swappable(p, expected) == IF SlotFor(p) = NoSlot THEN FALSE ELSE prices[SlotFor(p)] = expected
Swapped(p, price, expected) ==
  /\ Swappable(p, expected)
  /\ Store(p, price) /\ Remember(p)
  /\ Count(Asked(p) + 1)
  /\ UNCHANGED locked

(* Otherwise, or without an expected price, it waits for positionMutex. *)
Lock(p, price) ==
  /\ Len(locked) < MaxLocked
  /\ locked' = Append(locked, [position |-> p, price |-> price])
  /\ UNCHANGED <<prices, written>>
NotSwapped(p, price, expected) ==
  ~Swappable(p, expected) /\ Lock(p, price) /\ Remember(p) /\ Count(Asked(p))
UpdateUnseen(p, price) == Lock(p, price) /\ UNCHANGED <<positionIndex, counter>>

(* updatePositionWithLock(): stores whatever is there, or fails for want of a slot. *)
Granted ==
  /\ locked # <<>> /\ locked' = Tail(locked)
  /\ LET u == Head(locked)
     IN /\ Remember(u.position)
        /\ \/ /\ SlotFor(u.position) # NoSlot
              /\ Store(u.position, u.price) /\ Count(Asked(u.position) + 1)
           \/ /\ SlotFor(u.position) = NoSlot
              /\ Count(1) /\ UNCHANGED <<prices, written>>

IndexNext ==
  \/ \E p \in IndexedPositions, price \in IndexPrices :
       \/ \E expected \in IndexPrices \cup {NoPrice} : Swapped(p, price, expected) \/ NotSwapped(p, price, expected)
       \/ UpdateUnseen(p, price)
  \/ Granted

IndexSpec == IndexInit /\ [][IndexNext]_indexVars
-----------------------------------------------------------------------------
(* getAtomicPrice() *)
AtomicPrice(p) == IF positionIndex[p] = NoSlot THEN NoPrice ELSE prices[positionIndex[p]]

(***************************************************************************)
(* The price that is read for a position is the last one written for it:   *)
(* no two positions share a slot, whichever path gave it and though the    *)
(* counter jumps.                                                          *)
(***************************************************************************)
PriceIsOwn == \A p \in IndexedPositions : AtomicPrice(p) = written[p]

(* "Maximum positions reached": a slot is refused only when all are given out. *)
RefusedWhenFull ==
  \A p \in IndexedPositions :
    SlotFor(p) = NoSlot =>
      Cardinality({ q \in IndexedPositions : positionIndex[q] # NoSlot }) = MaxPositions
=============================================================================
