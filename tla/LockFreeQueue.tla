--------------------------- MODULE LockFreeQueue ---------------------------
(***************************************************************************)
(* LockFreeMarketQueue and LockFreeMarketDataProcessor: ring buffers, one  *)
(* for all tokens and one for each token seen, and the timers that empty   *)
(* the first.  Nothing hands the buffers to a worker and no call awaits    *)
(* inside, so a call is one step and its compare-and-swap succeeds at      *)
(* once; the timers interleave with start(), stop() and the callers.       *)
(***************************************************************************)
EXTENDS Naturals, Sequences

CONSTANTS MarketTokens,  \* token addresses, each with a hash of its own
          MarketPrices,  \* prices a float keeps when stored as bits
          QueueSize,     \* slots of a ring; 8192 in the code
          Batch,         \* points one run of the loop takes; 100 in the code
          MaxTimers      \* bound: pending timers of one kind

ASSUME QueueSizeAssumption == QueueSize \in Nat \ {0, 1}
ASSUME BatchAssumption == Batch \in Nat \ {0} /\ MaxTimers \in Nat \ {0}

Global == "global"
Queues == {Global} \cup MarketTokens
ASSUME GlobalAssumption == Global \notin MarketTokens

VARIABLES head, tail,  \* of each queue
          slots,       \* its arrays of prices, volumes, timestamps and hashes
          operation,   \* the latest call on queues; only the promise looks at it
          running,     \* isRunning
          loops,       \* pending timers of processLoop
          monitorLoops \* pending timers of monitorLoop

rings == <<head, tail, slots, operation>>
timersOfQueue == <<running, loops, monitorLoops>>
queueVars == <<rings, timersOfQueue>>

Point == [token : MarketTokens, price : MarketPrices]
Unwritten == CHOOSE p \in Point : TRUE  \* a slot that no index reaches before it is written
Slot == 0..(QueueSize - 1)

(* (n + k) % size *)
Advance(n, k) == (n + k) % QueueSize

QueueInit == /\ head = [q \in Queues |-> 0] /\ tail = [q \in Queues |-> 0]
             /\ slots = [q \in Queues |-> [i \in Slot |-> Unwritten]]
             /\ operation = [kind |-> "clear", queues |-> Queues]
             /\ running = FALSE /\ loops = 0 /\ monitorLoops = 0

Did(kind, queues) == operation' = [kind |-> kind, queues |-> queues]

(* getStats(): the length of a queue, and its points in order. *)
QueueLength(q) == (tail[q] + QueueSize - head[q]) % QueueSize
Held(q) == [i \in 1..QueueLength(q) |-> slots[q][Advance(head[q], i - 1)]]

(* A faulty variant: every slot is filled, and a full ring looks empty. *)
FullAtSize(q) == QueueLength(q) = QueueSize
(* The queue is full with one slot free: a full ring would look empty. *)
Full(q) == Advance(tail[q], 1) = head[q]
-----------------------------------------------------------------------------
(* processMarketData(): each of the two queues takes the point or drops it. *)
ProcessPoint(p) ==
  LET takes == { q \in {Global, p.token} : ~Full(q) }
  IN /\ slots' = [q \in Queues |-> IF q \in takes THEN [slots[q] EXCEPT ![tail[q]] = p] ELSE slots[q]]
     /\ tail' = [q \in Queues |-> IF q \in takes THEN Advance(tail[q], 1) ELSE tail[q]]
     /\ Did("put", {Global, p.token})
     /\ UNCHANGED <<head, timersOfQueue>>

Fewer(a, b) == IF a < b THEN a ELSE b

(* dequeueBatch(): up to n points of q, one dequeue after the other. *)
Dequeue(q, n) ==
  head' = [head EXCEPT ![q] = Advance(@, Fewer(n, QueueLength(q)))] /\ Did("take", {q})

(* getLatestPrice() hands out, and removes, the oldest point of the token's queue. *)
GetLatestPrice(t) ==
  /\ QueueLength(t) > 0
  /\ Dequeue(t, 1)
  /\ UNCHANGED <<tail, slots, timersOfQueue>>

(***************************************************************************)
(* A run of processLoop, which start() makes the first of: a batch of the  *)
(* global queue is taken and the next run scheduled.  What is done with    *)
(* the points is left to be written, and awaits nothing but promises.      *)
(***************************************************************************)
RunLoop == Dequeue(Global, Batch) /\ UNCHANGED <<tail, slots>>

StartProcessing ==
  /\ ~running
  /\ loops < MaxTimers /\ monitorLoops < MaxTimers
  /\ running' = TRUE
  /\ RunLoop
  /\ loops' = loops + 1 /\ monitorLoops' = monitorLoops + 1

(* stop() clears the timers in "processors", where nothing puts one. *)
StopProcessing == running /\ running' = FALSE /\ UNCHANGED <<rings, loops, monitorLoops>>

LoopFires ==
  /\ loops > 0
  /\ \/ running /\ RunLoop /\ UNCHANGED loops
     \/ ~running /\ loops' = loops - 1 /\ UNCHANGED rings
  /\ UNCHANGED <<running, monitorLoops>>

MonitorLoopFires ==
  /\ monitorLoops > 0 /\ ~running
  /\ monitorLoops' = monitorLoops - 1
  /\ UNCHANGED <<rings, running, loops>>

(* clear(): head and tail are set back, the slots stay as they are. *)
ClearQueue(q) ==
  /\ head' = [head EXCEPT ![q] = 0] /\ tail' = [tail EXCEPT ![q] = 0]
  /\ Did("clear", {q})
  /\ UNCHANGED <<slots, timersOfQueue>>

QueueNext == \/ \E p \in Point : ProcessPoint(p)
             \/ \E t \in MarketTokens : GetLatestPrice(t)
             \/ StartProcessing \/ StopProcessing \/ LoopFires \/ MonitorLoopFires
             \/ \E q \in Queues : ClearQueue(q)

QueueSpec == QueueInit /\ [][QueueNext]_queueVars
-----------------------------------------------------------------------------
Promise == INSTANCE BoundedQueues
  WITH Names <- Queues, Points <- Point, Capacity <- QueueSize - 1,
       queue <- [q \in Queues |-> Held(q)]

(***************************************************************************)
(* Each ring is a queue: what was accepted comes out once and in order,    *)
(* however often head and tail go round, and what does not fit is refused. *)
(***************************************************************************)
RingsAreQueues == Promise!Spec

(* "Processor already running": one loop at a time. *)
OneLoop == loops <= 1

(* "Get latest price for token": what is handed out is the newest point. *)
LatestIsNewest ==
  [][\A t \in MarketTokens : GetLatestPrice(t) => QueueLength(t) = 1]_queueVars
=============================================================================
