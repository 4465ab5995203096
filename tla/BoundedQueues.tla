--------------------------- MODULE BoundedQueues ---------------------------
(***************************************************************************)
(* What LockFreeMarketQueues promise: each holds the points it accepted    *)
(* and has not handed out, in the order they came, never more than         *)
(* Capacity.  A call concerns one queue or several.                        *)
(***************************************************************************)
EXTENDS Naturals, Sequences

CONSTANTS Names, Points, Capacity

VARIABLES queue,
          operation  \* the latest call: its kind and the queues it was made on

Call == [kind : {"put", "take", "clear"}, queues : SUBSET Names]

Init == queue = [q \in Names |-> <<>>] /\ operation = [kind |-> "clear", queues |-> Names]

Accept(q, p) == IF Len(queue[q]) < Capacity THEN Append(queue[q], p) ELSE queue[q]
Rest(q, n) == SubSeq(queue[q], n + 1, Len(queue[q]))

Put == \E p \in Points :
         queue' = [q \in Names |-> IF q \in operation'.queues THEN Accept(q, p) ELSE queue[q]]
Take == \E n \in 0..Capacity :
          queue' = [q \in Names |-> IF q \in operation'.queues THEN Rest(q, n) ELSE queue[q]]
Clear == queue' = [q \in Names |-> IF q \in operation'.queues THEN <<>> ELSE queue[q]]

Next == /\ operation' \in Call
        /\ \/ operation'.kind = "put" /\ Put
           \/ operation'.kind = "take" /\ Take
           \/ operation'.kind = "clear" /\ Clear

Spec == Init /\ [][Next]_<<queue, operation>>
=============================================================================
