-------------------------------- MODULE Fifo --------------------------------
(***************************************************************************)
(* What one direction of an emulated UART promises the two sides of it: a  *)
(* queue of bounded capacity.  A byte offered to a full queue is dropped,  *)
(* and only then; a reader of an empty queue is told so, and only then.    *)
(***************************************************************************)
EXTENDS Naturals, Sequences

CONSTANTS Byte, Capacity

VARIABLES
    queue,
    event     \* the outcome of the last completed call

NoEvent == [op |-> "none"]

Init == queue = <<>> /\ event = NoEvent

Put(v) ==
    /\ Len(queue) < Capacity
    /\ queue' = Append(queue, v)
    /\ event' = [op |-> "put", byte |-> v]

Drop(v) ==
    /\ Len(queue) = Capacity
    /\ event' = [op |-> "drop", byte |-> v]
    /\ UNCHANGED queue

Get ==
    /\ queue # <<>>
    /\ queue' = Tail(queue)
    /\ event' = [op |-> "get", byte |-> Head(queue)]

Empty ==
    /\ queue = <<>>
    /\ event' = [op |-> "empty"]
    /\ UNCHANGED queue

Next == (\E v \in Byte : Put(v) \/ Drop(v)) \/ Get \/ Empty

Spec == Init /\ [][Next]_<<queue, event>>
=============================================================================
