------------------------------ MODULE ByteRing ------------------------------
(***************************************************************************)
(* The ring buffer between the emulated core and the host: the RX and TX   *)
(* rings of the AVR and 8051 UARTs are this one algorithm.  On the ESP32   *)
(* the producer and the consumer are different cores and nothing locks the *)
(* ring: each statement of either side is a step of its own.               *)
(*                                                                         *)
(* Size is UART_BUF_SIZE, a power of two, so that & (Size - 1) wraps.      *)
(***************************************************************************)
EXTENDS Integers, Sequences

CONSTANTS Byte, NoByte, Size

ASSUME SizeAssumption == Size \in Nat /\ Size >= 2
ASSUME NoByteAssumption == NoByte \notin Byte

VARIABLES
    buf,        \* the slots
    head,       \* where the producer stores next
    tail,       \* where the consumer loads next
    producer,   \* the producer's control point and its byte
    consumer,   \* the consumer's control point and the byte it has loaded
    event       \* history: the outcome of the last completed call

ringVars == <<buf, head, tail, producer, consumer, event>>

Index == 0..(Size - 1)

Wrap(i) == IF i + 1 = Size THEN 0 ELSE i + 1

\* ring_count, ring_full, ring_empty.
Count == IF head >= tail THEN head - tail ELSE head - tail + Size

\* Mutants of Full: all slots are used; two slots are kept free.
FullAtSize == Count = Size
FullEarly == Count >= Size - 2

Full == Count = Size - 1
IsEmpty == head = tail

RingInit ==
    /\ buf = [i \in Index |-> NoByte]
    /\ head = 0
    /\ tail = 0
    /\ producer = [at |-> "idle", byte |-> NoByte]
    /\ consumer = [at |-> "idle", byte |-> NoByte]
    /\ event = [op |-> "none"]
-----------------------------------------------------------------------------
(***************************************************************************)
(* rx_push and the data-register write: test, store, advance head.         *)
(***************************************************************************)
Offer(v) ==
    /\ producer.at = "idle"
    /\ IF Full
       THEN event' = [op |-> "drop", byte |-> v] /\ UNCHANGED producer
       ELSE producer' = [at |-> "store", byte |-> v] /\ UNCHANGED event
    /\ UNCHANGED <<buf, head, tail, consumer>>

StoreByte ==
    /\ producer.at = "store"
    /\ buf' = [buf EXCEPT ![head] = producer.byte]
    /\ producer' = [producer EXCEPT !.at = "advance"]
    /\ UNCHANGED <<head, tail, consumer, event>>

AdvanceHead ==
    /\ producer.at = "advance"
    /\ head' = Wrap(head)
    /\ producer' = [at |-> "idle", byte |-> NoByte]
    /\ event' = [op |-> "put", byte |-> producer.byte]
    /\ UNCHANGED <<buf, tail, consumer>>

(***************************************************************************)
(* tx_pop and the data-register read: test, load, advance tail.            *)
(***************************************************************************)
Ask ==
    /\ consumer.at = "idle"
    /\ IF IsEmpty
       THEN event' = [op |-> "empty"] /\ UNCHANGED consumer
       ELSE consumer' = [at |-> "load", byte |-> NoByte] /\ UNCHANGED event
    /\ UNCHANGED <<buf, head, tail, producer>>

Load ==
    /\ consumer.at = "load"
    /\ consumer' = [at |-> "advance", byte |-> buf[tail]]
    /\ UNCHANGED <<buf, head, tail, producer, event>>

AdvanceTail ==
    /\ consumer.at = "advance"
    /\ tail' = Wrap(tail)
    /\ consumer' = [at |-> "idle", byte |-> NoByte]
    /\ event' = [op |-> "get", byte |-> consumer.byte]
    /\ UNCHANGED <<buf, head, producer>>

RingNext ==
    \/ \E v \in Byte : Offer(v)
    \/ StoreByte \/ AdvanceHead
    \/ Ask \/ Load \/ AdvanceTail

RingSpec == RingInit /\ [][RingNext]_ringVars
-----------------------------------------------------------------------------
Control(second) == [at : {"idle", second, "advance"}, byte : Byte \cup {NoByte}]

RingTypeOK ==
    /\ buf \in [Index -> Byte \cup {NoByte}]
    /\ head \in Index
    /\ tail \in Index
    /\ producer \in Control("store")
    /\ producer.at # "idle" => producer.byte \in Byte
    /\ consumer \in Control("load")

Slot(i) == IF tail + i < Size THEN tail + i ELSE tail + i - Size

\* The bytes between tail and head, oldest first.
Contents == [i \in 1..Count |-> buf[Slot(i - 1)]]

(***************************************************************************)
(* Neither side acts on a stale test: between its test and its advance the *)
(* producer keeps a free slot that holds what it stored, and the consumer  *)
(* keeps a byte that is still the oldest one.                              *)
(***************************************************************************)
ProducerKeepsSlot ==
    /\ producer.at # "idle" => Count < Size - 1
    /\ producer.at = "advance" => buf[head] = producer.byte

ConsumerKeepsByte ==
    /\ consumer.at # "idle" => Count > 0
    /\ consumer.at = "advance" => consumer.byte = buf[tail]

TestsStayTrue == ProducerKeepsSlot /\ ConsumerKeepsByte

(***************************************************************************)
(* The two unlocked sides together are a first-in first-out queue of       *)
(* Size - 1 bytes that loses a byte only when it is full.                  *)
(***************************************************************************)
Queue == INSTANCE Fifo WITH Capacity <- Size - 1, queue <- Contents

ImplementsFifo == Queue!Spec
=============================================================================
