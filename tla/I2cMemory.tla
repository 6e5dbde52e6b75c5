----------------------------- MODULE I2cMemory -----------------------------
(***************************************************************************)
(* What the virtual I2C slave promises a master on the bus: a memory with  *)
(* a register pointer.  A transfer is START, an address byte and data; the *)
(* first byte written after the address is the pointer, the others go to   *)
(* the registers it passes over; bytes are read from where it stands.      *)
(***************************************************************************)
EXTENDS Integers

CONSTANTS Cells,      \* the number of registers and of byte values, not zero
          Self        \* the slave's address

VARIABLES phase,      \* where in a transfer the bus is
          pointer,
          memory
vars == <<phase, pointer, memory>>

Cell == 0..Cells - 1
Phase == {"free", "started", "pointing", "writing", "reading", "deaf"}

\* The memory starts as the slave is filled: each register holds its number.
Init == /\ phase = "free"
        /\ pointer = 0
        /\ memory = [c \in Cell |-> c]

\* START, repeated or not, ends the transfer before it.
Start == phase' = "started" /\ UNCHANGED <<pointer, memory>>

Address(b) == /\ phase = "started"
              /\ phase' = CASE b = 2 * Self -> "pointing"
                            [] b = 2 * Self + 1 -> "reading"
                            [] OTHER -> "deaf"
              /\ UNCHANGED <<pointer, memory>>

Point(b) == /\ phase = "pointing"
            /\ phase' = "writing"
            /\ pointer' = b
            /\ UNCHANGED memory

Write(b) == /\ phase = "writing"
            /\ memory' = [memory EXCEPT ![pointer] = b]
            /\ pointer' = (pointer + 1) % Cells
            /\ UNCHANGED phase

Read == /\ phase = "reading"
        /\ pointer' = (pointer + 1) % Cells
        /\ UNCHANGED <<phase, memory>>

\* STOP, or the master leaves the bus.
Free == phase' = "free" /\ UNCHANGED <<pointer, memory>>

Next == Start \/ Read \/ Free \/ \E b \in Cell : Address(b) \/ Point(b) \/ Write(b)

Spec == Init /\ [][Next]_vars
=============================================================================
