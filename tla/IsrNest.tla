------------------------------ MODULE IsrNest ------------------------------
(***************************************************************************)
(* What an interrupt controller with priority levels promises: the         *)
(* routines in progress form a stack, each of a strictly higher level than *)
(* the one it interrupted; a routine ends only when it is the innermost    *)
(* one.  Nothing is said of sources, flags or registers.  Mcs51Irq is      *)
(* shown to implement this module.                                         *)
(***************************************************************************)
EXTENDS Integers, Sequences

CONSTANT Levels      \* the priority levels, natural numbers

VARIABLE nest        \* levels of the routines in progress, outermost first

Outer(n) == SubSeq(n, 1, Len(n) - 1)

MayEnter(n, l) == n = <<>> \/ n[Len(n)] < l

Init == nest = <<>>

Enter == \E l \in Levels : MayEnter(nest, l) /\ nest' = Append(nest, l)

Leave == nest # <<>> /\ nest' = Outer(nest)

\* A return and the entry of a waiting routine, with nothing in between.
LeaveAndEnter ==
    /\ nest # <<>>
    /\ \E l \in Levels : /\ MayEnter(Outer(nest), l)
                         /\ nest' = Append(Outer(nest), l)

Clear == nest' = <<>>

Next == Enter \/ Leave \/ LeaveAndEnter \/ Clear

Spec == Init /\ [][Next]_nest
=============================================================================
