------------------------------ MODULE AvrCore ------------------------------
(***************************************************************************)
(* Interrupts and sleep of the emulated AVR: avr_cpu_run with its register *)
(* copies of the program counter and of the cycles since the last tick,    *)
(* the peripheral tick that is the only place in it where an interrupt is  *)
(* taken, and the PC build's main loop, which restarts it and lets a       *)
(* sleeping core wait.                                                     *)
(*                                                                         *)
(* The program counter is abstracted to the routine it is in: the main     *)
(* program, 0, or the routine of an interrupt vector.  BREAK and           *)
(* undecodable words, which end the main loop, are left out, and so is     *)
(* the total of cycles, which nothing here reads (AvrExec counts them).    *)
(***************************************************************************)
EXTENDS Naturals, Sequences, SequencesExt, FiniteSets, FiniteSetsExt

CONSTANTS
    Timers,         \* vectors raised by avr_timer0_tick
    Buses,          \* vectors raised by avr_twi_tick
    Hosts,          \* vectors of the UART: raised by the main loop between two
                    \* batches and by an access to its registers
    Nesting,        \* vectors whose routines execute SEI
    TickInterval,   \* PERIPH_TICK_INTERVAL
    MaxDepth        \* bound: routines that deep do not execute SEI

Vectors == Timers \cup Buses \cup Hosts

ASSUME VectorAssumption == Vectors \subseteq Nat \ {0} /\ IsFiniteSet(Vectors)
ASSUME NestingAssumption == Nesting \subseteq Vectors
ASSUME SizeAssumption == TickInterval \in Nat \ {0} /\ MaxDepth \in Nat

Main == 0
Routine == Vectors \cup {Main}

VARIABLES
    core,       \* avr_cpu_t; the stack holds return addresses
    run,        \* the main loop, and avr_cpu_run's register copies
    hist        \* history: for how many cycles an interrupt has been waiting
                \* with interrupts enabled, and how many cycles executed and
                \* slept Timer0 has not been told of

vars == <<core, run, hist>>

Init ==
    /\ core = [state |-> "RUNNING", i |-> FALSE, pending |-> {}, accum |-> 0,
               pc |-> Main, stack |-> <<>>]
    /\ run = [at |-> "main", pc |-> Main, accum |-> 0]
    /\ hist = [wait |-> 0, untold |-> 0]

Open(k) == k.i /\ k.pending # {}
-----------------------------------------------------------------------------
(***************************************************************************)
(* avr_cpu_check_irq.                                                      *)
(***************************************************************************)
Taken(k, v, left) ==
    [k EXCEPT !.pending = left, !.i = FALSE,
              !.stack = Append(@, k.pc), !.pc = v, !.state = "RUNNING"]

CheckIrq(k) ==
    IF ~Open(k) THEN k
    ELSE LET v == Min(k.pending) IN Taken(k, v, k.pending \ {v})

-----------------------------------------------------------------------------
(***************************************************************************)
(* NEXT(c), at the end of every instruction: k is the core after the       *)
(* instruction's own work, r the local program counter after it.  When the *)
(* tick is due the local copies are stored, the peripherals count the      *)
(* cycles since the last tick and raise interrupts, one is taken, and the  *)
(* copies are loaded again.                                                *)
(***************************************************************************)
\* Mutant of TickDue: a tick only when the interval is exceeded.
TickDueLate(accum) == accum > TickInterval

TickDue(accum) == accum >= TickInterval

\* avr_tick_peripherals, on the structure with the copies stored.
Ticked(k, raised) == CheckIrq([k EXCEPT !.accum = 0, !.pending = @ \cup raised])

\* Mutant of Reloaded: an interrupt does not redirect the local copy.
ReloadedNot(r, k) == r

Reloaded(r, k) == k.pc

\* Cycles waited by an interrupt that could have been taken.
Waited(k, c) == IF ~Open(k) THEN 0 ELSE IF Open(core) THEN hist.wait + c ELSE 0

\* Mutant of Stored: the accumulator stays in its register.
StoredPc(k, r, accum) == [k EXCEPT !.pc = r]

\* The local copies are stored, before a tick and at done.
Stored(k, r, accum) == [k EXCEPT !.pc = r, !.accum = accum]

Continue(k, r, accum) ==
    /\ core' = k
    /\ run' = [at |-> "run", pc |-> r, accum |-> accum]

Leave(k, r, accum) ==
    /\ core' = Stored(k, r, accum)
    /\ run' = [at |-> "poll", pc |-> r, accum |-> accum]

Retire(k, r, c, last) ==
    LET accum == run.accum + c
        due == TickDue(accum)
        stored == Stored(k, r, accum)
    IN  \E raised \in SUBSET (IF due THEN Timers \cup Buses ELSE {}) :
          LET k1 == IF due THEN Ticked(stored, raised) ELSE k
              r1 == IF due THEN Reloaded(r, k1) ELSE r
              accum1 == IF due THEN k1.accum ELSE accum
              told == IF due THEN stored.accum ELSE 0
          IN  /\ \/ ~last /\ k1.state = "RUNNING" /\ Continue(k1, r1, accum1)
                 \/ Leave(k1, r1, accum1)
              /\ hist' = [wait |-> Waited(k1, c),
                          untold |-> hist.untold + c - told]
-----------------------------------------------------------------------------
(***************************************************************************)
(* The firmware: one action per kind of instruction.                       *)
(***************************************************************************)
Executing == run.at = "run"

\* Anything that leaves interrupts and the core's state alone; the fused
\* delay loop takes five cycles.
Ordinary(c) == Executing /\ Retire(core, run.pc, c, FALSE)

\* An access to a UART register requests an interrupt at once: IN and OUT take
\* one cycle, the loads and stores, CBI and SBI two.
Access(v, c) ==
    Executing /\ Retire([core EXCEPT !.pending = @ \cup {v}], run.pc, c, FALSE)

\* BSET 7, in the main program or in the routines that allow nesting.
Sei ==
    /\ Executing
    /\ run.pc \in Nesting \cup {Main}
    /\ Len(core.stack) < MaxDepth
    /\ Retire([core EXCEPT !.i = TRUE], run.pc, 1, FALSE)

\* BCLR 7.
Cli == Executing /\ Retire([core EXCEPT !.i = FALSE], run.pc, 1, FALSE)

\* RETI pops the return address and sets I.
Reti ==
    /\ Executing
    /\ run.pc # Main
    /\ Retire([core EXCEPT !.i = TRUE, !.stack = Front(@)], Last(core.stack), 4, FALSE)

\* SLEEP sets the state and makes this the last step of the batch.
Sleep ==
    /\ Executing
    /\ Retire([core EXCEPT !.state = "SLEEPING"], run.pc, 1, TRUE)
-----------------------------------------------------------------------------
(***************************************************************************)
(* The main loop of pc/main.c, without a debugger.                         *)
(***************************************************************************)
EnterRun ==
    /\ run.at = "main"
    /\ core.state = "RUNNING"
    /\ run' = [at |-> "run", pc |-> core.pc, accum |-> core.accum]
    /\ UNCHANGED <<core, hist>>

\* A sleeping core is offered a pending interrupt, else it sleeps one cycle,
\* which Timer0 counts at once, and is offered another.
Asleep ==
    /\ run.at = "main"
    /\ core.state = "SLEEPING"
    /\ LET woken == CheckIrq(core)
       IN  IF woken.state = "RUNNING"
           THEN core' = woken
           ELSE \E raised \in SUBSET Timers : core' = CheckIrq([core EXCEPT !.pending = @ \cup raised])
    /\ hist' = [hist EXCEPT !.wait = 0]
    /\ run' = [run EXCEPT !.at = "poll"]

\* The UART is polled; a received byte may raise an interrupt.
Poll ==
    /\ run.at = "poll"
    /\ \E raised \in SUBSET Hosts : core' = [core EXCEPT !.pending = @ \cup raised]
    /\ run' = [run EXCEPT !.at = "main"]
    /\ UNCHANGED hist
-----------------------------------------------------------------------------
Firmware ==
    \/ \E c \in 1..5 : Ordinary(c)
    \/ \E v \in Hosts, c \in 1..2 : Access(v, c)
    \/ Sei \/ Cli \/ Reti \/ Sleep

Next == Firmware \/ EnterRun \/ Asleep \/ Poll

Spec == Init /\ [][Next]_vars
-----------------------------------------------------------------------------
TypeOK ==
    /\ core \in [state : {"RUNNING", "SLEEPING"}, i : BOOLEAN,
                 pending : SUBSET Vectors, accum : 0..TickInterval - 1,
                 pc : Routine, stack : Seq(Routine)]
    /\ run \in [at : {"main", "run", "poll"}, pc : Routine, accum : 0..TickInterval - 1]
    /\ hist \in [wait : Nat, untold : Int]

\* The copy of pc and of the accumulator that is the current one.
Current == IF Executing THEN run.pc ELSE core.pc
CurrentAccum == IF Executing THEN run.accum ELSE core.accum

(***************************************************************************)
(* PERIPH_TICK_INTERVAL: although interrupts are looked at only in a tick, *)
(* a request never waits a full interval with interrupts enabled - across  *)
(* batches, sleep, and requests the host raises in between.                *)
(***************************************************************************)
LatencyBounded == hist.wait < TickInterval

(***************************************************************************)
(* avr_cpu_check_irq and RETI: the routine being executed and the return   *)
(* addresses in RAM agree, whichever copy of pc is the current one: the    *)
(* main program is outermost, and only routines that execute SEI, which    *)
(* sets the flag an interrupt cleared, are ever interrupted.               *)
(***************************************************************************)
NestingMatches ==
    LET chain == Append(core.stack, Current)
    IN  /\ \A n \in DOMAIN chain : chain[n] = Main <=> n = 1
        /\ ToSet(core.stack) \subseteq Nesting \cup {Main}

(***************************************************************************)
(* periph_accum, "cycles since last peripheral tick": every cycle of an    *)
(* instruction or of sleep reaches Timer0 exactly once.  What it has not   *)
(* been told yet is what the current copy of the accumulator holds, and    *)
(* less than an interval, across ticks, batches of any length, sleep and   *)
(* interrupts: no interval is handed over twice, none is dropped with a    *)
(* copy.  (An interrupt response adds four to the total of cycles and      *)
(* nothing to the accumulator.)                                            *)
(***************************************************************************)
TimerToldOnce == hist.untold = CurrentAccum /\ hist.untold < TickInterval
=============================================================================
