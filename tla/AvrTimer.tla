------------------------------ MODULE AvrTimer ------------------------------
(***************************************************************************)
(* Timer0 of the AVR (avr_timer.c).  Firmware writes its registers, the    *)
(* run loop ticks it with the cycles of several instructions at once, and  *)
(* it queues its two interrupts in irq_pending.  What the core does with   *)
(* the queue is module AvrCore; here an interrupt is taken at any time.    *)
(*                                                                         *)
(* The counter counts to MaxCount (255 in the code) and the table of       *)
(* prescaler divisors is a constant, so that small ones can be checked.    *)
(* A clock select that is not in the table stops the timer.                *)
(***************************************************************************)
EXTENDS Integers, FiniteSets

CONSTANTS MaxCount,      \* 0xFF
          Divisor,       \* prescaler_div, for the clock selects that count
          Modes,         \* the values of WGM0 that firmware uses
          Interval,      \* PERIPH_TICK_INTERVAL
          MaxCycles,     \* cycles of the longest instruction
          First,         \* the request with the lower vector: the variants differ
          MaxSetups      \* bound on the writes to TCCR0A/B, OCR0A/B and TCNT0

ASSUME TimerAssumption ==
    /\ MaxCount \in Nat \ {0} /\ Interval \in Nat \ {0} /\ MaxCycles \in Nat \ {0}
    /\ Divisor \in [DOMAIN Divisor -> Nat \ {0}] /\ 0 \notin DOMAIN Divisor
    /\ Modes \subseteq 0..7 /\ 0 \in Modes
    /\ First \in {"TOV0", "OCF0A"} /\ MaxSetups \in Nat

Flags == {"TOV0", "OCF0A", "OCF0B"}
Requests == {"TOV0", "OCF0A"}      \* compare match B has no vector in the code
Clocks == {0} \cup DOMAIN Divisor
Counts == 0..MaxCount

VARIABLES timer,     \* the registers and the avr_timer0_t
          pending,   \* the timer's bits of irq_pending
          accum,     \* periph_accum
          due,       \* history: events neither taken nor cleared by a one in TIFR
          wiped,     \* history: flags whose last event a write of zero cleared
          setups     \* history: writes to the set-up registers
vars == <<timer, pending, accum, due, wiped, setups>>

\* tcnt, ocra, ocrb, tifr, timsk are TCNT0, OCR0A, OCR0B, TIFR and TIMSK; cs and
\* wgm the fields of TCCR0A and TCCR0B; prescaler and up the avr_timer0_t's.
Timer == [ tcnt : Counts, ocra : Counts, ocrb : Counts, cs : Clocks, wgm : Modes,
           tifr : SUBSET Flags, timsk : SUBSET Requests,
           prescaler : Nat, up : BOOLEAN ]
-----------------------------------------------------------------------------
(***************************************************************************)
(* One count.                                                              *)
(***************************************************************************)
PhaseCorrect(t) == t.wgm \in {1, 5}
Top(t) == IF t.wgm \in {2, 5, 7} THEN t.ocra ELSE MaxCount

\* Mutant of CountUp: the counter is cleared at TOP instead of after it.
CountUpShort(t) ==
    LET wraps == t.tcnt + 1 >= Top(t)
    IN  [tcnt |-> IF wraps THEN 0 ELSE t.tcnt + 1, up |-> t.up,
         tov |-> wraps /\ (t.wgm \in {0, 3, 7} \/ (t.wgm = 2 /\ t.tcnt = MaxCount))]

\* Normal, CTC and Fast PWM.
CountUp(t) ==
    LET wraps == t.tcnt + 1 > Top(t)
    IN  [tcnt |-> IF wraps THEN 0 ELSE t.tcnt + 1, up |-> t.up,
         tov |-> wraps /\ (t.wgm \in {0, 3, 7} \/ (t.wgm = 2 /\ t.tcnt = MaxCount))]

\* Phase correct PWM; TCNT0 is a byte and wraps below zero.
CountUpDown(t) ==
    IF t.up
    THEN LET next == (t.tcnt + 1) % (MaxCount + 1)
         IN  [tcnt |-> IF next >= Top(t) THEN Top(t) ELSE next, up |-> next < Top(t), tov |-> FALSE]
    ELSE LET next == (t.tcnt - 1) % (MaxCount + 1)
         IN  [tcnt |-> next, up |-> next = 0, tov |-> next = 0]

Moved(t) == IF PhaseCorrect(t) THEN CountUpDown(t) ELSE CountUp(t)

\* The flags that a count raises.
Raised(t) ==
    LET m == Moved(t)
    IN  {f \in Flags :
            \/ f = "TOV0" /\ m.tov
            \/ f = "OCF0A" /\ m.tcnt = t.ocra /\ t.tcnt # t.ocra
            \/ f = "OCF0B" /\ m.tcnt = t.ocrb /\ t.tcnt # t.ocrb}

\* Flags whose interrupt is enabled move from TIFR to irq_pending.
Queued(t) == (t.tifr \cup Raised(t)) \cap t.timsk

\* Mutant of Count: the flags of an earlier count that nobody has taken are lost.
CountAnew(t) ==
    [t EXCEPT !.tcnt = Moved(t).tcnt, !.up = Moved(t).up,
              !.tifr = Raised(t) \ t.timsk]

Count(t) ==
    [t EXCEPT !.tcnt = Moved(t).tcnt, !.up = Moved(t).up,
              !.tifr = (@ \cup Raised(t)) \ t.timsk]
-----------------------------------------------------------------------------
(***************************************************************************)
(* avr_timer0_tick: the cycles since the last tick, as counts.             *)
(***************************************************************************)
\* The timer, the requests and the history on which a tick acts.
Ticked == [timer : Timer, pending : SUBSET Requests, due : SUBSET Flags, wiped : SUBSET Flags]
Here == [timer |-> timer, pending |-> pending, due |-> due, wiped |-> wiped]

OneCount(s) ==
    [timer |-> Count(s.timer), pending |-> s.pending \cup Queued(s.timer),
     due |-> s.due \cup Raised(s.timer), wiped |-> s.wiped \ Raised(s.timer)]

\* s after n counts.
Counted(s, n) ==
    LET after[k \in 0..n] == IF k = 0 THEN s ELSE OneCount(after[k - 1])
    IN  after[n]

\* Mutant of Tick: a tick of several counts leaves no remainder.
TickWhole(s, elapsed) ==
    IF s.timer.cs \notin DOMAIN Divisor
    THEN s
    ELSE LET div == Divisor[s.timer.cs]
             sum == s.timer.prescaler + elapsed
         IN  Counted([s EXCEPT !.timer.prescaler = IF sum >= 2 * div THEN 0 ELSE sum % div],
                     sum \div div)

Tick(s, elapsed) ==
    IF s.timer.cs \notin DOMAIN Divisor
    THEN s
    ELSE LET div == Divisor[s.timer.cs]
             sum == s.timer.prescaler + elapsed
         IN  Counted([s EXCEPT !.timer.prescaler = sum % div], sum \div div)

\* The core after an instruction of c cycles (NEXT): the peripherals are ticked
\* when enough cycles have gathered.
Elapse(s, c) ==
    LET sum == accum + c
        now == IF sum >= Interval THEN Tick(s, sum) ELSE s
    IN  /\ accum' = IF sum >= Interval THEN 0 ELSE sum
        /\ timer' = now.timer /\ pending' = now.pending
        /\ due' = now.due /\ wiped' = now.wiped
-----------------------------------------------------------------------------
(***************************************************************************)
(* Register writes (avr_io_write, timer_write).                            *)
(***************************************************************************)
SetUp(field, values) ==
    /\ setups < MaxSetups /\ setups' = setups + 1
    /\ \E v \in values : Elapse([Here EXCEPT !.timer[field] = v], 1)

\* TCCR0A and TCCR0B hold the mode between them; one write can change both
\* fields of TCCR0B.
WriteTccr0a == SetUp("wgm", {w \in Modes : w \div 4 = timer.wgm \div 4})
WriteTccr0b ==
    /\ setups < MaxSetups /\ setups' = setups + 1
    /\ \E cs \in Clocks, w \in {w \in Modes : w % 4 = timer.wgm % 4} :
           Elapse([Here EXCEPT !.timer.cs = cs, !.timer.wgm = w], 1)
WriteTcnt0 == SetUp("tcnt", Counts)
WriteOcr0a == SetUp("ocra", Counts)
WriteOcr0b == SetUp("ocrb", Counts)

WriteTimsk ==
    /\ \E enabled \in SUBSET Requests : Elapse([Here EXCEPT !.timer.timsk = enabled], 1)
    /\ UNCHANGED setups

\* avr_io_write has stored the value before the handler clears the bits that
\* are one in it: whatever was flagged, nothing is left.
ClearedTifr(ones) == ones \ ones

\* The history is that of the comment at line 35: a one in the value writes an
\* event off, unless it is queued; one that disappears without it is wiped.
Wiped(ones) == (wiped \cup (timer.tifr \ ClearedTifr(ones))) \ ones

WriteTifr ==
    /\ \E ones \in SUBSET Flags :
           Elapse([Here EXCEPT !.timer.tifr = ClearedTifr(ones),
                               !.due = @ \ (ones \ pending),
                               !.wiped = Wiped(ones)], 1)
    /\ UNCHANGED setups
-----------------------------------------------------------------------------
(***************************************************************************)
(* The core.                                                               *)
(***************************************************************************)
\* Any other instruction.
Other == \E c \in 1..MaxCycles : Elapse(Here, c) /\ UNCHANGED setups

\* An interrupt is taken, the lower vector first (avr_cpu_check_irq).
Take(r) ==
    /\ r \in pending /\ (r = First \/ First \notin pending)
    /\ pending' = pending \ {r}
    /\ due' = (due \ {r}) \cup ((timer.tifr \cup wiped) \cap {r})
    /\ UNCHANGED <<timer, accum, wiped, setups>>

\* The core sleeps: the run loop ticks the timer with one cycle at a time and
\* leaves periph_accum alone.
Asleep ==
    LET now == Tick(Here, 1)
    IN  /\ timer' = now.timer /\ pending' = now.pending
        /\ due' = now.due /\ wiped' = now.wiped
        /\ UNCHANGED <<accum, setups>>

\* avr_cpu_reset clears the data space and the requests, not the avr_timer0_t.
Reset ==
    /\ timer' = [timer EXCEPT !.tcnt = 0, !.ocra = 0, !.ocrb = 0, !.cs = 0, !.wgm = 0,
                              !.tifr = {}, !.timsk = {}]
    /\ pending' = {} /\ accum' = 0 /\ due' = {} /\ wiped' = {}
    /\ UNCHANGED setups

Init ==
    /\ timer = [tcnt |-> 0, ocra |-> 0, ocrb |-> 0, cs |-> 0, wgm |-> 0,
                tifr |-> {}, timsk |-> {}, prescaler |-> 0, up |-> TRUE]
    /\ pending = {} /\ accum = 0 /\ due = {} /\ wiped = {} /\ setups = 0

Next == \/ WriteTccr0a \/ WriteTccr0b \/ WriteTcnt0 \/ WriteOcr0a \/ WriteOcr0b
        \/ WriteTimsk \/ WriteTifr
        \/ Other \/ Asleep \/ Reset \/ \E r \in Requests : Take(r)

Spec == Init /\ [][Next]_vars
-----------------------------------------------------------------------------
TypeOK ==
    /\ timer \in Timer /\ pending \subseteq Requests
    /\ due \subseteq Flags /\ wiped \subseteq Flags
    /\ accum \in 0..Interval - 1 /\ setups \in 0..MaxSetups

\* The batching of the ticks cannot be seen from outside: as long as no register
\* is written in between, a tick with the cycles of many instructions leaves the
\* counter, the flags and the requests as one tick per cycle would, whatever
\* remainder of another clock select it starts from (avr_timer.c:75): the last
\* cycle of any batch can be a tick of its own.
BatchIsCycles ==
    \A n \in 1..Interval - 1 + MaxCycles : Tick(Here, n) = Tick(Tick(Here, n - 1), 1)

\* Counts from BOTTOM to BOTTOM.
Period(t) == IF PhaseCorrect(t) THEN 2 * Top(t) ELSE Top(t) + 1
Overflows(t) == t.wgm \in {0, 1, 3, 5, 7} \/ (t.wgm = 2 /\ Top(t) = MaxCount)

\* From BOTTOM the counter is back after its period and not before; in that time
\* it overflows once, at the last count, in the modes that overflow, and matches
\* OCR0A once, or twice on the slopes of phase correct PWM.  A TOP of zero is
\* excepted: CTC then never matches and phase correct PWM counts down from 0xFF.
PeriodRight ==
    LET after(k) == Counted(Here, k).timer
        n == Period(timer)
        raises(f) == {k \in 1..n : f \in Raised(after(k - 1))}
    IN  timer.tcnt = 0 /\ timer.up /\ Top(timer) > 0 =>
            /\ \A k \in 1..n : after(k).tcnt = 0 <=> k = n
            /\ after(n).up
            /\ raises("TOV0") = IF Overflows(timer) THEN {n} ELSE {}
            /\ Cardinality(raises("OCF0A")) =
                   CASE timer.ocra > Top(timer) -> 0
                     [] PhaseCorrect(timer) /\ timer.ocra \in 1..Top(timer) - 1 -> 2
                     [] OTHER -> 1

\* No event is made up, and one that is neither taken nor cleared by a one in
\* TIFR is still there, flagged or queued as a request (avr_timer.c:155), over
\* any batch of counts, except for those that a write to TIFR wipes although
\* their bit in it is zero.  Those are lost, against the comment at
\* avr_timer.c:35: firmware that clears one flag loses the others.
EventsKept == due = timer.tifr \cup pending \cup wiped
=============================================================================
