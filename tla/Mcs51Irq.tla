------------------------------ MODULE Mcs51Irq ------------------------------
(***************************************************************************)
(* Interrupt dispatch of the 8051 core: mcs51_cpu_step is one decoded      *)
(* instruction, the timer ticks of its machine cycles and one call of      *)
(* mcs51_cpu_check_irq.  The firmware is any program that executes RETI    *)
(* only inside an interrupt routine and otherwise leaves the return        *)
(* addresses on the stack alone; calls and pushes of its own are balanced  *)
(* and so invisible here.                                                  *)
(*                                                                         *)
(* cpu.pc is abstracted to the routine it points into: which source's      *)
(* routine and, as a history, at which level that routine was accepted.    *)
(***************************************************************************)
EXTENDS Integers, Sequences, FiniteSetsExt

CONSTANT Used      \* the sources the firmware under study enables or raises

\* The rows of int_sources, in polling order.
Source == 1..6
EX0 == 1
T0  == 2
EX1 == 3
T1  == 4
ES  == 5
T2  == 6

ASSUME UsedAssumption == Used \subseteq Source

FlagTable == << {"IE0"}, {"TF0"}, {"IE1"}, {"TF1"}, {"RI", "TI"}, {"TF2", "EXF2"} >>
FlagsOf(i) == FlagTable[i]
Flag == {"IE0", "TF0", "IE1", "TF1", "RI", "TI", "TF2", "EXF2"}
UsedFlag == UNION {FlagsOf(i) : i \in Used}
AutoClear == {EX0, T0, EX1, T1}

Level == 0..1
Context == [src : Source \cup {0}, level : Level \cup {-1}]
Main == [src |-> 0, level |-> -1]

Cpu == [ state    : {"RUNNING", "BREAK"},
         ea       : BOOLEAN,
         ie       : SUBSET Source,        \* enable bits of IE
         ip       : SUBSET Source,        \* sources IP puts at the high level
         flags    : SUBSET Flag,          \* request bits of TCON, SCON, T2CON
         txActive : BOOLEAN,              \* uart->tx_active
         active   : [Level -> BOOLEAN],   \* int_active
         pc       : Context,
         stack    : Seq(Context) ]        \* return addresses pushed by check_irq

VARIABLE cpu
-----------------------------------------------------------------------------
(***************************************************************************)
(* mcs51_cpu_check_irq.                                                    *)
(***************************************************************************)
Requested(c, i) == c.flags \cap FlagsOf(i) # {}

LevelOf(c, i) == IF i \in c.ip THEN 1 ELSE 0

\* Mutants of Blocked: a level blocks only itself; any routine blocks all.
BlockedBySameLevel(c, i) == c.active[LevelOf(c, i)]
BlockedByAny(c, i) == c.active[1] \/ c.active[0]

Blocked(c, i) == c.active[1] \/ (c.active[0] /\ LevelOf(c, i) = 0)

Eligible(c) ==
    {i \in Source : c.ea /\ i \in c.ie /\ Requested(c, i) /\ ~Blocked(c, i)}

Accept(c, i) ==
    [c EXCEPT !.flags  = IF i \in AutoClear THEN @ \ FlagsOf(i) ELSE @,
              !.stack  = Append(@, c.pc),
              !.pc     = [src |-> i, level |-> LevelOf(c, i)],
              !.active = [@ EXCEPT ![LevelOf(c, i)] = TRUE]]

\* Mutant of CheckIrq: the table polled from its end.
CheckIrqFromEnd(c) == IF Eligible(c) = {} THEN c ELSE Accept(c, Max(Eligible(c)))

CheckIrq(c) == IF Eligible(c) = {} THEN c ELSE Accept(c, Min(Eligible(c)))

(***************************************************************************)
(* The instructions that touch the state above.  "other" is every          *)
(* instruction that does not.                                              *)
(***************************************************************************)
Instruction ==
         [op : {"other", "reti", "break", "sbuf"}]
    \cup [op : {"set_ea"}, on : BOOLEAN]
    \cup [op : {"write_ie"}, mask : SUBSET Used]
    \cup [op : {"write_ip"}, mask : SUBSET Used]
    \cup [op : {"setb", "clr"}, flag : UsedFlag]

\* Mutant of Reti: the outermost active level is ended.
RetiEndsLow(c) ==
    LET top == Len(c.stack)
    IN  [c EXCEPT !.pc = c.stack[top],
                  !.stack = SubSeq(@, 1, top - 1),
                  !.active = IF @[0] THEN [@ EXCEPT ![0] = FALSE]
                                     ELSE [@ EXCEPT ![1] = FALSE]]

\* op_reti: pops the return address and ends the innermost active level.
Reti(c) ==
    LET top == Len(c.stack)
    IN  [c EXCEPT !.pc = c.stack[top],
                  !.stack = SubSeq(@, 1, top - 1),
                  !.active = IF @[1] THEN [@ EXCEPT ![1] = FALSE]
                                     ELSE [@ EXCEPT ![0] = FALSE]]

Execute(c, ins) ==
    CASE ins.op = "other"    -> c
      [] ins.op = "reti"     -> Reti(c)
      [] ins.op = "break"    -> [c EXCEPT !.state = "BREAK"]
      [] ins.op = "sbuf"     -> [c EXCEPT !.txActive = TRUE]
      [] ins.op = "set_ea"   -> [c EXCEPT !.ea = ins.on]
      [] ins.op = "write_ie" -> [c EXCEPT !.ie = ins.mask]
      [] ins.op = "write_ip" -> [c EXCEPT !.ip = ins.mask]
      [] ins.op = "setb"     -> [c EXCEPT !.flags = @ \cup {ins.flag}]
      [] ins.op = "clr"      -> [c EXCEPT !.flags = @ \ {ins.flag}]

(***************************************************************************)
(* mcs51_timer_tick over the cycles of one instruction: TL0/TH0 or TL1/TH1 *)
(* overflow ("ovf0", "ovf1"), or TH0 overflows on its own in the split     *)
(* mode of timer 0 ("th0"), which sets TF1 without clocking the UART.      *)
(***************************************************************************)
Overflow == {o \in SUBSET {"ovf0", "ovf1", "th0"} : ~({"ovf1", "th0"} \subseteq o)}

Tick(c, o) ==
    LET txDone == "ovf1" \in o /\ c.txActive
    IN  [c EXCEPT !.flags = @ \cup (IF "ovf0" \in o THEN {"TF0"} ELSE {})
                              \cup (IF o \cap {"ovf1", "th0"} # {} THEN {"TF1"} ELSE {})
                              \cup (IF txDone THEN {"TI"} ELSE {}),
                  !.txActive = @ /\ ~txDone]

CanExecute(c, ins) == ins.op = "reti" => c.stack # <<>>
-----------------------------------------------------------------------------
\* mcs51_cpu_step: decode, tick, check.
Step(ins, o) ==
    /\ cpu.state = "RUNNING"
    /\ CanExecute(cpu, ins)
    /\ cpu' = CheckIrq(Tick(Execute(cpu, ins), o))

\* mcs51_uart_rx_push from the host between two steps, with REN set.
RxPush == cpu' = [cpu EXCEPT !.flags = @ \cup {"RI"}]

\* The debugger's "c" and "s" put a stopped core back to RUNNING.
Resume ==
    /\ cpu.state = "BREAK"
    /\ cpu' = [cpu EXCEPT !.state = "RUNNING"]

\* mcs51_cpu_reset; the UART structure, and with it tx_active, survives.
AfterReset(txActive) ==
    [ state |-> "RUNNING", ea |-> FALSE, ie |-> {}, ip |-> {}, flags |-> {},
      txActive |-> txActive, active |-> [l \in Level |-> FALSE],
      pc |-> Main, stack |-> <<>> ]

Reset == cpu' = AfterReset(cpu.txActive)

Init == cpu = AfterReset(FALSE)

\* Timer overflows of timers the firmware runs, i.e. whose source is Used.
UsedOverflow ==
    {o \in Overflow : /\ "ovf0" \in o => T0 \in Used
                      /\ o \cap {"ovf1", "th0"} # {} => T1 \in Used}

Next == \/ \E ins \in Instruction, o \in UsedOverflow : Step(ins, o)
        \/ ES \in Used /\ RxPush
        \/ Resume
        \/ Reset

Spec == Init /\ [][Next]_cpu

(***************************************************************************)
(* Firmware that keeps executing and whose interrupt routines return; a    *)
(* debugger that resumes the core.  The code gives the first (the run loop *)
(* calls mcs51_cpu_step for ever), the other two are the environment's.    *)
(***************************************************************************)
Fairness ==
    /\ WF_cpu(\E ins \in Instruction, o \in UsedOverflow : Step(ins, o))
    /\ SF_cpu(\E o \in UsedOverflow : Step([op |-> "reti"], o))
    /\ WF_cpu(Resume)

FairSpec == Spec /\ Fairness
-----------------------------------------------------------------------------
TypeOK == cpu \in Cpu

\* The routines in progress, the main program first.
Chain(c) == Append(c.stack, c.pc)

(***************************************************************************)
(* int_active, which decides what may preempt, always agrees with the      *)
(* return addresses on the stack, which decide where RETI goes: exactly    *)
(* the levels of the routines in progress are marked, the main program is  *)
(* outermost, and every routine has a strictly higher level than the one   *)
(* it interrupted - whatever the firmware does to IE, IP and the flags     *)
(* while the routines run.                                                 *)
(***************************************************************************)
NestingMatchesActive ==
    LET ch == Chain(cpu)
    IN  /\ ch[1] = Main
        /\ \A k \in 1..Len(cpu.stack) : ch[k].level < ch[k+1].level
        /\ \A l \in Level :
              cpu.active[l] <=> \E k \in 1..Len(ch) : ch[k].level = l

\* The levels of the interrupt routines in progress, outermost first.
NestOf(c) == [k \in 1..Len(c.stack) |-> Chain(c)[k+1].level]

Abstract == INSTANCE IsrNest WITH Levels <- Level, nest <- NestOf(cpu)

\* Routines nest and return as a priority stack: the abstract controller.
ImplementsNest == Abstract!Spec

(***************************************************************************)
(* The polling order ignores IP, so a low-level request can be accepted    *)
(* while a high-level one waits.  The inversion lasts one step: while a    *)
(* low-level routine runs, an instruction that leaves the registers alone  *)
(* ends with the waiting high-level routine entered.                       *)
(***************************************************************************)
HighWaiting ==
    cpu.ea /\ \E i \in cpu.ie \cap cpu.ip : Requested(cpu, i)

InversionLastsOneStep ==
    [][\A o \in UsedOverflow :
          Step([op |-> "other"], o) /\ HighWaiting /\ cpu.active[0]
             => cpu'.active[1]]_cpu

(***************************************************************************)
(* The first polled source is never starved: a request of it that stays    *)
(* enabled at the high level is accepted, however often the others ask, as *)
(* long as routines return.                                                *)
(***************************************************************************)
FirstInOrder == Min(Used)

FirstWaits ==
    /\ cpu.ea
    /\ FirstInOrder \in cpu.ie \cap cpu.ip
    /\ Requested(cpu, FirstInOrder)

FirstServed ==
    FirstWaits ~> (~FirstWaits \/ (cpu.pc.src = FirstInOrder /\ cpu.active[1]))
=============================================================================
