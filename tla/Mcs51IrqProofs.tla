--------------------------- MODULE Mcs51IrqProofs ---------------------------
(***************************************************************************)
(* Proofs about the 8051 interrupt dispatch, for every set Used of         *)
(* sources.  The invariant of the runs is not inductive as it is stated;   *)
(* Shape says what the stack and int_active can be in full: no routine in  *)
(* progress, one of either level, or a high one inside a low one.          *)
(***************************************************************************)
EXTENDS Mcs51Irq, SequenceTheorems, TLAPS

Idle(c) == /\ Len(c.stack) = 0
           /\ c.pc = Main
           /\ c.active[0] = FALSE /\ c.active[1] = FALSE

OneDeep(c) == /\ Len(c.stack) = 1
              /\ c.stack[1] = Main
              /\ c.pc.level \in Level
              /\ \A l \in Level : c.active[l] <=> l = c.pc.level

TwoDeep(c) == /\ Len(c.stack) = 2
              /\ c.stack[1] = Main
              /\ c.stack[2].level = 0
              /\ c.pc.level = 1
              /\ c.active[0] = TRUE /\ c.active[1] = TRUE

Shape(c) == Idle(c) \/ OneDeep(c) \/ TwoDeep(c)

Good(c) == c \in Cpu /\ Shape(c)
-----------------------------------------------------------------------------
\* Every source requests through flags of the model.
LEMMA FlagsOfType == \A i \in Source : FlagsOf(i) \subseteq Flag
  BY DEF Source, FlagsOf, FlagTable, Flag

\* The polled minimum of a non-empty set of sources is one of them.
LEMMA MinOfSources ==
  ASSUME NEW S \in SUBSET Source, S # {}
  PROVE  Min(S) \in S
<1>1. \E x \in S : \A y \in S : x <= y
  <2>1. \A y \in S : y \in {1, 2, 3, 4, 5, 6}
    BY DEF Source
  <2>2. \/ 1 \in S
        \/ 1 \notin S /\ 2 \in S
        \/ 1 \notin S /\ 2 \notin S /\ 3 \in S
        \/ 1 \notin S /\ 2 \notin S /\ 3 \notin S /\ 4 \in S
        \/ 1 \notin S /\ 2 \notin S /\ 3 \notin S /\ 4 \notin S /\ 5 \in S
        \/ S = {6}
    BY <2>1
  <2>3. QED
    BY <2>1, <2>2
<1>2. QED
  BY <1>1 DEF Min

\* What RETI does, field by field.
LEMMA RetiFields ==
  ASSUME NEW c \in Cpu, c.stack # <<>>
  PROVE  /\ Reti(c) \in Cpu
         /\ Reti(c).pc = c.stack[Len(c.stack)]
         /\ Reti(c).stack = SubSeq(c.stack, 1, Len(c.stack) - 1)
         /\ Reti(c).active = IF c.active[1] THEN [c.active EXCEPT ![1] = FALSE]
                                            ELSE [c.active EXCEPT ![0] = FALSE]
<1>1. /\ c.stack \in Seq(Context)
      /\ c.active \in [Level -> BOOLEAN]
  BY DEF Cpu
<1>2. /\ c.stack[Len(c.stack)] \in Context
      /\ SubSeq(c.stack, 1, Len(c.stack) - 1) \in Seq(Context)
  BY <1>1
<1>3. /\ [c.active EXCEPT ![1] = FALSE] \in [Level -> BOOLEAN]
      /\ [c.active EXCEPT ![0] = FALSE] \in [Level -> BOOLEAN]
  BY <1>1
<1>4. QED
  BY <1>1, <1>2, <1>3 DEF Reti, Cpu

\* RETI returns to the routine below and leaves its levels marked.
LEMMA RetiGood ==
  ASSUME NEW c, Good(c), c.stack # <<>>
  PROVE  Good(Reti(c))
<1>1. c \in Cpu /\ c.stack \in Seq(Context) /\ c.active \in [Level -> BOOLEAN]
  BY DEF Good, Cpu
<1>2. /\ Reti(c) \in Cpu
      /\ Reti(c).pc = c.stack[Len(c.stack)]
      /\ Reti(c).stack = SubSeq(c.stack, 1, Len(c.stack) - 1)
      /\ Reti(c).active = IF c.active[1] THEN [c.active EXCEPT ![1] = FALSE]
                                         ELSE [c.active EXCEPT ![0] = FALSE]
  BY <1>1, RetiFields
<1>3. CASE OneDeep(c)
  <2>1. Reti(c).pc = Main /\ Len(Reti(c).stack) = 0
    BY <1>1, <1>2, <1>3 DEF OneDeep
  <2>2. Reti(c).active[0] = FALSE /\ Reti(c).active[1] = FALSE
    BY <1>1, <1>2, <1>3 DEF OneDeep, Level
  <2>3. QED
    BY <1>2, <2>1, <2>2 DEF Good, Shape, Idle
<1>4. CASE TwoDeep(c)
  <2>1. /\ Reti(c).pc = c.stack[2]
        /\ Len(Reti(c).stack) = 1
        /\ Reti(c).stack[1] = Main
    BY <1>1, <1>2, <1>4 DEF TwoDeep
  <2>2. Reti(c).active[0] = TRUE /\ Reti(c).active[1] = FALSE
    BY <1>1, <1>2, <1>4 DEF TwoDeep, Level
  <2>3. Reti(c).pc.level = 0
    BY <1>4, <2>1 DEF TwoDeep
  <2>4. OneDeep(Reti(c))
    BY <2>1, <2>2, <2>3 DEF OneDeep, Level
  <2>5. QED
    BY <1>2, <2>4 DEF Good, Shape
<1>5. ~Idle(c)
  BY <1>1, EmptySeq DEF Idle
<1>6. QED
  BY <1>3, <1>4, <1>5 DEF Good, Shape

\* An instruction other than RETI leaves the nest alone.
LEMMA ExecuteFields ==
  ASSUME NEW c \in Cpu, NEW ins \in Instruction, ins.op # "reti"
  PROVE  /\ Execute(c, ins) \in Cpu
         /\ Execute(c, ins).stack = c.stack
         /\ Execute(c, ins).pc = c.pc
         /\ Execute(c, ins).active = c.active
<1>1. /\ ins.op = "set_ea" => ins.on \in BOOLEAN
      /\ ins.op \in {"write_ie", "write_ip"} => ins.mask \in SUBSET Source
      /\ ins.op \in {"setb", "clr"} => ins.flag \in Flag
  BY UsedAssumption, FlagsOfType DEF Instruction, UsedFlag
<1>2. ins.op \in {"other", "break", "sbuf", "set_ea", "write_ie", "write_ip", "setb", "clr"}
  BY DEF Instruction
<1>3. CASE ins.op \in {"other", "break", "sbuf"}
  BY <1>3 DEF Execute, Cpu
<1>4. CASE ins.op = "set_ea"
  BY <1>1, <1>4 DEF Execute, Cpu
<1>5. CASE ins.op = "write_ie"
  BY <1>1, <1>5 DEF Execute, Cpu
<1>6. CASE ins.op = "write_ip"
  BY <1>1, <1>6 DEF Execute, Cpu
<1>7. CASE ins.op = "setb"
  <2>1. c.flags \cup {ins.flag} \in SUBSET Flag
    BY <1>1, <1>7 DEF Cpu
  <2>2. QED
    BY <1>7, <2>1 DEF Execute, Cpu
<1>8. CASE ins.op = "clr"
  <2>1. c.flags \ {ins.flag} \in SUBSET Flag
    BY DEF Cpu
  <2>2. QED
    BY <1>8, <2>1 DEF Execute, Cpu
<1>9. QED
  BY <1>2, <1>3, <1>4, <1>5, <1>6, <1>7, <1>8

\* One instruction keeps the core well-formed.
LEMMA ExecuteGood ==
  ASSUME NEW c, Good(c), NEW ins \in Instruction, CanExecute(c, ins)
  PROVE  Good(Execute(c, ins))
<1>1. CASE ins.op = "reti"
  BY <1>1, RetiGood DEF Execute, CanExecute
<1>2. CASE ins.op # "reti"
  BY <1>2, ExecuteFields DEF Good, Shape, Idle, OneDeep, TwoDeep
<1>3. QED
  BY <1>1, <1>2

\* The timer ticks of one instruction keep the core well-formed.
LEMMA TickGood ==
  ASSUME NEW c, Good(c), NEW o \in Overflow
  PROVE  Good(Tick(c, o))
<1>1. /\ Tick(c, o) \in Cpu
      /\ Tick(c, o).stack = c.stack
      /\ Tick(c, o).pc = c.pc
      /\ Tick(c, o).active = c.active
  BY DEF Tick, Good, Cpu, Flag
<1>2. QED
  BY <1>1 DEF Good, Shape, Idle, OneDeep, TwoDeep

\* What acceptance of a request does, field by field.
LEMMA AcceptFields ==
  ASSUME NEW c \in Cpu, NEW i \in Source
  PROVE  /\ Accept(c, i) \in Cpu
         /\ Accept(c, i).pc = [src |-> i, level |-> LevelOf(c, i)]
         /\ Accept(c, i).stack = Append(c.stack, c.pc)
         /\ Accept(c, i).active = [c.active EXCEPT ![LevelOf(c, i)] = TRUE]
<1>1. LevelOf(c, i) \in Level
  BY DEF LevelOf, Level
<1>2. [src |-> i, level |-> LevelOf(c, i)] \in Context
  BY <1>1 DEF Context
<1>3. /\ Append(c.stack, c.pc) \in Seq(Context)
      /\ [c.active EXCEPT ![LevelOf(c, i)] = TRUE] \in [Level -> BOOLEAN]
      /\ c.flags \ FlagsOf(i) \in SUBSET Flag
  BY <1>1 DEF Cpu
<1>4. QED
  BY <1>2, <1>3 DEF Accept, Cpu

\* A request that is not blocked nests one routine deeper.
LEMMA AcceptGood ==
  ASSUME NEW c, Good(c), NEW i \in Source, ~Blocked(c, i)
  PROVE  Good(Accept(c, i))
<1> DEFINE a == Accept(c, i)
           l == LevelOf(c, i)
<1>1. c \in Cpu /\ c.stack \in Seq(Context) /\ c.pc \in Context
      /\ c.active \in [Level -> BOOLEAN]
  BY DEF Good, Cpu
<1>2. /\ a \in Cpu
      /\ a.pc = [src |-> i, level |-> l]
      /\ a.stack = Append(c.stack, c.pc)
      /\ a.active = [c.active EXCEPT ![l] = TRUE]
  BY <1>1, AcceptFields
<1>3. l \in Level /\ a.pc.level = l
  BY <1>2 DEF LevelOf, Level
<1>4. CASE Idle(c)
  <2>1. Len(a.stack) = 1 /\ a.stack[1] = Main
    BY <1>1, <1>2, <1>4 DEF Idle
  <2>2. \A k \in Level : a.active[k] <=> k = l
    BY <1>1, <1>2, <1>3, <1>4 DEF Idle, Level
  <2>3. QED
    BY <1>2, <1>3, <2>1, <2>2 DEF Good, Shape, OneDeep
<1>5. CASE OneDeep(c)
  <2>1. c.pc.level = 0 /\ l = 1
    BY <1>1, <1>3, <1>5 DEF OneDeep, Blocked, Level
  <2>2. Len(a.stack) = 2 /\ a.stack[1] = Main /\ a.stack[2] = c.pc
    BY <1>1, <1>2, <1>5 DEF OneDeep
  <2>3. a.active[0] = TRUE /\ a.active[1] = TRUE
    BY <1>1, <1>2, <1>5, <2>1 DEF OneDeep, Level
  <2>4. TwoDeep(a)
    BY <1>3, <2>1, <2>2, <2>3 DEF TwoDeep
  <2>5. QED
    BY <1>2, <2>4 DEF Good, Shape
<1>6. CASE TwoDeep(c)
  BY <1>6 DEF TwoDeep, Blocked
<1>7. QED
  BY <1>4, <1>5, <1>6 DEF Good, Shape

\* mcs51_cpu_check_irq keeps the core well-formed.
LEMMA CheckIrqGood ==
  ASSUME NEW c, Good(c)
  PROVE  Good(CheckIrq(c))
<1>1. CASE Eligible(c) = {}
  BY <1>1 DEF CheckIrq
<1>2. CASE Eligible(c) # {}
  <2>1. Min(Eligible(c)) \in Eligible(c)
    BY <1>2, MinOfSources DEF Eligible
  <2>2. QED
    BY <1>2, <2>1, AcceptGood DEF CheckIrq, Eligible
<1>3. QED
  BY <1>1, <1>2
-----------------------------------------------------------------------------
\* The invariant of every reachable state.
IInv == Good(cpu)

LEMMA InitGood == Init => IInv
  BY DEF Init, IInv, AfterReset, Good, Cpu, Shape, Idle, Level, Context, Main

LEMMA NextGood == IInv /\ [Next]_cpu => IInv'
<1> SUFFICES ASSUME IInv, [Next]_cpu PROVE IInv'
  OBVIOUS
<1>1. ASSUME NEW ins \in Instruction, NEW o \in UsedOverflow, Step(ins, o)
      PROVE  IInv'
  <2>1. Good(Tick(Execute(cpu, ins), o))
    BY <1>1, ExecuteGood, TickGood DEF IInv, Step, UsedOverflow
  <2>2. QED
    BY <1>1, <2>1, CheckIrqGood DEF Step, IInv
<1>2. CASE RxPush
  <2>1. cpu.flags \cup {"RI"} \in SUBSET Flag
    BY DEF IInv, Good, Cpu, Flag
  <2>2. QED
    BY <1>2, <2>1 DEF RxPush, IInv, Good, Cpu, Shape, Idle, OneDeep, TwoDeep
<1>3. CASE Resume
  BY <1>3 DEF Resume, IInv, Good, Cpu, Shape, Idle, OneDeep, TwoDeep
<1>4. CASE Reset
  BY <1>4 DEF Reset, IInv, AfterReset, Good, Cpu, Shape, Idle, Level, Context, Main
<1>5. CASE UNCHANGED cpu
  BY <1>5 DEF IInv
<1>6. QED
  BY <1>1, <1>2, <1>3, <1>4, <1>5 DEF Next

LEMMA Invariance == Spec => []IInv
<1>1. Init => IInv
  BY InitGood
<1>2. IInv /\ [Next]_cpu => IInv'
  BY NextGood
<1>3. QED
  BY <1>1, <1>2, PTL DEF Spec

\* The record of the core keeps its type.
THEOREM TypeCorrect == Spec => []TypeOK
<1>1. IInv => TypeOK
  BY DEF IInv, Good, TypeOK
<1>2. QED
  BY <1>1, Invariance, PTL

(***************************************************************************)
(* int_active and the return addresses agree in every reachable state,     *)
(* whatever sources the firmware uses.                                     *)
(***************************************************************************)
THEOREM NestingCorrect == Spec => []NestingMatchesActive
<1>1. IInv => NestingMatchesActive
  <2> SUFFICES ASSUME IInv PROVE NestingMatchesActive
    OBVIOUS
  <2> DEFINE ch == Chain(cpu)
  <2>1. /\ cpu \in Cpu /\ Shape(cpu)
        /\ cpu.stack \in Seq(Context) /\ cpu.pc \in Context
        /\ cpu.active \in [Level -> BOOLEAN]
    BY DEF IInv, Good, Cpu
  <2>2. /\ ch \in Seq(Context)
        /\ Len(ch) = Len(cpu.stack) + 1
        /\ ch[Len(cpu.stack) + 1] = cpu.pc
        /\ \A k \in 1..Len(cpu.stack) : ch[k] = cpu.stack[k]
    BY <2>1 DEF Chain
  <2>3. Main.level = -1
    BY DEF Main
  <2>4. CASE Idle(cpu)
    <3>1. Len(ch) = 1 /\ ch[1] = Main
      BY <2>2, <2>4 DEF Idle
    <3>2. QED
      BY <2>3, <2>4, <3>1 DEF NestingMatchesActive, Idle, Level
  <2>5. CASE OneDeep(cpu)
    <3>1. Len(ch) = 2 /\ ch[1] = Main /\ ch[2] = cpu.pc
      BY <2>2, <2>5 DEF OneDeep
    <3>2. QED
      BY <2>1, <2>3, <2>5, <3>1 DEF NestingMatchesActive, OneDeep, Level
  <2>6. CASE TwoDeep(cpu)
    <3>1. /\ Len(ch) = 3 /\ ch[1] = Main
          /\ ch[2].level = 0 /\ ch[3].level = 1
      BY <2>2, <2>6 DEF TwoDeep
    <3>2. QED
      BY <2>3, <2>6, <3>1 DEF NestingMatchesActive, TwoDeep, Level
  <2>7. QED
    BY <2>1, <2>4, <2>5, <2>6 DEF Shape
<1>2. QED
  BY <1>1, Invariance, PTL
-----------------------------------------------------------------------------
(***************************************************************************)
(* The priority inversion that the polling order allows.                   *)
(***************************************************************************)
\* The ticks of an instruction only add requests.
LEMMA TickKeepsWaiting ==
  ASSUME NEW c \in Cpu, NEW o \in Overflow
  PROVE  /\ Tick(c, o) \in Cpu
         /\ Tick(c, o).ea = c.ea /\ Tick(c, o).ie = c.ie /\ Tick(c, o).ip = c.ip
         /\ Tick(c, o).active = c.active /\ c.flags \subseteq Tick(c, o).flags
BY DEF Tick, Cpu, Flag

\* With a high request waiting in a low routine, no low request is eligible.
LEMMA HighIsTaken ==
  ASSUME NEW c \in Cpu, c.active[0], ~c.active[1], c.ea,
         NEW i \in c.ie \cap c.ip, Requested(c, i)
  PROVE  CheckIrq(c).active[1]
<1>1. i \in Source /\ c.active \in [Level -> BOOLEAN]
  BY DEF Cpu
<1>2. i \in Eligible(c)
  BY <1>1 DEF Eligible, Blocked, LevelOf
<1> DEFINE j == Min(Eligible(c))
<1>3. j \in Source /\ ~Blocked(c, j) /\ CheckIrq(c) = Accept(c, j)
  <2>1. Eligible(c) \in SUBSET Source /\ Eligible(c) # {}
    BY <1>2 DEF Eligible
  <2>2. j \in Eligible(c)
    BY <2>1, MinOfSources
  <2>3. QED
    BY <2>1, <2>2 DEF CheckIrq, Eligible
<1> HIDE DEF j
<1>4. LevelOf(c, j) = 1
  BY <1>3 DEF Blocked, LevelOf
<1>5. Accept(c, j).active = [c.active EXCEPT ![LevelOf(c, j)] = TRUE]
  BY <1>3, AcceptFields
<1>6. [c.active EXCEPT ![1] = TRUE][1]
  BY <1>1 DEF Level
<1>7. CheckIrq(c).active = [c.active EXCEPT ![1] = TRUE]
  BY <1>3, <1>4, <1>5, Zenon
<1>8. QED
  BY <1>6, <1>7, Zenon

(***************************************************************************)
(* check_irq polls the sources in table order and not by priority: a high  *)
(* request kept waiting by a low routine is entered at the end of the next *)
(* instruction that leaves the registers alone, whatever sources the       *)
(* firmware uses and whatever the timers do meanwhile.                     *)
(***************************************************************************)
THEOREM InversionEnds == Spec => InversionLastsOneStep
<1>1. ASSUME IInv, NEW o \in UsedOverflow, Step([op |-> "other"], o), HighWaiting,
             cpu.active[0]
      PROVE  cpu'.active[1]
  <2> DEFINE t == Tick(cpu, o)
  <2>1. cpu \in Cpu /\ o \in Overflow
    BY <1>1 DEF IInv, Good, UsedOverflow
  <2>2. cpu' = CheckIrq(t)
    BY <1>1 DEF Step, Execute
  <2>3. /\ t \in Cpu /\ t.ea = cpu.ea /\ t.ie = cpu.ie /\ t.ip = cpu.ip
        /\ t.active = cpu.active /\ cpu.flags \subseteq t.flags
    BY <2>1, TickKeepsWaiting
  <2> HIDE DEF t
  <2>4. CASE cpu.active[1]
    <3>1. Eligible(t) = {}
      BY <2>3, <2>4 DEF Eligible, Blocked
    <3>2. cpu' = t
      BY <2>2, <3>1 DEF CheckIrq
    <3>3. QED
      BY <2>3, <2>4, <3>2
  <2>5. CASE ~cpu.active[1]
    <3>1. PICK i \in cpu.ie \cap cpu.ip : Requested(cpu, i)
      BY <1>1 DEF HighWaiting
    <3>2. i \in t.ie \cap t.ip /\ Requested(t, i)
      BY <2>3, <3>1 DEF Requested
    <3>3. t.active[0] /\ ~t.active[1] /\ t.ea
      BY <1>1, <2>3, <2>5 DEF HighWaiting
    <3>4. CheckIrq(t).active[1]
      BY <2>3, <3>2, <3>3, HighIsTaken
    <3>5. QED
      BY <2>2, <3>4
  <2>6. QED
    BY <2>4, <2>5
<1>2. IInv /\ [Next]_cpu =>
        [\A o \in UsedOverflow :
            Step([op |-> "other"], o) /\ HighWaiting /\ cpu.active[0]
               => cpu'.active[1]]_cpu
  BY <1>1
<1>3. QED
  BY <1>2, Invariance, PTL DEF Spec, InversionLastsOneStep
-----------------------------------------------------------------------------
(***************************************************************************)
(* The refinement of IsrNest.                                              *)
(***************************************************************************)
\* The routines in progress, as levels: one for each return address.
LEMMA NestType ==
  ASSUME NEW c, Good(c)
  PROVE  /\ NestOf(c) \in Seq(Int)
         /\ Len(NestOf(c)) = Len(c.stack)
         /\ \A k \in 1..Len(c.stack) :
               NestOf(c)[k] = IF k = Len(c.stack) THEN c.pc.level
                                                  ELSE c.stack[k+1].level
<1>1. /\ c.stack \in Seq(Context) /\ c.pc \in Context
      /\ Len(c.stack) \in Nat
  BY DEF Good, Cpu
<1>2. /\ Len(Chain(c)) = Len(c.stack) + 1
      /\ Chain(c)[Len(c.stack) + 1] = c.pc
      /\ \A k \in 1..Len(c.stack) : Chain(c)[k] = c.stack[k]
      /\ \A k \in 1..Len(Chain(c)) : Chain(c)[k] \in Context
  BY <1>1 DEF Chain
<1>3. \A k \in 1..Len(c.stack) : Chain(c)[k+1].level \in Int
  BY <1>1, <1>2 DEF Context, Level
<1>4. NestOf(c) \in Seq(Int) /\ Len(NestOf(c)) = Len(c.stack)
  BY <1>1, <1>3 DEF NestOf
<1>5. ASSUME NEW k \in 1..Len(c.stack)
      PROVE  NestOf(c)[k] = IF k = Len(c.stack) THEN c.pc.level
                                                ELSE c.stack[k+1].level
  <2>1. NestOf(c)[k] = Chain(c)[k+1].level
    BY DEF NestOf
  <2>2. CASE k = Len(c.stack)
    BY <1>2, <2>1, <2>2
  <2>3. CASE k # Len(c.stack)
    <3>1. k + 1 \in 1..Len(c.stack)
      BY <1>1, <2>3
    <3>2. QED
      BY <1>2, <2>1, <2>3, <3>1
  <2>4. QED
    BY <2>2, <2>3
<1>6. QED
  BY <1>4, <1>5

\* RETI ends the innermost routine.
LEMMA NestReti ==
  ASSUME NEW c, Good(c), c.stack # <<>>
  PROVE  NestOf(c) # <<>> /\ NestOf(Reti(c)) = Abstract!Outer(NestOf(c))
<1> DEFINE r == Reti(c)
           n == Len(c.stack)
<1>1. c \in Cpu /\ c.stack \in Seq(Context) /\ n \in Nat \ {0}
  BY EmptySeq DEF Good, Cpu
<1>2. r.pc = c.stack[n] /\ r.stack = SubSeq(c.stack, 1, n - 1)
  BY <1>1, RetiFields
<1>3. Len(r.stack) = n - 1 /\ \A k \in 1..(n - 1) : r.stack[k] = c.stack[k]
  BY <1>1, <1>2
<1>4. /\ NestOf(c) \in Seq(Int) /\ Len(NestOf(c)) = n
      /\ \A k \in 1..n : NestOf(c)[k] = IF k = n THEN c.pc.level
                                                 ELSE c.stack[k+1].level
  BY NestType
<1>5. /\ NestOf(r) \in Seq(Int) /\ Len(NestOf(r)) = n - 1
      /\ \A k \in 1..(n - 1) :
            NestOf(r)[k] = IF k = n - 1 THEN r.pc.level ELSE r.stack[k+1].level
  <2>1. Good(r) /\ Len(r.stack) = n - 1
    BY <1>3, RetiGood
  <2> HIDE DEF r, n
  <2> QED
    BY <2>1, NestType
<1>6. /\ Abstract!Outer(NestOf(c)) \in Seq(Int)
      /\ Len(Abstract!Outer(NestOf(c))) = n - 1
      /\ \A k \in 1..(n - 1) : Abstract!Outer(NestOf(c))[k] = NestOf(c)[k]
  BY <1>1, <1>4 DEF Abstract!Outer
<1>7. ASSUME NEW k \in 1..(n - 1)
      PROVE  NestOf(r)[k] = NestOf(c)[k]
  <2>1. k \in 1..n /\ k # n /\ NestOf(c)[k] = c.stack[k+1].level
    BY <1>1, <1>4
  <2>2. CASE k = n - 1
    BY <1>1, <1>2, <1>5, <2>1, <2>2
  <2>3. CASE k # n - 1
    <3>1. k + 1 \in 1..(n - 1)
      BY <1>1, <2>3
    <3>2. QED
      BY <1>3, <1>5, <2>1, <2>3, <3>1
  <2>4. QED
    BY <2>2, <2>3
<1>8. NestOf(r) = Abstract!Outer(NestOf(c))
  BY SMTT(30), <1>5, <1>6, <1>7, SeqEqual
<1>9. NestOf(c) # <<>>
  BY <1>1, <1>4
<1>10. QED
  BY <1>8, <1>9

\* An accepted request enters a routine of a strictly higher level.
LEMMA NestAccept ==
  ASSUME NEW c, Good(c), NEW i \in Source, ~Blocked(c, i)
  PROVE  /\ LevelOf(c, i) \in Level
         /\ Abstract!MayEnter(NestOf(c), LevelOf(c, i))
         /\ NestOf(Accept(c, i)) = Append(NestOf(c), LevelOf(c, i))
<1> DEFINE a == Accept(c, i)
           l == LevelOf(c, i)
           n == Len(c.stack)
<1>1. /\ c \in Cpu /\ c.stack \in Seq(Context) /\ c.pc \in Context /\ n \in Nat
      /\ l \in Level /\ l \in Int
  BY DEF Good, Cpu, LevelOf, Level
<1>2. /\ a.pc = [src |-> i, level |-> l]
      /\ a.stack = Append(c.stack, c.pc)
  BY <1>1, AcceptFields
<1>3. /\ Len(a.stack) = n + 1
      /\ a.stack[n + 1] = c.pc
      /\ \A k \in 1..n : a.stack[k] = c.stack[k]
      /\ a.pc.level = l
  BY <1>1, <1>2
<1>4. /\ NestOf(c) \in Seq(Int) /\ Len(NestOf(c)) = n
      /\ \A k \in 1..n : NestOf(c)[k] = IF k = n THEN c.pc.level
                                                 ELSE c.stack[k+1].level
  BY NestType
<1>5. /\ NestOf(a) \in Seq(Int) /\ Len(NestOf(a)) = n + 1
      /\ \A k \in 1..(n + 1) :
            NestOf(a)[k] = IF k = n + 1 THEN a.pc.level ELSE a.stack[k+1].level
  BY <1>3, AcceptGood, NestType
<1>6. ASSUME NEW k \in 1..(n + 1)
      PROVE  NestOf(a)[k] = Append(NestOf(c), l)[k]
  <2>1. CASE k = n + 1
    <3>1. Append(NestOf(c), l)[k] = l
      BY <1>1, <1>4, <2>1
    <3>2. QED
      BY <1>3, <1>5, <2>1, <3>1
  <2>2. CASE k # n + 1
    <3>1. k \in 1..n
      BY <1>1, <2>2
    <3>2. Append(NestOf(c), l)[k] = NestOf(c)[k]
      BY <1>1, <1>4, <3>1
    <3>3. NestOf(a)[k] = a.stack[k+1].level
      BY <1>5, <2>2
    <3>4. CASE k = n
      BY <1>3, <1>4, <3>1, <3>2, <3>3, <3>4
    <3>5. CASE k # n
      <4>1. k + 1 \in 1..n
        BY <1>1, <3>1, <3>5
      <4>2. QED
        BY <1>3, <1>4, <3>1, <3>2, <3>3, <3>5, <4>1
    <3>6. QED
      BY <3>4, <3>5
  <2>3. QED
    BY <2>1, <2>2
<1>7. NestOf(a) = Append(NestOf(c), l)
  <2>1. Append(NestOf(c), l) \in Seq(Int) /\ Len(Append(NestOf(c), l)) = n + 1
    BY <1>1, <1>4
  <2>2. QED
    BY <1>5, <1>6, <2>1, SeqEqual
<1>8. NestOf(c) = <<>> \/ NestOf(c)[n] < l
  <2>1. CASE Idle(c)
    BY <1>4, <2>1, EmptySeq DEF Idle
  <2>2. CASE OneDeep(c)
    BY <1>1, <1>4, <2>2 DEF OneDeep, Blocked, Level
  <2>3. CASE TwoDeep(c)
    BY <2>3 DEF TwoDeep, Blocked
  <2>4. QED
    BY <2>1, <2>2, <2>3 DEF Good, Shape
<1>9. QED
  BY <1>1, <1>4, <1>7, <1>8 DEF Abstract!MayEnter

\* Nothing but RETI and acceptance touches the nest.
LEMMA NestSame ==
  ASSUME NEW c, NEW d, c.stack = d.stack, c.pc = d.pc
  PROVE  NestOf(c) = NestOf(d)
  BY DEF NestOf, Chain

\* check_irq either changes nothing or enters one routine.
LEMMA NestCheckIrq ==
  ASSUME NEW c, Good(c)
  PROVE  \/ NestOf(CheckIrq(c)) = NestOf(c)
         \/ \E l \in Level : /\ Abstract!MayEnter(NestOf(c), l)
                             /\ NestOf(CheckIrq(c)) = Append(NestOf(c), l)
<1>1. CASE Eligible(c) = {}
  BY <1>1 DEF CheckIrq
<1>2. CASE Eligible(c) # {}
  <2>1. Min(Eligible(c)) \in Eligible(c)
    BY <1>2, MinOfSources DEF Eligible
  <2>2. QED
    BY <1>2, <2>1, NestAccept DEF CheckIrq, Eligible
<1>3. QED
  BY <1>1, <1>2

LEMMA NestInit == Init => Abstract!Init
<1> SUFFICES ASSUME Init PROVE NestOf(cpu) = <<>>
  BY DEF Abstract!Init
<1>1. Good(cpu) /\ Len(cpu.stack) = 0
  BY InitGood DEF Init, IInv, AfterReset
<1>2. QED
  BY <1>1, NestType, EmptySeq

LEMMA NestStep == IInv /\ [Next]_cpu => [Abstract!Next]_(NestOf(cpu))
<1> SUFFICES ASSUME IInv, [Next]_cpu
             PROVE  Abstract!Next \/ NestOf(cpu)' = NestOf(cpu)
  OBVIOUS
<1>1. ASSUME NEW ins \in Instruction, NEW o \in UsedOverflow, Step(ins, o)
      PROVE  Abstract!Next \/ NestOf(cpu)' = NestOf(cpu)
  <2> DEFINE e == Execute(cpu, ins)
             t == Tick(e, o)
  <2>1. Good(cpu) /\ Good(e) /\ Good(t) /\ CanExecute(cpu, ins)
    BY <1>1, ExecuteGood, TickGood DEF IInv, Step, UsedOverflow
  <2>2. NestOf(t) = NestOf(e)
    <3>1. t.stack = e.stack /\ t.pc = e.pc
      BY <2>1 DEF Tick, Good, Cpu
    <3>2. QED
      BY <3>1, NestSame
  <2>3. NestOf(cpu)' = NestOf(CheckIrq(t))
    BY <1>1 DEF Step, NestOf, Chain
  <2>4. \/ NestOf(cpu)' = NestOf(e)
        \/ \E l \in Level : /\ Abstract!MayEnter(NestOf(e), l)
                            /\ NestOf(cpu)' = Append(NestOf(e), l)
    BY <2>1, <2>2, <2>3, NestCheckIrq
  <2>5. CASE ins.op = "reti"
    <3>1. cpu.stack # <<>> /\ e = Reti(cpu)
      BY <2>1, <2>5 DEF CanExecute, Execute
    <3>2. NestOf(cpu) # <<>> /\ NestOf(e) = Abstract!Outer(NestOf(cpu))
      BY <2>1, <3>1, NestReti
    <3>3. QED
      BY <2>4, <3>2 DEF Abstract!Next, Abstract!Leave, Abstract!LeaveAndEnter
  <2>6. CASE ins.op # "reti"
    <3>1. e.stack = cpu.stack /\ e.pc = cpu.pc
      BY <2>1, <2>6, ExecuteFields DEF Good
    <3>2. NestOf(e) = NestOf(cpu)
      BY <3>1, NestSame
    <3>3. QED
      BY <2>4, <3>2 DEF Abstract!Next, Abstract!Enter
  <2>7. QED
    BY <2>5, <2>6
<1>2. CASE RxPush \/ Resume
  <2>1. cpu'.stack = cpu.stack /\ cpu'.pc = cpu.pc
    BY <1>2 DEF RxPush, Resume, IInv, Good, Cpu
  <2>2. QED
    BY <2>1 DEF NestOf, Chain
<1>3. CASE Reset
  <2>1. IInv' /\ Len(cpu'.stack) = 0
    BY <1>3, NextGood DEF Reset, AfterReset, Next
  <2>2. NestOf(cpu') = <<>>
    BY <2>1, NestType, EmptySeq DEF IInv
  <2>3. NestOf(cpu)' = <<>>
    BY <2>2 DEF NestOf, Chain
  <2>4. QED
    BY <2>3 DEF Abstract!Next, Abstract!Clear
<1>4. CASE UNCHANGED cpu
  BY <1>4 DEF NestOf, Chain
<1>5. QED
  BY <1>1, <1>2, <1>3, <1>4 DEF Next

(***************************************************************************)
(* The dispatch of mcs51_cpu_check_irq and op_reti implements the priority *)
(* stack of IsrNest.                                                       *)
(***************************************************************************)
THEOREM Refinement == Spec => ImplementsNest
<1>1. Init => Abstract!Init
  BY NestInit
<1>2. IInv /\ [Next]_cpu => [Abstract!Next]_(NestOf(cpu))
  BY NestStep
<1>3. QED
  BY <1>1, <1>2, Invariance, PTL DEF Spec, ImplementsNest, Abstract!Spec
=============================================================================
