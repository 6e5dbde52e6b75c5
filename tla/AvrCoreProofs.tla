--------------------------- MODULE AvrCoreProofs ---------------------------
(***************************************************************************)
(* Proofs about interrupts on the emulated AVR, for every set of vectors,  *)
(* every tick interval and every nesting depth.                            *)
(***************************************************************************)
EXTENDS AvrCore, AvrExec, FiniteSetTheorems,
    WellFoundedInduction, SequenceTheorems, TLAPS

Core == [state : {"RUNNING", "SLEEPING"}, i : BOOLEAN,
         pending : SUBSET Vectors, accum : 0..TickInterval - 1,
         pc : Routine, stack : Seq(Routine)]

\* Who may be interrupted.
Open2 == Nesting \cup {Main}

\* The return addresses s below routine r.
Nested(s, r) ==
    /\ s \in Seq(Routine)
    /\ r \in Routine
    /\ Len(s) = 0 => r = Main
    /\ Len(s) > 0 => r # Main /\ s[1] = Main
    /\ \A n \in 2..Len(s) : s[n] \in Nesting

\* A core that executes routine r: the flag is set only in a routine that
\* sets it, which is what the invariant of the runs lacks to be inductive.
Good(k, r) ==
    /\ k \in Core
    /\ Nested(k.stack, r)
    /\ k.i => r \in Open2

\* No interrupt waits for longer than the accumulator has counted, and it has
\* counted what Timer0 has not been told.
IInv ==
    /\ TypeOK
    /\ Good(core, Current)
    /\ hist.wait <= CurrentAccum
    /\ hist.untold = CurrentAccum
-----------------------------------------------------------------------------
\* A finite, non-empty set of numbers has a least element: the elements
\* below x, as a set, cannot shrink for ever.
LEMMA MinInSet ==
  ASSUME NEW Nums \in SUBSET Nat, Nums # {}, IsFiniteSet(Nums)
  PROVE  /\ Min(Nums) \in Nums
         /\ \A y \in Nums : Min(Nums) <= y
<1> DEFINE Below(x) == {y \in Nums : y < x}
           Family == {Below(x) : x \in Nums}
<1>1. IsWellFoundedOn(StrictSubsetOrdering(Nums), FiniteSubsetsOf(Nums))
  BY FS_StrictSubsetOrderingWellFounded
<1>2. Family \subseteq FiniteSubsetsOf(Nums) /\ Family # {}
  <2>1. \A x \in Nums : Below(x) \in SUBSET Nums /\ IsFiniteSet(Below(x))
    BY FS_Subset
  <2>2. QED
    BY <2>1 DEF FiniteSubsetsOf
<1>3. PICK x \in Nums : \A y \in Nums : ~(<<Below(y), Below(x)>> \in StrictSubsetOrdering(Nums))
  <2>1. \E least \in Family : \A other \in Family : ~(<<other, least>> \in StrictSubsetOrdering(Nums))
    <3> HIDE DEF Family
    <3>1. QED
      BY <1>1, <1>2, WFMin
  <2>2. QED
    BY <2>1
<1>4. \A y \in Nums : x <= y
  <2>1. SUFFICES ASSUME NEW y \in Nums, y < x
                 PROVE  FALSE
    OBVIOUS
  <2>2. Below(y) \subseteq Below(x) /\ y \in Below(x) /\ y \notin Below(y)
    <3>1. \A z \in Nums : z < y => z < x
      BY <2>1
    <3>2. ~(y < y)
      OBVIOUS
    <3>3. QED
      BY <2>1, <3>1, <3>2
  <2>3. <<Below(y), Below(x)>> \in StrictSubsetOrdering(Nums)
    BY <2>2, Zenon DEF StrictSubsetOrdering
  <2>4. QED
    BY <1>3, <2>3
<1>5. QED
  BY <1>4 DEF Min

LEMMA VectorsAreRoutines == \A v \in Vectors : v \in Routine /\ v # Main
  BY VectorAssumption DEF Routine, Main

\* A routine that may be interrupted becomes a return address, ...
LEMMA NestedAppend ==
  ASSUME NEW s, NEW r \in Open2, NEW v \in Vectors, Nested(s, r)
  PROVE  Nested(Append(s, r), v)
<1> DEFINE t == Append(s, r)
<1>1. s \in Seq(Routine) /\ r \in Routine
  BY DEF Nested
<1>2. /\ t \in Seq(Routine)
      /\ Len(t) = Len(s) + 1
      /\ t[Len(s) + 1] = r
      /\ \A n \in 1..Len(s) : t[n] = s[n]
      /\ Len(s) \in Nat
  BY <1>1
<1> HIDE DEF t
<1>3. v \in Routine /\ v # Main
  BY VectorsAreRoutines
<1>4. t[1] = Main
  BY <1>2 DEF Nested
<1>5. \A n \in 2..Len(t) : t[n] \in Nesting
  <2>1. Len(s) > 0 => r \in Nesting
    BY DEF Nested, Open2
  <2>2. \A n \in 2..Len(s) : t[n] \in Nesting
    BY <1>2 DEF Nested
  <2>3. QED
    BY <1>2, <2>1, <2>2
<1>6. Nested(t, v)
  BY <1>2, <1>3, <1>4, <1>5 DEF Nested
<1>7. QED
  BY <1>6 DEF t

\* ... and RETI takes it up again.
LEMMA NestedFront ==
  ASSUME NEW s, NEW r, Nested(s, r), r # Main
  PROVE  Nested(Front(s), Last(s)) /\ Last(s) \in Open2
<1> DEFINE t == Front(s)
<1>1. s \in Seq(Routine) /\ Len(s) \in Nat /\ Len(s) > 0
  BY DEF Nested
<1>2. /\ t \in Seq(Routine)
      /\ Len(t) = Len(s) - 1
      /\ \A n \in 1..Len(t) : t[n] = s[n]
  <2> DEFINE m == Len(s) - 1
  <2>1. /\ 1 \in Int /\ m \in Int
        /\ \A n \in 1..m : s[n] \in Routine
    BY <1>1
  <2> HIDE DEF m
  <2>2. /\ SubSeq(s, 1, m) \in Seq(Routine)
        /\ Len(SubSeq(s, 1, m)) = IF 1 <= m THEN m - 1 + 1 ELSE 0
        /\ \A n \in 1..m - 1 + 1 : SubSeq(s, 1, m)[n] = s[1 + n - 1]
    BY <2>1, SubSeqProperties
  <2>3. Front(s) = SubSeq(s, 1, m)
    BY DEF Front, m
  <2>4. m \in Nat
    BY <1>1 DEF m
  <2>5. Len(SubSeq(s, 1, m)) = m /\ \A n \in 1..m : SubSeq(s, 1, m)[n] = s[n]
    BY <2>2, <2>4
  <2>6. QED
    BY <2>2, <2>3, <2>5 DEF m
<1> HIDE DEF t
<1>3. Last(s) = s[Len(s)] /\ Last(s) \in Routine
  BY <1>1 DEF Last
<1>4. CASE Len(s) = 1
  BY <1>1, <1>2, <1>3, <1>4 DEF Nested, Open2, t
<1>5. CASE Len(s) > 1
  <2>1. Last(s) \in Nesting
    BY <1>1, <1>3, <1>5 DEF Nested
  <2>2. Last(s) # Main
    BY <2>1, NestingAssumption, VectorsAreRoutines
  <2>3. t[1] = Main /\ Len(t) > 0 /\ \A n \in 2..Len(t) : t[n] \in Nesting
    BY <1>1, <1>2, <1>5 DEF Nested
  <2>4. Nested(t, Last(s))
    BY <1>2, <1>3, <2>2, <2>3 DEF Nested
  <2>5. QED
    BY <2>1, <2>4 DEF Open2, t
<1>6. QED
  BY <1>1, <1>4, <1>5

\* Entering a routine keeps the core good and closes interrupts.
LEMMA CheckIrqGood ==
  ASSUME NEW k, Good(k, k.pc)
  PROVE  /\ Good(CheckIrq(k), CheckIrq(k).pc)
         /\ ~Open(CheckIrq(k))
         /\ CheckIrq(k).accum = k.accum
<1>1. CASE ~Open(k)
  BY <1>1 DEF CheckIrq
<1>2. CASE Open(k)
  <2> DEFINE v == Min(k.pending)
             t == Taken(k, v, k.pending \ {v})
  <2>1. /\ k \in Core /\ k.i /\ k.pending # {} /\ k.pending \subseteq Vectors
        /\ k.pc \in Open2 /\ Nested(k.stack, k.pc)
        /\ k.stack \in Seq(Routine)
    BY <1>2 DEF Open, Good, Core
  <2>2. v \in Vectors
    <3>1. IsFiniteSet(k.pending) /\ k.pending \in SUBSET Nat
      BY <2>1, FS_Subset, VectorAssumption
    <3>2. v \in k.pending
      BY <2>1, <3>1, MinInSet
    <3>3. QED
      BY <2>1, <3>2
  <2>3. v \in Routine /\ v # Main
    BY <2>2, VectorAssumption DEF Routine, Main
  <2>5. /\ t.stack = Append(k.stack, k.pc) /\ t.pc = v /\ t.i = FALSE
        /\ t.accum = k.accum
        /\ t \in Core
    <3>1. k.pc \in Routine /\ k.stack \in Seq(Routine)
      BY <2>1 DEF Core
    <3>2. Append(k.stack, k.pc) \in Seq(Routine)
      BY <3>1
    <3>3. k.pending \ {v} \in SUBSET Vectors
      BY <2>1
    <3>4. QED
      BY <2>1, <2>3, <3>2, <3>3 DEF Taken, Core
  <2>6. Nested(t.stack, v)
    <3> HIDE DEF v, t
    <3>1. Nested(Append(k.stack, k.pc), v)
      BY <2>1, <2>2, NestedAppend
    <3>2. QED
      BY <2>5, <3>1
  <2>7. CheckIrq(k) = t
    BY <1>2 DEF CheckIrq
  <2>8. QED
    BY <2>5, <2>6, <2>7 DEF Good, Open
<1>3. QED
  BY <1>1, <1>2

-----------------------------------------------------------------------------
\* NEXT keeps the invariant, whatever the instruction made of the core: k is good
\* and about to go on in r.
LEMMA RetireKeeps ==
  ASSUME IInv, Executing, NEW k, NEW r, Good(k, r), NEW c \in 1..5, NEW last \in BOOLEAN,
         Retire(k, r, c, last)
  PROVE  IInv'
<1> DEFINE accum == run.accum + c
           due == TickDue(accum)
           stored == Stored(k, r, accum)
           told == IF due THEN stored.accum ELSE 0
<1>1. PICK raised \in SUBSET (IF due THEN Timers \cup Buses ELSE {}) :
        LET k1 == IF due THEN Ticked(stored, raised) ELSE k
            r1 == IF due THEN Reloaded(r, k1) ELSE r
            accum1 == IF due THEN k1.accum ELSE accum
        IN  /\ \/ ~last /\ k1.state = "RUNNING" /\ Continue(k1, r1, accum1)
               \/ Leave(k1, r1, accum1)
            /\ hist' = [wait |-> Waited(k1, c), untold |-> hist.untold + c - told]
  BY DEF Retire
<1> DEFINE k1 == IF due THEN Ticked(stored, raised) ELSE k
           r1 == IF due THEN Reloaded(r, k1) ELSE r
           accum1 == IF due THEN k1.accum ELSE accum
<1>2. /\ core \in Core /\ k \in Core /\ r \in Routine
      /\ hist.wait \in Nat /\ hist.untold = run.accum
      /\ run.accum \in 0..TickInterval - 1 /\ hist.wait <= run.accum
      /\ c \in Nat /\ accum \in Nat
  BY DEF IInv, TypeOK, Good, Nested, Core, CurrentAccum
<1>3. /\ Good(k1, r1)
      /\ due => ~Open(k1) /\ accum1 = 0 /\ told = accum
      /\ ~due => accum1 = accum /\ accum < TickInterval /\ told = 0
  <2>1. CASE due
    <3> DEFINE b == [stored EXCEPT !.accum = 0, !.pending = @ \cup raised]
    <3>1. raised \in SUBSET Vectors
      BY <2>1 DEF Vectors
    <3>2. /\ b \in Core /\ b.pc = r /\ b.stack = k.stack /\ b.i = k.i /\ b.accum = 0
          /\ stored.accum = accum
      <4>1. k.pending \cup raised \in SUBSET Vectors /\ 0 \in 0..TickInterval - 1
        BY <1>2, <3>1, SizeAssumption DEF Core
      <4>2. QED
        BY <1>2, <4>1 DEF Core, Stored
    <3>3. Good(b, b.pc)
      <4> HIDE DEF b
      <4>1. QED
        BY <3>2 DEF Good
    <3>4. k1 = CheckIrq(b) /\ r1 = CheckIrq(b).pc /\ accum1 = CheckIrq(b).accum /\ told = stored.accum
      BY <2>1 DEF Ticked, Reloaded
    <3> HIDE DEF b, stored, told, k1, r1, accum1, accum, due
    <3>5. QED
      BY <2>1, <3>2, <3>3, <3>4, CheckIrqGood
  <2>2. CASE ~due
    <3>1. k1 = k /\ r1 = r /\ accum1 = accum /\ told = 0
      BY <2>2
    <3>2. accum < TickInterval
      BY <1>2, <2>2, SizeAssumption DEF TickDue
    <3> HIDE DEF stored, told, k1, r1, accum1, accum, due
    <3>3. QED
      BY <2>2, <3>1, <3>2
  <2>3. QED
    BY <2>1, <2>2
<1> HIDE DEF due, stored, told, k1, r1, accum1
<1>4. accum1 \in 0..TickInterval - 1
  BY <1>2, <1>3, SizeAssumption
<1>5. /\ Waited(k1, c) \in Nat /\ Waited(k1, c) <= accum1
      /\ hist.untold + c - told = accum1
  <2>1. CASE due
    BY <1>2, <1>3, <2>1 DEF Waited
  <2>2. CASE ~due
    BY <1>2, <1>3, <2>2 DEF Waited
  <2>3. QED
    BY <2>1, <2>2
<1>6. hist' = [wait |-> Waited(k1, c), untold |-> accum1]
  BY <1>1, <1>5 DEF k1, told
<1>7. hist' \in [wait : Nat, untold : Int] /\ hist'.wait <= accum1 /\ hist'.untold = accum1
  BY <1>4, <1>5, <1>6
<1>8. ASSUME Continue(k1, r1, accum1)
      PROVE  IInv'
  <2>1. core' = k1 /\ run' = [at |-> "run", pc |-> r1, accum |-> accum1]
    BY <1>8 DEF Continue
  <2>2. Current' = r1 /\ CurrentAccum' = accum1
    BY <2>1 DEF Current, CurrentAccum, Executing
  <2>3. TypeOK'
    BY <1>3, <1>4, <1>7, <2>1 DEF TypeOK, Good, Core, Nested
  <2>4. QED
    BY <1>3, <1>7, <2>1, <2>2, <2>3 DEF IInv
<1>9. ASSUME Leave(k1, r1, accum1)
       PROVE  IInv'
  <2>1. /\ core' = [k1 EXCEPT !.pc = r1, !.accum = accum1]
        /\ run' = [at |-> "poll", pc |-> r1, accum |-> accum1]
    BY <1>9 DEF Leave, Stored
  <2>2. k1 \in Core /\ r1 \in Routine
    BY <1>3 DEF Good, Nested
  <2>3. /\ core' \in Core /\ core'.pc = r1 /\ core'.stack = k1.stack
        /\ core'.i = k1.i /\ core'.accum = accum1
    BY <1>4, <2>1, <2>2 DEF Core
  <2>4. Current' = r1 /\ CurrentAccum' = accum1 /\ Good(core', Current')
    BY <1>3, <2>1, <2>3 DEF Current, CurrentAccum, Executing, Good
  <2>5. TypeOK'
    BY <1>4, <1>7, <2>1, <2>2, <2>3 DEF TypeOK, Core
  <2>6. QED
    BY <1>7, <2>4, <2>5 DEF IInv
<1>10. Continue(k1, r1, accum1) \/ Leave(k1, r1, accum1)
  BY <1>1 DEF k1, r1, accum1
<1>11. QED
  BY <1>8, <1>9, <1>10
-----------------------------------------------------------------------------
\* One action after the other.
LEMMA InitGood == Init => IInv
<1>1. SUFFICES ASSUME Init
               PROVE  IInv
  OBVIOUS
<1>2. /\ core = [state |-> "RUNNING", i |-> FALSE, pending |-> {}, accum |-> 0,
                 pc |-> Main, stack |-> <<>>]
      /\ run = [at |-> "main", pc |-> Main, accum |-> 0]
      /\ hist = [wait |-> 0, untold |-> 0]
  BY <1>1 DEF Init
<1>3. Main \in Routine /\ 0 \in 0..TickInterval - 1
  BY SizeAssumption DEF Routine
<1>4. core \in Core
  BY <1>2, <1>3 DEF Core
<1>5. Nested(<<>>, Main)
  BY <1>3 DEF Nested
<1>6. Good(core, Current)
  BY <1>2, <1>4, <1>5 DEF Good, Current, Executing
<1>7. TypeOK
  BY <1>2, <1>3, <1>4 DEF TypeOK, Core
<1>8. QED
  BY <1>2, <1>6, <1>7 DEF IInv, CurrentAccum, Executing

LEMMA FirmwareKeeps ==
  ASSUME IInv, Firmware
  PROVE  IInv'
<1>0. 1 \in 1..5 /\ 4 \in 1..5 /\ TRUE \in BOOLEAN /\ FALSE \in BOOLEAN
  OBVIOUS
<1>1. Executing
  BY DEF Firmware, Ordinary, Access, Sei, Cli, Reti, Sleep
<1>2. /\ core \in Core /\ Good(core, run.pc)
      /\ core.stack \in Seq(Routine) /\ run.pc \in Routine
      /\ Nested(core.stack, run.pc)
  BY <1>1 DEF IInv, Current, Good, Nested
<1>3. ASSUME NEW c \in 1..5, Ordinary(c)
      PROVE  IInv'
  BY <1>3, <1>0, <1>1, <1>2, RetireKeeps DEF Ordinary
<1>4. CASE Sei
  <2> DEFINE k == [core EXCEPT !.i = TRUE]
  <2>1. k \in Core /\ k.stack = core.stack
    BY <1>2 DEF Core
  <2>2. run.pc \in Open2
    BY <1>4 DEF Sei, Open2
  <2>3. Retire(k, run.pc, 1, FALSE)
    BY <1>4 DEF Sei
  <2> HIDE DEF k
  <2>4. Good(k, run.pc)
    BY <1>2, <2>1, <2>2 DEF Good
  <2>5. QED
    BY <1>0, <1>1, <2>3, <2>4, RetireKeeps, Zenon
<1>5. CASE Cli
  <2> DEFINE k == [core EXCEPT !.i = FALSE]
  <2>1. k \in Core /\ k.stack = core.stack /\ ~k.i
    BY <1>2 DEF Core
  <2>2. Retire(k, run.pc, 1, FALSE)
    BY <1>5 DEF Cli
  <2> HIDE DEF k
  <2>3. Good(k, run.pc)
    BY <1>2, <2>1 DEF Good
  <2>4. QED
    BY <1>0, <1>1, <2>2, <2>3, RetireKeeps, Zenon
<1>6. CASE Reti
  <2> DEFINE k == [core EXCEPT !.i = TRUE, !.stack = Front(@)]
             r == Last(core.stack)
  <2>1. Nested(Front(core.stack), r) /\ r \in Open2
    BY <1>2, <1>6, NestedFront DEF Reti
  <2>2. Front(core.stack) \in Seq(Routine)
    BY <2>1 DEF Nested
  <2>3. k \in Core /\ k.stack = Front(core.stack)
    BY <1>2, <2>2 DEF Core
  <2>4. Retire(k, r, 4, FALSE)
    BY <1>6 DEF Reti
  <2> HIDE DEF k, r
  <2>5. Good(k, r)
    BY <2>1, <2>3 DEF Good
  <2>6. QED
    BY <1>0, <1>1, <2>4, <2>5, RetireKeeps, Zenon
<1>7. CASE Sleep
  <2> DEFINE k == [core EXCEPT !.state = "SLEEPING"]
  <2>1. k \in Core /\ k.stack = core.stack /\ k.i = core.i
    BY <1>2 DEF Core
  <2>2. Retire(k, run.pc, 1, TRUE)
    BY <1>7 DEF Sleep
  <2> HIDE DEF k
  <2>3. Good(k, run.pc)
    BY <1>2, <2>1 DEF Good
  <2>4. QED
    BY <1>0, <1>1, <2>2, <2>3, RetireKeeps, Zenon
<1>8. ASSUME NEW v \in Hosts, NEW c \in 1..2, Access(v, c)
      PROVE  IInv'
  <2> DEFINE k == [core EXCEPT !.pending = @ \cup {v}]
  <2>1. k \in Core /\ k.stack = core.stack /\ k.i = core.i
    <3>1. core.pending \cup {v} \in SUBSET Vectors
      BY <1>2 DEF Core, Vectors
    <3>2. QED
      BY <1>2, <3>1 DEF Core
  <2>2. Retire(k, run.pc, c, FALSE)
    BY <1>8 DEF Access
  <2>3. c \in 1..5
    OBVIOUS
  <2> HIDE DEF k
  <2>4. Good(k, run.pc)
    BY <1>2, <2>1 DEF Good
  <2>5. QED
    BY <1>0, <1>1, <2>2, <2>4, <2>3, RetireKeeps, Zenon
<1>9. QED
  BY <1>3, <1>4, <1>5, <1>6, <1>7, <1>8 DEF Firmware

\* The main loop has no copies of its own: pc is the core's.
LEMMA MainLoopKeeps ==
  ASSUME IInv, EnterRun \/ Asleep \/ Poll
  PROVE  IInv'
<1>1. /\ run \in [at : {"main", "run", "poll"}, pc : Routine, accum : 0..TickInterval - 1]
      /\ hist \in [wait : Nat, untold : Int]
      /\ core \in Core /\ Good(core, Current)
      /\ hist.wait <= CurrentAccum /\ hist.untold = CurrentAccum
  BY DEF IInv, TypeOK, Core
<1>2. ~Executing /\ Current = core.pc /\ CurrentAccum = core.accum
  BY DEF EnterRun, Asleep, Poll, Executing, Current, CurrentAccum
<1>3. CASE EnterRun
  <2>1. /\ run' = [at |-> "run", pc |-> core.pc, accum |-> core.accum]
        /\ core' = core /\ hist' = hist
    BY <1>3 DEF EnterRun
  <2>2. Current' = core.pc /\ CurrentAccum' = core.accum
    BY <2>1 DEF Current, CurrentAccum, Executing
  <2>3. Good(core', Current')
    BY <1>1, <1>2, <2>1, <2>2
  <2>4. TypeOK'
    BY <1>1, <2>1 DEF TypeOK, Core
  <2>5. QED
    BY <1>1, <1>2, <2>1, <2>2, <2>3, <2>4 DEF IInv
<1>4. CASE Asleep
  <2>1. run' = [run EXCEPT !.at = "poll"] /\ hist' = [hist EXCEPT !.wait = 0]
    BY <1>4 DEF Asleep
  <2>2. /\ run' \in [at : {"main", "run", "poll"}, pc : Routine, accum : 0..TickInterval - 1]
        /\ Current' = core'.pc /\ CurrentAccum' = core'.accum
        /\ hist' \in [wait : Nat, untold : Int] /\ hist'.wait = 0 /\ hist'.untold = core.accum
    BY <1>1, <1>2, <2>1 DEF Current, CurrentAccum, Executing
  <2>3. Good(core', core'.pc) /\ core'.accum = core.accum
    <3>1. CASE CheckIrq(core).state = "RUNNING"
      <4>1. core' = CheckIrq(core)
        BY <1>4, <3>1 DEF Asleep
      <4>2. QED
        BY <1>1, <1>2, <4>1, CheckIrqGood
    <3>2. CASE CheckIrq(core).state # "RUNNING"
      <4>1. PICK raised \in SUBSET Timers : core' = CheckIrq([core EXCEPT !.pending = @ \cup raised])
        BY <1>4, <3>2 DEF Asleep
      <4> DEFINE b == [core EXCEPT !.pending = @ \cup raised]
      <4>2. core.pending \cup raised \in SUBSET Vectors
        BY <1>1 DEF Core, Vectors
      <4>3. /\ b \in Core /\ b.pc = core.pc /\ b.stack = core.stack /\ b.i = core.i
            /\ b.accum = core.accum
        BY <1>1, <4>2 DEF Core
      <4>4. core' = CheckIrq(b)
        BY <4>1
      <4> HIDE DEF b
      <4>5. Good(b, b.pc)
        BY <1>1, <1>2, <4>3 DEF Good
      <4>6. QED
        BY <4>3, <4>4, <4>5, CheckIrqGood
    <3>3. QED
      BY <3>1, <3>2
  <2>4. core' \in Core /\ core'.accum \in Nat
    BY <2>3 DEF Good, Core
  <2>5. TypeOK'
    BY <2>2, <2>3, <2>4 DEF TypeOK, Core
  <2>6. QED
    BY <2>2, <2>3, <2>4, <2>5 DEF IInv
<1>5. CASE Poll
  <2>1. PICK raised \in SUBSET Hosts : core' = [core EXCEPT !.pending = @ \cup raised]
    BY <1>5 DEF Poll
  <2>2. run' = [run EXCEPT !.at = "main"] /\ hist' = hist
    BY <1>5 DEF Poll
  <2>3. core.pending \cup raised \in SUBSET Vectors
    BY <1>1 DEF Core, Vectors
  <2>4. /\ core' \in Core /\ core'.pc = core.pc /\ core'.stack = core.stack
        /\ core'.i = core.i /\ core'.accum = core.accum
    BY <1>1, <2>1, <2>3 DEF Core
  <2>5. Current' = core.pc /\ CurrentAccum' = core.accum
    BY <1>1, <2>2, <2>4 DEF Current, CurrentAccum, Executing
  <2>6. Good(core', Current')
    BY <1>1, <1>2, <2>4, <2>5 DEF Good
  <2>7. TypeOK'
    BY <1>1, <2>2, <2>4 DEF TypeOK, Core
  <2>8. QED
    BY <1>1, <1>2, <2>2, <2>4, <2>5, <2>6, <2>7 DEF IInv
<1>6. QED
  BY <1>3, <1>4, <1>5

LEMMA NextKeeps ==
  ASSUME IInv, [Next]_vars
  PROVE  IInv'
<1>1. CASE Next
  BY <1>1, FirmwareKeeps, MainLoopKeeps DEF Next
<1>2. CASE UNCHANGED vars
  BY <1>2 DEF vars, IInv, TypeOK, Good, Nested, Current, CurrentAccum, Executing
<1>3. QED
  BY <1>1, <1>2

LEMMA Inductive == Spec => []IInv
<1>1. Init => IInv
  BY InitGood
<1>2. IInv /\ [Next]_vars => IInv'
  BY NextKeeps
<1>3. QED
  BY <1>1, <1>2, PTL DEF Spec
-----------------------------------------------------------------------------
(***************************************************************************)
(* The core, the main loop and the register copies stay well-formed.       *)
(***************************************************************************)
THEOREM TypeCorrect == Spec => []TypeOK
<1>1. IInv => TypeOK
  BY DEF IInv
<1>2. QED
  BY <1>1, Inductive, PTL

(***************************************************************************)
(* Whatever the tick interval, no request waits for as long as one         *)
(* interval while interrupts are enabled.                                  *)
(***************************************************************************)
THEOREM LatencyCorrect == Spec => []LatencyBounded
<1>1. IInv => LatencyBounded
  <2>1. ASSUME IInv
        PROVE  LatencyBounded
    <3>1. CurrentAccum \in 0..TickInterval - 1 /\ hist.wait \in Nat
          /\ hist.wait <= CurrentAccum
      BY <2>1 DEF IInv, TypeOK, CurrentAccum
    <3>2. QED
      BY <3>1, SizeAssumption DEF LatencyBounded
  <2>2. QED
    BY <2>1
<1>2. QED
  BY <1>1, Inductive, PTL

(***************************************************************************)
(* The routine in progress and the return addresses agree, and only        *)
(* routines that execute SEI are interrupted, to any depth of nesting.     *)
(***************************************************************************)
THEOREM NestingCorrect == Spec => []NestingMatches
<1>1. IInv => NestingMatches
  <2>1. SUFFICES ASSUME IInv
                 PROVE  NestingMatches
    OBVIOUS
  <2> DEFINE s == core.stack
             r == Current
             chain == Append(s, r)
  <2>2. Nested(s, r)
    BY <2>1 DEF IInv, Good
  <2> HIDE DEF s, r
  <2>3. /\ s \in Seq(Routine) /\ r \in Routine /\ Len(s) \in Nat
        /\ Len(s) = 0 => r = Main
        /\ Len(s) > 0 => r # Main /\ s[1] = Main
        /\ \A n \in 2..Len(s) : s[n] \in Nesting
    BY <2>2 DEF Nested
  <2>4. /\ DOMAIN chain = 1..Len(s) + 1
        /\ chain[Len(s) + 1] = r
        /\ \A n \in 1..Len(s) : chain[n] = s[n]
    BY <2>3
  <2> HIDE DEF chain
  <2>5. \A n \in 2..Len(s) : s[n] # Main
    BY <2>3, NestingAssumption, VectorsAreRoutines
  <2>6. \A n \in DOMAIN chain : chain[n] = Main <=> n = 1
    BY <2>3, <2>4, <2>5
  <2>7. ToSet(s) \subseteq Nesting \cup {Main}
    BY <2>3 DEF ToSet
  <2>8. QED
    BY <2>6, <2>7 DEF NestingMatches, chain, s, r
<1>2. QED
  BY <1>1, Inductive, PTL
-----------------------------------------------------------------------------
(***************************************************************************)
(* Every cycle executed or slept reaches Timer0 once: what it has not been *)
(* told is what the current copy of the accumulator holds, less than an    *)
(* interval, whatever the interval and the length of batches.              *)
(***************************************************************************)
THEOREM TimerToldCorrect == Spec => []TimerToldOnce
<1>1. IInv => TimerToldOnce
  <2>1. ASSUME IInv
        PROVE  TimerToldOnce
    <3>1. CurrentAccum \in 0..TickInterval - 1 /\ hist.untold = CurrentAccum
      BY <2>1 DEF IInv, TypeOK, CurrentAccum
    <3>2. QED
      BY <3>1, SizeAssumption DEF TimerToldOnce
  <2>2. QED
    BY <2>1
<1>2. QED
  BY <1>1, Inductive, PTL
-----------------------------------------------------------------------------
\* Membership in an interval whose bounds are names: the provers enumerate
\* one whose bounds are numerals.
LEMMA Interval ==
    ASSUME NEW a \in Int, NEW b \in Int, NEW v
    PROVE  v \in a..b <=> v \in Int /\ a <= v /\ v <= b
  OBVIOUS

LEMMA ByteIs == \A v : v \in Byte <=> v \in Int /\ 0 <= v /\ v <= 255
  <1>1. MaxByte \in Int
    BY DEF MaxByte
  <1>2. \A v : v \in Byte <=> v \in Int /\ 0 <= v /\ v <= MaxByte
    BY <1>1, Interval DEF Byte
  <1> QED
    BY <1>2 DEF MaxByte

LEMMA WordIs == \A v : v \in Word <=> v \in Int /\ 0 <= v /\ v <= 65535
  <1>1. MaxWord \in Int
    BY DEF MaxWord
  <1>2. \A v : v \in Word <=> v \in Int /\ 0 <= v /\ v <= MaxWord
    BY <1>1, Interval DEF Word
  <1> QED
    BY <1>2 DEF MaxWord

LEMMA MemoryIs ==
    /\ SramStart \in Int /\ 96 <= SramStart /\ SramStart <= 256
    /\ DataSize \in Int /\ SramStart <= DataSize /\ DataSize <= 65535
  BY AvrMemoryAssumption DEF MaxWord

LEMMA AddrIs == \A a : a \in DataAddr <=> a \in Int /\ 0 <= a /\ a < DataSize
  <1>1. DataSize - 1 \in Int /\ DataSize \in Int
    BY MemoryIs
  <1>2. \A a : a \in DataAddr <=> a \in Int /\ 0 <= a /\ a <= DataSize - 1
    BY <1>1, Interval DEF DataAddr
  <1> QED
    BY <1>1, <1>2

\* The uint8_t and uint16_t arithmetic of the code stays in its width.
LEMMA Remainders ==
    /\ \A v \in Int : v % 256 \in Byte /\ v % 65536 \in Word /\ v \div 256 \in Int
    /\ \A v \in Word : v \div 256 \in Byte /\ v \in Nat
    /\ \A v \in Byte : v \in Nat /\ v \in Word
    /\ \A x, y \in Byte : x + 256 * y \in Word /\ 256 * x + y \in Word
    /\ 0 \in Byte /\ 1 \in Byte /\ 255 \in Byte
  BY ByteIs, WordIs

LEMMA LowByte ==
    ASSUME NEW v \in Int
    PROVE  v % 256 \in Byte
  BY Remainders

LEMMA LowWord ==
    ASSUME NEW v \in Int
    PROVE  v % 65536 \in Word
  BY Remainders

LEMMA HighByte ==
    ASSUME NEW v \in Word
    PROVE  v \div 256 \in Byte
  BY Remainders

LEMMA SmallBytes == 0 \in Byte /\ 1 \in Byte /\ 128 \in Byte /\ 192 \in Byte /\ 255 \in Byte /\ 2 \in Byte
  BY ByteIs

LEMMA TwoBytes ==
    ASSUME NEW x \in Byte, NEW y \in Byte
    PROVE  x + 256 * y \in Word /\ 256 * x + y \in Word
  BY Remainders

LEMMA ByteIsNat ==
    ASSUME NEW v \in Byte
    PROVE  v \in Nat /\ v \in Int
  BY Remainders
-----------------------------------------------------------------------------
(***************************************************************************)
(* Bits of a byte.                                                         *)
(***************************************************************************)
\* The eight bits of a number, the powers of two worked out.
LEMMA BitsOfByte ==
    ASSUME NEW v \in Nat
    PROVE  /\ Bit(v, 0) = v % 2         /\ Bit(v, 1) = (v \div 2) % 2
           /\ Bit(v, 2) = (v \div 4) % 2  /\ Bit(v, 3) = (v \div 8) % 2
           /\ Bit(v, 4) = (v \div 16) % 2 /\ Bit(v, 5) = (v \div 32) % 2
           /\ Bit(v, 6) = (v \div 64) % 2 /\ Bit(v, 7) = (v \div 128) % 2
  <1>1. 2^0 = 1 /\ 2^1 = 2 /\ 2^2 = 4 /\ 2^3 = 8 /\ 2^4 = 16 /\ 2^5 = 32 /\ 2^6 = 64 /\ 2^7 = 128
    OBVIOUS
  <1>2. v \div 1 = v
    OBVIOUS
  <1> QED
    BY <1>1, <1>2 DEF Bit, Bits

\* A bit is 0 or 1.
LEMMA BitIsBit ==
    ASSUME NEW v \in Nat, NEW k \in 0..7
    PROVE  Bit(v, k) \in 0..1
  <1>1. k = 0 \/ k = 1 \/ k = 2 \/ k = 3 \/ k = 4 \/ k = 5 \/ k = 6 \/ k = 7
    OBVIOUS
  <1>2. /\ v % 2 \in 0..1 /\ (v \div 2) % 2 \in 0..1 /\ (v \div 4) % 2 \in 0..1
        /\ (v \div 8) % 2 \in 0..1 /\ (v \div 16) % 2 \in 0..1 /\ (v \div 32) % 2 \in 0..1
        /\ (v \div 64) % 2 \in 0..1 /\ (v \div 128) % 2 \in 0..1
    OBVIOUS
  <1>3. /\ Bit(v, 0) \in 0..1 /\ Bit(v, 1) \in 0..1 /\ Bit(v, 2) \in 0..1 /\ Bit(v, 3) \in 0..1
        /\ Bit(v, 4) \in 0..1 /\ Bit(v, 5) \in 0..1 /\ Bit(v, 6) \in 0..1 /\ Bit(v, 7) \in 0..1
    BY <1>2, BitsOfByte
  <1> QED
    BY <1>1, <1>3, Zenon

\* A byte is the sum of its bits.
LEMMA SumOfBits ==
    ASSUME NEW v \in Byte
    PROVE  v = Bit(v, 0) + 2 * Bit(v, 1) + 4 * Bit(v, 2) + 8 * Bit(v, 3)
               + 16 * Bit(v, 4) + 32 * Bit(v, 5) + 64 * Bit(v, 6) + 128 * Bit(v, 7)
  <1>1. v = 2 * (v \div 2) + (v % 2)
    BY ByteIs
  <1>2. v \div 2 = 2 * (v \div 4) + ((v \div 2) % 2)
    BY ByteIs
  <1>3. v \div 4 = 2 * (v \div 8) + ((v \div 4) % 2)
    BY ByteIs
  <1>4. v \div 8 = 2 * (v \div 16) + ((v \div 8) % 2)
    BY ByteIs
  <1>5. v \div 16 = 2 * (v \div 32) + ((v \div 16) % 2)
    BY ByteIs
  <1>6. v \div 32 = 2 * (v \div 64) + ((v \div 32) % 2)
    BY ByteIs
  <1>7. v \div 64 = 2 * (v \div 128) + ((v \div 64) % 2)
    BY ByteIs
  <1>8. v \div 128 = (v \div 128) % 2
    BY ByteIs
  <1>9. v \in Nat
    BY ByteIs
  <1>10. v = (v % 2) + 2 * ((v \div 2) % 2) + 4 * ((v \div 4) % 2) + 8 * ((v \div 8) % 2)
             + 16 * ((v \div 16) % 2) + 32 * ((v \div 32) % 2) + 64 * ((v \div 64) % 2)
             + 128 * ((v \div 128) % 2)
    BY <1>1, <1>2, <1>3, <1>4, <1>5, <1>6, <1>7, <1>8, <1>9
  <1>11. PICK a, b, c, d, e, f, g, h :
              /\ a = v % 2 /\ b = (v \div 2) % 2 /\ c = (v \div 4) % 2 /\ d = (v \div 8) % 2
              /\ e = (v \div 16) % 2 /\ f = (v \div 32) % 2 /\ g = (v \div 64) % 2 /\ h = (v \div 128) % 2
    OBVIOUS
  <1>12. v = a + 2 * b + 4 * c + 8 * d + 16 * e + 32 * f + 64 * g + 128 * h
    BY <1>10, <1>11
  <1>13. /\ Bit(v, 0) = a /\ Bit(v, 1) = b /\ Bit(v, 2) = c /\ Bit(v, 3) = d
         /\ Bit(v, 4) = e /\ Bit(v, 5) = f /\ Bit(v, 6) = g /\ Bit(v, 7) = h
    BY <1>9, <1>11, BitsOfByte, ZenonT(40)
  <1> QED
    BY <1>12, <1>13, ZenonT(40)

\* The bits of a sum of bits are those bits.
LEMMA BitsOfSum ==
    ASSUME NEW a \in 0..1, NEW b \in 0..1, NEW c \in 0..1, NEW d \in 0..1,
           NEW e \in 0..1, NEW f \in 0..1, NEW g \in 0..1, NEW h \in 0..1,
           NEW v, v = a + 2 * b + 4 * c + 8 * d + 16 * e + 32 * f + 64 * g + 128 * h
    PROVE  /\ v \in Byte
           /\ Bit(v, 0) = a /\ Bit(v, 1) = b /\ Bit(v, 2) = c /\ Bit(v, 3) = d
           /\ Bit(v, 4) = e /\ Bit(v, 5) = f /\ Bit(v, 6) = g /\ Bit(v, 7) = h
  <1>1. v \in Byte /\ v \in Nat
    BY ByteIs
  <1>2. v % 2 = a OBVIOUS
  <1>3. (v \div 2) % 2 = b OBVIOUS
  <1>4. (v \div 4) % 2 = c OBVIOUS
  <1>5. (v \div 8) % 2 = d OBVIOUS
  <1>6. (v \div 16) % 2 = e OBVIOUS
  <1>7. (v \div 32) % 2 = f OBVIOUS
  <1>8. (v \div 64) % 2 = g OBVIOUS
  <1>9. (v \div 128) % 2 = h OBVIOUS
  <1>10. Bit(v, 0) = a /\ Bit(v, 1) = b /\ Bit(v, 2) = c /\ Bit(v, 3) = d
    <2>1. /\ Bit(v, 0) = v % 2 /\ Bit(v, 1) = (v \div 2) % 2
          /\ Bit(v, 2) = (v \div 4) % 2 /\ Bit(v, 3) = (v \div 8) % 2
      BY <1>1, BitsOfByte, ZenonT(40)
    <2> QED
      BY <1>2, <1>3, <1>4, <1>5, <2>1, ZenonT(40)
  <1>11. Bit(v, 4) = e /\ Bit(v, 5) = f /\ Bit(v, 6) = g /\ Bit(v, 7) = h
    <2>1. /\ Bit(v, 4) = (v \div 16) % 2 /\ Bit(v, 5) = (v \div 32) % 2
          /\ Bit(v, 6) = (v \div 64) % 2 /\ Bit(v, 7) = (v \div 128) % 2
      BY <1>1, BitsOfByte, ZenonT(40)
    <2> QED
      BY <1>6, <1>7, <1>8, <1>9, <2>1, ZenonT(40)
  <1> QED
    BY <1>1, <1>10, <1>11, ZenonT(40)

\* ByteOf makes a byte with the bits it is given.
LEMMA BitsOfByteOf ==
    ASSUME NEW f, \A k \in 0..7 : f[k] \in 0..1
    PROVE  /\ ByteOf(f) \in Byte
           /\ \A k \in 0..7 : Bit(ByteOf(f), k) = f[k]
  <1>1. /\ f[0] \in 0..1 /\ f[1] \in 0..1 /\ f[2] \in 0..1 /\ f[3] \in 0..1
        /\ f[4] \in 0..1 /\ f[5] \in 0..1 /\ f[6] \in 0..1 /\ f[7] \in 0..1
    OBVIOUS
  <1> DEFINE v == ByteOf(f)
  <1>2. v = f[0] + 2 * f[1] + 4 * f[2] + 8 * f[3] + 16 * f[4] + 32 * f[5] + 64 * f[6] + 128 * f[7]
    BY DEF ByteOf
  <1> HIDE DEF v
  <1>3. /\ v \in Byte
        /\ Bit(v, 0) = f[0] /\ Bit(v, 1) = f[1] /\ Bit(v, 2) = f[2] /\ Bit(v, 3) = f[3]
        /\ Bit(v, 4) = f[4] /\ Bit(v, 5) = f[5] /\ Bit(v, 6) = f[6] /\ Bit(v, 7) = f[7]
    BY <1>1, <1>2, BitsOfSum
  <1>4. \A k \in 0..7 : k = 0 \/ k = 1 \/ k = 2 \/ k = 3 \/ k = 4 \/ k = 5 \/ k = 6 \/ k = 7
    OBVIOUS
  <1>5. v \in Byte /\ \A k \in 0..7 : Bit(v, k) = f[k]
    BY <1>3, <1>4
  <1> QED
    BY <1>5 DEF v

\* The bitwise operations of the code give bytes, bit by bit.
LEMMA AndIsByte ==
    ASSUME NEW x \in Byte, NEW y \in Byte
    PROVE  /\ And(x, y) \in Byte
           /\ \A k \in 0..7 : Bit(And(x, y), k) = Bit(x, k) * Bit(y, k)
  <1> DEFINE f == [k \in 0..7 |-> Bit(x, k) * Bit(y, k)]
  <1>1. x \in Nat /\ y \in Nat
    BY Remainders
  <1>2. \A k \in 0..7 : Bit(x, k) \in 0..1 /\ Bit(y, k) \in 0..1
    BY <1>1, BitIsBit
  <1>3. \A m \in 0..1, n \in 0..1 : m * n \in 0..1
    OBVIOUS
  <1>4. \A k \in 0..7 : f[k] \in 0..1
    BY <1>2, <1>3
  <1>5. ByteOf(f) \in Byte /\ \A k \in 0..7 : Bit(ByteOf(f), k) = f[k]
    <2> HIDE DEF f
    <2> QED BY <1>4, BitsOfByteOf
  <1> QED
    BY <1>5 DEF And

LEMMA OrXorAreBytes ==
    ASSUME NEW x \in Byte, NEW y \in Byte
    PROVE  Or(x, y) \in Byte /\ Xor(x, y) \in Byte
  <1> DEFINE f == [k \in 0..7 |-> IF Bit(x, k) = 1 THEN 1 ELSE Bit(y, k)]
             g == [k \in 0..7 |-> (Bit(x, k) + Bit(y, k)) % 2]
  <1>1. x \in Nat /\ y \in Nat
    BY Remainders
  <1>2. \A k \in 0..7 : Bit(x, k) \in 0..1 /\ Bit(y, k) \in 0..1
    BY <1>1, BitIsBit
  <1>3. \A m \in 0..1, n \in 0..1 : (m + n) % 2 \in 0..1
    OBVIOUS
  <1>4. \A k \in 0..7 : f[k] \in 0..1
    BY <1>2
  <1>5. \A k \in 0..7 : g[k] \in 0..1
    BY <1>2, <1>3
  <1>6. ByteOf(f) \in Byte /\ ByteOf(g) \in Byte
    <2> HIDE DEF f, g
    <2> QED BY <1>4, <1>5, BitsOfByteOf
  <1> QED
    BY <1>6 DEF Or, Xor

\* A single bit of a number of any width.
LEMMA AnyBitIsBit ==
    ASSUME NEW v \in Nat
    PROVE  Bit(v, 15) \in 0..1 /\ Bit(v, 0) \in 0..1 /\ Bit(v, 3) \in 0..1 /\ Bit(v, 7) \in 0..1
  <1>1. 2^15 = 32768 /\ 2^1 = 2 /\ \A w \in Nat : w % 2 \in 0..1 /\ w \div 32768 \in Nat
    OBVIOUS
  <1>2. Bit(v, 15) \in 0..1
    BY <1>1 DEF Bit, Bits
  <1>3. 0 \in 0..7 /\ 3 \in 0..7 /\ 7 \in 0..7
    OBVIOUS
  <1> QED
    BY <1>2, <1>3, BitIsBit

LEMMA TruthIsBit == \A p : Truth(p) \in 0..1
  BY DEF Truth
-----------------------------------------------------------------------------
(***************************************************************************)
(* Storing in the registers, SREG, the memory and the stack.               *)
(***************************************************************************)
Register == {n \in Nat : n <= 31}
PairRegister == {n \in Nat : n <= 30}
IoAddr == {n \in Nat : n <= 63}

\* The addresses of SREG and SP in decimal, which is how the provers compare them.
LEMMA Addresses == SREG = 95 /\ SPL = 93 /\ SPH = 94
  BY DEF SREG, SPL, SPH

\* Registers and the I/O space lie in the data memory of every variant.
LEMMA Places ==
    /\ \A n \in Register : n \in DataAddr
    /\ \A n \in PairRegister : n \in Register /\ n + 1 \in Register
    /\ \A n \in IoAddr : n + 32 \in DataAddr
    /\ SREG \in DataAddr /\ SPL \in DataAddr /\ SPH \in DataAddr
    /\ X \in PairRegister /\ Y \in PairRegister /\ ZReg \in PairRegister
    /\ 0 \in PairRegister /\ 0 \in Register
  BY AddrIs, MemoryIs, Addresses DEF Register, PairRegister, IoAddr, X, Y, ZReg

LEMMA CpuFields ==
    ASSUME NEW c \in Cpu
    PROVE  /\ c.pc \in Word /\ c.sreg \in Byte /\ c.sp \in Word /\ c.cycles \in Nat
           /\ c.state \in {"RUNNING", "SLEEPING", "HALTED", "BREAK"}
           /\ c.data \in [DataAddr -> Byte]
           /\ \A a \in DataAddr : c.data[a] \in Byte
  BY DEF Cpu

LEMMA SetRStays ==
    ASSUME NEW c \in Cpu, NEW n \in DataAddr, NEW v \in Byte
    PROVE  SetR(c, n, v) \in Cpu
  BY DEF Cpu, SetR

LEMMA RIsByte ==
    ASSUME NEW c \in Cpu, NEW n \in Register
    PROVE  R(c, n) \in Byte /\ R(c, n) \in Int
  BY CpuFields, Places, ByteIsNat DEF R

LEMMA RegStays ==
    ASSUME NEW c \in Cpu, NEW n \in Register, NEW v \in Byte
    PROVE  SetR(c, n, v) \in Cpu
  BY SetRStays, Places

LEMMA PairIsWord ==
    ASSUME NEW c \in Cpu, NEW n \in PairRegister
    PROVE  Pair(c, n) \in Word /\ Pair(c, n) \in Int
  <1>1. c.data[n] \in Byte /\ c.data[n + 1] \in Byte
    BY CpuFields, Places
  <1>2. c.data[n] + 256 * c.data[n + 1] \in Word
    BY <1>1, TwoBytes
  <1>3. Pair(c, n) \in Word
    BY <1>2 DEF Pair
  <1> QED
    BY <1>3, WordIs

LEMMA SetPairStays ==
    ASSUME NEW c \in Cpu, NEW n \in PairRegister, NEW v \in Word
    PROVE  SetPair(c, n, v) \in Cpu
  <1>1. v % 256 \in Byte /\ v \div 256 \in Byte
    BY Remainders, WordIs
  <1>2. n \in DataAddr /\ n + 1 \in DataAddr
    BY Places
  <1> DEFINE d == [[c.data EXCEPT ![n] = v % 256] EXCEPT ![n + 1] = v \div 256]
  <1>3. d \in [DataAddr -> Byte]
    BY <1>1, <1>2, CpuFields
  <1>4. SetPair(c, n, v) = [c EXCEPT !.data = d]
    BY ZenonT(60) DEF SetPair, Cpu
  <1> QED
    BY <1>3, <1>4 DEF Cpu

LEMMA PutFlagsStays ==
    ASSUME NEW c \in Cpu, NEW flags \in SUBSET (0..7), NEW row, \A k \in flags : row[k + 1] \in 0..1
    PROVE  /\ PutFlags(c, flags, row) \in Cpu
           /\ PutFlags(c, flags, row) = [c EXCEPT !.sreg = PutFlags(c, flags, row).sreg]
           /\ \A k \in 0..7 : Bit(PutFlags(c, flags, row).sreg, k)
                                = IF k \in flags THEN row[k + 1] ELSE Bit(c.sreg, k)
  <1> DEFINE f == [k \in 0..7 |-> IF k \in flags THEN row[k + 1] ELSE Bit(c.sreg, k)]
  <1>1. c.sreg \in Nat
    BY CpuFields, ByteIsNat
  <1>2. \A k \in 0..7 : f[k] \in 0..1
    BY <1>1, BitIsBit
  <1>3. PutFlags(c, flags, row) = [c EXCEPT !.sreg = ByteOf(f)]
    BY DEF PutFlags
  <1>4. ByteOf(f) \in Byte /\ \A k \in 0..7 : Bit(ByteOf(f), k) = f[k]
    <2> HIDE DEF f
    <2> QED BY <1>2, BitsOfByteOf
  <1>5. \A k \in 0..7 : f[k] = IF k \in flags THEN row[k + 1] ELSE Bit(c.sreg, k)
    OBVIOUS
  <1> HIDE DEF f
  <1> DEFINE s == ByteOf(f)
  <1> HIDE DEF s
  <1>6. PutFlags(c, flags, row) = [c EXCEPT !.sreg = s] /\ s \in Byte
    BY <1>3, <1>4 DEF s
  <1>7. PutFlags(c, flags, row).sreg = s /\ PutFlags(c, flags, row) \in Cpu
    BY <1>6 DEF Cpu
  <1>8. \A k \in 0..7 : Bit(s, k) = f[k]
    BY <1>4 DEF s
  <1>9. \A k \in 0..7 : Bit(PutFlags(c, flags, row).sreg, k) = f[k]
    BY <1>7, <1>8
  <1>10. PutFlags(c, flags, row) = [c EXCEPT !.sreg = PutFlags(c, flags, row).sreg]
    BY <1>6, <1>7
  <1>11. \A k \in 0..7 : Bit(PutFlags(c, flags, row).sreg, k)
                                = IF k \in flags THEN row[k + 1] ELSE Bit(c.sreg, k)
    BY <1>5, <1>9
  <1> QED
    BY <1>7, <1>10, <1>11

LEMMA PutFlagStays ==
    ASSUME NEW c \in Cpu, NEW flag \in 0..7, NEW b \in 0..1
    PROVE  PutFlag(c, flag, b) \in Cpu
  <1> DEFINE f == [k \in 0..7 |-> IF k = flag THEN b ELSE Bit(c.sreg, k)]
  <1>1. c.sreg \in Nat
    BY CpuFields, ByteIsNat
  <1>2. \A k \in 0..7 : f[k] \in 0..1
    BY <1>1, BitIsBit
  <1>3. PutFlag(c, flag, b) = [c EXCEPT !.sreg = ByteOf(f)]
    BY DEF PutFlag
  <1>4. ByteOf(f) \in Byte
    <2> HIDE DEF f
    <2> QED BY <1>2, BitsOfByteOf
  <1> HIDE DEF f
  <1> QED
    BY <1>3, <1>4 DEF Cpu

LEMMA FlagNumbers ==
    /\ C = 0 /\ Z = 1 /\ N = 2 /\ V = 3 /\ S = 4 /\ H = 5 /\ T = 6 /\ I = 7
    /\ C..H = {0, 1, 2, 3, 4, 5} /\ C..S = {0, 1, 2, 3, 4} /\ Z..S = {1, 2, 3, 4}
  BY DEF C, Z, N, V, S, H, T, I

\* The row an operation computes, flag by flag.
LEMMA RowIs ==
    ASSUME NEW carry \in 0..1, NEW zero \in 0..1, NEW neg \in 0..1, NEW over \in 0..1, NEW half \in 0..1
    PROVE  LET row == Row(carry, zero, neg, over, half)
           IN  /\ row[1] = carry /\ row[2] = zero /\ row[3] = neg /\ row[4] = over
               /\ row[5] = Truth(neg # over) /\ row[6] = half
               /\ \A k \in 0..5 : row[k + 1] \in 0..1
  <1> DEFINE row == Row(carry, zero, neg, over, half)
  <1>1. /\ row[1] = carry /\ row[2] = zero /\ row[3] = neg /\ row[4] = over
        /\ row[5] = Truth(neg # over) /\ row[6] = half
    BY DEF Row
  <1> HIDE DEF row
  <1>2. row[5] \in 0..1
    BY <1>1, TruthIsBit
  <1>3. /\ row[0 + 1] \in 0..1 /\ row[1 + 1] \in 0..1 /\ row[2 + 1] \in 0..1 /\ row[3 + 1] \in 0..1
        /\ row[4 + 1] \in 0..1 /\ row[5 + 1] \in 0..1
    BY <1>1, <1>2
  <1>4. \A k \in 0..5 : k = 0 \/ k = 1 \/ k = 2 \/ k = 3 \/ k = 4 \/ k = 5
    OBVIOUS
  <1>5. \A k \in 0..5 : row[k + 1] \in 0..1
    BY <1>3, <1>4
  <1>6. /\ row[1] = carry /\ row[2] = zero /\ row[3] = neg /\ row[4] = over
        /\ row[5] = Truth(neg # over) /\ row[6] = half
        /\ \A k \in 0..5 : row[k + 1] \in 0..1
    BY <1>1, <1>5
  <1> QED
    BY <1>6 DEF row

\* A row of bits put in SREG.
LEMMA RowStays ==
    ASSUME NEW c \in Cpu, NEW flags \in SUBSET (0..5),
           NEW carry \in 0..1, NEW zero \in 0..1, NEW neg \in 0..1, NEW over \in 0..1, NEW half \in 0..1
    PROVE  PutFlags(c, flags, Row(carry, zero, neg, over, half)) \in Cpu
  <1> DEFINE row == Row(carry, zero, neg, over, half)
  <1>1. \A k \in flags : row[k + 1] \in 0..1
    BY RowIs
  <1>2. flags \in SUBSET (0..7)
    OBVIOUS
  <1> HIDE DEF row
  <1>3. PutFlags(c, flags, row) \in Cpu
    BY <1>1, <1>2, PutFlagsStays
  <1> QED
    BY <1>3 DEF row

LEMMA FlagSets == C..H \in SUBSET (0..5) /\ C..S \in SUBSET (0..5) /\ Z..S \in SUBSET (0..5)
                  /\ {C, Z} \in SUBSET (0..5)
  BY FlagNumbers

LEMMA FlagsStay ==
    ASSUME NEW c \in Cpu, NEW x \in Byte, NEW y \in Byte, NEW r \in Byte
    PROVE  /\ FlagsAdd(c, x, y, r) \in Cpu
           /\ \A keepZ : FlagsSub(c, x, y, r, keepZ) \in Cpu
           /\ FlagsLogic(c, r) \in Cpu /\ FlagsInc(c, r) \in Cpu /\ FlagsDec(c, r) \in Cpu
           /\ FlagsShift(c, x, r) \in Cpu
  <1>1. Bit(r, 7) \in 0..1 /\ Bit(x, 0) \in 0..1
    BY ByteIsNat, AnyBitIsBit
  <1>2. /\ CarryAt(3, x, y, r) \in 0..1 /\ CarryAt(7, x, y, r) \in 0..1
        /\ BorrowAt(3, x, y, r) \in 0..1 /\ BorrowAt(7, x, y, r) \in 0..1
    BY TruthIsBit DEF CarryAt, BorrowAt
  <1>3. 0 \in 0..1
    OBVIOUS
  <1>4. FlagsAdd(c, x, y, r) \in Cpu
    BY <1>1, <1>2, TruthIsBit, FlagSets, RowStays DEF FlagsAdd
  <1>5. ASSUME NEW keepZ PROVE FlagsSub(c, x, y, r, keepZ) \in Cpu
    BY <1>1, <1>2, TruthIsBit, FlagSets, RowStays DEF FlagsSub
  <1>6. FlagsLogic(c, r) \in Cpu /\ FlagsInc(c, r) \in Cpu /\ FlagsDec(c, r) \in Cpu
    BY <1>1, <1>3, TruthIsBit, FlagSets, RowStays DEF FlagsLogic, FlagsInc, FlagsDec, FlagsOf
  <1>7. FlagsShift(c, x, r) \in Cpu
    BY <1>1, <1>3, TruthIsBit, FlagSets, RowStays DEF FlagsShift
  <1> QED
    BY <1>4, <1>5, <1>6, <1>7
-----------------------------------------------------------------------------
LEMMA IoReadIsByte ==
    ASSUME NEW c \in Cpu, NEW a \in DataAddr
    PROVE  IoRead(c, a) \in Byte
  <1>1. c.sreg \in Byte /\ c.sp \in Word /\ c.data[a] \in Byte
    BY CpuFields
  <1>2. c.sp % 256 \in Byte /\ c.sp \div 256 \in Byte
    BY <1>1, WordIs, LowByte, HighByte
  <1> QED
    BY <1>1, <1>2 DEF IoRead

LEMMA IoWriteStays ==
    ASSUME NEW c \in Cpu, NEW a \in DataAddr, NEW v \in Byte
    PROVE  IoWrite(c, a, v) \in Cpu
  <1> DEFINE stored == [c EXCEPT !.data[a] = v]
  <1>1. stored \in Cpu
    BY DEF Cpu
  <1>2. stored.sp \in Word
    BY <1>1, CpuFields
  <1>3. /\ (stored.sp - (stored.sp % 256)) + v \in Word
        /\ (stored.sp % 256) + 256 * v \in Word
    BY <1>2, WordIs, ByteIs
  <1>4. IoWrite(c, a, v) = CASE a = SREG -> [stored EXCEPT !.sreg = v]
                             [] a = SPL -> [stored EXCEPT !.sp = (stored.sp - (stored.sp % 256)) + v]
                             [] a = SPH -> [stored EXCEPT !.sp = (stored.sp % 256) + 256 * v]
                             [] OTHER -> stored
    BY DEF IoWrite
  <1> HIDE DEF stored
  <1>5. /\ [stored EXCEPT !.sreg = v] \in Cpu
        /\ [stored EXCEPT !.sp = (stored.sp - (stored.sp % 256)) + v] \in Cpu
        /\ [stored EXCEPT !.sp = (stored.sp % 256) + 256 * v] \in Cpu
    BY <1>1, <1>3 DEF Cpu
  <1> QED
    BY <1>1, <1>4, <1>5, Addresses

\* The data space: registers, the I/O registers with handlers, memory, and
\* nothing beyond it.
LEMMA DataReadIsByte ==
    ASSUME NEW c \in Cpu, NEW a \in Word
    PROVE  DataRead(c, a) \in Byte
  <1> DEFINE io == a \in 32..255 /\ a < SramStart
  <1>1. DataRead(c, a) = CASE io -> IoRead(c, a)
                           [] ~io /\ a < DataSize -> c.data[a]
                           [] a >= DataSize -> 255
    BY DEF DataRead
  <1>2. io => a < SramStart
    OBVIOUS
  <1> HIDE DEF io
  <1>3. io => a \in DataAddr
    BY <1>2, MemoryIs, WordIs, AddrIs
  <1>4. a < DataSize => a \in DataAddr
    BY WordIs, AddrIs
  <1>5. a < DataSize \/ a >= DataSize
    BY MemoryIs, WordIs
  <1>6. io => a < DataSize
    BY <1>2, MemoryIs, WordIs
  <1>7. CASE io
    <2>1. DataRead(c, a) \in {IoRead(c, a), 255}
      BY <1>1, <1>7
    <2> QED
      BY <2>1, <1>7, <1>3, IoReadIsByte, SmallBytes
  <1>8. CASE ~io /\ a < DataSize
    <2>1. DataRead(c, a) \in {c.data[a], 255}
      BY <1>1, <1>8
    <2> QED
      BY <2>1, <1>8, <1>4, CpuFields, SmallBytes
  <1>9. CASE ~io /\ a >= DataSize
    <2>1. ~(a < DataSize)
      BY <1>9, MemoryIs, WordIs
    <2>2. DataRead(c, a) = 255
      BY <1>1, <1>9, <2>1
    <2> QED
      BY <2>2, SmallBytes
  <1> QED
    BY <1>5, <1>7, <1>8, <1>9

LEMMA DataWriteStays ==
    ASSUME NEW c \in Cpu, NEW a \in Word, NEW v \in Byte
    PROVE  DataWrite(c, a, v) \in Cpu
  <1> DEFINE io == a \in 32..255 /\ a < SramStart
  <1>1. DataWrite(c, a, v) = CASE io -> IoWrite(c, a, v)
                               [] ~io /\ a < DataSize -> [c EXCEPT !.data[a] = v]
                               [] a >= DataSize -> c
    BY DEF DataWrite
  <1>2. io => a < SramStart
    OBVIOUS
  <1> HIDE DEF io
  <1>3. io => a \in DataAddr
    BY <1>2, MemoryIs, WordIs, AddrIs
  <1>4. a < DataSize => a \in DataAddr
    BY WordIs, AddrIs
  <1>5. a < DataSize \/ a >= DataSize
    BY MemoryIs, WordIs
  <1>7. CASE io
    <2>1. DataWrite(c, a, v) \in {IoWrite(c, a, v), c}
      BY <1>1, <1>7
    <2> QED
      BY <2>1, <1>7, <1>3, IoWriteStays
  <1>8. CASE ~io /\ a < DataSize
    <2>1. DataWrite(c, a, v) \in {SetR(c, a, v), c}
      BY <1>1, <1>8 DEF SetR
    <2> QED
      BY <2>1, <1>8, <1>4, SetRStays
  <1>9. CASE ~io /\ a >= DataSize
    <2>1. ~(a < DataSize)
      BY <1>9, MemoryIs, WordIs
    <2>2. DataWrite(c, a, v) = c
      BY <1>1, <1>9, <2>1
    <2> QED
      BY <2>2
  <1> QED
    BY <1>5, <1>7, <1>8, <1>9

LEMMA MoveSpStays ==
    ASSUME NEW c \in Cpu, NEW sp \in Word
    PROVE  MoveSp(c, sp) \in Cpu
  <1>1. sp % 256 \in Byte /\ sp \div 256 \in Byte
    BY Remainders, WordIs
  <1> DEFINE d == [[c.data EXCEPT ![SPL] = sp % 256] EXCEPT ![SPH] = sp \div 256]
  <1>2. d \in [DataAddr -> Byte]
    BY <1>1, CpuFields, Places
  <1>3. MoveSp(c, sp) = [c EXCEPT !.sp = sp, !.data = d]
    BY ZenonT(60) DEF MoveSp
  <1> HIDE DEF d
  <1> QED
    BY <1>2, <1>3 DEF Cpu

LEMMA StackStays ==
    ASSUME NEW c \in Cpu
    PROVE  /\ \A v \in Byte : Push(c, v) \in Cpu
           /\ Popped(c) \in Cpu /\ Top(c) \in Byte
  <1>1. (c.sp - 1) % 65536 \in Word /\ (c.sp + 1) % 65536 \in Word
    BY CpuFields, WordIs, LowWord
  <1>2. Popped(c) \in Cpu
    BY <1>1, MoveSpStays DEF Popped
  <1>3. ASSUME NEW v \in Byte PROVE Push(c, v) \in Cpu
    <2> DEFINE stored == IF c.sp >= SramStart /\ c.sp < DataSize THEN [c EXCEPT !.data[c.sp] = v] ELSE c
    <2>1. [c EXCEPT !.data[c.sp] = v] \in Cpu
      BY DEF Cpu
    <2>2. stored \in Cpu
      BY <2>1
    <2> HIDE DEF stored
    <2>3. MoveSp(stored, (c.sp - 1) % 65536) \in Cpu
      BY <1>1, <2>2, MoveSpStays
    <2> QED
      BY <2>3 DEF Push, stored
  <1>4. Top(c) \in Byte
    <2> DEFINE sp == (c.sp + 1) % 65536
    <2>1. sp < DataSize => sp \in DataAddr
      BY <1>1, WordIs, AddrIs
    <2>2. Top(c) = IF sp < DataSize THEN Popped(c).data[sp] ELSE 255
      BY DEF Top
    <2> HIDE DEF sp
    <2> QED
      BY <2>1, <2>2, <1>2, CpuFields, SmallBytes
  <1> QED
    BY <1>2, <1>3, <1>4

LEMMA PushPcStays ==
    ASSUME NEW c \in Cpu, NEW pc \in Nat
    PROVE  PushPc(c, pc) \in Cpu
  <1>1. pc \in Int /\ pc \div 256 \in Int
    OBVIOUS
  <1>2. pc % 256 \in Byte /\ (pc \div 256) % 256 \in Byte
    BY <1>1, LowByte
  <1> QED
    BY <1>2, StackStays DEF PushPc

LEMMA PopPcStays ==
    ASSUME NEW c \in Cpu
    PROVE  PopPc(c) \in Cpu
  <1>1. Popped(c) \in Cpu /\ Top(c) \in Byte
    BY StackStays
  <1>2. Popped(Popped(c)) \in Cpu /\ Top(Popped(c)) \in Byte
    BY <1>1, StackStays
  <1>3. 256 * Top(c) + Top(Popped(c)) \in Word
    BY <1>1, <1>2, TwoBytes
  <1> QED
    BY <1>2, <1>3 DEF PopPc, Cpu

LEMMA GoneStays ==
    ASSUME NEW c \in Cpu, NEW pc \in Word, NEW cycles \in Nat
    PROVE  [c EXCEPT !.pc = pc, !.cycles = cycles] \in Cpu
  BY DEF Cpu

LEMMA DoneStays ==
    ASSUME NEW c \in Cpu, NEW words \in Nat, NEW cost \in Nat
    PROVE  Done(c, words, cost) \in Cpu
  <1>1. c.pc + words \in Int /\ c.cycles + cost \in Nat
    BY CpuFields, WordIs
  <1> DEFINE pc == (c.pc + words) % 65536
             cycles == c.cycles + cost
  <1>2. pc \in Word /\ cycles \in Nat
    BY <1>1, LowWord
  <1>3. Done(c, words, cost) = [c EXCEPT !.pc = pc, !.cycles = cycles]
    BY DEF Done
  <1> HIDE DEF pc, cycles
  <1> QED
    BY <1>2, <1>3, GoneStays

LEMMA GotoStays ==
    ASSUME NEW c \in Cpu, NEW pc \in Word, NEW cost \in Nat
    PROVE  Goto(c, pc, cost) \in Cpu
  <1>1. c.cycles + cost \in Nat
    BY CpuFields
  <1> DEFINE cycles == c.cycles + cost
  <1>2. Goto(c, pc, cost) = [c EXCEPT !.pc = pc, !.cycles = cycles]
    BY DEF Goto
  <1> HIDE DEF cycles
  <1> QED
    BY <1>1, <1>2, GoneStays DEF cycles

\* The costs and the lengths of instructions.
LEMMA Costs == 0 \in Nat /\ 1 \in Nat /\ 2 \in Nat /\ 3 \in Nat /\ 4 \in Nat /\ 5 \in Nat
  OBVIOUS

LEMMA FlashByteIsByte ==
    ASSUME NEW a \in Word, prog \in Programs
    PROVE  FlashByte(a) \in Byte
  <1>1. CASE a \div 2 \in DOMAIN prog.flash
    <2>0. prog.flash[a \div 2] \in Word
      BY <1>1, AvrProgramsAssumption, Zenon
    <2>1. prog.flash[a \div 2] \in Nat
      BY <2>0, WordIs
    <2>2. a % 2 = 0 \/ a % 2 = 1
      BY WordIs
    <2>3. 8 * (a % 2) = 0 \/ 8 * (a % 2) = 8
      BY <2>2
    <2>4. 2^0 = 1 /\ 2^8 = 256
      OBVIOUS
    <2> DEFINE w == prog.flash[a \div 2]
    <2>5. FlashByte(a) = Bits(w, 8 * (a % 2), 8)
      BY <1>1 DEF FlashByte
    <2> HIDE DEF w
    <2>6. w \in Nat
      BY <2>1 DEF w
    <2>7. w \div 1 \in Int /\ w \div 256 \in Int
      BY <2>6
    <2>8. Bits(w, 0, 8) \in Byte /\ Bits(w, 8, 8) \in Byte
      BY <2>4, <2>7, LowByte DEF Bits
    <2> QED
      BY <2>3, <2>5, <2>8
  <1>2. CASE a \div 2 \notin DOMAIN prog.flash
    BY <1>2, SmallBytes DEF FlashByte
  <1> QED
    BY <1>1, <1>2
-----------------------------------------------------------------------------
(***************************************************************************)
(* The predecoded instructions, by the kinds of operands they have.        *)
(***************************************************************************)
TwoRegisterOp == {"ADD", "ADC", "SUB", "SBC", "CP", "CPC", "AND", "OR", "EOR", "MOV", "MUL", "MULS",
                  "MULSU", "FMUL", "FMULS", "FMULSU", "CPSE"}
ImmediateOp == {"SUBI", "SBCI", "CPI", "ANDI", "ORI", "LDI"}
FusedLoopOp == {"SUBI_BRNE", "DELAY2", "DELAY3", "DEC_BRNE"}
OneRegisterOp == {"COM", "NEG", "SWAP", "INC", "DEC", "ASR", "LSR", "ROR", "PUSH", "POP", "LPM_RD", "LPM_RDP",
                  "LD_X", "LD_XP", "LD_MX", "LD_YP", "LD_MY", "LD_ZP", "LD_MZ",
                  "ST_X", "ST_XP", "ST_MX", "ST_YP", "ST_MY", "ST_ZP", "ST_MZ"}
IndexedOp == {"LDD_Y", "LDD_Z", "STD_Y", "STD_Z"}
WordOp == {"ADIW", "SBIW"}
PortOp == {"IN", "OUT"}
PortBitOp == {"CBI", "SBI", "SBIC", "SBIS"}
RegisterBitOp == {"BLD", "BST", "SBRC", "SBRS"}
FlagOp == {"BSET", "BCLR", "BRBS", "BRBC"}
DirectOp == {"LDS", "STS"}
TargetOp == {"RJMP", "RCALL", "JMP", "CALL"}
BareOp == {"NOP", "RET", "RETI", "SLEEP", "BREAK", "WDR", "LPM_R0", "SPM", "IJMP", "ICALL", "DATA", "FAULT"}

\* What predecoding makes.
Instruction ==
         [op : TwoRegisterOp, a : Register, b : Register]
    \cup [op : {"MOVW"}, a : PairRegister, b : PairRegister]
    \cup [op : ImmediateOp, a : Register, b : Byte]
    \cup [op : OneRegisterOp, a : Register, b : {0}]
    \cup [op : IndexedOp, a : Register, b : IoAddr]
    \cup [op : WordOp, a : PairRegister, b : IoAddr]
    \cup [op : PortOp, a : Register, b : IoAddr]
    \cup [op : PortBitOp, a : IoAddr, b : Byte]
    \cup [op : RegisterBitOp, a : Register, b : Byte]
    \cup [op : FlagOp, a : Byte, b : Word]
    \cup [op : DirectOp, a : Register, b : Word]
    \cup [op : TargetOp, a : {0}, b : Word]
    \cup [op : BareOp, a : Register, b : {0}]

\* The operands of an instruction, from its operation.
LEMMA Operands ==
    ASSUME NEW d \in Instruction
    PROVE  /\ d.op \in TwoRegisterOp => d.a \in Register /\ d.b \in Register
           /\ d.op = "MOVW" => d.a \in PairRegister /\ d.b \in PairRegister
           /\ d.op \in ImmediateOp => d.a \in Register /\ d.b \in Byte
           /\ d.op \in OneRegisterOp => d.a \in Register /\ d.b = 0
           /\ d.op \in IndexedOp => d.a \in Register /\ d.b \in IoAddr
           /\ d.op \in WordOp => d.a \in PairRegister /\ d.b \in IoAddr
           /\ d.op \in PortOp => d.a \in Register /\ d.b \in IoAddr
           /\ d.op \in PortBitOp => d.a \in IoAddr /\ d.b \in Byte
           /\ d.op \in RegisterBitOp => d.a \in Register /\ d.b \in Byte
           /\ d.op \in FlagOp => d.a \in Byte /\ d.b \in Word
           /\ d.op \in DirectOp => d.a \in Register /\ d.b \in Word
           /\ d.op \in TargetOp => d.b \in Word
           /\ d.op \notin FusedLoopOp
  <1> USE DEF TwoRegisterOp, ImmediateOp, FusedLoopOp, OneRegisterOp, IndexedOp, WordOp, PortOp, PortBitOp,
              RegisterBitOp, FlagOp, DirectOp, TargetOp, BareOp
  <1>1. CASE d \in [op : TwoRegisterOp, a : Register, b : Register] BY <1>1
  <1>2. CASE d \in [op : {"MOVW"}, a : PairRegister, b : PairRegister] BY <1>2
  <1>3. CASE d \in [op : ImmediateOp, a : Register, b : Byte] BY <1>3
  <1>4. CASE d \in [op : OneRegisterOp, a : Register, b : {0}] BY <1>4
  <1>5. CASE d \in [op : IndexedOp, a : Register, b : IoAddr] BY <1>5
  <1>6. CASE d \in [op : WordOp, a : PairRegister, b : IoAddr] BY <1>6
  <1>7. CASE d \in [op : PortOp, a : Register, b : IoAddr] BY <1>7
  <1>8. CASE d \in [op : PortBitOp, a : IoAddr, b : Byte] BY <1>8
  <1>9. CASE d \in [op : RegisterBitOp, a : Register, b : Byte] BY <1>9
  <1>10. CASE d \in [op : FlagOp, a : Byte, b : Word] BY <1>10
  <1>11. CASE d \in [op : DirectOp, a : Register, b : Word] BY <1>11
  <1>12. CASE d \in [op : TargetOp, a : {0}, b : Word] BY <1>12
  <1>13. CASE d \in [op : BareOp, a : Register, b : {0}] BY <1>13
  <1> QED
    BY <1>1, <1>2, <1>3, <1>4, <1>5, <1>6, <1>7, <1>8, <1>9, <1>10, <1>11, <1>12, <1>13, Zenon DEF Instruction
-----------------------------------------------------------------------------
(***************************************************************************)
(* Every handler on a core gives a core.                                   *)
(***************************************************************************)
LEMMA AddStays ==
    ASSUME NEW c \in Cpu, NEW d \in Instruction, d.op \in {"ADD", "ADC"}
    PROVE  Add(c, d) \in Cpu
  <1> DEFINE x == R(c, d.a)
             y == R(c, d.b)
             n == Truth(d.op = "ADC" /\ On(c, C))
             r == (x + y + n) % 256
  <1>1. d.a \in Register /\ d.b \in Register
    BY Operands DEF TwoRegisterOp
  <1>2. x \in Byte /\ y \in Byte /\ x \in Int /\ y \in Int
    BY <1>1, RIsByte
  <1>3. n \in Int
    BY DEF Truth
  <1>4. Add(c, d) = Done(FlagsAdd(SetR(c, d.a, r), x, y, r), 1, 1)
    BY DEF Add
  <1> HIDE DEF x, y, n
  <1>5. r \in Byte
    BY <1>2, <1>3, LowByte
  <1> HIDE DEF r
  <1>6. FlagsAdd(SetR(c, d.a, r), x, y, r) \in Cpu
    BY <1>1, <1>2, <1>5, RegStays, FlagsStay
  <1> QED
    BY <1>4, <1>6, Costs, DoneStays

LEMMA SubtractStays ==
    ASSUME NEW c \in Cpu, NEW d \in Instruction, d.op \in {"SUB", "SBC", "CP", "CPC", "SUBI", "SBCI", "CPI"}
    PROVE  Subtract(c, d) \in Cpu
  <1> DEFINE x == R(c, d.a)
             y == IF d.op \in {"SUBI", "SBCI", "CPI"} THEN d.b ELSE R(c, d.b)
             withCarry == d.op \in {"SBC", "SBCI", "CPC"}
             n == Truth(withCarry /\ On(c, C))
             r == (x - y - n) % 256
             kept == IF d.op \in {"CP", "CPC", "CPI"} THEN c ELSE SetR(c, d.a, r)
  <1>1. /\ d.a \in Register
        /\ d.op \in {"SUBI", "SBCI", "CPI"} => d.b \in Byte
        /\ d.op \notin {"SUBI", "SBCI", "CPI"} => d.b \in Register
    BY Operands DEF TwoRegisterOp, ImmediateOp
  <1>2. x \in Byte /\ y \in Byte
    BY <1>1, RIsByte
  <1>3. n \in Int
    BY DEF Truth
  <1>4. Subtract(c, d) = Done(FlagsSub(kept, x, y, r, withCarry), 1, 1)
    BY DEF Subtract
  <1>5. kept = c \/ kept = SetR(c, d.a, r)
    OBVIOUS
  <1> HIDE DEF x, y, n, withCarry, kept
  <1>6. r \in Byte
    BY <1>2, <1>3, LowByte, ByteIsNat
  <1> HIDE DEF r
  <1>7. kept \in Cpu
    BY <1>1, <1>5, <1>6, RegStays
  <1>8. FlagsSub(kept, x, y, r, withCarry) \in Cpu
    BY <1>2, <1>6, <1>7, FlagsStay
  <1> QED
    BY <1>4, <1>8, Costs, DoneStays

LEMMA LogicStays ==
    ASSUME NEW c \in Cpu, NEW d \in Instruction, d.op \in {"AND", "OR", "EOR", "ANDI", "ORI"}
    PROVE  Logic(c, d) \in Cpu
  <1> DEFINE x == R(c, d.a)
             y == IF d.op \in {"ANDI", "ORI"} THEN d.b ELSE R(c, d.b)
             r == CASE d.op \in {"AND", "ANDI"} -> And(x, y)
                    [] d.op \in {"OR", "ORI"} -> Or(x, y)
                    [] d.op = "EOR" -> Xor(x, y)
  <1>1. /\ d.a \in Register
        /\ d.op \in {"ANDI", "ORI"} => d.b \in Byte
        /\ d.op \notin {"ANDI", "ORI"} => d.b \in Register
    BY Operands DEF TwoRegisterOp, ImmediateOp
  <1>2. x \in Byte /\ y \in Byte
    BY <1>1, RIsByte
  <1>3. Logic(c, d) = Done(FlagsLogic(SetR(c, d.a, r), r), 1, 1)
    BY DEF Logic
  <1>4. r \in {And(x, y), Or(x, y), Xor(x, y)}
    <2> HIDE DEF x, y
    <2> QED OBVIOUS
  <1> HIDE DEF x, y, r
  <1>5. r \in Byte
    BY <1>2, <1>4, AndIsByte, OrXorAreBytes
  <1>6. FlagsLogic(SetR(c, d.a, r), r) \in Cpu
    BY <1>1, <1>5, RegStays, FlagsStay
  <1> QED
    BY <1>3, <1>6, Costs, DoneStays

LEMMA OneRegisterStays ==
    ASSUME NEW c \in Cpu, NEW d \in Instruction, d.op \in OneRegisterOp
    PROVE  Com(c, d) \in Cpu /\ Neg(c, d) \in Cpu /\ Swap(c, d) \in Cpu /\ Inc(c, d) \in Cpu /\ Dec(c, d) \in Cpu
  <1> DEFINE x == R(c, d.a)
  <1>1. d.a \in Register
    BY Operands
  <1>2. x \in Byte /\ x \in Int
    BY <1>1, RIsByte
  <1>3. C \in 0..7
    BY FlagNumbers
  <1>4. Com(c, d) \in Cpu
    <2> DEFINE r == 255 - x
    <2>1. r \in Byte
      BY <1>2, ByteIs
    <2>2. Com(c, d) = Done(PutFlag(FlagsLogic(SetR(c, d.a, r), r), C, 1), 1, 1)
      BY DEF Com
    <2> HIDE DEF r
    <2>3. FlagsLogic(SetR(c, d.a, r), r) \in Cpu
      BY <1>1, <2>1, RegStays, FlagsStay
    <2>4. 1 \in 0..1
      OBVIOUS
    <2>5. PutFlag(FlagsLogic(SetR(c, d.a, r), r), C, 1) \in Cpu
      BY <1>3, <2>3, <2>4, PutFlagStays
    <2> QED
      BY <2>2, <2>5, Costs, DoneStays
  <1>5. Neg(c, d) \in Cpu
    <2> DEFINE r == (0 - x) % 256
    <2>1. r \in Byte
      BY <1>2, LowByte
    <2>2. Neg(c, d) = Done(PutFlag(FlagsSub(SetR(c, d.a, r), 0, x, r, FALSE), C, Truth(r # 0)), 1, 1)
      BY DEF Neg
    <2> HIDE DEF r, x
    <2>3. FlagsSub(SetR(c, d.a, r), 0, x, r, FALSE) \in Cpu
      BY <1>1, <1>2, <2>1, SmallBytes, RegStays, FlagsStay
    <2>4. PutFlag(FlagsSub(SetR(c, d.a, r), 0, x, r, FALSE), C, Truth(r # 0)) \in Cpu
      BY <1>3, <2>3, TruthIsBit, PutFlagStays
    <2> QED
      BY <2>2, <2>4, Costs, DoneStays
  <1>6. Swap(c, d) \in Cpu
    <2> DEFINE r == 16 * (x % 16) + (x \div 16)
    <2>1. r \in Byte
      BY <1>2, ByteIs
    <2>2. Swap(c, d) = Done(SetR(c, d.a, r), 1, 1)
      BY DEF Swap
    <2> HIDE DEF r
    <2> QED
      BY <1>1, <2>1, <2>2, RegStays, Costs, DoneStays
  <1>7. Inc(c, d) \in Cpu
    <2> DEFINE r == (x + 1) % 256
    <2>1. r \in Byte
      BY <1>2, LowByte
    <2>2. Inc(c, d) = Done(FlagsInc(SetR(c, d.a, r), r), 1, 1)
      BY DEF Inc
    <2> HIDE DEF r
    <2>3. FlagsInc(SetR(c, d.a, r), r) \in Cpu
      BY <1>1, <2>1, RegStays, FlagsStay
    <2> QED
      BY <2>2, <2>3, Costs, DoneStays
  <1>8. Dec(c, d) \in Cpu
    <2> DEFINE r == (x - 1) % 256
    <2>1. r \in Byte
      BY <1>2, LowByte
    <2>2. Dec(c, d) = Done(FlagsDec(SetR(c, d.a, r), r), 1, 1)
      BY DEF Dec
    <2> HIDE DEF r
    <2>3. FlagsDec(SetR(c, d.a, r), r) \in Cpu
      BY <1>1, <2>1, RegStays, FlagsStay
    <2> QED
      BY <2>2, <2>3, Costs, DoneStays
  <1> QED
    BY <1>4, <1>5, <1>6, <1>7, <1>8

LEMMA ShiftStays ==
    ASSUME NEW c \in Cpu, NEW d \in Instruction, d.op \in {"ASR", "LSR", "ROR"}
    PROVE  Shift(c, d) \in Cpu
  <1> DEFINE x == R(c, d.a)
             in == CASE d.op = "ASR" -> Bit(x, 7) [] d.op = "LSR" -> 0 [] d.op = "ROR" -> Bit(c.sreg, C)
             r == (x \div 2) + 128 * in
  <1>1. d.a \in Register
    BY Operands DEF OneRegisterOp
  <1>2. x \in Byte
    BY <1>1, RIsByte
  <1>3. Shift(c, d) = Done(FlagsShift(SetR(c, d.a, r), x, r), 1, 1)
    BY DEF Shift
  <1>4. in \in {Bit(x, 7), 0, Bit(c.sreg, C)}
    <2> HIDE DEF x
    <2> QED OBVIOUS
  <1>5. Bit(x, 7) \in 0..1 /\ Bit(c.sreg, C) \in 0..1
    BY <1>2, CpuFields, ByteIsNat, AnyBitIsBit, FlagNumbers
  <1> HIDE DEF x, in
  <1>6. in = 0 \/ in = 1
    BY <1>4, <1>5
  <1>7. r \in Byte
    BY <1>2, <1>6, ByteIs
  <1> HIDE DEF r
  <1>8. FlagsShift(SetR(c, d.a, r), x, r) \in Cpu
    BY <1>1, <1>2, <1>7, RegStays, FlagsStay
  <1> QED
    BY <1>3, <1>8, Costs, DoneStays

LEMMA MoveStays ==
    ASSUME NEW c \in Cpu, NEW d \in Instruction, d.op \in {"LDI", "MOV", "MOVW"}
    PROVE  Move(c, d) \in Cpu
  <1> DEFINE m == CASE d.op = "LDI" -> SetR(c, d.a, d.b)
                    [] d.op = "MOV" -> SetR(c, d.a, R(c, d.b))
                    [] d.op = "MOVW" -> SetPair(c, d.a, Pair(c, d.b))
  <1>1. Move(c, d) = Done(m, 1, 1)
    BY DEF Move
  <1>2. CASE d.op = "LDI"
    <2>1. d.a \in Register /\ d.b \in Byte
      BY <1>2, Operands DEF ImmediateOp
    <2>2. m = SetR(c, d.a, d.b)
      BY <1>2
    <2> HIDE DEF m
    <2> QED
      BY <1>1, <2>1, <2>2, RegStays, Costs, DoneStays
  <1>3. CASE d.op = "MOV"
    <2>1. d.a \in Register /\ d.b \in Register
      BY <1>3, Operands DEF TwoRegisterOp
    <2>2. m = SetR(c, d.a, R(c, d.b))
      BY <1>3
    <2> HIDE DEF m
    <2> QED
      BY <1>1, <2>1, <2>2, RIsByte, RegStays, Costs, DoneStays
  <1>4. CASE d.op = "MOVW"
    <2>1. d.a \in PairRegister /\ d.b \in PairRegister
      BY <1>4, Operands
    <2>2. m = SetPair(c, d.a, Pair(c, d.b))
      BY <1>4
    <2> HIDE DEF m
    <2> QED
      BY <1>1, <2>1, <2>2, PairIsWord, SetPairStays, Costs, DoneStays
  <1> QED
    BY <1>2, <1>3, <1>4

LEMMA AddWordStays ==
    ASSUME NEW c \in Cpu, NEW d \in Instruction, d.op \in {"ADIW", "SBIW"}
    PROVE  AddWord(c, d) \in Cpu
  <1> DEFINE x == Pair(c, d.a)
             sum == IF d.op = "ADIW" THEN x + d.b ELSE x - d.b
             r == sum % 65536
             fell == Truth(Bit(r, 15) = 0 /\ Bit(x, 15) = 1)
             rose == Truth(Bit(r, 15) = 1 /\ Bit(x, 15) = 0)
             carry == IF d.op = "ADIW" THEN fell ELSE rose
             over == IF d.op = "ADIW" THEN rose ELSE fell
  <1>1. d.a \in PairRegister /\ d.b \in IoAddr
    BY Operands DEF WordOp
  <1>2. x \in Int /\ d.b \in Int
    BY <1>1, PairIsWord DEF IoAddr
  <1>3. AddWord(c, d) = Done(PutFlags(SetPair(c, d.a, r), C..S, Row(carry, Truth(r = 0), Bit(r, 15), over, 0)), 1, 2)
    BY DEF AddWord
  <1>4. carry \in 0..1 /\ over \in 0..1
    BY TruthIsBit
  <1> HIDE DEF x, carry, over
  <1>5. sum \in Int
    BY <1>2
  <1> HIDE DEF sum
  <1>6. r \in Word
    BY <1>5, LowWord
  <1> HIDE DEF r
  <1>7. Bit(r, 15) \in 0..1 /\ 0 \in 0..1 /\ Truth(r = 0) \in 0..1
    BY <1>6, WordIs, AnyBitIsBit, TruthIsBit
  <1>8. SetPair(c, d.a, r) \in Cpu
    BY <1>1, <1>6, SetPairStays
  <1>9. PutFlags(SetPair(c, d.a, r), C..S, Row(carry, Truth(r = 0), Bit(r, 15), over, 0)) \in Cpu
    BY <1>4, <1>7, <1>8, FlagSets, RowStays
  <1> QED
    BY <1>3, <1>9, Costs, DoneStays

LEMMA MultiplyStays ==
    ASSUME NEW c \in Cpu, NEW d \in Instruction, d.op \in {"MUL", "MULS", "MULSU", "FMUL", "FMULS", "FMULSU"}
    PROVE  Multiply(c, d) \in Cpu
  <1> DEFINE x == IF d.op \in {"MUL", "FMUL"} THEN R(c, d.a) ELSE SignExtend(R(c, d.a), 8)
             y == IF d.op \in {"MULS", "FMULS"} THEN SignExtend(R(c, d.b), 8) ELSE R(c, d.b)
             product == (x * y) % 65536
             r == IF d.op \in {"FMUL", "FMULS", "FMULSU"} THEN (2 * product) % 65536 ELSE product
  <1>1. d.a \in Register /\ d.b \in Register
    BY Operands DEF TwoRegisterOp
  <1>2. R(c, d.a) \in Int /\ R(c, d.b) \in Int
    BY <1>1, RIsByte
  <1>3. \A v \in Int : SignExtend(v, 8) \in Int
    <2>1. 2^(8 - 1) \in Int /\ 2^8 \in Int
      OBVIOUS
    <2> QED
      BY <2>1 DEF SignExtend
  <1>4. x \in Int /\ y \in Int
    BY <1>2, <1>3
  <1>5. Multiply(c, d) = Done(PutFlags(SetPair(c, 0, r), {C, Z}, Row(Bit(product, 15), Truth(r = 0), 0, 0, 0)), 1, 2)
    BY DEF Multiply
  <1> HIDE DEF x, y
  <1>6. x * y \in Int
    BY <1>4
  <1>7. product \in Word
    BY <1>6, LowWord
  <1> HIDE DEF product
  <1>8. 2 * product \in Int /\ product \in Nat
    BY <1>7, WordIs
  <1>9. (2 * product) % 65536 \in Word
    <2> DEFINE twice == 2 * product
    <2>1. twice \in Int
      BY <1>8
    <2> HIDE DEF twice
    <2>2. twice % 65536 \in Word
      BY <2>1, LowWord
    <2> QED
      BY <2>2 DEF twice
  <1>10. r \in Word
    BY <1>7, <1>9
  <1> HIDE DEF r
  <1>11. Bit(product, 15) \in 0..1 /\ 0 \in 0..1 /\ Truth(r = 0) \in 0..1
    BY <1>8, AnyBitIsBit, TruthIsBit
  <1>12. SetPair(c, 0, r) \in Cpu
    BY <1>10, Places, SetPairStays
  <1>13. PutFlags(SetPair(c, 0, r), {C, Z}, Row(Bit(product, 15), Truth(r = 0), 0, 0, 0)) \in Cpu
    BY <1>11, <1>12, FlagSets, RowStays
  <1> QED
    BY <1>5, <1>13, Costs, DoneStays

LEMMA PortsStay ==
    ASSUME NEW c \in Cpu, NEW d \in Instruction, d.op \in PortOp
    PROVE  In(c, d) \in Cpu /\ Out(c, d) \in Cpu
  <1>1. d.a \in Register /\ d.b \in IoAddr
    BY Operands
  <1>2. d.b + 32 \in DataAddr
    BY <1>1, Places
  <1>3. IoRead(c, d.b + 32) \in Byte /\ R(c, d.a) \in Byte
    BY <1>1, <1>2, IoReadIsByte, RIsByte
  <1>4. SetR(c, d.a, IoRead(c, d.b + 32)) \in Cpu
    BY <1>1, <1>3, RegStays
  <1>5. IoWrite(c, d.b + 32, R(c, d.a)) \in Cpu
    BY <1>2, <1>3, IoWriteStays
  <1> QED
    BY <1>4, <1>5, Costs, DoneStays DEF In, Out

LEMMA MaskRest ==
    ASSUME NEW v \in Byte
    PROVE  255 - v \in Byte
  BY ByteIs

LEMMA IoBitStays ==
    ASSUME NEW c \in Cpu, NEW d \in Instruction, d.op \in {"CBI", "SBI"}
    PROVE  IoBit(c, d) \in Cpu
  <1> DEFINE v == IoRead(c, d.a + 32)
             w == IF d.op = "SBI" THEN Or(v, d.b) ELSE And(v, 255 - d.b)
  <1>1. d.a \in IoAddr /\ d.b \in Byte
    BY Operands DEF PortBitOp
  <1>2. d.a + 32 \in DataAddr
    BY <1>1, Places
  <1>3. v \in Byte
    BY <1>2, IoReadIsByte
  <1>4. IoBit(c, d) = Done(IoWrite(c, d.a + 32, w), 1, 2)
    BY DEF IoBit
  <1> HIDE DEF v
  <1>5. Or(v, d.b) \in Byte /\ And(v, 255 - d.b) \in Byte
    BY <1>1, <1>3, MaskRest, AndIsByte, OrXorAreBytes
  <1>6. w \in Byte
    BY <1>5
  <1> HIDE DEF w
  <1>7. IoWrite(c, d.a + 32, w) \in Cpu
    BY <1>2, <1>6, IoWriteStays
  <1> QED
    BY <1>4, <1>7, Costs, DoneStays

LEMMA SkipStays ==
    ASSUME NEW c \in Cpu, NEW d
    PROVE  Skip(c, d) \in Cpu
  <1> DEFINE width == SkipWidth(c.pc + 1)
  <1>1. width = 1 \/ width = 2
    BY DEF SkipWidth
  <1>2. Skip(c, d) = Done(c, 1 + width, 1 + width) \/ Skip(c, d) = Done(c, 1, 1)
    BY DEF Skip
  <1> HIDE DEF width
  <1>3. 1 + width \in Nat
    BY <1>1
  <1>4. Done(c, 1 + width, 1 + width) \in Cpu
    BY <1>3, DoneStays
  <1>5. Done(c, 1, 1) \in Cpu
    BY Costs, DoneStays
  <1> QED
    BY <1>2, <1>4, <1>5

LEMMA JumpStays ==
    ASSUME NEW c \in Cpu, NEW d \in Instruction, d.op \in {"RJMP", "JMP", "IJMP"}
    PROVE  Jump(c, d) \in Cpu
  <1>1. Pair(c, ZReg) \in Word
    BY Places, PairIsWord
  <1>2. d.op \in {"RJMP", "JMP"} => d.b \in Word
    BY Operands DEF TargetOp
  <1>3. CASE d.op = "RJMP"
    <2>1. Jump(c, d) = Goto(c, d.b, 2)
      BY <1>3 DEF Jump
    <2> QED
      BY <1>2, <1>3, <2>1, Costs, GotoStays
  <1>4. CASE d.op = "JMP"
    <2>1. Jump(c, d) = Goto(c, d.b, 3)
      BY <1>4 DEF Jump
    <2> QED
      BY <1>2, <1>4, <2>1, Costs, GotoStays
  <1>5. CASE d.op = "IJMP"
    <2>1. Jump(c, d) = Goto(c, Pair(c, ZReg), 2)
      BY <1>5 DEF Jump
    <2> QED
      BY <1>1, <2>1, Costs, GotoStays
  <1> QED
    BY <1>3, <1>4, <1>5

LEMMA CallStays ==
    ASSUME NEW c \in Cpu, NEW d \in Instruction, d.op \in {"RCALL", "CALL", "ICALL"}
    PROVE  Call(c, d) \in Cpu
  <1>1. Pair(c, ZReg) \in Word
    BY Places, PairIsWord
  <1>2. d.op \in {"RCALL", "CALL"} => d.b \in Word
    BY Operands DEF TargetOp
  <1>3. c.pc + 1 \in Nat /\ c.pc + 2 \in Nat
    BY CpuFields, WordIs
  <1>4. PushPc(c, c.pc + 1) \in Cpu /\ PushPc(c, c.pc + 2) \in Cpu
    BY <1>3, PushPcStays
  <1>5. CASE d.op = "RCALL"
    <2>1. Call(c, d) = Goto(PushPc(c, c.pc + 1), d.b, 3)
      BY <1>5 DEF Call
    <2> QED
      BY <1>2, <1>4, <1>5, <2>1, Costs, GotoStays
  <1>6. CASE d.op = "CALL"
    <2>1. Call(c, d) = Goto(PushPc(c, c.pc + 2), d.b, 4)
      BY <1>6 DEF Call
    <2> QED
      BY <1>2, <1>4, <1>6, <2>1, Costs, GotoStays
  <1>7. CASE d.op = "ICALL"
    <2>1. Call(c, d) = Goto(PushPc(c, c.pc + 1), Pair(c, ZReg), 3)
      BY <1>7 DEF Call
    <2> QED
      BY <1>1, <1>4, <2>1, Costs, GotoStays
  <1> QED
    BY <1>5, <1>6, <1>7

LEMMA ReturnStays ==
    ASSUME NEW c \in Cpu, NEW d
    PROVE  Return(c, d) \in Cpu
  <1> DEFINE back == Done(PopPc(c), 0, 4)
  <1>1. back \in Cpu
    BY PopPcStays, Costs, DoneStays
  <1>2. Return(c, d) = IF d.op = "RETI" THEN [back EXCEPT !.sreg = Or(back.sreg, 128)] ELSE back
    BY DEF Return
  <1> HIDE DEF back
  <1>3. Or(back.sreg, 128) \in Byte
    BY <1>1, CpuFields, SmallBytes, OrXorAreBytes
  <1>4. [back EXCEPT !.sreg = Or(back.sreg, 128)] \in Cpu
    BY <1>1, <1>3 DEF Cpu
  <1> QED
    BY <1>1, <1>2, <1>4

LEMMA BranchStays ==
    ASSUME NEW c \in Cpu, NEW d \in Instruction, d.op \in {"BRBS", "BRBC"}
    PROVE  Branch(c, d) \in Cpu
  <1>1. d.b \in Word
    BY Operands DEF FlagOp
  <1>2. Branch(c, d) = Goto(c, d.b, 2) \/ Branch(c, d) = Done(c, 1, 1)
    BY DEF Branch
  <1> QED
    BY <1>1, <1>2, Costs, GotoStays, DoneStays

LEMMA SregStays ==
    ASSUME NEW c \in Cpu, NEW v \in Byte
    PROVE  [c EXCEPT !.sreg = v] \in Cpu
  BY DEF Cpu

LEMMA FlagBitStays ==
    ASSUME NEW c \in Cpu, NEW d \in Instruction, d.op \in {"BSET", "BCLR", "BST", "BLD"}
    PROVE  FlagBit(c, d) \in Cpu
  <1> DEFINE m == CASE d.op = "BSET" -> [c EXCEPT !.sreg = Or(c.sreg, d.a)]
                    [] d.op = "BCLR" -> [c EXCEPT !.sreg = And(c.sreg, 255 - d.a)]
                    [] d.op = "BST" -> PutFlag(c, T, Truth(And(R(c, d.a), d.b) # 0))
                    [] d.op = "BLD" -> SetR(c, d.a, IF On(c, T) THEN Or(R(c, d.a), d.b)
                                                    ELSE And(R(c, d.a), 255 - d.b))
  <1>1. FlagBit(c, d) = Done(m, 1, 1)
    BY DEF FlagBit
  <1>2. c.sreg \in Byte
    BY CpuFields
  <1>3. CASE d.op \in {"BSET", "BCLR"}
    <2>1. d.a \in Byte
      BY <1>3, Operands DEF FlagOp
    <2>2. Or(c.sreg, d.a) \in Byte /\ And(c.sreg, 255 - d.a) \in Byte
      BY <1>2, <2>1, MaskRest, AndIsByte, OrXorAreBytes
    <2>3. m = [c EXCEPT !.sreg = Or(c.sreg, d.a)] \/ m = [c EXCEPT !.sreg = And(c.sreg, 255 - d.a)]
      BY <1>3
    <2> HIDE DEF m
    <2>4. m \in Cpu
      BY <2>2, <2>3, SregStays
    <2> QED
      BY <1>1, <2>4, Costs, DoneStays
  <1>4. CASE d.op = "BST"
    <2>1. m = PutFlag(c, T, Truth(And(R(c, d.a), d.b) # 0))
      BY <1>4
    <2> HIDE DEF m
    <2>2. T \in 0..7
      BY FlagNumbers
    <2>3. m \in Cpu
      BY <2>1, <2>2, TruthIsBit, PutFlagStays
    <2> QED
      BY <1>1, <2>3, Costs, DoneStays
  <1>5. CASE d.op = "BLD"
    <2>1. d.a \in Register /\ d.b \in Byte
      BY <1>5, Operands DEF RegisterBitOp
    <2> DEFINE v == IF On(c, T) THEN Or(R(c, d.a), d.b) ELSE And(R(c, d.a), 255 - d.b)
    <2>2. R(c, d.a) \in Byte
      BY <2>1, RIsByte
    <2>3. Or(R(c, d.a), d.b) \in Byte /\ And(R(c, d.a), 255 - d.b) \in Byte
      BY <2>1, <2>2, MaskRest, AndIsByte, OrXorAreBytes
    <2>4. v \in Byte
      BY <2>3
    <2>5. m = SetR(c, d.a, v)
      BY <1>5
    <2> HIDE DEF m, v
    <2>6. m \in Cpu
      BY <2>1, <2>4, <2>5, RegStays
    <2> QED
      BY <1>1, <2>6, Costs, DoneStays
  <1> QED
    BY <1>3, <1>4, <1>5

\* Loads and stores through a pointer.
LoadOps == {"LD_X", "LD_XP", "LD_MX", "LD_YP", "LD_MY", "LDD_Y", "LD_ZP", "LD_MZ", "LDD_Z"}
StoreOps == {"ST_X", "ST_XP", "ST_MX", "ST_YP", "ST_MY", "STD_Y", "ST_ZP", "ST_MZ", "STD_Z"}

LEMMA PointersStay ==
    ASSUME NEW c \in Cpu, NEW d \in Instruction, d.op \in LoadOps \cup StoreOps
    PROVE  /\ d.a \in Register /\ Decremented(c, d) \in Cpu /\ Address(c, d) \in Word
           /\ \A m \in Cpu, a \in Word : Incremented(m, d, a) \in Cpu
  <1>1. d.a \in Register /\ d.b \in Nat
    BY Operands DEF LoadOps, StoreOps, OneRegisterOp, IndexedOp, IoAddr
  <1> DEFINE p == PointerReg(d.op)
  <1>2. p = X \/ p = Y \/ p = ZReg
    BY DEF PointerReg, LoadOps, StoreOps
  <1>3. p \in PairRegister
    BY <1>2, Places
  <1>4. Decremented(c, d) \in Cpu
    <2> DEFINE v == (Pair(c, p) - 1) % 65536
    <2>1. Decremented(c, d) = SetPair(c, p, v) \/ Decremented(c, d) = c
      BY DEF Decremented
    <2> HIDE DEF p
    <2>2. v \in Word
      BY <1>3, PairIsWord, LowWord
    <2> HIDE DEF v
    <2> QED
      BY <1>3, <2>1, <2>2, SetPairStays
  <1>5. Address(c, d) \in Word
    <2>1. Address(c, d) = (Pair(Decremented(c, d), p) + d.b) % 65536
      BY DEF Address
    <2> HIDE DEF p
    <2> DEFINE v == Pair(Decremented(c, d), p)
    <2>2. v \in Int
      BY <1>3, <1>4, PairIsWord
    <2> HIDE DEF v
    <2>3. (v + d.b) % 65536 \in Word
      BY <1>1, <2>2, LowWord
    <2> QED
      BY <2>1, <2>3 DEF v
  <1>6. ASSUME NEW m \in Cpu, NEW a \in Word PROVE Incremented(m, d, a) \in Cpu
    <2> DEFINE v == (a + 1) % 65536
    <2>1. Incremented(m, d, a) = SetPair(m, p, v) \/ Incremented(m, d, a) = m
      BY DEF Incremented
    <2> HIDE DEF p
    <2>2. v \in Word
      BY WordIs, LowWord
    <2> HIDE DEF v
    <2> QED
      BY <1>3, <2>1, <2>2, SetPairStays
  <1> QED
    BY <1>1, <1>4, <1>5, <1>6

LEMMA IndirectStays ==
    ASSUME NEW c \in Cpu, NEW d \in Instruction, d.op \in LoadOps \cup StoreOps
    PROVE  LoadIndirect(c, d) \in Cpu /\ StoreIndirect(c, d) \in Cpu
  <1> DEFINE a == Address(c, d)
             before == Decremented(c, d)
  <1>1. d.a \in Register /\ before \in Cpu /\ a \in Word
    BY PointersStay
  <1>2. /\ LoadIndirect(c, d) = Done(Incremented(SetR(before, d.a, DataRead(before, a)), d, a), 1, 2)
        /\ StoreIndirect(c, d) = Done(Incremented(DataWrite(before, a, R(before, d.a)), d, a), 1, 2)
    BY DEF LoadIndirect, StoreIndirect
  <1> HIDE DEF a, before
  <1>3. SetR(before, d.a, DataRead(before, a)) \in Cpu
    BY <1>1, DataReadIsByte, RegStays
  <1>4. DataWrite(before, a, R(before, d.a)) \in Cpu
    BY <1>1, RIsByte, DataWriteStays
  <1>5. /\ Incremented(SetR(before, d.a, DataRead(before, a)), d, a) \in Cpu
        /\ Incremented(DataWrite(before, a, R(before, d.a)), d, a) \in Cpu
    BY <1>1, <1>3, <1>4, PointersStay
  <1> QED
    BY <1>2, <1>5, Costs, DoneStays

LEMMA DirectStays ==
    ASSUME NEW c \in Cpu, NEW d \in Instruction, d.op \in {"LDS", "STS"}
    PROVE  Direct(c, d) \in Cpu
  <1>1. d.a \in Register /\ d.b \in Word
    BY Operands DEF DirectOp
  <1>2. SetR(c, d.a, DataRead(c, d.b)) \in Cpu
    BY <1>1, DataReadIsByte, RegStays
  <1>3. DataWrite(c, d.b, R(c, d.a)) \in Cpu
    BY <1>1, RIsByte, DataWriteStays
  <1> QED
    BY <1>2, <1>3, Costs, DoneStays DEF Direct

LEMMA PushPopStay ==
    ASSUME NEW c \in Cpu, NEW d \in Instruction, d.op \in {"PUSH", "POP"}
    PROVE  Stack(c, d) \in Cpu
  <1>1. d.a \in Register
    BY Operands DEF OneRegisterOp
  <1>2. Push(c, R(c, d.a)) \in Cpu
    BY <1>1, RIsByte, StackStays
  <1>3. SetR(Popped(c), d.a, Top(c)) \in Cpu
    BY <1>1, StackStays, RegStays
  <1> QED
    BY <1>2, <1>3, Costs, DoneStays DEF Stack

LEMMA LpmStays ==
    ASSUME NEW c \in Cpu, NEW d \in Instruction, d.op \in {"LPM_R0", "LPM_RD", "LPM_RDP"}, prog \in Programs
    PROVE  Lpm(c, d) \in Cpu
  <1> DEFINE a == Pair(c, ZReg)
             n == IF d.op = "LPM_R0" THEN 0 ELSE d.a
             read == SetR(c, n, FlashByte(a))
             v == (a + 1) % 65536
  <1>1. a \in Word /\ a \in Int
    BY Places, PairIsWord
  <1>2. n \in Register
    BY Operands, Places DEF OneRegisterOp
  <1>3. Lpm(c, d) = Done(IF d.op = "LPM_RDP" THEN SetPair(read, ZReg, v) ELSE read, 1, 3)
    BY DEF Lpm
  <1> HIDE DEF a, n
  <1>4. v \in Word
    BY <1>1, LowWord
  <1>5. read \in Cpu
    BY <1>1, <1>2, FlashByteIsByte, RegStays
  <1> HIDE DEF read, v
  <1>6. SetPair(read, ZReg, v) \in Cpu
    BY <1>4, <1>5, Places, SetPairStays
  <1> QED
    BY <1>3, <1>5, <1>6, Costs, DoneStays

LEMMA BareStay ==
    ASSUME NEW c \in Cpu, NEW d
    PROVE  Nop(c, d) \in Cpu /\ GoToSleep(c, d) \in Cpu /\ Break(c, d) \in Cpu /\ Halt(c, d) \in Cpu
  <1>1. [c EXCEPT !.state = "SLEEPING"] \in Cpu /\ [c EXCEPT !.state = "BREAK"] \in Cpu
        /\ [c EXCEPT !.state = "HALTED"] \in Cpu
    BY DEF Cpu
  <1> QED
    BY <1>1, Costs, DoneStays DEF Nop, GoToSleep, Break, Halt
-----------------------------------------------------------------------------
(***************************************************************************)
(* Predecoding gives instructions, whatever the words of the flash are.    *)
(***************************************************************************)
LEMMA Makes ==
    /\ \A op \in TwoRegisterOp, a, b \in Register : Decoded(op, a, b) \in Instruction
    /\ \A a, b \in PairRegister : Decoded("MOVW", a, b) \in Instruction
    /\ \A op \in ImmediateOp, a \in Register, b \in Byte : Decoded(op, a, b) \in Instruction
    /\ \A op \in OneRegisterOp, a \in Register : Decoded(op, a, 0) \in Instruction
    /\ \A op \in IndexedOp, a \in Register, b \in IoAddr : Decoded(op, a, b) \in Instruction
    /\ \A op \in WordOp, a \in PairRegister, b \in IoAddr : Decoded(op, a, b) \in Instruction
    /\ \A op \in PortOp, a \in Register, b \in IoAddr : Decoded(op, a, b) \in Instruction
    /\ \A op \in PortBitOp, a \in IoAddr, b \in Byte : Decoded(op, a, b) \in Instruction
    /\ \A op \in RegisterBitOp, a \in Register, b \in Byte : Decoded(op, a, b) \in Instruction
    /\ \A op \in FlagOp, a \in Byte, b \in Word : Decoded(op, a, b) \in Instruction
    /\ \A op \in DirectOp, a \in Register, b \in Word : Decoded(op, a, b) \in Instruction
    /\ \A op \in TargetOp, b \in Word : Decoded(op, 0, b) \in Instruction
    /\ \A op \in BareOp, a \in Register : Decoded(op, a, 0) \in Instruction
  BY DEF Decoded, Instruction

LEMMA FaultIs == Fault \in Instruction
  <1>1. "FAULT" \in BareOp
    BY DEF BareOp
  <1> QED
    BY <1>1, Places, Makes DEF Fault

LEMMA IfHasIs ==
    ASSUME NEW has, NEW feature, NEW d \in Instruction
    PROVE  IfHas(has, feature, d) \in Instruction
  BY FaultIs DEF IfHas

LEMMA LowBits ==
    ASSUME NEW v \in Nat
    PROVE  /\ v % 2 \in 0..1 /\ v % 4 \in 0..3 /\ v % 8 \in 0..7 /\ v % 16 \in 0..15
           /\ v % 32 \in Register /\ v % 128 \in Nat /\ v % 4096 \in Nat
  BY DEF Register

LEMMA ShiftedRight ==
    ASSUME NEW w \in Nat, NEW low \in 0..13
    PROVE  w \div (2^low) \in Nat
  <1>14. \/ low = 0 \/ low = 1 \/ low = 2 \/ low = 3 \/ low = 4 \/ low = 5 \/ low = 6
         \/ low = 7 \/ low = 8 \/ low = 9 \/ low = 10 \/ low = 11 \/ low = 12 \/ low = 13
    OBVIOUS
  <1>0. CASE low = 0
    <2>1. w \div (2^0) \in Nat
      OBVIOUS
    <2> QED
      BY <1>0, <2>1, Zenon
  <1>1. CASE low = 1
    <2>1. w \div (2^1) \in Nat
      OBVIOUS
    <2> QED
      BY <1>1, <2>1, Zenon
  <1>2. CASE low = 2
    <2>1. w \div (2^2) \in Nat
      OBVIOUS
    <2> QED
      BY <1>2, <2>1, Zenon
  <1>3. CASE low = 3
    <2>1. w \div (2^3) \in Nat
      OBVIOUS
    <2> QED
      BY <1>3, <2>1, Zenon
  <1>4. CASE low = 4
    <2>1. w \div (2^4) \in Nat
      OBVIOUS
    <2> QED
      BY <1>4, <2>1, Zenon
  <1>5. CASE low = 5
    <2>1. w \div (2^5) \in Nat
      OBVIOUS
    <2> QED
      BY <1>5, <2>1, Zenon
  <1>6. CASE low = 6
    <2>1. w \div (2^6) \in Nat
      OBVIOUS
    <2> QED
      BY <1>6, <2>1, Zenon
  <1>7. CASE low = 7
    <2>1. w \div (2^7) \in Nat
      OBVIOUS
    <2> QED
      BY <1>7, <2>1, Zenon
  <1>8. CASE low = 8
    <2>1. w \div (2^8) \in Nat
      OBVIOUS
    <2> QED
      BY <1>8, <2>1, Zenon
  <1>9. CASE low = 9
    <2>1. w \div (2^9) \in Nat
      OBVIOUS
    <2> QED
      BY <1>9, <2>1, Zenon
  <1>10. CASE low = 10
    <2>1. w \div (2^10) \in Nat
      OBVIOUS
    <2> QED
      BY <1>10, <2>1, Zenon
  <1>11. CASE low = 11
    <2>1. w \div (2^11) \in Nat
      OBVIOUS
    <2> QED
      BY <1>11, <2>1, Zenon
  <1>12. CASE low = 12
    <2>1. w \div (2^12) \in Nat
      OBVIOUS
    <2> QED
      BY <1>12, <2>1, Zenon
  <1>13. CASE low = 13
    <2>1. w \div (2^13) \in Nat
      OBVIOUS
    <2> QED
      BY <1>13, <2>1, Zenon
  <1> QED
    BY <1>14, <1>0, <1>1, <1>2, <1>3, <1>4, <1>5, <1>6, <1>7, <1>8, <1>9, <1>10, <1>11, <1>12, <1>13, Zenon

LEMMA FieldIs ==
    ASSUME NEW w \in Nat, NEW low \in 0..13
    PROVE  /\ Bits(w, low, 1) \in 0..1 /\ Bits(w, low, 2) \in 0..3 /\ Bits(w, low, 3) \in 0..7
           /\ Bits(w, low, 4) \in 0..15 /\ Bits(w, low, 5) \in Register
           /\ Bits(w, low, 7) \in Nat /\ Bits(w, low, 12) \in Nat
  <1> DEFINE v == w \div (2^low)
  <1>1. v \in Nat
    BY ShiftedRight
  <1>2. 2^1 = 2 /\ 2^2 = 4 /\ 2^3 = 8 /\ 2^4 = 16 /\ 2^5 = 32 /\ 2^7 = 128 /\ 2^12 = 4096
    OBVIOUS
  <1>3. /\ Bits(w, low, 1) = v % 2 /\ Bits(w, low, 2) = v % 4 /\ Bits(w, low, 3) = v % 8 /\ Bits(w, low, 4) = v % 16
        /\ Bits(w, low, 5) = v % 32 /\ Bits(w, low, 7) = v % 128 /\ Bits(w, low, 12) = v % 4096
    BY <1>2 DEF Bits
  <1> HIDE DEF v
  <1>4. /\ v % 2 \in 0..1 /\ v % 4 \in 0..3 /\ v % 8 \in 0..7 /\ v % 16 \in 0..15
        /\ v % 32 \in Register /\ v % 128 \in Nat /\ v % 4096 \in Nat
    BY <1>1, LowBits
  <1> QED
    BY <1>3, <1>4

\* The fields the decoder takes from a word.
LEMMA Fields ==
    ASSUME NEW w \in Nat
    PROVE  /\ Bits(w, 0, 3) \in 0..7 /\ Bits(w, 0, 4) \in 0..15 /\ Bits(w, 4, 3) \in 0..7 /\ Bits(w, 4, 4) \in 0..15
           /\ Bits(w, 8, 4) \in 0..15 /\ Bits(w, 12, 4) \in 0..15 /\ Bits(w, 4, 2) \in 0..3 /\ Bits(w, 3, 2) \in 0..3
           /\ Bits(w, 9, 2) \in 0..3 /\ Bits(w, 10, 2) \in 0..3 /\ Bits(w, 6, 2) \in 0..3 /\ Bits(w, 9, 3) \in 0..7
           /\ Bits(w, 7, 1) \in 0..1 /\ Bits(w, 8, 1) \in 0..1 /\ Bits(w, 9, 1) \in 0..1 /\ Bits(w, 3, 1) \in 0..1
           /\ Bits(w, 10, 1) \in 0..1 /\ Bits(w, 11, 1) \in 0..1 /\ Bits(w, 13, 1) \in 0..1
           /\ Bits(w, 4, 5) \in Register /\ Bits(w, 3, 5) \in Register
           /\ Bits(w, 0, 12) \in Nat /\ Bits(w, 3, 7) \in Nat
  <1>1. /\ 0 \in 0..13 /\ 3 \in 0..13 /\ 4 \in 0..13 /\ 6 \in 0..13 /\ 7 \in 0..13 /\ 8 \in 0..13 /\ 9 \in 0..13
        /\ 10 \in 0..13 /\ 11 \in 0..13 /\ 12 \in 0..13 /\ 13 \in 0..13
    OBVIOUS
  <1> QED
    BY <1>1, FieldIs, Zenon

LEMMA OperandFields ==
    ASSUME NEW w \in Nat
    PROVE  /\ RD5(w) \in Register /\ RR5(w) \in Register /\ RD4(w) \in Register /\ K8(w) \in Byte /\ K6(w) \in IoAddr
           /\ RDW2(w) \in PairRegister /\ IO6(w) \in IoAddr /\ IO5(w) \in IoAddr /\ MASK3(w) \in Byte /\ Q6(w) \in IoAddr
           /\ K12(w) \in Int /\ K7(w) \in Int
           /\ 2 * Bits(w, 4, 4) \in PairRegister /\ 2 * Bits(w, 0, 4) \in PairRegister
           /\ 16 + Bits(w, 4, 4) \in Register /\ 16 + Bits(w, 0, 4) \in Register
           /\ 16 + Bits(w, 4, 3) \in Register /\ 16 + Bits(w, 0, 3) \in Register
           /\ 2^Bits(w, 4, 3) \in Byte
  <1>1. RD5(w) \in Register
    BY Fields DEF RD5
  <1>2. RR5(w) \in Register
    <2>1. Bits(w, 9, 1) \in 0..1 /\ Bits(w, 0, 4) \in 0..15
      BY Fields
    <2> QED
      BY <2>1 DEF RR5, Register
  <1>3. /\ RD4(w) \in Register /\ 16 + Bits(w, 4, 4) \in Register
        /\ 2 * Bits(w, 4, 4) \in PairRegister
    <2>1. Bits(w, 4, 4) \in 0..15
      BY Fields
    <2> QED
      BY <2>1 DEF RD4, Register, PairRegister
  <1>4. 16 + Bits(w, 0, 4) \in Register /\ 2 * Bits(w, 0, 4) \in PairRegister
    <2>1. Bits(w, 0, 4) \in 0..15
      BY Fields
    <2> QED
      BY <2>1 DEF Register, PairRegister
  <1>5. 16 + Bits(w, 4, 3) \in Register /\ 16 + Bits(w, 0, 3) \in Register
    <2>1. Bits(w, 4, 3) \in 0..7 /\ Bits(w, 0, 3) \in 0..7
      BY Fields
    <2> QED
      BY <2>1 DEF Register
  <1>6. K8(w) \in Byte
    <2>1. Bits(w, 8, 4) \in 0..15 /\ Bits(w, 0, 4) \in 0..15
      BY Fields
    <2> QED
      BY <2>1, ByteIs DEF K8
  <1>7. K6(w) \in IoAddr
    <2>1. Bits(w, 6, 2) \in 0..3 /\ Bits(w, 0, 4) \in 0..15
      BY Fields
    <2> QED
      BY <2>1 DEF K6, IoAddr
  <1>8. RDW2(w) \in PairRegister
    <2>1. Bits(w, 4, 2) \in 0..3
      BY Fields
    <2> QED
      BY <2>1 DEF RDW2, PairRegister
  <1>9. IO6(w) \in IoAddr
    <2>1. Bits(w, 9, 2) \in 0..3 /\ Bits(w, 0, 4) \in 0..15
      BY Fields
    <2> QED
      BY <2>1 DEF IO6, IoAddr
  <1>10. IO5(w) \in IoAddr
    BY Fields DEF IO5, IoAddr, Register
  <1>11. Q6(w) \in IoAddr
    <2>1. Bits(w, 13, 1) \in 0..1 /\ Bits(w, 10, 2) \in 0..3 /\ Bits(w, 0, 3) \in 0..7
      BY Fields
    <2> QED
      BY <2>1 DEF Q6, IoAddr
  <1>12. \A k \in 0..7 : 2^k \in Byte
    <2>1. 2^0 = 1 /\ 2^1 = 2 /\ 2^2 = 4 /\ 2^3 = 8 /\ 2^4 = 16 /\ 2^5 = 32 /\ 2^6 = 64 /\ 2^7 = 128
      OBVIOUS
    <2>2. /\ 1 \in Byte /\ 2 \in Byte /\ 4 \in Byte /\ 8 \in Byte
          /\ 16 \in Byte /\ 32 \in Byte /\ 64 \in Byte /\ 128 \in Byte
      BY ByteIs
    <2>3. \A k \in 0..7 : k = 0 \/ k = 1 \/ k = 2 \/ k = 3 \/ k = 4 \/ k = 5 \/ k = 6 \/ k = 7
      OBVIOUS
    <2>4. ASSUME NEW k \in 0..7 PROVE 2^k \in Byte
      <3>1. CASE k = 0 BY <3>1, <2>1, <2>2, ZenonT(60)
      <3>2. CASE k = 1 BY <3>2, <2>1, <2>2, ZenonT(60)
      <3>3. CASE k = 2 BY <3>3, <2>1, <2>2, ZenonT(60)
      <3>4. CASE k = 3 BY <3>4, <2>1, <2>2, ZenonT(60)
      <3>5. CASE k = 4 BY <3>5, <2>1, <2>2, ZenonT(60)
      <3>6. CASE k = 5 BY <3>6, <2>1, <2>2, ZenonT(60)
      <3>7. CASE k = 6 BY <3>7, <2>1, <2>2, ZenonT(60)
      <3>8. CASE k = 7 BY <3>8, <2>1, <2>2, ZenonT(60)
      <3> QED
        BY <2>3, <3>1, <3>2, <3>3, <3>4, <3>5, <3>6, <3>7, <3>8, Zenon
    <2> QED
      BY <2>4
  <1>13. MASK3(w) \in Byte /\ 2^Bits(w, 4, 3) \in Byte
    BY <1>12, Fields, Zenon DEF MASK3
  <1>14. K12(w) \in Int /\ K7(w) \in Int
    <2>1. Bits(w, 0, 12) \in Int /\ Bits(w, 3, 7) \in Int
      BY Fields
    <2>2. 2^(12 - 1) \in Int /\ 2^12 \in Int /\ 2^(7 - 1) \in Int /\ 2^7 \in Int
      OBVIOUS
    <2> QED
      BY <2>1, <2>2 DEF K12, K7, SignExtend
  <1> QED
    BY <1>1, <1>2, <1>3, <1>4, <1>5, <1>6, <1>7, <1>8, <1>9, <1>10, <1>11, <1>13, <1>14

LEMMA MakesByForm ==
    ASSUME NEW w \in Nat
    PROVE  /\ \A op \in TwoRegisterOp : TwoRegisters(op, w) \in Instruction
           /\ \A op \in OneRegisterOp : OneRegister(op, w) \in Instruction
           /\ \A op \in ImmediateOp : Immediate(op, w) \in Instruction
  BY OperandFields, Makes DEF TwoRegisters, OneRegister, Immediate

LEMMA Class0Is ==
    ASSUME NEW w \in Nat, NEW has
    PROVE  Class0(w, has) \in Instruction
  <1> DEFINE high == Bits(w, 8, 4)
             low == Bits(w, 3, 2)
             mid == Bits(w, 10, 2)
             mul == Decoded(<<"MULSU", "FMUL", "FMULS", "FMULSU">>[low + 1], 16 + Bits(w, 4, 3), 16 + Bits(w, 0, 3))
             movw == Decoded("MOVW", 2 * Bits(w, 4, 4), 2 * Bits(w, 0, 4))
             muls == Decoded("MULS", 16 + Bits(w, 4, 4), 16 + Bits(w, 0, 4))
             two == TwoRegisters(<<"CPC", "SBC", "ADD">>[mid], w)
  <1>1. movw \in Instruction
    BY OperandFields, Makes
  <1>2. "MULS" \in TwoRegisterOp
    BY DEF TwoRegisterOp
  <1>3. muls \in Instruction
    BY <1>2, OperandFields, Makes
  <1>4. mul \in Instruction
    <2>1. low \in 0..3
      BY Fields
    <2> DEFINE op == <<"MULSU", "FMUL", "FMULS", "FMULSU">>[low + 1]
    <2> HIDE DEF low
    <2>2. op \in {"MULSU", "FMUL", "FMULS", "FMULSU"}
      BY <2>1
    <2> HIDE DEF op
    <2>3. op \in TwoRegisterOp
      BY <2>2 DEF TwoRegisterOp
    <2>4. Decoded(op, 16 + Bits(w, 4, 3), 16 + Bits(w, 0, 3)) \in Instruction
      BY <2>3, OperandFields, Makes
    <2> QED
      BY <2>4 DEF op
  <1>5. mid \in 1..3 => two \in Instruction
    <2> DEFINE op == <<"CPC", "SBC", "ADD">>[mid]
    <2> HIDE DEF mid
    <2>1. mid \in 1..3 => op \in {"CPC", "SBC", "ADD"}
      OBVIOUS
    <2> HIDE DEF op
    <2>2. mid \in 1..3 => op \in TwoRegisterOp
      BY <2>1 DEF TwoRegisterOp
    <2>3. mid \in 1..3 => TwoRegisters(op, w) \in Instruction
      BY <2>2, MakesByForm
    <2> QED
      BY <2>3 DEF op
  <1>6. "NOP" \in BareOp
    BY DEF BareOp
  <1>7. Decoded("NOP", 0, 0) \in Instruction
    BY <1>6, Places, Makes
  <1>8. Class0(w, has) = CASE w = 0 -> Decoded("NOP", 0, 0)
                           [] high = 1 -> IfHas(has, "MOVW", movw)
                           [] high = 2 -> IfHas(has, "MUL", muls)
                           [] high = 3 -> IfHas(has, "MUL", mul)
                           [] mid \in 1..3 -> two
                           [] OTHER -> Fault
    BY DEF Class0
  <1> HIDE DEF high, low, mid, movw, muls, mul, two
  <1>9. /\ IfHas(has, "MOVW", movw) \in Instruction /\ IfHas(has, "MUL", muls) \in Instruction
        /\ IfHas(has, "MUL", mul) \in Instruction
    BY <1>1, <1>3, <1>4, IfHasIs
  <1> DEFINE nop == Decoded("NOP", 0, 0)
             i1 == IfHas(has, "MOVW", movw)
             i2 == IfHas(has, "MUL", muls)
             i3 == IfHas(has, "MUL", mul)
  <1> HIDE DEF nop, i1, i2, i3
  <1>10. nop \in Instruction /\ i1 \in Instruction /\ i2 \in Instruction /\ i3 \in Instruction
    BY <1>7, <1>9 DEF nop, i1, i2, i3
  <1>11. Class0(w, has) = CASE w = 0 -> nop [] high = 1 -> i1 [] high = 2 -> i2 [] high = 3 -> i3
                            [] mid \in 1..3 -> two [] OTHER -> Fault
    BY <1>8 DEF nop, i1, i2, i3
  <1> QED
    BY <1>5, <1>10, <1>11, FaultIs

LEMMA Class12Are ==
    ASSUME NEW w \in Nat
    PROVE  Class1(w) \in Instruction /\ Class2(w) \in Instruction
  <1> DEFINE k == Bits(w, 10, 2)
             op1 == <<"CPSE", "CP", "SUB", "ADC">>[k + 1]
             op2 == <<"AND", "EOR", "OR", "MOV">>[k + 1]
  <1>1. k \in 0..3
    BY Fields
  <1>2. Class1(w) = TwoRegisters(op1, w) /\ Class2(w) = TwoRegisters(op2, w)
    BY DEF Class1, Class2
  <1> HIDE DEF k
  <1>3. op1 \in {"CPSE", "CP", "SUB", "ADC"} /\ op2 \in {"AND", "EOR", "OR", "MOV"}
    BY <1>1
  <1> HIDE DEF op1, op2
  <1>4. op1 \in TwoRegisterOp /\ op2 \in TwoRegisterOp
    BY <1>3 DEF TwoRegisterOp
  <1> QED
    BY <1>2, <1>4, MakesByForm

LEMMA Class8Is ==
    ASSUME NEW w \in Nat
    PROVE  Class8(w) \in Instruction
  <1> DEFINE k == Bits(w, 9, 1)
             y == Bits(w, 3, 1)
             op == CASE k = 1 -> IF y = 1 THEN "STD_Y" ELSE "STD_Z"
                     [] k = 0 -> IF y = 1 THEN "LDD_Y" ELSE "LDD_Z"
  <1>1. k \in 0..1
    BY Fields
  <1>2. Class8(w) = Decoded(op, RD5(w), Q6(w))
    BY DEF Class8
  <1> HIDE DEF k, y
  <1>3. op \in IndexedOp
    BY <1>1 DEF IndexedOp
  <1> HIDE DEF op
  <1> QED
    BY <1>2, <1>3, OperandFields, Makes

LEMMA LoadStoreAre ==
    ASSUME NEW w \in Nat, NEW has, NEW next \in Word
    PROVE  Load(w, has, next) \in Instruction /\ Store(w, next) \in Instruction
  <1> DEFINE k == Bits(w, 0, 4)
             load == LoadOp[k]
             store == StoreOp[k]
             lpm == IF k = 4 THEN "LPM_RD" ELSE "LPM_RDP"
  <1>1. k \in 0..15
    BY Fields
  <1>2. /\ Load(w, has, next) = CASE k = 0 -> Decoded("LDS", RD5(w), next)
                                  [] k \in {4, 5} -> IfHas(has, "LPM_RD", OneRegister(lpm, w))
                                  [] OTHER -> OneRegister(load, w)
        /\ Store(w, next) = CASE k = 0 -> Decoded("STS", RD5(w), next)
                              [] OTHER -> OneRegister(store, w)
    BY DEF Load, Store
  <1> HIDE DEF k
  <1>3. "LDS" \in DirectOp /\ "STS" \in DirectOp /\ lpm \in OneRegisterOp
    BY DEF DirectOp, OneRegisterOp
  <1>4. load \in OneRegisterOp \cup {"FAULT"} /\ store \in OneRegisterOp \cup {"FAULT"}
    BY <1>1 DEF LoadOp, StoreOp, OneRegisterOp
  <1> HIDE DEF load, store, lpm
  <1>5. Decoded("LDS", RD5(w), next) \in Instruction /\ Decoded("STS", RD5(w), next) \in Instruction
    BY <1>3, OperandFields, Makes
  <1>6. IfHas(has, "LPM_RD", OneRegister(lpm, w)) \in Instruction
    BY <1>3, MakesByForm, IfHasIs
  <1>7. "FAULT" \in BareOp
    BY DEF BareOp
  <1>8. OneRegister("FAULT", w) \in Instruction
    BY <1>7, OperandFields, Makes DEF OneRegister
  <1>9. OneRegister(load, w) \in Instruction /\ OneRegister(store, w) \in Instruction
    BY <1>4, <1>8, MakesByForm
  <1> DEFINE lds == Decoded("LDS", RD5(w), next)
             sts == Decoded("STS", RD5(w), next)
             fromFlash == IfHas(has, "LPM_RD", OneRegister(lpm, w))
             other == OneRegister(load, w)
             stored == OneRegister(store, w)
  <1> HIDE DEF lds, sts, fromFlash, other, stored
  <1>10. /\ lds \in Instruction /\ sts \in Instruction /\ fromFlash \in Instruction
         /\ other \in Instruction /\ stored \in Instruction
    BY <1>5, <1>6, <1>9 DEF lds, sts, fromFlash, other, stored
  <1>11. /\ Load(w, has, next) = CASE k = 0 -> lds [] k \in {4, 5} -> fromFlash [] OTHER -> other
         /\ Store(w, next) = CASE k = 0 -> sts [] OTHER -> stored
    BY <1>2 DEF lds, sts, fromFlash, other, stored
  <1> QED
    BY <1>10, <1>11

LEMMA NoOperandIs ==
    ASSUME NEW w
    PROVE  NoOperand(w) \in Instruction
  <1> DEFINE op == CASE w = \h9508 -> "RET" [] w = \h9518 -> "RETI" [] w = \h9588 -> "SLEEP" [] w = \h9598 -> "BREAK"
                     [] w = \h95A8 -> "WDR" [] w = \h95C8 -> "LPM_R0" [] w = \h95E8 -> "SPM" [] w = \h9409 -> "IJMP"
                     [] w = \h9509 -> "ICALL" [] OTHER -> "FAULT"
  <1>1. op \in BareOp
    BY DEF BareOp
  <1>2. NoOperand(w) = Decoded(op, 0, 0)
    BY DEF NoOperand, Fault
  <1> HIDE DEF op
  <1> QED
    BY <1>1, <1>2, Places, Makes

LEMMA SingleRegisterIs ==
    ASSUME NEW w \in Nat, NEW has, NEW next \in Word
    PROVE  SingleRegister(w, has, next) \in Instruction
  <1> DEFINE k == Bits(w, 0, 4)
             names == <<"COM", "NEG", "SWAP", "INC", "", "ASR", "LSR", "ROR", "", "", "DEC">>
             name == names[k + 1]
             one == OneRegister(name, w)
             flag == IF Bits(w, 7, 1) = 0 THEN "BSET" ELSE "BCLR"
             setFlag == Decoded(flag, 2^Bits(w, 4, 3), 0)
             target == IF k < 14 THEN "JMP" ELSE "CALL"
             goto == IfHas(has, "JMP_CALL", Decoded(target, 0, next))
             p == Bits(w, 8, 1) = 0
             q == Bits(w, 8, 1) = 1
  <1>1. k \in 0..15
    BY Fields
  <1>2. SingleRegister(w, has, next) =
            CASE k \in {0, 1, 2, 3, 5, 6, 7, 10} -> one
              [] k = 8 /\ p -> setFlag
              [] k \in {8, 9} /\ (k = 8 => q) -> NoOperand(w)
              [] k \in 12..15 -> goto
              [] OTHER -> Fault
    BY DEF SingleRegister
  <1>3. k \in {0, 1, 2, 3, 5, 6, 7, 10} => one \in Instruction
    <2> HIDE DEF k
    <2>1. /\ names[0 + 1] = "COM" /\ names[1 + 1] = "NEG" /\ names[2 + 1] = "SWAP" /\ names[3 + 1] = "INC"
          /\ names[5 + 1] = "ASR" /\ names[6 + 1] = "LSR" /\ names[7 + 1] = "ROR" /\ names[10 + 1] = "DEC"
      OBVIOUS
    <2> HIDE DEF names
    <2>1a. k \in {0, 1, 2, 3, 5, 6, 7, 10} => name \in {"COM", "NEG", "SWAP", "INC", "ASR", "LSR", "ROR", "DEC"}
      BY <2>1, Zenon
    <2> HIDE DEF name
    <2>2. k \in {0, 1, 2, 3, 5, 6, 7, 10} => name \in OneRegisterOp
      BY <2>1a DEF OneRegisterOp
    <2> QED
      BY <2>2, MakesByForm
  <1>4. setFlag \in Instruction
    <2>1. flag \in FlagOp
      BY DEF FlagOp
    <2>2. 0 \in Word
      BY WordIs
    <2> HIDE DEF flag
    <2> QED
      BY <2>1, <2>2, OperandFields, Makes
  <1>5. goto \in Instruction
    <2>1. target \in TargetOp
      BY DEF TargetOp
    <2> HIDE DEF target
    <2> QED
      BY <2>1, Makes, IfHasIs
  <1>6. NoOperand(w) \in Instruction
    BY NoOperandIs
  <1> HIDE DEF k, one, setFlag, goto, p, q
  <1> QED
    BY <1>2, <1>3, <1>4, <1>5, <1>6, FaultIs

LEMMA Class9Is ==
    ASSUME NEW w \in Nat, NEW has, NEW next \in Word
    PROVE  Class9(w, has, next) \in Instruction
  <1> DEFINE group == Bits(w, 9, 3)
             p == Bits(w, 8, 1) = 1
             i0 == Load(w, has, next)
             i1 == Store(w, next)
             i2 == SingleRegister(w, has, next)
             i3 == IfHas(has, "ADIW", Decoded(IF p THEN "SBIW" ELSE "ADIW", RDW2(w), K6(w)))
             i4 == Decoded(IF p THEN "SBIC" ELSE "CBI", IO5(w), MASK3(w))
             i5 == Decoded(IF p THEN "SBIS" ELSE "SBI", IO5(w), MASK3(w))
             i6 == IfHas(has, "MUL", TwoRegisters("MUL", w))
  <1>1. group \in 0..7
    BY Fields
  <1>2. Class9(w, has, next) = CASE group = 0 -> i0 [] group = 1 -> i1 [] group = 2 -> i2 [] group = 3 -> i3
                                 [] group = 4 -> i4 [] group = 5 -> i5 [] group \in {6, 7} -> i6
    BY DEF Class9
  <1>3. i0 \in Instruction /\ i1 \in Instruction /\ i2 \in Instruction
    BY LoadStoreAre, SingleRegisterIs
  <1>4. i3 \in Instruction
    <2>1. (IF p THEN "SBIW" ELSE "ADIW") \in WordOp
      BY DEF WordOp
    <2> HIDE DEF p
    <2>2. Decoded(IF p THEN "SBIW" ELSE "ADIW", RDW2(w), K6(w)) \in Instruction
      BY <2>1, OperandFields, Makes
    <2> QED
      BY <2>2, IfHasIs
  <1>5. i4 \in Instruction /\ i5 \in Instruction
    <2>1. (IF p THEN "SBIC" ELSE "CBI") \in PortBitOp /\ (IF p THEN "SBIS" ELSE "SBI") \in PortBitOp
      BY DEF PortBitOp
    <2> HIDE DEF p
    <2> QED
      BY <2>1, OperandFields, Makes
  <1>6. i6 \in Instruction
    <2>1. "MUL" \in TwoRegisterOp
      BY DEF TwoRegisterOp
    <2> QED
      BY <2>1, MakesByForm, IfHasIs
  <1> HIDE DEF group, i0, i1, i2, i3, i4, i5, i6
  <1> QED
    BY <1>1, <1>2, <1>3, <1>4, <1>5, <1>6

LEMMA ClassBIs ==
    ASSUME NEW w \in Nat
    PROVE  ClassB(w) \in Instruction
  <1> DEFINE op == IF Bits(w, 11, 1) = 1 THEN "OUT" ELSE "IN"
  <1>1. op \in PortOp
    BY DEF PortOp
  <1>2. ClassB(w) = Decoded(op, RD5(w), IO6(w))
    BY DEF ClassB
  <1> HIDE DEF op
  <1> QED
    BY <1>1, <1>2, OperandFields, Makes

LEMMA RelativeIs ==
    ASSUME NEW i \in Nat, NEW w \in Nat
    PROVE  Relative("RJMP", i, w) \in Instruction /\ Relative("RCALL", i, w) \in Instruction
  <1>1. i + 1 + K12(w) \in Int
    BY OperandFields
  <1>2. (i + 1 + K12(w)) % 65536 \in Word
    BY <1>1, LowWord
  <1>3. "RJMP" \in TargetOp /\ "RCALL" \in TargetOp
    BY DEF TargetOp
  <1> QED
    BY <1>2, <1>3, Makes DEF Relative

LEMMA ClassFIs ==
    ASSUME NEW i \in Nat, NEW w \in Nat
    PROVE  ClassF(i, w) \in Instruction
  <1> DEFINE kind == Bits(w, 11, 1)
             k == Bits(w, 9, 2)
             branch == IF Bits(w, 10, 1) = 0 THEN "BRBS" ELSE "BRBC"
             to == (i + 1 + K7(w)) % 65536
             op == <<"BLD", "BST", "SBRC", "SBRS">>[k + 1]
             i0 == Decoded(branch, MASK3(w), to)
             i1 == Decoded(op, RD5(w), MASK3(w))
  <1>1. kind \in 0..1 /\ k \in 0..3
    BY Fields
  <1>2. i + 1 + K7(w) \in Int
    BY OperandFields
  <1>3. to \in Word
    BY <1>2, LowWord
  <1>4. branch \in FlagOp
    BY DEF FlagOp
  <1>5. ClassF(i, w) = CASE kind = 0 -> i0 [] kind = 1 -> i1
    BY DEF ClassF
  <1> HIDE DEF k, branch, to
  <1>6. op \in {"BLD", "BST", "SBRC", "SBRS"}
    BY <1>1
  <1> HIDE DEF op
  <1>7. op \in RegisterBitOp
    BY <1>6 DEF RegisterBitOp
  <1>8. i0 \in Instruction /\ i1 \in Instruction
    BY <1>3, <1>4, <1>7, OperandFields, Makes
  <1> HIDE DEF kind, i0, i1
  <1> QED
    BY <1>1, <1>5, <1>8

LEMMA DecodeWordIs ==
    ASSUME NEW i \in Nat, NEW w \in Nat, NEW has, NEW next \in Word
    PROVE  DecodeWord(i, w, has, next) \in Instruction
  <1> DEFINE class == Bits(w, 12, 4)
             op == <<"CPI", "SBCI", "SUBI", "ORI", "ANDI">>[class - 2]
             i3 == Immediate(op, w)
             iC == Relative("RJMP", i, w)
             iD == Relative("RCALL", i, w)
             iE == Immediate("LDI", w)
  <1>1. class \in 0..15
    BY Fields
  <1>2. DecodeWord(i, w, has, next) =
            CASE class = 0 -> Class0(w, has) [] class = 1 -> Class1(w) [] class = 2 -> Class2(w)
              [] class \in 3..7 -> i3 [] class \in {8, 10} -> Class8(w) [] class = 9 -> Class9(w, has, next)
              [] class = 11 -> ClassB(w) [] class = 12 -> iC [] class = 13 -> iD
              [] class = 14 -> iE [] class = 15 -> ClassF(i, w)
    BY DEF DecodeWord
  <1> HIDE DEF class
  <1>3. class \in 3..7 => op \in {"CPI", "SBCI", "SUBI", "ORI", "ANDI"}
    OBVIOUS
  <1> HIDE DEF op
  <1>4. class \in 3..7 => op \in ImmediateOp
    BY <1>3 DEF ImmediateOp
  <1>5. class \in 3..7 => i3 \in Instruction
    BY <1>4, MakesByForm
  <1>6. "LDI" \in ImmediateOp
    BY DEF ImmediateOp
  <1>7. iE \in Instruction
    BY <1>6, MakesByForm
  <1>8. iC \in Instruction /\ iD \in Instruction
    BY RelativeIs
  <1>9. /\ Class0(w, has) \in Instruction /\ Class1(w) \in Instruction /\ Class2(w) \in Instruction
        /\ Class8(w) \in Instruction /\ Class9(w, has, next) \in Instruction /\ ClassB(w) \in Instruction
        /\ ClassF(i, w) \in Instruction
    BY Class0Is, Class12Are, Class8Is, Class9Is, ClassBIs, ClassFIs
  <1> HIDE DEF i3, iC, iD, iE
  <1> QED
    BY <1>1, <1>2, <1>5, <1>7, <1>8, <1>9
-----------------------------------------------------------------------------
(***************************************************************************)
(* The caches.  Fusion changes the operation of an entry and nothing else, *)
(* and looks only at entries before fusion.                                *)
(***************************************************************************)
LEMMA FlashIs ==
    ASSUME prog \in Programs
    PROVE  \E last \in Nat : /\ last <= 65535
                             /\ \A i : i \in DOMAIN prog.flash <=> i \in Int /\ 0 <= i /\ i <= last
                             /\ \A i \in DOMAIN prog.flash : prog.flash[i] \in Word
  <1>1. PICK last \in Word : DOMAIN prog.flash = 0..last
    BY AvrProgramsAssumption, Zenon
  <1>2. \A i \in DOMAIN prog.flash : prog.flash[i] \in Word
    BY AvrProgramsAssumption, Zenon
  <1>3. last \in Nat /\ last \in Int /\ last <= 65535
    BY WordIs
  <1>4. 0 \in Int
    OBVIOUS
  <1>5. \A i : i \in DOMAIN prog.flash <=> i \in Int /\ 0 <= i /\ i <= last
    BY <1>1, <1>3, <1>4, Interval
  <1> QED
    BY <1>2, <1>3, <1>5

LEMMA DataEntryIs == Decoded("DATA", 0, 0) \in Instruction
  <1>1. "DATA" \in BareOp
    BY DEF BareOp
  <1> QED
    BY <1>1, Places, Makes

LEMMA UnfusedIs ==
    ASSUME prog \in Programs
    PROVE  /\ DOMAIN Unfused = DOMAIN prog.flash
           /\ \A i \in DOMAIN prog.flash : Unfused[i] \in Instruction /\ i \in Word
  <1> DEFINE flash == prog.flash
             n == CHOOSE k \in DOMAIN flash : k + 1 \notin DOMAIN flash
             next(i) == IF i < n THEN flash[i + 1] ELSE 0
             word[i \in DOMAIN flash] == DecodeWord(i, flash[i], prog.has, IF i < n THEN flash[i + 1] ELSE 0)
             data[i \in DOMAIN flash] == i > 0 /\ ~data[i - 1] /\ Is32Bit(word[i - 1].op)
  <1>1. Unfused = [i \in DOMAIN flash |-> IF data[i] THEN Decoded("DATA", 0, 0) ELSE word[i]]
    BY DEF Unfused, Predecode
  <1>2. PICK last \in Nat : /\ last <= 65535
                            /\ \A i : i \in DOMAIN prog.flash <=> i \in Int /\ 0 <= i /\ i <= last
                            /\ \A i \in DOMAIN prog.flash : prog.flash[i] \in Word
    BY FlashIs
  <1>3. ASSUME NEW i \in DOMAIN flash PROVE next(i) \in Word
    <2>1. last \in DOMAIN flash /\ last + 1 \notin DOMAIN flash
      BY <1>2
    <2>2. n \in DOMAIN flash
      BY <2>1
    <2> HIDE DEF n
    <2>3. i < n => i + 1 \in DOMAIN flash
      BY <2>2, <1>2
    <2>4. 0 \in Word
      BY WordIs
    <2> QED
      BY <1>2, <2>3, <2>4
  <1>4. ASSUME NEW i \in DOMAIN flash PROVE word[i] \in Instruction /\ i \in Word
    <2>1. i \in Nat /\ flash[i] \in Word /\ i \in Word
      BY <1>2, WordIs
    <2>2. flash[i] \in Nat
      BY <2>1, WordIs
    <2>3. word[i] = DecodeWord(i, flash[i], prog.has, next(i))
      OBVIOUS
    <2> HIDE DEF next, n, word, flash
    <2> QED
      BY <2>1, <2>2, <2>3, <1>3, DecodeWordIs
  <1> HIDE DEF word, data, n, flash
  <1>5. DOMAIN Unfused = DOMAIN flash
    BY <1>1
  <1>6. ASSUME NEW i \in DOMAIN flash PROVE Unfused[i] \in Instruction
    BY <1>1, <1>4, DataEntryIs
  <1> QED
    BY <1>4, <1>5, <1>6 DEF flash

LEMMA CacheIs ==
    ASSUME prog \in Programs, cache = Fuse(Unfused), NEW i \in DOMAIN prog.flash
    PROVE  /\ i \in DOMAIN cache
           /\ cache[i] = [Unfused[i] EXCEPT !.op = FusedOp(Unfused, i)]
           /\ cache[i].op = FusedOp(Unfused, i)
           /\ cache[i].a = Unfused[i].a /\ cache[i].b = Unfused[i].b
  <1>1. cache[i] = [Unfused[i] EXCEPT !.op = FusedOp(Unfused, i)] /\ i \in DOMAIN cache
    BY UnfusedIs DEF Fuse
  <1>2. \A d \in Instruction : d = [op |-> d.op, a |-> d.a, b |-> d.b]
    BY DEF Instruction
  <1>3. Unfused[i] = [op |-> Unfused[i].op, a |-> Unfused[i].a, b |-> Unfused[i].b]
    BY <1>2, UnfusedIs
  <1> QED
    BY <1>1, <1>3

\* The entries a fused loop spans.
LoopAt(i, bytes) ==
    /\ i + bytes \in DOMAIN prog.flash
    /\ \A k \in 1..bytes - 1 : Unfused[i + k].op = "SBCI" /\ Unfused[i + k].b = 0
    /\ Unfused[i + bytes].op = "BRBC" /\ Unfused[i + bytes].a = 2

LEMMA FusedLoops ==
    ASSUME prog \in Programs, cache = Fuse(Unfused), NEW i \in DOMAIN prog.flash
    PROVE  \/ cache[i] = Unfused[i]
           \/ cache[i].op = "DELAY3" /\ Unfused[i].op = "SUBI" /\ LoopAt(i, 3) /\ Unfused[i + 3].b = i
           \/ cache[i].op = "DELAY2" /\ Unfused[i].op = "SUBI" /\ LoopAt(i, 2) /\ Unfused[i + 2].b = i
           \/ cache[i].op = "DEC_BRNE" /\ Unfused[i].op = "DEC" /\ LoopAt(i, 1)
           \/ cache[i].op = "SUBI_BRNE" /\ Unfused[i].op = "SUBI" /\ LoopAt(i, 1)
  <1> DEFINE u == Unfused
             op == u[i].op
             three == op = "SUBI" /\ i + 3 \in DOMAIN u /\ LoopOf(u, i, 3)
             two == op = "SUBI" /\ i + 3 \in DOMAIN u /\ ~LoopOf(u, i, 3) /\ LoopOf(u, i, 2)
             dec == op = "DEC" /\ i + 1 \in DOMAIN u /\ IsBrne(u[i + 1])
             sub == op = "SUBI" /\ i + 1 \in DOMAIN u /\ IsBrne(u[i + 1])
  <1>1. FusedOp(u, i) = CASE three -> "DELAY3" [] two -> "DELAY2" [] dec -> "DEC_BRNE" [] sub -> "SUBI_BRNE"
                          [] OTHER -> op
    BY DEF FusedOp
  <1>2. three => op = "SUBI" /\ LoopAt(i, 3) /\ u[i + 3].b = i
    BY UnfusedIs DEF LoopOf, LoopAt, IsBrne, IsSbciZero
  <1>3. two => op = "SUBI" /\ LoopAt(i, 2) /\ u[i + 2].b = i
    BY UnfusedIs DEF LoopOf, LoopAt, IsBrne, IsSbciZero
  <1>4. (dec => op = "DEC" /\ LoopAt(i, 1)) /\ (sub => op = "SUBI" /\ LoopAt(i, 1))
    BY UnfusedIs DEF LoopAt, IsBrne
  <1>5. FusedOp(u, i) = op => cache[i] = u[i]
    <2>1. \A d \in Instruction : d = [d EXCEPT !.op = d.op]
      BY DEF Instruction
    <2> QED
      BY <2>1, CacheIs, UnfusedIs
  <1>6. \/ FusedOp(u, i) = op
        \/ three /\ FusedOp(u, i) = "DELAY3"
        \/ two /\ FusedOp(u, i) = "DELAY2"
        \/ dec /\ FusedOp(u, i) = "DEC_BRNE"
        \/ sub /\ FusedOp(u, i) = "SUBI_BRNE"
    <2> HIDE DEF three, two, dec, sub, op
    <2> QED
      BY <1>1
  <1>7. cache[i].op = FusedOp(u, i)
    BY CacheIs
  <1> HIDE DEF three, two, dec, sub
  <1> QED
    BY <1>2, <1>3, <1>4, <1>5, <1>6, <1>7
-----------------------------------------------------------------------------
(***************************************************************************)
(* The fused operations, on a fused loop of the cache.                     *)
(***************************************************************************)
LEMMA CountAndBranchStays ==
    ASSUME prog \in Programs, cache = Fuse(Unfused), NEW c \in Cpu, c.pc \in DOMAIN prog.flash,
           cache[c.pc].op \in {"SUBI_BRNE", "DEC_BRNE"}
    PROVE  CountAndBranch(c, cache[c.pc]) \in Cpu
  <1> DEFINE d == cache[c.pc]
             x == R(c, d.a)
             y == IF d.op = "SUBI_BRNE" THEN d.b ELSE 1
             r == (x - y) % 256
             counted == SetR(c, d.a, r)
             flagged == IF d.op = "SUBI_BRNE" THEN FlagsSub(counted, x, y, r, FALSE) ELSE FlagsDec(counted, r)
             to == cache[c.pc + 1].b
  <1>1. Unfused[c.pc] \in Instruction /\ c.pc \in Word
    BY UnfusedIs
  <1>2. Unfused[c.pc].op \notin FusedLoopOp
    BY <1>1, Operands
  <1>3. LoopAt(c.pc, 1) /\ Unfused[c.pc].op \in {"SUBI", "DEC"}
        /\ (cache[c.pc].op = "SUBI_BRNE" => Unfused[c.pc].op = "SUBI")
    BY <1>2, FusedLoops DEF FusedLoopOp
  <1>4. d.a = Unfused[c.pc].a /\ d.b = Unfused[c.pc].b
    BY CacheIs
  <1>5. "SUBI" \in ImmediateOp /\ "DEC" \in OneRegisterOp /\ "BRBC" \in FlagOp
    BY DEF ImmediateOp, OneRegisterOp, FlagOp
  <1>6. d.a \in Register /\ (d.op = "SUBI_BRNE" => d.b \in Byte)
    BY <1>1, <1>3, <1>4, <1>5, Operands
  <1>7. c.pc + 1 \in DOMAIN prog.flash /\ Unfused[c.pc + 1].op = "BRBC"
    BY <1>3 DEF LoopAt
  <1>8. to \in Word
    BY <1>5, <1>7, UnfusedIs, CacheIs, Operands, ZenonT(60)
  <1>9. x \in Byte /\ y \in Byte /\ x \in Int /\ y \in Int
    BY <1>6, RIsByte, SmallBytes, ByteIs
  <1>10. r \in Byte
    BY <1>9, LowByte
  <1>11. CountAndBranch(c, d) = IF r # 0 THEN Goto(flagged, to, 3) ELSE Done(flagged, 2, 2)
    BY DEF CountAndBranch
  <1> HIDE DEF x, y, r, d, to
  <1>12. counted \in Cpu
    BY <1>6, <1>10, RegStays
  <1> HIDE DEF counted
  <1>13. flagged \in Cpu
    BY <1>9, <1>10, <1>12, FlagsStay
  <1> HIDE DEF flagged
  <1>14. Goto(flagged, to, 3) \in Cpu /\ Done(flagged, 2, 2) \in Cpu
    BY <1>8, <1>13, GotoStays, DoneStays, Costs
  <1> QED
    BY <1>11, <1>14 DEF d

\* The registers of the counter and the bytes it counts down to.
Counter(i, k) == Unfused[i + k].a
Low(c, i) == (R(c, Counter(i, 0)) - Unfused[i].b) % 256
Middle(c, i) == (R(c, Counter(i, 1)) - Truth(R(c, Counter(i, 0)) < Unfused[i].b)) % 256
High(c, i) == (R(c, Counter(i, 2))
               - Truth(R(c, Counter(i, 0)) < Unfused[i].b /\ R(c, Counter(i, 1)) = 0)) % 256
Counted2(c, i) == SetR(SetR(c, Counter(i, 0), Low(c, i)), Counter(i, 1), Middle(c, i))
Counted3(c, i) == SetR(Counted2(c, i), Counter(i, 2), High(c, i))

LEMMA CounterIs ==
    ASSUME prog \in Programs, NEW c \in Cpu, NEW i \in DOMAIN prog.flash, NEW bytes \in {2, 3},
           Unfused[i].op = "SUBI", LoopAt(i, bytes)
    PROVE  /\ Counter(i, 0) \in Register /\ Counter(i, 1) \in Register /\ Unfused[i].b \in Byte
           /\ Low(c, i) \in Byte /\ Middle(c, i) \in Byte
           /\ bytes = 3 => Counter(i, 2) \in Register /\ High(c, i) \in Byte
           /\ Unfused[i + bytes].b \in Word
  <1>1. i \in Nat /\ i \in Word
    BY UnfusedIs, WordIs
  <1>2. \A k \in 1..bytes - 1 : i + k \in DOMAIN prog.flash /\ Unfused[i + k].op = "SBCI"
    <2>1. PICK last \in Nat : /\ last <= 65535
                              /\ \A j : j \in DOMAIN prog.flash <=> j \in Int /\ 0 <= j /\ j <= last
                              /\ \A j \in DOMAIN prog.flash : prog.flash[j] \in Word
      BY FlashIs
    <2> QED
      BY <1>1, <2>1 DEF LoopAt
  <1>3. "SUBI" \in ImmediateOp /\ "SBCI" \in ImmediateOp /\ "BRBC" \in FlagOp
    BY DEF ImmediateOp, FlagOp
  <1>4. i + 0 = i /\ 1 \in 1..bytes - 1 /\ (bytes = 3 => 2 \in 1..bytes - 1)
    BY <1>1
  <1>5. Counter(i, 0) \in Register /\ Unfused[i].b \in Byte
    BY <1>3, <1>4, UnfusedIs, Operands DEF Counter
  <1>6. Counter(i, 1) \in Register /\ (bytes = 3 => Counter(i, 2) \in Register)
    BY <1>2, <1>3, <1>4, UnfusedIs, Operands DEF Counter
  <1>7. Unfused[i + bytes].b \in Word
    BY <1>3, UnfusedIs, Operands DEF LoopAt
  <1>8. \A p : Truth(p) \in Int
    BY DEF Truth
  <1>9. Low(c, i) \in Byte
    <2>1. R(c, Counter(i, 0)) - Unfused[i].b \in Int
      BY <1>5, RIsByte, ByteIs
    <2> QED
      BY <2>1, LowByte DEF Low
  <1>10. Middle(c, i) \in Byte
    <2>1. R(c, Counter(i, 1)) - Truth(R(c, Counter(i, 0)) < Unfused[i].b) \in Int
      BY <1>6, <1>8, RIsByte
    <2> QED
      BY <2>1, LowByte DEF Middle
  <1>11. bytes = 3 => High(c, i) \in Byte
    <2>1. bytes = 3 => R(c, Counter(i, 2)) - Truth(R(c, Counter(i, 0)) < Unfused[i].b /\ R(c, Counter(i, 1)) = 0) \in Int
      BY <1>6, <1>8, RIsByte
    <2> QED
      BY <2>1, LowByte DEF High
  <1> QED
    BY <1>5, <1>6, <1>7, <1>9, <1>10, <1>11

LEMMA Delay2Is ==
    ASSUME prog \in Programs, cache = Fuse(Unfused), NEW c \in Cpu, c.pc \in DOMAIN prog.flash,
           cache[c.pc].op = "DELAY2"
    PROVE  LET i == c.pc
               counted == Counted2(c, i)
           IN  /\ Unfused[i].op = "SUBI" /\ LoopAt(i, 2) /\ Unfused[i + 2].b = i
               /\ Delay(c, cache[i]) =
                      IF Low(c, i) # 0 \/ Middle(c, i) # 0
                      THEN Goto(counted, i, 4)
                      ELSE Done([counted EXCEPT !.sreg = Or(And(@, 192), 2)], 3, 3)
  <1> DEFINE i == c.pc
             d == cache[i]
             regs == [k \in 1..2 |-> cache[i + k - 1].a]
             bytes == DelayBytes(c, regs, d.b)
             low == SetR(SetR(c, regs[1], bytes[1]), regs[2], bytes[2])
  <1>1. Unfused[i] \in Instruction /\ i \in Nat
    BY UnfusedIs, WordIs
  <1>2. Unfused[i].op \notin FusedLoopOp
    BY <1>1, Operands
  <1>3. Unfused[i].op = "SUBI" /\ LoopAt(i, 2) /\ Unfused[i + 2].b = i
    BY <1>2, FusedLoops DEF FusedLoopOp
  <1>4. i + 2 \in DOMAIN prog.flash
    BY <1>3 DEF LoopAt
  <1>5. i \in DOMAIN prog.flash /\ i + 1 \in DOMAIN prog.flash
    <2>1. PICK last \in Nat : /\ last <= 65535
                              /\ \A j : j \in DOMAIN prog.flash <=> j \in Int /\ 0 <= j /\ j <= last
                              /\ \A j \in DOMAIN prog.flash : prog.flash[j] \in Word
      BY FlashIs
    <2> QED
      BY <1>1, <1>4, <2>1
  <1>6. cache[i].a = Unfused[i].a /\ cache[i].b = Unfused[i].b /\ cache[i + 1].a = Unfused[i + 1].a
        /\ cache[i + 2].b = Unfused[i + 2].b
    BY <1>4, <1>5, CacheIs
  <1>7. i + 1 - 1 = i + 0 /\ i + 2 - 1 = i + 1 /\ i + 0 = i
    BY <1>1
  <1>8. regs[1] = Counter(i, 0) /\ regs[2] = Counter(i, 1) /\ Len(regs) = 2
    BY <1>6, <1>7 DEF Counter
  <1> HIDE DEF regs
  <1>9. \A p : (Truth(p) = 1) <=> p
    BY DEF Truth
  <1>10. bytes = [k \in 1..2 |-> CASE k = 1 -> (R(c, regs[1]) - d.b) % 256
                                   [] k = 2 -> (R(c, regs[2]) - Truth(R(c, regs[1]) < d.b)) % 256
                                   [] k = 3 -> (R(c, regs[3]) - Truth(Truth(R(c, regs[1]) < d.b) = 1 /\ R(c, regs[2]) = 0)) % 256]
    BY <1>8 DEF DelayBytes
  <1>11. bytes[1] = Low(c, i) /\ bytes[2] = Middle(c, i)
    BY <1>6, <1>8, <1>10 DEF Low, Middle
  <1>12. Delay(c, d) = IF \E k \in 1..2 : bytes[k] # 0
                       THEN Goto(low, cache[i + 2].b, 4)
                       ELSE Done([low EXCEPT !.sreg = Or(And(@, 192), 2)], 3, 3)
    BY DEF Delay, regs
  <1>13. low = Counted2(c, i)
    BY <1>8, <1>11 DEF Counted2
  <1> HIDE DEF bytes, low
  <1>14. (\E k \in 1..2 : bytes[k] # 0) <=> Low(c, i) # 0 \/ Middle(c, i) # 0
    BY <1>11
  <1> QED
    BY <1>3, <1>6, <1>12, <1>13, <1>14

LEMMA Delay3Is ==
    ASSUME prog \in Programs, cache = Fuse(Unfused), NEW c \in Cpu, c.pc \in DOMAIN prog.flash,
           cache[c.pc].op = "DELAY3"
    PROVE  LET i == c.pc
               counted == Counted3(c, i)
           IN  /\ Unfused[i].op = "SUBI" /\ LoopAt(i, 3) /\ Unfused[i + 3].b = i
               /\ Delay(c, cache[i]) =
                      IF Low(c, i) # 0 \/ Middle(c, i) # 0 \/ High(c, i) # 0
                      THEN Goto(counted, i, 5)
                      ELSE Done([counted EXCEPT !.sreg = Or(And(@, 192), 2)], 4, 4)
  <1> DEFINE i == c.pc
             d == cache[i]
             regs == [k \in 1..3 |-> cache[i + k - 1].a]
             bytes == DelayBytes(c, regs, d.b)
             low == SetR(SetR(c, regs[1], bytes[1]), regs[2], bytes[2])
             all == SetR(low, regs[3], bytes[3])
  <1>1. Unfused[i] \in Instruction /\ i \in Nat
    BY UnfusedIs, WordIs
  <1>2. Unfused[i].op \notin FusedLoopOp
    BY <1>1, Operands
  <1>3. Unfused[i].op = "SUBI" /\ LoopAt(i, 3) /\ Unfused[i + 3].b = i
    BY <1>2, FusedLoops DEF FusedLoopOp
  <1>4. i + 3 \in DOMAIN prog.flash
    BY <1>3 DEF LoopAt
  <1>5. i \in DOMAIN prog.flash /\ i + 1 \in DOMAIN prog.flash /\ i + 2 \in DOMAIN prog.flash
    <2>1. PICK last \in Nat : /\ last <= 65535
                              /\ \A j : j \in DOMAIN prog.flash <=> j \in Int /\ 0 <= j /\ j <= last
                              /\ \A j \in DOMAIN prog.flash : prog.flash[j] \in Word
      BY FlashIs
    <2> QED
      BY <1>1, <1>4, <2>1
  <1>6. /\ cache[i].a = Unfused[i].a /\ cache[i].b = Unfused[i].b /\ cache[i + 1].a = Unfused[i + 1].a
        /\ cache[i + 2].a = Unfused[i + 2].a /\ cache[i + 3].b = Unfused[i + 3].b
    BY <1>4, <1>5, CacheIs
  <1>7. i + 1 - 1 = i + 0 /\ i + 2 - 1 = i + 1 /\ i + 3 - 1 = i + 2 /\ i + 0 = i
    BY <1>1
  <1>8. regs[1] = Counter(i, 0) /\ regs[2] = Counter(i, 1) /\ regs[3] = Counter(i, 2) /\ Len(regs) = 3
    BY <1>6, <1>7 DEF Counter
  <1> HIDE DEF regs
  <1>9. \A p : (Truth(p) = 1) <=> p
    BY DEF Truth
  <1> DEFINE b1 == Truth(R(c, regs[1]) < d.b)
             b2 == Truth(b1 = 1 /\ R(c, regs[2]) = 0)
  <1>10. bytes = [k \in 1..3 |-> CASE k = 1 -> (R(c, regs[1]) - d.b) % 256
                                   [] k = 2 -> (R(c, regs[2]) - b1) % 256
                                   [] k = 3 -> (R(c, regs[3]) - b2) % 256]
    BY <1>8 DEF DelayBytes
  <1>11. bytes[1] = Low(c, i) /\ bytes[2] = Middle(c, i)
    BY <1>6, <1>8, <1>10 DEF Low, Middle
  <1>12. b2 = Truth(R(c, regs[1]) < d.b /\ R(c, regs[2]) = 0)
    BY DEF Truth
  <1>13. bytes[3] = (R(c, regs[3]) - b2) % 256
    BY <1>10
  <1>14. bytes[3] = High(c, i)
    BY <1>6, <1>8, <1>12, <1>13 DEF High
  <1>15. Delay(c, d) = IF \E k \in 1..3 : bytes[k] # 0
                       THEN Goto(all, cache[i + 3].b, 5)
                       ELSE Done([all EXCEPT !.sreg = Or(And(@, 192), 2)], 4, 4)
    BY DEF Delay, regs
  <1>16. all = Counted3(c, i)
    BY <1>8, <1>11, <1>14 DEF Counted3, Counted2
  <1> HIDE DEF bytes, low, all
  <1>17. (\E k \in 1..3 : bytes[k] # 0) <=> Low(c, i) # 0 \/ Middle(c, i) # 0 \/ High(c, i) # 0
    BY <1>11, <1>14
  <1> QED
    BY <1>3, <1>6, <1>15, <1>16, <1>17

LEMMA DelayStays ==
    ASSUME prog \in Programs, cache = Fuse(Unfused), NEW c \in Cpu, c.pc \in DOMAIN prog.flash,
           cache[c.pc].op \in {"DELAY2", "DELAY3"}
    PROVE  Delay(c, cache[c.pc]) \in Cpu
  <1> DEFINE i == c.pc
             counted2 == Counted2(c, i)
             counted3 == Counted3(c, i)
  <1>1. i \in Word
    BY UnfusedIs
  <1>2. ASSUME NEW m \in Cpu PROVE /\ Goto(m, i, 4) \in Cpu /\ Goto(m, i, 5) \in Cpu
                                   /\ Done([m EXCEPT !.sreg = Or(And(@, 192), 2)], 3, 3) \in Cpu
                                   /\ Done([m EXCEPT !.sreg = Or(And(@, 192), 2)], 4, 4) \in Cpu
    <2>1. m.sreg \in Byte
      BY CpuFields
    <2>2. Or(And(m.sreg, 192), 2) \in Byte
      BY <2>1, SmallBytes, AndIsByte, OrXorAreBytes
    <2>3. [m EXCEPT !.sreg = Or(And(m.sreg, 192), 2)] \in Cpu
      BY <2>2, SregStays
    <2> QED
      BY <1>1, <2>3, Costs, GotoStays, DoneStays
  <1>3. CASE cache[i].op = "DELAY2"
    <2>1. Unfused[i].op = "SUBI" /\ LoopAt(i, 2)
      BY <1>3, Delay2Is
    <2>2. /\ Counter(i, 0) \in Register /\ Counter(i, 1) \in Register
          /\ Low(c, i) \in Byte /\ Middle(c, i) \in Byte
      BY <2>1, CounterIs
    <2>3. counted2 \in Cpu
      BY <2>2, RegStays DEF Counted2
    <2> QED
      BY <1>2, <1>3, <2>3, Delay2Is, ZenonT(60)
  <1>4. CASE cache[i].op = "DELAY3"
    <2>1. Unfused[i].op = "SUBI" /\ LoopAt(i, 3)
      BY <1>4, Delay3Is
    <2>2. /\ Counter(i, 0) \in Register /\ Counter(i, 1) \in Register /\ Counter(i, 2) \in Register
          /\ Low(c, i) \in Byte /\ Middle(c, i) \in Byte /\ High(c, i) \in Byte
      BY <2>1, CounterIs
    <2>3. counted3 \in Cpu
      BY <2>2, RegStays DEF Counted2, Counted3
    <2> QED
      BY <1>2, <1>4, <2>3, Delay3Is, ZenonT(60)
  <1> QED
    BY <1>3, <1>4
-----------------------------------------------------------------------------
(***************************************************************************)
(* Every instruction leaves a core of the right type.                      *)
(***************************************************************************)
LEMMA KindsOfOperation ==
    ASSUME NEW d \in Instruction
    PROVE  d.op \in TwoRegisterOp \cup {"MOVW"} \cup ImmediateOp \cup OneRegisterOp \cup IndexedOp \cup WordOp
                    \cup PortOp \cup PortBitOp \cup RegisterBitOp \cup FlagOp \cup DirectOp \cup TargetOp \cup BareOp
  BY DEF Instruction

LEMMA OperationStays ==
    ASSUME prog \in Programs, NEW c \in Cpu, NEW d \in Instruction
    PROVE  Operation(c, d) \in Cpu
  <1>1. CASE d.op \in {"ADD", "ADC"}
    BY <1>1, AddStays DEF Operation
  <1>2. CASE d.op \in {"SUB", "SBC", "CP", "CPC", "SUBI", "SBCI", "CPI"}
    BY <1>2, SubtractStays DEF Operation
  <1>3. CASE d.op \in {"AND", "OR", "EOR", "ANDI", "ORI"}
    BY <1>3, LogicStays DEF Operation
  <1>4. CASE d.op \in {"COM", "NEG", "SWAP", "INC", "DEC"}
    BY <1>4, OneRegisterStays DEF Operation, OneRegisterOp
  <1>5. CASE d.op \in {"ASR", "LSR", "ROR"}
    BY <1>5, ShiftStays DEF Operation
  <1>6. CASE d.op \in {"LDI", "MOV", "MOVW"}
    BY <1>6, MoveStays DEF Operation
  <1>7. CASE d.op \in {"ADIW", "SBIW"}
    BY <1>7, AddWordStays DEF Operation
  <1>8. CASE d.op \in {"MUL", "MULS", "MULSU", "FMUL", "FMULS", "FMULSU"}
    BY <1>8, MultiplyStays DEF Operation
  <1>9. CASE d.op \in {"IN", "OUT"}
    BY <1>9, PortsStay DEF Operation, PortOp
  <1>10. CASE d.op \in {"CBI", "SBI"}
    BY <1>10, IoBitStays DEF Operation
  <1>11. CASE d.op \in {"CPSE", "SBRC", "SBRS", "SBIC", "SBIS"}
    BY <1>11, SkipStays DEF Operation
  <1>12. CASE d.op \in {"RJMP", "JMP", "IJMP"}
    BY <1>12, JumpStays DEF Operation
  <1>13. CASE d.op \in {"RCALL", "CALL", "ICALL"}
    BY <1>13, CallStays DEF Operation
  <1>14. CASE d.op \in {"RET", "RETI"}
    BY <1>14, ReturnStays DEF Operation
  <1>15. CASE d.op \in {"BRBS", "BRBC"}
    BY <1>15, BranchStays DEF Operation
  <1>16. CASE d.op \in {"BSET", "BCLR", "BST", "BLD"}
    BY <1>16, FlagBitStays DEF Operation
  <1>17. CASE d.op \in LoadOps
    BY <1>17, IndirectStays DEF Operation, LoadOps
  <1>18. CASE d.op \in StoreOps
    BY <1>18, IndirectStays DEF Operation, StoreOps
  <1>19. CASE d.op \in {"LDS", "STS"}
    BY <1>19, DirectStays DEF Operation
  <1>20. CASE d.op \in {"PUSH", "POP"}
    BY <1>20, PushPopStay DEF Operation
  <1>21. CASE d.op \in {"LPM_R0", "LPM_RD", "LPM_RDP"}
    BY <1>21, LpmStays DEF Operation
  <1>22. CASE d.op \in {"NOP", "WDR", "SPM", "DATA", "SLEEP", "BREAK", "FAULT"}
    BY <1>22, BareStay DEF Operation
  <1>23. \/ d.op \in {"ADD", "ADC"} \/ d.op \in {"SUB", "SBC", "CP", "CPC", "SUBI", "SBCI", "CPI"}
         \/ d.op \in {"AND", "OR", "EOR", "ANDI", "ORI"} \/ d.op \in {"COM", "NEG", "SWAP", "INC", "DEC"}
         \/ d.op \in {"ASR", "LSR", "ROR"} \/ d.op \in {"LDI", "MOV", "MOVW"} \/ d.op \in {"ADIW", "SBIW"}
         \/ d.op \in {"MUL", "MULS", "MULSU", "FMUL", "FMULS", "FMULSU"} \/ d.op \in {"IN", "OUT"} \/ d.op \in {"CBI", "SBI"}
         \/ d.op \in {"CPSE", "SBRC", "SBRS", "SBIC", "SBIS"} \/ d.op \in {"RJMP", "JMP", "IJMP"}
         \/ d.op \in {"RCALL", "CALL", "ICALL"} \/ d.op \in {"RET", "RETI"} \/ d.op \in {"BRBS", "BRBC"}
         \/ d.op \in {"BSET", "BCLR", "BST", "BLD"} \/ d.op \in LoadOps \/ d.op \in StoreOps \/ d.op \in {"LDS", "STS"}
         \/ d.op \in {"PUSH", "POP"} \/ d.op \in {"LPM_R0", "LPM_RD", "LPM_RDP"}
         \/ d.op \in {"NOP", "WDR", "SPM", "DATA", "SLEEP", "BREAK", "FAULT"}
    BY KindsOfOperation DEF TwoRegisterOp, ImmediateOp, OneRegisterOp, IndexedOp, WordOp, PortOp, PortBitOp,
       RegisterBitOp, FlagOp, DirectOp, TargetOp, BareOp, LoadOps, StoreOps
  <1> QED
    BY <1>1, <1>2, <1>3, <1>4, <1>5, <1>6, <1>7, <1>8, <1>9, <1>10, <1>11, <1>12, <1>13, <1>14, <1>15, <1>16, <1>17, <1>18, <1>19, <1>20, <1>21, <1>22, <1>23, Zenon

LEMMA EntryStays ==
    ASSUME prog \in Programs, cache = Fuse(Unfused), cpu \in Cpu, cpu.pc \in DOMAIN prog.flash
    PROVE  Operation(cpu, cache[cpu.pc]) \in Cpu
  <1> DEFINE d == cache[cpu.pc]
  <1>1. CASE d = Unfused[cpu.pc]
    BY <1>1, UnfusedIs, OperationStays
  <1>2. CASE d.op \in {"SUBI_BRNE", "DEC_BRNE"}
    BY <1>2, CountAndBranchStays DEF Operation
  <1>3. CASE d.op \in {"DELAY2", "DELAY3"}
    BY <1>3, DelayStays DEF Operation
  <1> QED
    BY <1>1, <1>2, <1>3, FusedLoops

LEMMA ResetIs == Reset \in Cpu
  <1> DEFINE data == [a \in DataAddr |-> CASE a = SPL -> (DataSize - 1) % 256
                                            [] a = SPH -> (DataSize - 1) \div 256
                                            [] OTHER -> 0]
  <1>1. DataSize - 1 \in Word /\ DataSize - 1 \in Int
    BY MemoryIs, WordIs
  <1>2. (DataSize - 1) % 256 \in Byte /\ (DataSize - 1) \div 256 \in Byte
    BY <1>1, LowByte, HighByte
  <1>3. data \in [DataAddr -> Byte]
    BY <1>2, SmallBytes
  <1>4. 0 \in Word /\ 0 \in Byte
    BY WordIs, SmallBytes
  <1>5. Reset = [ pc |-> 0, sreg |-> 0, sp |-> DataSize - 1, state |-> "RUNNING", cycles |-> 0, data |-> data ]
    BY DEF Reset
  <1> HIDE DEF data
  <1> QED
    BY <1>1, <1>3, <1>4, <1>5 DEF Cpu

\* The inductive invariant: the types, and the cache is that of the program.
Sound == /\ cpu \in Cpu
         /\ prog \in Programs
         /\ cache = Fuse(Unfused)

LEMMA SoundHolds == ExecSpec => []Sound
  <1>1. ExecInit => Sound
    BY ResetIs DEF ExecInit, Sound, Unfused
  <1>2. Sound /\ [Step]_execVars => Sound'
    <2> SUFFICES ASSUME Sound, [Step]_execVars PROVE Sound'
      OBVIOUS
    <2>1. CASE Step
      <3>1. cpu' = Operation(cpu, cache[cpu.pc]) /\ cpu.pc \in DOMAIN prog.flash /\ prog' = prog /\ cache' = cache
        BY <2>1 DEF Step
      <3>2. cpu' \in Cpu
        BY <3>1, EntryStays DEF Sound
      <3> QED
        BY <3>1, <3>2 DEF Sound, Unfused
    <2>2. CASE UNCHANGED execVars
      BY <2>2 DEF execVars, Sound, Unfused
    <2> QED
      BY <2>1, <2>2
  <1> QED
    BY <1>1, <1>2, PTL DEF ExecSpec

THEOREM AvrTypeCorrect == ExecSpec => []ExecTypeOK
  <1>1. Sound => ExecTypeOK
    BY DEF Sound, ExecTypeOK
  <1> QED
    BY <1>1, SoundHolds, PTL
-----------------------------------------------------------------------------
(***************************************************************************)
(* What the instructions of a counting loop do, field by field.            *)
(***************************************************************************)
LEMMA SameCpu ==
    ASSUME NEW c \in Cpu, NEW d \in Cpu, c.pc = d.pc, c.sreg = d.sreg, c.sp = d.sp, c.state = d.state,
           c.cycles = d.cycles, c.data = d.data
    PROVE  c = d
  BY DEF Cpu

LEMMA SameByte ==
    ASSUME NEW x \in Byte, NEW y \in Byte, \A k \in 0..7 : Bit(x, k) = Bit(y, k)
    PROVE  x = y
  <1>1. /\ Bit(x, 0) = Bit(y, 0) /\ Bit(x, 1) = Bit(y, 1) /\ Bit(x, 2) = Bit(y, 2) /\ Bit(x, 3) = Bit(y, 3)
        /\ Bit(x, 4) = Bit(y, 4) /\ Bit(x, 5) = Bit(y, 5) /\ Bit(x, 6) = Bit(y, 6) /\ Bit(x, 7) = Bit(y, 7)
    OBVIOUS
  <1> DEFINE sum(v) == Bit(v, 0) + 2 * Bit(v, 1) + 4 * Bit(v, 2) + 8 * Bit(v, 3)
                       + 16 * Bit(v, 4) + 32 * Bit(v, 5) + 64 * Bit(v, 6) + 128 * Bit(v, 7)
  <1>2. sum(x) = sum(y)
    BY <1>1
  <1>3. x = sum(x) /\ y = sum(y)
    BY SumOfBits
  <1> QED
    BY <1>2, <1>3, Zenon

LEMMA SetRIs ==
    ASSUME NEW c \in Cpu, NEW n \in Register, NEW v \in Byte
    PROVE  LET s == SetR(c, n, v)
           IN  /\ s \in Cpu /\ s.pc = c.pc /\ s.sreg = c.sreg /\ s.sp = c.sp /\ s.state = c.state
               /\ s.cycles = c.cycles /\ s.data = [c.data EXCEPT ![n] = v]
               /\ \A m \in Register : R(s, m) = IF m = n THEN v ELSE R(c, m)
  <1> DEFINE s == SetR(c, n, v)
  <1>1. s \in Cpu
    BY RegStays
  <1>2. /\ s.pc = c.pc /\ s.sreg = c.sreg /\ s.sp = c.sp /\ s.state = c.state
        /\ s.cycles = c.cycles /\ s.data = [c.data EXCEPT ![n] = v]
    BY DEF SetR, Cpu
  <1>3. \A m \in Register : R(s, m) = IF m = n THEN v ELSE R(c, m)
    BY <1>2, Places, CpuFields DEF R
  <1> QED
    BY <1>1, <1>2, <1>3

\* The core s is c at another instruction and another time.
Moved(c, s, pc, cycles) ==
    /\ s \in Cpu /\ s.pc = pc /\ s.cycles = cycles
    /\ s.sreg = c.sreg /\ s.sp = c.sp /\ s.state = c.state /\ s.data = c.data

Ahead(c, words) == (c.pc + words) % 65536
Later(c, cost) == c.cycles + cost

LEMMA GoneIs ==
    ASSUME NEW c \in Cpu, NEW pc \in Word, NEW cycles \in Nat
    PROVE  Moved(c, [c EXCEPT !.pc = pc, !.cycles = cycles], pc, cycles)
  BY DEF Moved, Cpu

LEMMA DoneIs ==
    ASSUME NEW c \in Cpu, NEW words \in Nat, NEW cost \in Nat
    PROVE  Moved(c, Done(c, words, cost), Ahead(c, words), Later(c, cost))
  <1> DEFINE pc == (c.pc + words) % 65536
             cycles == c.cycles + cost
  <1>1. c.pc + words \in Int /\ cycles \in Nat
    BY CpuFields, WordIs
  <1>2. pc \in Word
    BY <1>1, LowWord
  <1>3. Done(c, words, cost) = [c EXCEPT !.pc = pc, !.cycles = cycles]
    BY DEF Done
  <1> HIDE DEF pc, cycles
  <1>4. Moved(c, Done(c, words, cost), pc, cycles)
    BY <1>1, <1>2, <1>3, GoneIs
  <1> QED
    BY <1>4 DEF pc, cycles, Ahead, Later

LEMMA GotoIs ==
    ASSUME NEW c \in Cpu, NEW pc \in Word, NEW cost \in Nat
    PROVE  Moved(c, Goto(c, pc, cost), pc, Later(c, cost))
  <1> DEFINE cycles == c.cycles + cost
  <1>1. cycles \in Nat
    BY CpuFields
  <1>2. Goto(c, pc, cost) = [c EXCEPT !.pc = pc, !.cycles = cycles]
    BY DEF Goto
  <1> HIDE DEF cycles
  <1>3. Moved(c, Goto(c, pc, cost), pc, cycles)
    BY <1>1, <1>2, GoneIs
  <1> QED
    BY <1>3 DEF cycles, Later

LEMMA SameMoved ==
    ASSUME NEW c, NEW pc, NEW cycles, NEW s, NEW t, Moved(c, s, pc, cycles), Moved(c, t, pc, cycles)
    PROVE  s = t
  BY SameCpu DEF Moved

LEMMA MovedTwice ==
    ASSUME NEW c, NEW s, NEW t, NEW pc, NEW cycles, NEW pc2, NEW cycles2,
           Moved(c, s, pc, cycles), Moved(s, t, pc2, cycles2)
    PROVE  Moved(c, t, pc2, cycles2)
  BY DEF Moved

LEMMA FlagsOfRow ==
    ASSUME NEW c \in Cpu, NEW flags \in SUBSET (0..7), NEW row, \A k \in flags : row[k + 1] \in 0..1,
           NEW s, s = PutFlags(c, flags, row)
    PROVE  /\ s \in Cpu /\ s.pc = c.pc /\ s.sp = c.sp /\ s.state = c.state /\ s.cycles = c.cycles /\ s.data = c.data
           /\ \A k \in 0..7 : Bit(s.sreg, k) = IF k \in flags THEN row[k + 1] ELSE Bit(c.sreg, k)
  <1>1. /\ s \in Cpu /\ s = [c EXCEPT !.sreg = s.sreg]
        /\ \A k \in 0..7 : Bit(s.sreg, k) = IF k \in flags THEN row[k + 1] ELSE Bit(c.sreg, k)
    BY PutFlagsStays
  <1>2. /\ s.pc = c.pc /\ s.sp = c.sp /\ s.state = c.state /\ s.cycles = c.cycles /\ s.data = c.data
    BY <1>1 DEF Cpu
  <1> QED
    BY <1>1, <1>2

LEMMA TopBit ==
    ASSUME NEW x \in Byte
    PROVE  Bit(x, 7) = IF x >= 128 THEN 1 ELSE 0
  <1>1. Bit(x, 7) = (x \div 128) % 2
    BY BitsOfByte, ByteIsNat
  <1> QED
    BY <1>1, ByteIs

\* The carry flag of a subtraction is its borrow.
LEMMA BorrowIs ==
    ASSUME NEW x \in Byte, NEW y \in Byte, NEW carry \in 0..1, NEW r, r = (x - y - carry) % 256
    PROVE  BorrowAt(7, x, y, r) = Truth(x < y + carry)
  <1>1. x \in Int /\ 0 <= x /\ x <= 255 /\ y \in Int /\ 0 <= y /\ y <= 255
    BY ByteIs
  <1>2. r \in Byte
    BY <1>1, LowByte
  <1>3. Bit(x, 7) = (IF x >= 128 THEN 1 ELSE 0) /\ Bit(y, 7) = (IF y >= 128 THEN 1 ELSE 0)
        /\ Bit(r, 7) = (IF r >= 128 THEN 1 ELSE 0)
    BY <1>2, TopBit
  <1>4. r = IF x < y + carry THEN x - y - carry + 256 ELSE x - y - carry
    BY <1>1
  <1>5. (\/ Bit(x, 7) = 0 /\ Bit(y, 7) = 1
         \/ Bit(y, 7) = 1 /\ Bit(r, 7) = 1
         \/ Bit(r, 7) = 1 /\ Bit(x, 7) = 0) <=> x < y + carry
    BY <1>1, <1>3, <1>4
  <1> QED
    BY <1>5 DEF BorrowAt, Truth

LEMMA FlagsSubIs ==
    ASSUME NEW c \in Cpu, NEW x \in Byte, NEW y \in Byte, NEW r \in Byte, NEW keepZ,
           NEW s, s = FlagsSub(c, x, y, r, keepZ)
    PROVE      /\ s \in Cpu /\ s.pc = c.pc /\ s.sp = c.sp /\ s.state = c.state /\ s.cycles = c.cycles /\ s.data = c.data
               /\ On(s, C) <=> BorrowAt(7, x, y, r) = 1
               /\ On(s, Z) <=> r = 0 /\ (keepZ => On(c, Z))
               /\ Bit(s.sreg, 6) = Bit(c.sreg, 6) /\ Bit(s.sreg, 7) = Bit(c.sreg, 7)
               /\ x = 0 /\ y = 0 /\ r = 0 => /\ Bit(s.sreg, 2) = 0 /\ Bit(s.sreg, 3) = 0
                                                 /\ Bit(s.sreg, 4) = 0 /\ Bit(s.sreg, 5) = 0
  <1> DEFINE borrow == BorrowAt(7, x, y, r)
             zero == Truth(r = 0 /\ (keepZ => On(c, Z)))
             neg == Bit(r, 7)
             over == Truth(Bit(x, 7) # Bit(y, 7) /\ Bit(x, 7) # Bit(r, 7))
             half == BorrowAt(3, x, y, r)
             row == Row(borrow, zero, neg, over, half)
  <1>2. /\ borrow \in 0..1 /\ zero \in 0..1 /\ neg \in 0..1 /\ over \in 0..1 /\ half \in 0..1
    BY TruthIsBit, ByteIsNat, AnyBitIsBit DEF BorrowAt
  <1>3. s = PutFlags(c, C..H, row)
    BY DEF FlagsSub
  <1>5. x = 0 /\ y = 0 /\ r = 0 => neg = 0 /\ over = 0 /\ half = 0
    <2>2. Bit(0, 7) = 0 /\ Bit(0, 3) = 0
      BY BitsOfByte
    <2>3. x = 0 /\ y = 0 /\ r = 0 => neg = 0 /\ over = 0 /\ half = 0
      BY <2>2, Zenon DEF BorrowAt, Truth
    <2> QED
      BY <2>3
  <1>6. zero = 1 <=> r = 0 /\ (keepZ => On(c, Z))
    BY DEF Truth
  <1>7. neg = 0 /\ over = 0 => Truth(neg # over) = 0
    BY DEF Truth
  <1>13. borrow = BorrowAt(7, x, y, r)
    OBVIOUS
  <1> HIDE DEF borrow, zero, neg, over, half
  <1>8. row[1] = borrow /\ row[2] = zero /\ row[3] = neg /\ row[4] = over /\ row[5] = Truth(neg # over) /\ row[6] = half
    BY <1>2, RowIs
  <1> HIDE DEF row
  <1>9. /\ s \in Cpu /\ s.pc = c.pc /\ s.sp = c.sp /\ s.state = c.state /\ s.cycles = c.cycles /\ s.data = c.data
        /\ \A k \in 0..7 : Bit(s.sreg, k) = IF k \in C..H THEN row[k + 1] ELSE Bit(c.sreg, k)
    <2> DEFINE flags == C..H
    <2>1. flags \in SUBSET (0..7) /\ s = PutFlags(c, flags, row) /\ \A k \in flags : k \in 0..5
      BY <1>3, FlagNumbers
    <2>3. \A k \in flags : row[k + 1] \in 0..1
      <3>1. \A k \in 0..5 : row[k + 1] \in 0..1
        BY <1>2, RowIs DEF row
      <3> QED
        BY <2>1, <3>1
    <2> HIDE DEF flags
    <2>2. /\ s \in Cpu /\ s.pc = c.pc /\ s.sp = c.sp /\ s.state = c.state /\ s.cycles = c.cycles /\ s.data = c.data
          /\ \A k \in 0..7 : Bit(s.sreg, k) = IF k \in flags THEN row[k + 1] ELSE Bit(c.sreg, k)
      BY <2>1, <2>3, FlagsOfRow
    <2> QED
      BY <2>2 DEF flags
  <1>10. /\ Bit(s.sreg, 0) = row[1] /\ Bit(s.sreg, 1) = row[2] /\ Bit(s.sreg, 2) = row[3] /\ Bit(s.sreg, 3) = row[4]
         /\ Bit(s.sreg, 4) = row[5] /\ Bit(s.sreg, 5) = row[6]
         /\ Bit(s.sreg, 6) = Bit(c.sreg, 6) /\ Bit(s.sreg, 7) = Bit(c.sreg, 7)
    BY <1>9, FlagNumbers
  <1>11. On(s, C) <=> Bit(s.sreg, 0) = 1
    BY FlagNumbers DEF On
  <1>12. On(s, Z) <=> Bit(s.sreg, 1) = 1
    BY FlagNumbers DEF On
  <1> QED
    BY <1>5, <1>6, <1>7, <1>8, <1>9, <1>10, <1>11, <1>12, <1>13

\* SUBI and SBCI: the carry they take and the byte they leave.
CarryIn(c, d) == Truth(d.op = "SBCI" /\ On(c, C))
Rest(c, d) == (R(c, d.a) - d.b - CarryIn(c, d)) % 256

LEMMA RestIs ==
    ASSUME NEW c \in Cpu, NEW d, d.a \in Register, d.b \in Byte
    PROVE  /\ CarryIn(c, d) \in 0..1 /\ Rest(c, d) \in Byte /\ R(c, d.a) \in Byte
           /\ BorrowAt(7, R(c, d.a), d.b, Rest(c, d)) = 1 <=> R(c, d.a) < d.b + CarryIn(c, d)
           /\ R(c, d.a) = 0 /\ d.b = 0 /\ CarryIn(c, d) = 0 => Rest(c, d) = 0
  <1> DEFINE x == R(c, d.a)
             y == d.b
             carry == CarryIn(c, d)
             r == Rest(c, d)
  <1>1. x \in Byte /\ y \in Byte /\ carry \in 0..1
    BY RIsByte, TruthIsBit DEF CarryIn
  <1>2. r = (x - y - carry) % 256
    BY DEF Rest
  <1> HIDE DEF x, y, carry, r
  <1>3. x \in Int /\ y \in Int
    BY <1>1, ByteIs
  <1>4. r \in Byte
    <2>1. x - y - carry \in Int
      BY <1>1, <1>3
    <2> QED
      BY <1>2, <2>1, LowByte
  <1>5. BorrowAt(7, x, y, r) = Truth(x < y + carry)
    BY <1>1, <1>2, BorrowIs
  <1>6. BorrowAt(7, x, y, r) = 1 <=> x < y + carry
    BY <1>5 DEF Truth
  <1>7. x = 0 /\ y = 0 /\ carry = 0 => r = 0
    BY <1>2
  <1> QED
    BY <1>1, <1>4, <1>6, <1>7 DEF x, y, carry, r

LEMMA CountIs ==
    ASSUME NEW c \in Cpu, NEW d \in Instruction, d.op \in {"SUBI", "SBCI"}, NEW s, s = Subtract(c, d)
    PROVE  /\ d.a \in Register /\ d.b \in Byte
           /\ s \in Cpu /\ s.pc = (c.pc + 1) % 65536 /\ s.sp = c.sp /\ s.state = c.state
           /\ s.cycles = c.cycles + 1 /\ s.data = [c.data EXCEPT ![d.a] = Rest(c, d)]
           /\ \A m \in Register : R(s, m) = IF m = d.a THEN Rest(c, d) ELSE R(c, m)
           /\ On(s, C) <=> R(c, d.a) < d.b + CarryIn(c, d)
           /\ On(s, Z) <=> Rest(c, d) = 0 /\ (d.op = "SBCI" => On(c, Z))
           /\ Bit(s.sreg, 6) = Bit(c.sreg, 6) /\ Bit(s.sreg, 7) = Bit(c.sreg, 7)
           /\ R(c, d.a) = 0 /\ d.b = 0 /\ CarryIn(c, d) = 0 =>
                  Bit(s.sreg, 2) = 0 /\ Bit(s.sreg, 3) = 0 /\ Bit(s.sreg, 4) = 0 /\ Bit(s.sreg, 5) = 0
  <1> DEFINE keepZ == d.op = "SBCI"
             x == R(c, d.a)
             y == d.b
             r == Rest(c, d)
             kept == SetR(c, d.a, r)
             flagged == FlagsSub(kept, x, y, r, keepZ)
  <1>1. d.op \in ImmediateOp
    BY DEF ImmediateOp
  <1>2. d.a \in Register /\ d.b \in Byte
    BY <1>1, Operands
  <1>3. /\ x \in Byte /\ r \in Byte /\ y \in Byte
        /\ BorrowAt(7, x, y, r) = 1 <=> x < y + CarryIn(c, d)
        /\ x = 0 /\ y = 0 /\ CarryIn(c, d) = 0 => r = 0
    BY <1>2, RestIs
  <1>5. s = Done(flagged, 1, 1)
    <2>1. CASE d.op = "SUBI"
      <3>1. (d.op \in {"SBC", "SBCI", "CPC"}) = FALSE /\ (d.op = "SBCI") = FALSE
        BY <2>1
      <3>2. d.op \in {"SUBI", "SBCI", "CPI"} /\ d.op \notin {"CP", "CPC", "CPI"}
        BY <2>1
      <3> QED
        BY <3>1, <3>2, ZenonT(60) DEF Subtract, Rest, CarryIn
    <2>2. CASE d.op = "SBCI"
      <3>1. (d.op \in {"SBC", "SBCI", "CPC"}) = TRUE /\ (d.op = "SBCI") = TRUE
        BY <2>2
      <3>2. d.op \in {"SUBI", "SBCI", "CPI"} /\ d.op \notin {"CP", "CPC", "CPI"}
        BY <2>2
      <3> QED
        BY <3>1, <3>2, ZenonT(60) DEF Subtract, Rest, CarryIn
    <2> QED
      BY <2>1, <2>2
  <1> HIDE DEF kept
  <1>6. /\ kept \in Cpu /\ kept.pc = c.pc /\ kept.sreg = c.sreg /\ kept.sp = c.sp /\ kept.state = c.state
        /\ kept.cycles = c.cycles /\ kept.data = [c.data EXCEPT ![d.a] = r]
        /\ \A m \in Register : R(kept, m) = IF m = d.a THEN r ELSE R(c, m)
    BY <1>2, <1>3, SetRIs DEF kept
  <1> HIDE DEF keepZ, flagged, x, y, r
  <1>8. flagged = FlagsSub(kept, x, y, r, keepZ)
    BY DEF flagged
  <1>9. /\ flagged \in Cpu /\ flagged.pc = kept.pc /\ flagged.sp = kept.sp /\ flagged.state = kept.state
        /\ flagged.cycles = kept.cycles /\ flagged.data = kept.data
        /\ On(flagged, C) <=> BorrowAt(7, x, y, r) = 1
        /\ On(flagged, Z) <=> r = 0 /\ (keepZ => On(kept, Z))
        /\ Bit(flagged.sreg, 6) = Bit(kept.sreg, 6) /\ Bit(flagged.sreg, 7) = Bit(kept.sreg, 7)
        /\ x = 0 /\ y = 0 /\ r = 0 => /\ Bit(flagged.sreg, 2) = 0 /\ Bit(flagged.sreg, 3) = 0
                                      /\ Bit(flagged.sreg, 4) = 0 /\ Bit(flagged.sreg, 5) = 0
    BY <1>3, <1>6, <1>8, FlagsSubIs
  <1>9a. flagged \in Cpu
    BY <1>9
  <1>9b. Moved(flagged, s, Ahead(flagged, 1), Later(flagged, 1))
    BY <1>5, <1>9a, Costs, DoneIs
  <1>10. /\ s \in Cpu /\ s.pc = (flagged.pc + 1) % 65536 /\ s.sreg = flagged.sreg /\ s.sp = flagged.sp
         /\ s.state = flagged.state /\ s.cycles = flagged.cycles + 1 /\ s.data = flagged.data
    BY <1>9b DEF Moved, Ahead, Later
  <1>11. On(kept, Z) <=> On(c, Z)
    BY <1>6 DEF On
  <1>12. (On(s, C) <=> On(flagged, C)) /\ (On(s, Z) <=> On(flagged, Z))
    BY <1>10 DEF On
  <1>13. \A m \in Register : R(s, m) = IF m = d.a THEN r ELSE R(c, m)
    BY <1>6, <1>9, <1>10 DEF R
  <1> QED
    BY <1>2, <1>3, <1>6, <1>9, <1>10, <1>11, <1>12, <1>13 DEF keepZ, x, y, r

LEMMA DecIs ==
    ASSUME NEW c \in Cpu, NEW n \in Register, NEW r \in Byte,
           NEW flagged, flagged = FlagsDec(SetR(c, n, r), r)
    PROVE  /\ flagged \in Cpu /\ flagged.pc = c.pc /\ flagged.sp = c.sp /\ flagged.state = c.state
           /\ flagged.cycles = c.cycles
           /\ On(flagged, Z) <=> r = 0
  <1> DEFINE kept == SetR(c, n, r)
             zero == Truth(r = 0)
             over == Truth(r = 127)
             row == Row(0, zero, Bit(r, 7), over, 0)
             flags == Z..S
  <1>4. flagged = PutFlags(kept, flags, row)
    BY DEF FlagsDec, FlagsOf
  <1> HIDE DEF kept
  <1>3. /\ kept \in Cpu /\ kept.pc = c.pc /\ kept.sreg = c.sreg /\ kept.sp = c.sp /\ kept.state = c.state
        /\ kept.cycles = c.cycles
    BY SetRIs, ZenonT(60) DEF kept
  <1>5. zero \in 0..1 /\ Bit(r, 7) \in 0..1 /\ over \in 0..1 /\ 0 \in 0..1
    BY TruthIsBit, ByteIsNat, AnyBitIsBit
  <1>6. zero = 1 <=> r = 0
    BY DEF Truth
  <1> HIDE DEF zero, over, kept
  <1>7. row[2] = zero /\ \A k \in 0..5 : row[k + 1] \in 0..1
    BY <1>5, RowIs
  <1> HIDE DEF row
  <1>8. flags \in SUBSET (0..7) /\ 1 \in flags /\ \A k \in flags : k \in 0..5
    BY FlagNumbers
  <1>9. \A k \in flags : row[k + 1] \in 0..1
    BY <1>7, <1>8
  <1> HIDE DEF flags
  <1>10. /\ flagged \in Cpu /\ flagged.pc = kept.pc /\ flagged.sp = kept.sp /\ flagged.state = kept.state
         /\ flagged.cycles = kept.cycles
         /\ \A k \in 0..7 : Bit(flagged.sreg, k) = IF k \in flags THEN row[k + 1] ELSE Bit(kept.sreg, k)
    BY <1>3, <1>4, <1>8, <1>9, FlagsOfRow
  <1>11. Bit(flagged.sreg, 1) = row[2]
    BY <1>8, <1>10
  <1>12. On(flagged, Z) <=> r = 0
    BY <1>6, <1>7, <1>11, FlagNumbers DEF On
  <1> QED
    BY <1>3, <1>10, <1>12

LEMMA BranchIs ==
    ASSUME NEW c \in Cpu, NEW d \in Instruction, d.op = "BRBC", d.a = 2
    PROVE  /\ Branch(c, d) = IF On(c, Z) THEN Done(c, 1, 1) ELSE Goto(c, d.b, 2)
           /\ d.b \in Word
  <1>1. c.sreg \in Byte /\ 2 \in Byte
    BY CpuFields, SmallBytes
  <1>2. And(c.sreg, 2) \in Byte /\ \A k \in 0..7 : Bit(And(c.sreg, 2), k) = Bit(c.sreg, k) * Bit(2, k)
    BY <1>1, AndIsByte
  <1>3. /\ Bit(2, 0) = 0 /\ Bit(2, 1) = 1 /\ Bit(2, 2) = 0 /\ Bit(2, 3) = 0 /\ Bit(2, 4) = 0 /\ Bit(2, 5) = 0
        /\ Bit(2, 6) = 0 /\ Bit(2, 7) = 0
    BY BitsOfByte
  <1>4. /\ 0 \in 0..7 /\ 1 \in 0..7 /\ 2 \in 0..7 /\ 3 \in 0..7 /\ 4 \in 0..7 /\ 5 \in 0..7 /\ 6 \in 0..7 /\ 7 \in 0..7
    OBVIOUS
  <1>5. \A k \in 0..7 : Bit(c.sreg, k) \in 0..1
    BY <1>1, ByteIsNat, BitIsBit
  <1> DEFINE m == And(c.sreg, 2)
  <1> HIDE DEF m
  <1>6. /\ Bit(m, 0) = 0 /\ Bit(m, 1) = Bit(c.sreg, 1) /\ Bit(m, 2) = 0 /\ Bit(m, 3) = 0 /\ Bit(m, 4) = 0
        /\ Bit(m, 5) = 0 /\ Bit(m, 6) = 0 /\ Bit(m, 7) = 0
    BY <1>2, <1>3, <1>4, <1>5 DEF m
  <1>7. m = 2 * Bit(c.sreg, 1)
    <2>1. m \in Byte
      BY <1>2 DEF m
    <2>2. m = Bit(m, 0) + 2 * Bit(m, 1) + 4 * Bit(m, 2) + 8 * Bit(m, 3)
              + 16 * Bit(m, 4) + 32 * Bit(m, 5) + 64 * Bit(m, 6) + 128 * Bit(m, 7)
      BY <2>1, SumOfBits
    <2>3. Bit(c.sreg, 1) \in 0..1
      BY <1>4, <1>5
    <2> QED
      BY <1>6, <2>2, <2>3
  <1>8. m # 0 <=> On(c, Z)
    <2>1. Bit(c.sreg, 1) \in 0..1
      BY <1>4, <1>5
    <2>2. m # 0 <=> Bit(c.sreg, 1) = 1
      BY <1>7, <2>1
    <2> QED
      BY <2>2, FlagNumbers DEF On
  <1>9. Branch(c, d) = IF m # 0 THEN Done(c, 1, 1) ELSE Goto(c, d.b, 2)
    BY DEF Branch, m
  <1>10. d.op \in FlagOp
    BY DEF FlagOp
  <1> QED
    BY <1>8, <1>9, <1>10, Operands

\* SREG at the end of a delay loop.
LEMMA FlagsAtExit ==
    ASSUME NEW v \in Byte
    PROVE  LET s == Or(And(v, 192), 2)
           IN  /\ s \in Byte /\ Bit(s, 0) = 0 /\ Bit(s, 1) = 1 /\ Bit(s, 2) = 0 /\ Bit(s, 3) = 0
               /\ Bit(s, 4) = 0 /\ Bit(s, 5) = 0 /\ Bit(s, 6) = Bit(v, 6) /\ Bit(s, 7) = Bit(v, 7)
  <1> DEFINE m == And(v, 192)
             f == [k \in 0..7 |-> IF Bit(m, k) = 1 THEN 1 ELSE Bit(2, k)]
             s == Or(m, 2)
  <1>1. m \in Byte /\ \A k \in 0..7 : Bit(m, k) = Bit(v, k) * Bit(192, k)
    BY SmallBytes, AndIsByte
  <1>2. /\ Bit(2, 0) = 0 /\ Bit(2, 1) = 1 /\ Bit(2, 2) = 0 /\ Bit(2, 3) = 0 /\ Bit(2, 4) = 0 /\ Bit(2, 5) = 0
        /\ Bit(2, 6) = 0 /\ Bit(2, 7) = 0
    BY BitsOfByte
  <1>3. /\ Bit(192, 0) = 0 /\ Bit(192, 1) = 0 /\ Bit(192, 2) = 0 /\ Bit(192, 3) = 0 /\ Bit(192, 4) = 0
        /\ Bit(192, 5) = 0 /\ Bit(192, 6) = 1 /\ Bit(192, 7) = 1
    BY BitsOfByte
  <1>4. \A k \in 0..7 : Bit(v, k) \in 0..1
    BY ByteIsNat, BitIsBit
  <1>5. s = ByteOf(f)
    BY DEF Or
  <1> HIDE DEF m
  <1>6. /\ Bit(m, 0) = 0 /\ Bit(m, 1) = 0 /\ Bit(m, 2) = 0 /\ Bit(m, 3) = 0 /\ Bit(m, 4) = 0
        /\ Bit(m, 5) = 0 /\ Bit(m, 6) = Bit(v, 6) /\ Bit(m, 7) = Bit(v, 7)
    BY <1>1, <1>3, <1>4
  <1>7. Bit(v, 6) \in 0..1 /\ Bit(v, 7) \in 0..1
    BY <1>4
  <1>8. /\ f[0] = 0 /\ f[1] = 1 /\ f[2] = 0 /\ f[3] = 0 /\ f[4] = 0 /\ f[5] = 0
        /\ f[6] = Bit(v, 6) /\ f[7] = Bit(v, 7)
    BY <1>2, <1>6, <1>7
  <1> HIDE DEF f
  <1>9. \A k \in 0..7 : f[k] \in 0..1
    BY <1>7, <1>8
  <1>10. ByteOf(f) \in Byte /\ \A k \in 0..7 : Bit(ByteOf(f), k) = f[k]
    BY <1>9, BitsOfByteOf
  <1> HIDE DEF s
  <1>11. s \in Byte /\ \A k \in 0..7 : Bit(s, k) = f[k]
    BY <1>5, <1>10
  <1> QED
    BY <1>8, <1>11 DEF s, m
-----------------------------------------------------------------------------
(***************************************************************************)
(* A fused operation against its instructions, one at a time.              *)
(***************************************************************************)
\* The plain core goes on until the clock shows the count.
Further(s, cycles) == IF s.cycles >= cycles \/ s.state # "RUNNING" THEN s ELSE PlainStep(s)

LEMMA PlainUntilIs ==
    ASSUME NEW c, NEW cycles
    PROVE  PlainUntil(c, cycles) = Further(Further(Further(PlainStep(c), cycles), cycles), cycles)
  BY DEF PlainUntil, Further

LEMMA FurtherIs ==
    ASSUME NEW s \in Cpu, NEW cycles \in Nat
    PROVE  /\ s.cycles >= cycles => Further(s, cycles) = s
           /\ ~(s.cycles >= cycles) /\ s.state = "RUNNING" => Further(s, cycles) = PlainStep(s)
  BY DEF Further

\* What one step of the core promises.
StepIsPlain ==
    LET plain == PlainUntil(cpu, cpu'.cycles)
    IN  cpu' = IF cache[cpu.pc].op \in {"DELAY2", "DELAY3"} /\ cpu'.pc = cpu.pc
               THEN [plain EXCEPT !.sreg = cpu.sreg] ELSE plain

LEMMA UnfusedIsPlain ==
    ASSUME Sound, Sound', Step, cache[cpu.pc] = Unfused[cpu.pc]
    PROVE  StepIsPlain
  <1> DEFINE next == cpu'
  <1>1. next \in Cpu
    BY DEF Sound
  <1>2. next = PlainStep(cpu)
    BY DEF Step, PlainStep
  <1>3. cache[cpu.pc].op \notin {"DELAY2", "DELAY3"}
    BY UnfusedIs, Operands DEF Step, Sound, FusedLoopOp
  <1> HIDE DEF next
  <1>4. next.cycles \in Nat /\ next.cycles >= next.cycles
    BY <1>1, CpuFields
  <1>5. Further(next, next.cycles) = next
    BY <1>1, <1>4, FurtherIs
  <1>6. PlainUntil(cpu, next.cycles) = next
    BY <1>2, <1>5, PlainUntilIs
  <1> QED
    BY <1>3, <1>6 DEF next, StepIsPlain

\* A branch on the flags of the operation before it.
LEMMA DoneOne ==
    ASSUME NEW c \in Cpu
    PROVE  Moved(c, Done(c, 1, 1), Ahead(c, 1), Later(c, 1))
  BY Costs, DoneIs

LEMMA DoneTwo ==
    ASSUME NEW c \in Cpu
    PROVE  Moved(c, Done(c, 2, 2), Ahead(c, 2), Later(c, 2))
  BY Costs, DoneIs

LEMMA GotoTwo ==
    ASSUME NEW c \in Cpu, NEW pc \in Word
    PROVE  Moved(c, Goto(c, pc, 2), pc, Later(c, 2)) /\ Moved(c, Goto(c, pc, 3), pc, Later(c, 3))
  BY Costs, GotoIs

LEMMA BranchAfter ==
    ASSUME NEW m \in Cpu, NEW d \in Instruction, d.op = "BRBC", d.a = 2,
           NEW s, Moved(m, s, Ahead(m, 1), Later(m, 1))
    PROVE  Branch(s, d) = IF On(m, Z) THEN Done(m, 2, 2) ELSE Goto(m, d.b, 3)
  <1>1. s \in Cpu
    BY DEF Moved
  <1>2. s.sreg = m.sreg /\ s.pc = Ahead(m, 1) /\ s.cycles = Later(m, 1)
    BY DEF Moved
  <1>3. d.b \in Word /\ Branch(s, d) = IF On(s, Z) THEN Done(s, 1, 1) ELSE Goto(s, d.b, 2)
    BY <1>1, BranchIs
  <1>4. On(s, Z) <=> On(m, Z)
    BY <1>2 DEF On
  <1>5. m.pc \in Int /\ m.cycles \in Int
    BY CpuFields, WordIs
  <1>6. Done(s, 1, 1) = Done(m, 2, 2)
    <2>1. Moved(s, Done(s, 1, 1), Ahead(s, 1), Later(s, 1))
      BY <1>1, DoneOne, Zenon
    <2>2. Moved(m, Done(m, 2, 2), Ahead(m, 2), Later(m, 2))
      BY DoneTwo, Zenon
    <2>3. Ahead(s, 1) = Ahead(m, 2) /\ Later(s, 1) = Later(m, 2)
      BY <1>2, <1>5 DEF Ahead, Later
    <2>4. Moved(m, Done(s, 1, 1), Ahead(m, 2), Later(m, 2))
      BY <2>1, <2>3 DEF Moved
    <2> QED
      BY <2>2, <2>4, SameMoved
  <1>7. Goto(s, d.b, 2) = Goto(m, d.b, 3)
    <2>1. Moved(s, Goto(s, d.b, 2), d.b, Later(s, 2))
      BY <1>1, <1>3, GotoTwo, Zenon
    <2>2. Moved(m, Goto(m, d.b, 3), d.b, Later(m, 3))
      BY <1>3, GotoTwo, Zenon
    <2>3. Later(s, 2) = Later(m, 3)
      BY <1>2, <1>5 DEF Later
    <2>4. Moved(m, Goto(s, d.b, 2), d.b, Later(m, 3))
      BY <2>1, <2>3 DEF Moved
    <2> QED
      BY <2>2, <2>4, SameMoved
  <1> QED
    BY <1>3, <1>4, <1>6, <1>7

LEMMA SubiIs ==
    ASSUME NEW c \in Cpu, NEW d \in Instruction, d.op = "SUBI"
    PROVE  /\ Subtract(c, d) = Done(FlagsSub(SetR(c, d.a, Rest(c, d)), R(c, d.a), d.b, Rest(c, d), FALSE), 1, 1)
           /\ Rest(c, d) = (R(c, d.a) - d.b) % 256
  <1>1. /\ d.op \in {"SUBI", "SBCI", "CPI"} /\ d.op \notin {"CP", "CPC", "CPI"}
        /\ (d.op \in {"SBC", "SBCI", "CPC"}) = FALSE /\ (d.op = "SBCI") = FALSE
    OBVIOUS
  <1>2. Subtract(c, d) = Done(FlagsSub(SetR(c, d.a, Rest(c, d)), R(c, d.a), d.b, Rest(c, d), FALSE), 1, 1)
    BY <1>1, Zenon DEF Subtract, Rest, CarryIn
  <1>3. d.op \in ImmediateOp
    BY DEF ImmediateOp
  <1>4. R(c, d.a) \in Int /\ d.b \in Int
    BY <1>3, Operands, RIsByte, ByteIs
  <1>5. CarryIn(c, d) = 0
    BY <1>1 DEF CarryIn, Truth
  <1> QED
    BY <1>2, <1>4, <1>5 DEF Rest

LEMMA CountAndBranchIsPlain ==
    ASSUME Sound, Sound', Step, cache[cpu.pc].op \in {"SUBI_BRNE", "DEC_BRNE"}
    PROVE  StepIsPlain
  <1> DEFINE i == cpu.pc
             d == cache[i]
             u == Unfused[i]
             x == R(cpu, d.a)
             y == IF d.op = "SUBI_BRNE" THEN d.b ELSE 1
             r == (x - y) % 256
             counted == SetR(cpu, d.a, r)
             flagged == IF d.op = "SUBI_BRNE" THEN FlagsSub(counted, x, y, r, FALSE) ELSE FlagsDec(counted, r)
             s == Done(flagged, 1, 1)
             next == cpu'
  <1>0. prog \in Programs /\ cache = Fuse(Unfused) /\ cpu \in Cpu /\ next \in Cpu
    BY DEF Sound
  <1>1. i \in DOMAIN prog.flash /\ cpu.state = "RUNNING" /\ next = Operation(cpu, d)
    BY DEF Step
  <1>2. u \in Instruction /\ i \in Word /\ i \in Nat
    BY <1>0, <1>1, UnfusedIs, WordIs
  <1>3. u.op \notin FusedLoopOp
    BY <1>2, Operands
  <1>4. LoopAt(i, 1) /\ (d.op = "SUBI_BRNE" => u.op = "SUBI") /\ (d.op = "DEC_BRNE" => u.op = "DEC")
    BY <1>0, <1>1, <1>3, FusedLoops DEF FusedLoopOp
  <1>5. d.a = u.a /\ d.b = u.b
    BY <1>0, <1>1, CacheIs
  <1> DEFINE w == Unfused[i + 1]
  <1>6. i + 1 \in DOMAIN prog.flash /\ w.op = "BRBC" /\ w.a = 2
    BY <1>4 DEF LoopAt
  <1>7. w \in Instruction /\ cache[i + 1].b = w.b /\ i + 1 \in Word
    BY <1>0, <1>6, UnfusedIs, CacheIs
  <1>8. "SUBI" \in ImmediateOp /\ "DEC" \in OneRegisterOp
    BY DEF ImmediateOp, OneRegisterOp
  <1>9. d.a \in Register /\ (d.op = "SUBI_BRNE" => d.b \in Byte)
    BY <1>2, <1>4, <1>5, <1>8, Operands
  <1>10. x \in Byte /\ y \in Byte /\ x \in Int /\ y \in Int
    BY <1>0, <1>9, RIsByte, SmallBytes, ByteIs
  <1>11. r \in Byte
    BY <1>10, LowByte
  <1>12. next = IF r # 0 THEN Goto(flagged, w.b, 3) ELSE Done(flagged, 2, 2)
    <2>1. Operation(cpu, d) = CountAndBranch(cpu, d)
      <3> HIDE DEF d
      <3>1. d.op \in {"SUBI_BRNE", "DEC_BRNE"}
        BY DEF d
      <3> QED
        BY <3>1 DEF Operation
    <2>2. CountAndBranch(cpu, d) = IF r # 0 THEN Goto(flagged, cache[i + 1].b, 3) ELSE Done(flagged, 2, 2)
      BY DEF CountAndBranch
    <2> HIDE DEF flagged, r, d
    <2> QED
      BY <1>1, <1>7, <2>1, <2>2
  <1>12a. d.op \in {"SUBI_BRNE", "DEC_BRNE"} /\ PlainStep(cpu) = Operation(cpu, u)
    BY DEF PlainStep
  <1> HIDE DEF r, flagged, counted, s, d, u, w
  <1>13. PlainStep(cpu) = s
    <2>1. CASE d.op = "SUBI_BRNE"
      <3>1. u.op = "SUBI"
        BY <1>4, <2>1
      <3>2. x = R(cpu, u.a) /\ y = u.b
        BY <1>5, <2>1
      <3>3. Rest(cpu, u) = r
        BY <1>0, <1>2, <3>1, <3>2, SubiIs, ZenonT(60) DEF r
      <3>4. flagged = FlagsSub(SetR(cpu, u.a, r), R(cpu, u.a), u.b, r, FALSE)
        BY <1>5, <2>1, <3>2 DEF flagged, counted
      <3>5. Subtract(cpu, u) = s
        BY <1>0, <1>2, <3>1, <3>3, <3>4, SubiIs DEF s
      <3> QED
        BY <1>12a, <3>1, <3>5 DEF Operation
    <2>2. CASE d.op = "DEC_BRNE"
      <3>1. u.op = "DEC"
        BY <1>4, <2>2
      <3>2. r = (R(cpu, u.a) - 1) % 256
        BY <1>5, <2>2 DEF x, y, r
      <3>3. flagged = FlagsDec(SetR(cpu, u.a, r), r)
        BY <1>5, <2>2 DEF flagged, counted
      <3>4. Dec(cpu, u) = Done(FlagsDec(SetR(cpu, u.a, r), r), 1, 1)
        BY <3>2 DEF Dec
      <3>5. Dec(cpu, u) = s
        BY <3>3, <3>4 DEF s
      <3> QED
        BY <1>12a, <3>1, <3>5 DEF Operation
    <2> QED
      BY <1>12a, <2>1, <2>2
  <1>14. /\ flagged \in Cpu /\ flagged.pc = i /\ flagged.state = "RUNNING" /\ flagged.cycles = cpu.cycles
         /\ On(flagged, Z) <=> r = 0
    <2> HIDE DEF x, y
    <2>0. counted \in Cpu
      BY <1>0, <1>9, <1>11, RegStays DEF counted
    <2>1. counted.pc = i /\ counted.state = "RUNNING" /\ counted.cycles = cpu.cycles
      BY <1>0, <1>1 DEF counted, SetR, Cpu
    <2>2. CASE d.op = "SUBI_BRNE"
      <3>1. flagged = FlagsSub(counted, x, y, r, FALSE)
        BY <2>2 DEF flagged
      <3> DEFINE keepZ == FALSE
      <3>2. ~keepZ /\ flagged = FlagsSub(counted, x, y, r, keepZ)
        BY <3>1
      <3> HIDE DEF keepZ
      <3> QED
        BY <1>10, <1>11, <2>0, <2>1, <3>2, FlagsSubIs
    <2>3. CASE d.op = "DEC_BRNE"
      <3>1. flagged = FlagsDec(SetR(cpu, d.a, r), r)
        BY <2>3 DEF flagged, counted
      <3> QED
        BY <1>0, <1>1, <1>9, <1>11, <3>1, DecIs
    <2> QED
      BY <1>12a, <2>2, <2>3
  <1> HIDE DEF x, y, next
  <1>15a. Moved(flagged, s, Ahead(flagged, 1), Later(flagged, 1))
    BY <1>14, DoneOne DEF s
  <1>15b. Branch(s, w) = IF On(flagged, Z) THEN Done(flagged, 2, 2) ELSE Goto(flagged, w.b, 3)
    BY <1>6, <1>7, <1>14, <1>15a, BranchAfter
  <1>15. /\ s \in Cpu /\ s.pc = (i + 1) % 65536 /\ s.state = "RUNNING" /\ s.cycles = cpu.cycles + 1
         /\ Branch(s, w) = IF On(flagged, Z) THEN Done(flagged, 2, 2) ELSE Goto(flagged, w.b, 3)
    BY <1>14, <1>15a, <1>15b DEF Moved, Ahead, Later
  <1>16. next = Branch(s, w)
    BY <1>12, <1>14, <1>15
  <1>17. s.pc = i + 1
    BY <1>2, <1>7, <1>15, WordIs
  <1>18. PlainStep(s) = Branch(s, w)
    <2>1. PlainStep(s) = Operation(s, w)
      BY <1>17 DEF PlainStep, w
    <2> QED
      BY <1>6, <2>1 DEF Operation
  <1>19. next.cycles > cpu.cycles + 1 /\ next.cycles \in Nat /\ cpu.cycles \in Nat
    <2>1. w.b \in Word
      BY <1>6, <1>7, BranchIs, <1>0
    <2>2. Goto(flagged, w.b, 3).cycles = cpu.cycles + 3 /\ Done(flagged, 2, 2).cycles = cpu.cycles + 2
      BY <1>14, <2>1, DoneTwo, GotoTwo DEF Moved, Later
    <2> QED
      BY <1>0, <1>12, <2>2, CpuFields
  <1>20. Further(s, next.cycles) = next
    BY <1>15, <1>16, <1>18, <1>19, FurtherIs
  <1>21. Further(next, next.cycles) = next
    BY <1>0, <1>19, FurtherIs
  <1>22. PlainUntil(cpu, next.cycles) = next
    BY <1>13, <1>20, <1>21, PlainUntilIs
  <1>23. cache[cpu.pc].op \notin {"DELAY2", "DELAY3"}
    BY <1>12a DEF d
  <1> QED
    BY <1>22, <1>23 DEF next, StepIsPlain

\* What SUBI and SBCI do to the core.
Subtracted(c, d, s) ==
    /\ d.a \in Register /\ d.b \in Byte
    /\ s \in Cpu /\ s.pc = Ahead(c, 1) /\ s.sp = c.sp /\ s.state = c.state
    /\ s.cycles = Later(c, 1) /\ s.data = [c.data EXCEPT ![d.a] = Rest(c, d)]
    /\ \A m \in Register : R(s, m) = IF m = d.a THEN Rest(c, d) ELSE R(c, m)
    /\ On(s, C) <=> R(c, d.a) < d.b + CarryIn(c, d)
    /\ On(s, Z) <=> Rest(c, d) = 0 /\ (d.op = "SBCI" => On(c, Z))
    /\ Bit(s.sreg, 6) = Bit(c.sreg, 6) /\ Bit(s.sreg, 7) = Bit(c.sreg, 7)
    /\ R(c, d.a) = 0 /\ d.b = 0 /\ CarryIn(c, d) = 0 =>
           Bit(s.sreg, 2) = 0 /\ Bit(s.sreg, 3) = 0 /\ Bit(s.sreg, 4) = 0 /\ Bit(s.sreg, 5) = 0

LEMMA SubtractedIs ==
    ASSUME NEW c \in Cpu, NEW d \in Instruction, d.op = "SUBI" \/ d.op = "SBCI"
    PROVE  Subtracted(c, d, Subtract(c, d))
  <1> DEFINE s == Subtract(c, d)
  <1>1. s = Subtract(c, d) /\ d.op \in {"SUBI", "SBCI"}
    OBVIOUS
  <1> HIDE DEF s
  <1> QED
    BY <1>1, CountIs DEF Subtracted, Ahead, Later

\* The first instruction of a delay loop.
LEMMA FirstOfDelay ==
    ASSUME prog \in Programs, NEW c \in Cpu, NEW i \in DOMAIN prog.flash, c.pc = i, NEW bytes \in {2, 3},
           Unfused[i].op = "SUBI", LoopAt(i, bytes), NEW s, s = PlainStep(c)
    PROVE  /\ Unfused[i] \in Instruction
           /\ s \in Cpu /\ s.pc = i + 1 /\ s.sp = c.sp /\ s.state = c.state /\ s.cycles = c.cycles + 1
           /\ s.data = [c.data EXCEPT ![Counter(i, 0)] = Low(c, i)]
           /\ \A m \in Register : R(s, m) = IF m = Counter(i, 0) THEN Low(c, i) ELSE R(c, m)
           /\ On(s, C) <=> R(c, Counter(i, 0)) < Unfused[i].b
           /\ On(s, Z) <=> Low(c, i) = 0
           /\ Bit(s.sreg, 6) = Bit(c.sreg, 6) /\ Bit(s.sreg, 7) = Bit(c.sreg, 7)
  <1> DEFINE d == Unfused[i]
  <1>1. d \in Instruction /\ i \in Nat /\ i \in Word
    BY UnfusedIs, WordIs
  <1>2. i + bytes \in Word
    BY UnfusedIs DEF LoopAt
  <1>3. s = Subtract(c, d)
    <2>1. s = Operation(c, d)
      BY DEF PlainStep
    <2> HIDE DEF d
    <2>2. d.op = "SUBI"
      BY DEF d
    <2> QED
      BY <2>1, <2>2 DEF Operation
  <1>4. d.a = Counter(i, 0)
    BY <1>1 DEF Counter
  <1>5. d.op = "SUBI"
    OBVIOUS
  <1> HIDE DEF d
  <1>6. CarryIn(c, d) = 0
    BY <1>5 DEF CarryIn, Truth
  <1>6a. Subtracted(c, d, s)
    BY <1>1, <1>3, <1>5, SubtractedIs, Zenon
  <1>7. d.a \in Register /\ d.b \in Byte
    BY <1>6a DEF Subtracted
  <1>8. R(c, d.a) \in Int /\ d.b \in Int
    BY <1>7, RIsByte, ByteIs
  <1>9. Rest(c, d) = Low(c, i)
    BY <1>4, <1>6, <1>8 DEF Rest, Low, d
  <1>10. /\ s \in Cpu /\ s.pc = (c.pc + 1) % 65536 /\ s.sp = c.sp /\ s.state = c.state
         /\ s.cycles = c.cycles + 1 /\ s.data = [c.data EXCEPT ![d.a] = Rest(c, d)]
         /\ \A m \in Register : R(s, m) = IF m = d.a THEN Rest(c, d) ELSE R(c, m)
         /\ On(s, C) <=> R(c, d.a) < d.b + CarryIn(c, d)
         /\ On(s, Z) <=> Rest(c, d) = 0 /\ (d.op = "SBCI" => On(c, Z))
         /\ Bit(s.sreg, 6) = Bit(c.sreg, 6) /\ Bit(s.sreg, 7) = Bit(c.sreg, 7)
    BY <1>6a DEF Subtracted, Ahead, Later
  <1>11. s.pc = i + 1
    BY <1>1, <1>2, <1>10, WordIs
  <1>12. On(s, C) <=> R(c, d.a) < d.b
    BY <1>6, <1>8, <1>10
  <1> QED
    BY <1>1, <1>4, <1>5, <1>9, <1>10, <1>11, <1>12 DEF d

\* An SBCI of zero on the register n, with its carry and its result.
SteppedDown(m, s, n, pc, carry, r) ==
    /\ s \in Cpu /\ s.pc = pc /\ s.sp = m.sp /\ s.state = m.state /\ s.cycles = m.cycles + 1
    /\ s.data = [m.data EXCEPT ![n] = r]
    /\ \A a \in Register : R(s, a) = IF a = n THEN r ELSE R(m, a)
    /\ On(s, C) <=> R(m, n) < carry
    /\ On(s, Z) <=> r = 0 /\ On(m, Z)
    /\ Bit(s.sreg, 6) = Bit(m.sreg, 6) /\ Bit(s.sreg, 7) = Bit(m.sreg, 7)
    /\ R(m, n) = 0 /\ carry = 0 =>
           Bit(s.sreg, 2) = 0 /\ Bit(s.sreg, 3) = 0 /\ Bit(s.sreg, 4) = 0 /\ Bit(s.sreg, 5) = 0


\* Such an instruction of the loop takes the carry and the zero flag before it.
LEMMA LaterOfDelay ==
    ASSUME prog \in Programs, NEW m \in Cpu, NEW i \in DOMAIN prog.flash, NEW bytes \in {2, 3}, LoopAt(i, bytes),
           NEW k \in 1..bytes - 1, m.pc = i + k
    PROVE  SteppedDown(m, PlainStep(m), Counter(i, k), i + k + 1, Truth(On(m, C)),
                       (R(m, Counter(i, k)) - Truth(On(m, C))) % 256)
  <1> DEFINE n == Counter(i, k)
             s == PlainStep(m)
             carry == Truth(On(m, C))
             x == R(m, n)
             r == (x - carry) % 256
             pc == i + k + 1
  <1>0. carry \in 0..1
    BY TruthIsBit
  <1> DEFINE d == Unfused[i + k]
  <1>1. i \in Nat /\ k \in Nat /\ k < bytes
    BY UnfusedIs, WordIs
  <1>2. i + bytes \in Word /\ i + k \in DOMAIN prog.flash
    <2>1. PICK last \in Nat : /\ last <= 65535
                              /\ \A j : j \in DOMAIN prog.flash <=> j \in Int /\ 0 <= j /\ j <= last
                              /\ \A j \in DOMAIN prog.flash : prog.flash[j] \in Word
      BY FlashIs
    <2> QED
      BY <1>1, <2>1, UnfusedIs DEF LoopAt
  <1>3. d \in Instruction /\ d.op = "SBCI" /\ d.b = 0 /\ d.a = n
    BY <1>2, UnfusedIs DEF LoopAt, Counter
  <1>4. s = Operation(m, d)
    BY DEF PlainStep
  <1> HIDE DEF d, n, s, carry, x, r
  <1>5. s = Subtract(m, d)
    BY <1>3, <1>4 DEF Operation
  <1>6. CarryIn(m, d) = carry
    BY <1>3 DEF CarryIn, Truth, carry
  <1>7. /\ d.a \in Register
        /\ s \in Cpu /\ s.pc = (m.pc + 1) % 65536 /\ s.sp = m.sp /\ s.state = m.state
        /\ s.cycles = m.cycles + 1 /\ s.data = [m.data EXCEPT ![d.a] = Rest(m, d)]
        /\ \A a \in Register : R(s, a) = IF a = d.a THEN Rest(m, d) ELSE R(m, a)
        /\ On(s, C) <=> R(m, d.a) < d.b + CarryIn(m, d)
        /\ On(s, Z) <=> Rest(m, d) = 0 /\ (d.op = "SBCI" => On(m, Z))
        /\ Bit(s.sreg, 6) = Bit(m.sreg, 6) /\ Bit(s.sreg, 7) = Bit(m.sreg, 7)
        /\ R(m, d.a) = 0 /\ d.b = 0 /\ CarryIn(m, d) = 0 =>
               Bit(s.sreg, 2) = 0 /\ Bit(s.sreg, 3) = 0 /\ Bit(s.sreg, 4) = 0 /\ Bit(s.sreg, 5) = 0
    <2>1. Subtracted(m, d, s)
      BY <1>3, <1>5, SubtractedIs, Zenon
    <2> QED
      BY <2>1 DEF Subtracted, Ahead, Later
  <1>8. x = R(m, d.a) /\ x \in Byte /\ x \in Int
    BY <1>3, <1>7, RIsByte DEF x
  <1>9. Rest(m, d) = r /\ r \in Byte
    <2>1. x - 0 - carry = x - carry /\ x - carry \in Int
      BY <1>0, <1>8
    <2> QED
      BY <1>3, <1>6, <1>8, <2>1, LowByte DEF Rest, r
  <1>10. s.pc = pc
    BY <1>1, <1>2, <1>7, WordIs
  <1>11. On(s, C) <=> x < carry
    BY <1>0, <1>3, <1>6, <1>7, <1>8
  <1> HIDE DEF pc
  <1>12. SteppedDown(m, s, n, pc, carry, r)
    BY <1>3, <1>6, <1>7, <1>8, <1>9, <1>10, <1>11 DEF SteppedDown
  <1> QED
    BY <1>12 DEF pc, n, s, carry, x, r

LEMMA SecondOfDelay ==
    ASSUME prog \in Programs, NEW m \in Cpu, NEW i \in DOMAIN prog.flash, NEW bytes \in {2, 3}, LoopAt(i, bytes), m.pc = i + 1
    PROVE  SteppedDown(m, PlainStep(m), Counter(i, 1), i + 1 + 1, Truth(On(m, C)),
                       (R(m, Counter(i, 1)) - Truth(On(m, C))) % 256)
  <1>1. 1 \in 1..bytes - 1
    OBVIOUS
  <1> QED
    BY <1>1, LaterOfDelay

LEMMA ThirdOfDelay ==
    ASSUME prog \in Programs, NEW m \in Cpu, NEW i \in DOMAIN prog.flash, LoopAt(i, 3), m.pc = i + 2
    PROVE  SteppedDown(m, PlainStep(m), Counter(i, 2), i + 2 + 1, Truth(On(m, C)),
                       (R(m, Counter(i, 2)) - Truth(On(m, C))) % 256)
  <1> DEFINE bytes == 3
  <1>1. bytes \in {2, 3} /\ LoopAt(i, bytes) /\ 2 \in 1..bytes - 1
    OBVIOUS
  <1> HIDE DEF bytes
  <1> QED
    BY <1>1, LaterOfDelay, ZenonT(60)

\* The first two instructions together.
DistinctAt(i, bytes) ==
    /\ Counter(i, 0) # Counter(i, 1)
    /\ bytes = 3 => Counter(i, 2) # Counter(i, 0) /\ Counter(i, 2) # Counter(i, 1)

TwoCounted(c, i, bytes, s, t) ==
    /\ s \in Cpu /\ s.state = c.state /\ s.cycles = c.cycles + 1
    /\ t \in Cpu /\ t.pc = i + 2 /\ t.sp = c.sp /\ t.state = c.state /\ t.cycles = c.cycles + 2
    /\ t.data = Counted2(c, i).data
    /\ bytes = 3 => R(t, Counter(i, 2)) = R(c, Counter(i, 2))
    /\ On(t, C) <=> R(c, Counter(i, 0)) < Unfused[i].b /\ R(c, Counter(i, 1)) = 0
    /\ On(t, Z) <=> Low(c, i) = 0 /\ Middle(c, i) = 0
    /\ Bit(t.sreg, 6) = Bit(c.sreg, 6) /\ Bit(t.sreg, 7) = Bit(c.sreg, 7)
    /\ Low(c, i) = 0 /\ Middle(c, i) = 0 =>
           /\ ~(R(c, Counter(i, 0)) < Unfused[i].b)
           /\ R(c, Counter(i, 1)) = 0
           /\ Bit(t.sreg, 2) = 0 /\ Bit(t.sreg, 3) = 0 /\ Bit(t.sreg, 4) = 0 /\ Bit(t.sreg, 5) = 0

LEMMA TwoOfDelay ==
    ASSUME prog \in Programs, NEW c \in Cpu, NEW i \in DOMAIN prog.flash, c.pc = i, NEW bytes \in {2, 3},
           Unfused[i].op = "SUBI", LoopAt(i, bytes), DistinctAt(i, bytes),
           NEW s, s = PlainStep(c), NEW t, t = PlainStep(s)
    PROVE  TwoCounted(c, i, bytes, s, t)
  <1> DEFINE n0 == Counter(i, 0)
             n1 == Counter(i, 1)
             x0 == R(c, n0)
             x1 == R(c, n1)
             b == Unfused[i].b
             carry == Truth(On(s, C))
             low == Low(c, i)
             middle == Middle(c, i)
             kept == SetR(c, n0, low)
  <1>1. /\ n0 \in Register /\ n1 \in Register /\ b \in Byte /\ low \in Byte /\ middle \in Byte
        /\ bytes = 3 => Counter(i, 2) \in Register
    BY CounterIs
  <1>2. x0 \in Byte /\ x1 \in Byte /\ x0 \in Int /\ x1 \in Int /\ b \in Int /\ 0 <= x0 /\ x0 <= 255 /\ 0 <= b /\ b <= 255
        /\ 0 <= x1 /\ x1 <= 255
    BY <1>1, RIsByte, ByteIs
  <1>3. /\ s \in Cpu /\ s.pc = i + 1 /\ s.sp = c.sp /\ s.state = c.state /\ s.cycles = c.cycles + 1
        /\ s.data = [c.data EXCEPT ![n0] = low]
        /\ \A m \in Register : R(s, m) = IF m = n0 THEN low ELSE R(c, m)
        /\ On(s, C) <=> x0 < b
        /\ On(s, Z) <=> low = 0
        /\ Bit(s.sreg, 6) = Bit(c.sreg, 6) /\ Bit(s.sreg, 7) = Bit(c.sreg, 7)
    BY FirstOfDelay
  <1>4. R(s, n1) = x1
    BY <1>1, <1>3 DEF DistinctAt
  <1>5. carry \in 0..1 /\ (carry = 1 <=> x0 < b) /\ carry = Truth(x0 < b)
    BY <1>3 DEF Truth
  <1>6. middle = (x1 - carry) % 256
    BY <1>5 DEF Middle
  <1>7. low = (x0 - b) % 256
    BY DEF Low
  <1>8. kept.data = [c.data EXCEPT ![n0] = low] /\ kept \in Cpu
    BY <1>1, SetRIs
  <1>9. Counted2(c, i).data = [kept.data EXCEPT ![n1] = middle]
    <2>1. Counted2(c, i) = SetR(kept, n1, middle)
      BY DEF Counted2
    <2> HIDE DEF kept, middle, n1
    <2> QED
      BY <1>1, <1>8, <2>1, SetRIs
  <1> HIDE DEF carry, low, middle, kept
  <1>10. /\ t \in Cpu /\ t.pc = i + 1 + 1 /\ t.sp = s.sp /\ t.state = s.state /\ t.cycles = s.cycles + 1
         /\ t.data = [s.data EXCEPT ![n1] = middle]
         /\ \A n \in Register : R(t, n) = IF n = n1 THEN middle ELSE R(s, n)
         /\ On(t, C) <=> x1 < carry
         /\ On(t, Z) <=> middle = 0 /\ On(s, Z)
         /\ Bit(t.sreg, 6) = Bit(s.sreg, 6) /\ Bit(t.sreg, 7) = Bit(s.sreg, 7)
         /\ x1 = 0 /\ carry = 0 =>
                Bit(t.sreg, 2) = 0 /\ Bit(t.sreg, 3) = 0 /\ Bit(t.sreg, 4) = 0 /\ Bit(t.sreg, 5) = 0
    <2>1. (R(s, n1) - Truth(On(s, C))) % 256 = middle /\ Truth(On(s, C)) = carry /\ PlainStep(s) = t
      BY <1>4, <1>6 DEF carry
    <2>2. s \in Cpu /\ s.pc = i + 1
      BY <1>3
    <2>3. SteppedDown(s, PlainStep(s), Counter(i, 1), i + 1 + 1, Truth(On(s, C)),
                      (R(s, Counter(i, 1)) - Truth(On(s, C))) % 256)
      BY <2>2, SecondOfDelay, Zenon
    <2>4. SteppedDown(s, t, n1, i + 1 + 1, carry, middle)
      BY <2>1, <2>3
    <2> HIDE DEF n1, x1
    <2> QED
      BY <1>4, <2>4 DEF SteppedDown
  <1>11. x1 < carry <=> x0 < b /\ x1 = 0
    BY <1>2, <1>5
  <1>12. low = 0 => x0 = b
    BY <1>2, <1>7
  <1>13. low = 0 /\ middle = 0 => ~(x0 < b) /\ x1 = 0 /\ carry = 0
    <2>1. low = 0 => ~(x0 < b) /\ carry = 0
      BY <1>2, <1>5, <1>12
    <2> HIDE DEF x0, x1, b
    <2>2. carry = 0 /\ middle = 0 => x1 = 0
      BY <1>2, <1>6
    <2> QED
      BY <2>1, <2>2
  <1>14. bytes = 3 => R(t, Counter(i, 2)) = R(c, Counter(i, 2))
    BY <1>1, <1>3, <1>10 DEF DistinctAt
  <1>15. c.cycles + 1 + 1 = c.cycles + 2 /\ i + 1 + 1 = i + 2
    BY CpuFields, UnfusedIs, WordIs
  <1> HIDE DEF n0, n1, x0, x1, b
  <1> QED
    BY <1>3, <1>8, <1>9, <1>10, <1>11, <1>13, <1>14, <1>15 DEF TwoCounted, n0, n1, x0, x1, b, low, middle

\* SREG at the end of the instructions is the SREG that the fused operation writes.
LEMMA ExitFlags ==
    ASSUME NEW c \in Cpu, NEW t \in Cpu, ~On(t, C), On(t, Z),
           Bit(t.sreg, 2) = 0, Bit(t.sreg, 3) = 0, Bit(t.sreg, 4) = 0, Bit(t.sreg, 5) = 0,
           Bit(t.sreg, 6) = Bit(c.sreg, 6), Bit(t.sreg, 7) = Bit(c.sreg, 7)
    PROVE  t.sreg = Or(And(c.sreg, 192), 2)
  <1> DEFINE v == Or(And(c.sreg, 192), 2)
             u == t.sreg
  <1>1. u \in Byte /\ c.sreg \in Byte
    BY CpuFields
  <1>2. /\ v \in Byte /\ Bit(v, 0) = 0 /\ Bit(v, 1) = 1 /\ Bit(v, 2) = 0 /\ Bit(v, 3) = 0
        /\ Bit(v, 4) = 0 /\ Bit(v, 5) = 0 /\ Bit(v, 6) = Bit(c.sreg, 6) /\ Bit(v, 7) = Bit(c.sreg, 7)
    BY <1>1, FlagsAtExit
  <1>3. Bit(u, 0) \in 0..1
    BY <1>1, ByteIsNat, BitIsBit
  <1>4. Bit(u, 0) = 0 /\ Bit(u, 1) = 1
    BY <1>3, FlagNumbers DEF On
  <1> HIDE DEF v
  <1>5. \A k \in 0..7 : Bit(u, k) = Bit(v, k)
    BY <1>2, <1>4
  <1> HIDE DEF u
  <1>6. u = v
    BY <1>1, <1>2, <1>5, SameByte
  <1> QED
    BY <1>6 DEF u, v

\* The branch that ends the loop, after the instructions that count.
LEMMA LoopEnd ==
    ASSUME prog \in Programs, NEW m \in Cpu, NEW i \in DOMAIN prog.flash, m.pc = i, NEW bytes \in {2, 3},
           LoopAt(i, bytes), Unfused[i + bytes].b = i,
           NEW t \in Cpu, t.pc = i + bytes, t.cycles = m.cycles + bytes, t.sp = m.sp, t.state = m.state,
           t.data = m.data,
           NEW round, round = Goto(m, i, bytes + 2),
           NEW out, out = Done([m EXCEPT !.sreg = Or(And(@, 192), 2)], bytes + 1, bytes + 1)
    PROVE  /\ ~On(t, Z) => /\ round.pc = i /\ round.cycles = m.cycles + bytes + 2
                           /\ PlainStep(t) \in Cpu /\ PlainStep(t).cycles = round.cycles
                           /\ round = [PlainStep(t) EXCEPT !.sreg = m.sreg]
           /\ t.sreg = Or(And(m.sreg, 192), 2) /\ On(t, Z) =>
                 out.pc # i /\ out.cycles = m.cycles + bytes + 1 /\ PlainStep(t) = out
  <1> DEFINE w == Unfused[i + bytes]
             p == PlainStep(t)
             flags == Or(And(m.sreg, 192), 2)
             last == [m EXCEPT !.sreg = flags]
             pc == (i + bytes + 1) % 65536
             cycles == m.cycles + bytes + 1
  <1>1. w \in Instruction /\ w.op = "BRBC" /\ w.a = 2 /\ i \in Word /\ i \in Nat /\ i <= 65535 /\ i + bytes \in Word
        /\ i + bytes <= 65535
    BY UnfusedIs, WordIs DEF LoopAt
  <1>2. p = Branch(t, w)
    <2>1. p = Operation(t, w)
      BY DEF PlainStep
    <2> HIDE DEF w
    <2> QED
      BY <1>1, <2>1 DEF Operation
  <1> HIDE DEF w, p
  <1>3. p = IF On(t, Z) THEN Done(t, 1, 1) ELSE Goto(t, w.b, 2)
    BY <1>1, <1>2, BranchIs
  <1>4. w.b = i
    BY DEF w
  <1>5. m.cycles \in Int /\ bytes \in Nat /\ bytes + 1 \in Nat /\ bytes + 2 \in Nat
    BY CpuFields
  <1>6. ASSUME ~On(t, Z)
        PROVE  /\ round.pc = i /\ round.cycles = m.cycles + bytes + 2
               /\ p \in Cpu /\ p.cycles = round.cycles /\ round = [p EXCEPT !.sreg = m.sreg]
    <2>1. p = Goto(t, i, 2)
      BY <1>3, <1>4, <1>6
    <2>2. Moved(t, p, i, Later(t, 2))
      BY <1>1, <2>1, GotoTwo
    <2>3. Moved(m, round, i, Later(m, bytes + 2))
      BY <1>1, <1>5, GotoIs
    <2>4. p \in Cpu /\ p.pc = i /\ p.cycles = m.cycles + bytes + 2 /\ p.sp = m.sp /\ p.state = m.state /\ p.data = m.data
      BY <1>5, <2>2 DEF Moved, Later
    <2>5. /\ round \in Cpu /\ round.pc = i /\ round.cycles = m.cycles + bytes + 2 /\ round.sreg = m.sreg
          /\ round.sp = m.sp /\ round.state = m.state /\ round.data = m.data
      BY <1>5, <2>3 DEF Moved, Later
    <2>6. m.sreg \in Byte
      BY CpuFields
    <2>7. round = [p EXCEPT !.sreg = m.sreg]
      BY <2>4, <2>5, <2>6 DEF Cpu
    <2> QED
      BY <2>4, <2>5, <2>7
  <1>7. ASSUME On(t, Z), t.sreg = flags
        PROVE  out.pc # i /\ out.cycles = m.cycles + bytes + 1 /\ p = out
    <2>1. p = Done(t, 1, 1)
      BY <1>3, <1>7
    <2>2. Moved(t, p, Ahead(t, 1), Later(t, 1))
      BY <2>1, DoneOne
    <2>3. t.sreg \in Byte
      BY CpuFields
    <2> HIDE DEF flags
    <2>4. last \in Cpu /\ last.pc = i /\ last.sreg = flags /\ last.sp = m.sp /\ last.state = m.state
          /\ last.cycles = m.cycles /\ last.data = m.data
      BY <1>7, <2>3 DEF Cpu
    <2>5. out = Done(last, bytes + 1, bytes + 1)
      BY DEF flags
    <2> HIDE DEF last
    <2>6. Moved(last, out, Ahead(last, bytes + 1), Later(last, bytes + 1))
      BY <1>5, <2>4, <2>5, DoneIs
    <2>7. Ahead(last, bytes + 1) = pc /\ Ahead(t, 1) = pc
      BY <1>1, <1>5, <2>4 DEF Ahead
    <2>8. Later(last, bytes + 1) = cycles /\ Later(t, 1) = cycles
      BY <1>5, <2>4 DEF Later
    <2> HIDE DEF pc, cycles
    <2>9. Moved(t, out, pc, cycles)
      BY <1>7, <2>4, <2>6, <2>7, <2>8 DEF Moved
    <2>10. p = out
      BY <2>2, <2>7, <2>8, <2>9, SameMoved
    <2>11. out.pc = pc /\ out.cycles = cycles
      BY <2>9 DEF Moved
    <2>12. pc # i
      BY <1>1, <1>5 DEF pc
    <2> QED
      BY <2>10, <2>11, <2>12 DEF cycles
  <1> QED
    BY <1>6, <1>7 DEF p, flags

\* The cores c and s differ at most in their data.
Alike(c, s) == /\ s \in Cpu /\ s.pc = c.pc /\ s.sreg = c.sreg /\ s.sp = c.sp /\ s.state = c.state
               /\ s.cycles = c.cycles

LEMMA SetRAlike ==
    ASSUME NEW c \in Cpu, NEW n \in Register, NEW v \in Byte
    PROVE  Alike(c, SetR(c, n, v))
  BY SetRIs, ZenonT(60) DEF Alike

\* A round of the loop against its instructions, given the state t that the
\* instructions before the branch leave.
LEMMA Delay2IsPlain ==
    ASSUME Sound, Sound', Step, cache[cpu.pc].op = "DELAY2", DistinctAt(cpu.pc, 2)
    PROVE  StepIsPlain
  <1> DEFINE i == cpu.pc
             s == PlainStep(cpu)
             t == PlainStep(s)
             p == PlainStep(t)
             m == Counted2(cpu, i)
             round == Goto(m, i, 4)
             out == Done([m EXCEPT !.sreg = Or(And(@, 192), 2)], 3, 3)
             zero == Low(cpu, i) = 0 /\ Middle(cpu, i) = 0
             next == cpu'
  <1>1. prog \in Programs /\ cache = Fuse(Unfused) /\ cpu \in Cpu /\ next \in Cpu
        /\ i \in DOMAIN prog.flash /\ cpu.state = "RUNNING"
    BY DEF Sound, Step
  <1>2. next = Delay(cpu, cache[i])
    BY DEF Step, Operation
  <1>3. /\ Unfused[i].op = "SUBI" /\ LoopAt(i, 2) /\ Unfused[i + 2].b = i
        /\ Delay(cpu, cache[i]) = IF Low(cpu, i) # 0 \/ Middle(cpu, i) # 0 THEN round ELSE out
    BY <1>1, Delay2Is
  <1>4. next = IF zero THEN out ELSE round
    BY <1>2, <1>3
  <1>5. /\ Counter(i, 0) \in Register /\ Counter(i, 1) \in Register
        /\ Low(cpu, i) \in Byte /\ Middle(cpu, i) \in Byte
    BY <1>1, <1>3, CounterIs
  <1>6. /\ s \in Cpu /\ s.state = "RUNNING" /\ s.cycles = cpu.cycles + 1
        /\ t \in Cpu /\ t.pc = i + 2 /\ t.sp = cpu.sp /\ t.state = "RUNNING" /\ t.cycles = cpu.cycles + 2
        /\ t.data = m.data
        /\ On(t, Z) <=> zero
        /\ zero => t.sreg = Or(And(cpu.sreg, 192), 2)
    <2>1. /\ s \in Cpu /\ s.state = cpu.state /\ s.cycles = cpu.cycles + 1
          /\ t \in Cpu /\ t.pc = i + 2 /\ t.sp = cpu.sp /\ t.state = cpu.state /\ t.cycles = cpu.cycles + 2
          /\ t.data = Counted2(cpu, i).data
          /\ On(t, C) <=> R(cpu, Counter(i, 0)) < Unfused[i].b /\ R(cpu, Counter(i, 1)) = 0
          /\ On(t, Z) <=> Low(cpu, i) = 0 /\ Middle(cpu, i) = 0
          /\ Bit(t.sreg, 6) = Bit(cpu.sreg, 6) /\ Bit(t.sreg, 7) = Bit(cpu.sreg, 7)
          /\ Low(cpu, i) = 0 /\ Middle(cpu, i) = 0 =>
                 /\ ~(R(cpu, Counter(i, 0)) < Unfused[i].b)
                 /\ R(cpu, Counter(i, 1)) = 0
                 /\ Bit(t.sreg, 2) = 0 /\ Bit(t.sreg, 3) = 0 /\ Bit(t.sreg, 4) = 0 /\ Bit(t.sreg, 5) = 0
      <3>1. TwoCounted(cpu, i, 2, s, t)
        BY <1>1, <1>3, TwoOfDelay
      <3> QED
        BY <3>1 DEF TwoCounted
    <2> HIDE DEF s, t
    <2>2. zero => t.sreg = Or(And(cpu.sreg, 192), 2)
      BY <1>1, <2>1, ExitFlags
    <2> QED
      BY <1>1, <2>1, <2>2
  <1>7. m \in Cpu /\ m.pc = i /\ m.sreg = cpu.sreg /\ m.sp = cpu.sp /\ m.state = cpu.state /\ m.cycles = cpu.cycles
    <2> DEFINE low == SetR(cpu, Counter(i, 0), Low(cpu, i))
    <2>1. m = SetR(low, Counter(i, 1), Middle(cpu, i))
      BY DEF Counted2
    <2> HIDE DEF m
    <2>2. Alike(cpu, low)
      BY <1>1, <1>5, SetRAlike
    <2>3. low \in Cpu
      BY <2>2 DEF Alike
    <2>4. Alike(low, m)
      BY <1>5, <2>1, <2>3, SetRAlike
    <2> HIDE DEF low
    <2> QED
      BY <2>2, <2>4 DEF Alike
  <1> HIDE DEF s, t, m, zero
  <1>8. /\ ~On(t, Z) => /\ round.pc = i /\ round.cycles = m.cycles + 4 /\ p \in Cpu /\ p.cycles = round.cycles
                        /\ round = [p EXCEPT !.sreg = m.sreg]
        /\ t.sreg = Or(And(m.sreg, 192), 2) /\ On(t, Z) => out.pc # i /\ out.cycles = m.cycles + 3 /\ p = out
    <2> DEFINE bytes == 2
    <2>1. LoopAt(i, bytes) /\ Unfused[i + bytes].b = i /\ bytes \in {2, 3} /\ t.pc = i + bytes /\ t.cycles = m.cycles + bytes
          /\ t.sp = m.sp /\ t.state = m.state /\ t.data = m.data
      BY <1>1, <1>3, <1>6, <1>7
    <2>2. round = Goto(m, i, bytes + 2) /\ out = Done([m EXCEPT !.sreg = Or(And(@, 192), 2)], bytes + 1, bytes + 1)
      OBVIOUS
    <2>3. m.cycles \in Int
      BY <1>7, CpuFields
    <2>4. m.cycles + bytes + 2 = m.cycles + 4 /\ m.cycles + bytes + 1 = m.cycles + 3
      BY <2>3
    <2> HIDE DEF bytes, round, out
    <2>5. /\ ~On(t, Z) => /\ round.pc = i /\ round.cycles = m.cycles + bytes + 2
                          /\ PlainStep(t) \in Cpu /\ PlainStep(t).cycles = round.cycles
                          /\ round = [PlainStep(t) EXCEPT !.sreg = m.sreg]
          /\ t.sreg = Or(And(m.sreg, 192), 2) /\ On(t, Z) =>
                out.pc # i /\ out.cycles = m.cycles + bytes + 1 /\ PlainStep(t) = out
      BY <1>1, <1>6, <1>7, <2>1, <2>2, LoopEnd
    <2> QED
      BY <2>4, <2>5
  <1> HIDE DEF round, out, p, next, i
  <1>9. p \in Cpu /\ p.cycles = next.cycles /\ next.cycles > cpu.cycles + 2 /\ next.cycles \in Nat /\ cpu.cycles \in Nat
    <2>1. cpu.cycles \in Nat /\ next.cycles \in Nat
      BY <1>1, CpuFields
    <2>2. CASE zero
      BY <1>1, <1>4, <1>6, <1>7, <1>8, <2>1, <2>2
    <2>3. CASE ~zero
      BY <1>4, <1>6, <1>7, <1>8, <2>1, <2>3
    <2> QED
      BY <2>2, <2>3
  <1>10. PlainUntil(cpu, next.cycles) = p
    <2>1. PlainStep(cpu) = s /\ PlainStep(s) = t /\ PlainStep(t) = p
      BY DEF s, t, p
    <2>2. Further(s, next.cycles) = t
      BY <1>6, <1>9, <2>1, FurtherIs
    <2>3. Further(t, next.cycles) = p
      BY <1>6, <1>9, <2>1, FurtherIs
    <2>4. Further(p, next.cycles) = p
      BY <1>9, FurtherIs
    <2> QED
      BY <2>1, <2>2, <2>3, <2>4, PlainUntilIs
  <1>11. next = IF next.pc = i THEN [p EXCEPT !.sreg = cpu.sreg] ELSE p
    <2>1. CASE zero
      BY <1>4, <1>6, <1>7, <1>8, <2>1
    <2>2. CASE ~zero
      BY <1>4, <1>6, <1>7, <1>8, <2>2
    <2> QED
      BY <2>1, <2>2
  <1>12. cache[i].op \in {"DELAY2", "DELAY3"}
    BY DEF i
  <1> QED
    BY <1>10, <1>11, <1>12 DEF next, i, StepIsPlain

\* The three instructions that count a long loop down.
LEMMA ThreeOfDelay ==
    ASSUME prog \in Programs, NEW c \in Cpu, NEW i \in DOMAIN prog.flash, c.pc = i,
           Unfused[i].op = "SUBI", LoopAt(i, 3), DistinctAt(i, 3),
           NEW s, s = PlainStep(c), NEW t, t = PlainStep(s), NEW q, q = PlainStep(t)
    PROVE  /\ s \in Cpu /\ s.state = c.state /\ s.cycles = c.cycles + 1
           /\ t \in Cpu /\ t.state = c.state /\ t.cycles = c.cycles + 2
           /\ q \in Cpu /\ q.pc = i + 3 /\ q.sp = c.sp /\ q.state = c.state /\ q.cycles = c.cycles + 3
           /\ q.data = Counted3(c, i).data
           /\ On(q, Z) <=> Low(c, i) = 0 /\ Middle(c, i) = 0 /\ High(c, i) = 0
           /\ Low(c, i) = 0 /\ Middle(c, i) = 0 /\ High(c, i) = 0 => q.sreg = Or(And(c.sreg, 192), 2)
           /\ Alike(c, Counted3(c, i))
  <1> DEFINE n == Counter(i, 2)
             x == R(c, n)
             carry == Truth(On(t, C))
             low == Low(c, i)
             middle == Middle(c, i)
             high == High(c, i)
             two == Counted2(c, i)
             one == SetR(c, Counter(i, 0), low)
             three == Counted3(c, i)
             pc == i + 2 + 1
  <1>1. /\ Counter(i, 0) \in Register /\ Counter(i, 1) \in Register /\ n \in Register
        /\ low \in Byte /\ middle \in Byte /\ high \in Byte
    <2> DEFINE bytes == 3
    <2>1. bytes \in {2, 3} /\ LoopAt(i, bytes) /\ bytes = 3
      OBVIOUS
    <2> HIDE DEF bytes
    <2> QED
      BY <2>1, CounterIs
  <1>2. x \in Byte /\ x \in Int /\ 0 <= x /\ x <= 255
    BY <1>1, RIsByte, ByteIs
  <1>3. /\ s \in Cpu /\ s.state = c.state /\ s.cycles = c.cycles + 1
        /\ t \in Cpu /\ t.pc = i + 2 /\ t.sp = c.sp /\ t.state = c.state /\ t.cycles = c.cycles + 2
        /\ t.data = two.data
        /\ R(t, n) = x
        /\ On(t, C) <=> R(c, Counter(i, 0)) < Unfused[i].b /\ R(c, Counter(i, 1)) = 0
        /\ On(t, Z) <=> low = 0 /\ middle = 0
        /\ Bit(t.sreg, 6) = Bit(c.sreg, 6) /\ Bit(t.sreg, 7) = Bit(c.sreg, 7)
        /\ low = 0 /\ middle = 0 => ~(R(c, Counter(i, 0)) < Unfused[i].b)
    <2> DEFINE bytes == 3
    <2>1. bytes \in {2, 3} /\ LoopAt(i, bytes) /\ DistinctAt(i, bytes) /\ bytes = 3
      OBVIOUS
    <2> HIDE DEF bytes
    <2>2. TwoCounted(c, i, bytes, s, t)
      BY <2>1, TwoOfDelay
    <2> QED
      BY <2>1, <2>2 DEF TwoCounted
  <1>4. carry \in 0..1 /\ carry = Truth(R(c, Counter(i, 0)) < Unfused[i].b /\ R(c, Counter(i, 1)) = 0)
        /\ (low = 0 /\ middle = 0 => carry = 0)
    BY <1>3 DEF Truth
  <1>5. high = (x - carry) % 256
    BY <1>4 DEF High
  <1> HIDE DEF carry, low, middle, high, one, two, three, x
  <1>6. SteppedDown(t, q, n, pc, carry, high)
    <2>2. (R(t, n) - Truth(On(t, C))) % 256 = high /\ Truth(On(t, C)) = carry /\ PlainStep(t) = q
      BY <1>3, <1>5 DEF carry
    <2>3. t \in Cpu /\ t.pc = i + 2
      BY <1>3
    <2>4. SteppedDown(t, PlainStep(t), Counter(i, 2), i + 2 + 1, Truth(On(t, C)),
                      (R(t, Counter(i, 2)) - Truth(On(t, C))) % 256)
      BY <2>3, ThirdOfDelay, Zenon
    <2>5. SteppedDown(t, q, n, i + 2 + 1, carry, high)
      BY <2>2, <2>4
    <2> QED
      BY <2>5
  <1> HIDE DEF n
  <1>7. /\ q \in Cpu /\ q.pc = pc /\ q.sp = t.sp /\ q.state = t.state /\ q.cycles = t.cycles + 1
        /\ q.data = [t.data EXCEPT ![n] = high]
        /\ On(q, C) <=> x < carry
        /\ On(q, Z) <=> high = 0 /\ On(t, Z)
        /\ Bit(q.sreg, 6) = Bit(t.sreg, 6) /\ Bit(q.sreg, 7) = Bit(t.sreg, 7)
        /\ x = 0 /\ carry = 0 =>
               Bit(q.sreg, 2) = 0 /\ Bit(q.sreg, 3) = 0 /\ Bit(q.sreg, 4) = 0 /\ Bit(q.sreg, 5) = 0
    BY <1>3, <1>6 DEF SteppedDown
  <1>8. carry = 0 /\ high = 0 => x = 0
    BY <1>2, <1>5
  <1>9. low = 0 /\ middle = 0 /\ high = 0 => q.sreg = Or(And(c.sreg, 192), 2)
    BY <1>3, <1>4, <1>7, <1>8, ExitFlags
  <1>10. three.data = [two.data EXCEPT ![n] = high] /\ Alike(c, three)
    <2>1. one = SetR(c, Counter(i, 0), low) /\ two = SetR(one, Counter(i, 1), middle) /\ three = SetR(two, n, high)
      BY DEF one, two, three, n, low, middle, high, Counted2, Counted3
    <2>2. Alike(c, one)
      BY <1>1, <2>1, SetRAlike
    <2>3. one \in Cpu
      BY <2>2 DEF Alike
    <2>4. Alike(one, two)
      BY <1>1, <2>1, <2>3, SetRAlike
    <2>5. two \in Cpu
      BY <2>4 DEF Alike
    <2>6. Alike(two, three)
      BY <1>1, <2>1, <2>5, SetRAlike
    <2>7. three.data = [two.data EXCEPT ![n] = high]
      BY <1>1, <2>1, <2>5, SetRIs
    <2> QED
      BY <2>2, <2>4, <2>6, <2>7 DEF Alike
  <1>11. pc = i + 3 /\ c.cycles + 2 + 1 = c.cycles + 3
    BY CpuFields, UnfusedIs, WordIs
  <1> HIDE DEF pc
  <1>12. q.data = three.data
    BY <1>3, <1>7, <1>10
  <1>13. On(q, Z) <=> low = 0 /\ middle = 0 /\ high = 0
    BY <1>3, <1>7
  <1> QED
    BY <1>3, <1>7, <1>9, <1>10, <1>11, <1>12, <1>13 DEF low, middle, high, three

LEMMA Delay3IsPlain ==
    ASSUME Sound, Sound', Step, cache[cpu.pc].op = "DELAY3", DistinctAt(cpu.pc, 3)
    PROVE  StepIsPlain
  <1> DEFINE i == cpu.pc
             s == PlainStep(cpu)
             t == PlainStep(s)
             q == PlainStep(t)
             p == PlainStep(q)
             m == Counted3(cpu, i)
             round == Goto(m, i, 5)
             out == Done([m EXCEPT !.sreg = Or(And(@, 192), 2)], 4, 4)
             zero == Low(cpu, i) = 0 /\ Middle(cpu, i) = 0 /\ High(cpu, i) = 0
             next == cpu'
  <1>1. prog \in Programs /\ cache = Fuse(Unfused) /\ cpu \in Cpu /\ next \in Cpu
        /\ i \in DOMAIN prog.flash /\ cpu.state = "RUNNING"
    BY DEF Sound, Step
  <1>2. next = Delay(cpu, cache[i])
    BY DEF Step, Operation
  <1>3. /\ Unfused[i].op = "SUBI" /\ LoopAt(i, 3) /\ Unfused[i + 3].b = i
        /\ Delay(cpu, cache[i]) = IF Low(cpu, i) # 0 \/ Middle(cpu, i) # 0 \/ High(cpu, i) # 0 THEN round ELSE out
    BY <1>1, Delay3Is
  <1>4. next = IF zero THEN out ELSE round
    BY <1>2, <1>3
  <1>5. /\ s \in Cpu /\ s.state = "RUNNING" /\ s.cycles = cpu.cycles + 1
        /\ t \in Cpu /\ t.state = "RUNNING" /\ t.cycles = cpu.cycles + 2
        /\ q \in Cpu /\ q.pc = i + 3 /\ q.sp = cpu.sp /\ q.state = "RUNNING" /\ q.cycles = cpu.cycles + 3
        /\ q.data = m.data
        /\ On(q, Z) <=> zero
        /\ zero => q.sreg = Or(And(cpu.sreg, 192), 2)
        /\ Alike(cpu, m)
    BY <1>1, <1>3, ThreeOfDelay
  <1>6. m \in Cpu /\ m.pc = i /\ m.sreg = cpu.sreg /\ m.sp = cpu.sp /\ m.state = cpu.state /\ m.cycles = cpu.cycles
    BY <1>5 DEF Alike
  <1> HIDE DEF s, t, q, m, zero
  <1>7. /\ ~On(q, Z) => /\ round.pc = i /\ round.cycles = m.cycles + 5 /\ p \in Cpu /\ p.cycles = round.cycles
                        /\ round = [p EXCEPT !.sreg = m.sreg]
        /\ q.sreg = Or(And(m.sreg, 192), 2) /\ On(q, Z) => out.pc # i /\ out.cycles = m.cycles + 4 /\ p = out
    <2> DEFINE bytes == 3
    <2>1. LoopAt(i, bytes) /\ Unfused[i + bytes].b = i /\ bytes \in {2, 3} /\ q.pc = i + bytes /\ q.cycles = m.cycles + bytes
          /\ q.sp = m.sp /\ q.state = m.state /\ q.data = m.data
      BY <1>1, <1>3, <1>5, <1>6
    <2>2. round = Goto(m, i, bytes + 2) /\ out = Done([m EXCEPT !.sreg = Or(And(@, 192), 2)], bytes + 1, bytes + 1)
      OBVIOUS
    <2>3. m.cycles \in Int
      BY <1>6, CpuFields
    <2>4. m.cycles + bytes + 2 = m.cycles + 5 /\ m.cycles + bytes + 1 = m.cycles + 4
      BY <2>3
    <2> HIDE DEF bytes, round, out
    <2>5. /\ ~On(q, Z) => /\ round.pc = i /\ round.cycles = m.cycles + bytes + 2
                          /\ PlainStep(q) \in Cpu /\ PlainStep(q).cycles = round.cycles
                          /\ round = [PlainStep(q) EXCEPT !.sreg = m.sreg]
          /\ q.sreg = Or(And(m.sreg, 192), 2) /\ On(q, Z) =>
                out.pc # i /\ out.cycles = m.cycles + bytes + 1 /\ PlainStep(q) = out
      BY <1>1, <1>5, <1>6, <2>1, <2>2, LoopEnd
    <2> QED
      BY <2>4, <2>5
  <1> HIDE DEF round, out, p, next, i
  <1>8. p \in Cpu /\ p.cycles = next.cycles /\ next.cycles > cpu.cycles + 3 /\ next.cycles \in Nat /\ cpu.cycles \in Nat
    <2>1. cpu.cycles \in Nat /\ next.cycles \in Nat
      BY <1>1, CpuFields
    <2>2. CASE zero
      BY <1>1, <1>4, <1>5, <1>6, <1>7, <2>1, <2>2
    <2>3. CASE ~zero
      BY <1>4, <1>5, <1>6, <1>7, <2>1, <2>3
    <2> QED
      BY <2>2, <2>3
  <1>9. PlainUntil(cpu, next.cycles) = p
    <2>1. PlainStep(cpu) = s /\ PlainStep(s) = t /\ PlainStep(t) = q /\ PlainStep(q) = p
      BY DEF s, t, q, p
    <2>2. Further(s, next.cycles) = t
      BY <1>5, <1>8, <2>1, FurtherIs
    <2>3. Further(t, next.cycles) = q
      BY <1>5, <1>8, <2>1, FurtherIs
    <2>4. Further(q, next.cycles) = p
      BY <1>5, <1>8, <2>1, FurtherIs
    <2> QED
      BY <2>1, <2>2, <2>3, <2>4, PlainUntilIs
  <1>10. next = IF next.pc = i THEN [p EXCEPT !.sreg = cpu.sreg] ELSE p
    <2>1. CASE zero
      BY <1>4, <1>5, <1>6, <1>7, <2>1
    <2>2. CASE ~zero
      BY <1>4, <1>5, <1>6, <1>7, <2>2
    <2> QED
      BY <2>1, <2>2
  <1>11. cache[i].op \in {"DELAY2", "DELAY3"}
    BY DEF i
  <1> QED
    BY <1>9, <1>10, <1>11 DEF next, i, StepIsPlain

\* The registers of the counter of a delay loop in the program differ.
LEMMA CountersDiffer ==
    ASSUME DistinctCounters, prog \in Programs, cache = Fuse(Unfused), NEW i \in DOMAIN prog.flash
    PROVE  /\ cache[i].op = "DELAY2" => DistinctAt(i, 2)
           /\ cache[i].op = "DELAY3" => DistinctAt(i, 3)
  <1>1. i \in DOMAIN Unfused /\ i \in Int
    BY UnfusedIs, WordIs
  <1>2. cache[i].op = FusedOp(Unfused, i)
    BY CacheIs
  <1>3. /\ FusedOp(Unfused, i) \in {"DELAY2", "DELAY3"} => Unfused[i].a # Unfused[i + 1].a
        /\ FusedOp(Unfused, i) = "DELAY3" => Unfused[i + 2].a # Unfused[i].a /\ Unfused[i + 2].a # Unfused[i + 1].a
    BY <1>1 DEF DistinctCounters, Unfused
  <1>4. i + 0 = i
    BY <1>1
  <1> QED
    BY <1>2, <1>3, <1>4 DEF DistinctAt, Counter

LEMMA EveryStepIsPlain ==
    ASSUME DistinctCounters, Sound, Sound', Step
    PROVE  StepIsPlain
  <1>1. prog \in Programs /\ cache = Fuse(Unfused) /\ cpu \in Cpu /\ cpu.pc \in DOMAIN prog.flash
    BY DEF Sound, Step
  <1>2. \/ cache[cpu.pc] = Unfused[cpu.pc] \/ cache[cpu.pc].op \in {"SUBI_BRNE", "DEC_BRNE"}
        \/ cache[cpu.pc].op = "DELAY2" \/ cache[cpu.pc].op = "DELAY3"
    BY <1>1, FusedLoops
  <1> QED
    BY <1>1, <1>2, UnfusedIsPlain, CountAndBranchIsPlain, Delay2IsPlain, Delay3IsPlain, CountersDiffer

\* Every step of the core on the fused cache is the instructions it stands for,
\* one at a time, in the same cycles: for every program in whose delay loops the
\* registers of the counter differ.
THEOREM AvrFusedIsPlain ==
    ASSUME DistinctCounters
    PROVE  ExecSpec => FusedIsPlain
  <1>1. Sound /\ Sound' /\ [Step]_execVars => [StepIsPlain]_execVars
    <2> SUFFICES ASSUME Sound, Sound', [Step]_execVars PROVE [StepIsPlain]_execVars
      OBVIOUS
    <2>1. CASE Step
      BY <2>1, EveryStepIsPlain
    <2>2. CASE UNCHANGED execVars
      BY <2>2
    <2> QED
      BY <2>1, <2>2
  <1>2. [][StepIsPlain]_execVars => FusedIsPlain
    BY DEF StepIsPlain, FusedIsPlain
  <1> QED
    BY <1>1, <1>2, SoundHolds, PTL DEF ExecSpec
=============================================================================
