--------------------------- MODULE AvrTimerProofs ---------------------------
(***************************************************************************)
(* Proofs about AvrTimer, for every width of the counter, every table of   *)
(* divisors and every batch of cycles.  A tick is a number of counts, so   *)
(* what holds after a tick is proved by induction on that number.  The     *)
(* induction is carried by the set of the numbers that have the property   *)
(* (SetInduction), since a theorem of the library that takes a predicate   *)
(* as its parameter cannot be used here.                                   *)
(***************************************************************************)
EXTENDS AvrTimer, FiniteSetTheorems, WellFoundedInduction, TLAPS

\* A set of numbers that is not empty has a least member.
LEMMA LeastNumber ==
    ASSUME NEW T \in SUBSET Nat, T # {}
    PROVE  \E n \in T : \A m \in T : n <= m
  <1> DEFINE Less == {p \in Nat \X Nat : p[1] < p[2]}
  <1>1. IsWellFoundedOn(Less, Nat)
    BY NatLessThanWellFounded DEF OpToRel
  <1>2. ASSUME NEW n \in T, NEW m \in T, ~ (<<m, n>> \in Less)
        PROVE  n <= m
    <2>1. n \in Nat /\ m \in Nat
      OBVIOUS
    <2>2. ~ (m < n)
      BY <1>2, <2>1
    <2> QED
      BY <2>1, <2>2
  <1> HIDE DEF Less
  <1>3. \E n \in T : \A m \in T : ~ (<<m, n>> \in Less)
    BY <1>1, WFMin, Zenon
  <1> QED
    BY <1>2, <1>3

\* A set that has zero and the successor of each of its members has every number.
LEMMA SetInduction ==
    ASSUME NEW S, 0 \in S, \A n \in Nat : n \in S => n + 1 \in S
    PROVE  Nat \subseteq S
  <1> SUFFICES ASSUME ~ (Nat \subseteq S) PROVE FALSE
    OBVIOUS
  <1>1. Nat \ S # {}
    OBVIOUS
  <1>2. PICK n \in Nat \ S : \A m \in Nat \ S : n <= m
    BY <1>1, LeastNumber
  <1>3. n # 0 /\ n - 1 \in Nat /\ n - 1 \in S
    BY <1>2
  <1> QED
    BY <1>2, <1>3
-----------------------------------------------------------------------------
(***************************************************************************)
(* A number of counts, one after the other.                                *)
(***************************************************************************)
\* f is the sequence of the first n counts from s.
CountsFrom(f, s, n) ==
    f = [k \in 0..n |-> IF k = 0 THEN s ELSE OneCount(f[k - 1])]

\* The sequence of counts exists for every number of them.
LEMMA CountsExist ==
    \A s : \A n \in Nat : \E f : CountsFrom(f, s, n)
  <1> SUFFICES ASSUME NEW s PROVE \A n \in Nat : \E f : CountsFrom(f, s, n)
    OBVIOUS
  <1> DEFINE S == {n \in Nat : \E f : CountsFrom(f, s, n)}
  <1>1. 0 \in S
    <2>1. CountsFrom([k \in 0..0 |-> s], s, 0)
      BY DEF CountsFrom
    <2> QED
      BY <2>1
  <1>2. ASSUME NEW n \in Nat, n \in S
        PROVE  n + 1 \in S
    <2>1. PICK f : CountsFrom(f, s, n)
      BY <1>2
    <2> DEFINE g == [k \in 0..n + 1 |-> IF k = n + 1 THEN OneCount(f[n]) ELSE f[k]]
    <2>2. f[0] = s /\ \A k \in 0..n : k # 0 => f[k] = OneCount(f[k - 1])
      BY <2>1 DEF CountsFrom
    <2>3. \A k \in 0..n : g[k] = f[k]
      OBVIOUS
    <2>4. g[n + 1] = OneCount(f[n])
      OBVIOUS
    <2>5. \A k \in 0..n + 1 : g[k] = IF k = 0 THEN s ELSE OneCount(g[k - 1])
      <3> HIDE DEF g
      <3> TAKE k \in 0..n + 1
      <3>1. CASE k = 0
        BY <3>1, <2>2, <2>3
      <3>2. CASE k # 0 /\ k # n + 1
        <4>1. k \in 0..n /\ k - 1 \in 0..n
          BY <3>2
        <4> QED
          BY <4>1, <3>2, <2>2, <2>3
      <3>3. CASE k = n + 1
        <4>1. n \in 0..n /\ k - 1 = n /\ k # 0
          BY <3>3
        <4>2. g[k - 1] = f[n]
          BY <4>1, <2>3
        <4> QED
          BY <3>3, <4>1, <4>2, <2>4
      <3> QED
        BY <3>1, <3>2, <3>3
    <2>6. DOMAIN g = 0..n + 1 /\ g = [k \in 0..n + 1 |-> g[k]]
      OBVIOUS
    <2>7. CountsFrom(g, s, n + 1)
      <3> HIDE DEF g
      <3>1. g = [k \in 0..n + 1 |-> IF k = 0 THEN s ELSE OneCount(g[k - 1])]
        BY <2>5, <2>6
      <3> QED
        BY <3>1 DEF CountsFrom
    <2> HIDE DEF g
    <2> QED
      BY <2>7
  <1> HIDE DEF S
  <1>3. Nat \subseteq S
    BY <1>1, <1>2, SetInduction, Zenon
  <1> QED
    BY <1>3 DEF S

\* Counted is the last of one sequence of that length, which CHOOSE picks.
LEMMA CountedIsLast ==
    ASSUME NEW s, NEW n \in Nat
    PROVE  \E f : CountsFrom(f, s, n) /\ Counted(s, n) = f[n]
  <1> DEFINE after == CHOOSE f : CountsFrom(f, s, n)
  <1>1. CountsFrom(after, s, n)
    BY CountsExist, Zenon
  <1>2. Counted(s, n) = after[n]
    BY Zenon DEF Counted, CountsFrom
  <1> QED
    BY <1>1, <1>2

\* Two sequences of counts agree as far as both go.
LEMMA CountsAgree ==
    ASSUME NEW s, NEW n \in Nat, NEW m \in Nat, n <= m,
           NEW f, CountsFrom(f, s, n), NEW g, CountsFrom(g, s, m)
    PROVE  \A k \in 0..n : f[k] = g[k]
  <1> DEFINE S == {k \in Nat : k <= n => f[k] = g[k]}
  <1>1. f[0] = s /\ \A k \in 0..n : k # 0 => f[k] = OneCount(f[k - 1])
    BY DEF CountsFrom
  <1>2. g[0] = s /\ \A k \in 0..m : k # 0 => g[k] = OneCount(g[k - 1])
    BY DEF CountsFrom
  <1>3. 0 \in S
    BY <1>1, <1>2
  <1>4. ASSUME NEW k \in Nat, k \in S
        PROVE  k + 1 \in S
    <2>1. SUFFICES ASSUME k + 1 <= n PROVE f[k + 1] = g[k + 1]
      OBVIOUS
    <2>2. f[k] = g[k]
      BY <1>4, <2>1
    <2>3. k + 1 \in 0..n /\ k + 1 \in 0..m /\ k + 1 # 0 /\ (k + 1) - 1 = k
      BY <2>1
    <2>4. f[k + 1] = OneCount(f[k]) /\ g[k + 1] = OneCount(g[k])
      BY <1>1, <1>2, <2>3
    <2> QED
      BY <2>2, <2>4
  <1> HIDE DEF S
  <1>5. Nat \subseteq S
    BY <1>3, <1>4, SetInduction, Zenon
  <1> QED
    BY <1>5 DEF S

\* Counted, as the recursion it is meant to be.
LEMMA CountedStep ==
    ASSUME NEW s
    PROVE  /\ Counted(s, 0) = s
           /\ \A n \in Nat : Counted(s, n + 1) = OneCount(Counted(s, n))
  <1>1. Counted(s, 0) = s
    <2>1. PICK f : CountsFrom(f, s, 0) /\ Counted(s, 0) = f[0]
      BY CountedIsLast
    <2> QED
      BY <2>1 DEF CountsFrom
  <1>2. ASSUME NEW n \in Nat
        PROVE  Counted(s, n + 1) = OneCount(Counted(s, n))
    <2>1. PICK f : CountsFrom(f, s, n) /\ Counted(s, n) = f[n]
      BY CountedIsLast
    <2>2. PICK g : CountsFrom(g, s, n + 1) /\ Counted(s, n + 1) = g[n + 1]
      BY CountedIsLast
    <2>3. f[n] = g[n]
      BY <2>1, <2>2, CountsAgree
    <2>4. g[n + 1] = OneCount(g[n])
      BY <2>2 DEF CountsFrom
    <2> QED
      BY <2>1, <2>2, <2>3, <2>4
  <1> QED
    BY <1>1, <1>2
-----------------------------------------------------------------------------
(***************************************************************************)
(* What one count, and any number of them, keeps.                          *)
(***************************************************************************)
Kept(s) == s.due = s.timer.tifr \cup s.pending \cup s.wiped

\* The counter stays in range, in either direction.
LEMMA MovedType ==
    ASSUME NEW t \in Timer
    PROVE  Moved(t).tcnt \in Counts /\ Moved(t).up \in BOOLEAN /\ Moved(t).tov \in BOOLEAN
  <1>1. MaxCount \in Nat \ {0} /\ t.tcnt \in Counts /\ Top(t) \in Counts /\ t.up \in BOOLEAN
    BY TimerAssumption DEF Timer, Top, Counts
  <1>2. \A i \in Int : i % (MaxCount + 1) \in Counts
    BY <1>1 DEF Counts
  <1>3. CASE PhaseCorrect(t) /\ t.up
    <2>1. (t.tcnt + 1) % (MaxCount + 1) \in Counts
      <3>1. t.tcnt + 1 \in Int
        BY <1>1 DEF Counts
      <3> QED
        BY <3>1, <1>2
    <2> QED
      BY <1>1, <1>3, <2>1 DEF Moved, CountUpDown
  <1>4. CASE PhaseCorrect(t) /\ ~ t.up
    <2>1. (t.tcnt - 1) % (MaxCount + 1) \in Counts
      <3>1. t.tcnt - 1 \in Int
        BY <1>1 DEF Counts
      <3> QED
        BY <3>1, <1>2
    <2> QED
      BY <1>1, <1>4, <2>1 DEF Moved, CountUpDown
  <1>5. CASE ~ PhaseCorrect(t)
    <2>1. t.tcnt + 1 > Top(t) \/ t.tcnt + 1 \in Counts
      BY <1>1 DEF Counts
    <2>2. 0 \in Counts
      BY <1>1 DEF Counts
    <2> QED
      BY <1>1, <1>5, <2>1, <2>2 DEF Moved, CountUp
  <1> QED
    BY <1>3, <1>4, <1>5

\* One count keeps the types, the clock and the remainder, and an event that it
\* raises is in TIFR or among the requests.
LEMMA OneCountKeeps ==
    ASSUME NEW s \in Ticked
    PROVE  /\ OneCount(s) \in Ticked
           /\ OneCount(s).timer.cs = s.timer.cs
           /\ OneCount(s).timer.prescaler = s.timer.prescaler
           /\ Kept(s) => Kept(OneCount(s))
  <1> DEFINE t == s.timer
  <1>1. t \in Timer /\ s.pending \subseteq Requests /\ s.due \subseteq Flags /\ s.wiped \subseteq Flags
    BY DEF Ticked
  <1>2. Raised(t) \subseteq Flags
    BY DEF Raised
  <1>3. t.tifr \subseteq Flags /\ t.timsk \subseteq Requests
    BY <1>1 DEF Timer
  <1>4. Queued(t) \subseteq Requests
    BY <1>3 DEF Queued
  <1>5. /\ Count(t) \in Timer
        /\ Count(t).cs = t.cs /\ Count(t).prescaler = t.prescaler
        /\ Count(t).tifr = (t.tifr \cup Raised(t)) \ t.timsk
    <2>1. Moved(t).tcnt \in Counts /\ Moved(t).up \in BOOLEAN
      BY <1>1, MovedType
    <2>2. (t.tifr \cup Raised(t)) \ t.timsk \in SUBSET Flags
      BY <1>2, <1>3
    <2> HIDE DEF t
    <2> QED
      BY <1>1, <2>1, <2>2 DEF Count, Timer
  <1>6. /\ OneCount(s).timer = Count(t)
        /\ OneCount(s).pending = s.pending \cup Queued(t)
        /\ OneCount(s).due = s.due \cup Raised(t)
        /\ OneCount(s).wiped = s.wiped \ Raised(t)
    BY DEF OneCount
  <1>7. OneCount(s) \in Ticked
    BY <1>1, <1>2, <1>4, <1>5 DEF OneCount, Ticked
  <1>8. ASSUME Kept(s)
        PROVE  Kept(OneCount(s))
    BY <1>5, <1>6, <1>8 DEF Kept, Queued
  <1> QED
    BY <1>5, <1>6, <1>7, <1>8

\* So does any number of counts.
LEMMA CountedKeeps ==
    ASSUME NEW s \in Ticked, NEW n \in Nat
    PROVE  /\ Counted(s, n) \in Ticked
           /\ Counted(s, n).timer.cs = s.timer.cs
           /\ Counted(s, n).timer.prescaler = s.timer.prescaler
           /\ Kept(s) => Kept(Counted(s, n))
  <1> DEFINE Holds(k) == /\ Counted(s, k) \in Ticked
                         /\ Counted(s, k).timer.cs = s.timer.cs
                         /\ Counted(s, k).timer.prescaler = s.timer.prescaler
                         /\ Kept(s) => Kept(Counted(s, k))
             S == {k \in Nat : Holds(k)}
  <1>1. 0 \in S
    BY CountedStep
  <1>2. ASSUME NEW k \in Nat, k \in S
        PROVE  k + 1 \in S
    <2>1. Counted(s, k) \in Ticked
      BY <1>2
    <2>2. Counted(s, k + 1) = OneCount(Counted(s, k))
      BY CountedStep
    <2>3. Holds(k + 1)
      BY <1>2, <2>1, <2>2, OneCountKeeps
    <2> HIDE DEF Holds
    <2> QED
      BY <2>3
  <1> HIDE DEF S
  <1>3. Nat \subseteq S
    BY <1>1, <1>2, SetInduction, Zenon
  <1> QED
    BY <1>3 DEF S

\* A tick, whatever its cycles.
LEMMA TickKeeps ==
    ASSUME NEW s \in Ticked, NEW c \in Nat
    PROVE  /\ Tick(s, c) \in Ticked
           /\ Kept(s) => Kept(Tick(s, c))
  <1>1. CASE s.timer.cs \notin DOMAIN Divisor
    BY <1>1 DEF Tick
  <1>2. CASE s.timer.cs \in DOMAIN Divisor
    <2> DEFINE div == Divisor[s.timer.cs]
               sum == s.timer.prescaler + c
               r == [s EXCEPT !.timer.prescaler = sum % div]
    <2>1. div \in Nat \ {0}
      BY <1>2, TimerAssumption
    <2>2. sum \in Nat
      BY DEF Ticked, Timer
    <2> HIDE DEF div, sum
    <2>3. sum % div \in Nat /\ sum \div div \in Nat
      BY <2>1, <2>2
    <2>4. r \in Ticked /\ (Kept(s) => Kept(r))
      BY <2>3 DEF Ticked, Timer, Kept
    <2>5. Tick(s, c) = Counted(r, sum \div div)
      BY <1>2, Zenon DEF Tick, div, sum
    <2> HIDE DEF r
    <2> QED
      BY <2>3, <2>4, <2>5, CountedKeeps
  <1> QED
    BY <1>1, <1>2

\* The state after an instruction of c cycles on which s is what it has written.
LEMMA ElapseKeeps ==
    ASSUME NEW s \in Ticked, NEW c \in Nat, accum \in 0..Interval - 1, Elapse(s, c)
    PROVE  /\ timer' \in Timer /\ pending' \subseteq Requests /\ due' \subseteq Flags
           /\ wiped' \subseteq Flags /\ accum' \in 0..Interval - 1
           /\ Kept(s) => EventsKept'
  <1>1. accum + c \in Nat /\ Interval \in Nat \ {0}
    BY TimerAssumption
  <1>2. Tick(s, accum + c) \in Ticked /\ (Kept(s) => Kept(Tick(s, accum + c)))
    BY <1>1, TickKeeps
  <1> DEFINE now == IF accum + c >= Interval THEN Tick(s, accum + c) ELSE s
  <1>3. now \in Ticked /\ (Kept(s) => Kept(now))
    BY <1>2
  <1>4. timer' = now.timer /\ pending' = now.pending /\ due' = now.due
        /\ wiped' = now.wiped
    BY DEF Elapse
  <1>5. accum' = IF accum + c >= Interval THEN 0 ELSE accum + c
    BY DEF Elapse
  <1> HIDE DEF now
  <1>6. accum' \in 0..Interval - 1
    BY <1>1, <1>5
  <1>7. /\ timer' \in Timer /\ pending' \subseteq Requests
        /\ due' \subseteq Flags /\ wiped' \subseteq Flags
    BY <1>3, <1>4 DEF Ticked
  <1> QED
    BY <1>3, <1>4, <1>6, <1>7 DEF Kept, EventsKept
-----------------------------------------------------------------------------
(***************************************************************************)
(* The inductive invariant.                                                *)
(***************************************************************************)
IInv == TypeOK /\ EventsKept

\* What an instruction acts on.
LEMMA HereType ==
    ASSUME IInv
    PROVE  Here \in Ticked /\ Kept(Here)
  BY DEF IInv, TypeOK, EventsKept, Here, Ticked, Kept

\* An instruction that keeps the requests' bookkeeping keeps the invariant.
LEMMA InstructionKeeps ==
    ASSUME IInv, NEW s \in Ticked, Kept(s), NEW c \in Nat, Elapse(s, c),
           setups' \in 0..MaxSetups
    PROVE  IInv'
  <1>1. accum \in 0..Interval - 1
    BY DEF IInv, TypeOK
  <1> QED
    BY <1>1, ElapseKeeps DEF IInv, TypeOK

\* Every step keeps the types and the events.
LEMMA StepKeepsIInv == IInv /\ [Next]_vars => IInv'
  <1> SUFFICES ASSUME IInv, [Next]_vars PROVE IInv'
    OBVIOUS
  <1> USE HereType
  <1>1. /\ timer \in Timer /\ pending \subseteq Requests
        /\ due \subseteq Flags /\ wiped \subseteq Flags
        /\ due = timer.tifr \cup pending \cup wiped
        /\ accum \in 0..Interval - 1 /\ setups \in 0..MaxSetups /\ MaxSetups \in Nat
    BY TimerAssumption DEF IInv, TypeOK, EventsKept
  <1>2. Here = [timer |-> timer, pending |-> pending, due |-> due, wiped |-> wiped]
    BY DEF Here
  <1>3. setups < MaxSetups => setups + 1 \in 0..MaxSetups
    BY <1>1
  <1>4. CASE WriteTccr0a
    <2>1. PICK v \in Modes : Elapse([Here EXCEPT !.timer["wgm"] = v], 1)
      BY <1>4 DEF WriteTccr0a, SetUp
    <2>2. [Here EXCEPT !.timer["wgm"] = v] \in Ticked /\ Kept([Here EXCEPT !.timer["wgm"] = v])
      BY <1>1, <1>2 DEF Ticked, Timer, Kept
    <2>3. setups' \in 0..MaxSetups
      BY <1>3, <1>4 DEF WriteTccr0a, SetUp
    <2> QED
      BY <2>1, <2>2, <2>3, InstructionKeeps
  <1>5. CASE WriteTccr0b
    <2>1. PICK cs \in Clocks, w \in Modes :
              Elapse([Here EXCEPT !.timer.cs = cs, !.timer.wgm = w], 1)
      BY <1>5 DEF WriteTccr0b
    <2> DEFINE s == [Here EXCEPT !.timer.cs = cs, !.timer.wgm = w]
    <2>2. s \in Ticked /\ Kept(s)
      BY <1>1, <1>2 DEF Ticked, Timer, Kept
    <2>3. setups' \in 0..MaxSetups
      BY <1>3, <1>5 DEF WriteTccr0b
    <2> HIDE DEF s
    <2> QED
      BY <2>1, <2>2, <2>3, InstructionKeeps DEF s
  <1>6. CASE WriteTcnt0
    <2>1. PICK v \in Counts : Elapse([Here EXCEPT !.timer["tcnt"] = v], 1)
      BY <1>6 DEF WriteTcnt0, SetUp
    <2>2. [Here EXCEPT !.timer["tcnt"] = v] \in Ticked /\ Kept([Here EXCEPT !.timer["tcnt"] = v])
      BY <1>1, <1>2 DEF Ticked, Timer, Kept
    <2>3. setups' \in 0..MaxSetups
      BY <1>3, <1>6 DEF WriteTcnt0, SetUp
    <2> QED
      BY <2>1, <2>2, <2>3, InstructionKeeps
  <1>7. CASE WriteOcr0a
    <2>1. PICK v \in Counts : Elapse([Here EXCEPT !.timer["ocra"] = v], 1)
      BY <1>7 DEF WriteOcr0a, SetUp
    <2>2. [Here EXCEPT !.timer["ocra"] = v] \in Ticked /\ Kept([Here EXCEPT !.timer["ocra"] = v])
      BY <1>1, <1>2 DEF Ticked, Timer, Kept
    <2>3. setups' \in 0..MaxSetups
      BY <1>3, <1>7 DEF WriteOcr0a, SetUp
    <2> QED
      BY <2>1, <2>2, <2>3, InstructionKeeps
  <1>8. CASE WriteOcr0b
    <2>1. PICK v \in Counts : Elapse([Here EXCEPT !.timer["ocrb"] = v], 1)
      BY <1>8 DEF WriteOcr0b, SetUp
    <2>2. [Here EXCEPT !.timer["ocrb"] = v] \in Ticked /\ Kept([Here EXCEPT !.timer["ocrb"] = v])
      BY <1>1, <1>2 DEF Ticked, Timer, Kept
    <2>3. setups' \in 0..MaxSetups
      BY <1>3, <1>8 DEF WriteOcr0b, SetUp
    <2> QED
      BY <2>1, <2>2, <2>3, InstructionKeeps
  <1>9. CASE WriteTimsk
    <2>1. PICK enabled \in SUBSET Requests :
              Elapse([Here EXCEPT !.timer.timsk = enabled], 1)
      BY <1>9 DEF WriteTimsk
    <2> DEFINE s == [Here EXCEPT !.timer.timsk = enabled]
    <2>2. s \in Ticked /\ Kept(s)
      BY <1>1, <1>2 DEF Ticked, Timer, Kept
    <2>3. setups' \in 0..MaxSetups
      BY <1>1, <1>9 DEF WriteTimsk
    <2> HIDE DEF s
    <2> QED
      BY <2>1, <2>2, <2>3, InstructionKeeps DEF s
  <1>10. CASE WriteTifr
    <2>1. PICK ones \in SUBSET Flags :
              Elapse([Here EXCEPT !.timer.tifr = ClearedTifr(ones),
                                  !.due = @ \ (ones \ pending),
                                  !.wiped = Wiped(ones)], 1)
      BY <1>10 DEF WriteTifr
    <2> DEFINE s == [Here EXCEPT !.timer.tifr = ClearedTifr(ones),
                                 !.due = @ \ (ones \ pending),
                                 !.wiped = Wiped(ones)]
    <2>2. ClearedTifr(ones) = {} /\ Wiped(ones) = (wiped \cup timer.tifr) \ ones
      BY DEF ClearedTifr, Wiped
    <2>3. timer.tifr \subseteq Flags /\ Wiped(ones) \subseteq Flags
      BY <1>1, <2>2 DEF Timer
    <2>4. s \in Ticked
      BY <1>1, <1>2, <2>2, <2>3 DEF Ticked, Timer
    <2>5. Kept(s)
      <3>1. s.timer.tifr = {} /\ s.pending = pending
            /\ s.due = due \ (ones \ pending) /\ s.wiped = (wiped \cup timer.tifr) \ ones
        BY <1>1, <1>2, <2>2 DEF Timer
      <3> HIDE DEF s
      <3> QED
        BY <1>1, <3>1 DEF Kept
    <2> HIDE DEF s
    <2>6. setups' \in 0..MaxSetups
      BY <1>1, <1>10 DEF WriteTifr
    <2> QED
      BY <2>1, <2>4, <2>5, <2>6, InstructionKeeps DEF s
  <1>11. CASE Other
    <2>1. PICK c \in 1..MaxCycles : Elapse(Here, c) /\ UNCHANGED setups
      BY <1>11 DEF Other
    <2> QED
      BY <1>1, <2>1, InstructionKeeps
  <1>12. CASE Asleep
    <2>1. Tick(Here, 1) \in Ticked /\ Kept(Tick(Here, 1))
      BY TickKeeps
    <2> QED
      BY <1>1, <1>12, <2>1 DEF Asleep, Ticked, Kept, IInv, TypeOK, EventsKept
  <1>13. CASE Reset
    <2>1. 0 \in Counts /\ 0 \in Clocks /\ 0 \in Modes /\ 0 \in 0..Interval - 1
      BY TimerAssumption DEF Counts, Clocks
    <2>2. timer' \in Timer /\ timer'.tifr = {}
      BY <1>1, <1>13, <2>1 DEF Reset, Timer
    <2> QED
      BY <1>1, <1>13, <2>1, <2>2 DEF Reset, IInv, TypeOK, EventsKept
  <1>14. ASSUME NEW r \in Requests, Take(r)
         PROVE  IInv'
    <2>1. due' \subseteq Flags /\ due' = timer.tifr \cup (pending \ {r}) \cup wiped
      BY <1>1, <1>14 DEF Take
    <2> QED
      BY <1>1, <1>14, <2>1 DEF Take, IInv, TypeOK, EventsKept
  <1>15. CASE UNCHANGED vars
    BY <1>15 DEF vars, IInv, TypeOK, EventsKept
  <1> QED
    BY <1>4, <1>5, <1>6, <1>7, <1>8, <1>9, <1>10, <1>11, <1>12, <1>13, <1>14, <1>15 DEF Next

LEMMA InitIInv == Init => IInv
  <1>1. 0 \in Counts /\ 0 \in Clocks /\ 0 \in Modes /\ 0 \in 0..Interval - 1 /\ 0 \in 0..MaxSetups
    BY TimerAssumption DEF Counts, Clocks
  <1> QED
    BY <1>1 DEF Init, IInv, TypeOK, EventsKept, Timer

LEMMA Invariant == Spec => []IInv
  BY InitIInv, StepKeepsIInv, PTL DEF Spec

\* The registers, the requests and the accumulated cycles keep their types: TCNT0
\* stays in its byte in every mode and from every value written to it.
THEOREM TypeCorrect == Spec => []TypeOK
  <1>1. IInv => TypeOK
    BY DEF IInv
  <1> QED
    BY <1>1, Invariant, PTL

\* No overflow and no match is made up, however many counts one tick brings and
\* whatever firmware writes in between, and one that is neither taken nor cleared
\* by a one in TIFR is in TIFR or among the requests (avr_timer.c:155), unless a
\* write of zero to its bit of TIFR has wiped it.
THEOREM EventsAreKept == Spec => []EventsKept
  <1>1. IInv => EventsKept
    BY DEF IInv
  <1> QED
    BY <1>1, Invariant, PTL
-----------------------------------------------------------------------------
(***************************************************************************)
(* A batch of cycles.                                                      *)
(***************************************************************************)
\* Quotient and remainder are the only ones.
LEMMA Quotient ==
    ASSUME NEW a \in Nat, NEW d \in Nat \ {0}, NEW q \in Nat, NEW r \in 0..d - 1, a = d * q + r
    PROVE  a \div d = q /\ a % d = r
  OBVIOUS

\* One cycle more is a count more just when the remainder is full.
LEMMA NextQuotient ==
    ASSUME NEW a \in Nat, NEW d \in Nat \ {0}
    PROVE  /\ (a \div d) + (((a % d) + 1) \div d) = (a + 1) \div d
           /\ ((a % d) + 1) % d = (a + 1) % d
  <1> DEFINE q == a \div d
             r == a % d
  <1>1. q \in Nat /\ r \in 0..d - 1 /\ a = d * q + r
    OBVIOUS
  <1> HIDE DEF q, r
  <1>2. CASE r + 1 # d
    <2>1. r + 1 \in 0..d - 1 /\ r + 1 = d * 0 + (r + 1) /\ a + 1 = d * q + (r + 1)
      BY <1>1, <1>2
    <2>2. (r + 1) \div d = 0 /\ (r + 1) % d = r + 1
      BY <1>1, <2>1, Quotient
    <2>3. (a + 1) \div d = q /\ (a + 1) % d = r + 1
      BY <1>1, <2>1, Quotient
    <2> QED
      BY <1>1, <2>2, <2>3 DEF q, r
  <1>3. CASE r + 1 = d
    <2>1. 0 \in 0..d - 1 /\ r + 1 = d * 1 + 0
      BY <1>1, <1>3
    <2>2. a + 1 = d * (q + 1) + 0
      BY <1>1, <1>3
    <2>3. (r + 1) \div d = 1 /\ (r + 1) % d = 0
      BY <1>1, <2>1, Quotient
    <2>4. (a + 1) \div d = q + 1 /\ (a + 1) % d = 0
      BY <1>1, <2>1, <2>2, Quotient
    <2> QED
      BY <1>1, <2>3, <2>4 DEF q, r
  <1> QED
    BY <1>2, <1>3

\* Counts add up.
LEMMA CountedAdds ==
    ASSUME NEW s, NEW m \in Nat
    PROVE  \A n \in Nat : Counted(Counted(s, m), n) = Counted(s, m + n)
  <1> DEFINE S == {n \in Nat : Counted(Counted(s, m), n) = Counted(s, m + n)}
  <1>1. 0 \in S
    <2>1. m + 0 = m
      OBVIOUS
    <2> QED
      BY <2>1, CountedStep
  <1>2. ASSUME NEW n \in Nat, n \in S
        PROVE  n + 1 \in S
    <2>1. m + n \in Nat /\ m + (n + 1) = (m + n) + 1
      OBVIOUS
    <2>2. Counted(Counted(s, m), n + 1) = OneCount(Counted(Counted(s, m), n))
      BY CountedStep
    <2>3. Counted(s, (m + n) + 1) = OneCount(Counted(s, m + n))
      BY <2>1, CountedStep
    <2> QED
      BY <1>2, <2>1, <2>2, <2>3
  <1> HIDE DEF S
  <1>3. Nat \subseteq S
    BY <1>1, <1>2, SetInduction, Zenon
  <1> QED
    BY <1>3 DEF S

\* s with another remainder in the prescaler.
With(s, q) == [s EXCEPT !.timer.prescaler = q]

\* The remainder has no part in a count.
LEMMA CountIgnoresRemainder ==
    ASSUME NEW s \in Ticked, NEW q \in Nat
    PROVE  /\ With(s, q) \in Ticked
           /\ OneCount(With(s, q)) = With(OneCount(s), q)
  <1> DEFINE t == s.timer
             u == [t EXCEPT !.prescaler = q]
  <1>1. t \in Timer /\ s = [timer |-> t, pending |-> s.pending, due |-> s.due,
             wiped |-> s.wiped]
    BY DEF Ticked
  <1>2. With(s, q) = [timer |-> u, pending |-> s.pending, due |-> s.due,
             wiped |-> s.wiped]
    BY <1>1 DEF With
  <1>3. /\ u \in Timer
        /\ u.tcnt = t.tcnt /\ u.ocra = t.ocra /\ u.ocrb = t.ocrb /\ u.wgm = t.wgm
        /\ u.up = t.up /\ u.tifr = t.tifr /\ u.timsk = t.timsk
    <2> HIDE DEF t
    <2> QED
      BY <1>1 DEF Timer
  <1>4. With(s, q) \in Ticked
    <2>1. With(s, q).timer = u
      BY <1>2
    <2> HIDE DEF t, u
    <2> QED
      BY <1>2, <1>3 DEF Ticked
  <1>5. Moved(u) = Moved(t)
    <2> HIDE DEF t, u
    <2> QED
      BY <1>3 DEF Moved, CountUp, CountUpDown, PhaseCorrect, Top
  <1>6. Raised(u) = Raised(t)
    <2> HIDE DEF t, u
    <2> QED
      BY <1>3, <1>5 DEF Raised
  <1>7. Count(u) = [Count(t) EXCEPT !.prescaler = q]
    <2>1. Count(u) = [u EXCEPT !.tcnt = Moved(t).tcnt, !.up = Moved(t).up,
                               !.tifr = (t.tifr \cup Raised(t)) \ t.timsk]
      BY <1>3, <1>5, <1>6 DEF Count
    <2> DEFINE tcnt == Moved(t).tcnt
               up == Moved(t).up
               tifr == (t.tifr \cup Raised(t)) \ t.timsk
    <2>2. Count(t) = [t EXCEPT !.tcnt = tcnt, !.up = up, !.tifr = tifr]
      BY DEF Count
    <2> HIDE DEF tcnt, up, tifr, t
    <2> QED
      BY <1>1, <2>1, <2>2 DEF tcnt, up, tifr, Timer
  <1>8. Queued(u) = Queued(t)
    BY <1>3, <1>6 DEF Queued
  <1>9. OneCount(With(s, q)) =
            [timer |-> Count(u), pending |-> s.pending \cup Queued(t), due |-> s.due \cup Raised(t),
             wiped |-> s.wiped \ Raised(t)]
    <2> HIDE DEF u
    <2> QED
      BY <1>2, <1>6, <1>8 DEF OneCount
  <1>10. OneCount(s) =
            [timer |-> Count(t), pending |-> s.pending \cup Queued(t), due |-> s.due \cup Raised(t),
             wiped |-> s.wiped \ Raised(t)]
    BY DEF OneCount
  <1>11. With(OneCount(s), q) =
            [timer |-> [Count(t) EXCEPT !.prescaler = q], pending |-> s.pending \cup Queued(t),
             due |-> s.due \cup Raised(t),
             wiped |-> s.wiped \ Raised(t)]
    <2> HIDE DEF t
    <2> QED
      BY SMTT(30), <1>10 DEF With
  <1> QED
    BY <1>4, <1>7, <1>9, <1>11

LEMMA CountedIgnoresRemainder ==
    ASSUME NEW s \in Ticked, NEW q \in Nat, NEW n \in Nat
    PROVE  Counted(With(s, q), n) = With(Counted(s, n), q)
  <1> DEFINE S == {k \in Nat : Counted(With(s, q), k) = With(Counted(s, k), q)}
  <1>1. 0 \in S
    BY CountedStep
  <1>2. ASSUME NEW k \in Nat, k \in S
        PROVE  k + 1 \in S
    <2>1. Counted(s, k) \in Ticked
      BY CountedKeeps
    <2>2. Counted(With(s, q), k + 1) = OneCount(With(Counted(s, k), q))
      <3>1. Counted(With(s, q), k) = With(Counted(s, k), q)
        BY <1>2
      <3>2. Counted(With(s, q), k + 1) = OneCount(Counted(With(s, q), k))
        BY CountedStep
      <3> QED
        BY <3>1, <3>2
    <2>3. OneCount(With(Counted(s, k), q)) = With(OneCount(Counted(s, k)), q)
      BY <2>1, CountIgnoresRemainder
    <2>4. OneCount(Counted(s, k)) = Counted(s, k + 1)
      BY CountedStep
    <2> QED
      BY <2>2, <2>3, <2>4
  <1> HIDE DEF S
  <1>3. Nat \subseteq S
    BY <1>1, <1>2, SetInduction, Zenon
  <1> QED
    BY <1>3 DEF S

\* The last cycle of a batch can be a tick of its own.
LEMMA LastCycle ==
    ASSUME NEW s \in Ticked, NEW n \in Nat \ {0}
    PROVE  Tick(s, n) = Tick(Tick(s, n - 1), 1)
  <1>1. CASE s.timer.cs \notin DOMAIN Divisor
    BY <1>1 DEF Tick
  <1>2. CASE s.timer.cs \in DOMAIN Divisor
    <2> DEFINE d == Divisor[s.timer.cs]
               a == s.timer.prescaler + (n - 1)
               x == Counted(With(s, a % d), a \div d)
    <2>1. d \in Nat \ {0}
      BY <1>2, TimerAssumption
    <2>2. a \in Nat /\ s.timer.prescaler + n = a + 1
      BY DEF Ticked, Timer
    <2>3. Tick(s, n - 1) = x
      BY <1>2 DEF Tick, With
    <2>4. Tick(s, n) = Counted(With(s, (a + 1) % d), (a + 1) \div d)
      BY <1>2, <2>2 DEF Tick, With
    <2> HIDE DEF d, a
    <2>5. /\ a % d \in Nat /\ a \div d \in Nat /\ (a % d) + 1 \in Nat
          /\ ((a % d) + 1) % d \in Nat /\ ((a % d) + 1) \div d \in Nat
      BY <2>1, <2>2
    <2>6. With(s, a % d) \in Ticked /\ With(s, a % d).timer.cs = s.timer.cs
          /\ With(s, a % d).timer.prescaler = a % d
      BY <2>5, CountIgnoresRemainder DEF With, Ticked, Timer
    <2>7. x \in Ticked /\ x.timer.cs = s.timer.cs /\ x.timer.prescaler = a % d
      BY <2>5, <2>6, CountedKeeps
    <2> HIDE DEF x
    <2>8. Tick(x, 1) = Counted(With(x, ((a % d) + 1) % d), ((a % d) + 1) \div d)
      BY <1>2, <2>7 DEF Tick, With, d
    <2>9. With(x, ((a % d) + 1) % d) = Counted(With(s, ((a % d) + 1) % d), a \div d)
      <3>1. x = With(Counted(s, a \div d), a % d)
        BY <2>5, CountedIgnoresRemainder DEF x
      <3>2. Counted(With(s, ((a % d) + 1) % d), a \div d)
              = With(Counted(s, a \div d), ((a % d) + 1) % d)
        BY <2>5, CountedIgnoresRemainder
      <3>3. Counted(s, a \div d) \in Ticked
        BY <2>5, CountedKeeps
      <3>4. ASSUME NEW y \in Ticked, NEW p \in Nat, NEW q \in Nat
            PROVE  With(With(y, p), q) = With(y, q)
        BY DEF With, Ticked, Timer
      <3> QED
        BY <2>5, <3>1, <3>2, <3>3, <3>4
    <2>10. Tick(x, 1) = Counted(With(s, ((a % d) + 1) % d), (a \div d) + (((a % d) + 1) \div d))
      BY <2>5, <2>8, <2>9, CountedAdds
    <2> QED
      BY <2>1, <2>2, <2>3, <2>4, <2>10, NextQuotient
  <1> QED
    BY <1>1, <1>2

\* However the run loop batches the cycles, the timer ends up where one tick per
\* cycle would have left it, for every table of divisors and every interval
\* between the ticks (avr_timer.c:75).
THEOREM BatchesAreCycles == Spec => []BatchIsCycles
  <1>1. IInv => BatchIsCycles
    <2> SUFFICES ASSUME IInv, NEW n \in 1..Interval - 1 + MaxCycles
                 PROVE  Tick(Here, n) = Tick(Tick(Here, n - 1), 1)
      BY DEF BatchIsCycles
    <2>1. n \in Nat \ {0}
      BY TimerAssumption
    <2> QED
      BY <2>1, HereType, LastCycle
  <1> QED
    BY <1>1, Invariant, PTL
-----------------------------------------------------------------------------
(***************************************************************************)
(* A period of the counter.                                                *)
(***************************************************************************)
\* Where k counts from BOTTOM take the counter, and its direction.
Path(t, k) == IF k <= Top(t) THEN k ELSE IF PhaseCorrect(t) THEN 2 * Top(t) - k ELSE 0
Upward(t, k) == PhaseCorrect(t) => k < Top(t) \/ k = Period(t)

\* The registers that say how the counter runs.
SameShape(t, u) == u.ocra = t.ocra /\ u.wgm = t.wgm

LEMMA ShapeKept ==
    ASSUME NEW t, NEW u, SameShape(t, u)
    PROVE  Top(u) = Top(t) /\ (PhaseCorrect(u) <=> PhaseCorrect(t)) /\ Period(u) = Period(t)
  BY DEF SameShape, Top, PhaseCorrect, Period

\* One count along the path: the value after it, and whether it overflows.
LEMMA OneStep ==
    ASSUME NEW t \in Timer, NEW u \in Timer, SameShape(t, u), Top(t) > 0,
           NEW k \in 0..Period(t) - 1,
           u.tcnt = Path(t, k), u.up <=> Upward(t, k)
    PROVE  /\ Moved(u).tcnt = Path(t, k + 1)
           /\ Moved(u).up <=> Upward(t, k + 1)
           /\ Moved(u).tov <=> k + 1 = Period(t) /\ Overflows(t)
  <1> DEFINE n == Top(t)
  <1>1. MaxCount \in Nat \ {0} /\ n \in 1..MaxCount /\ k \in Nat
    BY TimerAssumption DEF Timer, Top, Counts, Period
  <1>2. Top(u) = n /\ (PhaseCorrect(u) <=> PhaseCorrect(t)) /\ u.wgm = t.wgm
    BY ShapeKept DEF SameShape
  <1>3. \A i \in 0..MaxCount : i % (MaxCount + 1) = i
    BY <1>1
  <1>4. CASE ~ PhaseCorrect(t)
    <2>1. Period(t) = n + 1
      BY <1>4 DEF Period
    <2>2. k \in 0..n /\ u.tcnt = k
      BY <1>1, <2>1 DEF Path
    <2>10. u.up
      BY <1>4 DEF Upward
    <2>3. Moved(u) = CountUp(u)
      BY <1>2, <1>4 DEF Moved
    <2>4. k + 1 > n <=> k + 1 = n + 1
      BY <1>1, <2>2
    <2>5. /\ Moved(u).tcnt = IF k + 1 > n THEN 0 ELSE k + 1
          /\ Moved(u).up = u.up
          /\ Moved(u).tov = (k + 1 > n /\ (t.wgm \in {0, 3, 7} \/ (t.wgm = 2 /\ k = MaxCount)))
      BY <1>2, <2>2, <2>3 DEF CountUp
    <2>6. Moved(u).tcnt = Path(t, k + 1)
      BY <1>1, <1>4, <2>2, <2>5 DEF Path
    <2>7. Upward(t, k + 1)
      BY <1>4 DEF Upward
    <2>8. t.wgm \notin {1, 5}
      BY <1>4 DEF PhaseCorrect
    <2>9. k + 1 = n + 1 =>
            ((t.wgm \in {0, 3, 7} \/ (t.wgm = 2 /\ k = MaxCount)) <=> Overflows(t))
      BY <1>1, <2>2, <2>8 DEF Overflows
    <2> HIDE DEF n
    <2> QED
      BY <2>1, <2>4, <2>5, <2>6, <2>7, <2>9, <2>10
  <1>5. CASE PhaseCorrect(t)
    <2>1. Period(t) = 2 * n /\ Overflows(t)
      BY <1>5 DEF Period, PhaseCorrect, Overflows
    <2>2. Moved(u) = CountUpDown(u)
      BY <1>2, <1>5 DEF Moved
    <2>3. CASE k < n
      <3>1. u.tcnt = k
        BY <1>1, <2>3 DEF Path
      <3>2. u.up
        BY <2>3 DEF Upward
      <3>3. (u.tcnt + 1) % (MaxCount + 1) = k + 1
        BY <1>1, <1>3, <2>3, <3>1
      <3>4. /\ Moved(u).tcnt = IF k + 1 >= n THEN n ELSE k + 1
            /\ Moved(u).up = (k + 1 < n)
            /\ Moved(u).tov = FALSE
        BY <1>2, <2>2, <3>2, <3>3 DEF CountUpDown
      <3>5. Path(t, k + 1) = k + 1 /\ k + 1 <= n /\ k + 1 # 2 * n
        BY <1>1, <2>3 DEF Path
      <3>6. Upward(t, k + 1) <=> k + 1 < n
        BY <1>1, <1>5, <2>1, <3>5 DEF Upward
      <3> HIDE DEF n
      <3>7. (IF k + 1 >= n THEN n ELSE k + 1) = k + 1
        BY <1>1, <3>5
      <3>8. Moved(u).tcnt = Path(t, k + 1)
        BY <3>4, <3>5, <3>7
      <3>9. k + 1 # Period(t) /\ ~ Moved(u).tov
        BY <2>1, <3>4, <3>5
      <3> QED
        BY <3>4, <3>6, <3>8, <3>9
    <2>4. CASE ~ (k < n)
      <3>1. u.tcnt = 2 * n - k
        BY <1>1, <1>5, <2>1, <2>4 DEF Path
      <3>7. ~ u.up
        BY <1>1, <1>5, <2>1, <2>4 DEF Upward
      <3>2. (u.tcnt - 1) % (MaxCount + 1) = 2 * n - (k + 1)
        BY <1>1, <1>3, <2>1, <2>4, <3>1
      <3>3. /\ Moved(u).tcnt = 2 * n - (k + 1)
            /\ Moved(u).up = (2 * n - (k + 1) = 0)
            /\ Moved(u).tov = (2 * n - (k + 1) = 0)
        BY <1>2, <2>2, <3>2, <3>7 DEF CountUpDown
      <3>4. Path(t, k + 1) = 2 * n - (k + 1)
        BY <1>1, <1>5, <2>1, <2>4 DEF Path
      <3>5. Upward(t, k + 1) <=> 2 * n - (k + 1) = 0
        BY <1>1, <1>5, <2>1, <2>4 DEF Upward
      <3>6. 2 * n - (k + 1) = 0 <=> k + 1 = 2 * n
        BY <1>1
      <3> HIDE DEF n
      <3> QED
        BY <2>1, <3>3, <3>4, <3>5, <3>6
    <2> QED
      BY <2>3, <2>4
  <1> QED
    BY <1>4, <1>5

\* From BOTTOM the counter follows the path for a whole period.
LEMMA FollowsPath ==
    ASSUME NEW s \in Ticked, s.timer.tcnt = 0, s.timer.up, Top(s.timer) > 0
    PROVE  \A k \in 0..Period(s.timer) :
              /\ Counted(s, k).timer \in Timer
              /\ SameShape(s.timer, Counted(s, k).timer)
              /\ Counted(s, k).timer.tcnt = Path(s.timer, k)
              /\ Counted(s, k).timer.up <=> Upward(s.timer, k)
  <1> DEFINE t == s.timer
             after(k) == Counted(s, k).timer
             Holds(k) == /\ SameShape(t, after(k))
                         /\ after(k).tcnt = Path(t, k)
                         /\ after(k).up <=> Upward(t, k)
             S == {k \in Nat : k <= Period(t) => Holds(k)}
  <1>1. t \in Timer /\ Top(t) \in Nat /\ Period(t) \in Nat /\ t.up
    BY TimerAssumption DEF Ticked, Timer, Top, Counts, Period
  <1>2. ASSUME NEW k \in Nat PROVE after(k) \in Timer /\ Counted(s, k) \in Ticked
    BY CountedKeeps DEF Ticked
  <1>3. 0 \in S
    <2>1. after(0) = t
      BY CountedStep
    <2>2. Path(t, 0) = 0 /\ Upward(t, 0)
      BY <1>1 DEF Path, Upward
    <2> HIDE DEF t, after
    <2>3. Holds(0)
      BY <1>1, <2>1, <2>2 DEF SameShape, t
    <2> QED
      BY <2>3
  <1>4. ASSUME NEW k \in Nat, k \in S
        PROVE  k + 1 \in S
    <2> SUFFICES ASSUME k + 1 <= Period(t) PROVE Holds(k + 1)
      OBVIOUS
    <2>1. k \in 0..Period(t) - 1 /\ Holds(k)
      BY <1>1, <1>4
    <2>2. after(k + 1) = Count(after(k))
      <3>1. Counted(s, k + 1) = OneCount(Counted(s, k))
        BY CountedStep
      <3> QED
        BY <3>1 DEF OneCount
    <2>3. after(k) \in Timer
      BY <1>2
    <2> HIDE DEF t, after
    <2>4. /\ Moved(after(k)).tcnt = Path(t, k + 1)
          /\ Moved(after(k)).up <=> Upward(t, k + 1)
      BY <1>1, <2>1, <2>3, OneStep DEF t
    <2>5. /\ Count(after(k)).tcnt = Moved(after(k)).tcnt
          /\ Count(after(k)).up = Moved(after(k)).up
          /\ Count(after(k)).ocra = after(k).ocra /\ Count(after(k)).wgm = after(k).wgm
      BY <2>3 DEF Count, Timer
    <2> QED
      BY <2>1, <2>2, <2>4, <2>5 DEF SameShape
  <1> HIDE DEF S
  <1>5. Nat \subseteq S
    BY <1>3, <1>4, SetInduction, Zenon
  <1> QED
    BY <1>1, <1>2, <1>5 DEF S

\* The flags that the k-th count raises.
LEMMA RaisedOnPath ==
    ASSUME NEW s \in Ticked, s.timer.tcnt = 0, s.timer.up, Top(s.timer) > 0,
           NEW k \in 1..Period(s.timer)
    PROVE  LET t == s.timer
               r == Raised(Counted(s, k - 1).timer)
           IN  /\ "TOV0" \in r <=> k = Period(t) /\ Overflows(t)
               /\ "OCF0A" \in r <=> Path(t, k) = t.ocra /\ Path(t, k - 1) # t.ocra
  <1> DEFINE t == s.timer
             u == Counted(s, k - 1).timer
  <1>1. t \in Timer /\ Period(t) \in Nat
    BY TimerAssumption DEF Ticked, Timer, Top, Counts, Period
  <1>2. k - 1 \in 0..Period(t) - 1 /\ k - 1 \in 0..Period(t) /\ (k - 1) + 1 = k
    BY <1>1
  <1>3. /\ u \in Timer /\ SameShape(t, u)
        /\ u.tcnt = Path(t, k - 1) /\ (u.up <=> Upward(t, k - 1))
    BY <1>2, FollowsPath
  <1> HIDE DEF t, u
  <1>4. Moved(u).tcnt = Path(t, k) /\ (Moved(u).tov <=> k = Period(t) /\ Overflows(t))
    <2>1. Top(t) > 0
      BY DEF t
    <2>2. /\ Moved(u).tcnt = Path(t, (k - 1) + 1)
          /\ Moved(u).tov <=> (k - 1) + 1 = Period(t) /\ Overflows(t)
      BY <1>1, <1>2, <1>3, <2>1, OneStep
    <2> QED
      BY <1>2, <2>2
  <1>5. "TOV0" \in Raised(u) <=> Moved(u).tov
    BY DEF Raised, Flags
  <1>6. "OCF0A" \in Raised(u) <=> Moved(u).tcnt = u.ocra /\ u.tcnt # u.ocra
    BY DEF Raised, Flags
  <1>7. /\ "TOV0" \in Raised(u) <=> k = Period(t) /\ Overflows(t)
        /\ "OCF0A" \in Raised(u) <=> Path(t, k) = t.ocra /\ Path(t, k - 1) # t.ocra
    BY <1>3, <1>4, <1>5, <1>6 DEF SameShape
  <1> QED
    BY <1>7 DEF t, u

\* The counts of a period at which the path meets OCR0A.
Meets(t) == {k \in 1..Period(t) : Path(t, k) = t.ocra /\ Path(t, k - 1) # t.ocra}

LEMMA MeetsOften ==
    ASSUME NEW t \in Timer, Top(t) > 0
    PROVE  Cardinality(Meets(t)) =
               CASE t.ocra > Top(t) -> 0
                 [] PhaseCorrect(t) /\ t.ocra \in 1..Top(t) - 1 -> 2
                 [] OTHER -> 1
  <1> DEFINE n == Top(t)
             a == t.ocra
  <1>1. n \in Nat \ {0} /\ a \in Nat
    BY TimerAssumption DEF Timer, Top, Counts
  <1>2. Period(t) = IF PhaseCorrect(t) THEN 2 * n ELSE n + 1
    BY DEF Period
  <1>3. \A k \in Nat : Path(t, k) = IF k <= n THEN k ELSE IF PhaseCorrect(t) THEN 2 * n - k ELSE 0
    BY DEF Path
  <1>4. Meets(t) = {k \in 1..Period(t) : Path(t, k) = a /\ Path(t, k - 1) # a}
    BY DEF Meets
  <1> HIDE DEF n, a
  <1>5. CASE a > n
    <2>1. \A k \in 1..Period(t) : Path(t, k) # a
      BY <1>1, <1>2, <1>3, <1>5
    <2>2. Meets(t) = {}
      BY <1>4, <2>1
    <2>3. Cardinality(Meets(t)) = 0
      BY <2>2, FS_EmptySet
    <2>4. ~ (a \in 1..n - 1)
      BY <1>1, <1>5
    <2> QED
      BY <1>5, <2>3, <2>4 DEF a, n
  <1>6. CASE PhaseCorrect(t) /\ a \in 1..n - 1
    <2>1. Meets(t) = {a, 2 * n - a}
      <3>1. ASSUME NEW k \in 1..2 * n
            PROVE  (Path(t, k) = a /\ Path(t, k - 1) # a) <=> (k = a \/ k = 2 * n - a)
        <4>1. k \in Nat /\ k - 1 \in Nat
          BY <1>1
        <4>2. Path(t, k) = (IF k <= n THEN k ELSE 2 * n - k)
              /\ Path(t, k - 1) = (IF k - 1 <= n THEN k - 1 ELSE 2 * n - (k - 1))
          BY <1>3, <1>6, <4>1
        <4> QED
          BY <1>1, <1>6, <4>2
      <3>2. a \in 1..2 * n /\ 2 * n - a \in 1..2 * n
        BY <1>1, <1>6
      <3> QED
        BY <1>2, <1>4, <1>6, <3>1, <3>2
    <2>2. 2 * n - a # a
      BY <1>1, <1>6
    <2>3. IsFiniteSet({a}) /\ Cardinality({a}) = 1
      BY FS_Singleton
    <2>4. Cardinality({a} \cup {2 * n - a}) = Cardinality({a}) + 1
      BY <2>2, <2>3, FS_AddElement
    <2>5. {a} \cup {2 * n - a} = {a, 2 * n - a}
      OBVIOUS
    <2>6. Cardinality(Meets(t)) = 2
      BY <2>1, <2>3, <2>4, <2>5
    <2>7. ~ (a > n)
      BY <1>1, <1>6
    <2> QED
      BY <1>6, <2>6, <2>7 DEF a, n
  <1>7. CASE a <= n /\ ~ (PhaseCorrect(t) /\ a \in 1..n - 1)
    <2> DEFINE at == IF a = 0 THEN Period(t) ELSE a
    <2>1. Meets(t) = {at}
      <3>1. ASSUME NEW k \in 1..Period(t)
            PROVE  (Path(t, k) = a /\ Path(t, k - 1) # a) <=> k = at
        <4>1. k \in Nat /\ k - 1 \in Nat
          BY <1>1, <1>2
        <4>2. CASE PhaseCorrect(t)
          <5>1. a = 0 \/ a = n
            BY <1>1, <1>7, <4>2
          <5>2. k \in 1..2 * n /\ at = IF a = 0 THEN 2 * n ELSE a
            BY <1>2, <4>2
          <5>3. Path(t, k) = (IF k <= n THEN k ELSE 2 * n - k)
                /\ Path(t, k - 1) = (IF k - 1 <= n THEN k - 1 ELSE 2 * n - (k - 1))
            BY <1>3, <4>1, <4>2
          <5> HIDE DEF at
          <5> QED
            BY <1>1, <5>1, <5>2, <5>3
        <4>3. CASE ~ PhaseCorrect(t)
          <5>1. k \in 1..n + 1 /\ at = IF a = 0 THEN n + 1 ELSE a
            BY <1>2, <4>3
          <5>2. Path(t, k) = (IF k <= n THEN k ELSE 0)
                /\ Path(t, k - 1) = (IF k - 1 <= n THEN k - 1 ELSE 0)
            BY <1>3, <4>1, <4>3
          <5> HIDE DEF at
          <5> QED
            BY <1>1, <1>7, <5>1, <5>2
        <4> QED
          BY <4>2, <4>3
      <3>2. at \in 1..Period(t)
        BY <1>1, <1>2, <1>7
      <3> HIDE DEF at
      <3> QED
        BY <1>4, <3>1, <3>2
    <2>2. Cardinality(Meets(t)) = 1
      BY <2>1, FS_Singleton
    <2>3. ~ (a > n)
      BY <1>1, <1>7
    <2> QED
      BY <1>7, <2>2, <2>3 DEF a, n
  <1> QED
    BY <1>1, <1>5, <1>6, <1>7

\* From BOTTOM the counter is back after its period and not before, overflows
\* once in that time where the mode does, and matches OCR0A as often as the path
\* meets it: for every width of the counter, every mode and every OCR0A, the TOP
\* of zero excepted (avr_timer0_tick, avr_timer.c:102).
THEOREM PeriodIsRight == Spec => []PeriodRight
  <1>1. IInv => PeriodRight
    <2> SUFFICES ASSUME IInv, timer.tcnt = 0, timer.up, Top(timer) > 0
                 PROVE  LET after(k) == Counted(Here, k).timer
                            n == Period(timer)
                            raises(f) == {k \in 1..n : f \in Raised(after(k - 1))}
                        IN  /\ \A k \in 1..n : after(k).tcnt = 0 <=> k = n
                            /\ after(n).up
                            /\ raises("TOV0") = IF Overflows(timer) THEN {n} ELSE {}
                            /\ Cardinality(raises("OCF0A")) =
                                   CASE timer.ocra > Top(timer) -> 0
                                     [] PhaseCorrect(timer) /\ timer.ocra \in 1..Top(timer) - 1 -> 2
                                     [] OTHER -> 1
      BY Zenon DEF PeriodRight
    <2> DEFINE after(k) == Counted(Here, k).timer
               n == Period(timer)
               raises(f) == {k \in 1..n : f \in Raised(after(k - 1))}
    <2>1. Here \in Ticked /\ Here.timer = timer /\ timer \in Timer
      BY HereType DEF Here, IInv, TypeOK
    <2>2. n \in Nat \ {0} /\ Top(timer) \in Nat \ {0}
          /\ n = IF PhaseCorrect(timer) THEN 2 * Top(timer) ELSE Top(timer) + 1
      BY <2>1, TimerAssumption DEF Timer, Top, Counts, Period
    <2>3. \A k \in 0..n : /\ after(k).tcnt = Path(timer, k)
                          /\ after(k).up <=> Upward(timer, k)
      BY <2>1, FollowsPath
    <2>4. \A k \in 1..n :
              /\ "TOV0" \in Raised(after(k - 1)) <=> k = n /\ Overflows(timer)
              /\ "OCF0A" \in Raised(after(k - 1)) <=>
                     Path(timer, k) = timer.ocra /\ Path(timer, k - 1) # timer.ocra
      BY <2>1, RaisedOnPath
    <2> HIDE DEF after
    <2>5. \A k \in 1..n : after(k).tcnt = 0 <=> k = n
      <3>1. \A k \in 1..n : Path(timer, k) = 0 <=> k = n
        <4> HIDE DEF n
        <4> QED
          BY <2>2 DEF Path
      <3> HIDE DEF n
      <3> QED
        BY <2>2, <2>3, <3>1
    <2>6. after(n).up
      <3>1. Upward(timer, n)
        BY DEF Upward
      <3>2. n \in 0..n
        BY <2>2
      <3> QED
        BY <2>3, <3>1, <3>2
    <2>7. raises("TOV0") = IF Overflows(timer) THEN {n} ELSE {}
      <3> HIDE DEF n
      <3> QED
        BY <2>2, <2>4
    <2>8. raises("OCF0A") = Meets(timer)
      BY <2>4 DEF Meets
    <2>9. Cardinality(raises("OCF0A")) =
              CASE timer.ocra > Top(timer) -> 0
                [] PhaseCorrect(timer) /\ timer.ocra \in 1..Top(timer) - 1 -> 2
                [] OTHER -> 1
      <3> HIDE DEF raises
      <3> QED
        BY <2>1, <2>8, MeetsOften
    <2> HIDE DEF n, raises
    <2>10. /\ \A k \in 1..n : after(k).tcnt = 0 <=> k = n
           /\ after(n).up
           /\ raises("TOV0") = IF Overflows(timer) THEN {n} ELSE {}
           /\ Cardinality(raises("OCF0A")) =
                  CASE timer.ocra > Top(timer) -> 0
                    [] PhaseCorrect(timer) /\ timer.ocra \in 1..Top(timer) - 1 -> 2
                    [] OTHER -> 1
      BY <2>5, <2>6, <2>7, <2>9, Zenon
    <2> QED
      BY <2>10, Zenon DEF after, n, raises
  <1> QED
    BY <1>1, Invariant, PTL
=============================================================================
