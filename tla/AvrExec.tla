------------------------------ MODULE AvrExec ------------------------------
(***************************************************************************)
(* The instructions of the AVR core: the handlers of avr_cpu_run, one per  *)
(* predecoded operation, with the memories, the stack and the registers    *)
(* SREG and SP seen through the I/O space.  Interrupts and the ticks of    *)
(* the peripherals are module AvrCore.                                     *)
(*                                                                         *)
(* The core runs the fused cache.  Plain is the same core on the cache     *)
(* before fusion, the instructions one at a time.                          *)
(***************************************************************************)
EXTENDS AvrDecode

CONSTANTS DataSize,     \* variant->data_size
          SramStart,    \* variant->sram_start
          Programs      \* [flash, has, want, cost]: words by address, the features of
                        \* the variant, expected bytes of data and expected cycles

MaxByte == 255
MaxWord == 65535
Byte == 0..MaxByte
Word == 0..MaxWord
DataAddr == 0..DataSize - 1

ASSUME AvrMemoryAssumption == /\ SramStart \in Nat /\ 96 <= SramStart /\ SramStart <= 256
                              /\ DataSize \in Nat /\ SramStart <= DataSize /\ DataSize <= MaxWord
ASSUME AvrProgramsAssumption ==
    \A p \in Programs : /\ \E last \in Word : DOMAIN p.flash = 0..last
                        /\ \A a \in DOMAIN p.flash : p.flash[a] \in Word

\* Bits of SREG.
C == 0
Z == 1
N == 2
V == 3
S == 4
H == 5
T == 6
I == 7
\* Data addresses of SREG and the stack pointer.
SREG == \h5F
SPL  == \h5D
SPH  == \h5E

VARIABLES cpu,       \* [pc, sreg, sp, state, cycles, data]
          cache,     \* the decode cache
          prog       \* the program in flash
execVars == <<cpu, cache, prog>>

Cpu == [ pc : Word, sreg : Byte, sp : Word, state : {"RUNNING", "SLEEPING", "HALTED", "BREAK"},
         cycles : Nat, data : [DataAddr -> Byte] ]

\* avr_cpu_reset.
Reset == [ pc |-> 0, sreg |-> 0, sp |-> DataSize - 1, state |-> "RUNNING", cycles |-> 0,
           data |-> [a \in DataAddr |->
                       CASE a = SPL -> (DataSize - 1) % 256
                         [] a = SPH -> (DataSize - 1) \div 256
                         [] OTHER -> 0] ]
-----------------------------------------------------------------------------
(***************************************************************************)
(* Flags.  A flag is a bit of SREG; formulas over the operands x and y and *)
(* the result r are those of the flag helpers.                             *)
(***************************************************************************)
Truth(p) == IF p THEN 1 ELSE 0
Bit(v, k) == Bits(v, k, 1)
On(c, flag) == Bit(c.sreg, flag) = 1

\* The byte with the bits f, and the bitwise operations of the code.
ByteOf(f) == f[0] + 2 * f[1] + 4 * f[2] + 8 * f[3] + 16 * f[4] + 32 * f[5] + 64 * f[6] + 128 * f[7]
And(x, y) == ByteOf([k \in 0..7 |-> Bit(x, k) * Bit(y, k)])
Or(x, y) == ByteOf([k \in 0..7 |-> IF Bit(x, k) = 1 THEN 1 ELSE Bit(y, k)])
Xor(x, y) == ByteOf([k \in 0..7 |-> (Bit(x, k) + Bit(y, k)) % 2])

\* SREG with some of its flags replaced by those of a row, that starts at C.
PutFlags(c, flags, row) ==
    [c EXCEPT !.sreg = ByteOf([k \in 0..7 |-> IF k \in flags THEN row[k + 1] ELSE Bit(c.sreg, k)])]
PutFlag(c, flag, b) ==
    [c EXCEPT !.sreg = ByteOf([k \in 0..7 |-> IF k = flag THEN b ELSE Bit(c.sreg, k)])]

\* The row of the flags an operation computes: S is the exclusive or of N and V.
Row(carry, zero, neg, over, half) == <<carry, zero, neg, over, Truth(neg # over), half>>

CarryAt(k, x, y, r) ==
    Truth(\/ Bit(x, k) = 1 /\ Bit(y, k) = 1
          \/ Bit(y, k) = 1 /\ Bit(r, k) = 0
          \/ Bit(r, k) = 0 /\ Bit(x, k) = 1)
BorrowAt(k, x, y, r) ==
    Truth(\/ Bit(x, k) = 0 /\ Bit(y, k) = 1
          \/ Bit(y, k) = 1 /\ Bit(r, k) = 1
          \/ Bit(r, k) = 1 /\ Bit(x, k) = 0)

FlagsAdd(c, x, y, r) ==
    PutFlags(c, C..H, Row(CarryAt(7, x, y, r), Truth(r = 0), Bit(r, 7),
                          Truth(Bit(x, 7) # Bit(r, 7) /\ Bit(y, 7) # Bit(r, 7)), CarryAt(3, x, y, r)))

\* Mutant of FlagsSub: a subtraction with carry sets Z from its own byte.
FlagsSubOwnZero(c, x, y, r, keepZ) ==
    PutFlags(c, C..H, Row(BorrowAt(7, x, y, r), Truth(r = 0), Bit(r, 7),
                          Truth(Bit(x, 7) # Bit(y, 7) /\ Bit(x, 7) # Bit(r, 7)), BorrowAt(3, x, y, r)))

\* With keepZ the flag stays set only if it was.
FlagsSub(c, x, y, r, keepZ) ==
    PutFlags(c, C..H, Row(BorrowAt(7, x, y, r), Truth(r = 0 /\ (keepZ => On(c, Z))), Bit(r, 7),
                          Truth(Bit(x, 7) # Bit(y, 7) /\ Bit(x, 7) # Bit(r, 7)), BorrowAt(3, x, y, r)))

\* Results that are neither carried nor borrowed from leave C and H.
FlagsOf(c, r, over) == PutFlags(c, Z..S, Row(0, Truth(r = 0), Bit(r, 7), over, 0))
FlagsLogic(c, r) == FlagsOf(c, r, 0)
FlagsInc(c, r) == FlagsOf(c, r, Truth(r = 128))
FlagsDec(c, r) == FlagsOf(c, r, Truth(r = 127))
FlagsShift(c, x, r) ==
    PutFlags(c, C..S, Row(Bit(x, 0), Truth(r = 0), Bit(r, 7), Truth(Bit(r, 7) # Bit(x, 0)), 0))
-----------------------------------------------------------------------------
(***************************************************************************)
(* Registers, memories and the stack.                                      *)
(***************************************************************************)
R(c, n) == c.data[n]
SetR(c, n, v) == [c EXCEPT !.data[n] = v]
Pair(c, n) == c.data[n] + 256 * c.data[n + 1]
SetPair(c, n, v) == [c EXCEPT !.data[n] = v % 256, !.data[n + 1] = v \div 256]
X == 26
Y == 28
ZReg == 30

\* avr_io_read and avr_io_write, by data address: SREG and SP have handlers.
IoRead(c, a) == CASE a = SREG -> c.sreg
                  [] a = SPL -> c.sp % 256
                  [] a = SPH -> c.sp \div 256
                  [] OTHER -> c.data[a]
IoWrite(c, a, v) ==
    LET stored == [c EXCEPT !.data[a] = v]
    IN  CASE a = SREG -> [stored EXCEPT !.sreg = v]
          [] a = SPL -> [stored EXCEPT !.sp = (@ - (@ % 256)) + v]
          [] a = SPH -> [stored EXCEPT !.sp = (@ % 256) + 256 * v]
          [] OTHER -> stored

DataRead(c, a) == CASE a \in 32..255 /\ a < SramStart -> IoRead(c, a)
                    [] ~(a \in 32..255 /\ a < SramStart) /\ a < DataSize -> c.data[a]
                    [] a >= DataSize -> 255
DataWrite(c, a, v) == CASE a \in 32..255 /\ a < SramStart -> IoWrite(c, a, v)
                        [] ~(a \in 32..255 /\ a < SramStart) /\ a < DataSize -> [c EXCEPT !.data[a] = v]
                        [] a >= DataSize -> c

FlashByte(a) == IF a \div 2 \in DOMAIN prog.flash THEN Bits(prog.flash[a \div 2], 8 * (a % 2), 8) ELSE 255

\* The stack pointer moves and its copies in the I/O space with it.
MoveSp(c, sp) == [c EXCEPT !.sp = sp, !.data[SPL] = sp % 256, !.data[SPH] = sp \div 256]

\* Below the SRAM nothing is stored.  The code does not look for the other end:
\* with SP at or above data_size it writes past the array, the last member of the
\* core.  What lies there is no part of this model, which keeps the core as it is.
Push(c, v) ==
    MoveSp(IF c.sp >= SramStart /\ c.sp < DataSize THEN [c EXCEPT !.data[c.sp] = v] ELSE c,
           (c.sp - 1) % 65536)

\* avr_pop: the machine after it, and the byte.
Popped(c) == MoveSp(c, (c.sp + 1) % 65536)
Top(c) == LET sp == (c.sp + 1) % 65536 IN IF sp < DataSize THEN Popped(c).data[sp] ELSE 255

PushPc(c, pc) == Push(Push(c, pc % 256), (pc \div 256) % 256)
PopPc(c) == [Popped(Popped(c)) EXCEPT !.pc = 256 * Top(c) + Top(Popped(c))]
-----------------------------------------------------------------------------
(***************************************************************************)
(* The handlers: the core after the operation d.                           *)
(***************************************************************************)
\* NEXT, for an instruction of some words.
Done(c, words, cost) == [c EXCEPT !.pc = (@ + words) % 65536, !.cycles = @ + cost]
Goto(c, pc, cost) == [c EXCEPT !.pc = pc, !.cycles = @ + cost]

Add(c, d) ==
    LET x == R(c, d.a)
        y == R(c, d.b)
        r == (x + y + Truth(d.op = "ADC" /\ On(c, C))) % 256
    IN  Done(FlagsAdd(SetR(c, d.a, r), x, y, r), 1, 1)

\* The comparisons subtract and keep the register.  SBCI with nothing to
\* subtract has a path of its own, with the same result.
Subtract(c, d) ==
    LET x == R(c, d.a)
        y == IF d.op \in {"SUBI", "SBCI", "CPI"} THEN d.b ELSE R(c, d.b)
        withCarry == d.op \in {"SBC", "SBCI", "CPC"}
        r == (x - y - Truth(withCarry /\ On(c, C))) % 256
        kept == IF d.op \in {"CP", "CPC", "CPI"} THEN c ELSE SetR(c, d.a, r)
    IN  Done(FlagsSub(kept, x, y, r, withCarry), 1, 1)

Logic(c, d) ==
    LET x == R(c, d.a)
        y == IF d.op \in {"ANDI", "ORI"} THEN d.b ELSE R(c, d.b)
        r == CASE d.op \in {"AND", "ANDI"} -> And(x, y)
               [] d.op \in {"OR", "ORI"} -> Or(x, y)
               [] d.op = "EOR" -> Xor(x, y)
    IN  Done(FlagsLogic(SetR(c, d.a, r), r), 1, 1)

Com(c, d) == LET r == 255 - R(c, d.a)
             IN  Done(PutFlag(FlagsLogic(SetR(c, d.a, r), r), C, 1), 1, 1)
Neg(c, d) == LET r == (0 - R(c, d.a)) % 256
             IN  Done(PutFlag(FlagsSub(SetR(c, d.a, r), 0, R(c, d.a), r, FALSE), C, Truth(r # 0)), 1, 1)
Swap(c, d) == Done(SetR(c, d.a, 16 * (R(c, d.a) % 16) + (R(c, d.a) \div 16)), 1, 1)
Inc(c, d) == LET r == (R(c, d.a) + 1) % 256 IN Done(FlagsInc(SetR(c, d.a, r), r), 1, 1)
Dec(c, d) == LET r == (R(c, d.a) - 1) % 256 IN Done(FlagsDec(SetR(c, d.a, r), r), 1, 1)
Shift(c, d) ==
    LET x == R(c, d.a)
        in == CASE d.op = "ASR" -> Bit(x, 7) [] d.op = "LSR" -> 0 [] d.op = "ROR" -> Bit(c.sreg, C)
        r == (x \div 2) + 128 * in
    IN  Done(FlagsShift(SetR(c, d.a, r), x, r), 1, 1)

Move(c, d) == Done(CASE d.op = "LDI" -> SetR(c, d.a, d.b)
                     [] d.op = "MOV" -> SetR(c, d.a, R(c, d.b))
                     [] d.op = "MOVW" -> SetPair(c, d.a, Pair(c, d.b)), 1, 1)

AddWord(c, d) ==
    LET x == Pair(c, d.a)
        r == (IF d.op = "ADIW" THEN x + d.b ELSE x - d.b) % 65536
        fell == Truth(Bit(r, 15) = 0 /\ Bit(x, 15) = 1)
        rose == Truth(Bit(r, 15) = 1 /\ Bit(x, 15) = 0)
        carry == IF d.op = "ADIW" THEN fell ELSE rose
        over == IF d.op = "ADIW" THEN rose ELSE fell
    IN  Done(PutFlags(SetPair(c, d.a, r), C..S, Row(carry, Truth(r = 0), Bit(r, 15), over, 0)), 1, 2)

\* MUL, MULS, MULSU, and the fractional ones, that shift the product left after
\* they took the carry from it.
Multiply(c, d) ==
    LET x == IF d.op \in {"MUL", "FMUL"} THEN R(c, d.a) ELSE SignExtend(R(c, d.a), 8)
        y == IF d.op \in {"MULS", "FMULS"} THEN SignExtend(R(c, d.b), 8) ELSE R(c, d.b)
        product == (x * y) % 65536
        r == IF d.op \in {"FMUL", "FMULS", "FMULSU"} THEN (2 * product) % 65536 ELSE product
    IN  Done(PutFlags(SetPair(c, 0, r), {C, Z}, Row(Bit(product, 15), Truth(r = 0), 0, 0, 0)), 1, 2)

In(c, d) == Done(SetR(c, d.a, IoRead(c, d.b + 32)), 1, 1)
Out(c, d) == Done(IoWrite(c, d.b + 32, R(c, d.a)), 1, 1)
IoBit(c, d) == LET v == IoRead(c, d.a + 32)
               IN  Done(IoWrite(c, d.a + 32, IF d.op = "SBI" THEN Or(v, d.b) ELSE And(v, 255 - d.b)), 1, 2)

SkipWidth(next) == IF next \in DOMAIN cache /\ Is32Bit(cache[next].op) THEN 2 ELSE 1

Skip(c, d) ==
    LET skips == CASE d.op = "CPSE" -> R(c, d.a) = R(c, d.b)
                   [] d.op = "SBRC" -> And(R(c, d.a), d.b) = 0
                   [] d.op = "SBRS" -> And(R(c, d.a), d.b) # 0
                   [] d.op = "SBIC" -> And(IoRead(c, d.a + 32), d.b) = 0
                   [] d.op = "SBIS" -> And(IoRead(c, d.a + 32), d.b) # 0
        width == SkipWidth(c.pc + 1)
    IN  IF skips THEN Done(c, 1 + width, 1 + width) ELSE Done(c, 1, 1)

Jump(c, d) == CASE d.op = "RJMP" -> Goto(c, d.b, 2)
                [] d.op = "JMP" -> Goto(c, d.b, 3)
                [] d.op = "IJMP" -> Goto(c, Pair(c, ZReg), 2)
Call(c, d) == CASE d.op = "RCALL" -> Goto(PushPc(c, c.pc + 1), d.b, 3)
                [] d.op = "CALL" -> Goto(PushPc(c, c.pc + 2), d.b, 4)
                [] d.op = "ICALL" -> Goto(PushPc(c, c.pc + 1), Pair(c, ZReg), 3)
Return(c, d) == LET back == Done(PopPc(c), 0, 4)
                IN  IF d.op = "RETI" THEN [back EXCEPT !.sreg = Or(@, 128)] ELSE back
Branch(c, d) == IF (And(c.sreg, d.a) # 0) = (d.op = "BRBS") THEN Goto(c, d.b, 2) ELSE Done(c, 1, 1)

FlagBit(c, d) ==
    Done(CASE d.op = "BSET" -> [c EXCEPT !.sreg = Or(@, d.a)]
           [] d.op = "BCLR" -> [c EXCEPT !.sreg = And(@, 255 - d.a)]
           [] d.op = "BST" -> PutFlag(c, T, Truth(And(R(c, d.a), d.b) # 0))
           [] d.op = "BLD" -> SetR(c, d.a, IF On(c, T) THEN Or(R(c, d.a), d.b)
                                           ELSE And(R(c, d.a), 255 - d.b)), 1, 1)

\* The address in a pointer register and the pointer after the access, if it
\* is one that moves.
PointerReg(op) == CASE op \in {"LD_X", "LD_XP", "LD_MX", "ST_X", "ST_XP", "ST_MX"} -> X
                    [] op \in {"LD_YP", "LD_MY", "LDD_Y", "ST_YP", "ST_MY", "STD_Y"} -> Y
                    [] op \in {"LD_ZP", "LD_MZ", "LDD_Z", "ST_ZP", "ST_MZ", "STD_Z"} -> ZReg
Increments(op) == op \in {"LD_XP", "LD_YP", "LD_ZP", "ST_XP", "ST_YP", "ST_ZP"}
Decrements(op) == op \in {"LD_MX", "LD_MY", "LD_MZ", "ST_MX", "ST_MY", "ST_MZ"}

\* A load that moves its pointer decrements it before and increments it after.
Decremented(c, d) ==
    IF Decrements(d.op) THEN SetPair(c, PointerReg(d.op), (Pair(c, PointerReg(d.op)) - 1) % 65536) ELSE c
Address(c, d) == (Pair(Decremented(c, d), PointerReg(d.op)) + d.b) % 65536
Incremented(c, d, a) == IF Increments(d.op) THEN SetPair(c, PointerReg(d.op), (a + 1) % 65536) ELSE c

LoadIndirect(c, d) ==
    LET a == Address(c, d)
        before == Decremented(c, d)
    IN  Done(Incremented(SetR(before, d.a, DataRead(before, a)), d, a), 1, 2)
StoreIndirect(c, d) ==
    LET a == Address(c, d)
        before == Decremented(c, d)
    IN  Done(Incremented(DataWrite(before, a, R(before, d.a)), d, a), 1, 2)
Direct(c, d) == Done(IF d.op = "LDS" THEN SetR(c, d.a, DataRead(c, d.b))
                                     ELSE DataWrite(c, d.b, R(c, d.a)), 2, 2)
Stack(c, d) == Done(IF d.op = "PUSH" THEN Push(c, R(c, d.a)) ELSE SetR(Popped(c), d.a, Top(c)), 1, 2)
Lpm(c, d) ==
    LET a == Pair(c, ZReg)
        read == SetR(c, IF d.op = "LPM_R0" THEN 0 ELSE d.a, FlashByte(a))
    IN  Done(IF d.op = "LPM_RDP" THEN SetPair(read, ZReg, (a + 1) % 65536) ELSE read, 1, 3)

Nop(c, d) == Done(c, 1, 1)
GoToSleep(c, d) == Done([c EXCEPT !.state = "SLEEPING"], 1, 1)
Break(c, d) == Done([c EXCEPT !.state = "BREAK"], 1, 1)
Halt(c, d) == [c EXCEPT !.state = "HALTED"]
-----------------------------------------------------------------------------
(***************************************************************************)
(* The fused operations.                                                   *)
(***************************************************************************)
\* SUBI or DEC with the BRNE that follows it.
CountAndBranch(c, d) ==
    LET x == R(c, d.a)
        y == IF d.op = "SUBI_BRNE" THEN d.b ELSE 1
        r == (x - y) % 256
        counted == SetR(c, d.a, r)
        flagged == IF d.op = "SUBI_BRNE" THEN FlagsSub(counted, x, y, r, FALSE) ELSE FlagsDec(counted, r)
    IN  IF r # 0 THEN Goto(flagged, cache[c.pc + 1].b, 3) ELSE Done(flagged, 2, 2)

\* Mutant of DelayBytes: the borrow stops at the second byte.
DelayBytesNoBorrow(c, regs, k) ==
    LET low == R(c, regs[1])
        b1 == Truth(low < k)
    IN  [i \in 1..Len(regs) |-> CASE i = 1 -> (low - k) % 256
                                  [] i = 2 -> (R(c, regs[2]) - b1) % 256
                                  [] i = 3 -> R(c, regs[3])]

\* The bytes of the counter in the registers regs, less k.  All are read first.
DelayBytes(c, regs, k) ==
    LET low == R(c, regs[1])
        b1 == Truth(low < k)
        b2 == Truth(b1 = 1 /\ R(c, regs[2]) = 0)
    IN  [i \in 1..Len(regs) |-> CASE i = 1 -> (low - k) % 256
                                  [] i = 2 -> (R(c, regs[2]) - b1) % 256
                                  [] i = 3 -> (R(c, regs[3]) - b2) % 256]

\* DELAY2 and DELAY3: one round of the loop.  SREG is written when it ends.
Delay(c, d) ==
    LET n == IF d.op = "DELAY2" THEN 2 ELSE 3
        regs == [i \in 1..n |-> cache[c.pc + i - 1].a]
        bytes == DelayBytes(c, regs, d.b)
        low == SetR(SetR(c, regs[1], bytes[1]), regs[2], bytes[2])
        stored == IF n = 2 THEN low ELSE SetR(low, regs[3], bytes[3])
    IN  IF \E i \in 1..n : bytes[i] # 0
        THEN Goto(stored, cache[c.pc + n].b, n + 2)
        ELSE Done([stored EXCEPT !.sreg = Or(And(@, 192), 2)], n + 1, n + 1)

Operation(c, d) ==
    CASE d.op \in {"ADD", "ADC"} -> Add(c, d)
      [] d.op \in {"SUB", "SBC", "CP", "CPC", "SUBI", "SBCI", "CPI"} -> Subtract(c, d)
      [] d.op \in {"AND", "OR", "EOR", "ANDI", "ORI"} -> Logic(c, d)
      [] d.op = "COM" -> Com(c, d) [] d.op = "NEG" -> Neg(c, d) [] d.op = "SWAP" -> Swap(c, d)
      [] d.op = "INC" -> Inc(c, d) [] d.op = "DEC" -> Dec(c, d)
      [] d.op \in {"ASR", "LSR", "ROR"} -> Shift(c, d)
      [] d.op \in {"LDI", "MOV", "MOVW"} -> Move(c, d)
      [] d.op \in {"ADIW", "SBIW"} -> AddWord(c, d)
      [] d.op \in {"MUL", "MULS", "MULSU", "FMUL", "FMULS", "FMULSU"} -> Multiply(c, d)
      [] d.op = "IN" -> In(c, d) [] d.op = "OUT" -> Out(c, d)
      [] d.op \in {"CBI", "SBI"} -> IoBit(c, d)
      [] d.op \in {"CPSE", "SBRC", "SBRS", "SBIC", "SBIS"} -> Skip(c, d)
      [] d.op \in {"RJMP", "JMP", "IJMP"} -> Jump(c, d)
      [] d.op \in {"RCALL", "CALL", "ICALL"} -> Call(c, d)
      [] d.op \in {"RET", "RETI"} -> Return(c, d)
      [] d.op \in {"BRBS", "BRBC"} -> Branch(c, d)
      [] d.op \in {"BSET", "BCLR", "BST", "BLD"} -> FlagBit(c, d)
      [] d.op \in {"LD_X", "LD_XP", "LD_MX", "LD_YP", "LD_MY", "LDD_Y", "LD_ZP", "LD_MZ", "LDD_Z"} -> LoadIndirect(c, d)
      [] d.op \in {"ST_X", "ST_XP", "ST_MX", "ST_YP", "ST_MY", "STD_Y", "ST_ZP", "ST_MZ", "STD_Z"} -> StoreIndirect(c, d)
      [] d.op \in {"LDS", "STS"} -> Direct(c, d)
      [] d.op \in {"PUSH", "POP"} -> Stack(c, d)
      [] d.op \in {"LPM_R0", "LPM_RD", "LPM_RDP"} -> Lpm(c, d)
      [] d.op \in {"SUBI_BRNE", "DEC_BRNE"} -> CountAndBranch(c, d)
      [] d.op \in {"DELAY2", "DELAY3"} -> Delay(c, d)
      [] d.op \in {"NOP", "WDR", "SPM", "DATA"} -> Nop(c, d)
      [] d.op = "SLEEP" -> GoToSleep(c, d) [] d.op = "BREAK" -> Break(c, d)
      [] d.op = "FAULT" -> Halt(c, d)

\* avr_cpu_step.
Step == /\ cpu.state = "RUNNING"
        /\ cpu.pc \in DOMAIN prog.flash
        /\ cpu' = Operation(cpu, cache[cpu.pc])
        /\ UNCHANGED <<cache, prog>>

ExecInit ==
    /\ prog \in Programs
    /\ cpu = Reset
    /\ cache = Fuse(Predecode(prog.flash, prog.has))

ExecSpec == ExecInit /\ [][Step]_execVars
-----------------------------------------------------------------------------
(***************************************************************************)
(* Properties.                                                             *)
(***************************************************************************)
\* Registers, memory and the stack pointer keep their widths, whatever the
\* arithmetic of the instructions does.
ExecTypeOK == cpu \in Cpu

\* A program that runs to its end leaves in memory what arithmetic on its
\* operands gives, flags of multi-byte operations included, and has taken the
\* cycles the data sheet counts.
ResultsRight ==
    cpu.state # "RUNNING" => /\ \A a \in DOMAIN prog.want : cpu.data[a] = prog.want[a]
                             /\ cpu.cycles = prog.cost

\* The core on the cache before fusion, until the clock shows a given count.  No
\* fused operation stands for more than four instructions.
Unfused == Predecode(prog.flash, prog.has)
PlainStep(c) == Operation(c, Unfused[c.pc])
PlainUntil(c, cycles) ==
    LET further(s) == IF s.cycles >= cycles \/ s.state # "RUNNING" THEN s ELSE PlainStep(s)
    IN  further(further(further(PlainStep(c))))

\* The fusion of a delay loop does not compare the registers of its counter: the
\* fused operation reads all of them before it writes one, and counts as the
\* instructions do when they are different.
DistinctCounters ==
    \A p \in Programs :
        LET u == Predecode(p.flash, p.has)
        IN  \A i \in DOMAIN u :
                /\ FusedOp(u, i) \in {"DELAY2", "DELAY3"} => u[i].a # u[i + 1].a
                /\ FusedOp(u, i) = "DELAY3" => u[i + 2].a # u[i].a /\ u[i + 2].a # u[i + 1].a

\* A fused operation does what its instructions do one at a time, in the same
\* cycles.  A delay loop that goes round again leaves the arithmetic flags
\* alone, that its first instruction writes before anything reads them.
FusedIsPlain ==
    [][LET plain == PlainUntil(cpu, cpu'.cycles)
       IN  cpu' = IF cache[cpu.pc].op \in {"DELAY2", "DELAY3"} /\ cpu'.pc = cpu.pc
                  THEN [plain EXCEPT !.sreg = cpu.sreg] ELSE plain]_execVars
=============================================================================
