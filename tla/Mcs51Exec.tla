----------------------------- MODULE Mcs51Exec -----------------------------
(***************************************************************************)
(* The instruction set of the 8051 core: mcs51_cpu_step with interrupts    *)
(* disabled (their dispatch is module Mcs51Irq), every opcode of           *)
(* mcs51_decode.c, the memories, the stack, the ports, the UART and the    *)
(* two timers.  The firmware is a byte program of Programs, so an opcode   *)
(* is decoded here from the same bytes as in the code; the instructions    *)
(* are grouped by the high digit of the opcode, and its low digit names    *)
(* the operand: 5 a direct address, 6-7 @R0 and @R1, 8-15 R0..R7.          *)
(*                                                                         *)
(* The host pushes received bytes, takes transmitted ones and moves the    *)
(* pins of port 1 between two steps, as the run loops do.                  *)
(***************************************************************************)
EXTENDS Integers, Sequences, FiniteSets, SequencesExt

CONSTANTS CodeSize,     \* variant->code_size
          XramSize,     \* variant->xram_size
          RingBytes,    \* what a ring of the UART holds: MCS51_UART_BUF_SIZE - 1
          Programs      \* [code, input, pins, want]: bytes by address, what the
                        \* host sends, the levels of port 1, the expected results

MaxByte == 255
MaxWord == 65535
Byte == 0..MaxByte
Word == 0..MaxWord
SfrAddr == 128..MaxByte
XramAddr == 0..XramSize - 1

ASSUME MemoryAssumption ==
    CodeSize \in Nat \ {0} /\ XramSize \in Nat /\ RingBytes \in Nat \ {0}
ASSUME ProgramsAssumption ==
    \A p \in Programs : /\ \A a \in DOMAIN p.code : p.code[a] \in Byte
                       /\ p.input \in Seq(Byte) /\ p.pins \subseteq Byte

\* SFR addresses.
P0   == \h80
SP   == \h81
DPL  == \h82
DPH  == \h83
TCON == \h88
TMOD == \h89
TL0  == \h8A
TL1  == \h8B
TH0  == \h8C
TH1  == \h8D
P1   == \h90
SCON == \h98
SBUF == \h99
P2   == \hA0
IE   == \hA8
P3   == \hB0
PSW  == \hD0
ACC  == \hE0
B    == \hF0
Ports == {P0, P1, P2, P3}
\* Bits of PSW, TCON and SCON.
PF == 0
OV == 2
AC == 6
CY == 7
TR0 == 4
TF0 == 5
TR1 == 6
TF1 == 7
RI == 0
TI == 1
REN == 4

VARIABLES cpu,      \* the mcs51_cpu and its peripherals
          prog,     \* the program in code memory
          host      \* [input: not yet sent, given: accepted, taken: received back]
vars == <<cpu, prog, host>>

\* mcs51_cpu_init and mcs51_cpu_reset.
Reset == [ pc    |-> 0,
           state |-> "RUNNING",
           iram  |-> [a \in Byte |-> 0],
           sfr   |-> [a \in SfrAddr |-> IF a = SP THEN 7 ELSE IF a \in Ports THEN 255 ELSE 0],
           xram  |-> [a \in XramAddr |-> 0],
           pins  |-> [a \in Ports |-> 255],       \* gpio->ext_pins
           rx    |-> <<>>,                        \* the UART's rings and tx_active
           tx    |-> <<>>,
           txActive |-> FALSE ]
-----------------------------------------------------------------------------
(***************************************************************************)
(* Bits, memories and the stack.                                           *)
(***************************************************************************)
BitOf(v, k) == (v \div (2^k)) % 2
\* The byte with the bits f, and the bitwise operations of the code.
ByteOf(f) == f[0] + 2 * f[1] + 4 * f[2] + 8 * f[3] + 16 * f[4] + 32 * f[5] + 64 * f[6] + 128 * f[7]
And(x, y) == ByteOf([k \in 0..7 |-> BitOf(x, k) * BitOf(y, k)])
Or(x, y) == ByteOf([k \in 0..7 |-> IF BitOf(x, k) = 1 THEN 1 ELSE BitOf(y, k)])
Xor(x, y) == ByteOf([k \in 0..7 |-> (BitOf(x, k) + BitOf(y, k)) % 2])
PutBit(v, k, b) == v + (b - BitOf(v, k)) * (2^k)
Signed(b) == IF b < 128 THEN b ELSE b - 256
Truth(p) == IF p THEN 1 ELSE 0

CodeAt(a) == CASE a \in DOMAIN prog.code -> prog.code[a]
               [] a \notin DOMAIN prog.code /\ a < CodeSize -> 0
               [] OTHER -> 255

Fetch(c, k) == CodeAt((c.pc + k) % 65536)

Sfr(c, a) == c.sfr[a]
SetSfr(c, a, v) == [c EXCEPT !.sfr[a] = v]
SetIram(c, a, v) == [c EXCEPT !.iram[a] = v]
A(c) == Sfr(c, ACC)
SetA(c, v) == SetSfr(c, ACC, v)
Dptr(c) == Sfr(c, DPH) * 256 + Sfr(c, DPL)
SetDptr(c, v) == SetSfr(SetSfr(c, DPL, v % 256), DPH, (v \div 256) % 256)
Carry(c) == BitOf(Sfr(c, PSW), CY)
SetFlag(c, f, b) == SetSfr(c, PSW, PutBit(Sfr(c, PSW), f, b))
RegAddr(c, n) == 8 * ((Sfr(c, PSW) \div 8) % 4) + n

\* Mutant of DirectRead: a port is read at its pins alone.
DirectReadPins(c, a) ==
    CASE a < 128 -> c.iram[a]
      [] a = SBUF -> IF c.rx = <<>> THEN 0 ELSE Head(c.rx)
      [] a \in Ports -> c.pins[a]
      [] OTHER -> Sfr(c, a)

\* mcs51_direct_read with the hooks port_read and sbuf_read.  The byte that
\* reading SBUF takes from the ring is removed by Touch.
DirectRead(c, a) ==
    CASE a < 128 -> c.iram[a]
      [] a = SBUF -> IF c.rx = <<>> THEN 0 ELSE Head(c.rx)
      [] a \in Ports -> And(Sfr(c, a), c.pins[a])
      [] OTHER -> Sfr(c, a)

\* Mutant of Touch: the byte stays in the ring.
TouchKeeps(c, a) == c

Touch(c, a) == IF a = SBUF /\ c.rx # <<>> THEN [c EXCEPT !.rx = Tail(@)] ELSE c

\* mcs51_direct_write with the hook sbuf_write, which drops a byte the transmit
\* ring has no room for.
Transmit(c, v) ==
    [c EXCEPT !.tx = IF Len(@) < RingBytes THEN Append(@, v) ELSE @, !.txActive = TRUE]
DirectWrite(c, a, v) ==
    CASE a < 128 -> SetIram(c, a, v)
      [] a = SBUF -> Transmit(SetSfr(c, a, v), v)
      [] OTHER -> SetSfr(c, a, v)

\* The byte a bit address lies in: 20h-2Fh, or the SFR at a multiple of eight.
ByteOfBit(b) == IF b < 128 THEN 32 + (b \div 8) ELSE b - (b % 8)
BitRead(c, b) == BitOf(DirectRead(c, ByteOfBit(b)), b % 8)
BitWrite(c, b, v) ==
    DirectWrite(c, ByteOfBit(b), PutBit(DirectRead(c, ByteOfBit(b)), b % 8, v))

XdataRead(c, a) == IF a < XramSize THEN c.xram[a] ELSE 255
XdataWrite(c, a, v) == IF a < XramSize THEN [c EXCEPT !.xram[a] = v] ELSE c

Push(c, v) ==
    LET sp == (Sfr(c, SP) + 1) % 256 IN SetIram(SetSfr(c, SP, sp), sp, v)
Top(c) == c.iram[Sfr(c, SP)]
Pop(c) == SetSfr(c, SP, (Sfr(c, SP) - 1) % 256)

\* The operand the low digit of the opcode names.
Place(c, lo) == CASE lo \in 6..7 -> c.iram[RegAddr(c, lo - 6)]
                  [] lo >= 8 -> RegAddr(c, lo - 8)
Read(c, lo) == CASE lo = 4 -> Fetch(c, 1)
                 [] lo = 5 -> DirectRead(c, Fetch(c, 1))
                 [] lo >= 6 -> c.iram[Place(c, lo)]
AfterRead(c, lo) == IF lo = 5 THEN Touch(c, Fetch(c, 1)) ELSE c
Write(c, lo, v) == IF lo = 5 THEN DirectWrite(c, Fetch(c, 1), v)
                             ELSE SetIram(c, Place(c, lo), v)
Length(lo) == IF lo <= 5 THEN 2 ELSE 1

Advance(c, n) == [c EXCEPT !.pc = (@ + n) % 65536]
\* The relative address is the last byte of the instruction.
Branch(c, len, taken) ==
    Advance(c, len + (IF taken THEN Signed(Fetch(c, len - 1)) ELSE 0))
-----------------------------------------------------------------------------
(***************************************************************************)
(* What a step does after the instruction: parity, and a tick of timer 0   *)
(* and of timer 1 for each machine cycle.  An overflow of timer 1 ends a   *)
(* transmission.                                                           *)
(***************************************************************************)
Parity(c) ==
    SetFlag(c, PF, Cardinality({k \in 0..7 : BitOf(A(c), k) = 1}) % 2)

Counted(tl, th, mode) ==
    CASE mode = 0 -> LET v == th * 32 + (tl % 32) + 1
                     IN  [tl |-> (tl - (tl % 32)) + (v % 32), th |-> (v \div 32) % 256,
                          over |-> v = 2^13]
      [] mode = 1 -> LET v == th * 256 + tl + 1
                     IN  [tl |-> v % 256, th |-> (v \div 256) % 256, over |-> v = 2^16]
      [] mode = 2 -> [tl |-> IF tl = 255 THEN th ELSE tl + 1, th |-> th, over |-> tl = 255]
      [] mode = 3 -> [tl |-> (tl + 1) % 256, th |-> th, over |-> tl = 255]

Raise(c, reg, k, on) == IF on THEN SetSfr(c, reg, PutBit(Sfr(c, reg), k, 1)) ELSE c

\* tick_timer for timer 0; in mode 3 TH0 counts on its own under TR1.
TickTimer0(c) ==
    LET mode == Sfr(c, TMOD) % 4
        n    == Counted(Sfr(c, TL0), Sfr(c, TH0), mode)
        low  == Raise(SetSfr(SetSfr(c, TL0, n.tl), TH0, n.th), TCON, TF0, n.over)
        split == mode = 3 /\ BitOf(Sfr(c, TCON), TR1) = 1
    IN  IF BitOf(Sfr(c, TCON), TR0) = 0 THEN c
        ELSE IF ~split THEN low
        ELSE Raise(SetSfr(low, TH0, (n.th + 1) % 256), TCON, TF1, n.th = 255)

TickTimer1(c) ==
    LET mode == (Sfr(c, TMOD) \div 16) % 4
        n    == Counted(Sfr(c, TL1), Sfr(c, TH1), mode)
        on   == Raise(SetSfr(SetSfr(c, TL1, n.tl), TH1, n.th), TCON, TF1, n.over)
    IN  IF BitOf(Sfr(c, TCON), TR1) = 0 \/ mode = 3 THEN c
        ELSE IF n.over THEN [Raise(on, SCON, TI, c.txActive) EXCEPT !.txActive = FALSE]
        ELSE on

Tick(c) == TickTimer1(TickTimer0(c))

\* The rest of mcs51_cpu_step, after the instruction has made the machine c.
Completes(c, cycles) ==
    \E p \in {Parity(c)} : \E one \in {Tick(p)} : \E two \in {Tick(one)} :
        cpu' = CASE cycles = 1 -> one [] cycles = 2 -> two [] cycles = 4 -> Tick(Tick(two))

\* The check for interrupts that ends the step finds EA, bit 7 of IE, clear: a
\* step that ends with EA set is left to module Mcs51Irq.
Retire(c, cycles) == /\ Completes(c, cycles)
                     /\ BitOf(cpu'.sfr[IE], 7) = 0
                     /\ UNCHANGED <<prog, host>>
-----------------------------------------------------------------------------
(***************************************************************************)
(* The instructions.                                                       *)
(***************************************************************************)
Op == Fetch(cpu, 0)
Lo == Op % 16
Opcode(S) == cpu.state = "RUNNING" /\ Op \in S
Family(hi, lows) == cpu.state = "RUNNING" /\ Op \div 16 = hi /\ Lo \in lows
Arg1 == Fetch(cpu, 1)
Arg2 == Fetch(cpu, 2)

DoAdd(c, b, ci) ==
    LET a   == A(c)
        sum == a + b + ci
        c6  == ((a % 128) + (b % 128) + ci) \div 128
        c7  == sum \div 256
    IN  SetA(SetFlag(SetFlag(SetFlag(c, CY, c7), AC, Truth((a % 16) + (b % 16) + ci > 15)),
                     OV, (c6 + c7) % 2), sum % 256)

\* Mutant of DoSubb: overflow is taken from the borrow alone.
DoSubbNoOverflow(c, b, bi) ==
    LET a  == A(c)
        c7 == Truth(a < b + bi)
    IN  SetA(SetFlag(SetFlag(SetFlag(c, CY, c7), AC, Truth((a % 16) < (b % 16) + bi)),
                     OV, c7), (a - b - bi) % 256)

DoSubb(c, b, bi) ==
    LET a  == A(c)
        c6 == Truth((a % 128) < (b % 128) + bi)
        c7 == Truth(a < b + bi)
    IN  SetA(SetFlag(SetFlag(SetFlag(c, CY, c7), AC, Truth((a % 16) < (b % 16) + bi)),
                     OV, (c6 + c7) % 2), (a - b - bi) % 256)

Nop == Opcode({0}) /\ Retire(Advance(cpu, 1), 1)

PageAddr == ((((cpu.pc + 2) % 65536) \div 2048) * 2048) + (Op \div 32) * 256 + Arg1
Ajmp == Opcode({\h01, \h21, \h41, \h61, \h81, \hA1, \hC1, \hE1})
        /\ Retire([cpu EXCEPT !.pc = PageAddr], 2)
Ljmp == Opcode({\h02}) /\ Retire([cpu EXCEPT !.pc = Arg1 * 256 + Arg2], 2)
JmpADptr == Opcode({\h73}) /\ Retire([cpu EXCEPT !.pc = (A(cpu) + Dptr(cpu)) % 65536], 2)
Sjmp == Opcode({\h80}) /\ Retire(Branch(cpu, 2, TRUE), 2)

Pushed(c, ret) == Push(Push(c, ret % 256), ret \div 256)

CallTo(target, len) ==
    Retire([Pushed(cpu, (cpu.pc + len) % 65536) EXCEPT !.pc = target], 2)
Acall == Opcode({\h11, \h31, \h51, \h71, \h91, \hB1, \hD1, \hF1}) /\ CallTo(PageAddr, 2)
Lcall == Opcode({\h12}) /\ CallTo(Arg1 * 256 + Arg2, 3)

\* RET, and RETI with no routine active.
Return == /\ Opcode({\h22, \h32})
          /\ LET lower == Pop(cpu)
             IN  Retire([Pop(lower) EXCEPT !.pc = Top(cpu) * 256 + Top(lower)], 2)

JumpOnCarry == \/ Opcode({\h40}) /\ Retire(Branch(cpu, 2, Carry(cpu) = 1), 2)
               \/ Opcode({\h50}) /\ Retire(Branch(cpu, 2, Carry(cpu) = 0), 2)
JumpOnZero == \/ Opcode({\h60}) /\ Retire(Branch(cpu, 2, A(cpu) = 0), 2)
              \/ Opcode({\h70}) /\ Retire(Branch(cpu, 2, A(cpu) # 0), 2)
JumpOnBit == \/ Opcode({\h20}) /\ Retire(Branch(cpu, 3, BitRead(cpu, Arg1) = 1), 2)
             \/ Opcode({\h30}) /\ Retire(Branch(cpu, 3, BitRead(cpu, Arg1) = 0), 2)
Jbc == /\ Opcode({\h10})
       /\ IF BitRead(cpu, Arg1) = 1
          THEN Retire(BitWrite(Branch(cpu, 3, TRUE), Arg1, 0), 2)
          ELSE Retire(Advance(cpu, 3), 2)

RotateRight == \/ Opcode({\h03}) /\ Retire(Advance(SetA(cpu, (A(cpu) \div 2) + 128 * (A(cpu) % 2)), 1), 1)
               \/ Opcode({\h13}) /\ Retire(Advance(SetFlag(SetA(cpu, (A(cpu) \div 2) + 128 * Carry(cpu)),
                                                           CY, A(cpu) % 2), 1), 1)
RotateLeft == \/ Opcode({\h23}) /\ Retire(Advance(SetA(cpu, ((2 * A(cpu)) % 256) + (A(cpu) \div 128)), 1), 1)
              \/ Opcode({\h33}) /\ Retire(Advance(SetFlag(SetA(cpu, ((2 * A(cpu)) % 256) + Carry(cpu)),
                                                          CY, A(cpu) \div 128), 1), 1)
Swap == Opcode({\hC4}) /\ Retire(Advance(SetA(cpu, (A(cpu) % 16) * 16 + (A(cpu) \div 16)), 1), 1)

\* INC and DEC of A (4), direct, @Ri and Rn.
Stepped(d) ==
    IF Lo = 4 THEN Advance(SetA(cpu, (A(cpu) + d) % 256), 1)
    ELSE Advance(Write(AfterRead(cpu, Lo), Lo, (Read(cpu, Lo) + d) % 256), Length(Lo))
Inc == Family(0, 4..15) /\ Retire(Stepped(1), 1)
Dec == Family(1, 4..15) /\ Retire(Stepped(-1), 1)
IncDptr == Opcode({\hA3}) /\ Retire(Advance(SetDptr(cpu, Dptr(cpu) + 1), 1), 2)

Operated(c) == Retire(Advance(c, Length(Lo)), 1)
Add  == Family(2, 4..15) /\ Operated(DoAdd(AfterRead(cpu, Lo), Read(cpu, Lo), 0))
Addc == Family(3, 4..15) /\ Operated(DoAdd(AfterRead(cpu, Lo), Read(cpu, Lo), Carry(cpu)))
Subb == Family(9, 4..15) /\ Operated(DoSubb(AfterRead(cpu, Lo), Read(cpu, Lo), Carry(cpu)))

\* ORL, ANL and XRL: direct with A (2) or an immediate (3), A with an operand.
Logic(hi, f(_, _)) ==
    \/ Opcode({hi * 16 + 2})
       /\ Retire(Advance(DirectWrite(Touch(cpu, Arg1), Arg1, f(DirectRead(cpu, Arg1), A(cpu))), 2), 1)
    \/ Opcode({hi * 16 + 3})
       /\ Retire(Advance(DirectWrite(Touch(cpu, Arg1), Arg1, f(DirectRead(cpu, Arg1), Arg2)), 3), 2)
    \/ Family(hi, 4..15) /\ Operated(SetA(AfterRead(cpu, Lo), f(A(cpu), Read(cpu, Lo))))
Orl == Logic(4, Or)
Anl == Logic(5, And)
Xrl == Logic(6, Xor)

Mul == /\ Opcode({\hA4})
       /\ LET v == A(cpu) * Sfr(cpu, B)
          IN  Retire(Advance(SetFlag(SetFlag(SetSfr(SetA(cpu, v % 256), B, v \div 256), CY, 0),
                                     OV, Truth(v > 255)), 1), 4)
Div == /\ Opcode({\h84})
       /\ LET b == Sfr(cpu, B)
              quotient == SetSfr(SetA(cpu, A(cpu) \div b), B, A(cpu) % b)
          IN  Retire(Advance(SetFlag(SetFlag(IF b = 0 THEN cpu ELSE quotient, CY, 0),
                                     OV, Truth(b = 0)), 1), 4)

\* DA A: a nibble above nine, or carried out of, is corrected by six.
DecimalAdjust ==
    /\ Opcode({\hD4})
    /\ LET a == A(cpu)
           low  == a + (IF a % 16 > 9 \/ BitOf(Sfr(cpu, PSW), AC) = 1 THEN 6 ELSE 0)
           high == (low % 256) \div 16 > 9 \/ Carry(cpu) = 1 \/ low > 255
           all  == low + (IF high THEN 96 ELSE 0)
       IN  Retire(Advance(SetFlag(SetA(cpu, all % 256), CY, Truth(all > 255 \/ Carry(cpu) = 1)), 1), 1)

\* Moves.  MOV x,#imm (7): the immediate follows a direct address.
MovImm == \/ Opcode({\h74}) /\ Retire(Advance(SetA(cpu, Arg1), 2), 1)
          \/ Opcode({\h75}) /\ Retire(Advance(DirectWrite(cpu, Arg1, Arg2), 3), 2)
          \/ Family(7, 6..15) /\ Retire(Advance(Write(cpu, Lo, Arg1), 2), 1)
MovToDirect == \/ Opcode({\h85})
                  /\ Retire(Advance(DirectWrite(Touch(cpu, Arg1), Arg2, DirectRead(cpu, Arg1)), 3), 2)
               \/ Family(8, 6..15)
                  /\ Retire(Advance(DirectWrite(cpu, Arg1, Read(cpu, Lo)), 2), 2)
MovFromDirect == /\ Family(10, 6..15)
                 /\ Retire(Advance(Write(Touch(cpu, Arg1), Lo, DirectRead(cpu, Arg1)), 2), 2)
MovToA == Family(14, 5..15) /\ Operated(SetA(AfterRead(cpu, Lo), Read(cpu, Lo)))
MovFromA == Family(15, 5..15) /\ Operated(Write(cpu, Lo, A(cpu)))
ClrA == Opcode({\hE4}) /\ Retire(Advance(SetA(cpu, 0), 1), 1)
CplA == Opcode({\hF4}) /\ Retire(Advance(SetA(cpu, 255 - A(cpu)), 1), 1)
MovDptr == Opcode({\h90}) /\ Retire(Advance(SetDptr(cpu, Arg1 * 256 + Arg2), 3), 2)
Movc == \/ Opcode({\h83})
           /\ Retire(Advance(SetA(cpu, CodeAt((A(cpu) + cpu.pc + 1) % 65536)), 1), 2)
        \/ Opcode({\h93})
           /\ Retire(Advance(SetA(cpu, CodeAt((A(cpu) + Dptr(cpu)) % 65536)), 1), 2)

\* MOVX by DPTR (0) or by @Ri (2-3), which addresses the first 256 bytes.
XAddr == IF Lo = 0 THEN Dptr(cpu) ELSE cpu.iram[RegAddr(cpu, Lo - 2)]
MovxRead == Opcode({\hE0, \hE2, \hE3}) /\ Retire(Advance(SetA(cpu, XdataRead(cpu, XAddr)), 1), 2)
MovxWrite == Opcode({\hF0, \hF2, \hF3}) /\ Retire(Advance(XdataWrite(cpu, XAddr, A(cpu)), 1), 2)

PushDirect == /\ Opcode({\hC0})
              /\ Retire(Advance(Push(Touch(cpu, Arg1), DirectRead(cpu, Arg1)), 2), 2)
PopDirect == Opcode({\hD0}) /\ Retire(Advance(DirectWrite(Pop(cpu), Arg1, Top(cpu)), 2), 2)

Xch == /\ Family(12, 5..15)
       /\ Operated(SetA(Write(AfterRead(cpu, Lo), Lo, A(cpu)), Read(cpu, Lo)))
Xchd == /\ Family(13, 6..7)
        /\ LET m == Read(cpu, Lo)
           IN  Operated(Write(SetA(cpu, (A(cpu) - (A(cpu) % 16)) + (m % 16)), Lo, (m - (m % 16)) + (A(cpu) % 16)))

\* CJNE: A with an immediate or a direct byte, @Ri and Rn with an immediate.
Cjne == /\ Family(11, 4..15)
        /\ LET x == IF Lo <= 5 THEN A(cpu) ELSE Read(cpu, Lo)
               y == IF Lo = 5 THEN Read(cpu, 5) ELSE Arg1
           IN  Retire(Branch(SetFlag(AfterRead(cpu, Lo), CY, Truth(x < y)), 3, x # y), 2)
Djnz == /\ Family(13, {5} \cup 8..15)
        /\ LET v == (Read(cpu, Lo) - 1) % 256
           IN  Retire(Branch(Write(AfterRead(cpu, Lo), Lo, v), Length(Lo) + 1, v # 0), 2)

\* Bits.  The instructions that test a bit put their result into the carry.
CarryOps == \/ Opcode({\hB3}) /\ Retire(Advance(SetFlag(cpu, CY, 1 - Carry(cpu)), 1), 1)
            \/ Opcode({\hC3}) /\ Retire(Advance(SetFlag(cpu, CY, 0), 1), 1)
            \/ Opcode({\hD3}) /\ Retire(Advance(SetFlag(cpu, CY, 1), 1), 1)
            \/ Opcode({\hA2}) /\ Retire(Advance(SetFlag(cpu, CY, BitRead(cpu, Arg1)), 2), 1)
OrlCarry == /\ Opcode({\h72, \hA0})
            /\ LET set == BitRead(cpu, Arg1) = Truth(Op = \h72)
               IN  Retire(Advance(IF set THEN SetFlag(cpu, CY, 1) ELSE cpu, 2), 2)
AnlCarry == /\ Opcode({\h82, \hB0})
            /\ LET clear == BitRead(cpu, Arg1) = Truth(Op = \hB0)
               IN  Retire(Advance(IF clear THEN SetFlag(cpu, CY, 0) ELSE cpu, 2), 2)
BitOps == \/ Opcode({\h92}) /\ Retire(Advance(BitWrite(cpu, Arg1, Carry(cpu)), 2), 2)
          \/ Opcode({\hB2}) /\ Retire(Advance(BitWrite(cpu, Arg1, 1 - BitRead(cpu, Arg1)), 2), 1)
          \/ Opcode({\hC2}) /\ Retire(Advance(BitWrite(cpu, Arg1, 0), 2), 1)
          \/ Opcode({\hD2}) /\ Retire(Advance(BitWrite(cpu, Arg1, 1), 2), 1)

Break == Opcode({\hA5}) /\ Retire(Advance([cpu EXCEPT !.state = "BREAK"], 1), 1)

Execute ==
    \/ Nop \/ Ajmp \/ Ljmp \/ JmpADptr \/ Sjmp \/ Acall \/ Lcall \/ Return
    \/ JumpOnCarry \/ JumpOnZero \/ JumpOnBit \/ Jbc \/ Cjne \/ Djnz
    \/ RotateRight \/ RotateLeft \/ Swap \/ Inc \/ Dec \/ IncDptr
    \/ Add \/ Addc \/ Subb \/ Orl \/ Anl \/ Xrl \/ Mul \/ Div \/ DecimalAdjust
    \/ MovImm \/ MovToDirect \/ MovFromDirect \/ MovToA \/ MovFromA \/ ClrA \/ CplA
    \/ MovDptr \/ Movc \/ MovxRead \/ MovxWrite \/ PushDirect \/ PopDirect
    \/ Xch \/ Xchd \/ CarryOps \/ OrlCarry \/ AnlCarry \/ BitOps \/ Break
-----------------------------------------------------------------------------
(***************************************************************************)
(* The host, between two steps.                                            *)
(***************************************************************************)
\* mcs51_uart_rx_push: without REN the byte is dropped; without room in the ring
\* too, but RI is set.
RxPush ==
    /\ host.input # <<>> /\ cpu.state = "RUNNING"
    /\ LET b    == Head(host.input)
           on   == BitOf(Sfr(cpu, SCON), REN) = 1
           kept == on /\ Len(cpu.rx) < RingBytes
       IN  /\ host' = [host EXCEPT !.input = Tail(@), !.given = IF kept THEN Append(@, b) ELSE @]
           /\ cpu' = IF on THEN [Raise(SetSfr(cpu, SBUF, b), SCON, RI, TRUE)
                                   EXCEPT !.rx = IF kept THEN Append(@, b) ELSE @]
                           ELSE cpu
    /\ UNCHANGED prog

\* mcs51_uart_tx_pop.
TxPop == /\ cpu.tx # <<>>
         /\ host' = [host EXCEPT !.taken = Append(@, Head(cpu.tx))]
         /\ cpu' = [cpu EXCEPT !.tx = Tail(@)]
         /\ UNCHANGED prog

\* A pin of port 1 changes: esp_io_bridge.c writes gpio->ext_pins.
PinChange == /\ cpu.state = "RUNNING"
             /\ \E v \in prog.pins : v # cpu.pins[P1] /\ cpu' = [cpu EXCEPT !.pins[P1] = v]
             /\ UNCHANGED <<prog, host>>

Init == /\ prog \in Programs
        /\ cpu = Reset
        /\ host = [input |-> prog.input, given |-> <<>>, taken |-> <<>>]

Next == Execute \/ RxPush \/ TxPop \/ PinChange

Spec == Init /\ [][Next]_vars
-----------------------------------------------------------------------------
(***************************************************************************)
(* Properties.                                                             *)
(***************************************************************************)
Machine == [ pc : Word, state : {"RUNNING", "BREAK"}, iram : [Byte -> Byte],
             sfr : [SfrAddr -> Byte], xram : [XramAddr -> Byte], pins : [Ports -> Byte],
             rx : Seq(Byte), tx : Seq(Byte), txActive : BOOLEAN ]

\* Every memory and register stays within its width, whatever the arithmetic
\* of the instructions does, and only bytes pass between the host and the core.
TypeOK == /\ cpu \in Machine
          /\ prog \in Programs
          /\ host \in [input : Seq(Byte), given : Seq(Byte), taken : Seq(Byte)]

\* A program that runs to its BREAK leaves in RAM what arithmetic on its
\* operands gives: sums, differences, products, quotients and decimal sums of
\* several bytes with their flags, and the time the timers counted.
ResultsRight ==
    cpu.state = "BREAK" => \A a \in DOMAIN prog.want : cpu.iram[a] = prog.want[a]

\* An instruction that writes one bit of port 1 reads the pins and not the
\* latch: it may drop other latch bits, but only where a pin is held low, and
\* it never raises one.
LatchKept ==
    [][cpu.state = "RUNNING" /\ Op \in {\h10, \h92, \hB2, \hC2, \hD2} /\ Arg1 \div 8 = P1 \div 8
       /\ cpu'.pc # cpu.pc
       => \A k \in 0..7 \ {Arg1 % 8} :
             /\ BitOf(cpu'.sfr[P1], k) <= BitOf(cpu.sfr[P1], k)
             /\ BitOf(cpu.pins[P1], k) = 1 => BitOf(cpu'.sfr[P1], k) = BitOf(cpu.sfr[P1], k)]_vars

\* The echo firmware: MOV TMOD,#20h  MOV TH1,#FDh  SETB TR1  MOV SCON,#50h, then
\* for ever JNB RI,-3  CLR RI  MOV A,SBUF  MOV SBUF,A  JNB TI,-3  CLR TI  SJMP -16.
EchoBytes == << \h75, \h89, \h20, \h75, \h8D, \hFD, \hD2, \h8E, \h75, \h98, \h50,
                \h30, \h98, \hFD, \hC2, \h98, \hE5, \h99,
                \hF5, \h99, \h30, \h99, \hFD, \hC2, \h99, \h80, \hF0 >>
EchoCode == [a \in 0..26 |-> EchoBytes[a + 1]]

\* What a firmware that echoes sends back is what it was sent, in order,
\* nothing twice and nothing skipped: however the host's bytes fall between its
\* instructions, as long as they fit a ring.
EchoInOrder == IsPrefix(host.taken \o cpu.tx, host.given)
=============================================================================
