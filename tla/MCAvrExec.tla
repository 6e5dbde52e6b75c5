----------------------------- MODULE MCAvrExec -----------------------------
(***************************************************************************)
(* The programs module AvrExec is checked with.  Words are assembled from  *)
(* the encodings of the instruction set manual; results, flags and cycles  *)
(* are computed from the operands, never by the machine.                   *)
(***************************************************************************)
EXTENDS AvrExec, SequencesExt

\* Bytes as the sets of their ones, for what bitwise operations should give.
Ones(x) == {k \in 0..7 : (x \div 2^k) % 2 = 1}
Value(ones) == MapThenSumSet(LAMBDA k : 2^k, ones)
Both(x, y) == Value(Ones(x) \cap Ones(y))
Either(x, y) == Value(Ones(x) \cup Ones(y))
OnlyOne(x, y) == Value((Ones(x) \cup Ones(y)) \ (Ones(x) \cap Ones(y)))

\* Encodings.
Two(base, d, r) == base + 512 * (r \div 16) + 16 * d + (r % 16)
ADD(d, r) == Two(\h0C00, d, r)
ADC(d, r) == Two(\h1C00, d, r)
SUB(d, r) == Two(\h1800, d, r)
SBC(d, r) == Two(\h0800, d, r)
CP(d, r) == Two(\h1400, d, r)
CPC(d, r) == Two(\h0400, d, r)
CPSE(d, r) == Two(\h1000, d, r)
AND(d, r) == Two(\h2000, d, r)
EOR(d, r) == Two(\h2400, d, r)
OR(d, r) == Two(\h2800, d, r)
MOV(d, r) == Two(\h2C00, d, r)
MUL(d, r) == Two(\h9C00, d, r)
MOVW(d, r) == \h0100 + 16 * (d \div 2) + (r \div 2)
MULS(d, r) == \h0200 + 16 * (d - 16) + (r - 16)
MULSU(d, r) == \h0300 + 16 * (d - 16) + (r - 16)
FMUL(d, r) == \h0308 + 16 * (d - 16) + (r - 16)
FMULS(d, r) == \h0380 + 16 * (d - 16) + (r - 16)
FMULSU(d, r) == \h0388 + 16 * (d - 16) + (r - 16)
Imm(base, d, k) == base + 256 * (k \div 16) + 16 * (d - 16) + (k % 16)
CPI(d, k) == Imm(\h3000, d, k)
SBCI(d, k) == Imm(\h4000, d, k)
SUBI(d, k) == Imm(\h5000, d, k)
ORI(d, k) == Imm(\h6000, d, k)
ANDI(d, k) == Imm(\h7000, d, k)
LDI(d, k) == Imm(\hE000, d, k)
One(d, k) == \h9400 + 16 * d + k
COM(d) == One(d, 0)
NEG(d) == One(d, 1)
SWAP(d) == One(d, 2)
INC(d) == One(d, 3)
ASR(d) == One(d, 5)
LSR(d) == One(d, 6)
ROR(d) == One(d, 7)
DEC(d) == One(d, 10)
ADIW(d, k) == \h9600 + 64 * (k \div 16) + 8 * (d - 24) + (k % 16)
SBIW(d, k) == \h9700 + 64 * (k \div 16) + 8 * (d - 24) + (k % 16)
INP(d, io) == \hB000 + 512 * (io \div 16) + 16 * d + (io % 16)
OUT(io, d) == \hB800 + 512 * (io \div 16) + 16 * d + (io % 16)
CBI(io, b) == \h9800 + 8 * io + b
SBIC(io, b) == \h9900 + 8 * io + b
SBI(io, b) == \h9A00 + 8 * io + b
SBIS(io, b) == \h9B00 + 8 * io + b
RJMP(k) == \hC000 + (k % 4096)
RCALL(k) == \hD000 + (k % 4096)
BRBS(b, k) == \hF000 + 8 * (k % 128) + b
BRBC(b, k) == \hF400 + 8 * (k % 128) + b
BRNE(k) == BRBC(Z, k)
BLD(d, b) == \hF800 + 16 * d + b
BST(d, b) == \hFA00 + 16 * d + b
SBRC(d, b) == \hFC00 + 16 * d + b
SBRS(d, b) == \hFE00 + 16 * d + b
BSET(b) == \h9408 + 16 * b
BCLR(b) == \h9488 + 16 * b
LD(d, mode) == \h9000 + 16 * d + mode      \* 0 LDS, 1 Z+, 2 -Z, 9 Y+, 10 -Y, 12 X, 13 X+, 14 -X, 15 POP
ST(d, mode) == \h9200 + 16 * d + mode
Disp(base, d, q) == base + 8192 * (q \div 32) + 1024 * ((q \div 8) % 4) + (q % 8) + 16 * d
LDDZ(d, q) == Disp(\h8000, d, q)
LDDY(d, q) == Disp(\h8008, d, q)
STDZ(d, q) == Disp(\h8200, d, q)
STDY(d, q) == Disp(\h8208, d, q)
LPM0 == \h95C8
LPM(d) == LD(d, 4)
LPMP(d) == LD(d, 5)
JMP == \h940C
CALL == \h940E
IJMP == \h9409
ICALL == \h9509
RET == \h9508
RETI == \h9518
SLEEP == \h9588
BREAK == \h9598
WDR == \h95A8
SPM == \h95E8
NOP == 0
SREGio == \h3F
GPIOR == \h1E

Lsb(x) == x % 256
Msb(x) == (x \div 256) % 256
All == {"MUL", "JMP_CALL", "MOVW", "LPM_RD", "ADIW"}
\* Words from address 0, the rest of the flash erased.
Program(words, has, want, cost) ==
    [ flash |-> [i \in 0..Len(words) + 7 |-> IF i < Len(words) THEN words[i + 1] ELSE 65535],
      has |-> has, want |-> want, cost |-> cost ]
\* A function from pairs <<address, value>>.
Expect(pairs) == [a \in {p[1] : p \in pairs} |-> (CHOOSE p \in pairs : p[1] = a)[2]]

SignedIn(x, bits) == IF x < 2^(bits - 1) THEN x ELSE x - 2^bits
FlagByte(c, z, n, v, h) ==
    Truth(c) + 2 * Truth(z) + 4 * Truth(n) + 8 * Truth(v) + 16 * Truth(n # v) + 32 * Truth(h)
OutOf16(v) == v \notin -32768..32767

(* 16-bit sum.  ADC sets Z from the high byte alone. *)
WordSum(x, y) ==
    LET r == (x + y) % 65536
    IN  Program(<<LDI(16, Lsb(x)), LDI(17, Msb(x)), LDI(18, Lsb(y)), LDI(19, Msb(y)),
                  ADD(16, 18), ADC(17, 19), INP(20, SREGio), BREAK>>, All,
                Expect({<<16, Lsb(r)>>, <<17, Msb(r)>>,
                        <<20, FlagByte(x + y > 65535, Msb(r) = 0, r > 32767,
                                       OutOf16(SignedIn(x, 16) + SignedIn(y, 16)),
                                       (x % 4096) + (y % 4096) > 4095)>>}), 8)

(* 16-bit difference three ways, with the flags of the whole. *)
WordDifference(x, y) ==
    LET r == (x - y) % 65536
        flags == FlagByte(x < y, r = 0, r > 32767, OutOf16(SignedIn(x, 16) - SignedIn(y, 16)),
                          x % 4096 < y % 4096)
    IN  Program(<<LDI(16, Lsb(x)), LDI(17, Msb(x)), LDI(18, Lsb(y)), LDI(19, Msb(y)), MOVW(24, 16),
                  CP(16, 18), CPC(17, 19), INP(20, SREGio),
                  SUB(16, 18), SBC(17, 19), INP(21, SREGio),
                  SUBI(24, Lsb(y)), SBCI(25, Msb(y)), INP(22, SREGio), BREAK>>, All,
                Expect({<<16, Lsb(r)>>, <<17, Msb(r)>>, <<24, Lsb(r)>>, <<25, Msb(r)>>,
                        <<20, flags>>, <<21, flags>>, <<22, flags>>}), 15)

(* Negation and halving of a signed and an unsigned word; ADIW and SBIW. *)
WordShapes(x, k) ==
    LET neg == (0 - x) % 65536
        half == SignedIn(x, 16) \div 2
        sum == (x + k) % 65536
        diff == (x - k) % 65536
    IN  Program(<<LDI(16, Lsb(x)), LDI(17, Msb(x)), MOVW(18, 16), MOVW(20, 16), MOVW(24, 16), MOVW(26, 16),
                  COM(17), NEG(16), SBCI(17, 255),
                  LSR(19), ROR(18), ASR(21), ROR(20),
                  OUT(SREGio, 2), ADIW(24, k), INP(22, SREGio), SBIW(26, k), INP(23, SREGio), BREAK>>, All,
                Expect({<<16, Lsb(neg)>>, <<17, Msb(neg)>>,
                        <<18, Lsb(x \div 2)>>, <<19, Msb(x \div 2)>>,
                        <<20, Lsb(half)>>, <<21, Msb(half)>>,
                        <<24, Lsb(sum)>>, <<25, Msb(sum)>>, <<26, Lsb(diff)>>, <<27, Msb(diff)>>,
                        <<22, FlagByte(x + k > 65535, sum = 0, sum > 32767,
                                       OutOf16(SignedIn(x, 16) + k), FALSE)>>,
                        <<23, FlagByte(x < k, diff = 0, diff > 32767,
                                       OutOf16(SignedIn(x, 16) - k), FALSE)>>}), 21)

(* Bits: logic, nibbles, single bits of registers and of an I/O register. *)
Bitwise8(x, y) ==
    Program(<<LDI(16, x), LDI(17, y), MOV(18, 16), MOV(19, 16), MOV(20, 16),
              AND(18, 17), OR(19, 17), EOR(20, 17), ANDI(16, 240), ORI(16, 5), SWAP(17),
              BST(18, 7), BLD(0, 0), BCLR(T), BLD(16, 0), INC(18), DEC(19),
              OUT(GPIOR, 20), SBI(GPIOR, 7), CBI(GPIOR, 0), INP(21, GPIOR),
              BSET(C), ADC(22, 2), WDR, SPM, NOP, BREAK>>, All,
            Expect({<<0, Bit(Both(x, y), 7)>>, <<16, (x - (x % 16)) + 4>>, <<17, 16 * (y % 16) + (y \div 16)>>,
                    <<18, (Both(x, y) + 1) % 256>>, <<19, (Either(x, y) - 1) % 256>>, <<20, OnlyOne(x, y)>>,
                    <<21, 128 + 2 * ((OnlyOne(x, y) % 128) \div 2)>>, <<22, 1>>}), 29)

(* Products.  d and r name the registers of the two factors. *)
Product(word, d, r, x, y, value, carry) ==
    LET v == value % 65536
    IN  Program(<<LDI(d, x), LDI(r, y), word, INP(20, SREGio), BREAK>>, All,
                Expect({<<0, Lsb(v)>>, <<1, Msb(v)>>, <<20, carry + 2 * Truth(v = 0)>>}), 6)
TopBit(v) == Bit(v % 65536, 15)
Products(x, y) ==
    LET sx == SignedIn(x, 8)
        sy == SignedIn(y, 8)
    IN  { Product(MUL(21, 19), 21, 19, x, y, x * y, TopBit(x * y)),
          Product(MULS(21, 19), 21, 19, x, y, sx * sy, TopBit(sx * sy)),
          Product(MULSU(18, 17), 18, 17, x, y, sx * y, TopBit(sx * y)),
          Product(FMUL(18, 17), 18, 17, x, y, 2 * x * y, TopBit(x * y)),
          Product(FMULS(19, 17), 19, 17, x, y, 2 * sx * sy, TopBit(sx * sy)),
          Product(FMULSU(19, 17), 19, 17, x, y, 2 * sx * y, TopBit(sx * y)) }

(* Loops: n rounds of DEC, of SUBI by 1, and counters of two and three bytes
   that count down by k from n * k, with a byte counted up beside each. *)
CountedLoops(n) ==
    Program(<<LDI(16, n), LDI(17, n), INC(18), DEC(16), BRNE(-3), INC(19), SUBI(17, 1), BRNE(-3),
              INP(20, SREGio), BREAK>>, All,
            Expect({<<16, 0>>, <<17, 0>>, <<18, n>>, <<19, n>>, <<20, 2>>}), 2 + 2 * (4 * n - 1) + 2)
Delay16(n, k) ==
    Program(<<LDI(24, Lsb(n * k)), LDI(25, Msb(n * k)), SUBI(24, k), SBCI(25, 0), BRNE(-3),
              INP(20, SREGio), BREAK>>, All,
            Expect({<<24, 0>>, <<25, 0>>, <<20, 2>>}), 2 + (4 * n - 1) + 2)
Delay24(n, k) ==
    Program(<<LDI(18, Lsb(n * k)), LDI(24, Msb(n * k)), LDI(25, (n * k) \div 65536),
              SUBI(18, k), SBCI(24, 0), SBCI(25, 0), BRNE(-4), INP(20, SREGio), BREAK>>, All,
            Expect({<<18, 0>>, <<24, 0>>, <<25, 0>>, <<20, 2>>}), 3 + (5 * n - 1) + 2)
\* A loop that looks like a delay and branches elsewhere: n rounds.
NotDelay(n) ==
    Program(<<LDI(24, n), RJMP(1), INC(16), SUBI(24, 1), SBCI(25, 0), BRNE(-4), BREAK>>, All,
            Expect({<<16, n - 1>>, <<24, 0>>}), 5 * n + 2)

(* Calls and jumps of every kind, a byte saved on the stack. *)
Calls(v) ==
    LET r == (v + 3) % 256
        sp == (DataSize - 1) % 256
    IN  Program(<<LDI(16, v), RCALL(10), LDI(30, 16), ICALL, CALL, 18, JMP, 9, BREAK,       \* 0
                  LDI(30, 20), IJMP, NOP,                                                   \* 9
                  ST(16, 15), INC(16), LD(17, 15), RET,                                     \* 12
                  INC(16), RET, INC(16), RETI,                                              \* 16
                  INP(18, \h3D), LD(19, 0), SPL, INP(20, SREGio), BREAK>>, All,               \* 20
                Expect({<<16, r>>, <<17, v>>, <<18, sp>>, <<19, sp>>,
                        <<20, 128 + FlagByte(FALSE, r = 0, r > 127, r = 128, FALSE)>>}), 42)

(* Loads and stores through every pointer, past the end of the memory too. *)
Pointers(v) ==
    Program(<<LDI(26, 96), LDI(28, 100), LDI(30, 104), LDI(16, v),
              ST(16, 13), INC(16), ST(16, 12), INC(16), ST(16, 14),
              ST(16, 9), INC(16), ST(16, 10), STDY(16, 3),
              INC(16), ST(16, 1), INC(16), ST(16, 2), STDZ(16, 2), ST(16, 0), 107,
              LD(0, 13), LD(1, 12), LD(2, 14), LD(3, 9), LD(4, 10), LDDY(5, 3),
              LD(6, 1), LD(7, 2), LDDZ(8, 2), LD(9, 0), 107, LD(10, 0), 200,
              LDI(26, 12), ST(16, 12), BREAK>>, All,
            Expect({<<0, v + 2>>, <<1, v + 1>>, <<2, v + 2>>, <<3, v + 3>>, <<4, v + 3>>, <<5, v + 3>>,
                    <<6, v + 5>>, <<7, v + 5>>, <<8, v + 5>>, <<9, v + 5>>, <<10, 255>>, <<12, v + 5>>,
                    <<28, 100>>, <<30, 104>>, <<103, v + 3>>, <<106, v + 5>>}), 55)

(* Constants in flash. *)
Constants(w) ==
    Program(<<LDI(30, 20), LPM0, LPM(16), LPMP(17), LPMP(18), MOV(19, 30), LDI(31, 255), LPM(20), BREAK, NOP, w>>,
            All, Expect({<<0, Lsb(w)>>, <<16, Lsb(w)>>, <<17, Lsb(w)>>, <<18, Msb(w)>>, <<19, 22>>, <<20, 255>>}), 19)

(* The five skips, over instructions of one word and of two. *)
Skips(x, y) ==
    Program(<<LDI(16, x), LDI(17, y), LDI(20, 1), CPSE(16, 17), ST(20, 0), 96, SBRC(16, 0), ST(20, 0), 97,
              SBRS(16, 7), INC(21), OUT(GPIOR, 16), SBIC(GPIOR, 3), INC(22), SBIS(GPIOR, 2), JMP, 18,
              INC(23), BREAK>>, All,
            Expect({<<96, Truth(x # y)>>, <<97, Bit(x, 0)>>, <<21, 1 - Bit(x, 7)>>,
                    <<22, Bit(x, 3)>>, <<23, Bit(x, 2)>>}), 19)

(* A comparison with a constant, a branch on every flag either way, with T set and
   I clear, and a loop that goes back while a count is lower than 3. *)
Comparison(x, k) ==
    LET r == (x - k) % 256
        flags == 64 + FlagByte(x < k, r = 0, r > 127, SignedIn(x, 8) - SignedIn(k, 8) \notin -128..127,
                               x % 16 < k % 16)
        branch(b) == <<OUT(SREGio, 20), BRBS(b, 1), INC(b), OUT(SREGio, 20), BRBC(b, 1), INC(8 + b)>>
    IN  Program(<<LDI(16, x), BSET(T), CPI(16, k), INP(20, SREGio)>>
                \o FlattenSeq([i \in 1..8 |-> branch(i - 1)])
                \o <<INC(21), CPI(21, 3), BRBS(C, -3), BREAK>>, All,
                Expect({<<16, x>>, <<20, flags>>, <<21, 3>>}
                       \cup {<<b, 1 - Bit(flags, b)>> : b \in 0..7}
                       \cup {<<8 + b, Bit(flags, b)>> : b \in 0..7}), 4 + 16 * 3 + 11 + 1)

(* The stack at the ends of the SRAM. *)
StackBottom ==
    Program(<<LDI(16, 98), OUT(\h3D, 16), OUT(\h3E, 2), ST(16, 15), ST(16, 15), ST(16, 15), ST(16, 15),
              INP(17, \h3D), LD(18, 0), SPL, LD(19, 15), LD(20, 15), INP(21, SREGio), BREAK>>, All,
            Expect({<<17, 94>>, <<18, 94>>, <<19, 0>>, <<20, 98>>, <<21, 0>>, <<96, 98>>, <<98, 98>>}), 20)
StackTop ==
    Program(<<LD(16, 15), INP(17, \h3D), BREAK>>, All, Expect({<<16, 255>>, <<17, DataSize % 256>>}), 4)

(* Programs that stop for other reasons: sleep, and what a variant lacks. *)
Stops == { Program(<<SLEEP>>, All, <<>>, 1), Program(<<NOP, MUL(0, 1)>>, {}, <<>>, 1),
           Program(<<NOP, JMP, 0>>, {"MOVW", "LPM_RD", "ADIW"}, <<>>, 1) }

Words == {0, 1, \hFF, \h1234, \h7FFF, \h8000, \hFFFF}
Bytes == {0, 1, 127, 128, 255}

MCPrograms ==
         {WordSum(x, y) : x \in Words, y \in Words}
    \cup {WordDifference(x, y) : x \in Words, y \in Words}
    \cup {WordShapes(x, k) : x \in Words, k \in {0, 1, 63}}
    \cup {Bitwise8(x, y) : x \in Bytes, y \in Bytes}
    \cup UNION {Products(x, y) : x \in Bytes, y \in Bytes}
    \cup {CountedLoops(n) : n \in {1, 2, 255}} \cup {NotDelay(n) : n \in {1, 5}}
    \cup {Delay16(n, k) : n \in {1, 257}, k \in {1, 255}}
    \cup {Delay24(n, k) : n \in {1, 258}, k \in {1, 255}}
    \cup {Calls(v) : v \in Bytes} \cup {Pointers(v) : v \in {0, 250}} \cup {Constants(w) : w \in Words}
    \cup {Skips(x, y) : x \in Bytes, y \in Bytes} \cup {Comparison(x, k) : x \in Bytes, k \in Bytes}
    \cup {StackBottom, StackTop} \cup Stops

\* The delay loops of these programs count in registers that differ.
ASSUME CountersAssumption == DistinctCounters
=============================================================================
