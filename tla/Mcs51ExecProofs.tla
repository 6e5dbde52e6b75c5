-------------------------- MODULE Mcs51ExecProofs --------------------------
(***************************************************************************)
(* Proofs about the instructions of the 8051, for all memory sizes and all *)
(* programs.                                                               *)
(*                                                                         *)
(* Types: an operation on a machine gives a machine (lemmas ...Stays), so  *)
(* does the end of a step, hence every instruction.  What the end of a     *)
(* step leaves alone is the relation Keeps, which the two other proofs     *)
(* use too.                                                                *)
(*                                                                         *)
(* Ports: a bit written to port 1 changes the other bits of its latch only *)
(* as reading the pins does.                                               *)
(*                                                                         *)
(* The echo firmware: EchoInv says where each byte on its way stands, and  *)
(* that RI never promises a byte that is not in the ring; each of its      *)
(* instructions, and each step of the host, preserves it.                  *)
(***************************************************************************)
EXTENDS Mcs51Exec, SequenceTheorems, FiniteSetTheorems, TLAPS

\* Membership in an interval whose bounds are names: the provers enumerate
\* one whose bounds are numerals.
LEMMA Interval ==
    ASSUME NEW a \in Int, NEW b \in Int, NEW v
    PROVE  v \in a..b <=> v \in Int /\ a <= v /\ v <= b
  OBVIOUS

\* The types of the machine as inequalities.
LEMMA ByteIs == \A v : v \in Byte <=> v \in Int /\ 0 <= v /\ v <= 255
  <1>1. MaxByte \in Int
    BY DEF MaxByte
  <1>2. \A v : v \in Byte <=> v \in Int /\ 0 <= v /\ v <= MaxByte
    BY <1>1, Interval DEF Byte
  <1> QED
    BY <1>2 DEF MaxByte

LEMMA WordIs == \A v : v \in Word <=> v \in Int /\ 0 <= v /\ v <= 65535
  <1>1. MaxWord \in Int
    BY DEF MaxWord
  <1>2. \A v : v \in Word <=> v \in Int /\ 0 <= v /\ v <= MaxWord
    BY <1>1, Interval DEF Word
  <1> QED
    BY <1>2 DEF MaxWord

LEMMA SfrAddrIs == \A v : v \in SfrAddr <=> v \in Int /\ 128 <= v /\ v <= 255
  <1>1. MaxByte \in Int
    BY DEF MaxByte
  <1>2. \A v : v \in SfrAddr <=> v \in Int /\ 128 <= v /\ v <= MaxByte
    BY <1>1, Interval DEF SfrAddr
  <1> QED
    BY <1>2 DEF MaxByte

\* The uint8_t and uint16_t arithmetic of the code stays in its width.
LEMMA Remainders ==
    /\ \A v \in Int : v % 256 \in Byte /\ v % 65536 \in Word /\ v \div 256 \in Int
    /\ \A v \in Word : v \div 256 \in Byte
    /\ \A v \in Byte : v \in Nat
    /\ \A x, y \in Byte : x * 256 + y \in Word
    /\ \A a \in Byte : ~(a < 128) => a \in SfrAddr
    /\ 0 \in Byte /\ 1 \in Byte /\ 255 \in Byte
  BY ByteIs, WordIs, SfrAddrIs

LEMMA LowByte ==
    ASSUME NEW v \in Int
    PROVE  v % 256 \in Byte
  BY Remainders

LEMMA LowWord ==
    ASSUME NEW v \in Int
    PROVE  v % 65536 \in Word
  BY Remainders

LEMMA ByteIsNat ==
    ASSUME NEW v \in Byte
    PROVE  v \in Nat
  BY Remainders
-----------------------------------------------------------------------------
(***************************************************************************)
(* Bits of a byte.                                                         *)
(***************************************************************************)
\* The eight bits of a number, the powers of two worked out.
LEMMA BitsOfByte ==
    ASSUME NEW v \in Nat
    PROVE  /\ BitOf(v, 0) = v % 2         /\ BitOf(v, 1) = (v \div 2) % 2
           /\ BitOf(v, 2) = (v \div 4) % 2  /\ BitOf(v, 3) = (v \div 8) % 2
           /\ BitOf(v, 4) = (v \div 16) % 2 /\ BitOf(v, 5) = (v \div 32) % 2
           /\ BitOf(v, 6) = (v \div 64) % 2 /\ BitOf(v, 7) = (v \div 128) % 2
  <1>1. 2^0 = 1 /\ 2^1 = 2 /\ 2^2 = 4 /\ 2^3 = 8 /\ 2^4 = 16 /\ 2^5 = 32 /\ 2^6 = 64 /\ 2^7 = 128
    OBVIOUS
  <1>2. v \div 1 = v
    OBVIOUS
  <1> QED
    BY <1>1, <1>2 DEF BitOf

\* A bit is 0 or 1.
LEMMA BitIsBit ==
    ASSUME NEW v \in Nat, NEW k \in 0..7
    PROVE  BitOf(v, k) \in 0..1
  <1>1. k = 0 \/ k = 1 \/ k = 2 \/ k = 3 \/ k = 4 \/ k = 5 \/ k = 6 \/ k = 7
    OBVIOUS
  <1>2. /\ v % 2 \in 0..1 /\ (v \div 2) % 2 \in 0..1 /\ (v \div 4) % 2 \in 0..1
        /\ (v \div 8) % 2 \in 0..1 /\ (v \div 16) % 2 \in 0..1 /\ (v \div 32) % 2 \in 0..1
        /\ (v \div 64) % 2 \in 0..1 /\ (v \div 128) % 2 \in 0..1
    OBVIOUS
  <1>3. /\ BitOf(v, 0) \in 0..1 /\ BitOf(v, 1) \in 0..1 /\ BitOf(v, 2) \in 0..1 /\ BitOf(v, 3) \in 0..1
        /\ BitOf(v, 4) \in 0..1 /\ BitOf(v, 5) \in 0..1 /\ BitOf(v, 6) \in 0..1 /\ BitOf(v, 7) \in 0..1
    BY <1>2, BitsOfByte
  <1> QED
    BY <1>1, <1>3, Zenon

\* A byte is the sum of its bits.
LEMMA SumOfBits ==
    ASSUME NEW v \in Byte
    PROVE  v = BitOf(v, 0) + 2 * BitOf(v, 1) + 4 * BitOf(v, 2) + 8 * BitOf(v, 3)
               + 16 * BitOf(v, 4) + 32 * BitOf(v, 5) + 64 * BitOf(v, 6) + 128 * BitOf(v, 7)
  <1>1. v = 2 * (v \div 2) + (v % 2)
    BY ByteIs
  <1>2. v \div 2 = 2 * (v \div 4) + ((v \div 2) % 2)
    BY ByteIs
  <1>3. v \div 4 = 2 * (v \div 8) + ((v \div 4) % 2)
    BY ByteIs
  <1>4. v \div 8 = 2 * (v \div 16) + ((v \div 8) % 2)
    BY ByteIs
  <1>5. v \div 16 = 2 * (v \div 32) + ((v \div 16) % 2)
    BY ByteIs
  <1>6. v \div 32 = 2 * (v \div 64) + ((v \div 32) % 2)
    BY ByteIs
  <1>7. v \div 64 = 2 * (v \div 128) + ((v \div 64) % 2)
    BY ByteIs
  <1>8. v \div 128 = (v \div 128) % 2
    BY ByteIs
  <1>9. v \in Nat
    BY ByteIs
  <1>10. v = (v % 2) + 2 * ((v \div 2) % 2) + 4 * ((v \div 4) % 2) + 8 * ((v \div 8) % 2)
             + 16 * ((v \div 16) % 2) + 32 * ((v \div 32) % 2) + 64 * ((v \div 64) % 2)
             + 128 * ((v \div 128) % 2)
    BY <1>1, <1>2, <1>3, <1>4, <1>5, <1>6, <1>7, <1>8, <1>9
  <1>11. PICK a, b, c, d, e, f, g, h :
              /\ a = v % 2 /\ b = (v \div 2) % 2 /\ c = (v \div 4) % 2 /\ d = (v \div 8) % 2
              /\ e = (v \div 16) % 2 /\ f = (v \div 32) % 2 /\ g = (v \div 64) % 2 /\ h = (v \div 128) % 2
    OBVIOUS
  <1>12. v = a + 2 * b + 4 * c + 8 * d + 16 * e + 32 * f + 64 * g + 128 * h
    BY <1>10, <1>11
  <1>13. /\ BitOf(v, 0) = a /\ BitOf(v, 1) = b /\ BitOf(v, 2) = c /\ BitOf(v, 3) = d
         /\ BitOf(v, 4) = e /\ BitOf(v, 5) = f /\ BitOf(v, 6) = g /\ BitOf(v, 7) = h
    BY <1>9, <1>11, BitsOfByte, ZenonT(40)
  <1> QED
    BY <1>12, <1>13, ZenonT(40)

\* The bits of a sum of bits are those bits.
LEMMA BitsOfSum ==
    ASSUME NEW a \in 0..1, NEW b \in 0..1, NEW c \in 0..1, NEW d \in 0..1,
           NEW e \in 0..1, NEW f \in 0..1, NEW g \in 0..1, NEW h \in 0..1,
           NEW v, v = a + 2 * b + 4 * c + 8 * d + 16 * e + 32 * f + 64 * g + 128 * h
    PROVE  /\ v \in Byte
           /\ BitOf(v, 0) = a /\ BitOf(v, 1) = b /\ BitOf(v, 2) = c /\ BitOf(v, 3) = d
           /\ BitOf(v, 4) = e /\ BitOf(v, 5) = f /\ BitOf(v, 6) = g /\ BitOf(v, 7) = h
  <1>1. v \in Byte /\ v \in Nat
    BY ByteIs
  <1>2. v % 2 = a OBVIOUS
  <1>3. (v \div 2) % 2 = b OBVIOUS
  <1>4. (v \div 4) % 2 = c OBVIOUS
  <1>5. (v \div 8) % 2 = d OBVIOUS
  <1>6. (v \div 16) % 2 = e OBVIOUS
  <1>7. (v \div 32) % 2 = f OBVIOUS
  <1>8. (v \div 64) % 2 = g OBVIOUS
  <1>9. (v \div 128) % 2 = h OBVIOUS
  <1>10. BitOf(v, 0) = a /\ BitOf(v, 1) = b /\ BitOf(v, 2) = c /\ BitOf(v, 3) = d
    <2>1. /\ BitOf(v, 0) = v % 2 /\ BitOf(v, 1) = (v \div 2) % 2
          /\ BitOf(v, 2) = (v \div 4) % 2 /\ BitOf(v, 3) = (v \div 8) % 2
      BY <1>1, BitsOfByte, ZenonT(40)
    <2> QED
      BY <1>2, <1>3, <1>4, <1>5, <2>1, ZenonT(40)
  <1>11. BitOf(v, 4) = e /\ BitOf(v, 5) = f /\ BitOf(v, 6) = g /\ BitOf(v, 7) = h
    <2>1. /\ BitOf(v, 4) = (v \div 16) % 2 /\ BitOf(v, 5) = (v \div 32) % 2
          /\ BitOf(v, 6) = (v \div 64) % 2 /\ BitOf(v, 7) = (v \div 128) % 2
      BY <1>1, BitsOfByte, ZenonT(40)
    <2> QED
      BY <1>6, <1>7, <1>8, <1>9, <2>1, ZenonT(40)
  <1> QED
    BY <1>1, <1>10, <1>11, ZenonT(40)

\* ByteOf makes a byte with the bits it is given.
LEMMA BitsOfByteOf ==
    ASSUME NEW f, \A k \in 0..7 : f[k] \in 0..1
    PROVE  /\ ByteOf(f) \in Byte
           /\ \A k \in 0..7 : BitOf(ByteOf(f), k) = f[k]
  <1>1. /\ f[0] \in 0..1 /\ f[1] \in 0..1 /\ f[2] \in 0..1 /\ f[3] \in 0..1
        /\ f[4] \in 0..1 /\ f[5] \in 0..1 /\ f[6] \in 0..1 /\ f[7] \in 0..1
    OBVIOUS
  <1> DEFINE v == ByteOf(f)
  <1>2. v = f[0] + 2 * f[1] + 4 * f[2] + 8 * f[3] + 16 * f[4] + 32 * f[5] + 64 * f[6] + 128 * f[7]
    BY DEF ByteOf
  <1> HIDE DEF v
  <1>3. /\ v \in Byte
        /\ BitOf(v, 0) = f[0] /\ BitOf(v, 1) = f[1] /\ BitOf(v, 2) = f[2] /\ BitOf(v, 3) = f[3]
        /\ BitOf(v, 4) = f[4] /\ BitOf(v, 5) = f[5] /\ BitOf(v, 6) = f[6] /\ BitOf(v, 7) = f[7]
    BY <1>1, <1>2, BitsOfSum
  <1>4. \A k \in 0..7 : k = 0 \/ k = 1 \/ k = 2 \/ k = 3 \/ k = 4 \/ k = 5 \/ k = 6 \/ k = 7
    OBVIOUS
  <1>5. v \in Byte /\ \A k \in 0..7 : BitOf(v, k) = f[k]
    BY <1>3, <1>4
  <1> QED
    BY <1>5 DEF v

\* Setting or clearing one bit of a byte, as the bit instructions and the flag
\* setters do, gives a byte and leaves the other bits.
LEMMA BitsOfPutBit ==
    ASSUME NEW v \in Byte, NEW k \in 0..7, NEW b \in 0..1
    PROVE  /\ PutBit(v, k, b) \in Byte
           /\ BitOf(PutBit(v, k, b), k) = b
           /\ \A j \in 0..7 \ {k} : BitOf(PutBit(v, k, b), j) = BitOf(v, j)
  <1> DEFINE f == [j \in 0..7 |-> IF j = k THEN b ELSE BitOf(v, j)]
  <1>1. v \in Nat
    BY Remainders
  <1>2. \A j \in 0..7 : f[j] \in 0..1
    BY <1>1, BitIsBit
  <1>3. PutBit(v, k, b) = v + (b - BitOf(v, k)) * 2^k
    BY DEF PutBit
  <1>4. ByteOf(f) = f[0] + 2 * f[1] + 4 * f[2] + 8 * f[3] + 16 * f[4] + 32 * f[5] + 64 * f[6] + 128 * f[7]
    BY DEF ByteOf
  <1>5. /\ BitOf(v, 0) \in Int /\ BitOf(v, 1) \in Int /\ BitOf(v, 2) \in Int /\ BitOf(v, 3) \in Int
        /\ BitOf(v, 4) \in Int /\ BitOf(v, 5) \in Int /\ BitOf(v, 6) \in Int /\ BitOf(v, 7) \in Int
    BY <1>1, BitIsBit
  <1>6. PutBit(v, k, b) = ByteOf(f)
    <2>1. CASE k = 0 BY <2>1, <1>3, <1>4, <1>5, SumOfBits
    <2>2. CASE k = 1 BY <2>2, <1>3, <1>4, <1>5, SumOfBits
    <2>3. CASE k = 2 BY <2>3, <1>3, <1>4, <1>5, SumOfBits
    <2>4. CASE k = 3 BY <2>4, <1>3, <1>4, <1>5, SumOfBits
    <2>5. CASE k = 4 BY <2>5, <1>3, <1>4, <1>5, SumOfBits
    <2>6. CASE k = 5 BY <2>6, <1>3, <1>4, <1>5, SumOfBits
    <2>7. CASE k = 6 BY <2>7, <1>3, <1>4, <1>5, SumOfBits
    <2>8. CASE k = 7 BY <2>8, <1>3, <1>4, <1>5, SumOfBits
    <2> QED
      BY <2>1, <2>2, <2>3, <2>4, <2>5, <2>6, <2>7, <2>8
  <1>7. ByteOf(f) \in Byte /\ \A j \in 0..7 : BitOf(ByteOf(f), j) = f[j]
    <2> HIDE DEF f
    <2> QED BY <1>2, BitsOfByteOf
  <1> QED
    BY <1>6, <1>7
-----------------------------------------------------------------------------
(***************************************************************************)
(* Registers and memories: each operation on a machine gives a machine.    *)
(***************************************************************************)
\* The SFR addresses in decimal, which is how the provers compare them.
LEMMA Addresses ==
    /\ P0 = 128 /\ SP = 129 /\ DPL = 130 /\ DPH = 131 /\ TCON = 136 /\ TMOD = 137
    /\ TL0 = 138 /\ TL1 = 139 /\ TH0 = 140 /\ TH1 = 141 /\ P1 = 144 /\ SCON = 152
    /\ SBUF = 153 /\ P2 = 160 /\ IE = 168 /\ P3 = 176 /\ PSW = 208 /\ ACC = 224 /\ B = 240
  BY DEF P0, SP, DPL, DPH, TCON, TMOD, TL0, TL1, TH0, TH1, P1, SCON, SBUF, P2, IE, P3, PSW, ACC, B

LEMMA PortNumbers == Ports = {128, 144, 160, 176}
  BY Addresses DEF Ports

\* Every SFR has a place in the SFR memory, and addresses are bytes.
LEMMA Ranges ==
    /\ P0 \in SfrAddr /\ SP \in SfrAddr /\ DPL \in SfrAddr /\ DPH \in SfrAddr /\ TCON \in SfrAddr
    /\ TMOD \in SfrAddr /\ TL0 \in SfrAddr /\ TL1 \in SfrAddr /\ TH0 \in SfrAddr /\ TH1 \in SfrAddr
    /\ P1 \in SfrAddr /\ SCON \in SfrAddr /\ SBUF \in SfrAddr /\ P2 \in SfrAddr /\ IE \in SfrAddr
    /\ P3 \in SfrAddr /\ PSW \in SfrAddr /\ ACC \in SfrAddr /\ B \in SfrAddr
    /\ \A a \in Ports : a \in SfrAddr
    /\ \A a \in SfrAddr : a \in Byte
    /\ \A v \in Byte : v \in Word
  BY Addresses, PortNumbers, ByteIs, WordIs, SfrAddrIs

\* The parts of a machine and the widths of what they hold.
LEMMA MachineFields ==
    ASSUME NEW c \in Machine
    PROVE  /\ c.pc \in Word /\ c.state \in {"RUNNING", "BREAK"}
           /\ c.iram \in [Byte -> Byte] /\ c.sfr \in [SfrAddr -> Byte]
           /\ c.xram \in [XramAddr -> Byte] /\ c.pins \in [Ports -> Byte]
           /\ c.rx \in Seq(Byte) /\ c.tx \in Seq(Byte) /\ c.txActive \in BOOLEAN
           /\ \A a \in Byte : c.iram[a] \in Byte
           /\ \A a \in SfrAddr : c.sfr[a] \in Byte
           /\ \A a \in Ports : c.pins[a] \in Byte
  BY DEF Machine

\* Storing a byte at an address leaves a machine: an SFR, the internal RAM, the
\* transmit ring, the program counter.
LEMMA SetSfrStays ==
    ASSUME NEW c \in Machine, NEW a \in SfrAddr, NEW v \in Byte
    PROVE  SetSfr(c, a, v) \in Machine
  BY DEF Machine, SetSfr

LEMMA SetIramStays ==
    ASSUME NEW c \in Machine, NEW a \in Byte, NEW v \in Byte
    PROVE  SetIram(c, a, v) \in Machine
  BY DEF Machine, SetIram

LEMMA TransmitStays ==
    ASSUME NEW c \in Machine, NEW v \in Byte
    PROVE  Transmit(c, v) \in Machine
  <1>1. c.tx \in Seq(Byte)
    BY MachineFields
  <1>2. Append(c.tx, v) \in Seq(Byte)
    BY <1>1
  <1>3. PICK x \in {c.tx, Append(c.tx, v)} : x = IF Len(c.tx) < RingBytes THEN Append(c.tx, v) ELSE c.tx
    OBVIOUS
  <1>4. x \in Seq(Byte)
    BY <1>1, <1>2, <1>3
  <1>5. Transmit(c, v) = [c EXCEPT !.tx = x, !.txActive = TRUE]
    BY <1>3 DEF Transmit
  <1> QED
    BY <1>4, <1>5 DEF Machine

LEMMA SetPcStays ==
    ASSUME NEW c \in Machine, NEW a \in Word
    PROVE  [c EXCEPT !.pc = a] \in Machine
  BY DEF Machine

\* What the registers of a machine hold.
LEMMA SfrIsByte ==
    ASSUME NEW c \in Machine, NEW a \in SfrAddr
    PROVE  Sfr(c, a) \in Byte
  BY DEF Machine, Sfr

LEMMA Registers ==
    ASSUME NEW c \in Machine
    PROVE  /\ A(c) \in Byte /\ Sfr(c, B) \in Byte /\ Sfr(c, PSW) \in Byte /\ Sfr(c, SP) \in Byte
           /\ Carry(c) \in 0..1 /\ Dptr(c) \in Word
           /\ \A n \in 0..7 : RegAddr(c, n) \in Byte
           /\ Top(c) \in Byte
  <1>1. /\ Sfr(c, ACC) \in Byte /\ Sfr(c, B) \in Byte /\ Sfr(c, PSW) \in Byte /\ Sfr(c, SP) \in Byte
        /\ Sfr(c, DPH) \in Byte /\ Sfr(c, DPL) \in Byte
    BY SfrIsByte, Ranges
  <1>2. Carry(c) \in 0..1
    <2>1. Sfr(c, PSW) \in Nat /\ 7 \in 0..7 BY <1>1, Remainders
    <2> QED
      BY <2>1, BitIsBit DEF Carry, CY
  <1>3. Dptr(c) \in Word
    BY <1>1, Remainders DEF Dptr
  <1>4. \A n \in 0..7 : RegAddr(c, n) \in Byte
    BY <1>1, ByteIs DEF RegAddr
  <1>5. Top(c) \in Byte
    BY <1>1, MachineFields DEF Top
  <1> QED
    BY <1>1, <1>2, <1>3, <1>4, <1>5 DEF A

\* Writing the accumulator, a flag or DPTR leaves a machine.
LEMMA SetAStays ==
    ASSUME NEW c \in Machine, NEW v \in Byte
    PROVE  SetA(c, v) \in Machine
  BY SetSfrStays, Ranges DEF SetA

LEMMA SetFlagStays ==
    ASSUME NEW c \in Machine, NEW f \in 0..7, NEW b \in 0..1
    PROVE  SetFlag(c, f, b) \in Machine
  <1>1. Sfr(c, PSW) \in Byte
    BY Registers
  <1>2. PutBit(Sfr(c, PSW), f, b) \in Byte
    BY <1>1, BitsOfPutBit
  <1> QED
    BY <1>2, SetSfrStays, Ranges DEF SetFlag

LEMMA SetDptrStays ==
    ASSUME NEW c \in Machine, NEW v \in Nat
    PROVE  SetDptr(c, v) \in Machine
  <1>1. v % 256 \in Byte
    BY LowByte
  <1>2. (v \div 256) % 256 \in Byte
    <2>1. PICK w \in Int : w = v \div 256
      OBVIOUS
    <2>2. w % 256 \in Byte
      BY LowByte
    <2> QED
      BY <2>1, <2>2
  <1> QED
    BY <1>1, <1>2, SetSfrStays, Ranges DEF SetDptr

\* The bitwise operations of ANL, ORL and XRL give bytes; the first is also what
\* reading a port does with latch and pins.
LEMMA AndIsByte ==
    ASSUME NEW x \in Byte, NEW y \in Byte
    PROVE  /\ And(x, y) \in Byte
           /\ \A k \in 0..7 : BitOf(And(x, y), k) = BitOf(x, k) * BitOf(y, k)
  <1> DEFINE f == [k \in 0..7 |-> BitOf(x, k) * BitOf(y, k)]
  <1>1. x \in Nat /\ y \in Nat
    BY Remainders
  <1>2. \A k \in 0..7 : BitOf(x, k) \in 0..1 /\ BitOf(y, k) \in 0..1
    BY <1>1, BitIsBit
  <1>3. \A m \in 0..1, n \in 0..1 : m * n \in 0..1
    OBVIOUS
  <1>4. \A k \in 0..7 : f[k] \in 0..1
    BY <1>2, <1>3
  <1>5. ByteOf(f) \in Byte /\ \A k \in 0..7 : BitOf(ByteOf(f), k) = f[k]
    <2> HIDE DEF f
    <2> QED BY <1>4, BitsOfByteOf
  <1> QED
    BY <1>5 DEF And

LEMMA OrXorAreBytes ==
    ASSUME NEW x \in Byte, NEW y \in Byte
    PROVE  Or(x, y) \in Byte /\ Xor(x, y) \in Byte
  <1> DEFINE f == [k \in 0..7 |-> IF BitOf(x, k) = 1 THEN 1 ELSE BitOf(y, k)]
             g == [k \in 0..7 |-> (BitOf(x, k) + BitOf(y, k)) % 2]
  <1>1. x \in Nat /\ y \in Nat
    BY Remainders
  <1>2. \A k \in 0..7 : BitOf(x, k) \in 0..1 /\ BitOf(y, k) \in 0..1
    BY <1>1, BitIsBit
  <1>3. \A m \in 0..1, n \in 0..1 : (m + n) % 2 \in 0..1
    OBVIOUS
  <1>4. \A k \in 0..7 : f[k] \in 0..1
    BY <1>2
  <1>5. \A k \in 0..7 : g[k] \in 0..1
    BY <1>2, <1>3
  <1>6. ByteOf(f) \in Byte /\ ByteOf(g) \in Byte
    <2> HIDE DEF f, g
    <2> QED BY <1>4, <1>5, BitsOfByteOf
  <1> QED
    BY <1>6 DEF Or, Xor

\* Every address of program memory reads as a byte, beyond its end too
\* (mcs51_code_read).
LEMMA CodeIsBytes ==
    ASSUME prog \in Programs, NEW a
    PROVE  CodeAt(a) \in Byte
  <1>1. 0 \in Byte /\ 255 \in Byte
    BY ByteIs
  <1>2. a \in DOMAIN prog.code => prog.code[a] \in Byte
    BY ProgramsAssumption
  <1> QED
    BY <1>1, <1>2 DEF CodeAt

LEMMA FetchIsByte ==
    ASSUME prog \in Programs, NEW c, NEW k
    PROVE  Fetch(c, k) \in Byte
  BY CodeIsBytes DEF Fetch

\* mcs51_direct_read and mcs51_direct_write at any direct address: RAM, a port,
\* SBUF or another SFR.
LEMMA DirectReadIsByte ==
    ASSUME NEW c \in Machine, NEW a \in Byte
    PROVE  DirectRead(c, a) \in Byte
  <1>1. CASE a < 128
    <2>1. DirectRead(c, a) = c.iram[a]
      BY <1>1, Addresses, PortNumbers DEF DirectRead
    <2> QED
      BY <2>1, MachineFields
  <1>2. CASE a = SBUF
    <2>1. c.rx # <<>> => Head(c.rx) \in Byte
      BY MachineFields
    <2>2. DirectRead(c, a) = IF c.rx = <<>> THEN 0 ELSE Head(c.rx)
      BY <1>2, Addresses, PortNumbers DEF DirectRead
    <2>3. 0 \in Byte
      BY ByteIs
    <2> QED
      BY <2>1, <2>2, <2>3
  <1>3. CASE a \in Ports
    <2>1. Sfr(c, a) \in Byte /\ c.pins[a] \in Byte
      BY <1>3, SfrIsByte, MachineFields, Ranges
    <2>2. And(Sfr(c, a), c.pins[a]) \in Byte
      BY <2>1, AndIsByte
    <2>3. DirectRead(c, a) = And(Sfr(c, a), c.pins[a])
      BY <1>3, PortNumbers, Addresses DEF DirectRead
    <2> QED
      BY <2>2, <2>3
  <1>4. CASE ~(a < 128) /\ a # SBUF /\ a \notin Ports
    <2>1. DirectRead(c, a) = Sfr(c, a)
      BY <1>4 DEF DirectRead
    <2>2. a \in SfrAddr
      BY <1>4, Remainders
    <2> QED
      BY <2>1, <2>2, SfrIsByte
  <1> QED
    BY <1>1, <1>2, <1>3, <1>4

LEMMA TouchStays ==
    ASSUME NEW c \in Machine, NEW a
    PROVE  Touch(c, a) \in Machine
  <1>1. c.rx # <<>> => Tail(c.rx) \in Seq(Byte)
    BY MachineFields
  <1>2. c.rx # <<>> => [c EXCEPT !.rx = Tail(@)] \in Machine
    BY <1>1, Zenon DEF Machine
  <1> QED
    BY <1>2 DEF Touch

LEMMA DirectWriteStays ==
    ASSUME NEW c \in Machine, NEW a \in Byte, NEW v \in Byte
    PROVE  DirectWrite(c, a, v) \in Machine
  <1>1. a < 128 => SetIram(c, a, v) \in Machine
    BY SetIramStays
  <1>2. ~(a < 128) => SetSfr(c, a, v) \in Machine
    BY SetSfrStays, Remainders
  <1>3. ~(a < 128) => Transmit(SetSfr(c, a, v), v) \in Machine
    BY <1>2, TransmitStays
  <1> QED
    BY <1>1, <1>2, <1>3, Addresses DEF DirectWrite

\* Bit numbers, and the byte a bit address lies in.
LEMMA SmallNumbers ==
    /\ \A b \in Byte : b % 8 \in 0..7
    /\ \A b \in Byte : ByteOfBit(b) \in Byte
    /\ PF \in 0..7 /\ OV \in 0..7 /\ AC \in 0..7 /\ CY \in 0..7 /\ TR0 \in 0..7 /\ TF0 \in 0..7
    /\ TR1 \in 0..7 /\ TF1 \in 0..7 /\ RI \in 0..7 /\ TI \in 0..7 /\ REN \in 0..7
    /\ RI # TI
    /\ \A p : Truth(p) \in 0..1
  <1>1. \A b \in Byte : b % 8 \in 0..7
    BY ByteIs
  <1>2. \A b \in Byte : ByteOfBit(b) \in Byte
    BY ByteIs DEF ByteOfBit
  <1> QED
    BY <1>1, <1>2 DEF PF, OV, AC, CY, TR0, TF0, TR1, TF1, RI, TI, REN, Truth

\* mcs51_bit_read and mcs51_bit_write at any bit address.
LEMMA BitReadIsBit ==
    ASSUME NEW c \in Machine, NEW b \in Byte
    PROVE  BitRead(c, b) \in 0..1
  <1>1. ByteOfBit(b) \in Byte /\ b % 8 \in 0..7
    BY SmallNumbers
  <1>2. DirectRead(c, ByteOfBit(b)) \in Byte
    BY <1>1, DirectReadIsByte
  <1>3. DirectRead(c, ByteOfBit(b)) \in Nat
    BY <1>2, ByteIsNat
  <1> QED
    BY <1>1, <1>3, BitIsBit DEF BitRead

LEMMA BitWriteStays ==
    ASSUME NEW c \in Machine, NEW b \in Byte, NEW v \in 0..1
    PROVE  BitWrite(c, b, v) \in Machine
  <1>1. ByteOfBit(b) \in Byte /\ b % 8 \in 0..7
    BY SmallNumbers
  <1>2. DirectRead(c, ByteOfBit(b)) \in Byte
    BY <1>1, DirectReadIsByte
  <1>3. PutBit(DirectRead(c, ByteOfBit(b)), b % 8, v) \in Byte
    BY <1>1, <1>2, BitsOfPutBit
  <1> QED
    BY <1>1, <1>3, DirectWriteStays DEF BitWrite

\* External RAM reads as a byte and takes one, also beyond its end.
LEMMA XdataStays ==
    ASSUME NEW c \in Machine, NEW a \in Word, NEW v \in Byte
    PROVE  XdataRead(c, a) \in Byte /\ XdataWrite(c, a, v) \in Machine
  <1>1. 255 \in Byte
    BY Remainders
  <1>2. XramSize \in Int
    BY MemoryAssumption
  <1>3. a < XramSize => a \in XramAddr
    BY <1>2, WordIs, Interval DEF XramAddr
  <1>4. a < XramSize => c.xram[a] \in Byte /\ [c EXCEPT !.xram[a] = v] \in Machine
    BY <1>3 DEF Machine
  <1> QED
    BY <1>1, <1>4 DEF XdataRead, XdataWrite

\* The stack wraps within the internal RAM: SP is a byte.
LEMMA PushStays ==
    ASSUME NEW c \in Machine, NEW v \in Byte
    PROVE  Push(c, v) \in Machine
  <1> DEFINE sp == (Sfr(c, SP) + 1) % 256
  <1>1. Sfr(c, SP) \in Byte
    BY Registers
  <1>2. sp \in Byte
    BY <1>1, ByteIs
  <1>3. Push(c, v) = SetIram(SetSfr(c, SP, sp), sp, v)
    BY DEF Push
  <1> HIDE DEF sp
  <1>4. SetSfr(c, SP, sp) \in Machine
    BY <1>2, SetSfrStays, Ranges
  <1> QED
    BY <1>2, <1>3, <1>4, SetIramStays

LEMMA PopStays ==
    ASSUME NEW c \in Machine
    PROVE  Pop(c) \in Machine
  <1>1. Sfr(c, SP) \in Byte
    BY Registers
  <1>2. (Sfr(c, SP) - 1) % 256 \in Byte
    BY <1>1, ByteIs
  <1> QED
    BY <1>2, SetSfrStays, Ranges DEF Pop

\* The operand named by the low digit of an opcode.
LEMMA PlaceIsByte ==
    ASSUME NEW c \in Machine, NEW lo \in 6..15
    PROVE  Place(c, lo) \in Byte
  <1>1. CASE lo \in 6..7
    <2>1. lo - 6 \in 0..7
      BY <1>1
    <2>2. RegAddr(c, lo - 6) \in Byte
      BY <2>1, Registers
    <2>3. Place(c, lo) = c.iram[RegAddr(c, lo - 6)]
      BY <1>1 DEF Place
    <2> QED
      BY <2>2, <2>3, MachineFields
  <1>2. CASE lo \in 8..15
    <2>1. lo - 8 \in 0..7
      BY <1>2
    <2>2. RegAddr(c, lo - 8) \in Byte
      BY <2>1, Registers
    <2>3. Place(c, lo) = RegAddr(c, lo - 8)
      BY <1>2 DEF Place
    <2> QED
      BY <2>2, <2>3
  <1> QED
    BY <1>1, <1>2

LEMMA OperandStays ==
    ASSUME prog \in Programs, NEW c \in Machine
    PROVE  /\ \A lo \in 4..15 : Read(c, lo) \in Byte
           /\ \A lo \in 4..15 : AfterRead(c, lo) \in Machine
           /\ \A lo \in 5..15, v \in Byte : Write(c, lo, v) \in Machine
  <1>1. Fetch(c, 1) \in Byte
    BY FetchIsByte
  <1>2. \A lo \in 6..15 : Place(c, lo) \in Byte
    BY PlaceIsByte
  <1>3. ASSUME NEW lo \in 4..15 PROVE Read(c, lo) \in Byte
    <2>1. CASE lo = 4 BY <2>1, <1>1 DEF Read
    <2>2. CASE lo = 5 BY <2>2, <1>1, DirectReadIsByte DEF Read
    <2>3. CASE lo \in 6..15
      <3>1. Read(c, lo) = c.iram[Place(c, lo)]
        BY <2>3 DEF Read
      <3> QED
        BY <3>1, <2>3, <1>2, MachineFields
    <2> QED
      BY <2>1, <2>2, <2>3
  <1>4. ASSUME NEW lo \in 4..15 PROVE AfterRead(c, lo) \in Machine
    BY TouchStays DEF AfterRead
  <1>5. ASSUME NEW lo \in 5..15, NEW v \in Byte PROVE Write(c, lo, v) \in Machine
    <2>1. CASE lo = 5
      <3>1. Write(c, lo, v) = DirectWrite(c, Fetch(c, 1), v)
        BY <2>1 DEF Write
      <3>2. DirectWrite(c, Fetch(c, 1), v) \in Machine
        BY <1>1, DirectWriteStays
      <3> QED
        BY <3>1, <3>2
    <2>2. CASE lo \in 6..15
      <3>1. Write(c, lo, v) = SetIram(c, Place(c, lo), v)
        BY <2>2 DEF Write
      <3>2. Place(c, lo) \in Byte
        BY <2>2, <1>2
      <3>3. SetIram(c, Place(c, lo), v) \in Machine
        BY <3>2, SetIramStays
      <3> QED
        BY <3>1, <3>3
    <2> QED
      BY <2>1, <2>2
  <1> QED
    BY <1>3, <1>4, <1>5

\* The program counter stays a uint16_t, across either end of memory.
LEMMA AdvanceStays ==
    ASSUME NEW c \in Machine, NEW n \in Int
    PROVE  Advance(c, n) \in Machine
  <1>1. (c.pc + n) % 65536 \in Word
    <2>1. c.pc \in Int
      BY MachineFields, WordIs
    <2>2. PICK m \in Int : m = c.pc + n
      BY <2>1
    <2>3. m % 65536 \in Word
      BY LowWord
    <2> QED
      BY <2>2, <2>3
  <1> QED
    BY <1>1, SetPcStays DEF Advance

LEMMA BranchStays ==
    ASSUME prog \in Programs, NEW c \in Machine, NEW n \in Int, NEW taken
    PROVE  Branch(c, n, taken) \in Machine
  <1>1. Fetch(c, n - 1) \in Byte
    BY FetchIsByte
  <1>2. Signed(Fetch(c, n - 1)) \in Int
    BY <1>1, ByteIs DEF Signed
  <1>3. n + (IF taken THEN Signed(Fetch(c, n - 1)) ELSE 0) \in Int
    BY <1>2
  <1> QED
    BY <1>3, AdvanceStays DEF Branch
-----------------------------------------------------------------------------
(***************************************************************************)
(* The end of a step: parity and the ticks of the timers.                  *)
(***************************************************************************)
\* The SFRs the end of a step may write besides SCON.
Timed == {PSW, TCON, TL0, TL1, TH0, TH1}

\* What no tick and no parity changes: d may differ from c in the counters, in
\* the flags of TCON and PSW, and in TI, never in RI.
Keeps(c, d) ==
    /\ d \in Machine
    /\ d.pc = c.pc /\ d.state = c.state /\ d.iram = c.iram /\ d.xram = c.xram
    /\ d.pins = c.pins /\ d.rx = c.rx /\ d.tx = c.tx
    /\ \A a \in SfrAddr : a \notin Timed /\ a # SCON => d.sfr[a] = c.sfr[a]
    /\ BitOf(d.sfr[SCON], RI) = BitOf(c.sfr[SCON], RI)

\* Keeps is reflexive and transitive.
LEMMA KeepsIt ==
    ASSUME NEW c \in Machine
    PROVE  Keeps(c, c)
  BY DEF Keeps

LEMMA KeepsOn ==
    ASSUME NEW c, NEW d, NEW e, Keeps(c, d), Keeps(d, e)
    PROVE  Keeps(c, e)
  BY DEF Keeps

\* Each write of the ticks to TCON, to a counter or to TI is one that Keeps allows.
LEMMA SetTimedKeeps ==
    ASSUME NEW c \in Machine, NEW a \in Timed, NEW v \in Byte
    PROVE  Keeps(c, SetSfr(c, a, v))
  <1>1. a \in SfrAddr /\ a # SCON
    BY Ranges, Addresses DEF Timed
  <1>2. SetSfr(c, a, v) \in Machine
    BY <1>1, SetSfrStays
  <1> DEFINE d == SetSfr(c, a, v)
  <1>3. /\ d.pc = c.pc /\ d.state = c.state /\ d.iram = c.iram /\ d.xram = c.xram
        /\ d.pins = c.pins /\ d.rx = c.rx /\ d.tx = c.tx
        /\ \A x \in SfrAddr : x # a => d.sfr[x] = c.sfr[x]
    BY DEF SetSfr, Machine
  <1> HIDE DEF d
  <1>4. SCON \in SfrAddr
    BY Ranges
  <1>5. Keeps(c, d)
    BY <1>1, <1>2, <1>3, <1>4 DEF Keeps, d
  <1> QED
    BY <1>5 DEF d

LEMMA RaiseIs ==
    ASSUME NEW c, NEW reg, NEW k, NEW on
    PROVE  \/ Raise(c, reg, k, on) = c
           \/ Raise(c, reg, k, on) = SetSfr(c, reg, PutBit(Sfr(c, reg), k, 1))
  BY Zenon DEF Raise

LEMMA RaiseKeeps ==
    ASSUME NEW c \in Machine, NEW k \in 0..7, NEW on
    PROVE  Keeps(c, Raise(c, TCON, k, on))
  <1>1. Sfr(c, TCON) \in Byte /\ 1 \in 0..1 /\ TCON \in Timed
    BY SfrIsByte, Ranges DEF Timed
  <1>2. PutBit(Sfr(c, TCON), k, 1) \in Byte
    BY <1>1, BitsOfPutBit
  <1>3. Keeps(c, c) /\ Keeps(c, SetSfr(c, TCON, PutBit(Sfr(c, TCON), k, 1)))
    BY <1>1, <1>2, SetTimedKeeps, KeepsIt
  <1> QED
    BY <1>3, RaiseIs, Zenon

LEMMA SentKeeps ==
    ASSUME NEW c \in Machine, NEW on
    PROVE  Keeps(c, [Raise(c, SCON, TI, on) EXCEPT !.txActive = FALSE])
  <1> DEFINE v == PutBit(Sfr(c, SCON), TI, 1)
             d == SetSfr(c, SCON, v)
  <1>1. Sfr(c, SCON) \in Byte /\ 1 \in 0..1 /\ SCON \in SfrAddr
    BY SfrIsByte, Ranges
  <1>2. v \in Byte /\ BitOf(v, RI) = BitOf(Sfr(c, SCON), RI)
    BY <1>1, BitsOfPutBit, SmallNumbers
  <1>3. d \in Machine
    BY <1>1, <1>2, SetSfrStays
  <1>4. /\ d.pc = c.pc /\ d.state = c.state /\ d.iram = c.iram /\ d.xram = c.xram
        /\ d.pins = c.pins /\ d.rx = c.rx /\ d.tx = c.tx
        /\ \A x \in SfrAddr : x # SCON => d.sfr[x] = c.sfr[x]
        /\ d.sfr[SCON] = v
    <2> HIDE DEF v
    <2> QED BY <1>1 DEF SetSfr, Machine
  <1>5. Keeps(c, d)
    <2> HIDE DEF v, d
    <2> QED BY <1>2, <1>3, <1>4 DEF Keeps, Sfr
  <1>6. ASSUME NEW e \in Machine, Keeps(c, e)
        PROVE  Keeps(c, [e EXCEPT !.txActive = FALSE])
    <2> DEFINE f == [e EXCEPT !.txActive = FALSE]
    <2>1. f \in Machine
      BY DEF Machine
    <2>2. /\ f.pc = e.pc /\ f.state = e.state /\ f.iram = e.iram /\ f.xram = e.xram
          /\ f.pins = e.pins /\ f.rx = e.rx /\ f.tx = e.tx /\ f.sfr = e.sfr
      BY DEF Machine
    <2> HIDE DEF f
    <2>3. Keeps(c, f)
      BY <1>6, <2>1, <2>2 DEF Keeps
    <2> QED
      BY <2>3 DEF f
  <1>7. Keeps(c, [c EXCEPT !.txActive = FALSE])
    BY <1>6, KeepsIt
  <1>8. Keeps(c, [d EXCEPT !.txActive = FALSE])
    <2> HIDE DEF v, d
    <2> QED BY <1>3, <1>5, <1>6
  <1>9. Raise(c, SCON, TI, on) = c \/ Raise(c, SCON, TI, on) = d
    <2> QED BY RaiseIs, Zenon
  <1>10. QED
    <2> HIDE DEF d
    <2> QED BY <1>7, <1>8, <1>9, Zenon

\* In every mode of tick_timer both counters stay bytes.
LEMMA CountedBytes ==
    ASSUME NEW tl \in Byte, NEW th \in Byte, NEW mode \in 0..3
    PROVE  Counted(tl, th, mode).tl \in Byte /\ Counted(tl, th, mode).th \in Byte
  <1>1. CASE mode = 0
    <2> DEFINE v == th * 32 + (tl % 32) + 1
    <2>1. v \in Nat /\ v \div 32 \in Int
      BY ByteIs
    <2>2. (tl - (tl % 32)) + (v % 32) \in Byte
      BY <2>1, ByteIs
    <2>3. (v \div 32) % 256 \in Byte
      <3>1. PICK w \in Int : w = v \div 32
        BY <2>1
      <3>2. w % 256 \in Byte
        BY LowByte
      <3> QED
        BY <3>1, <3>2
    <2>4. /\ Counted(tl, th, mode).tl = (tl - (tl % 32)) + (v % 32)
          /\ Counted(tl, th, mode).th = (v \div 32) % 256
      BY <1>1 DEF Counted
    <2> QED
      BY <2>2, <2>3, <2>4, Zenon
  <1>2. CASE mode = 1
    <2> DEFINE v == th * 256 + tl + 1
    <2>1. v \in Int /\ v \div 256 \in Int
      BY ByteIs
    <2>2. v % 256 \in Byte
      BY <2>1, LowByte
    <2>3. (v \div 256) % 256 \in Byte
      <3>1. PICK w \in Int : w = v \div 256
        BY <2>1
      <3>2. w % 256 \in Byte
        BY LowByte
      <3> QED
        BY <3>1, <3>2
    <2>4. /\ Counted(tl, th, mode).tl = v % 256
          /\ Counted(tl, th, mode).th = (v \div 256) % 256
      <3>1. ~(mode = 0)
        BY <1>2
      <3> QED
        BY <1>2, <3>1 DEF Counted
    <2> QED
      BY <2>2, <2>3, <2>4, ZenonT(40)
  <1>3. CASE mode = 2
    <2>1. ~(mode = 0) /\ ~(mode = 1)
      BY <1>3
    <2>2. /\ Counted(tl, th, mode).tl = IF tl = 255 THEN th ELSE tl + 1
          /\ Counted(tl, th, mode).th = th
      BY <1>3, <2>1 DEF Counted
    <2>3. tl # 255 => tl + 1 \in Byte
      BY ByteIs
    <2> QED
      BY <2>2, <2>3
  <1>4. CASE mode = 3
    <2>1. ~(mode = 0) /\ ~(mode = 1) /\ ~(mode = 2)
      BY <1>4
    <2>2. /\ Counted(tl, th, mode).tl = (tl + 1) % 256
          /\ Counted(tl, th, mode).th = th
      BY <1>4, <2>1 DEF Counted
    <2>3. (tl + 1) % 256 \in Byte
      BY ByteIs
    <2> QED
      BY <2>2, <2>3
  <1> QED
    BY <1>1, <1>2, <1>3, <1>4

\* Writing both counters, and then a flag of TCON, keeps the rest.
LEMMA TwoCounters ==
    ASSUME NEW c \in Machine, NEW l \in Timed, NEW h \in Timed, NEW x \in Byte, NEW y \in Byte
    PROVE  Keeps(c, SetSfr(SetSfr(c, l, x), h, y))
  <1> DEFINE d == SetSfr(c, l, x)
  <1>1. Keeps(c, d)
    BY SetTimedKeeps
  <1> HIDE DEF d
  <1>2. d \in Machine
    BY <1>1 DEF Keeps
  <1>3. Keeps(d, SetSfr(d, h, y))
    BY <1>2, SetTimedKeeps
  <1>4. Keeps(c, SetSfr(d, h, y))
    BY <1>1, <1>3, KeepsOn
  <1> QED
    BY <1>4 DEF d

LEMMA ThenRaise ==
    ASSUME NEW c, NEW d, Keeps(c, d), NEW k \in 0..7, NEW on
    PROVE  Keeps(c, Raise(d, TCON, k, on))
  <1>1. d \in Machine
    BY DEF Keeps
  <1>2. Keeps(d, Raise(d, TCON, k, on))
    BY <1>1, RaiseKeeps
  <1> QED
    BY <1>2, KeepsOn

\* A tick of timer 0, the two independent counters of mode 3 included.
LEMMA TickTimer0Keeps ==
    ASSUME NEW c \in Machine
    PROVE  Keeps(c, TickTimer0(c))
  <1> DEFINE mode == Sfr(c, TMOD) % 4
             n == Counted(Sfr(c, TL0), Sfr(c, TH0), mode)
             counted == SetSfr(SetSfr(c, TL0, n.tl), TH0, n.th)
             low == Raise(counted, TCON, TF0, n.over)
             high == Raise(SetSfr(low, TH0, (n.th + 1) % 256), TCON, TF1, n.th = 255)
  <1>1. Sfr(c, TL0) \in Byte /\ Sfr(c, TH0) \in Byte /\ Sfr(c, TMOD) \in Byte
    BY SfrIsByte, Ranges
  <1>2. mode \in 0..3
    BY <1>1, ByteIs
  <1>3. n.tl \in Byte /\ n.th \in Byte
    <2> HIDE DEF mode
    <2> QED BY <1>1, <1>2, CountedBytes
  <1>4. TickTimer0(c) = c \/ TickTimer0(c) = low \/ TickTimer0(c) = high
    BY Zenon DEF TickTimer0
  <1>5. (n.th + 1) % 256 \in Byte
    <2> HIDE DEF n
    <2> QED BY <1>3, ByteIs
  <1> HIDE DEF mode, n
  <1>6. TL0 \in Timed /\ TH0 \in Timed
    BY DEF Timed
  <1>7. Keeps(c, counted)
    BY <1>3, <1>6, TwoCounters
  <1> HIDE DEF counted
  <1>8. Keeps(c, low)
    BY <1>7, ThenRaise, SmallNumbers
  <1> HIDE DEF low
  <1>9. low \in Machine
    BY <1>8 DEF Keeps
  <1>10. Keeps(c, SetSfr(low, TH0, (n.th + 1) % 256))
    BY <1>5, <1>6, <1>8, <1>9, SetTimedKeeps, KeepsOn
  <1>11. Keeps(c, high)
    BY <1>10, ThenRaise, SmallNumbers
  <1>12. Keeps(c, c)
    BY KeepsIt
  <1> HIDE DEF high
  <1> QED
    BY <1>4, <1>8, <1>11, <1>12, Zenon

\* A tick of timer 1, which may end a transmission and set TI.
LEMMA TickTimer1Keeps ==
    ASSUME NEW c \in Machine
    PROVE  Keeps(c, TickTimer1(c))
  <1> DEFINE mode == (Sfr(c, TMOD) \div 16) % 4
             n == Counted(Sfr(c, TL1), Sfr(c, TH1), mode)
             counted == SetSfr(SetSfr(c, TL1, n.tl), TH1, n.th)
             on == Raise(counted, TCON, TF1, n.over)
             sent == [Raise(on, SCON, TI, c.txActive) EXCEPT !.txActive = FALSE]
  <1>1. Sfr(c, TL1) \in Byte /\ Sfr(c, TH1) \in Byte /\ Sfr(c, TMOD) \in Byte
    BY SfrIsByte, Ranges
  <1>2. mode \in 0..3
    BY <1>1, ByteIs
  <1>3. n.tl \in Byte /\ n.th \in Byte
    <2> HIDE DEF mode
    <2> QED BY <1>1, <1>2, CountedBytes
  <1>4. TickTimer1(c) = c \/ TickTimer1(c) = on \/ TickTimer1(c) = sent
    BY Zenon DEF TickTimer1
  <1> HIDE DEF mode, n
  <1>5. TL1 \in Timed /\ TH1 \in Timed
    BY DEF Timed
  <1>6. Keeps(c, counted)
    BY <1>3, <1>5, TwoCounters
  <1> HIDE DEF counted
  <1>7. Keeps(c, on)
    BY <1>6, ThenRaise, SmallNumbers
  <1> HIDE DEF on
  <1>8. on \in Machine
    BY <1>7 DEF Keeps
  <1>9. Keeps(on, sent)
    BY <1>8, SentKeeps
  <1> HIDE DEF sent
  <1>10. Keeps(c, sent) /\ Keeps(c, c)
    BY <1>7, <1>9, KeepsOn, KeepsIt
  <1> QED
    BY <1>4, <1>7, <1>10, Zenon

\* Ticks of both timers, and any number of them one after the other.
LEMMA TickKeeps ==
    ASSUME NEW c, NEW d, Keeps(c, d)
    PROVE  Keeps(c, Tick(d))
  <1>1. d \in Machine
    BY DEF Keeps
  <1>2. Keeps(d, TickTimer0(d))
    BY <1>1, TickTimer0Keeps
  <1>3. TickTimer0(d) \in Machine
    BY <1>2 DEF Keeps
  <1>4. Keeps(TickTimer0(d), Tick(d))
    BY <1>3, TickTimer1Keeps DEF Tick
  <1> QED
    BY <1>2, <1>4, KeepsOn

\* The parity of the accumulator is written to PSW alone.
LEMMA ParityKeeps ==
    ASSUME NEW c \in Machine
    PROVE  Keeps(c, Parity(c))
  <1> DEFINE odd == Cardinality({k \in 0..7 : BitOf(A(c), k) = 1}) % 2
  <1>1. odd \in 0..1
    <2> DEFINE S == {k \in 0..7 : BitOf(A(c), k) = 1}
    <2>1. IsFiniteSet(S)
      <3>1. IsFiniteSet(0..7)
        <4>1. 0 \in Int /\ 7 \in Int
          OBVIOUS
        <4> QED
          BY <4>1, FS_Interval
      <3>2. S \in SUBSET (0..7)
        OBVIOUS
      <3> QED
        BY <3>1, <3>2, FS_Subset
    <2>2. Cardinality(S) \in Nat
      BY <2>1, FS_CardinalityType
    <2> HIDE DEF S
    <2>3. Cardinality(S) % 2 \in 0..1
      BY <2>2
    <2> QED
      BY <2>3 DEF S
  <1>2. Sfr(c, PSW) \in Byte /\ PSW \in Timed /\ PF \in 0..7
    BY Registers, SmallNumbers DEF Timed
  <1> HIDE DEF odd
  <1>3. PutBit(Sfr(c, PSW), PF, odd) \in Byte
    BY <1>1, <1>2, BitsOfPutBit
  <1>4. Keeps(c, SetFlag(c, PF, odd))
    BY <1>2, <1>3, SetTimedKeeps DEF SetFlag
  <1> QED
    BY <1>4 DEF Parity, odd

\* What mcs51_cpu_step does after the instruction keeps all but the time, the
\* flags and TI, whatever the number of cycles.
LEMMA CompletesKeeps ==
    ASSUME NEW c \in Machine, NEW cycles \in {1, 2, 4}, Completes(c, cycles)
    PROVE  Keeps(c, cpu')
  <1> DEFINE one == Tick(Parity(c))
             two == Tick(one)
  <1>1. cpu' = CASE cycles = 1 -> one [] cycles = 2 -> two [] cycles = 4 -> Tick(Tick(two))
    BY Zenon DEF Completes
  <1>2. Keeps(c, Parity(c))
    BY ParityKeeps
  <1>3. Keeps(c, one)
    BY <1>2, TickKeeps
  <1>4. Keeps(c, two)
    <2> HIDE DEF one
    <2> QED BY <1>3, TickKeeps
  <1>5. Keeps(c, Tick(Tick(two)))
    <2> HIDE DEF two
    <2> QED BY <1>4, TickKeeps
  <1> HIDE DEF one, two
  <1>6. cpu' = one \/ cpu' = two \/ cpu' = Tick(Tick(two))
    BY <1>1
  <1> QED
    BY <1>3, <1>4, <1>5, <1>6, Zenon
-----------------------------------------------------------------------------
(***************************************************************************)
(* The instructions, group by group.                                       *)
(***************************************************************************)
\* An instruction that makes a machine leaves the types, however it goes on: to
\* the next one, to an absolute address, to a relative one.
LEMMA RetireStays ==
    ASSUME TypeOK, NEW c \in Machine, NEW cycles \in {1, 2, 4}, Retire(c, cycles)
    PROVE  TypeOK'
  <1>1. Keeps(c, cpu')
    BY CompletesKeeps DEF Retire
  <1>2. cpu' \in Machine
    BY <1>1 DEF Keeps
  <1>3. prog' = prog /\ host' = host
    BY DEF Retire
  <1> QED
    BY <1>2, <1>3 DEF TypeOK

LEMMA GoesOn ==
    ASSUME TypeOK, NEW c \in Machine, NEW n \in Int, NEW cycles \in {1, 2, 4},
           Retire(Advance(c, n), cycles)
    PROVE  TypeOK'
  BY AdvanceStays, RetireStays

LEMMA Jumps ==
    ASSUME TypeOK, NEW c \in Machine, NEW a \in Word, NEW cycles \in {1, 2, 4},
           Retire([c EXCEPT !.pc = a], cycles)
    PROVE  TypeOK'
  BY SetPcStays, RetireStays

LEMMA Branches ==
    ASSUME TypeOK, NEW c \in Machine, NEW n \in Int, NEW taken, NEW cycles \in {1, 2, 4},
           Retire(Branch(c, n, taken), cycles)
    PROVE  TypeOK'
  <1>1. Branch(c, n, taken) \in Machine
    BY BranchStays DEF TypeOK
  <1> QED
    BY <1>1, RetireStays

\* The instruction under the program counter and its operands.
LEMMA Here ==
    ASSUME TypeOK
    PROVE  /\ cpu \in Machine /\ prog \in Programs /\ cpu.pc \in Word
           /\ Op \in Byte /\ Arg1 \in Byte /\ Arg2 \in Byte
           /\ A(cpu) \in Byte /\ Sfr(cpu, B) \in Byte /\ Sfr(cpu, PSW) \in Byte
           /\ Carry(cpu) \in 0..1 /\ Dptr(cpu) \in Word /\ Top(cpu) \in Byte
           /\ Lo \in 0..15
  <1>1. cpu \in Machine /\ prog \in Programs
    BY DEF TypeOK
  <1>2. Op \in Byte /\ Arg1 \in Byte /\ Arg2 \in Byte
    BY <1>1, FetchIsByte DEF Op, Arg1, Arg2
  <1>3. Lo \in 0..15
    BY <1>2, ByteIs DEF Lo
  <1> QED
    BY <1>1, <1>2, <1>3, Registers, MachineFields

\* AJMP and ACALL stay within the address space.
LEMMA PageAddrIsWord ==
    ASSUME TypeOK
    PROVE  PageAddr \in Word
  <1>1. cpu.pc \in Int
    BY Here, WordIs
  <1>2. PICK p \in 0..31 : (((cpu.pc + 2) % 65536) \div 2048) = p
    BY <1>1
  <1>3. PICK q \in 0..7 : Op \div 32 = q
    BY Here, ByteIs
  <1>4. PageAddr = p * 2048 + q * 256 + Arg1
    BY <1>2, <1>3 DEF PageAddr
  <1> QED
    BY <1>4, Here, ByteIs, WordIs

\* NOP and the jumps.
LEMMA JumpsStay ==
    ASSUME TypeOK, Nop \/ Ajmp \/ Ljmp \/ JmpADptr \/ Sjmp
    PROVE  TypeOK'
  <1>1. CASE Nop BY <1>1, Here, GoesOn DEF Nop
  <1>2. CASE Ajmp BY <1>2, Here, PageAddrIsWord, Jumps DEF Ajmp
  <1>3. CASE Ljmp
    <2>1. Arg1 * 256 + Arg2 \in Word
      BY Here, Remainders
    <2> QED
      BY <1>3, <2>1, Here, Jumps DEF Ljmp
  <1>4. CASE JmpADptr
    <2>1. PICK m \in Int : m = A(cpu) + Dptr(cpu)
      BY Here, ByteIs, WordIs
    <2>2. PICK w \in Word : w = m % 65536
      BY LowWord
    <2>3. Retire([cpu EXCEPT !.pc = w], 2)
      BY <1>4, <2>1, <2>2 DEF JmpADptr
    <2>4. cpu \in Machine /\ 2 \in {1, 2, 4}
      BY Here
    <2> QED
      BY <2>3, <2>4, Jumps
  <1>5. CASE Sjmp
    <2>1. cpu \in Machine /\ prog \in Programs /\ 2 \in Int /\ 2 \in {1, 2, 4}
      BY Here
    <2>2. PICK d : d = Branch(cpu, 2, TRUE)
      OBVIOUS
    <2>3. d \in Machine
      BY <2>1, <2>2, BranchStays
    <2>4. Retire(d, 2)
      BY <1>5, <2>2 DEF Sjmp
    <2> QED
      BY <2>1, <2>3, <2>4, RetireStays
  <1> QED
    BY <1>1, <1>2, <1>3, <1>4, <1>5

\* Calls and returns.
LEMMA CallToStays ==
    ASSUME TypeOK, NEW target \in Word, NEW len \in Int, CallTo(target, len)
    PROVE  TypeOK'
  <1>1. PICK r \in Word : r = (cpu.pc + len) % 65536
    <2>1. PICK m \in Int : m = cpu.pc + len
      BY Here, WordIs
    <2>2. m % 65536 \in Word
      BY LowWord
    <2> QED
      BY <2>1, <2>2
  <1>2. r % 256 \in Byte /\ r \div 256 \in Byte
    BY WordIs, ByteIs
  <1>3. Push(cpu, r % 256) \in Machine
    BY <1>2, Here, PushStays
  <1>4. Push(Push(cpu, r % 256), r \div 256) \in Machine
    BY <1>2, <1>3, PushStays
  <1>5. Pushed(cpu, r) \in Machine
    BY <1>4 DEF Pushed
  <1>6. Retire([Pushed(cpu, r) EXCEPT !.pc = target], 2)
    BY <1>1 DEF CallTo
  <1> QED
    BY <1>5, <1>6, Jumps

LEMMA CallsStay ==
    ASSUME TypeOK, Acall \/ Lcall \/ Return
    PROVE  TypeOK'
  <1>1. CASE Acall BY <1>1, PageAddrIsWord, CallToStays DEF Acall
  <1>2. CASE Lcall
    <2>1. Arg1 * 256 + Arg2 \in Word
      BY Here, Remainders
    <2> QED
      BY <1>2, <2>1, CallToStays DEF Lcall
  <1>3. CASE Return
    <2> DEFINE lower == Pop(cpu)
    <2>1. lower \in Machine
      BY Here, PopStays
    <2>2. Retire([Pop(lower) EXCEPT !.pc = Top(cpu) * 256 + Top(lower)], 2)
      BY <1>3 DEF Return
    <2> HIDE DEF lower
    <2>3. Pop(lower) \in Machine /\ Top(lower) \in Byte
      BY <2>1, PopStays, Registers
    <2>4. Top(cpu) * 256 + Top(lower) \in Word
      BY <2>3, Here, Remainders
    <2> QED
      BY <2>2, <2>3, <2>4, Jumps
  <1> QED
    BY <1>1, <1>2, <1>3

\* Conditional jumps; JBC also writes the bit.
LEMMA BranchesStay ==
    ASSUME TypeOK, JumpOnCarry \/ JumpOnZero \/ JumpOnBit \/ Jbc
    PROVE  TypeOK'
  <1>1. CASE JumpOnCarry BY <1>1, Here, Branches DEF JumpOnCarry
  <1>2. CASE JumpOnZero BY <1>2, Here, Branches DEF JumpOnZero
  <1>3. CASE JumpOnBit BY <1>3, Here, Branches DEF JumpOnBit
  <1>4. CASE Jbc
    <2>1. cpu \in Machine /\ prog \in Programs /\ 3 \in Int /\ Arg1 \in Byte /\ 0 \in 0..1
      BY Here
    <2>2. PICK d : d = Branch(cpu, 3, TRUE)
      OBVIOUS
    <2>3. d \in Machine
      BY <2>1, <2>2, BranchStays
    <2>4. BitWrite(d, Arg1, 0) \in Machine
      BY <2>1, <2>3, BitWriteStays
    <2>5. \/ Retire(BitWrite(d, Arg1, 0), 2)
          \/ Retire(Advance(cpu, 3), 2)
      BY <1>4, <2>2 DEF Jbc
    <2> QED
      BY <2>1, <2>4, <2>5, RetireStays, GoesOn
  <1> QED
    BY <1>1, <1>2, <1>3, <1>4

\* Combinations of flags and a result in the accumulator.
LEMMA FlagsStay ==
    ASSUME NEW c \in Machine, NEW x \in 0..1, NEW y \in 0..1, NEW z \in 0..1, NEW v \in Byte
    PROVE  /\ SetA(SetFlag(c, CY, x), v) \in Machine
           /\ SetFlag(SetA(c, v), CY, x) \in Machine
           /\ SetFlag(SetFlag(c, CY, x), OV, y) \in Machine
           /\ SetA(SetFlag(SetFlag(SetFlag(c, CY, x), AC, y), OV, z), v) \in Machine
  <1>1. CY \in 0..7 /\ AC \in 0..7 /\ OV \in 0..7
    BY SmallNumbers
  <1>2. SetFlag(c, CY, x) \in Machine /\ SetA(c, v) \in Machine
    BY <1>1, SetFlagStays, SetAStays
  <1>3. SetFlag(SetFlag(c, CY, x), AC, y) \in Machine /\ SetFlag(SetFlag(c, CY, x), OV, y) \in Machine
    BY <1>1, <1>2, SetFlagStays
  <1>4. SetFlag(SetFlag(SetFlag(c, CY, x), AC, y), OV, z) \in Machine
    BY <1>1, <1>3, SetFlagStays
  <1> QED
    BY <1>1, <1>2, <1>3, <1>4, SetAStays, SetFlagStays

\* do_add and do_subb: the carries are bits and the result is a byte.
LEMMA SumsStay ==
    ASSUME NEW c \in Machine, NEW b \in Byte, NEW ci \in 0..1
    PROVE  DoAdd(c, b, ci) \in Machine /\ DoSubb(c, b, ci) \in Machine
  <1>1. PICK a \in Byte : a = A(c)
    BY Registers
  <1>2. PICK p \in 0..1 : p = (a + b + ci) \div 256
    BY ByteIs
  <1>3. PICK q \in 0..1 : q = ((a % 128) + (b % 128) + ci) \div 128
    BY ByteIs
  <1>4. PICK r \in Byte : r = (a + b + ci) % 256
    BY ByteIs
  <1>5. PICK h \in 0..1 : h = Truth((a % 16) + (b % 16) + ci > 15)
    BY SmallNumbers
  <1>6. PICK o \in 0..1 : o = (q + p) % 2
    OBVIOUS
  <1>7. DoAdd(c, b, ci) = SetA(SetFlag(SetFlag(SetFlag(c, CY, p), AC, h), OV, o), r)
    BY <1>1, <1>2, <1>3, <1>4, <1>5, <1>6 DEF DoAdd
  <1>8. PICK s \in 0..1 : s = Truth(a < b + ci)
    BY SmallNumbers
  <1>9. PICK t \in 0..1 : t = Truth((a % 128) < (b % 128) + ci)
    BY SmallNumbers
  <1>10. PICK u \in 0..1 : u = Truth((a % 16) < (b % 16) + ci)
    BY SmallNumbers
  <1>11. PICK w \in Byte : w = (a - b - ci) % 256
    BY ByteIs
  <1>12. PICK x \in 0..1 : x = (t + s) % 2
    OBVIOUS
  <1>13. DoSubb(c, b, ci) = SetA(SetFlag(SetFlag(SetFlag(c, CY, s), AC, u), OV, x), w)
    BY <1>1, <1>8, <1>9, <1>10, <1>11, <1>12 DEF DoSubb
  <1> QED
    BY <1>7, <1>13, FlagsStay

\* Instructions on the operand of the low digit.
LEMMA LengthIs ==
    ASSUME NEW lo \in 0..15
    PROVE  Length(lo) \in Int
  BY DEF Length

LEMMA OperatedStays ==
    ASSUME TypeOK, NEW c \in Machine, Operated(c)
    PROVE  TypeOK'
  <1>1. Length(Lo) \in Int /\ 1 \in {1, 2, 4}
    BY Here, LengthIs
  <1>2. Retire(Advance(c, Length(Lo)), 1)
    BY DEF Operated
  <1> QED
    BY <1>1, <1>2, GoesOn

\* Such an operand is read as a byte, and any byte can be written to it.
LEMMA Operands ==
    ASSUME TypeOK
    PROVE  /\ Lo \in 4..15 => Read(cpu, Lo) \in Byte /\ AfterRead(cpu, Lo) \in Machine
           /\ \A lo \in 5..15, v \in Byte, c \in Machine : Write(c, lo, v) \in Machine
  BY Here, OperandStays

\* Rotations and SWAP.
LEMMA RotatesStay ==
    ASSUME TypeOK, RotateRight \/ RotateLeft \/ Swap
    PROVE  TypeOK'
  <1>1. PICK a \in Byte : a = A(cpu)
    BY Here
  <1>2. PICK k \in 0..1 : k = Carry(cpu)
    BY Here
  <1>3. cpu \in Machine /\ 1 \in Int /\ 1 \in {1, 2, 4}
    BY Here
  <1>4. CASE RotateRight
    <2>1. PICK v \in Byte : v = (a \div 2) + 128 * (a % 2)
      BY ByteIs
    <2>2. PICK w \in Byte : w = (a \div 2) + 128 * k
      BY ByteIs
    <2>3. PICK x \in 0..1 : x = a % 2
      BY ByteIs
    <2>4. \/ Retire(Advance(SetA(cpu, v), 1), 1)
          \/ Retire(Advance(SetFlag(SetA(cpu, w), CY, x), 1), 1)
      BY <1>1, <1>2, <1>4, <2>1, <2>2, <2>3 DEF RotateRight
    <2>5. SetA(cpu, v) \in Machine /\ SetFlag(SetA(cpu, w), CY, x) \in Machine
      BY <1>3, SetAStays, FlagsStay
    <2> QED
      BY <1>3, <2>4, <2>5, GoesOn
  <1>5. CASE RotateLeft
    <2>1. PICK v \in Byte : v = ((2 * a) % 256) + (a \div 128)
      BY ByteIs
    <2>2. PICK w \in Byte : w = ((2 * a) % 256) + k
      BY ByteIs
    <2>3. PICK x \in 0..1 : x = a \div 128
      BY ByteIs
    <2>4. \/ Retire(Advance(SetA(cpu, v), 1), 1)
          \/ Retire(Advance(SetFlag(SetA(cpu, w), CY, x), 1), 1)
      BY <1>1, <1>2, <1>5, <2>1, <2>2, <2>3 DEF RotateLeft
    <2>5. SetA(cpu, v) \in Machine /\ SetFlag(SetA(cpu, w), CY, x) \in Machine
      BY <1>3, SetAStays, FlagsStay
    <2> QED
      BY <1>3, <2>4, <2>5, GoesOn
  <1>6. CASE Swap
    <2>1. PICK v \in Byte : v = (a % 16) * 16 + (a \div 16)
      BY ByteIs
    <2>2. Retire(Advance(SetA(cpu, v), 1), 1)
      BY <1>1, <1>6, <2>1 DEF Swap
    <2>3. SetA(cpu, v) \in Machine
      BY <1>3, SetAStays
    <2> QED
      BY <1>3, <2>2, <2>3, GoesOn
  <1> QED
    BY <1>4, <1>5, <1>6

\* INC and DEC, which wrap, and INC DPTR.
LEMMA SteppedStays ==
    ASSUME TypeOK, Lo \in 4..15, NEW d \in {1, -1}
    PROVE  Stepped(d) \in Machine
  <1>1. PICK v \in Byte : v = (A(cpu) + d) % 256
    BY Here, ByteIs
  <1>2. PICK w \in Byte : w = (Read(cpu, Lo) + d) % 256
    BY Operands, ByteIs
  <1>3. Stepped(d) = IF Lo = 4 THEN Advance(SetA(cpu, v), 1)
                     ELSE Advance(Write(AfterRead(cpu, Lo), Lo, w), Length(Lo))
    BY <1>1, <1>2 DEF Stepped
  <1>4. Advance(SetA(cpu, v), 1) \in Machine
    BY Here, SetAStays, AdvanceStays
  <1>5. Lo # 4 => Write(AfterRead(cpu, Lo), Lo, w) \in Machine
    BY Operands
  <1>6. Length(Lo) \in Int
    BY LengthIs
  <1>7. Lo # 4 => Advance(Write(AfterRead(cpu, Lo), Lo, w), Length(Lo)) \in Machine
    BY <1>5, <1>6, AdvanceStays
  <1> QED
    BY <1>3, <1>4, <1>7

LEMMA StepsStay ==
    ASSUME TypeOK, Inc \/ Dec \/ IncDptr
    PROVE  TypeOK'
  <1>1. CASE Inc
    <2>1. Lo \in 4..15 /\ Retire(Stepped(1), 1)
      BY <1>1 DEF Inc, Family
    <2>2. Stepped(1) \in Machine
      BY <2>1, SteppedStays
    <2> QED
      BY <2>1, <2>2, RetireStays
  <1>2. CASE Dec
    <2>1. Lo \in 4..15 /\ Retire(Stepped(-1), 1)
      BY <1>2 DEF Dec, Family
    <2>2. Stepped(-1) \in Machine
      BY <2>1, SteppedStays
    <2> QED
      BY <2>1, <2>2, RetireStays
  <1>3. CASE IncDptr
    <2>1. Dptr(cpu) + 1 \in Nat
      BY Here, WordIs
    <2>2. SetDptr(cpu, Dptr(cpu) + 1) \in Machine
      BY <2>1, Here, SetDptrStays
    <2> QED
      BY <1>3, <2>2, GoesOn DEF IncDptr
  <1> QED
    BY <1>1, <1>2, <1>3

\* ADD, ADDC and SUBB.
LEMMA SumOpsStay ==
    ASSUME TypeOK, Add \/ Addc \/ Subb
    PROVE  TypeOK'
  <1>1. Lo \in 4..15
    BY DEF Add, Addc, Subb, Family
  <1>2. AfterRead(cpu, Lo) \in Machine /\ Read(cpu, Lo) \in Byte /\ Carry(cpu) \in 0..1 /\ 0 \in 0..1
    BY <1>1, Here, Operands
  <1>3. PICK b : b \in Byte /\ b = Read(cpu, Lo)
    BY <1>2
  <1>4. PICK k : k \in 0..1 /\ k = Carry(cpu)
    BY <1>2
  <1>5. /\ DoAdd(AfterRead(cpu, Lo), b, 0) \in Machine
        /\ DoAdd(AfterRead(cpu, Lo), b, k) \in Machine
        /\ DoSubb(AfterRead(cpu, Lo), b, k) \in Machine
    BY <1>2, <1>3, <1>4, SumsStay
  <1>6. \/ Operated(DoAdd(AfterRead(cpu, Lo), b, 0))
        \/ Operated(DoAdd(AfterRead(cpu, Lo), b, k))
        \/ Operated(DoSubb(AfterRead(cpu, Lo), b, k))
    BY <1>3, <1>4 DEF Add, Addc, Subb
  <1> QED
    BY <1>5, <1>6, OperatedStays

\* MUL: the product of two bytes has two bytes.
LEMMA ProductIsWord ==
    ASSUME NEW x \in Byte, NEW y \in Byte
    PROVE  /\ x * y \in Nat /\ (x * y) % 256 \in Byte /\ (x * y) \div 256 \in Byte
  <1>1. x \in Int /\ 0 <= x /\ x <= 255 /\ y \in Int /\ 0 <= y /\ y <= 255
    BY ByteIs
  <1>2. x * y \in Int /\ 0 <= x * y
    BY <1>1
  <1>3. x * y <= 255 * y
    BY <1>1
  <1>4. x * y <= 65025
    BY <1>1, <1>2, <1>3
  <1>5. PICK v \in Int : v = x * y
    BY <1>2
  <1>6. 0 <= v /\ v <= 65025
    BY <1>2, <1>4, <1>5
  <1>7. v \in Nat /\ v % 256 \in Byte /\ v \div 256 \in Byte
    BY <1>6, ByteIs
  <1> QED
    BY <1>5, <1>7

\* DIV: with a divisor other than zero both results are bytes.
LEMMA QuotientIsByte ==
    ASSUME NEW x \in Byte, NEW y \in Byte, y # 0
    PROVE  x \div y \in Byte /\ x % y \in Byte
  <1>1. x \in Int /\ 0 <= x /\ x <= 255 /\ y \in Int /\ 1 <= y /\ y <= 255
    BY ByteIs
  <1>2. x % y \in Int /\ 0 <= x % y /\ x % y < y
    BY <1>1
  <1>3. x \div y \in Int /\ x = y * (x \div y) + (x % y)
    BY <1>1
  <1>4. PICK q \in Int, r \in Int : q = x \div y /\ r = x % y
    BY <1>2, <1>3
  <1>5. x = y * q + r /\ 0 <= r /\ r < y
    BY <1>2, <1>3, <1>4
  <1>6. 0 <= q
    BY <1>1, <1>5
  <1>7. q <= y * q
    BY <1>1, <1>6
  <1>8. q <= 255
    BY <1>1, <1>5, <1>7
  <1>9. q \in Byte /\ r \in Byte
    BY <1>1, <1>5, <1>6, <1>8, ByteIs
  <1> QED
    BY <1>4, <1>9

\* ORL, ANL and XRL in their three forms.
LEMMA LogicStays ==
    ASSUME TypeOK, NEW p \in Byte, NEW q \in Byte, NEW r, Lo \in 4..15 => r \in Byte,
           \/ Retire(Advance(DirectWrite(Touch(cpu, Arg1), Arg1, p), 2), 1)
           \/ Retire(Advance(DirectWrite(Touch(cpu, Arg1), Arg1, q), 3), 2)
           \/ Lo \in 4..15 /\ Operated(SetA(AfterRead(cpu, Lo), r))
    PROVE  TypeOK'
  <1>1. cpu \in Machine /\ Arg1 \in Byte
    BY Here
  <1>2. Touch(cpu, Arg1) \in Machine
    BY <1>1, TouchStays
  <1>3. /\ DirectWrite(Touch(cpu, Arg1), Arg1, p) \in Machine
        /\ DirectWrite(Touch(cpu, Arg1), Arg1, q) \in Machine
    BY <1>1, <1>2, DirectWriteStays
  <1>4. Lo \in 4..15 => SetA(AfterRead(cpu, Lo), r) \in Machine
    BY Operands, SetAStays
  <1> QED
    BY <1>3, <1>4, GoesOn, OperatedStays

LEMMA LogicOpsStay ==
    ASSUME TypeOK, Orl \/ Anl \/ Xrl
    PROVE  TypeOK'
  <1>1. cpu \in Machine /\ Arg1 \in Byte /\ Arg2 \in Byte /\ A(cpu) \in Byte
    BY Here
  <1>2. DirectRead(cpu, Arg1) \in Byte
    BY <1>1, DirectReadIsByte
  <1>3. Lo \in 4..15 => Read(cpu, Lo) \in Byte
    BY Operands
  <1>4. CASE Orl
    <2>1. /\ Or(DirectRead(cpu, Arg1), A(cpu)) \in Byte /\ Or(DirectRead(cpu, Arg1), Arg2) \in Byte
          /\ Lo \in 4..15 => Or(A(cpu), Read(cpu, Lo)) \in Byte
      BY <1>1, <1>2, <1>3, OrXorAreBytes
    <2>2. \/ Retire(Advance(DirectWrite(Touch(cpu, Arg1), Arg1, Or(DirectRead(cpu, Arg1), A(cpu))), 2), 1)
          \/ Retire(Advance(DirectWrite(Touch(cpu, Arg1), Arg1, Or(DirectRead(cpu, Arg1), Arg2)), 3), 2)
          \/ Lo \in 4..15 /\ Operated(SetA(AfterRead(cpu, Lo), Or(A(cpu), Read(cpu, Lo))))
      BY <1>4 DEF Orl, Logic, Family
    <2> QED
      BY <2>1, <2>2, LogicStays
  <1>5. CASE Anl
    <2>1. /\ And(DirectRead(cpu, Arg1), A(cpu)) \in Byte /\ And(DirectRead(cpu, Arg1), Arg2) \in Byte
          /\ Lo \in 4..15 => And(A(cpu), Read(cpu, Lo)) \in Byte
      BY <1>1, <1>2, <1>3, AndIsByte
    <2>2. \/ Retire(Advance(DirectWrite(Touch(cpu, Arg1), Arg1, And(DirectRead(cpu, Arg1), A(cpu))), 2), 1)
          \/ Retire(Advance(DirectWrite(Touch(cpu, Arg1), Arg1, And(DirectRead(cpu, Arg1), Arg2)), 3), 2)
          \/ Lo \in 4..15 /\ Operated(SetA(AfterRead(cpu, Lo), And(A(cpu), Read(cpu, Lo))))
      BY <1>5 DEF Anl, Logic, Family
    <2> QED
      BY <2>1, <2>2, LogicStays
  <1>6. CASE Xrl
    <2>1. /\ Xor(DirectRead(cpu, Arg1), A(cpu)) \in Byte /\ Xor(DirectRead(cpu, Arg1), Arg2) \in Byte
          /\ Lo \in 4..15 => Xor(A(cpu), Read(cpu, Lo)) \in Byte
      BY <1>1, <1>2, <1>3, OrXorAreBytes
    <2>2. \/ Retire(Advance(DirectWrite(Touch(cpu, Arg1), Arg1, Xor(DirectRead(cpu, Arg1), A(cpu))), 2), 1)
          \/ Retire(Advance(DirectWrite(Touch(cpu, Arg1), Arg1, Xor(DirectRead(cpu, Arg1), Arg2)), 3), 2)
          \/ Lo \in 4..15 /\ Operated(SetA(AfterRead(cpu, Lo), Xor(A(cpu), Read(cpu, Lo))))
      BY <1>6 DEF Xrl, Logic, Family
    <2> QED
      BY <2>1, <2>2, LogicStays
  <1> QED
    BY <1>4, <1>5, <1>6

\* MUL, DIV, and DA with its corrections of six.
LEMMA MulDivStay ==
    ASSUME TypeOK, Mul \/ Div \/ DecimalAdjust
    PROVE  TypeOK'
  <1>1. cpu \in Machine /\ 1 \in Int /\ 4 \in {1, 2, 4} /\ 1 \in {1, 2, 4} /\ 0 \in 0..1
        /\ B \in SfrAddr
    BY Here, Ranges
  <1>2. PICK a \in Byte, b \in Byte : a = A(cpu) /\ b = Sfr(cpu, B)
    BY Here
  <1>3. CASE Mul
    <2>1. PICK l \in Byte, h \in Byte : l = (a * b) % 256 /\ h = (a * b) \div 256
      BY ProductIsWord
    <2>2. PICK o \in 0..1 : o = Truth(a * b > 255)
      BY SmallNumbers
    <2>3. SetSfr(SetA(cpu, l), B, h) \in Machine
      BY <1>1, SetAStays, SetSfrStays
    <2>4. SetFlag(SetFlag(SetSfr(SetA(cpu, l), B, h), CY, 0), OV, o) \in Machine
      BY <1>1, <2>3, FlagsStay
    <2>5. Retire(Advance(SetFlag(SetFlag(SetSfr(SetA(cpu, l), B, h), CY, 0), OV, o), 1), 4)
      BY <1>2, <1>3, <2>1, <2>2 DEF Mul
    <2> QED
      BY <1>1, <2>4, <2>5, GoesOn
  <1>4. CASE Div
    <2>1. PICK o \in 0..1 : o = Truth(b = 0)
      BY SmallNumbers
    <2>2. CASE b = 0
      <3>1. SetFlag(SetFlag(cpu, CY, 0), OV, o) \in Machine
        BY <1>1, FlagsStay
      <3>2. Retire(Advance(SetFlag(SetFlag(cpu, CY, 0), OV, o), 1), 4)
        BY <1>2, <1>4, <2>1, <2>2 DEF Div
      <3> QED
        BY <1>1, <3>1, <3>2, GoesOn
    <2>3. CASE b # 0
      <3>1. PICK q \in Byte, r \in Byte : q = a \div b /\ r = a % b
        BY <2>3, QuotientIsByte
      <3>2. SetSfr(SetA(cpu, q), B, r) \in Machine
        BY <1>1, SetAStays, SetSfrStays
      <3>3. SetFlag(SetFlag(SetSfr(SetA(cpu, q), B, r), CY, 0), OV, o) \in Machine
        BY <1>1, <3>2, FlagsStay
      <3>4. Retire(Advance(SetFlag(SetFlag(SetSfr(SetA(cpu, q), B, r), CY, 0), OV, o), 1), 4)
        BY <1>2, <1>4, <2>1, <2>3, <3>1 DEF Div
      <3> QED
        BY <1>1, <3>3, <3>4, GoesOn
    <2> QED
      BY <2>2, <2>3
  <1>5. CASE DecimalAdjust
    <2> DEFINE low == A(cpu) + (IF A(cpu) % 16 > 9 \/ BitOf(Sfr(cpu, PSW), AC) = 1 THEN 6 ELSE 0)
               high == (low % 256) \div 16 > 9 \/ Carry(cpu) = 1 \/ low > 255
               all == low + (IF high THEN 96 ELSE 0)
    <2>1. low \in Int
      BY Here, ByteIs
    <2>2. all \in Int
      <3> HIDE DEF low
      <3> QED BY <2>1
    <2>3. all % 256 \in Byte
      <3> HIDE DEF all
      <3> QED BY <2>2, LowByte
    <2>4. Retire(Advance(SetFlag(SetA(cpu, all % 256), CY, Truth(all > 255 \/ Carry(cpu) = 1)), 1), 1)
      BY <1>5, Zenon DEF DecimalAdjust
    <2> HIDE DEF all
    <2>5. PICK v \in Byte : v = all % 256
      BY <2>3
    <2>6. PICK o \in 0..1 : o = Truth(all > 255 \/ Carry(cpu) = 1)
      BY SmallNumbers
    <2>7. SetFlag(SetA(cpu, v), CY, o) \in Machine
      BY <1>1, FlagsStay
    <2>8. Retire(Advance(SetFlag(SetA(cpu, v), CY, o), 1), 1)
      BY <2>4, <2>5, <2>6, Zenon
    <2> QED
      BY <1>1, <2>7, <2>8, GoesOn
  <1> QED
    BY <1>3, <1>4, <1>5

\* The moves between accumulator, operand and direct address.
LEMMA MovesStay ==
    ASSUME TypeOK, MovImm \/ MovToDirect \/ MovFromDirect \/ MovToA \/ MovFromA \/ ClrA \/ CplA
    PROVE  TypeOK'
  <1>1. /\ cpu \in Machine /\ Arg1 \in Byte /\ Arg2 \in Byte /\ A(cpu) \in Byte
        /\ 1 \in Int /\ 2 \in Int /\ 3 \in Int /\ 1 \in {1, 2, 4} /\ 2 \in {1, 2, 4}
    BY Here
  <1>2. Lo \in 4..15 => Read(cpu, Lo) \in Byte /\ AfterRead(cpu, Lo) \in Machine
    BY Operands
  <1>3. PICK d \in Byte : d = DirectRead(cpu, Arg1)
    BY <1>1, DirectReadIsByte
  <1>4. PICK t \in Machine : t = Touch(cpu, Arg1)
    BY <1>1, TouchStays
  <1>5. ASSUME NEW c \in Machine, NEW a \in Byte, NEW v \in Byte PROVE DirectWrite(c, a, v) \in Machine
    BY DirectWriteStays
  <1>6. ASSUME NEW c \in Machine, NEW v \in Byte, Lo \in 5..15 PROVE Write(c, Lo, v) \in Machine
    <2>1. prog \in Programs
      BY Here
    <2> QED
      BY <1>6, <2>1, OperandStays
  <1>7. ASSUME NEW c \in Machine, NEW v \in Byte PROVE SetA(c, v) \in Machine
    BY SetAStays
  <1>8. CASE MovImm
    <2>1. \/ Retire(Advance(SetA(cpu, Arg1), 2), 1)
          \/ Retire(Advance(DirectWrite(cpu, Arg1, Arg2), 3), 2)
          \/ Lo \in 6..15 /\ Retire(Advance(Write(cpu, Lo, Arg1), 2), 1)
      BY <1>8, Zenon DEF MovImm, Family
    <2>2. SetA(cpu, Arg1) \in Machine /\ DirectWrite(cpu, Arg1, Arg2) \in Machine
      BY <1>1, <1>5, <1>7
    <2>3. Lo \in 6..15 => Write(cpu, Lo, Arg1) \in Machine
      BY <1>1, <1>6
    <2> QED
      BY <1>1, <2>1, <2>2, <2>3, GoesOn
  <1>9. CASE MovToDirect
    <2>1. \/ Retire(Advance(DirectWrite(t, Arg2, d), 3), 2)
          \/ Lo \in 6..15 /\ Retire(Advance(DirectWrite(cpu, Arg1, Read(cpu, Lo)), 2), 2)
      BY <1>3, <1>4, <1>9 DEF MovToDirect, Family
    <2> QED
      BY <1>1, <1>2, <1>5, <2>1, GoesOn
  <1>10. CASE MovFromDirect
    <2>1. Lo \in 6..15 /\ Retire(Advance(Write(t, Lo, d), 2), 2)
      BY <1>3, <1>4, <1>10 DEF MovFromDirect, Family
    <2> QED
      BY <1>1, <1>6, <2>1, GoesOn
  <1>11. CASE MovToA
    <2>1. Lo \in 5..15 /\ Operated(SetA(AfterRead(cpu, Lo), Read(cpu, Lo)))
      BY <1>11 DEF MovToA, Family
    <2> QED
      BY <1>2, <1>7, <2>1, OperatedStays
  <1>12. CASE MovFromA
    <2>1. Lo \in 5..15 /\ Operated(Write(cpu, Lo, A(cpu)))
      BY <1>12 DEF MovFromA, Family
    <2> QED
      BY <1>1, <1>6, <2>1, OperatedStays
  <1>13. CASE ClrA
    <2>1. 0 \in Byte
      BY Remainders
    <2> QED
      BY <1>1, <1>7, <1>13, <2>1, GoesOn DEF ClrA
  <1>14. CASE CplA
    <2>1. PICK v \in Byte : v = 255 - A(cpu)
      BY <1>1, ByteIs
    <2>2. Retire(Advance(SetA(cpu, v), 1), 1)
      BY <1>14, <2>1 DEF CplA
    <2> QED
      BY <1>1, <1>7, <2>2, GoesOn
  <1> QED
    BY <1>8, <1>9, <1>10, <1>11, <1>12, <1>13, <1>14

\* DPTR, and the memories addressed by it.
LEMMA PointersStay ==
    ASSUME TypeOK, MovDptr \/ Movc \/ MovxRead \/ MovxWrite
    PROVE  TypeOK'
  <1>1. /\ cpu \in Machine /\ Arg1 \in Byte /\ Arg2 \in Byte /\ A(cpu) \in Byte
        /\ 1 \in Int /\ 3 \in Int /\ 2 \in {1, 2, 4}
    BY Here
  <1>2. CASE MovDptr
    <2>1. Arg1 * 256 + Arg2 \in Nat
      BY <1>1, ByteIs
    <2>2. SetDptr(cpu, Arg1 * 256 + Arg2) \in Machine
      BY <1>1, <2>1, SetDptrStays
    <2> QED
      BY <1>1, <1>2, <2>2, GoesOn DEF MovDptr
  <1>3. CASE Movc
    <2>1. PICK v \in Byte, w \in Byte : /\ v = CodeAt((A(cpu) + cpu.pc + 1) % 65536)
                                        /\ w = CodeAt((A(cpu) + Dptr(cpu)) % 65536)
      BY CodeIsBytes, Here
    <2>2. \/ Retire(Advance(SetA(cpu, v), 1), 2)
          \/ Retire(Advance(SetA(cpu, w), 1), 2)
      BY <1>3, <2>1 DEF Movc
    <2>3. SetA(cpu, v) \in Machine /\ SetA(cpu, w) \in Machine
      BY <1>1, SetAStays
    <2> QED
      BY <1>1, <2>2, <2>3, GoesOn
  <1>4. ASSUME MovxRead \/ MovxWrite PROVE XAddr \in Word
    <2>1. Op \in {224, 226, 227, 240, 242, 243}
      BY <1>4 DEF MovxRead, MovxWrite, Opcode
    <2>2. Lo # 0 => Lo - 2 \in 0..7
      BY <2>1, Here DEF Lo
    <2>3. Lo # 0 => RegAddr(cpu, Lo - 2) \in Byte
      BY <1>1, <2>2, Registers
    <2>4. Lo # 0 => cpu.iram[RegAddr(cpu, Lo - 2)] \in Byte
      BY <1>1, <2>3, MachineFields
    <2> QED
      BY <2>4, Here, Ranges DEF XAddr
  <1>5. CASE MovxRead
    <2>1. XdataRead(cpu, XAddr) \in Byte
      BY <1>1, <1>4, <1>5, XdataStays
    <2>2. SetA(cpu, XdataRead(cpu, XAddr)) \in Machine
      BY <1>1, <2>1, SetAStays
    <2> QED
      BY <1>1, <1>5, <2>2, GoesOn DEF MovxRead
  <1>6. CASE MovxWrite
    <2>1. XdataWrite(cpu, XAddr, A(cpu)) \in Machine
      BY <1>1, <1>4, <1>6, XdataStays
    <2> QED
      BY <1>1, <1>6, <2>1, GoesOn DEF MovxWrite
  <1> QED
    BY <1>2, <1>3, <1>5, <1>6

\* PUSH, POP, XCH and XCHD.
LEMMA StackAndExchangeStay ==
    ASSUME TypeOK, PushDirect \/ PopDirect \/ Xch \/ Xchd
    PROVE  TypeOK'
  <1>1. /\ cpu \in Machine /\ Arg1 \in Byte /\ A(cpu) \in Byte /\ prog \in Programs
        /\ 2 \in Int /\ 2 \in {1, 2, 4}
    BY Here
  <1>2. Lo \in 4..15 => Read(cpu, Lo) \in Byte /\ AfterRead(cpu, Lo) \in Machine
    BY Operands
  <1>3. ASSUME NEW c \in Machine, NEW v \in Byte, Lo \in 5..15 PROVE Write(c, Lo, v) \in Machine
    BY <1>1, <1>3, OperandStays
  <1>4. CASE PushDirect
    <2>1. Push(Touch(cpu, Arg1), DirectRead(cpu, Arg1)) \in Machine
      BY <1>1, TouchStays, DirectReadIsByte, PushStays
    <2> QED
      BY <1>1, <1>4, <2>1, GoesOn DEF PushDirect
  <1>5. CASE PopDirect
    <2>1. Pop(cpu) \in Machine /\ Top(cpu) \in Byte
      BY <1>1, Here, PopStays
    <2>2. DirectWrite(Pop(cpu), Arg1, Top(cpu)) \in Machine
      BY <1>1, <2>1, DirectWriteStays
    <2> QED
      BY <1>1, <1>5, <2>2, GoesOn DEF PopDirect
  <1>6. CASE Xch
    <2>1. Lo \in 5..15 /\ Operated(SetA(Write(AfterRead(cpu, Lo), Lo, A(cpu)), Read(cpu, Lo)))
      BY <1>6 DEF Xch, Family
    <2>2. Write(AfterRead(cpu, Lo), Lo, A(cpu)) \in Machine
      BY <1>1, <1>2, <1>3, <2>1
    <2>3. SetA(Write(AfterRead(cpu, Lo), Lo, A(cpu)), Read(cpu, Lo)) \in Machine
      BY <1>2, <2>1, <2>2, SetAStays
    <2> QED
      BY <2>1, <2>3, OperatedStays
  <1>7. CASE Xchd
    <2>1. Lo \in 6..7
      BY <1>7 DEF Xchd, Family
    <2>2. PICK m \in Byte : m = Read(cpu, Lo)
      BY <1>2, <2>1
    <2>3. PICK a \in Byte : a = A(cpu)
      BY <1>1
    <2>4. PICK v \in Byte : v = (a - (a % 16)) + (m % 16)
      BY ByteIs
    <2>5. PICK w \in Byte : w = (m - (m % 16)) + (a % 16)
      BY ByteIs
    <2>6. Operated(Write(SetA(cpu, v), Lo, w))
      BY <1>7, <2>2, <2>3, <2>4, <2>5 DEF Xchd
    <2>7. SetA(cpu, v) \in Machine
      BY <1>1, SetAStays
    <2>8. Write(SetA(cpu, v), Lo, w) \in Machine
      BY <1>3, <2>1, <2>7
    <2> QED
      BY <2>6, <2>8, OperatedStays
  <1> QED
    BY <1>4, <1>5, <1>6, <1>7

\* CJNE and DJNZ.
LEMMA LoopsStay ==
    ASSUME TypeOK, Cjne \/ Djnz
    PROVE  TypeOK'
  <1>1. /\ cpu \in Machine /\ prog \in Programs /\ 3 \in Int /\ 2 \in {1, 2, 4}
    BY Here
  <1>2. Lo \in 4..15 => Read(cpu, Lo) \in Byte /\ AfterRead(cpu, Lo) \in Machine
    BY Operands
  <1>3. CASE Cjne
    <2> DEFINE x == IF Lo <= 5 THEN A(cpu) ELSE Read(cpu, Lo)
               y == IF Lo = 5 THEN Read(cpu, 5) ELSE Arg1
    <2>1. PICK k \in 0..1 : k = Truth(x < y)
      BY SmallNumbers
    <2>2. PICK t : t = (x # y)
      OBVIOUS
    <2>3. Lo \in 4..15
      BY <1>3 DEF Cjne, Family
    <2>4. Retire(Branch(SetFlag(AfterRead(cpu, Lo), CY, Truth(x < y)), 3, x # y), 2)
      BY <1>3, Zenon DEF Cjne
    <2>5. Retire(Branch(SetFlag(AfterRead(cpu, Lo), CY, k), 3, t), 2)
      <3> HIDE DEF x, y
      <3> QED BY <2>1, <2>2, <2>4, Zenon
    <2>6. SetFlag(AfterRead(cpu, Lo), CY, k) \in Machine
      BY <1>2, <2>3, SetFlagStays, SmallNumbers
    <2> QED
      BY <1>1, <2>5, <2>6, Branches
  <1>4. CASE Djnz
    <2> DEFINE r == (Read(cpu, Lo) - 1) % 256
    <2>1. Lo \in 5..15
      BY <1>4 DEF Djnz, Family
    <2>2. r \in Byte
      BY <1>2, <2>1, ByteIs
    <2>3. Retire(Branch(Write(AfterRead(cpu, Lo), Lo, r), Length(Lo) + 1, r # 0), 2)
      BY <1>4, Zenon DEF Djnz
    <2> HIDE DEF r
    <2>4. Write(AfterRead(cpu, Lo), Lo, r) \in Machine
      <3>1. AfterRead(cpu, Lo) \in Machine
        BY <1>2, <2>1
      <3> QED
        BY <2>1, <2>2, <3>1, Operands
    <2>5. PICK n \in Int : n = Length(Lo) + 1
      BY <2>1, LengthIs
    <2>6. PICK t : t = (r # 0)
      OBVIOUS
    <2>7. Retire(Branch(Write(AfterRead(cpu, Lo), Lo, r), n, t), 2)
      BY <2>3, <2>5, <2>6, Zenon
    <2> QED
      BY <1>1, <2>4, <2>7, Branches
  <1> QED
    BY <1>3, <1>4

\* The instructions on bits, and BREAK.
LEMMA BitsStay ==
    ASSUME TypeOK, CarryOps \/ OrlCarry \/ AnlCarry \/ BitOps \/ Break
    PROVE  TypeOK'
  <1>1. /\ cpu \in Machine /\ Arg1 \in Byte /\ 0 \in 0..1 /\ 1 \in 0..1 /\ 1 \in Int /\ 2 \in Int
        /\ 1 \in {1, 2, 4} /\ 2 \in {1, 2, 4} /\ CY \in 0..7
    BY Here, SmallNumbers
  <1>2. PICK k \in 0..1, n \in 0..1 : k = Carry(cpu) /\ n = 1 - Carry(cpu)
    BY Here
  <1>3. PICK b \in 0..1, o \in 0..1 : b = BitRead(cpu, Arg1) /\ o = 1 - BitRead(cpu, Arg1)
    BY <1>1, BitReadIsBit
  <1>4. ASSUME NEW x \in 0..1 PROVE SetFlag(cpu, CY, x) \in Machine
    BY <1>1, SetFlagStays
  <1>5. ASSUME NEW x \in 0..1 PROVE BitWrite(cpu, Arg1, x) \in Machine
    BY <1>1, BitWriteStays
  <1>6. CASE CarryOps
    <2>1. \/ Retire(Advance(SetFlag(cpu, CY, n), 1), 1)
          \/ Retire(Advance(SetFlag(cpu, CY, 0), 1), 1)
          \/ Retire(Advance(SetFlag(cpu, CY, 1), 1), 1)
          \/ Retire(Advance(SetFlag(cpu, CY, b), 2), 1)
      BY <1>2, <1>3, <1>6 DEF CarryOps
    <2> QED
      BY <1>1, <1>4, <2>1, GoesOn
  <1>7. CASE OrlCarry
    <2>1. \/ Retire(Advance(SetFlag(cpu, CY, 1), 2), 2)
          \/ Retire(Advance(cpu, 2), 2)
      BY <1>7 DEF OrlCarry
    <2> QED
      BY <1>1, <1>4, <2>1, GoesOn
  <1>8. CASE AnlCarry
    <2>1. \/ Retire(Advance(SetFlag(cpu, CY, 0), 2), 2)
          \/ Retire(Advance(cpu, 2), 2)
      BY <1>8 DEF AnlCarry
    <2> QED
      BY <1>1, <1>4, <2>1, GoesOn
  <1>9. CASE BitOps
    <2>1. \/ Retire(Advance(BitWrite(cpu, Arg1, k), 2), 2)
          \/ Retire(Advance(BitWrite(cpu, Arg1, o), 2), 1)
          \/ Retire(Advance(BitWrite(cpu, Arg1, 0), 2), 1)
          \/ Retire(Advance(BitWrite(cpu, Arg1, 1), 2), 1)
      BY <1>2, <1>3, <1>9 DEF BitOps
    <2> QED
      BY <1>1, <1>5, <2>1, GoesOn
  <1>10. CASE Break
    <2> DEFINE d == [cpu EXCEPT !.state = "BREAK"]
    <2>1. d \in Machine
      BY <1>1 DEF Machine
    <2>2. Retire(Advance(d, 1), 1)
      BY <1>10 DEF Break
    <2> HIDE DEF d
    <2> QED
      BY <1>1, <2>1, <2>2, GoesOn
  <1> QED
    BY <1>6, <1>7, <1>8, <1>9, <1>10

\* Every instruction leaves the types.
LEMMA ExecuteStays ==
    ASSUME TypeOK, Execute
    PROVE  TypeOK'
  <1>1. CASE Nop \/ Ajmp \/ Ljmp \/ JmpADptr \/ Sjmp BY <1>1, JumpsStay
  <1>2. CASE Acall \/ Lcall \/ Return BY <1>2, CallsStay
  <1>3. CASE JumpOnCarry \/ JumpOnZero \/ JumpOnBit \/ Jbc BY <1>3, BranchesStay
  <1>4. CASE Cjne \/ Djnz BY <1>4, LoopsStay
  <1>5. CASE RotateRight \/ RotateLeft \/ Swap BY <1>5, RotatesStay
  <1>6. CASE Inc \/ Dec \/ IncDptr BY <1>6, StepsStay
  <1>7. CASE Add \/ Addc \/ Subb BY <1>7, SumOpsStay
  <1>8. CASE Orl \/ Anl \/ Xrl BY <1>8, LogicOpsStay
  <1>9. CASE Mul \/ Div \/ DecimalAdjust BY <1>9, MulDivStay
  <1>10. CASE MovImm \/ MovToDirect \/ MovFromDirect \/ MovToA \/ MovFromA \/ ClrA \/ CplA
    BY <1>10, MovesStay
  <1>11. CASE MovDptr \/ Movc \/ MovxRead \/ MovxWrite BY <1>11, PointersStay
  <1>12. CASE PushDirect \/ PopDirect \/ Xch \/ Xchd BY <1>12, StackAndExchangeStay
  <1>13. CASE CarryOps \/ OrlCarry \/ AnlCarry \/ BitOps \/ Break BY <1>13, BitsStay
  <1>14. QED
    BY <1>1, <1>2, <1>3, <1>4, <1>5, <1>6, <1>7, <1>8, <1>9, <1>10, <1>11, <1>12, <1>13 DEF Execute

\* So does what the host does between two steps.
LEMMA HostStays ==
    ASSUME TypeOK, RxPush \/ TxPop \/ PinChange
    PROVE  TypeOK'
  <1>1. cpu \in Machine /\ prog \in Programs
    BY Here
  <1>2. host \in [input : Seq(Byte), given : Seq(Byte), taken : Seq(Byte)]
    BY DEF TypeOK
  <1>3. host.input \in Seq(Byte) /\ host.given \in Seq(Byte) /\ host.taken \in Seq(Byte)
    BY <1>2
  <1>4. CASE RxPush
    <2> DEFINE b == Head(host.input)
               raised == Raise(SetSfr(cpu, SBUF, b), SCON, RI, TRUE)
               kept == BitOf(Sfr(cpu, SCON), REN) = 1 /\ Len(cpu.rx) < RingBytes
               given == IF kept THEN Append(host.given, b) ELSE host.given
    <2>1. /\ b \in Byte /\ Tail(host.input) \in Seq(Byte)
          /\ host.input # <<>>
      BY <1>3, <1>4 DEF RxPush
    <2>2. given \in Seq(Byte)
      <3> HIDE DEF b, kept
      <3> QED BY <1>3, <2>1
    <2>3. host' = [host EXCEPT !.input = Tail(@), !.given = given]
      BY <1>4 DEF RxPush
    <2>4. host' \in [input : Seq(Byte), given : Seq(Byte), taken : Seq(Byte)]
      <3> HIDE DEF given
      <3> QED BY <1>2, <2>1, <2>2, <2>3
    <2>5. raised \in Machine
      <3>1. SetSfr(cpu, SBUF, b) \in Machine
        BY <1>1, <2>1, SetSfrStays, Ranges
      <3> DEFINE e == SetSfr(cpu, SBUF, b)
      <3> HIDE DEF e
      <3>2. Sfr(e, SCON) \in Byte /\ SCON \in SfrAddr /\ RI \in 0..7 /\ 1 \in 0..1 /\ e \in Machine
        BY <3>1, SfrIsByte, Ranges, SmallNumbers DEF e
      <3>3. PutBit(Sfr(e, SCON), RI, 1) \in Byte
        BY <3>2, BitsOfPutBit
      <3>4. SetSfr(e, SCON, PutBit(Sfr(e, SCON), RI, 1)) \in Machine
        BY <3>2, <3>3, SetSfrStays
      <3>5. Raise(e, SCON, RI, TRUE) \in Machine
        BY <3>2, <3>4, RaiseIs, Zenon
      <3> QED
        BY <3>5 DEF e
    <2>6. PICK on \in BOOLEAN : cpu' = [raised EXCEPT !.rx = IF on THEN Append(@, b) ELSE @] \/ cpu' = cpu
      BY <1>4 DEF RxPush
    <2> HIDE DEF raised, b
    <2>7. raised.rx \in Seq(Byte)
      BY <2>5, MachineFields
    <2>8. Append(raised.rx, b) \in Seq(Byte)
      BY <2>1, <2>7
    <2>9. [raised EXCEPT !.rx = IF on THEN Append(@, b) ELSE @] \in Machine
      <3>1. CASE on
        BY <2>5, <2>8, <3>1 DEF Machine
      <3>2. CASE ~on
        BY <2>5, <2>7, <3>2 DEF Machine
      <3> QED
        BY <3>1, <3>2
    <2>10. prog' = prog
      BY <1>4 DEF RxPush
    <2> QED
      BY <1>1, <2>4, <2>6, <2>9, <2>10 DEF TypeOK
  <1>5. CASE TxPop
    <2>1. cpu.tx # <<>> /\ cpu.tx \in Seq(Byte)
      BY <1>1, <1>5, MachineFields DEF TxPop
    <2>2. Head(cpu.tx) \in Byte /\ Tail(cpu.tx) \in Seq(Byte)
      BY <2>1
    <2>3. Append(host.taken, Head(cpu.tx)) \in Seq(Byte)
      BY <1>3, <2>2
    <2>4. host' \in [input : Seq(Byte), given : Seq(Byte), taken : Seq(Byte)]
      BY <1>2, <1>5, <2>3, Zenon DEF TxPop
    <2>5. cpu' \in Machine
      BY <1>1, <1>5, <2>2, Zenon DEF TxPop, Machine
    <2>6. prog' = prog
      BY <1>5 DEF TxPop
    <2> QED
      BY <1>1, <2>4, <2>5, <2>6 DEF TypeOK
  <1>6. CASE PinChange
    <2>1. PICK v \in prog.pins : cpu' = [cpu EXCEPT !.pins[P1] = v]
      BY <1>6 DEF PinChange
    <2>2. v \in Byte
      BY <1>1, <2>1, ProgramsAssumption
    <2>3. cpu' \in Machine
      BY <1>1, <2>1, <2>2 DEF Machine
    <2>4. prog' = prog /\ host' = host
      BY <1>6 DEF PinChange
    <2> QED
      BY <1>1, <1>2, <2>3, <2>4 DEF TypeOK
  <1> QED
    BY <1>4, <1>5, <1>6

\* A reset machine is a machine.
LEMMA ResetIsMachine == Reset \in Machine
  <1>1. 0 \in Byte /\ 7 \in Byte /\ 255 \in Byte /\ 0 \in Word
    BY ByteIs, WordIs
  <1> DEFINE ram == [a \in Byte |-> 0]
             sfr == [a \in SfrAddr |-> IF a = SP THEN 7 ELSE IF a \in Ports THEN 255 ELSE 0]
             xram == [a \in XramAddr |-> 0]
             pins == [a \in Ports |-> 255]
  <1>2. /\ ram \in [Byte -> Byte] /\ sfr \in [SfrAddr -> Byte]
        /\ xram \in [XramAddr -> Byte] /\ pins \in [Ports -> Byte]
    BY <1>1
  <1>3. Reset = [pc |-> 0, state |-> "RUNNING", iram |-> ram, sfr |-> sfr, xram |-> xram,
                 pins |-> pins, rx |-> <<>>, tx |-> <<>>, txActive |-> FALSE]
    BY Zenon DEF Reset
  <1>4. <<>> \in Seq(Byte)
    OBVIOUS
  <1> HIDE DEF ram, sfr, xram, pins
  <1> QED
    BY <1>1, <1>2, <1>3, <1>4 DEF Machine

\* For every memory size and every program: no instruction and no step of the
\* host stores a value outside its width, indexes a memory outside it, or moves
\* the program counter outside the address space.
THEOREM ExecTypeCorrect == Spec => []TypeOK
  <1>1. Init => TypeOK
    <2>1. SUFFICES ASSUME Init PROVE TypeOK
      OBVIOUS
    <2>2. prog.input \in Seq(Byte) /\ <<>> \in Seq(Byte)
      BY <2>1, ProgramsAssumption DEF Init
    <2>3. cpu \in Machine
      BY <2>1, ResetIsMachine DEF Init
    <2> QED
      BY <2>1, <2>2, <2>3 DEF Init, TypeOK
  <1>2. TypeOK /\ [Next]_vars => TypeOK'
    <2>1. SUFFICES ASSUME TypeOK, [Next]_vars PROVE TypeOK'
      OBVIOUS
    <2>2. CASE Execute BY <2>1, <2>2, ExecuteStays
    <2>3. CASE RxPush \/ TxPop \/ PinChange BY <2>1, <2>3, HostStays
    <2>4. CASE UNCHANGED vars BY <2>1, <2>4 DEF vars, TypeOK
    <2> QED
      BY <2>1, <2>2, <2>3, <2>4 DEF Next
  <1> QED
    BY <1>1, <1>2, PTL DEF Spec
-----------------------------------------------------------------------------
(***************************************************************************)
(* Writing one bit of a port.                                              *)
(***************************************************************************)
\* Which opcodes each group of instructions decodes (op_table).
LEMMA Opcodes ==
    /\ Nop => Op \in {0}
    /\ Ajmp => Op \in {1, 33, 65, 97, 129, 161, 193, 225}
    /\ Ljmp => Op \in {2}
    /\ JmpADptr => Op \in {115}
    /\ Sjmp => Op \in {128}
    /\ Acall => Op \in {17, 49, 81, 113, 145, 177, 209, 241}
    /\ Lcall => Op \in {18}
    /\ Return => Op \in {34, 50}
    /\ JumpOnCarry => Op \in {64, 80}
    /\ JumpOnZero => Op \in {96, 112}
    /\ JumpOnBit => Op \in {32, 48}
    /\ Jbc => Op \in {16}
    /\ RotateRight => Op \in {3, 19}
    /\ RotateLeft => Op \in {35, 51}
    /\ Swap => Op \in {196}
    /\ IncDptr => Op \in {163}
    /\ Mul => Op \in {164}
    /\ Div => Op \in {132}
    /\ DecimalAdjust => Op \in {212}
    /\ ClrA => Op \in {228}
    /\ CplA => Op \in {244}
    /\ MovDptr => Op \in {144}
    /\ Movc => Op \in {131, 147}
    /\ MovxRead => Op \in {224, 226, 227}
    /\ MovxWrite => Op \in {240, 242, 243}
    /\ PushDirect => Op \in {192}
    /\ PopDirect => Op \in {208}
    /\ CarryOps => Op \in {162, 179, 195, 211}
    /\ OrlCarry => Op \in {114, 160}
    /\ AnlCarry => Op \in {130, 176}
    /\ BitOps => Op \in {146, 178, 194, 210}
    /\ Break => Op \in {165}
    /\ Inc => Op \div 16 = 0 /\ Lo \in 4..15
    /\ Dec => Op \div 16 = 1 /\ Lo \in 4..15
    /\ Add => Op \div 16 = 2 /\ Lo \in 4..15
    /\ Addc => Op \div 16 = 3 /\ Lo \in 4..15
    /\ Subb => Op \div 16 = 9 /\ Lo \in 4..15
    /\ MovToA => Op \div 16 = 14 /\ Lo \in 4..15
    /\ MovFromA => Op \div 16 = 15 /\ Lo \in 4..15
    /\ Xch => Op \div 16 = 12 /\ Lo \in 4..15
    /\ Xchd => Op \div 16 = 13 /\ Lo \in 4..15
    /\ Cjne => Op \div 16 = 11 /\ Lo \in 4..15
    /\ Djnz => Op \div 16 = 13 /\ Lo \in 4..15
    /\ MovFromDirect => Op \div 16 = 10 /\ Lo \in 4..15
    /\ Orl => Op \in {66, 67} \/ (Op \div 16 = 4 /\ Lo \in 4..15)
    /\ Anl => Op \in {82, 83} \/ (Op \div 16 = 5 /\ Lo \in 4..15)
    /\ Xrl => Op \in {98, 99} \/ (Op \div 16 = 6 /\ Lo \in 4..15)
    /\ MovImm => Op \in {116, 117} \/ (Op \div 16 = 7 /\ Lo \in 4..15)
    /\ MovToDirect => Op \in {133} \/ (Op \div 16 = 8 /\ Lo \in 4..15)
  <1>1. /\ Nop => Op \in {0}
        /\ Ajmp => Op \in {1, 33, 65, 97, 129, 161, 193, 225}
        /\ Ljmp => Op \in {2}
        /\ JmpADptr => Op \in {115}
        /\ Sjmp => Op \in {128}
        /\ Acall => Op \in {17, 49, 81, 113, 145, 177, 209, 241}
        /\ Lcall => Op \in {18}
        /\ Return => Op \in {34, 50}
    <2>1. Nop => Op \in {0}
      BY Zenon DEF Opcode, Nop
    <2>2. Ajmp => Op \in {1, 33, 65, 97, 129, 161, 193, 225}
      BY Zenon DEF Opcode, Ajmp
    <2>3. Ljmp => Op \in {2}
      BY Zenon DEF Opcode, Ljmp
    <2>4. JmpADptr => Op \in {115}
      BY DEF Opcode, JmpADptr
    <2>5. Sjmp => Op \in {128}
      BY Zenon DEF Opcode, Sjmp
    <2>6. Acall => Op \in {17, 49, 81, 113, 145, 177, 209, 241}
      BY Zenon DEF Opcode, Acall
    <2>7. Lcall => Op \in {18}
      BY Zenon DEF Opcode, Lcall
    <2>8. Return => Op \in {34, 50}
      BY Zenon DEF Opcode, Return
    <2> QED
      BY <2>1, <2>2, <2>3, <2>4, <2>5, <2>6, <2>7, <2>8
  <1>2. /\ JumpOnCarry => Op \in {64, 80}
        /\ JumpOnZero => Op \in {96, 112}
        /\ JumpOnBit => Op \in {32, 48}
        /\ Jbc => Op \in {16}
        /\ RotateRight => Op \in {3, 19}
        /\ RotateLeft => Op \in {35, 51}
        /\ Swap => Op \in {196}
        /\ IncDptr => Op \in {163}
    BY DEF Opcode, JumpOnCarry, JumpOnZero, JumpOnBit, Jbc, RotateRight, RotateLeft, Swap, IncDptr
  <1>3. /\ Mul => Op \in {164}
        /\ Div => Op \in {132}
        /\ DecimalAdjust => Op \in {212}
        /\ ClrA => Op \in {228}
        /\ CplA => Op \in {244}
        /\ MovDptr => Op \in {144}
        /\ Movc => Op \in {131, 147}
        /\ MovxRead => Op \in {224, 226, 227}
    BY DEF Opcode, Mul, Div, DecimalAdjust, ClrA, CplA, MovDptr, Movc, MovxRead
  <1>4. /\ MovxWrite => Op \in {240, 242, 243}
        /\ PushDirect => Op \in {192}
        /\ PopDirect => Op \in {208}
        /\ CarryOps => Op \in {162, 179, 195, 211}
        /\ OrlCarry => Op \in {114, 160}
        /\ AnlCarry => Op \in {130, 176}
        /\ BitOps => Op \in {146, 178, 194, 210}
        /\ Break => Op \in {165}
    BY DEF Opcode, MovxWrite, PushDirect, PopDirect, CarryOps, OrlCarry, AnlCarry, BitOps, Break
  <1>5. /\ Inc => Op \div 16 = 0 /\ Lo \in 4..15
        /\ Dec => Op \div 16 = 1 /\ Lo \in 4..15
        /\ Add => Op \div 16 = 2 /\ Lo \in 4..15
        /\ Addc => Op \div 16 = 3 /\ Lo \in 4..15
        /\ Subb => Op \div 16 = 9 /\ Lo \in 4..15
        /\ MovToA => Op \div 16 = 14 /\ Lo \in 4..15
    BY DEF Family, Inc, Dec, Add, Addc, Subb, MovToA
  <1>6. /\ MovFromA => Op \div 16 = 15 /\ Lo \in 4..15
        /\ Xch => Op \div 16 = 12 /\ Lo \in 4..15
        /\ Xchd => Op \div 16 = 13 /\ Lo \in 4..15
        /\ Cjne => Op \div 16 = 11 /\ Lo \in 4..15
        /\ Djnz => Op \div 16 = 13 /\ Lo \in 4..15
        /\ MovFromDirect => Op \div 16 = 10 /\ Lo \in 4..15
    BY DEF Family, MovFromA, Xch, Xchd, Cjne, Djnz, MovFromDirect
  <1>7. /\ Orl => Op \in {66, 67} \/ (Op \div 16 = 4 /\ Lo \in 4..15)
        /\ Anl => Op \in {82, 83} \/ (Op \div 16 = 5 /\ Lo \in 4..15)
        /\ Xrl => Op \in {98, 99} \/ (Op \div 16 = 6 /\ Lo \in 4..15)
        /\ MovImm => Op \in {116, 117} \/ (Op \div 16 = 7 /\ Lo \in 4..15)
        /\ MovToDirect => Op \in {133} \/ (Op \div 16 = 8 /\ Lo \in 4..15)
    BY DEF Opcode, Family, Logic, Orl, Anl, Xrl, MovImm, MovToDirect
  <1> QED
    BY <1>1, <1>2, <1>3, <1>4, <1>5, <1>6, <1>7

\* The opcodes that write a bit decode to no other instruction.
LEMMA BitOpcodes ==
    ASSUME TypeOK, Execute, Op \in {16, 146, 178, 194, 210}
    PROVE  Jbc \/ BitOps
  <1>1. Lo \notin 4..15
    BY DEF Lo
  <1> QED
    BY <1>1, Opcodes DEF Execute

\* Writing one bit of port 1 stores latch AND pins in every other bit: none
\* rises, and one whose pin is high is left.
LEMMA BitWriteToPort ==
    ASSUME NEW c \in Machine, NEW b \in Byte, b \div 8 = P1 \div 8, NEW v \in 0..1,
           NEW e, e = BitWrite(c, b, v), NEW k \in 0..7 \ {b % 8}
    PROVE  /\ BitOf(e.sfr[P1], k) <= BitOf(c.sfr[P1], k)
           /\ BitOf(c.pins[P1], k) = 1 => BitOf(e.sfr[P1], k) = BitOf(c.sfr[P1], k)
  <1>1. ByteOfBit(b) = P1 /\ b % 8 \in 0..7 /\ P1 = 144
    BY ByteIs, Addresses DEF ByteOfBit
  <1>2. P1 \in SfrAddr /\ P1 \in Ports
    BY Ranges DEF Ports
  <1>3. PICK l \in Byte, p \in Byte : l = c.sfr[P1] /\ p = c.pins[P1]
    BY <1>2, MachineFields
  <1>4. DirectRead(c, P1) = And(l, p)
    BY <1>1, <1>2, <1>3, Addresses DEF DirectRead, Sfr
  <1>5. PICK w : w = PutBit(And(l, p), b % 8, v)
    OBVIOUS
  <1>6. e = SetSfr(c, P1, w)
    BY <1>1, <1>4, <1>5, Addresses DEF BitWrite, DirectWrite
  <1>7. e.sfr[P1] = w
    BY <1>2, <1>6 DEF SetSfr, Machine
  <1>8. And(l, p) \in Byte /\ BitOf(And(l, p), k) = BitOf(l, k) * BitOf(p, k)
    BY AndIsByte
  <1>9. BitOf(w, k) = BitOf(And(l, p), k)
    BY <1>1, <1>5, <1>8, BitsOfPutBit
  <1>10. BitOf(l, k) \in 0..1 /\ BitOf(p, k) \in 0..1
    BY ByteIsNat, BitIsBit
  <1>11. PICK x \in 0..1, y \in 0..1 : x = BitOf(l, k) /\ y = BitOf(p, k)
    BY <1>10
  <1>12. x * y <= x /\ (y = 1 => x * y = x)
    OBVIOUS
  <1>13. BitOf(w, k) = x * y
    BY <1>8, <1>9, <1>11, Zenon
  <1> QED
    BY <1>3, <1>7, <1>11, <1>12, <1>13

\* No tick writes a port.
LEMMA RetiredPort ==
    ASSUME NEW c \in Machine, NEW cycles \in {1, 2, 4}, Retire(c, cycles)
    PROVE  cpu'.sfr[P1] = c.sfr[P1]
  <1>1. P1 \in SfrAddr /\ P1 \notin Timed /\ P1 # SCON
    BY Ranges, Addresses DEF Timed
  <1>2. Keeps(c, cpu')
    BY CompletesKeeps DEF Retire
  <1> QED
    BY <1>1, <1>2 DEF Keeps

\* mcs51_uart_rx_push: the byte is dropped, or it is the last of the ring and
\* counts as given, or the ring is full.
LEMMA ReceivedIs ==
    ASSUME TypeOK, RxPush, NEW b, b = Head(host.input)
    PROVE  /\ b \in Byte /\ host'.taken = host.taken
           /\ cpu'.pc = cpu.pc /\ cpu'.state = cpu.state /\ cpu'.tx = cpu.tx
           /\ A(cpu') = A(cpu)
           /\ host'.input = Tail(host.input)
           /\ \/ cpu' = cpu /\ host'.given = host.given
              \/ cpu'.rx = Append(cpu.rx, b) /\ host'.given = Append(host.given, b)
              \/ ~(Len(cpu.rx) < RingBytes)
  <1>1. cpu \in Machine
    BY Here
  <1>2. host \in [input : Seq(Byte), given : Seq(Byte), taken : Seq(Byte)]
    BY DEF TypeOK
  <1>3. host.input \in Seq(Byte) /\ host.input # <<>>
    BY <1>2 DEF RxPush
  <1>4. b \in Byte
    BY <1>3
  <1>5. PICK e : e = SetSfr(cpu, SBUF, b)
    OBVIOUS
  <1>6. SBUF \in SfrAddr /\ SCON \in SfrAddr /\ ACC \in SfrAddr /\ ACC # SBUF /\ ACC # SCON
    BY Ranges, Addresses
  <1>7. e \in Machine
    BY <1>1, <1>4, <1>5, <1>6, SetSfrStays
  <1>8. e.pc = cpu.pc /\ e.state = cpu.state /\ e.tx = cpu.tx /\ e.rx = cpu.rx
        /\ e.sfr[ACC] = cpu.sfr[ACC]
    BY <1>1, <1>5, <1>6 DEF SetSfr, Machine
  <1>9. PICK w : w = PutBit(Sfr(e, SCON), RI, 1)
    OBVIOUS
  <1>10. PICK f : f = Raise(e, SCON, RI, TRUE)
    OBVIOUS
  <1>11. f = e \/ f = SetSfr(e, SCON, w)
    BY <1>9, <1>10, RaiseIs, Zenon
  <1>12. /\ f.pc = cpu.pc /\ f.state = cpu.state /\ f.tx = cpu.tx /\ f.rx = cpu.rx
         /\ f.sfr[ACC] = cpu.sfr[ACC]
         /\ DOMAIN f = DOMAIN e
    BY <1>6, <1>7, <1>8, <1>11 DEF SetSfr, Machine
  <1>13. /\ "pc" \in DOMAIN f /\ "state" \in DOMAIN f /\ "tx" \in DOMAIN f /\ "rx" \in DOMAIN f
         /\ "sfr" \in DOMAIN f
    BY <1>7, <1>12 DEF Machine
  <1>14. CASE BitOf(Sfr(cpu, SCON), REN) = 1 /\ Len(cpu.rx) < RingBytes
    <2>1. host' = [host EXCEPT !.input = Tail(@), !.given = Append(@, b)]
      BY <1>14 DEF RxPush
    <2>2. host'.given = Append(host.given, b) /\ host'.taken = host.taken /\ host'.input = Tail(host.input)
      BY <1>2, <2>1
    <2>3. cpu' = [f EXCEPT !.rx = Append(@, b)]
      BY <1>5, <1>10, <1>14 DEF RxPush
    <2>4. /\ cpu'.pc = f.pc /\ cpu'.state = f.state /\ cpu'.tx = f.tx /\ cpu'.rx = Append(f.rx, b)
          /\ cpu'.sfr = f.sfr
      BY <1>13, <2>3
    <2> QED
      BY <1>4, <1>12, <2>2, <2>4 DEF A, Sfr
  <1>15. CASE BitOf(Sfr(cpu, SCON), REN) = 1 /\ ~(Len(cpu.rx) < RingBytes)
    <2>1. host' = [host EXCEPT !.input = Tail(@)]
      BY <1>2, <1>15 DEF RxPush
    <2>2. host'.taken = host.taken /\ host'.input = Tail(host.input)
      BY <1>2, <2>1
    <2>3. cpu' = [f EXCEPT !.rx = f.rx]
      BY <1>5, <1>10, <1>15 DEF RxPush
    <2>4. cpu'.pc = f.pc /\ cpu'.state = f.state /\ cpu'.tx = f.tx /\ cpu'.sfr = f.sfr
      BY <1>13, <2>3
    <2> QED
      BY <1>4, <1>12, <1>15, <2>2, <2>4 DEF A, Sfr
  <1>16. CASE BitOf(Sfr(cpu, SCON), REN) # 1
    <2>1. host' = [host EXCEPT !.input = Tail(@)] /\ cpu' = cpu
      BY <1>2, <1>16 DEF RxPush
    <2>2. host'.given = host.given /\ host'.taken = host.taken /\ host'.input = Tail(host.input)
      BY <1>2, <2>1
    <2> QED
      BY <1>4, <2>1, <2>2 DEF A, Sfr
  <1> QED
    BY <1>14, <1>15, <1>16

\* The host does not move the program counter, so a step that does is an
\* instruction.
LEMMA HostKeepsPc ==
    ASSUME TypeOK, RxPush \/ TxPop \/ PinChange \/ UNCHANGED vars
    PROVE  cpu'.pc = cpu.pc
  <1>1. cpu \in Machine
    BY Here
  <1>2. CASE RxPush BY <1>2, ReceivedIs
  <1>3. CASE TxPop BY <1>1, <1>3 DEF TxPop, Machine
  <1>4. CASE PinChange BY <1>1, <1>4 DEF PinChange, Machine
  <1>5. CASE UNCHANGED vars BY <1>5 DEF vars
  <1> QED
    BY <1>2, <1>3, <1>4, <1>5

\* An instruction that writes one bit of port 1, or leaves it as JBC may, does
\* to the other bits what BitWriteToPort says.
LEMMA PortBit ==
    ASSUME TypeOK, NEW c \in Machine, c.sfr = cpu.sfr, c.pins = cpu.pins,
           Arg1 \div 8 = P1 \div 8, NEW k \in 0..7 \ {Arg1 % 8}, NEW v \in 0..1, NEW e,
           e = BitWrite(c, Arg1, v) \/ e = c,
           NEW n \in Int, NEW cycles \in {1, 2, 4}, Retire(e, cycles) \/ Retire(Advance(e, n), cycles)
    PROVE  /\ BitOf(cpu'.sfr[P1], k) <= BitOf(cpu.sfr[P1], k)
           /\ BitOf(cpu.pins[P1], k) = 1 => BitOf(cpu'.sfr[P1], k) = BitOf(cpu.sfr[P1], k)
  <1>1. cpu \in Machine /\ Arg1 \in Byte
    BY Here
  <1>2. e \in Machine
    BY <1>1, BitWriteStays
  <1>3. Advance(e, n) \in Machine /\ Advance(e, n).sfr = e.sfr
    <2>1. Advance(e, n) \in Machine
      BY <1>2, AdvanceStays
    <2>2. Advance(e, n).sfr = e.sfr
      BY <1>2 DEF Advance, Machine
    <2> QED
      BY <2>1, <2>2
  <1>4. cpu'.sfr[P1] = e.sfr[P1]
    BY <1>2, <1>3, RetiredPort
  <1>5. CASE e = BitWrite(c, Arg1, v)
    <2>1. /\ BitOf(e.sfr[P1], k) <= BitOf(c.sfr[P1], k)
          /\ BitOf(c.pins[P1], k) = 1 => BitOf(e.sfr[P1], k) = BitOf(c.sfr[P1], k)
      BY <1>1, <1>5, BitWriteToPort
    <2> QED
      BY <1>4, <2>1
  <1>6. CASE e = c
    <2>1. cpu'.sfr[P1] = cpu.sfr[P1]
      BY <1>4, <1>6
    <2>2. cpu.sfr[P1] \in Nat /\ k \in 0..7
      BY <1>1, MachineFields, Ranges, ByteIsNat
    <2>3. BitOf(cpu.sfr[P1], k) \in 0..1
      BY <2>2, BitIsBit
    <2> QED
      BY <2>1, <2>3
  <1> QED
    BY <1>5, <1>6

\* For every program and at every instruction that writes one bit of port 1,
\* whatever the pins do in between: other latch bits are lost only where a pin
\* is held low, and none is raised.
THEOREM ExecKeepsLatch == Spec => LatchKept
  <1> DEFINE Kept == cpu.state = "RUNNING" /\ Op \in {\h10, \h92, \hB2, \hC2, \hD2} /\ Arg1 \div 8 = P1 \div 8
                     /\ cpu'.pc # cpu.pc
                     => \A k \in 0..7 \ {Arg1 % 8} :
                           /\ BitOf(cpu'.sfr[P1], k) <= BitOf(cpu.sfr[P1], k)
                           /\ BitOf(cpu.pins[P1], k) = 1 => BitOf(cpu'.sfr[P1], k) = BitOf(cpu.sfr[P1], k)
  <1>1. TypeOK /\ [Next]_vars => Kept
    <2>1. SUFFICES ASSUME TypeOK, [Next]_vars, Op \in {16, 146, 178, 194, 210},
                          Arg1 \div 8 = P1 \div 8, cpu'.pc # cpu.pc, NEW k \in 0..7 \ {Arg1 % 8}
                   PROVE  /\ BitOf(cpu'.sfr[P1], k) <= BitOf(cpu.sfr[P1], k)
                          /\ BitOf(cpu.pins[P1], k) = 1 => BitOf(cpu'.sfr[P1], k) = BitOf(cpu.sfr[P1], k)
      OBVIOUS
    <2>2. Execute
      BY <2>1, HostKeepsPc DEF Next
    <2>3. Jbc \/ BitOps
      BY <2>1, <2>2, BitOpcodes
    <2>4. /\ cpu \in Machine /\ prog \in Programs /\ Arg1 \in Byte /\ 0 \in 0..1 /\ 1 \in 0..1
          /\ 1 \in {1, 2, 4} /\ 2 \in {1, 2, 4} /\ 2 \in Int /\ 3 \in Int
      BY <2>1, Here
    <2>5. PICK d : d = Branch(cpu, 3, TRUE)
      OBVIOUS
    <2>6. d \in Machine
      BY <2>4, <2>5, BranchStays
    <2>7. d.sfr = cpu.sfr /\ d.pins = cpu.pins
      BY <2>4, <2>5 DEF Branch, Advance, Machine
    <2>8. CASE Jbc
      <3>1. Retire(BitWrite(d, Arg1, 0), 2) \/ Retire(Advance(cpu, 3), 2)
        BY <2>5, <2>8 DEF Jbc
      <3>2. CASE Retire(BitWrite(d, Arg1, 0), 2)
        BY <2>1, <2>4, <2>6, <2>7, <3>2, PortBit
      <3>3. CASE Retire(Advance(cpu, 3), 2)
        BY <2>1, <2>4, <3>3, PortBit
      <3> QED
        BY <3>1, <3>2, <3>3
    <2>9. CASE BitOps
      <3>1. PICK x \in 0..1, o \in 0..1 : x = Carry(cpu) /\ o = 1 - BitRead(cpu, Arg1)
        BY <2>1, <2>4, Here, BitReadIsBit
      <3>2. \/ Retire(Advance(BitWrite(cpu, Arg1, x), 2), 2)
            \/ Retire(Advance(BitWrite(cpu, Arg1, o), 2), 1)
            \/ Retire(Advance(BitWrite(cpu, Arg1, 0), 2), 1)
            \/ Retire(Advance(BitWrite(cpu, Arg1, 1), 2), 1)
        BY <2>9, <3>1 DEF BitOps
      <3>3. ASSUME NEW v \in 0..1, NEW cycles \in {1, 2, 4},
                   Retire(Advance(BitWrite(cpu, Arg1, v), 2), cycles)
            PROVE  /\ BitOf(cpu'.sfr[P1], k) <= BitOf(cpu.sfr[P1], k)
                   /\ BitOf(cpu.pins[P1], k) = 1 => BitOf(cpu'.sfr[P1], k) = BitOf(cpu.sfr[P1], k)
        BY <2>1, <2>4, <3>3, PortBit
      <3> QED
        BY <2>4, <3>2, <3>3
    <2> QED
      BY <2>3, <2>8, <2>9
  <1>2. Spec => []TypeOK
    BY ExecTypeCorrect
  <1> QED
    BY <1>1, <1>2, PTL DEF Spec, LatchKept
-----------------------------------------------------------------------------
(***************************************************************************)
(* The echo firmware.                                                      *)
(***************************************************************************)
\* Where the echo firmware's instructions start.
EchoPcs == {0, 3, 6, 8, 11, 14, 16, 18, 20, 23, 25}

\* The byte it has read and not yet written, at its MOV SBUF,A.
Pending == IF cpu.pc = 18 THEN <<A(cpu)>> ELSE <<>>

\* RI is set.
Received == BitOf(cpu.sfr[SCON], RI) = 1

\* Every byte given to the UART is with the host again, in the transmit ring, in
\* the accumulator or in the receive ring, in this order.
InTransit == host.given = (host.taken \o cpu.tx) \o (Pending \o cpu.rx)

\* Where the firmware is about to look at RI, or to read a byte because of it,
\* the ring holds that byte; and when RI was set again meanwhile, one more.
FlagTellsRing ==
    /\ cpu.pc \in {11, 18, 20, 23, 25} /\ Received => cpu.rx # <<>>
    /\ cpu.pc \in {14, 16} => cpu.rx # <<>>
    /\ cpu.pc = 16 /\ Received => Tail(cpu.rx) # <<>>

\* The bytes given and those still to come fit a ring, so none is ever full.
AllFit == Len(host.given) + Len(host.input) <= RingBytes

\* The inductive invariant of the echo firmware.
EchoInv == /\ prog.code = EchoCode /\ cpu.state = "RUNNING" /\ cpu.pc \in EchoPcs
           /\ InTransit /\ FlagTellsRing /\ AllFit

\* How the concatenation of the bytes on their way changes when one is taken by
\* the host, pushed by it, read from SBUF or written to SBUF.
LEMMA PoppedInOrder ==
    ASSUME NEW S, NEW t \in Seq(S), NEW x \in Seq(S), x # <<>>
    PROVE  Append(t, Head(x)) \o Tail(x) = t \o x
  OBVIOUS

LEMMA PushedInOrder ==
    ASSUME NEW u \in Seq(Byte), NEW p \in Seq(Byte), NEW r \in Seq(Byte), NEW b \in Byte
    PROVE  u \o (p \o Append(r, b)) = Append(u \o (p \o r), b)
  OBVIOUS

LEMMA ReadInOrder ==
    ASSUME NEW S, NEW r \in Seq(S), r # <<>>
    PROVE  <<Head(r)>> \o Tail(r) = <<>> \o r
  OBVIOUS

LEMMA WrittenInOrder ==
    ASSUME NEW t \in Seq(Byte), NEW x \in Seq(Byte), NEW a \in Byte, NEW r \in Seq(Byte)
    PROVE  (t \o Append(x, a)) \o (<<>> \o r) = (t \o x) \o (<<a>> \o r)
  <1> DEFINE s == <<a>>
             w == t \o x
  <1>1. s \in Seq(Byte) /\ w \in Seq(Byte)
    OBVIOUS
  <1>2. Append(x, a) = x \o s
    BY AppendIsConcat
  <1> HIDE DEF s
  <1>3. t \o Append(x, a) = w \o s
    BY <1>1, <1>2, ConcatAssociative, SMTT(30)
  <1> HIDE DEF w
  <1>4. (w \o s) \o r = w \o (s \o r)
    BY <1>1, ConcatAssociative
  <1>5. <<>> \o r = r
    BY ConcatEmptySeq
  <1>6. (t \o Append(x, a)) \o (<<>> \o r) = w \o (s \o r)
    BY <1>3, <1>4, <1>5
  <1> QED
    BY <1>6 DEF s, w

\* A sequence is a prefix of what extends it.
LEMMA PrefixOfWhole ==
    ASSUME NEW S, NEW u \in Seq(S), NEW w \in Seq(S)
    PROVE  IsPrefix(u, u \o w)
  <1>1. u \o w \in Seq(S) /\ Len(u \o w) = Len(u) + Len(w)
    OBVIOUS
  <1>2. SubSeq(u, 1, Len(u)) = u
    OBVIOUS
  <1>3. SubSeq(u \o w, 1, Len(u)) = u
    OBVIOUS
  <1> QED
    BY <1>1, <1>2, <1>3 DEF IsPrefix

\* What is left of the input, together with the bytes on their way, fits a ring.
LEMMA RingsHaveRoom ==
    ASSUME TypeOK, EchoInv
    PROVE  /\ host.input # <<>> => Len(cpu.rx) < RingBytes
           /\ cpu.pc = 18 => Len(cpu.tx) < RingBytes
  <1>1. /\ host.taken \in Seq(Byte) /\ cpu.tx \in Seq(Byte) /\ cpu.rx \in Seq(Byte)
        /\ host.input \in Seq(Byte) /\ Pending \in Seq(Byte)
    BY Here, MachineFields DEF TypeOK, Pending
  <1>2. PICK t, x, p, r, i : /\ t = host.taken /\ x = cpu.tx /\ p = Pending /\ r = cpu.rx
                             /\ i = host.input
    OBVIOUS
  <1>3. t \in Seq(Byte) /\ x \in Seq(Byte) /\ p \in Seq(Byte) /\ r \in Seq(Byte) /\ i \in Seq(Byte)
    BY <1>1, <1>2
  <1>4. Len((t \o x) \o (p \o r)) = Len(t) + Len(x) + Len(p) + Len(r)
    BY <1>3
  <1>5. host.given = (t \o x) \o (p \o r)
    BY <1>2 DEF EchoInv, InTransit
  <1>6. Len(host.given) + Len(i) <= RingBytes
    BY <1>2 DEF EchoInv, AllFit
  <1>7. cpu.pc = 18 => Len(p) = 1
    BY <1>2 DEF Pending
  <1>8. /\ Len(t) \in Nat /\ Len(x) \in Nat /\ Len(p) \in Nat /\ Len(r) \in Nat /\ Len(i) \in Nat
        /\ RingBytes \in Nat
    BY <1>3, MemoryAssumption
  <1>9. Len(t) + Len(x) + Len(p) + Len(r) + Len(i) <= RingBytes
    BY <1>4, <1>5, <1>6
  <1>10. PICK a \in Nat, b \in Nat, c \in Nat, d \in Nat, e \in Nat, n \in Nat :
             a = Len(t) /\ b = Len(x) /\ c = Len(p) /\ d = Len(r) /\ e = Len(i) /\ n = RingBytes
    BY <1>8
  <1>11. a + b + c + d + e <= n
    BY <1>9, <1>10
  <1>12. (e # 0 => d < n) /\ (c = 1 => b < n)
    BY <1>11
  <1>13. i # <<>> => e # 0
    BY <1>3, <1>10
  <1>14. (e # 0 => Len(r) < RingBytes) /\ (cpu.pc = 18 => Len(x) < RingBytes)
    BY <1>7, <1>10, <1>12
  <1> QED
    BY <1>2, <1>13, <1>14

\* The echo firmware's bytes by address, and so its instructions by program
\* counter.
LEMMA EchoBytesAre ==
    ASSUME prog.code = EchoCode
    PROVE  /\ CodeAt(0) = 117 /\ CodeAt(1) = 137 /\ CodeAt(2) = 32
           /\ CodeAt(3) = 117 /\ CodeAt(4) = 141 /\ CodeAt(5) = 253
           /\ CodeAt(6) = 210 /\ CodeAt(7) = 142
           /\ CodeAt(8) = 117 /\ CodeAt(9) = 152 /\ CodeAt(10) = 80
           /\ CodeAt(11) = 48 /\ CodeAt(12) = 152 /\ CodeAt(13) = 253
           /\ CodeAt(14) = 194 /\ CodeAt(15) = 152
           /\ CodeAt(16) = 229 /\ CodeAt(17) = 153
           /\ CodeAt(18) = 245 /\ CodeAt(19) = 153
           /\ CodeAt(20) = 48 /\ CodeAt(21) = 153 /\ CodeAt(22) = 253
           /\ CodeAt(23) = 194 /\ CodeAt(24) = 153
           /\ CodeAt(25) = 128 /\ CodeAt(26) = 240
  <1>1. ASSUME NEW a \in 0..26 PROVE CodeAt(a) = EchoBytes[a + 1]
    BY DEF CodeAt, EchoCode
  <1>2. CodeAt(0) = EchoBytes[1] /\ CodeAt(1) = EchoBytes[2] /\ CodeAt(2) = EchoBytes[3]
    BY <1>1
  <1>3. CodeAt(3) = EchoBytes[4] /\ CodeAt(4) = EchoBytes[5] /\ CodeAt(5) = EchoBytes[6]
    BY <1>1
  <1>4. CodeAt(6) = EchoBytes[7] /\ CodeAt(7) = EchoBytes[8] /\ CodeAt(8) = EchoBytes[9]
    BY <1>1
  <1>5. CodeAt(9) = EchoBytes[10] /\ CodeAt(10) = EchoBytes[11] /\ CodeAt(11) = EchoBytes[12]
    BY <1>1
  <1>6. CodeAt(12) = EchoBytes[13] /\ CodeAt(13) = EchoBytes[14] /\ CodeAt(14) = EchoBytes[15]
    BY <1>1
  <1>7. CodeAt(15) = EchoBytes[16] /\ CodeAt(16) = EchoBytes[17] /\ CodeAt(17) = EchoBytes[18]
    BY <1>1
  <1>8. CodeAt(18) = EchoBytes[19] /\ CodeAt(19) = EchoBytes[20] /\ CodeAt(20) = EchoBytes[21]
    BY <1>1
  <1>9. CodeAt(21) = EchoBytes[22] /\ CodeAt(22) = EchoBytes[23] /\ CodeAt(23) = EchoBytes[24]
    BY <1>1
  <1>10. CodeAt(24) = EchoBytes[25] /\ CodeAt(25) = EchoBytes[26] /\ CodeAt(26) = EchoBytes[27]
    BY <1>1
  <1>11. QED
    BY <1>2, <1>3, <1>4, <1>5, <1>6, <1>7, <1>8, <1>9, <1>10 DEF EchoBytes

LEMMA EchoFetches ==
    ASSUME prog.code = EchoCode, cpu.pc \in EchoPcs
    PROVE  /\ cpu.pc = 0 => Op = 117 /\ Arg1 = 137
           /\ cpu.pc = 3 => Op = 117 /\ Arg1 = 141
           /\ cpu.pc = 6 => Op = 210 /\ Arg1 = 142
           /\ cpu.pc = 8 => Op = 117 /\ Arg1 = 152 /\ Arg2 = 80
           /\ cpu.pc = 11 => Op = 48 /\ Arg1 = 152 /\ Arg2 = 253
           /\ cpu.pc = 14 => Op = 194 /\ Arg1 = 152
           /\ cpu.pc = 16 => Op = 229 /\ Arg1 = 153
           /\ cpu.pc = 18 => Op = 245 /\ Arg1 = 153
           /\ cpu.pc = 20 => Op = 48 /\ Arg1 = 153 /\ Arg2 = 253
           /\ cpu.pc = 23 => Op = 194 /\ Arg1 = 153
           /\ cpu.pc = 25 => Op = 128 /\ Arg1 = 240
  <1>1. cpu.pc \in Nat /\ cpu.pc + 2 < 65536
    BY DEF EchoPcs
  <1>2. /\ Op = CodeAt(cpu.pc) /\ Arg1 = CodeAt(cpu.pc + 1) /\ Arg2 = CodeAt(cpu.pc + 2)
    <2>1. (cpu.pc + 0) % 65536 = cpu.pc /\ (cpu.pc + 1) % 65536 = cpu.pc + 1
          /\ (cpu.pc + 2) % 65536 = cpu.pc + 2
      BY <1>1
    <2> QED
      BY <2>1 DEF Op, Arg1, Arg2, Fetch
  <1> QED
    BY <1>2, EchoBytesAre

\* The opcodes it uses, and the action each decodes to.
LEMMA EchoDecodes ==
    ASSUME Execute
    PROVE  /\ Op = 117 => MovImm
           /\ Op \in {194, 210} => BitOps
           /\ Op = 48 => JumpOnBit
           /\ Op = 229 => MovToA
           /\ Op = 245 => MovFromA
           /\ Op = 128 => Sjmp
  <1>1. CASE Op = 117
    <2>1. Op \div 16 = 7 /\ Lo = 5 BY <1>1 DEF Lo
    <2> QED
      BY <1>1, <2>1, Opcodes DEF Execute
  <1>2. CASE Op \in {194, 210}
    <2>1. Lo = 2 BY <1>2 DEF Lo
    <2> QED
      BY <1>2, <2>1, Opcodes DEF Execute
  <1>3. CASE Op = 48
    <2>1. Lo = 0 BY <1>3 DEF Lo
    <2> QED
      BY <1>3, <2>1, Opcodes DEF Execute
  <1>4. CASE Op = 229
    <2>1. Op \div 16 = 14 BY <1>4
    <2> QED
      BY <1>4, <2>1, Opcodes DEF Execute
  <1>5. CASE Op = 245
    <2>1. Op \div 16 = 15 BY <1>5
    <2> QED
      BY <1>5, <2>1, Opcodes DEF Execute
  <1>6. CASE Op = 128
    <2>1. Lo = 0 BY <1>6 DEF Lo
    <2> QED
      BY <1>6, <2>1, Opcodes DEF Execute
  <1> QED
    BY <1>1, <1>2, <1>3, <1>4, <1>5, <1>6

\* What the firmware looks at is left by the end of its steps.
LEMMA EchoRetires ==
    ASSUME NEW c \in Machine, NEW cycles \in {1, 2, 4}, Retire(c, cycles)
    PROVE  /\ cpu'.pc = c.pc /\ cpu'.state = c.state /\ cpu'.rx = c.rx /\ cpu'.tx = c.tx
           /\ A(cpu') = A(c) /\ BitOf(cpu'.sfr[SCON], RI) = BitOf(c.sfr[SCON], RI)
           /\ prog' = prog /\ host' = host
  <1>1. Keeps(c, cpu')
    BY CompletesKeeps DEF Retire
  <1>2. ACC \in SfrAddr /\ ACC \notin Timed /\ ACC # SCON
    BY Ranges, Addresses DEF Timed
  <1> QED
    BY <1>1, <1>2 DEF Keeps, A, Sfr, Retire

\* Going on to another address changes only the program counter.
LEMMA AdvanceIs ==
    ASSUME NEW c \in Machine, NEW n \in Int, 0 <= c.pc + n, c.pc + n < 65536,
           NEW e, e = Advance(c, n)
    PROVE  /\ e \in Machine /\ e.pc = c.pc + n /\ e.state = c.state /\ e.rx = c.rx
           /\ e.tx = c.tx /\ e.sfr = c.sfr
  <1>1. e \in Machine
    BY AdvanceStays
  <1>2. c.pc \in Int
    BY MachineFields, WordIs
  <1>3. (c.pc + n) % 65536 = c.pc + n
    BY <1>2
  <1>4. PICK m : m = c.pc + n
    OBVIOUS
  <1>5. e = [c EXCEPT !.pc = m]
    BY <1>3, <1>4 DEF Advance
  <1>6. e.pc = m /\ e.state = c.state /\ e.rx = c.rx /\ e.tx = c.tx /\ e.sfr = c.sfr
    BY <1>5 DEF Machine
  <1> QED
    BY <1>1, <1>4, <1>6

\* A direct write to an SFR other than SBUF changes that SFR alone.
LEMMA SfrWritten ==
    ASSUME NEW c \in Machine, NEW a \in SfrAddr, a # SBUF, NEW v \in Byte,
           NEW d, d = DirectWrite(c, a, v)
    PROVE  /\ d \in Machine /\ d.pc = c.pc /\ d.state = c.state /\ d.rx = c.rx /\ d.tx = c.tx
           /\ d.sfr = [c.sfr EXCEPT ![a] = v]
  <1>1. ~(a < 128)
    BY SfrAddrIs
  <1>2. d = SetSfr(c, a, v)
    BY <1>1 DEF DirectWrite
  <1>3. d \in Machine
    BY <1>2, SetSfrStays
  <1> QED
    BY <1>2, <1>3 DEF SetSfr, Machine

\* A step that moves no byte and keeps flag and ring in agreement keeps the
\* invariant.
LEMMA EchoGoesOn ==
    ASSUME TypeOK, EchoInv, prog' = prog, host' = host, cpu'.state = "RUNNING",
           cpu'.rx = cpu.rx, cpu'.tx = cpu.tx, cpu.pc # 18, cpu'.pc # 18, cpu'.pc \in EchoPcs,
           FlagTellsRing'
    PROVE  EchoInv'
  <1>1. Pending = <<>> /\ Pending' = <<>>
    BY DEF Pending
  <1>2. InTransit'
    BY <1>1 DEF EchoInv, InTransit
  <1> QED
    BY <1>2 DEF EchoInv, AllFit

\* The four instructions before the loop; the last one sets REN, and with it
\* clears RI.
LEMMA EchoSetsUp ==
    ASSUME TypeOK, EchoInv, Execute, cpu.pc \in {0, 3, 6, 8}
    PROVE  EchoInv'
  <1>1. /\ cpu \in Machine /\ prog.code = EchoCode /\ cpu.state = "RUNNING"
        /\ 1 \in {1, 2, 4} /\ 2 \in {1, 2, 4} /\ cpu.pc \in EchoPcs
    BY Here DEF EchoInv
  <1>2. CASE cpu.pc \in {0, 3, 8}
    <2>1. Op = 117 /\ Arg1 \in {137, 141, 152} /\ (cpu.pc = 8 => Arg1 = 152 /\ Arg2 = 80)
      BY <1>1, <1>2, EchoFetches
    <2>2. Lo = 5
      BY <2>1 DEF Lo
    <2>3. Retire(Advance(DirectWrite(cpu, Arg1, Arg2), 3), 2)
      BY <2>1, <2>2, EchoDecodes DEF MovImm, Opcode, Family
    <2>4. Arg1 \in SfrAddr /\ Arg1 # SBUF /\ Arg2 \in Byte
      BY <2>1, Here, SfrAddrIs, Addresses
    <2>5. PICK d : d = DirectWrite(cpu, Arg1, Arg2)
      OBVIOUS
    <2>6. /\ d \in Machine /\ d.pc = cpu.pc /\ d.state = cpu.state /\ d.rx = cpu.rx
          /\ d.tx = cpu.tx /\ d.sfr = [cpu.sfr EXCEPT ![Arg1] = Arg2]
      BY <1>1, <2>4, <2>5, SfrWritten
    <2>7. PICK e : e = Advance(d, 3)
      OBVIOUS
    <2>8. /\ e \in Machine /\ e.pc = cpu.pc + 3 /\ e.state = cpu.state /\ e.rx = cpu.rx
          /\ e.tx = cpu.tx /\ e.sfr = d.sfr
      BY <1>2, <2>6, <2>7, AdvanceIs
    <2>9. Retire(e, 2)
      BY <2>3, <2>5, <2>7
    <2>10. /\ cpu'.pc = cpu.pc + 3 /\ cpu'.state = cpu.state /\ cpu'.rx = cpu.rx
           /\ cpu'.tx = cpu.tx /\ BitOf(cpu'.sfr[SCON], RI) = BitOf(d.sfr[SCON], RI)
           /\ prog' = prog /\ host' = host
      BY <1>1, <2>8, <2>9, EchoRetires
    <2>11. cpu.pc = 8 => ~Received'
      <3>1. cpu.pc = 8 => d.sfr[SCON] = 80
        BY <1>1, <2>1, <2>6, MachineFields, Ranges, Addresses
      <3>2. BitOf(80, 0) = 0
        BY BitsOfByte
      <3> QED
        BY <2>10, <3>1, <3>2 DEF Received, RI
    <2>12. cpu'.pc \in {3, 6, 11} /\ (cpu'.pc = 11 => cpu.pc = 8)
      BY <1>2, <2>10
    <2>13. FlagTellsRing'
      BY <2>11, <2>12 DEF FlagTellsRing
    <2>14. cpu'.pc \in EchoPcs /\ cpu'.pc # 18 /\ cpu.pc # 18
      BY <1>2, <2>12 DEF EchoPcs
    <2> QED
      BY <1>1, <2>10, <2>13, <2>14, EchoGoesOn
  <1>3. CASE cpu.pc = 6
    <2>1. Op = 210 /\ Arg1 = 142
      BY <1>1, <1>3, EchoFetches
    <2>2. Retire(Advance(BitWrite(cpu, 142, 1), 2), 1)
      BY <2>1, EchoDecodes DEF BitOps, Opcode
    <2>3. ByteOfBit(142) = TCON /\ 142 % 8 = 6 /\ TCON \in SfrAddr /\ TCON # SBUF /\ 1 \in 0..1
          /\ 6 \in 0..7 /\ TCON \in Byte
      BY Addresses, Ranges DEF ByteOfBit
    <2>4. DirectRead(cpu, TCON) \in Byte
      BY <1>1, <2>3, DirectReadIsByte
    <2>5. PICK v : v = PutBit(DirectRead(cpu, TCON), 6, 1)
      OBVIOUS
    <2>6. v \in Byte
      BY <2>3, <2>4, <2>5, BitsOfPutBit
    <2>7. PICK d : d = DirectWrite(cpu, TCON, v)
      OBVIOUS
    <2>8. d \in Machine /\ d.pc = cpu.pc /\ d.state = cpu.state /\ d.rx = cpu.rx /\ d.tx = cpu.tx
      <3>1. PICK a \in SfrAddr : a = TCON /\ a # SBUF
        BY <2>3
      <3>2. d = DirectWrite(cpu, a, v)
        BY <2>7, <3>1
      <3>3. /\ d \in Machine /\ d.pc = cpu.pc /\ d.state = cpu.state /\ d.rx = cpu.rx
            /\ d.tx = cpu.tx /\ d.sfr = [cpu.sfr EXCEPT ![a] = v]
        BY <1>1, <2>6, <3>1, <3>2, SfrWritten
      <3> QED
        BY <3>3
    <2>9. PICK e : e = Advance(d, 2)
      OBVIOUS
    <2>10. /\ e \in Machine /\ e.pc = 8 /\ e.state = cpu.state /\ e.rx = cpu.rx /\ e.tx = cpu.tx
      BY <1>3, <2>8, <2>9, AdvanceIs
    <2>11. Retire(e, 1)
      BY <2>2, <2>3, <2>5, <2>7, <2>9 DEF BitWrite
    <2>12. /\ cpu'.pc = 8 /\ cpu'.state = cpu.state /\ cpu'.rx = cpu.rx /\ cpu'.tx = cpu.tx
           /\ prog' = prog /\ host' = host
      BY <1>1, <2>10, <2>11, EchoRetires
    <2>13. FlagTellsRing'
      BY <2>12 DEF FlagTellsRing
    <2>14. cpu'.pc \in EchoPcs
      BY <2>12 DEF EchoPcs
    <2> QED
      BY <1>1, <1>3, <2>12, <2>13, <2>14, EchoGoesOn
  <1> QED
    BY <1>2, <1>3

\* JNB on RI or TI looks at that bit of SCON.
LEMMA FlagRead ==
    ASSUME TypeOK, NEW b \in {152, 153}
    PROVE  BitRead(cpu, b) = BitOf(cpu.sfr[SCON], b - 152)
  <1>1. ByteOfBit(b) = SCON /\ b % 8 = b - 152
    BY Addresses DEF ByteOfBit
  <1>2. SCON \notin Ports /\ SCON # SBUF /\ ~(SCON < 128)
    BY Addresses, PortNumbers
  <1>3. DirectRead(cpu, SCON) = cpu.sfr[SCON]
    BY <1>2 DEF DirectRead, Sfr
  <1> QED
    BY <1>1, <1>3 DEF BitRead

\* The two JNB and the jump back: the firmware leaves the first only on RI.
LEMMA EchoWaits ==
    ASSUME TypeOK, EchoInv, Execute, cpu.pc \in {11, 20, 25}
    PROVE  EchoInv'
  <1>1. /\ cpu \in Machine /\ prog.code = EchoCode /\ cpu.state = "RUNNING" /\ 2 \in {1, 2, 4}
        /\ cpu.pc \in EchoPcs /\ FlagTellsRing
    BY Here DEF EchoInv
  <1>2. PICK n \in Int : /\ Retire(Advance(cpu, n), 2)
                         /\ cpu.pc = 11 => n = 0 \/ (n = 3 /\ Received)
                         /\ cpu.pc = 20 => n \in {0, 3}
                         /\ cpu.pc = 25 => n = -14
    <2>1. CASE cpu.pc \in {11, 20}
      <3>1. Op = 48 /\ Arg1 \in {152, 153} /\ (cpu.pc = 11 => Arg1 = 152) /\ Arg2 = 253
        BY <1>1, <2>1, EchoFetches
      <3>2. PICK t : t = (BitRead(cpu, Arg1) = 0)
        OBVIOUS
      <3>3. Retire(Branch(cpu, 3, t), 2)
        BY <3>1, <3>2, EchoDecodes DEF JumpOnBit, Opcode
      <3>4. Fetch(cpu, 2) = 253 /\ 3 - 1 = 2
        BY <3>1 DEF Arg2
      <3>5. PICK n \in Int : n = 3 + (IF t THEN Signed(Fetch(cpu, 2)) ELSE 0)
        BY <3>4 DEF Signed
      <3>6. Branch(cpu, 3, t) = Advance(cpu, n)
        BY <3>4, <3>5, Zenon DEF Branch
      <3>7. n \in {0, 3} /\ (n = 3 => ~t)
        BY <3>4, <3>5 DEF Signed
      <3>8. cpu.pc = 11 /\ ~t => Received
        <4>1. cpu.pc = 11 => BitRead(cpu, Arg1) = BitOf(cpu.sfr[SCON], 0)
          BY <3>1, FlagRead
        <4>2. BitOf(cpu.sfr[SCON], 0) \in 0..1
          <5>1. cpu.sfr[SCON] \in Byte
            BY <1>1, MachineFields, Ranges
          <5>2. cpu.sfr[SCON] \in Nat /\ 0 \in 0..7
            BY <5>1, ByteIsNat
          <5> QED
            BY <5>2, BitIsBit
        <4>3. ~t => BitRead(cpu, Arg1) # 0
          BY <3>2, Zenon
        <4> QED
          BY <4>1, <4>2, <4>3 DEF Received, RI
      <3>9. Retire(Advance(cpu, n), 2)
        BY <3>3, <3>6
      <3>10. cpu.pc = 25 => FALSE
        BY <2>1
      <3>11. (cpu.pc = 11 => n = 0 \/ (n = 3 /\ Received)) /\ (cpu.pc = 20 => n \in {0, 3})
        BY <3>7, <3>8
      <3> QED
        BY <3>9, <3>10, <3>11
    <2>2. CASE cpu.pc = 25
      <3>1. Op = 128 /\ Arg1 = 240
        BY <1>1, <2>2, EchoFetches
      <3>2. Retire(Branch(cpu, 2, TRUE), 2)
        BY <3>1, EchoDecodes DEF Sjmp
      <3>3. Fetch(cpu, 2 - 1) = 240
        BY <3>1 DEF Arg1
      <3>4. Branch(cpu, 2, TRUE) = Advance(cpu, -14)
        BY <3>3 DEF Branch, Signed
      <3>5. Retire(Advance(cpu, -14), 2)
        BY <3>2, <3>4
      <3>6. -14 \in Int
        OBVIOUS
      <3>7. cpu.pc = 11 => FALSE
        BY <2>2
      <3>8. cpu.pc = 20 => FALSE
        BY <2>2
      <3> QED
        BY <3>5, <3>6, <3>7, <3>8
    <2> QED
      BY <2>1, <2>2
  <1>3. PICK e : e = Advance(cpu, n)
    OBVIOUS
  <1>4. /\ e \in Machine /\ e.pc = cpu.pc + n /\ e.state = cpu.state /\ e.rx = cpu.rx
        /\ e.tx = cpu.tx /\ e.sfr = cpu.sfr
    BY <1>1, <1>2, <1>3, AdvanceIs
  <1>5. /\ cpu'.pc = cpu.pc + n /\ cpu'.state = cpu.state /\ cpu'.rx = cpu.rx /\ cpu'.tx = cpu.tx
        /\ BitOf(cpu'.sfr[SCON], RI) = BitOf(cpu.sfr[SCON], RI) /\ prog' = prog /\ host' = host
    BY <1>1, <1>2, <1>4, <1>3, EchoRetires
  <1>6. Received' <=> Received
    BY <1>5 DEF Received
  <1>7. cpu'.pc \in {11, 14, 20, 23} /\ (cpu'.pc = 14 => cpu.pc = 11 /\ Received)
    BY <1>2, <1>5
  <1>8. FlagTellsRing'
    BY <1>1, <1>5, <1>6, <1>7 DEF FlagTellsRing
  <1>9. cpu'.pc \in EchoPcs /\ cpu'.pc # 18 /\ cpu.pc # 18
    BY <1>7 DEF EchoPcs
  <1> QED
    BY <1>1, <1>5, <1>8, <1>9, EchoGoesOn

\* CLR RI and CLR TI: clearing TI leaves RI.
LEMMA EchoClears ==
    ASSUME TypeOK, EchoInv, Execute, cpu.pc \in {14, 23}
    PROVE  EchoInv'
  <1>1. /\ cpu \in Machine /\ prog.code = EchoCode /\ cpu.state = "RUNNING"
        /\ 1 \in {1, 2, 4} /\ cpu.pc \in EchoPcs /\ FlagTellsRing
    BY Here DEF EchoInv
  <1>2. Op = 194 /\ Arg1 \in {152, 153} /\ (cpu.pc = 14 => Arg1 = 152)
        /\ (cpu.pc = 23 => Arg1 = 153)
    BY <1>1, EchoFetches
  <1>3. Retire(Advance(BitWrite(cpu, Arg1, 0), 2), 1)
    BY <1>2, EchoDecodes DEF BitOps, Opcode
  <1>4. PICK a \in SfrAddr, k \in {0, 1} :
            a = SCON /\ a # SBUF /\ ByteOfBit(Arg1) = a /\ Arg1 % 8 = k /\ k = Arg1 - 152
    BY <1>2, Addresses, Ranges DEF ByteOfBit
  <1>5. DirectRead(cpu, a) = cpu.sfr[a]
    BY <1>4, Addresses, PortNumbers DEF DirectRead, Sfr
  <1>6. PICK s \in Byte : s = cpu.sfr[a]
    BY <1>1, MachineFields
  <1>7. PICK v : v = PutBit(s, k, 0)
    OBVIOUS
  <1>8. v \in Byte /\ BitOf(v, k) = 0 /\ (k = 1 => BitOf(v, 0) = BitOf(s, 0))
    <2>1. k \in 0..7 /\ 0 \in 0..1 /\ (k = 1 => 0 \in 0..7 \ {k})
      OBVIOUS
    <2> QED
      BY <1>7, <2>1, BitsOfPutBit
  <1>9. PICK d : d = DirectWrite(cpu, a, v)
    OBVIOUS
  <1>10. /\ d \in Machine /\ d.pc = cpu.pc /\ d.state = cpu.state /\ d.rx = cpu.rx
        /\ d.tx = cpu.tx /\ d.sfr = [cpu.sfr EXCEPT ![a] = v]
    BY <1>1, <1>4, <1>8, <1>9, SfrWritten
  <1>11. d.sfr[SCON] = v
    BY <1>1, <1>4, <1>10, MachineFields
  <1>12. PICK e : e = Advance(d, 2)
    OBVIOUS
  <1>13. /\ e \in Machine /\ e.pc = cpu.pc + 2 /\ e.state = cpu.state /\ e.rx = cpu.rx
         /\ e.tx = cpu.tx /\ e.sfr = d.sfr
    BY <1>10, <1>12, AdvanceIs
  <1>14. Retire(e, 1)
    BY <1>3, <1>4, <1>5, <1>6, <1>7, <1>9, <1>12 DEF BitWrite
  <1>15. /\ cpu'.pc = cpu.pc + 2 /\ cpu'.state = cpu.state /\ cpu'.rx = cpu.rx /\ cpu'.tx = cpu.tx
         /\ BitOf(cpu'.sfr[SCON], RI) = BitOf(v, 0) /\ prog' = prog /\ host' = host
    BY <1>1, <1>11, <1>13, <1>14, EchoRetires DEF RI
  <1>16. cpu.pc = 14 => ~Received'
    BY <1>2, <1>4, <1>8, <1>15 DEF Received
  <1>17. cpu.pc = 23 => (Received' <=> Received)
    BY <1>2, <1>4, <1>6, <1>8, <1>15 DEF Received, RI
  <1>18. cpu'.pc \in {16, 25} /\ (cpu'.pc = 16 => cpu.pc = 14) /\ (cpu'.pc = 25 => cpu.pc = 23)
    BY <1>15
  <1>19. FlagTellsRing'
    BY <1>1, <1>15, <1>16, <1>17, <1>18 DEF FlagTellsRing
  <1>20. cpu'.pc \in EchoPcs /\ cpu'.pc # 18 /\ cpu.pc # 18
    BY <1>18 DEF EchoPcs
  <1> QED
    BY <1>1, <1>15, <1>19, <1>20, EchoGoesOn

\* MOV A,SBUF takes the oldest byte of the ring into the accumulator.
LEMMA EchoReads ==
    ASSUME TypeOK, EchoInv, Execute, cpu.pc = 16
    PROVE  EchoInv'
  <1>1. /\ cpu \in Machine /\ prog.code = EchoCode /\ cpu.state = "RUNNING"
        /\ 1 \in {1, 2, 4} /\ cpu.pc \in EchoPcs /\ FlagTellsRing /\ InTransit
    BY Here DEF EchoInv
  <1>2. Op = 229 /\ Arg1 = 153
    BY <1>1, EchoFetches
  <1>3. Lo = 5 /\ Fetch(cpu, 1) = SBUF
    BY <1>2, Addresses DEF Lo, Arg1
  <1>4. cpu.rx # <<>> /\ cpu.rx \in Seq(Byte)
    BY <1>1, MachineFields DEF FlagTellsRing
  <1>5. PICK b \in Byte : b = Head(cpu.rx)
    BY <1>4
  <1>6. Tail(cpu.rx) \in Seq(Byte)
    BY <1>4
  <1>7. PICK q : q = Tail(cpu.rx) /\ q \in Seq(Byte)
    BY <1>6
  <1>8. PICK t : t = Touch(cpu, SBUF)
    OBVIOUS
  <1>9. t = [cpu EXCEPT !.rx = q]
    BY <1>4, <1>7, <1>8 DEF Touch
  <1>10. /\ t \in Machine /\ t.pc = 16 /\ t.state = cpu.state /\ t.tx = cpu.tx /\ t.rx = q
        /\ t.sfr = cpu.sfr
    BY <1>1, <1>7, <1>9 DEF Machine
  <1>11. AfterRead(cpu, Lo) = t
    BY <1>3, <1>8 DEF AfterRead
  <1>12. Read(cpu, Lo) = b
    <2>1. SBUF \notin Ports /\ ~(SBUF < 128)
      BY Addresses, PortNumbers
    <2>2. DirectRead(cpu, SBUF) = b
      BY <1>4, <1>5, <2>1 DEF DirectRead
    <2> QED
      BY <1>3, <2>2 DEF Read
  <1>13. Retire(Advance(SetA(t, b), 2), 1)
    BY <1>2, <1>3, <1>11, <1>12, EchoDecodes DEF MovToA, Operated, Length
  <1>14. PICK d : d = SetA(t, b)
    OBVIOUS
  <1>15. d \in Machine
    BY <1>10, <1>14, SetAStays
  <1>16. d.pc = 16 /\ d.state = cpu.state /\ d.tx = cpu.tx /\ d.rx = q
         /\ d.sfr = [cpu.sfr EXCEPT ![ACC] = b]
    BY <1>10, <1>14 DEF SetA, SetSfr, Machine
  <1>17. d.sfr[ACC] = b /\ d.sfr[SCON] = cpu.sfr[SCON]
    BY <1>1, <1>16, MachineFields, Ranges, Addresses
  <1>18. PICK e : e = Advance(d, 2)
    OBVIOUS
  <1>19. /\ e \in Machine /\ e.pc = 18 /\ e.state = cpu.state /\ e.rx = q
         /\ e.tx = cpu.tx /\ e.sfr = d.sfr
    BY <1>15, <1>16, <1>18, AdvanceIs
  <1>20. Retire(e, 1)
    BY <1>13, <1>14, <1>18
  <1>21. /\ cpu'.pc = 18 /\ cpu'.state = cpu.state /\ cpu'.rx = q /\ cpu'.tx = cpu.tx
         /\ A(cpu') = b /\ BitOf(cpu'.sfr[SCON], RI) = BitOf(cpu.sfr[SCON], RI)
         /\ prog' = prog /\ host' = host
    BY <1>1, <1>17, <1>19, <1>20, EchoRetires DEF A, Sfr
  <1>22. InTransit'
    <2>1. Pending = <<>> /\ Pending' = <<b>>
      BY <1>21 DEF Pending
    <2>2. <<b>> \o q = <<>> \o cpu.rx
      BY <1>4, <1>5, <1>7, ReadInOrder
    <2>3. Pending' \o cpu'.rx = Pending \o cpu.rx
      BY <1>21, <2>1, <2>2
    <2> QED
      BY <1>1, <1>21, <2>3 DEF InTransit
  <1>23. FlagTellsRing'
    BY <1>1, <1>7, <1>21 DEF FlagTellsRing, Received
  <1> QED
    BY <1>1, <1>21, <1>22, <1>23 DEF EchoInv, EchoPcs, AllFit

\* MOV SBUF,A puts it into the transmit ring.
LEMMA EchoWrites ==
    ASSUME TypeOK, EchoInv, Execute, cpu.pc = 18
    PROVE  EchoInv'
  <1>1. /\ cpu \in Machine /\ prog.code = EchoCode /\ cpu.state = "RUNNING"
        /\ 1 \in {1, 2, 4} /\ cpu.pc \in EchoPcs /\ FlagTellsRing /\ InTransit
    BY Here DEF EchoInv
  <1>2. Op = 245 /\ Arg1 = 153
    BY <1>1, EchoFetches
  <1>3. Lo = 5 /\ Fetch(cpu, 1) = SBUF
    BY <1>2, Addresses DEF Lo, Arg1
  <1>4. PICK b \in Byte : b = A(cpu)
    BY Here
  <1>5. ~(SBUF < 128) /\ SBUF \in SfrAddr /\ SBUF # SCON
    BY Addresses, Ranges
  <1>6. Write(cpu, Lo, A(cpu)) = Transmit(SetSfr(cpu, SBUF, b), b)
    BY <1>3, <1>4, <1>5 DEF Write, DirectWrite
  <1>7. PICK s : s = SetSfr(cpu, SBUF, b)
    OBVIOUS
  <1>8. s \in Machine
    BY <1>1, <1>5, <1>7, SetSfrStays
  <1>9. s.pc = 18 /\ s.state = cpu.state /\ s.rx = cpu.rx /\ s.tx = cpu.tx
        /\ s.sfr = [cpu.sfr EXCEPT ![SBUF] = b]
    BY <1>1, <1>7 DEF SetSfr, Machine
  <1>10. s.sfr[SCON] = cpu.sfr[SCON]
    BY <1>1, <1>5, <1>9, MachineFields, Ranges
  <1>11. PICK d : d = Transmit(s, b)
    OBVIOUS
  <1>12. d \in Machine
    BY <1>8, <1>11, TransmitStays
  <1>13. PICK x : x = Append(cpu.tx, b)
    OBVIOUS
  <1>14. d = [s EXCEPT !.tx = x, !.txActive = TRUE]
    <2>1. Len(cpu.tx) < RingBytes
      BY RingsHaveRoom
    <2> QED
      BY <1>9, <1>11, <1>13, <2>1 DEF Transmit
  <1>15. d.pc = 18 /\ d.state = cpu.state /\ d.rx = cpu.rx /\ d.tx = x /\ d.sfr = s.sfr
    BY <1>8, <1>9, <1>14 DEF Machine
  <1>16. Retire(Advance(d, 2), 1)
    BY <1>2, <1>3, <1>6, <1>7, <1>11, EchoDecodes DEF MovFromA, Operated, Length
  <1>17. PICK e : e = Advance(d, 2)
    OBVIOUS
  <1>18. /\ e \in Machine /\ e.pc = 20 /\ e.state = cpu.state /\ e.rx = cpu.rx
         /\ e.tx = x /\ e.sfr = d.sfr
    BY <1>12, <1>15, <1>17, AdvanceIs
  <1>19. Retire(e, 1)
    BY <1>16, <1>17
  <1>20. /\ cpu'.pc = 20 /\ cpu'.state = cpu.state /\ cpu'.rx = cpu.rx /\ cpu'.tx = x
         /\ BitOf(cpu'.sfr[SCON], RI) = BitOf(cpu.sfr[SCON], RI) /\ prog' = prog /\ host' = host
    BY <1>1, <1>10, <1>15, <1>18, <1>19, EchoRetires
  <1>21. InTransit'
    <2>1. Pending = <<b>> /\ Pending' = <<>>
      BY <1>4, <1>20 DEF Pending
    <2>2. host.taken \in Seq(Byte) /\ cpu.tx \in Seq(Byte) /\ cpu.rx \in Seq(Byte)
      BY <1>1, MachineFields DEF TypeOK
    <2>3. PICK t, y, r : t = host.taken /\ y = cpu.tx /\ r = cpu.rx
      OBVIOUS
    <2>4. t \in Seq(Byte) /\ y \in Seq(Byte) /\ r \in Seq(Byte)
      BY <2>2, <2>3
    <2>5. (t \o Append(y, b)) \o (<<>> \o r) = (t \o y) \o (<<b>> \o r)
      <3>1. b \in Byte
        BY <1>4
      <3> QED
        BY <2>4, <3>1, WrittenInOrder, ZenonT(40)
    <2>6. (host.taken \o Append(cpu.tx, b)) \o (<<>> \o cpu.rx)
            = (host.taken \o cpu.tx) \o (<<b>> \o cpu.rx)
      BY <2>3, <2>5
    <2> QED
      BY <1>13, <1>1, <1>20, <2>1, <2>6 DEF InTransit
  <1>22. FlagTellsRing'
    BY <1>1, <1>20 DEF FlagTellsRing, Received
  <1> QED
    BY <1>1, <1>20, <1>21, <1>22 DEF EchoInv, EchoPcs, AllFit

\* A byte that arrives, at whatever instruction, joins the end of the line.
LEMMA EchoHears ==
    ASSUME TypeOK, EchoInv, RxPush
    PROVE  EchoInv'
  <1>1. /\ cpu \in Machine /\ prog' = prog /\ EchoInv
    BY Here DEF RxPush
  <1>2. PICK b : b = Head(host.input)
    OBVIOUS
  <1>3. /\ b \in Byte /\ host'.taken = host.taken
        /\ cpu'.pc = cpu.pc /\ cpu'.state = cpu.state /\ cpu'.tx = cpu.tx
        /\ A(cpu') = A(cpu)
        /\ host'.input = Tail(host.input)
        /\ \/ cpu' = cpu /\ host'.given = host.given
           \/ cpu'.rx = Append(cpu.rx, b) /\ host'.given = Append(host.given, b)
    <2>1. Len(cpu.rx) < RingBytes
      BY RingsHaveRoom DEF RxPush
    <2> QED
      BY <1>2, <2>1, ReceivedIs
  <1>4. Pending' = Pending /\ Pending \in Seq(Byte)
    BY <1>3, Here DEF Pending
  <1>5. host.taken \in Seq(Byte) /\ cpu.tx \in Seq(Byte) /\ cpu.rx \in Seq(Byte)
    BY <1>1, MachineFields DEF TypeOK
  <1>6. AllFit'
    <2>1. PICK g, i : g = host.given /\ i = host.input
      OBVIOUS
    <2>2. g \in Seq(Byte) /\ i \in Seq(Byte) /\ i # <<>> /\ Len(g) + Len(i) <= RingBytes
      BY <1>1, <2>1 DEF TypeOK, RxPush, EchoInv, AllFit
    <2>3. /\ Len(g) \in Nat /\ Len(i) \in Nat /\ Len(Tail(i)) = Len(i) - 1
          /\ Len(Append(g, b)) = Len(g) + 1
      BY <1>3, <2>2
    <2>4. host'.given = g \/ host'.given = Append(g, b)
      BY <1>3, <2>1
    <2>5. Len(host'.given) + Len(Tail(i)) <= RingBytes
      BY <2>2, <2>3, <2>4, MemoryAssumption
    <2> QED
      BY <1>3, <2>1, <2>5 DEF AllFit
  <1>7. CASE cpu' = cpu /\ host'.given = host.given
    <2>1. InTransit'
      BY <1>1, <1>3, <1>4, <1>7 DEF InTransit, EchoInv
    <2>2. FlagTellsRing'
      BY <1>1, <1>7 DEF FlagTellsRing, EchoInv, Received
    <2> QED
      BY <1>1, <1>3, <1>6, <2>1, <2>2 DEF EchoInv
  <1>8. CASE cpu'.rx = Append(cpu.rx, b) /\ host'.given = Append(host.given, b)
    <2>1. PICK u, p, r : u = host.taken \o cpu.tx /\ p = Pending /\ r = cpu.rx
      OBVIOUS
    <2>2. u \in Seq(Byte) /\ p \in Seq(Byte) /\ r \in Seq(Byte)
      BY <1>4, <1>5, <2>1
    <2>3. b \in Byte
      BY <1>3
    <2>4. u \o (p \o Append(r, b)) = Append(u \o (p \o r), b)
      BY <2>2, <2>3, PushedInOrder
    <2>5. u \o (Pending \o Append(cpu.rx, b)) = Append(u \o (Pending \o cpu.rx), b)
      BY <2>1, <2>4
    <2>6. host.given = u \o (Pending \o cpu.rx)
      BY <1>1, <2>1 DEF EchoInv, InTransit
    <2>7. host'.given = u \o (Pending \o Append(cpu.rx, b))
      BY <1>8, <2>5, <2>6
    <2>8. InTransit'
      BY <1>3, <1>4, <1>8, <2>1, <2>7 DEF InTransit
    <2>9. Append(cpu.rx, b) # <<>> /\ (cpu.rx # <<>> => Tail(Append(cpu.rx, b)) # <<>>)
      BY <1>3, <1>5
    <2>10. FlagTellsRing'
      BY <1>1, <1>3, <1>8, <2>9 DEF FlagTellsRing, EchoInv
    <2> QED
      BY <1>1, <1>3, <1>6, <2>8, <2>10 DEF EchoInv
  <1> QED
    BY <1>3, <1>7, <1>8

\* So does a byte the host takes leave it at the front; pins do not matter.
LEMMA EchoIsTaken ==
    ASSUME TypeOK, EchoInv, TxPop \/ PinChange
    PROVE  EchoInv'
  <1>1. cpu \in Machine
    BY Here
  <1>2. host \in [input : Seq(Byte), given : Seq(Byte), taken : Seq(Byte)]
    BY DEF TypeOK
  <1>3. CASE TxPop
    <2>1. PICK x : x = Tail(cpu.tx)
      OBVIOUS
    <2>2. PICK t : t = Append(host.taken, Head(cpu.tx))
      OBVIOUS
    <2>3. cpu' = [cpu EXCEPT !.tx = x] /\ host' = [host EXCEPT !.taken = t] /\ prog' = prog
          /\ cpu.tx # <<>>
      BY <1>3, <2>1, <2>2 DEF TxPop
    <2>4. /\ cpu'.pc = cpu.pc /\ cpu'.state = cpu.state /\ cpu'.rx = cpu.rx /\ cpu'.sfr = cpu.sfr
          /\ cpu'.tx = x
      BY <1>1, <2>3 DEF Machine
    <2>5. host'.given = host.given /\ host'.input = host.input /\ host'.taken = t
      BY <1>2, <2>3
    <2>6. t \o x = host.taken \o cpu.tx
      <3>1. host.taken \in Seq(Byte) /\ cpu.tx \in Seq(Byte)
        BY <1>1, <1>2, MachineFields
      <3> QED
        BY <2>1, <2>2, <2>3, <3>1, PoppedInOrder
    <2>7. Pending' = Pending
      BY <2>4 DEF Pending, A, Sfr
    <2>8. InTransit'
      BY <2>4, <2>5, <2>6, <2>7 DEF EchoInv, InTransit
    <2>9. FlagTellsRing'
      BY <2>4 DEF EchoInv, FlagTellsRing, Received
    <2> QED
      BY <2>3, <2>4, <2>5, <2>8, <2>9 DEF EchoInv, AllFit
  <1>4. CASE PinChange
    <2>1. PICK v \in prog.pins : cpu' = [cpu EXCEPT !.pins[P1] = v]
      BY <1>4 DEF PinChange
    <2>2. /\ cpu'.pc = cpu.pc /\ cpu'.state = cpu.state /\ cpu'.rx = cpu.rx /\ cpu'.sfr = cpu.sfr
          /\ cpu'.tx = cpu.tx
      BY <1>1, <2>1 DEF Machine
    <2>3. host' = host /\ prog' = prog
      BY <1>4 DEF PinChange
    <2>4. Pending' = Pending
      BY <2>2 DEF Pending, A, Sfr
    <2>5. InTransit'
      BY <2>2, <2>3, <2>4 DEF EchoInv, InTransit
    <2>6. FlagTellsRing'
      BY <2>2 DEF EchoInv, FlagTellsRing, Received
    <2> QED
      BY <2>2, <2>3, <2>5, <2>6 DEF EchoInv, AllFit
  <1> QED
    BY <1>3, <1>4

\* For every size of the memories and of the rings, every input that fits a ring
\* and every way its bytes fall between the instructions and the timer ticks: the
\* echo firmware sends back what it was sent, in order, nothing twice, nothing
\* skipped and nothing made up.
THEOREM EchoFirmware ==
    Spec /\ prog.code = EchoCode /\ Len(prog.input) <= RingBytes => []EchoInOrder
  <1>1. Init /\ prog.code = EchoCode /\ Len(prog.input) <= RingBytes => EchoInv
    <2>1. SUFFICES ASSUME Init, prog.code = EchoCode, Len(prog.input) <= RingBytes PROVE EchoInv
      OBVIOUS
    <2>2. cpu.pc = 0 /\ cpu.state = "RUNNING" /\ cpu.rx = <<>> /\ cpu.tx = <<>>
      BY <2>1, Zenon DEF Init, Reset
    <2>3. host.given = <<>> /\ host.taken = <<>>
      BY <2>1 DEF Init
    <2>4. InTransit
      BY <2>2, <2>3 DEF InTransit, Pending
    <2>5. FlagTellsRing
      BY <2>2 DEF FlagTellsRing
    <2>6. AllFit
      <3>1. prog.input \in Seq(Byte) /\ host.input = prog.input
        BY <2>1, ProgramsAssumption DEF Init
      <3> QED
        BY <2>1, <2>3, <3>1 DEF AllFit
    <2> QED
      BY <2>1, <2>2, <2>4, <2>5, <2>6 DEF EchoInv, EchoPcs
  <1>2. TypeOK /\ EchoInv /\ [Next]_vars => EchoInv'
    <2>1. SUFFICES ASSUME TypeOK, EchoInv, [Next]_vars PROVE EchoInv'
      OBVIOUS
    <2>2. CASE Execute
      <3>1. \/ cpu.pc \in {0, 3, 6, 8} \/ cpu.pc \in {11, 20, 25} \/ cpu.pc \in {14, 23}
            \/ cpu.pc = 16 \/ cpu.pc = 18
        BY <2>1 DEF EchoInv, EchoPcs
      <3> QED
        BY <2>1, <2>2, <3>1, EchoSetsUp, EchoWaits, EchoClears, EchoReads, EchoWrites
    <2>3. CASE RxPush BY <2>1, <2>3, EchoHears
    <2>4. CASE TxPop \/ PinChange BY <2>1, <2>4, EchoIsTaken
    <2>5. CASE UNCHANGED vars
      <3>1. cpu' = cpu /\ prog' = prog /\ host' = host
        BY <2>5 DEF vars
      <3> QED
        BY <2>1, <3>1 DEF EchoInv, InTransit, FlagTellsRing, Received, Pending, AllFit
    <2> QED
      BY <2>1, <2>2, <2>3, <2>4, <2>5 DEF Next
  <1>3. TypeOK /\ EchoInv => EchoInOrder
    <2>1. SUFFICES ASSUME TypeOK, EchoInv PROVE EchoInOrder
      OBVIOUS
    <2>2. host.taken \in Seq(Byte) /\ cpu.tx \in Seq(Byte) /\ cpu.rx \in Seq(Byte)
      BY <2>1, Here, MachineFields DEF TypeOK
    <2>3. Pending \in Seq(Byte)
      BY <2>1, Here DEF Pending
    <2> DEFINE u == host.taken \o cpu.tx
               w == Pending \o cpu.rx
    <2>4. u \in Seq(Byte) /\ w \in Seq(Byte)
      BY <2>2, <2>3
    <2>5. host.given = u \o w
      BY <2>1 DEF EchoInv, InTransit
    <2> HIDE DEF w
    <2>6. IsPrefix(u, u \o w)
      <3> HIDE DEF u
      <3> QED BY <2>4, PrefixOfWhole
    <2> QED
      BY <2>5, <2>6 DEF EchoInOrder
  <1> QED
    BY <1>1, <1>2, <1>3, ExecTypeCorrect, PTL DEF Spec
=============================================================================
