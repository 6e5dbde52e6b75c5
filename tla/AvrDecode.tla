----------------------------- MODULE AvrDecode -----------------------------
(***************************************************************************)
(* Predecoding of AVR flash (avr_predecode): each 16-bit word becomes a    *)
(* record of an operation and two operands, the second word of a 32-bit    *)
(* instruction is marked, and short loops are fused into one operation.    *)
(***************************************************************************)
EXTENDS Integers, Sequences

Bits(w, low, width) == (w \div (2^low)) % (2^width)
SignExtend(v, width) == IF v < 2^(width - 1) THEN v ELSE v - 2^width

\* The operand fields of an opcode.
RD5(w)  == Bits(w, 4, 5)
RR5(w)  == 16 * Bits(w, 9, 1) + Bits(w, 0, 4)
RD4(w)  == 16 + Bits(w, 4, 4)
K8(w)   == 16 * Bits(w, 8, 4) + Bits(w, 0, 4)
K6(w)   == 16 * Bits(w, 6, 2) + Bits(w, 0, 4)
RDW2(w) == 24 + 2 * Bits(w, 4, 2)
IO6(w)  == 16 * Bits(w, 9, 2) + Bits(w, 0, 4)
IO5(w)  == Bits(w, 3, 5)
MASK3(w) == 2^Bits(w, 0, 3)
K12(w)  == SignExtend(Bits(w, 0, 12), 12)
K7(w)   == SignExtend(Bits(w, 3, 7), 7)
Q6(w)   == 32 * Bits(w, 13, 1) + 8 * Bits(w, 10, 2) + Bits(w, 0, 3)

Decoded(op, a, b) == [op |-> op, a |-> a, b |-> b]
Fault == Decoded("FAULT", 0, 0)
IfHas(has, feature, d) == IF feature \in has THEN d ELSE Fault

TwoRegisters(op, w) == Decoded(op, RD5(w), RR5(w))
OneRegister(op, w) == Decoded(op, RD5(w), 0)
Immediate(op, w) == Decoded(op, RD4(w), K8(w))
-----------------------------------------------------------------------------
(***************************************************************************)
(* The classes of opcodes, by their highest digit.                         *)
(***************************************************************************)
Class0(w, has) ==
    CASE w = 0 -> Decoded("NOP", 0, 0)
      [] Bits(w, 8, 4) = 1 -> IfHas(has, "MOVW", Decoded("MOVW", 2 * Bits(w, 4, 4), 2 * Bits(w, 0, 4)))
      [] Bits(w, 8, 4) = 2 -> IfHas(has, "MUL", Decoded("MULS", 16 + Bits(w, 4, 4), 16 + Bits(w, 0, 4)))
      [] Bits(w, 8, 4) = 3 ->
             IfHas(has, "MUL", Decoded(<<"MULSU", "FMUL", "FMULS", "FMULSU">>[Bits(w, 3, 2) + 1],
                                       16 + Bits(w, 4, 3), 16 + Bits(w, 0, 3)))
      [] Bits(w, 10, 2) \in 1..3 -> TwoRegisters(<<"CPC", "SBC", "ADD">>[Bits(w, 10, 2)], w)
      [] OTHER -> Fault

Class1(w) == TwoRegisters(<<"CPSE", "CP", "SUB", "ADC">>[Bits(w, 10, 2) + 1], w)
Class2(w) == TwoRegisters(<<"AND", "EOR", "OR", "MOV">>[Bits(w, 10, 2) + 1], w)

\* Loads and stores with a displacement.
Class8(w) ==
    Decoded(CASE Bits(w, 9, 1) = 1 -> IF Bits(w, 3, 1) = 1 THEN "STD_Y" ELSE "STD_Z"
              [] Bits(w, 9, 1) = 0 -> IF Bits(w, 3, 1) = 1 THEN "LDD_Y" ELSE "LDD_Z",
            RD5(w), Q6(w))

\* Class 9 by its bits 9 to 11: transfers, one-register instructions, the
\* words without operands, and the others.  next is the word that follows.
LoadOp == [k \in 0..15 |->
              CASE k = 1 -> "LD_ZP" [] k = 2 -> "LD_MZ" [] k = 9 -> "LD_YP" [] k = 10 -> "LD_MY"
                [] k = 12 -> "LD_X" [] k = 13 -> "LD_XP" [] k = 14 -> "LD_MX" [] k = 15 -> "POP"
                [] OTHER -> "FAULT"]
StoreOp == [k \in 0..15 |->
              CASE k = 1 -> "ST_ZP" [] k = 2 -> "ST_MZ" [] k = 9 -> "ST_YP" [] k = 10 -> "ST_MY"
                [] k = 12 -> "ST_X" [] k = 13 -> "ST_XP" [] k = 14 -> "ST_MX" [] k = 15 -> "PUSH"
                [] OTHER -> "FAULT"]

Load(w, has, next) ==
    LET k == Bits(w, 0, 4)
    IN  CASE k = 0 -> Decoded("LDS", RD5(w), next)
          [] k \in {4, 5} -> IfHas(has, "LPM_RD", OneRegister(IF k = 4 THEN "LPM_RD" ELSE "LPM_RDP", w))
          [] OTHER -> OneRegister(LoadOp[k], w)

Store(w, next) ==
    LET k == Bits(w, 0, 4)
    IN  CASE k = 0 -> Decoded("STS", RD5(w), next)
          [] OTHER -> OneRegister(StoreOp[k], w)

\* The words of class 9 without operands.
NoOperand(w) ==
    CASE w = \h9508 -> Decoded("RET", 0, 0)
      [] w = \h9518 -> Decoded("RETI", 0, 0)
      [] w = \h9588 -> Decoded("SLEEP", 0, 0)
      [] w = \h9598 -> Decoded("BREAK", 0, 0)
      [] w = \h95A8 -> Decoded("WDR", 0, 0)
      [] w = \h95C8 -> Decoded("LPM_R0", 0, 0)
      [] w = \h95E8 -> Decoded("SPM", 0, 0)
      [] w = \h9409 -> Decoded("IJMP", 0, 0)
      [] w = \h9509 -> Decoded("ICALL", 0, 0)
      [] OTHER -> Fault

SingleRegister(w, has, next) ==
    LET k == Bits(w, 0, 4)
        names == <<"COM", "NEG", "SWAP", "INC", "", "ASR", "LSR", "ROR", "", "", "DEC">>
    IN  CASE k \in {0, 1, 2, 3, 5, 6, 7, 10} -> OneRegister(names[k + 1], w)
          [] k = 8 /\ Bits(w, 8, 1) = 0 ->
                 Decoded(IF Bits(w, 7, 1) = 0 THEN "BSET" ELSE "BCLR", 2^Bits(w, 4, 3), 0)
          [] k \in {8, 9} /\ (k = 8 => Bits(w, 8, 1) = 1) -> NoOperand(w)
          [] k \in 12..15 -> IfHas(has, "JMP_CALL", Decoded(IF k < 14 THEN "JMP" ELSE "CALL", 0, next))
          [] OTHER -> Fault

Class9(w, has, next) ==
    LET group == Bits(w, 9, 3)
    IN  CASE group = 0 -> Load(w, has, next)
          [] group = 1 -> Store(w, next)
          [] group = 2 -> SingleRegister(w, has, next)
          [] group = 3 -> IfHas(has, "ADIW", Decoded(IF Bits(w, 8, 1) = 1 THEN "SBIW" ELSE "ADIW", RDW2(w), K6(w)))
          [] group = 4 -> Decoded(IF Bits(w, 8, 1) = 1 THEN "SBIC" ELSE "CBI", IO5(w), MASK3(w))
          [] group = 5 -> Decoded(IF Bits(w, 8, 1) = 1 THEN "SBIS" ELSE "SBI", IO5(w), MASK3(w))
          [] group \in {6, 7} -> IfHas(has, "MUL", TwoRegisters("MUL", w))

ClassB(w) == Decoded(IF Bits(w, 11, 1) = 1 THEN "OUT" ELSE "IN", RD5(w), IO6(w))

\* Targets are absolute, modulo the width of the field b.
Relative(op, i, w) == Decoded(op, 0, (i + 1 + K12(w)) % 65536)

ClassF(i, w) ==
    CASE Bits(w, 11, 1) = 0 ->
             Decoded(IF Bits(w, 10, 1) = 0 THEN "BRBS" ELSE "BRBC", MASK3(w), (i + 1 + K7(w)) % 65536)
      [] Bits(w, 11, 1) = 1 ->
             Decoded(<<"BLD", "BST", "SBRC", "SBRS">>[Bits(w, 9, 2) + 1], RD5(w), MASK3(w))

\* The word w at address i.
DecodeWord(i, w, has, next) ==
    LET class == Bits(w, 12, 4)
    IN  CASE class = 0 -> Class0(w, has)
          [] class = 1 -> Class1(w)
          [] class = 2 -> Class2(w)
          [] class \in 3..7 -> Immediate(<<"CPI", "SBCI", "SUBI", "ORI", "ANDI">>[class - 2], w)
          [] class \in {8, 10} -> Class8(w)
          [] class = 9 -> Class9(w, has, next)
          [] class = 11 -> ClassB(w)
          [] class = 12 -> Relative("RJMP", i, w)
          [] class = 13 -> Relative("RCALL", i, w)
          [] class = 14 -> Immediate("LDI", w)
          [] class = 15 -> ClassF(i, w)

Is32Bit(op) == op \in {"LDS", "STS", "JMP", "CALL"}
-----------------------------------------------------------------------------
(***************************************************************************)
(* The whole flash, a function from its word addresses, and the fusion.    *)
(***************************************************************************)
\* The scan passes over the second word of a 32-bit instruction.
Predecode(flash, has) ==
    LET n == CHOOSE k \in DOMAIN flash : k + 1 \notin DOMAIN flash
        word[i \in DOMAIN flash] ==
            DecodeWord(i, flash[i], has, IF i < n THEN flash[i + 1] ELSE 0)
        data[i \in DOMAIN flash] ==
            i > 0 /\ ~data[i - 1] /\ Is32Bit(word[i - 1].op)
    IN  [i \in DOMAIN flash |-> IF data[i] THEN Decoded("DATA", 0, 0) ELSE word[i]]

\* BRNE is BRBC on the Z flag, bit 1 of SREG.
IsBrne(d) == d.op = "BRBC" /\ d.a = 2
IsSbciZero(d) == d.op = "SBCI" /\ d.b = 0

\* SUBI at i, SBCI of zero for the other bytes of a counter, BRNE back to i.
LoopOf(cache, i, bytes) ==
    /\ i + bytes \in DOMAIN cache
    /\ \A k \in 1..bytes - 1 : IsSbciZero(cache[i + k])
    /\ IsBrne(cache[i + bytes]) /\ cache[i + bytes].b = i

FusedOp(cache, i) ==
    CASE cache[i].op = "SUBI" /\ i + 3 \in DOMAIN cache /\ LoopOf(cache, i, 3) -> "DELAY3"
      [] cache[i].op = "SUBI" /\ i + 3 \in DOMAIN cache /\ ~LoopOf(cache, i, 3) /\ LoopOf(cache, i, 2) -> "DELAY2"
      [] cache[i].op = "DEC" /\ i + 1 \in DOMAIN cache /\ IsBrne(cache[i + 1]) -> "DEC_BRNE"
      [] cache[i].op = "SUBI" /\ i + 1 \in DOMAIN cache /\ IsBrne(cache[i + 1]) -> "SUBI_BRNE"
      [] OTHER -> cache[i].op

Fuse(cache) == [i \in DOMAIN cache |-> [cache[i] EXCEPT !.op = FusedOp(cache, i)]]
=============================================================================
