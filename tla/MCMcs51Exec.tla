---------------------------- MODULE MCMcs51Exec ----------------------------
(***************************************************************************)
(* The programs module Mcs51Exec is checked with: one for each group of    *)
(* instructions, in several instances that differ in their operands.  The  *)
(* assembly is beside the bytes.  The expected results are computed from   *)
(* the operands by integer arithmetic, never by the machine.               *)
(***************************************************************************)
EXTENDS Mcs51Exec, TLC

At(a, bytes) == [x \in a..(a + Len(bytes) - 1) |-> bytes[x - a + 1]]
Batch(code, want) == [code |-> code, input |-> <<>>, pins |-> {255}, want |-> want]
Lsb(x) == x % 256
Msb(x) == (x \div 256) % 256
OddOnes(x) == Cardinality({k \in 0..7 : BitOf(x, k) = 1}) % 2
Bcd(n) == 4096 * (n \div 1000) + 256 * ((n \div 100) % 10) + 16 * ((n \div 10) % 10) + (n % 10)

(* Four-digit decimal addition with ADDC and DA, two digits at a time. *)
DecimalSum(x, y) == Batch(
    At(0, << \h75, \h30, Lsb(Bcd(x)), \h75, \h31, Msb(Bcd(x)),    \* MOV 30h,#  MOV 31h,#
             \h78, \h30, \h79, \h40,                              \* MOV R0,#30h  MOV R1,#40h
             \h77, Lsb(Bcd(y)), \h09, \h77, Msb(Bcd(y)), \h19,    \* MOV @R1,#  INC R1  MOV @R1,#  DEC R1
             \h7F, 2, \hC3,                                       \* MOV R7,#2  CLR C
             \hE6, \h37, \hD4, \hF6, \h08, \h09,                  \* MOV A,@R0  ADDC A,@R1  DA A  MOV @R0,A  INC R0  INC R1
             \hDF, \hF8,                                          \* DJNZ R7,-8
             \hE4, \h33, \hF5, \h32, \hA5 >>),                    \* CLR A  RLC A  MOV 32h,A  BREAK
    [a \in \h30..\h32 |-> CASE a = \h30 -> Lsb(Bcd((x + y) % 10000))
                            [] a = \h31 -> Msb(Bcd((x + y) % 10000))
                            [] a = \h32 -> (x + y) \div 10000])

(* The PSW after a 16-bit operation on x and y, done a byte at a time. *)
Signed16(x) == IF x < 32768 THEN x ELSE x - 65536
FlagsWanted(result, halfCarry, signed) ==
    128 * Truth(result \notin 0..65535) + 64 * Truth(halfCarry)
      + 4 * Truth(signed \notin -32768..32767) + OddOnes(Msb(result % 65536))

(* 16-bit difference: SUBB with an immediate and with a register. *)
WordDifference(x, y) == Batch(
    At(0, << \h75, \h30, Lsb(x), \h7A, Msb(x), \hC3,              \* MOV 30h,#  MOV R2,#  CLR C
             \hE5, \h30, \h94, Lsb(y), \hF5, \h32,                \* MOV A,30h  SUBB A,#  MOV 32h,A
             \hEA, \h7B, Msb(y), \h9B, \hF5, \h33,                \* MOV A,R2  MOV R3,#  SUBB A,R3  MOV 33h,A
             \h85, \hD0, \h34, \hA5 >>),                          \* MOV 34h,PSW  BREAK
    [a \in \h32..\h34 |-> CASE a = \h32 -> Lsb((x - y) % 65536)
                            [] a = \h33 -> Msb((x - y) % 65536)
                            [] a = \h34 -> FlagsWanted(x - y, x % 4096 < y % 4096,
                                                       Signed16(x) - Signed16(y))])

(* 16-bit sum: ADD and ADDC with direct bytes. *)
WordSum(x, y) == Batch(
    At(0, << \h75, \h30, Lsb(y), \h75, \h31, Msb(y),              \* MOV 30h,#  MOV 31h,#
             \h74, Lsb(x), \h25, \h30, \hF5, \h32,                \* MOV A,#  ADD A,30h  MOV 32h,A
             \h74, Msb(x), \h35, \h31, \hF5, \h33,                \* MOV A,#  ADDC A,31h  MOV 33h,A
             \h85, \hD0, \h34, \hA5 >>),                          \* MOV 34h,PSW  BREAK
    [a \in \h32..\h34 |-> CASE a = \h32 -> Lsb(x + y)
                            [] a = \h33 -> Msb(x + y)
                            [] a = \h34 -> FlagsWanted(x + y, (x % 4096) + (y % 4096) > 4095,
                                                       Signed16(x) + Signed16(y))])

(* 16-bit by 8-bit product, then y in decimal digits, then a division by 0. *)
ProductAndDigits(x, y) == Batch(
    At(0, << \h74, Lsb(x), \h75, \hF0, y, \hA4, \hF5, \h30,       \* MOV A,#  MOV B,#y  MUL AB  MOV 30h,A
             \h85, \hF0, \h31,                                    \* MOV 31h,B
             \h74, Msb(x), \h75, \hF0, y, \hA4, \h25, \h31,       \* MOV A,#  MOV B,#y  MUL AB  ADD A,31h
             \hF5, \h31, \hE4, \h35, \hF0, \hF5, \h32,            \* MOV 31h,A  CLR A  ADDC A,B  MOV 32h,A
             \h74, y, \h75, \hF0, 100, \h84, \hF5, \h33,          \* MOV A,#y  MOV B,#100  DIV AB  MOV 33h,A
             \h74, 10, \hC5, \hF0, \h84, \hC4, \h45, \hF0,        \* MOV A,#10  XCH A,B  DIV AB  SWAP A  ORL A,B
             \hF5, \h34, \hE4, \hF5, \hF0, \h84,                  \* MOV 34h,A  CLR A  MOV B,A  DIV AB
             \hA2, \hD2, \h33, \hF5, \h35, \hA5 >>),              \* MOV C,OV  RLC A  MOV 35h,A  BREAK
    [a \in \h30..\h35 |-> CASE a = \h30 -> Lsb(x * y)
                            [] a = \h31 -> Msb(x * y)
                            [] a = \h32 -> (x * y) \div 65536
                            [] a = \h33 -> y \div 100
                            [] a = \h34 -> Bcd(y % 100)
                            [] a = \h35 -> 1])

(* The least of three bytes. *)
Least(x, y, z) == Batch(
    At(0, << \h75, \h30, x, \h75, \h31, y, \h75, \h32, z,         \* MOV 30h,#  MOV 31h,#  MOV 32h,#
             \h78, \h30, \h7F, 3, \h74, \hFF,                     \* MOV R0,#30h  MOV R7,#3  MOV A,#FFh
             \h86, \h40, \hB5, \h40, 0, \h40, 2, \hE5, \h40,      \* MOV 40h,@R0  CJNE A,40h,+0  JC +2  MOV A,40h
             \h08, \hDF, \hF4, \hF5, \h41, \hA5 >>),              \* INC R0  DJNZ R7,-12  MOV 41h,A  BREAK
    [a \in {\h41} |-> CHOOSE m \in {x, y, z} : \A n \in {x, y, z} : m <= n])

(* The number of ones in x. *)
Ones(x) == Batch(
    At(0, << \h74, x, \h7A, 0, \h60, \h08,                        \* MOV A,#x  MOV R2,#0  JZ +8
             \hC3, \h13, \h50, 1, \h0A, \h70, \hF9, 0,            \* CLR C  RRC A  JNC +1  INC R2  JNZ -7  NOP
             \h8A, \h30, \hA5 >>),                                \* MOV 30h,R2  BREAK
    [a \in {\h30} |-> Cardinality({k \in 0..7 : BitOf(x, k) = 1})])

(* Digits exchanged between A and a register of bank 1, logic and rotates. *)
Digits(x, y) == Batch(
    At(0, << \h75, \hD0, 8, \h78, x, \h75, \hD0, 0,               \* MOV PSW,#8  MOV R0,#x  MOV PSW,#0
             \h79, 8, \h74, y, \hD7, \h87, \h30, \hC7,            \* MOV R1,#8  MOV A,#y  XCHD A,@R1  MOV 30h,@R1  XCH A,@R1
             \hF5, \h31, \hE7, \h64, \hFF, \hF4, \h23, \h03,      \* MOV 31h,A  MOV A,@R1  XRL A,#FFh  CPL A  RL A  RR A
             \h54, \h0F, \h44, \hA0, \hF5, \h32,                  \* ANL A,#0Fh  ORL A,#A0h  MOV 32h,A
             \h05, \h32, \h15, \h32, \hD5, \h32, 0,               \* INC 32h  DEC 32h  DJNZ 32h,+0
             \h78, \h33, \hA6, \h32, \hAB, \h33, \h0B, \h8B, \h34, \* MOV R0,#33h  MOV @R0,32h  MOV R3,33h  INC R3  MOV 34h,R3
             \h53, \h30, \hF0, \h62, \h31, \hD2, \h05, \hA5 >>),  \* ANL 30h,#F0h  XRL 31h,A  SETB 20h.5  BREAK
    LET mixed == (y - (y % 16)) + (x % 16)
        kept  == (x - (x % 16)) + (y % 16)
        tail  == 160 + (x % 16)
    IN  [a \in \h30..\h34 \cup {\h20} |->
            CASE a = \h30 -> kept - (kept % 16)
              [] a = \h31 -> Xor(kept, tail)
              [] a = \h32 -> tail - 1
              [] a = \h33 -> tail - 1
              [] a = \h34 -> tail
              [] a = \h20 -> 32])

(* Calls from a page boundary, with a stack that wraps from FFh to 00h. *)
Calls(v) == Batch(
       At(0, << \h75, \h81, \hFD, \h74, v, \h12, 7, \hFC,         \* MOV SP,#FDh  MOV A,#v  LCALL 07FCh
                \hF5, \h30, 2, 0, \h10 >>)                        \* MOV 30h,A  LJMP 0010h
    @@ At(\h10, << \h90, 0, \h20, \h74, 4, \h73 >>)               \* MOV DPTR,#0020h  MOV A,#4  JMP @A+DPTR
    @@ At(\h24, << \h01, \h28 >>)                                 \* AJMP 0028h
    @@ At(\h28, << \h80, 2 >>)                                    \* SJMP +2
    @@ At(\h2C, << \h31, 0, \hA5 >>)                              \* ACALL 0100h  BREAK
    @@ At(\h100, << \h32 >>)                                      \* RETI
    @@ At(\h7FC, << \hC0, \hE0, \h11, \h10 >>)                    \* PUSH ACC  ACALL 0810h
    @@ At(\h800, << \hD0, \hF0, \h25, \hF0, \h22 >>)              \* POP B  ADD A,B  RET
    @@ At(\h810, << \h04, \h22 >>),                               \* INC A  RET
    [a \in {\h30} |-> (2 * v + 1) % 256])

(* Code and external memory, past the end of XRAM and of the address space. *)
Copy == Batch(
       At(0, << \h90, 0, \h40, \hE4, \h93, \h78, 2, \hF2,         \* MOV DPTR,#40h  CLR A  MOVC A,@A+DPTR  MOV R0,#2  MOVX @R0,A
                \hE4, \hE2, \hF5, \h30,                           \* CLR A  MOVX A,@R0  MOV 30h,A
                \h90, \hFF, \hFF, \hE0, \hF5, \h31,               \* MOV DPTR,#FFFFh  MOVX A,@DPTR  MOV 31h,A
                \hA3, \h74, \h77, \hF0, \h79, 0, \hE3,            \* INC DPTR  MOV A,#77h  MOVX @DPTR,A  MOV R1,#0  MOVX A,@R1
                \hF5, \h32, \h74, 2, \h83, \hF5, \h33, \hA5 >>)   \* MOV 32h,A  MOV A,#2  MOVC A,@A+PC  MOV 33h,A  BREAK
    @@ At(\h40, << \h5A >>),
    [a \in \h30..\h33 |-> <<\h5A, \hFF, \h77, \hA5>>[a - \h2F]])

(* Timer 0 from th:tl for 2n + 2 machine cycles, with TR1 set as well. *)
Timer(mode, th, tl, n) == Batch(
    At(0, << \h75, \h89, mode, \h75, \h8A, tl, \h75, \h8C, th,    \* MOV TMOD,#  MOV TL0,#  MOV TH0,#
             \h78, n, \h75, \h88, \h50, \hD8, \hFE,               \* MOV R0,#n  MOV TCON,#50h  DJNZ R0,-2
             \hC2, \h8C, \h85, \h8A, \h30, \h85, \h8C, \h31,      \* CLR TR0  MOV 30h,TL0  MOV 31h,TH0
             \h85, \h88, \h32, \hA5 >>),                          \* MOV 32h,TCON  BREAK
    LET t == 2 * n + 2
        sum13 == th * 32 + (tl % 32) + t
        sum16 == th * 256 + tl + t
        full == tl + t >= 256
        low == CASE mode = 0 -> (tl - (tl % 32)) + (sum13 % 32)
                 [] mode = 1 -> sum16 % 256
                 [] mode = 2 -> IF full THEN th + ((tl + t - 256) % (256 - th)) ELSE tl + t
                 [] mode = 3 -> (tl + t) % 256
        high == CASE mode = 0 -> (sum13 \div 32) % 256
                  [] mode = 1 -> (sum16 \div 256) % 256
                  [] mode = 2 -> th
                  [] mode = 3 -> (th + t) % 256
        tf0 == CASE mode = 0 -> sum13 >= 2^13 [] mode = 1 -> sum16 >= 2^16 [] OTHER -> full
        tf1 == mode = 3 /\ th + t >= 256
    IN  [a \in \h30..\h32 |-> CASE a = \h30 -> low
                                [] a = \h31 -> high
                                [] a = \h32 -> 64 + 32 * Truth(tf0) + 128 * Truth(tf1)])

(* Bit and byte instructions on port 1, for ever, while its pins move. *)
PortBits == [code |->
    At(0, << \hD2, \h90, \hC2, \h91, \hB2, \h92, \hD3, \h92, \h97, \* SETB P1.0  CLR P1.1  CPL P1.2  SETB C  MOV P1.7,C
             \h10, \h94, 0, \h43, \h90, \hF0, \hA2, \h95,         \* JBC P1.4,+0  ORL P1,#F0h  MOV C,P1.5
             \h72, \h96, \hB0, \h97, \h82, \h90, \hA0, \h91,      \* ORL C,P1.6  ANL C,/P1.7  ANL C,P1.0  ORL C,/P1.1
             \h42, \h90, \h52, \h90, \hB3, \h30, \h93, 0,         \* ORL P1,A  ANL P1,A  CPL C  JNB P1.3,+0
             \h20, \h90, 0, \h50, 0, \h40, 0, \h63, \h90, \hFF,   \* JB P1.0,+0  JNC +0  JC +0  XRL P1,#FFh
             \h80, \hD3 >>),                                      \* SJMP 0
    input |-> <<>>, pins |-> {\hFF, \h0F, \hA5}, want |-> <<>>]

(* The echo firmware, sent four bytes. *)
Echo == [code |-> EchoCode, input |-> <<1, 2, 3, 4>>, pins |-> {\hFF}, want |-> <<>>]

Decimals == {0, 9, 99, 1234, 5678, 9999}
Words == {0, 1, \h7F, \h80, \hFF, \hFFF, \h1234, \h7FFF, \h8000, \hFFFF}
Bytes == {0, 1, 99, 100, 200, 255}

MCPrograms ==
         {DecimalSum(x, y) : x \in Decimals, y \in Decimals}
    \cup {WordDifference(x, y) : x \in Words, y \in Words}
    \cup {WordSum(x, y) : x \in Words, y \in Words}
    \cup {ProductAndDigits(x, y) : x \in Words, y \in Bytes}
    \cup {Least(x, y, z) : x \in {0, 200}, y \in {1, 200}, z \in {0, 255}}
    \cup {Ones(x) : x \in Bytes} \cup {Digits(x, y) : x \in {\h12, \hF0}, y \in {\h34, \h0F}}
    \cup {Calls(v) : v \in {3, 200}}
    \cup {Timer(mode, th, tl, n) : mode \in 0..3, th \in {0, 200, 255}, tl \in {0, 31, 250}, n \in {1, 60}}
    \cup {Copy, PortBits, Echo}
=============================================================================
