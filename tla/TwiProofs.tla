------------------------------ MODULE TwiProofs ------------------------------
(***************************************************************************)
(* Proofs about Twi, for every width of a byte, every address of the slave *)
(* and every timing.  A step is at most two things: what an instruction    *)
(* writes to TWCR and the completion of the operation that is then         *)
(* pending.  Each is proved to keep Good, which relates master and slave,  *)
(* and to be a step of the abstract memory.                                *)
(***************************************************************************)
EXTENDS Twi, TLAPS

\* Which operation can be pending, and which status has been reported, where the
\* master is in a transfer; and what the slave then is.
Shape(t, s) ==
    /\ t.bus = "start_sent" => t.status \in {"start", "rep_start"}
    /\ t.bus = "mt_addr" => t.status \in {"mt_sla_ack", "mt_sla_nack"}
    /\ t.bus = "mt_data" => t.status = "mt_data_ack"
    /\ t.bus = "mr_addr" => t.status \in {"mr_sla_ack", "mr_sla_nack"}
    /\ t.bus = "mr_data" => t.status \in {"mr_data_ack", "mr_data_nack"}
    /\ t.op = "sla" => t.bus = "start_sent"
    /\ t.op = "tx" => t.bus \in {"mt_addr", "mt_data"} /\ s.addressed
    /\ t.op = "rx" => t.bus \in {"mr_addr", "mr_data"}

\* StatusTellsTruth of the registers t and the slave s.
Truth(t, s) ==
    /\ t.status = "mt_sla_ack" => s.addressed /\ s.first
    /\ t.status = "mr_sla_ack" => s.addressed /\ ~s.first
    /\ t.status = "mt_data_ack" => s.addressed /\ ~s.first
    /\ t.status \in {"start", "rep_start", "mt_sla_nack", "mr_sla_nack"} => ~s.addressed
    /\ t.status # "mt_data_nack"

Good(t, s) == t \in Master /\ s \in Slave /\ Shape(t, s) /\ Truth(t, s)

IInv == /\ Good(twi, slave)
        /\ core \in [accum : 0..Interval - 1, asleep : BOOLEAN]
-----------------------------------------------------------------------------
(***************************************************************************)
(* The virtual slave.                                                      *)
(***************************************************************************)
LEMMA ByteFacts ==
    /\ ByteSize \in Nat \ {0} /\ 0 \in Byte /\ ByteSize - 1 \in Byte
    /\ \A i \in Int : i % ByteSize \in Byte
    /\ \A b \in Byte : b \in Nat /\ b % 2 \in {0, 1} /\ b \div 2 \in Nat
  <1>1. ByteSize \in Nat \ {0}
    BY TwiAssumption
  <1> QED
    BY <1>1 DEF Byte

\* An address byte is the slave's in one of two ways.
LEMMA AddressByte ==
    ASSUME NEW b \in Byte
    PROVE  /\ b \div 2 = SlaveAddr <=> b \in {2 * SlaveAddr, 2 * SlaveAddr + 1}
           /\ b = 2 * SlaveAddr => b % 2 = 0
           /\ b = 2 * SlaveAddr + 1 => b % 2 = 1
  <1>1. b \in Nat /\ SlaveAddr \in Nat
    BY ByteFacts, TwiAssumption
  <1>2. b = 2 * (b \div 2) + (b % 2) /\ b % 2 \in {0, 1} /\ b \div 2 \in Nat
    BY <1>1
  <1> QED
    BY <1>1, <1>2

LEMMA VirtFields ==
    ASSUME NEW s \in Slave, NEW b \in Byte
    PROVE  /\ VirtStart(s) \in Slave
           /\ ~ VirtStart(s).addressed
           /\ VirtStart(s).ptr = s.ptr /\ VirtStart(s).regs = s.regs
           /\ VirtStop(s) \in Slave
           /\ ~ VirtStop(s).addressed
           /\ VirtStop(s).ptr = s.ptr /\ VirtStop(s).regs = s.regs
           /\ VirtRead(s) \in Slave
           /\ VirtRead(s).addressed = s.addressed /\ VirtRead(s).first = s.first
           /\ VirtRead(s).regs = s.regs
           /\ VirtRead(s).ptr = IF s.addressed THEN (s.ptr + 1) % ByteSize ELSE s.ptr
           /\ ReadValue(s) \in Byte
  <1>1. s.ptr \in Byte /\ (s.ptr + 1) % ByteSize \in Byte /\ ByteSize - 1 \in Byte
    BY ByteFacts DEF Slave
  <1> QED
    BY <1>1 DEF Slave, VirtStart, VirtStop, VirtRead, ReadValue

LEMMA VirtWriteFields ==
    ASSUME NEW s \in Slave, NEW b \in Byte
    PROVE  /\ VirtWrite(s, b) \in Slave
           /\ VirtWrite(s, b).addressed <=> s.addressed \/ b \div 2 = SlaveAddr
           /\ ~ s.addressed => /\ VirtWrite(s, b).ptr = s.ptr
                               /\ VirtWrite(s, b).regs = s.regs
                               /\ b \div 2 = SlaveAddr => (VirtWrite(s, b).first <=> b % 2 = 0)
           /\ s.addressed => /\ ~ VirtWrite(s, b).first
                             /\ s.first => /\ VirtWrite(s, b).ptr = b
                                           /\ VirtWrite(s, b).regs = s.regs
                             /\ ~ s.first => /\ VirtWrite(s, b).ptr = (s.ptr + 1) % ByteSize
                                             /\ VirtWrite(s, b).regs = [s.regs EXCEPT ![s.ptr] = b]
  <1>1. /\ s.ptr \in Byte /\ (s.ptr + 1) % ByteSize \in Byte
        /\ s.addressed \in BOOLEAN /\ s.first \in BOOLEAN /\ s.regs \in [Byte -> Byte]
    BY ByteFacts DEF Slave
  <1>2. CASE ~ s.addressed /\ b \div 2 = SlaveAddr
    <2>1. VirtWrite(s, b) = [s EXCEPT !.addressed = TRUE, !.first = (b % 2 = 0)]
      BY <1>1, <1>2 DEF VirtWrite
    <2> QED
      BY <1>1, <1>2, <2>1 DEF Slave
  <1>3. CASE ~ s.addressed /\ b \div 2 # SlaveAddr
    <2>1. VirtWrite(s, b) = s
      BY <1>1, <1>3 DEF VirtWrite
    <2> QED
      BY <1>1, <1>3, <2>1
  <1>4. CASE s.addressed /\ s.first
    <2>1. VirtWrite(s, b) = [s EXCEPT !.ptr = b, !.first = FALSE]
      BY <1>1, <1>4 DEF VirtWrite
    <2> QED
      BY <1>1, <1>4, <2>1 DEF Slave
  <1>5. CASE s.addressed /\ ~ s.first
    <2>1. VirtWrite(s, b) = [s EXCEPT !.regs[s.ptr] = b, !.ptr = (@ + 1) % ByteSize]
      BY <1>1, <1>5 DEF VirtWrite
    <2>2. [s.regs EXCEPT ![s.ptr] = b] \in [Byte -> Byte]
      BY <1>1
    <2> QED
      BY <1>1, <1>5, <2>1, <2>2 DEF Slave
  <1> QED
    BY <1>1, <1>2, <1>3, <1>4, <1>5
-----------------------------------------------------------------------------
(***************************************************************************)
(* The completion of an operation.                                         *)
(***************************************************************************)
LEMMA FinishedFields ==
    ASSUME NEW t \in Master, NEW code \in Status, NEW where \in BusState
    PROVE  /\ Finished(t, code, where) \in Master
           /\ Finished(t, code, where).op = "none"
           /\ Finished(t, code, where).status = code
           /\ Finished(t, code, where).bus = where
           /\ Finished(t, code, where).twint
           /\ Finished(t, code, where).twsto = t.twsto
  <1>1. 0 \in Byte /\ 0 \in 0..ByteTime
    BY ByteFacts, TwiAssumption
  <1> QED
    BY <1>1 DEF Finished, AtRest, Master, Op

\* START and repeated START.
LEMMA CompleteStart ==
    ASSUME NEW t, NEW s, Good(t, s), t.op = "start"
    PROVE  LET c == CompleteMaster(t, s)
               d == CompleteSlave(t, s)
           IN  /\ Good(c, d)
               /\ c.op = "none" /\ c.twint /\ c.twsto = t.twsto
               /\ c.bus = "start_sent"
               /\ d.ptr = s.ptr /\ d.regs = s.regs
  <1> DEFINE status == IF t.bus = "idle" THEN "start" ELSE "rep_start"
  <1>1. t \in Master /\ s \in Slave /\ status \in Status /\ "start_sent" \in BusState
    BY DEF Good, Status, BusState
  <1>2. status \in {"start", "rep_start"}
    OBVIOUS
  <1>3. CompleteMaster(t, s) = Finished(t, status, "start_sent")
    BY DEF CompleteMaster
  <1>4. CompleteSlave(t, s) = VirtStart(s)
    BY DEF CompleteSlave
  <1> HIDE DEF status
  <1>5. /\ Finished(t, status, "start_sent") \in Master
        /\ Finished(t, status, "start_sent").op = "none"
        /\ Finished(t, status, "start_sent").status = status
        /\ Finished(t, status, "start_sent").bus = "start_sent"
        /\ Finished(t, status, "start_sent").twint
        /\ Finished(t, status, "start_sent").twsto = t.twsto
    BY <1>1, FinishedFields
  <1>6. /\ VirtStart(s) \in Slave /\ ~ VirtStart(s).addressed
        /\ VirtStart(s).ptr = s.ptr /\ VirtStart(s).regs = s.regs
    BY <1>1, ByteFacts, VirtFields
  <1>7. Shape(Finished(t, status, "start_sent"), VirtStart(s))
    BY <1>2, <1>5 DEF Shape
  <1>8. Truth(Finished(t, status, "start_sent"), VirtStart(s))
    BY <1>2, <1>5, <1>6 DEF Truth
  <1> QED
    BY <1>3, <1>4, <1>5, <1>6, <1>7, <1>8 DEF Good

\* The address byte: the slave was not addressed, and is if it acknowledges.
LEMMA CompleteSla ==
    ASSUME NEW t, NEW s, Good(t, s), t.op = "sla"
    PROVE  LET c == CompleteMaster(t, s)
               d == CompleteSlave(t, s)
           IN  /\ Good(c, d)
               /\ c.op = "none" /\ c.twint /\ c.twsto = t.twsto
               /\ c.bus = IF t.data % 2 = 0 THEN "mt_addr" ELSE "mr_addr"
               /\ d.ptr = s.ptr /\ d.regs = s.regs
               /\ d.addressed <=> t.data \div 2 = SlaveAddr
               /\ d.addressed => (d.first <=> t.data % 2 = 0)
  <1> DEFINE ack == Acknowledges(s, t.data)
             status == SlaStatus(t, ack)
             bus == IF t.data % 2 = 0 THEN "mt_addr" ELSE "mr_addr"
  <1>1. t \in Master /\ s \in Slave /\ t.data \in Byte /\ t.data % 2 \in {0, 1}
    BY ByteFacts DEF Good, Master
  <1>2. t.bus = "start_sent" /\ ~ s.addressed
    BY DEF Good, Shape, Truth
  <1>3. ack <=> t.data \div 2 = SlaveAddr
    BY <1>2 DEF Acknowledges
  <1>4. CompleteMaster(t, s) = Finished(t, status, bus)
    BY DEF CompleteMaster
  <1>5. CompleteSlave(t, s) = VirtWrite(s, t.data)
    BY DEF CompleteSlave
  <1> HIDE DEF ack
  <1>6. status = IF t.data % 2 = 0 THEN IF ack THEN "mt_sla_ack" ELSE "mt_sla_nack"
                                   ELSE IF ack THEN "mr_sla_ack" ELSE "mr_sla_nack"
    BY <1>1 DEF SlaStatus
  <1> HIDE DEF status
  <1>7. status \in Status /\ bus \in BusState
    BY <1>6 DEF Status, BusState
  <1>8. /\ Finished(t, status, bus) \in Master
        /\ Finished(t, status, bus).op = "none"
        /\ Finished(t, status, bus).status = status
        /\ Finished(t, status, bus).bus = bus
        /\ Finished(t, status, bus).twint
        /\ Finished(t, status, bus).twsto = t.twsto
    <2> HIDE DEF bus
    <2> QED
      BY <1>1, <1>7, FinishedFields
  <1>9. /\ VirtWrite(s, t.data) \in Slave
        /\ VirtWrite(s, t.data).addressed <=> ack
        /\ VirtWrite(s, t.data).ptr = s.ptr /\ VirtWrite(s, t.data).regs = s.regs
        /\ ack => (VirtWrite(s, t.data).first <=> t.data % 2 = 0)
    BY <1>1, <1>2, <1>3, VirtWriteFields
  <1>10. Shape(Finished(t, status, bus), VirtWrite(s, t.data))
    BY <1>6, <1>8 DEF Shape
  <1>11. Truth(Finished(t, status, bus), VirtWrite(s, t.data))
    BY <1>6, <1>8, <1>9 DEF Truth
  <1> QED
    BY <1>3, <1>4, <1>5, <1>8, <1>9, <1>10, <1>11 DEF Good

\* A data byte to a slave that is addressed: a register pointer or a register.
LEMMA CompleteTx ==
    ASSUME NEW t, NEW s, Good(t, s), t.op = "tx"
    PROVE  LET c == CompleteMaster(t, s)
               d == CompleteSlave(t, s)
           IN  /\ Good(c, d)
               /\ c.op = "none" /\ c.twint /\ c.twsto = t.twsto
               /\ c.bus = "mt_data"
               /\ d = VirtWrite(s, t.data)
               /\ d.addressed /\ ~ d.first
  <1>1. t \in Master /\ s \in Slave /\ t.data \in Byte
    BY DEF Good, Master
  <1>2. s.addressed
    BY DEF Good, Shape
  <1>3. CompleteMaster(t, s) = Finished(t, "mt_data_ack", "mt_data")
    BY <1>2 DEF CompleteMaster, Acknowledges
  <1>4. CompleteSlave(t, s) = VirtWrite(s, t.data)
    BY DEF CompleteSlave
  <1>5. "mt_data_ack" \in Status /\ "mt_data" \in BusState
    BY DEF Status, BusState
  <1> DEFINE c == Finished(t, "mt_data_ack", "mt_data")
  <1>6. /\ c \in Master /\ c.op = "none" /\ c.status = "mt_data_ack" /\ c.bus = "mt_data"
        /\ c.twint /\ c.twsto = t.twsto
    BY <1>1, <1>5, FinishedFields
  <1>7. VirtWrite(s, t.data) \in Slave /\ VirtWrite(s, t.data).addressed
        /\ ~ VirtWrite(s, t.data).first
    BY <1>1, <1>2, VirtWriteFields
  <1> HIDE DEF c
  <1>8. Shape(c, VirtWrite(s, t.data))
    BY <1>6 DEF Shape
  <1>9. Truth(c, VirtWrite(s, t.data))
    BY <1>6, <1>7 DEF Truth
  <1> QED
    BY <1>3, <1>4, <1>6, <1>7, <1>8, <1>9 DEF Good, c

\* A byte read: only the slave's pointer moves.
LEMMA CompleteRx ==
    ASSUME NEW t, NEW s, Good(t, s), t.op = "rx"
    PROVE  LET c == CompleteMaster(t, s)
               d == CompleteSlave(t, s)
           IN  /\ Good(c, d)
               /\ c.op = "none" /\ c.twint /\ c.twsto = t.twsto
               /\ c.bus = "mr_data"
               /\ d = VirtRead(s)
  <1> DEFINE u == [t EXCEPT !.twdr = ReadValue(s)]
             status == IF t.ack THEN "mr_data_ack" ELSE "mr_data_nack"
             c == Finished(u, status, "mr_data")
  <1>1. t \in Master /\ s \in Slave /\ 0 \in Byte
    BY ByteFacts DEF Good
  <1>2. ReadValue(s) \in Byte /\ VirtRead(s) \in Slave
    BY <1>1, VirtFields
  <1>3. u \in Master /\ u.twsto = t.twsto
    BY <1>1, <1>2 DEF Master
  <1>4. CompleteMaster(t, s) = c
    BY DEF CompleteMaster
  <1>5. CompleteSlave(t, s) = VirtRead(s)
    BY DEF CompleteSlave
  <1>6. status \in Status /\ "mr_data" \in BusState /\ status \in {"mr_data_ack", "mr_data_nack"}
    BY DEF Status, BusState
  <1> HIDE DEF u, status
  <1>7. /\ c \in Master /\ c.op = "none" /\ c.status = status /\ c.bus = "mr_data"
        /\ c.twint /\ c.twsto = u.twsto
    BY <1>3, <1>6, FinishedFields
  <1> HIDE DEF c
  <1>8. Shape(c, VirtRead(s))
    BY <1>6, <1>7 DEF Shape
  <1>9. Truth(c, VirtRead(s))
    BY <1>6, <1>7 DEF Truth
  <1> QED
    BY <1>2, <1>3, <1>4, <1>5, <1>7, <1>8, <1>9 DEF Good

\* STOP.
LEMMA CompleteStop ==
    ASSUME NEW t \in Master, NEW s \in Slave, t.op = "stop"
    PROVE  LET c == CompleteMaster(t, s)
               d == CompleteSlave(t, s)
           IN  /\ Good(c, d)
               /\ c.op = "none" /\ ~ c.twsto
               /\ c.bus = "idle"
               /\ d = VirtStop(s)
  <1> DEFINE c == [AtRest(t) EXCEPT !.bus = "idle", !.status = "no_info", !.twsto = FALSE]
  <1>1. CompleteMaster(t, s) = c
    BY DEF CompleteMaster
  <1>2. CompleteSlave(t, s) = VirtStop(s)
    BY DEF CompleteSlave
  <1>3. 0 \in Byte /\ 0 \in 0..ByteTime
    BY ByteFacts, TwiAssumption
  <1>4. c \in Master /\ c.op = "none" /\ ~ c.twsto /\ c.bus = "idle" /\ c.status = "no_info"
    BY <1>3 DEF AtRest, Master, Op, BusState, Status
  <1>5. VirtStop(s) \in Slave
    BY <1>3, VirtFields
  <1> HIDE DEF c
  <1>6. Shape(c, VirtStop(s)) /\ Truth(c, VirtStop(s))
    BY <1>4 DEF Shape, Truth
  <1> QED
    BY <1>1, <1>2, <1>4, <1>5, <1>6 DEF Good
-----------------------------------------------------------------------------
(***************************************************************************)
(* A write to TWCR.                                                        *)
(***************************************************************************)
\* The operation begun, the rest of the registers as they were.
LEMMA BeginFields ==
    ASSUME NEW t \in Master, NEW op \in Op, NEW u, u = Begin(t, op, Scl)
    PROVE  /\ u \in Master /\ u.op = op /\ u.bus = t.bus /\ u.status = t.status
           /\ u.twsto = t.twsto
  <1>1. 0 \in Byte /\ 0 \in 0..ByteTime /\ Scl \in 0..ByteTime
    BY ByteFacts, TwiAssumption
  <1> QED
    BY <1>1 DEF Begin, AtRest, Master, Op

LEMMA BeginByteFields ==
    ASSUME NEW t \in Master, NEW op \in Op, NEW u, u = BeginByte(t, op)
    PROVE  /\ u \in Master /\ u.op = op /\ u.bus = t.bus /\ u.status = t.status
           /\ u.twsto = t.twsto
  <1>1. 0 \in Byte /\ 0 \in 0..ByteTime /\ ByteTime \in 0..ByteTime /\ t.twdr \in Byte
    BY ByteFacts, TwiAssumption DEF Master
  <1> QED
    BY <1>1 DEF Begin, BeginByte, AtRest, Master, Op

\* The write itself leaves the operation, the bus and the status alone.
LEMMA StoredFields ==
    ASSUME NEW t \in Master, NEW v \in Control
    PROVE  /\ Stored(t, v) \in Master
           /\ Stored(t, v).op = t.op /\ Stored(t, v).bus = t.bus
           /\ Stored(t, v).status = t.status
           /\ ~ Stored(t, v).twint /\ (Stored(t, v).twsto <=> v.sto)
  BY DEF Stored, Master, Control

\* Firmware that heeds a refusal, of the registers t.
HeedsOf(t, v) ==
    v.en /\ v.int /\ ~v.sta /\ ~v.sto
        => t.status \notin {"mt_sla_nack", "mr_sla_nack", "mt_data_nack"}

\* Waiting, of the registers t.
WaitingOf(t) == \/ t.bus # "idle" /\ ~t.twint /\ t.op = "none"
                \/ t.twsto /\ t.op # "stop"

\* The operation that TWINT starts can be one that the bus is ready for.
LEMMA NextOpGood ==
    ASSUME NEW t, NEW s, Good(t, s), NEW v \in Control, v.en, v.int, ~ v.sto,
           HeedsOf(t, v), ~ t.twsto
    PROVE  LET u == NextOp(t, v)
           IN  /\ Good(u, s)
               /\ u.bus = t.bus
               /\ ~ WaitingOf(u)
  <1>1. t \in Master /\ t.bus \in BusState /\ Shape(t, s) /\ Truth(t, s) /\ s \in Slave
    BY DEF Good, Master
  <1>2. v.sta \in BOOLEAN /\ v.ea \in BOOLEAN /\ "start" \in Op /\ "sla" \in Op /\ "tx" \in Op
    BY DEF Control, Op
  <1> SUFFICES ASSUME NEW u, u = NextOp(t, v)
               PROVE  Good(u, s) /\ u.bus = t.bus /\ ~ WaitingOf(u)
    OBVIOUS
  <1>3. CASE v.sta
    <2>1. u = Begin(t, "start", Scl)
      BY <1>3 DEF NextOp
    <2>2. u \in Master /\ u.op = "start" /\ u.bus = t.bus /\ u.status = t.status
          /\ ~ u.twsto
      BY <1>1, <1>2, <2>1, BeginFields
    <2> QED
      BY <1>1, <2>2 DEF Good, Shape, Truth, WaitingOf
  <1>4. CASE ~ v.sta /\ t.bus = "start_sent"
    <2>1. u = BeginByte(t, "sla")
      BY <1>4 DEF NextOp
    <2>2. u \in Master /\ u.op = "sla" /\ u.bus = t.bus /\ u.status = t.status
          /\ ~ u.twsto
      BY <1>1, <1>2, <2>1, BeginByteFields
    <2> QED
      BY <1>1, <1>4, <2>2 DEF Good, Shape, Truth, WaitingOf
  <1>5. CASE ~ v.sta /\ t.bus \in {"mt_addr", "mt_data"}
    <2>1. u = BeginByte(t, "tx")
      BY <1>5 DEF NextOp
    <2>2. u \in Master /\ u.op = "tx" /\ u.bus = t.bus /\ u.status = t.status
          /\ ~ u.twsto
      BY <1>1, <1>2, <2>1, BeginByteFields
    <2>3. t.status \notin {"mt_sla_nack", "mr_sla_nack", "mt_data_nack"}
      BY <1>5 DEF HeedsOf
    <2>4. t.status \in {"mt_sla_ack", "mt_data_ack"}
      BY <1>1, <1>5, <2>3 DEF Shape
    <2>5. s.addressed
      BY <1>1, <2>4 DEF Truth
    <2> QED
      BY <1>1, <1>5, <2>2, <2>5 DEF Good, Shape, Truth, WaitingOf
  <1>6. CASE ~ v.sta /\ t.bus \in {"mr_addr", "mr_data"}
    <2>1. u = [Begin(t, "rx", ByteTime) EXCEPT !.ack = v.ea]
      BY <1>6 DEF NextOp
    <2>2. u \in Master /\ u.op = "rx" /\ u.bus = t.bus /\ u.status = t.status
          /\ ~ u.twsto
      <3>1. 0 \in Byte /\ 0 \in 0..ByteTime /\ ByteTime \in 0..ByteTime
        BY ByteFacts, TwiAssumption
      <3> QED
        BY <1>1, <1>2, <2>1, <3>1 DEF Begin, AtRest, Master, Op
    <2> QED
      BY <1>1, <1>6, <2>2 DEF Good, Shape, Truth, WaitingOf
  <1>7. CASE ~ v.sta /\ t.bus = "idle"
    <2>1. u = t
      BY <1>7 DEF NextOp
    <2> QED
      BY <1>7, <2>1 DEF WaitingOf
  <1> QED
    BY <1>1, <1>2, <1>3, <1>4, <1>5, <1>6, <1>7 DEF BusState

\* A write to TWCR leaves the transfer and the slave as they are, or frees the
\* bus; with TWINT as one it never leaves the firmware waiting.
LEMMA TwcrGood ==
    ASSUME NEW t, NEW s, Good(t, s), NEW v \in Control, HeedsOf(t, v)
    PROVE  LET u == TwcrMaster(t, s, v)
               w == TwcrSlave(s, v)
           IN  /\ Good(u, w)
               /\ w.ptr = s.ptr /\ w.regs = s.regs
               /\ \/ u.bus = t.bus /\ w = s
                  \/ u.bus = "idle" /\ u.op \in {"none", "start"}
               /\ v.en /\ v.int => ~ WaitingOf(u)
  <1>1. t \in Master /\ s \in Slave /\ Shape(t, s) /\ Truth(t, s)
    BY DEF Good
  <1>2. /\ v.en \in BOOLEAN /\ v.int \in BOOLEAN /\ v.sto \in BOOLEAN /\ v.sta \in BOOLEAN
        /\ "start" \in Op /\ "stop" \in Op
    BY DEF Control, Op
  <1>3. /\ Stored(t, v) \in Master
        /\ Stored(t, v).op = t.op /\ Stored(t, v).bus = t.bus
        /\ Stored(t, v).status = t.status
        /\ ~ Stored(t, v).twint /\ (Stored(t, v).twsto <=> v.sto)
    BY <1>1, StoredFields
  <1>4. Good(Stored(t, v), s) /\ HeedsOf(Stored(t, v), v)
    BY <1>1, <1>3 DEF Good, Shape, Truth, HeedsOf
  <1> SUFFICES ASSUME NEW u, u = TwcrMaster(t, s, v), NEW w, w = TwcrSlave(s, v)
               PROVE  /\ Good(u, w)
                      /\ w.ptr = s.ptr /\ w.regs = s.regs
                      /\ \/ u.bus = t.bus /\ w = s
                         \/ u.bus = "idle" /\ u.op \in {"none", "start"}
                      /\ v.en /\ v.int => ~ WaitingOf(u)
    OBVIOUS
  <1>5. CASE ~ v.en
    <2>1. u = Disabled(t) /\ w = s
      BY <1>5 DEF TwcrMaster, TwcrSlave
    <2>2. 0 \in Byte /\ 0 \in 0..ByteTime
      BY ByteFacts, TwiAssumption
    <2>3. u \in Master /\ u.op = "none" /\ u.bus = "idle" /\ u.status = "no_info"
      BY <1>1, <2>1, <2>2 DEF Disabled, AtRest, Master, Op, BusState, Status
    <2>4. Shape(u, w) /\ Truth(u, w)
      BY <2>3 DEF Shape, Truth
    <2> QED
      BY <1>1, <1>5, <2>1, <2>3, <2>4 DEF Good
  <1>6. CASE v.en /\ ~ v.int
    <2>1. u = Stored(t, v) /\ w = s
      BY <1>6 DEF TwcrMaster, TwcrSlave
    <2> QED
      BY <1>3, <1>4, <1>6, <2>1
  <1>7. CASE v.en /\ v.int /\ v.sto /\ v.sta
    <2> DEFINE m == StopBegun(t, v)
               c == CompleteMaster(m, s)
    <2>1. u = Begin(c, "start", Scl) /\ w = VirtStop(s)
      BY <1>7 DEF TwcrMaster, TwcrSlave
    <2>2. m \in Master /\ m.op = "stop"
      BY <1>2, <1>3, BeginFields DEF StopBegun
    <2>3. CompleteSlave(m, s) = VirtStop(s)
      BY <2>2 DEF CompleteSlave
    <2> HIDE DEF m
    <2>4. Good(c, VirtStop(s)) /\ ~ c.twsto /\ c.bus = "idle"
      BY <1>1, <2>2, <2>3, CompleteStop
    <2> HIDE DEF c
    <2>5. c \in Master /\ Shape(c, w) /\ Truth(c, w) /\ w \in Slave
      BY <2>1, <2>4 DEF Good
    <2>6. u \in Master /\ u.op = "start" /\ u.bus = "idle" /\ u.status = c.status /\ ~ u.twsto
      BY <1>2, <2>1, <2>4, <2>5, BeginFields
    <2>7. Good(u, w)
      BY <2>5, <2>6 DEF Good, Shape, Truth
    <2>8. w.ptr = s.ptr /\ w.regs = s.regs
      BY <1>1, <2>1, ByteFacts, VirtFields
    <2>9. ~ WaitingOf(u)
      BY <2>6 DEF WaitingOf
    <2> QED
      BY <2>6, <2>7, <2>8, <2>9
  <1>8. CASE v.en /\ v.int /\ v.sto /\ ~ v.sta
    <2>1. u = Begin(Stored(t, v), "stop", Scl) /\ w = s
      BY <1>8 DEF TwcrMaster, TwcrSlave, StopBegun
    <2>2. u \in Master /\ u.op = "stop" /\ u.bus = t.bus /\ u.status = t.status
      BY <1>2, <1>3, <2>1, BeginFields
    <2>3. Good(u, w)
      BY <1>1, <2>1, <2>2 DEF Good, Shape, Truth
    <2>4. ~ WaitingOf(u)
      BY <2>2 DEF WaitingOf
    <2> QED
      BY <2>1, <2>2, <2>3, <2>4
  <1>9. CASE v.en /\ v.int /\ ~ v.sto
    <2>1. u = NextOp(Stored(t, v), v) /\ w = s
      BY <1>9 DEF TwcrMaster, TwcrSlave
    <2>2. ~ Stored(t, v).twsto
      BY <1>3, <1>9
    <2>3. Good(u, s) /\ u.bus = t.bus /\ ~ WaitingOf(u)
      BY <1>3, <1>4, <1>9, <2>1, <2>2, NextOpGood
    <2> QED
      BY <2>1, <2>3
  <1> QED
    BY <1>2, <1>5, <1>6, <1>7, <1>8, <1>9
-----------------------------------------------------------------------------
(***************************************************************************)
(* What the bus sees.                                                      *)
(***************************************************************************)
\* Phase, of the registers t and the slave s.
PhaseOf(t, s) ==
    CASE t.bus = "idle" -> "free"
      [] t.bus = "start_sent" -> "started"
      [] t.bus \notin {"idle", "start_sent"} /\ ~s.addressed -> "deaf"
      [] t.bus \in {"mt_addr", "mt_data"} /\ s.addressed ->
             IF s.first THEN "pointing" ELSE "writing"
      [] t.bus \in {"mr_addr", "mr_data"} /\ s.addressed -> "reading"

LEMMA PhaseFacts ==
    ASSUME NEW t, NEW s
    PROVE  /\ t.bus = "idle" => PhaseOf(t, s) = "free"
           /\ t.bus = "start_sent" => PhaseOf(t, s) = "started"
           /\ t.bus \in {"mt_addr", "mt_data", "mr_addr", "mr_data"} /\ ~ s.addressed
                  => PhaseOf(t, s) = "deaf"
           /\ t.bus \in {"mt_addr", "mt_data"} /\ s.addressed /\ s.first
                  => PhaseOf(t, s) = "pointing"
           /\ t.bus \in {"mt_addr", "mt_data"} /\ s.addressed /\ ~ s.first
                  => PhaseOf(t, s) = "writing"
           /\ t.bus \in {"mr_addr", "mr_data"} /\ s.addressed => PhaseOf(t, s) = "reading"
  BY DEF PhaseOf

Same(s, w) == w.ptr = s.ptr /\ w.regs = s.regs

\* A step of I2cMemory from phase p and slave s to phase q and slave w, or none.
BusStep(p, s, q, w) ==
    \/ q = p /\ Same(s, w)
    \/ q \in {"started", "free"} /\ Same(s, w)
    \/ /\ p = "started" /\ Same(s, w)
       /\ \E b \in Byte : q = CASE b = 2 * SlaveAddr -> "pointing"
                                [] b = 2 * SlaveAddr + 1 -> "reading"
                                [] OTHER -> "deaf"
    \/ p = "pointing" /\ q = "writing" /\ w.ptr \in Byte /\ w.regs = s.regs
    \/ /\ p = "writing" /\ q = p /\ w.ptr = (s.ptr + 1) % ByteSize
       /\ \E b \in Byte : w.regs = [s.regs EXCEPT ![s.ptr] = b]
    \/ p = "reading" /\ q = p /\ w.ptr = (s.ptr + 1) % ByteSize /\ w.regs = s.regs

\* A completion is a step of the memory, and it leaves nobody waiting who was not.
LEMMA CompleteStep ==
    ASSUME NEW t, NEW s, Good(t, s), t.op # "none",
           NEW c, c = CompleteMaster(t, s), NEW d, d = CompleteSlave(t, s)
    PROVE  /\ Good(c, d)
           /\ BusStep(PhaseOf(t, s), s, PhaseOf(c, d), d)
           /\ WaitingOf(c) => WaitingOf(t)
           /\ t.op = "start" => PhaseOf(c, d) = "started" /\ Same(s, d)
  <1>1. t \in Master /\ s \in Slave /\ t.data \in Byte /\ Shape(t, s)
    BY DEF Good, Master
  <1>2. CASE t.op = "start"
    <2>1. /\ Good(c, d) /\ c.op = "none" /\ c.twint /\ c.twsto = t.twsto
          /\ c.bus = "start_sent" /\ Same(s, d)
      BY <1>2, CompleteStart DEF Same
    <2>2. PhaseOf(c, d) = "started"
      BY <2>1, PhaseFacts
    <2> QED
      BY <1>2, <2>1, <2>2 DEF BusStep, WaitingOf
  <1>3. CASE t.op = "sla"
    <2>1. /\ Good(c, d) /\ c.op = "none" /\ c.twint /\ c.twsto = t.twsto
          /\ c.bus = IF t.data % 2 = 0 THEN "mt_addr" ELSE "mr_addr"
          /\ Same(s, d)
          /\ d.addressed <=> t.data \div 2 = SlaveAddr
          /\ d.addressed => (d.first <=> t.data % 2 = 0)
      BY <1>3, CompleteSla DEF Same
    <2>2. PhaseOf(t, s) = "started"
      BY <1>1, <1>3, PhaseFacts DEF Shape
    <2>3. PhaseOf(c, d) = CASE t.data = 2 * SlaveAddr -> "pointing"
                            [] t.data = 2 * SlaveAddr + 1 -> "reading"
                            [] OTHER -> "deaf"
      <3>1. CASE t.data = 2 * SlaveAddr
        <4>1. c.bus = "mt_addr" /\ d.addressed /\ d.first
          BY <1>1, <2>1, <3>1, AddressByte
        <4>2. t.data # 2 * SlaveAddr + 1
          BY <3>1, TwiAssumption
        <4>3. PhaseOf(c, d) = "pointing"
          BY <4>1, PhaseFacts
        <4> QED
          BY <3>1, <4>2, <4>3
      <3>2. CASE t.data = 2 * SlaveAddr + 1
        <4>1. c.bus = "mr_addr" /\ d.addressed
          BY <1>1, <2>1, <3>2, AddressByte
        <4>2. t.data # 2 * SlaveAddr
          BY <3>2, TwiAssumption
        <4> QED
          BY <3>2, <4>1, <4>2, PhaseFacts
      <3>3. CASE t.data # 2 * SlaveAddr /\ t.data # 2 * SlaveAddr + 1
        <4>1. c.bus \in {"mt_addr", "mr_addr"} /\ ~ d.addressed
          BY <1>1, <2>1, <3>3, AddressByte
        <4> QED
          BY <3>3, <4>1, PhaseFacts
      <3> QED
        BY <3>1, <3>2, <3>3
    <2> QED
      BY <1>1, <1>3, <2>1, <2>2, <2>3 DEF BusStep, WaitingOf
  <1>4. CASE t.op = "tx"
    <2>1. /\ Good(c, d) /\ c.op = "none" /\ c.twint /\ c.twsto = t.twsto
          /\ c.bus = "mt_data" /\ d = VirtWrite(s, t.data) /\ d.addressed /\ ~ d.first
      BY <1>4, CompleteTx
    <2>2. t.bus \in {"mt_addr", "mt_data"} /\ s.addressed
      BY <1>1, <1>4 DEF Shape
    <2>3. PhaseOf(c, d) = "writing"
      BY <2>1, PhaseFacts
    <2>4. CASE s.first
      <3>1. PhaseOf(t, s) = "pointing"
        BY <2>2, <2>4, PhaseFacts
      <3>2. d.ptr = t.data /\ d.regs = s.regs
        <4>1. /\ VirtWrite(s, t.data).ptr = t.data
              /\ VirtWrite(s, t.data).regs = s.regs
          BY <1>1, <2>2, <2>4, VirtWriteFields, Zenon
        <4> QED
          BY <2>1, <4>1
      <3> QED
        BY <1>1, <1>4, <2>1, <2>3, <3>1, <3>2 DEF BusStep, WaitingOf
    <2>5. CASE ~ s.first
      <3>1. PhaseOf(t, s) = "writing" /\ d.ptr = (s.ptr + 1) % ByteSize
            /\ d.regs = [s.regs EXCEPT ![s.ptr] = t.data]
        BY <1>1, <2>1, <2>2, <2>5, PhaseFacts, VirtWriteFields
      <3> QED
        BY <1>1, <1>4, <2>1, <2>3, <3>1 DEF BusStep, WaitingOf
    <2> QED
      BY <2>4, <2>5
  <1>5. CASE t.op = "rx"
    <2>1. /\ Good(c, d) /\ c.op = "none" /\ c.twint /\ c.twsto = t.twsto
          /\ c.bus = "mr_data" /\ d = VirtRead(s)
      BY <1>5, CompleteRx
    <2>2. t.bus \in {"mr_addr", "mr_data"}
      BY <1>1, <1>5 DEF Shape
    <2>3. /\ d.addressed = s.addressed /\ d.regs = s.regs
          /\ d.ptr = IF s.addressed THEN (s.ptr + 1) % ByteSize ELSE s.ptr
      BY <1>1, <2>1, VirtFields
    <2>4. CASE s.addressed
      <3>1. PhaseOf(t, s) = "reading" /\ PhaseOf(c, d) = "reading"
        BY <2>1, <2>2, <2>3, <2>4, PhaseFacts
      <3> QED
        BY <1>5, <2>1, <2>3, <2>4, <3>1 DEF BusStep, WaitingOf
    <2>5. CASE ~ s.addressed
      <3>1. PhaseOf(t, s) = "deaf" /\ PhaseOf(c, d) = "deaf"
        BY <2>1, <2>2, <2>3, <2>5, PhaseFacts
      <3> QED
        BY <1>5, <2>1, <2>3, <2>5, <3>1 DEF BusStep, Same, WaitingOf
    <2> QED
      BY <2>4, <2>5
  <1>6. CASE t.op = "stop"
    <2>1. Good(c, d) /\ c.op = "none" /\ ~ c.twsto /\ c.bus = "idle" /\ d = VirtStop(s)
      BY <1>1, <1>6, CompleteStop
    <2>2. PhaseOf(c, d) = "free"
      BY <2>1, PhaseFacts
    <2>3. Same(s, d)
      BY <1>1, <2>1, VirtFields DEF Same
    <2> QED
      BY <1>6, <2>1, <2>2, <2>3 DEF BusStep, WaitingOf
  <1> QED
    BY <1>1, <1>2, <1>3, <1>4, <1>5, <1>6 DEF Master, Op

\* Cycles: the operation completes, or comes closer to it.
LEMMA TickStep ==
    ASSUME NEW t, NEW s, Good(t, s), NEW elapsed \in Nat,
           NEW c, c = TickMaster(t, s, elapsed), NEW d, d = TickSlave(t, s, elapsed)
    PROVE  /\ Good(c, d)
           /\ BusStep(PhaseOf(t, s), s, PhaseOf(c, d), d)
           /\ WaitingOf(c) => WaitingOf(t)
           /\ t.op \in {"none", "start"} /\ t.bus = "idle"
                => PhaseOf(c, d) \in {"free", "started"} /\ Same(s, d)
  <1>1. t \in Master /\ t.left \in 0..ByteTime /\ ByteTime \in Nat
    BY TwiAssumption DEF Good, Master
  <1>2. CASE Due(t, elapsed)
    <2>1. c = CompleteMaster(t, s) /\ d = CompleteSlave(t, s) /\ t.op # "none"
      BY <1>2 DEF TickMaster, TickSlave, Due
    <2>2. /\ Good(c, d)
          /\ BusStep(PhaseOf(t, s), s, PhaseOf(c, d), d)
          /\ WaitingOf(c) => WaitingOf(t)
          /\ t.op = "start" => PhaseOf(c, d) = "started" /\ Same(s, d)
      BY <2>1, CompleteStep
    <2> QED
      BY <2>1, <2>2
  <1>3. CASE ~ Due(t, elapsed)
    <2>1. d = s
      BY <1>3 DEF TickSlave
    <2>2. /\ c \in Master /\ c.op = t.op /\ c.bus = t.bus /\ c.status = t.status
          /\ WaitingOf(c) => WaitingOf(t)
      <3>1. CASE t.op = "none" \/ t.left = 0
        <4>1. c = t
          BY <1>3, <3>1 DEF TickMaster
        <4> QED
          BY <1>1, <4>1
      <3>2. CASE t.op # "none" /\ t.left # 0
        <4>1. c = [t EXCEPT !.left = t.left - elapsed]
          BY <1>3, <3>2 DEF TickMaster
        <4>2. t.left - elapsed \in 0..ByteTime
          BY <1>1, <1>3, <3>2 DEF Due
        <4>3. c \in Master /\ c.op = t.op /\ c.bus = t.bus /\ c.status = t.status
          BY <1>1, <4>1, <4>2 DEF Master
        <4>4. WaitingOf(c) => WaitingOf(t)
          BY <1>1, <4>1 DEF Master, WaitingOf
        <4> QED
          BY <4>3, <4>4
      <3> QED
        BY <3>1, <3>2
    <2>3. Good(c, d)
      BY <2>1, <2>2 DEF Good, Shape, Truth
    <2>4. PhaseOf(c, d) = PhaseOf(t, s) /\ Same(s, d)
      BY <2>1, <2>2 DEF PhaseOf, Same
    <2>5. t.bus = "idle" => PhaseOf(t, s) = "free"
      BY PhaseFacts
    <2> QED
      BY <2>2, <2>3, <2>4, <2>5 DEF BusStep
  <1> QED
    BY <1>2, <1>3
-----------------------------------------------------------------------------
(***************************************************************************)
(* The steps of Twi.                                                       *)
(***************************************************************************)
\* What the cycles of an instruction do to the registers t and the slave s it
\* has made.
LEMMA AfterStep ==
    ASSUME IInv, NEW t, NEW s, Good(t, s), NEW asleep \in BOOLEAN,
           NEW costs \in SUBSET Costs, After(t, s, asleep, costs)
    PROVE  /\ Good(twi', slave')
           /\ core' \in [accum : 0..Interval - 1, asleep : BOOLEAN]
           /\ BusStep(PhaseOf(t, s), s, PhaseOf(twi', slave'), slave')
           /\ WaitingOf(twi') => WaitingOf(t)
           /\ t.op \in {"none", "start"} /\ t.bus = "idle"
                => PhaseOf(twi', slave') \in {"free", "started"} /\ Same(s, slave')
  <1>1. PICK cycles \in costs :
            IF core.accum + cycles < Interval
            THEN twi' = t /\ slave' = s /\ core' = [accum |-> core.accum + cycles, asleep |-> asleep]
            ELSE /\ twi' = TickMaster(t, s, core.accum + cycles)
                 /\ slave' = TickSlave(t, s, core.accum + cycles)
                 /\ core' = [accum |-> 0, asleep |-> asleep]
    BY DEF After
  <1>2. /\ Interval \in Nat \ {0} /\ core.accum \in 0..Interval - 1
        /\ cycles \in Nat /\ core.accum + cycles \in Nat /\ 0 \in 0..Interval - 1
    BY TwiAssumption DEF IInv, Costs
  <1>3. CASE core.accum + cycles < Interval
    <2>1. twi' = t /\ slave' = s /\ core' = [accum |-> core.accum + cycles, asleep |-> asleep]
      BY <1>1, <1>3
    <2>2. core.accum + cycles \in 0..Interval - 1
      BY <1>2, <1>3
    <2>3. t.bus = "idle" => PhaseOf(t, s) = "free"
      BY PhaseFacts
    <2> QED
      BY <2>1, <2>2, <2>3 DEF BusStep, Same
  <1>4. CASE ~(core.accum + cycles < Interval)
    <2>1. /\ twi' = TickMaster(t, s, core.accum + cycles)
          /\ slave' = TickSlave(t, s, core.accum + cycles)
          /\ core' = [accum |-> 0, asleep |-> asleep]
      BY <1>1, <1>4
    <2>2. core' \in [accum : 0..Interval - 1, asleep : BOOLEAN]
      BY <1>2, <2>1
    <2> QED
      BY <1>2, <2>1, <2>2, TickStep
  <1> QED
    BY <1>3, <1>4

\* A write to TWCR: what it does at once, and then its cycles.
LEMMA WriteTwcrStep ==
    ASSUME IInv, NEW v \in Control, WriteTwcr(v)
    PROVE  /\ Good(twi', slave')
           /\ core' \in [accum : 0..Interval - 1, asleep : BOOLEAN]
           /\ BusStep(PhaseOf(twi, slave), slave, PhaseOf(twi', slave'), slave')
           /\ v.en /\ v.int => ~ WaitingOf(twi')
  <1> DEFINE u == TwcrMaster(twi, slave, v)
             w == TwcrSlave(slave, v)
  <1>1. HeedsOf(twi, v) /\ After(u, w, FALSE, Costs) /\ Good(twi, slave)
    BY DEF WriteTwcr, Heeds, HeedsOf, IInv
  <1>2. /\ Good(u, w)
        /\ w.ptr = slave.ptr /\ w.regs = slave.regs
        /\ \/ u.bus = twi.bus /\ w = slave
           \/ u.bus = "idle" /\ u.op \in {"none", "start"}
        /\ v.en /\ v.int => ~ WaitingOf(u)
    BY <1>1, TwcrGood
  <1> HIDE DEF u, w
  <1>3. /\ Good(twi', slave')
        /\ core' \in [accum : 0..Interval - 1, asleep : BOOLEAN]
        /\ BusStep(PhaseOf(u, w), w, PhaseOf(twi', slave'), slave')
        /\ WaitingOf(twi') => WaitingOf(u)
        /\ u.op \in {"none", "start"} /\ u.bus = "idle"
             => PhaseOf(twi', slave') \in {"free", "started"} /\ Same(w, slave')
    BY <1>1, <1>2, AfterStep
  <1>4. BusStep(PhaseOf(twi, slave), slave, PhaseOf(twi', slave'), slave')
    <2>1. CASE u.bus = twi.bus /\ w = slave
      <3>1. PhaseOf(u, w) = PhaseOf(twi, slave)
        BY <2>1 DEF PhaseOf
      <3> QED
        BY <1>3, <2>1, <3>1
    <2>2. CASE u.bus = "idle" /\ u.op \in {"none", "start"}
      <3>1. Same(slave, slave')
        BY <1>2, <1>3, <2>2 DEF Same
      <3> QED
        BY <1>3, <2>2, <3>1 DEF BusStep
    <2> QED
      BY <1>2, <2>1, <2>2
  <1> QED
    BY <1>2, <1>3, <1>4

\* Every other step: the registers of the master it leaves to its cycles are
\* the old ones but for TWDR.
LEMMA OtherStep ==
    ASSUME IInv, \/ Other \/ Sleep \/ Wake \/ UNCHANGED vars \/ \E b \in Data : WriteTwdr(b)
    PROVE  /\ Good(twi', slave')
           /\ core' \in [accum : 0..Interval - 1, asleep : BOOLEAN]
           /\ BusStep(PhaseOf(twi, slave), slave, PhaseOf(twi', slave'), slave')
           /\ WaitingOf(twi') => WaitingOf(twi)
  <1>1. Good(twi, slave) /\ Costs \in SUBSET Costs
    BY DEF IInv
  <1>2. CASE Other
    BY <1>1, <1>2, AfterStep DEF Other
  <1>3. CASE Sleep
    <2>1. {1} \in SUBSET Costs
      BY TwiAssumption DEF Costs
    <2> QED
      BY <1>1, <1>3, <2>1, AfterStep DEF Sleep
  <1>4. CASE Wake
    <2>1. twi' = twi /\ slave' = slave /\ core' = [core EXCEPT !.asleep = FALSE]
      BY <1>4 DEF Wake
    <2>2. core' \in [accum : 0..Interval - 1, asleep : BOOLEAN]
      BY <2>1 DEF IInv
    <2> QED
      BY <1>1, <2>1, <2>2 DEF BusStep, Same
  <1>5. CASE UNCHANGED vars
    BY <1>1, <1>5 DEF vars, IInv, BusStep, Same
  <1>6. CASE \E b \in Data : WriteTwdr(b)
    <2>1. PICK b \in Data : WriteTwdr(b)
      BY <1>6
    <2>2. b \in Byte
      BY TwiAssumption DEF Byte
    <2> DEFINE u == TwdrWrite(twi, b)
    <2>3. After(u, slave, FALSE, Costs)
      BY <2>1 DEF WriteTwdr
    <2>4. /\ u \in Master /\ u.op = twi.op /\ u.bus = twi.bus /\ u.status = twi.status
          /\ WaitingOf(u) => WaitingOf(twi)
      BY <1>1, <2>2 DEF TwdrWrite, Good, Master, WaitingOf
    <2> HIDE DEF u
    <2>5. Good(u, slave) /\ PhaseOf(u, slave) = PhaseOf(twi, slave)
      BY <1>1, <2>4 DEF Good, Shape, Truth, PhaseOf
    <2> QED
      BY <1>1, <2>3, <2>4, <2>5, AfterStep
  <1> QED
    BY <1>2, <1>3, <1>4, <1>5, <1>6

LEMMA InitIInv == Init => IInv
  <1> SUFFICES ASSUME Init
               PROVE  IInv
    OBVIOUS
  <1>1. 0 \in Byte /\ 0 \in 0..ByteTime /\ 0 \in 0..Interval - 1
    BY ByteFacts, TwiAssumption
  <1>2. [b \in Byte |-> b] \in [Byte -> Byte]
    OBVIOUS
  <1>3. twi \in Master /\ slave \in Slave
    BY <1>1, <1>2 DEF Init, Master, Slave, Op, BusState, Status
  <1>4. twi.op = "none" /\ twi.bus = "idle" /\ twi.status = "no_info"
    BY DEF Init
  <1>5. core \in [accum : 0..Interval - 1, asleep : BOOLEAN]
    BY <1>1 DEF Init
  <1> QED
    BY <1>3, <1>4, <1>5 DEF IInv, Good, Shape, Truth

\* Every step keeps the invariant and is at most one step of the memory.
LEMMA StepFacts ==
    ASSUME IInv, [Next]_vars
    PROVE  IInv' /\ BusStep(PhaseOf(twi, slave), slave, PhaseOf(twi', slave'), slave')
  <1>1. \/ \E v \in Control : WriteTwcr(v)
        \/ Other \/ Sleep \/ Wake \/ UNCHANGED vars \/ \E b \in Data : WriteTwdr(b)
    BY DEF Next, Run
  <1>2. /\ Good(twi', slave')
        /\ core' \in [accum : 0..Interval - 1, asleep : BOOLEAN]
        /\ BusStep(PhaseOf(twi, slave), slave, PhaseOf(twi', slave'), slave')
    BY <1>1, WriteTwcrStep, OtherStep
  <1>3. IInv'
    BY <1>2 DEF IInv, Good, Shape, Truth
  <1> QED
    BY <1>2, <1>3

THEOREM Invariance == Spec => []IInv
  <1>1. Init => IInv
    BY InitIInv
  <1>2. IInv /\ [Next]_vars => IInv'
    BY StepFacts
  <1> QED
    BY <1>1, <1>2, PTL DEF Spec
-----------------------------------------------------------------------------
(***************************************************************************)
(* The registers, the slave and the run loop's accumulator keep their      *)
(* types: an operation never has more cycles left than a byte takes        *)
(* (twcr_write, avr_twi.c:243, and avr_twi_tick, avr_twi.c:363).           *)
(***************************************************************************)
THEOREM TypeCorrect == Spec => []TypeOK
  <1>1. IInv => TypeOK
    BY DEF IInv, Good, TypeOK
  <1> QED
    BY <1>1, Invariance, PTL

(***************************************************************************)
(* The status register tells the truth about the slave (the callbacks of   *)
(* avr_twi_slave.c as twi_complete_op of avr_twi.c uses them).             *)
(***************************************************************************)
THEOREM StatusIsTrue == Spec => []StatusTellsTruth
  <1>1. IInv => StatusTellsTruth
    BY DEF IInv, Good, Truth, StatusTellsTruth
  <1> QED
    BY <1>1, Invariance, PTL

(***************************************************************************)
(* Only a write to TWCR can leave polling firmware waiting for nothing,    *)
(* and one with TWINT as one never does (twcr_write and twi_complete_op of *)
(* avr_twi.c).                                                             *)
(***************************************************************************)
THEOREM NeverStuckHolds == Spec => NeverStuck
  <1>1. IInv /\ [Next]_vars
          => [/\ Waiting' => Waiting \/ \E v \in Control : WriteTwcr(v)
              /\ \A v \in Control : v.en /\ v.int /\ WriteTwcr(v) => ~Waiting']_vars
    <2> SUFFICES ASSUME IInv, [Next]_vars
                 PROVE  /\ Waiting' => Waiting \/ \E v \in Control : WriteTwcr(v)
                        /\ \A v \in Control : v.en /\ v.int /\ WriteTwcr(v) => ~Waiting'
      OBVIOUS
    <2>1. (Waiting <=> WaitingOf(twi)) /\ (Waiting' <=> WaitingOf(twi'))
      BY DEF Waiting, WaitingOf
    <2>2. (\E v \in Control : WriteTwcr(v)) \/ (WaitingOf(twi') => WaitingOf(twi))
      BY OtherStep DEF Next, Run
    <2>3. \A v \in Control : v.en /\ v.int /\ WriteTwcr(v) => ~ WaitingOf(twi')
      BY WriteTwcrStep
    <2> QED
      BY <2>1, <2>2, <2>3
  <1> QED
    BY <1>1, Invariance, PTL DEF Spec, NeverStuck

(***************************************************************************)
(* Master and slave together implement the abstract memory: every step is  *)
(* at most one bus event of I2cMemory.                                     *)
(***************************************************************************)
LEMMA MemoryInit == Init => Memory!Init
  <1> SUFFICES ASSUME Init
               PROVE  Memory!Init
    OBVIOUS
  <1>1. twi.bus = "idle" /\ slave.ptr = 0 /\ slave.regs = [b \in Byte |-> b]
    BY DEF Init
  <1>2. Phase = "free"
    BY <1>1 DEF Phase
  <1> QED
    BY <1>1, <1>2 DEF Memory!Init, Memory!Cell, Byte

LEMMA MemoryStep == IInv /\ [Next]_vars => [Memory!Next]_(Memory!vars)
  <1> SUFFICES ASSUME IInv, [Next]_vars
               PROVE  [Memory!Next]_(Memory!vars)
    OBVIOUS
  <1>1. Phase = PhaseOf(twi, slave) /\ Phase' = PhaseOf(twi', slave')
    BY DEF Phase, PhaseOf
  <1>2. BusStep(Phase, slave, Phase', slave')
    BY <1>1, StepFacts
  <1>3. Memory!Cell = Byte
    BY DEF Memory!Cell, Byte
  <1>4. CASE Phase' = Phase /\ Same(slave, slave')
    BY <1>4 DEF Memory!vars, Same
  <1>5. CASE Phase' \in {"started", "free"} /\ Same(slave, slave')
    BY <1>5 DEF Memory!Next, Memory!Start, Memory!Free, Same
  <1>6. CASE /\ Phase = "started" /\ Same(slave, slave')
             /\ \E b \in Byte : Phase' = CASE b = 2 * SlaveAddr -> "pointing"
                                           [] b = 2 * SlaveAddr + 1 -> "reading"
                                           [] OTHER -> "deaf"
    BY <1>3, <1>6 DEF Memory!Next, Memory!Address, Same
  <1>7. CASE /\ Phase = "pointing" /\ Phase' = "writing"
             /\ slave'.ptr \in Byte /\ slave'.regs = slave.regs
    BY <1>3, <1>7 DEF Memory!Next, Memory!Point
  <1>8. CASE /\ Phase = "writing" /\ Phase' = Phase /\ slave'.ptr = (slave.ptr + 1) % ByteSize
             /\ \E b \in Byte : slave'.regs = [slave.regs EXCEPT ![slave.ptr] = b]
    BY <1>3, <1>8 DEF Memory!Next, Memory!Write
  <1>9. CASE /\ Phase = "reading" /\ Phase' = Phase
             /\ slave'.ptr = (slave.ptr + 1) % ByteSize /\ slave'.regs = slave.regs
    BY <1>9 DEF Memory!Next, Memory!Read
  <1> QED
    BY <1>2, <1>4, <1>5, <1>6, <1>7, <1>8, <1>9 DEF BusStep

THEOREM Refinement == Spec => ImplementsMemory
  <1>1. Init => Memory!Init
    BY MemoryInit
  <1>2. IInv /\ [Next]_vars => [Memory!Next]_(Memory!vars)
    BY MemoryStep
  <1> QED
    BY <1>1, <1>2, Invariance, PTL DEF Spec, ImplementsMemory, Memory!Spec
=============================================================================
