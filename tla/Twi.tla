-------------------------------- MODULE Twi --------------------------------
(***************************************************************************)
(* The TWI master of the AVR (avr_twi.c) with the virtual I2C slave the PC *)
(* build attaches to it (avr_twi_slave.c).  Firmware writes TWCR and TWDR  *)
(* at any time; an operation it starts completes in the batched tick of    *)
(* the peripherals, and only then acts on the bus.                         *)
(*                                                                         *)
(* A byte has ByteSize values and the slave as many registers (256 in the  *)
(* code); the lowest bit of an address byte is the direction.              *)
(***************************************************************************)
EXTENDS Integers

CONSTANTS ByteSize,    \* values of a byte, registers of the slave
          SlaveAddr,   \* address of the virtual slave
          Scl,         \* cycles of an SCL period, what START and STOP take
          ByteTime,    \* cycles of a byte and its ACK, nine SCL periods
          Interval,    \* PERIPH_TICK_INTERVAL
          MaxCycles,   \* cycles of the longest instruction
          Data         \* the bytes firmware puts in TWDR

ASSUME TwiAssumption ==
    /\ ByteSize \in Nat \ {0} /\ SlaveAddr \in Nat /\ 2 * SlaveAddr + 1 < ByteSize
    /\ ByteTime \in Nat \ {0} /\ Scl \in 1..ByteTime
    /\ Interval \in Nat \ {0} /\ MaxCycles \in Nat \ {0}
    /\ Data \subseteq 0..ByteSize - 1

Byte == 0..ByteSize - 1
BusState == {"idle", "start_sent", "mt_addr", "mt_data", "mr_addr", "mr_data"}
Op == {"none", "start", "sla", "tx", "rx", "stop"}
Status == {"no_info", "start", "rep_start", "mt_sla_ack", "mt_sla_nack", "mt_data_ack",
           "mt_data_nack", "mr_sla_ack", "mr_sla_nack", "mr_data_ack", "mr_data_nack"}

VARIABLES twi,      \* the master: bits of TWCR, TWDR and the avr_twi_t
          slave,    \* the virt_i2c_slave_t
          core      \* [accum: periph_accum, asleep: the core sleeps]
vars == <<twi, slave, core>>

\* pending_data and pending_ack are read only by the operation that set them;
\* data and ack are at rest between operations.
Master == [ twint : BOOLEAN, twsto : BOOLEAN, twdr : Byte,
            op : Op, left : 0..ByteTime,                 \* pending_op, cycles_remaining
            bus : BusState, status : Status,
            data : Byte, ack : BOOLEAN ]                 \* pending_data, pending_ack
Slave == [ addressed : BOOLEAN, first : BOOLEAN, ptr : Byte, regs : [Byte -> Byte] ]

\* What firmware may write to TWCR.  Of the other bits, TWWC only reports that
\* TWDR was written during an operation, and TWIE lets the interrupt wake the core.
Control == [ int : BOOLEAN, sta : BOOLEAN, sto : BOOLEAN, ea : BOOLEAN, en : BOOLEAN ]
-----------------------------------------------------------------------------
(***************************************************************************)
(* The virtual slave.                                                      *)
(***************************************************************************)
\* Mutant of VirtStart: a repeated START leaves the slave addressed.
VirtStartKeeps(s) == [s EXCEPT !.first = TRUE]

VirtStart(s) == [s EXCEPT !.addressed = FALSE, !.first = TRUE]

Acknowledges(s, b) == s.addressed \/ b \div 2 = SlaveAddr

VirtWrite(s, b) ==
    CASE ~s.addressed /\ b \div 2 = SlaveAddr ->
             [s EXCEPT !.addressed = TRUE, !.first = (b % 2 = 0)]
      [] ~s.addressed /\ b \div 2 # SlaveAddr -> s
      [] s.addressed /\ s.first -> [s EXCEPT !.ptr = b, !.first = FALSE]
      [] s.addressed /\ ~s.first ->
             [s EXCEPT !.regs[s.ptr] = b, !.ptr = (@ + 1) % ByteSize]

VirtRead(s) == IF s.addressed THEN [s EXCEPT !.ptr = (@ + 1) % ByteSize] ELSE s
ReadValue(s) == IF s.addressed THEN s.regs[s.ptr] ELSE ByteSize - 1

VirtStop(s) == [s EXCEPT !.addressed = FALSE]
-----------------------------------------------------------------------------
(***************************************************************************)
(* twi_complete_op: the pending operation reaches the bus.                 *)
(***************************************************************************)
\* No operation is pending.
AtRest(t) == [t EXCEPT !.op = "none", !.left = 0, !.data = 0, !.ack = FALSE]

\* twi_set_twint, with the new status and bus state.
Finished(t, status, bus) ==
    [AtRest(t) EXCEPT !.status = status, !.bus = bus, !.twint = TRUE]

\* Mutant of SlaStatus: the direction is not looked at.
SlaStatusWrite(t, ack) == IF ack THEN "mt_sla_ack" ELSE "mt_sla_nack"

SlaStatus(t, ack) ==
    CASE t.data % 2 = 0 -> IF ack THEN "mt_sla_ack" ELSE "mt_sla_nack"
      [] t.data % 2 = 1 -> IF ack THEN "mr_sla_ack" ELSE "mr_sla_nack"

CompleteMaster(t, s) ==
    LET ack == Acknowledges(s, t.data)
    IN  CASE t.op = "start" ->
                 Finished(t, IF t.bus = "idle" THEN "start" ELSE "rep_start", "start_sent")
          [] t.op = "sla" ->
                 Finished(t, SlaStatus(t, ack), IF t.data % 2 = 0 THEN "mt_addr" ELSE "mr_addr")
          [] t.op = "tx" ->
                 Finished(t, IF ack THEN "mt_data_ack" ELSE "mt_data_nack", "mt_data")
          [] t.op = "rx" ->
                 Finished([t EXCEPT !.twdr = ReadValue(s)],
                          IF t.ack THEN "mr_data_ack" ELSE "mr_data_nack", "mr_data")
          [] t.op = "stop" ->
                 [AtRest(t) EXCEPT !.bus = "idle", !.status = "no_info", !.twsto = FALSE]

CompleteSlave(t, s) ==
    CASE t.op = "start" -> VirtStart(s)
      [] t.op \in {"sla", "tx"} -> VirtWrite(s, t.data)
      [] t.op = "rx" -> VirtRead(s)
      [] t.op = "stop" -> VirtStop(s)
-----------------------------------------------------------------------------
(***************************************************************************)
(* Register writes.                                                        *)
(***************************************************************************)
\* The operation replaces the one that was pending.
Begin(t, op, cycles) == [AtRest(t) EXCEPT !.op = op, !.left = cycles]
BeginByte(t, op) == [Begin(t, op, ByteTime) EXCEPT !.data = t.twdr]

Disabled(t) ==
    [AtRest(t) EXCEPT !.twint = FALSE, !.twsto = FALSE, !.bus = "idle", !.status = "no_info"]

\* The bits of TWCR after the write: TWINT is low whatever its bit of the value.
Stored(t, v) == [t EXCEPT !.twint = FALSE, !.twsto = v.sto]

\* Mutant of NextOp: only the first data byte is sent.
NextOpOneByte(t, v) ==
    CASE v.sta -> Begin(t, "start", Scl)
      [] ~v.sta /\ t.bus = "start_sent" -> BeginByte(t, "sla")
      [] ~v.sta /\ t.bus = "mt_addr" -> BeginByte(t, "tx")
      [] ~v.sta /\ t.bus \in {"mr_addr", "mr_data"} ->
             [Begin(t, "rx", ByteTime) EXCEPT !.ack = v.ea]
      [] ~v.sta /\ t.bus \in {"idle", "mt_data"} -> t

\* The operation TWINT written as one starts, when no STOP is asked for.
NextOp(t, v) ==
    CASE v.sta -> Begin(t, "start", Scl)
      [] ~v.sta /\ t.bus = "start_sent" -> BeginByte(t, "sla")
      [] ~v.sta /\ t.bus \in {"mt_addr", "mt_data"} -> BeginByte(t, "tx")
      [] ~v.sta /\ t.bus \in {"mr_addr", "mr_data"} ->
             [Begin(t, "rx", ByteTime) EXCEPT !.ack = v.ea]
      [] ~v.sta /\ t.bus = "idle" -> t

StopBegun(t, v) == Begin(Stored(t, v), "stop", Scl)

\* STOP and START together: the STOP is done at once.
TwcrMaster(t, s, v) ==
    CASE ~v.en -> Disabled(t)
      [] v.en /\ ~v.int -> Stored(t, v)
      [] v.en /\ v.int /\ v.sto /\ v.sta ->
             Begin(CompleteMaster(StopBegun(t, v), s), "start", Scl)
      [] v.en /\ v.int /\ v.sto /\ ~v.sta -> StopBegun(t, v)
      [] v.en /\ v.int /\ ~v.sto -> NextOp(Stored(t, v), v)
TwcrSlave(s, v) == IF v.en /\ v.int /\ v.sto /\ v.sta THEN VirtStop(s) ELSE s

\* A write to TWDR while TWINT is low is a collision, and is stored all the same.
TwdrWrite(t, b) == [t EXCEPT !.twdr = b]
-----------------------------------------------------------------------------
(***************************************************************************)
(* Time.  An instruction adds its cycles to periph_accum; at Interval the  *)
(* peripherals are ticked with all of them.                                *)
(***************************************************************************)
Due(t, elapsed) == t.op # "none" /\ t.left # 0 /\ t.left <= elapsed

\* avr_twi_tick.
TickMaster(t, s, elapsed) ==
    CASE Due(t, elapsed) -> CompleteMaster(t, s)
      [] ~Due(t, elapsed) /\ (t.op = "none" \/ t.left = 0) -> t
      [] ~Due(t, elapsed) /\ t.op # "none" /\ t.left # 0 -> [t EXCEPT !.left = @ - elapsed]
TickSlave(t, s, elapsed) == IF Due(t, elapsed) THEN CompleteSlave(t, s) ELSE s

\* The cycles of an instruction.
Costs == 1..MaxCycles

\* The instruction has made the registers t and the slave s.
After(t, s, asleep, costs) ==
    \E cycles \in costs :
        LET elapsed == core.accum + cycles
        IN  IF elapsed < Interval
            THEN twi' = t /\ slave' = s /\ core' = [accum |-> elapsed, asleep |-> asleep]
            ELSE /\ twi' = TickMaster(t, s, elapsed)
                 /\ slave' = TickSlave(t, s, elapsed)
                 /\ core' = [accum |-> 0, asleep |-> asleep]

\* The firmware heeds a refusal: after a NACK it sends no further byte.
Heeds(v) ==
    v.en /\ v.int /\ ~v.sta /\ ~v.sto
        => twi.status \notin {"mt_sla_nack", "mr_sla_nack", "mt_data_nack"}

WriteTwcr(v) == ~core.asleep /\ Heeds(v) /\ After(TwcrMaster(twi, slave, v), TwcrSlave(slave, v), FALSE, Costs)
WriteTwdr(b) == ~core.asleep /\ After(TwdrWrite(twi, b), slave, FALSE, Costs)
Other == ~core.asleep /\ After(twi, slave, FALSE, Costs)
Sleep == ~core.asleep /\ After(twi, slave, TRUE, {1})

\* An interrupt wakes the core.  Asleep, the run loop ticks only the timer: no
\* time passes for the TWI, so that the interrupt is seldom the TWI's own, and a
\* core that sleeps over an operation may never wake.
Wake == core.asleep /\ core' = [core EXCEPT !.asleep = FALSE] /\ UNCHANGED <<twi, slave>>

Init == /\ twi = [ twint |-> FALSE, twsto |-> FALSE, twdr |-> 0, op |-> "none", left |-> 0,
                   bus |-> "idle", status |-> "no_info", data |-> 0, ack |-> FALSE ]
        /\ slave = [ addressed |-> FALSE, first |-> FALSE, ptr |-> 0, regs |-> [b \in Byte |-> b] ]
        /\ core = [accum |-> 0, asleep |-> FALSE]

Run == Other \/ Sleep \/ (\E v \in Control : WriteTwcr(v)) \/ (\E b \in Data : WriteTwdr(b))
Next == Run \/ Wake

Spec == Init /\ [][Next]_vars

-----------------------------------------------------------------------------
(***************************************************************************)
(* Properties.                                                             *)
(***************************************************************************)
TypeOK == /\ twi \in Master
          /\ slave \in Slave
          /\ core \in [accum : 0..Interval - 1, asleep : BOOLEAN]

\* The status firmware reads after an operation tells the slave's state: an
\* acknowledged address or byte means that the slave is addressed and in the
\* direction the status names, a refused one that it is not.
StatusTellsTruth ==
    /\ twi.status = "mt_sla_ack" => slave.addressed /\ slave.first
    /\ twi.status = "mr_sla_ack" => slave.addressed /\ ~slave.first
    /\ twi.status = "mt_data_ack" => slave.addressed /\ ~slave.first
    /\ twi.status \in {"start", "rep_start", "mt_sla_nack", "mr_sla_nack"} => ~slave.addressed
    /\ twi.status # "mt_data_nack"

\* Within a transfer the master either is at work or has set TWINT, and TWSTO
\* is high only while a STOP is on its way.  Nothing but a write to TWCR ends
\* that, and then firmware that polls these bits waits for ever; a write with
\* TWINT as one never does: it starts an operation whatever was going on.
Waiting == \/ twi.bus # "idle" /\ ~twi.twint /\ twi.op = "none"
           \/ twi.twsto /\ twi.op # "stop"
NeverStuck ==
    [][/\ Waiting' => Waiting \/ \E v \in Control : WriteTwcr(v)
       /\ \A v \in Control : v.en /\ v.int /\ WriteTwcr(v) => ~Waiting']_vars

\* Seen from the bus, master and slave together are the memory of I2cMemory:
\* whatever firmware writes and however operations replace each other, bytes
\* reach the slave only in transfers that START and an address opened.
Phase == CASE twi.bus = "idle" -> "free"
           [] twi.bus = "start_sent" -> "started"
           [] twi.bus \notin {"idle", "start_sent"} /\ ~slave.addressed -> "deaf"
           [] twi.bus \in {"mt_addr", "mt_data"} /\ slave.addressed ->
                  IF slave.first THEN "pointing" ELSE "writing"
           [] twi.bus \in {"mr_addr", "mr_data"} /\ slave.addressed -> "reading"
Memory == INSTANCE I2cMemory
              WITH Cells <- ByteSize, Self <- SlaveAddr,
                   phase <- Phase, pointer <- slave.ptr, memory <- slave.regs
ImplementsMemory == Memory!Spec
=============================================================================
