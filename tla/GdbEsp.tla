------------------------------- MODULE GdbEsp -------------------------------
(***************************************************************************)
(* A debugger at an AVR on the ESP32 (esp32/main/main.c): core 0 polls the *)
(* stub (gdb_poll), core 1 executes (emu_task).  They share the stub's     *)
(* fields and the emulated core without a lock, so every store of either   *)
(* is a step of its own; a handler is the sequence of its stores.          *)
(*                                                                         *)
(* As in GdbSession firmware is which addresses hold an instruction that   *)
(* changes the core's state.  The breakpoint table is a set here, and the  *)
(* register copies of pc in a free-running batch are EspReset's subject;   *)
(* like there, two scheduler ticks outlast a batch that has been halted.   *)
(***************************************************************************)
EXTENDS Integers, Sequences

CONSTANTS
    Addr,         \* program addresses
    BreakAt,      \* addresses of BREAK
    SleepAt,      \* addresses of SLEEP
    FaultAt,      \* addresses of undecodable words
    Batch         \* instructions of a batch

ASSUME FirmwareAssumption ==
    /\ Addr \subseteq Nat /\ 0 \in Addr
    /\ BreakAt \cup SleepAt \cup FaultAt \subseteq Addr
    /\ Batch \in Nat \ {0}

None == -1        \* 0xFFFF in resume_from_pc

VARIABLES
    shared,       \* what both cores read and write: gdb_state, state and pc
    poll,         \* core 0: the stores its handler has still to do
    emu,          \* core 1: its control point, its counter, its pending stores
    toStub,       \* bytes in the stub's socket, as commands
    toClient,     \* replies on their way to the debugger
    client,       \* the debugger: what it believes
    hist          \* history: what it asked for last, and what has executed since
vars == <<shared, poll, emu, toStub, toClient, client, hist>>

\* The stores of a handler, and what else it does in their order.
Put(field, value) == [op |-> "put", field |-> field, value |-> value]
Send(reply) == [op |-> "send", reply |-> reply]
Mark == [op |-> "mark"]              \* resume_from_pc = get_pc
Wait == [op |-> "wait"]              \* vTaskDelay(2)
Ready == [op |-> "ready"]            \* gdb_poll returns from the accept
Plant(a) == [op |-> "plant", addr |-> a]
Clear(a) == [op |-> "clear", addr |-> a]

Stops == {"S05", "S02"}
Asked(mode, pc) == [mode |-> mode, from |-> pc, executed |-> 0, trail |-> {}]

Outside == [at |-> "top", i |-> 0, debugging |-> FALSE, todo |-> <<>>, then |-> "top"]

Init ==
    /\ shared = [client |-> FALSE, running |-> FALSE, single |-> FALSE, resume |-> None,
                 bps |-> {}, state |-> "RUNNING", pc |-> 0]
    /\ poll = <<>>
    /\ emu = Outside
    /\ toStub = <<>> /\ toClient = <<>>
    /\ client = [view |-> "absent", odd |-> FALSE]
    /\ hist = Asked("free", 0)
-----------------------------------------------------------------------------
(***************************************************************************)
(* The debugger.  Once replies and commands are out of step (odd) it can   *)
(* only leave.                                                             *)
(***************************************************************************)
Connect ==
    /\ client.view = "absent"
    /\ client' = [view |-> "connecting", odd |-> FALSE]
    /\ UNCHANGED <<shared, poll, emu, toStub, toClient, hist>>

Ask(cmd) ==
    /\ client.view = "stopped" /\ ~client.odd
    /\ client' = [client EXCEPT !.view = IF cmd.op \in {"c", "s"} THEN "waiting" ELSE "asking"]
    /\ toStub' = Append(toStub, cmd)
    /\ UNCHANGED <<shared, poll, emu, toClient, hist>>

AskAny == \/ \E op \in {"c", "s"} : Ask([op |-> op])
          \/ \E op \in {"Z", "z"}, a \in Addr : Ask([op |-> op, addr |-> a])

Interrupt ==
    /\ client.view = "waiting" /\ ~client.odd
    /\ [op |-> "INT"] \notin {toStub[k] : k \in DOMAIN toStub}
    /\ toStub' = Append(toStub, [op |-> "INT"])
    /\ UNCHANGED <<shared, poll, emu, toClient, client, hist>>

\* It detaches, or its connection ends; what it has not read is lost.
Leave ==
    /\ client.view \in {"stopped", "asking", "waiting"}
    /\ client' = [client EXCEPT !.view = "absent"]
    /\ \E op \in {"D", "EOF"} : toStub' = Append(toStub, [op |-> op])
    /\ toClient' = <<>>
    /\ UNCHANGED <<shared, poll, emu, hist>>

TakeReply ==
    /\ toClient # <<>> /\ client.view \in {"asking", "waiting"}
    /\ client' = [client EXCEPT !.view = "stopped"]
    /\ toClient' = Tail(toClient)
    /\ UNCHANGED <<shared, poll, emu, toStub, hist>>
-----------------------------------------------------------------------------
(***************************************************************************)
(* One store, of either core.                                              *)
(***************************************************************************)
\* The connection of the last client is closed, or its end is on the way.
Gone == client.view = "absent" \/ \E k \in DOMAIN toStub : toStub[k].op \in {"D", "EOF"}

\* A stop that answers nothing, or overtakes a command, puts the session out of
\* step: the debugger cannot tell it from the answer it is waiting for.
Unasked == client.view # "waiting" \/ toStub # <<>> \/ toClient # <<>>

\* Core 1 has not left the batch, or not yet reported all there is to report.
InBatch == \/ emu.at \in {"decide", "loop", "check", "step", "single", "notify"}
           \/ emu.at = "after" /\ shared.state \in {"HALTED", "BREAK"}

\* emu_task is outside its batch.
Waited == emu.at = "top"

Sends(reply) ==
    IF ~shared.client \/ Gone
    THEN UNCHANGED <<toClient, client, hist>>
    ELSE /\ toClient' = Append(toClient, reply)
         /\ client' = [client EXCEPT !.odd = @ \/ (reply \in Stops /\ Unasked)]
         /\ hist' = IF reply = "S05" /\ hist.mode # "none" THEN Asked("S05", 0) ELSE hist

Perform(x) ==
    CASE x.op = "put" ->
             /\ shared' = [shared EXCEPT ![x.field] = x.value]
             /\ UNCHANGED <<toClient, client, hist>>
      [] x.op = "mark" ->
             /\ shared' = [shared EXCEPT !.resume = shared.pc]
             /\ UNCHANGED <<toClient, client, hist>>
      [] x.op = "plant" ->
             /\ shared' = [shared EXCEPT !.bps = @ \cup {x.addr}]
             /\ UNCHANGED <<toClient, client, hist>>
      [] x.op = "clear" ->
             /\ shared' = [shared EXCEPT !.bps = @ \ {x.addr}]
             /\ UNCHANGED <<toClient, client, hist>>
      [] x.op = "send" -> Sends(x.reply) /\ UNCHANGED shared
      [] x.op = "wait" -> Waited /\ UNCHANGED <<shared, toClient, client, hist>>
      [] x.op = "ready" ->
             /\ client' = [client EXCEPT !.view = "stopped"]
             /\ hist' = Asked("none", 0)
             /\ UNCHANGED <<shared, toClient>>
-----------------------------------------------------------------------------
(***************************************************************************)
(* Core 0: gdb_poll.                                                       *)
(***************************************************************************)
\* Mutant of Reset: pc is cleared while core 1 may still be in its batch.
ResetAtOnce == <<Put("state", "HALTED"), Put("pc", 0), Put("state", "RUNNING"), Put("state", "RUNNING")>>

\* avr_cpu_reset; the decode cache it rebuilds is EspReset's.
Reset == <<Put("state", "HALTED"), Wait, Put("pc", 0), Put("state", "RUNNING"), Put("state", "RUNNING")>>

Accepting == <<Put("running", FALSE), Put("state", "HALTED"), Put("client", TRUE),
               Put("single", FALSE), Put("resume", None), Put("bps", {})>> \o Reset \o <<Ready>>

Accept ==
    /\ poll = <<>> /\ ~shared.client /\ client.view = "connecting"
    /\ poll' = Accepting
    /\ toClient' = <<>>
    /\ UNCHANGED <<shared, emu, toStub, client, hist>>

Stopping(reply) == <<Put("running", FALSE), Put("single", FALSE), Send(reply)>>
Departing == <<Put("client", FALSE), Put("running", TRUE), Put("single", FALSE)>>

Continuing == <<Put("single", FALSE), Mark, Put("running", TRUE), Put("state", "RUNNING")>>

Handling(cmd) ==
    CASE cmd.op = "c" -> Continuing
      [] cmd.op = "s" -> <<Put("single", TRUE), Put("running", TRUE), Put("state", "RUNNING")>>
      [] cmd.op = "Z" -> <<Plant(cmd.addr), Send("OK")>>
      [] cmd.op = "z" -> <<Clear(cmd.addr), Send("OK")>>
      [] cmd.op = "INT" -> Stopping("S02")
      [] cmd.op = "D" -> Departing \o <<Put("bps", {})>>
      [] cmd.op = "EOF" -> Departing

HandlePacket ==
    /\ poll = <<>> /\ shared.client /\ toStub # <<>>
    /\ LET cmd == Head(toStub)
       IN  /\ poll' = Handling(cmd)
           /\ hist' = CASE cmd.op \in {"c", "s"} -> Asked(cmd.op, shared.pc)
                        [] cmd.op = "INT" -> Asked("INT", 0)
                        [] cmd.op \in {"D", "EOF"} -> Asked("free", 0)
                        [] OTHER -> hist
           /\ client' = [client EXCEPT !.odd = @ \/ (cmd.op \in {"c", "s"} /\ InBatch)]
    /\ toStub' = Tail(toStub)
    /\ UNCHANGED <<shared, emu, toClient>>

PollStore ==
    /\ poll # <<>> /\ poll' = Tail(poll)
    /\ Perform(Head(poll))
    /\ UNCHANGED <<emu, toStub>>
-----------------------------------------------------------------------------
(***************************************************************************)
(* Core 1: emu_task.                                                       *)
(***************************************************************************)
Goes(at) == emu' = [emu EXCEPT !.at = at]
Unmoved == UNCHANGED <<poll, toStub, toClient, client>>

\* gdb_notify_stop, and where emu_task continues.
Notifies(after) == emu' = [emu EXCEPT !.at = "notify", !.todo = Stopping("S05"), !.then = after]

NotifyStore ==
    /\ emu.at = "notify" /\ emu.todo # <<>>
    /\ Perform(Head(emu.todo))
    /\ emu' = IF Len(emu.todo) > 1 THEN [emu EXCEPT !.todo = Tail(@)]
              ELSE IF emu.then = "top" THEN Outside
              ELSE [emu EXCEPT !.todo = <<>>, !.at = emu.then, !.then = "top", !.i = 0]
    /\ UNCHANGED <<poll, toStub>>

\* The debugger has paused the core.
Paused == shared.client /\ ~shared.running

Begin ==
    /\ emu.at = "top" /\ ~Paused /\ shared.state = "RUNNING"
    /\ Goes("decide")
    /\ UNCHANGED <<shared, hist>> /\ Unmoved

Decide ==
    /\ emu.at = "decide"
    /\ emu' = [emu EXCEPT !.debugging = shared.client, !.i = 0,
                          !.at = IF shared.client THEN "loop" ELSE "free"]
    /\ UNCHANGED <<shared, hist>> /\ Unmoved

\* Mutant of LoopTest: the batch has no end of its own.
LoopTestUnbounded ==
    /\ emu.at = "loop"
    /\ emu' = IF shared.state # "RUNNING" THEN [emu EXCEPT !.at = "after", !.i = 0]
              ELSE [emu EXCEPT !.at = "check", !.i = 0]
    /\ UNCHANGED <<shared, hist>> /\ Unmoved

LoopTest ==
    /\ emu.at = "loop"
    /\ emu' = IF emu.i = Batch \/ shared.state # "RUNNING"
              THEN [emu EXCEPT !.at = "after", !.i = 0] ELSE [emu EXCEPT !.at = "check"]
    /\ UNCHANGED <<shared, hist>> /\ Unmoved

\* gdb_check_breakpoint.
CheckBreakpoint ==
    /\ emu.at = "check"
    /\ shared' = [shared EXCEPT !.resume = IF shared.pc = @ THEN @ ELSE None]
    /\ IF shared.pc # shared.resume /\ shared.pc \in shared.bps THEN Notifies("after") ELSE Goes("step")
    /\ UNCHANGED hist /\ Unmoved

\* The states an instruction can leave: only special ones write the state.
StatesAfter(c) ==
    {st \in {"BREAK", "SLEEPING", "RUNNING", c.state} :
        \/ st = "BREAK" /\ c.pc \in BreakAt
        \/ st \in {"SLEEPING", "RUNNING"} /\ c.pc \in SleepAt
        \/ st = c.state /\ c.pc \notin BreakAt \cup SleepAt \cup FaultAt}

\* A word that does not decode leaves pc; a routine may be entered at the end of
\* any instruction.
Executes ==
    /\ \/ shared.pc \in FaultAt /\ shared' = [shared EXCEPT !.state = "HALTED"]
       \/ \E st \in StatesAfter(shared), a \in Addr :
              shared' = [shared EXCEPT !.state = st, !.pc = a]
    /\ hist' = IF hist.mode \notin {"c", "s"} THEN hist
               ELSE [hist EXCEPT !.executed = IF @ = 2 THEN 2 ELSE @ + 1, !.trail = @ \cup {shared.pc}]

Step ==
    /\ emu.at = "step"
    /\ Executes
    /\ Goes("single") /\ Unmoved

TestSingle ==
    /\ emu.at = "single"
    /\ IF shared.single THEN Notifies("after")
                        ELSE emu' = [emu EXCEPT !.at = "loop", !.i = @ + 1]
    /\ UNCHANGED <<shared, hist>> /\ Unmoved

\* The end of either batch: a stop found now is reported.
After ==
    /\ emu.at = "after"
    /\ IF emu.debugging /\ shared.state \in {"HALTED", "BREAK"} THEN Notifies("top") ELSE emu' = Outside
    /\ UNCHANGED <<shared, hist>> /\ Unmoved

\* avr_cpu_run without a debugger looks at the state only when it ticks.
FreeStep ==
    /\ emu.at = "free" /\ emu.i < Batch
    /\ Executes
    /\ emu' = [emu EXCEPT !.i = @ + 1,
                          !.at = IF shared.pc \in BreakAt \cup SleepAt \cup FaultAt THEN "after" ELSE "free"]
    /\ Unmoved

FreeEnd ==
    /\ emu.at = "free" /\ (emu.i = Batch \/ shared.state # "RUNNING")
    /\ Goes("after")
    /\ UNCHANGED <<shared, hist>> /\ Unmoved

\* A sleeping core takes an interrupt: the vector, the test, the store.
TakeInterrupt ==
    /\ emu.at = "top" /\ ~Paused /\ shared.state = "SLEEPING"
    /\ \E a \in Addr : shared' = [shared EXCEPT !.pc = a]
    /\ Goes("vector")
    /\ UNCHANGED hist /\ Unmoved

TestSleeping ==
    /\ emu.at = "vector"
    /\ Goes(IF shared.state = "SLEEPING" THEN "wake" ELSE "top")
    /\ UNCHANGED <<shared, hist>> /\ Unmoved

Wake ==
    /\ emu.at = "wake"
    /\ shared' = [shared EXCEPT !.state = "RUNNING"]
    /\ Goes("top")
    /\ UNCHANGED hist /\ Unmoved
-----------------------------------------------------------------------------
ClientStep == Connect \/ AskAny \/ Interrupt \/ Leave \/ TakeReply
PollStep == Accept \/ HandlePacket \/ PollStore
EmuStep == \/ Begin \/ Decide \/ LoopTest \/ CheckBreakpoint \/ Step \/ TestSingle
           \/ After \/ NotifyStore \/ FreeStep \/ FreeEnd
           \/ TakeInterrupt \/ TestSleeping \/ Wake

Next == ClientStep \/ PollStep \/ EmuStep

Spec == Init /\ [][Next]_vars

\* Both cores are scheduled and TCP delivers.
FairSpec == Spec /\ WF_vars(PollStep) /\ WF_vars(EmuStep) /\ WF_vars(TakeReply)
-----------------------------------------------------------------------------
\* Every variable has its type; nothing about the order of stores.
TypeOK ==
    /\ shared \in [client : BOOLEAN, running : BOOLEAN, single : BOOLEAN,
                   resume : Addr \cup {None}, bps : SUBSET Addr,
                   state : {"RUNNING", "SLEEPING", "HALTED", "BREAK"}, pc : Addr]
    /\ emu.i \in 0..Batch /\ emu.debugging \in BOOLEAN
    /\ client \in [view : {"absent", "connecting", "stopped", "asking", "waiting"}, odd : BOOLEAN]
    /\ hist.mode \in {"free", "none", "c", "s", "S05", "INT"}

InStep == ~client.odd /\ client.view \in {"stopped", "asking", "waiting"}
Instruction == Step \/ FreeStep

\* Nothing between the connection, whose reset takes effect first, and the first
\* command, not even the rest of a batch begun without a debugger (main.c:220);
\* one instruction for a step; none at a breakpoint but the one resumed from;
\* nothing once a stop has been reported.  After an interrupt the batch may still
\* run to its end.
ExecutesWhenTold ==
    Instruction =>
        /\ hist.mode # "none"
        /\ InStep => \/ hist.mode = "c" /\ (shared.pc \in shared.bps => hist.trail \subseteq {shared.pc})
                     \/ hist.mode = "s" /\ hist.executed = 0
                     \/ hist.mode = "INT"

\* A step that is reported has executed its instruction or is at a breakpoint, a
\* continue has left the address it started from.
StopReported == hist.mode \in {"c", "s"} /\ hist'.mode = "S05"
StopIsDue ==
    StopReported /\ ~client'.odd =>
        IF hist.mode = "c" THEN hist.executed > 0 \/ shared.pc # hist.from
                           ELSE hist.executed = 1 \/ shared.pc \in shared.bps

\* Core 1 executes what the debugger has asked for, no more and, when it reports a
\* stop, no less, whatever the order in which the stores of the two cores meet
\* (gdb_stub.c:206-228, main.c:230-239).  Excepted is a session out of step, see
\* HandlePacket and Sends.
DoesWhatIsAsked == [][ExecutesWhenTold /\ StopIsDue]_vars

\* A step is reported or overtaken by an interrupt.
StepReturns == (hist.mode = "s" /\ InStep) ~> ~(hist.mode = "s" /\ InStep)

\* After an interrupt the core comes to rest.
InterruptStops == (hist.mode = "INT" /\ InStep) ~> (Paused /\ emu.at = "top") \/ ~(hist.mode = "INT" /\ InStep)

\* No request of the debugger is lost: not a step whose flag core 1 reads while core
\* 0 writes it, not an interrupt, although the batch that is running does not look
\* at is_running (main.c:231).
RequestsDone == StepReturns /\ InterruptStops
=============================================================================
