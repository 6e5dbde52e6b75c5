----------------------------- MODULE GdbSession -----------------------------
(***************************************************************************)
(* A debugging session on the PC build: the run loop of pc/main.c, the     *)
(* remote-protocol stub it polls (gdb_stub.c) and the debugger at the      *)
(* other end of the socket.  The loop is one thread; the debugger and the  *)
(* two directions of the connection run beside it.                         *)
(*                                                                         *)
(* Firmware is abstracted to which addresses hold an instruction that      *)
(* changes the core's state; any instruction may continue anywhere, which  *)
(* stands for branches and for the interrupts taken at its end.            *)
(***************************************************************************)
EXTENDS Integers, FiniteSets, Sequences, SequencesExt

CONSTANTS
    Archs,        \* the builds: each has a run loop of its own
    Addr,         \* program addresses
    BreakAt,      \* addresses of BREAK (AVR) or of opcode 0xA5 (8051)
    SleepAt,      \* addresses of SLEEP (AVR)
    FaultAt,      \* addresses of undecodable words (AVR)
    MaxBp,        \* GDB_MAX_BREAKPOINTS
    StepBatch     \* step_batch

ASSUME ArchAssumption == Archs \subseteq {"AVR", "8051"}
ASSUME AddrAssumption ==
    /\ Addr \subseteq Nat
    /\ 0 \in Addr
    /\ BreakAt \cup SleepAt \cup FaultAt \subseteq Addr
ASSUME SizeAssumption == MaxBp \in Nat /\ StepBatch \in Nat \ {0}

None == -1        \* 0xFFFF in resume_from_pc

VARIABLES
    arch,         \* which of the two run loops
    stub,         \* struct gdb_state
    core,         \* state and pc of the emulated core
    loop,         \* where the run loop is, and its counter i
    toStub,       \* bytes in the stub's socket, as commands
    toClient,     \* replies on their way to the debugger
    client,       \* the debugger
    hist          \* history: what has been executed since the last resume

vars == <<arch, stub, core, loop, toStub, toClient, client, hist>>

Command == [op : {"c", "s", "D", "k", "INT", "EOF"}] \cup [op : {"Z", "z", "G"}, addr : Addr]
Reply == {"S05", "S02", "OK", "E01"}

Nothing == [op |-> "none", addr |-> 0]
NoBps == [a \in Addr |-> 0]
Count(s, a) == Cardinality({i \in DOMAIN s : s[i] = a})
-----------------------------------------------------------------------------
Init ==
    /\ arch \in Archs
    /\ stub = [client |-> FALSE, running |-> FALSE, single |-> FALSE,
               resume |-> None, bps |-> <<>>]
    /\ core = [state |-> "RUNNING", pc |-> 0]
    /\ loop = [at |-> "poll", i |-> 0]
    /\ toStub = <<>>
    /\ toClient = <<>>
    /\ client = [view |-> "absent", asked |-> Nothing,
                 planted |-> NoBps, intr |-> FALSE, crossed |-> FALSE]
    /\ hist = [mode |-> "none", executed |-> 0, trail |-> {}]

(***************************************************************************)
(* The debugger: it sends one command at a time and waits for its answer.  *)
(* While it waits for a stop it may send the interrupt byte, and it may    *)
(* close the connection at any moment.  crossed records that a stop it did *)
(* not ask for reached it while its interrupt was still on the way: from   *)
(* then on replies and commands are out of step.                           *)
(***************************************************************************)
Attached == client.view \in {"stopped", "asking", "waiting"}

Connect ==
    /\ client.view = "absent"
    /\ client' = [client EXCEPT !.view = "connecting"]
    /\ UNCHANGED <<arch, stub, core, loop, toStub, toClient, hist>>

Ask(cmd) ==
    /\ client.view = "stopped"
    /\ client' = [client EXCEPT !.view  = IF cmd.op \in {"c", "s"} THEN "waiting"
                                          ELSE IF cmd.op \in {"D", "k"} THEN "absent"
                                          ELSE "asking",
                                !.asked = IF cmd.op \in {"Z", "z"} THEN cmd ELSE Nothing,
                                !.planted = IF cmd.op \in {"D", "k"} THEN NoBps ELSE @]
    /\ toStub' = Append(toStub, cmd)
    /\ toClient' = IF cmd.op \in {"D", "k"} THEN <<>> ELSE toClient
    /\ UNCHANGED <<arch, stub, core, loop, hist>>

\* A debugger clears only breakpoints it has planted.  It believes in at most
\* MaxBp of them at one address, which bounds a session that is out of step.
AskAny ==
    \/ \E op \in {"c", "s", "D", "k"} : Ask([op |-> op])
    \/ \E a \in Addr : Ask([op |-> "G", addr |-> a])
    \/ \E a \in Addr : client.planted[a] < MaxBp /\ Ask([op |-> "Z", addr |-> a])
    \/ \E a \in Addr : client.planted[a] > 0 /\ Ask([op |-> "z", addr |-> a])

\* Bound: a debugger that is out of step sends no further interrupt.
Interrupt ==
    /\ client.view = "waiting"
    /\ ~client.intr /\ ~client.crossed
    /\ client' = [client EXCEPT !.intr = TRUE]
    /\ toStub' = Append(toStub, [op |-> "INT"])
    /\ UNCHANGED <<arch, stub, core, loop, toClient, hist>>

Close ==
    /\ Attached
    /\ client' = [client EXCEPT !.view = "absent", !.asked = Nothing, !.planted = NoBps]
    /\ toStub' = Append(toStub, [op |-> "EOF"])
    /\ toClient' = <<>>
    /\ UNCHANGED <<arch, stub, core, loop, hist>>

\* What the debugger believes planted once r has answered its request.
Believed(r) ==
    IF client.view = "asking" /\ r = "OK" /\ client.asked.op = "Z"
    THEN [client.planted EXCEPT ![client.asked.addr] = @ + 1]
    ELSE IF client.view = "asking" /\ r = "OK" /\ client.asked.op = "z"
    THEN [client.planted EXCEPT ![client.asked.addr] = @ - 1]
    ELSE client.planted

\* What the debugger makes of a reply: it notes a breakpoint it planted or
\* cleared, and it takes any reply for the answer it is waiting for.
TakeReply ==
    /\ toClient # <<>>
    /\ client.view \in {"asking", "waiting"}
    /\ LET r == Head(toClient)
       IN  client' = [client EXCEPT
              !.view = "stopped",
              !.asked = Nothing,
              !.intr = @ /\ r # "S02",
              !.crossed = @ \/ (client.intr /\ r = "S05"),
              !.planted = Believed(r)]
    /\ toClient' = Tail(toClient)
    /\ UNCHANGED <<arch, stub, core, loop, toStub, hist>>
-----------------------------------------------------------------------------
(***************************************************************************)
(* gdb_poll.                                                               *)
(***************************************************************************)
\* send_packet: dropped without a client, lost if the client has gone.
Sent(r) == IF stub.client /\ Attached THEN Append(toClient, r) ELSE toClient

Fresh == [client |-> TRUE, running |-> FALSE, single |-> FALSE,
          resume |-> None, bps |-> <<>>]

AcceptClient ==
    /\ loop.at = "poll"
    /\ ~stub.client
    /\ client.view = "connecting"
    /\ stub' = Fresh
    /\ core' = [state |-> "RUNNING", pc |-> 0]
    /\ client' = [client EXCEPT !.view = "stopped", !.planted = NoBps,
                                !.intr = FALSE, !.crossed = FALSE]
    /\ hist' = [mode |-> "none", executed |-> 0, trail |-> {}]
    /\ UNCHANGED <<arch, loop, toStub, toClient>>

Resumed(mode) == [mode |-> mode, executed |-> 0, trail |-> {}]

\* 'c' and 's'.
Continue ==
    /\ stub' = [stub EXCEPT !.single = FALSE, !.resume = core.pc, !.running = TRUE]
    /\ core' = [core EXCEPT !.state = "RUNNING"]
    /\ hist' = Resumed("c")
    /\ UNCHANGED <<loop, toClient>>

SingleStep ==
    /\ stub' = [stub EXCEPT !.single = TRUE, !.running = TRUE]
    /\ core' = [core EXCEPT !.state = "RUNNING"]
    /\ hist' = Resumed("s")
    /\ UNCHANGED <<loop, toClient>>

\* 'Z': refused with E01 when the table is full; a second one is planted twice.
SetBreakpoint(a) ==
    /\ IF Len(stub.bps) >= MaxBp
       THEN toClient' = Sent("E01") /\ UNCHANGED stub
       ELSE toClient' = Sent("OK") /\ stub' = [stub EXCEPT !.bps = Append(@, a)]
    /\ UNCHANGED <<core, loop, hist>>

\* The first entry for a is overwritten by the last one, and the table cut.
First(a) == SelectInSeq(stub.bps, LAMBDA e : e = a)

\* Mutant of WithoutFirst: the count drops, the entry stays.
WithoutLast(a) == IF First(a) = 0 THEN stub.bps ELSE Front(stub.bps)

WithoutFirst(a) ==
    IF First(a) = 0 THEN stub.bps
                    ELSE Front([stub.bps EXCEPT ![First(a)] = Last(stub.bps)])

ClearBreakpoint(a) ==
    /\ stub' = [stub EXCEPT !.bps = WithoutFirst(a)]
    /\ toClient' = Sent("OK")
    /\ UNCHANGED <<core, loop, hist>>

\* 'G': the program counter among the registers; the state is left alone.
WriteRegisters(a) ==
    /\ core' = [core EXCEPT !.pc = a]
    /\ toClient' = Sent("OK")
    /\ UNCHANGED <<stub, loop, hist>>

Departed(keep) == [stub EXCEPT !.client = FALSE, !.running = TRUE, !.single = FALSE,
                               !.bps = IF keep THEN @ ELSE <<>>]

\* 'D' and 'k' forget the breakpoints, the end of the stream does not.
Detach(keep) ==
    /\ stub' = Departed(keep)
    /\ hist' = Resumed(IF keep THEN "lost" ELSE "detached")
    /\ UNCHANGED <<core, loop, toClient>>

\* Mutant of Halt: the interrupt byte is acknowledged but the core runs on.
HaltLater ==
    /\ toClient' = Sent("S02")
    /\ UNCHANGED <<stub, core, loop, hist>>

\* Mutant of Halt: the interrupt byte stops the core and is not answered.
HaltSilently ==
    /\ stub' = [stub EXCEPT !.running = FALSE, !.single = FALSE]
    /\ UNCHANGED <<core, loop, toClient, hist>>

\* 0x03.
Halt ==
    /\ stub' = [stub EXCEPT !.running = FALSE, !.single = FALSE]
    /\ toClient' = Sent("S02")
    /\ UNCHANGED <<core, loop, hist>>

\* handle_packet on the next command in the socket.
HandlePacket ==
    /\ loop.at = "poll"
    /\ stub.client
    /\ toStub # <<>>
    /\ toStub' = Tail(toStub)
    /\ UNCHANGED <<arch, client>>
    /\ LET cmd == Head(toStub)
       IN  CASE cmd.op = "c"   -> Continue
             [] cmd.op = "s"   -> SingleStep
             [] cmd.op = "Z"   -> SetBreakpoint(cmd.addr)
             [] cmd.op = "z"   -> ClearBreakpoint(cmd.addr)
             [] cmd.op = "G"   -> WriteRegisters(cmd.addr)
             [] cmd.op = "D"   -> Detach(FALSE)
             [] cmd.op = "k"   -> Detach(FALSE)
             [] cmd.op = "EOF" -> Detach(TRUE)
             [] cmd.op = "INT" -> Halt
-----------------------------------------------------------------------------
(***************************************************************************)
(* The run loop.                                                           *)
(***************************************************************************)
\* gdb_notify_stop.
NotifyStop ==
    /\ stub' = [stub EXCEPT !.running = FALSE, !.single = FALSE]
    /\ toClient' = Sent("S05")

\* gdb_check_breakpoint, and what it leaves in resume_from_pc.
AtBreakpoint ==
    core.pc # stub.resume /\ Contains(stub.bps, core.pc)

\* Mutant of ResumeLeft: the address continued from is never given up.
ResumeKept == stub.resume

ResumeLeft == IF core.pc = stub.resume THEN stub.resume ELSE None

\* gdb_poll has read everything and the stub lets the core run.
PollDone ==
    /\ loop.at = "poll"
    /\ stub.running
    /\ stub.client => toStub = <<>>
    /\ loop' = [at |-> IF arch = "AVR" /\ core.state # "RUNNING" THEN "idle" ELSE "batch",
                i  |-> 0]
    /\ UNCHANGED <<arch, stub, core, toStub, toClient, client, hist>>

\* Mutant of ReportStop: the stopped core is noticed, the debugger is not told.
ReportStopSilently ==
    /\ loop.at = "idle"
    /\ core.state \in {"BREAK", "HALTED"}
    /\ loop' = [at |-> "poll", i |-> 0]
    /\ UNCHANGED <<arch, stub, core, toStub, toClient, client, hist>>

\* AVR: HALTED and BREAK are reported from the outer loop.
ReportStop ==
    /\ loop.at = "idle"
    /\ core.state \in {"BREAK", "HALTED"}
    /\ NotifyStop
    /\ loop' = [at |-> "poll", i |-> 0]
    /\ UNCHANGED <<arch, core, toStub, client, hist>>

\* AVR: one cycle of sleep, at the end of which an interrupt may be taken.
SleepCycle ==
    /\ loop.at = "idle"
    /\ core.state = "SLEEPING"
    /\ core' \in {core} \cup [state : {"RUNNING"}, pc : Addr]
    /\ loop' = [at |-> "poll", i |-> 0]
    /\ UNCHANGED <<arch, stub, toStub, toClient, client, hist>>

BatchOver == loop.i = StepBatch

\* Mutant of EndBatch: a running core is not polled between two batches.
EndBatchRunsOn ==
    /\ loop.at = "batch"
    /\ BatchOver
    /\ loop' = [at |-> "batch", i |-> 0]
    /\ UNCHANGED <<arch, stub, core, toStub, toClient, client, hist>>

EndBatch ==
    /\ loop.at = "batch"
    /\ BatchOver
    /\ loop' = [at |-> "poll", i |-> 0]
    /\ UNCHANGED <<arch, stub, core, toStub, toClient, client, hist>>

\* A core that is not running ends the batch; only the AVR loop reports it.
LeaveBatch ==
    /\ loop.at = "batch"
    /\ ~BatchOver
    /\ core.state # "RUNNING"
    /\ IF arch = "AVR" THEN NotifyStop ELSE UNCHANGED <<stub, toClient>>
    /\ loop' = [at |-> "poll", i |-> 0]
    /\ UNCHANGED <<arch, core, toStub, client, hist>>

HitBreakpoint ==
    /\ loop.at = "batch"
    /\ ~BatchOver
    /\ core.state = "RUNNING"
    /\ AtBreakpoint
    /\ stub' = [stub EXCEPT !.running = FALSE, !.single = FALSE, !.resume = ResumeLeft]
    /\ toClient' = Sent("S05")
    /\ loop' = [at |-> "poll", i |-> 0]
    /\ UNCHANGED <<arch, core, toStub, client, hist>>

\* One instruction: the core after it.  An address in several of the sets may
\* hold any of the words; any other word runs on, to wherever it branches.
Executed(c) ==
    LET breaks == IF c.pc \in BreakAt THEN [state : {"BREAK"}, pc : Addr] ELSE {}
        faults == IF arch = "AVR" /\ c.pc \in FaultAt
                  THEN {[c EXCEPT !.state = "HALTED"]} ELSE {}
        sleeps == IF arch = "AVR" /\ c.pc \in SleepAt
                  THEN [state : {"SLEEPING", "RUNNING"}, pc : Addr] ELSE {}
        special == breaks \cup faults \cup sleeps
    IN  IF special # {} THEN special ELSE [state : {"RUNNING"}, pc : Addr]

Atmost2(n) == IF n > 2 THEN 2 ELSE n

\* Mutant of Afterwards: a single step is forgotten while it is taken.
AfterwardsOn ==
    /\ stub' = [stub EXCEPT !.resume = ResumeLeft]
    /\ toClient' = toClient
    /\ loop' = [loop EXCEPT !.i = @ + 1]

\* gdb_is_single_stepping after the step.
Afterwards ==
    IF stub.single
    THEN /\ stub' = [stub EXCEPT !.running = FALSE, !.single = FALSE, !.resume = ResumeLeft]
         /\ toClient' = Sent("S05")
         /\ loop' = [at |-> "poll", i |-> 0]
    ELSE /\ stub' = [stub EXCEPT !.resume = ResumeLeft]
         /\ toClient' = toClient
         /\ loop' = [loop EXCEPT !.i = @ + 1]

StepCore ==
    /\ loop.at = "batch"
    /\ ~BatchOver
    /\ core.state = "RUNNING"
    /\ ~AtBreakpoint
    /\ core' \in Executed(core)
    /\ hist' = [hist EXCEPT !.executed = Atmost2(@ + 1), !.trail = @ \cup {core.pc}]
    /\ Afterwards
    /\ UNCHANGED <<arch, toStub, client>>
-----------------------------------------------------------------------------
ClientStep == Connect \/ AskAny \/ Interrupt \/ Close \/ TakeReply

LoopStep ==
    \/ AcceptClient \/ HandlePacket \/ PollDone
    \/ ReportStop \/ SleepCycle
    \/ EndBatch \/ LeaveBatch \/ HitBreakpoint \/ StepCore

Next == ClientStep \/ LoopStep

Spec == Init /\ [][Next]_vars

\* The loop's thread is scheduled and TCP delivers.
FairSpec == Spec /\ WF_vars(LoopStep) /\ WF_vars(TakeReply)
-----------------------------------------------------------------------------
TypeOK ==
    /\ arch \in Archs
    /\ stub \in [client : BOOLEAN, running : BOOLEAN, single : BOOLEAN,
                 resume : Addr \cup {None}, bps : Seq(Addr)]
    /\ core \in [state : {"RUNNING", "SLEEPING", "HALTED", "BREAK"}, pc : Addr]
    /\ loop \in [at : {"poll", "idle", "batch"}, i : 0..StepBatch]
    /\ toStub \in Seq(Command)
    /\ toClient \in Seq(Reply)
    /\ client \in [view : {"absent", "connecting", "stopped", "asking", "waiting"},
                   asked : [op : {"none", "Z", "z"}, addr : Addr],
                   planted : [Addr -> Nat], intr : BOOLEAN, crossed : BOOLEAN]
    /\ hist \in [mode : {"none", "c", "s", "detached", "lost"},
                 executed : 0..2, trail : SUBSET Addr]

(***************************************************************************)
(* A debugger that believes the core stopped is right: while it looks at   *)
(* registers and memory nothing executes, except in a session in which its *)
(* interrupt crossed a stop.                                               *)
(***************************************************************************)
StoppedMeansStopped ==
    client.view \in {"stopped", "asking"} /\ ~client.crossed =>
        ~stub.running /\ loop.at = "poll"

(***************************************************************************)
(* While the debugger waits, the stub's belief that the core runs and the  *)
(* messages on their way agree: the stub lets the core run only while no   *)
(* reply is under way, a core it holds back has a command or a reply under *)
(* way, and never two stops, or the second would answer the next command.  *)
(* This does not say that every stop of the core reaches the debugger      *)
(* (StopsAreSeen), and nothing is said of a session after its interrupt    *)
(* has crossed a stop.                                                     *)
(***************************************************************************)
StopReportedOnce ==
    client.view = "waiting" /\ ~client.crossed =>
        /\ toStub = <<>> /\ toClient = <<>> => stub.running
        /\ toClient # <<>> => ~stub.running /\ Count(toClient, "S05") <= 1

(***************************************************************************)
(* The breakpoint table holds what the debugger planted and nothing else,  *)
(* address by address and counting repetitions, whenever the debugger is   *)
(* not in the middle of a command: through a full table, clearing an entry *)
(* in the middle, and the end of an earlier session.  It is never overrun. *)
(***************************************************************************)
TableMatches ==
    /\ Len(stub.bps) <= MaxBp
    /\ client.view \in {"stopped", "waiting"} /\ ~client.crossed =>
           \A a \in Addr : Count(stub.bps, a) = client.planted[a]

(***************************************************************************)
(* An instruction under a breakpoint executes only as the one the          *)
(* debugger resumed from, over and over if it branches to itself, never    *)
(* after the program counter has been elsewhere.                           *)
(***************************************************************************)
BreakpointHonoured ==
    [][StepCore /\ Contains(stub.bps, core.pc) => hist.trail \subseteq {core.pc}]_vars

StepEnds == stub.single /\ stub.client /\ toClient' = Append(toClient, "S05")

(***************************************************************************)
(* A single step never runs past one instruction.  When it is reported     *)
(* done it has executed exactly one, and none at all if it was asked for   *)
(* at a planted breakpoint other than the address last continued from:     *)
(* the loops test the breakpoint before they step, and only 'c' sets       *)
(* resume_from_pc.  The debuggers' texts promise one instruction there     *)
(* too (gdb8051.py:15, README.md:188-194).                                 *)
(***************************************************************************)
StepIsOne ==
    [][/\ hist'.mode = "s" => hist'.executed <= 1
       /\ StepEnds => hist'.executed = IF AtBreakpoint THEN 0 ELSE 1]_vars

(***************************************************************************)
(* Whatever the firmware does, an interrupt from the debugger is answered: *)
(* the batch is bounded and the socket is read between two batches.        *)
(***************************************************************************)
InterruptAnswered ==
    (client.view = "waiting" /\ client.intr) ~> client.view # "waiting"

(***************************************************************************)
(* A debugger that waits is not left waiting by a step, nor on the AVR by  *)
(* a core that has executed BREAK or a word that does not decode: the loop *)
(* looks at the core's state again and calls gdb_notify_stop.  An 8051     *)
(* that executes 0xA5 under continue is not among these: every batch of    *)
(* its loop ends at once without a notice (main.c:349-353), and only an    *)
(* interrupt ends the wait.                                                *)
(***************************************************************************)
StopOwed ==
    /\ client.view = "waiting" /\ ~client.crossed
    /\ stub.running
    /\ stub.single \/ (arch = "AVR" /\ core.state \in {"BREAK", "HALTED"})

StopsAreSeen == StopOwed ~> client.view # "waiting"
=============================================================================
