---------------------------- MODULE GdbEspProofs ----------------------------
(***************************************************************************)
(* Proofs about GdbEsp, for every program, every length of a batch and any *)
(* number of connections.  The handler core 0 is in is named by d, and     *)
(* what is left of it is the last n stores of its program.  J relates      *)
(* the place in that program to where core 1 is, to what is on its way     *)
(* between stub and debugger, and to what the command has executed:        *)
(* Untold covers a connection and its reset, Begins the stores of a        *)
(* command up to is_running, NothingDone, Continues and Steps the rest.    *)
(* All but the first two are about a session that is in step (InStep).     *)
(***************************************************************************)
EXTENDS GdbEsp, TLAPS

\* What core 0 can be doing: accepting a connection, or handling a command.
Doing == {"accept", "c", "s", "Z", "z", "INT", "D", "EOF"}
Program(d, a) == IF d = "accept" THEN Accepting ELSE Handling([op |-> d, addr |-> a])

\* The last n stores of p.
Left(p, n) == [i \in 1..n |-> p[Len(p) - n + i]]

End == {"D", "EOF"}
Session == {"stopped", "asking", "waiting"}
Told == {"c", "s"}

Command == [op : {"c", "s", "INT", "D", "EOF"}] \cup [op : {"Z", "z"}, addr : Addr]

SharedType == [client : BOOLEAN, running : BOOLEAN, single : BOOLEAN,
               resume : Addr \cup {None}, bps : SUBSET Addr,
               state : {"RUNNING", "SLEEPING", "HALTED", "BREAK"}, pc : Addr]
Todo == {Left(Stopping("S05"), k) : k \in 0..3}
EmuType == [at : {"top", "decide", "loop", "check", "step", "single", "after",
                  "notify", "free", "vector", "wake"},
            i : 0..Batch, debugging : BOOLEAN,
            todo : Todo, then : {"after", "top"}]
ClientType == [view : {"absent", "connecting", "stopped", "asking", "waiting"}, odd : BOOLEAN]
HistType == [mode : {"free", "none", "c", "s", "S05", "INT"}, from : Addr,
             executed : 0..2, trail : SUBSET Addr]
Reply == {"OK", "S05", "S02"}

Types ==
    /\ shared \in SharedType /\ emu \in EmuType /\ client \in ClientType /\ hist \in HistType
    /\ toStub \in Seq(Command) /\ toClient \in Seq(Reply)
    /\ emu.at = "notify" => emu.todo # <<>>
    /\ emu.at \in {"check", "step", "single"} => emu.i < Batch

\* The ends of connections on the stub's socket.
Connections(d, n) ==
    /\ \A i \in 1..Len(toStub) :
           toStub[i].op \in End => i = Len(toStub) /\ client.view \notin Session
    /\ client.view \in Session =>
           shared.client /\ hist.mode # "free" /\ (n > 0 => d \notin {"accept", "D", "EOF"})
    /\ ~shared.client => toStub = <<>>
    /\ n > 0 /\ d \in {"accept", "D", "EOF"} => toStub = <<>>

\* From the connection to its first command core 1 is outside its batch.
Untold(d, n) ==
    /\ hist.mode = "none" => /\ emu.at = "top" /\ Paused
                             /\ n > 0 => d \in {"Z", "z"}
    /\ n > 0 /\ d = "accept" =>
           /\ client.view = "connecting"
           /\ ~client.odd => toClient = <<>>
           /\ n <= 11 => ~shared.running
           /\ n <= 9 => shared.client
           /\ n <= 4 => emu.at = "top"

\* Core 0 is not about to answer or to start anything.
Settled(d, n) == n = 0 \/ d = "INT" \/ (d \in Told /\ n = 1)

OnlyInterrupts == \A i \in 1..Len(toStub) : toStub[i].op = "INT"
OneOf(ops) == \E j \in 1..Len(toStub) :
                 /\ toStub[j].op \in ops
                 /\ \A i \in 1..Len(toStub) : i # j => toStub[i].op = "INT"

\* What is on its way.
Talk(d, n) ==
    InStep =>
        /\ Len(toClient) <= 1
        /\ n > 1 /\ d \in Told => hist.mode = d
        /\ hist.mode \in Told => /\ client.view = "waiting" /\ toClient = <<>>
                                 /\ OnlyInterrupts /\ (n = 0 \/ d = hist.mode)
        /\ client.view = "stopped" => toClient = <<>> /\ OnlyInterrupts /\ Settled(d, n)
        /\ client.view = "asking" =>
               \/ toClient = <<>> /\ OneOf({"Z", "z"}) /\ Settled(d, n)
               \/ toClient = <<>> /\ OnlyInterrupts /\ n > 0 /\ d \in {"Z", "z"}
               \/ Len(toClient) = 1 /\ OnlyInterrupts /\ Settled(d, n)
        /\ client.view = "waiting" =>
               \/ toClient = <<>> /\ OneOf(Told) /\ Settled(d, n) /\ hist.mode \notin Told
               \/ OnlyInterrupts /\ (n = 0 \/ d \in {"c", "s", "INT"})

Stopped == {"HALTED", "BREAK"}

\* Core 1 in a session.
Resting(d, n) ==
    InStep =>
        /\ emu.at # "free"
        /\ hist.mode \notin Told => ~shared.running \/ (d = "INT" /\ n = 3 /\ hist.mode = "INT")
        /\ hist.mode = "S05" => emu.at \in {"top", "after", "notify"}
        /\ emu.at = "notify" /\ Len(emu.todo) < 3 => ~shared.running

\* c or s has been handled, and is_running not been stored yet.
Starting(d, n) == hist.mode \in Told /\ n > 1

Begins(d, n) ==
    InStep /\ Starting(d, n) =>
        /\ emu.at \in {"top", "after", "vector", "wake"} /\ ~shared.running
        /\ hist.executed = 0 /\ hist.trail = {} /\ hist.from = shared.pc
        /\ hist.mode = "c" /\ n <= 2 => shared.resume = shared.pc
        /\ hist.mode = "s" /\ n <= 2 => shared.single

NothingDone(d, n) ==
    InStep /\ hist.mode \in Told /\ hist.executed = 0 =>
        /\ emu.at \in {"decide", "loop", "check", "step"} => shared.state = "RUNNING"
        /\ emu.at = "after" => shared.state \notin Stopped
        /\ emu.at # "single"

Continues(d, n) ==
    InStep /\ hist.mode = "c" /\ ~Starting(d, n) =>
        /\ shared.resume # None => shared.resume = hist.from /\ hist.trail \subseteq {shared.resume}
        /\ shared.resume = None => \/ hist.executed > 0
                                   \/ emu.at = "step"
                                   \/ emu.at = "notify" /\ shared.pc # hist.from
        /\ emu.at = "step" => shared.resume = shared.pc \/ (shared.resume = None /\ shared.pc \notin shared.bps)
        /\ emu.at = "notify" => hist.executed > 0 \/ shared.pc # hist.from

Steps(d, n) ==
    InStep /\ hist.mode = "s" /\ ~Starting(d, n) =>
        /\ hist.executed <= 1
        /\ emu.at \in {"top", "decide", "loop", "check", "step", "after", "vector", "wake"} => hist.executed = 0
        /\ emu.at \in {"top", "decide", "loop", "check", "step", "single", "after", "vector", "wake"} => shared.single
        /\ emu.at = "notify" => hist.executed = 1 \/ shared.pc \in shared.bps

J(d, n) == /\ Connections(d, n) /\ Untold(d, n) /\ Talk(d, n) /\ Resting(d, n)
           /\ Begins(d, n) /\ NothingDone(d, n) /\ Continues(d, n) /\ Steps(d, n)

IInv == /\ Types
        /\ \E d \in Doing, a \in Addr : \E n \in 0..Len(Program(d, a)) :
               poll = Left(Program(d, a), n) /\ J(d, n)
-----------------------------------------------------------------------------
(***************************************************************************)
(* Sequences of stores.                                                    *)
(***************************************************************************)
LEMMA SequenceIs ==
    ASSUME NEW S, NEW s \in Seq(S)
    PROVE  /\ Len(s) \in Nat /\ DOMAIN s = 1..Len(s)
           /\ s = [i \in 1..Len(s) |-> s[i]]
  OBVIOUS

\* Taking the first of the stores that are left leaves one fewer.
LEMMA LeftFacts ==
    ASSUME NEW p, Len(p) \in Nat, NEW n \in 0..Len(p)
    PROVE  /\ Len(Left(p, n)) = n /\ DOMAIN Left(p, n) = 1..n
           /\ n = 0 <=> Left(p, n) = <<>>
           /\ n > 0 => /\ Head(Left(p, n)) = p[Len(p) - n + 1]
                       /\ Tail(Left(p, n)) = Left(p, n - 1)
  <1> DEFINE S == {p[i] : i \in 1..Len(p)}
             q == Left(p, n)
  <1>1. q \in [1..n -> S] /\ n \in Nat
    BY DEF Left
  <1>2. q \in Seq(S) /\ Len(q) = n
    BY <1>1
  <1>3. \A i \in 1..n : q[i] = p[Len(p) - n + i]
    BY DEF Left
  <1>4. ASSUME n > 0
        PROVE  Head(q) = p[Len(p) - n + 1] /\ Tail(q) = Left(p, n - 1)
    <2>1. Head(q) = q[1] /\ Len(Tail(q)) = n - 1 /\ Tail(q) \in Seq(S)
          /\ \A i \in 1..(n - 1) : Tail(q)[i] = q[i + 1]
      BY <1>2, <1>4
    <2>2. 1 \in 1..n /\ \A i \in 1..(n - 1) : i + 1 \in 1..n /\ i \in Int
      BY <1>1, <1>4
    <2>3. Head(q) = p[Len(p) - n + 1]
      BY <1>3, <2>1, <2>2
    <2>4. \A i \in 1..(n - 1) : Tail(q)[i] = p[Len(p) - (n - 1) + i]
      <3> TAKE i \in 1..(n - 1)
      <3>1. Tail(q)[i] = q[i + 1] /\ q[i + 1] = p[Len(p) - n + (i + 1)]
        BY <1>3, <2>1, <2>2
      <3>2. Len(p) - n + (i + 1) = Len(p) - (n - 1) + i
        OBVIOUS
      <3> QED
        BY <3>1, <3>2
    <2> HIDE DEF q
    <2>5. Tail(q) = [i \in 1..(n - 1) |-> Tail(q)[i]]
      BY <2>1, SequenceIs
    <2>6. Tail(q) = [i \in 1..(n - 1) |-> p[Len(p) - (n - 1) + i]]
      BY <2>4, <2>5
    <2> QED
      BY <2>3, <2>6 DEF Left
  <1>5. n = 0 <=> q = <<>>
    BY <1>2
  <1> QED
    BY <1>1, <1>2, <1>4, <1>5

LEMMA LeftAll ==
    ASSUME NEW p, NEW S, p \in Seq(S)
    PROVE  Left(p, Len(p)) = p
  <1>1. Len(p) \in Nat /\ DOMAIN p = 1..Len(p) /\ p = [i \in 1..Len(p) |-> p[i]]
    OBVIOUS
  <1>2. \A i \in 1..Len(p) : Len(p) - Len(p) + i = i
    BY <1>1
  <1> QED
    BY <1>1, <1>2 DEF Left

\* x is p and then q.
Joins(x, p, q) == /\ Len(x) = Len(p) + Len(q)
                  /\ \A i \in 1..Len(p) : x[i] = p[i]
                  /\ \A i \in 1..Len(q) : x[Len(p) + i] = q[i]

\* Two programs in sequence.
LEMMA TwoParts ==
    ASSUME NEW S, NEW p \in Seq(S), NEW q \in Seq(S)
    PROVE  p \o q \in Seq(S) /\ Joins(p \o q, p, q)
  <1>1. Len(p) \in Nat /\ Len(q) \in Nat
    OBVIOUS
  <1>2. p \o q \in Seq(S) /\ Len(p \o q) = Len(p) + Len(q)
    OBVIOUS
  <1>3. \A i \in 1..Len(p) : (p \o q)[i] = p[i]
    BY <1>1
  <1>4. \A i \in 1..Len(q) : (p \o q)[Len(p) + i] = q[i]
    BY <1>1
  <1> QED
    BY <1>2, <1>3, <1>4 DEF Joins

\* Accepting is made of three parts.
LEMMA Joined ==
    ASSUME NEW p, NEW q, NEW r, NEW x, NEW y, Joins(y, p, q), Joins(x, y, r),
           Len(p) = 6, Len(q) = 5, Len(r) = 1
    PROVE  /\ Len(x) = 12
           /\ x[1] = p[1] /\ x[2] = p[2] /\ x[3] = p[3] /\ x[4] = p[4] /\ x[5] = p[5] /\ x[6] = p[6]
           /\ x[7] = q[1] /\ x[8] = q[2] /\ x[9] = q[3] /\ x[10] = q[4] /\ x[11] = q[5]
           /\ x[12] = r[1]
  <1>1. Len(y) = 11 /\ Len(x) = 12
    BY DEF Joins
  <1>2. /\ \A i \in 1..6 : y[i] = p[i]
        /\ \A i \in 1..5 : y[6 + i] = q[i]
        /\ \A i \in 1..11 : x[i] = y[i]
        /\ \A i \in 1..1 : x[11 + i] = r[i]
    BY <1>1 DEF Joins
  <1>3. /\ y[6 + 1] = q[1] /\ y[6 + 2] = q[2] /\ y[6 + 3] = q[3] /\ y[6 + 4] = q[4]
        /\ y[6 + 5] = q[5] /\ x[11 + 1] = r[1]
    BY <1>2
  <1> QED
    BY <1>1, <1>2, <1>3

\* The stores of gdb_poll's accept and of the reset it ends with (gdb_stub.c:330-342).
LEMMA AcceptingStores ==
    /\ Len(Accepting) = 12 /\ Left(Accepting, 12) = Accepting
    /\ Accepting[1] = Put("running", FALSE) /\ Accepting[2] = Put("state", "HALTED")
    /\ Accepting[3] = Put("client", TRUE) /\ Accepting[4] = Put("single", FALSE)
    /\ Accepting[5] = Put("resume", None) /\ Accepting[6] = Put("bps", {})
    /\ Accepting[7] = Put("state", "HALTED") /\ Accepting[8] = Wait
    /\ Accepting[9] = Put("pc", 0) /\ Accepting[10] = Put("state", "RUNNING")
    /\ Accepting[11] = Put("state", "RUNNING") /\ Accepting[12] = Ready
  <1> DEFINE p == <<Put("running", FALSE), Put("state", "HALTED"), Put("client", TRUE),
                    Put("single", FALSE), Put("resume", None), Put("bps", {})>>
             q == <<Put("state", "HALTED"), Wait, Put("pc", 0),
                    Put("state", "RUNNING"), Put("state", "RUNNING")>>
             r == <<Ready>>
             S == {p[i] : i \in 1..6} \cup {q[i] : i \in 1..5} \cup {Ready}
  <1>1. /\ p[1] = Put("running", FALSE) /\ p[2] = Put("state", "HALTED")
        /\ p[3] = Put("client", TRUE) /\ p[4] = Put("single", FALSE)
        /\ p[5] = Put("resume", None) /\ p[6] = Put("bps", {})
    OBVIOUS
  <1>2. /\ q[1] = Put("state", "HALTED") /\ q[2] = Wait /\ q[3] = Put("pc", 0)
        /\ q[4] = Put("state", "RUNNING") /\ q[5] = Put("state", "RUNNING") /\ r[1] = Ready
    OBVIOUS
  <1>3. /\ Len(p) = 6 /\ DOMAIN p = 1..6 /\ p = [i \in 1..6 |-> p[i]]
        /\ Len(q) = 5 /\ DOMAIN q = 1..5 /\ q = [i \in 1..5 |-> q[i]]
        /\ Len(r) = 1
    OBVIOUS
  <1>4. Accepting = p \o q \o r
    BY DEF Accepting, Reset
  <1>5. r \in Seq(S)
    OBVIOUS
  <1> HIDE DEF p, q
  <1>6. p \in Seq(S) /\ q \in Seq(S)
    BY <1>3
  <1> HIDE DEF r, S
  <1>7. Joins(p \o q, p, q) /\ p \o q \in Seq(S)
    BY <1>6, TwoParts
  <1>8. PICK y : y = p \o q
    OBVIOUS
  <1>9. Joins(y \o r, y, r) /\ y \o r \in Seq(S)
    BY <1>5, <1>7, <1>8, TwoParts
  <1>10. Accepting = y \o r
    BY <1>4, <1>8
  <1>11. Joins(y, p, q) /\ Joins(Accepting, y, r) /\ Accepting \in Seq(S)
    BY <1>7, <1>8, <1>9, <1>10
  <1>12. /\ Len(Accepting) = 12
         /\ Accepting[1] = p[1] /\ Accepting[2] = p[2] /\ Accepting[3] = p[3]
         /\ Accepting[4] = p[4] /\ Accepting[5] = p[5] /\ Accepting[6] = p[6]
         /\ Accepting[7] = q[1] /\ Accepting[8] = q[2] /\ Accepting[9] = q[3]
         /\ Accepting[10] = q[4] /\ Accepting[11] = q[5] /\ Accepting[12] = r[1]
    BY <1>3, <1>11, Joined
  <1>13. Left(Accepting, 12) = Accepting
    BY <1>11, <1>12, LeftAll
  <1> QED
    BY <1>1, <1>2, <1>12, <1>13

\* The stores of the commands.
LEMMA CommandStores ==
    ASSUME NEW a
    PROVE  /\ Len(Program("c", a)) = 4
           /\ Program("c", a)[1] = Put("single", FALSE) /\ Program("c", a)[2] = Mark
           /\ Program("c", a)[3] = Put("running", TRUE) /\ Program("c", a)[4] = Put("state", "RUNNING")
           /\ Len(Program("s", a)) = 3 /\ Program("s", a)[1] = Put("single", TRUE)
           /\ Program("s", a)[2] = Put("running", TRUE) /\ Program("s", a)[3] = Put("state", "RUNNING")
           /\ Len(Program("Z", a)) = 2 /\ Program("Z", a)[1] = Plant(a) /\ Program("Z", a)[2] = Send("OK")
           /\ Len(Program("z", a)) = 2 /\ Program("z", a)[1] = Clear(a) /\ Program("z", a)[2] = Send("OK")
           /\ Len(Program("EOF", a)) = 3 /\ Program("EOF", a)[1] = Put("client", FALSE)
           /\ Program("EOF", a)[2] = Put("running", TRUE) /\ Program("EOF", a)[3] = Put("single", FALSE)
  <1>1. Program("c", a) = Continuing /\ Program("EOF", a) = Departing
    BY DEF Program, Handling
  <1>2. /\ Len(Continuing) = 4
        /\ Continuing[1] = Put("single", FALSE) /\ Continuing[2] = Mark
        /\ Continuing[3] = Put("running", TRUE) /\ Continuing[4] = Put("state", "RUNNING")
    BY DEF Continuing
  <1>3. /\ Len(Departing) = 3 /\ Departing[1] = Put("client", FALSE)
        /\ Departing[2] = Put("running", TRUE) /\ Departing[3] = Put("single", FALSE)
    BY DEF Departing
  <1>4. Program("s", a) = <<Put("single", TRUE), Put("running", TRUE), Put("state", "RUNNING")>>
    BY DEF Program, Handling
  <1>5. Program("Z", a) = <<Plant(a), Send("OK")>> /\ Program("z", a) = <<Clear(a), Send("OK")>>
    BY DEF Program, Handling
  <1>6. /\ Len(Program("s", a)) = 3 /\ Program("s", a)[1] = Put("single", TRUE)
        /\ Program("s", a)[2] = Put("running", TRUE) /\ Program("s", a)[3] = Put("state", "RUNNING")
    <2> DEFINE p == <<Put("single", TRUE), Put("running", TRUE), Put("state", "RUNNING")>>
    <2>1. Len(p) = 3 /\ p[1] = Put("single", TRUE) /\ p[2] = Put("running", TRUE) /\ p[3] = Put("state", "RUNNING")
      OBVIOUS
    <2>2. Program("s", a) = p
      BY <1>4
    <2> HIDE DEF p
    <2> QED
      BY <2>1, <2>2
  <1>7. /\ Len(Program("Z", a)) = 2 /\ Program("Z", a)[1] = Plant(a) /\ Program("Z", a)[2] = Send("OK")
    BY <1>5
  <1>8. /\ Len(Program("z", a)) = 2 /\ Program("z", a)[1] = Clear(a) /\ Program("z", a)[2] = Send("OK")
    BY <1>5
  <1>9. /\ Len(Program("c", a)) = 4
        /\ Program("c", a)[1] = Put("single", FALSE) /\ Program("c", a)[2] = Mark
        /\ Program("c", a)[3] = Put("running", TRUE) /\ Program("c", a)[4] = Put("state", "RUNNING")
    BY <1>1, <1>2
  <1>10. /\ Len(Program("EOF", a)) = 3 /\ Program("EOF", a)[1] = Put("client", FALSE)
         /\ Program("EOF", a)[2] = Put("running", TRUE) /\ Program("EOF", a)[3] = Put("single", FALSE)
    BY <1>1, <1>3
  <1> QED
    BY <1>6, <1>7, <1>8, <1>9, <1>10

\* The stores of gdb_notify_stop, and of an interrupt (gdb_stub.c:361-366, 402-408).
LEMMA StoppingStores ==
    ASSUME NEW reply
    PROVE  /\ Len(Stopping(reply)) = 3 /\ Stopping(reply)[1] = Put("running", FALSE)
           /\ Stopping(reply)[2] = Put("single", FALSE) /\ Stopping(reply)[3] = Send(reply)
           /\ Left(Stopping(reply), 3) = Stopping(reply)
  <1>1. /\ Len(Stopping(reply)) = 3 /\ Stopping(reply)[1] = Put("running", FALSE)
        /\ Stopping(reply)[2] = Put("single", FALSE) /\ Stopping(reply)[3] = Send(reply)
    BY DEF Stopping
  <1>2. Stopping(reply) \in Seq({Put("running", FALSE), Put("single", FALSE), Send(reply)})
    BY DEF Stopping
  <1>3. Left(Stopping(reply), 3) = Stopping(reply)
    BY <1>1, <1>2, LeftAll
  <1> QED
    BY <1>1, <1>3

\* The stores of a detach (gdb_stub.c:235-242).
LEMMA DetachStores ==
    ASSUME NEW a
    PROVE  /\ Len(Program("D", a)) = 4 /\ Program("D", a)[1] = Put("client", FALSE)
           /\ Program("D", a)[2] = Put("running", TRUE) /\ Program("D", a)[3] = Put("single", FALSE)
           /\ Program("D", a)[4] = Put("bps", {})
           /\ Left(Program("D", a), 4) = Program("D", a)
  <1> DEFINE S == {Put("client", FALSE), Put("running", TRUE), Put("single", FALSE), Put("bps", {})}
             p == Departing
             q == <<Put("bps", {})>>
  <1>1. p \in Seq(S) /\ Len(p) = 3 /\ p[1] = Put("client", FALSE)
        /\ p[2] = Put("running", TRUE) /\ p[3] = Put("single", FALSE)
    BY DEF Departing
  <1>2. q \in Seq(S) /\ Len(q) = 1 /\ q[1] = Put("bps", {})
    OBVIOUS
  <1>3. Program("D", a) = p \o q
    BY DEF Program, Handling
  <1> HIDE DEF p, q, S
  <1>4. Joins(p \o q, p, q) /\ p \o q \in Seq(S)
    BY <1>1, <1>2, TwoParts
  <1>5. PICK x : x = Program("D", a)
    OBVIOUS
  <1>6. Joins(x, p, q) /\ x \in Seq(S)
    BY <1>3, <1>4, <1>5
  <1>7. Len(x) = 4 /\ \A i \in 1..3 : x[i] = p[i]
    BY <1>1, <1>2, <1>6 DEF Joins
  <1>8. x[3 + 1] = q[1]
    BY <1>1, <1>2, <1>6 DEF Joins
  <1>9. Left(x, 4) = x
    BY <1>6, <1>7, LeftAll
  <1>10. x[4] = Put("bps", {})
    BY <1>2, <1>8
  <1>11. /\ x[1] = Put("client", FALSE) /\ x[2] = Put("running", TRUE) /\ x[3] = Put("single", FALSE)
    <2>1. x[1] = p[1] /\ x[2] = p[2] /\ x[3] = p[3]
      BY <1>7
    <2> QED
      BY <1>1, <2>1
  <1> QED
    BY <1>5, <1>7, <1>9, <1>10, <1>11

\* A handler starts with all of its stores to do.
LEMMA AllLeft ==
    ASSUME NEW d \in Doing, NEW a
    PROVE  /\ Len(Program(d, a)) \in 2..12
           /\ Left(Program(d, a), Len(Program(d, a))) = Program(d, a)
  <1>1. CASE d = "accept"
    <2>1. Program(d, a) = Accepting
      BY <1>1 DEF Program
    <2>2. Len(Accepting) = 12 /\ Left(Accepting, 12) = Accepting
      BY AcceptingStores
    <2> QED
      BY <2>1, <2>2
  <1>2. CASE d = "c"
    <2>1. Program(d, a) = Continuing
      BY <1>2 DEF Program, Handling
    <2>2. Continuing \in Seq({Put("single", FALSE), Mark, Put("running", TRUE), Put("state", "RUNNING")})
      BY DEF Continuing
    <2>3. Len(Continuing) = 4
      BY DEF Continuing
    <2>4. Left(Continuing, 4) = Continuing
      BY <2>2, <2>3, LeftAll
    <2>5. Len(Program(d, a)) = Len(Continuing) /\ Left(Program(d, a), 4) = Program(d, a)
      BY <2>1, <2>4, Zenon
    <2> QED
      BY <2>3, <2>5
  <1>3. CASE d = "s"
    <2> DEFINE p == <<Put("single", TRUE), Put("running", TRUE), Put("state", "RUNNING")>>
               S == {Put("single", TRUE), Put("running", TRUE), Put("state", "RUNNING")}
    <2>1. Program(d, a) = p
      BY <1>3 DEF Program, Handling
    <2>2. p \in Seq(S) /\ Len(p) = 3
      OBVIOUS
    <2> HIDE DEF p, S
    <2>3. Left(p, 3) = p
      BY <2>2, LeftAll
    <2>4. Len(Program(d, a)) = Len(p) /\ Left(Program(d, a), 3) = Program(d, a)
      BY <2>1, <2>3, Zenon
    <2> QED
      BY <2>2, <2>4
  <1>4. CASE d = "Z"
    <2>1. Program(d, a) = <<Plant(a), Send("OK")>>
      BY <1>4 DEF Program, Handling
    <2>2. <<Plant(a), Send("OK")>> \in Seq({Plant(a), Send("OK")})
      OBVIOUS
    <2>3. Len(<<Plant(a), Send("OK")>>) = 2
      OBVIOUS
    <2>4. Left(<<Plant(a), Send("OK")>>, 2) = <<Plant(a), Send("OK")>>
      BY <2>2, <2>3, LeftAll
    <2>5. Len(Program(d, a)) = Len(<<Plant(a), Send("OK")>>) /\ Left(Program(d, a), 2) = Program(d, a)
      BY <2>1, <2>4, Zenon
    <2> QED
      BY <2>3, <2>5
  <1>5. CASE d = "z"
    <2>1. Program(d, a) = <<Clear(a), Send("OK")>>
      BY <1>5 DEF Program, Handling
    <2>2. <<Clear(a), Send("OK")>> \in Seq({Clear(a), Send("OK")})
      OBVIOUS
    <2>3. Len(<<Clear(a), Send("OK")>>) = 2
      OBVIOUS
    <2>4. Left(<<Clear(a), Send("OK")>>, 2) = <<Clear(a), Send("OK")>>
      BY <2>2, <2>3, LeftAll
    <2>5. Len(Program(d, a)) = Len(<<Clear(a), Send("OK")>>) /\ Left(Program(d, a), 2) = Program(d, a)
      BY <2>1, <2>4, Zenon
    <2> QED
      BY <2>3, <2>5
  <1>6. CASE d = "INT"
    <2>1. Program(d, a) = Stopping("S02")
      BY <1>6 DEF Program, Handling
    <2>2. Len(Stopping("S02")) = 3 /\ Left(Stopping("S02"), 3) = Stopping("S02")
      BY StoppingStores
    <2>3. Len(Program(d, a)) = Len(Stopping("S02")) /\ Left(Program(d, a), 3) = Program(d, a)
      BY <2>1, <2>2, Zenon
    <2>4. Len(Program(d, a)) = 3
      BY <2>2, <2>3, Zenon
    <2>5. Left(Program(d, a), Len(Program(d, a))) = Program(d, a)
      BY <2>3, <2>4, Zenon
    <2>6. Len(Program(d, a)) \in 2..12
      BY <2>4
    <2> QED
      BY <2>5, <2>6
  <1>7. CASE d = "D"
    <2>1. Len(Program("D", a)) = 4 /\ Left(Program("D", a), 4) = Program("D", a)
      BY DetachStores
    <2>2. Program(d, a) = Program("D", a)
      BY <1>7
    <2>3. Len(Program(d, a)) = Len(Program("D", a)) /\ Left(Program(d, a), 4) = Program(d, a)
      BY <2>1, <2>2, Zenon
    <2>4. Len(Program(d, a)) = 4
      BY <2>1, <2>3, Zenon
    <2>5. Left(Program(d, a), Len(Program(d, a))) = Program(d, a)
      BY <2>3, <2>4, Zenon
    <2>6. Len(Program(d, a)) \in 2..12
      BY <2>4
    <2> QED
      BY <2>5, <2>6
  <1>8. CASE d = "EOF"
    <2>1. Program(d, a) = Departing
      BY <1>8 DEF Program, Handling
    <2>2. Departing \in Seq({Put("client", FALSE), Put("running", TRUE), Put("single", FALSE)})
      BY DEF Departing
    <2>3. Len(Departing) = 3
      BY DEF Departing
    <2>4. Left(Departing, 3) = Departing
      BY <2>2, <2>3, LeftAll
    <2>5. Len(Program(d, a)) = Len(Departing) /\ Left(Program(d, a), 3) = Program(d, a)
      BY <2>1, <2>4, Zenon
    <2> QED
      BY <2>3, <2>5
  <1> QED
    BY <1>1, <1>2, <1>3, <1>4, <1>5, <1>6, <1>7, <1>8 DEF Doing

LEMMA InterruptStores ==
    ASSUME NEW a
    PROVE  Program("INT", a) = Stopping("S02") /\ Program("accept", a) = Accepting
  BY DEF Program, Handling

\* What the next store is, and what is left after it.
LEMMA NextStore ==
    ASSUME NEW d \in Doing, NEW a, NEW n \in 0..Len(Program(d, a)), poll = Left(Program(d, a), n)
    PROVE  /\ n \in Nat
           /\ n = 0 <=> poll = <<>>
           /\ n > 0 => /\ Head(poll) = Program(d, a)[Len(Program(d, a)) - n + 1]
                       /\ Tail(poll) = Left(Program(d, a), n - 1)
                       /\ n - 1 \in 0..Len(Program(d, a))
  <1> DEFINE p == Program(d, a)
  <1>1. Len(p) \in Nat
    BY AllLeft
  <1> HIDE DEF p
  <1>2. n \in 0..Len(p) /\ poll = Left(p, n)
    BY DEF p
  <1>3. /\ n = 0 <=> poll = <<>>
        /\ n > 0 => Head(poll) = p[Len(p) - n + 1] /\ Tail(poll) = Left(p, n - 1)
    BY <1>1, <1>2, LeftFacts
  <1>4. n \in Nat /\ (n > 0 => n - 1 \in 0..Len(p))
    BY <1>1, <1>2
  <1> QED
    BY <1>3, <1>4 DEF p

\* The stores.
LEMMA Performs ==
    /\ \A f, v : Perform(Put(f, v)) =>
           shared' = [shared EXCEPT ![f] = v] /\ toClient' = toClient /\ client' = client /\ hist' = hist
    /\ Perform(Mark) =>
           shared' = [shared EXCEPT !.resume = shared.pc]
           /\ toClient' = toClient /\ client' = client /\ hist' = hist
    /\ \A a : Perform(Plant(a)) =>
           shared' = [shared EXCEPT !.bps = shared.bps \cup {a}]
           /\ toClient' = toClient /\ client' = client /\ hist' = hist
    /\ \A a : Perform(Clear(a)) =>
           shared' = [shared EXCEPT !.bps = shared.bps \ {a}]
           /\ toClient' = toClient /\ client' = client /\ hist' = hist
    /\ \A r : Perform(Send(r)) => Sends(r) /\ shared' = shared
    /\ Perform(Wait) => Waited /\ shared' = shared /\ toClient' = toClient /\ client' = client /\ hist' = hist
    /\ Perform(Ready) => /\ client' = [client EXCEPT !.view = "stopped"] /\ hist' = Asked("none", 0)
                         /\ shared' = shared /\ toClient' = toClient
  BY DEF Perform, Put, Mark, Plant, Clear, Send, Wait, Ready
-----------------------------------------------------------------------------
(***************************************************************************)
(* Core 1, step by step.  Each lemma: the step keeps the types and J,      *)
(* whatever core 0 has still to do.                                        *)
(***************************************************************************)
LEMMA WholeStop ==
    /\ Stopping("S05") \in Todo
    /\ Stopping("S05") # <<>> /\ ~(Len(Stopping("S05")) < 3)
  <1>1. Len(Stopping("S05")) = 3 /\ Left(Stopping("S05"), 3) = Stopping("S05")
    BY StoppingStores
  <1>2. Stopping("S05") # <<>>
    BY DEF Stopping
  <1> QED
    BY <1>1, <1>2 DEF Todo

LEMMA NothingToDo == <<>> \in Todo
  <1>1. Left(Stopping("S05"), 0) = <<>>
    BY DEF Left
  <1> QED
    BY <1>1 DEF Todo

LEMMA OutsideType == Outside \in EmuType /\ Outside.at = "top" /\ Outside.todo = <<>>
  BY NothingToDo, FirmwareAssumption DEF Outside, EmuType

\* emu_task looks at the stub and enters its batch (main.c:216-226).
LEMMA BeginKeeps ==
    ASSUME Types, NEW d \in Doing, NEW n \in Nat, J(d, n), Begin
    PROVE  Types' /\ J(d, n)'
  <1>1. /\ emu.at = "top" /\ ~Paused /\ shared.state = "RUNNING"
        /\ emu' = [emu EXCEPT !.at = "decide"]
        /\ shared' = shared /\ hist' = hist
        /\ toStub' = toStub /\ toClient' = toClient /\ client' = client
    BY DEF Begin, Goes, Unmoved
  <1>0. hist.executed \in {0, 1, 2}
    BY DEF Types, HistType
  <1>2. Types'
    BY <1>1 DEF Types, EmuType
  <1>3. emu'.at = "decide" /\ emu'.todo = emu.todo
    BY <1>1 DEF Types, EmuType, SharedType
  <1>4. Connections(d, n)' /\ Talk(d, n)'
    BY <1>1, <1>3 DEF J, Connections, Talk, InStep, OnlyInterrupts, OneOf, Settled
  <1>5. Untold(d, n)'
    BY <1>1, <1>3 DEF J, Untold, Paused
  <1>6. Resting(d, n)'
    BY <1>1, <1>3 DEF J, Resting, InStep, Paused, Connections, Session, Told
  <1>7. Begins(d, n)'
    BY <1>1, <1>3 DEF J, Begins, NothingDone, Stopped, Told, InStep, Starting, Paused, Connections, Session
  <1>8. NothingDone(d, n)'
    BY <1>1, <1>3 DEF J, NothingDone, InStep, Stopped, Told
  <1>9. Continues(d, n)'
    BY <1>0, <1>1, <1>3 DEF J, Continues, InStep, Starting, NothingDone, Begins, Stopped, Told, Resting
  <1>10. Steps(d, n)'
    BY <1>0, <1>1, <1>3 DEF J, Steps, InStep, Starting, NothingDone, Begins, Stopped, Told, Resting
  <1> QED
    BY <1>2, <1>4, <1>5, <1>6, <1>7, <1>8, <1>9, <1>10 DEF J

\* Whether the batch is a debugged one is read once (main.c:227).
LEMMA DecideKeeps ==
    ASSUME Types, NEW d \in Doing, NEW n \in Nat, J(d, n), Decide
    PROVE  Types' /\ J(d, n)'
  <1>1. /\ emu.at = "decide"
        /\ emu' = [emu EXCEPT !.debugging = shared.client, !.i = 0,
                              !.at = IF shared.client THEN "loop" ELSE "free"]
        /\ shared' = shared /\ hist' = hist
        /\ toStub' = toStub /\ toClient' = toClient /\ client' = client
    BY DEF Decide, Unmoved
  <1>0. hist.executed \in {0, 1, 2}
    BY DEF Types, HistType
  <1>2. Types'
    <2>1. emu \in EmuType /\ Batch \in Nat
      BY FirmwareAssumption DEF Types
    <2>0. 0 \in 0..Batch
      BY FirmwareAssumption
    <2>2. shared.client \in BOOLEAN
      BY DEF Types, SharedType
    <2>3. PICK b : b = shared.client
      OBVIOUS
    <2>4. PICK at : at = IF shared.client THEN "loop" ELSE "free"
      OBVIOUS
    <2>5. b \in BOOLEAN /\ at \in {"loop", "free"} /\ emu' = [emu EXCEPT !.debugging = b, !.i = 0, !.at = at]
      BY <1>1, <2>2, <2>3, <2>4
    <2>6. emu' \in EmuType /\ emu'.at \in {"loop", "free"}
      BY <2>0, <2>1, <2>5 DEF EmuType
    <2> QED
      BY <1>1, <2>6 DEF Types
  <1>3. emu'.at = (IF shared.client THEN "loop" ELSE "free") /\ emu'.todo = emu.todo
    BY <1>1 DEF Types, EmuType, SharedType
  <1>4. Connections(d, n)' /\ Talk(d, n)'
    BY <1>1, <1>3 DEF J, Connections, Talk, InStep, OnlyInterrupts, OneOf, Settled
  <1>5. Untold(d, n)'
    BY <1>1, <1>3 DEF J, Untold, Paused
  <1>6. Resting(d, n)'
    BY <1>1, <1>3 DEF J, Resting, InStep, Paused, Connections, Session, Told
  <1>7. Begins(d, n)'
    BY <1>1, <1>3 DEF J, Begins, NothingDone, Stopped, Told, InStep, Starting, Paused, Connections, Session
  <1>8. NothingDone(d, n)'
    BY <1>1, <1>3 DEF J, NothingDone, InStep, Stopped, Told
  <1>9. Continues(d, n)'
    BY <1>0, <1>1, <1>3 DEF J, Continues, InStep, Starting, NothingDone, Begins, Stopped, Told, Resting
  <1>10. Steps(d, n)'
    BY <1>0, <1>1, <1>3 DEF J, Steps, InStep, Starting, NothingDone, Begins, Stopped, Told, Resting
  <1> QED
    BY <1>2, <1>4, <1>5, <1>6, <1>7, <1>8, <1>9, <1>10 DEF J

\* The condition of the loop (main.c:231).
LEMMA LoopTestKeeps ==
    ASSUME Types, NEW d \in Doing, NEW n \in Nat, J(d, n), LoopTest
    PROVE  Types' /\ J(d, n)'
  <1>1. /\ emu.at = "loop"
        /\ \/ /\ emu.i = Batch \/ shared.state # "RUNNING"
              /\ emu' = [emu EXCEPT !.at = "after", !.i = 0]
           \/ /\ emu.i # Batch /\ shared.state = "RUNNING"
              /\ emu' = [emu EXCEPT !.at = "check"]
        /\ shared' = shared /\ hist' = hist
        /\ toStub' = toStub /\ toClient' = toClient /\ client' = client
    BY DEF LoopTest, Unmoved
  <1>0. hist.executed \in {0, 1, 2}
    BY DEF Types, HistType
  <1>2. Types'
    <2>1. emu \in EmuType /\ Batch \in Nat
      BY FirmwareAssumption DEF Types
    <2>0. 0 \in 0..Batch
      BY FirmwareAssumption
    <2>2. CASE emu' = [emu EXCEPT !.at = "after", !.i = 0]
      <3>1. emu' \in EmuType /\ emu'.at = "after"
        BY <2>0, <2>1, <2>2 DEF EmuType
      <3> QED
        BY <1>1, <3>1 DEF Types
    <2>3. CASE emu.i # Batch /\ emu' = [emu EXCEPT !.at = "check"]
      <3>1. emu.i < Batch
        BY <2>1, <2>3 DEF EmuType
      <3>2. emu' \in EmuType /\ emu'.at = "check" /\ emu'.i = emu.i
        BY <2>1, <2>3 DEF EmuType
      <3> QED
        BY <1>1, <3>1, <3>2 DEF Types
    <2> QED
      BY <1>1, <2>2, <2>3
  <1>3. emu'.todo = emu.todo
        /\ \/ emu'.at = "after" /\ (emu.i = Batch \/ shared.state # "RUNNING")
           \/ emu'.at = "check" /\ shared.state = "RUNNING"
    BY <1>1, FirmwareAssumption DEF Types, EmuType, SharedType
  <1>4. Connections(d, n)' /\ Talk(d, n)'
    BY <1>1, <1>3 DEF J, Connections, Talk, InStep, OnlyInterrupts, OneOf, Settled
  <1>5. Untold(d, n)'
    BY <1>1, <1>3 DEF J, Untold, Paused
  <1>6. Resting(d, n)'
    BY <1>1, <1>3 DEF J, Resting, InStep, Paused, Connections, Session, Told
  <1>7. Begins(d, n)'
    BY <1>1, <1>3 DEF J, Begins, NothingDone, Stopped, Told, InStep, Starting, Paused, Connections, Session
  <1>8. NothingDone(d, n)'
    BY <1>1, <1>3 DEF J, NothingDone, InStep, Stopped, Told
  <1>9. Continues(d, n)'
    BY <1>0, <1>1, <1>3 DEF J, Continues, InStep, Starting, NothingDone, Begins, Stopped, Told, Resting
  <1>10. Steps(d, n)'
    BY <1>0, <1>1, <1>3 DEF J, Steps, InStep, Starting, NothingDone, Begins, Stopped, Told, Resting
  <1> QED
    BY <1>2, <1>4, <1>5, <1>6, <1>7, <1>8, <1>9, <1>10 DEF J

\* After an instruction: a step is reported (main.c:236).
LEMMA TestSingleKeeps ==
    ASSUME Types, NEW d \in Doing, NEW n \in Nat, J(d, n), TestSingle
    PROVE  Types' /\ J(d, n)'
  <1>1. /\ emu.at = "single"
        /\ \/ /\ shared.single
              /\ emu' = [emu EXCEPT !.at = "notify", !.todo = Stopping("S05"), !.then = "after"]
           \/ /\ ~shared.single
              /\ emu' = [emu EXCEPT !.at = "loop", !.i = emu.i + 1]
        /\ shared' = shared /\ hist' = hist
        /\ toStub' = toStub /\ toClient' = toClient /\ client' = client
    BY DEF TestSingle, Notifies, Unmoved
  <1>0. hist.executed \in {0, 1, 2}
    BY DEF Types, HistType
  <1>2. Types'
    <2>1. emu \in EmuType /\ Batch \in Nat
      BY FirmwareAssumption DEF Types
    <2>0. 0 \in 0..Batch
      BY FirmwareAssumption
    <2>2. CASE emu' = [emu EXCEPT !.at = "notify", !.todo = Stopping("S05"), !.then = "after"]
      <3>1. emu' \in EmuType /\ emu'.at = "notify" /\ emu'.todo = Stopping("S05")
        BY <2>1, <2>2, WholeStop DEF EmuType
      <3> QED
        BY <1>1, <3>1, WholeStop DEF Types
    <2>3. CASE emu' = [emu EXCEPT !.at = "loop", !.i = emu.i + 1]
      <3>1. emu.i \in Nat /\ emu.i < Batch
        BY <1>1, <2>1 DEF Types, EmuType
      <3>2. emu.i + 1 \in 0..Batch
        BY <2>1, <3>1
      <3>3. emu' \in EmuType /\ emu'.at = "loop"
        BY <2>1, <2>3, <3>2 DEF EmuType
      <3> QED
        BY <1>1, <3>3 DEF Types
    <2> QED
      BY <1>1, <2>2, <2>3
  <1>3. \/ emu'.at = "notify" /\ ~(Len(emu'.todo) < 3)
        \/ emu'.at = "loop" /\ ~shared.single
    BY <1>1, WholeStop DEF Types, EmuType, SharedType
  <1>4. Connections(d, n)' /\ Talk(d, n)'
    BY <1>1, <1>3 DEF J, Connections, Talk, InStep, OnlyInterrupts, OneOf, Settled
  <1>5. Untold(d, n)'
    BY <1>1, <1>3 DEF J, Untold, Paused
  <1>6. Resting(d, n)'
    BY <1>1, <1>3 DEF J, Resting, InStep, Paused, Connections, Session, Told
  <1>7. Begins(d, n)'
    BY <1>1, <1>3 DEF J, Begins, NothingDone, Stopped, Told, InStep, Starting, Paused, Connections, Session
  <1>8. NothingDone(d, n)'
    BY <1>1, <1>3 DEF J, NothingDone, InStep, Stopped, Told
  <1>9. Continues(d, n)'
    BY <1>0, <1>1, <1>3 DEF J, Continues, InStep, Starting, NothingDone, Begins, Stopped, Told, Resting
  <1>10. Steps(d, n)'
    BY <1>0, <1>1, <1>3 DEF J, Steps, InStep, Starting, NothingDone, Begins, Stopped, Told, Resting
  <1> QED
    BY <1>2, <1>4, <1>5, <1>6, <1>7, <1>8, <1>9, <1>10 DEF J

\* After the loop: a stop found now is reported (main.c:255).
LEMMA AfterKeeps ==
    ASSUME Types, NEW d \in Doing, NEW n \in Nat, J(d, n), After
    PROVE  Types' /\ J(d, n)'
  <1>1. /\ emu.at = "after"
        /\ \/ /\ shared.state \in {"HALTED", "BREAK"}
              /\ emu' = [emu EXCEPT !.at = "notify", !.todo = Stopping("S05"), !.then = "top"]
           \/ emu' = Outside
        /\ shared' = shared /\ hist' = hist
        /\ toStub' = toStub /\ toClient' = toClient /\ client' = client
    BY DEF After, Notifies, Unmoved
  <1>0. hist.executed \in {0, 1, 2}
    BY DEF Types, HistType
  <1>2. Types'
    <2>1. emu \in EmuType /\ Batch \in Nat
      BY FirmwareAssumption DEF Types
    <2>0. 0 \in 0..Batch
      BY FirmwareAssumption
    <2>2. CASE emu' = [emu EXCEPT !.at = "notify", !.todo = Stopping("S05"), !.then = "top"]
      <3>1. emu' \in EmuType /\ emu'.at = "notify" /\ emu'.todo = Stopping("S05")
        BY <2>1, <2>2, WholeStop DEF EmuType
      <3> QED
        BY <1>1, <3>1, WholeStop DEF Types
    <2>3. CASE emu' = Outside
      BY <1>1, <2>3, OutsideType DEF Types
    <2> QED
      BY <1>1, <2>2, <2>3
  <1>3. \/ /\ emu'.at = "notify" /\ ~(Len(emu'.todo) < 3)
           /\ shared.state \in {"HALTED", "BREAK"}
        \/ emu'.at = "top"
    BY <1>1, OutsideType, WholeStop DEF Types, EmuType, SharedType
  <1>4. Connections(d, n)' /\ Talk(d, n)'
    BY <1>1, <1>3 DEF J, Connections, Talk, InStep, OnlyInterrupts, OneOf, Settled
  <1>5. Untold(d, n)'
    BY <1>1, <1>3 DEF J, Untold, Paused
  <1>6. Resting(d, n)'
    BY <1>1, <1>3 DEF J, Resting, InStep, Paused, Connections, Session, Told
  <1>7. Begins(d, n)'
    BY <1>1, <1>3 DEF J, Begins, NothingDone, Stopped, Told, InStep, Starting, Paused, Connections, Session
  <1>8. NothingDone(d, n)'
    BY <1>1, <1>3 DEF J, NothingDone, InStep, Stopped, Told
  <1>9. Continues(d, n)'
    BY <1>0, <1>1, <1>3 DEF J, Continues, InStep, Starting, NothingDone, Begins, Stopped, Told, Resting
  <1>10. Steps(d, n)'
    BY <1>0, <1>1, <1>3 DEF J, Steps, InStep, Starting, NothingDone, Begins, Stopped, Told, Resting
  <1> QED
    BY <1>2, <1>4, <1>5, <1>6, <1>7, <1>8, <1>9, <1>10 DEF J

LEMMA FreeEndKeeps ==
    ASSUME Types, NEW d \in Doing, NEW n \in Nat, J(d, n), FreeEnd
    PROVE  Types' /\ J(d, n)'
  <1>1. /\ emu.at = "free"
        /\ emu' = [emu EXCEPT !.at = "after"]
        /\ shared' = shared /\ hist' = hist
        /\ toStub' = toStub /\ toClient' = toClient /\ client' = client
    BY DEF FreeEnd, Goes, Unmoved
  <1>0. hist.executed \in {0, 1, 2}
    BY DEF Types, HistType
  <1>2. Types'
    BY <1>1 DEF Types, EmuType
  <1>3. emu'.at = "after" /\ emu'.todo = emu.todo
    BY <1>1 DEF Types, EmuType, SharedType
  <1>4. Connections(d, n)' /\ Talk(d, n)'
    BY <1>1, <1>3 DEF J, Connections, Talk, InStep, OnlyInterrupts, OneOf, Settled
  <1>5. Untold(d, n)'
    BY <1>1, <1>3 DEF J, Untold, Paused
  <1>6. Resting(d, n)'
    BY <1>1, <1>3 DEF J, Resting, InStep, Paused, Connections, Session, Told
  <1>7. Begins(d, n)'
    BY <1>1, <1>3 DEF J, Begins, NothingDone, Stopped, Told, InStep, Starting, Paused, Connections, Session
  <1>8. NothingDone(d, n)'
    BY <1>1, <1>3 DEF J, NothingDone, InStep, Stopped, Told, Resting
  <1>9. Continues(d, n)'
    BY <1>0, <1>1, <1>3 DEF J, Continues, InStep, Starting, NothingDone, Begins, Stopped, Told, Resting
  <1>10. Steps(d, n)'
    BY <1>0, <1>1, <1>3 DEF J, Steps, InStep, Starting, NothingDone, Begins, Stopped, Told, Resting
  <1> QED
    BY <1>2, <1>4, <1>5, <1>6, <1>7, <1>8, <1>9, <1>10 DEF J

\* A sleeping core moves pc to a vector, whatever core 0 is doing (avr_cpu.c:248-281).
LEMMA TakeInterruptKeeps ==
    ASSUME Types, NEW d \in Doing, NEW n \in Nat, J(d, n), TakeInterrupt
    PROVE  Types' /\ J(d, n)'
  <1>1. /\ emu.at = "top" /\ ~Paused
        /\ \E a \in Addr : shared' = [shared EXCEPT !.pc = a]
        /\ emu' = [emu EXCEPT !.at = "vector"]
        /\ hist' = hist
        /\ toStub' = toStub /\ toClient' = toClient /\ client' = client
    BY DEF TakeInterrupt, Goes, Unmoved
  <1>0. hist.executed \in {0, 1, 2}
    BY DEF Types, HistType
  <1>2. Types'
    BY <1>1 DEF Types, EmuType, SharedType
  <1>3. /\ emu'.at = "vector" /\ emu'.todo = emu.todo
        /\ shared'.client = shared.client
        /\ shared'.running = shared.running
        /\ shared'.single = shared.single
        /\ shared'.resume = shared.resume
        /\ shared'.bps = shared.bps
        /\ shared'.state = shared.state
    BY <1>1 DEF Types, EmuType, SharedType
  <1>4. Connections(d, n)' /\ Talk(d, n)'
    BY <1>1, <1>3 DEF J, Connections, Talk, InStep, OnlyInterrupts, OneOf, Settled
  <1>5. Untold(d, n)'
    BY <1>1, <1>3 DEF J, Untold, Paused
  <1>6. Resting(d, n)'
    BY <1>1, <1>3 DEF J, Resting, InStep, Paused, Connections, Session, Told
  <1>7. Begins(d, n)'
    BY <1>1, <1>3 DEF J, Begins, NothingDone, Stopped, Told, InStep, Starting, Paused, Connections, Session
  <1>8. NothingDone(d, n)'
    BY <1>1, <1>3 DEF J, NothingDone, InStep, Stopped, Told
  <1>9. Continues(d, n)'
    BY <1>0, <1>1, <1>3 DEF J, Continues, InStep, Starting, NothingDone, Begins, Stopped, Told, Resting
  <1>10. Steps(d, n)'
    BY <1>0, <1>1, <1>3 DEF J, Steps, InStep, Starting, NothingDone, Begins, Stopped, Told, Resting
  <1> QED
    BY <1>2, <1>4, <1>5, <1>6, <1>7, <1>8, <1>9, <1>10 DEF J

LEMMA TestSleepingKeeps ==
    ASSUME Types, NEW d \in Doing, NEW n \in Nat, J(d, n), TestSleeping
    PROVE  Types' /\ J(d, n)'
  <1>1. /\ emu.at = "vector"
        /\ emu' = [emu EXCEPT !.at = IF shared.state = "SLEEPING" THEN "wake" ELSE "top"]
        /\ shared' = shared /\ hist' = hist
        /\ toStub' = toStub /\ toClient' = toClient /\ client' = client
    BY DEF TestSleeping, Goes, Unmoved
  <1>0. hist.executed \in {0, 1, 2}
    BY DEF Types, HistType
  <1>2. Types'
    BY <1>1 DEF Types, EmuType
  <1>3. emu'.at \in {"wake", "top"} /\ emu'.todo = emu.todo
    BY <1>1 DEF Types, EmuType, SharedType
  <1>4. Connections(d, n)' /\ Talk(d, n)'
    BY <1>1, <1>3 DEF J, Connections, Talk, InStep, OnlyInterrupts, OneOf, Settled
  <1>5. Untold(d, n)'
    BY <1>1, <1>3 DEF J, Untold, Paused
  <1>6. Resting(d, n)'
    BY <1>1, <1>3 DEF J, Resting, InStep, Paused, Connections, Session, Told
  <1>7. Begins(d, n)'
    BY <1>1, <1>3 DEF J, Begins, NothingDone, Stopped, Told, InStep, Starting, Paused, Connections, Session
  <1>8. NothingDone(d, n)'
    BY <1>1, <1>3 DEF J, NothingDone, InStep, Stopped, Told
  <1>9. Continues(d, n)'
    BY <1>0, <1>1, <1>3 DEF J, Continues, InStep, Starting, NothingDone, Begins, Stopped, Told, Resting
  <1>10. Steps(d, n)'
    BY <1>0, <1>1, <1>3 DEF J, Steps, InStep, Starting, NothingDone, Begins, Stopped, Told, Resting
  <1> QED
    BY <1>2, <1>4, <1>5, <1>6, <1>7, <1>8, <1>9, <1>10 DEF J

\* The wake-up stores RUNNING, over whatever core 0 has stored since (avr_cpu.c:274-278).
LEMMA WakeKeeps ==
    ASSUME Types, NEW d \in Doing, NEW n \in Nat, J(d, n), Wake
    PROVE  Types' /\ J(d, n)'
  <1>1. /\ emu.at = "wake"
        /\ shared' = [shared EXCEPT !.state = "RUNNING"]
        /\ emu' = [emu EXCEPT !.at = "top"]
        /\ hist' = hist
        /\ toStub' = toStub /\ toClient' = toClient /\ client' = client
    BY DEF Wake, Goes, Unmoved
  <1>0. hist.executed \in {0, 1, 2}
    BY DEF Types, HistType
  <1>2. Types'
    BY <1>1 DEF Types, EmuType, SharedType
  <1>3. /\ emu'.at = "top" /\ emu'.todo = emu.todo
        /\ shared'.client = shared.client
        /\ shared'.running = shared.running
        /\ shared'.single = shared.single
        /\ shared'.resume = shared.resume
        /\ shared'.bps = shared.bps
        /\ shared'.pc = shared.pc
    BY <1>1 DEF Types, EmuType, SharedType
  <1>4. Connections(d, n)' /\ Talk(d, n)'
    BY <1>1, <1>3 DEF J, Connections, Talk, InStep, OnlyInterrupts, OneOf, Settled
  <1>5. Untold(d, n)'
    BY <1>1, <1>3 DEF J, Untold, Paused
  <1>6. Resting(d, n)'
    BY <1>1, <1>3 DEF J, Resting, InStep, Paused, Connections, Session, Told
  <1>7. Begins(d, n)'
    BY <1>1, <1>3 DEF J, Begins, NothingDone, Stopped, Told, InStep, Starting, Paused, Connections, Session
  <1>8. NothingDone(d, n)'
    BY <1>1, <1>3 DEF J, NothingDone, InStep, Stopped, Told
  <1>9. Continues(d, n)'
    BY <1>0, <1>1, <1>3 DEF J, Continues, InStep, Starting, NothingDone, Begins, Stopped, Told, Resting
  <1>10. Steps(d, n)'
    BY <1>0, <1>1, <1>3 DEF J, Steps, InStep, Starting, NothingDone, Begins, Stopped, Told, Resting
  <1> QED
    BY <1>2, <1>4, <1>5, <1>6, <1>7, <1>8, <1>9, <1>10 DEF J

\* gdb_check_breakpoint clears resume_from_pc once pc has left it (gdb_stub.c:384-400).
LEMMA CheckBreakpointKeeps ==
    ASSUME Types, NEW d \in Doing, NEW n \in Nat, J(d, n), CheckBreakpoint
    PROVE  Types' /\ J(d, n)'
  <1>1. /\ emu.at = "check"
        /\ shared' = [shared EXCEPT !.resume = IF shared.pc = shared.resume THEN shared.resume ELSE None]
        /\ \/ /\ shared.pc # shared.resume /\ shared.pc \in shared.bps
              /\ emu' = [emu EXCEPT !.at = "notify", !.todo = Stopping("S05"), !.then = "after"]
           \/ /\ shared.pc = shared.resume \/ shared.pc \notin shared.bps
              /\ emu' = [emu EXCEPT !.at = "step"]
        /\ hist' = hist
        /\ toStub' = toStub /\ toClient' = toClient /\ client' = client
    BY DEF CheckBreakpoint, Notifies, Goes, Unmoved
  <1>0. hist.executed \in {0, 1, 2}
    BY DEF Types, HistType
  <1>2. Types'
    <2>1. emu \in EmuType /\ Batch \in Nat
      BY FirmwareAssumption DEF Types
    <2>0. 0 \in 0..Batch
      BY FirmwareAssumption
    <2>2. shared' \in SharedType
      BY <1>1 DEF Types, SharedType
    <2>3. CASE emu' = [emu EXCEPT !.at = "notify", !.todo = Stopping("S05"), !.then = "after"]
      <3>1. emu' \in EmuType /\ emu'.at = "notify" /\ emu'.todo = Stopping("S05")
        BY <2>1, <2>3, WholeStop DEF EmuType
      <3> QED
        BY <1>1, <2>2, <3>1, WholeStop DEF Types
    <2>4. CASE emu' = [emu EXCEPT !.at = "step"]
      <3>1. emu' \in EmuType /\ emu'.at = "step" /\ emu'.i = emu.i
        BY <2>1, <2>4 DEF EmuType
      <3> QED
        BY <1>1, <2>2, <3>1 DEF Types
    <2> QED
      BY <1>1, <2>3, <2>4
  <1>11. shared.pc # None
    <2>1. shared.pc \in Nat
      BY FirmwareAssumption DEF Types, SharedType
    <2> QED
      BY <2>1 DEF None
  <1>3. /\ \/ /\ emu'.at = "notify" /\ ~(Len(emu'.todo) < 3)
              /\ shared.pc # shared.resume /\ shared.pc \in shared.bps
           \/ /\ emu'.at = "step" /\ emu'.todo = emu.todo
              /\ shared.pc = shared.resume \/ shared.pc \notin shared.bps
        /\ shared'.resume = IF shared.pc = shared.resume THEN shared.resume ELSE None
        /\ shared'.client = shared.client
        /\ shared'.running = shared.running
        /\ shared'.single = shared.single
        /\ shared'.pc = shared.pc
        /\ shared'.bps = shared.bps
        /\ shared'.state = shared.state
        /\ shared.pc # None
    BY <1>1, <1>11, WholeStop DEF Types, EmuType, SharedType
  <1>4. Connections(d, n)' /\ Talk(d, n)'
    BY <1>1, <1>3 DEF J, Connections, Talk, InStep, OnlyInterrupts, OneOf, Settled
  <1>5. Untold(d, n)'
    BY <1>1, <1>3 DEF J, Untold, Paused
  <1>6. Resting(d, n)'
    BY <1>1, <1>3 DEF J, Resting, InStep, Paused, Connections, Session, Told
  <1>7. Begins(d, n)'
    BY <1>1, <1>3 DEF J, Begins, NothingDone, Stopped, Told, InStep, Starting, Paused, Connections, Session
  <1>8. NothingDone(d, n)'
    BY <1>1, <1>3 DEF J, NothingDone, InStep, Stopped, Told
  <1>9. Continues(d, n)'
    BY <1>0, <1>1, <1>3 DEF J, Continues, InStep, Starting, NothingDone, Begins, Stopped, Told, Resting
  <1>10. Steps(d, n)'
    BY <1>0, <1>1, <1>3 DEF J, Steps, InStep, Starting, NothingDone, Begins, Stopped, Told, Resting
  <1> QED
    BY <1>2, <1>4, <1>5, <1>6, <1>7, <1>8, <1>9, <1>10 DEF J

\* What executing an instruction changes.
LEMMA ExecutedFacts ==
    ASSUME Types, Executes
    PROVE  /\ shared' \in SharedType /\ hist' \in HistType
           /\ shared'.client = shared.client /\ shared'.running = shared.running
           /\ shared'.single = shared.single /\ shared'.bps = shared.bps
           /\ shared'.resume = shared.resume
           /\ hist'.mode = hist.mode /\ hist'.from = hist.from
           /\ hist.mode \notin Told => hist' = hist
           /\ hist.mode \in Told => /\ hist'.executed > 0
                                    /\ hist.executed = 0 => hist'.executed = 1
                                    /\ hist'.trail = hist.trail \cup {shared.pc}
  <1>1. StatesAfter(shared) \subseteq {"BREAK", "SLEEPING", "RUNNING", "HALTED"}
    BY DEF StatesAfter, Types, SharedType
  <1>2. \/ shared' = [shared EXCEPT !.state = "HALTED"]
        \/ \E st \in {"BREAK", "SLEEPING", "RUNNING", "HALTED"}, a \in Addr :
               shared' = [shared EXCEPT !.state = st, !.pc = a]
    BY <1>1 DEF Executes
  <1>3. /\ shared' \in SharedType
        /\ shared'.client = shared.client /\ shared'.running = shared.running
        /\ shared'.single = shared.single /\ shared'.bps = shared.bps
        /\ shared'.resume = shared.resume
    BY <1>2 DEF Types, SharedType
  <1>4. CASE hist.mode \notin Told
    <2>1. hist' = hist
      BY <1>4 DEF Executes, Told
    <2> QED
      BY <1>3, <1>4, <2>1 DEF Types
  <1>5. CASE hist.mode \in Told
    <2>1. hist' = [hist EXCEPT !.executed = IF hist.executed = 2 THEN 2 ELSE hist.executed + 1,
                               !.trail = hist.trail \cup {shared.pc}]
      BY <1>5 DEF Executes, Told
    <2>2. hist \in HistType /\ shared.pc \in Addr
      BY DEF Types, SharedType
    <2>3. hist.executed \in {0, 1, 2}
      BY <2>2 DEF HistType
    <2> DEFINE e == IF hist.executed = 2 THEN 2 ELSE hist.executed + 1
    <2>4. e \in 0..2 /\ e > 0 /\ (hist.executed = 0 => e = 1)
      BY <2>3
    <2> HIDE DEF e
    <2>5. hist' = [hist EXCEPT !.executed = e, !.trail = hist.trail \cup {shared.pc}]
      BY <2>1 DEF e
    <2>6. hist' \in HistType /\ hist'.mode = hist.mode /\ hist'.from = hist.from
          /\ hist'.executed = e /\ hist'.trail = hist.trail \cup {shared.pc}
      BY <2>2, <2>4, <2>5 DEF HistType
    <2> QED
      BY <1>3, <1>5, <2>4, <2>6
  <1> QED
    BY <1>4, <1>5

\* An instruction of a debugged batch.
LEMMA StepKeeps ==
    ASSUME Types, NEW d \in Doing, NEW n \in Nat, J(d, n), Step
    PROVE  Types' /\ J(d, n)'
  <1>1. /\ emu.at = "step" /\ Executes
        /\ emu' = [emu EXCEPT !.at = "single"]
        /\ toStub' = toStub /\ toClient' = toClient /\ client' = client
    BY DEF Step, Goes, Unmoved
  <1>0. hist.executed \in {0, 1, 2}
    BY DEF Types, HistType
  <1>2. Types'
    <2>1. emu' \in EmuType /\ emu'.at = "single" /\ emu'.i = emu.i
      BY <1>1 DEF Types, EmuType
    <2> QED
      BY <1>1, <2>1, ExecutedFacts DEF Types
  <1>3. emu'.at = "single" /\ emu'.todo = emu.todo
    BY <1>1 DEF Types, EmuType
  <1>4. Connections(d, n)' /\ Talk(d, n)'
    BY <1>1, <1>3, ExecutedFacts DEF J, Connections, Talk, InStep, OnlyInterrupts, OneOf, Settled
  <1>5. Untold(d, n)'
    BY <1>1, <1>3, ExecutedFacts DEF J, Untold, Paused
  <1>6. Resting(d, n)'
    BY <1>1, <1>3, ExecutedFacts DEF J, Resting, InStep, Paused, Connections, Session, Told
  <1>7. Begins(d, n)'
    BY <1>1, <1>3, ExecutedFacts DEF J, Begins, NothingDone, Stopped, Told, InStep, Starting, Paused, Connections, Session
  <1>8. NothingDone(d, n)'
    BY <1>1, <1>3, ExecutedFacts DEF J, NothingDone, InStep, Stopped, Told
  <1>9. Continues(d, n)'
    BY <1>0, <1>1, <1>3, ExecutedFacts DEF J, Continues, InStep, Starting, NothingDone, Begins, Stopped, Told, Resting
  <1>10. Steps(d, n)'
    BY <1>0, <1>1, <1>3, ExecutedFacts DEF J, Steps, InStep, Starting, NothingDone, Begins, Stopped, Told, Resting
  <1> QED
    BY <1>2, <1>4, <1>5, <1>6, <1>7, <1>8, <1>9, <1>10 DEF J

\* An instruction of a batch begun without a debugger.
LEMMA FreeStepKeeps ==
    ASSUME Types, NEW d \in Doing, NEW n \in Nat, J(d, n), FreeStep
    PROVE  Types' /\ J(d, n)'
  <1>1. /\ emu.at = "free" /\ emu.i < Batch /\ Executes
        /\ \E at \in {"after", "free"} : emu' = [emu EXCEPT !.i = emu.i + 1, !.at = at]
        /\ toStub' = toStub /\ toClient' = toClient /\ client' = client
    BY DEF FreeStep, Unmoved
  <1>0. hist.executed \in {0, 1, 2}
    BY DEF Types, HistType
  <1>2. Types'
    <2>1. emu.i + 1 \in 0..Batch
      BY <1>1, FirmwareAssumption DEF Types, EmuType
    <2>2. emu' \in EmuType /\ emu'.at \in {"after", "free"}
      BY <1>1, <2>1 DEF Types, EmuType
    <2> QED
      BY <1>1, <2>2, ExecutedFacts DEF Types
  <1>3. emu'.at \in {"after", "free"} /\ emu'.todo = emu.todo
    BY <1>1 DEF Types, EmuType
  <1>4. Connections(d, n)' /\ Talk(d, n)'
    BY <1>1, <1>3, ExecutedFacts DEF J, Connections, Talk, InStep, OnlyInterrupts, OneOf, Settled
  <1>5. Untold(d, n)'
    BY <1>1, <1>3, ExecutedFacts DEF J, Untold, Paused
  <1>6. Resting(d, n)'
    BY <1>1, <1>3, ExecutedFacts DEF J, Resting, InStep, Paused, Connections, Session, Told
  <1>7. Begins(d, n)'
    BY <1>1, <1>3, ExecutedFacts DEF J, Begins, NothingDone, Stopped, Told, InStep, Starting, Paused, Connections, Session
  <1>8. NothingDone(d, n)'
    BY <1>1, <1>3, ExecutedFacts DEF J, Resting, NothingDone, InStep, Stopped, Told
  <1>9. Continues(d, n)'
    BY <1>0, <1>1, <1>3, ExecutedFacts DEF J, Continues, InStep, Starting, NothingDone, Begins, Stopped, Told, Resting
  <1>10. Steps(d, n)'
    BY <1>0, <1>1, <1>3, ExecutedFacts DEF J, Steps, InStep, Starting, NothingDone, Begins, Stopped, Told, Resting
  <1> QED
    BY <1>2, <1>4, <1>5, <1>6, <1>7, <1>8, <1>9, <1>10 DEF J
-----------------------------------------------------------------------------
(***************************************************************************)
(* Core 1's report of a stop, gdb_notify_stop, store by store.             *)
(***************************************************************************)
\* In a session the stub has its client and no end of the connection is on the way.
LEMMA SessionHolds ==
    ASSUME Types, NEW d \in Doing, NEW n \in Nat, J(d, n), client.view \in Session
    PROVE  shared.client /\ ~Gone
  <1>1. shared.client
    BY DEF J, Connections
  <1>2. \A k \in DOMAIN toStub : toStub[k].op \notin End
    <2>1. DOMAIN toStub = 1..Len(toStub)
      BY DEF Types
    <2> QED
      BY <2>1 DEF J, Connections
  <1>3. client.view # "absent"
    BY DEF Session
  <1> QED
    BY <1>1, <1>2, <1>3 DEF Gone, End

\* The next store of gdb_notify_stop.
LEMMA NextNotice ==
    ASSUME Types, emu.at = "notify"
    PROVE  \/ /\ Len(emu.todo) = 3 /\ Head(emu.todo) = Put("running", FALSE)
              /\ Tail(emu.todo) \in Todo /\ Tail(emu.todo) # <<>>
           \/ /\ Len(emu.todo) = 2 /\ Head(emu.todo) = Put("single", FALSE)
              /\ Tail(emu.todo) \in Todo /\ Tail(emu.todo) # <<>>
           \/ Len(emu.todo) = 1 /\ Head(emu.todo) = Send("S05")
  <1>1. PICK k \in 0..3 : emu.todo = Left(Stopping("S05"), k)
    BY DEF Types, EmuType, Todo
  <1> DEFINE p == Stopping("S05")
  <1>2. /\ Len(p) = 3 /\ p[1] = Put("running", FALSE)
        /\ p[2] = Put("single", FALSE) /\ p[3] = Send("S05")
    BY StoppingStores
  <1> HIDE DEF p
  <1>3. k \in 0..Len(p) /\ Len(p) \in Nat
    BY <1>2
  <1>4. /\ Len(Left(p, k)) = k /\ (k = 0 <=> Left(p, k) = <<>>)
        /\ k > 0 => Head(Left(p, k)) = p[Len(p) - k + 1] /\ Tail(Left(p, k)) = Left(p, k - 1)
    BY <1>3, LeftFacts
  <1>5. emu.todo = Left(p, k)
    BY <1>1 DEF p
  <1>6. k # 0
    BY <1>4, <1>5 DEF Types
  <1>8. \A j \in 1..2 : Left(p, j) \in Todo /\ Left(p, j) # <<>>
    <2> TAKE j \in 1..2
    <2>1. j \in 0..Len(p) /\ j # 0
      BY <1>2
    <2>2. Left(p, j) # <<>>
      BY <1>3, <2>1, LeftFacts
    <2>3. Left(p, j) \in Todo
      BY DEF Todo, p
    <2> QED
      BY <2>2, <2>3
  <1>9. CASE k = 3
    <2>1. Len(p) - k + 1 = 1 /\ k - 1 = 2 /\ k > 0
      BY <1>2, <1>9
    <2>2. Head(Left(p, k)) = p[1] /\ Tail(Left(p, k)) = Left(p, 2)
      BY <1>4, <2>1
    <2>3. Head(emu.todo) = p[1] /\ Tail(emu.todo) = Left(p, 2)
      BY <1>5, <2>2, Zenon
    <2>4. Len(emu.todo) = 3
      BY <1>4, <1>5, <1>9, Zenon
    <2>5. Left(p, 2) \in Todo /\ Left(p, 2) # <<>>
      BY <1>8
    <2> QED
      BY <1>2, <2>3, <2>4, <2>5
  <1>10. CASE k = 2
    <2>1. Len(p) - k + 1 = 2 /\ k - 1 = 1 /\ k > 0
      BY <1>2, <1>10
    <2>2. Head(Left(p, k)) = p[2] /\ Tail(Left(p, k)) = Left(p, 1)
      BY <1>4, <2>1
    <2>3. Head(emu.todo) = p[2] /\ Tail(emu.todo) = Left(p, 1)
      BY <1>5, <2>2, Zenon
    <2>4. Len(emu.todo) = 2
      BY <1>4, <1>5, <1>10, Zenon
    <2>5. Left(p, 1) \in Todo /\ Left(p, 1) # <<>>
      BY <1>8
    <2> QED
      BY <1>2, <2>3, <2>4, <2>5
  <1>11. CASE k = 1
    <2>1. Len(p) - k + 1 = 3 /\ k - 1 = 0 /\ k > 0
      BY <1>2, <1>11
    <2>2. Head(Left(p, k)) = p[3] /\ Tail(Left(p, k)) = Left(p, 0)
      BY <1>4, <2>1
    <2>3. Head(emu.todo) = p[3] /\ Tail(emu.todo) = Left(p, 0)
      BY <1>5, <2>2, Zenon
    <2>4. Len(emu.todo) = 1
      BY <1>4, <1>5, <1>11, Zenon
    <2> QED
      BY <1>2, <2>3, <2>4
  <1>12. k \in {1, 2, 3}
    <2>1. k \in 0..3
      OBVIOUS
    <2> QED
      BY <1>6, <2>1
  <1> QED
    BY <1>9, <1>10, <1>11, <1>12, Zenon

\* The stores of gdb_notify_stop, one after the other.
LEMMA NoticeRunning ==
    ASSUME Types, NEW d \in Doing, NEW n \in Nat, J(d, n), NotifyStore,
           Len(emu.todo) = 3, Head(emu.todo) = Put("running", FALSE),
           Tail(emu.todo) \in Todo, Tail(emu.todo) # <<>>
    PROVE  Types' /\ J(d, n)'
  <1>1. /\ emu.at = "notify" /\ emu' = [emu EXCEPT !.todo = Tail(emu.todo)]
        /\ toStub' = toStub
    BY DEF NotifyStore
  <1>2. /\ shared' = [shared EXCEPT !.running = FALSE]
        /\ toClient' = toClient /\ client' = client /\ hist' = hist
    <2>1. Perform(Put("running", FALSE))
      BY DEF NotifyStore
    <2> QED
      BY <2>1, Performs, Zenon
  <1>3. emu' \in EmuType /\ emu'.at = "notify" /\ emu'.todo = Tail(emu.todo)
    BY <1>1 DEF Types, EmuType
  <1>4. /\ shared' \in SharedType /\ ~shared'.running
        /\ shared'.client = shared.client
        /\ shared'.single = shared.single
        /\ shared'.resume = shared.resume
        /\ shared'.bps = shared.bps
        /\ shared'.pc = shared.pc
    BY <1>2 DEF Types, SharedType
  <1>5. Types'
    BY <1>1, <1>2, <1>3, <1>4 DEF Types
  <1>6. Connections(d, n)' /\ Talk(d, n)'
    BY <1>1, <1>2, <1>4 DEF J, Connections, Talk, InStep, OnlyInterrupts, OneOf, Settled
  <1>7. Untold(d, n)'
    BY <1>1, <1>2, <1>3, <1>4 DEF J, Untold, Paused
  <1>8. Resting(d, n)'
    BY <1>1, <1>2, <1>3, <1>4 DEF J, Resting, InStep, Told
  <1>9. Begins(d, n)'
    BY <1>1, <1>2, <1>3, <1>4 DEF J, Begins, InStep, Starting
  <1>10. NothingDone(d, n)'
    BY <1>1, <1>2, <1>3, <1>4 DEF J, NothingDone, InStep
  <1>11. Continues(d, n)'
    BY <1>1, <1>2, <1>3, <1>4 DEF J, Continues, InStep, Starting
  <1>12. Steps(d, n)'
    BY <1>1, <1>2, <1>3, <1>4 DEF J, Steps, InStep, Starting
  <1> QED
    BY <1>5, <1>6, <1>7, <1>8, <1>9, <1>10, <1>11, <1>12 DEF J

LEMMA NoticeSingle ==
    ASSUME Types, NEW d \in Doing, NEW n \in Nat, J(d, n), NotifyStore,
           Len(emu.todo) = 2, Head(emu.todo) = Put("single", FALSE),
           Tail(emu.todo) \in Todo, Tail(emu.todo) # <<>>
    PROVE  Types' /\ J(d, n)'
  <1>1. /\ emu.at = "notify" /\ emu' = [emu EXCEPT !.todo = Tail(emu.todo)]
        /\ toStub' = toStub
    BY DEF NotifyStore
  <1>2. /\ shared' = [shared EXCEPT !.single = FALSE]
        /\ toClient' = toClient /\ client' = client /\ hist' = hist
    <2>1. Perform(Put("single", FALSE))
      BY DEF NotifyStore
    <2> QED
      BY <2>1, Performs, Zenon
  <1>3. emu' \in EmuType /\ emu'.at = "notify" /\ emu'.todo = Tail(emu.todo)
    BY <1>1 DEF Types, EmuType
  <1>4. /\ shared' \in SharedType /\ ~shared'.single
        /\ shared'.client = shared.client
        /\ shared'.running = shared.running
        /\ shared'.resume = shared.resume
        /\ shared'.bps = shared.bps
        /\ shared'.pc = shared.pc
    BY <1>2 DEF Types, SharedType
  <1>5. Types'
    BY <1>1, <1>2, <1>3, <1>4 DEF Types
  <1>6. Connections(d, n)' /\ Talk(d, n)'
    BY <1>1, <1>2, <1>4 DEF J, Connections, Talk, InStep, OnlyInterrupts, OneOf, Settled
  <1>7. Untold(d, n)'
    BY <1>1, <1>2, <1>3, <1>4 DEF J, Untold, Paused
  <1>8. Resting(d, n)'
    BY <1>1, <1>2, <1>3, <1>4 DEF J, Resting, InStep, Told
  <1>9. Begins(d, n)'
    BY <1>1, <1>2, <1>3, <1>4 DEF J, Begins, InStep, Starting
  <1>10. NothingDone(d, n)'
    BY <1>1, <1>2, <1>3, <1>4 DEF J, NothingDone, InStep
  <1>11. Continues(d, n)'
    BY <1>1, <1>2, <1>3, <1>4 DEF J, Continues, InStep, Starting
  <1>12. Steps(d, n)'
    BY <1>1, <1>2, <1>3, <1>4 DEF J, Steps, InStep, Starting
  <1> QED
    BY <1>5, <1>6, <1>7, <1>8, <1>9, <1>10, <1>11, <1>12 DEF J

\* The reply itself: in a session that stays in step it answers a c or an s that is
\* all there is on the way.
LEMMA NoticeSent ==
    ASSUME Types, NEW d \in Doing, NEW n \in Nat, J(d, n), NotifyStore,
           Len(emu.todo) = 1, Head(emu.todo) = Send("S05")
    PROVE  Types' /\ J(d, n)'
  <1>1. emu.at = "notify" /\ toStub' = toStub
    BY DEF NotifyStore
  <1>2. Sends("S05") /\ shared' = shared
    BY Performs DEF NotifyStore
  <1>3. emu' \in EmuType /\ emu'.at \in {"top", "after"}
    <2>1. CASE emu.then = "top"
      <3>1. emu' = Outside
        BY <2>1 DEF NotifyStore
      <3> QED
        BY <3>1, OutsideType
    <2>2. CASE emu.then # "top"
      <3>1. emu' = [emu EXCEPT !.todo = <<>>, !.at = emu.then, !.then = "top", !.i = 0]
        BY <2>2 DEF NotifyStore
      <3>2. <<>> \in Todo /\ 0 \in 0..Batch /\ emu.then = "after"
        BY <2>2, NothingToDo, FirmwareAssumption DEF Types, EmuType
      <3> QED
        BY <3>1, <3>2 DEF Types, EmuType
    <2> QED
      BY <2>1, <2>2
  <1>4. CASE ~shared.client \/ Gone
    <2>1. toClient' = toClient /\ client' = client /\ hist' = hist
      BY <1>2, <1>4 DEF Sends
    <2>2. ~InStep
      BY <1>4, SessionHolds DEF InStep, Session
    <2>3. ~InStep'
      BY <2>1, <2>2 DEF InStep
    <2>4. Types'
      BY <1>1, <1>2, <1>3, <2>1 DEF Types
    <2>5. Connections(d, n)'
      BY <1>1, <1>2, <2>1 DEF J, Connections
    <2>6. Untold(d, n)'
      BY <1>1, <1>2, <1>3, <2>1 DEF J, Untold, Paused
    <2> QED
      BY <2>3, <2>4, <2>5, <2>6 DEF J, Talk, Resting, Begins, NothingDone, Continues, Steps
  <1>5. CASE ~(~shared.client \/ Gone)
    <2>1. /\ toClient' = Append(toClient, "S05")
          /\ client' = [client EXCEPT !.odd = client.odd \/ Unasked]
          /\ hist' = IF hist.mode # "none" THEN Asked("S05", 0) ELSE hist
      BY <1>2, <1>5 DEF Sends, Stops
    <2>2. hist.mode # "none"
      BY <1>1 DEF J, Untold
    <2>3. hist' \in HistType /\ hist'.mode = "S05"
      BY <2>1, <2>2, FirmwareAssumption DEF Asked, HistType
    <2>4. toClient' \in Seq(Reply) /\ Len(toClient') = Len(toClient) + 1
      BY <2>1 DEF Types, Reply
    <2>5. client' \in ClientType /\ client'.view = client.view
      BY <2>1 DEF Types, ClientType, Unasked
    <2>6. client'.odd \/ (~client.odd /\ client.view = "waiting" /\ toStub = <<>> /\ toClient = <<>>)
      BY <2>1 DEF Types, ClientType, Unasked
    <2>7. Types'
      BY <1>1, <1>2, <1>3, <2>3, <2>4, <2>5 DEF Types
    <2>8. Connections(d, n)'
      BY <1>1, <1>2, <2>3, <2>5 DEF J, Connections
    <2>9. Untold(d, n)'
      BY <1>1, <1>2, <1>3, <2>3, <2>5, <2>6 DEF J, Untold, Paused
    <2>10. CASE ~InStep'
      BY <2>7, <2>8, <2>9, <2>10 DEF J, Talk, Resting, Begins, NothingDone, Continues, Steps
    <2>11. CASE InStep'
      <3>1. /\ InStep /\ client.view = "waiting" /\ toStub = <<>> /\ toClient = <<>>
            /\ client'.view = "waiting" /\ Len(toStub) = 0
        BY <2>5, <2>6, <2>11 DEF InStep
      <3>2. ~Starting(d, n)
        BY <1>1, <3>1 DEF J, Begins
      <3>3. ~(n > 1 /\ d \in Told)
        BY <3>1, <3>2 DEF J, Talk, Starting
      <3>4. n = 0 \/ d \in {"c", "s", "INT"}
        BY <3>1 DEF J, Talk, OneOf
      <3>5. Len(toClient') = 1
        BY <2>4, <3>1
      <3>6. Talk(d, n)'
        BY <1>1, <2>3, <3>1, <3>3, <3>4, <3>5 DEF Talk, Told, OnlyInterrupts
      <3>7. ~shared.running
        BY <1>1, <3>1 DEF J, Resting
      <3>8. Resting(d, n)'
        BY <1>2, <1>3, <2>3, <3>7 DEF Resting
      <3> QED
        BY <2>3, <2>7, <2>8, <2>9, <3>6, <3>8 DEF J, Begins, NothingDone, Continues, Steps, Starting, Told
    <2> QED
      BY <2>10, <2>11
  <1> QED
    BY <1>4, <1>5

\* Every store of core 1's report keeps J.
LEMMA NotifyStoreKeeps ==
    ASSUME Types, NEW d \in Doing, NEW n \in Nat, J(d, n), NotifyStore
    PROVE  Types' /\ J(d, n)'
  <1>1. emu.at = "notify"
    BY DEF NotifyStore
  <1> QED
    BY <1>1, NextNotice, NoticeRunning, NoticeSingle, NoticeSent
-----------------------------------------------------------------------------
(***************************************************************************)
(* The debugger's steps, and the steps in which core 0 takes up work.      *)
(***************************************************************************)
\* Sequences of commands and of replies.
LEMMA AppendFacts ==
    ASSUME NEW S, NEW s \in Seq(S), NEW e \in S
    PROVE  /\ Len(s) \in Nat
           /\ Append(s, e) \in Seq(S) /\ Len(Append(s, e)) = Len(s) + 1
           /\ \A i \in 1..Len(s) : Append(s, e)[i] = s[i]
           /\ Append(s, e)[Len(s) + 1] = e
  OBVIOUS

LEMMA TailFacts ==
    ASSUME NEW S, NEW s \in Seq(S), s # <<>>
    PROVE  /\ Len(s) \in Nat \ {0}
           /\ Head(s) = s[1] /\ Head(s) \in S
           /\ Tail(s) \in Seq(S) /\ Len(Tail(s)) = Len(s) - 1
           /\ \A i \in 1..(Len(s) - 1) : Tail(s)[i] = s[i + 1]
  OBVIOUS

\* The steps of the debugger leave the two cores alone.
Alone == shared' = shared /\ emu' = emu /\ hist' = hist

\* While it stays in step, so does what its replies depend on.
LEMMA StayingInStep ==
    ASSUME NEW d \in Doing, NEW n \in Nat, J(d, n), Alone, InStep' => InStep
    PROVE  (Resting(d, n) /\ Begins(d, n) /\ NothingDone(d, n) /\ Continues(d, n) /\ Steps(d, n))'
  BY DEF J, Alone, Resting, Begins, NothingDone, Continues, Steps, Starting

\* The debugger's steps.
LEMMA ConnectKeeps ==
    ASSUME Types, NEW d \in Doing, NEW n \in Nat, J(d, n), Connect
    PROVE  Types' /\ J(d, n)'
  <1>1. /\ client.view = "absent" /\ client' = [view |-> "connecting", odd |-> FALSE]
        /\ Alone /\ toStub' = toStub /\ toClient' = toClient
    BY DEF Connect, Alone
  <1>2. client' \in ClientType /\ client'.view = "connecting"
    BY <1>1 DEF ClientType
  <1>3. ~InStep'
    BY <1>2 DEF InStep
  <1>4. Types'
    BY <1>1, <1>2 DEF Types, Alone
  <1>5. Connections(d, n)'
    BY <1>1, <1>2 DEF J, Connections, Session, Alone
  <1>6. Untold(d, n)'
    BY <1>1 DEF J, Untold, Paused, Alone
  <1> QED
    BY <1>1, <1>3, <1>4, <1>5, <1>6, StayingInStep DEF J, Talk

LEMMA AskKeeps ==
    ASSUME Types, NEW d \in Doing, NEW n \in Nat, J(d, n), AskAny
    PROVE  Types' /\ J(d, n)'
  <1>1. PICK cmd \in Command : Ask(cmd) /\ cmd.op \in Told \cup {"Z", "z"}
    <2>1. CASE \E op \in {"c", "s"} : Ask([op |-> op])
      <3>1. PICK op \in {"c", "s"} : Ask([op |-> op])
        BY <2>1
      <3>2. [op |-> op] \in Command /\ [op |-> op].op \in Told
        BY DEF Command, Told
      <3> QED
        BY <3>1, <3>2
    <2>2. CASE \E op \in {"Z", "z"}, a \in Addr : Ask([op |-> op, addr |-> a])
      <3>1. PICK op \in {"Z", "z"}, a \in Addr : Ask([op |-> op, addr |-> a])
        BY <2>2
      <3>2. [op |-> op, addr |-> a] \in Command /\ [op |-> op, addr |-> a].op \in {"Z", "z"}
        BY DEF Command
      <3> QED
        BY <3>1, <3>2
    <2> QED
      BY <2>1, <2>2 DEF AskAny
  <1>2. /\ client.view = "stopped" /\ ~client.odd
        /\ client' = [client EXCEPT !.view = IF cmd.op \in Told THEN "waiting" ELSE "asking"]
        /\ toStub' = Append(toStub, cmd)
        /\ Alone /\ toClient' = toClient
    BY <1>1 DEF Ask, Alone, Told
  <1>3. /\ Len(toStub) \in Nat
        /\ toStub' \in Seq(Command) /\ Len(toStub') = Len(toStub) + 1
        /\ \A i \in 1..Len(toStub) : toStub'[i] = toStub[i]
        /\ toStub'[Len(toStub) + 1] = cmd
    BY <1>2, AppendFacts DEF Types
  <1>4. /\ client' \in ClientType /\ client'.view = (IF cmd.op \in Told THEN "waiting" ELSE "asking")
        /\ ~client'.odd
    BY <1>2 DEF Types, ClientType
  <1>5. InStep /\ InStep'
    BY <1>2, <1>4 DEF InStep
  <1>6. Types'
    BY <1>2, <1>3, <1>4 DEF Types, Alone
  <1>7. \A i \in 1..Len(toStub') : i \in 1..Len(toStub) \/ i = Len(toStub) + 1
    BY <1>3
  <1>8. cmd.op \notin End
    BY <1>1 DEF End, Told
  <1>9. \A i \in 1..Len(toStub') : toStub'[i].op \notin End
    BY <1>2, <1>3, <1>7, <1>8 DEF J, Connections, Session
  <1>10. shared.client /\ hist.mode # "free" /\ (n > 0 => d \notin {"accept", "D", "EOF"})
    BY <1>2 DEF J, Connections, Session
  <1>11. Connections(d, n)'
    BY <1>2, <1>9, <1>10 DEF Connections, Alone
  <1>12. Untold(d, n)'
    BY <1>2, <1>10 DEF J, Untold, Paused, Alone
  <1>13. /\ toClient = <<>> /\ OnlyInterrupts /\ Settled(d, n) /\ hist.mode \notin Told
         /\ (n > 1 /\ d \in Told => hist.mode = d)
    BY <1>2, <1>5 DEF J, Talk
  <1>14. /\ cmd.op \in Told => OneOf(Told)'
         /\ cmd.op \in {"Z", "z"} => OneOf({"Z", "z"})'
    <2>1. Len(toStub) + 1 \in 1..Len(toStub')
      BY <1>3
    <2>2. \A i \in 1..Len(toStub') : i # Len(toStub) + 1 => toStub'[i].op = "INT"
      BY <1>3, <1>7, <1>13 DEF OnlyInterrupts
    <2> QED
      BY <1>3, <2>1, <2>2 DEF OneOf
  <1>15. Len(toClient) = 0
    BY <1>13
  <1>16. client'.view \in {"waiting", "asking"} /\ (client'.view = "waiting" => cmd.op \in Told)
         /\ (client'.view = "asking" => cmd.op \in {"Z", "z"})
    BY <1>1, <1>4
  <1>17. Talk(d, n)'
    BY <1>2, <1>13, <1>14, <1>15, <1>16 DEF Talk, Settled, Alone
  <1> QED
    BY <1>2, <1>5, <1>6, <1>11, <1>12, <1>17, StayingInStep DEF J

LEMMA InterruptKeeps ==
    ASSUME Types, NEW d \in Doing, NEW n \in Nat, J(d, n), Interrupt
    PROVE  Types' /\ J(d, n)'
  <1> DEFINE cmd == [op |-> "INT"]
  <1>1. /\ client.view = "waiting" /\ ~client.odd
        /\ toStub' = Append(toStub, cmd)
        /\ Alone /\ toClient' = toClient /\ client' = client
    BY DEF Interrupt, Alone
  <1>2. cmd \in Command /\ cmd.op = "INT"
    BY DEF Command
  <1> HIDE DEF cmd
  <1>3. /\ Len(toStub) \in Nat
        /\ toStub' \in Seq(Command) /\ Len(toStub') = Len(toStub) + 1
        /\ \A i \in 1..Len(toStub) : toStub'[i] = toStub[i]
        /\ toStub'[Len(toStub) + 1] = cmd
    BY <1>1, <1>2, AppendFacts DEF Types
  <1>4. InStep /\ InStep'
    BY <1>1 DEF InStep
  <1>5. Types'
    BY <1>1, <1>3 DEF Types, Alone
  <1>6. /\ \A i \in 1..Len(toStub') : i \in 1..Len(toStub) \/ i = Len(toStub) + 1
        /\ \A i \in 1..Len(toStub) : i \in 1..Len(toStub')
    BY <1>3
  <1>7. \A i \in 1..Len(toStub') : toStub'[i].op \notin End
    BY <1>1, <1>2, <1>3, <1>6 DEF J, Connections, Session, End
  <1>8. shared.client /\ hist.mode # "free" /\ (n > 0 => d \notin {"accept", "D", "EOF"})
    BY <1>1 DEF J, Connections, Session
  <1>9. Connections(d, n)'
    BY <1>1, <1>7, <1>8 DEF Connections, Alone
  <1>10. Untold(d, n)'
    BY <1>1, <1>8 DEF J, Untold, Paused, Alone
  <1>11. OnlyInterrupts => OnlyInterrupts'
    BY <1>2, <1>3, <1>6 DEF OnlyInterrupts
  <1>12. ASSUME NEW ops, OneOf(ops) PROVE OneOf(ops)'
    <2>1. PICK j \in 1..Len(toStub) :
              toStub[j].op \in ops /\ \A i \in 1..Len(toStub) : i # j => toStub[i].op = "INT"
      BY <1>12 DEF OneOf
    <2>2. j \in 1..Len(toStub') /\ toStub'[j].op \in ops
      BY <1>3, <1>6, <2>1
    <2>3. \A i \in 1..Len(toStub') : i # j => toStub'[i].op = "INT"
      BY <1>2, <1>3, <1>6, <2>1
    <2> QED
      BY <2>2, <2>3 DEF OneOf
  <1>13. Talk(d, n)'
    BY <1>1, <1>4, <1>11, <1>12 DEF J, Talk, Settled, Alone
  <1> QED
    BY <1>1, <1>4, <1>5, <1>9, <1>10, <1>13, StayingInStep DEF J

LEMMA LeaveKeeps ==
    ASSUME Types, NEW d \in Doing, NEW n \in Nat, J(d, n), Leave
    PROVE  Types' /\ J(d, n)'
  <1>1. /\ client.view \in Session
        /\ client' = [client EXCEPT !.view = "absent"]
        /\ toClient' = <<>> /\ Alone
        /\ \E op \in End : toStub' = Append(toStub, [op |-> op])
    BY DEF Leave, Alone, Session, End
  <1>2. PICK cmd \in Command : cmd.op \in End /\ toStub' = Append(toStub, cmd)
    BY <1>1 DEF End, Command
  <1>3. /\ Len(toStub) \in Nat
        /\ toStub' \in Seq(Command) /\ Len(toStub') = Len(toStub) + 1
        /\ \A i \in 1..Len(toStub) : toStub'[i] = toStub[i]
    BY <1>2, AppendFacts DEF Types
  <1>4. client' \in ClientType /\ client'.view = "absent"
    BY <1>1 DEF Types, ClientType
  <1>5. ~InStep' /\ client'.view \notin Session
    BY <1>4 DEF InStep, Session
  <1>6. Types'
    BY <1>1, <1>3, <1>4 DEF Types, Alone, Reply
  <1>7. \A i \in 1..Len(toStub') : i \in 1..Len(toStub) \/ i = Len(toStub')
    BY <1>3
  <1>8. \A i \in 1..Len(toStub') : toStub'[i].op \in End => i = Len(toStub')
    BY <1>1, <1>3, <1>7 DEF J, Connections
  <1>9. shared.client /\ (n > 0 => d \notin {"accept", "D", "EOF"})
    BY <1>1 DEF J, Connections
  <1>10. Connections(d, n)'
    BY <1>1, <1>5, <1>8, <1>9 DEF Connections, Alone
  <1>11. Untold(d, n)'
    BY <1>1, <1>9 DEF J, Untold, Paused, Alone
  <1> QED
    BY <1>1, <1>5, <1>6, <1>10, <1>11, StayingInStep DEF J, Talk

LEMMA TakeReplyKeeps ==
    ASSUME Types, NEW d \in Doing, NEW n \in Nat, J(d, n), TakeReply
    PROVE  Types' /\ J(d, n)'
  <1>1. /\ toClient # <<>> /\ client.view \in {"asking", "waiting"}
        /\ client' = [client EXCEPT !.view = "stopped"]
        /\ toClient' = Tail(toClient) /\ Alone /\ toStub' = toStub
    BY DEF TakeReply, Alone
  <1>2. /\ Len(toClient) \in Nat \ {0}
        /\ toClient' \in Seq(Reply) /\ Len(toClient') = Len(toClient) - 1
    BY <1>1, TailFacts DEF Types
  <1>3. client' \in ClientType /\ client'.view = "stopped" /\ client'.odd = client.odd
    BY <1>1 DEF Types, ClientType
  <1>4. InStep' => InStep
    BY <1>1, <1>3 DEF InStep
  <1>5. Types'
    BY <1>1, <1>2, <1>3 DEF Types, Alone
  <1>6. client.view \in Session /\ client'.view \in Session
    BY <1>1, <1>3 DEF Session
  <1>7. Connections(d, n)'
    BY <1>1, <1>6 DEF J, Connections, Alone
  <1>8. Untold(d, n)'
    BY <1>1 DEF J, Untold, Paused, Alone
  <1>9. Talk(d, n)'
    <2> SUFFICES ASSUME InStep' PROVE Talk(d, n)'
      BY DEF Talk
    <2>1. InStep
      BY <1>4
    <2>2. hist.mode \notin Told
      BY <1>1, <2>1 DEF J, Talk
    <2>3. OnlyInterrupts /\ Settled(d, n) /\ Len(toClient) <= 1
          /\ (n > 1 /\ d \in Told => hist.mode = d)
      BY <1>1, <1>2, <2>1, <2>2 DEF J, Talk, Settled, Told
    <2>4. Len(toClient') = 0 /\ toClient' = <<>>
      BY <1>2, <2>3
    <2> QED
      BY <1>1, <1>3, <2>2, <2>3, <2>4 DEF Talk, OnlyInterrupts, Settled, Alone
  <1> QED
    BY <1>1, <1>4, <1>5, <1>7, <1>8, <1>9, StayingInStep DEF J

\* Core 0 accepts, and has the whole of Accepting to do.
LEMMA AcceptKeeps ==
    ASSUME Types, NEW d \in Doing, NEW n \in Nat, J(d, n), Accept
    PROVE  Types' /\ J("accept", 12)' /\ poll' = Left(Program("accept", 0), 12)
  <1>1. /\ ~shared.client /\ client.view = "connecting"
        /\ poll' = Accepting /\ toClient' = <<>>
        /\ shared' = shared /\ emu' = emu /\ toStub' = toStub /\ client' = client /\ hist' = hist
    BY DEF Accept
  <1>2. poll' = Left(Program("accept", 0), 12)
    BY <1>1, AcceptingStores, InterruptStores
  <1>3. Types'
    BY <1>1 DEF Types
  <1>4. ~InStep'
    BY <1>1 DEF InStep
  <1>5. toStub = <<>>
    BY <1>1 DEF J, Connections
  <1>6. hist.mode # "none"
    BY <1>1 DEF J, Untold, Paused
  <1>7. Connections("accept", 12)'
    BY <1>1, <1>5 DEF J, Connections, Session
  <1>8. Untold("accept", 12)'
    BY <1>1, <1>6 DEF Untold
  <1> QED
    BY <1>2, <1>3, <1>4, <1>7, <1>8 DEF J, Talk, Resting, Begins, NothingDone, Continues, Steps

\* What handling the first command on the socket changes, and how the rest of the
\* socket relates to it.
Handled(cmd) ==
    /\ shared.client /\ shared' = shared /\ emu' = emu /\ toClient' = toClient
    /\ client' \in ClientType /\ client'.view = client.view
    /\ client'.odd <=> client.odd \/ (cmd.op \in Told /\ InBatch)
    /\ hist' = CASE cmd.op \in Told -> Asked(cmd.op, shared.pc)
                 [] cmd.op = "INT" -> Asked("INT", 0)
                 [] cmd.op \in End -> Asked("free", 0)
                 [] OTHER -> hist
    /\ Len(toStub) \in Nat \ {0} /\ toStub[1] = cmd
    /\ toStub' \in Seq(Command) /\ Len(toStub') = Len(toStub) - 1
    /\ \A i \in 1..Len(toStub') : toStub'[i] = toStub[i + 1] /\ i + 1 \in 1..Len(toStub)

\* The packet core 0 handles is the first on the socket.
LEMMA HandlePacketFacts ==
    ASSUME Types, NEW d \in Doing, NEW a, NEW n \in 0..Len(Program(d, a)),
           poll = Left(Program(d, a), n), HandlePacket
    PROVE  n = 0 /\ \E cmd \in Command : Handled(cmd) /\ poll' = Handling(cmd)
  <1>1. poll = <<>> /\ shared.client /\ toStub # <<>>
    BY DEF HandlePacket
  <1>2. n = 0
    <2>1. n = 0 <=> poll = <<>>
      BY NextStore
    <2> QED
      BY <1>1, <2>1
  <1> DEFINE cmd == Head(toStub)
  <1>3. /\ Len(toStub) \in Nat \ {0} /\ cmd = toStub[1] /\ cmd \in Command
        /\ Tail(toStub) \in Seq(Command) /\ Len(Tail(toStub)) = Len(toStub) - 1
        /\ \A i \in 1..(Len(toStub) - 1) : Tail(toStub)[i] = toStub[i + 1]
    BY <1>1, TailFacts DEF Types
  <1>4. /\ poll' = Handling(cmd) /\ toStub' = Tail(toStub)
        /\ shared' = shared /\ emu' = emu /\ toClient' = toClient
        /\ client' = [client EXCEPT !.odd = client.odd \/ (cmd.op \in {"c", "s"} /\ InBatch)]
    BY DEF HandlePacket
  <1>5. hist' = CASE cmd.op \in Told -> Asked(cmd.op, shared.pc)
                  [] cmd.op = "INT" -> Asked("INT", 0)
                  [] cmd.op \in End -> Asked("free", 0)
                  [] OTHER -> hist
    BY DEF HandlePacket, Told, End
  <1> HIDE DEF cmd
  <1>6. PICK b : b = (client.odd \/ (cmd.op \in {"c", "s"} /\ InBatch))
    OBVIOUS
  <1>7. b \in BOOLEAN /\ client' = [client EXCEPT !.odd = b]
    BY <1>4, <1>6
  <1>8. client' \in ClientType /\ client'.view = client.view /\ client'.odd = b
    BY <1>7 DEF Types, ClientType
  <1>9. client'.odd <=> client.odd \/ (cmd.op \in Told /\ InBatch)
    BY <1>6, <1>8 DEF Told
  <1>10. \A i \in 1..Len(toStub') : toStub'[i] = toStub[i + 1] /\ i + 1 \in 1..Len(toStub)
    BY <1>3, <1>4
  <1>11. Handled(cmd)
    BY <1>1, <1>3, <1>4, <1>5, <1>8, <1>9, <1>10 DEF Handled
  <1> QED
    BY <1>2, <1>3, <1>4, <1>11

\* The commands behind the first one.
LEMMA RestOfSocket ==
    ASSUME Types, NEW cmd \in Command, Handled(cmd), Connections("c", 0)
    PROVE  /\ \A i \in 1..Len(toStub') :
                  toStub'[i].op \in End => i = Len(toStub') /\ client.view \notin Session
           /\ cmd.op \in End => toStub' = <<>> /\ client.view \notin Session
           /\ OnlyInterrupts => cmd.op = "INT" /\ OnlyInterrupts'
           /\ \A ops : OneOf(ops) => \/ cmd.op \in ops /\ OnlyInterrupts'
                                     \/ cmd.op = "INT" /\ OneOf(ops)'
  <1>1. /\ Len(toStub) \in Nat \ {0} /\ toStub[1] = cmd /\ 1 \in 1..Len(toStub)
        /\ toStub' \in Seq(Command) /\ Len(toStub') = Len(toStub) - 1
        /\ \A i \in 1..Len(toStub') : toStub'[i] = toStub[i + 1] /\ i + 1 \in 1..Len(toStub)
    BY DEF Handled
  <1>2. \A i \in 1..Len(toStub) : toStub[i].op \in End => i = Len(toStub) /\ client.view \notin Session
    BY DEF Connections
  <1>3. \A i \in 1..Len(toStub') :
            toStub'[i].op \in End => i = Len(toStub') /\ client.view \notin Session
    <2> SUFFICES ASSUME NEW i \in 1..Len(toStub'), toStub'[i].op \in End
                 PROVE  i = Len(toStub') /\ client.view \notin Session
      OBVIOUS
    <2>1. toStub[i + 1].op \in End /\ i + 1 \in 1..Len(toStub)
      BY <1>1
    <2>2. i + 1 = Len(toStub) /\ client.view \notin Session
      BY <1>2, <2>1
    <2> QED
      BY <1>1, <2>2
  <1>4. cmd.op \in End => toStub' = <<>> /\ client.view \notin Session
    <2> SUFFICES ASSUME cmd.op \in End PROVE toStub' = <<>> /\ client.view \notin Session
      OBVIOUS
    <2>1. 1 = Len(toStub) /\ client.view \notin Session
      BY <1>1, <1>2
    <2>2. Len(toStub') = Len(toStub) - 1 /\ toStub' \in Seq(Command)
      BY <1>1
    <2>3. Len(toStub') = 0
      BY <2>1, <2>2
    <2> QED
      BY <2>1, <2>2, <2>3
  <1>5. OnlyInterrupts => cmd.op = "INT" /\ OnlyInterrupts'
    BY <1>1 DEF OnlyInterrupts
  <1>6. ASSUME NEW ops, OneOf(ops)
        PROVE  (cmd.op \in ops /\ OnlyInterrupts') \/ (cmd.op = "INT" /\ OneOf(ops)')
    <2>1. PICK j \in 1..Len(toStub) :
              toStub[j].op \in ops /\ \A i \in 1..Len(toStub) : i # j => toStub[i].op = "INT"
      BY <1>6 DEF OneOf
    <2>2. CASE j = 1
      <3>1. \A i \in 1..Len(toStub') : i + 1 # j
        BY <2>2
      <3>2. OnlyInterrupts'
        BY <1>1, <2>1, <3>1 DEF OnlyInterrupts
      <3>3. cmd.op \in ops
        BY <1>1, <2>1, <2>2
      <3> QED
        BY <3>2, <3>3
    <2>3. CASE j # 1
      <3>1. cmd.op = "INT"
        BY <1>1, <2>1, <2>3
      <3>2. j - 1 \in 1..Len(toStub') /\ j - 1 + 1 = j
        BY <1>1, <2>1, <2>3
      <3>3. toStub'[j - 1].op \in ops
        BY <1>1, <2>1, <3>2
      <3>4. \A i \in 1..Len(toStub') : i # j - 1 => i + 1 # j
        BY <3>2
      <3>5. \A i \in 1..Len(toStub') : i # j - 1 => toStub'[i].op = "INT"
        BY <1>1, <2>1, <3>4
      <3> QED
        BY <3>1, <3>2, <3>3, <3>5 DEF OneOf
    <2> QED
      BY <2>2, <2>3
  <1> QED
    BY <1>3, <1>4, <1>5, <1>6

\* How many stores a command has, see CommandStores.
LEMMA ResumeHandled ==
    ASSUME Types, NEW d \in Doing, J(d, 0), NEW cmd \in Command, Handled(cmd), cmd.op \in Told,
           NEW n, n = (IF cmd.op = "c" THEN 4 ELSE 3)
    PROVE  Types' /\ J(cmd.op, n)'
  <1>1. /\ shared.client /\ shared' = shared /\ emu' = emu /\ toClient' = toClient
        /\ client' \in ClientType /\ client'.view = client.view
        /\ client'.odd <=> client.odd \/ InBatch
        /\ hist' = Asked(cmd.op, shared.pc) /\ toStub' \in Seq(Command)
    BY DEF Handled, Told, End
  <1>2. Connections("c", 0)
    BY DEF J, Connections
  <1>3. n \in {3, 4} /\ n > 2 /\ n > 0 /\ ~(n <= 2)
    OBVIOUS
  <1>4. /\ hist' \in HistType /\ hist'.mode = cmd.op
        /\ hist'.executed = 0 /\ hist'.trail = {} /\ hist'.from = shared.pc
    BY <1>1 DEF Asked, HistType, Types, SharedType, Told
  <1>5. Types'
    BY <1>1, <1>4 DEF Types
  <1>6. cmd.op \in {"c", "s"} /\ cmd.op \notin {"accept", "D", "EOF", "none", "free", "S05", "INT", "Z", "z"}
    BY DEF Told
  <1>7. Connections(cmd.op, n)'
    BY <1>1, <1>2, <1>4, <1>6, RestOfSocket DEF Connections
  <1>8. Untold(cmd.op, n)'
    BY <1>4, <1>6 DEF Untold
  <1>9. CASE ~InStep'
    BY <1>5, <1>7, <1>8, <1>9 DEF J, Talk, Resting, Begins, NothingDone, Continues, Steps
  <1>10. CASE InStep'
    <2>1. InStep /\ ~InBatch
      BY <1>1, <1>10 DEF InStep
    <2>2. ~OnlyInterrupts /\ ~OneOf({"Z", "z"}) /\ (OneOf(Told) => OnlyInterrupts')
      BY <1>2, <1>6, RestOfSocket
    <2>3. /\ client.view = "waiting" /\ toClient = <<>> /\ OneOf(Told) /\ hist.mode \notin Told
      BY <2>1, <2>2 DEF J, Talk, InStep
    <2>4. Talk(cmd.op, n)'
      <3>1. Len(toClient) = 0
        BY <2>3
      <3> QED
        BY <1>1, <1>4, <1>6, <2>2, <2>3, <3>1 DEF Talk
    <2>5. ~shared.running /\ emu.at # "free"
      BY <2>1, <2>3 DEF J, Resting
    <2>6. Resting(cmd.op, n)'
      BY <1>1, <1>4, <1>6, <2>5 DEF Resting, Told
    <2>7. /\ emu.at \in {"top", "after", "vector", "wake"}
          /\ emu.at = "after" => shared.state \notin Stopped
      BY <2>1, <2>5 DEF InBatch, Types, EmuType, Stopped
    <2>8. Starting(cmd.op, n)'
      BY <1>3, <1>4, <1>6 DEF Starting, Told
    <2>9. Begins(cmd.op, n)'
      BY <1>1, <1>3, <1>4, <2>5, <2>7 DEF Begins
    <2>10. NothingDone(cmd.op, n)'
      BY <1>1, <2>7 DEF NothingDone
    <2> QED
      BY <1>5, <1>7, <1>8, <2>4, <2>6, <2>8, <2>9, <2>10 DEF J, Continues, Steps
  <1> QED
    BY <1>9, <1>10

LEMMA InterruptHandled ==
    ASSUME Types, NEW d \in Doing, J(d, 0), NEW cmd \in Command, Handled(cmd), cmd.op = "INT"
    PROVE  Types' /\ J("INT", 3)'
  <1>1. /\ shared.client /\ shared' = shared /\ emu' = emu /\ toClient' = toClient
        /\ client' \in ClientType /\ client'.view = client.view
        /\ client'.odd <=> client.odd
        /\ hist' = Asked("INT", 0) /\ toStub' \in Seq(Command)
    BY DEF Handled, Told, End
  <1>2. Connections("c", 0)
    BY DEF J, Connections
  <1>3. hist' \in HistType /\ hist'.mode = "INT"
    BY <1>1, FirmwareAssumption DEF Asked, HistType
  <1>4. Types'
    BY <1>1, <1>3 DEF Types
  <1>5. Connections("INT", 3)'
    BY <1>1, <1>2, <1>3, RestOfSocket DEF Connections
  <1>6. Untold("INT", 3)'
    BY <1>3 DEF Untold
  <1>7. InStep' => InStep
    BY <1>1 DEF InStep
  <1>8. /\ OnlyInterrupts => OnlyInterrupts'
        /\ OneOf({"Z", "z"}) => OneOf({"Z", "z"})'
        /\ OneOf(Told) => OneOf(Told)'
    BY <1>2, RestOfSocket DEF Told
  <1>9. Talk("INT", 3)'
    BY <1>1, <1>3, <1>7, <1>8 DEF J, Talk, Settled, Told
  <1>10. Resting("INT", 3)'
    BY <1>1, <1>3, <1>7 DEF J, Resting
  <1>11. hist'.mode \notin Told
    BY <1>3 DEF Told
  <1> QED
    BY <1>3, <1>4, <1>5, <1>6, <1>9, <1>10, <1>11 DEF J, Begins, NothingDone, Continues, Steps, Starting

LEMMA PlantHandled ==
    ASSUME Types, NEW d \in Doing, J(d, 0), NEW cmd \in Command, Handled(cmd), cmd.op \in {"Z", "z"}
    PROVE  Types' /\ J(cmd.op, 2)'
  <1>1. /\ shared.client /\ shared' = shared /\ emu' = emu /\ toClient' = toClient
        /\ client' \in ClientType /\ client'.view = client.view
        /\ client'.odd <=> client.odd
        /\ hist' = hist /\ toStub' \in Seq(Command)
    BY DEF Handled, Told, End
  <1>2. Connections("c", 0)
    BY DEF J, Connections
  <1>3. Types'
    BY <1>1 DEF Types
  <1>4. Connections(cmd.op, 2)'
    BY <1>1, <1>2, RestOfSocket DEF J, Connections
  <1>5. Untold(cmd.op, 2)'
    BY <1>1 DEF J, Untold, Paused
  <1>6. CASE ~InStep'
    BY <1>3, <1>4, <1>5, <1>6 DEF J, Talk, Resting, Begins, NothingDone, Continues, Steps
  <1>7. CASE InStep'
    <2>1. InStep
      BY <1>1, <1>7 DEF InStep
    <2>2. cmd.op \notin Told /\ cmd.op # "INT"
      BY DEF Told
    <2>3. ~OnlyInterrupts /\ ~OneOf(Told) /\ (OneOf({"Z", "z"}) => OnlyInterrupts')
      BY <1>2, <2>2, RestOfSocket
    <2>4. client.view = "asking" /\ toClient = <<>> /\ OnlyInterrupts' /\ hist.mode \notin Told
      BY <2>1, <2>3 DEF J, Talk, InStep
    <2>5. Talk(cmd.op, 2)'
      <3>1. Len(toClient) = 0
        BY <2>4
      <3> QED
        BY <1>1, <2>2, <2>4, <3>1 DEF Talk
    <2>6. Resting(cmd.op, 2)'
      BY <1>1, <2>1, <2>4 DEF J, Resting
    <2> QED
      BY <1>1, <1>3, <1>4, <1>5, <2>4, <2>5, <2>6 DEF J, Begins, NothingDone, Continues, Steps, Starting, Told
  <1> QED
    BY <1>6, <1>7

LEMMA EndHandled ==
    ASSUME Types, NEW d \in Doing, J(d, 0), NEW cmd \in Command, Handled(cmd), cmd.op \in End, NEW n
    PROVE  Types' /\ J(cmd.op, n)'
  <1>1. /\ shared.client /\ shared' = shared /\ emu' = emu /\ toClient' = toClient
        /\ client' \in ClientType /\ client'.view = client.view
        /\ hist' = Asked("free", 0) /\ toStub' \in Seq(Command)
    BY DEF Handled, Told, End
  <1>2. Connections("c", 0)
    BY DEF J, Connections
  <1>3. hist' \in HistType /\ hist'.mode = "free"
    BY <1>1, FirmwareAssumption DEF Asked, HistType
  <1>4. Types'
    BY <1>1, <1>3 DEF Types
  <1>5. toStub' = <<>> /\ client'.view \notin Session
    BY <1>1, <1>2, RestOfSocket
  <1>6. ~InStep'
    BY <1>5 DEF InStep, Session
  <1>7. Connections(cmd.op, n)'
    BY <1>1, <1>5 DEF Connections
  <1>8. Untold(cmd.op, n)'
    BY <1>3 DEF Untold, End
  <1> QED
    BY <1>4, <1>6, <1>7, <1>8 DEF J, Talk, Resting, Begins, NothingDone, Continues, Steps
-----------------------------------------------------------------------------
(***************************************************************************)
(* Core 0, store by store.  Each lemma: from n stores of a handler left to *)
(* n - 1 of them.                                                          *)
(***************************************************************************)
\* A store of core 0 that says nothing to the debugger, nor about it.
Quiet == /\ emu' = emu /\ toStub' = toStub
         /\ toClient' = toClient /\ client' = client /\ hist' = hist

\* Which store PollStore performs.
LEMMA PollStoreFacts ==
    ASSUME NEW d \in Doing, NEW a, NEW n \in 0..Len(Program(d, a)),
           poll = Left(Program(d, a), n), PollStore
    PROVE  /\ n > 0 /\ n - 1 \in 0..Len(Program(d, a))
           /\ poll' = Left(Program(d, a), n - 1)
           /\ Perform(Program(d, a)[Len(Program(d, a)) - n + 1])
           /\ emu' = emu /\ toStub' = toStub
  <1>1. poll # <<>> /\ poll' = Tail(poll) /\ Perform(Head(poll)) /\ emu' = emu /\ toStub' = toStub
    BY DEF PollStore
  <1>2. /\ n \in Nat
        /\ n = 0 <=> poll = <<>>
        /\ n > 0 => /\ Head(poll) = Program(d, a)[Len(Program(d, a)) - n + 1]
                    /\ Tail(poll) = Left(Program(d, a), n - 1)
                    /\ n - 1 \in 0..Len(Program(d, a))
    BY NextStore
  <1>3. n > 0
    <2>1. n # 0 /\ n \in Nat
      BY <1>1, <1>2
    <2> QED
      BY <2>1
  <1>4. /\ Head(poll) = Program(d, a)[Len(Program(d, a)) - n + 1]
        /\ Tail(poll) = Left(Program(d, a), n - 1)
        /\ n - 1 \in 0..Len(Program(d, a))
    BY <1>2, <1>3
  <1>5. Perform(Program(d, a)[Len(Program(d, a)) - n + 1])
    BY <1>1, <1>4, Zenon
  <1> QED
    BY <1>1, <1>3, <1>4, <1>5

\* Stores that leave J alone whatever core 1 is doing, in a session out of step.
LEMMA OutOfStep ==
    ASSUME NEW d, NEW n, ~InStep', Types', Connections(d, n)', Untold(d, n)'
    PROVE  Types' /\ J(d, n)'
  BY DEF J, Talk, Resting, Begins, NothingDone, Continues, Steps

\* What a store of one field leaves alone.
LEMMA PutClient ==
    ASSUME Types, NEW b \in BOOLEAN, Perform(Put("client", b))
    PROVE  /\ shared' \in SharedType /\ shared'.client = b
           /\ shared'.running = shared.running
           /\ shared'.single = shared.single
           /\ shared'.resume = shared.resume
           /\ shared'.bps = shared.bps
           /\ shared'.state = shared.state
           /\ shared'.pc = shared.pc
           /\ toClient' = toClient /\ client' = client /\ hist' = hist
  <1>1. /\ shared' = [shared EXCEPT !.client = b]
        /\ toClient' = toClient /\ client' = client /\ hist' = hist
    BY Performs
  <1>2. shared \in SharedType
    BY DEF Types
  <1> QED
    BY <1>1, <1>2 DEF SharedType

LEMMA PutRunning ==
    ASSUME Types, NEW b \in BOOLEAN, Perform(Put("running", b))
    PROVE  /\ shared' \in SharedType /\ shared'.running = b
           /\ shared'.client = shared.client
           /\ shared'.single = shared.single
           /\ shared'.resume = shared.resume
           /\ shared'.bps = shared.bps
           /\ shared'.state = shared.state
           /\ shared'.pc = shared.pc
           /\ toClient' = toClient /\ client' = client /\ hist' = hist
  <1>1. /\ shared' = [shared EXCEPT !.running = b]
        /\ toClient' = toClient /\ client' = client /\ hist' = hist
    BY Performs
  <1>2. shared \in SharedType
    BY DEF Types
  <1> QED
    BY <1>1, <1>2 DEF SharedType

LEMMA PutSingle ==
    ASSUME Types, NEW b \in BOOLEAN, Perform(Put("single", b))
    PROVE  /\ shared' \in SharedType /\ shared'.single = b
           /\ shared'.client = shared.client
           /\ shared'.running = shared.running
           /\ shared'.resume = shared.resume
           /\ shared'.bps = shared.bps
           /\ shared'.state = shared.state
           /\ shared'.pc = shared.pc
           /\ toClient' = toClient /\ client' = client /\ hist' = hist
  <1>1. /\ shared' = [shared EXCEPT !.single = b]
        /\ toClient' = toClient /\ client' = client /\ hist' = hist
    BY Performs
  <1>2. shared \in SharedType
    BY DEF Types
  <1> QED
    BY <1>1, <1>2 DEF SharedType

\* The stores of an accept, as far as J is about them.
LEMMA AcceptPerforms ==
    ASSUME Types, NEW n \in 2..12, Perform(Program("accept", 0)[12 - n + 1])
    PROVE  /\ toClient' = toClient /\ client' = client /\ hist' = hist
           /\ shared' \in SharedType
           /\ IF n = 12 THEN ~shared'.running ELSE shared'.running = shared.running
           /\ IF n = 10 THEN shared'.client ELSE shared'.client = shared.client
           /\ n = 5 => emu.at = "top"
  <1> DEFINE p == Program("accept", 0)
  <1>1. /\ p[1] = Put("running", FALSE) /\ p[2] = Put("state", "HALTED")
        /\ p[3] = Put("client", TRUE) /\ p[4] = Put("single", FALSE)
        /\ p[5] = Put("resume", None) /\ p[6] = Put("bps", {})
        /\ p[7] = Put("state", "HALTED") /\ p[8] = Wait
        /\ p[9] = Put("pc", 0) /\ p[10] = Put("state", "RUNNING")
        /\ p[11] = Put("state", "RUNNING")
    BY AcceptingStores, InterruptStores
  <1> HIDE DEF p
  <1>2. Perform(p[13 - n])
    <2>1. 12 - n + 1 = 13 - n
      OBVIOUS
    <2> QED
      BY <2>1 DEF p
  <1>3. shared \in SharedType /\ 0 \in Addr
    BY FirmwareAssumption DEF Types
  <1>4. CASE n = 12
    <2>1. 13 - n = 1
      BY <1>4
    <2>2. Perform(p[1])
      BY <1>2, <2>1, Zenon
    <2>3. Perform(Put("running", FALSE))
      BY <1>1, <2>2, Zenon
    <2>4. FALSE \in BOOLEAN
      OBVIOUS
    <2>5. /\ shared' \in SharedType /\ shared'.running = FALSE
          /\ shared'.client = shared.client
          /\ toClient' = toClient /\ client' = client /\ hist' = hist
      BY <2>3, <2>4, PutRunning
    <2> QED
      BY <1>4, <2>5
  <1>5. CASE n = 11
    <2>1. 13 - n = 2
      BY <1>5
    <2>2. Perform(p[2])
      BY <1>2, <2>1, Zenon
    <2>3. Perform(Put("state", "HALTED"))
      BY <1>1, <2>2, Zenon
    <2>4. /\ shared' = [shared EXCEPT !.state = "HALTED"]
          /\ toClient' = toClient /\ client' = client /\ hist' = hist
      BY <2>3, Performs, Zenon
    <2> QED
      BY <1>3, <1>5, <2>4 DEF SharedType
  <1>6. CASE n = 10
    <2>1. 13 - n = 3
      BY <1>6
    <2>2. Perform(p[3])
      BY <1>2, <2>1, Zenon
    <2>3. Perform(Put("client", TRUE))
      BY <1>1, <2>2, Zenon
    <2>4. TRUE \in BOOLEAN
      OBVIOUS
    <2>5. /\ shared' \in SharedType /\ shared'.client = TRUE
          /\ shared'.running = shared.running
          /\ toClient' = toClient /\ client' = client /\ hist' = hist
      BY <2>3, <2>4, PutClient
    <2> QED
      BY <1>6, <2>5
  <1>7. CASE n = 9
    <2>1. 13 - n = 4
      BY <1>7
    <2>2. Perform(p[4])
      BY <1>2, <2>1, Zenon
    <2>3. Perform(Put("single", FALSE))
      BY <1>1, <2>2, Zenon
    <2>4. FALSE \in BOOLEAN
      OBVIOUS
    <2>5. /\ shared' \in SharedType /\ shared'.single = FALSE
          /\ shared'.client = shared.client
          /\ shared'.running = shared.running
          /\ toClient' = toClient /\ client' = client /\ hist' = hist
      BY <2>3, <2>4, PutSingle
    <2> QED
      BY <1>7, <2>5
  <1>8. CASE n = 8
    <2>1. 13 - n = 5
      BY <1>8
    <2>2. Perform(p[5])
      BY <1>2, <2>1, Zenon
    <2>3. Perform(Put("resume", None))
      BY <1>1, <2>2, Zenon
    <2>4. /\ shared' = [shared EXCEPT !.resume = None]
          /\ toClient' = toClient /\ client' = client /\ hist' = hist
      BY <2>3, Performs, Zenon
    <2> QED
      BY <1>3, <1>8, <2>4 DEF SharedType
  <1>9. CASE n = 7
    <2>1. 13 - n = 6
      BY <1>9
    <2>2. Perform(p[6])
      BY <1>2, <2>1, Zenon
    <2>3. Perform(Put("bps", {}))
      BY <1>1, <2>2, Zenon
    <2>4. /\ shared' = [shared EXCEPT !.bps = {}]
          /\ toClient' = toClient /\ client' = client /\ hist' = hist
      BY <2>3, Performs, Zenon
    <2> QED
      BY <1>3, <1>9, <2>4 DEF SharedType
  <1>10. CASE n = 6
    <2>1. 13 - n = 7
      BY <1>10
    <2>2. Perform(p[7])
      BY <1>2, <2>1, Zenon
    <2>3. Perform(Put("state", "HALTED"))
      BY <1>1, <2>2, Zenon
    <2>4. /\ shared' = [shared EXCEPT !.state = "HALTED"]
          /\ toClient' = toClient /\ client' = client /\ hist' = hist
      BY <2>3, Performs, Zenon
    <2> QED
      BY <1>3, <1>10, <2>4 DEF SharedType
  <1>11. CASE n = 5
    <2>1. 13 - n = 8
      BY <1>11
    <2>2. Perform(p[8])
      BY <1>2, <2>1, Zenon
    <2>3. Perform(Wait)
      BY <1>1, <2>2, Zenon
    <2> QED
      BY <1>3, <1>11, <2>3, Performs DEF Waited
  <1>12. CASE n = 4
    <2>1. 13 - n = 9
      BY <1>12
    <2>2. Perform(p[9])
      BY <1>2, <2>1, Zenon
    <2>3. Perform(Put("pc", 0))
      BY <1>1, <2>2, Zenon
    <2>4. /\ shared' = [shared EXCEPT !.pc = 0]
          /\ toClient' = toClient /\ client' = client /\ hist' = hist
      BY <2>3, Performs, Zenon
    <2> QED
      BY <1>3, <1>12, <2>4 DEF SharedType
  <1>13. CASE n = 3
    <2>1. 13 - n = 10
      BY <1>13
    <2>2. Perform(p[10])
      BY <1>2, <2>1, Zenon
    <2>3. Perform(Put("state", "RUNNING"))
      BY <1>1, <2>2, Zenon
    <2>4. /\ shared' = [shared EXCEPT !.state = "RUNNING"]
          /\ toClient' = toClient /\ client' = client /\ hist' = hist
      BY <2>3, Performs, Zenon
    <2> QED
      BY <1>3, <1>13, <2>4 DEF SharedType
  <1>14. CASE n = 2
    <2>1. 13 - n = 11
      BY <1>14
    <2>2. Perform(p[11])
      BY <1>2, <2>1, Zenon
    <2>3. Perform(Put("state", "RUNNING"))
      BY <1>1, <2>2, Zenon
    <2>4. /\ shared' = [shared EXCEPT !.state = "RUNNING"]
          /\ toClient' = toClient /\ client' = client /\ hist' = hist
      BY <2>3, Performs, Zenon
    <2> QED
      BY <1>3, <1>14, <2>4 DEF SharedType
  <1> QED
    BY <1>4, <1>5, <1>6, <1>7, <1>8, <1>9, <1>10, <1>11, <1>12, <1>13, <1>14

\* Until the last one, which begins the session, nobody is in step.
LEMMA AcceptStores ==
    ASSUME Types, NEW n \in 1..12, J("accept", n), emu' = emu, toStub' = toStub,
           Perform(Program("accept", 0)[12 - n + 1])
    PROVE  Types' /\ J("accept", n - 1)'
  <1>1. /\ client.view = "connecting" /\ hist.mode # "none" /\ toStub = <<>>
        /\ ~client.odd => toClient = <<>>
        /\ n <= 11 => ~shared.running
        /\ n <= 9 => shared.client
        /\ n <= 4 => emu.at = "top"
    BY DEF J, Untold, Connections
  <1>2. CASE n # 1
    <2>1. n \in 2..12
      BY <1>2
    <2>2. /\ toClient' = toClient /\ client' = client /\ hist' = hist
          /\ shared' \in SharedType
          /\ IF n = 12 THEN ~shared'.running ELSE shared'.running = shared.running
          /\ IF n = 10 THEN shared'.client ELSE shared'.client = shared.client
          /\ n = 5 => emu.at = "top"
      BY <2>1, AcceptPerforms
    <2>3. Types'
      BY <2>2 DEF Types
    <2>4. ~InStep' /\ client.view \notin Session
      BY <1>1, <2>2 DEF InStep, Session
    <2>5. Connections("accept", n - 1)'
      BY <1>1, <2>2, <2>4 DEF J, Connections
    <2>6. n - 1 <= 11 => ~shared'.running
      <3>1. CASE n = 12
        BY <2>2, <3>1
      <3>2. CASE n # 12
        <4>1. n <= 11
          BY <3>2
        <4> QED
          BY <1>1, <2>2, <3>2, <4>1
      <3> QED
        BY <3>1, <3>2
    <2>7. n - 1 <= 9 => shared'.client
      <3>1. CASE n = 10
        BY <2>2, <3>1
      <3>2. CASE n # 10
        <4>1. n - 1 <= 9 => n <= 9
          BY <3>2
        <4> QED
          BY <1>1, <2>2, <3>2, <4>1
      <3> QED
        BY <3>1, <3>2
    <2>8. n - 1 <= 4 => emu.at = "top"
      <3>1. n - 1 <= 4 => n <= 4 \/ n = 5
        OBVIOUS
      <3> QED
        BY <1>1, <2>2, <3>1
    <2>9. Untold("accept", n - 1)'
      BY <1>1, <2>2, <2>6, <2>7, <2>8 DEF Untold
    <2> QED
      BY <2>3, <2>4, <2>5, <2>9, OutOfStep
  <1>3. CASE n = 1
    <2>1. 12 - n + 1 = 12 /\ n - 1 = 0 /\ n <= 4 /\ n <= 9 /\ n <= 11
      BY <1>3
    <2>2. Program("accept", 0)[12] = Ready
      BY AcceptingStores, InterruptStores
    <2>3. Perform(Ready)
      BY <2>1, <2>2, Zenon
    <2>4. /\ client' = [client EXCEPT !.view = "stopped"] /\ hist' = Asked("none", 0)
          /\ shared' = shared /\ toClient' = toClient
      BY <2>3, Performs
    <2>5. client' \in ClientType /\ client'.view = "stopped" /\ client'.odd = client.odd
      BY <2>4 DEF Types, ClientType
    <2>6. hist' \in HistType /\ hist'.mode = "none"
      BY <2>4, FirmwareAssumption DEF Asked, HistType
    <2>7. Types'
      BY <2>4, <2>5, <2>6 DEF Types
    <2>8. emu.at = "top" /\ shared.client /\ ~shared.running
      BY <1>1, <2>1
    <2>9. Len(toStub) = 0
      BY <1>1
    <2>10. Connections("accept", 0)'
      BY <1>1, <2>4, <2>6, <2>8, <2>9 DEF Connections
    <2>11. Untold("accept", 0)'
      BY <2>4, <2>8 DEF Untold, Paused
    <2>12. CASE ~InStep'
      BY <2>1, <2>7, <2>10, <2>11, <2>12, OutOfStep
    <2>13. CASE InStep'
      <3>1. toClient = <<>>
        BY <1>1, <2>5, <2>13 DEF InStep
      <3>2. Len(toClient) = 0
        BY <3>1
      <3>3. Talk("accept", 0)'
        BY <2>4, <2>5, <2>6, <2>9, <3>1, <3>2 DEF Talk, OnlyInterrupts, Settled, Told
      <3>4. Resting("accept", 0)'
        BY <2>4, <2>6, <2>8 DEF Resting
      <3> QED
        BY <2>1, <2>6, <2>7, <2>10, <2>11, <3>3, <3>4 DEF J, Begins, NothingDone, Continues, Steps, Starting, Told
    <2> QED
      BY <2>12, <2>13
  <1> QED
    BY <1>2, <1>3

\* Departing from a debugger that is gone.
LEMMA DepartStore ==
    ASSUME Types, NEW d \in End, NEW n, NEW m, n > 0, J(d, n), Quiet, shared' \in SharedType
    PROVE  Types' /\ J(d, m)'
  <1>1. client.view \notin Session /\ toStub = <<>> /\ hist.mode # "none"
    BY DEF J, Connections, Untold, End
  <1>2. Len(toStub) = 0
    BY <1>1
  <1>3. Types'
    BY DEF Types, Quiet
  <1>4. ~InStep'
    BY <1>1 DEF InStep, Session, Quiet
  <1>5. Connections(d, m)'
    BY <1>1, <1>2 DEF Connections, Quiet
  <1>6. Untold(d, m)'
    BY <1>1 DEF Untold, Quiet, End
  <1> QED
    BY <1>3, <1>4, <1>5, <1>6, OutOfStep

LEMMA DetachKeeps ==
    ASSUME Types, NEW a, NEW n \in 1..4, J("D", n), emu' = emu, toStub' = toStub,
           Perform(Program("D", a)[4 - n + 1])
    PROVE  Types' /\ J("D", n - 1)'
  <1> DEFINE p == Program("D", a)
  <1>1. /\ p[1] = Put("client", FALSE)
        /\ p[2] = Put("running", TRUE)
        /\ p[3] = Put("single", FALSE)
        /\ p[4] = Put("bps", {})
    BY DetachStores
  <1> HIDE DEF p
  <1>2. Perform(p[4 - n + 1])
    BY DEF p
  <1>3. "D" \in End
    BY DEF End
  <1>4. CASE n = 4
    <2>1. 4 - n + 1 = 1 /\ n - 1 = 3 /\ n > 0
      BY <1>4
    <2>2. Perform(p[1])
      BY <1>2, <2>1, Zenon
    <2>3. Perform(Put("client", FALSE))
      BY <1>1, <2>2, Zenon
    <2>4. shared' \in SharedType /\ toClient' = toClient /\ client' = client /\ hist' = hist
      BY <2>3, PutClient
    <2> QED
      BY <1>3, <2>1, <2>4, DepartStore DEF Quiet
  <1>5. CASE n = 3
    <2>1. 4 - n + 1 = 2 /\ n - 1 = 2 /\ n > 0
      BY <1>5
    <2>2. Perform(p[2])
      BY <1>2, <2>1, Zenon
    <2>3. Perform(Put("running", TRUE))
      BY <1>1, <2>2, Zenon
    <2>4. shared' \in SharedType /\ toClient' = toClient /\ client' = client /\ hist' = hist
      BY <2>3, PutRunning
    <2> QED
      BY <1>3, <2>1, <2>4, DepartStore DEF Quiet
  <1>6. CASE n = 2
    <2>1. 4 - n + 1 = 3 /\ n - 1 = 1 /\ n > 0
      BY <1>6
    <2>2. Perform(p[3])
      BY <1>2, <2>1, Zenon
    <2>3. Perform(Put("single", FALSE))
      BY <1>1, <2>2, Zenon
    <2>4. shared' \in SharedType /\ toClient' = toClient /\ client' = client /\ hist' = hist
      BY <2>3, PutSingle
    <2> QED
      BY <1>3, <2>1, <2>4, DepartStore DEF Quiet
  <1>7. CASE n = 1
    <2>1. 4 - n + 1 = 4 /\ n - 1 = 0 /\ n > 0
      BY <1>7
    <2>2. Perform(p[4])
      BY <1>2, <2>1, Zenon
    <2>3. Perform(Put("bps", {}))
      BY <1>1, <2>2, Zenon
    <2>4. shared' \in SharedType /\ toClient' = toClient /\ client' = client /\ hist' = hist
      BY <2>3, Performs DEF Types, SharedType
    <2> QED
      BY <1>3, <2>1, <2>4, DepartStore DEF Quiet
  <1> QED
    BY <1>4, <1>5, <1>6, <1>7

\* The client closed the connection: nobody is in step.
LEMMA EndOfFileKeeps ==
    ASSUME Types, NEW a, NEW n \in 1..3, J("EOF", n), emu' = emu, toStub' = toStub,
           Perform(Program("EOF", a)[3 - n + 1])
    PROVE  Types' /\ J("EOF", n - 1)'
  <1> DEFINE p == Program("EOF", a)
  <1>1. /\ p[1] = Put("client", FALSE)
        /\ p[2] = Put("running", TRUE)
        /\ p[3] = Put("single", FALSE)
    BY CommandStores
  <1> HIDE DEF p
  <1>2. Perform(p[3 - n + 1])
    BY DEF p
  <1>3. "EOF" \in End
    BY DEF End
  <1>4. CASE n = 3
    <2>1. 3 - n + 1 = 1 /\ n - 1 = 2 /\ n > 0
      BY <1>4
    <2>2. Perform(p[1])
      BY <1>2, <2>1, Zenon
    <2>3. Perform(Put("client", FALSE))
      BY <1>1, <2>2, Zenon
    <2>4. shared' \in SharedType /\ toClient' = toClient /\ client' = client /\ hist' = hist
      BY <2>3, PutClient
    <2> QED
      BY <1>3, <2>1, <2>4, DepartStore DEF Quiet
  <1>5. CASE n = 2
    <2>1. 3 - n + 1 = 2 /\ n - 1 = 1 /\ n > 0
      BY <1>5
    <2>2. Perform(p[2])
      BY <1>2, <2>1, Zenon
    <2>3. Perform(Put("running", TRUE))
      BY <1>1, <2>2, Zenon
    <2>4. shared' \in SharedType /\ toClient' = toClient /\ client' = client /\ hist' = hist
      BY <2>3, PutRunning
    <2> QED
      BY <1>3, <2>1, <2>4, DepartStore DEF Quiet
  <1>6. CASE n = 1
    <2>1. 3 - n + 1 = 3 /\ n - 1 = 0 /\ n > 0
      BY <1>6
    <2>2. Perform(p[3])
      BY <1>2, <2>1, Zenon
    <2>3. Perform(Put("single", FALSE))
      BY <1>1, <2>2, Zenon
    <2>4. shared' \in SharedType /\ toClient' = toClient /\ client' = client /\ hist' = hist
      BY <2>3, PutSingle
    <2> QED
      BY <1>3, <2>1, <2>4, DepartStore DEF Quiet
  <1> QED
    BY <1>4, <1>5, <1>6

\* An interrupt byte: the second stop core 1 may report meanwhile puts the session out of step.
LEMMA InterruptKeepsOn ==
    ASSUME Types, NEW a, NEW n \in 1..3, J("INT", n), emu' = emu, toStub' = toStub,
           Perform(Program("INT", a)[3 - n + 1])
    PROVE  Types' /\ J("INT", n - 1)'
  <1> DEFINE p == Program("INT", a)
  <1>1. /\ p[1] = Put("running", FALSE)
        /\ p[2] = Put("single", FALSE)
        /\ p[3] = Send("S02")
    BY InterruptStores, StoppingStores
  <1> HIDE DEF p
  <1>2. Perform(p[3 - n + 1])
    BY DEF p
  <1>3. hist.mode # "none" /\ (InStep => hist.mode \notin Told)
    BY DEF J, Untold, Talk, Told
  <1>4. CASE n = 3
    <2>1. 3 - n + 1 = 1 /\ n - 1 = 2 /\ n > 0
      BY <1>4
    <2>2. Perform(p[1])
      BY <1>2, <2>1, Zenon
    <2>3. Perform(Put("running", FALSE))
      BY <1>1, <2>2, Zenon
    <2>4. /\ shared' \in SharedType /\ shared'.running = FALSE
          /\ shared'.client = shared.client
          /\ shared'.single = shared.single
          /\ toClient' = toClient /\ client' = client /\ hist' = hist
      BY <2>3, PutRunning
    <2>5. Types'
      BY <2>4 DEF Types
    <2>6. Connections("INT", 2)'
      BY <2>4 DEF J, Connections
    <2>7. Untold("INT", 2)'
      BY <1>3, <2>4 DEF Untold
    <2>8. CASE ~InStep'
      BY <2>1, <2>5, <2>6, <2>7, <2>8, OutOfStep
    <2>9. CASE InStep'
      <3>1. InStep
        BY <2>4, <2>9 DEF InStep
      <3>2. Talk("INT", 2)'
        BY <1>3, <2>4, <3>1 DEF J, Talk, OnlyInterrupts, OneOf, Settled, Told
      <3>3. ~shared'.running
        BY <1>4, <1>3, <2>4, <3>1 DEF J, Resting
      <3>4. Resting("INT", 2)'
        BY <2>4, <3>1, <3>3 DEF J, Resting
      <3>5. hist'.mode \notin Told
        BY <1>3, <2>4, <3>1
      <3> QED
        BY <2>1, <2>5, <2>6, <2>7, <3>2, <3>4, <3>5 DEF J, Begins, NothingDone, Continues, Steps, Starting, Told
    <2> QED
      BY <2>8, <2>9
  <1>5. CASE n = 2
    <2>1. 3 - n + 1 = 2 /\ n - 1 = 1 /\ n > 0
      BY <1>5
    <2>2. Perform(p[2])
      BY <1>2, <2>1, Zenon
    <2>3. Perform(Put("single", FALSE))
      BY <1>1, <2>2, Zenon
    <2>4. /\ shared' \in SharedType /\ shared'.single = FALSE
          /\ shared'.client = shared.client
          /\ shared'.running = shared.running
          /\ toClient' = toClient /\ client' = client /\ hist' = hist
      BY <2>3, PutSingle
    <2>5. Types'
      BY <2>4 DEF Types
    <2>6. Connections("INT", 1)'
      BY <2>4 DEF J, Connections
    <2>7. Untold("INT", 1)'
      BY <1>3, <2>4 DEF Untold
    <2>8. CASE ~InStep'
      BY <2>1, <2>5, <2>6, <2>7, <2>8, OutOfStep
    <2>9. CASE InStep'
      <3>1. InStep
        BY <2>4, <2>9 DEF InStep
      <3>2. Talk("INT", 1)'
        BY <1>3, <2>4, <3>1 DEF J, Talk, OnlyInterrupts, OneOf, Settled, Told
      <3>3. ~shared'.running
        BY <1>5, <1>3, <2>4, <3>1 DEF J, Resting
      <3>4. Resting("INT", 1)'
        BY <2>4, <3>1, <3>3 DEF J, Resting
      <3>5. hist'.mode \notin Told
        BY <1>3, <2>4, <3>1
      <3> QED
        BY <2>1, <2>5, <2>6, <2>7, <3>2, <3>4, <3>5 DEF J, Begins, NothingDone, Continues, Steps, Starting, Told
    <2> QED
      BY <2>8, <2>9
  <1>6. CASE n = 1
    <2>1. 3 - n + 1 = 3 /\ n - 1 = 0 /\ n > 0
      BY <1>6
    <2>2. Perform(p[3])
      BY <1>2, <2>1, Zenon
    <2>3. Perform(Send("S02"))
      BY <1>1, <2>2, Zenon
    <2>4. Sends("S02") /\ shared' = shared
      BY <2>3, Performs
    <2>5. CASE ~shared.client \/ Gone
      <3>1. toClient' = toClient /\ client' = client /\ hist' = hist
        BY <2>4, <2>5 DEF Sends
      <3>2. ~InStep
        BY <2>5, SessionHolds DEF InStep, Session, Doing
      <3>3. ~InStep'
        BY <3>1, <3>2 DEF InStep
      <3>4. Types'
        BY <2>4, <3>1 DEF Types
      <3>5. Connections("INT", 0)'
        BY <2>4, <3>1 DEF J, Connections
      <3>6. Untold("INT", 0)'
        BY <2>4, <3>1 DEF J, Untold, Paused
      <3> QED
        BY <2>1, <3>3, <3>4, <3>5, <3>6, OutOfStep
    <2>6. CASE ~(~shared.client \/ Gone)
      <3>1. /\ toClient' = Append(toClient, "S02")
            /\ client' = [client EXCEPT !.odd = client.odd \/ Unasked]
            /\ hist' = hist
        BY <2>4, <2>6 DEF Sends, Stops
      <3>2. toClient' \in Seq(Reply) /\ Len(toClient') = Len(toClient) + 1
        BY <3>1 DEF Types, Reply
      <3>3. client' \in ClientType /\ client'.view = client.view
        BY <3>1 DEF Types, ClientType, Unasked
      <3>4. client'.odd \/ (~client.odd /\ client.view = "waiting" /\ toStub = <<>> /\ toClient = <<>>)
        BY <3>1 DEF Types, ClientType, Unasked
      <3>5. Types'
        BY <2>4, <3>1, <3>2, <3>3 DEF Types
      <3>6. Connections("INT", 0)'
        BY <2>4, <3>1, <3>3 DEF J, Connections
      <3>7. Untold("INT", 0)'
        BY <1>3, <3>1 DEF Untold
      <3>8. CASE ~InStep'
        BY <2>1, <3>5, <3>6, <3>7, <3>8, OutOfStep
      <3>9. CASE InStep'
        <4>1. InStep /\ client'.view = "waiting" /\ toStub = <<>> /\ toClient = <<>>
          BY <3>3, <3>4, <3>9 DEF InStep
        <4>2. Len(toClient') = 1 /\ Len(toStub) = 0
          BY <3>2, <4>1
        <4>3. hist.mode \notin Told
          BY <1>3, <4>1
        <4>4. Talk("INT", 0)'
          BY <3>1, <4>1, <4>2, <4>3 DEF Talk, OnlyInterrupts
        <4>5. Resting("INT", 0)'
          BY <1>6, <2>4, <3>1, <4>1, <4>3 DEF J, Resting
        <4> QED
          BY <2>1, <3>1, <3>5, <3>6, <3>7, <4>3, <4>4, <4>5 DEF J, Begins, NothingDone, Continues, Steps, Starting, Told
      <3> QED
        BY <3>8, <3>9
    <2> QED
      BY <2>5, <2>6
  <1> QED
    BY <1>4, <1>5, <1>6

\* A breakpoint is set or cleared, and OK sent.
LEMMA PlantKeepsOn ==
    ASSUME Types, NEW d \in {"Z", "z"}, NEW a \in Addr, NEW n \in 1..2, J(d, n), emu' = emu, toStub' = toStub,
           Perform(Program(d, a)[2 - n + 1])
    PROVE  Types' /\ J(d, n - 1)'
  <1> DEFINE p == Program(d, a)
  <1>1. /\ p[1] = IF d = "Z" THEN Plant(a) ELSE Clear(a)
        /\ p[2] = Send("OK")
    BY CommandStores
  <1> HIDE DEF p
  <1>2. Perform(p[2 - n + 1])
    BY DEF p
  <1>3. /\ d \in Doing /\ d \notin {"accept", "D", "EOF", "c", "s", "INT"} /\ d \notin Told
    BY DEF Doing, Told
  <1>0. /\ InStep => /\ client.view = "asking" /\ hist.mode \notin Told
                     /\ toClient = <<>> /\ OnlyInterrupts /\ ~shared.running
        /\ hist.mode = "none" => emu.at = "top" /\ Paused
    <2>1. n > 0
      OBVIOUS
    <2>2. ASSUME InStep
          PROVE  /\ client.view = "asking" /\ hist.mode \notin Told
                 /\ toClient = <<>> /\ OnlyInterrupts
      <3>1. hist.mode \notin Told
        BY <1>3, <2>1, <2>2 DEF J, Talk
      <3>2. ~Settled(d, n)
        BY <1>3, <2>1 DEF Settled
      <3>3. client.view \notin {"stopped", "waiting"}
        BY <1>3, <2>1, <2>2, <3>2 DEF J, Talk
      <3>4. client.view = "asking"
        BY <2>2, <3>3 DEF InStep
      <3> QED
        BY <2>2, <3>1, <3>2, <3>4 DEF J, Talk
    <2>3. InStep => ~shared.running
      BY <1>3, <2>2 DEF J, Resting
    <2> QED
      BY <2>2, <2>3 DEF J, Untold
  <1>4. CASE n = 2
    <2>1. 2 - n + 1 = 1 /\ n - 1 = 1 /\ n > 0
      BY <1>4
    <2>2. Perform(p[1])
      BY <1>2, <2>1, Zenon
    <2>3. Perform(IF d = "Z" THEN Plant(a) ELSE Clear(a))
      BY <1>1, <2>2, Zenon
    <2>4. /\ toClient' = toClient /\ client' = client /\ hist' = hist
          /\ \E s : s \subseteq Addr /\ shared' = [shared EXCEPT !.bps = s]
      <3>1. shared.bps \subseteq Addr
        BY DEF Types, SharedType
      <3>2. CASE d = "Z"
        <4>1. Perform(Plant(a))
          BY <2>3, <3>2
        <4>2. /\ shared' = [shared EXCEPT !.bps = shared.bps \cup {a}]
              /\ toClient' = toClient /\ client' = client /\ hist' = hist
          BY <4>1, Performs
        <4>3. shared.bps \cup {a} \subseteq Addr
          BY <3>1
        <4> QED
          BY <4>2, <4>3
      <3>3. CASE d = "z"
        <4>1. Perform(Clear(a))
          BY <2>3, <3>3
        <4>2. /\ shared' = [shared EXCEPT !.bps = shared.bps \ {a}]
              /\ toClient' = toClient /\ client' = client /\ hist' = hist
          BY <4>1, Performs
        <4>3. shared.bps \ {a} \subseteq Addr
          BY <3>1
        <4> QED
          BY <4>2, <4>3
      <3> QED
        BY <3>2, <3>3
    <2>5. /\ shared' \in SharedType
          /\ shared'.client = shared.client
          /\ shared'.running = shared.running
      BY <2>4 DEF Types, SharedType
    <2>6. Types'
      BY <2>4, <2>5 DEF Types
    <2>7. Connections(d, 1)'
      BY <1>3, <2>4, <2>5 DEF J, Connections
    <2>8. Untold(d, 1)'
      BY <1>0, <1>3, <2>4, <2>5 DEF Untold, Paused
    <2>9. CASE ~InStep'
      BY <2>1, <2>6, <2>7, <2>8, <2>9, OutOfStep
    <2>10. CASE InStep'
      <3>1. InStep
        BY <2>4, <2>10 DEF InStep
      <3>2. Len(toClient) = 0
        BY <1>0, <3>1
      <3>3. Talk(d, 1)'
        BY <1>0, <1>3, <2>4, <3>1, <3>2 DEF Talk, OnlyInterrupts
      <3>4. Resting(d, 1)'
        BY <1>0, <1>3, <2>4, <2>5, <3>1 DEF J, Resting
      <3> QED
        BY <1>0, <2>1, <2>4, <2>6, <2>7, <2>8, <3>1, <3>3, <3>4 DEF J, Begins, NothingDone, Continues, Steps, Starting, Told
    <2> QED
      BY <2>9, <2>10
  <1>5. CASE n = 1
    <2>1. 2 - n + 1 = 2 /\ n - 1 = 0 /\ n > 0
      BY <1>5
    <2>2. Perform(p[2])
      BY <1>2, <2>1, Zenon
    <2>3. Perform(Send("OK"))
      BY <1>1, <2>2, Zenon
    <2>4. Sends("OK") /\ shared' = shared
      BY <2>3, Performs
    <2>5. CASE ~shared.client \/ Gone
      <3>1. toClient' = toClient /\ client' = client /\ hist' = hist
        BY <2>4, <2>5 DEF Sends
      <3>2. ~InStep
        BY <2>5, SessionHolds DEF InStep, Session, Doing
      <3>3. ~InStep'
        BY <3>1, <3>2 DEF InStep
      <3>4. Types'
        BY <2>4, <3>1 DEF Types
      <3>5. Connections(d, 0)'
        BY <2>4, <3>1 DEF J, Connections
      <3>6. Untold(d, 0)'
        BY <2>4, <3>1 DEF J, Untold, Paused
      <3> QED
        BY <2>1, <3>3, <3>4, <3>5, <3>6, OutOfStep
    <2>6. CASE ~(~shared.client \/ Gone)
      <3>1. /\ toClient' = Append(toClient, "OK")
            /\ client' = [client EXCEPT !.odd = client.odd \/ ("OK" \in Stops /\ Unasked)]
            /\ hist' = hist
        BY <2>4, <2>6 DEF Sends
      <3>2. toClient' \in Seq(Reply) /\ Len(toClient') = Len(toClient) + 1
        BY <3>1 DEF Types, Reply
      <3>3. client' \in ClientType /\ client'.view = client.view /\ (client'.odd => client.odd)
            /\ (client.odd => client'.odd)
        BY <3>1 DEF Types, ClientType, Unasked, Stops
      <3>4. Types'
        BY <2>4, <3>1, <3>2, <3>3 DEF Types
      <3>5. Connections(d, 0)'
        BY <2>4, <3>1, <3>3 DEF J, Connections
      <3>6. Untold(d, 0)'
        BY <1>0, <2>4, <3>1 DEF Untold, Paused
      <3>7. CASE ~InStep'
        BY <2>1, <3>4, <3>5, <3>6, <3>7, OutOfStep
      <3>8. CASE InStep'
        <4>1. InStep
          BY <3>3, <3>8 DEF InStep
        <4>2. Len(toClient') = 1
          BY <1>0, <3>2, <4>1
        <4>3. Talk(d, 0)'
          BY <1>0, <3>1, <3>3, <4>1, <4>2 DEF Talk, OnlyInterrupts, Settled
        <4>4. Resting(d, 0)'
          BY <1>0, <2>4, <3>1, <4>1 DEF J, Resting
        <4> QED
          BY <1>0, <2>1, <3>1, <3>4, <3>5, <3>6, <4>1, <4>3, <4>4 DEF J, Begins, NothingDone, Continues, Steps, Starting, Told
      <3> QED
        BY <3>7, <3>8
    <2> QED
      BY <2>5, <2>6
  <1> QED
    BY <1>4, <1>5

\* A continue: single_step, resume_from_pc, is_running and the state, in this order (gdb_stub.c:206-217).
LEMMA ContinueKeepsOn ==
    ASSUME Types, NEW a, NEW n \in 1..4, J("c", n), emu' = emu, toStub' = toStub,
           Perform(Program("c", a)[4 - n + 1])
    PROVE  Types' /\ J("c", n - 1)'
  <1> DEFINE p == Program("c", a)
  <1>1. /\ p[1] = Put("single", FALSE)
        /\ p[2] = Mark
        /\ p[3] = Put("running", TRUE)
        /\ p[4] = Put("state", "RUNNING")
    BY CommandStores
  <1> HIDE DEF p
  <1>2. Perform(p[4 - n + 1])
    BY DEF p
  <1>3. /\ hist.mode # "none"
        /\ InStep /\ n > 1 => hist.mode = "c" /\ Starting("c", n)
        /\ InStep /\ hist.mode \in Told => hist.mode = "c"
    BY DEF J, Untold, Talk, Told, Starting
  <1>4. CASE n = 4
    <2>1. 4 - n + 1 = 1 /\ n - 1 = 3 /\ n > 0
      BY <1>4
    <2>2. Perform(p[1])
      BY <1>2, <2>1, Zenon
    <2>3. Perform(Put("single", FALSE))
      BY <1>1, <2>2, Zenon
    <2>4. FALSE \in BOOLEAN
      OBVIOUS
    <2>5. /\ shared' \in SharedType /\ shared'.single = FALSE
          /\ shared'.client = shared.client
          /\ shared'.running = shared.running
          /\ shared'.resume = shared.resume
          /\ shared'.bps = shared.bps
          /\ shared'.state = shared.state
          /\ shared'.pc = shared.pc
          /\ toClient' = toClient /\ client' = client /\ hist' = hist
      BY <2>3, <2>4, PutSingle
    <2>6. Types'
      BY <2>4, <2>5 DEF Types
    <2>7. Connections("c", 3)'
      BY <2>4, <2>5 DEF J, Connections
    <2>8. Untold("c", 3)'
      BY <1>3, <2>4, <2>5 DEF Untold
    <2>9. CASE ~InStep'
      BY <2>1, <2>6, <2>7, <2>8, <2>9, OutOfStep
    <2>10. CASE InStep'
      <3>1. InStep
        BY <2>4, <2>5, <2>10 DEF InStep
      <3>2. Talk("c", 3)'
        BY <1>3, <1>4, <2>4, <2>5, <3>1 DEF J, Talk, OnlyInterrupts, OneOf, Settled, Told
      <3>3. /\ hist.mode = "c" /\ Starting("c", n)
            /\ emu.at \in {"top", "after", "vector", "wake"} /\ ~shared.running
            /\ hist.executed = 0 /\ hist.trail = {} /\ hist.from = shared.pc
            /\ emu.at = "after" => shared.state \notin Stopped
        BY <1>3, <1>4, <3>1 DEF J, Begins, NothingDone, Told
      <3>4. Resting("c", 3)'
        BY <2>4, <2>5, <3>1, <3>3 DEF J, Resting, Told
      <3>5. Begins("c", 3)'
        BY <2>4, <2>5, <3>1, <3>3 DEF Begins, Starting
      <3>6. NothingDone("c", 3)'
        BY <2>4, <2>5, <3>3 DEF NothingDone
      <3>7. Continues("c", 3)'
        BY <2>4, <2>5, <3>3 DEF Continues, Starting, Told
      <3>8. Steps("c", 3)'
        BY <2>4, <2>5, <3>3 DEF Steps, Starting, Told
      <3> QED
        BY <2>1, <2>6, <2>7, <2>8, <3>2, <3>4, <3>5, <3>6, <3>7, <3>8 DEF J
    <2> QED
      BY <2>9, <2>10
  <1>5. CASE n = 3
    <2>1. 4 - n + 1 = 2 /\ n - 1 = 2 /\ n > 0
      BY <1>5
    <2>2. Perform(p[2])
      BY <1>2, <2>1, Zenon
    <2>3. Perform(Mark)
      BY <1>1, <2>2, Zenon
    <2>4. /\ shared' = [shared EXCEPT !.resume = shared.pc]
          /\ toClient' = toClient /\ client' = client /\ hist' = hist
      BY <2>3, Performs
    <2>5. /\ shared' \in SharedType /\ shared'.resume = shared.pc
          /\ shared'.client = shared.client
          /\ shared'.running = shared.running
          /\ shared'.single = shared.single
          /\ shared'.bps = shared.bps
          /\ shared'.state = shared.state
          /\ shared'.pc = shared.pc
      BY <2>4 DEF Types, SharedType
    <2>6. Types'
      BY <2>4, <2>5 DEF Types
    <2>7. Connections("c", 2)'
      BY <2>4, <2>5 DEF J, Connections
    <2>8. Untold("c", 2)'
      BY <1>3, <2>4, <2>5 DEF Untold
    <2>9. CASE ~InStep'
      BY <2>1, <2>6, <2>7, <2>8, <2>9, OutOfStep
    <2>10. CASE InStep'
      <3>1. InStep
        BY <2>4, <2>5, <2>10 DEF InStep
      <3>2. Talk("c", 2)'
        BY <1>3, <1>5, <2>4, <2>5, <3>1 DEF J, Talk, OnlyInterrupts, OneOf, Settled, Told
      <3>3. /\ hist.mode = "c" /\ Starting("c", n)
            /\ emu.at \in {"top", "after", "vector", "wake"} /\ ~shared.running
            /\ hist.executed = 0 /\ hist.trail = {} /\ hist.from = shared.pc
            /\ emu.at = "after" => shared.state \notin Stopped
        BY <1>3, <1>5, <3>1 DEF J, Begins, NothingDone, Told
      <3>4. Resting("c", 2)'
        BY <2>4, <2>5, <3>1, <3>3 DEF J, Resting, Told
      <3>5. Begins("c", 2)'
        BY <2>4, <2>5, <3>1, <3>3 DEF Begins, Starting
      <3>6. NothingDone("c", 2)'
        BY <2>4, <2>5, <3>3 DEF NothingDone
      <3>7. Continues("c", 2)'
        BY <2>4, <2>5, <3>3 DEF Continues, Starting, Told
      <3>8. Steps("c", 2)'
        BY <2>4, <2>5, <3>3 DEF Steps, Starting, Told
      <3> QED
        BY <2>1, <2>6, <2>7, <2>8, <3>2, <3>4, <3>5, <3>6, <3>7, <3>8 DEF J
    <2> QED
      BY <2>9, <2>10
  <1>6. CASE n = 2
    <2>1. 4 - n + 1 = 3 /\ n - 1 = 1 /\ n > 0
      BY <1>6
    <2>2. Perform(p[3])
      BY <1>2, <2>1, Zenon
    <2>3. Perform(Put("running", TRUE))
      BY <1>1, <2>2, Zenon
    <2>4. TRUE \in BOOLEAN
      OBVIOUS
    <2>5. /\ shared' \in SharedType /\ shared'.running = TRUE
          /\ shared'.client = shared.client
          /\ shared'.single = shared.single
          /\ shared'.resume = shared.resume
          /\ shared'.bps = shared.bps
          /\ shared'.state = shared.state
          /\ shared'.pc = shared.pc
          /\ toClient' = toClient /\ client' = client /\ hist' = hist
      BY <2>3, <2>4, PutRunning
    <2>6. Types'
      BY <2>4, <2>5 DEF Types
    <2>7. Connections("c", 1)'
      BY <2>4, <2>5 DEF J, Connections
    <2>8. Untold("c", 1)'
      BY <1>3, <2>4, <2>5 DEF Untold
    <2>9. CASE ~InStep'
      BY <2>1, <2>6, <2>7, <2>8, <2>9, OutOfStep
    <2>10. CASE InStep'
      <3>1. InStep
        BY <2>4, <2>5, <2>10 DEF InStep
      <3>2. Talk("c", 1)'
        BY <1>3, <1>6, <2>4, <2>5, <3>1 DEF J, Talk, OnlyInterrupts, OneOf, Settled, Told
      <3>3. /\ hist.mode = "c" /\ Starting("c", n)
            /\ emu.at \in {"top", "after", "vector", "wake"} /\ ~shared.running
            /\ hist.executed = 0 /\ hist.trail = {} /\ hist.from = shared.pc
            /\ emu.at = "after" => shared.state \notin Stopped
        BY <1>3, <1>6, <3>1 DEF J, Begins, NothingDone, Told
      <3>9. shared.resume = shared.pc /\ shared.pc # None
        <4>1. shared.resume = shared.pc
          BY <1>6, <3>1, <3>3 DEF J, Begins
        <4>2. shared.pc \in Nat
          BY FirmwareAssumption DEF Types, SharedType
        <4> QED
          BY <4>1, <4>2 DEF None
      <3>4. Resting("c", 1)'
        BY <2>4, <2>5, <3>1, <3>3 DEF J, Resting, Told
      <3>5. Begins("c", 1)'
        BY <2>4, <2>5, <3>1, <3>3 DEF Begins, Starting
      <3>6. NothingDone("c", 1)'
        BY <2>4, <2>5, <3>3 DEF NothingDone
      <3>7. Continues("c", 1)'
        BY <2>4, <2>5, <3>3, <3>9 DEF Continues, Starting, Told
      <3>8. Steps("c", 1)'
        BY <2>4, <2>5, <3>3, <3>9 DEF Steps, Starting, Told
      <3> QED
        BY <2>1, <2>6, <2>7, <2>8, <3>2, <3>4, <3>5, <3>6, <3>7, <3>8 DEF J
    <2> QED
      BY <2>9, <2>10
  <1>7. CASE n = 1
    <2>1. 4 - n + 1 = 4 /\ n - 1 = 0 /\ n > 0
      BY <1>7
    <2>2. Perform(p[4])
      BY <1>2, <2>1, Zenon
    <2>3. Perform(Put("state", "RUNNING"))
      BY <1>1, <2>2, Zenon
    <2>4. /\ shared' = [shared EXCEPT !.state = "RUNNING"]
          /\ toClient' = toClient /\ client' = client /\ hist' = hist
      BY <2>3, Performs, Zenon
    <2>5. /\ shared' \in SharedType /\ shared'.state = "RUNNING"
          /\ shared'.client = shared.client
          /\ shared'.running = shared.running
          /\ shared'.single = shared.single
          /\ shared'.bps = shared.bps
          /\ shared'.resume = shared.resume
          /\ shared'.pc = shared.pc
      BY <2>4 DEF Types, SharedType
    <2>6. Types'
      BY <2>4, <2>5 DEF Types
    <2>7. Connections("c", 0)'
      BY <2>4, <2>5 DEF J, Connections
    <2>8. Untold("c", 0)'
      BY <1>3, <2>4, <2>5 DEF Untold
    <2>9. CASE ~InStep'
      BY <2>1, <2>6, <2>7, <2>8, <2>9, OutOfStep
    <2>10. CASE InStep'
      <3>1. InStep
        BY <2>4, <2>5, <2>10 DEF InStep
      <3>2. Talk("c", 0)'
        BY <1>3, <1>7, <2>4, <2>5, <3>1 DEF J, Talk, OnlyInterrupts, OneOf, Settled, Told
      <3>3. ~Starting("c", 1) /\ ~Starting("c", 0)
        BY DEF Starting
      <3>4. Resting("c", 0)'
        BY <1>7, <2>4, <2>5, <3>1 DEF J, Resting
      <3>5. Begins("c", 0)'
        BY DEF Begins, Starting
      <3>6. NothingDone("c", 0)'
        BY <2>4, <2>5, <3>1 DEF J, NothingDone, Stopped
      <3>7. Continues("c", 0)'
        BY <1>7, <2>4, <2>5, <3>1, <3>3 DEF J, Continues
      <3>8. Steps("c", 0)'
        BY <1>7, <2>4, <2>5, <3>1, <3>3 DEF J, Steps
      <3> QED
        BY <2>1, <2>6, <2>7, <2>8, <3>2, <3>4, <3>5, <3>6, <3>7, <3>8 DEF J
    <2> QED
      BY <2>9, <2>10
  <1> QED
    BY <1>4, <1>5, <1>6, <1>7

\* A step: single_step before is_running, so that core 1 never begins without it (gdb_stub.c:219-228).
LEMMA StepKeepsOn ==
    ASSUME Types, NEW a, NEW n \in 1..3, J("s", n), emu' = emu, toStub' = toStub,
           Perform(Program("s", a)[3 - n + 1])
    PROVE  Types' /\ J("s", n - 1)'
  <1> DEFINE p == Program("s", a)
  <1>1. /\ p[1] = Put("single", TRUE)
        /\ p[2] = Put("running", TRUE)
        /\ p[3] = Put("state", "RUNNING")
    BY CommandStores
  <1> HIDE DEF p
  <1>2. Perform(p[3 - n + 1])
    BY DEF p
  <1>3. /\ hist.mode # "none"
        /\ InStep /\ n > 1 => hist.mode = "s" /\ Starting("s", n)
        /\ InStep /\ hist.mode \in Told => hist.mode = "s"
    BY DEF J, Untold, Talk, Told, Starting
  <1>4. CASE n = 3
    <2>1. 3 - n + 1 = 1 /\ n - 1 = 2 /\ n > 0
      BY <1>4
    <2>2. Perform(p[1])
      BY <1>2, <2>1, Zenon
    <2>3. Perform(Put("single", TRUE))
      BY <1>1, <2>2, Zenon
    <2>4. TRUE \in BOOLEAN
      OBVIOUS
    <2>5. /\ shared' \in SharedType /\ shared'.single = TRUE
          /\ shared'.client = shared.client
          /\ shared'.running = shared.running
          /\ shared'.resume = shared.resume
          /\ shared'.bps = shared.bps
          /\ shared'.state = shared.state
          /\ shared'.pc = shared.pc
          /\ toClient' = toClient /\ client' = client /\ hist' = hist
      BY <2>3, <2>4, PutSingle
    <2>6. Types'
      BY <2>4, <2>5 DEF Types
    <2>7. Connections("s", 2)'
      BY <2>4, <2>5 DEF J, Connections
    <2>8. Untold("s", 2)'
      BY <1>3, <2>4, <2>5 DEF Untold
    <2>9. CASE ~InStep'
      BY <2>1, <2>6, <2>7, <2>8, <2>9, OutOfStep
    <2>10. CASE InStep'
      <3>1. InStep
        BY <2>4, <2>5, <2>10 DEF InStep
      <3>2. Talk("s", 2)'
        BY <1>3, <1>4, <2>4, <2>5, <3>1 DEF J, Talk, OnlyInterrupts, OneOf, Settled, Told
      <3>3. /\ hist.mode = "s" /\ Starting("s", n)
            /\ emu.at \in {"top", "after", "vector", "wake"} /\ ~shared.running
            /\ hist.executed = 0 /\ hist.trail = {} /\ hist.from = shared.pc
            /\ emu.at = "after" => shared.state \notin Stopped
        BY <1>3, <1>4, <3>1 DEF J, Begins, NothingDone, Told
      <3>4. Resting("s", 2)'
        BY <2>4, <2>5, <3>1, <3>3 DEF J, Resting, Told
      <3>5. Begins("s", 2)'
        BY <2>4, <2>5, <3>1, <3>3 DEF Begins, Starting
      <3>6. NothingDone("s", 2)'
        BY <2>4, <2>5, <3>3 DEF NothingDone
      <3>7. Continues("s", 2)'
        BY <2>4, <2>5, <3>3 DEF Continues, Starting, Told
      <3>8. Steps("s", 2)'
        BY <2>4, <2>5, <3>3 DEF Steps, Starting, Told
      <3> QED
        BY <2>1, <2>6, <2>7, <2>8, <3>2, <3>4, <3>5, <3>6, <3>7, <3>8 DEF J
    <2> QED
      BY <2>9, <2>10
  <1>5. CASE n = 2
    <2>1. 3 - n + 1 = 2 /\ n - 1 = 1 /\ n > 0
      BY <1>5
    <2>2. Perform(p[2])
      BY <1>2, <2>1, Zenon
    <2>3. Perform(Put("running", TRUE))
      BY <1>1, <2>2, Zenon
    <2>4. TRUE \in BOOLEAN
      OBVIOUS
    <2>5. /\ shared' \in SharedType /\ shared'.running = TRUE
          /\ shared'.client = shared.client
          /\ shared'.single = shared.single
          /\ shared'.resume = shared.resume
          /\ shared'.bps = shared.bps
          /\ shared'.state = shared.state
          /\ shared'.pc = shared.pc
          /\ toClient' = toClient /\ client' = client /\ hist' = hist
      BY <2>3, <2>4, PutRunning
    <2>6. Types'
      BY <2>4, <2>5 DEF Types
    <2>7. Connections("s", 1)'
      BY <2>4, <2>5 DEF J, Connections
    <2>8. Untold("s", 1)'
      BY <1>3, <2>4, <2>5 DEF Untold
    <2>9. CASE ~InStep'
      BY <2>1, <2>6, <2>7, <2>8, <2>9, OutOfStep
    <2>10. CASE InStep'
      <3>1. InStep
        BY <2>4, <2>5, <2>10 DEF InStep
      <3>2. Talk("s", 1)'
        BY <1>3, <1>5, <2>4, <2>5, <3>1 DEF J, Talk, OnlyInterrupts, OneOf, Settled, Told
      <3>3. /\ hist.mode = "s" /\ Starting("s", n)
            /\ emu.at \in {"top", "after", "vector", "wake"} /\ ~shared.running
            /\ hist.executed = 0 /\ hist.trail = {} /\ hist.from = shared.pc
            /\ emu.at = "after" => shared.state \notin Stopped
        BY <1>3, <1>5, <3>1 DEF J, Begins, NothingDone, Told
      <3>9. shared.single
        BY <1>5, <3>1, <3>3 DEF J, Begins
      <3>4. Resting("s", 1)'
        BY <2>4, <2>5, <3>1, <3>3 DEF J, Resting, Told
      <3>5. Begins("s", 1)'
        BY <2>4, <2>5, <3>1, <3>3 DEF Begins, Starting
      <3>6. NothingDone("s", 1)'
        BY <2>4, <2>5, <3>3 DEF NothingDone
      <3>7. Continues("s", 1)'
        BY <2>4, <2>5, <3>3, <3>9 DEF Continues, Starting, Told
      <3>8. Steps("s", 1)'
        BY <2>4, <2>5, <3>3, <3>9 DEF Steps, Starting, Told
      <3> QED
        BY <2>1, <2>6, <2>7, <2>8, <3>2, <3>4, <3>5, <3>6, <3>7, <3>8 DEF J
    <2> QED
      BY <2>9, <2>10
  <1>6. CASE n = 1
    <2>1. 3 - n + 1 = 3 /\ n - 1 = 0 /\ n > 0
      BY <1>6
    <2>2. Perform(p[3])
      BY <1>2, <2>1, Zenon
    <2>3. Perform(Put("state", "RUNNING"))
      BY <1>1, <2>2, Zenon
    <2>4. /\ shared' = [shared EXCEPT !.state = "RUNNING"]
          /\ toClient' = toClient /\ client' = client /\ hist' = hist
      BY <2>3, Performs, Zenon
    <2>5. /\ shared' \in SharedType /\ shared'.state = "RUNNING"
          /\ shared'.client = shared.client
          /\ shared'.running = shared.running
          /\ shared'.single = shared.single
          /\ shared'.bps = shared.bps
          /\ shared'.resume = shared.resume
          /\ shared'.pc = shared.pc
      BY <2>4 DEF Types, SharedType
    <2>6. Types'
      BY <2>4, <2>5 DEF Types
    <2>7. Connections("s", 0)'
      BY <2>4, <2>5 DEF J, Connections
    <2>8. Untold("s", 0)'
      BY <1>3, <2>4, <2>5 DEF Untold
    <2>9. CASE ~InStep'
      BY <2>1, <2>6, <2>7, <2>8, <2>9, OutOfStep
    <2>10. CASE InStep'
      <3>1. InStep
        BY <2>4, <2>5, <2>10 DEF InStep
      <3>2. Talk("s", 0)'
        BY <1>3, <1>6, <2>4, <2>5, <3>1 DEF J, Talk, OnlyInterrupts, OneOf, Settled, Told
      <3>3. ~Starting("s", 1) /\ ~Starting("s", 0)
        BY DEF Starting
      <3>4. Resting("s", 0)'
        BY <1>6, <2>4, <2>5, <3>1 DEF J, Resting
      <3>5. Begins("s", 0)'
        BY DEF Begins, Starting
      <3>6. NothingDone("s", 0)'
        BY <2>4, <2>5, <3>1 DEF J, NothingDone, Stopped
      <3>7. Continues("s", 0)'
        BY <1>6, <2>4, <2>5, <3>1, <3>3 DEF J, Continues
      <3>8. Steps("s", 0)'
        BY <1>6, <2>4, <2>5, <3>1, <3>3 DEF J, Steps
      <3> QED
        BY <2>1, <2>6, <2>7, <2>8, <3>2, <3>4, <3>5, <3>6, <3>7, <3>8 DEF J
    <2> QED
      BY <2>9, <2>10
  <1> QED
    BY <1>4, <1>5, <1>6
-----------------------------------------------------------------------------
(***************************************************************************)
(* The whole.                                                              *)
(***************************************************************************)
\* The initial state: nobody is connected and core 0 has nothing to do.
LEMMA InitGood == Init => IInv
  <1> SUFFICES ASSUME Init PROVE IInv
    OBVIOUS
  <1>1. /\ shared = [client |-> FALSE, running |-> FALSE, single |-> FALSE, resume |-> None,
                     bps |-> {}, state |-> "RUNNING", pc |-> 0]
        /\ poll = <<>> /\ emu = Outside /\ toStub = <<>> /\ toClient = <<>>
        /\ client = [view |-> "absent", odd |-> FALSE] /\ hist = Asked("free", 0)
    BY DEF Init
  <1>2. shared \in SharedType /\ client \in ClientType
    BY <1>1, FirmwareAssumption DEF SharedType, ClientType
  <1>3. hist \in HistType /\ hist.mode = "free"
    BY <1>1, FirmwareAssumption DEF HistType, Asked
  <1>4. emu \in EmuType /\ emu.at = "top"
    BY <1>1, OutsideType
  <1>5. Types
    BY <1>1, <1>2, <1>3, <1>4 DEF Types
  <1>6. client.view = "absent" /\ ~InStep
    BY <1>1 DEF InStep
  <1>7. J("c", 0)
    BY <1>1, <1>3, <1>6 DEF J, Connections, Session, Untold, Talk, Resting, Begins, NothingDone, Continues, Steps
  <1>8. "c" \in Doing /\ 0 \in Addr
    BY FirmwareAssumption DEF Doing
  <1>9. Len(Program("c", 0)) \in Nat /\ 0 \in 0..Len(Program("c", 0))
    BY <1>8, AllLeft
  <1>10. poll = Left(Program("c", 0), 0)
    BY <1>1, <1>9, LeftFacts
  <1> QED
    BY <1>5, <1>7, <1>8, <1>9, <1>10 DEF IInv

\* A step that leaves core 0's handler alone.
LEMMA KeepsOn ==
    ASSUME NEW d \in Doing, NEW a \in Addr, NEW n \in 0..Len(Program(d, a)),
           poll' = Left(Program(d, a), n), Types', J(d, n)'
    PROVE  IInv'
  <1>1. IInv' <=> /\ Types'
                  /\ \E e \in Doing, b \in Addr : \E m \in 0..Len(Program(e, b)) :
                         poll' = Left(Program(e, b), m) /\ J(e, m)'
    BY DEF IInv, Doing, Program, Left, Handling, Accepting, Reset, Departing, Stopping, Continuing,
           Put, Send, Mark, Wait, Ready, Plant, Clear
  <1> QED
    BY <1>1

\* The invariant holds through the steps of the debugger, ...
LEMMA ClientStepKeeps ==
    ASSUME IInv, ClientStep
    PROVE  IInv'
  <1>1. Types
    BY DEF IInv
  <1>2. PICK d \in Doing, a \in Addr : \E n \in 0..Len(Program(d, a)) :
                  poll = Left(Program(d, a), n) /\ J(d, n)
    BY DEF IInv
  <1>3. PICK n \in 0..Len(Program(d, a)) : poll = Left(Program(d, a), n) /\ J(d, n)
    BY <1>2
  <1>4. n \in Nat
    BY <1>3, NextStore
  <1>5. poll' = poll
    BY DEF ClientStep, Connect, AskAny, Ask, Interrupt, Leave, TakeReply
  <1>6. Types' /\ J(d, n)'
    BY <1>1, <1>3, <1>4, ConnectKeeps, AskKeeps, InterruptKeeps, LeaveKeeps, TakeReplyKeeps DEF ClientStep
  <1> QED
    BY <1>3, <1>5, <1>6, KeepsOn

\* ... those of core 1, ...
LEMMA EmuStepKeeps ==
    ASSUME IInv, EmuStep
    PROVE  IInv'
  <1>1. Types
    BY DEF IInv
  <1>2. PICK d \in Doing, a \in Addr : \E n \in 0..Len(Program(d, a)) :
                  poll = Left(Program(d, a), n) /\ J(d, n)
    BY DEF IInv
  <1>3. PICK n \in 0..Len(Program(d, a)) : poll = Left(Program(d, a), n) /\ J(d, n)
    BY <1>2
  <1>4. n \in Nat
    BY <1>3, NextStore
  <1>5. poll' = poll
    BY DEF EmuStep, Unmoved, Begin, Decide, LoopTest, CheckBreakpoint, Step, TestSingle, After,
           NotifyStore, FreeStep, FreeEnd, TakeInterrupt, TestSleeping, Wake
  <1>6. Types' /\ J(d, n)'
    BY <1>1, <1>3, <1>4, BeginKeeps, DecideKeeps, LoopTestKeeps, CheckBreakpointKeeps, StepKeeps,
       TestSingleKeeps, AfterKeeps, NotifyStoreKeeps, FreeStepKeeps, FreeEndKeeps,
       TakeInterruptKeeps, TestSleepingKeeps, WakeKeeps DEF EmuStep
  <1> QED
    BY <1>3, <1>5, <1>6, KeepsOn

\* A packet leaves core 0 with the stores of its handler to do.
LEMMA HandlePacketKeeps ==
    ASSUME IInv, HandlePacket
    PROVE  IInv'
  <1>1. Types
    BY DEF IInv
  <1>2. PICK d \in Doing, a \in Addr : \E n \in 0..Len(Program(d, a)) :
                  poll = Left(Program(d, a), n) /\ J(d, n)
    BY DEF IInv
  <1>3. PICK n \in 0..Len(Program(d, a)) : poll = Left(Program(d, a), n) /\ J(d, n)
    BY <1>2
  <1>4. n = 0 /\ \E cmd \in Command : Handled(cmd) /\ poll' = Handling(cmd)
    BY <1>1, <1>3, HandlePacketFacts
  <1>5. PICK cmd \in Command : Handled(cmd) /\ poll' = Handling(cmd)
    BY <1>4
  <1>6. J(d, 0)
    BY <1>3, <1>4
  <1>7. 0 \in Addr
    BY FirmwareAssumption
  <1>8. ASSUME NEW b \in Addr, NEW m \in Nat, cmd.op \in Doing, Handling(cmd) = Program(cmd.op, b),
               Len(Program(cmd.op, b)) = m, Types', J(cmd.op, m)'
        PROVE  IInv'
    <2>1. Left(Program(cmd.op, b), Len(Program(cmd.op, b))) = Program(cmd.op, b)
      BY <1>8, AllLeft
    <2>2. poll' = Program(cmd.op, b)
      BY <1>5, <1>8, Zenon
    <2>3. poll' = Left(Program(cmd.op, b), m)
      BY <1>8, <2>1, <2>2, Zenon
    <2>4. m \in 0..Len(Program(cmd.op, b))
      BY <1>8
    <2> QED
      BY <1>8, <2>3, <2>4, KeepsOn
  <1>9. CASE cmd.op \in Told
    <2>1. cmd.op \in {"c", "s"} /\ cmd.op \in Doing
      BY <1>9 DEF Told, Doing
    <2>2. Handling(cmd) = Program(cmd.op, 0)
      BY <2>1 DEF Handling, Program
    <2>3. Len(Program(cmd.op, 0)) = (IF cmd.op = "c" THEN 4 ELSE 3)
      BY <2>1, CommandStores
    <2>4. (IF cmd.op = "c" THEN 4 ELSE 3) \in Nat
      OBVIOUS
    <2>5. Types' /\ J(cmd.op, IF cmd.op = "c" THEN 4 ELSE 3)'
      BY <1>1, <1>5, <1>6, <1>9, ResumeHandled
    <2> QED
      BY <1>7, <1>8, <2>1, <2>2, <2>3, <2>4, <2>5
  <1>10. CASE cmd.op = "INT"
    <2>1. cmd.op \in Doing
      BY <1>10 DEF Doing
    <2>2. Handling(cmd) = Program(cmd.op, 0)
      BY <1>10 DEF Handling, Program
    <2>3. Len(Program("INT", 0)) = 3
      BY InterruptStores, StoppingStores
    <2>4. Types' /\ J("INT", 3)'
      BY <1>1, <1>5, <1>6, <1>10, InterruptHandled
    <2>5. Len(Program(cmd.op, 0)) = 3 /\ J(cmd.op, 3)'
      BY <1>10, <2>3, <2>4
    <2> QED
      BY <1>7, <1>8, <2>1, <2>2, <2>4, <2>5
  <1>11. CASE cmd.op \in {"Z", "z"}
    <2>1. cmd.op \in Doing /\ cmd.addr \in Addr
      BY <1>11 DEF Doing, Command
    <2>2. Handling(cmd) = Program(cmd.op, cmd.addr)
      BY <1>11 DEF Handling, Program
    <2>3. Len(Program(cmd.op, cmd.addr)) = 2
      BY <1>11, CommandStores
    <2>4. Types' /\ J(cmd.op, 2)'
      BY <1>1, <1>5, <1>6, <1>11, PlantHandled
    <2> QED
      BY <1>8, <2>1, <2>2, <2>3, <2>4
  <1>12. CASE cmd.op \in End
    <2>1. cmd.op \in {"D", "EOF"} /\ cmd.op \in Doing
      BY <1>12 DEF End, Doing
    <2>2. Handling(cmd) = Program(cmd.op, 0)
      BY <2>1 DEF Handling, Program
    <2>3. Len(Program("D", 0)) = 4 /\ Len(Program("EOF", 0)) = 3
      BY DetachStores, CommandStores
    <2>4. PICK m \in Nat : Len(Program(cmd.op, 0)) = m
      BY <2>1, <2>3
    <2>5. Types' /\ J(cmd.op, m)'
      BY <1>1, <1>5, <1>6, <1>12, EndHandled
    <2> QED
      BY <1>7, <1>8, <2>1, <2>2, <2>4, <2>5
  <1> QED
    BY <1>9, <1>10, <1>11, <1>12 DEF Command, Told, End

\* Core 0's stores keep the invariant.
LEMMA PollStoreKeeps ==
    ASSUME IInv, PollStore
    PROVE  IInv'
  <1>1. Types
    BY DEF IInv
  <1>2. PICK d \in Doing, a \in Addr : \E n \in 0..Len(Program(d, a)) :
                  poll = Left(Program(d, a), n) /\ J(d, n)
    BY DEF IInv
  <1>3. PICK n \in 0..Len(Program(d, a)) : poll = Left(Program(d, a), n) /\ J(d, n)
    BY <1>2
  <1> DEFINE L == Len(Program(d, a))
  <1>4. /\ n > 0 /\ n - 1 \in 0..L
        /\ poll' = Left(Program(d, a), n - 1)
        /\ Perform(Program(d, a)[L - n + 1])
        /\ emu' = emu /\ toStub' = toStub
    BY <1>3, PollStoreFacts
  <1>5. L \in Nat
    BY AllLeft
  <1>6. n \in 1..L
    BY <1>4, <1>5
  <1>7. Types' /\ J(d, n - 1)'
    <2>1. CASE d = "accept"
      <3>1. Program(d, a) = Program("accept", 0)
        BY <2>1, InterruptStores, Zenon
      <3>2. Len(Program("accept", 0)) = 12
        BY AcceptingStores, InterruptStores
      <3>3. L = 12
        BY <3>1, <3>2, Zenon
      <3>4. Perform(Program("accept", 0)[12 - n + 1])
        BY <1>4, <3>1, <3>3, Zenon
      <3>5. n \in 1..12 /\ J("accept", n)
        BY <1>3, <1>6, <2>1, <3>3
      <3>6. Types' /\ J("accept", n - 1)'
        BY <1>1, <1>4, <3>4, <3>5, AcceptStores
      <3> QED
        BY <2>1, <3>6
    <2>2. CASE d = "c"
      <3>1. L = 4
        BY <2>2, CommandStores
      <3>2. n \in 1..4 /\ J("c", n)
        BY <1>3, <1>6, <2>2, <3>1
      <3>3. Perform(Program("c", a)[4 - n + 1])
        BY <1>4, <2>2, <3>1, Zenon
      <3>4. Types' /\ J("c", n - 1)'
        BY <1>1, <1>4, <3>2, <3>3, ContinueKeepsOn
      <3> QED
        BY <2>2, <3>4
    <2>3. CASE d = "s"
      <3>1. L = 3
        BY <2>3, CommandStores
      <3>2. n \in 1..3 /\ J("s", n)
        BY <1>3, <1>6, <2>3, <3>1
      <3>3. Perform(Program("s", a)[3 - n + 1])
        BY <1>4, <2>3, <3>1, Zenon
      <3>4. Types' /\ J("s", n - 1)'
        BY <1>1, <1>4, <3>2, <3>3, StepKeepsOn
      <3> QED
        BY <2>3, <3>4
    <2>4. CASE d \in {"Z", "z"}
      <3>1. L = 2
        BY <2>4, CommandStores
      <3>2. n \in 1..2 /\ J(d, n)
        BY <1>3, <1>6, <3>1
      <3>3. Perform(Program(d, a)[2 - n + 1])
        BY <1>4, <3>1, Zenon
      <3> QED
        BY <1>1, <1>4, <2>4, <3>2, <3>3, PlantKeepsOn
    <2>5. CASE d = "INT"
      <3>1. L = 3
        <4>1. Program(d, a) = Stopping("S02")
          BY <2>5, InterruptStores, Zenon
        <4>2. Len(Stopping("S02")) = 3
          BY StoppingStores
        <4> QED
          BY <4>1, <4>2, Zenon
      <3>2. n \in 1..3 /\ J("INT", n)
        BY <1>3, <1>6, <2>5, <3>1
      <3>3. Perform(Program("INT", a)[3 - n + 1])
        BY <1>4, <2>5, <3>1, Zenon
      <3>4. Types' /\ J("INT", n - 1)'
        BY <1>1, <1>4, <3>2, <3>3, InterruptKeepsOn
      <3> QED
        BY <2>5, <3>4
    <2>6. CASE d = "D"
      <3>1. L = 4
        BY <2>6, DetachStores
      <3>2. n \in 1..4 /\ J("D", n)
        BY <1>3, <1>6, <2>6, <3>1
      <3>3. Perform(Program("D", a)[4 - n + 1])
        BY <1>4, <2>6, <3>1, Zenon
      <3>4. Types' /\ J("D", n - 1)'
        BY <1>1, <1>4, <3>2, <3>3, DetachKeeps
      <3> QED
        BY <2>6, <3>4
    <2>7. CASE d = "EOF"
      <3>1. L = 3
        BY <2>7, CommandStores
      <3>2. n \in 1..3 /\ J("EOF", n)
        BY <1>3, <1>6, <2>7, <3>1
      <3>3. Perform(Program("EOF", a)[3 - n + 1])
        BY <1>4, <2>7, <3>1, Zenon
      <3>4. Types' /\ J("EOF", n - 1)'
        BY <1>1, <1>4, <3>2, <3>3, EndOfFileKeeps
      <3> QED
        BY <2>7, <3>4
    <2> QED
      BY <2>1, <2>2, <2>3, <2>4, <2>5, <2>6, <2>7 DEF Doing
  <1> QED
    BY <1>4, <1>7, KeepsOn

\* ... and an accept gives it all the stores of Accepting to do.
LEMMA AcceptKeepsOn ==
    ASSUME IInv, Accept
    PROVE  IInv'
  <1>1. Types
    BY DEF IInv
  <1>2. PICK d \in Doing, a \in Addr : \E n \in 0..Len(Program(d, a)) :
                  poll = Left(Program(d, a), n) /\ J(d, n)
    BY DEF IInv
  <1>3. PICK n \in 0..Len(Program(d, a)) : poll = Left(Program(d, a), n) /\ J(d, n)
    BY <1>2
  <1>4. n \in Nat
    BY <1>3, NextStore
  <1>5. Types' /\ J("accept", 12)' /\ poll' = Left(Program("accept", 0), 12)
    BY <1>1, <1>3, <1>4, AcceptKeeps
  <1>6. Len(Program("accept", 0)) = 12
    BY AcceptingStores, InterruptStores
  <1>7. "accept" \in Doing /\ 0 \in Addr
    BY FirmwareAssumption DEF Doing
  <1>8. PICK m : m = 12
    OBVIOUS
  <1>9. Types' /\ J("accept", m)' /\ poll' = Left(Program("accept", 0), m)
    BY <1>5, <1>8
  <1>10. m \in 0..Len(Program("accept", 0))
    <2>1. m \in 0..12
      BY <1>8
    <2> QED
      BY <1>6, <2>1, Zenon
  <1> QED
    BY <1>7, <1>9, <1>10, KeepsOn

\* A step that changes nothing.
LEMMA StutterKeeps ==
    ASSUME IInv, UNCHANGED vars
    PROVE  IInv'
  <1>1. Types
    BY DEF IInv
  <1>2. PICK d \in Doing, a \in Addr : \E n \in 0..Len(Program(d, a)) :
                  poll = Left(Program(d, a), n) /\ J(d, n)
    BY DEF IInv
  <1>3. PICK n \in 0..Len(Program(d, a)) : poll = Left(Program(d, a), n) /\ J(d, n)
    BY <1>2
  <1>4. /\ shared' = shared /\ poll' = poll /\ emu' = emu /\ toStub' = toStub
        /\ toClient' = toClient /\ client' = client /\ hist' = hist
    BY DEF vars
  <1>5. Types'
    BY <1>1, <1>4 DEF Types
  <1>6. (Connections(d, n) /\ Untold(d, n) /\ Talk(d, n))'
    BY <1>3, <1>4 DEF J, Connections, Untold, Paused, Talk, InStep, OnlyInterrupts, OneOf, Settled
  <1>7. Alone /\ (InStep' => InStep)
    BY <1>4 DEF Alone, InStep
  <1>8. n \in Nat
    BY <1>3, NextStore
  <1>9. J(d, n)'
    BY <1>3, <1>6, <1>7, <1>8, StayingInStep DEF J
  <1> QED
    BY <1>3, <1>4, <1>5, <1>9, KeepsOn

\* IInv is inductive.
LEMMA Invariance == Spec => []IInv
  <1>1. ASSUME IInv, [Next]_vars PROVE IInv'
    BY <1>1, ClientStepKeeps, EmuStepKeeps, HandlePacketKeeps, PollStoreKeeps, AcceptKeepsOn, StutterKeeps
       DEF Next, PollStep
  <1> QED
    BY InitGood, <1>1, PTL DEF Spec

\* Every variable has its type, whatever the two cores and the debugger do.
THEOREM TypeCorrect == Spec => []TypeOK
  <1>1. IInv => TypeOK
    BY DEF IInv, Types, TypeOK, SharedType, EmuType, ClientType, HistType
  <1> QED
    BY Invariance, <1>1, PTL

\* Of core 0's stores none reports a stop of the emulated core.
LEMMA PollReportsNothing ==
    ASSUME IInv, PollStore, hist.mode \in Told
    PROVE  hist'.mode # "S05"
  <1>1. Types
    BY DEF IInv
  <1>2. PICK d \in Doing, a \in Addr : \E n \in 0..Len(Program(d, a)) :
                  poll = Left(Program(d, a), n) /\ J(d, n)
    BY DEF IInv
  <1>3. PICK n \in 0..Len(Program(d, a)) : poll = Left(Program(d, a), n) /\ J(d, n)
    BY <1>2
  <1> DEFINE p == Program(d, a)
             k == Len(p) - n + 1
  <1>4. n > 0 /\ Perform(p[k])
    BY <1>3, PollStoreFacts
  <1>5. Len(p) \in Nat
    BY AllLeft
  <1>6. k \in 1..Len(p)
    BY <1>4, <1>5
  <1> HIDE DEF p, k
  <1>7. \/ \E f, v : p[k] = Put(f, v)
        \/ p[k] \in {Mark, Wait, Ready, Plant(a), Clear(a), Send("OK"), Send("S02")}
    <2>1. CASE d = "accept"
      <3>1. p = Accepting
        BY <2>1, InterruptStores, Zenon DEF p
      <3>2. k \in 1..12
        BY <1>6, <3>1, AcceptingStores
      <3>3. \A i \in 1..12 : (\E f, v : Accepting[i] = Put(f, v)) \/ Accepting[i] \in {Wait, Ready}
        <4>1. \A i \in {1, 2, 3, 4, 5, 6, 7, 9, 10, 11} : \E f, v : Accepting[i] = Put(f, v)
          BY AcceptingStores, Zenon
        <4>2. Accepting[8] = Wait /\ Accepting[12] = Ready
          BY AcceptingStores
        <4>3. 1..12 = {1, 2, 3, 4, 5, 6, 7, 9, 10, 11} \cup {8, 12}
          OBVIOUS
        <4> QED
          BY <4>1, <4>2, <4>3
      <3> QED
        BY <3>1, <3>2, <3>3
    <2>2. CASE d \in {"c", "s"}
      <3>1. p = Program(d, a)
        BY DEF p
      <3>2. \/ Len(p) = 4 /\ p[1] = Put("single", FALSE) /\ p[2] = Mark
               /\ p[3] = Put("running", TRUE) /\ p[4] = Put("state", "RUNNING")
            \/ Len(p) = 3 /\ p[1] = Put("single", TRUE)
               /\ p[2] = Put("running", TRUE) /\ p[3] = Put("state", "RUNNING")
        BY <2>2, <3>1, CommandStores
      <3>3. k \in {1, 2, 3} \/ (Len(p) = 4 /\ k = 4)
        <4>1. Len(p) = 3 \/ Len(p) = 4
          BY <3>2, Zenon
        <4>2. Len(p) = 3 => k \in {1, 2, 3}
          BY <1>6
        <4>3. Len(p) = 4 => k \in {1, 2, 3, 4}
          BY <1>6
        <4> QED
          BY <4>1, <4>2, <4>3
      <3>4. (\E f, v : p[1] = Put(f, v)) /\ (\E f, v : p[3] = Put(f, v))
            /\ (p[2] = Mark \/ \E f, v : p[2] = Put(f, v))
            /\ (Len(p) = 4 => \E f, v : p[4] = Put(f, v))
        <4>1. Len(p) = 3 => Len(p) # 4
          OBVIOUS
        <4> QED
          BY <3>2, <4>1, Zenon
      <3>5. CASE k = 1
        BY <3>4, <3>5, Zenon
      <3>6. CASE k = 2
        BY <3>4, <3>6
      <3>7. CASE k = 3
        BY <3>4, <3>7, Zenon
      <3>8. CASE Len(p) = 4 /\ k = 4
        BY <3>4, <3>8, Zenon
      <3> QED
        BY <3>3, <3>5, <3>6, <3>7, <3>8
    <2>3. CASE d \in {"Z", "z"}
      <3>1. Len(p) = 2 /\ p[1] \in {Plant(a), Clear(a)} /\ p[2] = Send("OK")
        BY <2>3, CommandStores DEF p
      <3>2. k \in {1, 2}
        BY <1>6, <3>1
      <3> QED
        BY <3>1, <3>2
    <2>4. CASE d = "INT"
      <3>1. p = Stopping("S02")
        BY <2>4, InterruptStores, Zenon DEF p
      <3>2. Len(p) = 3 /\ p[1] = Put("running", FALSE) /\ p[2] = Put("single", FALSE) /\ p[3] = Send("S02")
        BY <3>1, StoppingStores
      <3>3. k \in {1, 2, 3}
        BY <1>6, <3>2
      <3> QED
        BY <3>2, <3>3, Zenon
    <2>5. CASE d \in {"D", "EOF"}
      <3>1. /\ Len(p) \in {3, 4} /\ p[1] = Put("client", FALSE)
            /\ p[2] = Put("running", TRUE) /\ p[3] = Put("single", FALSE)
            /\ Len(p) = 4 => p[4] = Put("bps", {})
        BY <2>5, CommandStores, DetachStores DEF p
      <3>2. k = 1 \/ k = 2 \/ k = 3 \/ (Len(p) = 4 /\ k = 4)
        <4>1. Len(p) = 3 \/ Len(p) = 4
          BY <3>1
        <4>2. Len(p) = 3 => k \in {1, 2, 3}
          BY <1>6
        <4>3. Len(p) = 4 => k \in {1, 2, 3, 4}
          BY <1>6
        <4> QED
          BY <4>1, <4>2, <4>3
      <3>3. \E f, v : p[k] = Put(f, v)
        BY <3>1, <3>2, Zenon
      <3> QED
        BY <3>3
    <2> QED
      BY <2>1, <2>2, <2>3, <2>4, <2>5 DEF Doing
  <1>8. \A r \in {"OK", "S02"} : Perform(Send(r)) => hist' = hist
    BY Performs DEF Sends
  <1>9. CASE hist' = hist
    BY <1>9 DEF Told
  <1>10. CASE hist' = Asked("none", 0)
    BY <1>10 DEF Asked
  <1> QED
    BY <1>4, <1>7, <1>8, <1>9, <1>10, Performs

\* Core 1 executes what it has been told to.
LEMMA ExecutesRight == IInv => ExecutesWhenTold
  <1> SUFFICES ASSUME IInv, Instruction
               PROVE  /\ hist.mode # "none"
                      /\ InStep => \/ hist.mode = "c" /\ (shared.pc \in shared.bps => hist.trail \subseteq {shared.pc})
                                   \/ hist.mode = "s" /\ hist.executed = 0
                                   \/ hist.mode = "INT"
    BY DEF ExecutesWhenTold
  <1>1. Types
    BY DEF IInv
  <1>2. PICK d \in Doing, n \in Nat : J(d, n)
    <2>1. PICK d \in Doing, a \in Addr : \E n \in 0..Len(Program(d, a)) : J(d, n)
      BY DEF IInv
    <2>2. Len(Program(d, a)) \in Nat
      BY AllLeft
    <2> QED
      BY <2>1, <2>2
  <1>3. emu.at \in {"step", "free"}
    BY DEF Instruction, Step, FreeStep
  <1>4. hist.mode # "none"
    BY <1>2, <1>3 DEF J, Untold
  <1>5. ASSUME InStep
        PROVE  \/ hist.mode = "c" /\ (shared.pc \in shared.bps => hist.trail \subseteq {shared.pc})
               \/ hist.mode = "s" /\ hist.executed = 0
               \/ hist.mode = "INT"
    <2>1. emu.at = "step" /\ hist.mode # "S05"
      BY <1>2, <1>3, <1>5 DEF J, Resting
    <2>2. hist.mode \in {"c", "s", "INT"}
      BY <1>1, <1>2, <1>4, <1>5, <2>1 DEF J, Connections, InStep, Session, Types, HistType
    <2>3. ~Starting(d, n)
      BY <1>2, <1>5, <2>1 DEF J, Begins
    <2>4. hist.mode = "s" => hist.executed = 0
      BY <1>2, <1>5, <2>1, <2>3 DEF J, Steps
    <2>5. ASSUME hist.mode = "c", shared.pc \in shared.bps PROVE hist.trail \subseteq {shared.pc}
      <3>1. shared.resume = shared.pc
        BY <1>2, <1>5, <2>1, <2>3, <2>5 DEF J, Continues
      <3>2. shared.resume # None
        BY <1>1, <3>1, FirmwareAssumption DEF Types, SharedType, None
      <3> QED
        BY <1>2, <1>5, <2>3, <2>5, <3>1, <3>2 DEF J, Continues
    <2> QED
      BY <2>2, <2>4, <2>5
  <1> QED
    BY <1>4, <1>5

\* A stop that core 1 reports is due.
LEMMA StopsRight == IInv /\ [Next]_vars => StopIsDue
  <1> SUFFICES ASSUME IInv, [Next]_vars, hist.mode \in Told, hist'.mode = "S05", ~client'.odd
               PROVE  IF hist.mode = "c" THEN hist.executed > 0 \/ shared.pc # hist.from
                                         ELSE hist.executed = 1 \/ shared.pc \in shared.bps
    BY DEF StopIsDue, StopReported, Told
  <1>1. Types
    BY DEF IInv
  <1>2. PICK d \in Doing, n \in Nat : J(d, n)
    <2>1. PICK d \in Doing, a \in Addr : \E n \in 0..Len(Program(d, a)) : J(d, n)
      BY DEF IInv
    <2>2. Len(Program(d, a)) \in Nat
      BY AllLeft
    <2> QED
      BY <2>1, <2>2
  <1>3. hist' # hist /\ hist.mode # "S05"
    BY DEF Told
  <1>4. NotifyStore
    <2>1. ~ClientStep
      BY <1>3 DEF ClientStep, Connect, AskAny, Ask, Interrupt, Leave, TakeReply
    <2>2. ~Accept
      BY <1>3 DEF Accept
    <2>3. ~HandlePacket
      <3> SUFFICES ASSUME HandlePacket PROVE FALSE
        OBVIOUS
      <3>1. \E op \in {"c", "s", "INT", "free"} : \E pc : hist' = Asked(op, pc)
        BY <1>3 DEF HandlePacket
      <3> QED
        BY <3>1 DEF Asked
    <2>4. ~PollStore
      BY PollReportsNothing
    <2>5. ~(Step \/ FreeStep)
      <3>1. Executes => hist'.mode = hist.mode
        BY <1>1, ExecutedFacts
      <3> QED
        BY <1>3, <3>1 DEF Step, FreeStep
    <2>6. ~(Begin \/ Decide \/ LoopTest \/ CheckBreakpoint \/ TestSingle \/ After \/ FreeEnd
            \/ TakeInterrupt \/ TestSleeping \/ Wake)
      BY <1>3 DEF Begin, Decide, LoopTest, CheckBreakpoint, TestSingle, After, FreeEnd, TakeInterrupt,
                  TestSleeping, Wake
    <2> QED
      BY <1>3, <2>1, <2>2, <2>3, <2>4, <2>5, <2>6 DEF Next, PollStep, EmuStep, vars
  <1>5. emu.at = "notify" /\ Perform(Head(emu.todo))
    BY <1>4 DEF NotifyStore
  <1>6. Sends("S05")
    <2>1. \/ \E f, v : Head(emu.todo) = Put(f, v)
          \/ Head(emu.todo) = Send("S05")
      BY <1>1, <1>5, NextNotice, Zenon
    <2> QED
      BY <1>3, <1>5, <2>1, Performs
  <1>7. InStep
    <2>1. shared.client /\ ~Gone /\ client' = [client EXCEPT !.odd = client.odd \/ ("S05" \in Stops /\ Unasked)]
      BY <1>3, <1>6 DEF Sends
    <2>2. PICK b : b = (client.odd \/ ("S05" \in Stops /\ Unasked))
      OBVIOUS
    <2>3. client'.odd = b
      BY <1>1, <2>1, <2>2 DEF Types, ClientType
    <2>4. ~client.odd /\ ~Unasked
      BY <2>2, <2>3 DEF Stops
    <2> QED
      BY <2>4 DEF Unasked, InStep
  <1>8. ~Starting(d, n)
    BY <1>2, <1>5, <1>7 DEF J, Begins
  <1>9. hist.mode = "c" => hist.executed > 0 \/ shared.pc # hist.from
    BY <1>2, <1>5, <1>7, <1>8 DEF J, Continues
  <1>10. hist.mode = "s" => hist.executed = 1 \/ shared.pc \in shared.bps
    BY <1>2, <1>5, <1>7, <1>8 DEF J, Steps
  <1> QED
    BY <1>9, <1>10 DEF Told

\* Core 1 executes what the debugger has asked for, no more and, when it reports a
\* stop, no less (gdb_stub.c:206-228, main.c:230-239), for every firmware, every length
\* of a batch and every order in which the stores of the two cores meet.
THEOREM DoesWhatIsAskedCorrect == Spec => DoesWhatIsAsked
  <1>1. IInv /\ [Next]_vars => [ExecutesWhenTold /\ StopIsDue]_vars
    BY ExecutesRight, StopsRight
  <1> QED
    BY Invariance, <1>1, PTL DEF Spec, DoesWhatIsAsked
=============================================================================
