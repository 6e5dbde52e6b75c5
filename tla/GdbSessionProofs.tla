-------------------------- MODULE GdbSessionProofs --------------------------
(***************************************************************************)
(* Proofs about GdbSession, for every firmware, every size of the          *)
(* breakpoint table and of a batch, and sessions of any length, one after  *)
(* the other.  What is on its way in both directions is determined by what *)
(* the debugger is waiting for (Talk), as long as no interrupt has crossed *)
(* a stop; the table agrees with what the debugger will believe once it    *)
(* has read its reply (Table).                                             *)
(***************************************************************************)
EXTENDS GdbSession, FiniteSetTheorems, WellFoundedInduction, SequenceTheorems, TLAPS

StubType == [client : BOOLEAN, running : BOOLEAN, single : BOOLEAN,
             resume : Addr \cup {None}, bps : Seq(Addr)]
CoreType == [state : {"RUNNING", "SLEEPING", "HALTED", "BREAK"}, pc : Addr]
LoopType == [at : {"poll", "idle", "batch"}, i : 0..StepBatch]
ClientType == [view : {"absent", "connecting", "stopped", "asking", "waiting"},
               asked : [op : {"none", "Z", "z"}, addr : Addr],
               planted : [Addr -> Nat], intr : BOOLEAN, crossed : BOOLEAN]
HistType == [mode : {"none", "c", "s", "detached", "lost"},
             executed : 0..2, trail : SUBSET Addr]

\* The commands that end a session: one of them is the last command of a debugger
\* that has gone, and there is none before it.
End == {"D", "k", "EOF"}

Sessions ==
    /\ ~stub.client => Len(toStub) = 0 /\ ~Attached
    /\ ~Attached => Len(toClient) = 0
    /\ stub.client /\ ~Attached => Len(toStub) > 0
    /\ stub.client => \A i \in 1..Len(toStub) :
                          toStub[i].op \in End <=> ~Attached /\ i = Len(toStub)

\* After n commands only the interrupt is in the socket, if one was sent.
Interrupts(n) ==
    /\ Len(toStub) = n + (IF client.intr THEN 1 ELSE 0)
    /\ client.intr => toStub[n + 1].op = "INT"

Talk ==
    Attached /\ ~client.crossed =>
        /\ client.view # "waiting" => ~client.intr /\ ~stub.running
        /\ client.view = "stopped" => Len(toStub) = 0 /\ Len(toClient) = 0
        /\ client.view = "asking" =>
               \/ /\ Len(toStub) = 1 /\ Len(toClient) = 0
                  /\ \/ toStub[1] = client.asked
                     \/ toStub[1].op = "G" /\ client.asked.op = "none"
               \/ Len(toStub) = 0 /\ Len(toClient) = 1 /\ toClient[1] \in {"OK", "E01"}
        /\ client.view = "waiting" =>
               \/ /\ Interrupts(1) /\ toStub[1].op \in {"c", "s"} /\ Len(toClient) = 0
                  /\ ~stub.running
               \/ Interrupts(0) /\ Len(toClient) = 0 /\ stub.running
               \/ Interrupts(0) /\ Len(toClient) = 1 /\ toClient[1] = "S05" /\ ~stub.running
               \/ /\ client.intr /\ Len(toStub) = 0 /\ ~stub.running
                  /\ \/ Len(toClient) = 1 /\ toClient[1] = "S02"
                     \/ Len(toClient) = 2 /\ toClient[1] = "S05" /\ toClient[2] = "S02"

\* What a reply on its way will make the debugger change about address a.
Change(a) ==
    IF /\ client.view = "asking" /\ Len(toClient) = 1 /\ toClient[1] = "OK"
       /\ client.asked.addr = a
    THEN IF client.asked.op = "Z" THEN 1 ELSE IF client.asked.op = "z" THEN 0 - 1 ELSE 0
    ELSE 0

Table ==
    /\ Len(stub.bps) <= MaxBp
    /\ Attached /\ ~client.crossed =>
           \A a \in Addr : Count(stub.bps, a) = client.planted[a] + Change(a)
    /\ client.view = "asking" /\ client.asked.op = "z" =>
           client.planted[client.asked.addr] > 0

\* The stub, the loop and what has been executed.
Running ==
    /\ ~stub.running => loop.at = "poll" /\ ~stub.single
    /\ stub.single => /\ hist.mode = "s" /\ hist.executed = 0
                      /\ core.state = "RUNNING" /\ loop.at # "idle"
    /\ hist.mode = "s" => stub.single \/ (~stub.running /\ hist.executed <= 1)
    /\ stub.resume # None => hist.trail \subseteq {stub.resume}

IInv == TypeOK /\ Sessions /\ Talk /\ Table /\ Running
-----------------------------------------------------------------------------
(***************************************************************************)
(* Sequences.                                                              *)
(***************************************************************************)
LEMMA AppendFacts ==
    ASSUME NEW S, NEW q \in Seq(S), NEW e \in S, NEW r, r = Append(q, e)
    PROVE  /\ r \in Seq(S) /\ Len(r) = Len(q) + 1 /\ Len(q) \in Nat
           /\ r[Len(q) + 1] = e /\ \A i \in 1..Len(q) : r[i] = q[i]
           /\ Len(q) = 0 => r[1] = e
           /\ Len(q) = 1 => r[1] = q[1] /\ r[2] = e
  OBVIOUS

LEMMA TailFacts ==
    ASSUME NEW S, NEW q \in Seq(S), q # <<>>, NEW r, r = Tail(q)
    PROVE  /\ r \in Seq(S) /\ Len(q) \in Nat \ {0} /\ Len(r) = Len(q) - 1
           /\ Head(q) = q[1] /\ q[1] \in S
           /\ \A i \in 1..Len(r) : r[i] = q[i + 1]
           /\ Len(q) > 1 => r[1] = q[2]
  OBVIOUS

LEMMA EmptyFacts ==
    /\ \A S : <<>> \in Seq(S)
    /\ Len(<<>>) = 0
    /\ \A S : \A q \in Seq(S) : Len(q) \in Nat /\ (Len(q) = 0 <=> q = <<>>)
  BY EmptySeq

\* A sequence and what is appended to it differ, by length or by the last element.
LEMMA AppendDiffers ==
    ASSUME NEW S, NEW q \in Seq(S), NEW e \in S, NEW f \in S
    PROVE  /\ q # Append(q, e)
           /\ <<>> # Append(q, e)
           /\ q # <<>> => Tail(q) # Append(q, e)
           /\ e # f => Append(q, f) # Append(q, e)
  <1>1. Len(Append(q, e)) = Len(q) + 1 /\ Len(q) \in Nat
    OBVIOUS
  <1>2. q # <<>> => Len(Tail(q)) = Len(q) - 1
    OBVIOUS
  <1>3. Append(q, e)[Len(q) + 1] = e /\ Append(q, f)[Len(q) + 1] = f
    OBVIOUS
  <1>4. Len(<<>>) = 0
    OBVIOUS
  <1> QED
    BY <1>1, <1>2, <1>3, <1>4

\* A set of numbers that is not empty has a least member.
LEMMA LeastNumber ==
    ASSUME NEW T \in SUBSET Nat, T # {}
    PROVE  \E n \in T : \A m \in T : n <= m
  <1> DEFINE Less == {p \in Nat \X Nat : p[1] < p[2]}
  <1>1. IsWellFoundedOn(Less, Nat)
    BY NatLessThanWellFounded DEF OpToRel
  <1>2. ASSUME NEW n \in T, NEW m \in T, ~ (<<m, n>> \in Less)
        PROVE  n <= m
    <2>1. n \in Nat /\ m \in Nat
      OBVIOUS
    <2>2. ~ (m < n)
      BY <1>2, <2>1
    <2> QED
      BY <2>1, <2>2
  <1> HIDE DEF Less
  <1>3. \E n \in T : \A m \in T : ~ (<<m, n>> \in Less)
    BY <1>1, WFMin, Zenon
  <1> QED
    BY <1>2, <1>3
-----------------------------------------------------------------------------
(***************************************************************************)
(* The breakpoint table.                                                   *)
(***************************************************************************)
\* The places of a in s.
Places(s, a) == {i \in 1..Len(s) : s[i] = a}

LEMMA PlacesFacts ==
    ASSUME NEW S, NEW s \in Seq(S), NEW a
    PROVE  /\ Count(s, a) = Cardinality(Places(s, a))
           /\ IsFiniteSet(Places(s, a)) /\ Count(s, a) \in Nat
           /\ Count(s, a) > 0 => Places(s, a) # {}
  <1>1. DOMAIN s = 1..Len(s) /\ Len(s) \in Nat
    OBVIOUS
  <1>2. Count(s, a) = Cardinality(Places(s, a))
    BY <1>1 DEF Count, Places
  <1>3. IsFiniteSet(1..Len(s))
    BY <1>1, FS_Interval
  <1>4. IsFiniteSet(Places(s, a))
    BY <1>3, FS_Subset DEF Places
  <1>5. Cardinality(Places(s, a)) \in Nat
    BY <1>4, FS_CardinalityType
  <1>6. Places(s, a) = {} => Cardinality(Places(s, a)) = 0
    BY FS_EmptySet
  <1> QED
    BY <1>2, <1>4, <1>5, <1>6

LEMMA CountEmpty == \A a : Count(<<>>, a) = 0
  <1> SUFFICES ASSUME NEW a
               PROVE  Count(<<>>, a) = 0
    OBVIOUS
  <1>1. <<>> \in Seq({a}) /\ Len(<<>>) = 0
    BY EmptyFacts
  <1>2. Places(<<>>, a) = {}
    BY <1>1 DEF Places
  <1> QED
    BY <1>1, <1>2, PlacesFacts, FS_EmptySet

LEMMA CountAppend ==
    ASSUME NEW S, NEW s \in Seq(S), NEW c \in S, NEW a
    PROVE  Count(Append(s, c), a) = Count(s, a) + (IF a = c THEN 1 ELSE 0)
  <1> DEFINE t == Append(s, c)
             n == Len(s) + 1
  <1>1. /\ t \in Seq(S) /\ Len(t) = n /\ Len(s) \in Nat /\ t[n] = c
        /\ \A i \in 1..Len(s) : t[i] = s[i]
    BY AppendFacts
  <1> HIDE DEF t
  <1>2. n \notin Places(s, a)
    BY <1>1 DEF Places
  <1>3. /\ Count(t, a) = Cardinality(Places(t, a))
        /\ Count(s, a) = Cardinality(Places(s, a))
        /\ IsFiniteSet(Places(s, a)) /\ Count(s, a) \in Nat
    BY <1>1, PlacesFacts
  <1>4. CASE a = c
    <2>1. Places(t, a) = Places(s, a) \cup {n}
      BY <1>1, <1>4 DEF Places
    <2>2. Cardinality(Places(s, a) \cup {n}) = Cardinality(Places(s, a)) + 1
      BY <1>2, <1>3, FS_AddElement
    <2> QED
      BY <1>3, <1>4, <2>1, <2>2 DEF t
  <1>5. CASE a # c
    <2>1. Places(t, a) = Places(s, a)
      BY <1>1, <1>5 DEF Places
    <2>2. Count(t, a) = Count(s, a)
      BY <1>3, <2>1
    <2> QED
      BY <1>3, <1>5, <2>2 DEF t
  <1> QED
    BY <1>4, <1>5

\* The entry at k is overwritten by the last one, and the table cut.
LEMMA CountCut ==
    ASSUME NEW S, NEW s \in Seq(S), NEW k \in 1..Len(s), NEW a,
           NEW t, t = Front([s EXCEPT ![k] = Last(s)])
    PROVE  /\ t \in Seq(S) /\ Len(t) = Len(s) - 1
           /\ Count(t, a) = Count(s, a) - (IF a = s[k] THEN 1 ELSE 0)
  <1> DEFINE n == Len(s)
             u == [s EXCEPT ![k] = Last(s)]
             m == n - 1
  <1>1. n \in Nat /\ n > 0 /\ n \in 1..n /\ m \in Nat /\ Last(s) = s[n] /\ s[n] \in S
    BY DEF Last
  <1>2. /\ u \in Seq(S) /\ Len(u) = n
        /\ u[k] = s[n] /\ \A i \in 1..n : i # k => u[i] = s[i]
    BY <1>1
  <1>3. t = SubSeq(u, 1, Len(u) - 1)
    BY DEF Front
  <1> HIDE DEF u
  <1>4. /\ t \in Seq(S) /\ Len(t) = m /\ \A i \in 1..m : t[i] = u[i]
    <2>1. 1 \in Int /\ m \in Int /\ \A i \in 1..m : u[i] \in S
      BY <1>1, <1>2
    <2>2. t = SubSeq(u, 1, m)
      BY <1>2, <1>3
    <2>3. m \in Nat /\ m - 1 + 1 = m /\ \A i \in 1..m : 1 + i - 1 = i
      BY <1>1
    <2> HIDE DEF m
    <2>4. /\ SubSeq(u, 1, m) \in Seq(S)
          /\ Len(SubSeq(u, 1, m)) = IF 1 <= m THEN m - 1 + 1 ELSE 0
          /\ \A i \in 1..m - 1 + 1 : SubSeq(u, 1, m)[i] = u[1 + i - 1]
      BY <2>1, SubSeqProperties
    <2>5. Len(t) = m
      BY <2>2, <2>3, <2>4
    <2>6. \A i \in 1..m : t[i] = u[i]
      BY <2>2, <2>3, <2>4
    <2> QED
      BY <2>2, <2>4, <2>5, <2>6
  <1> DEFINE P == Places(s, a)
             Q == Places(t, a)
  <1>5. /\ Count(s, a) = Cardinality(P) /\ Count(t, a) = Cardinality(Q)
        /\ IsFiniteSet(P) /\ Cardinality(P) \in Nat
    BY <1>4, PlacesFacts
  <1>6. \A i : i \in P <=> i \in 1..n /\ s[i] = a
    BY DEF Places
  <1>7. \A i : i \in Q <=> i \in 1..n /\ i # n /\ (IF i = k THEN s[n] = a ELSE s[i] = a)
    <2> SUFFICES ASSUME NEW i
                 PROVE  i \in Q <=> i \in 1..n /\ i # n /\ (IF i = k THEN s[n] = a ELSE s[i] = a)
      OBVIOUS
    <2>1. i \in Q <=> i \in 1..m /\ t[i] = a
      BY <1>4 DEF Places
    <2>2. i \in 1..m <=> i \in 1..n /\ i # n
      BY <1>1
    <2>3. i \in 1..m => t[i] = IF i = k THEN s[n] ELSE s[i]
      BY <1>2, <1>4, <2>2
    <2> HIDE DEF Q, n, m
    <2> QED
      BY <2>1, <2>2, <2>3
  <1> HIDE DEF P, Q, n, m
  <1>8. Cardinality(Q) = Cardinality(P) - (IF a = s[k] THEN 1 ELSE 0)
    <2>1. k \in 1..n
      BY DEF n
    <2>2. CASE a = s[k] /\ s[n] = a
      <3>1. Q = P \ {n} /\ n \in P
        BY <1>1, <1>6, <1>7, <2>1, <2>2
      <3>2. Cardinality(P \ {n}) = Cardinality(P) - 1
        BY <1>5, <3>1, FS_RemoveElement
      <3> QED
        BY <2>2, <3>1, <3>2
    <2>3. CASE a = s[k] /\ s[n] # a
      <3>1. Q = P \ {k} /\ k \in P
        BY <1>1, <1>6, <1>7, <2>1, <2>3
      <3>2. Cardinality(P \ {k}) = Cardinality(P) - 1
        BY <1>5, <3>1, FS_RemoveElement
      <3> QED
        BY <2>3, <3>1, <3>2
    <2>4. CASE a # s[k] /\ s[n] = a
      <3>1. k \notin P /\ n \in P /\ n # k
        BY <1>1, <1>6, <2>1, <2>4
      <3>2. Q = (P \cup {k}) \ {n}
        BY <1>6, <1>7, <2>1, <2>4
      <3>3. IsFiniteSet(P \cup {k}) /\ Cardinality(P \cup {k}) = Cardinality(P) + 1
        BY <1>5, <3>1, FS_AddElement
      <3>4. Cardinality((P \cup {k}) \ {n}) = Cardinality(P \cup {k}) - 1
        BY <3>1, <3>3, FS_RemoveElement
      <3> QED
        BY <1>5, <2>4, <3>2, <3>3, <3>4
    <2>5. CASE a # s[k] /\ s[n] # a
      <3>1. ASSUME NEW i
            PROVE  i \in Q <=> i \in P
        <4>1. CASE i = k
          BY <1>6, <1>7, <2>5, <4>1
        <4>2. CASE i # k
          BY <1>6, <1>7, <2>5, <4>2
        <4> QED
          BY <4>1, <4>2
      <3>2. Q = P
        BY <3>1
      <3> QED
        BY <1>5, <2>5, <3>2
    <2> QED
      BY <2>2, <2>3, <2>4, <2>5
  <1> QED
    BY <1>4, <1>5, <1>8 DEF n, m

LEMMA FirstFacts ==
    ASSUME stub.bps \in Seq(Addr), NEW c \in Addr
    PROVE  /\ First(c) = 0 <=> Places(stub.bps, c) = {}
           /\ First(c) # 0 => First(c) \in 1..Len(stub.bps) /\ stub.bps[First(c)] = c
  <1> DEFINE I == Places(stub.bps, c)
  <1>1. First(c) = IF I # {} THEN Min(I) ELSE 0
    BY DEF First, SelectInSeq, Places
  <1>2. I \in SUBSET Nat /\ \A i \in I : i \in 1..Len(stub.bps) /\ stub.bps[i] = c
    BY DEF Places
  <1> HIDE DEF I
  <1>3. I # {} => Min(I) \in I
    <2> SUFFICES ASSUME I # {}
                 PROVE  Min(I) \in I
      OBVIOUS
    <2>1. \E n \in I : \A m \in I : n <= m
      BY <1>2, LeastNumber
    <2> QED
      BY <2>1 DEF Min
  <1>4. I # {} => First(c) # 0 /\ First(c) \in I
    BY <1>1, <1>2, <1>3
  <1> QED
    BY <1>1, <1>2, <1>4 DEF I

\* Clearing an address takes away one of its entries, if there is one.
LEMMA CountWithoutFirst ==
    ASSUME stub.bps \in Seq(Addr), NEW c \in Addr
    PROVE  /\ WithoutFirst(c) \in Seq(Addr) /\ Len(WithoutFirst(c)) <= Len(stub.bps)
           /\ Count(stub.bps, c) > 0 =>
                  \A a \in Addr : Count(WithoutFirst(c), a)
                                      = Count(stub.bps, a) - (IF a = c THEN 1 ELSE 0)
  <1> DEFINE k == First(c)
  <1>1. CASE k = 0
    <2>1. WithoutFirst(c) = stub.bps
      BY <1>1 DEF WithoutFirst
    <2>2. ~ (Count(stub.bps, c) > 0)
      BY <1>1, FirstFacts, PlacesFacts
    <2> QED
      BY <2>1, <2>2
  <1>2. CASE k # 0
    <2>1. WithoutFirst(c) = Front([stub.bps EXCEPT ![k] = Last(stub.bps)])
      BY <1>2 DEF WithoutFirst
    <2>2. k \in 1..Len(stub.bps) /\ stub.bps[k] = c
      BY <1>2, FirstFacts
    <2> HIDE DEF k
    <2>3. \A a \in Addr : Count(WithoutFirst(c), a)
                              = Count(stub.bps, a) - (IF a = c THEN 1 ELSE 0)
      BY <2>1, <2>2, CountCut
    <2>4. WithoutFirst(c) \in Seq(Addr) /\ Len(WithoutFirst(c)) = Len(stub.bps) - 1
      BY <2>1, <2>2, CountCut
    <2> QED
      BY <2>3, <2>4
  <1> QED
    BY <1>1, <1>2
-----------------------------------------------------------------------------
(***************************************************************************)
(* Types, and what the steps have in common.                               *)
(***************************************************************************)
LEMMA Constants ==
    /\ 0 \in Addr /\ Addr \subseteq Nat /\ None \notin Addr
    /\ MaxBp \in Nat /\ StepBatch \in Nat \ {0} /\ 0 \in 0..StepBatch
  BY AddrAssumption, SizeAssumption DEF None

LEMMA TypeFacts ==
    ASSUME TypeOK
    PROVE  /\ arch \in Archs /\ stub \in StubType /\ core \in CoreType /\ loop \in LoopType
           /\ toStub \in Seq(Command) /\ toClient \in Seq(Reply)
           /\ client \in ClientType /\ hist \in HistType
           /\ stub.bps \in Seq(Addr) /\ stub.resume \in Addr \cup {None}
           /\ core.pc \in Addr /\ core.state \in {"RUNNING", "SLEEPING", "HALTED", "BREAK"}
           /\ Len(toStub) \in Nat /\ Len(toClient) \in Nat
           /\ client.view \in {"absent", "connecting", "stopped", "asking", "waiting"}
           /\ client.asked.op \in {"none", "Z", "z"} /\ client.asked.addr \in Addr
           /\ client.planted \in [Addr -> Nat]
  BY DEF TypeOK, StubType, CoreType, LoopType, ClientType, HistType

LEMMA TypeNext ==
    ASSUME arch' \in Archs, stub' \in StubType, core' \in CoreType, loop' \in LoopType,
           toStub' \in Seq(Command), toClient' \in Seq(Reply),
           client' \in ClientType, hist' \in HistType
    PROVE  TypeOK'
  BY DEF TypeOK, StubType, CoreType, LoopType, ClientType, HistType

LEMMA Words ==
    /\ \A r \in {"S05", "S02", "OK", "E01"} : r \in Reply
    /\ \A op \in {"c", "s", "D", "k", "INT", "EOF"} : [op |-> op] \in Command
    /\ \A op \in {"Z", "z", "G"} : \A a \in Addr : [op |-> op, addr |-> a] \in Command
    /\ \A cmd \in Command : /\ cmd.op \in {"c", "s", "D", "k", "INT", "EOF", "Z", "z", "G"}
                            /\ cmd.op \in {"Z", "z", "G"} => cmd.addr \in Addr
  BY DEF Reply, Command

\* send_packet.
LEMMA SentFacts ==
    ASSUME TypeOK, NEW r \in Reply
    PROVE  /\ Sent(r) \in Seq(Reply)
           /\ stub.client /\ Attached =>
                  /\ Len(Sent(r)) = Len(toClient) + 1
                  /\ \A i \in 1..Len(toClient) : Sent(r)[i] = toClient[i]
                  /\ Sent(r)[Len(toClient) + 1] = r
                  /\ Len(toClient) = 0 => Sent(r)[1] = r
                  /\ Len(toClient) = 1 => Sent(r)[1] = toClient[1] /\ Sent(r)[2] = r
           /\ ~(stub.client /\ Attached) => Sent(r) = toClient
  <1>1. toClient \in Seq(Reply)
    BY DEF TypeOK
  <1>2. CASE stub.client /\ Attached
    <2>1. Sent(r) = Append(toClient, r)
      BY <1>2 DEF Sent
    <2> QED
      BY <1>1, <1>2, <2>1, AppendFacts
  <1>3. CASE ~(stub.client /\ Attached)
    BY <1>1, <1>3 DEF Sent
  <1> QED
    BY <1>2, <1>3

\* An attached debugger has a session with the stub.
LEMMA AttachedIsServed == ASSUME IInv, Attached PROVE stub.client
  <1>1. stub.client \in BOOLEAN
    BY TypeFacts DEF IInv, StubType
  <1> QED
    BY <1>1 DEF IInv, Sessions

\* The core runs on, and nobody is told.
LEMMA QuietStep ==
    ASSUME IInv, stub'.client <=> stub.client, stub'.running <=> stub.running,
           stub'.bps = stub.bps, UNCHANGED <<toStub, toClient, client>>
    PROVE  Sessions' /\ Talk' /\ Table'
  <1>1. Sessions /\ Talk /\ Table
    BY DEF IInv
  <1>2. Sessions'
    BY <1>1 DEF Sessions, Attached
  <1>3. Talk'
    BY <1>1 DEF Talk, Attached, Interrupts
  <1>4. Table'
    BY <1>1 DEF Table, Attached, Change, Count
  <1> QED
    BY <1>2, <1>3, <1>4

\* A running core stops and the stub says so: the debugger is waiting for it.
LEMMA StopStep ==
    ASSUME IInv, stub.running, stub'.client <=> stub.client, ~stub'.running,
           stub'.bps = stub.bps, toClient' = Sent("S05"), UNCHANGED <<toStub, client>>
    PROVE  Sessions' /\ Talk' /\ Table' /\ toClient' \in Seq(Reply)
  <1>1. Sessions /\ Talk /\ Table /\ TypeOK /\ "S05" \in Reply
    BY DEF IInv, Reply
  <1>2. toClient' \in Seq(Reply) /\ Len(toClient) \in Nat
    BY <1>1, SentFacts, TypeFacts
  <1>3. CASE ~Attached
    <2>1. toClient' = toClient
      BY <1>1, <1>3, SentFacts
    <2>2. Sessions'
      BY <1>1, <1>3, <2>1 DEF Sessions, Attached
    <2>3. Talk' /\ Table'
      BY <1>1, <1>3, <2>1 DEF Talk, Table, Attached
    <2> QED
      BY <1>2, <2>2, <2>3
  <1>4. CASE Attached
    <2>1. stub.client
      BY <1>4, AttachedIsServed
    <2>2. /\ Len(toClient') = Len(toClient) + 1
          /\ Len(toClient) = 0 => toClient'[1] = "S05"
      BY <1>1, <1>4, <2>1, SentFacts
    <2>3. Sessions'
      BY <1>1, <1>4, <2>1 DEF Sessions, Attached
    <2>4. ~client.crossed => client.view = "waiting" /\ Interrupts(0) /\ Len(toClient) = 0
      BY <1>1, <1>4 DEF Talk, Attached
    <2>5. Talk'
      <3> SUFFICES ASSUME ~client.crossed
                   PROVE  client'.view = "waiting" /\ Interrupts(0)' /\ Len(toClient') = 1
                              /\ toClient'[1] = "S05" /\ ~stub'.running
        BY DEF Talk
      <3>1. client' = client /\ toStub' = toStub /\ Interrupts(0) /\ client.view = "waiting"
        BY <2>4
      <3>2. Len(toClient) = 0
        BY <2>4
      <3>3. Interrupts(0)'
        BY <3>1 DEF Interrupts
      <3>4. client'.view = "waiting" /\ Len(toClient') = 1 /\ toClient'[1] = "S05"
        BY <2>2, <3>1, <3>2
      <3> QED
        BY <3>3, <3>4
    <2>6. client.view # "asking" => \A a \in Addr : Change(a) = 0 /\ Change(a)' = 0
      BY DEF Change
    <2>7. Table'
      BY <1>1, <1>4, <2>4, <2>6 DEF Table, Attached, Count
    <2> QED
      BY <1>2, <2>3, <2>5, <2>7
  <1> QED
    BY <1>3, <1>4
-----------------------------------------------------------------------------
(***************************************************************************)
(* The run loop.                                                           *)
(***************************************************************************)
\* The record of the stub after a stop.
LEMMA StoppedStub ==
    ASSUME stub \in StubType, NEW r \in Addr \cup {None},
           NEW t, t = [stub EXCEPT !.running = FALSE, !.single = FALSE, !.resume = r]
    PROVE  /\ t \in StubType /\ (t.client <=> stub.client) /\ ~t.running /\ ~t.single
           /\ t.bps = stub.bps /\ t.resume = r
  BY DEF StubType

LEMMA ResumeLeftFacts ==
    ASSUME TypeOK
    PROVE  ResumeLeft \in Addr \cup {None} /\ (ResumeLeft # None => ResumeLeft = stub.resume)
  BY TypeFacts DEF ResumeLeft

\* A step of the loop that stops the core and reports it.
LEMMA ReportedIInv ==
    ASSUME IInv, stub.running, NEW r \in {stub.resume, ResumeLeft},
           stub' = [stub EXCEPT !.running = FALSE, !.single = FALSE, !.resume = r],
           toClient' = Sent("S05"), loop' = [at |-> "poll", i |-> 0],
           UNCHANGED <<arch, toStub, client>>,
           core' \in CoreType, hist' \in HistType,
           hist'.mode = "s" => hist'.executed <= 1,
           r # None => hist'.trail \subseteq {r}
    PROVE  IInv'
  <1>1. TypeOK /\ r \in Addr \cup {None}
    BY TypeFacts, ResumeLeftFacts DEF IInv
  <1>2. /\ stub' \in StubType /\ (stub'.client <=> stub.client) /\ ~stub'.running /\ ~stub'.single
        /\ stub'.bps = stub.bps /\ stub'.resume = r
    BY <1>1, TypeFacts, StoppedStub
  <1>3. Sessions' /\ Talk' /\ Table' /\ toClient' \in Seq(Reply)
    BY <1>2, StopStep
  <1>4. loop' \in LoopType /\ loop'.at = "poll"
    BY Constants DEF LoopType
  <1>5. TypeOK'
    BY <1>1, <1>2, <1>3, <1>4, TypeFacts, TypeNext
  <1>6. Running'
    BY <1>2, <1>4 DEF Running
  <1> QED
    BY <1>3, <1>5, <1>6 DEF IInv

LEMMA PollDoneStep == ASSUME IInv, PollDone PROVE IInv'
  <1>1. /\ TypeOK /\ Running /\ stub.running /\ loop.at = "poll"
        /\ loop' = [at |-> IF arch = "AVR" /\ core.state # "RUNNING" THEN "idle" ELSE "batch",
                    i  |-> 0]
        /\ UNCHANGED <<arch, stub, core, toStub, toClient, client, hist>>
    BY DEF PollDone, IInv
  <1>2. /\ loop' \in LoopType
        /\ loop'.at = "idle" => core.state # "RUNNING"
    BY <1>1, Constants DEF LoopType
  <1>3. TypeOK'
    BY <1>1, <1>2, TypeFacts, TypeNext
  <1>4. Running'
    BY <1>1, <1>2 DEF Running
  <1>5. Sessions' /\ Talk' /\ Table'
    BY <1>1, QuietStep
  <1> QED
    BY <1>3, <1>4, <1>5 DEF IInv

LEMMA ReportStopStep == ASSUME IInv, ReportStop PROVE IInv'
  <1>1. /\ TypeOK /\ Running /\ loop.at = "idle"
        /\ stub' = [stub EXCEPT !.running = FALSE, !.single = FALSE]
        /\ toClient' = Sent("S05") /\ loop' = [at |-> "poll", i |-> 0]
        /\ UNCHANGED <<arch, core, toStub, client, hist>>
    BY DEF ReportStop, NotifyStop, IInv
  <1>2. stub.running /\ (hist.mode = "s" => hist.executed <= 1)
        /\ (stub.resume # None => hist.trail \subseteq {stub.resume})
    BY <1>1, TypeFacts DEF Running, StubType, HistType
  <1>3. stub' = [stub EXCEPT !.running = FALSE, !.single = FALSE, !.resume = stub.resume]
    BY <1>1, TypeFacts DEF StubType
  <1>4. core' \in CoreType /\ hist' \in HistType
    BY <1>1, TypeFacts
  <1> QED
    BY <1>1, <1>2, <1>3, <1>4, ReportedIInv

LEMMA SleepCycleStep == ASSUME IInv, SleepCycle PROVE IInv'
  <1>1. /\ TypeOK /\ Running /\ loop.at = "idle" /\ core.state = "SLEEPING"
        /\ core' \in {core} \cup [state : {"RUNNING"}, pc : Addr]
        /\ loop' = [at |-> "poll", i |-> 0]
        /\ UNCHANGED <<arch, stub, toStub, toClient, client, hist>>
    BY DEF SleepCycle, IInv
  <1>2. loop' \in LoopType /\ loop'.at = "poll" /\ core' \in CoreType
    BY <1>1, Constants, TypeFacts DEF LoopType, CoreType
  <1>3. TypeOK'
    BY <1>1, <1>2, TypeFacts, TypeNext
  <1>4. Running'
    BY <1>1, <1>2 DEF Running
  <1>5. Sessions' /\ Talk' /\ Table'
    BY <1>1, QuietStep
  <1> QED
    BY <1>3, <1>4, <1>5 DEF IInv

LEMMA EndBatchStep == ASSUME IInv, EndBatch PROVE IInv'
  <1>1. /\ TypeOK /\ Running /\ loop.at = "batch" /\ loop' = [at |-> "poll", i |-> 0]
        /\ UNCHANGED <<arch, stub, core, toStub, toClient, client, hist>>
    BY DEF EndBatch, IInv
  <1>2. loop' \in LoopType /\ loop'.at = "poll"
    BY <1>1, Constants DEF LoopType
  <1>3. TypeOK'
    BY <1>1, <1>2, TypeFacts, TypeNext
  <1>4. Running'
    BY <1>1, <1>2 DEF Running
  <1>5. Sessions' /\ Talk' /\ Table'
    BY <1>1, QuietStep
  <1> QED
    BY <1>3, <1>4, <1>5 DEF IInv

LEMMA LeaveBatchStep == ASSUME IInv, LeaveBatch PROVE IInv'
  <1>1. /\ TypeOK /\ Running /\ loop.at = "batch" /\ loop' = [at |-> "poll", i |-> 0]
        /\ UNCHANGED <<arch, core, toStub, client, hist>>
    BY DEF LeaveBatch, IInv
  <1>2. stub.running /\ (hist.mode = "s" => hist.executed <= 1)
        /\ (stub.resume # None => hist.trail \subseteq {stub.resume})
    BY <1>1, TypeFacts DEF Running, StubType, HistType
  <1>3. CASE arch = "AVR"
    <2>1. /\ toClient' = Sent("S05")
          /\ stub' = [stub EXCEPT !.running = FALSE, !.single = FALSE]
      BY <1>3 DEF LeaveBatch, NotifyStop
    <2>2. stub' = [stub EXCEPT !.running = FALSE, !.single = FALSE, !.resume = stub.resume]
      BY <1>1, <2>1, TypeFacts DEF StubType
    <2>3. core' \in CoreType /\ hist' \in HistType
      BY <1>1, TypeFacts
    <2> QED
      BY <1>1, <1>2, <2>1, <2>2, <2>3, ReportedIInv
  <1>4. CASE arch # "AVR"
    <2>1. UNCHANGED <<stub, toClient>>
      BY <1>4 DEF LeaveBatch
    <2>2. loop' \in LoopType /\ loop'.at = "poll"
      BY <1>1, Constants DEF LoopType
    <2>3. TypeOK'
      BY <1>1, <2>1, <2>2, TypeFacts, TypeNext
    <2>4. Running'
      BY <1>1, <2>1, <2>2 DEF Running
    <2>5. Sessions' /\ Talk' /\ Table'
      BY <1>1, <2>1, QuietStep
    <2> QED
      BY <2>3, <2>4, <2>5 DEF IInv
  <1> QED
    BY <1>3, <1>4

LEMMA HitBreakpointStep == ASSUME IInv, HitBreakpoint PROVE IInv'
  <1>1. /\ TypeOK /\ Running /\ loop.at = "batch" /\ loop' = [at |-> "poll", i |-> 0]
        /\ stub' = [stub EXCEPT !.running = FALSE, !.single = FALSE, !.resume = ResumeLeft]
        /\ toClient' = Sent("S05")
        /\ UNCHANGED <<arch, core, toStub, client, hist>>
    BY DEF HitBreakpoint, IInv
  <1>2. stub.running /\ (hist.mode = "s" => hist.executed <= 1)
        /\ (stub.resume # None => hist.trail \subseteq {stub.resume})
    BY <1>1, TypeFacts DEF Running, StubType, HistType
  <1>3. ResumeLeft # None => hist'.trail \subseteq {ResumeLeft}
    BY <1>1, <1>2, ResumeLeftFacts
  <1>4. core' \in CoreType /\ hist' \in HistType
    BY <1>1, TypeFacts
  <1> QED
    BY <1>1, <1>2, <1>3, <1>4, ReportedIInv

\* The cores an instruction can leave.
LEMMA ExecutedFacts ==
    ASSUME NEW c \in CoreType, NEW d \in Executed(c)
    PROVE  d \in CoreType
  <1>1. [c EXCEPT !.state = "HALTED"] \in CoreType
    BY DEF CoreType
  <1>2. /\ [state : {"BREAK"}, pc : Addr] \subseteq CoreType
        /\ [state : {"SLEEPING", "RUNNING"}, pc : Addr] \subseteq CoreType
        /\ [state : {"RUNNING"}, pc : Addr] \subseteq CoreType
    BY DEF CoreType
  <1> QED
    BY <1>1, <1>2 DEF Executed

LEMMA StepCoreStep == ASSUME IInv, StepCore PROVE IInv'
  <1>1. /\ TypeOK /\ Running /\ loop.at = "batch" /\ ~BatchOver
        /\ core.state = "RUNNING" /\ ~AtBreakpoint /\ core' \in Executed(core)
        /\ hist' = [hist EXCEPT !.executed = Atmost2(hist.executed + 1),
                                !.trail = hist.trail \cup {core.pc}]
        /\ Afterwards
        /\ UNCHANGED <<arch, toStub, client>>
    BY DEF StepCore, IInv
  <1>2. stub.running
    BY <1>1, TypeFacts DEF Running, StubType
  <1>3. core' \in CoreType /\ core.pc \in Addr
    BY <1>1, ExecutedFacts, TypeFacts
  <1>4. /\ hist' \in HistType /\ hist'.mode = hist.mode
        /\ hist'.trail = hist.trail \cup {core.pc}
        /\ hist.executed = 0 => hist'.executed = 1
    <2>1. hist \in HistType /\ hist.executed \in 0..2 /\ hist.trail \in SUBSET Addr
      BY <1>1, TypeFacts DEF HistType
    <2>2. Atmost2(hist.executed + 1) \in 0..2 /\ (hist.executed = 0 => Atmost2(hist.executed + 1) = 1)
      BY <2>1 DEF Atmost2
    <2>3. hist.trail \cup {core.pc} \in SUBSET Addr
      BY <1>3, <2>1
    <2> QED
      BY <1>1, <2>1, <2>2, <2>3 DEF HistType
  <1>5. ResumeLeft # None => hist'.trail \subseteq {ResumeLeft}
    BY <1>1, <1>4 DEF ResumeLeft, Running
  <1>6. CASE stub.single
    <2>1. /\ stub' = [stub EXCEPT !.running = FALSE, !.single = FALSE, !.resume = ResumeLeft]
          /\ toClient' = Sent("S05")
          /\ loop' = [at |-> "poll", i |-> 0]
      BY <1>1, <1>6 DEF Afterwards
    <2>2. hist'.executed <= 1
      BY <1>1, <1>4, <1>6 DEF Running
    <2> QED
      BY <1>1, <1>2, <1>3, <1>4, <1>5, <2>1, <2>2, ReportedIInv
  <1>7. CASE ~stub.single
    <2>1. /\ stub' = [stub EXCEPT !.resume = ResumeLeft]
          /\ toClient' = toClient
          /\ loop' = [loop EXCEPT !.i = loop.i + 1]
      BY <1>1, <1>7 DEF Afterwards
    <2>2. /\ stub' \in StubType /\ (stub'.client <=> stub.client) /\ stub'.running /\ ~stub'.single
          /\ stub'.bps = stub.bps /\ stub'.resume = ResumeLeft
      BY <1>1, <1>2, <1>7, <2>1, ResumeLeftFacts, TypeFacts DEF StubType
    <2>3. loop' \in LoopType /\ loop'.at = "batch"
      <3>1. loop \in LoopType /\ loop.i \in 0..StepBatch
        BY <1>1, TypeFacts DEF LoopType
      <3>2. loop.i + 1 \in 0..StepBatch
        BY <1>1, <3>1, Constants DEF BatchOver
      <3> QED
        BY <1>1, <2>1, <3>1, <3>2 DEF LoopType
    <2>4. TypeOK'
      BY <1>1, <1>3, <1>4, <2>1, <2>2, <2>3, TypeFacts, TypeNext
    <2>5. hist.mode # "s"
      BY <1>1, <1>2, <1>7 DEF Running
    <2>6. Running'
      BY <1>4, <1>5, <2>2, <2>5 DEF Running
    <2>7. Sessions' /\ Talk' /\ Table'
      BY <1>1, <1>2, <2>1, <2>2, QuietStep
    <2> QED
      BY <2>4, <2>6, <2>7 DEF IInv
  <1> QED
    BY <1>6, <1>7
-----------------------------------------------------------------------------
(***************************************************************************)
(* The debugger.                                                           *)
(***************************************************************************)
LEMMA ClientIInv ==
    ASSUME IInv, UNCHANGED <<arch, stub, core, loop, hist>>,
           toStub' \in Seq(Command), toClient' \in Seq(Reply), client' \in ClientType,
           Sessions', Talk', Table'
    PROVE  IInv'
  <1>1. TypeOK'
    BY TypeFacts, TypeNext DEF IInv
  <1>2. Running'
    BY DEF IInv, Running
  <1> QED
    BY <1>1, <1>2 DEF IInv

\* A command that does not end the session.
LEMMA OneMoreCommand ==
    ASSUME IInv, Attached, Attached', UNCHANGED stub,
           NEW cmd \in Command, cmd.op \notin End, toStub' = Append(toStub, cmd)
    PROVE  /\ Sessions' /\ toStub' \in Seq(Command) /\ Len(toStub') = Len(toStub) + 1
           /\ Len(toStub) = 0 => toStub'[1] = cmd
           /\ Len(toStub) = 1 => toStub'[1] = toStub[1] /\ toStub'[2] = cmd
  <1>1. toStub \in Seq(Command) /\ Len(toStub) \in Nat
    BY TypeFacts DEF IInv
  <1>2. /\ toStub' \in Seq(Command) /\ Len(toStub') = Len(toStub) + 1
        /\ toStub'[Len(toStub) + 1] = cmd /\ \A i \in 1..Len(toStub) : toStub'[i] = toStub[i]
        /\ Len(toStub) = 0 => toStub'[1] = cmd
        /\ Len(toStub) = 1 => toStub'[1] = toStub[1] /\ toStub'[2] = cmd
    BY <1>1, AppendFacts
  <1>3. stub.client
    BY AttachedIsServed
  <1>4. \A i \in 1..Len(toStub) : toStub[i].op \notin End
    BY <1>3 DEF IInv, Sessions
  <1>5. \A i \in 1..Len(toStub') : toStub'[i].op \notin End
    BY <1>1, <1>2, <1>4
  <1>6. Sessions'
    BY <1>3, <1>5 DEF Sessions
  <1> QED
    BY <1>2, <1>6

\* The debugger goes: its last command is one that ends the session.
LEMMA DepartStep ==
    ASSUME IInv, Attached, UNCHANGED <<arch, stub, core, loop, hist>>,
           NEW cmd \in Command, cmd.op \in End, toStub' = Append(toStub, cmd),
           toClient' = <<>>, client' \in ClientType, client'.view = "absent"
    PROVE  IInv'
  <1>1. toStub \in Seq(Command) /\ Len(toStub) \in Nat /\ Len(toStub') \in Nat
        /\ Len(toClient') = 0 /\ toClient' \in Seq(Reply)
    BY TypeFacts, EmptyFacts, AppendFacts DEF IInv
  <1>2. /\ toStub' \in Seq(Command) /\ Len(toStub') = Len(toStub) + 1
        /\ toStub'[Len(toStub) + 1] = cmd /\ \A i \in 1..Len(toStub) : toStub'[i] = toStub[i]
    BY <1>1, AppendFacts
  <1>3. stub.client /\ ~Attached'
    BY AttachedIsServed DEF Attached
  <1>4. \A i \in 1..Len(toStub) : toStub[i].op \notin End
    BY <1>3 DEF IInv, Sessions
  <1>5. \A i \in 1..Len(toStub') : toStub'[i].op \in End <=> i = Len(toStub')
    BY <1>1, <1>2, <1>4
  <1>6. Len(toStub') > 0
    BY <1>1, <1>2
  <1>7. Sessions'
    BY <1>1, <1>3, <1>5, <1>6 DEF Sessions
  <1>8. Talk' /\ Table'
    BY <1>3 DEF IInv, Talk, Table, Attached
  <1> QED
    BY <1>1, <1>2, <1>7, <1>8, ClientIInv

LEMMA ConnectStep == ASSUME IInv, Connect PROVE IInv'
  <1>1. /\ client.view = "absent" /\ client' = [client EXCEPT !.view = "connecting"]
        /\ UNCHANGED <<arch, stub, core, loop, toStub, toClient, hist>>
    BY DEF Connect
  <1>2. client \in ClientType
    BY TypeFacts DEF IInv
  <1>3. client' \in ClientType /\ client'.view = "connecting"
    BY <1>1, <1>2 DEF ClientType
  <1>4. Sessions'
    BY <1>1, <1>3 DEF IInv, Sessions, Attached
  <1>5. Talk' /\ Table'
    BY <1>1, <1>3 DEF IInv, Talk, Table, Attached
  <1>6. toStub' \in Seq(Command) /\ toClient' \in Seq(Reply)
    BY <1>1, TypeFacts DEF IInv
  <1> QED
    BY <1>1, <1>3, <1>4, <1>5, <1>6, ClientIInv

LEMMA AskStep ==
    ASSUME IInv, NEW cmd \in Command, cmd.op \in {"c", "s", "D", "k", "G", "Z", "z"},
           cmd.op = "z" => client.planted[cmd.addr] > 0, Ask(cmd)
    PROVE  IInv'
  <1>1. /\ client.view = "stopped" /\ Attached /\ toStub' = Append(toStub, cmd)
        /\ UNCHANGED <<arch, stub, core, loop, hist>>
    BY DEF Ask, Attached
  <1>2. /\ client \in ClientType /\ client.planted \in [Addr -> Nat] /\ TypeOK
        /\ NoBps \in [Addr -> Nat] /\ Nothing \in [op : {"none", "Z", "z"}, addr : Addr]
        /\ toClient \in Seq(Reply) /\ Len(toClient) \in Nat /\ Len(toStub) \in Nat
    BY TypeFacts, Constants DEF IInv, NoBps, Nothing
  <1>3. CASE cmd.op \in {"D", "k"}
    <2>1. client' = [client EXCEPT !.view = "absent", !.asked = Nothing, !.planted = NoBps]
          /\ toClient' = <<>>
      BY <1>3 DEF Ask
    <2>2. client' \in ClientType /\ client'.view = "absent"
      BY <1>2, <2>1 DEF ClientType
    <2>3. cmd.op \in End
      BY <1>3 DEF End
    <2> QED
      BY <1>1, <2>1, <2>2, <2>3, DepartStep
  <1>4. CASE cmd.op \in {"c", "s"}
    <2>1. client' = [client EXCEPT !.view = "waiting", !.asked = Nothing,
                                   !.planted = client.planted]
          /\ toClient' = toClient
      BY <1>4 DEF Ask
    <2>2. /\ client' \in ClientType /\ client'.view = "waiting" /\ client'.asked = Nothing
          /\ client'.planted = client.planted /\ (client'.intr <=> client.intr)
          /\ (client'.crossed <=> client.crossed)
      BY <1>2, <2>1 DEF ClientType
    <2>3. cmd.op \notin End /\ Attached'
      BY <1>4, <2>2 DEF End, Attached
    <2>4. /\ Sessions' /\ toStub' \in Seq(Command) /\ Len(toStub') = Len(toStub) + 1
          /\ Len(toStub) = 0 => toStub'[1] = cmd
      BY <1>1, <2>3, OneMoreCommand
    <2>5. Talk'
      <3> SUFFICES ASSUME ~client'.crossed
                   PROVE  Interrupts(1)' /\ toStub'[1].op \in {"c", "s"} /\ Len(toClient') = 0
                              /\ ~stub'.running
        BY <2>2 DEF Talk
      <3>1. ~client.intr /\ ~stub.running /\ Len(toStub) = 0 /\ Len(toClient) = 0
        BY <1>1, <2>2 DEF IInv, Talk
      <3>2. ~client'.intr
        BY <2>2, <3>1
      <3>3. Len(toStub') = 1
        BY <2>4, <3>1
      <3>4. Interrupts(1)'
        BY <3>2, <3>3 DEF Interrupts
      <3>5. toStub'[1].op \in {"c", "s"} /\ Len(toClient') = 0
        BY <1>4, <2>1, <2>4, <3>1
      <3>6. ~stub'.running
        BY <1>1, <3>1
      <3> QED
        BY <3>4, <3>5, <3>6
    <2>6. \A a \in Addr : Change(a) = 0 /\ Change(a)' = 0
      BY <1>1, <2>2 DEF Change
    <2>7. Table'
      BY <1>1, <2>2, <2>6 DEF IInv, Table, Attached, Count
    <2> QED
      BY <1>1, <1>2, <2>1, <2>2, <2>4, <2>5, <2>7, ClientIInv
  <1>5. CASE cmd.op \in {"G", "Z", "z"}
    <2> DEFINE d == IF cmd.op \in {"Z", "z"} THEN cmd ELSE Nothing
    <2>1. client' = [client EXCEPT !.view = "asking", !.asked = d, !.planted = client.planted]
          /\ toClient' = toClient
      BY <1>5 DEF Ask
    <2>2. d \in [op : {"none", "Z", "z"}, addr : Addr]
      BY <1>2 DEF Command
    <2>3. d = cmd \/ (cmd.op = "G" /\ d.op = "none")
      BY <1>5 DEF Nothing
    <2>4. d.op = "z" => d = cmd /\ client.planted[d.addr] > 0
      BY <2>3
    <2> HIDE DEF d
    <2>5. /\ client' \in ClientType /\ client'.view = "asking" /\ client'.asked = d
          /\ client'.planted = client.planted /\ (client'.intr <=> client.intr)
          /\ (client'.crossed <=> client.crossed)
      BY <1>2, <2>1, <2>2 DEF ClientType
    <2>6. cmd.op \notin End /\ Attached'
      BY <1>5, <2>5 DEF End, Attached
    <2>7. /\ Sessions' /\ toStub' \in Seq(Command) /\ Len(toStub') = Len(toStub) + 1
          /\ Len(toStub) = 0 => toStub'[1] = cmd
      BY <1>1, <2>6, OneMoreCommand
    <2>8. ~client.crossed =>
              ~client.intr /\ ~stub.running /\ Len(toStub) = 0 /\ Len(toClient) = 0
      BY <1>1 DEF IInv, Talk
    <2>9. Talk'
      <3> SUFFICES ASSUME ~client'.crossed
                   PROVE  /\ ~client'.intr /\ ~stub'.running
                          /\ Len(toStub') = 1 /\ Len(toClient') = 0
                          /\ \/ toStub'[1] = client'.asked
                             \/ toStub'[1].op = "G" /\ client'.asked.op = "none"
        BY <2>5 DEF Talk
      <3>1. ~client.intr /\ ~stub.running /\ Len(toStub) = 0 /\ Len(toClient) = 0
        BY <2>5, <2>8
      <3>2. Len(toStub') = 1 /\ Len(toClient') = 0 /\ toStub'[1] = cmd
        BY <2>1, <2>7, <3>1
      <3>3. ~client'.intr /\ ~stub'.running
        BY <1>1, <2>5, <3>1
      <3> QED
        BY <2>3, <2>5, <3>2, <3>3
    <2>10. \A a \in Addr : Change(a) = 0
      BY <1>1 DEF Change
    <2>11. ~client'.crossed => \A a \in Addr : Change(a)' = 0
      BY <2>1, <2>5, <2>8 DEF Change
    <2>12. Table'
      <3>1. Len(stub'.bps) <= MaxBp
        BY <1>1 DEF IInv, Table
      <3>2. ~client'.crossed =>
                \A a \in Addr : Count(stub.bps, a)' = client'.planted[a] + Change(a)'
        BY <1>1, <2>5, <2>10, <2>11 DEF IInv, Table, Count
      <3>3. client'.asked.op = "z" => client'.planted[client'.asked.addr] > 0
        BY <2>4, <2>5
      <3> QED
        BY <3>1, <3>2, <3>3 DEF Table, Count
    <2> QED
      BY <1>1, <1>2, <2>1, <2>5, <2>7, <2>9, <2>12, ClientIInv
  <1> QED
    BY <1>3, <1>4, <1>5

LEMMA AskAnyStep == ASSUME IInv, AskAny PROVE IInv'
  <1>1. ASSUME NEW op \in {"c", "s", "D", "k"}, Ask([op |-> op])
        PROVE  IInv'
    <2>1. [op |-> op] \in Command /\ [op |-> op].op \in {"c", "s", "D", "k"}
      BY Words
    <2> QED
      BY <1>1, <2>1, AskStep
  <1>2. ASSUME NEW op \in {"G", "Z"}, NEW a \in Addr, Ask([op |-> op, addr |-> a])
        PROVE  IInv'
    <2>1. [op |-> op, addr |-> a] \in Command /\ [op |-> op, addr |-> a].op \in {"G", "Z"}
      BY Words
    <2> QED
      BY <1>2, <2>1, AskStep
  <1>3. ASSUME NEW a \in Addr, client.planted[a] > 0, Ask([op |-> "z", addr |-> a])
        PROVE  IInv'
    <2>1. /\ [op |-> "z", addr |-> a] \in Command /\ [op |-> "z", addr |-> a].op = "z"
          /\ [op |-> "z", addr |-> a].addr = a
      BY Words
    <2> QED
      BY <1>3, <2>1, AskStep
  <1> QED
    BY <1>1, <1>2, <1>3 DEF AskAny

LEMMA InterruptStep == ASSUME IInv, Interrupt PROVE IInv'
  <1> DEFINE cmd == [op |-> "INT"]
  <1>1. /\ client.view = "waiting" /\ Attached /\ ~client.intr /\ ~client.crossed
        /\ client' = [client EXCEPT !.intr = TRUE] /\ toStub' = Append(toStub, cmd)
        /\ UNCHANGED <<arch, stub, core, loop, toClient, hist>>
    BY DEF Interrupt, Attached
  <1>2. cmd \in Command /\ cmd.op = "INT" /\ cmd.op \notin End
    BY Words DEF End
  <1> HIDE DEF cmd
  <1>3. client \in ClientType /\ toClient \in Seq(Reply) /\ Len(toStub) \in Nat
    BY TypeFacts DEF IInv
  <1>4. /\ client' \in ClientType /\ client'.view = "waiting" /\ client'.intr
        /\ client'.planted = client.planted /\ client'.asked = client.asked
    BY <1>1, <1>3 DEF ClientType
  <1>5. Attached'
    BY <1>4 DEF Attached
  <1>6. /\ Sessions' /\ toStub' \in Seq(Command) /\ Len(toStub') = Len(toStub) + 1
        /\ Len(toStub) = 0 => toStub'[1] = cmd
        /\ Len(toStub) = 1 => toStub'[1] = toStub[1] /\ toStub'[2] = cmd
    BY <1>1, <1>2, <1>5, OneMoreCommand
  <1>7. \/ /\ Interrupts(1) /\ toStub[1].op \in {"c", "s"} /\ Len(toClient) = 0 /\ ~stub.running
        \/ Interrupts(0) /\ Len(toClient) = 0 /\ stub.running
        \/ Interrupts(0) /\ Len(toClient) = 1 /\ toClient[1] = "S05" /\ ~stub.running
    BY <1>1 DEF IInv, Talk
  <1>8. Interrupts(1) => Interrupts(1)' /\ toStub'[1] = toStub[1]
    <2> SUFFICES ASSUME Interrupts(1)
                 PROVE  Interrupts(1)' /\ toStub'[1] = toStub[1]
      OBVIOUS
    <2>1. Len(toStub) = 1
      BY <1>1 DEF Interrupts
    <2>2. Len(toStub') = 2 /\ toStub'[2].op = "INT" /\ toStub'[1] = toStub[1]
      BY <1>2, <1>6, <2>1
    <2> QED
      BY <1>4, <2>2 DEF Interrupts
  <1>9. Interrupts(0) => Interrupts(0)'
    <2> SUFFICES ASSUME Interrupts(0)
                 PROVE  Interrupts(0)'
      OBVIOUS
    <2>1. Len(toStub) = 0
      BY <1>1 DEF Interrupts
    <2>2. Len(toStub') = 1 /\ toStub'[1].op = "INT"
      BY <1>2, <1>6, <2>1
    <2> QED
      BY <1>4, <2>2 DEF Interrupts
  <1>10. Talk'
    <2>1. \/ /\ Interrupts(1)' /\ toStub'[1].op \in {"c", "s"} /\ Len(toClient') = 0 /\ ~stub'.running
          \/ Interrupts(0)' /\ Len(toClient') = 0 /\ stub'.running
          \/ Interrupts(0)' /\ Len(toClient') = 1 /\ toClient'[1] = "S05" /\ ~stub'.running
      BY <1>1, <1>7, <1>8, <1>9
    <2> QED
      BY <1>4, <2>1 DEF Talk
  <1>11. \A a \in Addr : Change(a) = 0 /\ Change(a)' = 0
    BY <1>1, <1>4 DEF Change
  <1>12. Table'
    BY <1>1, <1>4, <1>11 DEF IInv, Table, Attached, Count
  <1> QED
    BY <1>1, <1>3, <1>4, <1>6, <1>10, <1>12, ClientIInv

LEMMA CloseStep == ASSUME IInv, Close PROVE IInv'
  <1>1. /\ Attached /\ toStub' = Append(toStub, [op |-> "EOF"]) /\ toClient' = <<>>
        /\ client' = [client EXCEPT !.view = "absent", !.asked = Nothing, !.planted = NoBps]
        /\ UNCHANGED <<arch, stub, core, loop, hist>>
    BY DEF Close
  <1>2. /\ client \in ClientType
        /\ NoBps \in [Addr -> Nat] /\ Nothing \in [op : {"none", "Z", "z"}, addr : Addr]
    BY TypeFacts, Constants DEF IInv, NoBps, Nothing
  <1>3. client' \in ClientType /\ client'.view = "absent"
    BY <1>1, <1>2 DEF ClientType
  <1>4. [op |-> "EOF"] \in Command /\ [op |-> "EOF"].op \in End
    BY Words DEF End
  <1> QED
    BY <1>1, <1>3, <1>4, DepartStep

LEMMA BelievedFacts ==
    ASSUME IInv, NEW r
    PROVE  /\ Believed(r) \in [Addr -> Nat]
           /\ Len(toClient) = 1 /\ toClient[1] = r =>
                  \A a \in Addr : Believed(r)[a] = client.planted[a] + Change(a)
           /\ client.view = "waiting" => Believed(r) = client.planted
  <1> DEFINE x == client.asked.addr
  <1>1. /\ client.planted \in [Addr -> Nat] /\ x \in Addr /\ client.planted[x] \in Nat
        /\ client.asked.op = "z" /\ client.view = "asking" => client.planted[x] > 0
    BY TypeFacts DEF IInv, Table
  <1>2. \A a \in Addr : client.planted[a] \in Nat
    BY <1>1
  <1>3. CASE client.view = "asking" /\ r = "OK" /\ client.asked.op = "Z"
    <2>1. Believed(r) = [client.planted EXCEPT ![x] = client.planted[x] + 1]
      BY <1>3 DEF Believed
    <2>2. Len(toClient) = 1 /\ toClient[1] = r =>
              \A a \in Addr : Change(a) = IF a = x THEN 1 ELSE 0
      BY <1>3 DEF Change
    <2> QED
      BY <1>1, <1>2, <1>3, <2>1, <2>2
  <1>4. CASE client.view = "asking" /\ r = "OK" /\ client.asked.op = "z"
    <2>1. Believed(r) = [client.planted EXCEPT ![x] = client.planted[x] - 1]
      BY <1>4 DEF Believed
    <2>2. Len(toClient) = 1 /\ toClient[1] = r =>
              \A a \in Addr : Change(a) = IF a = x THEN 0 - 1 ELSE 0
      BY <1>4 DEF Change
    <2>3. client.planted[x] - 1 \in Nat
      BY <1>1, <1>4
    <2> QED
      BY <1>1, <1>2, <1>4, <2>1, <2>2, <2>3
  <1>5. CASE ~(client.view = "asking" /\ r = "OK" /\ client.asked.op \in {"Z", "z"})
    <2>1. Believed(r) = client.planted
      BY <1>5 DEF Believed
    <2>2. Len(toClient) = 1 /\ toClient[1] = r => \A a \in Addr : Change(a) = 0
      BY <1>5 DEF Change
    <2> QED
      BY <1>1, <1>2, <2>1, <2>2
  <1> QED
    BY <1>3, <1>4, <1>5

\* A reply answers what the debugger asked, unless its interrupt has crossed a stop.
LEMMA TakeReplyStep == ASSUME IInv, TakeReply PROVE IInv'
  <1> DEFINE r == Head(toClient)
             p == Believed(r)
  <1>1. /\ toClient # <<>> /\ client.view \in {"asking", "waiting"} /\ Attached
        /\ toClient' = Tail(toClient)
        /\ UNCHANGED <<arch, stub, core, loop, toStub, hist>>
    BY DEF TakeReply, Attached
  <1>2. client' = [client EXCEPT !.view = "stopped", !.asked = Nothing,
                                 !.intr = client.intr /\ r # "S02",
                                 !.crossed = client.crossed \/ (client.intr /\ r = "S05"),
                                 !.planted = p]
    BY DEF TakeReply
  <1>3. /\ client \in ClientType /\ client.intr \in BOOLEAN /\ client.crossed \in BOOLEAN
        /\ Nothing \in [op : {"none", "Z", "z"}, addr : Addr]
        /\ toClient \in Seq(Reply) /\ toStub \in Seq(Command) /\ Len(toStub) \in Nat
    BY TypeFacts, Constants DEF IInv, Nothing, ClientType
  <1>4. /\ toClient' \in Seq(Reply) /\ Len(toClient) \in Nat \ {0}
        /\ Len(toClient') = Len(toClient) - 1 /\ r = toClient[1]
    BY <1>1, <1>3, TailFacts
  <1>5. /\ p \in [Addr -> Nat]
        /\ Len(toClient) = 1 => \A a \in Addr : p[a] = client.planted[a] + Change(a)
        /\ client.view = "waiting" => p = client.planted
    BY <1>4, BelievedFacts
  <1> HIDE DEF p
  <1>6. /\ client' \in ClientType /\ client'.view = "stopped" /\ client'.planted = p
        /\ client'.asked = Nothing
    BY <1>2, <1>3, <1>5 DEF ClientType
  <1>7. /\ client'.intr <=> client.intr /\ r # "S02"
        /\ client'.crossed <=> client.crossed \/ (client.intr /\ r = "S05")
    BY <1>2, <1>3 DEF ClientType
  <1> HIDE DEF r
  <1>8. stub.client /\ Attached'
    BY <1>1, <1>6, AttachedIsServed DEF Attached
  <1>9. Sessions'
    BY <1>1, <1>8 DEF IInv, Sessions
  <1>10. ASSUME ~client'.crossed
         PROVE  /\ ~client'.intr /\ ~stub.running /\ Len(toStub) = 0 /\ Len(toClient') = 0
                /\ Len(toClient) = 1
    <2>1. ~client.crossed /\ ~(client.intr /\ r = "S05")
      BY <1>7, <1>10
    <2>2. CASE client.view = "asking"
      <3>1. ~client.intr /\ ~stub.running
        BY <1>1, <2>1, <2>2 DEF IInv, Talk
      <3>2. Len(toStub) = 0 /\ Len(toClient) = 1
        BY <1>1, <1>4, <2>1, <2>2 DEF IInv, Talk
      <3> QED
        BY <1>4, <1>7, <3>1, <3>2
    <2>3. CASE client.view = "waiting"
      <3>1. \/ Interrupts(0) /\ Len(toClient) = 1 /\ toClient[1] = "S05" /\ ~stub.running
            \/ /\ client.intr /\ Len(toStub) = 0 /\ ~stub.running
               /\ \/ Len(toClient) = 1 /\ toClient[1] = "S02"
                  \/ Len(toClient) = 2 /\ toClient[1] = "S05"
        BY <1>1, <1>4, <2>1, <2>3 DEF IInv, Talk
      <3>2. CASE Interrupts(0) /\ Len(toClient) = 1 /\ toClient[1] = "S05" /\ ~stub.running
        <4>1. ~client.intr
          BY <1>4, <2>1, <3>2
        <4>2. Len(toStub) = 0
          BY <3>2, <4>1 DEF Interrupts
        <4>3. ~client'.intr
          BY <1>7, <4>1
        <4> QED
          BY <1>4, <3>2, <4>2, <4>3
      <3>3. CASE /\ client.intr /\ Len(toStub) = 0 /\ ~stub.running
                 /\ Len(toClient) = 1 /\ toClient[1] = "S02"
        <4>1. ~client'.intr
          BY <1>4, <1>7, <3>3
        <4> QED
          BY <1>4, <3>3, <4>1
      <3>4. ~ (client.intr /\ Len(toClient) = 2 /\ toClient[1] = "S05")
        BY <1>4, <2>1
      <3> QED
        BY <3>1, <3>2, <3>3, <3>4
    <2> QED
      BY <1>1, <2>2, <2>3
  <1>11. Talk'
    <2> SUFFICES ASSUME ~client'.crossed
                 PROVE  ~client'.intr /\ ~stub'.running /\ Len(toStub') = 0 /\ Len(toClient') = 0
      BY <1>6 DEF Talk
    <2>1. ~stub'.running /\ Len(toStub') = 0
      BY <1>1, <1>10
    <2> QED
      BY <1>10, <2>1
  <1>12. \A a \in Addr : Change(a)' = 0
    BY <1>6 DEF Change
  <1>13. Table'
    <2>1. Len(stub'.bps) <= MaxBp
      BY <1>1 DEF IInv, Table
    <2>2. ~client'.crossed => \A a \in Addr : Count(stub.bps, a)' = client'.planted[a] + Change(a)'
      <3> SUFFICES ASSUME ~client'.crossed, NEW a \in Addr
                   PROVE  Count(stub.bps, a)' = client'.planted[a] + Change(a)'
        OBVIOUS
      <3>1. ~client.crossed
        BY <1>7
      <3>2. Count(stub.bps, a) = client.planted[a] + Change(a)
        BY <1>1, <3>1 DEF IInv, Table
      <3>3. p[a] = client.planted[a] + Change(a) /\ p[a] \in Nat
        BY <1>5, <1>10
      <3>4. Count(stub.bps, a)' = Count(stub.bps, a)
        BY <1>1 DEF Count
      <3>5. p[a] + 0 = p[a]
        BY <3>3
      <3> QED
        BY <1>6, <1>12, <3>2, <3>3, <3>4, <3>5
    <2> QED
      BY <1>6, <2>1, <2>2 DEF Table
  <1>14. toStub' \in Seq(Command)
    BY <1>1, <1>3
  <1> QED
    BY <1>1, <1>4, <1>6, <1>9, <1>11, <1>13, <1>14, ClientIInv

\* gdb_poll accepts a debugger: nothing is left of the session before.
LEMMA AcceptClientStep == ASSUME IInv, AcceptClient PROVE IInv'
  <1>1. /\ loop.at = "poll" /\ ~stub.client /\ client.view = "connecting"
        /\ stub' = Fresh /\ core' = [state |-> "RUNNING", pc |-> 0]
        /\ client' = [client EXCEPT !.view = "stopped", !.planted = NoBps,
                                    !.intr = FALSE, !.crossed = FALSE]
        /\ hist' = [mode |-> "none", executed |-> 0, trail |-> {}]
        /\ UNCHANGED <<arch, loop, toStub, toClient>>
    BY DEF AcceptClient
  <1>2. client \in ClientType /\ NoBps \in [Addr -> Nat]
    BY TypeFacts, Constants DEF IInv, NoBps
  <1>3. /\ client' \in ClientType /\ client'.view = "stopped" /\ client'.planted = NoBps
        /\ ~client'.intr
    BY <1>1, <1>2 DEF ClientType
  <1>4. <<>> \in Seq(Addr) /\ Len(<<>>) = 0
    BY EmptyFacts
  <1>5. /\ stub' \in StubType /\ stub'.client /\ ~stub'.running /\ ~stub'.single
        /\ stub'.bps = <<>> /\ stub'.resume = None
    BY <1>1, <1>4 DEF StubType, Fresh
  <1>6. core' \in CoreType /\ hist' \in HistType /\ hist'.mode = "none"
    BY <1>1, Constants DEF CoreType, HistType
  <1>7. TypeOK'
    BY <1>1, <1>3, <1>5, <1>6, TypeFacts, TypeNext DEF IInv
  <1>8. Len(toStub) = 0 /\ Len(toClient) = 0 /\ Attached'
    BY <1>1, <1>3 DEF IInv, Sessions, Attached
  <1>9. Len(toStub') = 0 /\ Len(toClient') = 0
    BY <1>1, <1>8
  <1>10. Sessions'
    BY <1>5, <1>8, <1>9 DEF Sessions
  <1>11. Talk'
    BY <1>3, <1>5, <1>9 DEF Talk
  <1>12. Table'
    <2>1. \A a \in Addr : Change(a)' = 0 /\ client'.planted[a] = 0
      BY <1>3 DEF Change, NoBps
    <2>2. \A a \in Addr : Count(stub.bps, a)' = 0
      <3>1. \A a \in Addr : Count(stub'.bps, a) = 0
        BY <1>5, CountEmpty
      <3> QED
        BY <3>1 DEF Count
    <2>3. Len(stub'.bps) <= MaxBp
      BY <1>4, <1>5, Constants
    <2> QED
      BY <1>3, <2>1, <2>2, <2>3 DEF Table
  <1>13. Running'
    BY <1>1, <1>5, <1>6 DEF Running
  <1> QED
    BY <1>7, <1>10, <1>11, <1>12, <1>13 DEF IInv
-----------------------------------------------------------------------------
(***************************************************************************)
(* handle_packet.                                                          *)
(***************************************************************************)
\* A command that ends the session is the last one of a debugger that has gone.
LEMMA CommandFacts ==
    ASSUME IInv, stub.client, toStub # <<>>, NEW cmd, cmd = Head(toStub), toStub' = Tail(toStub)
    PROVE  /\ cmd \in Command /\ cmd = toStub[1]
           /\ Len(toStub) \in Nat \ {0} /\ Len(toStub') \in Nat
           /\ toStub' \in Seq(Command) /\ Len(toStub') = Len(toStub) - 1
           /\ \A i \in 1..Len(toStub') : toStub'[i] = toStub[i + 1]
           /\ Len(toStub) > 1 => toStub'[1] = toStub[2]
           /\ cmd.op \in End <=> ~Attached /\ Len(toStub) = 1
  <1>1. toStub \in Seq(Command)
    BY TypeFacts DEF IInv
  <1>2. /\ cmd \in Command /\ cmd = toStub[1]
        /\ Len(toStub) \in Nat \ {0} /\ Len(toStub') \in Nat
        /\ toStub' \in Seq(Command) /\ Len(toStub') = Len(toStub) - 1
        /\ \A i \in 1..Len(toStub') : toStub'[i] = toStub[i + 1]
        /\ Len(toStub) > 1 => toStub'[1] = toStub[2]
    BY <1>1, TailFacts
  <1>3. \A i \in 1..Len(toStub) : toStub[i].op \in End <=> ~Attached /\ i = Len(toStub)
    BY DEF IInv, Sessions
  <1>4. 1 \in 1..Len(toStub)
    BY <1>2
  <1>5. cmd.op \in End <=> ~Attached /\ 1 = Len(toStub)
    BY <1>2, <1>3, <1>4
  <1> QED
    BY <1>2, <1>5

\* The session goes on.
LEMMA SessionGoesOn ==
    ASSUME IInv, stub.client, stub'.client, UNCHANGED client,
           toStub # <<>>, toStub' = Tail(toStub), Head(toStub).op \notin End,
           ~Attached => toClient' = toClient
    PROVE  Sessions'
  <1> DEFINE cmd == Head(toStub)
  <1>1. /\ Len(toStub) \in Nat \ {0} /\ Len(toStub') = Len(toStub) - 1
        /\ \A i \in 1..Len(toStub') : toStub'[i] = toStub[i + 1]
        /\ cmd.op \in End <=> ~Attached /\ Len(toStub) = 1
    BY CommandFacts
  <1>2. Attached' <=> Attached
    BY DEF Attached
  <1>3. ASSUME NEW i \in 1..Len(toStub')
        PROVE  toStub'[i].op \in End <=> ~Attached /\ i = Len(toStub')
    <2>1. i + 1 \in 1..Len(toStub) /\ toStub'[i] = toStub[i + 1]
          /\ (i = Len(toStub') <=> i + 1 = Len(toStub))
      BY <1>1, <1>3
    <2>2. toStub[i + 1].op \in End <=> ~Attached /\ i + 1 = Len(toStub)
      BY <2>1 DEF IInv, Sessions
    <2> QED
      BY <2>1, <2>2
  <1>4. ~Attached => Len(toStub) # 1
    BY <1>1
  <1>5. ~Attached => Len(toStub') > 0
    BY <1>1, <1>4
  <1>6. ~Attached => Len(toClient') = 0
    BY DEF IInv, Sessions
  <1> QED
    BY <1>2, <1>3, <1>5, <1>6 DEF Sessions

\* What the debugger is waiting for, from the command at the front of the socket.
LEMMA CommandTalk ==
    ASSUME IInv, Attached, ~client.crossed, NEW cmd \in Command, cmd = toStub[1],
           Len(toStub) \in Nat \ {0}
    PROVE  /\ cmd.op \in {"Z", "z", "G"} =>
                  /\ client.view = "asking" /\ ~client.intr /\ ~stub.running
                  /\ Len(toStub) = 1 /\ Len(toClient) = 0
                  /\ cmd = client.asked \/ (cmd.op = "G" /\ client.asked.op = "none")
           /\ cmd.op \in {"c", "s"} =>
                  /\ client.view = "waiting" /\ Interrupts(1) /\ Len(toClient) = 0
                  /\ ~stub.running
           /\ cmd.op = "INT" =>
                  /\ client.view = "waiting" /\ client.intr /\ Len(toStub) = 1
                  /\ \/ Len(toClient) = 0
                     \/ Len(toClient) = 1 /\ toClient[1] = "S05"
  <1>1. client.view \in {"stopped", "asking", "waiting"}
    BY DEF Attached
  <1>2. client.view # "stopped"
    BY DEF IInv, Talk
  <1>3. CASE client.view = "asking"
    <2>1. /\ Len(toStub) = 1 /\ Len(toClient) = 0
          /\ \/ toStub[1] = client.asked
             \/ toStub[1].op = "G" /\ client.asked.op = "none"
      BY <1>3 DEF IInv, Talk
    <2>2. ~client.intr /\ ~stub.running
      BY <1>3 DEF IInv, Talk
    <2>3. cmd = client.asked \/ (cmd.op = "G" /\ client.asked.op = "none")
      BY <2>1
    <2>4. client.asked.op \in {"none", "Z", "z"}
      BY TypeFacts DEF IInv
    <2>5. cmd.op \notin {"c", "s", "INT"}
      BY <2>3, <2>4
    <2> QED
      BY <1>3, <2>1, <2>2, <2>3, <2>5
  <1>4. CASE client.view = "waiting"
    <2>1. \/ /\ Interrupts(1) /\ toStub[1].op \in {"c", "s"} /\ Len(toClient) = 0
             /\ ~stub.running
          \/ Interrupts(0) /\ Len(toClient) = 0
          \/ Interrupts(0) /\ Len(toClient) = 1 /\ toClient[1] = "S05"
      BY <1>4 DEF IInv, Talk
    <2>2. CASE /\ Interrupts(1) /\ toStub[1].op \in {"c", "s"} /\ Len(toClient) = 0
               /\ ~stub.running
      BY <1>4, <2>2
    <2>3. CASE Interrupts(0)
      <3>1. client.intr
        BY <2>3 DEF Interrupts
      <3>2. Len(toStub) = 1 /\ toStub[0 + 1].op = "INT"
        BY <2>3, <3>1 DEF Interrupts
      <3>3. toStub[1].op = "INT"
        BY <3>2
      <3>4. Len(toClient) = 0 \/ (Len(toClient) = 1 /\ toClient[1] = "S05")
        BY <2>1, <3>3
      <3> QED
        BY <1>4, <3>1, <3>2, <3>3, <3>4
    <2> QED
      BY <2>1, <2>2, <2>3
  <1> QED
    BY <1>1, <1>2, <1>3, <1>4

\* The start of handling a command.
Taken(cmd) ==
    /\ loop.at = "poll" /\ stub.client /\ toStub # <<>> /\ cmd = Head(toStub)
    /\ toStub' = Tail(toStub) /\ UNCHANGED <<arch, client, loop>>

\* 'c' and 's'.
LEMMA ResumeStep ==
    ASSUME IInv, NEW cmd \in Command, Taken(cmd), cmd.op \in {"c", "s"},
           IF cmd.op = "c" THEN Continue ELSE SingleStep
    PROVE  IInv'
  <1>1. /\ TypeOK /\ Running /\ loop.at = "poll" /\ stub.client /\ toStub # <<>>
        /\ cmd = Head(toStub) /\ toStub' = Tail(toStub) /\ UNCHANGED <<arch, client, loop>>
    BY DEF Taken, IInv
  <1>2. /\ core' = [core EXCEPT !.state = "RUNNING"] /\ UNCHANGED toClient
        /\ hist' = [mode |-> cmd.op, executed |-> 0, trail |-> {}]
    BY DEF Continue, SingleStep, Resumed
  <1>3. \/ /\ cmd.op = "c"
           /\ stub' = [stub EXCEPT !.single = FALSE, !.resume = core.pc, !.running = TRUE]
        \/ cmd.op = "s" /\ stub' = [stub EXCEPT !.single = TRUE, !.running = TRUE]
    BY DEF Continue, SingleStep
  <1>4. stub \in StubType /\ core \in CoreType /\ core.pc \in Addr
    BY <1>1, TypeFacts
  <1>5. /\ stub' \in StubType /\ stub'.client /\ stub'.running /\ stub'.bps = stub.bps
        /\ stub'.single <=> cmd.op = "s"
    BY <1>1, <1>3, <1>4 DEF StubType
  <1>6. core' \in CoreType /\ core'.state = "RUNNING"
    BY <1>2, <1>4 DEF CoreType
  <1>7. hist' \in HistType /\ hist'.mode = cmd.op /\ hist'.executed = 0 /\ hist'.trail = {}
    BY <1>2 DEF HistType
  <1>8. /\ cmd = toStub[1] /\ Len(toStub) \in Nat \ {0} /\ Len(toStub') = Len(toStub) - 1
        /\ toStub' \in Seq(Command) /\ (Len(toStub) > 1 => toStub'[1] = toStub[2])
    BY <1>1, CommandFacts
  <1>9. TypeOK'
    BY <1>1, <1>2, <1>5, <1>6, <1>7, <1>8, TypeFacts, TypeNext
  <1>10. Head(toStub).op \notin End
    BY <1>1 DEF End
  <1>11. Sessions'
    BY <1>1, <1>2, <1>5, <1>10, SessionGoesOn
  <1>12. Talk'
    <2> SUFFICES ASSUME Attached, ~client.crossed
                 PROVE  Talk'
      BY <1>1 DEF Talk, Attached
    <2>1. client.view = "waiting" /\ Interrupts(1) /\ Len(toClient) = 0
      BY <1>8, CommandTalk
    <2>2. Len(toStub) = 1 + (IF client.intr THEN 1 ELSE 0) /\ (client.intr => toStub[1 + 1].op = "INT")
      BY <2>1 DEF Interrupts
    <2>3. Len(toStub') = 0 + (IF client.intr THEN 1 ELSE 0)
      BY <1>8, <2>2
    <2>4. client.intr => toStub'[0 + 1].op = "INT"
      <3> SUFFICES ASSUME client.intr
                   PROVE  toStub'[0 + 1].op = "INT"
        OBVIOUS
      <3>1. Len(toStub) = 2 /\ toStub[2].op = "INT"
        BY <2>2
      <3> QED
        BY <1>8, <3>1
    <2>5. Interrupts(0)'
      BY <1>1, <2>3, <2>4 DEF Interrupts
    <2>6. client'.view = "waiting" /\ Len(toClient') = 0 /\ stub'.running
      BY <1>1, <1>2, <1>5, <2>1
    <2> QED
      BY <2>5, <2>6 DEF Talk
  <1>13. Table'
    BY <1>1, <1>2, <1>5 DEF IInv, Table, Attached, Change, Count
  <1>14. Running'
    BY <1>1, <1>5, <1>6, <1>7 DEF Running
  <1> QED
    BY <1>9, <1>11, <1>12, <1>13, <1>14 DEF IInv

\* 'Z', 'z' and 'G': one command, one answer.
LEMMA AnswerStep ==
    ASSUME IInv, NEW cmd \in Command, Taken(cmd), cmd.op \in {"Z", "z", "G"},
           NEW r \in {"OK", "E01"}, toClient' = Sent(r), UNCHANGED hist,
           stub' \in StubType, stub'.client, stub'.running <=> stub.running,
           stub'.single <=> stub.single, stub'.resume = stub.resume,
           core' \in CoreType, core'.state = core.state,
           Len(stub'.bps) <= MaxBp,
           Count(stub.bps, cmd.addr) > 0 \/ cmd.op # "z" =>
               \A a \in Addr : Count(stub'.bps, a) = Count(stub.bps, a)
                   + (IF r = "OK" /\ a = cmd.addr
                      THEN IF cmd.op = "Z" THEN 1 ELSE IF cmd.op = "z" THEN 0 - 1 ELSE 0
                      ELSE 0)
    PROVE  IInv'
  <1>1. /\ TypeOK /\ Running /\ loop.at = "poll" /\ stub.client /\ toStub # <<>>
        /\ cmd = Head(toStub) /\ toStub' = Tail(toStub) /\ UNCHANGED <<arch, client, loop>>
        /\ r \in Reply
    BY DEF Taken, IInv, Reply
  <1>2. /\ cmd = toStub[1] /\ Len(toStub) \in Nat \ {0} /\ Len(toStub') = Len(toStub) - 1
        /\ toStub' \in Seq(Command)
    BY <1>1, CommandFacts
  <1>3. toClient' \in Seq(Reply) /\ (~Attached => toClient' = toClient)
        /\ Len(toClient) \in Nat
    BY <1>1, SentFacts, TypeFacts
  <1>4. TypeOK'
    BY <1>1, <1>2, <1>3, TypeFacts, TypeNext
  <1>5. Head(toStub).op \notin End
    BY <1>1 DEF End
  <1>6. Sessions'
    BY <1>1, <1>3, <1>5, SessionGoesOn
  <1>7. Running'
    BY <1>1 DEF Running
  <1>8. Attached' <=> Attached
    BY <1>1 DEF Attached
  <1>9. ASSUME Attached, ~client.crossed
        PROVE  /\ client.view = "asking" /\ ~client.intr /\ ~stub.running
               /\ Len(toStub') = 0 /\ Len(toClient') = 1 /\ toClient'[1] = r
               /\ Len(toClient) = 0
               /\ cmd = client.asked \/ (cmd.op = "G" /\ client.asked.op = "none")
    <2>1. /\ client.view = "asking" /\ ~client.intr /\ ~stub.running
          /\ Len(toStub) = 1 /\ Len(toClient) = 0
          /\ cmd = client.asked \/ (cmd.op = "G" /\ client.asked.op = "none")
      BY <1>2, <1>9, CommandTalk
    <2>2. Len(toClient') = Len(toClient) + 1 /\ toClient'[1] = r
      BY <1>1, <1>9, <2>1, SentFacts
    <2> QED
      BY <1>2, <2>1, <2>2
  <1>10. Talk'
    <2> SUFFICES ASSUME Attached, ~client.crossed
                 PROVE  Talk'
      BY <1>1, <1>8 DEF Talk
    <2>1. client'.view = "asking" /\ ~client'.intr /\ ~stub'.running
      BY <1>1, <1>9
    <2>2. Len(toStub') = 0 /\ Len(toClient') = 1 /\ toClient'[1] \in {"OK", "E01"}
      BY <1>9
    <2> QED
      BY <2>1, <2>2 DEF Talk
  <1>11. Table'
    <2>1. client'.view = "asking" /\ client'.asked.op = "z" => client'.planted[client'.asked.addr] > 0
      BY <1>1 DEF IInv, Table
    <2>2. ASSUME Attached, ~client.crossed, NEW a \in Addr
          PROVE  Count(stub'.bps, a) = client.planted[a] + Change(a)'
      <3>1. /\ Len(toClient) = 0 /\ client.view = "asking"
            /\ cmd = client.asked \/ (cmd.op = "G" /\ client.asked.op = "none")
            /\ Len(toClient') = 1 /\ toClient'[1] = r
        BY <1>9, <2>2
      <3>2. \A b \in Addr : Change(b) = 0
        BY <3>1 DEF Change
      <3>3. \A b \in Addr : Count(stub.bps, b) = client.planted[b] + 0
        BY <2>2, <3>2 DEF IInv, Table
      <3>4. cmd.addr \in Addr /\ \A b \in Addr : client.planted[b] \in Nat
        BY <1>1, Words, TypeFacts
      <3>5. cmd.op = "z" => Count(stub.bps, cmd.addr) > 0
        <4> SUFFICES ASSUME cmd.op = "z"
                     PROVE  Count(stub.bps, cmd.addr) > 0
          OBVIOUS
        <4>1. cmd = client.asked
          BY <3>1
        <4>2. client.planted[cmd.addr] > 0
          BY <3>1, <4>1 DEF IInv, Table
        <4> QED
          BY <3>3, <3>4, <4>2
      <3>6. Count(stub'.bps, a) = Count(stub.bps, a)
                   + (IF r = "OK" /\ a = cmd.addr
                      THEN IF cmd.op = "Z" THEN 1 ELSE IF cmd.op = "z" THEN 0 - 1 ELSE 0
                      ELSE 0)
        BY <2>2, <3>5
      <3>7. Change(a)' = IF r = "OK" /\ a = cmd.addr
                         THEN IF cmd.op = "Z" THEN 1 ELSE IF cmd.op = "z" THEN 0 - 1 ELSE 0
                         ELSE 0
        <4>1. Change(a)' = IF r = "OK" /\ client.asked.addr = a
                           THEN IF client.asked.op = "Z" THEN 1
                                ELSE IF client.asked.op = "z" THEN 0 - 1 ELSE 0
                           ELSE 0
          BY <1>1, <3>1 DEF Change
        <4>2. CASE cmd = client.asked
          BY <4>1, <4>2
        <4>3. CASE cmd.op = "G" /\ client.asked.op = "none"
          BY <4>1, <4>3
        <4> QED
          BY <3>1, <4>2, <4>3
      <3>8. client.planted[a] + 0 = client.planted[a]
        BY <2>2, <3>4
      <3> QED
        BY <2>2, <3>3, <3>6, <3>7, <3>8
    <2>3. ASSUME Attached', ~client'.crossed, NEW a \in Addr
          PROVE  Count(stub.bps, a)' = client'.planted[a] + Change(a)'
      <3>1. Attached /\ ~client.crossed /\ client' = client
        BY <1>1, <1>8, <2>3
      <3>2. Count(stub'.bps, a) = client'.planted[a] + Change(a)'
        BY <2>2, <3>1
      <3> QED
        BY <3>2 DEF Count
    <2> QED
      BY <2>1, <2>3 DEF Table
  <1> QED
    BY <1>4, <1>6, <1>7, <1>10, <1>11 DEF IInv

LEMMA SetBreakpointStep ==
    ASSUME IInv, NEW cmd \in Command, Taken(cmd), cmd.op = "Z", SetBreakpoint(cmd.addr)
    PROVE  IInv'
  <1>1. /\ TypeOK /\ stub \in StubType /\ stub.bps \in Seq(Addr) /\ stub.client
        /\ core \in CoreType /\ cmd.addr \in Addr /\ UNCHANGED <<core, loop, hist>>
    BY TypeFacts, Words DEF SetBreakpoint, IInv, Taken
  <1>2. \A a \in Addr : Count(stub.bps, a) \in Nat
    BY <1>1, PlacesFacts
  <1>3. Len(stub.bps) <= MaxBp /\ Len(stub.bps) \in Nat
    BY <1>1 DEF IInv, Table
  <1>4. CASE Len(stub.bps) >= MaxBp
    <2>1. toClient' = Sent("E01") /\ stub' = stub
      BY <1>4 DEF SetBreakpoint
    <2>2. \A a \in Addr : Count(stub'.bps, a) = Count(stub.bps, a) + 0
      BY <1>2, <2>1
    <2> QED
      BY <1>1, <1>3, <2>1, <2>2, AnswerStep
  <1>5. CASE ~(Len(stub.bps) >= MaxBp)
    <2>1. toClient' = Sent("OK") /\ stub' = [stub EXCEPT !.bps = Append(stub.bps, cmd.addr)]
      BY <1>5 DEF SetBreakpoint
    <2>2. /\ Append(stub.bps, cmd.addr) \in Seq(Addr)
          /\ Len(Append(stub.bps, cmd.addr)) = Len(stub.bps) + 1
      BY <1>1
    <2>3. /\ stub' \in StubType /\ stub'.client /\ (stub'.running <=> stub.running)
          /\ (stub'.single <=> stub.single) /\ stub'.resume = stub.resume
          /\ stub'.bps = Append(stub.bps, cmd.addr)
      BY <1>1, <2>1, <2>2 DEF StubType
    <2>4. Len(stub'.bps) <= MaxBp
      BY <1>3, <1>5, <2>2, <2>3, Constants
    <2>5. \A a \in Addr : Count(stub'.bps, a) = Count(stub.bps, a) + (IF a = cmd.addr THEN 1 ELSE 0)
      BY <1>1, <2>3, CountAppend
    <2>6. \A a \in Addr : Count(stub'.bps, a) = Count(stub.bps, a)
              + (IF "OK" = "OK" /\ a = cmd.addr
                 THEN IF cmd.op = "Z" THEN 1 ELSE IF cmd.op = "z" THEN 0 - 1 ELSE 0
                 ELSE 0)
      BY <2>5
    <2> QED
      BY <1>1, <2>1, <2>3, <2>4, <2>6, AnswerStep
  <1> QED
    BY <1>4, <1>5

LEMMA ClearBreakpointStep ==
    ASSUME IInv, NEW cmd \in Command, Taken(cmd), cmd.op = "z", ClearBreakpoint(cmd.addr)
    PROVE  IInv'
  <1>1. /\ TypeOK /\ stub \in StubType /\ stub.bps \in Seq(Addr) /\ stub.client
        /\ core \in CoreType /\ cmd.addr \in Addr /\ UNCHANGED <<core, loop, hist>>
        /\ toClient' = Sent("OK")
    BY TypeFacts, Words DEF ClearBreakpoint, IInv, Taken
  <1>2. stub' = [stub EXCEPT !.bps = WithoutFirst(cmd.addr)]
    BY DEF ClearBreakpoint
  <1>3. /\ WithoutFirst(cmd.addr) \in Seq(Addr) /\ Len(WithoutFirst(cmd.addr)) <= Len(stub.bps)
        /\ Count(stub.bps, cmd.addr) > 0 =>
               \A a \in Addr : Count(WithoutFirst(cmd.addr), a)
                                   = Count(stub.bps, a) - (IF a = cmd.addr THEN 1 ELSE 0)
    BY <1>1, CountWithoutFirst
  <1>4. /\ stub' \in StubType /\ stub'.client /\ (stub'.running <=> stub.running)
        /\ (stub'.single <=> stub.single) /\ stub'.resume = stub.resume
        /\ stub'.bps = WithoutFirst(cmd.addr)
    BY <1>1, <1>2, <1>3 DEF StubType
  <1>5. Len(stub.bps) <= MaxBp /\ Len(stub.bps) \in Nat /\ Len(stub'.bps) \in Nat
    BY <1>1, <1>3, <1>4 DEF IInv, Table
  <1>6. Len(stub'.bps) <= MaxBp
    BY <1>3, <1>4, <1>5, Constants
  <1>7. \A a \in Addr : Count(stub.bps, a) \in Nat
    BY <1>1, PlacesFacts
  <1>8. Count(stub.bps, cmd.addr) > 0 =>
            \A a \in Addr : Count(stub'.bps, a) = Count(stub.bps, a)
                + (IF "OK" = "OK" /\ a = cmd.addr
                   THEN IF cmd.op = "Z" THEN 1 ELSE IF cmd.op = "z" THEN 0 - 1 ELSE 0
                   ELSE 0)
    BY <1>3, <1>4, <1>7
  <1> QED
    BY <1>1, <1>4, <1>6, <1>8, AnswerStep

LEMMA WriteRegistersStep ==
    ASSUME IInv, NEW cmd \in Command, Taken(cmd), cmd.op = "G", WriteRegisters(cmd.addr)
    PROVE  IInv'
  <1>1. /\ TypeOK /\ stub \in StubType /\ stub.bps \in Seq(Addr) /\ stub.client
        /\ core \in CoreType /\ cmd.addr \in Addr /\ UNCHANGED <<stub, loop, hist>>
        /\ core' = [core EXCEPT !.pc = cmd.addr] /\ toClient' = Sent("OK")
    BY TypeFacts, Words DEF WriteRegisters, IInv, Taken
  <1>2. core' \in CoreType /\ core'.state = core.state
    BY <1>1 DEF CoreType
  <1>3. \A a \in Addr : Count(stub.bps, a) \in Nat
    BY <1>1, PlacesFacts
  <1>4. \A a \in Addr : Count(stub'.bps, a) = Count(stub.bps, a)
            + (IF "OK" = "OK" /\ a = cmd.addr
               THEN IF cmd.op = "Z" THEN 1 ELSE IF cmd.op = "z" THEN 0 - 1 ELSE 0
               ELSE 0)
    BY <1>1, <1>3
  <1>5. Len(stub'.bps) <= MaxBp
    BY <1>1 DEF IInv, Table
  <1> QED
    BY <1>1, <1>2, <1>4, <1>5, AnswerStep

\* 'D', 'k' and the end of the stream.
LEMMA DetachStep ==
    ASSUME IInv, NEW cmd \in Command, Taken(cmd), cmd.op \in End,
           NEW keep \in BOOLEAN, Detach(keep)
    PROVE  IInv'
  <1>1. /\ TypeOK /\ loop.at = "poll" /\ stub.client /\ toStub # <<>>
        /\ cmd = Head(toStub) /\ toStub' = Tail(toStub) /\ UNCHANGED <<arch, client, loop>>
        /\ UNCHANGED <<core, toClient>>
    BY DEF Taken, IInv, Detach
  <1>2. /\ cmd = toStub[1] /\ Len(toStub) \in Nat \ {0} /\ Len(toStub') = Len(toStub) - 1
        /\ toStub' \in Seq(Command)
        /\ cmd.op \in End <=> ~Attached /\ Len(toStub) = 1
    BY <1>1, CommandFacts
  <1>3. ~Attached /\ Len(toStub') = 0
    BY <1>2
  <1>4. <<>> \in Seq(Addr) /\ Len(<<>>) = 0 /\ stub \in StubType /\ stub.bps \in Seq(Addr)
    BY <1>1, EmptyFacts, TypeFacts
  <1>5. /\ stub' \in StubType /\ ~stub'.client /\ stub'.running /\ ~stub'.single
        /\ stub'.bps = stub.bps \/ stub'.bps = <<>>
    <2>1. stub' = [stub EXCEPT !.client = FALSE, !.running = TRUE, !.single = FALSE,
                               !.bps = IF keep THEN stub.bps ELSE <<>>]
      BY DEF Detach, Departed
    <2> QED
      BY <1>4, <2>1 DEF StubType
  <1>6. hist' \in HistType /\ hist'.mode # "s" /\ hist'.trail = {}
    <2>1. hist' = [mode |-> IF keep THEN "lost" ELSE "detached", executed |-> 0, trail |-> {}]
      BY DEF Detach, Resumed
    <2> QED
      BY <2>1 DEF HistType
  <1>7. TypeOK'
    BY <1>1, <1>2, <1>5, <1>6, TypeFacts, TypeNext
  <1>8. ~Attached' /\ Len(toClient') = 0
    BY <1>1, <1>3 DEF Attached, IInv, Sessions
  <1>9. Sessions'
    BY <1>3, <1>5, <1>8 DEF Sessions
  <1>10. Talk'
    BY <1>8 DEF Talk
  <1>11. Table'
    <2>1. Len(stub'.bps) <= MaxBp
      BY <1>4, <1>5, Constants DEF IInv, Table
    <2>2. client'.view # "asking"
      BY <1>8 DEF Attached
    <2> QED
      BY <1>8, <2>1, <2>2 DEF Table
  <1>12. Running'
    BY <1>5, <1>6 DEF Running
  <1> QED
    BY <1>7, <1>9, <1>10, <1>11, <1>12 DEF IInv

\* The interrupt byte.
LEMMA HaltStep ==
    ASSUME IInv, NEW cmd \in Command, Taken(cmd), cmd.op = "INT", Halt
    PROVE  IInv'
  <1>1. /\ TypeOK /\ Running /\ loop.at = "poll" /\ stub.client /\ toStub # <<>>
        /\ cmd = Head(toStub) /\ toStub' = Tail(toStub) /\ UNCHANGED <<arch, client, loop>>
        /\ UNCHANGED <<core, hist>> /\ toClient' = Sent("S02") /\ "S02" \in Reply
        /\ stub' = [stub EXCEPT !.running = FALSE, !.single = FALSE]
    BY DEF Taken, IInv, Halt, Reply
  <1>2. /\ cmd = toStub[1] /\ Len(toStub) \in Nat \ {0} /\ Len(toStub') = Len(toStub) - 1
        /\ toStub' \in Seq(Command)
    BY <1>1, CommandFacts
  <1>3. toClient' \in Seq(Reply) /\ (~Attached => toClient' = toClient)
    BY <1>1, SentFacts
  <1>4. /\ stub' \in StubType /\ stub'.client /\ ~stub'.running /\ ~stub'.single
        /\ stub'.bps = stub.bps /\ stub'.resume = stub.resume
    BY <1>1, TypeFacts DEF StubType
  <1>5. TypeOK'
    BY <1>1, <1>2, <1>3, <1>4, TypeFacts, TypeNext
  <1>6. Head(toStub).op \notin End
    BY <1>1 DEF End
  <1>7. Sessions'
    BY <1>1, <1>3, <1>4, <1>6, SessionGoesOn
  <1>8. Attached' <=> Attached
    BY <1>1 DEF Attached
  <1>9. ASSUME Attached, ~client.crossed
        PROVE  /\ client.view = "waiting" /\ client.intr /\ Len(toStub') = 0
               /\ \/ Len(toClient') = 1 /\ toClient'[1] = "S02"
                  \/ Len(toClient') = 2 /\ toClient'[1] = "S05" /\ toClient'[2] = "S02"
    <2>1. /\ client.view = "waiting" /\ client.intr /\ Len(toStub) = 1
          /\ Len(toClient) = 0 \/ (Len(toClient) = 1 /\ toClient[1] = "S05")
      BY <1>2, <1>9, CommandTalk
    <2>2. /\ Len(toClient') = Len(toClient) + 1
          /\ Len(toClient) = 0 => toClient'[1] = "S02"
          /\ Len(toClient) = 1 => toClient'[1] = toClient[1] /\ toClient'[2] = "S02"
      BY <1>1, <1>9, SentFacts
    <2>3. \/ Len(toClient') = 1 /\ toClient'[1] = "S02"
          \/ Len(toClient') = 2 /\ toClient'[1] = "S05" /\ toClient'[2] = "S02"
      <3>1. CASE Len(toClient) = 0
        BY <2>2, <3>1
      <3>2. CASE Len(toClient) = 1 /\ toClient[1] = "S05"
        BY <2>2, <3>2
      <3> QED
        BY <2>1, <3>1, <3>2
    <2>4. Len(toStub') = 0
      BY <1>2, <2>1
    <2> QED
      BY <2>1, <2>3, <2>4
  <1>10. Talk'
    <2> SUFFICES ASSUME Attached, ~client.crossed
                 PROVE  Talk'
      BY <1>1, <1>8 DEF Talk
    <2>1. client'.view = "waiting" /\ client'.intr /\ ~stub'.running /\ Len(toStub') = 0
      BY <1>1, <1>4, <1>9
    <2>2. \/ Len(toClient') = 1 /\ toClient'[1] = "S02"
          \/ Len(toClient') = 2 /\ toClient'[1] = "S05" /\ toClient'[2] = "S02"
      BY <1>9
    <2> QED
      BY <2>1, <2>2 DEF Talk
  <1>11. client.view = "waiting" => \A a \in Addr : Change(a) = 0 /\ Change(a)' = 0
    BY <1>1 DEF Change
  <1>12. Table'
    BY <1>1, <1>4, <1>8, <1>9, <1>11 DEF IInv, Table, Count
  <1>13. hist.mode = "s" => hist.executed <= 1
    BY <1>1 DEF Running
  <1>14. Running'
    BY <1>1, <1>4, <1>13 DEF Running
  <1> QED
    BY <1>5, <1>7, <1>10, <1>12, <1>14 DEF IInv

LEMMA HandlePacketStep == ASSUME IInv, HandlePacket PROVE IInv'
  <1> DEFINE cmd == Head(toStub)
  <1>1. loop.at = "poll" /\ stub.client /\ toStub # <<>> /\ toStub' = Tail(toStub)
        /\ UNCHANGED <<arch, client>>
    BY DEF HandlePacket
  <1>2. cmd \in Command
    BY <1>1, CommandFacts
  <1>3. cmd.op \in {"c", "s", "D", "k", "INT", "EOF", "Z", "z", "G"}
    BY <1>2, Words
  <1>4. /\ cmd.op = "c" => Continue
        /\ cmd.op = "s" => SingleStep
        /\ cmd.op = "Z" => SetBreakpoint(cmd.addr)
        /\ cmd.op = "z" => ClearBreakpoint(cmd.addr)
        /\ cmd.op = "G" => WriteRegisters(cmd.addr)
        /\ cmd.op \in {"D", "k"} => Detach(FALSE)
        /\ cmd.op = "EOF" => Detach(TRUE)
        /\ cmd.op = "INT" => Halt
    BY DEF HandlePacket
  <1>5. UNCHANGED loop
    BY <1>3, <1>4 DEF Continue, SingleStep, SetBreakpoint, ClearBreakpoint, WriteRegisters,
                      Detach, Halt
  <1>6. Taken(cmd)
    BY <1>1, <1>5 DEF Taken
  <1> HIDE DEF cmd
  <1>7. CASE cmd.op \in {"c", "s"}
    BY <1>2, <1>4, <1>6, <1>7, ResumeStep
  <1>8. CASE cmd.op = "Z"
    BY <1>2, <1>4, <1>6, <1>8, SetBreakpointStep
  <1>9. CASE cmd.op = "z"
    BY <1>2, <1>4, <1>6, <1>9, ClearBreakpointStep
  <1>10. CASE cmd.op = "G"
    BY <1>2, <1>4, <1>6, <1>10, WriteRegistersStep
  <1>11. CASE cmd.op \in {"D", "k"}
    BY <1>2, <1>4, <1>6, <1>11, DetachStep DEF End
  <1>12. CASE cmd.op = "EOF"
    BY <1>2, <1>4, <1>6, <1>12, DetachStep DEF End
  <1>13. CASE cmd.op = "INT"
    BY <1>2, <1>4, <1>6, <1>13, HaltStep
  <1> QED
    BY <1>3, <1>7, <1>8, <1>9, <1>10, <1>11, <1>12, <1>13
-----------------------------------------------------------------------------
(***************************************************************************)
(* The inductive invariant, and what follows from it.                      *)
(***************************************************************************)
LEMMA InitIInv == Init => IInv
  <1> SUFFICES ASSUME Init
               PROVE  IInv
    OBVIOUS
  <1>1. /\ <<>> \in Seq(Addr) /\ <<>> \in Seq(Command) /\ <<>> \in Seq(Reply)
        /\ Len(<<>>) = 0
    BY EmptyFacts
  <1>2. NoBps \in [Addr -> Nat] /\ Nothing \in [op : {"none", "Z", "z"}, addr : Addr]
    BY Constants DEF NoBps, Nothing
  <1>3. TypeOK
    BY <1>1, <1>2, Constants DEF Init, TypeOK
  <1>4. Sessions
    BY <1>1 DEF Init, Sessions, Attached
  <1>5. Talk
    BY DEF Init, Talk, Attached
  <1>6. Table
    BY <1>1, Constants DEF Init, Table, Attached
  <1>7. Running
    BY DEF Init, Running
  <1> QED
    BY <1>3, <1>4, <1>5, <1>6, <1>7 DEF IInv

LEMMA NextStep == IInv /\ [Next]_vars => IInv'
  <1> SUFFICES ASSUME IInv, [Next]_vars
               PROVE  IInv'
    OBVIOUS
  <1>1. CASE ClientStep
    BY <1>1, ConnectStep, AskAnyStep, InterruptStep, CloseStep, TakeReplyStep DEF ClientStep
  <1>2. CASE LoopStep
    BY <1>2, AcceptClientStep, HandlePacketStep, PollDoneStep, ReportStopStep, SleepCycleStep,
       EndBatchStep, LeaveBatchStep, HitBreakpointStep, StepCoreStep DEF LoopStep
  <1>3. CASE UNCHANGED vars
    <2>1. UNCHANGED <<arch, stub, core, loop, toStub, toClient, client, hist>>
      BY <1>3 DEF vars
    <2>2. Sessions' /\ Talk' /\ Table'
      BY <2>1, QuietStep
    <2>3. TypeOK'
      BY <2>1 DEF IInv, TypeOK
    <2>4. Running'
      BY <2>1 DEF IInv, Running
    <2> QED
      BY <2>2, <2>3, <2>4 DEF IInv
  <1> QED
    BY <1>1, <1>2, <1>3 DEF Next

LEMMA Invariance == Spec => []IInv
  BY InitIInv, NextStep, PTL DEF Spec

(***************************************************************************)
(* The state of gdb_stub.c, of the run loop and of the connection keeps    *)
(* its types; in particular the counter of the batch stays within it.      *)
(***************************************************************************)
THEOREM TypeCorrect == Spec => []TypeOK
  <1>1. IInv => TypeOK
    BY DEF IInv
  <1> QED
    BY <1>1, Invariance, PTL

(***************************************************************************)
(* run_avr and run_mcs51 execute nothing while the debugger, having read   *)
(* its stop reply, looks at registers and memory.                          *)
(***************************************************************************)
THEOREM NothingRunsWhenStopped == Spec => []StoppedMeansStopped
  <1>1. IInv => StoppedMeansStopped
    <2> SUFFICES ASSUME IInv, client.view \in {"stopped", "asking"}, ~client.crossed
                 PROVE  ~stub.running /\ loop.at = "poll"
      BY DEF StoppedMeansStopped
    <2>1. Attached /\ client.view # "waiting"
      BY DEF Attached
    <2>2. ~stub.running
      BY <2>1 DEF IInv, Talk
    <2> QED
      BY <2>2 DEF IInv, Running
  <1> QED
    BY <1>1, Invariance, PTL

(***************************************************************************)
(* Up to a crossing, the stub's is_running and the messages on their way   *)
(* agree while the debugger waits: it lets the core run only while no      *)
(* reply is under way, and gdb_notify_stop never has two stops on the way. *)
(***************************************************************************)
THEOREM StopsAreReportedOnce == Spec => []StopReportedOnce
  <1>1. IInv => StopReportedOnce
    <2> SUFFICES ASSUME IInv, client.view = "waiting", ~client.crossed
                 PROVE  /\ toStub = <<>> /\ toClient = <<>> => stub.running
                        /\ toClient # <<>> => ~stub.running /\ Count(toClient, "S05") <= 1
      BY DEF StopReportedOnce
    <2>1. /\ toClient \in Seq(Reply) /\ Len(toClient) \in Nat /\ Len(toStub) \in Nat
          /\ toStub \in Seq(Command)
      BY TypeFacts DEF IInv
    <2>2. \/ Interrupts(1) /\ Len(toClient) = 0
          \/ Interrupts(0) /\ Len(toClient) = 0 /\ stub.running
          \/ Interrupts(0) /\ Len(toClient) = 1 /\ ~stub.running
          \/ /\ client.intr /\ Len(toStub) = 0 /\ ~stub.running
             /\ Len(toClient) = 1 \/ (Len(toClient) = 2 /\ toClient[2] = "S02")
      BY DEF IInv, Talk, Attached
    <2>3. Interrupts(1) => Len(toStub) # 0
      BY <2>1 DEF Interrupts
    <2>4. toStub = <<>> /\ toClient = <<>> => stub.running
      <3>1. toStub = <<>> /\ toClient = <<>> => Len(toStub) = 0 /\ Len(toClient) = 0
        BY EmptyFacts
      <3> QED
        BY <2>2, <2>3, <3>1
    <2>5. Len(toClient) <= 2 /\ (Len(toClient) = 2 => toClient[2] = "S02")
      <3>1. \/ Len(toClient) \in {0, 1}
            \/ Len(toClient) = 2 /\ toClient[2] = "S02"
        BY <2>2
      <3>2. Len(toClient) <= 2
        BY <3>1
      <3>3. Len(toClient) \in {0, 1} => Len(toClient) # 2
        OBVIOUS
      <3> QED
        BY <3>1, <3>2, <3>3
    <2>6. Count(toClient, "S05") <= 1
      <3>1. Places(toClient, "S05") \subseteq {1}
        <4> SUFFICES ASSUME NEW i \in 1..Len(toClient), toClient[i] = "S05"
                     PROVE  i = 1
          BY DEF Places
        <4> DEFINE n == Len(toClient)
        <4>1. n \in Nat /\ n <= 2 /\ i \in 1..n
          BY <2>1, <2>5
        <4>2. n = 2 => i # 2
          BY <2>5
        <4> HIDE DEF n
        <4>3. i \in Nat /\ 1 <= i /\ i <= n
          BY <4>1
        <4> QED
          BY <4>1, <4>2, <4>3
      <3>2. IsFiniteSet({1}) /\ Cardinality({1}) = 1
        BY FS_Singleton
      <3>3. Cardinality(Places(toClient, "S05")) <= Cardinality({1})
        BY <3>1, <3>2, FS_Subset
      <3>4. Count(toClient, "S05") = Cardinality(Places(toClient, "S05"))
        BY <2>1, PlacesFacts
      <3> QED
        BY <3>2, <3>3, <3>4
    <2>7. toClient # <<>> => ~stub.running
      <3>1. toClient # <<>> => Len(toClient) # 0
        BY <2>1, EmptyFacts
      <3> QED
        BY <2>2, <3>1
    <2> QED
      BY <2>4, <2>6, <2>7
  <1> QED
    BY <1>1, Invariance, PTL

(***************************************************************************)
(* handle_set_breakpoint and handle_clear_breakpoint keep the table equal  *)
(* to what the debugger has planted, and never overrun it, for any         *)
(* GDB_MAX_BREAKPOINTS.                                                    *)
(***************************************************************************)
THEOREM BreakpointTableIsTrue == Spec => []TableMatches
  <1>1. IInv => TableMatches
    <2> SUFFICES ASSUME IInv
                 PROVE  TableMatches
      OBVIOUS
    <2>1. Len(stub.bps) <= MaxBp
      BY DEF IInv, Table
    <2>2. ASSUME client.view \in {"stopped", "waiting"}, ~client.crossed, NEW a \in Addr
          PROVE  Count(stub.bps, a) = client.planted[a]
      <3>1. Attached /\ Change(a) = 0
        BY <2>2 DEF Attached, Change
      <3>2. Count(stub.bps, a) = client.planted[a] + 0
        BY <2>2, <3>1 DEF IInv, Table
      <3>3. client.planted[a] \in Nat
        BY TypeFacts DEF IInv
      <3> QED
        BY <3>2, <3>3
    <2> QED
      BY <2>1, <2>2 DEF TableMatches
  <1> QED
    BY <1>1, Invariance, PTL

(***************************************************************************)
(* gdb_check_breakpoint lets an instruction under a breakpoint execute     *)
(* only as the one the debugger resumed from (resume_from_pc).             *)
(***************************************************************************)
THEOREM BreakpointsAreHonoured == Spec => BreakpointHonoured
  <1>1. IInv /\ StepCore /\ Contains(stub.bps, core.pc) => hist.trail \subseteq {core.pc}
    <2> SUFFICES ASSUME IInv, StepCore, Contains(stub.bps, core.pc)
                 PROVE  hist.trail \subseteq {core.pc}
      OBVIOUS
    <2>1. core.pc = stub.resume
      BY DEF StepCore, AtBreakpoint
    <2>2. core.pc # None
      BY TypeFacts, Constants DEF IInv
    <2> QED
      BY <2>1, <2>2 DEF IInv, Running
  <1>2. IInv /\ [Next]_vars =>
            [StepCore /\ Contains(stub.bps, core.pc) => hist.trail \subseteq {core.pc}]_vars
    BY <1>1
  <1> QED
    BY <1>2, Invariance, PTL DEF Spec, BreakpointHonoured

\* No other reply, and no step that sends nothing, looks like a stop.
LEMMA OnlyAStop ==
    ASSUME IInv, toClient' = Append(toClient, "S05")
    PROVE  /\ toClient' # toClient /\ toClient' # <<>>
           /\ toClient # <<>> => toClient' # Tail(toClient)
           /\ \A r \in {"OK", "E01", "S02"} : toClient' # Sent(r)
  <1>1. toClient \in Seq(Reply) /\ \A r \in {"OK", "E01", "S02", "S05"} : r \in Reply
    BY TypeFacts DEF IInv, Reply
  <1>2. toClient' # toClient /\ toClient' # <<>> /\ (toClient # <<>> => toClient' # Tail(toClient))
    BY <1>1, AppendDiffers
  <1>3. ASSUME NEW r \in {"OK", "E01", "S02"}
        PROVE  toClient' # Sent(r)
    <2>1. Append(toClient, r) # Append(toClient, "S05")
      BY <1>1, <1>3, AppendDiffers
    <2> QED
      BY <1>2, <2>1 DEF Sent
  <1> QED
    BY <1>2, <1>3

LEMMA OneInstruction ==
    ASSUME IInv, [Next]_vars, StepEnds
    PROVE  hist'.executed = IF AtBreakpoint THEN 0 ELSE 1
  <1>1. toClient' = Append(toClient, "S05") /\ stub.single
    BY DEF StepEnds
  <1>2. hist.executed = 0 /\ core.state = "RUNNING" /\ loop.at # "idle" /\ hist \in HistType
    BY <1>1, TypeFacts DEF IInv, Running
  <1>3. /\ toClient' # toClient /\ toClient' # <<>>
        /\ toClient # <<>> => toClient' # Tail(toClient)
        /\ \A r \in {"OK", "E01", "S02"} : toClient' # Sent(r)
    BY <1>1, OnlyAStop
  <1>4. ~ClientStep
    <2>1. ~Connect /\ ~Interrupt /\ ~Close /\ ~TakeReply
      BY <1>3 DEF Connect, Interrupt, Close, TakeReply
    <2>2. \A cmd : ~Ask(cmd)
      BY <1>3 DEF Ask
    <2>3. ~AskAny
      BY <2>2 DEF AskAny
    <2> QED
      BY <2>1, <2>3 DEF ClientStep
  <1>5. ~AcceptClient /\ ~PollDone /\ ~SleepCycle /\ ~EndBatch
    BY <1>3 DEF AcceptClient, PollDone, SleepCycle, EndBatch
  <1>6. ~HandlePacket
    <2> SUFFICES ASSUME HandlePacket
                 PROVE  FALSE
      OBVIOUS
    <2> DEFINE cmd == Head(toStub)
    <2>1. cmd.op \in {"c", "s", "D", "k", "INT", "EOF", "Z", "z", "G"}
      <3>1. stub.client /\ toStub # <<>> /\ toStub' = Tail(toStub)
        BY DEF HandlePacket
      <3>2. cmd \in Command
        BY <3>1, CommandFacts
      <3> QED
        BY <3>2, Words
    <2>2. ~Continue /\ ~SingleStep /\ ~Halt
      BY <1>3 DEF Continue, SingleStep, Halt
    <2>3. \A a : ~SetBreakpoint(a) /\ ~ClearBreakpoint(a) /\ ~WriteRegisters(a)
      BY <1>3 DEF SetBreakpoint, ClearBreakpoint, WriteRegisters
    <2>4. \A keep : ~Detach(keep)
      BY <1>3 DEF Detach
    <2> QED
      BY <2>1, <2>2, <2>3, <2>4 DEF HandlePacket
  <1>7. ~ReportStop /\ ~LeaveBatch
    BY <1>2 DEF ReportStop, LeaveBatch
  <1>8. HitBreakpoint => AtBreakpoint /\ hist'.executed = 0
    BY <1>2 DEF HitBreakpoint
  <1>9. StepCore => ~AtBreakpoint /\ hist'.executed = 1
    <2> SUFFICES ASSUME StepCore
                 PROVE  ~AtBreakpoint /\ hist'.executed = 1
      OBVIOUS
    <2>1. hist' = [hist EXCEPT !.executed = Atmost2(hist.executed + 1),
                               !.trail = hist.trail \cup {core.pc}]
      BY DEF StepCore
    <2>2. Atmost2(hist.executed + 1) = 1
      BY <1>2 DEF Atmost2
    <2>3. ~AtBreakpoint
      BY DEF StepCore
    <2> QED
      BY <1>2, <2>1, <2>2, <2>3 DEF HistType
  <1>10. ~UNCHANGED vars
    BY <1>3 DEF vars
  <1>11. HitBreakpoint \/ StepCore
    BY <1>4, <1>5, <1>6, <1>7, <1>10 DEF Next, LoopStep
  <1> QED
    BY <1>8, <1>9, <1>11

(***************************************************************************)
(* gdb_is_single_stepping: 's' executes no more than one instruction, and  *)
(* a step reported done has executed one, or none if gdb_check_breakpoint  *)
(* came first, whatever the instruction does to the core.                  *)
(***************************************************************************)
THEOREM SingleStepIsOne == Spec => StepIsOne
  <1>1. IInv' /\ hist'.mode = "s" => hist'.executed <= 1
    <2> SUFFICES ASSUME IInv', hist'.mode = "s"
                 PROVE  hist'.executed <= 1
      OBVIOUS
    <2>1. stub'.single => hist'.executed = 0
      BY DEF IInv, Running
    <2>2. stub'.single \/ hist'.executed <= 1
      BY DEF IInv, Running
    <2> QED
      BY <2>1, <2>2
  <1>2. IInv /\ [Next]_vars =>
            [/\ hist'.mode = "s" => hist'.executed <= 1
             /\ StepEnds => hist'.executed = IF AtBreakpoint THEN 0 ELSE 1]_vars
    <2> SUFFICES ASSUME IInv, [Next]_vars
                 PROVE  /\ hist'.mode = "s" => hist'.executed <= 1
                        /\ StepEnds => hist'.executed = IF AtBreakpoint THEN 0 ELSE 1
      OBVIOUS
    <2>1. IInv'
      BY NextStep
    <2> QED
      BY <1>1, <2>1, OneInstruction
  <1> QED
    BY <1>2, Invariance, PTL DEF Spec, StepIsOne
=============================================================================
