----------------------------- MODULE EspProofs -----------------------------
(***************************************************************************)
(* Proofs about what the ESP32's two cores share without a lock.  First    *)
(* Bridge, for any number of slots, any pins and ports and any entries a   *)
(* board starts with: a handle that holds a port has its driver to itself  *)
(* (Held), and as long as nothing has moved the tables apart they are      *)
(* related at every stage of a request (Placed), what the polling loop has *)
(* in its hands belongs to the slot it is about to write (Opening), and    *)
(* each driver has its handle (Found).  Then EspReset, for firmware of every kind: a halt holds until   *)
(* the load or the reset is through.  Then the UART's rings, ByteRing, for *)
(* every size and every set of bytes: the inductive invariant is the type  *)
(* of the state and the two facts that the tests of either side stay true  *)
(* until it has advanced.  Last the UART's registers and interrupts,       *)
(* AvrUart.                                                                *)
(***************************************************************************)
EXTENDS Bridge, EspReset, ByteRing, AvrUart, FiniteSetTheorems, SequenceTheorems,
        WellFoundedInduction, TLAPS

\* What a request under way says about the entries.
WebShape ==
    /\ web.pc = "copy" => bridge.num = web.index
    /\ web.pc = "count" => bridge.num = web.index - 1
    /\ web.pc \in {"copy", "count"} => web.entry \in Host

PollShape ==
    /\ poll.pc \in {"store", "use"} => poll.i \in Slots
    /\ poll.pc = "start" => web.pc = "idle"

\* A handle stands in the slot of its entry, or, when the handles have been shifted
\* and the entries not yet, one before it.
Placed ==
    \A s \in Slots : handles[s] # None =>
        /\ web.pc \in {"idle", "shift"} => s <= bridge.num /\ handles[s] = bridge.at[s]
        /\ web.pc \in {"copy", "count"} => s < web.index /\ handles[s] = bridge.at[s]
        /\ web.pc = "remove" =>
               \/ s < web.index /\ s <= bridge.num /\ handles[s] = bridge.at[s]
               \/ s \in web.index..bridge.num - 1 /\ handles[s] = bridge.at[s + 1]

\* The handle that has been opened for slot i, and that no request is moving.
Opening ==
    poll.pc = "store" =>
        /\ poll.i <= bridge.num /\ handles[poll.i] = None
        /\ poll.h \in {None, bridge.at[poll.i]}
        /\ web.pc # "idle" => poll.i < web.index

\* One handle for a driver, and a driver for each handle, whatever has happened.
Held ==
    /\ \A s \in Slots : handles[s] \in Ports /\ ~Closing(s) => handles[s] \in installed
    /\ \A s, t \in Slots :
           handles[s] \in Ports /\ handles[s] = handles[t] /\ ~Closing(s) /\ ~Closing(t) => s = t
    /\ poll.pc = "store" /\ poll.h \in Ports =>
           /\ poll.h \in installed
           /\ \A s \in Slots : handles[s] = poll.h => Closing(s)

\* A handle for each driver.
Found ==
    \A p \in installed : \/ \E s \in Slots : handles[s] = p /\ ~Closing(s)
                         \/ poll.pc = "store" /\ poll.h = p

IInv == /\ TypeOK /\ WebShape /\ PollShape /\ Held
        /\ ~tangled => Placed /\ Opening /\ Found
-----------------------------------------------------------------------------
(***************************************************************************)
(* Constants, tables and start-up.                                         *)
(***************************************************************************)
LEMMA Constants ==
    /\ MaxEntries \in Nat \ {0} /\ 1 \in Slots /\ MaxEntries \in Slots
    /\ \A s \in Slots : s \in Nat /\ 1 <= s /\ s <= MaxEntries
    /\ None \notin Ports /\ None \in Maybe /\ Ports \subseteq Maybe
    /\ \A e \in Host : e \in Maybe /\ e # None
    /\ Blank \in Host
  BY BridgeAssumption DEF Slots, Host, Maybe

\* The types, field by field.
LEMMA TypeFacts ==
    ASSUME TypeOK
    PROVE  /\ bridge = [num |-> bridge.num, at |-> bridge.at]
           /\ bridge.num \in 0..MaxEntries /\ bridge.at \in [Slots -> Host]
           /\ handles \in [Slots -> Maybe] /\ installed \subseteq Ports /\ nvs \in Table
           /\ poll.pc \in {"start", "find", "store", "use"}
           /\ poll.i \in 1..MaxEntries + 1 /\ poll.h \in Maybe
           /\ web.pc \in {"idle", "copy", "count", "shift", "remove"}
           /\ web.index \in Slots /\ web.entry \in Maybe /\ tangled \in BOOLEAN
  BY DEF TypeOK, Table, Poll, Web

-----------------------------------------------------------------------------
(***************************************************************************)
(* Start-up and the polling loop.                                          *)
(***************************************************************************)
LEMMA StartStep == ASSUME IInv, Start PROVE IInv'
  <1>1. /\ TypeOK /\ WebShape /\ PollShape /\ poll.pc = "start" /\ web.pc = "idle"
        /\ poll' = [poll EXCEPT !.pc = "find"]
        /\ handles' \in [Slots -> Maybe]
        /\ \A s \in Slots : handles'[s] # None => s <= bridge.num /\ handles'[s] = bridge.at[s]
        /\ \A s, t \in Slots : handles'[s] = handles'[t] /\ handles'[s] \in Ports => s = t
        /\ installed' = {p \in Ports : \E s \in Slots : handles'[s] = p}
        /\ UNCHANGED <<bridge, nvs, web, tangled>>
    BY DEF Start, Outcomes, IInv, PollShape
  <1>2. poll' \in Poll /\ poll'.pc = "find"
    BY <1>1 DEF TypeOK, Poll
  <1>3. TypeOK' /\ WebShape' /\ PollShape'
    BY <1>1, <1>2 DEF TypeOK, WebShape, PollShape
  <1>4. \A s \in Slots : ~Closing(s)'
    BY <1>1 DEF Closing
  <1>5. Placed' /\ Opening'
    BY <1>1, <1>2 DEF Placed, Opening
  <1>6. Held' /\ Found'
    BY <1>1, <1>2, <1>4 DEF Held, Found
  <1> QED
    BY <1>3, <1>5, <1>6 DEF IInv

\* Nothing is open before start-up.
LEMMA NothingOpen ==
    ASSUME NEW b \in Table, nvs' \in Table, bridge' = b,
           handles' = NoHandles, installed' = {},
           poll' = Starting, web' = Served, tangled' = FALSE
    PROVE  IInv'
  <1>1. /\ poll' \in Poll /\ poll'.pc = "start"
        /\ web' \in Web /\ web'.pc = "idle"
    BY Constants DEF Starting, Served, Poll, Web
  <1>2. handles' \in [Slots -> Maybe] /\ \A s \in Slots : handles'[s] = None
    BY Constants DEF NoHandles
  <1>3. TypeOK' /\ WebShape' /\ PollShape'
    BY <1>1, <1>2 DEF TypeOK, WebShape, PollShape
  <1>4. Placed' /\ Opening' /\ Held' /\ Found'
    BY <1>1, <1>2, Constants DEF Placed, Opening, Held, Found
  <1> QED
    BY <1>3, <1>4 DEF IInv

LEMMA FindStep == ASSUME IInv, Find PROVE IInv'
  <1>1. /\ TypeOK /\ poll.i <= bridge.num /\ handles[poll.i] # None /\ poll.pc = "find"
        /\ poll' = [poll EXCEPT !.pc = "use", !.h = handles[poll.i]]
        /\ UNCHANGED <<bridge, handles, installed, nvs, web, tangled>>
    BY DEF Find, IInv
  <1>2. poll.i \in Slots /\ handles[poll.i] \in Maybe
    BY <1>1, TypeFacts, Constants DEF Slots
  <1>3. poll' \in Poll /\ poll'.pc = "use" /\ poll'.i = poll.i
    BY <1>1, <1>2 DEF TypeOK, Poll
  <1>4. TypeOK' /\ WebShape' /\ PollShape'
    BY <1>1, <1>2, <1>3 DEF IInv, TypeOK, WebShape, PollShape
  <1>5. Held' /\ (~tangled => Placed' /\ Opening' /\ Found')
    BY <1>1, <1>3 DEF IInv, Placed, Opening, Held, Found, Closing
  <1> QED
    BY <1>1, <1>4, <1>5 DEF IInv

LEMMA OpenStep == ASSUME IInv, Open PROVE IInv'
  <1> DEFINE e == bridge.at[poll.i]
  <1>1. PICK h \in Openings(e) :
            /\ poll' = [poll EXCEPT !.pc = "store", !.h = h]
            /\ installed' = installed \cup ({h} \cap Ports)
    BY DEF Open
  <1>2. /\ TypeOK /\ poll.pc = "find" /\ poll.i <= bridge.num /\ handles[poll.i] = None
        /\ tangled' = (tangled \/ Interrupted)
        /\ UNCHANGED <<bridge, handles, nvs, web>>
    BY DEF Open, IInv
  <1>3. poll.i \in Slots /\ e \in Maybe
    BY <1>2, TypeFacts, Constants DEF Slots
  <1>4. h \in Maybe /\ h \in {None, e} /\ (h \in Ports => h \notin installed)
    BY <1>1, <1>3, Constants DEF Openings
  <1>5. poll' \in Poll /\ poll'.pc = "store" /\ poll'.i = poll.i /\ poll'.h = h
    BY <1>1, <1>2, <1>4 DEF TypeOK, Poll
  <1> HIDE DEF e
  <1>6. TypeOK' /\ WebShape' /\ PollShape'
    BY <1>1, <1>2, <1>3, <1>5 DEF IInv, TypeOK, WebShape, PollShape
  <1>7. \A s \in Slots : Closing(s)' <=> Closing(s)
    BY <1>2 DEF Closing
  <1>8. Held'
    BY <1>1, <1>2, <1>4, <1>5, <1>7 DEF IInv, Held
  <1>9. ASSUME ~tangled' PROVE Placed' /\ Opening' /\ Found'
    <2>1. ~tangled /\ ~Interrupted /\ Placed /\ Found
      BY <1>2, <1>9 DEF IInv
    <2>2. Placed'
      BY <1>2, <2>1 DEF Placed
    <2>3. web.pc # "idle" => poll.i < web.index
      BY <1>2, <1>3, <2>1, TypeFacts, Constants DEF Interrupted, IInv, WebShape
    <2>4. Opening'
      BY <1>2, <1>4, <1>5, <2>3 DEF Opening, e
    <2>5. Found'
      BY <1>1, <1>2, <1>5, <1>7, <2>1 DEF Found
    <2> QED
      BY <2>2, <2>4, <2>5
  <1> QED
    BY <1>6, <1>8, <1>9 DEF IInv

LEMMA StoreStep == ASSUME IInv, Store PROVE IInv'
  <1>1. /\ TypeOK /\ PollShape /\ poll.pc = "store"
        /\ handles' = [handles EXCEPT ![poll.i] = poll.h]
        /\ poll' = [poll EXCEPT !.pc = "use"]
        /\ UNCHANGED <<bridge, installed, nvs, web, tangled>>
    BY DEF Store, IInv
  <1>2. poll.i \in Slots /\ handles' \in [Slots -> Maybe]
    BY <1>1, TypeFacts DEF PollShape
  <1>3. poll' \in Poll /\ poll'.pc = "use" /\ poll'.i = poll.i
    BY <1>1 DEF TypeOK, Poll
  <1>4. TypeOK' /\ WebShape' /\ PollShape'
    BY <1>1, <1>2, <1>3 DEF IInv, TypeOK, WebShape, PollShape
  <1>5. /\ handles'[poll.i] = poll.h
        /\ \A s \in Slots : s # poll.i => handles'[s] = handles[s]
        /\ \A s \in Slots : Closing(s)' <=> Closing(s)
    BY <1>1, <1>2, TypeFacts DEF Closing
  <1>6. Held'
    <2>1. Held
      BY DEF IInv
    <2>2. \A s \in Slots : handles'[s] \in Ports /\ ~Closing(s) => handles'[s] \in installed
      BY <1>1, <1>5, <2>1 DEF Held
    <2>3. ASSUME NEW s \in Slots, NEW t \in Slots, handles'[s] \in Ports,
                 handles'[s] = handles'[t], ~Closing(s), ~Closing(t)
          PROVE  s = t
      <3>1. CASE s # poll.i /\ t # poll.i
        BY <1>5, <2>1, <2>3, <3>1 DEF Held
      <3>2. CASE s = poll.i \/ t = poll.i
        BY <1>1, <1>5, <2>1, <2>3, <3>2 DEF Held
      <3> QED
        BY <3>1, <3>2
    <2> QED
      BY <1>1, <1>3, <1>5, <2>2, <2>3 DEF Held
  <1>7. ASSUME ~tangled PROVE Placed' /\ Opening' /\ Found'
    <2>1. Placed /\ Opening /\ Found /\ WebShape
      BY <1>7 DEF IInv
    <2>2. /\ poll.i <= bridge.num /\ handles[poll.i] = None
          /\ poll.h \in {None, bridge.at[poll.i]}
          /\ web.pc # "idle" => poll.i < web.index
      BY <1>1, <2>1 DEF Opening
    <2>3. Placed'
      BY <1>1, <1>5, <2>1, <2>2, TypeFacts DEF Placed
    <2>4. Opening'
      BY <1>3 DEF Opening
    <2>5. ~Closing(poll.i)
      BY <1>1, <1>2, <2>2, TypeFacts, Constants DEF Closing
    <2>6. \A p \in installed : \E s \in Slots : handles'[s] = p /\ ~Closing(s)
      <3> SUFFICES ASSUME NEW p \in installed
                   PROVE  \E s \in Slots : handles'[s] = p /\ ~Closing(s)
        OBVIOUS
      <3>1. p # None
        BY <1>1, TypeFacts, Constants
      <3> QED
        BY <1>1, <1>2, <1>5, <2>1, <2>2, <2>5, <3>1 DEF Found
    <2>7. Found'
      BY <1>1, <1>5, <2>6 DEF Found
    <2> QED
      BY <2>3, <2>4, <2>7
  <1> QED
    BY <1>1, <1>4, <1>6, <1>7 DEF IInv

LEMMA UseStep == ASSUME IInv, Use PROVE IInv'
  <1>1. /\ TypeOK /\ PollShape /\ poll.pc = "use"
        /\ poll' = [pc |-> "find", i |-> poll.i + 1, h |-> None]
        /\ UNCHANGED <<bridge, handles, installed, nvs, web, tangled>>
    BY DEF Use, IInv
  <1>2. poll' \in Poll /\ poll'.pc = "find"
    <2>1. poll.i \in Slots
      BY <1>1 DEF PollShape
    <2>2. poll.i + 1 \in 1..MaxEntries + 1
      BY <2>1, Constants DEF Slots
    <2> QED
      BY <1>1, <2>2, Constants DEF Poll
  <1>3. TypeOK' /\ WebShape' /\ PollShape'
    BY <1>1, <1>2 DEF IInv, TypeOK, WebShape, PollShape
  <1>4. Held' /\ (~tangled => Placed' /\ Opening' /\ Found')
    BY <1>1, <1>2 DEF IInv, Placed, Opening, Held, Found, Closing
  <1> QED
    BY <1>1, <1>3, <1>4 DEF IInv

LEMMA AgainStep == ASSUME IInv, Again PROVE IInv'
  <1>1. /\ TypeOK /\ poll.pc = "find"
        /\ poll' = [poll EXCEPT !.i = 1]
        /\ UNCHANGED <<bridge, handles, installed, nvs, web, tangled>>
    BY DEF Again, IInv
  <1>2. poll' \in Poll /\ poll'.pc = "find"
    BY <1>1, Constants DEF TypeOK, Poll
  <1>3. TypeOK' /\ WebShape' /\ PollShape'
    BY <1>1, <1>2 DEF IInv, TypeOK, WebShape, PollShape
  <1>4. Held' /\ (~tangled => Placed' /\ Opening' /\ Found')
    BY <1>1, <1>2 DEF IInv, Placed, Opening, Held, Found, Closing
  <1> QED
    BY <1>1, <1>3, <1>4 DEF IInv
-----------------------------------------------------------------------------
(***************************************************************************)
(* The web server's requests.                                              *)
(***************************************************************************)
LEMMA AddStep == ASSUME IInv, NEW e \in Host, Add(e) PROVE IInv'
  <1> DEFINE s == bridge.num + 1
  <1>1. /\ TypeOK /\ WebShape /\ PollShape /\ Held
        /\ web.pc = "idle" /\ poll.pc # "start" /\ bridge.num < MaxEntries
        /\ UNCHANGED <<handles, installed, nvs, poll, tangled>>
    BY DEF Add, Accepts, IInv
  <1>2. s \in Slots /\ s \in 0..MaxEntries /\ e \in Maybe /\ e \in Host
    BY <1>1, TypeFacts, Constants DEF Slots
  <1>3. \/ /\ bridge' = [bridge EXCEPT !.num = s]
           /\ web' = [pc |-> "copy", index |-> s, entry |-> e]
        \/ /\ bridge' = [bridge EXCEPT !.at[s] = e]
           /\ web' = [pc |-> "count", index |-> s, entry |-> e]
    BY DEF Add
  <1> HIDE DEF s
  <1>4. /\ bridge' \in Table /\ web' \in Web /\ web'.index = s /\ web'.entry \in Host
        /\ \/ web'.pc = "copy" /\ bridge'.num = s
           \/ web'.pc = "count" /\ bridge'.num = bridge.num
        /\ \A t \in Slots : t # s => bridge'.at[t] = bridge.at[t]
    <2>1. bridge \in Table /\ s \in Slots
      BY <1>1, <1>2 DEF TypeOK
    <2>2. CASE /\ bridge' = [bridge EXCEPT !.num = s]
               /\ web' = [pc |-> "copy", index |-> s, entry |-> e]
      BY <1>2, <2>1, <2>2 DEF Table, Web
    <2>3. CASE /\ bridge' = [bridge EXCEPT !.at[s] = e]
               /\ web' = [pc |-> "count", index |-> s, entry |-> e]
      BY <1>2, <2>1, <2>3 DEF Table, Web
    <2> QED
      BY <1>3, <2>2, <2>3
  <1>5. TypeOK' /\ PollShape'
    BY <1>1, <1>4 DEF TypeOK, PollShape
  <1>6. bridge.num \in Nat /\ s = bridge.num + 1
    BY <1>1, TypeFacts DEF s
  <1>7. WebShape'
    BY <1>4, <1>6 DEF WebShape
  <1>8. Held'
    BY <1>1, <1>4 DEF Held, Closing
  <1>9. ASSUME ~tangled PROVE Placed' /\ Opening' /\ Found'
    <2>0. Placed /\ Opening /\ Found
      BY <1>9 DEF IInv
    <2>1. Placed'
      <3>1. ASSUME NEW t \in Slots, handles[t] # None
            PROVE  t < s /\ handles[t] = bridge'.at[t]
        <4>1. t <= bridge.num /\ handles[t] = bridge.at[t]
          BY <1>1, <2>0, <3>1 DEF Placed
        <4>2. t \in Nat
          BY Constants
        <4>3. t < s /\ t # s
          BY <1>6, <4>1, <4>2
        <4> QED
          BY <1>4, <4>1, <4>3
      <3>2. web'.index = s /\ web'.pc \in {"copy", "count"} /\ handles' = handles
        BY <1>1, <1>4
      <3> QED
        BY <3>1, <3>2 DEF Placed
    <2>2. Opening'
      <3> SUFFICES ASSUME poll.pc = "store"
                   PROVE  /\ poll.i <= bridge'.num /\ handles[poll.i] = None
                          /\ poll.h \in {None, bridge'.at[poll.i]}
                          /\ web'.pc # "idle" => poll.i < web'.index
        BY <1>1 DEF Opening
      <3>1. /\ poll.i \in Slots /\ poll.i <= bridge.num /\ handles[poll.i] = None
            /\ poll.h \in {None, bridge.at[poll.i]}
        BY <1>1, <2>0 DEF Opening, PollShape
      <3>2. poll.i \in Nat
        BY <3>1, Constants
      <3>3. poll.i < s /\ poll.i # s /\ poll.i <= s
        BY <1>6, <3>1, <3>2
      <3> QED
        BY <1>4, <3>1, <3>3
    <2>3. Found'
      BY <1>1, <1>4, <2>0 DEF Found, Closing
    <2> QED
      BY <2>1, <2>2, <2>3
  <1> QED
    BY <1>1, <1>5, <1>7, <1>8, <1>9 DEF IInv

LEMMA AddedStep == ASSUME IInv, Added PROVE IInv'
  <1>1. /\ TypeOK /\ WebShape /\ PollShape
        /\ web.pc \in {"copy", "count"} /\ web' = Served
        /\ bridge' = [num |-> web.index, at |-> [bridge.at EXCEPT ![web.index] = web.entry]]
        /\ UNCHANGED <<handles, installed, nvs, poll, tangled>>
    BY DEF Added, IInv
  <1>2. web' \in Web /\ web'.pc = "idle"
    BY <1>1, Constants DEF Served, Web
  <1>3. /\ web.index \in Slots /\ web.entry \in Host /\ web.index \in 0..MaxEntries
        /\ bridge.at \in [Slots -> Host] /\ bridge.num \in 0..MaxEntries
    BY <1>1, TypeFacts, Constants DEF Slots, WebShape
  <1>4. /\ bridge' \in Table /\ bridge'.num = web.index
        /\ \A s \in Slots : s # web.index => bridge'.at[s] = bridge.at[s]
    BY <1>1, <1>3 DEF Table
  <1>5. TypeOK' /\ WebShape' /\ PollShape'
    BY <1>1, <1>2, <1>4 DEF TypeOK, WebShape, PollShape
  <1>6. Held'
    BY <1>1, <1>2 DEF IInv, Held, Closing
  <1>7. ASSUME ~tangled PROVE Placed' /\ Opening' /\ Found'
    <2>1. Placed /\ Opening /\ Found
      BY <1>7 DEF IInv
    <2>2. Placed'
      BY <1>1, <1>2, <1>3, <1>4, <2>1, Constants DEF Placed
    <2>3. Opening'
      <3> SUFFICES ASSUME poll.pc = "store"
                   PROVE  /\ poll.i <= bridge'.num /\ handles[poll.i] = None
                          /\ poll.h \in {None, bridge'.at[poll.i]}
        BY <1>1, <1>2 DEF Opening
      <3>1. /\ poll.i \in Slots /\ poll.i < web.index /\ handles[poll.i] = None
            /\ poll.h \in {None, bridge.at[poll.i]}
        BY <1>1, <2>1 DEF Opening, PollShape
      <3>2. poll.i \in Nat /\ web.index \in Nat
        BY <1>3, <3>1, Constants
      <3>3. poll.i <= web.index /\ poll.i # web.index
        BY <3>1, <3>2
      <3> QED
        BY <1>4, <3>1, <3>3
    <2>4. Found'
      BY <1>1, <1>2, <2>1 DEF Found, Closing
    <2> QED
      BY <2>2, <2>3, <2>4
  <1> QED
    BY <1>1, <1>5, <1>6, <1>7 DEF IInv

\* A deletion that does not tangle the tables either closes a handle that is then
\* shifted out, or finds no handle from its slot on.
LEMMA DeleteStep == ASSUME IInv, NEW s \in Slots, Delete(s) PROVE IInv'
  <1>1. /\ TypeOK /\ WebShape /\ PollShape /\ Held /\ web.pc = "idle" /\ poll.pc # "start"
        /\ web' = Deleting(s)
        /\ installed' = installed \ {handles[s]}
        /\ tangled' = (tangled \/ Misplaces(s))
        /\ UNCHANGED <<bridge, handles, nvs, poll>>
    BY DEF Delete, Accepts, IInv
  <1>2. /\ web' \in Web /\ web'.index = s
        /\ handles[s] # None => web'.pc = "shift"
        /\ handles[s] = None => web'.pc = "remove"
    BY <1>1, Constants DEF Web, Deleting
  <1>3. TypeOK' /\ WebShape' /\ PollShape'
    BY <1>1, <1>2 DEF TypeOK, WebShape, PollShape
  <1>4. /\ \A t \in Slots : Closing(t)' <=> handles[s] # None /\ t = s
        /\ \A t \in Slots : ~Closing(t)
    BY <1>1, <1>2 DEF Closing
  <1>5. Held'
    <2>1. \A t \in Slots : handles[t] \in Ports /\ ~Closing(t)' => handles[t] \in installed'
      BY <1>1, <1>4, Constants DEF Held
    <2>2. \A t, u \in Slots : handles[t] \in Ports /\ handles[t] = handles[u] => t = u
      BY <1>1, <1>4 DEF Held
    <2>3. poll.pc = "store" /\ poll.h \in Ports =>
              poll.h \in installed' /\ \A t \in Slots : handles[t] # poll.h
      BY <1>1, <1>4 DEF Held
    <2> QED
      BY <1>1, <2>1, <2>2, <2>3 DEF Held
  <1>6. ASSUME ~tangled' PROVE Placed' /\ Opening' /\ Found'
    <2>1. Placed /\ Opening /\ Found /\ ~Misplaces(s)
      BY <1>1, <1>6 DEF IInv
    <2>2. bridge.num \in Nat /\ s \in Nat /\ \A t \in Slots : t \in Nat /\ t <= MaxEntries
      BY <1>1, TypeFacts, Constants
    <2>3. \A t \in Slots : handles[t] # None => t <= bridge.num /\ handles[t] = bridge.at[t]
      BY <1>1, <2>1 DEF Placed
    <2>4. ASSUME handles[s] = None, NEW t \in Slots, handles[t] # None
          PROVE  t < s
      <3>1. CASE s <= bridge.num
        <4>1. t # s /\ t \notin s + 1..MaxEntries
          BY <2>1, <2>4, <3>1 DEF Misplaces
        <4> QED
          BY <2>2, <4>1, Constants
      <3>2. CASE ~(s <= bridge.num)
        <4>1. t <= bridge.num /\ t \in Nat
          BY <2>2, <2>3, <2>4
        <4> QED
          BY <2>2, <3>2, <4>1
      <3> QED
        BY <3>1, <3>2
    <2>5. Placed'
      BY <1>1, <1>2, <2>3, <2>4 DEF Placed
    <2>6. poll.pc = "store" => poll.i < s
      <3>1. poll.pc = "store" => poll.i \in Nat /\ poll.i <= bridge.num
        BY <1>1, <2>1, Constants DEF Opening, PollShape
      <3> QED
        BY <2>1, <2>2, <3>1 DEF Misplaces
    <2>7. Opening'
      BY <1>1, <1>2, <2>1, <2>6 DEF Opening
    <2>8. Found'
      <3> SUFFICES ASSUME NEW p \in installed'
                   PROVE  \/ \E t \in Slots : handles[t] = p /\ ~Closing(t)'
                          \/ poll.pc = "store" /\ poll.h = p
        BY <1>1 DEF Found
      <3>1. p \in installed /\ p # handles[s]
        BY <1>1
      <3> QED
        BY <1>4, <2>1, <3>1 DEF Found
    <2> QED
      BY <2>5, <2>7, <2>8
  <1> QED
    BY <1>3, <1>5, <1>6 DEF IInv

LEMMA ShiftedType ==
    ASSUME NEW hs \in [Slots -> Maybe], NEW s \in Slots
    PROVE  /\ Shifted(hs, s) \in [Slots -> Maybe]
           /\ \A t \in Slots : /\ t < s => Shifted(hs, s)[t] = hs[t]
                               /\ t >= s /\ t < MaxEntries
                                      => t + 1 \in Slots /\ Shifted(hs, s)[t] = hs[t + 1]
                               /\ t = MaxEntries => Shifted(hs, s)[t] = None
  <1>1. s \in Nat /\ 1 <= s /\ s <= MaxEntries /\ MaxEntries \in Nat
    BY Constants
  <1>2. \A t \in Slots :
            Shifted(hs, s)[t] = CASE t < s -> hs[t]
                                  [] t \in s..MaxEntries - 1 -> hs[t + 1]
                                  [] t >= s /\ t = MaxEntries -> None
    BY DEF Shifted
  <1>3. ASSUME NEW t \in Slots
        PROVE  /\ t < s => Shifted(hs, s)[t] = hs[t]
               /\ t >= s /\ t < MaxEntries
                      => t + 1 \in Slots /\ Shifted(hs, s)[t] = hs[t + 1]
               /\ t = MaxEntries => Shifted(hs, s)[t] = None
               /\ Shifted(hs, s)[t] \in Maybe
    <2>1. t \in Nat /\ 1 <= t /\ t <= MaxEntries
      BY Constants
    <2>2. CASE t < s
      <3>1. Shifted(hs, s)[t] = hs[t]
        BY <1>1, <1>2, <2>1, <2>2
      <3> QED
        BY <1>1, <2>1, <2>2, <3>1
    <2>3. CASE t >= s /\ t < MaxEntries
      <3>1. ~(t < s) /\ t \in s..MaxEntries - 1 /\ t + 1 \in Slots
        BY <1>1, <2>1, <2>3 DEF Slots
      <3>2. Shifted(hs, s)[t] = hs[t + 1]
        BY <1>1, <1>2, <2>1, <2>3, <3>1
      <3> QED
        BY <1>1, <2>1, <2>3, <3>1, <3>2
    <2>4. CASE t >= s /\ t = MaxEntries
      <3>1. ~(t < s) /\ t \notin s..MaxEntries - 1
        BY <1>1, <2>1, <2>4
      <3>2. Shifted(hs, s)[t] = None
        BY <1>2, <2>4, <3>1
      <3> QED
        BY <1>1, <2>1, <2>4, <3>2, Constants
    <2> QED
      BY <1>1, <2>1, <2>2, <2>3, <2>4
  <1>4. Shifted(hs, s) \in [Slots -> Maybe]
    BY <1>3 DEF Shifted
  <1> QED
    BY <1>3, <1>4

\* The closed handle leaves the table and the later ones move down: until the
\* entries follow, each stands one before its entry.
LEMMA ShiftStep == ASSUME IInv, Shift PROVE IInv'
  <1> DEFINE s == web.index
  <1>1. /\ TypeOK /\ WebShape /\ PollShape /\ Held
        /\ web.pc = "shift" /\ web' = [web EXCEPT !.pc = "remove"]
        /\ handles' = Shifted(handles, s)
        /\ UNCHANGED <<bridge, installed, nvs, poll, tangled>>
    BY DEF Shift, IInv
  <1>2. web' \in Web /\ web'.pc = "remove" /\ web'.index = s /\ s \in Slots
    BY <1>1 DEF TypeOK, Web
  <1>3. /\ handles' \in [Slots -> Maybe]
        /\ \A t \in Slots : /\ t < s => handles'[t] = handles[t]
                            /\ t >= s /\ t < MaxEntries
                                   => t + 1 \in Slots /\ handles'[t] = handles[t + 1]
                            /\ t = MaxEntries => handles'[t] = None
    BY <1>1, <1>2, TypeFacts, ShiftedType
  <1>4. bridge.num \in 0..MaxEntries /\ MaxEntries \in Nat
    BY <1>1, TypeFacts, Constants
  <1> HIDE DEF s
  <1>5. TypeOK' /\ WebShape' /\ PollShape'
    BY <1>1, <1>2, <1>3, <1>4 DEF TypeOK, WebShape, PollShape
  \* Where a handle of the new table was before.
  <1>6. ASSUME NEW t \in Slots, handles'[t] # None
        PROVE  \E u \in Slots : /\ handles'[t] = handles[u] /\ u # s
                                /\ (t < s /\ u = t) \/ (t >= s /\ u = t + 1)
    <2>1. t \in Nat /\ s \in Nat /\ t <= MaxEntries
      BY <1>2, Constants
    <2>2. CASE t < s
      BY <1>3, <2>1, <2>2
    <2>3. CASE t >= s
      BY <1>3, <1>4, <1>6, <2>1, <2>3
    <2> QED
      BY <2>1, <2>2, <2>3
  <1>7. /\ \A t \in Slots : Closing(t) <=> t = s
        /\ \A t \in Slots : ~Closing(t)'
    BY <1>1, <1>2 DEF Closing, s
  <1>8. Held'
    <2>1. ASSUME NEW t \in Slots, handles'[t] \in Ports
          PROVE  handles'[t] \in installed
      <3>1. PICK u \in Slots : handles'[t] = handles[u] /\ u # s
        BY <1>6, <2>1, Constants
      <3> QED
        BY <1>1, <1>7, <2>1, <3>1 DEF Held
    <2>2. ASSUME NEW t \in Slots, NEW v \in Slots,
                 handles'[t] \in Ports, handles'[t] = handles'[v]
          PROVE  t = v
      <3>1. PICK u \in Slots : /\ handles'[t] = handles[u] /\ u # s
                               /\ (t < s /\ u = t) \/ (t >= s /\ u = t + 1)
        BY <1>6, <2>2, Constants
      <3>2. PICK w \in Slots : /\ handles'[v] = handles[w] /\ w # s
                               /\ (v < s /\ w = v) \/ (v >= s /\ w = v + 1)
        BY <1>6, <2>2, Constants
      <3>3. u = w
        BY <1>1, <1>7, <2>2, <3>1, <3>2 DEF Held
      <3>4. t \in Nat /\ v \in Nat /\ s \in Nat
        BY <1>2, Constants
      <3> QED
        BY <3>1, <3>2, <3>3, <3>4
    <2>3. ASSUME poll.pc = "store", poll.h \in Ports
          PROVE  poll.h \in installed /\ \A t \in Slots : handles'[t] # poll.h
      <3>1. poll.h \in installed /\ \A t \in Slots : handles[t] = poll.h => t = s
        BY <1>1, <1>7, <2>3 DEF Held
      <3> QED
        BY <1>6, <2>3, <3>1, Constants
    <2> QED
      BY <1>1, <1>7, <2>1, <2>2, <2>3 DEF Held
  <1>9. ASSUME ~tangled PROVE Placed' /\ Opening' /\ Found'
    <2>1. Placed /\ Opening /\ Found
      BY <1>9 DEF IInv
    <2>2. \A t \in Slots : handles[t] # None => t <= bridge.num /\ handles[t] = bridge.at[t]
      BY <1>1, <2>1 DEF Placed
    <2>3. Placed'
      <3> SUFFICES ASSUME NEW t \in Slots, handles'[t] # None
                   PROVE  \/ t < s /\ t <= bridge.num /\ handles'[t] = bridge.at[t]
                          \/ t \in s..bridge.num - 1 /\ handles'[t] = bridge.at[t + 1]
        BY <1>1, <1>2 DEF Placed
      <3>1. PICK u \in Slots : /\ handles'[t] = handles[u] /\ u # s
                               /\ (t < s /\ u = t) \/ (t >= s /\ u = t + 1)
        BY <1>6
      <3>2. u <= bridge.num /\ handles'[t] = bridge.at[u]
        BY <2>2, <3>1
      <3> QED
        BY <1>2, <1>4, <3>1, <3>2, Constants
    <2>4. Opening'
      <3> SUFFICES ASSUME poll.pc = "store"
                   PROVE  /\ poll.i <= bridge.num /\ handles'[poll.i] = None
                          /\ poll.h \in {None, bridge.at[poll.i]}
                          /\ poll.i < s
        BY <1>1, <1>2 DEF Opening
      <3>1. /\ poll.i \in Slots /\ poll.i <= bridge.num /\ handles[poll.i] = None
            /\ poll.h \in {None, bridge.at[poll.i]} /\ poll.i < s
        BY <1>1, <2>1 DEF Opening, PollShape, s
      <3> QED
        BY <1>3, <3>1
    <2>5. Found'
      <3> SUFFICES ASSUME NEW p \in installed, ~(poll.pc = "store" /\ poll.h = p)
                   PROVE  \E t \in Slots : handles'[t] = p
        BY <1>1, <1>7 DEF Found
      <3>1. PICK u \in Slots : handles[u] = p /\ u # s
        BY <1>7, <2>1 DEF Found
      <3>2. u \in Nat /\ 1 <= u /\ u <= MaxEntries /\ s \in Nat /\ 1 <= s
        BY <1>2, Constants
      <3>3. CASE u < s
        BY <1>3, <3>1, <3>3
      <3>4. CASE u > s
        <4>1. /\ u - 1 \in Slots /\ u - 1 >= s /\ u - 1 < MaxEntries /\ u - 1 + 1 = u
          BY <1>4, <3>2, <3>4 DEF Slots
        <4>2. handles'[u - 1] = handles[u - 1 + 1]
          BY <1>3, <4>1
        <4> QED
          BY <3>1, <4>1, <4>2
      <3> QED
        BY <3>1, <3>2, <3>3, <3>4
    <2> QED
      BY <2>3, <2>4, <2>5
  <1> QED
    BY <1>1, <1>5, <1>8, <1>9 DEF IInv

\* The entries follow.
LEMMA RemoveStep == ASSUME IInv, Remove PROVE IInv'
  <1> DEFINE s == web.index
  <1>1. /\ TypeOK /\ WebShape /\ PollShape /\ Held
        /\ web.pc = "remove" /\ web' = Served
        /\ bridge' = IF s <= bridge.num THEN Removed(bridge, s) ELSE bridge
        /\ UNCHANGED <<handles, installed, nvs, poll, tangled>>
    BY DEF Remove, IInv
  <1>2. web' \in Web /\ web'.pc = "idle"
    BY <1>1, Constants DEF Served, Web
  <1>3. /\ s \in Slots /\ bridge.num \in 0..MaxEntries /\ MaxEntries \in Nat
        /\ s \in Nat /\ 1 <= s /\ bridge.at \in [Slots -> Host] /\ bridge \in Table
    BY <1>1, TypeFacts, Constants DEF TypeOK
  <1> HIDE DEF s
  <1>4. ASSUME s <= bridge.num
        PROVE  /\ bridge' \in Table /\ bridge'.num = bridge.num - 1
               /\ \A t \in Slots : bridge'.at[t] = IF t \in s..bridge.num - 1 THEN bridge.at[t + 1]
                                                                              ELSE bridge.at[t]
    <2>1. \A t \in Slots : t \in s..bridge.num - 1 => t + 1 \in Slots
      BY <1>3 DEF Slots
    <2>2. bridge.num - 1 \in 0..MaxEntries
      BY <1>3, <1>4
    <2> QED
      BY <1>1, <1>3, <1>4, <2>1, <2>2 DEF Removed, Table
  <1>5. TypeOK' /\ WebShape' /\ PollShape'
    BY <1>1, <1>2, <1>3, <1>4 DEF TypeOK, WebShape, PollShape
  <1>6. Held'
    BY <1>1, <1>2 DEF Held, Closing
  <1>7. ASSUME ~tangled PROVE Placed' /\ Opening' /\ Found'
    <2>1. Placed /\ Opening /\ Found
      BY <1>7 DEF IInv
    <2>2. Placed'
      <3> SUFFICES ASSUME NEW t \in Slots, handles[t] # None
                   PROVE  t <= bridge'.num /\ handles[t] = bridge'.at[t]
        BY <1>1, <1>2 DEF Placed
      <3>1. \/ t < s /\ t <= bridge.num /\ handles[t] = bridge.at[t]
            \/ t \in s..bridge.num - 1 /\ handles[t] = bridge.at[t + 1]
        BY <1>1, <2>1 DEF Placed, s
      <3>2. CASE s <= bridge.num
        <4>1. t \in Nat /\ bridge'.num = bridge.num - 1
          BY <1>4, <3>2, Constants
        <4>2. CASE t < s /\ t <= bridge.num /\ handles[t] = bridge.at[t]
          <5>1. t \notin s..bridge.num - 1 /\ t <= bridge.num - 1
            BY <1>3, <3>2, <4>1, <4>2
          <5> QED
            BY <1>4, <3>2, <4>1, <4>2, <5>1
        <4>3. CASE t \in s..bridge.num - 1 /\ handles[t] = bridge.at[t + 1]
          <5>1. t <= bridge.num - 1
            BY <1>3, <4>1, <4>3
          <5> QED
            BY <1>4, <3>2, <4>1, <4>3, <5>1
        <4> QED
          BY <3>1, <4>2, <4>3
      <3>3. CASE ~(s <= bridge.num)
        BY <1>1, <1>3, <3>1, <3>3, Constants
      <3> QED
        BY <3>2, <3>3
    <2>3. Opening'
      <3> SUFFICES ASSUME poll.pc = "store"
                   PROVE  /\ poll.i <= bridge'.num /\ handles[poll.i] = None
                          /\ poll.h \in {None, bridge'.at[poll.i]}
        BY <1>1, <1>2 DEF Opening
      <3>1. /\ poll.i \in Slots /\ poll.i < s /\ poll.i <= bridge.num /\ handles[poll.i] = None
            /\ poll.h \in {None, bridge.at[poll.i]}
        BY <1>1, <2>1 DEF Opening, PollShape, s
      <3>2. CASE s <= bridge.num
        <4>1. poll.i \in Nat
          BY <3>1, Constants
        <4>2. poll.i \notin s..bridge.num - 1 /\ poll.i <= bridge.num - 1
          BY <1>3, <3>1, <3>2, <4>1
        <4> QED
          BY <1>4, <3>1, <3>2, <4>2
      <3>3. CASE ~(s <= bridge.num)
        BY <1>1, <3>1, <3>3
      <3> QED
        BY <3>2, <3>3
    <2>4. Found'
      BY <1>1, <1>2, <2>1 DEF Found, Closing
    <2> QED
      BY <2>2, <2>3, <2>4
  <1> QED
    BY <1>1, <1>5, <1>6, <1>7 DEF IInv

LEMMA SaveStep == ASSUME IInv, Save PROVE IInv'
  <1>1. /\ TypeOK
        /\ nvs' = [bridge EXCEPT !.at = [s \in Slots |-> IF s <= bridge.num THEN bridge.at[s] ELSE Blank]]
        /\ UNCHANGED <<bridge, handles, installed, poll, web, tangled>>
    BY DEF Save, IInv
  <1>2. nvs' \in Table
    BY <1>1, Constants DEF TypeOK, Table
  <1> QED
    BY <1>1, <1>2 DEF IInv, TypeOK, WebShape, PollShape, Placed, Opening, Held, Found,
         Closing
-----------------------------------------------------------------------------
(***************************************************************************)
(* Every step keeps the invariant.                                         *)
(***************************************************************************)
LEMMA InitIInv == ASSUME Init PROVE IInv
  <1>1. /\ poll \in Poll /\ poll.pc = "start"
        /\ web \in Web /\ web.pc = "idle"
    BY Constants DEF Init, Starting, Served, Poll, Web
  <1>2. /\ bridge \in Table /\ nvs \in Table /\ tangled = FALSE /\ installed = {}
        /\ handles \in [Slots -> Maybe] /\ \A s \in Slots : handles[s] = None
    BY BridgeAssumption, Constants DEF Init, NoHandles
  <1>3. TypeOK /\ WebShape /\ PollShape
    BY <1>1, <1>2 DEF TypeOK, WebShape, PollShape
  <1>4. Placed /\ Opening /\ Held /\ Found
    BY <1>1, <1>2, Constants DEF Placed, Opening, Held, Found
  <1> QED
    BY <1>3, <1>4 DEF IInv

LEMMA RebootStep == ASSUME IInv, Reboot PROVE IInv'
  <1>1. nvs \in Table /\ nvs' = nvs
    BY DEF IInv, TypeOK, Reboot
  <1> QED
    BY <1>1, NothingOpen DEF Reboot

LEMMA NextStep == ASSUME IInv, [Next]_vars PROVE IInv'
  <1>1. CASE UNCHANGED vars
    BY <1>1 DEF vars, IInv, TypeOK, WebShape, PollShape, Placed, Opening, Held, Found, Closing
  <1>2. CASE PollStep
    BY <1>2, StartStep, FindStep, OpenStep, StoreStep, UseStep, AgainStep DEF PollStep
  <1>3. CASE Request
    BY <1>3, AddStep, SaveStep, DeleteStep DEF Request
  <1>4. CASE Serve
    BY <1>4, AddedStep, ShiftStep, RemoveStep DEF Serve
  <1>5. CASE Reboot
    BY <1>5, RebootStep
  <1> QED
    BY <1>1, <1>2, <1>3, <1>4, <1>5 DEF Next

THEOREM Invariance == Spec => []IInv
  <1>1. Init => IInv
    BY InitIInv
  <1>2. IInv /\ [Next]_vars => IInv'
    BY NextStep
  <1> QED
    BY <1>1, <1>2, PTL DEF Spec
-----------------------------------------------------------------------------
(***************************************************************************)
(* Tables, handles, drivers and both tasks keep their types: neither task  *)
(* indexes outside a table, whatever the other one does in between         *)
(* (io_bridge_remove, esp_bridge_close_entry and esp_bridge_poll).         *)
(***************************************************************************)
THEOREM TypeCorrect == Spec => []TypeOK
  <1>1. IInv => TypeOK
    BY DEF IInv
  <1> QED
    BY <1>1, Invariance, PTL

(***************************************************************************)
(* Between requests each handle stands in its entry's slot, until one of   *)
(* the three events that `tangled` records: deleting an entry without a    *)
(* handle before one with a handle, or a deletion or an addition that      *)
(* overlaps an opening (bridge_post_handler and esp_bridge_poll).          *)
(***************************************************************************)
THEOREM HandlesAreTheEntries == Spec => []HandlesMatch
  <1>1. IInv => HandlesMatch
    BY DEF IInv, Placed, HandlesMatch
  <1> QED
    BY <1>1, Invariance, PTL

(***************************************************************************)
(* No two handles hold a port and none holds one whose driver is gone,     *)
(* whatever has happened; and until one of the same three events every     *)
(* installed driver has its handle (open_entry and close_handle of         *)
(* esp_io_bridge.c).                                                       *)
(***************************************************************************)
THEOREM DriversAreOwned == Spec => []DriversOwned
  <1>1. ASSUME IInv, NEW p \in Ports
        PROVE  /\ Cardinality(Holders(p)) <= IF p \in installed THEN 1 ELSE 0
               /\ ~tangled /\ p \in installed => Holders(p) # {}
    <2>1. Held /\ (~tangled => Found) /\ p # None
      BY <1>1, Constants DEF IInv
    <2>2. 0 \notin Slots
      BY Constants
    <2>3. \A x, y \in Holders(p) : x = y
      BY <2>1, <2>2 DEF Held, Holders
    <2>4. Holders(p) # {} => p \in installed
      BY <2>1 DEF Held, Holders
    <2>5. ~tangled /\ p \in installed => Holders(p) # {}
      BY <2>1 DEF Found, Holders
    <2>6. CASE Holders(p) = {}
      BY <2>5, <2>6, FS_EmptySet
    <2>7. CASE Holders(p) # {}
      <3>1. PICK x \in Holders(p) : TRUE
        BY <2>7
      <3>2. Holders(p) = {x}
        BY <2>3, <3>1
      <3>3. Cardinality(Holders(p)) = 1
        BY <3>2, FS_Singleton
      <3> QED
        BY <2>4, <2>5, <2>7, <3>3
    <2> QED
      BY <2>6, <2>7
  <1>2. IInv => DriversOwned
    BY <1>1 DEF DriversOwned
  <1> QED
    BY <1>2, Invariance, PTL
-----------------------------------------------------------------------------
(***************************************************************************)
(* Resetting and loading, for firmware of every kind.                      *)
(***************************************************************************)
Sleeps == "sleep" \in does

\* What only firmware that sleeps, or that uses a slow bus, can bring about.
ByFeature ==
    /\ state = "SLEEPING" => Sleeps
    /\ emu.at \in {"vector", "wake"} => Sleeps
    /\ emu.at = "bus" => "slow_bus" \in does

\* Core 1 executes nothing and will not start to by itself.
Stopped == state = "HALTED" /\ emu.at # "run"

\* A halt holds from the request on, and with it, once the wait is over,
\* that core 1 is out of its batch.
HaltHolds ==
    /\ ~Sleeps /\ host = "load_wait" => state = "HALTED"
    /\ ~Sleeps /\ host \in {"erase", "parse"} => Stopped
    /\ ~Sleeps /\ host = "reset_wait" => state = "HALTED"

\* A failed load is halted until the web server starts something else.
PartialHolds ==
    ~Sleeps /\ flash = "partial" /\ cache # "partial"
            /\ host \in {"idle", "reply", "load_wait", "erase"} => Stopped

\* Flash is erased only while an image is on its way.
ErasedBriefly == flash = "erased" => host = "parse"

\* The cache from the end of one request to the start of the next.
CacheHolds ==
    /\ host = "run" => cache = flash
    /\ host \in {"idle", "reply"} => cache = flash \/ flash = "partial"

\* What core 1 may be doing when pc is cleared, if its firmware does not sleep.
ClearHolds ==
    ~Sleeps /\ host = "clear_pc" =>
        /\ state = "HALTED"
        /\ emu.at \in {"outer", "bus", "leave"}
        /\ emu.at # "outer" => "slow_bus" \in does

\* A reset that caught core 1 holds until an instruction executes: no interrupt is
\* under way, and whichever copy of pc is used next is 0.
ResetHolds ==
    fresh = "caught" =>
        /\ state # "SLEEPING"
        /\ emu.at \in {"outer", "run", "leave", "bus"}
        /\ pc = 0 /\ (emu.at \in {"run", "leave"} => emu.pc = 0)

ResetInv ==
    /\ ResetTypeOK
    /\ ByFeature
    /\ HaltHolds
    /\ PartialHolds
    /\ ErasedBriefly
    /\ CacheHolds
    /\ ClearHolds
    /\ ResetHolds
-----------------------------------------------------------------------------
LEMMA ResetInitGood == ResetInit => ResetInv
  BY DEF ResetInit, ResetInv, ResetTypeOK, Image, Address, ByFeature, HaltHolds,
              PartialHolds, ErasedBriefly, CacheHolds, ClearHolds, ResetHolds, Stopped, Sleeps

\* The steps of core 0, requests included.
LEMMA HostKeepsReset ==
  ASSUME ResetInv, HostRequest \/ HostStep
  PROVE  ResetInv'
<1>1. CASE LoadHalts
  BY <1>1 DEF LoadHalts, ResetInv, ResetTypeOK, Image, Address, ByFeature, HaltHolds,
              PartialHolds, ErasedBriefly, CacheHolds, ClearHolds, ResetHolds, Stopped, Sleeps
<1>2. CASE WebHalt
  BY <1>2 DEF WebHalt, ResetInv, ResetTypeOK, Image, Address, ByFeature, HaltHolds,
              PartialHolds, ErasedBriefly, CacheHolds, ClearHolds, ResetHolds, Stopped, Sleeps
<1>3. CASE Reply
  BY <1>3 DEF Reply, ResetInv, ResetTypeOK, Image, Address, ByFeature, HaltHolds,
              PartialHolds, ErasedBriefly, CacheHolds, ClearHolds, ResetHolds, Stopped, Sleeps
<1>4. CASE LoadWaits
  BY <1>4 DEF LoadWaits, ResetInv, ResetTypeOK, Image, Address, ByFeature, HaltHolds,
              PartialHolds, ErasedBriefly, CacheHolds, ClearHolds, ResetHolds, Stopped, Sleeps, Waited
<1>5. CASE Erase
  BY <1>5 DEF Erase, ResetInv, ResetTypeOK, Image, Address, ByFeature, HaltHolds,
              PartialHolds, ErasedBriefly, CacheHolds, ClearHolds, ResetHolds, Stopped, Sleeps
<1>6. CASE Parse
  BY <1>6 DEF Parse, ResetInv, ResetTypeOK, Image, Address, ByFeature, HaltHolds,
              PartialHolds, ErasedBriefly, CacheHolds, ClearHolds, ResetHolds, Stopped, Sleeps
<1>7. CASE WebReset
  BY <1>7 DEF WebReset, ResetInv, ResetTypeOK, Image, Address, ByFeature, HaltHolds,
              PartialHolds, ErasedBriefly, CacheHolds, ClearHolds, ResetHolds, Stopped, Sleeps
<1>8. CASE ResetHalts
  BY <1>8 DEF ResetHalts, ResetInv, ResetTypeOK, Image, Address, ByFeature, HaltHolds,
              PartialHolds, ErasedBriefly, CacheHolds, ClearHolds, ResetHolds, Stopped, Sleeps
<1>9. CASE ResetWaits
  BY <1>9 DEF ResetWaits, ResetInv, ResetTypeOK, Image, Address, ByFeature, HaltHolds,
              PartialHolds, ErasedBriefly, CacheHolds, ClearHolds, ResetHolds, Stopped, Sleeps, Waited
<1>10. CASE ClearPc
  <2>1. host = "clear_pc" /\ pc' = 0 /\ host' = "run_early"
    BY <1>10 DEF ClearPc
  <2>2. fresh' = IF Caught THEN "caught" ELSE "missed"
    BY <1>10 DEF ClearPc
  <2>3. does' = does /\ state' = state /\ flash' = flash /\ cache' = cache /\ emu' = emu
    BY <1>10 DEF ClearPc
  <2>4. ResetTypeOK'
    <3>1. fresh' \in {"caught", "missed", "no"}
      BY <2>2
    <3> QED
      BY <2>1, <2>3, <3>1 DEF ResetInv, ResetTypeOK, Address, Image
  <2>5. ResetHolds'
    BY <2>1, <2>2, <2>3 DEF ResetHolds, Caught
  <2>6. (ByFeature /\ HaltHolds /\ PartialHolds /\ ErasedBriefly /\ CacheHolds /\ ClearHolds)'
    BY <2>1, <2>3 DEF ResetInv, ByFeature, HaltHolds, PartialHolds, ErasedBriefly,
                      CacheHolds, ClearHolds, Stopped, Sleeps
  <2> QED
    BY <2>4, <2>5, <2>6 DEF ResetInv
<1>11. CASE RunEarly
  BY <1>11 DEF RunEarly, ResetInv, ResetTypeOK, Image, Address, ByFeature, HaltHolds,
              PartialHolds, ErasedBriefly, CacheHolds, ClearHolds, ResetHolds, Stopped, Sleeps
<1>12. CASE ClearData
  BY <1>12 DEF ClearData, ResetInv, ResetTypeOK, Image, Address, ByFeature, HaltHolds,
              PartialHolds, ErasedBriefly, CacheHolds, ClearHolds, ResetHolds, Stopped, Sleeps
<1>13. CASE Predecode
  BY <1>13 DEF Predecode, ResetInv, ResetTypeOK, Image, Address, ByFeature, HaltHolds,
              PartialHolds, ErasedBriefly, CacheHolds, ClearHolds, ResetHolds, Stopped, Sleeps
<1>14. CASE Run
  BY <1>14 DEF Run, ResetInv, ResetTypeOK, Image, Address, ByFeature, HaltHolds,
              PartialHolds, ErasedBriefly, CacheHolds, ClearHolds, ResetHolds, Stopped, Sleeps
<1> QED
  BY <1>1, <1>2, <1>3, <1>4, <1>5, <1>6, <1>7, <1>8, <1>9, <1>10, <1>11, <1>12, <1>13, <1>14 DEF HostRequest, HostStep

\* The steps of core 1.
LEMMA EmuKeepsReset ==
  ASSUME ResetInv, EmuStep
  PROVE  ResetInv'
<1>1. CASE EnterRun
  BY <1>1 DEF EnterRun, ResetInv, ResetTypeOK, Image, Address, ByFeature, HaltHolds,
              PartialHolds, ErasedBriefly, CacheHolds, ClearHolds, ResetHolds, Stopped, Sleeps
<1>2. CASE Execute
  <2>1. /\ does' = does /\ state' = state /\ pc' = pc /\ flash' = flash
        /\ cache' = cache /\ host' = host /\ emu' = [emu EXCEPT !.pc = 1]
    BY <1>2 DEF Execute
  <2>2. emu.at = "run" /\ fresh' = "no"
    BY <1>2 DEF Execute
  <2>3. emu'.at = emu.at /\ emu'.pc = 1
    BY <2>1 DEF ResetInv, ResetTypeOK
  <2>4. ResetTypeOK'
    <3>1. emu' \in [at : {"outer", "run", "leave", "bus", "vector", "wake"}, pc : Address]
      BY <2>1 DEF ResetInv, ResetTypeOK, Address
    <3>2. fresh' \in {"caught", "missed", "no"}
      BY <2>2
    <3> QED
      BY <2>1, <3>1, <3>2 DEF ResetInv, ResetTypeOK
  <2>5. ResetHolds'
    BY <2>1, <2>2, <2>3 DEF ResetInv, ResetHolds
  <2>6. (ByFeature /\ HaltHolds /\ PartialHolds /\ ErasedBriefly /\ CacheHolds /\ ClearHolds)'
    BY <2>1, <2>3 DEF ResetInv, ByFeature, HaltHolds, PartialHolds, ErasedBriefly,
                      CacheHolds, ClearHolds, Stopped, Sleeps
  <2> QED
    BY <2>4, <2>5, <2>6 DEF ResetInv
<1>3. CASE ExecuteSleep
  BY <1>3 DEF ExecuteSleep, ResetInv, ResetTypeOK, Image, Address, ByFeature, HaltHolds,
              PartialHolds, ErasedBriefly, CacheHolds, ClearHolds, ResetHolds, Stopped, Sleeps
<1>4. CASE BusBegins
  BY <1>4 DEF BusBegins, ResetInv, ResetTypeOK, Image, Address, ByFeature, HaltHolds,
              PartialHolds, ErasedBriefly, CacheHolds, ClearHolds, ResetHolds, Stopped, Sleeps
<1>5. CASE BusEnds
  BY <1>5 DEF BusEnds, ResetInv, ResetTypeOK, Image, Address, ByFeature, HaltHolds,
              PartialHolds, ErasedBriefly, CacheHolds, ClearHolds, ResetHolds, Stopped, Sleeps
<1>6. CASE SeesHalt
  <2>1. /\ emu.at = "run" /\ emu'.at = "leave" /\ emu'.pc = emu.pc /\ emu.pc \in Address
        /\ emu' \in [at : {"outer", "run", "leave", "bus", "vector", "wake"}, pc : Address]
    BY <1>6 DEF SeesHalt, ResetInv, ResetTypeOK
  <2>2. UNCHANGED <<does, state, pc, flash, cache, host, fresh>>
    BY <1>6 DEF SeesHalt
  <2>3. ResetTypeOK'
    BY <2>1, <2>2 DEF ResetInv, ResetTypeOK
  <2>4. (ByFeature /\ ErasedBriefly /\ CacheHolds /\ ClearHolds /\ ResetHolds)'
    BY <2>1, <2>2 DEF ResetInv, ByFeature, ErasedBriefly, CacheHolds, ClearHolds, ResetHolds, Sleeps
  <2>5. (HaltHolds /\ PartialHolds)'
    BY <2>1, <2>2 DEF ResetInv, HaltHolds, PartialHolds, Stopped, Sleeps
  <2> QED
    BY <2>3, <2>4, <2>5 DEF ResetInv
<1>7. CASE EndRun
  <2>1. /\ emu.at = "run" /\ emu'.at = "leave" /\ emu'.pc = emu.pc /\ emu.pc \in Address
        /\ emu' \in [at : {"outer", "run", "leave", "bus", "vector", "wake"}, pc : Address]
    BY <1>7 DEF EndRun, ResetInv, ResetTypeOK
  <2>2. UNCHANGED <<does, state, pc, flash, cache, host, fresh>>
    BY <1>7 DEF EndRun
  <2>3. ResetTypeOK'
    BY <2>1, <2>2 DEF ResetInv, ResetTypeOK
  <2>4. (ByFeature /\ ErasedBriefly /\ CacheHolds /\ ClearHolds /\ ResetHolds)'
    BY <2>1, <2>2 DEF ResetInv, ByFeature, ErasedBriefly, CacheHolds, ClearHolds, ResetHolds, Sleeps
  <2>5. (HaltHolds /\ PartialHolds)'
    BY <2>1, <2>2 DEF ResetInv, HaltHolds, PartialHolds, Stopped, Sleeps
  <2> QED
    BY <2>3, <2>4, <2>5 DEF ResetInv
<1>8. CASE Leave
  BY <1>8 DEF Leave, ResetInv, ResetTypeOK, Image, Address, ByFeature, HaltHolds,
              PartialHolds, ErasedBriefly, CacheHolds, ClearHolds, ResetHolds, Stopped, Sleeps
<1>9. CASE TakeInterrupt
  BY <1>9 DEF TakeInterrupt, ResetInv, ResetTypeOK, Image, Address, ByFeature, HaltHolds,
              PartialHolds, ErasedBriefly, CacheHolds, ClearHolds, ResetHolds, Stopped, Sleeps
<1>10. CASE TestSleeping
  BY <1>10 DEF TestSleeping, ResetInv, ResetTypeOK, Image, Address, ByFeature, HaltHolds,
              PartialHolds, ErasedBriefly, CacheHolds, ClearHolds, ResetHolds, Stopped, Sleeps
<1>11. CASE Wake
  BY <1>11 DEF Wake, ResetInv, ResetTypeOK, Image, Address, ByFeature, HaltHolds,
              PartialHolds, ErasedBriefly, CacheHolds, ClearHolds, ResetHolds, Stopped, Sleeps
<1> QED
  BY <1>1, <1>2, <1>3, <1>4, <1>5, <1>6, <1>7, <1>8, <1>9, <1>10, <1>11 DEF EmuStep

LEMMA ResetStutterKeeps == ResetInv /\ UNCHANGED resetVars => ResetInv'
  BY DEF resetVars, ResetInv, ResetTypeOK, Image, Address, ByFeature, HaltHolds,
              PartialHolds, ErasedBriefly, CacheHolds, ClearHolds, ResetHolds, Stopped, Sleeps

LEMMA ResetInvariance == ResetSpec => []ResetInv
<1>1. ResetInv /\ [ResetNext]_resetVars => ResetInv'
  BY HostKeepsReset, EmuKeepsReset, ResetStutterKeeps DEF ResetNext
<1> QED
  BY ResetInitGood, <1>1, PTL DEF ResetSpec
-----------------------------------------------------------------------------
(***************************************************************************)
(* Types.                                                                  *)
(***************************************************************************)
THEOREM ResetTypeCorrect == ResetSpec => []ResetTypeOK
<1>1. ResetInv => ResetTypeOK
  BY DEF ResetInv
<1> QED
  BY ResetInvariance, <1>1, PTL

(***************************************************************************)
(* avr_load_fw: core 1 executes nothing while flash is being rewritten,    *)
(* whatever it was doing when the load was asked for.                      *)
(***************************************************************************)
THEOREM FlashNotExecutedCorrect == ResetSpec => []FlashNotExecuted
<1>1. ResetInv => FlashNotExecuted
  BY DEF ResetInv, HaltHolds, Stopped, Sleeps, FlashNotExecuted, Loading
<1> QED
  BY ResetInvariance, <1>1, PTL

(***************************************************************************)
(* A load that failed part way leaves a core that executes nothing.        *)
(***************************************************************************)
THEOREM FailedLoadCorrect == ResetSpec => []FailedLoadIsHalted
<1>1. ResetInv => FailedLoadIsHalted
  BY DEF ResetInv, PartialHolds, Stopped, Sleeps, FailedLoadIsHalted
<1> QED
  BY ResetInvariance, <1>1, PTL

(***************************************************************************)
(* After every request the decode cache is the one of what flash holds.    *)
(***************************************************************************)
THEOREM CacheCorrect == ResetSpec => []CacheFollowsFlash
<1>1. ResetInv => CacheFollowsFlash
  BY DEF ResetInv, CacheHolds, CacheFollowsFlash
<1> QED
  BY ResetInvariance, <1>1, PTL

(***************************************************************************)
(* avr_cpu_reset, for firmware of every kind: a reset that catches core 1  *)
(* starts at the reset vector, and one misses it only when a SLEEP may     *)
(* have overwritten the halt, or a bus operation ended after the wait.     *)
(***************************************************************************)
THEOREM ResetCorrect == ResetSpec => ResetTakesEffect
<1> DEFINE Starts == fresh = "caught" /\ fresh' = "no" => emu.pc = 0
           Misses == fresh # "missed" /\ fresh' = "missed" =>
                        "sleep" \in does \/ ("slow_bus" \in does /\ emu.at = "leave")
<1>1. ResetInv /\ [ResetNext]_resetVars => [Starts /\ Misses]_resetVars
  <2> SUFFICES ASSUME ResetInv, ResetNext
               PROVE  Starts /\ Misses
    OBVIOUS
  <2>1. CASE Execute \/ ExecuteSleep
    <3>1. emu.at = "run" /\ fresh' = "no"
      BY <2>1 DEF Execute, ExecuteSleep
    <3> QED
      BY <3>1 DEF ResetInv, ResetHolds
  <2>2. CASE ClearPc
    <3>1. host = "clear_pc" /\ fresh' = IF Caught THEN "caught" ELSE "missed"
      BY <2>2 DEF ClearPc
    <3> QED
      BY <3>1 DEF ResetInv, ClearHolds, Caught, Sleeps
  <2>3. CASE fresh' = fresh
    <3>1. ~(fresh = "caught" /\ fresh' = "no") /\ ~(fresh # "missed" /\ fresh' = "missed")
      BY <2>3
    <3> QED
      BY <3>1
  <2>4. Execute \/ ExecuteSleep \/ ClearPc \/ fresh' = fresh
    BY DEF ResetNext, HostRequest, HostStep, EmuStep, LoadHalts, WebHalt, Reply, LoadWaits,
           Erase, Parse, WebReset, ResetHalts, ResetWaits, RunEarly,
           ClearData, Predecode, Run, EnterRun, BusBegins, BusEnds, SeesHalt,
           EndRun, Leave, TakeInterrupt, TestSleeping, Wake
  <2> HIDE DEF Starts, Misses
  <2> QED
    BY <2>1, <2>2, <2>3, <2>4
<1> QED
  BY ResetInvariance, <1>1, PTL DEF ResetSpec, ResetTakesEffect
-----------------------------------------------------------------------------
(***************************************************************************)
(* The ring: the two rely-conditions are the invariant.                    *)
(***************************************************************************)
RingInv == RingTypeOK /\ ProducerKeepsSlot /\ ConsumerKeepsByte

\* Count is the number of slots from tail to head, going up and around.
LEMMA CountBounds ==
    ASSUME RingTypeOK
    PROVE  /\ Count \in 0..(Size - 1)
           /\ IsEmpty <=> Count = 0
           /\ \A i \in 0..(Size - 1) : Slot(i) \in Index
           /\ Slot(0) = tail
           /\ Slot(Count) = head
           /\ \A i \in 0..(Size - 1) : i < Count => Slot(i) # head
  BY SizeAssumption DEF RingTypeOK, Index, Count, Slot, IsEmpty

\* The ring read as a sequence.
LEMMA ContentsFacts ==
    ASSUME RingTypeOK
    PROVE  /\ Len(Contents) = Count
           /\ Contents \in Seq(Byte \cup {NoByte})
           /\ DOMAIN Contents = 1..Count
           /\ \A i \in 1..Count : Contents[i] = buf[Slot(i - 1)]
  <1>1. Count \in Nat /\ \A i \in 1..Count : i - 1 \in 0..(Size - 1)
    BY CountBounds, SizeAssumption
  <1>2. \A i \in 1..Count : buf[Slot(i - 1)] \in Byte \cup {NoByte}
    BY <1>1, CountBounds DEF RingTypeOK
  <1>3. Contents \in [1..Count -> Byte \cup {NoByte}]
    BY <1>2 DEF Contents
  <1> QED
    BY <1>1, <1>3 DEF Contents

\* Moving head up by one makes room for exactly one more byte.
LEMMA HeadMoves ==
    ASSUME RingTypeOK, Count < Size - 1,
           head' = Wrap(head), tail' = tail, buf' = buf
    PROVE  /\ head' \in Index
           /\ Count' = Count + 1
           /\ Contents' = Append(Contents, buf[head])
  <1>1. head' \in Index /\ Count' = Count + 1
    BY SizeAssumption DEF RingTypeOK, Index, Wrap, Count
  <1>2. \A i \in 0..(Size - 1) : (Slot(i))' = Slot(i)
    BY DEF Slot
  <1>3. Count \in 0..(Size - 1) /\ Slot(Count) = head
    BY CountBounds
  <1>4. \A i \in 1..(Count + 1) : (Slot(i - 1))' = Slot(i - 1)
    BY <1>2, <1>3, SizeAssumption
  <1>5. Contents' = [i \in 1..(Count + 1) |-> buf[Slot(i - 1)]]
    BY <1>1, <1>4 DEF Contents
  <1>6. Len(Contents) = Count /\ Contents \in Seq(Byte \cup {NoByte})
        /\ \A i \in 1..Count : Contents[i] = buf[Slot(i - 1)]
    BY ContentsFacts
  <1>7. Append(Contents, buf[head])
          = [i \in 1..(Count + 1) |-> IF i = Count + 1 THEN buf[head] ELSE Contents[i]]
    BY <1>6
  <1>8. \A i \in 1..(Count + 1) :
          buf[Slot(i - 1)] = IF i = Count + 1 THEN buf[head] ELSE Contents[i]
    <2> TAKE i \in 1..(Count + 1)
    <2>1. CASE i = Count + 1
      BY <2>1, <1>3
    <2>2. CASE i # Count + 1
      BY <2>2, <1>3, <1>6
    <2> QED
      BY <2>1, <2>2
  <1> QED
    BY <1>1, <1>5, <1>7, <1>8

\* Moving tail up by one gives up exactly the oldest byte.
LEMMA TailMoves ==
    ASSUME RingTypeOK, Count > 0,
           tail' = Wrap(tail), head' = head, buf' = buf
    PROVE  /\ tail' \in Index
           /\ Count' = Count - 1
           /\ Contents # <<>>
           /\ Head(Contents) = buf[tail]
           /\ Contents' = Tail(Contents)
  <1>1. tail' \in Index /\ Count' = Count - 1
    BY SizeAssumption DEF RingTypeOK, Index, Wrap, Count
  <1>2. \A i \in 0..(Size - 2) : (Slot(i))' = Slot(i + 1)
    BY SizeAssumption DEF RingTypeOK, Index, Slot, Wrap
  <1>3. Count \in 0..(Size - 1) /\ Slot(0) = tail
    BY CountBounds
  <1>4. Len(Contents) = Count /\ Contents \in Seq(Byte \cup {NoByte})
        /\ \A i \in 1..Count : Contents[i] = buf[Slot(i - 1)]
    BY ContentsFacts
  <1>5. Contents # <<>>
    BY <1>3, <1>4
  <1>6. Head(Contents) = buf[tail]
    BY <1>3, <1>4, <1>5
  <1>7. \A i \in 1..(Count - 1) : (Slot(i - 1))' = Slot(i)
    <2> TAKE i \in 1..(Count - 1)
    <2>1. i - 1 \in 0..(Size - 2) /\ (i - 1) + 1 = i
      BY <1>3, SizeAssumption
    <2> QED
      BY <2>1, <1>2
  <1>8. Contents' = [i \in 1..(Count - 1) |-> buf[Slot(i)]]
    BY <1>1, <1>7 DEF Contents
  <1>9. Tail(Contents) = [i \in 1..(Count - 1) |-> Contents[i + 1]]
    <2>1. /\ Tail(Contents) \in Seq(Byte \cup {NoByte})
          /\ Len(Tail(Contents)) = Count - 1
          /\ \A i \in 1..(Count - 1) : Tail(Contents)[i] = Contents[i + 1]
      BY <1>4, <1>5, HeadTailProperties
    <2>2. Tail(Contents) \in [1..(Count - 1) -> Byte \cup {NoByte}]
      BY <2>1, LenProperties
    <2> QED
      BY <2>1, <2>2
  <1>10. \A i \in 1..(Count - 1) : Contents[i + 1] = buf[Slot(i)]
    <2> TAKE i \in 1..(Count - 1)
    <2>1. i + 1 \in 1..Count /\ (i + 1) - 1 = i
      BY <1>3
    <2> QED
      BY <2>1, <1>4
  <1> QED
    BY <1>1, <1>5, <1>6, <1>8, <1>9, <1>10

\* Writing the slot at head touches none of the queued bytes.
LEMMA StoreIsInvisible ==
    ASSUME RingTypeOK, NEW b,
           buf' = [buf EXCEPT ![head] = b], head' = head, tail' = tail
    PROVE  Contents' = Contents
  <1>1. Count' = Count
    BY DEF Count
  <1>2. Count \in 0..(Size - 1)
    BY CountBounds
  <1>3. \A i \in 1..Count : (Slot(i - 1))' = Slot(i - 1) /\ buf'[Slot(i - 1)] = buf[Slot(i - 1)]
    <2> TAKE i \in 1..Count
    <2>1. i - 1 \in 0..(Size - 1) /\ i - 1 < Count
      BY <1>2, SizeAssumption
    <2>2. Slot(i - 1) # head /\ Slot(i - 1) \in Index
      BY <2>1, CountBounds
    <2> QED
      BY <2>2 DEF Slot, RingTypeOK
  <1> QED
    BY <1>1, <1>3 DEF Contents
-----------------------------------------------------------------------------
(***************************************************************************)
(* The invariant.                                                          *)
(***************************************************************************)
LEMMA InitRingInv == RingInit => RingInv
  BY SizeAssumption
  DEF RingInit, RingInv, RingTypeOK, ProducerKeepsSlot, ConsumerKeepsByte, Index, Control

LEMMA StepIInv == RingInv /\ [RingNext]_ringVars => RingInv'
  <1> SUFFICES ASSUME RingInv, [RingNext]_ringVars PROVE RingInv'
    OBVIOUS
  <1> USE SizeAssumption DEF RingInv
  <1>1. ASSUME NEW v \in Byte, Offer(v) PROVE RingInv'
    <2>1. Count' = Count /\ Count \in 0..(Size - 1)
      BY <1>1, CountBounds DEF Offer, Count
    <2>2. RingTypeOK'
      BY <1>1 DEF Offer, RingTypeOK, Control
    <2>3. (ProducerKeepsSlot /\ ConsumerKeepsByte)'
      BY <1>1, <2>1 DEF Offer, ProducerKeepsSlot, ConsumerKeepsByte, Full, RingTypeOK
    <2> QED
      BY <2>2, <2>3
  <1>2. CASE StoreByte
    <2>1. Count' = Count
      BY <1>2 DEF StoreByte, Count
    <2>2. RingTypeOK'
      BY <1>2 DEF StoreByte, RingTypeOK, Control
    <2>3. ProducerKeepsSlot'
      BY <1>2, <2>1 DEF StoreByte, ProducerKeepsSlot, RingTypeOK, Control
    <2>4. consumer.at # "idle" => head # tail
      BY CountBounds DEF ConsumerKeepsByte, IsEmpty
    <2>5. ConsumerKeepsByte'
      BY <1>2, <2>1, <2>4 DEF StoreByte, ConsumerKeepsByte, RingTypeOK, Control
    <2> QED
      BY <2>2, <2>3, <2>5
  <1>3. CASE AdvanceHead
    <2>1. head' \in Index /\ Count' = Count + 1 /\ Count \in 0..(Size - 1)
      BY <1>3, HeadMoves, CountBounds DEF AdvanceHead, ProducerKeepsSlot
    <2>2. RingTypeOK'
      BY <1>3, <2>1 DEF AdvanceHead, RingTypeOK, Control
    <2>3. (ProducerKeepsSlot /\ ConsumerKeepsByte)'
      BY <1>3, <2>1 DEF AdvanceHead, ProducerKeepsSlot, ConsumerKeepsByte
    <2> QED
      BY <2>2, <2>3
  <1>4. CASE Ask
    <2>1. Count' = Count /\ Count \in 0..(Size - 1) /\ (IsEmpty <=> Count = 0)
      BY <1>4, CountBounds DEF Ask, Count
    <2>2. RingTypeOK'
      BY <1>4 DEF Ask, RingTypeOK, Control
    <2>3. (ProducerKeepsSlot /\ ConsumerKeepsByte)'
      BY <1>4, <2>1 DEF Ask, ProducerKeepsSlot, ConsumerKeepsByte
    <2> QED
      BY <2>2, <2>3
  <1>5. CASE Load
    <2>1. Count' = Count
      BY <1>5 DEF Load, Count
    <2>2. RingTypeOK'
      BY <1>5 DEF Load, RingTypeOK, Control
    <2>3. (ProducerKeepsSlot /\ ConsumerKeepsByte)'
      BY <1>5, <2>1 DEF Load, ProducerKeepsSlot, ConsumerKeepsByte
    <2> QED
      BY <2>2, <2>3
  <1>6. CASE AdvanceTail
    <2>1. tail' \in Index /\ Count' = Count - 1 /\ Count \in 0..(Size - 1)
      BY <1>6, TailMoves, CountBounds DEF AdvanceTail, ConsumerKeepsByte
    <2>2. RingTypeOK'
      BY <1>6, <2>1 DEF AdvanceTail, RingTypeOK, Control
    <2>3. (ProducerKeepsSlot /\ ConsumerKeepsByte)'
      BY <1>6, <2>1 DEF AdvanceTail, ProducerKeepsSlot, ConsumerKeepsByte
    <2> QED
      BY <2>2, <2>3
  <1>7. CASE UNCHANGED ringVars
    BY <1>7 DEF ringVars, RingTypeOK, ProducerKeepsSlot, ConsumerKeepsByte, Count
  <1> QED
    BY <1>1, <1>2, <1>3, <1>4, <1>5, <1>6, <1>7 DEF RingNext

LEMMA Invariant == RingSpec => []RingInv
  BY InitRingInv, StepIInv, PTL DEF RingSpec

(***************************************************************************)
(* The indices stay inside the buffer, for a ring of any size.             *)
(***************************************************************************)
THEOREM RingTypeCorrect == RingSpec => []RingTypeOK
  BY Invariant, PTL DEF RingInv

(***************************************************************************)
(* Neither core acts on a stale test of the other's index, with no lock.   *)
(***************************************************************************)
THEOREM TestsStayTrueCorrect == RingSpec => []TestsStayTrue
  <1>1. RingInv => TestsStayTrue
    BY DEF RingInv, TestsStayTrue
  <1> QED
    BY <1>1, Invariant, PTL
-----------------------------------------------------------------------------
(***************************************************************************)
(* The refinement.                                                         *)
(***************************************************************************)
LEMMA InitRefines == RingInit => Queue!Init
  <1> SUFFICES ASSUME RingInit PROVE Queue!Init
    OBVIOUS
  <1>1. RingTypeOK
    BY InitRingInv DEF RingInv
  <1>2. Len(Contents) = 0 /\ Contents \in Seq(Byte \cup {NoByte})
    BY <1>1, ContentsFacts DEF RingInit, Count
  <1> QED
    BY <1>2 DEF RingInit, Queue!Init, Queue!NoEvent

LEMMA StepRefines == RingInv /\ [RingNext]_ringVars => [Queue!Next]_<<Contents, event>>
  <1> SUFFICES ASSUME RingInv, [RingNext]_ringVars PROVE [Queue!Next]_<<Contents, event>>
    OBVIOUS
  <1> USE DEF RingInv
  <1>0. ASSUME head' = head, tail' = tail, buf' = buf PROVE Contents' = Contents
    BY <1>0 DEF Contents, Count, Slot
  <1>1. ASSUME NEW v \in Byte, Offer(v) PROVE [Queue!Next]_<<Contents, event>>
    <2>1. Contents' = Contents
      BY <1>0, <1>1 DEF Offer
    <2>2. CASE Full
      <3>1. Len(Contents) = Size - 1
        BY <2>2, ContentsFacts DEF Full
      <3>2. Queue!Drop(v)
        BY <1>1, <2>1, <2>2, <3>1 DEF Offer, Queue!Drop
      <3> QED
        BY <3>2 DEF Queue!Next
    <2>3. CASE ~Full
      BY <1>1, <2>1, <2>3 DEF Offer
    <2> QED
      BY <2>2, <2>3
  <1>2. CASE StoreByte
    BY <1>2, StoreIsInvisible DEF StoreByte
  <1>3. CASE AdvanceHead
    <2>1. Count < Size - 1 /\ buf[head] = producer.byte /\ producer.byte \in Byte
      BY <1>3 DEF AdvanceHead, ProducerKeepsSlot, RingTypeOK
    <2>2. Contents' = Append(Contents, producer.byte)
      BY <1>3, <2>1, HeadMoves DEF AdvanceHead
    <2>3. Len(Contents) < Size - 1
      BY <2>1, ContentsFacts
    <2>4. Queue!Put(producer.byte)
      BY <1>3, <2>2, <2>3 DEF AdvanceHead, Queue!Put
    <2> QED
      BY <2>1, <2>4 DEF Queue!Next
  <1>4. CASE Ask
    <2>1. Contents' = Contents
      BY <1>0, <1>4 DEF Ask
    <2>2. CASE IsEmpty
      <3>1. Contents = <<>>
        BY <2>2, CountBounds, ContentsFacts
      <3>2. Queue!Empty
        BY <1>4, <2>1, <2>2, <3>1 DEF Ask, Queue!Empty
      <3> QED
        BY <3>2 DEF Queue!Next
    <2>3. CASE ~IsEmpty
      BY <1>4, <2>1, <2>3 DEF Ask
    <2> QED
      BY <2>2, <2>3
  <1>5. CASE Load
    BY <1>0, <1>5 DEF Load
  <1>6. CASE AdvanceTail
    <2>1. Count > 0 /\ consumer.byte = buf[tail]
      BY <1>6 DEF AdvanceTail, ConsumerKeepsByte
    <2>2. Contents # <<>> /\ Head(Contents) = buf[tail] /\ Contents' = Tail(Contents)
      BY <1>6, <2>1, TailMoves DEF AdvanceTail
    <2>3. Queue!Get
      BY <1>6, <2>1, <2>2 DEF AdvanceTail, Queue!Get
    <2> QED
      BY <2>3 DEF Queue!Next
  <1>7. CASE UNCHANGED ringVars
    BY <1>0, <1>7 DEF ringVars
  <1> QED
    BY <1>1, <1>2, <1>3, <1>4, <1>5, <1>6, <1>7 DEF RingNext

(***************************************************************************)
(* Every behaviour of the unlocked ring is a behaviour of the bounded      *)
(* queue: bytes come out in order, once each, and one is dropped only when *)
(* the ring is full.                                                       *)
(***************************************************************************)
THEOREM RingIsFifo == RingSpec => ImplementsFifo
  BY InitRefines, StepRefines, Invariant, PTL DEF RingSpec, ImplementsFifo, Queue!Spec
-----------------------------------------------------------------------------
(***************************************************************************)
(* The registers and interrupts beside the rings, AvrUart, for every ring  *)
(* size and every set of values the firmware writes to UCSRB.              *)
(***************************************************************************)
\* Two calls in progress overlap, which takes two cores.
OverlapIsRace ==
    \A a \in Actor :
        Busy(a) /\ Busy(Other(a)) => hist.raced /\ cores = 2

\* Both interrupts whose condition holds are in S.
BothIn(S) ==
    /\ "RXCIE" \in ucsrb /\ rx > 0 => "RXC" \in S
    /\ "UDRIE" \in ucsrb /\ ~hist.full => "UDRE" \in S

\* What a call that nothing has overlapped carries to the next step: the
\* conditions it has read, then the requests it has not stored yet.
Asks(a) ==
    /\ op[a].at \in {"idle", "clear"} => BothIn(pending \cup hist.since)
    /\ op[a].at \in {"load", "or"} => BothIn(op[a].raise \cup pending \cup hist.since)
    /\ op[a].at \in {"rx", "store"} => (~hist.full => "UDRE" \in op[a].status)
    /\ op[a].at = "store" => (rx > 0 => "RXC" \in op[a].status)
    /\ op[a].at \in {"or", "clear"} => op[a].irq = pending

AsksWhenCalm ==
    ~hist.raced => \A a \in Actor : ~Busy(Other(a)) => Asks(a)

\* In one thread a call's copy of the status is true of the rings until it returns,
\* and so is the register it has stored for the firmware to read.
LocalsAreTrue(a) ==
    /\ op[a].at \in {"rx", "store"} => ("UDRE" \in op[a].status => tx < Cap)
    /\ op[a].at = "store" => ("RXC" \in op[a].status => rx > 0)
    /\ op[a].at \in {"load", "or"} /\ op[a].polls =>
           ("UDRE" \in ucsra => tx < Cap) /\ ("RXC" \in ucsra => rx > 0)

TrueInOneThread ==
    cores = 1 => PolledFlagsHold /\ \A a \in Actor : LocalsAreTrue(a)

UartInv == UartTypeOK /\ OverlapIsRace /\ AsksWhenCalm /\ TrueInOneThread

\* The other side is the other actor.
LEMMA Others ==
    /\ Actor = {"fw", "host"}
    /\ Other("fw") = "host" /\ Other("host") = "fw"
  BY DEF Actor, Other

LEMMA CountsInRange ==
    ASSUME UartInv
    PROVE  tx \in Nat /\ rx \in Nat /\ Cap \in Nat /\ Cap > 0 /\ tx <= Cap /\ rx <= Cap
  BY CoresAssumption, CapAssumption, ControlsAssumption DEF UartInv, UartTypeOK

-----------------------------------------------------------------------------
(***************************************************************************)
(* Each step keeps the invariant.                                          *)
(***************************************************************************)

\* uart_update_status: UDRE follows the ring.
LEMMA LoadTxKeeps ==
    ASSUME UartInv,
           NEW a \in Actor,
           LoadTx(a)
    PROVE  UartInv'
  <1>1. UartTypeOK'
    <2>0. UartTypeOK
      BY DEF UartInv
    <2>1. /\ cores' \in Cores /\ ucsrb' \in Controls \cup {{}}
          /\ pending' \subseteq Irq
      BY <2>0 DEF UartTypeOK, LoadTx
    <2>2. tx' \in 0..Cap /\ rx' \in 0..Cap
      BY CountsInRange, <2>0 DEF UartTypeOK, LoadTx, TxRoom
    <2>3. ucsra' \subseteq Flag
      BY <2>0, Others DEF UartTypeOK, LoadTx, Call, Flag, At
    <2>4. op' \in [Actor -> Call]
      <3>1. \A x \in Actor : op[x] \in Call
        BY <2>0 DEF UartTypeOK
      <3> QED
        BY <2>0, <3>1, Others DEF UartTypeOK, LoadTx, Call, Flag, Vector, Irq, At,
             If
    <2>5. hist' \in [seen : SUBSET Vector, since : SUBSET Irq,
                     full : BOOLEAN, raced : BOOLEAN]
      BY <2>0 DEF UartTypeOK, LoadTx, TxRoom, Vector, Irq
    <2> QED
      BY <2>1, <2>2, <2>3, <2>4, <2>5 DEF UartTypeOK
  <1>2. OverlapIsRace'
    BY CountsInRange, Others DEF UartInv, UartTypeOK, OverlapIsRace, LoadTx,
         Call, At, Busy
  <1>3. AsksWhenCalm'
    <2>1. /\ op[a] \in Call
          /\ op'[a] = [op[a] EXCEPT !.at = "rx",
                                     !.status = (ucsra \ {"UDRE"}) \cup If("UDRE", TxRoom)]
      BY DEF UartInv, UartTypeOK, LoadTx
    <2>2. op'[a].at = "rx" /\ (TxRoom => "UDRE" \in op'[a].status)
      BY <2>1 DEF Call, If
    <2>3. hist'.full <=> ~TxRoom
      BY DEF LoadTx, UartInv, UartTypeOK
    <2>4. Asks(a)' \/ Busy(Other(a))'
      BY <2>2, <2>3 DEF Asks, Busy
    <2>5. Busy(Other(Other(a)))'
      BY <2>2, Others DEF Busy
    <2>6. \A x \in Actor : x = a \/ x = Other(a)
      BY Others
    <2> QED
      BY <2>4, <2>5, <2>6 DEF AsksWhenCalm
  <1>4. TrueInOneThread'
    BY CountsInRange, Others DEF UartInv, UartTypeOK, OverlapIsRace,
         TrueInOneThread, LocalsAreTrue, PolledFlagsHold, LoadTx, Call, At,
         Busy, If, TxRoom, Vector, Irq
  <1> QED
    BY <1>1, <1>2, <1>3, <1>4 DEF UartInv

\* RXC follows the ring.
LEMMA LoadRxKeeps ==
    ASSUME UartInv,
           NEW a \in Actor,
           LoadRx(a)
    PROVE  UartInv'
  <1>1. UartTypeOK'
    BY CountsInRange, Others, ControlsAssumption DEF UartInv, UartTypeOK,
         LoadRx, Call, Flag, Vector, Irq, At, If
  <1>2. OverlapIsRace'
    BY CountsInRange, Others DEF UartInv, UartTypeOK, OverlapIsRace, LoadRx,
         Call, At, Busy
  <1>3. AsksWhenCalm'
    BY CountsInRange, Others DEF UartInv, UartTypeOK, OverlapIsRace,
         AsksWhenCalm, Asks, BothIn, LoadRx, Call, At, Busy, If
  <1>4. TrueInOneThread'
    BY CountsInRange, Others DEF UartInv, UartTypeOK, OverlapIsRace,
         TrueInOneThread, LocalsAreTrue, PolledFlagsHold, LoadRx, Call, At,
         Busy, If, Vector, Irq
  <1> QED
    BY <1>1, <1>2, <1>3, <1>4 DEF UartInv

\* What the stored status asks for is in raise.
LEMMA StoreStatusKeeps ==
    ASSUME UartInv,
           NEW a \in Actor,
           StoreStatus(a)
    PROVE  UartInv'
  <1>1. UartTypeOK'
    BY CountsInRange, Others, ControlsAssumption DEF UartInv, UartTypeOK,
         StoreStatus, Call, Flag, Vector, Irq, At, If, Requests
  <1>2. OverlapIsRace'
    BY CountsInRange, Others DEF UartInv, UartTypeOK, OverlapIsRace,
         StoreStatus, Call, At, Busy
  <1>3. AsksWhenCalm'
    BY CountsInRange, Others DEF UartInv, UartTypeOK, OverlapIsRace,
         AsksWhenCalm, Asks, BothIn, StoreStatus, Call, At, Busy, If, Requests
  <1>4. TrueInOneThread'
    BY CountsInRange, Others DEF UartInv, UartTypeOK, OverlapIsRace,
         TrueInOneThread, LocalsAreTrue, PolledFlagsHold, StoreStatus, Call,
         At, Busy, If, Requests, Vector, Irq
  <1> QED
    BY <1>1, <1>2, <1>3, <1>4 DEF UartInv

\* The read of irq_pending: nobody else changes it while calm.
LEMMA LoadPendingKeeps ==
    ASSUME UartInv,
           NEW a \in Actor,
           LoadPending(a)
    PROVE  UartInv'
  <1>1. UartTypeOK'
    BY CountsInRange, Others, ControlsAssumption DEF UartInv, UartTypeOK,
         LoadPending, Call, Flag, Vector, Irq, At
  <1>2. OverlapIsRace'
    BY CountsInRange, Others DEF UartInv, UartTypeOK, OverlapIsRace,
         LoadPending, Call, At, Busy
  <1>3. AsksWhenCalm'
    BY CountsInRange, Others DEF UartInv, UartTypeOK, OverlapIsRace,
         AsksWhenCalm, Asks, BothIn, LoadPending, Call, At, Busy
  <1>4. TrueInOneThread'
    BY CountsInRange, Others DEF UartInv, UartTypeOK, OverlapIsRace,
         TrueInOneThread, LocalsAreTrue, PolledFlagsHold, LoadPending, Call,
         At, Busy, Vector, Irq
  <1> QED
    BY <1>1, <1>2, <1>3, <1>4 DEF UartInv

\* A request moves from raise to irq_pending.
LEMMA StorePendingKeeps ==
    ASSUME UartInv,
           NEW a \in Actor,
           StorePending(a)
    PROVE  UartInv'
  <1>1. UartTypeOK'
    <2> DEFINE v == FirstOf(op[a].raise)
               call == [op[a] EXCEPT !.at = "load", !.irq = {},
                    !.raise = op[a].raise \ {v}]
    <2>1. op[a] \in Call /\ v \in Irq
      BY DEF UartInv, UartTypeOK, FirstOf, Vector, Irq
    <2>2. pending' = op[a].irq \cup {v} /\ op' = [op EXCEPT ![a] = call]
      BY DEF StorePending
    <2> HIDE DEF v
    <2>3. call \in Call /\ op[a].irq \cup {v} \subseteq Irq
      BY <2>1 DEF Call
    <2> HIDE DEF call
    <2>4. UNCHANGED <<cores, tx, rx, ucsra, ucsrb, hist>> /\ UartTypeOK
      BY DEF StorePending, UartInv
    <2> QED
      BY <2>2, <2>3, <2>4 DEF UartTypeOK
  <1>2. OverlapIsRace'
    BY CountsInRange, Others DEF UartInv, UartTypeOK, OverlapIsRace,
         StorePending, Call, At, Busy
  <1>3. AsksWhenCalm'
    BY CountsInRange, Others DEF UartInv, UartTypeOK, OverlapIsRace,
         AsksWhenCalm, Asks, BothIn, StorePending, FirstOf, Call, At, Busy
  <1>4. TrueInOneThread'
    BY CountsInRange, Others DEF UartInv, UartTypeOK, OverlapIsRace,
         TrueInOneThread, LocalsAreTrue, PolledFlagsHold, StorePending, Call,
         At, Busy, Vector, Irq
  <1> QED
    BY <1>1, <1>2, <1>3, <1>4 DEF UartInv

\* Nothing is left to ask for.
LEMMA ReturnKeeps ==
    ASSUME UartInv,
           NEW a \in Actor,
           Return(a)
    PROVE  UartInv'
  <1>1. UartTypeOK'
    BY CountsInRange, Others, ControlsAssumption DEF UartInv, UartTypeOK,
         Return, Call, Flag, Vector, Irq, Idle, At
  <1>2. OverlapIsRace'
    BY CountsInRange, Others DEF UartInv, UartTypeOK, OverlapIsRace, Return,
         Call, Idle, At, Busy
  <1>3. AsksWhenCalm'
    BY CountsInRange, Others DEF UartInv, UartTypeOK, OverlapIsRace,
         AsksWhenCalm, Asks, BothIn, Return, Call, Idle, At, Busy
  <1>4. TrueInOneThread'
    BY CountsInRange, Others DEF UartInv, UartTypeOK, OverlapIsRace,
         TrueInOneThread, LocalsAreTrue, PolledFlagsHold, Return, Call, Idle,
         At, Busy, Vector, Irq
  <1> QED
    BY <1>1, <1>2, <1>3, <1>4 DEF UartInv

\* udr_read with a byte in the ring.
LEMMA ReadUdrFullKeeps ==
    ASSUME UartInv,
           rx > 0,
           rx' = rx - 1,
           Refresh("fw", "tx", FALSE, hist.seen \ {"RXC"}),
           MayStart("fw"),
           UNCHANGED <<cores, tx, ucsra, ucsrb, pending>>
    PROVE  UartInv'
  <1>1. UartTypeOK'
    <2>0. UartTypeOK
      BY DEF UartInv
    <2>1. /\ cores' \in Cores /\ ucsrb' \in Controls \cup {{}}
          /\ pending' \subseteq Irq
      BY <2>0 DEF UartTypeOK, Refresh
    <2>2. tx' \in 0..Cap /\ rx' \in 0..Cap
      BY CountsInRange, <2>0 DEF UartTypeOK
    <2>3. ucsra' \subseteq Flag
      BY <2>0, Others DEF UartTypeOK, Call, Flag
    <2>4. op' \in [Actor -> Call]
      <3>1. \A x \in Actor : op[x] \in Call
        BY <2>0 DEF UartTypeOK
      <3> QED
        BY <2>0, <3>1, Others DEF UartTypeOK, Call, Flag, Vector, Irq, Idle, Refresh
    <2>5. hist' \in [seen : SUBSET Vector, since : SUBSET Irq,
                     full : BOOLEAN, raced : BOOLEAN]
      BY <2>0 DEF UartTypeOK, Refresh, Busy, Vector, Irq
    <2> QED
      BY <2>1, <2>2, <2>3, <2>4, <2>5 DEF UartTypeOK
  <1>2. OverlapIsRace'
    BY CountsInRange, Others DEF UartInv, UartTypeOK, OverlapIsRace, Call,
         Idle, Refresh, MayStart, Busy
  <1>3. AsksWhenCalm'
    BY CountsInRange, Others DEF UartInv, UartTypeOK, OverlapIsRace,
         AsksWhenCalm, Asks, BothIn, Call, Idle, Refresh, MayStart, Busy
  <1>4. TrueInOneThread'
    BY CountsInRange, Others DEF UartInv, UartTypeOK, OverlapIsRace,
         TrueInOneThread, LocalsAreTrue, PolledFlagsHold, Call, Idle, Refresh,
         MayStart, Busy, Vector, Irq
  <1> QED
    BY <1>1, <1>2, <1>3, <1>4 DEF UartInv

\* udr_read of an empty ring: nothing to ask for.
LEMMA ReadUdrEmptyKeeps ==
    ASSUME UartInv,
           rx = 0,
           Touch("fw", hist.seen \ {"RXC"}),
           MayStart("fw"),
           UNCHANGED <<cores, tx, rx, ucsra, ucsrb, pending, op>>
    PROVE  UartInv'
  <1>1. UartTypeOK'
    <2>0. UartTypeOK
      BY DEF UartInv
    <2>1. /\ cores' \in Cores /\ ucsrb' \in Controls \cup {{}}
          /\ pending' \subseteq Irq
      BY <2>0 DEF UartTypeOK, Touch
    <2>2. tx' \in 0..Cap /\ rx' \in 0..Cap
      BY CountsInRange, <2>0 DEF UartTypeOK
    <2>3. ucsra' \subseteq Flag
      BY <2>0, Others DEF UartTypeOK, Call, Flag
    <2>4. op' \in [Actor -> Call]
      <3>1. \A x \in Actor : op[x] \in Call
        BY <2>0 DEF UartTypeOK
      <3> QED
        BY <2>0, <3>1, Others DEF UartTypeOK, Call, Flag, Vector, Irq
    <2>5. hist' \in [seen : SUBSET Vector, since : SUBSET Irq,
                     full : BOOLEAN, raced : BOOLEAN]
      BY <2>0 DEF UartTypeOK, Touch, Busy, Vector, Irq
    <2> QED
      BY <2>1, <2>2, <2>3, <2>4, <2>5 DEF UartTypeOK
  <1>2. OverlapIsRace'
    BY CountsInRange, Others DEF UartInv, UartTypeOK, OverlapIsRace, Call,
         Touch, MayStart, Busy
  <1>3. AsksWhenCalm'
    BY CountsInRange, Others DEF UartInv, UartTypeOK, OverlapIsRace,
         AsksWhenCalm, Asks, BothIn, Call, Touch, MayStart, Busy
  <1>4. TrueInOneThread'
    BY CountsInRange, Others DEF UartInv, UartTypeOK, OverlapIsRace,
         TrueInOneThread, LocalsAreTrue, PolledFlagsHold, Call, Touch,
         MayStart, Busy, Vector, Irq
  <1> QED
    BY <1>1, <1>2, <1>3, <1>4 DEF UartInv

\* udr_write with the transmitter on.
LEMMA WriteUdrOnKeeps ==
    ASSUME UartInv,
           "TXEN" \in ucsrb,
           tx' = IF TxRoom THEN tx + 1 ELSE tx,
           Refresh("fw", "txc", FALSE, hist.seen \ {"UDRE"}),
           MayStart("fw"),
           UNCHANGED <<cores, rx, ucsra, ucsrb, pending>>
    PROVE  UartInv'
  <1>1. UartTypeOK'
    <2>0. UartTypeOK
      BY DEF UartInv
    <2>1. /\ cores' \in Cores /\ ucsrb' \in Controls \cup {{}}
          /\ pending' \subseteq Irq
      BY <2>0 DEF UartTypeOK, Refresh
    <2>2. tx' \in 0..Cap /\ rx' \in 0..Cap
      BY CountsInRange, <2>0 DEF UartTypeOK, TxRoom
    <2>3. ucsra' \subseteq Flag
      BY <2>0, Others DEF UartTypeOK, Call, Flag
    <2>4. op' \in [Actor -> Call]
      <3>1. \A x \in Actor : op[x] \in Call
        BY <2>0 DEF UartTypeOK
      <3> QED
        BY <2>0, <3>1, Others DEF UartTypeOK, Call, Flag, Vector, Irq, Idle, Refresh
    <2>5. hist' \in [seen : SUBSET Vector, since : SUBSET Irq,
                     full : BOOLEAN, raced : BOOLEAN]
      BY <2>0 DEF UartTypeOK, Refresh, Busy, TxRoom, Vector, Irq
    <2> QED
      BY <2>1, <2>2, <2>3, <2>4, <2>5 DEF UartTypeOK
  <1>2. OverlapIsRace'
    BY CountsInRange, Others DEF UartInv, UartTypeOK, OverlapIsRace, Call,
         Idle, Refresh, MayStart, Busy
  <1>3. AsksWhenCalm'
    BY CountsInRange, Others DEF UartInv, UartTypeOK, OverlapIsRace,
         AsksWhenCalm, Asks, BothIn, Call, Idle, Refresh, MayStart, Busy,
         TxRoom
  <1>4. TrueInOneThread'
    BY CountsInRange, Others DEF UartInv, UartTypeOK, OverlapIsRace,
         TrueInOneThread, LocalsAreTrue, PolledFlagsHold, Call, Idle, Refresh,
         MayStart, Busy, TxRoom, Vector, Irq
  <1> QED
    BY <1>1, <1>2, <1>3, <1>4 DEF UartInv

\* udr_write with the transmitter off.
LEMMA WriteUdrOffKeeps ==
    ASSUME UartInv,
           Touch("fw", hist.seen \ {"UDRE"}),
           MayStart("fw"),
           UNCHANGED <<cores, tx, rx, ucsra, ucsrb, pending, op>>
    PROVE  UartInv'
  <1>1. UartTypeOK'
    <2>0. UartTypeOK
      BY DEF UartInv
    <2>1. /\ cores' \in Cores /\ ucsrb' \in Controls \cup {{}}
          /\ pending' \subseteq Irq
      BY <2>0 DEF UartTypeOK, Touch
    <2>2. tx' \in 0..Cap /\ rx' \in 0..Cap
      BY CountsInRange, <2>0 DEF UartTypeOK
    <2>3. ucsra' \subseteq Flag
      BY <2>0, Others DEF UartTypeOK, Call, Flag
    <2>4. op' \in [Actor -> Call]
      <3>1. \A x \in Actor : op[x] \in Call
        BY <2>0 DEF UartTypeOK
      <3> QED
        BY <2>0, <3>1, Others DEF UartTypeOK, Call, Flag, Vector, Irq
    <2>5. hist' \in [seen : SUBSET Vector, since : SUBSET Irq,
                     full : BOOLEAN, raced : BOOLEAN]
      BY <2>0 DEF UartTypeOK, Touch, Busy, Vector, Irq
    <2> QED
      BY <2>1, <2>2, <2>3, <2>4, <2>5 DEF UartTypeOK
  <1>2. OverlapIsRace'
    BY CountsInRange, Others DEF UartInv, UartTypeOK, OverlapIsRace, Call,
         Touch, MayStart, Busy
  <1>3. AsksWhenCalm'
    BY CountsInRange, Others DEF UartInv, UartTypeOK, OverlapIsRace,
         AsksWhenCalm, Asks, BothIn, Call, Touch, MayStart, Busy
  <1>4. TrueInOneThread'
    BY CountsInRange, Others DEF UartInv, UartTypeOK, OverlapIsRace,
         TrueInOneThread, LocalsAreTrue, PolledFlagsHold, Call, Touch,
         MayStart, Busy, Vector, Irq
  <1> QED
    BY <1>1, <1>2, <1>3, <1>4 DEF UartInv

LEMMA LoadTxcKeeps ==
    ASSUME UartInv,
           LoadTxc
    PROVE  UartInv'
  <1>1. UartTypeOK'
    <2>0. UartTypeOK
      BY DEF UartInv
    <2>1. /\ cores' \in Cores /\ ucsrb' \in Controls \cup {{}}
          /\ pending' \subseteq Irq
      BY <2>0 DEF UartTypeOK, LoadTxc
    <2>2. tx' \in 0..Cap /\ rx' \in 0..Cap
      BY CountsInRange, <2>0 DEF UartTypeOK, LoadTxc
    <2>3. ucsra' \subseteq Flag
      BY <2>0, Others DEF UartTypeOK, LoadTxc, Call, Flag, At
    <2>4. op' \in [Actor -> Call]
      <3>1. \A x \in Actor : op[x] \in Call
        BY <2>0 DEF UartTypeOK
      <3> QED
        BY <2>0, <3>1, Others DEF UartTypeOK, LoadTxc, Call, Flag, Vector, Irq, At
    <2>5. hist' \in [seen : SUBSET Vector, since : SUBSET Irq,
                     full : BOOLEAN, raced : BOOLEAN]
      BY <2>0 DEF UartTypeOK, LoadTxc, Vector, Irq
    <2> QED
      BY <2>1, <2>2, <2>3, <2>4, <2>5 DEF UartTypeOK
  <1>2. OverlapIsRace'
    BY CountsInRange, Others DEF UartInv, UartTypeOK, OverlapIsRace, LoadTxc,
         Call, At, Busy
  <1>3. AsksWhenCalm'
    BY CountsInRange, Others DEF UartInv, UartTypeOK, OverlapIsRace,
         AsksWhenCalm, Asks, BothIn, LoadTxc, Call, At, Busy
  <1>4. TrueInOneThread'
    BY CountsInRange, Others DEF UartInv, UartTypeOK, OverlapIsRace,
         TrueInOneThread, LocalsAreTrue, PolledFlagsHold, LoadTxc, Call, At,
         Busy, Vector, Irq
  <1> QED
    BY <1>1, <1>2, <1>3, <1>4 DEF UartInv

LEMMA StoreTxcKeeps ==
    ASSUME UartInv,
           StoreTxc
    PROVE  UartInv'
  <1>1. UartTypeOK'
    <2>0. UartTypeOK
      BY DEF UartInv
    <2>1. /\ cores' \in Cores /\ ucsrb' \in Controls \cup {{}}
          /\ pending' \subseteq Irq
      BY <2>0 DEF UartTypeOK, StoreTxc
    <2>2. tx' \in 0..Cap /\ rx' \in 0..Cap
      BY CountsInRange, <2>0 DEF UartTypeOK, StoreTxc
    <2>3. ucsra' \subseteq Flag
      BY <2>0, Others DEF UartTypeOK, StoreTxc, Call, Flag, At
    <2>4. op' \in [Actor -> Call]
      <3>1. \A x \in Actor : op[x] \in Call
        BY <2>0 DEF UartTypeOK
      <3> QED
        BY <2>0, <3>1, Others DEF UartTypeOK, StoreTxc, Call, Flag, Vector, Irq, At
    <2>5. hist' \in [seen : SUBSET Vector, since : SUBSET Irq,
                     full : BOOLEAN, raced : BOOLEAN]
      BY <2>0 DEF UartTypeOK, StoreTxc, Vector, Irq
    <2> QED
      BY <2>1, <2>2, <2>3, <2>4, <2>5 DEF UartTypeOK
  <1>2. OverlapIsRace'
    BY CountsInRange, Others DEF UartInv, UartTypeOK, OverlapIsRace, StoreTxc,
         Call, At, Busy
  <1>3. AsksWhenCalm'
    BY CountsInRange, Others DEF UartInv, UartTypeOK, OverlapIsRace,
         AsksWhenCalm, Asks, BothIn, StoreTxc, Call, At, Busy
  <1>4. TrueInOneThread'
    BY CountsInRange, Others DEF UartInv, UartTypeOK, OverlapIsRace,
         TrueInOneThread, LocalsAreTrue, PolledFlagsHold, StoreTxc, Call, At,
         Busy, Vector, Irq
  <1> QED
    BY <1>1, <1>2, <1>3, <1>4 DEF UartInv

LEMMA ReadUcsraKeeps ==
    ASSUME UartInv,
           ReadUcsra
    PROVE  UartInv'
  <1>1. UartTypeOK'
    BY CountsInRange, Others, ControlsAssumption DEF UartInv, UartTypeOK,
         ReadUcsra, Call, Flag, Vector, Irq, Idle, Refresh, MayStart, Busy
  <1>2. OverlapIsRace'
    BY CountsInRange, Others DEF UartInv, UartTypeOK, OverlapIsRace,
         ReadUcsra, Call, Idle, Refresh, MayStart, Busy
  <1>3. AsksWhenCalm'
    BY CountsInRange, Others DEF UartInv, UartTypeOK, OverlapIsRace,
         AsksWhenCalm, Asks, BothIn, ReadUcsra, Call, Idle, Refresh, MayStart,
         Busy
  <1>4. TrueInOneThread'
    BY CountsInRange, Others DEF UartInv, UartTypeOK, OverlapIsRace,
         TrueInOneThread, LocalsAreTrue, PolledFlagsHold, ReadUcsra, Call,
         Idle, Refresh, MayStart, Busy, Vector, Irq
  <1> QED
    BY <1>1, <1>2, <1>3, <1>4 DEF UartInv

LEMMA WriteUcsraKeeps ==
    ASSUME UartInv,
           WriteUcsra
    PROVE  UartInv'
  <1>1. UartTypeOK'
    BY CountsInRange, Others, ControlsAssumption DEF UartInv, UartTypeOK,
         WriteUcsra, Call, Flag, Vector, Irq, Touch, MayStart, Busy
  <1>2. OverlapIsRace'
    BY CountsInRange, Others DEF UartInv, UartTypeOK, OverlapIsRace,
         WriteUcsra, Call, Touch, MayStart, Busy
  <1>3. AsksWhenCalm'
    BY CountsInRange, Others DEF UartInv, UartTypeOK, OverlapIsRace,
         AsksWhenCalm, Asks, BothIn, WriteUcsra, Call, Touch, MayStart, Busy
  <1>4. TrueInOneThread'
    BY CountsInRange, Others DEF UartInv, UartTypeOK, OverlapIsRace,
         TrueInOneThread, LocalsAreTrue, PolledFlagsHold, WriteUcsra, Call,
         Touch, MayStart, Busy, Vector, Irq
  <1> QED
    BY <1>1, <1>2, <1>3, <1>4 DEF UartInv

LEMMA WriteUcsrbKeeps ==
    ASSUME UartInv,
           WriteUcsrb
    PROVE  UartInv'
  <1>1. UartTypeOK'
    BY CountsInRange, Others, ControlsAssumption DEF UartInv, UartTypeOK,
         WriteUcsrb, Call, Flag, Vector, Irq, Idle, Refresh, MayStart, Busy
  <1>2. OverlapIsRace'
    BY CountsInRange, Others DEF UartInv, UartTypeOK, OverlapIsRace,
         WriteUcsrb, Call, Idle, Refresh, MayStart, Busy
  <1>3. AsksWhenCalm'
    BY CountsInRange, Others DEF UartInv, UartTypeOK, OverlapIsRace,
         AsksWhenCalm, Asks, BothIn, WriteUcsrb, Call, Idle, Refresh,
         MayStart, Busy
  <1>4. TrueInOneThread'
    BY CountsInRange, Others DEF UartInv, UartTypeOK, OverlapIsRace,
         TrueInOneThread, LocalsAreTrue, PolledFlagsHold, WriteUcsrb, Call,
         Idle, Refresh, MayStart, Busy, Vector, Irq
  <1> QED
    BY <1>1, <1>2, <1>3, <1>4 DEF UartInv

\* Another peripheral's request leaves the UART's bits alone.
LEMMA OtherAsksKeeps ==
    ASSUME UartInv,
           OtherAsks
    PROVE  UartInv'
  <1>1. UartTypeOK'
    <2>0. UartTypeOK
      BY DEF UartInv
    <2>1. /\ cores' \in Cores /\ ucsrb' \in Controls \cup {{}}
          /\ pending' \subseteq Irq
      BY <2>0 DEF UartTypeOK, OtherAsks, Touch
    <2>2. tx' \in 0..Cap /\ rx' \in 0..Cap
      BY CountsInRange, <2>0 DEF UartTypeOK, OtherAsks
    <2>3. ucsra' \subseteq Flag
      BY <2>0, Others DEF UartTypeOK, OtherAsks, Call, Flag
    <2>4. op' \in [Actor -> Call]
      <3>1. \A x \in Actor : op[x] \in Call
        BY <2>0 DEF UartTypeOK
      <3> QED
        BY <2>0, <3>1, Others DEF UartTypeOK, OtherAsks, Call, Flag, Vector, Irq, Idle, Busy,
             MayStart
    <2>5. hist' \in [seen : SUBSET Vector, since : SUBSET Irq,
                     full : BOOLEAN, raced : BOOLEAN]
      BY <2>0 DEF UartTypeOK, OtherAsks, Touch, Busy, Vector, Irq
    <2> QED
      BY <2>1, <2>2, <2>3, <2>4, <2>5 DEF UartTypeOK
  <1>2. OverlapIsRace'
    BY CountsInRange, Others DEF UartInv, UartTypeOK, OverlapIsRace, OtherAsks,
         Idle, Call, Touch, MayStart, Busy
  <1>3. AsksWhenCalm'
    BY CountsInRange, Others DEF UartInv, UartTypeOK, OverlapIsRace,
         AsksWhenCalm, Asks, BothIn, OtherAsks, Idle, Call, Touch, MayStart, Busy
  <1>4. TrueInOneThread'
    BY CountsInRange, Others DEF UartInv, UartTypeOK, OverlapIsRace,
         TrueInOneThread, LocalsAreTrue, PolledFlagsHold, OtherAsks, Idle,
         Call, Touch, MayStart, Busy, Vector, Irq
  <1> QED
    BY <1>1, <1>2, <1>3, <1>4 DEF UartInv

\* check_irq: what it cleared is remembered in since.
LEMMA TakeIrqKeeps ==
    ASSUME UartInv,
           TakeIrq
    PROVE  UartInv'
  <1>1. UartTypeOK'
    <2>0. UartTypeOK
      BY DEF UartInv
    <2>1. /\ cores' \in Cores /\ ucsrb' \in Controls \cup {{}}
          /\ pending' \subseteq Irq
      BY <2>0 DEF UartTypeOK, TakeIrq, Touch
    <2>2. tx' \in 0..Cap /\ rx' \in 0..Cap
      BY CountsInRange, <2>0 DEF UartTypeOK, TakeIrq
    <2>3. ucsra' \subseteq Flag
      BY <2>0, Others DEF UartTypeOK, TakeIrq, Call, Flag
    <2>4. op' \in [Actor -> Call]
      <3>1. \A x \in Actor : op[x] \in Call
        BY <2>0 DEF UartTypeOK
      <3> QED
        BY <2>0, <3>1, Others DEF UartTypeOK, TakeIrq, Call, Flag, Vector, Irq
    <2>5. hist' \in [seen : SUBSET Vector, since : SUBSET Irq,
                     full : BOOLEAN, raced : BOOLEAN]
      BY <2>0 DEF UartTypeOK, TakeIrq, Touch, Busy, Vector, Irq
    <2> QED
      BY <2>1, <2>2, <2>3, <2>4, <2>5 DEF UartTypeOK
  <1>2. OverlapIsRace'
    BY CountsInRange, Others DEF UartInv, UartTypeOK, OverlapIsRace, TakeIrq,
         Call, Touch, MayStart, Busy
  <1>3. AsksWhenCalm'
    BY CountsInRange, Others DEF UartInv, UartTypeOK, OverlapIsRace,
         AsksWhenCalm, Asks, BothIn, TakeIrq, Call, Touch, MayStart, Busy
  <1>4. TrueInOneThread'
    BY CountsInRange, Others DEF UartInv, UartTypeOK, OverlapIsRace,
         TrueInOneThread, LocalsAreTrue, PolledFlagsHold, TakeIrq, Call,
         Touch, MayStart, Busy, Vector, Irq
  <1> QED
    BY <1>1, <1>2, <1>3, <1>4 DEF UartInv

LEMMA ClearIrqKeeps ==
    ASSUME UartInv,
           ClearIrq
    PROVE  UartInv'
  <1>1. UartTypeOK'
    BY CountsInRange, Others, ControlsAssumption DEF UartInv, UartTypeOK,
         ClearIrq, MostUrgent, Call, Flag, Vector, Irq, Idle, At
  <1>2. OverlapIsRace'
    BY CountsInRange, Others DEF UartInv, UartTypeOK, OverlapIsRace, ClearIrq,
         Call, Idle, At, Busy
  <1>3. AsksWhenCalm'
    BY CountsInRange, Others DEF UartInv, UartTypeOK, OverlapIsRace,
         AsksWhenCalm, Asks, BothIn, ClearIrq, MostUrgent, Call, Idle, At, Busy
  <1>4. TrueInOneThread'
    BY CountsInRange, Others DEF UartInv, UartTypeOK, OverlapIsRace,
         TrueInOneThread, LocalsAreTrue, PolledFlagsHold, ClearIrq, Call,
         Idle, At, Busy, Vector, Irq
  <1> QED
    BY <1>1, <1>2, <1>3, <1>4 DEF UartInv

LEMMA ResetKeeps ==
    ASSUME UartInv,
           Reset
    PROVE  UartInv'
  <1>1. UartTypeOK'
    BY CountsInRange, Others, ControlsAssumption DEF UartInv, UartTypeOK,
         Reset, Call, Flag, Vector, Irq, Busy
  <1>2. OverlapIsRace'
    BY CountsInRange, Others DEF UartInv, UartTypeOK, OverlapIsRace, Reset,
         Call, Busy
  <1>3. AsksWhenCalm'
    BY CountsInRange, Others DEF UartInv, UartTypeOK, OverlapIsRace,
         AsksWhenCalm, Asks, BothIn, Reset, Call, Busy
  <1>4. TrueInOneThread'
    BY CountsInRange, Others DEF UartInv, UartTypeOK, OverlapIsRace,
         TrueInOneThread, LocalsAreTrue, PolledFlagsHold, Reset, Call, Busy,
         Vector, Irq
  <1> QED
    BY <1>1, <1>2, <1>3, <1>4 DEF UartInv

LEMMA RxPushKeeps ==
    ASSUME UartInv,
           RxPush
    PROVE  UartInv'
  <1>1. UartTypeOK'
    <2>0. UartTypeOK
      BY DEF UartInv
    <2>1. /\ cores' \in Cores /\ ucsrb' \in Controls \cup {{}}
          /\ pending' \subseteq Irq
      BY <2>0 DEF UartTypeOK, RxPush, Refresh
    <2>2. tx' \in 0..Cap /\ rx' \in 0..Cap
      BY CountsInRange, <2>0 DEF UartTypeOK, RxPush
    <2>3. ucsra' \subseteq Flag
      BY <2>0, Others DEF UartTypeOK, RxPush, Call, Flag
    <2>4. op' \in [Actor -> Call]
      <3>1. \A x \in Actor : op[x] \in Call
        BY <2>0 DEF UartTypeOK
      <3> QED
        BY <2>0, <3>1, Others DEF UartTypeOK, RxPush, Call, Flag, Vector, Irq,
             Idle, Refresh
    <2>5. hist' \in [seen : SUBSET Vector, since : SUBSET Irq,
                     full : BOOLEAN, raced : BOOLEAN]
      BY <2>0 DEF UartTypeOK, RxPush, Refresh, Busy, Vector, Irq
    <2> QED
      BY <2>1, <2>2, <2>3, <2>4, <2>5 DEF UartTypeOK
  <1>2. OverlapIsRace'
    BY CountsInRange, Others DEF UartInv, UartTypeOK, OverlapIsRace, RxPush,
         Call, Idle, Refresh, MayStart, Busy
  <1>3. AsksWhenCalm'
    BY CountsInRange, Others DEF UartInv, UartTypeOK, OverlapIsRace,
         AsksWhenCalm, Asks, BothIn, RxPush, Call, Idle, Refresh, MayStart,
         Busy
  <1>4. TrueInOneThread'
    BY CountsInRange, Others DEF UartInv, UartTypeOK, OverlapIsRace,
         TrueInOneThread, LocalsAreTrue, PolledFlagsHold, RxPush, Call, Idle,
         Refresh, MayStart, Busy, Vector, Irq
  <1> QED
    BY <1>1, <1>2, <1>3, <1>4 DEF UartInv

\* tx_pop makes room without a refresh: hence full.
LEMMA TxPopKeeps ==
    ASSUME UartInv,
           TxPop
    PROVE  UartInv'
  <1>1. UartTypeOK'
    <2>0. UartTypeOK
      BY DEF UartInv
    <2>1. /\ cores' \in Cores /\ ucsrb' \in Controls \cup {{}}
          /\ pending' \subseteq Irq
      BY <2>0 DEF UartTypeOK, TxPop, Touch
    <2>2. tx' \in 0..Cap /\ rx' \in 0..Cap
      BY CountsInRange, <2>0 DEF UartTypeOK, TxPop
    <2>3. ucsra' \subseteq Flag
      BY <2>0, Others DEF UartTypeOK, TxPop, Call, Flag
    <2>4. op' \in [Actor -> Call]
      <3>1. \A x \in Actor : op[x] \in Call
        BY <2>0 DEF UartTypeOK
      <3> QED
        BY <2>0, <3>1, Others DEF UartTypeOK, TxPop, Call, Flag, Vector, Irq
    <2>5. hist' \in [seen : SUBSET Vector, since : SUBSET Irq,
                     full : BOOLEAN, raced : BOOLEAN]
      BY <2>0 DEF UartTypeOK, TxPop, Touch, Busy, Vector, Irq
    <2> QED
      BY <2>1, <2>2, <2>3, <2>4, <2>5 DEF UartTypeOK
  <1>2. OverlapIsRace'
    BY CountsInRange, Others DEF UartInv, UartTypeOK, OverlapIsRace, TxPop,
         Call, Touch, MayStart, Busy
  <1>3. AsksWhenCalm'
    BY CountsInRange, Others DEF UartInv, UartTypeOK, OverlapIsRace,
         AsksWhenCalm, Asks, BothIn, TxPop, Call, Touch, MayStart, Busy
  <1>4. TrueInOneThread'
    BY CountsInRange, Others DEF UartInv, UartTypeOK, OverlapIsRace,
         TrueInOneThread, LocalsAreTrue, PolledFlagsHold, TxPop, Call, Touch,
         MayStart, Busy, Vector, Irq
  <1> QED
    BY <1>1, <1>2, <1>3, <1>4 DEF UartInv

LEMMA UartInitially ==
    ASSUME UartInit
    PROVE  UartInv
  <1>1. UartTypeOK
    BY CoresAssumption, CapAssumption, ControlsAssumption DEF UartInit,
         UartTypeOK, Call, Idle, Vector, Irq, Flag
  <1>2. \A a \in Actor : op[a] = Idle
    BY DEF UartInit
  <1>3. OverlapIsRace
    BY <1>2, Others DEF OverlapIsRace, Busy, Idle
  <1>4. AsksWhenCalm
    BY <1>2 DEF AsksWhenCalm, Asks, BothIn, Busy, Idle, UartInit
  <1>5. TrueInOneThread
    BY <1>2 DEF TrueInOneThread, LocalsAreTrue, PolledFlagsHold, Idle, UartInit
  <1> QED
    BY <1>1, <1>3, <1>4, <1>5 DEF UartInv

LEMMA UartStep ==
    ASSUME UartInv, [UartNext]_uartVars
    PROVE  UartInv'
  <1>1. ASSUME NEW a \in Actor, Update(a)
        PROVE  UartInv'
    BY <1>1, LoadTxKeeps, LoadRxKeeps, StoreStatusKeeps, LoadPendingKeeps,
         StorePendingKeeps, ReturnKeeps
       DEF Update
  <1>2. CASE ReadUdr
    BY <1>2, ReadUdrFullKeeps, ReadUdrEmptyKeeps DEF ReadUdr
  <1>3. CASE WriteUdr
    BY <1>3, WriteUdrOnKeeps, WriteUdrOffKeeps DEF WriteUdr
  <1>4. CASE \/ ReadUcsra \/ WriteUcsra \/ WriteUcsrb
             \/ LoadTxc \/ StoreTxc \/ OtherAsks \/ TakeIrq \/ ClearIrq \/ Reset
    BY <1>4, ReadUcsraKeeps, WriteUcsraKeeps, WriteUcsrbKeeps, LoadTxcKeeps,
         StoreTxcKeeps, OtherAsksKeeps, TakeIrqKeeps, ClearIrqKeeps,
         ResetKeeps
  <1>5. CASE RxPush \/ TxPop
    BY <1>5, RxPushKeeps, TxPopKeeps
  <1>6. CASE UNCHANGED uartVars
    BY <1>6 DEF uartVars, UartInv, UartTypeOK, OverlapIsRace, AsksWhenCalm,
         TrueInOneThread, Asks, BothIn, LocalsAreTrue, PolledFlagsHold, Busy
  <1> QED
    BY <1>1, <1>2, <1>3, <1>4, <1>5, <1>6 DEF UartNext, FirmwareAccess,
         HostAccess

LEMMA UartInvariant ==
    UartSpec => []UartInv
  BY UartInitially, UartStep, PTL DEF UartSpec

(***************************************************************************)
(* The registers, the rings' counts and every call in progress keep their  *)
(* types, for every ring size and every set of UCSRB values: in particular *)
(* no interleaving of udr_read and avr_uart_rx_push overruns a ring.       *)
(***************************************************************************)
THEOREM UartTypeCorrect ==
    UartSpec => []UartTypeOK
  <1>1. UartInv => UartTypeOK
    BY DEF UartInv
  <1> QED
    BY <1>1, UartInvariant, PTL

(***************************************************************************)
(* In one thread what ucsra_read told the firmware is still so when the    *)
(* firmware acts on it: udr_read finds a byte and udr_write a free slot.   *)
(***************************************************************************)
THEOREM PolledFlagsCorrect ==
    UartSpec => []PolledFlagsHold
  <1>1. UartInv => PolledFlagsHold
    BY DEF UartInv, TrueInOneThread, PolledFlagsHold
  <1> QED
    BY <1>1, UartInvariant, PTL

(***************************************************************************)
(* uart_update_status asks for the receive interrupt whenever a byte waits *)
(* and RXCIE is set, but for an overlap of the two cores in irq_pending,   *)
(* whichever peripheral's bit core 1 was changing.                         *)
(***************************************************************************)
THEOREM ReceiveAskedCorrect ==
    UartSpec => []ReceiveAsked
  <1>1. UartInv => ReceiveAsked
    BY Others
       DEF UartInv, AsksWhenCalm, Asks, BothIn, ReceiveAsked, Settled, Asked, Busy
  <1> QED
    BY <1>1, UartInvariant, PTL

(***************************************************************************)
(* The same of the transmit interrupt, but for a ring that was full when   *)
(* the flags were last refreshed: avr_uart_tx_pop refreshes nothing.       *)
(***************************************************************************)
THEOREM TransmitAskedCorrect ==
    UartSpec => []TransmitAsked
  <1>1. UartInv => TransmitAsked
    BY Others
       DEF UartInv, AsksWhenCalm, Asks, BothIn, TransmitAsked, Settled, Asked, Busy
  <1> QED
    BY <1>1, UartInvariant, PTL
=============================================================================
