------------------------------- MODULE Bridge -------------------------------
(***************************************************************************)
(* The I/O bridge of the ESP32: the table of entries (io_bridge.c), the    *)
(* table of the host handles opened for them (esp_io_bridge.c), the web    *)
(* server's requests that change them (bridge_post_handler), the polling   *)
(* loop of app_main that opens handles and moves data, and the copy of the *)
(* table in NVS (main.c).  The web server is a task of its own: its steps  *)
(* fall between any two of the polling loop's.                             *)
(*                                                                         *)
(* An entry and a handle are told apart by the host resource they stand    *)
(* for: two entries for one pin are alike.  Indices start at 1.            *)
(***************************************************************************)
EXTENDS Integers, FiniteSets

CONSTANTS MaxEntries,   \* IO_BRIDGE_MAX_ENTRIES
          Pins,         \* GPIO pins, which any number of handles can share
          Ports,        \* UART and I2C ports and the ADC, whose driver is installed once
          Unknown,      \* host types that open_entry does not know
          Blank,        \* what an entry of zeros stands for: GPIO 0
          Defaults,     \* the entries of a board without saved ones
          MaxSaved,     \* bound on the entries of a table that is saved
          None          \* NULL

Host == Pins \cup Ports \cup Unknown
Slots == 1..MaxEntries
Maybe == Host \cup {None}

\* num_entries, and the array with what is left in its tail.
Table == [num : 0..MaxEntries, at : [Slots -> Host]]

ASSUME BridgeAssumption ==
    /\ MaxEntries \in Nat \ {0}
    /\ Pins \cap Ports = {} /\ None \notin Host /\ Blank \in Pins
    /\ Defaults \in Table /\ MaxSaved \in 0..MaxEntries

VARIABLES bridge,      \* the io_bridge_t
          handles,     \* s_handles: the resource each slot's handle has opened
          installed,   \* ports whose driver is installed
          nvs,         \* the saved table
          poll,        \* esp_bridge_poll: its i and the handle in its hands
          web,         \* the request being served
          tangled      \* history: the two tables have been moved apart
vars == <<bridge, handles, installed, nvs, poll, web, tangled>>

\* "start": esp_bridge_init; then esp_bridge_poll - "find": about to look at slot
\* i; "store": has tried to open a handle for it; "use": about to move data.
Poll == [pc : {"start", "find", "store", "use"}, i : 1..MaxEntries + 1, h : Maybe]

\* An entry is copied to its slot and counted in an order C leaves open.  A
\* deletion closes a handle, shifts the handles, and removes the entry.
Web == [pc : {"idle", "copy", "count", "shift", "remove"}, index : Slots, entry : Maybe]
Served == [pc |-> "idle", index |-> 1, entry |-> None]
-----------------------------------------------------------------------------
(***************************************************************************)
(* Tables and handles.                                                     *)
(***************************************************************************)
\* Mutant of Removed: the last entry is moved away from where its handle is.
RemovedSwap(b, s) == [num |-> b.num - 1, at |-> [b.at EXCEPT ![s] = b.at[b.num]]]

\* io_bridge_remove shifts the entries; the last one stays in the tail.
Removed(b, s) ==
    [num |-> b.num - 1,
     at  |-> [t \in Slots |-> IF t \in s..b.num - 1 THEN b.at[t + 1] ELSE b.at[t]]]

\* esp_bridge_close_entry shifts all handles and clears the last slot.
Shifted(hs, s) ==
    [t \in Slots |-> CASE t < s -> hs[t]
                       [] t \in s..MaxEntries - 1 -> hs[t + 1]
                       [] t >= s /\ t = MaxEntries -> None]

\* open_entry gives a handle or NULL: NULL for a host type it does not know and
\* for a port that has its driver already, and for any other entry when the heap
\* or the driver refuses.
Openings(e) == {None} \cup ({e} \ (Unknown \cup installed))
-----------------------------------------------------------------------------
(***************************************************************************)
(* esp_bridge_poll, round and round.                                       *)
(***************************************************************************)
\* Slot i, until they have all been seen.
Find ==
    /\ poll.pc = "find" /\ poll.i <= bridge.num /\ handles[poll.i] # None
    /\ poll' = [poll EXCEPT !.pc = "use", !.h = handles[poll.i]]
    /\ UNCHANGED <<bridge, handles, installed, nvs, web, tangled>>

\* The second table is found out of step with the first, which a request is
\* changing.
Interrupted ==
    \/ web.pc \in {"shift", "remove"} /\ poll.i >= web.index
    \/ web.pc = "copy" /\ poll.i = web.index

\* Mutant of Open: only start-up opens entries.
OpenSkips ==
    /\ poll.pc = "find" /\ poll.i <= bridge.num /\ handles[poll.i] = None
    /\ poll' = [poll EXCEPT !.i = @ + 1]
    /\ UNCHANGED <<bridge, handles, installed, nvs, web, tangled>>

\* A slot without a handle is opened; the slot is written when the driver is up,
\* or with NULL when it is not.
Open ==
    /\ poll.pc = "find" /\ poll.i <= bridge.num /\ handles[poll.i] = None
    /\ \E h \in Openings(bridge.at[poll.i]) :
           /\ poll' = [poll EXCEPT !.pc = "store", !.h = h]
           /\ installed' = installed \cup ({h} \cap Ports)
    /\ tangled' = (tangled \/ Interrupted)
    /\ UNCHANGED <<bridge, handles, nvs, web>>

Store ==
    /\ poll.pc = "store"
    /\ handles' = [handles EXCEPT ![poll.i] = poll.h]
    /\ poll' = [poll EXCEPT !.pc = "use"]
    /\ UNCHANGED <<bridge, installed, nvs, web, tangled>>

\* Data moves between the peripheral of the entry and the handle.
Use ==
    /\ poll.pc = "use"
    /\ poll' = [pc |-> "find", i |-> poll.i + 1, h |-> None]
    /\ UNCHANGED <<bridge, handles, installed, nvs, web, tangled>>

\* The pass is over; app_main starts the next one.
Again ==
    /\ poll.pc = "find" /\ poll.i > bridge.num /\ poll.i > 1
    /\ poll' = [poll EXCEPT !.i = 1]
    /\ UNCHANGED <<bridge, handles, installed, nvs, web, tangled>>
-----------------------------------------------------------------------------
(***************************************************************************)
(* bridge_post_handler.                                                    *)
(***************************************************************************)
\* The web server runs once start-up is through, and serves one at a time.
Accepts == web.pc = "idle" /\ poll.pc # "start"

\* io_bridge_add, whose two halves come in either order.
Add(e) ==
    /\ Accepts /\ bridge.num < MaxEntries
    /\ LET s == bridge.num + 1
       IN  \/ /\ bridge' = [bridge EXCEPT !.num = s]
              /\ web' = [pc |-> "copy", index |-> s, entry |-> e]
           \/ /\ bridge' = [bridge EXCEPT !.at[s] = e]
              /\ web' = [pc |-> "count", index |-> s, entry |-> e]
    /\ UNCHANGED <<handles, installed, nvs, poll, tangled>>

Added ==
    /\ web.pc \in {"copy", "count"} /\ web' = Served
    /\ bridge' = [num |-> web.index, at |-> [bridge.at EXCEPT ![web.index] = web.entry]]
    /\ UNCHANGED <<handles, installed, nvs, poll, tangled>>

\* Deleting entry s moves the tables apart if the handles stay although some belong
\* to later entries, or if an open is under way for s or an entry after it.
Misplaces(s) ==
    /\ s <= bridge.num
    /\ \/ handles[s] = None /\ \E t \in s + 1..MaxEntries : handles[t] # None
       \/ poll.pc = "store" /\ poll.i >= s

Deleting(s) ==
    [pc |-> IF handles[s] # None THEN "shift" ELSE "remove", index |-> s, entry |-> None]

\* Mutant of Delete: the driver of the closed handle stays installed.
DeleteOpen(s) ==
    /\ Accepts /\ web' = Deleting(s)
    /\ tangled' = (tangled \/ Misplaces(s))
    /\ UNCHANGED <<bridge, handles, installed, nvs, poll>>

\* The handle is closed, and freed, while it is still in the table; an index beyond
\* the last entry closes one all the same if there is one.
Delete(s) ==
    /\ Accepts /\ web' = Deleting(s)
    /\ installed' = installed \ {handles[s]}
    /\ tangled' = (tangled \/ Misplaces(s))
    /\ UNCHANGED <<bridge, handles, nvs, poll>>

Shift ==
    /\ web.pc = "shift" /\ web' = [web EXCEPT !.pc = "remove"]
    /\ handles' = Shifted(handles, web.index)
    /\ UNCHANGED <<bridge, installed, nvs, poll, tangled>>

Remove ==
    /\ web.pc = "remove" /\ web' = Served
    /\ bridge' = IF web.index <= bridge.num THEN Removed(bridge, web.index) ELSE bridge
    /\ UNCHANGED <<handles, installed, nvs, poll, tangled>>

\* The entries alone are stored; a save that NVS refuses leaves the old ones.
Save ==
    /\ Accepts /\ bridge.num <= MaxSaved
    /\ nvs' = [bridge EXCEPT !.at = [s \in Slots |-> IF s <= bridge.num THEN @[s] ELSE Blank]]
    /\ UNCHANGED <<bridge, handles, installed, poll, web, tangled>>
-----------------------------------------------------------------------------
(***************************************************************************)
(* Start-up (app_main, esp_bridge_init): every entry is opened in turn     *)
(* before the web server and the polling loop run.                         *)
(***************************************************************************)
\* Whatever is refused on the way: a known entry has its handle or none, and no
\* port has two.
Outcomes(b) ==
    {hs \in [Slots -> Maybe] :
         /\ \A s \in Slots : hs[s] # None => s <= b.num /\ hs[s] = b.at[s] /\ hs[s] \notin Unknown
         /\ \A s, t \in Slots : hs[s] = hs[t] /\ hs[s] \in Ports => s = t}

Starting == [pc |-> "start", i |-> 1, h |-> None]
NoHandles == [s \in Slots |-> None]

Init ==
    /\ bridge = Defaults /\ nvs = Defaults
    /\ handles = NoHandles /\ installed = {}
    /\ poll = Starting /\ web = Served /\ tangled = FALSE

Start ==
    /\ poll.pc = "start" /\ poll' = [poll EXCEPT !.pc = "find"]
    /\ handles' \in Outcomes(bridge)
    /\ installed' = {p \in Ports : \E s \in Slots : handles'[s] = p}
    /\ UNCHANGED <<bridge, nvs, web, tangled>>

\* A reset or a power failure, at any time.
Reboot ==
    /\ bridge' = nvs
    /\ handles' = NoHandles /\ installed' = {}
    /\ poll' = Starting /\ web' = Served /\ tangled' = FALSE
    /\ UNCHANGED nvs

PollStep == Start \/ Find \/ Open \/ Store \/ Use \/ Again
Request == (\E e \in Host : Add(e)) \/ Save \/ \E s \in Slots : Delete(s)
Serve == Added \/ Shift \/ Remove
Next == PollStep \/ Request \/ Serve \/ Reboot

Spec == Init /\ [][Next]_vars

\* The main task is scheduled again and again.
FairSpec == Spec /\ WF_vars(PollStep)
-----------------------------------------------------------------------------
TypeOK ==
    /\ bridge \in Table /\ handles \in [Slots -> Maybe] /\ installed \subseteq Ports
    /\ nvs \in Table /\ poll \in Poll /\ web \in Web /\ tangled \in BOOLEAN

\* Between requests each handle stands in the slot of the entry it was opened for
\* and none stands behind the last entry (esp_io_bridge.c:362).  Three things break
\* it until the next restart, and `tangled` records them: deleting an entry that has
\* no handle before one that has, a deletion that overlaps the opening of a handle
\* in its slot or a later one, and an addition that overlaps the opening in its own.
\* What the polling loop does with a handle that is closed while it is in use is no
\* part of this.
HandlesMatch ==
    ~tangled /\ web.pc = "idle" =>
        \A s \in Slots : handles[s] \in {None} \cup (IF s <= bridge.num THEN {bridge.at[s]} ELSE {})

\* A handle that has been closed and is still in its slot.
Closing(s) == web.pc = "shift" /\ s = web.index

\* Who has the driver of p: slots, and the polling loop (0) before it has stored it.
Holders(p) ==
    {s \in Slots : handles[s] = p /\ ~Closing(s)}
        \cup (IF poll.pc = "store" /\ poll.h = p THEN {0} ELSE {})

\* However the tables have been moved, no two handles hold a port and none holds one
\* whose driver is gone: no driver is deleted twice (close_handle,
\* esp_io_bridge.c:280).  Until one of the three events above every installed driver
\* also has its holder; after one, a port may be lost until the next restart.
DriversOwned ==
    \A p \in Ports :
        /\ Cardinality(Holders(p)) <= IF p \in installed THEN 1 ELSE 0
        /\ ~tangled /\ p \in installed => Holders(p) # {}

\* An entry without a handle is tried again, by the polling loop or by a restart, if
\* it is not deleted first, whatever requests do to the tables meanwhile: what
\* failed or was taken is never given up (esp_io_bridge.c:376).
EntriesAreTried ==
    \A s \in Slots :
        s <= bridge.num /\ handles[s] = None ~>
            \/ poll.pc = "start" \/ (poll.pc = "store" /\ poll.i = s)
            \/ handles[s] # None \/ s > bridge.num
=============================================================================
