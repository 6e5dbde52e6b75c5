------------------------------- MODULE AvrUart -------------------------------
(***************************************************************************)
(* The status flags and interrupts of the AVR's UART: the firmware's       *)
(* accesses to UDR, UCSRA and UCSRB, and the host that pushes received     *)
(* bytes and pops sent ones.  In the PC build both run in one thread; on   *)
(* the ESP32 emu_task and esp_bridge_poll run on two cores, and the status *)
(* register and irq_pending are read, changed and written back by both     *)
(* without a lock: each load and each store is a step of its own there.    *)
(*                                                                         *)
(* ByteRing models the rings themselves; here a ring is its count.  The    *)
(* firmware is arbitrary: any access, in any order, at any time.  Other    *)
(* peripherals share irq_pending: what they change in it is here, too.     *)
(* The specification's names are its own, so that one module can extend    *)
(* both.                                                                   *)
(***************************************************************************)
EXTENDS Naturals

CONSTANTS
    Cores,      \* subset of {1, 2}: which builds are considered
    Cap,        \* the bytes a ring holds, UART_BUF_SIZE - 1
    Controls    \* what the firmware writes to UCSRB

Flag == {"RXC", "UDRE", "TXC"}
Vector == {"RXC", "UDRE"}
Irq == Vector \cup {"OTHER"}      \* any of Timer0's or of the TWI's
Enable == {"RXCIE", "UDRIE", "RXEN", "TXEN"}
Actor == {"fw", "host"}

ASSUME CoresAssumption == Cores \subseteq {1, 2}
ASSUME CapAssumption == Cap \in Nat \ {0}
ASSUME ControlsAssumption == Controls \subseteq SUBSET Enable

VARIABLES
    cores,      \* how many cores this build runs on
    tx, rx,     \* the bytes in the two rings
    ucsra,      \* the flags in data memory; the handlers refresh them
    ucsrb,
    pending,    \* irq_pending
    op,         \* for the firmware and the host: the call in progress with
                \* its local copies of the status and of irq_pending
    hist        \* history: seen, the flags the firmware has polled and not
                \* acted on; since, the interrupts taken since the flags were
                \* last refreshed; full, whether that refresh found the TX
                \* ring full; raced, whether an access overlapped another
                \* and none has refreshed the flags undisturbed since

uartVars == <<cores, tx, rx, ucsra, ucsrb, pending, op, hist>>

Idle == [at |-> "idle", polls |-> FALSE, status |-> {}, irq |-> {}, raise |-> {}]

UartInit ==
    /\ cores \in Cores
    /\ tx = 0 /\ rx = 0
    /\ ucsra = {} /\ ucsrb = {} /\ pending = {}
    /\ op = [a \in Actor |-> Idle]
    /\ hist = [seen |-> {}, since |-> {}, full |-> FALSE, raced |-> FALSE]

Busy(a) == op[a].at # "idle"
Other(a) == IF a = "fw" THEN "host" ELSE "fw"
MayStart(a) == ~Busy(a) /\ (Busy(Other(a)) => cores = 2)

\* An access that changes something without refreshing the flags.
Touch(a, seen) ==
    hist' = [hist EXCEPT !.seen = seen, !.raced = @ \/ Busy(Other(a))]

\* The call goes on to uart_update_status at the given step.
Refresh(a, at, polls, seen) ==
    /\ op' = [op EXCEPT ![a] = [Idle EXCEPT !.at = at, !.polls = polls]]
    /\ hist' = [hist EXCEPT !.seen = seen, !.since = {}, !.raced = Busy(Other(a))]
-----------------------------------------------------------------------------
(***************************************************************************)
(* uart_update_status, by either side.                                     *)
(***************************************************************************)
If(flag, b) == IF b THEN {flag} ELSE {}

TxRoom == tx < Cap

At(a, step) == op[a].at = step

LoadTx(a) ==
    /\ At(a, "tx")
    /\ op' = [op EXCEPT ![a].at = "rx",
                        ![a].status = (ucsra \ {"UDRE"}) \cup If("UDRE", TxRoom)]
    /\ hist' = [hist EXCEPT !.full = ~TxRoom]
    /\ UNCHANGED <<cores, tx, rx, ucsra, ucsrb, pending>>

\* Mutant of LoadRx: RXC is never cleared.
LoadRxSticky(a) ==
    /\ At(a, "rx")
    /\ op' = [op EXCEPT ![a].at = "store",
                        ![a].status = @ \cup If("RXC", rx > 0)]
    /\ UNCHANGED <<cores, tx, rx, ucsra, ucsrb, pending, hist>>

LoadRx(a) ==
    /\ At(a, "rx")
    /\ op' = [op EXCEPT ![a].at = "store",
                        ![a].status = (@ \ {"RXC"}) \cup If("RXC", rx > 0)]
    /\ UNCHANGED <<cores, tx, rx, ucsra, ucsrb, pending, hist>>

\* Mutant of Requests: only a flag that was clear asks for an interrupt.
RequestsEdge(status) ==
    If("UDRE", "UDRE" \in status \ ucsra /\ "UDRIE" \in ucsrb)
        \cup If("RXC", "RXC" \in status \ ucsra /\ "RXCIE" \in ucsrb)

Requests(status) ==
    If("UDRE", "UDRE" \in status /\ "UDRIE" \in ucsrb)
        \cup If("RXC", "RXC" \in status /\ "RXCIE" \in ucsrb)

StoreStatus(a) ==
    /\ At(a, "store")
    /\ ucsra' = op[a].status
    /\ op' = [op EXCEPT ![a].at = "load", ![a].status = {},
                        ![a].raise = Requests(op[a].status)]
    /\ UNCHANGED <<cores, tx, rx, ucsrb, pending, hist>>

LoadPending(a) ==
    /\ At(a, "load")
    /\ op[a].raise # {}
    /\ op' = [op EXCEPT ![a].at = "or", ![a].irq = pending]
    /\ UNCHANGED <<cores, tx, rx, ucsra, ucsrb, pending, hist>>

\* UDRE is asked for before RXC; another peripheral asks in a call of its own.
FirstOf(raise) ==
    IF "UDRE" \in raise THEN "UDRE" ELSE IF "RXC" \in raise THEN "RXC" ELSE "OTHER"

StorePending(a) ==
    /\ At(a, "or")
    /\ LET v == FirstOf(op[a].raise)
       IN  /\ pending' = op[a].irq \cup {v}
           /\ op' = [op EXCEPT ![a].at = "load", ![a].irq = {}, ![a].raise = @ \ {v}]
    /\ UNCHANGED <<cores, tx, rx, ucsra, ucsrb, hist>>

\* The call returns; ucsra_read with the register as it is by then.
Return(a) ==
    /\ At(a, "load")
    /\ op[a].raise = {}
    /\ op' = [op EXCEPT ![a] = Idle]
    /\ hist' = [hist EXCEPT !.seen = IF op[a].polls THEN ucsra \cap Vector ELSE @]
    /\ UNCHANGED <<cores, tx, rx, ucsra, ucsrb, pending>>

Update(a) ==
    \/ LoadTx(a) \/ LoadRx(a) \/ StoreStatus(a)
    \/ LoadPending(a) \/ StorePending(a) \/ Return(a)
-----------------------------------------------------------------------------
(***************************************************************************)
(* The firmware.                                                           *)
(***************************************************************************)
\* udr_read: an empty ring reads as 0 and refreshes nothing.
ReadUdr ==
    /\ MayStart("fw")
    /\ \/ /\ rx > 0
          /\ rx' = rx - 1
          /\ Refresh("fw", "tx", FALSE, hist.seen \ {"RXC"})
       \/ /\ rx = 0
          /\ Touch("fw", hist.seen \ {"RXC"})
          /\ UNCHANGED <<rx, op>>
    /\ UNCHANGED <<cores, tx, ucsra, ucsrb, pending>>

\* udr_write: with the transmitter on, a byte for the ring, or lost if that
\* is full, and TXC.
WriteUdr ==
    /\ MayStart("fw")
    /\ \/ /\ "TXEN" \in ucsrb
          /\ tx' = IF TxRoom THEN tx + 1 ELSE tx
          /\ Refresh("fw", "txc", FALSE, hist.seen \ {"UDRE"})
       \/ /\ "TXEN" \notin ucsrb
          /\ Touch("fw", hist.seen \ {"UDRE"})
          /\ UNCHANGED <<tx, op>>
    /\ UNCHANGED <<cores, rx, ucsra, ucsrb, pending>>

LoadTxc ==
    /\ At("fw", "txc")
    /\ op' = [op EXCEPT !["fw"].at = "txc_store", !["fw"].status = ucsra]
    /\ UNCHANGED <<cores, tx, rx, ucsra, ucsrb, pending, hist>>

StoreTxc ==
    /\ At("fw", "txc_store")
    /\ ucsra' = op["fw"].status \cup {"TXC"}
    /\ op' = [op EXCEPT !["fw"].at = "tx", !["fw"].status = {}]
    /\ UNCHANGED <<cores, tx, rx, ucsrb, pending, hist>>

\* ucsra_read.
ReadUcsra ==
    /\ MayStart("fw")
    /\ Refresh("fw", "tx", TRUE, {})
    /\ UNCHANGED <<cores, tx, rx, ucsra, ucsrb, pending>>

\* ucsra_write, after avr_io_write has stored the value: TXC is cleared
\* whatever is written to it, and the other two flags are what was written.
WriteUcsra ==
    /\ MayStart("fw")
    /\ \E val \in SUBSET Flag : ucsra' = val \ {"TXC"}
    /\ Touch("fw", hist.seen)
    /\ UNCHANGED <<cores, tx, rx, ucsrb, pending, op>>

\* Mutant of WriteUcsrb: the flags are not refreshed.
WriteUcsrbQuiet ==
    /\ MayStart("fw")
    /\ ucsrb' \in Controls
    /\ Touch("fw", hist.seen)
    /\ UNCHANGED <<cores, tx, rx, ucsra, pending, op>>

\* ucsrb_write.
WriteUcsrb ==
    /\ MayStart("fw")
    /\ ucsrb' \in Controls
    /\ Refresh("fw", "tx", FALSE, hist.seen)
    /\ UNCHANGED <<cores, tx, rx, ucsra, pending>>

\* A tick in which Timer0 or the TWI asks for its interrupt: irq_pending is
\* loaded and stored as uart_update_status does, with no look at the UART.
OtherAsks ==
    /\ MayStart("fw")
    /\ op' = [op EXCEPT !["fw"] = [Idle EXCEPT !.at = "load", !.raise = {"OTHER"}]]
    /\ Touch("fw", hist.seen)
    /\ UNCHANGED <<cores, tx, rx, ucsra, ucsrb, pending>>

\* avr_cpu_check_irq finds a request ...
TakeIrq ==
    /\ MayStart("fw")
    /\ pending # {}
    /\ op' = [op EXCEPT !["fw"].at = "clear", !["fw"].irq = pending]
    /\ Touch("fw", hist.seen)
    /\ UNCHANGED <<cores, tx, rx, ucsra, ucsrb, pending>>

\* ... and stores irq_pending without the most urgent one: RXC goes before
\* UDRE, Timer0 before both and the TWI after them.
MostUrgent(irq) == {v \in irq : v = "UDRE" => "RXC" \notin irq}

ClearIrq ==
    /\ At("fw", "clear")
    /\ \E v \in MostUrgent(op["fw"].irq) :
           /\ pending' = op["fw"].irq \ {v}
           /\ hist' = [hist EXCEPT !.since = @ \cup {v}]
    /\ op' = [op EXCEPT !["fw"] = Idle]
    /\ UNCHANGED <<cores, tx, rx, ucsra, ucsrb>>

\* avr_cpu_reset clears data memory and irq_pending; the rings stay.  Its
\* own races with the emulation are EspReset's subject.
Reset ==
    /\ ~Busy("fw") /\ ~Busy("host")
    /\ ucsra' = {} /\ ucsrb' = {} /\ pending' = {}
    /\ hist' = [seen |-> {}, since |-> {}, full |-> FALSE, raced |-> FALSE]
    /\ UNCHANGED <<cores, tx, rx, op>>
-----------------------------------------------------------------------------
(***************************************************************************)
(* The host: pc/main.c's loop, or esp_bridge_poll.                         *)
(***************************************************************************)
\* avr_uart_rx_push: with the receiver on, a byte for the ring, or lost if
\* that is full.
RxPush ==
    /\ MayStart("host")
    /\ "RXEN" \in ucsrb
    /\ rx' = IF rx < Cap THEN rx + 1 ELSE rx
    /\ Refresh("host", "tx", FALSE, hist.seen)
    /\ UNCHANGED <<cores, tx, ucsra, ucsrb, pending>>

\* avr_uart_tx_pop, which refreshes nothing.
TxPop ==
    /\ MayStart("host")
    /\ tx > 0
    /\ tx' = tx - 1
    /\ Touch("host", hist.seen)
    /\ UNCHANGED <<cores, rx, ucsra, ucsrb, pending, op>>
-----------------------------------------------------------------------------
FirmwareAccess ==
    \/ ReadUdr \/ WriteUdr \/ ReadUcsra \/ WriteUcsra \/ WriteUcsrb
    \/ LoadTxc \/ StoreTxc \/ OtherAsks \/ TakeIrq \/ ClearIrq \/ Reset

HostAccess == RxPush \/ TxPop

UartNext == FirmwareAccess \/ HostAccess \/ \E a \in Actor : Update(a)

UartSpec == UartInit /\ [][UartNext]_uartVars
-----------------------------------------------------------------------------
(***************************************************************************)
(* Properties.                                                             *)
(***************************************************************************)
Call == [at : {"idle", "tx", "rx", "store", "load", "or", "txc", "txc_store", "clear"},
         polls : BOOLEAN, status : SUBSET Flag,
         irq : SUBSET Irq, raise : SUBSET Irq]

UartTypeOK ==
    /\ cores \in Cores
    /\ tx \in 0..Cap /\ rx \in 0..Cap
    /\ ucsra \subseteq Flag
    /\ ucsrb \in Controls \cup {{}}
    /\ pending \subseteq Irq
    /\ op \in [Actor -> Call]
    /\ hist \in [seen : SUBSET Vector, since : SUBSET Irq,
                 full : BOOLEAN, raced : BOOLEAN]

(***************************************************************************)
(* ucsra_read: in one thread, firmware that polled RXC gets a byte from    *)
(* UDR, and firmware that polled UDRE does not lose the byte it sends,     *)
(* whatever interrupts and the host do in between.                         *)
(***************************************************************************)
PolledFlagsHold ==
    cores = 1 => /\ "RXC" \in hist.seen => rx > 0
                 /\ "UDRE" \in hist.seen => tx < Cap

Settled == ~hist.raced /\ \A a \in Actor : ~Busy(a)

Asked(v) == v \in pending \cup hist.since

(***************************************************************************)
(* uart_update_status: a received byte is never left waiting without its   *)
(* interrupt, however it is interleaved with reads and with changes of     *)
(* RXCIE.  On two cores an overlap may lose the request - of the host's    *)
(* call with one of the firmware's, or with any other change of            *)
(* irq_pending on the core's side - and the next call that refreshes the   *)
(* flags undisturbed makes up for it.                                      *)
(***************************************************************************)
ReceiveAsked == Settled /\ "RXCIE" \in ucsrb /\ rx > 0 => Asked("RXC")

(***************************************************************************)
(* The same of the transmitter, for a ring that had room when the flags    *)
(* were last refreshed.  If it was full then, tx_pop makes room and        *)
(* refreshes nothing, and the interrupt stays away until the firmware or a *)
(* received byte does: README.md lists this as a fault of the code, and    *)
(* nothing is claimed for it here.                                         *)
(***************************************************************************)
TransmitAsked ==
    Settled /\ "UDRIE" \in ucsrb /\ tx < Cap /\ ~hist.full => Asked("UDRE")
=============================================================================
