# A TLA+ development for ucvm

ucvm emulates AVR (ATmega328P, ATtiny85) and 8051 (AT89S52) microcontrollers,
as a PC program (`pc/main.c`) and as ESP32 firmware (`esp32/main`).  A GDB stub
debugs the emulated core, an I/O bridge ties emulated peripherals to host
hardware, and on the ESP32 a web server uploads firmware and resets the core.

The emulated machines are sequential and the program around them is not.  What
is hard to test is what happens over many instructions or between two of them:
carries and flags over several bytes, instructions fused into one, interrupts
nested to several levels, state copied into registers and written back later,
peripherals ticked in batches, a debugger whose commands cross the stops they
are meant to cause, and on the ESP32 two processor cores, a web server and a
polling loop that share the emulated core and the bridge's tables without a
lock.  These modules are about that.

All paths below are relative to the repository; `src/` is its C library.

1. [Inventory](#1-inventory)
2. [Modules and how they correspond to the code](#2-modules)
3. [Runs, bounds and fairness](#3-runs)
4. [What is proved](#4-proofs)
5. [Where the code and its texts differ](#5-divergences)
6. [What is not modelled, and the plan](#6-not-modelled)

## 1. Inventory

| Component | State | Operations | Talks to | Hard behaviour | What makes it correct |
|---|---|---|---|---|---|
| AVR core, interrupts and run loop (`src/avr/avr_cpu.c`, `avr_decode.c`) | `avr_cpu_t`: registers, SREG, SP, pc, `state`, `irq_pending`, `periph_accum`, cycles; `avr_cpu_run`'s register copies of pc, accumulator, state, cycles | reset, run, step, check_irq, tick, push/pop, SEI/CLI/RETI/SLEEP/BREAK | peripherals through I/O handlers and the tick; host loop | interrupts taken only in ticks, register copies, SLEEP, other core halting it | requests served in order and in bounded time; return addresses and current routine agree |
| AVR predecoding and fusion (`avr_decode.c`) | decode cache | `avr_predecode`, fused handlers | flash, core | fused loops vs. breakpoints and ticks | a fused handler equals the instructions it stands for |
| AVR Timer0 (`avr_timer.c`) | prescaler remainder, direction; registers in data memory | register writes, tick by n cycles | `irq_pending` | several events in one tick; flags cleared as they are queued | ticking n at once equals n ticks of one |
| AVR UART (`avr_uart.c`) | two rings, UCSRA/B, `irq_pending` bits | UDR/UCSRA/UCSRB access, rx_push, tx_pop | host loop or bridge, on another core on the ESP32 | lock-free rings; read-modify-write from two cores | no byte lost that was promised, none waiting unannounced |
| AVR TWI and virtual slave (`avr_twi.c`, `avr_twi_slave.c`) | status, pending operation, bus state, TWCR; slave's register pointer | TWCR/TWDR writes, tick, completion | bus callbacks (virtual slave or real I2C, up to 100 ms) | writes during a transfer, NACKed addresses | status codes and bus state agree |
| AVR GPIO, ADC, variants (`avr_gpio.c`, `atmega328p.c`, `attiny85.c`) | PORT/DDR/PIN, external pins | port and pin access | bridge callback | PIN writes toggle; SBI on PIN | outputs reach the host |
| 8051 core (`src/mcs51/mcs51_cpu.c`, `mcs51_decode.c`) | `mcs51_cpu_t`: IRAM, SFRs, pc, `int_active[2]`, state | step, check_irq, reset, RETI, opcode 0xA5 | timers, UART, ports | two interrupt levels, IP changed in a routine, polling order | nesting follows priority; no request lost |
| 8051 peripherals (`mcs51_timer.c`, `mcs51_uart.c`, `mcs51_gpio.c`) | timer registers, rings, `tx_active`, port latches | tick, SBUF access, port access | core flags in TCON and SCON | one RI for several bytes; bit writes read pins | bytes announced; latches preserved |
| GDB stub (`src/gdb`) | `gdb_state`: client, running, single-step, `resume_from_pc`, breakpoint table | poll, packet handlers, notify_stop, check_breakpoint | TCP client; run loop | commands and stops cross on the wire; table limits | the debugger's belief about the core is true |
| PC run loops (`pc/main.c`) | loop position, batch counter | AVR loop, 8051 loop | core, stub, UART | stop reasons found in different places of the loop | one report per stop |
| ESP32 emulation task, web server, start-up (`esp32/main`) | shared core, `cpu->state` as the only signal | reset, halt, upload, emulate | two cores, no lock | all of it | flash is not rewritten under a running core; reset takes effect; the core executes what the debugger asked for |
| I/O bridge (`src/io`, `esp_io_bridge.c`) | entry table, handle table | add, remove, poll, callback, save | web server, peripherals | two tables shifted independently | an entry is served by its own handle |
| WiFi, configuration (`esp_wifi_setup.c`, `main.c`) | retry counter, event bits | events, start-up | web server | retries, late connection | services start once connected |
| Firmware loader (`src/util/ihex.c`) | none | Intel HEX and ucfm readers | flash | damaged files | same verdict on both architectures |
| Clients (`tools/gdb8051.py`, `tools/dap8051.py`) | breakpoint list, socket | RSP exchange | stub | time-outs, late replies | a reply belongs to its command |

`PROJECT.json` lists the components with their status, and the hazards with the
line where each one bites.  Most hazards name the properties that would catch
them; the few without one say why none is stated, usually because the code does
go wrong there and no text of the repository promises otherwise.

## 2. Modules

| Module | Models | Composes / refines |
|---|---|---|
| `IsrNest` | what an interrupt controller with levels promises | abstract |
| `Mcs51Irq` | 8051 step: decode, timer tick, `check_irq`; RETI, reset, rx_push | implements `IsrNest` |
| `Mcs51IrqProofs` | its proofs | extends `Mcs51Irq` |
| `Mcs51Exec` | all 8051 opcodes from their bytes, memories, ports, UART, both timers | the instructions that are one step in `Mcs51Irq` |
| `Mcs51ExecProofs` | its proofs | extends `Mcs51Exec` |
| `AvrCore` | AVR interrupts, tick, sleep, `avr_cpu_run`'s copies, PC main loop | |
| `AvrDecode` | predecoding and fusion, pure operators | used by `AvrExec` |
| `AvrExec` | all AVR operations, the data space, the stack | the instructions of `AvrCore`; fused cache against the cache before fusion |
| `AvrCoreProofs` | the proofs about the AVR core and its instructions | extends `AvrCore` and `AvrExec` |
| `AvrTimer` | Timer0, its requests | the environment `Timers` of `AvrCore` in detail |
| `AvrTimerProofs` | its proofs | extends `AvrTimer` |
| `AvrUart` | UART registers, requests, host polling, on one and on two cores | the environment `Poll` of `AvrCore` in detail |
| `I2cMemory` | a memory on an I2C bus | abstract |
| `Twi` | TWI master and virtual slave | composition of two; implements `I2cMemory` |
| `TwiProofs` | its proofs | extends `Twi` |
| `Fifo` | a bounded queue | abstract |
| `ByteRing` | the UART rings, statement by statement, producer and consumer on different cores | implements `Fifo` |
| `GdbSession` | debugger, two directions of the socket, stub, both PC run loops | composition of three actors |
| `GdbSessionProofs` | its proofs | extends `GdbSession` |
| `GdbEsp` | debugger, stub on core 0, `emu_task` on core 1, store by store | composition of three actors |
| `GdbEspProofs` | its proofs | extends `GdbEsp` |
| `EspReset` | web server's reset/halt/upload against `emu_task` | composition of two cores |
| `Bridge` | entry and handle tables, web requests, polling loop, NVS | composition of two tasks |
| `EspProofs` | the proofs about what the ESP32's two cores share without a lock | extends `Bridge`, `EspReset`, `ByteRing` and `AvrUart` |
| `MCAvrExec`, `MCMcs51Exec`, `MCAvrTimer`, `MCBridge` | constants of the runs that a .cfg cannot write; the first two hold the programs | extend their module |

**`Mcs51Irq`.**  One variable, `cpu`, holds the parts of `mcs51_cpu_t` that
dispatch depends on.  `Step(ins, o)` is `mcs51_cpu_step`: `Execute`, then
`Tick`, then `CheckIrq`, which polls `int_sources` in table order, refuses what
`int_active` blocks, clears the flags of acknowledged sources and pushes the
return address.  The firmware chooses any instruction that touches this state
(SETB/CLR of a flag, writes to IE and IP, RETI, 0xA5, SBUF); `other` is every
other one.  pc is the routine it points into.  Calls and pushes of the
firmware are balanced and not visible; RETI outside a routine is not done.

**`Mcs51Exec`.**  `cpu` is the rest of `mcs51_cpu_t`; a program is a function
from addresses to bytes, and `Opcode` and `Family` decode an opcode from its
byte as `op_table` does, grouped by the high digit.  `Execute` is
`mcs51_cpu_step` when it ends with EA clear (`Retire`): instruction, parity, one
timer tick per machine cycle, the UART's completion.  Between two steps the host
pushes a byte, takes one, or moves the pins of port 1.  Faithful to the code and
easily missed: two received bytes raise one RI; a byte that finds the receive
ring full raises it too; `SETB P1.x` reads pins and writes latches; `PUSH SP`
pushes the SP from before its increment; `MOVX @Ri` takes only Ri as address; an
overflow of timer 1 completes a transmission in every mode; in mode 3 TH0 stops
with TR0; PCON's idle bit does nothing.

**`AvrCore`.**  `core` is `avr_cpu_t`; `run` holds the register copies of pc
and of the accumulator that `avr_cpu_run` works on, which agree with `core`
only when `NEXT` or `done` store them.  `Retire` is the `NEXT(c)` macro: it
charges the cycles, and when the accumulator reaches `TickInterval` stores the
copies, lets the peripherals raise any of their vectors, takes one interrupt
(`CheckIrq`) and loads pc again.  `Sei`, `Cli`, `Reti`, `Sleep`,
`Access(v, c)`, a UART register write that requests `v` at once, and
`Ordinary(c)` are the instructions; `EnterRun`, `Asleep` and `Poll` are the
loop of `pc/main.c`.  The total of cycles, which no instruction looks at, is in
`AvrExec` only; that an interrupt's four are lost from it is section 5's.

**`AvrDecode`, `AvrExec`.**  `Predecode` turns words into records of operation
and operands, `Fuse` replaces SUBI/BRNE, DEC/BRNE and the two delay loops.
`Operation` is the table of handlers; each handler is an operator on `cpu`,
with SREG and SP mirrored in the data space as the code does.  `FusedIsPlain`
runs the same core on the cache before fusion until its clock shows the same
count.  A delay loop that goes round leaves SREG as it was, which its first
SUBI overwrites before anything can read it; the property says exactly that.
The code that fuses a delay loop does not compare the registers of its counter
(`avr_decode.c:460-478`); `DistinctCounters` says of a program that they differ.
The jump into the second word of an instruction runs as NOP, a fused pair is
one step of the debugger, and `run` does not compare pc with the end of flash:
the programs stay within what a compiler emits.

**`AvrTimer`.**  `Tick(h, n)` is `avr_timer0_tick`: the prescaler remainder, a
count at a time, then the two requests.  Firmware writes every register; `due`
remembers which events have neither been taken nor cleared by a one in TIFR, and
`wiped` which of them a write of TIFR has cleared although their bit in it was
zero.  As in the code, a write of TIFR clears *all* flags, a change of clock
select keeps the remainder, match B never interrupts, a request stays queued
after TIMSK disables it, and several events between two ticks are one request.

**`Twi`.**  `twi` is `avr_twi_t` with TWCR and TWDR, `slave` the virtual slave.
`WriteTwcr` starts an operation over whatever was pending, `Run` lets cycles
pass and completes it in a batched tick, `Wake` ends a sleep.  TWIE and its
request, TWWC, the bit-rate and slave-mode registers only store.  Firmware is
taken to heed a NACK (`Heeds`): it does not send data to an address nobody
acknowledged.  Shown by the model: a write of TWCR with TWINT zero clears TWINT
(the comment at `avr_twi.c:265` reads otherwise), a START that overtakes a
pending STOP loses the STOP, and SLEEP stops the TWI's clock.

**`AvrUart`.**  A ring is its count (its order is `ByteRing`'s subject).  Each
handler starts with `MayStart`, changes the ring, and goes through
`uart_update_status` as separate loads and stores (`LoadTx`, `LoadRx`,
`StoreStatus`, `LoadPending`, `StorePending`, `Return`).  With `cores = 1` a
call runs to its end before another starts, as in the PC build; with
`cores = 2` the firmware's and the host's calls interleave at every step, as
`emu_task` and `esp_bridge_poll` do.  `TakeIrq`/`ClearIrq` are check_irq's
read-modify-write of `irq_pending`, which takes the most urgent request of any
peripheral; `OtherAsks` is the read-modify-write with which Timer0's tick and
the TWI add a request of their own.  `raced` records an overlap of any two of
these changes.  The firmware may access any register at any time.

**`ByteRing`.**  `Offer`/`StoreByte`/`AdvanceHead` are the test, the store and the
index update of rx_push and of the data-register write, `Ask`/`Load`/
`AdvanceTail` those of the data-register read and tx_pop.  Memory is taken to
be sequentially consistent between the two cores; the code has no barrier.

**`GdbSession`.**  `client` is a debugger that sends one command and waits for
the answer, except for the interrupt byte and for closing the connection, which
it may do at any time.  `toStub` and `toClient` are the two directions of the
socket.  `stub` is `gdb_state`.  `loop` is the position in the run loop of
`pc/main.c`: `PollDone` after `gdb_poll`, then the batch (`HitBreakpoint`,
`StepCore`, `Afterwards`) with the AVR's and the 8051's different tests of
`state`.  Firmware is which addresses hold BREAK/0xA5, SLEEP or an undecodable
word; every other instruction may go anywhere.  A debugger whose interrupt
crossed a stop has its replies one behind from then on (`crossed`), as the
code gives it no way to tell: what the debugger believes about stops and
breakpoints is claimed only up to there.  An 8051 that executes 0xA5 under
continue is not reported (section 5): `StopsAreSeen` is about the AVR's BREAK
and HALTED and about steps.

**`GdbEsp`.**  The same debugger on the ESP32.  `shared` is what both cores
touch.  A handler of the stub is the sequence of its stores (`Continuing` is
`single_step`, `resume_from_pc`, `is_running`, `state`, in that order), which
`PollStore` performs one at a time; accepting a connection includes the reset
and its wait.  `emu_task` goes through `Begin`, `Decide`, then either the
debug batch (`LoopTest`, `CheckBreakpoint`, `Step`, `TestSingle`) or the free
run (`FreeStep`, `FreeEnd`), then `After`; `gdb_notify_stop` is three stores
wherever it is called.  The session gets *out of step* (`client.odd`) in two
ways: a stop reply arrives that nobody is waiting for, or a `c` or `s` is
handled while core 1 has not left its batch.  Neither side can notice, and
what follows is anybody's guess: a step onto a BREAK sends S05 twice; an
interrupt while a step is being taken clears `single_step` and the batch runs
on after S02; a debugger that reconnects meets the S05 of the last session; the
late `RUNNING` of a `c` overwrites the BREAK just executed.  The properties are
about sessions in step, and every position of core 1 in `InBatch` is needed:
without any one of them TLC finds a step that executes twice or not at all.

**`EspReset`.**  `host` walks through `avr_load_fw` and `avr_cpu_reset` on core
0, `emu` through `emu_task` and `avr_cpu_run` on core 1 with its own copy of
pc.  `vTaskDelay(2)` is a wait for the other core to be outside a batch *or
blocked on a real I2C bus* (`Waited`): two ticks are far longer than a batch
takes to see `HALTED`, and far shorter than the 100 ms an I2C operation may
take.  `Features` says what the firmware does: SLEEP, slow I2C.  Two behaviours
the model shows and no property can deny: with slow I2C, the stale pc is written
back over the reset and the "reset" firmware continues where it was; with SLEEP,
the store of `SLEEPING` overwrites a halt just requested, and an interrupt
resumes the core while flash is rewritten.  `FlashNotExecuted` and
`FailedLoadIsHalted` are about firmware that does not sleep.  `ResetTakesEffect`
is about all: a reset catches core 1 if it is halted, and out of its batch or
blocked on the bus, when pc is cleared (`Caught`), and then the first
instruction is the reset vector's; a reset misses only a core whose firmware
sleeps or whose I2C operation ended between the wait and that store.  That a
batch may start between the store of RUNNING and the rebuilding of cache and
data is in the model, and no property denies it.

**`Bridge`.**  `bridge` is the table with what deletions leave behind its end,
`handles` the handle of each slot named by the host resource it opened,
`installed` the drivers.  The web server's add is a copy and a count in the
order C leaves open, its delete is close, shift the handles, remove the entry;
the polling loop finds, opens, stores and uses a handle.  They interleave at
every step.  Any opening may fail, of an unknown host type always, and is tried
again in the next round; start-up (`Start`) opens what it can.  `tangled`
records the three events that set the tables apart: deleting an entry that has
no handle before one that has (the entries shift, the handles do not), a
deletion that overlaps the opening of a handle in its slot or a later one, and
an addition that overlaps the opening in its own slot.  `HandlesMatch`, and
that every installed driver has its holder, are claimed up to the first of
these events; that no port has two holders and no holder lacks its driver, and
that entries without a handle are tried, always.  A handle closed while the
polling loop uses it is not looked at.

Each property in the modules is preceded by what it says of the code, each
mutant by the bug it stands for.  `PROJECT.json` maps every definition to its
lines.

## 3. Runs

| Run | What it shows | Distinct states |
|---|---|---|
| `mcs51_irq` | 8051 dispatch: `int_active` and the return stack agree; implements `IsrNest`; a priority inversion of the polling order lasts one step; the first source is served | 8,756 |
| `mcs51_exec` | 391 byte programs: arithmetic over several bytes agrees with integers, timers count, bits of a port keep the latch, an echo firmware returns what it received in order | 23,410 |
| `avr_core` | AVR: a request waits less than one tick interval while enabled; routine and return addresses agree whichever copy of pc is current; every cycle reaches Timer0 once | 13,393 |
| `avr_exec` | 376 programs, among them every operation: results, flags and cycles are those of arithmetic on the operands; a fused operation equals the instructions it replaces | 7,404 |
| `avr_timer` | a tick of n cycles equals n ticks of one; periods and matches of every mode; no event made up, none lost but to a TIFR write whose bit for it is zero | 448,273 |
| `twi` | the status register tells the slave's state; master and slave implement `I2cMemory`; firmware that polls is stuck only through a TWCR write of its own | 71,928 |
| `avr_uart` | polled flags hold until used; an enabled request is there whenever its condition is, up to the exceptions stated in the property; on two cores the next undisturbed access repairs what an overlap lost | 4,530,289 |
| `byte_ring` | no stale test; the unlocked ring is a queue | 4,848 |
| `gdb` | sessions on both PC run loops: until an interrupt crosses a stop, a debugger that believes the core stopped is right, at most one stop is under way, and the table equals what was planted; breakpoints honoured, a step is at most one instruction and ends, a stopped AVR is reported, an interrupt is answered | 580,583 |
| `gdb_esp` | sessions on the ESP32's two cores: no more and no less is executed than asked for; a step returns, an interrupt brings the core to rest | 1,464,372 |
| `esp_reset` | no execution from flash being rewritten and a failed load stays halted, for firmware that does not sleep; a cache in use at rest was built from flash; a reset that catches core 1 starts at the vector, and when it misses is stated; a reset core runs | 6,419 |
| `bridge` | until one of three events a handle stands in the slot of its entry and every driver has a holder; always, no port has two; an entry without a handle is tried again | 1,149,488 |

**Bounds, and why they are enough.**

- `Mcs51Irq.cfg`: `Used = {2, 5}`, one source whose flag acceptance clears and
  one it does not, at either level: nesting reaches its full depth of two and
  every branch of `CheckIrq` is taken.  Depth is bounded by the code itself.
  The safety properties `NestingMatchesActive` and `ImplementsNest` are proved
  for every `Used`.
- `Mcs51Exec.cfg`: a code memory of 8192 bytes, four bytes of external memory,
  rings of 31 bytes as in the code; four bytes are sent to the echo firmware;
  the values of the operands include both ends and both sides of each carry.
  Arithmetic is not checked on all operands, only on those.  `LatchKept` is
  proved for every program, `EchoInOrder` for every input that fits a ring.
- `AvrCore.cfg`: one vector of each origin (timer, bus, host);
  `TickInterval = 8` instead of 64, more than the longest instruction (5
  cycles), so ticks fall within and between instructions and batches;
  `MaxDepth = 2` routines execute SEI.  All three properties are proved for
  every interval and depth.  Any prefix of the instructions of a batch may
  be a whole batch, which covers every step limit.
- `AvrExec.cfg`: `DataSize = 112` with 16 bytes of SRAM, so that the stack
  meets both ends; operands as for the 8051; counters that cross the borrow of
  each byte.  TLC checks that they satisfy `DistinctCounters`.  `FusedIsPlain` is
  proved for every program that does.
- `AvrTimer.cfg`: a counter that counts to 2 (`MaxCount`), dividers 1 and 3,
  modes normal, CTC, Fast PWM and phase-correct PWM with either TOP (4 and 6
  are reserved); ticks every 3 cycles, with instructions of up to 3; at most three
  set-up writes (`MaxSetups`).  The larger counter adds
  no branch: only 0, TOP, MAX and the match are told apart.
- `Twi.cfg`: bytes of three values, which gives the slave's address in both
  directions and one that is not its own, and a pointer that wraps; START and
  STOP take 2 cycles and a byte 3, ticks come every 2 cycles, so that an
  operation may end at a tick or between two.
- `AvrUart.cfg`: rings of two bytes (empty, between, full); three values
  written to UCSRB besides reset's: no interrupt enabled, RXC, both.
- `ByteRing.cfg`: four slots, two byte values; proved for every size.
- `Gdb.cfg`: two addresses, one with SLEEP and one with BREAK/0xA5 or an
  undecodable word; a table of two (`MaxBp`), so that it fills and holds
  duplicates; batches of two (`StepBatch`), so that a batch ends both ways.
  The debugger keeps at most one command outstanding and one interrupt; it
  plants an address at most `MaxBp` times; once out of step it sends no further
  interrupt.
- `GdbEsp.cfg`: the same addresses, batches of two in either loop; breakpoints
  are a set, the table being `GdbSession`'s subject; a debugger out of step
  does nothing but leave; history counts executed instructions up to two.
- `EspReset.cfg`: two images, two addresses (reset vector or elsewhere).
- `Bridge.cfg`: three slots, one pin, one port and one unknown host type, so
  that two entries may compete for the port and a deletion shifts two others; a
  table of at most one entry is saved (`MaxSaved`).

**Deadlock** is checked in every run but `avr_exec` and `mcs51_exec`, whose
programs end in a BREAK or an undecodable word.

**Type invariants** of modules without proofs are stated in the modules and are
in no run; the runs are kept for what could go wrong.

**Fairness.**  `Mcs51Irq`: weak fairness of the step, since the run loop calls
`mcs51_cpu_step` for ever; strong fairness of RETI, i.e. routines return; weak
fairness of the debugger's resume.  The last two are assumptions about the
environment and are needed only for `FirstServed`.  `GdbSession`: weak
fairness of the run loop, which never blocks (the socket is non-blocking), and
of the debugger reading its socket.  `GdbEsp`: weak fairness of either core
and of that reading.  `EspReset`: weak fairness of either core; the two tasks
run on different processors and every wait is bounded.  `Bridge`: weak fairness
of the polling loop alone, which the main task runs for ever.  `Twi` has none:
a core that sleeps over an operation may never wake.

## 4. Proofs

Checked by TLAPS, for every value of the constants allowed by the modules'
assumptions:

| Theorem | Says |
|---|---|
| `Mcs51IrqProofs!TypeCorrect`, `NestingCorrect`, `InversionEnds`, `Refinement` | types; `int_active` names exactly the levels of the routines on the stack, in rising order; a priority inversion ends with the next step; every behaviour is, seen through its levels, one of `IsrNest` |
| `Mcs51ExecProofs!ExecTypeCorrect`, `ExecKeepsLatch`, `EchoFirmware` | types, for any program; a bit written to port 1 leaves the other latch bits but those held low; the echo firmware returns what it is sent, in order |
| `AvrCoreProofs!TypeCorrect`, `LatencyCorrect`, `NestingCorrect`, `TimerToldCorrect` | types; `LatencyBounded`; `NestingMatches`; `TimerToldOnce` |
| `AvrCoreProofs!AvrTypeCorrect`, `AvrFusedIsPlain` | of `AvrExec`: types, for any words in flash; `FusedIsPlain`, for any program of `DistinctCounters` |
| `AvrTimerProofs!TypeCorrect`, `EventsAreKept`, `BatchesAreCycles`, `PeriodIsRight` | types; no overflow or match is made up, and none lost but to a TIFR write whose bit for it is zero; a tick of n cycles is n ticks of one; every mode takes the counts the data sheet gives from 0 to 0, with its events at their counts |
| `TwiProofs!TypeCorrect`, `StatusIsTrue`, `NeverStuckHolds`, `Refinement` | types; the status tells the slave's state; only a write of TWCR can leave firmware waiting for nothing; master and slave implement `I2cMemory` |
| `EspProofs!RingTypeCorrect`, `TestsStayTrueCorrect`, `RingIsFifo` | of `ByteRing`: types; neither side acts on a stale test; the ring implements `Fifo` |
| `EspProofs!UartTypeCorrect`, `PolledFlagsCorrect`, `ReceiveAskedCorrect`, `TransmitAskedCorrect` | of `AvrUart`: types; the three properties of the run `avr_uart` |
| `GdbSessionProofs!TypeCorrect`, `NothingRunsWhenStopped`, `StopsAreReportedOnce`, `BreakpointTableIsTrue`, `BreakpointsAreHonoured`, `SingleStepIsOne` | types; the five safety properties of the run `gdb`, the last two about steps |
| `GdbEspProofs!TypeCorrect`, `DoesWhatIsAskedCorrect` | types; `DoesWhatIsAsked` of the run `gdb_esp`: core 1 executes no more and no less than asked for |
| `EspProofs!ResetTypeCorrect`, `FlashNotExecutedCorrect`, `FailedLoadCorrect`, `CacheCorrect`, `ResetCorrect` | types; the four safety properties of the run `esp_reset`, the last one about steps |
| `EspProofs!TypeCorrect`, `HandlesAreTheEntries`, `DriversAreOwned` | types; the two safety properties of the run `bridge` |

*8051.*  `NestingMatchesActive` is not inductive as TLC checks it: RETI picks
the level to end from `int_active`, so one must know which of the finitely many
shapes the stack has.  `Shape` says so - idle, one routine at either level, a
high one over a low one - and `Good(c) == c \in Cpu /\ Shape(c)` is preserved
by `Execute`, `Tick` and `CheckIrq` one after the other, one lemma each.  The
refinement maps RETI followed by the entry of a waiting routine, which the code
does in one step, to `LeaveAndEnter`.

*8051 instructions.*  `Machine` is the type of `mcs51_cpu_t`: every memory total
on its addresses, every cell a byte.  Each operation the instructions are built
from maps machines to machines (`SetSfrStays`, `DirectWriteStays`, `PushStays`,
`SumsStay`, ...), so every group of instructions does, for any bytes
in code memory.  What follows an instruction - parity and up to four ticks of
two timers in four modes - is handled once, by the relation `Keeps(c, d)`: d
differs from c in the timed registers and in TI only.  `ExecKeepsLatch` then
needs only the bit arithmetic of `BitWriteToPort`.  `EchoInOrder` is not
inductive: it says nothing about the byte in the accumulator, about the receive
ring, or about whether RI can be trusted.  `EchoInv` adds them: every byte given
is, in order, taken, in the transmit ring, in the accumulator (at
`MOV SBUF,A`), or in the receive ring (`InTransit`); RI set means that a byte is
in the ring wherever the firmware acts on it, one more than the one it is about
to read between `CLR RI` and `MOV A,SBUF` (`FlagTellsRing`); and all of it fits
a ring (`AllFit`).  The last one is a hypothesis on the input: a firmware
that sends more than the host takes loses bytes in `sbuf_write`.

*AVR.*  `Good(core, pc)` is stated for the core together with *whichever copy
of pc is current*; the invariant instantiates it with the local copy while
`avr_cpu_run` executes and with `core.pc` outside.  Latency needs the link
`hist.wait <= CurrentAccum`: a request that could have been taken has waited no
longer than the accumulator has counted since the last tick, and the tick
resets both.  `RetireKeeps` proves `NEXT` once for all instructions.
`TimerToldOnce` is inductive with these: `CurrentAccum` names the copy of the
accumulator that is the true one, the local while `avr_cpu_run` executes, the
structure's outside.

*AVR instructions.*  `Cpu` is the type of `avr_cpu_t`.  Every word decodes to an
operation with operands of its kind (`DecodeWordIs`: a register below 32, a
target that is a word, a bit mask, ...), and the handler of each kind maps `Cpu`
to `Cpu` (`AddStays`, `IndirectStays`, `CallStays`, ...).  `Sound`, the inductive
invariant, adds that the cache is the fused cache of the program; `FusedLoops`
then says which instructions a fused entry stands for (`LoopAt`), and so which
operands it finds in the entries after it.  For `AvrFusedIsPlain` both sides are
worked out field by field: `Delay2Is` and `Delay3Is` for the fused operation,
`FirstOfDelay`, `SecondOfDelay` and `ThirdOfDelay` for SUBI and the SBCIs, whose
carry is the borrow into the next byte (`BorrowIs`), `LoopEnd` for the branch.
When the counter has reached zero no byte borrowed, so the flags the
instructions leave are the constant that the fused operation writes
(`ExitFlags`).  The clock of the plain core shows that it takes as many
instructions as the fused operation replaces.  `DistinctCounters` is a
hypothesis of the theorem and is needed: with SUBI r24,1 and SBCI r24,0 the fused
operation reads r24 once for both.

*Timer0.*  A tick is a number of counts, so both `BatchesAreCycles` and
`PeriodIsRight` are inductions on a number of counts, carried by sets of numbers
(`SetInduction`).  The first says that the counts of two ticks add up and do not
look at the prescaler's remainder (`CountedAdds`, `CountedIgnoresRemainder`);
the second follows the counter up, and down again in phase-correct mode, along
the closed form of the k-th count (`FollowsPath`).  `EventsKept` is inductive
with the types, `wiped` being part of the state that it speaks of.

*TWI.*  A step is a write of TWCR followed by at most one completion.  `Good`
relates master and slave before and after each: `Shape` says which operation
can be pending and which status can stand where the master is in a transfer,
`Truth` is the property.  Each completion is one event of `I2cMemory` or none.

*Debugging session.*  `Talk` determines what is on its way in both directions
from what the debugger waits for, until an interrupt crosses a stop; in
particular the commands and replies in the socket are at most one and one
interrupt.  `Table` compares the stub's table with what the debugger believes
plus what the reply on its way will make it believe (`Change`), across the
compaction of the table and its overflow.  `Running` relates the stub's flags
to the loop's position and to what has executed.

*Debugging on two cores.*  Core 0 is always in some handler: the invariant `IInv`
says that its pending stores are the last n of the program of one of eight
handlers, `J(d, n)` relates that place to everything else, and each store is one
lemma that leads from n to n - 1.  The order of the stores is what the proof
uses.  `Untold`: an accept clears `is_running` before it stores the client,
then waits, so that when it is done core 1 is outside its batch and stays there.
`Begins`: until a command has stored `is_running` core 1 is at rest, and by then
`single_step`, or `resume_from_pc` with the address continued from, is in place.
`NothingDone`, `Continues` and `Steps` follow core 1 from there to its report:
as long as nothing has executed there is no stop for it to find, a continue
passes a breakpoint only where `resume_from_pc` still is, a step keeps
`single_step` until it has executed or stands at a breakpoint.  `Talk`
determines what is on its way, as in `GdbSession`, and `Resting` says that
between commands `is_running` is clear whatever is left of the batch.

*Bridge.*  `Held` says, always, that handles and the polling loop hold each port
at most once and only with its driver installed.  Until `tangled`, `Found`
gives each installed driver its holder, `Placed` says where a handle stands at
every stage of a request - in the slot of its entry, or one before it between
the shift of the handles and that of the entries - and `Opening` what the
polling loop holds between opening and storing.

*Ring.*  The two rely-conditions `ProducerKeepsSlot` and `ConsumerKeepsByte`
are the invariant: each side's step preserves the other's.  The abstract queue
is the function `Contents` of buffer and indices; `HeadMoves`, `TailMoves` and
`StoreIsInvisible` say how it changes, wrap-around included.

*UART registers.*  `AsksWhenCalm` follows one call that nothing overlaps from
load to store: what it has read of the rings is in its copy of the status, what
it has to ask for is in `raise`, in `irq_pending` or taken since.
`TrueInOneThread` says that in one thread the copy and the stored register are
true until the call returns, and `OverlapIsRace` that two calls in progress
are what `raced` records.

*ESP32 reset.*  The halt protocol works because a halt *holds* through the wait
and because nothing but the web server ends it (`HaltHolds`, for firmware that
does not sleep: `ByFeature` says that only sleeping firmware reaches the steps
that store another state).  `ClearHolds` says where core 1 can be when pc is
cleared, if its firmware does not sleep, and `ResetHolds` relates both copies of
pc for a reset that caught it: from the moment pc is cleared until an
instruction executes, whichever copy core 1 uses is 0.  `PartialHolds` and
`CacheHolds` follow flash and cache from request to request.  The properties
alone are not inductive: they say nothing of the steps between the request and
the wait.

Assumptions are those the modules name and TLC evaluates in each run: sources
and vectors come from the tables, sizes and divisors are positive, the slave's
address fits a byte (`TwiAssumption`), `NoByte` is no byte, pins are not ports and
a board's default table is a table (`BridgeAssumption`), programs and inputs
consist of bytes (`ProgramsAssumption`), memories have natural sizes
(`MemoryAssumption`), an AVR's data space reaches past its I/O space and its
addresses are words (`AvrMemoryAssumption`), its flash holds words from address 0
on (`AvrProgramsAssumption`).  A push with SP at or above
`data_size` writes past the array in the code (`avr_decode.c:24-25` does not
test the bound); the model's push stores only within the data space, so such
programs are outside the model, and `AvrTypeCorrect` says nothing about them.

Only model-checked:

- all liveness (`FirstServed`, `InterruptAnswered`, `StopsAreSeen`,
  `RequestsDone`, `ResetRuns`, `EntriesAreTried`), which is outside the
  prover's reach;
- `ResultsRight` of `AvrExec` and of `Mcs51Exec`: that whole programs compute
  the integer results given with them, over hundreds of steps of each.

The library's induction theorems take a predicate as their parameter and cannot
be used; where a proof needs induction on a number, `LeastNumber` gets it from
the well-foundedness of < on the naturals, for a set instead of a predicate.

## 5. Divergences

Where the code does not do what a text of the repository says; the models follow
the code and the properties are stated around it.

- `README.md:7` promises "all ~130 instructions, SREG flags, interrupts", cycle
  accurate.  `avr_decode.c:166` tells MULSU, FMUL, FMULS and FMULSU apart by
  bits 3 and 4 of the opcode instead of 3 and 7, so `FMULS R18,R17` runs as
  MULSU (the programs of `avr_exec` use register numbers where both agree); and
  the four cycles of an interrupt taken in a tick (`avr_cpu.c:272`) are lost,
  since `NEXT` reloads pc and not the cycle count (`avr_decode.c:547`).  No
  property claims the total; `TimerToldOnce` is about the accumulator.
- `avr_timer.c:35` says that only the TIFR bits written as one are cleared; all
  are, since the value is stored before the handler reads it, so firmware that
  clears one flag loses the others (`wiped` of `AvrTimer`).
- `avr_twi.c:265`: a TWCR write with TWINT zero does clear TWINT.
- `avr_cpu.c:110-111` says core 1 is out of `avr_cpu_run` until flash, cache and
  data are rebuilt; RUNNING is stored before data and cache are, and core 1 may
  start a batch in between.
- `avr_uart.c:7,52`: `avr_uart_tx_pop` makes room without refreshing the
  status, so firmware that sends by interrupt and has filled the ring is not
  asked for more.
- `esp_io_bridge.c:362` says both tables stay in step; they do not after any of
  the three events of `tangled`: an entry without a handle is deleted before
  one that has, a deletion overlaps an opening at its slot or behind it, or an
  addition overlaps the opening of its slot.  A port may then be lost until the
  next restart.
- `gdb8051.py:15` and `README.md:188-194`: a single step asked for at a planted
  breakpoint, other than the address last continued from, reports a stop and
  executes nothing, since only `c` sets `resume_from_pc`; `StepIsOne` states
  that case separately.
- `gdb8051.py:27`: an 8051 that executed 0xA5 never runs again after a detach.
- `README.md:337-362` describes `/api/config`; the server answers `/api/bridge`.

Behaviour worth knowing that contradicts nothing written down:

- a SLEEP under a debugger is reported as a stop, and the next `c` overwrites
  SLEEPING; a halt of the ESP32's web page may be lost to a SLEEP, and one made
  during a debugging session reaches the debugger as S05;
- an 8051 that executes 0xA5 under continue is not reported as stopped: the PC
  loop leaves each batch without `gdb_notify_stop` (`main.c:349-353`), and the
  debugger waits until it interrupts;
- a stale `irq_pending` bit enters the RXC routine with an empty ring, where
  UDR reads as 0;
- on the ESP32 the core may run to the end of a batch of 50,000 after S02;
- a delay loop whose counter names one register twice is fused like any other
  and counts differently;
- a push above `data_size` is not refused; CTC with OCR0A = 0 never matches;
- on the ESP32's real I2C a repeated START discards bytes that are only
  buffered, and a deleted I2C entry leaves its bus attached to the TWI;
- `nvs_commit`'s result is ignored; deleting an index beyond the last entry
  closes a handle.

## 6. Not modelled

- AVR GPIO and ADC: latches over pins and conversions that complete at once;
  no two steps of theirs can come apart.
- ESP32 start-up, WiFi, stored configuration: a fixed sequence of ESP-IDF
  calls.  Of NVS only the bridge's table is in `Bridge`.
- Web server and page: JSON and HTML; the handlers that change the emulated
  core or the bridge are in `EspReset` and `Bridge`.
- Firmware loader: a sequential parser; `EspReset` takes its outcome as a
  choice.
- 8051 client and DAP adapter: the exchange of packets is in `GdbSession`, the
  time-outs, source maps and the adapter's translation are not.
- GDB: reading memory and registers, framing and checksums; the 8051 on the
  ESP32, where accepting a connection resets without a wait, so that the free
  batch runs on and a 0xA5 in it is never reported, and where firmware is
  reloaded without a halt.
- The bridge's buffered I2C transfers and ADC drivers (an ADC entry for
  unit 1 can never open when one for unit 0 exists).
