------------------------------ MODULE EspReset ------------------------------
(***************************************************************************)
(* Resetting and reloading an emulated AVR on the ESP32.  The web server   *)
(* on core 0 (reset_handler, firmware_handler) runs avr_cpu_reset and      *)
(* avr_load_fw against emu_task on core 1, which executes from cached      *)
(* copies of the core's registers.  The two share the core's structure     *)
(* without a lock: core 0 asks for a halt through cpu->state and waits two *)
(* scheduler ticks.  No debugger is connected.                             *)
(*                                                                         *)
(* Firmware is abstracted to which image it comes from; its program        *)
(* counter is 0 at the reset vector and 1 anywhere else.                   *)
(***************************************************************************)
EXTENDS Naturals

CONSTANT Features    \* what firmware may do that affects a reset

ASSUME FeatureAssumption == Features \subseteq {"sleep", "slow_bus"}

VARIABLES
    does,       \* what this firmware does: SLEEP, and I2C operations on a
                \* real bus, which may outlast two ticks
    state,      \* cpu->state
    pc,         \* cpu->pc
    flash,      \* the image in flash
    cache,      \* the image the decode cache was built from
    host,       \* the control point of core 0
    emu,        \* core 1: its control point and its register copy of pc
    fresh       \* history: the last time pc was cleared, was core 1 "caught",
                \* or "missed"; "no" once an instruction has executed

resetVars == <<does, state, pc, flash, cache, host, emu, fresh>>

Image == {"A", "B"}
Address == {0, 1}

ResetInit ==
    /\ does \in SUBSET Features
    /\ state = "RUNNING"
    /\ pc = 0
    /\ flash = "A"
    /\ cache = "A"
    /\ host = "idle"
    /\ emu = [at |-> "outer", pc |-> 0]
    /\ fresh = "caught"
-----------------------------------------------------------------------------
(***************************************************************************)
(* Core 0.                                                                 *)
(***************************************************************************)
\* avr_load_fw stops the core before it touches flash.
\* Mutant of LoadHalts: flash is rewritten under the running core.
LoadHaltsNot ==
    /\ host = "idle"
    /\ host' = "load_wait"
    /\ UNCHANGED <<does, state, pc, flash, cache, emu, fresh>>

LoadHalts ==
    /\ host = "idle"
    /\ state' = "HALTED"
    /\ host' = "load_wait"
    /\ UNCHANGED <<does, pc, flash, cache, emu, fresh>>

\* reset_handler with {"action":"halt"}.
WebHalt ==
    /\ host = "idle"
    /\ state' = "HALTED"
    /\ host' = "reply"
    /\ UNCHANGED <<does, pc, flash, cache, emu, fresh>>

\* httpd_resp_send.
Reply ==
    /\ host = "reply"
    /\ host' = "idle"
    /\ UNCHANGED <<does, state, pc, flash, cache, emu, fresh>>

\* vTaskDelay(2): long enough for core 1 to reach the end of its batch,
\* unless it is blocked in an I2C operation of up to 100 ms.
Waited == emu.at \in {"outer", "bus"}

LoadWaits ==
    /\ host = "load_wait"
    /\ Waited
    /\ host' = "erase"
    /\ UNCHANGED <<does, state, pc, flash, cache, emu, fresh>>

Erase ==
    /\ host = "erase"
    /\ flash' = "erased"
    /\ host' = "parse"
    /\ UNCHANGED <<does, state, pc, cache, emu, fresh>>

\* fw_load: the whole image, or an error that leaves what was read so far.
Parse ==
    /\ host = "parse"
    /\ \/ flash' \in Image /\ host' = "reset"
       \/ flash' = "partial" /\ host' = "idle"
    /\ UNCHANGED <<does, state, pc, cache, emu, fresh>>

WebReset ==
    /\ host = "idle"
    /\ host' = "reset"
    /\ UNCHANGED <<does, state, pc, flash, cache, emu, fresh>>

\* avr_cpu_reset.
ResetHalts ==
    /\ host = "reset"
    /\ state' = "HALTED"
    /\ host' = "reset_wait"
    /\ UNCHANGED <<does, pc, flash, cache, emu, fresh>>

\* Mutant of ResetWaits: no delay.
ResetWaitsNot ==
    /\ host = "reset_wait"
    /\ host' = "clear_pc"
    /\ UNCHANGED <<does, state, pc, flash, cache, emu, fresh>>

ResetWaits ==
    /\ host = "reset_wait"
    /\ Waited
    /\ host' = "clear_pc"
    /\ UNCHANGED <<does, state, pc, flash, cache, emu, fresh>>

\* Core 1 is halted, and outside its batch or where it loads pc again.
Caught == state = "HALTED" /\ emu.at \in {"outer", "bus"}

ClearPc ==
    /\ host = "clear_pc"
    /\ pc' = 0
    /\ fresh' = IF Caught THEN "caught" ELSE "missed"
    /\ host' = "run_early"
    /\ UNCHANGED <<does, state, flash, cache, emu>>

\* cpu->state = AVR_STATE_RUNNING, with data memory and cache still to come.
RunEarly ==
    /\ host = "run_early"
    /\ state' = "RUNNING"
    /\ host' = "clear_data"
    /\ UNCHANGED <<does, pc, flash, cache, emu, fresh>>

\* memset of data memory, then avr_predecode begins.
ClearData ==
    /\ host = "clear_data"
    /\ cache' = "rebuilding"
    /\ host' = "predecode"
    /\ UNCHANGED <<does, state, pc, flash, emu, fresh>>

\* Mutant of Predecode: the cache keeps the image it had.
PredecodeSkipped ==
    /\ host = "predecode"
    /\ cache' = "A"
    /\ host' = "run"
    /\ UNCHANGED <<does, state, pc, flash, emu, fresh>>

Predecode ==
    /\ host = "predecode"
    /\ cache' = flash
    /\ host' = "run"
    /\ UNCHANGED <<does, state, pc, flash, emu, fresh>>

\* Mutant of Run: the core is left halted.
RunForgotten ==
    /\ host = "run"
    /\ state' = "HALTED"
    /\ host' = "idle"
    /\ UNCHANGED <<does, pc, flash, cache, emu, fresh>>

Run ==
    /\ host = "run"
    /\ state' = "RUNNING"
    /\ host' = "idle"
    /\ UNCHANGED <<does, pc, flash, cache, emu, fresh>>
-----------------------------------------------------------------------------
(***************************************************************************)
(* Core 1: emu_task and avr_cpu_run.                                       *)
(***************************************************************************)
EnterRun ==
    /\ emu.at = "outer"
    /\ state = "RUNNING"
    /\ emu' = [at |-> "run", pc |-> pc]
    /\ UNCHANGED <<does, state, pc, flash, cache, host, fresh>>

\* An instruction, at the reset vector only the first time.
Execute ==
    /\ emu.at = "run"
    /\ emu' = [emu EXCEPT !.pc = 1]
    /\ fresh' = "no"
    /\ UNCHANGED <<does, state, pc, flash, cache, host>>

\* SLEEP stores its state and ends the batch.
ExecuteSleep ==
    /\ "sleep" \in does
    /\ emu.at = "run"
    /\ state' = "SLEEPING"
    /\ emu' = [at |-> "leave", pc |-> 1]
    /\ fresh' = "no"
    /\ UNCHANGED <<does, pc, flash, cache, host>>

\* avr_tick_peripherals completes an I2C operation on the real bus.  NEXT
\* has stored pc before the tick, and loads it and the state again after.
BusBegins ==
    /\ "slow_bus" \in does
    /\ emu.at = "run"
    /\ emu.pc = 1
    /\ pc' = emu.pc
    /\ emu' = [emu EXCEPT !.at = "bus"]
    /\ UNCHANGED <<does, state, flash, cache, host, fresh>>

BusEnds ==
    /\ emu.at = "bus"
    /\ emu' = [at |-> IF state = "RUNNING" THEN "run" ELSE "leave", pc |-> pc]
    /\ UNCHANGED <<does, state, pc, flash, cache, host, fresh>>

\* NEXT after a tick: "another core may have halted us".
SeesHalt ==
    /\ emu.at = "run"
    /\ state # "RUNNING"
    /\ emu' = [emu EXCEPT !.at = "leave"]
    /\ UNCHANGED <<does, state, pc, flash, cache, host, fresh>>

\* The batch's step limit.
EndRun ==
    /\ emu.at = "run"
    /\ emu' = [emu EXCEPT !.at = "leave"]
    /\ UNCHANGED <<does, state, pc, flash, cache, host, fresh>>

\* done: the local copies are written back.
Leave ==
    /\ emu.at = "leave"
    /\ pc' = emu.pc
    /\ emu' = [emu EXCEPT !.at = "outer"]
    /\ UNCHANGED <<does, state, flash, cache, host, fresh>>

\* A sleeping core takes an interrupt: check_irq moves pc to the vector, ...
TakeInterrupt ==
    /\ emu.at = "outer"
    /\ state = "SLEEPING"
    /\ pc' = 1
    /\ emu' = [emu EXCEPT !.at = "vector"]
    /\ UNCHANGED <<does, state, flash, cache, host, fresh>>

\* ... then tests for SLEEPING ...
TestSleeping ==
    /\ emu.at = "vector"
    /\ emu' = [emu EXCEPT !.at = IF state = "SLEEPING" THEN "wake" ELSE "outer"]
    /\ UNCHANGED <<does, state, pc, flash, cache, host, fresh>>

\* ... and stores RUNNING.
Wake ==
    /\ emu.at = "wake"
    /\ state' = "RUNNING"
    /\ emu' = [emu EXCEPT !.at = "outer"]
    /\ UNCHANGED <<does, pc, flash, cache, host, fresh>>
-----------------------------------------------------------------------------
HostRequest == LoadHalts \/ WebHalt \/ WebReset

HostStep ==
    \/ LoadWaits \/ Erase \/ Parse
    \/ ResetHalts \/ ResetWaits \/ ClearPc \/ RunEarly
    \/ ClearData \/ Predecode \/ Run \/ Reply

EmuStep ==
    \/ EnterRun \/ Execute \/ ExecuteSleep \/ BusBegins \/ BusEnds
    \/ SeesHalt \/ EndRun \/ Leave
    \/ TakeInterrupt \/ TestSleeping \/ Wake

ResetNext == HostRequest \/ HostStep \/ EmuStep

ResetSpec == ResetInit /\ [][ResetNext]_resetVars

\* Both cores are scheduled: the web server's task and emu_task never block
\* for good, and a batch of avr_cpu_run has a step limit.
FairResetSpec == ResetSpec /\ WF_resetVars(HostStep) /\ WF_resetVars(EmuStep)
-----------------------------------------------------------------------------
(***************************************************************************)
(* Properties.                                                             *)
(***************************************************************************)
ResetTypeOK ==
    /\ does \subseteq Features
    /\ state \in {"RUNNING", "SLEEPING", "HALTED"}
    /\ pc \in Address
    /\ flash \in Image \cup {"erased", "partial"}
    /\ cache \in Image \cup {"partial", "rebuilding"}
    /\ host \in {"idle", "reply", "load_wait", "erase", "parse", "reset",
                 "reset_wait", "clear_pc", "run_early", "clear_data",
                 "predecode", "run"}
    /\ emu \in [at : {"outer", "run", "leave", "bus", "vector", "wake"},
                pc : Address]
    /\ fresh \in {"caught", "missed", "no"}

Loading == host \in {"erase", "parse"}

\* avr_load_fw: nothing executes for as long as flash is erased and rewritten,
\* even when core 1 blocks on the bus all the while.  Firmware that sleeps is
\* exempt: its SLEEP may overwrite the halt, the next interrupt wakes it, and it
\* does execute from flash being rewritten.
FlashNotExecuted == "sleep" \notin does /\ Loading => emu.at # "run"

\* A failed load leaves a core that executes nothing until the next request,
\* although its decode cache still holds the image flash has lost.  Firmware that
\* sleeps is exempt here too: woken from a SLEEP that overwrote the halt, it goes
\* on from the old cache.
FailedLoadIsHalted ==
    /\ "sleep" \notin does
    /\ flash = "partial" /\ cache # "partial"
    /\ host = "idle"
    => state = "HALTED" /\ emu.at # "run"

\* avr_cpu_reset, for firmware of every kind: if core 1 was caught when pc was
\* cleared, the first instruction it executes is the one at the reset vector,
\* although RUNNING is stored twice and core 1 stores its own copy of pc when it
\* ends a batch.  And core 1 is caught, unless SLEEP may have overwritten the halt
\* or an I2C operation outlasted the wait and ended before pc was cleared; then
\* the stale pc is stored over the reset.
ResetTakesEffect ==
    [][ /\ fresh = "caught" /\ fresh' = "no" => emu.pc = 0
        /\ fresh # "missed" /\ fresh' = "missed" =>
              "sleep" \in does \/ ("slow_bus" \in does /\ emu.at = "leave") ]_resetVars

\* avr_load_fw and avr_cpu_reset: whenever the web server is done, the core
\* decodes from what flash holds, unless the last load failed part way.  (Between
\* the two stores of RUNNING core 1 may execute from the old cache, or from one
\* half rebuilt.)
CacheFollowsFlash == host = "idle" => cache = flash \/ flash = "partial"

\* A core that was reset executes, unless it is asked to stop again first.
ResetRuns ==
    host = "run" ~> emu.at = "run" \/ host \in {"reply", "load_wait", "reset"}
=============================================================================
