------------------------------ MODULE MCBridge ------------------------------
(***************************************************************************)
(* Bridge with three slots, a pin, a port and an unknown host for TLC.     *)
(***************************************************************************)
EXTENDS Bridge

\* The console and the LED of app_main: here a pin alone, the console has no driver.
MCDefaults == [num |-> 1, at |-> [s \in Slots |-> Blank]]
=============================================================================
