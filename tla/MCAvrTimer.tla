----------------------------- MODULE MCAvrTimer -----------------------------
(***************************************************************************)
(* AvrTimer with a counter that counts to 2 and two divisors for TLC.      *)
(***************************************************************************)
EXTENDS AvrTimer

MCDivisor == <<1, 3>>
=============================================================================
