------------------------------ MODULE MCTicks -------------------------------
(* The waits of the USB stack on a clock of eight values, without alarms.  *)
EXTENDS Ticks
=============================================================================
