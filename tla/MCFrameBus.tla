----------------------------- MODULE MCFrameBus -----------------------------
(* FrameBus on a screen of 22 pixels and 13 rows, of which two are shown,  *)
(* with two words to a row, a note or a digit, and three to the background *)
(* and to the longest body of a hold.                                      *)
EXTENDS FrameBus

MCFillWords == 0 .. 1
=============================================================================
