----------------------------- MODULE MCKeyboard -----------------------------
(* A keyboard that types the word's letters and plays.                     *)
EXTENDS Keyboard

MCOthers == {A, U, T, O}
MCKeySets == {{A, 7}, {T}, {O}}
=============================================================================
