------------------------------- MODULE MCHal -------------------------------
(* Small words, rings and FIFOs, which turn over and fill up quickly; a    *)
(* flash of two sectors, one of which may not be offered; a console that   *)
(* cannot refuse an open, and a file system that can.                     *)
EXTENDS Hal, TLC

MCFunctions ==
  ("/dev/null" :> {"write"}) @@ ("uart" :> {"close", "read", "write", "ioctl"})
    @@ ("fs" :> {"open", "close", "read", "fstat"})
MCSectors ==
  {[enabled |-> TRUE, start |-> 0, end |-> 3], [enabled |-> TRUE, start |-> 4, end |-> 7],
   [enabled |-> FALSE, start |-> -1, end |-> -1]}
MCUnavailable == {s \in MCSectors : s.start = 4}
MCPatterns == {[a \in 0 .. 7 |-> IF a \in {0, 3, 6} THEN 1 ELSE 0]}
=============================================================================
