---------------------------- MODULE DoubleBuffer ----------------------------
(***************************************************************************)
(* What the frame pipeline promises: the screen shows one buffer while the *)
(* layers of the next frame are drawn, in order, into the other, and the   *)
(* buffers change places only when every layer is drawn.                   *)
(***************************************************************************)
EXTENDS Integers

CONSTANTS LayerCount  (* The layers of a frame, a positive number.          *)

VARIABLES
  front,    (* The buffer shown.                                            *)
  started,  (* Whether frames are drawn yet.                                *)
  drawn     (* The layers of the back buffer that are complete.             *)

Layers == 1 .. LayerCount

Init == front \in 0 .. 1 /\ started = FALSE /\ drawn = {}

Start == ~started /\ started' = TRUE /\ UNCHANGED <<front, drawn>>

Draw(l) ==
  /\ started
  /\ l \notin drawn /\ \A k \in 1 .. l - 1 : k \in drawn
  /\ drawn' = drawn \cup {l}
  /\ UNCHANGED <<front, started>>

Flip ==
  /\ started => drawn = Layers
  /\ front' = 1 - front
  /\ drawn' = {}
  /\ UNCHANGED started

Next == Start \/ Flip \/ \E l \in Layers : Draw(l)

Spec == Init /\ [][Next]_<<front, started, drawn>>
=============================================================================
