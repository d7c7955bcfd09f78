------------------------------- MODULE MCJudge -------------------------------
(***************************************************************************)
(* Two short tracks with every kind of note, in every spacing the windows  *)
(* tell apart: notes closer than a window, a hold, and the same frame on   *)
(* both tracks.                                                            *)
(***************************************************************************)
EXTENDS Judge, TLC

MCTracks == {"D", "F"}

Pad   == [kind |-> TapNote, time |-> 0]
At(n) == [kind |-> TapNote, time |-> n]
Mark  == At(20)

MCChart ==
  [D |-> 0 :> Pad @@ 1 :> At(5) @@ 2 :> [kind |-> HoldNote, time |-> 7]
           @@ 3 :> [kind |-> ReleaseNote, time |-> 10] @@ 4 :> Mark @@ 5 :> Mark,
   F |-> 0 :> Pad @@ 1 :> Pad @@ 2 :> At(5) @@ 3 :> At(8) @@ 4 :> Mark @@ 5 :> Mark]

MCFirst == [D |-> 1, F |-> 2]
MCLast  == [D |-> 4, F |-> 4]
MCKeySets == SUBSET MCTracks
=============================================================================
