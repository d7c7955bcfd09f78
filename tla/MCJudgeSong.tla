----------------------------- MODULE MCJudgeSong -----------------------------
(***************************************************************************)
(* The charts of the repository, with the windows and times of the source. *)
(* The player presses nothing, or switches auto mode on before the song.   *)
(* The video counters never stop, so frames follow one another; the card   *)
(* is loaded when it can be read.                                          *)
(***************************************************************************)
EXTENDS Judge, Charts

MCTracks  == DOMAIN Song
MCKeySets == {{}}

SongSpec ==
  /\ Init /\ [][Next /\ ~untimely']_vars
  /\ WF_vars(\E keys \in KeySets : Frame(keys)) /\ WF_vars(LoadDone)
=============================================================================
