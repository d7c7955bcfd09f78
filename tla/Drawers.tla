------------------------------ MODULE Drawers ------------------------------
(***************************************************************************)
(* The three machines that draw a frame into the back buffer, one SDRAM    *)
(* word at a time: DrawDFJK_BK (background), Draw_sprites (notes) and      *)
(* Draw_score_combo (digits and verdict).  Each step operator is one clock *)
(* of its machine; its parameters are the machine's inputs: the arbiter's  *)
(* wait, the acknowledge of its own request, frame_flip, new_frame.        *)
(*                                                                         *)
(* An address is [w, base]: the word within the piece being drawn and the  *)
(* frame buffer the piece was begun in, 0 for 0x100000, 1 for 0x200000.    *)
(* A machine that misses its last word runs on: w stops at last + 1, a     *)
(* count no code reaches again.                                            *)
(***************************************************************************)
EXTENDS Integers

CONSTANTS
  BkLast,       (* Last word of the background: 7679.                        *)
  SpriteLast,   (* Last word of a note.                                      *)
  BodyLast,     (* Last word of the longest body of a hold.                  *)
  NoteLast,     (* Last of the notes a frame may show: 15.                   *)
  DigitLast,    (* Last word of a digit or of the verdict.                   *)
  ScoreDigits,  (* Last index of the score's digits: 5.                      *)
  ComboDigits   (* Last index of the combo's digits and caption: 4.          *)

ASSUME DrawersAssumption ==
  /\ BkLast \in Nat \ {0} /\ SpriteLast \in Nat \ {0} /\ BodyLast \in Nat \ {0}
  /\ NoteLast \in Nat
  /\ DigitLast \in Nat \ {0} /\ ScoreDigits \in Nat /\ ComboDigits \in Nat

VARIABLES
  bk,    (* DrawDFJK_BK: State, prestate, sdram_wraddr.                     *)
  ds,    (* Draw_sprites: State, DFJK4321, sdram_addr.                      *)
  dn,    (* Draw_score_combo: State and its suffix _s, _c or _p, the index, *)
         (* sdram_addr.                                                     *)
  shown  (* Whether the frame has a combo and a verdict to draw.            *)

drawers == <<bk, ds, dn, shown>>

Advance(w, last) == IF w > last THEN w ELSE w + 1

DrawersInit ==
  /\ bk = [st |-> "Halted", pre |-> 0, w |-> 0, base |-> 0]
  /\ ds = [st |-> "Halted", note |-> 0, w |-> 0, base |-> 0]
  /\ dn = [st |-> "Halted", part |-> "s", i |-> 0, w |-> 0, base |-> 0]
  /\ shown = {}
-----------------------------------------------------------------------------
(* DrawDFJK_BK copies the background: a read, then a write.                *)

BkHalted(wait, flip) ==
  /\ bk.st = "Halted"
  /\ bk' = [bk EXCEPT !.st = IF wait THEN @ ELSE "Read", !.w = 0, !.base = flip]

BkRead(ac) ==
  /\ bk.st = "Read"
  /\ bk' = [bk EXCEPT !.st = IF ac THEN "Read1" ELSE @, !.pre = 0]

BkRead1(wait) ==
  /\ bk.st = "Read1"
  /\ bk' = [bk EXCEPT !.st = IF wait THEN "Pause" ELSE "Write", !.pre = 0]

BkWrite(ac) ==
  /\ bk.st = "Write"
  /\ bk' = [bk EXCEPT !.st = IF ac THEN "Write1" ELSE @, !.pre = 1]

(* The last word is recognised by its address in the buffer of frame_flip. *)
BkWrite1(wait, flip) ==
  /\ bk.st = "Write1"
  /\ bk' = [bk EXCEPT !.pre = 1, !.w = Advance(@, BkLast),
              !.st = IF bk.w = BkLast /\ bk.base = flip THEN "Done"
                     ELSE IF wait THEN "Pause" ELSE "Read"]

BkPause(wait) ==
  /\ bk.st = "Pause"
  /\ bk' = [bk EXCEPT !.st = IF wait THEN @ ELSE IF bk.pre = 0 THEN "Write" ELSE "Read"]

BkDone(flip, nf) ==
  /\ bk.st = "Done"
  /\ bk' = [bk EXCEPT !.st = IF nf THEN "Halted" ELSE @, !.w = 0, !.base = flip]

BkStep(wait, ac, flip, nf) ==
  \/ BkHalted(wait, flip) \/ BkRead(ac) \/ BkRead1(wait) \/ BkWrite(ac)
  \/ BkWrite1(wait, flip) \/ BkPause(wait) \/ BkDone(flip, nf)

BkRequest == bk.st \in {"Read", "Write"}
-----------------------------------------------------------------------------
(* Draw_sprites draws the notes in turn: the body of a hold (the states    *)
(* ending in `long'), then the note.  Which notes are on screen and which  *)
(* are releases depends on the judge and the time: any may be.             *)

DsMove(sts) == \E s \in sts : ds' = [ds EXCEPT !.st = s]

(* `sdram_addr_max<=sdram_addr': the end lies in the buffer of frame_flip. *)
DsAtEnd(last, flip) == IF ds.base = flip THEN ds.w >= last ELSE ds.base > flip

DsHalted(wait, flip) ==
  /\ ds.st = "Halted"
  /\ \E s \in IF wait THEN {"Halted"} ELSE {"Examine", "Examinelong"} :
       ds' = [st |-> s, note |-> 0, w |-> 0, base |-> flip]

DsExamine(flip) ==
  /\ ds.st \in {"Examine", "Examinelong"}
  /\ \E s \in {"To_next", IF ds.st = "Examine" THEN "Read" ELSE "Readlong"} :
       ds' = [ds EXCEPT !.st = s, !.w = 0, !.base = flip]

(* Reading the sprite memory takes a clock or two and never waits.         *)
DsRead ==
  \/ ds.st = "Read" /\ DsMove({"Read1"})
  \/ ds.st = "Read1" /\ DsMove({"Write"})
  \/ ds.st = "Readlong" /\ DsMove({"Writelong"})

DsWrite(ac) ==
  \/ ds.st = "Write" /\ DsMove({IF ac THEN "Write1" ELSE "Write"})
  \/ ds.st = "Writelong" /\ DsMove({IF ac THEN "Writelong1" ELSE "Writelong"})

DsWrite1(wait, flip) ==
  /\ ds.st = "Write1"
  /\ ds' = [ds EXCEPT !.w = Advance(@, SpriteLast),
              !.st = IF DsAtEnd(SpriteLast, flip) THEN "To_next"
                     ELSE IF wait THEN "Pause" ELSE "Read"]

(* A body has two words at least and reaches as far as the hold goes on.   *)
DsWritelong1(wait, flip) ==
  /\ ds.st = "Writelong1"
  /\ \E last \in 1 .. BodyLast :
       ds' = [ds EXCEPT !.w = Advance(@, BodyLast),
                !.st = IF DsAtEnd(last, flip) THEN "Examine"
                       ELSE IF wait THEN "Pauselong" ELSE "Writelong"]

DsToNext ==
  /\ ds.st = "To_next"
  /\ \E s \in IF ds.note = NoteLast THEN {"Done"} ELSE {"Examine", "Examinelong"} :
       ds' = [ds EXCEPT !.st = s, !.note = IF @ = NoteLast THEN 0 ELSE @ + 1]

DsPause(wait) ==
  \/ ds.st = "Pause" /\ DsMove({IF wait THEN "Pause" ELSE "Read"})
  \/ ds.st = "Pauselong" /\ DsMove({IF wait THEN "Pauselong" ELSE "Writelong"})

DsDone(nf) == ds.st = "Done" /\ DsMove({IF nf THEN "Halted" ELSE "Done"})

DsStep(wait, ac, flip, nf) ==
  \/ DsHalted(wait, flip) \/ DsExamine(flip) \/ DsRead \/ DsWrite(ac)
  \/ DsWrite1(wait, flip) \/ DsWritelong1(wait, flip) \/ DsToNext \/ DsPause(wait)
  \/ DsDone(nf)

DsRequest == ds.st \in {"Write", "Writelong"}
-----------------------------------------------------------------------------
(* Draw_score_combo draws the score's digits, then the combo's or, without *)
(* a combo, a single picture, then the verdict if there is one.            *)

DnHalted(wait, flip) ==
  /\ dn.st = "Halted"
  /\ dn' = [st |-> IF wait THEN "Halted" ELSE "Read", part |-> "s", i |-> 0, w |-> 0, base |-> flip]

DnRead ==
  \/ dn.st = "Read" /\ dn' = [dn EXCEPT !.st = "Read1"]
  \/ dn.st = "Read1" /\ dn' = [dn EXCEPT !.st = "Write"]

DnWrite(ac) == dn.st = "Write" /\ dn' = [dn EXCEPT !.st = IF ac THEN "Write1" ELSE @]

DnEndOfPiece ==
  IF dn.part = "s" \/ (dn.part = "c" /\ "combo" \in shown) THEN "To_next"
  ELSE IF dn.part = "c" THEN "C2P" ELSE "Done"

DnWrite1(wait, flip) ==
  /\ dn.st = "Write1"
  /\ dn' = [dn EXCEPT !.w = Advance(@, DigitLast),
              !.st = IF dn.w = DigitLast /\ dn.base = flip THEN DnEndOfPiece
                     ELSE IF wait THEN "Pause" ELSE "Read"]

DnResume(wait) == IF wait THEN "Pause" ELSE "Read"

DnLastPiece == dn.i = (IF dn.part = "s" THEN ScoreDigits ELSE ComboDigits)

DnToNext(wait, flip) ==
  /\ dn.st = "To_next"
  /\ dn' = [dn EXCEPT !.i = IF DnLastPiece THEN 0 ELSE @ + 1, !.w = 0, !.base = flip,
              !.st = IF ~DnLastPiece THEN DnResume(wait)
                     ELSE IF dn.part = "s" THEN "S2C" ELSE "C2P"]

DnS2C(wait, flip) ==
  /\ dn.st = "S2C"
  /\ dn' = [st |-> DnResume(wait), part |-> "c", i |-> 0, w |-> 0, base |-> flip]

DnC2P(wait, flip) ==
  /\ dn.st = "C2P"
  /\ dn' = [st |-> IF "precise" \in shown THEN DnResume(wait) ELSE "Done",
            part |-> "p", i |-> 0, w |-> 0, base |-> flip]

DnPause(wait) == dn.st = "Pause" /\ dn' = [dn EXCEPT !.st = DnResume(wait)]

(* Mutant: the machine stays in Done when the next frame begins.           *)
DnDoneSticky(nf) == dn.st = "Done" /\ dn' = dn

DnDone(nf) == dn.st = "Done" /\ dn' = [dn EXCEPT !.st = IF nf THEN "Halted" ELSE @]

DnStep(wait, ac, flip, nf) ==
  \/ DnHalted(wait, flip) \/ DnRead \/ DnWrite(ac) \/ DnWrite1(wait, flip)
  \/ DnToNext(wait, flip) \/ DnS2C(wait, flip) \/ DnC2P(wait, flip) \/ DnPause(wait)
  \/ DnDone(nf)

DnRequest == dn.st = "Write"
-----------------------------------------------------------------------------
DrawersTypeOK ==
  /\ bk \in [st : {"Halted", "Read", "Read1", "Write", "Write1", "Pause", "Done"},
             pre : 0 .. 1, w : 0 .. BkLast + 1, base : 0 .. 1]
  /\ ds \in [st : {"Halted", "Read", "Read1", "Write", "Write1", "Examine", "Examinelong",
                   "Readlong", "Writelong", "Writelong1", "To_next", "Pause", "Pauselong", "Done"},
             note : 0 .. NoteLast, w : 0 .. SpriteLast + 1 \cup 0 .. BodyLast + 1, base : 0 .. 1]
  /\ dn \in [st : {"Halted", "Read", "Read1", "Write", "Write1", "Pause", "To_next",
                   "S2C", "C2P", "Done"},
             part : {"s", "c", "p"}, i : 0 .. ScoreDigits + ComboDigits,
             w : 0 .. DigitLast + 1, base : 0 .. 1]
  /\ shown \in SUBSET {"combo", "precise"}
=============================================================================
