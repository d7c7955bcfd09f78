-------------------------------- MODULE Judge --------------------------------
(***************************************************************************)
(* The rhythm logic: the note pointers and verdicts of Draw_sprites        *)
(* (DrawSprites.sv), the score and combo registers of Draw_score_combo     *)
(* (Draw_score_and_combo.sv), universal_timer.sv, keycode_machine.sv and   *)
(* the key registers of rhythm.sv.                                         *)
(*                                                                         *)
(* Every register of these modules is clocked by `posedge new_frame', so a *)
(* step of the model is one video frame.  The states of universal_timer    *)
(* and of the arbiter change on the 50 MHz clock, a few cycles after the   *)
(* edge that causes it and 16 ms before the next edge: the frame step      *)
(* contains those changes.                                                 *)
(***************************************************************************)
EXTENDS Integers, FiniteSetsExt

CONSTANTS
  Tracks,         (* The four keys D, F, J and K.                            *)
  KeySets,        (* The sets of keys a player may hold down at a frame.     *)
  MaxAddr,        (* Last index of `mem': 255.                               *)
  Chart,          (* The notes: [Tracks -> [0..MaxAddr -> [kind, time]]].    *)
  First,          (* Index of each track's first listed note.               *)
  Last,           (* Index of each track's first end marker.                *)
  MissWindow,     (* 26 frames: a press this far ahead is a miss,            *)
  GoodWindow,     (* 22: this far ahead is good,                             *)
  PerfectWindow,  (* 18: this far ahead is perfect.                          *)
  AutoLead,       (* 8: auto mode takes a note this many frames ahead.       *)
  FlashTime,      (* 30: frames a verdict is shown.                          *)
  HoldTime,       (* 7: frames auto mode shows a key pressed.                *)
  EndTime,        (* 5669: the timer stops.                                  *)
  DoneTime,       (* 5680: the time it then shows.                           *)
  ScoreWrap,      (* 2^20: score_now has 20 bits.                            *)
  LoadFrames      (* Frames the loading of the SD card takes at least.       *)

TapNote  == 0
HoldNote == 1
ReleaseNote == 2

(* What the charts satisfy: a track is padding at time 0, then notes in    *)
(* increasing order that leave a window before the first and end before    *)
(* the timer does, then markers that no time comes near.                   *)
ASSUME WindowAssumption ==
  /\ MissWindow \in Nat /\ GoodWindow \in Nat /\ PerfectWindow \in Nat
  /\ AutoLead \in Nat \ {0} /\ FlashTime \in Nat /\ HoldTime \in Nat
  /\ EndTime \in Nat \ {0} /\ DoneTime \in Nat
  /\ ScoreWrap \in Nat \ {0}
  /\ LoadFrames \in Nat \ {0, 1} /\ MaxAddr \in Nat
  /\ PerfectWindow < GoodWindow /\ GoodWindow < MissWindow
  /\ AutoLead < MissWindow
  /\ EndTime < DoneTime

ASSUME ChartAssumption ==
  /\ IsFiniteSet(Tracks)
  /\ KeySets \subseteq SUBSET Tracks
  /\ Chart \in [Tracks -> [0 .. MaxAddr -> [kind : {TapNote, HoldNote, ReleaseNote}, time : Nat]]]
  /\ First \in [Tracks -> 1 .. MaxAddr]
  /\ Last \in [Tracks -> 1 .. MaxAddr]
  /\ \A t \in Tracks :
       /\ First[t] < Last[t]
       /\ First[t] < LoadFrames
       /\ \A i \in 0 .. First[t] - 1 : Chart[t][i] = [kind |-> TapNote, time |-> 0]
       /\ Chart[t][First[t]].kind # ReleaseNote
       /\ \A i \in First[t] .. Last[t] - 1 :
            /\ MissWindow < Chart[t][i].time /\ Chart[t][i].time < EndTime
            /\ Chart[t][i].time < Chart[t][i + 1].time
            /\ Chart[t][i].kind = HoldNote => Chart[t][i + 1].kind = ReleaseNote
       /\ \A i \in Last[t] .. MaxAddr :
            Chart[t][i].kind = TapNote /\ DoneTime + MissWindow < Chart[t][i].time

VARIABLES
  phase,           (* How far the arbiter has brought the system up.        *)
  frames,          (* Frames since reset, as far as loading needs them.     *)
  keyboard_start,  (* keycode_machine's latch of the Enter key.             *)
  timer,           (* universal_timer.State.                                *)
  un_time,         (* The song time, in frames.                             *)
  auto,            (* The auto mode bit of the key_dfjk PIO.                *)
  DFJK,            (* The keys the judge and the drawing see.               *)
  DFJK_prestate,   (* DFJK_prestate[0] and DFJK_prestate[1].                *)
  hold_DFJK,       (* Auto mode's countdown of each pressed key.            *)
  addr,            (* d_addr, f_addr, j_addr and k_addr.                    *)
  precises,        (* The verdict on display.                               *)
  precise_flash_time,
  score_now,
  combo_now,
  streak,          (* History: perfects since the last miss or good,        *)
  perfects, goods, (* and the verdicts that score, since the reset.         *)
  untimely         (* History: auto mode was switched on at another time    *)
                   (* than between the end of the loading and the song.     *)

inputs  == <<auto, untimely, DFJK, DFJK_prestate, hold_DFJK>>
tally   == <<streak, perfects, goods>>
results == <<addr, precises, precise_flash_time, score_now, combo_now, tally>>
clocks  == <<phase, frames, keyboard_start, timer, un_time>>
vars    == <<inputs, results, clocks>>

None    == 0
Perfect == 1
Good    == 2
Miss    == 3

Phases == {"Bootup", "Loading", "Loaded", "StartScreen", "Playing"}

Smaller(a, b) == IF a < b THEN a ELSE b
-----------------------------------------------------------------------------
(* The verdict on each track's next note.                                  *)

Note(t) == Chart[t][addr[t]]

Changed(t) == (t \in DFJK_prestate[1]) # (t \in DFJK_prestate[2])

(* `key[13:0]-un_time > w' is an unsigned comparison: a note in the past   *)
(* is as far away as can be.                                               *)
Within(t, w) == un_time <= Note(t).time /\ Note(t).time <= un_time + w

ReleaseVerdict(t) ==
  IF Changed(t) THEN Perfect ELSE IF t \notin DFJK THEN Miss ELSE None

PressVerdict(t) ==
  IF ~Changed(t) \/ t \notin DFJK \/ ~Within(t, MissWindow) THEN None
  ELSE IF ~Within(t, GoodWindow) THEN Miss
  ELSE IF ~Within(t, PerfectWindow) THEN Good
  ELSE Perfect

(* Mutant: a note nobody answers is never missed.                           *)
ManualVerdictPatient(t) ==
  IF Note(t).kind = ReleaseNote THEN ReleaseVerdict(t) ELSE PressVerdict(t)

ManualVerdict(t) ==
  IF Note(t).time = un_time THEN Miss
  ELSE IF Note(t).kind = ReleaseNote THEN ReleaseVerdict(t)
  ELSE PressVerdict(t)

AutoVerdict(t) == IF Note(t).time = un_time + AutoLead THEN Perfect ELSE None

Verdict(t) == IF auto THEN AutoVerdict(t) ELSE ManualVerdict(t)

Judged(v) == {t \in Tracks : Verdict(t) = v}

(* `precise': the worst verdict of the frame.                              *)
Worst == IF Judged(Miss) # {} THEN Miss
         ELSE IF Judged(Good) # {} THEN Good
         ELSE IF Judged(Perfect) # {} THEN Perfect
         ELSE None

Score == 1907 * Cardinality(Judged(Perfect)) + 953 * Cardinality(Judged(Good))
Combo == IF Worst = Perfect THEN Cardinality(Judged(Perfect)) ELSE 0
-----------------------------------------------------------------------------
(* The register updates of one frame.                                      *)

(* Mutant: only bit 1 of the verdict moves the pointer.                     *)
NextAddrHalf ==
  addr' = [t \in Tracks |-> IF Verdict(t) \in {Good, Miss} THEN addr[t] + 1 ELSE addr[t]]

NextAddr ==
  addr' = [t \in Tracks |->
             IF Verdict(t) = None THEN addr[t] ELSE (addr[t] + 1) % (MaxAddr + 1)]

HoldCount(t) ==
  IF ~auto THEN 0
  ELSE IF (Verdict(t) = Perfect) # (Note(t).kind = ReleaseNote) THEN HoldTime
  ELSE IF Verdict(t) = Perfect THEN 0
  ELSE hold_DFJK[t]

NextKeys(keys) ==
  /\ DFJK_prestate' = <<keys, DFJK_prestate[1]>>
  /\ DFJK' = IF auto THEN {t \in Tracks : hold_DFJK[t] > 0} ELSE keys
  /\ hold_DFJK' = [t \in Tracks |-> IF HoldCount(t) > 0 THEN HoldCount(t) - 1 ELSE 0]
  /\ UNCHANGED <<auto, untimely>>

(* `un_time-precise_flash_time>30' is unsigned too.                        *)
FlashOver == un_time < precise_flash_time \/ precise_flash_time + FlashTime < un_time

NextFlash ==
  /\ precises' = IF Worst # None THEN Worst
                 ELSE IF FlashOver THEN None ELSE precises
  /\ precise_flash_time' = IF Worst # None \/ FlashOver THEN un_time
                           ELSE precise_flash_time

ComboWrapByte == 256  (* Mutant: an eight-bit combo.                         *)
ComboWrap == 1024

(* Mutant: only a miss breaks the combo.                                    *)
NextScoreLenient ==
  /\ combo_now' = IF precises = Miss THEN 0 ELSE (combo_now + Combo) % ComboWrap
  /\ score_now' = (score_now + Score) % ScoreWrap

(* Mutant: a score that is a bit narrower.                                  *)
NextScoreNarrow ==
  /\ combo_now' = IF precises \in {Good, Miss} THEN 0 ELSE (combo_now + Combo) % ComboWrap
  /\ score_now' = (score_now + Score) % (ScoreWrap \div 2)

(* Draw_score_combo's `precise' is the registered verdict, `precises'.     *)
NextScore ==
  /\ combo_now' = IF precises \in {Good, Miss} THEN 0 ELSE (combo_now + Combo) % ComboWrap
  /\ score_now' = (score_now + Score) % ScoreWrap

NextTally ==
  /\ streak' = IF Worst \in {Good, Miss} THEN 0 ELSE streak + Combo
  /\ perfects' = perfects + Cardinality(Judged(Perfect))
  /\ goods' = goods + Cardinality(Judged(Good))

(* new_frame is two clocks wide: the arbiter goes through the start screen  *)
(* in one frame when Enter was pressed before.                             *)
NextPhase ==
  phase' = IF phase = "Bootup" THEN "Loading"
           ELSE IF phase \in {"Loaded", "StartScreen"}
                THEN IF keyboard_start THEN "Playing" ELSE "StartScreen"
           ELSE phase

(* Mutant: the timer keeps the time while it runs.                          *)
NextTimePaused ==
  /\ un_time' = IF timer = "Halted" THEN 0 ELSE un_time
  /\ timer' = IF phase' = "Playing" THEN "run" ELSE "Halted"

NextTime ==
  \/ /\ timer = "Halted"
     /\ un_time' = 0
     /\ timer' = IF phase' = "Playing" THEN "run" ELSE "Halted"
  \/ /\ timer = "run"
     /\ un_time' = un_time + 1
     /\ timer' = IF un_time' = EndTime THEN "Done" ELSE "run"
  \/ /\ timer = "Done"
     /\ un_time' = DoneTime
     /\ UNCHANGED timer

(* posedge new_frame, with `keys' on the key_dfjk PIO.                     *)
Frame(keys) ==
  /\ NextAddr
  /\ NextKeys(keys)
  /\ NextFlash
  /\ NextScore
  /\ NextTally
  /\ NextPhase
  /\ NextTime
  /\ frames' = Smaller(frames + 1, LoadFrames)
  /\ UNCHANGED keyboard_start
-----------------------------------------------------------------------------
(* What happens between two frames.                                        *)

(* The SD card and the sprite memories are loaded: seconds after reset.    *)
LoadDone ==
  /\ phase = "Loading"
  /\ frames = LoadFrames
  /\ phase' = "Loaded"
  /\ UNCHANGED <<inputs, results, frames, keyboard_start, timer, un_time>>

PressEnter ==
  /\ ~keyboard_start
  /\ keyboard_start' = TRUE
  /\ UNCHANGED <<inputs, results, phase, frames, timer, un_time>>

(* The player types the word that unlocks auto mode; the software never    *)
(* clears the bit again.                                                   *)
UnlockAuto ==
  /\ ~auto
  /\ auto' = TRUE
  /\ untimely' = (untimely \/ timer # "Halted" \/ phase \notin {"Loaded", "StartScreen"})
  /\ UNCHANGED <<DFJK, DFJK_prestate, hold_DFJK, results, clocks>>

(* Mutant: the pointers have no reset.                                      *)
ResetKeepsAddr ==
  /\ score_now' = 0
  /\ combo_now' = 0
  /\ streak' = 0 /\ perfects' = 0 /\ goods' = 0
  /\ phase' = "Bootup"
  /\ frames' = 0
  /\ keyboard_start' = FALSE
  /\ timer' = "Halted"
  /\ auto' = FALSE
  /\ untimely' = FALSE
  /\ UNCHANGED <<addr, un_time, DFJK, DFJK_prestate, hold_DFJK, precises, precise_flash_time>>

(* KEY0.  The video counters stop while it is held, so no frame passes.    *)
(* The registers without a reset keep what they hold, un_time among them,  *)
(* until the next frame; the processor restarts with its PIOs cleared.     *)
Reset ==
  /\ addr' = [t \in Tracks |-> 0]
  /\ score_now' = 0
  /\ combo_now' = 0
  /\ streak' = 0 /\ perfects' = 0 /\ goods' = 0
  /\ phase' = "Bootup"
  /\ frames' = 0
  /\ keyboard_start' = FALSE
  /\ timer' = "Halted"
  /\ auto' = FALSE
  /\ untimely' = FALSE
  /\ UNCHANGED <<un_time, DFJK, DFJK_prestate, hold_DFJK, precises, precise_flash_time>>

Init ==
  /\ phase = "Bootup"
  /\ frames = 0
  /\ keyboard_start = FALSE
  /\ timer = "Halted"
  /\ un_time = 0
  /\ auto = FALSE
  /\ untimely = FALSE
  /\ DFJK = {}
  /\ DFJK_prestate = <<{}, {}>>
  /\ hold_DFJK = [t \in Tracks |-> 0]
  /\ addr = [t \in Tracks |-> 0]
  /\ precises = None
  /\ precise_flash_time = 0
  /\ score_now = 0
  /\ combo_now = 0
  /\ streak = 0 /\ perfects = 0 /\ goods = 0

Next ==
  \/ \E keys \in KeySets : Frame(keys)
  \/ LoadDone
  \/ PressEnter
  \/ UnlockAuto
  \/ Reset

Spec == Init /\ [][Next]_vars

-----------------------------------------------------------------------------
(* Properties.                                                             *)

(* Every register holds a value of its width and use.                      *)
TypeOK ==
  /\ phase \in Phases
  /\ frames \in 0 .. LoadFrames
  /\ keyboard_start \in BOOLEAN
  /\ timer \in {"Halted", "run", "Done"}
  /\ un_time \in 0 .. DoneTime
  /\ auto \in BOOLEAN
  /\ untimely \in BOOLEAN
  /\ DFJK \subseteq Tracks
  /\ DFJK_prestate \in (SUBSET Tracks) \X (SUBSET Tracks)
  /\ hold_DFJK \in [Tracks -> 0 .. HoldTime]
  /\ addr \in [Tracks -> 0 .. MaxAddr]
  /\ precises \in {None, Perfect, Good, Miss}
  /\ precise_flash_time \in 0 .. DoneTime
  /\ score_now \in 0 .. ScoreWrap - 1
  /\ combo_now \in 0 .. ComboWrap - 1
  /\ streak \in Nat /\ perfects \in Nat /\ goods \in Nat

(* A pointer never leaves the listed notes: it stops at the first of the   *)
(* end markers, so the three notes of look-ahead are inside `mem' and the  *)
(* markers are never judged, with any keys, in auto mode and across resets.*)
PointerInChart == \A t \in Tracks : addr[t] <= Last[t]

(* While the song runs no pointer waits at a note whose time has passed,   *)
(* where it would wait for ever: the manual mode compares for equality and *)
(* auto mode for equality AutoLead ahead.  Only auto mode switched on at   *)
(* the wrong time does that.                                               *)
NoNotePassed ==
  timer # "Halted" /\ ~untimely => \A t \in Tracks : un_time <= Note(t).time

(* The padding is consumed before the song can start and no listed note is *)
(* judged before it: a song starts at the first note of each track, also   *)
(* after a reset in the middle of another.                                 *)
SongStartsAtFirst ==
  timer = "run" /\ un_time = 0 /\ ~untimely => /\ addr = First
                                  /\ score_now = 0

(* When the timer ends the song every listed note has had its verdict.     *)
AllJudgedAtEnd == timer = "Done" /\ ~untimely => addr = Last

(* The combo on display counts no perfect from before the last miss or     *)
(* good, but for the one frame the registered verdict lags.                *)
ComboHonest == precises \notin {Good, Miss} => combo_now <= streak

(* What the charts leave room for: the score of all notes fits into its    *)
(* register.                                                               *)
ListedNotes == {p \in Tracks \X (0 .. MaxAddr) : First[p[1]] <= p[2] /\ p[2] < Last[p[1]]}

ASSUME ScoreAssumption == 1907 * Cardinality(ListedNotes) < ScoreWrap /\ ScoreWrap <= 1048576

(* The score is what the verdicts since the reset are worth, so that the   *)
(* register has not wrapped (Draw_score_and_combo.sv:74, 97), and those    *)
(* are verdicts on different listed notes behind the pointers: no note     *)
(* scores twice and the padding scores nothing.                            *)
NotesJudged == MapThenSumSet(LAMBDA t : IF addr[t] < First[t] THEN 0 ELSE addr[t] - First[t],
                             Tracks)
ScoreEarned ==
  /\ score_now = 1907 * perfects + 953 * goods
  /\ perfects + goods <= NotesJudged

(* What auto mode needs of a chart to count every note: the verdict of the *)
(* padding is off the display before the first note is taken.              *)
ASSUME AutoAssumption ==
  \A t \in Tracks : FlashTime + AutoLead + 1 < Chart[t][First[t]].time

(* Auto mode, switched on before the song, plays it perfectly: at the end  *)
(* the score and the combo count every listed note.                        *)
AutoPlaysPerfectly ==
  timer = "Done" /\ auto /\ ~untimely =>
    /\ score_now = 1907 * NotesJudged
    /\ combo_now = NotesJudged

(* A song that has started ends, or the reset button is pressed.           *)
SongEnds ==
  (phase = "StartScreen" /\ keyboard_start) ~> (timer = "Done" \/ phase = "Bootup")

=============================================================================
