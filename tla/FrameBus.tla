------------------------------ MODULE FrameBus ------------------------------
(***************************************************************************)
(* The SDRAM and those that share it: arbiter_sdram grants it, by the      *)
(* position of the VGA beam, to the line buffer (lineb), the three drawers *)
(* (module Drawers), the audio prefetch of I2S and, at start, the loaders  *)
(* sdcard_init and mem_init.                                               *)
(*                                                                         *)
(* A step is one cycle of the 50 MHz clock, on which all these machines    *)
(* run in lock step; a pixel is two of them.  The registers clocked by     *)
(* `posedge new_frame' change in the step that raises new_frame.           *)
(***************************************************************************)
EXTENDS Drawers, FiniteSets

CONSTANTS
  XPause,      (* 760: the pixel at which lineb leaves its pause.            *)
  XDrain,      (* 765: the pixel at which the drawers are asked to stop.     *)
  XLast,       (* 799: the last pixel of a row.                              *)
  YShown,      (* 479: the last row shown.                                   *)
  YNew,        (* 523: the row in which new_frame is raised.                 *)
  YLast,       (* 524: the last row.                                         *)
  LbLast,      (* 39: the last word of a row.                                *)
  SplashEnd,   (* 60: frames of start screen after the start.                *)
  InitWords,   (* 200: the audio words, less one, of the first fill.         *)
  FillWords,   (* The audio words, less one, a later fill may need.          *)
  SdWords,     (* Words read from the SD card.                               *)
  MemLast,     (* Last word copied to the on-chip memories.                  *)
  MaxLatency   (* Clocks from a request to its acknowledge, at most.         *)

(* The beam passes the arbiter's pixels in this order, and new_frame is    *)
(* over before the drawers are asked to stop.                              *)
ASSUME RasterAssumption ==
  /\ XPause \in Nat \ {0} /\ XDrain \in Nat /\ XLast \in Nat
  /\ XPause + 2 <= XDrain /\ XDrain < XLast
  /\ YShown \in Nat /\ YNew \in Nat /\ YLast = YNew + 1 /\ YShown < YNew
  /\ LbLast \in Nat /\ SplashEnd \in Nat \ {0}
  /\ InitWords \in Nat /\ FillWords \subseteq Nat /\ FillWords # {}
  /\ SdWords \in Nat /\ MemLast \in Nat /\ MaxLatency \in Nat \ {0}

(* How long things take at most, in clocks: a word of a row or of the      *)
(* audio, with its request; a row's words; the layers of a frame; a fill.  *)
(* Every row leaves at least RowService clocks to the drawers, from the    *)
(* end of its fetch to the drain.                                          *)
WordTime   == MaxLatency + 2
FetchTime  == (LbLast + 1) * WordTime
RowService == 2 * XDrain - FetchTime - 2
BkTime     == (BkLast + 1) * (2 * WordTime) + 1
SpriteTime == (SpriteLast + 1) * (WordTime + 2)
BodyTime   == (BodyLast + 1) * (WordTime + 2)
DsTime     == (NoteLast + 1) * (BodyTime + SpriteTime + 2) + 1
DigitTime  == (DigitLast + 1) * (WordTime + 2)
DnTime     == (ScoreDigits + ComboDigits + 3) * (DigitTime + 1) + 2
FillTime   == (InitWords + 1) * WordTime + 3

(* The rows at the end of a frame that are enough for a fill, and leave    *)
(* the rows before them for the layers, each of which may lose the rest of *)
(* the row in which it ends.                                               *)
FillRows ==
  {a \in 0 .. YNew :
     /\ FillTime <= a * (2 * XLast + 2) /\ YShown + a < YNew
     /\ BkTime + DsTime + DnTime + (a + 3) * RowService <= (YNew + 1) * RowService}

(* The SDRAM is fast enough: a row is fetched before XPause, a drawer asked *)
(* to stop does so before the row ends, and a frame's work fits into it.   *)
ASSUME TimingAssumption ==
  /\ FetchTime <= 2 * XPause
  /\ 2 * XDrain + 2 * MaxLatency + 2 * NoteLast + 8 <= 2 * XLast
  /\ \A n \in FillWords : n <= InitWords
  /\ FillRows # {}

VARIABLES
  hc, vc,             (* The clock within the row and the row.              *)
  State,              (* The arbiter's state.                               *)
  keyboard_start,     (* The latched Enter key.                             *)
  stop_sign,          (* The song is over.                                  *)
  Startscreen_index,
  frame_flip,
  lb,                 (* lineb: State, the word WriteX/16, the word read.   *)
  line_buf,           (* The two halves of line_buffer.                     *)
  au,                 (* The writer of I2S: State, addr_max - sdram_addr.   *)
  sd,                 (* sdcard_init: State, the words left.                *)
  mem,                (* mem_init: State, the word.                         *)
  bus                 (* The SDRAM's request: whose, its age, acknowledge.  *)

beam    == <<hc, vc, keyboard_start, stop_sign, Startscreen_index, frame_flip>>
clients == <<lb, line_buf, au, sd, mem>>
vars    == <<beam, State, bus, clients, drawers>>

DrawX == hc \div 2
DrawY == vc

(* new_frame is high while the pixel after XPause of row YNew is drawn.    *)
NewFrame     == DrawY = YNew /\ DrawX = XPause + 1
NewFrameEdge == DrawY = YNew /\ hc = 2 * XPause + 1

(* start_sign tells that the arbiter has left the start screen.            *)
BootStates == {"Bootup", "Init_sdram", "Init_sdram_done", "Init_memory",
               "Init_memory_done", "Line_buffer_startscreen"}
start_sign == State \notin BootStates

(* The buffer shown and a picture that is in neither buffer.               *)
Front  == 1 - frame_flip
Splash == 2
Source == IF Startscreen_index = SplashEnd THEN Front ELSE Splash

None == "none"
Clients == {"sd", "mem", "lb", "bk", "ds", "dn", "au"}

(* The arbiter's states that lower a client's wait, and those that connect *)
(* its request and its acknowledge.                                        *)
Serves == [sd |-> {"Init_sdram"}, mem |-> {"Init_memory"},
           lb |-> {"Line_buffer", "Line_buffer_startscreen"},
           bk |-> {"Background"}, ds |-> {"Score"}, dn |-> {"Note"}, au |-> {"PCM"}]

Connects == [sd |-> {"Bootup", "Init_sdram"}, mem |-> {"Init_sdram_done", "Init_memory"},
             lb |-> Serves["lb"],
             bk |-> {"Background", "Line_buffer_pre_bk"}, ds |-> {"Score", "Line_buffer_pre_sp"},
             dn |-> {"Note", "Line_buffer_pre_nt"}, au |-> Serves["au"]]

Wait(c) == State \notin Serves[c]
Ac(c)   == bus.ac /\ State \in Connects[c]

Requests(c) ==
  \/ c = "sd" /\ sd.st = "WRITE"
  \/ c = "mem" /\ mem.st = "Read"
  \/ c = "lb" /\ lb.st = "Read"
  \/ c = "bk" /\ BkRequest
  \/ c = "ds" /\ DsRequest
  \/ c = "dn" /\ DnRequest
  \/ c = "au" /\ au.st \in {"Init_data", "Fill"}

Blank == [row |-> YLast, src |-> Splash]

Init ==
  /\ hc = 0 /\ vc = 0 /\ State = "Bootup"
  /\ keyboard_start = FALSE /\ stop_sign = FALSE
  /\ Startscreen_index = 0 /\ frame_flip \in 0 .. 1
  /\ lb = [st |-> "Halted", x |-> 0, data |-> Blank]
  /\ line_buf = [h \in 0 .. 1 |-> [k \in 0 .. LbLast |-> Blank]]
  /\ au = [st |-> "Halted", left |-> 0]
  /\ sd = [st |-> "READ", left |-> SdWords]
  /\ mem = [st |-> "Halted", addr |-> 0]
  /\ bus = [owner |-> None, age |-> 0, ac |-> FALSE]
  /\ DrawersInit
-----------------------------------------------------------------------------
(* The arbiter.                                                            *)

Go(from, cond, to) == State = from /\ State' = IF cond THEN to ELSE from

Bring_up ==
  \/ Go("Bootup", NewFrame, "Init_sdram")
  \/ Go("Init_sdram", sd.st = "DONE", "Init_sdram_done")
  \/ Go("Init_sdram_done", TRUE, "Init_memory")
  \/ Go("Init_memory", mem.st = "Done", "Init_memory_done")
  \/ Go("Init_memory_done", NewFrame, "Line_buffer_startscreen")
  \/ Go("Line_buffer_startscreen", NewFrame /\ keyboard_start, "Line_buffer_pre_bk")

LbBusy == lb.st \in {"Halted", "Read", "Read1", "Pause1"}

(* Mutant: the digits do not wait for the notes.                           *)
NextLayerEarly(otherwise) ==
  IF bk.st # "Done" THEN "Background"
  ELSE IF dn.st # "Done" THEN "Note"
  ELSE otherwise

(* The first layer not yet drawn.                                          *)
NextLayer(otherwise) ==
  IF bk.st # "Done" THEN "Background"
  ELSE IF ds.st # "Done" THEN "Score"
  ELSE IF dn.st # "Done" THEN "Note"
  ELSE otherwise

Line_buffer_turn ==
  \/ Go("Line_buffer", lb.st = "Done" \/ ~LbBusy,
        IF lb.st = "Done" THEN "Line_buffer_done" ELSE "Line_buffer_mid")
  \/ Go("Line_buffer_done", TRUE, NextLayer(IF stop_sign THEN "Halted" ELSE "PCM"))
  \/ Go("Line_buffer_mid", TRUE,
        NextLayer(IF DrawX = XDrain THEN "Line_buffer_pre_bk" ELSE "Line_buffer_mid"))

(* Mutant: the line buffer takes over at once.                             *)
DrainHasty ==
  \/ Go("Background", DrawX = XDrain, "Line_buffer")
  \/ Go("Score", DrawX = XDrain, "Line_buffer_pre_sp")
  \/ Go("Note", DrawX = XDrain, "Line_buffer_pre_nt")
  \/ \E s \in {"Line_buffer_pre_bk", "Line_buffer_pre_sp", "Line_buffer_pre_nt"} :
       Go(s, DrawX = XLast, "Line_buffer")

Drain ==
  \/ Go("Background", DrawX = XDrain, "Line_buffer_pre_bk")
  \/ Go("Score", DrawX = XDrain, "Line_buffer_pre_sp")
  \/ Go("Note", DrawX = XDrain, "Line_buffer_pre_nt")
  \/ \E s \in {"Line_buffer_pre_bk", "Line_buffer_pre_sp", "Line_buffer_pre_nt"} :
       Go(s, DrawX = XLast, "Line_buffer")

AuDone ==
  \/ au.st \in {"Play", "Stoped"}
  \/ au.st \in {"Init_data2", "Fill2"} /\ au.left = 0

(* Mutant: the arbiter does not wait for the fill.                         *)
AudioImpatient ==
  \/ Go("PCM", au.st \notin {"Halted", "Play2"}, "PCM_done")
  \/ Go("PCM_done", TRUE, "Halted")
  \/ Go("Halted", NewFrame, "Line_buffer_pre_bk")

Audio ==
  \/ Go("PCM", AuDone, "PCM_done")
  \/ Go("PCM_done", TRUE, "Halted")
  \/ Go("Halted", NewFrame, "Line_buffer_pre_bk")

Arbiter == Bring_up \/ Line_buffer_turn \/ Drain \/ Audio
-----------------------------------------------------------------------------
(* lineb reads row DrawY + 1 into the half of line_buffer not shown.       *)

WriteY == IF DrawY = YLast THEN 0 ELSE DrawY + 1

(* place_b[6] = ~WriteY[0]; the half shown is place_a[6] = WriteY[0].      *)
WriteHalf(row) == 1 - (row % 2)

LbHalted ==
  /\ lb.st = "Halted"
  /\ lb' = [lb EXCEPT !.st = IF Wait("lb") THEN @ ELSE "Read", !.x = 0]
  /\ UNCHANGED line_buf

(* The word read is that of the row and the picture at the acknowledge.    *)
LbRead ==
  /\ lb.st = "Read"
  /\ lb' = IF Ac("lb") THEN [lb EXCEPT !.st = "Read1", !.data = [row |-> WriteY, src |-> Source]]
           ELSE lb
  /\ UNCHANGED line_buf

(* Mutant: the row is taken to be complete one word early.                 *)
LbRead1Short ==
  /\ lb.st = "Read1"
  /\ lb' = [lb EXCEPT !.st = IF lb.x >= LbLast - 1 THEN "Pause" ELSE "Read", !.x = @ + 1]
  /\ line_buf' = [line_buf EXCEPT ![WriteHalf(WriteY)][lb.x] = lb.data]

LbRead1 ==
  /\ lb.st = "Read1"
  /\ lb' = [lb EXCEPT !.st = IF lb.x = LbLast THEN "Pause" ELSE "Read", !.x = @ + 1]
  /\ line_buf' = [line_buf EXCEPT ![WriteHalf(WriteY)][lb.x] = lb.data]

LbPause ==
  /\ lb.st = "Pause"
  /\ lb' = [lb EXCEPT !.x = 0, !.st = IF DrawY = YShown THEN "Done"
                                      ELSE IF DrawX = XPause THEN "Pause1" ELSE @]
  /\ UNCHANGED line_buf

LbPause1 ==
  /\ lb.st = "Pause1"
  /\ lb' = [lb EXCEPT !.x = 0, !.st = IF DrawX = 0 THEN "Read" ELSE @]
  /\ UNCHANGED line_buf

LbDone ==
  /\ lb.st = "Done"
  /\ lb' = [lb EXCEPT !.st = IF NewFrame THEN "Halted" ELSE @]
  /\ UNCHANGED line_buf

LineBuffer == LbHalted \/ LbRead \/ LbRead1 \/ LbPause \/ LbPause1 \/ LbDone
-----------------------------------------------------------------------------
(* The writer of I2S prefetches audio once a frame.                        *)

AuHalted ==
  /\ au.st = "Halted"
  /\ au' = IF Wait("au") THEN au ELSE [st |-> "Init_data", left |-> InitWords]

AuRequest ==
  /\ au.st \in {"Init_data", "Fill"}
  /\ au' = [au EXCEPT !.st = IF ~Ac("au") THEN @
                             ELSE IF @ = "Fill" THEN "Fill2" ELSE "Init_data2"]

AuWord ==
  /\ au.st \in {"Init_data2", "Fill2"}
  /\ au' = IF au.left = 0 THEN [au EXCEPT !.st = "Play"]
           ELSE [st |-> IF au.st = "Fill2" THEN "Fill" ELSE "Init_data", left |-> au.left - 1]

AuPlay == au.st = "Play" /\ au' = [au EXCEPT !.st = IF NewFrame THEN "Play2" ELSE @]

(* Mutant: the stop is looked at only when the SDRAM is granted.           *)
AuPlay2Waiting ==
  /\ au.st = "Play2"
  /\ IF Wait("au") THEN au' = au
     ELSE IF stop_sign THEN au' = [au EXCEPT !.st = "Stoped"]
     ELSE \E n \in FillWords : au' = [st |-> "Fill", left |-> n]

AuPlay2 ==
  /\ au.st = "Play2"
  /\ IF stop_sign THEN au' = [au EXCEPT !.st = "Stoped"]
     ELSE IF Wait("au") THEN au' = au
     ELSE \E n \in FillWords : au' = [st |-> "Fill", left |-> n]

AuStoped == au.st = "Stoped" /\ au' = au

AudioWriter == AuHalted \/ AuRequest \/ AuWord \/ AuPlay \/ AuPlay2 \/ AuStoped
-----------------------------------------------------------------------------
(* The loaders, and the SDRAM behind them all.                             *)

SdRead ==
  /\ sd.st = "READ"
  /\ sd' \in {sd, [sd EXCEPT !.st = IF sd.left = 0 THEN "DONE" ELSE "WRITE"]}

SdWrite ==
  /\ sd.st = "WRITE"
  /\ sd' = IF Ac("sd") THEN [st |-> "READ", left |-> sd.left - 1] ELSE sd

SdCard == SdRead \/ SdWrite \/ (sd.st = "DONE" /\ sd' = sd)

MemMove(s) == mem' = [mem EXCEPT !.st = s]

MemInit ==
  \/ mem.st = "Halted" /\ MemMove(IF Wait("mem") THEN "Halted" ELSE "Read")
  \/ mem.st = "Read" /\ MemMove(IF Ac("mem") THEN "Read1" ELSE "Read")
  \/ mem.st = "Read1" /\ MemMove("Write1")
  \/ mem.st = "Write1" /\ mem' = IF mem.addr = MemLast THEN [st |-> "Done", addr |-> 0]
                                 ELSE [st |-> "Read", addr |-> mem.addr + 1]
  \/ mem.st = "Done" /\ mem' = mem

Requester == {c \in Clients : State \in Connects[c] /\ Requests(c)}

(* The SDRAM answers the request it sees, at most MaxLatency clocks later. *)
Sdram ==
  IF bus.ac THEN bus' = [owner |-> None, age |-> 0, ac |-> FALSE]
  ELSE IF bus.age = 0 /\ Requester = {} THEN bus' = bus
  ELSE \E a \in BOOLEAN :
         /\ bus.age + 1 = MaxLatency => a
         /\ bus' = [owner |-> IF bus.age = 0 THEN CHOOSE c \in Requester : TRUE ELSE bus.owner,
                    age |-> bus.age + 1, ac |-> a]
-----------------------------------------------------------------------------
(* The beam, the registers of `posedge new_frame' and the inputs.          *)

Beam ==
  IF hc < 2 * XLast + 1 THEN hc' = hc + 1 /\ vc' = vc
  ELSE hc' = 0 /\ vc' = IF vc = YLast THEN 0 ELSE vc + 1

Frame ==
  IF NewFrameEdge
  THEN /\ frame_flip' = 1 - frame_flip
       /\ Startscreen_index' = IF start_sign /\ Startscreen_index # SplashEnd
                               THEN Startscreen_index + 1 ELSE Startscreen_index
       /\ shown' \in SUBSET {"combo", "precise"}
  ELSE UNCHANGED <<frame_flip, Startscreen_index, shown>>

(* Enter is pressed at any time; the song outlasts the start screen and    *)
(* universal_timer stops just after a new frame.                           *)
Inputs ==
  /\ keyboard_start' \in {keyboard_start, TRUE}
  /\ stop_sign' \in {stop_sign, stop_sign \/ (NewFrame /\ Startscreen_index = SplashEnd)}

Drawing ==
  /\ BkStep(Wait("bk"), Ac("bk"), frame_flip, NewFrame)
  /\ DsStep(Wait("ds"), Ac("ds"), frame_flip, NewFrame)
  /\ DnStep(Wait("dn"), Ac("dn"), frame_flip, NewFrame)

Tick ==
  /\ Beam /\ Frame /\ Inputs
  /\ Arbiter /\ LineBuffer /\ Drawing /\ AudioWriter /\ SdCard /\ MemInit
  /\ Sdram

Next == Tick

Spec == Init /\ [][Next]_vars

(* The clock runs.                                                         *)
FairSpec == Spec /\ WF_vars(Next)
-----------------------------------------------------------------------------
ArbiterStates ==
  BootStates \cup
  {"Line_buffer_pre_bk", "Line_buffer_pre_sp", "Line_buffer_pre_nt", "Line_buffer",
   "Line_buffer_mid", "Line_buffer_done", "Background", "Score", "Note", "PCM", "PCM_done",
   "Halted"}

Words == [row : 0 .. YLast, src : 0 .. 2]

(* Every register keeps to its range; in particular no machine draws past  *)
(* the end of its piece (w would reach last + 2) or of its row.            *)
TypeOK ==
  /\ hc \in 0 .. 2 * XLast + 1 /\ vc \in 0 .. YLast
  /\ State \in ArbiterStates
  /\ keyboard_start \in BOOLEAN /\ stop_sign \in BOOLEAN
  /\ Startscreen_index \in 0 .. SplashEnd /\ frame_flip \in 0 .. 1
  /\ lb \in [st : {"Halted", "Read", "Read1", "Pause", "Pause1", "Done"},
             x : 0 .. LbLast + 1, data : Words]
  /\ line_buf \in [0 .. 1 -> [0 .. LbLast -> Words]]
  /\ au \in [st : {"Halted", "Init_data", "Init_data2", "Play", "Play2", "Fill", "Fill2", "Stoped"},
             left : Nat]
  /\ sd \in [st : {"READ", "WRITE", "DONE"}, left : 0 .. SdWords]
  /\ mem \in [st : {"Halted", "Read", "Read1", "Write1", "Done"}, addr : 0 .. MemLast]
  /\ bus \in [owner : Clients \cup {None}, age : 0 .. MaxLatency, ac : BOOLEAN]
  /\ DrawersTypeOK

(* A request the SDRAM has begun stays connected, and held by its client,  *)
(* until its acknowledge, which therefore reaches nobody else: the arbiter *)
(* changes hands only after the drain (arbiter.sv:147-187).                *)
BusHeld ==
  bus.age > 0 => State \in Connects[bus.owner] /\ Requests(bus.owner)

(* While a row is shown every word of it is in the half shown, read from   *)
(* the buffer shown, from the pixel before its first one on.               *)
ShownRow == IF DrawX = XLast THEN WriteY ELSE DrawY

LineReady ==
  Startscreen_index = SplashEnd /\ ShownRow <= YShown =>
    \A k \in 0 .. LbLast :
      line_buf[WriteHalf(ShownRow)][k] = [row |-> ShownRow, src |-> Front]

(* A drawer writes only into the buffer that is not shown, and over        *)
(* complete layers.                                                        *)
WritesBehindTheScreen ==
  /\ bk.st = "Write" => bk.base # Front
  /\ DsRequest => ds.base # Front /\ bk.st = "Done"
  /\ DnRequest => dn.base # Front /\ bk.st = "Done" /\ ds.st = "Done"

(* The fill of the audio buffer begun in a frame ends before the next: the *)
(* writer of I2S is never between two words when new_frame comes.          *)
AudioFedEachFrame ==
  NewFrameEdge => au.st \in {"Halted", "Play", "Play2", "Stoped"}
                  /\ (start_sign /\ ~stop_sign => State = "Halted")

(* The frames are those of a double buffer.  new_frame swaps the buffers   *)
(* one clock before it takes the drawers out of Done.                      *)
Drawn ==
  IF NewFrame THEN {}
  ELSE {l \in 1 .. 3 : (l = 1 /\ bk.st = "Done") \/ (l = 2 /\ ds.st = "Done")
                       \/ (l = 3 /\ dn.st = "Done")}

Abstract == INSTANCE DoubleBuffer
              WITH LayerCount <- 3, front <- Front, started <- start_sign, drawn <- Drawn

DoubleBuffered == Abstract!Spec

(* Once started, frames are completed forever (to the end of the song and  *)
(* after it), and at the end of the song the audio stops.                  *)
FramesGoOn == start_sign ~> []<>(Drawn = 1 .. 3 /\ State = "Halted")

AudioStops == stop_sign ~> [](au.st = "Stoped")
=============================================================================
