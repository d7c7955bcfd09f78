--------------------------- MODULE FrameBusProofs ---------------------------
(***************************************************************************)
(* The frame pipeline for every size of screen and every latency that      *)
(* TimingAssumption allows: the SDRAM's answers reach who asked, a row is  *)
(* whole when it is shown, drawing is done behind the screen, audio is     *)
(* fed in each frame, and the buffers are swapped with all layers drawn.   *)
(*                                                                         *)
(* All of it rests on time.  Each machine has a bound on the clocks it     *)
(* still needs; the invariant says that this much is left: to a fetch      *)
(* until XPause, to an asked drawer until the row's end, to the layers     *)
(* until the rows kept for the audio, to a fill until row YNew.            *)
(***************************************************************************)
EXTENDS FrameBus, TLAPS

Row == 2 * XLast + 2
Drained == 2 * XDrain          (* The last clock that serves a drawer.      *)
FirstServed == FetchTime + 3   (* The clock by which every row does.        *)

Start5 == {"Bootup", "Init_sdram", "Init_sdram_done", "Init_memory", "Init_memory_done"}
Layer == {"Background", "Score", "Note"}
Pre == {"Line_buffer_pre_bk", "Line_buffer_pre_sp", "Line_buffer_pre_nt"}

Complete == bk.st = "Done" /\ ds.st = "Done" /\ dn.st = "Done"

(* How long the SDRAM has had a client's request.                          *)
Seen(c) == IF bus.owner = c THEN bus.age ELSE 0
-----------------------------------------------------------------------------
(* Products are hidden behind operators; the lemmas below say all that the *)
(* proofs need of them.                                                    *)

LbWords(x) == (LbLast - x) * WordTime
BkWords(w) == (BkLast - w) * (2 * WordTime)
DsWords(w) == (SpriteLast - w) * (WordTime + 2)
DlWords(w) == (BodyLast - w) * (WordTime + 2)
DnWords(w) == (DigitLast - w) * (WordTime + 2)
AuWords(n) == n * WordTime
NotesTime(k) == k * (BodyTime + SpriteTime + 2)
PiecesTime(k) == k * (DigitTime + 1)
RowsTime(k) == k * RowService
Position(r) == r * Row

(* The clocks until lineb pauses.                                          *)
LbLeft ==
  IF lb.st = "Read" THEN LbWords(lb.x) + WordTime - Seen("lb")
  ELSE IF lb.st = "Read1" THEN LbWords(lb.x) + 1 ELSE 0

(* The clocks until a drawer that is not served keeps still.               *)
BkDrain ==
  IF bk.st \in {"Read", "Write"} THEN MaxLatency + 2 - Seen("bk")
  ELSE IF bk.st \in {"Read1", "Write1"} THEN 1 ELSE 0

(* A sprite of one word to go is followed by the notes not on screen.      *)
NextDrain    == 2 * (NoteLast - ds.note) + MaxLatency + 4
NoteEnd(w)   == IF w >= SpriteLast THEN 1 + NextDrain ELSE 1
BodyEnd(w)   == IF w >= 1 THEN 2 + NextDrain ELSE 1

DsDrain ==
  CASE ds.st = "Read"       -> MaxLatency + 3 + NoteEnd(ds.w)
    [] ds.st = "Read1"      -> MaxLatency + 2 + NoteEnd(ds.w)
    [] ds.st = "Write"      -> MaxLatency + 1 - Seen("ds") + NoteEnd(ds.w)
    [] ds.st = "Write1"     -> NoteEnd(ds.w)
    [] ds.st = "Readlong"   -> MaxLatency + 3
    [] ds.st = "Writelong"  -> MaxLatency + 1 - Seen("ds") + BodyEnd(ds.w)
    [] ds.st = "Writelong1" -> BodyEnd(ds.w)
    [] ds.st = "To_next"    -> NextDrain
    [] ds.st \in {"Examine", "Examinelong"} -> 1 + NextDrain
    [] OTHER -> 0

DnDrain ==
  CASE dn.st = "Read"    -> MaxLatency + 6
    [] dn.st = "Read1"   -> MaxLatency + 5
    [] dn.st = "Write"   -> MaxLatency + 4 - Seen("dn")
    [] dn.st = "Write1"  -> 3
    [] dn.st = "To_next" -> 2
    [] dn.st \in {"S2C", "C2P"} -> 1
    [] OTHER -> 0

DrainTime == 2 * MaxLatency + 2 * NoteLast + 8

(* The clocks for which a drawer must be served until its layer is drawn.  *)
BkLeft ==
  CASE bk.st = "Halted" -> BkTime
    [] bk.st = "Read"   -> BkWords(bk.w) + 2 * WordTime - Seen("bk")
    [] bk.st = "Read1"  -> BkWords(bk.w) + WordTime + 1
    [] bk.st = "Write"  -> BkWords(bk.w) + WordTime - Seen("bk")
    [] bk.st = "Write1" -> BkWords(bk.w) + 1
    [] bk.st = "Pause"  -> BkWords(bk.w) + (IF bk.pre = 0 THEN WordTime ELSE 2 * WordTime) + 1
    [] OTHER -> 0

(* From To_next on, and from Examine on.                                   *)
NotesLeft   == NotesTime(NoteLast - ds.note) + 1
ExamineLeft == SpriteTime + 1 + NotesLeft

DsLeft ==
  CASE ds.st = "Halted"      -> DsTime
    [] ds.st = "Examinelong" -> BodyTime + ExamineLeft
    [] ds.st = "Readlong"    -> DlWords(0) + WordTime + 1 + ExamineLeft
    [] ds.st = "Writelong"   -> DlWords(ds.w) + WordTime - Seen("ds") + ExamineLeft
    [] ds.st = "Writelong1"  -> DlWords(ds.w) + 1 + ExamineLeft
    [] ds.st = "Pauselong"   -> DlWords(ds.w) + WordTime + 1 + ExamineLeft
    [] ds.st = "Examine"     -> ExamineLeft
    [] ds.st = "Read"        -> DsWords(ds.w) + WordTime + 2 + NotesLeft
    [] ds.st = "Read1"       -> DsWords(ds.w) + WordTime + 1 + NotesLeft
    [] ds.st = "Write"       -> DsWords(ds.w) + WordTime - Seen("ds") + NotesLeft
    [] ds.st = "Write1"      -> DsWords(ds.w) + 1 + NotesLeft
    [] ds.st = "Pause"       -> DsWords(ds.w) + WordTime + 3 + NotesLeft
    [] ds.st = "To_next"     -> NotesLeft
    [] OTHER -> 0

(* From the end of a piece on.                                             *)
PiecesLeft ==
  CASE dn.part = "s" -> PiecesTime(ScoreDigits - dn.i + ComboDigits + 2) + 2
    [] dn.part = "c" -> PiecesTime(ComboDigits - dn.i + 1) + 1
    [] OTHER -> 0

DnLeft ==
  CASE dn.st = "Halted"  -> DnTime
    [] dn.st = "Read"    -> DnWords(dn.w) + WordTime + 2 + PiecesLeft
    [] dn.st = "Read1"   -> DnWords(dn.w) + WordTime + 1 + PiecesLeft
    [] dn.st = "Write"   -> DnWords(dn.w) + WordTime - Seen("dn") + PiecesLeft
    [] dn.st = "Write1"  -> DnWords(dn.w) + 1 + PiecesLeft
    [] dn.st = "Pause"   -> DnWords(dn.w) + WordTime + 3 + PiecesLeft
    [] dn.st = "To_next" -> PiecesLeft
    [] dn.st = "S2C"     -> PiecesTime(ComboDigits + 2) + 1
    [] dn.st = "C2P"     -> PiecesTime(1)
    [] OTHER -> 0

(* The clocks until a fill that is served ends.                            *)
AuLeft ==
  CASE au.st \in {"Halted", "Play2"}       -> AuWords(InitWords) + WordTime + 1
    [] au.st \in {"Init_data", "Fill"}     -> AuWords(au.left) + WordTime - Seen("au")
    [] au.st \in {"Init_data2", "Fill2"}   -> AuWords(au.left) + 1
    [] OTHER -> 1
-----------------------------------------------------------------------------
(* The clocks left to the layers: in the current row and in those after it *)
(* before row YNew.                                                        *)

Fill == CHOOSE a \in FillRows : TRUE

RowLeft ==
  IF vc = YNew \/ hc > Drained THEN 0
  ELSE IF hc < FirstServed THEN RowService ELSE Drained + 1 - hc

RowsAfter(r) == IF r = YNew THEN YNew + 1 ELSE IF r = YLast THEN YNew ELSE YNew - 1 - r

(* A layer that ends in a row may lose the rest of it.                     *)
LayersLeft ==
  (IF bk.st = "Done" THEN 0 ELSE RowService) + (IF ds.st = "Done" THEN 0 ELSE RowService)
    + (IF dn.st = "Done" THEN 0 ELSE RowService)

Idles ==
  \/ State = "Background" /\ bk.st = "Done"
  \/ State = "Score" /\ ds.st = "Done"
  \/ State = "Note" /\ dn.st = "Done"

Budget ==
  start_sign /\ ~Complete =>
    BkLeft + DsLeft + DnLeft + LayersLeft + RowsTime(Fill)
      <= RowsTime(RowsAfter(vc)) + (IF Idles THEN 0 ELSE RowLeft)
-----------------------------------------------------------------------------
(* The invariant, part by part.                                            *)

(* Words and pieces are in their ranges.                                   *)
Ranges ==
  /\ lb.st \in {"Read", "Read1"} => lb.x <= LbLast
  /\ bk.st \notin {"Halted", "Done"} => bk.w <= BkLast /\ bk.base = frame_flip
  /\ bk.st = "Pause" /\ bk.pre = 1 => bk.w >= 1
  /\ ds.st \notin {"Halted", "Done"} => ds.base = frame_flip
  /\ ds.st \in {"Read", "Read1", "Write", "Write1", "Pause"} => ds.w <= SpriteLast
  /\ ds.st \in {"Writelong", "Writelong1", "Pauselong"} => ds.w <= BodyLast
  /\ ds.st = "Readlong" => ds.w = 0
  /\ ds.st \in {"Pause", "Pauselong"} => ds.w >= 1
  /\ dn.st \notin {"Halted", "Done"} => dn.base = frame_flip
  /\ dn.st \in {"Read", "Read1", "Write", "Write1", "Pause"} => dn.w <= DigitLast
  /\ dn.st \in {"To_next", "S2C"} => dn.part \in {"s", "c"}
  /\ dn.part = "s" => dn.i <= ScoreDigits
  /\ dn.part = "c" => dn.i <= ComboDigits
  /\ sd.st = "WRITE" => sd.left > 0
  /\ au.left <= InitWords

BusInv ==
  /\ bus.age = 0 => bus.owner = None /\ ~bus.ac
  /\ bus.age = MaxLatency => bus.ac
  /\ bus.age > 0 => bus.owner \in Clients
  /\ BusHeld

(* A layer is begun when those before it are drawn.                        *)
Order ==
  /\ ~start_sign => bk.st = "Halted" /\ ds.st = "Halted" /\ dn.st = "Halted" /\ au.st = "Halted"
  /\ ds.st # "Halted" => bk.st = "Done"
  /\ dn.st # "Halted" => ds.st = "Done"
  /\ State = "Score" => bk.st = "Done"
  /\ State = "Note" => ds.st = "Done"

(* A drawer moves only while it is served, and for DrainTime after.        *)
Still(c, p, drain) ==
  \/ State = c
  \/ State = p /\ (drain = 0 \/ hc + drain <= Drained + 1 + DrainTime)
  \/ State \notin {c, p} /\ drain = 0

Drains ==
  /\ Still("Background", "Line_buffer_pre_bk", BkDrain)
  /\ Still("Score", "Line_buffer_pre_sp", DsDrain)
  /\ Still("Note", "Line_buffer_pre_nt", DnDrain)

(* A fill ends long before row YNew, and only the PCM state serves it.     *)
Fed ==
  /\ State # "PCM" => au.st \in {"Halted", "Play", "Play2", "Stoped"}
  /\ au.st = "Play" => State \in {"PCM_done", "Halted"}
  /\ State = "PCM" => Position(vc) + hc + AuLeft < Position(YNew)
  /\ State = "PCM_done" => Position(vc) + hc < Position(YNew)

(* Where the beam is in each state of the arbiter.                         *)
FetchRow == vc = YLast \/ vc <= YShown
DrawRow == vc = YLast \/ vc < YNew
NewFrameOver == vc = YNew /\ hc >= 2 * XPause + 3

Where ==
  /\ State \in Pre =>
       \/ (DrawRow /\ Drained < hc /\ hc <= 2 * XLast)
       \/ /\ State = "Line_buffer_pre_bk" /\ NewFrameOver /\ hc <= 2 * XLast
          /\ bk.st = "Halted"
  /\ State = "Line_buffer" =>
       \/ (hc = 2 * XLast + 1 /\ (vc = YNew => bk.st = "Halted"))
       \/ (FetchRow /\ hc <= FetchTime + 1)
  /\ State = "Line_buffer_done" => hc = 0 /\ YShown < vc /\ vc < YNew /\ lb.st = "Done"
  /\ State = "Line_buffer_mid" =>
       /\ FetchRow /\ hc <= Drained
       /\ hc < FirstServed \/ Complete
  /\ State \in Layer => DrawRow /\ 1 <= hc /\ hc <= Drained
  /\ State \in {"PCM", "PCM_done", "Halted"} => Complete /\ YShown < vc /\ lb.st = "Done"
  /\ State \in {"PCM", "PCM_done"} => vc < YNew
  /\ State = "Halted" => vc < YNew \/ (vc = YNew /\ hc <= 2 * XPause + 2)
  /\ vc = YNew /\ hc <= 2 * XPause + 2 => State \in BootStates \cup {"Halted"}

(* The layers are drawn before the rows that the fill needs.               *)
Finished ==
  Complete => vc = YLast \/ State \in {"PCM", "PCM_done", "Halted"}
              \/ vc + Fill + (IF State = "Line_buffer_done" THEN 0 ELSE 1) <= YNew

(* lb is at the first word of a row, and has not asked for it yet.         *)
LbFresh == lb.st = "Read" /\ lb.x = 0 /\ Seen("lb") = 0

(* Where the beam is while a row is read.                                  *)
Reading ==
  \/ State \in {"Line_buffer", "Line_buffer_startscreen"} /\ FetchRow
     /\ hc + LbLeft <= FetchTime + 1
  \/ State = "Line_buffer_startscreen" /\ vc = YNew /\ 2 * XPause + 4 <= hc /\ LbLeft <= FetchTime
  \/ State \in Pre \cup {"Line_buffer"} /\ NewFrameOver /\ LbFresh

(* Where the beam is in each state of lineb.                               *)
Fetching ==
  /\ State \in Start5 => lb.st = "Halted"
  /\ State \notin Start5 /\ lb.st = "Halted" => NewFrameOver
  /\ lb.st \in {"Read", "Read1"} => Reading
  /\ lb.st = "Pause" =>
       /\ State \in {"Line_buffer", "Line_buffer_startscreen", "Line_buffer_mid"} \cup Layer
       /\ \/ FetchRow /\ hc <= 2 * XPause + 1
          \/ State = "Line_buffer_startscreen" /\ vc = YNew /\ 2 * XPause + 4 < hc
  /\ lb.st = "Pause1" =>
       \/ (vc = YLast \/ vc < YShown) /\ 2 * XPause + 1 <= hc
       \/ vc <= YShown /\ hc = 0 /\ State \in {"Line_buffer", "Line_buffer_startscreen"}
  /\ lb.st = "Done" =>
       \/ vc = YShown /\ 1 <= hc
       \/ YShown < vc /\ vc < YNew
       \/ vc = YNew /\ hc <= 2 * XPause + 2
  /\ State = "Line_buffer" /\ hc <= 2 * XLast =>
       lb.st \in {"Read", "Read1", "Pause"} \/ (lb.st = "Pause1" /\ hc = 0)

(* What the halves of the line buffer hold.                                *)
Holds(n, r) == \A k \in 0 .. n - 1 : line_buf[WriteHalf(r)][k] = [row |-> r, src |-> Front]

Picture ==
  /\ Startscreen_index > 0 => start_sign
  /\ Startscreen_index = SplashEnd =>
       /\ vc <= YShown => Holds(LbLast + 1, vc)
       /\ FetchRow /\ lb.st \in {"Read", "Read1"} => Holds(lb.x, WriteY)
       /\ FetchRow /\ lb.st = "Read1" => lb.data = [row |-> WriteY, src |-> Front]
       /\ FetchRow /\ (lb.st = "Pause" \/ (lb.st = "Pause1" /\ hc > 0)) => Holds(LbLast + 1, WriteY)

IInv ==
  /\ TypeOK /\ Ranges /\ BusInv /\ Order /\ Drains /\ Fed /\ Where /\ Finished
  /\ Fetching /\ Picture /\ Budget
-----------------------------------------------------------------------------
(* Arithmetic.                                                             *)

(* A product grows by its factor, and is a natural number if both are.     *)
LEMMA Product ==
  ASSUME NEW a \in Int, NEW b \in Nat
  PROVE  /\ a * b \in Int /\ (a + 1) * b = a * b + b /\ (a - 1) * b = a * b - b
         /\ a >= 0 => a * b \in Nat
BY Z3

(* A product is distributed over a sum.                                    *)
LEMMA Distributes ==
  ASSUME NEW a \in Int, NEW b \in Int, NEW c \in Int
  PROVE  (a + b) * c = a * c + b * c
BY Z3

(* One step down.                                                          *)
LEMMA Less ==
  ASSUME NEW a \in Int, NEW b \in Int, a + 1 <= b
  PROVE  a <= b
OBVIOUS

(* A larger first factor gives a larger product.                           *)
LEMMA ProductGrows ==
  ASSUME NEW a \in Int, NEW b \in Int, NEW c \in Nat, a <= b
  PROVE  a * c <= b * c
<1>1. (b - a) * c \in Nat
  BY Product, b - a \in Int, b - a >= 0
<1>2. (b - a) * c = b * c - a * c
  BY Z3
<1> QED BY <1>1, <1>2, Product

(* The constants are what they look like.                                  *)
LEMMA Sizes ==
  /\ WordTime \in Nat /\ WordTime >= 3 /\ WordTime = MaxLatency + 2
  /\ FetchTime \in Nat /\ FetchTime >= 3 /\ FetchTime <= 2 * XPause
  /\ FirstServed \in Nat /\ FirstServed = FetchTime + 3
  /\ Drained \in Nat /\ Drained = 2 * XDrain /\ FirstServed < Drained
  /\ RowService \in Nat /\ RowService = Drained + 1 - FirstServed
  /\ 2 * XPause + 4 <= Drained
  /\ DrainTime = 2 * MaxLatency + 2 * NoteLast + 8 /\ Drained + DrainTime <= 2 * XLast
  /\ Row \in Nat /\ Row = 2 * XLast + 2
  /\ SpriteTime \in Nat /\ BodyTime \in Nat /\ DigitTime \in Nat
  /\ \A n \in FillWords : n \in Nat /\ n <= InitWords
<1>1. WordTime \in Nat /\ WordTime >= 3 /\ WordTime = MaxLatency + 2
  BY RasterAssumption DEF WordTime
<1>2. FetchTime \in Nat /\ FetchTime >= 3
  <2>1. LbLast * WordTime \in Nat /\ (LbLast + 1) * WordTime = LbLast * WordTime + WordTime
    BY <1>1, Product, RasterAssumption
  <2> QED BY <1>1, <2>1 DEF FetchTime
<1>3. SpriteTime \in Nat /\ BodyTime \in Nat /\ DigitTime \in Nat
  BY <1>1, Product, DrawersAssumption, WordTime + 2 \in Nat, SpriteLast + 1 \in Nat,
     BodyLast + 1 \in Nat,
     DigitLast + 1 \in Nat DEF SpriteTime, BodyTime, DigitTime
<1> QED BY <1>1, <1>2, <1>3, RasterAssumption, DrawersAssumption, TimingAssumption
        DEF FirstServed, Drained, RowService, DrainTime, Row

(* What is left shrinks word by word.                                      *)
LEMMA Lefts ==
  /\ \A x \in 0 .. LbLast : LbWords(x) \in Nat
  /\ \A x, y \in 0 .. LbLast : y = x + 1 => LbWords(y) + WordTime = LbWords(x)
  /\ LbWords(LbLast) = 0 /\ LbWords(0) + WordTime = FetchTime
  /\ \A w \in 0 .. BkLast : BkWords(w) \in Nat
  /\ \A w, y \in 0 .. BkLast : y = w + 1 => BkWords(y) + 2 * WordTime = BkWords(w)
  /\ BkWords(BkLast) = 0 /\ BkWords(0) + 2 * WordTime = BkTime - 1
  /\ \A w \in 0 .. SpriteLast : DsWords(w) \in Nat
  /\ \A w, y \in 0 .. SpriteLast : y = w + 1 => DsWords(y) + (WordTime + 2) = DsWords(w)
  /\ DsWords(SpriteLast) = 0 /\ DsWords(0) + (WordTime + 2) = SpriteTime
  /\ \A w \in 0 .. BodyLast : DlWords(w) \in Nat
  /\ \A w, y \in 0 .. BodyLast : y = w + 1 => DlWords(y) + (WordTime + 2) = DlWords(w)
  /\ DlWords(BodyLast) = 0 /\ DlWords(0) + (WordTime + 2) = BodyTime
  /\ \A w \in 0 .. DigitLast : DnWords(w) \in Nat
  /\ \A w, y \in 0 .. DigitLast : y = w + 1 => DnWords(y) + (WordTime + 2) = DnWords(w)
  /\ DnWords(DigitLast) = 0 /\ DnWords(0) + (WordTime + 2) = DigitTime
<1> DEFINE Fall(last, b) ==
      /\ \A x \in 0 .. last : (last - x) * b \in Nat
      /\ \A x, y \in 0 .. last : y = x + 1 => (last - y) * b + b = (last - x) * b
      /\ (last - last) * b = 0 /\ (last - 0) * b + b = (last + 1) * b
<1>1. ASSUME NEW last \in Nat, NEW b \in Nat PROVE Fall(last, b)
  <2>1. ASSUME NEW x \in 0 .. last PROVE (last - x) * b \in Nat
    BY Product, last - x \in Int, last - x >= 0
  <2>2. ASSUME NEW x \in 0 .. last, NEW y \in 0 .. last, y = x + 1
        PROVE  (last - y) * b + b = (last - x) * b
    <3>1. last - y \in Int /\ (last - y) + 1 = last - x
      BY <2>2
    <3> QED BY <3>1, Product
  <2>3. (last - last) * b = 0 /\ (last - 0) * b + b = (last + 1) * b
    BY Product, last - last = 0, last - 0 = last
  <2> QED BY <2>1, <2>2, <2>3
<1> HIDE DEF Fall
<1>2. Fall(LbLast, WordTime) /\ Fall(BkLast, 2 * WordTime) /\ Fall(SpriteLast, WordTime + 2)
      /\ Fall(BodyLast, WordTime + 2) /\ Fall(DigitLast, WordTime + 2)
  BY <1>1, Sizes, RasterAssumption, DrawersAssumption, 2 * WordTime \in Nat, WordTime + 2 \in Nat
<1>3. /\ \A x \in 0 .. LbLast : LbWords(x) \in Nat
      /\ \A x, y \in 0 .. LbLast : y = x + 1 => LbWords(y) + WordTime = LbWords(x)
      /\ LbWords(LbLast) = 0 /\ LbWords(0) + WordTime = FetchTime
  BY <1>2 DEF Fall, LbWords, FetchTime
<1>4. /\ \A w \in 0 .. BkLast : BkWords(w) \in Nat
      /\ \A w, y \in 0 .. BkLast : y = w + 1 => BkWords(y) + 2 * WordTime = BkWords(w)
      /\ BkWords(BkLast) = 0
      /\ BkWords(0) + 2 * WordTime = BkTime - 1
  BY <1>2, Product, Sizes, DrawersAssumption, BkLast + 1 \in Nat, 2 * WordTime \in Nat
     DEF Fall, BkWords, BkTime
<1>5. /\ \A w \in 0 .. SpriteLast : DsWords(w) \in Nat
      /\ \A w, y \in 0 .. SpriteLast : y = w + 1 => DsWords(y) + (WordTime + 2) = DsWords(w)
      /\ DsWords(SpriteLast) = 0 /\ DsWords(0) + (WordTime + 2) = SpriteTime
  BY <1>2 DEF Fall, DsWords, SpriteTime
<1>6. /\ \A w \in 0 .. BodyLast : DlWords(w) \in Nat
      /\ \A w, y \in 0 .. BodyLast : y = w + 1 => DlWords(y) + (WordTime + 2) = DlWords(w)
      /\ DlWords(BodyLast) = 0 /\ DlWords(0) + (WordTime + 2) = BodyTime
  BY <1>2 DEF Fall, DlWords, BodyTime
<1>7. /\ \A w \in 0 .. DigitLast : DnWords(w) \in Nat
      /\ \A w, y \in 0 .. DigitLast : y = w + 1 => DnWords(y) + (WordTime + 2) = DnWords(w)
      /\ DnWords(DigitLast) = 0 /\ DnWords(0) + (WordTime + 2) = DigitTime
  BY <1>2 DEF Fall, DnWords, DigitTime
<1> HIDE <1>2
<1> QED BY <1>3, <1>4, <1>5, <1>6, <1>7

(* What notes and pieces cost, and that a layer begins with the cost of    *)
(* all.                                                                    *)
LEMMA Times ==
  /\ (\A k \in Nat : NotesTime(k) \in Nat) /\ (\A k, y \in Nat : y = k + 1 => NotesTime(y) = NotesTime(k) + (BodyTime + SpriteTime + 2))
  /\ NotesTime(NoteLast + 1) = DsTime - 1
  /\ (\A k \in Nat : PiecesTime(k) \in Nat) /\ (\A k, y \in Nat : y = k + 1 => PiecesTime(y) = PiecesTime(k) + (DigitTime + 1))
  /\ PiecesTime(1) = DigitTime + 1 /\ PiecesTime(ScoreDigits + ComboDigits + 3) = DnTime - 2
  /\ (\A n \in Nat : AuWords(n) \in Nat) /\ (\A n, y \in Nat : y = n + 1 => AuWords(y) = AuWords(n) + WordTime)
  /\ \A n \in 0 .. InitWords : AuWords(n) <= AuWords(InitWords)
  /\ FillTime = AuWords(InitWords) + WordTime + 3
<1>1. (\A k \in Nat : NotesTime(k) \in Nat) /\ (\A k, y \in Nat : y = k + 1 => NotesTime(y) = NotesTime(k) + (BodyTime + SpriteTime + 2))
  BY Product, Sizes, BodyTime + SpriteTime + 2 \in Nat DEF NotesTime
<1>2. NotesTime(NoteLast + 1) = DsTime - 1
  <2>1. (NoteLast + 1) * (BodyTime + SpriteTime + 2) \in Int
    BY Sizes, DrawersAssumption, Product, BodyTime + SpriteTime + 2 \in Nat
  <2> QED BY <2>1 DEF NotesTime, DsTime
<1>3. (\A k \in Nat : PiecesTime(k) \in Nat) /\ (\A k, y \in Nat : y = k + 1 => PiecesTime(y) = PiecesTime(k) + (DigitTime + 1))
  BY Product, Sizes, DigitTime + 1 \in Nat DEF PiecesTime
<1>4. PiecesTime(1) = DigitTime + 1 /\ PiecesTime(ScoreDigits + ComboDigits + 3) = DnTime - 2
  <2>1. (ScoreDigits + ComboDigits + 3) * (DigitTime + 1) \in Int
    BY Sizes, DrawersAssumption, Product, DigitTime + 1 \in Nat
  <2>2. 1 * (DigitTime + 1) = DigitTime + 1
    BY Sizes
  <2> QED BY <2>1, <2>2 DEF PiecesTime, DnTime
<1>5. (\A n \in Nat : AuWords(n) \in Nat) /\ (\A n, y \in Nat : y = n + 1 => AuWords(y) = AuWords(n) + WordTime)
  BY Product, Sizes DEF AuWords
<1>6. \A n \in 0 .. InitWords : AuWords(n) <= AuWords(InitWords)
  BY ProductGrows, Sizes, RasterAssumption DEF AuWords
<1>7. FillTime = AuWords(InitWords) + WordTime + 3
  BY <1>5, RasterAssumption DEF FillTime, AuWords
<1> QED BY <1>1, <1>2, <1>3, <1>4, <1>5, <1>6, <1>7

(* What rows give, and where they begin.                                   *)
LEMMA Rows ==
  /\ RowsTime(0) = 0
  /\ (\A k \in Nat : RowsTime(k) \in Nat) /\ (\A k, y \in Nat : y = k + 1 => RowsTime(y) = RowsTime(k) + RowService)
  /\ \A j, k \in Nat : j < k => RowsTime(j) + RowService <= RowsTime(k)
  /\ (\A r \in Nat : Position(r) \in Nat) /\ (\A r, y \in Nat : y = r + 1 => Position(y) = Position(r) + Row)
  /\ \A q, r \in Nat : q < r => Position(q) + Row <= Position(r)
<1>1. RowsTime(0) = 0
  BY Sizes DEF RowsTime
<1>2. (\A k \in Nat : RowsTime(k) \in Nat) /\ (\A k, y \in Nat : y = k + 1 => RowsTime(y) = RowsTime(k) + RowService)
  BY Product, Sizes DEF RowsTime
<1>3. ASSUME NEW j \in Nat, NEW k \in Nat, j < k PROVE RowsTime(j) + RowService <= RowsTime(k)
  <2>1. (j + 1) * RowService <= k * RowService
    BY <1>3, ProductGrows, Sizes, j + 1 <= k
  <2> QED BY <2>1, <1>2 DEF RowsTime
<1>4. (\A r \in Nat : Position(r) \in Nat) /\ (\A r, y \in Nat : y = r + 1 => Position(y) = Position(r) + Row)
  BY Product, Sizes DEF Position
<1>5. ASSUME NEW q \in Nat, NEW r \in Nat, q < r PROVE Position(q) + Row <= Position(r)
  <2>1. (q + 1) * Row <= r * Row
    BY <1>5, ProductGrows, Sizes, q + 1 <= r
  <2> QED BY <2>1, <1>4 DEF Position
<1> QED BY <1>1, <1>2, <1>3, <1>4, <1>5

(* The rows kept for a fill are enough for it, the others for the layers.  *)
LEMMA FillFits ==
  /\ Fill \in 1 .. YNew /\ YShown + Fill < YNew
  /\ BkTime \in Nat /\ DsTime \in Nat /\ DnTime \in Nat
  /\ BkTime + DsTime + DnTime + 3 * RowService + RowsTime(Fill) <= RowsTime(YNew + 1)
  /\ \A r \in Nat : r + Fill <= YNew => Position(r) + FillTime <= Position(YNew)
<1>1. Fill \in FillRows
  BY TimingAssumption DEF Fill
<1>2. /\ Fill \in 0 .. YNew /\ YShown + Fill < YNew /\ FillTime <= Position(Fill)
      /\ BkTime + DsTime + DnTime + RowsTime(Fill + 3) <= RowsTime(YNew + 1)
      /\ Fill \in Nat /\ YNew \in Nat
  BY <1>1, RasterAssumption DEF FillRows, Row, Position, RowsTime
<1>3. FillTime \in Nat /\ FillTime > 0
  <2>1. AuWords(InitWords) \in Nat
    BY Times, RasterAssumption
  <2>2. FillTime = AuWords(InitWords) + WordTime + 3
    BY Times
  <2> QED BY <2>1, <2>2, Sizes
<1>4. Position(0) = 0
  BY Sizes DEF Position
<1>5. RowsTime(Fill + 3) = RowsTime(Fill) + 3 * RowService
  <2>1. RowService \in Int /\ Fill \in Int
    BY <1>2, Sizes, RasterAssumption
  <2> QED BY <2>1, Distributes DEF RowsTime
<1>6. \A q, r \in Nat : Position(q + r) = Position(q) + Position(r)
  BY Sizes, Distributes DEF Position
<1>7. \A q, r \in Nat : q <= r => Position(q) <= Position(r)
  BY Rows, Sizes
<1>8. ASSUME NEW r \in Nat, r + Fill <= YNew PROVE Position(r) + FillTime <= Position(YNew)
  <2>1. Position(r + Fill) <= Position(YNew)
    BY <1>2, <1>7, <1>8, RasterAssumption
  <2>2. Position(r + Fill) = Position(r) + Position(Fill)
    BY <1>2, <1>6
  <2>3. Position(r) \in Nat /\ Position(Fill) \in Nat /\ Position(YNew) \in Nat
    BY <1>2, Rows
  <2>4. FillTime <= Position(Fill)
    BY <1>2
  <2> QED BY <1>3, <2>1, <2>2, <2>3, <2>4
<1>9. BkTime \in Nat /\ DsTime \in Nat /\ DnTime \in Nat
  <2>1. (BkLast + 1) * (2 * WordTime) \in Nat
    BY Sizes, DrawersAssumption, Product, BkLast + 1 \in Int, BkLast + 1 >= 0, 2 * WordTime \in Nat
  <2>2. (NoteLast + 1) * (BodyTime + SpriteTime + 2) \in Nat
    BY Sizes, DrawersAssumption, Product, NoteLast + 1 \in Int, NoteLast + 1 >= 0,
       BodyTime + SpriteTime + 2 \in Nat
  <2>3. (ScoreDigits + ComboDigits + 3) * (DigitTime + 1) \in Nat
    BY Sizes, DrawersAssumption, Product, ScoreDigits + ComboDigits + 3 \in Int,
       ScoreDigits + ComboDigits + 3 >= 0, DigitTime + 1 \in Nat
  <2> QED BY <2>1, <2>2, <2>3 DEF BkTime, DsTime, DnTime
<1>10. Fill # 0
  BY <1>2, <1>3, <1>4
<1>11. RowsTime(Fill) \in Nat /\ RowService \in Nat
  BY <1>2, Rows, Sizes
<1>12. BkTime + DsTime + DnTime + 3 * RowService + RowsTime(Fill) <= RowsTime(YNew + 1)
  BY <1>2, <1>5, <1>9, <1>11
<1> QED BY <1>2, <1>8, <1>9, <1>10, <1>12

-----------------------------------------------------------------------------
(* Steps.  Every machine takes one in every clock.                         *)


LbType == [st : {"Halted", "Read", "Read1", "Pause", "Pause1", "Done"}, x : 0 .. LbLast + 1, data : Words]
AuType == [st : {"Halted", "Init_data", "Init_data2", "Play", "Play2", "Fill", "Fill2", "Stoped"}, left : Nat]
SdType == [st : {"READ", "WRITE", "DONE"}, left : 0 .. SdWords]
MemType == [st : {"Halted", "Read", "Read1", "Write1", "Done"}, addr : 0 .. MemLast]
BusType == [owner : Clients \cup {None}, age : 0 .. MaxLatency, ac : BOOLEAN]
BkType == [st : {"Halted", "Read", "Read1", "Write", "Write1", "Pause", "Done"},
           pre : 0 .. 1, w : 0 .. BkLast + 1, base : 0 .. 1]
DsType == [st : {"Halted", "Read", "Read1", "Write", "Write1", "Examine", "Examinelong",
                 "Readlong", "Writelong", "Writelong1", "To_next", "Pause", "Pauselong", "Done"},
           note : 0 .. NoteLast, w : 0 .. SpriteLast + 1 \cup 0 .. BodyLast + 1, base : 0 .. 1]
DnType == [st : {"Halted", "Read", "Read1", "Write", "Write1", "Pause", "To_next", "S2C", "C2P", "Done"},
           part : {"s", "c", "p"}, i : 0 .. ScoreDigits + ComboDigits, w : 0 .. DigitLast + 1, base : 0 .. 1]

(* Every register keeps to its range.                                      *)
LEMMA Types ==
  TypeOK <=> /\ hc \in 0 .. 2 * XLast + 1 /\ vc \in 0 .. YLast
             /\ State \in ArbiterStates
             /\ keyboard_start \in BOOLEAN /\ stop_sign \in BOOLEAN
             /\ Startscreen_index \in 0 .. SplashEnd /\ frame_flip \in 0 .. 1
             /\ lb \in LbType /\ line_buf \in [0 .. 1 -> [0 .. LbLast -> Words]]
             /\ au \in AuType /\ sd \in SdType /\ mem \in MemType /\ bus \in BusType
             /\ bk \in BkType /\ ds \in DsType /\ dn \in DnType
             /\ shown \in SUBSET {"combo", "precise"}
BY DEF TypeOK, DrawersTypeOK, LbType, AuType, SdType, MemType, BusType, BkType, DsType, DnType

(* A step is one of every machine.                                         *)
LEMMA Ticks ==
  ASSUME Next
  PROVE  /\ Beam /\ Frame /\ Inputs
         /\ Arbiter /\ LineBuffer /\ AudioWriter /\ SdCard /\ MemInit /\ Sdram
         /\ BkStep(Wait("bk"), Ac("bk"), frame_flip, NewFrame)
         /\ DsStep(Wait("ds"), Ac("ds"), frame_flip, NewFrame)
         /\ DnStep(Wait("dn"), Ac("dn"), frame_flip, NewFrame)
BY DEF Next, Tick, Drawing

(* Each register keeps to its range.                                       *)
LEMMA BeamTypes ==
  ASSUME TypeOK, Next
  PROVE  /\ hc' \in 0 .. 2 * XLast + 1 /\ vc' \in 0 .. YLast
         /\ keyboard_start' \in BOOLEAN /\ stop_sign' \in BOOLEAN
         /\ Startscreen_index' \in 0 .. SplashEnd /\ frame_flip' \in 0 .. 1
         /\ shown' \in SUBSET {"combo", "precise"}
<1>1. hc' \in 0 .. 2 * XLast + 1 /\ vc' \in 0 .. YLast
  <2>1. hc \in 0 .. 2 * XLast + 1 /\ vc \in 0 .. YLast /\ XLast \in Nat /\ YLast \in Nat
    BY Types, RasterAssumption
  <2>2. \/ hc < 2 * XLast + 1 /\ hc' = hc + 1 /\ vc' = vc
        \/ hc' = 0 /\ vc' = IF vc = YLast THEN 0 ELSE vc + 1
    BY Ticks DEF Beam
  <2> QED BY <2>1, <2>2
<1>2. keyboard_start' \in BOOLEAN /\ stop_sign' \in BOOLEAN
  BY Types, Ticks DEF Inputs
<1>3. Startscreen_index' \in 0 .. SplashEnd /\ frame_flip' \in 0 .. 1 /\ shown' \in SUBSET {"combo", "precise"}
  BY Types, Ticks, RasterAssumption DEF Frame
<1> QED BY <1>1, <1>2, <1>3

LEMMA ArbiterType ==
  ASSUME TypeOK, Next
  PROVE  State' \in ArbiterStates
BY Types, Ticks
   DEF Arbiter, Bring_up, Line_buffer_turn, Drain, Audio, Go, NextLayer, ArbiterStates, BootStates

LEMMA LbTypes ==
  ASSUME TypeOK, Ranges, Next
  PROVE  lb' \in LbType /\ line_buf' \in [0 .. 1 -> [0 .. LbLast -> Words]]
<1>1. WriteY \in 0 .. YLast /\ Source \in 0 .. 2 /\ WriteHalf(WriteY) \in 0 .. 1
  <2>1. WriteY \in 0 .. YLast
    BY Types, RasterAssumption DEF WriteY, DrawY
  <2>2. Source \in 0 .. 2
    BY Types DEF Source, Front, Splash
  <2> QED BY <2>1, <2>2, RasterAssumption DEF WriteHalf
<1>2. lb \in LbType /\ (lb.st \in {"Read", "Read1"} => lb.x <= LbLast)
  BY Types DEF Ranges
<1>3. LineBuffer
  BY Ticks
<1> DEFINE row == WriteY  src == Source  h == WriteHalf(row)
<1> HIDE DEF row, src, h
<1>4. row \in 0 .. YLast /\ src \in 0 .. 2 /\ h \in 0 .. 1
  BY <1>1 DEF row, src, h
<1>5. lb' \in LbType
  <2>1. /\ lb.st \in {"Halted", "Read", "Read1", "Pause", "Pause1", "Done"} /\ lb.x \in 0 .. LbLast + 1
        /\ lb.data \in Words /\ lb = [st |-> lb.st, x |-> lb.x, data |-> lb.data] /\ LbLast \in Nat
    BY <1>2, RasterAssumption DEF LbType
  <2>2. CASE LbHalted \/ LbPause \/ LbPause1 \/ LbDone
    <3>1. /\ lb'.st \in {"Halted", "Read", "Read1", "Pause", "Pause1", "Done"}
          /\ lb'.x \in {0, lb.x} /\ lb'.data = lb.data
          /\ lb' = [st |-> lb'.st, x |-> lb'.x, data |-> lb'.data]
      BY <2>1, <2>2 DEF LbHalted, LbPause, LbPause1, LbDone
    <3> QED BY <2>1, <3>1 DEF LbType
  <2>3. CASE LbRead
    <3>1. /\ lb'.st \in {"Read", "Read1"} /\ lb'.x = lb.x /\ lb'.data \in {lb.data, [row |-> row, src |-> src]}
          /\ lb' = [st |-> lb'.st, x |-> lb'.x, data |-> lb'.data]
      BY <2>1, <2>3 DEF LbRead, row, src
    <3>2. [row |-> row, src |-> src] \in Words
      BY <1>4 DEF Words
    <3> QED BY <2>1, <3>1, <3>2 DEF LbType
  <2>4. CASE LbRead1
    <3>1. lb.st = "Read1" /\ lb' = [lb EXCEPT !.st = IF lb.x = LbLast THEN "Pause" ELSE "Read", !.x = @ + 1]
      BY <2>4 DEF LbRead1
    <3>2. /\ lb'.st \in {"Pause", "Read"} /\ lb'.x = lb.x + 1 /\ lb'.data = lb.data
          /\ lb' = [st |-> lb'.st, x |-> lb'.x, data |-> lb'.data]
      BY <2>1, <3>1
    <3>3. lb.x + 1 \in 0 .. LbLast + 1
      BY <2>1, <3>1, <1>2
    <3> QED BY <2>1, <3>2, <3>3 DEF LbType
  <2> QED BY <1>3, <2>2, <2>3, <2>4 DEF LineBuffer
<1>6. line_buf' \in [0 .. 1 -> [0 .. LbLast -> Words]]
  <2>1. line_buf \in [0 .. 1 -> [0 .. LbLast -> Words]]
    BY Types
  <2>2. CASE LbRead1
    <3>1. lb.data \in Words /\ lb.x \in 0 .. LbLast
      BY <2>2, <1>2, RasterAssumption DEF LbRead1, LbType
    <3>2. line_buf' = [line_buf EXCEPT ![h][lb.x] = lb.data]
      BY <2>2 DEF LbRead1, row, h
    <3> QED BY <2>1, <3>1, <3>2, <1>4
  <2>3. CASE line_buf' = line_buf
    BY <2>1, <2>3
  <2> QED BY <1>3, <2>2, <2>3 DEF LineBuffer, LbHalted, LbRead, LbPause, LbPause1, LbDone
<1> QED BY <1>5, <1>6

LEMMA ClientTypes ==
  ASSUME TypeOK, Ranges, BusInv, Next
  PROVE  au' \in AuType /\ sd' \in SdType /\ mem' \in MemType /\ bus' \in BusType
<1>1. au' \in AuType
  <2>1. au \in AuType /\ AudioWriter
    BY Types, Ticks
  <2> QED BY <2>1, RasterAssumption
             DEF AuType, AudioWriter, AuHalted, AuRequest, AuWord, AuPlay, AuPlay2, AuStoped
<1>2. sd' \in SdType
  <2>1. sd \in SdType /\ SdCard /\ (sd.st = "WRITE" => sd.left > 0)
    BY Types, Ticks DEF Ranges
  <2> QED BY <2>1, RasterAssumption DEF SdType, SdCard, SdRead, SdWrite
<1>3. mem' \in MemType
  <2>1. mem \in MemType /\ MemInit
    BY Types, Ticks
  <2> QED BY <2>1, RasterAssumption DEF MemType, MemInit, MemMove
<1>4. bus' \in BusType
  <2>1. bus \in BusType /\ Sdram /\ (bus.age = MaxLatency => bus.ac) /\ (bus.age > 0 => bus.owner \in Clients)
    BY Types, Ticks DEF BusInv
  <2>2. Requester # {} => (CHOOSE c \in Requester : TRUE) \in Clients
    BY DEF Requester
  <2>3. CASE bus.ac \/ (bus.age = 0 /\ Requester = {})
    <3>1. bus' = bus \/ bus' = [owner |-> None, age |-> 0, ac |-> FALSE]
      BY <2>1, <2>3, Zenon DEF Sdram
    <3>2. 0 \in 0 .. MaxLatency
      BY RasterAssumption
    <3>3. [owner |-> None, age |-> 0, ac |-> FALSE] \in BusType
      BY <3>2 DEF BusType
    <3> QED BY <2>1, <3>1, <3>3
  <2>4. CASE ~bus.ac /\ ~(bus.age = 0 /\ Requester = {})
    <3>1. PICK a \in BOOLEAN :
            bus' = [owner |-> IF bus.age = 0 THEN CHOOSE c \in Requester : TRUE ELSE bus.owner,
                    age |-> bus.age + 1, ac |-> a]
      BY <2>1, <2>4 DEF Sdram
    <3>2. bus.age + 1 \in 0 .. MaxLatency
      BY <2>1, <2>4, RasterAssumption DEF BusType
    <3>3. (IF bus.age = 0 THEN CHOOSE c \in Requester : TRUE ELSE bus.owner) \in Clients
      BY <2>1, <2>2, <2>4 DEF BusType
    <3> QED BY <3>1, <3>2, <3>3 DEF BusType
  <2> QED BY <2>3, <2>4
<1> QED BY <1>1, <1>2, <1>3, <1>4

LEMMA BkTypes ==
  ASSUME TypeOK, Next
  PROVE  bk' \in BkType
<1>1. bk \in BkType /\ BkStep(Wait("bk"), Ac("bk"), frame_flip, NewFrame) /\ frame_flip \in 0 .. 1
  BY Types, Ticks
<1>2. /\ bk.w \in 0 .. BkLast + 1 /\ BkLast \in Nat /\ bk.pre \in 0 .. 1 /\ bk.base \in 0 .. 1
      /\ bk.st \in {"Halted", "Read", "Read1", "Write", "Write1", "Pause", "Done"}
      /\ bk = [st |-> bk.st, pre |-> bk.pre, w |-> bk.w, base |-> bk.base]
  BY <1>1, DrawersAssumption DEF BkType
<1>3. Advance(bk.w, BkLast) \in 0 .. BkLast + 1 /\ 0 \in 0 .. BkLast + 1
  BY <1>2 DEF Advance
<1>4. /\ bk'.st \in {"Halted", "Read", "Read1", "Write", "Write1", "Pause", "Done"}
      /\ bk'.pre \in {0, 1, bk.pre} /\ bk'.w \in {0, bk.w, Advance(bk.w, BkLast)} /\ bk'.base \in {frame_flip, bk.base}
      /\ bk' = [st |-> bk'.st, pre |-> bk'.pre, w |-> bk'.w, base |-> bk'.base]
  BY <1>1, <1>2 DEF BkStep, BkHalted, BkRead, BkRead1, BkWrite, BkWrite1, BkPause, BkDone
<1> QED BY <1>1, <1>2, <1>3, <1>4 DEF BkType

LEMMA DsTypes ==
  ASSUME TypeOK, Next
  PROVE  ds' \in DsType
<1>1. ds \in DsType /\ DsStep(Wait("ds"), Ac("ds"), frame_flip, NewFrame) /\ frame_flip \in 0 .. 1
  BY Types, Ticks
<1> DEFINE W == 0 .. SpriteLast + 1 \cup 0 .. BodyLast + 1
           ST == {"Halted", "Read", "Read1", "Write", "Write1", "Examine", "Examinelong",
                  "Readlong", "Writelong", "Writelong1", "To_next", "Pause", "Pauselong", "Done"}
<1>2. /\ ds.w \in W /\ SpriteLast \in Nat /\ BodyLast \in Nat /\ ds.note \in 0 .. NoteLast /\ ds.base \in 0 .. 1
      /\ ds.st \in ST /\ NoteLast \in Nat
      /\ ds = [st |-> ds.st, note |-> ds.note, w |-> ds.w, base |-> ds.base]
  BY <1>1, DrawersAssumption DEF DsType
<1>3. Advance(ds.w, SpriteLast) \in W /\ Advance(ds.w, BodyLast) \in W /\ 0 \in W
  BY <1>2 DEF Advance
<1>4. 0 \in 0 .. NoteLast /\ (ds.note = NoteLast \/ ds.note + 1 \in 0 .. NoteLast)
  BY <1>2
<1> HIDE DEF W
<1>5. CASE DsHalted(Wait("ds"), frame_flip) \/ DsExamine(frame_flip) \/ DsRead \/ DsPause(Wait("ds")) \/ DsDone(NewFrame)
           \/ DsWrite(Ac("ds"))
  <2>1. /\ ds'.st \in ST /\ ds'.note \in {0, ds.note} /\ ds'.w \in {0, ds.w} /\ ds'.base \in {frame_flip, ds.base}
        /\ ds' = [st |-> ds'.st, note |-> ds'.note, w |-> ds'.w, base |-> ds'.base]
    <3>1. CASE DsHalted(Wait("ds"), frame_flip)
      BY <1>2, <3>1 DEF DsHalted
    <3>2. CASE DsExamine(frame_flip)
      BY <1>2, <3>2 DEF DsExamine
    <3>3. CASE DsRead \/ DsPause(Wait("ds")) \/ DsDone(NewFrame) \/ DsWrite(Ac("ds"))
      <4>1. PICK s \in ST : ds' = [ds EXCEPT !.st = s]
        BY <3>3 DEF DsRead, DsPause, DsDone, DsWrite, DsMove
      <4> QED BY <1>2, <4>1
    <3> QED BY <1>5, <3>1, <3>2, <3>3
  <2> QED BY <1>1, <1>2, <1>3, <1>4, <2>1 DEF DsType, W
<1>6. CASE DsWrite1(Wait("ds"), frame_flip) \/ DsWritelong1(Wait("ds"), frame_flip)
  <2>1. /\ ds'.st \in ST /\ ds'.note = ds.note /\ ds'.base = ds.base
        /\ ds'.w \in {Advance(ds.w, SpriteLast), Advance(ds.w, BodyLast)}
        /\ ds' = [st |-> ds'.st, note |-> ds'.note, w |-> ds'.w, base |-> ds'.base]
    BY <1>2, <1>6 DEF DsWrite1, DsWritelong1
  <2> QED BY <1>2, <1>3, <2>1 DEF DsType, W
<1>7. CASE DsToNext
  <2>1. /\ ds'.st \in ST /\ ds'.note = (IF ds.note = NoteLast THEN 0 ELSE ds.note + 1) /\ ds'.base = ds.base
        /\ ds'.w = ds.w
        /\ ds' = [st |-> ds'.st, note |-> ds'.note, w |-> ds'.w, base |-> ds'.base]
    BY <1>2, <1>7 DEF DsToNext
  <2> QED BY <1>2, <1>4, <2>1 DEF DsType, W
<1> QED BY <1>1, <1>5, <1>6, <1>7 DEF DsStep

LEMMA DnTypes ==
  ASSUME TypeOK, Ranges, Next
  PROVE  dn' \in DnType
<1>1. dn \in DnType /\ DnStep(Wait("dn"), Ac("dn"), frame_flip, NewFrame) /\ frame_flip \in 0 .. 1
  BY Types, Ticks
<1> DEFINE ST == {"Halted", "Read", "Read1", "Write", "Write1", "Pause", "To_next", "S2C", "C2P", "Done"}
           I == 0 .. ScoreDigits + ComboDigits
<1>2. /\ dn.w \in 0 .. DigitLast + 1 /\ DigitLast \in Nat /\ dn.part \in {"s", "c", "p"} /\ dn.base \in 0 .. 1
      /\ dn.st \in ST /\ dn.i \in I
      /\ dn = [st |-> dn.st, part |-> dn.part, i |-> dn.i, w |-> dn.w, base |-> dn.base]
  BY <1>1, DrawersAssumption DEF DnType
<1>3. Advance(dn.w, DigitLast) \in 0 .. DigitLast + 1 /\ 0 \in 0 .. DigitLast + 1 /\ 0 \in I
  BY <1>2, DrawersAssumption DEF Advance
<1>4. dn.st = "To_next" /\ ~DnLastPiece => dn.i + 1 \in I
  <2>1. /\ dn.st = "To_next" => dn.part \in {"s", "c"}
        /\ dn.part = "s" => dn.i <= ScoreDigits
        /\ dn.part = "c" => dn.i <= ComboDigits
    BY DEF Ranges
  <2> QED BY <1>2, <2>1, DrawersAssumption DEF DnLastPiece
<1> HIDE DEF I
<1>5. CASE DnHalted(Wait("dn"), frame_flip) \/ DnRead \/ DnWrite(Ac("dn")) \/ DnPause(Wait("dn")) \/ DnDone(NewFrame)
  <2>1. /\ dn'.st \in ST /\ dn'.part \in {"s", dn.part} /\ dn'.i \in {0, dn.i} /\ dn'.w \in {0, dn.w}
        /\ dn'.base \in {frame_flip, dn.base}
        /\ dn' = [st |-> dn'.st, part |-> dn'.part, i |-> dn'.i, w |-> dn'.w, base |-> dn'.base]
    BY <1>2, <1>5 DEF DnHalted, DnRead, DnWrite, DnPause, DnDone, DnResume
  <2> QED BY <1>1, <1>2, <1>3, <2>1 DEF DnType, I
<1>6. CASE DnWrite1(Wait("dn"), frame_flip)
  <2>1. /\ dn'.st \in ST /\ dn'.part = dn.part /\ dn'.i = dn.i /\ dn'.w = Advance(dn.w, DigitLast) /\ dn'.base = dn.base
        /\ dn' = [st |-> dn'.st, part |-> dn'.part, i |-> dn'.i, w |-> dn'.w, base |-> dn'.base]
    BY <1>2, <1>6 DEF DnWrite1, DnEndOfPiece
  <2> QED BY <1>2, <1>3, <2>1 DEF DnType, I
<1>7. CASE DnToNext(Wait("dn"), frame_flip)
  <2>1. /\ dn'.st \in ST /\ dn'.part = dn.part /\ dn'.i = (IF DnLastPiece THEN 0 ELSE dn.i + 1) /\ dn'.w = 0
        /\ dn'.base = frame_flip /\ dn.st = "To_next"
        /\ dn' = [st |-> dn'.st, part |-> dn'.part, i |-> dn'.i, w |-> dn'.w, base |-> dn'.base]
    BY <1>2, <1>7 DEF DnToNext, DnResume
  <2> QED BY <1>1, <1>2, <1>3, <1>4, <2>1 DEF DnType, I
<1>8. CASE DnS2C(Wait("dn"), frame_flip) \/ DnC2P(Wait("dn"), frame_flip)
  <2>1. /\ dn'.st \in ST /\ dn'.part \in {"c", "p"} /\ dn'.i = 0 /\ dn'.w = 0 /\ dn'.base = frame_flip
        /\ dn' = [st |-> dn'.st, part |-> dn'.part, i |-> dn'.i, w |-> dn'.w, base |-> dn'.base]
    BY <1>8 DEF DnS2C, DnC2P, DnResume
  <2> QED BY <1>1, <1>3, <2>1 DEF DnType, I
<1> QED BY <1>1, <1>5, <1>6, <1>7, <1>8 DEF DnStep

(* So TypeOK is kept, given where words and counts are (Ranges) and whom   *)
(* the SDRAM serves (BusInv).                                              *)
LEMMA TypeStep ==
  ASSUME TypeOK, Ranges, BusInv, Next
  PROVE  TypeOK'
<1>1. lb' \in LbType /\ line_buf' \in [0 .. 1 -> [0 .. LbLast -> Words]]
  BY LbTypes
<1>2. bk' \in BkType /\ ds' \in DsType /\ dn' \in DnType
  BY BkTypes, DsTypes, DnTypes
<1>3. au' \in AuType /\ sd' \in SdType /\ mem' \in MemType /\ bus' \in BusType
  BY ClientTypes
<1>4. TypeOK' <=> /\ hc' \in 0 .. 2 * XLast + 1 /\ vc' \in 0 .. YLast
                  /\ State' \in ArbiterStates
                  /\ keyboard_start' \in BOOLEAN /\ stop_sign' \in BOOLEAN
                  /\ Startscreen_index' \in 0 .. SplashEnd /\ frame_flip' \in 0 .. 1
                  /\ lb' \in LbType /\ line_buf' \in [0 .. 1 -> [0 .. LbLast -> Words]]
                  /\ au' \in AuType /\ sd' \in SdType /\ mem' \in MemType /\ bus' \in BusType
                  /\ bk' \in BkType /\ ds' \in DsType /\ dn' \in DnType
                  /\ shown' \in SUBSET {"combo", "precise"}
  BY DEF TypeOK, DrawersTypeOK, LbType, AuType, SdType, MemType, BusType, BkType, DsType, DnType
<1> QED BY <1>1, <1>2, <1>3, <1>4, BeamTypes, ArbiterType

-----------------------------------------------------------------------------
(* Asking the SDRAM.                                                       *)

(* What a clock does to a request of client c: it ages by one, or it is    *)
(* answered and forgotten.                                                 *)
Asked(c) ==
  /\ Seen(c) \in 0 .. MaxLatency /\ Seen(c)' \in 0 .. MaxLatency
  /\ Requests(c) /\ State \in Connects[c] => Seen(c)' = (IF Ac(c) THEN 0 ELSE Seen(c) + 1)
  /\ ~Requests(c) => Seen(c) = 0 /\ Seen(c)' = 0 /\ ~Ac(c)

(* The states in which a client is connected, and those in which it is let *)
(* on.                                                                     *)
LEMMA Connections ==
  /\ Connects["sd"] = {"Bootup", "Init_sdram"}
  /\ Connects["mem"] = {"Init_sdram_done", "Init_memory"}
  /\ Connects["lb"] = {"Line_buffer", "Line_buffer_startscreen"}
  /\ Connects["bk"] = {"Background", "Line_buffer_pre_bk"}
  /\ Connects["ds"] = {"Score", "Line_buffer_pre_sp"}
  /\ Connects["dn"] = {"Note", "Line_buffer_pre_nt"} /\ Connects["au"] = {"PCM"}
  /\ Wait("sd") <=> State # "Init_sdram"
  /\ Wait("mem") <=> State # "Init_memory"
  /\ Wait("lb") <=> State \notin {"Line_buffer", "Line_buffer_startscreen"}
  /\ Wait("bk") <=> State # "Background"
  /\ Wait("ds") <=> State # "Score"
  /\ Wait("dn") <=> State # "Note"
  /\ Wait("au") <=> State # "PCM"
BY DEF Connects, Serves, Wait

(* The arbiter connects one client at a time.                              *)
LEMMA OneConnection ==
  ASSUME NEW c \in Clients, NEW d \in Clients, State \in Connects[c], State \in Connects[d]
  PROVE  c = d
BY Connections DEF Clients

(* A clock of the SDRAM.                                                   *)
LEMMA BusMoves ==
  ASSUME TypeOK, BusInv, Next
  PROVE  /\ bus.owner \in Clients \cup {None} /\ bus.age \in 0 .. MaxLatency /\ bus.ac \in BOOLEAN
         /\ MaxLatency \in Nat \ {0}
         /\ bus.ac => bus'.owner = None /\ bus'.age = 0 /\ ~bus'.ac
         /\ ~bus.ac /\ bus.age = 0 /\ Requester = {} => bus' = bus
         /\ ~bus.ac /\ bus.age = 0 /\ Requester # {} => bus'.owner \in Requester /\ bus'.age = 1
         /\ ~bus.ac /\ bus.age > 0 => bus'.owner = bus.owner /\ bus'.age = bus.age + 1
         /\ bus'.age \in 0 .. MaxLatency /\ (bus'.age = MaxLatency => bus'.ac)
<1>1. bus \in BusType /\ Sdram /\ MaxLatency \in Nat \ {0} /\ (bus.age = MaxLatency => bus.ac)
  BY Types, Ticks, RasterAssumption DEF BusInv
<1>2. bus.owner \in Clients \cup {None} /\ bus.age \in 0 .. MaxLatency /\ bus.ac \in BOOLEAN
  BY <1>1 DEF BusType
<1>3. CASE bus.ac
  <2>1. bus' = [owner |-> None, age |-> 0, ac |-> FALSE]
    BY <1>1, <1>3, Zenon DEF Sdram
  <2>2. bus'.owner = None /\ bus'.age = 0 /\ ~bus'.ac
    BY <2>1
  <2> QED BY <1>1, <1>2, <1>3, <2>2
<1>4. CASE ~bus.ac /\ bus.age = 0 /\ Requester = {}
  <2>1. bus' = bus
    BY <1>1, <1>4, Zenon DEF Sdram
  <2> QED BY <1>1, <1>2, <1>4, <2>1
<1>5. CASE ~bus.ac /\ ~(bus.age = 0 /\ Requester = {})
  <2>1. PICK a \in BOOLEAN :
          /\ bus.age + 1 = MaxLatency => a
          /\ bus' = [owner |-> IF bus.age = 0 THEN CHOOSE c \in Requester : TRUE ELSE bus.owner,
                     age |-> bus.age + 1, ac |-> a]
    BY <1>1, <1>5, Zenon DEF Sdram
  <2>2. Requester # {} => (CHOOSE c \in Requester : TRUE) \in Requester
    BY Zenon
  <2>3. bus'.age = bus.age + 1 /\ bus'.ac = a
        /\ bus'.owner = (IF bus.age = 0 THEN CHOOSE c \in Requester : TRUE ELSE bus.owner)
    BY <2>1
  <2>4. bus.age + 1 \in 0 .. MaxLatency
    BY <1>1, <1>2, <1>5
  <2>5. bus'.age = MaxLatency => bus'.ac
    BY <2>1, <2>3
  <2>6. bus.age = 0 => bus'.owner \in Requester
    BY <1>5, <2>2, <2>3
  <2>7. bus.age # 0 => bus'.owner = bus.owner
    BY <2>3
  <2> HIDE <2>1
  <2>8. bus'.age = bus.age + 1
    BY <2>3
  <2> QED BY <1>1, <1>2, <1>5, <2>4, <2>5, <2>6, <2>7, <2>8
<1> QED BY <1>3, <1>4, <1>5

(* A request is looked at, ages, and is answered at MaxLatency at the      *)
(* latest.                                                                 *)
LEMMA Asks ==
  ASSUME TypeOK, BusInv, Next, NEW c \in Clients
  PROVE  Asked(c) /\ (Ac(c) => bus.ac)
<1>1. /\ bus.age = 0 => bus.owner = None /\ ~bus.ac
      /\ bus.age = MaxLatency => bus.ac
      /\ bus.age > 0 => bus.owner \in Clients /\ State \in Connects[bus.owner] /\ Requests(bus.owner)
  BY DEF BusInv, BusHeld
<1>2. c # None
  BY DEF Clients, None
<1>3. Seen(c) \in 0 .. MaxLatency /\ Seen(c)' \in 0 .. MaxLatency
  BY BusMoves DEF Seen
<1>4. Ac(c) => bus.ac
  BY DEF Ac
<1>5. ASSUME Requests(c), State \in Connects[c] PROVE Seen(c)' = (IF Ac(c) THEN 0 ELSE Seen(c) + 1)
  <2>1. c \in Requester
    BY <1>5 DEF Requester
  <2>2. \A d \in Requester : d = c
    BY <1>5, OneConnection DEF Requester
  <2>3. bus.age > 0 => bus.owner = c
    BY <1>1, <1>5, OneConnection
  <2>4. CASE bus.ac
    BY <2>4, <1>1, <1>2, <1>5, <2>3, BusMoves DEF Ac, Seen
  <2>5. CASE ~bus.ac /\ bus.age = 0
    BY <2>5, <1>1, <1>2, <2>1, <2>2, BusMoves DEF Ac, Seen
  <2>6. CASE ~bus.ac /\ bus.age > 0
    BY <2>6, <2>3, BusMoves DEF Ac, Seen
  <2> QED BY <2>4, <2>5, <2>6, BusMoves
<1>6. ASSUME ~Requests(c) PROVE Seen(c) = 0 /\ Seen(c)' = 0 /\ ~Ac(c)
  <2>1. bus.owner # c
    BY <1>1, <1>2, <1>6, BusMoves
  <2>2. c \notin Requester
    BY <1>6 DEF Requester
  <2>3. ~Ac(c)
    BY <1>1, <1>6, OneConnection, BusMoves DEF Ac
  <2> QED BY <1>2, <2>1, <2>2, <2>3, BusMoves DEF Seen
<1> QED BY <1>3, <1>4, <1>5, <1>6 DEF Asked

-----------------------------------------------------------------------------
(* A clock of the background.                                              *)

BkServed == State = "Background"

BkClock ==
  /\ bk'.st \notin {"Halted", "Done"} => bk'.w <= BkLast /\ bk'.base = frame_flip
  /\ bk'.st = "Pause" /\ bk'.pre = 1 => bk'.w >= 1
  /\ bk.st = "Halted" => bk'.st = IF BkServed THEN "Read" ELSE "Halted"
  /\ bk.st = "Done" => bk'.st = IF NewFrame THEN "Halted" ELSE "Done"
  /\ bk.st \notin {"Halted", "Done"} => bk'.st # "Halted"
  /\ BkDrain \in Nat /\ BkDrain' \in Nat
  /\ ~BkServed => BkDrain' + 1 <= BkDrain \/ BkDrain' = 0
  /\ BkLeft \in Nat /\ BkLeft' \in Nat
  /\ bk.st # "Done" => BkLeft' <= BkLeft /\ (BkServed => BkLeft' + 1 <= BkLeft)

(* A clock of the background's drawer, which is heard if it asks.          *)
LEMMA BkClocks ==
  ASSUME TypeOK, Ranges, BusInv, Next, bk.st \in {"Read", "Write"} => State \in Connects["bk"]
  PROVE  BkClock
<1> DEFINE r == Wait("bk")  ac == Ac("bk")  s == Seen("bk")  t == Seen("bk")'  l == BkWords(bk.w)
<1>1. BkStep(r, ac, frame_flip, NewFrame) /\ bk \in BkType /\ frame_flip \in 0 .. 1
  BY Types, Ticks
<1>2. /\ s \in 0 .. MaxLatency /\ t \in 0 .. MaxLatency
      /\ bk.st \in {"Read", "Write"} => t = (IF ac THEN 0 ELSE s + 1)
      /\ bk.st \notin {"Read", "Write"} => s = 0 /\ t = 0
  <2>1. Asked("bk")
    BY Asks DEF Clients
  <2>2. Requests("bk") <=> bk.st \in {"Read", "Write"}
    BY DEF Requests, BkRequest
  <2> QED BY <2>1, <2>2 DEF Asked
<1>3. r <=> ~BkServed
  BY Connections DEF BkServed
<1>4. WordTime \in Nat /\ WordTime = MaxLatency + 2 /\ MaxLatency \in Nat /\ BkLast \in Nat
  BY Sizes, RasterAssumption, DrawersAssumption
<1>5. /\ bk.st \notin {"Halted", "Done"} => bk.w <= BkLast /\ bk.base = frame_flip
      /\ bk.st = "Pause" /\ bk.pre = 1 => bk.w >= 1
  BY DEF Ranges
<1>6. bk.w \in Nat /\ bk.pre \in 0 .. 1 /\ bk.base \in 0 .. 1 /\ (bk.w <= BkLast => l \in Nat) /\ BkTime \in Nat
  BY <1>1, <1>4, Lefts, FillFits DEF BkType
<1>7. ASSUME bk.w < BkLast
      PROVE  BkWords(bk.w + 1) \in Nat /\ BkWords(bk.w + 1) + 2 * WordTime = l
  <2>1. bk.w \in 0 .. BkLast /\ bk.w + 1 \in 0 .. BkLast
    BY <1>4, <1>6, <1>7
  <2> QED BY <2>1, Lefts
<1>8. BkWords(BkLast) = 0 /\ BkWords(0) \in Nat /\ BkWords(0) + 2 * WordTime = BkTime - 1
  BY <1>4, Lefts
<1> HIDE DEF r, ac, s, t, l
<1>9. BkClock
  <2>1. CASE BkHalted(r, frame_flip)
    <3>1. /\ bk.st = "Halted" /\ bk'.st = (IF r THEN "Halted" ELSE "Read") /\ bk'.w = 0
          /\ bk'.base = frame_flip
      BY <1>1, <2>1 DEF BkHalted, BkType
    <3>2. BkDrain = 0 /\ BkDrain' = IF r THEN 0 ELSE MaxLatency + 2 - t
      BY <3>1 DEF BkDrain, t
    <3>3. BkLeft = BkTime /\ BkLeft' = IF r THEN BkTime ELSE BkWords(0) + 2 * WordTime - t
      BY <3>1 DEF BkLeft, t
    <3>4. t = 0
      BY <1>2, <3>1
    <3> QED BY <1>3, <1>4, <1>6, <1>8, <3>1, <3>2, <3>3, <3>4 DEF BkClock
  <2>2. CASE BkRead(ac)
    <3>1. /\ bk.st = "Read" /\ bk'.st = (IF ac THEN "Read1" ELSE "Read") /\ bk'.w = bk.w
          /\ bk'.base = bk.base
      BY <1>1, <2>2 DEF BkRead, BkType
    <3>2. BkDrain = MaxLatency + 2 - s /\ BkDrain' = IF ac THEN 1 ELSE MaxLatency + 2 - t
      BY <3>1 DEF BkDrain, s, t
    <3>3. BkLeft = l + 2 * WordTime - s /\ BkLeft' = IF ac THEN l + WordTime + 1 ELSE l + 2 * WordTime - t
      BY <3>1 DEF BkLeft, s, t, l
    <3> QED BY <1>2, <1>3, <1>4, <1>5, <1>6, <3>1, <3>2, <3>3 DEF BkClock
  <2>3. CASE BkRead1(r)
    <3>1. /\ bk.st = "Read1" /\ bk'.st = (IF r THEN "Pause" ELSE "Write") /\ bk'.w = bk.w
          /\ bk'.base = bk.base /\ bk'.pre = 0
      BY <1>1, <2>3 DEF BkRead1, BkType
    <3>2. BkDrain = 1 /\ BkDrain' = IF r THEN 0 ELSE MaxLatency + 2 - t
      BY <3>1 DEF BkDrain, t
    <3>3. BkLeft = l + WordTime + 1 /\ BkLeft' = IF r THEN l + WordTime + 1 ELSE l + WordTime - t
      BY <3>1, <1>4, <1>5, <1>6 DEF BkLeft, t, l
    <3>4. t = 0
      BY <1>2, <3>1
    <3> QED BY <1>3, <1>4, <1>5, <1>6, <3>1, <3>2, <3>3, <3>4 DEF BkClock
  <2>4. CASE BkWrite(ac)
    <3>1. /\ bk.st = "Write" /\ bk'.st = (IF ac THEN "Write1" ELSE "Write") /\ bk'.w = bk.w
          /\ bk'.base = bk.base
      BY <1>1, <2>4 DEF BkWrite, BkType
    <3>2. BkDrain = MaxLatency + 2 - s /\ BkDrain' = IF ac THEN 1 ELSE MaxLatency + 2 - t
      BY <3>1 DEF BkDrain, s, t
    <3>3. BkLeft = l + WordTime - s /\ BkLeft' = IF ac THEN l + 1 ELSE l + WordTime - t
      BY <3>1 DEF BkLeft, s, t, l
    <3> QED BY <1>2, <1>3, <1>4, <1>5, <1>6, <3>1, <3>2, <3>3 DEF BkClock
  <2>5. CASE BkWrite1(r, frame_flip)
    <3>1. /\ bk.st = "Write1" /\ bk.w <= BkLast /\ bk.base = frame_flip
          /\ bk'.st = (IF bk.w = BkLast THEN "Done" ELSE IF r THEN "Pause" ELSE "Read")
          /\ bk'.w = bk.w + 1 /\ bk'.base = frame_flip /\ bk'.pre = 1
      BY <1>1, <1>4, <1>5, <1>6, <2>5 DEF BkWrite1, BkType, Advance
    <3>2. BkDrain = 1 /\ BkDrain' = IF bk.w = BkLast \/ r THEN 0 ELSE MaxLatency + 2 - t
      BY <3>1 DEF BkDrain, t
    <3>3. BkLeft = l + 1
      BY <3>1 DEF BkLeft, l
    <3>4. t = 0
      BY <1>2, <3>1
    <3>5. CASE bk.w = BkLast
      <4>1. BkLeft' = 0
        BY <3>1, <3>5 DEF BkLeft
      <4> QED BY <1>3, <1>4, <1>6, <3>1, <3>2, <3>3, <3>5, <4>1 DEF BkClock
    <3>6. CASE bk.w < BkLast
      <4>1. BkLeft' = IF r THEN BkWords(bk.w + 1) + 2 * WordTime + 1 ELSE BkWords(bk.w + 1) + 2 * WordTime - t
        <5>1. bk'.st = (IF r THEN "Pause" ELSE "Read") /\ bk'.w = bk.w + 1 /\ bk'.pre = 1
          BY <3>1, <3>6, <1>4, <1>6
        <5> QED BY <5>1 DEF BkLeft, t
      <4> QED BY <1>3, <1>4, <1>6, <1>7, <3>1, <3>2, <3>3, <3>4, <3>6, <4>1 DEF BkClock
    <3> QED BY <1>4, <1>6, <3>1, <3>5, <3>6
  <2>6. CASE BkPause(r)
    <3>1. /\ bk.st = "Pause" /\ bk'.st = (IF r THEN "Pause" ELSE IF bk.pre = 0 THEN "Write" ELSE "Read")
          /\ bk'.w = bk.w /\ bk'.base = bk.base /\ bk'.pre = bk.pre
      BY <1>1, <2>6 DEF BkPause, BkType
    <3>2. BkDrain = 0 /\ BkDrain' = IF r THEN 0 ELSE MaxLatency + 2 - t
      BY <3>1 DEF BkDrain, t
    <3>3. t = 0
      BY <1>2, <3>1
    <3>4. BkLeft = l + (IF bk.pre = 0 THEN WordTime ELSE 2 * WordTime) + 1
      BY <3>1 DEF BkLeft, l
    <3>5. BkLeft' = IF r THEN BkLeft ELSE l + (IF bk.pre = 0 THEN WordTime ELSE 2 * WordTime) - t
      BY <3>1, <3>4 DEF BkLeft, l, t
    <3> QED BY <1>3, <1>4, <1>5, <1>6, <3>1, <3>2, <3>3, <3>4, <3>5 DEF BkClock
  <2>7. CASE BkDone(frame_flip, NewFrame)
    <3>1. bk.st = "Done" /\ bk'.st = (IF NewFrame THEN "Halted" ELSE "Done")
      BY <1>1, <2>7 DEF BkDone, BkType
    <3>2. BkDrain = 0 /\ BkDrain' = 0 /\ BkLeft = 0 /\ BkLeft' \in {0, BkTime}
      BY <3>1 DEF BkDrain, BkLeft
    <3> QED BY <1>6, <3>1, <3>2 DEF BkClock
  <2> QED BY <1>1, <2>1, <2>2, <2>3, <2>4, <2>5, <2>6, <2>7 DEF BkStep
<1> QED BY <1>9
-----------------------------------------------------------------------------
(* A clock of the notes.                                                   *)

DsServed == State = "Score"

DsClock ==
  /\ ds'.st \notin {"Halted", "Done"} => ds'.base = frame_flip
  /\ ds'.st \in {"Read", "Read1", "Write", "Write1", "Pause"} => ds'.w <= SpriteLast
  /\ ds'.st \in {"Writelong", "Writelong1", "Pauselong"} => ds'.w <= BodyLast
  /\ ds'.st = "Readlong" => ds'.w = 0
  /\ ds'.st \in {"Pause", "Pauselong"} => ds'.w >= 1
  /\ ds.st = "Halted" => IF DsServed THEN ds'.st \in {"Examine", "Examinelong"} ELSE ds'.st = "Halted"
  /\ ds.st = "Done" => ds'.st = IF NewFrame THEN "Halted" ELSE "Done"
  /\ ds.st \notin {"Halted", "Done"} => ds'.st # "Halted"
  /\ DsDrain \in Nat /\ DsDrain' \in Nat
  /\ ~DsServed => DsDrain' + 1 <= DsDrain \/ DsDrain' = 0
  /\ DsLeft \in Nat /\ DsLeft' \in Nat
  /\ ds.st # "Done" => DsLeft' <= DsLeft /\ (DsServed => DsLeft' + 1 <= DsLeft)

(* A clock of the notes' drawer.                                           *)
LEMMA DsClocks ==
  ASSUME TypeOK, Ranges, BusInv, Next, ds.st \in {"Write", "Writelong"} => State \in Connects["ds"]
  PROVE  DsClock
<1> DEFINE r == Wait("ds")  ac == Ac("ds")  s == Seen("ds")  t == Seen("ds")'
           ws == DsWords(ds.w)  wl == DlWords(ds.w)  n == NextDrain  e == NotesLeft  m == WordTime
<1>1. DsStep(r, ac, frame_flip, NewFrame) /\ ds \in DsType /\ frame_flip \in 0 .. 1
  BY Types, Ticks
<1>2. /\ s \in 0 .. MaxLatency /\ t \in 0 .. MaxLatency
      /\ ds.st \in {"Write", "Writelong"} => t = (IF ac THEN 0 ELSE s + 1)
      /\ ds.st \notin {"Write", "Writelong"} => s = 0 /\ t = 0
  <2>1. Asked("ds")
    BY Asks DEF Clients
  <2>2. Requests("ds") <=> ds.st \in {"Write", "Writelong"}
    BY DEF Requests, DsRequest
  <2> QED BY <2>1, <2>2 DEF Asked
<1>3. r <=> ~DsServed
  BY Connections DEF DsServed
<1>4. m \in Nat /\ m = MaxLatency + 2 /\ MaxLatency \in Nat /\ SpriteLast \in Nat \ {0} /\ BodyLast \in Nat \ {0}
      /\ NoteLast \in Nat /\ SpriteTime \in Nat /\ BodyTime \in Nat
  BY Sizes, RasterAssumption, DrawersAssumption
<1>5. /\ ds.st \notin {"Halted", "Done"} => ds.base = frame_flip
      /\ ds.st \in {"Read", "Read1", "Write", "Write1", "Pause"} => ds.w <= SpriteLast
      /\ ds.st \in {"Writelong", "Writelong1", "Pauselong"} => ds.w <= BodyLast
      /\ ds.st = "Readlong" => ds.w = 0
      /\ ds.st \in {"Pause", "Pauselong"} => ds.w >= 1
  BY DEF Ranges
<1>6. ds.w \in Nat /\ ds.base \in 0 .. 1 /\ ds.note \in 0 .. NoteLast
  BY <1>1, <1>4 DEF DsType
<1>7. (ds.w <= SpriteLast => ws \in Nat) /\ (ds.w <= BodyLast => wl \in Nat) /\ DsTime \in Nat
  BY <1>4, <1>6, Lefts, FillFits
<1>8. ASSUME ds.w < SpriteLast
      PROVE  DsWords(ds.w + 1) \in Nat /\ DsWords(ds.w + 1) + (WordTime + 2) = ws
  <2>1. ds.w \in 0 .. SpriteLast /\ ds.w + 1 \in 0 .. SpriteLast
    BY <1>4, <1>6, <1>8
  <2> QED BY <2>1, Lefts
<1>9. ASSUME ds.w < BodyLast
      PROVE  DlWords(ds.w + 1) \in Nat /\ DlWords(ds.w + 1) + (WordTime + 2) = wl
  <2>1. ds.w \in 0 .. BodyLast /\ ds.w + 1 \in 0 .. BodyLast
    BY <1>4, <1>6, <1>9
  <2> QED BY <2>1, Lefts
<1>10. /\ DsWords(0) \in Nat /\ DsWords(0) + (WordTime + 2) = SpriteTime
       /\ DlWords(0) \in Nat /\ DlWords(0) + (WordTime + 2) = BodyTime
  BY <1>4, Lefts
<1>11. n \in Nat /\ n = 2 * (NoteLast - ds.note) + MaxLatency + 4 /\ e \in Nat
  <2>1. NoteLast - ds.note \in Nat
    BY <1>4, <1>6
  <2>2. NotesTime(NoteLast - ds.note) \in Nat
    BY <2>1, Times
  <2>3. NotesLeft \in Nat
    BY <2>2 DEF NotesLeft
  <2> QED BY <1>4, <2>1, <2>3 DEF NextDrain
<1> HIDE DEF r, ac, s, t, ws, wl, n, e, m
<1>12. CASE DsHalted(r, frame_flip)
  <2>1. /\ ds.st = "Halted" /\ ds'.note = 0 /\ ds'.w = 0 /\ ds'.base = frame_flip
        /\ IF r THEN ds'.st = "Halted" ELSE ds'.st \in {"Examine", "Examinelong"}
    BY <1>1, <1>12 DEF DsHalted, DsType
  <2>2. t = 0 /\ DsDrain = 0 /\ DsLeft = DsTime
    BY <1>2, <2>1 DEF DsDrain, DsLeft
  <2>3. CASE r
    <3>1. DsDrain' = 0 /\ DsLeft' = DsTime
      BY <2>1, <2>3 DEF DsDrain, DsLeft
    <3> QED BY <1>3, <1>7, <2>1, <2>2, <2>3, <3>1 DEF DsClock
  <2>4. CASE ~r
    <3>1. DsDrain' = 1 + (2 * NoteLast + MaxLatency + 4)
      <4>1. NextDrain' = 2 * NoteLast + MaxLatency + 4
        BY <2>1, <1>4 DEF NextDrain
      <4>2. DsDrain' = 1 + NextDrain'
        BY <2>1, <2>4 DEF DsDrain
      <4> QED BY <4>1, <4>2
    <3>2. NotesTime(NoteLast) \in Nat /\ NotesTime(NoteLast) + (BodyTime + SpriteTime + 2) = DsTime - 1
      <4>1. NoteLast \in Nat /\ NoteLast + 1 \in Nat
        BY <1>4
      <4>2. NotesTime(NoteLast + 1) = NotesTime(NoteLast) + (BodyTime + SpriteTime + 2)
        BY <4>1, Times
      <4> QED BY <4>1, <4>2, Times
    <3>3. DsLeft' = (IF ds'.st = "Examinelong" THEN BodyTime ELSE 0) + (SpriteTime + 1 + (NotesTime(NoteLast) + 1))
      <4>1. ExamineLeft' = SpriteTime + 1 + (NotesTime(NoteLast - 0) + 1)
        BY <2>1 DEF ExamineLeft, NotesLeft
      <4>2. DsLeft' = IF ds'.st = "Examinelong" THEN BodyTime + ExamineLeft' ELSE ExamineLeft'
        BY <2>1, <2>4 DEF DsLeft
      <4> QED BY <4>1, <4>2, <3>2, <1>4
    <3> QED BY <1>3, <1>4, <1>7, <2>1, <2>2, <2>4, <3>1, <3>2, <3>3 DEF DsClock
  <2> QED BY <2>3, <2>4
<1>13. CASE DsExamine(frame_flip)
  <2>1. /\ ds'.note = ds.note /\ ds'.w = 0 /\ ds'.base = frame_flip
        /\ \/ ds.st \in {"Examine", "Examinelong"} /\ ds'.st = "To_next"
           \/ ds.st = "Examine" /\ ds'.st = "Read"
           \/ ds.st = "Examinelong" /\ ds'.st = "Readlong"
    BY <1>1, <1>13 DEF DsExamine, DsType
  <2>2. n' = n /\ e' = e
    BY <2>1 DEF n, e, NextDrain, NotesLeft
  <2>3. DsDrain = 1 + n /\ DsLeft = (IF ds.st = "Examinelong" THEN BodyTime ELSE 0) + (SpriteTime + 1 + e)
    BY <2>1, <1>4, <1>11 DEF DsDrain, DsLeft, ExamineLeft, n, e
  <2>4. CASE ds'.st = "To_next"
    <3>1. DsDrain' = n /\ DsLeft' = e
      BY <2>2, <2>4 DEF DsDrain, DsLeft, n, e
    <3> QED BY <1>4, <1>11, <2>1, <2>3, <2>4, <3>1 DEF DsClock
  <2>5. CASE ds'.st = "Read"
    <3>1. DsDrain' = MaxLatency + 3 + 1 /\ DsLeft' = DsWords(0) + WordTime + 2 + e
      BY <2>1, <2>2, <2>5, <1>4 DEF DsDrain, DsLeft, NoteEnd, e
    <3> QED BY <1>4, <1>6, <1>10, <1>11, <2>1, <2>3, <2>5, <3>1 DEF DsClock, m
  <2>6. CASE ds'.st = "Readlong"
    <3>1. DsDrain' = MaxLatency + 3 /\ DsLeft' = DlWords(0) + WordTime + 1 + (SpriteTime + 1 + e)
      BY <2>1, <2>2, <2>6, <1>4 DEF DsDrain, DsLeft, ExamineLeft, e
    <3> QED BY <1>4, <1>6, <1>10, <1>11, <2>1, <2>3, <2>6, <3>1 DEF DsClock, m
  <2> QED BY <2>1, <2>4, <2>5, <2>6
<1>14. CASE DsRead
  <2>1. /\ ds'.note = ds.note /\ ds'.w = ds.w /\ ds'.base = ds.base
        /\ \/ ds.st = "Read" /\ ds'.st = "Read1"
           \/ ds.st = "Read1" /\ ds'.st = "Write"
           \/ ds.st = "Readlong" /\ ds'.st = "Writelong"
    BY <1>1, <1>14 DEF DsRead, DsMove, DsType
  <2>2. n' = n /\ e' = e /\ t = 0
    BY <1>2, <2>1 DEF n, e, NextDrain, NotesLeft
  <2>3. CASE ds.st = "Read"
    <3>1. /\ DsDrain = MaxLatency + 3 + NoteEnd(ds.w) /\ DsDrain' = MaxLatency + 2 + NoteEnd(ds.w)
          /\ DsLeft = ws + WordTime + 2 + e /\ DsLeft' = ws + WordTime + 1 + e
      BY <2>1, <2>2, <2>3 DEF DsDrain, DsLeft, NoteEnd, e, ws, n
    <3> QED BY <1>4, <1>5, <1>6, <1>7, <1>11, <2>1, <2>3, <3>1 DEF DsClock, NoteEnd, n, m
  <2>4. CASE ds.st = "Read1"
    <3>1. /\ DsDrain = MaxLatency + 2 + NoteEnd(ds.w) /\ DsDrain' = MaxLatency + 1 - t + NoteEnd(ds.w)
          /\ DsLeft = ws + WordTime + 1 + e /\ DsLeft' = ws + WordTime - t + e
      BY <2>1, <2>2, <2>4 DEF DsDrain, DsLeft, NoteEnd, e, ws, n, t
    <3> QED BY <1>4, <1>5, <1>6, <1>7, <1>11, <2>1, <2>2, <2>4, <3>1 DEF DsClock, NoteEnd, n, m
  <2>5. CASE ds.st = "Readlong"
    <3>1. /\ DsDrain = MaxLatency + 3 /\ DsDrain' = MaxLatency + 1 - t + 1
          /\ DsLeft = DlWords(0) + WordTime + 1 + (SpriteTime + 1 + e)
          /\ DsLeft' = DlWords(0) + WordTime - t + (SpriteTime + 1 + e)
      BY <1>5, <2>1, <2>2, <2>5 DEF DsDrain, DsLeft, BodyEnd, ExamineLeft, e, t
    <3> QED BY <1>4, <1>5, <1>6, <1>10, <1>11, <2>1, <2>2, <2>5, <3>1 DEF DsClock, m
  <2> QED BY <2>1, <2>3, <2>4, <2>5
<1>15. CASE DsWrite(ac)
  <2>1. /\ ds'.note = ds.note /\ ds'.w = ds.w /\ ds'.base = ds.base
        /\ \/ ds.st = "Write" /\ ds'.st = (IF ac THEN "Write1" ELSE "Write")
           \/ ds.st = "Writelong" /\ ds'.st = (IF ac THEN "Writelong1" ELSE "Writelong")
    BY <1>1, <1>15 DEF DsWrite, DsMove, DsType
  <2>2. n' = n /\ e' = e
    BY <2>1 DEF n, e, NextDrain, NotesLeft
  <2>3. CASE ds.st = "Write"
    <3>1. /\ DsDrain = MaxLatency + 1 - s + NoteEnd(ds.w)
          /\ DsDrain' = IF ac THEN NoteEnd(ds.w) ELSE MaxLatency + 1 - t + NoteEnd(ds.w)
          /\ DsLeft = ws + WordTime - s + e
          /\ DsLeft' = IF ac THEN ws + 1 + e ELSE ws + WordTime - t + e
      BY <2>1, <2>2, <2>3 DEF DsDrain, DsLeft, NoteEnd, e, ws, n, s, t
    <3> QED BY <1>2, <1>4, <1>5, <1>6, <1>7, <1>11, <2>1, <2>3, <3>1 DEF DsClock, NoteEnd, n, m
  <2>4. CASE ds.st = "Writelong"
    <3>1. /\ DsDrain = MaxLatency + 1 - s + BodyEnd(ds.w)
          /\ DsDrain' = IF ac THEN BodyEnd(ds.w) ELSE MaxLatency + 1 - t + BodyEnd(ds.w)
          /\ DsLeft = wl + WordTime - s + (SpriteTime + 1 + e)
          /\ DsLeft' = IF ac THEN wl + 1 + (SpriteTime + 1 + e) ELSE wl + WordTime - t + (SpriteTime + 1 + e)
      BY <2>1, <2>2, <2>4 DEF DsDrain, DsLeft, BodyEnd, ExamineLeft, e, wl, n, s, t
    <3> QED BY <1>2, <1>4, <1>5, <1>6, <1>7, <1>11, <2>1, <2>4, <3>1 DEF DsClock, BodyEnd, n, m
  <2> QED BY <2>1, <2>3, <2>4
<1>16. CASE DsWrite1(r, frame_flip)
  <2>1. /\ ds'.note = ds.note /\ ds'.base = frame_flip /\ ds.st = "Write1" /\ ds'.w = ds.w + 1
        /\ ds'.st = (IF ds.w >= SpriteLast THEN "To_next" ELSE IF r THEN "Pause" ELSE "Read")
    <3>1. ds.st = "Write1" /\ Advance(ds.w, SpriteLast) = ds.w + 1 /\ ds.base = frame_flip
      BY <1>4, <1>5, <1>6, <1>16 DEF DsWrite1, Advance
    <3> QED BY <1>1, <1>16, <3>1 DEF DsWrite1, DsAtEnd, DsType
  <2>2. n' = n /\ e' = e /\ t = 0
    BY <1>2, <2>1 DEF n, e, NextDrain, NotesLeft
  <2>3. DsDrain = NoteEnd(ds.w) /\ DsLeft = ws + 1 + e
    BY <2>1 DEF DsDrain, DsLeft, e, ws
  <2>4. CASE ds.w >= SpriteLast
    <3>1. DsDrain' = n /\ DsLeft' = e
      BY <2>1, <2>2, <2>4 DEF DsDrain, DsLeft, n, e
    <3> QED BY <1>4, <1>5, <1>7, <1>11, <2>1, <2>3, <2>4, <3>1 DEF DsClock, NoteEnd, n
  <2>5. CASE ds.w < SpriteLast /\ r
    <3>1. DsDrain' = 0 /\ DsLeft' = DsWords(ds.w + 1) + WordTime + 3 + e
      BY <1>4, <1>6, <2>1, <2>2, <2>5 DEF DsDrain, DsLeft, e
    <3> QED BY <1>3, <1>4, <1>6, <1>8, <1>11, <2>1, <2>3, <2>5, <3>1 DEF DsClock, NoteEnd, n, m
  <2>6. CASE ds.w < SpriteLast /\ ~r
    <3>1. ds'.st = "Read" /\ ds'.w = ds.w + 1
      BY <1>4, <1>6, <2>1, <2>6
    <3>2. DsDrain' = MaxLatency + 3 + NoteEnd(ds.w)' /\ DsLeft' = DsWords(ds.w + 1) + WordTime + 2 + e
      BY <2>2, <3>1 DEF DsDrain, DsLeft, NoteEnd, e
    <3>3. NoteEnd(ds.w)' \in Nat
      BY <1>4, <1>6, <1>11, <2>2, <3>1 DEF NoteEnd, n
    <3> QED BY <1>3, <1>4, <1>6, <1>8, <1>11, <2>1, <2>3, <2>6, <3>1, <3>2, <3>3
               DEF DsClock, NoteEnd, n, m
  <2> QED BY <1>4, <1>6, <2>4, <2>5, <2>6
<1>17. CASE DsWritelong1(r, frame_flip)
  <2>1. PICK last \in 1 .. BodyLast :
          ds' = [ds EXCEPT !.w = Advance(@, BodyLast),
                   !.st = IF DsAtEnd(last, frame_flip) THEN "Examine"
                          ELSE IF r THEN "Pauselong" ELSE "Writelong"]
    BY <1>17 DEF DsWritelong1
  <2>2. /\ ds'.note = ds.note /\ ds'.base = frame_flip /\ ds.st = "Writelong1" /\ ds'.w = ds.w + 1
        /\ ds'.st = (IF ds.w >= last THEN "Examine" ELSE IF r THEN "Pauselong" ELSE "Writelong")
    <3>1. ds.st = "Writelong1" /\ Advance(ds.w, BodyLast) = ds.w + 1 /\ ds.base = frame_flip
      BY <1>4, <1>5, <1>6, <1>17 DEF DsWritelong1, Advance
    <3> QED BY <1>1, <2>1, <3>1 DEF DsAtEnd, DsType
  <2>3. n' = n /\ e' = e /\ t = 0
    BY <1>2, <2>2 DEF n, e, NextDrain, NotesLeft
  <2>4. DsDrain = BodyEnd(ds.w) /\ DsLeft = wl + 1 + (SpriteTime + 1 + e)
    BY <2>2 DEF DsDrain, DsLeft, ExamineLeft, e, wl
  <2>5. CASE ds.w >= last
    <3>1. DsDrain' = 1 + n /\ DsLeft' = SpriteTime + 1 + e
      BY <2>2, <2>3, <2>5 DEF DsDrain, DsLeft, ExamineLeft, n, e
    <3> QED BY <1>4, <1>5, <1>6, <1>7, <1>11, <2>2, <2>4, <2>5, <3>1 DEF DsClock, BodyEnd, n
  <2>6. CASE ds.w < last /\ r
    <3>1. DsDrain' = 0 /\ DsLeft' = DlWords(ds.w + 1) + WordTime + 1 + (SpriteTime + 1 + e)
      BY <1>4, <1>6, <2>2, <2>3, <2>6 DEF DsDrain, DsLeft, ExamineLeft, e
    <3> QED BY <1>3, <1>4, <1>6, <1>9, <1>11, <2>2, <2>4, <2>6, <3>1 DEF DsClock, BodyEnd, n, m
  <2>7. CASE ds.w < last /\ ~r
    <3>1. ds'.st = "Writelong" /\ ds'.w = ds.w + 1 /\ ds.w < BodyLast
      BY <1>4, <1>6, <2>2, <2>7
    <3>2. /\ DsDrain' = MaxLatency + 1 - t + BodyEnd(ds.w)'
          /\ DsLeft' = DlWords(ds.w + 1) + WordTime - t + (SpriteTime + 1 + e)
      BY <2>3, <3>1 DEF DsDrain, DsLeft, BodyEnd, ExamineLeft, e, t
    <3>3. BodyEnd(ds.w)' \in Nat
      BY <1>4, <1>6, <1>11, <2>3, <3>1 DEF BodyEnd, n
    <3> QED BY <1>3, <1>4, <1>6, <1>9, <1>11, <2>2, <2>3, <2>4, <2>7, <3>1, <3>2, <3>3
               DEF DsClock, BodyEnd, n, m
  <2> QED BY <1>4, <1>6, <2>5, <2>6, <2>7
<1>18. CASE DsToNext
  <2>1. /\ ds.st = "To_next" /\ ds'.w = ds.w /\ ds'.base = ds.base
        /\ ds'.note = (IF ds.note = NoteLast THEN 0 ELSE ds.note + 1)
        /\ IF ds.note = NoteLast THEN ds'.st = "Done" ELSE ds'.st \in {"Examine", "Examinelong"}
    BY <1>1, <1>18 DEF DsToNext, DsType
  <2>2. DsDrain = n /\ DsLeft = e
    BY <2>1 DEF DsDrain, DsLeft, n, e
  <2>3. CASE ds.note = NoteLast
    <3>1. DsDrain' = 0 /\ DsLeft' = 0
      BY <2>1, <2>3 DEF DsDrain, DsLeft
    <3>2. e >= 1
      <4>1. NoteLast - ds.note \in Nat
        BY <1>4, <1>6
      <4>2. NotesTime(NoteLast - ds.note) \in Nat
        BY <4>1, Times
      <4> QED BY <4>2 DEF e, NotesLeft
    <3> QED BY <1>11, <2>1, <2>2, <2>3, <3>1, <3>2 DEF DsClock
  <2>4. CASE ds.note # NoteLast
    <3>1. ds'.st \in {"Examine", "Examinelong"} /\ ds'.note = ds.note + 1
      BY <2>1, <2>4
    <3>2. DsDrain' = 1 + NextDrain' /\ NextDrain' = n - 2
      BY <1>4, <1>6, <1>11, <3>1 DEF DsDrain, NextDrain, n
    <3>3. NotesLeft' \in Nat /\ NotesLeft' + (BodyTime + SpriteTime + 2) = e
      <4>1. NoteLast - ds.note \in Nat /\ NoteLast - (ds.note + 1) \in Nat
            /\ NoteLast - ds.note = (NoteLast - (ds.note + 1)) + 1
        BY <1>4, <1>6, <2>4
      <4>2. /\ NotesTime(NoteLast - ds.note) = NotesTime(NoteLast - (ds.note + 1)) + (BodyTime + SpriteTime + 2)
            /\ NotesTime(NoteLast - (ds.note + 1)) \in Nat
        BY <4>1, Times
      <4>3. NotesLeft' = NotesTime(NoteLast - (ds.note + 1)) + 1 /\ e = NotesTime(NoteLast - ds.note) + 1
        BY <3>1 DEF NotesLeft, e
      <4> QED BY <1>4, <4>2, <4>3
    <3>4. DsLeft' = (IF ds'.st = "Examinelong" THEN BodyTime ELSE 0) + (SpriteTime + 1 + NotesLeft')
      BY <1>4, <3>1, <3>3 DEF DsLeft, ExamineLeft
    <3>5. DsLeft' \in Nat /\ DsLeft' + 1 <= e
      <4> DEFINE p == NotesLeft'  q == DsLeft'
      <4>1. BodyTime \in Nat /\ SpriteTime \in Nat /\ p \in Nat /\ p + (BodyTime + SpriteTime + 2) = e
        BY <1>4, <3>3
      <4>2. q = SpriteTime + 1 + p \/ q = BodyTime + (SpriteTime + 1 + p)
        BY <1>4, <3>3, <3>4
      <4> HIDE DEF p, q
      <4>3. q \in Nat /\ q + 1 <= e
        BY <4>1, <4>2
      <4> QED BY <4>3 DEF q
    <3>6. DsDrain' \in Nat /\ DsDrain' + 1 <= n
      BY <1>4, <1>6, <1>11, <2>4, <3>2
    <3>7. DsLeft \in Nat /\ DsDrain \in Nat
      BY <1>11, <2>2
    <3>8. ds'.base = frame_flip
      BY <1>5, <2>1
    <3>9. DsLeft' <= DsLeft /\ DsLeft' + 1 <= DsLeft /\ DsDrain' + 1 <= DsDrain
      <4> DEFINE d == DsLeft'  q == DsDrain'
      <4>1. d \in Nat /\ d + 1 <= DsLeft /\ q \in Nat /\ q + 1 <= DsDrain
        BY <2>2, <3>5, <3>6
      <4> HIDE DEF d, q
      <4>2. d <= DsLeft
        BY <3>7, <4>1
      <4> QED BY <4>1, <4>2 DEF d, q
    <3> QED BY <2>1, <3>1, <3>5, <3>6, <3>7, <3>8, <3>9 DEF DsClock
  <2> QED BY <2>3, <2>4
<1>19. CASE DsPause(r)
  <2>1. /\ ds'.note = ds.note /\ ds'.w = ds.w /\ ds'.base = ds.base
        /\ \/ ds.st = "Pause" /\ ds'.st = (IF r THEN "Pause" ELSE "Read")
           \/ ds.st = "Pauselong" /\ ds'.st = (IF r THEN "Pauselong" ELSE "Writelong")
    BY <1>1, <1>19 DEF DsPause, DsMove, DsType
  <2>2. n' = n /\ e' = e /\ t = 0
    BY <1>2, <2>1 DEF n, e, NextDrain, NotesLeft
  <2>3. CASE ds.st = "Pause"
    <3>1. /\ DsDrain = 0 /\ DsDrain' = IF r THEN 0 ELSE MaxLatency + 3 + NoteEnd(ds.w)
          /\ DsLeft = ws + WordTime + 3 + e
          /\ DsLeft' = IF r THEN DsLeft ELSE ws + WordTime + 2 + e
      BY <2>1, <2>2, <2>3 DEF DsDrain, DsLeft, NoteEnd, e, ws, n
    <3> QED BY <1>3, <1>4, <1>5, <1>6, <1>7, <1>11, <2>1, <2>3, <3>1 DEF DsClock, NoteEnd, n, m
  <2>4. CASE ds.st = "Pauselong"
    <3>1. /\ DsDrain = 0 /\ DsDrain' = IF r THEN 0 ELSE MaxLatency + 1 - t + BodyEnd(ds.w)
          /\ DsLeft = wl + WordTime + 1 + (SpriteTime + 1 + e)
          /\ DsLeft' = IF r THEN DsLeft ELSE wl + WordTime - t + (SpriteTime + 1 + e)
      BY <2>1, <2>2, <2>4 DEF DsDrain, DsLeft, BodyEnd, ExamineLeft, e, wl, n, t
    <3> QED BY <1>3, <1>4, <1>5, <1>6, <1>7, <1>11, <2>1, <2>2, <2>4, <3>1
               DEF DsClock, BodyEnd, n, m
  <2> QED BY <2>1, <2>3, <2>4
<1>20. CASE DsDone(NewFrame)
  <2>1. ds.st = "Done" /\ ds'.st = (IF NewFrame THEN "Halted" ELSE "Done")
    BY <1>1, <1>20 DEF DsDone, DsMove, DsType
  <2>2. DsDrain = 0 /\ DsDrain' = 0 /\ DsLeft = 0 /\ DsLeft' \in {0, DsTime}
    BY <2>1 DEF DsDrain, DsLeft
  <2> QED BY <1>7, <2>1, <2>2 DEF DsClock
<1> QED BY <1>1, <1>12, <1>13, <1>14, <1>15, <1>16, <1>17, <1>18, <1>19, <1>20 DEF DsStep
-----------------------------------------------------------------------------
(* A clock of the digits and the verdict.                                  *)

DnServed == State = "Note"

DnClock ==
  /\ dn'.st \notin {"Halted", "Done"} => dn'.base = frame_flip
  /\ dn'.st \in {"Read", "Read1", "Write", "Write1", "Pause"} => dn'.w <= DigitLast
  /\ dn'.st \in {"To_next", "S2C"} => dn'.part \in {"s", "c"}
  /\ dn'.part = "s" => dn'.i <= ScoreDigits
  /\ dn'.part = "c" => dn'.i <= ComboDigits
  /\ dn.st = "Halted" => dn'.st = IF DnServed THEN "Read" ELSE "Halted"
  /\ dn.st = "Done" => dn'.st = IF NewFrame THEN "Halted" ELSE "Done"
  /\ dn.st \notin {"Halted", "Done"} => dn'.st # "Halted"
  /\ DnDrain \in Nat /\ DnDrain' \in Nat
  /\ ~DnServed => DnDrain' + 1 <= DnDrain \/ DnDrain' = 0
  /\ DnLeft \in Nat /\ DnLeft' \in Nat
  /\ dn.st # "Done" => DnLeft' <= DnLeft /\ (DnServed => DnLeft' + 1 <= DnLeft)

(* A clock of the digits' drawer.                                          *)
LEMMA DnClocks ==
  ASSUME TypeOK, Ranges, BusInv, Next, dn.st = "Write" => State \in Connects["dn"]
  PROVE  DnClock
<1> DEFINE r == Wait("dn")  ac == Ac("dn")  s == Seen("dn")  t == Seen("dn")'
           ws == DnWords(dn.w)  e == PiecesLeft  m == WordTime
<1>1. DnStep(r, ac, frame_flip, NewFrame) /\ dn \in DnType /\ frame_flip \in 0 .. 1
  BY Types, Ticks
<1>2. /\ s \in 0 .. MaxLatency /\ t \in 0 .. MaxLatency
      /\ dn.st = "Write" => t = (IF ac THEN 0 ELSE s + 1)
      /\ dn.st # "Write" => s = 0 /\ t = 0
  <2>1. Asked("dn")
    BY Asks DEF Clients
  <2>2. Requests("dn") <=> dn.st = "Write"
    BY DEF Requests, DnRequest
  <2> QED BY <2>1, <2>2 DEF Asked
<1>3. r <=> ~DnServed
  BY Connections DEF DnServed
<1>4. /\ m \in Nat /\ m = MaxLatency + 2 /\ MaxLatency \in Nat /\ DigitLast \in Nat \ {0} /\ DigitTime \in Nat
      /\ ScoreDigits \in Nat /\ ComboDigits \in Nat /\ DnTime \in Nat
  BY Sizes, RasterAssumption, DrawersAssumption, FillFits
<1>5. /\ dn.st \notin {"Halted", "Done"} => dn.base = frame_flip
      /\ dn.st \in {"Read", "Read1", "Write", "Write1", "Pause"} => dn.w <= DigitLast
      /\ dn.st \in {"To_next", "S2C"} => dn.part \in {"s", "c"}
      /\ dn.part = "s" => dn.i <= ScoreDigits
      /\ dn.part = "c" => dn.i <= ComboDigits
  BY DEF Ranges
<1>6. dn.w \in Nat /\ dn.base \in 0 .. 1 /\ dn.part \in {"s", "c", "p"} /\ dn.i \in Nat
  BY <1>1, <1>4 DEF DnType
<1>7. dn.w <= DigitLast => ws \in Nat
  BY <1>4, <1>6, Lefts
<1>8. ASSUME dn.w < DigitLast
      PROVE  DnWords(dn.w + 1) \in Nat /\ DnWords(dn.w + 1) + (WordTime + 2) = ws
  <2>1. dn.w \in 0 .. DigitLast /\ dn.w + 1 \in 0 .. DigitLast
    BY <1>4, <1>6, <1>8
  <2> QED BY <2>1, Lefts
<1>9. DnWords(0) \in Nat /\ DnWords(0) + (WordTime + 2) = DigitTime /\ DnWords(DigitLast) = 0
  BY <1>4, Lefts
<1>10. /\ dn.part = "s" => ScoreDigits - dn.i + ComboDigits + 2 \in Nat
       /\ dn.part = "c" => ComboDigits - dn.i + 1 \in Nat
  BY <1>4, <1>5, <1>6
<1>11. e \in Nat
  <2>1. \A k \in Nat : PiecesTime(k) \in Nat
    BY Times
  <2>2. CASE dn.part = "s"
    <3>1. PiecesTime(ScoreDigits - dn.i + ComboDigits + 2) \in Nat
      BY <1>10, <2>1, <2>2
    <3> QED BY <2>2, <3>1 DEF e, PiecesLeft
  <2>3. CASE dn.part = "c"
    <3>1. PiecesTime(ComboDigits - dn.i + 1) \in Nat
      BY <1>10, <2>1, <2>3
    <3> QED BY <2>3, <3>1 DEF e, PiecesLeft
  <2>4. CASE dn.part = "p"
    BY <2>4 DEF e, PiecesLeft
  <2> QED BY <1>6, <2>2, <2>3, <2>4
<1>12. PiecesTime(1) = DigitTime + 1
  BY Times
<1>13. /\ PiecesTime(ComboDigits + 2) \in Nat /\ PiecesTime(ComboDigits + 1) \in Nat
       /\ PiecesTime(ComboDigits + 2) = PiecesTime(ComboDigits + 1) + (DigitTime + 1)
       /\ PiecesTime(ComboDigits + 1) >= DigitTime + 1
  <2>1. ComboDigits \in Nat /\ ComboDigits + 1 \in Nat /\ ComboDigits + 2 \in Nat /\ ComboDigits + 2 = (ComboDigits + 1) + 1
    BY <1>4
  <2>2. PiecesTime(ComboDigits) \in Nat /\ PiecesTime(ComboDigits + 1) \in Nat /\ PiecesTime(ComboDigits + 2) \in Nat
    BY <2>1, Times
  <2>3. PiecesTime(ComboDigits + 1) = PiecesTime(ComboDigits) + (DigitTime + 1)
    BY <2>1, Times
  <2>4. PiecesTime(ComboDigits + 2) = PiecesTime(ComboDigits + 1) + (DigitTime + 1)
    BY <2>1, Times
  <2> QED BY <1>4, <2>2, <2>3, <2>4
<1>14. /\ PiecesTime(ScoreDigits + ComboDigits + 2) \in Nat
       /\ PiecesTime(ScoreDigits + ComboDigits + 2) + (DigitTime + 1) = DnTime - 2
  <2>1. /\ ScoreDigits + ComboDigits + 2 \in Nat /\ ScoreDigits + ComboDigits + 3 \in Nat
        /\ ScoreDigits + ComboDigits + 3 = (ScoreDigits + ComboDigits + 2) + 1
    BY <1>4
  <2>2. PiecesTime(ScoreDigits + ComboDigits + 2) \in Nat
    BY <2>1, Times
  <2>3. PiecesTime(ScoreDigits + ComboDigits + 3) = PiecesTime(ScoreDigits + ComboDigits + 2) + (DigitTime + 1)
    BY <2>1, Times
  <2>4. PiecesTime(ScoreDigits + ComboDigits + 3) = DnTime - 2
    BY Times
  <2> QED BY <2>2, <2>3, <2>4
<1> HIDE DEF r, ac, s, t, ws, e, m
<1>15. CASE DnHalted(r, frame_flip)
  <2>1. /\ dn.st = "Halted" /\ dn'.st = (IF r THEN "Halted" ELSE "Read") /\ dn'.part = "s" /\ dn'.i = 0 /\ dn'.w = 0
        /\ dn'.base = frame_flip
    BY <1>15 DEF DnHalted
  <2>2. DnDrain = 0 /\ DnDrain' = IF r THEN 0 ELSE MaxLatency + 6
    BY <2>1 DEF DnDrain
  <2>3. DnLeft = DnTime
    BY <2>1 DEF DnLeft
  <2>4. PiecesLeft' = PiecesTime(ScoreDigits + ComboDigits + 2) + 2
    <3>1. ScoreDigits - 0 + ComboDigits + 2 = ScoreDigits + ComboDigits + 2
      BY <1>4
    <3> QED BY <2>1, <3>1 DEF PiecesLeft
  <2>5. DnLeft' = IF r THEN DnTime ELSE DnWords(0) + WordTime + 2 + PiecesLeft'
    BY <2>1 DEF DnLeft
  <2> QED BY <1>3, <1>4, <1>9, <1>14, <2>1, <2>2, <2>3, <2>4, <2>5 DEF DnClock, m
<1>16. CASE DnRead
  <2>1. /\ dn'.part = dn.part /\ dn'.i = dn.i /\ dn'.w = dn.w /\ dn'.base = dn.base
        /\ \/ dn.st = "Read" /\ dn'.st = "Read1"
           \/ dn.st = "Read1" /\ dn'.st = "Write"
    BY <1>1, <1>16 DEF DnRead, DnType
  <2>2. e' = e /\ t = 0
    BY <1>2, <2>1 DEF e, PiecesLeft
  <2>3. /\ DnDrain = (IF dn.st = "Read" THEN MaxLatency + 6 ELSE MaxLatency + 5)
        /\ DnDrain' = (IF dn.st = "Read" THEN MaxLatency + 5 ELSE MaxLatency + 4 - t)
    BY <2>1 DEF DnDrain, t
  <2>4. /\ DnLeft = (IF dn.st = "Read" THEN ws + WordTime + 2 + e ELSE ws + WordTime + 1 + e)
        /\ DnLeft' = (IF dn.st = "Read" THEN ws + WordTime + 1 + e ELSE ws + WordTime - t + e)
    BY <2>1, <2>2 DEF DnLeft, t, e, ws
  <2> QED BY <1>4, <1>5, <1>6, <1>7, <1>11, <2>1, <2>2, <2>3, <2>4 DEF DnClock, m
<1>17. CASE DnWrite(ac)
  <2>1. /\ dn'.part = dn.part /\ dn'.i = dn.i /\ dn'.w = dn.w /\ dn'.base = dn.base
        /\ dn.st = "Write" /\ dn'.st = (IF ac THEN "Write1" ELSE "Write")
    BY <1>1, <1>17 DEF DnWrite, DnType
  <2>2. e' = e
    BY <2>1 DEF e, PiecesLeft
  <2>3. DnDrain = MaxLatency + 4 - s /\ DnDrain' = (IF ac THEN 3 ELSE MaxLatency + 4 - t)
    BY <2>1 DEF DnDrain, s, t
  <2>4. DnLeft = ws + WordTime - s + e /\ DnLeft' = (IF ac THEN ws + 1 + e ELSE ws + WordTime - t + e)
    BY <2>1, <2>2 DEF DnLeft, s, t, e, ws
  <2> QED BY <1>2, <1>4, <1>5, <1>6, <1>7, <1>11, <2>1, <2>3, <2>4 DEF DnClock, m
<1>18. CASE DnWrite1(r, frame_flip)
  <2>1. /\ dn'.part = dn.part /\ dn'.i = dn.i /\ dn'.w = dn.w + 1 /\ dn'.base = frame_flip /\ dn.st = "Write1"
        /\ dn'.st = (IF dn.w = DigitLast THEN DnEndOfPiece ELSE IF r THEN "Pause" ELSE "Read")
    <3>1. dn.st = "Write1" /\ Advance(dn.w, DigitLast) = dn.w + 1 /\ dn.base = frame_flip
      BY <1>4, <1>5, <1>6, <1>18 DEF DnWrite1, Advance
    <3> QED BY <1>1, <1>18, <3>1 DEF DnWrite1, DnType
  <2>2. e' = e /\ t = 0
    BY <1>2, <2>1 DEF e, PiecesLeft
  <2>3. DnDrain = 3 /\ DnLeft = ws + 1 + e
    BY <2>1 DEF DnDrain, DnLeft, e, ws
  <2>4. CASE dn.w = DigitLast
    <3>1. /\ dn'.st \in {"To_next", "C2P", "Done"}
          /\ dn'.st = "To_next" => dn.part \in {"s", "c"}
          /\ dn'.st = "C2P" => dn.part = "c"
      BY <1>6, <2>1, <2>4 DEF DnEndOfPiece
    <3>2. DnDrain \in Nat /\ DnDrain' \in Nat /\ DnDrain' + 1 <= DnDrain
      <4>1. DnDrain' = 0 \/ DnDrain' = 1 \/ DnDrain' = 2
        BY <3>1 DEF DnDrain
      <4> QED BY <2>3, <4>1
    <3>6. ws \in Nat
      BY <1>4, <1>6, <1>7, <2>4
    <3>7. dn'.st # "S2C" /\ dn'.st \notin {"Read", "Read1", "Write", "Write1", "Pause", "Halted"}
      BY <3>1
    <3>3. CASE dn'.st = "C2P"
      <4>1. DnLeft' = PiecesTime(1)
        BY <3>3 DEF DnLeft
      <4>2. e >= PiecesTime(1)
        <5>1. dn.part = "c" /\ e = PiecesTime(ComboDigits - dn.i + 1) + 1
          BY <3>1, <3>3 DEF e, PiecesLeft
        <5>2. ComboDigits - dn.i \in Nat /\ ComboDigits - dn.i + 1 \in Nat
          BY <1>4, <1>5, <1>6, <5>1
        <5>3. PiecesTime(ComboDigits - dn.i) \in Nat
          BY <5>2, Times
        <5>4. PiecesTime(ComboDigits - dn.i + 1) = PiecesTime(ComboDigits - dn.i) + (DigitTime + 1)
          BY <5>2, Times
        <5> QED BY <1>4, <1>12, <5>1, <5>3, <5>4
      <4>3. DnLeft' \in Nat /\ DnLeft \in Nat /\ DnLeft' + 1 <= DnLeft /\ DnLeft' <= DnLeft
        BY <1>4, <1>11, <1>12, <2>3, <3>6, <4>1, <4>2
      <4> QED BY <1>5, <2>1, <3>2, <3>3, <4>3 DEF DnClock
    <3>4. CASE dn'.st = "To_next"
      <4>1. DnLeft' = e
        BY <2>2, <3>4 DEF DnLeft, e
      <4>2. DnLeft' \in Nat /\ DnLeft \in Nat /\ DnLeft' + 1 <= DnLeft /\ DnLeft' <= DnLeft
        BY <1>11, <2>3, <3>6, <4>1
      <4> QED BY <1>5, <2>1, <3>1, <3>2, <3>4, <3>7, <4>2 DEF DnClock
    <3>5. CASE dn'.st = "Done"
      <4>1. DnLeft' = 0
        BY <3>5 DEF DnLeft
      <4>2. DnLeft' \in Nat /\ DnLeft \in Nat /\ DnLeft' + 1 <= DnLeft /\ DnLeft' <= DnLeft
        BY <1>11, <2>3, <3>6, <4>1
      <4> QED BY <1>5, <2>1, <3>2, <3>5, <4>2 DEF DnClock
    <3> QED BY <3>1, <3>3, <3>4, <3>5
  <2>5. CASE dn.w < DigitLast
    <3>1. dn'.st = IF r THEN "Pause" ELSE "Read"
      BY <1>4, <1>6, <2>1, <2>5
    <3>2. DnDrain' = IF r THEN 0 ELSE MaxLatency + 6
      BY <3>1 DEF DnDrain
    <3>3. DnLeft' = (IF r THEN DnWords(dn.w + 1) + WordTime + 3 + e ELSE DnWords(dn.w + 1) + WordTime + 2 + e)
      BY <2>1, <2>2, <3>1 DEF DnLeft, e
    <3> QED BY <1>3, <1>4, <1>5, <1>6, <1>8, <1>11, <2>1, <2>3, <2>5, <3>1, <3>2, <3>3
               DEF DnClock, m
  <2> QED BY <1>4, <1>5, <1>6, <2>1, <2>4, <2>5
<1>19. CASE DnToNext(r, frame_flip)
  <2>1. /\ dn.st = "To_next" /\ dn'.part = dn.part /\ dn'.i = (IF DnLastPiece THEN 0 ELSE dn.i + 1) /\ dn'.w = 0
        /\ dn'.base = frame_flip /\ dn.part \in {"s", "c"}
        /\ dn'.st = (IF ~DnLastPiece THEN DnResume(r) ELSE IF dn.part = "s" THEN "S2C" ELSE "C2P")
    BY <1>1, <1>5, <1>19 DEF DnToNext, DnType
  <2>2. DnDrain = 2 /\ DnLeft = e
    BY <2>1 DEF DnDrain, DnLeft, e
  <2>3. CASE DnLastPiece /\ dn.part = "s"
    <3>1. DnDrain' = 1 /\ DnLeft' = PiecesTime(ComboDigits + 2) + 1
      BY <2>1, <2>3 DEF DnDrain, DnLeft
    <3>2. e = PiecesTime(ComboDigits + 2) + 2
      <4>1. dn.i = ScoreDigits /\ ScoreDigits - dn.i + ComboDigits + 2 = ComboDigits + 2
        BY <1>4, <2>3 DEF DnLastPiece
      <4> QED BY <2>3, <4>1 DEF e, PiecesLeft
    <3> QED BY <1>4, <1>13, <2>1, <2>2, <2>3, <3>1, <3>2 DEF DnClock
  <2>4. CASE DnLastPiece /\ dn.part = "c"
    <3>1. DnDrain' = 1 /\ DnLeft' = PiecesTime(1)
      BY <2>1, <2>4 DEF DnDrain, DnLeft
    <3>2. e = PiecesTime(1) + 1
      <4>1. dn.i = ComboDigits /\ ComboDigits - dn.i + 1 = 1
        BY <1>4, <2>4 DEF DnLastPiece
      <4> QED BY <2>4, <4>1 DEF e, PiecesLeft
    <3> QED BY <1>4, <1>12, <2>1, <2>2, <2>4, <3>1, <3>2 DEF DnClock
  <2>5. CASE ~DnLastPiece
    <3>1. dn'.st = (IF r THEN "Pause" ELSE "Read") /\ dn'.i = dn.i + 1
      BY <2>1, <2>5 DEF DnResume
    <3>2. DnDrain' = IF r THEN 0 ELSE MaxLatency + 6
      BY <3>1 DEF DnDrain
    <3>3. DnLeft' = (IF r THEN DnWords(0) + WordTime + 3 + PiecesLeft' ELSE DnWords(0) + WordTime + 2 + PiecesLeft')
      BY <2>1, <3>1 DEF DnLeft
    <3>4. PiecesLeft' \in Nat /\ PiecesLeft' + (DigitTime + 1) = e
      <4>1. CASE dn.part = "s"
        <5>1. dn.i + 1 <= ScoreDigits
          BY <1>4, <1>5, <1>6, <2>5, <4>1 DEF DnLastPiece
        <5>2. /\ ScoreDigits - dn.i + ComboDigits + 2 = (ScoreDigits - (dn.i + 1) + ComboDigits + 2) + 1
              /\ ScoreDigits - dn.i + ComboDigits + 2 \in Nat /\ ScoreDigits - (dn.i + 1) + ComboDigits + 2 \in Nat
          BY <1>4, <1>6, <5>1
        <5>3. /\ PiecesTime(ScoreDigits - (dn.i + 1) + ComboDigits + 2) \in Nat
              /\ PiecesTime(ScoreDigits - dn.i + ComboDigits + 2)
                   = PiecesTime(ScoreDigits - (dn.i + 1) + ComboDigits + 2) + (DigitTime + 1)
          BY <5>2, Times
        <5>4. /\ e = PiecesTime(ScoreDigits - dn.i + ComboDigits + 2) + 2
              /\ PiecesLeft' = PiecesTime(ScoreDigits - (dn.i + 1) + ComboDigits + 2) + 2
          BY <2>1, <3>1, <4>1 DEF e, PiecesLeft
        <5> QED BY <1>4, <5>3, <5>4
      <4>2. CASE dn.part = "c"
        <5>1. dn.i + 1 <= ComboDigits
          BY <1>4, <1>5, <1>6, <2>5, <4>2 DEF DnLastPiece
        <5>2. /\ ComboDigits - dn.i + 1 = (ComboDigits - (dn.i + 1) + 1) + 1
              /\ ComboDigits - dn.i + 1 \in Nat /\ ComboDigits - (dn.i + 1) + 1 \in Nat
          BY <1>4, <1>6, <5>1
        <5>3. /\ PiecesTime(ComboDigits - (dn.i + 1) + 1) \in Nat
              /\ PiecesTime(ComboDigits - dn.i + 1) = PiecesTime(ComboDigits - (dn.i + 1) + 1) + (DigitTime + 1)
          BY <5>2, Times
        <5>4. /\ e = PiecesTime(ComboDigits - dn.i + 1) + 1
              /\ PiecesLeft' = PiecesTime(ComboDigits - (dn.i + 1) + 1) + 1
          BY <2>1, <3>1, <4>2 DEF e, PiecesLeft
        <5> QED BY <1>4, <5>3, <5>4
      <4> QED BY <2>1, <4>1, <4>2
    <3>5. dn'.part = "s" => dn'.i <= ScoreDigits
      BY <1>4, <1>5, <1>6, <2>1, <2>5, <3>1 DEF DnLastPiece
    <3>6. dn'.part = "c" => dn'.i <= ComboDigits
      BY <1>4, <1>5, <1>6, <2>1, <2>5, <3>1 DEF DnLastPiece
    <3>7. DnLeft \in Nat /\ DnLeft' \in Nat /\ DnLeft' <= DnLeft /\ (~r => DnLeft' + 1 <= DnLeft)
      <4> DEFINE f == PiecesLeft'
      <4>1. f \in Nat /\ f + (DigitTime + 1) = e
        BY <3>4
      <4>2. DnLeft' = IF r THEN DnWords(0) + WordTime + 3 + f ELSE DnWords(0) + WordTime + 2 + f
        BY <3>3
      <4> HIDE DEF f
      <4> QED BY <1>4, <1>9, <1>11, <2>2, <4>1, <4>2 DEF m
    <3>8. DnDrain \in Nat /\ DnDrain' \in Nat /\ (r => DnDrain' = 0)
      BY <1>4, <2>2, <3>2
    <3>9. /\ dn'.st \notin {"Halted", "Done", "To_next", "S2C"} /\ dn'.base = frame_flip /\ dn'.w <= DigitLast
          /\ dn.st = "To_next"
      BY <1>4, <2>1, <3>1
    <3> QED BY <1>3, <3>5, <3>6, <3>7, <3>8, <3>9 DEF DnClock
  <2> QED BY <2>1, <2>3, <2>4, <2>5
<1>20. CASE DnS2C(r, frame_flip)
  <2>1. /\ dn.st = "S2C" /\ dn'.st = (IF r THEN "Pause" ELSE "Read") /\ dn'.part = "c" /\ dn'.i = 0 /\ dn'.w = 0
        /\ dn'.base = frame_flip
    BY <1>20 DEF DnS2C, DnResume
  <2>2. DnDrain = 1 /\ DnDrain' = IF r THEN 0 ELSE MaxLatency + 6
    BY <2>1 DEF DnDrain
  <2>3. PiecesLeft' = PiecesTime(ComboDigits + 1) + 1
    <3>1. ComboDigits - 0 + 1 = ComboDigits + 1
      BY <1>4
    <3> QED BY <2>1, <3>1 DEF PiecesLeft
  <2>4. DnLeft = PiecesTime(ComboDigits + 2) + 1
    BY <2>1 DEF DnLeft
  <2>5. DnLeft' = (IF r THEN DnWords(0) + WordTime + 3 + PiecesLeft' ELSE DnWords(0) + WordTime + 2 + PiecesLeft')
    BY <2>1 DEF DnLeft
  <2> QED BY <1>3, <1>4, <1>9, <1>13, <2>1, <2>2, <2>3, <2>4, <2>5 DEF DnClock, m
<1>21. CASE DnC2P(r, frame_flip)
  <2>1. /\ dn.st = "C2P" /\ dn'.st \in {IF r THEN "Pause" ELSE "Read", "Done"} /\ dn'.part = "p" /\ dn'.i = 0 /\ dn'.w = 0
        /\ dn'.base = frame_flip
    BY <1>21 DEF DnC2P, DnResume
  <2>2. PiecesLeft' = 0
    BY <2>1 DEF PiecesLeft
  <2>3. DnDrain = 1 /\ DnLeft = PiecesTime(1)
    BY <2>1 DEF DnDrain, DnLeft
  <2>4. CASE dn'.st = "Done"
    <3>1. DnDrain' = 0 /\ DnLeft' = 0
      BY <2>4 DEF DnDrain, DnLeft
    <3> QED BY <1>4, <1>12, <2>1, <2>3, <2>4, <3>1 DEF DnClock
  <2>5. CASE dn'.st = IF r THEN "Pause" ELSE "Read"
    <3>1. DnDrain' = IF r THEN 0 ELSE MaxLatency + 6
      BY <2>5 DEF DnDrain
    <3>2. DnLeft' = (IF r THEN DnWords(0) + WordTime + 3 ELSE DnWords(0) + WordTime + 2)
      <4>1. DnLeft' = (IF r THEN DnWords(0) + WordTime + 3 + PiecesLeft' ELSE DnWords(0) + WordTime + 2 + PiecesLeft')
        BY <2>1, <2>5 DEF DnLeft
      <4> QED BY <1>4, <1>9, <2>2, <4>1 DEF m
    <3> QED BY <1>3, <1>4, <1>9, <1>12, <2>1, <2>3, <2>5, <3>1, <3>2 DEF DnClock, m
  <2> QED BY <2>1, <2>4, <2>5
<1>22. CASE DnPause(r)
  <2>1. /\ dn'.part = dn.part /\ dn'.i = dn.i /\ dn'.w = dn.w /\ dn'.base = dn.base
        /\ dn.st = "Pause" /\ dn'.st = (IF r THEN "Pause" ELSE "Read")
    BY <1>1, <1>22 DEF DnPause, DnResume, DnType
  <2>2. e' = e
    BY <2>1 DEF e, PiecesLeft
  <2>3. DnDrain = 0 /\ DnDrain' = IF r THEN 0 ELSE MaxLatency + 6
    BY <2>1 DEF DnDrain
  <2>4. DnLeft = ws + WordTime + 3 + e /\ DnLeft' = (IF r THEN ws + WordTime + 3 + e ELSE ws + WordTime + 2 + e)
    BY <2>1, <2>2 DEF DnLeft, e, ws
  <2> QED BY <1>3, <1>4, <1>5, <1>6, <1>7, <1>11, <2>1, <2>3, <2>4 DEF DnClock, m
<1>23. CASE DnDone(NewFrame)
  <2>1. dn.st = "Done" /\ dn'.st = (IF NewFrame THEN "Halted" ELSE "Done") /\ dn'.part = dn.part /\ dn'.i = dn.i
    BY <1>1, <1>23 DEF DnDone, DnType
  <2>2. DnDrain = 0 /\ DnDrain' = 0 /\ DnLeft = 0 /\ DnLeft' \in {0, DnTime}
    BY <2>1 DEF DnDrain, DnLeft
  <2> QED BY <1>4, <1>5, <2>1, <2>2 DEF DnClock
<1> QED BY <1>1, <1>15, <1>16, <1>17, <1>18, <1>19, <1>20, <1>21, <1>22, <1>23 DEF DnStep
-----------------------------------------------------------------------------
(* The beam, and the turns of the arbiter.                                 *)

(* Two clocks to a pixel.                                                  *)
LEMMA Halves ==
  ASSUME NEW h \in Nat, NEW x \in Nat
  PROVE  h \div 2 = x <=> h = 2 * x \/ h = 2 * x + 1
BY Z3

(* The pixels at which things happen, in clocks.                           *)
LEMMA Pixels ==
  ASSUME TypeOK
  PROVE  /\ DrawX = XDrain <=> hc = Drained \/ hc = Drained + 1
         /\ DrawX = XLast <=> hc = 2 * XLast \/ hc = 2 * XLast + 1
         /\ DrawX = XPause <=> hc = 2 * XPause \/ hc = 2 * XPause + 1
         /\ DrawX = 0 <=> hc = 0 \/ hc = 1
         /\ NewFrame <=> vc = YNew /\ (hc = 2 * XPause + 2 \/ hc = 2 * XPause + 3)
         /\ NewFrameEdge <=> vc = YNew /\ hc = 2 * XPause + 1
         /\ hc \in Nat /\ hc <= 2 * XLast + 1 /\ vc \in Nat /\ vc <= YLast
<1>1. hc \in Nat /\ hc <= 2 * XLast + 1 /\ vc \in Nat /\ vc <= YLast
  BY Types, RasterAssumption
<1>2. XPause \in Nat /\ XDrain \in Nat /\ XLast \in Nat /\ XPause + 1 \in Nat /\ 0 \in Nat
  BY RasterAssumption
<1>3. \A x \in Nat : DrawX = x <=> hc = 2 * x \/ hc = 2 * x + 1
  BY <1>1, Halves DEF DrawX
<1>4. DrawX = XPause + 1 <=> hc = 2 * (XPause + 1) \/ hc = 2 * (XPause + 1) + 1
  BY <1>2, <1>3
<1>5. 2 * (XPause + 1) = 2 * XPause + 2 /\ 2 * (XPause + 1) + 1 = 2 * XPause + 3 /\ 2 * 0 = 0 /\ 2 * 0 + 1 = 1
  BY <1>2
<1>6. /\ DrawX = XDrain <=> hc = 2 * XDrain \/ hc = 2 * XDrain + 1
      /\ DrawX = XLast <=> hc = 2 * XLast \/ hc = 2 * XLast + 1
      /\ DrawX = XPause <=> hc = 2 * XPause \/ hc = 2 * XPause + 1
      /\ DrawX = 0 <=> hc = 2 * 0 \/ hc = 2 * 0 + 1
  BY <1>2, <1>3
<1> QED BY <1>1, <1>4, <1>5, <1>6 DEF NewFrame, NewFrameEdge, DrawY, Drained

(* The figures of the raster.                                              *)
LEMMA Figures ==
  /\ XPause \in Nat /\ XPause >= 1 /\ XDrain \in Nat /\ XLast \in Nat
  /\ FetchTime \in Nat /\ FetchTime >= 3 /\ FetchTime <= 2 * XPause
  /\ Drained \in Nat /\ 2 * XPause + 4 <= Drained
  /\ DrainTime \in Nat /\ DrainTime >= 10 /\ Drained + DrainTime <= 2 * XLast
  /\ FirstServed = FetchTime + 3
  /\ YShown \in Nat /\ YNew \in Nat /\ YLast = YNew + 1 /\ YShown < YNew
BY Sizes, RasterAssumption, DrawersAssumption

(* The beam.                                                               *)
LEMMA BeamMoves ==
  ASSUME TypeOK, Next
  PROVE  /\ hc <= 2 * XLast => hc' = hc + 1 /\ vc' = vc
         /\ hc = 2 * XLast + 1 => hc' = 0 /\ vc' = IF vc = YLast THEN 0 ELSE vc + 1
         /\ hc' \in Nat /\ vc' \in Nat /\ hc' <= 2 * XLast + 1 /\ vc' <= YLast
BY Pixels, Figures, Ticks DEF Beam

(* The arbiter as a function of its state.                                 *)
LEMMA Turns ==
  ASSUME TypeOK, Next
  PROVE  /\ State = "Bootup" => State' = IF NewFrame THEN "Init_sdram" ELSE "Bootup"
         /\ State = "Init_sdram" => State' = IF sd.st = "DONE" THEN "Init_sdram_done" ELSE "Init_sdram"
         /\ State = "Init_sdram_done" => State' = "Init_memory"
         /\ State = "Init_memory" => State' = IF mem.st = "Done" THEN "Init_memory_done" ELSE "Init_memory"
         /\ State = "Init_memory_done" => State' = IF NewFrame THEN "Line_buffer_startscreen" ELSE "Init_memory_done"
         /\ State = "Line_buffer_startscreen" =>
              State' = IF NewFrame /\ keyboard_start THEN "Line_buffer_pre_bk" ELSE "Line_buffer_startscreen"
         /\ State = "Line_buffer" =>
              State' = IF lb.st = "Done" THEN "Line_buffer_done"
                       ELSE IF lb.st = "Pause" THEN "Line_buffer_mid" ELSE "Line_buffer"
         /\ State = "Line_buffer_done" => State' = NextLayer(IF stop_sign THEN "Halted" ELSE "PCM")
         /\ State = "Line_buffer_mid" =>
              State' = NextLayer(IF DrawX = XDrain THEN "Line_buffer_pre_bk" ELSE "Line_buffer_mid")
         /\ State = "Background" => State' = IF DrawX = XDrain THEN "Line_buffer_pre_bk" ELSE "Background"
         /\ State = "Score" => State' = IF DrawX = XDrain THEN "Line_buffer_pre_sp" ELSE "Score"
         /\ State = "Note" => State' = IF DrawX = XDrain THEN "Line_buffer_pre_nt" ELSE "Note"
         /\ State \in Pre => State' = IF DrawX = XLast THEN "Line_buffer" ELSE State
         /\ State = "PCM" => State' = IF AuDone THEN "PCM_done" ELSE "PCM"
         /\ State = "PCM_done" => State' = "Halted"
         /\ State = "Halted" => State' = IF NewFrame THEN "Line_buffer_pre_bk" ELSE "Halted"
         /\ State \in ArbiterStates
<1>1. Arbiter /\ lb.st \in {"Halted", "Read", "Read1", "Pause", "Pause1", "Done"} /\ State \in ArbiterStates
  BY Types, Ticks DEF LbType
<1>2. CASE Bring_up
  BY <1>1, <1>2 DEF Bring_up, Go, Pre
<1>3. CASE Line_buffer_turn
  BY <1>1, <1>3 DEF Line_buffer_turn, Go, LbBusy, Pre
<1>4. CASE Drain
  BY <1>1, <1>4 DEF Drain, Go, Pre
<1>5. CASE Audio
  BY <1>1, <1>5 DEF Audio, Go, Pre
<1> QED BY <1>1, <1>2, <1>3, <1>4, <1>5 DEF Arbiter

-----------------------------------------------------------------------------
(* What a step does, from the invariant.                                   *)

(* The parts of the invariant, for use without its definition.             *)
LEMMA Parts ==
  ASSUME IInv
  PROVE  /\ TypeOK /\ Ranges /\ BusInv /\ Order /\ Drains /\ Fed /\ Where /\ Finished
         /\ Fetching /\ Picture /\ Budget
BY DEF IInv

(* The states of the drawers.                                              *)
LEMMA DrawerTypes ==
  ASSUME TypeOK
  PROVE  /\ bk.st \in {"Halted", "Read", "Read1", "Write", "Write1", "Pause", "Done"}
         /\ ds.st \in {"Halted", "Read", "Read1", "Write", "Write1", "Examine", "Examinelong",
                       "Readlong", "Writelong", "Writelong1", "To_next", "Pause", "Pauselong", "Done"}
         /\ dn.st \in {"Halted", "Read", "Read1", "Write", "Write1", "Pause", "To_next", "S2C", "C2P", "Done"}
BY Types DEF BkType, DsType, DnType

(* A drawer that asks has some way to go, and is heard.                    *)
LEMMA Asking ==
  ASSUME IInv, Next
  PROVE  /\ bk.st \in {"Read", "Write"} => BkDrain \in Int /\ BkDrain >= 2
         /\ ds.st \in {"Write", "Writelong"} => DsDrain \in Int /\ DsDrain >= 2
         /\ dn.st = "Write" => DnDrain \in Int /\ DnDrain >= 2
<1>1. MaxLatency \in Nat /\ NoteLast \in Nat
  BY RasterAssumption, DrawersAssumption
<1>2. ASSUME bk.st \in {"Read", "Write"} PROVE BkDrain \in Int /\ BkDrain >= 2
  <2>1. Seen("bk") \in 0 .. MaxLatency
    BY Asks, Parts DEF Asked, Clients
  <2>2. BkDrain = MaxLatency + 2 - Seen("bk")
    BY <1>2 DEF BkDrain
  <2> QED BY <1>1, <2>1, <2>2
<1>3. ASSUME ds.st \in {"Write", "Writelong"} PROVE DsDrain \in Int /\ DsDrain >= 2
  <2>1. Seen("ds") \in 0 .. MaxLatency
    BY Asks, Parts DEF Asked, Clients
  <2>2. NextDrain \in Nat
    <3>1. ds.note \in 0 .. NoteLast
      BY Parts, Types DEF DsType
    <3> QED BY <1>1, <3>1 DEF NextDrain
  <2>3. NoteEnd(ds.w) \in Nat /\ BodyEnd(ds.w) \in Nat /\ NoteEnd(ds.w) >= 1 /\ BodyEnd(ds.w) >= 1
    BY <2>2 DEF NoteEnd, BodyEnd
  <2>4. DsDrain = MaxLatency + 1 - Seen("ds") + (IF ds.st = "Write" THEN NoteEnd(ds.w) ELSE BodyEnd(ds.w))
    BY <1>3 DEF DsDrain
  <2> QED BY <1>1, <2>1, <2>3, <2>4
<1>4. ASSUME dn.st = "Write" PROVE DnDrain \in Int /\ DnDrain >= 2
  <2>1. Seen("dn") \in 0 .. MaxLatency
    BY Asks, Parts DEF Asked, Clients
  <2>2. DnDrain = MaxLatency + 4 - Seen("dn")
    BY <1>4 DEF DnDrain
  <2> QED BY <1>1, <2>1, <2>2
<1> QED BY <1>2, <1>3, <1>4

(* A drawer that asks is connected: it has clocks to go, and Drains says   *)
(* where that is.                                                          *)
LEMMA Heard ==
  ASSUME IInv, Next
  PROVE  /\ bk.st \in {"Read", "Write"} => State \in Connects["bk"]
         /\ ds.st \in {"Write", "Writelong"} => State \in Connects["ds"]
         /\ dn.st = "Write" => State \in Connects["dn"]
BY Asking, Parts, Connections DEF Drains, Still

(* So the three lemmas on the drawers hold.                                *)
LEMMA Clocks ==
  ASSUME IInv, Next
  PROVE  BkClock /\ DsClock /\ DnClock
BY Heard, Parts, BkClocks, DsClocks, DnClocks

(* When the buffers are swapped every drawer rests, and goes on resting.   *)
LEMMA AtEdge ==
  ASSUME IInv, Next, NewFrameEdge
  PROVE  /\ vc = YNew /\ hc = 2 * XPause + 1 /\ ~NewFrame /\ State \in BootStates \cup {"Halted"}
         /\ State' \in BootStates \cup {"Halted"} /\ (State \in BootStates <=> State' \in BootStates)
         /\ \/ State \in BootStates /\ bk.st = "Halted" /\ ds.st = "Halted" /\ dn.st = "Halted"
            \/ State = "Halted" /\ bk.st = "Done" /\ ds.st = "Done" /\ dn.st = "Done"
         /\ bk'.st = bk.st /\ ds'.st = ds.st /\ dn'.st = dn.st
<1>1. vc = YNew /\ hc = 2 * XPause + 1 /\ ~NewFrame
  BY Parts, Pixels, Figures
<1>2. State \in BootStates \cup {"Halted"}
  BY <1>1, Parts, Figures DEF Where
<1>3. \/ State \in BootStates /\ bk.st = "Halted" /\ ds.st = "Halted" /\ dn.st = "Halted"
      \/ State = "Halted" /\ bk.st = "Done" /\ ds.st = "Done" /\ dn.st = "Done"
  BY <1>2, Parts DEF Where, Order, Complete, start_sign
<1>4. bk'.st = bk.st /\ ds'.st = ds.st /\ dn'.st = dn.st
  BY <1>1, <1>2, <1>3, Clocks
     DEF BkClock, DsClock, DnClock, BkServed, DsServed, DnServed, BootStates
<1>5. State' \in BootStates \cup {"Halted"} /\ (State \in BootStates <=> State' \in BootStates)
  BY <1>1, <1>2, Turns, Parts DEF BootStates
<1> QED BY <1>1, <1>2, <1>3, <1>4, <1>5

(* A drawer that is drawing does so in the buffer of frame_flip, which     *)
(* stays.                                                                  *)
LEMMA FlipStep ==
  ASSUME IInv, Next
  PROVE  /\ frame_flip' = IF NewFrameEdge THEN 1 - frame_flip ELSE frame_flip
         /\ frame_flip \in 0 .. 1
         /\ bk'.st \notin {"Halted", "Done"} => bk'.base = frame_flip'
         /\ ds'.st \notin {"Halted", "Done"} => ds'.base = frame_flip'
         /\ dn'.st \notin {"Halted", "Done"} => dn'.base = frame_flip'
<1>1. /\ frame_flip' = IF NewFrameEdge THEN 1 - frame_flip ELSE frame_flip
      /\ frame_flip \in 0 .. 1
  BY Parts, Types, Ticks DEF Frame
<1>2. CASE NewFrameEdge
  BY <1>1, <1>2, AtEdge
<1>3. CASE ~NewFrameEdge
  BY <1>1, <1>3, Clocks DEF BkClock, DsClock, DnClock
<1> QED BY <1>1, <1>2, <1>3

(* Ranges is kept.                                                         *)
LEMMA RangesStep ==
  ASSUME IInv, Next
  PROVE  Ranges'
<1>1. lb'.st \in {"Read", "Read1"} => lb'.x <= LbLast
  <2>1. lb \in LbType /\ (lb.st \in {"Read", "Read1"} => lb.x <= LbLast) /\ LineBuffer /\ LbLast \in Nat
    BY Parts, Types, Ticks, RasterAssumption DEF Ranges
  <2>2. lb.x \in 0 .. LbLast + 1
    BY <2>1 DEF LbType
  <2>3. CASE LbHalted \/ LbPause \/ LbPause1 \/ LbDone
    <3>1. lb'.x = 0 \/ lb'.st \notin {"Read", "Read1"}
      BY <2>1, <2>3 DEF LbHalted, LbPause, LbPause1, LbDone, LbType
    <3> QED BY <2>1, <3>1
  <2>4. CASE LbRead
    <3>1. lb'.x = lb.x /\ lb.st = "Read"
      BY <2>1, <2>4 DEF LbRead, LbType
    <3> QED BY <2>1, <3>1
  <2>5. CASE LbRead1
    <3>1. lb.st = "Read1" /\ lb' = [lb EXCEPT !.st = IF lb.x = LbLast THEN "Pause" ELSE "Read", !.x = @ + 1]
      BY <2>5 DEF LbRead1
    <3>2. lb'.x = lb.x + 1 /\ lb'.st = (IF lb.x = LbLast THEN "Pause" ELSE "Read")
      BY <2>1, <3>1 DEF LbType
    <3> QED BY <2>1, <2>2, <3>1, <3>2
  <2> QED BY <2>1, <2>3, <2>4, <2>5 DEF LineBuffer
<1>2. sd'.st = "WRITE" => sd'.left > 0
  <2>1. sd \in SdType /\ SdCard /\ SdWords \in Nat
    BY Parts, Types, Ticks, RasterAssumption
  <2>2. sd.left \in Nat /\ sd.st \in {"READ", "WRITE", "DONE"} /\ (sd.st = "WRITE" => sd.left > 0)
    BY <2>1, Parts DEF SdType, Ranges
  <2>3. CASE SdRead
    <3>1. sd.st = "READ" /\ sd' \in {sd, [sd EXCEPT !.st = IF sd.left = 0 THEN "DONE" ELSE "WRITE"]}
      BY <2>3 DEF SdRead
    <3>2. sd'.left = sd.left /\ (sd'.st = "WRITE" => sd.left # 0)
      BY <2>1, <3>1 DEF SdType
    <3> QED BY <2>2, <3>2
  <2>4. CASE SdWrite
    <3>1. sd'.st # "WRITE" \/ sd' = sd
      BY <2>4 DEF SdWrite
    <3> QED BY <2>2, <3>1
  <2> QED BY <2>1, <2>2, <2>3, <2>4 DEF SdCard
<1>3. au'.left <= InitWords
  <2>1. au \in AuType /\ AudioWriter /\ au.left <= InitWords /\ InitWords \in Nat
        /\ \A n \in FillWords : n \in Nat /\ n <= InitWords
    BY Parts, Types, Ticks, RasterAssumption, Sizes DEF Ranges
  <2>2. au'.left \in FillWords \cup {InitWords, au.left, au.left - 1}
    BY <2>1 DEF AudioWriter, AuHalted, AuRequest, AuWord, AuPlay, AuPlay2, AuStoped, AuType
  <2> QED BY <2>1, <2>2 DEF AuType
<1> QED BY <1>1, <1>2, <1>3, FlipStep, Clocks DEF Ranges, BkClock, DsClock, DnClock

(* A request stays connected and held until it is answered.                *)
LEMMA Holding ==
  ASSUME IInv, Next, NEW c \in Clients, State \in Connects[c], Requests(c), ~bus.ac
  PROVE  (State \in Connects[c] /\ Requests(c))'
<1>1. ~Ac(c)
  BY DEF Ac
<1>2. CASE c = "sd"
  <2>1. sd.st = "WRITE" /\ sd' = sd
    BY <1>1, <1>2, Ticks DEF Requests, SdCard, SdRead, SdWrite
  <2> QED BY <1>2, <2>1, Turns, Parts, Connections DEF Requests, Connects
<1>3. CASE c = "mem"
  <2>1. mem.st = "Read" /\ mem'.st = "Read"
    <3>1. mem.st = "Read" /\ mem' = [mem EXCEPT !.st = "Read"] /\ mem \in MemType
      BY <1>1, <1>3, Ticks, Parts, Types DEF Requests, MemInit, MemMove
    <3> QED BY <3>1 DEF MemType
  <2> QED BY <1>3, <2>1, Turns, Parts, Connections DEF Requests, Connects
<1>4. CASE c = "lb"
  <2>1. lb.st = "Read" /\ lb' = lb
    BY <1>1, <1>4, Ticks
       DEF Requests, LineBuffer, LbHalted, LbRead, LbRead1, LbPause, LbPause1, LbDone
  <2>2. State \in {"Line_buffer", "Line_buffer_startscreen"}
    BY <1>4, Connections
  <2>3. State' = State
    <3>1. State = "Line_buffer_startscreen" => ~NewFrame
      BY <2>1, Parts, Pixels, Figures DEF Fetching, Reading, FetchRow, Pre
    <3> QED BY <2>1, <2>2, <3>1, Turns, Parts
  <2> QED BY <1>4, <2>1, <2>2, <2>3 DEF Requests, Connects
<1>5. CASE c = "bk"
  <2>1. bk.st \in {"Read", "Write"}
    BY <1>5 DEF Requests, BkRequest
  <2>2. bk'.st = bk.st
    <3>1. bk' = [bk EXCEPT !.st = bk.st, !.pre = IF bk.st = "Read" THEN 0 ELSE 1] /\ bk \in BkType
      BY <1>1, <1>5, <2>1, Ticks, Parts, Types
         DEF BkStep, BkHalted, BkRead, BkRead1, BkWrite, BkWrite1, BkPause, BkDone
    <3> QED BY <3>1 DEF BkType
  <2>3. State = "Line_buffer_pre_bk" => DrawX # XLast
    BY <2>1, Asking, Parts, Pixels, Figures DEF Drains, Still
  <2> QED BY <1>5, <2>1, <2>2, <2>3, Turns, Parts, Connections
             DEF Requests, BkRequest, Connects, Pre
<1>6. CASE c = "ds"
  <2>1. ds.st \in {"Write", "Writelong"}
    BY <1>6 DEF Requests, DsRequest
  <2>2. ds'.st = ds.st
    <3>1. ds' = [ds EXCEPT !.st = ds.st] /\ ds \in DsType
      BY <1>1, <1>6, <2>1, Ticks, Parts, Types
         DEF DsStep, DsHalted, DsExamine, DsRead, DsWrite, DsWrite1, DsWritelong1, DsToNext,
             DsPause, DsDone, DsMove
    <3> QED BY <3>1 DEF DsType
  <2>3. State = "Line_buffer_pre_sp" => DrawX # XLast
    BY <2>1, Asking, Parts, Pixels, Figures DEF Drains, Still
  <2> QED BY <1>6, <2>1, <2>2, <2>3, Turns, Parts, Connections
             DEF Requests, DsRequest, Connects, Pre
<1>7. CASE c = "dn"
  <2>1. dn.st = "Write"
    BY <1>7 DEF Requests, DnRequest
  <2>2. dn'.st = dn.st
    <3>1. dn' = [dn EXCEPT !.st = dn.st] /\ dn \in DnType
      BY <1>1, <1>7, <2>1, Ticks, Parts, Types
         DEF DnStep, DnHalted, DnRead, DnWrite, DnWrite1, DnToNext, DnS2C, DnC2P, DnPause, DnDone
    <3> QED BY <3>1 DEF DnType
  <2>3. State = "Line_buffer_pre_nt" => DrawX # XLast
    BY <2>1, Asking, Parts, Pixels, Figures DEF Drains, Still
  <2> QED BY <1>7, <2>1, <2>2, <2>3, Turns, Parts, Connections
             DEF Requests, DnRequest, Connects, Pre
<1>8. CASE c = "au"
  <2>1. au.st \in {"Init_data", "Fill"} /\ au' = au
    <3>1. au.st \in {"Init_data", "Fill"} /\ au' = [au EXCEPT !.st = au.st] /\ au \in AuType
      BY <1>1, <1>8, Ticks, Parts, Types
         DEF Requests, AudioWriter, AuHalted, AuRequest, AuWord, AuPlay, AuPlay2, AuStoped
    <3> QED BY <3>1 DEF AuType
  <2>2. ~AuDone
    BY <2>1 DEF AuDone
  <2> QED BY <1>8, <2>1, <2>2, Turns, Parts, Connections DEF Requests, Connects
<1> QED BY <1>2, <1>3, <1>4, <1>5, <1>6, <1>7, <1>8 DEF Clients

(* BusInv is kept: with Holding, a request is not let go before its        *)
(* answer.                                                                 *)
LEMMA BusStep ==
  ASSUME IInv, Next
  PROVE  BusInv'
<1>1. /\ bus.age = 0 => bus.owner = None /\ ~bus.ac
      /\ bus.age > 0 => bus.owner \in Clients /\ State \in Connects[bus.owner] /\ Requests(bus.owner)
  BY Parts DEF BusInv, BusHeld
<1>2. CASE bus.ac
  BY <1>2, Parts, BusMoves DEF BusInv, BusHeld
<1>3. CASE ~bus.ac /\ bus.age = 0 /\ Requester = {}
  BY <1>1, <1>3, Parts, BusMoves DEF BusInv, BusHeld
<1>4. CASE ~bus.ac /\ bus.age = 0 /\ Requester # {}
  <2>1. bus'.owner \in Requester /\ bus'.age = 1 /\ (bus'.age = MaxLatency => bus'.ac)
    BY <1>4, Parts, BusMoves
  <2>2. PICK c \in Requester : c = bus'.owner
    BY <2>1
  <2>3. c \in Clients /\ State' \in Connects[c] /\ Requests(c)'
    BY <1>4, Holding DEF Requester
  <2>4. BusHeld'
    BY <2>2, <2>3 DEF BusHeld, Requests, BkRequest, DsRequest, DnRequest
  <2> QED BY <2>1, <2>2, <2>3, <2>4 DEF BusInv
<1>5. CASE ~bus.ac /\ bus.age > 0
  <2>1. bus'.owner = bus.owner /\ bus'.age = bus.age + 1 /\ (bus'.age = MaxLatency => bus'.ac) /\ bus.age \in Nat
    BY <1>5, Parts, BusMoves
  <2>2. PICK c \in Clients : c = bus.owner
    BY <1>1, <1>5
  <2>3. State \in Connects[c] /\ Requests(c)
    BY <1>1, <1>5, <2>2
  <2>4. State' \in Connects[c] /\ Requests(c)'
    BY <1>5, <2>3, Holding
  <2>5. BusHeld'
    BY <2>1, <2>2, <2>4 DEF BusHeld, Requests, BkRequest, DsRequest, DnRequest
  <2> QED BY <1>1, <1>5, <2>1, <2>2, <2>5 DEF BusInv
<1> QED BY <1>2, <1>3, <1>4, <1>5, Parts, BusMoves
-----------------------------------------------------------------------------
(* The layers' turns.                                                      *)

(* While new_frame is high the drawers rest.                               *)
LEMMA AtNewFrame ==
  ASSUME IInv, NewFrame
  PROVE  /\ vc = YNew /\ (hc = 2 * XPause + 2 \/ hc = 2 * XPause + 3)
         /\ \/ State \in BootStates /\ bk.st = "Halted" /\ ds.st = "Halted" /\ dn.st = "Halted"
            \/ State = "Halted" /\ Complete /\ hc = 2 * XPause + 2
            \/ /\ State = "Line_buffer_pre_bk" /\ hc = 2 * XPause + 3
               /\ bk.st = "Halted" /\ ds.st = "Halted" /\ dn.st = "Halted"
<1>1. vc = YNew /\ (hc = 2 * XPause + 2 \/ hc = 2 * XPause + 3)
  BY Parts, Pixels
<1>2. State \in BootStates \/ (State = "Halted" /\ hc = 2 * XPause + 2)
      \/ (State = "Line_buffer_pre_bk" /\ hc = 2 * XPause + 3 /\ bk.st = "Halted")
  <2>1. State \in ArbiterStates
    BY Parts, Types
  <2>2. State \notin Layer \cup {"Line_buffer", "Line_buffer_done", "Line_buffer_mid", "PCM", "PCM_done"}
    BY <1>1, Parts, Figures DEF Where, DrawRow, FetchRow, Layer
  <2>3. State \in Pre => State = "Line_buffer_pre_bk" /\ hc = 2 * XPause + 3 /\ bk.st = "Halted"
    BY <1>1, Parts, Figures DEF Where, DrawRow, NewFrameOver
  <2>4. State = "Halted" => hc = 2 * XPause + 2
    BY <1>1, Parts, Figures DEF Where
  <2> QED BY <2>1, <2>2, <2>3, <2>4 DEF ArbiterStates, Layer, Pre
<1>3. bk.st = "Halted" => ds.st = "Halted" /\ dn.st = "Halted"
  BY Parts DEF Order
<1>4. State \in BootStates => bk.st = "Halted"
  BY Parts DEF Order, start_sign
<1>5. State = "Halted" => Complete
  BY Parts DEF Where
<1> QED BY <1>1, <1>2, <1>3, <1>4, <1>5

(* A layer is drawn in its turn, and stays drawn until new_frame.          *)
LEMMA OrderStep ==
  ASSUME IInv, Next
  PROVE  Order'
<1>1. /\ State' \in BootStates => State \in BootStates
      /\ State' = "Score" => State = "Score" \/ bk.st = "Done"
      /\ State' = "Note" => State = "Note" \/ ds.st = "Done"
      /\ State' \in {"Score", "Note"} => State \in Layer \cup {"Line_buffer_done", "Line_buffer_mid"}
  BY Parts, Turns DEF ArbiterStates, BootStates, Pre, Layer, NextLayer
<1>2. State \in BootStates => bk.st = "Halted" /\ ds.st = "Halted" /\ dn.st = "Halted" /\ au.st = "Halted"
  BY Parts DEF Order, start_sign
<1>3. ASSUME ~start_sign'
      PROVE  bk'.st = "Halted" /\ ds'.st = "Halted" /\ dn'.st = "Halted" /\ au'.st = "Halted"
  <2>1. State \in BootStates
    BY <1>1, <1>3 DEF start_sign
  <2>2. Wait("au") /\ AudioWriter
    BY <2>1, Connections, Ticks DEF BootStates
  <2>3. au'.st = "Halted"
    BY <1>2, <2>1, <2>2 DEF AudioWriter, AuHalted, AuRequest, AuWord, AuPlay, AuPlay2, AuStoped
  <2> QED BY <1>2, <2>1, <2>3, Clocks
             DEF BkClock, DsClock, DnClock, BkServed, DsServed, DnServed, BootStates
<1>4. ASSUME NewFrame PROVE ds'.st = "Halted" /\ dn'.st = "Halted" /\ State' \notin {"Score", "Note"}
  <2>1. State \in BootStates \cup {"Halted", "Line_buffer_pre_bk"}
    BY <1>4, AtNewFrame
  <2> QED BY <1>1, <1>4, <2>1, AtNewFrame, Clocks
          DEF DsClock, DnClock, DsServed, DnServed, BootStates, Complete, Layer
<1>5. ASSUME ~NewFrame
      PROVE  /\ bk.st = "Done" => bk'.st = "Done"
             /\ ds.st = "Done" => ds'.st = "Done"
  BY <1>5, Clocks DEF BkClock, DsClock
<1>6. /\ ds.st # "Halted" \/ State = "Score" => bk.st = "Done"
      /\ dn.st # "Halted" \/ State = "Note" => ds.st = "Done"
  BY Parts DEF Order
<1>7. /\ ds'.st # "Halted" => ds.st # "Halted" \/ State = "Score"
      /\ dn'.st # "Halted" => dn.st # "Halted" \/ State = "Note"
  BY Clocks DEF DsClock, DnClock, DsServed, DnServed
<1>8. /\ ds'.st # "Halted" => bk'.st = "Done"
      /\ dn'.st # "Halted" => ds'.st = "Done"
      /\ State' = "Score" => bk'.st = "Done"
      /\ State' = "Note" => ds'.st = "Done"
  BY <1>1, <1>4, <1>5, <1>6, <1>7
<1> QED BY <1>3, <1>8 DEF Order
-----------------------------------------------------------------------------
(* The drains.                                                             *)

(* One drawer, with d clocks to go before the step and e after it.         *)
LEMMA StillStep ==
  ASSUME IInv, Next, NEW c \in Layer, NEW p \in Pre, NEW d \in Nat, NEW e \in Nat,
         Still(c, p, d), State # c => e + 1 <= d \/ e = 0, e <= DrainTime,
         State = c => State' = IF DrawX = XDrain THEN p ELSE c
  PROVE  \/ State' = c
         \/ State' = p /\ (e = 0 \/ hc' + e <= Drained + 1 + DrainTime)
         \/ State' \notin {c, p} /\ e = 0
<1>1. hc \in Nat /\ XLast \in Nat /\ Drained \in Nat /\ DrainTime \in Nat /\ Drained + DrainTime <= 2 * XLast
      /\ Drained < 2 * XLast
  BY Parts, Pixels, Figures
<1>2. CASE State = c
  <2>1. hc <= Drained
    BY <1>2, Parts DEF Where
  <2>2. DrawX = XDrain => hc = Drained
    BY <1>1, <2>1, Parts, Pixels
  <2>3. hc = Drained => hc' = Drained + 1
    BY <1>1, Parts, BeamMoves
  <2> QED BY <1>1, <1>2, <2>2, <2>3
<1>3. CASE State = p
  <2>1. State' = IF DrawX = XLast THEN "Line_buffer" ELSE p
    BY <1>3, Parts, Turns
  <2>2. d = 0 \/ hc + d <= Drained + 1 + DrainTime
    BY <1>3 DEF Still, Layer, Pre
  <2>3. e + 1 <= d \/ e = 0
    BY <1>3 DEF Layer, Pre
  <2>4. CASE DrawX = XLast
    <3>1. hc = 2 * XLast \/ hc = 2 * XLast + 1
      BY <2>4, Parts, Pixels
    <3>2. e = 0
      BY <1>1, <2>2, <2>3, <3>1
    <3> QED BY <2>1, <2>4, <3>2 DEF Layer, Pre
  <2>5. CASE DrawX # XLast
    <3>1. hc' = hc + 1
      BY <1>1, <2>5, Parts, Pixels, BeamMoves
    <3> QED BY <1>1, <2>1, <2>2, <2>3, <2>5, <3>1
  <2> QED BY <2>4, <2>5
<1>4. CASE State \notin {c, p}
  <2>1. d = 0 /\ e = 0
    BY <1>4 DEF Still
  <2> QED BY <2>1
<1> QED BY <1>2, <1>3, <1>4

(* No drawer has more to do, when it is asked to stop, than DrainTime.     *)
LEMMA DrainBounds ==
  ASSUME TypeOK, BusInv, Next
  PROVE  BkDrain' <= DrainTime /\ DsDrain' <= DrainTime /\ DnDrain' <= DrainTime
<1>1. /\ Seen("bk")' \in 0 .. MaxLatency /\ Seen("ds")' \in 0 .. MaxLatency /\ Seen("dn")' \in 0 .. MaxLatency
  BY Asks DEF Asked, Clients
<1>2. DrainTime = 2 * MaxLatency + 2 * NoteLast + 8 /\ MaxLatency \in Nat /\ NoteLast \in Nat
  BY Sizes, RasterAssumption, DrawersAssumption
<1>3. BkDrain' <= DrainTime
  BY <1>1, <1>2 DEF BkDrain
<1>4. DnDrain' <= DrainTime
  <2>1. DnDrain' \in 0 .. MaxLatency + 6
    BY <1>1, <1>2 DEF DnDrain
  <2> QED BY <1>2, <2>1
<1>5. DsDrain' <= DrainTime
  <2> DEFINE n == NextDrain'  k == NoteEnd(ds.w)'  b == BodyEnd(ds.w)'  s == Seen("ds")'
  <2>1. n \in 0 .. 2 * NoteLast + MaxLatency + 4
    <3>1. ds'.note \in 0 .. NoteLast
      BY DsTypes DEF DsType
    <3> QED BY <1>2, <3>1 DEF NextDrain
  <2>2. k \in {1, 1 + n} /\ b \in {1, 2 + n}
    BY DEF NoteEnd, BodyEnd
  <2>3. DsDrain' = CASE ds'.st = "Read"       -> MaxLatency + 3 + k
                     [] ds'.st = "Read1"      -> MaxLatency + 2 + k
                     [] ds'.st = "Write"      -> MaxLatency + 1 - s + k
                     [] ds'.st = "Write1"     -> k
                     [] ds'.st = "Readlong"   -> MaxLatency + 3
                     [] ds'.st = "Writelong"  -> MaxLatency + 1 - s + b
                     [] ds'.st = "Writelong1" -> b
                     [] ds'.st = "To_next"    -> n
                     [] ds'.st \in {"Examine", "Examinelong"} -> 1 + n
                     [] OTHER -> 0
    BY DEF DsDrain
  <2>4. s \in 0 .. MaxLatency
    BY <1>1
  <2> HIDE DEF n, k, b, s
  <2> QED BY <1>2, <2>1, <2>2, <2>3, <2>4
<1> QED BY <1>3, <1>4, <1>5

(* Drains is kept: a drawer that is asked to stop has fewer clocks to go   *)
(* than the row has left.                                                  *)
LEMMA DrainsStep ==
  ASSUME IInv, Next
  PROVE  Drains'
<1> DEFINE dk == BkDrain'  dd == DsDrain'  dc == DnDrain'
<1>1. /\ dk \in Nat /\ dd \in Nat /\ dc \in Nat /\ BkDrain \in Nat /\ DsDrain \in Nat /\ DnDrain \in Nat
      /\ State # "Background" => dk + 1 <= BkDrain \/ dk = 0
      /\ State # "Score" => dd + 1 <= DsDrain \/ dd = 0
      /\ State # "Note" => dc + 1 <= DnDrain \/ dc = 0
  BY Clocks DEF BkClock, DsClock, DnClock, BkServed, DsServed, DnServed
<1>2. dk <= DrainTime /\ dd <= DrainTime /\ dc <= DrainTime
  BY Parts, DrainBounds
<1>3. /\ Still("Background", "Line_buffer_pre_bk", BkDrain)
      /\ Still("Score", "Line_buffer_pre_sp", DsDrain)
      /\ Still("Note", "Line_buffer_pre_nt", DnDrain)
  BY Parts DEF Drains
<1>4. /\ "Background" \in Layer /\ "Score" \in Layer /\ "Note" \in Layer
      /\ "Line_buffer_pre_bk" \in Pre /\ "Line_buffer_pre_sp" \in Pre
      /\ "Line_buffer_pre_nt" \in Pre
  BY DEF Layer, Pre
<1>5. /\ State = "Background" => State' = IF DrawX = XDrain THEN "Line_buffer_pre_bk" ELSE "Background"
      /\ State = "Score" => State' = IF DrawX = XDrain THEN "Line_buffer_pre_sp" ELSE "Score"
      /\ State = "Note" => State' = IF DrawX = XDrain THEN "Line_buffer_pre_nt" ELSE "Note"
  BY Parts, Turns
<1> HIDE DEF dk, dd, dc
<1>6. \/ State' = "Background"
      \/ State' = "Line_buffer_pre_bk" /\ (dk = 0 \/ hc' + dk <= Drained + 1 + DrainTime)
      \/ State' \notin {"Background", "Line_buffer_pre_bk"} /\ dk = 0
  BY <1>1, <1>2, <1>3, <1>4, <1>5, StillStep
<1>7. \/ State' = "Score"
      \/ State' = "Line_buffer_pre_sp" /\ (dd = 0 \/ hc' + dd <= Drained + 1 + DrainTime)
      \/ State' \notin {"Score", "Line_buffer_pre_sp"} /\ dd = 0
  BY <1>1, <1>2, <1>3, <1>4, <1>5, StillStep
<1>8. \/ State' = "Note"
      \/ State' = "Line_buffer_pre_nt" /\ (dc = 0 \/ hc' + dc <= Drained + 1 + DrainTime)
      \/ State' \notin {"Note", "Line_buffer_pre_nt"} /\ dc = 0
  BY <1>1, <1>2, <1>3, <1>4, <1>5, StillStep
<1>9. Drained' = Drained /\ DrainTime' = DrainTime
  BY DEF Drained, DrainTime
<1> QED BY <1>6, <1>7, <1>8, <1>9 DEF Drains, Still, dk, dd, dc
-----------------------------------------------------------------------------
(* The fill.                                                               *)

Resting == {"Halted", "Play", "Play2", "Stoped"}

AuClock ==
  /\ AuLeft \in Nat /\ AuLeft' \in Nat
  /\ State = "PCM" => AuLeft >= 1
  /\ State = "PCM" /\ ~AuDone => AuLeft' + 1 <= AuLeft /\ au'.st # "Play"
  /\ State = "PCM" /\ AuDone => au'.st \in Resting
  /\ State # "PCM" => /\ au'.st \in Resting
                      /\ au'.st = "Play" => au.st = "Play" /\ ~NewFrame
                      /\ AuLeft' <= AuWords(InitWords) + WordTime + 1

(* A clock of the writer of I2S.                                           *)
LEMMA AuClocks ==
  ASSUME IInv, Next
  PROVE  AuClock
<1> DEFINE s == Seen("au")  t == Seen("au")'  ac == Ac("au")  full == AuWords(InitWords)  n == au.left
<1>1. /\ au \in AuType /\ AudioWriter /\ n \in Nat /\ n <= InitWords
      /\ au.st \in {"Halted", "Init_data", "Init_data2", "Play", "Play2", "Fill", "Fill2", "Stoped"}
      /\ State # "PCM" => au.st \in Resting
      /\ Wait("au") <=> State # "PCM"
  BY Parts, Types, Ticks, Connections DEF AuType, Ranges, Fed, Resting
<1>2. /\ s \in 0 .. MaxLatency /\ t \in 0 .. MaxLatency
      /\ au.st \in {"Init_data", "Fill"} => t = (IF ac THEN 0 ELSE s + 1)
      /\ au.st \notin {"Init_data", "Fill"} => s = 0 /\ t = 0
  <2>1. Asked("au")
    BY Parts, Asks DEF Clients
  <2>2. Requests("au") <=> au.st \in {"Init_data", "Fill"}
    BY DEF Requests
  <2>3. au.st \in {"Init_data", "Fill"} => State \in Connects["au"]
    BY <1>1, Connections DEF Resting
  <2> QED BY <2>1, <2>2, <2>3 DEF Asked
<1>3. /\ WordTime \in Nat /\ WordTime = MaxLatency + 2 /\ MaxLatency \in Nat /\ InitWords \in Nat
      /\ \A k \in FillWords : k \in Nat /\ k <= InitWords
  BY Sizes, RasterAssumption
<1>4. full \in Nat /\ AuWords(n) \in Nat /\ (\A k \in Nat : k <= InitWords => AuWords(k) \in Nat /\ AuWords(k) <= full)
  <2>1. /\ \A k \in Nat : AuWords(k) \in Nat
        /\ \A k \in 0 .. InitWords : AuWords(k) <= full
    BY Times
  <2> QED BY <1>1, <1>3, <2>1
<1>5. n # 0 => AuWords(n - 1) \in Nat /\ AuWords(n) = AuWords(n - 1) + WordTime
  <2>1. n # 0 => n - 1 \in Nat /\ n = (n - 1) + 1
    BY <1>1
  <2> QED BY <1>1, <2>1, Times
<1> HIDE DEF s, t, ac, full, n
<1>6. CASE AuHalted
  <2>1. /\ au.st = "Halted" /\ (State # "PCM" => au'.st = "Halted")
        /\ State = "PCM" => au'.st = "Init_data" /\ au'.left = InitWords
    BY <1>1, <1>6 DEF AuHalted
  <2>2. AuLeft = full + WordTime + 1 /\ t = 0
    BY <1>2, <2>1 DEF AuLeft, full
  <2>3. AuLeft' = IF State = "PCM" THEN full + WordTime - t ELSE full + WordTime + 1
    BY <2>1 DEF AuLeft, full, t
  <2> QED BY <1>3, <1>4, <2>1, <2>2, <2>3 DEF AuClock, AuDone, Resting, full
<1>7. CASE AuRequest
  <2>1. /\ au.st \in {"Init_data", "Fill"} /\ au'.left = n
        /\ IF ac THEN au'.st \in {"Init_data2", "Fill2"} ELSE au'.st = au.st
    BY <1>1, <1>7 DEF AuRequest, AuType, n, ac
  <2>2. AuLeft = AuWords(n) + WordTime - s
    BY <2>1 DEF AuLeft, s, n
  <2>3. AuLeft' = IF ac THEN AuWords(n) + 1 ELSE AuWords(n) + WordTime - t
    BY <2>1 DEF AuLeft, t
  <2>4. State = "PCM"
    BY <1>1, <2>1 DEF Resting
  <2>5. ~AuDone /\ au'.st # "Play"
    BY <2>1 DEF AuDone
  <2> QED BY <1>2, <1>3, <1>4, <2>1, <2>2, <2>3, <2>4, <2>5 DEF AuClock
<1>8. CASE AuWord
  <2>1. /\ au.st \in {"Init_data2", "Fill2"}
        /\ n = 0 => au'.st = "Play"
        /\ n # 0 => au'.st \in {"Init_data", "Fill"} /\ au'.left = n - 1
    BY <1>1, <1>8 DEF AuWord, AuType, n
  <2>2. AuLeft = AuWords(n) + 1 /\ t = 0
    BY <1>2, <2>1 DEF AuLeft, n
  <2>3. AuLeft' = IF n = 0 THEN 1 ELSE AuWords(n - 1) + WordTime - t
    BY <2>1 DEF AuLeft, t
  <2>4. State = "PCM"
    BY <1>1, <2>1 DEF Resting
  <2>5. AuDone <=> n = 0
    BY <2>1 DEF AuDone, n
  <2> QED BY <1>3, <1>4, <1>5, <2>1, <2>2, <2>3, <2>4, <2>5 DEF AuClock, Resting
<1>9. CASE AuPlay
  <2>1. au.st = "Play" /\ au'.st = (IF NewFrame THEN "Play2" ELSE "Play")
    BY <1>1, <1>9 DEF AuPlay, AuType
  <2>2. AuLeft = 1 /\ AuLeft' \in {1, full + WordTime + 1}
    BY <2>1 DEF AuLeft, full
  <2> QED BY <1>3, <1>4, <2>1, <2>2 DEF AuClock, Resting, AuDone, full
<1>10. CASE AuPlay2
  <2>1. au.st = "Play2"
    BY <1>10 DEF AuPlay2
  <2>2. AuLeft = full + WordTime + 1 /\ t = 0 /\ ~AuDone
    BY <1>2, <2>1 DEF AuLeft, full, AuDone
  <2>3. CASE au'.st = "Stoped" \/ (State # "PCM" /\ au' = au)
    <3>1. AuLeft' = IF au'.st = "Stoped" THEN 1 ELSE full + WordTime + 1
      BY <2>1, <2>3 DEF AuLeft, full
    <3> QED BY <1>3, <1>4, <2>1, <2>2, <2>3, <3>1 DEF AuClock, Resting, full
  <2>4. CASE State = "PCM" /\ \E k \in FillWords : au' = [st |-> "Fill", left |-> k]
    <3>1. PICK k \in FillWords : au' = [st |-> "Fill", left |-> k]
      BY <2>4
    <3>2. AuLeft' = AuWords(k) + WordTime - t
      BY <3>1 DEF AuLeft, t
    <3>3. au'.st = "Fill" /\ AuWords(k) \in Nat /\ AuWords(k) <= full
      BY <1>3, <1>4, <3>1
    <3> QED BY <1>3, <1>4, <2>2, <2>4, <3>2, <3>3 DEF AuClock
  <2> QED BY <1>1, <1>10, <2>3, <2>4 DEF AuPlay2, AuType
<1>11. CASE AuStoped
  <2>1. au.st = "Stoped" /\ au'.st = "Stoped"
    BY <1>11 DEF AuStoped
  <2>2. AuLeft = 1 /\ AuLeft' = 1 /\ AuDone
    BY <2>1 DEF AuLeft, AuDone
  <2> QED BY <1>3, <1>4, <2>1, <2>2 DEF AuClock, Resting, full
<1> QED BY <1>1, <1>6, <1>7, <1>8, <1>9, <1>10, <1>11 DEF AudioWriter

(* Before row YNew the beam moves on by one clock.                         *)
LEMMA Along ==
  ASSUME TypeOK, Next, vc < YNew
  PROVE  /\ Position(vc) \in Nat /\ Position(vc)' \in Nat /\ Position(YNew) \in Nat
         /\ Position(vc)' + hc' = Position(vc) + hc + 1
<1>1. /\ hc \in Nat /\ vc \in Nat /\ XLast \in Nat /\ YNew \in Nat /\ YLast = YNew + 1 /\ Row = 2 * XLast + 2
      /\ hc <= 2 * XLast + 1
  BY Pixels, Figures, Sizes
<1>2. /\ \A r \in Nat : Position(r) \in Nat
      /\ \A r, y \in Nat : y = r + 1 => Position(y) = Position(r) + Row
  BY Rows
<1>3. vc + 1 \in Nat /\ vc # YLast
  BY <1>1
<1>4. Position(vc)' = Position(vc')
  BY DEF Position, Row
<1>5. CASE hc <= 2 * XLast
  <2>1. hc' = hc + 1 /\ vc' = vc
    BY <1>5, BeamMoves
  <2> QED BY <1>1, <1>2, <1>4, <2>1
<1>6. CASE hc = 2 * XLast + 1
  <2>1. hc' = 0 /\ vc' = vc + 1
    BY <1>3, <1>6, BeamMoves
  <2>2. Position(vc + 1) = Position(vc) + Row
    BY <1>1, <1>2, <1>3
  <2> QED BY <1>1, <1>2, <1>3, <1>4, <1>6, <2>1, <2>2
<1> QED BY <1>1, <1>5, <1>6

(* Fed is kept: a fill begun in a row of its own is over FillTime later.   *)
LEMMA FedStep ==
  ASSUME IInv, Next
  PROVE  Fed'
<1>1. /\ State # "PCM" => au.st \in Resting
      /\ au.st = "Play" => State \in {"PCM_done", "Halted"}
      /\ State = "PCM" => Position(vc) + hc + AuLeft < Position(YNew)
      /\ State = "PCM_done" => Position(vc) + hc < Position(YNew)
  BY Parts DEF Fed, Resting
<1>2. AuClock
  BY AuClocks
<1>3. hc \in Nat /\ vc \in Nat /\ hc' \in Nat /\ vc' \in Nat /\ YNew \in Nat
  BY Parts, Pixels, BeamMoves, Figures
<1>4. State' # "PCM" => au'.st \in Resting
  BY <1>2, Parts, Turns DEF AuClock
<1>5. au'.st = "Play" => State' \in {"PCM_done", "Halted"}
  BY <1>1, <1>2, Parts, Turns DEF AuClock
<1>6. Position(YNew)' = Position(YNew)
  BY DEF Position, Row
<1> DEFINE p == Position(vc)'  a == AuLeft'  y == Position(YNew)  h == hc'  q == Position(vc)
<1> h \in Nat
  BY <1>3
<1>7. ASSUME State' = "PCM" PROVE p + h + a < y
  <2>1. CASE State = "PCM"
    <3>1. ~AuDone
      BY <1>7, <2>1, Parts, Turns
    <3>2. vc < YNew
      BY <2>1, Parts DEF Where
    <3>3. p + h = q + hc + 1 /\ p \in Nat /\ q \in Nat /\ y \in Nat
      BY <3>2, Parts, Along DEF p, h, q, y
    <3>4. a + 1 <= AuLeft /\ a \in Nat /\ AuLeft \in Nat
      BY <1>2, <2>1, <3>1 DEF AuClock
    <3>5. q + hc + AuLeft < y
      BY <1>1, <2>1
    <3> HIDE DEF p, a, y, h, q
    <3> QED BY <1>3, <3>3, <3>4, <3>5
  <2>2. CASE State # "PCM"
    <3>1. State = "Line_buffer_done" /\ Complete
      BY <1>7, <2>2, Parts, Turns DEF ArbiterStates, BootStates, Pre, NextLayer, Complete
    <3>2. hc = 0 /\ vc < YNew /\ YLast = YNew + 1
      BY <3>1, Parts, Figures DEF Where
    <3>3. vc + Fill <= YNew /\ Fill \in Nat
      <4>1. vc = YLast \/ vc + Fill + 0 <= YNew
        BY <3>1, Parts DEF Finished
      <4>2. Fill \in Nat
        BY FillFits, <1>3
      <4> QED BY <1>3, <3>2, <4>1, <4>2
    <3>4. q + FillTime <= y
      BY <1>3, <3>3, FillFits DEF y
    <3>5. p + h = q + 1 /\ p \in Nat /\ q \in Nat /\ y \in Nat
      BY <1>3, <3>2, Parts, Along
    <3>6. a <= AuWords(InitWords) + WordTime + 1 /\ a \in Nat
      BY <1>2, <2>2 DEF AuClock
    <3>7. FillTime = AuWords(InitWords) + WordTime + 3 /\ AuWords(InitWords) \in Nat /\ WordTime \in Nat
      BY Times, Sizes, RasterAssumption
    <3> HIDE DEF p, a, y, h, q
    <3> QED BY <1>3, <3>4, <3>5, <3>6, <3>7
  <2> QED BY <2>1, <2>2
<1>8. ASSUME State' = "PCM_done" PROVE p + h < y
  <2>1. State = "PCM"
    BY <1>8, Parts, Turns DEF ArbiterStates, BootStates, Pre, NextLayer
  <2>2. vc < YNew
    BY <2>1, Parts DEF Where
  <2>3. p + h = q + hc + 1 /\ p \in Nat /\ q \in Nat /\ y \in Nat
    BY <2>2, Parts, Along
  <2>4. AuLeft \in Nat /\ AuLeft >= 1 /\ q + hc + AuLeft < y
    BY <1>1, <1>2, <2>1 DEF AuClock
  <2> HIDE DEF p, y, h, q
  <2> QED BY <1>3, <2>3, <2>4
<1> HIDE DEF y
<1> QED BY <1>4, <1>5, <1>6, <1>7, <1>8 DEF Fed, Resting, p, a, y, h
-----------------------------------------------------------------------------
(* The fetch of a row.                                                     *)

LbServed == State \in {"Line_buffer", "Line_buffer_startscreen"}

LbClock ==
  /\ lb.st \in {"Halted", "Read", "Read1", "Pause", "Pause1", "Done"}
  /\ LbLeft \in Nat /\ LbLeft' \in Nat /\ (lb.st \in {"Read", "Read1"} => LbLeft >= 1)
  /\ lb.st = "Halted" => IF LbServed THEN LbFresh' /\ LbLeft' = FetchTime ELSE lb'.st = "Halted"
  /\ lb.st = "Read" =>
       /\ lb'.st \in {"Read", "Read1"} /\ lb'.x = lb.x
       /\ LbServed => LbLeft' + 1 <= LbLeft
       /\ ~LbServed => lb'.st = "Read" /\ Seen("lb")' = 0
       /\ Seen("lb") = 0 => lb'.st = "Read"
       /\ lb.x = 0 => LbLeft <= FetchTime
  /\ lb.st = "Read1" =>
       /\ lb'.st = (IF lb.x = LbLast THEN "Pause" ELSE "Read") /\ lb'.x = lb.x + 1
       /\ LbLeft' + 1 <= LbLeft
  /\ lb.st = "Pause" =>
       lb'.st = IF vc = YShown THEN "Done" ELSE IF DrawX = XPause THEN "Pause1" ELSE "Pause"
  /\ lb.st = "Pause1" => IF DrawX = 0 THEN LbFresh' /\ LbLeft' = FetchTime ELSE lb'.st = "Pause1"
  /\ lb.st = "Done" => lb'.st = IF NewFrame THEN "Halted" ELSE "Done"

(* What the row's clock is in Read, for a given wait of the SDRAM.         *)
LEMMA LbReads ==
  ASSUME TypeOK, Ranges, BusInv, Next, lb.st = "Read"
  PROVE  /\ LbLeft \in Nat /\ LbLeft = LbWords(lb.x) + WordTime - Seen("lb") /\ LbWords(lb.x) \in Nat
         /\ Seen("lb") \in 0 .. MaxLatency /\ Seen("lb")' \in 0 .. MaxLatency
         /\ Ac("lb") => LbServed
         /\ LbServed => Seen("lb")' = (IF Ac("lb") THEN 0 ELSE Seen("lb") + 1)
         /\ ~LbServed => Seen("lb")' = 0
         /\ Ac("lb") => Seen("lb") > 0
         /\ lb.x = 0 => LbLeft <= FetchTime
<1>1. Asked("lb") /\ Requests("lb")
  BY Asks DEF Clients, Requests
<1>2. LbServed <=> State \in Connects["lb"]
  BY Connections DEF LbServed
<1>3. Seen("lb") \in 0 .. MaxLatency /\ Seen("lb")' \in 0 .. MaxLatency
  BY <1>1 DEF Asked
<1>4. Ac("lb") => LbServed
  BY <1>2 DEF Ac
<1>5. LbServed => Seen("lb")' = (IF Ac("lb") THEN 0 ELSE Seen("lb") + 1)
  BY <1>1, <1>2 DEF Asked
<1>6. ASSUME ~LbServed PROVE Seen("lb")' = 0
  <2>1. "lb" \notin Requester /\ "lb" # None
    BY <1>2, <1>6 DEF Requester, None
  <2>2. bus.owner = "lb" => bus.age = 0 /\ FALSE
    <3>1. /\ bus.age = 0 => bus.owner = None
          /\ bus.age > 0 => State \in Connects[bus.owner]
      BY DEF BusInv, BusHeld
    <3> QED BY <1>2, <1>6, <2>1, <3>1, BusMoves
  <2>3. bus'.owner # "lb"
    BY <2>1, <2>2, BusMoves
  <2> QED BY <2>3 DEF Seen
<1>7. ASSUME Ac("lb") PROVE Seen("lb") > 0
  <2>1. bus.ac /\ State \in Connects["lb"]
    BY <1>7 DEF Ac
  <2>2. bus.age > 0 /\ bus.owner \in Clients /\ State \in Connects[bus.owner]
    BY <2>1, BusMoves DEF BusInv, BusHeld
  <2>3. bus.owner = "lb"
    BY <2>1, <2>2, OneConnection DEF Clients
  <2> QED BY <2>2, <2>3 DEF Seen
<1>8. lb.x \in 0 .. LbLast /\ LbLast \in Nat
  BY Types, RasterAssumption DEF LbType, Ranges
<1>9. LbLeft = LbWords(lb.x) + WordTime - Seen("lb")
  BY DEF LbLeft
<1>10. LbWords(lb.x) \in Nat /\ LbWords(0) + WordTime = FetchTime /\ LbWords(0) \in Nat
  <2>1. /\ \A x \in 0 .. LbLast : LbWords(x) \in Nat
        /\ LbWords(0) + WordTime = FetchTime
    BY Lefts
  <2> QED BY <1>8, <2>1
<1>11. WordTime \in Nat /\ WordTime = MaxLatency + 2 /\ MaxLatency \in Nat
  BY Sizes, RasterAssumption
<1>12. LbLeft \in Nat
  BY <1>3, <1>9, <1>10, <1>11
<1>13. lb.x = 0 => LbLeft <= FetchTime
  BY <1>3, <1>9, <1>10, <1>11
<1> QED BY <1>3, <1>4, <1>5, <1>6, <1>7, <1>9, <1>10, <1>12, <1>13

(* A clock of lineb.                                                       *)
LEMMA LbClocks ==
  ASSUME TypeOK, Ranges, BusInv, Next
  PROVE  LbClock
<1> DEFINE s == Seen("lb")  t == Seen("lb")'  ac == Ac("lb")  w == LbWords(lb.x)
<1>1. /\ lb \in LbType /\ LineBuffer /\ lb.x \in Nat /\ LbLast \in Nat
      /\ lb.st \in {"Halted", "Read", "Read1", "Pause", "Pause1", "Done"}
      /\ lb.st \in {"Read", "Read1"} => lb.x <= LbLast
      /\ Wait("lb") <=> ~LbServed
  BY Types, Ticks, Connections, RasterAssumption DEF LbType, Ranges, LbServed
<1>2. lb.st # "Read" => s = 0 /\ t = 0
  BY Asks DEF Asked, Requests, Clients
<1>3. WordTime \in Nat /\ WordTime = MaxLatency + 2 /\ MaxLatency \in Nat /\ FetchTime \in Nat
  BY Sizes, RasterAssumption
<1>4. /\ lb.st \in {"Read", "Read1"} => w \in Nat
      /\ LbWords(0) + WordTime = FetchTime /\ LbWords(0) \in Nat /\ LbWords(LbLast) = 0
  <2>1. /\ \A x \in 0 .. LbLast : LbWords(x) \in Nat
        /\ LbWords(0) + WordTime = FetchTime /\ LbWords(LbLast) = 0
    BY Lefts
  <2> QED BY <1>1, <2>1
<1> HIDE DEF s, t, ac, w
<1>5. ASSUME lb'.st = "Read", lb'.x = 0, t = 0 PROVE LbFresh' /\ LbLeft' = FetchTime
  <2>1. LbLeft' = LbWords(0) + WordTime - t
    BY <1>5 DEF LbLeft, t
  <2>2. LbFresh'
    BY <1>5 DEF LbFresh, t
  <2> QED BY <1>3, <1>4, <1>5, <2>1, <2>2
<1>6. lb.st \notin {"Read", "Read1"} => LbLeft = 0
  BY DEF LbLeft
<1>7. lb'.st \notin {"Read", "Read1"} => LbLeft' = 0
  BY DEF LbLeft
<1>8. CASE LbHalted
  <2>1. lb.st = "Halted" /\ lb'.st = (IF LbServed THEN "Read" ELSE "Halted") /\ lb'.x = 0
    BY <1>1, <1>8 DEF LbHalted, LbType
  <2> QED BY <1>2, <1>3, <1>5, <1>6, <1>7, <2>1 DEF LbClock
<1>9. CASE LbRead
  <2>1. lb.st = "Read" /\ lb'.st = (IF ac THEN "Read1" ELSE "Read") /\ lb'.x = lb.x
    BY <1>1, <1>9 DEF LbRead, LbType, ac
  <2>2. /\ LbLeft \in Nat /\ LbLeft = w + WordTime - s /\ w \in Nat /\ s \in 0 .. MaxLatency /\ t \in 0 .. MaxLatency
        /\ ac => LbServed
        /\ LbServed => t = (IF ac THEN 0 ELSE s + 1)
        /\ ~LbServed => t = 0
        /\ ac => s > 0
        /\ lb.x = 0 => LbLeft <= FetchTime
    BY <2>1, LbReads DEF s, t, w, ac
  <2>3. LbLeft' = IF ac THEN w + 1 ELSE w + WordTime - t
    BY <2>1 DEF LbLeft, w, t
  <2> QED BY <1>3, <2>1, <2>2, <2>3 DEF LbClock, s, t
<1>10. CASE LbRead1
  <2>1. lb.st = "Read1" /\ lb' = [lb EXCEPT !.st = IF lb.x = LbLast THEN "Pause" ELSE "Read", !.x = @ + 1]
    BY <1>10 DEF LbRead1
  <2>2. lb'.st = (IF lb.x = LbLast THEN "Pause" ELSE "Read") /\ lb'.x = lb.x + 1
    BY <1>1, <2>1 DEF LbType
  <2>3. LbLeft = w + 1 /\ t = 0
    BY <1>2, <2>1 DEF LbLeft, w
  <2>4. LbLeft' = IF lb.x = LbLast THEN 0 ELSE LbWords(lb.x + 1) + WordTime - t
    BY <2>2 DEF LbLeft, t
  <2>5. lb.x # LbLast => LbWords(lb.x + 1) + WordTime = w /\ LbWords(lb.x + 1) \in Nat
    <3>1. lb.x # LbLast => lb.x \in 0 .. LbLast /\ lb.x + 1 \in 0 .. LbLast
      BY <1>1, <2>1
    <3> QED BY <3>1, Lefts DEF w
  <2> QED BY <1>3, <1>4, <2>1, <2>2, <2>3, <2>4, <2>5 DEF LbClock
<1>11. CASE LbPause
  <2>1. lb.st = "Pause" /\ lb'.st = (IF vc = YShown THEN "Done" ELSE IF DrawX = XPause THEN "Pause1" ELSE "Pause")
    BY <1>1, <1>11 DEF LbPause, LbType, DrawY
  <2> QED BY <1>6, <1>7, <2>1 DEF LbClock
<1>12. CASE LbPause1
  <2>1. lb.st = "Pause1" /\ lb'.st = (IF DrawX = 0 THEN "Read" ELSE "Pause1") /\ lb'.x = 0
    BY <1>1, <1>12 DEF LbPause1, LbType
  <2> QED BY <1>2, <1>3, <1>5, <1>6, <1>7, <2>1 DEF LbClock
<1>13. CASE LbDone
  <2>1. lb.st = "Done" /\ lb'.st = (IF NewFrame THEN "Halted" ELSE "Done")
    BY <1>1, <1>13 DEF LbDone, LbType
  <2> QED BY <1>6, <1>7, <2>1 DEF LbClock
<1> QED BY <1>1, <1>8, <1>9, <1>10, <1>11, <1>12, <1>13 DEF LineBuffer
-----------------------------------------------------------------------------
(* The rows ahead.                                                         *)

(* What the budget is made of.                                             *)
LEMMA Charges ==
  ASSUME IInv, Next
  PROVE  /\ RowService \in Nat /\ RowService >= 1
         /\ BkLeft \in Nat /\ DsLeft \in Nat /\ DnLeft \in Nat
         /\ LayersLeft \in Nat /\ (~Complete => LayersLeft >= RowService)
         /\ RowLeft \in Nat /\ RowLeft <= RowService /\ (hc > Drained => RowLeft = 0)
         /\ RowsAfter(vc) \in Nat /\ Fill \in Nat /\ 1 <= Fill /\ YShown + Fill < YNew
         /\ RowsTime(RowsAfter(vc)) \in Nat /\ RowsTime(Fill) \in Nat
<1>1. /\ RowService \in Nat /\ FirstServed \in Nat /\ Drained \in Nat
      /\ RowService = Drained + 1 - FirstServed /\ FirstServed < Drained
  BY Sizes
<1>2. BkLeft \in Nat /\ DsLeft \in Nat /\ DnLeft \in Nat
  BY Clocks DEF BkClock, DsClock, DnClock
<1>3. hc \in Nat /\ vc \in Nat /\ vc <= YLast /\ YLast = YNew + 1 /\ YNew \in Nat
  BY Parts, Pixels, Figures
<1>4. LayersLeft \in Nat /\ (~Complete => LayersLeft >= RowService)
  BY <1>1 DEF LayersLeft, Complete
<1>5. RowLeft \in Nat /\ RowLeft <= RowService /\ (hc > Drained => RowLeft = 0)
  BY <1>1, <1>3 DEF RowLeft
<1>6. RowsAfter(vc) \in Nat
  BY <1>3 DEF RowsAfter
<1>7. Fill \in Nat /\ 1 <= Fill /\ YShown + Fill < YNew
  BY <1>3, FillFits
<1>8. \A k \in Nat : RowsTime(k) \in Nat
  BY Rows
<1>9. RowService >= 1
  BY <1>1
<1> QED BY <1>1, <1>2, <1>4, <1>5, <1>6, <1>7, <1>8, <1>9

(* While a layer is missing, the rows kept for the fill are still ahead.   *)
LEMMA Reserve ==
  ASSUME IInv, Next, start_sign, ~Complete
  PROVE  /\ Fill <= RowsAfter(vc)
         /\ hc > Drained => Fill < RowsAfter(vc)
<1> DEFINE k == RowsAfter(vc)  l == BkLeft + DsLeft + DnLeft
<1>1. l + LayersLeft + RowsTime(Fill) <= RowsTime(k) + (IF Idles THEN 0 ELSE RowLeft)
  BY Parts DEF Budget
<1>2. l \in Nat /\ k \in Nat /\ Fill \in Nat /\ RowsTime(k) \in Nat /\ RowsTime(Fill) \in Nat /\ LayersLeft \in Nat
      /\ RowService \in Nat /\ RowService >= 1 /\ LayersLeft >= RowService
      /\ RowLeft \in Nat /\ RowLeft <= RowService /\ (hc > Drained => RowLeft = 0)
  BY Charges
<1> HIDE DEF k, l
<1>3. RowsTime(Fill) <= RowsTime(k)
  BY <1>1, <1>2
<1>4. hc > Drained => RowsTime(Fill) + RowService <= RowsTime(k)
  BY <1>1, <1>2
<1>5. /\ k < Fill => RowsTime(k) + RowService <= RowsTime(Fill)
  BY <1>2, Rows
<1>6. Fill <= k
  BY <1>2, <1>3, <1>5
<1>7. hc > Drained => Fill # k
  BY <1>2, <1>4
<1> QED BY <1>2, <1>6, <1>7 DEF k

(* The last rows before new_frame are not used for a fetch.                *)
LEMMA LastRows ==
  ASSUME IInv, Next, State = "Line_buffer", hc = 2 * XLast + 1, vc < YNew
  PROVE  vc + 1 < YNew
<1>1. hc > Drained /\ YNew \in Nat /\ vc \in Nat /\ YLast = YNew + 1
  <2>1. /\ XLast \in Nat /\ Drained \in Nat /\ DrainTime \in Nat /\ Drained + DrainTime <= 2 * XLast
        /\ YNew \in Nat /\ YLast = YNew + 1
    BY Figures
  <2> QED BY <2>1, Parts, Pixels
<1>2. Fill \in Nat /\ 1 <= Fill
  BY Charges
<1>3. CASE Complete
  <2>1. vc + Fill + 1 <= YNew
    BY <1>1, <1>3, Parts DEF Finished
  <2> QED BY <1>1, <1>2, <2>1
<1>4. CASE ~Complete
  <2>1. Fill < RowsAfter(vc)
    BY <1>1, <1>4, Reserve DEF start_sign, BootStates
  <2>2. RowsAfter(vc) = YNew - 1 - vc
    BY <1>1 DEF RowsAfter
  <2> QED BY <1>1, <1>2, <2>1, <2>2
<1> QED BY <1>3, <1>4
-----------------------------------------------------------------------------
(* The beam in each state.                                                 *)

(* Where the arbiter comes from, and a layer's rest in it.                 *)
LEMMA Origins ==
  ASSUME IInv, Next
  PROVE  /\ State' = "Line_buffer" =>
              \/ State \in Pre /\ DrawX = XLast
              \/ State = "Line_buffer" /\ lb.st \notin {"Done", "Pause"}
         /\ State' = "Line_buffer_done" => State = "Line_buffer" /\ lb.st = "Done"
         /\ State' = "Line_buffer_mid" =>
              \/ State = "Line_buffer" /\ lb.st = "Pause"
              \/ State = "Line_buffer_mid" /\ Complete /\ DrawX # XDrain
         /\ State' \in Layer =>
              \/ State = State' /\ DrawX # XDrain
              \/ State \in {"Line_buffer_done", "Line_buffer_mid"} /\ ~Complete
         /\ State' \in Pre =>
              \/ State \in Layer /\ DrawX = XDrain
              \/ State = "Line_buffer_mid" /\ DrawX = XDrain
              \/ State = State' /\ DrawX # XLast
              \/ State' = "Line_buffer_pre_bk" /\ NewFrame /\ State \in {"Halted", "Line_buffer_startscreen"}
         /\ State' = "PCM" => State = "PCM" \/ (State = "Line_buffer_done" /\ Complete)
         /\ State' = "PCM_done" => State = "PCM"
         /\ State' = "Halted" =>
              \/ State = "Line_buffer_done" /\ Complete
              \/ State = "PCM_done"
              \/ State = "Halted" /\ ~NewFrame
         /\ State \in BootStates => State' \in BootStates \cup {"Line_buffer_pre_bk"}
         /\ State' \in BootStates => State \in BootStates
         /\ State' \in Start5 => State \in Start5
         /\ State \in Start5 => State' \in Start5 \/ (State' = "Line_buffer_startscreen" /\ NewFrame)
BY Parts, Turns DEF ArbiterStates, BootStates, Start5, Pre, Layer, NextLayer, Complete

(* Rows end in the hands of the line buffer, or of the audio.              *)
LEMMA AtRowEnd ==
  ASSUME IInv, hc = 2 * XLast + 1
  PROVE  /\ State \in Start5 \cup {"Line_buffer_startscreen", "Line_buffer", "PCM", "PCM_done", "Halted"}
         /\ State \in {"PCM", "PCM_done", "Halted"} => vc < YNew
<1>1. State \in ArbiterStates
  BY Parts, Types
<1>2. /\ XLast \in Nat /\ Drained \in Nat /\ DrainTime \in Nat /\ Drained + DrainTime <= 2 * XLast /\ XPause \in Nat
      /\ 2 * XPause + 4 <= Drained
  BY Figures
<1>3. State \notin Layer \cup Pre \cup {"Line_buffer_done", "Line_buffer_mid"}
  BY <1>2, Parts DEF Where, Layer, Pre
<1>4. State \in {"PCM", "PCM_done", "Halted"} => vc < YNew
  BY <1>2, Parts DEF Where
<1> QED BY <1>1, <1>3, <1>4 DEF ArbiterStates, BootStates, Start5, Layer, Pre

(* What is drawn stays drawn until new_frame.                              *)
LEMMA StayComplete ==
  ASSUME IInv, Next
  PROVE  /\ Complete /\ ~NewFrame => Complete'
         /\ Complete /\ NewFrame => bk'.st = "Halted" /\ ds'.st = "Halted" /\ dn'.st = "Halted"
         /\ bk.st = "Halted" /\ State # "Background" => bk'.st = "Halted"
BY Clocks DEF BkClock, DsClock, DnClock, Complete, BkServed

(* The lemmas that follow say where the beam is when a state is entered.   *)
LEMMA WherePre ==
  ASSUME IInv, Next, State' \in Pre
  PROVE  \/ DrawRow' /\ Drained < hc' /\ hc' <= 2 * XLast
         \/ /\ State' = "Line_buffer_pre_bk" /\ NewFrameOver' /\ hc' <= 2 * XLast
            /\ bk'.st = "Halted"
<1>1. /\ XLast \in Nat /\ Drained \in Nat /\ DrainTime \in Nat /\ DrainTime >= 10 /\ Drained + DrainTime <= 2 * XLast
      /\ XPause \in Nat /\ 2 * XPause + 4 <= Drained /\ hc \in Nat /\ vc \in Nat
      /\ YNew \in Nat /\ YShown \in Nat /\ YShown < YNew
  BY Figures, Parts, Pixels
<1>2. CASE State \in Layer \cup {"Line_buffer_mid"} /\ DrawX = XDrain
  <2>1. hc = Drained /\ DrawRow
    BY <1>1, <1>2, Parts, Pixels DEF Where, FetchRow, DrawRow
  <2>2. hc' = Drained + 1 /\ vc' = vc
    BY <1>1, <2>1, Parts, BeamMoves
  <2> QED BY <1>1, <2>1, <2>2 DEF DrawRow
<1>3. CASE State = State' /\ DrawX # XLast
  <2>1. hc <= 2 * XLast /\ hc # 2 * XLast
    BY <1>1, <1>3, Parts, Pixels DEF Where
  <2>2. hc' = hc + 1 /\ vc' = vc
    BY <1>1, <2>1, Parts, BeamMoves
  <2>3. bk.st = "Halted" => bk'.st = "Halted"
    BY <1>3, StayComplete DEF Pre
  <2>4. \/ DrawRow /\ Drained < hc
        \/ State = "Line_buffer_pre_bk" /\ NewFrameOver /\ bk.st = "Halted"
    BY <1>3, Parts DEF Where
  <2>5. CASE DrawRow /\ Drained < hc
    BY <1>1, <2>1, <2>2, <2>5 DEF DrawRow
  <2>6. CASE State = "Line_buffer_pre_bk" /\ NewFrameOver /\ bk.st = "Halted"
    BY <1>1, <1>3, <2>1, <2>2, <2>3, <2>6 DEF NewFrameOver
  <2> QED BY <2>4, <2>5, <2>6
<1>4. CASE State' = "Line_buffer_pre_bk" /\ NewFrame /\ State \in {"Halted", "Line_buffer_startscreen"}
  <2>1. vc = YNew /\ (hc = 2 * XPause + 2 \/ hc = 2 * XPause + 3) /\ (Complete \/ bk.st = "Halted")
    BY <1>4, AtNewFrame
  <2>2. hc' = hc + 1 /\ vc' = vc
    BY <1>1, <2>1, Parts, BeamMoves
  <2>3. bk'.st = "Halted"
    BY <1>4, <2>1, StayComplete
  <2> QED BY <1>1, <1>4, <2>1, <2>2, <2>3 DEF NewFrameOver
<1> QED BY <1>2, <1>3, <1>4, Origins

LEMMA WhereLineBuffer ==
  ASSUME IInv, Next, State' = "Line_buffer"
  PROVE  \/ hc' = 2 * XLast + 1 /\ (vc' = YNew => bk'.st = "Halted")
         \/ FetchRow' /\ hc' <= FetchTime + 1
<1>1. /\ XLast \in Nat /\ Drained \in Nat /\ DrainTime \in Nat /\ DrainTime >= 10 /\ Drained + DrainTime <= 2 * XLast
      /\ XPause \in Nat /\ 2 * XPause + 4 <= Drained /\ hc \in Nat /\ vc \in Nat
      /\ FetchTime \in Nat
      /\ FetchTime <= 2 * XPause /\ FetchTime >= 3 /\ hc <= 2 * XLast + 1 /\ vc <= YLast
      /\ YNew \in Nat /\ YShown \in Nat /\ YShown < YNew /\ YLast = YNew + 1
  BY Figures, Parts, Pixels
<1>2. CASE State \in Pre /\ DrawX = XLast
  <2>1. hc = 2 * XLast /\ (vc = YNew => bk.st = "Halted" /\ State = "Line_buffer_pre_bk")
    BY <1>1, <1>2, Parts, Pixels DEF Where, DrawRow
  <2>2. hc' = 2 * XLast + 1 /\ vc' = vc
    BY <1>1, <2>1, Parts, BeamMoves
  <2> QED BY <2>1, <2>2, StayComplete
<1>3. CASE State = "Line_buffer" /\ lb.st \notin {"Done", "Pause"}
  <2>1. LbLeft \in Nat /\ LbLeft' \in Nat /\ lb.st \in {"Halted", "Read", "Read1", "Pause1"}
    BY <1>3, LbClocks, Parts DEF LbClock
  <2>2. lb.st = "Halted" => NewFrameOver
    BY <1>3, Parts DEF Fetching, Start5
  <2>3. lb.st \in {"Read", "Read1"} => (FetchRow /\ hc + LbLeft <= FetchTime + 1) \/ NewFrameOver
    BY <1>3, Parts DEF Fetching, Reading
  <2>4. lb.st = "Pause1" => \/ (vc = YLast \/ vc < YShown) /\ 2 * XPause + 1 <= hc
                            \/ hc = 0
    BY <1>3, Parts DEF Fetching
  <2>5. CASE hc = 2 * XLast + 1
    <3>1. vc = YNew \/ vc = YLast \/ vc < YShown
      BY <1>1, <2>1, <2>2, <2>3, <2>4, <2>5 DEF NewFrameOver
    <3>2. hc' = 0 /\ vc' = IF vc = YLast THEN 0 ELSE vc + 1
      BY <2>5, Parts, BeamMoves
    <3> QED BY <1>1, <3>1, <3>2 DEF FetchRow
  <2>6. CASE hc <= 2 * XLast
    <3>1. FetchRow /\ hc <= FetchTime + 1
      BY <1>1, <1>3, <2>6, Parts DEF Where
    <3>2. lb.st \in {"Read", "Read1"} \/ (lb.st = "Pause1" /\ hc = 0)
      BY <1>3, <2>6, Parts DEF Fetching
    <3>3. ~NewFrameOver
      BY <1>1, <3>1 DEF NewFrameOver, FetchRow
    <3>4. lb.st \in {"Read", "Read1"} => LbLeft >= 1
      BY <1>3, <2>1, LbClocks, Parts DEF LbClock, LbServed
    <3>5. hc <= FetchTime
      BY <1>1, <2>1, <2>3, <3>2, <3>3, <3>4
    <3>6. hc' = hc + 1 /\ vc' = vc
      BY <2>6, Parts, BeamMoves
    <3> QED BY <1>1, <3>1, <3>5, <3>6 DEF FetchRow
  <2> QED BY <1>1, <2>5, <2>6
<1> QED BY <1>2, <1>3, Origins

LEMMA WhereDone ==
  ASSUME IInv, Next, State' = "Line_buffer_done"
  PROVE  hc' = 0 /\ YShown < vc' /\ vc' < YNew /\ lb'.st = "Done"
<1>1. /\ XLast \in Nat /\ XPause \in Nat /\ Drained \in Nat /\ DrainTime \in Nat /\ DrainTime >= 10
      /\ 2 * XPause + 4 <= Drained /\ Drained + DrainTime <= 2 * XLast
      /\ hc \in Nat /\ vc \in Nat /\ hc <= 2 * XLast + 1
      /\ YNew \in Nat /\ YShown \in Nat /\ YShown < YNew /\ YLast = YNew + 1
  BY Figures, Parts, Pixels
<1>2. State = "Line_buffer" /\ lb.st = "Done"
  BY Origins
<1>3. hc = 2 * XLast + 1
  BY <1>1, <1>2, Parts DEF Fetching
<1>4. vc = YShown \/ (YShown < vc /\ vc < YNew)
  BY <1>1, <1>2, <1>3, Parts DEF Fetching
<1>5. vc + 1 < YNew
  BY <1>1, <1>2, <1>3, <1>4, LastRows
<1>6. hc' = 0 /\ vc' = vc + 1
  BY <1>1, <1>3, <1>5, Parts, BeamMoves
<1>7. lb'.st = "Done"
  <2>1. ~NewFrame
    BY <1>1, <1>5, Parts, Pixels
  <2> QED BY <1>2, <2>1, LbClocks, Parts DEF LbClock
<1> QED BY <1>1, <1>4, <1>5, <1>6, <1>7

LEMMA WhereMid ==
  ASSUME IInv, Next, State' = "Line_buffer_mid"
  PROVE  FetchRow' /\ hc' <= Drained /\ (hc' < FirstServed \/ Complete')
<1>1. /\ XLast \in Nat /\ XPause \in Nat /\ Drained \in Nat /\ DrainTime \in Nat /\ DrainTime >= 10
      /\ 2 * XPause + 4 <= Drained /\ Drained + DrainTime <= 2 * XLast
      /\ hc \in Nat /\ vc \in Nat /\ hc <= 2 * XLast + 1 /\ FetchTime \in Nat
      /\ FetchTime <= 2 * XPause
      /\ YNew \in Nat /\ YShown \in Nat /\ YShown < YNew /\ FirstServed = FetchTime + 3
  BY Figures, Parts, Pixels
<1>2. CASE State = "Line_buffer" /\ lb.st = "Pause"
  <2>1. FetchRow /\ hc <= 2 * XPause + 1
    BY <1>2, Parts DEF Fetching
  <2>2. hc <= FetchTime + 1
    BY <1>1, <1>2, <2>1, Parts DEF Where
  <2>3. hc' = hc + 1 /\ vc' = vc
    BY <1>1, <2>1, Parts, BeamMoves
  <2> QED BY <1>1, <2>1, <2>2, <2>3 DEF FetchRow
<1>3. CASE State = "Line_buffer_mid" /\ Complete /\ DrawX # XDrain
  <2>1. FetchRow /\ hc <= Drained /\ hc # Drained
    BY <1>3, Parts, Pixels DEF Where
  <2>2. hc' = hc + 1 /\ vc' = vc
    BY <1>1, <2>1, Parts, BeamMoves
  <2>3. ~NewFrame
    BY <1>1, <2>1, Parts, Pixels, Figures DEF FetchRow
  <2>4. Complete'
    BY <1>3, <2>3, StayComplete
  <2> QED BY <1>1, <2>1, <2>2, <2>4 DEF FetchRow
<1> QED BY <1>2, <1>3, Origins

LEMMA WhereLayer ==
  ASSUME IInv, Next, State' \in Layer
  PROVE  DrawRow' /\ 1 <= hc' /\ hc' <= Drained
<1>1. /\ XLast \in Nat /\ Drained \in Nat /\ DrainTime \in Nat /\ DrainTime >= 10 /\ Drained + DrainTime <= 2 * XLast
      /\ hc \in Nat /\ vc \in Nat /\ FirstServed \in Nat /\ FirstServed < Drained
      /\ YNew \in Nat /\ YShown \in Nat /\ YShown < YNew
  BY Figures, Sizes, Parts, Pixels
<1>2. DrawRow /\ hc < Drained
  <2>1. CASE State = State' /\ DrawX # XDrain
    <3>1. DrawRow /\ hc <= Drained /\ hc # Drained
      BY <2>1, Parts, Pixels DEF Where
    <3> QED BY <1>1, <3>1
  <2>2. CASE State = "Line_buffer_done"
    BY <1>1, <2>2, Parts DEF Where, DrawRow
  <2>3. CASE State = "Line_buffer_mid" /\ ~Complete
    BY <1>1, <2>3, Parts DEF Where, FetchRow, DrawRow
  <2> QED BY <2>1, <2>2, <2>3, Origins
<1>3. hc' = hc + 1 /\ vc' = vc
  BY <1>1, <1>2, Parts, BeamMoves
<1> QED BY <1>1, <1>2, <1>3 DEF DrawRow

LEMMA WhereAudio ==
  ASSUME IInv, Next, State' \in {"PCM", "PCM_done", "Halted"}
  PROVE  /\ Complete' /\ YShown < vc' /\ lb'.st = "Done"
         /\ State' \in {"PCM", "PCM_done"} => vc' < YNew
         /\ State' = "Halted" => vc' < YNew \/ (vc' = YNew /\ hc' <= 2 * XPause + 2)
<1>1. /\ XLast \in Nat /\ XPause \in Nat /\ Drained \in Nat /\ DrainTime \in Nat /\ DrainTime >= 10
      /\ 2 * XPause + 4 <= Drained /\ Drained + DrainTime <= 2 * XLast
      /\ hc \in Nat /\ vc \in Nat /\ hc <= 2 * XLast + 1
      /\ YNew \in Nat /\ YShown \in Nat /\ YShown < YNew /\ YLast = YNew + 1
  BY Figures, Parts, Pixels
<1>2. /\ Complete /\ ~NewFrame /\ YShown < vc /\ lb.st = "Done"
      /\ vc < YNew \/ (State = "Halted" /\ vc = YNew /\ hc < 2 * XPause + 2)
  <2>1. CASE State = "Line_buffer_done" /\ Complete
    <3>1. YShown < vc /\ vc < YNew /\ lb.st = "Done"
      BY <2>1, Parts DEF Where
    <3> QED BY <1>1, <2>1, <3>1, Parts, Pixels
  <2>2. CASE State \in {"PCM", "PCM_done"}
    <3>1. Complete /\ YShown < vc /\ vc < YNew /\ lb.st = "Done"
      BY <2>2, Parts DEF Where
    <3> QED BY <1>1, <2>2, <3>1, Parts, Pixels
  <2>3. CASE State = "Halted" /\ ~NewFrame
    <3>1. Complete /\ YShown < vc /\ lb.st = "Done" /\ (vc < YNew \/ (vc = YNew /\ hc <= 2 * XPause + 2))
      BY <2>3, Parts DEF Where
    <3>2. ~(vc = YNew /\ hc = 2 * XPause + 2)
      BY <2>3, Parts, Pixels
    <3> QED BY <1>1, <2>3, <3>1, <3>2
  <2> QED BY <2>1, <2>2, <2>3, Origins
<1>3. Complete' /\ lb'.st = "Done"
  BY <1>2, StayComplete, LbClocks, Parts DEF LbClock
<1>4. \/ vc' = vc /\ hc' = hc + 1
      \/ vc < YNew /\ vc' = vc + 1 /\ hc' = 0
  BY <1>1, <1>2, Parts, BeamMoves
<1>5. YShown < vc'
  BY <1>1, <1>2, <1>4
<1>6. vc < YNew => vc' < YNew \/ (vc' = YNew /\ hc' = 0)
  BY <1>1, <1>4
<1>7. ASSUME State' \in {"PCM", "PCM_done"} PROVE vc' < YNew
  <2>1. vc < YNew
    <3>1. State # "Halted"
      BY <1>7, Origins
    <3> QED BY <1>2, <3>1
  <2> DEFINE v == vc'
  <2>2. v \in Nat
    BY Parts, BeamMoves
  <2>3. Position(vc)' = Position(v)
    BY DEF Position, Row
  <2>4. Position(v) < Position(YNew)
    <3> DEFINE h == hc'  p == Position(vc)'  y == Position(YNew)'  a == AuLeft'
    <3>1. p + h < y \/ p + h + a < y
      BY <1>7, FedStep DEF Fed
    <3>2. h \in Nat /\ a \in Nat
      BY Parts, BeamMoves, AuClocks DEF AuClock
    <3>3. y = Position(YNew)
      BY DEF Position, Row
    <3>4. p \in Nat /\ y \in Nat
      BY <1>1, <2>2, <2>3, <3>3, Rows
    <3> HIDE DEF h, p, y, a
    <3>5. p < y
      BY <3>1, <3>2, <3>4
    <3> QED BY <2>3, <3>3, <3>5 DEF p
  <2>5. v = YNew \/ v < YNew
    BY <1>1, <1>4, <2>1
  <2> HIDE DEF v
  <2>6. v # YNew
    <3>1. Position(YNew) \in Nat
      BY <1>1, Rows
    <3> QED BY <2>4, <3>1
  <2> QED BY <2>5, <2>6 DEF v
<1>8. vc = YNew => hc' = hc + 1 /\ vc' = YNew /\ hc < 2 * XPause + 2
  BY <1>1, <1>2, <1>4
<1> QED BY <1>1, <1>2, <1>3, <1>5, <1>6, <1>7, <1>8

LEMMA WhereNew ==
  ASSUME IInv, Next, vc' = YNew, hc' <= 2 * XPause + 2
  PROVE  State' \in BootStates \cup {"Halted"}
<1>1. /\ XLast \in Nat /\ XPause \in Nat /\ Drained \in Nat /\ DrainTime \in Nat /\ DrainTime >= 10
      /\ 2 * XPause + 4 <= Drained /\ Drained + DrainTime <= 2 * XLast
      /\ hc \in Nat /\ vc \in Nat /\ hc <= 2 * XLast + 1 /\ vc <= YLast
      /\ YNew \in Nat /\ YNew >= 1 /\ YLast = YNew + 1
  BY Figures, Parts, Pixels
<1>2. CASE hc <= 2 * XLast
  <2>1. hc' = hc + 1 /\ vc' = vc
    BY <1>2, Parts, BeamMoves
  <2>2. vc = YNew /\ hc <= 2 * XPause + 1
    BY <1>1, <2>1
  <2>3. ~NewFrame /\ State \in BootStates \cup {"Halted"}
    BY <1>1, <2>2, Parts, Pixels DEF Where
  <2> QED BY <2>3, Parts, Turns DEF BootStates
<1>3. CASE hc = 2 * XLast + 1
  <2>1. vc + 1 = YNew
    BY <1>1, <1>3, Parts, BeamMoves
  <2>2. ~NewFrame
    BY <1>1, <2>1, Parts, Pixels
  <2>3. State # "Line_buffer"
    BY <1>1, <1>3, <2>1, LastRows
  <2>4. State # "PCM"
    <3>1. State = "PCM" => Position(vc) + hc + AuLeft < Position(YNew) /\ AuLeft >= 1 /\ AuLeft \in Nat
      BY Parts, AuClocks DEF Fed, AuClock
    <3>2. Position(YNew) = Position(vc) + Row /\ Position(vc) \in Nat /\ Row = 2 * XLast + 2
      BY <1>1, <2>1, Rows, Sizes
    <3> QED BY <1>1, <1>3, <3>1, <3>2
  <2>5. State \in BootStates \cup {"PCM_done", "Halted"}
    BY <1>3, <2>3, <2>4, AtRowEnd DEF Start5, BootStates
  <2> QED BY <2>2, <2>5, Parts, Turns DEF BootStates
<1> QED BY <1>1, <1>2, <1>3

(* Where is kept.                                                          *)
LEMMA WhereStep ==
  ASSUME IInv, Next
  PROVE  Where'
<1>1. Drained' = Drained /\ FetchTime' = FetchTime /\ FirstServed' = FirstServed
  BY DEF Drained, FetchTime, FirstServed, WordTime
<1>2. State' \in Layer => DrawRow' /\ 1 <= hc' /\ hc' <= Drained'
  BY <1>1, WhereLayer
<1>3. State' = "Line_buffer_mid" => FetchRow' /\ hc' <= Drained' /\ (hc' < FirstServed' \/ Complete')
  BY <1>1, WhereMid
<1>4. State' = "Line_buffer" => \/ hc' = 2 * XLast + 1 /\ (vc' = YNew => bk'.st = "Halted")
                                \/ FetchRow' /\ hc' <= FetchTime' + 1
  BY <1>1, WhereLineBuffer
<1>5. State' \in Pre => \/ DrawRow' /\ Drained' < hc' /\ hc' <= 2 * XLast
                        \/ /\ State' = "Line_buffer_pre_bk" /\ NewFrameOver' /\ hc' <= 2 * XLast
                           /\ bk'.st = "Halted"
  BY <1>1, WherePre
<1> QED BY <1>2, <1>3, <1>4, <1>5, WhereDone, WhereAudio, WhereNew, Zenon DEF Where, Layer, Pre

(* At the end of a row with the layers drawn, the next turn is the audio's *)
(* if the row is not shown, and another fetch if it is.                    *)
LEMMA FinishedRow ==
  ASSUME IInv, Next, Complete, ~NewFrame, hc = 2 * XLast + 1,
         State \notin {"PCM", "PCM_done", "Halted"}, vc # YLast
  PROVE  vc' = vc + 1 /\ (State' = "Line_buffer_done" \/ vc < YShown)
<1>1. /\ XLast \in Nat /\ XPause \in Nat /\ Drained \in Nat /\ DrainTime \in Nat /\ DrainTime >= 10
      /\ 2 * XPause + 4 <= Drained /\ Drained + DrainTime <= 2 * XLast /\ FetchTime \in Nat
      /\ FetchTime <= 2 * XPause
      /\ hc \in Nat /\ vc \in Nat /\ vc <= YLast /\ YNew \in Nat /\ YShown \in Nat /\ YShown < YNew
      /\ YLast = YNew + 1
  BY Figures, Parts, Pixels
<1>2. vc' = vc + 1
  BY Parts, BeamMoves
<1>3. start_sign
  BY Parts DEF Order, Complete
<1>4. State = "Line_buffer"
  BY <1>3, AtRowEnd DEF start_sign, BootStates, Start5
<1>5. vc < YNew
  <2>1. Fill \in Nat
    BY Charges
  <2>2. vc + Fill + 1 <= YNew
    BY <1>4, Parts DEF Finished
  <2> QED BY <1>1, <2>1, <2>2
<1>6. LbLeft \in Nat /\ lb.st \in {"Halted", "Read", "Read1", "Pause", "Pause1", "Done"}
  BY LbClocks, Parts DEF LbClock
<1>7. lb.st = "Pause1" \/ lb.st = "Done"
  <2>1. lb.st # "Halted"
    BY <1>1, <1>4, <1>5, Parts DEF Fetching, Start5, NewFrameOver
  <2>2. lb.st \notin {"Read", "Read1"}
    BY <1>1, <1>4, <1>5, <1>6, Parts DEF Fetching, Reading, NewFrameOver
  <2>3. lb.st # "Pause"
    BY <1>1, <1>4, <1>5, Parts DEF Fetching
  <2> QED BY <1>6, <2>1, <2>2, <2>3
<1>8. lb.st = "Done" => State' = "Line_buffer_done"
  BY <1>4, Parts, Turns
<1>9. lb.st = "Pause1" => vc < YShown
  BY <1>1, <1>5, Parts DEF Fetching
<1> QED BY <1>2, <1>7, <1>8, <1>9

(* Finished is kept: the last layer is done with Fill rows to spare, by    *)
(* the budget.                                                             *)
LEMMA FinishedStep ==
  ASSUME IInv, Next
  PROVE  Finished'
<1> SUFFICES ASSUME Complete', vc' # YLast, State' \notin {"PCM", "PCM_done", "Halted"}
             PROVE  vc' + Fill + (IF State' = "Line_buffer_done" THEN 0 ELSE 1) <= YNew
  <2>1. Fill' = Fill
    BY
       DEF Fill, FillRows, FillTime, BkTime, DsTime, DnTime, RowService, WordTime, FetchTime,
           DigitTime,
           SpriteTime, BodyTime
  <2> QED BY <2>1, Zenon DEF Finished
<1>1. /\ XLast \in Nat /\ hc \in Nat /\ vc \in Nat /\ hc <= 2 * XLast + 1 /\ vc <= YLast
      /\ YNew \in Nat /\ YShown \in Nat /\ YShown < YNew /\ YLast = YNew + 1
      /\ Fill \in Nat /\ 1 <= Fill /\ YShown + Fill < YNew
      /\ Drained \in Nat /\ Drained < 2 * XLast
  BY Figures, Parts, Pixels, Charges
<1>2. \/ hc <= 2 * XLast /\ vc' = vc
      \/ hc = 2 * XLast + 1 /\ vc' = IF vc = YLast THEN 0 ELSE vc + 1
  BY <1>1, Parts, BeamMoves
<1>3. CASE vc = YLast
  <2>1. vc' = 0
    BY <1>2, <1>3
  <2> QED BY <1>1, <2>1
<1>4. CASE Complete /\ vc # YLast
  <2>1. ~NewFrame
    BY <1>4, StayComplete DEF Complete
  <2>2. State \notin {"PCM", "PCM_done", "Halted"}
    BY <2>1, Parts, Turns
  <2>3. vc + Fill + (IF State = "Line_buffer_done" THEN 0 ELSE 1) <= YNew
    BY <1>4, <2>2, Parts DEF Finished
  <2>4. State # "Line_buffer_done"
    BY <1>4, <2>1, Origins, Parts, Turns DEF NextLayer, Complete
  <2>5. CASE hc <= 2 * XLast
    BY <1>1, <1>2, <2>3, <2>4, <2>5
  <2>6. CASE hc = 2 * XLast + 1
    <3>1. vc' = vc + 1 /\ (State' = "Line_buffer_done" \/ vc < YShown)
      BY <1>4, <2>1, <2>2, <2>6, FinishedRow
    <3> QED BY <1>1, <2>3, <2>4, <3>1
  <2> QED BY <1>1, <2>5, <2>6
<1>5. CASE ~Complete /\ vc # YLast
  <2>1. start_sign /\ vc # YNew
    <3>1. bk.st # "Halted" /\ start_sign
      <4>1. State = "Background" => start_sign
        BY DEF start_sign, BootStates
      <4>2. bk.st = "Halted" => State = "Background" /\ bk'.st = "Read"
        BY Clocks DEF BkClock, BkServed, Complete
      <4> QED BY <4>1, <4>2, Parts DEF Order, Complete
    <3>2. ASSUME vc = YNew PROVE FALSE
      <4>1. State \in ArbiterStates \ BootStates
        BY <3>1, Parts, Types DEF start_sign
      <4>2. State \notin Layer \cup {"Line_buffer_done", "Line_buffer_mid", "PCM", "PCM_done", "Halted"}
        BY <1>1, <1>5, <3>2, Parts DEF Where, DrawRow, FetchRow, Layer
      <4>3. State \notin Pre
        BY <1>1, <3>1, <3>2, Parts DEF Where, DrawRow
      <4>4. State # "Line_buffer"
        BY <1>1, <3>1, <3>2, Parts DEF Where, FetchRow
      <4> QED BY <4>1, <4>2, <4>3, <4>4 DEF ArbiterStates, Layer, Pre
    <3> QED BY <3>1, <3>2
  <2>2. RowsAfter(vc) = YNew - 1 - vc
    BY <1>5, <2>1 DEF RowsAfter
  <2>3. Fill <= YNew - 1 - vc /\ (hc > Drained => Fill < YNew - 1 - vc)
    BY <1>5, <2>1, <2>2, Reserve
  <2>4. CASE hc <= 2 * XLast
    BY <1>1, <1>2, <2>3, <2>4
  <2>5. CASE hc = 2 * XLast + 1
    BY <1>1, <1>2, <1>5, <2>3, <2>5
  <2> QED BY <1>1, <2>4, <2>5
<1> QED BY <1>3, <1>4, <1>5
-----------------------------------------------------------------------------
(* The budget.                                                             *)

(* A new frame has all its rows before it.                                 *)
LEMMA FreshBudget ==
  ASSUME TypeOK', vc' = YNew, bk'.st = "Halted", ds'.st = "Halted", dn'.st = "Halted", State' \notin Layer
  PROVE  Budget'
<1>1. BkLeft' = BkTime /\ DsLeft' = DsTime /\ DnLeft' = DnTime
  BY DEF BkLeft, DsLeft, DnLeft
<1>2. LayersLeft' = RowService + RowService + RowService
  BY DEF LayersLeft, RowService, FetchTime, WordTime
<1>3. RowLeft' = 0 /\ RowsAfter(vc)' = YNew + 1 /\ ~Idles'
  BY DEF RowLeft, RowsAfter, Idles, Layer
<1>4. RowsTime(Fill)' = RowsTime(Fill) /\ RowsTime(RowsAfter(vc))' = RowsTime(YNew + 1)
  BY <1>3
     DEF RowsTime, Fill, FillRows, FillTime, BkTime, DsTime, DnTime, RowService, WordTime,
         FetchTime, DigitTime,
           SpriteTime, BodyTime
<1>5. BkTime + DsTime + DnTime + 3 * RowService + RowsTime(Fill) <= RowsTime(YNew + 1)
  BY FillFits
<1>6. BkTime \in Nat /\ DsTime \in Nat /\ DnTime \in Nat /\ RowService \in Nat /\ RowsTime(Fill) \in Nat
      /\ RowsTime(YNew + 1) \in Nat
  <2>1. Fill \in Nat /\ YNew + 1 \in Nat
    BY FillFits, Figures
  <2> QED BY <2>1, FillFits, Sizes, Rows
<1>7. BkLeft' + DsLeft' + DnLeft' + LayersLeft' + RowsTime(Fill)'
        <= RowsTime(RowsAfter(vc))' + (IF Idles' THEN 0 ELSE RowLeft')
  BY <1>1, <1>2, <1>3, <1>4, <1>5, <1>6
<1> QED BY <1>7 DEF Budget

(* One clock lowers what is left by one where it is served, and never      *)
(* raises it; a layer that ends gives back its row.                        *)
LEMMA LeftFalls ==
  ASSUME IInv, Next, ~NewFrame
  PROVE  /\ BkLeft' + DsLeft' + DnLeft' <= BkLeft + DsLeft + DnLeft
         /\ State \in Layer /\ ~Idles => BkLeft' + DsLeft' + DnLeft' + 1 <= BkLeft + DsLeft + DnLeft
         /\ LayersLeft' <= LayersLeft
         /\ Idles' /\ ~Idles => LayersLeft' + RowService <= LayersLeft
<1> DEFINE k == BkLeft'  s == DsLeft'  n == DnLeft'
<1>1. /\ BkLeft \in Nat /\ DsLeft \in Nat /\ DnLeft \in Nat /\ k \in Nat /\ s \in Nat /\ n \in Nat
      /\ bk.st # "Done" => k <= BkLeft /\ (State = "Background" => k + 1 <= BkLeft)
      /\ ds.st # "Done" => s <= DsLeft /\ (State = "Score" => s + 1 <= DsLeft)
      /\ dn.st # "Done" => n <= DnLeft /\ (State = "Note" => n + 1 <= DnLeft)
      /\ bk.st = "Done" => bk'.st = "Done"
      /\ ds.st = "Done" => ds'.st = "Done"
      /\ dn.st = "Done" => dn'.st = "Done"
  BY Clocks DEF BkClock, DsClock, DnClock, BkServed, DsServed, DnServed
<1>2. /\ bk.st = "Done" => k = 0
      /\ ds.st = "Done" => s = 0
      /\ dn.st = "Done" => n = 0
  BY <1>1 DEF BkLeft, DsLeft, DnLeft
<1> HIDE DEF k, s, n
<1>3. k <= BkLeft /\ s <= DsLeft /\ n <= DnLeft
  BY <1>1, <1>2
<1>4. State \in Layer /\ ~Idles => k + s + n + 1 <= BkLeft + DsLeft + DnLeft
  <2>1. CASE State = "Background"
    <3>1. ~Idles => bk.st # "Done"
      BY <2>1 DEF Idles
    <3> QED BY <1>1, <1>3, <2>1, <3>1
  <2>2. CASE State = "Score"
    <3>1. ~Idles => ds.st # "Done"
      BY <2>2 DEF Idles
    <3> QED BY <1>1, <1>3, <2>2, <3>1
  <2>3. CASE State = "Note"
    <3>1. ~Idles => dn.st # "Done"
      BY <2>3 DEF Idles
    <3> QED BY <1>1, <1>3, <2>3, <3>1
  <2> QED BY <2>1, <2>2, <2>3 DEF Layer
<1>5. RowService \in Nat /\ RowService' = RowService
  BY Sizes DEF RowService, FetchTime, WordTime
<1> DEFINE part(st) == IF st = "Done" THEN 0 ELSE RowService
<1>6. LayersLeft = part(bk.st) + part(ds.st) + part(dn.st) /\ LayersLeft' = part(bk'.st) + part(ds'.st) + part(dn'.st)
  BY <1>5 DEF LayersLeft
<1>7. LayersLeft' <= LayersLeft
  BY <1>1, <1>5, <1>6
<1>8. Idles' /\ ~Idles => \/ bk.st # "Done" /\ bk'.st = "Done"
                          \/ ds.st # "Done" /\ ds'.st = "Done"
                          \/ dn.st # "Done" /\ dn'.st = "Done"
  <2>1. /\ State' = "Background" => State = "Background" \/ bk.st # "Done"
        /\ State' = "Score" => State = "Score" \/ ds.st # "Done"
        /\ State' = "Note" => State = "Note" \/ dn.st # "Done"
    BY Parts, Turns DEF ArbiterStates, BootStates, Pre, NextLayer
  <2> QED BY <2>1 DEF Idles
<1>9. Idles' /\ ~Idles => LayersLeft' + RowService <= LayersLeft
  <2>1. part(bk'.st) <= part(bk.st) /\ part(ds'.st) <= part(ds.st) /\ part(dn'.st) <= part(dn.st)
    BY <1>1, <1>5
  <2>2. /\ bk.st # "Done" /\ bk'.st = "Done" => part(bk'.st) + RowService <= part(bk.st)
        /\ ds.st # "Done" /\ ds'.st = "Done" => part(ds'.st) + RowService <= part(ds.st)
        /\ dn.st # "Done" /\ dn'.st = "Done" => part(dn'.st) + RowService <= part(dn.st)
    BY <1>5
  <2>3. part(bk.st) \in Nat /\ part(ds.st) \in Nat /\ part(dn.st) \in Nat
        /\ part(bk'.st) \in Nat /\ part(ds'.st) \in Nat /\ part(dn'.st) \in Nat
    BY <1>5
  <2> DEFINE a == part(bk.st)  b == part(ds.st)  c == part(dn.st)
             d == part(bk'.st)  e == part(ds'.st)  f == part(dn'.st)
  <2> HIDE DEF a, b, c, d, e, f
  <2>4. LayersLeft = a + b + c /\ LayersLeft' = d + e + f
    BY <1>6 DEF a, b, c, d, e, f
  <2>5. d <= a /\ e <= b /\ f <= c /\ a \in Nat /\ b \in Nat /\ c \in Nat /\ d \in Nat /\ e \in Nat /\ f \in Nat
    BY <2>1, <2>3 DEF a, b, c, d, e, f
  <2>6. Idles' /\ ~Idles => d + RowService <= a \/ e + RowService <= b \/ f + RowService <= c
    BY <1>8, <2>2 DEF a, b, c, d, e, f
  <2> QED BY <1>5, <2>4, <2>5, <2>6
<1>10. k + s + n <= BkLeft + DsLeft + DnLeft
  BY <1>1, <1>3
<1> QED BY <1>4, <1>7, <1>9, <1>10 DEF k, s, n

(* What a clock takes from the rows: one where a drawer could be served.   *)
LEMMA RowFalls ==
  ASSUME IInv, Next, start_sign, ~Complete
  PROVE  /\ RowsTime(RowsAfter(vc)) \in Nat /\ RowsTime(RowsAfter(vc))' \in Nat
         /\ RowLeft \in Nat /\ RowLeft' \in Nat /\ RowLeft <= RowService
         /\ hc = 2 * XLast + 1 =>
              /\ RowsTime(RowsAfter(vc)) <= RowsTime(RowsAfter(vc))' + RowLeft'
              /\ RowLeft = 0 /\ ~Idles'
         /\ hc <= 2 * XLast =>
              /\ RowsTime(RowsAfter(vc)) = RowsTime(RowsAfter(vc))'
              /\ RowLeft <= RowLeft' + 1
              /\ State \notin Layer => RowLeft <= RowLeft'
<1>1. /\ XLast \in Nat /\ hc \in Nat /\ vc \in Nat /\ hc <= 2 * XLast + 1 /\ vc <= YLast
      /\ YNew \in Nat /\ YNew >= 1 /\ YShown \in Nat /\ YShown < YNew /\ YLast = YNew + 1
      /\ Drained \in Nat /\ Drained < 2 * XLast /\ FirstServed \in Nat /\ FirstServed < Drained
      /\ FirstServed >= 3
      /\ RowService = Drained + 1 - FirstServed /\ FirstServed = FetchTime + 3 /\ FetchTime \in Nat
  BY Figures, Sizes, Parts, Pixels
<1>2. /\ RowService \in Nat /\ RowService >= 1 /\ RowLeft \in Nat /\ RowLeft <= RowService
      /\ (hc > Drained => RowLeft = 0) /\ Fill \in Nat
  BY Charges
<1> DEFINE v == vc'  h == hc'
<1>3. v \in Nat /\ h \in Nat /\ v <= YLast
  BY Parts, BeamMoves
<1>4. RowLeft' = IF v = YNew \/ h > Drained THEN 0
                 ELSE IF h < FirstServed THEN RowService ELSE Drained + 1 - h
  BY DEF RowLeft, Drained, FirstServed, RowService, FetchTime, WordTime
<1>5. RowsTime(RowsAfter(vc))' = RowsTime(RowsAfter(v))
  BY DEF RowsTime, RowsAfter, RowService, FetchTime, WordTime
<1>6. \A r \in Nat : r <= YLast => RowsAfter(r) \in Nat
  BY <1>1 DEF RowsAfter
<1>7. RowsAfter(vc) \in Nat /\ RowsAfter(v) \in Nat
  BY <1>1, <1>3, <1>6
<1>8. RowsTime(RowsAfter(vc)) \in Nat /\ RowsTime(RowsAfter(v)) \in Nat
  BY <1>7, Rows
<1>9. RowLeft' \in Nat
  <2> HIDE DEF v, h
  <2> QED BY <1>1, <1>2, <1>3, <1>4
<1>10. ASSUME hc = 2 * XLast + 1
       PROVE  /\ RowsTime(RowsAfter(vc)) <= RowsTime(RowsAfter(vc))' + RowLeft'
              /\ RowLeft = 0 /\ ~Idles'
  <2>1. h = 0 /\ v = (IF vc = YLast THEN 0 ELSE vc + 1)
    BY <1>10, Parts, BeamMoves
  <2>2. vc # YNew - 1
    <3>1. hc > Drained
      BY <1>1, <1>10
    <3>2. Fill < RowsAfter(vc)
      BY <3>1, Reserve
    <3> QED BY <1>1, <1>2, <3>2 DEF RowsAfter
  <2>3. RowLeft' = IF vc + 1 = YNew THEN 0 ELSE RowService
    <3>1. v = YNew <=> vc + 1 = YNew
      BY <1>1, <2>1
    <3> QED BY <1>1, <1>4, <2>1, <3>1
  <2>4. RowsAfter(vc) = RowsAfter(v) + 1
    BY <1>1, <2>1, <2>2 DEF RowsAfter
  <2>5. RowsTime(RowsAfter(vc)) = RowsTime(RowsAfter(v)) + RowService
    BY <1>7, <2>4, Rows
  <2>6. ~Idles'
    <3>1. State' \notin Layer
      <4>1. State' \in Layer => 1 <= h
        BY WhereLayer
      <4> QED BY <2>1, <4>1
    <3> QED BY <3>1 DEF Idles, Layer
  <2>7. vc + 1 # YNew
    BY <1>1, <2>2
  <2>8. RowLeft = 0
    BY <1>1, <1>2, <1>10
  <2> QED BY <1>2, <1>5, <1>8, <2>3, <2>5, <2>6, <2>7, <2>8
<1>11. ASSUME hc <= 2 * XLast
       PROVE  /\ RowsTime(RowsAfter(vc)) = RowsTime(RowsAfter(vc))'
              /\ RowLeft <= RowLeft' + 1
              /\ State \notin Layer => RowLeft <= RowLeft'
  <2>1. h = hc + 1 /\ v = vc
    BY <1>11, Parts, BeamMoves
  <2> DEFINE y == RowLeft'
  <2>5. RowsTime(RowsAfter(vc)) = RowsTime(RowsAfter(vc))' /\ y \in Nat
    BY <1>5, <1>9, <2>1
  <2>2. CASE vc = YNew \/ hc > Drained
    <3>1. RowLeft = 0
      BY <2>2 DEF RowLeft
    <3> HIDE DEF y
    <3>2. RowLeft <= y + 1 /\ RowLeft <= y
      BY <2>5, <3>1
    <3> QED BY <2>5, <3>2 DEF y
  <2>3. CASE vc # YNew /\ hc < FirstServed
    <3>1. RowLeft = RowService
      BY <1>1, <2>3 DEF RowLeft
    <3>2. RowLeft' = RowService
      <4> HIDE DEF v, h
      <4> QED BY <1>1, <1>4, <2>1, <2>3
    <3> HIDE DEF y
    <3>3. RowLeft <= y + 1 /\ RowLeft <= y
      BY <1>2, <3>1, <3>2 DEF y
    <3> QED BY <2>5, <3>3 DEF y
  <2>4. CASE vc # YNew /\ FirstServed <= hc /\ hc <= Drained
    <3>1. RowLeft = Drained + 1 - hc
      BY <1>1, <2>4 DEF RowLeft
    <3>2. RowLeft' = Drained - hc
      <4> HIDE DEF v, h
      <4> QED BY <1>1, <1>4, <2>1, <2>4
    <3>3. State \in Layer
      <4>1. State \in ArbiterStates \ BootStates
        BY Parts, Types DEF start_sign
      <4>2. State \notin {"PCM", "PCM_done", "Halted"}
        BY Parts DEF Where
      <4>3. State \notin Pre \cup {"Line_buffer", "Line_buffer_done"}
        BY <1>1, <2>4, Parts DEF Where, NewFrameOver
      <4>4. State # "Line_buffer_mid"
        BY <1>1, <2>4, Parts DEF Where
      <4> QED BY <4>1, <4>2, <4>3, <4>4 DEF ArbiterStates, Layer, Pre
    <3>4. y = Drained - hc
      BY <3>2
    <3> HIDE DEF y
    <3>5. RowLeft <= y + 1
      BY <1>1, <2>4, <3>1, <3>4
    <3> QED BY <2>5, <3>3, <3>5 DEF y
  <2> QED BY <1>1, <2>2, <2>3, <2>4
<1> QED BY <1>2, <1>5, <1>8, <1>9, <1>10, <1>11

(* Budget is kept: in a clock of the row that serves a drawer, the work    *)
(* left falls by one; a layer that ends early gives up no more than was    *)
(* set aside for it.                                                       *)
LEMMA BudgetStep ==
  ASSUME IInv, Next
  PROVE  Budget'
<1>1. CASE ~start_sign' \/ Complete'
  BY <1>1 DEF Budget
<1>2. TypeOK'
  BY Parts, TypeStep
<1>3. /\ XLast \in Nat /\ hc \in Nat /\ XPause \in Nat /\ Drained \in Nat /\ Drained < 2 * XLast /\ 2 * XPause + 4 <= Drained
  BY Figures, Sizes, Parts, Pixels
<1>4. CASE NewFrame /\ start_sign'
  <2>1. vc = YNew /\ (hc = 2 * XPause + 2 \/ hc = 2 * XPause + 3)
    BY <1>4, AtNewFrame
  <2>2. vc' = YNew
    BY <1>3, <2>1, Parts, BeamMoves
  <2>3. State \in BootStates \cup {"Halted", "Line_buffer_pre_bk"}
        /\ (Complete \/ (bk.st = "Halted" /\ ds.st = "Halted" /\ dn.st = "Halted"))
    BY <1>4, AtNewFrame
  <2>4. bk'.st = "Halted" /\ ds'.st = "Halted" /\ dn'.st = "Halted"
    BY <1>4, <2>3, Clocks
       DEF BkClock, DsClock, DnClock, BkServed, DsServed, DnServed, Complete, BootStates
  <2>5. State' \notin Layer
    BY <2>3, Parts, Turns DEF BootStates, Layer, Pre
  <2> QED BY <1>2, <2>2, <2>4, <2>5, FreshBudget
<1>5. CASE ~NewFrame /\ start_sign' /\ ~Complete'
  <2>1. start_sign /\ ~Complete
    <3>1. start_sign
      BY <1>5, Parts, Turns DEF start_sign, BootStates
    <3> QED BY <1>5, <3>1, StayComplete
  <2> DEFINE l == BkLeft + DsLeft + DnLeft  m == BkLeft' + DsLeft' + DnLeft'
             a == LayersLeft  b == LayersLeft'  f == RowsTime(Fill)
             r == RowsTime(RowsAfter(vc))  q == RowsTime(RowsAfter(vc))'
             x == RowLeft  y == RowLeft'  i == Idles  j == Idles'
  <2>2. l + a + f <= r + (IF i THEN 0 ELSE x)
    BY <2>1, Parts DEF Budget
  <2>3. f = RowsTime(Fill)'
    BY
       DEF RowsTime, Fill, FillRows, FillTime, BkTime, DsTime, DnTime, RowService, WordTime,
           FetchTime, DigitTime,
           SpriteTime, BodyTime
  <2>4. /\ m <= l
        /\ State \in Layer /\ ~i => m + 1 <= l
        /\ b <= a
        /\ j /\ ~i => b + RowService <= a
    BY <1>5, LeftFalls
  <2>5. /\ r \in Nat /\ q \in Nat /\ x \in Nat /\ y \in Nat /\ x <= RowService
        /\ hc = 2 * XLast + 1 => r <= q + y /\ x = 0 /\ ~j
        /\ hc <= 2 * XLast => r = q /\ x <= y + 1 /\ (State \notin Layer => x <= y)
    BY <2>1, RowFalls
  <2>6. l \in Nat /\ m \in Nat /\ a \in Nat /\ b \in Nat /\ f \in Nat /\ RowService \in Nat
    <3>1. BkLeft \in Nat /\ DsLeft \in Nat /\ DnLeft \in Nat /\ BkLeft' \in Nat /\ DsLeft' \in Nat /\ DnLeft' \in Nat
      BY Clocks DEF BkClock, DsClock, DnClock
    <3>2. b \in Nat
      <4>1. RowService \in Nat /\ RowService' = RowService
        BY Sizes DEF RowService, FetchTime, WordTime
      <4> QED BY <4>1 DEF LayersLeft
    <3> DEFINE c == BkLeft'  d == DsLeft'  e == DnLeft'
    <3>3. c + d + e \in Nat
      <4>1. c \in Nat /\ d \in Nat /\ e \in Nat
        BY <3>1
      <4> HIDE DEF c, d, e
      <4> QED BY <4>1
    <3>4. m \in Nat
      BY <3>3
    <3>5. l \in Nat
      BY <3>1
    <3> HIDE DEF l, m, b
    <3> QED BY <3>2, <3>4, <3>5, Charges
  <2>7. hc = 2 * XLast + 1 \/ hc <= 2 * XLast
    BY <1>3, Parts, Pixels
  <2>8. BkLeft' + DsLeft' + DnLeft' + LayersLeft' + RowsTime(Fill)'
          <= RowsTime(RowsAfter(vc))' + (IF Idles' THEN 0 ELSE RowLeft')
    <3>1. m + b + f <= q + (IF j THEN 0 ELSE y)
      <4> HIDE DEF l, m, a, b, f, r, q, x, y, i, j
      <4>1. CASE hc = 2 * XLast + 1
        BY <2>2, <2>4, <2>5, <2>6, <4>1
      <4>2. CASE hc <= 2 * XLast
        <5>1. CASE i
          BY <2>2, <2>4, <2>5, <2>6, <4>2, <5>1
        <5>2. CASE ~i /\ j
          BY <2>2, <2>4, <2>5, <2>6, <4>2, <5>2
        <5>3. CASE ~i /\ ~j /\ State \in Layer
          BY <2>2, <2>4, <2>5, <2>6, <4>2, <5>3
        <5>4. CASE ~i /\ ~j /\ State \notin Layer
          BY <2>2, <2>4, <2>5, <2>6, <4>2, <5>4
        <5> QED BY <5>1, <5>2, <5>3, <5>4
      <4> QED BY <2>7, <4>1, <4>2
    <3> QED BY <2>3, <3>1
  <2> QED BY <2>8 DEF Budget
<1> QED BY <1>1, <1>4, <1>5
-----------------------------------------------------------------------------
(* The beam and the fetch.                                                 *)

(* The figures of the raster and the position of the beam in it.           *)
LEMMA Bounds ==
  ASSUME TypeOK, Next
  PROVE  /\ XLast \in Nat /\ XPause \in Nat /\ XPause >= 1 /\ Drained \in Nat /\ Drained < 2 * XLast
         /\ 2 * XPause + 4 <= Drained /\ FetchTime \in Nat /\ FetchTime >= 3
         /\ FetchTime <= 2 * XPause
         /\ YShown \in Nat /\ YNew \in Nat /\ YLast = YNew + 1 /\ YShown < YNew
         /\ hc \in Nat /\ hc <= 2 * XLast + 1 /\ vc \in Nat /\ vc <= YLast
         /\ \/ hc <= 2 * XLast /\ hc' = hc + 1 /\ vc' = vc
            \/ hc = 2 * XLast + 1 /\ hc' = 0 /\ vc' = IF vc = YLast THEN 0 ELSE vc + 1
<1>1. /\ XLast \in Nat /\ XPause \in Nat /\ XPause >= 1 /\ Drained \in Nat /\ Drained < 2 * XLast
      /\ 2 * XPause + 4 <= Drained /\ FetchTime \in Nat /\ FetchTime >= 3 /\ FetchTime <= 2 * XPause
      /\ YShown \in Nat /\ YNew \in Nat /\ YLast = YNew + 1 /\ YShown < YNew
  BY Figures
<1>2. hc \in Nat /\ hc <= 2 * XLast + 1 /\ vc \in Nat /\ vc <= YLast
  BY Pixels
<1> QED BY <1>1, <1>2, BeamMoves

(* The arbiter stays with lineb while a row is read.                       *)
LEMMA StayServed ==
  ASSUME IInv, Next, ~NewFrame
  PROVE  /\ State = "Line_buffer_startscreen" => State' = "Line_buffer_startscreen"
         /\ State = "Line_buffer" /\ lb.st \notin {"Done", "Pause"} => State' = "Line_buffer"
BY Parts, Turns

(* The lemmas that follow say where the beam is in each state of lineb.    *)
LEMMA FetchHalted ==
  ASSUME IInv, Next, lb.st = "Halted"
  PROVE  /\ lb'.st = "Halted" /\ State' \notin Start5 => NewFrameOver'
         /\ lb'.st \in {"Halted", "Read"} /\ (lb'.st = "Read" => Reading')
<1>1. /\ LbServed => LbFresh' /\ LbLeft' = FetchTime
      /\ ~LbServed => lb'.st = "Halted"
  BY LbClocks, Parts DEF LbClock
<1>2. State \notin Start5 => vc = YNew /\ hc >= 2 * XPause + 3
  BY Parts DEF Fetching, NewFrameOver
<1>3. CASE ~LbServed
  <2>1. ASSUME State' \notin Start5 PROVE NewFrameOver'
    <3>1. CASE State \in Start5
      <4>1. NewFrame
        BY <2>1, <3>1, Origins
      <4>2. vc = YNew /\ hc >= 2 * XPause + 2 /\ hc <= 2 * XPause + 3
        BY <4>1, Parts, Pixels, Figures
      <4> QED BY <4>2, Parts, Bounds DEF NewFrameOver
    <3>2. CASE State \notin Start5
      <4>1. hc # 2 * XLast + 1
        <5>1. hc = 2 * XLast + 1 => State \in {"PCM", "PCM_done", "Halted"} /\ vc < YNew
          BY <1>3, <3>2, AtRowEnd DEF LbServed
        <5> QED BY <1>2, <3>2, <5>1, Parts, Bounds
      <4> QED BY <1>2, <3>2, <4>1, Parts, Bounds DEF NewFrameOver
    <3> QED BY <3>1, <3>2
  <2> QED BY <1>1, <1>3, <2>1
<1>4. CASE LbServed
  <2>1. vc = YNew /\ hc >= 2 * XPause + 3
    BY <1>2, <1>4 DEF LbServed, Start5
  <2>2. lb'.st = "Read" /\ LbFresh' /\ LbLeft' = FetchTime /\ FetchTime' = FetchTime
    BY <1>1, <1>4 DEF LbFresh, FetchTime, WordTime
  <2>3. CASE hc = 2 * XLast + 1
    <3>1. hc' = 0 /\ vc' = YLast
      BY <2>1, <2>3, Parts, Bounds
    <3>2. ~NewFrame
      BY <2>3, Parts, Pixels, Bounds
    <3>3. State' \in {"Line_buffer", "Line_buffer_startscreen"}
      BY <1>4, <3>2, StayServed DEF LbServed
    <3>4. hc' + LbLeft' <= FetchTime' + 1
      <4>1. 0 + FetchTime <= FetchTime + 1
        BY Figures
      <4> QED BY <2>2, <3>1, <4>1
    <3> QED BY <2>2, <3>1, <3>3, <3>4 DEF Reading, FetchRow
  <2>4. CASE hc <= 2 * XLast
    <3>1. hc' = hc + 1 /\ vc' = YNew /\ hc' >= 2 * XPause + 4
      BY <2>1, <2>4, Parts, Bounds
    <3>2. State = "Line_buffer_startscreen"
      BY <1>4, <2>4, Parts DEF LbServed, Fetching
    <3>3. CASE State' = "Line_buffer_startscreen"
      <4>1. LbLeft' <= FetchTime'
        BY <2>2, Figures
      <4> QED BY <2>2, <3>1, <3>3, <4>1 DEF Reading
    <3>4. CASE State' = "Line_buffer_pre_bk"
      <4>1. NewFrameOver'
        BY <3>1, Parts, Bounds DEF NewFrameOver
      <4> QED BY <2>2, <3>4, <4>1 DEF Reading, Pre
    <3> QED BY <2>2, <3>2, <3>3, <3>4, Parts, Turns
  <2> QED BY <2>3, <2>4, Parts, Bounds
<1> QED BY <1>3, <1>4

LEMMA FetchRead ==
  ASSUME IInv, Next, lb.st \in {"Read", "Read1"}
  PROVE  /\ lb'.st \in {"Read", "Read1", "Pause"}
         /\ lb'.st \in {"Read", "Read1"} => Reading'
         /\ lb'.st = "Pause" =>
              /\ State' \in {"Line_buffer", "Line_buffer_startscreen"}
              /\ \/ FetchRow' /\ hc' <= 2 * XPause + 1
                 \/ State' = "Line_buffer_startscreen" /\ vc' = YNew /\ 2 * XPause + 4 < hc'
<1> DEFINE l == LbLeft  m == LbLeft'  h == hc'  v == vc'
<1>1. /\ l \in Nat /\ m \in Nat /\ l >= 1 /\ lb'.st \in {"Read", "Read1", "Pause"}
      /\ LbServed => m + 1 <= l
      /\ lb.st = "Read" /\ ~LbServed => lb'.st = "Read" /\ lb'.x = lb.x /\ Seen("lb")' = 0
      /\ lb.st = "Read" /\ Seen("lb") = 0 => lb'.st = "Read"
      /\ lb.st = "Read" /\ lb.x = 0 => l <= FetchTime
  BY LbClocks, Parts DEF LbClock
<1>2. Reading
  BY Parts DEF Fetching
<1>3. /\ XLast \in Nat /\ XPause \in Nat /\ XPause >= 1 /\ Drained \in Nat /\ Drained < 2 * XLast
      /\ 2 * XPause + 4 <= Drained /\ FetchTime \in Nat /\ FetchTime >= 3 /\ FetchTime <= 2 * XPause
      /\ YShown \in Nat /\ YNew \in Nat /\ YLast = YNew + 1 /\ YShown < YNew
      /\ hc \in Nat /\ hc <= 2 * XLast + 1 /\ vc \in Nat /\ vc <= YLast
      /\ \/ hc <= 2 * XLast /\ h = hc + 1 /\ v = vc
         \/ hc = 2 * XLast + 1 /\ h = 0 /\ v = IF vc = YLast THEN 0 ELSE vc + 1
  BY Parts, Bounds
<1>4. FetchTime' = FetchTime
  BY DEF FetchTime, WordTime
<1>5. NewFrame <=> vc = YNew /\ (hc = 2 * XPause + 2 \/ hc = 2 * XPause + 3)
  BY Parts, Pixels
<1> HIDE DEF l, m, h, v
<1>6. CASE LbServed /\ FetchRow /\ hc + l <= FetchTime + 1
  <2>1. FetchRow' /\ v = vc /\ h = hc + 1 /\ h <= 2 * XPause + 1 /\ h + m <= FetchTime + 1 /\ ~NewFrame
    <3>1. hc <= FetchTime
      BY <1>1, <1>3, <1>6
    <3>2. v = vc /\ h = hc + 1 /\ h <= 2 * XPause + 1 /\ h + m <= FetchTime + 1
      BY <1>1, <1>3, <1>6, <3>1
    <3>3. vc # YNew
      BY <1>3, <1>6 DEF FetchRow
    <3>4. FetchRow'
      BY <1>6, <3>2 DEF FetchRow, v
    <3> QED BY <1>5, <3>2, <3>3, <3>4
  <2>2. State' \in {"Line_buffer", "Line_buffer_startscreen"}
    BY <1>6, <2>1, StayServed DEF LbServed
  <2>3. Reading'
    BY <1>4, <2>1, <2>2 DEF Reading, h, m
  <2> QED BY <1>1, <2>1, <2>2, <2>3 DEF h
<1>7. CASE State = "Line_buffer_startscreen" /\ vc = YNew /\ 2 * XPause + 4 <= hc /\ l <= FetchTime
  <2>1. State' = "Line_buffer_startscreen" /\ LbServed
    BY <1>3, <1>5, <1>7, StayServed DEF LbServed
  <2>2. m <= FetchTime
    BY <1>1, <1>3, <1>7, <2>1
  <2>3. CASE hc <= 2 * XLast
    <3>1. v = YNew /\ 2 * XPause + 4 < h
      BY <1>3, <1>7, <2>3
    <3>2. Reading'
      <4>1. 2 * XPause + 4 <= h
        BY <1>3, <1>7, <2>3
      <4> QED BY <1>4, <2>1, <2>2, <3>1, <4>1 DEF Reading, h, m, v
    <3> QED BY <1>1, <2>1, <3>1, <3>2 DEF h, v
  <2>4. CASE hc = 2 * XLast + 1
    <3>1. v = YLast /\ h = 0 /\ h + m <= FetchTime + 1 /\ h <= 2 * XPause + 1
      BY <1>1, <1>3, <1>7, <2>2, <2>4
    <3>2. FetchRow'
      BY <3>1 DEF FetchRow, v
    <3> QED BY <1>1, <1>4, <2>1, <3>1, <3>2 DEF Reading, h, m
  <2> QED BY <1>3, <2>3, <2>4
<1>8. CASE State \in Pre \cup {"Line_buffer"} /\ NewFrameOver /\ LbFresh
  <2>1. lb.st = "Read" /\ lb.x = 0 /\ Seen("lb") = 0 /\ vc = YNew /\ hc >= 2 * XPause + 3
    BY <1>8 DEF LbFresh, NewFrameOver
  <2>2. CASE State \in Pre
    <3>1. LbFresh'
      BY <1>1, <2>1, <2>2 DEF LbFresh, LbServed, Pre
    <3>2. hc <= 2 * XLast
      BY <1>3, <2>2, Parts DEF Where
    <3>3. NewFrameOver'
      <4>1. h >= 2 * XPause + 3 /\ v = YNew
        BY <1>3, <2>1, <3>2
      <4> QED BY <4>1 DEF NewFrameOver, h, v
    <3>4. State' \in Pre \cup {"Line_buffer"}
      BY <2>2, Parts, Turns
    <3> QED BY <3>1, <3>3, <3>4 DEF Reading, LbFresh
  <2>3. CASE State = "Line_buffer"
    <3>1. hc = 2 * XLast + 1
      BY <1>3, <2>1, <2>3, Parts DEF Where, FetchRow
    <3>2. h = 0 /\ v = YLast /\ ~NewFrame
      BY <1>3, <1>5, <2>1, <3>1
    <3>3. State' = "Line_buffer" /\ lb'.st = "Read"
      BY <1>1, <2>1, <2>3, <3>2, StayServed
    <3>4. h + m <= FetchTime + 1
      BY <1>1, <1>3, <2>1, <2>3, <3>2 DEF LbServed
    <3> QED BY <1>4, <3>2, <3>3, <3>4 DEF Reading, FetchRow, h, m, v
  <2> QED BY <1>8, <2>2, <2>3
<1> QED BY <1>2, <1>6, <1>7, <1>8 DEF Reading, l, LbServed

LEMMA FetchPause ==
  ASSUME IInv, Next, lb.st = "Pause"
  PROVE  /\ lb'.st \in {"Pause", "Pause1", "Done"}
         /\ lb'.st = "Pause" =>
              /\ State' \in {"Line_buffer", "Line_buffer_startscreen", "Line_buffer_mid"} \cup Layer
              /\ \/ FetchRow' /\ hc' <= 2 * XPause + 1
                 \/ State' = "Line_buffer_startscreen" /\ vc' = YNew /\ 2 * XPause + 4 < hc'
         /\ lb'.st = "Pause1" => (vc' = YLast \/ vc' < YShown) /\ 2 * XPause + 1 <= hc'
         /\ lb'.st = "Done" => vc' = YShown /\ 1 <= hc'
<1> DEFINE h == hc'  v == vc'
<1>1. lb'.st = IF vc = YShown THEN "Done" ELSE IF DrawX = XPause THEN "Pause1" ELSE "Pause"
  BY LbClocks, Parts DEF LbClock
<1>2. /\ State \in {"Line_buffer", "Line_buffer_startscreen", "Line_buffer_mid"} \cup Layer
      /\ \/ FetchRow /\ hc <= 2 * XPause + 1
         \/ State = "Line_buffer_startscreen" /\ vc = YNew /\ 2 * XPause + 4 < hc
  BY Parts DEF Fetching
<1>3. /\ XLast \in Nat /\ XPause \in Nat /\ XPause >= 1 /\ Drained \in Nat /\ Drained < 2 * XLast
      /\ 2 * XPause + 4 <= Drained
      /\ YShown \in Nat /\ YNew \in Nat /\ YLast = YNew + 1 /\ YShown < YNew
      /\ hc \in Nat /\ hc <= 2 * XLast + 1 /\ vc \in Nat /\ vc <= YLast
      /\ \/ hc <= 2 * XLast /\ h = hc + 1 /\ v = vc
         \/ hc = 2 * XLast + 1 /\ h = 0 /\ v = IF vc = YLast THEN 0 ELSE vc + 1
  BY Parts, Bounds
<1>4. /\ DrawX = XPause <=> hc = 2 * XPause \/ hc = 2 * XPause + 1
      /\ DrawX = XDrain => hc = Drained \/ hc = Drained + 1
      /\ NewFrame <=> vc = YNew /\ (hc = 2 * XPause + 2 \/ hc = 2 * XPause + 3)
  BY Parts, Pixels
<1> HIDE DEF h, v
<1>5. CASE FetchRow /\ hc <= 2 * XPause + 1
  <2>1. h = hc + 1 /\ v = vc /\ ~NewFrame /\ DrawX # XDrain /\ (vc = YLast \/ vc <= YShown)
    BY <1>3, <1>4, <1>5 DEF FetchRow
  <2>2. State' \in {"Line_buffer", "Line_buffer_startscreen", "Line_buffer_mid"} \cup Layer
    BY <1>2, <2>1, Parts, Turns DEF Layer, NextLayer
  <2>3. FetchRow'
    BY <2>1 DEF FetchRow, v
  <2>4. DrawX # XPause => h <= 2 * XPause + 1
    BY <1>3, <1>4, <1>5, <2>1
  <2>5. DrawX = XPause => h >= 2 * XPause + 1
    BY <1>3, <1>4, <2>1
  <2>6. vc # YShown => v = YLast \/ v < YShown
    BY <1>3, <2>1
  <2>7. vc = YShown => v = YShown /\ 1 <= h
    BY <1>3, <2>1
  <2> QED BY <1>1, <2>2, <2>3, <2>4, <2>5, <2>6, <2>7 DEF h, v
<1>6. CASE State = "Line_buffer_startscreen" /\ vc = YNew /\ 2 * XPause + 4 < hc
  <2>1. ~NewFrame /\ DrawX # XPause /\ vc # YShown
    BY <1>3, <1>4, <1>6
  <2>2. State' = "Line_buffer_startscreen" /\ lb'.st = "Pause"
    BY <1>1, <1>6, <2>1, StayServed
  <2>3. (v = YNew /\ 2 * XPause + 4 < h) \/ (v = YLast /\ h <= 2 * XPause + 1)
    BY <1>3, <1>6
  <2>4. v = YLast => FetchRow'
    BY DEF FetchRow, v
  <2> QED BY <2>2, <2>3, <2>4 DEF h, v
<1> QED BY <1>2, <1>5, <1>6

LEMMA FetchPause1 ==
  ASSUME IInv, Next, lb.st = "Pause1"
  PROVE  /\ lb'.st \in {"Read", "Pause1"}
         /\ lb'.st = "Read" => Reading'
         /\ lb'.st = "Pause1" =>
              \/ (vc' = YLast \/ vc' < YShown) /\ 2 * XPause + 1 <= hc'
              \/ vc' <= YShown /\ hc' = 0 /\ State' \in {"Line_buffer", "Line_buffer_startscreen"}
<1> DEFINE h == hc'  v == vc'
<1>1. IF DrawX = 0 THEN LbFresh' /\ LbLeft' = FetchTime ELSE lb'.st = "Pause1"
  BY LbClocks, Parts DEF LbClock
<1>2. \/ (vc = YLast \/ vc < YShown) /\ 2 * XPause + 1 <= hc
      \/ vc <= YShown /\ hc = 0 /\ State \in {"Line_buffer", "Line_buffer_startscreen"}
  BY Parts DEF Fetching
<1>3. /\ XLast \in Nat /\ XPause \in Nat /\ XPause >= 1 /\ FetchTime \in Nat
      /\ YShown \in Nat /\ YNew \in Nat /\ YLast = YNew + 1 /\ YShown < YNew
      /\ hc \in Nat /\ hc <= 2 * XLast + 1 /\ vc \in Nat /\ vc <= YLast
      /\ \/ hc <= 2 * XLast /\ h = hc + 1 /\ v = vc
         \/ hc = 2 * XLast + 1 /\ h = 0 /\ v = IF vc = YLast THEN 0 ELSE vc + 1
  BY Parts, Bounds
<1>4. (DrawX = 0 <=> hc = 0 \/ hc = 1) /\ (NewFrame => vc = YNew)
  BY Parts, Pixels
<1> HIDE DEF h, v
<1>5. ~NewFrame
  BY <1>2, <1>3, <1>4
<1>6. CASE (vc = YLast \/ vc < YShown) /\ 2 * XPause + 1 <= hc
  <2>1. lb'.st = "Pause1"
    BY <1>1, <1>3, <1>4, <1>6
  <2>2. CASE hc <= 2 * XLast
    <3>1. (v = YLast \/ v < YShown) /\ 2 * XPause + 1 <= h
      BY <1>3, <1>6, <2>2
    <3> QED BY <2>1, <3>1 DEF h, v
  <2>3. CASE hc = 2 * XLast + 1
    <3>1. v <= YShown /\ h = 0
      BY <1>3, <1>6, <2>3
    <3>2. State \in {"Line_buffer", "Line_buffer_startscreen"}
      <4>1. State \notin Start5 \cup {"PCM", "PCM_done", "Halted"}
        BY Parts DEF Fetching, Where
      <4> QED BY <2>3, <4>1, AtRowEnd
    <3>3. State' \in {"Line_buffer", "Line_buffer_startscreen"}
      BY <1>5, <3>2, StayServed
    <3> QED BY <2>1, <3>1, <3>3 DEF h, v
  <2> QED BY <1>3, <2>2, <2>3
<1>7. CASE vc <= YShown /\ hc = 0 /\ State \in {"Line_buffer", "Line_buffer_startscreen"}
  <2>1. LbFresh' /\ LbLeft' = FetchTime /\ FetchTime' = FetchTime
    BY <1>1, <1>4, <1>7 DEF FetchTime, WordTime
  <2>2. State' \in {"Line_buffer", "Line_buffer_startscreen"}
    BY <1>5, <1>7, StayServed
  <2>3. h = 1 /\ v = vc
    BY <1>3, <1>7
  <2>4. FetchRow'
    BY <1>7, <2>3 DEF FetchRow, v
  <2>5. hc' + LbLeft' <= FetchTime' + 1
    <3>1. 1 + FetchTime <= FetchTime + 1
      BY <1>3
    <3> QED BY <2>1, <2>3, <3>1 DEF h
  <2> QED BY <2>1, <2>2, <2>4, <2>5 DEF Reading, LbFresh
<1> QED BY <1>2, <1>6, <1>7

LEMMA FetchDone ==
  ASSUME IInv, Next, lb.st = "Done"
  PROVE  /\ lb'.st \in {"Done", "Halted"}
         /\ lb'.st = "Halted" => NewFrameOver'
         /\ lb'.st = "Done" =>
              \/ vc' = YShown /\ 1 <= hc'
              \/ YShown < vc' /\ vc' < YNew
              \/ vc' = YNew /\ hc' <= 2 * XPause + 2
<1> DEFINE h == hc'  v == vc'
<1>1. lb'.st = IF NewFrame THEN "Halted" ELSE "Done"
  BY LbClocks, Parts DEF LbClock
<1>2. \/ vc = YShown /\ 1 <= hc
      \/ YShown < vc /\ vc < YNew
      \/ vc = YNew /\ hc <= 2 * XPause + 2
  BY Parts DEF Fetching
<1>3. /\ XLast \in Nat /\ XPause \in Nat /\ Drained \in Nat /\ Drained < 2 * XLast /\ 2 * XPause + 4 <= Drained
      /\ YShown \in Nat /\ YNew \in Nat /\ YLast = YNew + 1 /\ YShown < YNew
      /\ hc \in Nat /\ hc <= 2 * XLast + 1 /\ vc \in Nat /\ vc <= YLast
      /\ \/ hc <= 2 * XLast /\ h = hc + 1 /\ v = vc
         \/ hc = 2 * XLast + 1 /\ h = 0 /\ v = IF vc = YLast THEN 0 ELSE vc + 1
  BY Parts, Bounds
<1>4. NewFrame <=> vc = YNew /\ (hc = 2 * XPause + 2 \/ hc = 2 * XPause + 3)
  BY Parts, Pixels
<1> HIDE DEF h, v
<1>5. NewFrame => v = YNew /\ h >= 2 * XPause + 3
  BY <1>3, <1>4
<1>6. ~NewFrame => \/ v = YShown /\ 1 <= h
                   \/ YShown < v /\ v < YNew
                   \/ v = YNew /\ h <= 2 * XPause + 2
  BY <1>2, <1>3, <1>4
<1> QED BY <1>1, <1>5, <1>6 DEF NewFrameOver, h, v

(* Fetching is kept: a row is read before XPause.                          *)
LEMMA FetchingStep ==
  ASSUME IInv, Next
  PROVE  Fetching'
<1>1. lb.st \in {"Halted", "Read", "Read1", "Pause", "Pause1", "Done"} /\ LbClock
  BY LbClocks, Parts DEF LbClock
<1>2. State' \in Start5 => lb'.st = "Halted"
  <2>1. State' \in Start5 => State \in Start5
    BY Origins
  <2>2. State \in Start5 => lb.st = "Halted" /\ ~LbServed
    BY Parts DEF Fetching, LbServed, Start5
  <2> QED BY <1>1, <2>1, <2>2 DEF LbClock
<1>3. State' \notin Start5 /\ lb'.st = "Halted" => NewFrameOver'
  BY <1>1, FetchHalted, FetchRead, FetchPause, FetchPause1, FetchDone
<1>4. lb'.st \in {"Read", "Read1"} => Reading'
  BY <1>1, FetchHalted, FetchRead, FetchPause, FetchPause1, FetchDone
<1>5. lb'.st = "Pause" =>
        /\ State' \in {"Line_buffer", "Line_buffer_startscreen", "Line_buffer_mid"} \cup Layer
        /\ \/ FetchRow' /\ hc' <= 2 * XPause + 1
           \/ State' = "Line_buffer_startscreen" /\ vc' = YNew /\ 2 * XPause + 4 < hc'
  BY <1>1, FetchHalted, FetchRead, FetchPause, FetchPause1, FetchDone
<1>6. lb'.st = "Pause1" =>
        \/ (vc' = YLast \/ vc' < YShown) /\ 2 * XPause + 1 <= hc'
        \/ vc' <= YShown /\ hc' = 0 /\ State' \in {"Line_buffer", "Line_buffer_startscreen"}
  BY <1>1, FetchHalted, FetchRead, FetchPause, FetchPause1, FetchDone
<1>7. lb'.st = "Done" =>
        \/ vc' = YShown /\ 1 <= hc'
        \/ YShown < vc' /\ vc' < YNew
        \/ vc' = YNew /\ hc' <= 2 * XPause + 2
  BY <1>1, FetchHalted, FetchRead, FetchPause, FetchPause1, FetchDone
<1>8. ASSUME State' = "Line_buffer", hc' <= 2 * XLast
      PROVE  lb'.st \in {"Read", "Read1", "Pause"} \/ (lb'.st = "Pause1" /\ hc' = 0)
  <2>1. /\ XLast \in Nat /\ XPause \in Nat /\ hc \in Nat /\ hc <= 2 * XLast + 1
        /\ \/ hc <= 2 * XLast /\ hc' = hc + 1 /\ vc' = vc
           \/ hc = 2 * XLast + 1 /\ hc' = 0
        /\ DrawX = XLast <=> hc = 2 * XLast \/ hc = 2 * XLast + 1
        /\ DrawX = 0 <=> hc = 0 \/ hc = 1
    BY Parts, Bounds, Pixels
  <2>2. ~(State \in Pre /\ DrawX = XLast)
    <3>1. State \in Pre => hc <= 2 * XLast
      BY <2>1, Parts DEF Where
    <3> QED BY <1>8, <2>1, <3>1
  <2>3. State = "Line_buffer" /\ lb.st \notin {"Done", "Pause"}
    BY <1>8, <2>2, Origins
  <2>4. lb.st \in {"Halted", "Read", "Read1"} => lb'.st \in {"Read", "Read1", "Pause"}
    BY <1>1, <2>3 DEF LbClock, LbServed, LbFresh
  <2>5. lb.st = "Pause1" => lb'.st = "Read" \/ (lb'.st = "Pause1" /\ hc = 2 * XLast + 1)
    <3>1. lb.st = "Pause1" /\ hc <= 2 * XLast => hc = 0
      BY <2>3, Parts DEF Fetching
    <3>2. lb.st = "Pause1" => IF DrawX = 0 THEN lb'.st = "Read" ELSE lb'.st = "Pause1"
      BY <1>1 DEF LbClock, LbFresh
    <3> QED BY <2>1, <3>1, <3>2
  <2>6. hc = 2 * XLast + 1 => hc' = 0
    BY <2>1
  <2> QED BY <1>1, <2>3, <2>4, <2>5, <2>6
<1> QED BY <1>2, <1>3, <1>4, <1>5, <1>6, <1>7, <1>8, Zenon DEF Fetching, Start5, Layer
-----------------------------------------------------------------------------
(* The line buffer.                                                        *)

(* Neighbouring rows are kept in different halves.                         *)
LEMMA OtherHalf ==
  ASSUME NEW r \in Nat
  PROVE  WriteHalf(r) \in 0 .. 1 /\ WriteHalf(r) # WriteHalf(r + 1)
BY Z3 DEF WriteHalf

(* lineb writes the word it has read into its place of the row to come.    *)
LEMMA LbFills ==
  ASSUME TypeOK, Ranges, Next
  PROVE  /\ WriteY \in Nat
         /\ lb.st # "Read1" => line_buf' = line_buf
         /\ lb.st = "Read1" =>
              \A h \in 0 .. 1, k \in 0 .. LbLast :
                line_buf'[h][k] = IF h = WriteHalf(WriteY) /\ k = lb.x THEN lb.data ELSE line_buf[h][k]
         /\ lb.st = "Read" /\ lb'.st = "Read1" => lb'.data = [row |-> WriteY, src |-> Source]
<1>1. lb \in LbType /\ LineBuffer /\ line_buf \in [0 .. 1 -> [0 .. LbLast -> Words]] /\ LbLast \in Nat
  BY Types, Ticks, RasterAssumption DEF TypeOK
<1>2. WriteY \in Nat
  BY Pixels, Figures DEF WriteY, DrawY
<1>3. WriteHalf(WriteY) \in 0 .. 1
  BY <1>2, OtherHalf
<1>4. CASE LbRead
  <2>1. lb.st = "Read" /\ line_buf' = line_buf
    BY <1>4 DEF LbRead
  <2>2. lb' = IF Ac("lb") THEN [lb EXCEPT !.st = "Read1", !.data = [row |-> WriteY, src |-> Source]] ELSE lb
    BY <1>4 DEF LbRead
  <2>3. lb'.st = "Read1" => lb'.data = [row |-> WriteY, src |-> Source]
    BY <1>1, <2>1, <2>2 DEF LbType
  <2> QED BY <1>2, <2>1, <2>3
<1>5. CASE LbRead1
  <2>1. lb.st = "Read1" /\ line_buf' = [line_buf EXCEPT ![WriteHalf(WriteY)][lb.x] = lb.data]
    BY <1>5 DEF LbRead1
  <2>2. lb.x \in 0 .. LbLast
    BY <1>1, <2>1 DEF Ranges, LbType
  <2>3. \A h \in 0 .. 1, k \in 0 .. LbLast :
          line_buf'[h][k] = IF h = WriteHalf(WriteY) /\ k = lb.x THEN lb.data ELSE line_buf[h][k]
    BY <1>1, <1>3, <2>1, <2>2
  <2> QED BY <1>2, <2>1, <2>3
<1>6. CASE LbHalted \/ LbPause \/ LbPause1 \/ LbDone
  BY <1>2, <1>6 DEF LbHalted, LbPause, LbPause1, LbDone
<1> QED BY <1>1, <1>4, <1>5, <1>6 DEF LineBuffer

(* What the half of a row holds after a step.                              *)
HoldsNext(n, r) == \A k \in 0 .. n - 1 : line_buf'[WriteHalf(r)][k] = [row |-> r, src |-> Front']

(* Words are kept unless lineb is about to write over them.                *)
LEMMA Kept ==
  ASSUME TypeOK, Ranges, Next, Front' = Front, NEW n \in Nat, n <= LbLast + 1, NEW r \in Nat, Holds(n, r),
         lb.st = "Read1" => WriteHalf(r) # WriteHalf(WriteY) \/ n <= lb.x
  PROVE  HoldsNext(n, r)
<1>1. LbLast \in Nat /\ WriteHalf(r) \in 0 .. 1 /\ lb.x \in Nat
  BY OtherHalf, RasterAssumption, Types DEF LbType
<1>2. SUFFICES ASSUME NEW k \in 0 .. n - 1 PROVE line_buf'[WriteHalf(r)][k] = [row |-> r, src |-> Front]
  BY DEF HoldsNext
<1>3. k \in 0 .. LbLast /\ k < n /\ line_buf[WriteHalf(r)][k] = [row |-> r, src |-> Front]
  BY <1>1, <1>2 DEF Holds
<1>4. CASE lb.st # "Read1"
  BY <1>3, <1>4, LbFills
<1>5. CASE lb.st = "Read1"
  <2>1. ~(WriteHalf(r) = WriteHalf(WriteY) /\ k = lb.x)
    BY <1>1, <1>3, <1>5
  <2> QED BY <1>1, <1>3, <1>5, <2>1, LbFills
<1> QED BY <1>4, <1>5

(* How far lineb is from its pause is a number of clocks.                  *)
LEMMA LbLeftNat ==
  ASSUME TypeOK, Ranges
  PROVE  LbLeft \in Nat
<1>1. lb \in LbType /\ LbLast \in Nat /\ Seen("lb") \in 0 .. MaxLatency
  BY Types, RasterAssumption DEF BusType, Seen
<1>2. lb.st \in {"Read", "Read1"} => lb.x \in 0 .. LbLast
  BY <1>1 DEF LbType, Ranges
<1>3. lb.st \in {"Read", "Read1"} => LbWords(lb.x) \in Nat
  BY <1>2, Lefts
<1>4. WordTime \in Nat /\ WordTime = MaxLatency + 2 /\ MaxLatency \in Nat
  BY Sizes, RasterAssumption
<1> QED BY <1>1, <1>3, <1>4 DEF LbLeft

(* At the end of a row before one that is shown lineb has fetched it.      *)
LEMMA Fetched ==
  ASSUME IInv, Startscreen_index = SplashEnd, vc = YLast \/ vc < YShown, hc >= 2 * XLast
  PROVE  lb.st = "Pause1" /\ Holds(LbLast + 1, WriteY)
<1>1. /\ XLast \in Nat /\ XPause \in Nat /\ Drained \in Nat /\ DrainTime \in Nat /\ Drained + DrainTime <= 2 * XLast
      /\ DrainTime >= 10
      /\ 2 * XPause + 4 <= Drained /\ FetchTime \in Nat /\ FetchTime <= 2 * XPause
      /\ YShown \in Nat /\ YNew \in Nat /\ YLast = YNew + 1 /\ YShown < YNew
      /\ hc \in Nat /\ vc \in Nat
  BY Parts, Figures, Pixels
<1>2. lb.st \in {"Halted", "Read", "Read1", "Pause", "Pause1", "Done"} /\ LbLeft \in Nat
  BY Parts, Types, LbLeftNat DEF LbType
<1>3. start_sign
  BY Parts, RasterAssumption DEF Picture
<1>4. State \notin Start5 /\ State # "Line_buffer_startscreen"
  BY <1>3 DEF BootStates, Start5, start_sign
<1>5. lb.st # "Halted"
  BY <1>1, <1>4, Parts DEF Fetching, NewFrameOver
<1>6. lb.st \notin {"Read", "Read1"}
  BY <1>1, <1>2, <1>4, Parts DEF Fetching, Reading, NewFrameOver
<1>7. lb.st # "Pause"
  BY <1>1, <1>4, Parts DEF Fetching
<1>8. lb.st # "Done"
  BY <1>1, Parts DEF Fetching
<1>9. lb.st = "Pause1"
  BY <1>2, <1>5, <1>6, <1>7, <1>8
<1>10. FetchRow /\ hc > 0
  BY <1>1 DEF FetchRow
<1> QED BY <1>9, <1>10, Parts DEF Picture

(* After the start screen a row is fetched from the buffer shown.          *)
LEMMA Shows ==
  ASSUME IInv, Next, Startscreen_index' = SplashEnd, ~NewFrameEdge
  PROVE  /\ Startscreen_index = SplashEnd /\ State \notin BootStates /\ Front' = Front /\ Source = Front
         /\ lb.st \in {"Read", "Read1"} /\ ~LbFresh => FetchRow /\ hc <= 2 * XLast /\ vc' = vc /\ WriteY' = WriteY
         /\ lb.st = "Pause" => FetchRow /\ hc <= 2 * XLast /\ vc' = vc /\ WriteY' = WriteY
         /\ FetchRow /\ hc = 2 * XLast + 1 /\ vc # YShown => lb.st = "Pause1"
<1>1. Startscreen_index = SplashEnd /\ frame_flip' = frame_flip
  BY Ticks DEF Frame
<1>2. Front' = Front /\ Source = Front
  BY <1>1 DEF Front, Source
<1>3. State \notin BootStates
  <2>1. SplashEnd \in Nat /\ SplashEnd > 0
    BY RasterAssumption
  <2> QED BY <1>1, <2>1, Parts DEF Picture, start_sign
<1>4. State \notin Start5 /\ State # "Line_buffer_startscreen"
  BY <1>3 DEF BootStates, Start5
<1>5. lb.st \in {"Halted", "Read", "Read1", "Pause", "Pause1", "Done"} /\ LbLeft \in Nat
  BY LbClocks, Parts DEF LbClock
<1>6. /\ XLast \in Nat /\ XPause \in Nat /\ Drained \in Nat /\ Drained < 2 * XLast
      /\ 2 * XPause + 4 <= Drained /\ FetchTime \in Nat /\ FetchTime <= 2 * XPause
      /\ YShown \in Nat /\ YNew \in Nat /\ YLast = YNew + 1 /\ YShown < YNew
      /\ hc \in Nat /\ hc <= 2 * XLast + 1 /\ vc \in Nat
      /\ hc <= 2 * XLast => vc' = vc
  BY Parts, Bounds
<1>7. vc' = vc => WriteY' = WriteY
  BY DEF WriteY, DrawY
<1>8. ASSUME lb.st \in {"Read", "Read1"} PROVE \/ FetchRow /\ hc + LbLeft <= FetchTime + 1
                                               \/ LbFresh /\ vc = YNew
  BY <1>4, <1>8, Parts DEF Fetching, Reading, NewFrameOver
<1>9. ASSUME lb.st = "Pause" PROVE FetchRow /\ hc <= 2 * XPause + 1
  BY <1>4, <1>9, Parts DEF Fetching
<1>10. lb.st \in {"Read", "Read1"} /\ ~LbFresh => FetchRow /\ hc <= 2 * XLast /\ vc' = vc /\ WriteY' = WriteY
  BY <1>5, <1>6, <1>7, <1>8
<1>11. lb.st = "Pause" => FetchRow /\ hc <= 2 * XLast /\ vc' = vc /\ WriteY' = WriteY
  BY <1>6, <1>7, <1>9
<1>12. ASSUME FetchRow, hc = 2 * XLast + 1, vc # YShown PROVE lb.st = "Pause1"
  <2>1. (vc = YLast \/ vc < YShown) /\ hc >= 2 * XLast
    BY <1>6, <1>12 DEF FetchRow
  <2> QED BY <1>1, <2>1, Fetched
<1> QED BY <1>1, <1>2, <1>3, <1>10, <1>11, <1>12

(* A row shown was complete when the beam reached it, and stays so.        *)
LEMMA ShownStep ==
  ASSUME IInv, Next, Startscreen_index' = SplashEnd, ~NewFrameEdge, vc' <= YShown
  PROVE  HoldsNext(LbLast + 1, vc')
<1>1. /\ Startscreen_index = SplashEnd /\ Front' = Front
      /\ FetchRow /\ hc = 2 * XLast + 1 /\ vc # YShown => lb.st = "Pause1"
  BY Shows
<1>2. /\ XLast \in Nat /\ YShown \in Nat /\ YNew \in Nat /\ YLast = YNew + 1 /\ YShown < YNew
      /\ hc \in Nat /\ hc <= 2 * XLast + 1 /\ vc \in Nat /\ vc <= YLast /\ vc' \in Nat
      /\ \/ hc <= 2 * XLast /\ hc' = hc + 1 /\ vc' = vc
         \/ hc = 2 * XLast + 1 /\ hc' = 0 /\ vc' = IF vc = YLast THEN 0 ELSE vc + 1
  BY Parts, Bounds
<1>3. LbLast + 1 \in Nat /\ LbLast + 1 <= LbLast + 1
  BY RasterAssumption
<1>4. CASE hc <= 2 * XLast
  <2>1. vc' = vc /\ vc <= YShown /\ vc # YLast
    BY <1>2, <1>4
  <2>2. Holds(LbLast + 1, vc)
    BY <1>1, <2>1, Parts DEF Picture
  <2>3. WriteHalf(vc) # WriteHalf(WriteY)
    BY <1>2, <2>1, OtherHalf DEF WriteY, DrawY
  <2>4. HoldsNext(LbLast + 1, vc)
    BY <1>1, <1>2, <1>3, <2>2, <2>3, Kept, Parts
  <2> QED BY <2>1, <2>4
<1>5. CASE hc = 2 * XLast + 1
  <2>1. vc' = WriteY /\ (vc = YLast \/ vc < YShown)
    BY <1>2, <1>5 DEF WriteY, DrawY
  <2>2. FetchRow /\ vc # YShown
    BY <1>2, <2>1 DEF FetchRow
  <2>3. lb.st = "Pause1" /\ hc > 0
    BY <1>1, <1>2, <1>5, <2>2
  <2>4. Holds(LbLast + 1, WriteY)
    BY <1>1, <2>2, <2>3, Parts DEF Picture
  <2>5. WriteY \in Nat
    BY LbFills, Parts
  <2>6. HoldsNext(LbLast + 1, WriteY)
    BY <1>1, <1>3, <2>3, <2>4, <2>5, Kept, Parts
  <2> QED BY <2>1, <2>6
<1> QED BY <1>2, <1>4, <1>5

(* A word written adds to those held of its row.                           *)
LEMMA OneMore ==
  ASSUME IInv, Next, Startscreen_index' = SplashEnd, ~NewFrameEdge, lb.st = "Read1", ~LbFresh
  PROVE  lb.x \in 0 .. LbLast /\ HoldsNext(lb.x + 1, WriteY)
<1>1. /\ Startscreen_index = SplashEnd /\ Front' = Front /\ FetchRow
  BY Shows
<1>2. LbLast \in Nat /\ lb.x \in Nat /\ lb.x <= LbLast
  BY RasterAssumption, Parts, Types DEF Ranges, LbType
<1>3. Holds(lb.x, WriteY) /\ lb.data = [row |-> WriteY, src |-> Front]
  BY <1>1, Parts DEF Picture
<1>4. WriteY \in Nat /\ WriteHalf(WriteY) \in 0 .. 1
  BY LbFills, Parts, OtherHalf
<1>5. HoldsNext(lb.x, WriteY)
  BY <1>1, <1>2, <1>3, <1>4, Kept, Parts
<1>6. line_buf'[WriteHalf(WriteY)][lb.x] = [row |-> WriteY, src |-> Front]
  <2>1. lb.x \in 0 .. LbLast
    BY <1>2
  <2> QED BY <1>3, <1>4, <2>1, LbFills, Parts
<1>7. ASSUME NEW k \in 0 .. lb.x + 1 - 1
      PROVE  line_buf'[WriteHalf(WriteY)][k] = [row |-> WriteY, src |-> Front']
  <2>1. k \in 0 .. lb.x - 1 \/ k = lb.x
    BY <1>2
  <2> QED BY <1>1, <1>5, <1>6, <2>1 DEF HoldsNext
<1> QED BY <1>2, <1>7 DEF HoldsNext

(* Words of a row to come are kept while its row is fetched.               *)
LEMMA StillHolds ==
  ASSUME IInv, Next, Startscreen_index' = SplashEnd, ~NewFrameEdge, lb.st # "Read1",
         NEW n \in Nat, n <= LbLast + 1, Holds(n, WriteY)
  PROVE  HoldsNext(n, WriteY)
<1>1. Front' = Front
  BY Shows
<1>2. WriteY \in Nat
  BY LbFills, Parts
<1> QED BY <1>1, <1>2, Kept, Parts

(* What lineb has fetched of a row is in place.                            *)
LEMMA FetchedStep ==
  ASSUME IInv, Next, Startscreen_index' = SplashEnd, ~NewFrameEdge, FetchRow'
  PROVE  /\ lb'.st \in {"Read", "Read1"} => HoldsNext(lb'.x, WriteY')
         /\ lb'.st = "Read1" => lb'.data = [row |-> WriteY', src |-> Front']
         /\ lb'.st = "Pause" \/ (lb'.st = "Pause1" /\ hc' > 0) => HoldsNext(LbLast + 1, WriteY')
<1>1. /\ Startscreen_index = SplashEnd /\ Front' = Front /\ Source = Front
      /\ lb.st \in {"Read", "Read1"} /\ ~LbFresh => FetchRow /\ WriteY' = WriteY
      /\ lb.st = "Pause" => FetchRow /\ WriteY' = WriteY
      /\ State \notin BootStates
  BY Shows
<1>2. LbClock
  BY LbClocks, Parts
<1>3. lb.st \in {"Halted", "Read", "Read1", "Pause", "Pause1", "Done"}
  BY <1>2 DEF LbClock
<1>4. LbLast \in Nat /\ lb.x \in Nat /\ (lb.st \in {"Read", "Read1"} => lb.x <= LbLast)
  BY RasterAssumption, Parts, Types DEF Ranges, LbType
<1>5. LbLast + 1 \in Nat /\ LbLast + 1 <= LbLast + 1
  BY <1>4
<1>6. lb.st = "Read1" => ~LbFresh
  BY DEF LbFresh
<1>7. ASSUME lb'.st \in {"Read", "Read1"} PROVE HoldsNext(lb'.x, WriteY')
  <2>1. CASE lb'.x = 0
    BY <2>1 DEF HoldsNext
  <2>2. CASE lb.st = "Read" /\ lb'.x # 0
    <3>1. lb'.x = lb.x /\ ~LbFresh
      BY <1>2, <2>2 DEF LbClock, LbFresh
    <3>2. Holds(lb.x, WriteY) /\ WriteY' = WriteY
      BY <1>1, <2>2, <3>1, Parts DEF Picture
    <3>3. HoldsNext(lb.x, WriteY)
      BY <1>4, <2>2, <3>2, StillHolds
    <3> QED BY <3>1, <3>2, <3>3
  <2>3. CASE lb.st = "Read1"
    <3>1. lb'.x = lb.x + 1 /\ WriteY' = WriteY
      BY <1>1, <1>2, <1>6, <2>3 DEF LbClock
    <3> QED BY <1>6, <2>3, <3>1, OneMore
  <2>4. lb.st \notin {"Read", "Read1"} => LbFresh'
    BY <1>2, <1>3, <1>7 DEF LbClock
  <2> QED BY <2>1, <2>2, <2>3, <2>4 DEF LbFresh
<1>8. ASSUME lb'.st = "Read1" PROVE lb'.data = [row |-> WriteY', src |-> Front']
  <2>1. lb.st = "Read" /\ ~LbFresh
    BY <1>2, <1>3, <1>8 DEF LbClock, LbFresh
  <2>2. lb'.data = [row |-> WriteY, src |-> Source]
    BY <1>8, <2>1, LbFills, Parts
  <2> QED BY <1>1, <2>1, <2>2
<1>9. ASSUME lb'.st = "Pause" \/ (lb'.st = "Pause1" /\ hc' > 0) PROVE HoldsNext(LbLast + 1, WriteY')
  <2>1. CASE lb.st = "Read1"
    <3>1. lb.x = LbLast
      BY <1>2, <1>9, <2>1 DEF LbClock
    <3> QED BY <1>1, <1>6, <2>1, <3>1, OneMore
  <2>2. CASE lb.st = "Pause"
    <3>1. Holds(LbLast + 1, WriteY)
      BY <1>1, <2>2, Parts DEF Picture
    <3> QED BY <1>1, <1>5, <2>2, <3>1, StillHolds
  <2>3. CASE lb.st = "Pause1"
    <3>1. DrawX # 0 /\ lb'.st = "Pause1"
      BY <1>2, <1>9, <2>3 DEF LbClock, LbFresh
    <3>2. /\ XLast \in Nat /\ XPause \in Nat /\ hc \in Nat
          /\ hc = 2 * XLast + 1 => hc' = 0
          /\ hc # 2 * XLast + 1 => vc' = vc
          /\ hc = 0 => DrawX = 0
      BY Parts, Bounds, Pixels
    <3>3. hc > 0 /\ vc' = vc
      BY <1>9, <3>1, <3>2
    <3>4. FetchRow /\ WriteY' = WriteY
      BY <3>3 DEF FetchRow, WriteY, DrawY
    <3>5. Holds(LbLast + 1, WriteY)
      BY <1>1, <2>3, <3>3, <3>4, Parts DEF Picture
    <3> QED BY <1>5, <2>3, <3>4, <3>5, StillHolds
  <2>4. lb.st \notin {"Halted", "Done", "Read"}
    BY <1>2, <1>3, <1>9 DEF LbClock, LbFresh
  <2> QED BY <1>3, <2>1, <2>2, <2>3, <2>4
<1> QED BY <1>7, <1>8, <1>9

(* Picture is kept.                                                        *)
LEMMA PictureStep ==
  ASSUME IInv, Next
  PROVE  Picture'
<1>1. /\ Startscreen_index' = IF NewFrameEdge /\ start_sign /\ Startscreen_index # SplashEnd
                              THEN Startscreen_index + 1 ELSE Startscreen_index
      /\ Startscreen_index \in Nat
  BY Ticks, Parts, Types, RasterAssumption DEF Frame
<1>2. start_sign => start_sign'
  BY Origins DEF start_sign, BootStates
<1>3. Startscreen_index' > 0 => start_sign'
  BY <1>1, <1>2, Parts DEF Picture
<1>4. SplashEnd' = SplashEnd /\ LbLast' = LbLast /\ YShown' = YShown
  OBVIOUS
<1>5. CASE NewFrameEdge
  <2>1. vc' = YNew /\ ~(YNew <= YShown)
    BY <1>5, AtEdge, Figures, Bounds, Parts
  <2>2. ~FetchRow'
    BY <2>1, Figures DEF FetchRow
  <2> QED BY <1>3, <1>4, <2>1, <2>2 DEF Picture
<1>6. CASE ~NewFrameEdge
  <2>1. ASSUME Startscreen_index' = SplashEnd
        PROVE  /\ vc' <= YShown => Holds(LbLast + 1, vc)'
               /\ FetchRow' /\ lb'.st \in {"Read", "Read1"} => Holds(lb.x, WriteY)'
               /\ FetchRow' /\ lb'.st = "Read1" => lb'.data = [row |-> WriteY', src |-> Front']
               /\ FetchRow' /\ (lb'.st = "Pause" \/ (lb'.st = "Pause1" /\ hc' > 0)) => Holds(LbLast + 1, WriteY)'
    <3>1. /\ HoldsNext(LbLast + 1, vc') => Holds(LbLast + 1, vc)'
          /\ HoldsNext(lb'.x, WriteY') => Holds(lb.x, WriteY)'
          /\ HoldsNext(LbLast + 1, WriteY') => Holds(LbLast + 1, WriteY)'
      BY DEF Holds, HoldsNext, WriteHalf
    <3> QED BY <1>6, <2>1, <3>1, ShownStep, FetchedStep
  <2> QED BY <1>3, <1>4, <2>1 DEF Picture
<1> QED BY <1>5, <1>6

-----------------------------------------------------------------------------
(* The invariant holds.                                                    *)

(* The invariant holds at first.                                           *)
LEMMA Start == Init => IInv
<1> SUFFICES ASSUME Init PROVE IInv
  OBVIOUS
<1>1. /\ hc = 0 /\ vc = 0 /\ State = "Bootup" /\ Startscreen_index = 0 /\ frame_flip \in 0 .. 1
      /\ lb = [st |-> "Halted", x |-> 0, data |-> Blank]
      /\ line_buf = [h \in 0 .. 1 |-> [k \in 0 .. LbLast |-> Blank]]
      /\ au = [st |-> "Halted", left |-> 0] /\ sd = [st |-> "READ", left |-> SdWords]
      /\ bus = [owner |-> None, age |-> 0, ac |-> FALSE]
      /\ bk = [st |-> "Halted", pre |-> 0, w |-> 0, base |-> 0]
      /\ ds = [st |-> "Halted", note |-> 0, w |-> 0, base |-> 0]
      /\ dn = [st |-> "Halted", part |-> "s", i |-> 0, w |-> 0, base |-> 0]
  BY DEF Init, DrawersInit
<1>2. TypeOK
  <2>1. Blank \in Words
    BY RasterAssumption DEF Blank, Words, Splash
  <2>2. BkLast \in Nat /\ SpriteLast \in Nat /\ BodyLast \in Nat /\ NoteLast \in Nat /\ DigitLast \in Nat
        /\ ScoreDigits \in Nat /\ ComboDigits \in Nat
    BY DrawersAssumption
  <2>3. bk \in BkType /\ ds \in DsType /\ dn \in DnType
    BY <1>1, <2>2 DEF BkType, DsType, DnType
  <2>4. lb \in LbType /\ au \in AuType /\ bus \in BusType
    BY <1>1, <2>1, RasterAssumption DEF LbType, AuType, BusType
  <2>5. sd \in SdType /\ mem \in MemType
    BY RasterAssumption DEF SdType, MemType, Init
  <2>6. line_buf \in [0 .. 1 -> [0 .. LbLast -> Words]]
    BY <1>1, <2>1
  <2>7. hc \in 0 .. 2 * XLast + 1 /\ vc \in 0 .. YLast /\ Startscreen_index \in 0 .. SplashEnd
    BY <1>1, RasterAssumption
  <2>8. State \in ArbiterStates
    BY <1>1 DEF ArbiterStates, BootStates
  <2>9. keyboard_start \in BOOLEAN /\ stop_sign \in BOOLEAN /\ shown \in SUBSET {"combo", "precise"}
    BY DEF Init, DrawersInit
  <2> QED BY <1>1, <2>3, <2>4, <2>5, <2>6, <2>7, <2>8, <2>9, Types
<1>3. Ranges
  BY <1>1, RasterAssumption, DrawersAssumption DEF Ranges
<1>4. BusInv
  BY <1>1, RasterAssumption DEF BusInv, BusHeld
<1>5. Order
  BY <1>1 DEF Order
<1>6. Drains
  BY <1>1 DEF Drains, Still, BkDrain, DsDrain, DnDrain
<1>7. Fed
  BY <1>1 DEF Fed
<1>8. Where
  BY <1>1 DEF Where, Pre, Layer, BootStates
<1>9. Finished
  BY <1>1 DEF Finished, Complete
<1>10. Fetching
  BY <1>1 DEF Fetching, Start5
<1>11. Picture
  BY <1>1, RasterAssumption DEF Picture
<1>12. Budget
  BY <1>1 DEF Budget, start_sign, BootStates
<1> QED BY <1>2, <1>3, <1>4, <1>5, <1>6, <1>7, <1>8, <1>9, <1>10, <1>11, <1>12 DEF IInv

(* Nothing in the invariant is about a step.                               *)
LEMMA Stutter ==
  ASSUME IInv, UNCHANGED vars
  PROVE  IInv'
<1>1. /\ hc' = hc /\ vc' = vc /\ State' = State /\ keyboard_start' = keyboard_start /\ stop_sign' = stop_sign
      /\ Startscreen_index' = Startscreen_index /\ frame_flip' = frame_flip /\ lb' = lb
      /\ line_buf' = line_buf
      /\ au' = au /\ sd' = sd /\ mem' = mem /\ bus' = bus /\ bk' = bk /\ ds' = ds /\ dn' = dn
      /\ shown' = shown
  BY DEF vars, beam, clients, drawers
<1>2. TypeOK'
  BY <1>1, Parts DEF TypeOK, DrawersTypeOK
<1>3. Ranges' /\ Order' /\ Finished'
  BY <1>1, Parts DEF Ranges, Order, Finished, start_sign, Complete
<1>4. BusInv'
  BY <1>1, Parts DEF BusInv, BusHeld, Requests, BkRequest, DsRequest, DnRequest
<1>5. /\ Seen("lb")' = Seen("lb") /\ Seen("bk")' = Seen("bk") /\ Seen("ds")' = Seen("ds")
      /\ Seen("dn")' = Seen("dn") /\ Seen("au")' = Seen("au")
  BY <1>1 DEF Seen
<1>6. BkDrain' = BkDrain /\ DsDrain' = DsDrain /\ DnDrain' = DnDrain
  BY <1>1, <1>5 DEF BkDrain, DsDrain, DnDrain, NoteEnd, BodyEnd, NextDrain
<1>7. Drains'
  BY <1>1, <1>6, Parts DEF Drains, Still
<1>8. AuLeft' = AuLeft /\ LbLeft' = LbLeft
  BY <1>1, <1>5 DEF AuLeft, LbLeft
<1>9. Fed'
  BY <1>1, <1>8, Parts DEF Fed
<1>10. Where' /\ Fetching'
  BY <1>1, <1>5, <1>8, Parts
     DEF Where, Fetching, Reading, LbFresh, NewFrameOver, FetchRow, DrawRow, Complete
<1>11. Front' = Front /\ WriteY' = WriteY
  BY <1>1 DEF Front, WriteY, DrawY
<1>12. Picture'
  BY <1>1, <1>11, Parts DEF Picture, Holds, FetchRow, start_sign
<1>13. BkLeft' = BkLeft /\ DsLeft' = DsLeft /\ DnLeft' = DnLeft
  BY <1>1, <1>5 DEF BkLeft, DsLeft, DnLeft, NotesLeft, ExamineLeft, PiecesLeft
<1>14. LayersLeft' = LayersLeft /\ RowLeft' = RowLeft /\ (Idles' <=> Idles)
  BY <1>1 DEF LayersLeft, RowLeft, Idles
<1>15. Budget'
  BY <1>1, <1>13, <1>14, Parts DEF Budget, start_sign, Complete
<1> QED BY <1>2, <1>3, <1>4, <1>7, <1>9, <1>10, <1>12, <1>15 DEF IInv

(* It is kept by a step.                                                   *)
LEMMA Step ==
  ASSUME IInv, Next
  PROVE  IInv'
BY TypeStep, RangesStep, BusStep, OrderStep, DrainsStep, FedStep, WhereStep, FinishedStep,
   FetchingStep,
   PictureStep, BudgetStep, Parts DEF IInv

(* The invariant holds of every behaviour of the hardware's machines       *)
(* (arbiter.sv, lineb.sv, I2S.sv and the drawers).                         *)
THEOREM Invariant == Spec => []IInv
<1>1. IInv /\ [Next]_vars => IInv'
  BY Step, Stutter
<1> QED BY <1>1, Start, PTL DEF Spec
-----------------------------------------------------------------------------
(* What the invariant gives.                                               *)

(* Every register keeps to its range: no machine runs past the end of what *)
(* it draws, whatever the arbiter takes from it and when                   *)
(* (arbiter.sv:147-187, draw.sv).                                          *)
THEOREM TypeCorrect == Spec => []TypeOK
<1>1. IInv => TypeOK
  BY Parts
<1> QED BY <1>1, Invariant, PTL

(* The SDRAM's request is never taken from a client before it is answered  *)
(* (arbiter.sv:147-187).                                                   *)
THEOREM RequestsHeld == Spec => []BusHeld
<1>1. IInv => BusHeld
  BY Parts DEF BusInv
<1> QED BY <1>1, Invariant, PTL

(* What Picture says of a row shown, with what Fetching says of the end of *)
(* the row before.                                                         *)
LEMMA ShownInPlace == IInv => LineReady
<1> SUFFICES ASSUME IInv, Startscreen_index = SplashEnd, ShownRow <= YShown
             PROVE  Holds(LbLast + 1, ShownRow)
  BY RasterAssumption DEF LineReady, Holds
<1>1. /\ YShown \in Nat /\ YNew \in Nat /\ YLast = YNew + 1 /\ YShown < YNew /\ XLast \in Nat
      /\ DrawX = XLast => hc >= 2 * XLast
      /\ vc \in Nat /\ hc \in Nat
  BY Parts, Figures, Pixels
<1>2. CASE DrawX = XLast
  <2>1. ShownRow = WriteY
    BY <1>2 DEF ShownRow
  <2>2. vc = YLast \/ vc < YShown
    BY <1>1, <2>1 DEF WriteY, DrawY
  <2> QED BY <1>1, <1>2, <2>1, <2>2, Fetched
<1>3. CASE DrawX # XLast
  <2>1. ShownRow = vc
    BY <1>3 DEF ShownRow, DrawY
  <2> QED BY <2>1, Parts DEF Picture
<1> QED BY <1>2, <1>3

(* A row is whole, and of the picture shown, when the beam comes to it:    *)
(* the fetch of a row ends before the row does (lineb of line_buffer.sv).  *)
THEOREM RowsReady == Spec => []LineReady
BY ShownInPlace, Invariant, PTL

(* What Ranges says of the buffer, with what Order says of the layers.     *)
LEMMA BehindTheScreen == IInv => WritesBehindTheScreen
<1> SUFFICES ASSUME IInv PROVE WritesBehindTheScreen
  OBVIOUS
<1>1. frame_flip # Front
  BY Parts, Types DEF Front
<1>2. bk.st = "Write" => bk.base # Front
  BY <1>1, Parts DEF Ranges
<1>3. DsRequest => ds.base # Front /\ bk.st = "Done"
  BY <1>1, Parts DEF Ranges, Order, DsRequest
<1>4. DnRequest => dn.base # Front /\ ds.st = "Done"
  BY <1>1, Parts DEF Ranges, Order, DnRequest
<1> QED BY <1>2, <1>3, <1>4, Parts DEF WritesBehindTheScreen, Order

(* What is drawn goes into the buffer that is not shown, over layers that  *)
(* are complete (DrawDFJK_BK, Draw_sprites, Draw_score_combo).             *)
THEOREM DrawsBehind == Spec => []WritesBehindTheScreen
BY BehindTheScreen, Invariant, PTL

(* What Where and Fed say of row YNew.                                     *)
LEMMA FedInTime == IInv => AudioFedEachFrame
<1> SUFFICES ASSUME IInv, NewFrameEdge PROVE au.st \in Resting /\ (start_sign => State = "Halted")
  BY DEF AudioFedEachFrame, Resting
<1>1. vc = YNew /\ hc = 2 * XPause + 1 /\ XPause \in Nat
  BY Parts, Pixels, Figures
<1>2. State \in BootStates \cup {"Halted"}
  BY <1>1, Parts DEF Where
<1> QED BY <1>2, Parts DEF Fed, Resting, start_sign, BootStates

(* Each frame's fill of the audio buffer is over when the next frame comes *)
(* (the PCM state of arbiter.sv, the prefetch of I2S.sv).                  *)
THEOREM AudioInTime == Spec => []AudioFedEachFrame
BY FedInTime, Invariant, PTL
-----------------------------------------------------------------------------
(* The double buffer.                                                      *)

(* The layers drawn, which are drawn in order.                             *)
LEMMA DrawnIs ==
  ASSUME Order, Order'
  PROVE  /\ NewFrame \/ bk.st # "Done" => Drawn = {}
         /\ ~NewFrame /\ bk.st = "Done" =>
              Drawn = IF ds.st # "Done" THEN {1} ELSE IF dn.st # "Done" THEN {1, 2} ELSE {1, 2, 3}
         /\ NewFrame' \/ bk'.st # "Done" => Drawn' = {}
         /\ ~NewFrame' /\ bk'.st = "Done" =>
              Drawn' = IF ds'.st # "Done" THEN {1} ELSE IF dn'.st # "Done" THEN {1, 2} ELSE {1, 2, 3}
<1>1. (ds.st = "Done" => bk.st = "Done") /\ (dn.st = "Done" => ds.st = "Done")
  BY DEF Order
<1>2. (ds'.st = "Done" => bk'.st = "Done") /\ (dn'.st = "Done" => ds'.st = "Done")
  BY DEF Order
<1>3. /\ NewFrame \/ bk.st # "Done" => Drawn = {}
      /\ ~NewFrame /\ bk.st = "Done" =>
           Drawn = IF ds.st # "Done" THEN {1} ELSE IF dn.st # "Done" THEN {1, 2} ELSE {1, 2, 3}
  BY <1>1 DEF Drawn
<1>4. /\ NewFrame' \/ bk'.st # "Done" => Drawn' = {}
      /\ ~NewFrame' /\ bk'.st = "Done" =>
           Drawn' = IF ds'.st # "Done" THEN {1} ELSE IF dn'.st # "Done" THEN {1, 2} ELSE {1, 2, 3}
  BY <1>2 DEF Drawn
<1> QED BY <1>3, <1>4

(* The step that raises new_frame swaps the buffers of a complete frame.   *)
LEMMA FlipMaps ==
  ASSUME IInv, Next, NewFrameEdge
  PROVE  Abstract!Flip
<1>1. /\ vc = YNew /\ hc = 2 * XPause + 1 /\ ~NewFrame /\ (State \in BootStates <=> State' \in BootStates)
      /\ start_sign => Complete
  BY AtEdge DEF start_sign, Complete
<1>2. start_sign' = start_sign
  BY <1>1 DEF start_sign
<1>3. Front' = 1 - Front
  BY Parts, FlipStep DEF Front
<1>4. start_sign => Drawn = 1 .. 3
  BY <1>1, Parts, OrderStep, DrawnIs DEF Complete
<1>5. Drawn' = {}
  <2>1. vc' = YNew /\ hc' = 2 * XPause + 2
    BY <1>1, Parts, Bounds
  <2>2. hc' = 2 * (XPause + 1) /\ XPause + 1 \in Nat /\ hc' \in Nat
    BY <2>1, Figures
  <2>3. NewFrame'
    <3>1. PICK h \in Nat : h = hc'
      BY <2>2
    <3>2. h \div 2 = XPause + 1
      BY <2>2, <3>1, Halves
    <3> QED BY <2>1, <3>1, <3>2 DEF NewFrame, DrawX, DrawY
  <2> QED BY <2>3 DEF Drawn
<1> QED BY <1>2, <1>3, <1>4, <1>5 DEF Abstract!Flip, Abstract!Layers

(* While new_frame is high nothing counts as drawn; the first frame is     *)
(* started then.                                                           *)
LEMMA StartMaps ==
  ASSUME IInv, Next, ~NewFrameEdge, NewFrame
  PROVE  Abstract!Start \/ UNCHANGED <<Front, start_sign, Drawn>>
<1>1. Drawn = {} /\ Drawn' = {} /\ Front' = Front
  <2>1. bk'.st = "Halted"
    BY AtNewFrame, StayComplete DEF BootStates
  <2>2. Drawn = {} /\ Drawn' = {}
    BY <2>1, Parts, OrderStep, DrawnIs
  <2>3. Front' = Front
    BY FlipStep DEF Front
  <2> QED BY <2>2, <2>3
<1>2. start_sign' = start_sign \/ (~start_sign /\ start_sign')
  BY Origins DEF start_sign
<1>3. ~start_sign /\ start_sign' => Abstract!Start
  BY <1>1 DEF Abstract!Start
<1> QED BY <1>1, <1>2, <1>3

(* Between two frames layers are completed, one after the other.           *)
LEMMA DrawMaps ==
  ASSUME IInv, Next, ~NewFrameEdge, ~NewFrame
  PROVE  (\E l \in 1 .. 3 : Abstract!Draw(l)) \/ UNCHANGED <<Front, start_sign, Drawn>>
<1>1. Front' = Front
  BY FlipStep DEF Front
<1>2. start_sign' = start_sign
  BY Turns, Origins, Parts DEF start_sign, BootStates
<1>3. ~NewFrame'
  <2>1. /\ XPause \in Nat /\ hc \in Nat /\ hc' \in Nat /\ YNew \in Nat /\ XLast \in Nat
        /\ NewFrame <=> vc = YNew /\ (hc = 2 * XPause + 2 \/ hc = 2 * XPause + 3)
        /\ NewFrameEdge <=> vc = YNew /\ hc = 2 * XPause + 1
        /\ \/ hc <= 2 * XLast /\ hc' = hc + 1 /\ vc' = vc
           \/ hc = 2 * XLast + 1 /\ hc' = 0
    BY Parts, Bounds, Pixels, BeamMoves
  <2>2. PICK h \in Nat : h = hc'
    BY <2>1
  <2>3. h \div 2 = XPause + 1 <=> h = 2 * (XPause + 1) \/ h = 2 * (XPause + 1) + 1
    BY <2>1, Halves
  <2>4. ~(vc' = YNew /\ (h = 2 * XPause + 2 \/ h = 2 * XPause + 3))
    BY <2>1, <2>2
  <2>5. 2 * (XPause + 1) = 2 * XPause + 2 /\ 2 * (XPause + 1) + 1 = 2 * XPause + 3
    BY <2>1
  <2> QED BY <2>2, <2>3, <2>4, <2>5 DEF NewFrame, DrawX, DrawY
<1>4. /\ bk.st = "Done" => bk'.st = "Done"
      /\ ds.st = "Done" => ds'.st = "Done"
      /\ dn.st = "Done" => dn'.st = "Done"
      /\ ds'.st = "Done" => ds.st # "Halted"
      /\ dn'.st = "Done" => dn.st # "Halted"
      /\ bk'.st = "Done" => bk.st # "Halted"
  BY Clocks DEF BkClock, DsClock, DnClock
<1>5. /\ bk.st # "Halted" => start_sign
      /\ ds.st # "Halted" => bk.st = "Done"
      /\ dn.st # "Halted" => ds.st = "Done"
      /\ Order /\ Order'
  BY OrderStep, Parts DEF Order
<1>6. /\ Drawn = IF bk.st # "Done" THEN {} ELSE IF ds.st # "Done" THEN {1} ELSE IF dn.st # "Done" THEN {1, 2}
                  ELSE {1, 2, 3}
      /\ Drawn' = IF bk'.st # "Done" THEN {} ELSE IF ds'.st # "Done" THEN {1} ELSE IF dn'.st # "Done" THEN {1, 2}
                   ELSE {1, 2, 3}
  BY <1>3, <1>5, DrawnIs
<1>7. \/ Drawn' = Drawn
      \/ start_sign /\ Drawn = {} /\ Drawn' = {1}
      \/ start_sign /\ Drawn = {1} /\ Drawn' = {1, 2}
      \/ start_sign /\ Drawn = {1, 2} /\ Drawn' = {1, 2, 3}
  BY <1>4, <1>5, <1>6
<1>8. start_sign /\ Drawn = {} /\ Drawn' = {1} => Abstract!Draw(1)
  BY <1>1, <1>2 DEF Abstract!Draw
<1>9. start_sign /\ Drawn = {1} /\ Drawn' = {1, 2} => Abstract!Draw(2)
  BY <1>1, <1>2 DEF Abstract!Draw
<1>10. start_sign /\ Drawn = {1, 2} /\ Drawn' = {1, 2, 3} => Abstract!Draw(3)
  BY <1>1, <1>2 DEF Abstract!Draw
<1> QED BY <1>1, <1>2, <1>7, <1>8, <1>9, <1>10

(* The frame pipeline is a double buffer: the buffers change places only   *)
(* with every layer of the frame drawn, and layers are drawn in order.     *)
THEOREM IsDoubleBuffer == Spec => DoubleBuffered
<1>1. Init => Abstract!Init
  <2> SUFFICES ASSUME Init PROVE Abstract!Init
    OBVIOUS
  <2>1. bk.st = "Halted" /\ ds.st = "Halted" /\ dn.st = "Halted" /\ State = "Bootup" /\ frame_flip \in 0 .. 1
    BY DEF Init, DrawersInit
  <2>2. Front \in 0 .. 1 /\ start_sign = FALSE /\ Drawn = {}
    BY <2>1 DEF Front, start_sign, BootStates, Drawn
  <2> QED BY <2>2 DEF Abstract!Init
<1>2. IInv /\ [Next]_vars => [Abstract!Next]_<<Front, start_sign, Drawn>>
  <2> SUFFICES ASSUME IInv, [Next]_vars PROVE [Abstract!Next]_<<Front, start_sign, Drawn>>
    OBVIOUS
  <2>1. CASE Next /\ NewFrameEdge
    BY <2>1, FlipMaps DEF Abstract!Next
  <2>2. CASE Next /\ ~NewFrameEdge /\ NewFrame
    BY <2>2, StartMaps DEF Abstract!Next
  <2>3. CASE Next /\ ~NewFrameEdge /\ ~NewFrame
    BY <2>3, DrawMaps DEF Abstract!Next, Abstract!Layers
  <2>4. CASE UNCHANGED vars
    BY <2>4 DEF vars, beam, drawers, Front, start_sign, Drawn, NewFrame, DrawX, DrawY
  <2> QED BY <2>1, <2>2, <2>3, <2>4
<1> QED BY <1>1, <1>2, Invariant, PTL DEF Spec, DoubleBuffered, Abstract!Spec
=============================================================================
