--------------------------- MODULE AudioOutProofs ---------------------------
(***************************************************************************)
(* For every ring and every target, if the fills are as close together as  *)
(* AudioAssumption says, the ring is never read past its last word nor     *)
(* filled past its target, and no fill runs away; and the samples keep step*)
(* with the codec.                                                         *)
(***************************************************************************)
EXTENDS AudioOut, TLAPS

(* What the writer still owes to the ring, what it holds and what has been *)
(* played since the last fill was begun add up to the target, or for the   *)
(* first fill to one more.                                                 *)
WaitingInv ==
  State = "Halted" =>
    Statep = "Stop" /\ wraddress = 0 /\ rdaddress = 0 /\ sdram_addr = 0 /\ addr_max = 0 /\ gap = 0

FirstFillInv ==
  State \in {"Init_data", "Init_data2"} =>
    /\ Statep = "Stop" /\ rdaddress = 0 /\ gap = 0
    /\ Left <= Target /\ Used + Left = Target

FullInv ==
  State \in {"Play", "Play2", "Stoped"} =>
    /\ Left = AddrSpace - 1
    /\ State # "Stoped" /\ Statep = "Stop" => rdaddress = 0 /\ gap = 0
    /\ State # "Stoped" \/ Statep # "Stop" =>
         /\ Used + gap \in {Target, Target + 1} /\ gap <= MaxGap
         /\ Statep = "Plays" => gap < MaxGap

FillInv ==
  State \in {"Fill", "Fill2"} =>
    /\ Statep # "Stop" /\ gap <= FillReads /\ (Statep = "Plays" => gap < FillReads)
    /\ Left < MaxGap /\ Used + Left + 1 + gap = Target

Inv == TypeOK /\ WaitingInv /\ FirstFillInv /\ FullInv /\ FillInv

USE AudioAssumption

(* The addresses of the ring: their distance grows by one with each word   *)
(* written and shrinks by one with each word read.                         *)
LEMMA Distances ==
  ASSUME NEW a \in 0 .. 2 * Ring - 1, NEW b \in 0 .. 2 * Ring - 1
  PROVE  /\ Inc(a) \in 0 .. 2 * Ring - 1 /\ Dist(a, b) \in 0 .. 2 * Ring - 1
         /\ Slot(a) \in 0 .. Ring - 1
         /\ Dist(a, b) < 2 * Ring - 1 => Dist(Inc(a), b) = Dist(a, b) + 1
         /\ Dist(a, b) > 0 => Dist(a, Inc(b)) = Dist(a, b) - 1
BY DEF Inc, Dist, Slot

(* The addresses of the SDRAM, and the words left when either moves on.    *)
LEMMA Addresses ==
  ASSUME NEW s \in 0 .. AddrSpace - 1, NEW m \in 0 .. AddrSpace - 1
  PROVE  /\ AddrWrap(m - s) \in 0 .. AddrSpace - 1
         /\ AddrWrap(s + 1) \in 0 .. AddrSpace - 1
         /\ AddrWrap(m - s) > 0 => AddrWrap(m - AddrWrap(s + 1)) = AddrWrap(m - s) - 1
         /\ AddrWrap(m - s) = 0 <=> s = m
         /\ s = m => AddrWrap(m - AddrWrap(s + 1)) = AddrSpace - 1
         /\ \A n \in 1 .. Target :
              /\ AddrWrap(m + n) \in 0 .. AddrSpace - 1
              /\ AddrWrap(m - s) = AddrSpace - 1 => AddrWrap(AddrWrap(m + n) - s) = n - 1
BY DEF AddrWrap

LEMMA Facts ==
  ASSUME TypeOK
  PROVE  Used \in 0 .. 2 * Ring - 1 /\ Left \in 0 .. AddrSpace - 1
BY Distances, Addresses DEF TypeOK, Used, Left

LEMMA InitInv == Init => Inv
<1> SUFFICES ASSUME Init PROVE Inv
  OBVIOUS
<1>1. ram \in [0 .. Ring - 1 -> 0 .. AddrSpace] /\ tempdata \in 0 .. AddrSpace
  BY DEF Init, NoWord
<1>2. PreLR \in (0 .. 1) \X (0 .. 1)
  BY DEF Init
<1>3. TypeOK
  <2>1. /\ State = "Halted" /\ wraddress = 0 /\ rdaddress = 0 /\ sdram_addr = 0
        /\ addr_max = 0 /\ Statep = "Stop" /\ half = 0 /\ bit = 0
        /\ gap = 0 /\ LRClk \in 0 .. 1 /\ phase \in 0 .. HalfBits - 1
    BY DEF Init
  <2>2. stop_sign \in BOOLEAN
    BY DEF Init
  <2>3. /\ 0 \in 0 .. 2 * Ring - 1 /\ 0 \in 0 .. AddrSpace - 1 /\ 0 \in 0 .. Samples - 1
        /\ 0 \in 0 .. HalfBits - 1 /\ 0 \in Nat
    OBVIOUS
  <2> QED BY <1>1, <1>2, <2>1, <2>2, <2>3 DEF TypeOK
<1> QED BY <1>3 DEF Init, Inv, WaitingInv, FirstFillInv, FullInv, FillInv

LEMMA ResetInv == Inv /\ Reset => Inv'
<1> SUFFICES ASSUME Inv, Reset PROVE Inv'
  OBVIOUS
<1>1. ram' \in [0 .. Ring - 1 -> 0 .. AddrSpace] /\ tempdata' \in 0 .. AddrSpace
  BY DEF Inv, TypeOK, Reset
<1>2. PreLR' \in (0 .. 1) \X (0 .. 1)
  BY DEF Reset
<1>3. TypeOK'
  <2>1. /\ State' = "Halted" /\ wraddress' = 0 /\ rdaddress' = 0 /\ sdram_addr' = 0
        /\ addr_max' = 0 /\ Statep' = "Stop" /\ half' = 0 /\ bit' = 0
        /\ gap' = 0 /\ LRClk' \in 0 .. 1 /\ phase' \in 0 .. HalfBits - 1
    BY DEF Reset
  <2>2. stop_sign' \in BOOLEAN
    BY DEF Reset
  <2>3. /\ 0 \in 0 .. 2 * Ring - 1 /\ 0 \in 0 .. AddrSpace - 1 /\ 0 \in 0 .. Samples - 1
        /\ 0 \in 0 .. HalfBits - 1 /\ 0 \in Nat
    OBVIOUS
  <2> QED BY <1>1, <1>2, <2>1, <2>2, <2>3 DEF TypeOK
<1> QED BY <1>3 DEF Reset, Inv, WaitingInv, FirstFillInv, FullInv, FillInv

(* Each step of the writer.                                                *)
LEMMA WriterInv == ASSUME Inv, Clk50 PROVE Inv'
<1> USE DEF Inv
<1>0. /\ UNCHANGED <<Statep, rdaddress, half, bit, PreLR, tempdata, LRClk, phase>>
      /\ Used \in 0 .. 2 * Ring - 1 /\ Left \in 0 .. AddrSpace - 1
  BY Facts DEF Clk50, reader
<1>1. CASE Halted
  <2>1. addr_max' = Target /\ addr_max' \in 0 .. AddrSpace - 1 /\ sdram_addr' = 0 /\ Left' = Target
    BY <1>1 DEF Halted, WaitingInv, AddrWrap, Left
  <2>2. Used' = 0
    BY <1>0, <1>1 DEF Halted, WaitingInv, Used, Dist
  <2> QED
    BY <1>0, <1>1, <2>1, <2>2 DEF Halted, TypeOK, WaitingInv, FirstFillInv, FullInv, FillInv
<1>2. CASE Acknowledged
  <2>1. Used' = Used /\ Left' = Left
    BY <1>0, <1>2 DEF Acknowledged, Used, Left
  <2> QED
    BY <1>0, <1>2, <2>1 DEF Acknowledged, TypeOK, WaitingInv, FirstFillInv, FullInv, FillInv
<1>3. CASE WriteWord
  <2>1. /\ wraddress' = Inc(wraddress) /\ sdram_addr' = AddrWrap(sdram_addr + 1)
        /\ addr_max' = addr_max /\ gap' = gap /\ stop_sign' = stop_sign
        /\ ram' = [ram EXCEPT ![Slot(wraddress)] = sdram_addr]
        /\ State \in {"Init_data2", "Fill2"}
    BY <1>3 DEF WriteWord
  <2>2. Used <= Target
    BY <1>0, <2>1 DEF TypeOK, FirstFillInv, FillInv
  <2>3. Used' = Used + 1
    <3>1. wraddress \in 0 .. 2 * Ring - 1 /\ rdaddress \in 0 .. 2 * Ring - 1
      BY DEF TypeOK
    <3>2. Dist(wraddress, rdaddress) < 2 * Ring - 1
      BY <1>0, <2>2 DEF Used
    <3>3. Dist(Inc(wraddress), rdaddress) = Dist(wraddress, rdaddress) + 1
      BY <3>1, <3>2, Distances
    <3> QED BY <1>0, <2>1, <3>3 DEF Used
  <2>4. TypeOK'
    <3>1. wraddress' \in 0 .. 2 * Ring - 1 /\ sdram_addr' \in 0 .. AddrSpace - 1
      BY <2>1, Distances, Addresses DEF TypeOK
    <3>2. ram' \in [0 .. Ring - 1 -> 0 .. AddrSpace]
      BY <2>1, Distances DEF TypeOK
    <3> QED BY <1>0, <1>3, <2>1, <3>1, <3>2 DEF TypeOK, WriteWord
  <2>5. CASE sdram_addr = addr_max
    <3>1. Left = 0 /\ Left' = AddrSpace - 1
      BY <2>1, <2>5, Addresses DEF TypeOK, Left
    <3>2. State' = "Play"
      BY <1>3, <2>5 DEF WriteWord
    <3>3. gap \in Nat /\ Used + gap + 1 \in {Target, Target + 1}
      <4>1. CASE State = "Init_data2"
        BY <1>0, <4>1, <3>1 DEF TypeOK, FirstFillInv
      <4>2. CASE State = "Fill2"
        BY <1>0, <4>2, <3>1 DEF TypeOK, FillInv
      <4> QED BY <2>1, <4>1, <4>2
    <3>4. gap <= MaxGap /\ (Statep = "Plays" => gap < MaxGap)
      <4>1. CASE State = "Init_data2"
        BY <4>1 DEF TypeOK, FirstFillInv
      <4>2. CASE State = "Fill2"
        BY <1>0, <4>2, <3>1 DEF TypeOK, FillInv
      <4> QED BY <2>1, <4>1, <4>2
    <3> QED
      BY <1>0, <2>1, <2>3, <2>4, <3>1, <3>2, <3>3, <3>4
      DEF TypeOK, WaitingInv, FirstFillInv, FullInv, FillInv
  <2>6. CASE sdram_addr # addr_max
    <3>1. Left > 0 /\ Left' = Left - 1
      <4>1. sdram_addr \in 0 .. AddrSpace - 1 /\ addr_max \in 0 .. AddrSpace - 1
        BY DEF TypeOK
      <4>2. AddrWrap(addr_max - sdram_addr) > 0
        BY <2>6, <4>1 DEF AddrWrap
      <4>3. AddrWrap(addr_max - AddrWrap(sdram_addr + 1)) = AddrWrap(addr_max - sdram_addr) - 1
        BY <4>1, <4>2, Addresses
      <4> QED BY <2>1, <4>2, <4>3 DEF Left
    <3>2. State' = IF State = "Fill2" THEN "Fill" ELSE "Init_data"
      BY <1>3, <2>6 DEF WriteWord
    <3> QED
      BY <1>0, <2>1, <2>3, <2>4, <3>1, <3>2 DEF TypeOK, WaitingInv, FirstFillInv, FullInv, FillInv
  <2> QED BY <2>5, <2>6
<1>4. CASE NewFrame
  <2>1. Used' = Used /\ Left' = Left
    BY <1>0, <1>4 DEF NewFrame, Used, Left
  <2> QED
    BY <1>0, <1>4, <2>1 DEF NewFrame, TypeOK, WaitingInv, FirstFillInv, FullInv, FillInv
<1>5. CASE Stopped
  <2>1. Used' = Used /\ Left' = Left
    BY <1>0, <1>5 DEF Stopped, Used, Left
  <2> QED
    BY <1>0, <1>5, <2>1 DEF Stopped, TypeOK, WaitingInv, FirstFillInv, FullInv, FillInv
<1>6. CASE Granted
  <2>1. /\ Left = AddrSpace - 1 /\ Statep # "Stop" /\ gap >= 2 /\ gap <= MaxGap
        /\ Used + gap \in {Target, Target + 1}
    BY <1>0, <1>6 DEF Granted, TypeOK, FullInv
  <2>2. wrusedw = Used /\ Target - Used \in 1 .. Target /\ Target - Used <= MaxGap
    BY <1>0, <2>1 DEF wrusedw, Slot, TypeOK
  <2>3. /\ addr_max' = AddrWrap(addr_max + (Target - Used)) /\ sdram_addr' = sdram_addr
        /\ State' = "Fill" /\ gap' = 0
    BY <1>0, <1>6, <2>2 DEF Granted, TypeOK
  <2>4. addr_max' \in 0 .. AddrSpace - 1 /\ Left' = Target - Used - 1
    <3>1. sdram_addr \in 0 .. AddrSpace - 1 /\ addr_max \in 0 .. AddrSpace - 1
      BY DEF TypeOK
    <3>2. AddrWrap(addr_max - sdram_addr) = AddrSpace - 1
      BY <2>1 DEF Left
    <3>3. AddrWrap(addr_max + (Target - Used)) \in 0 .. AddrSpace - 1
      BY <2>2, <3>1, Addresses
    <3>4. AddrWrap(AddrWrap(addr_max + (Target - Used)) - sdram_addr) = Target - Used - 1
      BY <2>2, <3>1, <3>2, Addresses
    <3> QED BY <2>3, <3>3, <3>4 DEF Left
  <2>5. Used' = Used
    BY <1>0, <1>6 DEF Granted, Used
  <2> QED
    BY <1>0, <1>6, <2>1, <2>2, <2>3, <2>4, <2>5
    DEF Granted, TypeOK, WaitingInv, FirstFillInv, FullInv, FillInv
<1> QED BY <1>1, <1>2, <1>3, <1>4, <1>5, <1>6 DEF Clk50, Writer

(* Each step of the reader.                                                *)
LEMMA ReaderInv == ASSUME Inv, SClk PROVE Inv'
<1> USE DEF Inv
<1>0. /\ UNCHANGED <<State, wraddress, sdram_addr, addr_max, ram, stop_sign>>
      /\ Used \in 0 .. 2 * Ring - 1 /\ Left \in 0 .. AddrSpace - 1 /\ Left' = Left
  BY Facts DEF SClk, writer, Left
<1>1. /\ half' \in 0 .. Samples - 1 /\ bit' \in 0 .. HalfBits - 1 /\ PreLR' \in (0 .. 1) \X (0 .. 1)
      /\ LRClk' \in 0 .. 1 /\ phase' \in 0 .. HalfBits - 1
  BY DEF SClk, Reader, Count, Codec, TypeOK
<1>2. CASE Stop
  <2>1. UNCHANGED <<tempdata, gap>> /\ rdaddress' = 0 /\ Statep = "Stop"
    BY <1>2 DEF Stop
  <2>2. Statep' \in {"Stop", "PlayH"} /\ (~Play_flag => Statep' = "Stop")
    BY <1>2 DEF Stop
  <2>3. State # "Stoped" => rdaddress' = rdaddress /\ Used' = Used
    BY <1>0, <2>1 DEF TypeOK, WaitingInv, FirstFillInv, FullInv, FillInv, Used
  <2>4. TypeOK'
    BY <1>0, <1>1, <2>1, <2>2 DEF TypeOK
  <2> QED
    BY <1>0, <2>1, <2>2, <2>3, <2>4 DEF TypeOK, WaitingInv, FirstFillInv, FullInv, FillInv, Play_flag
<1>3. CASE PlayH
  <2>1. UNCHANGED <<rdaddress, gap>> /\ Used' = Used /\ Statep = "PlayH"
    BY <1>0, <1>3 DEF PlayH, Used
  <2>2. /\ Statep' \in {"Stop", "PlayH", "Plays"} /\ (Statep' = "Plays" => Hurry)
        /\ Statep' = "Stop" => ~Play_flag
    BY <1>3 DEF PlayH
  <2>3. tempdata' \in 0 .. AddrSpace
    <3>1. Slot(rdaddress) \in 0 .. Ring - 1
      BY DEF TypeOK, Slot
    <3>2. tempdata' \in {tempdata, ram[Slot(rdaddress)]}
      BY <1>3 DEF PlayH
    <3> QED BY <3>1, <3>2 DEF TypeOK
  <2>4. TypeOK'
    BY <1>0, <1>1, <2>1, <2>2, <2>3 DEF TypeOK
  <2>5. Statep' = "Plays" => gap < IF State \in {"Fill", "Fill2"} THEN FillReads ELSE MaxGap
    BY <2>2 DEF Hurry
  <2> QED
    BY <1>0, <2>1, <2>2, <2>4, <2>5 DEF TypeOK, WaitingInv, FirstFillInv, FullInv, FillInv, Play_flag
<1>4. CASE Plays
  <2>1. /\ UNCHANGED tempdata /\ rdaddress' = Inc(rdaddress) /\ gap' = gap + 1 /\ Statep = "Plays"
        /\ Statep' = IF Play_flag THEN "PlayH" ELSE "Stop"
    BY <1>4 DEF Plays
  <2>2. State \in {"Play", "Play2", "Stoped", "Fill", "Fill2"}
    BY <2>1 DEF TypeOK, WaitingInv, FirstFillInv
  <2>3. gap < MaxGap \/ gap < FillReads
    BY <2>1, <2>2 DEF FullInv, FillInv
  <2>4. Used > 0
    <3>1. CASE State \in {"Play", "Play2", "Stoped"}
      BY <1>0, <2>1, <3>1 DEF TypeOK, FullInv
    <3>2. CASE State \in {"Fill", "Fill2"}
      BY <1>0, <2>1, <3>2 DEF TypeOK, FillInv
    <3> QED BY <2>2, <3>1, <3>2
  <2>5. Used' = Used - 1
    BY <1>0, <2>1, <2>4, Distances DEF TypeOK, Used
  <2>6. TypeOK'
    <3>1. rdaddress' \in 0 .. 2 * Ring - 1 /\ gap' \in Nat
      BY <2>1 DEF TypeOK, Inc
    <3> QED BY <1>0, <1>1, <2>1, <3>1 DEF TypeOK
  <2> QED
    BY <1>0, <2>1, <2>2, <2>4, <2>5, <2>6
    DEF TypeOK, WaitingInv, FirstFillInv, FullInv, FillInv, Play_flag
<1> QED BY <1>2, <1>3, <1>4 DEF SClk, Reader

LEMMA NextInv == Inv /\ [Next]_vars => Inv'
<1> SUFFICES ASSUME Inv, [Next]_vars PROVE Inv'
  OBVIOUS
<1>1. CASE Clk50
  BY <1>1, WriterInv
<1>2. CASE SClk
  BY <1>2, ReaderInv
<1>3. CASE EndOfSong
  BY <1>3 DEF EndOfSong, writer, reader, Inv, TypeOK, WaitingInv, FirstFillInv, FullInv, FillInv, Used, Left
<1>4. CASE Reset
  BY <1>4, ResetInv
<1>5. CASE UNCHANGED vars
  BY <1>5 DEF vars, writer, reader, Inv, TypeOK, WaitingInv, FirstFillInv, FullInv, FillInv, Used, Left
<1> QED BY <1>1, <1>2, <1>3, <1>4, <1>5 DEF Next

LEMMA Invariance == Spec => []Inv
BY InitInv, NextInv, PTL DEF Spec

(* Every register of I2S keeps to its width and its states.                *)
THEOREM AudioTypeOK == Spec => []TypeOK
<1>1. Inv => TypeOK
  BY DEF Inv
<1> QED BY <1>1, Invariance, PTL

LEMMA InBounds == Inv => RingInBounds
<1> SUFFICES ASSUME Inv, Statep # "Stop"
             PROVE  Used <= Target + 1 /\ (Statep = "Plays" => Used >= 1)
  BY DEF RingInBounds
<1> USE DEF Inv
<1>1. State \in {"Play", "Play2", "Stoped", "Fill", "Fill2"}
  BY DEF TypeOK, WaitingInv, FirstFillInv
<1>2. CASE State \in {"Play", "Play2", "Stoped"}
  BY <1>2, Facts DEF TypeOK, FullInv
<1>3. CASE State \in {"Fill", "Fill2"}
  <2>1. Used + Left + 1 + gap = Target /\ Left < MaxGap /\ (Statep = "Plays" => gap < FillReads)
    BY <1>3 DEF FillInv
  <2>2. Used \in Nat /\ Left \in Nat /\ gap \in Nat
    BY Facts DEF TypeOK
  <2> QED BY <2>1, <2>2
<1> QED BY <1>1, <1>2, <1>3

(* However the two clocks interleave, the reader never overtakes the       *)
(* writer nor the writer the reader (I2S.sv:37, 94, 123).                  *)
THEOREM RingInBoundsTheorem == Spec => []RingInBounds
BY InBounds, Invariance, PTL

(* No fill runs past its end (I2S.sv:104, 134).                            *)
THEOREM FillsAreShortTheorem == Spec => []FillsAreShort
<1>1. Inv => FillsAreShort
  BY Facts DEF Inv, TypeOK, FirstFillInv, FillInv, FillsAreShort
<1> QED BY <1>1, Invariance, PTL

(* The ring is kept within its bounds at all times (I2S.sv:37, 94-137).    *)
THEOREM RingKeptTheorem == Spec => []RingKept
BY RingInBoundsTheorem, FillsAreShortTheorem, PTL DEF RingKept

(***************************************************************************)
(* The order of the words: each word between the two pointers has come     *)
(* from an SDRAM address that agrees with its address in the ring.         *)
(***************************************************************************)
Turn == 2 * Ring

Held(a) == Dist(a, rdaddress) < Used

OrderInv ==
  /\ sdram_addr % Turn = wraddress
  /\ State # "Stoped" \/ Statep # "Stop" =>
       \A a \in 0 .. 2 * Ring - 1 : Held(a) => ram[Slot(a)] % Turn = a

(* The next address of the SDRAM agrees with the next one of the ring,     *)
(* also where either turns over.                                           *)
LEMMA TurnLemma ==
  ASSUME NEW s \in 0 .. AddrSpace - 1
  PROVE  AddrWrap(s + 1) % Turn = Inc(s % Turn)
<1> DEFINE q == s \div Turn
           r == s % Turn
           k == AddrSpace \div Turn
<1>1. Turn \in Nat \ {0} /\ AddrSpace \in Nat \ {0}
  BY DEF Turn
<1>2. q \in Nat /\ r \in 0 .. Turn - 1 /\ s = Turn * q + r
  BY <1>1
<1>3. k \in Nat /\ AddrSpace = Turn * k
  BY <1>1, RingAssumption DEF Turn
<1> HIDE DEF q, r, k
<1>4. CASE s + 1 = AddrSpace
  <2>1. AddrWrap(s + 1) = 0 /\ 0 % Turn = 0
    BY <1>1, <1>4 DEF AddrWrap
  <2>2. Turn * (k - q) = r + 1
    BY <1>1, <1>2, <1>3, <1>4
  <2>3. k - q >= 1
    BY <1>1, <1>2, <1>3, <2>2
  <2>4. Turn * (k - q) >= Turn
    BY <1>1, <1>2, <1>3, <2>3
  <2>5. r = Turn - 1
    BY <1>1, <1>2, <2>2, <2>4
  <2>6. Inc(r) = 0
    BY <1>1, <2>5 DEF Inc, Turn
  <2> QED BY <2>1, <2>6 DEF r
<1>5. CASE s + 1 # AddrSpace
  <2>1. AddrWrap(s + 1) = s + 1
    BY <1>1, <1>5 DEF AddrWrap
  <2>2. CASE r + 1 = Turn
    <3>1. s + 1 = Turn * (q + 1)
      BY <1>1, <1>2, <2>2
    <3>2. (Turn * (q + 1)) % Turn = 0
      BY <1>1, <1>2
    <3>3. Inc(r) = 0
      BY <2>2 DEF Inc, Turn
    <3> QED BY <2>1, <3>1, <3>2, <3>3 DEF r
  <2>3. CASE r + 1 # Turn
    <3>1. r + 1 \in 0 .. Turn - 1 /\ s + 1 = Turn * q + (r + 1)
      BY <1>1, <1>2, <2>3
    <3>2. (Turn * q + (r + 1)) % Turn = r + 1
      BY <1>1, <1>2, <3>1
    <3>3. Inc(r) = r + 1
      BY <2>3 DEF Inc, Turn
    <3> QED BY <2>1, <3>1, <3>2, <3>3 DEF r
  <2> QED BY <2>2, <2>3
<1> QED BY <1>4, <1>5

(* What is held when a word is written, and when one is read.              *)
LEMMA HeldAfterWrite ==
  ASSUME NEW w \in 0 .. 2 * Ring - 1, NEW b \in 0 .. 2 * Ring - 1, NEW a \in 0 .. 2 * Ring - 1,
         Dist(w, b) < Ring, Dist(a, b) < Dist(Inc(w), b)
  PROVE  a = w \/ (Dist(a, b) < Dist(w, b) /\ Slot(a) # Slot(w))
BY DEF Dist, Inc, Slot

LEMMA HeldAfterRead ==
  ASSUME NEW w \in 0 .. 2 * Ring - 1, NEW b \in 0 .. 2 * Ring - 1, NEW a \in 0 .. 2 * Ring - 1,
         Dist(w, b) > 0, Dist(a, Inc(b)) < Dist(w, Inc(b))
  PROVE  Dist(a, b) < Dist(w, b)
BY DEF Dist, Inc

LEMMA OrderStep == Inv /\ OrderInv /\ [Next]_vars => OrderInv'
<1> SUFFICES ASSUME Inv, OrderInv, [Next]_vars PROVE OrderInv'
  OBVIOUS
<1>0. /\ wraddress \in 0 .. 2 * Ring - 1 /\ rdaddress \in 0 .. 2 * Ring - 1
      /\ sdram_addr \in 0 .. AddrSpace - 1 /\ Used \in 0 .. 2 * Ring - 1
      /\ ram \in [0 .. Ring - 1 -> 0 .. AddrSpace]
  BY Facts DEF Inv, TypeOK
<1>1. CASE Clk50 /\ WriteWord
  <2>1. /\ wraddress' = Inc(wraddress) /\ sdram_addr' = AddrWrap(sdram_addr + 1) /\ State # "Stoped"
        /\ ram' = [ram EXCEPT ![Slot(wraddress)] = sdram_addr] /\ rdaddress' = rdaddress
    BY <1>1 DEF Clk50, WriteWord, reader
  <2>2. sdram_addr' % Turn = wraddress'
    BY <1>0, <2>1, TurnLemma DEF OrderInv
  <2>3. Dist(wraddress, rdaddress) < Ring
    <3>1. State \in {"Init_data2", "Fill2"} /\ Left \in 0 .. AddrSpace - 1 /\ gap \in Nat
      BY <1>1, Facts DEF WriteWord, Inv, TypeOK
    <3>2. Used <= Target
      BY <1>0, <3>1 DEF Inv, FirstFillInv, FillInv
    <3> QED BY <1>0, <3>2 DEF Used
  <2>4. ASSUME NEW a \in 0 .. 2 * Ring - 1, Held(a)'
        PROVE  ram'[Slot(a)] % Turn = a
    <3>1. Dist(a, rdaddress) < Dist(Inc(wraddress), rdaddress)
      BY <2>1, <2>4 DEF Held, Used
    <3>2. a = wraddress \/ (Dist(a, rdaddress) < Dist(wraddress, rdaddress) /\ Slot(a) # Slot(wraddress))
      BY <1>0, <2>3, <3>1, HeldAfterWrite
    <3>3. Slot(a) \in 0 .. Ring - 1 /\ Slot(wraddress) \in 0 .. Ring - 1
      BY <1>0, Distances
    <3>4. CASE a = wraddress
      BY <1>0, <2>1, <3>3, <3>4 DEF OrderInv
    <3>5. CASE Dist(a, rdaddress) < Dist(wraddress, rdaddress) /\ Slot(a) # Slot(wraddress)
      <4>1. ram[Slot(a)] % Turn = a
        BY <2>1, <3>5 DEF OrderInv, Held, Used
      <4>2. ram'[Slot(a)] = ram[Slot(a)]
        BY <1>0, <2>1, <3>3, <3>5
      <4> QED BY <4>1, <4>2
    <3> QED BY <3>2, <3>4, <3>5
  <2> QED BY <2>2, <2>4 DEF OrderInv
<1>2. CASE Clk50 /\ ~WriteWord
  <2>1. UNCHANGED <<wraddress, sdram_addr, ram, rdaddress, Statep>> /\ (State = "Stoped" => State' = "Stoped")
    BY <1>2 DEF Clk50, Writer, Halted, Acknowledged, NewFrame, Stopped, Granted, reader
  <2>2. State' = "Stoped" /\ State # "Stoped" => UNCHANGED Statep
    BY <2>1
  <2> QED BY <2>1, <2>2 DEF OrderInv, Held, Used, Turn
<1>3. CASE SClk
  <2>1. UNCHANGED <<State, wraddress, sdram_addr, ram>>
    BY <1>3 DEF SClk, writer
  <2>2. CASE Stop
    <3>1. Statep = "Stop" /\ rdaddress' = 0 /\ (State = "Stoped" => Statep' = "Stop")
      BY <2>2 DEF Stop, Play_flag
    <3>2. State # "Stoped" => rdaddress = 0
      BY <3>1 DEF Inv, TypeOK, WaitingInv, FirstFillInv, FullInv, FillInv
    <3> QED BY <2>1, <3>1, <3>2 DEF OrderInv, Held, Used, Turn
  <2>3. CASE PlayH
    <3>1. rdaddress' = rdaddress /\ Statep # "Stop"
      BY <2>3 DEF PlayH
    <3> QED BY <2>1, <3>1 DEF OrderInv, Held, Used, Turn
  <2>4. CASE Plays
    <3>1. rdaddress' = Inc(rdaddress) /\ Statep = "Plays" /\ Used > 0
      BY <1>0, <2>4, InBounds DEF Plays, RingInBounds
    <3>2. ASSUME NEW a \in 0 .. 2 * Ring - 1, Held(a)'
          PROVE  Held(a)
      BY <1>0, <2>1, <3>1, <3>2, HeldAfterRead DEF Held, Used
    <3> QED BY <2>1, <3>1, <3>2 DEF OrderInv, Turn
  <2> QED BY <1>3, <2>2, <2>3, <2>4 DEF SClk, Reader
<1>4. CASE EndOfSong \/ UNCHANGED vars
  <2>1. UNCHANGED <<State, Statep, wraddress, rdaddress, sdram_addr, ram>>
    BY <1>4 DEF EndOfSong, vars, writer, reader
  <2> QED BY <2>1 DEF OrderInv, Held, Used, Turn
<1>5. CASE Reset
  <2>1. wraddress' = 0 /\ rdaddress' = 0 /\ sdram_addr' = 0 /\ 0 % Turn = 0
    BY <1>5 DEF Reset, Turn
  <2>2. \A a \in 0 .. 2 * Ring - 1 : ~Held(a)'
    BY <2>1 DEF Held, Used, Dist
  <2> QED BY <2>1, <2>2 DEF OrderInv
<1> QED BY <1>1, <1>2, <1>3, <1>4, <1>5 DEF Next

(* The words are played in the order they have in the SDRAM, none twice    *)
(* and none left out, while the ring turns over and over (I2S.sv:29-60,    *)
(* 94-137).                                                                *)
THEOREM InOrderTheorem == Spec => InOrder
<1>1. Init => OrderInv
  <2> SUFFICES ASSUME Init PROVE OrderInv
    OBVIOUS
  <2>1. wraddress = 0 /\ rdaddress = 0 /\ sdram_addr = 0 /\ 0 % Turn = 0
    BY DEF Init, Turn
  <2>2. \A a \in 0 .. 2 * Ring - 1 : ~Held(a)
    BY <2>1 DEF Held, Used, Dist
  <2> QED BY <2>1, <2>2 DEF OrderInv
<1>2. Inv /\ OrderInv /\ [Next]_vars
        => [Statep = "PlayH" /\ Statep' = "Plays" => tempdata' % (2 * Ring) = rdaddress]_vars
  <2> SUFFICES ASSUME Inv, OrderInv, Next, Statep = "PlayH", Statep' = "Plays"
               PROVE  tempdata' % (2 * Ring) = rdaddress
    OBVIOUS
  <2>1. SClk /\ PlayH
    BY DEF Next, Clk50, SClk, Reader, Stop, Plays, EndOfSong, Reset, reader
  <2>2. tempdata' = ram[Slot(rdaddress)]
    BY <2>1 DEF PlayH
  <2>3. Used > 0
    <3>1. Inv' /\ Used' = Used
      BY <2>1, ReaderInv DEF SClk, writer, PlayH, Used
    <3>2. Statep' = "Plays"
      BY <2>1 DEF PlayH
    <3>3. Inv' => RingInBounds'
      BY InBounds, PTL
    <3>4. Used' >= 1
      BY <3>1, <3>2, <3>3 DEF RingInBounds
    <3>5. Used \in 0 .. 2 * Ring - 1
      BY Facts DEF Inv
    <3> QED BY <3>1, <3>4, <3>5
  <2>4. rdaddress \in 0 .. 2 * Ring - 1 /\ Held(rdaddress)
    BY <2>3 DEF Held, Dist, Inv, TypeOK
  <2> QED BY <2>2, <2>4 DEF OrderInv, Turn
<1> QED BY <1>1, <1>2, OrderStep, Invariance, PTL DEF Spec, InOrder

(***************************************************************************)
(* The bit counter and the codec: an edge of LRClk is seen in the second   *)
(* cycle of a half frame and at no other time.                             *)
(***************************************************************************)
EdgeInv ==
  /\ LRClk # PreLR[1] => phase = 0
  /\ PreLR[1] # PreLR[2] => phase = 1

(* How far the samples are from the codec's half frames.                   *)
Offset == half * HalfBits + bit - Position

LEMMA EdgeStep == TypeOK /\ EdgeInv /\ [Next]_vars => EdgeInv'
<1> SUFFICES ASSUME TypeOK, EdgeInv, [Next]_vars PROVE EdgeInv'
  OBVIOUS
<1>1. CASE SClk
  <2>1. /\ phase = HalfBits - 1 => phase' = 0 /\ LRClk' = 1 - LRClk
        /\ phase # HalfBits - 1 => phase' = phase + 1 /\ LRClk' = LRClk
        /\ PreLR' = <<LRClk, PreLR[1]>>
    BY <1>1 DEF SClk, Reader, Codec, Count
  <2>2. LRClk' # PreLR'[1] => phase' = 0
    BY <2>1
  <2>3. PreLR'[1] # PreLR'[2] => phase' = 1
    BY <2>1 DEF EdgeInv, TypeOK
  <2> QED BY <2>2, <2>3 DEF EdgeInv
<1>2. CASE Reset
  BY <1>2 DEF Reset, EdgeInv
<1>3. CASE Clk50 \/ EndOfSong \/ UNCHANGED vars
  BY <1>3 DEF Clk50, EndOfSong, vars, reader, EdgeInv
<1> QED BY <1>1, <1>2, <1>3 DEF Next

LEMMA Turns ==
  ASSUME NEW x \in Int
  PROVE  /\ (x + 2 * HalfBits) % (2 * HalfBits) = x % (2 * HalfBits)
         /\ (x - Samples * HalfBits) % (2 * HalfBits) = x % (2 * HalfBits)
<1> DEFINE m == 2 * HalfBits
           k == Samples \div 2
<1>1. m \in Nat \ {0} /\ k \in Nat /\ Samples = 2 * k
  BY SamplesAssumption
<1>2. Samples * HalfBits = k * m
  BY <1>1
<1> DEFINE q == x \div m
           r == x % m
<1> HIDE DEF m, k
<1>3. q \in Int /\ r \in 0 .. m - 1 /\ x = m * q + r
  BY <1>1
<1> HIDE DEF q, r
<1>4. \A i \in Int : (m * i + r) % m = r
  BY <1>1, <1>3
<1>5. (x + m) % m = x % m
  <2>1. x + m = m * (q + 1) + r
    BY <1>1, <1>3
  <2>2. q + 1 \in Int
    BY <1>3
  <2> QED BY <1>4, <2>1, <2>2 DEF r
<1>6. (x - k * m) % m = x % m
  <2>1. x - k * m = m * (q - k) + r
    BY <1>1, <1>3
  <2>2. q - k \in Int
    BY <1>1, <1>3
  <2> QED BY <1>4, <2>1, <2>2 DEF r
<1> QED BY <1>2, <1>5, <1>6 DEF m

(* What a cycle of SClk does to an aligned reader.                         *)
LEMMA AlignedCycle ==
  ASSUME TypeOK, EdgeInv, SClk, Aligned
  PROVE  Aligned' /\ Offset' \in {Offset, Offset + 2 * HalfBits, Offset - Samples * HalfBits}
<1> DEFINE h == HalfBits
<1>1. /\ half \in 0 .. Samples - 1 /\ bit \in 0 .. h - 1 /\ LRClk \in 0 .. 1 /\ phase \in 0 .. h - 1
      /\ h \in Nat /\ 1 < h /\ Samples \in Nat \ {0}
  BY DEF TypeOK
<1>2. /\ phase = h - 1 => phase' = 0 /\ LRClk' = 1 - LRClk
      /\ phase # h - 1 => phase' = phase + 1 /\ LRClk' = LRClk
      /\ bit' = IF PreLR[1] # PreLR[2] THEN 1 ELSE IF bit = h - 1 THEN 0 ELSE bit + 1
      /\ half' = IF PreLR[1] = PreLR[2] /\ bit = h - 1
                 THEN (IF half = Samples - 1 THEN 0 ELSE half + 1) ELSE half
  BY DEF SClk, Reader, Codec, Count
<1>3. /\ phase = 0 => bit = h - 1
      /\ phase # 0 => bit = phase - 1
  BY DEF Aligned
<1>4. phase # 1 => PreLR[1] = PreLR[2]
  BY DEF EdgeInv
<1> DEFINE b == bit'
           p == phase'
           l == LRClk'
           n == half'
<1>5. CASE phase = 0
  <2>1. b = 0 /\ p = 1 /\ l = LRClk /\ n = IF half = Samples - 1 THEN 0 ELSE half + 1
    BY <1>1, <1>2, <1>3, <1>4, <1>5
  <2>2. Aligned'
    BY <2>1 DEF Aligned
  <2>3. Position = LRClk * h - 1 /\ Position' = LRClk * h
    <3>1. Position' = l * h + p - 1
      BY DEF Position
    <3> HIDE DEF l, p
    <3> QED BY <1>1, <1>5, <2>1, <3>1 DEF Position
  <2>4. Offset = half * h + h - LRClk * h /\ Offset' = n * h - LRClk * h
    <3>1. Offset' = n * h + b - Position'
      BY DEF Offset
    <3> HIDE DEF n, b
    <3> QED BY <1>1, <1>3, <1>5, <2>1, <2>3, <3>1 DEF Offset
  <2> HIDE DEF n
  <2>5. CASE half = Samples - 1
    <3>1. half * h + h = Samples * h /\ n * h = 0
      BY <1>1, <2>1, <2>5
    <3>2. Offset' = Offset - Samples * h
      BY <1>1, <2>4, <3>1
    <3> QED BY <2>2, <3>2
  <2>6. CASE half # Samples - 1
    <3>1. n * h = half * h + h
      BY <1>1, <2>1, <2>6
    <3> QED BY <1>1, <2>2, <2>4, <3>1
  <2> QED BY <2>5, <2>6
<1>6. CASE phase # 0
  <2>1. b = phase /\ n = half
    BY <1>1, <1>2, <1>3, <1>4, <1>6
  <2>2. p = IF phase = h - 1 THEN 0 ELSE phase + 1
    BY <1>2
  <2>3. Aligned'
    BY <1>1, <1>6, <2>1, <2>2 DEF Aligned
  <2>4. Position = LRClk * h + phase - 1 /\ Position' = l * h + p - 1
    BY DEF Position
  <2>5. Offset = half * h + bit - Position /\ Offset' = half * h + b - Position'
    BY <2>1 DEF Offset
  <2>6. half * h \in Int /\ bit = phase - 1 /\ l \in 0 .. 1
    BY <1>1, <1>2, <1>3, <1>6
  <2>7. CASE phase = h - 1 /\ LRClk = 1
    <3>1. Position = 2 * h - 2 /\ Position' = 0 - 1
      BY <1>1, <1>2, <2>2, <2>4, <2>7
    <3>2. Offset' = Offset + 2 * h
      BY <1>1, <2>1, <2>5, <2>6, <2>7, <3>1
    <3> QED BY <2>3, <3>2
  <2>8. CASE phase = h - 1 /\ LRClk = 0
    <3>1. Position = h - 2 /\ Position' = h - 1
      BY <1>1, <1>2, <2>2, <2>4, <2>8
    <3>2. Offset' = Offset
      BY <1>1, <2>1, <2>5, <2>6, <2>8, <3>1
    <3> QED BY <2>3, <3>2
  <2>9. CASE phase # h - 1
    <3>1. Position' = Position + 1
      <4>1. l = LRClk /\ p = phase + 1 /\ LRClk * h \in Int
        BY <1>1, <1>2, <2>9
      <4> QED BY <1>1, <2>4, <4>1
    <3>2. Position \in Int
      BY <1>1, <2>4
    <3>3. Offset' = Offset
      BY <1>1, <2>1, <2>5, <2>6, <3>1, <3>2
    <3> QED BY <2>3, <3>3
  <2> QED BY <1>1, <2>7, <2>8, <2>9
<1> QED BY <1>5, <1>6

(* Once an edge of LRClk has been seen, bit and half keep step with the    *)
(* codec until the next reset, for any even number of samples in a word    *)
(* (I2S.sv:207-235, 283-291).                                              *)
THEOREM KeepsStepTheorem == Spec => KeepsStep
<1>1. Init => EdgeInv
  BY DEF Init, EdgeInv
<1>2. TypeOK /\ EdgeInv /\ [Next]_vars
        => [Aligned => \/ /\ Aligned'
                          /\ (half' * HalfBits + bit' - Position') % (2 * HalfBits)
                               = (half * HalfBits + bit - Position) % (2 * HalfBits)
                       \/ bit' = 0 /\ half' = 0 /\ State' = "Halted"]_vars
  <2> SUFFICES ASSUME TypeOK, EdgeInv, Next, Aligned
               PROVE  \/ Aligned' /\ Offset' % (2 * HalfBits) = Offset % (2 * HalfBits)
                      \/ bit' = 0 /\ half' = 0 /\ State' = "Halted"
    BY DEF Offset
  <2>1. CASE SClk
    <3>1. Offset \in Int
      BY DEF Offset, Position, TypeOK
    <3> QED BY <2>1, <3>1, AlignedCycle, Turns
  <2>2. CASE Clk50 \/ EndOfSong
    BY <2>2 DEF Clk50, EndOfSong, reader, Aligned, Offset, Position
  <2>3. CASE Reset
    BY <2>3 DEF Reset
  <2> QED BY <2>1, <2>2, <2>3 DEF Next
<1> QED BY <1>1, <1>2, EdgeStep, AudioTypeOK, PTL DEF Spec, KeepsStep
=============================================================================
