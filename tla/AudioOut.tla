------------------------------ MODULE AudioOut ------------------------------
(***************************************************************************)
(* I2S: the ring of audio words between the SDRAM and the codec.           *)
(*                                                                         *)
(* The writer runs on the 50 MHz clock and fills the ring once a frame,    *)
(* when the arbiter grants it the SDRAM; the reader runs on the codec's    *)
(* SClk and takes a word every Samples half frames of LRClk.  A word is    *)
(* named by its address in the SDRAM.  The two clocks are unrelated: their *)
(* edges are separate steps in any order, but for what is known of time    *)
(* (Hurry below).  `counter' is a pair: counter[7:5] is half, counter[4:0] *)
(* is bit; `counters', which follows it at the falling edge, is what the   *)
(* codec samples against at the next rising one, the next step of SClk.    *)
(***************************************************************************)
EXTENDS Integers

CONSTANTS
  Ring,        (* 256: the words of fifo_a_ram.                              *)
  Target,      (* 200: the words the ring is filled to.                      *)
  AddrSpace,   (* 2^22: the addresses of the SDRAM.                          *)
  HalfBits,    (* 32: cycles of SClk in a half frame.                        *)
  Samples,     (* 8: the samples of a word, one per half frame.              *)
  LoadBit,     (* 28: the next word is taken at this bit of the last sample. *)
  MinGap,      (* Words played between two fills, at least ...               *)
  MaxGap,      (* ... and at most.                                           *)
  FillReads    (* Words played while the ring is being filled, at most.      *)

(* The ring holds a fill; a frame plays at least the word by which the     *)
(* first fill exceeds the target, and no more than leaves the words played *)
(* until the next fill is over.                                            *)
ASSUME AudioAssumption ==
  /\ Ring \in Nat /\ Target \in Nat /\ AddrSpace \in Nat
  /\ 0 < Target /\ Target < Ring /\ 2 * Ring < AddrSpace
  /\ HalfBits \in Nat /\ 1 < HalfBits /\ Samples \in Nat \ {0} /\ LoadBit \in 0 .. HalfBits - 1
  /\ MinGap \in Nat /\ MaxGap \in Nat /\ FillReads \in Nat \ {0}
  /\ 2 <= MinGap /\ MinGap <= MaxGap /\ FillReads <= MaxGap /\ MaxGap + FillReads <= Target

(* 2^22 words of SDRAM and addresses of the ring modulo 512.               *)
ASSUME RingAssumption == AddrSpace % (2 * Ring) = 0

(* Two channels: a word has as many samples of the one as of the other.    *)
ASSUME SamplesAssumption == Samples % 2 = 0

VARIABLES
  State, wraddress, sdram_addr, addr_max,   (* The writer.                   *)
  ram,                                      (* The ring: the word of a slot. *)
  Statep, rdaddress, half, bit, PreLR,      (* The reader.                   *)
  tempdata,                                 (* The word being played.        *)
  LRClk, phase,                             (* The codec: cycles of SClk     *)
                                            (* since LRClk changed.          *)
  stop_sign,
  gap                                       (* Words played since the last   *)
                                            (* fill was begun.               *)

writer == <<State, wraddress, sdram_addr, addr_max, ram>>
reader == <<Statep, rdaddress, half, bit, PreLR, tempdata, LRClk, phase>>
vars   == <<writer, reader, stop_sign, gap>>

NoWord == AddrSpace

(* Addresses of the ring have one bit more than its slots need.            *)
Inc(a)     == IF a + 1 = 2 * Ring THEN 0 ELSE a + 1
Slot(a)    == IF a < Ring THEN a ELSE a - Ring
Dist(a, b) == IF a >= b THEN a - b ELSE a - b + 2 * Ring

(* The words in the ring; wrusedw is its low bits, so that it is wrong for *)
(* a ring read past its last word.                                         *)
Used    == Dist(wraddress, rdaddress)
wrusedw == Slot(Used)

AddrWrap(n) == IF n < 0 THEN n + AddrSpace ELSE IF n >= AddrSpace THEN n - AddrSpace ELSE n

(* The words still to come, less one: the fill ends when sdram_addr equals *)
(* addr_max.                                                               *)
Left == AddrWrap(addr_max - sdram_addr)

Init ==
  /\ State = "Halted" /\ wraddress = 0 /\ sdram_addr = 0 /\ addr_max = 0
  /\ ram = [s \in 0 .. Ring - 1 |-> NoWord]
  /\ Statep = "Stop" /\ rdaddress = 0 /\ half = 0 /\ bit = 0
  /\ LRClk \in 0 .. 1 /\ phase \in 0 .. HalfBits - 1
  /\ PreLR = <<LRClk, LRClk>>
  /\ tempdata = NoWord /\ stop_sign = FALSE /\ gap = 0
-----------------------------------------------------------------------------
(* The writer, on Clk50.                                                   *)

(* Mutant: Stoped leaves Play_flag at its default.                         *)
PlayFlagStays == State \notin {"Halted", "Init_data", "Init_data2"}

Play_flag == State \in {"Play", "Play2", "Fill", "Fill2"}

Halted ==
  /\ State = "Halted"
  /\ State' = "Init_data" /\ addr_max' = AddrWrap(addr_max + Target) /\ gap' = 0
  /\ UNCHANGED <<wraddress, sdram_addr, ram, stop_sign>>

Acknowledged ==
  /\ State \in {"Init_data", "Fill"}
  /\ State' = IF State = "Fill" THEN "Fill2" ELSE "Init_data2"
  /\ UNCHANGED <<wraddress, sdram_addr, addr_max, ram, stop_sign, gap>>

(* Mutant: the address moves on before the word is written.                *)
WriteWordAhead ==
  /\ State \in {"Init_data2", "Fill2"}
  /\ ram' = [ram EXCEPT ![Slot(Inc(wraddress))] = sdram_addr]
  /\ wraddress' = Inc(wraddress) /\ sdram_addr' = AddrWrap(sdram_addr + 1)
  /\ State' = IF sdram_addr = addr_max THEN "Play"
              ELSE IF State = "Fill2" THEN "Fill" ELSE "Init_data"
  /\ UNCHANGED <<addr_max, stop_sign, gap>>

WriteWord ==
  /\ State \in {"Init_data2", "Fill2"}
  /\ ram' = [ram EXCEPT ![Slot(wraddress)] = sdram_addr]
  /\ wraddress' = Inc(wraddress) /\ sdram_addr' = AddrWrap(sdram_addr + 1)
  /\ State' = IF sdram_addr = addr_max THEN "Play"
              ELSE IF State = "Fill2" THEN "Fill" ELSE "Init_data"
  /\ UNCHANGED <<addr_max, stop_sign, gap>>

NewFrame ==
  /\ State = "Play" /\ State' = "Play2"
  /\ UNCHANGED <<wraddress, sdram_addr, addr_max, ram, stop_sign, gap>>

Stopped ==
  /\ State = "Play2" /\ stop_sign
  /\ State' = "Stoped"
  /\ UNCHANGED <<wraddress, sdram_addr, addr_max, ram, stop_sign, gap>>

(* Mutant: the ring is taken to be empty.                                  *)
GrantedBlind ==
  /\ State = "Play2" /\ ~stop_sign /\ gap >= MinGap
  /\ State' = "Fill" /\ addr_max' = AddrWrap(addr_max + Target) /\ gap' = 0
  /\ UNCHANGED <<wraddress, sdram_addr, ram, stop_sign>>

Granted ==
  /\ State = "Play2" /\ ~stop_sign /\ gap >= MinGap
  /\ State' = "Fill" /\ addr_max' = AddrWrap(addr_max + Target - wrusedw) /\ gap' = 0
  /\ UNCHANGED <<wraddress, sdram_addr, ram, stop_sign>>

Writer == Halted \/ Acknowledged \/ WriteWord \/ NewFrame \/ Stopped \/ Granted
-----------------------------------------------------------------------------
(* The reader, on SClk.                                                    *)

(* The codec: LRClk changes after HalfBits cycles.                         *)
Codec ==
  IF phase = HalfBits - 1 THEN phase' = 0 /\ LRClk' = 1 - LRClk
  ELSE phase' = phase + 1 /\ LRClk' = LRClk

(* Mutant: an edge of LRClk sets the bit to 0, as if it were seen at once. *)
CountFromZero ==
  /\ PreLR' = <<LRClk, PreLR[1]>>
  /\ bit' = IF PreLR[1] # PreLR[2] THEN 0 ELSE IF bit = HalfBits - 1 THEN 0 ELSE bit + 1
  /\ half' = IF PreLR[1] = PreLR[2] /\ bit = HalfBits - 1
             THEN (IF half = Samples - 1 THEN 0 ELSE half + 1) ELSE half

(* An edge of LRClk, seen a cycle later, sets the bit to 1 and leaves the  *)
(* sample; otherwise they count on.                                        *)
Count ==
  /\ PreLR' = <<LRClk, PreLR[1]>>
  /\ bit' = IF PreLR[1] # PreLR[2] THEN 1 ELSE IF bit = HalfBits - 1 THEN 0 ELSE bit + 1
  /\ half' = IF PreLR[1] = PreLR[2] /\ bit = HalfBits - 1
             THEN (IF half = Samples - 1 THEN 0 ELSE half + 1) ELSE half

(* The frames come in time: no more words are played than the bounds say.  *)
Hurry == gap < IF State \in {"Fill", "Fill2"} THEN FillReads ELSE MaxGap

LoadTime == half = Samples - 1 /\ bit = LoadBit

Stop ==
  /\ Statep = "Stop"
  /\ Statep' = IF Play_flag /\ LRClk = 1 THEN "PlayH" ELSE "Stop"
  /\ rdaddress' = 0
  /\ UNCHANGED <<tempdata, gap>>

(* The word is latched on the way into Plays, from the address before it   *)
(* moves on.                                                               *)
PlayH ==
  /\ Statep = "PlayH"
  /\ IF Play_flag /\ LoadTime
     THEN Hurry /\ Statep' = "Plays" /\ tempdata' = ram[Slot(rdaddress)]
     ELSE Statep' = (IF Play_flag THEN "PlayH" ELSE "Stop") /\ tempdata' = tempdata
  /\ UNCHANGED <<rdaddress, gap>>

Plays ==
  /\ Statep = "Plays"
  /\ Statep' = IF Play_flag THEN "PlayH" ELSE "Stop"
  /\ rdaddress' = Inc(rdaddress) /\ gap' = gap + 1
  /\ UNCHANGED tempdata

Reader == Codec /\ Count /\ (Stop \/ PlayH \/ Plays)
-----------------------------------------------------------------------------
EndOfSong ==
  /\ Play_flag /\ ~stop_sign /\ stop_sign' = TRUE
  /\ UNCHANGED <<writer, reader, gap>>

(* The reset is held over many cycles of both clocks.                      *)
Reset ==
  /\ State' = "Halted" /\ wraddress' = 0 /\ sdram_addr' = 0 /\ addr_max' = 0
  /\ Statep' = "Stop" /\ rdaddress' = 0 /\ half' = 0 /\ bit' = 0
  /\ LRClk' \in 0 .. 1 /\ phase' \in 0 .. HalfBits - 1 /\ PreLR' = <<LRClk', LRClk'>>
  /\ stop_sign' = FALSE /\ gap' = 0
  /\ UNCHANGED <<ram, tempdata>>

Clk50 == Writer /\ UNCHANGED reader
SClk  == Reader /\ UNCHANGED <<writer, stop_sign>>

Next == Clk50 \/ SClk \/ EndOfSong \/ Reset

Spec == Init /\ [][Next]_vars

(* Both clocks run, a song ends, and the arbiter grants a waiting writer.  *)
FairSpec == Spec /\ WF_vars(Clk50) /\ WF_vars(SClk) /\ WF_vars(EndOfSong)
-----------------------------------------------------------------------------
TypeOK ==
  /\ State \in {"Halted", "Init_data", "Init_data2", "Play", "Play2", "Fill", "Fill2", "Stoped"}
  /\ wraddress \in 0 .. 2 * Ring - 1 /\ rdaddress \in 0 .. 2 * Ring - 1
  /\ sdram_addr \in 0 .. AddrSpace - 1 /\ addr_max \in 0 .. AddrSpace - 1
  /\ ram \in [0 .. Ring - 1 -> 0 .. AddrSpace] /\ tempdata \in 0 .. AddrSpace
  /\ Statep \in {"Stop", "PlayH", "Plays"}
  /\ half \in 0 .. Samples - 1 /\ bit \in 0 .. HalfBits - 1
  /\ PreLR \in (0 .. 1) \X (0 .. 1) /\ LRClk \in 0 .. 1 /\ phase \in 0 .. HalfBits - 1
  /\ stop_sign \in BOOLEAN /\ gap \in Nat

(* The ring is neither read past its last word nor filled past its target: *)
(* a word that is played has been written and not yet overwritten          *)
(* (I2S.sv:37, 94, 123; an address read past the last word would make the  *)
(* distance wrap to almost 2 * Ring).                                      *)
RingInBounds ==
  Statep # "Stop" => /\ Used <= Target + 1
                     /\ Statep = "Plays" => Used >= 1

(* A fill writes at most Target words after its first, and ends: addr_max  *)
(* is never behind sdram_addr, from where the test for equality            *)
(* (I2S.sv:134) would let the writer run through the whole SDRAM.          *)
FillsAreShort == State \in {"Init_data", "Init_data2", "Fill", "Fill2"} => Left <= Target

(* Both: what is between the two pointers stays within the ring, now and   *)
(* by the end of each fill (I2S.sv:37, 94-137).                            *)
RingKept == RingInBounds /\ FillsAreShort

(* The words are played in the order they have in the SDRAM, none twice    *)
(* and none left out.                                                      *)
InOrder ==
  [][Statep = "PlayH" /\ Statep' = "Plays" => tempdata' % (2 * Ring) = rdaddress]_vars

(* Once a change of LRClk has been seen, the bit stays in step with it, so *)
(* that the samples go out from the second cycle of a half frame on, and   *)
(* the odd samples stay on the same channel.                               *)
Aligned == bit = IF phase = 0 THEN HalfBits - 1 ELSE phase - 1

Position == LRClk * HalfBits + phase - 1

KeepsStep ==
  [][Aligned => \/ /\ Aligned'
                   /\ (half' * HalfBits + bit' - Position') % (2 * HalfBits)
                        = (half * HalfBits + bit - Position) % (2 * HalfBits)
                \/ bit' = 0 /\ half' = 0 /\ State' = "Halted"]_vars

(* After the song the writer is stopped and the reader falls silent, in    *)
(* whatever state the end of the song meets them (I2S.sv:117), and both    *)
(* stay so: only a reset, which takes stop_sign back, has them play again. *)
Silent == State = "Stoped" /\ Statep = "Stop"

FallsSilent ==
  /\ stop_sign ~> (Silent \/ ~stop_sign)
  /\ [][Silent => Silent' \/ ~stop_sign']_vars
=============================================================================
