----------------------------- MODULE JudgeProofs -----------------------------
(***************************************************************************)
(* Theorems about Judge, for every chart, any windows and any number of    *)
(* tracks.                                                                 *)
(***************************************************************************)
EXTENDS Judge, FiniteSetTheorems, WellFoundedInduction, TLAPS

Verdicts == {None, Perfect, Good, Miss}

(* Every verdict is one of the four.                                       *)
LEMMA VerdictType == \A t \in Tracks : Verdict(t) \in Verdicts
  BY DEF Verdicts, Verdict, ManualVerdict, ReleaseVerdict, PressVerdict, AutoVerdict

LEMMA WorstType == Worst \in Verdicts
  BY DEF Worst, Verdicts

(* The points and the perfects of a frame are natural numbers.             *)
LEMMA JudgedFinite ==
  \A v : IsFiniteSet(Judged(v)) /\ Cardinality(Judged(v)) \in Nat
  BY ChartAssumption, FS_Subset, FS_CardinalityType DEF Judged

LEMMA PointsType == Score \in Nat /\ Combo \in Nat
<1>1. \A v : IsFiniteSet(Judged(v))
  BY ChartAssumption, FS_Subset DEF Judged
<1>2. \A v : Cardinality(Judged(v)) \in Nat
  BY <1>1, FS_CardinalityType
<1>3. QED  BY <1>2 DEF Score, Combo

(* The registers' moduli, kept as names: the numbers are large.            *)
LEMMA WrapType == ScoreWrap \in Nat \ {0} /\ ComboWrap \in Nat \ {0}
  BY WindowAssumption, SMT DEF ComboWrap

(* What is kept modulo a register's size is kept, if it fits.              *)
LEMMA Fits == ASSUME NEW n \in Nat, NEW m \in Nat, n < m  PROVE n % m = n
  BY SMT

-----------------------------------------------------------------------------
(* A frame keeps every register in its type.  The conjunct about addr and  *)
(* those about un_time need the rest of the invariant only for the timer,  *)
(* which never counts past EndTime.                                        *)
TimeOK == timer = "run" => un_time < EndTime

LEMMA FrameType ==
  ASSUME TypeOK, TimeOK, NEW keys \in KeySets, Frame(keys)
  PROVE  TypeOK' /\ TimeOK'
<1> USE WindowAssumption, ChartAssumption DEF TypeOK, TimeOK
<1>1. phase' \in Phases
  BY DEF Frame, NextPhase, Phases
<1>2. /\ frames' \in 0 .. LoadFrames
      /\ keyboard_start' \in BOOLEAN
  BY DEF Frame, Smaller
<1>3. /\ timer' \in {"Halted", "run", "Done"}
      /\ un_time' \in 0 .. DoneTime
      /\ TimeOK'
  <2>1. CASE timer = "Halted"  BY <2>1 DEF Frame, NextTime
  <2>2. CASE timer = "run"     BY <2>2 DEF Frame, NextTime
  <2>3. CASE timer = "Done"    BY <2>3 DEF Frame, NextTime
  <2>4. QED  BY <2>1, <2>2, <2>3
<1>4. auto' \in BOOLEAN /\ untimely' \in BOOLEAN /\ DFJK' \subseteq Tracks
  BY DEF Frame, NextKeys
<1>5. DFJK_prestate' \in (SUBSET Tracks) \X (SUBSET Tracks)
  BY DEF Frame, NextKeys
<1>6. hold_DFJK' \in [Tracks -> 0 .. HoldTime]
  <2>1. \A t \in Tracks : HoldCount(t) \in 0 .. HoldTime
    BY DEF HoldCount
  <2>2. \A t \in Tracks : (IF HoldCount(t) > 0 THEN HoldCount(t) - 1 ELSE 0) \in 0 .. HoldTime
    BY <2>1
  <2>3. hold_DFJK' = [t \in Tracks |-> IF HoldCount(t) > 0 THEN HoldCount(t) - 1 ELSE 0]
    BY DEF Frame, NextKeys
  <2>4. QED
    <3> HIDE DEF TypeOK
    <3>1. QED  BY <2>2, <2>3
<1>7. addr' \in [Tracks -> 0 .. MaxAddr]
  <2>1. \A t \in Tracks : (addr[t] + 1) % (MaxAddr + 1) \in 0 .. MaxAddr
    BY SMTT(20)
  <2>2. QED  BY <2>1 DEF Frame, NextAddr
<1>8. /\ precises' \in Verdicts
      /\ precise_flash_time' \in 0 .. DoneTime
  BY WorstType DEF Frame, NextFlash, Verdicts
<1>9. /\ score_now' \in 0 .. ScoreWrap - 1
      /\ combo_now' \in 0 .. ComboWrap - 1
      /\ streak' \in Nat /\ perfects' \in Nat /\ goods' \in Nat
  <2>1. score_now \in Nat /\ combo_now \in Nat
    BY WrapType
  <2>2. score_now' \in 0 .. ScoreWrap - 1
    BY <2>1, PointsType, WrapType, SMT DEF Frame, NextScore
  <2>3. combo_now' \in 0 .. ComboWrap - 1
    BY <2>1, PointsType, WrapType, SMT DEF Frame, NextScore
  <2>4. streak' \in Nat /\ perfects' \in Nat /\ goods' \in Nat
    BY PointsType, JudgedFinite DEF Frame, NextTally
  <2>5. QED  BY <2>2, <2>3, <2>4
<1>10. QED
  BY <1>1, <1>2, <1>3, <1>4, <1>5, <1>6, <1>7, <1>8, <1>9 DEF Verdicts

LEMMA ZeroTypes ==
  /\ 0 \in 0 .. LoadFrames /\ 0 \in 0 .. DoneTime /\ 0 \in 0 .. HoldTime
  /\ 0 \in 0 .. MaxAddr /\ 0 \in 0 .. ScoreWrap - 1 /\ 0 \in 0 .. ComboWrap - 1
  BY WrapType, WindowAssumption

LEMMA TypeInit == Init => TypeOK /\ TimeOK
<1> SUFFICES ASSUME Init  PROVE TypeOK /\ TimeOK
  OBVIOUS
<1>1. /\ hold_DFJK \in [Tracks -> 0 .. HoldTime]
      /\ addr \in [Tracks -> 0 .. MaxAddr]
      /\ DFJK_prestate \in (SUBSET Tracks) \X (SUBSET Tracks)
  BY ZeroTypes DEF Init
<1>2. /\ phase \in Phases /\ keyboard_start \in BOOLEAN /\ auto \in BOOLEAN
      /\ timer \in {"Halted", "run", "Done"} /\ TimeOK
  BY DEF Init, Phases, TimeOK
<1>3. QED  BY ZeroTypes, <1>1, <1>2 DEF Init, TypeOK

(* So does what happens between frames.                                    *)
LEMMA OtherType ==
  ASSUME TypeOK, TimeOK, LoadDone \/ PressEnter \/ UnlockAuto \/ Reset
  PROVE  TypeOK' /\ TimeOK'
<1>1. CASE LoadDone
  BY <1>1 DEF LoadDone, TypeOK, TimeOK, Phases, inputs, results, tally
<1>2. CASE PressEnter
  BY <1>2 DEF PressEnter, TypeOK, TimeOK, inputs, results, tally
<1>3. CASE UnlockAuto
  BY <1>3 DEF UnlockAuto, TypeOK, TimeOK, results, tally, clocks
<1>4. CASE Reset
  BY <1>4, ZeroTypes DEF Reset, TypeOK, TimeOK, Phases
<1>5. QED  BY <1>1, <1>2, <1>3, <1>4

(* Every register of the judge holds a value of its width and use.         *)
THEOREM JudgeTypeOK == Spec => []TypeOK
<1>1. TypeOK /\ TimeOK /\ [Next]_vars => TypeOK' /\ TimeOK'
  <2> SUFFICES ASSUME TypeOK, TimeOK, [Next]_vars  PROVE TypeOK' /\ TimeOK'
    OBVIOUS
  <2>1. ASSUME NEW keys \in KeySets, Frame(keys)  PROVE TypeOK' /\ TimeOK'
    BY <2>1, FrameType
  <2>2. CASE UNCHANGED vars
    BY <2>2 DEF vars, inputs, results, tally, clocks, TypeOK, TimeOK
  <2>3. QED  BY <2>1, <2>2, OtherType DEF Next
<1>2. QED  BY <1>1, TypeInit, PTL DEF Spec
-----------------------------------------------------------------------------
(***************************************************************************)
(* No note is passed.  NoNotePassed is not inductive: that the song starts *)
(* with every pointer on its first note follows from how the padding is    *)
(* consumed while the card loads, one note a frame from the second frame   *)
(* after reset (in the first, un_time is whatever the last song left); and *)
(* that no note is left behind while it runs needs, in auto mode, that     *)
(* every pending note is AutoLead ahead.  All of it is lost when auto mode *)
(* is switched on at a wrong time, and found again with a reset: Inv.      *)
(***************************************************************************)
Booting == phase \in {"Bootup", "Loading"}

BootInv ==
  /\ timer = "Halted" <=> phase # "Playing"
  /\ Booting => ~auto
  /\ ~Booting => frames > 0
  /\ timer = "Halted" /\ frames > 0 => un_time = 0
  /\ \A t \in Tracks :
       /\ timer = "Halted" => addr[t] <= First[t]
       /\ frames = 0 => addr[t] = 0
       /\ Booting => frames <= addr[t] + 1 \/ addr[t] = First[t]
       /\ ~Booting => First[t] <= addr[t]

SongInv ==
  \A t \in Tracks :
    /\ addr[t] <= Last[t]
    /\ timer = "run" => /\ un_time <= Note(t).time
                        /\ auto => un_time + AutoLead <= Note(t).time
    /\ timer = "Done" => EndTime <= un_time /\ addr[t] = Last[t]

IInv == TypeOK /\ TimeOK /\ BootInv /\ SongInv

Inv == TypeOK /\ TimeOK /\ (~untimely => IInv)

(* A marker is never judged.                                               *)
LEMMA MarkerStays ==
  ASSUME TypeOK, NEW t \in Tracks, addr[t] = Last[t]  PROVE Verdict(t) = None
<1>1. Note(t).kind = TapNote /\ DoneTime + MissWindow < Note(t).time /\ Note(t).time \in Nat
  <2>1. Last[t] \in Last[t] .. MaxAddr /\ Last[t] \in 0 .. MaxAddr
    BY ChartAssumption, WindowAssumption
  <2>2. QED  BY <2>1, ChartAssumption DEF Note
<1>2. QED
  BY <1>1, WindowAssumption DEF TypeOK, Verdict, ManualVerdict, PressVerdict,
     AutoVerdict, Within, TapNote, ReleaseNote

(* The first note is not judged while the time is 0.                       *)
LEMMA FirstStays ==
  ASSUME TypeOK, NEW t \in Tracks, addr[t] = First[t], un_time = 0
  PROVE  Verdict(t) = None
<1>1. Note(t).kind # ReleaseNote /\ MissWindow < Note(t).time /\ Note(t).time \in Nat
  <2>1. First[t] \in First[t] .. Last[t] - 1 /\ First[t] \in 0 .. MaxAddr
    BY ChartAssumption, WindowAssumption
  <2>2. QED  BY <2>1, ChartAssumption DEF Note
<1>2. QED
  BY <1>1, WindowAssumption DEF Verdict, ManualVerdict, PressVerdict, AutoVerdict, Within

(* Without auto mode a padding note is judged in every frame of time 0.    *)
LEMMA PaddingGoes ==
  ASSUME TypeOK, NEW t \in Tracks, addr[t] < First[t], un_time = 0, ~auto
  PROVE  Verdict(t) # None
<1>1. Note(t).kind = TapNote /\ Note(t).time = un_time
  <2>1. addr[t] \in 0 .. MaxAddr /\ First[t] \in 1 .. MaxAddr
    BY ChartAssumption DEF TypeOK
  <2>2. addr[t] \in 0 .. First[t] - 1
    BY <2>1
  <2>3. Chart[t][addr[t]] = [kind |-> TapNote, time |-> 0]
    BY <2>2, ChartAssumption
  <2>4. QED  BY <2>3 DEF Note
<1>2. ManualVerdict(t) # None
  BY <1>1 DEF ManualVerdict, Miss, None, TapNote, ReleaseNote
<1>3. QED  BY <1>2 DEF Verdict

(* A pointer moves by one, and only when its note is judged.               *)
LEMMA PointerStep ==
  ASSUME TypeOK, NEW t \in Tracks, addr[t] <= Last[t], NextAddr
  PROVE  /\ Verdict(t) = None => addr'[t] = addr[t]
         /\ Verdict(t) # None => addr'[t] = addr[t] + 1 /\ addr[t] < Last[t]
<1>1. CASE Verdict(t) = None
  BY <1>1 DEF NextAddr
<1>2. CASE Verdict(t) # None
  <2>1. addr[t] < Last[t]
    BY <1>2, MarkerStays, ChartAssumption DEF TypeOK
  <2>2. addr[t] + 1 \in 0 .. MaxAddr /\ MaxAddr \in Nat
    BY <2>1, ChartAssumption, WindowAssumption DEF TypeOK
  <2>3. (addr[t] + 1) % (MaxAddr + 1) = addr[t] + 1
    BY <2>2, SMT
  <2>4. QED  BY <1>2, <2>1, <2>3 DEF NextAddr
<1>3. QED  BY <1>1, <1>2

(* What the pointers do while the timer is halted.                         *)
LEMMA BootFrame ==
  ASSUME IInv, NEW keys \in KeySets, Frame(keys)
  PROVE  BootInv'
<1> USE WindowAssumption
<1>1. /\ timer' = "Halted" <=> phase' # "Playing"
      /\ Booting' <=> Booting
      /\ Booting' => ~auto'
      /\ frames' > 0
      /\ timer' = "Halted" => un_time' = 0
  <2>1. timer' = "Halted" <=> phase' # "Playing"
    BY DEF IInv, BootInv, TypeOK, Frame, NextPhase, NextTime
  <2>2. (Booting' <=> Booting) /\ (Booting' => ~auto')
    BY DEF IInv, BootInv, Booting, Frame, NextPhase, NextKeys
  <2>3. frames' > 0
    BY DEF IInv, TypeOK, Frame, Smaller
  <2>4. timer' = "Halted" => un_time' = 0
    BY DEF Frame, NextTime
  <2>5. QED  BY <2>1, <2>2, <2>3, <2>4
<1>2. ASSUME NEW t \in Tracks
      PROVE  /\ timer' = "Halted" => addr'[t] <= First[t]
             /\ Booting' => frames' <= addr'[t] + 1 \/ addr'[t] = First[t]
             /\ ~Booting' => First[t] <= addr'[t]
  <2> USE <1>2
  <2>1. /\ addr[t] \in 0 .. MaxAddr /\ First[t] \in 1 .. MaxAddr
        /\ addr'[t] \in {addr[t], addr[t] + 1}
    BY PointerStep, ChartAssumption DEF IInv, SongInv, TypeOK, Frame
  <2>2. CASE timer = "Halted" /\ frames = 0
    BY <2>1, <2>2, <1>1 DEF IInv, BootInv, Frame, Smaller
  <2>3. CASE timer = "Halted" /\ frames > 0
    <3>1. addr[t] <= First[t] /\ un_time = 0
      BY <2>3 DEF IInv, BootInv
    <3>2. CASE addr[t] = First[t]
      <4>1. addr'[t] = addr[t]
        BY <3>1, <3>2, FirstStays, PointerStep DEF IInv, SongInv, Frame
      <4>2. QED  BY <4>1, <3>2, <2>1
    <3>3. CASE addr[t] < First[t]
      <4>1. Booting /\ ~auto
        BY <2>1, <3>3 DEF IInv, BootInv
      <4>2. addr'[t] = addr[t] + 1
        BY <3>1, <3>3, <4>1, PaddingGoes, PointerStep DEF IInv, SongInv, Frame
      <4>3. frames <= addr[t] + 1
        BY <4>1, <3>3, <2>1 DEF IInv, BootInv
      <4>4. frames' <= frames + 1 /\ frames \in Nat /\ frames' \in Nat
        BY WindowAssumption DEF Frame, Smaller, IInv, TypeOK
      <4>5. addr'[t] <= First[t] /\ frames' <= addr'[t] + 1
        <5>1. addr[t] \in Int /\ First[t] \in Int  BY <2>1
        <5>2. addr[t] + 1 <= First[t]  BY <5>1, <3>3
        <5>3. frames' <= addr[t] + 1 + 1  BY <5>1, <4>3, <4>4
        <5>4. QED  BY <4>2, <5>2, <5>3
      <4>6. QED  BY <4>1, <4>5, <1>1
    <3>4. QED  BY <3>1, <3>2, <3>3, <2>1
  <2>4. CASE timer # "Halted"
    <3>1. ~Booting /\ timer' # "Halted"
      BY <2>4 DEF IInv, BootInv, Booting, TypeOK, Frame, NextTime
    <3>2. QED  BY <3>1, <2>1, <1>1 DEF IInv, BootInv
  <2>5. QED  BY <2>2, <2>3, <2>4 DEF IInv, TypeOK
<1>3. QED  BY <1>1, <1>2, FrameType DEF BootInv, IInv, TypeOK

(* What the pointers do while the song runs.                               *)
LEMMA SongFrame ==
  ASSUME IInv, BootInv', NEW keys \in KeySets, Frame(keys)
  PROVE  SongInv'
<1> SUFFICES ASSUME NEW t \in Tracks
             PROVE  /\ addr'[t] <= Last[t]
                    /\ timer' = "run" => /\ un_time' <= Note(t)'.time
                                         /\ auto' => un_time' + AutoLead <= Note(t)'.time
                    /\ timer' = "Done" => EndTime <= un_time' /\ addr'[t] = Last[t]
  BY DEF SongInv
<1>1. /\ First[t] \in 1 .. MaxAddr /\ Last[t] \in 1 .. MaxAddr
      /\ addr[t] \in 0 .. Last[t]
      /\ First[t] < Last[t]
      /\ un_time \in Nat /\ auto \in BOOLEAN
      /\ {MaxAddr, MissWindow, AutoLead, EndTime, DoneTime} \subseteq Nat
      /\ AutoLead < MissWindow /\ EndTime < DoneTime
      /\ auto' = auto
  BY WindowAssumption, ChartAssumption DEF IInv, TypeOK, SongInv, Frame, NextKeys
<1>2. /\ Verdict(t) = None => addr'[t] = addr[t]
      /\ Verdict(t) # None => addr'[t] = addr[t] + 1 /\ addr[t] < Last[t]
  BY PointerStep DEF IInv, SongInv, Frame
<1>3. addr'[t] \in 0 .. Last[t]
  BY <1>1, <1>2
<1>4. Note(t)'.time \in Nat /\ Note(t).time \in Nat
  <2>1. addr[t] \in 0 .. MaxAddr /\ addr'[t] \in 0 .. MaxAddr
    BY <1>1, <1>3
  <2>2. QED  BY <2>1, ChartAssumption DEF Note
<1>5. ASSUME First[t] <= addr'[t], addr'[t] < Last[t]
      PROVE  MissWindow < Note(t)'.time /\ Note(t)'.time < EndTime
  <2>1. addr'[t] \in First[t] .. Last[t] - 1
    BY <1>1, <1>3, <1>5
  <2>2. QED  BY <2>1, ChartAssumption DEF Note
<1>6. addr'[t] = Last[t] => DoneTime + MissWindow < Note(t)'.time
  <2>1. Last[t] \in Last[t] .. MaxAddr
    BY <1>1
  <2>2. QED  BY <2>1, ChartAssumption DEF Note
<1>7. CASE timer = "Halted"
  <2>1. timer' # "Done"
    BY <1>7 DEF Frame, NextTime
  <2>2. ASSUME timer' = "run"
        PROVE  First[t] <= addr'[t] /\ un_time' = 0
    BY <1>7, <2>2 DEF BootInv, Booting, Frame, NextTime
  <2>3. ASSUME timer' = "run"
        PROVE  MissWindow < Note(t)'.time
    <3>1. CASE addr'[t] < Last[t]  BY <2>2, <2>3, <1>5, <3>1
    <3>2. CASE addr'[t] = Last[t]  BY <1>1, <1>4, <1>6, <3>2
    <3>3. QED  BY <3>1, <3>2, <1>1, <1>3
  <2>4. QED  BY <1>1, <1>3, <1>4, <2>1, <2>2, <2>3
<1>8. CASE timer = "run"
  <2>1. /\ un_time' = un_time + 1 /\ un_time < EndTime
        /\ timer' = IF un_time' = EndTime THEN "Done" ELSE "run"
        /\ un_time <= Note(t).time
        /\ auto => un_time + AutoLead <= Note(t).time
        /\ First[t] <= addr[t]
        /\ auto \in BOOLEAN
    BY <1>8 DEF IInv, TypeOK, TimeOK, SongInv, BootInv, Booting, Frame, NextTime
  <2>2. CASE Verdict(t) = None
    <3>1. Note(t)'.time = Note(t).time
      BY <1>2, <2>2 DEF Note
    <3>2. IF auto THEN Note(t).time # un_time + AutoLead ELSE Note(t).time # un_time
      BY <2>2 DEF Verdict, AutoVerdict, ManualVerdict, Perfect, Miss, None
    <3>3. /\ un_time' <= Note(t)'.time
          /\ auto' => un_time' + AutoLead <= Note(t)'.time
      <4>1. CASE auto   BY <4>1, <1>1, <1>4, <2>1, <3>1, <3>2
      <4>2. CASE ~auto  BY <4>2, <1>1, <1>4, <2>1, <3>1, <3>2
      <4>3. QED  BY <4>1, <4>2
    <3>4. un_time' = EndTime => addr'[t] = Last[t]
      <4> SUFFICES ASSUME un_time' = EndTime, addr'[t] # Last[t]  PROVE FALSE
        OBVIOUS
      <4>1. First[t] <= addr'[t] /\ addr'[t] < Last[t]
        BY <1>1, <1>2, <1>3, <2>1, <2>2
      <4>2. QED  BY <4>1, <1>1, <1>4, <1>5, <3>3
    <3>5. timer' = "Done" => un_time' = EndTime /\ EndTime <= un_time'
      BY <1>1, <2>1
    <3>6. addr'[t] <= Last[t]
      BY <1>1, <1>3
    <3>7. QED  BY <3>3, <3>4, <3>5, <3>6
  <2>3. CASE Verdict(t) # None
    <3>1. addr[t] \in First[t] .. Last[t] - 1 /\ addr'[t] = addr[t] + 1
      BY <1>1, <1>2, <2>1, <2>3
    <3>2. Note(t).time < Note(t)'.time
      BY <3>1, ChartAssumption DEF Note
    <3>3. /\ un_time' <= Note(t)'.time
          /\ auto' => un_time' + AutoLead <= Note(t)'.time
      <4>1. CASE auto   BY <4>1, <1>1, <1>4, <2>1, <3>2
      <4>2. CASE ~auto  BY <4>2, <1>1, <1>4, <2>1, <3>2
      <4>3. QED  BY <4>1, <4>2
    <3>4. un_time' = EndTime => addr'[t] = Last[t]
      <4> SUFFICES ASSUME un_time' = EndTime, addr'[t] # Last[t]  PROVE FALSE
        OBVIOUS
      <4>1. First[t] <= addr'[t] /\ addr'[t] < Last[t]
        BY <1>1, <1>3, <3>1
      <4>2. QED  BY <4>1, <1>1, <1>4, <1>5, <3>3
    <3>5. timer' = "Done" => un_time' = EndTime /\ EndTime <= un_time'
      BY <1>1, <2>1
    <3>6. addr'[t] <= Last[t]
      BY <1>1, <1>3
    <3>7. QED  BY <3>3, <3>4, <3>5, <3>6
  <2>4. QED  BY <2>2, <2>3
<1>9. CASE timer = "Done"
  <2>1. timer' = "Done" /\ un_time' = DoneTime /\ addr[t] = Last[t]
    BY <1>9 DEF IInv, SongInv, Frame, NextTime
  <2>2. addr'[t] = Last[t]
    BY <1>1, <1>2, <2>1
  <2>3. QED  BY <2>1, <2>2, <1>1
<1>10. QED  BY <1>7, <1>8, <1>9 DEF IInv, TypeOK

(* A reset begins again, whatever was before.                              *)
LEMMA IInvReset == ASSUME TypeOK, TimeOK, Reset  PROVE IInv'
<1>1. /\ phase' = "Bootup" /\ timer' = "Halted" /\ auto' = FALSE /\ frames' = 0
      /\ \A t \in Tracks : addr'[t] = 0
  BY DEF Reset
<1>2. \A t \in Tracks : 0 <= First[t] /\ 0 <= Last[t]
  BY ChartAssumption
<1>3. BootInv'
  BY <1>1, <1>2 DEF BootInv, Booting
<1>4. SongInv'
  BY <1>1, <1>2 DEF SongInv
<1>5. QED  BY <1>3, <1>4, OtherType DEF IInv

(* The invariant is inductive unless auto mode is switched on untimely.    *)
LEMMA IInvStep ==
  ASSUME IInv, [Next]_vars, ~untimely'  PROVE IInv'
<1>0. TypeOK' /\ TimeOK'
  <2>1. ASSUME NEW keys \in KeySets, Frame(keys)  PROVE TypeOK' /\ TimeOK'
    BY <2>1, FrameType DEF IInv
  <2>2. CASE UNCHANGED vars
    BY <2>2 DEF vars, inputs, results, tally, clocks, TypeOK, TimeOK, IInv
  <2>3. QED  BY <2>1, <2>2, OtherType DEF IInv, Next
<1>1. ASSUME NEW keys \in KeySets, Frame(keys)  PROVE IInv'
  BY <1>0, <1>1, BootFrame, SongFrame DEF IInv
<1>2. CASE LoadDone
  <2>1. /\ phase = "Loading" /\ phase' = "Loaded" /\ frames = LoadFrames
        /\ UNCHANGED <<addr, timer, auto, un_time, frames>>
    BY <1>2 DEF LoadDone, inputs, results, tally
  <2>2. \A t \in Tracks : First[t] <= addr[t]
    <3> SUFFICES ASSUME NEW t \in Tracks  PROVE First[t] <= addr[t]
      OBVIOUS
    <3>1. LoadFrames <= addr[t] + 1 \/ addr[t] = First[t]
      BY <2>1 DEF IInv, BootInv, Booting
    <3>2. /\ First[t] \in 1 .. MaxAddr /\ addr[t] \in 0 .. MaxAddr
          /\ First[t] < LoadFrames
      BY ChartAssumption DEF IInv, TypeOK
    <3>3. QED  BY <3>1, <3>2, WindowAssumption
  <2>3. BootInv'
    BY <2>1, <2>2, WindowAssumption DEF IInv, BootInv, Booting
  <2>4. SongInv'
    BY <2>1 DEF IInv, SongInv, Note
  <2>5. QED  BY <1>0, <2>3, <2>4 DEF IInv
<1>3. CASE PressEnter
  BY <1>0, <1>3 DEF PressEnter, inputs, results, tally, IInv, BootInv, Booting, SongInv, Note
<1>4. CASE UnlockAuto
  <2>1. /\ phase \in {"Loaded", "StartScreen"} /\ timer = "Halted"
        /\ UNCHANGED <<addr, timer, un_time, frames, phase>>
    BY <1>4 DEF UnlockAuto, clocks, results, tally
  <2>2. BootInv'
    BY <2>1 DEF IInv, BootInv, Booting
  <2>3. SongInv'
    BY <2>1 DEF IInv, SongInv, Note
  <2>4. QED  BY <1>0, <2>2, <2>3 DEF IInv
<1>5. CASE Reset
  BY <1>5, IInvReset DEF IInv
<1>6. CASE UNCHANGED vars
  BY <1>0, <1>6 DEF vars, inputs, results, tally, clocks, IInv, BootInv, Booting, SongInv, Note
<1>7. QED  BY <1>1, <1>2, <1>3, <1>4, <1>5, <1>6 DEF Next

LEMMA IInvInit == Init => IInv
<1> SUFFICES ASSUME Init  PROVE IInv
  OBVIOUS
<1>1. \A t \in Tracks : 0 <= First[t] /\ 0 <= Last[t]
  BY ChartAssumption
<1>2. BootInv /\ SongInv
  BY <1>1 DEF Init, BootInv, Booting, SongInv
<1>3. QED  BY <1>2, TypeInit DEF IInv

LEMMA InvAlways == Spec => []Inv
<1>1. Init => Inv
  BY IInvInit DEF Inv, IInv
<1>2. ASSUME Inv, [Next]_vars  PROVE Inv'
  <2>1. TypeOK' /\ TimeOK'
    <3>1. ASSUME NEW keys \in KeySets, Frame(keys)  PROVE TypeOK' /\ TimeOK'
      BY <1>2, <3>1, FrameType DEF Inv
    <3>2. CASE UNCHANGED vars
      BY <1>2, <3>2 DEF vars, inputs, results, tally, clocks, TypeOK, TimeOK, Inv
    <3>3. QED  BY <1>2, <3>1, <3>2, OtherType DEF Inv, Next
  <2>2. ASSUME ~untimely'  PROVE IInv'
    <3>1. CASE Reset
      BY <1>2, <3>1, IInvReset DEF Inv
    <3>2. CASE ~Reset
      <4>1. ~untimely
        BY <1>2, <2>2, <3>2
           DEF Next, vars, inputs, Frame, NextKeys, LoadDone, PressEnter, UnlockAuto
      <4>2. QED  BY <1>2, <2>2, <4>1, IInvStep DEF Inv
    <3>3. QED  BY <3>1, <3>2
  <2>3. QED  BY <2>1, <2>2 DEF Inv
<1>3. QED  BY <1>1, <1>2, PTL DEF Spec

(* No pointer ever waits at a note whose time has passed, unless auto mode *)
(* was switched on at the wrong time (DrawSprites.sv:250, 350).            *)
THEOREM NoNotePassedTheorem == Spec => []NoNotePassed
<1>1. Inv => NoNotePassed
  <2> SUFFICES ASSUME IInv, timer # "Halted", NEW t \in Tracks
               PROVE  un_time <= Note(t).time
    BY DEF Inv, NoNotePassed
  <2>1. CASE timer = "run"
    BY <2>1 DEF IInv, SongInv
  <2>2. CASE timer = "Done"
    <3>1. Last[t] \in Last[t] .. MaxAddr /\ Last[t] \in 0 .. MaxAddr
      BY ChartAssumption, WindowAssumption
    <3>2. DoneTime + MissWindow < Note(t).time /\ Note(t).time \in Nat
      BY <2>2, <3>1, ChartAssumption DEF IInv, SongInv, Note
    <3>3. QED  BY <3>2, WindowAssumption DEF IInv, TypeOK
  <2>3. QED  BY <2>1, <2>2 DEF IInv, TypeOK
<1>2. QED  BY <1>1, InvAlways, PTL

(* A finished song has judged every listed note.                           *)
THEOREM AllJudgedAtEndTheorem == Spec => []AllJudgedAtEnd
<1>1. Inv => AllJudgedAtEnd
  BY ChartAssumption DEF Inv, IInv, TypeOK, SongInv, AllJudgedAtEnd
<1>2. QED  BY <1>1, InvAlways, PTL

(* No pointer leaves the chart.                                            *)
THEOREM PointerInChartTheorem == Spec => []PointerInChart
<1>1. Init => PointerInChart
  BY ChartAssumption DEF Init, PointerInChart
<1>2. TypeOK /\ PointerInChart /\ [Next]_vars => PointerInChart'
  <2> SUFFICES ASSUME TypeOK, PointerInChart, [Next]_vars, NEW t \in Tracks
               PROVE  addr'[t] <= Last[t]
    BY DEF PointerInChart
  <2>1. ASSUME NEW keys \in KeySets, Frame(keys)  PROVE addr'[t] <= Last[t]
    <3>1. addr[t] \in 0 .. MaxAddr /\ Last[t] \in 1 .. MaxAddr /\ addr[t] <= Last[t]
      BY ChartAssumption DEF TypeOK, PointerInChart
    <3>2. QED  BY <2>1, <3>1, PointerStep, WindowAssumption DEF Frame
  <2>2. CASE Reset
    BY <2>2, ChartAssumption DEF Reset
  <2>3. CASE UNCHANGED addr
    BY <2>3 DEF PointerInChart
  <2>4. QED
    BY <2>1, <2>2, <2>3 DEF Next, LoadDone, PressEnter, UnlockAuto, vars, results, tally
<1>3. QED  BY <1>1, <1>2, JudgeTypeOK, PTL DEF Spec

(* The combo counts no perfect from before the break on display.           *)
THEOREM ComboHonestTheorem == Spec => []ComboHonest
<1>1. Init => ComboHonest
  BY DEF Init, ComboHonest
<1>2. TypeOK /\ ComboHonest /\ [Next]_vars => ComboHonest'
  <2> SUFFICES ASSUME TypeOK, ComboHonest, [Next]_vars, precises' \notin {Good, Miss}
               PROVE  combo_now' <= streak'
    BY DEF ComboHonest
  <2>1. ASSUME NEW keys \in KeySets, Frame(keys)  PROVE combo_now' <= streak'
    <3>1. combo_now \in Nat /\ streak \in Nat /\ Combo \in Nat
      BY PointsType, WrapType DEF TypeOK
    <3>2. streak' = streak + Combo
      <4>1. Worst \notin {Good, Miss}
        BY <2>1 DEF Frame, NextFlash, Good, Miss, None
      <4>2. QED  BY <2>1, <4>1 DEF Frame, NextTally
    <3>3. CASE precises \in {Good, Miss}
      BY <2>1, <3>1, <3>2, <3>3 DEF Frame, NextScore
    <3>4. CASE precises \notin {Good, Miss}
      <4>1. combo_now <= streak /\ combo_now' = (combo_now + Combo) % ComboWrap
        BY <2>1, <3>4 DEF ComboHonest, Frame, NextScore
      <4>2. (combo_now + Combo) % ComboWrap <= combo_now + Combo
        BY <3>1, SMT DEF ComboWrap
      <4>3. QED  BY <3>1, <3>2, <4>1, <4>2, WrapType
    <3>5. QED  BY <3>3, <3>4
  <2>2. CASE Reset
    BY <2>2 DEF Reset
  <2>3. CASE UNCHANGED <<precises, combo_now, streak>>
    BY <2>3 DEF ComboHonest
  <2>4. QED
    BY <2>1, <2>2, <2>3 DEF Next, LoadDone, PressEnter, UnlockAuto, vars, results, tally
<1>3. QED  BY <1>1, <1>2, JudgeTypeOK, PTL DEF Spec

(* While the timer is halted nothing scores: the padding is missed, and    *)
(* the first note is out of reach.                                         *)
StartInv ==
  ~untimely => /\ timer = "Halted" => score_now = 0
               /\ timer = "run" /\ un_time = 0 => addr = First /\ score_now = 0

LEMMA NothingScores ==
  ASSUME IInv, timer = "Halted", NEW t \in Tracks
  PROVE  Verdict(t) \in {None, Miss}
<1>1. addr[t] \in 0 .. First[t] /\ First[t] \in 1 .. MaxAddr /\ un_time \in Nat
  BY ChartAssumption DEF IInv, TypeOK, BootInv
<1>2. CASE addr[t] = First[t]
  <2>1. un_time = 0
    BY <1>1, <1>2 DEF IInv, BootInv, TypeOK
  <2>2. QED  BY <1>2, <2>1, FirstStays DEF IInv
<1>3. CASE addr[t] # First[t]
  <2>1. ~auto
    BY <1>1, <1>3 DEF IInv, BootInv
  <2>2. addr[t] \in 0 .. First[t] - 1
    BY <1>1, <1>3
  <2>3. Chart[t][addr[t]] = [kind |-> TapNote, time |-> 0]
    BY <2>2, ChartAssumption
  <2>4. Note(t).kind # ReleaseNote /\ Note(t).time = 0
    BY <2>3 DEF Note, TapNote, ReleaseNote
  <2>5. CASE un_time = 0
    BY <2>1, <2>4, <2>5 DEF Verdict, ManualVerdict
  <2>6. CASE un_time # 0
    <3>1. ~Within(t, MissWindow)
      BY <1>1, <2>4, <2>6 DEF Within
    <3>2. QED  BY <2>1, <2>4, <2>6, <3>1 DEF Verdict, ManualVerdict, PressVerdict
  <2>7. QED  BY <2>5, <2>6
<1>4. QED  BY <1>2, <1>3

LEMMA StartFrame ==
  ASSUME IInv, StartInv, ~untimely, NEW keys \in KeySets, Frame(keys)
  PROVE  StartInv'
<1>1. CASE timer = "Halted"
  <2>1. Judged(Perfect) = {} /\ Judged(Good) = {}
    BY <1>1, NothingScores DEF Judged, None, Perfect, Good, Miss
  <2>2. Score = 0
    BY <2>1, FS_EmptySet DEF Score
  <2>3. score_now' = 0
    BY <1>1, <2>2, Fits, WrapType DEF StartInv, Frame, NextScore
  <2>4. ASSUME timer' = "run"
        PROVE  addr' = First
    <3>1. ~Booting /\ frames > 0 /\ un_time = 0
      <4>1. phase' = "Playing" /\ phase # "Playing"
        BY <1>1, <2>4 DEF Frame, NextTime, IInv, BootInv
      <4>2. phase \in {"Loaded", "StartScreen"}
        BY <4>1 DEF Frame, NextPhase
      <4>3. QED  BY <1>1, <4>2 DEF Booting, IInv, BootInv
    <3>2. ASSUME NEW t \in Tracks
          PROVE  addr'[t] = First[t]
      <4>1. addr[t] = First[t]
        BY <1>1, <3>1, ChartAssumption DEF IInv, BootInv, TypeOK
      <4>2. addr[t] <= Last[t]
        BY DEF IInv, SongInv
      <4>3. QED  BY <3>1, <4>1, <4>2, FirstStays, PointerStep DEF IInv, Frame
    <3>3. addr' \in [Tracks -> 0 .. MaxAddr] /\ First \in [Tracks -> 1 .. MaxAddr]
      BY FrameType, ChartAssumption DEF IInv, TypeOK
    <3>4. QED  BY <3>2, <3>3
  <2>5. QED  BY <2>3, <2>4 DEF StartInv
<1>2. CASE timer # "Halted"
  <2>1. timer' # "Halted"
    BY <1>2 DEF Frame, NextTime
  <2>2. timer' = "run" => un_time' # 0
    BY <1>2 DEF Frame, NextTime, IInv, TypeOK
  <2>3. QED  BY <2>1, <2>2 DEF StartInv
<1>3. QED  BY <1>1, <1>2

LEMMA StartAlways == Spec => []StartInv
<1>1. Init => StartInv
  BY DEF Init, StartInv
<1>2. Inv /\ StartInv /\ [Next]_vars => StartInv'
  <2> SUFFICES ASSUME Inv, StartInv, [Next]_vars  PROVE StartInv'
    OBVIOUS
  <2>1. ASSUME NEW keys \in KeySets, Frame(keys)  PROVE StartInv'
    <3>1. CASE ~untimely
      BY <2>1, <3>1, StartFrame DEF Inv
    <3>2. CASE untimely
      BY <2>1, <3>2 DEF Frame, NextKeys, StartInv
    <3>3. QED  BY <3>1, <3>2
  <2>2. CASE Reset
    BY <2>2 DEF Reset, StartInv
  <2>3. CASE LoadDone \/ PressEnter \/ UnlockAuto \/ UNCHANGED vars
    BY <2>3 DEF LoadDone, PressEnter, UnlockAuto, vars, inputs, results, tally, clocks, StartInv
  <2>4. QED  BY <2>1, <2>2, <2>3 DEF Next
<1>3. QED  BY <1>1, <1>2, InvAlways, PTL DEF Spec

(* A song starts with every pointer at its track's first note and no       *)
(* points, unless auto mode was switched on at the wrong time              *)
(* (DrawSprites.sv:218-261, Draw_score_and_combo.sv).                      *)
THEOREM SongStartsAtFirstTheorem == Spec => []SongStartsAtFirst
<1>1. StartInv => SongStartsAtFirst
  BY DEF StartInv, SongStartsAtFirst
<1>2. QED  BY <1>1, StartAlways, PTL
-----------------------------------------------------------------------------
(* The notes behind the pointers, as a set: NotesJudged is their number.   *)
JudgedNotes == {p \in Tracks \X (0 .. MaxAddr) : First[p[1]] <= p[2] /\ p[2] < addr[p[1]]}
NotesOf(tracks) == {p \in JudgedNotes : p[1] \in tracks}

Behind(t) == IF addr[t] < First[t] THEN 0 ELSE addr[t] - First[t]

(* A function that adds a track's notes to those of the others, whichever  *)
(* track is taken first.                                                   *)
AddsUp(sum) ==
  sum = [s \in SUBSET Tracks |->
           IF s = {} THEN 0
           ELSE LET t == CHOOSE t \in s : TRUE IN Behind(t) + sum[s \ {t}]]

LEMMA JudgedNotesFinite == IsFiniteSet(JudgedNotes) /\ \A s : IsFiniteSet(NotesOf(s))
<1>1. IsFiniteSet(0 .. MaxAddr)
  BY FS_Interval, WindowAssumption
<1>2. IsFiniteSet(Tracks \X (0 .. MaxAddr))
  BY <1>1, FS_Product, ChartAssumption
<1>3. IsFiniteSet(JudgedNotes)
  BY <1>2, FS_Subset DEF JudgedNotes
<1>4. QED  BY <1>3, FS_Subset DEF NotesOf

LEMMA NotesOfOne ==
  ASSUME TypeOK, NEW t \in Tracks
  PROVE  Cardinality(NotesOf({t})) = Behind(t)
<1>1. addr[t] \in 0 .. MaxAddr /\ First[t] \in 1 .. MaxAddr /\ MaxAddr \in Nat
  BY ChartAssumption, WindowAssumption DEF TypeOK
<1>2. NotesOf({t}) = {t} \X (First[t] .. addr[t] - 1)
  <2>1. ASSUME NEW p \in NotesOf({t})  PROVE p \in {t} \X (First[t] .. addr[t] - 1)
    BY <1>1, <2>1 DEF NotesOf, JudgedNotes
  <2>2. ASSUME NEW p \in {t} \X (First[t] .. addr[t] - 1)  PROVE p \in NotesOf({t})
    <3>1. p \in Tracks \X (0 .. MaxAddr) /\ p[1] = t /\ First[t] <= p[2] /\ p[2] < addr[t]
      BY <1>1, <2>2
    <3>2. QED  BY <3>1 DEF NotesOf, JudgedNotes
  <2>3. QED  BY <2>1, <2>2
<1>3. /\ IsFiniteSet({t}) /\ Cardinality({t}) = 1
      /\ IsFiniteSet(First[t] .. addr[t] - 1)
      /\ Cardinality(First[t] .. addr[t] - 1) = IF First[t] > addr[t] - 1 THEN 0 ELSE addr[t] - 1 - First[t] + 1
  <2>1. First[t] \in Int /\ addr[t] - 1 \in Int
    BY <1>1
  <2>2. QED  BY <2>1, FS_Singleton, FS_Interval
<1>4. Cardinality(NotesOf({t})) = 1 * Cardinality(First[t] .. addr[t] - 1)
  BY <1>2, <1>3, FS_Product
<1>5. Cardinality(First[t] .. addr[t] - 1) = Behind(t)
  <2>1. CASE addr[t] < First[t]
    BY <1>1, <1>3, <2>1 DEF Behind
  <2>2. CASE ~(addr[t] < First[t])
    <3>1. ~(First[t] > addr[t] - 1) \/ addr[t] = First[t]
      BY <1>1, <2>2
    <3>2. QED  BY <1>1, <1>3, <2>2, <3>1 DEF Behind
  <2>3. QED  BY <2>1, <2>2
<1>6. Behind(t) \in Nat
  BY <1>1 DEF Behind
<1>7. QED  BY <1>4, <1>5, <1>6

LEMMA NotesAddUp ==
  ASSUME TypeOK, NEW s \in SUBSET Tracks, NEW t \in s
  PROVE  Cardinality(NotesOf(s)) = Behind(t) + Cardinality(NotesOf(s \ {t}))
<1>1. NotesOf(s) = NotesOf({t}) \cup NotesOf(s \ {t}) /\ NotesOf({t}) \cap NotesOf(s \ {t}) = {}
  BY DEF NotesOf
<1>2. Cardinality(NotesOf(s)) = Cardinality(NotesOf({t})) + Cardinality(NotesOf(s \ {t})) - Cardinality({})
  BY <1>1, JudgedNotesFinite, FS_Union
<1>3. Cardinality(NotesOf({t})) \in Nat /\ Cardinality(NotesOf(s \ {t})) \in Nat /\ Cardinality({}) = 0
  BY JudgedNotesFinite, FS_CardinalityType, FS_EmptySet
<1>4. QED  BY <1>2, <1>3, NotesOfOne

LEMMA CountAddsUp ==
  ASSUME TypeOK
  PROVE  AddsUp([s \in SUBSET Tracks |-> Cardinality(NotesOf(s))])
<1> DEFINE count == [s \in SUBSET Tracks |-> Cardinality(NotesOf(s))]
<1>1. ASSUME NEW s \in SUBSET Tracks, s = {}  PROVE Cardinality(NotesOf(s)) = 0
  BY <1>1, FS_EmptySet DEF NotesOf
<1>2. ASSUME NEW s \in SUBSET Tracks, s # {}, NEW t, t = CHOOSE u \in s : TRUE
      PROVE  Cardinality(NotesOf(s)) = Behind(t) + count[s \ {t}]
  <2>1. t \in s
    BY <1>2
  <2>2. count[s \ {t}] = Cardinality(NotesOf(s \ {t}))
    OBVIOUS
  <2>3. QED  BY <2>1, <2>2, NotesAddUp
<1>3. ASSUME NEW s \in SUBSET Tracks
      PROVE  Cardinality(NotesOf(s)) =
               IF s = {} THEN 0
               ELSE LET t == CHOOSE t \in s : TRUE IN Behind(t) + count[s \ {t}]
  <2> HIDE DEF count
  <2>1. CASE s = {}  BY <2>1, <1>1
  <2>2. CASE s # {}  BY <2>2, <1>2
  <2>3. QED  BY <2>1, <2>2
<1>4. QED
  <2> DEFINE body(s) == IF s = {} THEN 0
                        ELSE LET t == CHOOSE t \in s : TRUE IN Behind(t) + count[s \ {t}]
  <2>1. \A s \in SUBSET Tracks : Cardinality(NotesOf(s)) = body(s)
    BY <1>3
  <2> HIDE DEF body
  <2>2. count = [s \in SUBSET Tracks |-> body(s)]
    BY <2>1
  <2>3. AddsUp(count)
    <3> HIDE DEF count
    <3>1. QED  BY <2>2 DEF AddsUp, body
  <2>4. QED  BY <2>3

LEMMA SumIsUnique ==
  ASSUME NEW f, NEW g, AddsUp(f), AddsUp(g)
  PROVE  f = g
<1> DEFINE Differ == {s \in SUBSET Tracks : f[s] # g[s]}
<1>1. Differ = {}
  <2> SUFFICES ASSUME Differ # {}  PROVE FALSE
    OBVIOUS
  <2>1. IsWellFoundedOn(StrictSubsetOrdering(Tracks), SUBSET Tracks)
    <3>1. FiniteSubsetsOf(Tracks) = SUBSET Tracks
      BY FS_FiniteSubsetsOfFinite, ChartAssumption
    <3>2. QED  BY <3>1, FS_StrictSubsetOrderingWellFounded
  <2>2. PICK s \in Differ : \A u \in Differ : <<u, s>> \notin StrictSubsetOrdering(Tracks)
    <3> HIDE DEF Differ
    <3>1. Differ \subseteq SUBSET Tracks  BY DEF Differ
    <3>2. QED  BY <2>1, <3>1, WFMin
  <2>3. s \in SUBSET Tracks /\ f[s] # g[s]
    OBVIOUS
  <2>4. s # {}
    <3>1. ASSUME s = {}  PROVE f[s] = 0 /\ g[s] = 0
      BY <3>1, <2>3 DEF AddsUp
    <3>2. QED  BY <3>1, <2>3
  <2>5. PICK t : t = CHOOSE u \in s : TRUE
    OBVIOUS
  <2>6. t \in s /\ s \ {t} \in SUBSET Tracks
    BY <2>3, <2>4, <2>5
  <2>7. f[s] = Behind(t) + f[s \ {t}] /\ g[s] = Behind(t) + g[s \ {t}]
    BY <2>3, <2>4, <2>5 DEF AddsUp
  <2>8. <<s \ {t}, s>> \in StrictSubsetOrdering(Tracks)
    BY <2>3, <2>6 DEF StrictSubsetOrdering
  <2>9. f[s \ {t}] = g[s \ {t}]
    BY <2>2, <2>6, <2>8
  <2>10. QED  BY <2>3, <2>7, <2>9
<1>2. f = [s \in SUBSET Tracks |-> f[s]] /\ g = [s \in SUBSET Tracks |-> g[s]]
  BY DEF AddsUp
<1>3. QED  BY <1>1, <1>2

LEMMA CountIs == TypeOK => NotesJudged = Cardinality(JudgedNotes)
<1> SUFFICES ASSUME TypeOK  PROVE NotesJudged = Cardinality(JudgedNotes)
  OBVIOUS
<1> DEFINE count == [s \in SUBSET Tracks |-> Cardinality(NotesOf(s))]
           sum == CHOOSE sum : AddsUp(sum)
<1>1. AddsUp(count)
  BY CountAddsUp
<1>2. sum = count
  BY <1>1, SumIsUnique
<1>3. NotesJudged = sum[Tracks]
  BY DEF NotesJudged, MapThenSumSet, MapThenFoldSet, AddsUp, Behind
<1>4. NotesOf(Tracks) = JudgedNotes
  BY DEF NotesOf, JudgedNotes
<1>5. QED  BY <1>2, <1>3, <1>4

(* A frame counts each listed note that it judges.                         *)
Moved == {t \in Tracks : Verdict(t) # None /\ First[t] <= addr[t]}

LEMMA MovedFinite ==
  IsFiniteSet(Moved) /\ Cardinality(Moved) \in Nat /\ Cardinality(JudgedNotes) \in Nat
  BY ChartAssumption, FS_Subset, FS_CardinalityType, JudgedNotesFinite DEF Moved

LEMMA FrameCounts ==
  ASSUME TypeOK, TypeOK', PointerInChart, NEW keys \in KeySets, Frame(keys)
  PROVE  Cardinality(JudgedNotes') = Cardinality(JudgedNotes) + Cardinality(Moved)
<1> DEFINE New == {<<t, addr[t]>> : t \in Moved}
<1>1. ASSUME NEW t \in Tracks
      PROVE  /\ addr[t] \in 0 .. MaxAddr /\ addr'[t] \in 0 .. MaxAddr /\ First[t] \in 1 .. MaxAddr
             /\ Verdict(t) = None => addr'[t] = addr[t]
             /\ Verdict(t) # None => addr'[t] = addr[t] + 1
  <2>1. addr[t] <= Last[t]
    BY DEF PointerInChart
  <2>2. QED  BY <2>1, PointerStep, ChartAssumption DEF TypeOK, Frame
<1>2. JudgedNotes' = JudgedNotes \cup New
  <2>1. JudgedNotes' = {p \in Tracks \X (0 .. MaxAddr) : First[p[1]] <= p[2] /\ p[2] < addr'[p[1]]}
    BY DEF JudgedNotes
  <2>2. ASSUME NEW p \in JudgedNotes'  PROVE p \in JudgedNotes \cup New
    <3>1. PICK t \in Tracks, i \in 0 .. MaxAddr : p = <<t, i>> /\ First[t] <= i /\ i < addr'[t]
      BY <2>1, <2>2
    <3>2. CASE i < addr[t]
      BY <3>1, <3>2 DEF JudgedNotes
    <3>3. CASE ~(i < addr[t])
      <4>1. Verdict(t) # None /\ i = addr[t]
        BY <1>1, <3>1, <3>3
      <4>2. QED  BY <3>1, <4>1 DEF Moved
    <3>4. QED  BY <3>2, <3>3
  <2>3. ASSUME NEW p \in JudgedNotes  PROVE p \in JudgedNotes'
    <3>1. PICK t \in Tracks, i \in 0 .. MaxAddr : p = <<t, i>> /\ First[t] <= i /\ i < addr[t]
      BY <2>3 DEF JudgedNotes
    <3>2. i < addr'[t]
      BY <1>1, <3>1
    <3>3. QED  BY <2>1, <3>1, <3>2
  <2>4. ASSUME NEW p \in New  PROVE p \in JudgedNotes'
    <3>1. PICK t \in Moved : p = <<t, addr[t]>>
      BY <2>4
    <3>2. t \in Tracks /\ First[t] <= addr[t] /\ addr'[t] = addr[t] + 1
      BY <1>1, <3>1 DEF Moved
    <3>3. QED  BY <1>1, <2>1, <3>1, <3>2
  <2>5. QED  BY <2>2, <2>3, <2>4
<1>3. JudgedNotes \cap New = {}
  <2>1. ASSUME NEW t \in Moved  PROVE <<t, addr[t]>> \notin JudgedNotes
    BY <1>1, <2>1 DEF Moved, JudgedNotes
  <2>2. QED  BY <2>1
<1>4. IsFiniteSet(New) /\ Cardinality(New) = Cardinality(Moved)
  <2> DEFINE f == [t \in Moved |-> <<t, addr[t]>>]
  <2>1. f \in Bijection(Moved, New)
    <3>1. f \in [Moved -> New]
      OBVIOUS
    <3>2. \A s, t \in Moved : f[s] = f[t] => s = t
      OBVIOUS
    <3>3. \A p \in New : \E t \in Moved : f[t] = p
      OBVIOUS
    <3> HIDE DEF f, New
    <3>4. QED  BY <3>1, <3>2, <3>3 DEF Bijection, Injection, Surjection, IsInjective
  <2>2. ExistsBijection(Moved, New)
    BY <2>1 DEF ExistsBijection
  <2>3. QED  BY <2>2, MovedFinite, FS_Bijection
<1>5. Cardinality(JudgedNotes \cup New) =
        Cardinality(JudgedNotes) + Cardinality(New) - Cardinality(JudgedNotes \cap New)
  <2> HIDE DEF New
  <2>1. QED  BY <1>4, JudgedNotesFinite, FS_Union
<1>6. QED
  <2> HIDE DEF New
  <2>1. Cardinality(JudgedNotes \cap New) = 0
    BY <1>3, FS_EmptySet
  <2>2. QED  BY <1>2, <1>4, <1>5, <2>1, MovedFinite

(* A perfect or a good is the verdict on a listed note.                    *)
LEMMA ScoredIsListed ==
  ASSUME TypeOK, NEW t \in Tracks, Verdict(t) \in {Perfect, Good}
  PROVE  t \in Moved
<1>1. addr[t] \in 0 .. MaxAddr /\ First[t] \in 1 .. MaxAddr /\ un_time \in Nat /\ AutoLead \in Nat \ {0}
  BY ChartAssumption, WindowAssumption DEF TypeOK
<1>2. First[t] <= addr[t]
  <2> SUFFICES ASSUME addr[t] < First[t]  PROVE FALSE
    BY <1>1
  <2>1. addr[t] \in 0 .. First[t] - 1
    BY <1>1
  <2>2. Note(t).kind = TapNote /\ Note(t).time = 0
    BY <2>1, ChartAssumption DEF Note
  <2>3. AutoVerdict(t) = None
    BY <1>1, <2>2 DEF AutoVerdict
  <2>4. ManualVerdict(t) \in {None, Miss}
    <3>1. CASE un_time = 0
      BY <2>2, <3>1 DEF ManualVerdict
    <3>2. CASE un_time # 0
      BY <1>1, <2>2, <3>2 DEF ManualVerdict, PressVerdict, Within, TapNote, ReleaseNote
    <3>3. QED  BY <3>1, <3>2
  <2>5. QED  BY <2>3, <2>4 DEF Verdict, None, Miss, Perfect, Good
<1>3. QED  BY <1>2 DEF Moved, None, Perfect, Good

LEMMA ScoredAreMoved ==
  ASSUME TypeOK
  PROVE  Cardinality(Judged(Perfect)) + Cardinality(Judged(Good)) <= Cardinality(Moved)
<1>1. Judged(Perfect) \cap Judged(Good) = {}
  BY DEF Judged, Perfect, Good
<1>2. Judged(Perfect) \cup Judged(Good) \subseteq Moved
  BY ScoredIsListed DEF Judged
<1>3. Cardinality(Judged(Perfect) \cup Judged(Good)) =
        Cardinality(Judged(Perfect)) + Cardinality(Judged(Good)) - Cardinality({})
  BY <1>1, JudgedFinite, FS_Union
<1>4. Cardinality(Judged(Perfect) \cup Judged(Good)) <= Cardinality(Moved)
  BY <1>2, MovedFinite, FS_Subset
<1>5. QED  BY <1>3, <1>4, JudgedFinite, FS_EmptySet

(* With room for the points of all notes in 20 bits there is room for the   *)
(* number of some in 10.                                                   *)
LEMMA Room ==
  ASSUME NEW c \in Nat, NEW n \in Nat, NEW w \in Nat, c <= n, 1907 * n < w, w <= 1048576
  PROVE  1907 * c < w /\ c < 1024
  BY SMT

(* All notes that can be judged fit into the registers.                    *)
LEMMA CountFits ==
  ASSUME TypeOK, PointerInChart
  PROVE  1907 * Cardinality(JudgedNotes) < ScoreWrap /\ Cardinality(JudgedNotes) < ComboWrap
<1>1. IsFiniteSet(ListedNotes) /\ Cardinality(ListedNotes) \in Nat
  <2>1. IsFiniteSet(0 .. MaxAddr)
    BY FS_Interval, WindowAssumption
  <2>2. IsFiniteSet(Tracks \X (0 .. MaxAddr))
    BY <2>1, FS_Product, ChartAssumption
  <2>3. IsFiniteSet(ListedNotes)
    BY <2>2, FS_Subset DEF ListedNotes
  <2>4. QED  BY <2>3, FS_CardinalityType
<1>2. JudgedNotes \subseteq ListedNotes
  <2> SUFFICES ASSUME NEW p \in JudgedNotes  PROVE p \in ListedNotes
    OBVIOUS
  <2>1. PICK t \in Tracks, i \in 0 .. MaxAddr : p = <<t, i>> /\ First[t] <= i /\ i < addr[t]
    BY DEF JudgedNotes
  <2>2. addr[t] \in 0 .. MaxAddr /\ Last[t] \in 1 .. MaxAddr /\ addr[t] <= Last[t]
    BY ChartAssumption DEF TypeOK, PointerInChart
  <2>3. i < Last[t]
    BY <2>1, <2>2
  <2>4. QED  BY <2>1, <2>3 DEF ListedNotes
<1>3. Cardinality(JudgedNotes) <= Cardinality(ListedNotes)
  BY <1>1, <1>2, FS_Subset
<1>4. Cardinality(JudgedNotes) \in Nat
  BY MovedFinite
<1>5. PICK w \in Nat : w = ScoreWrap
  BY WrapType
<1>6. 1907 * Cardinality(ListedNotes) < w /\ w <= 1048576
  BY <1>5, ScoreAssumption, SMT
<1>7. 1907 * Cardinality(JudgedNotes) < w /\ Cardinality(JudgedNotes) < 1024
  BY <1>1, <1>3, <1>4, <1>6, Room, SMT
<1>8. QED  BY <1>5, <1>7 DEF ComboWrap

(* ScoreEarned, with the notes counted as a set.                           *)
Earned ==
  /\ score_now = 1907 * perfects + 953 * goods
  /\ perfects + goods <= Cardinality(JudgedNotes)

(* So many perfects and goods are worth no more than as many perfects.     *)
LEMMA Worth ==
  \A a, b, n, w \in Nat :
    a + b <= n /\ 1907 * n < w => 1907 * a + 953 * b \in Nat /\ 1907 * a + 953 * b < w
<1> SUFFICES ASSUME NEW a \in Nat, NEW b \in Nat, NEW n \in Nat, NEW w \in Nat, a + b <= n, 1907 * n < w
             PROVE  1907 * a + 953 * b \in Nat /\ 1907 * a + 953 * b < w
  OBVIOUS
<1>1. 1907 * a + 953 * b <= 1907 * (a + b) /\ 1907 * (a + b) <= 1907 * n
  BY SMT
<1>2. QED  BY <1>1, SMT

(* A frame pays for what it judges, and the register has room for it: no   *)
(* more is paid for than the chart lists.                                  *)
LEMMA EarnedFrame ==
  ASSUME TypeOK, TypeOK', PointerInChart, PointerInChart', Earned, NEW keys \in KeySets, Frame(keys)
  PROVE  Earned'
<1> DEFINE p == Cardinality(Judged(Perfect))
           g == Cardinality(Judged(Good))
           notes == Cardinality(JudgedNotes)
<1>1. p \in Nat /\ g \in Nat /\ notes \in Nat /\ Cardinality(Moved) \in Nat
  BY MovedFinite, JudgedFinite
<1>2. perfects' = perfects + p /\ goods' = goods + g
  BY DEF Frame, NextTally
<1>3. /\ perfects \in Nat /\ goods \in Nat /\ score_now = 1907 * perfects + 953 * goods
      /\ perfects + goods <= notes
  BY DEF TypeOK, Earned
<1>4. notes' = notes + Cardinality(Moved)
  BY FrameCounts
<1>5. p + g <= Cardinality(Moved)
  BY ScoredAreMoved
<1>6. notes' \in Nat /\ perfects' + goods' <= notes'
  <2> HIDE DEF p, g, notes
  <2>1. QED  BY <1>1, <1>2, <1>3, <1>4, <1>5
<1>7. 1907 * notes' < ScoreWrap
  <2>1. (1907 * Cardinality(JudgedNotes) < ScoreWrap /\ Cardinality(JudgedNotes) < ComboWrap)'
    BY CountFits, PTL
  <2>2. QED  BY <2>1
<1>8. score_now + Score = 1907 * perfects' + 953 * goods'
  <2>1. Score = 1907 * p + 953 * g
    BY DEF Score
  <2> HIDE DEF p, g
  <2>2. QED  BY <1>1, <1>2, <1>3, <2>1
<1>9. score_now + Score \in Nat /\ score_now + Score < ScoreWrap
  <2>1. perfects' \in Nat /\ goods' \in Nat
    BY DEF TypeOK
  <2>2. PICK w \in Nat : w = ScoreWrap
    BY WrapType
  <2>3. PICK n \in Nat : n = notes'
    BY <1>6
  <2>4. PICK a \in Nat, b \in Nat : a = perfects' /\ b = goods'
    BY <2>1
  <2>5. a + b <= n
    BY <1>6, <2>3, <2>4
  <2>6. 1907 * n < w
    BY <1>7, <2>2, <2>3
  <2>7. 1907 * a + 953 * b \in Nat /\ 1907 * a + 953 * b < w
    BY <2>5, <2>6, Worth
  <2>8. 1907 * a + 953 * b = 1907 * perfects' + 953 * goods'
    BY <2>4
  <2>9. QED  BY <1>8, <2>2, <2>7, <2>8
<1>10. score_now' = score_now + Score
  BY <1>9, Fits, WrapType DEF Frame, NextScore
<1>11. QED  BY <1>6, <1>8, <1>10 DEF Earned

(* The score is what the verdicts since the reset are worth and has not    *)
(* wrapped, and each of these is on another listed note that its pointer   *)
(* has passed, with any keys, in auto mode whenever it was switched on,    *)
(* and across resets (Draw_score_and_combo.sv:74-97,                       *)
(* DrawSprites.sv:218-261).                                                *)
THEOREM ScoreEarnedTheorem == Spec => []ScoreEarned
<1>1. Init => Earned
  <2> SUFFICES ASSUME Init  PROVE Earned
    OBVIOUS
  <2>1. score_now = 0 /\ perfects = 0 /\ goods = 0 /\ Cardinality(JudgedNotes) \in Nat
    BY JudgedNotesFinite, FS_CardinalityType DEF Init
  <2>2. QED  BY <2>1 DEF Earned
<1>2. TypeOK /\ TypeOK' /\ PointerInChart /\ PointerInChart' /\ Earned /\ [Next]_vars => Earned'
  <2> SUFFICES ASSUME TypeOK, TypeOK', PointerInChart, PointerInChart', Earned, [Next]_vars  PROVE Earned'
    OBVIOUS
  <2>1. ASSUME NEW keys \in KeySets, Frame(keys)  PROVE Earned'
    BY <2>1, EarnedFrame
  <2>2. CASE Reset
    <3>1. \A q \in Tracks \X (0 .. MaxAddr) : q[2] >= 0 /\ addr'[q[1]] = 0
      BY <2>2, WindowAssumption DEF Reset
    <3>2. JudgedNotes' = {}
      BY <3>1, ChartAssumption DEF JudgedNotes
    <3>3. Cardinality(JudgedNotes') = 0
      BY <3>2, FS_EmptySet
    <3>4. QED  BY <2>2, <3>3 DEF Reset, Earned
  <2>3. CASE UNCHANGED <<score_now, perfects, goods, addr>>
    BY <2>3 DEF Earned, JudgedNotes
  <2>4. QED
    BY <2>1, <2>2, <2>3 DEF Next, LoadDone, PressEnter, UnlockAuto, vars, results, tally
<1>3. TypeOK /\ Earned => ScoreEarned
  BY CountIs DEF ScoreEarned, Earned
<1>4. QED  BY <1>1, <1>2, <1>3, JudgeTypeOK, PointerInChartTheorem, PTL DEF Spec

-----------------------------------------------------------------------------
(* What auto mode, switched on in time, keeps: while the song runs score   *)
(* and combo are those of all notes judged so far.  The verdict left by    *)
(* the padding, or by a song before the reset, is still on display when    *)
(* the song starts and would break the combo; it is gone after FlashTime,  *)
(* because its time is 0 from the second frame after reset on.             *)
AutoCounts ==
  /\ score_now = 1907 * Cardinality(JudgedNotes)
  /\ combo_now = Cardinality(JudgedNotes)
  /\ precises \in {Good, Miss} =>
       /\ JudgedNotes = {}
       /\ timer = "run" => precise_flash_time = 0 /\ un_time <= FlashTime + 1

AutoInv ==
  ~untimely =>
    /\ timer = "Halted" => combo_now = 0
    /\ ~Booting => frames > 1
    /\ timer = "Halted" /\ frames > 1 => precise_flash_time = 0
    /\ auto /\ timer # "Halted" => AutoCounts

LEMMA NothingToAdd ==
  ASSUME Judged(Perfect) = {}, Judged(Good) = {}
  PROVE  Score = 0 /\ Combo = 0
<1>1. Score = 0
  BY FS_EmptySet DEF Score
<1>2. Combo = 0
  BY FS_EmptySet DEF Combo
<1>3. QED  BY <1>1, <1>2

(* Before the song.                                                        *)
LEMMA AutoBefore ==
  ASSUME IInv, IInv', StartInv', AutoInv, ~untimely, timer = "Halted", NEW keys \in KeySets, Frame(keys)
  PROVE  AutoInv'
<1>1. combo_now' = 0
  <2>1. Judged(Perfect) = {} /\ Judged(Good) = {}
    BY NothingScores DEF Judged, None, Perfect, Good, Miss
  <2>2. combo_now = 0 /\ Combo = 0
    BY <2>1, NothingToAdd DEF AutoInv
  <2>3. QED  BY <2>2 DEF Frame, NextScore, ComboWrap
<1>2. Booting' <=> Booting
  BY DEF IInv, BootInv, Booting, Frame, NextPhase
<1>3. frames \in Nat /\ frames' \in Nat /\ frames' = Smaller(frames + 1, LoadFrames) /\ LoadFrames \in Nat \ {0, 1}
  BY WindowAssumption DEF IInv, TypeOK, Frame
<1>4. ~Booting' => frames' > 1
  BY <1>2, <1>3 DEF AutoInv, Smaller
<1>5. ASSUME frames > 0  PROVE precise_flash_time' = 0 \/ (precise_flash_time' = precise_flash_time /\ ~FlashOver)
  BY <1>5 DEF IInv, BootInv, Frame, NextFlash
<1>6. ASSUME frames' > 1  PROVE precise_flash_time' = 0
  <2>1. frames > 0
    BY <1>3, <1>6 DEF Smaller
  <2>2. un_time = 0 /\ precise_flash_time \in Nat
    BY <2>1, WindowAssumption DEF IInv, BootInv, TypeOK
  <2>3. QED  BY <1>5, <2>1, <2>2 DEF FlashOver
<1>7. ASSUME timer' # "Halted"
      PROVE  AutoCounts'
  <2>1. phase' = "Playing" /\ ~Booting /\ timer' = "run" /\ un_time' = 0
    <3>1. timer' = "run" /\ phase' = "Playing" /\ un_time' = 0
      BY <1>7 DEF Frame, NextTime
    <3>2. ~Booting'
      BY <3>1 DEF Booting
    <3>3. QED  BY <1>2, <3>1, <3>2
  <2>2. addr' = First /\ score_now' = 0
    BY <2>1 DEF StartInv, Frame, NextKeys
  <2>3. JudgedNotes' = {}
    <3>1. \A p \in Tracks \X (0 .. MaxAddr) : p[2] \in Int /\ First[p[1]] \in Int
      BY WindowAssumption, ChartAssumption
    <3>2. QED  BY <2>2, <3>1 DEF JudgedNotes
  <2>4. Cardinality(JudgedNotes') = 0
    BY <2>3, FS_EmptySet
  <2>5. precise_flash_time' = 0 /\ un_time' <= FlashTime + 1
    BY <1>2, <1>4, <1>6, <2>1, WindowAssumption
  <2>6. Cardinality(JudgedNotes)' = 0
    BY <2>4
  <2>7. QED  BY <1>1, <2>2, <2>3, <2>5, <2>6 DEF AutoCounts
<1>8. QED  BY <1>1, <1>4, <1>6, <1>7 DEF AutoInv

(* In auto mode a note is taken perfectly or not at all.                   *)
LEMMA AutoVerdicts ==
  ASSUME TypeOK, auto, \A t \in Tracks : First[t] <= addr[t]
  PROVE  /\ Judged(Good) = {} /\ Judged(Miss) = {} /\ Judged(Perfect) = Moved
         /\ Worst = IF Moved = {} THEN None ELSE Perfect
         /\ Score = 1907 * Cardinality(Moved) /\ Combo = Cardinality(Moved)
<1>1. \A t \in Tracks : Verdict(t) = AutoVerdict(t) /\ AutoVerdict(t) \in {None, Perfect}
  BY DEF Verdict, AutoVerdict
<1>2. Judged(Good) = {} /\ Judged(Miss) = {} /\ Judged(Perfect) = Moved
  BY <1>1 DEF Judged, Moved, None, Perfect, Good, Miss
<1>3. Worst = IF Moved = {} THEN None ELSE Perfect
  BY <1>2 DEF Worst
<1>4. Cardinality(Moved) \in Nat /\ Cardinality({}) = 0
  BY MovedFinite, FS_EmptySet
<1>5. Score = 1907 * Cardinality(Moved)
  BY <1>2, <1>4 DEF Score
<1>6. Combo = Cardinality(Moved)
  BY <1>2, <1>3, <1>4 DEF Combo, None, Perfect
<1>7. QED  BY <1>2, <1>3, <1>5, <1>6

(* No note is taken while the verdict from before the song is shown.       *)
LEMMA NotYet ==
  ASSUME TypeOK, auto, JudgedNotes = {}, timer = "run", un_time <= FlashTime + 1,
         \A t \in Tracks : First[t] <= addr[t]
  PROVE  Moved = {}
<1> SUFFICES ASSUME NEW t \in Moved  PROVE FALSE
  OBVIOUS
<1>1. /\ t \in Tracks /\ First[t] \in 1 .. MaxAddr /\ addr[t] \in 0 .. MaxAddr /\ First[t] <= addr[t]
      /\ AutoVerdict(t) # None /\ MaxAddr \in Nat /\ un_time \in Nat
  BY ChartAssumption, WindowAssumption DEF Moved, TypeOK, Verdict
<1>2. addr[t] = First[t]
  <2> SUFFICES ASSUME First[t] < addr[t]  PROVE FALSE
    BY <1>1
  <2>1. <<t, First[t]>> \in JudgedNotes
    BY <1>1 DEF JudgedNotes
  <2>2. QED  BY <2>1
<1>3. Note(t).time = un_time + AutoLead
  BY <1>1 DEF AutoVerdict
<1>4. FlashTime + AutoLead + 1 < un_time + AutoLead
  BY <1>1, <1>2, <1>3, AutoAssumption DEF Note
<1>5. QED  BY <1>1, <1>4, WindowAssumption

(* During the song, and after it.                                          *)
LEMMA AutoDuring ==
  ASSUME IInv, IInv', AutoInv, ~untimely, auto, timer # "Halted", PointerInChart, PointerInChart',
         NEW keys \in KeySets, Frame(keys)
  PROVE  AutoCounts'
<1>1. \A t \in Tracks : First[t] <= addr[t]
  BY DEF IInv, BootInv, Booting
<1>2. AutoCounts /\ TypeOK /\ TypeOK'
  BY DEF AutoInv, IInv
<1>3. Cardinality(JudgedNotes') = Cardinality(JudgedNotes) + Cardinality(Moved)
  BY <1>2, FrameCounts
<1>4. /\ Worst = IF Moved = {} THEN None ELSE Perfect
      /\ Score = 1907 * Cardinality(Moved) /\ Combo = Cardinality(Moved)
  BY <1>1, <1>2, AutoVerdicts
<1>5. Cardinality(Moved) \in Nat /\ Cardinality(JudgedNotes) \in Nat /\ Cardinality({}) = 0
  BY MovedFinite, FS_EmptySet
<1>6. 1907 * Cardinality(JudgedNotes') < ScoreWrap /\ Cardinality(JudgedNotes') < ComboWrap
  <2>1. (1907 * Cardinality(JudgedNotes) < ScoreWrap /\ Cardinality(JudgedNotes) < ComboWrap)'
    BY <1>2, CountFits, PTL
  <2>2. QED  BY <2>1 DEF ComboWrap
<1>7. score_now' = 1907 * Cardinality(JudgedNotes')
  <2>1. score_now + Score = 1907 * Cardinality(JudgedNotes') /\ score_now + Score \in Nat
    BY <1>2, <1>3, <1>4, <1>5 DEF AutoCounts
  <2>2. QED  BY <1>6, <2>1, Fits, WrapType DEF Frame, NextScore
<1>8. ASSUME precises \in {Good, Miss}
      PROVE  JudgedNotes = {} /\ Moved = {}
  <2>1. JudgedNotes = {} /\ (timer = "run" => un_time <= FlashTime + 1)
    BY <1>2, <1>8 DEF AutoCounts
  <2>2. CASE timer = "run"
    BY <1>1, <1>2, <2>1, <2>2, NotYet
  <2>3. CASE timer = "Done"
    <3>1. \A t \in Tracks : Verdict(t) = None
      BY <1>2, <2>3, MarkerStays DEF IInv, SongInv
    <3>2. QED  BY <2>1, <3>1 DEF Moved
  <2>4. QED  BY <2>1, <2>2, <2>3, <1>2 DEF TypeOK
<1>9. combo_now' = Cardinality(JudgedNotes')
  <2>1. CASE precises \in {Good, Miss}
    <3>1. Cardinality(JudgedNotes') = 0
      BY <1>3, <1>5, <1>8, <2>1
    <3>2. QED  BY <2>1, <3>1 DEF Frame, NextScore
  <2>2. CASE precises \notin {Good, Miss}
    <3>1. combo_now + Combo = Cardinality(JudgedNotes') /\ combo_now + Combo \in Nat
      BY <1>2, <1>3, <1>4, <1>5 DEF AutoCounts
    <3>2. QED  BY <1>6, <2>2, <3>1, Fits, WrapType DEF Frame, NextScore
  <2>3. QED  BY <2>1, <2>2
<1>10. ASSUME precises' \in {Good, Miss}
       PROVE  JudgedNotes' = {} /\ (timer' = "run" => precise_flash_time' = 0 /\ un_time' <= FlashTime + 1)
  <2>1. Worst = None /\ ~FlashOver /\ precises' = precises /\ precise_flash_time' = precise_flash_time
    BY <1>4, <1>10 DEF Frame, NextFlash, None, Perfect, Good, Miss
  <2>2. JudgedNotes = {} /\ Moved = {} /\ (timer = "run" => precise_flash_time = 0)
    BY <1>2, <1>8, <1>10, <2>1 DEF AutoCounts
  <2>3. JudgedNotes' = {}
    <3>1. Cardinality(JudgedNotes') = 0 /\ IsFiniteSet(JudgedNotes')
      <4>1. IsFiniteSet(JudgedNotes)'
        BY JudgedNotesFinite, PTL
      <4>2. QED  BY <1>3, <1>5, <2>2, <4>1
    <3>2. QED  BY <3>1, FS_EmptySet
  <2>4. ASSUME timer' = "run"  PROVE precise_flash_time' = 0 /\ un_time' <= FlashTime + 1
    <3>1. timer = "run" /\ un_time' = un_time + 1 /\ un_time \in Nat
      BY <1>2, <2>4 DEF Frame, NextTime, TypeOK
    <3>2. precise_flash_time = 0
      BY <2>2, <3>1
    <3>3. un_time <= FlashTime
      BY <2>1, <3>1, <3>2, WindowAssumption DEF FlashOver
    <3>4. QED  BY <2>1, <3>1, <3>2, <3>3, WindowAssumption
  <2>5. QED  BY <2>3, <2>4
<1>11. AutoCounts' <=>
         /\ score_now' = 1907 * Cardinality(JudgedNotes')
         /\ combo_now' = Cardinality(JudgedNotes')
         /\ precises' \in {Good, Miss} =>
              /\ JudgedNotes' = {}
              /\ timer' = "run" => precise_flash_time' = 0 /\ un_time' <= FlashTime + 1
  BY DEF AutoCounts, Good, Miss
<1>12. QED  BY <1>7, <1>9, <1>10, <1>11

LEMMA AutoFrame ==
  ASSUME IInv, IInv', StartInv', AutoInv, ~untimely, PointerInChart, PointerInChart',
         NEW keys \in KeySets, Frame(keys)
  PROVE  AutoInv'
<1>1. CASE timer = "Halted"
  BY <1>1, AutoBefore
<1>2. CASE timer # "Halted"
  <2>1. timer' # "Halted" /\ ~Booting' /\ auto' = auto
    BY <1>2 DEF IInv, BootInv, Booting, Frame, NextTime, NextPhase, NextKeys
  <2>2. frames' > 1
    <3>1. ~Booting
      BY <1>2 DEF IInv, BootInv, Booting
    <3>2. frames > 1 /\ frames \in Nat /\ frames' = Smaller(frames + 1, LoadFrames) /\ LoadFrames \in Nat \ {0, 1}
      BY <3>1, WindowAssumption DEF AutoInv, IInv, TypeOK, Frame
    <3>3. QED  BY <3>2 DEF Smaller
  <2>3. auto' => AutoCounts'
    BY <1>2, <2>1, AutoDuring
  <2>4. QED  BY <2>1, <2>2, <2>3 DEF AutoInv
<1>3. QED  BY <1>1, <1>2

(* Auto mode, switched on between the end of the loading and the song,     *)
(* has every note on the score and in the combo at the end, whatever the   *)
(* chart, as long as its total fits (DrawSprites.sv:241-261,               *)
(* Draw_score_and_combo.sv:57-96).                                         *)
THEOREM AutoPlaysPerfectlyTheorem == Spec => []AutoPlaysPerfectly
<1>1. Init => StartInv /\ AutoInv
  <2> SUFFICES ASSUME Init  PROVE StartInv /\ AutoInv
    OBVIOUS
  <2>1. timer = "Halted" /\ score_now = 0 /\ combo_now = 0 /\ Booting /\ frames = 0
    BY DEF Init, Booting
  <2>2. QED  BY <2>1 DEF StartInv, AutoInv
<1>2. /\ Inv /\ StartInv /\ AutoInv /\ PointerInChart /\ [Next]_vars
      /\ Inv' /\ StartInv' /\ PointerInChart'
      => AutoInv'
  <2> SUFFICES ASSUME Inv, StartInv, AutoInv, PointerInChart, [Next]_vars,
                      Inv', StartInv', PointerInChart', ~untimely'
               PROVE  AutoInv'
    BY DEF AutoInv
  <2>1. IInv'
    BY DEF Inv
  <2>2. ASSUME NEW keys \in KeySets, Frame(keys)  PROVE AutoInv'
    <3>1. ~untimely /\ IInv
      BY <2>2 DEF Frame, NextKeys, Inv
    <3>2. QED  BY <2>1, <2>2, <3>1, AutoFrame
  <2>3. CASE Reset
    BY <2>3 DEF Reset, AutoInv, Booting
  <2>4. CASE UnlockAuto
    BY <2>4 DEF UnlockAuto, results, tally, clocks, AutoInv, Booting
  <2>5. CASE LoadDone
    <3>1. frames' > 1
      BY <2>5, WindowAssumption DEF LoadDone
    <3>2. timer' = timer /\ combo_now' = combo_now /\ auto' = auto /\ precise_flash_time' = precise_flash_time
          /\ frames' = frames /\ untimely' = untimely
      BY <2>5 DEF LoadDone, inputs, results, tally
    <3>3. AutoCounts' <=> AutoCounts
      BY <2>5 DEF LoadDone, inputs, results, tally, AutoCounts, JudgedNotes
    <3>4. QED  BY <3>1, <3>2, <3>3 DEF AutoInv
  <2>6. CASE PressEnter \/ UNCHANGED vars
    <3>1. AutoCounts' <=> AutoCounts
      BY <2>6 DEF PressEnter, vars, inputs, results, tally, clocks, AutoCounts, JudgedNotes
    <3>2. QED  BY <2>6, <3>1 DEF PressEnter, vars, inputs, results, tally, clocks, AutoInv, Booting
  <2>7. QED  BY <2>2, <2>3, <2>4, <2>5, <2>6 DEF Next
<1>3. TypeOK /\ AutoInv => AutoPlaysPerfectly
  BY CountIs DEF AutoInv, AutoCounts, AutoPlaysPerfectly
<1>4. QED  BY <1>1, <1>2, <1>3, StartAlways, InvAlways, JudgeTypeOK, PointerInChartTheorem, PTL DEF Spec
=============================================================================
