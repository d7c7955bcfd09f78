--------------------------- MODULE KeyboardProofs ---------------------------
(***************************************************************************)
(* Theorems about Keyboard and its two halves: what AutoKeys makes of      *)
(* reports, for every set of keys; the reports of UsbXfer, for any limits  *)
(* and any way of numbering them; and the promise of AutoKeys for what     *)
(* comes over the USB.                                                     *)
(*                                                                         *)
(* AutoTyped is not inductive.  A key that is kept in temp_keycode could   *)
(* advance the flag in a report that does not have it; it does not,        *)
(* because a flag that waits for a key has not kept it: WordInv.           *)
(***************************************************************************)
EXTENDS Keyboard, FiniteSetTheorems, TLAPS

(* The auto bit follows the flag, which stays at 4.                        *)
AutoInv == auto => auto_flag = 4

(* The letters the flag stands for have been down, and the next one it     *)
(* waits for is not the key kept from an earlier report.                   *)
WordInv ==
  /\ temp_keycode = A \/ auto_flag # 0 => spelled >= 1
  /\ auto_flag = 2 => temp_keycode # T
  /\ auto_flag = 3 => spelled >= 2 /\ temp_keycode # O
  /\ auto_flag = 4 => spelled = 3

Inv == TypeOK /\ AutoInv /\ WordInv /\ AutoTyped

LEMMA InitInv == Init => Inv
<1> SUFFICES ASSUME Init PROVE Inv
  OBVIOUS
<1>1. TypeOK
  <2>1. auto \in BOOLEAN
    BY DEF Init
  <2> QED BY <2>1 DEF Init, TypeOK
<1>2. WordInv
  BY DEF Init, WordInv, A
<1>3. AutoTyped
  <2>1. auto_flag # 4 /\ ~auto
    BY DEF Init
  <2> QED BY <2>1 DEF AutoTyped
<1>4. AutoInv
  <2>1. ~auto
    BY DEF Init
  <2> QED BY <2>1 DEF AutoInv
<1> QED BY <1>1, <1>2, <1>3, <1>4 DEF Inv

LEMMA SpelledGrows ==
  ASSUME NEW n \in 0 .. 3, NEW keys
  PROVE  /\ Spelled(n, keys) \in 0 .. 3 /\ Spelled(n, keys) >= n
         /\ A \in keys => Spelled(n, keys) >= 1
         /\ T \in keys /\ n >= 1 => Spelled(n, keys) >= 2
         /\ O \in keys /\ n >= 2 => Spelled(n, keys) = 3
  BY DEF Spelled

(* What a new value of the flag says of the old one and of the key.        *)
LEMMA FlagSteps ==
  ASSUME NEW flag \in 0 .. 4, NEW key \in Nat
  PROVE  LET new == calc_autoflag(flag, key) IN
         /\ new \in 0 .. 4
         /\ flag = 4 => new = 4
         /\ new = 1 => key = A \/ flag = 1
         /\ new = 2 => flag \in {1, 2} /\ key # T
         /\ new = 3 => (flag = 2 /\ key = T) \/ (flag = 3 /\ key \in {0, T})
         /\ new = 4 => flag = 4 \/ (flag = 3 /\ key = O)
  BY DEF calc_autoflag, A, T, U, O

LEMMA NextInv == Inv /\ [Next]_vars => Inv'
<1> SUFFICES ASSUME Inv, [Next]_vars PROVE Inv'
  OBVIOUS
<1>1. CASE UNCHANGED vars
  BY <1>1 DEF vars, Inv, TypeOK, AutoInv, WordInv, AutoTyped
<1>2. CASE Reset
  <2>1. auto' \in BOOLEAN /\ ~auto' /\ auto_flag' = 0
    BY <1>2 DEF Reset
  <2>2. TypeOK'
    BY <1>2, <2>1 DEF Reset, TypeOK
  <2>3. WordInv'
    BY <1>2 DEF Reset, WordInv, A
  <2>4. AutoTyped'
    BY <2>1 DEF AutoTyped
  <2>5. AutoInv'
    BY <2>1 DEF AutoInv
  <2> QED BY <2>2, <2>3, <2>4, <2>5 DEF Inv
<1>3. ASSUME NEW keys \in SUBSET (Play \cup Others), Report(keys) PROVE Inv'
  <2> DEFINE key == temp_keycode'
  <2>1. key = temp_keycode \/ key \in keys
    BY <1>3 DEF Report
  <2>2. key \in {0} \cup Others /\ key \in Nat
    BY <1>3, KeysAssumption DEF Report, Inv, TypeOK
  <2>3. auto_flag \in 0 .. 4 /\ spelled \in 0 .. 3
    BY DEF Inv, TypeOK
  <2>4. auto_flag' = calc_autoflag(auto_flag, key) /\ spelled' = Spelled(spelled, keys)
    BY <1>3 DEF Report
  <2>5. /\ spelled' \in 0 .. 3 /\ spelled' >= spelled
        /\ A \in keys => spelled' >= 1
        /\ T \in keys /\ spelled >= 1 => spelled' >= 2
        /\ O \in keys /\ spelled >= 2 => spelled' = 3
    BY <2>3, <2>4, SpelledGrows
  <2>6. /\ auto_flag' \in 0 .. 4
        /\ auto_flag = 4 => auto_flag' = 4
        /\ auto_flag' = 1 => key = A \/ auto_flag = 1
        /\ auto_flag' = 2 => auto_flag \in {1, 2} /\ key # T
        /\ auto_flag' = 3 => (auto_flag = 2 /\ key = T) \/ (auto_flag = 3 /\ key \in {0, T})
        /\ auto_flag' = 4 => auto_flag = 4 \/ (auto_flag = 3 /\ key = O)
    <3>1. auto_flag \in 0 .. 4 /\ key \in Nat
      BY <2>2, <2>3
    <3> HIDE DEF key
    <3> QED BY <2>4, <3>1, FlagSteps
  <2>7. TypeOK'
    <3>1. keycode' = key /\ dfjk' \subseteq Play
      BY <1>3 DEF Report
    <3>2. auto' \in BOOLEAN
      BY <1>3 DEF Report
    <3> QED BY <2>2, <2>5, <2>6, <3>1, <3>2 DEF TypeOK
  <2>8. key = A => spelled' >= 1
    BY <2>1, <2>3, <2>5 DEF Inv, WordInv
  <2>9. auto_flag' # 0 => spelled' >= 1
    BY <2>3, <2>5, <2>6, <2>8 DEF Inv, WordInv
  <2>10. auto_flag' = 3 => spelled' >= 2 /\ key # O
    BY <2>1, <2>3, <2>5, <2>6 DEF Inv, WordInv, T, O
  <2>11. auto_flag' = 4 => spelled' = 3
    BY <2>1, <2>3, <2>5, <2>6 DEF Inv, WordInv
  <2>12. WordInv'
    BY <2>6, <2>8, <2>9, <2>10, <2>11 DEF WordInv
  <2>13. AutoTyped'
    <3>1. auto' => auto_flag = 4
      BY <1>3 DEF Report
    <3> QED BY <2>3, <2>5, <2>11, <3>1 DEF AutoTyped, Inv, WordInv
  <2>14. AutoInv'
    <3>1. auto' => auto_flag = 4
      BY <1>3 DEF Report
    <3> QED BY <2>6, <3>1 DEF AutoInv
  <2> QED BY <2>7, <2>12, <2>13, <2>14 DEF Inv
<1> QED BY <1>1, <1>2, <1>3 DEF Next

(* The registers of usb_set and the PIOs keep to their values.             *)
THEOREM KeysTypeOK == Spec => []TypeOK
<1>1. Inv => TypeOK BY DEF Inv
<1> QED BY <1>1, InitInv, NextInv, PTL DEF Spec

(* Auto mode is on only after A, T and O, whatever else was down.          *)
THEOREM AutoTypedTheorem == Spec => []AutoTyped
<1>1. Inv => AutoTyped BY DEF Inv
<1> QED BY <1>1, InitInv, NextInv, PTL DEF Spec

(* Once on, auto mode stays until a reset (mainnn.c:145-148).              *)
THEOREM AutoForGoodTheorem == Spec => AutoForGood
<1>1. Inv /\ [Next]_vars => [auto => auto' \/ Reset]_vars
  <2> SUFFICES ASSUME Inv, Next, auto PROVE auto' \/ Reset
    BY DEF vars
  <2>1. auto_flag = 4
    BY DEF Inv, AutoInv
  <2>2. ASSUME NEW keys, Report(keys) PROVE auto'
    BY <2>1, <2>2 DEF Report
  <2> QED BY <2>2 DEF Next
<1> QED BY <1>1, InitInv, NextInv, PTL DEF Spec, AutoForGood
-----------------------------------------------------------------------------
XferTypes ==
  /\ pc \in {"idle", "launch", "wait", "result", "received"}
  /\ rcvToggle \in 0 .. 1 /\ chipToggle \in 0 .. 1 /\ devToggle \in 0 .. 1
  /\ busy \in BOOLEAN /\ hxfrdn \in BOOLEAN /\ hrsl \in {"ok", "busy", "NAK", "TIMEOUT", "TOGERR", "error"}
  /\ fifo \in {None} \cup 0 .. Reports - 1 /\ pending \in BOOLEAN
  /\ cur \in 0 .. Reports - 1 /\ got \in 0 .. Reports - 1

(* A transaction is under way, or its end is to be seen, only while the    *)
(* program waits; the FIFO has a report only from its end to the reading.  *)
InTurn ==
  /\ busy => pc = "wait" /\ ~hxfrdn /\ fifo = None
  /\ hxfrdn => pc = "wait"
  /\ hxfrdn \/ pc = "result" => hrsl # "busy"
  /\ fifo # None => hrsl = "ok" /\ (pc \in {"result", "received"} \/ (pc = "wait" /\ hxfrdn))

(* The toggle that the host expects next, and the last report it has: the  *)
(* program's, but for the one that waits in the FIFO.                      *)
Expected == IF fifo = None THEN rcvToggle ELSE 1 - rcvToggle
Latest   == IF fifo = None THEN got ELSE fifo

(* The keyboard is either ready with the next report or, having missed the *)
(* handshake, sends the last one again; its toggle says which.             *)
InStep ==
  /\ pc # "idle" => chipToggle = Expected
  /\ fifo # None => fifo = NextReport(got)
  /\ IF devToggle = Expected THEN cur = NextReport(Latest) ELSE pending /\ cur = Latest

XferInv == XferTypes /\ InTurn /\ InStep

LEMMA NextReportType ==
  ASSUME NEW n \in 0 .. Reports - 1
  PROVE  NextReport(n) \in 0 .. Reports - 1 /\ n # None
BY XferAssumption DEF NextReport, None

LEMMA XferInvInit == XferInit => XferInv
<1> SUFFICES ASSUME XferInit PROVE XferInv
  OBVIOUS
<1>1. XferTypes
  <2>1. busy \in BOOLEAN /\ hxfrdn \in BOOLEAN /\ pending \in BOOLEAN
    BY Zenon DEF XferInit
  <2>2. cur \in 0 .. Reports - 1 /\ got \in 0 .. Reports - 1
    BY XferAssumption DEF XferInit
  <2>3. rcvToggle \in 0 .. 1 /\ chipToggle \in 0 .. 1 /\ devToggle \in 0 .. 1
    BY DEF XferInit
  <2>4. QED  BY <2>1, <2>2, <2>3 DEF XferInit, XferTypes
<1>2. InTurn
  BY DEF XferInit, InTurn
<1>3. InStep
  <2>1. NextReport(Reports - 1) = 0
    BY XferAssumption DEF NextReport
  <2>2. QED  BY <2>1 DEF XferInit, InStep, Expected, Latest
<1>4. QED  BY <1>1, <1>2, <1>3 DEF XferInv

(* The program's steps.                                                    *)
LEMMA PollKeeps == XferInv /\ Poll => XferInv'
<1> SUFFICES ASSUME XferInv, Poll PROVE XferInv'
  OBVIOUS
<1> USE DEF XferInv, XferTypes, InTurn, InStep, Expected, Latest
<1>1. CASE kbdPoll
  BY <1>1 DEF kbdPoll, device
<1>2. CASE Launch
  BY <1>2 DEF Launch, device
<1>3. CASE Done
  BY <1>3 DEF Done, device
<1>4. CASE TimedOut
  BY <1>4 DEF TimedOut, device, chip
<1>5. CASE Result
  <2>1. /\ pc = "result" /\ UNCHANGED <<rcvToggle, got, chip, device>>
        /\ pc' \in {"idle", "launch", "received"} /\ (pc' = "received" <=> hrsl = "ok")
    BY <1>5 DEF Result, Return
  <2>2. QED  BY <2>1 DEF device, chip
<1>6. CASE Receive
  <2>1. CASE fifo = None
    BY <1>6, <2>1 DEF Receive, Return, device
  <2>2. CASE fifo # None
    BY <1>6, <2>2, XferAssumption DEF Receive, Return, device
  <2>3. QED  BY <2>1, <2>2
<1>7. QED  BY <1>1, <1>2, <1>3, <1>4, <1>5, <1>6 DEF Poll

(* Those of the chip and the keyboard.                                     *)
LEMMA BusKeeps == XferInv /\ Bus => XferInv'
<1> SUFFICES ASSUME XferInv, Bus PROVE XferInv'
  OBVIOUS
<1> USE DEF XferInv, XferTypes, InTurn, InStep, Expected, Latest
<1>1. CASE NothingNew
  BY <1>1 DEF NothingNew, Finish, program, device
<1>2. CASE Lost
  BY <1>2 DEF Lost, Finish, program, device
<1>3. CASE busy /\ pending /\ Accept /\ UNCHANGED program /\ (UNCHANGED device \/ Delivered)
  <2>1. fifo = None /\ pc = "wait" /\ chipToggle = rcvToggle /\ cur # None
        /\ NextReport(cur) \in 0 .. Reports - 1
    BY <1>3, NextReportType
  <2>2. /\ UNCHANGED <<pc, rcvToggle, got>> /\ ~busy' /\ hxfrdn' /\ busy' \in BOOLEAN /\ hxfrdn' \in BOOLEAN
        /\ \/ devToggle' = devToggle /\ pending' /\ cur' = cur /\ pending' \in BOOLEAN
           \/ devToggle' = 1 - devToggle /\ cur' = NextReport(cur) /\ pending' \in BOOLEAN
    BY <1>3 DEF Accept, Finish, Delivered, program, device
  <2>3. CASE devToggle = chipToggle
    <3>1. hrsl' = "ok" /\ fifo' = cur /\ chipToggle' = 1 - chipToggle
      BY <1>3, <2>3 DEF Accept, Finish
    <3>2. cur = NextReport(got)
      BY <2>1, <2>3
    <3>3. XferTypes'
      BY <2>1, <2>2, <3>1
    <3>4. InTurn'
      BY <2>1, <2>2, <3>1
    <3>5. InStep'
      BY <2>1, <2>2, <2>3, <3>1, <3>2
    <3>6. QED  BY <3>3, <3>4, <3>5
  <2>4. CASE devToggle # chipToggle
    <3>1. hrsl' = "TOGERR" /\ fifo' = fifo /\ chipToggle' = chipToggle
      BY <1>3, <2>4 DEF Accept, Finish
    <3>2. cur = got
      BY <2>1, <2>4
    <3>3. XferTypes'
      BY <2>1, <2>2, <3>1
    <3>4. InTurn'
      BY <2>1, <2>2, <3>1
    <3>5. InStep'
      BY <2>1, <2>2, <2>4, <3>1, <3>2
    <3>6. QED  BY <3>3, <3>4, <3>5
  <2>5. QED  BY <2>3, <2>4
<1>4. CASE Silent
  BY <1>4 DEF Silent, program, device
<1>5. QED  BY <1>1, <1>2, <1>3, <1>4 DEF Bus, Delivered, HandshakeLost

LEMMA XferInvStep == XferInv /\ [KeyboardNext]_keyboardVars => XferInv'
<1> SUFFICES ASSUME XferInv, [KeyboardNext]_keyboardVars PROVE XferInv'
  OBVIOUS
<1>1. CASE Polls
  BY <1>1, PollKeeps DEF Polls
<1>2. CASE Presses
  BY <1>2 DEF Presses, Press, program, chip, XferInv, XferTypes, InTurn, InStep, Expected, Latest
<1>3. CASE Carries
  BY <1>3, BusKeeps DEF Carries
<1>4. CASE Enumerates \/ Restarts
  <2>1. /\ pc' = "idle" /\ fifo' = None /\ rcvToggle' = 0 /\ devToggle' = 0 /\ ~busy' /\ ~hxfrdn'
        /\ busy' = FALSE /\ hxfrdn' = FALSE /\ pending' = FALSE
        /\ got' = got /\ cur' = NextReport(got) /\ chipToggle' \in 0 .. 1
        /\ hrsl' \in {"ok", "busy", "NAK", "TIMEOUT", "TOGERR", "error"}
    BY <1>4 DEF Enumerates, Enumerate, Restarts, XferInv, XferTypes
  <2>2. NextReport(got) \in 0 .. Reports - 1
    BY NextReportType DEF XferInv, XferTypes
  <2>3. XferTypes'
    <3>1. busy' \in BOOLEAN /\ hxfrdn' \in BOOLEAN /\ pending' \in BOOLEAN
      BY <2>1, Zenon
    <3>2. got' \in 0 .. Reports - 1 /\ cur' \in 0 .. Reports - 1
      BY <2>1, <2>2 DEF XferInv, XferTypes
    <3>3. QED  BY <2>1, <3>1, <3>2 DEF XferTypes
  <2>4. InTurn'
    BY <2>1 DEF InTurn
  <2>5. InStep'
    BY <2>1 DEF InStep, Expected, Latest, NextReport
  <2>6. QED  BY <2>3, <2>4, <2>5 DEF XferInv
<1>5. CASE UNCHANGED keyboardVars
  BY <1>5 DEF keyboardVars, xferVars, program, chip, device,
              XferInv, XferTypes, InTurn, InStep, Expected, Latest
<1>6. QED  BY <1>1, <1>2, <1>3, <1>4, <1>5 DEF KeyboardNext

(* The report read is the one after the last, whatever packets and         *)
(* handshakes are lost, and whenever the program begins again              *)
(* (transfer.c:191-227).                                                   *)
THEOREM ReportsInOrderTheorem == KeyboardSpec => []ReportsInOrder
<1>1. KeyboardInit => XferInv
  BY XferInvInit DEF KeyboardInit
<1>2. XferInv => ReportsInOrder
  BY DEF XferInv, InStep, ReportsInOrder
<1>3. QED  BY <1>1, <1>2, XferInvStep, PTL DEF KeyboardSpec
-----------------------------------------------------------------------------
(* The FIFO and the keyboard have reports, so that what usb_set is given   *)
(* is one.                                                                 *)
HeldInv == down \in KeySets \cup {{}} /\ inFifo \in KeySets \cup {{}}

LEMMA HeldStep == HeldInv /\ [KeyboardNext]_keyboardVars => HeldInv'
<1> SUFFICES ASSUME HeldInv, [KeyboardNext]_keyboardVars PROVE HeldInv'
  OBVIOUS
<1>1. CASE Polls
  BY <1>1 DEF Polls, HeldInv
<1>2. CASE Presses
  BY <1>2 DEF Presses, HeldInv
<1>3. CASE Carries
  BY <1>3 DEF Carries, HeldInv
<1>4. CASE Enumerates \/ Restarts \/ UNCHANGED keyboardVars
  BY <1>4 DEF Enumerates, Restarts, keyboardVars, HeldInv
<1>5. QED  BY <1>1, <1>2, <1>3, <1>4 DEF KeyboardNext

LEMMA EmptyReport == {} \subseteq Play \cup Others /\ Cardinality({}) <= ReportKeys
BY FS_EmptySet DEF ReportKeys

(* A step of the keyboard is one of AutoKeys, or none.                     *)
LEMMA KeysStep == HeldInv /\ [KeyboardNext]_keyboardVars => [Next]_vars
<1> SUFFICES ASSUME HeldInv, [KeyboardNext]_keyboardVars PROVE [Next]_vars
  OBVIOUS
<1>1. CASE Polls
  <2>1. inFifo \in SUBSET (Play \cup Others) /\ Cardinality(inFifo) <= ReportKeys
    BY EmptyReport, KeyboardAssumption DEF HeldInv
  <2>2. Report(inFifo) \/ UNCHANGED vars
    BY <1>1 DEF Polls, usb_set
  <2>3. QED  BY <2>1, <2>2 DEF Next
<1>2. CASE Presses \/ Carries \/ Enumerates \/ UNCHANGED keyboardVars
  BY <1>2 DEF Presses, Carries, Enumerates, keyboardVars
<1>3. CASE Restarts
  BY <1>3 DEF Restarts, Next
<1>4. QED  BY <1>1, <1>2, <1>3 DEF KeyboardNext

(* Auto mode is typed, also with reports as they come over the USB: none   *)
(* is taken for another, and a poll that fails gives none                  *)
(* (mainnn.c:69-108, 133-170).                                             *)
THEOREM KeyboardAutoTyped == KeyboardSpec => []AutoTyped
<1>1. KeyboardInit => HeldInv /\ Init
  BY DEF KeyboardInit, HeldInv
<1>2. HeldInv /\ [KeyboardNext]_keyboardVars => HeldInv' /\ [Next]_vars
  BY HeldStep, KeysStep
<1>3. KeyboardSpec => Spec
  BY <1>1, <1>2, PTL DEF KeyboardSpec, Spec
<1>4. QED  BY <1>3, AutoTypedTheorem
=============================================================================
