------------------------------ MODULE AutoKeys ------------------------------
(***************************************************************************)
(* What usb_set (mainnn.c) makes of the keyboard's reports: the four keys  *)
(* and the auto bit of the key_dfjk PIO, the key of the keycode PIO, and   *)
(* calc_autoflag, which looks for the word that switches auto mode on.     *)
(*                                                                         *)
(* A report is the set of the keys that are down, at most six.  Of keys    *)
(* other than the four, only the one in the last slot is kept.             *)
(***************************************************************************)
EXTENDS Integers, FiniteSets

CONSTANTS
  Others    (* The key codes, not 0, of keys other than D, F, J and K.       *)

Play == {7, 9, 13, 14}
A == 4
O == 18
T == 23
U == 24
ReportKeys == 6

ASSUME KeysAssumption == Others \subseteq 1 .. 255 /\ Others \cap Play = {} /\ {A, O, T, U} \subseteq Others

VARIABLES
  temp_keycode, auto_flag,    (* Of usb_set.                                 *)
  keycode, dfjk, auto,        (* The PIOs: keycode, key_dfjk[3:0] and [4].   *)
  spelled                     (* History: how much of A, T, O the reports    *)
                              (* have shown, a letter a report at most.      *)

vars == <<temp_keycode, auto_flag, keycode, dfjk, auto, spelled>>

Init ==
  /\ temp_keycode = 0 /\ auto_flag = 0 /\ keycode = 0 /\ dfjk = {} /\ auto = FALSE /\ spelled = 0

(* Mutant: a missing break lets O stand for T.                             *)
calc_autoflagLoose(flag, key) ==
  IF flag = 4 THEN 4
  ELSE IF flag = 0 THEN IF key = A THEN 1 ELSE 0
  ELSE IF flag = 1 THEN IF key \in {U, A} THEN 2 ELSE IF key = 0 THEN 1 ELSE 0
  ELSE IF flag = 2 THEN IF key \in {T, O} THEN 3 ELSE IF key \in {0, U} THEN 2 ELSE 0
  ELSE IF key = O THEN 4 ELSE IF key \in {0, T} THEN 3 ELSE 0

(* A second report with A, or its release, is as good as U.                *)
calc_autoflag(flag, key) ==
  IF flag = 4 THEN 4
  ELSE IF flag = 0 THEN IF key = A THEN 1 ELSE 0
  ELSE IF flag = 1 THEN IF key \in {U, A} THEN 2 ELSE IF key = 0 THEN 1 ELSE 0
  ELSE IF flag = 2 THEN IF key = T THEN 3 ELSE IF key \in {0, U} THEN 2 ELSE 0
  ELSE IF key = O THEN 4 ELSE IF key \in {0, T} THEN 3 ELSE 0

Spelled(n, keys) ==
  IF n = 0 /\ A \in keys THEN 1
  ELSE IF n = 1 /\ T \in keys THEN 2
  ELSE IF n = 2 /\ O \in keys THEN 3 ELSE n

(* kbdPoll has returned a report.  temp_keycode keeps the last of the      *)
(* other keys, also when none is down any more; the auto bit is that of    *)
(* the flag before this report.                                            *)
Report(keys) ==
  /\ temp_keycode' \in IF keys \cap Others = {} THEN {temp_keycode} ELSE keys \cap Others
  /\ dfjk' = keys \cap Play
  /\ auto' = (auto_flag = 4)
  /\ keycode' = temp_keycode'
  /\ auto_flag' = calc_autoflag(auto_flag, temp_keycode')
  /\ spelled' = Spelled(spelled, keys)

(* KEY0 resets the processor with the rest of the board.                   *)
Reset ==
  /\ temp_keycode' = 0 /\ auto_flag' = 0 /\ keycode' = 0 /\ dfjk' = {} /\ auto' = FALSE /\ spelled' = 0

Next ==
  \/ \E keys \in SUBSET (Play \cup Others) : Cardinality(keys) <= ReportKeys /\ Report(keys)
  \/ Reset

Spec == Init /\ [][Next]_vars
-----------------------------------------------------------------------------
TypeOK ==
  /\ temp_keycode \in {0} \cup Others /\ keycode \in {0} \cup Others
  /\ auto_flag \in 0 .. 4 /\ spelled \in 0 .. 3
  /\ dfjk \subseteq Play /\ auto \in BOOLEAN

(* Auto mode is switched on by no accident of keys that are kept from      *)
(* earlier reports or come in one report together: A, T and O have been    *)
(* down in that order in three reports (mainnn.c:69-108, 170).  U need not *)
(* have been.                                                              *)
AutoTyped == auto_flag = 4 \/ auto => spelled = 3

(* What the judge takes for granted: auto mode, once on, goes off only     *)
(* with a reset, whatever is typed (mainnn.c:71-75, 145-148).              *)
AutoForGood == [][auto => auto' \/ Reset]_vars
=============================================================================
