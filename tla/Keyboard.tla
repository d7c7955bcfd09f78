------------------------------ MODULE Keyboard ------------------------------
(***************************************************************************)
(* The keyboard's way into the game: UsbXfer carries its reports, and each *)
(* one that kbdPoll returns goes through AutoKeys to the PIOs, in the loop *)
(* of usb_set.  Reports are what is down on the keyboard, from KeySets.    *)
(***************************************************************************)
EXTENDS UsbXfer, AutoKeys

CONSTANT KeySets

ASSUME KeyboardAssumption ==
  \A keys \in KeySets : keys \subseteq Play \cup Others /\ Cardinality(keys) <= ReportKeys

VARIABLES
  down,                   (* The keys of the keyboard's report cur.          *)
  inFifo                  (* Those of the report in RCVFIFO.                 *)

keyboardVars == <<xferVars, vars, down, inFifo>>

KeyboardInit == XferInit /\ Init /\ down = {} /\ inFifo = {}

(* Mutant: a poll that ends with an error is taken for a report.           *)
usb_setHasty == pc # "idle" /\ pc' = "idle" /\ Report(inFifo)

(* A poll that returns 0 has a report; after any other result the loop     *)
(* begins again (mainnn.c:133-142).                                        *)
usb_set ==
  IF pc # "idle" /\ pc' = "idle" /\ rcode' = "ok" THEN Report(inFifo) ELSE UNCHANGED vars

Polls == Poll /\ usb_set /\ UNCHANGED down /\ inFifo' = (IF fifo' = None THEN {} ELSE inFifo)

Presses == /\ Press /\ \E keys \in KeySets : down' = keys
           /\ UNCHANGED <<inFifo, vars>>

Carries ==
  /\ Bus /\ inFifo' = (IF fifo' # fifo THEN down ELSE inFifo)
  /\ down' = (IF pending' THEN down ELSE {}) /\ UNCHANGED vars

(* KEY0 begins all again but the keyboard; it can come at any time.        *)
Restarts ==
  /\ Reset
  /\ pc' = "idle" /\ nak_count' = 0 /\ retry_count' = 0 /\ rcode' = "ok" /\ rcvToggle' = 0 /\ devToggle' = 0
  /\ busy' = FALSE /\ hxfrdn' = FALSE /\ fifo' = None /\ chipToggle' = 0 /\ hrsl' = "ok"
  /\ pending' = FALSE /\ cur' = NextReport(got) /\ down' = {} /\ inFifo' = {} /\ UNCHANGED got

Enumerates == Enumerate /\ down' = {} /\ inFifo' = {} /\ UNCHANGED vars

KeyboardNext == Polls \/ Presses \/ Carries \/ Enumerates \/ Restarts

(* The program polls, the bus works, and a packet that is sent again and   *)
(* again gets through.                                                     *)
KeyboardSpec ==
  /\ KeyboardInit /\ [][KeyboardNext]_keyboardVars
  /\ WF_keyboardVars(Polls) /\ WF_keyboardVars(Carries) /\ SF_keyboardVars(Carries /\ Delivered)
-----------------------------------------------------------------------------
KeyboardTypeOK == XferTypeOK /\ TypeOK /\ down \in KeySets \cup {{}} /\ inFifo \in KeySets \cup {{}}

Dropped(n) == got # n /\ ~pending /\ fifo = None /\ cur = NextReport(got)

(* From the keyboard to the board: the play keys of each report it has     *)
(* come to the PIO, whatever is lost on the way, unless an enumeration or  *)
(* a reset drops the report (transfer.c:191-227, mainnn.c:145-173); and    *)
(* every poll ends.                                                        *)
KeysArrive ==
  PollsEnd /\ \A n \in 0 .. Reports - 1, keys \in KeySets :
    (pending /\ cur = n /\ down = keys) ~> ((got = n /\ dfjk = keys \cap Play) \/ Dropped(n))
=============================================================================
