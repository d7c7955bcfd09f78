------------------------------ MODULE UsbXfer ------------------------------
(***************************************************************************)
(* The reading of key reports: kbdPoll, XferInTransfer and XferDispatchPkt *)
(* over the MAX3421E and an interrupt endpoint of a keyboard.              *)
(*                                                                         *)
(* The program launches an IN, polls for HXFRDNIRQ, and reads the result;  *)
(* the chip carries the transaction out meanwhile.  A packet or its        *)
(* handshake can be lost, which the data toggles of both ends make up for. *)
(* Reports are numbered round, modulo Reports.                             *)
(***************************************************************************)
EXTENDS Integers

CONSTANTS
  USB_NAK_LIMIT, USB_RETRY_LIMIT,   (* 200 and 3: times a packet is sent.    *)
  Reports                           (* Report numbers: more than two.        *)

ASSUME XferAssumption ==
  /\ USB_NAK_LIMIT \in Nat \ {0} /\ USB_RETRY_LIMIT \in Nat \ {0}
  /\ Reports \in Nat /\ Reports > 2

VARIABLES
  pc, nak_count, retry_count, rcode,
  rcvToggle,              (* That of hid_ep[1].                              *)
  chipToggle,             (* RCVTOG of HCTL, as the chip keeps it.           *)
  busy, hxfrdn, hrsl,     (* A transaction, its end and its result.          *)
  fifo,                   (* The report in RCVFIFO, or none (RCVDAVIRQ).     *)
  devToggle, pending, cur,  (* The keyboard: its toggle, whether it has a    *)
                          (* report, and the number of that or the next one. *)
  got                     (* The number of the last report read.             *)

program == <<pc, nak_count, retry_count, rcode, rcvToggle, got>>
chip    == <<chipToggle, busy, hxfrdn, hrsl, fifo>>
device  == <<devToggle, pending, cur>>
xferVars == <<program, chip, device>>

None == -1

NextReport(n) == IF n + 1 = Reports THEN 0 ELSE n + 1

XferInit ==
  /\ pc = "idle" /\ nak_count = 0 /\ retry_count = 0 /\ rcode = "ok"
  /\ rcvToggle = 0 /\ chipToggle = 0 /\ busy = FALSE /\ hxfrdn = FALSE /\ hrsl = "ok" /\ fifo = None
  /\ devToggle = 0 /\ pending = FALSE /\ cur = 0 /\ got = Reports - 1
-----------------------------------------------------------------------------
(* kbdPoll: PERADDR and the toggle are set, and the first IN launched.     *)
kbdPoll ==
  /\ pc = "idle" /\ pc' = "launch"
  /\ chipToggle' = rcvToggle /\ nak_count' = 0 /\ retry_count' = 0 /\ rcode' = "ok"
  /\ UNCHANGED <<rcvToggle, got, busy, hxfrdn, hrsl, fifo, device>>

Launch ==
  /\ pc = "launch" /\ pc' = "wait" /\ busy' = TRUE /\ hrsl' = "busy"
  /\ UNCHANGED <<nak_count, retry_count, rcode, rcvToggle, got, chipToggle, hxfrdn, fifo, device>>

(* HXFRDNIRQ is seen and cleared.                                          *)
Done ==
  /\ pc = "wait" /\ hxfrdn /\ pc' = "result" /\ hxfrdn' = FALSE
  /\ UNCHANGED <<nak_count, retry_count, rcode, rcvToggle, got, chipToggle, busy, hrsl, fifo, device>>

(* The loop gives up after the 5 s of USB_XFER_TIMEOUT, which the chip     *)
(* does not take for a transaction that it carries out.                    *)
TimedOut ==
  /\ pc = "wait" /\ ~busy /\ ~hxfrdn
  /\ pc' = "idle" /\ rcode' = "0xff"
  /\ UNCHANGED <<nak_count, retry_count, rcvToggle, got, chip, device>>

Return(r) == rcode' = r /\ pc' = "idle"

(* The result of the transaction: a NAK or a timeout is retried, within    *)
(* its limit; any other failure is returned.                               *)
Result ==
  /\ pc = "result"
  /\ CASE hrsl = "NAK" ->
            /\ nak_count' = nak_count + 1 /\ UNCHANGED retry_count
            /\ IF nak_count' = USB_NAK_LIMIT THEN Return("NAK") ELSE pc' = "launch" /\ rcode' = rcode
       [] hrsl = "TIMEOUT" ->
            /\ retry_count' = retry_count + 1 /\ UNCHANGED nak_count
            /\ IF retry_count' = USB_RETRY_LIMIT THEN Return("TIMEOUT") ELSE pc' = "launch" /\ rcode' = rcode
       [] hrsl \in {"TOGERR", "error"} -> Return(hrsl) /\ UNCHANGED <<nak_count, retry_count>>
       [] hrsl = "ok" -> pc' = "received" /\ UNCHANGED <<rcode, nak_count, retry_count>>
  /\ UNCHANGED <<rcvToggle, got, chip, device>>

(* Mutant: the toggle the chip has come to is not saved.                   *)
ReceiveStale ==
  /\ pc = "received"
  /\ IF fifo = None THEN Return("0xf0") /\ UNCHANGED <<got, fifo>>
     ELSE Return("ok") /\ got' = fifo /\ fifo' = None
  /\ UNCHANGED <<rcvToggle, nak_count, retry_count, chipToggle, busy, hxfrdn, hrsl, device>>

(* The report, of one packet, is read, its interrupt cleared, and the      *)
(* chip's toggle saved.                                                    *)
Receive ==
  /\ pc = "received"
  /\ IF fifo = None THEN Return("0xf0") /\ UNCHANGED <<got, fifo, rcvToggle>>
     ELSE Return("ok") /\ got' = fifo /\ fifo' = None /\ rcvToggle' = chipToggle
  /\ UNCHANGED <<nak_count, retry_count, chipToggle, busy, hxfrdn, hrsl, device>>

Poll == kbdPoll \/ Launch \/ Done \/ TimedOut \/ Result \/ Receive

(* The program begins again: the chip is reset, and HID_init and the       *)
(* configuration set the toggles of both ends to DATA0.  A report not yet  *)
(* read is dropped and its number used again.                              *)
Enumerate ==
  /\ pc = "idle" /\ rcvToggle' = 0 /\ devToggle' = 0
  /\ busy' = FALSE /\ hxfrdn' = FALSE /\ fifo' = None
  /\ pending' = FALSE /\ cur' = NextReport(got)
  /\ UNCHANGED <<pc, nak_count, retry_count, rcode, got, chipToggle, hrsl>>
-----------------------------------------------------------------------------
(* The chip and the keyboard.                                              *)

Press ==
  /\ ~pending /\ pending' = TRUE
  /\ UNCHANGED <<program, chip, devToggle, cur>>

Finish(r) == busy' = FALSE /\ hxfrdn' = TRUE /\ hrsl' = r

NothingNew ==
  /\ busy /\ ~pending /\ Finish("NAK")
  /\ UNCHANGED <<program, chipToggle, fifo, device>>

(* The token or the packet is lost or damaged.                             *)
Lost ==
  /\ busy /\ \E r \in {"TIMEOUT", "error"} : Finish(r)
  /\ UNCHANGED <<program, chipToggle, fifo, device>>

Accept ==
  IF devToggle = chipToggle THEN Finish("ok") /\ fifo' = cur /\ chipToggle' = 1 - chipToggle
  ELSE Finish("TOGERR") /\ UNCHANGED <<fifo, chipToggle>>

(* The packet arrives; the keyboard goes on when it hears of it.           *)
Delivered ==
  /\ busy /\ pending /\ Accept
  /\ devToggle' = 1 - devToggle /\ pending' = FALSE /\ cur' = NextReport(cur)
  /\ UNCHANGED program

HandshakeLost ==
  /\ busy /\ pending /\ Accept
  /\ UNCHANGED <<program, device>>

(* The chip drops a transaction without a result.                          *)
Silent ==
  /\ busy /\ busy' = FALSE
  /\ UNCHANGED <<program, chipToggle, hxfrdn, hrsl, fifo, device>>

Bus == NothingNew \/ Lost \/ Delivered \/ HandshakeLost \/ Silent
-----------------------------------------------------------------------------
XferTypeOK ==
  /\ pc \in {"idle", "launch", "wait", "result", "received"}
  /\ nak_count \in 0 .. USB_NAK_LIMIT /\ retry_count \in 0 .. USB_RETRY_LIMIT
  /\ rcode \in {"ok", "NAK", "TIMEOUT", "TOGERR", "error", "0xf0", "0xff"}
  /\ rcvToggle \in 0 .. 1 /\ chipToggle \in 0 .. 1 /\ devToggle \in 0 .. 1
  /\ busy \in BOOLEAN /\ hxfrdn \in BOOLEAN /\ hrsl \in {"ok", "busy", "NAK", "TIMEOUT", "TOGERR", "error"}
  /\ fifo \in {None} \cup 0 .. Reports - 1 /\ pending \in BOOLEAN
  /\ cur \in 0 .. Reports - 1 /\ got \in 0 .. Reports - 1

(* The report about to be read is the one after the last, never that again *)
(* or a later one, however packets and handshakes are lost and transfers   *)
(* retried (transfer.c:198, 218-223).                                      *)
ReportsInOrder == pc = "received" /\ fifo # None => fifo = NextReport(got)

(* A poll ends, whatever mixture of NAKs, timeouts and silence the chip    *)
(* answers with (transfer.c:142-186).                                      *)
PollsEnd == pc # "idle" ~> pc = "idle"
=============================================================================
