------------------------------- MODULE SdBoot -------------------------------
(***************************************************************************)
(* Loading the SDRAM from the SD card: the state machine of sdcard_init    *)
(* (sdcard_init.sv), the host, and that of SdCardCtrl (SDCard.vhd), the    *)
(* controller, joined by the level signals rd, busy, error and by a        *)
(* four-phase handshake for each byte.                                     *)
(*                                                                         *)
(* Both run on the 50 MHz clock: a step is one cycle of it, and each       *)
(* machine sees the other's registers as they were before the step.  The   *)
(* exchange of bits with the card (START_TX, TX_BITS, GET_CMD_RESPONSE,    *)
(* RX_BITS, DESELECT, PULSE_SCLK) is the state TRANSFER, which lasts any   *)
(* number of cycles.  A byte of the card is its position on the card.      *)
(***************************************************************************)
EXTENDS Integers, Sequences

CONSTANTS
  WordBytes,   (* Bytes in an SDRAM word: 16.                               *)
  BlockWords,  (* Words in a block of the card: 32.                         *)
  Blocks,      (* Blocks to load: MAX_RAM_ADDRESS / 32.                     *)
  RamSize,     (* Words the SDRAM address reaches: 2^22.                    *)
  FirstAddr,   (* Where the first word goes: 0x3F0000.                      *)
  CardFails,   (* Whether the card may answer with an error.                *)
  ColdStart    (* Whether the FPGA may start without a reset.               *)

ASSUME SdAssumption ==
  /\ WordBytes \in Nat \ {0} /\ BlockWords \in Nat \ {0} /\ Blocks \in Nat \ {0}
  /\ RamSize \in Nat /\ Blocks * BlockWords <= RamSize
  /\ FirstAddr \in 0 .. RamSize - 1
  /\ CardFails \in BOOLEAN /\ ColdStart \in BOOLEAN

VARIABLES
  host,   (* sdcard_init: state_r with the byte awaited, ram_addr_r1, data_r *)
  ctrl,   (* SdCardCtrl: state_v, rtnState_v, byteCnt_v, rtnData_v, rx_v,    *)
          (* addr_v and the outputs busy_o, hndShk_o, error_o, data_o.       *)
  ram     (* What the SDRAM holds: the bytes of each word.                   *)

vars == <<host, ctrl, ram>>

BlockBytes == WordBytes * BlockWords
MaxWord    == Blocks * BlockWords        (* MAX_RAM_ADDRESS                  *)
ReadSize   == BlockBytes + 3             (* RD_BLK_SZ_C: token, data, CRC    *)

RamAddr(n) == (FirstAddr + n) % RamSize

HostReset == [st |-> "RESET", k |-> 0, n |-> 0, data |-> <<>>]

Init ==
  /\ host = HostReset
  /\ ctrl \in [st : {"START_INIT"}, rtn : {"SEND_CMD0"}, byteCnt : {0}, rtnData : {FALSE},
               rx : {"none"}, addr : {0}, data : {0}, hndShk : {FALSE}, error : {FALSE},
               busy : IF ColdStart THEN BOOLEAN ELSE {TRUE}]
  /\ ram = [a \in 0 .. RamSize - 1 |-> <<>>]
-----------------------------------------------------------------------------
(* The host.                                                               *)

Rd        == host.st = "READBLOCK" /\ host.n < MaxWord
Continue  == host.n \div BlockWords # 0
HostShk   == host.st = "READ_1"

HostResets ==
  /\ host.st = "RESET"
  /\ host' = IF ctrl.busy THEN host
             ELSE [host EXCEPT !.st = IF ctrl.error THEN "ERROR" ELSE "READBLOCK"]

(* Mutant: the end of the range is looked for one word too far.            *)
HostReadBlockOver ==
  /\ host.st = "READBLOCK"
  /\ host' = [host EXCEPT !.st = IF host.n > MaxWord THEN "DONE"
                                 ELSE IF ctrl.busy THEN "READ_0" ELSE @]

HostReadBlock ==
  /\ host.st = "READBLOCK"
  /\ host' = [host EXCEPT !.st = IF host.n >= MaxWord THEN "DONE"
                                 ELSE IF ctrl.busy THEN "READ_0" ELSE @]

Take == [host EXCEPT !.st = "READ_1", !.data = Append(@, ctrl.data)]

(* Only before a word's first byte may the block be over.                  *)
HostRead0 ==
  /\ host.st = "READ_0"
  /\ host' = IF host.k = 0 /\ ~ctrl.busy THEN [host EXCEPT !.st = "READBLOCK"]
             ELSE IF ctrl.hndShk THEN Take ELSE host

(* Mutant: the next byte is awaited before the controller lets go of this. *)
HostRead1Hasty ==
  /\ host.st = "READ_1"
  /\ host' = IF host.k = WordBytes - 1 THEN [host EXCEPT !.st = "WRITE", !.k = 0]
             ELSE [host EXCEPT !.st = "READ_0", !.k = @ + 1]

HostRead1 ==
  /\ host.st = "READ_1"
  /\ host' = IF ctrl.hndShk THEN host
             ELSE IF host.k = WordBytes - 1 THEN [host EXCEPT !.st = "WRITE", !.k = 0]
             ELSE [host EXCEPT !.st = "READ_0", !.k = @ + 1]

HostWait == host.st \in {"ERROR", "DONE"} /\ host' = host

(* The SDRAM acknowledges a word now or later.                             *)
HostWrite(ack) ==
  /\ host.st = "WRITE"
  /\ host' = IF ack THEN [host EXCEPT !.st = "READ_0", !.n = @ + 1, !.data = <<>>] ELSE host
  /\ ram' = IF ack THEN [ram EXCEPT ![RamAddr(host.n)] = host.data] ELSE ram

Host(ack) ==
  \/ HostWrite(ack)
  \/ UNCHANGED ram /\ (HostResets \/ HostReadBlock \/ HostRead0 \/ HostRead1 \/ HostWait)
-----------------------------------------------------------------------------
(* The controller.                                                         *)

(* Sending a command, or receiving a byte, then going on in state s.       *)
Transfer(s) == [ctrl EXCEPT !.st = "TRANSFER", !.rtn = s, !.busy = TRUE]
Proceed(s)  == [ctrl EXCEPT !.st = s, !.busy = TRUE]

(* What the card may have answered when the controller goes on in state s. *)
Answers(s) ==
  IF s = "RD_BLK" THEN {"none", "start"} \cup (IF CardFails THEN {"error"} ELSE {})
  ELSE IF s = "CHK_CMD0_RESPONSE" THEN {"idle", "error"}
  ELSE IF s = "CHK_ACMD41_RESPONSE"
       THEN {"idle", "active"} \cup (IF CardFails THEN {"error"} ELSE {})
  ELSE {ctrl.rx}

(* The byte received is the next of the block when it is data.             *)
EndTransfer ==
  IF ctrl.rtnData
  THEN ctrl' = [ctrl EXCEPT !.st = ctrl.rtn, !.busy = TRUE, !.hndShk = TRUE,
                  !.data = ctrl.addr * BlockBytes + (BlockBytes + 1 - ctrl.byteCnt)]
  ELSE \E a \in Answers(ctrl.rtn) :
         ctrl' = [ctrl EXCEPT !.st = ctrl.rtn, !.busy = TRUE, !.rx = a]

InTransfer == ctrl.st = "TRANSFER" /\ (EndTransfer \/ ctrl' = [ctrl EXCEPT !.busy = TRUE])

Initialise ==
  \/ /\ ctrl.st = "START_INIT"
     /\ ctrl' = [Transfer("SEND_CMD0") EXCEPT !.error = FALSE, !.hndShk = FALSE,
                   !.addr = 0, !.rtnData = FALSE]
  \/ ctrl.st = "SEND_CMD0" /\ ctrl' = Transfer("CHK_CMD0_RESPONSE")
  \/ /\ ctrl.st = "CHK_CMD0_RESPONSE"
     /\ ctrl' = Proceed(IF ctrl.rx = "idle" THEN "SEND_CMD8" ELSE "SEND_CMD0")
  \/ ctrl.st = "SEND_CMD8" /\ ctrl' = Transfer("GET_CMD8_RESPONSE")
  \/ ctrl.st = "GET_CMD8_RESPONSE" /\ ctrl' = Transfer("SEND_CMD55")
  \/ ctrl.st = "SEND_CMD55" /\ ctrl' = Transfer("SEND_CMD41")
  \/ ctrl.st = "SEND_CMD41" /\ ctrl' = Transfer("CHK_ACMD41_RESPONSE")
  \/ /\ ctrl.st = "CHK_ACMD41_RESPONSE"
     /\ ctrl' = Proceed(IF ctrl.rx = "active" THEN "WAIT_FOR_HOST_RW"
                        ELSE IF ctrl.rx = "idle" THEN "SEND_CMD55" ELSE "REPORT_ERROR")

(* Mutant: a further block is read from the address of the last.           *)
WaitForHostStale ==
  /\ ctrl.st = "WAIT_FOR_HOST_RW"
  /\ ctrl' = IF Rd THEN [Transfer("RD_BLK") EXCEPT !.byteCnt = ReadSize,
                           !.addr = IF Continue THEN @ ELSE host.n \div BlockWords]
             ELSE [ctrl EXCEPT !.busy = FALSE]

WaitForHost ==
  /\ ctrl.st = "WAIT_FOR_HOST_RW"
  /\ ctrl' = IF Rd THEN [Transfer("RD_BLK") EXCEPT !.byteCnt = ReadSize,
                           !.addr = IF Continue THEN @ + 1 ELSE host.n \div BlockWords]
             ELSE [ctrl EXCEPT !.busy = FALSE]

Receive(cnt, isData) ==
  ctrl' = [Transfer("RD_BLK") EXCEPT !.byteCnt = cnt, !.rtnData = isData]

(* A byte to prime, bytes until the start token, the data, the CRC.        *)
ReadBlock ==
  /\ ctrl.st = "RD_BLK"
  /\ IF ctrl.byteCnt = ReadSize THEN Receive(ReadSize - 1, FALSE)
     ELSE IF ctrl.byteCnt = ReadSize - 1
     THEN \/ ctrl.rx = "none" /\ Receive(ReadSize - 1, FALSE)
          \/ ctrl.rx = "start" /\ Receive(ReadSize - 2, TRUE)
          \/ ctrl.rx \notin {"none", "start"} /\ ctrl' = Proceed("REPORT_ERROR")
     ELSE IF ctrl.byteCnt > 0 THEN Receive(ctrl.byteCnt - 1, ctrl.byteCnt >= 3)
     ELSE ctrl' = [Transfer("WAIT_FOR_HOST_RW") EXCEPT !.rtnData = FALSE]

ReportError ==
  /\ ctrl.st = "REPORT_ERROR"
  /\ ctrl' = [ctrl EXCEPT !.error = TRUE, !.busy = FALSE]

Operate == InTransfer \/ Initialise \/ WaitForHost \/ ReadBlock \/ ReportError

Controller ==
  IF ctrl.st # "START_INIT" /\ (ctrl.hndShk \/ HostShk)
  THEN ctrl' = [ctrl EXCEPT !.hndShk = @ /\ ~HostShk]
  ELSE Operate
-----------------------------------------------------------------------------
Tick == Controller /\ \E ack \in BOOLEAN : Host(ack)

(* The reset key restarts both; the controller's handshake register and    *)
(* error code survive until START_INIT.                                    *)
Reset ==
  /\ host' = HostReset
  /\ ctrl' = [ctrl EXCEPT !.st = "START_INIT", !.busy = TRUE]
  /\ UNCHANGED ram

Next == Tick \/ Reset

Spec == Init /\ [][Next]_vars

(* The clock runs, and the card and the SDRAM answer in the end.           *)
Answered(s, rxs) ==
  Tick /\ ctrl.st = "TRANSFER" /\ ctrl.rtn = s /\ ctrl'.st # "TRANSFER" /\ ctrl'.rx \in rxs

FairSpec ==
  /\ Spec
  /\ WF_vars(Tick)
  /\ SF_vars(Tick /\ ctrl.st = "TRANSFER" /\ ctrl'.st # "TRANSFER")
  /\ SF_vars(Tick /\ host.st = "WRITE" /\ host'.st # "WRITE")
  /\ SF_vars(Answered("CHK_CMD0_RESPONSE", {"idle"}))
  /\ SF_vars(Answered("CHK_ACMD41_RESPONSE", {"active", "error"}))
  /\ SF_vars(Answered("RD_BLK", {"start", "error"}))
-----------------------------------------------------------------------------
CtrlStates ==
  {"START_INIT", "SEND_CMD0", "CHK_CMD0_RESPONSE", "SEND_CMD8", "GET_CMD8_RESPONSE", "SEND_CMD55",
   "SEND_CMD41", "CHK_ACMD41_RESPONSE", "WAIT_FOR_HOST_RW", "RD_BLK", "TRANSFER", "REPORT_ERROR"}

(* Every register keeps to its range; data_r never collects more than the  *)
(* bytes of a word.                                                        *)
TypeOK ==
  /\ host.st \in {"RESET", "READBLOCK", "READ_0", "READ_1", "WRITE", "ERROR", "DONE"}
  /\ host.k \in 0 .. WordBytes - 1 /\ host.n \in 0 .. MaxWord
  /\ host.data \in Seq(Nat) /\ Len(host.data) <= WordBytes
  /\ ctrl.st \in CtrlStates /\ ctrl.rtn \in CtrlStates
  /\ ctrl.byteCnt \in 0 .. ReadSize /\ ctrl.addr \in 0 .. Blocks - 1
  /\ ctrl.rx \in {"none", "start", "idle", "active", "error"}
  /\ ctrl.data \in 0 .. MaxWord * WordBytes - 1
  /\ ctrl.busy \in BOOLEAN /\ ctrl.hndShk \in BOOLEAN /\ ctrl.error \in BOOLEAN
  /\ ctrl.rtnData \in BOOLEAN

WordOfCard(n) == [b \in 1 .. WordBytes |-> n * WordBytes + b - 1]

(* Every word written so far is that of the card, byte for byte, at its    *)
(* place in the SDRAM (sdcard_init.sv:117-308), and the host leaves a      *)
(* block only when it has all of it: busy is low only between blocks,      *)
(* unless the controller has stalled on an error.                          *)
WordsInPlace ==
  /\ \A n \in 0 .. host.n - 1 : ram[RamAddr(n)] = WordOfCard(n)
  /\ host.st = "READBLOCK" => host.n % BlockWords = 0 /\ host.k = 0 /\ host.data = <<>>

(* The four-phase handshake: a side moves only after the other has         *)
(* (SDCard.vhd:91-94): ready rises while the host is not taking, falls     *)
(* only when it is; the byte stays put while ready is up.                  *)
FourPhase ==
  [][ \/ host' = HostReset
      \/ /\ ~ctrl.hndShk /\ ctrl'.hndShk => ~HostShk
         /\ ctrl.hndShk /\ ~ctrl'.hndShk => HostShk
         /\ ctrl.hndShk /\ ctrl'.hndShk => ctrl'.data = ctrl.data
         /\ ~HostShk /\ HostShk' => ctrl.hndShk
         /\ HostShk /\ ~HostShk' => ~ctrl.hndShk ]_vars

(* Once nobody resets any more, the card is loaded in the end, unless it   *)
(* answers with an error (SDCard.vhd:399, 460).                            *)
LoadEnds == <>[][Tick]_vars => <>[](host.st = "DONE" \/ ctrl.st = "REPORT_ERROR")

(* "You can't ignore any errors" (SDCard.vhd:98-103): when the controller  *)
(* stalls on an error, sdcard_init comes to raise ram_init_error, unless   *)
(* it is reset.                                                            *)
ErrorsReported == ctrl.st = "REPORT_ERROR" ~> host.st \in {"ERROR", "RESET"}
=============================================================================
