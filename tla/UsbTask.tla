------------------------------ MODULE UsbTask ------------------------------
(***************************************************************************)
(* The USB host of the Nios II program: the loop of usb_set, which calls   *)
(* MAX3421E_Task (the interrupt of the MAX3421E) and USB_Task (connecting  *)
(* and enumerating a device) and then looks at the state they left.        *)
(*                                                                         *)
(* The loop is sequential; the chip and the device change the chip's flags *)
(* and the bus between any two of its steps.  A control transfer is its    *)
(* result, which can be an error at any time.  The two speeds, for which   *)
(* MAX_busprobe does the same, are one state of the bus, "JK".             *)
(***************************************************************************)
EXTENDS Integers, FiniteSets

CONSTANTS
  USB_NUMDEVICES,   (* 8; addresses 1 .. USB_NUMDEVICES - 1 are given out.   *)
  NoDevice

ASSUME UsbAssumption == USB_NUMDEVICES \in Nat /\ USB_NUMDEVICES > 1

VARIABLES
  pc,               (* Where the loop is.                                    *)
  usb_task_state,
  devtable,         (* Of an address: epinfo, devclass.                      *)
  tmp_addr,         (* The address given last.                               *)
  hid_addr,         (* hid_device.addr.                                      *)
  expired,          (* The settle time, usb_delay, is over.                  *)
  runningdebugflag,
  device,           (* The class found by GetDriverandReport.                *)
  dev,              (* What is plugged in: a device class or NoDevice.       *)
  hirq,             (* The chip's flags: connection, bus event, frame.       *)
  seen,             (* The flags MaxIntHandler has read.                     *)
  busrst,           (* The bus reset is going on.                            *)
  sof               (* Frames are generated (SOFKAENAB).                     *)

program == <<pc, usb_task_state, devtable, tmp_addr, hid_addr, expired, runningdebugflag, device>>
chip    == <<hirq, busrst, sof>>
vars    == <<program, dev, chip, seen>>

(* usb_task_state (USB.h).                                                 *)
INITIALIZE           == 1
WAIT_FOR_DEVICE      == 3
ILLEGAL              == 4
ATTACHED             == 16
SETTLE               == 17
RESET_DEVICE         == 18
WAIT_RESET_COMPLETE  == 19
WAIT_SOF             == 20
GET_DESCRIPTOR_SIZE  == 21
ADDRESSING           == 32
CONFIGURING          == 48
RUNNING              == 64
ERROR                == 255

Mask(s)   == s - (s % 16)
DETACHED  == 0
HID_K     == 1
HID_M     == 2
Unknown   == 255      (* device = 0xFF.                                      *)

Addresses == 1 .. USB_NUMDEVICES - 1

NoEndpoint == [epinfo |-> "null", devclass |-> 0]

(* USB_init: only the default address 0 has an endpoint.                   *)
CleanTable ==
  [i \in 0 .. USB_NUMDEVICES |-> IF i = 0 THEN [epinfo |-> "dev0ep", devclass |-> 0] ELSE NoEndpoint]

Init ==
  /\ pc = "pll" /\ usb_task_state = INITIALIZE
  /\ devtable = [i \in 0 .. USB_NUMDEVICES |-> NoEndpoint]
  /\ tmp_addr = 0 /\ hid_addr = 0 /\ expired = TRUE
  /\ runningdebugflag = FALSE /\ device = Unknown
  /\ dev \in {NoDevice, HID_K, HID_M} /\ hirq = {} /\ seen = {}
  /\ busrst = FALSE /\ sof = FALSE
-----------------------------------------------------------------------------
(* MAX3421E.c                                                              *)

Samples == {IF dev = NoDevice THEN "SE0" ELSE "JK", "SE1"}

(* MAX_busprobe: the state it leaves for a sample of the bus, and whether  *)
(* it sets the mode, which starts the frames.  The end of a bus reset also *)
(* looks like a connection and is passed over.                             *)
Probed(bus, st) ==
  CASE bus = "JK" -> IF st = WAIT_RESET_COMPLETE THEN <<st, FALSE>> ELSE <<ATTACHED, TRUE>>
    [] bus = "SE1" -> <<ILLEGAL, FALSE>>
    [] bus = "SE0" -> IF Mask(st) # DETACHED THEN <<INITIALIZE, FALSE>> ELSE <<WAIT_FOR_DEVICE, TRUE>>

Quiet ==
  /\ pc = "task" /\ "CONDET" \notin hirq
  /\ pc' = "usb"
  /\ UNCHANGED <<usb_task_state, devtable, tmp_addr, hid_addr, expired, runningdebugflag, device,
                 dev, chip, seen>>

(* The interrupt is only that of a connection; a bus event found with it   *)
(* advances the state, whatever it is by then: to 2 or 5, which USB.h does *)
(* not have, when the bus is empty or illegal.                             *)
MaxIntHandler ==
  /\ pc = "task" /\ "CONDET" \in hirq
  /\ \E bus \in Samples :
       LET p == Probed(bus, usb_task_state)
       IN  /\ usb_task_state' = IF "BUSEVENT" \in hirq THEN (p[1] + 1) % 256 ELSE p[1]
           /\ sof' = (sof \/ p[2])
  /\ seen' = hirq /\ pc' = "ack"
  /\ UNCHANGED <<devtable, tmp_addr, hid_addr, expired, runningdebugflag, device, dev, hirq, busrst>>

Acknowledge ==
  /\ pc = "ack"
  /\ hirq' = hirq \ seen /\ seen' = {} /\ pc' = "usb"
  /\ UNCHANGED <<usb_task_state, devtable, tmp_addr, hid_addr, expired, runningdebugflag, device,
                 dev, busrst, sof>>

(* MAX3421E_init, from the oscillator on, and USB_init.                    *)
InitProbe ==
  /\ pc = "pll"
  /\ \E bus \in Samples :
       LET p == Probed(bus, usb_task_state)
       IN  usb_task_state' = p[1] /\ sof' = p[2]
  /\ pc' = "initack"
  /\ UNCHANGED <<devtable, tmp_addr, hid_addr, expired, runningdebugflag, device, dev, seen,
                 hirq, busrst>>

InitDone ==
  /\ pc = "initack"
  /\ hirq' = hirq \ {"CONDET"} /\ devtable' = CleanTable /\ pc' = "task"
  /\ UNCHANGED <<usb_task_state, tmp_addr, hid_addr, expired, runningdebugflag, device, dev, seen,
                 busrst, sof>>

MaxTask == Quiet \/ MaxIntHandler \/ Acknowledge \/ InitProbe \/ InitDone
-----------------------------------------------------------------------------
(* USB_Task (transfer.c).                                                  *)

Goto(s) == usb_task_state' = s

Detached ==
  /\ Mask(usb_task_state) = DETACHED
  /\ IF usb_task_state = INITIALIZE THEN devtable' = CleanTable /\ Goto(WAIT_FOR_DEVICE)
     ELSE UNCHANGED <<devtable, usb_task_state>>
  /\ UNCHANGED <<tmp_addr, hid_addr, expired, chip>>

Attach ==
  /\ \/ /\ usb_task_state = ATTACHED
        /\ expired' = FALSE /\ Goto(SETTLE) /\ UNCHANGED chip
     \/ /\ usb_task_state = SETTLE
        /\ Goto(IF expired THEN RESET_DEVICE ELSE SETTLE) /\ UNCHANGED <<expired, chip>>
     \/ /\ usb_task_state = RESET_DEVICE /\ Goto(WAIT_RESET_COMPLETE)
        /\ hirq' = hirq \ {"BUSEVENT"} /\ busrst' = TRUE /\ UNCHANGED <<expired, sof>>
     \/ /\ usb_task_state = WAIT_RESET_COMPLETE /\ Goto(IF busrst THEN WAIT_RESET_COMPLETE ELSE WAIT_SOF)
        /\ sof' = (sof \/ ~busrst) /\ UNCHANGED <<expired, hirq, busrst>>
     \/ /\ usb_task_state = WAIT_SOF
        /\ Goto(GET_DESCRIPTOR_SIZE) /\ UNCHANGED <<expired, chip>>
  /\ UNCHANGED <<devtable, tmp_addr, hid_addr>>

(* A control transfer succeeds only with a device; whatever follows the    *)
(* first one here is not looked at.                                        *)
Transfer == IF dev = NoDevice THEN {FALSE} ELSE BOOLEAN

GetDescriptor ==
  /\ usb_task_state = GET_DESCRIPTOR_SIZE
  /\ \E ok \in Transfer : Goto(IF ok THEN ADDRESSING ELSE ERROR)
  /\ UNCHANGED <<devtable, tmp_addr, hid_addr, expired, chip>>

(* Mutant: the address given has no endpoints.                             *)
GiveAddressBare ==
  /\ Mask(usb_task_state) = ADDRESSING
  /\ LET free == {i \in Addresses : devtable[i].epinfo = "null"}
     IN  IF free = {} THEN Goto(ERROR) /\ UNCHANGED <<devtable, tmp_addr>>
         ELSE \E ok \in Transfer :
                LET i == CHOOSE i \in free : \A j \in free : i <= j
                IN  /\ UNCHANGED devtable
                    /\ tmp_addr' = (IF ok THEN i ELSE tmp_addr) /\ Goto(IF ok THEN CONFIGURING ELSE ERROR)
  /\ UNCHANGED <<hid_addr, expired, chip>>

GiveAddress ==
  /\ Mask(usb_task_state) = ADDRESSING
  /\ LET free == {i \in Addresses : devtable[i].epinfo = "null"}
     IN  IF free = {} THEN Goto(ERROR) /\ UNCHANGED <<devtable, tmp_addr>>
         ELSE \E ok \in Transfer :
                LET i == CHOOSE i \in free : \A j \in free : i <= j
                IN  /\ devtable' = [devtable EXCEPT ![i].epinfo = devtable[0].epinfo]
                    /\ tmp_addr' = (IF ok THEN i ELSE tmp_addr) /\ Goto(IF ok THEN CONFIGURING ELSE ERROR)
  /\ UNCHANGED <<hid_addr, expired, chip>>

(* HIDMProbe or HIDKProbe: it knows the device of its class from its       *)
(* descriptors, fills in the tables and then configures the device.        *)
Configure ==
  /\ Mask(usb_task_state) = CONFIGURING
  /\ \E known \in Transfer, ok \in Transfer :
       /\ IF known THEN /\ devtable' = [devtable EXCEPT ![tmp_addr] = [epinfo |-> "hid_ep", devclass |-> dev]]
                        /\ hid_addr' = tmp_addr
          ELSE UNCHANGED <<devtable, hid_addr>>
       /\ IF known /\ ok THEN Goto(RUNNING)
          ELSE IF usb_task_state = CONFIGURING THEN Goto(ERROR) ELSE UNCHANGED usb_task_state
  /\ UNCHANGED <<tmp_addr, expired, chip>>

(* RUNNING does nothing.  So does ERROR, which the mask makes fall through *)
(* to the default.                                                         *)
Idle ==
  /\ Mask(usb_task_state) \in {RUNNING, Mask(ERROR)}
  /\ UNCHANGED <<usb_task_state, devtable, tmp_addr, hid_addr, expired, chip>>

USB_Task ==
  /\ pc = "usb" /\ pc' = "main"
  /\ Detached \/ Attach \/ GetDescriptor \/ GiveAddress \/ Configure \/ Idle
  /\ UNCHANGED <<runningdebugflag, device, dev, seen>>
-----------------------------------------------------------------------------
(* usb_set (mainnn.c).                                                     *)

(* GetDriverandReport: the class of the last device in the table.          *)
Driver ==
  LET used == {i \in Addresses : devtable[i].epinfo # "null"}
  IN  IF used = {} THEN Unknown
      ELSE devtable[CHOOSE i \in used : \A j \in used : j <= i].devclass

MainRunning ==
  /\ pc = "main" /\ usb_task_state = RUNNING
  /\ IF runningdebugflag THEN UNCHANGED <<runningdebugflag, device>>
     ELSE runningdebugflag' = TRUE /\ device' = Driver
  /\ pc' = "task"
  /\ UNCHANGED <<usb_task_state, devtable, tmp_addr, hid_addr, expired, dev, chip, seen>>

(* A device that ran is lost: the chip is reset and all is begun again.    *)
MainNotRunning ==
  /\ pc = "main" /\ usb_task_state # RUNNING
  /\ IF runningdebugflag
     THEN pc' = "pll" /\ runningdebugflag' = FALSE /\ hirq' = {} /\ busrst' = FALSE /\ sof' = FALSE
     ELSE pc' = "task" /\ UNCHANGED <<runningdebugflag, chip>>
  /\ UNCHANGED <<usb_task_state, devtable, tmp_addr, hid_addr, expired, device, dev, seen>>

Loop == MaxTask \/ USB_Task \/ MainRunning \/ MainNotRunning
-----------------------------------------------------------------------------
(* The chip, the device and time.                                          *)

Plug ==
  /\ dev = NoDevice /\ dev' \in {HID_K, HID_M} /\ hirq' = hirq \cup {"CONDET"}
  /\ UNCHANGED <<program, busrst, sof, seen>>

Unplug ==
  /\ dev # NoDevice /\ dev' = NoDevice /\ hirq' = hirq \cup {"CONDET"}
  /\ UNCHANGED <<program, busrst, sof, seen>>

(* The end of a bus reset is a bus event, and a connection as well         *)
(* (MAX3421E.c:144).                                                       *)
ResetEnds ==
  /\ busrst /\ busrst' = FALSE /\ hirq' = hirq \cup {"CONDET", "BUSEVENT"}
  /\ UNCHANGED <<program, dev, sof, seen>>

FrameStarts ==
  /\ sof /\ ~busrst /\ hirq' = hirq \cup {"FRAME"}
  /\ UNCHANGED <<program, dev, busrst, sof, seen>>

(* In 200 ms there are frames.                                             *)
Settled ==
  /\ ~expired /\ expired' = TRUE
  /\ hirq' = IF sof /\ ~busrst THEN hirq \cup {"FRAME"} ELSE hirq
  /\ UNCHANGED <<pc, usb_task_state, devtable, tmp_addr, hid_addr, runningdebugflag, device, dev,
                 busrst, sof, seen>>

Next == Loop \/ Plug \/ Unplug \/ ResetEnds \/ FrameStarts \/ Settled

Spec == Init /\ [][Next]_vars

(* The loop runs, a bus reset ends and time passes.                        *)
FairSpec == Spec /\ WF_vars(Loop) /\ WF_vars(ResetEnds) /\ WF_vars(Settled)
-----------------------------------------------------------------------------
Flags == {"CONDET", "BUSEVENT", "FRAME"}

TypeOK ==
  /\ pc \in {"pll", "initack", "task", "ack", "usb", "main"}
  /\ usb_task_state \in {INITIALIZE, 2, WAIT_FOR_DEVICE, ILLEGAL, 5, ATTACHED, SETTLE, RESET_DEVICE,
       WAIT_RESET_COMPLETE, WAIT_SOF, GET_DESCRIPTOR_SIZE, ADDRESSING, CONFIGURING, RUNNING, ERROR}
  /\ devtable \in [0 .. USB_NUMDEVICES -> [epinfo : {"null", "dev0ep", "hid_ep"}, devclass : 0 .. 2]]
  /\ tmp_addr \in 0 .. USB_NUMDEVICES - 1 /\ hid_addr \in 0 .. USB_NUMDEVICES - 1
  /\ expired \in BOOLEAN /\ runningdebugflag \in BOOLEAN /\ device \in {0, HID_K, HID_M, Unknown}
  /\ dev \in {NoDevice, HID_K, HID_M} /\ hirq \subseteq Flags /\ seen \subseteq Flags
  /\ busrst \in BOOLEAN /\ sof \in BOOLEAN

(* The address given last, the hard-wired address 1 that                   *)
(* GetDriverandReport asks (mainnn.c:22, 42) and the address kbdPoll reads *)
(* have endpoints when they are used.                                      *)
EndpointsThere ==
  pc \in {"usb", "main"} =>
    /\ devtable[0].epinfo = "dev0ep"
    /\ Mask(usb_task_state) \in {CONFIGURING, RUNNING} => devtable[tmp_addr].epinfo # "null"
    /\ usb_task_state = RUNNING => devtable[1].epinfo # "null" /\ devtable[hid_addr].epinfo = "hid_ep"

PollsTheLast ==
  runningdebugflag /\ usb_task_state = RUNNING =>
    hid_addr = tmp_addr /\ device = devtable[tmp_addr].devclass /\ device # 0

(* No transfer goes through the endpoints of an address that has none, and *)
(* what is polled is the device enumerated last, whatever other entries    *)
(* connections during earlier enumerations have left in the table          *)
(* (transfer.c:336-359, HID.c:19-201, mainnn.c:25-59).                     *)
DeviceTable == EndpointsThere /\ PollsTheLast

(* A device that is gone is no longer taken to run.                        *)
Gone == dev = NoDevice
Noticed == dev # NoDevice \/ usb_task_state # RUNNING

(* transfer.c:256: in the detached state nothing is connected, or it has   *)
(* just been and the interrupt is to come.                                 *)
DetachedIsEmpty ==
  usb_task_state = WAIT_FOR_DEVICE /\ pc \in {"task", "usb", "main"} =>
    dev = NoDevice \/ "CONDET" \in hirq

=============================================================================
