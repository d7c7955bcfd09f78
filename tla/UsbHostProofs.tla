--------------------------- MODULE UsbHostProofs ---------------------------
(***************************************************************************)
(* The USB host for any number of device addresses, any devices and any    *)
(* bytes, in its three views: the loop's tables, the transfers' answers    *)
(* and what is found out from them, and the register accesses, which       *)
(* implement RegisterFile.  At the end the three together.                 *)
(***************************************************************************)
EXTENDS UsbHost, SequenceTheorems, WellFoundedInduction, TLAPS

LEMMA LeastNumber ==
  ASSUME NEW S \in SUBSET Nat, S # {}
  PROVE  Min(S) \in S /\ \A j \in S : Min(S) <= j
<1>1. IsWellFoundedOn({p \in Nat \X Nat : p[1] < p[2]}, Nat)
  BY NatLessThanWellFounded DEF OpToRel
<1>2. PICK m \in S : \A j \in S : ~(<<j, m>> \in {p \in Nat \X Nat : p[1] < p[2]})
  BY <1>1, WFMin
<1>3. \A j \in S : m <= j
  <2> TAKE j \in S
  <2>1. m \in Nat /\ j \in Nat /\ ~(<<j, m>> \in {p \in Nat \X Nat : p[1] < p[2]})
    BY <1>2
  <2> QED
    BY <2>1
<1> QED
  BY <1>3 DEF Min
-----------------------------------------------------------------------------
(* The loop.                                                               *)
(* The states before a device is reset; those after.                       *)
Early == {INITIALIZE, 2, WAIT_FOR_DEVICE, ILLEGAL, 5, ATTACHED, SETTLE, RESET_DEVICE,
          WAIT_RESET_COMPLETE, WAIT_SOF}
Addressed == {CONFIGURING, RUNNING}

Used == {i \in Addresses : devtable[i].epinfo # "null"}

(* Addresses are given out from 1 up.                                      *)
TableInv ==
  /\ pc \notin {"pll", "initack"} => devtable[0].epinfo = "dev0ep"
  /\ \A i \in Used : 1 .. i \subseteq Used

(* The address given last is the highest.                                  *)
LastInv ==
  usb_task_state \in Addressed =>
    tmp_addr \in Used /\ (\A i \in Used : i <= tmp_addr)

RunInv ==
  usb_task_state = RUNNING =>
    /\ hid_addr = tmp_addr
    /\ devtable[tmp_addr].epinfo = "hid_ep" /\ devtable[tmp_addr].devclass \in {HID_K, HID_M}
    /\ runningdebugflag => device = devtable[tmp_addr].devclass

(* When the device that ran is lost, main sees it in the same loop.        *)
LoopInv ==
  /\ pc \in {"initack", "ack"} => usb_task_state \in Early
  /\ pc = "pll" => ~runningdebugflag /\ usb_task_state # RUNNING
  /\ runningdebugflag /\ usb_task_state # RUNNING =>
       pc \in {"ack", "usb", "main"} /\ (pc # "main" => usb_task_state \in Early)
  /\ pc = "initack" => ~runningdebugflag

TableIInv == TypeOK /\ TableInv /\ LastInv /\ RunInv /\ LoopInv
-----------------------------------------------------------------------------
States == Early \cup {GET_DESCRIPTOR_SIZE, ADDRESSING, CONFIGURING, RUNNING, ERROR}
Entry == [epinfo : {"null", "dev0ep", "hid_ep"}, devclass : 0 .. 2]

LEMMA MaskIs ==
  ASSUME NEW s \in States
  PROVE  /\ Mask(s) = DETACHED <=> s \in {INITIALIZE, 2, WAIT_FOR_DEVICE, ILLEGAL, 5}
         /\ Mask(s) = ADDRESSING <=> s = ADDRESSING
         /\ Mask(s) = CONFIGURING <=> s = CONFIGURING
         /\ Mask(s) \in {CONFIGURING, RUNNING} <=> s \in Addressed
         /\ Mask(s) \in {RUNNING, Mask(ERROR)} <=> s \in {RUNNING, ERROR}
<1> USE DEF States, Early, Addressed, Mask, DETACHED, INITIALIZE, WAIT_FOR_DEVICE, ILLEGAL, ATTACHED, SETTLE,
    RESET_DEVICE, WAIT_RESET_COMPLETE, WAIT_SOF, GET_DESCRIPTOR_SIZE, ADDRESSING, CONFIGURING, RUNNING, ERROR
<1> QED
  OBVIOUS

(* What a look at the bus leaves, and what a bus event makes of it.        *)
LEMMA ProbedIs ==
  ASSUME NEW s \in States, NEW b \in {"JK", "SE0", "SE1"}
  PROVE  /\ Probed(b, s)[1] \in Early /\ (Probed(b, s)[1] + 1) % 256 \in Early
         /\ Probed(b, s)[2] \in BOOLEAN
<1> USE DEF States, Early, Probed, Mask, DETACHED, INITIALIZE, WAIT_FOR_DEVICE, ILLEGAL, ATTACHED, SETTLE,
    RESET_DEVICE, WAIT_RESET_COMPLETE, WAIT_SOF, GET_DESCRIPTOR_SIZE, ADDRESSING, CONFIGURING, RUNNING, ERROR
<1>1. CASE b = "JK"
  BY <1>1
<1>2. CASE b = "SE1"
  BY <1>2
<1>3. CASE b = "SE0"
  BY <1>3
<1> QED
  BY <1>1, <1>2, <1>3

LEMMA Distinct ==
  /\ Early \cap Addressed = {} /\ RUNNING \in Addressed /\ CONFIGURING \in Addressed /\ CONFIGURING # RUNNING
  /\ ADDRESSING \notin Addressed \cup Early /\ ERROR \notin Addressed \cup Early
  /\ GET_DESCRIPTOR_SIZE \notin Addressed \cup Early
BY DEF Early, Addressed, INITIALIZE, WAIT_FOR_DEVICE, ILLEGAL, ATTACHED, SETTLE,
   RESET_DEVICE, WAIT_RESET_COMPLETE, WAIT_SOF, GET_DESCRIPTOR_SIZE, ADDRESSING, CONFIGURING, RUNNING, ERROR

Rest == TableInv /\ LastInv /\ RunInv /\ LoopInv

LEMMA TypeFacts ==
  ASSUME TypeOK
  PROVE  /\ usb_task_state \in States
         /\ devtable \in [0 .. USB_NUMDEVICES -> Entry]
         /\ Used \subseteq Addresses /\ Addresses \subseteq 0 .. USB_NUMDEVICES /\ 0 \notin Addresses
BY UsbAssumption DEF TypeOK, States, Early, Entry, Used, Addresses

LEMMA MaxTaskStep ==
  ASSUME TypeOK, Rest, MaxTask
  PROVE  TypeOK' /\ Rest'
<1> USE DEF Rest, TableInv, LastInv, RunInv, LoopInv, Used
<1>1. usb_task_state \in States
  BY TypeFacts
<1>2. ASSUME NEW b \in Samples
      PROVE  /\ Probed(b, usb_task_state)[1] \in Early /\ (Probed(b, usb_task_state)[1] + 1) % 256 \in Early
             /\ Probed(b, usb_task_state)[2] \in BOOLEAN
  BY <1>1, <1>2, ProbedIs DEF Samples
<1>3. CASE Quiet
  BY <1>3 DEF Quiet, TypeOK, chip
<1>4. CASE MaxIntHandler
  <2>1. usb_task_state' \in Early /\ sof' \in BOOLEAN
    BY <1>2, <1>4 DEF MaxIntHandler, TypeOK
  <2>2. usb_task_state' \notin Addressed /\ usb_task_state' # RUNNING
    BY <2>1, Distinct
  <2> QED
    BY <1>4, <2>1, <2>2 DEF MaxIntHandler, TypeOK, Early
<1>5. CASE Acknowledge
  BY <1>5 DEF Acknowledge, TypeOK
<1>6. CASE InitProbe
  <2>1. usb_task_state' \in Early /\ sof' \in BOOLEAN
    BY <1>2, <1>6 DEF InitProbe, TypeOK
  <2>2. usb_task_state' \notin Addressed /\ usb_task_state' # RUNNING
    BY <2>1, Distinct
  <2> QED
    BY <1>6, <2>1, <2>2 DEF InitProbe, TypeOK, Early
<1>7. CASE InitDone
  <2>1. CleanTable \in [0 .. USB_NUMDEVICES -> Entry] /\ CleanTable[0].epinfo = "dev0ep"
        /\ \A i \in Addresses : CleanTable[i].epinfo = "null"
    BY UsbAssumption DEF CleanTable, Entry, NoEndpoint, Addresses
  <2>2. usb_task_state' \notin Addressed /\ usb_task_state' # RUNNING
    BY <1>7, Distinct DEF InitDone
  <2> QED
    BY <1>7, <2>1, <2>2 DEF InitDone, TypeOK, Entry
<1> QED
  BY <1>3, <1>4, <1>5, <1>6, <1>7 DEF MaxTask

LEMMA MainStep ==
  ASSUME TypeOK, Rest, MainRunning \/ MainNotRunning
  PROVE  TypeOK' /\ Rest'
<1> USE DEF Rest, TableInv, LastInv, RunInv, LoopInv, Used
<1>1. CASE MainRunning
  <2>1. tmp_addr \in Used /\ \A i \in Used : i <= tmp_addr
    BY <1>1, Distinct DEF MainRunning
  <2>2. Used \subseteq Int /\ tmp_addr \in Addresses
    BY <2>1, UsbAssumption DEF Addresses
  <2>3. (CHOOSE i \in Used : \A j \in Used : j <= i) = tmp_addr
    BY <2>1, <2>2
  <2>4. Driver = devtable[tmp_addr].devclass
    BY <2>1, <2>3 DEF Driver
  <2>5. devtable[tmp_addr].devclass \in {HID_K, HID_M}
    BY <1>1 DEF MainRunning
  <2>6. device' = device \/ device' = devtable[tmp_addr].devclass
    BY <1>1, <2>4 DEF MainRunning
  <2>7. ~runningdebugflag => device' = devtable[tmp_addr].devclass
    BY <1>1, <2>4 DEF MainRunning
  <2>8. TypeOK'
    BY <1>1, <2>5, <2>6 DEF MainRunning, TypeOK, chip
  <2>9. device' = devtable[tmp_addr].devclass /\ runningdebugflag' = TRUE
    BY <1>1, <2>6, <2>7 DEF MainRunning, TypeOK
  <2> QED
    BY <1>1, <2>8, <2>9 DEF MainRunning
<1>2. CASE MainNotRunning
  <2>1. TypeOK'
    BY <1>2 DEF MainNotRunning, TypeOK, chip
  <2> QED
    BY <1>2, <2>1 DEF MainNotRunning
<1> QED
  BY <1>1, <1>2

LEMMA WorldStep ==
  ASSUME TypeOK, Rest, Plug \/ Unplug \/ ResetEnds \/ FrameStarts \/ Settled \/ UNCHANGED vars
  PROVE  TypeOK' /\ Rest'
<1>1. UNCHANGED <<pc, usb_task_state, devtable, tmp_addr, hid_addr, runningdebugflag, device>>
  BY DEF Plug, Unplug, ResetEnds, FrameStarts, Settled, vars, program
<1>2. Rest'
  BY <1>1 DEF Rest, TableInv, LastInv, RunInv, LoopInv, Used
<1>3. TypeOK'
  <2>1. hirq' \subseteq Flags
    BY DEF TypeOK, Plug, Unplug, ResetEnds, FrameStarts, Settled, vars, program, chip, Flags
  <2>2. dev' \in {NoDevice, HID_K, HID_M} /\ seen' = seen
    BY DEF TypeOK, Plug, Unplug, ResetEnds, FrameStarts, Settled, vars, program, chip
  <2>3. busrst' \in BOOLEAN /\ sof' = sof
    BY DEF TypeOK, Plug, Unplug, ResetEnds, FrameStarts, Settled, vars, program, chip
  <2>4. expired' \in BOOLEAN
    BY DEF TypeOK, Plug, Unplug, ResetEnds, FrameStarts, Settled, vars, program, chip
  <2> QED
    BY <1>1, <2>1, <2>2, <2>3, <2>4 DEF TypeOK
<1> QED
  BY <1>2, <1>3

LEMMA TaskStep ==
  ASSUME TypeOK, Rest, USB_Task
  PROVE  TypeOK' /\ Rest'
<1> USE DEF Rest, TableInv, LastInv, RunInv, LoopInv, Used
<1>0. /\ usb_task_state \in States /\ pc = "usb" /\ pc' = "main" /\ devtable[0].epinfo = "dev0ep"
      /\ UNCHANGED <<runningdebugflag, device, dev, seen>>
      /\ devtable \in [0 .. USB_NUMDEVICES -> Entry]
      /\ Addresses \subseteq 0 .. USB_NUMDEVICES /\ 0 \notin Addresses
      /\ runningdebugflag => usb_task_state \in Early \cup {RUNNING}
  BY TypeFacts DEF USB_Task
<1>1. CASE Detached
  <2>1. CleanTable \in [0 .. USB_NUMDEVICES -> Entry] /\ CleanTable[0].epinfo = "dev0ep"
        /\ \A i \in Addresses : CleanTable[i].epinfo = "null"
    BY UsbAssumption DEF CleanTable, Entry, NoEndpoint, Addresses
  <2>2. usb_task_state \in Early
    BY <1>0, <1>1, MaskIs DEF Detached, Early
  <2>3. usb_task_state' \in Early
    BY <1>1, <2>2 DEF Detached, Early, Goto
  <2>4. usb_task_state' \notin Addressed /\ usb_task_state' # RUNNING
    BY <2>3, Distinct
  <2>5. devtable' = CleanTable \/ devtable' = devtable
    BY <1>1 DEF Detached
  <2>6. TypeOK'
    BY <1>0, <1>1, <2>1, <2>3, <2>5 DEF Detached, TypeOK, Entry, Early, chip
  <2>7. devtable'[0].epinfo = "dev0ep" /\ \A i \in Used' : (1 .. i) \subseteq Used'
    BY <1>0, <2>1, <2>5
  <2> QED
    BY <1>0, <2>4, <2>6, <2>7
<1>2. CASE Attach
  <2>1. usb_task_state' \in Early \cup {GET_DESCRIPTOR_SIZE}
    BY <1>2 DEF Attach, Early, Goto
  <2>2. usb_task_state' \notin Addressed /\ usb_task_state' # RUNNING
    BY <2>1, Distinct
  <2>3. TypeOK'
    <3>1. hirq' \subseteq Flags
      BY <1>2 DEF Attach, TypeOK, chip
    <3>2. busrst' \in BOOLEAN /\ sof' \in BOOLEAN /\ expired' \in BOOLEAN
      BY <1>2 DEF Attach, TypeOK, chip
    <3>3. UNCHANGED <<devtable, tmp_addr, hid_addr>>
      BY <1>2 DEF Attach
    <3> QED
      BY <1>0, <2>1, <3>1, <3>2, <3>3 DEF TypeOK, Early
  <2> QED
    BY <1>0, <1>2, <2>2, <2>3 DEF Attach
<1>3. CASE GetDescriptor
  <2>1. usb_task_state' \in {ADDRESSING, ERROR}
    BY <1>3 DEF GetDescriptor, Goto
  <2>2. usb_task_state' \notin Addressed /\ usb_task_state' # RUNNING
    BY <2>1, Distinct
  <2>3. TypeOK'
    BY <1>0, <1>3, <2>1 DEF GetDescriptor, TypeOK, chip
  <2> QED
    BY <1>0, <1>3, <2>2, <2>3 DEF GetDescriptor
<1>4. CASE GiveAddress
  <2> DEFINE free == {i \in Addresses : devtable[i].epinfo = "null"}
             first == CHOOSE i \in free : \A j \in free : i <= j
  <2>1. usb_task_state = ADDRESSING /\ usb_task_state \notin Early \cup {RUNNING} /\ ~runningdebugflag
    BY <1>0, <1>4, MaskIs, Distinct DEF GiveAddress
  <2>2. CASE free = {}
    <3>1. usb_task_state' = ERROR /\ UNCHANGED <<devtable, tmp_addr, hid_addr, expired, chip>>
      BY <1>4, <2>2 DEF GiveAddress, Goto
    <3>2. TypeOK'
      BY <1>0, <3>1 DEF TypeOK, chip
    <3> QED
      BY <1>0, <2>1, <3>1, <3>2, Distinct
  <2>3. CASE free # {}
    <3>1. first \in free /\ \A j \in free : first <= j
      <4>1. free \in SUBSET Nat
        BY UsbAssumption DEF Addresses
      <4> HIDE DEF free
      <4> QED
        BY <2>3, <4>1, LeastNumber DEF Min
    <3>2. PICK ok \in Transfer :
            /\ devtable' = [devtable EXCEPT ![first].epinfo = devtable[0].epinfo]
            /\ tmp_addr' = (IF ok THEN first ELSE tmp_addr)
            /\ usb_task_state' = (IF ok THEN CONFIGURING ELSE ERROR)
            /\ UNCHANGED <<hid_addr, expired, chip>>
      BY <1>4, <2>3 DEF GiveAddress, Goto
    <3>3. ok \in BOOLEAN
      BY DEF Transfer
    <3>4. first \in Addresses /\ first # 0 /\ first \in Int
      BY <1>0, <3>1, UsbAssumption DEF Addresses
    <3>5. /\ devtable' \in [0 .. USB_NUMDEVICES -> Entry]
          /\ devtable'[0] = devtable[0] /\ devtable'[first].epinfo = "dev0ep"
          /\ \A i \in Addresses \ {first} : devtable'[i] = devtable[i]
      BY <1>0, <3>2, <3>4 DEF Entry
    <3>6. TypeOK'
      BY <1>0, <3>2, <3>3, <3>4, <3>5 DEF TypeOK, chip, Entry, Addresses
    <3>7. Used' = Used \cup {first}
      BY <3>4, <3>5
    <3>8. \A i \in Used : i < first
      <4> SUFFICES ASSUME NEW i \in Used, ~(i < first) PROVE FALSE
        OBVIOUS
      <4>1. first \in 1 .. i /\ 1 .. i \subseteq Used
        BY <3>4, UsbAssumption DEF Addresses
      <4> QED
        BY <3>1, <4>1
    <3>9. 1 .. first \subseteq Used'
      BY <3>1, <3>4, <3>7, UsbAssumption DEF Addresses
    <3>10. \A i \in Used' : (1 .. i) \subseteq Used'
      BY <3>7, <3>9
    <3>11. \A i \in Used' : i <= first
      BY <3>4, <3>7, <3>8, UsbAssumption DEF Addresses
    <3>12. usb_task_state' \in Addressed => tmp_addr' = first
      BY <3>2, <3>3, Distinct
    <3> QED
      BY <1>0, <2>1, <3>2, <3>5, <3>6, <3>7, <3>10, <3>11, <3>12, Distinct
  <2> QED
    BY <2>2, <2>3
<1>5. CASE Configure
  <2>1. usb_task_state = CONFIGURING /\ usb_task_state \notin Early \cup {RUNNING} /\ ~runningdebugflag
    BY <1>0, <1>5, MaskIs, Distinct DEF Configure
  <2>2. tmp_addr \in Used /\ tmp_addr \in Addresses /\ (\A i \in Used : i <= tmp_addr)
    BY <2>1, Distinct
  <2>3. PICK known \in Transfer, ok \in Transfer :
       /\ IF known THEN /\ devtable' = [devtable EXCEPT ![tmp_addr] = [epinfo |-> "hid_ep", devclass |-> dev]]
                        /\ hid_addr' = tmp_addr
          ELSE UNCHANGED <<devtable, hid_addr>>
       /\ usb_task_state' = IF known /\ ok THEN RUNNING ELSE ERROR
       /\ UNCHANGED <<tmp_addr, expired, chip>>
    BY <1>5, <2>1 DEF Configure, Goto
  <2>4. known \in BOOLEAN /\ ok \in BOOLEAN /\ (known => dev \in {HID_K, HID_M})
    BY DEF Transfer, TypeOK
  <2>5. CASE ~known
    <3>1. TypeOK'
      BY <1>0, <2>3, <2>5 DEF TypeOK, chip
    <3> QED
      BY <1>0, <2>1, <2>3, <2>5, <3>1, Distinct
  <2>6. CASE known
    <3>1. dev \in 0 .. 2 /\ dev \in {HID_K, HID_M}
      BY <2>4, <2>6 DEF HID_K, HID_M
    <3>0. [epinfo |-> "hid_ep", devclass |-> dev] \in Entry
      BY <3>1 DEF Entry
    <3>2. /\ devtable' \in [0 .. USB_NUMDEVICES -> Entry]
          /\ devtable'[0] = devtable[0] /\ devtable'[tmp_addr] = [epinfo |-> "hid_ep", devclass |-> dev]
          /\ \A i \in Addresses \ {tmp_addr} : devtable'[i] = devtable[i]
      <4> DEFINE e == [epinfo |-> "hid_ep", devclass |-> dev]
      <4>1. devtable' = [devtable EXCEPT ![tmp_addr] = e] /\ e \in Entry
        BY <2>3, <2>6, <3>0
      <4>2. tmp_addr \in 0 .. USB_NUMDEVICES /\ tmp_addr # 0 /\ 0 \in 0 .. USB_NUMDEVICES
        BY <2>2, UsbAssumption DEF Addresses
      <4> HIDE DEF e
      <4>3. devtable' \in [0 .. USB_NUMDEVICES -> Entry] /\ devtable'[tmp_addr] = e /\ devtable'[0] = devtable[0]
        BY <1>0, <4>1, <4>2
      <4>4. \A i \in Addresses \ {tmp_addr} : devtable'[i] = devtable[i]
        BY <1>0, <4>1, <4>2
      <4> QED
        BY <4>3, <4>4 DEF e
    <3>3. Used' = Used
      BY <2>2, <3>2
    <3>4. tmp_addr' = tmp_addr /\ hid_addr' = tmp_addr /\ UNCHANGED <<expired, chip>>
          /\ usb_task_state' \in {RUNNING, ERROR}
      BY <2>3, <2>6
    <3>5. TypeOK'
      BY <1>0, <3>2, <3>4 DEF TypeOK, chip, Entry
    <3>6. devtable'[0].epinfo = "dev0ep" /\ \A i \in Used' : 1 .. i \subseteq Used'
      BY <1>0, <3>2, <3>3
    <3>7. tmp_addr' \in Used' /\ \A i \in Used' : i <= tmp_addr'
      BY <2>2, <3>3, <3>4
    <3>8. hid_addr' = tmp_addr' /\ devtable'[tmp_addr'].epinfo = "hid_ep"
          /\ devtable'[tmp_addr'].devclass \in {HID_K, HID_M}
      BY <3>1, <3>2, <3>4
    <3> QED
      BY <1>0, <2>1, <3>5, <3>6, <3>7, <3>8
  <2> QED
    BY <2>4, <2>5, <2>6
<1>6. CASE Idle
  BY <1>0, <1>6 DEF Idle, TypeOK, chip
<1> QED
  BY <1>1, <1>2, <1>3, <1>4, <1>5, <1>6 DEF USB_Task

LEMMA TableInitially == Init => TableIInv
<1> SUFFICES ASSUME Init PROVE TableIInv
  OBVIOUS
<1>1. usb_task_state = INITIALIZE /\ usb_task_state \notin Addressed /\ usb_task_state # RUNNING
  BY Distinct DEF Init, Early
<1>2. Used = {}
  BY UsbAssumption DEF Init, Used, NoEndpoint, Addresses
<1>3. devtable \in [0 .. USB_NUMDEVICES -> Entry]
  BY DEF Init, NoEndpoint, Entry
<1>4. TypeOK
  <2>1. pc \in {"pll", "initack", "task", "ack", "usb", "main"} /\ usb_task_state = INITIALIZE
    BY DEF Init
  <2>2. tmp_addr \in 0 .. USB_NUMDEVICES - 1 /\ hid_addr \in 0 .. USB_NUMDEVICES - 1
    BY UsbAssumption DEF Init
  <2>3. expired \in BOOLEAN /\ runningdebugflag \in BOOLEAN /\ device \in {0, HID_K, HID_M, Unknown}
    BY DEF Init
  <2>4. /\ dev \in {NoDevice, HID_K, HID_M} /\ hirq \subseteq Flags /\ seen \subseteq Flags
        /\ busrst \in BOOLEAN /\ sof \in BOOLEAN
    BY DEF Init
  <2> QED
    BY <1>3, <2>1, <2>2, <2>3, <2>4 DEF TypeOK, Entry
<1> QED
  BY <1>1, <1>2, <1>4 DEF Init, TableIInv, TableInv, LastInv, RunInv, LoopInv

LEMMA TableStep == TableIInv /\ [Next]_vars => TableIInv'
  BY MaxTaskStep, MainStep, WorldStep, TaskStep DEF TableIInv, Rest, Next, Loop

LEMMA TableGivesDeviceTable == TableIInv => DeviceTable
<1> SUFFICES ASSUME TableIInv PROVE DeviceTable
  OBVIOUS
<1> USE DEF TableIInv, TableInv, LastInv, RunInv, Used
<1>1. usb_task_state \in States
  BY TypeFacts
<1>2. usb_task_state = RUNNING => devtable[1].epinfo # "null"
  <2> SUFFICES ASSUME usb_task_state = RUNNING PROVE 1 \in Used
    OBVIOUS
  <2> QED
    BY Distinct, UsbAssumption DEF Addresses
<1>3. EndpointsThere
  BY <1>1, <1>2, MaskIs, Distinct DEF EndpointsThere
<1>4. PollsTheLast
  BY Distinct DEF PollsTheLast, HID_K, HID_M
<1> QED
  BY <1>3, <1>4 DEF DeviceTable

(* In every state the driver's tables are what the state needs: addresses  *)
(* are given from 1 up, the one given last is the highest, and a device    *)
(* that runs is the one that main polls.                                   *)
THEOREM TableInvariant == Spec => []TableIInv
  BY TableInitially, TableStep, PTL DEF Spec

(* The states that use endpoints have them, and main polls the device that *)
(* runs, for any number of addresses.                                      *)
THEOREM DeviceTableTheorem == Spec => []DeviceTable
  BY TableInvariant, TableGivesDeviceTable, PTL
-----------------------------------------------------------------------------
(* The transfers.                                                          *)
Counting(n) == [i \in 1 .. n |-> i]
Whole == Least(nbytes, Length)

(* The interface the drivers look at, with an endpoint after it.           *)
First == Min(Interfaces)
Usable(kinds) == Interfaces # {} /\ plugged.conf[First] \in kinds /\ EndpointsFrom(First) # {}

(* Host and device agree on what is transferred, and while their toggles   *)
(* do, on where they are.                                                  *)
AnswerInv ==
  /\ stage = "none" <=> req \in {"none", "running", "error"}
  /\ stage = "setup" => bytes = <<>>
  /\ stage = "data" =>
       /\ req \in GetRequests /\ devreq = req /\ devbytes = nbytes
       /\ bytes = Counting(Len(bytes)) /\ devpos <= Whole
       /\ toggle = devtoggle => Len(bytes) = devpos
  /\ stage = "status" /\ req \in GetRequests => bytes = Counting(Whole)

(* What the host has found out so far.                                     *)
FoundInv ==
  /\ req \notin {"none", "size", "error"} => maxpkt = plugged.pkt
  /\ req = "size" => maxpkt = Head8 /\ nbytes = Head8
  /\ req \in {"head", "whole", "configure", "protocol"} => probe \in {"mouse", "keyboard"}
  /\ req \in {"configure", "protocol", "running"} =>
       Usable({devclass}) /\ endpoint = Min(EndpointsFrom(First))
  /\ req = "running" => configured /\ addr = devaddr

(* As long as nothing was lost, nothing has failed.                        *)
CleanInv ==
  clean =>
    /\ addr = devaddr
    /\ "maker" \in strings => plugged.maker > 0
    /\ "product" \in strings => plugged.product > 0
    /\ req \in {"makerHead", "maker"} => plugged.maker > 0
    /\ req \in {"productHead", "product"} => plugged.product > 0
    /\ req = "protocol" => configured
    /\ probe = "keyboard" => ~Usable({"mouse"})
    /\ req = "error" => ~Usable({"keyboard", "mouse"})
    /\ stage = "data" => toggle = devtoggle
    /\ stage \in {"data", "status"} => devreq = req

EnumerateInv == EnumerateTypeOK /\ AnswerInv /\ FoundInv /\ CleanInv
-----------------------------------------------------------------------------
Requests == GetRequests \cup SetRequests
Resting == {"none", "running", "error"}

LEMMA DeviceFacts ==
  ASSUME plugged \in Devices
  PROVE  /\ plugged.pkt \in Nat \ {0} /\ plugged.len \in Nat \ {0}
         /\ plugged.maker \in Nat /\ plugged.product \in Nat
         /\ Len(plugged.conf) \in Nat \ {0} /\ Length \in Nat
         /\ Interfaces \subseteq Nat /\ \A i : EndpointsFrom(i) \subseteq Nat
<1>1. /\ plugged.pkt \in Nat \ {0} /\ plugged.len \in Nat \ {0}
      /\ plugged.maker \in Nat /\ plugged.product \in Nat
      /\ plugged.conf \in Seq(Kinds) /\ plugged.conf # <<>>
  BY EnumerateAssumption
<1>2. Len(plugged.conf) \in Nat \ {0} /\ DOMAIN plugged.conf \subseteq Nat
  BY <1>1, EmptySeq
<1>3. Length \in Nat
  BY <1>1, <1>2 DEF Length
<1> QED
  BY <1>1, <1>2, <1>3 DEF Interfaces, EndpointsFrom

LEMMA LengthIs ==
  /\ req \in {"size", "device"} => Length = plugged.len
  /\ req \in {"makerHead", "maker"} => Length = plugged.maker
  /\ req \in {"productHead", "product"} => Length = plugged.product
  /\ req \in {"head", "whole"} => Length = Len(plugged.conf)
<1>1. req \in {"size", "device"} => Length = plugged.len
  BY Zenon DEF Length
<1>2. req \in {"makerHead", "maker"} => Length = plugged.maker
  BY Zenon DEF Length
<1>3. req \in {"productHead", "product"} => Length = plugged.product
  BY Zenon DEF Length
<1>4. req \in {"head", "whole"} => Length = Len(plugged.conf)
  BY Zenon DEF Length
<1> QED
  BY <1>1, <1>2, <1>3, <1>4

(* A refusal to one that was asked for nothing wrong has not been met.     *)
LEMMA CleanAccepts ==
  ASSUME EnumerateInv, clean, stage \in {"data", "status"}
  PROVE  ~Refuses
<1>1. stage # "none" /\ req \in Requests
  BY DEF EnumerateInv, AnswerInv, EnumerateTypeOK, Requests
<1>2. req \in {"makerHead", "maker"} => plugged.maker > 0
  BY DEF EnumerateInv, CleanInv
<1>3. req \in {"productHead", "product"} => plugged.product > 0
  BY DEF EnumerateInv, CleanInv
<1>4. req = "protocol" => configured
  BY DEF EnumerateInv, CleanInv
<1>5. req \in GetRequests => Length # 0
  <2>1. plugged.len # 0 /\ Len(plugged.conf) # 0 /\ plugged.maker \in Nat /\ plugged.product \in Nat
    BY DeviceFacts DEF EnumerateInv, EnumerateTypeOK
  <2>2. CASE req \in {"size", "device"}
    BY <2>1, <2>2, LengthIs
  <2>3. CASE req \in {"makerHead", "maker"}
    <3>1. Length = plugged.maker
      BY <2>3, LengthIs, Zenon
    <3>2. plugged.maker > 0
      BY <1>2, <2>3
    <3> QED
      BY <2>1, <3>1, <3>2
  <2>4. CASE req \in {"productHead", "product"}
    <3>1. Length = plugged.product
      BY <2>4, LengthIs, Zenon
    <3>2. plugged.product > 0
      BY <1>3, <2>4
    <3> QED
      BY <2>1, <3>1, <3>2
  <2>5. CASE req \in {"head", "whole"}
    BY <2>1, <2>5, LengthIs
  <2> QED
    BY <2>2, <2>3, <2>4, <2>5 DEF GetRequests
<1> QED
  BY <1>4, <1>5 DEF Refuses

(* What the device's side keeps to.                                        *)
DeviceTypes ==
  /\ devaddr \in 0 .. 1 /\ {configured, boot, clean} \subseteq BOOLEAN
  /\ devreq \in GetRequests \cup SetRequests \cup {"none"} /\ devbytes \in Nat /\ devpos \in Nat
  /\ devtoggle \in 0 .. 1

(* What follows a request whose descriptor was asked for.                  *)
LEMMA DescriptorStep ==
  ASSUME NEW ok \in BOOLEAN, DescriptorRequests(ok)
  PROVE  \/ /\ req = "size" /\ strings' = strings
            /\ \/ ok /\ maxpkt' = plugged.pkt /\ XferCtrlReq("device", plugged.len)
               \/ ~ok /\ Stop("error") /\ maxpkt' = maxpkt
         \/ /\ req = "device" /\ strings' \subseteq {"maker", "product"} /\ NextString /\ maxpkt' = maxpkt
            /\ ok /\ "maker" \in strings' => plugged.maker > 0
            /\ ok /\ "product" \in strings' => plugged.product > 0
         \/ /\ req = "makerHead" /\ strings' = strings /\ maxpkt' = maxpkt
            /\ (ok /\ XferCtrlReq("maker", plugged.maker)) \/ (\E n \in Nat : XferCtrlReq("maker", n))
         \/ /\ req = "productHead" /\ strings' = strings /\ maxpkt' = maxpkt
            /\ (ok /\ XferCtrlReq("product", plugged.product)) \/ (\E n \in Nat : XferCtrlReq("product", n))
         \/ /\ req \in {"maker", "product"} /\ strings' = strings \ {req}
            /\ NextString /\ maxpkt' = maxpkt
<1>1. CASE req = "size"
  BY <1>1 DEF DescriptorRequests
<1>2. CASE req = "device"
  <2>1. /\ strings' \in ReadOr(ok, {s \in {"maker", "product"} : plugged[s] > 0}, SUBSET {"maker", "product"})
        /\ NextString /\ maxpkt' = maxpkt
    BY <1>2 DEF DescriptorRequests
  <2>2. strings' \subseteq {"maker", "product"}
    BY <2>1, Zenon DEF ReadOr
  <2>3. ok => strings' = {s \in {"maker", "product"} : plugged[s] > 0}
    BY <2>1, Zenon DEF ReadOr
  <2>4. ok /\ "maker" \in strings' => plugged.maker > 0
    BY <2>3, Zenon
  <2>5. ok /\ "product" \in strings' => plugged.product > 0
    BY <2>3, Zenon
  <2> QED
    BY <1>2, <2>1, <2>2, <2>4, <2>5
<1>3. CASE req = "makerHead"
  <2>1. strings' = strings /\ maxpkt' = maxpkt /\ \E n \in ReadOr(ok, plugged.maker, Garbage) : XferCtrlReq("maker", n)
    BY <1>3 DEF DescriptorRequests
  <2>2. Garbage \subseteq Nat
    BY DEF Garbage
  <2>3. (ok /\ XferCtrlReq("maker", plugged.maker)) \/ (\E n \in Nat : XferCtrlReq("maker", n))
    BY <2>1, <2>2, Zenon DEF ReadOr
  <2> QED
    BY <1>3, <2>1, <2>3
<1>4. CASE req = "productHead"
  <2>1. strings' = strings /\ maxpkt' = maxpkt /\ \E n \in ReadOr(ok, plugged.product, Garbage) : XferCtrlReq("product", n)
    BY <1>4 DEF DescriptorRequests
  <2>2. Garbage \subseteq Nat
    BY DEF Garbage
  <2>3. (ok /\ XferCtrlReq("product", plugged.product)) \/ (\E n \in Nat : XferCtrlReq("product", n))
    BY <2>1, <2>2, Zenon DEF ReadOr
  <2> QED
    BY <1>4, <2>1, <2>3
<1>5. CASE req \in {"maker", "product"}
  BY <1>5 DEF DescriptorRequests
<1> QED
  BY <1>1, <1>2, <1>3, <1>4, <1>5 DEF DescriptorRequests

(* The end of a request, good or bad, and what follows it.                 *)
LEMMA ReturnType ==
  ASSUME EnumerateInv, NEW ok \in BOOLEAN, Return(ok), plugged' = plugged, DeviceTypes'
  PROVE  /\ EnumerateTypeOK' /\ AnswerInv'
         /\ req \in Requests /\ stage' \in {"none", "setup"}
<1> USE DEF EnumerateInv, EnumerateTypeOK
<1>1. plugged.pkt \in Nat /\ plugged.len \in Nat /\ Len(plugged.conf) \in Nat
      /\ plugged.maker \in Nat /\ plugged.product \in Nat /\ Head8 \in Nat
  BY DeviceFacts DEF Head8
<1>2. req \in Requests
  BY DEF Return, DescriptorRequests, AddressRequest, Probe, Requests, GetRequests, SetRequests
<1>3. ASSUME NextString, strings' \subseteq {"maker", "product"}
      PROVE  \E r \in Requests : XferCtrlReq(r, 0) \/ XferCtrlReq(r, Head8)
  BY <1>3 DEF NextString, Requests, GetRequests, SetRequests
<1>4. ASSUME NextProbe
      PROVE  /\ probe' \in {"none", "mouse", "keyboard"}
             /\ (\E r \in Requests : XferCtrlReq(r, Head8)) \/ Stop("error")
  BY <1>4 DEF NextProbe, Requests, GetRequests
<1>5. /\ (\E r \in Requests, n \in Nat : XferCtrlReq(r, n)) \/ (\E r \in Resting : Stop(r))
      /\ strings' \subseteq {"maker", "product"} /\ maxpkt' \in Nat
      /\ addr' \in 0 .. 1 /\ probe' \in {"none", "mouse", "keyboard"}
      /\ devclass' \in {"none", "mouse", "keyboard"} /\ endpoint' \in Nat
  <2>1. CASE DescriptorRequests(ok) /\ UNCHANGED <<addr, probe, devclass, endpoint>>
    <3>1. {"device", "maker", "product"} \subseteq Requests /\ "error" \in Resting
      BY DEF Requests, GetRequests, Resting
    <3>2. NextString /\ strings' \subseteq {"maker", "product"} => \E r \in Requests, n \in Nat : XferCtrlReq(r, n)
      BY <1>1, <1>3
    <3>3. /\ (\E r \in Requests, n \in Nat : XferCtrlReq(r, n)) \/ (\E r \in Resting : Stop(r))
          /\ strings' \subseteq {"maker", "product"} /\ maxpkt' \in Nat
      BY <1>1, <2>1, <3>1, <3>2, DescriptorStep
    <3> QED
      BY <2>1, <3>3
  <2>2. CASE AddressRequest(ok) /\ UNCHANGED <<strings, maxpkt, devclass, endpoint>>
    <3>1. \/ addr' = 1 /\ probe' = "mouse" /\ XferCtrlReq("head", Head8)
          \/ Stop("error") /\ UNCHANGED <<addr, probe>>
      BY <2>2 DEF AddressRequest
    <3>2. "head" \in Requests /\ "error" \in Resting
      BY DEF Requests, GetRequests, Resting
    <3> QED
      BY <1>1, <2>2, <3>1, <3>2
  <2>3. CASE Probe(ok) /\ UNCHANGED <<strings, maxpkt, addr>>
    <3>1. ASSUME Parse
          PROVE  /\ (\E r \in Requests, n \in Nat : XferCtrlReq(r, n)) \/ (\E r \in Resting : Stop(r))
                 /\ probe' \in {"none", "mouse", "keyboard"}
                 /\ devclass' \in {"none", "mouse", "keyboard"} /\ endpoint' \in Nat
      <4>1. EndpointsFrom(First) # {} => Min(EndpointsFrom(First)) \in Nat
        BY DeviceFacts, LeastNumber
      <4> QED
        BY <1>1, <1>4, <3>1, <4>1 DEF Parse, Requests, SetRequests, Resting, First
    <3> QED
      BY <1>1, <1>4, <2>3, <3>1 DEF Probe, Requests, GetRequests, SetRequests, Resting
  <2> QED
    BY <2>1, <2>2, <2>3 DEF Return
<1>6. /\ naks' = 0 /\ retries' = 0 /\ bytes' = <<>> /\ nbytes' \in Nat /\ toggle' \in 0 .. 1
      /\ \/ stage' = "setup" /\ req' \in Requests
         \/ stage' = "none" /\ req' \in Resting
  BY <1>5 DEF XferCtrlReq, Stop
<1>7. EnumerateTypeOK'
  BY <1>5, <1>6, EnumerateAssumption DEF DeviceTypes, Requests, Resting
<1>8. AnswerInv'
  BY <1>6 DEF AnswerInv, Requests, Resting, GetRequests, SetRequests
<1> QED
  BY <1>2, <1>6, <1>7, <1>8
LEMMA SameDevice ==
  ASSUME plugged' = plugged
  PROVE  /\ Interfaces' = Interfaces /\ First' = First
         /\ \A i : EndpointsFrom(i)' = EndpointsFrom(i)
         /\ EndpointsFrom(First)' = EndpointsFrom(First)
         /\ \A K : Usable(K)' <=> Usable(K)
         /\ Usable({devclass})' <=> (Interfaces # {} /\ plugged.conf[First] = devclass' /\ EndpointsFrom(First) # {})
<1>1. Interfaces' = Interfaces
  BY DEF Interfaces
<1>2. First' = First
  BY <1>1 DEF First
<1>3. \A i : EndpointsFrom(i)' = EndpointsFrom(i)
  BY DEF EndpointsFrom
<1>4. EndpointsFrom(First)' = EndpointsFrom(First)
  BY <1>2 DEF EndpointsFrom
<1>5. \A K : Usable(K)' <=> Usable(K)
  BY <1>1, <1>2, <1>4 DEF Usable
<1>6. Usable({devclass})' <=> (Interfaces # {} /\ plugged.conf[First] = devclass' /\ EndpointsFrom(First) # {})
  BY <1>1, <1>2, <1>4 DEF Usable
<1> QED
  BY <1>1, <1>2, <1>3, <1>4, <1>5, <1>6

(* A descriptor that was read in full matches the driver that probes, or   *)
(* cannot be used by it.                                                   *)
LEMMA ParseStep ==
  ASSUME Parse, probe \in {"mouse", "keyboard"}
  PROVE  \/ NextProbe /\ ~Usable({probe})
         \/ /\ Usable({probe}) /\ devclass' = probe /\ endpoint' = Min(EndpointsFrom(First))
            /\ probe' = probe /\ XferCtrlReq("configure", 0)
<1>1. CASE ~Matches
  BY <1>1, Zenon DEF Parse, Matches, Usable, First
<1>2. CASE Matches /\ EndpointsFrom(First) = {}
  BY <1>2, Zenon DEF Parse, Usable, First
<1>3. CASE Matches /\ EndpointsFrom(First) # {}
  <2>1. Interfaces # {} /\ plugged.conf[First] = probe
    BY <1>3, Zenon DEF Matches, First
  <2>2. Usable({probe})
    BY <1>3, <2>1, Zenon DEF Usable
  <2> QED
    BY <1>3, <2>2, Zenon DEF Parse, First
<1> QED
  BY <1>1, <1>2, <1>3

(* The device has been told what the host takes it to have been told.      *)
Carried(ok) ==
  /\ clean' => clean /\ ok /\ addr' = devaddr'
  /\ configured => configured'
  /\ clean' /\ req = "configure" => configured'
  /\ ok /\ req = "protocol" => configured' /\ addr' = devaddr'

LEMMA ReturnKeeps ==
  ASSUME EnumerateInv, NEW ok \in BOOLEAN, Return(ok), plugged' = plugged, Carried(ok), DeviceTypes'
  PROVE  FoundInv' /\ CleanInv'
<1>1. /\ req \in Requests /\ stage' \in {"none", "setup"} /\ req # "error"
      /\ strings \subseteq {"maker", "product"} /\ strings' \subseteq {"maker", "product"}
      /\ {clean, clean'} \subseteq BOOLEAN
  <2>1. EnumerateTypeOK' /\ req \in Requests /\ stage' \in {"none", "setup"}
    BY ReturnType
  <2> QED
    BY <2>1 DEF EnumerateInv, EnumerateTypeOK, Requests, GetRequests, SetRequests
<1>2. clean' => clean /\ ok /\ addr' = devaddr'
  BY DEF Carried
<1>3. /\ req # "size" => maxpkt = plugged.pkt
      /\ req \in {"head", "whole", "configure", "protocol"} => probe \in {"mouse", "keyboard"}
      /\ req \in {"configure", "protocol"} => Usable({devclass}) /\ endpoint = Min(EndpointsFrom(First))
  BY <1>1 DEF EnumerateInv, FoundInv, Requests, GetRequests, SetRequests
<1>4. clean =>
        /\ "maker" \in strings => plugged.maker > 0
        /\ "product" \in strings => plugged.product > 0
        /\ req = "makerHead" => plugged.maker > 0
        /\ req = "productHead" => plugged.product > 0
        /\ probe = "keyboard" => ~Usable({"mouse"})
  BY DEF EnumerateInv, CleanInv
<1>5. \A K : Usable(K)' <=> Usable(K)
  BY SameDevice
<1>6. Usable({"keyboard", "mouse"}) => Usable({"keyboard"}) \/ Usable({"mouse"})
  BY Zenon DEF Usable
<1>7. ASSUME NextProbe, probe \in {"mouse", "keyboard"}, clean' => ~Usable({probe})
      PROVE  /\ req' \in {"head", "error"} /\ stage' \in {"none", "setup"}
             /\ req' = "head" => probe' = "keyboard"
             /\ clean' /\ probe' = "keyboard" => ~Usable({"mouse"})
             /\ clean' /\ req' = "error" => ~Usable({"keyboard", "mouse"})
  <2>1. CASE probe = "mouse"
    BY <1>7, <2>1 DEF NextProbe, XferCtrlReq
  <2>2. CASE probe = "keyboard"
    <3>1. clean' => ~Usable({"keyboard"}) /\ ~Usable({"mouse"})
      BY <1>2, <1>4, <1>7, <2>2
    <3>2. probe' = "none" /\ req' = "error" /\ stage' = "none"
      BY <1>7, <2>2 DEF NextProbe, Stop
    <3> QED
      BY <1>6, <3>1, <3>2
  <2> QED
    BY <1>7, <2>1, <2>2
<1>8. ASSUME NextString, clean' => ("maker" \in strings' => plugged.maker > 0),
             clean' => ("product" \in strings' => plugged.product > 0)
      PROVE  /\ req' \in {"address", "makerHead", "productHead"} /\ stage' = "setup"
             /\ clean' /\ req' = "makerHead" => plugged.maker > 0
             /\ clean' /\ req' = "productHead" => plugged.product > 0
  <2>1. "maker" \notin strings' /\ strings' # {} => "product" \in strings'
    BY <1>1
  <2> QED
    BY <1>8, <2>1 DEF NextString, XferCtrlReq
<1> DEFINE Found ==
             /\ req' \notin {"none", "size"} /\ (req' # "error" => maxpkt' = plugged.pkt)
             /\ req' \in {"head", "whole", "configure", "protocol"} => probe' \in {"mouse", "keyboard"}
             /\ req' \in {"configure", "protocol", "running"} =>
                  Usable({devclass})' /\ endpoint' = Min(EndpointsFrom(First))
             /\ req' = "running" => configured' /\ addr' = devaddr'
           Clean ==
             clean' =>
               /\ "maker" \in strings' => plugged.maker > 0
               /\ "product" \in strings' => plugged.product > 0
               /\ req' \in {"makerHead", "maker"} => plugged.maker > 0
               /\ req' \in {"productHead", "product"} => plugged.product > 0
               /\ req' = "protocol" => configured'
               /\ probe' = "keyboard" => ~Usable({"mouse"})
               /\ req' = "error" => ~Usable({"keyboard", "mouse"})
<1>9. ASSUME DescriptorRequests(ok) /\ UNCHANGED <<addr, probe, devclass, endpoint>>
      PROVE  Found /\ Clean
  <2>1. CASE req = "size"
    <3>1. \/ ok /\ maxpkt' = plugged.pkt /\ req' = "device" /\ strings' = strings
          \/ ~ok /\ req' = "error" /\ strings' = strings
      BY <1>9, <2>1, DescriptorStep DEF XferCtrlReq, Stop
    <3> QED
      BY <1>2, <1>4, <1>9, <3>1
  <2>2. CASE req = "device"
    <3>1. /\ NextString /\ maxpkt' = maxpkt
          /\ ok /\ "maker" \in strings' => plugged.maker > 0
          /\ ok /\ "product" \in strings' => plugged.product > 0
      BY <1>9, <2>2, DescriptorStep
    <3>2. /\ clean' => ("maker" \in strings' => plugged.maker > 0)
          /\ clean' => ("product" \in strings' => plugged.product > 0)
      BY <1>2, <3>1
    <3> QED
      BY <1>2, <1>3, <1>4, <1>8, <1>9, <2>2, <3>1, <3>2
  <2>3. CASE req \in {"makerHead", "productHead"}
    <3>1. /\ maxpkt' = maxpkt /\ strings' = strings
          /\ req = "makerHead" => req' = "maker"
          /\ req = "productHead" => req' = "product"
      BY <1>9, <2>3, DescriptorStep DEF XferCtrlReq
    <3> QED
      BY <1>2, <1>3, <1>4, <1>9, <2>3, <3>1
  <2>4. CASE req \in {"maker", "product"}
    <3>1. NextString /\ maxpkt' = maxpkt /\ strings' = strings \ {req}
      BY <1>9, <2>4, DescriptorStep
    <3>2. /\ clean' => ("maker" \in strings' => plugged.maker > 0)
          /\ clean' => ("product" \in strings' => plugged.product > 0)
      BY <1>2, <1>4, <3>1
    <3> QED
      BY <1>2, <1>3, <1>4, <1>8, <1>9, <2>4, <3>1, <3>2
  <2> QED
    BY <1>9, <2>1, <2>2, <2>3, <2>4, DescriptorStep
<1>10. ASSUME AddressRequest(ok) /\ UNCHANGED <<strings, maxpkt, devclass, endpoint>>
      PROVE  Found /\ Clean
  <2>1. \/ ok /\ req = "address" /\ probe' = "mouse" /\ req' = "head"
        \/ ~ok /\ req' = "error"
    BY <1>10 DEF AddressRequest, XferCtrlReq, Stop
  <2> QED
    BY <1>2, <1>3, <1>4, <1>10, <2>1
<1>11. ASSUME Probe(ok) /\ UNCHANGED <<strings, maxpkt, addr>>
      PROVE  Found /\ Clean
  <2>1. /\ req \in {"head", "whole", "configure", "protocol"}
        /\ probe \in {"mouse", "keyboard"} /\ maxpkt = plugged.pkt
    <3>1. req \in {"head", "whole", "configure", "protocol"}
      BY <1>11 DEF Probe
    <3> QED
      BY <1>3, <3>1
  <2>2. ASSUME NextProbe, clean' => ~Usable({probe})
        PROVE  Found /\ Clean
    BY <1>2, <1>4, <1>7, <1>11, <2>1, <2>2
  <2>3. CASE ~ok
    BY <1>2, <1>11, <2>2, <2>3 DEF Probe
  <2>4. CASE req = "head" /\ ok
    <3>1. req' = "whole" /\ probe' = probe
      BY <1>11, <2>4 DEF Probe, XferCtrlReq
    <3> QED
      BY <1>2, <1>4, <1>11, <2>1, <3>1
  <2>5. CASE req = "whole" /\ ok
    <3>1. Parse
      BY <1>11, <2>5 DEF Probe
    <3>2. CASE NextProbe /\ ~Usable({probe})
      BY <2>2, <3>2
    <3>3. CASE /\ Usable({probe}) /\ devclass' = probe /\ endpoint' = Min(EndpointsFrom(First))
               /\ probe' = probe /\ XferCtrlReq("configure", 0)
      <4>1. req' = "configure"
        BY <3>3 DEF XferCtrlReq
      <4>2. Interfaces # {} /\ plugged.conf[First] = probe /\ EndpointsFrom(First) # {}
        BY <3>3, Zenon DEF Usable
      <4>3. Usable({devclass})'
        BY <3>3, <4>2, SameDevice
      <4> QED
        BY <1>2, <1>4, <1>11, <2>1, <3>3, <4>1, <4>3
    <3> QED
      BY <2>1, <3>1, <3>2, <3>3, ParseStep
  <2>6. CASE req \in {"configure", "protocol"} /\ ok
    <3>1. /\ probe' = probe /\ devclass' = devclass /\ endpoint' = endpoint
          /\ req = "configure" => req' = "protocol"
          /\ req = "protocol" => req' = "running"
      BY <1>11, <2>6 DEF Probe, XferCtrlReq, Stop
    <3>2. Usable({devclass}) /\ endpoint = Min(EndpointsFrom(First))
      BY <1>3, <2>6
    <3>3. Usable({devclass})'
      BY <3>1, <3>2, SameDevice, Zenon DEF Usable
    <3>4. /\ clean' /\ req = "configure" => configured'
          /\ req = "protocol" => configured' /\ addr' = devaddr'
      BY <2>6 DEF Carried
    <3> QED
      BY <1>2, <1>4, <1>11, <2>1, <2>6, <3>1, <3>2, <3>3, <3>4
  <2> QED
    BY <2>1, <2>3, <2>4, <2>5, <2>6
<1>12. Found /\ Clean
  BY <1>9, <1>10, <1>11 DEF Return
<1>13. FoundInv'
  <2>1. EndpointsFrom(First)' = EndpointsFrom(First)
    BY SameDevice
  <2> QED
    BY <1>12, <2>1 DEF FoundInv
<1>14. CleanInv'
  <2>1. stage' \in {"none", "setup"} /\ plugged' = plugged
    BY <1>1
  <2> QED
    BY <1>2, <1>5, <1>12, <2>1 DEF CleanInv
<1> QED
  BY <1>13, <1>14

LEMMA GivingUpKeeps ==
  ASSUME EnumerateInv, Return(FALSE), ~clean', plugged' = plugged, configured' = configured, DeviceTypes'
  PROVE  EnumerateInv'
<1>1. Carried(FALSE)
  BY DEF Carried
<1> QED
  BY <1>1, ReturnType, ReturnKeeps DEF EnumerateInv

(* A packet that is sent again changes nothing but the counts.             *)
LEMMA RetryKeeps ==
  ASSUME EnumerateInv, NEW r, TryAgain(r), UNCHANGED <<task, stage, nbytes, bytes, toggle>>,
         UNCHANGED <<plugged, devaddr, configured>>, clean' => clean, DeviceTypes',
         UNCHANGED devxfer \/ stage = "setup" \/ (stage = "status" /\ ~clean')
  PROVE  EnumerateInv'
<1>1. naks' \in 0 .. USB_NAK_LIMIT - 1 /\ retries' \in 0 .. USB_RETRY_LIMIT - 1
  BY EnumerateAssumption DEF TryAgain, EnumerateInv, EnumerateTypeOK
<1>2. EnumerateTypeOK'
  BY <1>1 DEF EnumerateInv, EnumerateTypeOK, DeviceTypes, task
<1>3. Length' = Length /\ Whole' = Whole
  BY Zenon DEF Length, Whole, Least, task
<1>4. AnswerInv'
  BY <1>3 DEF EnumerateInv, AnswerInv, task, devxfer
<1>5. EndpointsFrom(First)' = EndpointsFrom(First) /\ \A K : Usable(K)' <=> Usable(K)
  BY SameDevice
<1>6. Usable({devclass})' <=> Usable({devclass})
  BY Zenon DEF Usable, First, Interfaces, EndpointsFrom, task
<1>7. FoundInv'
  BY <1>5, <1>6 DEF EnumerateInv, FoundInv, task
<1>8. CleanInv'
  BY <1>5 DEF EnumerateInv, CleanInv, task, devxfer
<1> QED
  BY <1>2, <1>4, <1>7, <1>8 DEF EnumerateInv

LEMMA DispatchKeeps ==
  ASSUME EnumerateInv, NEW r, XferDispatchPkt(r), UNCHANGED <<plugged, devaddr, configured>>, ~clean',
         UNCHANGED devxfer \/ stage # "data" \/ r \notin {"NAK", "TIMEOUT"},
         stage # "none", DeviceTypes'
  PROVE  EnumerateInv'
<1>1. CASE GivesUp(r) /\ Return(FALSE)
  BY <1>1, GivingUpKeeps
<1>2. CASE TryAgain(r) /\ UNCHANGED <<task, stage, nbytes, bytes, toggle>>
  <2>1. stage \in {"none", "setup", "data", "status"}
    BY DEF EnumerateInv, EnumerateTypeOK
  <2>2. r \in {"NAK", "TIMEOUT"}
    BY <1>2 DEF TryAgain
  <2> QED
    BY <1>2, <2>1, <2>2, RetryKeeps
<1> QED
  BY <1>1, <1>2 DEF XferDispatchPkt

(* The packet is the next part of the answer, none left out, and a short   *)
(* one only at its end.                                                    *)
LEMMA PacketIs ==
  ASSUME EnumerateInv, stage = "data"
  PROVE  /\ Len(Packet) \in Nat /\ devpos + Len(Packet) <= Whole
         /\ Packet = [i \in 1 .. Len(Packet) |-> devpos + i]
         /\ Len(bytes) = devpos /\ TransferEnds(Packet) => devpos + Len(Packet) = Whole
<1>1. /\ devbytes = nbytes /\ nbytes \in Nat /\ devpos \in Nat /\ maxpkt \in Nat /\ devpos <= Whole
  BY DEF EnumerateInv, EnumerateTypeOK, AnswerInv
<1>2. plugged.pkt \in Nat \ {0} /\ Length \in Nat
  BY DeviceFacts DEF EnumerateInv, EnumerateTypeOK
<1>3. maxpkt <= plugged.pkt
  <2>1. req \in GetRequests
    BY DEF EnumerateInv, AnswerInv
  <2>2. maxpkt = plugged.pkt \/ maxpkt = 1
    BY <2>1 DEF EnumerateInv, FoundInv, GetRequests, Head8
  <2> HIDE DEF EnumerateInv
  <2> QED
    BY <1>2, <2>2
<1> DEFINE w == Whole
           k == plugged.pkt
           n == Least(k, w - devpos)
<1>4. w \in Nat /\ w <= nbytes /\ devpos <= w /\ k \in Nat \ {0} /\ maxpkt <= k
  BY <1>1, <1>2, <1>3 DEF Whole, Least
<1>5. Packet = [i \in 1 .. n |-> devpos + i]
  BY <1>1 DEF Packet, Whole
<1> HIDE DEF w, k
<1>6. n \in Nat /\ devpos + n <= w /\ (devpos + n = w \/ (n = k /\ devpos + n < w))
  BY <1>1, <1>4 DEF Least
<1> HIDE DEF n
<1>7. Len(Packet) = n
  BY <1>5, <1>6
<1>8. ASSUME Len(bytes) = devpos, TransferEnds(Packet)
      PROVE  devpos + n = w
  <2>1. n < maxpkt \/ devpos + n >= nbytes
    BY <1>7, <1>8 DEF TransferEnds
  <2> QED
    BY <1>1, <1>4, <1>6, <2>1
<1> QED
  BY <1>5, <1>6, <1>7, <1>8 DEF w

LEMMA CountingOn ==
  ASSUME NEW m \in Nat, NEW n \in Nat
  PROVE  /\ Counting(m) \o [i \in 1 .. n |-> m + i] = Counting(m + n)
         /\ Len(Counting(m)) = m /\ Counting(m) \in Seq(Nat)
<1>1. [i \in 1 .. n |-> m + i] \in Seq(Nat) /\ Counting(m) \in Seq(Nat)
  BY DEF Counting
<1>2. Len([i \in 1 .. n |-> m + i]) = n /\ Len(Counting(m)) = m /\ Len(Counting(m + n)) = m + n
  BY DEF Counting
<1> DEFINE s == Counting(m)
           t == [i \in 1 .. n |-> m + i]
<1>3. s \o t \in Seq(Nat) /\ Len(s \o t) = m + n
  BY <1>1, <1>2, ConcatProperties
<1>4. \A i \in 1 .. m + n : (s \o t)[i] = i
  <2> TAKE i \in 1 .. m + n
  <2>1. (s \o t)[i] = IF i <= m THEN s[i] ELSE t[i - m]
    BY <1>1, <1>2, <1>3, ConcatProperties
  <2>2. i <= m => s[i] = i
    BY DEF Counting
  <2>3. i > m => t[i - m] = i
    <3> HAVE i > m
    <3>1. i - m \in 1 .. n
      OBVIOUS
    <3>2. t[i - m] = m + (i - m)
      BY <3>1
    <3> QED
      BY <3>2
  <2> HIDE DEF s, t
  <2> QED
    BY <2>1, <2>2, <2>3
<1>5. s \o t = [i \in 1 .. m + n |-> i]
  <2>1. s \o t = [i \in 1 .. m + n |-> (s \o t)[i]]
    <3> HIDE DEF s, t
    <3>1. s \o t \in [1 .. m + n -> Nat]
      BY <1>3, LenProperties
    <3> QED
      BY <3>1
  <2> HIDE DEF s, t
  <2> QED
    BY <1>4, <2>1
<1> QED
  BY <1>1, <1>2, <1>5 DEF Counting

LEMMA SetupKeeps ==
  ASSUME EnumerateInv, Setup
  PROVE  EnumerateInv'
<1>1. stage = "setup" /\ UNCHANGED <<plugged, devaddr, configured, boot>>
  BY DEF Setup
<1>2. /\ req \in Requests /\ bytes = <<>> /\ Length \in Nat /\ nbytes \in Nat
      /\ clean \in BOOLEAN
  <2>1. req \in Requests /\ bytes = <<>> /\ nbytes \in Nat /\ clean \in BOOLEAN
    BY <1>1 DEF EnumerateInv, EnumerateTypeOK, AnswerInv, Requests
  <2>2. Length \in Nat
    BY DeviceFacts DEF EnumerateInv, EnumerateTypeOK
  <2> QED
    BY <2>1, <2>2
<1>3. CASE Hears /\ devreq' = req /\ devbytes' = nbytes /\ devpos' = 0 /\ devtoggle' = 1
  <2>1. ASSUME clean' \in BOOLEAN
        PROVE  DeviceTypes'
    BY <1>1, <1>2, <1>3, <2>1 DEF EnumerateInv, EnumerateTypeOK, DeviceTypes, Requests
  <2>2. CASE SetupDone /\ UNCHANGED clean
    <3>1. /\ UNCHANGED <<task, nbytes, bytes>> /\ toggle' = 1 /\ naks' = 0 /\ retries' = 0
          /\ req \in GetRequests => stage' = "data"
          /\ req \notin GetRequests => stage' = "status"
          /\ stage' \in {"data", "status"}
      BY <2>2 DEF SetupDone
    <3>2. EnumerateTypeOK'
      BY <1>1, <1>2, <2>1, <2>2, <3>1, EnumerateAssumption
         DEF EnumerateInv, EnumerateTypeOK, task, DeviceTypes
    <3>3. Length' = Length /\ Whole' = Whole /\ 0 <= Whole
      <4>1. Length' = Length /\ Whole' = Whole
        BY <1>1, <3>1, Zenon DEF Length, Whole, Least, task
      <4> QED
        BY <1>2, <4>1 DEF Whole, Least
    <3>4. bytes' = Counting(Len(bytes')) /\ Len(bytes') = 0
      BY <1>2, <3>1 DEF Counting
    <3>5. AnswerInv'
      <4>1. req' = req /\ nbytes' = nbytes
        BY <3>1 DEF task
      <4>2. req \notin Resting
        BY <1>2 DEF Requests, GetRequests, SetRequests, Resting
      <4> HIDE DEF EnumerateInv
      <4> QED
        BY <1>3, <3>1, <3>3, <3>4, <4>1, <4>2 DEF AnswerInv, Resting
    <3>6. EndpointsFrom(First)' = EndpointsFrom(First) /\ \A K : Usable(K)' <=> Usable(K)
      BY <1>1, SameDevice
    <3>7. Usable({devclass})' <=> Usable({devclass})
      BY <1>1, <3>1, Zenon DEF Usable, First, Interfaces, EndpointsFrom, task
    <3>8. FoundInv'
      BY <1>1, <3>1, <3>6, <3>7 DEF EnumerateInv, FoundInv, task
    <3>9. CleanInv'
      BY <1>1, <1>3, <2>2, <3>1, <3>6 DEF EnumerateInv, CleanInv, task
    <3> QED
      BY <3>2, <3>5, <3>8, <3>9 DEF EnumerateInv
  <2>3. CASE XferDispatchPkt("TIMEOUT") /\ clean' = FALSE
    <3> HIDE DEF EnumerateInv
    <3> QED
      BY <1>1, <2>1, <2>3, DispatchKeeps
  <2> QED
    BY <1>3, <2>2, <2>3 DEF Setup
<1>4. CASE XferDispatchPkt("TIMEOUT") /\ clean' = FALSE /\ UNCHANGED devxfer
  <2>1. DeviceTypes'
    BY <1>1, <1>4 DEF EnumerateInv, EnumerateTypeOK, DeviceTypes, devxfer
  <2> QED
    BY <1>1, <1>4, <2>1, DispatchKeeps
<1> QED
  BY <1>3, <1>4 DEF Setup

LEMMA DataKeeps ==
  ASSUME EnumerateInv, Data
  PROVE  EnumerateInv'
<1>1. /\ stage = "data" /\ UNCHANGED <<plugged, devaddr, configured, boot>>
      /\ \/ devpos' = devpos + Len(Packet) /\ devtoggle' = 1 - devtoggle /\ UNCHANGED <<devreq, devbytes, clean>>
         \/ clean' = FALSE /\ UNCHANGED devxfer
  BY DEF Data
<1>2. /\ req \in GetRequests /\ devreq = req /\ devbytes = nbytes /\ bytes = Counting(Len(bytes))
      /\ devpos <= Whole /\ devpos \in Nat /\ Len(bytes) \in Nat /\ nbytes \in Nat
      /\ toggle \in 0 .. 1 /\ devtoggle \in 0 .. 1 /\ clean \in BOOLEAN /\ bytes \in Seq(Nat)
  BY <1>1, LenProperties DEF EnumerateInv, EnumerateTypeOK, AnswerInv
<1>3. Len(Packet) \in Nat
  BY <1>1, PacketIs
<1>4. DeviceTypes'
  <2>1. devaddr \in 0 .. 1 /\ configured \in BOOLEAN /\ boot \in BOOLEAN
    BY DEF EnumerateInv, EnumerateTypeOK
  <2>2. devpos' \in Nat /\ devtoggle' \in 0 .. 1 /\ clean' \in BOOLEAN
    <3> DEFINE n == Len(Packet)
    <3>1. n \in Nat
      BY <1>3
    <3>2. devpos' \in {devpos, devpos + n} /\ devtoggle' \in {devtoggle, 1 - devtoggle} /\ clean' \in {clean, FALSE}
      BY <1>1, Zenon DEF devxfer
    <3>3. devpos \in Nat /\ devtoggle \in 0 .. 1 /\ clean \in BOOLEAN
      BY <1>2
    <3> HIDE DEF EnumerateInv, n
    <3>4. devpos' \in Nat
      BY <3>1, <3>2, <3>3
    <3>5. devtoggle' \in 0 .. 1
      BY <3>2, <3>3
    <3>6. clean' \in BOOLEAN
      BY <3>2, <3>3, Zenon
    <3> QED
      BY <3>4, <3>5, <3>6
  <2>3. devreq' = req /\ devbytes' \in Nat /\ req \in GetRequests
    BY <1>1, <1>2 DEF devxfer
  <2> HIDE DEF EnumerateInv
  <2> QED
    BY <1>1, <2>1, <2>2, <2>3 DEF DeviceTypes
<1>5. CASE devtoggle = toggle /\ XferInTransfer(Packet)
  <2>1. /\ bytes' = bytes \o Packet /\ toggle' = 1 - toggle /\ naks' = 0 /\ retries' = 0
        /\ stage' = (IF TransferEnds(Packet) THEN "status" ELSE "data")
        /\ UNCHANGED <<task, nbytes>>
    BY <1>5 DEF XferInTransfer
  <2>2. Len(bytes) = devpos
    BY <1>1, <1>5 DEF EnumerateInv, AnswerInv
  <2>3. /\ devpos + Len(Packet) <= Whole /\ Packet = [i \in 1 .. Len(Packet) |-> devpos + i]
        /\ TransferEnds(Packet) => devpos + Len(Packet) = Whole
    BY <1>1, <2>2, PacketIs
  <2> DEFINE n == Len(Packet)
  <2>4. bytes' = Counting(devpos + n) /\ Len(bytes') = devpos + n /\ bytes' \in Seq(Nat)
    <3>1. bytes' = Counting(devpos) \o [i \in 1 .. n |-> devpos + i]
      BY <1>2, <2>1, <2>2, <2>3
    <3> HIDE DEF n
    <3>2. bytes' = Counting(devpos + n)
      BY <1>2, <1>3, <3>1, CountingOn DEF n
    <3>3. devpos + n \in Nat
      BY <1>2, <1>3 DEF n
    <3> QED
      BY <3>2, <3>3, CountingOn
  <2>5. EnumerateTypeOK'
    <3>1. stage' \in {"data", "status"} /\ toggle' \in 0 .. 1
      BY <1>2, <2>1
    <3> QED
      BY <1>1, <1>2, <1>4, <2>1, <2>4, <3>1, EnumerateAssumption DEF EnumerateInv, EnumerateTypeOK, task, DeviceTypes
  <2>6. Length' = Length /\ Whole' = Whole
    BY <1>1, <2>1, Zenon DEF Length, Whole, Least, task
  <2>7. AnswerInv'
    <3> HIDE DEF n
    <3>1. req' = req /\ nbytes' = nbytes /\ req \notin Resting
      BY <1>2, <2>1 DEF task, GetRequests, Resting
    <3>2. devreq' = devreq /\ devbytes' = devbytes
      BY <1>1 DEF devxfer
    <3>3. bytes' = Counting(Len(bytes'))
      BY <2>4
    <3>4. devpos' \in {devpos, devpos + n} /\ devpos' <= Whole
      BY <1>1, <1>2, <2>3 DEF devxfer, n
    <3>5. toggle' = devtoggle' => Len(bytes') = devpos'
      <4>1. CASE devpos' = devpos + n
        BY <2>4, <4>1
      <4>2. CASE devtoggle' = devtoggle
        BY <1>2, <1>5, <2>1, <4>2
      <4> QED
        BY <1>1, <4>1, <4>2 DEF devxfer, n
    <3>6. stage' = "status" => bytes' = Counting(Whole)
      BY <2>1, <2>3, <2>4 DEF n
    <3>7. stage' \in {"data", "status"}
      BY <2>1
    <3> HIDE DEF EnumerateInv
    <3> QED
      BY <1>2, <2>6, <3>1, <3>2, <3>3, <3>4, <3>5, <3>6, <3>7 DEF AnswerInv, Resting
  <2>8. EndpointsFrom(First)' = EndpointsFrom(First) /\ \A K : Usable(K)' <=> Usable(K)
    BY <1>1, SameDevice
  <2>9. Usable({devclass})' <=> Usable({devclass})
    BY <1>1, <2>1, Zenon DEF Usable, First, Interfaces, EndpointsFrom, task
  <2>10. FoundInv'
    BY <1>1, <2>1, <2>8, <2>9 DEF EnumerateInv, FoundInv, task
  <2>11. CleanInv'
    <3>1. clean' => clean /\ toggle' = devtoggle' /\ devreq' = req
      BY <1>1, <1>2, <1>5, <2>1
    <3>2. stage' \notin {"none", "setup"}
      BY <2>1
    <3> QED
      BY <1>1, <2>1, <2>8, <3>1, <3>2 DEF EnumerateInv, CleanInv, task
  <2> QED
    BY <2>5, <2>7, <2>10, <2>11 DEF EnumerateInv
<1>6. CASE devtoggle # toggle /\ XferDispatchPkt("TOGERR")
  <2>1. clean => toggle = devtoggle
    BY <1>1 DEF EnumerateInv, CleanInv
  <2>2. ~clean'
    BY <1>1, <1>6, <2>1
  <2> QED
    BY <1>1, <1>4, <1>6, <2>2, DispatchKeeps
<1> QED
  BY <1>5, <1>6 DEF Data

LEMMA EnumerateTypes ==
  ASSUME EnumerateInv
  PROVE  /\ req \in Requests \cup Resting /\ addr \in 0 .. 1 /\ devaddr \in 0 .. 1
         /\ configured \in BOOLEAN /\ boot \in BOOLEAN /\ clean \in BOOLEAN
         /\ devreq \in GetRequests \cup SetRequests \cup {"none"} /\ devbytes \in Nat /\ devpos \in Nat
         /\ devtoggle \in 0 .. 1 /\ stage \in {"none", "setup", "data", "status"}
BY DEF EnumerateInv, EnumerateTypeOK, Requests, Resting

LEMMA StatusOutKeeps ==
  ASSUME EnumerateInv, StatusOut
  PROVE  EnumerateInv'
<1>1. /\ stage = "status" /\ req \in GetRequests /\ Hears
      /\ devreq' = "none" /\ devbytes' = 0 /\ devpos' = 0 /\ devtoggle' = 0
      /\ UNCHANGED <<plugged, devaddr, configured, boot>>
  BY DEF StatusOut
<1>2. clean' \in BOOLEAN
  BY EnumerateTypes DEF StatusOut
<1>3. DeviceTypes'
  BY <1>1, <1>2, EnumerateTypes DEF DeviceTypes
<1>4. CASE Return(TRUE) /\ UNCHANGED clean
  <2>1. addr' = addr /\ req \notin {"configure", "protocol"}
    BY <1>1, <1>4 DEF Return, AddressRequest, GetRequests
  <2>2. clean => addr = devaddr
    BY DEF EnumerateInv, CleanInv
  <2>3. Carried(TRUE)
    BY <1>1, <1>4, <2>1, <2>2 DEF Carried
  <2> QED
    BY <1>1, <1>3, <1>4, <2>3, ReturnType, ReturnKeeps DEF EnumerateInv
<1>5. CASE devreq # "none" /\ XferDispatchPkt("TIMEOUT") /\ clean' = FALSE
  BY <1>1, <1>3, <1>5, DispatchKeeps
<1>6. CASE devreq = "none" /\ XferDispatchPkt("STALL") /\ UNCHANGED clean
  <2>1. clean => devreq = req
    BY <1>1 DEF EnumerateInv, CleanInv
  <2>2. ~clean'
    BY <1>1, <1>6, <2>1 DEF GetRequests
  <2> QED
    BY <1>1, <1>3, <1>6, <2>2, DispatchKeeps
<1> QED
  BY <1>4, <1>5, <1>6 DEF StatusOut

LEMMA StatusInKeeps ==
  ASSUME EnumerateInv, StatusIn
  PROVE  EnumerateInv'
<1>1. /\ stage = "status" /\ req \in SetRequests /\ Hears /\ ~Refuses /\ Return(TRUE)
      /\ plugged' = plugged
  BY DEF StatusIn
<1>2. /\ req = "address" => addr' = 1
      /\ req # "address" => addr' = addr
      /\ req = "protocol" => configured
  <2>1. req = "address" => addr' = 1
    BY <1>1 DEF Return, DescriptorRequests, AddressRequest, Probe
  <2>2. req # "address" => addr' = addr
    BY <1>1 DEF Return, AddressRequest
  <2> QED
    BY <1>1, <2>1, <2>2 DEF Refuses
<1>3. CASE /\ Applied /\ devreq' = "none" /\ devbytes' = 0 /\ devpos' = 0 /\ devtoggle' = 0
           /\ UNCHANGED clean
  <2>1. /\ req = "address" => devaddr' = 1
        /\ req # "address" => devaddr' = devaddr
        /\ configured' = (configured \/ req = "configure") /\ boot' = (boot \/ req = "protocol")
    BY <1>3 DEF Applied
  <2>2. DeviceTypes'
    <3>1. devaddr' \in 0 .. 1
      BY <2>1, EnumerateTypes
    <3>2. configured' \in BOOLEAN /\ boot' \in BOOLEAN /\ clean' \in BOOLEAN
      BY <1>3, <2>1, EnumerateTypes, Zenon
    <3> QED
      BY <1>3, <3>1, <3>2 DEF DeviceTypes
  <2>3. addr' = devaddr'
    BY <1>1, <1>2, <2>1 DEF Hears
  <2>4. Carried(TRUE)
    <3>1. configured => configured'
      BY <2>1, Zenon
    <3>2. req = "configure" => configured'
      BY <2>1, Zenon
    <3>3. req = "protocol" => configured'
      BY <1>2, <3>1
    <3> QED
      BY <1>3, <2>3, <3>1, <3>2, <3>3 DEF Carried
  <2> QED
    BY <1>1, <2>2, <2>4, ReturnType, ReturnKeeps DEF EnumerateInv
<1>4. CASE clean' = FALSE /\ UNCHANGED peripheral
  <2>1. UNCHANGED <<devaddr, configured, boot, devreq, devbytes, devpos, devtoggle>>
    BY <1>4 DEF peripheral, devxfer
  <2>2. DeviceTypes'
    BY <1>4, <2>1, EnumerateTypes DEF DeviceTypes
  <2>3. Carried(TRUE)
    BY <1>1, <1>2, <1>4, <2>1 DEF Carried, Hears
  <2> QED
    BY <1>1, <2>2, <2>3, ReturnType, ReturnKeeps DEF EnumerateInv
<1> QED
  BY <1>3, <1>4 DEF StatusIn

LEMMA StalledKeeps ==
  ASSUME EnumerateInv, Stalled
  PROVE  EnumerateInv'
<1>1. /\ stage \in {"data", "status"} /\ Refuses /\ XferDispatchPkt("STALL")
      /\ UNCHANGED <<plugged, devaddr, configured, boot, devreq, devbytes, devpos, devtoggle, clean>>
  BY DEF Stalled, peripheral, devxfer
<1>2. ~clean'
  BY <1>1, CleanAccepts
<1>3. DeviceTypes'
  BY <1>1, EnumerateTypes DEF DeviceTypes
<1> QED
  BY <1>1, <1>2, <1>3, DispatchKeeps

LEMMA NoAnswerKeeps ==
  ASSUME EnumerateInv, NoAnswer
  PROVE  EnumerateInv'
<1>1. /\ stage # "none"
      /\ UNCHANGED <<plugged, devaddr, configured, boot, devreq, devbytes, devpos, devtoggle>>
  BY DEF NoAnswer, peripheral, devxfer
<1>2. ASSUME clean' \in BOOLEAN
      PROVE  DeviceTypes'
  BY <1>1, <1>2, EnumerateTypes DEF DeviceTypes
<1>3. CASE (XferDispatchPkt("TIMEOUT") \/ XferDispatchPkt("0xff")) /\ clean' = FALSE
  BY <1>1, <1>2, <1>3, DispatchKeeps DEF devxfer
<1>4. CASE XferDispatchPkt("NAK") /\ clean' = (clean /\ TryAgain("NAK"))
  <2>1. clean' \in BOOLEAN /\ (clean' => clean)
    BY <1>4, Zenon
  <2>2. CASE TryAgain("NAK") /\ UNCHANGED <<task, stage, nbytes, bytes, toggle>>
    BY <1>1, <1>2, <2>1, <2>2, RetryKeeps DEF devxfer
  <2>3. CASE GivesUp("NAK") /\ Return(FALSE)
    <3>1. ~TryAgain("NAK")
      BY <2>3, EnumerateAssumption DEF GivesUp, TryAgain, EnumerateInv, EnumerateTypeOK
    <3>2. ~clean'
      BY <1>4, <3>1, Zenon
    <3> QED
      BY <1>1, <1>2, <2>1, <2>3, <3>2, GivingUpKeeps
  <2> QED
    BY <1>4, <2>2, <2>3 DEF XferDispatchPkt
<1> QED
  BY <1>3, <1>4 DEF NoAnswer

(* A device before its first request.                                      *)
LEMMA FreshDevice ==
  ASSUME plugged \in Devices, EnumerateTypeOK, req \in {"none", "size"}, stage = (IF req = "none" THEN "none" ELSE "setup"),
         bytes = <<>>, strings = {}, probe = "none", addr = devaddr,
         req = "size" => maxpkt = Head8 /\ nbytes = Head8
  PROVE  EnumerateInv
<1>1. AnswerInv
  BY DEF AnswerInv
<1>2. FoundInv
  BY DEF FoundInv
<1>3. CleanInv
  BY DEF CleanInv
<1> QED
  BY <1>1, <1>2, <1>3 DEF EnumerateInv

LEMMA EnumerateInitially == EnumerateInit => EnumerateInv
<1> SUFFICES ASSUME EnumerateInit PROVE EnumerateInv
  OBVIOUS
<1>1. EnumerateTypeOK
  <2>1. 0 \in 0 .. USB_NAK_LIMIT - 1 /\ 0 \in 0 .. USB_RETRY_LIMIT - 1
    BY EnumerateAssumption
  <2>2. bytes \in Seq(Nat) /\ maxpkt \in Nat
    BY DEF EnumerateInit, Head8
  <2>3. configured \in BOOLEAN /\ boot \in BOOLEAN /\ clean \in BOOLEAN
    BY Zenon DEF EnumerateInit
  <2> QED
    BY <2>1, <2>2, <2>3 DEF EnumerateInit, EnumerateTypeOK
<1> QED
  BY <1>1, FreshDevice DEF EnumerateInit

LEMMA ConnectedKeeps ==
  ASSUME EnumerateInv, Connected
  PROVE  EnumerateInv'
<1>1. EnumerateTypeOK'
  <2>1. 0 \in 0 .. USB_NAK_LIMIT - 1 /\ 0 \in 0 .. USB_RETRY_LIMIT - 1
    BY EnumerateAssumption
  <2>2. toggle \in 0 .. 1
    BY DEF EnumerateInv, EnumerateTypeOK
  <2>3. bytes' \in Seq(Nat) /\ maxpkt' \in Nat /\ nbytes' \in Nat /\ req' \in GetRequests
    BY DEF Connected, XferCtrlReq, Head8, GetRequests
  <2>4. configured' \in BOOLEAN /\ boot' \in BOOLEAN /\ clean' \in BOOLEAN
    BY Zenon DEF Connected
  <2> HIDE DEF EnumerateInv
  <2> QED
    BY <2>1, <2>2, <2>3, <2>4 DEF Connected, XferCtrlReq, EnumerateTypeOK
<1>2. /\ req' = "size" /\ stage' = "setup" /\ bytes' = <<>> /\ maxpkt' = Head8 /\ nbytes' = Head8
      /\ strings' = {} /\ probe' = "none" /\ addr' = devaddr'
  BY DEF Connected, XferCtrlReq
<1>3. AnswerInv'
  BY <1>2 DEF AnswerInv
<1>4. FoundInv'
  BY <1>2 DEF FoundInv
<1>5. CleanInv'
  BY <1>2 DEF CleanInv
<1> QED
  BY <1>1, <1>3, <1>4, <1>5 DEF EnumerateInv

LEMMA EnumerateUnchanged ==
  ASSUME EnumerateInv, UNCHANGED enumerateVars
  PROVE  EnumerateInv'
<1>1. UNCHANGED <<req, strings, probe, devclass, endpoint, addr, maxpkt>>
      /\ UNCHANGED <<stage, nbytes, bytes, toggle, naks, retries, plugged>>
      /\ UNCHANGED <<devaddr, configured, boot, devreq, devbytes, devpos, devtoggle, clean>>
  BY DEF enumerateVars, task, transfer, peripheral, devxfer
<1>2. EnumerateTypeOK'
  BY <1>1 DEF EnumerateInv, EnumerateTypeOK
<1>3. Length' = Length /\ Whole' = Whole
  BY <1>1, Zenon DEF Length, Whole, Least
<1>4. AnswerInv'
  BY <1>1, <1>3 DEF EnumerateInv, AnswerInv
<1>5. EndpointsFrom(First)' = EndpointsFrom(First) /\ \A K : Usable(K)' <=> Usable(K)
  BY <1>1, SameDevice
<1>6. Usable({devclass})' <=> Usable({devclass})
  BY <1>1, Zenon DEF Usable, First, Interfaces, EndpointsFrom
<1>7. FoundInv' /\ CleanInv'
  BY <1>1, <1>5, <1>6 DEF EnumerateInv, FoundInv, CleanInv
<1> QED
  BY <1>2, <1>4, <1>7 DEF EnumerateInv

LEMMA EnumerateStep == EnumerateInv /\ [EnumerateNext]_enumerateVars => EnumerateInv'
  BY SetupKeeps, DataKeeps, StatusOutKeeps, StatusInKeeps, StalledKeeps, NoAnswerKeeps, ConnectedKeeps,
     EnumerateUnchanged DEF EnumerateNext, Attempt

LEMMA AnswersAreWhole == EnumerateInv => WholeAnswers
  BY DEF EnumerateInv, AnswerInv, WholeAnswers, Counting, Whole

LEMMA RunningHasBeenConfigured == EnumerateInv => RunningIsConfigured
<1> SUFFICES ASSUME EnumerateInv, req = "running"
             PROVE  RunningIsConfigured
  BY DEF RunningIsConfigured
<1>1. /\ maxpkt = plugged.pkt /\ configured /\ addr = devaddr
      /\ Usable({devclass}) /\ endpoint = Min(EndpointsFrom(First))
  BY DEF EnumerateInv, FoundInv
<1>2. Interfaces # {} /\ plugged.conf[First] = devclass /\ EndpointsFrom(First) # {}
  BY <1>1, Zenon DEF Usable
<1>3. Interfaces \in SUBSET Nat /\ EndpointsFrom(First) \in SUBSET Nat
  BY DeviceFacts DEF EnumerateInv, EnumerateTypeOK
<1>4. First \in Interfaces /\ endpoint \in EndpointsFrom(First)
  BY <1>1, <1>2, <1>3, LeastNumber DEF First
<1>5. endpoint > First /\ plugged.conf[endpoint] = "endpoint"
  BY <1>4, Zenon DEF EndpointsFrom
<1> QED
  BY <1>1, <1>2, <1>4, <1>5, Zenon DEF RunningIsConfigured, First

LEMMA GoodDevicesAreKept == EnumerateInv => GoodDevicesRun
<1> SUFFICES ASSUME EnumerateInv, req = "error", clean,
                    NEW i \in Interfaces, plugged.conf[i] \in {"keyboard", "mouse"}, i = First,
                    EndpointsFrom(i) # {}
             PROVE  FALSE
  BY Zenon DEF GoodDevicesRun, First
<1>1. ~Usable({"keyboard", "mouse"})
  BY DEF EnumerateInv, CleanInv
<1> QED
  BY <1>1, Zenon DEF Usable

(* Host and device agree on what is asked and on where they are while their*)
(* toggles do; the program has found out what the device is; and as long as*)
(* nothing is lost, nothing has failed.                                    *)
THEOREM EnumerateInvariant == EnumerateSpec => []EnumerateInv
  BY EnumerateInitially, EnumerateStep, PTL DEF EnumerateSpec

(* A get request that ends has the whole answer, in order and nothing      *)
(* twice, for any sizes of packets and descriptors and any losses.         *)
THEOREM WholeAnswersTheorem == EnumerateSpec => []WholeAnswers
  BY EnumerateInvariant, AnswersAreWhole, PTL

(* A device that runs is configured, under its own address, by the driver  *)
(* of its first interface and with an endpoint that follows it.            *)
THEOREM RunningTheorem == EnumerateSpec => []RunningIsConfigured
  BY EnumerateInvariant, RunningHasBeenConfigured, PTL

(* A keyboard or a mouse that answers all it is sent is never given up.    *)
THEOREM GoodDevicesTheorem == EnumerateSpec => []GoodDevicesRun
  BY EnumerateInvariant, GoodDevicesAreKept, PTL
-----------------------------------------------------------------------------
(* The registers.  An access is a stream of bytes on the line: the command *)
(* byte, then the data, zeros where it reads.  However it is cut into SPI  *)
(* commands, at most one byte of it is between the driver and the chip, and*)
(* the invariant says where in the stream the driver, the chip and the     *)
(* reader are.                                                             *)
Byte == 0 .. 255
SpiCommands == [write : Seq(Byte), count : Nat, merge : BOOLEAN]

(* The stream of an access.                                                *)
CommandByte(c) == IF c.bytes = <<>> THEN c.reg ELSE c.reg + 2
StreamLength(c) == 1 + Len(c.bytes) + c.count
Stream(c, i) ==
  IF i = 1 THEN CommandByte(c) ELSE IF i <= 1 + Len(c.bytes) THEN c.bytes[i - 1] ELSE 0

(* A command's part of it, from one position to another.                   *)
Sends(cmd, c, first, last) ==
  /\ first + Len(cmd.write) + cmd.count = last /\ first < last
  /\ \A i \in 1 .. Len(cmd.write) + cmd.count :
       Stream(c, first + i) = IF i <= Len(cmd.write) THEN cmd.write[i] ELSE 0
  /\ cmd.count = last - (IF cmd.merge THEN 1 ELSE 1 + Len(c.bytes))

(* Where the current command ends, what of it is read over, how far the    *)
(* driver, the chip and the reader are.                                    *)
Ends    == IF Len(commands) = 2 THEN 1 ELSE StreamLength(call)
Ignored == IF Len(commands) = 2 THEN 1 ELSE 1 + Len(call.bytes)
Given   == Ends - (Len(write_data) + write_zeros)
Shifted    == IF selected = None THEN 0 ELSE 1 + Len(moved)
Taken   == IF rxdata = None THEN Shifted ELSE Shifted - 1

SpiTypes ==
  /\ call \in Accesses \cup {NoAccess} /\ commands \in Seq(SpiCommands)
  /\ file \in [Registers -> Seq(Byte)] /\ file[rHIRQ] # <<>>
  /\ txdata \in Byte \cup {None} /\ shift \in Byte \cup {None} /\ rxdata \in Byte \cup {None}
  /\ moved \in Seq(Byte) /\ write_data \in Seq(Byte) /\ read_data \in Seq(Byte)
  /\ write_zeros \in Nat /\ spi_pc \in {"idle", "clock", "tmt"}

Programmed ==
  /\ Len(commands) \in {1, 2}
  /\ (commands[1].merge <=> Len(commands) = 2) /\ commands[1].count = Ends - Ignored
  /\ Len(commands) = 2 => ~commands[2].merge /\ Sends(commands[2], call, 1, StreamLength(call))

Reading(n) ==
  /\ Len(read_data) = IF n > Ignored THEN n - Ignored ELSE 0
  /\ call.bytes = <<>> => \A i \in 1 .. Len(read_data) : read_data[i] = moved[i]

AtRest ==
  /\ txdata = None /\ shift = None /\ moved = <<>> /\ Sends(commands[1], call, Shifted, Ends)

Clock ==
  /\ Shifted = IF txdata = None /\ shift = None THEN Given ELSE Given - 1
  /\ \A i \in 1 .. Len(write_data) + write_zeros :
       Stream(call, Given + i) = IF i <= Len(write_data) THEN write_data[i] ELSE 0
  /\ txdata # None => shift = None /\ txdata = Stream(call, Given)
  /\ shift # None => shift = Stream(call, Given)
  /\ rxdata # None => txdata = None /\ shift = None
  /\ credits = IF txdata = None /\ shift = None /\ rxdata = None THEN 1 ELSE 0
  /\ Taken \in 0 .. Ends - 1
  /\ read_ignore = IF Taken < Ignored THEN Ignored - Taken ELSE 0
  /\ Reading(Taken)
  /\ rxdata # None /\ Shifted > 1 /\ call.bytes = <<>> => rxdata = moved[Shifted - 1]

Tmt == txdata = None /\ shift = None /\ Shifted = Ends /\ Reading(Ends)

InCall ==
  /\ Programmed
  /\ selected = None => moved = <<>>
  /\ selected # None => selected = CommandByte(call)
  /\ spi_pc = "idle" => AtRest
  /\ spi_pc = "clock" => Clock
  /\ spi_pc = "tmt" => Tmt

NoCall == spi_pc = "idle" /\ commands = <<>> /\ txdata = None /\ shift = None /\ selected = None

SpiInv ==
  /\ SpiTypes
  /\ call = NoAccess => NoCall
  /\ call # NoAccess => InCall
-----------------------------------------------------------------------------
LEMMA NoByte == None \notin Byte
BY DEF None, Byte

LEMMA AccessFacts ==
  ASSUME NEW c \in Accesses
  PROVE  /\ c \in [reg : Registers, bytes : Seq(Byte), count : Nat] /\ c # NoAccess
         /\ c.bytes = <<>> \/ c.count = 0
         /\ CommandByte(c) \in Byte
         /\ Reg(CommandByte(c)) = c.reg /\ (IsWrite(CommandByte(c)) <=> c.bytes # <<>>)
<1> USE SpiAssumption DEF Access, NoAccess, Registers, rRCVFIFO, rSUDFIFO, rHIRQ, rPERADDR, Byte
<1>1. c \in [reg : Registers, bytes : Seq(Byte), count : Nat] /\ c.reg # 0
  <2>0. <<>> \in Seq(Byte)
    OBVIOUS
  <2>1. CASE \E val \in Bytes : c = Access(rPERADDR, <<val>>, 0)
    <3>1. PICK val \in Bytes : c = Access(rPERADDR, <<val>>, 0)
      BY <2>1
    <3>2. <<val>> \in Seq(Byte)
      OBVIOUS
    <3>3. QED  BY <3>1, <3>2
  <2>2. CASE \E reg \in {rHIRQ, rPERADDR} : c = Access(reg, <<>>, 1)
    <3>1. PICK reg \in {rHIRQ, rPERADDR} : c = Access(reg, <<>>, 1)
      BY <2>2
    <3>2. QED  BY <2>0, <3>1
  <2>3. CASE c = Access(rSUDFIFO, SetupBytes, 0)
    BY <2>3
  <2>4. CASE \E n \in 0 .. MaxRead : c = Access(rRCVFIFO, <<>>, n)
    BY <2>4
  <2>5. QED  BY <2>1, <2>2, <2>3, <2>4 DEF Accesses
<1>2. c.bytes = <<>> \/ c.count = 0
  BY DEF Accesses
<1>3. c.bytes # <<>> => c.reg \in {rPERADDR, rSUDFIFO}
  BY DEF Accesses
<1>4. c.reg \in {8, 32, 200, 224}
  BY <1>1
<1>5. CommandByte(c) \in Byte /\ Reg(CommandByte(c)) = c.reg
  <2>1. CASE c.bytes = <<>>
    BY <1>4, <2>1 DEF CommandByte, Reg
  <2>2. CASE c.reg \in {32, 224} /\ c.bytes # <<>>
    BY <2>2 DEF CommandByte, Reg
  <2>3. QED  BY <1>3, <2>1, <2>2
<1>6. IsWrite(CommandByte(c)) <=> c.bytes # <<>>
  <2>1. CASE c.bytes = <<>>
    BY <1>4, <2>1 DEF CommandByte, IsWrite
  <2>2. CASE c.reg \in {32, 224} /\ c.bytes # <<>>
    BY <2>2 DEF CommandByte, IsWrite
  <2>3. QED  BY <1>3, <2>1, <2>2
<1>7. QED  BY <1>1, <1>2, <1>5, <1>6

LEMMA SpiInvInit == SpiInit => SpiInv
<1> SUFFICES ASSUME SpiInit PROVE SpiInv
  OBVIOUS
<1>1. /\ call = NoAccess /\ commands = <<>> /\ spi_pc = "idle" /\ txdata = None /\ shift = None
      /\ selected = None /\ rxdata \in {None, 0} /\ write_zeros = 0
      /\ moved = <<>> /\ write_data = <<>> /\ read_data = <<>>
      /\ file = [reg \in Registers |-> IF reg \in Fifos THEN <<>> ELSE <<0>>]
  BY DEF SpiInit
<1>2. <<>> \in Seq(Byte) /\ <<0>> \in Seq(Byte) /\ <<0>> # <<>> /\ <<>> \in Seq(SpiCommands)
  BY DEF Byte
<1>3. file \in [Registers -> Seq(Byte)] /\ file[rHIRQ] # <<>>
  BY <1>1, <1>2 DEF Registers, Fifos, rRCVFIFO, rSUDFIFO, rHIRQ, rPERADDR
<1>4. QED  BY <1>1, <1>2, <1>3 DEF SpiInv, SpiTypes, NoCall, None, Byte

(* What a call has the driver do.                                          *)
Programme(c, cmds) ==
  \/ /\ Len(cmds) = 1 /\ ~cmds[1].merge /\ Sends(cmds[1], c, 0, StreamLength(c))
  \/ /\ Len(cmds) = 2 /\ cmds[1].merge /\ ~cmds[2].merge
     /\ Sends(cmds[1], c, 0, 1) /\ Sends(cmds[2], c, 1, StreamLength(c))

LEMMA CallKeeps ==
  ASSUME SpiInv, NEW c \in Accesses, NEW cmds \in Seq(SpiCommands), CallOf(c, cmds), Programme(c, cmds)
  PROVE  SpiInv'
<1> USE DEF Programme
<1>1. /\ call' = c /\ commands' = cmds /\ moved' = <<>> /\ call = NoAccess /\ spi_pc = "idle"
      /\ UNCHANGED <<spiCore, selected, file, spi_pc, write_data, write_zeros, read_data>>
  BY DEF CallOf
<1>2. NoCall /\ c # NoAccess
  BY <1>1, AccessFacts DEF SpiInv
<1>3. SpiTypes'
  BY <1>1 DEF SpiInv, SpiTypes, spiCore
<1>4. Len(cmds) \in {1, 2} /\ cmds[1].merge \in BOOLEAN
  <2>1. Len(cmds) \in {1, 2}
    OBVIOUS
  <2>2. cmds[1] \in SpiCommands
    BY <2>1
  <2>3. QED  BY <2>1, <2>2 DEF SpiCommands
<1>5. Shifted' = 0 /\ txdata' = None /\ shift' = None /\ Ends' = IF Len(cmds) = 2 THEN 1 ELSE StreamLength(c)
  BY <1>1, <1>2 DEF NoCall, spiCore, Shifted, Ends, StreamLength
<1>6. AtRest'
  BY <1>1, <1>5 DEF AtRest
<1>7. Programmed'
  BY <1>1, <1>4, <1>5 DEF Programmed, Sends, Ignored, StreamLength
<1>8. InCall'
  BY <1>1, <1>2, <1>6, <1>7 DEF InCall, NoCall, spiCore
<1>9. QED  BY <1>1, <1>2, <1>3, <1>8 DEF SpiInv

LEMMA AccessProgramme ==
  ASSUME AccessCall
  PROVE  \E c \in Accesses, cmds \in Seq(SpiCommands) : CallOf(c, cmds) /\ Programme(c, cmds)
<1> USE SpiAssumption
<1> USE DEF Access, Command, SpiCommands, Sends, StreamLength, Stream, CommandByte, Byte
<1> USE DEF rRCVFIFO, rSUDFIFO, rHIRQ, rPERADDR
<1>1. CASE \E val \in Bytes : CallOf(Access(rPERADDR, <<val>>, 0), MAXreg_wr(rPERADDR, val))
  <2>1. PICK val \in Bytes : CallOf(Access(rPERADDR, <<val>>, 0), MAXreg_wr(rPERADDR, val))
    BY <1>1
  <2> DEFINE c == Access(rPERADDR, <<val>>, 0)
             cmds == MAXreg_wr(rPERADDR, val)
  <2>2. c \in Accesses
    BY DEF Accesses
  <2>3. <<rPERADDR + 2, val>> \in Seq(Byte)
    OBVIOUS
  <2>4. cmds \in Seq(SpiCommands) /\ Len(cmds) = 1
    BY <2>3 DEF MAXreg_wr
  <2>5. /\ CallOf(c, cmds) /\ c.reg = rPERADDR /\ c.bytes = <<val>> /\ c.count = 0
        /\ cmds[1].write = <<rPERADDR + 2, val>> /\ cmds[1].count = 0 /\ cmds[1].merge = FALSE
    BY <2>1 DEF MAXreg_wr
  <2> HIDE DEF c, cmds
  <2>6. Sends(cmds[1], c, 0, StreamLength(c))
    BY <2>5
  <2>7. QED  BY <2>2, <2>4, <2>5, <2>6 DEF Programme
<1>2. CASE \E reg \in {rHIRQ, rPERADDR} : CallOf(Access(reg, <<>>, 1), MAXreg_rd(reg))
  <2>1. PICK reg \in {rHIRQ, rPERADDR} : CallOf(Access(reg, <<>>, 1), MAXreg_rd(reg))
    BY <1>2
  <2> DEFINE c == Access(reg, <<>>, 1)
             cmds == MAXreg_rd(reg)
  <2>2. c \in Accesses
    BY DEF Accesses
  <2>3. <<reg>> \in Seq(Byte) /\ <<>> \in Seq(Byte)
    OBVIOUS
  <2>4. cmds \in Seq(SpiCommands) /\ Len(cmds) = 2
    BY <2>3 DEF MAXreg_rd
  <2>5. /\ CallOf(c, cmds) /\ c.reg = reg /\ c.bytes = <<>> /\ c.count = 1
        /\ cmds[1].write = <<reg>> /\ cmds[1].count = 0 /\ cmds[1].merge = TRUE
        /\ cmds[2].write = <<>> /\ cmds[2].count = 1 /\ cmds[2].merge = FALSE
    BY <2>1 DEF MAXreg_rd
  <2> HIDE DEF c, cmds
  <2>6. Sends(cmds[1], c, 0, 1) /\ Sends(cmds[2], c, 1, StreamLength(c))
    BY <2>5
  <2>7. Programme(c, cmds)
    BY <2>4, <2>5, <2>6 DEF Programme
  <2>8. QED  BY <2>2, <2>4, <2>5, <2>7
<1>3. CASE CallOf(Access(rSUDFIFO, SetupBytes, 0), MAXbytes_wr(rSUDFIFO, SetupBytes))
  <2> DEFINE c == Access(rSUDFIFO, SetupBytes, 0)
             cmds == MAXbytes_wr(rSUDFIFO, SetupBytes)
  <2>1. c \in Accesses
    BY DEF Accesses
  <2>2. <<rSUDFIFO + 2>> \in Seq(Byte)
    OBVIOUS
  <2>3. cmds \in Seq(SpiCommands) /\ Len(cmds) = 2
    BY <2>2 DEF MAXbytes_wr
  <2>4. /\ CallOf(c, cmds) /\ c.reg = rSUDFIFO /\ c.bytes = SetupBytes /\ c.count = 0
        /\ cmds[1].write = <<rSUDFIFO + 2>> /\ cmds[1].count = 0 /\ cmds[1].merge = TRUE
        /\ cmds[2].write = SetupBytes /\ cmds[2].count = 0 /\ cmds[2].merge = FALSE
    BY <1>3 DEF MAXbytes_wr
  <2> HIDE DEF c, cmds
  <2>5. Len(SetupBytes) \in Nat \ {0}
    OBVIOUS
  <2>6. Sends(cmds[1], c, 0, 1) /\ Sends(cmds[2], c, 1, StreamLength(c))
    BY <2>4, <2>5
  <2>7. QED  BY <2>1, <2>3, <2>4, <2>6 DEF Programme
<1>4. CASE \E n \in 0 .. MaxRead : CallOf(Access(rRCVFIFO, <<>>, n), MAXbytes_rd(rRCVFIFO, n))
  <2>1. PICK n \in 0 .. MaxRead : CallOf(Access(rRCVFIFO, <<>>, n), MAXbytes_rd(rRCVFIFO, n))
    BY <1>4
  <2> DEFINE c == Access(rRCVFIFO, <<>>, n)
             cmds == MAXbytes_rd(rRCVFIFO, n)
  <2>2. c \in Accesses
    BY DEF Accesses
  <2>3. <<rRCVFIFO>> \in Seq(Byte)
    OBVIOUS
  <2>4. cmds \in Seq(SpiCommands) /\ Len(cmds) = 1
    BY <2>3 DEF MAXbytes_rd
  <2>5. /\ CallOf(c, cmds) /\ c.reg = rRCVFIFO /\ c.bytes = <<>> /\ c.count = n
        /\ cmds[1].write = <<rRCVFIFO>> /\ cmds[1].count = n /\ cmds[1].merge = FALSE
    BY <2>1 DEF MAXbytes_rd
  <2> HIDE DEF c, cmds
  <2>6. Sends(cmds[1], c, 0, StreamLength(c))
    BY <2>5
  <2>7. QED  BY <2>2, <2>4, <2>5, <2>6 DEF Programme
<1>5. QED  BY <1>1, <1>2, <1>3, <1>4 DEF AccessCall

LEMMA AccessCallKeeps == SpiInv /\ AccessCall => SpiInv'
BY AccessProgramme, CallKeeps
-----------------------------------------------------------------------------
LEMMA InCallFacts ==
  ASSUME SpiInv, call # NoAccess
  PROVE  /\ InCall /\ call \in Accesses
         /\ Len(call.bytes) \in Nat /\ call.count \in Nat
         /\ Head(commands) = commands[1] /\ commands[1] \in SpiCommands
         /\ Ends \in Nat \ {0} /\ Ignored \in Nat \ {0} /\ Ignored <= Ends /\ Ends <= StreamLength(call)
         /\ Shifted \in Nat /\ (call.bytes = <<>> => Ignored = 1)
<1>1. InCall /\ call \in Accesses
  BY DEF SpiInv, SpiTypes
<1>2. Len(call.bytes) \in Nat /\ call.count \in Nat
  BY <1>1, AccessFacts
<1>3. Len(commands) \in {1, 2} /\ commands \in Seq(SpiCommands)
  BY <1>1 DEF InCall, Programmed, SpiInv, SpiTypes
<1>4. Head(commands) = commands[1] /\ commands[1] \in SpiCommands
  BY <1>3
<1>5. commands[1].count \in Nat /\ commands[1].count = Ends - Ignored
  BY <1>1, <1>4 DEF InCall, Programmed, SpiCommands
<1>6. Ends \in Nat \ {0} /\ Ignored \in Nat \ {0} /\ Ends <= StreamLength(call)
      /\ (call.bytes = <<>> => Ignored = 1)
  BY <1>2 DEF Ends, Ignored, StreamLength
<1>7. Shifted \in Nat
  BY DEF Shifted, SpiInv, SpiTypes
<1>8. QED  BY <1>1, <1>2, <1>4, <1>5, <1>6, <1>7

LEMMA CommandBeginKeeps == SpiInv /\ CommandBegin => SpiInv'
<1> SUFFICES ASSUME SpiInv, CommandBegin PROVE SpiInv'
  OBVIOUS
<1>1. call # NoAccess
  BY DEF CommandBegin, SpiInv, NoCall, spiChip
<1>2. /\ spi_pc = "idle" /\ spi_pc' = "clock" /\ rxdata' = None /\ write_data' = commands[1].write
      /\ write_zeros' = commands[1].count /\ read_ignore' = Len(commands[1].write)
      /\ read_data' = <<>> /\ credits' = 1
      /\ UNCHANGED <<txdata, shift, selected, file, moved, call, commands>>
  BY <1>1, InCallFacts DEF CommandBegin, spiChip
<1>3. /\ commands[1].write \in Seq(Byte) /\ commands[1].count \in Nat
      /\ AtRest /\ Programmed /\ commands[1].count = Ends - Ignored
  BY <1>1, <1>2, InCallFacts DEF SpiCommands, InCall, Programmed
<1>4. /\ Shifted + Len(commands[1].write) + commands[1].count = Ends /\ Shifted < Ends
      /\ \A i \in 1 .. Len(commands[1].write) + commands[1].count :
           Stream(call, Shifted + i) = IF i <= Len(commands[1].write) THEN commands[1].write[i] ELSE 0
  BY <1>3 DEF AtRest, Sends
<1>5. Ends' = Ends /\ Ignored' = Ignored /\ Shifted' = Shifted /\ Taken' = Shifted /\ Given' = Shifted
  <2>1. Ends' = Ends /\ Ignored' = Ignored /\ Shifted' = Shifted
    BY <1>2 DEF Ends, Ignored, Shifted, StreamLength
  <2>2. Given' = Ends - (Len(commands[1].write) + commands[1].count)
    BY <1>2, <2>1 DEF Given
  <2>3. QED  BY <1>1, <1>2, <1>3, <1>4, <2>1, <2>2, InCallFacts DEF Taken
<1>6. SpiTypes'
  <2>1. <<>> \in Seq(Byte)
    OBVIOUS
  <2>2. QED  BY <1>2, <1>3, <2>1 DEF SpiInv, SpiTypes
<1>7. Shifted <= Ignored /\ Len(commands[1].write) = Ignored - Shifted
  <2>1. Shifted \in Nat /\ Ends \in Nat /\ Ignored \in Nat
    BY <1>1, InCallFacts
  <2>2. Len(commands[1].write) \in Nat
    BY <1>3
  <2>3. /\ commands[1].count = Ends - Ignored
        /\ Shifted + Len(commands[1].write) + commands[1].count = Ends
    BY <1>3, <1>4
  <2>4. QED  BY <2>1, <2>2, <2>3
<1>8. Reading(Taken)'
  BY <1>1, <1>2, <1>5, <1>7, InCallFacts DEF Reading
<1>9. Clock'
  <2>1. txdata' = None /\ shift' = None /\ rxdata' = None
    BY <1>2, <1>3 DEF AtRest
  <2>2. \A i \in 1 .. Len(write_data') + write_zeros' :
          Stream(call', Given' + i) = IF i <= Len(write_data') THEN write_data'[i] ELSE 0
    BY <1>2, <1>4, <1>5
  <2>3. Taken' \in 0 .. Ends' - 1 /\ read_ignore' = IF Taken' < Ignored' THEN Ignored' - Taken' ELSE 0
    BY <1>1, <1>2, <1>4, <1>5, <1>7, InCallFacts
  <2>4. QED  BY <1>2, <1>5, <1>8, <2>1, <2>2, <2>3 DEF Clock
<1>10. Programmed'
  BY <1>2, <1>3, <1>5 DEF Programmed, StreamLength
<1>11. QED  BY <1>1, <1>2, <1>6, <1>9, <1>10, InCallFacts DEF SpiInv, InCall, CommandByte

LEMMA LoadKeeps == SpiInv /\ Load => SpiInv'
<1> SUFFICES ASSUME SpiInv, Load PROVE SpiInv'
  OBVIOUS
<1>1. /\ txdata # None /\ shift' = txdata /\ txdata' = None
      /\ UNCHANGED <<rxdata, selected, file, moved, call, commands, spi_pc, write_data, write_zeros,
                     read_ignore, read_data, credits>>
  BY DEF Load, spiChip, spiDriver
<1>2. call # NoAccess /\ spi_pc = "clock"
  BY <1>1, InCallFacts DEF SpiInv, NoCall, InCall, AtRest, Tmt, SpiTypes
<1>3. SpiTypes' /\ Programmed'
  BY <1>1, <1>2, InCallFacts DEF SpiInv, SpiTypes, InCall, Programmed, Ends, Ignored, StreamLength
<1>4. Ends' = Ends /\ Ignored' = Ignored /\ Shifted' = Shifted /\ Taken' = Taken /\ Given' = Given
  BY <1>1 DEF Ends, Ignored, Shifted, Given, Taken, StreamLength
<1>5. Reading(Taken)'
  BY <1>1, <1>2, <1>4, InCallFacts DEF InCall, Clock, Reading
<1>6. Clock'
  BY <1>1, <1>2, <1>4, <1>5, InCallFacts DEF InCall, Clock
<1>7. QED  BY <1>1, <1>2, <1>3, <1>6, InCallFacts DEF SpiInv, InCall

(* A byte goes to the core, or one comes from it.                          *)
LEMMA CommandLoopKeeps == SpiInv /\ CommandLoop => SpiInv'
<1> SUFFICES ASSUME SpiInv, CommandLoop PROVE SpiInv'
  OBVIOUS
<1>1. /\ spi_pc = "clock" /\ SendByte /\ TakeByte /\ credits' = Credits /\ (Trdy \/ Rrdy)
      /\ UNCHANGED <<shift, selected, file, moved, call, commands>>
      /\ spi_pc' = (IF Rrdy /\ read_ignore' = 0 /\ Len(read_data') = Head(commands).count
                    THEN "tmt" ELSE "clock")
  BY DEF CommandLoop, spiChip
<1>2. call # NoAccess
  BY <1>1 DEF SpiInv, NoCall
<1>3. Clock /\ InCall /\ SpiTypes
  BY <1>1, <1>2, InCallFacts DEF InCall, SpiInv
<1>4. Ends' = Ends /\ Ignored' = Ignored /\ Shifted' = Shifted
  BY <1>1 DEF Ends, Ignored, Shifted, StreamLength
<1>5. Programmed'
  BY <1>1, <1>3, <1>4 DEF InCall, Programmed, StreamLength
<1>6. CASE Trdy
  <2>1. /\ txdata = None /\ shift = None /\ rxdata = None /\ credits = 1
        /\ Given = Shifted /\ Taken = Shifted /\ Taken < Ends
    BY <1>2, <1>3, <1>6, InCallFacts DEF Trdy, Clock, Taken
  <2>2. ~Rrdy /\ UNCHANGED <<rxdata, read_ignore, read_data>> /\ spi_pc' = "clock"
    BY <1>1, <2>1 DEF Rrdy, TakeByte
  <2>3. Taken' = Taken /\ Reading(Taken)'
    BY <1>1, <1>3, <1>4, <2>2 DEF Taken, Reading, Clock
  <2>4. CASE write_data # <<>>
    <3>1. /\ txdata' = write_data[1] /\ write_data' = Tail(write_data) /\ write_zeros' = write_zeros
          /\ write_data \in Seq(Byte) /\ Len(write_data) \in Nat \ {0} /\ write_zeros \in Nat
      BY <1>1, <1>3, <1>6, <2>4 DEF SendByte, SpiTypes
    <3>2. /\ write_data' \in Seq(Byte) /\ Len(write_data') = Len(write_data) - 1
          /\ \A i \in 1 .. Len(write_data') : write_data'[i] = write_data[i + 1]
          /\ write_data[1] \in Byte
      BY <3>1
    <3>3. Given' = Given + 1 /\ Given \in Int
      BY <1>2, <1>4, <3>1, <3>2, InCallFacts DEF Given
    <3>4. txdata' = Stream(call, Given') /\ txdata' # None
      <4>1. 1 \in 1 .. Len(write_data) + write_zeros /\ 1 <= Len(write_data)
        BY <3>1
      <4>2. Stream(call, Given + 1) = write_data[1]
        BY <1>3, <4>1 DEF Clock
      <4>3. Stream(call, Given') = write_data[1]
        BY <3>3, <4>2
      <4>4. write_data[1] # None
        BY <3>2, NoByte
      <4>5. QED  BY <3>1, <4>3, <4>4
    <3>5. ASSUME NEW i \in 1 .. Len(write_data') + write_zeros'
          PROVE  Stream(call', Given' + i) = IF i <= Len(write_data') THEN write_data'[i] ELSE 0
      <4>1. i + 1 \in 1 .. Len(write_data) + write_zeros /\ Given' + i = Given + (i + 1)
        BY <3>1, <3>2, <3>3
      <4>2. Stream(call, Given + (i + 1)) = IF i + 1 <= Len(write_data) THEN write_data[i + 1] ELSE 0
        BY <1>3, <4>1 DEF Clock
      <4>3. QED  BY <1>1, <3>1, <3>2, <4>1, <4>2
    <3>6. credits' = 0
      BY <1>1, <1>6, <2>1, <2>2, <2>4 DEF Credits
    <3>7. Shifted' = Given' - 1 /\ read_ignore' = IF Taken' < Ignored' THEN Ignored' - Taken' ELSE 0
      BY <1>3, <1>4, <2>1, <2>2, <2>3, <3>3 DEF Clock
    <3>8. Clock'
      BY <1>1, <1>2, <1>3, <1>4, <2>1, <2>2, <2>3, <3>4, <3>5, <3>6, <3>7, InCallFacts DEF Clock
    <3>9. SpiTypes'
      BY <1>1, <1>3, <2>2, <3>1, <3>2 DEF SpiTypes
    <3>10. QED  BY <1>1, <1>2, <1>3, <1>5, <2>2, <3>8, <3>9 DEF SpiInv, InCall
  <2>5. CASE write_data = <<>>
    <3>1. Len(write_data) = 0 /\ write_zeros \in Nat \ {0}
      BY <1>2, <1>3, <2>1, <2>5, InCallFacts DEF SpiTypes, Given
    <3>2. txdata' = 0 /\ write_data' = write_data /\ write_zeros' = write_zeros - 1
      BY <1>1, <1>6, <2>5, <3>1 DEF SendByte
    <3>3. Given' = Given + 1 /\ Given \in Int
      BY <1>2, <1>4, <3>1, <3>2, InCallFacts DEF Given
    <3>4. txdata' = Stream(call, Given') /\ txdata' # None
      BY <1>3, <3>1, <3>2, <3>3 DEF Clock, None
    <3>5. ASSUME NEW i \in 1 .. Len(write_data') + write_zeros'
          PROVE  Stream(call', Given' + i) = IF i <= Len(write_data') THEN write_data'[i] ELSE 0
      <4>1. i + 1 \in 1 .. Len(write_data) + write_zeros /\ Given' + i = Given + (i + 1)
        BY <3>1, <3>2, <3>3
      <4>2. Stream(call, Given + (i + 1)) = IF i + 1 <= Len(write_data) THEN write_data[i + 1] ELSE 0
        BY <1>3, <4>1 DEF Clock
      <4>3. QED  BY <1>1, <3>1, <3>2, <4>1, <4>2
    <3>6. credits' = 0
      BY <1>1, <1>6, <2>1, <2>2, <2>5, <3>1 DEF Credits
    <3>7. Shifted' = Given' - 1 /\ read_ignore' = IF Taken' < Ignored' THEN Ignored' - Taken' ELSE 0
      BY <1>3, <1>4, <2>1, <2>2, <2>3, <3>3 DEF Clock
    <3>8. Clock'
      BY <1>1, <1>2, <1>3, <1>4, <2>1, <2>2, <2>3, <3>4, <3>5, <3>6, <3>7, InCallFacts DEF Clock
    <3>9. SpiTypes'
      BY <1>1, <1>3, <2>2, <3>1, <3>2 DEF SpiTypes, Byte
    <3>10. QED  BY <1>1, <1>2, <1>3, <1>5, <2>2, <3>8, <3>9 DEF SpiInv, InCall
  <2>6. QED  BY <2>4, <2>5
<1>7. CASE ~Trdy
  <2>1. /\ rxdata # None /\ rxdata \in Byte /\ txdata = None /\ shift = None /\ credits = 0
        /\ Shifted = Given /\ Taken = Shifted - 1 /\ Taken \in 0 .. Ends - 1
    BY <1>1, <1>3, <1>7 DEF Rrdy, Clock, Taken, SpiTypes
  <2>2. /\ UNCHANGED <<txdata, write_data, write_zeros>> /\ rxdata' = None /\ credits' = 1
        /\ IF read_ignore > 0 THEN read_ignore' = read_ignore - 1 /\ UNCHANGED read_data
           ELSE read_data' = Append(read_data, rxdata) /\ UNCHANGED read_ignore
    BY <1>1, <1>7, <2>1 DEF Rrdy, SendByte, TakeByte, Credits
  <2>3. Taken' = Taken + 1 /\ Given' = Given
    BY <1>2, <1>4, <2>1, <2>2, InCallFacts DEF Taken, Given
  <2>4. /\ read_ignore' = IF Taken' < Ignored' THEN Ignored' - Taken' ELSE 0
        /\ Reading(Taken)' /\ read_data' \in Seq(Byte)
    <3>1. CASE Taken < Ignored
      <4>1. read_ignore' = read_ignore - 1 /\ read_data' = read_data /\ read_ignore = Ignored - Taken
        BY <1>2, <1>3, <2>1, <2>2, <3>1, InCallFacts DEF Clock
      <4>2. Len(read_data) = 0 /\ read_data \in Seq(Byte)
        BY <1>2, <1>3, <2>1, <3>1, InCallFacts DEF Clock, Reading, SpiTypes
      <4>3. QED  BY <1>1, <1>2, <1>4, <2>1, <2>3, <3>1, <4>1, <4>2, InCallFacts DEF Reading
    <3>2. CASE ~(Taken < Ignored)
      <4>1. read_ignore = 0 /\ read_ignore' = 0 /\ read_data' = Append(read_data, rxdata)
        BY <1>2, <1>3, <2>1, <2>2, <3>2, InCallFacts DEF Clock
      <4>2. Len(read_data) = Taken - Ignored /\ read_data \in Seq(Byte)
        BY <1>2, <1>3, <2>1, <3>2, InCallFacts DEF Clock, Reading, SpiTypes
      <4>3. /\ Len(read_data') = Len(read_data) + 1 /\ read_data' \in Seq(Byte)
            /\ \A i \in 1 .. Len(read_data) : read_data'[i] = read_data[i]
            /\ read_data'[Len(read_data) + 1] = rxdata
        BY <2>1, <4>1, <4>2
      <4>4. ASSUME call.bytes = <<>>
            PROVE  \A i \in 1 .. Len(read_data') : read_data'[i] = moved[i]
        <5>1. Ignored = 1 /\ Shifted > 1 /\ Shifted - 1 = Len(read_data) + 1
          BY <1>2, <2>1, <3>2, <4>2, <4>4, InCallFacts
        <5>2. rxdata = moved[Shifted - 1] /\ \A i \in 1 .. Len(read_data) : read_data[i] = moved[i]
          BY <1>3, <2>1, <4>4, <5>1 DEF Clock, Reading
        <5>3. QED  BY <4>2, <4>3, <5>1, <5>2
      <4>5. QED  BY <1>1, <1>2, <1>4, <2>1, <2>3, <3>2, <4>1, <4>2, <4>3, <4>4, InCallFacts DEF Reading
    <3>3. QED  BY <3>1, <3>2
  <2>5. SpiTypes'
    BY <1>1, <1>3, <2>2, <2>4 DEF SpiTypes
  <2>6. spi_pc' = IF Taken' = Ends THEN "tmt" ELSE "clock"
    <3>1. Head(commands).count = Ends - Ignored
      BY <1>2, <1>3, InCallFacts DEF InCall, Programmed
    <3>2. Taken' \in Nat /\ Taken' <= Ends
      BY <1>2, <2>1, <2>3, InCallFacts
    <3>3. Len(read_data') = IF Taken' > Ignored THEN Taken' - Ignored ELSE 0
      BY <1>4, <2>4 DEF Reading
    <3>4. read_ignore' = 0 /\ Len(read_data') = Head(commands).count <=> Taken' = Ends
      BY <1>2, <1>4, <2>4, <3>1, <3>2, <3>3, InCallFacts
    <3>5. QED  BY <1>1, <2>1, <3>4 DEF Rrdy
  <2>7. CASE Taken' = Ends
    <3>1. Reading(Ends)'
      BY <1>4, <2>4, <2>7 DEF Reading
    <3>2. Tmt'
      BY <1>1, <1>2, <1>4, <2>1, <2>2, <2>3, <2>7, <3>1, InCallFacts DEF Tmt
    <3>3. QED  BY <1>1, <1>2, <1>3, <1>5, <2>5, <2>6, <2>7, <3>2 DEF SpiInv, InCall
  <2>8. CASE Taken' # Ends
    <3>1. \A i \in 1 .. Len(write_data') + write_zeros' :
            Stream(call', Given' + i) = IF i <= Len(write_data') THEN write_data'[i] ELSE 0
      BY <1>1, <1>3, <2>2, <2>3 DEF Clock
    <3>2. Taken' \in 0 .. Ends' - 1
      BY <1>2, <1>4, <2>1, <2>3, <2>8, InCallFacts
    <3>3. Clock'
      BY <1>1, <1>4, <2>1, <2>2, <2>3, <2>4, <3>1, <3>2 DEF Clock
    <3>4. QED  BY <1>1, <1>2, <1>3, <1>5, <2>5, <2>6, <2>8, <3>3 DEF SpiInv, InCall
  <2>9. QED  BY <2>7, <2>8
<1>8. QED  BY <1>6, <1>7

(* The next command of a merged pair, or the end of the call.              *)
LEMMA CommandEndKeeps == SpiInv /\ CommandEnd => SpiInv'
<1> SUFFICES ASSUME SpiInv, CommandEnd PROVE SpiInv'
  OBVIOUS
<1>1. /\ spi_pc = "tmt" /\ spi_pc' = "idle" /\ commands' = Tail(commands)
      /\ selected' = (IF Head(commands).merge THEN selected ELSE None)
      /\ call' = (IF Len(commands) = 1 THEN NoAccess ELSE call)
      /\ UNCHANGED <<txdata, shift, rxdata, file, moved, write_data, write_zeros, read_data>>
  BY DEF CommandEnd
<1>2. call # NoAccess
  BY <1>1 DEF SpiInv, NoCall
<1>3. Tmt /\ InCall /\ SpiTypes /\ Programmed
  BY <1>1, <1>2, InCallFacts DEF InCall, SpiInv
<1>4. commands \in Seq(SpiCommands) /\ Len(commands) \in {1, 2}
      /\ (Head(commands).merge <=> Len(commands) = 2)
  BY <1>2, <1>3, InCallFacts DEF Programmed, SpiTypes
<1>5. /\ commands' \in Seq(SpiCommands) /\ Len(commands') = Len(commands) - 1
      /\ Len(commands) = 2 => commands'[1] = commands[2]
  BY <1>1, <1>4
<1>6. SpiTypes'
  BY <1>1, <1>3, <1>5 DEF SpiTypes
<1>7. CASE Len(commands) = 1
  <2>1. commands' = <<>> /\ call' = NoAccess /\ selected' = None
    BY <1>1, <1>4, <1>5, <1>7
  <2>2. QED  BY <1>1, <1>3, <1>6, <2>1 DEF SpiInv, NoCall, Tmt
<1>8. CASE Len(commands) = 2
  <2>1. UNCHANGED <<call, selected>> /\ Len(commands') = 1
    BY <1>1, <1>4, <1>5, <1>8
  <2>2. Shifted = 1 /\ selected # None /\ moved = <<>>
    BY <1>2, <1>3, <1>8, InCallFacts DEF Tmt, Ends, Shifted, SpiTypes
  <2>3. Shifted' = 1 /\ Ends' = StreamLength(call) /\ Ignored' = 1 + Len(call.bytes)
    <3>1. Len(commands') # 2
      BY <2>1
    <3>2. QED  BY <1>1, <2>1, <2>2, <3>1 DEF Shifted, Ends, Ignored, StreamLength
  <2>4. ~commands[2].merge /\ Sends(commands[2], call, 1, StreamLength(call)) /\ commands[2] \in SpiCommands
    <3>1. 2 \in 1 .. Len(commands)
      BY <1>8
    <3>2. QED  BY <1>3, <1>4, <1>8, <3>1 DEF Programmed
  <2>5. commands[2].count = Ends' - Ignored'
    BY <2>3, <2>4 DEF Sends
  <2>6. Programmed'
    BY <1>5, <1>8, <2>1, <2>4, <2>5 DEF Programmed, SpiCommands
  <2>7. AtRest'
    BY <1>1, <1>3, <1>5, <1>8, <2>1, <2>2, <2>3, <2>4 DEF AtRest, Tmt
  <2>8. QED  BY <1>1, <1>2, <1>3, <1>6, <2>1, <2>2, <2>6, <2>7 DEF SpiInv, InCall
<1>9. QED  BY <1>4, <1>7, <1>8

(* What a byte exchanged does to the chip's registers.                     *)
LEMMA FileKept ==
  ASSUME file \in [Registers -> Seq(Byte)], file[rHIRQ] # <<>>, NEW reg \in Registers, NEW byte \in Byte
  PROVE  /\ RF!Put(file, reg, byte) \in [Registers -> Seq(Byte)] /\ RF!Put(file, reg, byte)[rHIRQ] # <<>>
         /\ RF!Got(file, reg) \in [Registers -> Seq(Byte)] /\ RF!Got(file, reg)[rHIRQ] # <<>>
         /\ RF!Get(file, reg) \in Byte
<1>1. file[reg] \in Seq(Byte) /\ rHIRQ \in Registers /\ rHIRQ \notin Fifos
  BY DEF Registers, Fifos, rHIRQ, rRCVFIFO, rSUDFIFO
<1>2. Append(file[reg], byte) \in Seq(Byte) /\ <<byte>> \in Seq(Byte) /\ <<byte>> # <<>>
  BY <1>1
<1>3. RF!Put(file, reg, byte) \in [Registers -> Seq(Byte)] /\ RF!Put(file, reg, byte)[rHIRQ] # <<>>
  BY <1>1, <1>2 DEF RF!Put
<1>4. file[reg] # <<>> => Tail(file[reg]) \in Seq(Byte) /\ Head(file[reg]) \in Byte
  BY <1>1
<1>5. RF!Got(file, reg) \in [Registers -> Seq(Byte)] /\ RF!Got(file, reg)[rHIRQ] # <<>>
  BY <1>1, <1>4 DEF RF!Got
<1>6. RF!Get(file, reg) \in Byte
  BY <1>4 DEF RF!Get, Byte
<1>7. QED  BY <1>3, <1>5, <1>6

(* A byte on the line is the command byte, or the access' next of data.    *)
LEMMA Exchanged ==
  ASSUME SpiInv, Exchange
  PROVE  /\ call # NoAccess /\ spi_pc = "clock" /\ Clock /\ Programmed
         /\ rxdata = None /\ Shifted = Given - 1 /\ Shifted < Ends
         /\ shift = Stream(call, Shifted + 1) /\ shift \in Byte
         /\ selected # None =>
              /\ Shifted = 1 + Len(moved) /\ Reg(selected) = call.reg /\ call.reg \in Registers
              /\ Len(moved) < Len(call.bytes) + call.count
              /\ IF IsWrite(selected)
                 THEN call.bytes # <<>> /\ shift = call.bytes[Len(moved) + 1] /\ call.count = 0
                 ELSE call.bytes = <<>>
<1>1. shift # None
  BY DEF Exchange
<1>2. call # NoAccess /\ spi_pc = "clock"
  BY <1>1, InCallFacts DEF SpiInv, NoCall, InCall, AtRest, Tmt, SpiTypes
<1>3. Clock /\ Programmed
  BY <1>2, InCallFacts DEF InCall
<1>4. rxdata = None /\ Shifted = Given - 1 /\ Shifted < Ends /\ shift = Stream(call, Given) /\ shift \in Byte
  <2>1. rxdata = None /\ Shifted = Given - 1 /\ shift = Stream(call, Given)
    BY <1>1, <1>3 DEF Clock
  <2>2. Taken = Shifted /\ Taken \in 0 .. Ends - 1
    BY <1>3, <2>1 DEF Clock, Taken
  <2>3. QED  BY <1>1, <1>2, <2>1, <2>2, InCallFacts DEF SpiInv, SpiTypes
<1>5. shift = Stream(call, Shifted + 1)
  <2>1. Given \in Int
    BY <1>2, InCallFacts DEF Given, SpiInv, SpiTypes
  <2>2. QED  BY <1>4, <2>1
<1>6. ASSUME selected # None
      PROVE  /\ Shifted = 1 + Len(moved) /\ Reg(selected) = call.reg /\ call.reg \in Registers
             /\ Len(moved) < Len(call.bytes) + call.count
             /\ IF IsWrite(selected)
                THEN call.bytes # <<>> /\ shift = call.bytes[Len(moved) + 1] /\ call.count = 0
                ELSE call.bytes = <<>>
  <2>1. selected = CommandByte(call) /\ Shifted = 1 + Len(moved)
    BY <1>2, <1>6, InCallFacts DEF InCall, Shifted
  <2>2. /\ Reg(selected) = call.reg /\ call.reg \in Registers
        /\ IsWrite(selected) <=> call.bytes # <<>>
        /\ call.bytes = <<>> \/ call.count = 0
    BY <1>2, <2>1, InCallFacts, AccessFacts
  <2>3. Len(moved) \in Nat /\ Len(moved) < Len(call.bytes) + call.count
    BY <1>2, <1>4, <2>1, InCallFacts DEF StreamLength, SpiInv, SpiTypes
  <2>4. call.count = 0 => shift = call.bytes[Len(moved) + 1]
    BY <1>2, <1>5, <2>1, <2>3, InCallFacts DEF Stream
  <2>5. QED  BY <2>1, <2>2, <2>3, <2>4
<1>7. QED  BY <1>2, <1>3, <1>4, <1>5, <1>6

LEMMA ExchangeKeeps == SpiInv /\ Exchange => SpiInv'
<1> SUFFICES ASSUME SpiInv, Exchange PROVE SpiInv'
  OBVIOUS
<1>1. /\ shift # None /\ shift' = None
      /\ UNCHANGED <<txdata, call, commands, spi_pc, write_data, write_zeros, read_ignore, read_data,
                     credits>>
      /\ IF selected = None
         THEN selected' = shift /\ rxdata' = file[rHIRQ][1] /\ UNCHANGED <<file, moved>>
         ELSE /\ UNCHANGED selected
              /\ IF IsWrite(selected)
                 THEN file' = RF!Put(file, Reg(selected), shift) /\ moved' = Append(moved, shift)
                      /\ rxdata' = 0
                 ELSE /\ rxdata' = RF!Get(file, Reg(selected)) /\ moved' = Append(moved, rxdata')
                      /\ file' = RF!Got(file, Reg(selected))
  BY DEF Exchange, spiDriver
<1>2. call # NoAccess /\ spi_pc = "clock" /\ Clock /\ Programmed /\ SpiTypes /\ InCall
  BY Exchanged, InCallFacts DEF SpiInv
<1>3. Ends' = Ends /\ Ignored' = Ignored /\ Given' = Given
  BY <1>1 DEF Ends, Ignored, Given, StreamLength
<1>4. /\ rxdata' \in Byte /\ Shifted' = Shifted + 1 /\ moved' \in Seq(Byte) /\ selected' # None
      /\ file' \in [Registers -> Seq(Byte)] /\ file'[rHIRQ] # <<>> /\ selected' = CommandByte(call)
      /\ call.bytes = <<>> /\ Shifted' > 1 => rxdata' = moved'[Shifted' - 1]
      /\ \A i \in 1 .. Len(moved) : moved'[i] = moved[i]
  <2>1. CASE selected = None
    <3>1. file[rHIRQ] \in Seq(Byte) /\ file[rHIRQ] # <<>>
      BY <1>2 DEF SpiTypes, Registers
    <3>2. Shifted = 0 /\ moved = <<>>
      BY <1>2, <2>1 DEF Shifted, InCall
    <3>3. shift = CommandByte(call) /\ shift \in Byte
      BY <3>2, Exchanged DEF Stream
    <3>4. Shifted' = 1
      BY <1>1, <2>1, <3>2 DEF Shifted
    <3>5. file[rHIRQ][1] \in Byte
      BY <3>1
    <3>6. QED  BY <1>1, <1>2, <2>1, <3>2, <3>3, <3>4, <3>5 DEF SpiTypes
  <2>2. CASE selected # None /\ IsWrite(selected)
    <3>1. Reg(selected) \in Registers /\ shift \in Byte /\ call.bytes # <<>> /\ moved \in Seq(Byte)
      BY <1>2, <2>2, Exchanged DEF SpiTypes
    <3>2. /\ moved' \in Seq(Byte) /\ Len(moved') = Len(moved) + 1
          /\ \A i \in 1 .. Len(moved) : moved'[i] = moved[i]
      BY <1>1, <2>2, <3>1
    <3>3. Shifted' = Shifted + 1
      BY <1>1, <2>2, <3>1, <3>2 DEF Shifted
    <3>4. file' \in [Registers -> Seq(Byte)] /\ file'[rHIRQ] # <<>>
      BY <1>1, <1>2, <2>2, <3>1, FileKept DEF SpiTypes
    <3>5. QED  BY <1>1, <1>2, <2>2, <3>1, <3>2, <3>3, <3>4 DEF InCall, Byte
  <2>3. CASE selected # None /\ ~IsWrite(selected)
    <3>1. Reg(selected) \in Registers /\ shift \in Byte /\ moved \in Seq(Byte) /\ Shifted = 1 + Len(moved)
      BY <1>2, <2>3, Exchanged DEF SpiTypes
    <3>2. rxdata' \in Byte /\ file' \in [Registers -> Seq(Byte)] /\ file'[rHIRQ] # <<>>
      BY <1>1, <1>2, <2>3, <3>1, FileKept DEF SpiTypes
    <3>3. /\ moved' \in Seq(Byte) /\ Len(moved') = Len(moved) + 1
          /\ \A i \in 1 .. Len(moved) : moved'[i] = moved[i]
          /\ moved'[Len(moved) + 1] = rxdata'
      <4>1. moved' = Append(moved, rxdata')
        BY <1>1, <2>3
      <4>2. QED  BY <3>1, <3>2, <4>1
    <3>4. Shifted' = Shifted + 1
      BY <1>1, <2>3, <3>1, <3>3 DEF Shifted
    <3>5. rxdata' = moved'[Shifted' - 1]
      BY <3>1, <3>3, <3>4
    <3>6. QED  BY <1>1, <1>2, <2>3, <3>2, <3>3, <3>4, <3>5 DEF InCall
  <2>4. QED  BY <2>1, <2>2, <2>3
<1>5. SpiTypes'
  BY <1>1, <1>2, <1>4 DEF SpiTypes
<1>6. Programmed'
  BY <1>1, <1>2, <1>3 DEF Programmed, StreamLength
<1>7. rxdata = None /\ rxdata' # None /\ Taken = Shifted /\ Taken' = Shifted /\ Shifted = Given - 1 /\ Shifted \in Nat
  <2>1. rxdata = None /\ rxdata' # None /\ Shifted = Given - 1 /\ Shifted \in Nat
    BY <1>2, <1>4, Exchanged, InCallFacts, NoByte
  <2>2. QED  BY <1>4, <2>1 DEF Taken
<1>8. Reading(Taken)'
  <2>1. Len(read_data) <= Len(moved) /\ Len(read_data) \in Nat
    <3>1. Len(read_data) \in Nat /\ Len(moved) \in Nat /\ Shifted <= 1 + Len(moved)
      BY <1>2 DEF SpiTypes, Shifted
    <3>2. Len(read_data) = IF Shifted > Ignored THEN Shifted - Ignored ELSE 0
      BY <1>2, <1>7 DEF Clock, Reading
    <3>3. QED  BY <1>2, <1>7, <3>1, <3>2, InCallFacts
  <2>2. QED  BY <1>1, <1>2, <1>3, <1>4, <1>7, <2>1 DEF Clock, Reading
<1>9. Clock'
  <2>1. txdata' = None /\ shift' = None
    BY <1>1, <1>2 DEF Clock
  <2>2. Taken' \in 0 .. Ends' - 1 /\ Shifted' = Given'
    BY <1>2, <1>3, <1>4, <1>7, Exchanged, InCallFacts DEF Given, SpiTypes
  <2>3. credits' = 0 /\ read_ignore' = IF Taken' < Ignored' THEN Ignored' - Taken' ELSE 0
    BY <1>1, <1>2, <1>3, <1>7 DEF Clock
  <2>4. \A i \in 1 .. Len(write_data') + write_zeros' :
          Stream(call', Given' + i) = IF i <= Len(write_data') THEN write_data'[i] ELSE 0
    BY <1>1, <1>2, <1>3 DEF Clock
  <2>5. QED  BY <1>1, <1>4, <1>7, <1>8, <2>1, <2>2, <2>3, <2>4 DEF Clock
<1>10. QED  BY <1>1, <1>2, <1>4, <1>5, <1>6, <1>9 DEF SpiInv, InCall

LEMMA ChipChangesKeeps == SpiInv /\ ChipChanges => SpiInv'
<1> SUFFICES ASSUME SpiInv, ChipChanges PROVE SpiInv'
  OBVIOUS
<1>1. /\ file' \in [Registers -> Seq(Byte)] /\ file'[rHIRQ] # <<>>
      /\ UNCHANGED <<spiCore, selected, moved, spiDriver>>
  <2>1. file \in [Registers -> Seq(Byte)] /\ file[rHIRQ] # <<>>
    BY DEF SpiInv, SpiTypes
  <2>2. rHIRQ \in Registers /\ rHIRQ # rRCVFIFO /\ rHIRQ # rSUDFIFO
    BY DEF Registers, rHIRQ, rRCVFIFO, rSUDFIFO
  <2>3. \A byte \in Bytes : <<byte>> \in Seq(Byte) /\ <<byte>> # <<>>
    BY SpiAssumption DEF Byte
  <2>4. Filled \in Seq(Byte) /\ <<>> \in Seq(Byte)
    BY SpiAssumption DEF Filled, Byte
  <2>5. QED  BY <2>1, <2>2, <2>3, <2>4 DEF ChipChanges
<1>2. SpiTypes'
  BY <1>1 DEF SpiInv, SpiTypes, spiCore, spiDriver
<1>3. InCall => InCall'
  BY <1>1 DEF InCall, Programmed, AtRest, Clock, Tmt, Reading, Ends, Ignored, Given, Shifted, Taken,
              StreamLength, CommandByte, spiCore, spiDriver
<1>4. QED  BY <1>1, <1>2, <1>3 DEF SpiInv, NoCall, spiCore, spiDriver

LEMMA SpiInvStep == SpiInv /\ [SpiNext]_spiVars => SpiInv'
<1> SUFFICES ASSUME SpiInv, [SpiNext]_spiVars PROVE SpiInv'
  OBVIOUS
<1>1. CASE UNCHANGED spiVars
  <2>1. UNCHANGED <<txdata, shift, rxdata, selected, file, moved, call, commands, spi_pc, write_data,
                    write_zeros, read_ignore, read_data, credits>>
    BY <1>1 DEF spiVars, spiCore, spiChip, spiDriver
  <2>2. SpiTypes' /\ (NoCall => NoCall')
    BY <2>1 DEF SpiInv, SpiTypes, NoCall
  <2>3. InCall => InCall'
    BY <2>1 DEF InCall, Programmed, AtRest, Clock, Tmt, Reading, Ends, Ignored, Given, Shifted, Taken,
                StreamLength, CommandByte
  <2>4. QED  BY <2>1, <2>2, <2>3 DEF SpiInv
<1>2. QED  BY <1>1, AccessCallKeeps, CommandBeginKeeps, CommandLoopKeeps, CommandEndKeeps, LoadKeeps,
             ExchangeKeeps, ChipChangesKeeps DEF SpiNext, SpiWorks
-----------------------------------------------------------------------------
(* The refinement.                                                         *)
fileVars == <<file, call, moved, answer>>

LEMMA InitRefines == SpiInit => RF!FileInit
<1> SUFFICES ASSUME SpiInit PROVE RF!FileInit
  OBVIOUS
<1>1. {a.reg : a \in Accesses} = Registers
  <2>1. ASSUME NEW reg \in Registers
        PROVE  \E a \in Accesses : a.reg = reg
    <3>1. CASE reg = rRCVFIFO
      <4>1. Access(rRCVFIFO, <<>>, 0) \in Accesses
        BY SpiAssumption DEF Accesses
      <4>2. QED  BY <3>1, <4>1 DEF Access
    <3>2. CASE reg = rSUDFIFO
      <4>1. Access(rSUDFIFO, SetupBytes, 0) \in Accesses
        BY DEF Accesses
      <4>2. QED  BY <3>2, <4>1 DEF Access
    <3>3. CASE reg \in {rHIRQ, rPERADDR}
      <4>1. Access(reg, <<>>, 1) \in Accesses
        BY <3>3 DEF Accesses
      <4>2. QED  BY <4>1 DEF Access
    <3>4. QED  BY <3>1, <3>2, <3>3 DEF Registers
  <2>2. \A a \in Accesses : a.reg \in Registers
    BY AccessFacts
  <2>3. QED  BY <2>1, <2>2
<1>2. QED  BY <1>1 DEF SpiInit, RF!FileInit, RF!NoAccess, NoAccess, Access

(* Each step of the driver, the core and the chip is one of the register   *)
(* file, or none that can be seen there.                                   *)
LEMMA StepRefines == SpiInv /\ [SpiNext]_spiVars => [RF!FileNext]_fileVars
<1> SUFFICES ASSUME SpiInv, [SpiNext]_spiVars PROVE [RF!FileNext]_fileVars
  OBVIOUS
<1>1. NoAccess = RF!NoAccess
  BY DEF NoAccess, RF!NoAccess, Access
<1>2. CASE UNCHANGED spiVars \/ CommandBegin \/ CommandLoop \/ Load
  BY <1>2 DEF spiVars, spiChip, spiDriver, fileVars, CommandBegin, CommandLoop, Load
<1>3. CASE AccessCall
  <2>1. PICK c \in Accesses, cmds \in Seq(SpiCommands) : CallOf(c, cmds)
    BY <1>3, AccessProgramme
  <2>2. RF!Ask
    BY <1>1, <2>1 DEF CallOf, RF!Ask
  <2>3. QED  BY <2>2 DEF RF!FileNext
<1>4. CASE CommandEnd
  <2>1. call # NoAccess /\ spi_pc = "tmt" /\ UNCHANGED <<file, moved>>
    BY <1>4 DEF CommandEnd, SpiInv, NoCall
  <2>2. Tmt /\ Len(commands) \in {1, 2}
    BY <2>1, InCallFacts DEF InCall, Programmed
  <2>3. CASE Len(commands) = 2
    BY <1>4, <2>1, <2>3 DEF CommandEnd, fileVars
  <2>4. CASE Len(commands) = 1
    <3>1. /\ call' = NoAccess
          /\ answer' = (IF call.bytes = <<>> THEN read_data ELSE answer)
      BY <1>4, <2>4 DEF CommandEnd
    <3>2. Shifted = StreamLength(call) /\ selected # None /\ Shifted = 1 + Len(moved)
      BY <2>1, <2>2, <2>4, InCallFacts DEF Tmt, Ends, Shifted, StreamLength
    <3>3. moved \in Seq(Byte) /\ read_data \in Seq(Byte)
      BY DEF SpiInv, SpiTypes
    <3>4. Len(moved) = Len(call.bytes) + call.count
      BY <2>1, <3>2, <3>3, InCallFacts DEF StreamLength
    <3>5. ASSUME call.bytes = <<>>
          PROVE  read_data = moved
      <4>1. Len(read_data) = Ends - 1 /\ Ends = 1 + Len(moved)
        BY <2>1, <2>2, <2>4, <3>2, <3>3, <3>5, InCallFacts DEF Tmt, Reading, Ends
      <4>2. \A i \in 1 .. Len(read_data) : read_data[i] = moved[i]
        BY <2>2, <3>5 DEF Tmt, Reading
      <4>3. Len(read_data) = Len(moved)
        BY <3>3, <4>1
      <4>4. QED  BY <3>3, <4>2, <4>3, SeqEqual
    <3>6. RF!Return
      BY <1>1, <2>1, <3>1, <3>4, <3>5 DEF RF!Return
    <3>7. QED  BY <3>6 DEF RF!FileNext
  <2>5. QED  BY <2>2, <2>3, <2>4
<1>5. CASE Exchange
  <2>1. call # NoAccess /\ UNCHANGED <<call, answer>>
    BY <1>5, Exchanged DEF Exchange, spiDriver
  <2>2. CASE selected = None
    BY <1>5, <2>1, <2>2 DEF Exchange, fileVars
  <2>3. CASE selected # None /\ IsWrite(selected)
    <3>1. /\ file' = RF!Put(file, call.reg, shift) /\ moved' = Append(moved, shift)
          /\ shift = call.bytes[Len(moved) + 1] /\ Len(moved) < Len(call.bytes) + call.count /\ call.count = 0
      BY <1>5, <2>3, Exchanged DEF Exchange
    <3>2. Len(moved) < Len(call.bytes)
      BY <2>1, <3>1, InCallFacts
    <3>3. RF!WriteByte
      BY <1>1, <2>1, <3>1, <3>2 DEF RF!WriteByte
    <3>4. QED  BY <3>3 DEF RF!FileNext
  <2>4. CASE selected # None /\ ~IsWrite(selected)
    <3>1. /\ file' = RF!Got(file, call.reg) /\ moved' = Append(moved, RF!Get(file, call.reg))
          /\ call.bytes = <<>> /\ Len(moved) < Len(call.bytes) + call.count
      BY <1>5, <2>4, Exchanged DEF Exchange
    <3>2. Len(moved) < call.count
      BY <2>1, <3>1, InCallFacts
    <3>3. RF!ReadByte
      BY <1>1, <2>1, <3>1, <3>2 DEF RF!ReadByte
    <3>4. QED  BY <3>3 DEF RF!FileNext
  <2>5. QED  BY <2>2, <2>3, <2>4
<1>6. CASE ChipChanges
  <2>1. UNCHANGED <<call, moved, answer>> /\ DOMAIN file = Registers
    BY <1>6 DEF ChipChanges, spiDriver, SpiInv, SpiTypes
  <2>2. {rHIRQ, rRCVFIFO, rSUDFIFO} \subseteq Registers /\ rHIRQ \notin Fifos
        /\ {rRCVFIFO, rSUDFIFO} \subseteq Fifos
    BY DEF Registers, Fifos, rHIRQ, rRCVFIFO, rSUDFIFO
  <2>3. RF!Changes
    BY <1>6, <2>1, <2>2 DEF ChipChanges, RF!Changes
  <2>4. QED  BY <2>3 DEF RF!FileNext
<1>7. QED  BY <1>2, <1>3, <1>4, <1>5, <1>6 DEF SpiNext, SpiWorks

(* The driver and the core implement the register file: every byte of an   *)
(* access reaches the register that was asked for, once and in order, and  *)
(* the answer is what the register gave.                                   *)
THEOREM SpiImplements == SpiSpec => SpiIsRegisterFile
<1>1. SpiInv /\ [SpiNext]_spiVars => [RF!FileNext]_<<file, call, moved, answer>>
  BY StepRefines DEF fileVars
<1>2. QED  BY SpiInvInit, SpiInvStep, InitRefines, <1>1, PTL DEF SpiSpec, SpiIsRegisterFile, RF!FileSpec
-----------------------------------------------------------------------------
(* The three views together.                                               *)
HostInv == TableIInv /\ EnumerateInv /\ SpiInv

LEMMA HostStepIs ==
  [HostNext]_hostVars => [Next]_vars /\ [EnumerateNext]_enumerateVars /\ [SpiNext]_spiVars
<1> SUFFICES ASSUME [HostNext]_hostVars
             PROVE  [Next]_vars /\ [EnumerateNext]_enumerateVars /\ [SpiNext]_spiVars
  OBVIOUS
<1>1. CASE UNCHANGED hostVars
  BY <1>1 DEF hostVars
<1>2. CASE OfLoop(Next)
  BY <1>2 DEF OfLoop
<1>3. CASE OfTransfers(EnumerateNext)
  BY <1>3 DEF OfTransfers
<1>4. CASE OfRegisters(SpiNext)
  BY <1>4 DEF OfRegisters
<1> QED
  BY <1>1, <1>2, <1>3, <1>4 DEF HostNext

(* In the host as a whole, whichever part of it is looked at, the loop, the*)
(* transfers and the register accesses keep what each keeps alone, and the *)
(* accesses are those of a register file.                                  *)
THEOREM HostTheorem ==
  HostSpec => /\ [](TypeOK /\ EnumerateTypeOK)
              /\ [](DeviceTable /\ WholeAnswers /\ RunningIsConfigured /\ GoodDevicesRun)
              /\ SpiIsRegisterFile
<1>1. HostInit => HostInv /\ RF!FileInit
  BY TableInitially, EnumerateInitially, SpiInvInit, InitRefines DEF HostInit, HostInv
<1>2. HostInv /\ [HostNext]_hostVars => HostInv'
  BY HostStepIs, TableStep, EnumerateStep, SpiInvStep DEF HostInv
<1>3. HostInv /\ [HostNext]_hostVars => [RF!FileNext]_<<file, call, moved, answer>>
  BY HostStepIs, StepRefines DEF HostInv, fileVars
<1>4. HostInv => TypeOK /\ EnumerateTypeOK
  BY DEF HostInv, TableIInv, EnumerateInv
<1>5. HostInv => DeviceTable /\ WholeAnswers /\ RunningIsConfigured /\ GoodDevicesRun
  BY TableGivesDeviceTable, AnswersAreWhole, RunningHasBeenConfigured, GoodDevicesAreKept DEF HostInv
<1> QED
  BY <1>1, <1>2, <1>3, <1>4, <1>5, PTL DEF HostSpec, SpiIsRegisterFile, RF!FileSpec
=============================================================================
