----------------------------- MODULE Enumerate -----------------------------
(***************************************************************************)
(* The enumeration of a device, packet by packet: the requests of USB_Task *)
(* and of the drivers' probes, each a control transfer of XferCtrlReq over *)
(* XferDispatchPkt and XferInTransfer, and the device's side of them.      *)
(*                                                                         *)
(* Packets and handshakes can be lost and the device can answer NAK.  A    *)
(* packet's attempt is one step: nothing else runs in it.  Descriptors are *)
(* counted in units, one for each descriptor of a configuration.  UsbTask  *)
(* has the steps between the requests; there a transfer is its result.     *)
(***************************************************************************)
EXTENDS Integers, Sequences, FiniteSetsExt

CONSTANTS
  USB_NAK_LIMIT, USB_RETRY_LIMIT,   (* 200 and 3: times a packet is sent.    *)
  Devices                 (* What can be plugged in: size of a packet of     *)
                          (* endpoint 0, length of the device descriptor and *)
                          (* of the strings (0: none), and the configuration.*)

(* "other" is an interface of neither kind.                                *)
Kinds == {"configuration", "keyboard", "mouse", "other", "hid", "endpoint"}

ASSUME EnumerateAssumption ==
  /\ USB_NAK_LIMIT \in Nat \ {0} /\ USB_RETRY_LIMIT \in Nat \ {0}
  /\ \A d \in Devices : /\ d.pkt \in Nat \ {0} /\ d.len \in Nat \ {0} /\ d.maker \in Nat /\ d.product \in Nat
                        /\ d.conf \in Seq(Kinds) /\ d.conf # <<>> /\ Head(d.conf) = "configuration"

VARIABLES
  req, strings,           (* The request under way; the strings still to get.*)
  probe, devclass,        (* The driver that probes; the one that matched.   *)
  endpoint,               (* The descriptor epinfo[1] is filled from, or 0.  *)
  addr, maxpkt,           (* PERADDR; MaxPktSize of endpoint 0.              *)
  stage, nbytes, bytes,   (* Of the transfer: what is asked and what has come*)
  toggle, naks, retries,  (* RCVTOG; the counts of XferDispatchPkt.          *)
  plugged,                (* The device ...                                  *)
  devaddr, configured, boot,        (* ... and what it has been told.        *)
  devreq, devbytes, devpos, devtoggle,  (* Its side of the transfer.         *)
  clean                   (* History: nothing has been lost, nor NAKed for   *)
                          (* too long.                                       *)

task     == <<req, strings, probe, devclass, endpoint, addr, maxpkt>>
transfer == <<stage, nbytes, bytes, toggle, naks, retries>>
devxfer  == <<devreq, devbytes, devpos, devtoggle>>
peripheral == <<devaddr, configured, boot, devxfer>>
enumerateVars == <<task, transfer, plugged, peripheral, clean>>

Head8 == 1                (* The 8 bytes of the first request, the 9 of a    *)
                          (* configuration's head and the 2 of a string's.   *)
GetRequests == {"size", "device", "makerHead", "maker", "productHead", "product", "head", "whole"}
SetRequests == {"address", "configure", "protocol"}
Least(a, b) == IF a < b THEN a ELSE b
-----------------------------------------------------------------------------
(* The device.                                                             *)

Length ==
  CASE req \in {"size", "device"} -> plugged.len
    [] req \in {"makerHead", "maker"} -> plugged.maker
    [] req \in {"productHead", "product"} -> plugged.product
    [] req \in {"head", "whole"} -> Len(plugged.conf)
    [] OTHER -> 0

(* A string it does not have, a protocol before a configuration.           *)
Refuses == \/ req \in GetRequests /\ Length = 0
           \/ req = "protocol" /\ ~configured

Hears == addr = devaddr

(* The units of the next data packet.                                      *)
Packet ==
  LET n == Least(plugged.pkt, Least(devbytes, Length) - devpos)
  IN  [i \in 1 .. n |-> devpos + i]

(* A set request is carried out when the device hears of its end.          *)
Applied ==
  /\ devaddr' = IF req = "address" THEN 1 ELSE devaddr
  /\ configured' = (configured \/ req = "configure")
  /\ boot' = (boot \/ req = "protocol")
-----------------------------------------------------------------------------
(* USB_Task and the probes: what follows a request, with its result.       *)

(* XferCtrlReq: PERADDR is set and the setup packet sent.                  *)
XferCtrlReq(r, n) ==
  /\ req' = r /\ stage' = "setup" /\ nbytes' = n /\ bytes' = <<>>
  /\ naks' = 0 /\ retries' = 0 /\ UNCHANGED toggle

Stop(r) ==
  /\ req' = r /\ stage' = "none" /\ nbytes' = 0 /\ bytes' = <<>>
  /\ naks' = 0 /\ retries' = 0 /\ toggle' = 0

(* A length that was not read is what the stack holds.                     *)
ReadOr(ok, value, any) == IF ok THEN {value} ELSE any
Garbage == 0 .. 2

NextString ==
  IF strings' = {} THEN XferCtrlReq("address", 0)
  ELSE XferCtrlReq(IF "maker" \in strings' THEN "makerHead" ELSE "productHead", Head8)

(* The first result decides; those of the rest are not looked at.          *)
DescriptorRequests(ok) ==
  \/ /\ req = "size" /\ UNCHANGED strings
     /\ IF ok THEN maxpkt' = plugged.pkt /\ XferCtrlReq("device", plugged.len)
        ELSE Stop("error") /\ UNCHANGED maxpkt
  \/ /\ req = "device"
     /\ strings' \in ReadOr(ok, {s \in {"maker", "product"} : plugged[s] > 0}, SUBSET {"maker", "product"})
     /\ NextString /\ UNCHANGED maxpkt
  \/ /\ req = "makerHead" /\ UNCHANGED <<strings, maxpkt>>
     /\ \E n \in ReadOr(ok, plugged.maker, Garbage) : XferCtrlReq("maker", n)
  \/ /\ req = "productHead" /\ UNCHANGED <<strings, maxpkt>>
     /\ \E n \in ReadOr(ok, plugged.product, Garbage) : XferCtrlReq("product", n)
  \/ /\ req \in {"maker", "product"} /\ strings' = strings \ {req}
     /\ NextString /\ UNCHANGED maxpkt

AddressRequest(ok) ==
  /\ req = "address"
  /\ IF ok THEN addr' = 1 /\ probe' = "mouse" /\ XferCtrlReq("head", Head8)
     ELSE Stop("error") /\ UNCHANGED <<addr, probe>>

(* MSDProbe and DummyProbe, before and after these two, find nothing.      *)
NextProbe ==
  IF probe = "mouse" THEN probe' = "keyboard" /\ XferCtrlReq("head", Head8)
  ELSE probe' = "none" /\ Stop("error")

Interfaces == {i \in DOMAIN plugged.conf : plugged.conf[i] \in {"keyboard", "mouse", "other"}}
EndpointsFrom(i) == {j \in DOMAIN plugged.conf : j > i /\ plugged.conf[j] = "endpoint"}

(* Mutant: the protocol of the interface is not compared.                  *)
MatchesLoosely == Interfaces # {} /\ plugged.conf[Min(Interfaces)] \in {"keyboard", "mouse"}

(* Only the first interface is looked at.                                  *)
Matches == Interfaces # {} /\ plugged.conf[Min(Interfaces)] = probe

(* The interface that matches makes the driver's endpoints the device's,   *)
(* the first endpoint after it is recorded, and the device configured.     *)
Parse ==
  IF ~Matches THEN NextProbe /\ UNCHANGED <<devclass, endpoint>>
  ELSE /\ devclass' = probe
       /\ IF EndpointsFrom(Min(Interfaces)) = {} THEN NextProbe /\ UNCHANGED endpoint
          ELSE /\ endpoint' = Min(EndpointsFrom(Min(Interfaces)))
               /\ XferCtrlReq("configure", 0) /\ UNCHANGED probe

Probe(ok) ==
  \/ /\ req \in {"head", "whole", "configure", "protocol"} /\ ~ok
     /\ NextProbe /\ UNCHANGED <<devclass, endpoint>>
  \/ /\ req = "head" /\ ok /\ XferCtrlReq("whole", Len(plugged.conf))
     /\ UNCHANGED <<probe, devclass, endpoint>>
  \/ req = "whole" /\ ok /\ Parse
  \/ /\ req = "configure" /\ ok /\ XferCtrlReq("protocol", 0)
     /\ UNCHANGED <<probe, devclass, endpoint>>
  \/ /\ req = "protocol" /\ ok /\ Stop("running")
     /\ UNCHANGED <<probe, devclass, endpoint>>

Return(ok) ==
  \/ DescriptorRequests(ok) /\ UNCHANGED <<addr, probe, devclass, endpoint>>
  \/ AddressRequest(ok) /\ UNCHANGED <<strings, maxpkt, devclass, endpoint>>
  \/ Probe(ok) /\ UNCHANGED <<strings, maxpkt, addr>>
-----------------------------------------------------------------------------
(* Control transfers.                                                      *)

(* Mutant: the data stage goes on from the toggle of the last one.         *)
SetupDoneStale ==
  /\ stage' = (IF req \in GetRequests THEN "data" ELSE "status")
  /\ naks' = 0 /\ retries' = 0 /\ UNCHANGED <<task, nbytes, bytes, toggle>>

(* The data stage begins with DATA1, at the host and at the device.        *)
SetupDone ==
  /\ stage' = (IF req \in GetRequests THEN "data" ELSE "status")
  /\ toggle' = 1 /\ naks' = 0 /\ retries' = 0 /\ UNCHANGED <<task, nbytes, bytes>>

(* Mutant: a full packet is taken for a short one.                         *)
TransferEndsEarly(pkt) == Len(pkt) <= maxpkt \/ Len(bytes) + Len(pkt) >= nbytes

TransferEnds(pkt) == Len(pkt) < maxpkt \/ Len(bytes) + Len(pkt) >= nbytes

XferInTransfer(pkt) ==
  /\ bytes' = bytes \o pkt /\ toggle' = 1 - toggle /\ naks' = 0 /\ retries' = 0
  /\ stage' = (IF TransferEnds(pkt) THEN "status" ELSE "data")
  /\ UNCHANGED <<task, nbytes>>

(* Mutant: each NAK begins the count of timeouts anew.                     *)
TryAgainForgetful(r) ==
  \/ r = "NAK" /\ naks + 1 < USB_NAK_LIMIT /\ naks' = naks + 1 /\ retries' = 0
  \/ r = "TIMEOUT" /\ retries + 1 < USB_RETRY_LIMIT /\ retries' = retries + 1 /\ naks' = 0

(* NAKs and timeouts are retried, each up to a limit.                      *)
TryAgain(r) ==
  \/ r = "NAK" /\ naks + 1 < USB_NAK_LIMIT /\ naks' = naks + 1 /\ UNCHANGED retries
  \/ r = "TIMEOUT" /\ retries + 1 < USB_RETRY_LIMIT /\ retries' = retries + 1 /\ UNCHANGED naks

GivesUp(r) ==
  \/ r = "NAK" /\ naks + 1 = USB_NAK_LIMIT
  \/ r = "TIMEOUT" /\ retries + 1 = USB_RETRY_LIMIT
  \/ r \in {"STALL", "TOGERR", "0xff"}

XferDispatchPkt(r) ==
  \/ TryAgain(r) /\ UNCHANGED <<task, stage, nbytes, bytes, toggle>>
  \/ GivesUp(r) /\ Return(FALSE)

Setup ==
  /\ stage = "setup" /\ UNCHANGED <<plugged, devaddr, configured, boot>>
  /\ \/ /\ Hears /\ devreq' = req /\ devbytes' = nbytes /\ devpos' = 0 /\ devtoggle' = 1
        /\ \/ SetupDone /\ UNCHANGED clean
           \/ XferDispatchPkt("TIMEOUT") /\ clean' = FALSE
     \/ XferDispatchPkt("TIMEOUT") /\ clean' = FALSE /\ UNCHANGED devxfer

(* The device goes on when it hears that the packet has come.              *)
Data ==
  /\ stage = "data" /\ Hears /\ ~Refuses
  /\ IF devtoggle = toggle THEN XferInTransfer(Packet) ELSE XferDispatchPkt("TOGERR")
  /\ \/ devpos' = devpos + Len(Packet) /\ devtoggle' = 1 - devtoggle /\ UNCHANGED <<devreq, devbytes, clean>>
     \/ clean' = FALSE /\ UNCHANGED devxfer
  /\ UNCHANGED <<plugged, devaddr, configured, boot>>

(* OUTHS ends the transfer for the device; again, it need not accept it.   *)
StatusOut ==
  /\ stage = "status" /\ req \in GetRequests /\ Hears
  /\ \/ Return(TRUE) /\ UNCHANGED clean
     \/ devreq # "none" /\ XferDispatchPkt("TIMEOUT") /\ clean' = FALSE
     \/ devreq = "none" /\ XferDispatchPkt("STALL") /\ UNCHANGED clean
  /\ devreq' = "none" /\ devbytes' = 0 /\ devpos' = 0 /\ devtoggle' = 0
  /\ UNCHANGED <<plugged, devaddr, configured, boot>>

(* INHS: the handshake to the device can be lost.                          *)
StatusIn ==
  /\ stage = "status" /\ req \in SetRequests /\ Hears /\ ~Refuses /\ Return(TRUE)
  /\ \/ Applied /\ devreq' = "none" /\ devbytes' = 0 /\ devpos' = 0 /\ devtoggle' = 0 /\ UNCHANGED clean
     \/ clean' = FALSE /\ UNCHANGED peripheral
  /\ UNCHANGED plugged

Stalled ==
  /\ stage \in {"data", "status"} /\ Hears /\ Refuses
  /\ XferDispatchPkt("STALL") /\ UNCHANGED <<plugged, peripheral, clean>>

(* A packet is lost, or the device has no answer yet, or the chip none.    *)
NoAnswer ==
  /\ stage # "none" /\ UNCHANGED <<plugged, peripheral>>
  /\ \/ (XferDispatchPkt("TIMEOUT") \/ XferDispatchPkt("0xff")) /\ clean' = FALSE
     \/ stage # "setup" /\ Hears /\ XferDispatchPkt("NAK") /\ clean' = (clean /\ TryAgain("NAK"))
-----------------------------------------------------------------------------
(* Before the first device.                                                *)
EnumerateInit ==
  /\ req = "none" /\ strings = {} /\ probe = "none" /\ devclass = "none" /\ endpoint = 0
  /\ addr = 0 /\ maxpkt = Head8
  /\ stage = "none" /\ nbytes = 0 /\ bytes = <<>> /\ toggle = 0 /\ naks = 0 /\ retries = 0
  /\ plugged \in Devices /\ devaddr = 0 /\ configured = FALSE /\ boot = FALSE
  /\ devreq = "none" /\ devbytes = 0 /\ devpos = 0 /\ devtoggle = 0 /\ clean = TRUE

(* A device has been plugged in and reset, the tables are those of         *)
(* USB_init: it is at address 0, and its packets are taken to have 8 bytes.*)
Connected ==
  /\ req \in {"none", "running", "error"} /\ plugged' \in Devices
  /\ XferCtrlReq("size", Head8) /\ strings' = {} /\ probe' = "none" /\ devclass' = "none" /\ endpoint' = 0
  /\ addr' = 0 /\ maxpkt' = Head8
  /\ devaddr' = 0 /\ configured' = FALSE /\ boot' = FALSE
  /\ devreq' = "none" /\ devbytes' = 0 /\ devpos' = 0 /\ devtoggle' = 0 /\ clean' = TRUE

Attempt == Setup \/ Data \/ StatusOut \/ StatusIn \/ Stalled \/ NoAnswer

EnumerateNext == Attempt \/ Connected

(* The program goes on; the line may lose everything.                      *)
EnumerateSpec == EnumerateInit /\ [][EnumerateNext]_enumerateVars /\ WF_enumerateVars(Attempt)
-----------------------------------------------------------------------------
EnumerateTypeOK ==
  /\ req \in GetRequests \cup SetRequests \cup {"none", "running", "error"}
  /\ strings \subseteq {"maker", "product"}
  /\ probe \in {"none", "mouse", "keyboard"} /\ devclass \in {"none", "mouse", "keyboard"} /\ endpoint \in Nat
  /\ addr \in 0 .. 1 /\ maxpkt \in Nat /\ stage \in {"none", "setup", "data", "status"}
  /\ nbytes \in Nat /\ bytes \in Seq(Nat) /\ toggle \in 0 .. 1
  /\ naks \in 0 .. USB_NAK_LIMIT - 1 /\ retries \in 0 .. USB_RETRY_LIMIT - 1
  /\ plugged \in Devices /\ devaddr \in 0 .. 1 /\ {configured, boot, clean} \subseteq BOOLEAN
  /\ devreq \in GetRequests \cup SetRequests \cup {"none"} /\ devbytes \in Nat /\ devpos \in Nat
  /\ devtoggle \in 0 .. 1

(* A get request that reaches its end has the whole answer, in order and   *)
(* nothing twice, for any size of packets and whatever was lost and sent   *)
(* again (transfer.c:107-123, 191-227): the descriptor's length, MaxPktSize*)
(* and the configuration that the program goes on with are the device's.   *)
WholeAnswers ==
  stage = "status" /\ req \in GetRequests => bytes = [i \in 1 .. Least(nbytes, Length) |-> i]

(* A device that runs is configured, under the address the program has for *)
(* it, by the driver of its first interface and with an endpoint of a      *)
(* later descriptor than that (transfer.c:336-371, HID.c:19-201), though   *)
(* results in between are ignored and handshakes lost.  It need not be in  *)
(* the boot protocol: the last handshake can be lost.                      *)
RunningIsConfigured ==
  req = "running" =>
    /\ configured /\ addr = devaddr /\ maxpkt = plugged.pkt
    /\ \E i \in Interfaces : /\ plugged.conf[i] = devclass /\ i = Min(Interfaces)
                             /\ endpoint > i /\ plugged.conf[endpoint] = "endpoint"

(* A keyboard or a mouse that answers all it is sent is never given up,    *)
(* whatever sizes its packets and descriptors have and however often it    *)
(* answers NAK first, below the limit.                                     *)
GoodDevicesRun ==
  req = "error" /\ clean =>
    ~ \E i \in Interfaces : /\ plugged.conf[i] \in {"keyboard", "mouse"} /\ i = Min(Interfaces)
                            /\ EndpointsFrom(i) # {}

(* A request has to come to its end, good or bad (transfer.c:142-186).     *)
Requesting == stage # "none"
=============================================================================
