------------------------------ MODULE UsbHost ------------------------------
(***************************************************************************)
(* The USB host seen three times: the loop, in which UsbTask takes a       *)
(* control transfer for one step with one result; the transfers, which     *)
(* Enumerate sends packet by packet while the loop stands in USB_Task; and *)
(* the accesses to the MAX3421E's registers, which both take for one step  *)
(* and Spi does byte by byte.  A behaviour is of one of the three, and the *)
(* others' state stands still.                                             *)
(***************************************************************************)
EXTENDS UsbTask, Enumerate, Spi

VARIABLE view

hostVars == <<view, vars, enumerateVars, spiVars>>

(* What stands still has one initial state.                                *)
HostInit ==
  /\ view \in {"loop", "transfers", "registers"} /\ Init /\ EnumerateInit /\ SpiInit
  /\ view # "transfers" => plugged = (CHOOSE d \in Devices : TRUE)
  /\ view # "loop" => dev = NoDevice
  /\ view # "registers" => rxdata = None

OfLoop(step) == view = "loop" /\ step /\ UNCHANGED <<view, enumerateVars, spiVars>>
OfTransfers(step) == view = "transfers" /\ step /\ UNCHANGED <<view, vars, spiVars>>
OfRegisters(step) == view = "registers" /\ step /\ UNCHANGED <<view, vars, enumerateVars>>

HostNext == OfLoop(Next) \/ OfTransfers(EnumerateNext) \/ OfRegisters(SpiNext)

(* The program goes on, a bus reset ends, time passes (FairSpec of UsbTask)*)
(* and the SPI core exchanges its bytes; the line may lose everything.     *)
HostSpec ==
  /\ HostInit /\ [][HostNext]_hostVars
  /\ WF_hostVars(OfLoop(Loop)) /\ WF_hostVars(OfLoop(ResetEnds)) /\ WF_hostVars(OfLoop(Settled))
  /\ WF_hostVars(OfTransfers(Attempt)) /\ WF_hostVars(OfRegisters(SpiWorks))
-----------------------------------------------------------------------------
HostTypeOK == TypeOK /\ EnumerateTypeOK /\ SpiTypeOK

(* The host comes to an end with what it does: a device that is taken out  *)
(* while it runs is given up, from any step of the loop (mainnn.c:226-232),*)
(* every request is answered or given up, whatever is lost or put off      *)
(* (transfer.c:142-186), and every access to a register is completed       *)
(* (altera_avalon_spi.c:69-125).                                           *)
HostGoesOn ==
  \/ view = "loop" /\ Gone
  \/ view = "transfers" /\ Requesting
  \/ view = "registers" /\ Accessing
  ~>
  \/ view = "loop" /\ Noticed
  \/ view = "transfers" /\ ~Requesting
  \/ view = "registers" /\ ~Accessing
=============================================================================
