--------------------------------- MODULE Spi ---------------------------------
(***************************************************************************)
(* Accesses to the registers of the MAX3421E: MAXreg_wr, MAXbytes_wr,      *)
(* MAXreg_rd and MAXbytes_rd (MAX3421E.c), the commands of                 *)
(* altera_avalon_spi.c they are made of, the SPI core with its holding     *)
(* registers and the chip's end of the line, which takes the first byte    *)
(* after it is selected for the register and the direction.                *)
(*                                                                         *)
(* What it promises is RegisterFile; UsbTask, UsbXfer and Enumerate take   *)
(* an access for one step.                                                 *)
(***************************************************************************)
EXTENDS Integers, Sequences

CONSTANTS
  Bytes,         (* Data bytes, some of which look like commands.            *)
  SetupBytes,    (* The bytes of a setup packet, as many as a run needs.     *)
  MaxRead        (* Bytes read from the receive FIFO at most.                *)

(* A command with nothing to write and nothing to read never ends, so a    *)
(* setup packet has bytes.                                                 *)
ASSUME SpiAssumption ==
  /\ Bytes \subseteq 0 .. 255 /\ MaxRead \in Nat
  /\ SetupBytes \in Seq(0 .. 255) /\ SetupBytes # <<>>

(* Registers, with their numbers in bits 7:3 (MAX3421E.h).                 *)
rRCVFIFO == 8
rSUDFIFO == 32
rHIRQ == 200
rPERADDR == 224
Registers == {rRCVFIFO, rSUDFIFO, rHIRQ, rPERADDR}
Fifos == {rRCVFIFO, rSUDFIFO}
Filled == SetupBytes

None == -1
AllSent == -1024          (* `credits' once there is nothing left to send.      *)

VARIABLES
  sso, txdata, shift, rxdata,      (* The core: CONTROL.SSO, the transmit holding register    *)
                                   (* (TRDY: None), the shift register, RXDATA (RRDY: not).   *)
  selected,                        (* The chip: the command byte it goes by, or None.         *)
  file,                            (* Its registers.                                          *)
  call, commands,                  (* The access, and the SPI commands it still has to do.    *)
  spi_pc, write_data, write_zeros, read_ignore, read_data, credits,
  moved, answer                    (* History: data bytes on the line; the last one's result. *)

spiCore   == <<sso, txdata, shift, rxdata>>
spiChip   == <<selected, file, moved>>
spiDriver == <<call, commands, spi_pc, write_data, write_zeros, read_ignore, read_data, credits, answer>>
spiVars   == <<spiCore, spiChip, spiDriver>>

Access(reg, bytes, count) == [reg |-> reg, bytes |-> bytes, count |-> count]
NoAccess == Access(0, <<>>, 0)

(* write_length, read_length and the MERGE flag are the command's.         *)
Command(write, count, merge) == [write |-> write, count |-> count, merge |-> merge]

MAXreg_wr(reg, val) == <<Command(<<reg + 2, val>>, 0, FALSE)>>
MAXbytes_wr(reg, data) == <<Command(<<reg + 2>>, 0, TRUE), Command(data, 0, FALSE)>>
(* Mutant: the chip is let go between the register and its value.          *)
MAXreg_rdApart(reg) == <<Command(<<reg>>, 0, FALSE), Command(<<>>, 1, FALSE)>>
MAXreg_rd(reg) == <<Command(<<reg>>, 0, TRUE), Command(<<>>, 1, FALSE)>>
MAXbytes_rd(reg, nbytes) == <<Command(<<reg>>, nbytes, FALSE)>>

Accesses ==
  {Access(rPERADDR, <<val>>, 0) : val \in Bytes} \cup {Access(reg, <<>>, 1) : reg \in {rHIRQ, rPERADDR}}
    \cup {Access(rSUDFIFO, SetupBytes, 0)} \cup {Access(rRCVFIFO, <<>>, n) : n \in 0 .. MaxRead}

CallOf(access, cmds) ==
  /\ spi_pc = "idle" /\ call = NoAccess
  /\ call' = access /\ commands' = cmds /\ moved' = <<>>
  /\ UNCHANGED <<spiCore, selected, file, spi_pc, write_data, write_zeros, read_ignore, read_data,
                 credits, answer>>

(* The USB code's accesses: interrupt and address registers, a setup       *)
(* packet, written when the one before it has gone, and what was received, *)
(* which may be nothing (transfer.c:98, 211).                              *)
AccessCall ==
  \/ \E val \in Bytes : CallOf(Access(rPERADDR, <<val>>, 0), MAXreg_wr(rPERADDR, val))
  \/ \E reg \in {rHIRQ, rPERADDR} : CallOf(Access(reg, <<>>, 1), MAXreg_rd(reg))
  \/ file[rSUDFIFO] = <<>> /\ CallOf(Access(rSUDFIFO, SetupBytes, 0), MAXbytes_wr(rSUDFIFO, SetupBytes))
  \/ \E n \in 0 .. MaxRead : CallOf(Access(rRCVFIFO, <<>>, n), MAXbytes_rd(rRCVFIFO, n))
-----------------------------------------------------------------------------
(* alt_avalon_spi_command begins: SSO is set, what may be in RXDATA is     *)
(* discarded.                                                              *)
CommandBegin ==
  /\ spi_pc = "idle" /\ commands # <<>> /\ spi_pc' = "clock"
  /\ sso' = TRUE /\ rxdata' = None
  /\ write_data' = Head(commands).write /\ write_zeros' = Head(commands).count
  /\ read_ignore' = Len(Head(commands).write) /\ read_data' = <<>> /\ credits' = 1
  /\ UNCHANGED <<txdata, shift, spiChip, call, commands, answer>>

(* The two halves of the loop's body.  Both go by one look at STATUS,      *)
(* whose bits stay until the driver acts on them.                          *)
Trdy == txdata = None /\ credits > 0
Rrdy == rxdata # None

SendByte ==
  IF ~Trdy THEN UNCHANGED <<txdata, write_data, write_zeros>>
  ELSE IF write_data # <<>>
       THEN txdata' = Head(write_data) /\ write_data' = Tail(write_data) /\ UNCHANGED write_zeros
       ELSE IF write_zeros > 0 THEN txdata' = 0 /\ write_zeros' = write_zeros - 1 /\ UNCHANGED write_data
            ELSE UNCHANGED <<txdata, write_data, write_zeros>>

TakeByte ==
  IF ~Rrdy THEN UNCHANGED <<rxdata, read_ignore, read_data>>
  ELSE /\ rxdata' = None
       /\ IF read_ignore > 0 THEN read_ignore' = read_ignore - 1 /\ UNCHANGED read_data
          ELSE read_data' = Append(read_data, rxdata) /\ UNCHANGED read_ignore

Credits ==
  LET sent == IF ~Trdy THEN credits ELSE IF write_data = <<>> /\ write_zeros = 0 THEN AllSent ELSE credits - 1
  IN IF Rrdy THEN sent + 1 ELSE sent

CommandLoop ==
  /\ spi_pc = "clock" /\ (Trdy \/ Rrdy)
  /\ SendByte /\ TakeByte /\ credits' = Credits
  /\ spi_pc' = (IF Rrdy /\ read_ignore' = 0 /\ Len(read_data') = Head(commands).count THEN "tmt" ELSE "clock")
  /\ UNCHANGED <<sso, shift, spiChip, call, commands, answer>>

(* All is out (TMT).  The chip is let go unless the command is merged with *)
(* the next, and the call returns after its last command.                  *)
CommandEnd ==
  /\ spi_pc = "tmt" /\ txdata = None /\ shift = None /\ spi_pc' = "idle"
  /\ commands' = Tail(commands)
  /\ sso' = Head(commands).merge /\ selected' = (IF Head(commands).merge THEN selected ELSE None)
  /\ call' = (IF Len(commands) = 1 THEN NoAccess ELSE call)
  /\ answer' = (IF Len(commands) = 1 /\ call.bytes = <<>> THEN read_data ELSE answer)
  /\ UNCHANGED <<txdata, shift, rxdata, file, moved, write_data, write_zeros, read_ignore, read_data,
                 credits>>
-----------------------------------------------------------------------------
RF == INSTANCE RegisterFile WITH access <- call, Accesses <- Accesses

(* The core: a byte goes on to the shift register, and is exchanged for    *)
(* one of the chip's, over what RXDATA may hold.                           *)
Load == txdata # None /\ shift = None /\ shift' = txdata /\ txdata' = None
  /\ UNCHANGED <<sso, rxdata, spiChip, spiDriver>>

(* Register number in bits 7:3, direction in bit 1; with the command byte  *)
(* comes the chip's interrupt status.                                      *)
Reg(command) == (command \div 8) * 8
IsWrite(command) == (command \div 2) % 2 = 1

Exchange ==
  /\ sso /\ shift # None /\ shift' = None
  /\ IF selected = None
     THEN selected' = shift /\ rxdata' = file[rHIRQ][1] /\ UNCHANGED <<file, moved>>
     ELSE /\ Reg(selected) \in Registers /\ UNCHANGED selected
          /\ IF IsWrite(selected)
             THEN file' = RF!Put(file, Reg(selected), shift) /\ moved' = Append(moved, shift) /\ rxdata' = 0
             ELSE /\ rxdata' = RF!Get(file, Reg(selected)) /\ moved' = Append(moved, rxdata')
                  /\ file' = RF!Got(file, Reg(selected))
  /\ UNCHANGED <<sso, txdata, spiDriver>>

(* The chip raises interrupts, receives, and sends a setup packet.         *)
ChipChanges ==
  /\ \/ \E byte \in Bytes : file' = [file EXCEPT ![rHIRQ] = <<byte>>]
     \/ call.reg # rRCVFIFO /\ file' = [file EXCEPT ![rRCVFIFO] = Filled]
     \/ call.reg # rSUDFIFO /\ file' = [file EXCEPT ![rSUDFIFO] = <<>>]
  /\ UNCHANGED <<spiCore, selected, moved, spiDriver>>

(* A byte may be left in RXDATA from before a restart.                     *)
SpiInit ==
  /\ sso = FALSE /\ txdata = None /\ shift = None /\ rxdata \in {None, 0} /\ selected = None
  /\ file = [reg \in Registers |-> IF reg \in Fifos THEN <<>> ELSE <<0>>] /\ call = NoAccess
       /\ commands = <<>> /\ spi_pc = "idle"
  /\ write_data = <<>> /\ write_zeros = 0 /\ read_ignore = 0 /\ read_data = <<>> /\ credits = 0
  /\ moved = <<>> /\ answer = <<>>

SpiWorks == CommandBegin \/ CommandLoop \/ CommandEnd \/ Load \/ Exchange
SpiNext == AccessCall \/ SpiWorks \/ ChipChanges

(* The driver and the core go on.                                          *)
SpiSpec == SpiInit /\ [][SpiNext]_spiVars /\ WF_spiVars(SpiWorks)
-----------------------------------------------------------------------------
SpiTypeOK ==
  /\ sso \in BOOLEAN /\ {txdata, shift, rxdata, selected} \subseteq -1 .. 255
  /\ DOMAIN file = Registers /\ spi_pc \in {"idle", "clock", "tmt"}
  /\ write_zeros \in 0 .. MaxRead /\ read_ignore \in 0 .. Len(SetupBytes)
  /\ credits \in {0, 1, AllSent, AllSent + 1}

(* The accesses are those of a register file: each byte reaches the        *)
(* register that was asked for, in order and once, and what was read is    *)
(* what the register gave (MAX3421E.c:28-106, altera_avalon_spi.c:40-133). *)
SpiIsRegisterFile == RF!FileSpec

(* An access has to come to its end.                                       *)
Accessing == call # NoAccess
=============================================================================
