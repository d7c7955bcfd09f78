------------------------------ MODULE I2cMaster ------------------------------
(***************************************************************************)
(* The I2C master of the board: the HAL's driver for the Avalon I2C core   *)
(* (altera_avalon_i2c.c), its optional interrupt handler, and the codec's  *)
(* register accesses that use it (sgtl5000.c), over a core and a device    *)
(* modelled from how the driver uses them.                                 *)
(*                                                                         *)
(* The driver writes commands into a FIFO of Depth entries and the core    *)
(* works on them in its own time: a refusal (NACK) or a lost arbitration   *)
(* shows in ISR long after the command was written, and with it the core   *)
(* drops what is queued.  A wait that polls a register is one step that    *)
(* either finds its condition or gives up after its count.  The bytes of a *)
(* request are 1, 2, ...; the device answers with Reply(1), Reply(2), ...  *)
(***************************************************************************)
EXTENDS Integers, Sequences, FiniteSets

CONSTANTS Depth,      \* entries of the command and of the receive FIFO
          TxSizes,    \* sizes of a transmission
          RxSizes,    \* sizes of a reception
          Tries,      \* attempts of a call; the code's 10000
          Ints,       \* values of use_interrupts, a set of BOOLEANs
          Shared,     \* whether tx and rx buffer are one, a set of BOOLEANs
          TenBit      \* address modes, a set of BOOLEANs

ASSUME I2cAssumption ==
  /\ Depth \in Nat \ {0} /\ Tries \in Nat \ {0}
  /\ TxSizes \subseteq Nat \ {0} /\ RxSizes \subseteq 1..Depth
  /\ Ints \subseteq BOOLEAN /\ Shared \subseteq BOOLEAN /\ TenBit \subseteq BOOLEAN

VARIABLES
  en, i2c_isr, iser, txEmpty, rxFull,   \* CTRL.EN, the sticky bits of ISR, ISER, the two thresholds
  cmds, i2c_core, rxf,                  \* command FIFO, state of the core, receive FIFO
  device_heard, replied,                   \* what the device acknowledged, how many bytes it sent
  callback, irq_busy, irq_left, irqbuf, isrpc, saved,
  request, i2c_pc, phase, sent, i2c_got, status, tries, buf

i2cHardware == <<cmds, i2c_core, rxf, device_heard, replied>>
control  == <<en, i2c_isr, iser, txEmpty, rxFull>>
irqs     == <<callback, irq_busy, irq_left, irqbuf, isrpc, saved>>
i2cDriver   == <<request, i2c_pc, phase, sent, i2c_got, status, tries, buf>>
i2cVars  == <<i2cHardware, control, irqs, i2cDriver>>

Clearable == {"RX_OVER", "ARBLOST_DET", "NACK_DET"}
AllInts   == Clearable \cup {"RX_READY", "TX_READY"}
Statuses  == {"SUCCESS", "TIMEOUT", "BAD_ARG", "NACK_ERR", "ARB_LOST_ERR", "BUSY"}
Reply(i)  == 100 + i
Garbage   == 0      \* a read of the empty receive FIFO

Min2(a, b) == IF a < b THEN a ELSE b

-----------------------------------------------------------------------------
(* The request in hand. *)

I2cCalls ==
  [op : {"tx"}, tx : TxSizes, rx : {0}, ints : Ints, shared : {FALSE}, ten : TenBit]
  \cup [op : {"rx"}, tx : {0}, rx : RxSizes, ints : Ints, shared : {FALSE}, ten : {FALSE}]
  \cup [op : {"txrx"}, tx : TxSizes, rx : RxSizes, ints : Ints, shared : Shared, ten : {FALSE}]

FirstPhase == IF request.op = "rx" THEN "receive" ELSE "transmit"
Restart == phase = "receive" /\ request.op = "txrx"
Stop    == ~(phase = "transmit" /\ request.op = "txrx")
Size    == IF phase = "transmit" THEN request.tx ELSE request.rx
Address == IF request.ten THEN 2 ELSE 1
Total   == Address + Size
TxBuffer == IF request.shared THEN buf ELSE [i \in 1..request.tx |-> i]

\* the n-th command of the phase: an address byte, a byte to send or a byte to read
Command(n) == [address |-> n <= Address, read |-> phase = "receive", stop |-> Stop /\ n = Total,
               val |-> IF n > Address /\ phase = "transmit" THEN TxBuffer[n - Address] ELSE 0]

-----------------------------------------------------------------------------
(* Registers. *)

TxReady == Len(cmds) <= IF txEmpty THEN 0 ELSE Depth - 1
RxReady == Len(rxf) >= IF rxFull THEN Depth ELSE 1
Raw     == i2c_isr \cup {i \in {"TX_READY"} : TxReady} \cup {i \in {"RX_READY"} : RxReady}
IsBusy  == i2c_core # "idle" \/ (en /\ cmds # <<>>)

\* check_nack and check_arblost: later checks overwrite earlier ones
CheckNack(st)    == IF "NACK_DET" \in i2c_isr THEN "NACK_ERR" ELSE st
CheckArbLost(st) == IF "ARBLOST_DET" \in i2c_isr THEN "ARB_LOST_ERR" ELSE st

\* ISR is cleared by the bits written to it; ISER is read, changed and written
alt_avalon_i2c_int_clear         == i2c_isr' = i2c_isr \ Clearable
alt_avalon_i2c_int_enable(bits)  == iser' = iser \cup bits
alt_avalon_i2c_int_disable(bits) == iser' = iser \ bits

\* ALT_AVALON_I2C_TFR_CMD_FIFO_EMPTY and ALT_AVALON_I2C_RX_DATA_FIFO_1_ENTRY
tfr_cmd_fifo_threshold_set == txEmpty' = TRUE
rx_fifo_threshold_set      == rxFull' = FALSE

\* an enabled core is busy with another transaction
alt_avalon_i2c_enable == ~en /\ en' = TRUE /\ irq_busy' = IF callback THEN 0 ELSE irq_busy

\* disable: the core drops its commands and TX_READY_EN; whether it keeps
\* bytes received is not known here
Disable ==
  /\ en' = FALSE /\ iser' = iser \ {"TX_READY"}
  /\ cmds' = <<>> /\ i2c_core' = "idle" /\ rxf' \in {rxf, <<>>}
  /\ UNCHANGED <<txEmpty, rxFull, device_heard, replied>>

\* n bytes from the receive FIFO to the buffer, behind those already there
Take(n, have) ==
  /\ rxf' = SubSeq(rxf, n + 1, Len(rxf))
  /\ buf' = [i \in 1..(IF have + n > Len(buf) THEN have + n ELSE Len(buf)) |->
               IF i \in have + 1..have + n THEN rxf[i - have] ELSE buf[i]]

-----------------------------------------------------------------------------
(* The core and the device. *)

Flushing == i2c_isr \cap {"NACK_DET", "ARBLOST_DET"} # {}
Front == Head(cmds)

Works(rest) == en /\ cmds # <<>> /\ ~Flushing /\ i2c_core # "stopping" /\ cmds' = rest
               /\ UNCHANGED <<en, iser, txEmpty, rxFull, irqs, i2cDriver>>

After == i2c_core' = IF Front.stop THEN "stopping" ELSE "busy"

AckAddress ==
  /\ Works(Tail(cmds)) /\ Front.address /\ After
  /\ device_heard' = IF Front.read THEN device_heard ELSE <<>>
  /\ replied' = 0
  /\ UNCHANGED <<i2c_isr, rxf>>

AckData ==
  /\ Works(Tail(cmds)) /\ ~Front.address /\ ~Front.read /\ After
  /\ device_heard' = Append(device_heard, Front.val)
  /\ UNCHANGED <<i2c_isr, rxf, replied>>

SendData ==
  /\ Works(Tail(cmds)) /\ ~Front.address /\ Front.read /\ After
  /\ replied' = replied + 1
  /\ IF Len(rxf) < Depth
     THEN rxf' = Append(rxf, Reply(replied + 1)) /\ UNCHANGED i2c_isr
     ELSE i2c_isr' = i2c_isr \cup {"RX_OVER"} /\ UNCHANGED rxf
  /\ UNCHANGED device_heard

\* the device does not acknowledge: the core drops the rest and sends STOP
Nack ==
  /\ Works(<<>>) /\ (Front.address \/ ~Front.read)
  /\ i2c_isr' = i2c_isr \cup {"NACK_DET"} /\ i2c_core' = "stopping"
  /\ UNCHANGED <<rxf, device_heard, replied>>

\* another master wins the bus, where this one sends an address or a byte
LoseArbitration ==
  /\ Works(<<>>) /\ (Front.address \/ ~Front.read) /\ i2c_isr' = i2c_isr \cup {"ARBLOST_DET"}
       /\ i2c_core' = "idle"
  /\ UNCHANGED <<rxf, device_heard, replied>>

StopSent ==
  /\ i2c_core = "stopping" /\ i2c_core' = "idle"
  /\ UNCHANGED <<cmds, rxf, device_heard, replied, control, irqs, i2cDriver>>

Core == AckAddress \/ AckData \/ SendData \/ Nack \/ LoseArbitration \/ StopSent

-----------------------------------------------------------------------------
(* master_tx, master_rx and master_tx_rx, and what they call.  The program *)
(* stands still while an interrupt is served.                              *)

I2cAt(p) == i2c_pc = p /\ isrpc = "off"

I2cGoto(p) == i2c_pc' = p /\ UNCHANGED <<request, tries, phase>>

\* a caller may start again while an interrupt transaction is under way
Start(c) ==
  /\ I2cAt("idle") \/ (I2cAt("armed") /\ en)
  /\ request' = c /\ tries' = Tries /\ i2c_pc' = "begin" /\ status' = "SUCCESS"
  /\ phase' = IF c.op = "rx" THEN "receive" ELSE "transmit"
  /\ buf' = IF c.shared THEN [i \in 1..c.tx |-> i] ELSE <<>>
  /\ sent' = 0 /\ i2c_got' = 0
  /\ UNCHANGED <<i2cHardware, control, irqs>>

RegisterCallback ==
  /\ I2cAt("idle") /\ ~callback
  /\ callback' = TRUE /\ irq_busy' = 0
  /\ UNCHANGED <<i2cHardware, control, irq_left, irqbuf, isrpc, saved, i2cDriver>>

\* the head of the four transaction functions: BAD_ARG, BUSY, or enable and clear
Begin ==
  /\ I2cAt("begin") /\ sent' = 0 /\ i2c_got' = 0
  /\ \/ /\ request.ints /\ ~callback
        /\ status' = "BAD_ARG" /\ I2cGoto("retry") /\ UNCHANGED <<en, i2c_isr, irq_busy>>
     \/ /\ (request.ints => callback) /\ Restart
        /\ status' = "SUCCESS" /\ I2cGoto("cmd") /\ UNCHANGED <<en, i2c_isr, irq_busy>>
     \/ /\ (request.ints => callback) /\ ~Restart /\ en
        /\ status' = "BUSY" /\ I2cGoto("retry") /\ UNCHANGED <<en, i2c_isr, irq_busy>>
     \/ /\ (request.ints => callback) /\ ~Restart
        /\ alt_avalon_i2c_enable /\ alt_avalon_i2c_int_clear
        /\ status' = "SUCCESS" /\ I2cGoto("cmd")
  /\ UNCHANGED <<i2cHardware, iser, txEmpty, rxFull, callback, irq_left, irqbuf, isrpc, saved, buf>>

\* send_address looks only at the second byte of a ten-bit address
Overwritten(n) == request.ten /\ n = 1

\* cmd_write: wait for room, write
CmdWrite ==
  /\ I2cAt("cmd") /\ sent' = sent + 1
  /\ \/ /\ TxReady /\ I2cGoto("check") /\ UNCHANGED status
        /\ cmds' = IF en /\ ~Flushing THEN Append(cmds, Command(sent + 1)) ELSE cmds
     \/ /\ ~TxReady /\ UNCHANGED cmds
        /\ IF Overwritten(sent + 1) THEN I2cGoto("cmd") /\ UNCHANGED status
                                    ELSE I2cGoto("stop") /\ status' = "TIMEOUT"
  /\ UNCHANGED <<i2c_core, rxf, device_heard, replied, control, irqs, i2c_got, buf>>

\* the end of cmd_write: NACK, then lost arbitration
Checked == CheckArbLost(CheckNack("SUCCESS"))

\* in master_receive each byte asked for, but the last, is followed by rx_read_available
Drains == ~request.ints /\ phase = "receive" /\ sent > Address /\ sent < Total

Check ==
  /\ I2cAt("check")
  /\ LET st == IF Overwritten(sent) THEN "SUCCESS" ELSE Checked IN
     /\ status' = st
     /\ I2cGoto(IF st # "SUCCESS" THEN "stop" ELSE IF sent < Total THEN "cmd"
             ELSE IF phase = "receive" /\ ~request.ints THEN "read" ELSE "stop")
     /\ IF Drains /\ st = "SUCCESS"
        THEN Take(Len(rxf), i2c_got) /\ i2c_got' = i2c_got + Len(rxf)
        ELSE UNCHANGED <<rxf, buf, i2c_got>>
  /\ UNCHANGED <<cmds, i2c_core, device_heard, replied, control, irqs, sent>>

\* rx_read: a byte, or a time-out and whatever the register holds
RxRead ==
  /\ I2cAt("read") /\ UNCHANGED <<cmds, i2c_core, device_heard, replied, control, irqs, sent>>
  /\ \/ /\ i2c_got = Size /\ I2cGoto("stop") /\ UNCHANGED <<rxf, buf, i2c_got, status>>
     \/ /\ i2c_got < Size /\ rxf # <<>>
        /\ Take(1, i2c_got) /\ i2c_got' = i2c_got + 1 /\ I2cGoto("read") /\ UNCHANGED status
     \/ /\ i2c_got < Size /\ rxf = <<>>
        /\ buf' = [i \in 1..(IF i2c_got + 1 > Len(buf) THEN i2c_got + 1 ELSE Len(buf)) |->
                     IF i = i2c_got + 1 THEN Garbage ELSE buf[i]]
        /\ i2c_got' = i2c_got + 1 /\ status' = "TIMEOUT" /\ I2cGoto("stop") /\ UNCHANGED rxf

\* Mutant: no look at a refusal that came after the last command.
AtEndBlind(st) == st

\* the status at the end of a polled transaction, after the wait for the core
AtEnd(st) == CheckNack(st)

\* the end of the transaction: wait until the core is idle, then disable ...
Finish ==
  /\ I2cAt("stop") /\ (status # "SUCCESS" \/ (Stop /\ ~request.ints))
  /\ LET st == IF IsBusy THEN "TIMEOUT" ELSE status IN
     status' = IF request.ints THEN st ELSE AtEnd(st)
  /\ Disable /\ I2cGoto("retry")
  /\ UNCHANGED <<i2c_isr, irqs, sent, i2c_got, buf>>

\* ... or leave the rest to the interrupt ...
Arm ==
  /\ I2cAt("stop") /\ status = "SUCCESS" /\ Stop /\ request.ints
  /\ alt_avalon_i2c_int_clear
  /\ IF phase = "transmit"
     THEN /\ tfr_cmd_fifo_threshold_set /\ irq_busy' = 1 /\ alt_avalon_i2c_int_enable({"TX_READY"})
          /\ UNCHANGED <<rxFull, irq_left, irqbuf>>
     ELSE /\ rx_fifo_threshold_set /\ irq_busy' = 2 /\ alt_avalon_i2c_int_enable({"RX_READY"})
          /\ irq_left' = Size /\ irqbuf' = <<>> /\ UNCHANGED txEmpty
  /\ I2cGoto("retry")
  /\ UNCHANGED <<i2cHardware, en, callback, isrpc, saved, sent, i2c_got, status, buf>>

\* ... or go on without STOP
KeepBus ==
  /\ I2cAt("stop") /\ status = "SUCCESS" /\ ~Stop
  /\ I2cGoto("retry")
  /\ UNCHANGED <<i2cHardware, control, irqs, sent, i2c_got, status, buf>>

Retriable == {"ARB_LOST_ERR", "NACK_ERR", "BUSY"}

\* Mutant: the attempts are not counted.
AgainForEver ==
  /\ I2cAt("retry") /\ status \in Retriable /\ tries > 1
  /\ phase' = FirstPhase /\ i2c_pc' = "begin" /\ sent' = 0 /\ i2c_got' = 0
  /\ UNCHANGED <<i2cHardware, control, irqs, request, tries, status, buf>>

\* the loop of the three calls; a transmission that timed out is followed by
\* the reception all the same
Again ==
  /\ I2cAt("retry") /\ status \in Retriable /\ tries > 1
  /\ tries' = tries - 1 /\ phase' = FirstPhase /\ i2c_pc' = "begin" /\ sent' = 0 /\ i2c_got' = 0
  /\ UNCHANGED <<i2cHardware, control, irqs, request, status, buf>>

ThenReceive ==
  /\ I2cAt("retry") /\ status \notin Retriable /\ ~Stop
  /\ phase' = "receive" /\ i2c_pc' = "begin" /\ sent' = 0 /\ i2c_got' = 0
  /\ UNCHANGED <<i2cHardware, control, irqs, request, tries, status, buf>>

I2cReturn ==
  /\ I2cAt("retry") /\ IF status \in Retriable THEN tries = 1 ELSE Stop
  /\ i2c_pc' = IF status = "SUCCESS" THEN (IF request.ints THEN "armed" ELSE "idle")
           ELSE IF request.ints /\ status # "TIMEOUT" THEN "idle" ELSE "hang"
  /\ UNCHANGED <<i2cHardware, control, irqs, request, tries, phase, sent, i2c_got, status, buf>>

\* SGTL5000_Reg_Rd and SGTL5000_Reg_Wr: nothing goes on after an error
Hang == I2cAt("hang") /\ UNCHANGED i2cVars

-----------------------------------------------------------------------------
(* interrupt_transaction_status *)

StatusGet ==
  /\ I2cAt("armed") /\ i2c_pc' = "status" /\ saved' = iser
  /\ UNCHANGED <<i2cHardware, control, callback, irq_busy, irq_left, irqbuf, isrpc,
                 request, phase, sent, i2c_got, status, tries, buf>>

StatusCheck ==
  /\ I2cAt("status")
  /\ alt_avalon_i2c_int_disable(saved)
  /\ status' = CheckNack("SUCCESS")
  /\ i2c_pc' = IF status' # "SUCCESS" THEN (IF irq_busy # 0 THEN "abort" ELSE "idle")
           ELSE IF irq_busy # 0 THEN "busy" ELSE "idle"
  /\ UNCHANGED <<i2cHardware, en, i2c_isr, txEmpty, rxFull, irqs, request, phase, sent, i2c_got, tries, buf>>

StatusBusy ==
  /\ I2cAt("busy") /\ alt_avalon_i2c_int_enable(saved)
  /\ status' = "BUSY" /\ i2c_pc' = "armed"
  /\ UNCHANGED <<i2cHardware, en, i2c_isr, txEmpty, rxFull, irqs, request, phase, sent, i2c_got, tries, buf>>

\* after a refusal: wait, empty the FIFO, disable, give the transaction up
Abort ==
  /\ I2cAt("abort") /\ status' = IF IsBusy THEN "TIMEOUT" ELSE status
  /\ en' = FALSE /\ iser' = iser \ {"TX_READY"} /\ cmds' = <<>> /\ i2c_core' = "idle" /\ rxf' = <<>>
  /\ irq_busy' = 0 /\ i2c_pc' = IF status' = "TIMEOUT" THEN "hang" ELSE "idle"
  /\ UNCHANGED <<i2c_isr, txEmpty, rxFull, device_heard, replied, callback, irq_left, irqbuf, isrpc, saved,
                 request, phase, sent, i2c_got, tries, buf>>

-----------------------------------------------------------------------------
(* The interrupt: alt_avalon_i2c_irq and optional_irq_callback. *)

IrqEnter ==
  /\ isrpc = "off" /\ iser \cap Raw # {}
  /\ alt_avalon_i2c_int_disable(AllInts) /\ alt_avalon_i2c_int_clear
  /\ isrpc' = IF callback THEN "callback" ELSE "off"
  /\ UNCHANGED <<i2cHardware, en, txEmpty, rxFull, callback, irq_busy, irq_left, irqbuf, saved, i2cDriver>>

IrqReceive ==
  /\ isrpc = "callback" /\ irq_busy = 2
  /\ LET n == Min2(Len(rxf), irq_left) IN
     /\ rxf' = SubSeq(rxf, n + 1, Len(rxf)) /\ irqbuf' = irqbuf \o SubSeq(rxf, 1, n)
     /\ irq_left' = irq_left - n
     /\ IF irq_left' > 0
        THEN alt_avalon_i2c_int_clear /\ alt_avalon_i2c_int_enable({"RX_READY"}) /\ isrpc' = "off"
        ELSE UNCHANGED <<i2c_isr, iser>> /\ isrpc' = "end"
  /\ UNCHANGED <<cmds, i2c_core, device_heard, replied, en, txEmpty, rxFull, callback, irq_busy, saved,
                 i2cDriver>>

IrqTransmit ==
  /\ isrpc = "callback" /\ irq_busy # 2 /\ isrpc' = "end"
  /\ UNCHANGED <<i2cHardware, control, callback, irq_busy, irq_left, irqbuf, saved, i2cDriver>>

\* wait for the core, or for the count of 100000, and disable
IrqEnd ==
  /\ isrpc = "end"
  /\ Disable /\ irq_busy' = 0 /\ isrpc' = "off"
  /\ UNCHANGED <<i2c_isr, callback, irq_left, irqbuf, saved, i2cDriver>>

-----------------------------------------------------------------------------
\* alt_avalon_i2c_init, up to the installation of the interrupt
I2cInit ==
  /\ en = FALSE /\ i2c_isr = {} /\ iser = {} /\ txEmpty = FALSE /\ rxFull = TRUE
  /\ cmds = <<>> /\ i2c_core = "idle" /\ rxf = <<>> /\ device_heard = <<>> /\ replied = 0
  /\ callback = FALSE /\ irq_busy = 0 /\ irq_left = 0 /\ irqbuf = <<>> /\ isrpc = "off" /\ saved = {}
  /\ request = [op |-> "tx", tx |-> 0, rx |-> 0, ints |-> FALSE, shared |-> FALSE, ten |-> FALSE]
  /\ i2c_pc = "idle" /\ phase = "transmit"
  /\ sent = 0 /\ i2c_got = 0 /\ status = "BAD_ARG" /\ tries = Tries /\ buf = <<>>

I2cDriver ==
  \/ Begin \/ CmdWrite \/ Check \/ RxRead \/ Finish \/ Arm \/ KeepBus \/ Again \/ ThenReceive
  \/ I2cReturn \/ StatusCheck \/ StatusBusy \/ Abort \/ IrqReceive \/ IrqTransmit \/ IrqEnd

I2cNext ==
  \/ Core \/ I2cDriver \/ IrqEnter \/ RegisterCallback \/ StatusGet \/ Hang
  \/ \E c \in I2cCalls : Start(c)

\* the processor goes on; the device may hold the bus for ever
I2cSpec == I2cInit /\ [][I2cNext]_i2cVars /\ WF_i2cVars(I2cDriver) /\ WF_i2cVars(IrqEnter)

-----------------------------------------------------------------------------
I2cTypeOK ==
  /\ en \in BOOLEAN /\ i2c_isr \subseteq Clearable /\ iser \subseteq AllInts /\ saved \subseteq AllInts
  /\ txEmpty \in BOOLEAN /\ rxFull \in BOOLEAN /\ i2c_core \in {"idle", "busy", "stopping"}
  /\ Len(cmds) <= Depth /\ Len(rxf) <= Depth
  /\ irq_busy \in 0..2 /\ irq_left \in Nat /\ status \in Statuses /\ tries \in 1..Tries
  /\ sent \in 0..Total /\ i2c_got \in 0..Size + 1

I2cAsked   == [i \in 1..request.tx |-> i]
Replies == [i \in 1..request.rx |-> Reply(i)]
Succeeded == i2c_pc = "idle" /\ status = "SUCCESS" /\ "ARBLOST_DET" \notin i2c_isr

\* A call that ends in SUCCESS has done its work, whatever refusals, time-outs
\* and attempts came before: a polled one has every byte acknowledged by the
\* device in its order and the buffer holds the answer, and one by interrupt
\* has the answer.  A transmission by interrupt promises less: the errors it
\* meets can be cleared before they are looked at (altera_avalon_i2c.c:108, 772).
I2cDelivered ==
  Succeeded =>
    /\ ~request.ints /\ ~request.shared => device_heard = I2cAsked \/ request.op = "rx"
    /\ ~request.ints /\ request.op # "tx" => SubSeq(buf, 1, request.rx) = Replies
    /\ request.ints /\ request.op # "tx" => irqbuf = Replies

\* The IP is disabled and its FIFO of commands empty.
I2cReleased ==
  i2c_pc \in {"idle", "hang"} /\ irq_busy = 0 /\ isrpc = "off" => ~en /\ cmds = <<>>

\* A call keeps its promise, and every way out of a transaction, refused, timed
\* out or served by interrupt, leaves the IP such that the next call does not
\* find it busy (altera_avalon_i2c.c:614-967).
I2cDone == I2cDelivered /\ I2cReleased

\* Every call ends, also with a device that holds the bus for ever.
I2cCalled == i2c_pc \notin {"idle", "armed", "hang"}

\* altera_avalon_i2c.h:761: the two buffers of master_tx_rx can be the same:
\* then too the device has been asked for what the caller wrote into it.
I2cOneBuffer == Succeeded /\ ~request.ints /\ request.op = "txrx" => device_heard = I2cAsked

=============================================================================
