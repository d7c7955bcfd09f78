------------------------------ MODULE JtagUart ------------------------------
(***************************************************************************)
(* The console: the interrupt driven driver of the JTAG UART, between the  *)
(* program (write, read and close of its file, one thread), the interrupt  *)
(* handler, the alarm of every second that looks for the host, and the     *)
(* host, which takes characters from one FIFO of the core and puts others  *)
(* into a second when it likes.                                            *)
(*                                                                         *)
(* Two circular buffers lie between the program and the FIFOs.  The loops  *)
(* that copy read the other side's pointer once and work on; the handler   *)
(* and the host go on meanwhile.  A character is its number, modulo Codes, *)
(* in the order the driver accepted it (or the host typed it): more than   *)
(* there can be under way, so that a loss or an exchange shows.            *)
(***************************************************************************)
EXTENDS Integers, Sequences

CONSTANTS BufLen,     \* ALTERA_AVALON_JTAG_UART_BUF_LEN; 2048 in the code
          Fifo,       \* characters of each FIFO of the core
          MaxCount,   \* longest write or read
          Default,    \* ALTERA_AVALON_JTAG_UART_DEFAULT_TIMEOUT; 10 in the code
          Timeouts,   \* arguments of TIOCSTIMEOUT
          IntMax,     \* INT_MAX
          Sessions    \* what a session has: the program's "read" and "write", the host's "typing"

ASSUME JtagAssumption ==
  /\ BufLen \in Nat /\ BufLen > 1 /\ Fifo \in Nat \ {0} /\ MaxCount \in Nat \ {0}
  /\ IntMax \in Nat /\ Default \in 2..IntMax - 2 /\ Timeouts \subseteq Nat
  /\ Sessions \subseteq SUBSET {"read", "write", "typing"}

VARIABLES
  wfifo, rfifo, ac,            \* the core's FIFOs, and CONTROL.AC: the host was here
  heard, typed,                \* the last character the host took, and gave
  irq_enable, rx_in, rx_out, tx_in, tx_out, rx_buf, tx_buf, host_inactive, timeout,
  jtag_isr, space, wi, more,        \* the handler: its place, WSPACE, WI and RAVAIL as it read them
  jtag_pc, jtag_left, moved, other, nonblock,
  put, jtag_got,                    \* the last character accepted from, and given to, the program
  session

jtagHost    == <<wfifo, rfifo, ac, heard, typed>>
txring  == <<tx_in, tx_out, tx_buf>>
rxring  == <<rx_in, rx_out, rx_buf>>
handler == <<jtag_isr, space, wi, more>>
program == <<jtag_pc, jtag_left, moved, other, nonblock>>
jtagVars == <<jtagHost, irq_enable, txring, rxring, host_inactive, timeout, handler, program, put,
              jtag_got, session>>

Codes    == BufLen * (1 + Fifo)
Char     == 0..Codes - 1
Slots    == 0..BufLen - 1
Free     == Codes           \* a slot whose character has been taken
Plus(c, n)  == (c + n) % Codes
Slot(i)     == i % BufLen
Used(i, o)  == Slot(i - o + BufLen)
AtMost(a, b) == IF a < b THEN a ELSE b

\* what a ring holds, oldest first
Held(buf, i, o) == [k \in 1..Used(i, o) |-> buf[Slot(o + k - 1)]]

-----------------------------------------------------------------------------
(* The host: takes what there is and perhaps types, or looks in vain. *)

HostAccess ==
  /\ ac' = TRUE
  /\ IF wfifo = <<>> THEN UNCHANGED <<wfifo, heard>>
                     ELSE wfifo' = Tail(wfifo) /\ heard' = Head(wfifo)
  /\ \/ "typing" \in session /\ Len(rfifo) < Fifo /\ typed' = Plus(typed, 1) /\ rfifo' = Append(rfifo, typed')
     \/ UNCHANGED <<rfifo, typed>>
  /\ UNCHANGED <<irq_enable, txring, rxring, host_inactive, timeout, handler, program, put, jtag_got,
                 session>>

-----------------------------------------------------------------------------
(* Interrupts. *)

RI == "RE" \in irq_enable /\ rfifo # <<>>
WI == "WE" \in irq_enable /\ Len(wfifo) < Fifo

\* altera_avalon_jtag_uart_timeout; the alarm starts in altera_avalon_jtag_uart_init
Timeout ==
  /\ jtag_isr = "off" /\ ac' = FALSE
  /\ host_inactive' = IF ac THEN 0
                      ELSE IF host_inactive < IntMax - 2 THEN host_inactive + 1 ELSE host_inactive
  /\ UNCHANGED <<wfifo, rfifo, heard, typed, irq_enable, txring, rxring, timeout, handler, program, put,
                 jtag_got, session>>

\* altera_avalon_jtag_uart_irq: look at CONTROL, and again after each pass
Irq ==
  /\ \/ jtag_isr = "off" /\ (RI \/ WI)
     \/ jtag_isr = "control"
  /\ jtag_isr' = IF RI THEN "rx" ELSE IF WI THEN "tx" ELSE "off"
  /\ wi' = WI /\ more' = RI /\ space' = IF WI THEN Fifo - Len(wfifo) ELSE 0
  /\ UNCHANGED <<jtagHost, irq_enable, txring, rxring, host_inactive, timeout, program, put, jtag_got,
                 session>>

RxFull == Slot(rx_in + 1) = rx_out

IrqRead ==
  /\ jtag_isr = "rx" /\ ~RxFull /\ rfifo # <<>>
  /\ rfifo' = Tail(rfifo) /\ more' = (Tail(rfifo) # <<>>)
  /\ rx_buf' = [rx_buf EXCEPT ![rx_in] = Head(rfifo)] /\ rx_in' = Slot(rx_in + 1)
  /\ UNCHANGED <<wfifo, ac, heard, typed, irq_enable, txring, rx_out, host_inactive, timeout,
                 jtag_isr, space, wi, program, put, jtag_got, session>>

\* no room, or no character: with more of them in the FIFO the receive interrupt goes off
IrqReadEnd ==
  /\ jtag_isr = "rx" /\ (RxFull \/ rfifo = <<>>)
  /\ irq_enable' = IF RxFull /\ more THEN irq_enable \ {"RE"} ELSE irq_enable
  /\ jtag_isr' = (IF wi THEN "tx" ELSE "control") /\ more' = FALSE
  /\ UNCHANGED <<jtagHost, txring, rxring, host_inactive, timeout, space, wi, program, put, jtag_got,
                 session>>

IrqWrite ==
  /\ jtag_isr = "tx"
  /\ LET n == AtMost(space, Used(tx_in, tx_out)) IN
     /\ wfifo' = wfifo \o SubSeq(Held(tx_buf, tx_in, tx_out), 1, n)
     /\ tx_out' = Slot(tx_out + n)
     /\ tx_buf' = [s \in Slots |-> IF Used(s, tx_out) < n THEN Free ELSE tx_buf[s]]
     /\ irq_enable' = IF space > n THEN irq_enable \ {"WE"} ELSE irq_enable
  /\ jtag_isr' = "control" /\ space' = 0 /\ wi' = FALSE
  /\ UNCHANGED <<rfifo, ac, heard, typed, tx_in, rxring, host_inactive, timeout,
                 more, program, put, jtag_got, session>>

-----------------------------------------------------------------------------
(* The program.  It stands still while an interrupt is served. *)

JtagAt(p) == jtag_pc = p /\ jtag_isr = "off"
JtagGoto(p) == jtag_pc' = p
Connected == host_inactive < timeout

Call(p, n, nb) ==
  /\ JtagAt("idle") /\ JtagGoto(p)
  /\ jtag_left' = n /\ moved' = 0 /\ nonblock' = nb /\ UNCHANGED other

\* Mutant: it may fill the buffer, which then looks empty.
RoomWhole(in, out) == IF in < out THEN out - in ELSE BufLen - in

\* the room a writer sees: to the end of the buffer, or to one before the reader's place
Room(in, out) == IF in < out THEN out - 1 - in ELSE IF out > 0 THEN BufLen - in ELSE BufLen - 1 - in

WriteLook ==
  /\ JtagAt("write")
  /\ other' = IF jtag_left > 0 THEN tx_out ELSE other
  /\ JtagGoto(IF jtag_left > 0 /\ Room(tx_in, tx_out) > 0 THEN "copy" ELSE "kick")
  /\ UNCHANGED <<jtag_left, moved, nonblock, txring, put, irq_enable>>

WriteCopy ==
  /\ JtagAt("copy") /\ JtagGoto("write")
  /\ LET n == AtMost(Room(tx_in, other), jtag_left) IN
     /\ tx_buf' = [s \in Slots |-> IF s \in tx_in..tx_in + n - 1 THEN Plus(put, s - tx_in + 1) ELSE tx_buf[s]]
     /\ tx_in' = Slot(tx_in + n) /\ put' = Plus(put, n) /\ jtag_left' = jtag_left - n /\ moved' = moved + n
  /\ UNCHANGED <<tx_out, other, nonblock, irq_enable>>

\* transmit interrupts on; then return, or wait for the handler to take something
WriteKick ==
  /\ JtagAt("kick") /\ irq_enable' = irq_enable \cup {"WE"}
  /\ JtagGoto(IF jtag_left = 0 \/ nonblock THEN "return" ELSE "wait")
  /\ UNCHANGED <<jtag_left, moved, other, nonblock, txring, put>>

WriteWait ==
  /\ JtagAt("wait") /\ (other # tx_out \/ ~Connected)
  /\ JtagGoto("inactive")
  /\ UNCHANGED <<jtag_left, moved, other, nonblock, txring, put, irq_enable>>

WriteInactive ==
  /\ JtagAt("inactive") /\ JtagGoto(IF host_inactive > 0 THEN "return" ELSE "write")
  /\ UNCHANGED <<jtag_left, moved, other, nonblock, txring, put, irq_enable>>

\* both calls end alike: the number of characters, or an error
Result == IF moved > 0 THEN "count" ELSE IF nonblock THEN "EWOULDBLOCK" ELSE "EIO"

Forget == jtag_left' = 0 /\ moved' = 0 /\ other' = 0 /\ nonblock' = FALSE

JtagReturn ==
  /\ JtagAt("return") /\ JtagGoto("idle") /\ Forget
  /\ UNCHANGED <<jtagHost, irq_enable, txring, rxring, host_inactive, timeout, handler, put, jtag_got,
                 session>>

\* altera_avalon_jtag_uart_close
Close ==
  /\ JtagAt("close") /\ (tx_out = tx_in \/ ~Connected \/ nonblock)
  /\ JtagGoto("idle") /\ Forget /\ UNCHANGED <<txring, put, irq_enable>>

Write ==
  /\ "write" \in session
  /\ \/ \E n \in 1..MaxCount, nb \in BOOLEAN : Call("write", n, nb) /\ UNCHANGED <<txring, put, irq_enable>>
     \/ \E nb \in BOOLEAN : Call("close", 0, nb) /\ UNCHANGED <<txring, put, irq_enable>>
     \/ WriteLook \/ WriteCopy \/ WriteKick \/ WriteWait \/ WriteInactive \/ Close
  /\ UNCHANGED <<jtagHost, rxring, host_inactive, timeout, handler, jtag_got, session>>

\* characters in one piece of the buffer, for the reader
Ready(in, out) == IF in >= out THEN in - out ELSE BufLen - out

ReadLook ==
  /\ JtagAt("read") /\ other' = rx_in
  /\ JtagGoto(IF jtag_left > 0 /\ Ready(rx_in, rx_out) > 0 THEN "take"
          ELSE IF moved > 0 THEN "enable" ELSE IF nonblock THEN "return" ELSE "await")
  /\ UNCHANGED <<jtag_left, moved, nonblock, rxring, jtag_got, irq_enable>>

ReadTake ==
  /\ JtagAt("take") /\ JtagGoto("read")
  /\ LET n == AtMost(Ready(other, rx_out), jtag_left) IN
     /\ jtag_got' = rx_buf[rx_out + n - 1]
     /\ rx_buf' = [s \in Slots |-> IF s \in rx_out..rx_out + n - 1 THEN Free ELSE rx_buf[s]]
     /\ rx_out' = Slot(rx_out + n)
     /\ jtag_left' = jtag_left - n /\ moved' = moved + n
  /\ UNCHANGED <<rx_in, other, nonblock, irq_enable>>

ReadWait ==
  /\ JtagAt("await") /\ (other # rx_in \/ ~Connected)
  /\ JtagGoto(IF other # rx_in THEN "read" ELSE "return")
  /\ UNCHANGED <<jtag_left, moved, other, nonblock, rxring, jtag_got, irq_enable>>

\* there is room again
ReadEnable ==
  /\ JtagAt("enable") /\ irq_enable' = irq_enable \cup {"RE"} /\ JtagGoto("return")
  /\ UNCHANGED <<jtag_left, moved, other, nonblock, rxring, jtag_got>>

Read ==
  /\ "read" \in session
  /\ \/ \E n \in 1..MaxCount, nb \in BOOLEAN : Call("read", n, nb)
          /\ UNCHANGED <<rxring, jtag_got, irq_enable>>
     \/ ReadLook \/ ReadTake \/ ReadWait \/ ReadEnable
  /\ UNCHANGED <<jtagHost, txring, host_inactive, timeout, handler, put, session>>

\* altera_avalon_jtag_uart_ioctl: TIOCSTIMEOUT
SetTimeout ==
  /\ JtagAt("idle")
  /\ \E t \in Timeouts : timeout' = IF t >= 2 /\ t < IntMax THEN t ELSE IntMax - 1
  /\ UNCHANGED <<jtagHost, irq_enable, txring, rxring, host_inactive, handler, program, put, jtag_got,
                 session>>

-----------------------------------------------------------------------------
\* altera_avalon_jtag_uart_init
JtagInit ==
  /\ wfifo = <<>> /\ rfifo = <<>> /\ ac \in BOOLEAN /\ heard = 0 /\ typed = 0 /\ put = 0 /\ jtag_got = 0
  /\ irq_enable = {"RE"} /\ host_inactive = 0 /\ timeout = Default
  /\ rx_in = 0 /\ rx_out = 0 /\ tx_in = 0 /\ tx_out = 0
  /\ rx_buf = [s \in Slots |-> Free] /\ tx_buf = [s \in Slots |-> Free]
  /\ jtag_isr = "off" /\ space = 0 /\ wi = FALSE /\ more = FALSE
  /\ session \in Sessions /\ jtag_pc = "idle" /\ jtag_left = 0 /\ moved = 0 /\ other = 0 /\ nonblock = FALSE

Handler == Irq \/ IrqRead \/ IrqReadEnd \/ IrqWrite

JtagNext == HostAccess \/ Timeout \/ Handler \/ Write \/ Read \/ JtagReturn \/ SetTimeout

\* the processor and its timer go on; the host need not
JtagSpec ==
  /\ JtagInit /\ [][JtagNext]_jtagVars
  /\ WF_jtagVars(Handler) /\ WF_jtagVars(Timeout)
  /\ SF_jtagVars((Write \/ Read \/ JtagReturn) /\ jtag_pc # "idle")

-----------------------------------------------------------------------------
Outgoing == wfifo \o Held(tx_buf, tx_in, tx_out)
Incoming == Held(rx_buf, rx_in, rx_out) \o rfifo

JtagTypeOK ==
  /\ wfifo \in Seq(Char) /\ rfifo \in Seq(Char) /\ Len(wfifo) <= Fifo /\ Len(rfifo) <= Fifo
  /\ {rx_in, rx_out, tx_in, tx_out, other} \subseteq Slots
  /\ irq_enable \subseteq {"RE", "WE"} /\ host_inactive \in 0..IntMax - 2 /\ timeout \in 2..IntMax - 1
  /\ jtag_isr \in {"off", "control", "rx", "tx"} /\ space \in 0..Fifo
       /\ {put, jtag_got, heard, typed} \subseteq Char
  /\ \A s \in Slots : tx_buf[s] \in Char \cup {Free} /\ rx_buf[s] \in Char \cup {Free}

Follow(s, first, last) ==
  /\ \A k \in 1..Len(s) : s[k] = Plus(first, k)
  /\ last = Plus(first, Len(s))

\* What the host takes is what the driver accepted, each character once and in
\* its order, and so is what the program reads: nothing is lost, doubled or
\* overwritten in the rings, whoever moves a pointer while the other copies.
InSequence == Follow(Outgoing, heard, put) /\ Follow(Incoming, jtag_got, typed)

\* Characters never lie in a ring with nobody to move them: there is one for
\* the host and transmit interrupts are on (or the program is on its way to
\* switch them on), and receive interrupts are off only while the ring is full
\* or the reader is about to switch them on.
NobodySleeps ==
  /\ tx_in # tx_out => "WE" \in irq_enable \/ jtag_pc \in {"write", "copy", "kick"}
  /\ "RE" \notin irq_enable => RxFull \/ jtag_pc \in {"read", "take", "enable"}

\* Both, at every step of the program, the interrupt, the alarm and the host
\* (altera_avalon_jtag_uart_init.c:102-225, _write.c:83-215, _read.c:100-203).
ConsoleOrderly == InSequence /\ NobodySleeps

Forever == timeout = IntMax - 1

\* A write or a close ends, whether the host takes characters, stops taking
\* them in the middle or was never there, and a read ends or sees a host at
\* work, unless the timeout has been set to wait for ever.
ConsoleCalled == jtag_pc # "idle" /\ ~Forever
ConsoleAnswers == jtag_pc = "idle" \/ (ac /\ jtag_pc \in {"read", "take", "await", "enable"})

=============================================================================
