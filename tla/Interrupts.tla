----------------------------- MODULE Interrupts -----------------------------
(***************************************************************************)
(* The processor's interrupts and exceptions under the HAL, and the start  *)
(* of the program among them: alt_main.c and alt_sys_init.c, the table of  *)
(* handlers (alt_iic_isr_register.c, alt_iic.c, alt_legacy_irq.h), the     *)
(* dispatcher (alt_irq_handler.c), the exception entry                     *)
(* (alt_exception_entry.S, alt_irq_entry.S) and the handler of exceptions  *)
(* that instructions raise (alt_instruction_exception_entry.c).            *)
(*                                                                         *)
(* The processor runs the last of `frames': the program or, above it, an   *)
(* exception.  A frame's code is the rest of what its function does, one   *)
(* step for each access another frame can tell from the next; calls are    *)
(* written out in place.  An interrupt comes between any two steps while   *)
(* PIE is set.                                                             *)
(***************************************************************************)
EXTENDS Board, Sequences, FiniteSetsExt

CONSTANTS
  MaxRequests,   (* Requests each device makes at most.                      *)
  MaxCalls,      (* Calls main makes at most.                                *)
  MaxTraps       (* Instructions that raise an exception, at most.           *)

ASSUME InterruptsAssumption == {MaxRequests, MaxCalls, MaxTraps} \subseteq Nat

(* The lines whose drivers register a handler, by priority (system.h:272,  *)
(* 513, 257).                                                              *)
JTAG_UART_0_IRQ == JTAG_UART_0.at.irq
TIMER_0_IRQ == TIMER_0.at.irq
I2C_0_IRQ == I2C_0.at.irq
Irqs == {JTAG_UART_0_IRQ, TIMER_0_IRQ, I2C_0_IRQ}
NULL == -1

VARIABLES
  pie, ienable,            (* status.PIE and IENABLE.                        *)
  alt_irq_active,
  alt_irq,                 (* The table: handlers and contexts, each known   *)
                           (* by the line of the driver it belongs to.       *)
  alt_instruction_exception_handler,   (* Whether there is one.              *)
  lines, started,          (* Requests of the devices; devices that make any.*)
  requests, calls, traps,  (* How many there were.                           *)
  frames,
  board                    (* What the start of the program has set up.      *)

processor == <<pie, ienable, alt_irq_active, alt_irq, alt_instruction_exception_handler>>
devices   == <<lines, started, requests>>
irqVars   == <<processor, devices, calls, traps, frames, board>>

ipending == lines \cap ienable

Do(op) == [op |-> op, irq |-> NULL, arg |-> NULL]
DoTo(op, irq, arg) == [op |-> op, irq |-> irq, arg |-> arg]

(* saved: its variables of type alt_irq_context.  estatus, ea: what the    *)
(* exception's return restores, and whether it goes to the next            *)
(* instruction.  pending: the variable `active' of the dispatcher.         *)
Frame(kind, code) ==
  [kind |-> kind, code |-> code, saved |-> <<>>, estatus |-> pie, skip |-> FALSE, pending |-> {}]
-----------------------------------------------------------------------------
(* The functions, as the steps they do.  Both forms of (un)masking keep    *)
(* alt_irq_active and IENABLE alike.                                       *)
alt_irq_enable(irq) ==
  <<Do("disable_all"), DoTo("active", irq, 1), Do("write_ienable"), Do("enable_all")>>

alt_irq_disable(irq) ==
  <<Do("disable_all"), DoTo("active", irq, 0), Do("write_ienable"), Do("enable_all")>>

(* A driver registers its handler with its own device as the context.      *)
alt_iic_isr_register(irq, isr) ==
  <<Do("disable_all"), DoTo("handler", irq, isr), DoTo("context", irq, isr)>>
    \o (IF isr # NULL THEN alt_irq_enable(irq) ELSE alt_irq_disable(irq)) \o <<Do("enable_all")>>

alt_irq_init == <<Do("clear_ienable"), Do("cpu_enable_interrupts")>>

alt_avalon_timer_sc_init ==
  <<Do("sysclk_init"), DoTo("start", TIMER_0_IRQ, NULL)>> \o alt_iic_isr_register(TIMER_0_IRQ, TIMER_0_IRQ)

alt_avalon_i2c_init ==
  <<DoTo("quiet", I2C_0_IRQ, NULL)>> \o alt_iic_isr_register(I2C_0_IRQ, I2C_0_IRQ)

altera_avalon_jtag_uart_init ==
  <<DoTo("start", JTAG_UART_0_IRQ, NULL)>> \o alt_iic_isr_register(JTAG_UART_0_IRQ, JTAG_UART_0_IRQ)
    \o <<Do("alarm_start")>>

(* The drivers of the SPI core and of the identity have nothing to do; the *)
(* flash's look at the sectors (OnchipFlash) needs no interrupt.           *)
alt_sys_init == alt_avalon_timer_sc_init \o alt_avalon_i2c_init \o altera_avalon_jtag_uart_init
  \o <<Do("dev_reg")>>

(* There is no constructor or destructor, and main never returns in this   *)
(* program; what follows it is what would happen.                          *)
alt_main ==
  alt_irq_init \o alt_sys_init \o <<Do("io_redirect"), Do("main"), Do("spin")>>

(* A driver's handler lowers the line of the device it is given, the I2C   *)
(* one by masking it in the core; two of them run a part with interrupts   *)
(* off, and any instruction of one may raise an exception.                 *)
Isr(isr, context) ==
  <<DoTo(IF isr = I2C_0_IRQ THEN "quiet" ELSE "lower", context, NULL)>>
    \o (IF isr = JTAG_UART_0_IRQ THEN <<>> ELSE <<Do("disable_all"), Do("trap"), Do("enable_all")>>)
-----------------------------------------------------------------------------
Running == frames[Len(frames)]
AtOp(op) == Running.code # <<>> /\ Head(Running.code).op = op
OpIrq == Head(Running.code).irq
OpArg == Head(Running.code).arg

(* The running frame goes on with this code, and with these variables.     *)
Resume(frame) == frames' = [frames EXCEPT ![Len(frames)] = frame]
Becomes(code) == Resume([Running EXCEPT !.code = code])
Advance == Becomes(Tail(Running.code))

(* Reads status, then clears PIE: an interrupt between the two leaves      *)
(* status as it was.                                                       *)
alt_irq_disable_all ==
  /\ AtOp("disable_all")
  /\ Resume([Running EXCEPT !.code = Tail(@), !.saved = Append(@, pie)]) /\ pie' = FALSE
  /\ UNCHANGED <<ienable, alt_irq_active, alt_irq, alt_instruction_exception_handler, devices, calls,
                 traps, board>>

(* Mutant: interrupts are on afterwards, also in the midst of another      *)
(* disable_all.                                                            *)
RestoredAlways == TRUE

(* What the context of the matching alt_irq_disable_all says.              *)
Restored == Running.saved[Len(Running.saved)]

alt_irq_enable_all ==
  /\ AtOp("enable_all")
  /\ Resume([Running EXCEPT !.code = Tail(@), !.saved = SubSeq(@, 1, Len(@) - 1)]) /\ pie' = Restored
  /\ UNCHANGED <<ienable, alt_irq_active, alt_irq, alt_instruction_exception_handler, devices, calls,
                 traps, board>>

(* The stores to the table, to alt_irq_active and to the registers.        *)
Stores ==
  /\ Advance
  /\ \/ AtOp("handler") /\ alt_irq' = [alt_irq EXCEPT ![OpIrq].handler = OpArg]
          /\ UNCHANGED <<pie, ienable, alt_irq_active>>
     \/ AtOp("context") /\ alt_irq' = [alt_irq EXCEPT ![OpIrq].context = OpArg]
          /\ UNCHANGED <<pie, ienable, alt_irq_active>>
     \/ /\ AtOp("active")
        /\ alt_irq_active' = (IF OpArg = 1 THEN alt_irq_active \cup {OpIrq} ELSE alt_irq_active \ {OpIrq})
        /\ UNCHANGED <<pie, ienable, alt_irq>>
     \/ AtOp("write_ienable") /\ ienable' = alt_irq_active /\ UNCHANGED <<pie, alt_irq_active, alt_irq>>
     \/ AtOp("clear_ienable") /\ ienable' = {} /\ UNCHANGED <<pie, alt_irq_active, alt_irq>>
     \/ AtOp("cpu_enable_interrupts") /\ pie' = TRUE /\ UNCHANGED <<ienable, alt_irq_active, alt_irq>>
  /\ UNCHANGED <<alt_instruction_exception_handler, devices, calls, traps, board>>

(* A device begins or ceases to make requests, or its request is lowered.  *)
DeviceStores ==
  /\ Advance
  /\ \/ AtOp("start") /\ started' = started \cup {OpIrq} /\ UNCHANGED lines
     \/ AtOp("quiet") /\ started' = started \ {OpIrq} /\ lines' = lines \ {OpIrq}
     \/ AtOp("lower") /\ lines' = lines \ {OpIrq} /\ UNCHANGED started
  /\ UNCHANGED <<processor, requests, calls, traps, board>>

(* Steps of the start that interrupts have no part in: the clock's rate,   *)
(* the console's alarm, which needs it (alt_alarm_start.c:44-47), the      *)
(* devices' list, and the standard channels, which need that.              *)
Setup ==
  /\ Advance
  /\ \/ AtOp("sysclk_init") /\ board' = board \cup {"clock"}
     \/ AtOp("alarm_start") /\ board' = (IF "clock" \in board THEN board \cup {"alarm"} ELSE board)
     \/ AtOp("dev_reg") /\ board' = board \cup {"console"}
     \/ AtOp("io_redirect") /\ board' = (IF "console" \in board THEN board \cup {"stdio"} ELSE board)
  /\ UNCHANGED <<processor, devices, calls, traps>>

(* main: it may register a handler again or take one away, mask and unmask *)
(* a line it has a handler for, do any of these with interrupts off, start *)
(* the I2C core's interrupts, register an exception handler, and come to   *)
(* an instruction that raises an exception.                                *)
Calls(irq) ==
  {alt_iic_isr_register(irq, irq), alt_iic_isr_register(irq, NULL), alt_irq_disable(irq), <<Do("trap")>>}
    \cup (IF alt_irq[irq].handler = NULL THEN {} ELSE {alt_irq_enable(irq)})

MainCalls ==
  /\ AtOp("main") /\ calls < MaxCalls /\ calls' = calls + 1
  /\ \/ /\ \E irq \in Irqs : \E call \in Calls(irq) :
             \/ Becomes(call \o Running.code)
             \/ Becomes(<<Do("disable_all")>> \o call \o <<Do("enable_all")>> \o Running.code)
        /\ UNCHANGED <<started, alt_instruction_exception_handler>>
     \/ started' = started \cup {I2C_0_IRQ} /\ UNCHANGED <<frames, alt_instruction_exception_handler>>
     \/ alt_instruction_exception_handler' = TRUE /\ UNCHANGED <<frames, started>>
  /\ UNCHANGED <<pie, ienable, alt_irq_active, alt_irq, lines, requests, traps, board>>

(* main returns: close, exit and its loop for ever, with interrupts as     *)
(* they were.                                                              *)
ALT_EXIT == AtOp("main") /\ Advance /\ UNCHANGED <<processor, devices, calls, traps, board>>
Spin == AtOp("spin") /\ UNCHANGED irqVars
-----------------------------------------------------------------------------
(* The exception entry: status goes to estatus and PIE is cleared.  An     *)
(* interrupt returns to the instruction it came before.                    *)
Enter == frames' = Append(frames, Frame("entry", <<Do("irqtest")>>)) /\ pie' = FALSE

Interrupt ==
  /\ pie /\ ipending # {} /\ Enter
  /\ UNCHANGED <<ienable, alt_irq_active, alt_irq, alt_instruction_exception_handler, devices, calls,
                 traps, board>>

Trap ==
  /\ AtOp("trap")
  /\ \/ Advance /\ UNCHANGED <<pie, traps>>
     \/ traps < MaxTraps /\ traps' = traps + 1 /\ Enter
  /\ UNCHANGED <<ienable, alt_irq_active, alt_irq, alt_instruction_exception_handler, devices, calls, board>>

(* An exception that came with PIE clear is none of a device's.            *)
IsInterrupt == Running.estatus /\ ipending # {}

alt_irq_entry ==
  /\ AtOp("irqtest")
  /\ Resume(IF IsInterrupt THEN [Running EXCEPT !.kind = "interrupt", !.code = <<Do("pending")>>]
            ELSE [Running EXCEPT !.kind = "exception", !.code = <<Do("exception")>>])
  /\ UNCHANGED <<processor, devices, calls, traps, board>>

(* The dispatcher: reads ipending, then calls the handler of the lowest    *)
(* line, until ipending reads 0.  It searches for ever if its first read   *)
(* is 0, and a NULL handler is a jump to the reset vector.                 *)
Lowest == Min(Running.pending)

alt_irq_handler ==
  /\ \/ AtOp("pending") /\ Resume([Running EXCEPT !.pending = ipending, !.code = <<Do("dispatch")>>])
     \/ /\ AtOp("dispatch") /\ Running.pending # {} /\ alt_irq[Lowest].handler # NULL
        /\ Becomes(Isr(alt_irq[Lowest].handler, alt_irq[Lowest].context) \o <<Do("again")>>)
     \/ /\ AtOp("again")
        /\ Resume([Running EXCEPT !.pending = ipending,
                   !.code = <<Do(IF ipending = {} THEN "eret" ELSE "dispatch")>>])
  /\ UNCHANGED <<processor, devices, calls, traps, board>>

(* Without a handler the processor stops in the debugger.  The handler     *)
(* says whether the instruction is begun again or left out.                *)
alt_instruction_exception_entry ==
  /\ AtOp("exception")
  /\ IF alt_instruction_exception_handler
     THEN \E skip \in BOOLEAN : Resume([Running EXCEPT !.skip = skip, !.code = <<Do("eret")>>])
     ELSE Becomes(<<Do("break")>>)
  /\ UNCHANGED <<processor, devices, calls, traps, board>>

Break == AtOp("break") /\ UNCHANGED irqVars

(* The frame returns to the one below.                                     *)
Eret ==
  /\ AtOp("eret") /\ pie' = Running.estatus
  /\ frames' = [n \in 1 .. Len(frames) - 1 |->
                  IF n = Len(frames) - 1 /\ Running.skip THEN [frames[n] EXCEPT !.code = Tail(@)]
                  ELSE frames[n]]
  /\ UNCHANGED <<ienable, alt_irq_active, alt_irq, alt_instruction_exception_handler, devices, calls,
                 traps, board>>

(* Requests stay until a handler lowers them.                              *)
Request(irq) ==
  /\ irq \in started \ lines /\ requests[irq] < MaxRequests
  /\ lines' = lines \cup {irq} /\ requests' = [requests EXCEPT ![irq] = @ + 1]
  /\ UNCHANGED <<processor, started, calls, traps, frames, board>>

(* A restart by the debugger leaves the devices as they were.              *)
IrqInit ==
  /\ pie = FALSE /\ ienable \in {{}, Irqs} /\ alt_irq_active = {}
  /\ alt_irq = [irq \in Irqs |-> [handler |-> NULL, context |-> NULL]]
       /\ alt_instruction_exception_handler = FALSE
  /\ lines \in {{}, Irqs} /\ started = lines /\ requests = [irq \in Irqs |-> 0]
  /\ calls = 0 /\ traps = 0 /\ frames = <<Frame("program", alt_main)>> /\ board = {}

Instruction ==
  /\ ~(pie /\ ipending # {})
  /\ \/ alt_irq_disable_all \/ alt_irq_enable_all \/ Stores \/ DeviceStores \/ Setup
     \/ MainCalls \/ ALT_EXIT \/ Spin \/ Trap \/ alt_irq_entry \/ alt_irq_handler
     \/ alt_instruction_exception_entry \/ Break \/ Eret

Processor == Interrupt \/ Instruction
IrqNext == Processor \/ \E irq \in Irqs : Request(irq)

(* The processor goes on.                                                  *)
IrqSpec == IrqInit /\ [][IrqNext]_irqVars /\ WF_irqVars(Processor)
-----------------------------------------------------------------------------
IrqTypeOK ==
  /\ pie \in BOOLEAN /\ ienable \subseteq Irqs /\ alt_irq_active \subseteq Irqs
  /\ alt_irq \in [Irqs -> [handler : Irqs \cup {NULL}, context : Irqs \cup {NULL}]]
  /\ alt_instruction_exception_handler \in BOOLEAN
  /\ started \subseteq Irqs /\ lines \subseteq started /\ requests \in [Irqs -> 0 .. MaxRequests]
  /\ calls \in 0 .. MaxCalls /\ traps \in 0 .. MaxTraps /\ Len(frames) >= 1
  /\ \A n \in 1 .. Len(frames) : frames[n].kind = "program" <=> n = 1
  /\ board \subseteq {"clock", "alarm", "console", "stdio"}

(* Whatever is dispatched has a handler, which gets its own device; the    *)
(* dispatcher never searches among no requests (alt_irq_handler.c:129-156).*)
DispatchedRight ==
  AtOp("dispatch") =>
    /\ Running.pending # {}
    /\ alt_irq[Lowest].handler = Lowest /\ alt_irq[Lowest].context = Lowest

(* No interrupt comes upon another, nor between alt_irq_disable_all and    *)
(* the matching alt_irq_enable_all, however deep they are nested.          *)
SectionsWhole ==
  \A n \in 2 .. Len(frames) : frames[n].kind = "interrupt" =>
    \A m \in 1 .. n - 1 : frames[m].saved = <<>> /\ frames[m].kind # "interrupt"

(* And interrupts come on again: the program has them on outside its       *)
(* sections, once they were switched on, and masked as it asked.           *)
InterruptsOn ==
  Len(frames) = 1 /\ frames[1].saved = <<>> /\ "clock" \in board => pie /\ ienable = alt_irq_active

(* When main begins, each device has its handler and is not masked, the    *)
(* console has its alarm and stdio its device (alt_main.c:92-149).         *)
MainReady ==
  AtOp("main") /\ calls = 0 /\ frames[1].code = <<Do("main"), Do("spin")>> =>
    /\ \A irq \in Irqs : alt_irq[irq] = [handler |-> irq, context |-> irq]
    /\ ienable = Irqs /\ board = {"clock", "alarm", "console", "stdio"}

(* The interrupts, from the start of the program on (alt_irq.h:99-141).    *)
InterruptsOrderly == DispatchedRight /\ SectionsWhole /\ InterruptsOn /\ MainReady

(* A request that is not masked is served, also while interrupts come on   *)
(* lines before it, unless the processor stops without an exception        *)
(* handler; after exit as well (alt_exit.c:47-48).                         *)
Requested == ipending # {}
Served == ipending = {} \/ AtOp("break")
=============================================================================
