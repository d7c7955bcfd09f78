-------------------------------- MODULE Hal --------------------------------
(***************************************************************************)
(* The HAL under the program, its start and its drivers: the system clock  *)
(* and its alarms, their list, the file descriptors, the console, the      *)
(* flash, the I2C master and its bus clock, the codec behind it, the       *)
(* interrupts, and the memory.  Each keeps its own state.  Where one calls *)
(* another, the caller's module has the callee's steps in place: the       *)
(* console's alarm is JtagUart's Timeout, a transaction is one step of     *)
(* Codec, a driver's handler is a few steps of Interrupts.  So a behaviour *)
(* is one part's, and the others stand still in it.                        *)
(***************************************************************************)
EXTENDS Ticks, AlarmList, HalFiles, JtagUart, OnchipFlash, I2cMaster, BusSpeed, Codec, Interrupts, Memory

VARIABLE part

halVars ==
  <<part, tickVars, listVars, filesVars, jtagVars, flashVars, i2cVars, speedVars, codecVars, irqVars, memoryVars>>

(* A part that stands still has one initial state.                         *)
HalInit ==
  /\ part \in {"clock", "alarms", "list", "files", "console", "flash", "i2c", "speed", "codec",
             "interrupts", "memory"}
  /\ TicksInit /\ ListInit /\ FilesInit /\ JtagInit /\ FlashInit /\ I2cInit /\ SpeedInit
  /\ CodecInit /\ IrqInit /\ MemoryInit
  /\ part # "console" => ac /\ session = {}
  /\ part = "console" => session # {}
  /\ part # "flash" => regions = {Region(s) : s \in Offered({})}
  /\ part # "codec" => leds = {} /\ codec[CHIP_ID] = 0
  /\ part # "interrupts" => ienable = {} /\ lines = {}

OfClock(step) ==
  /\ part = "clock" /\ step
  /\ UNCHANGED <<part, listVars, filesVars, jtagVars, flashVars, i2cVars, speedVars,
                codecVars, irqVars, memoryVars>>
OfAlarms(step) ==
  /\ part = "alarms" /\ step
  /\ UNCHANGED <<part, listVars, filesVars, jtagVars, flashVars, i2cVars, speedVars,
                codecVars, irqVars, memoryVars>>
OfList(step) ==
  /\ part = "list" /\ step
  /\ UNCHANGED <<part, tickVars, filesVars, jtagVars, flashVars, i2cVars, speedVars,
                codecVars, irqVars, memoryVars>>
OfFiles(step) ==
  /\ part = "files" /\ step
  /\ UNCHANGED <<part, tickVars, listVars, jtagVars, flashVars, i2cVars, speedVars,
                codecVars, irqVars, memoryVars>>
OfConsole(step) ==
  /\ part = "console" /\ step
  /\ UNCHANGED <<part, tickVars, listVars, filesVars, flashVars, i2cVars, speedVars,
                codecVars, irqVars, memoryVars>>
OfFlash(step) ==
  /\ part = "flash" /\ step
  /\ UNCHANGED <<part, tickVars, listVars, filesVars, jtagVars, i2cVars, speedVars,
                codecVars, irqVars, memoryVars>>
OfI2c(step) ==
  /\ part = "i2c" /\ step
  /\ UNCHANGED <<part, tickVars, listVars, filesVars, jtagVars, flashVars, speedVars,
                codecVars, irqVars, memoryVars>>
OfSpeed(step) ==
  /\ part = "speed" /\ step
  /\ UNCHANGED <<part, tickVars, listVars, filesVars, jtagVars, flashVars, i2cVars,
                codecVars, irqVars, memoryVars>>
OfCodec(step) ==
  /\ part = "codec" /\ step
  /\ UNCHANGED <<part, tickVars, listVars, filesVars, jtagVars, flashVars, i2cVars,
                speedVars, irqVars, memoryVars>>
OfInterrupts(step) ==
  /\ part = "interrupts" /\ step
  /\ UNCHANGED <<part, tickVars, listVars, filesVars, jtagVars, flashVars, i2cVars,
                speedVars, codecVars, memoryVars>>
OfMemory(step) ==
  /\ part = "memory" /\ step
  /\ UNCHANGED <<part, tickVars, listVars, filesVars, jtagVars, flashVars, i2cVars,
                speedVars, codecVars, irqVars>>

HalNext ==
  \/ OfClock(Tick \/ TimeStep) \/ OfAlarms(Tick \/ AlarmStep) \/ OfList(ListNext)
  \/ OfFiles(FilesNext) \/ OfConsole(JtagNext) \/ OfFlash(FlashNext) \/ OfI2c(I2cNext)
  \/ OfSpeed(SpeedNext) \/ OfCodec(CodecNext) \/ OfInterrupts(IrqNext) \/ OfMemory(MemoryNext)

(* The timer and the processor go on, and the program calls again and      *)
(* again what it waits in; the host and the devices need not do anything.  *)
HalFair ==
  /\ WF_halVars(OfClock(Tick)) /\ SF_halVars(OfClock(EndWait))
  /\ WF_halVars(OfList(WalkOn))
  /\ WF_halVars(OfConsole(Handler)) /\ WF_halVars(OfConsole(Timeout))
  /\ SF_halVars(OfConsole((Write \/ Read \/ JtagReturn) /\ jtag_pc # "idle"))
  /\ WF_halVars(OfI2c(I2cDriver)) /\ WF_halVars(OfI2c(IrqEnter))
  /\ WF_halVars(OfCodec(CodecNext)) /\ WF_halVars(OfInterrupts(Processor))

HalSpec == HalInit /\ [][HalNext]_halVars /\ HalFair
-----------------------------------------------------------------------------
HalTypeOK == TicksTypeOK /\ ListTypeOK /\ FilesTypeOK /\ JtagTypeOK /\ FlashTypeOK /\ I2cTypeOK
             /\ SpeedTypeOK /\ CodecTypeOK /\ IrqTypeOK /\ MemoryTypeOK

(* Transactions keep their promise (altera_avalon_i2c.c:614-967), and run  *)
(* at the speed that was asked for (altera_avalon_i2c.c:242-321).          *)
I2cOrderly == I2cDone /\ SpeedKept

(* What the program calls comes to an end: its waits by milliseconds       *)
(* (transfer.c:142-153, 275-284), a tick's way along the list, reads,      *)
(* writes and closes of the console without a host                         *)
(* (altera_avalon_jtag_uart_write.c:83-215), transactions on a bus that is *)
(* held for ever (altera_avalon_i2c.c), and the start of main, unless the  *)
(* codec's driver hangs (main.c:3-19); and interrupts that are not masked  *)
(* are served (alt_irq_handler.c:129-156).                                 *)
HalCallsEnd ==
  \/ part = "clock" /\ Waits
  \/ part = "list" /\ alarm # alt_alarm_list
  \/ part = "console" /\ ConsoleCalled
  \/ part = "i2c" /\ I2cCalled
  \/ part = "codec"
  \/ part = "interrupts" /\ Requested
  ~>
  \/ part = "clock" /\ WaitIsOver
  \/ part = "list" /\ (alarm = alt_alarm_list \/ cut)
  \/ part = "console" /\ ConsoleAnswers
  \/ part = "i2c" /\ ~I2cCalled
  \/ part = "codec" /\ (todo = <<>> \/ hung)
  \/ part = "interrupts" /\ Served
=============================================================================
