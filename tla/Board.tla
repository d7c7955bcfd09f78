------------------------------- MODULE Board -------------------------------
(***************************************************************************)
(* The processor's system, as it was generated for the board (system.h,    *)
(* linker.h): what its program relies on without looking.  A slave is where*)
(* it is, the line it requests interrupts on, and what its driver takes    *)
(* from the table.                                                         *)
(***************************************************************************)
EXTENDS Integers

NoIrq == -1

(* Address, bytes, line.                                                   *)
At(base, span, irq) == [base |-> base, span |-> span, irq |-> irq]

ALT_CPU == [freq |-> 50000000, implementation |-> "tiny", width |-> 23,
            reset |-> \h200000, exception |-> \h200020, break |-> \h410820]

(* The same by its older names, which alt_busy_sleep goes by.              *)
NIOS2 == ALT_CPU

(* A port has four registers and no interrupt.                             *)
Pio(base, width, direction) == [at |-> At(base, 16, NoIrq), width |-> width, direction |-> direction]

DFJK           == Pio(\h4110a0, 5, "out")
HEX_DIGITS_PIO == Pio(\h4110d0, 16, "out")
KEY            == Pio(\h4110b0, 2, "in")
KEYCODE        == Pio(\h4110e0, 8, "out")
LEDS_PIO       == Pio(\h4110c0, 14, "out")
USB_GPX        == Pio(\h411110, 1, "in")
USB_IRQ        == Pio(\h411100, 1, "in")
USB_RST        == Pio(\h4110f0, 1, "out")

I2C_0        == [at |-> At(\h411040, 64, 3), freq |-> 50000000, depth |-> 4]
JTAG_UART_0  == [at |-> At(\h411130, 8, 0), depth |-> 64, threshold |-> 8]
SPI_0        == [at |-> At(\h411080, 32, 2), bits |-> 8, slaves |-> 1, clock |-> 2500000]
SYSID_QSYS_0 == [at |-> At(\h411128, 8, NoIrq), id |-> 0]
TIMER_0      == [at |-> At(\h411000, 64, 1), freq |-> 50000000, load |-> 49999, ticks |-> 1000]

ONCHIP_FLASH_0_CSR == [at |-> At(\h411120, 8, NoIrq)]

(* Its sectors; the table has two more, which are not there.               *)
ONCHIP_FLASH_0_DATA ==
  [at |-> At(\h200000, 458752, NoIrq), page |-> 8192,
   sectors |-> <<[start |-> 0, end |-> \h7fff], [start |-> \h8000, end |-> \hffff],
                 [start |-> \h10000, end |-> \h6ffff]>>]

ONCHIP_MEMORY2_0 == [at |-> At(\h408000, 32768, NoIrq)]

(* stdin, stdout and stderr, and the timer of alt_tick.                    *)
ALT_STDOUT  == JTAG_UART_0
ALT_SYS_CLK == TIMER_0
ALT_MAX_FD  == 32

Slaves ==
  {DFJK.at, HEX_DIGITS_PIO.at, KEY.at, KEYCODE.at, LEDS_PIO.at, USB_GPX.at, USB_IRQ.at, USB_RST.at, I2C_0.at,
   JTAG_UART_0.at, SPI_0.at, SYSID_QSYS_0.at, TIMER_0.at, ONCHIP_FLASH_0_CSR.at, ONCHIP_FLASH_0_DATA.at,
   ONCHIP_MEMORY2_0.at}
-----------------------------------------------------------------------------
(* Where the linker puts the program: code, and the handler of exceptions, *)
(* stay in the flash; data and constants have their place in the memory.   *)
RESET_REGION               == [base |-> \h200000, span |-> 32]
ONCHIP_FLASH_0_DATA_REGION == [base |-> \h200020, span |-> 458720]
ONCHIP_MEMORY2_0_REGION    == [base |-> \h408000, span |-> 32768]

ALT_DEVICE == [reset |-> ONCHIP_FLASH_0_DATA, exceptions |-> ONCHIP_FLASH_0_DATA,
               text |-> ONCHIP_FLASH_0_DATA,
               rodata |-> ONCHIP_MEMORY2_0, rwdata |-> ONCHIP_MEMORY2_0]
-----------------------------------------------------------------------------
Apart(s, t) == s.base + s.span <= t.base \/ t.base + t.span <= s.base
Within(s, t) == t.base <= s.base /\ s.base + s.span <= t.base + t.span

(* No two slaves share an address or a line, all are within the addresses  *)
(* of the processor; the program begins in the flash, and the regions fill *)
(* their memories; a tick is the timer's load and one clocks; the sectors  *)
(* follow each other in whole pages up to the flash's end.                 *)
ASSUME BoardAssumption ==
  /\ \A s, t \in Slaves : s # t => Apart(s, t) /\ (s.irq = t.irq => s.irq = NoIrq)
  /\ \A s \in Slaves : s.base + s.span <= 2 ^ ALT_CPU.width /\ s.irq \in NoIrq .. 31
  /\ RESET_REGION.base = ALT_CPU.reset /\ ONCHIP_FLASH_0_DATA_REGION.base = ALT_CPU.exception
  /\ Within(RESET_REGION, ALT_DEVICE.reset.at) /\ Within(ONCHIP_FLASH_0_DATA_REGION, ALT_DEVICE.text.at)
  /\ Apart(RESET_REGION, ONCHIP_FLASH_0_DATA_REGION) /\ Within(ONCHIP_MEMORY2_0_REGION, ALT_DEVICE.rwdata.at)
  /\ (ALT_SYS_CLK.load + 1) * ALT_SYS_CLK.ticks = ALT_SYS_CLK.freq
  /\ LET sectors == ONCHIP_FLASH_0_DATA.sectors IN
       /\ sectors[1].start = 0 /\ sectors[3].end + 1 = ONCHIP_FLASH_0_DATA.at.span
       /\ \A n \in 1 .. 3 : (sectors[n].end + 1) % ONCHIP_FLASH_0_DATA.page = 0
       /\ \A n \in 1 .. 2 : sectors[n + 1].start = sectors[n].end + 1
=============================================================================
