-------------------------------- MODULE Codec --------------------------------
(***************************************************************************)
(* The start of main (main.c): setup_i2c sets the SGTL5000 codec up over   *)
(* I2C (sgtl5000_test.c, sgtl5000.c), LEDs tell how far the program is,    *)
(* and usb_set goes on for ever (UsbTask).                                 *)
(*                                                                         *)
(* A transaction of the I2C driver is one step for each time it is begun:  *)
(* I2cMaster has its commands and waits.  What matters of it here is how   *)
(* many bytes the codec has taken when it fails, that a refused one is     *)
(* begun again, and that a failed reception may have written into the      *)
(* buffer that is then sent as the address (the run i2c_one_buffer).       *)
(***************************************************************************)
EXTENDS Board, Sequences

CONSTANTS
  Attempts,      (* Times the driver begins a refused transaction.           *)
  Found          (* Whether there may be a device "/dev/i2c_0".              *)

ASSUME CodecAssumption == Attempts \in Nat \ {0} /\ Found \subseteq BOOLEAN

(* The registers of the codec that are used, and its identity.             *)
CHIP_ID           == 0
CHIP_DIG_POWER    == 2
CHIP_CLK_CTRL     == 4
CHIP_I2S_CTRL     == 6
CHIP_SSS_CTRL     == 10
CHIP_ADCDAC_CTRL  == 14
CHIP_PAD_STRENGTH == 20
CHIP_ANA_HP_CTRL  == 34
CHIP_ANA_CTRL     == 36
CHIP_REF_CTRL     == 40
CHIP_ANA_POWER    == 48
CHIP_PLL_CTRL     == 50

CodecRegisters ==
  {CHIP_ID, CHIP_DIG_POWER, CHIP_CLK_CTRL, CHIP_I2S_CTRL, CHIP_SSS_CTRL, CHIP_ADCDAC_CTRL, CHIP_PAD_STRENGTH,
   CHIP_ANA_HP_CTRL, CHIP_ANA_CTRL, CHIP_REF_CTRL, CHIP_ANA_POWER, CHIP_PLL_CTRL}

VARIABLES
  todo,            (* What main still does, in order.                        *)
  hung,            (* "hang here" (sgtl5000.c:19-22, 41-44).                 *)
  begun, buffer,   (* The transaction: times begun, bytes to send.           *)
  codec,           (* The codec's registers.                                 *)
  absent,          (* There was no device.                                   *)
  leds,            (* LEDS_PIO.                                              *)
  slept            (* The loops alt_busy_sleep has been through.             *)

codecVars == <<todo, hung, begun, buffer, codec, absent, leds, slept>>

Opens == [op |-> "open", reg |-> 0, value |-> 0]
Reads(reg) == [op |-> "read", reg |-> reg, value |-> 0]
Writes(reg, value) == [op |-> "write", reg |-> reg, value |-> value]
Lights(led) == [op |-> "led", reg |-> 0, value |-> led]
Sleeps == [op |-> "usleep", reg |-> 0, value |-> 2000000]

(* The fields of a register, as (shift, value).                            *)
Fields(fields) ==
  LET or[n \in 0 .. Len(fields)] ==
        IF n = 0 THEN 0 ELSE or[n - 1] + fields[n][2] * 2 ^ fields[n][1]
  IN or[Len(fields)]

(* 180.6336 MHz from 12.5 MHz, in units of 100 Hz: whole and 2048ths.      *)
PLL_CTRL == Fields(<<<<11, 1806336 \div 125000>>, <<0, ((1806336 % 125000) * 2048) \div 125000>>>>)

(* DAC_STEREO, PLL, VCOAMP, VAG, ADC_STEREO, REFTOP, HP, DAC, CAPLESS_HP,  *)
(* ADC; neither of the internal regulators, nor the line out.              *)
ANA_POWER == Fields([n \in 1 .. 10 |-> <<<<14, 10, 8, 7, 6, 5, 4, 3, 2, 1>>[n], 1>>])

(* ANA_GND (1.8 V / 2 - 800 mV, by 25 mV) and BIAS_CTRL.                   *)
REF_CTRL == Fields(<<<<4, (900 - 800) \div 25>>, <<1, 7>>>>)

(* ADC_EN, DAC_EN, I2S_OUT, I2S_IN; not the DAP.                           *)
DIG_POWER == Fields(<<<<6, 1>>, <<5, 1>>, <<1, 1>>, <<0, 1>>>>)

(* SYS_FS_44_1k, MCLK_FREQ_PLL.                                            *)
CLK_CTRL == Fields(<<<<2, 1>>, <<0, 3>>>>)

(* I2S_MASTER, with 64 bit clocks to a frame and words of 32 bits.         *)
I2S_CTRL == Fields(<<<<7, 1>>>>)

(* ADC_SEL_LINE_IN, HP_SEL_DAC, and none of the mutes.                     *)
ANA_CTRL == Fields(<<<<2, 1>>>>)

(* DAC_SEL_I2S_IN, I2S_OUT_SEL_ADC.                                        *)
SSS_CTRL == Fields(<<<<4, 1>>, <<0, 0>>>>)

(* HP_VOL_RIGHT, HP_VOL_LEFT.                                              *)
ANA_HP_CTRL == Fields(<<<<8, 40>>, <<0, 40>>>>)

setup_i2c ==
  <<Opens, Reads(CHIP_ID),
    Writes(CHIP_PLL_CTRL, PLL_CTRL),   Reads(CHIP_PLL_CTRL),
    Writes(CHIP_ANA_POWER, ANA_POWER), Reads(CHIP_ANA_POWER),
    Writes(CHIP_REF_CTRL, REF_CTRL),   Reads(CHIP_REF_CTRL),
    Writes(CHIP_DIG_POWER, DIG_POWER), Reads(CHIP_DIG_POWER),
    Writes(CHIP_CLK_CTRL, CLK_CTRL),   Reads(CHIP_CLK_CTRL),
    Writes(CHIP_I2S_CTRL, I2S_CTRL),   Reads(CHIP_I2S_CTRL),
    Writes(CHIP_ANA_CTRL, ANA_CTRL),   Reads(CHIP_ANA_CTRL),
    Writes(CHIP_SSS_CTRL, SSS_CTRL),   Reads(CHIP_SSS_CTRL), Reads(CHIP_ANA_CTRL),
    Writes(CHIP_ADCDAC_CTRL, 0),       Reads(CHIP_ADCDAC_CTRL), Reads(CHIP_PAD_STRENGTH),
    Writes(CHIP_ANA_HP_CTRL, ANA_HP_CTRL)>>

main == <<Lights(10), Lights(9), Sleeps, Sleeps, Sleeps, Sleeps, Sleeps, Sleeps, Lights(8), Lights(7)>>
-----------------------------------------------------------------------------
AtStep(op) == ~hung /\ todo # <<>> /\ Head(todo).op = op
Step == Head(todo)

(* Both send the high byte first.                                          *)
Bytes16(word) == <<word \div 256, word % 256>>
Word16(bytes) == bytes[1] * 256 + bytes[2]

(* Mutant: an error of the driver is printed and left at that.             *)
GoesOn(ok) == TRUE

(* Anything but ALT_AVALON_I2C_SUCCESS ends the program.                   *)
Accepted(ok) == ok

Over(ok) ==
  /\ begun' = 0 /\ buffer' = <<>>
  /\ IF Accepted(ok) THEN todo' = Tail(todo) /\ UNCHANGED hung ELSE hung' = TRUE /\ UNCHANGED todo

(* The codec takes two bytes for the register and then writes each two     *)
(* that follow; what it has no register for, it drops.                     *)
Taken(bytes) ==
  IF Len(bytes) = 4 /\ Word16(bytes) \in CodecRegisters
  THEN [codec EXCEPT ![Word16(bytes)] = Word16(SubSeq(bytes, 3, 4))] ELSE codec

SGTL5000_Reg_Wr ==
  LET bytes == Bytes16(Step.reg) \o Bytes16(Step.value) IN
  /\ AtStep("write")
  /\ \E n \in 0 .. 4, ok \in BOOLEAN :
       /\ ok => n = 4
       /\ codec' = Taken(SubSeq(bytes, 1, n))
       /\ \/ Over(ok)
          \/ ~ok /\ begun + 1 < Attempts /\ begun' = begun + 1 /\ UNCHANGED <<todo, hung, buffer>>
  /\ UNCHANGED <<absent, leds, slept>>

(* What is read is only printed.  buffer is both the register and what     *)
(* comes from it.                                                          *)
SGTL5000_Reg_Rd ==
  /\ AtStep("read")
  /\ codec' = Taken(IF begun = 0 THEN Bytes16(Step.reg) ELSE buffer)
  /\ \/ \E ok \in BOOLEAN : Over(ok)
     \/ /\ begun + 1 < Attempts /\ begun' = begun + 1
        /\ buffer' \in {Bytes16(Step.reg), <<0, 0>>} /\ UNCHANGED <<todo, hung>>
  /\ UNCHANGED <<absent, leds, slept>>

(* Without the device setup_i2c returns 1, and main does not look.         *)
OpenI2c ==
  /\ AtStep("open")
  /\ \E found \in Found :
       /\ todo' = (IF found THEN Tail(todo) ELSE main)
       /\ absent' = ~found
  /\ UNCHANGED <<hung, begun, buffer, codec, leds, slept>>

setLED ==
  /\ AtStep("led") /\ leds' = leds \cup {Step.value} /\ todo' = Tail(todo)
  /\ UNCHANGED <<hung, begun, buffer, codec, absent, slept>>

(* A loop that counts down is taken to last cycles_per_loop clocks; how    *)
(* many make a microsecond is cut to a whole number.  In the long form a   *)
(* rest of 0 would be counted down from 0.                                 *)
INT_MAX == 2147483647
cycles_per_loop == IF NIOS2.implementation = "tiny" THEN 9 ELSE 3
LoopsPerUs == ALT_CPU.freq \div (cycles_per_loop * 1000000)

alt_busy_sleep(us) ==
  LET most == INT_MAX \div LoopsPerUs
      big_loops == us \div most
      rest == us % most
  IN big_loops * INT_MAX + (IF big_loops > 0 /\ rest = 0 THEN 2 ^ 32 ELSE rest * LoopsPerUs)

usleep ==
  /\ AtStep("usleep") /\ todo' = Tail(todo) /\ slept' = slept + alt_busy_sleep(Step.value)
  /\ UNCHANGED <<hung, begun, buffer, codec, absent, leds>>

(* The loop that hangs, and the one of usb_set.                            *)
Stays == (hung \/ todo = <<>>) /\ UNCHANGED codecVars

(* A restart by the debugger leaves the codec as the last run left it.     *)
CodecInit ==
  /\ todo = setup_i2c \o main /\ hung = FALSE /\ begun = 0 /\ buffer = <<>> /\ absent = FALSE
  /\ leds \in {{}, 7 .. 10} /\ slept = 0
  /\ \/ codec = [reg \in CodecRegisters |-> 0]
     \/ codec = [reg \in CodecRegisters |-> 65535]

CodecNext == OpenI2c \/ SGTL5000_Reg_Wr \/ SGTL5000_Reg_Rd \/ setLED \/ usleep \/ Stays

CodecSpec == CodecInit /\ [][CodecNext]_codecVars /\ WF_codecVars(CodecNext)
-----------------------------------------------------------------------------
Words == 0 .. 65535

CodecTypeOK ==
  /\ Len(todo) <= Len(setup_i2c \o main) /\ {hung, absent} \subseteq BOOLEAN
  /\ begun \in 0 .. Attempts - 1 /\ Len(buffer) \in {0, 2}
  /\ codec \in [CodecRegisters -> Words]
  /\ leds \subseteq 0 .. LEDS_PIO.width - 1 /\ slept \in Nat

(* The field of a register.                                                *)
Field(reg, shift, width) == (codec[reg] \div 2 ^ shift) % 2 ^ width
On(reg, bits) == \A bit \in bits : Field(reg, bit, 1) = 1

(* The codec's system clock is 180.63 to 180.64 MHz, and is what its I2S   *)
(* clocks are made of, at 44.1 kHz.                                        *)
Clocked ==
  /\ LET multiple == Field(CHIP_PLL_CTRL, 11, 5) * 2048 + Field(CHIP_PLL_CTRL, 0, 11)
     IN 1250 * multiple \in 18063 * 2048 .. 18064 * 2048
  /\ On(CHIP_ANA_POWER, {8, 10}) /\ Field(CHIP_CLK_CTRL, 0, 2) = 3 /\ Field(CHIP_CLK_CTRL, 2, 4) = 1

(* What the codec is for, "Configured for Fs=44.1kHz, SGTL5000 as I2S      *)
(* master, Line-in -> ADC -> I2S Out, I2S In -> DAC -> Headphone Out"      *)
(* (sgtl5000_test.c:3-6): powered, with nothing muted on the way.          *)
Sounds ==
  /\ Clocked /\ Field(CHIP_I2S_CTRL, 7, 1) = 1 /\ Field(CHIP_I2S_CTRL, 0, 7) = 0
  /\ Field(CHIP_ANA_CTRL, 2, 1) = 1 /\ Field(CHIP_SSS_CTRL, 0, 2) = 0
  /\ Field(CHIP_SSS_CTRL, 4, 2) = 1 /\ Field(CHIP_ANA_CTRL, 6, 1) = 0
  /\ On(CHIP_DIG_POWER, {0, 1, 5, 6}) /\ On(CHIP_ANA_POWER, {1, 3, 4, 5, 7})
  /\ Field(CHIP_ADCDAC_CTRL, 2, 2) = 0 /\ Field(CHIP_ANA_CTRL, 4, 1) = 0 /\ Field(CHIP_ANA_CTRL, 0, 1) = 0

(* When main goes on, the codec sounds, however often a transaction was    *)
(* refused and wherever it broke off; and from the moment this run makes   *)
(* it the I2S master, which AudioOut's clocks come from, it is clocked     *)
(* (sgtl5000_test.c:110-178).  usb_set then begins nine tenths of the      *)
(* 12 seconds later that main asks for, and no more than that              *)
(* (alt_busy_sleep.c:62-74).                                               *)
CodecConfigured ==
  /\ ~absent /\ Len(todo) <= Len(main) => Sounds
  /\ codec[CHIP_I2S_CTRL] = I2S_CTRL => Clocked
  /\ todo = <<>> => slept * cycles_per_loop \in (ALT_CPU.freq \div 10) * 9 * 12 .. ALT_CPU.freq * 12
=============================================================================
