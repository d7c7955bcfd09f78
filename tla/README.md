# TLA+ models of the rhythm game

This directory models the rhythm game of the repository: a game for the DE10-Lite board in
which notes fall towards four keys D, F, J and K while a song plays. The hardware, in
SystemVerilog and VHDL, draws, judges and plays. A Nios II processor, in C, sets up the audio
codec and reads a USB keyboard, on the HAL of its board support package. The models are written from the
code. File names without a directory are those of `src/`, `usb_kb/` stands for
`src/software/init_i2c_and_usb/usb_kb/`, `bsp/` for `src/software/init_i2c_and_usb_bsp/`.

1. [The system](#1-the-system)
2. [Modules](#2-modules)
3. [Runs](#3-runs)
4. [Fairness](#4-fairness)
5. [Proofs](#5-proofs)
6. [What was found](#6-what-was-found)
7. [What is not modelled](#7-what-is-not-modelled)
8. [Plan](#8-plan)

To check a run: `tlc -config MCJudge.cfg MCJudge`. To check proofs: `tlapm JudgeProofs.tla`.

## 1. The system

```
 keyboard --USB-- MAX3421E --SPI-- Nios II: usb_set ---PIO: keycode, key_dfjk---.
                                                                                 v
 SD card --SPI-- SdCardCtrl --handshake-- sdcard_init      keycode_machine -> start
                                              |                                  |
                                              v                                  v
 VGA beam --DrawX, DrawY, new_frame--> arbiter_sdram <--> lineb, DrawDFJK_BK, Draw_sprites,
                                              |           Draw_score_combo, mem_init, I2S
                                              v                                  |
                                            SDRAM              universal_timer --stop_sign
```

Three clocks matter: 50 MHz for the machines around the SDRAM, `new_frame` (once every
1600 x 525 clocks) for the rules of the game, and the codec's `SClk` for the audio output.

### Rules of the game
`DrawSprites.sv`, `Draw_score_and_combo.sv`, `universal_timer.sv`, `keycode_machine.sv`,
`key_[dfjk].sv`, `rhythm.sv`.

- *State*: a chart pointer for each track, the keys of three frames, the verdict on display and
  since when, score, combo, the song's time, auto mode and its count for each key.
- *Operations*: one frame judges the next note of each track. It must be the right key in a
  window of time for a tap or the start of a hold, the release for the end of a hold, and a
  miss when nobody answers. Auto mode judges by time alone. Enter starts, KEY0 resets.
- *Interactions*: keys and auto mode come from the processor's PIO, the start from the arbiter;
  the timer's end is `stop_sign` for arbiter and I2S.
- *Hard*: comparisons for equality of time, unsigned subtractions, registers without a reset,
  256-word charts whose first words are padding, several verdicts in one frame.
- *Correct when*: each listed note is judged once, in its time; points and combo are earned;
  the song starts at the first note and ends with the last one judged.

### SDRAM, raster and drawing
`arbiter.sv`, `lineb.sv`, `DrawDFJKBK.sv`, `DrawSprites.sv`, `Draw_score_and_combo.sv`,
`mem_init.sv`, `VGA_controller.sv`.

- *State*: the arbiter's state, the state and address of each client, the line buffer's halves,
  which frame buffer is shown.
- *Operations*: at a position of the beam the arbiter takes the SDRAM from the drawer for the
  next row's fetch and gives it back. Background, notes and digits are drawn in turn into the
  buffer not shown; then the audio ring is filled. `new_frame` swaps the buffers.
- *Hard*: all machines run in lock step on level signals (`wait`, `done`, acknowledge), and the
  acknowledge goes to whoever the arbiter connects when it comes.
- *Correct when*: an acknowledge reaches the client that asked; a row is whole when shown;
  nothing is drawn into the buffer shown; the buffers are swapped only with all layers drawn.

### Audio output
`I2S.sv`, `fifo_a_ram.v`.

- *State*: a ring of 256 words, the writer (50 MHz) with SDRAM address and end, the reader
  (codec clock) with position in word, half frame and bit.
- *Operations*: a first fill of 201 words, then one fill each frame up to 200; a word each
  eight half frames of LRClk.
- *Hard*: unrelated clocks, a fill that ends by equality, LRClk sampled late.
- *Correct when*: the ring never runs empty or over, words are played in order, silence after
  the song.

### SD card load
`sdcard_init.sv`, `SDCard.vhd`. *State*: both machines' states, counters, handshake registers.
*Operations*: initialise the card, read blocks, put 16 bytes in each SDRAM word. *Hard*: a
four-phase handshake for each byte between two machines, errors, reset at any cycle, power-up
without reset. *Correct when*: each word is in its place byte for byte, and loading ends.

### USB host
`usb_kb/MAX3421E.c`, `usb_kb/transfer.c`, `usb_kb/HID.c`, `mainnn.c`,
`bsp/drivers/src/altera_avalon_spi.c`. *State*: the task's state, the device table, flags and
registers of the chip, a transfer's position and toggles. *Operations*: a loop of interrupt
handling, enumeration and polling; control transfers in packets; register accesses in bytes.
*Interactions*: everything goes through the chip's registers over SPI. *Hard*: the chip's flags
and the bus change between any two steps; packets and handshakes are lost, devices answer NAK;
results are ignored; the SPI core has holding registers that must not be overrun. *Correct when*:
an access moves its bytes and no others; a request that succeeds has the device's whole answer;
no transfer uses an address without endpoints; the device polled is the one enumerated; one that
is gone is given up.

### Keys and auto mode
`usb_kb/HID.c` (`kbdPoll`), `usb_kb/transfer.c`, `mainnn.c`. *State*: the report under way with
its toggles, the last other key, the count of letters, the PIOs. *Operations*: a poll, one report.
*Hard*: reports repeated or lost, keys kept from earlier reports. *Correct when*: each report is
read once and in order; the play keys of the board become those held; auto mode is only switched
on by typing its word, and stays.

### The HAL
The board support package under the program. Its parts call each other in a few places, and each
keeps a state of its own.

| Part | Files | State and operations | Hard | Correct when |
|---|---|---|---|---|
| Clock | `alt_tick.c`, `alt_alarm_start.c`, `alt_gettod.c`, `alt_settod.c` | tick counter, alarms with a roll-over flag, time of day | the counter turns over | an alarm goes off at its tick; the time of day goes on |
| Alarm list | `alt_llist.h`, `alt_tick.c` | a linked list, walked by the interrupt | callbacks change the list they are called from | each alarm is served once in a tick |
| Files | `alt_open.c` and 20 more | pool of descriptors, locks, redirection | refusals half way, exclusive access | no descriptor is lost, no lock taken |
| Console | `altera_avalon_jtag_uart_*.c` | two rings between program, handler, alarm and host | four parties, a host that goes away | characters once and in order, nobody sleeps, calls end |
| Flash | `altera_onchip_flash.c` | erase pages, words, protection | unaligned writes, waits that give up | success means written, and protected again |
| I2C | `altera_avalon_i2c.c` | command and reception FIFOs, retries, handler | a refusal shows long after its command | success means done, the core is released |
| Codec | `sgtl5000.c`, `sgtl5000_test.c`, `main.c` | the codec's registers | transactions that break off anywhere | configured when main goes on |
| Interrupts | `alt_main.c`, `alt_irq_*.{c,h,S}`, `alt_iic*.c`, `alt_exception_entry.S` | table of handlers, masks, frames | an interrupt between any two steps | the right handler, whole sections |
| Memory | `crt0.S`, `alt_load.c`, `alt_sbrk.c` | sections and heap | reset at any step, sbrk in handlers | the program has its sections, blocks are apart |
| Board | `system.h`, `linker.h` | the address map, as data | - | slaves are apart, devices agree with drivers |

`PROJECT.json` lists each component with what is modelled of it, and the hazards with the line
where each bites and the properties that cover it.

## 2. Modules

Names of variables, states and operations are those of the code where TLA+ allows it. The
`map` of `PROJECT.json` gives the lines of each definition. Operators marked "Mutant" are
plausible mistakes in the definition that follows them; nothing uses them. Putting one in the
place of the definition it varies makes the property listed with it in `PROJECT.json` fail.

| Module | Models | A step is |
|---|---|---|
| `Judge` | rules of the game, song timer, start and reset | a video frame, or an event between two |
| `Charts` | the four charts of the repository as data | - |
| `Drawers` | the three drawers of a frame | part of a step of `FrameBus` |
| `FrameBus` | arbiter, beam, line buffer, audio writer and loaders as clients of the SDRAM | a 50 MHz clock |
| `DoubleBuffer` | abstract: what the frame pipeline promises | a layer drawn or a swap |
| `AudioOut` | both halves of I2S | an edge of one of its two clocks |
| `SdBoot` | sdcard_init and SdCardCtrl | a 50 MHz clock |
| `UsbTask` | interrupt handler, states of the enumeration, main loop | a call of the loop, or an event outside |
| `Enumerate` | the requests of an enumeration and the device's side | an attempt to send a packet |
| `Spi` | accesses to the MAX3421E's registers | a poll of the core's status, a byte on the line |
| `RegisterFile` | abstract: what an access promises | an access |
| `UsbHost` | the three together | a step of one |
| `UsbXfer` | kbdPoll and its IN transfers | an access of the chip, or a transaction |
| `AutoKeys` | what usb_set makes of a report | a report |
| `Keyboard` | both composed, with KEY0 and enumerations | a step of `UsbXfer`, with `AutoKeys` where it ends a poll |
| `Ticks` | system clock, alarms by due time, time of day, the USB stack's waits | a tick, or a call |
| `AlarmList` | the list of alarms link by link | a call, a place in alt_tick's walk |
| `HalFiles` | file descriptors | a call |
| `JtagUart` | the console's rings | an access another party can tell from the next |
| `OnchipFlash` | the flash driver | a wait, an erase or a word |
| `I2cMaster` | transactions, polled and by interrupt | a command, a poll that succeeds or gives up |
| `BusSpeed` | I2C clock settings in 16 bits | a call |
| `Codec` | setup_i2c and the codec's registers, main | a transaction begun |
| `Interrupts` | handlers, masks, exceptions, alt_main | an access another frame can tell from the next |
| `Memory` | crt0, alt_load, sbrk | a word copied, a line of sbrk |
| `Board` | address map and linker's regions | - |
| `Hal` | the parts together | a step of one |
| `...Proofs` | theorems (section 5) | - |
| `MC...` | small instances of the above | - |

How they fit together. `FrameBus` composes `Drawers` with the arbiter and every client, and is
shown to implement `DoubleBuffer`. `Keyboard` composes `UsbXfer` with `AutoKeys`: a report that
a poll returns goes through usb_set in the same step. `UsbHost` and `Hal` put modules side by
side that see one program at different grains; there a behaviour is of one `view` or `part`,
chosen at the start, and the state of the others stands still. Elsewhere one module states an
assumption on its environment that another discharges:

- `Judge` takes keys and auto mode from the PIO at any frame; `AutoKeys` says which sequences
  of reports set auto mode and that only a reset clears it; `Keyboard` says that each report
  comes once and in order; `UsbTask` says which device they come from.
- `UsbTask`, `Enumerate` and `UsbXfer` take an access to the chip for one step; `Spi` implements
  `RegisterFile`, which is that. `UsbTask` takes a control transfer for its result, which can
  be an error at any time; `Enumerate` says what a good result means.
- `UsbTask` assumes that a wait by milliseconds passes; `Ticks` says when (section 6).
- `Codec` takes a transaction for what the codec has taken of it when it ends; `I2cMaster` says
  that a good one has been taken whole, and which failed ones leave bytes in the buffer.
- `AudioOut` has the codec's clocks; `Codec` says that they run when main goes on.
- `FrameBus` treats a fill of the audio ring as a number of words in `FillWords`, at most 200;
  `AudioOut!FillsAreShort` proves that bound from the assumption that the arbiter grants one
  fill a frame, which is `FrameBus!AudioFedEachFrame`.
- `FrameBus` takes `sdcard_init` as a client that writes some words and is done;
  `SdBoot!LoadEnds` says it is done in the end, and `WordsInPlace` what is then in the SDRAM.
- `Judge` takes the loading to last `LoadFrames` frames at least.
- In `Hal`, where one part calls another, the caller's module has the callee's steps in place:
  the console's alarm is `JtagUart!Timeout`, a driver's handler is a few steps of `Interrupts`.

### Judge
All registers involved are clocked by `posedge new_frame`, so `Frame(keys)` is the whole
update of a frame: pointers, keys, verdict, score, arbiter phase, timer. `LoadDone`,
`PressEnter`, `UnlockAuto` and `Reset` come between frames. `Reset` keeps what
`DrawSprites.sv:218-234` keeps: the song's time, keys, history and verdict. Comparisons are the
unsigned ones of the code (`Within`, `FlashOver`); score and combo wrap at their widths.
`streak`, `perfects`, `goods` (`NextTally`) and `untimely` are history variables, which no register
depends on.

### FrameBus and Drawers
Every machine takes one step in each `Tick`, all reading the state before it: the code's
registers with combinational `wait` and acknowledge (`Wait`, `Ac`, `Serves`, `Connects`). A
word is not a pixel but the row and buffer it belongs to, which is what `LineReady` tells
apart. An address is a word of a piece and the buffer in which the piece was begun. The SDRAM
acknowledges a request at any clock up to `MaxLatency` after it appeared; it keeps the client
it began with, so that an acknowledge can go astray in the model if it can in the hardware.
The sprites' positions, pixel addresses and palette only shape the data and are left out. A
hold's body is as long as the hold goes on, from two words to `BodyLast`.

`TimingAssumption` says what the design needs of the SDRAM, the screen and the pictures, in clocks:
a row is fetched before `XPause`, a drawer that is asked to stop does so before the row ends, and
the layers of a frame and a fill of the ring fit into its rows (`FillRows`). `WordTime`, `FetchTime`,
`DsTime` and the like are the longest times that the machines' states add up to.

### AudioOut
A word is its address in the SDRAM. `Clk50` and `SClk` interleave freely. `gap` counts words
played since the last fill was begun; `MinGap` and `MaxGap` bound it, which is what "one fill a
frame" gives. Ring addresses have one more bit than slots need, and `wrusedw` loses it, as in
the code.

### SdBoot
Both machines step at once in `Tick`. Sending and receiving bits is one state, `TRANSFER`, that
takes any number of clocks and ends with one of the answers the card can give there. A byte is
its position on the card.

### UsbTask, Enumerate and Spi
In `UsbTask` the loop's steps are those between which the chip may change: reading the
interrupt flags and probing the bus (`MaxIntHandler`), clearing them (`Acknowledge`), one call
of `USB_Task`, the main program's look at the result. `Plug`, `Unplug`, `ResetEnds`,
`FrameStarts` and `Settled` are the world outside.

In `Enumerate` an `Attempt` sends one packet and takes whatever comes back: the device's answer,
a NAK, a lost packet, a lost handshake. The device has its own toggle, address, and position in
its answer, so that a packet sent again shows. Requests follow each other in the order of
`USB_Task`, `HIDMProbe` and `HIDKProbe`, with the results the code ignores ignored. A descriptor
of a configuration is one unit, and what the probes look for in it is its kind.

In `Spi` an access is one or two SPI commands. The driver writes the transmit register when the
core is ready and reads the receive register when it has something; the core holds one byte in
each and shifts a third; the chip takes the first byte after it is selected for register and
direction. `ChipChanges` changes a register of the chip at any moment.

### UsbXfer, AutoKeys and Keyboard
In `UsbXfer` a transaction may be answered, refused, damaged, lost on the way back, or dropped
without a result. In `AutoKeys` a report is a set of at most six keys, in any order. In
`Keyboard` the report that is pending is what is held down, `RCVFIFO` has the one that was
carried, and KEY0 (`Restarts`) can come between any two steps.

### Hal and its parts
`Ticks` says when an alarm is due with `due`, a history variable; `AlarmList` has links only and
lets any alarm be due. `HalFiles` keeps names as devices. `JtagUart` numbers characters in the
order they were accepted. `OnchipFlash` has one bit for a byte, which an erase sets and a write
clears. `I2cMaster` has a device that may refuse, hold the bus or answer, and a core that works
on the commands in its own time. `Interrupts` keeps what each frame has still to do as a sequence
of operations. `Memory` has words with addresses of the board, so that sections, heap and stack
lie as the linker put them.

## 3. Runs

Each run is `tlc -config <cfg> <module>`. "pass" runs find no error; "violation" runs check one
sentence of a comment that the code does not keep (section 6).

| Run | Cfg, module | Properties | Distinct states |
|---|---|---|---|
| judge | `MCJudge` | `NoNotePassed` `SongStartsAtFirst` `ComboHonest` `ScoreEarned` | 88,000 |
| judge_song | `MCJudgeSong` | `AutoPlaysPerfectly` `SongEnds` | 37,700 |
| frame_bus | `MCFrameBus` | `BusHeld` `LineReady` `WritesBehindTheScreen` `AudioFedEachFrame` `DoubleBuffered` `FramesGoOn` `AudioStops` | 377,000 |
| sd_boot | `MCSdBoot` | `WordsInPlace` `FourPhase` `LoadEnds` | 24,300 |
| audio_out | `MCAudioOut` | `RingKept` `InOrder` `KeepsStep` `FallsSilent` | 176,000 |
| usb_host | `MCUsbHost` | `DeviceTable` `WholeAnswers` `RunningIsConfigured` `GoodDevicesRun` `SpiIsRegisterFile` `HostGoesOn` | 137,000 |
| keyboard | `MCKeyboard` | `AutoTyped` `ReportsInOrder` `KeysArrive` | 64,800 |
| hal | `MCHal` | `NoFdLost` `ConsoleOrderly` `I2cOrderly` `InterruptsOrderly` `AlarmsServed` `CodecConfigured` `MemoryKept` `ClockKept` `LockKept` `WritesLand` `HalCallsEnd` | 228,000 |
| sd_boot_errors | `MCSdBootError`, module `MCSdBoot` | `ErrorsReported` (violation) | 16,700 |
| usb_detached | `MCUsbDetached`, module `MCUsbTask` | `DetachedIsEmpty` (violation) | 38 |
| settle_ends | `MCSettle`, module `MCTicks` | `SettleEnds` (violation) | 106 |
| i2c_one_buffer | `MCI2cOneBuffer`, module `MCI2c` | `I2cOneBuffer` (violation) | 7,600 |

Every module also has a type invariant (`TypeOK`, `HostTypeOK`, `KeyboardTypeOK`, `HalTypeOK`).
Those of `Judge`, `SdBoot`, `AudioOut`, `AutoKeys` and `HalFiles` are theorems; the others hold in
the same configurations when they are added to `INVARIANTS`.

### What they show, and why the bounds are enough

**judge.** Two tracks with every kind of note, notes nearer than a window, a hold, notes in one
frame on both tracks, one and two words of padding, and any keys in any frame, with Enter, auto
mode and KEY0 at any moment. The windows keep their order and differences (4 > 3 > 2 for
26 > 22 > 18) so each verdict is reachable at each distance, and `LoadFrames` is just longer than
the padding. `ScoreEarned` compares the score with the verdicts counted apart from it (`perfects`,
`goods`) and these with the pointers; the register (`ScoreWrap`) has 14 bits here, more than half
of which the five notes fill, so that one with a bit less would wrap. `NoNotePassed` and `SongStartsAtFirst` hold unless auto mode was switched on while
the padding was being consumed or the song ran (`untimely`); then a note nearer than `AutoLead`
is waited for that can no longer come, and its track stands still to the end of the song.

**judge_song.** The real charts, windows, times and 522 notes: auto mode on before the song ends
it with 522 x 1907 = 995,454 points, below 2^20 and a million, and a combo of 522, below 2^10. It
also evaluates `ChartAssumption` on the charts of the repository, which is what the theorems
about `Judge` assume. `LoadFrames` = 150 assumes that the card is not read in less than 150
frames (2.5 s); the longest padding is 142 words. With shorter loading a song could start in it.

**frame_bus.** All clients at once, with every delay of the SDRAM up to 2 clocks, two or three words or
pieces for each drawer, rows shown and not shown, fills of no word and of one, and a raster in
which the row fetches cut the layers at words that depend on the delays. `BusHeld` needs the drain
window, the clocks between pixel `XDrain` and the end of the row, to be at least

    2 * MaxLatency + 2 * NoteLast + 8

clocks (tried for `MaxLatency`, `NoteLast` = (2,1), (2,2), (3,2), (3,3): it holds at that value
and fails two clocks below). The cause is in `DrawSprites.sv:673`: the machine goes from one
note to the next and starts its write without looking at `sdram_wait` again. On the board the
window is pixels 765 to 799, 68 clocks, and `NoteLast` is 15, so that the drain is long enough as
long as the SDRAM controller acknowledges within 15 clocks. The 13 rows are as many as the drawing
of a frame needs: every drawer keeps the bus to the end of its row, also when it has finished, and
with too few rows a frame is not complete when the next begins. Whatever the start key and the end
of the song do, frames go on being completed, and the audio stops. The instance satisfies
`TimingAssumption`, from which the safety properties of the run are theorems (section 5).

**sd_boot.** Words of three bytes, two in a block, three blocks, an SDRAM of eight words that the
addresses go round once, as they do on the board (first 0x3F0000), errors of the card, resets
at any cycle, power-up without reset, both orders of every acknowledgement. Byte, word and block
boundaries and the wrap all occur and are smaller versions of the same counters.

**audio_out.** A ring of six words, target five, every interleaving of the two clocks that keeps
to one fill a frame. The assumption on the frames is tight: with `MaxGap = Target` the ring runs
empty, with `MinGap = 1` a fill is computed for a ring that is too full and runs through the
whole SDRAM (`FillsAreShort`). On the board a frame plays 184 or 185 words and the target is 200,
which leaves 13 or 14 words (about 1.2 ms or 37 rows) by which the beginning of a fill may move
from one frame to the next. `FallsSilent` says two things of the end of a song: writer and reader
come to a stop, and out of that stop only a reset brings either of them. A reader that waits in
`Stop` for `LRClk` while the writer still plays has not fallen silent.

**usb_host.** *Loop*: a table with two usable addresses, so that it fills up after two interrupted
enumerations; any device, plugged and unplugged at any moment; any transfer may fail. *Transfers*:
four devices, whose descriptors are longer than a packet, as long as two, and shorter, a keyboard,
a mouse, a keyboard whose first interface is another, and one without an endpoint; limits of two
NAKs and two timeouts, and every packet may be lost, on the way there or back. *Registers*: every
access with bytes that look like commands, reads of up to two bytes, and every order of driver,
core and chip.

**keyboard.** Limits of two NAKs and two timeouts, three report numbers (enough to tell a report
that is repeated, left out or reordered), any loss, and reports that type the word while they play.
`KeysArrive` says that every poll ends and that the play keys of the report that is held reach the
PIO.

**hal.** A counter of eight ticks, which turns over again and again; three alarms whose callbacks
start and stop each other; five descriptors, two of which are free; rings of three and FIFOs of one
character; a flash of two pages in two sectors, one of which may not be offered, and writes of
three bytes at any place; FIFOs of two commands, one of them full before the other end moves; the
codec's own list of accesses with its own values; interrupts on each line, two nested calls and
an exception; the board's own memory map with sections of a few words and calls of sbrk that reach
the end of the heap.

`CHECK_DEADLOCK` is never switched off: none of these machines may stop.

## 4. Fairness

Fairness is weak on what a clock or a loop drives: frames (the video counters never stop), the
50 MHz and codec clocks, the main loop, the polling. Beyond that the models assume:

- `FrameBus!FairSpec`: only the clock; that the SDRAM answers within `MaxLatency` is a constant.
- `SdBoot!FairSpec`: transfers of bits end, since they are counted (SDCard.vhd); the SDRAM
  acknowledges a word in the end; a card that is asked again and again comes out of its idle state
  and finds a block's start token, or reports an error. The last is an assumption on the card:
  the code has no limit for these waits (`SDCard.vhd:454`). `LoadEnds` is conditional on resets
  ceasing: nobody who presses KEY0 for ever may expect the load to end.
- `AudioOut!FairSpec`: both clocks run and the song ends, by `SongEnds`.
- `UsbHost!HostSpec`: the loop goes on, a bus reset ends, by the chip's timer, and 200 ms pass; the
  program sends packets; the SPI core shifts. Nothing is assumed of devices or the line.
- `Keyboard!KeyboardSpec`: the program polls, the bus does something with a transaction, and a packet
  sent again and again gets through (strong fairness of `Carries /\ Delivered`, which only the
  arrival of keys needs).
- `Hal!HalSpec`: the timer ticks, handlers and alarms run, and the program calls again what it waits
  in. Strong fairness stands where a handler takes the processor in between: the console's calls
  and the end of a wait. Host, I2C device and flash need do nothing.
- `Ticks` and `I2cMaster`, in the violation runs: the same for their part.
- `MCJudgeSong!SongSpec`: frames follow one another and the card is loaded.

## 5. Proofs

All theorems hold for every value of the constants that satisfies the named assumptions of the
module. TLC found each inductive invariant to hold before it was proved.

| Theorem | From | Statement |
|---|---|---|
| `JudgeProofs!JudgeTypeOK` | `WindowAssumption`, `ChartAssumption` | `Spec => []TypeOK` |
| `NoNotePassedTheorem`, `AllJudgedAtEndTheorem`, `PointerInChartTheorem` | the same | no note is left behind; all are judged at the end; no pointer passes the first end marker |
| `SongStartsAtFirstTheorem` | the same | a song starts at the first notes without points |
| `ScoreEarnedTheorem` | also `ScoreAssumption` | the score is that of the verdicts since the reset, each on a note of its own behind the pointers, and has not wrapped |
| `AutoPlaysPerfectlyTheorem` | also `ScoreAssumption`, `AutoAssumption` | a song in auto mode, switched on in time, counts every note as a perfect |
| `ComboHonestTheorem` | the same as `JudgeTypeOK` | the combo counts only perfects since the last miss or good |
| `AudioOutProofs!AudioTypeOK`, `RingKeptTheorem` | `AudioAssumption` | the ring is neither read past its last word nor filled past its target, no fill runs away |
| `InOrderTheorem` | also `RingAssumption` | words are played in the order of the SDRAM |
| `KeepsStepTheorem` | also `SamplesAssumption` | bit and half keep step with the codec |
| `FrameBusProofs!TypeCorrect`, `RequestsHeld` | `RasterAssumption`, `DrawersAssumption`, `TimingAssumption` | types; a request keeps the SDRAM until its acknowledge |
| `RowsReady`, `DrawsBehind`, `AudioInTime` | the same | a row is whole when shown; drawing is behind the screen; the audio is fed in each frame |
| `IsDoubleBuffer` | the same | `FrameBus` implements `DoubleBuffer` |
| `SdBootProofs!SdTypeTheorem`, `WordsInPlaceTheorem`, `FourPhaseTheorem` | `SdAssumption` | every word is the card's, at its place; the handshake never slips |
| `UsbHostProofs!TableInvariant`, `DeviceTableTheorem` | `UsbAssumption` | the driver's table has what its state needs; main polls the device that runs |
| `EnumerateInvariant`, `WholeAnswersTheorem` | `EnumerateAssumption` | an answer is whole, whatever was lost |
| `RunningTheorem`, `GoodDevicesTheorem` | the same | what runs is configured; what answers is not given up |
| `SpiImplements` | `SpiAssumption` | `Spi` implements `RegisterFile` |
| `HostTheorem` | the three | `UsbHost`, as the run takes it, keeps all of these |
| `KeyboardProofs!KeysTypeOK`, `AutoTypedTheorem`, `AutoForGoodTheorem` | `KeysAssumption` | auto mode needs A, T and O typed, and goes only with a reset |
| `ReportsInOrderTheorem` | `XferAssumption` | the report that is read is the one after the last |
| `KeyboardAutoTyped` | also `KeyboardAssumption` | auto mode is typed, with reports as they come over USB |
| `HalProofs!ClockKeptTheorem` | `TicksAssumption` | alarms go off at their ticks, the time of day goes on |
| `AlarmsServedTheorem` | `ListAssumption` | the list is one ring, and a tick serves each alarm once |
| `FilesTypeTheorem`, `NoFdLostTheorem`, `LockKeptTheorem` | `FilesAssumption` | no descriptor is lost; no lock is taken from who has it |
| `ConsoleTheorem` | `JtagAssumption` | characters keep their order both ways, and none lies where nobody moves it |
| `MemoryTheorem` | `MemoryAssumption` | the program is loaded as linked; blocks of the heap overlap nothing |
| `WritesLandTheorem` | `FlashAssumption` | a write that reports success has written every byte; the flash is left protected |
| `SpeedTheorem` | `SpeedsAssumption` | the bus clock is the one asked for, and the driver says so |
| `DriverProofs!I2cDoneTheorem` | `I2cAssumption` | a call that succeeds has sent its bytes and has the answer, the IP is left disabled and empty |
| `CodecConfiguredTheorem` | `CodecAssumption` | the codec is set up when main goes on, and never the I2S master unclocked |
| `InterruptsTheorem` | `InterruptsAssumption` | each line gets its own handler, sections are whole, interrupts are on outside them, all is set up when main begins |
| `HalProofs!HalTypeTheorem`, `HalTheorem`, `HalStepsTheorem` | those of all parts of the HAL | `Hal`, as the run takes it, keeps its types and all of these |

**Judge.** `NoNotePassed` is not inductive. That each pointer is on its first note when the song
starts follows from the boot: from the second frame after reset one word of padding is consumed
each frame (`Booting => frames <= addr[t] + 1 \/ addr[t] = First[t]`), the first frame being
spoiled by the last song's time, which reset keeps; then `LoadFrames` exceeds the padding, and no
listed note can be judged at time 0, because its time lies beyond the window. During the song a
pointer moves off a note at its time at the latest, and times are strictly increasing; in auto
mode every pending note must in addition be `AutoLead` ahead (`SongInv`). All of this is lost
when auto mode is switched on at a wrong time and found again with a reset, so the invariant
proved is `TypeOK /\ TimeOK /\ (~untimely => IInv)`. That a song starts without points needs in
addition that nothing scores while the timer is halted (`StartInv`, lemma `NothingScores`): every
verdict of a frame is then none or a miss.

**Score.** `NotesJudged` is a sum over the tracks, a recursive function of a set. The theorems get what
they need of it from a cardinality: two functions that add up what each track has behind its pointer
are equal (`SumIsUnique`: in a smallest set of tracks on which they differ, take one out), and
the number of notes behind the pointers is such a function (`CountIs`). A frame
adds to the set as many notes as it judges (`FrameCounts`), and scores only listed ones. In auto mode
a note is taken perfectly or not at all (`AutoVerdicts`). What breaks the combo is the verdict shown, which may
still be the padding's, or one from before the reset, when the song starts; it is gone before the
first note is taken, because the padding's time is 0 and the display lasts for `FlashTime` (`AutoCounts`).
`AutoAssumption` says what this needs: a first note later than `FlashTime + AutoLead`; without it
notes before the first display ends do not count. `ScoreAssumption` says that the points of all
listed notes fit into the score's register (`ScoreWrap`, 20 bits, here at most that many); from it and from the count of notes follows that the
score never wraps (`EarnedFrame`, `CountFits`), also in `ScoreEarned`. Both hold of the charts in the
repository (`judge_song` evaluates them).

**Frame.** None of these properties holds by the order of the states alone: the arbiter takes the bus
away and gives it back by the position of the beam, without asking. So the invariant (`IInv`, theorem
`Invariant`) is about time. Each machine has an upper bound on the clocks it still needs, computed
from its state, its words and the age of its request: `LbLeft` for the row's fetch, `BkDrain`,
`DsDrain` and the like for a drawer that is no longer served, `BkLeft` to `AuLeft` for the rest of
a layer or a fill. The invariant says that as much is left: the fetch is over before `XPause`, an
asked drawer is still before the row ends (from which follows `BusHeld`, as the arbiter only moves on
then), and what is still to be drawn fits into the service times of the rows that are left, minus
the `FillRows` kept for the audio. A layer may lose the rest of the row in which it ends, which is
where the three extra rows come from. Beside time there is `Picture`: which words of a row are in
which half of the line buffer, for each state of the fetch. `TimingAssumption` holds of the board with
its own figures (a background of 7680 words, 16 notes of 36 words, each with a body as high as the
screen, 1440 words, rows of 40 words, fills of 201) for acknowledgements within 10 clocks.
`IsDoubleBuffer` maps the clock at which a drawer reaches `Done` to a layer drawn and `new_frame` to a
swap; that all three layers are complete at a swap is again the invariant's last row.

**Audio.** In every state of the writer, words in the ring, words still to come and words played
since the fill was begun add up to the target, or to one more after the first fill, which writes
a word too many (`FullInv`, `FillInv`). The bounds on `gap` then give `RingKept`. The lemmas
`Distances` and `Addresses` do the modular arithmetic of the pointers and of the SDRAM address.
`InOrder` needs that what lies at a ring address held is the word whose address is equal to it
modulo two turns (`OrderInv`): that the SDRAM's size is a multiple of two turns is
`RingAssumption`, and `HeldAfterWrite` says that a new word takes the slot of none that is held.
`KeepsStep` needs that an edge of LRClk is seen in the second cycle of a half frame and at no other
time (`EdgeInv`), where setting the bit to 1 is what counting on would do.

**SD card.** The invariant `SdInv` counts bytes: those the host has taken, those the controller
has given, and at most one between them. `Block` says how they are related inside a block, for each
state of the handshake, `Between` that outside they are whole blocks, `Together` which states of one
machine go with which of the other; a reset makes it true whatever was before. From it follow the
place of each word and the four phases.

**USB host.** `DeviceTable` needs to know how the table was filled: addresses are given from 1 up
without a gap (`TableInv`), the one given last is the highest (`LastInv`), so the one that CONFIGURING
and RUNNING go on with is the one that main finds when it looks for the last device (`RunInv`); and
when the device is lost main sees it in the same loop, before the state can come back to RUNNING
(`LoopInv`). In a transfer the two toggles say who is ahead: while they agree, host and device are at
the same place of the answer, and while they do not, the device sends the last packet again
(`AnswerInv`); a packet is short only at the end, because `maxpkt` never exceeds the device's own
(`PacketIs`, `FoundInv`). As long as nothing is lost (`clean`), no request is refused, because
none is sent that the device could refuse (`CleanInv`, lemma `CleanAccepts`): a string of length 0 is
never asked for, nor the boot protocol before the configuration. `ReturnKeeps` says this once of the
end of every request. `HostTheorem` puts the three views together, step by step.

**SPI.** An access is a stream of bytes, however it is cut into commands. `SpiInv` gives the
positions in it of driver, core, chip and reader (`Given`, `Shifted`, `Taken`, `Ends`): at most one
byte lies between driver and chip, so the core's one holding register is enough and what is read
over at the start is the command byte alone. `StepRefines` maps the end of an access to a step of
`RegisterFile` and each other step to a stutter. The assumption includes that a setup packet has
bytes: a command without any would never end.

**Auto mode.** A key kept from an earlier report is looked at again with each report, so it could
advance the word without being typed. It does not, because a flag that waits for a letter never
has that letter as the key kept (`WordInv`). `KeysStep` shows that each step of `Keyboard` is one of
`AutoKeys` or a stutter, so the theorem holds of the composition (`KeyboardAutoTyped`).

**Reports.** The keyboard is either ready with the next report or, having missed a handshake, sends
the last one again, and its toggle compared with the one the host expects says which (`InStep`). The
host's two copies of that toggle agree whenever a transaction can begin; a report waits in the FIFO
only between the end of its transaction and its reading (`InTurn`).

**Clock.** The fields of an alarm say when it is due, on either side of the counter's turning over
(`AlarmFields`): a time that was reached with a roll-over pending is not reached yet, and the flag is
dropped in the tick in which the counter is 0. A time that was set is kept as two differences, of
seconds and of microseconds, of which the second may be negative (`SetInv`); the lemma `ElapsedIs`
adds them up again.

**Files.** Nothing can be opened before the standard channels are redirected (`FilesInv`), so
alt_io_redirect finds a descriptor. A lock is only on a device and below the mark where the search
for its other descriptors ends (`LockInv`).

**Alarm list.** The entries have ranks that fall along the links to the head's 0 (`Order`). An
insertion takes the highest rank, so that alt_tick, which goes down, never meets it; a removal
leaves the order of the others. `Walk` divides what is expected into what was served and what is
still ahead. That the head reaches all entries is a well-founded induction over the ranks.

**Console.** Each slot in use and each entry of a FIFO holds the character that its distance from the
last one that left says (`TxOrder`, `RxOrder`). Driver and handler work with copies of the other
side's pointer; a copy is behind it, so the room or the characters it showed are still there
(`Behind`), and the handler knows of no more room in the FIFO than there is. `Awake` is
`NobodySleeps` with what the handler, in the midst of its work, is still going to look at. The rings'
arithmetic is in `Modulo`, `Ring` and `Pieces`.

**Memory.** Words are taken by their number from the constants on, each linked to a word of the flash
or to 0 (`LinkedAs`); each loop has filled those it has come by (`Clearing`, `Copying`). A reset begins
again with whatever the words then hold. Interrupts are
off from the look at `heap_end` to its store, so of two calls of sbrk one is whole between two steps of
the other (`CallsInOrder`, `Heap`). `MemoryAssumption` includes that the sections fit into the memory: the
linker refuses a program whose sections do not (`linker.x:51-56`).

**Flash.** What a write has done is everything before its page, and of its page what the place in the
code says (`FlashProgress`): blank from here on after the erase, as wanted up to the next word after
the writes. The driver keeps the result of only one of its two waits for an erase, and a wait can give up while the
command goes on, so the flash may still be busy with a command of an earlier call when the next begins;
the invariant allows any command then, and shows that no byte is compared before it is over.
That padding with ones at both ends of a word leaves the neighbours is `ByteWritten`. For the types the addresses must
stay inside the device, which follows from the range check at the call alone (`FlashBounds`).

**I2C.** A call that has the core in hand has its commands in the queue, in order and without a gap, of
which k are done; what the device has heard and what has come follow from k (`QueuedAt`). A
refusal or a lost arbitration empties the queue, and what is written behind it is dropped until the
core is enabled again; the driver, which looks at the status only between commands, may be writing
on (`I2cQueue`). When a call is left to an interrupt, what is queued, received and still asked for
add up to the request (`I2cPending`). `I2cResults` then says what each way of ending a call, polled
or by an interrupt, has in its buffer. `CountsStep` needs in addition that a reception which drains the FIFO
between its commands never has more than it asked for (`ReceivedBound`).

**Codec.** What main still does is the end of its list of steps, wherever it is (`AtPlan`). Every
register that a step behind has written has that step's value, which no reading and no transaction
that breaks off changes: a codec takes a value with the fourth byte only. The list is the constant one of the
code, with its values; that their fields are the ones wanted is arithmetic on them (`ClockFields`,
`SoundFields`).

**Bus clock.** What the structure and the controller hold is what the formula gives for the speed they
are known by (`SpeedInv`); the rest is arithmetic on one quotient (`GivenRuns`, `AnswerRuns`).

**Interrupts.** The invariant is about the code that is still to run. Along what is left of a frame's
code the depth of its sections goes from the number of contexts it has saved to 0 (`Nests`), which
settles what each alt_irq_enable_all restores: PIE as it was before the outermost section, and off in
the others (`Base`). There are at most three frames, since PIE is off above the program: an interrupt, or
the exception of an instruction, or that exception upon an interrupt; and an exception that came while PIE
was off is never taken for an interrupt, because its frame kept PIE as it was (`Stack`). In the
program's code one store of a registration follows the other (`Chain`) and a line is unmasked behind
the store of its handler (`Prepared`), whatever calls main makes; so a line that is active has its handler,
unless it is just being masked (`Masked`), and out of sections what is enabled is what is active
(`EnabledIs`). `LowestIs` puts this together for the dispatcher: what it read is enabled, and the
program below it is in no section. What the start has not done is still in the code
(`StillAhead`), hence nothing is missing when the code is main's. The lemmas about `Nests`, `Chain`,
`Prepared` and `Needs` come in pairs, for code put together (`...Concat`) and code one step on
(`...Tail`).

**The HAL as a whole.** `HalSteps` shows that each step of `Hal` is a step of one part's own
specification and leaves all variables of the other parts, so every invariant above is one of `Hal`, and every
promise about steps as well. `HalTypeTheorem`, `HalTheorem` and `HalStepsTheorem` are the type
invariant, the run's seven invariants and its three action properties.

**Only model-checked.** Liveness (`SongEnds`, `FramesGoOn`, `AudioStops`, `LoadEnds`,
`FallsSilent`, `HostGoesOn`, `KeysArrive`, `HalCallsEnd`), which rests on fairness and so on
ENABLED, beyond the prover. Every other property of a run that passes is stated by a theorem.
Of recursive definitions over the charts' data (`Charts`: the notes and ends of the real songs) the
theorems use nothing but the assumptions, which TLC evaluates.

## 6. What was found

Each has a run that TLC ends with a counterexample.

- **An error of the card is not reported** (`sd_boot_errors`). `SDCard.vhd:98-103` says that the
  host has to reset the controller after an error and that errors cannot be ignored. On an error
  in a block the controller lowers `busy`, which `sdcard_init.sv:118` takes for the end of the
  block: it asks for the next one and waits for ever without raising `ram_init_error`. The
  repository's `README.md:5` gives the advice that fits: press KEY0 if it is stuck.
- **A device plugged in at the wrong moment is not seen** (`usb_detached`). `MAX3421E_init` and
  `MaxIntHandler` look at the bus before they clear the interrupt; a change between is lost.
- **A settle time can last for ever** (`settle_ends`). `usb_kb/transfer.c:277` computes an end in
  milliseconds as a quotient of `ticks * 1000`, a product of 32 bits, which wraps after 71.6
  minutes. An end set in the last 200 ms before that is above all the quotient can be. The waits
  of `XferDispatchPkt` have the same product. `UsbTask` assumes that moment away with
  `WF(OfLoop(Settled))`.
- **One buffer for both directions is not safe** (`i2c_one_buffer`). `altera_avalon_i2c.h:761` says
  the buffers of `master_tx_rx` may be the same; when the device refuses its read address late, the
  failed reception has written into the buffer before the retry sends it as the register's address.

Noticed while modelling, without a run. In the game and its program:

- `usb_task_state & 0xf0` is 0xf0 for `USB_STATE_ERROR` = 0xff, so its case is never taken and the
  default marked "Should never get here" (`usb_kb/transfer.c:382`) is; both do nothing.
- `usb_kb/transfer.c:298` ors the interrupt flags with a constant: the first frame is not awaited.
- A bus event increments the task's state whatever it is (`usb_kb/MAX3421E.c:232`): 1 becomes 2
  and skips `USB_init`, 4 becomes 5. `TypeOK` of `UsbTask` lists both.
- Polls use endpoint number 1, whatever endpoint was recorded (`usb_kb/HID.c:216-222`).
- The second device descriptor's result and those of the strings are ignored
  (`usb_kb/transfer.c:308-325`); lengths are then what the buffer held.
- A lost ACK of the status of SetAddress leaves the device at address 0 though the request
  succeeds. A lost handshake of a data packet ends an enumeration with a toggle error, and
  `USB_STATE_ERROR` is left only by taking the device out. The last handshake of SetProtocol can be
  lost, so that the boot protocol is not certain.
- A descriptor with a length of 0 would be looked at for ever; a configuration is cut at 256 bytes.
- The word for auto mode is accepted without its U: a second report with A, or its release, is
  as good. A third report with A starts again.
- The PIO of the play keys keeps its value when the keyboard is taken out (`mainnn.c:173`).
- A transfer that times out leaves the chip's interrupt to come; `UsbXfer` assumes that a chip
  silent for five seconds stays so.
- The waits for the oscillator (`usb_kb/MAX3421E.c:117`) and for a block's start token
  (`SDCard.vhd:454`) have no end.
- `main` ignores what `setup_i2c` returns: without a codec it goes on to the keyboard. It lights LED 9
  before usb_set uses it for "running". `sgtl5000.h:335` has a mask for the PLL's fraction that is
  narrower than the field.

In the HAL:

- I2C by interrupt: errors are cleared before they are looked at (`altera_avalon_i2c.c:108, 772`
  against 454-508 and the comment `altera_avalon_i2c.h:1145-1146`), so that a refused transmission can
  be reported as a success; `I2cDelivered` promises less there. A reception longer than the FIFO
  overflows it. `master_tx_rx` receives after a transmission that timed out (601-607). A lost
  arbitration at the very end is not looked for.
- The I2C speed: below 382 Hz the counts of 16 bits wrap; 400 kHz gives 403 kHz.
- The console can answer -EIO when only `host_inactive` says so (`_write.c:187, 214` against
  `_ioctl.c:70`).
- `settimeofday` has a product of 32 bits (`alt_settod.c:60`). An alarm after 2^32 - 1 ticks goes off at
  once. usleep is a tenth short on this processor, and a wait of a multiple of 429496729 us waits 2^32
  loops more.
- A callback that stops the alarm after its own makes alt_tick go on to an entry that is in no list,
  and from it to itself, for ever: `cut` in `AlarmList`, after which `AlarmsServed` promises
  nothing of the tick. Starting an alarm that is in the list, or stopping one never started, breaks
  the links; both are left out as misuse.
- `alt_fd_lock.c:61` does not look at the highest descriptor, against its comment (43-46). Closing 0, 1
  or 2 releases nothing.
- A flash write to a sector that is not there reports success (`altera_onchip_flash.c:299`); the
  result of the wait before an erase is overwritten (175-178).
- `alt_sbrk.c:46-48` says there is no check of bounds; there is (88). The limit is the stack's top.
- `alt_irq_register` takes a number of 2^31 or more for a negative one and lets it pass
  (`alt_iic_isr_register.c:79-82`). The dispatcher finds the lowest request first, so a line in a storm
  starves those after it. The comment at `alt_exception_entry.S:276` says the reverse of the code.
- `altera_avalon_spi.h:55-57` says all commands but the first carry the MERGE flag; it is all but the last.
  A command without bytes never ends. A debugger's restart with SSO set shifts the first access.

## 7. What is not modelled

- **Read address across clocks** (`I2S.sv:37`): nine bits are read by the other clock without
  synchronisation. `AudioOut` reads them whole; what a torn read gives depends on routing.
- **Pixels**: positions of sprites, palettes, the images. They are data to every property here.
- **A reset in the middle of a frame** in `FrameBus`: the machines restart together and the beam
  with them, as from `Init`, but the frame buffers' roles and contents are arbitrary.
- **SDRAM controller and processor system**: generated, not in the repository as source. The
  SDRAM is an acknowledgement within a bounded time.
- **`SdCardCtrl`'s write path**, which nothing uses; the addresses `mem_init` copies to.
- **Rest of the HAL**: logging, profiling, DMA, time stamps and formatting, which this build leaves
  out or never calls; cache flushes on a processor without caches; handlers that allow others
  (`alt_irq_interruptible`), which no driver uses; the I2C driver's dump of registers.
- **Conversion scripts, palette, hex display, generated memories**: no state of their own at
  run time. `printSignedHex0` and `printSignedHex1` are called by no part of the program.
- **Parts of the HAL calling each other at every step**: `Hal` has one part move in a behaviour
  (section 2).

## 8. Plan

Done, in this order: `Judge`, `Charts`; `FrameBus`, `Drawers`, `DoubleBuffer`; `SdBoot`;
`AudioOut`; `UsbTask`, `UsbXfer`, `AutoKeys`; then `Ticks`, `JtagUart`, `I2cMaster`, `Spi` with
`RegisterFile`, `Enumerate`, `Keyboard`, `HalFiles`, `AlarmList`, `OnchipFlash`, `Codec`,
`BusSpeed`, `Interrupts`, `Memory` with `Board`; and the proofs of section 5.

Next:

1. `Keyboard` composed with `Judge`, so that the keys of a frame are those that reports produce, and
   a held key that outlives its keyboard.
2. A reset in the middle of a frame in `FrameBus`.
