------------------------------- MODULE Ticks -------------------------------
(***************************************************************************)
(* The system clock: the timer's interrupt counts ticks in a word, serves  *)
(* the alarms of a list (alt_tick.c, alt_alarm_start.c), and the rest of   *)
(* the program computes times from the count: the time of day              *)
(* (alt_gettod.c, alt_settod.c) and the milliseconds by which the USB      *)
(* stack ends its waits (usb_kb/transfer.c).                               *)
(*                                                                         *)
(* Every access to the list is made with interrupts off, so each operation *)
(* is one step.  A word has Width values, few enough that the counter      *)
(* turns over many times in a behaviour.                                   *)
(***************************************************************************)
EXTENDS Integers

CONSTANTS Width,      \* values of an alt_u32
          Rate,       \* _alt_tick_rate: ticks per second
          Ms, Us,     \* milliseconds and microseconds (ALT_US) per second
          Alarms,     \* alarm structures
          Intervals,  \* ticks asked for, by alt_alarm_start and by a callback's result
          Times,      \* what settimeofday is told, in microseconds
          Delay       \* the milliseconds of a wait in the USB stack

ASSUME TicksAssumption ==
  /\ Width \in Nat \ {0} /\ Rate \in Nat \ {0} /\ Ms \in Nat \ {0} /\ Us \in Nat \ {0}
  /\ Intervals \subseteq 1..Width - 2 /\ Times \subseteq Nat /\ Delay \in Nat
  /\ Us % Rate = 0

VARIABLES
  nticks,                  \* _alt_nticks
  list, time, rollover,    \* alt_alarm_list (its order shows nowhere), and the alarms' fields
  due,                     \* for the properties: ticks until the alarm shall go off
  resettime, since,        \* alt_resettime; and what was set, and when
  usb_delay, waiting,      \* the end of a wait in the USB stack, and which wait it is
  fired                    \* the alarms that went off at the last tick

alarms   == <<list, time, rollover, due>>
clock    == <<resettime, since>>
usbWait  == <<usb_delay, waiting>>
tickVars == <<nticks, alarms, clock, usbWait, fired>>

Word(n) == n % Width
Never   == 0

-----------------------------------------------------------------------------
(* Alarms. *)

\* alt_alarm_start, of an alarm that is not in the list
alt_alarm_start(a, n) ==
  /\ a \notin list
  /\ time' = [time EXCEPT ![a] = Word(n + nticks + 1)]
  /\ rollover' = [rollover EXCEPT ![a] = time'[a] < nticks]
  /\ list' = list \cup {a} /\ due' = [due EXCEPT ![a] = n + 1]
  /\ UNCHANGED <<nticks, clock, usbWait, fired>>

\* alt_alarm_stop, also of an alarm that is not in the list; its fields are 0 here, they are
\* set when it is started again
alt_alarm_stop(a) ==
  /\ list' = list \ {a} /\ due' = [due EXCEPT ![a] = Never]
  /\ time' = [time EXCEPT ![a] = 0] /\ rollover' = [rollover EXCEPT ![a] = FALSE]
  /\ UNCHANGED <<nticks, clock, usbWait, fired>>

\* Mutant: the flag is looked at without the counter's turning over.
RollsOn(a, now) == rollover[a]

\* the roll-over flag is good until the counter is 0
Rolls(a, now) == rollover[a] /\ now # 0
Fires(a, now) == time[a] <= now /\ ~Rolls(a, now)

\* alt_tick; next[a] is what the callback of a returns, 0 to be taken off the list
alt_tick(next) ==
  LET now  == Word(nticks + 1)
      gone == {a \in fired' : next[a] = 0}
      new(a) == Word(time[a] + next[a])
      idle(a) == a \in gone \/ a \notin list
  IN
  /\ nticks' = now
  /\ fired' = {a \in list : Fires(a, now)}
  /\ list' = list \ gone
  /\ time' = [a \in Alarms |-> IF idle(a) THEN 0 ELSE IF a \in fired' THEN new(a) ELSE time[a]]
  /\ rollover' = [a \in Alarms |-> IF idle(a) THEN FALSE
                                   ELSE IF a \in fired' THEN new(a) < now ELSE Rolls(a, now)]
  /\ due' = [a \in Alarms |-> IF idle(a) THEN Never ELSE IF a \in fired' THEN next[a] ELSE due[a] - 1]

-----------------------------------------------------------------------------
(* The time of day, seconds and microseconds. *)

Timeval(us) == [sec |-> us \div Us, usec |-> us % Us]
Elapsed(n)  == n * (Us \div Rate)

\* gettimeofday: the product has 64 bits, a negative fraction borrows a second
gettimeofday(n, reset) ==
  LET sec  == reset.sec + (n \div Rate)
      usec == reset.usec + (Elapsed(n) % Us)
  IN IF usec < 0 /\ sec <= 0 THEN 0 ELSE sec * Us + usec

\* settimeofday: the product has the width of a word
settimeofday(us) ==
  /\ resettime' = [sec  |-> Timeval(us).sec - (nticks \div Rate),
                   usec |-> Timeval(us).usec - (Word(Elapsed(nticks)) % Us)]
  /\ since' = [at |-> nticks, us |-> us, good |-> TRUE]
  /\ UNCHANGED <<nticks, alarms, usbWait, fired>>

-----------------------------------------------------------------------------
(* (alt_nticks()*1000)/alt_ticks_per_second(), compared with a sum made of it. *)

Millis(n) == Word(n * Ms) \div Rate

\* USB_Task waits for a device to settle, XferDispatchPkt for a transfer
StartWait(w) ==
  /\ waiting = "none" /\ waiting' = w /\ usb_delay' = Word(Millis(nticks) + Delay)
  /\ UNCHANGED <<nticks, alarms, clock, fired>>

WaitOver == CASE waiting = "settle"   -> Millis(nticks) > usb_delay
              [] waiting = "transfer" -> Millis(nticks) >= usb_delay
              [] OTHER -> FALSE

EndWait ==
  /\ WaitOver /\ waiting' = "none" /\ usb_delay' = 0
  /\ UNCHANGED <<nticks, alarms, clock, fired>>

-----------------------------------------------------------------------------
TicksInit ==
  /\ nticks = 0 /\ list = {} /\ fired = {}
  /\ time = [a \in Alarms |-> 0] /\ rollover = [a \in Alarms |-> FALSE] /\ due = [a \in Alarms |-> Never]
  /\ resettime = [sec |-> 0, usec |-> 0] /\ since = [at |-> 0, us |-> 0, good |-> TRUE]
  /\ usb_delay = 0 /\ waiting = "none"

\* alt_avalon_timer_sc_irq
Tick ==
  /\ \E next \in [Alarms -> Intervals \cup {0}] : alt_tick(next)
  /\ since' = [since EXCEPT !.good = since.good /\ nticks' # 0]
  /\ UNCHANGED <<resettime, usbWait>>

AlarmStep == \E a \in Alarms : (\E n \in Intervals : alt_alarm_start(a, n)) \/ alt_alarm_stop(a)

TimeStep ==
  \/ \E us \in Times : settimeofday(us)
  \/ (\E w \in {"settle", "transfer"} : StartWait(w)) \/ EndWait

TicksNext == Tick \/ AlarmStep \/ TimeStep

\* the timer runs; the program looks at the clock between two of its ticks
TicksSpec == TicksInit /\ [][TicksNext]_tickVars /\ WF_tickVars(Tick) /\ SF_tickVars(EndWait)

-----------------------------------------------------------------------------
TicksTypeOK ==
  /\ nticks \in 0..Width - 1 /\ usb_delay \in 0..Width - 1 /\ waiting \in {"none", "settle", "transfer"}
  /\ time \in [Alarms -> 0..Width - 1] /\ rollover \in [Alarms -> BOOLEAN]
  /\ list \subseteq Alarms
  /\ \A a \in Alarms : due[a] \in IF a \in list THEN 1..Width - 1 ELSE {Never}

\* An alarm goes off at the tick at which its interval is over and at no
\* other, also when the counter turns over in between, whatever other alarms
\* are started, stopped and taken off the list at that tick.
AlarmsOnTime == nticks' # nticks => fired' = {a \in list : due[a] = 1}

\* The fields of an alarm say when it is due: this is why AlarmsOnTime holds.
AlarmFields ==
  \A a \in list : /\ time[a] = Word(nticks + due[a])
                         /\ rollover[a] = (nticks + due[a] >= Width)

\* The time of day is what was last set and the time gone since, until the
\* counter turns over, for a time set before the microseconds fill a word.
TimeGoesOn ==
  since.good /\ Elapsed(since.at) < Width =>
    gettimeofday(nticks, resettime) = since.us + Elapsed(nticks) - Elapsed(since.at)

\* Both, in every step of the clock (alt_tick.c:104-117, alt_gettod.c:91-93).
ClockKept == [][AlarmsOnTime /\ TimeGoesOn']_tickVars

\* A wait that ends within the milliseconds a word of microseconds can
\* express is over in the end.
Waits == waiting # "none" /\ usb_delay < Millis((Width - 1) \div Ms)
WaitIsOver == waiting = "none"

\* transfer.c:277: the device is given 200 ms to settle.
SettleEnds == waiting = "settle" ~> waiting # "settle"
=============================================================================
