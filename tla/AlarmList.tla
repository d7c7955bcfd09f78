----------------------------- MODULE AlarmList -----------------------------
(***************************************************************************)
(* The list of alarms, link by link (alt_llist.h), and alt_tick's way      *)
(* along it.  Ticks says when an alarm is due and has a set of them; here  *)
(* any may be due, and the list is what the processor sees: the program    *)
(* changes it between two ticks, and callbacks change it under alt_tick,   *)
(* which has read the next link before it makes the call.                  *)
(***************************************************************************)
EXTENDS Integers, FiniteSets, Sequences

CONSTANTS
  alt_alarm_list,   (* The head of the list.                                 *)
  Entries           (* The llist of each alarm.                              *)

ASSUME ListAssumption == alt_alarm_list \notin Entries /\ IsFiniteSet(Entries)

Links == Entries \cup {alt_alarm_list}

VARIABLES
  next, previous,   (* The links; an entry that is in no list is on its own. *)
  alarm, following, (* alt_tick's `alarm' and `next'; the head between ticks.*)
  calling,          (* The alarm's callback runs.                            *)
  listed,           (* History: the alarms started and not stopped,          *)
  expected,         (* those of them that were when the tick began,          *)
  served,           (* the alarms the tick has come to, in their order, and  *)
  cut               (* a callback stopped the alarm that comes next.         *)

links    == <<next, previous>>
listVars == <<links, alarm, following, calling, listed, expected, served, cut>>

alt_llist_insert(entry) ==
  /\ next' = [next EXCEPT ![entry] = next[alt_alarm_list], ![alt_alarm_list] = entry]
  /\ previous' = [previous EXCEPT ![entry] = alt_alarm_list, ![next[alt_alarm_list]] = entry]

(* Mutant: the entry still points at its neighbours.                       *)
alt_llist_removeBare(entry) ==
  /\ next' = [next EXCEPT ![previous[entry]] = next[entry]]
  /\ previous' = [previous EXCEPT ![next[entry]] = previous[entry]]

(* "Set the entry to point to itself, so that any further calls to         *)
(* alt_llist_remove() are harmless."                                       *)
alt_llist_remove(entry) ==
  /\ next' = [next EXCEPT ![previous[entry]] = next[entry], ![entry] = entry]
  /\ previous' = [previous EXCEPT ![next[entry]] = previous[entry], ![entry] = entry]

Starts(a) == a \notin listed /\ alt_llist_insert(a) /\ listed' = listed \cup {a} /\ UNCHANGED expected
Stops(a)  == alt_llist_remove(a) /\ listed' = listed \ {a} /\ expected' = expected \ {a}

(* The program, with interrupts off, or a handler other than the timer's.  *)
BetweenTicks ==
  /\ alarm = alt_alarm_list /\ \E a \in Entries : Starts(a) \/ Stops(a)
  /\ UNCHANGED <<alarm, following, calling, served, cut>>

TickBegin ==
  /\ alarm = alt_alarm_list /\ alarm' = next[alt_alarm_list]
  /\ expected' = listed /\ served' = <<>> /\ cut' = FALSE
  /\ UNCHANGED <<links, following, calling, listed>>

(* A due alarm is called, another passed.                                  *)
Come ==
  /\ alarm # alt_alarm_list /\ ~calling
  /\ served' = IF cut THEN served ELSE Append(served, alarm)
  /\ \/ following' = next[alarm] /\ calling' = TRUE /\ UNCHANGED alarm
     \/ alarm' = next[alarm] /\ UNCHANGED <<following, calling>>
  /\ UNCHANGED <<links, listed, expected, cut>>

(* A callback starts and stops alarms, its own too.                        *)
Callback ==
  /\ calling
  /\ \E a \in Entries : (Starts(a) /\ UNCHANGED cut) \/ (Stops(a) /\ cut' = (cut \/ a = following))
  /\ UNCHANGED <<alarm, following, calling, served>>

(* It returns 0, and the alarm is stopped, or the ticks until the next.    *)
CallbackEnd ==
  /\ calling /\ calling' = FALSE /\ alarm' = following /\ following' = alt_alarm_list
  /\ Stops(alarm) \/ UNCHANGED <<links, listed, expected>>
  /\ UNCHANGED <<served, cut>>

ListInit ==
  /\ next = [l \in Links |-> l] /\ previous = [l \in Links |-> l]
  /\ alarm = alt_alarm_list /\ following = alt_alarm_list /\ calling = FALSE
  /\ listed = {} /\ expected = {} /\ served = <<>> /\ cut = FALSE

WalkOn == Come \/ CallbackEnd

ListNext == BetweenTicks \/ TickBegin \/ WalkOn \/ Callback

ListSpec == ListInit /\ [][ListNext]_listVars
-----------------------------------------------------------------------------
ListTypeOK ==
  /\ next \in [Links -> Links] /\ previous \in [Links -> Links]
  /\ alarm \in Links /\ following \in Links /\ calling \in BOOLEAN /\ cut \in BOOLEAN
  /\ listed \subseteq Entries /\ expected \subseteq listed

(* The links are each other's inverse, and only the entries listed are     *)
(* linked to others.                                                       *)
Linked ==
  /\ \A l \in Links : next[previous[l]] = l /\ previous[next[l]] = l
  /\ \A a \in Entries : a \in listed <=> next[a] # a

(* The links from the head lead to all that is listed: whatever holds the  *)
(* head and what its members link to holds that.                           *)
Reached ==
  \A S \in SUBSET Links :
    alt_alarm_list \in S /\ (\A l \in S : next[l] \in S) => listed \subseteq S

(* A tick comes once to every alarm that is there from its beginning until *)
(* it is over, and to no alarm that has been stopped, whatever callbacks   *)
(* start and stop, but for the alarm that comes next: alt_tick goes on to  *)
(* one that is in no list then, and from it to itself.                     *)
ServedOnce ==
  ~cut =>
    /\ \A m, n \in 1 .. Len(served) : served[m] = served[n] => m = n
    /\ alarm # alt_alarm_list /\ ~calling => alarm \in expected
    /\ calling => following \in expected \cup {alt_alarm_list}
    /\ alarm = alt_alarm_list => \A a \in expected : \E n \in 1 .. Len(served) : served[n] = a

(* The list is one ring, at every moment, and alt_tick keeps its place in  *)
(* it while callbacks change it (alt_llist.h:90-117, alt_tick.c:87-141).   *)
AlarmsServed == Linked /\ Reached /\ ServedOnce
=============================================================================
