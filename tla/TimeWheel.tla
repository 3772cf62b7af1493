------------------------------ MODULE TimeWheel ------------------------------
(***************************************************************************)
(* The timing wheel of unp/high_performance/timer_wheel.h, class           *)
(* time_wheel: N slots with a set of timers each.  A timer that has to     *)
(* wait for k ticks hangs in the slot k places ahead of cur_slot and waits *)
(* there for k / N full turns.  tick() visits the timers of the current    *)
(* slot: those with turns left lose one, the others are called back and    *)
(* deleted; then the wheel moves on.                                       *)
(*                                                                         *)
(* tick() is several steps here, because a callback may itself add and     *)
(* delete timers (a handler that re-arms its timer does), also in the slot *)
(* tick() is walking through.  This module forgets the order of the timers *)
(* within a slot; WheelLists has the pointers, and implements it.          *)
(*                                                                         *)
(* An operator whose name has the form Operation_Slip is not part of the   *)
(* code: it is the operation with a plausible mistake, kept to show that   *)
(* the properties notice it.                                               *)
(*                                                                         *)
(* The class has no constructor.  The model starts from an object of       *)
(* static storage, the only kind whose slots are empty at the beginning.   *)
(***************************************************************************)
EXTENDS Integers

CONSTANTS Timers,    \* addresses of tw_timer objects
          NULL,      \* the null pointer
          N,         \* slots of the wheel
          Timeouts   \* the timeouts its users ask for, in units of SI = 1
                     \* (WheelListsAssumption says what they may be)

VARIABLES slot,       \* the timers of every slot
          rotation,   \* turns a timer has still to wait for
          time_slot,  \* the slot a timer was put in
          live,       \* the timers allocated and not deleted
          cur_slot,   \* the current slot
          intick,     \* whether tick() is running
          todo,       \* the timers tick() has still to visit
          firing,     \* the timer whose callback is running, or NULL
          left,       \* history: how many of the ticks that a timer was to
                      \* wait for are still to complete
          rearmed     \* history: the timers that a callback added, for a
                      \* multiple of N ticks

vars == <<slot, rotation, time_slot, live, cur_slot, intick, todo, firing, left,
          rearmed>>

Slots == 0 .. (N - 1)

Init ==
  /\ slot = [s \in Slots |-> {}]
  /\ rotation = [t \in Timers |-> 0]
  /\ time_slot = [t \in Timers |-> 0]
  /\ live = {}
  /\ cur_slot = 0
  /\ intick = FALSE
  /\ todo = {}
  /\ firing = NULL
  /\ left = [t \in Timers |-> 0]
  /\ rearmed = {}

\* Between ticks the users of the wheel call it; during a tick, callbacks do.
UserRuns == intick => firing # NULL

Ticks(timeout) == IF timeout < 1 THEN 1 ELSE timeout

\* What the history notes of a timer that is added.
Note(t, timeout) ==
  /\ left' = [left EXCEPT ![t] = Ticks(timeout)]
  /\ rearmed' = IF intick /\ Ticks(timeout) % N = 0 THEN rearmed \cup {t}
                                                   ELSE rearmed

\* The history of a timer ends with it.
Forget(t) ==
  /\ left' = [left EXCEPT ![t] = 0]
  /\ rearmed' = rearmed \ {t}

Add_TurnLess(t, timeout) ==
  /\ UserRuns
  /\ t \notin live
  /\ LET ticks == Ticks(timeout)
         ts    == (cur_slot + (ticks % N)) % N
     IN  /\ rotation' = [rotation EXCEPT ![t] = (ticks - 1) \div N]
         /\ time_slot' = [time_slot EXCEPT ![t] = ts]
         /\ slot' = [slot EXCEPT ![ts] = @ \cup {t}]
  /\ live' = live \cup {t}
  /\ Note(t, timeout)
  /\ UNCHANGED <<cur_slot, intick, todo, firing>>

\* add_timer(timeout)
Add(t, timeout) ==
  /\ UserRuns
  /\ t \notin live
  /\ LET ticks == Ticks(timeout)
         ts    == (cur_slot + (ticks % N)) % N
     IN  /\ rotation' = [rotation EXCEPT ![t] = ticks \div N]
         /\ time_slot' = [time_slot EXCEPT ![t] = ts]
         /\ slot' = [slot EXCEPT ![ts] = @ \cup {t}]
  /\ live' = live \cup {t}
  /\ Note(t, timeout)
  /\ UNCHANGED <<cur_slot, intick, todo, firing>>

\* delete_timer(timer).  A callback may delete any timer but its own, which
\* tick() reads after the callback and deletes itself.
Delete(t) ==
  /\ UserRuns
  /\ t \in live \ {firing}
  /\ slot' = [slot EXCEPT ![time_slot[t]] = @ \ {t}]
  /\ live' = live \ {t}
  /\ todo' = todo \ {t}
  /\ Forget(t)
  /\ UNCHANGED <<rotation, time_slot, cur_slot, intick, firing>>

\* tick() is called and starts with the first timer of the current slot.
TickBegin ==
  /\ ~intick
  /\ intick' = TRUE
  /\ todo' = slot[cur_slot]
  /\ UNCHANGED <<slot, rotation, time_slot, live, cur_slot, firing, left, rearmed>>

\* A timer with turns left.
Turn_KeepTurns(t) ==
  /\ intick /\ firing = NULL
  /\ t \in todo
  /\ rotation[t] > 0
  /\ todo' = todo \ {t}
  /\ UNCHANGED <<slot, rotation, time_slot, live, cur_slot, intick, firing, left, rearmed>>

Turn(t) ==
  /\ intick /\ firing = NULL
  /\ t \in todo
  /\ rotation[t] > 0
  /\ rotation' = [rotation EXCEPT ![t] = @ - 1]
  /\ todo' = todo \ {t}
  /\ UNCHANGED <<slot, time_slot, live, cur_slot, intick, firing, left, rearmed>>

\* A timer that is due: its callback starts ...
Fire(t) ==
  /\ intick /\ firing = NULL
  /\ t \in todo
  /\ rotation[t] = 0
  /\ firing' = t
  /\ todo' = todo \ {t}
  /\ UNCHANGED <<slot, rotation, time_slot, live, cur_slot, intick, left, rearmed>>

\* ... and has returned: the timer is unlinked and deleted.
Fired_KeepLinked ==
  /\ firing # NULL
  /\ live' = live \ {firing}
  /\ firing' = NULL
  /\ Forget(firing)
  /\ UNCHANGED <<slot, rotation, time_slot, cur_slot, intick, todo>>

Fired ==
  /\ firing # NULL
  /\ slot' = [slot EXCEPT ![cur_slot] = @ \ {firing}]
  /\ live' = live \ {firing}
  /\ firing' = NULL
  /\ Forget(firing)
  /\ UNCHANGED <<rotation, time_slot, cur_slot, intick, todo>>

\* The slot has been walked through: cur_slot moves on, tick() returns.
TickEnd ==
  /\ intick /\ firing = NULL
  /\ todo = {}
  /\ intick' = FALSE
  /\ cur_slot' = (cur_slot + 1) % N
  /\ left' = [t \in Timers |-> IF t \in live THEN left[t] - 1 ELSE left[t]]
  /\ UNCHANGED <<slot, rotation, time_slot, live, todo, firing, rearmed>>

Next ==
  \/ \E t \in Timers : \/ \E timeout \in Timeouts : Add(t, timeout)
                       \/ Delete(t)
                       \/ Turn(t)
                       \/ Fire(t)
  \/ TickBegin
  \/ Fired
  \/ TickEnd

Spec == Init /\ [][Next]_vars

-----------------------------------------------------------------------------

TypeOK ==
  /\ slot \in [Slots -> SUBSET Timers]
  /\ rotation \in [Timers -> Nat]
  /\ time_slot \in [Timers -> Slots]
  /\ live \subseteq Timers
  /\ cur_slot \in Slots
  /\ intick \in BOOLEAN
  /\ todo \subseteq Timers
  /\ firing \in Timers \cup {NULL}
  /\ left \in [Timers -> Int]
  /\ rearmed \subseteq live

\* A timer is called back after as many ticks as it was added for, not after
\* fewer and not after more.  It does not hold: a callback that asks for a
\* multiple of N ticks gets a timer in the slot tick() is walking through, in
\* front of the walk, with all its turns; the first of them is counted when the
\* wheel is back there, and the timer fires a whole turn late, although its
\* rotation is said to be the number of turns after which it fires
\* (timer_wheel.h:63).
FiresAfterItsTicks == firing # NULL => left[firing] = 0

\* How late a timer is: such a timer a whole turn, any other not at all.
Lateness(t) == IF t \in rearmed THEN N ELSE 0

\* A timer is called back neither earlier nor later than that, although nothing
\* but a slot and a number of turns is stored: lines 62 to 64 and the walk of
\* tick() agree whatever slot the wheel is in, whoever added the timer, and
\* whatever callbacks did to the slot.
OnTime == firing # NULL => left[firing] = -Lateness(firing)

\* No timer is forgotten: none is still in the wheel when that tick is over.
NoneMissed == \A t \in live : left[t] >= -Lateness(t)

\* Both: a timer is called back after exactly the ticks it was added for
\* (timer_wheel.h:64 and 111), unless it was deleted before, and the only ones
\* that are late, by one turn, are those a callback added for a multiple of N.
Punctual == OnTime /\ NoneMissed

\* No slot holds the address of a deleted timer, and every allocated timer is in
\* the one slot it remembers, where delete_timer will look for it, also while
\* callbacks change the slot that tick() walks through.
SlotsMatch ==
  /\ \A s \in Slots : slot[s] = {t \in live : time_slot[t] = s}
  /\ todo \subseteq slot[cur_slot]
  /\ firing # NULL => firing \in slot[cur_slot] \ todo

-----------------------------------------------------------------------------
(* Why the wheel is on time: the distance from the current slot to the     *)
(* slot of a timer plus its turns make up the ticks left, and the turn by  *)
(* which the timer will be late, if it will.  During a tick a timer of the *)
(* current slot that has been visited, or that a callback has put there,   *)
(* has a whole turn before it.                                             *)

Ahead(s) == IF s >= cur_slot THEN s - cur_slot ELSE s - cur_slot + N

Left(t) ==
  rotation[t] * N + Ahead(time_slot[t])
    + (IF intick /\ time_slot[t] = cur_slot /\ t \notin todo THEN N ELSE 0)

Countdown == \A t \in live \ {firing} : left[t] + Lateness(t) = Left(t)

FiringDue ==
  firing # NULL => intick /\ rotation[firing] = 0 /\ left[firing] + Lateness(firing) = 0

Walk == todo # {} => intick

IInv == TypeOK /\ SlotsMatch /\ Countdown /\ FiringDue /\ Walk

=============================================================================
