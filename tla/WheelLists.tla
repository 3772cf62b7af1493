----------------------------- MODULE WheelLists -----------------------------
(***************************************************************************)
(* The timing wheel of unp/high_performance/timer_wheel.h with its         *)
(* pointers: every slot points to the head of a doubly linked list, and    *)
(* tick() walks through the list of the current slot with the pointer tmp, *)
(* which it reads again after every callback.  In between, the callback    *)
(* may put a timer in front of the list or delete any timer but its own.   *)
(*                                                                         *)
(* This module implements TimeWheel, where the slots are sets.  The fields *)
(* of a deleted timer are set to a fixed value: nothing may read them.     *)
(* Operators named Operation_Slip are mistakes, as in TimeWheel.           *)
(***************************************************************************)
EXTENDS Integers, FiniteSets

CONSTANTS Timers, NULL, N, Timeouts   \* as in TimeWheel

ASSUME WheelListsAssumption ==
  /\ IsFiniteSet(Timers) /\ NULL \notin Timers
  /\ N \in Nat \ {0}
  /\ Timeouts \subseteq Nat

VARIABLES slot,        \* the head of the list of every slot
          prev, next,  \* the pointers of every timer
          rotation, time_slot, live, cur_slot,   \* as in TimeWheel
          tmp,         \* the local variable of tick()
          pc,          \* tick() is not running ("idle"), at the head of its
                       \* loop ("loop") or in the callback of tmp ("callback")
          left, rearmed   \* history, as in TimeWheel

nodes == <<slot, prev, next, rotation, time_slot, live>>
vars  == <<nodes, cur_slot, tmp, pc, left, rearmed>>

Slots == 0 .. (N - 1)

Init ==
  /\ slot = [s \in Slots |-> NULL]
  /\ prev = [t \in Timers |-> NULL]
  /\ next = [t \in Timers |-> NULL]
  /\ rotation = [t \in Timers |-> 0]
  /\ time_slot = [t \in Timers |-> 0]
  /\ live = {}
  /\ cur_slot = 0
  /\ tmp = NULL
  /\ pc = "idle"
  /\ left = [t \in Timers |-> 0]
  /\ rearmed = {}

\* The timers reached from p along links, which are the next pointers.
Reach(links, p) ==
  LET at[i \in 0 .. Cardinality(Timers)] ==
        IF i = 0 THEN p ELSE IF at[i - 1] = NULL THEN NULL ELSE links[at[i - 1]]
  IN  {at[i] : i \in DOMAIN at} \ {NULL}

Wheel == INSTANCE TimeWheel WITH
           slot   <- [s \in Slots |-> Reach(next, slot[s])],
           intick <- pc # "idle",
           firing <- IF pc = "callback" THEN tmp ELSE NULL,
           todo   <- CASE pc = "idle"     -> {}
                       [] pc = "loop"     -> Reach(next, tmp)
                       [] pc = "callback" -> Reach(next, next[tmp])

UserRuns == pc \in {"idle", "callback"}

\* add_timer(timeout): new tw_timer in front of the list of its slot.
Add(t, timeout) ==
  /\ UserRuns
  /\ t \notin live
  /\ LET ticks == IF timeout < 1 THEN 1 ELSE timeout
         ts    == (cur_slot + (ticks % N)) % N
     IN  /\ rotation' = [rotation EXCEPT ![t] = ticks \div N]
         /\ time_slot' = [time_slot EXCEPT ![t] = ts]
         /\ next' = [next EXCEPT ![t] = slot[ts]]
         /\ prev' = [u \in Timers |-> CASE u = t        -> NULL
                                        [] u = slot[ts] -> t
                                        [] OTHER        -> prev[u]]
         /\ slot' = [slot EXCEPT ![ts] = t]
  /\ live' = live \cup {t}
  /\ Wheel!Note(t, timeout)
  /\ UNCHANGED <<cur_slot, tmp, pc>>

\* Take t out of the list of slot s and delete it.  A timer at the head leaves
\* its slot to the next one, any other is bypassed by its neighbours.
Unlink_HeadOnly(t, s) ==
  /\ slot' = [slot EXCEPT ![s] = next[t]]
  /\ next' = [next EXCEPT ![t] = NULL]
  /\ prev' = [u \in Timers |-> IF u \in {t, next[t]} THEN NULL ELSE prev[u]]
  /\ live' = live \ {t}

Unlink_KeepPrev(t, s) ==
  /\ slot' = [slot EXCEPT ![s] = IF t = @ THEN next[t] ELSE @]
  /\ next' = [u \in Timers |-> CASE u = t                          -> NULL
                                 [] t # slot[s] /\ u = prev[t]     -> next[t]
                                 [] OTHER                          -> next[u]]
  /\ prev' = [prev EXCEPT ![t] = NULL]
  /\ live' = live \ {t}

Unlink(t, s) ==
  /\ slot' = [slot EXCEPT ![s] = IF t = @ THEN next[t] ELSE @]
  /\ next' = [u \in Timers |-> CASE u = t                      -> NULL
                                 [] t # slot[s] /\ u = prev[t] -> next[t]
                                 [] OTHER                      -> next[u]]
  /\ prev' = [u \in Timers |-> CASE u = t       -> NULL
                                 [] u = next[t] -> IF t = slot[s] THEN NULL ELSE prev[t]
                                 [] OTHER       -> prev[u]]
  /\ live' = live \ {t}

\* delete_timer(timer)
Delete(t) ==
  /\ UserRuns
  /\ t \in live
  /\ pc = "callback" => t # tmp
  /\ Unlink(t, time_slot[t])
  /\ Wheel!Forget(t)
  /\ UNCHANGED <<rotation, time_slot, cur_slot, tmp, pc>>

TickBegin ==
  /\ pc = "idle"
  /\ pc' = "loop"
  /\ tmp' = slot[cur_slot]
  /\ UNCHANGED <<nodes, cur_slot, left, rearmed>>

Turn ==
  /\ pc = "loop" /\ tmp # NULL
  /\ rotation[tmp] > 0
  /\ rotation' = [rotation EXCEPT ![tmp] = @ - 1]
  /\ tmp' = next[tmp]
  /\ UNCHANGED <<slot, prev, next, time_slot, live, cur_slot, pc, left, rearmed>>

Fire ==
  /\ pc = "loop" /\ tmp # NULL
  /\ rotation[tmp] = 0
  /\ pc' = "callback"
  /\ UNCHANGED <<nodes, cur_slot, tmp, left, rearmed>>

\* The successor is read after the callback, from tmp itself.  (When tmp is the
\* head, slot[cur_slot] is that successor by then.)
Fired ==
  /\ pc = "callback"
  /\ Unlink(tmp, cur_slot)
  /\ tmp' = next[tmp]
  /\ pc' = "loop"
  /\ Wheel!Forget(tmp)
  /\ UNCHANGED <<rotation, time_slot, cur_slot>>

TickEnd ==
  /\ pc = "loop" /\ tmp = NULL
  /\ pc' = "idle"
  /\ cur_slot' = (cur_slot + 1) % N
  /\ left' = [t \in Timers |-> IF t \in live THEN left[t] - 1 ELSE left[t]]
  /\ UNCHANGED <<nodes, tmp, rearmed>>

Next ==
  \/ \E t \in Timers : (\E timeout \in Timeouts : Add(t, timeout)) \/ Delete(t)
  \/ TickBegin \/ Turn \/ Fire \/ Fired \/ TickEnd

Spec == Init /\ [][Next]_vars

-----------------------------------------------------------------------------

TypeOK ==
  /\ slot \in [Slots -> Timers \cup {NULL}]
  /\ prev \in [Timers -> Timers \cup {NULL}]
  /\ next \in [Timers -> Timers \cup {NULL}]
  /\ rotation \in [Timers -> Nat]
  /\ time_slot \in [Timers -> Slots]
  /\ live \subseteq Timers
  /\ cur_slot \in Slots
  /\ tmp \in Timers \cup {NULL}
  /\ pc \in {"idle", "loop", "callback"}
  /\ left \in [Timers -> Int]
  /\ rearmed \subseteq live

\* The lists of all slots are well-formed at every point where a callback can
\* look at them: prev undoes next, a head has no predecessor (tick() and
\* delete_timer dereference prev of every other timer), and no pointer that can
\* be followed, tmp included, leads to a deleted timer.
WellLinked ==
  /\ TypeOK
  /\ \A s \in Slots :
       /\ slot[s] # NULL => prev[slot[s]] = NULL
       /\ \A t \in Reach(next, slot[s]) :
            /\ t \in live
            /\ t # slot[s] => prev[t] # NULL
            /\ next[t] # NULL => prev[next[t]] = t
  /\ tmp # NULL => tmp \in Reach(next, slot[cur_slot])

\* The lists do what the sets of TimeWheel do, step by step.
ImplementsTimeWheel == Wheel!Spec

=============================================================================
