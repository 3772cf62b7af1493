----------------------------- MODULE ListTimer ------------------------------
(***************************************************************************)
(* A client that uses one sort_time_list through its public methods, the   *)
(* way unp/high_performance/alarm_keeplive.cpp does: it allocates a timer, *)
(* adds it, postpones it, deletes it, and calls tick() from time to time.  *)
(* The client keeps the pointer of every timer it has added until it       *)
(* deletes the timer or the timer calls it back.                           *)
(*                                                                         *)
(* Time is what time(NULL) returns, the wall clock of the machine.  It     *)
(* moves forward, and backward when somebody sets it.                      *)
(***************************************************************************)
EXTENDS SortTimeList

CONSTANTS Delays,      \* how far from now the client sets an expiry
          MaxTime      \* bound: the largest value of the clock

ASSUME ListTimerAssumption ==
  /\ Delays \subseteq Nat /\ IsFiniteSet(Delays) /\ Delays # {}
  /\ MaxTime \in Nat

VARIABLES list,     \* the sort_time_list and the heap its timers live in
          now,      \* time(NULL)
          handles,  \* the timers the client believes pending
          called,   \* the timers called back by the last operation
          exists,   \* FALSE once the list has been destroyed
          stepped   \* history: whether the clock has ever been set back

vars == <<list, now, handles, called, exists, stepped>>

Init ==
  /\ list = NewList
  /\ now = 0
  /\ handles = {}
  /\ called = {}
  /\ exists = TRUE
  /\ stepped = FALSE

\* new util_timer and add_timer (alarm_keeplive.cpp:115-121).
Add(t, d) ==
  /\ exists
  /\ t \notin list.live
  /\ list' = AddTimer(New(list, t, now + d), t)
  /\ handles' = handles \cup {t}
  /\ called' = {}
  /\ UNCHANGED <<now, exists, stepped>>

\* A new expiry and adjust_timer (alarm_keeplive.cpp:179-182).  A client with
\* a single delay and a steady clock only ever postpones; a client with
\* several delays is held to that, which is all adjust_timer is written for.
Adjust(t, d) ==
  /\ exists
  /\ t \in handles
  /\ stepped \/ now + d >= list.expire[t]
  /\ list' = AdjustTimer([list EXCEPT !.expire[t] = now + d], t)
  /\ called' = {}
  /\ UNCHANGED <<now, handles, exists, stepped>>

\* del_timer (alarm_keeplive.cpp:164 and 173).
Del(t) ==
  /\ exists
  /\ t \in handles
  /\ list' = DelTimer(list, t)
  /\ handles' = handles \ {t}
  /\ called' = {}
  /\ UNCHANGED <<now, exists, stepped>>

\* tick (alarm_keeplive.cpp:62).
Tick ==
  /\ exists
  /\ list' = TickList(list, now)
  /\ called' = Expired(list, now)
  /\ handles' = handles \ called'
  /\ UNCHANGED <<now, exists, stepped>>

\* The destructor of the static list, when the program exits.
Exit ==
  /\ exists
  /\ list' = Destroy(list)
  /\ handles' = {}
  /\ called' = {}
  /\ exists' = FALSE
  /\ UNCHANGED <<now, stepped>>

Clock ==
  /\ now' \in 0 .. MaxTime
  /\ now' = now + 1 \/ now' < now
  /\ stepped' = (stepped \/ now' < now)
  /\ called' = {}
  /\ UNCHANGED <<list, handles, exists>>

Next ==
  \/ \E t \in Timers, d \in Delays : Add(t, d) \/ Adjust(t, d)
  \/ \E t \in Timers : Del(t)
  \/ Tick
  \/ Exit
  \/ Clock

Spec == Init /\ [][Next]_vars

-----------------------------------------------------------------------------

TypeOK ==
  /\ list.head \in list.live \cup {NULL}
  /\ list \in [head : Timers \cup {NULL}, tail : Timers \cup {NULL},
               prev : [Timers -> Timers \cup {NULL}], next : [Timers -> Timers \cup {NULL}],
               expire : [Timers -> Int], live : SUBSET Timers]
  /\ now \in 0 .. MaxTime
  /\ handles \subseteq Timers
  /\ called \subseteq Timers
  /\ exists \in BOOLEAN /\ stepped \in BOOLEAN

\* The list holds exactly the timers the client believes pending, and all of
\* them are allocated: following next from head never reaches deleted memory
\* and never loses a timer, whatever sequence of calls came before.
ListHoldsHandles == Linked(list) = handles /\ handles \subseteq list.live

\* The list reads the same in both directions: prev is the inverse of next, the
\* head has no predecessor, and tail is the last timer.  An empty list may keep
\* a stale tail (tick never resets it); del_timer compares tail with a pointer
\* only when the list is not empty.
BackwardChain ==
  LET c == Chain(list)
  IN  c # <<>> =>
        /\ list.prev[c[1]] = NULL
        /\ list.tail = c[Len(c)]
        /\ \A i \in 1 .. (Len(c) - 1) : list.prev[c[i + 1]] = c[i]

\* All of it: whatever adjust_timer, del_timer and tick have done to the pointers
\* of other timers (list_timer.h:98 to 130), both directions agree with the
\* client's idea of what is pending.
WellFormed == TypeOK /\ ListHoldsHandles /\ BackwardChain

\* list_timer.h:9 calls the list ascending: no timer stands before one that
\* expires earlier.  tick() relies on it, since it stops at the first timer
\* that is not due.  The list is no longer sorted once the clock has been set
\* back: a postponed timer may then expire before its predecessor, which
\* adjust_timer does not look at (line 87).
SortedAscending ==
  LET c == Chain(list)
  IN  ~stepped => \A i, j \in DOMAIN c : i < j => list.expire[c[i]] <= list.expire[c[j]]

\* A timer that leaves the list is deleted, except when del_timer finds it
\* between two others (list_timer.h:127-130): that memory is leaked.
FreedOnRemoval ==
  [][\A t \in handles \ handles' :
       \/ t \notin list'.live
       \/ called' = {} /\ list.next[t] # NULL /\ list.prev[t] # NULL]_vars

\* The list implements the abstract timer queue: in particular a tick calls
\* back all the timers that are due and no other, and even with a clock that
\* was set back none that is not due.
Queue == INSTANCE TimerQueue
           WITH deadline <- [t \in Linked(list) |-> list.expire[t]],
                Times <- 0 .. (MaxTime + Max(Delays))

ImplementsTimerQueue == Queue!Spec

=============================================================================
