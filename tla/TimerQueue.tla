----------------------------- MODULE TimerQueue -----------------------------
(***************************************************************************)
(* What a timer container promises, whatever its data structure: it holds  *)
(* pending timers with a deadline each, and a tick calls back exactly the  *)
(* timers whose deadline has been reached and forgets them.  Once somebody *)
(* has set the clock back it may call some of them later, but still none   *)
(* too early.  ListTimer is shown to implement this specification.         *)
(***************************************************************************)
EXTENDS Integers, Functions

CONSTANTS Timers,   \* the timers
          Times     \* the values of the clock and of deadlines

VARIABLES deadline,  \* the deadline of every pending timer
          now,       \* the current time
          called,    \* the timers called back by the last operation
          stepped    \* whether the clock has ever been set back

vars == <<deadline, now, called, stepped>>

Pending == DOMAIN deadline

Init == deadline = <<>> /\ now = 0 /\ called = {} /\ stepped = FALSE

Add(t, e) ==
  /\ t \notin Pending
  /\ deadline' = [u \in Pending \cup {t} |-> IF u = t THEN e ELSE deadline[u]]
  /\ called' = {}
  /\ UNCHANGED <<now, stepped>>

Postpone(t, e) ==
  /\ t \in Pending
  /\ deadline' = [deadline EXCEPT ![t] = e]
  /\ called' = {}
  /\ UNCHANGED <<now, stepped>>

Cancel(S) ==
  /\ S \subseteq Pending
  /\ deadline' = Restrict(deadline, Pending \ S)
  /\ called' = {}
  /\ UNCHANGED <<now, stepped>>

Tick ==
  /\ LET due == {t \in Pending : deadline[t] <= now}
     IN  called' \subseteq due /\ (called' = due \/ stepped)
  /\ deadline' = Restrict(deadline, Pending \ called')
  /\ UNCHANGED <<now, stepped>>

Clock ==
  /\ now' \in Times
  /\ stepped' = (stepped \/ now' < now)
  /\ called' = {}
  /\ UNCHANGED deadline

Next ==
  \/ \E t \in Timers, e \in Times : Add(t, e) \/ Postpone(t, e)
  \/ \E S \in SUBSET Timers : Cancel(S)
  \/ Tick
  \/ Clock

Spec == Init /\ [][Next]_vars

=============================================================================
