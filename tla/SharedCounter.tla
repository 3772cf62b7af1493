--------------------------- MODULE SharedCounter ----------------------------
(***************************************************************************)
(* Three programs in which two threads change one variable by reading it   *)
(* and writing it back:                                                    *)
(*   "sem"     sem/unamed_sem_test.c: global++, loop times each, between   *)
(*             sem_wait and sem_post of a semaphore that starts at 1;      *)
(*   "rwlock"  pthread/pthread_rwlock.c: a++ in the new thread, a-- in     *)
(*             main, each under the lock in a mode of its own (the program *)
(*             takes two read locks, its comment discusses write locks);   *)
(*   "none"    pthread/pthread_end_test.c: num++ twice without a lock.     *)
(*                                                                         *)
(* Operators named Operation_Slip are mistakes that show what the          *)
(* properties notice.                                                      *)
(***************************************************************************)
EXTENDS Integers

CONSTANT loop   \* 1000 in unamed_sem_test.c

ASSUME LoopAssumption == loop \in Nat \ {0}

Thread == 1 .. 2

VARIABLES
  lock,      \* "sem", "rwlock" or "none": which program runs
  mode,      \* how each thread takes the lock: "rd", "wr" or "none"
  total,     \* global, a or num
  loc,       \* what a thread has read and not yet written back
  done,      \* rounds a thread has completed
  thread     \* where each thread is: "new", "enter", "read", "write", "leave",
             \* "end"; in the program "sem" also "exit", when a creation failed

counterVars == <<lock, mode, total, loc, done, thread>>

Start == IF lock = "sem" THEN 0 ELSE 1
Delta(t) == IF lock = "rwlock" /\ t = 2 THEN -1 ELSE 1
Rounds == IF lock = "sem" THEN loop ELSE 1

CounterInit ==
  /\ \/ lock = "sem" /\ mode = [t \in Thread |-> "wr"]
     \/ lock = "rwlock" /\ mode \in [Thread -> {"rd", "wr"}]
     \/ lock = "none" /\ mode = [t \in Thread |-> "none"]
  /\ total = Start
  /\ loc = [t \in Thread |-> 0]
  /\ done = [t \in Thread |-> 0]
  /\ thread = [t \in Thread |-> "new"]

\* main creates the threads in turn; in pthread_rwlock.c the second is main
\* itself.  When a creation fails unamed_sem_test.c exits; what the others do is
\* not defined, since they join a thread that does not exist.
Create(t) ==
  /\ thread[t] = "new" /\ \A s \in Thread : s < t => thread[s] # "new"
  /\ thread' = [thread EXCEPT ![t] = "enter"]
  /\ UNCHANGED <<lock, mode, total, loc, done>>

CreateFails ==
  /\ lock = "sem"
  /\ \E t \in Thread : thread[t] = "new"
  /\ thread' = [t \in Thread |-> "exit"]
  /\ UNCHANGED <<lock, mode, total, loc, done>>

Inside(t) == thread[t] \in {"read", "write", "leave"}

\* Whether thread t may take the lock.  A semaphore that starts at 1 admits one;
\* so does the lock when it is taken or held for writing.
Admits_TwoTokens(t) ==
  \A s \in Thread \ {t} : Inside(s) => lock = "sem" \/ "wr" \notin {mode[s], mode[t]}
Admits(t) ==
  \A s \in Thread \ {t} : Inside(s) => "wr" \notin {mode[s], mode[t]}

Enter(t) ==
  /\ thread[t] = "enter" /\ Admits(t)
  /\ thread' = [thread EXCEPT ![t] = "read"]
  /\ UNCHANGED <<lock, mode, total, loc, done>>

Read(t) ==
  /\ thread[t] = "read"
  /\ loc' = [loc EXCEPT ![t] = total]
  /\ thread' = [thread EXCEPT ![t] = "write"]
  /\ UNCHANGED <<lock, mode, total, done>>

Write(t) ==
  /\ thread[t] = "write"
  /\ total' = loc[t] + Delta(t)
  /\ loc' = [loc EXCEPT ![t] = 0]
  /\ thread' = [thread EXCEPT ![t] = "leave"]
  /\ UNCHANGED <<lock, mode, done>>

Unlock(t) ==
  /\ thread[t] = "leave"
  /\ done' = [done EXCEPT ![t] = @ + 1]
  /\ thread' = [thread EXCEPT ![t] = IF done[t] + 1 < Rounds THEN "enter" ELSE "end"]
  /\ UNCHANGED <<lock, mode, total, loc>>

CounterNext ==
  \/ \E t \in Thread : Create(t) \/ Enter(t) \/ Read(t) \/ Write(t) \/ Unlock(t)
  \/ CreateFails

CounterSpec == CounterInit /\ [][CounterNext]_counterVars

-----------------------------------------------------------------------------

\* What main prints after the joins.  Under the semaphore, and under the lock as
\* soon as one thread takes it for writing (pthread_rwlock.c:6), no change is
\* lost; with two read locks or none (pthread_end_test.c:33 states 3) one of the
\* two may be, but never both.
FinalValue ==
  (\A t \in Thread : thread[t] = "end") =>
    IF \E t \in Thread : mode[t] = "wr"
    THEN total = Start + Rounds * Delta(1) + Rounds * Delta(2)
    ELSE total - Start \in {Delta(1), Delta(2), Delta(1) + Delta(2)}

=============================================================================
