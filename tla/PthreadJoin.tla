----------------------------- MODULE PthreadJoin -----------------------------
(***************************************************************************)
(* pthread/pthread_test.c: main creates a thread per command line argument *)
(* and joins every thread as soon as it has terminated, in whatever order  *)
(* they do.  A terminating thread marks itself under the mutex pmt and     *)
(* then signals the condition variable pct; main waits on pct while no     *)
(* terminated thread is left to join.                                      *)
(*                                                                         *)
(* Every access to shared data, and every call to the thread library, is a *)
(* step of its own, so that nothing but the mutex keeps them apart.  The   *)
(* calls on pmt and pct never fail here, as on statically initialised      *)
(* objects used by their owners; pthread_create may.  Operators named      *)
(* Operation_Slip are not part of the code: they are mistakes that show    *)
(* what the properties notice.                                             *)
(***************************************************************************)
EXTENDS Integers, FiniteSets

\* JoinAssumption of MCProcesses says what these may be.
CONSTANTS NumThreads,   \* argc - 1
          CreateFails,  \* whether pthread_create may fail
          MaxSpurious   \* bound: spurious wakeups of pthread_cond_wait

Threads == 0 .. (NumThreads - 1)

\* The owner of a free mutex, and main as an owner.
Nobody == -1
Main   == -2

VARIABLES
  pmt,       \* the owner of the mutex
  numlive, numunjoin,
  state,     \* thread[idx].state
  tpc,       \* where every thread is
  pc,        \* where main is
  idx,       \* main's loop variable
  spurious   \* spurious wakeups so far

vars == <<pmt, numlive, numunjoin, state, tpc, pc, idx, spurious>>

Init ==
  /\ pmt = Nobody
  /\ numlive = 0
  /\ numunjoin = 0
  /\ state = [t \in Threads |-> "ALIVE"]
  /\ tpc = [t \in Threads |-> "new"]
  /\ pc = "create"
  /\ idx = 0
  /\ spurious = 0

-----------------------------------------------------------------------------
(* threadfun.  "new" is before pthread_create and "failed" after it failed. *)

Goto(t, from, to) == tpc[t] = from /\ tpc' = [tpc EXCEPT ![t] = to]

Lock_Skipped(t) ==
  /\ Goto(t, "sleep", "count")
  /\ UNCHANGED <<pmt, numlive, numunjoin, state, pc, idx, spurious>>

\* sleep is over, pthread_mutex_lock returns.
Lock(t) ==
  /\ Goto(t, "sleep", "count")
  /\ pmt = Nobody
  /\ pmt' = t
  /\ UNCHANGED <<numlive, numunjoin, state, pc, idx, spurious>>

Count(t) ==
  /\ Goto(t, "count", "mark")
  /\ numunjoin' = numunjoin + 1
  /\ UNCHANGED <<pmt, numlive, state, pc, idx, spurious>>

Mark(t) ==
  /\ Goto(t, "mark", "unlock")
  /\ state' = [state EXCEPT ![t] = "TERMINATED"]
  /\ UNCHANGED <<pmt, numlive, numunjoin, pc, idx, spurious>>

Unlock(t) ==
  /\ Goto(t, "unlock", "signal")
  /\ pmt' = Nobody
  /\ UNCHANGED <<numlive, numunjoin, state, pc, idx, spurious>>

\* pthread_cond_signal wakes main up if main is waiting, and is lost otherwise.
Signal_Skipped(t) ==
  /\ Goto(t, "signal", "done")
  /\ UNCHANGED <<pmt, numlive, numunjoin, state, pc, idx, spurious>>

Signal(t) ==
  /\ Goto(t, "signal", "done")
  /\ pc' = IF pc = "blocked" THEN "relock" ELSE pc
  /\ UNCHANGED <<pmt, numlive, numunjoin, state, idx, spurious>>

Thread(t) == Lock(t) \/ Count(t) \/ Mark(t) \/ Unlock(t) \/ Signal(t)

-----------------------------------------------------------------------------
(* main *)

\* One round of the creation loop.  A failure is reported and otherwise ignored.
Create ==
  /\ pc = "create" /\ idx < NumThreads
  /\ \E s \in {"sleep"} \cup (IF CreateFails THEN {"failed"} ELSE {}) :
       tpc' = [tpc EXCEPT ![idx] = s]
  /\ idx' = idx + 1
  /\ UNCHANGED <<pmt, numlive, numunjoin, state, pc, spurious>>

Created ==
  /\ pc = "create" /\ idx = NumThreads
  /\ numlive' = NumThreads
  /\ pc' = "while"
  /\ UNCHANGED <<pmt, numunjoin, state, tpc, idx, spurious>>

\* while(numlive > 0): pthread_mutex_lock, or return.
WhileLive ==
  /\ pc = "while" /\ numlive > 0
  /\ pmt = Nobody
  /\ pmt' = Main
  /\ pc' = "test"
  /\ UNCHANGED <<numlive, numunjoin, state, tpc, idx, spurious>>

Return_Early ==
  /\ pc = "while" /\ numlive <= 1
  /\ pc' = "exit"
  /\ UNCHANGED <<pmt, numlive, numunjoin, state, tpc, idx, spurious>>

Return ==
  /\ pc = "while" /\ numlive <= 0
  /\ pc' = "exit"
  /\ UNCHANGED <<pmt, numlive, numunjoin, state, tpc, idx, spurious>>

\* pthread_cond_wait releases the mutex and blocks in one step.
CondWait ==
  /\ pc = "test" /\ numunjoin = 0
  /\ pmt' = Nobody
  /\ pc' = "blocked"
  /\ UNCHANGED <<numlive, numunjoin, state, tpc, idx, spurious>>

SpuriousWakeup ==
  /\ pc = "blocked"
  /\ spurious < MaxSpurious
  /\ spurious' = spurious + 1
  /\ pc' = "relock"
  /\ UNCHANGED <<pmt, numlive, numunjoin, state, tpc, idx>>

Relock ==
  /\ pc = "relock"
  /\ pmt = Nobody
  /\ pmt' = Main
  /\ pc' = "test"
  /\ UNCHANGED <<numlive, numunjoin, state, tpc, idx, spurious>>

StartScan ==
  /\ pc = "test" /\ numunjoin # 0
  /\ pc' = "scan"
  /\ idx' = 0
  /\ UNCHANGED <<pmt, numlive, numunjoin, state, tpc, spurious>>

Skip ==
  /\ pc = "scan" /\ idx < NumThreads
  /\ state[idx] # "TERMINATED"
  /\ idx' = idx + 1
  /\ UNCHANGED <<pmt, numlive, numunjoin, state, tpc, pc, spurious>>

\* pthread_join returns once the thread has returned; main holds the mutex.
Join_KeepCount ==
  /\ pc = "scan" /\ idx < NumThreads
  /\ state[idx] = "TERMINATED"
  /\ tpc[idx] = "done"
  /\ state' = [state EXCEPT ![idx] = "JOINED"]
  /\ numlive' = numlive - 1
  /\ idx' = idx + 1
  /\ UNCHANGED <<pmt, numunjoin, tpc, pc, spurious>>

Join ==
  /\ pc = "scan" /\ idx < NumThreads
  /\ state[idx] = "TERMINATED"
  /\ tpc[idx] = "done"
  /\ state' = [state EXCEPT ![idx] = "JOINED"]
  /\ numlive' = numlive - 1
  /\ numunjoin' = numunjoin - 1
  /\ idx' = idx + 1
  /\ UNCHANGED <<pmt, tpc, pc, spurious>>

EndScan ==
  /\ pc = "scan" /\ idx = NumThreads
  /\ pmt' = Nobody
  /\ pc' = "while"
  /\ UNCHANGED <<numlive, numunjoin, state, tpc, idx, spurious>>

MainStep ==
  \/ Create \/ Created \/ WhileLive \/ Return
  \/ CondWait \/ Relock
  \/ StartScan \/ Skip \/ Join \/ EndScan

Next == (\E t \in Threads : Thread(t)) \/ MainStep \/ SpuriousWakeup

Spec == Init /\ [][Next]_vars

-----------------------------------------------------------------------------

ThreadPlaces == {"new", "failed", "sleep", "count", "mark", "unlock", "signal", "done"}
MainPlaces   == {"create", "while", "test", "blocked", "relock", "scan", "exit"}

TypeOK ==
  /\ pmt \in Threads \cup {Nobody, Main}
  /\ numlive \in Int /\ numunjoin \in Int
  /\ state \in [Threads -> {"ALIVE", "TERMINATED", "JOINED"}]
  /\ tpc \in [Threads -> ThreadPlaces]
  /\ pc \in MainPlaces
  /\ idx \in 0 .. NumThreads
  /\ spurious \in 0 .. MaxSpurious

Counted    == {t \in Threads : \/ tpc[t] = "mark"
                               \/ state[t] = "TERMINATED"}
NotJoined  == {t \in Threads : state[t] # "JOINED"}

\* The two counters, which decide whether main waits, scans or returns, stay in
\* step with the states of the threads in spite of threads terminating during
\* the scan and during the creation loop: no termination is counted twice, or
\* missed.
CountsMatch ==
  /\ numunjoin = Cardinality(Counted)
  /\ pc # "create" => numlive = Cardinality(NotJoined)

\* main calls pthread_join with the mutex locked; it cannot deadlock with the
\* thread it joins, which has its critical section behind it.
JoinNeedsNoMutex ==
  pc = "scan" => \A t \in Threads :
                   state[t] = "TERMINATED" => tpc[t] \in {"signal", "done"}

\* No wakeup is lost although the signal is sent after the mutex is released
\* (lines 33 to 36): while main is blocked and a thread waits to be joined, some
\* thread has still to send a signal.
NoLostWakeup ==
  pc = "blocked" /\ numunjoin > 0 =>
    \E t \in Threads : tpc[t] \in {"mark", "unlock", "signal"}

\* The two places where main could be stuck for good with work to do: the join
\* under the mutex, and the wait for a signal that has gone by.
NeverStuck == JoinNeedsNoMutex /\ NoLostWakeup

\* main returns, which would kill every other thread, only when all threads have
\* been joined; in particular all of them were created.
AllJoinedAtExit ==
  pc = "exit" => \A t \in Threads : state[t] = "JOINED" /\ tpc[t] = "done"

\* main returns in the end, unless a thread could not be created: main counts
\* that one in numlive and waits for it forever.
Termination == <>(pc = "exit" \/ \E t \in Threads : tpc[t] = "failed")

-----------------------------------------------------------------------------
(* What makes the properties inductive: who owns the mutex, and how the    *)
(* place of a thread determines its state.                                 *)

OwnsMutex(t) == tpc[t] \in {"count", "mark", "unlock"}

MutexOwner ==
  /\ \A t \in Threads : OwnsMutex(t) <=> pmt = t
  /\ pc \in {"test", "scan"} <=> pmt = Main

PlaceOfThread ==
  \A t \in Threads :
    /\ tpc[t] \in {"new", "failed", "sleep", "count", "mark"} => state[t] = "ALIVE"
    /\ tpc[t] = "unlock" => state[t] = "TERMINATED"
    /\ tpc[t] = "signal" => state[t] = "TERMINATED"
    /\ tpc[t] = "done" => state[t] \in {"TERMINATED", "JOINED"}
    /\ tpc[t] = "new" => pc = "create" /\ idx <= t
    /\ pc = "create" => state[t] # "JOINED" /\ (t >= idx => tpc[t] = "new")

IInv ==
  /\ TypeOK
  /\ MutexOwner
  /\ PlaceOfThread
  /\ CountsMatch
  /\ NoLostWakeup
  /\ AllJoinedAtExit

=============================================================================
