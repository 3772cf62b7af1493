--------------------------- MODULE ProcessesProof ---------------------------
(***************************************************************************)
(* Proofs about the small programs made of processes or threads: the echo  *)
(* server for every set of clients, every table of descriptors and every   *)
(* clilen within it; the pipe filter for every buffer and every pipe that  *)
(* takes two buffers; the threads that share a variable for any number of  *)
(* rounds; the message queue demo for any number of runs; the select       *)
(* client for any amount of typing.                                        *)
(***************************************************************************)
EXTENDS MCProcesses, FiniteSetTheorems, WellFoundedInduction, TLAPS

-----------------------------------------------------------------------------
(* The echo server. *)

USE EchoServerAssumption DEF ConnFds

\* The lowest of some descriptors exists: accept returns one of the free
\* descriptors, and none that is above another.
LEMMA MinFd ==
  ASSUME NEW S \in SUBSET ConnFds, S # {}
  PROVE  Min(S) \in S /\ \A f \in S : Min(S) <= f
<1>1. S \subseteq Nat
  OBVIOUS
<1>2. PICK m \in S : \A f \in S : <<f, m>> \notin OpToRel(<, Nat)
  BY <1>1, NatLessThanWellFounded, WFMin
<1>3. OpToRel(<, Nat) = {p \in Nat \X Nat : p[1] < p[2]}
  BY DEF OpToRel
<1>4. ASSUME NEW f \in S
      PROVE  m <= f
  <2>1. f \in Nat /\ m \in Nat
    BY <1>1
  <2>2. <<f, m>> \notin {p \in Nat \X Nat : p[1] < p[2]}
    BY <1>2, <1>3
  <2> QED BY <2>1, <2>2
<1> QED BY <1>4 DEF Min

LEMMA InitIInv == Init => IInv
<1> SUFFICES ASSUME Init PROVE IInv
  OBVIOUS
<1>1. TypeOK
  <2>1. parent \in [ConnFds -> Clients \cup {NULL}] /\ clifd \in ConnFds \cup {-1}
    BY DEF Init
  <2>2. child \in [Clients -> {"none", "failed", "serving", "zombie", "reaped"}]
    BY DEF Init
  <2>3. client \in [Clients -> {"out", "up", "gone"}]
    BY DEF Init
  <2>4. backlog \in Seq(Clients)
    BY DEF Init
  <2> QED BY <2>1, <2>2, <2>3, <2>4 DEF Init, TypeOK
<1>2. AtHand
  BY DEF Init, AtHand
<1>3. LeakBounded
  BY DEF Init, LeakBounded
<1>4. ZombiesHaveSignal
  BY DEF Init, ZombiesHaveSignal
<1> QED BY <1>1, <1>2, <1>3, <1>4 DEF IInv

\* What the environment does leaves the parent's descriptors alone.
LEMMA ConnectIInv ==
  ASSUME IInv, NEW c \in Clients, Connect(c)
  PROVE  IInv'
<1>1. TypeOK'
  BY DEF IInv, TypeOK, Connect
<1>2. AtHand' /\ LeakBounded' /\ ZombiesHaveSignal'
  BY DEF IInv, AtHand, LeakBounded, ZombiesHaveSignal, Connect
<1> QED BY <1>1, <1>2 DEF IInv

LEMMA LeaveIInv ==
  ASSUME IInv, NEW c \in Clients, Leave(c)
  PROVE  IInv'
<1>1. TypeOK'
  BY DEF IInv, TypeOK, Leave
<1>2. AtHand' /\ LeakBounded' /\ ZombiesHaveSignal'
  BY DEF IInv, AtHand, LeakBounded, ZombiesHaveSignal, Leave
<1> QED BY <1>1, <1>2 DEF IInv

\* A new zombie comes with its signal.
LEMMA ChildExitIInv ==
  ASSUME IInv, NEW c \in Clients, ChildExit(c)
  PROVE  IInv'
<1>1. TypeOK'
  BY DEF IInv, TypeOK, ChildExit
<1>2. AtHand' /\ LeakBounded'
  BY DEF IInv, AtHand, LeakBounded, ChildExit
<1>3. ZombiesHaveSignal'
  BY DEF ZombiesHaveSignal, ChildExit
<1> QED BY <1>1, <1>2, <1>3 DEF IInv

LEMMA AcceptIInv ==
  ASSUME IInv, Accept
  PROVE  IInv'
<1> DEFINE free == {f \in ConnFds : parent[f] = NULL}
<1>1. pc = "accept" /\ clifd = -1 /\ backlog # <<>>
  BY DEF IInv, AtHand, Accept
<1>2. clilen \in free
  BY <1>1 DEF IInv, LeakBounded
<1>3. clifd' \in free /\ clifd' <= clilen
  BY <1>2, MinFd DEF Accept
<1>4. Head(backlog) \in Clients /\ Tail(backlog) \in Seq(Clients)
  BY <1>1 DEF IInv, TypeOK
<1>5. parent' = [parent EXCEPT ![clifd'] = Head(backlog)]
  BY DEF Accept
<1>6. TypeOK'
  BY <1>3, <1>4, <1>5 DEF IInv, TypeOK, Accept
<1>7. AtHand'
  BY <1>3, <1>4, <1>5 DEF IInv, TypeOK, AtHand, Accept
<1>8. LeakBounded'
  <2>1. \A f \in ConnFds : parent'[f] # NULL => f < clilen \/ f = clifd'
    BY <1>1, <1>3, <1>5 DEF IInv, TypeOK, LeakBounded
  <2> QED BY <2>1 DEF LeakBounded, Accept
<1>9. ZombiesHaveSignal'
  BY DEF IInv, ZombiesHaveSignal, Accept
<1> QED BY <1>6, <1>7, <1>8, <1>9 DEF IInv

LEMMA ForkIInv ==
  ASSUME IInv, Fork
  PROVE  IInv'
<1>1. PICK s \in {"serving", "failed"} : child' = [child EXCEPT ![parent[clifd]] = s]
  BY DEF Fork
<1>2. TypeOK'
  BY <1>1 DEF IInv, TypeOK, Fork
<1>3. AtHand' /\ LeakBounded'
  BY DEF IInv, AtHand, LeakBounded, Fork
<1>4. ZombiesHaveSignal'
  BY <1>1 DEF IInv, TypeOK, ZombiesHaveSignal, Fork
<1> QED BY <1>2, <1>3, <1>4 DEF IInv

\* Number clilen is free afterwards, and it is the only one at or above clilen
\* that was in use.
LEMMA CloseClilenIInv ==
  ASSUME IInv, CloseClilen
  PROVE  IInv'
<1>1. parent' = [parent EXCEPT ![clilen] = NULL] /\ clifd' = -1 /\ pc' = "accept"
  BY DEF CloseClilen
<1>2. TypeOK'
  BY DEF IInv, TypeOK, CloseClilen
<1>3. AtHand'
  BY <1>1 DEF AtHand
<1>4. clifd # -1 /\ clifd <= clilen
  BY DEF IInv, AtHand, CloseClilen
<1>5. LeakBounded'
  <2>1. parent'[clilen] = NULL
    BY <1>1 DEF IInv, TypeOK
  <2>2. ASSUME NEW f \in ConnFds, parent'[f] # NULL
        PROVE  f < clilen
    <3>1. f # clilen /\ parent[f] # NULL
      BY <1>1, <2>1, <2>2 DEF IInv, TypeOK
    <3>2. f < clilen \/ f = clifd
      BY <3>1 DEF IInv, LeakBounded
    <3> QED BY <1>4, <3>1, <3>2 DEF IInv, TypeOK
  <2> QED BY <2>1, <2>2 DEF LeakBounded
<1>6. ZombiesHaveSignal'
  BY DEF IInv, ZombiesHaveSignal, CloseClilen
<1> QED BY <1>2, <1>3, <1>5, <1>6 DEF IInv

\* The signal is forgotten when the handler starts, and the handler returns only
\* when it has found no zombie: a child that terminates in between signals again.
LEMMA HandlerIInv ==
  ASSUME IInv, SigChld \/ Reap \/ HandlerReturns
  PROVE  IInv'
<1>1. TypeOK'
  BY DEF IInv, TypeOK, SigChld, Reap, HandlerReturns
<1>2. AtHand' /\ LeakBounded'
  BY DEF IInv, AtHand, LeakBounded, SigChld, Reap, HandlerReturns
<1>3. ZombiesHaveSignal'
  <2>1. CASE SigChld
    BY <2>1 DEF ZombiesHaveSignal, SigChld
  <2>2. CASE Reap
    BY <2>2 DEF ZombiesHaveSignal, Reap
  <2>3. CASE HandlerReturns
    BY <2>3 DEF ZombiesHaveSignal, HandlerReturns
  <2> QED BY <2>1, <2>2, <2>3
<1> QED BY <1>1, <1>2, <1>3 DEF IInv

LEMMA StutterIInv ==
  ASSUME IInv, UNCHANGED vars
  PROVE  IInv'
BY DEF vars, IInv, TypeOK, AtHand, LeakBounded, ZombiesHaveSignal

LEMMA NextIInv == IInv /\ [Next]_vars => IInv'
<1> SUFFICES ASSUME IInv, [Next]_vars PROVE IInv'
  OBVIOUS
<1>1. ASSUME NEW c \in Clients, Connect(c) \/ Leave(c) \/ ChildExit(c)
      PROVE  IInv'
  BY <1>1, ConnectIInv, LeaveIInv, ChildExitIInv
<1>2. CASE Parent
  BY <1>2, AcceptIInv, ForkIInv, CloseClilenIInv, HandlerIInv DEF Parent
<1>3. CASE UNCHANGED vars
  BY <1>3, StutterIInv
<1> QED BY <1>1, <1>2, <1>3 DEF Next

LEMMA Invariance == Spec => []IInv
BY InitIInv, NextIInv, PTL DEF Spec

\* The parent's, the children's and the kernel's variables keep their types.
THEOREM EchoTypeCorrect == Spec => []TypeOK
<1>1. IInv => TypeOK
  BY DEF IInv
<1> QED BY <1>1, Invariance, PTL

\* my_echo_ser.c:69 closes the wrong descriptor, but the connections the parent
\* leaks stay below that descriptor and it always has one left for accept,
\* whatever the number of clients and the size of the descriptor table.
THEOREM LeakStaysBounded == Spec => []LeakBounded
<1>1. IInv => LeakBounded
  BY DEF IInv
<1> QED BY <1>1, Invariance, PTL

\* No terminated child is overlooked by sig_chld, although signals do not queue
\* and children may terminate at any point of a handler that is running.
THEOREM ZombiesAreAnnounced == Spec => []ZombiesHaveSignal
<1>1. IInv => ZombiesHaveSignal
  BY DEF IInv
<1> QED BY <1>1, Invariance, PTL

HIDE EchoServerAssumption DEF ConnFds

-----------------------------------------------------------------------------
(* The pipe filter. *)

\* The initial state, with nothing in the pipes, satisfies the invariant.
LEMMA PipeInitInv == PipeInit => PipeIInv
<1> SUFFICES ASSUME PipeInit PROVE PipeIInv
  OBVIOUS
<1> USE PipeUpperAssumption DEF PipeInit
<1>1. PipeTypeOK
  <2>1. failed \in BOOLEAN
    BY Zenon
  <2> QED
    BY <2>1 DEF PipeTypeOK
<1>2. OnTheWay = 0
  BY DEF OnTheWay
<1> QED
  BY <1>1, <1>2 DEF PipeIInv

\* A write moves at least one byte, and none that the pipe has no room for.
LEMMA WritableRange ==
  ASSUME NEW n \in Nat, NEW held \in 0 .. Capacity, NEW k \in Writable(n, held)
  PROVE  k \in 1 .. n /\ held + k <= Capacity
BY PipeUpperAssumption DEF Writable

\* A write that cannot proceed finds more in the pipe than fits beside it.
LEMMA NotWritable ==
  ASSUME NEW n \in Nat \ {0}, NEW held \in 0 .. Capacity, Writable(n, held) = {}
  PROVE  held + n > Capacity
BY PipeUpperAssumption DEF Writable

\* A read takes all there is, or a full buffer.
LEMMA TakenRange ==
  ASSUME NEW held \in Nat
  PROVE  /\ Taken(held) \in 0 .. BUFSIZE
         /\ Taken(held) <= held
         /\ Taken(held) = held \/ Taken(held) = BUFSIZE
         /\ held > 0 => Taken(held) > 0
BY PipeUpperAssumption DEF Taken

LEMMA PipeStepInv == PipeIInv /\ [PipeNext]_pipeVars => PipeIInv'
<1> SUFFICES ASSUME PipeIInv, [PipeNext]_pipeVars PROVE PipeIInv'
  OBVIOUS
<1> USE PipeUpperAssumption DEF PipeIInv, PipeTypeOK, OnTheWay
<1>1. CASE ForkChild
  BY <1>1 DEF ForkChild
<1>2. CASE ReadStdin
  BY <1>2 DEF ReadStdin
<1>3. CASE StdinEnds
  BY <1>3 DEF StdinEnds
<1>4. CASE StdinFails
  BY <1>4 DEF StdinFails
<1>5. CASE WritePipe1
  <2>1. PICK k \in Writable(sz, pipe1) : sz' = sz - k /\ pipe1' = pipe1 + k
    BY <1>5 DEF WritePipe1
  <2>2. k \in 1 .. sz /\ pipe1 + k <= Capacity
    BY <2>1, WritableRange
  <2> QED
    BY <1>5, <2>1, <2>2 DEF WritePipe1
<1>6. CASE ParentSigpipe
  BY <1>6 DEF ParentSigpipe
<1>7. CASE ReadPipe2
  <2>1. /\ Taken(pipe2) \in 0 .. BUFSIZE
        /\ Taken(pipe2) <= pipe2
        /\ Taken(pipe2) = pipe2 \/ Taken(pipe2) = BUFSIZE
    BY TakenRange
  <2> QED
    BY <1>7, <2>1 DEF ReadPipe2
<1>8. CASE ChildRead
  <2>1. Taken(pipe1) \in 1 .. BUFSIZE /\ Taken(pipe1) <= pipe1
    BY <1>8, TakenRange DEF ChildRead
  <2> QED
    BY <1>8, <2>1 DEF ChildRead
<1>9. CASE ChildWrite
  <2>1. PICK k \in Writable(hand, pipe2) : hand' = hand - k /\ pipe2' = pipe2 + k
    BY <1>9 DEF ChildWrite
  <2>2. k \in 1 .. hand /\ pipe2 + k <= Capacity
    BY <2>1, WritableRange
  <2> QED
    BY <1>9, <2>1, <2>2 DEF ChildWrite
<1>10. CASE ChildEnd
  BY <1>10 DEF ChildEnd
<1>11. CASE ChildKilled
  BY <1>11 DEF ChildKilled
<1>12. CASE UNCHANGED pipeVars
  BY <1>12 DEF pipeVars
<1> QED
  BY <1>1, <1>2, <1>3, <1>4, <1>5, <1>6, <1>7, <1>8, <1>9, <1>10, <1>11, <1>12
  DEF PipeNext, ParentStep, ChildStep

\* While nothing has failed, a parent that waits on pipe2 has something on its
\* way to it, and a parent and a child that both cannot write would hold more
\* than there ever is.
LEMMA InvNoWait == PipeIInv => NeverBothWait
<1> SUFFICES ASSUME PipeIInv, ~failed, ParentBlocked, ChildBlocked PROVE FALSE
  BY DEF NeverBothWait
<1> USE PipeUpperAssumption DEF PipeIInv, PipeTypeOK, OnTheWay
<1>1. CASE parentAt = "pipe2" /\ childAt = "pipe1"
  BY <1>1 DEF ParentBlocked, ChildBlocked
<1>2. CASE parentAt = "pipe2" /\ childAt = "pipe2"
  <2>1. pipe2 = 0 /\ Writable(hand, pipe2) = {} /\ hand \in Nat \ {0}
    BY <1>2 DEF ParentBlocked, ChildBlocked
  <2>2. pipe2 + hand > Capacity
    BY <2>1, NotWritable
  <2> QED
    BY <2>1, <2>2
<1>3. CASE parentAt = "pipe1" /\ childAt = "pipe1"
  <2>1. pipe1 = 0 /\ Writable(sz, pipe1) = {} /\ sz \in Nat \ {0}
    BY <1>3 DEF ParentBlocked, ChildBlocked
  <2>2. pipe1 + sz > Capacity
    BY <2>1, NotWritable
  <2> QED
    BY <2>1, <2>2
<1>4. CASE parentAt = "pipe1" /\ childAt = "pipe2"
  <2>1. /\ Writable(sz, pipe1) = {} /\ sz \in Nat \ {0}
        /\ Writable(hand, pipe2) = {} /\ hand \in Nat \ {0}
    BY <1>4 DEF ParentBlocked, ChildBlocked
  <2>2. pipe1 + sz > Capacity /\ pipe2 + hand > Capacity
    BY <2>1, NotWritable
  <2> QED
    BY <2>2
<1> QED
  BY <1>1, <1>2, <1>3, <1>4 DEF ParentBlocked, ChildBlocked

LEMMA InvLag == PipeIInv => LagBounded
BY PipeUpperAssumption DEF PipeIInv, PipeTypeOK, LagBounded, OnTheWay

-----------------------------------------------------------------------------

\* The inductive invariant of the filter: where the bytes are that were typed and not
\* printed (parent_child_communicate.c:37 to 72).
THEOREM PipeInvariance == PipeSpec => []PipeIInv
<1>1. PipeInit => PipeIInv
  BY PipeInitInv
<1>2. PipeIInv /\ [PipeNext]_pipeVars => PipeIInv'
  BY PipeStepInv
<1> QED
  BY <1>1, <1>2, PTL DEF PipeSpec

\* Neither process ever waits on a pipe for the other while the other waits for
\* it (parent_child_communicate.c:41 and 61), for every BUFSIZE and every
\* Capacity of at least two buffers: 10000 and 65536 in the program on Linux.
THEOREM NoMutualWait == PipeSpec => []NeverBothWait
BY PipeInvariance, InvNoWait, PTL

\* Short reads (parent_child_communicate.c:64) never make the output lag behind by
\* more than a pipe and a buffer.
THEOREM LagStaysBounded == PipeSpec => []LagBounded
BY PipeInvariance, InvLag, PTL

-----------------------------------------------------------------------------
(* Two threads and a shared variable. *)

USE LoopAssumption

Exclusive == \E t \in Thread : mode[t] = "wr"

Other(t) == 3 - t

\* The type of the state as long as no creation has failed.
CounterTypeOK ==
  /\ lock \in {"sem", "rwlock", "none"}
  /\ mode \in [Thread -> {"rd", "wr", "none"}]
  /\ lock = "sem" => mode[1] = "wr"
  /\ total \in Int
  /\ loc \in [Thread -> Int]
  /\ done \in [Thread -> Nat]
  /\ thread \in [Thread -> {"new", "enter", "read", "write", "leave", "end"}]

\* How often a thread has changed the variable, round by round.
Changes(t) == done[t] + (IF thread[t] = "leave" THEN 1 ELSE 0)

Progress ==
  \A t \in Thread : IF thread[t] = "end" THEN done[t] = Rounds ELSE done[t] < Rounds

\* With a writer the threads take turns, so that what one has read is still the
\* value when it writes, and every change counts.
TurnsTaken ==
  Exclusive =>
    /\ \A t \in Thread : Inside(t) => ~Inside(Other(t))
    /\ \A t \in Thread : thread[t] = "write" => loc[t] = total
    /\ total = Start + Changes(1) + Delta(2) * Changes(2)

\* Without one there is a single round, and a thread has read the start value or
\* what the other has made of it.
Written(t) == thread[t] \in {"leave", "end"}

Overlapping ==
  ~Exclusive =>
    /\ \A t \in Thread : thread[t] = "write" =>
         loc[t] = Start \/ (Written(Other(t)) /\ loc[t] = Start + Delta(Other(t)))
    /\ ~Written(1) /\ ~Written(2) => total = Start
    /\ Written(1) /\ ~Written(2) => total = Start + Delta(1)
    /\ ~Written(1) /\ Written(2) => total = Start + Delta(2)
    /\ Written(1) /\ Written(2) => total - Start \in {Delta(1), Delta(2), Delta(1) + Delta(2)}

\* A creation that fails ends both threads for good.
Stopped == \A t \in Thread : thread[t] = "exit"

Running == CounterTypeOK /\ Progress /\ TurnsTaken /\ Overlapping

CounterIInv == Stopped \/ Running

\* Before a thread exists nothing has been changed.
LEMMA CounterInitInv ==
  ASSUME CounterInit
  PROVE  CounterIInv
<1>1. CounterTypeOK
  BY DEF CounterInit, CounterTypeOK, Start, Thread
<1>2. \A t \in Thread : thread[t] = "new" /\ done[t] = 0 /\ Changes(t) = 0
  BY DEF CounterInit, Changes
<1>3. Rounds \in Nat /\ Rounds > 0 /\ Start \in Int /\ total = Start
  BY DEF CounterInit, Rounds, Start
<1>4. Progress
  BY <1>2, <1>3 DEF Progress
<1>5. TurnsTaken
  <2>1. 1 \in Thread /\ 2 \in Thread /\ Delta(2) \in {1, -1}
    BY DEF Thread, Delta
  <2>2. total = Start + Changes(1) + Delta(2) * Changes(2)
    BY <1>2, <1>3, <2>1
  <2> QED BY <1>2, <2>2 DEF TurnsTaken, Inside
<1>6. Overlapping
  BY <1>2, <1>3 DEF Overlapping, Written, Thread
<1> QED BY <1>1, <1>4, <1>5, <1>6 DEF CounterIInv, Running

\* One step per action; each of the four parts is shown for itself.
LEMMA RunningStep ==
  ASSUME Running, [CounterNext]_counterVars
  PROVE  CounterIInv'
<1> USE DEF Running
<1>1. ASSUME NEW t \in Thread, Create(t) PROVE Running'
  <2>1. CounterTypeOK'
    BY <1>1 DEF Create, CounterTypeOK
  <2>2. Progress'
    BY <1>1 DEF Create, CounterTypeOK, Progress, Rounds
  <2>3. TurnsTaken'
    BY <1>1 DEF Create, CounterTypeOK, TurnsTaken, Changes, Inside, Exclusive, Other, Start, Delta, Thread
  <2>4. Overlapping'
    BY <1>1 DEF Create, CounterTypeOK, Overlapping, Written, Exclusive, Other, Start, Delta, Thread
  <2> QED BY <2>1, <2>2, <2>3, <2>4
<1>2. CASE CreateFails
  BY <1>2 DEF CreateFails, CounterIInv, Stopped
<1>3. ASSUME NEW t \in Thread, Enter(t) PROVE Running'
  <2>1. CounterTypeOK'
    BY <1>3 DEF Enter, CounterTypeOK
  <2>2. Progress'
    BY <1>3 DEF Enter, CounterTypeOK, Progress, Rounds
  <2>3. TurnsTaken'
    BY <1>3 DEF Enter, Admits, CounterTypeOK, TurnsTaken, Changes, Inside, Exclusive, Other, Start, Delta, Thread
  <2>4. Overlapping'
    BY <1>3 DEF Enter, CounterTypeOK, Overlapping, Written, Exclusive, Other, Start, Delta, Thread
  <2> QED BY <2>1, <2>2, <2>3, <2>4
<1>4. ASSUME NEW t \in Thread, Read(t) PROVE Running'
  <2>1. CounterTypeOK'
    BY <1>4 DEF Read, CounterTypeOK
  <2>2. Progress'
    BY <1>4 DEF Read, CounterTypeOK, Progress, Rounds
  <2>3. TurnsTaken'
    BY <1>4 DEF Read, CounterTypeOK, TurnsTaken, Changes, Inside, Exclusive, Other, Start, Delta, Thread
  <2>4. Overlapping'
    BY <1>4 DEF Read, CounterTypeOK, Overlapping, Written, Exclusive, Other, Start, Delta, Thread
  <2> QED BY <2>1, <2>2, <2>3, <2>4
<1>5. ASSUME NEW t \in Thread, Write(t) PROVE Running'
  <2>1. CounterTypeOK'
    BY <1>5 DEF Write, CounterTypeOK, Delta
  <2>2. Progress'
    BY <1>5 DEF Write, CounterTypeOK, Progress, Rounds
  <2>3. TurnsTaken'
    BY <1>5 DEF Write, CounterTypeOK, TurnsTaken, Changes, Inside, Exclusive, Other, Start, Delta, Thread
  <2>4. Overlapping'
    BY <1>5 DEF Write, CounterTypeOK, Overlapping, Written, Exclusive, Other, Start, Delta, Thread
  <2> QED BY <2>1, <2>2, <2>3, <2>4
<1>6. ASSUME NEW t \in Thread, Unlock(t) PROVE Running'
  <2>1. CounterTypeOK'
    BY <1>6 DEF Unlock, CounterTypeOK
  <2>2. Progress'
    BY <1>6 DEF Unlock, CounterTypeOK, Progress, Rounds
  <2>3. TurnsTaken'
    BY <1>6 DEF Unlock, CounterTypeOK, TurnsTaken, Changes, Inside, Exclusive, Other, Start, Delta, Thread
  <2>4. Overlapping'
    BY <1>6 DEF Unlock, CounterTypeOK, Progress, Overlapping, Written, Exclusive, Other, Start, Delta, Thread, Rounds
  <2> QED BY <2>1, <2>2, <2>3, <2>4
<1>7. ASSUME UNCHANGED counterVars PROVE Running'
  <2>1. CounterTypeOK' /\ Progress'
    BY <1>7 DEF counterVars, CounterTypeOK, Progress, Rounds
  <2>2. TurnsTaken'
    BY <1>7 DEF counterVars, TurnsTaken, Changes, Inside, Exclusive, Start, Delta
  <2>3. Overlapping'
    BY <1>7 DEF counterVars, Overlapping, Written, Exclusive, Start, Delta
  <2> QED BY <2>1, <2>2, <2>3
<1> QED BY <1>1, <1>2, <1>3, <1>4, <1>5, <1>6, <1>7 DEF CounterNext, CounterIInv

\* After a failed creation no thread takes a step.
LEMMA CounterStepInv ==
  ASSUME CounterIInv, [CounterNext]_counterVars
  PROVE  CounterIInv'
<1>1. CASE Stopped
  <2>1. ASSUME CounterNext PROVE FALSE
    BY <1>1, <2>1 DEF Stopped, CounterNext, Create, Enter, Read, Write, Unlock, CreateFails
  <2> QED BY <1>1, <2>1 DEF counterVars, Stopped, CounterIInv
<1>2. CASE Running
  BY <1>2, RunningStep
<1> QED BY <1>1, <1>2 DEF CounterIInv

\* When both threads have ended, every round has counted.
LEMMA CounterFinal ==
  ASSUME CounterIInv
  PROVE  FinalValue
<1> SUFFICES ASSUME \A t \in Thread : thread[t] = "end"
             PROVE  IF Exclusive THEN total = Start + Rounds * Delta(1) + Rounds * Delta(2)
                    ELSE total - Start \in {Delta(1), Delta(2), Delta(1) + Delta(2)}
  BY DEF FinalValue, Exclusive
<1>0. Running
  BY DEF CounterIInv, Stopped, Thread
<1>1. 1 \in Thread /\ 2 \in Thread /\ Delta(1) = 1 /\ Delta(2) \in {1, -1} /\ Rounds \in Nat
  BY DEF Thread, Delta, Rounds
<1>2. CASE Exclusive
  <2>1. Changes(1) = Rounds /\ Changes(2) = Rounds
    BY <1>0, <1>1 DEF Running, CounterTypeOK, Progress, Changes
  <2>2. total = Start + Rounds + Delta(2) * Rounds
    BY <1>0, <1>2, <2>1 DEF Running, TurnsTaken
  <2> QED BY <1>1, <1>2, <2>2 DEF Start
<1>3. CASE ~Exclusive
  BY <1>0, <1>1, <1>3 DEF Running, Overlapping, Written
<1> QED BY <1>2, <1>3

\* Whatever the number of rounds (unamed_sem_test.c:41 says 1000): after the joins
\* the variable has the value the locks promise.
THEOREM FinalValueHolds ==
  CounterSpec => []FinalValue
<1>1. CounterInit => CounterIInv
  BY CounterInitInv
<1>2. CounterIInv /\ [CounterNext]_counterVars => CounterIInv'
  BY CounterStepInv
<1>3. CounterIInv => FinalValue
  BY CounterFinal
<1> QED BY <1>1, <1>2, <1>3, PTL DEF CounterSpec

HIDE LoopAssumption

-----------------------------------------------------------------------------
(* The message queue demo. *)

Progresses ==
  /\ main \in [Runs -> {"new", "opened", "forked", "unlink", "done", "exit", "killed"}]
  /\ kid \in [Runs -> {"none", "begin", "ended", "exit", "killed"}]
  /\ object \in [Runs -> {0} \cup Runs]
  /\ queue \in [Runs -> SUBSET (Runs \X {1, 2, 3})]
  /\ got \in [Runs -> SUBSET (Runs \X {1, 2, 3})]
  /\ sent \in [Runs -> 0 .. 3]

\* A run works on the queue it has created itself, which the name stands for until
\* the parent ends.
OwnQueue(r) ==
  /\ Named!Active(r) => name = r
  /\ Named!Active(r) \/ kid[r] # "none" => object[r] = r
  /\ main[r] \in {"new", "opened"} => kid[r] = "none"
  /\ kid[r] = "none" => sent[r] = 0
  /\ kid[r] = "begin" => sent[r] < 3

OwnMessages ==
  \A r \in Runs : (\A m \in queue[r] : m[1] = r) /\ (\A m \in got[r] : m[1] = r)

QueueIInv == kind = "mq" => Progresses /\ (\A r \in Runs : OwnQueue(r)) /\ OwnMessages

\* mq_receive returns a message of the queue.
LEMMA FirstIs ==
  ASSUME NEW Q \in SUBSET (Runs \X {1, 2, 3}), Q # {}
  PROVE  Named!First(Q) \in Q
<1>1. \A m \in Q : m[2] \in {1, 2, 3}
  OBVIOUS
<1>2. \E m \in Q : \A n \in Q : m[2] >= n[2]
  <2>1. CASE \E m \in Q : m[2] = 3
    BY <1>1, <2>1
  <2>2. CASE ~(\E m \in Q : m[2] = 3) /\ \E m \in Q : m[2] = 2
    BY <1>1, <2>2
  <2>3. CASE ~(\E m \in Q : m[2] = 3) /\ ~(\E m \in Q : m[2] = 2)
    BY <1>1, <2>3
  <2> QED BY <2>1, <2>2, <2>3
<1> QED BY <1>2 DEF Named!First

LEMMA QueueInitInv == Named!NamedInit => QueueIInv
BY DEF Named!NamedInit, QueueIInv, Progresses, OwnQueue, OwnMessages, Named!Active

LEMMA QueueStepInv == QueueIInv /\ [Named!NamedNext]_(Named!vars) => QueueIInv'
<1> USE RunsAssumption
<1> SUFFICES ASSUME QueueIInv, kind = "mq", [Named!NamedNext]_(Named!vars)
             PROVE  Progresses' /\ (\A r \in Runs : OwnQueue(r)') /\ OwnMessages'
  <2>1. [Named!NamedNext]_(Named!vars) => kind' = kind
    BY DEF Named!NamedNext, Named!Step, Named!Open, Named!Fork, Named!Post, Named!Wait,
           Named!Receive, Named!Unlink, Named!Take, Named!Send, Named!KillMain,
           Named!KillChild, Named!vars
  <2> QED BY <2>1 DEF QueueIInv
<1>0. Progresses /\ (\A r \in Runs : OwnQueue(r)) /\ OwnMessages
  BY DEF QueueIInv
<1>a. \A r \in Runs : r # 0
  OBVIOUS
<1>1. ASSUME NEW r \in Runs, Named!Open(r)
      PROVE  Progresses' /\ (\A s \in Runs : OwnQueue(s)') /\ OwnMessages'
  <2>1. CASE name = 0
    <3>1. /\ name' = r /\ object' = [object EXCEPT ![r] = r] /\ main' = [main EXCEPT ![r] = "opened"]
          /\ UNCHANGED <<queue, kid, sent, got>> /\ main[r] = "new"
      BY <1>1, <2>1 DEF Named!Open, Named!To
    <3>2. \A s \in Runs : ~Named!Active(s)
      BY <1>0, <1>a, <2>1 DEF OwnQueue
    <3> QED BY <1>0, <3>1, <3>2 DEF Progresses, OwnQueue, OwnMessages, Named!Active
  <2>2. CASE name # 0
    <3>1. /\ main' = [main EXCEPT ![r] = "exit"] /\ main[r] = "new"
          /\ UNCHANGED <<name, object, queue, kid, sent, got>>
      BY <1>1, <2>2 DEF Named!Open, Named!To, Named!OpensExisting
    <3> QED BY <1>0, <3>1 DEF Progresses, OwnQueue, OwnMessages, Named!Active
  <2> QED BY <2>1, <2>2
<1>2. ASSUME NEW r \in Runs, Named!Fork(r)
      PROVE  Progresses' /\ (\A s \in Runs : OwnQueue(s)') /\ OwnMessages'
  <2>1. /\ main[r] = "opened" /\ UNCHANGED <<name, object, queue, sent, got>>
        /\ \/ main' = [main EXCEPT ![r] = "forked"] /\ kid' = [kid EXCEPT ![r] = "begin"]
           \/ main' = [main EXCEPT ![r] = "exit"] /\ kid' = kid
    BY <1>2 DEF Named!Fork, Named!To, Named!ChildTo, Named!objects
  <2> QED BY <1>0, <2>1 DEF Progresses, OwnQueue, OwnMessages, Named!Active
<1>3. ASSUME NEW r \in Runs, Named!Receive(r)
      PROVE  Progresses' /\ (\A s \in Runs : OwnQueue(s)') /\ OwnMessages'
  <2> DEFINE m == Named!First(queue[object[r]])
  <2>1. /\ main[r] = "forked" /\ queue[object[r]] # {} /\ UNCHANGED <<name, object, kid, sent>>
        /\ queue' = [queue EXCEPT ![object[r]] = @ \ {m}]
        /\ got' = [got EXCEPT ![r] = @ \cup {m}]
        /\ \E step \in {"unlink", "forked"} : main' = [main EXCEPT ![r] = step]
    BY <1>3 DEF Named!Receive, Named!To
  <2>2. object[r] = r /\ queue[r] \in SUBSET (Runs \X {1, 2, 3})
    BY <1>0, <2>1 DEF OwnQueue, Progresses, Named!Active
  <2>3. m \in queue[r]
    BY <2>1, <2>2, FirstIs
  <2> HIDE DEF m
  <2>4. Progresses'
    BY <1>0, <2>1, <2>2, <2>3 DEF Progresses
  <2>5. \A s \in Runs : OwnQueue(s)'
    BY <1>0, <2>1 DEF Progresses, OwnQueue, Named!Active
  <2>6. OwnMessages'
    BY <1>0, <2>1, <2>2, <2>3 DEF Progresses, OwnMessages
  <2> QED BY <2>4, <2>5, <2>6
<1>4. ASSUME NEW r \in Runs, Named!Unlink(r)
      PROVE  Progresses' /\ (\A s \in Runs : OwnQueue(s)') /\ OwnMessages'
  <2>1. /\ main[r] = "unlink" /\ name' = 0 /\ main' = [main EXCEPT ![r] = "done"]
        /\ UNCHANGED <<object, queue, kid, sent, got>>
    BY <1>4 DEF Named!Unlink, Named!To
  <2>2. \A s \in Runs : Named!Active(s) => s = r
    BY <1>0, <2>1 DEF OwnQueue, Named!Active
  <2> QED BY <1>0, <2>1, <2>2 DEF Progresses, OwnQueue, OwnMessages, Named!Active
<1>5. ASSUME NEW r \in Runs, Named!Send(r)
      PROVE  Progresses' /\ (\A s \in Runs : OwnQueue(s)') /\ OwnMessages'
  <2> DEFINE n == sent[r] + 1
             p == Named!Priority[n]
  <2>1. kid[r] = "begin" /\ object[r] = r /\ n \in 1 .. 3
    BY <1>0, <1>5 DEF Named!Send, OwnQueue, Progresses
  <2>2. p \in {1, 2, 3}
    BY <2>1 DEF Named!Priority
  <2>3. /\ sent' = [sent EXCEPT ![r] = n] /\ sent'[r] = n /\ UNCHANGED <<name, object, main, got>>
        /\ queue' = queue \/ queue' = [queue EXCEPT ![r] = @ \cup {<<r, p>>}]
        /\ \E step \in {"begin", "exit", "ended"} :
             kid' = [kid EXCEPT ![r] = step] /\ (step = "begin" => n # 3)
    <3>1. sent' = [sent EXCEPT ![r] = n] /\ sent'[r] = n /\ UNCHANGED <<name, object, main, got>>
      BY <1>0, <1>5 DEF Named!Send, Progresses
    <3>2. \/ /\ queue' = [queue EXCEPT ![r] = @ \cup {<<r, p>>}]
             /\ kid' = [kid EXCEPT ![r] = IF n = 3 THEN "ended" ELSE "begin"]
          \/ /\ queue' = queue
             /\ kid' = [kid EXCEPT ![r] = IF n = 1 THEN "exit" ELSE IF n = 3 THEN "ended" ELSE "begin"]
      BY <1>5, <2>1, <3>1 DEF Named!Send, Named!ChildTo
    <3> HIDE DEF n, p
    <3> QED BY <3>1, <3>2
  <2> HIDE DEF n, p
  <2>4. Progresses'
    BY <1>0, <2>1, <2>2, <2>3 DEF Progresses
  <2>5. \A s \in Runs : OwnQueue(s)'
    BY <1>0, <2>1, <2>3 DEF Progresses, OwnQueue, Named!Active
  <2>6. OwnMessages'
    BY <1>0, <2>2, <2>3 DEF Progresses, OwnMessages
  <2> QED BY <2>4, <2>5, <2>6
<1>6. ASSUME NEW r \in Runs, Named!KillMain(r) \/ Named!KillChild(r)
      PROVE  Progresses' /\ (\A s \in Runs : OwnQueue(s)') /\ OwnMessages'
  <2>1. /\ UNCHANGED <<name, object, queue, sent, got>>
        /\ \/ /\ main[r] # "new" /\ main' = [main EXCEPT ![r] = "killed"] /\ kid' = kid
           \/ kid[r] = "begin" /\ kid' = [kid EXCEPT ![r] = "killed"] /\ main' = main
    BY <1>6 DEF Named!KillMain, Named!KillChild, Named!To, Named!ChildTo, Named!objects
  <2> QED BY <1>0, <2>1 DEF Progresses, OwnQueue, OwnMessages, Named!Active
<1>7. ASSUME NEW r \in Runs, Named!Post(r) \/ Named!Wait(r) \/ Named!Take(r)
      PROVE  FALSE
  BY <1>0, <1>7 DEF Named!Post, Named!Wait, Named!Take, Progresses
<1>8. CASE UNCHANGED Named!vars
  BY <1>0, <1>8 DEF Named!vars, Progresses, OwnQueue, OwnMessages, Named!Active
<1> QED BY <1>1, <1>2, <1>3, <1>4, <1>5, <1>6, <1>7, <1>8 DEF Named!NamedNext, Named!Step

\* mq_test.c:12: with O_EXCL the name is a lock that runs which were killed leave
\* held, so that no run ever receives what another has sent.
THEOREM RunsAreExclusive == Named!NamedSpec => []QueueIsExclusive
<1>1. QueueIInv => QueueIsExclusive
  BY DEF QueueIInv, OwnQueue, OwnMessages, QueueIsExclusive, Named!QueueIsExclusive
<1> QED BY <1>1, QueueInitInv, QueueStepInv, PTL DEF Named!NamedSpec

-----------------------------------------------------------------------------
(* The select client. *)

\* Every line is typed, on its way or printed; a client that has read its end of
\* file has nothing left to send, and a server that ends as asked has echoed all.
LinesKept ==
  /\ typedLines \in Nat /\ keyed \in Nat /\ inflight \in Nat /\ inbox \in Nat /\ heard \in Nat
  /\ netclient \in {"select", "chat"}
  /\ netclient = "chat" => at # "returned"
  /\ netclient = "select" =>
       /\ ~closed /\ at # "recv"
       /\ typedLines = keyed + inflight + inbox + heard
       /\ "stdin" \in events => keyed > 0 \/ keyend
       /\ stdineof => keyend /\ keyed = 0
       /\ peer # "up" /\ ~crashed => stdineof /\ inflight = 0
       /\ at = "returned" => peer # "up" /\ stdineof /\ inbox = 0

LEMMA LinesInitInv == Net!ClientInit => LinesKept
BY DEF Net!ClientInit, LinesKept

LEMMA LinesStepInv == LinesKept /\ [Net!ClientNext]_(Net!clientVars) => LinesKept'
<1> SUFFICES ASSUME LinesKept, [Net!ClientNext]_(Net!clientVars) PROVE LinesKept'
  OBVIOUS
<1> USE DEF LinesKept, Net!ours, Net!keyboard, Net!net
<1>1. CASE Net!TypeLine
  BY <1>1 DEF Net!TypeLine
<1>2. CASE Net!TypeEnd
  BY <1>2 DEF Net!TypeEnd
<1>3. CASE Net!Echo
  BY <1>3 DEF Net!Echo, Net!Arrives
<1>4. CASE Net!OthersSay
  BY <1>4 DEF Net!OthersSay, Net!Arrives
<1>5. CASE Net!ServerEnds
  <2>1. /\ UNCHANGED <<typedLines, keyed, keyend, inflight, heard, netclient, at, events>>
        /\ UNCHANGED <<stdineof, closed>>
        /\ inbox' = inbox /\ peer = "up"
    BY <1>5 DEF Net!ServerEnds, Net!Arrives
  <2>2. ~crashed' => stdineof /\ inflight = 0
    <3>1. crashed' = ~(stdineof /\ inflight = 0)
      BY <1>5 DEF Net!ServerEnds
    <3> QED BY ONLY <3>1, Zenon
  <2>3. ~crashed' => stdineof' /\ inflight' = 0
    BY <2>1, <2>2
  <2> QED BY <2>1, <2>3
<1>6. CASE Net!Resumed \/ Net!Done
  BY <1>6 DEF Net!Resumed, Net!Done
<1>7. CASE Net!Select
  BY <1>7 DEF Net!Select, Net!Readable
<1>8. CASE Net!SelectSock
  BY <1>8 DEF Net!SelectSock, Net!ReadChunks
<1>9. CASE Net!SelectStdin
  BY <1>9 DEF Net!SelectStdin, Net!SendLines
<1>10. CASE Net!SelectStdinEnd
  BY <1>10 DEF Net!SelectStdinEnd
<1>11. CASE Net!EpollWait \/ Net!ChatSock \/ Net!ChatNothing
  BY <1>11 DEF Net!EpollWait, Net!ChatSock, Net!ChatNothing
<1>12. CASE Net!ChatStdin
  BY <1>12 DEF Net!ChatStdin, Net!SendLines
<1>13. CASE Net!ChatRecv
  BY <1>13 DEF Net!ChatRecv, Net!ReadChunks, Net!AfterData
<1>14. CASE Net!ChatEnd
  BY <1>14 DEF Net!ChatEnd
<1>15. CASE UNCHANGED Net!clientVars
  BY <1>15 DEF Net!clientVars
<1> QED BY <1>1, <1>2, <1>3, <1>4, <1>5, <1>6, <1>7, <1>8, <1>9, <1>10, <1>11, <1>12, <1>13,
           <1>14, <1>15 DEF Net!ClientNext, Net!Client

\* selectclient_test.c:34: shutdown and not close at the end of the input, so that
\* str_cli returns only when all that was typed has come back, however late.
THEOREM ReturnsWithEverything == Net!ClientSpec => []ReturnsComplete
<1>1. LinesKept => ReturnsComplete
  BY DEF LinesKept, Net!ClientInit, ReturnsComplete, Net!ReturnsComplete
<1> QED BY <1>1, LinesInitInv, LinesStepInv, PTL DEF Net!ClientSpec

-----------------------------------------------------------------------------
(* The thread joiner. *)

\* The control part of the inductive invariant: it does not mention the counters.
JoinControl == Joiner!TypeOK /\ Joiner!MutexOwner /\ Joiner!PlaceOfThread

USE JoinAssumption DEF Joiner!Threads, Joiner!Nobody, Joiner!Main

LEMMA ThreadsFinite ==
  ASSUME NEW S \in SUBSET Joiner!Threads
  PROVE  IsFiniteSet(S)
<1>1. IsFiniteSet(Joiner!Threads)
  BY FS_Interval
<1> QED BY <1>1, FS_Subset

\* PthreadJoin counts with its own copy of the library's operator.
LEMMA JoinCardinality ==
  ASSUME NEW S
  PROVE  Joiner!Cardinality(S) = Cardinality(S)
BY DEF Joiner!Cardinality, Cardinality

LEMMA JoinInitControl == Joiner!Init => JoinControl
<1> SUFFICES ASSUME Joiner!Init PROVE JoinControl
  OBVIOUS
<1>1. Joiner!TypeOK
  BY DEF Joiner!Init, Joiner!TypeOK, Joiner!ThreadPlaces, Joiner!MainPlaces
<1>2. Joiner!MutexOwner /\ Joiner!PlaceOfThread
  BY DEF Joiner!Init, Joiner!MutexOwner, Joiner!OwnsMutex, Joiner!PlaceOfThread
<1> QED BY <1>1, <1>2 DEF JoinControl

LEMMA JoinThreadControl ==
  ASSUME JoinControl, NEW t \in Joiner!Threads, Joiner!Thread(t)
  PROVE  JoinControl'
<1>1. CASE Joiner!Lock(t)
  <2>1. Joiner!TypeOK'
    BY <1>1 DEF JoinControl, Joiner!TypeOK, Joiner!ThreadPlaces, Joiner!MainPlaces,
       Joiner!Lock, Joiner!Goto
  <2>2. Joiner!MutexOwner'
    BY <1>1 DEF JoinControl, Joiner!TypeOK, Joiner!MutexOwner, Joiner!OwnsMutex,
       Joiner!Lock, Joiner!Goto
  <2>3. Joiner!PlaceOfThread'
    BY <1>1 DEF JoinControl, Joiner!TypeOK, Joiner!PlaceOfThread, Joiner!Lock, Joiner!Goto
  <2> QED BY <2>1, <2>2, <2>3 DEF JoinControl
<1>2. CASE Joiner!Count(t)
  <2>1. Joiner!TypeOK'
    BY <1>2 DEF JoinControl, Joiner!TypeOK, Joiner!ThreadPlaces, Joiner!MainPlaces,
       Joiner!Count, Joiner!Goto
  <2>2. Joiner!MutexOwner'
    BY <1>2 DEF JoinControl, Joiner!TypeOK, Joiner!MutexOwner, Joiner!OwnsMutex,
       Joiner!Count, Joiner!Goto
  <2>3. Joiner!PlaceOfThread'
    BY <1>2 DEF JoinControl, Joiner!TypeOK, Joiner!PlaceOfThread, Joiner!Count, Joiner!Goto
  <2> QED BY <2>1, <2>2, <2>3 DEF JoinControl
<1>3. CASE Joiner!Mark(t)
  <2>1. Joiner!TypeOK'
    BY <1>3 DEF JoinControl, Joiner!TypeOK, Joiner!ThreadPlaces, Joiner!MainPlaces,
       Joiner!Mark, Joiner!Goto
  <2>2. Joiner!MutexOwner'
    BY <1>3 DEF JoinControl, Joiner!TypeOK, Joiner!MutexOwner, Joiner!OwnsMutex,
       Joiner!Mark, Joiner!Goto
  <2>3. Joiner!PlaceOfThread'
    BY <1>3 DEF JoinControl, Joiner!TypeOK, Joiner!PlaceOfThread, Joiner!Mark, Joiner!Goto
  <2> QED BY <2>1, <2>2, <2>3 DEF JoinControl
<1>4. CASE Joiner!Unlock(t)
  <2>1. Joiner!TypeOK'
    BY <1>4 DEF JoinControl, Joiner!TypeOK, Joiner!ThreadPlaces, Joiner!MainPlaces,
       Joiner!Unlock, Joiner!Goto
  <2>2. Joiner!MutexOwner'
    BY <1>4 DEF JoinControl, Joiner!TypeOK, Joiner!MutexOwner, Joiner!OwnsMutex,
       Joiner!Unlock, Joiner!Goto
  <2>3. Joiner!PlaceOfThread'
    BY <1>4 DEF JoinControl, Joiner!TypeOK, Joiner!PlaceOfThread, Joiner!Unlock, Joiner!Goto
  <2> QED BY <2>1, <2>2, <2>3 DEF JoinControl
<1>5. CASE Joiner!Signal(t)
  <2>1. Joiner!TypeOK'
    BY <1>5 DEF JoinControl, Joiner!TypeOK, Joiner!ThreadPlaces, Joiner!MainPlaces,
       Joiner!Signal, Joiner!Goto
  <2>2. Joiner!MutexOwner'
    BY <1>5 DEF JoinControl, Joiner!TypeOK, Joiner!MutexOwner, Joiner!OwnsMutex,
       Joiner!Signal, Joiner!Goto
  <2>3. Joiner!PlaceOfThread'
    BY <1>5 DEF JoinControl, Joiner!TypeOK, Joiner!PlaceOfThread, Joiner!Signal, Joiner!Goto
  <2> QED BY <2>1, <2>2, <2>3 DEF JoinControl
<1> QED BY <1>1, <1>2, <1>3, <1>4, <1>5 DEF Joiner!Thread

LEMMA JoinMainControl ==
  ASSUME JoinControl, Joiner!MainStep \/ Joiner!SpuriousWakeup
  PROVE  JoinControl'
<1>1. CASE Joiner!Create
  <2>1. Joiner!TypeOK'
    BY <1>1 DEF JoinControl, Joiner!TypeOK, Joiner!ThreadPlaces, Joiner!MainPlaces,
       Joiner!Create
  <2>2. Joiner!MutexOwner'
    BY <1>1 DEF JoinControl, Joiner!TypeOK, Joiner!MutexOwner, Joiner!OwnsMutex,
       Joiner!PlaceOfThread, Joiner!Create
  <2>3. Joiner!PlaceOfThread'
    BY <1>1 DEF JoinControl, Joiner!TypeOK, Joiner!PlaceOfThread, Joiner!Create
  <2> QED BY <2>1, <2>2, <2>3 DEF JoinControl
<1>2. CASE Joiner!Created
  <2>1. Joiner!TypeOK'
    BY <1>2 DEF JoinControl, Joiner!TypeOK, Joiner!ThreadPlaces, Joiner!MainPlaces,
       Joiner!Created
  <2>2. Joiner!MutexOwner'
    BY <1>2 DEF JoinControl, Joiner!TypeOK, Joiner!MutexOwner, Joiner!OwnsMutex,
       Joiner!Created
  <2>3. Joiner!PlaceOfThread'
    BY <1>2 DEF JoinControl, Joiner!TypeOK, Joiner!PlaceOfThread, Joiner!Created
  <2> QED BY <2>1, <2>2, <2>3 DEF JoinControl
<1>3. CASE Joiner!WhileLive
  <2>1. Joiner!TypeOK'
    BY <1>3 DEF JoinControl, Joiner!TypeOK, Joiner!ThreadPlaces, Joiner!MainPlaces,
       Joiner!WhileLive
  <2>2. Joiner!MutexOwner'
    BY <1>3 DEF JoinControl, Joiner!TypeOK, Joiner!MutexOwner, Joiner!OwnsMutex,
       Joiner!WhileLive
  <2>3. Joiner!PlaceOfThread'
    BY <1>3 DEF JoinControl, Joiner!TypeOK, Joiner!PlaceOfThread, Joiner!WhileLive
  <2> QED BY <2>1, <2>2, <2>3 DEF JoinControl
<1>4. CASE Joiner!Return
  <2>1. Joiner!TypeOK'
    BY <1>4 DEF JoinControl, Joiner!TypeOK, Joiner!ThreadPlaces, Joiner!MainPlaces,
       Joiner!Return
  <2>2. Joiner!MutexOwner'
    BY <1>4 DEF JoinControl, Joiner!TypeOK, Joiner!MutexOwner, Joiner!OwnsMutex,
       Joiner!Return
  <2>3. Joiner!PlaceOfThread'
    BY <1>4 DEF JoinControl, Joiner!TypeOK, Joiner!PlaceOfThread, Joiner!Return
  <2> QED BY <2>1, <2>2, <2>3 DEF JoinControl
<1>5. CASE Joiner!CondWait
  <2>1. Joiner!TypeOK'
    BY <1>5 DEF JoinControl, Joiner!TypeOK, Joiner!ThreadPlaces, Joiner!MainPlaces,
       Joiner!CondWait
  <2>2. Joiner!MutexOwner'
    BY <1>5 DEF JoinControl, Joiner!TypeOK, Joiner!MutexOwner, Joiner!OwnsMutex,
       Joiner!CondWait
  <2>3. Joiner!PlaceOfThread'
    BY <1>5 DEF JoinControl, Joiner!TypeOK, Joiner!PlaceOfThread, Joiner!CondWait
  <2> QED BY <2>1, <2>2, <2>3 DEF JoinControl
<1>6. CASE Joiner!Relock
  <2>1. Joiner!TypeOK'
    BY <1>6 DEF JoinControl, Joiner!TypeOK, Joiner!ThreadPlaces, Joiner!MainPlaces,
       Joiner!Relock
  <2>2. Joiner!MutexOwner'
    BY <1>6 DEF JoinControl, Joiner!TypeOK, Joiner!MutexOwner, Joiner!OwnsMutex,
       Joiner!Relock
  <2>3. Joiner!PlaceOfThread'
    BY <1>6 DEF JoinControl, Joiner!TypeOK, Joiner!PlaceOfThread, Joiner!Relock
  <2> QED BY <2>1, <2>2, <2>3 DEF JoinControl
<1>7. CASE Joiner!StartScan
  <2>1. Joiner!TypeOK'
    BY <1>7 DEF JoinControl, Joiner!TypeOK, Joiner!ThreadPlaces, Joiner!MainPlaces,
       Joiner!StartScan
  <2>2. Joiner!MutexOwner'
    BY <1>7 DEF JoinControl, Joiner!TypeOK, Joiner!MutexOwner, Joiner!OwnsMutex,
       Joiner!StartScan
  <2>3. Joiner!PlaceOfThread'
    BY <1>7 DEF JoinControl, Joiner!TypeOK, Joiner!PlaceOfThread, Joiner!StartScan
  <2> QED BY <2>1, <2>2, <2>3 DEF JoinControl
<1>8. CASE Joiner!Skip
  <2>1. Joiner!TypeOK'
    BY <1>8 DEF JoinControl, Joiner!TypeOK, Joiner!ThreadPlaces, Joiner!MainPlaces,
       Joiner!Skip
  <2>2. Joiner!MutexOwner'
    BY <1>8 DEF JoinControl, Joiner!TypeOK, Joiner!MutexOwner, Joiner!OwnsMutex, Joiner!Skip
  <2>3. Joiner!PlaceOfThread'
    BY <1>8 DEF JoinControl, Joiner!TypeOK, Joiner!PlaceOfThread, Joiner!Skip
  <2> QED BY <2>1, <2>2, <2>3 DEF JoinControl
<1>9. CASE Joiner!Join
  <2>1. Joiner!TypeOK'
    BY <1>9 DEF JoinControl, Joiner!TypeOK, Joiner!ThreadPlaces, Joiner!MainPlaces,
       Joiner!Join
  <2>2. Joiner!MutexOwner'
    BY <1>9 DEF JoinControl, Joiner!TypeOK, Joiner!MutexOwner, Joiner!OwnsMutex, Joiner!Join
  <2>3. Joiner!PlaceOfThread'
    BY <1>9 DEF JoinControl, Joiner!TypeOK, Joiner!PlaceOfThread, Joiner!Join
  <2> QED BY <2>1, <2>2, <2>3 DEF JoinControl
<1>10. CASE Joiner!EndScan
  <2>1. Joiner!TypeOK'
    BY <1>10 DEF JoinControl, Joiner!TypeOK, Joiner!ThreadPlaces, Joiner!MainPlaces,
       Joiner!EndScan
  <2>2. Joiner!MutexOwner'
    BY <1>10 DEF JoinControl, Joiner!TypeOK, Joiner!MutexOwner, Joiner!OwnsMutex,
       Joiner!EndScan
  <2>3. Joiner!PlaceOfThread'
    BY <1>10 DEF JoinControl, Joiner!TypeOK, Joiner!PlaceOfThread, Joiner!EndScan
  <2> QED BY <2>1, <2>2, <2>3 DEF JoinControl
<1>11. CASE Joiner!SpuriousWakeup
  <2>1. Joiner!TypeOK'
    BY <1>11 DEF JoinControl, Joiner!TypeOK, Joiner!ThreadPlaces, Joiner!MainPlaces,
       Joiner!SpuriousWakeup
  <2>2. Joiner!MutexOwner'
    BY <1>11 DEF JoinControl, Joiner!TypeOK, Joiner!MutexOwner, Joiner!OwnsMutex,
       Joiner!SpuriousWakeup
  <2>3. Joiner!PlaceOfThread'
    BY <1>11 DEF JoinControl, Joiner!TypeOK, Joiner!PlaceOfThread, Joiner!SpuriousWakeup
  <2> QED BY <2>1, <2>2, <2>3 DEF JoinControl
<1> QED BY <1>1, <1>2, <1>3, <1>4, <1>5, <1>6, <1>7, <1>8, <1>9, <1>10,
           <1>11 DEF Joiner!MainStep

\* The counters.  Only four kinds of step change a counted set or a counter.
LEMMA JoinInitCounts == Joiner!Init => Joiner!CountsMatch
<1> SUFFICES ASSUME Joiner!Init PROVE Joiner!CountsMatch
  OBVIOUS
<1>1. Joiner!Counted = {}
  BY DEF Joiner!Init, Joiner!Counted
<1> QED BY <1>1, JoinCardinality, FS_EmptySet DEF Joiner!Init, Joiner!CountsMatch

LEMMA CountCounts ==
  ASSUME JoinControl, Joiner!CountsMatch, NEW t \in Joiner!Threads, Joiner!Count(t)
  PROVE  Joiner!CountsMatch'
<1>1. t \notin Joiner!Counted
  BY DEF JoinControl, Joiner!PlaceOfThread, Joiner!Counted, Joiner!Count, Joiner!Goto
<1>2. Joiner!Counted' = Joiner!Counted \cup {t}
  BY DEF JoinControl, Joiner!TypeOK, Joiner!Counted, Joiner!Count, Joiner!Goto
<1>3. IsFiniteSet(Joiner!Counted)
  BY ThreadsFinite DEF Joiner!Counted
<1>4. Cardinality(Joiner!Counted') = Cardinality(Joiner!Counted) + 1
  BY <1>1, <1>2, <1>3, FS_AddElement
<1>5. Joiner!NotJoined' = Joiner!NotJoined
  BY DEF Joiner!NotJoined, Joiner!Count
<1> QED BY <1>4, <1>5, JoinCardinality DEF Joiner!CountsMatch, Joiner!Count

LEMMA MarkCounts ==
  ASSUME JoinControl, Joiner!CountsMatch, NEW t \in Joiner!Threads, Joiner!Mark(t)
  PROVE  Joiner!CountsMatch'
<1>1. Joiner!Counted' = Joiner!Counted
  BY DEF JoinControl, Joiner!TypeOK, Joiner!Counted, Joiner!Mark, Joiner!Goto
<1>2. Joiner!NotJoined' = Joiner!NotJoined
  BY DEF JoinControl, Joiner!TypeOK, Joiner!PlaceOfThread, Joiner!NotJoined, Joiner!Mark,
     Joiner!Goto
<1> QED BY <1>1, <1>2, JoinCardinality DEF Joiner!CountsMatch, Joiner!Mark

LEMMA CreatedCounts ==
  ASSUME JoinControl, Joiner!CountsMatch, Joiner!Created
  PROVE  Joiner!CountsMatch'
<1>1. Joiner!Counted' = Joiner!Counted
  BY DEF Joiner!Counted, Joiner!Created
<1>2. Joiner!NotJoined' = 0 .. (NumThreads - 1)
  BY DEF JoinControl, Joiner!PlaceOfThread, Joiner!NotJoined, Joiner!Created
<1>3. Cardinality(Joiner!NotJoined') = NumThreads
  BY <1>2, FS_Interval
<1> QED BY <1>1, <1>3, JoinCardinality DEF Joiner!CountsMatch, Joiner!Created

LEMMA JoinCounts ==
  ASSUME JoinControl, Joiner!CountsMatch, Joiner!Join
  PROVE  Joiner!CountsMatch'
<1>1. idx \in Joiner!Threads
  BY DEF JoinControl, Joiner!TypeOK, Joiner!Join
<1>2. /\ Joiner!Counted' = Joiner!Counted \ {idx}
      /\ idx \in Joiner!Counted
  BY <1>1 DEF JoinControl, Joiner!TypeOK, Joiner!Counted, Joiner!Join
<1>3. /\ Joiner!NotJoined' = Joiner!NotJoined \ {idx}
      /\ idx \in Joiner!NotJoined
  BY <1>1 DEF JoinControl, Joiner!TypeOK, Joiner!NotJoined, Joiner!Join
<1>4. IsFiniteSet(Joiner!Counted) /\ IsFiniteSet(Joiner!NotJoined)
  BY ThreadsFinite DEF Joiner!Counted, Joiner!NotJoined
<1>5. Cardinality(Joiner!Counted') = Cardinality(Joiner!Counted) - 1
  BY <1>2, <1>4, FS_RemoveElement
<1>6. Cardinality(Joiner!NotJoined') = Cardinality(Joiner!NotJoined) - 1
  BY <1>3, <1>4, FS_RemoveElement
<1> QED BY <1>5, <1>6, JoinCardinality DEF Joiner!CountsMatch, Joiner!Join

\* Every other step leaves the states of the threads and the counters alone, and
\* makes no thread enter or leave "mark".
LEMMA OtherCounts ==
  ASSUME JoinControl, Joiner!CountsMatch, [Joiner!Next]_Joiner!vars,
         \A t \in Joiner!Threads : ~Joiner!Count(t) /\ ~Joiner!Mark(t), ~Joiner!Created,
         ~Joiner!Join
  PROVE  Joiner!CountsMatch'
<1> DEFINE Same == /\ UNCHANGED <<numlive, numunjoin, state>>
                   /\ \A u \in Joiner!Threads : tpc'[u] = "mark" <=> tpc[u] = "mark"
                   /\ mainpc' # "create" => mainpc # "create"
<1>1. ASSUME NEW t \in Joiner!Threads, Joiner!Thread(t) PROVE Same
  BY <1>1 DEF Joiner!Thread, Joiner!Lock, Joiner!Unlock, Joiner!Signal, Joiner!Goto,
     JoinControl, Joiner!TypeOK
<1>2. ASSUME Joiner!MainStep \/ Joiner!SpuriousWakeup PROVE Same
  <2>1. CASE Joiner!Create
    BY <2>1 DEF Joiner!Create, JoinControl, Joiner!TypeOK, Joiner!PlaceOfThread
  <2>2. CASE Joiner!WhileLive \/ Joiner!Return \/ Joiner!CondWait \/ Joiner!Relock \/ Joiner!SpuriousWakeup
    BY <2>2 DEF Joiner!WhileLive, Joiner!Return, Joiner!CondWait, Joiner!Relock,
       Joiner!SpuriousWakeup
  <2>3. CASE Joiner!StartScan \/ Joiner!Skip \/ Joiner!EndScan
    BY <2>3 DEF Joiner!StartScan, Joiner!Skip, Joiner!EndScan
  <2> QED BY <1>2, <2>1, <2>2, <2>3 DEF Joiner!MainStep
<1>3. ASSUME UNCHANGED Joiner!vars PROVE Same
  BY <1>3 DEF Joiner!vars
<1>4. Same
  BY <1>1, <1>2, <1>3 DEF Joiner!Next
<1>5. Joiner!Counted' = Joiner!Counted /\ Joiner!NotJoined' = Joiner!NotJoined
  BY <1>4 DEF Joiner!Counted, Joiner!NotJoined
<1> QED BY <1>4, <1>5, JoinCardinality DEF Joiner!CountsMatch

LEMMA WakeupStepInv ==
  ASSUME JoinControl, Joiner!CountsMatch, Joiner!NoLostWakeup, [Joiner!Next]_Joiner!vars
  PROVE  Joiner!NoLostWakeup'
<1>1. ASSUME NEW t \in Joiner!Threads, Joiner!Thread(t) PROVE Joiner!NoLostWakeup'
  BY <1>1 DEF Joiner!Thread, Joiner!Lock, Joiner!Count, Joiner!Mark, Joiner!Unlock,
     Joiner!Signal, Joiner!Goto, JoinControl, Joiner!TypeOK, Joiner!NoLostWakeup
<1>2. CASE Joiner!MainStep \/ Joiner!SpuriousWakeup
  <2>1. CASE Joiner!CondWait
    BY <2>1 DEF Joiner!CondWait, Joiner!NoLostWakeup
  <2>2. CASE Joiner!Create \/ Joiner!Created \/ Joiner!WhileLive \/ Joiner!Return \/ Joiner!Relock \/ Joiner!SpuriousWakeup
    BY <2>2 DEF Joiner!Create, Joiner!Created, Joiner!WhileLive, Joiner!Return,
       Joiner!Relock, Joiner!SpuriousWakeup, Joiner!NoLostWakeup
  <2>3. CASE Joiner!StartScan \/ Joiner!Skip \/ Joiner!Join \/ Joiner!EndScan
    BY <2>3 DEF Joiner!StartScan, Joiner!Skip, Joiner!Join, Joiner!EndScan,
       Joiner!NoLostWakeup
  <2> QED BY <1>2, <2>1, <2>2, <2>3 DEF Joiner!MainStep
<1>3. CASE UNCHANGED Joiner!vars
  BY <1>3 DEF Joiner!vars, Joiner!NoLostWakeup
<1> QED BY <1>1, <1>2, <1>3 DEF Joiner!Next

\* main returns with numlive = 0, so no thread is left that has not been joined.
LEMMA ReturnJoined ==
  ASSUME JoinControl, Joiner!CountsMatch, Joiner!Return
  PROVE  Joiner!AllJoinedAtExit'
<1>1. IsFiniteSet(Joiner!NotJoined)
  BY ThreadsFinite DEF Joiner!NotJoined
<1>2. Cardinality(Joiner!NotJoined) = 0
  BY <1>1, FS_CardinalityType, JoinCardinality DEF Joiner!CountsMatch, Joiner!Return
<1>3. Joiner!NotJoined = {}
  BY <1>1, <1>2, FS_EmptySet
<1>4. \A t \in Joiner!Threads : state[t] = "JOINED" /\ tpc[t] = "done"
  BY <1>3 DEF Joiner!NotJoined, JoinControl, Joiner!TypeOK, Joiner!ThreadPlaces,
     Joiner!PlaceOfThread
<1> QED BY <1>4 DEF Joiner!AllJoinedAtExit, Joiner!Return

LEMMA ExitStepInv ==
  ASSUME JoinControl, Joiner!CountsMatch, Joiner!AllJoinedAtExit, [Joiner!Next]_Joiner!vars
  PROVE  Joiner!AllJoinedAtExit'
<1>1. ASSUME NEW t \in Joiner!Threads, Joiner!Thread(t) PROVE Joiner!AllJoinedAtExit'
  BY <1>1 DEF Joiner!Thread, Joiner!Lock, Joiner!Count, Joiner!Mark, Joiner!Unlock,
     Joiner!Signal, Joiner!Goto, Joiner!AllJoinedAtExit
<1>2. CASE Joiner!MainStep \/ Joiner!SpuriousWakeup
  <2>1. CASE Joiner!Return
    BY <2>1, ReturnJoined
  <2>2. CASE Joiner!Create \/ Joiner!Created \/ Joiner!WhileLive \/ Joiner!CondWait \/ Joiner!Relock \/ Joiner!SpuriousWakeup
    BY <2>2 DEF Joiner!Create, Joiner!Created, Joiner!WhileLive, Joiner!CondWait,
       Joiner!Relock, Joiner!SpuriousWakeup, Joiner!AllJoinedAtExit
  <2>3. CASE Joiner!StartScan \/ Joiner!Skip \/ Joiner!Join \/ Joiner!EndScan
    BY <2>3 DEF Joiner!StartScan, Joiner!Skip, Joiner!Join, Joiner!EndScan,
       Joiner!AllJoinedAtExit
  <2> QED BY <1>2, <2>1, <2>2, <2>3 DEF Joiner!MainStep
<1>3. CASE UNCHANGED Joiner!vars
  BY <1>3 DEF Joiner!vars, Joiner!AllJoinedAtExit
<1> QED BY <1>1, <1>2, <1>3 DEF Joiner!Next

\* The inductive invariant of PthreadJoin.
THEOREM JoinInvariance == Joiner!Spec => []Joiner!IInv
<1>1. Joiner!Init => Joiner!IInv
  BY JoinInitControl, JoinInitCounts DEF JoinControl, Joiner!IInv, Joiner!Init,
     Joiner!NoLostWakeup, Joiner!AllJoinedAtExit
<1>2. Joiner!IInv /\ [Joiner!Next]_Joiner!vars => Joiner!IInv'
  <2> SUFFICES ASSUME Joiner!IInv, [Joiner!Next]_Joiner!vars PROVE Joiner!IInv'
    OBVIOUS
  <2>1. JoinControl
    BY DEF Joiner!IInv, JoinControl
  <2>2. JoinControl'
    <3>1. CASE UNCHANGED Joiner!vars
      BY <2>1, <3>1 DEF Joiner!vars, JoinControl, Joiner!TypeOK, Joiner!MutexOwner,
         Joiner!OwnsMutex, Joiner!PlaceOfThread
    <3> QED BY <2>1, <3>1, JoinThreadControl, JoinMainControl DEF Joiner!Next
  <2>3. Joiner!CountsMatch'
    BY <2>1, CountCounts, MarkCounts, CreatedCounts, JoinCounts, OtherCounts DEF Joiner!IInv
  <2> QED BY <2>1, <2>2, <2>3, WakeupStepInv, ExitStepInv DEF Joiner!IInv, JoinControl
<1> QED BY <1>1, <1>2, PTL DEF Joiner!Spec

\* Type correctness.
THEOREM JoinTypeCorrect == Joiner!Spec => []Joiner!TypeOK
<1>1. Joiner!IInv => Joiner!TypeOK BY DEF Joiner!IInv
<1> QED BY <1>1, JoinInvariance, PTL

\* The counters of lines 8 and 9 never drift from the states of the threads.
THEOREM CountersExact == Joiner!Spec => []CountsMatch
<1>1. Joiner!IInv => CountsMatch BY DEF Joiner!IInv, CountsMatch
<1> QED BY <1>1, JoinInvariance, PTL

\* Joining with the mutex held (line 94) is safe.
THEOREM JoinSafe == Joiner!Spec => []Joiner!JoinNeedsNoMutex
<1>1. Joiner!IInv => Joiner!JoinNeedsNoMutex
  BY DEF Joiner!IInv, Joiner!TypeOK, Joiner!ThreadPlaces, Joiner!MutexOwner,
     Joiner!OwnsMutex, Joiner!PlaceOfThread, Joiner!JoinNeedsNoMutex
<1> QED BY <1>1, JoinInvariance, PTL

\* main is never left blocked with a thread to join and no signal to come.
THEOREM WakeupNotLost == Joiner!Spec => []Joiner!NoLostWakeup
<1>1. Joiner!IInv => Joiner!NoLostWakeup BY DEF Joiner!IInv
<1> QED BY <1>1, JoinInvariance, PTL

\* Neither the join (line 94) nor the wait (line 83) can leave main stuck with a
\* thread to join.
THEOREM MainNeverStuck == Joiner!Spec => []NeverStuck
<1>1. Joiner!JoinNeedsNoMutex /\ Joiner!NoLostWakeup => NeverStuck BY DEF NeverStuck,
                                                                      Joiner!NeverStuck
<1> QED BY <1>1, JoinSafe, WakeupNotLost, PTL

\* main returns only after joining every thread.
THEOREM ExitAfterJoins == Joiner!Spec => []AllJoinedAtExit
<1>1. Joiner!IInv => AllJoinedAtExit BY DEF Joiner!IInv, AllJoinedAtExit
<1> QED BY <1>1, JoinInvariance, PTL

HIDE JoinAssumption DEF Joiner!Threads, Joiner!Nobody, Joiner!Main

=============================================================================
