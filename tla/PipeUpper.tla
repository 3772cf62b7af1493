----------------------------- MODULE PipeUpper ------------------------------
(***************************************************************************)
(* The filter of pipe/parent_child_communicate.c.  The parent writes each  *)
(* line it reads to pipe1 and then reads pipe2 once; the child turns what  *)
(* comes out of pipe1 into upper case and writes it to pipe2.  A read      *)
(* returns what is there, so the parent may get less than it has written;  *)
(* the rest comes with the next line.                                      *)
(*                                                                         *)
(* Bytes are counted: order cannot change in a pipe, and a read or a write *)
(* moves as many as it says.  Operators named Operation_Slip are mistakes  *)
(* that show what the properties notice.                                   *)
(***************************************************************************)
EXTENDS Integers

CONSTANTS BUFSIZE,   \* 10000
          Capacity,  \* of a pipe: 65536
          PIPE_BUF,  \* a write of up to this many bytes is not divided: 4096
          MaxTyped   \* bound: bytes typed, for model checking

ASSUME PipeUpperAssumption ==
  /\ BUFSIZE \in Nat \ {0} /\ Capacity \in Nat /\ PIPE_BUF \in Nat
  /\ MaxTyped \in Nat
  /\ Capacity >= 2 * BUFSIZE

VARIABLES
  parentAt,  \* "fork", "stdin", "pipe1" writing, "pipe2" reading, "end"
  childAt,   \* "none", "pipe1" reading, "pipe2" writing, "end"
  sz,        \* bytes the parent has still to write to pipe1
  hand,      \* bytes the child has still to write to pipe2
  pipe1, pipe2,
  typed,     \* bytes the parent has read from standard input
  printed,   \* bytes it has written to standard output
  failed     \* a read of standard input has failed, or the child was killed

pipeVars == <<parentAt, childAt, sz, hand, pipe1, pipe2, typed, printed, failed>>

PipeInit ==
  /\ parentAt = "fork" /\ childAt = "none"
  /\ sz = 0 /\ hand = 0
  /\ pipe1 = 0 /\ pipe2 = 0
  /\ typed = 0 /\ printed = 0
  /\ failed = FALSE

\* How many of n bytes a write may move into a pipe that holds held.
Writable(n, held) ==
  {k \in 1 .. n : held + k <= Capacity /\ (n <= PIPE_BUF => k = n)}

\* What one read takes out of a pipe that holds held.
Taken_One(held) == IF held = 0 THEN 0 ELSE 1
Taken(held) == IF held < BUFSIZE THEN held ELSE BUFSIZE

-----------------------------------------------------------------------------
(* The parent. *)

\* A fork that fails falls into the child's branch: the parent closes its own
\* writing end of pipe1, reads end of file and exits.
ForkChild ==
  /\ parentAt = "fork"
  /\ \/ parentAt' = "stdin" /\ childAt' = "pipe1"
     \/ parentAt' = "end" /\ UNCHANGED childAt
  /\ UNCHANGED <<sz, hand, pipe1, pipe2, typed, printed, failed>>

ReadStdin ==
  /\ parentAt = "stdin"
  /\ \E n \in 1 .. BUFSIZE :
       /\ typed + n <= MaxTyped
       /\ sz' = n
       /\ typed' = typed + n
  /\ parentAt' = "pipe1"
  /\ UNCHANGED <<childAt, hand, pipe1, pipe2, printed, failed>>

\* End of file: the parent exits, and what is in the pipes is lost.
StdinEnds ==
  /\ parentAt = "stdin"
  /\ parentAt' = "end"
  /\ UNCHANGED <<childAt, sz, hand, pipe1, pipe2, typed, printed, failed>>

\* read returns -1, which is true: write(-1) fails too, and returns -1 as sz is,
\* so nothing is reported and the parent reads pipe2.
StdinFails ==
  /\ parentAt = "stdin"
  /\ parentAt' = "pipe2"
  /\ failed' = TRUE
  /\ UNCHANGED <<childAt, sz, hand, pipe1, pipe2, typed, printed>>

\* Without a child the write raises SIGPIPE.
WritePipe1 ==
  /\ parentAt = "pipe1" /\ childAt # "end"
  /\ \E k \in Writable(sz, pipe1) :
       /\ sz' = sz - k
       /\ pipe1' = pipe1 + k
  /\ parentAt' = IF sz' = 0 THEN "pipe2" ELSE "pipe1"
  /\ UNCHANGED <<childAt, hand, pipe2, typed, printed, failed>>

ParentSigpipe ==
  /\ parentAt = "pipe1" /\ childAt = "end"
  /\ parentAt' = "end"
  /\ UNCHANGED <<childAt, sz, hand, pipe1, pipe2, typed, printed, failed>>

\* One read of pipe2, printed at once; end of file when the child is gone.
ReadPipe2 ==
  /\ parentAt = "pipe2" /\ (pipe2 > 0 \/ childAt = "end")
  /\ pipe2' = pipe2 - Taken(pipe2)
  /\ printed' = printed + Taken(pipe2)
  /\ parentAt' = "stdin"
  /\ UNCHANGED <<childAt, sz, hand, pipe1, typed, failed>>

-----------------------------------------------------------------------------
(* The child. *)

\* Without a parent what is left in pipe1 is still read.
ChildRead ==
  /\ childAt = "pipe1" /\ pipe1 > 0
  /\ hand' = Taken(pipe1)
  /\ pipe1' = pipe1 - hand'
  /\ childAt' = "pipe2"
  /\ UNCHANGED <<parentAt, sz, pipe2, typed, printed, failed>>

ChildWrite ==
  /\ childAt = "pipe2" /\ parentAt # "end"
  /\ \E k \in Writable(hand, pipe2) :
       /\ hand' = hand - k
       /\ pipe2' = pipe2 + k
  /\ childAt' = IF hand' = 0 THEN "pipe1" ELSE "pipe2"
  /\ UNCHANGED <<parentAt, sz, pipe1, typed, printed, failed>>

\* End of file on pipe1, or SIGPIPE on pipe2, after the parent has gone.
ChildEnd ==
  /\ parentAt = "end"
  /\ \/ childAt = "pipe1" /\ pipe1 = 0
     \/ childAt = "pipe2"
  /\ childAt' = "end"
  /\ UNCHANGED <<parentAt, sz, hand, pipe1, pipe2, typed, printed, failed>>

ChildKilled ==
  /\ childAt \in {"pipe1", "pipe2"}
  /\ childAt' = "end"
  /\ failed' = TRUE
  /\ UNCHANGED <<parentAt, sz, hand, pipe1, pipe2, typed, printed>>

ParentStep == ForkChild \/ ReadStdin \/ StdinEnds \/ StdinFails \/ WritePipe1 \/ ParentSigpipe \/ ReadPipe2
ChildStep == ChildRead \/ ChildWrite \/ ChildEnd \/ ChildKilled

PipeNext == ParentStep \/ ChildStep

PipeSpec == PipeInit /\ [][PipeNext]_pipeVars

-----------------------------------------------------------------------------

PipeTypeOK ==
  /\ parentAt \in {"fork", "stdin", "pipe1", "pipe2", "end"}
  /\ childAt \in {"none", "pipe1", "pipe2", "end"}
  /\ sz \in 0 .. BUFSIZE /\ hand \in 0 .. BUFSIZE
  /\ pipe1 \in 0 .. Capacity /\ pipe2 \in 0 .. Capacity
  /\ typed \in Nat /\ printed \in Nat
  /\ failed \in BOOLEAN

ParentBlocked ==
  \/ parentAt = "pipe1" /\ childAt # "end" /\ Writable(sz, pipe1) = {}
  \/ parentAt = "pipe2" /\ childAt # "end" /\ pipe2 = 0

ChildBlocked ==
  \/ childAt = "pipe1" /\ parentAt # "end" /\ pipe1 = 0
  \/ childAt = "pipe2" /\ parentAt # "end" /\ Writable(hand, pipe2) = {}

\* parent_child_communicate.c:61 and 41: each process blocks on pipes that only
\* the other can fill or empty.  They never wait for each other, neither on empty
\* pipes nor on full ones, although output lags behind: a pipe that takes two
\* buffers is large enough.  (After an error on standard input they do: the
\* parent then waits for a line it has not sent.)
NeverBothWait == ~failed => ~(ParentBlocked /\ ChildBlocked)

\* parent_child_communicate.c:64: when the next line is awaited, what has been
\* typed and not printed is at most one pipe and one buffer, however short the
\* reads were and however long they went on being short.
LagBounded == parentAt = "stdin" => typed - printed <= Capacity + BUFSIZE

-----------------------------------------------------------------------------
(* Why: all that was typed and not printed is on its way, and each round takes *)
(* out as much as it puts in unless pipe2 runs empty.                          *)

OnTheWay == sz + pipe1 + hand + pipe2

PipeIInv ==
  /\ PipeTypeOK
  /\ typed = printed + OnTheWay
  /\ parentAt \in {"fork", "stdin"} => OnTheWay <= Capacity + BUFSIZE
  /\ OnTheWay <= Capacity + 2 * BUFSIZE
  /\ parentAt \in {"fork", "stdin", "pipe2"} => sz = 0
  /\ parentAt = "pipe1" => sz > 0
  /\ parentAt = "pipe2" /\ ~failed => OnTheWay > 0
  /\ childAt \in {"none", "pipe1"} => hand = 0
  /\ childAt = "pipe2" => hand > 0
  /\ parentAt = "fork" => childAt = "none"
  /\ parentAt # "fork" /\ childAt = "none" => parentAt = "end"

=============================================================================
