----------------------------- MODULE EchoServer -----------------------------
(***************************************************************************)
(* The concurrent server of unp/my_echo_ser.c: the parent accepts a        *)
(* connection and forks a child that echoes until the client closes; the   *)
(* handler of SIGCHLD collects terminated children.                        *)
(*                                                                         *)
(* The parent means to close its copy of the connection after the fork,    *)
(* but says close(clilen) for close(clifd) (line 69): it closes the        *)
(* descriptor whose number is the size of a socket address, 16.            *)
(*                                                                         *)
(* What is echoed is left out: a child serves until its client has gone.   *)
(* Operators named Operation_Slip are mistakes that show what the          *)
(* properties notice.                                                      *)
(***************************************************************************)
EXTENDS Integers, Sequences, FiniteSets, FiniteSetsExt

CONSTANTS Clients,     \* clients; each connects at most once
          NULL,
          MaxFd,       \* the largest descriptor a process may have
          clilen,      \* sizeof(cliaddr): 16 in the program
          ForkFails    \* whether fork may fail

listenfd == 3
ConnFds  == 4 .. MaxFd

ASSUME EchoServerAssumption ==
  /\ NULL \notin Clients
  /\ MaxFd \in Nat /\ clilen \in ConnFds
  /\ ForkFails \in BOOLEAN

VARIABLES
  parent,    \* the parent's descriptors: the client behind each, or NULL
  clifd,     \* the connection the parent is dealing with, -1 for none
  pc,        \* "accept", "fork" or "close"
  handler,   \* whether the parent is in sig_chld
  sigchld,   \* whether a SIGCHLD is pending: signals are not counted
  child,     \* the child of every client: "none", "failed" if there is none
             \* because fork failed, "serving", "zombie" or "reaped"
  backlog,   \* clients connected and not accepted
  client     \* "out", "up" or "gone"

vars == <<parent, clifd, pc, handler, sigchld, child, backlog, client>>

Init ==
  /\ parent = [f \in ConnFds |-> NULL]
  /\ clifd = -1
  /\ pc = "accept"
  /\ handler = FALSE
  /\ sigchld = FALSE
  /\ child = [c \in Clients |-> "none"]
  /\ backlog = <<>>
  /\ client = [c \in Clients |-> "out"]

-----------------------------------------------------------------------------

Connect(c) ==
  /\ client[c] = "out"
  /\ client' = [client EXCEPT ![c] = "up"]
  /\ backlog' = Append(backlog, c)
  /\ UNCHANGED <<parent, clifd, pc, handler, sigchld, child>>

Leave(c) ==
  /\ client[c] = "up"
  /\ client' = [client EXCEPT ![c] = "gone"]
  /\ UNCHANGED <<parent, clifd, pc, handler, sigchld, child, backlog>>

\* The child's read has returned 0 or an error, or its write has raised SIGPIPE.
ChildExit(c) ==
  /\ child[c] = "serving" /\ client[c] = "gone"
  /\ child' = [child EXCEPT ![c] = "zombie"]
  /\ sigchld' = TRUE
  /\ UNCHANGED <<parent, clifd, pc, handler, backlog, client>>

-----------------------------------------------------------------------------
(* The parent.  The handler may interrupt it anywhere; signal() installs it *)
(* so that accept is restarted.                                             *)

\* An accept that fails changes nothing: "errno = EINTR" is an assignment, so
\* the loop always goes on.  It cannot fail for want of a descriptor, see
\* LeakBounded.
Accept ==
  /\ ~handler
  /\ pc = "accept" /\ backlog # <<>>
  /\ clifd' = Min({f \in ConnFds : parent[f] = NULL})
  /\ parent' = [parent EXCEPT ![clifd'] = Head(backlog)]
  /\ backlog' = Tail(backlog)
  /\ pc' = "fork"
  /\ UNCHANGED <<handler, sigchld, child, client>>

\* A failed fork looks like a parent's.
Fork ==
  /\ ~handler
  /\ pc = "fork"
  /\ \E s \in {"serving"} \cup (IF ForkFails THEN {"failed"} ELSE {}) :
       child' = [child EXCEPT ![parent[clifd]] = s]
  /\ pc' = "close"
  /\ UNCHANGED <<parent, clifd, handler, sigchld, backlog, client>>

CloseClilen_Nothing ==
  /\ ~handler
  /\ pc = "close"
  /\ clifd' = -1
  /\ pc' = "accept"
  /\ UNCHANGED <<parent, handler, sigchld, child, backlog, client>>

CloseClilen ==
  /\ ~handler
  /\ pc = "close"
  /\ parent' = [parent EXCEPT ![clilen] = NULL]
  /\ clifd' = -1
  /\ pc' = "accept"
  /\ UNCHANGED <<handler, sigchld, child, backlog, client>>

\* SIGCHLD is delivered; while the handler runs the next one stays pending.
SigChld ==
  /\ sigchld /\ ~handler
  /\ sigchld' = FALSE
  /\ handler' = TRUE
  /\ UNCHANGED <<parent, clifd, pc, child, backlog, client>>

\* waitpid(-1, WNOHANG) collects one child, or finds none and the handler returns.
Reap_Once ==
  /\ handler
  /\ \E c \in Clients :
       /\ child[c] = "zombie"
       /\ child' = [child EXCEPT ![c] = "reaped"]
  /\ handler' = FALSE
  /\ UNCHANGED <<parent, clifd, pc, sigchld, backlog, client>>

Reap ==
  /\ handler
  /\ \E c \in Clients :
       /\ child[c] = "zombie"
       /\ child' = [child EXCEPT ![c] = "reaped"]
  /\ UNCHANGED <<parent, clifd, pc, handler, sigchld, backlog, client>>

\* The handler goes on while there are children: waitpid without WNOHANG.
HandlerReturns_Waits ==
  /\ handler
  /\ \A c \in Clients : child[c] \notin {"serving", "zombie"}
  /\ handler' = FALSE
  /\ UNCHANGED <<parent, clifd, pc, sigchld, child, backlog, client>>

HandlerReturns ==
  /\ handler
  /\ \A c \in Clients : child[c] # "zombie"
  /\ handler' = FALSE
  /\ UNCHANGED <<parent, clifd, pc, sigchld, child, backlog, client>>

Parent == Accept \/ Fork \/ CloseClilen \/ SigChld \/ Reap \/ HandlerReturns

Next ==
  \/ \E c \in Clients : Connect(c) \/ Leave(c) \/ ChildExit(c)
  \/ Parent

Spec == Init /\ [][Next]_vars

\* The parent and the children are scheduled whenever they can run.
Fairness == WF_vars(Parent) /\ \A c \in Clients : WF_vars(ChildExit(c))

-----------------------------------------------------------------------------

TypeOK ==
  /\ parent \in [ConnFds -> Clients \cup {NULL}]
  /\ clifd \in ConnFds \cup {-1}
  /\ pc \in {"accept", "fork", "close"}
  /\ handler \in BOOLEAN /\ sigchld \in BOOLEAN
  /\ child \in [Clients -> {"none", "failed", "serving", "zombie", "reaped"}]
  /\ backlog \in Seq(Clients)
  /\ client \in [Clients -> {"out", "up", "gone"}]

\* Line 25: SIGCHLD does not queue, so one run of the handler must collect every
\* child that has terminated.  No zombie is left without a signal to come or a
\* handler that will still look for it.
ZombiesHaveSignal ==
  \A c \in Clients : child[c] = "zombie" => sigchld \/ handler

\* The descriptors the parent fails to close are those below number clilen, one
\* connection each: once they are used up, every connection gets number clilen
\* and that one is closed.  So the leak is bounded, the parent never runs out of
\* descriptors, and close(clilen) never closes a connection before its fork.
LeakBounded ==
  /\ \A f \in ConnFds : parent[f] # NULL => f < clilen \/ f = clifd
  /\ pc = "accept" => \E f \in ConnFds : parent[f] = NULL

\* Every client that has connected and left has been accepted, and has had a
\* child that was collected, or a fork of its own that failed: no client is left
\* in the backlog, between accept and fork, or with a child nobody waits for.  The
\* handler interrupts the accept loop at any point (line 25) and has to come back.
ServedAndReaped ==
  \A c \in Clients : client[c] = "gone" ~> child[c] \in {"reaped", "failed"}

-----------------------------------------------------------------------------
(* Why the leak is bounded: accept finds number clilen free or a smaller    *)
(* one, so the connection at hand never has a number above it.              *)

AtHand ==
  /\ pc = "accept" <=> clifd = -1
  /\ clifd # -1 => clifd <= clilen /\ parent[clifd] # NULL

IInv == TypeOK /\ AtHand /\ LeakBounded /\ ZombiesHaveSignal

=============================================================================
