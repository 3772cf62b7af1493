------------------------------ MODULE Chatroom ------------------------------
(***************************************************************************)
(* The chat server of unp/high_performance/epoll_chatroom.cpp.  One thread *)
(* waits for edge-triggered events, accepts one client per event on        *)
(* listenfd, reads a client until nothing is left, and sends every chunk   *)
(* it has read to all the descriptors of client_list_fd except the one it  *)
(* came from.  Nothing is ever taken out of client_list_fd.                *)
(*                                                                         *)
(* Sends are not checked.  One to a closed descriptor fails with EBADF,    *)
(* one to a client that does not read (Slow) may be lost, one to a client  *)
(* that has gone makes the kernel answer with a reset, and one after the   *)
(* reset kills the server: SIGPIPE is not handled.                         *)
(*                                                                         *)
(* Operators named Operation_Slip are not part of the code: they are       *)
(* mistakes that show what the properties notice.                          *)
(***************************************************************************)
EXTENDS Integers, Sequences, FiniteSets, FiniteSetsExt

CONSTANTS Clients,   \* each has one connection at a time
          NULL,
          Slow,      \* the clients that do not read what they are sent
          MaxFd,     \* the largest descriptor the process may have
          MaxSay,    \* bound: messages sent, by all clients together
          MaxJoin    \* bound: connections accepted

ASSUME ChatroomAssumption ==
  /\ NULL \notin Clients /\ Slow \subseteq Clients
  /\ MaxFd \in Nat /\ MaxSay \in Nat /\ MaxJoin \in Nat

listenfd == 3    \* 4 is the epoll instance
ConnFds  == 5 .. MaxFd

VARIABLES
  \* the server
  client_list_fd,
  pc,         \* "wait" in epoll_wait, "batch" in the for loop, "recv" in the
              \* while loop that reads one client, "aborted" or "killed"
  batch,      \* the descriptors whose event has not been handled yet
  sockfd,     \* the client being read when pc = "recv"
  \* the kernel
  conn,       \* the client behind every descriptor, or NULL
  backlog,    \* clients connected and not accepted, oldest first
  ready,      \* descriptors with an edge epoll_wait has not returned
  \* the clients
  status,     \* "closed", "backlog" or "open", as the server has it
  peer,       \* what the server's kernel knows of a client: "up", "fin", "rst"
  unread,     \* messages sent to the server and not read by it
  said,       \* messages sent by all clients
  \* history
  log,        \* the sender of every chunk the server has broadcast
  joined,     \* Len(log) when the client was last accepted
  copies      \* copies[c][i]: how often client c was sent the i-th chunk

server  == <<client_list_fd, pc, batch, sockfd>>
kernel  == <<conn, backlog, ready>>
peers   == <<status, peer, unread, said>>
history == <<log, joined, copies>>
vars    == <<server, kernel, peers, history>>

Running == pc \in {"wait", "batch", "recv"}

Fd(c) == CHOOSE f \in ConnFds : conn[f] = c

Readable(f) ==
  IF f = listenfd THEN backlog # <<>>
  ELSE conn[f] # NULL /\ (unread[conn[f]] > 0 \/ peer[conn[f]] # "up")

Init ==
  /\ client_list_fd = <<>>
  /\ pc = "wait"
  /\ batch = {}
  /\ sockfd = NULL
  /\ conn = [f \in ConnFds |-> NULL]
  /\ backlog = <<>>
  /\ ready = {}
  /\ status = [c \in Clients |-> "closed"]
  /\ peer = [c \in Clients |-> "up"]
  /\ unread = [c \in Clients |-> 0]
  /\ said = 0
  /\ log = <<>>
  /\ joined = [c \in Clients |-> 0]
  /\ copies = [c \in Clients |-> <<>>]

-----------------------------------------------------------------------------
(* Clients. *)

Notify(c) == ready' = IF status[c] = "open" THEN ready \cup {Fd(c)} ELSE ready

Connect(c) ==
  /\ Running
  /\ status[c] = "closed"
  /\ Len(backlog) + Len(client_list_fd) < MaxJoin
  /\ status' = [status EXCEPT ![c] = "backlog"]
  /\ backlog' = Append(backlog, c)
  /\ ready' = ready \cup {listenfd}
  /\ UNCHANGED <<server, conn, peer, unread, said, history>>

Say(c) ==
  /\ Running
  /\ status[c] # "closed" /\ peer[c] = "up"
  /\ said < MaxSay
  /\ said' = said + 1
  /\ unread' = [unread EXCEPT ![c] = @ + 1]
  /\ Notify(c)
  /\ UNCHANGED <<server, conn, backlog, status, peer, history>>

\* The client closes or resets its connection.  What it has sent before stays
\* readable, except that a reset may overtake it.
Leave(c) ==
  /\ Running
  /\ status[c] # "closed" /\ peer[c] = "up"
  /\ \/ /\ peer' = [peer EXCEPT ![c] = "fin"]
        /\ UNCHANGED unread
     \/ /\ peer' = [peer EXCEPT ![c] = "rst"]
        /\ \E n \in {0, unread[c]} : unread' = [unread EXCEPT ![c] = n]
  /\ Notify(c)
  /\ UNCHANGED <<server, conn, backlog, status, said, history>>

-----------------------------------------------------------------------------
(* The server. *)

EpollWait ==
  /\ pc = "wait"
  /\ batch' = {f \in ready : Readable(f)}
  /\ batch' # {}
  /\ ready' = {}
  /\ pc' = "batch"
  /\ UNCHANGED <<client_list_fd, sockfd, conn, backlog, peers, history>>

FreeFds == {f \in ConnFds : conn[f] = NULL}

\* An event on listenfd: one accept, whatever the number of clients waiting.
Accept ==
  /\ pc = "batch" /\ listenfd \in batch
  /\ batch' = batch \ {listenfd}
  /\ FreeFds # {}
  /\ LET f == Min(FreeFds)
         c == Head(backlog)
     IN  /\ conn' = [conn EXCEPT ![f] = c]
         /\ client_list_fd' = Append(client_list_fd, f)
         /\ status' = [status EXCEPT ![c] = "open"]
         /\ joined' = [joined EXCEPT ![c] = Len(log)]
         /\ copies' = [copies EXCEPT ![c] = [i \in DOMAIN log |-> 0]]
         /\ backlog' = Tail(backlog)
         /\ ready' = IF unread[c] > 0 \/ peer[c] # "up" THEN ready \cup {f} ELSE ready
  /\ UNCHANGED <<pc, sockfd, peer, unread, said, log>>

\* assert(connfd != -1) aborts when no descriptor is left.
AcceptFails ==
  /\ pc = "batch" /\ listenfd \in batch
  /\ FreeFds = {}
  /\ batch' = batch \ {listenfd}
  /\ pc' = "aborted"
  /\ UNCHANGED <<client_list_fd, sockfd, kernel, peers, history>>

ReadEvent(f) ==
  /\ pc = "batch"
  /\ f \in batch \cap ConnFds
  /\ batch' = batch \ {f}
  /\ sockfd' = f
  /\ pc' = "recv"
  /\ UNCHANGED <<client_list_fd, kernel, peers, history>>

\* close(sockfd).  The client may connect again.
Close ==
  LET c == conn[sockfd]
  IN  /\ conn' = [conn EXCEPT ![sockfd] = NULL]
      /\ ready' = ready \ {sockfd}
      /\ status' = [status EXCEPT ![c] = "closed"]
      /\ peer' = [peer EXCEPT ![c] = "up"]
      /\ unread' = [unread EXCEPT ![c] = 0]
      /\ copies' = [copies EXCEPT ![c] = <<>>]
      /\ joined' = [joined EXCEPT ![c] = 0]

\* recv returns -1 with EAGAIN, or with EBADF after the loop itself has closed
\* the descriptor (the second close then has no effect): the loop ends.
RecvNothing ==
  /\ pc = "recv"
  /\ ~Readable(sockfd)
  /\ pc' = "batch"
  /\ sockfd' = NULL
  /\ UNCHANGED <<client_list_fd, batch, kernel, peers, history>>

\* recv returns -1 after a reset: close and leave the loop.
RecvReset ==
  /\ pc = "recv"
  /\ conn[sockfd] # NULL /\ peer[conn[sockfd]] = "rst" /\ unread[conn[sockfd]] = 0
  /\ Close
  /\ pc' = "batch"
  /\ sockfd' = NULL
  /\ UNCHANGED <<client_list_fd, batch, backlog, said, log>>

\* recv returns 0: close and recv again.
RecvEof_PopBack ==
  /\ pc = "recv"
  /\ conn[sockfd] # NULL /\ peer[conn[sockfd]] = "fin" /\ unread[conn[sockfd]] = 0
  /\ Close
  /\ client_list_fd' = SubSeq(client_list_fd, 1, Len(client_list_fd) - 1)
  /\ UNCHANGED <<pc, batch, sockfd, backlog, said, log>>

RecvEof ==
  /\ pc = "recv"
  /\ conn[sockfd] # NULL /\ peer[conn[sockfd]] = "fin" /\ unread[conn[sockfd]] = 0
  /\ Close
  /\ UNCHANGED <<client_list_fd, pc, batch, sockfd, backlog, said, log>>

\* How often a chunk is sent to client d: once for every entry of client_list_fd
\* that is not the sender's descriptor and is d's.
Entries(d) ==
  Cardinality({j \in DOMAIN client_list_fd :
                 client_list_fd[j] # sockfd /\ conn[client_list_fd[j]] = d})

Broadcast(from) ==
  /\ log' = Append(log, from)
  /\ \E lost \in SUBSET Slow :
       copies' = [d \in Clients |->
                    IF status[d] # "open" THEN copies[d]
                    ELSE Append(copies[d], IF d \in lost THEN 0 ELSE Entries(d))]

\* recv returns data, which is sent to everybody else; recv again.  The clients
\* that have left may answer with a reset.
RecvData_Once ==
  LET c == conn[sockfd]
  IN  /\ pc = "recv"
      /\ c # NULL /\ unread[c] > 0
      /\ \A d \in Clients : Entries(d) > 0 => peer[d] # "rst"
      /\ Broadcast(c)
      /\ \E n \in 1 .. unread[c] : unread' = [unread EXCEPT ![c] = @ - n]
      /\ pc' = "batch"
      /\ sockfd' = NULL
      /\ UNCHANGED <<client_list_fd, batch, kernel, status, peer, said, joined>>

RecvData ==
  LET c == conn[sockfd]
  IN  /\ pc = "recv"
      /\ c # NULL /\ unread[c] > 0
      /\ \A d \in Clients : Entries(d) > 0 => peer[d] # "rst"
      /\ Broadcast(c)
      /\ \E n \in 1 .. unread[c] : unread' = [unread EXCEPT ![c] = @ - n]
      /\ \E answer \in SUBSET {d \in Clients : Entries(d) > 0 /\ peer[d] = "fin"} :
           /\ peer' = [d \in Clients |-> IF d \in answer THEN "rst" ELSE peer[d]]
           /\ ready' = ready \cup {Fd(d) : d \in answer}
      /\ UNCHANGED <<server, conn, backlog, status, said, joined>>

\* One of the sends meets a connection that is reset already, or that the send
\* before it has caused to be: SIGPIPE.
RecvDataKilled ==
  LET c == conn[sockfd]
  IN  /\ pc = "recv"
      /\ c # NULL /\ unread[c] > 0
      /\ \E d \in Clients : \/ Entries(d) > 0 /\ peer[d] = "rst"
                            \/ Entries(d) > 1 /\ peer[d] = "fin"
      /\ pc' = "killed"
      /\ UNCHANGED <<client_list_fd, batch, sockfd, kernel, peers, history>>

EndBatch ==
  /\ pc = "batch" /\ batch = {}
  /\ pc' = "wait"
  /\ UNCHANGED <<client_list_fd, batch, sockfd, kernel, peers, history>>

Server ==
  \/ EpollWait \/ Accept \/ AcceptFails \/ EndBatch
  \/ \E f \in ConnFds : ReadEvent(f)
  \/ RecvNothing \/ RecvReset \/ RecvEof \/ RecvData \/ RecvDataKilled

Next == (\E c \in Clients : Connect(c) \/ Say(c) \/ Leave(c)) \/ Server

Spec == Init /\ [][Next]_vars

-----------------------------------------------------------------------------

TypeOK ==
  /\ client_list_fd \in Seq(ConnFds)
  /\ pc \in {"wait", "batch", "recv", "aborted", "killed"}
  /\ batch \subseteq {listenfd} \cup ConnFds
  /\ sockfd \in ConnFds \cup {NULL}
  /\ conn \in [ConnFds -> Clients \cup {NULL}]
  /\ backlog \in Seq(Clients)
  /\ ready \subseteq {listenfd} \cup ConnFds
  /\ status \in [Clients -> {"closed", "backlog", "open"}]
  /\ peer \in [Clients -> {"up", "fin", "rst"}]
  /\ unread \in [Clients -> 0 .. MaxSay]
  /\ said \in 0 .. MaxSay
  /\ log \in Seq(Clients)
  /\ joined \in [Clients -> Nat]
  /\ copies \in [Clients -> Seq(Nat)]

\* Everybody in the room reads the same conversation: an accepted client is sent
\* every chunk the server has broadcast since it was accepted, except its own,
\* and nothing else, however descriptors are reused and although the list of
\* descriptors is never cleaned up.  (It may be sent a chunk more than once; one
\* that does not read what it is sent may miss some.)
Meant(d, i) == i > joined[d] /\ log[i] # d

EveryoneHears ==
  /\ TypeOK
  /\ \A d \in Clients : status[d] = "open" =>
       \A i \in DOMAIN log :
         /\ copies[d][i] > 0 => Meant(d, i)
         /\ Meant(d, i) /\ d \notin Slow => copies[d][i] > 0

\* The listener aside, edge-triggered events are not lost: a connection with
\* something to read has an event pending or is being read.  It needs the loop
\* that reads until EAGAIN (lines 70 to 98).
UnreadHasEvent ==
  \A f \in ConnFds : Running /\ Readable(f) => f \in ready \cup batch \cup {sockfd}

-----------------------------------------------------------------------------
(* What makes the properties inductive. *)

\* An open connection has one descriptor, which the server has in its list.
Connections ==
  /\ \A f, g \in ConnFds : conn[f] # NULL /\ conn[f] = conn[g] => f = g
  /\ \A f \in ConnFds : conn[f] # NULL =>
       status[conn[f]] = "open" /\ \E j \in DOMAIN client_list_fd : client_list_fd[j] = f
  /\ \A c \in Clients : status[c] = "open" => \E f \in ConnFds : conn[f] = c

\* Who waits waits once, and an event on listenfd has somebody to be accepted.
Waiting ==
  /\ \A i \in DOMAIN backlog : status[backlog[i]] = "backlog"
  /\ \A i, j \in DOMAIN backlog : backlog[i] = backlog[j] => i = j
  /\ listenfd \in batch => backlog # <<>>

\* Where the loop is.
Places ==
  /\ pc = "wait" => batch = {}
  /\ pc = "recv" => sockfd \in ConnFds

\* UnreadHasEvent, where sockfd counts only while it is being read.
Announced ==
  \A f \in ConnFds : Running /\ Readable(f) =>
    f \in ready \cup batch \/ (pc = "recv" /\ f = sockfd)

\* The books of the connected clients are as long as the conversation.
BooksKept ==
  \A c \in Clients :
    /\ unread[c] <= said
    /\ status[c] = "open" => Len(copies[c]) = Len(log) /\ joined[c] <= Len(log)

IInv ==
  /\ EveryoneHears
  /\ Connections /\ Waiting /\ Places
  /\ Announced /\ BooksKept

-----------------------------------------------------------------------------

\* epoll_chatroom.cpp:6 promises every message to every client connected to the
\* server.  For that, a server with nothing left to do has no client waiting to
\* be accepted, whom it will never send anything.
ConnectedAreAccepted ==
  pc = "wait" /\ ~(\E f \in ready : Readable(f)) => backlog = <<>>

=============================================================================
