---------------------------- MODULE EpollServers ----------------------------
(***************************************************************************)
(* Three servers of unp/high_performance that share their skeleton, addfd  *)
(* and a loop around epoll_wait, and differ in what they do with an event: *)
(*   "sig"     epoll_sig.cpp: signals come through a socket pair; what     *)
(*             clients send is never read;                                 *)
(*   "tcpudp"  epoll_tcp_udp.cpp: echoes on connections and datagrams;     *)
(*   "ET"      epoll_LT_ET_servertest.cpp as main calls it, use_ET;        *)
(*   "LT"      the same with use_LT, the call main has commented out.      *)
(* All register listenfd edge-triggered and accept once per event.         *)
(*                                                                         *)
(* Operators named Operation_Slip are mistakes that show what the          *)
(* properties notice.                                                      *)
(***************************************************************************)
EXTENDS Integers, Sequences, FiniteSets, FiniteSetsExt

CONSTANTS Clients,     \* TCP clients; each connects at most once
          Askers,      \* UDP clients; each waits for its answer, then asks again
          NULL,
          MaxFd,       \* the largest descriptor a process may be allowed
          SendResults, \* what the send in sig_handler may do, see Signal
          MaxSay,      \* bound: chunks sent by one client
          MaxMail      \* bound: signals; of empty datagrams there is one

\* Only the order of descriptor numbers above those of main matters.
listenfd == 3
udpfd    == 4
pipefd   == 5    \* pipefd[0], the end main reads
ConnFds  == 7 .. MaxFd

VARIABLES
  program,   \* which of the servers runs,
  limit,     \* and its largest descriptor; they never change
  pc,        \* "wait" in epoll_wait, "batch" in the for loop, "recv" reading a
             \* connection; "stopped", "aborted" or "killed" at the end
  batch,     \* the descriptors whose event has not been handled yet
  sockfd,    \* the connection being read when pc = "recv"
  conn,      \* the client behind every descriptor, or NULL
  backlog,   \* clients connected and not accepted, oldest first
  ready,     \* descriptors epoll_wait will look at
  peer,      \* "out", "up", "fin" (has closed) or "rst" (has reset)
  unread,    \* chunks a client has sent that are not read
  datagrams, \* the senders of the datagrams not read; NULL sent an empty one
  waiting,   \* the askers without an answer
  pipe,      \* the signal bytes not read
  stop_server,
  mail       \* counts empty datagrams and signals

server == <<program, limit, pc, batch, sockfd>>
kernel == <<conn, backlog, ready>>
tcp    == <<peer, unread>>
udp    == <<datagrams, waiting>>
sig    == <<pipe, stop_server>>
vars   == <<server, kernel, tcp, udp, sig, mail>>

Running == pc \in {"wait", "batch", "recv"}

\* Which of them leave the loop after one recv, and which ask epoll to repeat an
\* event until the data is read (addfd with enable_et false).
ReadsOnce_Both == program \in {"LT", "ET"}
ReadsOnce == program = "LT"
LevelTriggered == program = "LT"

Readable(f) ==
  CASE f = listenfd -> backlog # <<>>
    [] f = udpfd    -> datagrams # <<>>
    [] f = pipefd   -> pipe # <<>>
    [] OTHER        -> conn[f] # NULL /\ (unread[conn[f]] > 0 \/ peer[conn[f]] # "up")

Init ==
  /\ program \in {"sig", "tcpudp", "ET", "LT"} /\ limit \in ConnFds
  /\ pc = "wait"
  /\ batch = {} /\ ready = {}
  /\ sockfd = NULL
  /\ conn = [f \in ConnFds |-> NULL]
  /\ backlog = <<>>
  /\ peer = [c \in Clients |-> "out"]
  /\ unread = [c \in Clients |-> 0]
  /\ datagrams = <<>> /\ waiting = {}
  /\ pipe = <<>> /\ stop_server = FALSE
  /\ mail = 0

-----------------------------------------------------------------------------
(* Clients and signals. *)

Edge(c) == ready' = ready \cup {f \in ConnFds : conn[f] = c}

Connect(c) ==
  /\ Running /\ peer[c] = "out"
  /\ peer' = [peer EXCEPT ![c] = "up"]
  /\ backlog' = Append(backlog, c)
  /\ ready' = ready \cup {listenfd}
  /\ UNCHANGED <<server, conn, unread, udp, sig, mail>>

Say(c) ==
  /\ Running /\ peer[c] = "up"
  /\ unread[c] < MaxSay
  /\ unread' = [unread EXCEPT ![c] = @ + 1]
  /\ Edge(c)
  /\ UNCHANGED <<server, conn, backlog, peer, udp, sig, mail>>

\* A client closes, or resets the connection, which may overtake its data.
Leave(c) ==
  /\ Running /\ peer[c] = "up"
  /\ \/ peer' = [peer EXCEPT ![c] = "fin"] /\ UNCHANGED unread
     \/ /\ peer' = [peer EXCEPT ![c] = "rst"]
        /\ \E n \in {0, unread[c]} : unread' = [unread EXCEPT ![c] = n]
  /\ Edge(c)
  /\ UNCHANGED <<server, conn, backlog, udp, sig, mail>>

Datagram(from) ==
  /\ Running /\ program = "tcpudp"
  /\ datagrams' = Append(datagrams, from)
  /\ ready' = ready \cup {udpfd}
  /\ UNCHANGED <<server, conn, backlog, tcp, sig>>

Ask(a) ==
  /\ a \notin waiting
  /\ waiting' = waiting \cup {a}
  /\ Datagram(a)
  /\ UNCHANGED mail

AskEmpty ==
  /\ mail = 0
  /\ mail' = mail + 1
  /\ Datagram(NULL)
  /\ UNCHANGED waiting

\* sig_handler between any two steps of main.  It passes the signal's number as
\* the address of the byte to send (line 32), so the kernel answers EFAULT; that
\* is what the program does.  With "sent" the model has the byte arrive, so that
\* the code that reads it runs at all.
Signal(s) ==
  /\ Running /\ program = "sig" /\ mail < MaxMail
  /\ mail' = mail + 1
  /\ \/ "EFAULT" \in SendResults /\ UNCHANGED <<pipe, ready>>
     \/ /\ "sent" \in SendResults
        /\ pipe' = Append(pipe, s)
        /\ ready' = ready \cup {pipefd}
  /\ UNCHANGED <<server, conn, backlog, tcp, udp, stop_server>>

-----------------------------------------------------------------------------
(* The loop. *)

\* The kernel keeps a level-triggered descriptor on its list.
EpollWait ==
  /\ pc = "wait"
  /\ batch' = {f \in ready : Readable(f)} /\ batch' # {}
  /\ ready' = IF LevelTriggered THEN batch' \cap ConnFds ELSE {}
  /\ pc' = "batch"
  /\ UNCHANGED <<program, limit, sockfd, conn, backlog, tcp, udp, sig, mail>>

\* epoll_wait fails with EINTR, after the process was stopped and continued, too.
\* Only epoll_sig.cpp looks at errno; the others leave their loop.
Interrupted ==
  /\ pc = "wait"
  /\ pc' = IF program = "sig" THEN "wait" ELSE "stopped"
  /\ UNCHANGED <<program, limit, batch, sockfd, kernel, tcp, udp, sig, mail>>

FreeFds == {f \in 7 .. limit : conn[f] = NULL}

\* What is left of the batch, and of the datagrams, after an event.
Handled_Loop(f) == IF f = listenfd THEN batch ELSE batch \ {f}
Handled(f) == batch \ {f}
RestOf_Drain(queue) == <<>>
RestOf(queue) == Tail(queue)

\* One accept; a connection that has something to read is ready when added.
Accept ==
  /\ pc = "batch" /\ listenfd \in batch
  /\ backlog # <<>> /\ FreeFds # {}
  /\ batch' = Handled(listenfd)
  /\ LET c == Head(backlog)
         f == Min(FreeFds)
     IN  /\ conn' = [conn EXCEPT ![f] = c]
         /\ ready' = IF unread[c] > 0 \/ peer[c] # "up" THEN ready \cup {f} ELSE ready
  /\ backlog' = Tail(backlog)
  /\ UNCHANGED <<program, limit, pc, sockfd, tcp, udp, sig, mail>>

\* accept returns -1.  Two servers assert that it does not; use_LT and use_ET go
\* on with addfd(-1), which fails.
AcceptFails ==
  /\ pc = "batch" /\ listenfd \in batch
  /\ backlog = <<>> \/ FreeFds = {}
  /\ batch' = batch \ {listenfd}
  /\ pc' = IF program \in {"sig", "tcpudp"} THEN "aborted" ELSE pc
  /\ UNCHANGED <<program, limit, sockfd, kernel, tcp, udp, sig, mail>>

\* One recvfrom per event.  A datagram that is not empty is answered.
UdpEvent ==
  /\ pc = "batch" /\ udpfd \in batch
  /\ batch' = Handled(udpfd)
  /\ datagrams' = RestOf(datagrams)
  /\ waiting' = waiting \ {Head(datagrams)}
  /\ UNCHANGED <<program, limit, pc, sockfd, kernel, tcp, sig, mail>>

\* Whether the bytes of the pipe end the loop.  SIGCHLD and SIGHUP are skipped:
\* the continue in the switch belongs to the loop over the bytes.
StopSignals == {"SIGTERM", "SIGINT"}
Stops_Break(bytes) == bytes[1] \in StopSignals
Stops(bytes) == \E j \in DOMAIN bytes : bytes[j] \in StopSignals

\* One recv takes every byte in the pipe.
PipeEvent ==
  /\ pc = "batch" /\ pipefd \in batch
  /\ batch' = Handled(pipefd)
  /\ stop_server' = (stop_server \/ Stops(pipe))
  /\ pipe' = <<>>
  /\ UNCHANGED <<program, limit, pc, sockfd, kernel, tcp, udp, mail>>

\* An event on a connection is "something else" to epoll_sig.cpp.
ConnEvent(f) ==
  /\ pc = "batch" /\ f \in batch \cap ConnFds
  /\ batch' = Handled(f)
  /\ IF program = "sig" THEN UNCHANGED <<pc, sockfd>>
     ELSE pc' = "recv" /\ sockfd' = f
  /\ UNCHANGED <<program, limit, kernel, tcp, udp, sig, mail>>

EndBatch ==
  /\ pc = "batch" /\ batch = {}
  /\ pc' = IF stop_server THEN "stopped" ELSE "wait"
  /\ UNCHANGED <<program, limit, batch, sockfd, kernel, tcp, udp, sig, mail>>

-----------------------------------------------------------------------------
(* Reading a connection: once, or until recv returns -1. *)

LeaveLoop == pc' = "batch" /\ sockfd' = NULL
GoOn == IF ReadsOnce THEN LeaveLoop ELSE UNCHANGED <<pc, sockfd>>

Close ==
  /\ conn' = [conn EXCEPT ![sockfd] = NULL]
  /\ ready' = ready \ {sockfd}

\* -1 with EAGAIN, or with EBADF once the loop itself has closed sockfd.  (use_LT,
\* which would close, does not get here: its one recv follows a fresh event.)
RecvNothing ==
  /\ pc = "recv" /\ ~Readable(sockfd)
  /\ LeaveLoop
  /\ UNCHANGED <<program, limit, batch, kernel, tcp, udp, sig, mail>>

\* 0, or -1 after a reset.  Only the loops call recv again after 0.
RecvEnd ==
  /\ pc = "recv" /\ Readable(sockfd) /\ unread[conn[sockfd]] = 0
  /\ Close
  /\ IF peer[conn[sockfd]] = "rst" THEN LeaveLoop ELSE GoOn
  /\ UNCHANGED <<program, limit, batch, backlog, tcp, udp, sig, mail>>

\* Data, which epoll_tcp_udp.cpp sends back.  A client that has gone may answer
\* with a reset.
RecvData ==
  LET c == conn[sockfd]
  IN  /\ pc = "recv" /\ c # NULL /\ unread[c] > 0
      /\ program = "tcpudp" => peer[c] # "rst"
      /\ \E n \in 1 .. unread[c] : unread' = [unread EXCEPT ![c] = @ - n]
      /\ \/ UNCHANGED <<peer, ready>>
         \/ /\ program = "tcpudp" /\ peer[c] = "fin"
            /\ peer' = [peer EXCEPT ![c] = "rst"]
            /\ ready' = ready \cup {sockfd}
      /\ GoOn
      /\ UNCHANGED <<program, limit, batch, conn, backlog, udp, sig, mail>>

\* The send of the echo on a connection that is reset raises SIGPIPE.
RecvDataKilled ==
  /\ pc = "recv" /\ program = "tcpudp"
  /\ conn[sockfd] # NULL /\ unread[conn[sockfd]] > 0 /\ peer[conn[sockfd]] = "rst"
  /\ pc' = "killed"
  /\ UNCHANGED <<program, limit, batch, sockfd, kernel, tcp, udp, sig, mail>>

Server ==
  \/ EpollWait \/ Accept \/ AcceptFails \/ UdpEvent \/ PipeEvent \/ EndBatch
  \/ \E f \in ConnFds : ConnEvent(f)
  \/ RecvNothing \/ RecvEnd \/ RecvData \/ RecvDataKilled

Next ==
  \/ \E c \in Clients : Connect(c) \/ Say(c) \/ Leave(c)
  \/ \E a \in Askers : Ask(a)
  \/ AskEmpty
  \/ \E s \in {"SIGCHLD", "SIGTERM"} : Signal(s)
  \/ Interrupted
  \/ Server

Spec == Init /\ [][Next]_vars

\* The server's process is scheduled whenever it can run.
Fairness == WF_vars(Server)

-----------------------------------------------------------------------------

TypeOK ==
  /\ program \in {"sig", "tcpudp", "ET", "LT"} /\ limit \in ConnFds
  /\ pc \in {"wait", "batch", "recv", "stopped", "aborted", "killed"}
  /\ batch \subseteq {listenfd, udpfd, pipefd} \cup ConnFds
  /\ ready \subseteq {listenfd, udpfd, pipefd} \cup ConnFds
  /\ sockfd \in ConnFds \cup {NULL}
  /\ conn \in [ConnFds -> Clients \cup {NULL}]
  /\ backlog \in Seq(Clients)
  /\ peer \in [Clients -> {"out", "up", "fin", "rst"}]
  /\ unread \in [Clients -> 0 .. MaxSay]
  /\ datagrams \in Seq(Askers \cup {NULL}) /\ waiting \subseteq Askers
  /\ pipe \in Seq({"SIGCHLD", "SIGTERM"}) /\ stop_server \in BOOLEAN
  /\ mail \in 0 .. MaxMail

\* epoll_LT_ET_servertest.cpp:37 and 65: an event that is told once obliges the
\* handler to read everything, one that is repeated does not.  In the servers
\* that read, a connection with something to read is never without an event.
UnreadHasEvent ==
  /\ TypeOK
  /\ Running /\ program # "sig" =>
       \A f \in ConnFds : Readable(f) => f \in ready \cup batch \cup {sockfd}

\* epoll_sig.cpp:85 and epoll_tcp_udp.cpp:73 assert that accept succeeds on a
\* descriptor that does not block.  Since every event takes one client, and no
\* client makes two events, an event always finds one: the assertion fails only
\* when the process has no descriptor left.
AbortsOnlyWithoutFds == pc = "aborted" => FreeFds = {}

\* epoll_tcp_udp.cpp:83 reads one datagram per event, so one that arrives behind
\* another may be left without an event.  But none is lost, and never do all askers
\* wait without an event to come: one that has its answer asks again, and its event
\* serves the oldest.  (An empty datagram uses up an event and is not answered.)
SomeAskerIsServed ==
  Running =>
    /\ \A a \in waiting : \E j \in DOMAIN datagrams : datagrams[j] = a
    /\ mail = 0 /\ waiting = Askers => udpfd \in ready \cup batch

\* epoll_sig.cpp:102 looks at every byte that one recv has returned: a SIGTERM
\* whose byte has arrived ends the server, whatever signals came before it and
\* although the bytes are told by one event.
StopsWhenTold ==
  (\E j \in DOMAIN pipe : pipe[j] \in StopSignals) ~> pc \in {"stopped", "aborted"}

=============================================================================
