---------------------------- MODULE SelectServer ----------------------------
(***************************************************************************)
(* The echo server of unp/selectserver_test.c: one thread multiplexes the  *)
(* listening socket and all the clients with select, on blocking sockets.  *)
(*                                                                         *)
(* A client that disconnects is taken out of rset, the copy select works   *)
(* on, and not out of allset (line 68).  The next select therefore fails   *)
(* with EBADF and leaves rset as it is; the server takes that for a        *)
(* connection request and blocks in accept, deaf to all its clients until  *)
(* somebody connects and happens to get the closed descriptor.             *)
(*                                                                         *)
(* Data is counted in chunks: one read returns one chunk.  Operators named *)
(* Operation_Slip are mistakes that show what the properties notice.       *)
(***************************************************************************)
EXTENDS Integers, Sequences, FiniteSets, FiniteSetsExt, SequencesExt

CONSTANTS Clients,   \* each has one connection at a time
          NULL,
          MaxFd,     \* the largest descriptor the process may have
          MaxUnread  \* bound: chunks a client sends ahead of the server

\* client[] has FD_SETSIZE places, one for every descriptor a process may have
\* by default; the model keeps it that large.
FD_SETSIZE == MaxFd + 1

ASSUME SelectServerAssumption == NULL \notin Clients /\ MaxFd \in Nat /\ MaxUnread \in Nat

listenfd == 3
ConnFds  == 4 .. MaxFd
Indexes  == 0 .. (FD_SETSIZE - 1)

VARIABLES
  \* the server
  client,     \* the descriptors of the connected clients, -1 where free
  maxi,       \* the largest index of client in use so far
  allset, rset, nready,
  i,          \* the loop variable of the walk through client
  pc,         \* "select", "accept", "serve", or "quit" (err_quit) or "killed"
  \* the kernel
  conn,       \* the client behind every descriptor, or NULL
  backlog,    \* clients connected and not accepted
  \* the clients
  status,     \* "closed", "backlog" or "open", as the server has it
  peer,       \* what the server's kernel knows of a client: "up", "fin", "rst",
              \* or "err" once the reset has been reported
  unread      \* chunks sent and not read

server == <<client, maxi, allset, rset, nready, i, pc>>
world  == <<conn, backlog, status, peer, unread>>
vars   == <<server, world>>

Running == pc \in {"select", "accept", "serve"}

Readable(f) ==
  IF f = listenfd THEN backlog # <<>>
  ELSE conn[f] # NULL /\ (unread[conn[f]] > 0 \/ peer[conn[f]] # "up")

Init ==
  /\ client = [k \in Indexes |-> -1]
  /\ maxi = -1
  /\ allset = {listenfd}
  /\ rset = {} /\ nready = 0 /\ i = 0
  /\ pc = "select"
  /\ conn = [f \in ConnFds |-> NULL]
  /\ backlog = <<>>
  /\ status = [c \in Clients |-> "closed"]
  /\ peer = [c \in Clients |-> "up"]
  /\ unread = [c \in Clients |-> 0]

-----------------------------------------------------------------------------
(* Clients. *)

Connect(c) ==
  /\ Running
  /\ status[c] = "closed"
  /\ status' = [status EXCEPT ![c] = "backlog"]
  /\ backlog' = Append(backlog, c)
  /\ UNCHANGED <<server, conn, peer, unread>>

Send(c) ==
  /\ Running
  /\ status[c] # "closed" /\ peer[c] = "up"
  /\ unread[c] < MaxUnread
  /\ unread' = [unread EXCEPT ![c] = @ + 1]
  /\ UNCHANGED <<server, conn, backlog, status, peer>>

Leave(c) ==
  /\ Running
  /\ status[c] # "closed" /\ peer[c] = "up"
  /\ \/ peer' = [peer EXCEPT ![c] = "fin"] /\ UNCHANGED unread
     \/ /\ peer' = [peer EXCEPT ![c] = "rst"]
        /\ \E n \in {0, unread[c]} : unread' = [unread EXCEPT ![c] = n]
  /\ UNCHANGED <<server, conn, backlog, status>>

-----------------------------------------------------------------------------
(* The server. *)

\* Where the loop goes with nready descriptors left to handle.
AfterOne_OnlyZero(more) == pc' = IF nready' = 0 THEN "select" ELSE more

AfterOne(more) == pc' = IF nready' <= 0 THEN "select" ELSE more

\* select returns the readable descriptors, and only if there are any.
Select_CountLess ==
  /\ pc = "select"
  /\ \A f \in allset \cap ConnFds : conn[f] # NULL
  /\ rset' = {f \in allset : Readable(f)}
  /\ rset' # {}
  /\ nready' = Cardinality(rset' \ {listenfd})
  /\ pc' = IF listenfd \in rset' THEN "accept" ELSE "serve"
  /\ i' = 0
  /\ UNCHANGED <<client, maxi, allset, world>>

Select ==
  /\ pc = "select"
  /\ \A f \in allset \cap ConnFds : conn[f] # NULL
  /\ rset' = {f \in allset : Readable(f)}
  /\ rset' # {}
  /\ nready' = Cardinality(rset')
  /\ pc' = IF listenfd \in rset' THEN "accept" ELSE "serve"
  /\ i' = 0
  /\ UNCHANGED <<client, maxi, allset, world>>

\* A descriptor of allset is closed: select returns -1, rset stays as copied.
SelectFails ==
  /\ pc = "select"
  /\ \E f \in allset \cap ConnFds : conn[f] = NULL
  /\ rset' = allset
  /\ nready' = -1
  /\ pc' = "accept"
  /\ i' = 0
  /\ UNCHANGED <<client, maxi, allset, world>>

\* accept blocks until somebody has connected.  With no descriptor left it
\* fails, getsockname fails then, and err_quit ends the program.
Accept_KeepMaxi ==
  /\ pc = "accept" /\ backlog # <<>>
  /\ LET free == {f \in ConnFds : conn[f] = NULL}
         f    == Min(free)
         k    == Min({j \in Indexes : client[j] < 0})
     IN  /\ free # {}
         /\ backlog' = Tail(backlog)
         /\ conn' = [conn EXCEPT ![f] = Head(backlog)]
         /\ status' = [status EXCEPT ![Head(backlog)] = "open"]
         /\ client' = [client EXCEPT ![k] = f]
         /\ allset' = allset \cup {f}
         /\ nready' = nready - 1
         /\ AfterOne("serve")
  /\ UNCHANGED <<maxi, rset, i, peer, unread>>

Accept ==
  /\ pc = "accept" /\ backlog # <<>>
  /\ LET free == {f \in ConnFds : conn[f] = NULL}
         f    == Min(free)
         k    == Min({j \in Indexes : client[j] < 0})
     IN  \/ /\ free = {}
            /\ pc' = "quit"
            /\ UNCHANGED <<client, maxi, allset, nready, conn, backlog, status>>
         \/ /\ free # {}
            /\ backlog' = Tail(backlog)
            /\ conn' = [conn EXCEPT ![f] = Head(backlog)]
            /\ status' = [status EXCEPT ![Head(backlog)] = "open"]
            /\ client' = [client EXCEPT ![k] = f]
            /\ allset' = allset \cup {f}
            /\ maxi' = IF k > maxi THEN k ELSE maxi
            /\ nready' = nready - 1
            /\ AfterOne("serve")
  /\ UNCHANGED <<rset, i, peer, unread>>

\* The walk through client: places that are free or not ready are passed over.
\* It always ends with "--nready <= 0": NothingSkipped shows that the loop
\* condition i <= maxi never does it, so that way out is not an action.
Ready == i <= maxi /\ client[i] >= 0 /\ client[i] \in rset

PassOver ==
  /\ pc = "serve"
  /\ i <= maxi /\ ~Ready
  /\ i' = i + 1
  /\ UNCHANGED <<client, maxi, allset, rset, nready, pc, world>>

\* read returns 0.
ServeEof_KeepPlace ==
  LET c == conn[client[i]]
  IN  /\ pc = "serve" /\ Ready
      /\ unread[c] = 0 /\ peer[c] \in {"fin", "err"}
      /\ conn' = [conn EXCEPT ![client[i]] = NULL]
      /\ status' = [status EXCEPT ![c] = "closed"]
      /\ peer' = [peer EXCEPT ![c] = "up"]
      /\ rset' = rset \ {client[i]}
      /\ nready' = nready - 1
      /\ AfterOne("serve")
      /\ i' = i + 1
      /\ UNCHANGED <<client, maxi, allset, backlog, unread>>

ServeEof ==
  LET c == conn[client[i]]
  IN  /\ pc = "serve" /\ Ready
      /\ unread[c] = 0 /\ peer[c] \in {"fin", "err"}
      /\ conn' = [conn EXCEPT ![client[i]] = NULL]
      /\ status' = [status EXCEPT ![c] = "closed"]
      /\ peer' = [peer EXCEPT ![c] = "up"]
      /\ rset' = rset \ {client[i]}
      /\ client' = [client EXCEPT ![i] = -1]
      /\ nready' = nready - 1
      /\ AfterOne("serve")
      /\ i' = i + 1
      /\ UNCHANGED <<maxi, allset, backlog, unread>>

\* read returns -1 after a reset, once; the write of -1 bytes fails.
ServeReset ==
  LET c == conn[client[i]]
  IN  /\ pc = "serve" /\ Ready
      /\ unread[c] = 0 /\ peer[c] = "rst"
      /\ peer' = [peer EXCEPT ![c] = "err"]
      /\ nready' = nready - 1
      /\ AfterOne("serve")
      /\ i' = i + 1
      /\ UNCHANGED <<client, maxi, allset, rset, conn, backlog, status, unread>>

\* read returns data, which is written back.  A client that has left may answer
\* with a reset, and a write to a connection that is reset raises SIGPIPE.
ServeData ==
  LET c == conn[client[i]]
  IN  /\ pc = "serve" /\ Ready
      /\ unread[c] > 0
      /\ \E n \in 1 .. unread[c] : unread' = [unread EXCEPT ![c] = @ - n]
      /\ i' = i + 1
      /\ nready' = nready - 1
      /\ \/ /\ peer[c] = "rst"
            /\ pc' = "killed"
            /\ UNCHANGED peer
         \/ /\ peer[c] # "rst"
            /\ \E p \in {peer[c]} \cup (IF peer[c] = "fin" THEN {"rst"} ELSE {}) :
                 peer' = [peer EXCEPT ![c] = p]
            /\ AfterOne("serve")
      /\ UNCHANGED <<client, maxi, allset, rset, conn, backlog, status>>

Server ==
  \/ Select \/ SelectFails \/ Accept
  \/ PassOver
  \/ ServeEof \/ ServeReset \/ ServeData

Next == (\E c \in Clients : Connect(c) \/ Send(c) \/ Leave(c)) \/ Server

Spec == Init /\ [][Next]_vars

\* The server process is scheduled whenever it can run.
FairSpec == Spec /\ WF_vars(Server)

-----------------------------------------------------------------------------

TypeOK ==
  /\ client \in [Indexes -> ConnFds \cup {-1}]
  /\ maxi \in {-1} \cup Indexes
  /\ allset \subseteq {listenfd} \cup ConnFds
  /\ rset \subseteq allset
  /\ nready \in -2 .. Cardinality(allset)
  /\ i \in Nat
  /\ pc \in {"select", "accept", "serve", "quit", "killed"}
  /\ conn \in [ConnFds -> Clients \cup {NULL}]
  /\ backlog \in Seq(Clients)
  /\ status \in [Clients -> {"closed", "backlog", "open"}]
  /\ peer \in [Clients -> {"up", "fin", "rst", "err"}]
  /\ unread \in [Clients -> 0 .. MaxUnread]

\* Every open connection, and no other, has exactly one place in client[], one
\* the walk reaches; select watches it.  This survives the descriptors that stay
\* in allset after they were closed and are then given to other clients.
OpenIsServed ==
  /\ TypeOK
  /\ \A f \in ConnFds : conn[f] # NULL =>
       /\ f \in allset
       /\ Cardinality({k \in 0 .. maxi : client[k] = f}) = 1
  /\ \A k \in Indexes : client[k] >= 0 => conn[client[k]] # NULL

\* The server, whose sockets block, reads only where something is to be read;
\* otherwise one silent client would stop the service of all the others.  In
\* particular the server never serves from the rset of a failed select.
NeverBlocksInRead == pc = "serve" /\ Ready => Readable(client[i])

\* nready is exactly the number of ready clients the walk still has before it,
\* whatever the descriptors and places: so the walk stops behind the last of
\* them, not before, and the next select does not come while one is left.
NothingSkipped ==
  /\ pc = "serve" =>
       nready > 0 /\ nready = Cardinality({k \in i .. maxi : client[k] \in rset})
  /\ pc = "select" /\ nready >= 0 => \A k \in i .. maxi : client[k] \notin rset

\* A client that has sent something is read again and again until nothing is
\* left, if the server lives and no client has left a closed descriptor in
\* allset.
Served ==
  \A c \in Clients :
    <>[](/\ unread[c] > 0 /\ Running
         /\ \A f \in allset \cap ConnFds : conn[f] # NULL)
      => []<><<unread'[c] < unread[c]>>_unread

=============================================================================
