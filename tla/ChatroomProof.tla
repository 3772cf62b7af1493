---------------------------- MODULE ChatroomProof ----------------------------
(***************************************************************************)
(* Proofs about the chat server, for every set of clients, whoever of them *)
(* is slow, every size of the descriptor table and any amount of talking.  *)
(***************************************************************************)
EXTENDS MCChatroom, FiniteSetTheorems, SequenceTheorems, WellFoundedInduction, TLAPS

USE ChatroomAssumption DEF ConnFds, listenfd

-----------------------------------------------------------------------------
(* Descriptors. *)

\* accept returns a free descriptor.
LEMMA MinFd ==
  ASSUME NEW S \in SUBSET ConnFds, S # {}
  PROVE  Min(S) \in S
<1>1. S \subseteq Nat
  OBVIOUS
<1>2. PICK m \in S : \A f \in S : <<f, m>> \notin OpToRel(<, Nat)
  BY <1>1, NatLessThanWellFounded, WFMin
<1>3. OpToRel(<, Nat) = {p \in Nat \X Nat : p[1] < p[2]}
  BY DEF OpToRel
<1>4. ASSUME NEW f \in S
      PROVE  m <= f
  <2>1. f \in Nat /\ m \in Nat
    BY <1>1
  <2>2. <<f, m>> \notin {p \in Nat \X Nat : p[1] < p[2]}
    BY <1>2, <1>3
  <2> QED BY <2>1, <2>2
<1> QED BY <1>4 DEF Min

LEMMA FdIs ==
  ASSUME Connections, NEW f \in ConnFds, conn[f] # NULL
  PROVE  Fd(conn[f]) = f
<1>1. /\ Fd(conn[f]) \in ConnFds
      /\ conn[Fd(conn[f])] = conn[f]
  BY DEF Fd
<1> QED BY <1>1 DEF Connections

\* Where an open client's connection is.
LEMMA OpenHasFd ==
  ASSUME TypeOK, Connections, NEW c \in Clients, status[c] = "open"
  PROVE  Fd(c) \in ConnFds /\ conn[Fd(c)] = c
BY DEF Connections, Fd

\* A chunk is sent to every open client but the one it came from.
LEMMA EntriesAre ==
  ASSUME TypeOK, Connections, sockfd \in ConnFds, conn[sockfd] # NULL, NEW d \in Clients
  PROVE  /\ Entries(d) \in Nat
         /\ status[d] = "open" => (Entries(d) > 0 <=> d # conn[sockfd])
<1> DEFINE J == {j \in DOMAIN client_list_fd :
                   client_list_fd[j] # sockfd /\ conn[client_list_fd[j]] = d}
<1>1. IsFiniteSet(DOMAIN client_list_fd)
  <2>1. DOMAIN client_list_fd = 1 .. Len(client_list_fd) /\ Len(client_list_fd) \in Nat
    BY DEF TypeOK
  <2> QED BY <2>1, FS_Interval
<1>2. IsFiniteSet(J)
  BY <1>1, FS_Subset
<1>3. Cardinality(J) \in Nat /\ (Cardinality(J) = 0 <=> J = {})
  BY <1>2, FS_CardinalityType, FS_EmptySet
<1>4. ASSUME status[d] = "open"
      PROVE  J # {} <=> d # conn[sockfd]
  <2>1. PICK f \in ConnFds : conn[f] = d
    BY <1>4 DEF Connections
  <2>2. PICK j \in DOMAIN client_list_fd : client_list_fd[j] = f
    BY <2>1 DEF Connections, TypeOK
  <2>3. d # conn[sockfd] => j \in J
    BY <2>1, <2>2
  <2>4. ASSUME NEW k \in J PROVE d # conn[sockfd]
    <3>1. client_list_fd[k] \in ConnFds
      BY DEF TypeOK
    <3> QED BY <3>1 DEF Connections
  <2> QED BY <2>3, <2>4
<1>5. Entries(d) = Cardinality(J)
  BY DEF Entries
<1> QED BY <1>3, <1>4, <1>5

-----------------------------------------------------------------------------
(* Every step keeps the invariant. *)

LEMMA InitIInv == Init => IInv
<1> SUFFICES ASSUME Init PROVE IInv
  OBVIOUS
<1>1. TypeOK
  BY DEF Init, TypeOK
<1>2. EveryoneHears
  BY <1>1 DEF Init, EveryoneHears
<1>3. Connections /\ Waiting /\ Places
  BY DEF Init, Connections, Waiting, Places
<1>4. Announced /\ BooksKept
  BY DEF Init, Announced, Readable, BooksKept
<1> QED BY <1>2, <1>3, <1>4 DEF IInv

\* What is left of the invariant when the books do not change.
LEMMA HearsKept ==
  ASSUME EveryoneHears, TypeOK', UNCHANGED <<log, joined, copies>>,
         \A d \in Clients : status'[d] = "open" => status[d] = "open"
  PROVE  EveryoneHears'
BY DEF EveryoneHears, Meant

LEMMA ConnectIInv ==
  ASSUME IInv, NEW c \in Clients, Connect(c)
  PROVE  IInv'
<1> USE DEF IInv
<1>0. TypeOK
  BY DEF EveryoneHears
<1>1. TypeOK'
  BY <1>0 DEF TypeOK, Connect, server, history
<1>2. \A d \in Clients : status'[d] = "open" <=> status[d] = "open"
  BY <1>0 DEF TypeOK, Connect
<1>3. EveryoneHears'
  BY <1>1, <1>2, HearsKept DEF Connect, history
<1>4. Connections'
  <2>1. \A f \in ConnFds : conn[f] # NULL => conn[f] \in Clients
    BY <1>0 DEF TypeOK
  <2>2. UNCHANGED <<conn, client_list_fd>>
    BY DEF Connect, server
  <2> QED BY <1>2, <2>1, <2>2 DEF Connections
<1>5. Waiting'
  <2>1. /\ Len(backlog') = Len(backlog) + 1
        /\ \A i \in DOMAIN backlog : backlog'[i] = backlog[i]
        /\ backlog'[Len(backlog) + 1] = c
        /\ DOMAIN backlog' = 1 .. Len(backlog) + 1
        /\ DOMAIN backlog = 1 .. Len(backlog)
        /\ Len(backlog) \in Nat
    <3>1. backlog \in Seq(Clients) /\ backlog' = Append(backlog, c)
      BY <1>0 DEF TypeOK, Connect
    <3>2. backlog' \in Seq(Clients)
      BY <3>1, AppendProperties
    <3> QED BY <3>1, <3>2, AppendProperties, LenProperties
  <2>2. \A i \in DOMAIN backlog : backlog[i] # c /\ backlog[i] \in Clients
    BY <1>0 DEF TypeOK, Waiting, Connect
  <2>3. \A i \in DOMAIN backlog' : i \in DOMAIN backlog \/ i = Len(backlog) + 1
    BY <2>1
  <2>4. \A i \in DOMAIN backlog' : status'[backlog'[i]] = "backlog"
    <3>1. status' = [status EXCEPT ![c] = "backlog"] /\ status \in [Clients -> {"closed", "backlog", "open"}]
      BY <1>0 DEF TypeOK, Connect
    <3> QED BY <2>1, <2>2, <2>3, <3>1 DEF Waiting
  <2>5. \A i, j \in DOMAIN backlog' : backlog'[i] = backlog'[j] => i = j
    BY <2>1, <2>2, <2>3 DEF Waiting
  <2>6. backlog' # <<>>
    BY <2>1
  <2> QED BY <2>4, <2>5, <2>6 DEF Waiting
<1>6. Places'
  BY DEF Places, Connect, server
<1>7. Announced'
  BY DEF Announced, Running, Readable, Connect, server
<1>8. BooksKept'
  BY <1>2 DEF BooksKept, Connect, history
<1> QED BY <1>3, <1>4, <1>5, <1>6, <1>7, <1>8

\* A client that has something new to be read, or has gone, is announced.
LEMMA NotifyAnnounces ==
  ASSUME TypeOK, Connections, Announced, NEW c \in Clients, Notify(c), Running,
         UNCHANGED <<pc, batch, sockfd, conn>>,
         \A d \in Clients : d # c => unread'[d] = unread[d] /\ peer'[d] = peer[d]
  PROVE  Announced'
<1> SUFFICES ASSUME NEW f \in ConnFds, Readable(f)'
             PROVE  f \in ready' \cup batch \/ (pc = "recv" /\ f = sockfd)
  BY DEF Announced
<1>1. conn[f] # NULL /\ conn[f] \in Clients
  BY DEF Readable, TypeOK
<1>2. CASE conn[f] = c
  <2>1. f = Fd(c) /\ status[c] = "open"
    BY <1>1, <1>2, FdIs DEF Connections
  <2> QED BY <2>1 DEF Notify
<1>3. CASE conn[f] # c
  <2>1. Readable(f)
    BY <1>1, <1>3 DEF Readable
  <2> QED BY <2>1 DEF Announced, Notify
<1> QED BY <1>2, <1>3

LEMMA SayIInv ==
  ASSUME IInv, NEW c \in Clients, Say(c)
  PROVE  IInv'
<1> USE DEF IInv
<1>0. TypeOK
  BY DEF EveryoneHears
<1>1. TypeOK'
  <2>1. unread' \in [Clients -> 0 .. MaxSay]
    BY <1>0 DEF TypeOK, BooksKept, Say
  <2>2. ready' \subseteq {listenfd} \cup ConnFds
    BY <1>0, OpenHasFd DEF TypeOK, Say, Notify
  <2> QED BY <1>0, <2>1, <2>2 DEF TypeOK, Say, server, history
<1>2. EveryoneHears'
  BY <1>1, HearsKept DEF Say, history
<1>3. Connections' /\ Waiting' /\ Places'
  BY DEF Connections, Waiting, Places, Say, server
<1>4. Announced'
  BY <1>0, NotifyAnnounces DEF TypeOK, Say, server
<1>5. BooksKept'
  BY <1>0 DEF TypeOK, BooksKept, Say, history
<1> QED BY <1>2, <1>3, <1>4, <1>5

LEMMA LeaveIInv ==
  ASSUME IInv, NEW c \in Clients, Leave(c)
  PROVE  IInv'
<1> USE DEF IInv
<1>0. TypeOK
  BY DEF EveryoneHears
<1>1. /\ peer' \in [Clients -> {"up", "fin", "rst"}]
      /\ \A d \in Clients : d # c => peer'[d] = peer[d]
      /\ unread' \in [Clients -> 0 .. MaxSay]
      /\ \A d \in Clients : d # c => unread'[d] = unread[d]
      /\ \A d \in Clients : unread'[d] <= unread[d]
  <2>1. PICK n \in {0, unread[c]}, end \in {"fin", "rst"} :
          unread' = [unread EXCEPT ![c] = n] /\ peer' = [peer EXCEPT ![c] = end]
    BY <1>0 DEF TypeOK, Leave
  <2>2. n \in 0 .. MaxSay /\ n <= unread[c]
    BY <1>0 DEF TypeOK
  <2> QED BY <1>0, <2>1, <2>2 DEF TypeOK
<1>2. TypeOK'
  <2>1. ready' \subseteq {listenfd} \cup ConnFds
    BY <1>0, OpenHasFd DEF TypeOK, Leave, Notify
  <2> QED BY <1>0, <1>1, <2>1 DEF TypeOK, Leave, server, history
<1>3. EveryoneHears'
  BY <1>2, HearsKept DEF Leave, history
<1>4. Connections' /\ Waiting' /\ Places'
  BY DEF Connections, Waiting, Places, Leave, server
<1>5. Announced'
  BY <1>0, <1>1, NotifyAnnounces DEF Leave, server
<1>6. BooksKept'
  BY <1>0, <1>1 DEF TypeOK, BooksKept, Leave, history
<1> QED BY <1>3, <1>4, <1>5, <1>6

LEMMA EpollWaitIInv ==
  ASSUME IInv, EpollWait
  PROVE  IInv'
<1> USE DEF IInv
<1>1. TypeOK'
  BY DEF EveryoneHears, TypeOK, EpollWait, peers, history
<1>2. EveryoneHears'
  BY <1>1, HearsKept DEF EpollWait, peers, history
<1>3. Connections' /\ Waiting' /\ Places'
  BY DEF Connections, Waiting, Places, Readable, EpollWait, peers
<1>4. Announced'
  BY DEF Announced, Places, Running, Readable, EpollWait, peers
<1>5. BooksKept'
  BY DEF BooksKept, EpollWait, peers, history
<1> QED BY <1>2, <1>3, <1>4, <1>5

\* The end of a batch, of a read and of the process, and the next event.
LEMMA QuietIInv ==
  ASSUME IInv, AcceptFails \/ EndBatch \/ RecvNothing \/ RecvDataKilled
               \/ (\E f \in ConnFds : ReadEvent(f))
  PROVE  IInv'
<1> USE DEF IInv
<1>0. /\ UNCHANGED <<client_list_fd, kernel, peers, history>>
      /\ pc' \in {"wait", "batch", "recv", "aborted", "killed"}
      /\ batch' \subseteq batch
      /\ sockfd' \in ConnFds \cup {NULL}
  BY DEF EveryoneHears, TypeOK, AcceptFails, EndBatch, RecvNothing, RecvDataKilled, ReadEvent
<1>1. TypeOK'
  BY <1>0 DEF EveryoneHears, TypeOK, kernel, peers, history
<1>2. EveryoneHears'
  BY <1>0, <1>1, HearsKept DEF peers, history
<1>3. Connections' /\ Waiting'
  BY <1>0 DEF Connections, Waiting, kernel, peers
<1>4. Places'
  BY DEF Places, AcceptFails, EndBatch, RecvNothing, RecvDataKilled, ReadEvent
<1>5. Announced'
  <2>1. \A f \in ConnFds : Readable(f)' <=> Readable(f)
    BY <1>0 DEF Readable, kernel, peers
  <2>2. CASE AcceptFails \/ RecvDataKilled
    BY <2>2 DEF Announced, Running, AcceptFails, RecvDataKilled
  <2>3. CASE EndBatch
    BY <2>1, <2>3 DEF Announced, Running, EndBatch, kernel
  <2>4. CASE RecvNothing
    BY <2>1, <2>4 DEF Announced, Running, RecvNothing, kernel
  <2>5. ASSUME NEW g \in ConnFds, ReadEvent(g) PROVE Announced'
    BY <2>1, <2>5 DEF Announced, Running, ReadEvent, kernel
  <2> QED BY <2>2, <2>3, <2>4, <2>5
<1>6. BooksKept'
  BY <1>0 DEF BooksKept, peers, history
<1> QED BY <1>2, <1>3, <1>4, <1>5, <1>6

LEMMA AcceptIInv ==
  ASSUME IInv, Accept
  PROVE  IInv'
<1> USE DEF IInv
<1>0. TypeOK
  BY DEF EveryoneHears
<1> DEFINE f == Min(FreeFds)
           c == Head(backlog)
           n == Len(client_list_fd)
<1>1. f \in ConnFds /\ conn[f] = NULL
  BY MinFd DEF FreeFds, Accept
<1>2. /\ backlog # <<>> /\ c = backlog[1] /\ 1 \in DOMAIN backlog /\ Len(backlog) \in Nat
      /\ c \in Clients /\ status[c] = "backlog"
      /\ backlog' = Tail(backlog) /\ backlog' \in Seq(Clients)
      /\ DOMAIN backlog' = 1 .. Len(backlog) - 1 /\ DOMAIN backlog = 1 .. Len(backlog)
      /\ \A i \in DOMAIN backlog' : backlog'[i] = backlog[i + 1]
  <2>1. backlog \in Seq(Clients) /\ backlog # <<>> /\ backlog' = Tail(backlog)
    BY <1>0 DEF TypeOK, Waiting, Accept
  <2>2. /\ 1 \in DOMAIN backlog /\ Len(backlog) \in Nat /\ DOMAIN backlog = 1 .. Len(backlog)
        /\ Head(backlog) = backlog[1] /\ backlog[1] \in Clients
    BY <2>1
  <2>3. /\ Tail(backlog) \in Seq(Clients) /\ DOMAIN Tail(backlog) = 1 .. Len(backlog) - 1
        /\ \A i \in 1 .. Len(backlog) - 1 : Tail(backlog)[i] = backlog[i + 1]
    BY <2>1, HeadTailProperties
  <2> QED BY <2>1, <2>2, <2>3 DEF Waiting
<1> HIDE DEF f, c
<1>3. /\ conn' = [conn EXCEPT ![f] = c]
      /\ client_list_fd' = Append(client_list_fd, f)
      /\ status' = [status EXCEPT ![c] = "open"]
      /\ joined' = [joined EXCEPT ![c] = Len(log)]
      /\ copies' = [copies EXCEPT ![c] = [i \in DOMAIN log |-> 0]]
      /\ ready' = IF unread[c] > 0 \/ peer[c] # "up" THEN ready \cup {f} ELSE ready
      /\ batch' = batch \ {listenfd}
      /\ UNCHANGED <<pc, sockfd, peer, unread, said, log>>
  BY DEF Accept, f, c
<1>4. /\ client_list_fd' \in Seq(ConnFds)
      /\ DOMAIN client_list_fd' = 1 .. n + 1 /\ DOMAIN client_list_fd = 1 .. n /\ n \in Nat
      /\ client_list_fd'[n + 1] = f
      /\ \A j \in DOMAIN client_list_fd : client_list_fd'[j] = client_list_fd[j]
  BY <1>0, <1>1, <1>3 DEF TypeOK
<1>5. log \in Seq(Clients) /\ Len(log) \in Nat /\ DOMAIN log = 1 .. Len(log)
  BY <1>0 DEF TypeOK
<1>6. TypeOK'
  <2>1. [i \in DOMAIN log |-> 0] \in Seq(Nat)
    BY <1>5
  <2> QED BY <1>0, <1>1, <1>2, <1>3, <1>4, <1>5, <2>1 DEF TypeOK
<1>7. EveryoneHears'
  <2>1. ASSUME NEW d \in Clients, status'[d] = "open", d # c
        PROVE  /\ status[d] = "open"
               /\ copies'[d] = copies[d] /\ joined'[d] = joined[d]
    BY <1>0, <1>3, <2>1 DEF TypeOK
  <2>2. copies'[c] = [i \in DOMAIN log |-> 0] /\ joined'[c] = Len(log)
    BY <1>0, <1>2, <1>3 DEF TypeOK
  <2>3. \A i \in DOMAIN log : copies'[c][i] = 0 /\ ~(i > joined'[c])
    BY <1>5, <2>2
  <2>4. ASSUME NEW d \in Clients, status'[d] = "open", NEW i \in DOMAIN log
        PROVE  /\ copies'[d][i] > 0 => i > joined'[d] /\ log[i] # d
               /\ i > joined'[d] /\ log[i] # d /\ d \notin Slow => copies'[d][i] > 0
    <3>1. CASE d = c
      BY <2>3, <3>1
    <3>2. CASE d # c
      BY <2>1, <2>4, <3>2 DEF EveryoneHears, Meant
    <3> QED BY <3>1, <3>2
  <2> QED BY <1>3, <1>6, <2>4 DEF EveryoneHears, Meant
<1>8. Connections'
  <2>1. \A g \in ConnFds : g # f => conn'[g] = conn[g]
    BY <1>0, <1>1, <1>3 DEF TypeOK
  <2>2. conn'[f] = c /\ c # NULL
    BY <1>0, <1>1, <1>2, <1>3 DEF TypeOK
  <2>3. \A g \in ConnFds : conn[g] # c
    BY <1>0, <1>2, <2>2 DEF TypeOK, Connections
  <2>4. \A d \in Clients : status'[d] = "open" <=> status[d] = "open" \/ d = c
    BY <1>0, <1>2, <1>3 DEF TypeOK
  <2>5. \A g, h \in ConnFds : conn'[g] # NULL /\ conn'[g] = conn'[h] => g = h
    BY <2>1, <2>2, <2>3 DEF Connections
  <2>6. ASSUME NEW g \in ConnFds, conn'[g] # NULL
        PROVE  /\ status'[conn'[g]] = "open"
               /\ \E j \in DOMAIN client_list_fd' : client_list_fd'[j] = g
    <3>1. CASE g = f
      <4>1. n + 1 \in DOMAIN client_list_fd' /\ client_list_fd'[n + 1] = g
        BY <1>4, <3>1
      <4>2. status'[conn'[g]] = "open"
        BY <1>2, <2>2, <2>4, <3>1
      <4> QED BY <4>1, <4>2
    <3>2. CASE g # f
      <4>1. conn'[g] = conn[g] /\ conn[g] \in Clients
        BY <1>0, <2>1, <2>6, <3>2 DEF TypeOK
      <4>2. status[conn[g]] = "open"
        BY <2>6, <4>1 DEF Connections
      <4>3. PICK j \in DOMAIN client_list_fd : client_list_fd[j] = g
        BY <2>6, <4>1 DEF Connections
      <4>4. j \in DOMAIN client_list_fd' /\ client_list_fd'[j] = g
        BY <1>4, <4>3
      <4> QED BY <2>4, <4>1, <4>2, <4>4
    <3> QED BY <3>1, <3>2
  <2>7. \A d \in Clients : status'[d] = "open" => \E g \in ConnFds : conn'[g] = d
    <3>1. \A g \in ConnFds : conn[g] # NULL => g # f
      BY <1>1
    <3> QED BY <1>1, <2>1, <2>2, <2>4, <3>1 DEF Connections
  <2> QED BY <2>5, <2>6, <2>7 DEF Connections
<1>9. Waiting'
  <2>1. \A i \in DOMAIN backlog' : i + 1 \in DOMAIN backlog /\ i + 1 # 1
    BY <1>2
  <2>2. \A i \in DOMAIN backlog' : status'[backlog'[i]] = "backlog"
    <3>1. ASSUME NEW i \in DOMAIN backlog'
          PROVE  status'[backlog'[i]] = "backlog"
      <4>1. backlog'[i] = backlog[i + 1] /\ backlog[i + 1] \in Clients
        BY <1>0, <1>2, <2>1 DEF TypeOK
      <4>2. backlog[i + 1] # c
        BY <1>2, <2>1 DEF Waiting
      <4>3. status[backlog[i + 1]] = "backlog"
        BY <2>1 DEF Waiting
      <4> QED BY <1>0, <1>3, <4>1, <4>2, <4>3 DEF TypeOK
    <3> QED BY <3>1
  <2>3. \A i, j \in DOMAIN backlog' : backlog'[i] = backlog'[j] => i = j
    BY <1>2, <2>1 DEF Waiting
  <2>4. listenfd \notin batch'
    BY <1>3
  <2> QED BY <2>2, <2>3, <2>4 DEF Waiting
<1>10. Places'
  BY <1>3 DEF Places, Accept
<1>11. Announced'
  <2> SUFFICES ASSUME NEW g \in ConnFds, Running, Readable(g)'
               PROVE  g \in ready' \cup batch' \/ (pc = "recv" /\ g = sockfd)
    BY <1>3 DEF Announced, Running
  <2>1. CASE g = f
    BY <1>0, <1>1, <1>2, <1>3, <2>1 DEF TypeOK, Readable
  <2>2. CASE g # f
    <3>1. Readable(g)
      BY <1>0, <1>1, <1>3, <2>2 DEF TypeOK, Readable
    <3> QED BY <1>3, <3>1 DEF Announced
  <2> QED BY <2>1, <2>2
<1>12. BooksKept'
  <2>1. Len([i \in DOMAIN log |-> 0]) = Len(log)
    BY <1>5
  <2> QED BY <1>0, <1>2, <1>3, <1>5, <2>1 DEF TypeOK, BooksKept
<1> QED BY <1>7, <1>8, <1>9, <1>10, <1>11, <1>12

\* close(sockfd), whatever the loop does next.
LEMMA CloseIInv ==
  ASSUME IInv, RecvReset \/ RecvEof
  PROVE  IInv'
<1> USE DEF IInv
<1>0. TypeOK
  BY DEF EveryoneHears
<1> DEFINE c == conn[sockfd]
<1>1. pc = "recv" /\ sockfd \in ConnFds /\ c \in Clients /\ c # NULL
  BY <1>0 DEF Places, TypeOK, RecvReset, RecvEof
<1>2. /\ conn' = [conn EXCEPT ![sockfd] = NULL]
      /\ ready' = ready \ {sockfd}
      /\ status' = [status EXCEPT ![c] = "closed"]
      /\ peer' = [peer EXCEPT ![c] = "up"]
      /\ unread' = [unread EXCEPT ![c] = 0]
      /\ copies' = [copies EXCEPT ![c] = <<>>]
      /\ joined' = [joined EXCEPT ![c] = 0]
      /\ UNCHANGED <<client_list_fd, batch, backlog, said, log>>
      /\ \/ pc' = "batch" /\ sockfd' = NULL
         \/ UNCHANGED <<pc, sockfd>>
  BY DEF RecvReset, RecvEof, Close
<1>3. \A f \in ConnFds : f # sockfd => conn'[f] = conn[f] /\ conn[f] # c
  BY <1>0, <1>1, <1>2 DEF TypeOK, Connections
<1>4. conn'[sockfd] = NULL
  BY <1>0, <1>1, <1>2 DEF TypeOK
<1> HIDE DEF c
<1>5. \A d \in Clients : d # c => /\ status'[d] = status[d] /\ peer'[d] = peer[d]
                                  /\ unread'[d] = unread[d] /\ copies'[d] = copies[d]
                                  /\ joined'[d] = joined[d]
  BY <1>0, <1>2 DEF TypeOK
<1>6. status'[c] = "closed" /\ unread'[c] = 0
  BY <1>0, <1>1, <1>2 DEF TypeOK
<1>7. TypeOK'
  <2>1. <<>> \in Seq(Nat)
    OBVIOUS
  <2> QED BY <1>0, <1>1, <1>2, <2>1 DEF TypeOK
<1>8. EveryoneHears'
  BY <1>2, <1>5, <1>6, <1>7 DEF EveryoneHears, Meant
<1>9. Connections'
  <2>1. \A f, g \in ConnFds : conn'[f] # NULL /\ conn'[f] = conn'[g] => f = g
    BY <1>3, <1>4 DEF Connections
  <2>2. ASSUME NEW f \in ConnFds, conn'[f] # NULL
        PROVE  /\ status'[conn'[f]] = "open"
               /\ \E j \in DOMAIN client_list_fd' : client_list_fd'[j] = f
    <3>1. f # sockfd /\ conn'[f] = conn[f] /\ conn[f] # c /\ conn[f] \in Clients
      BY <1>0, <1>3, <1>4, <2>2 DEF TypeOK
    <3> QED BY <1>2, <1>5, <2>2, <3>1 DEF Connections
  <2>3. ASSUME NEW d \in Clients, status'[d] = "open"
        PROVE  \E f \in ConnFds : conn'[f] = d
    <3>1. d # c /\ status[d] = "open"
      BY <1>5, <1>6, <2>3
    <3>2. PICK f \in ConnFds : conn[f] = d
      BY <3>1 DEF Connections
    <3>3. f # sockfd
      BY <3>1, <3>2 DEF c
    <3> QED BY <1>3, <3>2, <3>3
  <2> QED BY <2>1, <2>2, <2>3 DEF Connections
<1>10. Waiting'
  <2>1. status[c] = "open"
    BY <1>1 DEF Connections, c
  <2>2. \A i \in DOMAIN backlog : backlog[i] # c /\ backlog[i] \in Clients
    BY <1>0, <2>1 DEF TypeOK, Waiting
  <2> QED BY <1>2, <1>5, <2>2 DEF Waiting
<1>11. Places'
  BY <1>1, <1>2 DEF Places
<1>12. Announced'
  <2> SUFFICES ASSUME NEW f \in ConnFds, Readable(f)'
               PROVE  f \in ready' \cup batch'
    BY DEF Announced
  <2>1. f # sockfd /\ conn'[f] = conn[f] /\ conn[f] # c /\ conn[f] # NULL
    BY <1>3, <1>4 DEF Readable
  <2>2. Readable(f)
    BY <1>0, <1>5, <2>1 DEF TypeOK, Readable
  <2> QED BY <1>1, <1>2, <2>1, <2>2 DEF Announced, Running
<1>13. BooksKept'
  BY <1>0, <1>2, <1>5, <1>6 DEF TypeOK, BooksKept
<1> QED BY <1>8, <1>9, <1>10, <1>11, <1>12, <1>13

LEMMA RecvDataIInv ==
  ASSUME IInv, RecvData
  PROVE  IInv'
<1> USE DEF IInv
<1>0. TypeOK
  BY DEF EveryoneHears
<1> DEFINE c == conn[sockfd]
           n == Len(log)
<1>1. pc = "recv" /\ sockfd \in ConnFds /\ c \in Clients /\ c # NULL
  BY <1>0 DEF Places, TypeOK, RecvData
<1>2. /\ log' = Append(log, c)
      /\ UNCHANGED <<client_list_fd, pc, batch, sockfd, conn, backlog, status, said, joined>>
  BY DEF RecvData, Broadcast, server
<1>3. PICK lost \in SUBSET Slow :
        copies' = [d \in Clients |->
                     IF status[d] # "open" THEN copies[d]
                     ELSE Append(copies[d], IF d \in lost THEN 0 ELSE Entries(d))]
  BY DEF RecvData, Broadcast
<1>4. /\ unread' \in [Clients -> 0 .. MaxSay]
      /\ \A d \in Clients : unread'[d] <= unread[d]
  BY <1>0, <1>1 DEF TypeOK, RecvData
<1>5. PICK answer \in SUBSET {d \in Clients : Entries(d) > 0 /\ peer[d] = "fin"} :
        /\ peer' = [d \in Clients |-> IF d \in answer THEN "rst" ELSE peer[d]]
        /\ ready' = ready \cup {Fd(d) : d \in answer}
  BY DEF RecvData
<1>6. \A d \in Clients : Entries(d) \in Nat
  BY <1>0, <1>1, EntriesAre
<1>7. /\ n \in Nat /\ DOMAIN log = 1 .. n /\ DOMAIN log' = 1 .. n + 1
      /\ log' \in Seq(Clients) /\ log'[n + 1] = c
      /\ \A i \in 1 .. n : log'[i] = log[i]
      /\ Len(log') = n + 1
  BY <1>0, <1>1, <1>2 DEF TypeOK
<1> HIDE DEF c, n
<1>8. ASSUME NEW d \in Clients
      PROVE  /\ copies'[d] \in Seq(Nat)
             /\ status[d] = "open" =>
                  /\ Len(copies'[d]) = n + 1
                  /\ \A i \in 1 .. n : copies'[d][i] = copies[d][i]
                  /\ copies'[d][n + 1] = 0 \/ copies'[d][n + 1] = Entries(d)
                  /\ d \notin Slow => copies'[d][n + 1] = Entries(d)
  <2>1. copies[d] \in Seq(Nat) /\ (status[d] = "open" => Len(copies[d]) = n)
    BY <1>0 DEF TypeOK, BooksKept, n
  <2>2. PICK k \in Nat : /\ status[d] = "open" => copies'[d] = Append(copies[d], k)
                         /\ k = 0 \/ k = Entries(d)
                         /\ d \notin Slow => k = Entries(d)
    BY <1>3, <1>6
  <2>3. status[d] # "open" => copies'[d] = copies[d]
    BY <1>3
  <2>4. ASSUME status[d] = "open"
        PROVE  /\ copies'[d] \in Seq(Nat) /\ Len(copies'[d]) = n + 1
               /\ \A i \in 1 .. n : copies'[d][i] = copies[d][i]
               /\ copies'[d][n + 1] = k
    <3>1. copies[d] \in Seq(Nat) /\ Len(copies[d]) = n /\ copies'[d] = Append(copies[d], k)
      BY <2>1, <2>2, <2>4
    <3> QED BY <3>1, AppendProperties
  <2> QED BY <2>1, <2>2, <2>3, <2>4
<1>9. TypeOK'
  <2>1. copies' \in [Clients -> Seq(Nat)]
    BY <1>3, <1>8
  <2>2. ready' \subseteq {listenfd} \cup ConnFds
    <3>1. ASSUME NEW d \in answer PROVE Fd(d) \in ConnFds
      <4>1. \E j \in DOMAIN client_list_fd : conn[client_list_fd[j]] = d
        <5> SUFFICES ASSUME \A j \in DOMAIN client_list_fd : conn[client_list_fd[j]] # d
                     PROVE  Entries(d) = 0
          BY <1>5
        <5>1. {j \in DOMAIN client_list_fd :
                 client_list_fd[j] # sockfd /\ conn[client_list_fd[j]] = d} = {}
          OBVIOUS
        <5> QED BY <5>1, FS_EmptySet DEF Entries
      <4>2. \E f \in ConnFds : conn[f] = d
        BY <1>0, <4>1 DEF TypeOK
      <4> QED BY <4>2 DEF Fd
    <3>2. {Fd(d) : d \in answer} \subseteq ConnFds
      BY <3>1
    <3> QED BY <1>0, <1>5, <3>2 DEF TypeOK
  <2>3. peer' \in [Clients -> {"up", "fin", "rst"}]
    BY <1>0, <1>5 DEF TypeOK
  <2> QED BY <1>0, <1>2, <1>4, <1>7, <2>1, <2>2, <2>3 DEF TypeOK
<1>10. BooksKept'
  BY <1>0, <1>2, <1>4, <1>7, <1>8 DEF TypeOK, BooksKept, n
<1>11. EveryoneHears'
  <2> SUFFICES ASSUME NEW d \in Clients, status[d] = "open", NEW i \in 1 .. n + 1
               PROVE  /\ copies'[d][i] > 0 => Meant(d, i)'
                      /\ Meant(d, i)' /\ d \notin Slow => copies'[d][i] > 0
    BY <1>2, <1>7, <1>9 DEF EveryoneHears
  <2>1. CASE i \in 1 .. n
    <3>1. copies'[d][i] = copies[d][i] /\ log'[i] = log[i] /\ joined'[d] = joined[d]
      BY <1>2, <1>7, <1>8, <2>1
    <3>2. i \in DOMAIN log
      BY <1>7, <2>1
    <3> QED BY <3>1, <3>2 DEF EveryoneHears, Meant
  <2>2. CASE i = n + 1
    <3>1. joined'[d] < n + 1
      BY <1>0, <1>2, <1>7 DEF TypeOK, BooksKept, n
    <3>2. Meant(d, i)' <=> d # c
      BY <1>0, <1>2, <1>7, <2>2, <3>1 DEF TypeOK, Meant
    <3>3. Entries(d) > 0 <=> d # c
      BY <1>0, <1>1, EntriesAre DEF c
    <3> QED BY <1>6, <1>8, <2>2, <3>2, <3>3
  <2> QED BY <1>7, <2>1, <2>2
<1>12. Connections' /\ Waiting' /\ Places'
  BY <1>2 DEF Connections, Waiting, Places
<1>13. Announced'
  <2> SUFFICES ASSUME NEW f \in ConnFds, Running, Readable(f)'
               PROVE  f \in ready \cup batch \/ (pc = "recv" /\ f = sockfd)
    BY <1>2, <1>5 DEF Announced, Running
  <2>1. conn[f] # NULL /\ conn[f] \in Clients
    BY <1>0, <1>2 DEF TypeOK, Readable
  <2>2. Readable(f)
    <3>1. unread'[conn[f]] > 0 => unread[conn[f]] > 0
      BY <1>0, <1>4, <2>1 DEF TypeOK
    <3>2. peer'[conn[f]] # "up" => peer[conn[f]] # "up"
      BY <1>5, <2>1
    <3> QED BY <1>2, <2>1, <3>1, <3>2 DEF Readable
  <2> QED BY <2>2 DEF Announced
<1> QED BY <1>10, <1>11, <1>12, <1>13

\* The inductive invariant of Chatroom.
THEOREM ChatInvariance == Spec => []IInv
<1>1. IInv /\ [Next]_vars => IInv'
  <2> SUFFICES ASSUME IInv, [Next]_vars PROVE IInv'
    OBVIOUS
  <2>1. CASE \E c \in Clients : Connect(c) \/ Say(c) \/ Leave(c)
    BY <2>1, ConnectIInv, SayIInv, LeaveIInv
  <2>2. CASE Server
    BY <2>2, EpollWaitIInv, AcceptIInv, QuietIInv, CloseIInv, RecvDataIInv DEF Server
  <2>3. CASE UNCHANGED vars
    <3> USE <2>3 DEF IInv, vars, server, kernel, peers, history
    <3>1. EveryoneHears'
      BY HearsKept DEF EveryoneHears, TypeOK
    <3>2. Connections' /\ Waiting' /\ Places'
      BY DEF Connections, Waiting, Places
    <3>3. Announced' /\ BooksKept'
      BY DEF Announced, Running, Readable, BooksKept
    <3> QED BY <3>1, <3>2, <3>3
  <2> QED BY <2>1, <2>2, <2>3 DEF Next
<1> QED BY <1>1, InitIInv, PTL DEF Spec

\* epoll_chatroom.cpp:83: every chunk reaches every accepted client but the one it
\* comes from, although client_list_fd keeps what was closed and reused.
THEOREM EveryoneIsHeard == Spec => []EveryoneHears
<1>1. IInv => EveryoneHears BY DEF IInv
<1> QED BY <1>1, ChatInvariance, PTL

\* epoll_chatroom.cpp:70: the loop until EAGAIN leaves nothing without an event.
THEOREM NothingIsMissed == Spec => []UnreadHasEvent
<1>1. IInv => UnreadHasEvent BY DEF IInv, Announced, UnreadHasEvent
<1> QED BY <1>1, ChatInvariance, PTL

=============================================================================
