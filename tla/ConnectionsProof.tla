-------------------------- MODULE ConnectionsProof --------------------------
(***************************************************************************)
(* Proofs about what servers do with connections: the epoll servers for    *)
(* every set of clients, every limit of descriptors and every amount of    *)
(* data; the CGI worker for every stream and every buffer; the HTTP parser *)
(* for every stream, every buffer and every way to cut the stream.         *)
(***************************************************************************)
EXTENDS MCConnections, WellFoundedInduction, TLAPS

\* Among some numbers one is the least.
LEMMA HasLeast ==
  ASSUME NEW S \in SUBSET Nat, S # {}
  PROVE  \E m \in S : \A f \in S : m <= f
<1>1. PICK m \in S : \A f \in S : <<f, m>> \notin OpToRel(<, Nat)
  BY NatLessThanWellFounded, WFMin
<1>2. OpToRel(<, Nat) = {p \in Nat \X Nat : p[1] < p[2]}
  BY DEF OpToRel
<1>3. ASSUME NEW f \in S PROVE m <= f
  <2>1. f \in Nat /\ m \in Nat
    OBVIOUS
  <2>2. <<f, m>> \notin {p \in Nat \X Nat : p[1] < p[2]}
    BY <1>1, <1>2
  <2> QED BY <2>1, <2>2
<1> QED BY <1>3

-----------------------------------------------------------------------------
(* The epoll servers. *)

\* What goes with the places of the loop.
Places ==
  /\ at = "wait" => batch = {}
  /\ at \in {"wait", "batch"} => sockfd = NULL
  /\ at = "recv" => sockfd \in Epoll!ConnFds

\* An event of a level-triggered descriptor is repeated while there is data.
Repeated ==
  Epoll!Running /\ program = "LT" => \A f \in Epoll!ConnFds : Epoll!Readable(f) => f \in ready

\* An event in the batch has something to be handled.
Handleable ==
  Epoll!Running =>
    /\ Epoll!listenfd \in batch => backlog # <<>>
    /\ Epoll!udpfd \in batch => datagrams # <<>>
    /\ mail = 0 => datagrams \in Seq(Askers)

EpollIInv ==
  /\ Places /\ Repeated /\ Handleable
  /\ UnreadHasEvent /\ AbortsOnlyWithoutFds /\ SomeAskerIsServed

LEMMA AppendIs ==
  ASSUME NEW S, NEW q \in Seq(S), NEW e \in S
  PROVE  Append(q, e) \in Seq(S)
OBVIOUS

LEMMA EpollFds ==
  /\ Epoll!ConnFds \subseteq Nat
  /\ Epoll!listenfd \notin Epoll!ConnFds /\ Epoll!udpfd \notin Epoll!ConnFds
  /\ Epoll!pipefd \notin Epoll!ConnFds
  /\ Epoll!listenfd # Epoll!udpfd /\ Epoll!listenfd # Epoll!pipefd /\ Epoll!udpfd # Epoll!pipefd
BY ConnectionsAssumption DEF Epoll!ConnFds, Epoll!listenfd, Epoll!udpfd, Epoll!pipefd

LEMMA ReadableIs ==
  /\ Epoll!Readable(Epoll!listenfd) <=> backlog # <<>>
  /\ Epoll!Readable(Epoll!udpfd) <=> datagrams # <<>>
  /\ \A f \in Epoll!ConnFds :
       Epoll!Readable(f) <=> conn[f] # NULL /\ (unread[conn[f]] > 0 \/ peer[conn[f]] # "up")
BY EpollFds DEF Epoll!Readable

LEMMA ReadableNext ==
  \A f \in Epoll!ConnFds :
    Epoll!Readable(f)' <=> conn'[f] # NULL /\ (unread'[conn'[f]] > 0 \/ peer'[conn'[f]] # "up")
BY EpollFds DEF Epoll!Readable

\* A process takes a descriptor that is free and within its limit.
LEMMA LowestFree ==
  ASSUME limit \in Epoll!ConnFds, Epoll!FreeFds # {}
  PROVE  Epoll!Min(Epoll!FreeFds) \in Epoll!ConnFds
<1>1. Epoll!FreeFds \subseteq Epoll!ConnFds /\ Epoll!FreeFds \subseteq Nat
  BY ConnectionsAssumption DEF Epoll!FreeFds, Epoll!ConnFds
<1>2. PICK m \in Epoll!FreeFds : \A f \in Epoll!FreeFds : m <= f
  BY <1>1, HasLeast
<1>3. Epoll!Min(Epoll!FreeFds) \in Epoll!FreeFds
  BY <1>2 DEF Epoll!Min
<1> QED BY <1>1, <1>3

LEMMA EpollInitInv == Epoll!Init => EpollIInv
<1> SUFFICES ASSUME Epoll!Init PROVE EpollIInv
  OBVIOUS
<1>1. Epoll!TypeOK
  <2>1. conn \in [Epoll!ConnFds -> Clients \cup {NULL}] /\ peer \in [Clients -> {"out", "up", "fin", "rst"}]
    BY DEF Epoll!Init
  <2>2. unread \in [Clients -> 0 .. MaxSay]
    BY ConnectionsAssumption DEF Epoll!Init
  <2>3. backlog \in Seq(Clients) /\ datagrams \in Seq(Askers \cup {NULL}) /\ datagrams \in Seq(Askers)
        /\ pipe \in Seq({"SIGCHLD", "SIGTERM"})
    BY DEF Epoll!Init
  <2>4. mail \in 0 .. MaxMail
    <3>1. mail = 0
      BY DEF Epoll!Init
    <3> QED BY <3>1, ConnectionsAssumption
  <2>6. stop_server \in BOOLEAN /\ waiting \subseteq Askers
    BY DEF Epoll!Init
  <2>5. /\ batch = {} /\ ready = {} /\ sockfd = NULL /\ at = "wait"
        /\ program \in {"sig", "tcpudp", "ET", "LT"} /\ limit \in Epoll!ConnFds
    BY DEF Epoll!Init
  <2> QED BY <2>1, <2>2, <2>3, <2>4, <2>5, <2>6 DEF Epoll!TypeOK
<1>2. \A f \in Epoll!ConnFds : ~Epoll!Readable(f)
  BY ReadableIs DEF Epoll!Init
<1>3. UnreadHasEvent /\ Repeated
  BY <1>1, <1>2 DEF UnreadHasEvent, Epoll!UnreadHasEvent, Repeated
<1>4. Places /\ AbortsOnlyWithoutFds
  BY DEF Epoll!Init, Places, AbortsOnlyWithoutFds, Epoll!AbortsOnlyWithoutFds
<1>5. Handleable
  BY DEF Epoll!Init, Handleable
<1>6. SomeAskerIsServed
  BY ConnectionsAssumption DEF Epoll!Init, SomeAskerIsServed, Epoll!SomeAskerIsServed
<1> QED BY <1>3, <1>4, <1>5, <1>6 DEF EpollIInv

LEMMA EpollTypeStep ==
  ASSUME EpollIInv, Epoll!Next
  PROVE  Epoll!TypeOK'
<1> USE DEF Epoll!TypeOK, Epoll!server, Epoll!kernel, Epoll!tcp, Epoll!udp, Epoll!sig, Epoll!vars
<1>0. Epoll!TypeOK /\ Places /\ Handleable
  BY DEF EpollIInv, UnreadHasEvent, Epoll!UnreadHasEvent
<1>1. ASSUME NEW c \in Clients, Epoll!Connect(c) PROVE Epoll!TypeOK'
  <2>1. backlog' \in Seq(Clients) /\ peer' \in [Clients -> {"out", "up", "fin", "rst"}]
    BY <1>0, <1>1 DEF Epoll!Connect
  <2> QED BY <1>0, <1>1, <2>1 DEF Epoll!Connect
<1>2. ASSUME NEW c \in Clients, Epoll!Say(c) PROVE Epoll!TypeOK'
  <2>1. unread' \in [Clients -> 0 .. MaxSay]
    BY <1>0, <1>2, ConnectionsAssumption DEF Epoll!Say
  <2>2. ready' \subseteq {Epoll!listenfd, Epoll!udpfd, Epoll!pipefd} \cup Epoll!ConnFds
    BY <1>0, <1>2 DEF Epoll!Say, Epoll!Edge
  <2> QED BY <1>0, <1>2, <2>1, <2>2 DEF Epoll!Say
<1>3. ASSUME NEW c \in Clients, Epoll!Leave(c) PROVE Epoll!TypeOK'
  <2>1. unread' \in [Clients -> 0 .. MaxSay]
    <3>1. CASE UNCHANGED unread
      BY <1>0, <3>1
    <3>2. CASE \E n \in {0, unread[c]} : unread' = [unread EXCEPT ![c] = n]
      <4>1. PICK n \in {0, unread[c]} : unread' = [unread EXCEPT ![c] = n]
        BY <3>2
      <4>2. n \in 0 .. MaxSay
        BY <1>0, ConnectionsAssumption
      <4> QED BY <1>0, <4>1, <4>2
    <3> QED BY <1>3, <3>1, <3>2 DEF Epoll!Leave
  <2>3. peer' \in [Clients -> {"out", "up", "fin", "rst"}]
    BY <1>0, <1>3 DEF Epoll!Leave
  <2>2. ready' \subseteq {Epoll!listenfd, Epoll!udpfd, Epoll!pipefd} \cup Epoll!ConnFds
    BY <1>0, <1>3 DEF Epoll!Leave, Epoll!Edge
  <2> QED BY <1>0, <1>3, <2>1, <2>2, <2>3 DEF Epoll!Leave
<1>4. ASSUME NEW a \in Askers, Epoll!Ask(a) PROVE Epoll!TypeOK'
  <2>1. datagrams' \in Seq(Askers \cup {NULL})
    BY <1>0, <1>4 DEF Epoll!Ask, Epoll!Datagram
  <2> QED BY <1>0, <1>4, <2>1 DEF Epoll!Ask, Epoll!Datagram
<1>5. ASSUME Epoll!AskEmpty PROVE Epoll!TypeOK'
  <2>1. datagrams' \in Seq(Askers \cup {NULL})
    BY <1>0, <1>5 DEF Epoll!AskEmpty, Epoll!Datagram
  <2>2. mail' \in 0 .. MaxMail
    BY <1>0, <1>5, ConnectionsAssumption DEF Epoll!AskEmpty
  <2> QED BY <1>0, <1>5, <2>1, <2>2 DEF Epoll!AskEmpty, Epoll!Datagram
<1>6. ASSUME NEW s \in {"SIGCHLD", "SIGTERM"}, Epoll!Signal(s) PROVE Epoll!TypeOK'
  <2>1. pipe' \in Seq({"SIGCHLD", "SIGTERM"})
    <3>1. pipe' = pipe \/ pipe' = Append(pipe, s)
      BY <1>6 DEF Epoll!Signal
    <3>2. pipe \in Seq({"SIGCHLD", "SIGTERM"})
      BY <1>0
    <3>3. Append(pipe, s) \in Seq({"SIGCHLD", "SIGTERM"})
      BY <3>2, AppendIs, Zenon
    <3> QED BY ONLY <3>1, <3>2, <3>3, Zenon
  <2>2. mail' \in 0 .. MaxMail
    BY <1>0, <1>6, ConnectionsAssumption DEF Epoll!Signal
  <2>3. ready' \subseteq {Epoll!listenfd, Epoll!udpfd, Epoll!pipefd} \cup Epoll!ConnFds
    BY <1>0, <1>6 DEF Epoll!Signal
  <2> QED BY <1>0, <1>6, <2>1, <2>2, <2>3 DEF Epoll!Signal
<1>7. ASSUME Epoll!Interrupted PROVE Epoll!TypeOK'
  BY <1>0, <1>7 DEF Epoll!Interrupted
<1>8. ASSUME Epoll!EpollWait PROVE Epoll!TypeOK'
  BY <1>0, <1>8 DEF Epoll!EpollWait
<1>9. ASSUME Epoll!Accept PROVE Epoll!TypeOK'
  <2>1. Head(backlog) \in Clients /\ backlog' \in Seq(Clients)
    BY <1>0, <1>9 DEF Epoll!Accept
  <2>2. Epoll!Min(Epoll!FreeFds) \in Epoll!ConnFds
    BY <1>0, <1>9, LowestFree DEF Epoll!Accept
  <2>3. conn' \in [Epoll!ConnFds -> Clients \cup {NULL}]
    BY <1>0, <1>9, <2>1, <2>2 DEF Epoll!Accept
  <2>4. ready' \subseteq {Epoll!listenfd, Epoll!udpfd, Epoll!pipefd} \cup Epoll!ConnFds
    <3>1. ready' = ready \/ ready' = ready \cup {Epoll!Min(Epoll!FreeFds)}
      <4>1. ready' = IF unread[Head(backlog)] > 0 \/ peer[Head(backlog)] # "up"
                     THEN ready \cup {Epoll!Min(Epoll!FreeFds)} ELSE ready
        BY <1>9, SMT DEF Epoll!Accept
      <4> QED BY ONLY <4>1
    <3> QED BY <1>0, <2>2, <3>1
  <2> QED BY <1>0, <1>9, <2>1, <2>3, <2>4 DEF Epoll!Accept, Epoll!Handled
<1>10. ASSUME Epoll!AcceptFails PROVE Epoll!TypeOK'
  BY <1>0, <1>10 DEF Epoll!AcceptFails
<1>11. ASSUME Epoll!UdpEvent PROVE Epoll!TypeOK'
  <2>1. datagrams' \in Seq(Askers \cup {NULL})
    <3>1. datagrams # <<>>
      BY <1>0, <1>11 DEF Epoll!UdpEvent, Handleable, Epoll!Running
    <3> QED BY <1>0, <1>11, <3>1 DEF Epoll!UdpEvent, Epoll!RestOf
  <2> QED BY <1>0, <1>11, <2>1 DEF Epoll!UdpEvent, Epoll!Handled
<1>12. ASSUME Epoll!PipeEvent PROVE Epoll!TypeOK'
  <2>1. stop_server' \in BOOLEAN
    BY <1>0, <1>12 DEF Epoll!PipeEvent
  <2>2. pipe' \in Seq({"SIGCHLD", "SIGTERM"})
    BY <1>12 DEF Epoll!PipeEvent
  <2> QED BY <1>0, <1>12, <2>1, <2>2 DEF Epoll!PipeEvent, Epoll!Handled
<1>13. ASSUME NEW f \in Epoll!ConnFds, Epoll!ConnEvent(f) PROVE Epoll!TypeOK'
  BY <1>0, <1>13 DEF Epoll!ConnEvent, Epoll!Handled
<1>14. ASSUME Epoll!EndBatch PROVE Epoll!TypeOK'
  BY <1>0, <1>14 DEF Epoll!EndBatch
<1>15. ASSUME Epoll!RecvNothing PROVE Epoll!TypeOK'
  BY <1>0, <1>15 DEF Epoll!RecvNothing, Epoll!LeaveLoop
<1>16. ASSUME Epoll!RecvEnd PROVE Epoll!TypeOK'
  <2>1. conn' \in [Epoll!ConnFds -> Clients \cup {NULL}]
    BY <1>0, <1>16 DEF Epoll!RecvEnd, Epoll!Close
  <2>2. ready' \subseteq ready
    BY <1>16 DEF Epoll!RecvEnd, Epoll!Close
  <2>3. at' \in {at, "batch"} /\ sockfd' \in {sockfd, NULL}
    BY <1>16 DEF Epoll!RecvEnd, Epoll!GoOn, Epoll!LeaveLoop
  <2> QED BY <1>0, <1>16, <2>1, <2>2, <2>3 DEF Epoll!RecvEnd
<1>17. ASSUME Epoll!RecvData PROVE Epoll!TypeOK'
  <2>1. sockfd \in Epoll!ConnFds /\ conn[sockfd] \in Clients
    BY <1>0, <1>17 DEF Epoll!RecvData, Places
  <2>2. unread' \in [Clients -> 0 .. MaxSay]
    <3>1. PICK n \in 1 .. unread[conn[sockfd]] :
            unread' = [unread EXCEPT ![conn[sockfd]] = @ - n]
      BY <1>17 DEF Epoll!RecvData
    <3> QED BY <1>0, <2>1, <3>1, ConnectionsAssumption
  <2>3. peer' \in [Clients -> {"out", "up", "fin", "rst"}]
    BY <1>0, <1>17 DEF Epoll!RecvData
  <2>4. ready' \subseteq {Epoll!listenfd, Epoll!udpfd, Epoll!pipefd} \cup Epoll!ConnFds
    BY <1>0, <1>17, <2>1 DEF Epoll!RecvData
  <2>5. at' \in {at, "batch"} /\ sockfd' \in {sockfd, NULL}
    BY <1>17 DEF Epoll!RecvData, Epoll!GoOn, Epoll!LeaveLoop
  <2> QED BY <1>0, <1>17, <2>2, <2>3, <2>4, <2>5 DEF Epoll!RecvData
<1>18. ASSUME Epoll!RecvDataKilled PROVE Epoll!TypeOK'
  BY <1>0, <1>18 DEF Epoll!RecvDataKilled
<1> QED BY <1>1, <1>2, <1>3, <1>4, <1>5, <1>6, <1>7, <1>8, <1>9, <1>10, <1>11, <1>12, <1>13, <1>14,
           <1>15, <1>16, <1>17, <1>18 DEF Epoll!Next, Epoll!Server

LEMMA PlacesStep ==
  ASSUME EpollIInv, Epoll!Next
  PROVE  Places'
<1> USE DEF Places, Epoll!server, Epoll!kernel, Epoll!tcp, Epoll!udp, Epoll!sig
<1>0. Epoll!TypeOK /\ Places
  BY DEF EpollIInv, UnreadHasEvent, Epoll!UnreadHasEvent
<1>1. CASE \E c \in Clients : Epoll!Connect(c) \/ Epoll!Say(c) \/ Epoll!Leave(c)
  BY <1>0, <1>1 DEF Epoll!Connect, Epoll!Say, Epoll!Leave
<1>2. CASE (\E a \in Askers : Epoll!Ask(a)) \/ Epoll!AskEmpty
  BY <1>0, <1>2 DEF Epoll!Ask, Epoll!AskEmpty, Epoll!Datagram
<1>3. CASE \E s \in {"SIGCHLD", "SIGTERM"} : Epoll!Signal(s)
  BY <1>0, <1>3 DEF Epoll!Signal
<1>4. CASE Epoll!Interrupted \/ Epoll!EpollWait \/ Epoll!EndBatch \/ Epoll!AcceptFails
  BY <1>0, <1>4 DEF Epoll!Interrupted, Epoll!EpollWait, Epoll!EndBatch, Epoll!AcceptFails
<1>5. CASE Epoll!Accept \/ Epoll!UdpEvent \/ Epoll!PipeEvent
  BY <1>0, <1>5 DEF Epoll!Accept, Epoll!UdpEvent, Epoll!PipeEvent
<1>6. CASE \E f \in Epoll!ConnFds : Epoll!ConnEvent(f)
  BY <1>0, <1>6 DEF Epoll!ConnEvent
<1>7. CASE Epoll!RecvNothing \/ Epoll!RecvEnd \/ Epoll!RecvData \/ Epoll!RecvDataKilled
  BY <1>0, <1>7 DEF Epoll!RecvNothing, Epoll!RecvEnd, Epoll!RecvData, Epoll!RecvDataKilled,
                    Epoll!GoOn, Epoll!LeaveLoop
<1> QED BY <1>1, <1>2, <1>3, <1>4, <1>5, <1>6, <1>7 DEF Epoll!Next, Epoll!Server

\* A connection that can be read after a step could be read before, or gets an
\* event by the step; and the step takes no event from one that can still be read.
LEMMA ReadableCovered ==
  ASSUME EpollIInv, Epoll!Next, Epoll!Running', NEW f \in Epoll!ConnFds, Epoll!Readable(f)'
  PROVE  /\ program # "sig" => f \in ready' \cup batch' \cup {sockfd'}
         /\ program = "LT" => f \in ready'
<1> USE DEF Epoll!server, Epoll!kernel, Epoll!tcp, Epoll!udp, Epoll!sig, Epoll!Handled
<1> DEFINE Covered  == /\ program # "sig" => f \in ready \cup batch \cup {sockfd}
                       /\ program = "LT" => f \in ready
           CoveredN == /\ program # "sig" => f \in ready' \cup batch' \cup {sockfd'}
                       /\ program = "LT" => f \in ready'
<1>0. Epoll!TypeOK /\ Places
  BY DEF EpollIInv, UnreadHasEvent, Epoll!UnreadHasEvent
<1>a. Epoll!Running /\ Epoll!Readable(f) => Covered
  BY DEF EpollIInv, UnreadHasEvent, Epoll!UnreadHasEvent, Repeated
<1>b. conn'[f] # NULL /\ (unread'[conn'[f]] > 0 \/ peer'[conn'[f]] # "up")
  BY ReadableNext
<1>c. conn[f] # NULL /\ (unread[conn[f]] > 0 \/ peer[conn[f]] # "up") => Epoll!Readable(f)
  BY ReadableIs
<1>d. /\ f # NULL /\ f # Epoll!listenfd /\ f # Epoll!udpfd /\ f # Epoll!pipefd
      /\ conn[f] \in Clients \cup {NULL}
  BY <1>0, EpollFds, ConnectionsAssumption DEF Epoll!TypeOK, Epoll!ConnFds
<1>1. ASSUME NEW c \in Clients, Epoll!Connect(c) PROVE CoveredN
  <2>1. conn[f] # NULL /\ (unread[conn[f]] > 0 \/ peer[conn[f]] # "up")
    BY <1>0, <1>1, <1>b, <1>d DEF Epoll!Connect, Epoll!TypeOK
  <2> QED BY <2>1, <1>1, <1>a, <1>c DEF Epoll!Connect
<1>2. ASSUME NEW c \in Clients, Epoll!Say(c) \/ Epoll!Leave(c) PROVE CoveredN
  <2>0. /\ UNCHANGED <<program, batch, sockfd, conn>> /\ Epoll!Running
        /\ ready' = ready \cup {g \in Epoll!ConnFds : conn[g] = c}
        /\ \A d \in Clients : d # c => unread'[d] = unread[d] /\ peer'[d] = peer[d]
    BY <1>0, <1>2 DEF Epoll!Say, Epoll!Leave, Epoll!Edge, Epoll!TypeOK
  <2>1. CASE conn[f] = c
    BY <2>0, <2>1
  <2>2. CASE conn[f] # c
    BY <2>0, <2>2, <1>a, <1>b, <1>c, <1>d
  <2> QED BY <2>1, <2>2
<1>3. ASSUME \/ (\E a \in Askers : Epoll!Ask(a)) \/ Epoll!AskEmpty
             \/ \E s \in {"SIGCHLD", "SIGTERM"} : Epoll!Signal(s)
      PROVE  CoveredN
  <2>1. /\ UNCHANGED <<program, batch, sockfd, conn, unread, peer>> /\ Epoll!Running
        /\ ready \subseteq ready'
    BY <1>3 DEF Epoll!Ask, Epoll!AskEmpty, Epoll!Datagram, Epoll!Signal
  <2> QED BY <2>1, <1>a, <1>b, <1>c
<1>4. ASSUME Epoll!Interrupted \/ Epoll!EndBatch PROVE CoveredN
  BY <1>4, <1>a, <1>b, <1>c DEF Epoll!Interrupted, Epoll!EndBatch, Epoll!Running
<1>5. ASSUME Epoll!EpollWait PROVE CoveredN
  <2>1. Epoll!Readable(f) /\ Epoll!Running
    BY <1>5, <1>b, <1>c DEF Epoll!EpollWait, Epoll!Running
  <2>2. batch = {} /\ sockfd = NULL
    BY <1>5, <1>0 DEF Epoll!EpollWait, Places
  <2>3. program # "sig" => f \in ready
    BY <2>1, <2>2, <1>a, <1>d
  <2>4. program # "sig" => f \in batch'
    BY <2>1, <2>3, <1>5 DEF Epoll!EpollWait
  <2>5. program = "LT" => f \in ready'
    BY <2>4, <1>5 DEF Epoll!EpollWait, Epoll!LevelTriggered
  <2> QED BY <2>4, <2>5
<1>6. ASSUME Epoll!Accept PROVE CoveredN
  <2> DEFINE c == Head(backlog)
             g == Epoll!Min(Epoll!FreeFds)
  <2>1. /\ conn' = [conn EXCEPT ![g] = c] /\ UNCHANGED <<program, sockfd, unread, peer>>
        /\ ready' = IF unread[c] > 0 \/ peer[c] # "up" THEN ready \cup {g} ELSE ready
        /\ batch' = batch \ {Epoll!listenfd} /\ Epoll!Running
    BY <1>6 DEF Epoll!Accept, Epoll!Running
  <2> HIDE DEF c, g
  <2>2. CASE f = g
    <3>1. conn'[f] = c
      BY <1>0, <2>1, <2>2 DEF Epoll!TypeOK
    <3> QED BY <3>1, <2>1, <2>2, <1>b
  <2>3. CASE f # g
    <3>1. conn'[f] = conn[f]
      BY <1>0, <2>1, <2>3 DEF Epoll!TypeOK
    <3> QED BY <3>1, <2>1, <1>a, <1>b, <1>c, <1>d
  <2> QED BY <2>2, <2>3
<1>7. ASSUME Epoll!AcceptFails PROVE CoveredN
  BY <1>7, <1>a, <1>b, <1>c, <1>d DEF Epoll!AcceptFails, Epoll!Running
<1>8. ASSUME Epoll!UdpEvent \/ Epoll!PipeEvent PROVE CoveredN
  BY <1>8, <1>a, <1>b, <1>c, <1>d DEF Epoll!UdpEvent, Epoll!PipeEvent, Epoll!Running
<1>9. ASSUME NEW g \in Epoll!ConnFds, Epoll!ConnEvent(g) PROVE CoveredN
  <2>1. /\ UNCHANGED <<program, conn, unread, peer, ready>> /\ Epoll!Running
        /\ batch' = batch \ {g} /\ sockfd = NULL
        /\ program # "sig" => sockfd' = g
    BY <1>9, <1>0 DEF Epoll!ConnEvent, Epoll!Running, Places
  <2> QED BY <2>1, <1>a, <1>b, <1>c, <1>d
<1>10. ASSUME Epoll!RecvNothing PROVE CoveredN
  <2>1. /\ UNCHANGED <<program, conn, unread, peer, ready, batch>> /\ Epoll!Running
        /\ ~Epoll!Readable(sockfd)
    BY <1>10 DEF Epoll!RecvNothing, Epoll!Running
  <2>2. Epoll!Readable(f)
    BY <2>1, <1>b, <1>c
  <2>3. f # sockfd
    BY <2>1, <2>2
  <2> QED BY <2>1, <2>2, <2>3, <1>a
<1>11. ASSUME Epoll!RecvEnd PROVE CoveredN
  <2>1. /\ UNCHANGED <<program, unread, peer, batch>> /\ Epoll!Running
        /\ conn' = [conn EXCEPT ![sockfd] = NULL] /\ ready' = ready \ {sockfd}
        /\ sockfd \in Epoll!ConnFds
    BY <1>11, <1>0 DEF Epoll!RecvEnd, Epoll!Close, Epoll!Running, Places
  <2>2. f # sockfd
    BY <2>1, <1>b, <1>0 DEF Epoll!TypeOK
  <2>3. conn'[f] = conn[f]
    BY <2>1, <2>2, <1>0 DEF Epoll!TypeOK
  <2> QED BY <2>1, <2>2, <2>3, <1>a, <1>b, <1>c
<1>12. ASSUME Epoll!RecvData PROVE CoveredN
  <2> DEFINE c == conn[sockfd]
  <2>1. /\ UNCHANGED <<program, batch, conn>> /\ Epoll!Running /\ ready \subseteq ready'
        /\ at = "recv" /\ sockfd \in Epoll!ConnFds /\ c \in Clients
    BY <1>12, <1>0 DEF Epoll!RecvData, Epoll!Running, Places, Epoll!TypeOK
  <2>2. PICK n \in 1 .. unread[c] : unread' = [unread EXCEPT ![c] = @ - n]
    BY <1>12 DEF Epoll!RecvData
  <2>3. \A d \in Clients : unread'[d] > 0 => unread[d] > 0
    BY <2>1, <2>2, <1>0, ConnectionsAssumption DEF Epoll!TypeOK
  <2>4. \A d \in Clients : peer'[d] # "up" => peer[d] # "up"
    BY <1>12, <2>1, <1>0 DEF Epoll!RecvData, Epoll!TypeOK
  <2>5. Epoll!Readable(f)
    BY <2>1, <2>3, <2>4, <1>b, <1>c, <1>d
  <2>6. program # "LT" => sockfd' = sockfd
    BY <1>12 DEF Epoll!RecvData, Epoll!GoOn, Epoll!ReadsOnce
  <2> QED BY <2>1, <2>5, <2>6, <1>a
<1>13. ~Epoll!RecvDataKilled
  BY DEF Epoll!RecvDataKilled, Epoll!Running
<1> QED BY <1>1, <1>2, <1>3, <1>4, <1>5, <1>6, <1>7, <1>8, <1>9, <1>10, <1>11, <1>12, <1>13
        DEF Epoll!Next, Epoll!Server

\* What the batch says of listenfd and udpfd stays true until it is handled.
LEMMA HandleableStep ==
  ASSUME EpollIInv, Epoll!Next, Epoll!TypeOK'
  PROVE  Handleable'
<1> USE DEF Epoll!server, Epoll!kernel, Epoll!tcp, Epoll!udp, Epoll!sig, Epoll!Running
<1> DEFINE Kept == /\ Epoll!listenfd \in batch' => backlog' # <<>>
                   /\ Epoll!udpfd \in batch' => datagrams' # <<>>
                   /\ mail' = 0 => datagrams' \in Seq(Askers)
<1>0. Epoll!TypeOK /\ Places /\ Handleable
  BY DEF EpollIInv, UnreadHasEvent, Epoll!UnreadHasEvent
<1>m. mail \in 0 .. MaxMail /\ MaxMail \in Nat
  BY <1>0, ConnectionsAssumption DEF Epoll!TypeOK
<1>1. ASSUME NEW c \in Clients, Epoll!Connect(c) PROVE Kept
  <2>1. backlog' # <<>>
    BY <1>0, <1>1 DEF Epoll!Connect, Epoll!TypeOK
  <2> QED BY <1>0, <1>1, <2>1 DEF Epoll!Connect, Handleable
<1>2. ASSUME NEW c \in Clients, Epoll!Say(c) \/ Epoll!Leave(c) PROVE Kept
  BY <1>0, <1>2 DEF Epoll!Say, Epoll!Leave, Handleable
<1>3. ASSUME NEW a \in Askers, Epoll!Ask(a) PROVE Kept
  <2>1. /\ datagrams' = Append(datagrams, a) /\ UNCHANGED <<batch, backlog, mail>>
        /\ at \in {"wait", "batch", "recv"}
    BY <1>3 DEF Epoll!Ask, Epoll!Datagram
  <2>2. datagrams \in Seq(Askers \cup {NULL})
    BY <1>0 DEF Epoll!TypeOK
  <2>3. datagrams' # <<>>
    BY <2>1, <2>2
  <2>4. mail = 0 => datagrams \in Seq(Askers)
    BY <1>0, <2>1 DEF Handleable
  <2>5. mail = 0 => datagrams' \in Seq(Askers)
    BY <2>1, <2>4
  <2> QED BY <1>0, <2>1, <2>3, <2>5 DEF Handleable
<1>4. ASSUME Epoll!AskEmpty PROVE Kept
  <2>1. /\ datagrams' = Append(datagrams, NULL) /\ UNCHANGED <<batch, backlog>> /\ mail' = mail + 1
        /\ at \in {"wait", "batch", "recv"}
    BY <1>4 DEF Epoll!AskEmpty, Epoll!Datagram
  <2>2. datagrams \in Seq(Askers \cup {NULL})
    BY <1>0 DEF Epoll!TypeOK
  <2>3. datagrams' # <<>>
    BY <2>1, <2>2
  <2>4. mail' # 0
    BY <2>1, <1>m
  <2> QED BY <1>0, <2>1, <2>3, <2>4 DEF Handleable
<1>5. ASSUME NEW s \in {"SIGCHLD", "SIGTERM"}, Epoll!Signal(s) PROVE Kept
  <2>1. UNCHANGED <<batch, backlog, datagrams>> /\ mail' = mail + 1 /\ at \in {"wait", "batch", "recv"}
    BY <1>5 DEF Epoll!Signal
  <2>2. mail' # 0
    BY <2>1, <1>m
  <2> QED BY <1>0, <2>1, <2>2 DEF Handleable
<1>6. ASSUME Epoll!EpollWait PROVE Kept
  <2>1. /\ Epoll!listenfd \in batch' => Epoll!Readable(Epoll!listenfd)
        /\ Epoll!udpfd \in batch' => Epoll!Readable(Epoll!udpfd)
        /\ UNCHANGED <<backlog, datagrams, mail>>
        /\ mail = 0 => datagrams \in Seq(Askers)
    BY <1>0, <1>6 DEF Epoll!EpollWait, Handleable
  <2> QED BY <2>1, ReadableIs
<1>7. ASSUME Epoll!Accept PROVE Kept
  BY <1>0, <1>7 DEF Epoll!Accept, Epoll!Handled, Handleable
<1>8. ASSUME Epoll!UdpEvent PROVE Kept
  <2>1. /\ batch' = batch \ {Epoll!udpfd} /\ datagrams' = Tail(datagrams) /\ datagrams # <<>>
        /\ UNCHANGED <<backlog, mail>>
        /\ mail = 0 => datagrams \in Seq(Askers)
    BY <1>0, <1>8 DEF Epoll!UdpEvent, Epoll!Handled, Epoll!RestOf, Handleable
  <2>2. mail = 0 => datagrams' \in Seq(Askers)
    BY <2>1
  <2>3. Epoll!listenfd \in batch => backlog # <<>>
    BY <1>0, <1>8 DEF Epoll!UdpEvent, Handleable
  <2> QED BY <2>1, <2>2, <2>3
<1>9. ASSUME Epoll!PipeEvent \/ \E f \in Epoll!ConnFds : Epoll!ConnEvent(f) PROVE Kept
  BY <1>0, <1>9 DEF Epoll!PipeEvent, Epoll!ConnEvent, Epoll!Handled, Handleable
<1>10. ASSUME Epoll!Interrupted \/ Epoll!EndBatch \/ Epoll!AcceptFails PROVE Kept
  BY <1>0, <1>10 DEF Epoll!Interrupted, Epoll!EndBatch, Epoll!AcceptFails, Handleable
<1>11. ASSUME Epoll!RecvNothing \/ Epoll!RecvEnd \/ Epoll!RecvData \/ Epoll!RecvDataKilled
       PROVE  Kept
  <2>1. /\ UNCHANGED <<batch, backlog, datagrams, mail>> /\ at = "recv"
    BY <1>11 DEF Epoll!RecvNothing, Epoll!RecvEnd, Epoll!RecvData, Epoll!RecvDataKilled
  <2> QED BY <2>1, <1>0 DEF Handleable
<1>12. Kept
  BY <1>1, <1>2, <1>3, <1>4, <1>5, <1>6, <1>7, <1>8, <1>9, <1>10, <1>11 DEF Epoll!Next, Epoll!Server
<1> QED BY <1>12 DEF Handleable, Epoll!listenfd, Epoll!udpfd

\* The assertion fails only in a step that finds the client which made the event.
LEMMA AbortsStep ==
  ASSUME EpollIInv, Epoll!Next
  PROVE  AbortsOnlyWithoutFds'
<1> USE DEF Epoll!server, Epoll!kernel, Epoll!tcp, Epoll!udp, Epoll!sig, Epoll!Running,
            AbortsOnlyWithoutFds, Epoll!AbortsOnlyWithoutFds
<1>0. Handleable /\ AbortsOnlyWithoutFds
  BY DEF EpollIInv
<1>1. CASE Epoll!AcceptFails
  <2>1. backlog # <<>>
    BY <1>0, <1>1 DEF Epoll!AcceptFails, Handleable
  <2>2. Epoll!FreeFds = {} /\ UNCHANGED <<conn, limit>>
    BY <1>1, <2>1 DEF Epoll!AcceptFails
  <2> QED BY <2>2 DEF Epoll!FreeFds
<1>2. CASE \/ \E c \in Clients : Epoll!Connect(c) \/ Epoll!Say(c) \/ Epoll!Leave(c)
           \/ (\E a \in Askers : Epoll!Ask(a)) \/ Epoll!AskEmpty
           \/ \E s \in {"SIGCHLD", "SIGTERM"} : Epoll!Signal(s)
  BY <1>2 DEF Epoll!Connect, Epoll!Say, Epoll!Leave, Epoll!Ask, Epoll!AskEmpty, Epoll!Datagram,
              Epoll!Signal
<1>3. CASE Epoll!Interrupted \/ Epoll!EpollWait \/ Epoll!EndBatch
  BY <1>3 DEF Epoll!Interrupted, Epoll!EpollWait, Epoll!EndBatch
<1>4. CASE \/ Epoll!Accept \/ Epoll!UdpEvent \/ Epoll!PipeEvent
           \/ \E f \in Epoll!ConnFds : Epoll!ConnEvent(f)
  BY <1>4 DEF Epoll!Accept, Epoll!UdpEvent, Epoll!PipeEvent, Epoll!ConnEvent
<1>5. CASE Epoll!RecvNothing \/ Epoll!RecvEnd \/ Epoll!RecvData \/ Epoll!RecvDataKilled
  BY <1>5 DEF Epoll!RecvNothing, Epoll!RecvEnd, Epoll!RecvData, Epoll!RecvDataKilled, Epoll!GoOn,
              Epoll!LeaveLoop
<1> QED BY <1>1, <1>2, <1>3, <1>4, <1>5 DEF Epoll!Next, Epoll!Server

\* Adding to a queue keeps what is in it; taking its head keeps all the others.
LEMMA QueueKeeps ==
  ASSUME NEW S, NEW q \in Seq(S), NEW a \in S, \E j \in DOMAIN q : q[j] = a
  PROVE  /\ \A e : \E j \in DOMAIN Append(q, e) : Append(q, e)[j] = a
         /\ Head(q) # a => \E j \in DOMAIN Tail(q) : Tail(q)[j] = a
<1>1. PICK j \in DOMAIN q : q[j] = a
  OBVIOUS
<1>2. ASSUME NEW e PROVE \E i \in DOMAIN Append(q, e) : Append(q, e)[i] = a
  <2>1. j \in DOMAIN Append(q, e) /\ Append(q, e)[j] = a
    BY <1>1
  <2> QED BY <2>1
<1>3. ASSUME Head(q) # a PROVE \E i \in DOMAIN Tail(q) : Tail(q)[i] = a
  <2>1. j # 1 /\ j \in 1 .. Len(q)
    BY <1>1, <1>3
  <2>2. j - 1 \in DOMAIN Tail(q) /\ Tail(q)[j - 1] = q[j]
    BY <2>1
  <2> QED BY <1>1, <2>2
<1> QED BY <1>2, <1>3

\* An asker that is answered does not wait, and the next one to wait makes an event.
LEMMA AskersStep ==
  ASSUME EpollIInv, Epoll!Next, Epoll!TypeOK'
  PROVE  SomeAskerIsServed'
<1> USE DEF Epoll!server, Epoll!kernel, Epoll!tcp, Epoll!udp, Epoll!sig
<1> DEFINE Served  == /\ \A a \in waiting : \E j \in DOMAIN datagrams : datagrams[j] = a
                      /\ mail = 0 /\ waiting = Askers => Epoll!udpfd \in ready \cup batch
           ServedN == /\ \A a \in waiting' : \E j \in DOMAIN datagrams' : datagrams'[j] = a
                      /\ mail' = 0 /\ waiting' = Askers => Epoll!udpfd \in ready' \cup batch'
<1>0. Epoll!TypeOK /\ Places /\ Handleable
  BY DEF EpollIInv, UnreadHasEvent, Epoll!UnreadHasEvent
<1>a. Epoll!Running => Served
  BY DEF EpollIInv, SomeAskerIsServed, Epoll!SomeAskerIsServed
<1>b. /\ mail \in Nat /\ datagrams \in Seq(Askers \cup {NULL}) /\ waiting \subseteq Askers
      /\ Epoll!udpfd # Epoll!listenfd /\ Epoll!udpfd # Epoll!pipefd
      /\ Epoll!udpfd \notin Epoll!ConnFds
  BY <1>0, EpollFds, ConnectionsAssumption DEF Epoll!TypeOK
<1>1. ASSUME \E c \in Clients : Epoll!Connect(c) \/ Epoll!Say(c) \/ Epoll!Leave(c) PROVE ServedN
  <2>1. Epoll!Running /\ UNCHANGED <<datagrams, waiting, mail, batch>> /\ ready \subseteq ready'
    BY <1>1 DEF Epoll!Connect, Epoll!Say, Epoll!Leave, Epoll!Edge
  <2> QED BY <2>1, <1>a
<1>2. ASSUME NEW c \in Askers, Epoll!Ask(c) PROVE ServedN
  <2>1. /\ Epoll!Running /\ datagrams' = Append(datagrams, c) /\ waiting' = waiting \cup {c}
        /\ Epoll!udpfd \in ready'
    BY <1>2 DEF Epoll!Ask, Epoll!Datagram
  <2>2. ASSUME NEW a \in waiting PROVE \E j \in DOMAIN datagrams' : datagrams'[j] = a
    <3>1. \E j \in DOMAIN datagrams : datagrams[j] = a
      BY <1>a, <2>1
    <3> QED BY ONLY <2>1, <3>1, <1>b, QueueKeeps, a \in waiting
  <2>3. \E j \in DOMAIN datagrams' : datagrams'[j] = c
    <3>1. Len(datagrams) + 1 \in DOMAIN datagrams' /\ datagrams'[Len(datagrams) + 1] = c
      BY <2>1, <1>b
    <3> QED BY <3>1
  <2> QED BY <2>1, <2>2, <2>3
<1>3. ASSUME Epoll!AskEmpty PROVE ServedN
  <2>1. Epoll!Running /\ datagrams' = Append(datagrams, NULL) /\ waiting' = waiting /\ mail' # 0
    BY <1>3, <1>b DEF Epoll!AskEmpty, Epoll!Datagram
  <2>2. ASSUME NEW a \in waiting PROVE \E j \in DOMAIN datagrams' : datagrams'[j] = a
    <3>1. \E j \in DOMAIN datagrams : datagrams[j] = a
      BY <1>a, <2>1
    <3> QED BY ONLY <2>1, <3>1, <1>b, QueueKeeps, a \in waiting
  <2> QED BY <2>1, <2>2
<1>4. ASSUME \E s \in {"SIGCHLD", "SIGTERM"} : Epoll!Signal(s) PROVE ServedN
  <2>1. Epoll!Running /\ UNCHANGED <<datagrams, waiting>> /\ mail' # 0
    BY <1>4, <1>b DEF Epoll!Signal
  <2> QED BY <2>1, <1>a
<1>5. ASSUME Epoll!Interrupted \/ Epoll!EndBatch PROVE ServedN
  BY <1>5, <1>a DEF Epoll!Interrupted, Epoll!EndBatch, Epoll!Running
<1>6. ASSUME Epoll!EpollWait PROVE ServedN
  <2>1. /\ Epoll!Running /\ UNCHANGED <<datagrams, waiting, mail>> /\ batch = {}
        /\ batch' = {f \in ready : Epoll!Readable(f)}
    BY <1>6, <1>0 DEF Epoll!EpollWait, Epoll!Running, Places
  <2>2. ASSUME mail = 0, waiting = Askers PROVE Epoll!udpfd \in batch'
    <3>1. Epoll!udpfd \in ready
      BY <2>1, <2>2, <1>a
    <3>2. PICK a \in Askers : TRUE
      BY ConnectionsAssumption
    <3>3. \E j \in DOMAIN datagrams : datagrams[j] = a
      BY <1>a, <2>1, <2>2, <3>2
    <3>4. datagrams # <<>>
      BY <3>3
    <3> QED BY <2>1, <3>1, <3>4, ReadableIs
  <2> QED BY <2>1, <2>2, <1>a
<1>7. ASSUME Epoll!Accept PROVE ServedN
  <2>1. /\ Epoll!Running /\ UNCHANGED <<datagrams, waiting, mail>> /\ batch' = batch \ {Epoll!listenfd}
        /\ ready \subseteq ready'
    BY <1>7 DEF Epoll!Accept, Epoll!Handled, Epoll!Running
  <2> QED BY <2>1, <1>a, <1>b
<1>8. ASSUME Epoll!AcceptFails PROVE ServedN
  BY <1>8, <1>a, <1>b DEF Epoll!AcceptFails, Epoll!Running
<1>9. ASSUME Epoll!UdpEvent PROVE ServedN
  <2>1. /\ Epoll!Running /\ UNCHANGED <<mail, ready>> /\ datagrams # <<>>
        /\ datagrams' = Tail(datagrams) /\ waiting' = waiting \ {Head(datagrams)}
        /\ mail = 0 => datagrams \in Seq(Askers)
    BY <1>9, <1>0 DEF Epoll!UdpEvent, Epoll!RestOf, Epoll!Running, Handleable
  <2>2. ASSUME NEW a \in waiting' PROVE \E j \in DOMAIN datagrams' : datagrams'[j] = a
    <3>1. a \in waiting /\ Head(datagrams) # a
      BY <2>1
    <3>2. \E j \in DOMAIN datagrams : datagrams[j] = a
      BY <1>a, <2>1, <3>1
    <3>3. a \in Askers \cup {NULL} /\ datagrams \in Seq(Askers \cup {NULL})
      BY <1>b, <3>1
    <3> QED BY ONLY <2>1, <3>1, <3>2, <3>3, QueueKeeps
  <2>3. mail' = 0 => waiting' # Askers
    <3>1. mail = 0 => Head(datagrams) \in Askers
      BY <2>1
    <3> QED BY <2>1, <3>1
  <2> QED BY <2>2, <2>3
<1>10. ASSUME Epoll!PipeEvent \/ \E f \in Epoll!ConnFds : Epoll!ConnEvent(f) PROVE ServedN
  <2>1. PICK f \in Epoll!ConnFds \cup {Epoll!pipefd} : batch' = batch \ {f}
    BY <1>10 DEF Epoll!PipeEvent, Epoll!ConnEvent, Epoll!Handled
  <2>2. Epoll!Running /\ UNCHANGED <<datagrams, waiting, mail, ready>>
    BY <1>10 DEF Epoll!PipeEvent, Epoll!ConnEvent, Epoll!Running
  <2> QED BY <2>1, <2>2, <1>a, <1>b
<1>11. ASSUME Epoll!RecvNothing \/ Epoll!RecvEnd \/ Epoll!RecvData \/ Epoll!RecvDataKilled
       PROVE  ServedN
  <2>1. /\ UNCHANGED <<datagrams, waiting, mail, batch>> /\ Epoll!Running
    BY <1>11 DEF Epoll!RecvNothing, Epoll!RecvEnd, Epoll!RecvData, Epoll!RecvDataKilled, Epoll!Running
  <2>2. ready \ {sockfd} \subseteq ready'
    BY <1>11 DEF Epoll!RecvNothing, Epoll!RecvEnd, Epoll!RecvData, Epoll!RecvDataKilled, Epoll!Close
  <2>3. sockfd \in Epoll!ConnFds
    BY <1>11, <1>0 DEF Epoll!RecvNothing, Epoll!RecvEnd, Epoll!RecvData, Epoll!RecvDataKilled, Places
  <2> QED BY <2>1, <2>2, <2>3, <1>a, <1>b
<1>12. ServedN
  BY <1>1, <1>2, <1>3, <1>4, <1>5, <1>6, <1>7, <1>8, <1>9, <1>10, <1>11 DEF Epoll!Next, Epoll!Server
<1> QED BY <1>12 DEF SomeAskerIsServed, Epoll!SomeAskerIsServed, Epoll!udpfd

LEMMA EpollStepInv == EpollIInv /\ [Epoll!Next]_(Epoll!vars) => EpollIInv'
<1>1. ASSUME EpollIInv, Epoll!Next PROVE EpollIInv'
  <2>1. Epoll!TypeOK'
    BY <1>1, EpollTypeStep
  <2>2. Places' /\ Handleable' /\ AbortsOnlyWithoutFds' /\ SomeAskerIsServed'
    BY <1>1, <2>1, PlacesStep, HandleableStep, AbortsStep, AskersStep
  <2>3. program' = program
    BY <1>1 DEF Epoll!Next, Epoll!Server, Epoll!Connect, Epoll!Say, Epoll!Leave, Epoll!Ask,
                Epoll!AskEmpty, Epoll!Datagram, Epoll!Signal, Epoll!Interrupted, Epoll!EpollWait,
                Epoll!Accept, Epoll!AcceptFails, Epoll!UdpEvent, Epoll!PipeEvent, Epoll!ConnEvent,
                Epoll!EndBatch, Epoll!RecvNothing, Epoll!RecvEnd, Epoll!RecvData,
                Epoll!RecvDataKilled, Epoll!server
  <2>4. ASSUME Epoll!Running', program' # "sig", NEW f \in Epoll!ConnFds, Epoll!Readable(f)'
        PROVE  f \in ready' \cup batch' \cup {sockfd'}
    BY <1>1, <2>3, <2>4, ReadableCovered
  <2>5. ASSUME Epoll!Running', program' = "LT", NEW f \in Epoll!ConnFds, Epoll!Readable(f)'
        PROVE  f \in ready'
    BY <1>1, <2>3, <2>5, ReadableCovered
  <2>6. UnreadHasEvent' /\ Repeated'
    BY <2>1, <2>4, <2>5 DEF UnreadHasEvent, Epoll!UnreadHasEvent, Repeated, Epoll!ConnFds
  <2> QED BY <2>2, <2>6 DEF EpollIInv
<1>2. ASSUME EpollIInv, UNCHANGED Epoll!vars PROVE EpollIInv'
  BY <1>2 DEF EpollIInv, Places, Repeated, Handleable, UnreadHasEvent, Epoll!UnreadHasEvent,
              AbortsOnlyWithoutFds, Epoll!AbortsOnlyWithoutFds, SomeAskerIsServed,
              Epoll!SomeAskerIsServed, Epoll!TypeOK, Epoll!Running, Epoll!Readable, Epoll!FreeFds,
              Epoll!vars, Epoll!server, Epoll!kernel, Epoll!tcp, Epoll!udp, Epoll!sig,
              Epoll!listenfd, Epoll!udpfd, Epoll!pipefd, Epoll!ConnFds
<1> QED BY <1>1, <1>2

\* The inductive invariant of the three epoll servers: clients are where their status
\* says, every edge not yet handled is recorded, and what is handled can be handled
\* (epoll_sig.cpp:72, epoll_tcp_udp.cpp:59, epoll_LT_ET_servertest.cpp:117).
THEOREM EpollInvariance == Epoll!Spec => []EpollIInv
BY EpollInitInv, EpollStepInv, PTL DEF Epoll!Spec

\* epoll_LT_ET_servertest.cpp:37 and 65: in the servers that read, a connection with
\* something to read is never without an event, whatever number of descriptors,
\* clients and chunks there is.
THEOREM NothingIsForgotten == Epoll!Spec => []UnreadHasEvent
<1>1. EpollIInv => UnreadHasEvent
  BY DEF EpollIInv
<1> QED BY <1>1, EpollInvariance, PTL

\* epoll_sig.cpp:85 and epoll_tcp_udp.cpp:73: the assertion on accept fails only in
\* a process without a descriptor.
THEOREM AcceptSucceeds == Epoll!Spec => []AbortsOnlyWithoutFds
<1>1. EpollIInv => AbortsOnlyWithoutFds
  BY DEF EpollIInv
<1> QED BY <1>1, EpollInvariance, PTL

\* epoll_tcp_udp.cpp:83: one datagram per event is enough for one asker to be served.
THEOREM AskersAreServed == Epoll!Spec => []SomeAskerIsServed
<1>1. EpollIInv => SomeAskerIsServed
  BY DEF EpollIInv
<1> QED BY <1>1, EpollInvariance, PTL

-----------------------------------------------------------------------------
(* The CGI worker. *)

\* Where a line ends among the first n bytes.
EndsIn(n) == {i \in 1 .. n - 1 : line[i] = "CR" /\ line[i + 1] = "LF"}

CgiIInv ==
  /\ line \in Seq({"CR", "LF", "x"})
  /\ arrived \in 0 .. Len(line) /\ m_read_idx \in 0 .. arrived /\ m_read_idx <= CgiRoom
  /\ process \in {"idle", "loop", "returned"}
  /\ process # "returned" => EndsIn(m_read_idx) = {} /\ file_name = <<>> /\ ~child
  /\ RunsFirstLine

LEMMA CgiMin ==
  ASSUME NEW S \in SUBSET Nat, S # {}
  PROVE  Cgi!Min(S) \in S /\ \A i \in S : Cgi!Min(S) <= i
BY HasLeast DEF Cgi!Min

\* The least of a set is the least of what the set has below some bound.
LEMMA SameMin ==
  ASSUME NEW S \in SUBSET Nat, NEW T \in SUBSET Nat, S # {}, S \subseteq T,
         \A i \in T \ S : \A j \in S : j <= i
  PROVE  Cgi!Min(T) = Cgi!Min(S)
<1>1. Cgi!Min(S) \in S /\ \A i \in S : Cgi!Min(S) <= i
  BY CgiMin
<1>2. Cgi!Min(T) \in T /\ \A i \in T : Cgi!Min(T) <= i
  BY CgiMin
<1>3. \A i \in T : Cgi!Min(S) <= i
  BY <1>1
<1>4. Cgi!Min(S) <= Cgi!Min(T) /\ Cgi!Min(T) <= Cgi!Min(S) /\ Cgi!Min(S) \in Nat /\ Cgi!Min(T) \in Nat
  BY <1>1, <1>2, <1>3
<1> QED BY <1>4

\* The first line of what has been read.
LEMMA KeptLine ==
  ASSUME line \in Seq({"CR", "LF", "x"}), NEW n \in 0 .. Len(line)
  PROVE  LET kept == SubSeq(line, 1, n)
         IN  /\ EndsIn(n) = {} => ~Cgi!HasLine(kept)
             /\ EndsIn(n) # {} =>
                  /\ Cgi!HasLine(kept)
                  /\ Cgi!FirstLine(line) = SubSeq(line, 1, Cgi!Min(EndsIn(n)) - 1)
<1> DEFINE kept == SubSeq(line, 1, n)
           Ends(s) == {i \in 1 .. Len(s) - 1 : s[i] = "CR" /\ s[i + 1] = "LF"}
<1>1. Len(kept) = n /\ \A i \in 1 .. n : kept[i] = line[i]
  OBVIOUS
<1>2. Ends(kept) = EndsIn(n)
  <2>1. \A i \in 1 .. n - 1 : i \in 1 .. n /\ i + 1 \in 1 .. n
    OBVIOUS
  <2> QED BY <1>1, <2>1 DEF EndsIn
<1>3. Ends(line) = EndsIn(Len(line))
  BY DEF EndsIn
<1>4. ASSUME EndsIn(n) = {} PROVE ~Cgi!HasLine(kept)
  BY <1>2, <1>4 DEF Cgi!HasLine, Cgi!FirstLine
<1>5. ASSUME EndsIn(n) # {}
      PROVE  /\ Cgi!HasLine(kept)
             /\ Cgi!FirstLine(line) = SubSeq(line, 1, Cgi!Min(EndsIn(n)) - 1)
  <2>1. EndsIn(n) \subseteq 1 .. n - 1 /\ EndsIn(n) \in SUBSET Nat /\ EndsIn(Len(line)) \in SUBSET Nat
    BY DEF EndsIn
  <2>2. Cgi!Min(EndsIn(n)) \in 1 .. n - 1
    BY <1>5, <2>1, CgiMin
  <2>3. EndsIn(n) \subseteq EndsIn(Len(line))
    BY DEF EndsIn
  <2>4. \A i \in EndsIn(Len(line)) \ EndsIn(n) : \A j \in EndsIn(n) : j <= i
    BY DEF EndsIn
  <2>5. Cgi!Min(EndsIn(Len(line))) = Cgi!Min(EndsIn(n))
    BY <1>5, <2>1, <2>3, <2>4, SameMin
  <2>6. Cgi!FirstLine(line) = SubSeq(line, 1, Cgi!Min(EndsIn(n)) - 1)
    BY <1>3, <1>5, <2>3, <2>5 DEF Cgi!FirstLine
  <2>7. Cgi!FirstLine(kept) = SubSeq(kept, 1, Cgi!Min(EndsIn(n)) - 1)
    BY <1>2, <1>5 DEF Cgi!FirstLine
  <2>8. Len(SubSeq(kept, 1, Cgi!Min(EndsIn(n)) - 1)) = Cgi!Min(EndsIn(n)) - 1
    <3> DEFINE m == Cgi!Min(EndsIn(n)) - 1
    <3>1. m \in 0 .. Len(kept) /\ kept \in Seq({"CR", "LF", "x"})
      BY <1>1, <2>2
    <3> HIDE DEF m, kept
    <3>2. Len(SubSeq(kept, 1, m)) = m
      BY <3>1
    <3> QED BY <3>2 DEF m
  <2>9. Cgi!FirstLine(kept) # kept
    BY <1>1, <2>2, <2>7, <2>8
  <2> QED BY <2>6, <2>9 DEF Cgi!HasLine
<1> QED BY <1>4, <1>5

LEMMA CgiInitInv == Cgi!CgiInit => CgiIInv
<1> SUFFICES ASSUME Cgi!CgiInit PROVE CgiIInv
  OBVIOUS
<1>1. line \in Seq({"CR", "LF", "x"}) /\ Len(line) \in Nat
  BY ConnectionsAssumption DEF Cgi!CgiInit
<1>2. EndsIn(0) = {}
  BY DEF EndsIn
<1> QED BY <1>1, <1>2, ConnectionsAssumption DEF Cgi!CgiInit, CgiIInv, RunsFirstLine, Cgi!RunsFirstLine

LEMMA CgiStepInv == CgiIInv /\ [Cgi!CgiNext]_(Cgi!vars) => CgiIInv'
<1> SUFFICES ASSUME CgiIInv, [Cgi!CgiNext]_(Cgi!vars) PROVE CgiIInv'
  OBVIOUS
<1>t. /\ line \in Seq({"CR", "LF", "x"}) /\ CgiRoom \in Nat
      /\ arrived \in Nat /\ arrived <= Len(line) /\ m_read_idx \in Nat /\ m_read_idx <= arrived
      /\ m_read_idx <= CgiRoom /\ Cgi!Room = CgiRoom - m_read_idx
  BY ConnectionsAssumption DEF CgiIInv, Cgi!Room
\* What has been read and said does not change.
<1>k. ASSUME UNCHANGED <<line, m_read_idx, file_name, child>>,
             process' \in {"idle", "loop", "returned"}, process' = "returned" <=> process = "returned",
             sender # "up" => sender' # "up", arrived' \in arrived .. Len(line)
      PROVE  CgiIInv'
  <2>1. /\ line' \in Seq({"CR", "LF", "x"}) /\ arrived' \in 0 .. Len(line)
        /\ m_read_idx' \in 0 .. arrived' /\ m_read_idx' <= CgiRoom
    BY <1>k, <1>t
  <2>2. process' # "returned" => EndsIn(m_read_idx)' = {} /\ file_name' = <<>> /\ ~child'
    BY <1>k DEF CgiIInv, EndsIn
  <2>3. CASE process' # "returned"
    BY <2>1, <2>2, <2>3, <1>k DEF CgiIInv, RunsFirstLine, Cgi!RunsFirstLine
  <2>4. CASE process' = "returned"
    <3>1. LET kept == SubSeq(line, 1, m_read_idx)
          IN  IF Cgi!HasLine(kept) THEN file_name = Cgi!FirstLine(line)
              ELSE file_name = <<>> /\ ~child /\ (Cgi!Room = 0 \/ sender # "up")
      BY <2>4, <1>k DEF CgiIInv, RunsFirstLine, Cgi!RunsFirstLine
    <3>2. Cgi!Room' = Cgi!Room
      BY <1>k DEF Cgi!Room
    <3>3. RunsFirstLine'
      BY <3>1, <3>2, <1>k DEF RunsFirstLine, Cgi!RunsFirstLine, Cgi!HasLine, Cgi!FirstLine
    <3> QED BY <2>1, <2>2, <3>3, <1>k DEF CgiIInv
  <2> QED BY <2>3, <2>4
<1>1. CASE Cgi!Arrive
  BY <1>1, <1>t, <1>k DEF Cgi!Arrive, CgiIInv
<1>2. CASE Cgi!Leave
  BY <1>2, <1>t, <1>k DEF Cgi!Leave, CgiIInv
<1>3. CASE Cgi!Call
  BY <1>3, <1>t, <1>k DEF Cgi!Call
<1>4. CASE Cgi!RecvError
  BY <1>4, <1>t, <1>k DEF Cgi!RecvError, CgiIInv
<1>5. CASE UNCHANGED Cgi!vars
  BY <1>5, <1>t, <1>k DEF Cgi!vars, CgiIInv
<1>6. CASE Cgi!RecvNone
  <2>1. /\ UNCHANGED <<line, arrived, sender, m_read_idx, file_name, child>> /\ process' = "returned"
        /\ process = "loop" /\ (Cgi!Room = 0 \/ sender = "fin")
    BY <1>6 DEF Cgi!RecvNone
  <2>2. EndsIn(m_read_idx) = {} /\ file_name = <<>> /\ ~child
    BY <2>1 DEF CgiIInv
  <2>3. ~Cgi!HasLine(SubSeq(line, 1, m_read_idx))
    BY <1>t, <2>2, KeptLine
  <2>4. Cgi!Room' = Cgi!Room
    BY <2>1 DEF Cgi!Room
  <2>5. RunsFirstLine'
    BY <2>1, <2>2, <2>3, <2>4 DEF RunsFirstLine, Cgi!RunsFirstLine, Cgi!HasLine, Cgi!FirstLine
  <2> QED BY <1>t, <2>1, <2>5 DEF CgiIInv
<1>7. ASSUME NEW n \in Nat, n \in 1 .. Cgi!Min({Cgi!Room, arrived - m_read_idx})
      PROVE  m_read_idx + n <= CgiRoom /\ m_read_idx + n <= arrived
  <2>1. {Cgi!Room, arrived - m_read_idx} \subseteq Nat
    BY <1>t
  <2>2. Cgi!Min({Cgi!Room, arrived - m_read_idx}) <= Cgi!Room
    BY <2>1, CgiMin
  <2>3. Cgi!Min({Cgi!Room, arrived - m_read_idx}) <= arrived - m_read_idx
    BY <2>1, CgiMin
  <2>4. Cgi!Min({Cgi!Room, arrived - m_read_idx}) \in Nat
    BY <2>1, CgiMin
  <2> QED BY <1>7, <1>t, <2>2, <2>3, <2>4
\* The loop looks at every place where a line may end that it did not know before.
<1>8. ASSUME NEW n \in Nat, n > 0, EndsIn(m_read_idx) = {}
      PROVE  Cgi!LineEnds(m_read_idx, m_read_idx + n) = EndsIn(m_read_idx + n)
  <2>1. \A i \in 1 .. m_read_idx - 1 : ~(line[i] = "CR" /\ line[i + 1] = "LF")
    BY <1>8 DEF EndsIn
  <2>2. ASSUME NEW i \in EndsIn(m_read_idx + n)
        PROVE  i \in Cgi!LineEnds(m_read_idx, m_read_idx + n)
    <3>1. i \in 1 .. m_read_idx + n - 1 /\ line[i] = "CR" /\ line[i + 1] = "LF"
      BY <1>t, <2>2 DEF EndsIn
    <3>2. ~(i < m_read_idx)
      BY <3>1, <2>1, <1>t
    <3> QED BY <3>1, <3>2, <1>t DEF Cgi!LineEnds
  <2>3. Cgi!LineEnds(m_read_idx, m_read_idx + n) \subseteq EndsIn(m_read_idx + n)
    BY <1>t DEF EndsIn, Cgi!LineEnds
  <2> QED BY <2>2, <2>3
<1>9. CASE Cgi!RecvMore
  <2>1. PICK n \in 1 .. Cgi!Min({Cgi!Room, arrived - m_read_idx}) :
               /\ Cgi!LineEnds(m_read_idx, m_read_idx + n) = {}
               /\ m_read_idx' = m_read_idx + n
    BY <1>9 DEF Cgi!RecvMore
  <2>2. /\ UNCHANGED <<line, arrived, process, file_name, child>> /\ process = "loop"
    BY <1>9 DEF Cgi!RecvMore
  <2>3. EndsIn(m_read_idx) = {} /\ file_name = <<>> /\ ~child
    BY <2>2 DEF CgiIInv
  <2>4. n \in Nat /\ n > 0 /\ m_read_idx + n <= CgiRoom /\ m_read_idx + n <= arrived
    <3>1. {Cgi!Room, arrived - m_read_idx} \subseteq Nat
      BY <1>t
    <3>2. Cgi!Min({Cgi!Room, arrived - m_read_idx}) \in Nat
      BY <3>1, CgiMin
    <3>3. n \in Nat /\ n > 0
      BY <3>2
    <3> QED BY <3>3, <1>7
  <2>5. EndsIn(m_read_idx + n) = {}
    BY <2>1, <2>3, <2>4, <1>8
  <2>6. EndsIn(m_read_idx)' = {}
    BY <2>1, <2>2, <2>5 DEF EndsIn
  <2> QED BY <1>t, <2>1, <2>2, <2>3, <2>4, <2>6 DEF CgiIInv, RunsFirstLine, Cgi!RunsFirstLine
<1>10. CASE Cgi!RecvLine
  <2>1. PICK n \in 1 .. Cgi!Min({Cgi!Room, arrived - m_read_idx}) :
               /\ Cgi!LineEnds(m_read_idx, m_read_idx + n) # {}
               /\ m_read_idx' = m_read_idx + n
               /\ file_name' = SubSeq(line, 1, Cgi!Min(Cgi!LineEnds(m_read_idx, m_read_idx + n)) - 1)
    BY <1>10 DEF Cgi!RecvLine
  <2>2. UNCHANGED <<line, arrived>> /\ process = "loop" /\ process' = "returned"
    BY <1>10 DEF Cgi!RecvLine
  <2>3. EndsIn(m_read_idx) = {}
    BY <2>2 DEF CgiIInv
  <2>4. n \in Nat /\ n > 0 /\ m_read_idx + n <= CgiRoom /\ m_read_idx + n <= arrived
    <3>1. {Cgi!Room, arrived - m_read_idx} \subseteq Nat
      BY <1>t
    <3>2. Cgi!Min({Cgi!Room, arrived - m_read_idx}) \in Nat
      BY <3>1, CgiMin
    <3>3. n \in Nat /\ n > 0
      BY <3>2
    <3> QED BY <3>3, <1>7
  <2>5. Cgi!LineEnds(m_read_idx, m_read_idx + n) = EndsIn(m_read_idx + n)
    BY <2>3, <2>4, <1>8
  <2>6. m_read_idx + n \in 0 .. Len(line)
    BY <1>t, <2>4
  <2>7. /\ Cgi!HasLine(SubSeq(line, 1, m_read_idx + n))
        /\ Cgi!FirstLine(line) = file_name'
    BY <1>t, <2>1, <2>5, <2>6, KeptLine
  <2>8. RunsFirstLine'
    BY <2>1, <2>2, <2>7 DEF RunsFirstLine, Cgi!RunsFirstLine, Cgi!HasLine, Cgi!FirstLine
  <2> QED BY <1>t, <2>1, <2>2, <2>4, <2>8 DEF CgiIInv
<1> QED BY <1>1, <1>2, <1>3, <1>4, <1>5, <1>6, <1>9, <1>10 DEF Cgi!CgiNext, Cgi!Worker

\* CGI_server.cpp:54: whatever the client sends, in whatever pieces, and however
\* large the buffer is, what is run is the first line and nothing else.
THEOREM FirstLineIsRun == Cgi!CgiSpec => []RunsFirstLine
<1>1. CgiIInv => RunsFirstLine
  BY DEF CgiIInv
<1> QED BY <1>1, CgiInitInv, CgiStepInv, PTL DEF Cgi!CgiSpec

-----------------------------------------------------------------------------
(* The parser of HTTP requests: what its helpers find in a buffer. *)

Chars == Bytes \cup {"NUL"}
Buffers == [Indexes -> Chars]

LEMMA MinIs ==
  ASSUME NEW S \in SUBSET Nat, NEW m \in S, \A i \in S : m <= i
  PROVE  Min(S) = m
<1>1. Min(S) \in S /\ \A i \in S : Min(S) <= i
  BY DEF Min
<1>2. Min(S) <= m /\ m <= Min(S) /\ m \in Nat /\ Min(S) \in Nat
  BY <1>1
<1> QED BY <1>2

LEMMA MinOf ==
  ASSUME NEW S \in SUBSET Nat, S # {}
  PROVE  Min(S) \in S /\ Min(S) \in Nat /\ \A i \in S : Min(S) <= i
BY HasLeast DEF Min

LEMMA IndexesAre == Indexes \subseteq Nat /\ \A i \in Nat : i \in Indexes <=> i < BUFFER_SIZE
BY HttpParseAssumption DEF Indexes

\* A search that meets a NUL in the buffer ends there.
LEMMA EndOfIs ==
  ASSUME NEW b \in Buffers, NEW p \in Nat, NEW e \in Indexes, p <= e, b[e] = "NUL",
         \A i \in p .. e - 1 : b[i] # "NUL"
  PROVE  EndOf(b, p) = e
<1> DEFINE S == {BUFFER_SIZE} \cup {i \in p .. (BUFFER_SIZE - 1) : b[i] = "NUL"}
<1>1. e \in Nat /\ e < BUFFER_SIZE /\ BUFFER_SIZE \in Nat
  BY IndexesAre, HttpParseAssumption
<1>2. S \subseteq Nat /\ e \in S
  BY <1>1
<1>3. ASSUME NEW i \in S PROVE e <= i
  <2>1. CASE i = BUFFER_SIZE
    BY <1>1, <2>1
  <2>2. CASE i # BUFFER_SIZE
    <3>1. i \in Nat /\ p <= i /\ b[i] = "NUL"
      BY <2>2
    <3>2. ~(i < e)
      BY <3>1, <1>1
    <3> QED BY <3>1, <3>2, <1>1
  <2> QED BY <2>1, <2>2
<1>4. Min(S) = e
  <2> HIDE DEF S
  <2> QED BY <1>2, <1>3, MinIs
<1> QED BY <1>4 DEF EndOf

LEMMA FirstOfIs ==
  ASSUME NEW b \in Buffers, NEW p \in Nat, NEW e \in Indexes, EndOf(b, p) = e, NEW S
  PROVE  LET f == FirstOf(b, p, S)
         IN  \/ f = -1 /\ \A i \in p .. e - 1 : b[i] \notin S
             \/ f \in p .. e - 1 /\ b[f] \in S /\ \A i \in p .. f - 1 : b[i] \notin S
<1> DEFINE found == {i \in p .. e - 1 : b[i] \in S}
<1>1. e \in Nat
  BY IndexesAre
<1>2. CASE found = {}
  BY <1>2 DEF FirstOf
<1>3. CASE found # {}
  <2>1. FirstOf(b, p, S) = Min(found)
    BY <1>3 DEF FirstOf
  <2>2. found \in SUBSET Nat
    BY <1>1
  <2>3. Min(found) \in found /\ Min(found) \in Nat /\ \A i \in found : Min(found) <= i
    <3> HIDE DEF found
    <3> QED BY <1>3, <2>2, MinOf
  <2>4. ASSUME NEW i \in p .. Min(found) - 1 PROVE b[i] \notin S
    <3>1. i \in Nat /\ i < Min(found) /\ i \in p .. e - 1
      BY <1>1, <2>3
    <3>2. i \notin found
      BY <2>3, <3>1
    <3> QED BY <3>1, <3>2
  <2> QED BY <2>1, <2>3, <2>4
<1> QED BY <1>2, <1>3

LEMMA PastAllIs ==
  ASSUME NEW b \in Buffers, NEW p \in Nat, NEW e \in Indexes, p <= e, EndOf(b, p) = e, NEW S
  PROVE  LET f == PastAll(b, p, S)
         IN  /\ f \in p .. e
             /\ \A i \in p .. f - 1 : b[i] \in S
             /\ f < e => b[f] \notin S
<1> DEFINE found == {e} \cup {i \in p .. e - 1 : b[i] \notin S}
<1>1. e \in Nat
  BY IndexesAre
<1>2. PastAll(b, p, S) = Min(found)
  BY DEF PastAll
<1>3. found \in SUBSET Nat /\ found # {}
  BY <1>1
<1>4. Min(found) \in found /\ Min(found) \in Nat /\ \A i \in found : Min(found) <= i
  <2> HIDE DEF found
  <2> QED BY <1>3, MinOf
<1>5. Min(found) \in p .. e /\ (Min(found) < e => b[Min(found)] \notin S)
  BY <1>1, <1>4
<1>6. ASSUME NEW i \in p .. Min(found) - 1 PROVE b[i] \in S
  <2>1. i \in Nat /\ i < Min(found) /\ i \in p .. e - 1
    BY <1>1, <1>5
  <2>2. i \notin found
    BY <1>4, <2>1
  <2> QED BY <2>1, <2>2
<1> QED BY <1>2, <1>5, <1>6

LEMMA CutIs ==
  ASSUME NEW b \in Buffers, NEW p
  PROVE  /\ Cut(b, p) \in Buffers
         /\ \A i \in Indexes : Cut(b, p)[i] = IF i = p THEN "NUL" ELSE b[i]
BY DEF Cut, Buffers, Chars

-----------------------------------------------------------------------------
(* The request line. *)

\* What a line shows: all of it, or what stands before its first NUL.
LEMMA SeenIs ==
  ASSUME NEW l \in Seq(Bytes)
  PROVE  /\ Seen(l) \in Seq(Bytes) /\ Len(Seen(l)) \in 0 .. Len(l)
         /\ \A i \in 1 .. Len(Seen(l)) : Seen(l)[i] = l[i] /\ l[i] # "NUL"
         /\ Len(Seen(l)) < Len(l) => l[Len(Seen(l)) + 1] = "NUL"
<1> DEFINE S == {Len(l) + 1} \cup {i \in DOMAIN l : l[i] = "NUL"}
           m == Min(S)
<1>1. S \in SUBSET Nat /\ S # {} /\ Len(l) \in Nat /\ DOMAIN l = 1 .. Len(l)
  OBVIOUS
<1>2. m \in S /\ m \in Nat /\ \A i \in S : m <= i
  <2> HIDE DEF S
  <2> QED BY <1>1, MinOf
<1>3. m \in 1 .. Len(l) + 1 /\ (m <= Len(l) => l[m] = "NUL")
  BY <1>1, <1>2
<1>4. ASSUME NEW i \in 1 .. m - 1 PROVE l[i] # "NUL"
  <2>1. i \in 1 .. Len(l) /\ ~(m <= i)
    BY <1>1, <1>3
  <2> QED BY <1>1, <1>2, <2>1
<1>5. Seen(l) = SubSeq(l, 1, m - 1)
  BY DEF Seen
<1> HIDE DEF m, S
<1>6. Seen(l) \in Seq(Bytes) /\ Len(Seen(l)) = m - 1 /\ \A i \in 1 .. m - 1 : Seen(l)[i] = l[i]
  BY <1>1, <1>3, <1>5
<1> QED BY <1>1, <1>3, <1>4, <1>6

\* The code's reading of a line that stands at the start of the buffer is the
\* reference's reading of what the line shows.
LEMMA RequestLineIs ==
  ASSUME NEW ln \in Seq(Bytes), NEW buf \in Buffers, Len(ln) \in Indexes,
         \A i \in 1 .. Len(ln) : ln[i] # "NUL",
         \A i \in 0 .. Len(ln) - 1 : buf[i] = ln[i + 1],
         buf[Len(ln)] = "NUL"
  PROVE  LET rl == RequestLine(buf, 0)
         IN  /\ rl.buf \in Buffers
             /\ \A i \in Indexes : rl.buf[i] = buf[i] \/ (rl.buf[i] = "NUL" /\ i < Len(ln))
             /\ rl.ok \subseteq BOOLEAN
             /\ \/ rl.ok = {GoodRequestLine(ln)}
                \/ ReadsAsGet(ln) /\ Version(ln) # <<"HTTP/1.1">> /\ Len(Url(ln)) < Skip
<1> DEFINE n       == Len(ln)
           url1    == FirstOf(buf, 0, Blank)
           buf1    == Cut(buf, url1)
           url     == PastAll(buf1, url1 + 1, {"TAB"})
           ver1    == FirstOf(buf1, url, Blank)
           buf2    == Cut(buf1, ver1)
           version == PastAll(buf2, ver1 + 1, Blank)
           rl      == RequestLine(buf, 0)
           bad     == [ok |-> {FALSE}, buf |-> buf]
           bad1    == [ok |-> {FALSE}, buf |-> buf1]
           read    == [ok |-> UrlAccepted(buf2, url, version), buf |-> buf2]
<1>1. rl = IF url1 = -1 THEN bad
           ELSE IF Text(buf1, 0) # <<"GET">> \/ ver1 = -1 THEN bad1 ELSE read
  BY DEF RequestLine
<1>2. /\ n \in Nat /\ n < BUFFER_SIZE /\ BUFFER_SIZE \in Nat /\ Skip \in Nat
      /\ \A i \in 0 .. n : i \in Indexes
      /\ \A i \in 1 .. n : ln[i] \in Bytes /\ ln[i] # "NUL" /\ buf[i - 1] = ln[i]
      /\ \A i \in 0 .. n - 1 : buf[i] # "NUL"
  BY IndexesAre, HttpParseAssumption
<1>3. EndOf(buf, 0) = n
  BY <1>2, EndOfIs
<1> HIDE DEF url1, buf1, url, ver1, buf2, version, rl, bad, bad1, read
<1>4. CASE url1 = -1
  <2>1. \A i \in 0 .. n - 1 : buf[i] \notin Blank
    BY <1>2, <1>3, <1>4, FirstOfIs DEF url1
  <2>2. ~ReadsAsGet(ln)
    <3>1. ASSUME n > 1, ln[2] \in Blank PROVE FALSE
      BY <1>2, <2>1, <3>1
    <3> QED BY <3>1 DEF ReadsAsGet
  <2>3. GoodRequestLine(ln) = FALSE
    BY <2>2 DEF GoodRequestLine
  <2>4. rl.ok = {GoodRequestLine(ln)} /\ rl.buf = buf
    BY <1>1, <1>4, <2>3 DEF bad
  <2> QED BY <2>3, <2>4 DEF rl
<1>5. CASE url1 # -1
  <2>1. /\ url1 \in 0 .. n - 1 /\ buf[url1] \in Blank
        /\ \A i \in 0 .. url1 - 1 : buf[i] \notin Blank
    BY <1>2, <1>3, <1>5, FirstOfIs DEF url1
  <2>2. /\ buf1 \in Buffers
        /\ \A i \in Indexes : buf1[i] = IF i = url1 THEN "NUL" ELSE buf[i]
    BY CutIs DEF buf1
  <2>3. EndOf(buf1, 0) = url1 /\ EndOf(buf1, url1 + 1) = n
    <3>1. url1 \in Indexes /\ url1 \in Nat /\ url1 + 1 \in Nat /\ url1 + 1 <= n
      BY <1>2, <2>1
    <3>2. \A i \in 0 .. url1 - 1 : buf1[i] # "NUL"
      BY <1>2, <2>1, <2>2
    <3>3. ASSUME NEW i \in url1 + 1 .. n - 1 PROVE buf1[i] # "NUL"
      <4>1. i \in 0 .. n - 1 /\ i \in Indexes /\ i # url1
        BY <1>2, <2>1
      <4> QED BY <1>2, <2>2, <4>1
    <3>4. buf1[url1] = "NUL" /\ buf1[n] = "NUL"
      BY <1>2, <2>1, <2>2
    <3>5. EndOf(buf1, 0) = url1
      BY <2>2, <3>1, <3>2, <3>4, EndOfIs
    <3>6. EndOf(buf1, url1 + 1) = n
      BY <2>2, <3>1, <3>3, <3>4, EndOfIs
    <3> QED BY <3>5, <3>6
  <2>4. /\ url \in url1 + 1 .. n
        /\ \A i \in url1 + 1 .. url - 1 : buf1[i] \in {"TAB"}
        /\ url < n => buf1[url] \notin {"TAB"}
    <3>1. url1 + 1 \in Nat /\ url1 + 1 <= n
      BY <1>2, <2>1
    <3> QED BY <2>2, <2>3, <3>1, PastAllIs DEF url
  <2>5. EndOf(buf1, url) = n
    <3>1. url \in Nat /\ url <= n
      BY <1>2, <2>1, <2>4
    <3>2. ASSUME NEW i \in url .. n - 1 PROVE buf1[i] # "NUL"
      <4>1. i \in 0 .. n - 1 /\ i \in Indexes /\ i # url1
        BY <1>2, <2>1, <2>4
      <4> QED BY <1>2, <2>2, <4>1
    <3>3. buf1[n] = "NUL"
      BY <1>2, <2>1, <2>2
    <3> QED BY <2>2, <3>1, <3>2, <3>3, EndOfIs
  <2>6. \/ ver1 = -1 /\ \A i \in url .. n - 1 : buf1[i] \notin Blank
        \/ ver1 \in url .. n - 1 /\ buf1[ver1] \in Blank /\ \A i \in url .. ver1 - 1 : buf1[i] \notin Blank
    <3>1. url \in Nat
      BY <1>2, <2>1, <2>4
    <3> QED BY <2>2, <2>5, <3>1, FirstOfIs DEF ver1
  <2>7. ASSUME NEW i \in url1 + 1 .. n - 1 PROVE buf1[i] = ln[i + 1]
    <3>1. i \in 0 .. n - 1 /\ i \in Indexes /\ i # url1
      BY <1>2, <2>1
    <3>2. buf1[i] = buf[i]
      BY <2>2, <3>1
    <3> QED BY <3>1, <3>2 DEF n
  \* The word in front of the blank.
  <2>8. Text(buf1, 0) = <<"GET">> <=> url1 = 1 /\ ln[1] = "GET"
    <3>1. Text(buf1, 0) = [k \in 1 .. url1 |-> buf1[k - 1]]
      BY <2>1, <2>3 DEF Text
    <3>2. CASE url1 = 1
      <4>1. Text(buf1, 0) = <<buf1[0]>>
        BY <3>1, <3>2
      <4>2. buf1[0] = ln[1]
        BY <1>2, <2>1, <2>2, <3>2
      <4> QED BY <3>2, <4>1, <4>2
    <3>3. CASE url1 # 1
      <4>1. Text(buf1, 0) # <<"GET">>
        <5>1. DOMAIN Text(buf1, 0) = 1 .. url1
          BY <3>1
        <5>2. DOMAIN <<"GET">> = 1 .. 1
          OBVIOUS
        <5>3. url1 \in Nat
          BY <2>1
        <5>4. 1 .. url1 # 1 .. 1
          <6>1. CASE url1 = 0
            BY <6>1
          <6>2. CASE url1 > 1
            <7>1. 2 \in 1 .. url1 /\ 2 \notin 1 .. 1
              BY <5>3, <6>2
            <7> QED BY <7>1
          <6> QED BY <3>3, <5>3, <6>1, <6>2
        <5> QED BY <5>1, <5>2, <5>4
      <4> QED BY <3>3, <4>1
    <3> QED BY <3>2, <3>3
  <2>9. CASE ~(url1 = 1 /\ ln[1] = "GET")
    <3>1. ~ReadsAsGet(ln)
      <4>1. ASSUME n > 1, ln[1] = "GET", ln[2] \in Blank PROVE FALSE
        <5>1. buf[0] = "GET" /\ buf[1] \in Blank
          BY <1>2, <4>1
        <5>2. buf[0] \notin Blank
          BY <5>1 DEF Blank
        <5>3. url1 # 0 /\ ~(url1 > 1)
          BY <2>1, <5>1, <5>2
        <5> QED BY <2>1, <2>9, <4>1, <5>3
      <4> QED BY <4>1 DEF ReadsAsGet
    <3>2. GoodRequestLine(ln) = FALSE
      BY <3>1 DEF GoodRequestLine
    <3>3. rl = bad1
      BY <1>1, <1>5, <2>8, <2>9
    <3>4. rl.ok = {GoodRequestLine(ln)} /\ rl.buf = buf1
      BY <3>2, <3>3 DEF bad1
    <3>5. \A i \in Indexes : buf1[i] = buf[i] \/ (buf1[i] = "NUL" /\ i < n)
      BY <1>2, <2>1, <2>2
    <3>6. rl.ok \subseteq BOOLEAN
      BY <3>2, <3>4
    <3> QED BY <2>2, <3>4, <3>5, <3>6 DEF rl
  <2>10. CASE url1 = 1 /\ ln[1] = "GET"
    <3>1. n > 1 /\ ln[2] \in Blank
      BY <1>2, <2>1, <2>10
    <3>2. UrlStart(ln) = url + 1
      <4> DEFINE S == {Len(ln) + 1} \cup {i \in 3 .. Len(ln) : ln[i] # "TAB"}
      <4>1. url \in 2 .. n
        BY <2>4, <2>10
      <4>2. url + 1 \in S /\ S \subseteq Nat
        BY <1>2, <2>4, <2>7, <2>10, <4>1
      <4>3. ASSUME NEW i \in S PROVE url + 1 <= i
        <5>1. CASE i = n + 1
          BY <4>1, <5>1
        <5>2. CASE i # n + 1
          <6>1. i \in 3 .. n /\ ln[i] # "TAB"
            BY <5>2
          <6>2. i - 1 \in url1 + 1 .. n - 1 /\ buf1[i - 1] = ln[i]
            BY <2>7, <2>10, <6>1
          <6>3. ~(i - 1 < url)
            BY <2>4, <2>10, <6>1, <6>2
          <6> QED BY <4>1, <6>1, <6>3
        <5> QED BY <5>1, <5>2
      <4>4. Min(S) = url + 1
        <5> HIDE DEF S
        <5> QED BY <4>2, <4>3, MinIs
      <4> QED BY <4>4 DEF UrlStart
    <3>3. CASE ver1 = -1
      <4>1. \A v \in url + 1 .. n : ln[v] \notin Blank
        <5> SUFFICES ASSUME NEW v \in url + 1 .. n PROVE ln[v] \notin Blank
          OBVIOUS
        <5>1. v - 1 \in url .. n - 1 /\ v - 1 \in url1 + 1 .. n - 1
          BY <1>2, <2>1, <2>4
        <5>2. buf1[v - 1] \notin Blank
          <6>1. -1 \notin url .. n - 1
            BY <1>2, <2>1, <2>4
          <6> QED BY <2>6, <3>3, <5>1, <6>1
        <5>3. buf1[v - 1] = ln[v]
          BY <2>7, <5>1
        <5> QED BY <5>2, <5>3
      <4>2. GoodRequestLine(ln) = FALSE
        BY <3>2, <4>1 DEF GoodRequestLine, ReadsAsGet
      <4>3. rl = bad1
        BY <1>1, <1>5, <3>3
      <4>4. rl.ok = {GoodRequestLine(ln)} /\ rl.buf = buf1
        BY <4>2, <4>3 DEF bad1
      <4>5. \A i \in Indexes : buf1[i] = buf[i] \/ (buf1[i] = "NUL" /\ i < n)
        BY <1>2, <2>1, <2>2
      <4>6. rl.ok \subseteq BOOLEAN
        BY <4>2, <4>4
      <4> QED BY <2>2, <4>4, <4>5, <4>6 DEF rl
    <3>4. CASE ver1 # -1
      <4>1. /\ url \in 2 .. n /\ ver1 \in url .. n - 1 /\ ver1 \in Nat /\ url \in Nat
            /\ ln[ver1 + 1] \in Blank
            /\ \A i \in url .. ver1 - 1 : buf1[i] \notin Blank
        <5> HIDE DEF buf1
        <5>1. ver1 \in url .. n - 1 /\ buf1[ver1] \in Blank /\ \A i \in url .. ver1 - 1 : buf1[i] \notin Blank
          BY <1>2, <2>1, <2>4, <2>6, <3>4
        <5>2. url \in 2 .. n /\ url \in Nat /\ ver1 \in Nat /\ ver1 \in url1 + 1 .. n - 1
          BY <1>2, <2>1, <2>4, <2>10, <5>1
        <5>3. buf1[ver1] = ln[ver1 + 1]
          BY <2>7, <5>2
        <5> QED BY <5>1, <5>2, <5>3
      <4>2. ReadsAsGet(ln)
        BY <2>10, <3>1, <3>2, <4>1 DEF ReadsAsGet
      <4>3. UrlStop(ln) = ver1 + 1
        <5> DEFINE S == {i \in url + 1 .. n : ln[i] \in Blank}
        <5>1. ver1 + 1 \in S /\ S \subseteq Nat
          BY <4>1, <1>2
        <5>2. ASSUME NEW i \in S PROVE ver1 + 1 <= i
          <6>1. i \in url + 1 .. n /\ ln[i] \in Blank
            OBVIOUS
          <6>2. i - 1 \in url1 + 1 .. n - 1 /\ buf1[i - 1] = ln[i]
            BY <2>4, <2>7, <2>10, <4>1, <6>1
          <6>3. ~(i - 1 < ver1)
            BY <4>1, <6>1, <6>2
          <6> QED BY <4>1, <6>1, <6>3
        <5>3. Min(S) = ver1 + 1
          <6> HIDE DEF S
          <6> QED BY <5>1, <5>2, MinIs
        <5> QED BY <3>2, <5>3 DEF UrlStop
      <4>4. /\ buf2 \in Buffers
            /\ \A i \in Indexes : buf2[i] = IF i = ver1 THEN "NUL" ELSE buf1[i]
        BY <2>2, CutIs DEF buf2
      <4>5. \A i \in url .. n - 1 : i # ver1 => buf2[i] = ln[i + 1] /\ buf2[i] # "NUL"
        <5> SUFFICES ASSUME NEW i \in url .. n - 1, i # ver1 PROVE buf2[i] = ln[i + 1] /\ buf2[i] # "NUL"
          OBVIOUS
        <5>1. i \in 0 .. n /\ i + 1 \in 1 .. n /\ i \in url1 + 1 .. n - 1
          BY <1>2, <2>10, <4>1
        <5> QED BY <1>2, <2>7, <4>4, <5>1
      <4>6. buf2[n] = "NUL" /\ buf2[ver1] = "NUL"
        BY <1>2, <2>1, <2>2, <4>1, <4>4
      <4>7. EndOf(buf2, ver1 + 1) = n
        <5>1. ver1 + 1 \in Nat /\ ver1 + 1 <= n
          BY <4>1, <1>2
        <5>2. \A i \in ver1 + 1 .. n - 1 : buf2[i] # "NUL"
          BY <1>2, <4>1, <4>5
        <5> QED BY <1>2, <4>4, <4>6, <5>1, <5>2, EndOfIs
      <4>8. /\ version \in ver1 + 1 .. n
            /\ \A i \in ver1 + 1 .. version - 1 : buf2[i] \in Blank
            /\ version < n => buf2[version] \notin Blank
        <5>1. ver1 + 1 \in Nat /\ ver1 + 1 <= n
          BY <4>1, <1>2
        <5> QED BY <4>4, <4>7, <5>1, PastAllIs DEF version
      <4>9. \A p \in url .. ver1 : EndOf(buf2, p) = ver1
        <5> SUFFICES ASSUME NEW p \in url .. ver1 PROVE EndOf(buf2, p) = ver1
          OBVIOUS
        <5>1. p \in Nat /\ p <= ver1 /\ ver1 \in Indexes
          BY <1>2, <4>1
        <5>2. \A i \in p .. ver1 - 1 : buf2[i] # "NUL"
          BY <1>2, <4>1, <4>5
        <5> QED BY <4>4, <4>6, <5>1, <5>2, EndOfIs
      \* The version and the url are those of the reference.
      <4>10. Text(buf2, version) = Version(ln)
        <5>1. EndOf(buf2, version) = n
          <6>1. version \in Nat /\ version <= n
            BY <4>1, <4>8
          <6>2. \A i \in version .. n - 1 : buf2[i] # "NUL"
            BY <1>2, <4>1, <4>5, <4>8
          <6> QED BY <1>2, <4>4, <4>6, <6>1, <6>2, EndOfIs
        <5>2. Min({n + 1} \cup {i \in ver1 + 1 .. n : ln[i] \notin Blank}) = version + 1
          <6> DEFINE S == {n + 1} \cup {i \in ver1 + 1 .. n : ln[i] \notin Blank}
          <6>1. S \subseteq Nat
            BY <1>2, <4>1
          <6>2. version + 1 \in S
            <7>1. CASE version = n
              BY <7>1
            <7>2. CASE version < n
              <8>1. version \in url .. n - 1 /\ version # ver1 /\ version + 1 \in ver1 + 1 .. n
                BY <4>1, <4>8, <7>2
              <8> QED BY <4>5, <4>8, <7>2, <8>1
            <7> QED BY <4>1, <4>8, <7>1, <7>2
          <6>3. ASSUME NEW i \in S PROVE version + 1 <= i
            <7>1. CASE i = n + 1
              BY <4>1, <4>8, <7>1
            <7>2. CASE i # n + 1
              <8>1. i \in ver1 + 1 .. n /\ ln[i] \notin Blank
                BY <7>2
              <8>2. i # ver1 + 1
                BY <4>1, <8>1
              <8>3. i - 1 \in url .. n - 1 /\ i - 1 # ver1
                BY <4>1, <8>1, <8>2
              <8>4. buf2[i - 1] = ln[i]
                BY <4>5, <8>1, <8>3
              <8>5. ~(i - 1 < version)
                <9> SUFFICES ASSUME i - 1 < version PROVE FALSE
                  OBVIOUS
                <9>1. i - 1 \in ver1 + 1 .. version - 1
                  BY <4>1, <4>8, <8>1, <8>2
                <9> QED BY <4>8, <8>1, <8>4, <9>1
              <8> QED BY <4>1, <4>8, <8>1, <8>5
            <7> QED BY <7>1, <7>2
          <6>4. Min(S) = version + 1
            <7>1. version + 1 \in Nat
              BY <4>1, <4>8
            <7> HIDE DEF S
            <7> QED BY <6>1, <6>2, <6>3, <7>1, MinIs
          <6> QED BY <6>4
        <5>3. Version(ln) = SubSeq(ln, version + 1, n)
          BY <4>3, <5>2 DEF Version
        <5>4. Text(buf2, version) = [k \in 1 .. n - version |-> buf2[version + k - 1]]
          BY <5>1 DEF Text
        <5>5. SubSeq(ln, version + 1, n) = [k \in 1 .. n - version |-> ln[version + k]]
          BY <1>2, <4>1, <4>8
        <5>6. \A k \in 1 .. n - version : buf2[version + k - 1] = ln[version + k]
          <6> SUFFICES ASSUME NEW k \in 1 .. n - version PROVE buf2[version + k - 1] = ln[version + k]
            OBVIOUS
          <6>1. version + k - 1 \in url .. n - 1 /\ version + k - 1 # ver1 /\ version + k - 1 + 1 = version + k
            BY <1>2, <4>1, <4>8
          <6> QED BY <4>5, <6>1
        <5> QED BY <5>3, <5>4, <5>5, <5>6
      <4>11. Url(ln) \in Seq(Bytes) /\ Len(Url(ln)) = ver1 - url /\ \A k \in 1 .. ver1 - url : Url(ln)[k] = buf2[url + k - 1]
        <5>1. Url(ln) = SubSeq(ln, url + 1, ver1)
          BY <3>2, <4>1, <4>3 DEF Url
        <5>2. Len(Url(ln)) = ver1 - url /\ \A k \in 1 .. ver1 - url : Url(ln)[k] = ln[url + k]
          BY <1>2, <4>1, <5>1
        <5>3. ASSUME NEW k \in 1 .. ver1 - url PROVE buf2[url + k - 1] = ln[url + k]
          <6>1. url + k - 1 \in url .. n - 1 /\ url + k - 1 # ver1 /\ url + k - 1 + 1 = url + k
            BY <1>2, <4>1
          <6> QED BY <4>5, <6>1
        <5>4. Url(ln) \in Seq(Bytes)
          BY <1>2, <4>1, <5>1
        <5> QED BY <5>2, <5>3, <5>4
      <4>12. rl = read
        BY <1>1, <1>5, <2>8, <2>10, <3>4
      <4>13. rl.buf = buf2 /\ rl.ok = UrlAccepted(buf2, url, version)
        BY <4>12 DEF read
      <4>14. \A i \in Indexes : buf2[i] = buf[i] \/ (buf2[i] = "NUL" /\ i < n)
        BY <2>1, <2>2, <4>1, <4>4
      <4>15. CASE Version(ln) = <<"HTTP/1.1">>
        <5>1. UrlAccepted(buf2, url, version) = {EndOf(buf2, url) > url /\ buf2[url] = "/"}
          BY <4>10, <4>15 DEF UrlAccepted
        <5>2. EndOf(buf2, url) = ver1
          BY <4>1, <4>9
        <5>3. Url(ln) # <<>> <=> ver1 > url
          BY <4>1, <4>11
        <5>4. ver1 > url => Url(ln)[1] = buf2[url]
          BY <4>1, <4>11
        <5>5. GoodRequestLine(ln) <=> ver1 > url /\ buf2[url] = "/"
          BY <4>2, <4>15, <5>3, <5>4 DEF GoodRequestLine
        <5>6. UrlAccepted(buf2, url, version) = {GoodRequestLine(ln)}
          BY <5>1, <5>2, <5>5 DEF GoodRequestLine
        <5> QED BY <4>4, <4>13, <4>14, <5>6 DEF rl, GoodRequestLine
      <4>16. CASE Version(ln) # <<"HTTP/1.1">>
        <5>1. UrlAccepted(buf2, url, version) =
                IF FirstOf(buf2, url + Skip, WithSlash) # -1 THEN {TRUE}
                ELSE IF EndOf(buf2, url + Skip) = BUFFER_SIZE THEN BOOLEAN ELSE {FALSE}
          BY <4>10, <4>16 DEF UrlAccepted
        <5>2. rl.ok \subseteq BOOLEAN
          BY <4>13, <5>1
        <5>3. ASSUME ~(Len(Url(ln)) < Skip) PROVE rl.ok = {GoodRequestLine(ln)}
          <6>1. url + Skip \in url .. ver1 /\ url + Skip \in Nat /\ ver1 \in Indexes
            BY <1>2, <4>1, <4>11, <5>3
          <6>2. EndOf(buf2, url + Skip) = ver1 /\ ver1 # BUFFER_SIZE
            BY <1>2, <4>1, <4>9, <6>1
          <6>3. GoodRequestLine(ln) <=> \E i \in url + Skip .. ver1 - 1 : buf2[i] \in WithSlash
            <7>1. GoodRequestLine(ln) <=> \E k \in (Skip + 1) .. Len(Url(ln)) : Url(ln)[k] \in WithSlash
              BY <4>2, <4>16 DEF GoodRequestLine
            <7>2. ASSUME NEW k \in (Skip + 1) .. Len(Url(ln)), Url(ln)[k] \in WithSlash
                  PROVE  \E i \in url + Skip .. ver1 - 1 : buf2[i] \in WithSlash
              <8>1. k \in 1 .. ver1 - url /\ url + k - 1 \in url + Skip .. ver1 - 1
                BY <1>2, <4>1, <4>11
              <8>2. buf2[url + k - 1] \in WithSlash
                BY <4>11, <7>2, <8>1
              <8> QED BY <8>1, <8>2
            <7>3. ASSUME NEW i \in url + Skip .. ver1 - 1, buf2[i] \in WithSlash
                  PROVE  \E k \in (Skip + 1) .. Len(Url(ln)) : Url(ln)[k] \in WithSlash
              <8>1. i - url + 1 \in (Skip + 1) .. Len(Url(ln)) /\ i - url + 1 \in 1 .. ver1 - url
                BY <1>2, <4>1, <4>11
              <8>2. url + (i - url + 1) - 1 = i
                BY <1>2, <4>1, <8>1
              <8>3. Url(ln)[i - url + 1] = buf2[i]
                BY <4>11, <8>1, <8>2
              <8> QED BY <7>3, <8>1, <8>3
            <7> QED BY <7>1, <7>2, <7>3
          <6>4. FirstOf(buf2, url + Skip, WithSlash) # -1
                  <=> \E i \in url + Skip .. ver1 - 1 : buf2[i] \in WithSlash
            <7> DEFINE f == FirstOf(buf2, url + Skip, WithSlash)
            <7>1. \/ f = -1 /\ \A i \in url + Skip .. ver1 - 1 : buf2[i] \notin WithSlash
                  \/ f \in url + Skip .. ver1 - 1 /\ buf2[f] \in WithSlash
              BY <4>4, <6>1, <6>2, FirstOfIs
            <7>2. -1 \notin url + Skip .. ver1 - 1
              BY <6>1
            <7> HIDE DEF f
            <7>3. f # -1 <=> \E i \in url + Skip .. ver1 - 1 : buf2[i] \in WithSlash
              BY <7>1, <7>2
            <7> QED BY <7>3 DEF f
          <6>5. CASE GoodRequestLine(ln)
            <7>1. rl.ok = {TRUE} /\ GoodRequestLine(ln) = TRUE
              BY <4>13, <5>1, <6>3, <6>4, <6>5 DEF GoodRequestLine
            <7> QED BY <7>1
          <6>6. CASE ~GoodRequestLine(ln)
            <7>1. rl.ok = {FALSE}
              BY <4>13, <5>1, <6>2, <6>3, <6>4, <6>6
            <7>2. GoodRequestLine(ln) = FALSE
              BY <6>6 DEF GoodRequestLine
            <7> QED BY <7>1, <7>2
          <6> QED BY <6>5, <6>6
        <5> QED BY <4>2, <4>4, <4>13, <4>14, <4>16, <5>2, <5>3 DEF rl
      <4> QED BY <4>15, <4>16
    <3> QED BY <3>3, <3>4
  <2> QED BY <2>9, <2>10
<1> QED BY <1>4, <1>5

-----------------------------------------------------------------------------
(* What a stream deserves. *)

LEMMA LineEndsAre ==
  ASSUME NEW s \in Seq(Bytes)
  PROVE  LineEnds(s) \subseteq Nat /\ Stray(s) \subseteq Nat /\ CompleteAt(s) \subseteq LineEnds(s)
         /\ WrongAt(s) \subseteq Nat
<1>1. LineEnds(s) \subseteq Nat /\ Stray(s) \subseteq Nat /\ CompleteAt(s) \subseteq LineEnds(s)
  BY DEF LineEnds, Stray, CompleteAt
<1>2. LineEnds(s) # {} => Min(LineEnds(s)) \in Nat
  BY <1>1, MinOf
<1> QED BY <1>1, <1>2 DEF WrongAt

\* Where a request is complete: at the end of a line that shows nothing.
LEMMA CompleteIs ==
  ASSUME NEW s, NEW e
  PROVE  e \in CompleteAt(s) <=>
           /\ e \in LineEnds(s)
           /\ \E p \in LineEnds(s) : /\ p < e /\ \A q \in LineEnds(s) : q <= p \/ q >= e
                                     /\ p + 2 = e \/ s[p + 2] = "NUL"
BY DEF CompleteAt

LEMMA VerdictBad ==
  ASSUME NEW s \in Seq(Bytes), NEW p \in WrongAt(s),
         \A x \in WrongAt(s) \cup CompleteAt(s) : p <= x
  PROVE  Verdict(s) = "BAD_REQUEST"
<1>1. WrongAt(s) \cup CompleteAt(s) \in SUBSET Nat /\ p \in WrongAt(s) \cup CompleteAt(s)
  BY LineEndsAre
<1>2. Min(WrongAt(s) \cup CompleteAt(s)) = p
  BY <1>1, MinIs
<1> QED BY <1>1, <1>2 DEF Verdict

LEMMA VerdictGet ==
  ASSUME NEW s \in Seq(Bytes), NEW e \in CompleteAt(s), \A x \in WrongAt(s) : e < x
  PROVE  Verdict(s) = "GET_REQUEST"
<1> DEFINE S == WrongAt(s) \cup CompleteAt(s)
<1>1. S \in SUBSET Nat /\ e \in S /\ e \in Nat
  BY LineEndsAre
<1>2. Min(S) <= e /\ Min(S) \in Nat
  <2> HIDE DEF S
  <2> QED BY <1>1, MinOf
<1>3. Min(S) \notin WrongAt(s)
  BY <1>1, <1>2
<1> QED BY <1>1, <1>3 DEF Verdict

\* What is before the line being read, and what follows from the last recv.
InBuffer ==
  /\ \A i \in start_line .. read_index - 1 : buffer[i] = stream[i + 1]
  /\ \A i \in 0 .. checked_index - 1 : buffer[i] \notin {"CR", "LF"}

SoFar ==
  /\ \A i \in Stray(stream) : i > start_line
  /\ \A e \in CompleteAt(stream) : e >= start_line
  /\ start_line > 0 => start_line - 1 \in LineEnds(stream)
  /\ checkstate = "REQUESTLINE" => start_line = 0
  /\ checkstate = "HEADER" =>
       start_line > 0 /\ (Overreads(stream) \/ GoodRequestLine(FirstLine(stream)))

Waiting ==
  \A i \in checked_index .. read_index - 1 :
    buffer[i] \in {"CR", "LF"} => i = read_index - 1 /\ buffer[i] = "CR"

HttpIInv ==
  /\ AnswerIsVerdict
  /\ read_index <= Len(stream)
  /\ pc # "done" => InBuffer /\ SoFar /\ result = "none"
  /\ pc = "recv" => Waiting

LEMMA HttpTypes ==
  ASSUME HttpIInv
  PROVE  /\ stream \in Seq(Bytes) /\ Len(stream) \in Nat /\ BUFFER_SIZE \in Nat
         /\ read_index \in Nat /\ checked_index \in Nat /\ start_line \in Nat
         /\ start_line <= checked_index /\ checked_index <= read_index
         /\ read_index <= BUFFER_SIZE /\ read_index <= Len(stream)
         /\ buffer \in Buffers
         /\ \A i \in 1 .. Len(stream) : stream[i] \in Bytes
BY HttpParseAssumption DEF HttpIInv, AnswerIsVerdict, TypeOK, Buffers, Chars

\* Where parse_line stops.
LEMMA ScanIs ==
  ASSUME HttpIInv, pc = "parse"
  PROVE  /\ Stop \in checked_index .. read_index
         /\ \A i \in 0 .. Stop - 1 : buffer[i] \notin {"CR", "LF"}
         /\ Stop < read_index => buffer[Stop] \in {"CR", "LF"} /\ buffer[Stop] = stream[Stop + 1]
         /\ \A cr \in LineEnd : /\ cr = Stop /\ Stop + 1 < read_index
                                /\ buffer[cr] = "CR" /\ buffer[cr + 1] = "LF"
<1> DEFINE S == {read_index} \cup {i \in checked_index .. (read_index - 1) : buffer[i] \in {"CR", "LF"}}
<1>0. InBuffer
  BY DEF HttpIInv
<1>1. S \in SUBSET Nat /\ S # {}
  BY HttpTypes
<1>2. Stop \in S /\ Stop \in Nat /\ \A i \in S : Stop <= i
  <2>1. Stop = Min(S)
    BY DEF Stop
  <2> HIDE DEF S
  <2> QED BY <1>1, <2>1, MinOf
<1>3. Stop \in checked_index .. read_index
  BY <1>2, HttpTypes
<1>4. ASSUME NEW i \in 0 .. Stop - 1 PROVE buffer[i] \notin {"CR", "LF"}
  <2>1. CASE i < checked_index
    BY <1>0, <2>1, HttpTypes DEF InBuffer
  <2>2. CASE i >= checked_index
    <3>1. i \in checked_index .. (read_index - 1) /\ ~(Stop <= i)
      BY <1>2, <1>3, <2>2, HttpTypes
    <3> QED BY <1>2, <3>1
  <2> QED BY <2>1, <2>2, HttpTypes
<1>5. ASSUME Stop < read_index
      PROVE  buffer[Stop] \in {"CR", "LF"} /\ buffer[Stop] = stream[Stop + 1]
  BY <1>0, <1>2, <1>3, <1>5, HttpTypes DEF InBuffer
<1>6. ASSUME NEW cr \in LineEnd
      PROVE  cr = Stop /\ Stop + 1 < read_index /\ buffer[cr] = "CR" /\ buffer[cr + 1] = "LF"
  <2>1. /\ cr \in {Stop - 1, Stop} /\ cr \in Nat /\ cr + 1 < read_index
        /\ buffer[cr] = "CR" /\ buffer[cr + 1] = "LF"
    BY DEF LineEnd
  <2>2. cr # Stop - 1
    BY <1>2, <1>4, <2>1
  <2> QED BY <2>1, <2>2
<1> QED BY <1>3, <1>4, <1>5, <1>6

\* The stream up to there: nothing wrong, and no end of a line but those found.
LEMMA AheadIs ==
  ASSUME HttpIInv, pc = "parse"
  PROVE  /\ \A i \in Stray(stream) : i > Stop
         /\ \A e \in LineEnds(stream) : e < start_line \/ e > Stop
         /\ \A e \in CompleteAt(stream) : e > Stop
<1>0. InBuffer /\ SoFar /\ Stop \in Nat /\ start_line <= Stop /\ Stop <= read_index
  BY ScanIs, HttpTypes DEF HttpIInv
<1>1. ASSUME NEW i \in Nat, start_line < i, i <= Stop
      PROVE  stream[i] \notin {"CR", "LF"}
  <2>1. i - 1 \in start_line .. read_index - 1 /\ i - 1 \in 0 .. Stop - 1
    BY <1>0, <1>1, HttpTypes
  <2>2. buffer[i - 1] = stream[i]
    BY <1>0, <2>1 DEF InBuffer
  <2> QED BY <2>1, <2>2, ScanIs
<1>2. ASSUME NEW i \in Stray(stream) PROVE i > Stop
  <2>1. i \in Nat /\ i > start_line /\ stream[i] \in {"CR", "LF"}
    BY <1>0, HttpTypes, LineEndsAre DEF SoFar, Stray
  <2> QED BY <1>0, <1>1, <2>1
<1>3. ASSUME NEW e \in LineEnds(stream) PROVE e < start_line \/ e > Stop
  <2>1. e \in Nat /\ e > 0 /\ stream[e] = "CR"
    BY HttpTypes DEF LineEnds
  <2>2. e # start_line
    <3>1. start_line > 0 => stream[start_line] = "LF"
      BY <1>0, HttpTypes DEF SoFar, LineEnds
    <3> QED BY <2>1, <3>1, HttpTypes
  <2> QED BY <1>0, <1>1, <2>1, <2>2, HttpTypes
<1>4. ASSUME NEW e \in CompleteAt(stream) PROVE e > Stop
  <2>1. e \in LineEnds(stream) /\ e \in Nat /\ e >= start_line
    BY <1>0, HttpTypes, LineEndsAre DEF SoFar
  <2> QED BY <1>3, <2>1, HttpTypes
<1> QED BY <1>2, <1>3, <1>4

-----------------------------------------------------------------------------
(* The steps of the parser. *)

LEMMA HttpInitInv == Init => HttpIInv
<1> SUFFICES ASSUME Init PROVE HttpIInv
  OBVIOUS
<1>1. stream \in Streams /\ stream \in Seq(Bytes) /\ Len(stream) \in Nat
  BY HttpParseAssumption DEF Init
<1>2. buffer \in [Indexes -> Bytes \cup {"NUL"}]
  BY DEF Init
<1>3. AnswerIsVerdict
  BY <1>1, <1>2, HttpParseAssumption DEF Init, AnswerIsVerdict, TypeOK
<1>4. \A e \in CompleteAt(stream) : e >= start_line
  BY <1>1, LineEndsAre DEF Init
<1>5. \A i \in Stray(stream) : i > start_line
  BY <1>1 DEF Init, Stray
<1> QED BY <1>1, <1>3, <1>4, <1>5 DEF Init, HttpIInv, InBuffer, SoFar, Waiting

LEMMA ReceiveInv ==
  ASSUME HttpIInv, Receive
  PROVE  HttpIInv'
<1>1. /\ pc = "recv" /\ pc' = "parse"
      /\ UNCHANGED <<stream, checked_index, start_line, checkstate, result>>
  BY DEF Receive
<1>2. PICK n \in 1 .. (Room - read_index) :
         /\ buffer' = [i \in Indexes |-> IF i \in read_index .. (read_index + n - 1)
                                         THEN stream[i + 1] ELSE buffer[i]]
         /\ read_index' = read_index + n
  BY DEF Receive
<1>3. Room \in Nat /\ Room <= BUFFER_SIZE /\ Room <= Len(stream)
  <2>1. {BUFFER_SIZE, Len(stream)} \in SUBSET Nat
    BY HttpTypes
  <2> QED BY <2>1, MinOf DEF Room
<1>4. n \in Nat /\ n > 0 /\ read_index + n <= BUFFER_SIZE /\ read_index + n <= Len(stream)
  BY <1>3, HttpTypes
<1>5. \A i \in read_index .. (read_index + n - 1) : stream[i + 1] \in Bytes
  BY <1>4, HttpTypes
<1>6. buffer' \in [Indexes -> Bytes \cup {"NUL"}]
  BY <1>2, <1>5, HttpTypes DEF Buffers, Chars
<1>7. \A i \in 0 .. read_index + n - 1 :
        buffer'[i] = IF i < read_index THEN buffer[i] ELSE stream[i + 1]
  <2> SUFFICES ASSUME NEW i \in 0 .. read_index + n - 1
               PROVE  buffer'[i] = IF i < read_index THEN buffer[i] ELSE stream[i + 1]
    OBVIOUS
  <2>1. i \in Indexes
    BY <1>4, IndexesAre, HttpTypes
  <2> QED BY <1>2, <1>4, <2>1, HttpTypes
<1>8. InBuffer'
  <2>1. InBuffer
    BY <1>1 DEF HttpIInv
  <2>2. ASSUME NEW i \in start_line .. read_index' - 1 PROVE buffer'[i] = stream[i + 1]
    <3>1. i \in 0 .. read_index + n - 1 /\ (i < read_index => i \in start_line .. read_index - 1)
      BY <1>2, <1>4, HttpTypes
    <3> QED BY <1>7, <2>1, <3>1 DEF InBuffer
  <2>3. ASSUME NEW i \in 0 .. checked_index - 1 PROVE buffer'[i] \notin {"CR", "LF"}
    <3>1. i \in 0 .. read_index + n - 1 /\ i < read_index
      BY <1>4, HttpTypes
    <3> QED BY <1>7, <2>1, <3>1 DEF InBuffer
  <2> QED BY <1>1, <2>2, <2>3 DEF InBuffer
<1>9. SoFar'
  <2>1. SoFar
    BY <1>1 DEF HttpIInv
  <2>2. /\ Stray(stream)' = Stray(stream) /\ CompleteAt(stream)' = CompleteAt(stream)
        /\ LineEnds(stream)' = LineEnds(stream) /\ Overreads(stream)' = Overreads(stream)
        /\ GoodRequestLine(FirstLine(stream))' = GoodRequestLine(FirstLine(stream))
    BY <1>1
  <2> QED BY <1>1, <2>1, <2>2 DEF SoFar
<1>10. TypeOK'
  BY <1>1, <1>2, <1>4, <1>6, HttpTypes DEF TypeOK, HttpIInv, AnswerIsVerdict
<1>11. result' = "none"
  BY <1>1 DEF HttpIInv
<1>12. AnswerIsVerdict'
  BY <1>10, <1>11 DEF AnswerIsVerdict
<1> QED BY <1>1, <1>2, <1>4, <1>8, <1>9, <1>11, <1>12 DEF HttpIInv

\* While the server waits, what it has received is not enough.
LEMMA WaitsForMore ==
  ASSUME HttpIInv, pc = "recv", ~Overreads(stream)
  PROVE  Verdict(Received) = "NO_REQUEST"
<1> DEFINE s == Received
<1>0. InBuffer /\ SoFar /\ Waiting
  BY DEF HttpIInv
<1>1. s \in Seq(Bytes) /\ Len(s) = read_index /\ \A i \in 1 .. read_index : s[i] = stream[i]
  BY HttpTypes DEF Received
<1>2. ASSUME NEW i \in 1 .. read_index, s[i] \in {"CR", "LF"}, i > start_line
      PROVE  i = read_index /\ s[i] = "CR"
  <2>1. i - 1 \in start_line .. read_index - 1
    BY <1>2, HttpTypes
  <2>2. buffer[i - 1] = s[i]
    BY <1>0, <1>1, <2>1 DEF InBuffer
  <2>3. ~(i - 1 < checked_index)
    <3> SUFFICES ASSUME i - 1 < checked_index PROVE FALSE
      OBVIOUS
    <3>1. i - 1 \in 0 .. checked_index - 1
      BY <2>1, HttpTypes
    <3> QED BY <1>0, <1>2, <2>2, <3>1 DEF InBuffer
  <2>4. i - 1 \in checked_index .. read_index - 1
    BY <2>1, <2>3, HttpTypes
  <2> QED BY <1>0, <1>2, <2>2, <2>4, HttpTypes DEF Waiting
<1> HIDE DEF s
<1>3. ASSUME NEW e \in LineEnds(s) PROVE e < start_line /\ e \in LineEnds(stream)
  <2>1. /\ e \in 1 .. read_index - 1 /\ e \in 1 .. read_index /\ e + 1 \in 1 .. read_index
        /\ s[e] = "CR" /\ s[e + 1] = "LF"
    BY <1>1, HttpTypes DEF LineEnds
  <2>2. ~(e > start_line)
    BY <1>2, <2>1
  <2>3. e \in LineEnds(stream)
    BY <1>1, <2>1, HttpTypes DEF LineEnds
  <2>4. e # start_line
    <3>1. start_line > 0 => stream[start_line] = "LF"
      BY <1>0, HttpTypes DEF SoFar, LineEnds
    <3> QED BY <1>1, <2>1, <3>1, HttpTypes
  <2> QED BY <2>1, <2>2, <2>3, <2>4, HttpTypes
<1>4. CompleteAt(s) = {}
  <2> SUFFICES ASSUME NEW e \in CompleteAt(s) PROVE FALSE
    OBVIOUS
  <2>1. e \in LineEnds(s) /\ e \in Nat /\ e + 1 <= read_index
    <3>1. e \in LineEnds(s)
      BY CompleteIs
    <3> QED BY <1>1, <3>1, HttpTypes DEF LineEnds
  <2>2. PICK p \in LineEnds(s) : /\ p < e /\ \A q \in LineEnds(s) : q <= p \/ q >= e
                                 /\ p + 2 = e \/ s[p + 2] = "NUL"
    BY CompleteIs
  <2>3. p \in LineEnds(stream) /\ e \in LineEnds(stream) /\ e < start_line
    BY <1>3, <2>1
  <2>4. \A q \in LineEnds(stream) : q <= p \/ q >= e
    <3> SUFFICES ASSUME NEW q \in LineEnds(stream), q < e PROVE q \in LineEnds(s)
      BY <2>1, <2>2, HttpTypes, LineEndsAre
    <3>1. q \in 1 .. Len(s) - 1 /\ q \in 1 .. read_index /\ q + 1 \in 1 .. read_index
      BY <1>1, <2>1, HttpTypes DEF LineEnds
    <3> QED BY <1>1, <3>1 DEF LineEnds
  <2>5. p + 2 = e \/ stream[p + 2] = "NUL"
    <3> SUFFICES ASSUME p + 2 # e PROVE s[p + 2] = stream[p + 2]
      BY <2>2
    <3>1. p \in 1 .. read_index /\ s[p] = "CR" /\ s[p + 1] = "LF" /\ s[e] = "CR"
      BY <1>1, <2>1, HttpTypes DEF LineEnds
    <3>2. p + 2 \in 1 .. read_index
      BY <2>1, <2>2, <3>1, HttpTypes
    <3> QED BY <1>1, <3>2
  <2>6. e \in CompleteAt(stream)
    BY <2>2, <2>3, <2>4, <2>5, CompleteIs
  <2> QED BY <1>0, <2>1, <2>3, <2>6, HttpTypes DEF SoFar
<1>5. Stray(s) = {}
  <2> SUFFICES ASSUME NEW i \in Stray(s) PROVE FALSE
    OBVIOUS
  <2>1. i \in 1 .. read_index /\ s[i] \in {"CR", "LF"}
    BY <1>1 DEF Stray
  <2>2. CASE i > start_line
    <3>1. i = Len(s) /\ s[i] = "CR"
      BY <1>1, <1>2, <2>1, <2>2
    <3> QED BY <3>1, HttpTypes, <1>1 DEF Stray
  <2>3. CASE ~(i > start_line)
    <3>1. i \in Stray(stream)
      <4>1. i \in 1 .. Len(stream) /\ stream[i] = s[i]
        BY <1>1, <2>1, HttpTypes
      <4>2. CASE s[i] = "CR"
        <5>1. i < read_index /\ s[i + 1] # "LF"
          BY <1>1, <4>2 DEF Stray
        <5>2. i < Len(stream) /\ stream[i + 1] # "LF"
          BY <1>1, <2>1, <5>1, HttpTypes
        <5> QED BY <4>1, <4>2, <5>2 DEF Stray
      <4>3. CASE s[i] = "LF"
        <5>1. i = 1 \/ s[i - 1] # "CR"
          BY <4>3 DEF Stray
        <5>2. i = 1 \/ stream[i - 1] # "CR"
          BY <1>1, <2>1, <5>1, HttpTypes
        <5> QED BY <4>1, <4>3, <5>2 DEF Stray
      <4> QED BY <2>1, <4>2, <4>3
    <3> QED BY <1>0, <2>3, <3>1 DEF SoFar
  <2> QED BY <2>2, <2>3
\* Its first line is that of the stream.
<1>6. ASSUME LineEnds(s) # {} PROVE GoodRequestLine(FirstLine(s))
  <2>1. PICK e \in LineEnds(s) : TRUE
    BY <1>6
  <2>2. e \in Nat /\ e < start_line /\ checkstate = "HEADER"
    <3>1. e \in Nat /\ e < start_line
      BY <1>1, <1>3, <2>1, LineEndsAre
    <3>2. checkstate \in {"REQUESTLINE", "HEADER"}
      BY DEF HttpIInv, AnswerIsVerdict, TypeOK
    <3> QED BY <1>0, <3>1, <3>2 DEF SoFar
  <2>3. GoodRequestLine(FirstLine(stream))
    BY <1>0, <2>2 DEF SoFar
  <2>4. Min(LineEnds(stream)) = Min(LineEnds(s))
    <3>1. LineEnds(s) \in SUBSET Nat /\ LineEnds(stream) \in SUBSET Nat
      BY <1>1, HttpTypes, LineEndsAre
    <3>2. Min(LineEnds(s)) \in LineEnds(s) /\ \A i \in LineEnds(s) : Min(LineEnds(s)) <= i
      BY <1>6, <3>1, MinOf
    <3>3. Min(LineEnds(s)) \in LineEnds(stream) /\ Min(LineEnds(s)) < start_line
      BY <1>3, <3>2
    <3>4. ASSUME NEW i \in LineEnds(stream) PROVE Min(LineEnds(s)) <= i
      <4>1. CASE i + 1 <= read_index
        <5>1. i \in LineEnds(s)
          <6>1. i \in 1 .. Len(s) - 1 /\ i \in 1 .. read_index /\ i + 1 \in 1 .. read_index
            BY <1>1, <4>1, HttpTypes DEF LineEnds
          <6> QED BY <1>1, <6>1 DEF LineEnds
        <5> QED BY <3>2, <5>1
      <4>2. CASE ~(i + 1 <= read_index)
        BY <3>1, <3>2, <3>3, <4>2, HttpTypes
      <4> QED BY <4>1, <4>2
    <3> QED BY <3>1, <3>3, <3>4, MinIs
  <2>5. FirstLine(s) = FirstLine(stream)
    <3> DEFINE m == Min(LineEnds(s))
    <3>1. LineEnds(s) \in SUBSET Nat
      BY <1>1, LineEndsAre
    <3>2. m \in LineEnds(s)
      BY <1>6, <3>1, MinOf
    <3>3. m \in Nat /\ m <= read_index
      BY <1>1, <3>1, <3>2, HttpTypes DEF LineEnds
    <3> HIDE DEF m
    <3>4. \A i \in 1 .. m - 1 : s[i] = stream[i]
      BY <1>1, <3>3, HttpTypes
    <3>5. SubSeq(s, 1, m - 1) = SubSeq(stream, 1, m - 1)
      BY <1>1, <3>3, <3>4, HttpTypes
    <3> QED BY <2>4, <3>5 DEF FirstLine, m
  <2> QED BY <2>3, <2>5
<1>7. WrongAt(s) = {}
  BY <1>5, <1>6 DEF WrongAt
<1>8. Verdict(s) = "NO_REQUEST"
  BY <1>4, <1>7 DEF Verdict
<1> QED BY <1>8 DEF s

\* A connection that ends without an answer.
LEMMA ReceiveEndsInv ==
  ASSUME HttpIInv, ReceiveNothing \/ ReceiveFails
  PROVE  HttpIInv'
<1>1. /\ pc = "recv" /\ pc' = "done" /\ result' \in {"closed", "failed"}
      /\ UNCHANGED <<stream, buffer, read_index, checked_index, start_line, checkstate>>
      /\ result' = "closed" => read_index = Room
  BY DEF ReceiveNothing, ReceiveFails, Finish
<1>2. TypeOK'
  BY <1>1 DEF HttpIInv, AnswerIsVerdict, TypeOK
<1>3. ASSUME result' = "closed", ~Overreads(stream)
      PROVE  Verdict(stream) = "NO_REQUEST" \/ Len(stream) > BUFFER_SIZE
  <2>1. CASE Len(stream) <= BUFFER_SIZE
    <3>1. Room = Len(stream)
      <4>1. {BUFFER_SIZE, Len(stream)} \in SUBSET Nat
        BY HttpTypes
      <4>2. Min({BUFFER_SIZE, Len(stream)}) = Len(stream)
        <5> DEFINE S == {BUFFER_SIZE, Len(stream)}
        <5>1. S \in SUBSET Nat /\ Len(stream) \in S /\ \A i \in S : Len(stream) <= i
          BY <2>1, <4>1, HttpTypes
        <5> HIDE DEF S
        <5>2. Min(S) = Len(stream)
          BY <5>1, MinIs
        <5> QED BY <5>2 DEF S
      <4> QED BY <4>2 DEF Room
    <3>2. Received = stream
      BY <1>1, <1>3, <3>1, HttpTypes DEF Received
    <3> QED BY <1>1, <1>3, <3>2, WaitsForMore
  <2>2. CASE ~(Len(stream) <= BUFFER_SIZE)
    BY <2>2, HttpTypes
  <2> QED BY <2>1, <2>2
<1>4. AnswerIsVerdict'
  <2>1. Overreads(stream)' = Overreads(stream) /\ Verdict(stream)' = Verdict(stream)
    BY <1>1
  <2> QED BY <1>1, <1>2, <1>3, <2>1 DEF AnswerIsVerdict
<1>5. read_index' <= Len(stream')
  BY <1>1, HttpTypes
<1> QED BY <1>1, <1>4, <1>5 DEF HttpIInv

LEMMA LineOpenInv ==
  ASSUME HttpIInv, LineOpen
  PROVE  HttpIInv'
<1>1. /\ pc = "parse" /\ pc' = "recv" /\ Open /\ checked_index' = Stop
      /\ UNCHANGED <<stream, buffer, read_index, start_line, checkstate, result>>
  BY DEF LineOpen
<1>2. /\ InBuffer /\ SoFar /\ result = "none"
      /\ Stop \in Nat /\ checked_index <= Stop /\ Stop <= read_index
      /\ \A i \in 0 .. Stop - 1 : buffer[i] \notin {"CR", "LF"}
  BY <1>1, ScanIs, HttpTypes DEF HttpIInv
<1>3. InBuffer'
  BY <1>1, <1>2 DEF InBuffer
<1>4. SoFar'
  <2>1. /\ Stray(stream)' = Stray(stream) /\ CompleteAt(stream)' = CompleteAt(stream)
        /\ LineEnds(stream)' = LineEnds(stream) /\ Overreads(stream)' = Overreads(stream)
        /\ GoodRequestLine(FirstLine(stream))' = GoodRequestLine(FirstLine(stream))
    BY <1>1
  <2> QED BY <1>1, <1>2, <2>1 DEF SoFar
<1>5. Waiting'
  BY <1>1, <1>2, HttpTypes DEF Waiting, Open
<1>6. TypeOK'
  BY <1>1, <1>2, HttpTypes DEF HttpIInv, AnswerIsVerdict, TypeOK
<1>7. AnswerIsVerdict'
  BY <1>1, <1>2, <1>6 DEF AnswerIsVerdict
<1> QED BY <1>1, <1>2, <1>3, <1>4, <1>5, <1>7, HttpTypes DEF HttpIInv

\* A line end that is not one is where the stream is wrong first.
LEMMA LineBadInv ==
  ASSUME HttpIInv, LineBad
  PROVE  HttpIInv'
<1>1. /\ pc = "parse" /\ pc' = "done" /\ result' = "BAD_REQUEST" /\ checked_index' = Stop
      /\ ~Open /\ LineEnd = {}
      /\ UNCHANGED <<stream, buffer, read_index, start_line, checkstate>>
  BY DEF LineBad, Finish
<1>2. /\ InBuffer /\ SoFar
      /\ Stop \in Nat /\ start_line <= Stop /\ checked_index <= Stop /\ Stop < read_index
      /\ \A i \in 0 .. Stop - 1 : buffer[i] \notin {"CR", "LF"}
      /\ buffer[Stop] \in {"CR", "LF"} /\ buffer[Stop] = stream[Stop + 1]
  BY <1>1, ScanIs, HttpTypes DEF HttpIInv, Open
<1>3. Stop + 1 \in Stray(stream)
  <2>0. PICK p \in Nat : p = Stop + 1
    BY <1>2
  <2>1. p \in DOMAIN stream /\ stream[p] = buffer[Stop]
    BY <1>2, <2>0, HttpTypes
  <2>2. CASE buffer[Stop] = "CR"
    <3>1. p < read_index
      BY <1>1, <1>2, <2>0, <2>2, HttpTypes DEF Open
    <3>2. buffer[p] # "LF"
      BY <1>1, <1>2, <2>0, <2>2, <3>1 DEF LineEnd
    <3>3. p \in start_line .. read_index - 1
      BY <1>2, <2>0, <3>1, HttpTypes
    <3>4. buffer[p] = stream[p + 1]
      BY <1>2, <3>3 DEF InBuffer
    <3>5. p < Len(stream)
      BY <3>1, HttpTypes
    <3>6. p \in Stray(stream)
      BY <2>1, <2>2, <3>2, <3>4, <3>5 DEF Stray
    <3> QED BY <2>0, <3>6
  <2>3. CASE buffer[Stop] = "LF"
    <3>1. p = 1 \/ stream[p - 1] # "CR"
      <4>0. p - 1 = Stop
        BY <1>2, <2>0
      <4>1. CASE start_line < Stop
        <5>1. Stop - 1 \in start_line .. read_index - 1 /\ Stop - 1 \in 0 .. Stop - 1 /\ Stop - 1 + 1 = Stop
          BY <1>2, <4>1, HttpTypes
        <5>2. buffer[Stop - 1] = stream[Stop]
          BY <1>2, <5>1 DEF InBuffer
        <5> QED BY <1>2, <4>0, <5>1, <5>2
      <4>2. CASE start_line = Stop
        <5>1. start_line > 0 => stream[start_line] = "LF"
          BY <1>2, HttpTypes DEF SoFar, LineEnds
        <5> QED BY <1>2, <2>0, <4>0, <4>2, <5>1
      <4> QED BY <1>2, <4>1, <4>2, HttpTypes
    <3>2. p \in Stray(stream)
      BY <2>1, <2>3, <3>1 DEF Stray
    <3> QED BY <2>0, <3>2
  <2> QED BY <1>2, <2>2, <2>3
<1>4. ASSUME ~Overreads(stream) PROVE Verdict(stream) = "BAD_REQUEST"
  <2>1. Stop + 1 \in WrongAt(stream)
    BY <1>3 DEF WrongAt
  <2>2. ASSUME NEW x \in WrongAt(stream) \cup CompleteAt(stream) PROVE Stop + 1 <= x
    <3>1. x \in Nat
      BY HttpTypes, LineEndsAre
    <3>2. CASE x \in Stray(stream) \cup CompleteAt(stream)
      BY <1>1, <1>2, <3>1, <3>2, AheadIs
    <3>3. CASE x \notin Stray(stream) \cup CompleteAt(stream)
      <4>1. LineEnds(stream) # {} /\ ~GoodRequestLine(FirstLine(stream)) /\ x = Min(LineEnds(stream))
        BY <3>3 DEF WrongAt
      <4>2. start_line = 0
        <5>1. checkstate \in {"REQUESTLINE", "HEADER"}
          BY DEF HttpIInv, AnswerIsVerdict, TypeOK
        <5> QED BY <1>2, <1>4, <4>1, <5>1 DEF SoFar
      <4>3. LineEnds(stream) \in SUBSET Nat
        BY HttpTypes, LineEndsAre
      <4>4. x \in LineEnds(stream)
        BY <4>1, <4>3, MinOf
      <4> QED BY <1>1, <1>2, <3>1, <4>2, <4>4, AheadIs
    <3> QED BY <3>2, <3>3
  <2> QED BY <2>1, <2>2, HttpTypes, VerdictBad
<1>5. TypeOK'
  BY <1>1, <1>2, HttpTypes DEF HttpIInv, AnswerIsVerdict, TypeOK
<1>6. AnswerIsVerdict'
  <2>1. Overreads(stream)' = Overreads(stream) /\ Verdict(stream)' = Verdict(stream)
    BY <1>1
  <2> QED BY <1>1, <1>4, <1>5, <2>1 DEF AnswerIsVerdict
<1> QED BY <1>1, <1>6, HttpTypes DEF HttpIInv

\* A complete line: what is known of the stream behind it.
LEMMA EndedIs ==
  ASSUME HttpIInv, pc = "parse", NEW cr \in LineEnd
  PROVE  /\ cr = Stop /\ cr \in Nat /\ start_line <= cr /\ cr + 1 < read_index
         /\ cr + 1 \in LineEnds(stream)
         /\ \A i \in Stray(stream) : i > cr + 2
         /\ \A e \in LineEnds(stream) : e < start_line \/ e > cr
         /\ \A e \in CompleteAt(stream) : e > cr
         /\ Ended(cr) \in Buffers
         /\ Ended(cr)[cr] = "NUL" /\ Ended(cr)[cr + 1] = "NUL"
         /\ \A i \in Indexes : i \notin {cr, cr + 1} => Ended(cr)[i] = buffer[i]
         /\ \A i \in start_line .. cr - 1 : Ended(cr)[i] = stream[i + 1]
         /\ \A i \in 0 .. cr + 1 : Ended(cr)[i] \notin {"CR", "LF"}
<1>1. /\ cr = Stop /\ cr + 1 < read_index /\ buffer[cr] = "CR" /\ buffer[cr + 1] = "LF"
      /\ cr \in Nat /\ start_line <= cr /\ InBuffer /\ SoFar
      /\ \A i \in 0 .. cr - 1 : buffer[i] \notin {"CR", "LF"}
  BY ScanIs, HttpTypes DEF HttpIInv
<1>2. stream[cr + 1] = "CR" /\ stream[cr + 2] = "LF"
  <2>1. cr \in start_line .. read_index - 1 /\ cr + 1 \in start_line .. read_index - 1
    BY <1>1, HttpTypes
  <2>2. buffer[cr] = stream[cr + 1] /\ buffer[cr + 1] = stream[cr + 1 + 1]
    BY <1>1, <2>1 DEF InBuffer
  <2>3. cr + 1 + 1 = cr + 2
    BY <1>1
  <2> QED BY <1>1, <2>2, <2>3
<1>3. cr + 1 \in LineEnds(stream)
  <2>1. cr + 1 \in 1 .. Len(stream) - 1 /\ cr + 1 + 1 = cr + 2
    BY <1>1, HttpTypes
  <2> QED BY <1>2, <2>1 DEF LineEnds
<1>4. ASSUME NEW i \in Stray(stream) PROVE i > cr + 2
  <2>1. i > cr /\ i \in Nat
    BY <1>1, AheadIs, HttpTypes, LineEndsAre
  <2>2. i # cr + 1
    <3>1. cr + 1 + 1 = cr + 2
      BY <1>1
    <3> QED BY <1>2, <3>1 DEF Stray
  <2>3. i # cr + 2
    <3> SUFFICES ASSUME i = cr + 2 PROVE FALSE
      OBVIOUS
    <3>1. i - 1 = cr + 1 /\ i # 1
      BY <1>1
    <3>2. stream[i] = "LF" /\ stream[i - 1] = "CR"
      BY <1>2, <3>1
    <3> QED BY <3>1, <3>2 DEF Stray
  <2> QED BY <1>1, <2>1, <2>2, <2>3
<1>5. cr \in Indexes /\ cr + 1 \in Indexes
  BY <1>1, IndexesAre, HttpTypes
<1>6. /\ Ended(cr) \in Buffers
      /\ \A i \in Indexes : Ended(cr)[i] = IF i \in {cr, cr + 1} THEN "NUL" ELSE buffer[i]
  <2>1. Cut(buffer, cr) \in Buffers
        /\ \A i \in Indexes : Cut(buffer, cr)[i] = IF i = cr THEN "NUL" ELSE buffer[i]
    BY HttpTypes, CutIs
  <2>2. Ended(cr) \in Buffers
        /\ \A i \in Indexes : Ended(cr)[i] = IF i = cr + 1 THEN "NUL" ELSE Cut(buffer, cr)[i]
    BY <2>1, CutIs DEF Ended
  <2> QED BY <2>1, <2>2
<1>7. ASSUME NEW i \in 0 .. cr + 1 PROVE Ended(cr)[i] \notin {"CR", "LF"}
  <2>1. i \in Indexes
    BY <1>1, IndexesAre, HttpTypes
  <2>2. i \in {cr, cr + 1} \/ i \in 0 .. cr - 1
    BY <1>1
  <2> QED BY <1>1, <1>6, <2>1, <2>2
<1>8. ASSUME NEW i \in start_line .. cr - 1 PROVE Ended(cr)[i] = stream[i + 1]
  <2>1. i \in start_line .. read_index - 1 /\ i \notin {cr, cr + 1} /\ i \in Nat
    BY <1>1, HttpTypes
  <2>2. i \in Indexes
    BY <2>1, IndexesAre, HttpTypes
  <2>3. buffer[i] = stream[i + 1]
    BY <1>1, <2>1 DEF InBuffer
  <2> QED BY <1>6, <2>1, <2>2, <2>3
<1>9. /\ \A e \in LineEnds(stream) : e < start_line \/ e > cr
      /\ \A e \in CompleteAt(stream) : e > cr
  BY <1>1, AheadIs
<1> QED BY <1>1, <1>3, <1>4, <1>5, <1>6, <1>7, <1>8, <1>9

\* The parser goes on behind the line: the buffer has changed in front of cr only by
\* NULs, and the stream is complete at none of the line ends so far.
LEMMA NextLine ==
  ASSUME HttpIInv, pc = "parse", NEW cr \in LineEnd, LineOk(cr),
         pc' = "parse", result' = result, checkstate' = "HEADER",
         buffer' \in Buffers,
         \A i \in Indexes : buffer'[i] = Ended(cr)[i] \/ (buffer'[i] = "NUL" /\ i < cr),
         start_line = 0 \/ Ended(cr)[start_line] # "NUL",
         Overreads(stream) \/ GoodRequestLine(FirstLine(stream))
  PROVE  HttpIInv'
<1>1. /\ checked_index' = cr + 2 /\ start_line' = cr + 2 /\ UNCHANGED <<stream, read_index>>
  BY DEF LineOk
<1>2. /\ cr \in Nat /\ start_line <= cr /\ cr + 1 < read_index /\ cr + 1 \in LineEnds(stream)
      /\ \A i \in Stray(stream) : i > cr + 2
      /\ \A e \in LineEnds(stream) : e < start_line \/ e > cr
      /\ \A e \in CompleteAt(stream) : e > cr
  BY EndedIs
<1>3. InBuffer /\ SoFar /\ result = "none"
  BY DEF HttpIInv
<1>4. ASSUME NEW i \in cr + 2 .. read_index - 1 PROVE buffer'[i] = stream[i + 1]
  <2>1. i \in start_line .. read_index - 1 /\ i \notin {cr, cr + 1} /\ ~(i < cr) /\ i \in Nat
    BY <1>2, HttpTypes
  <2>2. i \in Indexes
    BY <2>1, IndexesAre, HttpTypes
  <2>3. buffer'[i] = Ended(cr)[i]
    BY <2>1, <2>2
  <2>4. Ended(cr)[i] = buffer[i]
    BY <2>1, <2>2, EndedIs
  <2> QED BY <1>3, <2>1, <2>3, <2>4 DEF InBuffer
<1>5. ASSUME NEW i \in 0 .. cr + 1 PROVE buffer'[i] \notin {"CR", "LF"}
  <2>1. i \in Indexes
    BY <1>2, IndexesAre, HttpTypes
  <2>2. Ended(cr)[i] \notin {"CR", "LF"}
    BY EndedIs
  <2> QED BY <2>1, <2>2
<1>6. InBuffer'
  <2>1. start_line' .. read_index' - 1 = cr + 2 .. read_index - 1
    BY <1>1
  <2>2. 0 .. checked_index' - 1 = 0 .. cr + 1
    BY <1>1, <1>2
  <2> QED BY <1>1, <1>4, <1>5, <2>1, <2>2 DEF InBuffer
<1>7. ASSUME NEW e \in CompleteAt(stream) PROVE e >= cr + 2
  <2>1. e \in Nat /\ e > cr
    BY <1>2, HttpTypes, LineEndsAre
  <2>2. e # cr + 1
    <3> SUFFICES ASSUME e = cr + 1 PROVE FALSE
      OBVIOUS
    <3>1. PICK p \in LineEnds(stream) :
            /\ p < e /\ \A q \in LineEnds(stream) : q <= p \/ q >= e
            /\ p + 2 = e \/ stream[p + 2] = "NUL"
      BY CompleteIs
    <3>2. p \in Nat /\ p > 0 /\ p < start_line
      BY <1>2, <3>1, HttpTypes DEF LineEnds
    <3>3. start_line > 0 /\ start_line - 1 \in LineEnds(stream)
      BY <1>3, <3>2, HttpTypes DEF SoFar
    <3>4. p = start_line - 1
      BY <1>2, <3>1, <3>2, <3>3, HttpTypes
    <3>5. CASE start_line = cr
      BY <3>3, <3>5, EndedIs
    <3>6. CASE start_line # cr
      <4>1. stream[start_line + 1] = "NUL"
        <5>1. p + 2 = start_line + 1 /\ p + 2 # e
          BY <1>2, <3>4, <3>6, HttpTypes
        <5> QED BY <3>1, <5>1
      <4>2. start_line \in start_line .. cr - 1
        BY <1>2, <3>6, HttpTypes
      <4>3. Ended(cr)[start_line] = stream[start_line + 1]
        BY <4>2, EndedIs
      <4> QED BY <3>3, <4>1, <4>3
    <3> QED BY <3>5, <3>6
  <2> QED BY <1>2, <2>1, <2>2
<1>8. SoFar'
  <2>1. cr + 2 > 0 /\ cr + 2 - 1 = cr + 1
    BY <1>2
  <2>2. /\ Stray(stream)' = Stray(stream) /\ CompleteAt(stream)' = CompleteAt(stream)
        /\ LineEnds(stream)' = LineEnds(stream)
        /\ Overreads(stream)' = Overreads(stream)
        /\ GoodRequestLine(FirstLine(stream))' = GoodRequestLine(FirstLine(stream))
    BY <1>1
  <2> QED BY <1>1, <1>2, <1>7, <2>1, <2>2 DEF SoFar
<1>9. TypeOK'
  <2>1. cr + 2 \in Nat /\ cr + 2 <= read_index
    BY <1>2, HttpTypes
  <2> QED BY <1>1, <2>1, <1>3, HttpTypes DEF HttpIInv, AnswerIsVerdict, TypeOK, Buffers, Chars
<1>10. AnswerIsVerdict'
  BY <1>3, <1>9 DEF AnswerIsVerdict
<1> QED BY <1>1, <1>3, <1>6, <1>8, <1>10, HttpTypes DEF HttpIInv

\* The first line of the stream, when the parser has found its end.
LEMMA FirstLineIs ==
  ASSUME HttpIInv, pc = "parse", NEW cr \in LineEnd, start_line = 0
  PROVE  /\ Min(LineEnds(stream)) = cr + 1
         /\ FirstLine(stream) = Seen(SubSeq(stream, 1, cr))
<1>1. cr \in Nat /\ cr + 1 \in LineEnds(stream) /\ \A e \in LineEnds(stream) : e < start_line \/ e > cr
  BY EndedIs
<1>2. LineEnds(stream) \in SUBSET Nat
  BY HttpTypes, LineEndsAre
<1>3. Min(LineEnds(stream)) = cr + 1
  BY <1>1, <1>2, MinIs
<1>4. Min(LineEnds(stream)) - 1 = cr
  BY <1>1, <1>3
<1> QED BY <1>3, <1>4 DEF FirstLine

LEMMA LineOkRequestInv ==
  ASSUME HttpIInv, LineOkRequest
  PROVE  HttpIInv'
<1>1. pc = "parse" /\ checkstate = "REQUESTLINE"
  BY DEF LineOkRequest
<1>2. PICK cr \in LineEnd :
         LET rl == RequestLine(Ended(cr), start_line)
         IN  /\ LineOk(cr)
             /\ buffer' = rl.buf
             /\ \/ TRUE \in rl.ok /\ checkstate' = "HEADER" /\ UNCHANGED <<pc, result>>
                \/ FALSE \in rl.ok /\ Finish("BAD_REQUEST") /\ UNCHANGED checkstate
  BY DEF LineOkRequest
<1> DEFINE rl == RequestLine(Ended(cr), 0)
           ln == Seen(SubSeq(stream, 1, cr))
<1>3. start_line = 0
  BY <1>1 DEF HttpIInv, SoFar
<1>4. /\ LineOk(cr) /\ buffer' = rl.buf
      /\ \/ TRUE \in rl.ok /\ checkstate' = "HEADER" /\ UNCHANGED <<pc, result>>
         \/ FALSE \in rl.ok /\ Finish("BAD_REQUEST") /\ UNCHANGED checkstate
  BY <1>2, <1>3
<1>5. /\ cr \in Nat /\ cr + 1 < read_index /\ Ended(cr) \in Buffers /\ Ended(cr)[cr] = "NUL"
      /\ \A i \in 0 .. cr - 1 : Ended(cr)[i] = stream[i + 1]
      /\ cr + 1 \in LineEnds(stream)
      /\ \A i \in Stray(stream) : i > cr + 2
      /\ \A e \in CompleteAt(stream) : e > cr
  BY <1>1, <1>3, EndedIs
<1>6. /\ ln \in Seq(Bytes) /\ Len(ln) \in 0 .. cr /\ Len(ln) \in Indexes
      /\ \A i \in 1 .. Len(ln) : ln[i] # "NUL"
      /\ \A i \in 0 .. Len(ln) - 1 : Ended(cr)[i] = ln[i + 1]
      /\ Ended(cr)[Len(ln)] = "NUL"
  <2> DEFINE all == SubSeq(stream, 1, cr)
  <2>1. cr <= Len(stream) /\ cr < BUFFER_SIZE
    BY <1>5, HttpTypes
  <2>2. all \in Seq(Bytes) /\ Len(all) = cr /\ \A i \in 1 .. cr : all[i] = stream[i]
    BY <1>5, <2>1, HttpTypes
  <2> HIDE DEF all
  <2>3. /\ ln \in Seq(Bytes) /\ Len(ln) \in 0 .. cr
        /\ \A i \in 1 .. Len(ln) : ln[i] = all[i] /\ all[i] # "NUL"
        /\ Len(ln) < cr => all[Len(ln) + 1] = "NUL"
    BY <2>2, SeenIs DEF all
  <2> HIDE DEF ln
  <2>4. Len(ln) \in Indexes
    <3>1. Len(ln) \in Nat /\ Len(ln) < BUFFER_SIZE
      BY <1>5, <2>1, <2>3, HttpTypes
    <3> QED BY <3>1, IndexesAre
  <2>5. ASSUME NEW i \in 0 .. Len(ln) - 1 PROVE Ended(cr)[i] = ln[i + 1]
    <3>1. i \in 0 .. cr - 1 /\ i + 1 \in 1 .. Len(ln) /\ i + 1 \in 1 .. cr
      BY <1>5, <2>3
    <3> QED BY <1>5, <2>2, <2>3, <3>1
  <2>6. Ended(cr)[Len(ln)] = "NUL"
    <3>1. CASE Len(ln) = cr
      BY <1>5, <3>1
    <3>2. CASE Len(ln) < cr
      <4>1. Len(ln) \in 0 .. cr - 1 /\ Len(ln) + 1 \in 1 .. cr
        BY <1>5, <2>3, <3>2
      <4> QED BY <1>5, <2>2, <2>3, <3>2, <4>1
    <3> QED BY <1>5, <2>3, <3>1, <3>2
  <2> QED BY <2>3, <2>4, <2>5, <2>6
<1>7. FirstLine(stream) = ln /\ Min(LineEnds(stream)) = cr + 1
  BY <1>1, <1>3, FirstLineIs
<1> HIDE DEF rl, ln
<1>8. /\ rl.buf \in Buffers
      /\ \A i \in Indexes : rl.buf[i] = Ended(cr)[i] \/ (rl.buf[i] = "NUL" /\ i < cr)
      /\ rl.ok \subseteq BOOLEAN
      /\ \/ rl.ok = {GoodRequestLine(ln)}
         \/ ReadsAsGet(ln) /\ Version(ln) # <<"HTTP/1.1">> /\ Len(Url(ln)) < Skip
  <2>1. /\ rl.buf \in Buffers
        /\ \A i \in Indexes : rl.buf[i] = Ended(cr)[i] \/ (rl.buf[i] = "NUL" /\ i < Len(ln))
        /\ rl.ok \subseteq BOOLEAN
        /\ \/ rl.ok = {GoodRequestLine(ln)}
           \/ ReadsAsGet(ln) /\ Version(ln) # <<"HTTP/1.1">> /\ Len(Url(ln)) < Skip
    BY <1>5, <1>6, RequestLineIs DEF rl
  <2>2. \A i \in Indexes : i < Len(ln) => i < cr
    BY <1>5, <1>6, IndexesAre
  <2> QED BY <2>1, <2>2
<1>9. Overreads(stream) \/ rl.ok = {GoodRequestLine(FirstLine(stream))}
  BY <1>5, <1>7, <1>8 DEF Overreads
<1>10. CASE TRUE \in rl.ok /\ checkstate' = "HEADER" /\ UNCHANGED <<pc, result>>
  <2>1. Overreads(stream) \/ GoodRequestLine(FirstLine(stream))
    BY <1>9, <1>10
  <2> QED BY <1>1, <1>3, <1>4, <1>8, <1>10, <2>1, NextLine
<1>11. CASE FALSE \in rl.ok /\ Finish("BAD_REQUEST") /\ UNCHANGED checkstate
  <2>1. /\ pc' = "done" /\ result' = "BAD_REQUEST" /\ checkstate' = checkstate
        /\ checked_index' = cr + 2 /\ start_line' = cr + 2 /\ UNCHANGED <<stream, read_index>>
    BY <1>4, <1>11 DEF Finish, LineOk
  <2>2. ASSUME ~Overreads(stream) PROVE Verdict(stream) = "BAD_REQUEST"
    <3>1. ~GoodRequestLine(FirstLine(stream))
      BY <1>9, <1>11, <2>2
    <3>2. WrongAt(stream) = Stray(stream) \cup {cr + 1}
      BY <1>5, <1>7, <3>1 DEF WrongAt
    <3>3. ASSUME NEW x \in WrongAt(stream) \cup CompleteAt(stream) PROVE cr + 1 <= x
      <4>1. x \in Nat
        BY HttpTypes, LineEndsAre
      <4> QED BY <1>5, <3>2, <4>1
    <3> QED BY <3>2, <3>3, HttpTypes, VerdictBad
  <2>3. TypeOK'
    <3>1. cr + 2 \in Nat /\ cr + 2 <= read_index
      BY <1>5, HttpTypes
    <3> QED BY <1>4, <1>8, <2>1, <3>1, HttpTypes DEF HttpIInv, AnswerIsVerdict, TypeOK, Buffers, Chars
  <2>4. AnswerIsVerdict'
    <3>1. Overreads(stream)' = Overreads(stream) /\ Verdict(stream)' = Verdict(stream)
      BY <2>1
    <3> QED BY <2>1, <2>2, <2>3, <3>1 DEF AnswerIsVerdict
  <2> QED BY <2>1, <2>4, HttpTypes DEF HttpIInv
<1> QED BY <1>4, <1>10, <1>11

LEMMA LineOkHeaderInv ==
  ASSUME HttpIInv, LineOkHeader
  PROVE  HttpIInv'
<1>1. pc = "parse" /\ checkstate = "HEADER" /\ checkstate' = "HEADER"
  BY DEF LineOkHeader
<1>2. PICK cr \in LineEnd :
         /\ LineOk(cr) /\ buffer' = Ended(cr)
         /\ IF Ended(cr)[start_line] = "NUL" THEN Finish("GET_REQUEST") ELSE UNCHANGED <<pc, result>>
  BY DEF LineOkHeader
<1>3. /\ cr \in Nat /\ start_line <= cr /\ cr + 1 < read_index /\ cr + 1 \in LineEnds(stream)
      /\ Ended(cr) \in Buffers /\ Ended(cr)[cr] = "NUL"
      /\ \A i \in start_line .. cr - 1 : Ended(cr)[i] = stream[i + 1]
      /\ \A i \in Stray(stream) : i > cr + 2
  BY <1>1, EndedIs
<1>4. /\ start_line > 0 /\ start_line - 1 \in LineEnds(stream)
      /\ Overreads(stream) \/ GoodRequestLine(FirstLine(stream))
  BY <1>1 DEF HttpIInv, SoFar
<1>5. ASSUME Ended(cr)[start_line] = "NUL" PROVE start_line = cr \/ stream[start_line + 1] = "NUL"
  <2>1. CASE start_line < cr
    <3>1. start_line \in start_line .. cr - 1
      BY <1>3, <2>1, HttpTypes
    <3> QED BY <1>3, <1>5, <3>1
  <2> QED BY <1>3, <2>1, HttpTypes
<1>6. CASE Ended(cr)[start_line] # "NUL"
  <2>1. pc' = "parse" /\ result' = result
    BY <1>1, <1>2, <1>6
  <2> QED BY <1>1, <1>2, <1>3, <1>4, <1>6, <2>1, NextLine
<1>7. CASE Ended(cr)[start_line] = "NUL"
  <2>1. /\ pc' = "done" /\ result' = "GET_REQUEST"
        /\ checked_index' = cr + 2 /\ start_line' = cr + 2 /\ UNCHANGED <<stream, read_index>>
    BY <1>2, <1>7 DEF Finish, LineOk
  <2>2. ASSUME ~Overreads(stream) PROVE Verdict(stream) = "GET_REQUEST"
    <3>1. WrongAt(stream) = Stray(stream)
      BY <1>4, <2>2 DEF WrongAt
    <3>2. cr + 1 \in CompleteAt(stream)
      <4> DEFINE p == start_line - 1
      <4>1. p \in LineEnds(stream) /\ p < cr + 1
        BY <1>3, <1>4, HttpTypes
      <4>2. ASSUME NEW q \in LineEnds(stream) PROVE q <= p \/ q >= cr + 1
        <5>1. q \in Nat /\ (q < start_line \/ q > cr)
          BY <1>1, EndedIs, HttpTypes, LineEndsAre
        <5> QED BY <1>3, <5>1, HttpTypes
      <4>3. p + 2 = cr + 1 \/ stream[p + 2] = "NUL"
        <5>1. p + 2 = start_line + 1
          BY HttpTypes
        <5> QED BY <1>5, <1>7, <5>1
      <4> HIDE DEF p
      <4> QED BY <1>3, <4>1, <4>2, <4>3, CompleteIs
    <3>3. ASSUME NEW x \in WrongAt(stream) PROVE cr + 1 < x
      <4>1. x \in Nat /\ x > cr + 2
        BY <1>3, <3>1, HttpTypes, LineEndsAre
      <4> QED BY <1>3, <4>1
    <3> QED BY <3>2, <3>3, HttpTypes, VerdictGet
  <2>3. TypeOK'
    <3>1. cr + 2 \in Nat /\ cr + 2 <= read_index
      BY <1>3, HttpTypes
    <3> QED BY <1>1, <1>2, <1>3, <2>1, <3>1, HttpTypes DEF HttpIInv, AnswerIsVerdict, TypeOK, Buffers, Chars
  <2>4. AnswerIsVerdict'
    <3>1. Overreads(stream)' = Overreads(stream) /\ Verdict(stream)' = Verdict(stream)
      BY <2>1
    <3> QED BY <2>1, <2>2, <2>3, <3>1 DEF AnswerIsVerdict
  <2> QED BY <2>1, <2>4, HttpTypes DEF HttpIInv
<1> QED BY <1>6, <1>7

LEMMA HttpStepInv == HttpIInv /\ [Next]_vars => HttpIInv'
<1>1. ASSUME HttpIInv, Next PROVE HttpIInv'
  BY <1>1, ReceiveInv, ReceiveEndsInv, LineOpenInv, LineBadInv, LineOkRequestInv, LineOkHeaderInv
     DEF Next, Server
<1>2. ASSUME HttpIInv, UNCHANGED vars PROVE HttpIInv'
  <2>1. UNCHANGED <<stream, buffer, read_index, checked_index, start_line, checkstate, pc, result>>
    BY <1>2 DEF vars
  <2>2. /\ Overreads(stream)' = Overreads(stream) /\ Verdict(stream)' = Verdict(stream)
        /\ Stray(stream)' = Stray(stream) /\ CompleteAt(stream)' = CompleteAt(stream)
        /\ LineEnds(stream)' = LineEnds(stream)
        /\ GoodRequestLine(FirstLine(stream))' = GoodRequestLine(FirstLine(stream))
    BY <2>1
  <2>3. InBuffer' = InBuffer /\ SoFar' = SoFar /\ Waiting' = Waiting
    BY <2>1, <2>2 DEF InBuffer, SoFar, Waiting
  <2>4. AnswerIsVerdict' = AnswerIsVerdict
    BY <2>1, <2>2 DEF AnswerIsVerdict, TypeOK
  <2> QED BY <1>2, <2>1, <2>3, <2>4 DEF HttpIInv
<1> QED BY <1>1, <1>2

\* The inductive invariant of the request parser: what the indexes stand for in the
\* bytes received so far, and what the lines read so far have decided
\* (http_parse.cpp:26 to 194).
THEOREM HttpInvariance == Spec => []HttpIInv
BY HttpInitInv, HttpStepInv, PTL DEF Spec

\* http_parse.cpp:111: for every stream of whatever bytes (NUL, with which the code
\* marks the ends of lines, among them), every buffer and every way to cut the stream
\* into pieces, the answer is the one the whole stream deserves.
THEOREM AnswersAreRight == Spec => []AnswerIsVerdict
<1>1. HttpIInv => AnswerIsVerdict
  BY DEF HttpIInv
<1> QED BY <1>1, HttpInvariance, PTL

\* http_parse.cpp:174: the server never waits for more than it needs, whatever bytes
\* it has received.
THEOREM NeverWaitsInVain == Spec => []WaitsOnlyIfOpen
<1>1. HttpIInv => WaitsOnlyIfOpen
  BY WaitsForMore DEF WaitsOnlyIfOpen
<1> QED BY <1>1, HttpInvariance, PTL

=============================================================================
