--------------------------- MODULE KeepAliveProof ---------------------------
(***************************************************************************)
(* The keep-alive server, for any number of clients, descriptors and       *)
(* timers, any TIMESLOT and any length of a run: the descriptor table and  *)
(* the timer list agree, no event is stale, no connection is closed early  *)
(* and, with a server that keeps up, none is kept for four time slots; so  *)
(* it implements the abstract service of module Sessions.                  *)
(***************************************************************************)
EXTENDS KeepAlive, SortTimeListProof

\* users[] and user_data are inverse to each other between the open descriptors
\* and the timers in the list.
Table ==
  /\ InOrder(list)
  /\ \A f \in ConnFds : conn[f] # NULL => users[f] \in Linked(list) /\ user_data[users[f]] = f
  /\ \A t \in Linked(list) : /\ user_data[t] \in ConnFds /\ conn[user_data[t]] # NULL
                             /\ users[user_data[t]] = t

\* A client is in the backlog or behind a descriptor, where its status says, once.
Placed ==
  /\ \A f, g \in ConnFds : conn[f] # NULL /\ conn[f] = conn[g] => f = g
  /\ \A c \in Clients : status[c] = "open" <=> \E f \in ConnFds : conn[f] = c
  /\ \A c \in Clients : status[c] = "backlog" <=> \E i \in 1 .. Len(backlog) : backlog[i] = c
  /\ \A i, j \in 1 .. Len(backlog) : backlog[i] = backlog[j] => i = j

\* Edges, returned by epoll_wait or not, are those of open descriptors; between
\* two batches nothing is left to do, and a signal in the pipe has its edge.
Fresh ==
  /\ \A f \in ready \cap ConnFds : conn[f] # NULL
  /\ \A f \in batch \cap ConnFds : conn[f] # NULL /\ (unread[conn[f]] > 0 \/ hungup[conn[f]])
  /\ listenfd \in batch => backlog # <<>>
  /\ pc = "wait" => batch = {} /\ ~timeout
  /\ pipe # {} => pipefd0 \in ready \cup batch

\* Every timer expires three slots after the last sign of life of its connection,
\* so that a postponed timer expires last.
Dated ==
  /\ Ascending(list)
  /\ \A c \in Clients : active[c] <= now
  /\ \A t \in Linked(list) : list.expire[t] = active[conn[user_data[t]]] + 3 * TIMESLOT

\* While no time passes with work to do and no signal is lost: the last tick was
\* one slot before the next alarm, and an alarm that is not armed is on its way to
\* the handler that arms it.
Punctual ==
  trouble = {} =>
    /\ alarm # -1 => /\ now <= alarm /\ alarm <= now + TIMESLOT
                     /\ \A t \in Linked(list) : list.expire[t] > alarm - TIMESLOT
    /\ alarm = -1 => "SIGALRM" \in pipe \/ timeout
    /\ \A t \in Linked(list) : list.expire[t] > now - TIMESLOT

IInv == TypeOK /\ Table /\ Placed /\ Fresh /\ Dated /\ Punctual

-----------------------------------------------------------------------------
(* Types and descriptors. *)

LEMMA Numbers ==
  /\ MaxFd \in Nat /\ TIMESLOT \in Nat /\ TIMESLOT > 0 /\ MaxUnread \in Nat /\ MaxTime \in Nat
  /\ NULL \notin Clients
  /\ ConnFds \subseteq Nat /\ listenfd \notin ConnFds /\ pipefd0 \notin ConnFds
  /\ listenfd # pipefd0 /\ 0 \notin ConnFds
BY KeepAliveAssumption DEF ConnFds, listenfd, pipefd0

LEMMA ReadableIs ==
  /\ Readable(listenfd) <=> backlog # <<>>
  /\ Readable(pipefd0) <=> pipe # {}
  /\ \A f \in ConnFds : Readable(f) <=> (unread[conn[f]] > 0 \/ hungup[conn[f]])
<1>1. \A f \in ConnFds : f # listenfd /\ f # pipefd0
  BY Numbers
<1>2. listenfd # pipefd0
  BY Numbers
<1> QED BY <1>1, <1>2, Zenon DEF Readable

LEMMA TableTypes ==
  ASSUME TypeOK, Table
  PROVE  /\ list \in ListType /\ Linked(list) \subseteq Timers /\ Linked(list) \subseteq list.live
         /\ \A f \in ConnFds : conn[f] # NULL => conn[f] \in Clients
         /\ \A t \in Timers : list.expire[t] \in Int
<1>1. list \in ListType /\ Linked(list) \subseteq Timers /\ Linked(list) \subseteq list.live
  BY InOrderFacts DEF Table
<1>2. conn \in [ConnFds -> Clients \cup {NULL}]
  BY DEF TypeOK
<1> QED BY <1>1, <1>2 DEF ListType

\* The descriptor Notify finds.
LEMMA FdIs ==
  ASSUME Placed, NEW c \in Clients, status[c] = "open"
  PROVE  Fd(c) \in ConnFds /\ conn[Fd(c)] = c
BY DEF Placed, Fd

LEMMA NotifyIs ==
  ASSUME TypeOK, Placed, NEW c \in Clients, Notify(c)
  PROVE  /\ ready' \subseteq {listenfd, pipefd0} \cup ConnFds /\ ready \subseteq ready'
         /\ \A f \in ready' : f \in ready \/ (f \in ConnFds /\ conn[f] = c)
<1>1. CASE status[c] = "open"
  BY <1>1, FdIs DEF Notify, TypeOK
<1>2. CASE status[c] # "open"
  BY <1>2 DEF Notify, TypeOK
<1> QED BY <1>1, <1>2

-----------------------------------------------------------------------------
(* The initial state. *)

LEMMA InitIInv == Init => IInv
<1> SUFFICES ASSUME Init PROVE IInv
  OBVIOUS
<1>0. InOrder(list) /\ Linked(list) = {} /\ Ascending(list) /\ list.live = {}
  BY NewListInOrder DEF Init
<1>1. TypeOK
  <2>1. 0 \in 0 .. MaxTime /\ 0 \in 0 .. MaxUnread /\ TIMESLOT \in -1 .. (MaxTime + TIMESLOT)
    BY Numbers
  <2>2. <<>> \in Seq(Clients)
    OBVIOUS
  <2> QED BY <1>0, <2>1, <2>2 DEF Init, TypeOK
<1>2. Table
  BY <1>0 DEF Init, Table
<1>3. Placed
  <2>1. Len(<<>>) = 0 /\ 1 .. 0 = {}
    OBVIOUS
  <2>2. \A c \in Clients : c # NULL
    BY Numbers
  <2> QED BY <2>1, <2>2 DEF Init, Placed
<1>4. Fresh
  BY DEF Init, Fresh
<1>5. Dated
  BY <1>0 DEF Init, Dated
<1>6. Punctual
  BY <1>0, Numbers DEF Init, Punctual
<1> QED BY <1>1, <1>2, <1>3, <1>4, <1>5, <1>6 DEF IInv

-----------------------------------------------------------------------------
(* Clients, signals and the clock. *)

\* What a step that leaves the list and the descriptors alone keeps.
LEMMA KeepsTable ==
  ASSUME IInv, UNCHANGED <<list, users, user_data, conn>>
  PROVE  Table'
BY DEF IInv, Table

LEMMA KeepsPlaced ==
  ASSUME IInv, UNCHANGED <<conn, status, backlog>>
  PROVE  Placed'
BY DEF IInv, Placed

LEMMA KeepsDated ==
  ASSUME IInv, UNCHANGED <<list, user_data, conn, active, now>>
  PROVE  Dated'
BY DEF IInv, Dated

LEMMA KeepsPunctual ==
  ASSUME IInv, UNCHANGED <<list, alarm, pipe, timeout, now, trouble>>
  PROVE  Punctual'
BY DEF IInv, Punctual

LEMMA ConnectIInv ==
  ASSUME IInv, NEW c \in Clients, Connect(c)
  PROVE  IInv'
<1>1. /\ backlog \in Seq(Clients) /\ Len(backlog) \in Nat
      /\ backlog' = Append(backlog, c) /\ Len(backlog') = Len(backlog) + 1
      /\ \A i \in 1 .. (Len(backlog) + 1) : backlog'[i] = IF i <= Len(backlog) THEN backlog[i] ELSE c
      /\ backlog' \in Seq(Clients) /\ backlog' # <<>>
  <2>1. backlog \in Seq(Clients) /\ backlog' = Append(backlog, c)
    BY DEF IInv, TypeOK, Connect
  <2> QED BY <2>1
<1>2. TypeOK'
  BY <1>1 DEF IInv, TypeOK, Connect, server
<1>3. Table' /\ Dated' /\ Punctual'
  BY KeepsTable, KeepsDated, KeepsPunctual DEF Connect, server
<1>4. Placed'
  <2>1. /\ status \in [Clients -> {"closed", "backlog", "open"}]
        /\ status[c] = "closed" /\ status' = [status EXCEPT ![c] = "backlog"] /\ conn' = conn
    BY DEF IInv, TypeOK, Connect
  <2>2. \A i \in 1 .. Len(backlog) : backlog[i] \in Clients /\ backlog[i] # c
    BY <1>1, <2>1 DEF IInv, Placed
  <2>3. \A d \in Clients : status'[d] = "open" <=> status[d] = "open"
    BY <2>1
  <2>4. ASSUME NEW d \in Clients
        PROVE  status'[d] = "backlog" <=> \E i \in 1 .. Len(backlog') : backlog'[i] = d
    <3>1. CASE d = c
      <4>1. Len(backlog) + 1 \in 1 .. Len(backlog') /\ backlog'[Len(backlog) + 1] = c
        BY <1>1
      <4> QED BY <2>1, <3>1, <4>1
    <3>2. CASE d # c
      <4>1. status'[d] = status[d]
        BY <2>1, <3>2
      <4>2. (\E i \in 1 .. Len(backlog') : backlog'[i] = d) <=> \E i \in 1 .. Len(backlog) : backlog[i] = d
        BY <1>1, <3>2
      <4> QED BY <4>1, <4>2 DEF IInv, Placed
    <3> QED BY <3>1, <3>2
  <2>5. \A i, j \in 1 .. Len(backlog') : backlog'[i] = backlog'[j] => i = j
    <3>1. \A i, j \in 1 .. Len(backlog) : backlog[i] = backlog[j] => i = j
      BY DEF IInv, Placed
    <3> QED BY <1>1, <2>2, <3>1
  <2> QED BY <2>1, <2>3, <2>4, <2>5 DEF IInv, Placed
<1>5. Fresh'
  BY <1>1, Numbers DEF IInv, Fresh, Connect, server
<1> QED BY <1>2, <1>3, <1>4, <1>5 DEF IInv

LEMMA SendIInv ==
  ASSUME IInv, NEW c \in Clients, Send(c)
  PROVE  IInv'
<1>0. TypeOK /\ Table /\ Placed /\ Fresh
  BY DEF IInv
<1>1. /\ ready' \subseteq {listenfd, pipefd0} \cup ConnFds /\ ready \subseteq ready'
      /\ \A f \in ready' : f \in ready \/ (f \in ConnFds /\ conn[f] = c)
  BY <1>0, NotifyIs DEF Send
<1>2. /\ unread \in [Clients -> 0 .. MaxUnread] /\ unread' \in [Clients -> 0 .. MaxUnread]
      /\ \A d \in Clients : unread[d] <= unread'[d]
  <2>1. unread \in [Clients -> 0 .. MaxUnread] /\ unread[c] < MaxUnread
        /\ unread' = [unread EXCEPT ![c] = @ + 1]
    BY <1>0 DEF TypeOK, Send
  <2>2. unread[c] + 1 \in 0 .. MaxUnread
    BY <2>1, Numbers
  <2> QED BY <2>1, <2>2
<1>3. TypeOK'
  BY <1>0, <1>1, <1>2 DEF TypeOK, Send, server
<1>4. Table' /\ Placed' /\ Dated' /\ Punctual'
  BY KeepsTable, KeepsPlaced, KeepsDated, KeepsPunctual DEF Send, server
<1>5. Fresh'
  <2>1. \A f \in ready' \cap ConnFds : conn'[f] # NULL
    BY <1>0, <1>1, Numbers DEF Fresh, Send
  <2>2. \A f \in batch' \cap ConnFds : conn'[f] # NULL /\ (unread'[conn'[f]] > 0 \/ hungup'[conn'[f]])
    BY <1>0, <1>2, TableTypes DEF Fresh, Send, server
  <2> QED BY <1>0, <1>1, <2>1, <2>2 DEF Fresh, Send, server
<1> QED BY <1>3, <1>4, <1>5 DEF IInv

LEMMA HangUpIInv ==
  ASSUME IInv, NEW c \in Clients, HangUp(c)
  PROVE  IInv'
<1>0. TypeOK /\ Table /\ Placed /\ Fresh
  BY DEF IInv
<1>1. /\ ready' \subseteq {listenfd, pipefd0} \cup ConnFds /\ ready \subseteq ready'
      /\ \A f \in ready' : f \in ready \/ (f \in ConnFds /\ conn[f] = c)
  BY <1>0, NotifyIs DEF HangUp
<1>2. /\ unread' \in [Clients -> 0 .. MaxUnread] /\ hungup' \in [Clients -> BOOLEAN]
      /\ hungup'[c] /\ \A d \in Clients \ {c} : unread'[d] = unread[d] /\ hungup'[d] = hungup[d]
  <2>1. unread \in [Clients -> 0 .. MaxUnread] /\ hungup \in [Clients -> BOOLEAN]
    BY <1>0 DEF TypeOK
  <2>2. hungup' = [hungup EXCEPT ![c] = TRUE]
    BY DEF HangUp
  <2>3. PICK n \in {0, unread[c]} : unread' = [unread EXCEPT ![c] = n]
    BY DEF HangUp
  <2>4. n \in 0 .. MaxUnread
    BY <2>1, Numbers
  <2> QED BY <2>1, <2>2, <2>3, <2>4
<1>3. TypeOK'
  BY <1>0, <1>1, <1>2 DEF TypeOK, HangUp, server
<1>4. Table' /\ Placed' /\ Dated' /\ Punctual'
  BY KeepsTable, KeepsPlaced, KeepsDated, KeepsPunctual DEF HangUp, server
<1>5. Fresh'
  <2>1. \A f \in ready' \cap ConnFds : conn'[f] # NULL
    BY <1>0, <1>1, Numbers DEF Fresh, HangUp
  <2>2. \A f \in batch' \cap ConnFds : conn'[f] # NULL /\ (unread'[conn'[f]] > 0 \/ hungup'[conn'[f]])
    BY <1>0, <1>2, TableTypes DEF Fresh, HangUp, server
  <2> QED BY <1>0, <1>1, <2>1, <2>2 DEF Fresh, HangUp, server
<1> QED BY <1>3, <1>4, <1>5 DEF IInv

LEMMA SignalIInv ==
  ASSUME IInv, NEW sig \in {"SIGALRM", "SIGTERM"}, Handler(sig),
         UNCHANGED <<server, conn, backlog, now, peers>>,
         alarm' = alarm \/ (sig = "SIGALRM" /\ alarm' = -1)
  PROVE  IInv'
<1>0. TypeOK /\ Table /\ Placed /\ Fresh
  BY DEF IInv
<1>1. /\ pipe \subseteq pipe' /\ ready \subseteq ready'
      /\ pipe' \subseteq pipe \cup {sig} /\ ready' \subseteq ready \cup {pipefd0}
      /\ trouble' \subseteq {"late", "lost"}
      /\ pipe' # pipe => pipefd0 \in ready'
      /\ trouble' = {} => trouble = {} /\ sig \in pipe'
  BY <1>0 DEF Handler, TypeOK
<1>2. TypeOK'
  <2>1. -1 \in -1 .. (MaxTime + TIMESLOT)
    BY Numbers
  <2> QED BY <1>0, <1>1, <2>1 DEF TypeOK, server, peers
<1>3. Table' /\ Placed' /\ Dated'
  BY KeepsTable, KeepsPlaced, KeepsDated DEF server, peers
<1>4. Fresh'
  BY <1>0, <1>1, Numbers DEF Fresh, server, peers
<1>5. Punctual'
  BY <1>1 DEF IInv, Punctual, server
<1> QED BY <1>2, <1>3, <1>4, <1>5 DEF IInv

LEMMA ClockIInv ==
  ASSUME IInv, Clock
  PROVE  IInv'
<1>0. TypeOK /\ Table /\ Placed /\ Fresh /\ Dated /\ Punctual
  BY DEF IInv
<1>1. now \in 0 .. MaxTime /\ now' = now + 1 /\ now' \in 0 .. MaxTime
  BY <1>0, Numbers DEF TypeOK, Clock
<1>2. TypeOK'
  BY <1>0, <1>1 DEF TypeOK, Clock, server, peers
<1>3. Table' /\ Placed'
  BY KeepsTable, KeepsPlaced DEF Clock, server, peers
<1>4. Dated'
  <2>1. \A c \in Clients : active[c] <= now + 1
    BY <1>0, <1>1 DEF Dated, TypeOK
  <2> QED BY <1>0, <1>1, <2>1 DEF Dated, Clock, server, peers
<1>5. Fresh'
  BY <1>0 DEF Fresh, Clock, server, peers
<1>6. Punctual'
  <2>a. list' = list /\ alarm' = alarm /\ timeout' = timeout /\ pipe' = pipe
    BY DEF Clock, server
  <2> SUFFICES ASSUME trouble' = {}
               PROVE  /\ alarm' # -1 /\ now' <= alarm' /\ alarm' <= now' + TIMESLOT
                      /\ \A t \in Linked(list') : list'.expire[t] > alarm' - TIMESLOT
                      /\ \A t \in Linked(list') : list'.expire[t] > now' - TIMESLOT
    BY DEF Punctual
  <2>1. trouble = {} /\ ~Working /\ pc = "wait"
    BY DEF Clock, Working, Running
  <2>2. batch = {} /\ ~timeout
    BY <1>0, <2>1 DEF Fresh
  <2>3. pipe = {}
    BY <1>0, <2>1, <2>2, ReadableIs DEF Fresh, Working
  <2>4. alarm # -1
    BY <1>0, <2>1, <2>2, <2>3 DEF Punctual
  <2>5. alarm \in Int /\ ~(alarm <= now)
    BY <1>0, <2>1, <2>4 DEF TypeOK, Working
  <2>6. /\ alarm <= now + TIMESLOT
        /\ \A t \in Linked(list) : list.expire[t] \in Int /\ list.expire[t] > alarm - TIMESLOT
    BY <1>0, <2>1, <2>4, TableTypes DEF Punctual
  <2>7. now + 1 <= alarm /\ alarm <= now + 1 + TIMESLOT
    BY <1>1, <2>5, <2>6, Numbers
  <2>8. \A t \in Linked(list) : list.expire[t] > alarm - TIMESLOT /\ list.expire[t] > now + 1 - TIMESLOT
    BY <1>1, <2>5, <2>6, <2>7, Numbers
  <2>9. alarm' # -1 /\ now' <= alarm' /\ alarm' <= now' + TIMESLOT
    BY <1>1, <2>a, <2>4, <2>7
  <2>10. \A t \in Linked(list') : list'.expire[t] > alarm' - TIMESLOT
    BY <2>a, <2>8
  <2>11. \A t \in Linked(list') : list'.expire[t] > now' - TIMESLOT
    BY <1>1, <2>a, <2>8, Numbers
  <2> QED BY <2>9, <2>10, <2>11
<1> QED BY <1>2, <1>3, <1>4, <1>5, <1>6 DEF IInv

-----------------------------------------------------------------------------
(* Closing connections. *)

\* What close() leaves of the descriptors in S and their clients.
LEMMA CloseIs ==
  ASSUME TypeOK, NEW S \in SUBSET ConnFds, Close(S)
  PROVE  /\ conn' \in [ConnFds -> Clients \cup {NULL}]
         /\ \A f \in ConnFds : conn'[f] = IF f \in S THEN NULL ELSE conn[f]
         /\ ready' = ready \ S
         /\ status' \in [Clients -> {"closed", "backlog", "open"}]
         /\ unread' \in [Clients -> 0 .. MaxUnread]
         /\ hungup' \in [Clients -> BOOLEAN]
         /\ active' \in [Clients -> 0 .. MaxTime]
         /\ \A c \in Clients : (\E f \in S : conn[f] = c) => status'[c] = "closed" /\ active'[c] = 0
         /\ \A c \in Clients : ~(\E f \in S : conn[f] = c) =>
              /\ status'[c] = status[c] /\ active'[c] = active[c]
              /\ unread'[c] = unread[c] /\ hungup'[c] = hungup[c]
<1> DEFINE gone == {c \in Clients : \E f \in S : conn[f] = c}
<1>1. /\ conn \in [ConnFds -> Clients \cup {NULL}]
      /\ status \in [Clients -> {"closed", "backlog", "open"}]
      /\ unread \in [Clients -> 0 .. MaxUnread]
      /\ hungup \in [Clients -> BOOLEAN]
      /\ active \in [Clients -> 0 .. MaxTime]
  BY DEF TypeOK
<1>2. /\ conn' = [f \in ConnFds |-> IF f \in S THEN NULL ELSE conn[f]]
      /\ ready' = ready \ S
      /\ status' = [c \in Clients |-> IF c \in gone THEN "closed" ELSE status[c]]
      /\ unread' = [c \in Clients |-> IF c \in gone THEN 0 ELSE unread[c]]
      /\ hungup' = [c \in Clients |-> hungup[c] /\ c \notin gone]
      /\ active' = [c \in Clients |-> IF c \in gone THEN 0 ELSE active[c]]
  BY DEF Close
<1>3. 0 \in 0 .. MaxUnread /\ 0 \in 0 .. MaxTime
  BY Numbers
<1>4. \A c \in Clients : c \in gone <=> \E f \in S : conn[f] = c
  OBVIOUS
<1> HIDE DEF gone
<1>5. conn' \in [ConnFds -> Clients \cup {NULL}]
      /\ \A f \in ConnFds : conn'[f] = IF f \in S THEN NULL ELSE conn[f]
  BY <1>1, <1>2
<1>6. /\ status' \in [Clients -> {"closed", "backlog", "open"}]
      /\ unread' \in [Clients -> 0 .. MaxUnread]
      /\ active' \in [Clients -> 0 .. MaxTime]
  BY <1>1, <1>2, <1>3
<1>7. hungup' \in [Clients -> BOOLEAN]
  BY <1>2
<1>8. \A c \in Clients : c \in gone => status'[c] = "closed" /\ active'[c] = 0
  BY <1>2
<1>9. \A c \in Clients : c \notin gone =>
        /\ status'[c] = status[c] /\ active'[c] = active[c] /\ unread'[c] = unread[c]
  BY <1>2
<1>10. \A c \in Clients : c \notin gone => hungup'[c] = hungup[c]
  BY <1>1, <1>2
<1> QED BY <1>2, <1>4, <1>5, <1>6, <1>7, <1>8, <1>9, <1>10

\* The descriptors S are closed and the timers E, theirs and no other, leave the
\* list: by del_timer for one connection, by tick() for the expired ones.
Removal(S, E) ==
  /\ S \subseteq ConnFds /\ E \subseteq Linked(list)
  /\ \A f \in ConnFds : conn[f] # NULL => (f \in S <=> users[f] \in E)
  /\ Close(S)
  /\ InOrder(list') /\ Linked(list') = Linked(list) \ E /\ Ascending(list')
  /\ \A t \in Linked(list') : list'.expire[t] = list.expire[t]
  /\ UNCHANGED <<users, user_data, backlog, now>>

LEMMA RemovalKeeps ==
  ASSUME IInv, NEW S, NEW E, Removal(S, E)
  PROVE  Table' /\ Placed' /\ Dated' /\ \A f \in ready' \cap ConnFds : conn'[f] # NULL
<1>0. /\ TypeOK /\ Table /\ Placed /\ Fresh /\ Dated
      /\ S \in SUBSET ConnFds /\ E \subseteq Linked(list)
      /\ \A f \in ConnFds : conn[f] # NULL => (f \in S <=> users[f] \in E)
      /\ users' = users /\ user_data' = user_data /\ backlog' = backlog /\ now' = now
  BY DEF IInv, Removal
<1>1. /\ conn' \in [ConnFds -> Clients \cup {NULL}]
      /\ \A f \in ConnFds : conn'[f] = IF f \in S THEN NULL ELSE conn[f]
      /\ ready' = ready \ S
      /\ \A c \in Clients : (\E f \in S : conn[f] = c) => status'[c] = "closed" /\ active'[c] = 0
      /\ \A c \in Clients : ~(\E f \in S : conn[f] = c) =>
           status'[c] = status[c] /\ active'[c] = active[c]
  BY <1>0, CloseIs DEF Removal
<1>2. /\ InOrder(list') /\ Linked(list') = Linked(list) \ E /\ Ascending(list')
      /\ \A t \in Linked(list') : list'.expire[t] = list.expire[t]
  BY DEF Removal
<1>3. /\ \A f \in ConnFds : conn[f] # NULL => users[f] \in Linked(list) /\ user_data[users[f]] = f
      /\ \A t \in Linked(list) : user_data[t] \in ConnFds /\ conn[user_data[t]] # NULL /\ users[user_data[t]] = t
  BY <1>0 DEF Table
<1>4. /\ \A f, g \in ConnFds : conn[f] # NULL /\ conn[f] = conn[g] => f = g
      /\ \A f \in ConnFds : conn[f] # NULL => conn[f] \in Clients
  BY <1>0, TableTypes DEF Placed
<1>5. Table'
  <2>1. \A f \in ConnFds : conn'[f] # NULL => users[f] \in Linked(list') /\ user_data[users[f]] = f
    BY <1>0, <1>1, <1>2, <1>3
  <2>2. \A t \in Linked(list') : /\ user_data[t] \in ConnFds /\ conn'[user_data[t]] # NULL
                                 /\ users[user_data[t]] = t
    BY <1>0, <1>1, <1>2, <1>3
  <2> QED BY <1>0, <1>2, <2>1, <2>2 DEF Table
<1>6. Placed'
  <2>1. \A f, g \in ConnFds : conn'[f] # NULL /\ conn'[f] = conn'[g] => f = g
    BY <1>1, <1>4
  <2>2. ASSUME NEW c \in Clients
        PROVE  status'[c] = "open" <=> \E f \in ConnFds : conn'[f] = c
    <3>1. c # NULL
      BY Numbers
    <3>2. status[c] = "open" <=> \E f \in ConnFds : conn[f] = c
      BY <1>0 DEF Placed
    <3>3. CASE \E f \in S : conn[f] = c
      <4>1. ~\E f \in ConnFds : conn'[f] = c
        BY <1>0, <1>1, <1>4, <3>1, <3>3
      <4> QED BY <1>1, <3>3, <4>1
    <3>4. CASE ~\E f \in S : conn[f] = c
      BY <1>0, <1>1, <3>1, <3>2, <3>4
    <3> QED BY <3>3, <3>4
  <2>3. ASSUME NEW c \in Clients
        PROVE  status'[c] = "backlog" <=> \E i \in 1 .. Len(backlog) : backlog[i] = c
    <3>1. /\ status[c] = "backlog" <=> \E i \in 1 .. Len(backlog) : backlog[i] = c
          /\ status[c] = "open" <=> \E f \in ConnFds : conn[f] = c
      BY <1>0 DEF Placed
    <3>2. CASE \E f \in S : conn[f] = c
      BY <1>0, <1>1, <3>1, <3>2
    <3>3. CASE ~\E f \in S : conn[f] = c
      BY <1>1, <3>1, <3>3
    <3> QED BY <3>2, <3>3
  <2>4. \A i, j \in 1 .. Len(backlog) : backlog[i] = backlog[j] => i = j
    BY <1>0 DEF Placed
  <2> QED BY <1>0, <2>1, <2>2, <2>3, <2>4 DEF Placed
<1>7. Dated'
  <2>1. \A c \in Clients : active'[c] <= now
    <3>1. \A c \in Clients : active[c] <= now
      BY <1>0 DEF Dated
    <3>2. 0 <= now
      BY <1>0 DEF TypeOK
    <3> QED BY <1>1, <3>1, <3>2
  <2>2. ASSUME NEW t \in Linked(list')
        PROVE  list'.expire[t] = active'[conn'[user_data[t]]] + 3 * TIMESLOT
    <3>1. /\ t \in Linked(list) /\ t \notin E
          /\ list'.expire[t] = active[conn[user_data[t]]] + 3 * TIMESLOT
      BY <1>0, <1>2 DEF Dated
    <3>2. user_data[t] \in ConnFds /\ conn[user_data[t]] # NULL /\ user_data[t] \notin S
      BY <1>0, <1>3, <3>1
    <3>3. conn'[user_data[t]] = conn[user_data[t]] /\ conn[user_data[t]] \in Clients
      BY <1>1, <1>4, <3>2
    <3>4. ~\E f \in S : conn[f] = conn[user_data[t]]
      BY <1>0, <1>4, <3>2
    <3> QED BY <1>1, <3>1, <3>3, <3>4
  <2> QED BY <1>0, <1>2, <2>1, <2>2 DEF Dated
<1>8. \A f \in ready' \cap ConnFds : conn'[f] # NULL
  BY <1>0, <1>1 DEF Fresh
<1> QED BY <1>5, <1>6, <1>7, <1>8

-----------------------------------------------------------------------------
(* The main loop. *)

LEMMA EpollWaitIInv ==
  ASSUME IInv, EpollWait
  PROVE  IInv'
<1>0. TypeOK /\ Table /\ Placed /\ Fresh
  BY DEF IInv
<1>1. TypeOK'
  BY <1>0 DEF TypeOK, EpollWait, peers
<1>2. Table' /\ Placed' /\ Dated' /\ Punctual'
  BY KeepsTable, KeepsPlaced, KeepsDated, KeepsPunctual DEF EpollWait, peers
<1>3. Fresh'
  <2>1. /\ batch' = {f \in ready : Readable(f)} /\ ready' = {} /\ pc' = "batch"
        /\ conn' = conn /\ unread' = unread /\ hungup' = hungup /\ backlog' = backlog /\ pipe' = pipe
    BY DEF EpollWait, peers
  <2>2. \A f \in batch' \cap ConnFds : conn[f] # NULL /\ (unread[conn[f]] > 0 \/ hungup[conn[f]])
    BY <1>0, <2>1, ReadableIs DEF Fresh
  <2>3. listenfd \in batch' => backlog # <<>>
    BY <2>1, ReadableIs
  <2>4. pipe # {} => pipefd0 \in batch'
    <3>1. batch = {}
      BY <1>0 DEF Fresh, EpollWait
    <3>2. pipe # {} => pipefd0 \in ready
      BY <1>0, <3>1 DEF Fresh
    <3> QED BY <2>1, <3>2, ReadableIs
  <2> QED BY <2>1, <2>2, <2>3, <2>4 DEF Fresh
<1> QED BY <1>1, <1>2, <1>3 DEF IInv

LEMMA ReadSignalsIInv ==
  ASSUME IInv, ReadSignals
  PROVE  IInv'
<1>0. TypeOK /\ Fresh /\ Punctual
  BY DEF IInv
<1>1. TypeOK'
  BY <1>0 DEF TypeOK, ReadSignals, peers
<1>2. Table' /\ Placed' /\ Dated'
  BY KeepsTable, KeepsPlaced, KeepsDated DEF ReadSignals, peers
<1>3. Fresh'
  BY <1>0 DEF Fresh, ReadSignals, peers
<1>4. Punctual'
  BY <1>0 DEF Punctual, ReadSignals
<1> QED BY <1>1, <1>2, <1>3, <1>4 DEF IInv

LEMMA ReceiveIInv ==
  ASSUME IInv, NEW f \in ConnFds, Receive(f)
  PROVE  IInv'
<1> DEFINE c == conn[f]
           t == users[f]
           e == now + 3 * TIMESLOT
<1>0. TypeOK /\ Table /\ Placed /\ Fresh /\ Dated /\ Punctual
  BY DEF IInv
<1>1. /\ f \in batch /\ batch' = batch \ {f} /\ now \in 0 .. MaxTime /\ TIMESLOT \in Nat
      /\ list' = AdjustTimer([list EXCEPT !.expire[t] = e], t)
      /\ active' = [active EXCEPT ![c] = now] /\ active \in [Clients -> 0 .. MaxTime]
      /\ UNCHANGED <<users, user_data, timeout, stop_server, pc, kernel, status, hungup, trouble>>
  BY <1>0, Numbers DEF Receive, TypeOK
<1>2. c \in Clients /\ t \in Linked(list) /\ user_data[t] = f
  BY <1>0, <1>1, TableTypes DEF Fresh, Table
<1>3. \A g \in ConnFds : conn[g] # NULL => conn[g] \in Clients /\ (conn[g] = c => g = f)
  BY <1>0, <1>2, TableTypes, Numbers DEF Placed
<1>4. unread' \in [Clients -> 0 .. MaxUnread] /\ \A d \in Clients \ {c} : unread'[d] = unread[d]
  <2>1. unread \in [Clients -> 0 .. MaxUnread]
    BY <1>0 DEF TypeOK
  <2>2. PICK n \in 1 .. unread[c] : unread' = [unread EXCEPT ![c] = @ - n]
    BY DEF Receive
  <2>3. unread[c] - n \in 0 .. MaxUnread
    BY <1>2, <2>1, <2>2, Numbers
  <2> QED BY <1>2, <2>1, <2>2, <2>3
<1>5. /\ InOrder(list) /\ list \in ListType /\ Linked(list) \subseteq Timers
      /\ \A u \in Timers : list.expire[u] \in Int
      /\ e \in Int
      /\ list.expire[t] <= e
  <2>1. list.expire[t] = active[c] + 3 * TIMESLOT /\ active[c] <= now
    BY <1>0, <1>2 DEF Dated
  <2>2. e \in Int
    BY <1>1
  <2>3. list.expire[t] <= e
    BY <1>1, <1>2, <2>1
  <2> QED BY <1>0, <2>2, <2>3, TableTypes DEF Table
<1>6. /\ InOrder(list') /\ Linked(list') = Linked(list) /\ list'.live = list.live
      /\ list'.expire = [list.expire EXCEPT ![t] = e]
      /\ Ascending(list) => Ascending(list')
  <2> HIDE DEF e, t
  <2> QED BY <1>1, <1>2, <1>5, AdjustInOrder
<1>7. \A u \in Linked(list) : list'.expire[u] = IF u = t THEN e ELSE list.expire[u]
  <2> HIDE DEF e, t
  <2> QED BY <1>5, <1>6 DEF ListType
<1>8. /\ active' \in [Clients -> 0 .. MaxTime] /\ active'[c] = now
      /\ \A d \in Clients \ {c} : active'[d] = active[d]
  BY <1>1, <1>2
<1>9. /\ users' = users /\ user_data' = user_data /\ timeout' = timeout /\ pc' = pc /\ conn' = conn
      /\ backlog' = backlog /\ ready' = ready /\ pipe' = pipe /\ alarm' = alarm /\ now' = now
      /\ status' = status /\ hungup' = hungup /\ trouble' = trouble /\ stop_server' = stop_server
  BY <1>1 DEF kernel
<1> HIDE DEF c, t, e
<1>10. TypeOK'
  BY <1>0, <1>1, <1>4, <1>6, <1>8, <1>9 DEF TypeOK
<1>11. Table'
  BY <1>0, <1>6, <1>9 DEF Table
<1>12. Placed'
  BY <1>9, KeepsPlaced
<1>13. Fresh'
  <2>1. \A g \in batch' \cap ConnFds : conn[g] # NULL /\ conn[g] \in Clients \ {c}
    BY <1>0, <1>1, <1>3 DEF Fresh
  <2>2. \A g \in batch' \cap ConnFds : unread'[conn[g]] > 0 \/ hungup[conn[g]]
    BY <1>0, <1>1, <1>4, <2>1 DEF Fresh
  <2>3. pipefd0 # f
    BY Numbers
  <2> QED BY <1>0, <1>1, <1>9, <2>1, <2>2, <2>3 DEF Fresh
<1>14. Dated'
  <2>1. \A d \in Clients : active'[d] <= now
    BY <1>0, <1>1, <1>8 DEF Dated
  <2>2. ASSUME NEW u \in Linked(list)
        PROVE  list'.expire[u] = active'[conn[user_data[u]]] + 3 * TIMESLOT
    <3>1. CASE u = t
      BY <1>2, <1>7, <1>8, <3>1 DEF c, e
    <3>2. CASE u # t
      <4>1. user_data[u] \in ConnFds /\ conn[user_data[u]] # NULL /\ users[user_data[u]] = u
        BY <1>0 DEF Table
      <4>2. user_data[u] # f
        BY <3>2, <4>1 DEF t
      <4>3. conn[user_data[u]] \in Clients \ {c}
        BY <1>3, <4>1, <4>2
      <4>4. list.expire[u] = active[conn[user_data[u]]] + 3 * TIMESLOT
        BY <1>0 DEF Dated
      <4> QED BY <1>7, <1>8, <3>2, <4>3, <4>4
    <3> QED BY <3>1, <3>2
  <2> QED BY <1>0, <1>6, <1>9, <2>1, <2>2 DEF Dated
<1>15. Punctual'
  <2>1. \A u \in Linked(list) : list'.expire[u] >= list.expire[u] /\ list.expire[u] \in Int
                                /\ list'.expire[u] \in Int
    BY <1>5, <1>7
  <2>2. ASSUME trouble = {}
        PROVE  /\ alarm # -1 => \A u \in Linked(list) : list'.expire[u] > alarm - TIMESLOT
               /\ \A u \in Linked(list) : list'.expire[u] > now - TIMESLOT
    <3>1. /\ alarm # -1 => \A u \in Linked(list) : list.expire[u] > alarm - TIMESLOT
          /\ \A u \in Linked(list) : list.expire[u] > now - TIMESLOT
      BY <1>0, <2>2 DEF Punctual
    <3>2. alarm - TIMESLOT \in Int /\ now - TIMESLOT \in Int
      BY <1>0, <1>1 DEF TypeOK
    <3> QED BY <2>1, <3>1, <3>2
  <2> QED BY <1>0, <1>6, <1>9, <2>2 DEF Punctual
<1> QED BY <1>10, <1>11, <1>12, <1>13, <1>14, <1>15 DEF IInv

LEMMA DropIInv ==
  ASSUME IInv, NEW f \in ConnFds, Drop(f)
  PROVE  IInv'
<1> DEFINE t == users[f]
<1>0. TypeOK /\ Table /\ Placed /\ Fresh /\ Dated /\ Punctual
  BY DEF IInv
<1>1. /\ f \in batch /\ batch' = batch \ {f} /\ Close({f}) /\ list' = DelTimer(list, t)
      /\ users' = users /\ user_data' = user_data /\ timeout' = timeout /\ pc' = pc
      /\ stop_server' = stop_server /\ backlog' = backlog /\ pipe' = pipe /\ alarm' = alarm
      /\ now' = now /\ trouble' = trouble
  BY DEF Drop
<1>2. t \in Linked(list) /\ user_data[t] = f /\ conn[f] # NULL
  BY <1>0, <1>1 DEF Fresh, Table
<1>3. /\ InOrder(list) /\ Ascending(list) /\ Linked(list) \subseteq Timers
      /\ list.live \subseteq Timers
  BY <1>0, TableTypes DEF Table, Dated, TypeOK
<1>4. /\ InOrder(list') /\ Linked(list') = Linked(list) \ {t} /\ Ascending(list')
      /\ \A u \in Timers \ {t} : list'.expire[u] = list.expire[u]
      /\ list'.live \subseteq list.live
  <2> HIDE DEF t
  <2> QED BY <1>1, <1>2, <1>3, DelInOrder
<1>5. Removal({f}, {t})
  <2>1. \A g \in ConnFds : conn[g] # NULL => (g \in {f} <=> users[g] \in {t})
    BY <1>0, <1>2 DEF Table
  <2> QED BY <1>1, <1>2, <1>3, <1>4, <2>1 DEF Removal
<1>6. Table' /\ Placed' /\ Dated' /\ \A g \in ready' \cap ConnFds : conn'[g] # NULL
  BY <1>5, RemovalKeeps
<1>7. /\ conn' \in [ConnFds -> Clients \cup {NULL}]
      /\ ready' = ready \ {f}
      /\ status' \in [Clients -> {"closed", "backlog", "open"}]
      /\ unread' \in [Clients -> 0 .. MaxUnread]
      /\ hungup' \in [Clients -> BOOLEAN]
      /\ active' \in [Clients -> 0 .. MaxTime]
      /\ \A g \in ConnFds : conn'[g] = IF g \in {f} THEN NULL ELSE conn[g]
      /\ \A c \in Clients : ~(\E g \in {f} : conn[g] = c) => unread'[c] = unread[c] /\ hungup'[c] = hungup[c]
  BY <1>0, <1>1, CloseIs
<1> HIDE DEF t
<1>8. TypeOK'
  BY <1>0, <1>1, <1>3, <1>4, <1>7 DEF TypeOK
<1>9. Fresh'
  <2>1. ASSUME NEW g \in batch' \cap ConnFds
        PROVE  conn'[g] # NULL /\ (unread'[conn'[g]] > 0 \/ hungup'[conn'[g]])
    <3>1. g \in batch \cap ConnFds /\ g # f /\ conn[g] # NULL /\ (unread[conn[g]] > 0 \/ hungup[conn[g]])
      BY <1>0, <1>1 DEF Fresh
    <3>2. conn[g] \in Clients /\ conn[g] # conn[f]
      BY <1>0, <1>2, <3>1, TableTypes DEF Placed
    <3>3. conn'[g] = conn[g]
      BY <1>7, <3>1
    <3> QED BY <1>7, <3>1, <3>2, <3>3
  <2>2. f # pipefd0
    BY Numbers
  <2> QED BY <1>0, <1>1, <1>6, <1>7, <2>1, <2>2 DEF Fresh
<1>10. Punctual'
  <2>1. \A u \in Linked(list') : u \in Linked(list) /\ list'.expire[u] = list.expire[u]
    BY <1>3, <1>4
  <2> QED BY <1>0, <1>1, <2>1 DEF Punctual
<1> QED BY <1>6, <1>8, <1>9, <1>10 DEF IInv

LEMMA AcceptIInv ==
  ASSUME IInv, Accept
  PROVE  IInv'
<1> DEFINE free == {f \in ConnFds : conn[f] = NULL}
           f    == Min(free)
           c    == Head(backlog)
           e    == now + 3 * TIMESLOT
<1>0. TypeOK /\ Table /\ Placed /\ Fresh /\ Dated /\ Punctual
  BY DEF IInv
<1>1. /\ listenfd \in batch /\ batch' = batch \ {listenfd} /\ pc = "batch"
      /\ timeout' = timeout /\ stop_server' = stop_server /\ pipe' = pipe /\ alarm' = alarm
      /\ now' = now /\ unread' = unread /\ hungup' = hungup /\ trouble' = trouble
  BY DEF Accept
<1>2. pipefd0 # listenfd
  BY Numbers
\* accept fails and the assertion aborts.
<1>3. CASE pc' = "aborted"
           /\ UNCHANGED <<list, users, user_data, conn, backlog, ready, status, active>>
  <2>1. TypeOK'
    BY <1>0, <1>1, <1>3 DEF TypeOK
  <2>2. Table' /\ Placed' /\ Dated' /\ Punctual'
    BY <1>1, <1>3, KeepsTable, KeepsPlaced, KeepsDated, KeepsPunctual
  <2>3. Fresh'
    BY <1>0, <1>1, <1>2, <1>3 DEF Fresh
  <2> QED BY <2>1, <2>2, <2>3 DEF IInv
\* A new connection.
<1>4. CASE /\ free # {}
           /\ backlog' = Tail(backlog)
           /\ conn' = [conn EXCEPT ![f] = c]
           /\ status' = [status EXCEPT ![c] = "open"]
           /\ ready' = IF unread[c] > 0 \/ hungup[c] THEN ready \cup {f} ELSE ready
           /\ \E t \in Timers \ list.live :
                /\ list' = AddTimer(New(list, t, e), t)
                /\ users' = [users EXCEPT ![f] = t]
                /\ user_data' = [user_data EXCEPT ![t] = f]
           /\ active' = [active EXCEPT ![c] = now]
           /\ pc' = pc
  <2>1. f \in ConnFds /\ conn[f] = NULL /\ f # listenfd /\ f # pipefd0
    <3>1. free \in SUBSET Nat
      BY Numbers
    <3>2. f \in free
      <4> HIDE DEF free
      <4> QED BY <1>4, <3>1, MinNat
    <3> QED BY <3>2, Numbers
  <2>2. /\ backlog \in Seq(Clients) /\ backlog # <<>> /\ Len(backlog) \in Nat \ {0}
        /\ c = backlog[1] /\ 1 \in 1 .. Len(backlog) /\ c \in Clients
        /\ backlog' \in Seq(Clients) /\ Len(backlog') = Len(backlog) - 1
        /\ \A i \in 1 .. (Len(backlog) - 1) : backlog'[i] = backlog[i + 1]
    <3>1. backlog \in Seq(Clients) /\ backlog # <<>> /\ backlog' = Tail(backlog)
      BY <1>0, <1>1, <1>4 DEF TypeOK, Fresh
    <3> QED BY <3>1
  <2>3. status[c] = "backlog" /\ \A g \in ConnFds : conn[g] # c
    BY <1>0, <2>2 DEF Placed
  <2>4. PICK t \in Timers \ list.live :
          /\ list' = AddTimer(New(list, t, e), t)
          /\ users' = [users EXCEPT ![f] = t]
          /\ user_data' = [user_data EXCEPT ![t] = f]
    BY <1>4
  <2>5. now \in 0 .. MaxTime /\ TIMESLOT \in Nat /\ TIMESLOT > 0 /\ e \in Int /\ c # NULL
    BY <1>0, <2>2, Numbers DEF TypeOK
  <2>6. /\ InOrder(list) /\ list \in ListType /\ Linked(list) \subseteq Timers
        /\ \A u \in Timers : list.expire[u] \in Int
    BY <1>0, TableTypes DEF Table
  <2>7. /\ InOrder(list') /\ Linked(list') = Linked(list) \cup {t} /\ t \notin Linked(list)
        /\ list'.live = list.live \cup {t} /\ list'.expire = [list.expire EXCEPT ![t] = e]
        /\ Ascending(list) => Ascending(list')
    <3> HIDE DEF e
    <3> QED BY <2>4, <2>5, <2>6, AddInOrder
  <2>8. \A u \in Timers : list'.expire[u] = IF u = t THEN e ELSE list.expire[u]
    <3> HIDE DEF e
    <3> QED BY <2>6, <2>7 DEF ListType
  <2> HIDE DEF f, c, e, free
  <2>9. /\ conn' \in [ConnFds -> Clients \cup {NULL}]
        /\ \A g \in ConnFds : conn'[g] = IF g = f THEN c ELSE conn[g]
        /\ status' \in [Clients -> {"closed", "backlog", "open"}]
        /\ \A d \in Clients : status'[d] = IF d = c THEN "open" ELSE status[d]
        /\ active' \in [Clients -> 0 .. MaxTime]
        /\ \A d \in Clients : active'[d] = IF d = c THEN now ELSE active[d]
    BY <1>0, <1>4, <2>1, <2>2, <2>5 DEF TypeOK
  <2>10. /\ users' \in [ConnFds -> Timers \cup {NULL}]
         /\ \A g \in ConnFds : users'[g] = IF g = f THEN t ELSE users[g]
         /\ user_data' \in [Timers -> ConnFds \cup {0}]
         /\ \A u \in Timers : user_data'[u] = IF u = t THEN f ELSE user_data[u]
    BY <1>0, <2>1, <2>4 DEF TypeOK
  <2>11. ready' \subseteq {listenfd, pipefd0} \cup ConnFds /\ ready \subseteq ready' /\ ready' \subseteq ready \cup {f}
    BY <1>0, <1>4, <2>1 DEF TypeOK
  <2>12. TypeOK'
    BY <1>0, <1>1, <1>4, <2>2, <2>7, <2>9, <2>10, <2>11 DEF TypeOK
  <2>13. Table'
    <3>1. \A g \in ConnFds : conn'[g] # NULL => users'[g] \in Linked(list') /\ user_data'[users'[g]] = g
      <4> SUFFICES ASSUME NEW g \in ConnFds, conn'[g] # NULL
                   PROVE  users'[g] \in Linked(list') /\ user_data'[users'[g]] = g
        OBVIOUS
      <4>1. CASE g = f
        BY <2>4, <2>7, <2>10, <4>1
      <4>2. CASE g # f
        <5>1. users[g] \in Linked(list) /\ user_data[users[g]] = g
          BY <1>0, <2>9, <4>2 DEF Table
        <5> QED BY <2>6, <2>7, <2>10, <4>2, <5>1
      <4> QED BY <4>1, <4>2
    <3>2. \A u \in Linked(list') : /\ user_data'[u] \in ConnFds /\ conn'[user_data'[u]] # NULL
                                   /\ users'[user_data'[u]] = u
      <4> SUFFICES ASSUME NEW u \in Linked(list')
                   PROVE  /\ user_data'[u] \in ConnFds /\ conn'[user_data'[u]] # NULL
                          /\ users'[user_data'[u]] = u
        OBVIOUS
      <4>1. CASE u = t
        BY <2>1, <2>4, <2>5, <2>9, <2>10, <4>1
      <4>2. CASE u # t
        <5>1. u \in Linked(list) /\ u \in Timers
          BY <2>6, <2>7, <4>2
        <5>2. user_data[u] \in ConnFds /\ conn[user_data[u]] # NULL /\ users[user_data[u]] = u
          BY <1>0, <5>1 DEF Table
        <5> QED BY <2>1, <2>9, <2>10, <4>2, <5>1, <5>2
      <4> QED BY <4>1, <4>2
    <3> QED BY <2>7, <3>1, <3>2 DEF Table
  <2>14. Placed'
    <3>1. \A g, h \in ConnFds : conn'[g] # NULL /\ conn'[g] = conn'[h] => g = h
      BY <1>0, <2>3, <2>9 DEF Placed
    <3>2. ASSUME NEW d \in Clients
          PROVE  status'[d] = "open" <=> \E g \in ConnFds : conn'[g] = d
      <4>1. status[d] = "open" <=> \E g \in ConnFds : conn[g] = d
        BY <1>0 DEF Placed
      <4>2. d # NULL
        BY Numbers
      <4>3. CASE d = c
        BY <2>1, <2>9, <4>3
      <4>4. CASE d # c
        BY <2>1, <2>9, <4>1, <4>2, <4>4
      <4> QED BY <4>3, <4>4
    <3>3. /\ \A d \in Clients : status[d] = "backlog" <=> \E i \in 1 .. Len(backlog) : backlog[i] = d
          /\ \A i, j \in 1 .. Len(backlog) : backlog[i] = backlog[j] => i = j
      BY <1>0 DEF Placed
    <3>4. \A i \in 1 .. Len(backlog') : /\ i + 1 \in 1 .. Len(backlog) /\ i + 1 # 1
                                        /\ backlog'[i] = backlog[i + 1]
      BY <2>2
    <3>5. \A i \in 1 .. Len(backlog') : backlog'[i] # c
      BY <2>2, <3>3, <3>4
    <3>6. ASSUME NEW d \in Clients
          PROVE  status'[d] = "backlog" <=> \E i \in 1 .. Len(backlog') : backlog'[i] = d
      <4>1. CASE d = c
        BY <2>9, <3>5, <4>1
      <4>2. CASE d # c
        <5>1. \A i \in 1 .. Len(backlog) : i = 1 \/ (i - 1 \in 1 .. Len(backlog') /\ backlog'[i - 1] = backlog[i])
          <6>1. \A i \in 1 .. Len(backlog) : i = 1 \/ (i - 1 \in 1 .. Len(backlog') /\ (i - 1) + 1 = i)
            BY <2>2
          <6> QED BY <3>4, <6>1
        <5>2. (\E i \in 1 .. Len(backlog) : backlog[i] = d) => \E i \in 1 .. Len(backlog') : backlog'[i] = d
          BY <2>2, <4>2, <5>1
        <5>3. (\E i \in 1 .. Len(backlog') : backlog'[i] = d) => \E i \in 1 .. Len(backlog) : backlog[i] = d
          BY <3>4
        <5> QED BY <2>9, <3>3, <4>2, <5>2, <5>3
      <4> QED BY <4>1, <4>2
    <3>7. \A i, j \in 1 .. Len(backlog') : backlog'[i] = backlog'[j] => i = j
      <4> SUFFICES ASSUME NEW i \in 1 .. Len(backlog'), NEW j \in 1 .. Len(backlog'), backlog'[i] = backlog'[j]
                   PROVE  i = j
        OBVIOUS
      <4>1. i + 1 = j + 1
        BY <3>3, <3>4
      <4> QED BY <4>1
    <3> QED BY <3>1, <3>2, <3>6, <3>7 DEF Placed
  <2>15. Fresh'
    <3>1. \A g \in ready' \cap ConnFds : conn'[g] # NULL
      BY <1>0, <2>5, <2>9, <2>11 DEF Fresh
    <3>2. ASSUME NEW g \in batch' \cap ConnFds
          PROVE  conn'[g] # NULL /\ (unread'[conn'[g]] > 0 \/ hungup'[conn'[g]])
      <4>1. g \in batch \cap ConnFds /\ conn[g] # NULL /\ (unread[conn[g]] > 0 \/ hungup[conn[g]])
        BY <1>0, <1>1 DEF Fresh
      <4>2. conn'[g] = conn[g]
        BY <2>1, <2>9, <4>1
      <4> QED BY <1>1, <4>1, <4>2
    <3>3. pipe' # {} => pipefd0 \in ready' \cup batch'
      BY <1>0, <1>1, <1>2, <2>11 DEF Fresh
    <3>4. listenfd \notin batch' /\ pc' # "wait"
      BY <1>1, <1>4
    <3> QED BY <3>1, <3>2, <3>3, <3>4 DEF Fresh
  <2>16. Dated'
    <3>1. \A d \in Clients : active'[d] <= now'
      BY <1>0, <1>1, <2>5, <2>9 DEF Dated
    <3>2. ASSUME NEW u \in Linked(list')
          PROVE  list'.expire[u] = active'[conn'[user_data'[u]]] + 3 * TIMESLOT
      <4>1. CASE u = t
        BY <2>1, <2>2, <2>4, <2>8, <2>9, <2>10, <4>1 DEF e
      <4>2. CASE u # t
        <5>1. u \in Linked(list) /\ u \in Timers
          BY <2>6, <2>7, <4>2
        <5>2. user_data[u] \in ConnFds /\ conn[user_data[u]] # NULL /\ user_data'[u] = user_data[u]
          BY <1>0, <2>10, <4>2, <5>1 DEF Table
        <5>3. conn'[user_data[u]] = conn[user_data[u]] /\ conn[user_data[u]] \in Clients \ {c}
          BY <1>0, <2>1, <2>3, <2>9, <5>2, TableTypes
        <5>4. list.expire[u] = active[conn[user_data[u]]] + 3 * TIMESLOT
          BY <1>0, <5>1 DEF Dated
        <5> QED BY <2>8, <2>9, <4>2, <5>1, <5>2, <5>3, <5>4
      <4> QED BY <4>1, <4>2
    <3> QED BY <1>0, <2>7, <3>1, <3>2 DEF Dated
  <2>17. Punctual'
    <3>1. \A u \in Linked(list') : u \in Timers /\ (u = t \/ u \in Linked(list))
      BY <2>6, <2>7
    <3>2. ASSUME trouble = {}, alarm # -1
          PROVE  \A u \in Linked(list') : list'.expire[u] > alarm - TIMESLOT
      <4>1. alarm \in Int /\ alarm <= now + TIMESLOT /\ \A u \in Linked(list) : list.expire[u] > alarm - TIMESLOT
        BY <1>0, <3>2 DEF Punctual, TypeOK
      <4>2. e > alarm - TIMESLOT
        BY <2>5, <4>1 DEF e
      <4> QED BY <2>8, <3>1, <4>1, <4>2
    <3>3. ASSUME trouble = {}
          PROVE  \A u \in Linked(list') : list'.expire[u] > now - TIMESLOT
      <4>1. \A u \in Linked(list) : list.expire[u] > now - TIMESLOT
        BY <1>0, <3>3 DEF Punctual
      <4>2. e > now - TIMESLOT
        BY <2>5 DEF e
      <4> QED BY <2>8, <3>1, <4>1, <4>2
    <3> QED BY <1>0, <1>1, <3>2, <3>3 DEF Punctual
  <2> QED BY <2>12, <2>13, <2>14, <2>15, <2>16, <2>17 DEF IInv
<1> QED BY <1>3, <1>4 DEF Accept

\* tick() and the callbacks it makes.
LEMMA TimeHandlerIs ==
  ASSUME IInv, RunTimeHandler, UNCHANGED <<users, user_data, backlog, now>>
  PROVE  /\ \E S \in SUBSET ConnFds : Removal(S, Expired(list, now)) /\ Close(S) /\ ready' = ready \ S
         /\ list'.live \subseteq Timers
         /\ \A t \in Linked(list') : list'.expire[t] > now
         /\ \A t \in Expired(list, now) : t \in Linked(list) /\ list.expire[t] <= now
         /\ alarm' = now + TIMESLOT
<1> DEFINE E == Expired(list, now)
           S == {user_data[t] : t \in E}
<1>0. TypeOK /\ Table /\ Dated
  BY DEF IInv
<1>1. list' = TickList(list, now) /\ Close(S) /\ alarm' = now + TIMESLOT
  BY DEF RunTimeHandler
<1>2. /\ InOrder(list) /\ Ascending(list) /\ Linked(list) \subseteq Timers /\ list.live \subseteq Timers
      /\ now \in Int
  BY <1>0, TableTypes DEF Table, Dated, TypeOK
<1>3. /\ InOrder(list') /\ Linked(list') = Linked(list) \ E /\ E \subseteq Linked(list)
      /\ \A t \in E : list.expire[t] <= now
      /\ list'.live = list.live \ E
      /\ \A u \in Timers \ E : list'.expire[u] = list.expire[u]
      /\ Ascending(list') /\ \A t \in Linked(list') : list.expire[t] > now
  BY <1>1, <1>2, TickInOrder
<1> HIDE DEF E
<1>4. S \in SUBSET ConnFds
  BY <1>0, <1>3 DEF Table
<1>5. \A f \in ConnFds : conn[f] # NULL => (f \in S <=> users[f] \in E)
  BY <1>0, <1>3 DEF Table
<1> HIDE DEF S
<1>6. \A t \in Linked(list') : list'.expire[t] = list.expire[t]
  BY <1>2, <1>3
<1>7. Removal(S, E)
  BY <1>1, <1>3, <1>4, <1>5, <1>6 DEF Removal
<1>8. ready' = ready \ S
  BY <1>1 DEF Close
<1>9. \A t \in Linked(list') : list'.expire[t] > now
  BY <1>3, <1>6
<1> QED BY <1>1, <1>2, <1>3, <1>4, <1>7, <1>8, <1>9 DEF E

LEMMA EndBatchIInv ==
  ASSUME IInv, EndBatch
  PROVE  IInv'
<1>0. TypeOK /\ Fresh /\ Punctual
  BY DEF IInv
<1>1. /\ pc = "batch" /\ batch = {} /\ timeout' = FALSE /\ pc' = "wait" /\ batch' = batch
      /\ UNCHANGED <<users, user_data, stop_server, backlog, pipe, now, trouble>>
  BY DEF EndBatch
<1>2. CASE timeout /\ RunTimeHandler
  <2>1. /\ \E S \in SUBSET ConnFds : Removal(S, Expired(list, now)) /\ Close(S) /\ ready' = ready \ S
        /\ list'.live \subseteq Timers
        /\ \A t \in Linked(list') : list'.expire[t] > now
        /\ alarm' = now + TIMESLOT
    BY <1>1, <1>2, TimeHandlerIs
  <2>2. PICK S \in SUBSET ConnFds : Removal(S, Expired(list, now)) /\ Close(S) /\ ready' = ready \ S
    BY <2>1
  <2>3. Table' /\ Placed' /\ Dated' /\ \A f \in ready' \cap ConnFds : conn'[f] # NULL
    BY <2>2, RemovalKeeps
  <2>4. /\ conn' \in [ConnFds -> Clients \cup {NULL}]
        /\ status' \in [Clients -> {"closed", "backlog", "open"}]
        /\ unread' \in [Clients -> 0 .. MaxUnread]
        /\ hungup' \in [Clients -> BOOLEAN]
        /\ active' \in [Clients -> 0 .. MaxTime]
    BY <1>0, <2>2, CloseIs
  <2>5. now \in 0 .. MaxTime /\ alarm' \in -1 .. (MaxTime + TIMESLOT) /\ TIMESLOT \in Nat /\ TIMESLOT > 0
    BY <1>0, <2>1, Numbers DEF TypeOK
  <2>6. TypeOK'
    BY <1>0, <1>1, <2>1, <2>2, <2>4, <2>5 DEF TypeOK
  <2>7. Fresh'
    <3>1. pipefd0 \notin S
      BY Numbers
    <3> QED BY <1>0, <1>1, <2>2, <2>3, <3>1 DEF Fresh
  <2>8. Punctual'
    <3>1. \A t \in Linked(list') : list'.expire[t] > alarm' - TIMESLOT
      BY <2>1, <2>5
    <3>2. \A t \in Linked(list') : list'.expire[t] > now - TIMESLOT
      <4>1. \A t \in Linked(list') : list'.expire[t] \in Int
        <5>1. InOrder(list')
          BY <2>3 DEF Table
        <5> QED BY <5>1, InOrderFacts DEF ListType
      <4> QED BY <2>1, <2>5, <4>1
    <3>3. alarm' # -1 /\ now <= alarm' /\ alarm' <= now + TIMESLOT
      BY <2>1, <2>5
    <3> QED BY <1>1, <3>1, <3>2, <3>3 DEF Punctual
  <2> QED BY <2>3, <2>6, <2>7, <2>8 DEF IInv
<1>3. CASE ~timeout /\ UNCHANGED <<list, conn, ready, alarm, peers>>
  <2>1. TypeOK'
    BY <1>0, <1>1, <1>3 DEF TypeOK, peers
  <2>2. Table' /\ Placed' /\ Dated'
    BY <1>1, <1>3, KeepsTable, KeepsPlaced, KeepsDated DEF peers
  <2>3. Punctual'
    BY <1>0, <1>1, <1>3 DEF Punctual
  <2>4. Fresh'
    BY <1>0, <1>1, <1>3 DEF Fresh, peers
  <2> QED BY <2>1, <2>2, <2>3, <2>4 DEF IInv
<1> QED BY <1>2, <1>3 DEF EndBatch

LEMMA ExitIInv ==
  ASSUME IInv, Exit
  PROVE  IInv'
<1>0. TypeOK /\ Table /\ Fresh /\ Punctual
  BY DEF IInv
<1> DEFINE l == IF timeout THEN TickList(list, now) ELSE list
<1>1. /\ batch = {} /\ list' = Destroy(l) /\ Close(ConnFds) /\ pc' = "exit" /\ batch' = batch
      /\ UNCHANGED <<users, user_data, timeout, stop_server, backlog, pipe, alarm, now, trouble>>
  BY DEF Exit
<1>2. InOrder(list) /\ list.live \subseteq Timers /\ now \in Int /\ Linked(list) \subseteq Timers
  BY <1>0, TableTypes DEF Table, TypeOK
<1>3. InOrder(l) /\ l.live \subseteq list.live
  BY <1>2, TickInOrder
<1> HIDE DEF l
<1>4. InOrder(list') /\ Linked(list') = {} /\ Ascending(list') /\ list'.live \subseteq l.live
  BY <1>1, <1>3, DestroyInOrder
<1>5. Removal(ConnFds, Linked(list))
  BY <1>0, <1>1, <1>4 DEF Removal, Table
<1>6. Table' /\ Placed' /\ Dated' /\ \A f \in ready' \cap ConnFds : conn'[f] # NULL
  BY <1>5, RemovalKeeps
<1>7. /\ conn' \in [ConnFds -> Clients \cup {NULL}]
      /\ ready' = ready \ ConnFds
      /\ status' \in [Clients -> {"closed", "backlog", "open"}]
      /\ unread' \in [Clients -> 0 .. MaxUnread]
      /\ hungup' \in [Clients -> BOOLEAN]
      /\ active' \in [Clients -> 0 .. MaxTime]
  BY <1>0, <1>1, CloseIs
<1>8. TypeOK'
  BY <1>0, <1>1, <1>2, <1>3, <1>4, <1>7 DEF TypeOK
<1>9. Fresh'
  BY <1>0, <1>1, <1>6, <1>7, Numbers DEF Fresh
<1>10. Punctual'
  BY <1>0, <1>1, <1>4 DEF Punctual
<1> QED BY <1>6, <1>8, <1>9, <1>10 DEF IInv

LEMMA StepIInv ==
  ASSUME IInv, [Next]_vars
  PROVE  IInv'
<1>1. CASE SigAlrm
  BY <1>1, SignalIInv DEF SigAlrm
<1>2. CASE SigTerm
  BY <1>2, SignalIInv DEF SigTerm
<1>3. CASE UNCHANGED vars
  <2>1. UNCHANGED <<server, kernel, peers, trouble>>
    BY <1>3 DEF vars
  <2>2. TypeOK'
    BY <2>1 DEF IInv, TypeOK, server, kernel, peers
  <2>3. Table' /\ Placed' /\ Dated' /\ Punctual'
    BY <2>1, KeepsTable, KeepsPlaced, KeepsDated, KeepsPunctual DEF server, kernel, peers
  <2>4. Fresh'
    BY <2>1 DEF IInv, Fresh, server, kernel, peers
  <2> QED BY <2>2, <2>3, <2>4 DEF IInv
<1>4. CASE \E c \in Clients : Connect(c) \/ Send(c) \/ HangUp(c)
  BY <1>4, ConnectIInv, SendIInv, HangUpIInv
<1>5. CASE Server
  BY <1>5, EpollWaitIInv, AcceptIInv, ReadSignalsIInv, ReceiveIInv, DropIInv, EndBatchIInv, ExitIInv
     DEF Server
<1> QED BY <1>1, <1>2, <1>3, <1>4, <1>5, ClockIInv DEF Next

\* The inductive invariant of the keep-alive server's loop, callbacks and signals
\* (alarm_keeplive.cpp:96 to 199).
THEOREM Invariance == Spec => []IInv
BY InitIInv, StepIInv, PTL DEF Spec

-----------------------------------------------------------------------------
(* The properties. *)

\* Descriptor table, users[] and timer list agree, although both the loop and the
\* callbacks of tick() close connections and descriptors and addresses are used
\* again (alarm_keeplive.cpp:107 to 186).
THEOREM TablesAgree == Spec => []TimerPerConnection
<1>1. IInv => TimerPerConnection
  <2> SUFFICES ASSUME IInv PROVE TimerPerConnection
    OBVIOUS
  <2>1. TypeOK /\ Table /\ Linked(list) \subseteq list.live
    BY TableTypes DEF IInv
  <2> QED BY <2>1 DEF TimerPerConnection, Table
<1> QED BY <1>1, Invariance, PTL

\* Every event the for loop is about to handle is for an open descriptor with
\* something to read, so the loop never has to retry (line 155).
THEOREM NoEventIsStale == Spec => []EventsAreFresh
<1>1. IInv => EventsAreFresh
  BY ReadableIs DEF IInv, Fresh, EventsAreFresh
<1> QED BY <1>1, Invariance, PTL

\* The timer of a silent connection is overdue by less than a slot.
LEMMA IdleIs == IInv => IdleConnectionsClose
<1> SUFFICES ASSUME IInv, trouble = {}, NEW c \in Clients, status[c] = "open"
             PROVE  now < active[c] + 4 * TIMESLOT
  BY DEF IdleConnectionsClose, IdleClosed
<1>0. TypeOK /\ Table /\ Placed /\ Dated /\ Punctual
  BY DEF IInv
<1>1. PICK f \in ConnFds : conn[f] = c
  BY <1>0 DEF Placed
<1>2. conn[f] # NULL
  BY <1>1, Numbers
<1>3. users[f] \in Linked(list) /\ user_data[users[f]] = f
  BY <1>0, <1>2 DEF Table
<1>4. list.expire[users[f]] = active[c] + 3 * TIMESLOT
  BY <1>0, <1>1, <1>3 DEF Dated
<1>5. list.expire[users[f]] > now - TIMESLOT
  BY <1>0, <1>3 DEF Punctual
<1>6. active[c] \in Nat /\ now \in Nat /\ TIMESLOT \in Nat
  BY <1>0, Numbers DEF TypeOK
<1> QED BY <1>4, <1>5, <1>6

\* With a server that keeps up and a handler whose bytes arrive, every silent
\* connection is closed within four slots: every alarm is armed again by the tick
\* it causes, and the tick meets every expired timer.
THEOREM SilentConnectionsClose == Spec => []IdleConnectionsClose
BY IdleIs, Invariance, PTL

\* Nobody who was heard from within three slots is closed, whatever happened to
\* the timers of the others (tick, list_timer.h:133 to 154).
THEOREM NobodyClosedEarly == Spec => NoEarlyClose
<1> DEFINE A == \A c \in Clients :
                  status[c] = "open" /\ status'[c] = "closed" /\ ~hungup[c] /\ pc' # "exit"
                    => now >= active[c] + 3 * TIMESLOT
<1>1. ASSUME IInv, Next
      PROVE  A
  <2> SUFFICES ASSUME NEW c \in Clients, status[c] = "open", status'[c] = "closed",
                      ~hungup[c], pc' # "exit"
               PROVE  now >= active[c] + 3 * TIMESLOT
    OBVIOUS
  <2>0. TypeOK /\ Table /\ Placed /\ Fresh /\ Dated
    BY <1>1 DEF IInv
  <2>1. status' # status
    OBVIOUS
  <2>2. CASE \E d \in Clients : Connect(d) \/ Send(d) \/ HangUp(d)
    <3>1. PICK d \in Clients : Connect(d)
      BY <2>1, <2>2 DEF Send, HangUp
    <3>2. status' = [status EXCEPT ![d] = "backlog"] /\ status \in [Clients -> {"closed", "backlog", "open"}]
      BY <2>0, <3>1 DEF Connect, TypeOK
    <3> QED BY <3>2
  <2>3. CASE SigAlrm \/ SigTerm \/ Clock
    BY <2>1, <2>3 DEF SigAlrm, SigTerm, Clock, peers
  <2>4. CASE EpollWait \/ ReadSignals
    BY <2>1, <2>4 DEF EpollWait, ReadSignals, peers
  <2>5. CASE Accept
    <3>1. status' = [status EXCEPT ![Head(backlog)] = "open"]
      BY <2>1, <2>5 DEF Accept
    <3>2. status \in [Clients -> {"closed", "backlog", "open"}]
      BY <2>0 DEF TypeOK
    <3> QED BY <3>1, <3>2
  <2>6. CASE \E f \in ConnFds : Receive(f) \/ Drop(f)
    <3>1. PICK f \in ConnFds : Drop(f)
      BY <2>1, <2>6 DEF Receive
    <3>2. Close({f}) /\ hungup[conn[f]]
      BY <3>1 DEF Drop
    <3>3. conn[f] = c
      BY <2>0, <3>2, CloseIs
    <3> QED BY <3>2, <3>3
  <2>7. CASE EndBatch
    <3>1. RunTimeHandler /\ UNCHANGED <<users, user_data, backlog, now>>
      BY <2>1, <2>7 DEF EndBatch, peers
    <3>2. /\ \E S \in SUBSET ConnFds : Removal(S, Expired(list, now)) /\ Close(S) /\ ready' = ready \ S
          /\ \A t \in Expired(list, now) : t \in Linked(list) /\ list.expire[t] <= now
      BY <1>1, <3>1, TimeHandlerIs
    <3>3. PICK S \in SUBSET ConnFds : Removal(S, Expired(list, now)) /\ Close(S)
      BY <3>2
    <3>4. PICK f \in S : conn[f] = c
      BY <2>0, <3>3, CloseIs
    <3>5. conn[f] # NULL /\ f \in ConnFds
      BY <3>3, <3>4, Numbers
    <3>6. users[f] \in Expired(list, now)
      BY <3>3, <3>4, <3>5 DEF Removal
    <3>7. user_data[users[f]] = f
      BY <2>0, <3>5 DEF Table
    <3>8. list.expire[users[f]] = active[c] + 3 * TIMESLOT
      BY <2>0, <3>2, <3>4, <3>6, <3>7 DEF Dated
    <3>9. active[c] \in Nat /\ now \in Nat /\ TIMESLOT \in Nat
      BY <2>0, Numbers DEF TypeOK
    <3> QED BY <3>2, <3>6, <3>8, <3>9
  <2>8. CASE Exit
    BY <2>8 DEF Exit
  <2> QED BY <1>1, <2>2, <2>3, <2>4, <2>5, <2>6, <2>7, <2>8 DEF Next, Server
<1>2. IInv /\ [Next]_vars => [A]_vars
  BY <1>1
<1>3. Spec => [][A]_vars
  BY <1>2, Invariance, PTL DEF Spec
<1> QED BY <1>3 DEF NoEarlyClose

-----------------------------------------------------------------------------
(* The abstract service. *)

LEMMA HeardIs ==
  /\ DOMAIN Heard = Connected
  /\ Running => \A c \in Clients : c \in Connected <=> status[c] = "open"
  /\ \A c \in Connected : c \in Clients /\ Running /\ Heard[c] = active[c]
BY DEF Heard, Connected

\* What a step with the same sessions keeps.
LEMMA SameSessions ==
  ASSUME Running, Running', UNCHANGED <<active, hungup>>,
         \A c \in Clients : status'[c] = "open" <=> status[c] = "open"
  PROVE  UNCHANGED <<Heard, Departed>>
<1>1. Connected' = Connected
  BY DEF Connected
<1>2. Heard' = Heard
  BY <1>1 DEF Heard
<1>3. Departed' = Departed
  BY DEF Departed
<1> QED BY <1>2, <1>3

\* A server that has ended has no sessions.
LEMMA NoSessions ==
  ASSUME ~Running
  PROVE  Heard = << >> /\ Departed = {}
<1>1. Connected = {}
  BY DEF Connected
<1>2. Heard = << >>
  BY <1>1 DEF Heard
<1> QED BY <1>2 DEF Departed

\* Closing descriptors ends the sessions behind them and no other.
LEMMA CloseEnds ==
  ASSUME IInv, NEW S \in SUBSET ConnFds, Close(S), Running, Running',
         NEW G, G = {c \in Clients : \E f \in S : conn[f] = c}
  PROVE  Service!End(G)
<1>0. TypeOK /\ Placed
  BY DEF IInv
<1>1. /\ \A c \in G : status'[c] = "closed"
      /\ \A c \in Clients \ G : status'[c] = status[c] /\ active'[c] = active[c]
  BY <1>0, CloseIs
<1>2. hungup' = [c \in Clients |-> hungup[c] /\ c \notin G]
  BY DEF Close
<1>3. \A c \in G : c \in Clients /\ status[c] = "open"
  BY <1>0 DEF Placed
<1>4. G \subseteq Connected
  BY <1>3 DEF Connected
<1>5. Connected' = Connected \ G
  <2>1. \A c \in Clients : status'[c] = "open" <=> status[c] = "open" /\ c \notin G
    BY <1>1
  <2> QED BY <2>1 DEF Connected
<1>6. Heard' = [c \in Connected \ G |-> Heard[c]]
  <2>1. \A c \in Connected \ G : active'[c] = Heard[c]
    BY <1>1, HeardIs
  <2> QED BY <1>5, <2>1 DEF Heard
<1>7. Departed' = Departed \ G
  BY <1>2 DEF Departed
<1> QED BY <1>4, <1>6, <1>7, HeardIs DEF Service!End, Service!Sessions, Service!Restrict

LEMMA ClientServes ==
  ASSUME IInv, NEW c \in Clients, Connect(c) \/ Send(c) \/ HangUp(c)
  PROVE  [Service!Next]_(Service!vars)
<1>0. TypeOK
  BY DEF IInv
<1>1. Running /\ Running' /\ UNCHANGED <<active, now, trouble>>
  BY DEF Connect, Send, HangUp, server, Running
<1>2. CASE Connect(c) \/ Send(c)
  <2>1. hungup' = hungup
    BY <1>2 DEF Connect, Send
  <2>2. \A d \in Clients : status'[d] = "open" <=> status[d] = "open"
    BY <1>0, <1>2 DEF Connect, Send, TypeOK
  <2>3. UNCHANGED <<Heard, Departed>>
    BY <1>1, <2>1, <2>2, SameSessions
  <2> QED BY <1>1, <2>3 DEF Service!vars
<1>3. CASE HangUp(c)
  <2>1. /\ status' = status /\ ~hungup[c] /\ hungup' = [hungup EXCEPT ![c] = TRUE]
        /\ hungup \in [Clients -> BOOLEAN]
    BY <1>0, <1>3 DEF HangUp, TypeOK
  <2>2. Connected' = Connected
    BY <1>1, <2>1 DEF Connected
  <2>3. Heard' = Heard
    BY <1>1, <2>2 DEF Heard
  <2>4. c \notin Departed /\ Departed' = Departed \cup {c}
    BY <1>1, <2>1 DEF Departed
  <2>5. Service!Leave(c)
    BY <1>1, <2>3, <2>4 DEF Service!Leave
  <2> QED BY <2>5 DEF Service!Next
<1> QED BY <1>2, <1>3

LEMMA SignalServes ==
  ASSUME IInv, SigAlrm \/ SigTerm
  PROVE  [Service!Next]_(Service!vars)
<1>1. Running /\ Running' /\ UNCHANGED <<active, hungup, status, now>>
  BY DEF SigAlrm, SigTerm, server, peers, Running
<1>2. UNCHANGED <<Heard, Departed>>
  BY <1>1, SameSessions
<1>3. CASE trouble' = trouble
  BY <1>1, <1>2, <1>3 DEF Service!vars
<1>4. CASE trouble' = trouble \cup {"lost"}
  <2>1. Service!Lose
    BY <1>1, <1>2, <1>4 DEF Service!Lose
  <2> QED BY <2>1 DEF Service!Next
<1> QED BY <1>3, <1>4 DEF SigAlrm, SigTerm, Handler

LEMMA ClockServes ==
  ASSUME IInv, Clock
  PROVE  [Service!Next]_(Service!vars)
<1>1. /\ Running /\ Running' /\ UNCHANGED <<active, hungup, status>>
      /\ now' = now + 1 /\ (trouble' = trouble \/ trouble' = trouble \cup {"late"})
  BY DEF Clock, server, peers, Running
<1>2. UNCHANGED <<Heard, Departed>>
  BY <1>1, SameSessions
<1>3. IInv'
  BY ClockIInv
<1>4. trouble' = {} => IdleClosed'
  <2>1. IInv' => IdleConnectionsClose'
    BY IdleIs, PTL
  <2> QED BY <1>3, <2>1 DEF IdleConnectionsClose
<1>5. ASSUME trouble' = {}, NEW c \in Connected
      PROVE  now' < Heard[c] + 3 * TIMESLOT + TIMESLOT
  <2>1. c \in Clients /\ status'[c] = "open" /\ Heard[c] = active[c]
    BY <1>1, <1>5, HeardIs
  <2>2. now' < active'[c] + 4 * TIMESLOT
    BY <1>4, <1>5, <2>1 DEF IdleClosed
  <2>3. active[c] \in Nat /\ now' \in Int /\ TIMESLOT \in Nat
    BY <1>1, <2>1, Numbers DEF IInv, TypeOK
  <2> QED BY <1>1, <2>1, <2>2, <2>3
<1>6. Service!Clock
  <2>1. (trouble' # {}) \in {trouble # {}, TRUE}
    BY <1>1
  <2> QED BY <1>1, <1>2, <1>5, <2>1, HeardIs DEF Service!Clock, Service!Sessions
<1> QED BY <1>6 DEF Service!Next

\* The steps that only move events and signals.
LEMMA LoopServes ==
  ASSUME EpollWait \/ ReadSignals
  PROVE  UNCHANGED Service!vars
<1>1. /\ Running /\ Running'
      /\ active' = active /\ hungup' = hungup /\ status' = status /\ now' = now /\ trouble' = trouble
  BY DEF EpollWait, ReadSignals, peers, Running
<1>2. UNCHANGED <<Heard, Departed>>
  BY <1>1, SameSessions
<1> QED BY <1>1, <1>2 DEF Service!vars

\* The end of the program, by exit or by assert.
LEMMA EndServes ==
  ASSUME Running, ~Running', now' = now, trouble' = trouble
  PROVE  Service!Next
<1>1. Heard' = << >> /\ Departed' = {}
  <2>1. ~Running => Heard = << >> /\ Departed = {}
    BY NoSessions
  <2>2. (~Running => Heard = << >> /\ Departed = {})'
    BY NoSessions, PTL
  <2> QED BY <2>2
<1>2. Service!Stop
  BY <1>1 DEF Service!Stop
<1> QED BY <1>2 DEF Service!Next

LEMMA AcceptServes ==
  ASSUME IInv, Accept
  PROVE  [Service!Next]_(Service!vars)
<1>0. TypeOK /\ Placed /\ Fresh
  BY DEF IInv
<1>1. Running /\ UNCHANGED <<hungup, now, trouble>> /\ listenfd \in batch
  BY DEF Accept, Running
<1>2. CASE pc' = "aborted"
  BY <1>1, <1>2, EndServes DEF Running
<1>3. CASE pc' # "aborted"
  <2> DEFINE c == Head(backlog)
  <2>1. /\ pc' = pc /\ status' = [status EXCEPT ![c] = "open"]
        /\ active' = [active EXCEPT ![c] = now]
    BY <1>3 DEF Accept
  <2>2. Len(backlog) \in Nat \ {0} /\ backlog[1] = c
    BY <1>0, <1>1 DEF Fresh, TypeOK
  <2>3. c \in Clients /\ status[c] = "backlog"
    BY <1>0, <2>2 DEF Placed, TypeOK
  <2> HIDE DEF c
  <2>4. Running'
    BY <1>1, <2>1 DEF Running
  <2>5. c \notin Connected /\ Connected' = Connected \cup {c}
    BY <1>0, <1>1, <2>1, <2>3, <2>4 DEF Connected, TypeOK
  <2>6. Departed' = Departed
    BY <1>1, <2>4 DEF Departed
  <2>7. Heard' = [d \in Connected \cup {c} |-> IF d = c THEN now ELSE Heard[d]]
    <3>1. active \in [Clients -> 0 .. MaxTime]
      BY <1>0 DEF TypeOK
    <3>2. \A d \in Connected \cup {c} : active'[d] = IF d = c THEN now ELSE Heard[d]
      BY <2>1, <2>3, <3>1, HeardIs
    <3> QED BY <2>5, <3>2 DEF Heard
  <2>8. Service!Begin(c)
    BY <1>1, <2>4, <2>5, <2>6, <2>7, HeardIs DEF Service!Begin, Service!Sessions
  <2> QED BY <2>3, <2>8 DEF Service!Next
<1> QED BY <1>2, <1>3

\* The client behind a descriptor whose event the loop handles.
LEMMA Behind ==
  ASSUME IInv, NEW f \in batch \cap ConnFds
  PROVE  conn[f] \in Clients /\ status[conn[f]] = "open"
<1>1. conn[f] # NULL /\ conn[f] \in Clients
  BY DEF IInv, Fresh, TypeOK
<1> QED BY <1>1 DEF IInv, Placed

LEMMA ReceiveServes ==
  ASSUME IInv, NEW f \in ConnFds, Receive(f)
  PROVE  [Service!Next]_(Service!vars)
<1> DEFINE c == conn[f]
<1>1. /\ Running /\ Running' /\ status' = status /\ hungup' = hungup /\ now' = now
      /\ trouble' = trouble /\ active' = [active EXCEPT ![c] = now]
  BY DEF Receive, kernel, Running
<1>2. c \in Clients /\ status[c] = "open"
  BY Behind DEF Receive
<1> HIDE DEF c
<1>3. active \in [Clients -> 0 .. MaxTime]
  BY DEF IInv, TypeOK
<1>4. c \in Connected /\ Connected' = Connected
  BY <1>1, <1>2 DEF Connected
<1>5. Departed' = Departed
  BY <1>1 DEF Departed
<1>6. Heard' = [Heard EXCEPT ![c] = now]
  <2>1. \A d \in Connected : active'[d] = IF d = c THEN now ELSE Heard[d]
    BY <1>1, <1>3, HeardIs
  <2>2. Heard' = [d \in Connected |-> IF d = c THEN now ELSE Heard[d]]
    BY <1>4, <2>1 DEF Heard
  <2> QED BY <2>2, HeardIs
<1>7. Service!Hear(c)
  BY <1>1, <1>4, <1>5, <1>6, HeardIs DEF Service!Hear, Service!Sessions
<1> QED BY <1>2, <1>7 DEF Service!Next

LEMMA DropServes ==
  ASSUME IInv, NEW f \in ConnFds, Drop(f)
  PROVE  [Service!Next]_(Service!vars)
<1> DEFINE c == conn[f]
<1>1. Running /\ Running' /\ now' = now /\ trouble' = trouble /\ Close({f}) /\ hungup[c]
  BY DEF Drop, Running
<1>2. c \in Clients
  BY Behind DEF Drop
<1>3. {c} = {d \in Clients : \E g \in {f} : conn[g] = d}
  BY <1>2
<1>4. Service!End({c})
  BY <1>1, <1>3, CloseEnds
<1>5. c \in Departed
  BY <1>1, <1>2 DEF Departed
<1>6. Service!Release(c)
  BY <1>1, <1>4, <1>5 DEF Service!Release
<1> QED BY <1>2, <1>6 DEF Service!Next

LEMMA EndBatchServes ==
  ASSUME IInv, EndBatch
  PROVE  [Service!Next]_(Service!vars)
<1>0. TypeOK /\ Table /\ Dated
  BY DEF IInv
<1>1. /\ Running /\ Running' /\ now' = now /\ trouble' = trouble
      /\ UNCHANGED <<users, user_data, backlog>>
  BY DEF EndBatch, Running
<1>2. CASE RunTimeHandler
  <2>1. /\ \E S \in SUBSET ConnFds : Removal(S, Expired(list, now)) /\ Close(S)
        /\ \A t \in Expired(list, now) : t \in Linked(list) /\ list.expire[t] <= now
    BY <1>1, <1>2, TimeHandlerIs
  <2>2. PICK S \in SUBSET ConnFds : Removal(S, Expired(list, now)) /\ Close(S)
    BY <2>1
  <2> DEFINE G == {c \in Clients : \E f \in S : conn[f] = c}
  <2>3. Service!End(G)
    BY <1>1, <2>2, CloseEnds
  <2>4. ASSUME NEW c \in G
        PROVE  now >= Heard[c] + 3 * TIMESLOT
    <3>1. PICK f \in S : conn[f] = c
      OBVIOUS
    <3>2. conn[f] # NULL /\ f \in ConnFds
      BY <2>2, <3>1, Numbers
    <3>3. users[f] \in Expired(list, now)
      BY <2>2, <3>2 DEF Removal
    <3>4. user_data[users[f]] = f
      BY <1>0, <3>2 DEF Table
    <3>5. list.expire[users[f]] = active[c] + 3 * TIMESLOT /\ list.expire[users[f]] <= now
      BY <1>0, <2>1, <3>1, <3>3, <3>4 DEF Dated
    <3>6. Heard[c] = active[c]
      <4>1. status[c] = "open" /\ c \in Clients
        BY <3>1, <3>2 DEF IInv, Placed
      <4> QED BY <1>1, <4>1, HeardIs
    <3>7. active[c] \in Nat /\ now \in Nat /\ TIMESLOT \in Nat
      BY <1>0, Numbers DEF TypeOK
    <3> QED BY <3>5, <3>6, <3>7
  <2>5. G \in SUBSET Clients
    OBVIOUS
  <2> HIDE DEF G
  <2>6. Service!Expire(G)
    BY <1>1, <2>3, <2>4 DEF Service!Expire
  <2> QED BY <2>5, <2>6 DEF Service!Next
<1>3. CASE UNCHANGED peers
  <2>1. active' = active /\ hungup' = hungup /\ status' = status
    BY <1>3 DEF peers
  <2>2. UNCHANGED <<Heard, Departed>>
    BY <1>1, <2>1, SameSessions
  <2> QED BY <1>1, <2>2 DEF Service!vars
<1> QED BY <1>2, <1>3 DEF EndBatch

LEMMA StepServes ==
  ASSUME IInv, [Next]_vars
  PROVE  [Service!Next]_(Service!vars)
<1>1. CASE UNCHANGED vars
  <2>1. UNCHANGED <<pc, status, hungup, active, now, trouble>>
    BY <1>1 DEF vars, server, kernel, peers
  <2>2. UNCHANGED <<Heard, Departed, Running>>
    BY <2>1 DEF Heard, Departed, Connected, Running
  <2> QED BY <2>1, <2>2 DEF Service!vars
<1>2. CASE \E c \in Clients : Connect(c) \/ Send(c) \/ HangUp(c)
  BY <1>2, ClientServes
<1>3. CASE SigAlrm \/ SigTerm \/ Clock
  BY <1>3, SignalServes, ClockServes
<1>4. CASE EpollWait \/ ReadSignals
  BY <1>4, LoopServes
<1>5. CASE Exit
  <2>1. Running /\ ~Running' /\ now' = now /\ trouble' = trouble
    BY <1>5 DEF Exit, Running
  <2> QED BY <2>1, EndServes
<1>6. CASE Accept \/ (\E f \in ConnFds : Receive(f) \/ Drop(f)) \/ EndBatch
  BY <1>6, AcceptServes, ReceiveServes, DropServes, EndBatchServes
<1> QED BY <1>1, <1>2, <1>3, <1>4, <1>5, <1>6 DEF Next, Server

\* The server, with its descriptors, timers, alarm and pipe, behaves as the
\* abstract service: its users see sessions that are renewed by their own data,
\* end for a reason, and in time while the server keeps up (alarm_keeplive.cpp:91 to
\* 205).
THEOREM ServerImplementsSessions == Spec => ImplementsSessions
<1>1. Init => Service!Init
  <2> SUFFICES ASSUME Init PROVE Service!Init
    OBVIOUS
  <2>1. Running /\ Connected = {} /\ Departed = {}
    BY DEF Init, Running, Connected, Departed
  <2>2. Heard = << >>
    BY <2>1 DEF Heard
  <2> QED BY <2>1, <2>2 DEF Init, Service!Init
<1>2. IInv /\ [Next]_vars => [Service!Next]_(Service!vars)
  BY StepServes
<1>3. Spec => Service!Spec
  BY <1>1, <1>2, Invariance, PTL DEF Spec, Service!Spec
<1> QED BY <1>3 DEF ImplementsSessions

=============================================================================
