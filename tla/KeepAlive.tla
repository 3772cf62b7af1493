----------------------------- MODULE KeepAlive ------------------------------
(***************************************************************************)
(* The server of unp/high_performance/alarm_keeplive.cpp.  One thread      *)
(* waits in epoll_wait for three kinds of edge-triggered events: a client  *)
(* connects (listenfd), a client sends data or hangs up (its own fd), a    *)
(* signal handler has written a signal number to a socket pair             *)
(* (pipefd[0]).  Every connection owns a timer in a sort_time_list; the    *)
(* timer is postponed whenever data arrives, SIGALRM every TIMESLOT makes  *)
(* the loop run tick(), and an expired timer closes its connection.        *)
(*                                                                         *)
(* Data is counted in messages: one recv returns at least one message (up  *)
(* to BUFF_SEIZE - 1 bytes) and may leave the rest of them unread.  A hung *)
(* up connection stands for an orderly end of file and for a reset: the    *)
(* code treats recv = 0 and recv = -1 with an error alike.                 *)
(*                                                                         *)
(* Operators named Operation_Slip are not part of the code: they are       *)
(* mistakes that show what the properties notice.                          *)
(***************************************************************************)
EXTENDS SortTimeList, SequencesExt

CONSTANTS Clients,     \* clients; each has one connection at a time
          MaxFd,       \* the largest descriptor the process may have
          TIMESLOT,    \* seconds between two alarms
          MaxUnread,   \* bound: messages a client sends ahead of the server
          MaxTime,     \* bound: the largest value of the clock
          SendResults  \* what the handler's send may do, see Handler

ASSUME KeepAliveAssumption ==
  /\ NULL \notin Clients
  /\ MaxFd \in Nat /\ TIMESLOT \in Nat \ {0} /\ MaxUnread \in Nat /\ MaxTime \in Nat
  /\ SendResults \subseteq {"EFAULT", "sent"}

\* Descriptors in the order main() obtains them: 4 is the epoll instance, 6
\* the write end of the pair; accept returns the lowest free number.
listenfd == 3
pipefd0  == 5
ConnFds  == 7 .. MaxFd

VARIABLES
  \* the server's memory
  list,       \* timer_list
  users,      \* users[fd].timer, stale once fd is closed
  user_data,  \* timer->user_data, as the fd of the client_data it points to
  timeout,    \* a SIGALRM has been read and not handled
  stop_server, \* a SIGTERM has been read
  pc,         \* "wait" in epoll_wait, "batch" in the for loop, or the end
  batch,      \* the descriptors whose event the for loop has not handled yet
  \* the kernel
  conn,       \* the client behind every descriptor of the server, or NULL
  backlog,    \* clients connected and not accepted, oldest first
  ready,      \* descriptors with an edge that epoll_wait has not returned
  pipe,       \* the signals in the socket pair
  alarm,      \* when SIGALRM is due, or -1
  now,        \* time(NULL)
  \* the clients
  status,     \* "closed", "backlog" or "open", as the server has it
  unread,     \* messages sent and not received
  hungup,     \* the client has closed or reset the connection
  active,     \* when the server last accepted or heard from the client
  \* history
  trouble     \* "late" once time has passed while the server had work to do,
              \* "lost" once the byte of a signal was lost

server == <<list, users, user_data, timeout, stop_server, pc, batch>>
kernel == <<conn, backlog, ready, pipe, alarm, now>>
peers  == <<status, unread, hungup, active>>
vars   == <<server, kernel, peers, trouble>>

Running == pc \in {"wait", "batch"}

Fd(c) == CHOOSE f \in ConnFds : conn[f] = c

Readable(f) ==
  CASE f = listenfd -> backlog # <<>>
    [] f = pipefd0  -> pipe # {}
    [] OTHER        -> unread[conn[f]] > 0 \/ hungup[conn[f]]

Init ==
  /\ list = NewList
  /\ users = [f \in ConnFds |-> NULL]
  /\ user_data = [t \in Timers |-> 0]
  /\ timeout = FALSE
  /\ stop_server = FALSE
  /\ pc = "wait"
  /\ batch = {}
  /\ conn = [f \in ConnFds |-> NULL]
  /\ backlog = <<>>
  /\ ready = {}
  /\ pipe = {}
  /\ alarm = TIMESLOT
  /\ now = 0
  /\ status = [c \in Clients |-> "closed"]
  /\ unread = [c \in Clients |-> 0]
  /\ hungup = [c \in Clients |-> FALSE]
  /\ active = [c \in Clients |-> 0]
  /\ trouble = {}

-----------------------------------------------------------------------------
(* Clients, the clock and signals. *)

Notify(c) == ready' = IF status[c] = "open" THEN ready \cup {Fd(c)} ELSE ready

Connect(c) ==
  /\ Running
  /\ status[c] = "closed"
  /\ status' = [status EXCEPT ![c] = "backlog"]
  /\ backlog' = Append(backlog, c)
  /\ ready' = ready \cup {listenfd}
  /\ UNCHANGED <<server, conn, pipe, alarm, now, unread, hungup, active, trouble>>

Send(c) ==
  /\ Running
  /\ status[c] \in {"backlog", "open"} /\ ~hungup[c]
  /\ unread[c] < MaxUnread
  /\ unread' = [unread EXCEPT ![c] = @ + 1]
  /\ Notify(c)
  /\ UNCHANGED <<server, conn, backlog, pipe, alarm, now, status, hungup, active, trouble>>

\* A close leaves the data sent before it readable, a reset may overtake it.
HangUp(c) ==
  /\ Running
  /\ status[c] \in {"backlog", "open"} /\ ~hungup[c]
  /\ hungup' = [hungup EXCEPT ![c] = TRUE]
  /\ \E n \in {0, unread[c]} : unread' = [unread EXCEPT ![c] = n]
  /\ Notify(c)
  /\ UNCHANGED <<server, conn, backlog, pipe, alarm, now, status, active, trouble>>

\* sig_handler sends one byte, but from the address "(char *)msg", the signal
\* number itself, and not from &msg.  Nothing is mapped at that address, so the
\* kernel refuses the send with EFAULT and the byte is lost: this is what the
\* program does.  With "sent" the byte arrives, as the author intended; only then
\* does the rest of the timer machinery run at all.  A handler that interrupts
\* epoll_wait makes it return EINTR: the for loop runs no iteration, timeout and
\* stop_server are FALSE, and the loop is back in epoll_wait.
Handler(sig) ==
  \/ /\ "EFAULT" \in SendResults
     /\ trouble' = trouble \cup {"lost"}
     /\ UNCHANGED <<pipe, ready>>
  \/ /\ "sent" \in SendResults
     /\ pipe' = pipe \cup {sig}
     /\ ready' = ready \cup {pipefd0}
     /\ UNCHANGED trouble

SigAlrm ==
  /\ Running
  /\ alarm # -1 /\ alarm <= now
  /\ alarm' = -1
  /\ Handler("SIGALRM")
  /\ UNCHANGED <<server, conn, backlog, now, peers>>

SigTerm ==
  /\ Running
  /\ Handler("SIGTERM")
  /\ UNCHANGED <<server, conn, backlog, alarm, now, peers>>

Working == pc = "batch" \/ (\E f \in ready : Readable(f)) \/ (alarm # -1 /\ alarm <= now)

Clock ==
  /\ Running
  /\ now < MaxTime
  /\ now' = now + 1
  /\ trouble' = IF Working THEN trouble \cup {"late"} ELSE trouble
  /\ UNCHANGED <<server, conn, backlog, ready, pipe, alarm, peers>>

-----------------------------------------------------------------------------
(* The main loop. *)

\* epoll_wait returns every edge still readable and forgets it.
EpollWait ==
  /\ pc = "wait"
  /\ batch' = {f \in ready : Readable(f)}
  /\ batch' # {}
  /\ ready' = {}
  /\ pc' = "batch"
  /\ UNCHANGED <<list, users, user_data, timeout, stop_server, conn, backlog, pipe, alarm, now,
                 peers, trouble>>

\* close(): the descriptors in S leave the epoll set and become free.  What the
\* kernel holds for their clients is discarded.
Close(S) ==
  LET gone == {c \in Clients : \E f \in S : conn[f] = c}
  IN  /\ conn' = [f \in ConnFds |-> IF f \in S THEN NULL ELSE conn[f]]
      /\ ready' = ready \ S
      /\ status' = [c \in Clients |-> IF c \in gone THEN "closed" ELSE status[c]]
      /\ unread' = [c \in Clients |-> IF c \in gone THEN 0 ELSE unread[c]]
      /\ hungup' = [c \in Clients |-> hungup[c] /\ c \notin gone]
      /\ active' = [c \in Clients |-> IF c \in gone THEN 0 ELSE active[c]]

\* An event on listenfd: one accept, addfd, and a timer for the connection.
\* accept may fail: the process has no descriptor left, or the machine no file
\* or memory.  Then assert(connfd != -1) aborts.
Accept ==
  /\ pc = "batch"
  /\ listenfd \in batch
  /\ batch' = batch \ {listenfd}
  /\ LET free == {f \in ConnFds : conn[f] = NULL}
         f    == Min(free)
         c    == Head(backlog)
     IN  \/ /\ pc' = "aborted"
            /\ UNCHANGED <<list, users, user_data, conn, backlog, ready, status, active>>
         \/ /\ free # {}
            /\ backlog' = Tail(backlog)
            /\ conn' = [conn EXCEPT ![f] = c]
            /\ status' = [status EXCEPT ![c] = "open"]
            /\ ready' = IF unread[c] > 0 \/ hungup[c] THEN ready \cup {f} ELSE ready
            /\ \E t \in Timers \ list.live :
                 /\ list' = AddTimer(New(list, t, now + 3 * TIMESLOT), t)
                 /\ users' = [users EXCEPT ![f] = t]
                 /\ user_data' = [user_data EXCEPT ![t] = f]
            /\ active' = [active EXCEPT ![c] = now]
            /\ UNCHANGED pc
  /\ UNCHANGED <<timeout, stop_server, pipe, alarm, now, unread, hungup, trouble>>

\* tick() and the callbacks it makes (cb_func), then alarm(TIMESLOT).
RunTimeHandler_NoRearm ==
  /\ list' = TickList(list, now)
  /\ Close({user_data[t] : t \in Expired(list, now)})
  /\ alarm' = alarm

RunTimeHandler ==
  /\ list' = TickList(list, now)
  /\ Close({user_data[t] : t \in Expired(list, now)})
  /\ alarm' = now + TIMESLOT

\* An event on pipefd[0]: one recv empties the pair.
ReadSignals_TickAtOnce ==
  /\ pc = "batch"
  /\ pipefd0 \in batch
  /\ batch' = batch \ {pipefd0}
  /\ pipe' = {}
  /\ IF "SIGALRM" \in pipe THEN RunTimeHandler
     ELSE UNCHANGED <<list, conn, ready, alarm, peers>>
  /\ stop_server' = (stop_server \/ "SIGTERM" \in pipe)
  /\ UNCHANGED <<users, user_data, timeout, pc, backlog, now, trouble>>

ReadSignals ==
  /\ pc = "batch"
  /\ pipefd0 \in batch
  /\ batch' = batch \ {pipefd0}
  /\ pipe' = {}
  /\ timeout' = (timeout \/ "SIGALRM" \in pipe)
  /\ stop_server' = (stop_server \/ "SIGTERM" \in pipe)
  /\ UNCHANGED <<list, users, user_data, pc, conn, backlog, ready, alarm, now, peers,
                 trouble>>

\* An event on a connection: one recv.  Data postpones the timer.
Receive_NoAdjust(f) ==
  /\ pc = "batch"
  /\ f \in batch \cap ConnFds
  /\ unread[conn[f]] > 0
  /\ batch' = batch \ {f}
  /\ \E n \in 1 .. unread[conn[f]] : unread' = [unread EXCEPT ![conn[f]] = @ - n]
  /\ active' = [active EXCEPT ![conn[f]] = now]
  /\ UNCHANGED <<list, users, user_data, timeout, stop_server, pc, kernel, status, hungup, trouble>>

Receive(f) ==
  /\ pc = "batch"
  /\ f \in batch \cap ConnFds
  /\ unread[conn[f]] > 0
  /\ batch' = batch \ {f}
  /\ \E n \in 1 .. unread[conn[f]] : unread' = [unread EXCEPT ![conn[f]] = @ - n]
  /\ active' = [active EXCEPT ![conn[f]] = now]
  /\ list' = AdjustTimer([list EXCEPT !.expire[users[f]] = now + 3 * TIMESLOT], users[f])
  /\ UNCHANGED <<users, user_data, timeout, stop_server, pc, kernel, status, hungup, trouble>>

\* End of file or an error: cb_func closes the connection, del_timer follows.
Drop_KeepTimer(f) ==
  /\ pc = "batch"
  /\ f \in batch \cap ConnFds
  /\ unread[conn[f]] = 0 /\ hungup[conn[f]]
  /\ batch' = batch \ {f}
  /\ Close({f})
  /\ UNCHANGED <<list, users, user_data, timeout, stop_server, pc, backlog, pipe, alarm, now,
                 trouble>>

Drop(f) ==
  /\ pc = "batch"
  /\ f \in batch \cap ConnFds
  /\ unread[conn[f]] = 0 /\ hungup[conn[f]]
  /\ batch' = batch \ {f}
  /\ Close({f})
  /\ list' = DelTimer(list, users[f])
  /\ UNCHANGED <<users, user_data, timeout, stop_server, pc, backlog, pipe, alarm, now,
                 trouble>>

\* The bottom of the loop: pending time events, then back to epoll_wait, or out
\* of the program, which closes every descriptor and destroys timer_list.
EndBatch ==
  /\ pc = "batch"
  /\ batch = {}
  /\ ~stop_server
  /\ IF timeout THEN RunTimeHandler ELSE UNCHANGED <<list, conn, ready, alarm, peers>>
  /\ timeout' = FALSE
  /\ pc' = "wait"
  /\ UNCHANGED <<users, user_data, stop_server, batch, backlog, pipe, now, trouble>>

Exit ==
  /\ pc = "batch"
  /\ batch = {}
  /\ stop_server
  /\ list' = Destroy(IF timeout THEN TickList(list, now) ELSE list)
  /\ Close(ConnFds)
  /\ pc' = "exit"
  /\ UNCHANGED <<users, user_data, timeout, stop_server, batch, backlog, pipe, alarm, now,
                 trouble>>

Server ==
  \/ EpollWait
  \/ Accept
  \/ ReadSignals
  \/ \E f \in ConnFds : Receive(f) \/ Drop(f)
  \/ EndBatch
  \/ Exit

Next ==
  \/ \E c \in Clients : Connect(c) \/ Send(c) \/ HangUp(c)
  \/ SigAlrm \/ SigTerm \/ Clock
  \/ Server

Spec == Init /\ [][Next]_vars

-----------------------------------------------------------------------------

TypeOK ==
  /\ list.live \subseteq Timers
  /\ users \in [ConnFds -> Timers \cup {NULL}]
  /\ user_data \in [Timers -> ConnFds \cup {0}]
  /\ timeout \in BOOLEAN /\ stop_server \in BOOLEAN
  /\ pc \in {"wait", "batch", "exit", "aborted"}
  /\ batch \subseteq {listenfd, pipefd0} \cup ConnFds
  /\ conn \in [ConnFds -> Clients \cup {NULL}]
  /\ backlog \in Seq(Clients)
  /\ ready \subseteq {listenfd, pipefd0} \cup ConnFds
  /\ pipe \subseteq {"SIGALRM", "SIGTERM"}
  /\ alarm \in -1 .. (MaxTime + TIMESLOT) /\ now \in 0 .. MaxTime
  /\ status \in [Clients -> {"closed", "backlog", "open"}]
  /\ unread \in [Clients -> 0 .. MaxUnread]
  /\ hungup \in [Clients -> BOOLEAN]
  /\ active \in [Clients -> 0 .. MaxTime]
  /\ trouble \subseteq {"late", "lost"}

\* The descriptor table, the users array and the timer list agree, although
\* connections are closed by the loop and by the callbacks of tick(), and both
\* descriptors and timer addresses are used again: every open connection has
\* one pending timer, the one users[] holds, and that timer points back to it;
\* no pending timer belongs to a closed connection.
TimerPerConnection ==
  /\ TypeOK
  /\ \A f \in ConnFds : conn[f] # NULL =>
       /\ users[f] \in Linked(list) \cap list.live
       /\ user_data[users[f]] = f
  /\ \A t \in Linked(list) : conn[user_data[t]] # NULL /\ users[user_data[t]] = t

\* An event the loop is about to handle is never stale: its descriptor is open
\* and recv has something to return.  (This is why the "read later" branch,
\* line 155, which would leave the for loop and lose the remaining events of the
\* batch, is not an action of the model: it cannot be taken.)
EventsAreFresh == \A f \in batch \cap ConnFds : conn[f] # NULL /\ Readable(f)

\* A connection that has not hung up is closed only when nothing was heard from
\* it for 3 * TIMESLOT, whatever happened to the timers of the others.
NoEarlyClose ==
  [][\A c \in Clients :
       status[c] = "open" /\ status'[c] = "closed" /\ ~hungup[c] /\ pc' # "exit"
         => now >= active[c] + 3 * TIMESLOT]_vars

\* Nobody stays connected for 4 * TIMESLOT without being heard from: expiry after
\* three slots and up to one slot until the next alarm.
IdleClosed == \A c \in Clients : status[c] = "open" => now < active[c] + 4 * TIMESLOT

\* With a server that keeps up with its events and a handler whose bytes arrive,
\* idle connections are closed in time.  It needs every alarm to be armed again
\* and tick() to stop at no timer that hides an expired one.
IdleConnectionsClose == trouble = {} => IdleClosed

\* The connections of a running server, each with the time of its last sign of
\* life, are the sessions of an abstract service: descriptors, timers, alarms and
\* the pipe are its implementation.
Connected == IF Running THEN {c \in Clients : status[c] = "open"} ELSE {}

Heard == [c \in Connected |-> active[c]]

Departed == IF Running THEN {c \in Clients : hungup[c]} ELSE {}

Service == INSTANCE Sessions
             WITH Limit <- 3 * TIMESLOT, Grace <- TIMESLOT, heard <- Heard,
                  gone <- Departed, strained <- trouble # {}, up <- Running

\* The server offers its clients what Sessions promises: data of one client renews
\* its own session and no other; a session that is ended belongs to a client that
\* left or was silent for three slots, also when one tick ends several; and while
\* the server keeps up, no silence lasts four slots.
ImplementsSessions == Service!Spec

\* The same without the second condition, which is what alarm_keeplive.cpp:8
\* says: the handler uses the pipe to make the main loop close idle connections.
HandlerClosesIdle == "late" \notin trouble => IdleClosed

\* What epoll_LT_ET_servertest.cpp:65 asks of a user of edge-triggered epoll: a
\* connection with something left to read has an event that will make the server
\* read it.
UnreadHasEvent ==
  \A f \in ConnFds : conn[f] # NULL /\ Readable(f) => f \in ready \cup batch

=============================================================================
