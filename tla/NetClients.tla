----------------------------- MODULE NetClients -----------------------------
(***************************************************************************)
(* Two clients that watch the keyboard and a connection at once:           *)
(*   "select"  unp/selectclient_test.c, str_cli, talking to an echo server *)
(*   "chat"    unp/high_performance/epoll_chatroom_client.cpp, to a server *)
(*             that sends what others have said; edge-triggered            *)
(* Lines and chunks are counted.                                           *)
(*                                                                         *)
(* Operators named Operation_Slip are mistakes that show what the          *)
(* properties notice.                                                      *)
(***************************************************************************)
EXTENDS Integers

CONSTANT MaxLines   \* bound: lines typed, chunks a chat server sends

VARIABLES
  client,    \* "select" or "chat"
  at,        \* "wait" in select or epoll_wait, "events", "recv" in the loop of
             \* the chat client; "returned", "quit" by err_quit, "stopped" by an
             \* error of epoll_wait, "killed" by SIGPIPE
  events,    \* what rset or the batch still holds: "sock", "stdin"
  edges,     \* edges epoll_wait has not returned
  stdineof,  \* the select client has read end of file and shut its side down
  closed,    \* the chat client has closed its socket
  typed,     \* lines typed
  keyed,     \* lines typed and not read
  keyend,    \* end of file was typed
  inflight,  \* lines sent to the server and not echoed
  inbox,     \* chunks from the server, not read
  heard,     \* chunks from the server, read and printed
  peer,      \* the server's end: "up", "fin", "rst", or "dead" once the client
             \* was told of the reset
  crashed    \* the server has ended without being asked to

ours == <<client, at, events, stdineof, closed>>
keyboard == <<typed, keyed, keyend>>
net == <<inflight, inbox, heard, peer, crashed>>
clientVars == <<ours, edges, keyboard, net>>

Ended == at \in {"returned", "quit", "stopped", "killed"}

ClientInit ==
  /\ client \in {"select", "chat"}
  /\ at = "wait" /\ events = {} /\ edges = {}
  /\ stdineof = FALSE /\ closed = FALSE
  /\ typed = 0 /\ keyed = 0 /\ keyend = FALSE
  /\ inflight = 0 /\ inbox = 0 /\ heard = 0
  /\ peer = "up" /\ crashed = FALSE

-----------------------------------------------------------------------------
(* The user and the server. *)

TypeLine ==
  /\ ~keyend /\ typed < MaxLines
  /\ typed' = typed + 1 /\ keyed' = keyed + 1
  /\ edges' = edges \cup {"stdin"}
  /\ UNCHANGED <<ours, keyend, net>>

TypeEnd ==
  /\ ~keyend
  /\ keyend' = TRUE
  /\ edges' = edges \cup {"stdin"}
  /\ UNCHANGED <<ours, typed, keyed, net>>

Arrives(n) == inbox' = inbox + n /\ edges' = edges \cup {"sock"}

Echo ==
  /\ client = "select" /\ peer = "up"
  /\ \E n \in 1 .. inflight : inflight' = inflight - n /\ Arrives(n)
  /\ UNCHANGED <<ours, keyboard, heard, peer, crashed>>

OthersSay ==
  /\ client = "chat" /\ peer = "up" /\ inbox + heard < MaxLines
  /\ Arrives(1)
  /\ UNCHANGED <<ours, keyboard, inflight, heard, peer, crashed>>

\* An echo server closes when it has echoed everything up to the client's end of
\* file.  Any server may end earlier.
ServerEnds ==
  /\ peer = "up"
  /\ peer' = "fin"
  /\ crashed' = ~(stdineof /\ inflight = 0)
  /\ Arrives(0)
  /\ UNCHANGED <<ours, keyboard, inflight, heard>>

-----------------------------------------------------------------------------
(* What both clients do. *)

Readable == (IF inbox > 0 \/ peer # "up" THEN {"sock"} ELSE {})
              \cup (IF keyed > 0 \/ keyend THEN {"stdin"} ELSE {})

\* A send to a server that has gone provokes a reset, a send after it SIGPIPE.
\* n lines go on, "next" is where the client goes.
SendLines(n, next) ==
  /\ inflight' = IF closed THEN inflight ELSE inflight + n
  /\ IF ~closed /\ peer = "fin" /\ n > 0 THEN peer' = "rst" /\ edges' = edges \cup {"sock"}
     ELSE UNCHANGED <<peer, edges>>
  /\ at' = IF ~closed /\ peer \in {"rst", "dead"} THEN "killed" ELSE next
  /\ UNCHANGED <<inbox, heard, crashed>>

ReadChunks ==
  /\ \E n \in 1 .. inbox : inbox' = inbox - n /\ heard' = heard + n
  /\ UNCHANGED <<inflight, peer, crashed>>

Done ==
  /\ at = "events" /\ events = {}
  /\ at' = "wait"
  /\ UNCHANGED <<client, events, edges, stdineof, closed, keyboard, net>>

-----------------------------------------------------------------------------
(* str_cli: the socket first, then the keyboard. *)

Select ==
  /\ client = "select" /\ at = "wait"
  /\ events' = Readable \ (IF stdineof THEN {"stdin"} ELSE {}) /\ events' # {}
  /\ at' = "events"
  /\ UNCHANGED <<client, edges, stdineof, closed, keyboard, net>>

\* Data is printed.  An error is treated like data of length -1, which write
\* refuses.  End of file is the end: the expected one after the client's own.
SelectSock ==
  /\ client = "select" /\ at = "events" /\ "sock" \in events
  /\ events' = events \ {"sock"}
  /\ \/ ReadChunks /\ UNCHANGED at
     \/ /\ inbox = 0 /\ peer = "rst"
        /\ peer' = "dead"
        /\ UNCHANGED <<at, inflight, inbox, heard, crashed>>
     \/ /\ inbox = 0 /\ peer # "up"
        /\ at' = IF stdineof THEN "returned" ELSE "quit"
        /\ UNCHANGED net
  /\ UNCHANGED <<client, edges, stdineof, closed, keyboard>>

SelectStdin ==
  /\ client = "select" /\ at = "events" /\ events = {"stdin"} /\ keyed > 0
  /\ events' = {}
  /\ \E n \in 1 .. keyed : keyed' = keyed - n /\ SendLines(n, "events")
  /\ UNCHANGED <<client, stdineof, closed, typed, keyend>>

\* shutdown(sockfd, SHUT_WR): the client goes on reading.
SelectStdinEnd_Return ==
  /\ client = "select" /\ at = "events" /\ events = {"stdin"} /\ keyed = 0
  /\ events' = {}
  /\ stdineof' = TRUE
  /\ at' = "returned"
  /\ UNCHANGED <<client, edges, closed, keyboard, net>>

SelectStdinEnd ==
  /\ client = "select" /\ at = "events" /\ events = {"stdin"} /\ keyed = 0
  /\ events' = {}
  /\ stdineof' = TRUE
  /\ UNCHANGED <<client, at, edges, closed, keyboard, net>>

-----------------------------------------------------------------------------
(* The chat client: events in any order, the socket until EAGAIN. *)

EpollWait ==
  /\ client = "chat" /\ at = "wait"
  /\ events' = (edges \cap Readable) \ (IF closed THEN {"sock"} ELSE {}) /\ events' # {}
  /\ edges' = {}
  /\ at' = "events"
  /\ UNCHANGED <<client, stdineof, closed, keyboard, net>>

Resumed ==
  /\ client = "chat" /\ at = "wait"
  /\ at' = "stopped"
  /\ UNCHANGED <<client, events, edges, stdineof, closed, keyboard, net>>

\* One read per edge; a terminal returns one line, a pipe may return several.
\* At the end of file read returns 0 and nothing is sent.  Sends on the closed
\* socket fail.
ChatStdin ==
  /\ client = "chat" /\ at = "events" /\ "stdin" \in events
  /\ events' = events \ {"stdin"}
  /\ \E n \in 0 .. keyed :
       /\ n > 0 \/ keyed = 0
       /\ keyed' = keyed - n
       /\ SendLines(n, "events")
  /\ UNCHANGED <<client, stdineof, closed, typed, keyend>>

ChatSock ==
  /\ client = "chat" /\ at = "events" /\ "sock" \in events
  /\ events' = events \ {"sock"}
  /\ at' = "recv"
  /\ UNCHANGED <<client, edges, stdineof, closed, keyboard, net>>

\* Where the loop goes after a recv that has returned data.
AfterData_Leave == "events"
AfterData == "recv"

ChatRecv ==
  /\ client = "chat" /\ at = "recv" /\ ~closed /\ inbox > 0
  /\ ReadChunks
  /\ at' = AfterData
  /\ UNCHANGED <<client, events, edges, stdineof, closed, keyboard>>

\* After 0 the loop closes the socket and calls recv again, which fails with
\* EBADF; after an error it closes the socket and leaves.  A reset behind the end
\* of file may be told as either.
ChatEnd ==
  /\ client = "chat" /\ at = "recv" /\ ~closed /\ inbox = 0 /\ peer # "up"
  /\ closed' = TRUE
  /\ at' \in {"recv"} \cup (IF peer = "fin" THEN {} ELSE {"events"})
  /\ UNCHANGED <<client, events, edges, stdineof, keyboard, net>>

ChatNothing ==
  /\ client = "chat" /\ at = "recv" /\ (closed \/ (inbox = 0 /\ peer = "up"))
  /\ at' = "events"
  /\ UNCHANGED <<client, events, edges, stdineof, closed, keyboard, net>>

Client ==
  \/ Done \/ Select \/ SelectSock \/ SelectStdin \/ SelectStdinEnd
  \/ EpollWait \/ ChatStdin \/ ChatSock \/ ChatRecv \/ ChatEnd \/ ChatNothing

ClientNext == TypeLine \/ TypeEnd \/ Echo \/ OthersSay \/ ServerEnds \/ Resumed \/ Client

ClientSpec == ClientInit /\ [][ClientNext]_clientVars

\* A client that can run is scheduled.
ClientFair == WF_clientVars(Client)

-----------------------------------------------------------------------------

\* selectclient_test.c:21 and 34: when str_cli returns normally, everything that
\* was typed has come back and was printed, in however many pieces and however
\* late, unless the server ended without being asked to.
ReturnsComplete ==
  at = "returned" /\ ~crashed => keyend /\ keyed = 0 /\ inflight = 0 /\ heard = typed

\* selectclient_test.c:19 and epoll_chatroom_client.cpp:51: what the server has
\* sent is printed, and the end of the connection is noticed, unless the client
\* has ended.
ServerIsHeard ==
  inbox > 0 \/ peer # "up" ~> Ended \/ (inbox = 0 /\ (peer = "up" \/ closed))

=============================================================================
