--------------------------- MODULE MCConnections ----------------------------
(***************************************************************************)
(* What servers do with connections, for TLC: the HTTP parser, the CGI     *)
(* worker and the epoll servers.  A behaviour is one of one of them, which *)
(* system names; the state of the others never changes.                    *)
(***************************************************************************)
EXTENDS HttpParse

CONSTANTS CgiStreams, CgiRoom,   \* for the CGI worker, whose buffer takes CgiRoom bytes
          Clients, Askers, NULL, MaxFd, SendResults, MaxSay, MaxMail

ASSUME ConnectionsAssumption ==
  /\ CgiRoom \in Nat /\ CgiStreams \subseteq Seq({"CR", "LF", "x"})
  /\ NULL \notin Clients \cup Askers /\ Askers # {}
  /\ MaxFd \in Nat /\ NULL \notin 7 .. MaxFd
  /\ MaxSay \in Nat /\ MaxMail \in Nat \ {0}

VARIABLES
  system,
  line, arrived, sender, process, m_read_idx, removed, file_name, child,
  program, limit, at, batch, sockfd, conn, backlog, ready, peer, unread,
  datagrams, waiting, pipe, stop_server, mail

\* Request lines good and bad, headers and line ends of every kind, in every
\* combination.
MCBytes == {"GET", "POST", " ", "TAB", "/", "x", "HTTP/1.1", "HTTP/1.0", "CR", "LF", "NUL"}

RequestLines ==
  {<<>>, <<"GET">>, <<"POST", " ", "/", " ", "HTTP/1.1">>,
   <<"GET", " ", "/", " ", "HTTP/1.1">>, <<"GET", "TAB", "TAB", "/", "TAB", " ", "HTTP/1.1">>,
   <<"GET", " ", "x", " ", "HTTP/1.1">>, <<"GET", " ", " ", "/", " ", "HTTP/1.1">>,
   <<"GET", " ", "x", "x", "/", " ", "HTTP/1.0">>, <<"GET", " ", "/", " ", "HTTP/1.0">>,
   <<"GET", " ", "x", "x", " ">>}

Eols == {<<"CR", "LF">>, <<"CR">>, <<"LF">>, <<"CR", "CR", "LF">>}

Headers == {<<>>, <<"x">>}

\* Request lines with NUL behind the version and in every earlier place, and headers
\* that start with it or have it inside.
NulRequestLines ==
  {<<"GET", " ", "/", " ", "HTTP/1.1">>, <<"GET", " ", "/", " ", "HTTP/1.1", "NUL", "x">>,
   <<"GET", " ", "x", "x", "/", " ", "NUL">>, <<"GET", " ", "/", "NUL", " ", "HTTP/1.1">>,
   <<"GET", " ", "NUL", "/", " ", "HTTP/1.1">>, <<"GET", "NUL", " ", "/", " ", "HTTP/1.1">>,
   <<"NUL">>}

NulHeaders == {<<"NUL">>, <<"NUL", "x">>, <<"x", "NUL">>}

Beginnings ==
  {l \o e \o h : l \in RequestLines, e \in Eols, h \in Headers}
  \cup {l \o <<"CR", "LF">> \o h : l \in NulRequestLines, h \in NulHeaders \cup Headers}

MCStreams == {b \o e \o <<"CR", "LF">> : b \in Beginnings, e \in Eols}

\* For the CGI worker: every stream of up to one byte more than the buffer takes.
MCCgiStreams == UNION {[1 .. n -> {"CR", "LF", "x"}] : n \in 0 .. CgiRoom + 1}

Cgi   == INSTANCE CgiConn WITH Streams <- CgiStreams, BUFFER_SIZE <- CgiRoom + 1,
                               stream <- line, peer <- sender
Epoll == INSTANCE EpollServers WITH pc <- at

cgiVars   == <<line, arrived, sender, process, m_read_idx, removed, file_name, child>>
epollVars == <<program, limit, at, batch, sockfd, conn, backlog, ready, peer, unread,
               datagrams, waiting, pipe, stop_server, mail>>

MCInit ==
  /\ system \in {"http", "cgi", "epoll"}
  /\ Init /\ (system # "http" => stream = <<"LF", "LF", "CR", "LF">>)
  /\ Cgi!CgiInit /\ (system # "cgi" => line = <<>>)
  /\ Epoll!Init /\ (system # "epoll" => program = "sig" /\ limit = MaxFd)

\* Clients of the epoll servers, which are numbers here, connect in their order:
\* no loss, since they are all alike.
InOrder == \A c, d \in Clients : c < d /\ peer'[d] # "out" => peer'[c] # "out"

MCNext ==
  \/ system = "http"  /\ Next           /\ UNCHANGED <<system, cgiVars, epollVars>>
  \/ system = "cgi"   /\ Cgi!CgiNext    /\ UNCHANGED <<system, vars, epollVars>>
  \/ system = "epoll" /\ Epoll!Next /\ InOrder /\ UNCHANGED <<system, vars, cgiVars>>

MCSpec ==
  /\ MCInit /\ [][MCNext]_<<system, vars, cgiVars, epollVars>>
  /\ Cgi!CgiFair /\ Epoll!Fairness

RunsFirstLine        == Cgi!RunsFirstLine
WorkerReturns        == Cgi!WorkerReturns
UnreadHasEvent       == Epoll!UnreadHasEvent
AbortsOnlyWithoutFds == Epoll!AbortsOnlyWithoutFds
SomeAskerIsServed    == Epoll!SomeAskerIsServed
StopsWhenTold        == Epoll!StopsWhenTold

=============================================================================
