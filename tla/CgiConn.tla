------------------------------ MODULE CgiConn -------------------------------
(***************************************************************************)
(* One connection of unp/high_performance/CGI_server.cpp.  A worker of the *)
(* process pool (not in the repository) calls process() when the           *)
(* connection has an event.  process() reads until it has a line, which is *)
(* the name of the program to run, and calls recv again whenever there is  *)
(* nothing to read: while it waits, the worker serves nobody else.         *)
(*                                                                         *)
(* A byte is CR, LF or something else.  Operators named Operation_Slip are *)
(* mistakes that show what the properties notice.                          *)
(***************************************************************************)
EXTENDS Integers, Sequences, FiniteSetsExt

CONSTANTS Streams,      \* what a client may send, in the end
          BUFFER_SIZE

VARIABLES
  stream,      \* all that this client will send
  arrived,     \* how much of it the kernel has received
  peer,        \* "up", "fin" or "rst"
  process,     \* "idle", "loop" or "returned"
  m_read_idx,  \* bytes in m_buff: the first of the stream
  removed,     \* removefd has closed the connection
  file_name,   \* the line found, or <<>>
  child        \* the child has replaced itself by the program

vars == <<stream, arrived, peer, process, m_read_idx, removed, file_name, child>>

CgiInit ==
  /\ stream \in Streams
  /\ arrived = 0
  /\ peer = "up"
  /\ process = "idle"
  /\ m_read_idx = 0
  /\ removed = FALSE
  /\ file_name = <<>>
  /\ child = FALSE

Arrive ==
  /\ peer = "up"
  /\ arrived' \in arrived + 1 .. Len(stream)
  /\ UNCHANGED <<stream, peer, process, m_read_idx, removed, file_name, child>>

Leave ==
  /\ peer = "up"
  /\ peer' \in {"fin", "rst"}
  /\ UNCHANGED <<stream, arrived, process, m_read_idx, removed, file_name, child>>

-----------------------------------------------------------------------------

Call ==
  /\ process = "idle"
  /\ arrived > 0 \/ peer # "up"
  /\ process' = "loop"
  /\ UNCHANGED <<stream, arrived, peer, m_read_idx, removed, file_name, child>>

\* The length passed to recv.
Room == BUFFER_SIZE - 1 - m_read_idx

\* recv returns -1.  EAGAIN changes nothing: the loop calls recv again.  After
\* an error the connection is closed, but the loop goes on as well, on a closed
\* descriptor, and is never left.
RecvError ==
  /\ process = "loop" /\ peer = "rst"
  /\ removed' = TRUE
  /\ UNCHANGED <<stream, arrived, peer, process, m_read_idx, file_name, child>>

\* recv returns 0 at the end of the stream, and when it is given no room.
RecvNone_NoBreak ==
  /\ process = "loop" /\ ~removed
  /\ Room = 0 \/ (peer = "fin" /\ m_read_idx = arrived)
  /\ removed' = TRUE
  /\ UNCHANGED <<stream, arrived, peer, process, m_read_idx, file_name, child>>

RecvNone ==
  /\ process = "loop" /\ ~removed
  /\ Room = 0 \/ (peer = "fin" /\ m_read_idx = arrived)
  /\ removed' = TRUE
  /\ process' = "returned"
  /\ UNCHANGED <<stream, arrived, peer, m_read_idx, file_name, child>>

\* The indexes idx of an LF behind a CR, as the loop on line 54 looks for them: it
\* starts with the first new byte and may look back to the last old one.
LineEnds_NewOnly(from, to) ==
  {idx \in from + 1 .. to - 1 : stream[idx] = "CR" /\ stream[idx + 1] = "LF"}
LineEnds(from, to) ==
  {idx \in from .. to - 1 : idx >= 1 /\ stream[idx] = "CR" /\ stream[idx + 1] = "LF"}

\* recv returns n bytes without a line: read on.
RecvMore ==
  /\ process = "loop" /\ ~removed
  /\ \E n \in 1 .. Min({Room, arrived - m_read_idx}) :
       /\ LineEnds(m_read_idx, m_read_idx + n) = {}
       /\ m_read_idx' = m_read_idx + n
  /\ UNCHANGED <<stream, arrived, peer, process, removed, file_name, child>>

\* recv returns n bytes that complete a line.  Whether access fails (it does
\* for an empty name), fork fails or a child runs the program, the worker closes
\* the connection and returns.
RecvLine ==
  /\ process = "loop" /\ ~removed
  /\ \E n \in 1 .. Min({Room, arrived - m_read_idx}) :
       LET ends == LineEnds(m_read_idx, m_read_idx + n)
       IN  /\ ends # {}
           /\ m_read_idx' = m_read_idx + n
           /\ file_name' = SubSeq(stream, 1, Min(ends) - 1)
  /\ child' \in {FALSE, file_name' # <<>>}
  /\ removed' = TRUE
  /\ process' = "returned"
  /\ UNCHANGED <<stream, arrived, peer>>

Worker == Call \/ RecvError \/ RecvNone \/ RecvMore \/ RecvLine

CgiNext == Arrive \/ Leave \/ Worker

CgiSpec == CgiInit /\ [][CgiNext]_vars

CgiFair == WF_vars(Worker)

-----------------------------------------------------------------------------

\* The first line of what a client sends, without buffers or pieces.
FirstLine(s) ==
  LET ends == {i \in 1 .. Len(s) - 1 : s[i] = "CR" /\ s[i + 1] = "LF"}
  IN  IF ends = {} THEN s ELSE SubSeq(s, 1, Min(ends) - 1)

HasLine(s) == FirstLine(s) # s

\* CGI_server.cpp:54: however the line is cut into pieces, between CR and LF too,
\* what is looked up and run is the first line and nothing but the first line; a
\* connection that is closed without one had none within the buffer, or was reset.
RunsFirstLine ==
  process = "returned" =>
    LET kept == SubSeq(stream, 1, m_read_idx)
    IN  IF HasLine(kept) THEN file_name = FirstLine(stream)
        ELSE file_name = <<>> /\ ~child /\ (Room = 0 \/ peer # "up")

\* The client has given the worker a reason to stop reading.
ReasonToReturn ==
  \/ HasLine(SubSeq(stream, 1, arrived))
  \/ arrived >= BUFFER_SIZE - 1
  \/ peer = "fin"

\* CGI_server.cpp:42 and 49: the worker comes back from a client that has sent a
\* line, has filled the buffer or has closed its side, in however many pieces it
\* did; only a reset keeps it.
WorkerReturns == ReasonToReturn ~> (process = "returned" \/ peer = "rst")

=============================================================================
