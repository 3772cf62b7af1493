------------------------------ MODULE HttpParse ------------------------------
(***************************************************************************)
(* The request parser of unp/high_performance/http_parse.cpp and the main  *)
(* loop around it: recv appends whatever has arrived to one buffer, and    *)
(* parse_content goes on where it stopped, cutting the buffer into lines   *)
(* (parse_line) and looking at the request line and then at the headers.   *)
(* TCP may cut the request anywhere.                                       *)
(*                                                                         *)
(* A byte is a symbol; the words the code compares with stand for          *)
(* themselves and count as one byte, so Skip, the distance of "url += 7",  *)
(* is counted in symbols too.  Parsing writes NUL over line ends and over  *)
(* the blanks of the request line, as the code does; a client may send NUL *)
(* as well.                                                                *)
(*                                                                         *)
(* Operators named Operation_Slip are not part of the code: they are       *)
(* mistakes that show what the properties notice.                          *)
(***************************************************************************)
EXTENDS Integers, Sequences, FiniteSetsExt

CONSTANTS Streams,      \* what a client may send before it closes
          Bytes,        \* the symbols streams are made of
          BUFFER_SIZE,
          Skip          \* how far the code moves url for other versions

Blank == {" ", "TAB"}
WithSlash == {"/", "HTTP/1.1", "HTTP/1.0"}

ASSUME HttpParseAssumption ==
  /\ Streams \subseteq Seq(Bytes)
  /\ BUFFER_SIZE \in Nat \ {0} /\ Skip \in Nat

VARIABLES
  stream,      \* what this client sends
  buffer, read_index, checked_index, start_line, checkstate,
  pc,          \* "recv", "parse" in parse_content, or "done"
  result       \* "none" so far; "GET_REQUEST" and "BAD_REQUEST" are answered,
               \* "closed" and "failed" only end the connection

vars == <<stream, buffer, read_index, checked_index, start_line, checkstate, pc, result>>

Indexes == 0 .. (BUFFER_SIZE - 1)

Init ==
  /\ stream \in Streams
  /\ buffer = [i \in Indexes |-> "NUL"]
  /\ read_index = 0 /\ checked_index = 0 /\ start_line = 0
  /\ checkstate = "REQUESTLINE"
  /\ pc = "recv"
  /\ result = "none"

Finish(r) == pc' = "done" /\ result' = r

-----------------------------------------------------------------------------
(* recv *)

\* How much of the stream fits the buffer.
Room == Min({BUFFER_SIZE, Len(stream)})

Receive ==
  /\ pc = "recv"
  /\ \E n \in 1 .. (Room - read_index) :
       /\ buffer' = [i \in Indexes |-> IF i \in read_index .. (read_index + n - 1)
                                       THEN stream[i + 1] ELSE buffer[i]]
       /\ read_index' = read_index + n
  /\ pc' = "parse"
  /\ UNCHANGED <<stream, checked_index, start_line, checkstate, result>>

\* recv returns 0: the client has closed, or there is no room left in the
\* buffer, which the code does not tell apart.
ReceiveNothing ==
  /\ pc = "recv"
  /\ read_index = Room
  /\ Finish("closed")
  /\ UNCHANGED <<stream, buffer, read_index, checked_index, start_line, checkstate>>

ReceiveFails ==
  /\ pc = "recv"
  /\ Finish("failed")
  /\ UNCHANGED <<stream, buffer, read_index, checked_index, start_line, checkstate>>

-----------------------------------------------------------------------------
(* parse_line: where it stops, and what it says.                           *)

\* The first line-end character not looked at yet, read_index if there is none.
Stop == Min({read_index} \cup {i \in checked_index .. (read_index - 1) :
                                 buffer[i] \in {"CR", "LF"}})

\* A CR at the end of what has arrived may still be followed by LF.
Open_NotAtCr == Stop = read_index

Open == Stop = read_index \/ (Stop + 1 = read_index /\ buffer[Stop] = "CR")

\* The position of the CR of a complete line, if there is one: where the loop
\* stops, or one before if it stops at LF (unless that is byte 1).
LineEnd ==
  {cr \in {Stop - 1, Stop} \cap Nat :
     /\ cr + 1 < read_index
     /\ buffer[cr] = "CR" /\ buffer[cr + 1] = "LF"
     /\ cr = Stop \/ Stop > 1}

-----------------------------------------------------------------------------
(* parse_requestline on the line at temp in buf, a buffer whose line ends  *)
(* are NUL already.  Every search ends at a NUL.                           *)

EndOf(buf, p) == Min({BUFFER_SIZE} \cup {i \in p .. (BUFFER_SIZE - 1) : buf[i] = "NUL"})

\* The first of the characters in S from p on, or -1.
FirstOf(buf, p, S) ==
  LET at == {i \in p .. (EndOf(buf, p) - 1) : buf[i] \in S}
  IN  IF at = {} THEN -1 ELSE Min(at)

\* The first character from p on that is not in S.
PastAll(buf, p, S) == Min({EndOf(buf, p)} \cup {i \in p .. (EndOf(buf, p) - 1) : buf[i] \notin S})

Text(buf, p) == [k \in 1 .. (EndOf(buf, p) - p) |-> buf[p + k - 1]]

Cut(buf, p) == [buf EXCEPT ![p] = "NUL"]

\* Whether the url at position url is accepted.  For a version other than
\* HTTP/1.1 url is moved on without regard to where its text ends; a search that
\* leaves the buffer may find anything.
UrlAccepted(buf, url, version) ==
  IF Text(buf, version) = <<"HTTP/1.1">>
  THEN {EndOf(buf, url) > url /\ buf[url] = "/"}
  ELSE IF FirstOf(buf, url + Skip, WithSlash) # -1 THEN {TRUE}
  ELSE IF EndOf(buf, url + Skip) = BUFFER_SIZE THEN BOOLEAN
  ELSE {FALSE}

\* The possible answers and what the buffer has become.
RequestLine(buf, temp) ==
  LET url1    == FirstOf(buf, temp, Blank)
      buf1    == Cut(buf, url1)
      url     == PastAll(buf1, url1 + 1, {"TAB"})
      ver1    == FirstOf(buf1, url, Blank)
      buf2    == Cut(buf1, ver1)
      version == PastAll(buf2, ver1 + 1, Blank)
  IN  IF url1 = -1 THEN [ok |-> {FALSE}, buf |-> buf]
      ELSE IF Text(buf1, temp) # <<"GET">> \/ ver1 = -1 THEN [ok |-> {FALSE}, buf |-> buf1]
      ELSE [ok |-> UrlAccepted(buf2, url, version), buf |-> buf2]

-----------------------------------------------------------------------------
(* parse_content: one iteration of its loop each.                          *)

LineOpen ==
  /\ pc = "parse"
  /\ Open
  /\ checked_index' = Stop
  /\ pc' = "recv"
  /\ UNCHANGED <<stream, buffer, read_index, start_line, checkstate, result>>

LineBad ==
  /\ pc = "parse"
  /\ ~Open /\ LineEnd = {}
  /\ checked_index' = Stop
  /\ Finish("BAD_REQUEST")
  /\ UNCHANGED <<stream, buffer, read_index, start_line, checkstate>>

\* A line is complete: its end becomes NUL NUL and the next line starts behind it.
Ended(cr) == Cut(Cut(buffer, cr), cr + 1)

LineOk_KeepStart(cr) ==
  /\ checked_index' = cr + 2
  /\ UNCHANGED <<stream, read_index, start_line>>

LineOk(cr) ==
  /\ checked_index' = cr + 2
  /\ start_line' = cr + 2
  /\ UNCHANGED <<stream, read_index>>

LineOkRequest ==
  /\ pc = "parse" /\ checkstate = "REQUESTLINE"
  /\ \E cr \in LineEnd :
       LET line == RequestLine(Ended(cr), start_line)
       IN  /\ LineOk(cr)
           /\ buffer' = line.buf
           /\ \/ TRUE \in line.ok /\ checkstate' = "HEADER" /\ UNCHANGED <<pc, result>>
              \/ FALSE \in line.ok /\ Finish("BAD_REQUEST") /\ UNCHANGED checkstate

LineOkHeader ==
  /\ pc = "parse" /\ checkstate = "HEADER"
  /\ \E cr \in LineEnd :
       /\ LineOk(cr)
       /\ buffer' = Ended(cr)
       /\ IF Ended(cr)[start_line] = "NUL" THEN Finish("GET_REQUEST") ELSE UNCHANGED <<pc, result>>
       /\ UNCHANGED checkstate

Server ==
  \/ Receive \/ ReceiveNothing \/ ReceiveFails
  \/ LineOpen \/ LineBad \/ LineOkRequest \/ LineOkHeader

Next == Server

Spec == Init /\ [][Next]_vars

-----------------------------------------------------------------------------
(* The reference: what a stream as a whole deserves, said without a buffer *)
(* and without the order in which things are looked at.  A line is a C     *)
(* string: what follows a NUL in it is not looked at.                      *)

LineEnds(s) == {i \in 1 .. (Len(s) - 1) : s[i] = "CR" /\ s[i + 1] = "LF"}

\* Half a line end: CR that something else follows, or LF on its own.
Stray(s) ==
  {i \in DOMAIN s : \/ s[i] = "CR" /\ i < Len(s) /\ s[i + 1] # "LF"
                    \/ s[i] = "LF" /\ (i = 1 \/ s[i - 1] # "CR")}

UrlStart(line) == Min({Len(line) + 1} \cup {i \in 3 .. Len(line) : line[i] # "TAB"})

UrlStop(line) == Min({i \in UrlStart(line) .. Len(line) : line[i] \in Blank})

\* A request line is read as GET, a blank, tabs, a url without blanks, blanks
\* and a version; nothing but blanks may be between them.
ReadsAsGet(line) ==
  /\ Len(line) > 1 /\ line[1] = "GET" /\ line[2] \in Blank
  /\ \E v \in UrlStart(line) .. Len(line) : line[v] \in Blank

Url(line) == SubSeq(line, UrlStart(line), UrlStop(line) - 1)

Version(line) ==
  LET from == Min({Len(line) + 1} \cup {i \in UrlStop(line) .. Len(line) : line[i] \notin Blank})
  IN  SubSeq(line, from, Len(line))

\* A path for HTTP/1.1; for other versions a url with a slash after its scheme.
GoodRequestLine(line) ==
  /\ ReadsAsGet(line)
  /\ IF Version(line) = <<"HTTP/1.1">> THEN Url(line) # <<>> /\ Url(line)[1] = "/"
     ELSE \E i \in (Skip + 1) .. Len(Url(line)) : Url(line)[i] \in WithSlash

\* What a C string shows of a line.
Seen(line) == SubSeq(line, 1, Min({Len(line) + 1} \cup {i \in DOMAIN line : line[i] = "NUL"}) - 1)

FirstLine(s) == Seen(SubSeq(s, 1, Min(LineEnds(s)) - 1))

\* Where a stream turns out to be wrong, and where a request is complete.
WrongAt(s) ==
  Stray(s) \cup (IF LineEnds(s) = {} \/ GoodRequestLine(FirstLine(s)) THEN {} ELSE {Min(LineEnds(s))})

\* At the end of a line, other than the first, that shows nothing.
CompleteAt(s) ==
  LET ends == LineEnds(s)
  IN  {e \in ends : \E p \in ends : /\ p < e /\ \A q \in ends : q <= p \/ q >= e
                                    /\ p + 2 = e \/ s[p + 2] = "NUL"}

Verdict(s) ==
  LET at == WrongAt(s) \cup CompleteAt(s)
  IN  IF at = {} THEN "NO_REQUEST"
      ELSE IF Min(at) \in WrongAt(s) THEN "BAD_REQUEST" ELSE "GET_REQUEST"

\* Line 84 moves url past the end of its text when the version is not HTTP/1.1
\* and the url is short; what is found there depends on what has arrived.
Overreads(s) ==
  LET line == FirstLine(s)
  IN  LineEnds(s) # {} /\ ReadsAsGet(line) /\ Version(line) # <<"HTTP/1.1">> /\ Len(Url(line)) < Skip

Received == SubSeq(stream, 1, read_index)

-----------------------------------------------------------------------------

TypeOK ==
  /\ stream \in Streams
  /\ buffer \in [Indexes -> Bytes \cup {"NUL"}]
  /\ read_index \in 0 .. BUFFER_SIZE
  /\ checked_index \in 0 .. read_index
  /\ start_line \in 0 .. checked_index
  /\ checkstate \in {"REQUESTLINE", "HEADER"}
  /\ pc \in {"recv", "parse", "done"}
  /\ result \in {"none", "GET_REQUEST", "BAD_REQUEST", "closed", "failed"}

\* However TCP cuts the stream (http_parse.cpp:38), the answer is the one the
\* whole stream deserves, whatever bytes it is made of, and a request is dropped
\* without an answer only if it does not fit the buffer (line 174).
AnswerIsVerdict ==
  /\ TypeOK
  /\ ~Overreads(stream) =>
       /\ result \in {"GET_REQUEST", "BAD_REQUEST"} => result = Verdict(stream)
       /\ result = "closed" => Verdict(stream) = "NO_REQUEST" \/ Len(stream) > BUFFER_SIZE

\* The parser never waits for more when what it has received is enough for an
\* answer; so it does not depend on anything sent after the request.
WaitsOnlyIfOpen ==
  pc = "recv" /\ ~Overreads(stream) => Verdict(Received) = "NO_REQUEST"

\* http_parse.cpp:17 and 96: GET_REQUEST means that the whole request is there,
\* which an empty line shows.  It does not hold: line 97 compares the first byte
\* of a header with NUL, which parse_line writes at the end of an empty line, but
\* which may also be the first byte of a line that is not empty.
RequestHasEmptyLine ==
  result = "GET_REQUEST" => \E e \in LineEnds(Received) : e - 2 \in LineEnds(Received)

=============================================================================
