---------------------------- MODULE MCProcesses -----------------------------
(***************************************************************************)
(* The small programs made of processes or threads, for TLC.  A behaviour  *)
(* is one of one of them; the state of the others never changes.           *)
(***************************************************************************)
EXTENDS EchoServer, PipeUpper, SharedCounter

CONSTANTS Runs, MaxLines, NumThreads, CreationFails, MaxSpurious

ASSUME RunsAssumption == Runs \subseteq Nat \ {0}

ASSUME JoinAssumption ==
  NumThreads \in Nat /\ CreationFails \in BOOLEAN /\ MaxSpurious \in Nat

VARIABLES
  program,
  kind, rooted, name, object, value, queue, main, kid, sent, got, lost,
  netclient, at, events, edges, stdineof, closed, typedLines, keyed, keyend,
  inflight, inbox, heard, peer, crashed,
  pmt, numlive, numunjoin, state, tpc, mainpc, idx, spurious

Named  == INSTANCE NamedObjects WITH child <- kid
Net    == INSTANCE NetClients WITH client <- netclient, typed <- typedLines
Joiner == INSTANCE PthreadJoin WITH pc <- mainpc, CreateFails <- CreationFails

namedVars == <<kind, rooted, name, object, value, queue, main, kid, sent, got, lost>>
netVars   == <<netclient, at, events, edges, stdineof, closed, typedLines, keyed, keyend,
               inflight, inbox, heard, peer, crashed>>
joinVars  == <<pmt, numlive, numunjoin, state, tpc, mainpc, idx, spurious>>
allVars   == <<program, vars, pipeVars, namedVars, counterVars, netVars, joinVars>>

MCInit ==
  /\ program \in {"echo", "pipe", "named", "counter", "net", "join"}
  /\ Init /\ PipeInit /\ Named!NamedInit /\ CounterInit /\ Net!ClientInit /\ Joiner!Init
  /\ program # "named" => kind = "mq" /\ ~rooted
  /\ program # "counter" => lock = "none"
  /\ program # "net" => netclient = "chat"

MCNext ==
  \/ /\ program = "echo" /\ Next
     /\ UNCHANGED <<program, pipeVars, namedVars, counterVars, netVars, joinVars>>
  \/ /\ program = "pipe" /\ PipeNext
     /\ UNCHANGED <<program, vars, namedVars, counterVars, netVars, joinVars>>
  \/ /\ program = "named" /\ Named!NamedNext
     /\ UNCHANGED <<program, vars, pipeVars, counterVars, netVars, joinVars>>
  \/ /\ program = "counter" /\ CounterNext
     /\ UNCHANGED <<program, vars, pipeVars, namedVars, netVars, joinVars>>
  \/ /\ program = "net" /\ Net!ClientNext
     /\ UNCHANGED <<program, vars, pipeVars, namedVars, counterVars, joinVars>>
  \/ /\ program = "join" /\ Joiner!Next
     /\ UNCHANGED <<program, vars, pipeVars, namedVars, counterVars, netVars>>

\* The scheduler lets main and every thread that can run do so in the end.
JoinFair ==
  /\ WF_joinVars(program = "join" /\ Joiner!MainStep)
  /\ \A t \in Joiner!Threads : WF_joinVars(program = "join" /\ Joiner!Thread(t))

MCSpec ==
  /\ MCInit /\ [][MCNext]_allVars
  /\ Fairness /\ Named!NamedFair /\ Net!ClientFair /\ JoinFair

QueueIsExclusive == Named!QueueIsExclusive
RunsEnd          == Named!RunsEnd
ReturnsComplete  == Net!ReturnsComplete
ServerIsHeard    == Net!ServerIsHeard
CountsMatch      == Joiner!CountsMatch
NeverStuck       == Joiner!NeverStuck
AllJoinedAtExit  == Joiner!AllJoinedAtExit
Termination      == program = "join" => Joiner!Termination

=============================================================================
