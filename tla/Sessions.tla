------------------------------ MODULE Sessions ------------------------------
(***************************************************************************)
(* What the keep-alive server promises its clients, whatever descriptors,  *)
(* timers, alarms and pipes it keeps: a session begins when the server     *)
(* accepts a client, is renewed whenever the server hears from the client, *)
(* and ends because the client has left or because it was silent for       *)
(* Limit, and for no other reason while the server runs.  As long as the   *)
(* server is not overloaded and no signal is lost, time never passes       *)
(* Limit + Grace after the last sign of life of a session: whoever was     *)
(* silent for that long has been ended before.  KeepAlive is shown to      *)
(* implement this specification.                                           *)
(***************************************************************************)
EXTENDS Integers, Functions

CONSTANTS Clients,  \* the clients, with one session each at a time
          Limit,    \* the silence after which a session may be ended
          Grace     \* how much later it must have been ended

VARIABLES heard,    \* for every session: when its client was last heard from
          gone,     \* the clients that have left and whose end is to be noticed
          now,      \* the current time
          strained, \* the server has been late, or a signal was lost
          up        \* the server runs

vars == <<heard, gone, now, strained, up>>

Sessions == DOMAIN heard

Init == heard = <<>> /\ gone = {} /\ now = 0 /\ strained = FALSE /\ up = TRUE

\* A client leaves, perhaps before its session has begun.
Leave(c) ==
  /\ up /\ c \notin gone
  /\ gone' = gone \cup {c}
  /\ UNCHANGED <<heard, now, strained, up>>

Begin(c) ==
  /\ up /\ c \notin Sessions
  /\ heard' = [d \in Sessions \cup {c} |-> IF d = c THEN now ELSE heard[d]]
  /\ UNCHANGED <<gone, now, strained, up>>

Hear(c) ==
  /\ up /\ c \in Sessions
  /\ heard' = [heard EXCEPT ![c] = now]
  /\ UNCHANGED <<gone, now, strained, up>>

\* The sessions S end, all others are untouched.
End(S) ==
  /\ S \subseteq Sessions
  /\ heard' = Restrict(heard, Sessions \ S)
  /\ gone' = gone \ S

\* The server notices that a client has left.
Release(c) ==
  /\ up /\ c \in gone
  /\ End({c})
  /\ UNCHANGED <<now, strained, up>>

\* A time event ends sessions, each of them silent for long enough.
Expire(S) ==
  /\ up
  /\ End(S)
  /\ \A c \in S : now >= heard[c] + Limit
  /\ UNCHANGED <<now, strained, up>>

\* Time passes.  The server may fall behind with its work, once and for all; as
\* long as it has not, no session is left that was silent for Limit + Grace.
Clock ==
  /\ up
  /\ now' = now + 1
  /\ strained' \in {strained, TRUE}
  /\ strained' \/ \A c \in Sessions : now' < heard[c] + Limit + Grace
  /\ UNCHANGED <<heard, gone, up>>

\* A signal is lost.
Lose ==
  /\ up
  /\ strained' = TRUE
  /\ UNCHANGED <<heard, gone, now, up>>

\* The server exits or aborts, and every connection with it.
Stop ==
  /\ up
  /\ up' = FALSE
  /\ heard' = <<>>
  /\ gone' = {}
  /\ UNCHANGED <<now, strained>>

Next ==
  \/ \E c \in Clients : Leave(c) \/ Begin(c) \/ Hear(c) \/ Release(c)
  \/ \E S \in SUBSET Clients : Expire(S)
  \/ Clock \/ Lose \/ Stop

Spec == Init /\ [][Next]_vars

=============================================================================
