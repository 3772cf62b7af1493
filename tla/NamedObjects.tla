---------------------------- MODULE NamedObjects ----------------------------
(***************************************************************************)
(* Two programs around a kernel object with a name, which outlives them:   *)
(*   "sem"  sem/sem_test.c: the child waits for a semaphore, the parent    *)
(*          posts it, waits for the child and unlinks the name;            *)
(*   "mq"   message_queque/mq_test.c: the child sends three messages, the  *)
(*          parent receives three and unlinks the name.                    *)
(* The program is run several times, one run possibly during another.  A   *)
(* run may be killed or leave early: the name then stays.                  *)
(*                                                                         *)
(* Operators named Operation_Slip are mistakes that show what the          *)
(* properties notice.                                                      *)
(***************************************************************************)
EXTENDS Integers, FiniteSets

CONSTANT Runs    \* the runs, a set of positive numbers

VARIABLES
  kind,      \* "sem" or "mq": which program is run
  rooted,    \* whether by root, whom permissions do not stop
  name,      \* the object the name stands for, called after the run that
             \* created it; 0 when there is none
  object,    \* the object each run has opened, 0 for none
  value,     \* of the semaphores
  queue,     \* of the queues: a set of messages <<run, priority>>
  main,      \* the parent of each run: "new", "opened", "forked" (the sleep),
             \* "wait" in wait(NULL), "unlink", "done", or ended early: "exit"
             \* at an error, "killed"
  child,     \* "none", "begin", "ended" or, early, "exit" or "killed"
  sent,      \* how many messages the child has tried to send
  got,       \* the messages the parent has received
  lost       \* runs with a message that could not be sent

vars == <<kind, rooted, name, object, value, queue, main, child, sent, got, lost>>

objects == <<name, object, value, queue>>

NamedInit ==
  /\ kind \in {"sem", "mq"} /\ rooted \in BOOLEAN
  /\ name = 0
  /\ object = [r \in Runs |-> 0]
  /\ value = [r \in Runs |-> 0]
  /\ queue = [r \in Runs |-> {}]
  /\ main = [r \in Runs |-> "new"]
  /\ child = [r \in Runs |-> "none"]
  /\ sent = [r \in Runs |-> 0]
  /\ got = [r \in Runs |-> {}]
  /\ lost = {}

To(r, step) == main' = [main EXCEPT ![r] = step]
ChildTo(r, step) == child' = [child EXCEPT ![r] = step]

-----------------------------------------------------------------------------
(* The parent. *)

\* Whether an existing object is opened.  mq_open has O_EXCL.  sem_open passes
\* O_RDWR for the permissions, which leaves the owner none.
OpensExisting_NotExclusive == rooted
OpensExisting == kind = "sem" /\ rooted

Open(r) ==
  /\ main[r] = "new"
  /\ IF name = 0
     THEN /\ name' = r
          /\ object' = [object EXCEPT ![r] = r]
          /\ To(r, "opened")
     ELSE /\ UNCHANGED name
          /\ IF OpensExisting THEN object' = [object EXCEPT ![r] = name] /\ To(r, "opened")
             ELSE UNCHANGED object /\ To(r, "exit")
  /\ UNCHANGED <<kind, rooted, value, queue, child, sent, got, lost>>

\* After a fork (or an mq_getattr) that fails mq_test.c exits; sem_test.c goes on
\* as the parent of nobody.
Fork(r) ==
  /\ main[r] = "opened"
  /\ \/ To(r, "forked") /\ ChildTo(r, "begin")
     \/ To(r, IF kind = "mq" THEN "exit" ELSE "forked") /\ UNCHANGED child
  /\ UNCHANGED <<kind, rooted, objects, sent, got, lost>>

\* sem_post; the sleep before it orders nothing.
Post(r) ==
  /\ kind = "sem" /\ main[r] = "forked"
  /\ value' = [value EXCEPT ![object[r]] = @ + 1]
  /\ To(r, "wait")
  /\ UNCHANGED <<kind, rooted, name, object, queue, child, sent, got, lost>>

\* wait(NULL) returns when the child has ended, and at once if there is none.
Wait(r) ==
  /\ main[r] = "wait" /\ child[r] # "begin"
  /\ To(r, "unlink")
  /\ UNCHANGED <<kind, rooted, objects, child, sent, got, lost>>

\* mq_receive takes the message with the highest priority.  It does not fail: the
\* buffer has the length the queue allows.
Wanted_OneMore == 4
Wanted == 3

First(messages) == CHOOSE m \in messages : \A n \in messages : m[2] >= n[2]

Receive(r) ==
  /\ kind = "mq" /\ main[r] = "forked" /\ queue[object[r]] # {}
  /\ LET m == First(queue[object[r]])
     IN  /\ queue' = [queue EXCEPT ![object[r]] = @ \ {m}]
         /\ got' = [got EXCEPT ![r] = @ \cup {m}]
  /\ To(r, IF Cardinality(got'[r]) = Wanted THEN "unlink" ELSE "forked")
  /\ UNCHANGED <<kind, rooted, name, object, value, child, sent, lost>>

Unlink(r) ==
  /\ main[r] = "unlink"
  /\ name' = 0
  /\ To(r, "done")
  /\ UNCHANGED <<kind, rooted, object, value, queue, child, sent, got, lost>>

-----------------------------------------------------------------------------
(* The child, and signals that kill. *)

\* sem_wait
Take(r) ==
  /\ kind = "sem" /\ child[r] = "begin" /\ value[object[r]] > 0
  /\ value' = [value EXCEPT ![object[r]] = @ - 1]
  /\ ChildTo(r, "ended")
  /\ UNCHANGED <<kind, rooted, name, object, queue, main, sent, got, lost>>

\* Lines 33 to 39.  Only the first mq_send is checked.
Priority == <<1, 3, 2>>

Send(r) ==
  /\ kind = "mq" /\ child[r] = "begin"
  /\ sent' = [sent EXCEPT ![r] = @ + 1]
  /\ \/ /\ queue' = [queue EXCEPT ![object[r]] = @ \cup {<<r, Priority[sent'[r]]>>}]
        /\ ChildTo(r, IF sent'[r] = 3 THEN "ended" ELSE "begin")
        /\ UNCHANGED lost
     \/ /\ lost' = lost \cup {r}
        /\ ChildTo(r, IF sent'[r] = 1 THEN "exit" ELSE IF sent'[r] = 3 THEN "ended" ELSE "begin")
        /\ UNCHANGED queue
  /\ UNCHANGED <<kind, rooted, name, object, value, main, got>>

KillMain(r) ==
  /\ main[r] \in {"opened", "forked", "wait", "unlink"}
  /\ To(r, "killed")
  /\ UNCHANGED <<kind, rooted, objects, child, sent, got, lost>>

KillChild(r) ==
  /\ child[r] = "begin"
  /\ ChildTo(r, "killed")
  /\ UNCHANGED <<kind, rooted, objects, main, sent, got, lost>>

Step(r) == Open(r) \/ Fork(r) \/ Post(r) \/ Wait(r) \/ Receive(r) \/ Unlink(r) \/ Take(r) \/ Send(r)

NamedNext == \E r \in Runs : Step(r) \/ KillMain(r) \/ KillChild(r)

NamedSpec == NamedInit /\ [][NamedNext]_vars

\* Processes that can run are scheduled, once their run has been started.
NamedFair == \A r \in Runs : WF_vars(main[r] # "new" /\ Step(r))

-----------------------------------------------------------------------------

\* mq_test.c:12: O_EXCL makes the name a lock.  At most one run is between its
\* open and its end, so that a parent never receives anything but its own
\* child's messages, in spite of orphans and of what killed runs have left; and
\* as long as a run that ended early has not been cleaned up, nobody gets past
\* the open.
Active(r) == main[r] \in {"opened", "forked", "unlink"}

QueueIsExclusive ==
  kind = "mq" =>
    /\ \A r, s \in Runs : Active(r) /\ Active(s) => r = s
    /\ \A r \in Runs : \A m \in got[r] : m[1] = r
    /\ \A r \in Runs : Active(r) => name = r

\* sem_test.c:44 and mq_test.c:46: a run that is not disturbed ends.  Runs of
\* sem_test.c may share the semaphore and take each other's post, but there is
\* one for each; a post is missing only when a parent was killed before its
\* own, and its child has taken another's.  A run of mq_test.c needs its child
\* to send three messages.
Disturbed(r) ==
  IF kind = "mq" THEN r \in lost \/ child[r] = "killed"
  ELSE \E s \in Runs : main[s] = "killed"

RunsEnd ==
  \A r \in Runs :
    main[r] = "opened" ~> main[r] \in {"done", "exit", "killed"} \/ Disturbed(r)

=============================================================================
