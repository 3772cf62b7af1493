---------------------------- MODULE SortTimeList ----------------------------
(***************************************************************************)
(* The class sort_time_list of unp/high_performance/list_timer.h: a doubly *)
(* linked list of timers in ascending order of expiry, manipulated through *)
(* raw pointers.  A list is a record                                       *)
(*                                                                         *)
(*   head, tail   the two pointers of the class                            *)
(*   prev, next   the pointer fields of every timer                        *)
(*   expire       the absolute expiry time of every timer                  *)
(*   live         the timers that are allocated (new'ed and not deleted)   *)
(*                                                                         *)
(* and every method of the class is an operator from a list to a list.     *)
(* Timers is the set of addresses operator new can return; an address is   *)
(* used again once its timer is deleted.  The fields of a deleted timer    *)
(* are set to a fixed value, because nothing may read them.                *)
(*                                                                         *)
(* An operator whose name has the form Method_Slip is not part of the      *)
(* code: it is the method with a plausible mistake, kept to show that the  *)
(* properties notice it.                                                   *)
(***************************************************************************)
EXTENDS Integers, FiniteSets, FiniteSetsExt, Sequences

CONSTANTS Timers,   \* addresses of util_timer objects
          NULL      \* the null pointer

ASSUME TimersAssumption == IsFiniteSet(Timers) /\ NULL \notin Timers

\* An empty list (the constructor), with no timer allocated.
NewList == [head   |-> NULL,
            tail   |-> NULL,
            prev   |-> [t \in Timers |-> NULL],
            next   |-> [t \in Timers |-> NULL],
            expire |-> [t \in Timers |-> 0],
            live   |-> {}]

\* The pointers a loop "tmp = from; while(tmp) tmp = tmp->next" goes through:
\* Walk(l, from)[i] is tmp after i iterations, NULL once the loop is over.
Walk(l, from) ==
  LET at[i \in 0 .. Cardinality(Timers)] ==
        IF i = 0 THEN from
        ELSE IF at[i - 1] = NULL THEN NULL ELSE l.next[at[i - 1]]
  IN  at

\* The timers a traversal from head visits, in its order.
Chain(l) ==
  LET at  == Walk(l, l.head)
      end == CHOOSE i \in DOMAIN at : at[i] = NULL /\ \A j \in 0 .. (i - 1) : at[j] # NULL
  IN  [i \in 1 .. end |-> at[i - 1]]

Linked(l) == {Chain(l)[i] : i \in DOMAIN Chain(l)}

\* timer = new util_timer; timer->expire = e.
New(l, t, e) == [l EXCEPT !.live = @ \cup {t}, !.expire[t] = e,
                          !.prev[t] = NULL, !.next[t] = NULL]

\* delete every timer of S.
Delete(l, S) ==
  [l EXCEPT !.live   = @ \ S,
            !.prev   = [t \in Timers |-> IF t \in S THEN NULL ELSE @[t]],
            !.next   = [t \in Timers |-> IF t \in S THEN NULL ELSE @[t]],
            !.expire = [t \in Timers |-> IF t \in S THEN 0 ELSE @[t]]]

(***************************************************************************)
(* add_timer(timer, list_head): insert timer after list_head, before the   *)
(* first timer that expires later, at the tail if there is none.           *)
(***************************************************************************)
InsertBefore(l, t, prev, tmp) ==
  IF tmp # NULL
  THEN [l EXCEPT !.next[prev] = t, !.next[t] = tmp, !.prev[tmp] = t, !.prev[t] = prev]
  ELSE [l EXCEPT !.next[prev] = t, !.prev[t] = prev, !.next[t] = NULL, !.tail = t]

InsertAfter_StopAtEqual(l, t, listHead) ==
  LET at == Walk(l, listHead)
      i  == Min({j \in DOMAIN at \ {0} : at[j] = NULL \/ l.expire[at[j]] < l.expire[t]})
  IN  InsertBefore(l, t, at[i - 1], at[i])

InsertAfter(l, t, listHead) ==
  LET at == Walk(l, listHead)
      i  == Min({j \in DOMAIN at \ {0} : at[j] = NULL \/ l.expire[t] < l.expire[at[j]]})
  IN  InsertBefore(l, t, at[i - 1], at[i])

\* add_timer(timer)
AddTimer(l, t) ==
  IF l.head = NULL THEN [l EXCEPT !.head = t, !.tail = t]
  ELSE IF l.expire[t] < l.expire[l.head]
  THEN [l EXCEPT !.next[t] = l.head, !.prev[l.head] = t, !.head = t]
  ELSE InsertAfter(l, t, l.head)

(***************************************************************************)
(* adjust_timer(timer): move a timer whose expiry has changed towards the  *)
(* tail.  The timer stays where it is when it is the last one or expires   *)
(* before the next; its predecessor is not looked at.                      *)
(***************************************************************************)
AdjustTimer(l, t) ==
  LET tmp == l.next[t]
  IN  IF tmp = NULL \/ l.expire[t] < l.expire[tmp] THEN l
      ELSE IF t = l.head
      THEN InsertAfter([l EXCEPT !.head = tmp, !.prev[tmp] = NULL, !.next[t] = NULL], t, tmp)
      ELSE InsertAfter([l EXCEPT !.next[l.prev[t]] = tmp, !.prev[tmp] = l.prev[t]], t, tmp)

(***************************************************************************)
(* del_timer(timer).  The last case, a timer between two others, unlinks   *)
(* the timer and does not delete it.                                       *)
(***************************************************************************)
DelTimer_KeepPrev(l, t) ==
  IF t = l.head /\ t = l.tail THEN Delete([l EXCEPT !.head = NULL, !.tail = NULL], {t})
  ELSE IF t = l.head
  THEN Delete([l EXCEPT !.head = l.next[t]], {t})
  ELSE IF t = l.tail
  THEN Delete([l EXCEPT !.tail = l.prev[t], !.next[l.prev[t]] = NULL], {t})
  ELSE [l EXCEPT !.prev[l.next[t]] = l.prev[t], !.next[l.prev[t]] = l.next[t]]

DelTimer(l, t) ==
  IF t = l.head /\ t = l.tail THEN Delete([l EXCEPT !.head = NULL, !.tail = NULL], {t})
  ELSE IF t = l.head
  THEN Delete([l EXCEPT !.head = l.next[t], !.prev[l.next[t]] = NULL], {t})
  ELSE IF t = l.tail
  THEN Delete([l EXCEPT !.tail = l.prev[t], !.next[l.prev[t]] = NULL], {t})
  ELSE [l EXCEPT !.prev[l.next[t]] = l.prev[t], !.next[l.prev[t]] = l.next[t]]

(***************************************************************************)
(* tick(): from the head on, every timer up to the first that expires      *)
(* after cur is called back and deleted; head moves along, tail does not.  *)
(* Expired(l, cur) are the timers called back.                             *)
(***************************************************************************)
FirstUnexpired_Strict(l, cur) ==
  LET at == Walk(l, l.head)
  IN  Min({i \in DOMAIN at : at[i] = NULL \/ l.expire[at[i]] >= cur})

FirstUnexpired(l, cur) ==
  LET at == Walk(l, l.head)
  IN  Min({i \in DOMAIN at : at[i] = NULL \/ l.expire[at[i]] > cur})

Expired(l, cur) == {Walk(l, l.head)[i] : i \in 0 .. (FirstUnexpired(l, cur) - 1)}

TickList_KeepMemory(l, cur) ==
  LET head == Walk(l, l.head)[FirstUnexpired(l, cur)]
  IN  IF Expired(l, cur) = {} THEN l
      ELSE IF head = NULL THEN [l EXCEPT !.head = NULL]
      ELSE [l EXCEPT !.head = head, !.prev[head] = NULL]

TickList(l, cur) ==
  LET head == Walk(l, l.head)[FirstUnexpired(l, cur)]
  IN  IF Expired(l, cur) = {} THEN l
      ELSE IF head = NULL THEN Delete([l EXCEPT !.head = NULL], Expired(l, cur))
      ELSE Delete([l EXCEPT !.head = head, !.prev[head] = NULL], Expired(l, cur))

\* ~sort_time_list(): delete every element.
Destroy(l) == Delete([l EXCEPT !.head = NULL], Linked(l))

=============================================================================
