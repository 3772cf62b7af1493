--------------------------- MODULE ListTimerProof ---------------------------
(***************************************************************************)
(* The client of one sort_time_list: for any number of timers, any delays  *)
(* and any clock, the list stays well formed and sorted, and it implements *)
(* the abstract timer queue.                                               *)
(***************************************************************************)
EXTENDS ListTimer, SortTimeListProof

\* What every operation preserves.  WellFormed says that the timers in the list
\* are those the client believes pending; InOrder adds that no timer is in the
\* list twice, without which none of the loops ends.
IInv ==
  /\ TypeOK
  /\ InOrder(list)
  /\ Linked(list) = handles
  /\ ~stepped => Ascending(list)

-----------------------------------------------------------------------------
(* IInv is inductive. *)

\* An expiry the client may ask for.
LEMMA ExpiryType ==
  ASSUME now \in 0 .. MaxTime, NEW d \in Delays
  PROVE  now + d \in Nat
BY ListTimerAssumption

LEMMA InitIInv == Init => IInv
<1> SUFFICES ASSUME Init PROVE IInv
  OBVIOUS
<1>1. InOrder(list) /\ Linked(list) = {} /\ Ascending(list) /\ list.live = {}
  BY NewListInOrder DEF Init
<1>2. list \in ListType /\ list.head \in list.live \cup {NULL}
  BY <1>1, InOrderFacts DEF Init, NewList
<1>3. 0 \in 0 .. MaxTime
  BY ListTimerAssumption
<1> QED BY <1>1, <1>2, <1>3 DEF Init, IInv, TypeOK, ListType

\* The head of a list in order is allocated.
LEMMA HeadType ==
  ASSUME NEW l, InOrder(l)
  PROVE  l \in ListType /\ l.head \in l.live \cup {NULL}
<1>1. IsList(l, Chain(l)) /\ l.head = Nth(Chain(l), 1) /\ Chain(l) \in Seq(Timers)
  BY DEF InOrder, IsList
<1>2. Len(Chain(l)) \in Nat
  BY <1>1
<1>3. 1 \in 1 .. Len(Chain(l)) \/ Nth(Chain(l), 1) = NULL
  BY <1>2 DEF Nth
<1> QED BY <1>1, <1>3 DEF IsList

LEMMA StepIInv ==
  ASSUME IInv, [Next]_vars
  PROVE  IInv'
<1>0. /\ now \in 0 .. MaxTime /\ now \in Int /\ list \in ListType /\ handles \subseteq Timers
      /\ InOrder(list) /\ Linked(list) = handles /\ (~stepped => Ascending(list))
      /\ exists \in BOOLEAN /\ stepped \in BOOLEAN
  BY HeadType DEF IInv, TypeOK
<1> SUFFICES /\ InOrder(list') /\ Linked(list') = handles' /\ (~stepped' => Ascending(list'))
             /\ now' \in 0 .. MaxTime /\ handles' \subseteq Timers /\ called' \subseteq Timers
             /\ exists' \in BOOLEAN /\ stepped' \in BOOLEAN
  <2>1. InOrder(list') => list' \in ListType /\ list'.head \in list'.live \cup {NULL}
    BY HeadType
  <2> QED BY <2>1 DEF IInv, TypeOK, ListType
<1>1. ASSUME NEW t \in Timers, NEW d \in Delays, Add(t, d)
      PROVE  /\ InOrder(list') /\ Linked(list') = handles' /\ (~stepped' => Ascending(list'))
             /\ now' \in 0 .. MaxTime /\ handles' \subseteq Timers /\ called' \subseteq Timers
             /\ exists' \in BOOLEAN /\ stepped' \in BOOLEAN
  <2>1. now + d \in Int /\ t \in Timers \ list.live
    BY <1>0, <1>1, ExpiryType DEF Add
  <2>2. InOrder(list') /\ Linked(list') = Linked(list) \cup {t} /\ (Ascending(list) => Ascending(list'))
    BY <1>0, <1>1, <2>1, AddInOrder DEF Add
  <2> QED BY <1>0, <1>1, <2>2 DEF Add
<1>2. ASSUME NEW t \in Timers, NEW d \in Delays, Adjust(t, d)
      PROVE  /\ InOrder(list') /\ Linked(list') = handles' /\ (~stepped' => Ascending(list'))
             /\ now' \in 0 .. MaxTime /\ handles' \subseteq Timers /\ called' \subseteq Timers
             /\ exists' \in BOOLEAN /\ stepped' \in BOOLEAN
  <2>1. now + d \in Int /\ t \in Linked(list)
    BY <1>0, <1>2, ExpiryType DEF Adjust
  <2>2. /\ InOrder(list') /\ Linked(list') = Linked(list)
        /\ Ascending(list) /\ list.expire[t] <= now + d => Ascending(list')
    BY <1>0, <1>2, <2>1, AdjustInOrder DEF Adjust
  <2>3. stepped \/ list.expire[t] <= now + d
    BY <1>0, <1>2, <2>1 DEF Adjust, ListType
  <2> QED BY <1>0, <1>2, <2>2, <2>3 DEF Adjust
<1>3. ASSUME NEW t \in Timers, Del(t)
      PROVE  /\ InOrder(list') /\ Linked(list') = handles' /\ (~stepped' => Ascending(list'))
             /\ now' \in 0 .. MaxTime /\ handles' \subseteq Timers /\ called' \subseteq Timers
             /\ exists' \in BOOLEAN /\ stepped' \in BOOLEAN
  <2>1. InOrder(list') /\ Linked(list') = Linked(list) \ {t} /\ (Ascending(list) => Ascending(list'))
    BY <1>0, <1>3, DelInOrder DEF Del
  <2> QED BY <1>0, <1>3, <2>1 DEF Del
<1>4. CASE Tick
  <2>1. /\ InOrder(list') /\ Linked(list') = Linked(list) \ called' /\ called' \subseteq Linked(list)
        /\ Ascending(list) => Ascending(list')
    BY <1>0, <1>4, TickInOrder DEF Tick
  <2> QED BY <1>0, <1>4, <2>1 DEF Tick
<1>5. CASE Exit
  <2>1. InOrder(list') /\ Linked(list') = {} /\ Ascending(list')
    BY <1>0, <1>5, DestroyInOrder DEF Exit
  <2> QED BY <1>0, <1>5, <2>1 DEF Exit
<1>6. CASE Clock
  BY <1>0, <1>6 DEF Clock
<1>7. CASE UNCHANGED vars
  BY <1>0, <1>7 DEF vars, IInv, TypeOK
<1> QED BY <1>1, <1>2, <1>3, <1>4, <1>5, <1>6, <1>7 DEF Next

\* The inductive invariant of a list driven by any sequence of add_timer, adjust_timer,
\* del_timer, tick and the destructor (list_timer.h:42 to 177).
THEOREM Invariance == Spec => []IInv
BY InitIInv, StepIInv, PTL DEF Spec

-----------------------------------------------------------------------------
(* The list. *)

\* Whatever sequence of calls the client makes, the list holds exactly the timers
\* it believes pending, all of them allocated, and reads the same backwards
\* (add_timer, adjust_timer, del_timer and tick, list_timer.h:63 to 177).
THEOREM ListStaysWellFormed == Spec => []WellFormed
<1>1. IInv => WellFormed
  <2> SUFFICES ASSUME IInv PROVE ListHoldsHandles /\ BackwardChain
    BY DEF IInv, WellFormed
  <2> DEFINE c == Chain(list)
  <2>1. InOrder(list) /\ Linked(list) = handles /\ Linked(list) \subseteq list.live
    BY InOrderFacts DEF IInv
  <2>2. IsList(list, c)
    BY <2>1 DEF InOrder
  <2> HIDE DEF c
  <2>3. /\ c \in Seq(Timers)
        /\ \A i \in 1 .. Len(c) : list.prev[Nth(c, i)] = Nth(c, i - 1)
        /\ Len(c) > 0 => list.tail = Nth(c, Len(c))
    BY <2>2 DEF IsList
  <2>4. Len(c) \in Nat /\ (c # <<>> => Len(c) > 0) /\ \A i \in 1 .. Len(c) : Nth(c, i) = c[i]
    BY <2>3, NthType
  <2>5. ASSUME c # <<>>
        PROVE  list.prev[c[1]] = NULL /\ list.tail = c[Len(c)]
    <3>1. 1 \in 1 .. Len(c) /\ Len(c) \in 1 .. Len(c) /\ Nth(c, 1 - 1) = NULL
      BY <2>4, <2>5 DEF Nth
    <3> QED BY <2>3, <2>4, <2>5, <3>1
  <2>6. ASSUME NEW i \in 1 .. (Len(c) - 1)
        PROVE  list.prev[c[i + 1]] = c[i]
    <3>1. i \in 1 .. Len(c) /\ i + 1 \in 1 .. Len(c) /\ (i + 1) - 1 = i
      BY <2>4
    <3> QED BY <2>3, <2>4, <3>1
  <2> QED BY <2>1, <2>5, <2>6 DEF ListHoldsHandles, BackwardChain, c
<1> QED BY <1>1, Invariance, PTL

\* As long as nobody sets the clock back, no timer stands before one that expires
\* earlier, so tick (list_timer.h:142) stops at the first timer that is not due.
THEOREM ListStaysSorted == Spec => []SortedAscending
<1>1. IInv => SortedAscending
  <2> SUFFICES ASSUME IInv, ~stepped,
                      NEW i \in DOMAIN Chain(list), NEW j \in DOMAIN Chain(list), i < j
               PROVE  list.expire[Chain(list)[i]] <= list.expire[Chain(list)[j]]
    BY DEF SortedAscending
  <2> DEFINE c == Chain(list)
  <2>1. c \in Seq(Timers) /\ Sorted(list, c)
    BY InOrderFacts DEF IInv, Ascending
  <2> HIDE DEF c
  <2>2. DOMAIN c = 1 .. Len(c) /\ \A k \in 1 .. Len(c) : Nth(c, k) = c[k]
    BY <2>1, NthType
  <2>3. i \in 1 .. Len(c) /\ j \in 1 .. Len(c)
    BY <2>2 DEF c
  <2>4. list.expire[c[i]] <= list.expire[c[j]]
    BY <2>1, <2>2, <2>3 DEF Sorted
  <2> QED BY <2>4 DEF c
<1> QED BY <1>1, Invariance, PTL

\* Only del_timer of a timer between two others leaves memory allocated
\* (list_timer.h:127 to 130); tick, the destructor and the other cases free what
\* they unlink.
THEOREM MemoryIsFreed == Spec => FreedOnRemoval
<1> DEFINE A == \A t \in handles \ handles' :
                  \/ t \notin list'.live
                  \/ called' = {} /\ list.next[t] # NULL /\ list.prev[t] # NULL
<1>1. ASSUME IInv, Next
      PROVE  A
  <2> SUFFICES ASSUME NEW t \in handles, t \notin handles'
               PROVE  \/ t \notin list'.live
                      \/ called' = {} /\ list.next[t] # NULL /\ list.prev[t] # NULL
    OBVIOUS
  <2>0. InOrder(list) /\ Linked(list) = handles /\ now \in Int
    BY <1>1 DEF IInv, TypeOK
  <2>1. CASE \E u \in Timers, d \in Delays : Add(u, d) \/ Adjust(u, d)
    BY <2>1 DEF Add, Adjust
  <2>2. CASE \E u \in Timers : Del(u)
    <3>1. PICK u \in Timers : Del(u)
      BY <2>2
    <3>2. u = t /\ list' = DelTimer(list, t) /\ called' = {}
      BY <3>1 DEF Del
    <3>3. list'.live = list.live \ {t} \/ (list.next[t] # NULL /\ list.prev[t] # NULL)
      BY <2>0, <3>2, DelInOrder
    <3> QED BY <3>2, <3>3
  <2>3. CASE Tick
    <3>1. list'.live = list.live \ called' /\ t \in called'
      BY <2>0, <2>3, TickInOrder DEF Tick
    <3> QED BY <3>1
  <2>4. CASE Exit
    <3>1. list'.live = list.live \ handles
      BY <2>0, <2>4, DestroyInOrder DEF Exit
    <3> QED BY <3>1
  <2>5. CASE Clock
    BY <2>5 DEF Clock
  <2> QED BY <1>1, <2>1, <2>2, <2>3, <2>4, <2>5 DEF Next
<1>2. IInv /\ [Next]_vars => [A]_vars
  BY <1>1
<1>3. Spec => [][A]_vars
  BY <1>2, Invariance, PTL DEF Spec
<1> QED BY <1>3 DEF FreedOnRemoval

-----------------------------------------------------------------------------
(* The abstract timer queue. *)

\* A finite set of numbers has a largest one: the one with the fewest above it.
LEMMA MaxNat ==
  ASSUME NEW S \in SUBSET Nat, IsFiniteSet(S), S # {}
  PROVE  Max(S) \in S /\ \A n \in S : n <= Max(S)
<1> DEFINE above(m) == {n \in S : m < n}
           C        == {Cardinality(above(m)) : m \in S}
<1>1. \A m \in S : IsFiniteSet(above(m)) /\ Cardinality(above(m)) \in Nat
  <2> SUFFICES ASSUME NEW m \in S PROVE IsFiniteSet(above(m)) /\ Cardinality(above(m)) \in Nat
    OBVIOUS
  <2>1. above(m) \in SUBSET S
    OBVIOUS
  <2> HIDE DEF above
  <2> QED BY <2>1, FS_Subset, FS_CardinalityType
<1>2. Min(C) \in C /\ \A k \in C : Min(C) <= k
  <2>1. C \in SUBSET Nat /\ C # {}
    BY <1>1
  <2> HIDE DEF C
  <2> QED BY <2>1, MinNat
<1>3. PICK m \in S : \A n \in S : Cardinality(above(m)) <= Cardinality(above(n))
  BY <1>2
<1>4. \A n \in S : n <= m
  <2> SUFFICES ASSUME NEW n \in S, m < n PROVE FALSE
    OBVIOUS
  <2>1. above(n) \in SUBSET above(m) /\ above(n) # above(m)
    <3>1. n \in above(m) /\ n \notin above(n)
      OBVIOUS
    <3>2. \A x \in S : n < x => m < x
      OBVIOUS
    <3>3. above(n) \in SUBSET above(m)
      BY <3>2
    <3> HIDE DEF above
    <3> QED BY <3>1, <3>3
  <2> HIDE DEF above
  <2>2. Cardinality(above(n)) <= Cardinality(above(m)) /\ Cardinality(above(n)) # Cardinality(above(m))
    BY <1>1, <2>1, FS_Subset
  <2> QED BY <1>1, <1>3, <2>2
<1> QED BY <1>3, <1>4 DEF Max

LEMMA DeadlineType ==
  ASSUME now \in 0 .. MaxTime, NEW d \in Delays
  PROVE  now + d \in 0 .. (MaxTime + Max(Delays))
<1>1. Max(Delays) \in Nat /\ d <= Max(Delays) /\ d \in Nat /\ MaxTime \in Nat
  BY MaxNat, ListTimerAssumption
<1> QED BY <1>1

\* Every operation is the operation of the queue of the same name, adjust_timer a
\* postponement, del_timer and the destructor a cancellation.
LEMMA StepQueue ==
  ASSUME IInv, [Next]_vars
  PROVE  [Queue!Next]_(Queue!vars)
<1> DEFINE deadline == [t \in Linked(list) |-> list.expire[t]]
           Times    == 0 .. (MaxTime + Max(Delays))
<1>0. /\ now \in 0 .. MaxTime /\ now \in Int /\ list \in ListType /\ handles \subseteq Timers
      /\ InOrder(list) /\ Linked(list) = handles /\ (~stepped => Ascending(list))
  BY HeadType DEF IInv, TypeOK
<1>a. deadline' = [t \in Linked(list') |-> list'.expire[t]]
  OBVIOUS
<1>1. ASSUME NEW t \in Timers, NEW d \in Delays, Add(t, d)
      PROVE  Queue!Next
  <2>1. now + d \in Int /\ now + d \in Times /\ t \in Timers \ list.live
    BY <1>0, <1>1, ExpiryType, DeadlineType DEF Add
  <2>2. /\ Linked(list') = Linked(list) \cup {t} /\ t \notin Linked(list)
        /\ list'.expire = [list.expire EXCEPT ![t] = now + d]
    BY <1>0, <1>1, <2>1, AddInOrder DEF Add
  <2>3. \A u \in Timers : list'.expire[u] = IF u = t THEN now + d ELSE list.expire[u]
    BY <1>0, <2>2 DEF ListType
  <2>4. deadline' = [u \in Linked(list) \cup {t} |-> IF u = t THEN now + d ELSE deadline[u]]
    BY <1>0, <1>a, <2>2, <2>3
  <2>5. PICK e \in Times : e = now + d
    BY <2>1
  <2>6. Queue!Add(t, e)
    <3> HIDE DEF deadline
    <3> QED BY <1>1, <2>2, <2>4, <2>5 DEF Add, Queue!Add, Queue!Pending, deadline
  <2> QED BY <2>6 DEF Queue!Next
<1>2. ASSUME NEW t \in Timers, NEW d \in Delays, Adjust(t, d)
      PROVE  Queue!Next
  <2>1. now + d \in Int /\ now + d \in Times /\ t \in Linked(list)
    BY <1>0, <1>2, ExpiryType, DeadlineType DEF Adjust
  <2>2. Linked(list') = Linked(list) /\ list'.expire = [list.expire EXCEPT ![t] = now + d]
    BY <1>0, <1>2, <2>1, AdjustInOrder DEF Adjust
  <2>3. \A u \in Timers : list'.expire[u] = IF u = t THEN now + d ELSE list.expire[u]
    BY <1>0, <2>2 DEF ListType
  <2>4. deadline' = [deadline EXCEPT ![t] = now + d]
    BY <1>0, <1>a, <2>2, <2>3
  <2>5. PICK e \in Times : e = now + d
    BY <2>1
  <2>6. Queue!Postpone(t, e)
    BY <1>2, <2>1, <2>4, <2>5 DEF Adjust, Queue!Postpone, Queue!Pending
  <2> QED BY <2>6 DEF Queue!Next
<1>b. ASSUME NEW S, Linked(list') = Linked(list) \ S, \A u \in Linked(list) \ S : list'.expire[u] = list.expire[u]
      PROVE  deadline' = Queue!Restrict(deadline, Queue!Pending \ S)
  BY <1>b, <1>a DEF Queue!Restrict, Queue!Pending
<1>3. ASSUME NEW t \in Timers, Del(t)
      PROVE  Queue!Next
  <2>1. /\ Linked(list') = Linked(list) \ {t} /\ t \in Linked(list)
        /\ \A u \in Linked(list) \ {t} : list'.expire[u] = list.expire[u]
    BY <1>0, <1>3, DelInOrder DEF Del
  <2>2. Queue!Cancel({t})
    BY <1>3, <1>b, <2>1 DEF Del, Queue!Cancel, Queue!Pending
  <2> QED BY <2>2 DEF Queue!Next
<1>4. CASE Tick
  <2>1. /\ Linked(list') = Linked(list) \ called' /\ called' \subseteq Linked(list)
        /\ \A u \in Linked(list) \ called' : list'.expire[u] = list.expire[u]
        /\ \A u \in called' : list.expire[u] <= now
        /\ ~stepped => \A u \in Linked(list) \ called' : list.expire[u] > now
    BY <1>0, <1>4, TickInOrder DEF Tick
  <2>2. Queue!Tick
    <3> DEFINE due == {t \in Linked(list) : deadline[t] <= now}
    <3>1. \A u \in Linked(list) : list.expire[u] \in Int
      BY <1>0 DEF ListType
    <3>2. called' \subseteq due /\ (called' = due \/ stepped)
      BY <1>0, <2>1, <3>1
    <3> QED BY <1>4, <1>b, <2>1, <3>2 DEF Tick, Queue!Tick, Queue!Pending
  <2> QED BY <2>2 DEF Queue!Next
<1>5. CASE Exit
  <2>1. Linked(list') = {}
    BY <1>0, <1>5, DestroyInOrder DEF Exit
  <2>2. PICK S \in SUBSET Timers : S = handles
    BY <1>0
  <2>3. Queue!Cancel(S)
    BY <1>0, <1>5, <1>b, <2>1, <2>2 DEF Exit, Queue!Cancel, Queue!Pending
  <2> QED BY <2>3 DEF Queue!Next
<1>6. CASE Clock
  <2>1. now' \in Times
    <3>1. Max(Delays) \in Nat /\ MaxTime \in Nat
      BY MaxNat, ListTimerAssumption
    <3> QED BY <1>6, <3>1 DEF Clock
  <2>2. Queue!Clock
    BY <1>6, <2>1 DEF Clock, Queue!Clock
  <2> QED BY <2>2 DEF Queue!Next
<1>7. CASE UNCHANGED vars
  BY <1>7 DEF vars, Queue!vars
<1> QED BY <1>1, <1>2, <1>3, <1>4, <1>5, <1>6, <1>7 DEF Next

\* The list, its pointers and its raw searches, behaves as the abstract timer
\* queue: a tick calls back the timers that are due and no other, and one whose
\* clock was set back may call some of them later but none too early.
THEOREM ListImplementsQueue == Spec => ImplementsTimerQueue
<1>1. Init => Queue!Init
  <2> SUFFICES ASSUME Init PROVE Queue!Init
    OBVIOUS
  <2>1. Linked(list) = {}
    BY NewListInOrder DEF Init
  <2>2. [t \in Linked(list) |-> list.expire[t]] = << >>
    BY <2>1
  <2> QED BY <2>2 DEF Init, Queue!Init
<1>2. IInv /\ [Next]_vars => [Queue!Next]_(Queue!vars)
  BY StepQueue
<1>3. Spec => Queue!Spec
  BY <1>1, <1>2, Invariance, PTL DEF Spec, Queue!Spec
<1> QED BY <1>3 DEF ImplementsTimerQueue

=============================================================================
