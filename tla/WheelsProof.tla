---------------------------- MODULE WheelsProof ----------------------------
(***************************************************************************)
(* Proofs about the timing wheel, for every number of slots, every set of  *)
(* timers and all timeouts: the wheel with sets is punctual, the pointers  *)
(* of the wheel with lists stay intact, and the lists implement the sets.  *)
(***************************************************************************)
EXTENDS MCWheels, FiniteSetTheorems, WellFoundedInduction, TLAPS

-----------------------------------------------------------------------------
(* Slots and turns. *)

LEMMA DivMod ==
  ASSUME NEW k \in Nat
  PROVE  /\ k % N \in 0 .. (N - 1)
         /\ k \div N \in Nat
         /\ k = (k \div N) * N + (k % N)
  BY WheelListsAssumption

LEMMA ModWrap ==
  ASSUME NEW k \in 0 .. (2 * N - 1)
  PROVE  k % N = IF k < N THEN k ELSE k - N
<1>1. CASE k < N
  BY <1>1, WheelListsAssumption
<1>2. CASE k >= N
  BY <1>2, WheelListsAssumption
<1> QED BY <1>1, <1>2, WheelListsAssumption

LEMMA TurnTime ==
  ASSUME NEW r \in Nat, r > 0
  PROVE  (r - 1) * N + N = r * N
  BY WheelListsAssumption

\* What a slot that many places ahead of the current one is: the arithmetic of line 64.
LEMMA SlotAhead ==
  ASSUME NEW m \in 0 .. (N - 1), current \in Sets!Slots
  PROVE  /\ (current + m) % N \in Sets!Slots
         /\ Sets!Ahead((current + m) % N) = m
         /\ (current + m) % N = current <=> m = 0
<1>1. current + m \in 0 .. (2 * N - 1)
  BY WheelListsAssumption DEF Sets!Slots
<1> QED BY <1>1, ModWrap, WheelListsAssumption DEF Sets!Ahead, Sets!Slots

-----------------------------------------------------------------------------
(* The wheel with sets. *)

LEMMA SetsInit == Sets!Init => Sets!IInv
<1> SUFFICES ASSUME Sets!Init PROVE Sets!IInv
  OBVIOUS
<1>1. 0 \in Sets!Slots
  BY WheelListsAssumption DEF Sets!Slots
<1>2. Sets!TypeOK
  <2>1. sets \in [Sets!Slots -> SUBSET Timers] /\ kept \in [Timers -> Sets!Slots] /\ current \in Sets!Slots
    BY <1>1 DEF Sets!Init
  <2>2. turns \in [Timers -> Nat] /\ asked \in [Timers -> Int]
    BY DEF Sets!Init
  <2>3. held \subseteq Timers /\ again \subseteq held /\ todo \subseteq Timers /\ intick \in BOOLEAN /\ firing \in Timers \cup {NULL}
    BY DEF Sets!Init
  <2> QED BY <2>1, <2>2, <2>3 DEF Sets!TypeOK
<1>3. Sets!SlotsMatch
  BY <1>1 DEF Sets!Init, Sets!SlotsMatch
<1>4. Sets!Countdown /\ Sets!FiringDue /\ Sets!Walk
  BY DEF Sets!Init, Sets!Countdown, Sets!FiringDue, Sets!Walk
<1> QED BY <1>2, <1>3, <1>4 DEF Sets!IInv

LEMMA SetsAdd ==
  ASSUME Sets!IInv, NEW t \in Timers, NEW timeout \in Timeouts, Sets!Add(t, timeout)
  PROVE  Sets!IInv'
<1> DEFINE ticks == Sets!Ticks(timeout)
           ts    == (current + (ticks % N)) % N
<1>1. ticks \in Nat /\ ticks >= 1
  BY WheelListsAssumption DEF Sets!Ticks
<1>2. /\ ticks % N \in 0 .. (N - 1)
      /\ ticks \div N \in Nat
      /\ ticks = (ticks \div N) * N + (ticks % N)
  BY <1>1, DivMod
<1>3. /\ ts \in Sets!Slots
      /\ Sets!Ahead(ts) = ticks % N
      /\ ts = current <=> ticks % N = 0
  BY <1>2, SlotAhead DEF Sets!IInv, Sets!TypeOK
<1> HIDE DEF ts, ticks
<1>4. /\ t \notin held
      /\ turns' = [turns EXCEPT ![t] = ticks \div N]
      /\ kept' = [kept EXCEPT ![t] = ts]
      /\ sets' = [sets EXCEPT ![ts] = @ \cup {t}]
      /\ held' = held \cup {t}
      /\ asked' = [asked EXCEPT ![t] = ticks]
      /\ again' = IF intick /\ ticks % N = 0 THEN again \cup {t} ELSE again
      /\ UNCHANGED <<current, intick, todo, firing>>
  BY DEF Sets!Add, Sets!Note, ts, ticks
<1>5. Sets!Lateness(t)' = (IF intick /\ ticks % N = 0 THEN N ELSE 0)
  BY <1>4 DEF Sets!IInv, Sets!TypeOK, Sets!Lateness
<1>6. Sets!TypeOK'
  BY <1>1, <1>2, <1>3, <1>4, WheelListsAssumption DEF Sets!IInv, Sets!TypeOK
<1>7. Sets!SlotsMatch'
  BY <1>3, <1>4 DEF Sets!IInv, Sets!TypeOK, Sets!SlotsMatch
<1>8. t \notin todo /\ t # firing
  BY <1>4, WheelListsAssumption DEF Sets!IInv, Sets!TypeOK, Sets!SlotsMatch
<1>9. Sets!Countdown'
  <2> SUFFICES ASSUME NEW u \in held' \ {firing'} PROVE asked'[u] + Sets!Lateness(u)' = Sets!Left(u)'
    BY DEF Sets!Countdown
  <2>1. CASE u = t
    BY <2>1, <1>2, <1>3, <1>4, <1>5, <1>8, WheelListsAssumption
       DEF Sets!IInv, Sets!TypeOK, Sets!Left, Sets!Ahead
  <2>2. CASE u # t
    BY <2>2, <1>4 DEF Sets!IInv, Sets!TypeOK, Sets!Countdown, Sets!Left, Sets!Lateness, Sets!Ahead
  <2> QED BY <2>1, <2>2
<1>10. Sets!FiringDue' /\ Sets!Walk'
  BY <1>4, <1>8 DEF Sets!IInv, Sets!TypeOK, Sets!FiringDue, Sets!Lateness, Sets!Walk
<1> QED BY <1>6, <1>7, <1>9, <1>10 DEF Sets!IInv

LEMMA SetsDelete ==
  ASSUME Sets!IInv, NEW t \in Timers, Sets!Delete(t)
  PROVE  Sets!IInv'
<1>1. Sets!TypeOK'
  BY DEF Sets!IInv, Sets!TypeOK, Sets!Delete, Sets!Forget
<1>2. Sets!SlotsMatch'
  BY DEF Sets!IInv, Sets!TypeOK, Sets!SlotsMatch, Sets!Delete, Sets!Forget
<1>3. Sets!Countdown'
  BY DEF Sets!IInv, Sets!TypeOK, Sets!SlotsMatch, Sets!Countdown, Sets!Left, Sets!Lateness, Sets!Ahead, Sets!Delete, Sets!Forget
<1>4. Sets!FiringDue' /\ Sets!Walk'
  BY DEF Sets!IInv, Sets!FiringDue, Sets!Lateness, Sets!Walk, Sets!Delete, Sets!Forget
<1> QED BY <1>1, <1>2, <1>3, <1>4 DEF Sets!IInv

LEMMA SetsTickBegin == Sets!IInv /\ Sets!TickBegin => Sets!IInv'
<1> SUFFICES ASSUME Sets!IInv, Sets!TickBegin PROVE Sets!IInv'
  OBVIOUS
<1>1. Sets!TypeOK' /\ Sets!SlotsMatch'
  BY DEF Sets!IInv, Sets!TypeOK, Sets!SlotsMatch, Sets!FiringDue, Sets!TickBegin
<1>2. Sets!Countdown'
  BY DEF Sets!IInv, Sets!TypeOK, Sets!SlotsMatch, Sets!Countdown, Sets!Left, Sets!Lateness, Sets!Ahead, Sets!TickBegin
<1>3. Sets!FiringDue' /\ Sets!Walk'
  BY DEF Sets!IInv, Sets!FiringDue, Sets!Lateness, Sets!Walk, Sets!TickBegin
<1> QED BY <1>1, <1>2, <1>3 DEF Sets!IInv

LEMMA SetsTurn ==
  ASSUME Sets!IInv, NEW t \in Timers, Sets!Turn(t)
  PROVE  Sets!IInv'
<1>1. Sets!TypeOK' /\ Sets!SlotsMatch' /\ Sets!FiringDue' /\ Sets!Walk'
  BY DEF Sets!IInv, Sets!TypeOK, Sets!SlotsMatch, Sets!FiringDue, Sets!Lateness, Sets!Walk, Sets!Turn
<1>2. Sets!Countdown'
  <2> SUFFICES ASSUME NEW u \in held' \ {firing'} PROVE asked'[u] + Sets!Lateness(u)' = Sets!Left(u)'
    BY DEF Sets!Countdown
  <2>1. CASE u = t
    <3>1. turns[t] \in Nat /\ turns[t] > 0 /\ turns'[t] = turns[t] - 1
      BY DEF Sets!IInv, Sets!TypeOK, Sets!Turn
    <3>2. asked[t] + Sets!Lateness(t) = turns[t] * N
      BY <2>1, <3>1, WheelListsAssumption
         DEF Sets!IInv, Sets!TypeOK, Sets!SlotsMatch, Sets!Countdown, Sets!Left, Sets!Lateness, Sets!Ahead, Sets!Slots, Sets!Turn
    <3>3. Sets!Left(t)' = turns'[t] * N + N
      BY <3>1, WheelListsAssumption DEF Sets!IInv, Sets!TypeOK, Sets!SlotsMatch, Sets!Left, Sets!Lateness, Sets!Ahead, Sets!Slots, Sets!Turn
    <3>4. asked'[t] = asked[t] /\ Sets!Lateness(t)' = Sets!Lateness(t)
      BY DEF Sets!Turn, Sets!Lateness
    <3> QED BY <2>1, <3>1, <3>2, <3>3, <3>4, TurnTime
  <2>2. CASE u # t
    BY <2>2 DEF Sets!IInv, Sets!TypeOK, Sets!Countdown, Sets!Left, Sets!Lateness, Sets!Ahead, Sets!Turn
  <2> QED BY <2>1, <2>2
<1> QED BY <1>1, <1>2 DEF Sets!IInv

LEMMA SetsFire ==
  ASSUME Sets!IInv, NEW t \in Timers, Sets!Fire(t)
  PROVE  Sets!IInv'
<1>1. Sets!TypeOK' /\ Sets!SlotsMatch' /\ Sets!Walk'
  BY DEF Sets!IInv, Sets!TypeOK, Sets!SlotsMatch, Sets!Walk, Sets!Fire
<1>2. Sets!Countdown'
  BY WheelListsAssumption DEF Sets!IInv, Sets!TypeOK, Sets!SlotsMatch, Sets!Countdown, Sets!Left, Sets!Lateness, Sets!Ahead, Sets!Fire
<1>3. Sets!FiringDue'
  <2>1. /\ intick /\ t \in todo /\ t \in held \ {firing} /\ turns[t] = 0 /\ kept[t] = current
        /\ firing' = t /\ UNCHANGED <<intick, turns, asked, again>>
    BY WheelListsAssumption DEF Sets!IInv, Sets!TypeOK, Sets!SlotsMatch, Sets!Fire
  <2>2. asked[t] + Sets!Lateness(t) = Sets!Left(t)
    BY <2>1 DEF Sets!IInv, Sets!Countdown
  <2>3. Sets!Left(t) = 0
    BY <2>1, WheelListsAssumption DEF Sets!IInv, Sets!TypeOK, Sets!Left, Sets!Ahead, Sets!Slots
  <2> QED BY <2>1, <2>2, <2>3 DEF Sets!FiringDue, Sets!Lateness
<1> QED BY <1>1, <1>2, <1>3 DEF Sets!IInv

LEMMA SetsFired == Sets!IInv /\ Sets!Fired => Sets!IInv'
<1> SUFFICES ASSUME Sets!IInv, Sets!Fired PROVE Sets!IInv'
  OBVIOUS
<1>1. Sets!TypeOK' /\ Sets!SlotsMatch' /\ Sets!FiringDue' /\ Sets!Walk'
  BY DEF Sets!IInv, Sets!TypeOK, Sets!SlotsMatch, Sets!FiringDue, Sets!Lateness, Sets!Walk, Sets!Fired, Sets!Forget
<1>2. Sets!Countdown'
  BY WheelListsAssumption DEF Sets!IInv, Sets!TypeOK, Sets!SlotsMatch, Sets!Countdown, Sets!Left, Sets!Lateness, Sets!Ahead, Sets!Fired, Sets!Forget
<1> QED BY <1>1, <1>2 DEF Sets!IInv

LEMMA SetsTickEnd == Sets!IInv /\ Sets!TickEnd => Sets!IInv'
<1> SUFFICES ASSUME Sets!IInv, Sets!TickEnd PROVE Sets!IInv'
  OBVIOUS
<1>1. current \in 0 .. (N - 1) /\ current + 1 \in 0 .. (2 * N - 1)
  BY WheelListsAssumption DEF Sets!IInv, Sets!TypeOK, Sets!Slots
<1>2. (current + 1) % N = IF current + 1 < N THEN current + 1 ELSE current + 1 - N
  BY <1>1, ModWrap, WheelListsAssumption
<1>3. current' = IF current + 1 < N THEN current + 1 ELSE 0
  BY <1>1, <1>2, WheelListsAssumption DEF Sets!TickEnd
<1>4. current' \in Sets!Slots
  BY <1>1, <1>3, WheelListsAssumption DEF Sets!Slots
<1>5. Sets!TypeOK'
  <2>1. asked' \in [Timers -> Int]
    BY DEF Sets!IInv, Sets!TypeOK, Sets!TickEnd
  <2> QED BY <1>4, <2>1 DEF Sets!IInv, Sets!TypeOK, Sets!TickEnd, Sets!Slots
<1>6. Sets!SlotsMatch' /\ Sets!FiringDue' /\ Sets!Walk'
  BY <1>4 DEF Sets!IInv, Sets!TypeOK, Sets!SlotsMatch, Sets!FiringDue, Sets!Lateness, Sets!Walk, Sets!TickEnd
<1>7. Sets!Countdown'
  <2> SUFFICES ASSUME NEW u \in held' \ {firing'} PROVE asked'[u] + Sets!Lateness(u)' = Sets!Left(u)'
    BY DEF Sets!Countdown
  <2>1. u \in held \ {firing} /\ u \in Timers /\ kept[u] \in 0 .. (N - 1) /\ turns[u] \in Nat
    BY DEF Sets!IInv, Sets!TypeOK, Sets!TickEnd, Sets!Slots
  <2>2. asked[u] + Sets!Lateness(u) = turns[u] * N + (IF kept[u] = current THEN N ELSE Sets!Ahead(kept[u]))
    BY <2>1, WheelListsAssumption DEF Sets!IInv, Sets!TypeOK, Sets!Countdown, Sets!Left, Sets!Lateness, Sets!Ahead, Sets!Slots, Sets!TickEnd
  <2>3. Sets!Left(u)' = turns[u] * N + Sets!Ahead(kept[u])'
    BY <1>3, <1>4, <2>1, WheelListsAssumption DEF Sets!Left, Sets!Lateness, Sets!Ahead, Sets!TickEnd, Sets!Slots
  <2>4. Sets!Ahead(kept[u])' =
          IF kept[u] >= current' THEN kept[u] - current' ELSE kept[u] - current' + N
    BY DEF Sets!Ahead, Sets!TickEnd
  <2>5. Sets!Ahead(kept[u])' + 1 =
          IF kept[u] = current THEN N ELSE Sets!Ahead(kept[u])
    BY <1>1, <1>3, <2>1, <2>4, WheelListsAssumption DEF Sets!Ahead
  <2>6. asked'[u] = asked[u] - 1 /\ Sets!Lateness(u)' = Sets!Lateness(u)
    BY <2>1 DEF Sets!TickEnd, Sets!Lateness
  <2>7. Sets!Ahead(kept[u])' \in Int
    BY <1>1, <1>3, <2>1, <2>4, WheelListsAssumption
  <2>8. turns[u] * N \in Int
    BY <2>1, WheelListsAssumption
  <2>9. asked[u] \in Int /\ Sets!Lateness(u) \in Int
    BY <2>1, WheelListsAssumption DEF Sets!IInv, Sets!TypeOK, Sets!Lateness
  <2> QED BY <2>2, <2>3, <2>5, <2>6, <2>7, <2>8, <2>9
<1> QED BY <1>5, <1>6, <1>7 DEF Sets!IInv

\* The inductive invariant: see the comment before Ahead in TimeWheel.
THEOREM SetsInvariance == Sets!Spec => []Sets!IInv
<1>1. Sets!IInv /\ [Sets!Next]_(Sets!vars) => Sets!IInv'
  <2> SUFFICES ASSUME Sets!IInv, [Sets!Next]_(Sets!vars) PROVE Sets!IInv'
    OBVIOUS
  <2>1. ASSUME NEW t \in Timers, NEW timeout \in Timeouts, Sets!Add(t, timeout) PROVE Sets!IInv'
    BY <2>1, SetsAdd
  <2>2. ASSUME NEW t \in Timers, Sets!Delete(t) PROVE Sets!IInv'
    BY <2>2, SetsDelete
  <2>3. ASSUME NEW t \in Timers, Sets!Turn(t) PROVE Sets!IInv'
    BY <2>3, SetsTurn
  <2>4. ASSUME NEW t \in Timers, Sets!Fire(t) PROVE Sets!IInv'
    BY <2>4, SetsFire
  <2>5. CASE Sets!TickBegin BY <2>5, SetsTickBegin
  <2>6. CASE Sets!Fired BY <2>6, SetsFired
  <2>7. CASE Sets!TickEnd BY <2>7, SetsTickEnd
  <2>8. CASE UNCHANGED Sets!vars
    BY <2>8 DEF Sets!vars, Sets!IInv, Sets!TypeOK, Sets!SlotsMatch, Sets!Countdown, Sets!FiringDue, Sets!Walk, Sets!Left, Sets!Lateness, Sets!Ahead
  <2> QED BY <2>1, <2>2, <2>3, <2>4, <2>5, <2>6, <2>7, <2>8 DEF Sets!Next
<1> QED BY <1>1, SetsInit, PTL DEF Sets!Spec

\* Every timer is called back after exactly the ticks it was added for
\* (timer_wheel.h lines 62-64 and 105-138), or a whole turn later if a callback
\* added it for a multiple of N, whatever the number of slots.
THEOREM WheelOnTime == Sets!Spec => []Sets!OnTime
<1>1. Sets!IInv => Sets!OnTime
  <2> SUFFICES ASSUME Sets!IInv, firing # NULL PROVE asked[firing] = -Sets!Lateness(firing)
    BY DEF Sets!OnTime
  <2>1. asked[firing] \in Int /\ asked[firing] + Sets!Lateness(firing) = 0
    BY DEF Sets!IInv, Sets!TypeOK, Sets!FiringDue
  <2>2. Sets!Lateness(firing) \in Int
    BY WheelListsAssumption DEF Sets!Lateness
  <2> QED BY <2>1, <2>2
<1> QED BY <1>1, SetsInvariance, PTL

\* No timer is still in the wheel after that tick.
THEOREM WheelNoneMissed == Sets!Spec => []Sets!NoneMissed
<1>1. Sets!IInv => Sets!NoneMissed
  <2> SUFFICES ASSUME Sets!IInv, NEW t \in held PROVE asked[t] >= -Sets!Lateness(t)
    BY DEF Sets!NoneMissed
  <2>1. asked[t] \in Int /\ Sets!Lateness(t) \in Int
    BY WheelListsAssumption DEF Sets!IInv, Sets!TypeOK, Sets!Lateness
  <2>2. CASE t = firing
    <3>1. asked[t] + Sets!Lateness(t) = 0
      BY <2>2, WheelListsAssumption DEF Sets!IInv, Sets!TypeOK, Sets!FiringDue
    <3> QED BY <2>1, <3>1
  <2>3. CASE t # firing
    <3>1. asked[t] + Sets!Lateness(t) = Sets!Left(t)
      BY <2>3 DEF Sets!IInv, Sets!Countdown
    <3>2. turns[t] \in Nat /\ kept[t] \in Sets!Slots
      BY DEF Sets!IInv, Sets!TypeOK
    <3>3. turns[t] * N >= 0 /\ turns[t] * N \in Int
      BY <3>2, WheelListsAssumption
    <3>4. Sets!Ahead(kept[t]) >= 0 /\ Sets!Ahead(kept[t]) \in Int
      BY <3>2, WheelListsAssumption DEF Sets!IInv, Sets!TypeOK, Sets!Ahead, Sets!Slots
    <3>5. Sets!Left(t) >= 0 /\ Sets!Left(t) \in Int
      BY <3>3, <3>4, WheelListsAssumption DEF Sets!Left
    <3> QED BY <2>1, <3>1, <3>5
  <2> QED BY <2>2, <2>3
<1> QED BY <1>1, SetsInvariance, PTL

\* Together: the callback comes after exactly the ticks asked for, except for the
\* timers that callbacks add for a multiple of N ticks, and these are one turn late.
THEOREM WheelPunctual == Sets!Spec => []Punctual
<1>1. Sets!OnTime /\ Sets!NoneMissed => Punctual BY DEF Punctual, Sets!Punctual
<1> QED BY <1>1, WheelOnTime, WheelNoneMissed, PTL

\* delete_timer (timer_wheel.h:79) and tick() always find a timer in the slot it
\* remembers, and no slot holds a deleted one.
THEOREM WheelSlotsMatch == Sets!Spec => []SlotsMatch
<1>1. Sets!IInv => SlotsMatch BY DEF Sets!IInv, SlotsMatch
<1> QED BY <1>1, SetsInvariance, PTL


-----------------------------------------------------------------------------
(* Following pointers.  Links have ranks when they lead downwards: then no *)
(* loop along them is endless.                                             *)

Pointers == [Timers -> Timers \cup {NULL}]

\* The numbers rk, up to B, fall along the links of the timers of E.
Ranked(links, E, B, rk) ==
  /\ B \in Nat /\ rk \in [Timers -> 0 .. B]
  /\ \A t \in E : links[t] # NULL => rk[links[t]] < rk[t]

\* R is a path from p: it is closed under links, and all of it comes from p.
Path(links, p, R) ==
  /\ p # NULL => p \in R
  /\ \A t \in R : links[t] = NULL \/ links[t] \in R
  /\ \A t \in R : t = p \/ \E u \in R : links[u] = t

LEMMA HasLeast ==
  ASSUME NEW S \in SUBSET Nat, S # {}
  PROVE  \E m \in S : \A n \in S : m <= n
<1>1. PICK m \in S : \A n \in S : <<n, m>> \notin OpToRel(<, Nat)
  BY NatLessThanWellFounded, WFMin
<1>2. OpToRel(<, Nat) = {p \in Nat \X Nat : p[1] < p[2]}
  BY DEF OpToRel
<1>3. ASSUME NEW n \in S PROVE m <= n
  <2>1. n \in Nat /\ m \in Nat
    OBVIOUS
  <2>2. <<n, m>> \notin {p \in Nat \X Nat : p[1] < p[2]}
    BY <1>1, <1>2
  <2> QED BY <2>1, <2>2
<1> QED BY <1>3

\* Among some timers with ranks one has the highest.
LEMMA HasHighest ==
  ASSUME NEW S \in SUBSET Timers, S # {}, NEW B \in Nat, NEW rk \in [Timers -> 0 .. B]
  PROVE  \E t \in S : \A u \in S : rk[u] <= rk[t]
<1> DEFINE D == {B - rk[t] : t \in S}
<1>1. D \in SUBSET Nat /\ D # {}
  OBVIOUS
<1>2. PICK m \in D : \A n \in D : m <= n
  <2> HIDE DEF D
  <2> QED BY <1>1, HasLeast
<1>3. PICK t \in S : m = B - rk[t]
  OBVIOUS
<1>4. \A u \in S : rk[u] <= rk[t]
  <2> SUFFICES ASSUME NEW u \in S PROVE rk[u] <= rk[t]
    OBVIOUS
  <2>1. B - rk[t] <= B - rk[u]
    BY <1>2, <1>3
  <2>2. rk[t] \in 0 .. B /\ rk[u] \in 0 .. B
    OBVIOUS
  <2> QED BY <2>1, <2>2
<1> QED BY <1>4

\* The loop of Reach: what it goes through, step by step.
LEMMA LoopIs ==
  ASSUME NEW links \in Pointers, NEW p \in Timers \cup {NULL}
  PROVE  \E at \in [0 .. Cardinality(Timers) -> Timers \cup {NULL}] :
           /\ at[0] = p
           /\ \A i \in 1 .. Cardinality(Timers) :
                at[i] = IF at[i - 1] = NULL THEN NULL ELSE links[at[i - 1]]
           /\ Reach(links, p) = {at[i] : i \in 0 .. Cardinality(Timers)} \ {NULL}
<1> DEFINE M    == Cardinality(Timers)
           P    == Timers \cup {NULL}
           Step(x) == IF x = NULL THEN NULL ELSE links[x]
           R(f) == f = [i \in 0 .. M |-> IF i = 0 THEN p
                                         ELSE IF f[i - 1] = NULL THEN NULL ELSE links[f[i - 1]]]
           G(n) == \E f \in [0 .. n -> P] : f[0] = p /\ \A i \in 1 .. n : f[i] = Step(f[i - 1])
           Bad  == {n \in Nat : ~G(n)}
<1>1. M \in Nat
  BY FS_CardinalityType, WheelListsAssumption
<1> HIDE DEF M
<1>2. \A x \in P : Step(x) \in P
  BY DEF Pointers
<1>3. Bad = {}
  <2> SUFFICES ASSUME Bad # {} PROVE FALSE
    OBVIOUS
  <2>1. PICK m \in Bad : \A n \in Bad : m <= n
    <3>1. Bad \in SUBSET Nat
      OBVIOUS
    <3> HIDE DEF Bad
    <3> QED BY <3>1, HasLeast
  <2>2. m \in Nat /\ ~G(m)
    OBVIOUS
  <2>3. G(0)
    <3>1. [i \in 0 .. 0 |-> p] \in [0 .. 0 -> P] /\ [i \in 0 .. 0 |-> p][0] = p /\ 1 .. 0 = {}
      OBVIOUS
    <3> QED BY <3>1
  <2> HIDE DEF G
  <2>4. m - 1 \in Nat /\ G(m - 1)
    BY <2>1, <2>2, <2>3
  <2> USE DEF G
  <2> HIDE DEF Step
  <2>5. PICK f \in [0 .. m - 1 -> P] : f[0] = p /\ \A i \in 1 .. m - 1 : f[i] = Step(f[i - 1])
    BY <2>4
  <2> DEFINE g == [i \in 0 .. m |-> IF i = m THEN Step(f[m - 1]) ELSE f[i]]
  <2>6. g \in [0 .. m -> P]
    <3>1. f[m - 1] \in P
      BY <2>4
    <3>2. \A i \in 0 .. m : i = m \/ i \in 0 .. m - 1
      BY <2>4
    <3> HIDE DEF P
    <3> QED BY <1>2, <3>1, <3>2
  <2>7. g[0] = p
    BY <2>4, <2>5
  <2>8. ASSUME NEW i \in 1 .. m PROVE g[i] = Step(g[i - 1])
    <3>1. g[i - 1] = f[i - 1]
      BY <2>4
    <3>2. CASE i = m
      BY <2>4, <3>1, <3>2
    <3>3. CASE i # m
      BY <2>4, <2>5, <3>1, <3>3
    <3> QED BY <3>2, <3>3
  <2>9. G(m)
    <3> HIDE DEF g, P
    <3> QED BY <2>6, <2>7, <2>8
  <2> QED BY <2>2, <2>9
<1>4. PICK w \in [0 .. M -> P] : w[0] = p /\ \A i \in 1 .. M : w[i] = Step(w[i - 1])
  <2>1. G(M)
    <3> HIDE DEF G
    <3> QED BY <1>1, <1>3
  <2> QED BY <2>1
<1>5. R(w)
  <2>1. w = [i \in 0 .. M |-> w[i]]
    OBVIOUS
  <2>2. \A i \in 0 .. M : i = 0 \/ i \in 1 .. M
    BY <1>1
  <2>3. \A i \in 0 .. M : w[i] = IF i = 0 THEN p
                                 ELSE IF w[i - 1] = NULL THEN NULL ELSE links[w[i - 1]]
    BY <1>4, <2>2
  <2> QED BY <2>1, <2>3
<1> DEFINE at == CHOOSE f : R(f)
<1>6. R(at)
  <2> HIDE DEF R
  <2> QED BY <1>5
<1> HIDE DEF at
<1>7. /\ at = [i \in 0 .. M |-> at[i]] /\ at[0] = p
      /\ \A i \in 1 .. M : at[i] = IF at[i - 1] = NULL THEN NULL ELSE links[at[i - 1]]
  <2>1. 0 \in 0 .. M /\ \A i \in 1 .. M : i \in 0 .. M /\ i # 0
    BY <1>1
  <2>2. at = [i \in 0 .. M |-> IF i = 0 THEN p
                               ELSE IF at[i - 1] = NULL THEN NULL ELSE links[at[i - 1]]]
    BY <1>6
  <2>3. \A i \in 0 .. M : at[i] = IF i = 0 THEN p
                                  ELSE IF at[i - 1] = NULL THEN NULL ELSE links[at[i - 1]]
    BY <2>2
  <2>4. at = [i \in 0 .. M |-> at[i]]
    BY <2>2
  <2> QED BY <2>1, <2>3, <2>4
<1>8. at \in [0 .. M -> P]
  <2> DEFINE Out == {i \in 0 .. M : at[i] \notin P}
  <2>1. Out = {}
    <3> SUFFICES ASSUME Out # {} PROVE FALSE
      OBVIOUS
    <3>1. PICK m \in Out : \A n \in Out : m <= n
      <4>1. Out \in SUBSET Nat
        BY <1>1
      <4> HIDE DEF Out
      <4> QED BY <4>1, HasLeast
    <3>2. m \in 0 .. M /\ at[m] \notin P
      OBVIOUS
    <3>3. m \in 1 .. M
      BY <1>1, <1>7, <3>2
    <3>4. m - 1 \in 0 .. M /\ m - 1 \notin Out
      BY <1>1, <3>1, <3>3
    <3>5. at[m - 1] \in P
      BY <3>4
    <3> QED BY <1>2, <1>7, <3>2, <3>3, <3>5
  <2> QED BY <1>7, <2>1
<1>9. Reach(links, p) = {at[i] : i \in 0 .. M} \ {NULL}
  <2>1. Reach(links, p) = {at[i] : i \in DOMAIN at} \ {NULL}
    BY DEF Reach, at, M
  <2>2. DOMAIN at = 0 .. M
    BY <1>8
  <2> QED BY <2>1, <2>2
<1> QED BY <1>7, <1>8, <1>9 DEF M

\* What is reached from a timer of E is a path within E, if no link leaves E.
LEMMA ReachIsPath ==
  ASSUME NEW links \in Pointers, NEW E \in SUBSET Timers, NEW p \in E \cup {NULL},
         \A t \in E : links[t] \in E \cup {NULL},
         NEW B, NEW rk, Ranked(links, E, B, rk)
  PROVE  Path(links, p, Reach(links, p)) /\ Reach(links, p) \subseteq E
<1> DEFINE M == Cardinality(Timers)
           R == Reach(links, p)
<1>1. PICK at \in [0 .. M -> Timers \cup {NULL}] :
        /\ at[0] = p
        /\ \A i \in 1 .. M : at[i] = IF at[i - 1] = NULL THEN NULL ELSE links[at[i - 1]]
        /\ R = {at[i] : i \in 0 .. M} \ {NULL}
  BY LoopIs
<1>2. M \in Nat /\ IsFiniteSet(Timers) /\ NULL \notin Timers
  BY FS_CardinalityType, WheelListsAssumption
<1> HIDE DEF M, R
<1>3. /\ B \in Nat /\ rk \in [Timers -> 0 .. B]
      /\ \A t \in E : links[t] # NULL => rk[links[t]] < rk[t]
  BY DEF Ranked
<1>4. \A i \in 0 .. M : at[i] \in E \cup {NULL}
  <2> DEFINE Out == {i \in 0 .. M : at[i] \notin E \cup {NULL}}
  <2> SUFFICES ASSUME Out # {} PROVE FALSE
    OBVIOUS
  <2>1. PICK m \in Out : \A n \in Out : m <= n
    <3>1. Out \in SUBSET Nat
      BY <1>2
    <3> HIDE DEF Out
    <3> QED BY <3>1, HasLeast
  <2>2. m \in 1 .. M
    BY <1>1, <1>2
  <2>3. m - 1 \in 0 .. M /\ m - 1 \notin Out
    BY <1>2, <2>1, <2>2
  <2> QED BY <1>1, <2>2, <2>3
\* The ranks fall as long as the loop goes on.
<1>5. \A i, j \in 0 .. M : i < j /\ at[j] # NULL => at[i] # NULL /\ rk[at[j]] < rk[at[i]]
  <2> SUFFICES ASSUME NEW i \in 0 .. M
               PROVE  \A j \in 0 .. M : i < j /\ at[j] # NULL => at[i] # NULL /\ rk[at[j]] < rk[at[i]]
    OBVIOUS
  <2> DEFINE Out == {j \in 0 .. M : i < j /\ at[j] # NULL /\ ~(at[i] # NULL /\ rk[at[j]] < rk[at[i]])}
  <2> SUFFICES ASSUME Out # {} PROVE FALSE
    OBVIOUS
  <2>1. PICK m \in Out : \A n \in Out : m <= n
    <3>1. Out \in SUBSET Nat
      BY <1>2
    <3> HIDE DEF Out
    <3> QED BY <3>1, HasLeast
  <2>2. m \in 1 .. M /\ m - 1 \in 0 .. M /\ i <= m - 1 /\ m - 1 \notin Out
    BY <1>2, <2>1
  <2>3. at[m] # NULL /\ ~(at[i] # NULL /\ rk[at[m]] < rk[at[i]])
    OBVIOUS
  <2>4. at[m - 1] # NULL /\ at[m] = links[at[m - 1]]
    BY <1>1, <2>2, <2>3
  <2>5. at[m - 1] \in E /\ rk[at[m]] < rk[at[m - 1]]
    BY <1>3, <1>4, <2>2, <2>3, <2>4
  <2>6. /\ at[m] \in Timers /\ at[m - 1] \in Timers
        /\ rk[at[m]] \in Int /\ rk[at[m - 1]] \in Int
    BY <1>3, <1>4, <2>2, <2>3, <2>4
  <2>7. i = m - 1 \/ (i < m - 1 /\ at[i] # NULL /\ rk[at[m - 1]] < rk[at[i]])
    BY <1>2, <2>2, <2>4
  <2>8. at[i] # NULL => rk[at[i]] \in Int
    BY <1>3, <1>4
  <2> QED BY <2>3, <2>4, <2>5, <2>6, <2>7, <2>8
\* There are not enough timers to go on for ever.
<1>6. at[M] = NULL
  <2> SUFFICES ASSUME at[M] # NULL PROVE FALSE
    OBVIOUS
  <2>1. \A i \in 0 .. M : at[i] # NULL
    BY <1>2, <1>5
  <2>2. at \in [0 .. M -> Timers]
    BY <2>1
  <2>3. IsFiniteSet(0 .. M) /\ Cardinality(0 .. M) = M + 1
    BY <1>2, FS_Interval
  <2>4. PICK i, j \in 0 .. M : i # j /\ at[i] = at[j]
    <3>1. M < Cardinality(0 .. M)
      BY <1>2, <2>3
    <3> QED BY <1>2, <2>2, <2>3, <3>1, FS_PigeonHole DEF M
  <2>5. rk[at[i]] \in Int
    BY <1>3, <2>2
  <2> QED BY <1>2, <1>5, <2>1, <2>4, <2>5
<1>7. \A t \in R : \E i \in 0 .. M - 1 : at[i] = t
  BY <1>1, <1>2, <1>6
<1>8. R \subseteq E
  BY <1>1, <1>4
<1>9. p # NULL => p \in R
  BY <1>1, <1>2
<1>10. \A t \in R : links[t] = NULL \/ links[t] \in R
  <2> SUFFICES ASSUME NEW t \in R, links[t] # NULL PROVE links[t] \in R
    OBVIOUS
  <2>1. PICK i \in 0 .. M - 1 : at[i] = t
    BY <1>7
  <2>2. t # NULL /\ i + 1 \in 1 .. M /\ (i + 1) - 1 = i /\ i + 1 \in 0 .. M
    BY <1>1, <1>2
  <2>3. at[i + 1] = links[t]
    BY <1>1, <2>1, <2>2
  <2> QED BY <1>1, <2>2, <2>3
<1>11. \A t \in R : t = p \/ \E u \in R : links[u] = t
  <2> SUFFICES ASSUME NEW t \in R, t # p PROVE \E u \in R : links[u] = t
    OBVIOUS
  <2>1. PICK i \in 0 .. M : at[i] = t
    BY <1>1
  <2>2. i \in 1 .. M /\ i - 1 \in 0 .. M /\ t # NULL
    BY <1>1, <1>2, <2>1
  <2>3. at[i - 1] # NULL /\ links[at[i - 1]] = t
    BY <1>1, <2>1, <2>2
  <2>4. at[i - 1] \in R
    BY <1>1, <2>2, <2>3
  <2> QED BY <2>3, <2>4
<1> QED BY <1>8, <1>9, <1>10, <1>11 DEF Path, R

\* No timer of a path has a higher rank than its beginning.
LEMMA HeadIsHighest ==
  ASSUME NEW links \in Pointers, NEW p \in Timers \cup {NULL}, NEW R \in SUBSET Timers,
         Path(links, p, R), NEW B, NEW rk, Ranked(links, R, B, rk)
  PROVE  \A t \in R : p \in R /\ rk[t] <= rk[p]
<1> SUFFICES ASSUME NEW t \in R PROVE p \in R /\ rk[t] <= rk[p]
  OBVIOUS
<1>1. /\ B \in Nat /\ rk \in [Timers -> 0 .. B]
      /\ \A u \in R : links[u] # NULL => rk[links[u]] < rk[u]
  BY DEF Ranked
<1>2. PICK u \in R : \A v \in R : rk[v] <= rk[u]
  BY <1>1, HasHighest
<1>3. u = p
  <2> SUFFICES ASSUME u # p PROVE FALSE
    OBVIOUS
  <2>1. PICK v \in R : links[v] = u
    BY DEF Path
  <2>2. u # NULL /\ rk[u] < rk[v] /\ rk[u] \in Int /\ rk[v] \in Int
    BY <1>1, <2>1, WheelListsAssumption
  <2> QED BY <1>2, <2>2
<1> QED BY <1>2, <1>3

\* There is one path only.
LEMMA ReachIs ==
  ASSUME NEW links \in Pointers, NEW p \in Timers \cup {NULL}, NEW R \in SUBSET Timers,
         Path(links, p, R), NEW B, NEW rk, Ranked(links, R, B, rk)
  PROVE  Reach(links, p) = R
<1>1. /\ B \in Nat /\ rk \in [Timers -> 0 .. B]
      /\ \A u \in R : links[u] # NULL => rk[links[u]] < rk[u]
  BY DEF Ranked
<1>2. Path(links, p, Reach(links, p)) /\ Reach(links, p) \subseteq R
  <2>1. p \in R \cup {NULL} /\ \A t \in R : links[t] \in R \cup {NULL}
    BY DEF Path
  <2> QED BY <2>1, ReachIsPath
<1> DEFINE W == Reach(links, p)
           Rest == R \ W
<1> HIDE DEF W
<1>3. Rest = {}
  <2> SUFFICES ASSUME Rest # {} PROVE FALSE
    OBVIOUS
  <2>1. PICK u \in Rest : \A v \in Rest : rk[v] <= rk[u]
    <3>1. Rest \in SUBSET Timers
      OBVIOUS
    <3> HIDE DEF Rest
    <3> QED BY <1>1, <3>1, HasHighest
  <2>2. u # NULL /\ u # p
    BY <1>2, WheelListsAssumption DEF Path, W
  <2>3. PICK v \in R : links[v] = u
    BY <2>2 DEF Path
  <2>4. rk[u] < rk[v] /\ rk[u] \in Int /\ rk[v] \in Int
    BY <1>1, <2>2, <2>3
  <2>5. v \in W
    BY <2>1, <2>4
  <2> QED BY <1>2, <2>2, <2>3, <2>5 DEF Path, W
<1> QED BY <1>2, <1>3 DEF W

\* What is reached from t is t and what is reached from its successor.
LEMMA ReachNext ==
  ASSUME NEW links \in Pointers, NEW E \in SUBSET Timers, NEW t \in E,
         \A u \in E : links[u] \in E \cup {NULL},
         NEW B, NEW rk, Ranked(links, E, B, rk)
  PROVE  /\ t \notin Reach(links, links[t])
         /\ Reach(links, t) = {t} \cup Reach(links, links[t])
<1> DEFINE W == Reach(links, links[t])
<1>1. Path(links, links[t], W) /\ W \subseteq E
  BY ReachIsPath
<1> HIDE DEF W
<1>2. t # NULL /\ links[t] \in Timers \cup {NULL} /\ W \in SUBSET Timers
  BY <1>1, WheelListsAssumption DEF Pointers
<1>3. \A F \in SUBSET E : Ranked(links, F, B, rk)
  BY DEF Ranked
<1>4. \A u \in W : links[t] \in W /\ rk[u] <= rk[links[t]]
  <2>1. Ranked(links, W, B, rk)
    BY <1>1, <1>3
  <2> QED BY <1>1, <1>2, <2>1, HeadIsHighest
<1>5. t \notin W
  <2> SUFFICES ASSUME t \in W PROVE FALSE
    OBVIOUS
  <2>1. links[t] \in W /\ rk[t] <= rk[links[t]]
    BY <1>4
  <2>2. links[t] # NULL /\ links[t] \in Timers
    BY <1>2, <2>1, WheelListsAssumption
  <2>3. rk[links[t]] < rk[t] /\ rk[t] \in Int /\ rk[links[t]] \in Int
    BY <2>2 DEF Ranked
  <2> QED BY <2>1, <2>3
<1>6. Path(links, t, {t} \cup W)
  BY <1>1 DEF Path
<1>7. {t} \cup W \in SUBSET E
  BY <1>1
<1>8. Reach(links, t) = {t} \cup W
  BY <1>3, <1>6, <1>7, ReachIs
<1> QED BY <1>5, <1>8 DEF W

LEMMA ReachNull ==
  ASSUME NEW links \in Pointers
  PROVE  Reach(links, NULL) = {}
<1>1. Path(links, NULL, {}) /\ Ranked(links, {}, 0, [t \in Timers |-> 0])
  BY DEF Path, Ranked
<1> QED BY <1>1, ReachIs

-----------------------------------------------------------------------------
(* The lists of the wheel. *)

\* next and prev undo each other within a slot, whose head is the only timer
\* without a predecessor.
Linked ==
  /\ \A t \in live :
       /\ next[t] # NULL => next[t] \in live /\ time_slot[next[t]] = time_slot[t] /\ prev[next[t]] = t
       /\ prev[t] # NULL => prev[t] \in live /\ time_slot[prev[t]] = time_slot[t] /\ next[prev[t]] = t
       /\ prev[t] = NULL => slot[time_slot[t]] = t
  /\ \A s \in Slots :
       slot[s] # NULL => slot[s] \in live /\ time_slot[slot[s]] = s /\ prev[slot[s]] = NULL

\* No list leads back to itself: a timer added later is in front of the others.
Falling == \E B \in Nat : \E rk \in [Timers -> 0 .. B] : Ranked(next, live, B, rk)

\* tick() is at a timer of the current slot, or past the last one.
Walking ==
  /\ pc = "idle" => tmp = NULL
  /\ pc = "callback" => tmp # NULL
  /\ tmp # NULL => tmp \in live /\ time_slot[tmp] = cur_slot

ListsIInv == TypeOK /\ Linked /\ Falling /\ Walking

LEMMA ListsInit == Init => ListsIInv
<1> SUFFICES ASSUME Init PROVE ListsIInv
  OBVIOUS
<1>1. 0 \in Slots
  BY WheelListsAssumption DEF Slots
<1>2. TypeOK
  <2>1. slot \in [Slots -> Timers \cup {NULL}] /\ time_slot \in [Timers -> Slots] /\ cur_slot \in Slots
    BY <1>1 DEF Init
  <2>2. rotation \in [Timers -> Nat] /\ left \in [Timers -> Int]
    BY DEF Init
  <2>3. prev \in [Timers -> Timers \cup {NULL}] /\ next \in [Timers -> Timers \cup {NULL}]
    BY DEF Init
  <2> QED BY <2>1, <2>2, <2>3 DEF Init, TypeOK
<1>3. Linked /\ Walking
  BY DEF Init, Linked, Walking
<1>4. Falling
  <2>1. Ranked(next, live, 0, [t \in Timers |-> 0])
    BY DEF Init, Ranked
  <2>2. [t \in Timers |-> 0] \in [Timers -> 0 .. 0] /\ 0 \in Nat
    OBVIOUS
  <2> QED BY <2>1, <2>2 DEF Falling
<1> QED BY <1>2, <1>3, <1>4 DEF ListsIInv

\* The slot line 64 computes.
LEMMA SlotOf ==
  ASSUME TypeOK, NEW timeout \in Timeouts
  PROVE  LET ticks == IF timeout < 1 THEN 1 ELSE timeout
         IN  /\ ticks \in Nat /\ ticks \div N \in Nat
             /\ (cur_slot + (ticks % N)) % N \in Slots
<1> DEFINE ticks == IF timeout < 1 THEN 1 ELSE timeout
<1>1. ticks \in Nat
  BY WheelListsAssumption
<1> HIDE DEF ticks
<1>2. ticks % N \in 0 .. (N - 1) /\ ticks \div N \in Nat
  BY <1>1, DivMod
<1>3. cur_slot + (ticks % N) \in Nat
  BY <1>2, WheelListsAssumption DEF TypeOK, Slots
<1>4. (cur_slot + (ticks % N)) % N \in Slots
  BY <1>3, DivMod DEF Slots
<1> QED BY <1>1, <1>2, <1>4 DEF ticks

\* What add_timer does to the pointers, with ts for the slot it chooses.
Pushed(t, ts) ==
  /\ t \in Timers \ live /\ ts \in Slots
  /\ slot' = [slot EXCEPT ![ts] = t]
  /\ next' = [next EXCEPT ![t] = slot[ts]]
  /\ prev' = [u \in Timers |-> CASE u = t        -> NULL
                                 [] u = slot[ts] -> t
                                 [] OTHER        -> prev[u]]
  /\ time_slot' = [time_slot EXCEPT ![t] = ts]
  /\ live' = live \cup {t}

LEMMA AddIs ==
  ASSUME TypeOK, NEW t \in Timers, NEW timeout \in Timeouts, Add(t, timeout)
  PROVE  \E ts \in Slots : /\ Pushed(t, ts)
                           /\ ts = (cur_slot + (Wheel!Ticks(timeout) % N)) % N
                           /\ rotation' = [rotation EXCEPT ![t] = Wheel!Ticks(timeout) \div N]
                           /\ Wheel!Ticks(timeout) \in Nat /\ Wheel!Ticks(timeout) \div N \in Nat
<1> DEFINE ticks == IF timeout < 1 THEN 1 ELSE timeout
           ts    == (cur_slot + (ticks % N)) % N
<1>1. ticks \in Nat /\ ticks \div N \in Nat /\ ts \in Slots
  BY SlotOf
<1>2. Wheel!Ticks(timeout) = ticks
  BY DEF Wheel!Ticks
<1>3. /\ rotation' = [rotation EXCEPT ![t] = ticks \div N]
      /\ slot' = [slot EXCEPT ![ts] = t] /\ next' = [next EXCEPT ![t] = slot[ts]]
      /\ prev' = [u \in Timers |-> CASE u = t        -> NULL
                                     [] u = slot[ts] -> t
                                     [] OTHER        -> prev[u]]
      /\ time_slot' = [time_slot EXCEPT ![t] = ts]
      /\ t \notin live /\ live' = live \cup {t}
  BY DEF Add
<1> HIDE DEF ts, ticks
<1>4. Pushed(t, ts)
  BY <1>1, <1>3 DEF Pushed
<1>5. ts = (cur_slot + (ticks % N)) % N
  BY DEF ts
<1> QED BY <1>1, <1>2, <1>3, <1>4, <1>5

LEMMA PushedKeeps ==
  ASSUME TypeOK, Linked, Falling, NEW t, NEW ts, Pushed(t, ts)
  PROVE  /\ slot' \in [Slots -> Timers \cup {NULL}]
         /\ prev' \in [Timers -> Timers \cup {NULL}] /\ next' \in [Timers -> Timers \cup {NULL}]
         /\ time_slot' \in [Timers -> Slots] /\ live' \subseteq Timers
         /\ Linked' /\ Falling'
<1>0. NULL \notin Timers /\ t \in Timers /\ t \notin live /\ ts \in Slots /\ t # NULL
  BY WheelListsAssumption DEF Pushed
<1>1. /\ slot' \in [Slots -> Timers \cup {NULL}] /\ next' \in [Timers -> Timers \cup {NULL}]
      /\ time_slot' \in [Timers -> Slots] /\ live' \subseteq Timers
  BY <1>0 DEF TypeOK, Pushed
<1>2. prev' \in [Timers -> Timers \cup {NULL}]
  BY <1>0 DEF TypeOK, Pushed
<1>3. /\ \A u \in Timers : next'[u] = IF u = t THEN slot[ts] ELSE next[u]
      /\ \A u \in Timers : prev'[u] = IF u = t THEN NULL ELSE IF u = slot[ts] THEN t ELSE prev[u]
      /\ \A u \in Timers : time_slot'[u] = IF u = t THEN ts ELSE time_slot[u]
      /\ \A s \in Slots : slot'[s] = IF s = ts THEN t ELSE slot[s]
      /\ live' = live \cup {t} /\ live \subseteq Timers
      /\ slot[ts] \in Timers \cup {NULL}
      /\ \A u \in Timers : time_slot[u] \in Slots
  <2>1. \A u \in Timers : next'[u] = IF u = t THEN slot[ts] ELSE next[u]
    BY <1>0 DEF TypeOK, Pushed
  <2>2. \A u \in Timers : prev'[u] = IF u = t THEN NULL ELSE IF u = slot[ts] THEN t ELSE prev[u]
    <3> SUFFICES ASSUME NEW u \in Timers
                 PROVE  prev'[u] = IF u = t THEN NULL ELSE IF u = slot[ts] THEN t ELSE prev[u]
      OBVIOUS
    <3>1. prev'[u] = CASE u = t        -> NULL
                       [] u = slot[ts] -> t
                       [] OTHER        -> prev[u]
      BY DEF Pushed
    <3>2. slot[ts] # t
      BY <1>0 DEF Linked
    <3> QED BY <3>1, <3>2
  <2>3. \A u \in Timers : time_slot'[u] = IF u = t THEN ts ELSE time_slot[u]
    BY <1>0 DEF TypeOK, Pushed
  <2>4. \A s \in Slots : slot'[s] = IF s = ts THEN t ELSE slot[s]
    BY <1>0 DEF TypeOK, Pushed
  <2>5. live' = live \cup {t} /\ live \subseteq Timers /\ slot[ts] \in Timers \cup {NULL}
    BY <1>0 DEF TypeOK, Pushed
  <2> QED BY <2>1, <2>2, <2>3, <2>4, <2>5 DEF TypeOK
<1>4. Linked'
  <2> SUFFICES
      /\ \A u \in live' :
           /\ next'[u] # NULL => next'[u] \in live' /\ time_slot'[next'[u]] = time_slot'[u] /\ prev'[next'[u]] = u
           /\ prev'[u] # NULL => prev'[u] \in live' /\ time_slot'[prev'[u]] = time_slot'[u] /\ next'[prev'[u]] = u
           /\ prev'[u] = NULL => slot'[time_slot'[u]] = u
      /\ \A s \in Slots :
           slot'[s] # NULL => slot'[s] \in live' /\ time_slot'[slot'[s]] = s /\ prev'[slot'[s]] = NULL
    BY DEF Linked
  <2>1. ASSUME NEW u \in live'
        PROVE  next'[u] # NULL => next'[u] \in live' /\ time_slot'[next'[u]] = time_slot'[u] /\ prev'[next'[u]] = u
    BY <1>0, <1>3, <2>1 DEF Linked
  <2>2. ASSUME NEW u \in live'
        PROVE  prev'[u] # NULL => prev'[u] \in live' /\ time_slot'[prev'[u]] = time_slot'[u] /\ next'[prev'[u]] = u
    BY <1>0, <1>3, <2>2 DEF Linked
  <2>3. ASSUME NEW u \in live'
        PROVE  prev'[u] = NULL => slot'[time_slot'[u]] = u
    BY <1>0, <1>3, <2>3 DEF Linked
  <2>4. ASSUME NEW s \in Slots, slot'[s] # NULL
        PROVE  slot'[s] \in live' /\ time_slot'[slot'[s]] = s /\ prev'[slot'[s]] = NULL
    BY <1>0, <1>3, <2>4 DEF Linked
  <2> QED BY <2>1, <2>2, <2>3, <2>4
<1>5. Falling'
  <2>0. PICK B \in Nat : \E rk \in [Timers -> 0 .. B] : Ranked(next, live, B, rk)
    BY DEF Falling
  <2>1. PICK rk \in [Timers -> 0 .. B] : Ranked(next, live, B, rk)
    BY <2>0
  <2> DEFINE rk1 == [rk EXCEPT ![t] = B + 1]
  <2>2. B + 1 \in Nat /\ rk1 \in [Timers -> 0 .. B + 1]
    <3>1. \A u \in Timers : rk[u] \in 0 .. B + 1
      OBVIOUS
    <3>2. B + 1 \in 0 .. B + 1 /\ B + 1 \in Nat
      OBVIOUS
    <3>3. rk \in [Timers -> 0 .. B + 1]
      BY <3>1
    <3> QED BY <3>2, <3>3
  <2>3. \A u \in Timers : rk1[u] = IF u = t THEN B + 1 ELSE rk[u]
    OBVIOUS
  <2>4. ASSUME NEW u \in live', next'[u] # NULL PROVE rk1[next'[u]] < rk1[u]
    <3> HIDE DEF rk1
    <3>1. CASE u = t
      <4>1. next'[u] = slot[ts] /\ slot[ts] \in Timers /\ slot[ts] # t
        BY <1>0, <1>3, <2>4, <3>1 DEF Linked
      <4>2. rk[slot[ts]] \in 0 .. B
        BY <4>1
      <4> QED BY <1>0, <2>3, <3>1, <4>1, <4>2
    <3>2. CASE u # t
      <4>1. u \in live /\ next'[u] = next[u] /\ next[u] # NULL /\ next[u] \in live
        BY <1>0, <1>3, <2>4, <3>2 DEF Linked
      <4>2. rk[next[u]] < rk[u]
        BY <2>1, <4>1 DEF Ranked
      <4> QED BY <1>0, <1>3, <2>3, <3>2, <4>1, <4>2
    <3> QED BY <3>1, <3>2
  <2>5. Ranked(next', live', B + 1, rk1)
    <3> HIDE DEF rk1
    <3> QED BY <2>2, <2>4 DEF Ranked
  <2>6. \E C \in Nat : \E r \in [Timers -> 0 .. C] : Ranked(next', live', C, r)
    <3> HIDE DEF rk1
    <3> QED BY <2>2, <2>5
  <2> QED BY <2>6 DEF Falling
<1> QED BY <1>1, <1>2, <1>4, <1>5

\* delete_timer and the end of a callback: a timer leaves its list.
LEMMA UnlinkKeeps ==
  ASSUME TypeOK, Linked, Falling, NEW t \in live, Unlink(t, time_slot[t]), UNCHANGED time_slot
  PROVE  /\ slot' \in [Slots -> Timers \cup {NULL}]
         /\ prev' \in [Timers -> Timers \cup {NULL}] /\ next' \in [Timers -> Timers \cup {NULL}]
         /\ live' = live \ {t} /\ live' \subseteq Timers
         /\ Linked' /\ Falling'
<1> DEFINE ts == time_slot[t]
<1>0. NULL \notin Timers /\ t \in Timers /\ t # NULL /\ ts \in Slots /\ live \subseteq Timers
  BY WheelListsAssumption DEF TypeOK
<1>1. /\ \A u \in Timers : next[u] \in Timers \cup {NULL} /\ prev[u] \in Timers \cup {NULL}
      /\ \A u \in Timers : time_slot[u] \in Slots
      /\ \A s \in Slots : slot[s] \in Timers \cup {NULL}
  BY DEF TypeOK
<1>2. /\ slot' = [slot EXCEPT ![ts] = IF t = slot[ts] THEN next[t] ELSE slot[ts]]
      /\ next' = [u \in Timers |-> CASE u = t                       -> NULL
                                     [] t # slot[ts] /\ u = prev[t] -> next[t]
                                     [] OTHER                       -> next[u]]
      /\ prev' = [u \in Timers |-> CASE u = t       -> NULL
                                     [] u = next[t] -> IF t = slot[ts] THEN NULL ELSE prev[t]
                                     [] OTHER       -> prev[u]]
      /\ live' = live \ {t} /\ time_slot' = time_slot
  BY DEF Unlink
<1>3. t = slot[ts] <=> prev[t] = NULL
  BY <1>0 DEF Linked
<1>a. next[t] # t /\ prev[t] # t
  <2>1. PICK B \in Nat : \E rk \in [Timers -> 0 .. B] : Ranked(next, live, B, rk)
    BY DEF Falling
  <2>2. PICK rk \in [Timers -> 0 .. B] : Ranked(next, live, B, rk)
    BY <2>1
  <2>3. next[t] # t
    BY <1>0, <2>2 DEF Ranked
  <2> QED BY <1>0, <2>3 DEF Linked
<1>4. \A u \in Timers : next'[u] = IF u = t THEN NULL
                                    ELSE IF u = prev[t] THEN next[t] ELSE next[u]
  <2> SUFFICES ASSUME NEW u \in Timers
               PROVE  next'[u] = IF u = t THEN NULL ELSE IF u = prev[t] THEN next[t] ELSE next[u]
    OBVIOUS
  <2>1. next'[u] = CASE u = t                       -> NULL
                     [] t # slot[ts] /\ u = prev[t] -> next[t]
                     [] OTHER                       -> next[u]
    BY <1>2
  <2>2. t = slot[ts] => u # prev[t]
    BY <1>0, <1>3
  <2> HIDE DEF ts
  <2> QED BY <1>a, <2>1, <2>2
<1>5. \A u \in Timers : prev'[u] = IF u = t THEN NULL ELSE IF u = next[t] THEN prev[t] ELSE prev[u]
  <2> SUFFICES ASSUME NEW u \in Timers
               PROVE  prev'[u] = IF u = t THEN NULL ELSE IF u = next[t] THEN prev[t] ELSE prev[u]
    OBVIOUS
  <2>1. prev'[u] = CASE u = t       -> NULL
                     [] u = next[t] -> IF t = slot[ts] THEN NULL ELSE prev[t]
                     [] OTHER       -> prev[u]
    BY <1>2
  <2> HIDE DEF ts
  <2> QED BY <1>3, <1>a, <2>1
<1>6. \A s \in Slots : slot'[s] = IF slot[s] = t THEN next[t] ELSE slot[s]
  <2>1. \A s \in Slots : slot[s] = t => s = ts
    BY <1>0 DEF Linked
  <2>2. \A s \in Slots : slot'[s] = IF s = ts THEN (IF t = slot[ts] THEN next[t] ELSE slot[ts])
                                               ELSE slot[s]
    BY <1>0, <1>2 DEF TypeOK
  <2> QED BY <1>0, <2>1, <2>2
<1>7. slot' \in [Slots -> Timers \cup {NULL}]
  BY <1>0, <1>1, <1>2 DEF TypeOK
<1>8. next' \in [Timers -> Timers \cup {NULL}]
  <2>1. \A u \in Timers : next'[u] \in Timers \cup {NULL}
    BY <1>0, <1>1, <1>4
  <2>2. next' = [u \in Timers |-> next'[u]]
    BY <1>2
  <2> QED BY <2>1, <2>2
<1>9. prev' \in [Timers -> Timers \cup {NULL}]
  <2>1. \A u \in Timers : prev'[u] \in Timers \cup {NULL}
    BY <1>0, <1>1, <1>5
  <2>2. prev' = [u \in Timers |-> prev'[u]]
    BY <1>2
  <2> QED BY <2>1, <2>2
<1> HIDE DEF ts
<1>10. Linked'
  <2> SUFFICES
      /\ \A u \in live' :
           /\ next'[u] # NULL => next'[u] \in live' /\ time_slot[next'[u]] = time_slot[u] /\ prev'[next'[u]] = u
           /\ prev'[u] # NULL => prev'[u] \in live' /\ time_slot[prev'[u]] = time_slot[u] /\ next'[prev'[u]] = u
           /\ prev'[u] = NULL => slot'[time_slot[u]] = u
      /\ \A s \in Slots :
           slot'[s] # NULL => slot'[s] \in live' /\ time_slot[slot'[s]] = s /\ prev'[slot'[s]] = NULL
    <3>1. time_slot' = time_slot
      OBVIOUS
    <3> QED BY <3>1 DEF Linked
  <2>1. ASSUME NEW u \in live'
        PROVE  next'[u] # NULL => next'[u] \in live' /\ time_slot[next'[u]] = time_slot[u] /\ prev'[next'[u]] = u
    BY <1>0, <1>2, <1>4, <1>5, <2>1 DEF Linked
  <2>2. ASSUME NEW u \in live'
        PROVE  prev'[u] # NULL => prev'[u] \in live' /\ time_slot[prev'[u]] = time_slot[u] /\ next'[prev'[u]] = u
    BY <1>0, <1>2, <1>4, <1>5, <2>2 DEF Linked
  <2>3. ASSUME NEW u \in live'
        PROVE  prev'[u] = NULL => slot'[time_slot[u]] = u
    BY <1>0, <1>1, <1>2, <1>5, <1>6, <2>3 DEF Linked
  <2>4. ASSUME NEW s \in Slots, slot'[s] # NULL
        PROVE  slot'[s] \in live' /\ time_slot[slot'[s]] = s /\ prev'[slot'[s]] = NULL
    BY <1>0, <1>1, <1>2, <1>5, <1>6, <2>4 DEF Linked
  <2> QED BY <2>1, <2>2, <2>3, <2>4
<1>11. Falling'
  <2>0. PICK B \in Nat : \E rk \in [Timers -> 0 .. B] : Ranked(next, live, B, rk)
    BY DEF Falling
  <2>1. PICK rk \in [Timers -> 0 .. B] : Ranked(next, live, B, rk)
    BY <2>0
  <2>2. ASSUME NEW u \in live', next'[u] # NULL PROVE rk[next'[u]] < rk[u]
    <3>1. u \in live /\ u # t /\ u \in Timers
      BY <1>0, <1>2
    <3>2. \A v \in live : next[v] # NULL => next[v] \in live /\ rk[next[v]] < rk[v]
      BY <2>1 DEF Ranked, Linked
    <3>3. \A v \in live : rk[v] \in Int
      BY <1>0
    <3>4. CASE u = prev[t]
      <4>1. next[u] = t /\ next'[u] = next[t] /\ next[t] # NULL /\ next[t] \in live
        BY <1>0, <1>4, <2>2, <3>1, <3>2, <3>4 DEF Linked
      <4>2. rk[t] < rk[u] /\ rk[next[t]] < rk[t]
        BY <1>0, <3>1, <3>2, <4>1
      <4> QED BY <3>1, <3>3, <4>1, <4>2
    <3>5. CASE u # prev[t]
      BY <1>4, <2>2, <3>1, <3>2, <3>5
    <3> QED BY <3>4, <3>5
  <2>3. Ranked(next', live', B, rk)
    BY <2>2 DEF Ranked
  <2> QED BY <2>3 DEF Falling
<1> QED BY <1>0, <1>2, <1>7, <1>8, <1>9, <1>10, <1>11

-----------------------------------------------------------------------------
(* What is reached. *)

In(s) == {t \in live : time_slot[t] = s}

\* Every slot leads to the timers that remember it.
SlotsReached == \A s \in Slots : Reach(next, slot[s]) = In(s)

LEMMA SlotReach == ListsIInv => SlotsReached
<1> SUFFICES ASSUME ListsIInv, NEW s \in Slots PROVE Reach(next, slot[s]) = In(s)
  BY DEF SlotsReached
<1>1. PICK B \in Nat : \E rk \in [Timers -> 0 .. B] : Ranked(next, live, B, rk)
  BY DEF ListsIInv, Falling
<1>2. PICK rk \in [Timers -> 0 .. B] : Ranked(next, live, B, rk)
  BY <1>1
<1>3. In(s) \in SUBSET Timers /\ next \in Pointers /\ slot[s] \in Timers \cup {NULL}
  BY DEF ListsIInv, TypeOK, In, Pointers
<1>4. Ranked(next, In(s), B, rk)
  BY <1>2 DEF Ranked, In
<1>5. Path(next, slot[s], In(s))
  <2>1. slot[s] # NULL => slot[s] \in In(s)
    BY DEF ListsIInv, Linked, In
  <2>2. \A t \in In(s) : next[t] = NULL \/ next[t] \in In(s)
    BY DEF ListsIInv, Linked, In
  <2>3. \A t \in In(s) : t = slot[s] \/ \E u \in In(s) : next[u] = t
    BY DEF ListsIInv, Linked, In
  <2> QED BY <2>1, <2>2, <2>3 DEF Path
<1> QED BY <1>3, <1>4, <1>5, ReachIs

\* What is left of the walk from a timer, or from nowhere.
LEMMA WalkReach ==
  ASSUME ListsIInv, NEW p \in live \cup {NULL}
  PROVE  /\ Path(next, p, Reach(next, p)) /\ Reach(next, p) \subseteq live
         /\ p # NULL => /\ next[p] \in live \cup {NULL}
                        /\ p \notin Reach(next, next[p])
                        /\ Reach(next, p) = {p} \cup Reach(next, next[p])
         /\ p = NULL => Reach(next, p) = {}
<1>1. PICK B \in Nat : \E rk \in [Timers -> 0 .. B] : Ranked(next, live, B, rk)
  BY DEF ListsIInv, Falling
<1>2. PICK rk \in [Timers -> 0 .. B] : Ranked(next, live, B, rk)
  BY <1>1
<1>3. live \in SUBSET Timers /\ next \in Pointers
  BY DEF ListsIInv, TypeOK, Pointers
<1>4. \A t \in live : next[t] \in live \cup {NULL}
  BY DEF ListsIInv, Linked
<1>5. Path(next, p, Reach(next, p)) /\ Reach(next, p) \subseteq live
  BY <1>2, <1>3, <1>4, ReachIsPath
<1>6. p # NULL => p \notin Reach(next, next[p]) /\ Reach(next, p) = {p} \cup Reach(next, next[p])
  <2> SUFFICES ASSUME p # NULL
               PROVE  p \notin Reach(next, next[p]) /\ Reach(next, p) = {p} \cup Reach(next, next[p])
    OBVIOUS
  <2>1. p \in live
    OBVIOUS
  <2> QED BY <1>2, <1>3, <1>4, <2>1, ReachNext
<1>7. p = NULL => Reach(next, p) = {}
  BY <1>3, ReachNull
<1> QED BY <1>4, <1>5, <1>6, <1>7

\* A timer that a callback adds is in front of the walk and not on it.
LEMMA AddReach ==
  ASSUME ListsIInv, ListsIInv', NEW t, NEW ts, Pushed(t, ts), NEW p \in live \cup {NULL}
  PROVE  Reach(next', p) = Reach(next, p)
<1> DEFINE R == Reach(next, p)
<1>1. Path(next, p, R) /\ R \subseteq live
  BY WalkReach
<1> HIDE DEF R
<1>2. PICK B \in Nat : \E rk \in [Timers -> 0 .. B] : Ranked(next', live', B, rk)
  BY DEF ListsIInv, Falling
<1>3. PICK rk \in [Timers -> 0 .. B] : Ranked(next', live', B, rk)
  BY <1>2
<1>4. next' \in Pointers /\ R \in SUBSET Timers /\ p \in Timers \cup {NULL} /\ R \subseteq live'
  BY <1>1 DEF ListsIInv, TypeOK, Pointers, Pushed
<1>5. \A u \in R : next'[u] = next[u]
  BY <1>1 DEF ListsIInv, TypeOK, Pushed
<1>6. Path(next', p, R) /\ Ranked(next', R, B, rk)
  BY <1>1, <1>3, <1>4, <1>5 DEF Path, Ranked
<1> QED BY <1>4, <1>6, ReachIs DEF R

\* A timer that is unlinked leaves the walk.  The walk may begin at the timer
\* behind it.
LEMMA UnlinkReach ==
  ASSUME ListsIInv, ListsIInv', NEW t \in live, Unlink(t, time_slot[t]),
         NEW p \in live \cup {NULL}, NEW q \in live' \cup {NULL},
         q = IF p = t THEN next[t] ELSE p
  PROVE  Reach(next', q) = Reach(next, p) \ {t}
<1> DEFINE R == Reach(next, p)
           W == R \ {t}
<1>1. Path(next, p, R) /\ R \subseteq live
  BY WalkReach
<1> HIDE DEF R
<1>2. PICK B \in Nat : \E rk \in [Timers -> 0 .. B] : Ranked(next', live', B, rk)
  BY DEF ListsIInv, Falling
<1>3. PICK rk \in [Timers -> 0 .. B] : Ranked(next', live', B, rk)
  BY <1>2
<1>4. /\ live' = live \ {t} /\ t \in Timers /\ t # NULL /\ NULL \notin Timers /\ live \subseteq Timers
      /\ next' \in Pointers /\ next \in Pointers
  BY WheelListsAssumption DEF ListsIInv, TypeOK, Pointers, Unlink
<1>5. W \in SUBSET Timers /\ q \in Timers \cup {NULL} /\ W \subseteq live'
  BY <1>1, <1>4
<1>6. \A u \in live : next[u] # NULL => next[u] \in live /\ prev[next[u]] = u
  BY DEF ListsIInv, Linked
<1>7. \A u \in live : prev[u] # NULL => next[prev[u]] = u
  BY DEF ListsIInv, Linked
<1>8. next[t] # t /\ prev[t] # t
  <2>1. t \notin Reach(next, next[t]) /\ next[t] \in live \cup {NULL}
    BY <1>4, WalkReach
  <2>2. next[t] # NULL => next[t] \in Reach(next, next[t])
    BY <2>1, WalkReach DEF Path
  <2> QED BY <1>4, <1>7, <2>1, <2>2
<1>9. \A u \in live : u # t => next'[u] = IF next[u] = t THEN next[t] ELSE next[u]
  <2> SUFFICES ASSUME NEW u \in live, u # t
               PROVE  next'[u] = IF next[u] = t THEN next[t] ELSE next[u]
    OBVIOUS
  <2>1. next'[u] = CASE u = t                                  -> NULL
                     [] t # slot[time_slot[t]] /\ u = prev[t]  -> next[t]
                     [] OTHER                                  -> next[u]
    BY <1>4 DEF Unlink
  <2>2. next[u] = t <=> u = prev[t]
    <3>1. next[u] = t => u = prev[t]
      BY <1>4, <1>6
    <3>2. u = prev[t] => next[u] = t
      BY <1>4, <1>7
    <3> QED BY <3>1, <3>2
  <2>3. u = prev[t] => t # slot[time_slot[t]]
    BY <1>4 DEF ListsIInv, Linked, TypeOK
  <2> QED BY <2>1, <2>2, <2>3
<1>10. q # NULL => q \in W
  BY <1>1, <1>4, <1>8 DEF Path
<1>11. \A u \in W : next'[u] = NULL \/ next'[u] \in W
  BY <1>1, <1>4, <1>8, <1>9 DEF Path
<1>12. \A u \in W : u = q \/ \E v \in W : next'[v] = u
  <2> SUFFICES ASSUME NEW u \in W, u # q PROVE \E v \in W : next'[v] = u
    OBVIOUS
  <2>1. u # p
    BY <1>4
  <2>2. PICK v \in R : next[v] = u
    BY <1>1, <2>1 DEF Path
  <2>3. CASE v # t
    BY <1>1, <1>9, <2>2, <2>3
  <2>4. CASE v = t
    <3>1. t # p
      BY <2>2, <2>4
    <3>2. PICK w \in R : next[w] = t
      BY <1>1, <2>2, <2>4, <3>1 DEF Path
    <3>3. w # t /\ w \in W /\ next'[w] = u
      BY <1>1, <1>8, <1>9, <2>2, <2>4, <3>2
    <3> QED BY <3>3
  <2> QED BY <2>3, <2>4
<1>13. Path(next', q, W) /\ Ranked(next', W, B, rk)
  BY <1>3, <1>5, <1>10, <1>11, <1>12 DEF Path, Ranked
<1>14. Reach(next', q) = W
  <2> HIDE DEF W
  <2> QED BY <1>4, <1>5, <1>13, ReachIs
<1> QED BY <1>14 DEF R

-----------------------------------------------------------------------------
(* Every step keeps the lists. *)

LEMMA ListsAdd ==
  ASSUME ListsIInv, NEW t \in Timers, NEW timeout \in Timeouts, Add(t, timeout)
  PROVE  ListsIInv'
<1>0. TypeOK /\ Linked /\ Falling /\ Walking
  BY DEF ListsIInv
<1>1. PICK ts \in Slots : /\ Pushed(t, ts)
                          /\ rotation' = [rotation EXCEPT ![t] = Wheel!Ticks(timeout) \div N]
                          /\ Wheel!Ticks(timeout) \in Nat /\ Wheel!Ticks(timeout) \div N \in Nat
  BY <1>0, AddIs
<1>2. /\ slot' \in [Slots -> Timers \cup {NULL}]
      /\ prev' \in [Timers -> Timers \cup {NULL}] /\ next' \in [Timers -> Timers \cup {NULL}]
      /\ time_slot' \in [Timers -> Slots] /\ live' \subseteq Timers
      /\ Linked' /\ Falling'
  BY <1>0, <1>1, PushedKeeps
<1>3. rotation' \in [Timers -> Nat]
  BY <1>0, <1>1 DEF TypeOK
<1>4. left' \in [Timers -> Int] /\ rearmed' \subseteq live'
  <2>1. /\ left' = [left EXCEPT ![t] = Wheel!Ticks(timeout)]
        /\ rearmed' \subseteq rearmed \cup {t} /\ live' = live \cup {t}
    BY DEF Add, Wheel!Note
  <2> QED BY <1>0, <1>1, <2>1 DEF TypeOK
<1>5. UNCHANGED <<cur_slot, tmp, pc>>
  BY DEF Add
<1>6. TypeOK'
  BY <1>0, <1>2, <1>3, <1>4, <1>5 DEF TypeOK
<1>7. Walking'
  <2>1. tmp # NULL => tmp \in live /\ tmp # t /\ tmp \in Timers /\ time_slot[tmp] = cur_slot
    BY <1>0, <1>1 DEF Walking, Pushed, TypeOK
  <2>2. tmp # NULL => tmp \in live' /\ time_slot'[tmp] = cur_slot
    BY <1>0, <1>1, <2>1 DEF Pushed, TypeOK
  <2> QED BY <1>0, <1>5, <2>2 DEF Walking
<1> QED BY <1>2, <1>6, <1>7 DEF ListsIInv

LEMMA ListsDelete ==
  ASSUME ListsIInv, NEW t \in Timers, Delete(t)
  PROVE  ListsIInv'
<1>0. TypeOK /\ Linked /\ Falling /\ Walking
  BY DEF ListsIInv
<1>1. /\ t \in live /\ Unlink(t, time_slot[t]) /\ (pc = "callback" => t # tmp)
      /\ pc \in {"idle", "callback"}
      /\ left' = [left EXCEPT ![t] = 0] /\ rearmed' = rearmed \ {t}
      /\ UNCHANGED <<rotation, time_slot, cur_slot, tmp, pc>>
  BY DEF Delete, UserRuns, Wheel!Forget
<1>2. /\ slot' \in [Slots -> Timers \cup {NULL}]
      /\ prev' \in [Timers -> Timers \cup {NULL}] /\ next' \in [Timers -> Timers \cup {NULL}]
      /\ live' = live \ {t} /\ live' \subseteq Timers
      /\ Linked' /\ Falling'
  BY <1>0, <1>1, UnlinkKeeps
<1>3. TypeOK'
  <2>1. left' \in [Timers -> Int] /\ rearmed' \subseteq live'
    BY <1>0, <1>1, <1>2 DEF TypeOK
  <2> QED BY <1>0, <1>1, <1>2, <2>1 DEF TypeOK
<1>4. Walking'
  BY <1>0, <1>1, <1>2 DEF Walking
<1> QED BY <1>2, <1>3, <1>4 DEF ListsIInv

\* tick() without a callback leaves the pointers alone.
LEMMA ListsTick ==
  ASSUME ListsIInv, TickBegin \/ Turn \/ Fire \/ TickEnd
  PROVE  ListsIInv'
<1>0. TypeOK /\ Linked /\ Falling /\ Walking
  BY DEF ListsIInv
<1>1. UNCHANGED <<slot, prev, next, time_slot, live>>
  BY DEF TickBegin, Turn, Fire, TickEnd, nodes
<1>2. Linked'
  BY <1>0, <1>1 DEF Linked
<1>3. Falling'
  BY <1>0, <1>1 DEF Falling
<1>4. CASE TickBegin
  <2>1. TypeOK'
    BY <1>0, <1>1, <1>4 DEF TypeOK, TickBegin, nodes
  <2>2. Walking'
    BY <1>0, <1>1, <1>4 DEF TypeOK, Linked, Walking, TickBegin
  <2> QED BY <1>2, <1>3, <2>1, <2>2 DEF ListsIInv
<1>5. CASE Turn
  <2>1. tmp \in live /\ tmp \in Timers /\ rotation[tmp] \in Nat /\ rotation[tmp] - 1 \in Nat
    BY <1>0, <1>5 DEF TypeOK, Walking, Turn
  <2>2. rotation' \in [Timers -> Nat]
    BY <1>0, <1>5, <2>1 DEF TypeOK, Turn
  <2>3. TypeOK'
    BY <1>0, <1>1, <1>5, <2>1, <2>2 DEF TypeOK, Turn
  <2>4. Walking'
    BY <1>0, <1>1, <1>5, <2>1 DEF Linked, Walking, Turn
  <2> QED BY <1>2, <1>3, <2>3, <2>4 DEF ListsIInv
<1>6. CASE Fire
  <2>1. TypeOK'
    BY <1>0, <1>1, <1>6 DEF TypeOK, Fire, nodes
  <2>2. Walking'
    BY <1>0, <1>1, <1>6 DEF Walking, Fire
  <2> QED BY <1>2, <1>3, <2>1, <2>2 DEF ListsIInv
<1>7. CASE TickEnd
  <2>1. cur_slot' \in Slots
    <3>1. cur_slot + 1 \in Nat /\ cur_slot' = (cur_slot + 1) % N
      BY <1>0, <1>7, WheelListsAssumption DEF TypeOK, Slots, TickEnd
    <3> QED BY <3>1, DivMod DEF Slots
  <2>2. left' \in [Timers -> Int]
    BY <1>0, <1>7 DEF TypeOK, TickEnd
  <2>3. TypeOK'
    BY <1>0, <1>1, <1>7, <2>1, <2>2 DEF TypeOK, TickEnd, nodes
  <2>4. Walking'
    BY <1>0, <1>7 DEF Walking, TickEnd, nodes
  <2> QED BY <1>2, <1>3, <2>3, <2>4 DEF ListsIInv
<1> QED BY <1>4, <1>5, <1>6, <1>7

LEMMA ListsFired ==
  ASSUME ListsIInv, Fired
  PROVE  ListsIInv'
<1>0. TypeOK /\ Linked /\ Falling /\ Walking
  BY DEF ListsIInv
<1>1. /\ pc = "callback" /\ pc' = "loop" /\ tmp' = next[tmp]
      /\ left' = [left EXCEPT ![tmp] = 0] /\ rearmed' = rearmed \ {tmp}
      /\ UNCHANGED <<rotation, time_slot, cur_slot>>
  BY DEF Fired, Wheel!Forget
<1>2. tmp \in live /\ time_slot[tmp] = cur_slot /\ Unlink(tmp, time_slot[tmp])
  BY <1>0, <1>1 DEF Walking, Fired
<1>3. /\ slot' \in [Slots -> Timers \cup {NULL}]
      /\ prev' \in [Timers -> Timers \cup {NULL}] /\ next' \in [Timers -> Timers \cup {NULL}]
      /\ live' = live \ {tmp} /\ live' \subseteq Timers
      /\ Linked' /\ Falling'
  BY <1>0, <1>1, <1>2, UnlinkKeeps
<1>4. TypeOK'
  <2>1. left' \in [Timers -> Int] /\ rearmed' \subseteq live'
    BY <1>0, <1>1, <1>2, <1>3 DEF TypeOK
  <2>2. tmp' \in Timers \cup {NULL} /\ pc' \in {"idle", "loop", "callback"}
    BY <1>0, <1>1, <1>2 DEF TypeOK
  <2> QED BY <1>0, <1>1, <1>3, <2>1, <2>2 DEF TypeOK
<1>5. next[tmp] # tmp
  <2>1. tmp # NULL /\ next[tmp] \in live \cup {NULL} /\ tmp \notin Reach(next, next[tmp])
    BY <1>2, WalkReach, WheelListsAssumption DEF ListsIInv, TypeOK
  <2>2. next[tmp] # NULL => next[tmp] \in Reach(next, next[tmp])
    BY <2>1, WalkReach DEF Path
  <2> QED BY <2>1, <2>2
<1>6. Walking'
  BY <1>0, <1>1, <1>2, <1>3, <1>5 DEF Linked, Walking
<1> QED BY <1>3, <1>4, <1>6 DEF ListsIInv

LEMMA ListsStep == ListsIInv /\ [Next]_vars => ListsIInv'
<1> SUFFICES ASSUME ListsIInv, [Next]_vars PROVE ListsIInv'
  OBVIOUS
<1>1. ASSUME NEW t \in Timers, NEW timeout \in Timeouts, Add(t, timeout) PROVE ListsIInv'
  BY <1>1, ListsAdd
<1>2. ASSUME NEW t \in Timers, Delete(t) PROVE ListsIInv'
  BY <1>2, ListsDelete
<1>3. CASE TickBegin \/ Turn \/ Fire \/ TickEnd
  BY <1>3, ListsTick
<1>4. CASE Fired
  BY <1>4, ListsFired
<1>5. CASE UNCHANGED vars
  BY <1>5 DEF vars, nodes, ListsIInv, TypeOK, Linked, Falling, Walking
<1> QED BY <1>1, <1>2, <1>3, <1>4, <1>5 DEF Next

\* The inductive invariant of the wheel with its pointers.
THEOREM ListsInvariance == Spec => []ListsIInv
BY ListsInit, ListsStep, PTL DEF Spec

\* timer_wheel.h:79 and 105: wherever a callback looks at the wheel or changes it,
\* every slot has an intact doubly linked list of allocated timers, and tick()
\* stands on one of them.
THEOREM WheelWellLinked == Spec => []WellLinked
<1>1. ListsIInv => WellLinked
  <2> SUFFICES ASSUME ListsIInv PROVE WellLinked
    OBVIOUS
  <2>1. \A s \in Slots : Reach(next, slot[s]) = In(s)
    BY SlotReach DEF SlotsReached
  <2>2. ASSUME NEW s \in Slots, NEW t \in Reach(next, slot[s])
        PROVE  t \in live /\ (t # slot[s] => prev[t] # NULL) /\ (next[t] # NULL => prev[next[t]] = t)
    BY <2>1, <2>2 DEF In, ListsIInv, Linked
  <2>3. \A s \in Slots : slot[s] # NULL => prev[slot[s]] = NULL
    BY DEF ListsIInv, Linked
  <2>4. tmp # NULL => tmp \in Reach(next, slot[cur_slot])
    BY <2>1 DEF ListsIInv, TypeOK, Walking, In
  <2> QED BY <2>2, <2>3, <2>4 DEF WellLinked, ListsIInv
<1> QED BY <1>1, ListsInvariance, PTL

-----------------------------------------------------------------------------
(* The lists do what the sets do. *)

AbsSlot == [s \in Slots |-> Reach(next, slot[s])]

AbsFiring == IF pc = "callback" THEN tmp ELSE NULL

AbsTodo == CASE pc = "idle"     -> {}
             [] pc = "loop"     -> Reach(next, tmp)
             [] pc = "callback" -> Reach(next, next[tmp])

\* The slots as sets, before and after a step.
LEMMA AbsSlotIs == ListsIInv => AbsSlot = [s \in Slots |-> In(s)]
BY SlotReach DEF SlotsReached, AbsSlot

LEMMA AbsSlotNext ==
  ASSUME ListsIInv'
  PROVE  AbsSlot' = [s \in Slots |-> {t \in live' : time_slot'[t] = s}]
<1>1. SlotsReached'
  BY SlotReach, PTL
<1> QED BY <1>1 DEF SlotsReached, AbsSlot, In

LEMMA AddRefines ==
  ASSUME ListsIInv, ListsIInv', NEW t \in Timers, NEW timeout \in Timeouts, Add(t, timeout)
  PROVE  Wheel!Add(t, timeout)
<1>0. TypeOK /\ Walking
  BY DEF ListsIInv
<1>1. PICK ts \in Slots : /\ Pushed(t, ts)
                          /\ ts = (cur_slot + (Wheel!Ticks(timeout) % N)) % N
                          /\ rotation' = [rotation EXCEPT ![t] = Wheel!Ticks(timeout) \div N]
  BY <1>0, AddIs
<1>2. /\ UserRuns /\ t \notin live /\ live' = live \cup {t}
      /\ Wheel!Note(t, timeout)
      /\ UNCHANGED <<cur_slot, tmp, pc>>
  BY DEF Add
<1>3. time_slot' = [time_slot EXCEPT ![t] = ts]
  BY <1>1 DEF Pushed
<1>4. AbsSlot' = [AbsSlot EXCEPT ![ts] = @ \cup {t}]
  <2>1. \A u \in live' : time_slot'[u] = IF u = t THEN ts ELSE time_slot[u]
    BY <1>0, <1>1, <1>2, <1>3 DEF TypeOK
  <2>2. \A s \in Slots : {u \in live' : time_slot'[u] = s} = IF s = ts THEN In(s) \cup {t} ELSE In(s)
    BY <1>2, <2>1 DEF In
  <2> QED BY <2>2, AbsSlotIs, AbsSlotNext
<1>5. AbsTodo' = AbsTodo
  <2>1. CASE pc = "idle"
    BY <1>2, <2>1 DEF AbsTodo
  <2>2. CASE pc = "callback"
    <3>1. tmp \in live /\ next[tmp] \in live \cup {NULL}
      BY <1>0, <2>2 DEF Walking, ListsIInv, Linked
    <3>2. next'[tmp] = next[tmp]
      BY <1>0, <1>1, <3>1 DEF TypeOK, Pushed
    <3>3. Reach(next', next[tmp]) = Reach(next, next[tmp])
      BY <1>1, <3>1, AddReach
    <3> QED BY <1>2, <2>2, <3>2, <3>3 DEF AbsTodo
  <2> QED BY <1>2, <2>1, <2>2 DEF UserRuns
<1>6. AbsFiring' = AbsFiring
  BY <1>2 DEF AbsFiring
<1>7. pc # "idle" => AbsFiring # NULL
  BY <1>0, <1>2 DEF AbsFiring, UserRuns, Walking
<1> QED
  BY <1>1, <1>2, <1>3, <1>4, <1>5, <1>6, <1>7
     DEF Wheel!Add, Wheel!UserRuns, AbsSlot, AbsTodo, AbsFiring

LEMMA DeleteRefines ==
  ASSUME ListsIInv, ListsIInv', NEW t \in Timers, Delete(t)
  PROVE  Wheel!Delete(t)
<1>0. TypeOK /\ Walking
  BY DEF ListsIInv
<1>1. /\ t \in live /\ Unlink(t, time_slot[t]) /\ (pc = "callback" => t # tmp)
      /\ pc \in {"idle", "callback"} /\ live' = live \ {t}
      /\ Wheel!Forget(t)
      /\ UNCHANGED <<rotation, time_slot, cur_slot, tmp, pc>>
  BY DEF Delete, UserRuns, Unlink
<1>2. AbsSlot' = [AbsSlot EXCEPT ![time_slot[t]] = @ \ {t}]
  <2>1. \A s \in Slots : {u \in live' : time_slot'[u] = s} =
                           IF s = time_slot[t] THEN In(s) \ {t} ELSE In(s)
    BY <1>1 DEF In
  <2>2. time_slot[t] \in Slots
    BY <1>0 DEF TypeOK
  <2> QED BY <2>1, <2>2, AbsSlotIs, AbsSlotNext
<1>3. AbsTodo' = AbsTodo \ {t}
  <2>1. CASE pc = "idle"
    BY <1>1, <2>1 DEF AbsTodo
  <2>2. CASE pc = "callback"
    <3>1. tmp \in live /\ tmp # t /\ next[tmp] \in live \cup {NULL}
      BY <1>0, <1>1, <2>2 DEF Walking, ListsIInv, Linked
    <3>2. next'[tmp] = IF next[tmp] = t THEN next[t] ELSE next[tmp]
      <4>1. next'[tmp] = CASE tmp = t                                 -> NULL
                           [] t # slot[time_slot[t]] /\ tmp = prev[t] -> next[t]
                           [] OTHER                                   -> next[tmp]
        BY <1>0, <1>1, <3>1 DEF Unlink, TypeOK
      <4>2. t # NULL /\ tmp # NULL
        BY <1>0, <1>1, <3>1, WheelListsAssumption DEF TypeOK
      <4>3. next[tmp] = t <=> t # slot[time_slot[t]] /\ tmp = prev[t]
        BY <1>0, <1>1, <3>1, <4>2 DEF ListsIInv, Linked, TypeOK
      <4> QED BY <3>1, <4>1, <4>3
    <3>3. next'[tmp] \in live' \cup {NULL}
      BY <1>1, <3>1 DEF ListsIInv, Linked
    <3>4. Reach(next', next'[tmp]) = Reach(next, next[tmp]) \ {t}
      BY <1>1, <3>1, <3>2, <3>3, UnlinkReach
    <3> QED BY <1>1, <2>2, <3>4 DEF AbsTodo
  <2> QED BY <1>1, <2>1, <2>2
<1>4. AbsFiring' = AbsFiring /\ t # AbsFiring
  BY <1>0, <1>1, WheelListsAssumption DEF AbsFiring, TypeOK
<1>5. pc # "idle" => AbsFiring # NULL
  BY <1>0, <1>1 DEF AbsFiring, Walking
<1> QED
  BY <1>1, <1>2, <1>3, <1>4, <1>5
     DEF Wheel!Delete, Wheel!UserRuns, AbsSlot, AbsTodo, AbsFiring

LEMMA TickBeginRefines ==
  ASSUME ListsIInv, ListsIInv', TickBegin
  PROVE  Wheel!TickBegin
<1>1. /\ pc = "idle" /\ pc' = "loop" /\ tmp' = slot[cur_slot]
      /\ UNCHANGED <<nodes, cur_slot, left, rearmed>>
  BY DEF TickBegin
<1>2. AbsSlot' = AbsSlot
  BY <1>1 DEF AbsSlot, nodes
<1>3. AbsTodo' = AbsSlot[cur_slot]
  BY <1>1 DEF AbsTodo, AbsSlot, nodes, ListsIInv, TypeOK
<1>4. AbsFiring = NULL /\ AbsFiring' = NULL
  BY <1>1 DEF AbsFiring
<1> QED
  BY <1>1, <1>2, <1>3, <1>4 DEF Wheel!TickBegin, AbsSlot, AbsTodo, AbsFiring, nodes

\* A timer the walk is at, and the rest of the walk.
LEMMA TodoIs ==
  ASSUME ListsIInv, pc = "loop", tmp # NULL
  PROVE  /\ tmp \in Timers /\ tmp \in AbsTodo
         /\ Reach(next, next[tmp]) = AbsTodo \ {tmp}
<1>1. tmp \in live /\ tmp \in Timers
  BY DEF ListsIInv, TypeOK, Walking
<1> QED BY <1>1, WalkReach DEF AbsTodo

LEMMA TurnRefines ==
  ASSUME ListsIInv, ListsIInv', Turn
  PROVE  tmp \in Timers /\ Wheel!Turn(tmp)
<1>1. /\ pc = "loop" /\ tmp # NULL /\ rotation[tmp] > 0 /\ tmp' = next[tmp]
      /\ rotation' = [rotation EXCEPT ![tmp] = @ - 1]
      /\ UNCHANGED <<slot, prev, next, time_slot, live, cur_slot, pc, left, rearmed>>
  BY DEF Turn
<1>2. tmp \in Timers /\ tmp \in AbsTodo /\ Reach(next, next[tmp]) = AbsTodo \ {tmp}
  BY <1>1, TodoIs
<1>3. AbsSlot' = AbsSlot
  BY <1>1 DEF AbsSlot
<1>4. AbsTodo' = AbsTodo \ {tmp}
  BY <1>1, <1>2 DEF AbsTodo
<1>5. AbsFiring = NULL /\ AbsFiring' = NULL
  BY <1>1 DEF AbsFiring
<1> QED
  BY <1>1, <1>2, <1>3, <1>4, <1>5 DEF Wheel!Turn, AbsSlot, AbsTodo, AbsFiring

LEMMA FireRefines ==
  ASSUME ListsIInv, ListsIInv', Fire
  PROVE  tmp \in Timers /\ Wheel!Fire(tmp)
<1>1. /\ pc = "loop" /\ tmp # NULL /\ rotation[tmp] = 0 /\ pc' = "callback"
      /\ UNCHANGED <<nodes, cur_slot, tmp, left, rearmed>>
  BY DEF Fire
<1>2. tmp \in Timers /\ tmp \in AbsTodo /\ Reach(next, next[tmp]) = AbsTodo \ {tmp}
  BY <1>1, TodoIs
<1>3. AbsSlot' = AbsSlot
  BY <1>1 DEF AbsSlot, nodes
<1>4. AbsTodo' = AbsTodo \ {tmp}
  BY <1>1, <1>2 DEF AbsTodo, nodes
<1>5. AbsFiring = NULL /\ AbsFiring' = tmp
  BY <1>1 DEF AbsFiring
<1> QED
  BY <1>1, <1>2, <1>3, <1>4, <1>5 DEF Wheel!Fire, AbsSlot, AbsTodo, AbsFiring, nodes

LEMMA FiredRefines ==
  ASSUME ListsIInv, ListsIInv', Fired
  PROVE  Wheel!Fired
<1>0. TypeOK /\ Walking
  BY DEF ListsIInv
<1>1. /\ pc = "callback" /\ pc' = "loop" /\ tmp' = next[tmp]
      /\ Unlink(tmp, cur_slot) /\ live' = live \ {tmp}
      /\ left' = [left EXCEPT ![tmp] = 0] /\ rearmed' = rearmed \ {tmp}
      /\ UNCHANGED <<rotation, time_slot, cur_slot>>
  BY DEF Fired, Unlink, Wheel!Forget
<1>2. tmp \in live /\ tmp # NULL /\ time_slot[tmp] = cur_slot /\ cur_slot \in Slots
  BY <1>0, <1>1 DEF Walking, TypeOK
<1>3. AbsSlot' = [AbsSlot EXCEPT ![cur_slot] = @ \ {tmp}]
  <2>1. \A s \in Slots : {u \in live' : time_slot'[u] = s} =
                           IF s = cur_slot THEN In(s) \ {tmp} ELSE In(s)
    BY <1>1, <1>2 DEF In
  <2> QED BY <1>2, <2>1, AbsSlotIs, AbsSlotNext
<1>4. AbsTodo' = AbsTodo
  <2>1. /\ next[tmp] \in live \cup {NULL} /\ tmp \notin Reach(next, next[tmp])
        /\ Reach(next, tmp) = {tmp} \cup Reach(next, next[tmp])
    BY <1>2, WalkReach
  <2>2. next[tmp] \in live' \cup {NULL}
    BY <1>1 DEF ListsIInv, TypeOK, Walking
  <2>3. Reach(next', next[tmp]) = Reach(next, tmp) \ {tmp}
    BY <1>1, <1>2, <2>2, UnlinkReach
  <2> QED BY <1>1, <2>1, <2>3 DEF AbsTodo
<1>5. AbsFiring = tmp /\ AbsFiring' = NULL
  BY <1>1 DEF AbsFiring
<1> QED
  BY <1>1, <1>2, <1>3, <1>4, <1>5 DEF Wheel!Fired, Wheel!Forget, AbsSlot, AbsTodo, AbsFiring

LEMMA TickEndRefines ==
  ASSUME ListsIInv, ListsIInv', TickEnd
  PROVE  Wheel!TickEnd
<1>1. /\ pc = "loop" /\ pc' = "idle" /\ tmp = NULL /\ cur_slot' = (cur_slot + 1) % N
      /\ left' = [t \in Timers |-> IF t \in live THEN left[t] - 1 ELSE left[t]]
      /\ UNCHANGED <<nodes, tmp, rearmed>>
  BY DEF TickEnd
<1>2. AbsSlot' = AbsSlot
  BY <1>1 DEF AbsSlot, nodes
<1>3. AbsTodo = {} /\ AbsTodo' = {}
  BY <1>1, WalkReach DEF AbsTodo
<1>4. AbsFiring = NULL /\ AbsFiring' = NULL
  BY <1>1 DEF AbsFiring
<1> QED
  BY <1>1, <1>2, <1>3, <1>4 DEF Wheel!TickEnd, AbsSlot, AbsTodo, AbsFiring, nodes

LEMMA StepRefines == ListsIInv /\ ListsIInv' /\ [Next]_vars => [Wheel!Next]_(Wheel!vars)
<1> SUFFICES ASSUME ListsIInv, ListsIInv', [Next]_vars PROVE [Wheel!Next]_(Wheel!vars)
  OBVIOUS
<1>1. ASSUME NEW t \in Timers, NEW timeout \in Timeouts, Add(t, timeout) PROVE Wheel!Next
  BY <1>1, AddRefines DEF Wheel!Next
<1>2. ASSUME NEW t \in Timers, Delete(t) PROVE Wheel!Next
  BY <1>2, DeleteRefines DEF Wheel!Next
<1>3. CASE TickBegin
  BY <1>3, TickBeginRefines DEF Wheel!Next
<1>4. CASE Turn
  BY <1>4, TurnRefines DEF Wheel!Next
<1>5. CASE Fire
  BY <1>5, FireRefines DEF Wheel!Next
<1>6. CASE Fired
  BY <1>6, FiredRefines DEF Wheel!Next
<1>7. CASE TickEnd
  BY <1>7, TickEndRefines DEF Wheel!Next
<1>8. CASE UNCHANGED vars
  BY <1>8 DEF vars, nodes, Wheel!vars
<1> QED BY <1>1, <1>2, <1>3, <1>4, <1>5, <1>6, <1>7, <1>8 DEF Next

\* The wheel with its pointers behaves as the one with sets: whatever is proved of
\* TimeWheel, that timers are called back when asked and found where they
\* remember to be, holds of the lists of timer_wheel.h:79 to 139.
THEOREM ListsImplementSets == Spec => ImplementsTimeWheel
<1>1. Init => Wheel!Init
  <2> SUFFICES ASSUME Init PROVE Wheel!Init
    OBVIOUS
  <2>1. ListsIInv
    BY ListsInit
  <2>2. \A s \in Slots : Reach(next, slot[s]) = {}
    BY <2>1, SlotReach DEF SlotsReached, In, Init
  <2> QED BY <2>2 DEF Init, Wheel!Init, Wheel!Slots, Slots
<1>2. ListsIInv /\ ListsIInv' /\ [Next]_vars => [Wheel!Next]_(Wheel!vars)
  BY StepRefines
<1>3. Spec => Wheel!Spec
  BY <1>1, <1>2, ListsInvariance, PTL DEF Spec, Wheel!Spec
<1> QED BY <1>3 DEF ImplementsTimeWheel

=============================================================================
