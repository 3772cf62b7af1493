-------------------------- MODULE SortTimeListProof --------------------------
(***************************************************************************)
(* What the methods of sort_time_list do to a list, for every set of       *)
(* addresses: each of them turns a well-formed list of some timers into    *)
(* the well-formed list of others.  IsList(l, c) says that l is the doubly *)
(* linked list of the timers of the sequence c, in that order; a method is *)
(* described by the sequence it leaves.                                    *)
(***************************************************************************)
EXTENDS SortTimeList, FiniteSetTheorems, TLAPS

USE TimersAssumption

ListType == [head : Timers \cup {NULL}, tail : Timers \cup {NULL},
             prev : [Timers -> Timers \cup {NULL}], next : [Timers -> Timers \cup {NULL}],
             expire : [Timers -> Int], live : SUBSET Timers]

\* The k-th timer of c; the null pointer before the first and behind the last.
Nth(c, k) == IF k \in 1 .. Len(c) THEN c[k] ELSE NULL

IsList(l, c) ==
  /\ l \in ListType
  /\ c \in Seq(Timers)
  /\ \A i, j \in 1 .. Len(c) : Nth(c, i) = Nth(c, j) => i = j
  /\ \A i \in 1 .. Len(c) : /\ Nth(c, i) \in l.live
                            /\ l.next[Nth(c, i)] = Nth(c, i + 1)
                            /\ l.prev[Nth(c, i)] = Nth(c, i - 1)
  /\ l.head = Nth(c, 1)
  /\ Len(c) > 0 => l.tail = Nth(c, Len(c))

Elems(c) == {Nth(c, i) : i \in 1 .. Len(c)}

\* t in place m, the timers from there on one place further.
Insert(c, m, t) ==
  [i \in 1 .. (Len(c) + 1) |-> IF i < m THEN c[i] ELSE IF i = m THEN t ELSE c[i - 1]]

\* Without place m.
Without(c, m) == [i \in 1 .. (Len(c) - 1) |-> IF i < m THEN c[i] ELSE c[i + 1]]

\* Without the first k places.
Suffix(c, k) == [i \in 1 .. (Len(c) - k) |-> c[i + k]]

-----------------------------------------------------------------------------
(* Sequences and numbers. *)

LEMMA MinNat ==
  ASSUME NEW S \in SUBSET Nat, S # {}
  PROVE  Min(S) \in S /\ \A n \in S : Min(S) <= n
<1>1. PICK m \in S : \A n \in S : <<n, m>> \notin OpToRel(<, Nat)
  BY NatLessThanWellFounded, WFMin
<1>2. OpToRel(<, Nat) = {p \in Nat \X Nat : p[1] < p[2]}
  BY DEF OpToRel
<1>3. ASSUME NEW n \in S
      PROVE  m <= n
  <2>1. n \in Nat /\ m \in Nat
    OBVIOUS
  <2>2. <<n, m>> \notin {p \in Nat \X Nat : p[1] < p[2]}
    BY <1>1, <1>2
  <2> QED BY <2>1, <2>2
<1> QED BY <1>3 DEF Min

LEMMA SeqOfFunction ==
  ASSUME NEW n \in Nat, NEW S, NEW f \in [1 .. n -> S]
  PROVE  f \in Seq(S) /\ Len(f) = n
OBVIOUS

LEMMA NthType ==
  ASSUME NEW c \in Seq(Timers)
  PROVE  /\ Len(c) \in Nat
         /\ \A i \in 1 .. Len(c) : Nth(c, i) = c[i] /\ Nth(c, i) \in Timers /\ Nth(c, i) # NULL
         /\ \A i \in Int : i < 1 \/ Len(c) < i => Nth(c, i) = NULL
BY DEF Nth

LEMMA InsertNth ==
  ASSUME NEW c \in Seq(Timers), NEW t \in Timers, NEW m \in 1 .. (Len(c) + 1)
  PROVE  /\ Insert(c, m, t) \in Seq(Timers) /\ Len(Insert(c, m, t)) = Len(c) + 1
         /\ \A i \in Int : Nth(Insert(c, m, t), i) =
              IF i < m THEN Nth(c, i) ELSE IF i = m THEN t ELSE Nth(c, i - 1)
<1>1. Insert(c, m, t) \in [1 .. (Len(c) + 1) -> Timers]
  BY DEF Insert
<1>2. Insert(c, m, t) \in Seq(Timers) /\ Len(Insert(c, m, t)) = Len(c) + 1
  BY <1>1, SeqOfFunction
<1>3. \A i \in 1 .. (Len(c) + 1) :
        Insert(c, m, t)[i] = IF i < m THEN c[i] ELSE IF i = m THEN t ELSE c[i - 1]
  BY DEF Insert
<1> QED BY <1>2, <1>3 DEF Nth

LEMMA WithoutNth ==
  ASSUME NEW c \in Seq(Timers), NEW m \in 1 .. Len(c)
  PROVE  /\ Without(c, m) \in Seq(Timers) /\ Len(Without(c, m)) = Len(c) - 1
         /\ \A i \in Int : Nth(Without(c, m), i) =
              IF i < m THEN Nth(c, i) ELSE Nth(c, i + 1)
<1>1. Without(c, m) \in [1 .. (Len(c) - 1) -> Timers]
  BY DEF Without
<1>2. Len(c) - 1 \in Nat
  OBVIOUS
<1>3. Without(c, m) \in Seq(Timers) /\ Len(Without(c, m)) = Len(c) - 1
  BY <1>1, <1>2, SeqOfFunction
<1>4. \A i \in 1 .. (Len(c) - 1) : Without(c, m)[i] = IF i < m THEN c[i] ELSE c[i + 1]
  BY DEF Without
<1> QED BY <1>3, <1>4 DEF Nth

LEMMA SuffixNth ==
  ASSUME NEW c \in Seq(Timers), NEW k \in 0 .. Len(c)
  PROVE  /\ Suffix(c, k) \in Seq(Timers) /\ Len(Suffix(c, k)) = Len(c) - k
         /\ \A i \in Int : Nth(Suffix(c, k), i) = IF i < 1 THEN NULL ELSE Nth(c, i + k)
<1>1. Suffix(c, k) \in [1 .. (Len(c) - k) -> Timers]
  BY DEF Suffix
<1>2. Len(c) - k \in Nat
  OBVIOUS
<1>3. Suffix(c, k) \in Seq(Timers) /\ Len(Suffix(c, k)) = Len(c) - k
  BY <1>1, <1>2, SeqOfFunction
<1>4. \A i \in 1 .. (Len(c) - k) : Suffix(c, k)[i] = c[i + k]
  BY DEF Suffix
<1> QED BY <1>3, <1>4 DEF Nth

\* No list is longer than there are addresses.
LEMMA LengthBounded ==
  ASSUME NEW l, NEW c, IsList(l, c)
  PROVE  Cardinality(Timers) \in Nat /\ Len(c) \in Nat /\ Len(c) <= Cardinality(Timers)
<1>1. Cardinality(Timers) \in Nat
  BY FS_CardinalityType
<1>2. Len(c) \in Nat /\ c \in [1 .. Len(c) -> Timers]
  BY DEF IsList
<1>3. IsFiniteSet(1 .. Len(c)) /\ Cardinality(1 .. Len(c)) = Len(c)
  BY <1>2, FS_Interval
<1>4. Cardinality(Timers) < Len(c) => \E i, j \in 1 .. Len(c) : i # j /\ c[i] = c[j]
  BY <1>2, <1>3, FS_PigeonHole
<1>5. ~(Cardinality(Timers) < Len(c))
  BY <1>4, NthType DEF IsList
<1> QED BY <1>1, <1>2, <1>5

-----------------------------------------------------------------------------
(* Loops over the list. *)

\* What a loop from the k-th timer goes through.
LEMMA WalkIs ==
  ASSUME NEW l, NEW c, IsList(l, c), NEW k \in 1 .. (Len(c) + 1)
  PROVE  Walk(l, Nth(c, k)) = [j \in 0 .. Cardinality(Timers) |-> Nth(c, k + j)]
<1> DEFINE N    == Cardinality(Timers)
           w    == [j \in 0 .. N |-> Nth(c, k + j)]
           R(f) == f = [i \in 0 .. N |-> IF i = 0 THEN Nth(c, k)
                                         ELSE IF f[i - 1] = NULL THEN NULL ELSE l.next[f[i - 1]]]
<1>1. N \in Nat /\ Len(c) \in Nat
  BY LengthBounded
<1> HIDE DEF N
<1>2. \A n \in Nat \ {0} : /\ Nth(c, n) = NULL => Nth(c, n + 1) = NULL
                           /\ Nth(c, n) # NULL => l.next[Nth(c, n)] = Nth(c, n + 1)
  BY <1>1, NthType DEF IsList
<1>3. \A i \in 1 .. N : w[i] = IF w[i - 1] = NULL THEN NULL ELSE l.next[w[i - 1]]
  <2> SUFFICES ASSUME NEW i \in 1 .. N
               PROVE  w[i] = IF w[i - 1] = NULL THEN NULL ELSE l.next[w[i - 1]]
    OBVIOUS
  <2>1. w[i] = Nth(c, k + i) /\ w[i - 1] = Nth(c, k + (i - 1))
    BY <1>1
  <2>2. k + (i - 1) \in Nat \ {0} /\ k + i = (k + (i - 1)) + 1
    BY <1>1
  <2> QED BY <1>2, <2>1, <2>2
<1>4. w[0] = Nth(c, k)
  BY <1>1
<1>5. R(w)
  <2>1. w = [i \in 0 .. N |-> IF i = 0 THEN Nth(c, k)
                              ELSE IF w[i - 1] = NULL THEN NULL ELSE l.next[w[i - 1]]]
    <3>1. \A i \in 0 .. N : i = 0 \/ i \in 1 .. N
      BY <1>1
    <3>2. \A i \in 0 .. N : w[i] = IF i = 0 THEN Nth(c, k)
                                    ELSE IF w[i - 1] = NULL THEN NULL ELSE l.next[w[i - 1]]
      <4> HIDE DEF w
      <4> QED BY <1>3, <1>4, <3>1
    <3> QED BY <3>2
  <2> QED BY <2>1
<1>6. ASSUME NEW f, R(f)
      PROVE  f = w
  <2> DEFINE B == {i \in 0 .. N : f[i] # w[i]}
  <2>1. /\ f[0] = w[0] /\ DOMAIN f = 0 .. N
        /\ \A i \in 1 .. N : f[i] = IF f[i - 1] = NULL THEN NULL ELSE l.next[f[i - 1]]
    BY <1>1, <1>4, <1>6
  <2>2. B = {}
    <3> SUFFICES ASSUME B # {} PROVE FALSE
      OBVIOUS
    <3> DEFINE m == Min(B)
    <3>1. m \in B /\ \A n \in B : m <= n
      <4>1. B \in SUBSET Nat
        BY <1>1
      <4> HIDE DEF B
      <4> QED BY <4>1, MinNat
    <3>2. m \in 1 .. N /\ m - 1 \in 0 .. N /\ m - 1 \notin B
      <4> HIDE DEF m
      <4> QED BY <1>1, <2>1, <3>1
    <3>3. f[m - 1] = w[m - 1]
      BY <3>2
    <3>4. f[m] = w[m]
      BY <1>3, <2>1, <3>2, <3>3
    <3> QED BY <3>1, <3>4
  <2>3. f = [i \in 0 .. N |-> f[i]]
    BY <1>6
  <2> HIDE DEF w
  <2>4. w = [i \in 0 .. N |-> w[i]]
    BY DEF w
  <2> QED BY <2>2, <2>3, <2>4
<1>7. Walk(l, Nth(c, k)) = CHOOSE f : R(f)
  BY DEF Walk, N
<1>8. R(CHOOSE f : R(f))
  <2> HIDE DEF R
  <2> QED BY <1>5
<1> QED BY <1>6, <1>7, <1>8 DEF N

\* The loop from the head, and the timers it visits.
LEMMA ChainIs ==
  ASSUME NEW l, NEW c, IsList(l, c)
  PROVE  /\ Chain(l) = c /\ Linked(l) = Elems(c)
         /\ Walk(l, l.head) = [j \in 0 .. Cardinality(Timers) |-> Nth(c, 1 + j)]
<1> DEFINE N  == Cardinality(Timers)
           at == Walk(l, l.head)
           Over(i) == at[i] = NULL /\ \A j \in 0 .. (i - 1) : at[j] # NULL
           end == CHOOSE i \in DOMAIN at : Over(i)
<1>1. N \in Nat /\ Len(c) \in Nat /\ Len(c) <= N
  BY LengthBounded
<1>2. at = [j \in 0 .. N |-> Nth(c, 1 + j)]
  <2>1. l.head = Nth(c, 1) /\ 1 \in 1 .. (Len(c) + 1)
    BY <1>1 DEF IsList
  <2> QED BY <2>1, WalkIs
<1> HIDE DEF N, at
<1>3. \A i \in 1 .. Len(c) : c[i] # NULL
  BY NthType DEF IsList
<1>4. DOMAIN at = 0 .. N /\ \A j \in 0 .. N : at[j] = IF j < Len(c) THEN c[1 + j] ELSE NULL
  BY <1>1, <1>2 DEF Nth
<1>5. Len(c) \in DOMAIN at /\ Over(Len(c))
  BY <1>1, <1>3, <1>4
<1>6. \A i \in DOMAIN at : Over(i) => i = Len(c)
  <2> SUFFICES ASSUME NEW i \in 0 .. N, Over(i) PROVE i = Len(c)
    BY <1>4
  <2>1. ~(i < Len(c))
    BY <1>1, <1>3, <1>4
  <2>2. ~(i > Len(c))
    <3> SUFFICES ASSUME i > Len(c) PROVE FALSE
      OBVIOUS
    <3>1. Len(c) \in 0 .. (i - 1)
      BY <1>1
    <3> QED BY <1>5, <3>1
  <2> QED BY <1>1, <2>1, <2>2
<1>7. end = Len(c)
  <2> HIDE DEF Over
  <2> QED BY <1>5, <1>6
<1>8. Chain(l) = [i \in 1 .. end |-> at[i - 1]]
  BY DEF Chain, at
<1>9. [i \in 1 .. Len(c) |-> at[i - 1]] = c
  <2>1. \A i \in 1 .. Len(c) : at[i - 1] = c[i]
    BY <1>1, <1>4
  <2>2. c = [i \in 1 .. Len(c) |-> c[i]]
    BY DEF IsList
  <2> QED BY <2>1, <2>2
<1>10. Chain(l) = c
  BY <1>7, <1>8, <1>9
<1>11. Linked(l) = Elems(c)
  <2>1. DOMAIN c = 1 .. Len(c) /\ \A i \in 1 .. Len(c) : Nth(c, i) = c[i]
    BY NthType DEF IsList
  <2> QED BY <1>10, <2>1 DEF Linked, Elems
<1> QED BY <1>2, <1>10, <1>11 DEF at, N

-----------------------------------------------------------------------------
(* The methods. *)

LEMMA NewListIs == IsList(NewList, << >>) /\ NewList.live = {}
<1>1. NewList \in ListType
  BY DEF NewList, ListType
<1>2. << >> \in Seq(Timers) /\ Len(<< >>) = 0
  OBVIOUS
<1> QED BY <1>1, <1>2 DEF NewList, IsList, Nth

LEMMA NewIs ==
  ASSUME NEW l, NEW c, IsList(l, c), NEW t \in Timers \ l.live, NEW e \in Int
  PROVE  /\ IsList(New(l, t, e), c)
         /\ New(l, t, e).live = l.live \cup {t}
         /\ New(l, t, e).expire = [l.expire EXCEPT ![t] = e]
         /\ New(l, t, e).next[t] = NULL /\ New(l, t, e).prev[t] = NULL
         /\ t \notin Elems(c)
<1> DEFINE r == New(l, t, e)
<1>0. l \in ListType
  BY DEF IsList
<1>1. /\ r.live = l.live \cup {t}
      /\ r.expire = [l.expire EXCEPT ![t] = e]
      /\ r.prev = [l.prev EXCEPT ![t] = NULL]
      /\ r.next = [l.next EXCEPT ![t] = NULL]
      /\ r.head = l.head /\ r.tail = l.tail
  BY <1>0 DEF New, ListType
<1>2. r \in ListType
  BY <1>0 DEF New, ListType
<1>3. \A i \in 1 .. Len(c) : Nth(c, i) # t /\ Nth(c, i) \in Timers
  BY NthType DEF IsList
<1> HIDE DEF r
<1>4. IsList(r, c)
  <2>1. \A i \in 1 .. Len(c) : /\ r.next[Nth(c, i)] = l.next[Nth(c, i)]
                              /\ r.prev[Nth(c, i)] = l.prev[Nth(c, i)]
    BY <1>0, <1>1, <1>3 DEF ListType
  <2> QED BY <1>1, <1>2, <2>1 DEF IsList
<1>5. r.next[t] = NULL /\ r.prev[t] = NULL
  BY <1>0, <1>1 DEF ListType
<1>6. t \notin Elems(c)
  BY <1>3 DEF Elems
<1> QED BY <1>1, <1>4, <1>5, <1>6 DEF r

\* An expiry that changes where it stands leaves the pointers alone.
LEMMA ExpireIs ==
  ASSUME NEW l, NEW c, IsList(l, c), NEW t \in Timers, NEW e \in Int
  PROVE  /\ IsList([l EXCEPT !.expire[t] = e], c)
         /\ [l EXCEPT !.expire[t] = e].live = l.live
         /\ [l EXCEPT !.expire[t] = e].expire = [l.expire EXCEPT ![t] = e]
<1> DEFINE r == [l EXCEPT !.expire[t] = e]
<1>0. l \in ListType
  BY DEF IsList
<1>1. /\ r.live = l.live /\ r.expire = [l.expire EXCEPT ![t] = e]
      /\ r.prev = l.prev /\ r.next = l.next /\ r.head = l.head /\ r.tail = l.tail
  BY <1>0 DEF ListType
<1>2. r \in ListType
  BY <1>0 DEF ListType
<1> HIDE DEF r
<1>3. IsList(r, c)
  BY <1>1, <1>2 DEF IsList
<1> QED BY <1>1, <1>3 DEF r

\* add_timer(timer, list_head) puts the timer where its search has stopped.
LEMMA InsertBeforeIs ==
  ASSUME NEW l, NEW c, IsList(l, c), NEW t \in l.live, t \notin Elems(c),
         NEW m \in 2 .. (Len(c) + 1)
  PROVE  LET r == InsertBefore(l, t, Nth(c, m - 1), Nth(c, m))
         IN  IsList(r, Insert(c, m, t)) /\ r.live = l.live /\ r.expire = l.expire
<1> DEFINE P(i) == Nth(c, i)
           d    == Insert(c, m, t)
           Q(i) == Nth(d, i)
           n    == Len(c)
           prev == P(m - 1)
           tmp  == P(m)
           r    == InsertBefore(l, t, prev, tmp)
<1>0. l \in ListType /\ c \in Seq(Timers) /\ n \in Nat /\ t \in Timers
  BY DEF IsList, ListType
<1>1. /\ \A i \in 1 .. n : P(i) \in Timers /\ P(i) # NULL /\ P(i) # t
      /\ \A i \in Int : i < 1 \/ n < i => P(i) = NULL
  BY <1>0, NthType DEF Elems
<1>2. /\ \A i, j \in 1 .. n : P(i) = P(j) => i = j
      /\ \A i \in 1 .. n : P(i) \in l.live /\ l.next[P(i)] = P(i + 1) /\ l.prev[P(i)] = P(i - 1)
      /\ l.head = P(1) /\ (n > 0 => l.tail = P(n))
  BY DEF IsList
<1>3. /\ d \in Seq(Timers) /\ Len(d) = n + 1
      /\ \A i \in Int : Q(i) = IF i < m THEN P(i) ELSE IF i = m THEN t ELSE P(i - 1)
  BY <1>0, InsertNth
<1>4. m - 1 \in 1 .. n /\ m \in 2 .. (n + 1) /\ prev \in Timers /\ prev # t /\ tmp # t /\ tmp # prev
  BY <1>0, <1>1, <1>2
<1>5. /\ r \in ListType /\ r.live = l.live /\ r.expire = l.expire /\ r.head = l.head
      /\ r.tail = IF tmp = NULL THEN t ELSE l.tail
      /\ \A u \in Timers : r.next[u] = IF u = t THEN tmp ELSE IF u = prev THEN t ELSE l.next[u]
      /\ \A u \in Timers : r.prev[u] = IF u = t THEN prev ELSE IF u = tmp THEN t ELSE l.prev[u]
  <2>1. CASE tmp = NULL
    <3>1. r = [l EXCEPT !.next[prev] = t, !.prev[t] = prev, !.next[t] = NULL, !.tail = t]
      BY <2>1 DEF InsertBefore
    <3> HIDE DEF r, prev, tmp, d
    <3> QED BY <1>0, <1>4, <2>1, <3>1 DEF ListType
  <2>2. CASE tmp # NULL
    <3>1. r = [l EXCEPT !.next[prev] = t, !.next[t] = tmp, !.prev[tmp] = t, !.prev[t] = prev]
      BY <2>2 DEF InsertBefore
    <3>2. tmp \in Timers
      BY <1>0, <1>1, <1>4, <2>2
    <3> HIDE DEF r, prev, tmp, d
    <3> QED BY <1>0, <1>4, <2>2, <3>1, <3>2 DEF ListType
  <2> QED BY <2>1, <2>2
<1> HIDE DEF r, d, n, P, Q
<1>6. ASSUME NEW i \in 1 .. (n + 1)
      PROVE  /\ Q(i) \in r.live /\ Q(i) \in Timers
             /\ r.next[Q(i)] = Q(i + 1) /\ r.prev[Q(i)] = Q(i - 1)
             /\ i # m => /\ Q(i) # t
                         /\ Q(i) = P(IF i < m THEN i ELSE i - 1)
  <2>1. CASE i < m
    <3>1. /\ i \in 1 .. n /\ Q(i) = P(i) /\ Q(i - 1) = P(i - 1)
          /\ Q(i + 1) = IF i = m - 1 THEN t ELSE P(i + 1)
      BY <1>0, <1>3, <1>4, <2>1
    <3>2. P(i) # tmp /\ (P(i) = prev <=> i = m - 1)
      BY <1>0, <1>1, <1>2, <1>4, <2>1, <3>1
    <3> QED BY <1>1, <1>2, <1>5, <2>1, <3>1, <3>2
  <2>2. CASE i = m
    <3>1. Q(i) = t /\ Q(i - 1) = prev /\ Q(i + 1) = tmp
      BY <1>0, <1>3, <1>4, <2>2
    <3> QED BY <1>0, <1>5, <2>2, <3>1
  <2>3. CASE i > m
    <3>1. /\ i - 1 \in 1 .. n /\ Q(i) = P(i - 1) /\ Q(i + 1) = P((i - 1) + 1)
          /\ Q(i - 1) = IF i = m + 1 THEN t ELSE P((i - 1) - 1)
      BY <1>0, <1>3, <1>4, <2>3
    <3>2. P(i - 1) # prev /\ (P(i - 1) = tmp <=> i = m + 1) /\ i # m /\ ~(i < m)
      <4>1. /\ m \in 1 .. n /\ i - 1 # m - 1 /\ (i - 1 = m <=> i = m + 1)
            /\ i # m /\ ~(i < m)
        BY <1>0, <1>4, <2>3
      <4> QED BY <1>2, <1>4, <3>1, <4>1
    <3> QED BY <1>1, <1>2, <1>5, <3>1, <3>2
  <2> QED BY <1>0, <1>4, <2>1, <2>2, <2>3
<1>7. ASSUME NEW i \in 1 .. (n + 1), NEW j \in 1 .. (n + 1), Q(i) = Q(j)
      PROVE  i = j
  <2>1. CASE i = m \/ j = m
    BY <1>3, <1>4, <1>6, <1>7, <2>1
  <2>2. CASE i # m /\ j # m
    <3> DEFINE f(x) == IF x < m THEN x ELSE x - 1
    <3>1. f(i) \in 1 .. n /\ f(j) \in 1 .. n /\ (f(i) = f(j) => i = j)
      BY <1>0, <1>4, <2>2
    <3>2. P(f(i)) = P(f(j))
      BY <1>6, <1>7, <2>2
    <3> QED BY <1>2, <3>1, <3>2
  <2> QED BY <2>1, <2>2
<1>10. r.head = Q(1) /\ r.tail = Q(n + 1)
  BY <1>0, <1>1, <1>2, <1>3, <1>4, <1>5
<1>11. IsList(r, d)
  BY <1>3, <1>5, <1>6, <1>7, <1>10 DEF IsList, Q
<1> QED BY <1>5, <1>11 DEF r, d, P

\* add_timer(timer, list_head): behind every timer after list_head that does not
\* expire later, before the next one.
LEMMA InsertAfterIs ==
  ASSUME NEW l, NEW c, IsList(l, c), NEW t \in l.live, t \notin Elems(c), NEW k \in 1 .. Len(c)
  PROVE  LET r == InsertAfter(l, t, Nth(c, k))
         IN  /\ r.live = l.live /\ r.expire = l.expire
             /\ \E m \in (k + 1) .. (Len(c) + 1) :
                  /\ IsList(r, Insert(c, m, t))
                  /\ \A j \in (k + 1) .. (m - 1) : l.expire[Nth(c, j)] <= l.expire[t]
                  /\ m <= Len(c) => l.expire[t] < l.expire[Nth(c, m)]
<1> DEFINE N  == Cardinality(Timers)
           n  == Len(c)
           at == Walk(l, Nth(c, k))
           S  == {j \in DOMAIN at \ {0} : at[j] = NULL \/ l.expire[t] < l.expire[at[j]]}
           i  == Min(S)
           m  == k + i
<1>0. /\ l \in ListType /\ c \in Seq(Timers) /\ n \in Nat /\ N \in Nat /\ n <= N /\ t \in Timers
      /\ k \in 1 .. n
  BY LengthBounded DEF IsList, ListType
<1>1. /\ \A j \in 1 .. n : Nth(c, j) \in Timers /\ Nth(c, j) # NULL
      /\ \A j \in Int : j < 1 \/ n < j => Nth(c, j) = NULL
      /\ \A u \in Timers : l.expire[u] \in Int
  BY <1>0, NthType DEF ListType
<1>2. at = [j \in 0 .. N |-> Nth(c, k + j)]
  BY <1>0, WalkIs
<1>3. InsertAfter(l, t, Nth(c, k)) = InsertBefore(l, t, at[i - 1], at[i])
  BY DEF InsertAfter
<1> HIDE DEF N, n, at
<1>4. DOMAIN at = 0 .. N /\ \A j \in 0 .. N : at[j] = Nth(c, k + j)
  BY <1>2
<1>5. S \in SUBSET Nat /\ (n - k + 1) \in S
  <2>1. n - k + 1 \in 1 .. N /\ k + (n - k + 1) = n + 1
    BY <1>0
  <2>2. at[n - k + 1] = NULL
    BY <1>0, <1>1, <1>4, <2>1
  <2> QED BY <1>0, <1>4, <2>1, <2>2
<1>6. i \in S /\ \A j \in S : i <= j
  <2> HIDE DEF S
  <2> QED BY <1>5, MinNat
<1> HIDE DEF i
<1>7. i \in 1 .. (n - k + 1) /\ i \in 1 .. N
  <2>1. i \in 0 .. N /\ i # 0
    BY <1>4, <1>6
  <2>2. i <= n - k + 1
    BY <1>5, <1>6
  <2> QED BY <1>0, <2>1, <2>2
<1>8. m \in (k + 1) .. (n + 1) /\ m \in 2 .. (n + 1)
  BY <1>0, <1>7
<1>9. at[i - 1] = Nth(c, m - 1) /\ at[i] = Nth(c, m)
  BY <1>0, <1>4, <1>7
<1>10. \A j \in (k + 1) .. (m - 1) : l.expire[Nth(c, j)] <= l.expire[t]
  <2> SUFFICES ASSUME NEW j \in (k + 1) .. (m - 1) PROVE l.expire[Nth(c, j)] <= l.expire[t]
    OBVIOUS
  <2>1. j - k \in 1 .. N /\ ~(i <= j - k) /\ k + (j - k) = j /\ j \in 1 .. n
    BY <1>0, <1>7
  <2>2. j - k \notin S
    BY <1>6, <2>1
  <2>3. ~(l.expire[t] < l.expire[Nth(c, j)])
    BY <1>4, <2>1, <2>2
  <2> QED BY <1>0, <1>1, <2>1, <2>3
<1>11. m <= n => l.expire[t] < l.expire[Nth(c, m)]
  <2> SUFFICES ASSUME m <= n PROVE l.expire[t] < l.expire[Nth(c, m)]
    OBVIOUS
  <2>1. m \in 1 .. n
    BY <1>0, <1>8
  <2> QED BY <1>1, <1>6, <1>9, <2>1
<1> HIDE DEF m
<1>12. LET r == InsertBefore(l, t, Nth(c, m - 1), Nth(c, m))
       IN  IsList(r, Insert(c, m, t)) /\ r.live = l.live /\ r.expire = l.expire
  BY <1>8, InsertBeforeIs DEF n
<1> QED BY <1>3, <1>8, <1>9, <1>10, <1>11, <1>12 DEF n

\* add_timer(timer) keeps the list sorted if it was: everything before the new
\* timer expires no later, everything behind it later.
LEMMA AddIs ==
  ASSUME NEW l, NEW c, IsList(l, c), NEW t \in l.live, t \notin Elems(c),
         l.next[t] = NULL, l.prev[t] = NULL
  PROVE  LET r == AddTimer(l, t)
         IN  /\ r.live = l.live /\ r.expire = l.expire
             /\ \E m \in 1 .. (Len(c) + 1) :
                  /\ IsList(r, Insert(c, m, t))
                  /\ \A j \in 1 .. (m - 1) : l.expire[Nth(c, j)] <= l.expire[t]
                  /\ m <= Len(c) => l.expire[t] < l.expire[Nth(c, m)]
<1> DEFINE n == Len(c)
           P(i) == Nth(c, i)
           d == Insert(c, 1, t)
           Q(i) == Nth(d, i)
           r == AddTimer(l, t)
<1>0. l \in ListType /\ c \in Seq(Timers) /\ n \in Nat /\ t \in Timers
  BY DEF IsList, ListType
<1>1. /\ \A i \in 1 .. n : P(i) \in Timers /\ P(i) # NULL /\ P(i) # t
      /\ \A i \in Int : i < 1 \/ n < i => P(i) = NULL
      /\ \A u \in Timers : l.expire[u] \in Int
  BY <1>0, NthType DEF Elems, ListType
<1>2. /\ \A i, j \in 1 .. n : P(i) = P(j) => i = j
      /\ \A i \in 1 .. n : P(i) \in l.live /\ l.next[P(i)] = P(i + 1) /\ l.prev[P(i)] = P(i - 1)
      /\ l.head = P(1) /\ (n > 0 => l.tail = P(n))
  BY DEF IsList
<1>3. /\ d \in Seq(Timers) /\ Len(d) = n + 1
      /\ Q(1) = t /\ \A i \in 2 .. (n + 2) : Q(i) = P(i - 1)
      /\ Q(0) = NULL
  BY <1>0, <1>1, InsertNth
<1>4. CASE l.head = NULL
  <2>1. n = 0
    BY <1>0, <1>1, <1>2, <1>4
  <2>2. r = [l EXCEPT !.head = t, !.tail = t]
    BY <1>4 DEF AddTimer
  <2> HIDE DEF r, d, n, P, Q
  <2>3. /\ r \in ListType /\ r.live = l.live /\ r.expire = l.expire /\ r.head = t /\ r.tail = t
        /\ r.next = l.next /\ r.prev = l.prev
    BY <1>0, <2>2 DEF ListType
  <2>4. Q(2) = NULL /\ \A i \in 1 .. (n + 1) : i = 1
    BY <1>1, <1>3, <2>1
  <2>5. IsList(r, d)
    BY <1>3, <2>1, <2>3, <2>4 DEF IsList, Q
  <2>6. 1 \in 1 .. (Len(c) + 1) /\ ~(1 <= Len(c)) /\ 1 .. (1 - 1) = {}
    BY <2>1 DEF n
  <2>7. IsList(r, Insert(c, 1, t))
    BY <2>5 DEF d
  <2> QED BY <2>3, <2>6, <2>7 DEF r
<1>5. CASE l.head # NULL /\ l.expire[t] < l.expire[l.head]
  <2>1. n > 0 /\ l.head = P(1) /\ P(1) \in Timers /\ P(1) # t
    BY <1>0, <1>1, <1>2, <1>5
  <2>2. r = [l EXCEPT !.next[t] = l.head, !.prev[l.head] = t, !.head = t]
    BY <1>5 DEF AddTimer
  <2>d. IsList(r, d) => IsList(r, Insert(c, 1, t))
    OBVIOUS
  <2>n. n = Len(c) /\ P(1) = Nth(c, 1)
    OBVIOUS
  <2> HIDE DEF r, d, n, P, Q
  <2>3. /\ r \in ListType /\ r.live = l.live /\ r.expire = l.expire /\ r.head = t /\ r.tail = l.tail
        /\ \A u \in Timers : r.next[u] = IF u = t THEN P(1) ELSE l.next[u]
        /\ \A u \in Timers : r.prev[u] = IF u = P(1) THEN t ELSE l.prev[u]
    BY <1>0, <2>1, <2>2 DEF ListType
  <2>4. ASSUME NEW i \in 1 .. (n + 1)
        PROVE  /\ Q(i) \in r.live /\ r.next[Q(i)] = Q(i + 1) /\ r.prev[Q(i)] = Q(i - 1)
               /\ i # 1 => Q(i) # t /\ Q(i) = P(i - 1)
    <3>1. CASE i = 1
      <4>1. Q(i) = t /\ Q(i + 1) = P(1) /\ Q(i - 1) = NULL
        BY <1>0, <1>3, <3>1
      <4> QED BY <1>0, <2>1, <2>3, <3>1, <4>1
    <3>2. CASE i # 1
      <4>1. /\ i - 1 \in 1 .. n /\ Q(i) = P(i - 1) /\ Q(i + 1) = P((i - 1) + 1)
            /\ Q(i - 1) = IF i - 1 = 1 THEN t ELSE P((i - 1) - 1)
        BY <1>0, <1>3, <3>2
      <4>2. P(i - 1) # t /\ P(i - 1) \in Timers /\ (P(i - 1) = P(1) <=> i - 1 = 1)
        BY <1>0, <1>1, <1>2, <2>1, <4>1
      <4> QED BY <1>2, <2>3, <3>2, <4>1, <4>2
    <3> QED BY <3>1, <3>2
  <2>5. ASSUME NEW i \in 1 .. (n + 1), NEW j \in 1 .. (n + 1), Q(i) = Q(j)
        PROVE  i = j
    <3>1. CASE i = 1 \/ j = 1
      BY <1>3, <2>4, <2>5, <3>1
    <3>2. CASE i # 1 /\ j # 1
      <4>1. i - 1 \in 1 .. n /\ j - 1 \in 1 .. n /\ P(i - 1) = P(j - 1)
        BY <1>0, <2>4, <2>5, <3>2
      <4>2. i - 1 = j - 1
        BY <1>2, <4>1
      <4> QED BY <1>0, <4>2
    <3> QED BY <3>1, <3>2
  <2>6. r.tail = Q(n + 1)
    <3>1. n + 1 \in 2 .. (n + 2) /\ (n + 1) - 1 = n
      BY <1>0, <2>1
    <3> QED BY <1>2, <1>3, <2>1, <2>3, <3>1
  <2>7. IsList(r, d)
    BY <1>3, <2>3, <2>4, <2>5, <2>6 DEF IsList, Q
  <2>8. 1 \in 1 .. (Len(c) + 1) /\ 1 .. (1 - 1) = {}
    BY <1>0, <2>n
  <2> QED BY <1>5, <2>1, <2>3, <2>7, <2>8, <2>d, <2>n DEF r
<1>6. CASE l.head # NULL /\ ~(l.expire[t] < l.expire[l.head])
  <2>1. n > 0 /\ l.head = Nth(c, 1) /\ 1 \in 1 .. Len(c) /\ l.head \in Timers
    BY <1>0, <1>1, <1>2, <1>6
  <2>2. AddTimer(l, t) = InsertAfter(l, t, Nth(c, 1))
    BY <1>6, <2>1 DEF AddTimer
  <2>3. l.expire[Nth(c, 1)] <= l.expire[t]
    BY <1>0, <1>1, <1>6, <2>1
  <2>4. /\ AddTimer(l, t).live = l.live /\ AddTimer(l, t).expire = l.expire
        /\ \E m \in (1 + 1) .. (Len(c) + 1) :
             /\ IsList(AddTimer(l, t), Insert(c, m, t))
             /\ \A j \in (1 + 1) .. (m - 1) : l.expire[Nth(c, j)] <= l.expire[t]
             /\ m <= Len(c) => l.expire[t] < l.expire[Nth(c, m)]
    BY <2>1, <2>2, InsertAfterIs
  <2>5. PICK m \in 2 .. (Len(c) + 1) :
             /\ IsList(AddTimer(l, t), Insert(c, m, t))
             /\ \A j \in 2 .. (m - 1) : l.expire[Nth(c, j)] <= l.expire[t]
             /\ m <= Len(c) => l.expire[t] < l.expire[Nth(c, m)]
    BY <2>4
  <2>6. m \in 1 .. (Len(c) + 1)
    BY <1>0
  <2>7. \A j \in 1 .. (m - 1) : l.expire[Nth(c, j)] <= l.expire[t]
    <3>1. \A j \in 1 .. (m - 1) : j = 1 \/ j \in 2 .. (m - 1)
      OBVIOUS
    <3> QED BY <2>3, <2>5, <3>1
  <2> QED BY <2>4, <2>5, <2>6, <2>7
<1> QED BY <1>4, <1>5, <1>6

\* delete frees memory and touches nothing else.
LEMMA DeleteIs ==
  ASSUME NEW l \in ListType, NEW S \in SUBSET Timers
  PROVE  LET r == Delete(l, S)
         IN  /\ r \in ListType /\ r.head = l.head /\ r.tail = l.tail /\ r.live = l.live \ S
             /\ \A u \in Timers \ S : /\ r.next[u] = l.next[u] /\ r.prev[u] = l.prev[u]
                                      /\ r.expire[u] = l.expire[u]
<1> DEFINE r == Delete(l, S)
<1> DEFINE prev   == [t \in Timers |-> IF t \in S THEN NULL ELSE l.prev[t]]
           next   == [t \in Timers |-> IF t \in S THEN NULL ELSE l.next[t]]
           expire == [t \in Timers |-> IF t \in S THEN 0 ELSE l.expire[t]]
<1>0. r = [l EXCEPT !.live = l.live \ S, !.prev = prev, !.next = next, !.expire = expire]
  BY DEF Delete
<1>1. /\ r.head = l.head /\ r.tail = l.tail /\ r.live = l.live \ S
      /\ r.prev = prev /\ r.next = next /\ r.expire = expire
      /\ r = [head |-> r.head, tail |-> r.tail, prev |-> r.prev, next |-> r.next,
              expire |-> r.expire, live |-> r.live]
  <2> HIDE DEF r, prev, next, expire
  <2> QED BY <1>0 DEF ListType
<1> HIDE DEF r
<1>2. /\ r.prev \in [Timers -> Timers \cup {NULL}] /\ r.next \in [Timers -> Timers \cup {NULL}]
      /\ r.expire \in [Timers -> Int] /\ r.live \in SUBSET Timers
      /\ r.head \in Timers \cup {NULL} /\ r.tail \in Timers \cup {NULL}
  BY <1>1 DEF ListType
<1>3. r \in ListType
  BY <1>1, <1>2 DEF ListType
<1> QED BY <1>1, <1>3 DEF r

\* What it takes to unlink the k-th timer: its neighbours point to each other, and
\* head and tail move if they have to.  Its own fields may be anything.
Unlinked(l, c, k, r) ==
  /\ r \in ListType
  /\ l.live \ {Nth(c, k)} \subseteq r.live
  /\ \A u \in Timers \ {Nth(c, k)} :
       /\ r.next[u] = IF u = Nth(c, k - 1) THEN Nth(c, k + 1) ELSE l.next[u]
       /\ r.prev[u] = IF u = Nth(c, k + 1) THEN Nth(c, k - 1) ELSE l.prev[u]
  /\ r.head = IF k = 1 THEN Nth(c, 2) ELSE l.head
  /\ Len(c) > 1 => r.tail = IF k = Len(c) THEN Nth(c, Len(c) - 1) ELSE l.tail

LEMMA UnlinkIs ==
  ASSUME NEW l, NEW c, IsList(l, c), NEW k \in 1 .. Len(c), NEW r, Unlinked(l, c, k, r)
  PROVE  IsList(r, Without(c, k)) /\ Nth(c, k) \notin Elems(Without(c, k))
<1> DEFINE P(i) == Nth(c, i)
           d    == Without(c, k)
           Q(i) == Nth(d, i)
           n    == Len(c)
<1>0. l \in ListType /\ c \in Seq(Timers) /\ n \in Nat /\ k \in 1 .. n
  BY DEF IsList, ListType
<1>1. /\ \A i \in 1 .. n : P(i) \in Timers /\ P(i) # NULL
      /\ \A i \in Int : i < 1 \/ n < i => P(i) = NULL
  BY <1>0, NthType
<1>2. /\ \A i, j \in 1 .. n : P(i) = P(j) => i = j
      /\ \A i \in 1 .. n : P(i) \in l.live /\ l.next[P(i)] = P(i + 1) /\ l.prev[P(i)] = P(i - 1)
      /\ l.head = P(1) /\ (n > 0 => l.tail = P(n))
  BY DEF IsList
<1>3. /\ d \in Seq(Timers) /\ Len(d) = n - 1
      /\ \A i \in Int : Q(i) = IF i < k THEN P(i) ELSE P(i + 1)
  BY <1>0, WithoutNth
<1>4. /\ r \in ListType /\ l.live \ {P(k)} \subseteq r.live
      /\ \A u \in Timers \ {P(k)} :
           /\ r.next[u] = IF u = P(k - 1) THEN P(k + 1) ELSE l.next[u]
           /\ r.prev[u] = IF u = P(k + 1) THEN P(k - 1) ELSE l.prev[u]
      /\ r.head = IF k = 1 THEN P(2) ELSE l.head
      /\ n > 1 => r.tail = IF k = n THEN P(n - 1) ELSE l.tail
  BY DEF Unlinked
<1>e. Elems(d) = {Q(i) : i \in 1 .. (n - 1)}
  BY <1>3 DEF Elems
<1> HIDE DEF d, n, P, Q
<1>6. ASSUME NEW i \in 1 .. (n - 1)
      PROVE  /\ Q(i) \in r.live /\ Q(i) # P(k)
             /\ r.next[Q(i)] = Q(i + 1) /\ r.prev[Q(i)] = Q(i - 1)
             /\ Q(i) = P(IF i < k THEN i ELSE i + 1)
  <2>1. CASE i < k
    <3>1. /\ i \in 1 .. n /\ i # k /\ Q(i) = P(i) /\ Q(i - 1) = P(i - 1)
          /\ Q(i + 1) = IF i = k - 1 THEN P(k + 1) ELSE P(i + 1)
      <4>1. i \in 1 .. n /\ i # k /\ i - 1 \in Int /\ i + 1 \in Int /\ i \in Int /\ i - 1 < k
        BY <1>0, <2>1
      <4>2. Q(i) = P(i) /\ Q(i - 1) = P(i - 1)
        BY <1>3, <2>1, <4>1
      <4>3. CASE i = k - 1
        <5>1. i + 1 = k /\ ~(i + 1 < k)
          BY <1>0, <4>3
        <5> QED BY <1>3, <4>1, <4>2, <4>3, <5>1
      <4>4. CASE i # k - 1
        <5>1. i + 1 < k
          BY <1>0, <2>1, <4>4
        <5> QED BY <1>3, <4>1, <4>2, <4>4, <5>1
      <4> QED BY <4>3, <4>4
    <3>2. P(i) \in Timers \ {P(k)} /\ P(i) # P(k + 1) /\ (P(i) = P(k - 1) <=> i = k - 1)
      <4>1. /\ k + 1 \in 1 .. n \/ P(k + 1) = NULL
            /\ k - 1 \in 1 .. n \/ P(k - 1) = NULL
            /\ k - 1 = i => k - 1 \in 1 .. n
        BY <1>0, <1>1, <3>1
      <4>2. i # k + 1
        BY <1>0, <2>1
      <4> QED BY <1>0, <1>1, <1>2, <3>1, <4>1, <4>2
    <3> QED BY <1>2, <1>4, <2>1, <3>1, <3>2
  <2>2. CASE ~(i < k)
    <3>1. /\ i + 1 \in 1 .. n /\ i + 1 # k /\ Q(i) = P(i + 1) /\ Q(i + 1) = P((i + 1) + 1)
          /\ Q(i - 1) = IF i = k THEN P(k - 1) ELSE P((i + 1) - 1)
      <4>1. /\ i + 1 \in 1 .. n /\ i + 1 # k /\ i - 1 \in Int /\ i + 1 \in Int /\ i \in Int
            /\ ~(i + 1 < k) /\ (i + 1) - 1 = i /\ (i - 1) + 1 = i
        BY <1>0, <2>2
      <4>2. Q(i) = P(i + 1) /\ Q(i + 1) = P((i + 1) + 1)
        BY <1>3, <2>2, <4>1
      <4>3. CASE i = k
        <5>1. i - 1 < k
          BY <1>0, <4>3
        <5> QED BY <1>3, <4>1, <4>2, <4>3, <5>1
      <4>4. CASE i # k
        <5>1. ~(i - 1 < k)
          BY <1>0, <2>2, <4>4
        <5> QED BY <1>3, <4>1, <4>2, <4>4, <5>1
      <4> QED BY <4>3, <4>4
    <3>2. P(i + 1) \in Timers \ {P(k)} /\ P(i + 1) # P(k - 1) /\ (P(i + 1) = P(k + 1) <=> i = k)
      <4>1. /\ k + 1 \in 1 .. n \/ P(k + 1) = NULL
            /\ k - 1 \in 1 .. n \/ P(k - 1) = NULL
            /\ (k + 1 = i + 1 <=> i = k)
        BY <1>0, <1>1, <3>1
      <4>2. i + 1 # k - 1
        BY <1>0, <2>2
      <4> QED BY <1>0, <1>1, <1>2, <3>1, <4>1, <4>2
    <3> QED BY <1>2, <1>4, <2>2, <3>1, <3>2
  <2> QED BY <2>1, <2>2
<1>7. ASSUME NEW i \in 1 .. (n - 1), NEW j \in 1 .. (n - 1), Q(i) = Q(j)
      PROVE  i = j
  <2> DEFINE f(x) == IF x < k THEN x ELSE x + 1
  <2>1. f(i) \in 1 .. n /\ f(j) \in 1 .. n /\ (f(i) = f(j) => i = j)
    BY <1>0
  <2>2. P(f(i)) = P(f(j))
    BY <1>6, <1>7
  <2> QED BY <1>2, <2>1, <2>2
<1>8. r.head = Q(1)
  <2>1. Q(1) = IF 1 < k THEN P(1) ELSE P(2)
    BY <1>3
  <2> QED BY <1>0, <1>2, <1>4, <2>1
<1>9. n - 1 > 0 => r.tail = Q(n - 1)
  <2> SUFFICES ASSUME n - 1 > 0 PROVE r.tail = Q(n - 1)
    OBVIOUS
  <2>1. Q(n - 1) = IF k = n THEN P(n - 1) ELSE P(n)
    <3>1. n - 1 \in Int /\ (n - 1) + 1 = n /\ (n - 1 < k <=> k = n)
      BY <1>0
    <3> QED BY <1>3, <3>1
  <2>2. n > 1 /\ n > 0
    BY <1>0
  <2>3. r.tail = IF k = n THEN P(n - 1) ELSE l.tail
    BY <1>4, <2>2
  <2>4. l.tail = P(n)
    BY <1>2, <2>2
  <2> QED BY <2>1, <2>3, <2>4
<1>10. IsList(r, d)
  BY <1>3, <1>4, <1>6, <1>7, <1>8, <1>9 DEF IsList, Q
<1>11. P(k) \notin Elems(d)
  BY <1>6, <1>e
<1> QED BY <1>10, <1>11 DEF P, d

\* del_timer unlinks the timer, and frees it unless it stands between two others.
LEMMA DelIs ==
  ASSUME NEW l, NEW c, IsList(l, c), NEW k \in 1 .. Len(c)
  PROVE  LET t == Nth(c, k)
             r == DelTimer(l, t)
         IN  /\ IsList(r, Without(c, k)) /\ t \notin Elems(Without(c, k))
             /\ \A u \in Timers \ {t} : r.expire[u] = l.expire[u]
             /\ \/ r.live = l.live \ {t}
                \/ r.live = l.live /\ l.next[t] # NULL /\ l.prev[t] # NULL
<1> DEFINE n == Len(c)
           P(i) == Nth(c, i)
           t == P(k)
           r == DelTimer(l, t)
<1>0. l \in ListType /\ c \in Seq(Timers) /\ n \in Nat /\ k \in 1 .. n
  BY DEF IsList, ListType
<1>1. /\ \A i \in 1 .. n : P(i) \in Timers /\ P(i) # NULL
      /\ \A i \in Int : i < 1 \/ n < i => P(i) = NULL
  BY <1>0, NthType
<1>2. /\ \A i, j \in 1 .. n : P(i) = P(j) => i = j
      /\ l.next[t] = P(k + 1) /\ l.prev[t] = P(k - 1)
      /\ l.head = P(1) /\ l.tail = P(n) /\ t \in l.live
  BY <1>0 DEF IsList
<1>3. (t = l.head <=> k = 1) /\ (t = l.tail <=> k = n) /\ t \in Timers /\ t # NULL
  BY <1>0, <1>1, <1>2
<1> DEFINE Linking(x) ==
             /\ x \in ListType /\ l.live \ {t} \subseteq x.live
             /\ \A u \in Timers \ {t} :
                  /\ x.next[u] = IF u = P(k - 1) THEN P(k + 1) ELSE l.next[u]
                  /\ x.prev[u] = IF u = P(k + 1) THEN P(k - 1) ELSE l.prev[u]
             /\ x.head = (IF k = 1 THEN P(2) ELSE l.head)
             /\ n > 1 => x.tail = IF k = n THEN P(n - 1) ELSE l.tail
           Rest(x) == /\ \A u \in Timers \ {t} : x.expire[u] = l.expire[u]
                      /\ \/ x.live = l.live \ {t}
                         \/ x.live = l.live /\ l.next[t] # NULL /\ l.prev[t] # NULL
<1>4. Linking(r) => IsList(r, Without(c, k)) /\ t \notin Elems(Without(c, k))
  <2> HIDE DEF r
  <2>1. Linking(r) => Unlinked(l, c, k, r)
    BY DEF Unlinked
  <2> QED BY <2>1, UnlinkIs
<1>5. Linking(r) /\ Rest(r)
  <2>h. n = Len(c)
    OBVIOUS
  <2>1. CASE k = 1 /\ k = n
    <3> DEFINE x == [l EXCEPT !.head = NULL, !.tail = NULL]
    <3>1. r = Delete(x, {t})
      BY <1>3, <2>1 DEF DelTimer
    <3> HIDE DEF P, t, n, r
    <3>2. P(k + 1) = NULL /\ P(k - 1) = NULL /\ P(2) = NULL /\ ~(n > 1)
      BY <1>0, <1>1, <2>1
    <3>3. /\ x \in ListType /\ x.head = NULL /\ x.live = l.live /\ x.next = l.next
          /\ x.prev = l.prev /\ x.expire = l.expire
      BY <1>0 DEF ListType
    <3> HIDE DEF x
    <3>4. /\ r \in ListType /\ r.head = NULL /\ r.live = l.live \ {t}
          /\ \A u \in Timers \ {t} : /\ r.next[u] = l.next[u] /\ r.prev[u] = l.prev[u]
                                     /\ r.expire[u] = l.expire[u]
      BY <1>3, <3>1, <3>3, DeleteIs
    <3>5. \A u \in Timers : u # NULL
      OBVIOUS
    <3> QED BY <2>1, <3>2, <3>4, <3>5
  <2>2. CASE k = 1 /\ k # n
    <3> DEFINE x == [l EXCEPT !.head = l.next[t], !.prev[l.next[t]] = NULL]
    <3>1. r = Delete(x, {t})
      BY <1>3, <2>2 DEF DelTimer
    <3> HIDE DEF P, t, n, r
    <3>2. P(k + 1) = P(2) /\ P(2) \in Timers /\ P(k - 1) = NULL
      BY <1>0, <1>1, <2>2
    <3>3. /\ x \in ListType /\ x.head = P(2) /\ x.tail = l.tail /\ x.live = l.live
          /\ x.next = l.next /\ x.expire = l.expire
          /\ \A u \in Timers : x.prev[u] = IF u = P(2) THEN NULL ELSE l.prev[u]
      BY <1>0, <1>2, <3>2 DEF ListType
    <3> HIDE DEF x
    <3>4. /\ r \in ListType /\ r.head = P(2) /\ r.tail = l.tail /\ r.live = l.live \ {t}
          /\ \A u \in Timers \ {t} : /\ r.next[u] = l.next[u] /\ r.prev[u] = x.prev[u]
                                     /\ r.expire[u] = l.expire[u]
      BY <1>3, <3>1, <3>3, DeleteIs
    <3>5. \A u \in Timers : u # NULL
      OBVIOUS
    <3> QED BY <2>2, <3>2, <3>3, <3>4, <3>5
  <2>3. CASE k # 1 /\ k = n
    <3> DEFINE x == [l EXCEPT !.tail = l.prev[t], !.next[l.prev[t]] = NULL]
    <3>1. r = Delete(x, {t})
      BY <1>3, <2>3 DEF DelTimer
    <3> HIDE DEF P, t, n, r
    <3>2. P(k - 1) = P(n - 1) /\ P(k - 1) \in Timers /\ P(k + 1) = NULL
      BY <1>0, <1>1, <2>3
    <3>3. /\ x \in ListType /\ x.head = l.head /\ x.tail = P(n - 1) /\ x.live = l.live
          /\ x.prev = l.prev /\ x.expire = l.expire
          /\ \A u \in Timers : x.next[u] = IF u = P(k - 1) THEN NULL ELSE l.next[u]
      BY <1>0, <1>2, <3>2 DEF ListType
    <3> HIDE DEF x
    <3>4. /\ r \in ListType /\ r.head = l.head /\ r.tail = P(n - 1) /\ r.live = l.live \ {t}
          /\ \A u \in Timers \ {t} : /\ r.next[u] = x.next[u] /\ r.prev[u] = l.prev[u]
                                     /\ r.expire[u] = l.expire[u]
      BY <1>3, <3>1, <3>3, DeleteIs
    <3>5. \A u \in Timers : u # NULL
      OBVIOUS
    <3> QED BY <2>3, <3>2, <3>3, <3>4, <3>5
  <2>4. CASE k # 1 /\ k # n
    <3>1. r = [l EXCEPT !.prev[l.next[t]] = l.prev[t], !.next[l.prev[t]] = l.next[t]]
      BY <1>3, <2>4 DEF DelTimer
    <3> HIDE DEF P, t, n, r
    <3>2. P(k - 1) \in Timers /\ P(k + 1) \in Timers /\ P(k - 1) # NULL /\ P(k + 1) # NULL
      BY <1>0, <1>1, <2>4
    <3>3. /\ r \in ListType /\ r.head = l.head /\ r.tail = l.tail /\ r.live = l.live
          /\ r.expire = l.expire
          /\ \A u \in Timers : r.next[u] = IF u = P(k - 1) THEN P(k + 1) ELSE l.next[u]
          /\ \A u \in Timers : r.prev[u] = IF u = P(k + 1) THEN P(k - 1) ELSE l.prev[u]
      BY <1>0, <1>2, <3>1, <3>2 DEF ListType
    <3> QED BY <1>2, <2>4, <3>2, <3>3
  <2> QED BY <2>1, <2>2, <2>3, <2>4
<1> QED BY <1>4, <1>5

\* adjust_timer leaves the list as it is, or moves the timer behind all those after
\* it that do not expire later.
LEMMA AdjustIs ==
  ASSUME NEW l, NEW c, IsList(l, c), NEW k \in 1 .. Len(c)
  PROVE  LET t == Nth(c, k)
             d == Without(c, k)
             r == AdjustTimer(l, t)
         IN  /\ r.live = l.live /\ r.expire = l.expire
             /\ \/ r = l /\ (k < Len(c) => l.expire[t] < l.expire[Nth(c, k + 1)])
                \/ \E m \in (k + 1) .. Len(c) :
                     /\ IsList(r, Insert(d, m, t)) /\ t \notin Elems(d)
                     /\ \A j \in k .. (m - 1) : l.expire[Nth(d, j)] <= l.expire[t]
                     /\ m < Len(c) => l.expire[t] < l.expire[Nth(d, m)]
<1> DEFINE n == Len(c)
           P(i) == Nth(c, i)
           t == P(k)
           tmp == l.next[t]
           d == Without(c, k)
           r == AdjustTimer(l, t)
           x == IF t = l.head
                THEN [l EXCEPT !.head = tmp, !.prev[tmp] = NULL, !.next[t] = NULL]
                ELSE [l EXCEPT !.next[l.prev[t]] = tmp, !.prev[tmp] = l.prev[t]]
<1>0. l \in ListType /\ c \in Seq(Timers) /\ n \in Nat /\ k \in 1 .. n
  BY DEF IsList, ListType
<1>1. /\ \A i \in 1 .. n : P(i) \in Timers /\ P(i) # NULL
      /\ \A i \in Int : i < 1 \/ n < i => P(i) = NULL
      /\ \A u \in Timers : l.expire[u] \in Int
  BY <1>0, NthType DEF ListType
<1>2. /\ \A i, j \in 1 .. n : P(i) = P(j) => i = j
      /\ tmp = P(k + 1) /\ l.prev[t] = P(k - 1)
      /\ l.head = P(1) /\ l.tail = P(n) /\ t \in l.live /\ t \in Timers
  BY <1>0, <1>1 DEF IsList
<1>3. CASE tmp = NULL \/ l.expire[t] < l.expire[tmp]
  <2>1. r = l
    BY <1>3 DEF AdjustTimer
  <2>2. k < n => l.expire[t] < l.expire[P(k + 1)]
    <3> SUFFICES ASSUME k < n PROVE l.expire[t] < l.expire[P(k + 1)]
      OBVIOUS
    <3>1. k + 1 \in 1 .. n
      BY <1>0
    <3>2. tmp # NULL
      BY <1>1, <1>2, <3>1
    <3> QED BY <1>2, <1>3, <3>2
  <2> QED BY <2>1, <2>2
<1>4. CASE ~(tmp = NULL \/ l.expire[t] < l.expire[tmp])
  <2>1. r = InsertAfter(x, t, tmp)
    BY <1>4 DEF AdjustTimer
  <2>e. n = Len(c)
    OBVIOUS
  <2>2. k + 1 \in 1 .. n /\ tmp \in Timers /\ tmp # t /\ k # n /\ P(k + 1) # NULL
    <3>1. k + 1 \in 1 .. n
      <4> HIDE DEF n, P, t, tmp
      <4> QED BY <1>0, <1>1, <1>2, <1>4
    <3>2. k + 1 # k /\ k # n
      BY <1>0, <3>1
    <3> HIDE DEF n, P, tmp
    <3> QED BY <1>0, <1>1, <1>2, <3>1, <3>2
  <2>3. (t = l.head <=> k = 1) /\ (k # 1 => P(k - 1) \in Timers /\ P(k - 1) # NULL)
    <3>1. 1 \in 1 .. n /\ (k # 1 => k - 1 \in 1 .. n)
      BY <1>0
    <3> HIDE DEF n, P
    <3> QED BY <1>0, <1>1, <1>2, <3>1
  <2>4. Unlinked(l, c, k, x) /\ x.live = l.live /\ x.expire = l.expire
    <3>1. /\ x \in ListType /\ x.live = l.live /\ x.expire = l.expire
          /\ \A u \in Timers \ {t} :
               /\ x.next[u] = IF u = P(k - 1) THEN P(k + 1) ELSE l.next[u]
               /\ x.prev[u] = IF u = P(k + 1) THEN P(k - 1) ELSE l.prev[u]
          /\ x.head = IF k = 1 THEN P(2) ELSE l.head
          /\ x.tail = l.tail
      <4>1. CASE k = 1
        <5>1. P(k - 1) = NULL /\ P(k + 1) = P(2)
          <6>1. k - 1 = 0 /\ k + 1 = 2
            BY <4>1
          <6> HIDE DEF n, P
          <6> QED BY <1>1, <6>1
        <5>2. x = [l EXCEPT !.head = tmp, !.prev[tmp] = NULL, !.next[t] = NULL]
          BY <2>3, <4>1
        <5> HIDE DEF x, t, tmp, P, n
        <5>3. \A u \in Timers : u # NULL
          OBVIOUS
        <5> QED BY <1>0, <1>2, <2>2, <4>1, <5>1, <5>2, <5>3 DEF ListType
      <4>2. CASE k # 1
        <5>1. x = [l EXCEPT !.next[l.prev[t]] = tmp, !.prev[tmp] = l.prev[t]]
          BY <2>3, <4>2
        <5> HIDE DEF x, t, tmp, P, n
        <5> QED BY <1>0, <1>2, <2>2, <2>3, <4>2, <5>1 DEF ListType
      <4> QED BY <4>1, <4>2
    <3>2. l.live \ {t} \subseteq x.live
      BY <3>1
    <3> HIDE DEF x
    <3> QED BY <2>2, <3>1, <3>2 DEF Unlinked
  <2>5. IsList(x, d) /\ t \notin Elems(d)
    <3> HIDE DEF x
    <3> QED BY <2>4, UnlinkIs
  <2>6. /\ Len(d) = n - 1 /\ tmp = Nth(d, k) /\ k \in 1 .. Len(d)
    <3>1. Len(d) = n - 1 /\ Nth(d, k) = P(k + 1)
      BY <1>0, WithoutNth
    <3> HIDE DEF d, n, P, tmp
    <3> QED BY <1>0, <1>2, <2>2, <3>1
  <2>7. t \in x.live
    BY <1>2, <2>4
  <2>8. l.expire[Nth(d, k)] <= l.expire[t]
    <3> HIDE DEF tmp, t, d, P, n
    <3> QED BY <1>1, <1>2, <1>4, <2>2, <2>6
  <2> HIDE DEF x, d, t, tmp, n, r
  <2>9. r = InsertAfter(x, t, Nth(d, k))
    BY <2>1, <2>6
  <2>10. /\ r.live = x.live /\ r.expire = x.expire
         /\ \E m \in (k + 1) .. (Len(d) + 1) :
              /\ IsList(r, Insert(d, m, t))
              /\ \A j \in (k + 1) .. (m - 1) : x.expire[Nth(d, j)] <= x.expire[t]
              /\ m <= Len(d) => x.expire[t] < x.expire[Nth(d, m)]
    BY <2>5, <2>6, <2>7, <2>9, InsertAfterIs
  <2>11. PICK m \in (k + 1) .. (Len(d) + 1) :
              /\ IsList(r, Insert(d, m, t))
              /\ \A j \in (k + 1) .. (m - 1) : l.expire[Nth(d, j)] <= l.expire[t]
              /\ m <= Len(d) => l.expire[t] < l.expire[Nth(d, m)]
    BY <2>4, <2>10
  <2>12. m \in (k + 1) .. n /\ (m < n => m <= Len(d)) /\ \A j \in k .. (m - 1) : j = k \/ j \in (k + 1) .. (m - 1)
    BY <1>0, <2>6
  <2>13. /\ m \in (k + 1) .. n
         /\ IsList(r, Insert(d, m, t)) /\ t \notin Elems(d)
         /\ \A j \in k .. (m - 1) : l.expire[Nth(d, j)] <= l.expire[t]
         /\ m < n => l.expire[t] < l.expire[Nth(d, m)]
    BY <2>5, <2>8, <2>11, <2>12
  <2>14. r.live = l.live /\ r.expire = l.expire
    BY <2>4, <2>10
  <2> QED BY <2>13, <2>14 DEF r, t, d, n
<1> QED BY <1>3, <1>4

\* tick removes the longest prefix of timers that are due, and frees them.
LEMMA TickIs ==
  ASSUME NEW l, NEW c, IsList(l, c), NEW cur \in Int
  PROVE  LET r == TickList(l, cur)
         IN  \E k \in 0 .. Len(c) :
               /\ Expired(l, cur) = {Nth(c, j) : j \in 1 .. k}
               /\ IsList(r, Suffix(c, k))
               /\ \A j \in 1 .. k : l.expire[Nth(c, j)] <= cur
               /\ k < Len(c) => l.expire[Nth(c, k + 1)] > cur
               /\ r.live = l.live \ Expired(l, cur)
               /\ \A u \in Timers \ Expired(l, cur) : r.expire[u] = l.expire[u]
<1> DEFINE n == Len(c)
           N == Cardinality(Timers)
           P(i) == Nth(c, i)
           at == Walk(l, l.head)
           S == {i \in DOMAIN at : at[i] = NULL \/ l.expire[at[i]] > cur}
           k == FirstUnexpired(l, cur)
           E == Expired(l, cur)
           d == Suffix(c, k)
           r == TickList(l, cur)
<1>0. l \in ListType /\ c \in Seq(Timers) /\ n \in Nat /\ N \in Nat /\ n <= N
  BY LengthBounded DEF IsList, ListType
<1>1. /\ \A i \in 1 .. n : P(i) \in Timers /\ P(i) # NULL
      /\ \A i \in Int : i < 1 \/ n < i => P(i) = NULL
      /\ \A u \in Timers : l.expire[u] \in Int
  BY <1>0, NthType DEF ListType
<1>2. /\ \A i, j \in 1 .. n : P(i) = P(j) => i = j
      /\ \A i \in 1 .. n : P(i) \in l.live /\ l.next[P(i)] = P(i + 1) /\ l.prev[P(i)] = P(i - 1)
      /\ l.head = P(1) /\ (n > 0 => l.tail = P(n))
  BY DEF IsList
<1>3. at = [j \in 0 .. N |-> P(1 + j)]
  BY ChainIs
<1>4. k = Min(S) /\ E = {at[i] : i \in 0 .. (k - 1)}
  BY DEF FirstUnexpired, Expired
<1>5. r = IF E = {} THEN l
          ELSE IF at[k] = NULL THEN Delete([l EXCEPT !.head = NULL], E)
          ELSE Delete([l EXCEPT !.head = at[k], !.prev[at[k]] = NULL], E)
  BY DEF TickList
<1>e. n = Len(c)
  OBVIOUS
<1> HIDE DEF n, N, P, at, k, E, r
<1>6. DOMAIN at = 0 .. N /\ \A j \in 0 .. N : at[j] = P(1 + j)
  BY <1>3
<1>7. S \in SUBSET Nat /\ n \in S
  <2>1. n \in 0 .. N /\ 1 + n \in Int /\ n < 1 + n
    BY <1>0
  <2>2. at[n] = NULL
    BY <1>1, <1>6, <2>1
  <2> QED BY <1>0, <1>6, <2>1, <2>2
<1>8. k \in S /\ \A j \in S : k <= j
  <2> HIDE DEF S
  <2> QED BY <1>4, <1>7, MinNat
<1>9. k \in 0 .. n /\ k \in 0 .. N
  <2>1. k \in 0 .. N
    BY <1>6, <1>8
  <2>2. k <= n
    BY <1>7, <1>8
  <2> QED BY <1>0, <2>1, <2>2
<1>10. ASSUME NEW j \in 1 .. k
       PROVE  j \in 1 .. n /\ at[j - 1] = P(j) /\ l.expire[P(j)] <= cur
  <2>1. j \in 1 .. n /\ j - 1 \in 0 .. N /\ 1 + (j - 1) = j /\ ~(k <= j - 1)
    BY <1>0, <1>9
  <2>2. at[j - 1] = P(j)
    BY <1>6, <2>1
  <2>3. j - 1 \notin S
    BY <1>8, <2>1
  <2>4. ~(l.expire[P(j)] > cur)
    BY <1>6, <2>1, <2>2, <2>3
  <2> QED BY <1>1, <2>1, <2>2, <2>4
<1>11. k < n => l.expire[P(k + 1)] > cur
  <2> SUFFICES ASSUME k < n PROVE l.expire[P(k + 1)] > cur
    OBVIOUS
  <2>1. k + 1 \in 1 .. n /\ 1 + k = k + 1
    BY <1>0, <1>9
  <2>2. at[k] = P(k + 1) /\ at[k] # NULL
    BY <1>1, <1>6, <1>9, <2>1
  <2> QED BY <1>8, <2>2
<1>12. E = {P(j) : j \in 1 .. k}
  <2>1. ASSUME NEW i \in 0 .. (k - 1) PROVE i + 1 \in 1 .. k /\ at[i] = P(i + 1)
    <3>1. i + 1 \in 1 .. k /\ (i + 1) - 1 = i
      BY <1>9
    <3> QED BY <1>10, <3>1
  <2>2. ASSUME NEW j \in 1 .. k PROVE j - 1 \in 0 .. (k - 1) /\ at[j - 1] = P(j)
    BY <1>9, <1>10
  <2> QED BY <1>4, <2>1, <2>2
<1>13. E \in SUBSET Timers
  BY <1>1, <1>10, <1>12
<1>14. at[k] = P(k + 1)
  <2>1. 1 + k = k + 1
    BY <1>9
  <2> QED BY <1>6, <1>9, <2>1
<1>15. /\ d \in Seq(Timers) /\ Len(d) = n - k
       /\ \A i \in Int : Nth(d, i) = IF i < 1 THEN NULL ELSE P(i + k)
  BY <1>0, <1>9, SuffixNth DEF n, P
<1>16. ASSUME NEW i \in 1 .. (n - k)
       PROVE  i + k \in 1 .. n /\ P(i + k) \notin E /\ Nth(d, i) = P(i + k)
  <2>1. i + k \in 1 .. n /\ i + k \notin 1 .. k
    BY <1>0, <1>9
  <2>2. Nth(d, i) = P(i + k)
    BY <1>15
  <2> QED BY <1>2, <1>10, <1>12, <2>1, <2>2
<1>17. /\ r \in ListType /\ r.head = P(k + 1) /\ r.tail = l.tail /\ r.live = l.live \ E
       /\ \A u \in Timers \ E : /\ r.expire[u] = l.expire[u] /\ r.next[u] = l.next[u]
                                /\ r.prev[u] = IF u = P(k + 1) THEN NULL ELSE l.prev[u]
  <2>1. CASE E = {}
    <3>1. k = 0
      <4>1. 1 \in 1 .. k \/ k = 0
        BY <1>9
      <4> QED BY <1>12, <2>1, <4>1
    <3>2. r = l /\ k + 1 = 1
      BY <1>5, <2>1, <3>1
    <3>3. \A u \in Timers : u = P(1) => l.prev[u] = NULL
      <4>1. n > 0 => 1 \in 1 .. n /\ 1 - 1 = 0
        BY <1>0
      <4>2. ~(n > 0) => P(1) = NULL
        BY <1>0, <1>1
      <4>3. P(0) = NULL
        BY <1>1
      <4> QED BY <1>2, <4>1, <4>2, <4>3
    <3> QED BY <1>0, <1>2, <2>1, <3>2, <3>3
  <2>2. CASE E # {} /\ at[k] = NULL
    <3> DEFINE x == [l EXCEPT !.head = NULL]
    <3>1. r = Delete(x, E)
      BY <1>5, <2>2
    <3>2. /\ x \in ListType /\ x.head = NULL /\ x.tail = l.tail /\ x.live = l.live
          /\ x.next = l.next /\ x.prev = l.prev /\ x.expire = l.expire
      BY <1>0 DEF ListType
    <3> HIDE DEF x
    <3>3. /\ r \in ListType /\ r.head = NULL /\ r.tail = l.tail /\ r.live = l.live \ E
          /\ \A u \in Timers \ E : /\ r.next[u] = l.next[u] /\ r.prev[u] = l.prev[u]
                                   /\ r.expire[u] = l.expire[u]
      BY <1>13, <3>1, <3>2, DeleteIs
    <3>4. \A u \in Timers : u # NULL
      OBVIOUS
    <3> QED BY <1>14, <2>2, <3>3, <3>4
  <2>3. CASE E # {} /\ at[k] # NULL
    <3> DEFINE x == [l EXCEPT !.head = at[k], !.prev[at[k]] = NULL]
    <3>1. r = Delete(x, E)
      BY <1>5, <2>3
    <3>2. P(k + 1) \in Timers
      <4>1. k + 1 \in Int /\ (k + 1 \in 1 .. n \/ n < k + 1)
        BY <1>0, <1>9
      <4> QED BY <1>1, <1>14, <2>3, <4>1
    <3>3. /\ x \in ListType /\ x.head = P(k + 1) /\ x.tail = l.tail /\ x.live = l.live
          /\ x.next = l.next /\ x.expire = l.expire
          /\ \A u \in Timers : x.prev[u] = IF u = P(k + 1) THEN NULL ELSE l.prev[u]
      BY <1>0, <1>14, <3>2 DEF ListType
    <3> HIDE DEF x
    <3>4. /\ r \in ListType /\ r.head = P(k + 1) /\ r.tail = l.tail /\ r.live = l.live \ E
          /\ \A u \in Timers \ E : /\ r.next[u] = l.next[u] /\ r.prev[u] = x.prev[u]
                                   /\ r.expire[u] = l.expire[u]
      BY <1>13, <3>1, <3>3, DeleteIs
    <3> QED BY <3>3, <3>4
  <2> QED BY <2>1, <2>2, <2>3
<1> DEFINE Q(i) == Nth(d, i)
<1> HIDE DEF d, Q
<1>18. ASSUME NEW i \in 1 .. (n - k)
       PROVE  Q(i) \in r.live /\ r.next[Q(i)] = Q(i + 1) /\ r.prev[Q(i)] = Q(i - 1)
  <2>1. Q(i) = P(i + k) /\ P(i + k) \in Timers \ E /\ P(i + k) \in l.live /\ i + k \in 1 .. n
    BY <1>1, <1>2, <1>16 DEF Q
  <2>2. Q(i + 1) = P((i + k) + 1)
    <3>1. i + 1 \in Int /\ ~(i + 1 < 1) /\ (i + 1) + k = (i + k) + 1
      BY <1>9
    <3> QED BY <1>15, <3>1 DEF Q
  <2>3. P(i + k) = P(k + 1) <=> i = 1
    <3>1. (i + k = k + 1 <=> i = 1) /\ k + 1 \in 1 .. n
      BY <1>0, <1>9
    <3> QED BY <1>2, <2>1, <3>1
  <2>4. CASE i = 1
    <3>1. Q(i - 1) = NULL
      <4>1. i - 1 \in Int /\ i - 1 < 1
        BY <2>4
      <4> QED BY <1>15, <4>1 DEF Q
    <3> QED BY <1>2, <1>17, <2>1, <2>2, <2>3, <2>4, <3>1
  <2>5. CASE i # 1
    <3>1. Q(i - 1) = P((i + k) - 1)
      <4>1. i - 1 \in Int /\ ~(i - 1 < 1) /\ (i - 1) + k = (i + k) - 1
        BY <1>9, <2>5
      <4> QED BY <1>15, <4>1 DEF Q
    <3> QED BY <1>2, <1>17, <2>1, <2>2, <2>3, <2>5, <3>1
  <2> QED BY <2>4, <2>5
<1>19. \A i, j \in 1 .. (n - k) : Q(i) = Q(j) => i = j
  <2> SUFFICES ASSUME NEW i \in 1 .. (n - k), NEW j \in 1 .. (n - k), Q(i) = Q(j)
               PROVE  i = j
    OBVIOUS
  <2>1. i + k = j + k
    BY <1>2, <1>16 DEF Q
  <2> QED BY <1>9, <2>1
<1>20. r.head = Q(1) /\ (n - k > 0 => r.tail = Q(n - k))
  <2>1. 1 + k = k + 1 /\ (n - k > 0 => ~(n - k < 1) /\ n - k \in Int /\ (n - k) + k = n /\ n > 0)
    BY <1>0, <1>9
  <2>2. Q(1) = P(1 + k) /\ (n - k > 0 => Q(n - k) = P(n))
    BY <1>15, <2>1 DEF Q
  <2> QED BY <1>2, <1>17, <2>1, <2>2
<1>21. IsList(r, d)
  BY <1>15, <1>17, <1>18, <1>19, <1>20 DEF IsList, Q
<1> QED BY <1>9, <1>10, <1>11, <1>12, <1>17, <1>21 DEF n, P, E, r, d

\* The destructor.
LEMMA DestroyIs ==
  ASSUME NEW l, NEW c, IsList(l, c)
  PROVE  IsList(Destroy(l), << >>) /\ Destroy(l).live = l.live \ Elems(c)
<1> DEFINE x == [l EXCEPT !.head = NULL]
           r == Destroy(l)
<1>1. r = Delete(x, Elems(c))
  BY ChainIs DEF Destroy
<1>2. x \in ListType /\ x.head = NULL /\ x.live = l.live
  BY DEF IsList, ListType
<1>3. Elems(c) \in SUBSET Timers
  BY NthType DEF Elems, IsList
<1> HIDE DEF x, r
<1>4. r \in ListType /\ r.head = NULL /\ r.live = l.live \ Elems(c)
  BY <1>1, <1>2, <1>3, DeleteIs
<1>5. << >> \in Seq(Timers) /\ Len(<< >>) = 0
  OBVIOUS
<1>6. IsList(r, << >>)
  BY <1>4, <1>5 DEF IsList, Nth
<1> QED BY <1>4, <1>6 DEF r

-----------------------------------------------------------------------------
(* Ascending order. *)

Sorted(l, c) ==
  \A i, j \in 1 .. Len(c) : i < j => l.expire[Nth(c, i)] <= l.expire[Nth(c, j)]

\* A timer that is put before the first that expires later keeps the order; the
\* search may begin at any place p behind which it stops.
LEMMA InsertSorted ==
  ASSUME NEW l, NEW c, NEW r, NEW t \in Timers,
         l \in ListType, c \in Seq(Timers), Sorted(l, c), r.expire = l.expire,
         NEW m \in 1 .. (Len(c) + 1), NEW p \in 1 .. m, p < m \/ m = 1,
         \A j \in p .. (m - 1) : l.expire[Nth(c, j)] <= l.expire[t],
         m <= Len(c) => l.expire[t] < l.expire[Nth(c, m)]
  PROVE  Sorted(r, Insert(c, m, t))
<1>a. /\ Len(Insert(c, m, t)) = Len(c) + 1
      /\ \A i \in Int : Nth(Insert(c, m, t), i) =
           IF i < m THEN Nth(c, i) ELSE IF i = m THEN t ELSE Nth(c, i - 1)
  BY InsertNth
<1> DEFINE n == Len(c)
           d == Insert(c, m, t)
           P(i) == Nth(c, i)
           Q(i) == Nth(d, i)
           e(u) == l.expire[u]
<1>0. n \in Nat /\ m \in 1 .. (n + 1)
  OBVIOUS
<1>1. /\ \A i \in 1 .. n : e(P(i)) \in Int
      /\ e(t) \in Int
  BY NthType DEF ListType
<1>2. /\ Len(d) = n + 1
      /\ \A i \in Int : Q(i) = IF i < m THEN P(i) ELSE IF i = m THEN t ELSE P(i - 1)
  BY <1>a
<1>3. \A i, j \in 1 .. n : i < j => e(P(i)) <= e(P(j))
  BY DEF Sorted
<1>4. ASSUME NEW i \in 1 .. n, i < m
      PROVE  e(P(i)) <= e(t)
  <2>1. m - 1 \in p .. (m - 1) /\ m - 1 \in 1 .. n /\ (i < m - 1 \/ i = m - 1)
    BY <1>0, <1>4
  <2>2. e(P(m - 1)) <= e(t)
    BY <2>1
  <2>3. e(P(i)) <= e(P(m - 1))
    BY <1>1, <1>3, <2>1
  <2> HIDE DEF e, P
  <2> QED BY <1>1, <2>1, <2>2, <2>3
<1>5. ASSUME NEW i \in 1 .. n, m <= i
      PROVE  e(t) <= e(P(i))
  <2>1. m \in 1 .. n /\ (m < i \/ m = i) /\ m <= Len(c)
    BY <1>0, <1>5
  <2>2. e(t) < e(P(m))
    BY <2>1
  <2>3. e(P(m)) <= e(P(i))
    BY <1>1, <1>3, <2>1
  <2> HIDE DEF e, P
  <2> QED BY <1>1, <2>1, <2>2, <2>3
<1> HIDE DEF d, n, P, Q, e
<1>6. ASSUME NEW i \in 1 .. (n + 1), NEW j \in 1 .. (n + 1), i < j
      PROVE  e(Q(i)) <= e(Q(j))
  <2>1. CASE i = m
    <3>1. Q(i) = t /\ Q(j) = P(j - 1) /\ j - 1 \in 1 .. n /\ m <= j - 1
      BY <1>0, <1>2, <1>6, <2>1
    <3> QED BY <1>5, <3>1
  <2>2. CASE j = m
    <3>1. Q(i) = P(i) /\ Q(j) = t /\ i \in 1 .. n /\ i < m
      BY <1>0, <1>2, <1>6, <2>2
    <3> QED BY <1>4, <3>1
  <2>3. CASE i # m /\ j # m
    <3> DEFINE f(x) == IF x < m THEN x ELSE x - 1
    <3>1. f(i) \in 1 .. n /\ f(j) \in 1 .. n /\ f(i) < f(j)
      BY <1>0, <1>6, <2>3
    <3>2. Q(i) = P(f(i)) /\ Q(j) = P(f(j))
      BY <1>0, <1>2, <2>3
    <3> HIDE DEF f
    <3> QED BY <1>3, <3>1, <3>2
  <2> QED BY <2>1, <2>2, <2>3
<1> QED BY <1>2, <1>6 DEF Sorted, Q, e, d

LEMMA WithoutSorted ==
  ASSUME NEW l, NEW c, NEW r, NEW k \in 1 .. Len(c), c \in Seq(Timers),
         \A i, j \in 1 .. Len(c) : i < j /\ i # k /\ j # k => l.expire[Nth(c, i)] <= l.expire[Nth(c, j)],
         \A i \in 1 .. Len(c) : i # k => r.expire[Nth(c, i)] = l.expire[Nth(c, i)]
  PROVE  Sorted(r, Without(c, k))
<1> DEFINE n == Len(c)
           d == Without(c, k)
           P(i) == Nth(c, i)
           Q(i) == Nth(d, i)
           f(x) == IF x < k THEN x ELSE x + 1
<1>0. n \in Nat /\ k \in 1 .. n
  OBVIOUS
<1>1. /\ Len(d) = n - 1
      /\ \A i \in Int : Q(i) = IF i < k THEN P(i) ELSE P(i + 1)
  BY WithoutNth
<1>2. /\ \A i, j \in 1 .. n : i < j /\ i # k /\ j # k => l.expire[P(i)] <= l.expire[P(j)]
      /\ \A i \in 1 .. n : i # k => r.expire[P(i)] = l.expire[P(i)]
  OBVIOUS
<1> HIDE DEF d, n, P, Q
<1>3. ASSUME NEW i \in 1 .. (n - 1), NEW j \in 1 .. (n - 1), i < j
      PROVE  r.expire[Q(i)] <= r.expire[Q(j)]
  <2>1. f(i) \in 1 .. n /\ f(j) \in 1 .. n /\ f(i) < f(j) /\ f(i) # k /\ f(j) # k
    BY <1>0, <1>3
  <2>2. \A x \in Int : Q(x) = P(f(x))
    BY <1>1, Zenon
  <2> HIDE DEF f
  <2> QED BY <1>2, <2>1, <2>2
<1> QED BY <1>1, <1>3 DEF Sorted, Q, d

LEMMA SuffixSorted ==
  ASSUME NEW l, NEW c, NEW r, NEW k \in 0 .. Len(c), c \in Seq(Timers), Sorted(l, c),
         \A i \in (k + 1) .. Len(c) : r.expire[Nth(c, i)] = l.expire[Nth(c, i)]
  PROVE  Sorted(r, Suffix(c, k))
<1> DEFINE n == Len(c)
           d == Suffix(c, k)
           P(i) == Nth(c, i)
           Q(i) == Nth(d, i)
<1>0. n \in Nat /\ k \in 0 .. n
  OBVIOUS
<1>1. /\ Len(d) = n - k
      /\ \A i \in Int : Q(i) = IF i < 1 THEN NULL ELSE P(i + k)
  BY SuffixNth
<1>2. /\ \A i, j \in 1 .. n : i < j => l.expire[P(i)] <= l.expire[P(j)]
      /\ \A i \in (k + 1) .. n : r.expire[P(i)] = l.expire[P(i)]
  BY DEF Sorted
<1> HIDE DEF d, n, P, Q
<1>3. ASSUME NEW i \in 1 .. (n - k), NEW j \in 1 .. (n - k), i < j
      PROVE  r.expire[Q(i)] <= r.expire[Q(j)]
  <2>1. /\ i + k \in 1 .. n /\ j + k \in 1 .. n /\ i + k < j + k
        /\ i + k \in (k + 1) .. n /\ j + k \in (k + 1) .. n
    BY <1>0, <1>3
  <2>2. Q(i) = P(i + k) /\ Q(j) = P(j + k)
    BY <1>1
  <2> QED BY <1>2, <2>1, <2>2
<1> QED BY <1>1, <1>3 DEF Sorted, Q, d

-----------------------------------------------------------------------------
(* Who is in a list. *)

LEMMA InsertElems ==
  ASSUME NEW c \in Seq(Timers), NEW t \in Timers, NEW m \in 1 .. (Len(c) + 1)
  PROVE  Elems(Insert(c, m, t)) = Elems(c) \cup {t}
<1> DEFINE n == Len(c)
           d == Insert(c, m, t)
<1>1. /\ Len(d) = n + 1
      /\ \A i \in Int : Nth(d, i) = IF i < m THEN Nth(c, i) ELSE IF i = m THEN t ELSE Nth(c, i - 1)
  BY InsertNth
<1>2. n \in Nat /\ m \in 1 .. (n + 1)
  OBVIOUS
<1>3. Elems(d) = {Nth(d, i) : i \in 1 .. (n + 1)} /\ Elems(c) = {Nth(c, i) : i \in 1 .. n}
  BY <1>1 DEF Elems
<1> HIDE DEF d, n
<1>4. ASSUME NEW i \in 1 .. (n + 1)
      PROVE  Nth(d, i) = t \/ \E j \in 1 .. n : Nth(d, i) = Nth(c, j)
  <2>1. (i < m /\ i \in 1 .. n) \/ i = m \/ (m < i /\ i - 1 \in 1 .. n)
    BY <1>2
  <2> QED BY <1>1, <1>2, <2>1
<1>5. ASSUME NEW j \in 1 .. n
      PROVE  \E i \in 1 .. (n + 1) : Nth(d, i) = Nth(c, j)
  <2>1. CASE j < m
    BY <1>1, <1>2, <2>1
  <2>2. CASE ~(j < m)
    <3>1. j + 1 \in 1 .. (n + 1) /\ ~(j + 1 < m) /\ j + 1 # m /\ (j + 1) - 1 = j
      BY <1>2, <2>2
    <3> QED BY <1>1, <3>1
  <2> QED BY <2>1, <2>2
<1>6. Nth(d, m) = t /\ m \in 1 .. (n + 1)
  BY <1>1, <1>2
<1> QED BY <1>3, <1>4, <1>5, <1>6 DEF d

LEMMA WithoutElems ==
  ASSUME NEW c \in Seq(Timers), NEW k \in 1 .. Len(c),
         Nth(c, k) \notin Elems(Without(c, k))
  PROVE  Elems(Without(c, k)) = Elems(c) \ {Nth(c, k)}
<1> DEFINE n == Len(c)
           d == Without(c, k)
<1>1. /\ Len(d) = n - 1
      /\ \A i \in Int : Nth(d, i) = IF i < k THEN Nth(c, i) ELSE Nth(c, i + 1)
  BY WithoutNth
<1>2. n \in Nat /\ k \in 1 .. n /\ Nth(c, k) \notin Elems(d)
  OBVIOUS
<1>3. Elems(d) = {Nth(d, i) : i \in 1 .. (n - 1)} /\ Elems(c) = {Nth(c, i) : i \in 1 .. n}
  BY <1>1 DEF Elems
<1> HIDE DEF d, n
<1>4. ASSUME NEW i \in 1 .. (n - 1)
      PROVE  \E j \in 1 .. n : Nth(d, i) = Nth(c, j)
  <2>1. (i < k /\ i \in 1 .. n) \/ (~(i < k) /\ i + 1 \in 1 .. n)
    BY <1>2
  <2> QED BY <1>1, <1>2, <2>1
<1>5. ASSUME NEW j \in 1 .. n, j # k
      PROVE  \E i \in 1 .. (n - 1) : Nth(d, i) = Nth(c, j)
  <2>1. CASE j < k
    BY <1>1, <1>2, <2>1
  <2>2. CASE ~(j < k)
    <3>1. j - 1 \in 1 .. (n - 1) /\ ~(j - 1 < k) /\ (j - 1) + 1 = j
      BY <1>2, <1>5, <2>2
    <3> QED BY <1>1, <3>1
  <2> QED BY <2>1, <2>2
<1>6. Elems(c) \ {Nth(c, k)} \subseteq Elems(d)
  <2> SUFFICES ASSUME NEW j \in 1 .. n, Nth(c, j) # Nth(c, k) PROVE Nth(c, j) \in Elems(d)
    BY <1>3
  <2>1. j # k
    OBVIOUS
  <2> QED BY <1>3, <1>5, <2>1
<1>7. Elems(d) \subseteq Elems(c)
  BY <1>3, <1>4
<1> QED BY <1>2, <1>6, <1>7 DEF d

LEMMA SuffixElems ==
  ASSUME NEW l, NEW c, IsList(l, c), NEW k \in 0 .. Len(c)
  PROVE  Elems(Suffix(c, k)) = Elems(c) \ {Nth(c, j) : j \in 1 .. k}
<1>a. c \in Seq(Timers) /\ Len(c) \in Nat
  BY DEF IsList
<1>b. /\ Len(Suffix(c, k)) = Len(c) - k
      /\ \A i \in Int : Nth(Suffix(c, k), i) = IF i < 1 THEN NULL ELSE Nth(c, i + k)
  BY <1>a, SuffixNth
<1> DEFINE n == Len(c)
           d == Suffix(c, k)
<1>1. /\ Len(d) = n - k /\ n \in Nat
      /\ \A i \in Int : Nth(d, i) = IF i < 1 THEN NULL ELSE Nth(c, i + k)
  BY <1>a, <1>b
<1>2. k \in 0 .. n
  OBVIOUS
<1>3. Elems(d) = {Nth(d, i) : i \in 1 .. (n - k)} /\ Elems(c) = {Nth(c, i) : i \in 1 .. n}
  BY <1>1 DEF Elems
<1>4. \A i, j \in 1 .. n : Nth(c, i) = Nth(c, j) => i = j
  BY DEF IsList
<1> HIDE DEF d, n
<1>5. ASSUME NEW i \in 1 .. (n - k)
      PROVE  i + k \in 1 .. n /\ i + k \notin 1 .. k /\ Nth(d, i) = Nth(c, i + k)
  BY <1>1, <1>2
<1>6. ASSUME NEW j \in 1 .. n, j \notin 1 .. k
      PROVE  j - k \in 1 .. (n - k) /\ Nth(d, j - k) = Nth(c, j)
  <2>1. j - k \in 1 .. (n - k) /\ ~(j - k < 1) /\ (j - k) + k = j
    BY <1>1, <1>2, <1>6
  <2> QED BY <1>1, <2>1
<1>7. Elems(d) \subseteq Elems(c) \ {Nth(c, j) : j \in 1 .. k}
  <2> SUFFICES ASSUME NEW i \in 1 .. (n - k)
               PROVE  Nth(d, i) \in Elems(c) /\ \A j \in 1 .. k : Nth(d, i) # Nth(c, j)
    BY <1>3
  <2>1. \A j \in 1 .. k : j \in 1 .. n
    BY <1>1, <1>2
  <2> QED BY <1>3, <1>4, <1>5, <2>1
<1>8. Elems(c) \ {Nth(c, j) : j \in 1 .. k} \subseteq Elems(d)
  BY <1>3, <1>6
<1> QED BY <1>7, <1>8 DEF d

-----------------------------------------------------------------------------
(***************************************************************************)
(* The methods once more, with the sequence hidden: what a client of the   *)
(* class needs to know.  A list is in order when following next from head  *)
(* visits a chain of allocated, distinct timers that prev runs through     *)
(* backwards; it is ascending when the chain is sorted by expiry.          *)
(***************************************************************************)

InOrder(l)   == IsList(l, Chain(l))
Ascending(l) == Sorted(l, Chain(l))

LEMMA HasChain ==
  ASSUME NEW l, NEW c, IsList(l, c)
  PROVE  InOrder(l) /\ Linked(l) = Elems(c) /\ (Ascending(l) <=> Sorted(l, c))
<1>1. Chain(l) = c /\ Linked(l) = Elems(c)
  BY ChainIs
<1> QED BY <1>1 DEF InOrder, Ascending

LEMMA InOrderFacts ==
  ASSUME NEW l, InOrder(l)
  PROVE  /\ l \in ListType /\ Linked(l) \subseteq l.live /\ Linked(l) \subseteq Timers
         /\ Chain(l) \in Seq(Timers) /\ Linked(l) = Elems(Chain(l))
         /\ \A t \in Linked(l) : \E k \in 1 .. Len(Chain(l)) : t = Nth(Chain(l), k)
<1> DEFINE c == Chain(l)
<1>1. IsList(l, c)
  BY DEF InOrder
<1>2. Linked(l) = Elems(c)
  BY <1>1, ChainIs
<1> HIDE DEF c
<1>3. \A i \in 1 .. Len(c) : Nth(c, i) \in l.live /\ Nth(c, i) \in Timers
  BY <1>1, NthType DEF IsList
<1>4. l \in ListType /\ c \in Seq(Timers)
  BY <1>1 DEF IsList
<1> QED BY <1>2, <1>3, <1>4 DEF Elems, c

\* The constructor (list_timer.h:43) leaves a list in order without timers and without
\* memory.
THEOREM NewListInOrder ==
  InOrder(NewList) /\ Linked(NewList) = {} /\ Ascending(NewList) /\ NewList.live = {}
<1>1. IsList(NewList, << >>) /\ NewList.live = {}
  BY NewListIs
<1>2. Elems(<< >>) = {} /\ Sorted(NewList, << >>)
  BY DEF Elems, Sorted
<1> QED BY <1>1, <1>2, HasChain

\* add_timer (list_timer.h:63, with the loop of the private overload at 156) links the new
\* timer, no other one, and keeps the list sorted.
THEOREM AddInOrder ==
  ASSUME NEW l, InOrder(l), NEW t \in Timers \ l.live, NEW e \in Int
  PROVE  LET r == AddTimer(New(l, t, e), t)
         IN  /\ InOrder(r) /\ Linked(r) = Linked(l) \cup {t} /\ t \notin Linked(l)
             /\ r.live = l.live \cup {t} /\ r.expire = [l.expire EXCEPT ![t] = e]
             /\ Ascending(l) => Ascending(r)
<1> DEFINE c == Chain(l)
           x == New(l, t, e)
           r == AddTimer(x, t)
<1>0. IsList(l, c) /\ c \in Seq(Timers) /\ l \in ListType
  BY InOrderFacts DEF InOrder
<1>1. /\ IsList(x, c) /\ x.live = l.live \cup {t} /\ x.expire = [l.expire EXCEPT ![t] = e]
      /\ x.next[t] = NULL /\ x.prev[t] = NULL /\ t \notin Elems(c)
  <2> HIDE DEF c
  <2> QED BY <1>0, NewIs
<1>2. Linked(l) = Elems(c)
  BY <1>0, ChainIs
<1> HIDE DEF c, x
<1>3. /\ r.live = x.live /\ r.expire = x.expire
      /\ \E m \in 1 .. (Len(c) + 1) :
           /\ IsList(r, Insert(c, m, t))
           /\ \A j \in 1 .. (m - 1) : x.expire[Nth(c, j)] <= x.expire[t]
           /\ m <= Len(c) => x.expire[t] < x.expire[Nth(c, m)]
  BY <1>1, AddIs
<1> HIDE DEF r
<1>4. PICK m \in 1 .. (Len(c) + 1) :
        /\ IsList(r, Insert(c, m, t))
        /\ \A j \in 1 .. (m - 1) : x.expire[Nth(c, j)] <= x.expire[t]
        /\ m <= Len(c) => x.expire[t] < x.expire[Nth(c, m)]
  BY <1>3
<1>5. InOrder(r) /\ Linked(r) = Elems(c) \cup {t}
  BY <1>0, <1>4, HasChain, InsertElems
<1>6. ASSUME Ascending(l)
      PROVE  Ascending(r)
  <2>1. \A i \in 1 .. Len(c) : x.expire[Nth(c, i)] = l.expire[Nth(c, i)]
    BY <1>0, <1>1, NthType DEF Elems, ListType
  <2>2. Sorted(l, c)
    BY <1>6 DEF Ascending, c
  <2>3. Sorted(x, c)
    BY <2>1, <2>2 DEF Sorted
  <2>4. x \in ListType /\ Len(c) \in Nat
    BY <1>0, <1>1 DEF IsList
  <2>5. 1 \in 1 .. m /\ (1 < m \/ m = 1)
    BY <2>4
  <2>6. Sorted(r, Insert(c, m, t))
    BY <1>0, <1>3, <1>4, <2>3, <2>4, <2>5, InsertSorted
  <2> QED BY <1>4, <2>6, HasChain
<1> QED BY <1>1, <1>2, <1>3, <1>5, <1>6 DEF r, x

\* del_timer (list_timer.h:105) unlinks its timer and leaves the others in their order.
THEOREM DelInOrder ==
  ASSUME NEW l, InOrder(l), NEW t \in Linked(l)
  PROVE  LET r == DelTimer(l, t)
         IN  /\ InOrder(r) /\ Linked(r) = Linked(l) \ {t}
             /\ \A u \in Timers \ {t} : r.expire[u] = l.expire[u]
             /\ \/ r.live = l.live \ {t}
                \/ r.live = l.live /\ l.next[t] # NULL /\ l.prev[t] # NULL
             /\ Ascending(l) => Ascending(r)
<1> DEFINE c == Chain(l)
           r == DelTimer(l, t)
<1>0. IsList(l, c) /\ c \in Seq(Timers) /\ l \in ListType /\ Linked(l) = Elems(c)
  BY InOrderFacts DEF InOrder
<1>1. PICK k \in 1 .. Len(c) : t = Nth(c, k)
  BY <1>0 DEF Elems
<1> HIDE DEF c
<1>2. /\ IsList(r, Without(c, k)) /\ t \notin Elems(Without(c, k))
      /\ \A u \in Timers \ {t} : r.expire[u] = l.expire[u]
      /\ \/ r.live = l.live \ {t}
         \/ r.live = l.live /\ l.next[t] # NULL /\ l.prev[t] # NULL
  BY <1>0, <1>1, DelIs
<1> HIDE DEF r
<1>3. InOrder(r) /\ Linked(r) = Elems(c) \ {t}
  BY <1>0, <1>1, <1>2, HasChain, WithoutElems
<1>4. ASSUME Ascending(l)
      PROVE  Ascending(r)
  <2>1. Sorted(l, c)
    BY <1>4 DEF Ascending, c
  <2>2. \A i \in 1 .. Len(c) : i # k => Nth(c, i) \in Timers \ {t}
    BY <1>0, <1>1, NthType DEF IsList
  <2>3. \A i \in 1 .. Len(c) : i # k => r.expire[Nth(c, i)] = l.expire[Nth(c, i)]
    BY <1>2, <2>2
  <2>4. \A i, j \in 1 .. Len(c) : i < j /\ i # k /\ j # k => l.expire[Nth(c, i)] <= l.expire[Nth(c, j)]
    BY <2>1 DEF Sorted
  <2>5. Sorted(r, Without(c, k))
    BY <1>0, <2>3, <2>4, WithoutSorted
  <2> QED BY <1>2, <2>5, HasChain
<1> QED BY <1>0, <1>2, <1>3, <1>4 DEF r

\* adjust_timer keeps the order only when the expiry has grown: it does not look
\* at the timer before (list_timer.h:87).
THEOREM AdjustInOrder ==
  ASSUME NEW l, InOrder(l), NEW t \in Linked(l), NEW e \in Int
  PROVE  LET r == AdjustTimer([l EXCEPT !.expire[t] = e], t)
         IN  /\ InOrder(r) /\ Linked(r) = Linked(l)
             /\ r.live = l.live /\ r.expire = [l.expire EXCEPT ![t] = e]
             /\ Ascending(l) /\ l.expire[t] <= e => Ascending(r)
<1> DEFINE c == Chain(l)
           n == Len(c)
           x == [l EXCEPT !.expire[t] = e]
           r == AdjustTimer(x, t)
<1>0. /\ IsList(l, c) /\ c \in Seq(Timers) /\ n \in Nat /\ l \in ListType
      /\ Linked(l) = Elems(c) /\ t \in Timers
  BY InOrderFacts DEF InOrder
<1>1. PICK k \in 1 .. Len(c) : t = Nth(c, k)
  BY <1>0 DEF Elems
<1>2. IsList(x, c) /\ x.live = l.live /\ x.expire = [l.expire EXCEPT ![t] = e] /\ x \in ListType
  <2>1. IsList(x, c) /\ x.live = l.live /\ x.expire = [l.expire EXCEPT ![t] = e]
    <3> HIDE DEF c
    <3> QED BY <1>0, ExpireIs
  <2> QED BY <2>1 DEF IsList
<1> DEFINE d == Without(c, k)
<1> HIDE DEF c, x
<1>3. /\ r.live = x.live /\ r.expire = x.expire
      /\ \/ r = x /\ (k < Len(c) => x.expire[t] < x.expire[Nth(c, k + 1)])
         \/ \E m \in (k + 1) .. Len(c) :
              /\ IsList(r, Insert(d, m, t)) /\ t \notin Elems(d)
              /\ \A j \in k .. (m - 1) : x.expire[Nth(d, j)] <= x.expire[t]
              /\ m < Len(c) => x.expire[t] < x.expire[Nth(d, m)]
  <2> DEFINE F(u, q) ==
         /\ q.live = x.live /\ q.expire = x.expire
         /\ \/ q = x /\ (k < Len(c) => x.expire[u] < x.expire[Nth(c, k + 1)])
            \/ \E m \in (k + 1) .. Len(c) :
                 /\ IsList(q, Insert(d, m, u)) /\ u \notin Elems(d)
                 /\ \A j \in k .. (m - 1) : x.expire[Nth(d, j)] <= x.expire[u]
                 /\ m < Len(c) => x.expire[u] < x.expire[Nth(d, m)]
  <2>1. F(Nth(c, k), AdjustTimer(x, Nth(c, k)))
    BY <1>2, AdjustIs
  <2>2. F(t, r)
    <3> HIDE DEF F
    <3> QED BY <1>1, <2>1
  <2> QED BY <2>2
<1> HIDE DEF r
<1>4. /\ \A i, j \in 1 .. n : Nth(c, i) = Nth(c, j) => i = j
      /\ \A i \in 1 .. n : /\ Nth(c, i) \in Timers /\ l.expire[Nth(c, i)] \in Int
                           /\ x.expire[Nth(c, i)] = IF i = k THEN e ELSE l.expire[Nth(c, i)]
  <2>1. \A i \in 1 .. n : Nth(c, i) \in Timers
    BY <1>0, NthType
  <2>2. \A i, j \in 1 .. n : Nth(c, i) = Nth(c, j) => i = j
    BY <1>0 DEF IsList
  <2>3. \A u \in Timers : l.expire[u] \in Int /\ x.expire[u] = IF u = t THEN e ELSE l.expire[u]
    BY <1>0, <1>2 DEF ListType
  <2> QED BY <1>1, <2>1, <2>2, <2>3
<1> SUFFICES InOrder(r) /\ Linked(r) = Elems(c)
             /\ (Sorted(l, c) /\ l.expire[t] <= e => Ascending(r))
  BY <1>0, <1>2, <1>3 DEF r, x, c, Ascending
<1>5. CASE r = x /\ (k < Len(c) => x.expire[t] < x.expire[Nth(c, k + 1)])
  <2>1. InOrder(r) /\ Linked(r) = Elems(c)
    BY <1>2, <1>5, HasChain
  <2>2. ASSUME Sorted(l, c), l.expire[t] <= e
        PROVE  Sorted(x, c)
    <3> DEFINE E(i) == l.expire[Nth(c, i)]
    <3>1. /\ \A i, j \in 1 .. n : i < j => E(i) <= E(j)
          /\ \A i \in 1 .. n : E(i) \in Int /\ x.expire[Nth(c, i)] = IF i = k THEN e ELSE E(i)
          /\ k \in 1 .. n /\ E(k) <= e
          /\ k < n => e < E(k + 1)
      <4>1. \A i, j \in 1 .. n : i < j => E(i) <= E(j)
        BY <2>2 DEF Sorted
      <4>2. k < n => k + 1 \in 1 .. n /\ k + 1 # k
        BY <1>0
      <4>3. k < n => e < E(k + 1)
        BY <1>1, <1>4, <1>5, <4>2
      <4> QED BY <1>1, <1>4, <2>2, <4>1, <4>3
    <3> HIDE DEF E
    <3>2. ASSUME NEW i \in 1 .. n, NEW j \in 1 .. n, i < j
          PROVE  x.expire[Nth(c, i)] <= x.expire[Nth(c, j)]
      <4>1. CASE i = k
        <5>1. k < n /\ k + 1 \in 1 .. n /\ (k + 1 = j \/ k + 1 < j) /\ j # k
          BY <1>0, <3>2, <4>1
        <5>2. e < E(k + 1) /\ E(k + 1) <= E(j) /\ E(k + 1) \in Int /\ E(j) \in Int
          BY <3>1, <5>1
        <5>3. x.expire[Nth(c, i)] = e /\ x.expire[Nth(c, j)] = E(j)
          BY <3>1, <4>1, <5>1
        <5> QED BY <5>2, <5>3
      <4>2. CASE j = k
        BY <3>1, <3>2, <4>2
      <4>3. CASE i # k /\ j # k
        BY <3>1, <3>2, <4>3
      <4> QED BY <4>1, <4>2, <4>3
    <3> QED BY <3>2 DEF Sorted, n
  <2> QED BY <1>2, <1>5, <2>1, <2>2, HasChain
<1>6. ASSUME NEW m \in (k + 1) .. Len(c),
             IsList(r, Insert(d, m, t)), t \notin Elems(d),
             \A j \in k .. (m - 1) : x.expire[Nth(d, j)] <= x.expire[t],
             m < Len(c) => x.expire[t] < x.expire[Nth(d, m)]
      PROVE  InOrder(r) /\ Linked(r) = Elems(c) /\ (Sorted(l, c) => Ascending(r))
  <2>1. d \in Seq(Timers) /\ Len(d) = Len(c) - 1
    BY <1>0, WithoutNth
  <2>2. m \in 1 .. (Len(d) + 1) /\ k \in 1 .. m /\ k < m /\ (m <= Len(d) <=> m < Len(c))
    BY <1>0, <2>1
  <2>3. Elems(d) = Elems(c) \ {t}
    BY <1>0, <1>1, <1>6, WithoutElems
  <2>4. t \in Elems(c)
    BY <1>0
  <2> HIDE DEF d
  <2>5. Elems(Insert(d, m, t)) = Elems(c)
    <3>1. Elems(Insert(d, m, t)) = Elems(d) \cup {t}
      BY <1>0, <2>1, <2>2, InsertElems
    <3> QED BY <2>3, <2>4, <3>1
  <2>6. InOrder(r) /\ Linked(r) = Elems(c)
    BY <1>6, <2>5, HasChain
  <2>7. ASSUME Sorted(l, c)
        PROVE  Ascending(r)
    <3>1. \A i, j \in 1 .. Len(c) : i < j /\ i # k /\ j # k => l.expire[Nth(c, i)] <= l.expire[Nth(c, j)]
      BY <2>7 DEF Sorted
    <3>2. \A i \in 1 .. Len(c) : i # k => x.expire[Nth(c, i)] = l.expire[Nth(c, i)]
      BY <1>4
    <3>3. Sorted(x, d)
      BY <1>0, <3>1, <3>2, WithoutSorted DEF d
    <3>4. Sorted(r, Insert(d, m, t))
      BY <1>0, <1>2, <1>3, <1>6, <2>1, <2>2, <3>3, InsertSorted
    <3> QED BY <1>6, <3>4, HasChain
  <2> QED BY <2>6, <2>7
<1> QED BY <1>3, <1>5, <1>6

\* tick (list_timer.h:133) unlinks and frees only timers that are due, and in a sorted
\* list all of them.
THEOREM TickInOrder ==
  ASSUME NEW l, InOrder(l), NEW cur \in Int
  PROVE  LET r == TickList(l, cur)
             E == Expired(l, cur)
         IN  /\ InOrder(r) /\ Linked(r) = Linked(l) \ E
             /\ E \subseteq Linked(l) /\ \A t \in E : l.expire[t] <= cur
             /\ r.live = l.live \ E
             /\ \A u \in Timers \ E : r.expire[u] = l.expire[u]
             /\ Ascending(l) => Ascending(r) /\ \A t \in Linked(r) : l.expire[t] > cur
<1> DEFINE c == Chain(l)
           n == Len(c)
           E == Expired(l, cur)
           r == TickList(l, cur)
<1>0. /\ IsList(l, c) /\ c \in Seq(Timers) /\ n \in Nat /\ l \in ListType
      /\ Linked(l) = Elems(c)
  BY InOrderFacts DEF InOrder
<1> HIDE DEF c
<1>1. PICK k \in 0 .. Len(c) :
        /\ E = {Nth(c, j) : j \in 1 .. k}
        /\ IsList(r, Suffix(c, k))
        /\ \A j \in 1 .. k : l.expire[Nth(c, j)] <= cur
        /\ k < Len(c) => l.expire[Nth(c, k + 1)] > cur
        /\ r.live = l.live \ E
        /\ \A u \in Timers \ E : r.expire[u] = l.expire[u]
  BY <1>0, TickIs
<1> HIDE DEF E, r
<1>2. /\ \A i \in 1 .. n : Nth(c, i) \in Timers /\ l.expire[Nth(c, i)] \in Int
      /\ \A i, j \in 1 .. n : Nth(c, i) = Nth(c, j) => i = j
  <2>1. \A i \in 1 .. n : Nth(c, i) \in Timers
    BY <1>0, NthType
  <2>2. \A i, j \in 1 .. n : Nth(c, i) = Nth(c, j) => i = j
    BY <1>0 DEF IsList
  <2> QED BY <1>0, <2>1, <2>2 DEF ListType
<1>3. InOrder(r) /\ Linked(r) = Elems(c) \ E
  BY <1>0, <1>1, HasChain, SuffixElems
<1>4. \A j \in 1 .. k : j \in 1 .. n
  BY <1>0
<1>5. E \subseteq Elems(c)
  BY <1>1, <1>4 DEF Elems
<1>6. ASSUME Ascending(l)
      PROVE  Ascending(r) /\ \A t \in Linked(r) : l.expire[t] > cur
  <2>1. Sorted(l, c)
    BY <1>6 DEF Ascending, c
  <2>2. \A i \in (k + 1) .. n : i \in 1 .. n /\ i \notin 1 .. k
    BY <1>0
  <2>3. \A i \in (k + 1) .. n : Nth(c, i) \in Timers \ E
    BY <1>1, <1>2, <1>4, <2>2
  <2>4. \A i \in (k + 1) .. n : r.expire[Nth(c, i)] = l.expire[Nth(c, i)]
    BY <1>1, <2>3
  <2>5. Sorted(r, Suffix(c, k))
    BY <1>0, <2>1, <2>4, SuffixSorted
  <2>6. ASSUME NEW i \in 1 .. n, Nth(c, i) \notin E
        PROVE  l.expire[Nth(c, i)] > cur
    <3>1. i \notin 1 .. k
      BY <1>1, <2>6
    <3>2. k < n /\ k + 1 \in 1 .. n /\ (i = k + 1 \/ k + 1 < i)
      BY <1>0, <3>1
    <3>3. l.expire[Nth(c, k + 1)] > cur /\ l.expire[Nth(c, k + 1)] \in Int /\ l.expire[Nth(c, i)] \in Int
      BY <1>1, <1>2, <3>2
    <3>4. i = k + 1 \/ l.expire[Nth(c, k + 1)] <= l.expire[Nth(c, i)]
      BY <2>1, <3>2 DEF Sorted
    <3> QED BY <3>3, <3>4
  <2> QED BY <1>1, <1>3, <2>5, <2>6, HasChain DEF Elems
<1> QED
  <2>1. \A t \in E : l.expire[t] <= cur
    BY <1>1
  <2> QED BY <1>0, <1>1, <1>3, <1>5, <1>6, <2>1 DEF r, E

\* The destructor (list_timer.h:44) frees exactly the timers of the list.
THEOREM DestroyInOrder ==
  ASSUME NEW l, InOrder(l)
  PROVE  LET r == Destroy(l)
         IN  InOrder(r) /\ Linked(r) = {} /\ Ascending(r) /\ r.live = l.live \ Linked(l)
<1>1. IsList(l, Chain(l)) /\ Linked(l) = Elems(Chain(l))
  BY InOrderFacts DEF InOrder
<1>2. IsList(Destroy(l), << >>) /\ Destroy(l).live = l.live \ Linked(l)
  BY <1>1, DestroyIs
<1>3. Elems(<< >>) = {} /\ Sorted(Destroy(l), << >>)
  BY DEF Elems, Sorted
<1> QED BY <1>2, <1>3, HasChain

=============================================================================
