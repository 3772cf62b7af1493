-------------------------- MODULE SelectServerProof --------------------------
(***************************************************************************)
(* Proofs about SelectServer, for every set of clients and every size of   *)
(* the descriptor table.                                                   *)
(***************************************************************************)
EXTENDS SelectServer, FiniteSetTheorems, TLAPS

USE SelectServerAssumption DEF ConnFds, Indexes, FD_SETSIZE, listenfd

\* A client is behind one descriptor at most, or once in the backlog.
Distinct ==
  /\ \A f, g \in ConnFds : conn[f] # NULL /\ conn[f] = conn[g] => f = g
  /\ \A f \in ConnFds : conn[f] # NULL => status[conn[f]] = "open"
  /\ \A j \in DOMAIN backlog : status[backlog[j]] = "backlog"
  /\ \A j, k \in DOMAIN backlog : backlog[j] = backlog[k] => j = k

\* client[] holds the open descriptors, each once, up to maxi.
Places ==
  /\ \A f \in ConnFds : conn[f] # NULL => f \in allset /\ \E k \in Indexes : client[k] = f
  /\ \A k \in Indexes : client[k] >= 0 => conn[client[k]] # NULL /\ k <= maxi
  /\ \A j, k \in Indexes : client[j] >= 0 /\ client[j] = client[k] => j = k

\* The ready clients the walk has still before it.
Before == {k \in Indexes : i <= k /\ client[k] \in rset}

\* rset and nready are those of a select that has not failed.
Selected == pc = "serve" \/ (pc = "accept" /\ nready # -1)

Walking ==
  /\ pc = "accept" => /\ i = 0
                      /\ nready # -1 => /\ nready = Cardinality(Before) + 1
                                        /\ \A f \in rset \cap ConnFds : conn[f] # NULL
  /\ pc = "serve" => nready > 0 /\ nready = Cardinality(Before)
  /\ pc = "select" /\ nready >= 0 => Before = {}
  /\ Selected => \A k \in Before : Readable(client[k])

IInv == TypeOK /\ Distinct /\ Places /\ Walking

-----------------------------------------------------------------------------
(* Finite sets. *)

\* The least of some numbers: accept returns the lowest free descriptor, and the
\* server takes the first free place.
LEMMA MinNat ==
  ASSUME NEW S \in SUBSET Nat, S # {}
  PROVE  Min(S) \in S
<1>1. PICK m \in S : \A n \in S : <<n, m>> \notin OpToRel(<, Nat)
  BY NatLessThanWellFounded, WFMin
<1>2. OpToRel(<, Nat) = {p \in Nat \X Nat : p[1] < p[2]}
  BY DEF OpToRel
<1>3. ASSUME NEW n \in S
      PROVE  m <= n
  <2>1. n \in Nat /\ m \in Nat
    OBVIOUS
  <2>2. <<n, m>> \notin {p \in Nat \X Nat : p[1] < p[2]}
    BY <1>1, <1>2
  <2> QED BY <2>1, <2>2
<1> QED BY <1>3 DEF Min

LEMMA BeforeFinite == IsFiniteSet(Before) /\ Cardinality(Before) \in Nat
<1>1. IsFiniteSet(Indexes)
  BY FS_Interval
<1>2. Before \in SUBSET Indexes
  BY DEF Before
<1> QED BY <1>1, <1>2, FS_Subset, FS_CardinalityType

LEMMA AllsetFinite ==
  ASSUME TypeOK
  PROVE  \A S \in SUBSET allset : /\ IsFiniteSet(S) /\ Cardinality(S) \in Nat
                                  /\ Cardinality(S) <= Cardinality(allset)
<1>1. IsFiniteSet(ConnFds \cup {listenfd})
  <2>1. IsFiniteSet(ConnFds)
    BY FS_Interval
  <2> QED BY <2>1, FS_AddElement
<1>2. allset \in SUBSET (ConnFds \cup {listenfd})
  BY DEF TypeOK
<1>3. IsFiniteSet(allset)
  BY <1>1, <1>2, FS_Subset
<1> QED BY <1>3, FS_Subset, FS_CardinalityType

\* There are more places than descriptors, so one is always free.
LEMMA PlaceFree ==
  ASSUME TypeOK, Places
  PROVE  \E k \in Indexes : client[k] < 0
<1>0. client \in [Indexes -> ConnFds \cup {-1}]
  BY DEF TypeOK
<1> SUFFICES ASSUME \A k \in Indexes : client[k] # -1
             PROVE  FALSE
  BY <1>0
<1>1. client \in [Indexes -> ConnFds]
  BY <1>0
<1>2. IsFiniteSet(Indexes) /\ Cardinality(Indexes) = MaxFd + 1
  BY FS_Interval
<1>3. IsFiniteSet(ConnFds) /\ Cardinality(ConnFds) < MaxFd + 1
  BY FS_Interval
<1>4. \E j, k \in Indexes : j # k /\ client[j] = client[k]
  BY <1>1, <1>2, <1>3, FS_PigeonHole
<1>5. \A j \in Indexes : client[j] >= 0
  BY <1>1
<1>6. \A j, k \in Indexes : client[j] >= 0 /\ client[j] = client[k] => j = k
  BY DEF Places
<1> QED BY <1>4, <1>5, <1>6

-----------------------------------------------------------------------------
(* The invariant. *)

LEMMA InitIInv == Init => IInv
<1> SUFFICES ASSUME Init PROVE IInv
  OBVIOUS
<1>1. TypeOK
  <2>1. nready \in -2 .. Cardinality(allset)
    <3>1. Cardinality(allset) = 1
      BY FS_Singleton DEF Init
    <3> QED BY <3>1 DEF Init
  <2>2. conn \in [ConnFds -> Clients \cup {NULL}] /\ client \in [Indexes -> ConnFds \cup {-1}]
    BY DEF Init
  <2> QED BY <2>1, <2>2 DEF Init, TypeOK
<1>2. Distinct /\ Places
  BY DEF Init, Distinct, Places
<1>3. Walking
  BY DEF Init, Walking, Before, Selected
<1> QED BY <1>1, <1>2, <1>3 DEF IInv

\* What clients do leaves the server's variables alone and makes no descriptor
\* unreadable.
LEMMA ConnectIInv ==
  ASSUME IInv, NEW c \in Clients, Connect(c)
  PROVE  IInv'
<1>1. backlog' = Append(backlog, c) /\ status[c] = "closed" /\ status' = [status EXCEPT ![c] = "backlog"]
  BY DEF Connect
<1>2. TypeOK'
  BY DEF IInv, TypeOK, Connect, server
<1>3. Distinct'
  <2>1. \A f \in ConnFds : conn[f] # NULL => conn[f] # c
    BY <1>1 DEF IInv, Distinct, TypeOK
  <2>2. \A j \in DOMAIN backlog : backlog[j] # c
    BY <1>1 DEF IInv, Distinct, TypeOK
  <2>3. DOMAIN backlog' = 1 .. (Len(backlog) + 1) /\ DOMAIN backlog = 1 .. Len(backlog) /\ Len(backlog) \in Nat
    BY <1>1 DEF IInv, TypeOK
  <2>4. \A j \in DOMAIN backlog : backlog'[j] = backlog[j]
    BY <1>1 DEF IInv, TypeOK
  <2>5. backlog'[Len(backlog) + 1] = c
    BY <1>1 DEF IInv, TypeOK
  <2>6. \A j \in DOMAIN backlog' : status'[backlog'[j]] = "backlog"
    BY <1>1, <2>2, <2>3, <2>4, <2>5 DEF IInv, TypeOK, Distinct
  <2>7. \A j, k \in DOMAIN backlog' : backlog'[j] = backlog'[k] => j = k
    BY <2>2, <2>3, <2>4, <2>5 DEF IInv, Distinct
  <2>8. conn' = conn
    BY DEF Connect
  <2> QED BY <1>1, <2>1, <2>6, <2>7, <2>8 DEF IInv, TypeOK, Distinct
<1>4. Places'
  BY DEF IInv, Places, Connect, server
<1>5. Walking'
  <2>1. UNCHANGED <<client, rset, i, pc, nready, conn, peer, unread>>
    BY DEF Connect, server
  <2>2. Before' = Before
    BY <2>1 DEF Before
  <2>3. \A k \in Before : Readable(client[k]) => Readable(client[k])'
    <3>1. backlog' # <<>>
      BY <1>1 DEF IInv, TypeOK
    <3> QED BY <2>1, <3>1 DEF Readable
  <2>4. \A f : (conn[f] # NULL)' <=> conn[f] # NULL
    BY <2>1
  <2>5. Selected' <=> Selected
    BY <2>1 DEF Selected
  <2>6. Walking
    BY DEF IInv
  <2>7. Selected' => \A k \in Before' : Readable(client[k])'
    BY <2>2, <2>3, <2>5, <2>6 DEF Walking
  <2> QED BY <2>1, <2>2, <2>4, <2>6, <2>7 DEF Walking
<1> QED BY <1>2, <1>3, <1>4, <1>5 DEF IInv

LEMMA SendLeaveIInv ==
  ASSUME IInv, NEW c \in Clients, Send(c) \/ Leave(c)
  PROVE  IInv'
<1>1. UNCHANGED <<server, conn, backlog, status>>
  BY DEF Send, Leave
<1>2. /\ peer' \in [Clients -> {"up", "fin", "rst", "err"}]
      /\ unread' \in [Clients -> 0 .. MaxUnread]
      /\ \A d \in Clients : unread[d] > 0 \/ peer[d] # "up" => unread'[d] > 0 \/ peer'[d] # "up"
  <2>1. CASE Send(c)
    BY <2>1 DEF Send, IInv, TypeOK
  <2>2. CASE Leave(c)
    <3>0. /\ peer \in [Clients -> {"up", "fin", "rst", "err"}]
          /\ unread \in [Clients -> 0 .. MaxUnread]
          /\ peer[c] = "up"
      BY <2>2 DEF Leave, IInv, TypeOK
    <3>1. /\ peer' = [peer EXCEPT ![c] = "fin"] \/ peer' = [peer EXCEPT ![c] = "rst"]
          /\ \E n \in {0, unread[c]} : unread' = [unread EXCEPT ![c] = n]
      BY <2>2 DEF Leave, IInv, TypeOK
    <3>2. peer' \in [Clients -> {"up", "fin", "rst", "err"}] /\ \A d \in Clients : d = c \/ peer'[d] = peer[d]
      BY <3>0, <3>1
    <3>3. peer'[c] # "up"
      BY <3>0, <3>1
    <3>4. unread' \in [Clients -> 0 .. MaxUnread] /\ \A d \in Clients : d = c \/ unread'[d] = unread[d]
      BY <3>0, <3>1
    <3> QED BY <3>2, <3>3, <3>4
  <2> QED BY <2>1, <2>2
<1>3. TypeOK'
  BY <1>1, <1>2 DEF IInv, TypeOK, server
<1>4. Distinct' /\ Places'
  BY <1>1 DEF IInv, Distinct, Places, server
<1>5. Walking'
  <2>1. Before' = Before
    BY <1>1 DEF Before, server
  <2>2. \A k \in Before : Readable(client[k]) => Readable(client[k])'
    <3>1. \A k \in Before : client[k] \in {listenfd} \cup ConnFds
      BY DEF IInv, TypeOK, Before
    <3> QED BY <1>1, <1>2, <3>1 DEF IInv, TypeOK, Readable, server
  <2> QED BY <1>1, <2>1, <2>2 DEF IInv, Walking, Selected, server
<1> QED BY <1>3, <1>4, <1>5 DEF IInv

\* A select that returns: nready counts rset, and every descriptor in it but
\* listenfd is in one place of client[].
LEMMA SelectIInv ==
  ASSUME IInv, Select
  PROVE  IInv'
<1>1. /\ rset' = {f \in allset : Readable(f)} /\ rset' # {}
      /\ nready' = Cardinality(rset')
      /\ pc' = IF listenfd \in rset' THEN "accept" ELSE "serve"
      /\ i' = 0
      /\ UNCHANGED <<client, maxi, allset, world>>
  BY DEF Select
<1>2. rset' \in SUBSET allset
  BY <1>1
<1>3. nready' \in Nat /\ nready' <= Cardinality(allset) /\ nready' # 0
  BY <1>1, <1>2, AllsetFinite, FS_EmptySet DEF IInv
<1>4. TypeOK'
  <2>1. Cardinality(allset) \in Nat
    BY AllsetFinite DEF IInv
  <2> QED BY <1>1, <1>2, <1>3, <2>1 DEF IInv, TypeOK, world
<1>5. Distinct' /\ Places'
  BY <1>1 DEF IInv, Distinct, Places, world
<1>6. Cardinality(Before') = Cardinality(rset' \ {listenfd}) /\ Cardinality(Before') \in Nat
  <2> DEFINE g == [k \in Before' |-> client[k]]
  <2>0. client \in [Indexes -> ConnFds \cup {-1}] /\ rset' \subseteq {listenfd} \cup ConnFds
    BY <1>2 DEF IInv, TypeOK
  <2>1. Before' = {k \in Indexes : client[k] \in rset'}
    BY <1>1 DEF Before
  <2>2. \A k \in Before' : client[k] \in rset' \ {listenfd}
    BY <2>0, <2>1
  <2>3. \A j, k \in Before' : client[j] = client[k] => j = k
    <3>1. \A k \in Before' : k \in Indexes /\ client[k] >= 0
      BY <2>0, <2>1, <2>2, <1>2
    <3> QED BY <3>1 DEF IInv, Places
  <2>4. \A f \in rset' \ {listenfd} : \E k \in Before' : client[k] = f
    <3> SUFFICES ASSUME NEW f \in rset' \ {listenfd}
                 PROVE  \E k \in Before' : client[k] = f
      OBVIOUS
    <3>1. f \in ConnFds /\ conn[f] # NULL
      BY <1>1 DEF IInv, TypeOK, Readable
    <3> QED BY <2>1, <3>1 DEF IInv, Places
  <2>5. g \in Bijection(Before', rset' \ {listenfd})
    BY <2>2, <2>3, <2>4 DEF Bijection, Injection, Surjection, IsInjective
  <2>6. IsFiniteSet(Before')
    <3>1. IsFiniteSet(Indexes) /\ Before' \in SUBSET Indexes
      BY <2>1, FS_Interval
    <3> QED BY <3>1, FS_Subset
  <2> QED BY <2>5, <2>6, FS_Bijection, FS_CardinalityType DEF ExistsBijection
<1>7. nready' = Cardinality(Before') + (IF listenfd \in rset' THEN 1 ELSE 0)
  <2>1. IsFiniteSet(rset') /\ Cardinality(rset') \in Nat
    BY <1>2, AllsetFinite DEF IInv
  <2>2. Cardinality(rset' \ {listenfd})
          = IF listenfd \in rset' THEN Cardinality(rset') - 1 ELSE Cardinality(rset')
    BY <2>1, FS_RemoveElement
  <2> QED BY <1>1, <1>6, <2>1, <2>2
<1>8. Walking'
  <2>1. \A k \in Before' : Readable(client[k])'
    BY <1>1 DEF Before, Readable, world
  <2>2. \A f \in rset' \cap ConnFds : conn'[f] # NULL
    BY <1>1 DEF Readable, world
  <2>4. pc' = "accept" => nready' = Cardinality(Before') + 1
    BY <1>1, <1>7
  <2>5. pc' = "serve" => nready' = Cardinality(Before') /\ nready' > 0
    BY <1>1, <1>3, <1>6, <1>7
  <2>6. pc' # "select" /\ i' = 0
    BY <1>1
  <2> QED BY <2>1, <2>2, <2>4, <2>5, <2>6 DEF Walking, Selected
<1> QED BY <1>4, <1>5, <1>8 DEF IInv

LEMMA SelectFailsIInv ==
  ASSUME IInv, SelectFails
  PROVE  IInv'
<1>1. Cardinality(allset) \in Nat
  BY AllsetFinite DEF IInv
<1>2. TypeOK'
  BY <1>1 DEF IInv, TypeOK, SelectFails, world
<1>3. Distinct' /\ Places'
  BY DEF IInv, Distinct, Places, SelectFails, world
<1>4. Walking'
  BY DEF Walking, Selected, SelectFails
<1> QED BY <1>2, <1>3, <1>4 DEF IInv

\* accept gives the lowest free descriptor a place.  After a select that has not
\* failed the descriptor is not in rset, whatever is left in allset.
LEMMA AcceptIInv ==
  ASSUME IInv, Accept
  PROVE  IInv'
<1> DEFINE free == {f \in ConnFds : conn[f] = NULL}
           f    == Min(free)
           k    == Min({j \in Indexes : client[j] < 0})
           c    == Head(backlog)
<1>0. /\ client \in [Indexes -> ConnFds \cup {-1}] /\ maxi \in {-1} \cup Indexes
      /\ conn \in [ConnFds -> Clients \cup {NULL}] /\ backlog \in Seq(Clients)
      /\ status \in [Clients -> {"closed", "backlog", "open"}]
      /\ rset \subseteq allset /\ allset \subseteq {listenfd} \cup ConnFds
      /\ nready \in Int
  <2>1. Cardinality(allset) \in Nat
    BY AllsetFinite DEF IInv
  <2> QED BY <2>1 DEF IInv, TypeOK
<1>1. CASE free = {} /\ pc' = "quit" /\ UNCHANGED <<client, maxi, allset, nready, conn, backlog, status>>
  <2>1. UNCHANGED <<rset, i, peer, unread>>
    BY DEF Accept
  <2>2. TypeOK'
    BY <1>1, <2>1 DEF IInv, TypeOK
  <2>3. Distinct' /\ Places'
    BY <1>1, <2>1 DEF IInv, Distinct, Places
  <2> QED BY <1>1, <2>2, <2>3 DEF IInv, Walking, Selected
<1>2. CASE /\ free # {}
           /\ backlog' = Tail(backlog)
           /\ conn' = [conn EXCEPT ![f] = c]
           /\ status' = [status EXCEPT ![c] = "open"]
           /\ client' = [client EXCEPT ![k] = f]
           /\ allset' = allset \cup {f}
           /\ maxi' = IF k > maxi THEN k ELSE maxi
           /\ nready' = nready - 1
           /\ AfterOne("serve")
  <2>1. UNCHANGED <<rset, i, peer, unread>> /\ pc = "accept" /\ backlog # <<>>
    BY DEF Accept
  <2>2. f \in ConnFds /\ conn[f] = NULL
    <3>1. free \in SUBSET Nat /\ free # {}
      BY <1>2
    <3>2. f \in free
      BY <3>1, MinNat
    <3> QED BY <3>2
  <2>3. k \in Indexes /\ client[k] = -1
    <3>1. {j \in Indexes : client[j] < 0} \in SUBSET Nat /\ {j \in Indexes : client[j] < 0} # {}
      BY PlaceFree DEF IInv
    <3>2. k \in {j \in Indexes : client[j] < 0}
      BY <3>1, MinNat
    <3> QED BY <3>2, <1>0
  <2> HIDE DEF f, k
  <2>4. /\ Len(backlog) \in Nat /\ Len(backlog) > 0 /\ c = backlog[1] /\ c \in Clients
        /\ Tail(backlog) \in Seq(Clients) /\ DOMAIN backlog = 1 .. Len(backlog)
        /\ DOMAIN Tail(backlog) = 1 .. (Len(backlog) - 1)
        /\ \A j \in 1 .. (Len(backlog) - 1) : Tail(backlog)[j] = backlog[j + 1]
    BY <1>0, <2>1
  <2> HIDE DEF c
  <2>5. status[c] = "backlog" /\ \A g \in ConnFds : conn[g] # c
    <3>1. status[c] = "backlog"
      BY <2>4 DEF IInv, Distinct
    <3> QED BY <1>0, <2>4, <3>1 DEF IInv, Distinct
  <2>6. nready = -1 \/ (nready = Cardinality(Before) + 1 /\ \A g \in rset \cap ConnFds : conn[g] # NULL)
    BY <2>1 DEF IInv, Walking
  <2>7. TypeOK'
    <3>1. IsFiniteSet(allset) /\ Cardinality(allset) \in Nat
      BY AllsetFinite DEF IInv
    <3>2. Cardinality(allset') \in Nat /\ Cardinality(allset) <= Cardinality(allset')
      <4>1. Cardinality(allset \cup {f}) = IF f \in allset THEN Cardinality(allset) ELSE Cardinality(allset) + 1
        BY <3>1, FS_AddElement
      <4>2. allset' = allset \cup {f}
        BY <1>2
      <4> QED BY <3>1, <4>1, <4>2
    <3>3. nready' \in -2 .. Cardinality(allset')
      <4>1. nready \in -2 .. Cardinality(allset)
        BY DEF IInv, TypeOK
      <4>2. nready >= -1
        BY <2>6, BeforeFinite
      <4> QED BY <1>2, <3>1, <3>2, <4>1, <4>2
    <3>4. client' \in [Indexes -> ConnFds \cup {-1}] /\ maxi' \in {-1} \cup Indexes
      BY <1>0, <1>2, <2>2, <2>3
    <3>5. /\ conn' \in [ConnFds -> Clients \cup {NULL}] /\ backlog' \in Seq(Clients)
          /\ status' \in [Clients -> {"closed", "backlog", "open"}]
      BY <1>0, <1>2, <2>2, <2>4
    <3>6. rset' \subseteq allset' /\ allset' \subseteq {listenfd} \cup ConnFds
      BY <1>0, <1>2, <2>1, <2>2
    <3>7. i' \in Nat /\ pc' \in {"select", "accept", "serve", "quit", "killed"}
      BY <1>2, <2>1 DEF IInv, TypeOK, AfterOne
    <3>8. peer' \in [Clients -> {"up", "fin", "rst", "err"}] /\ unread' \in [Clients -> 0 .. MaxUnread]
      BY <2>1 DEF IInv, TypeOK
    <3> QED BY <3>3, <3>4, <3>5, <3>6, <3>7, <3>8 DEF TypeOK
  <2>8. Distinct'
    <3>1. \A g, h \in ConnFds : conn'[g] # NULL /\ conn'[g] = conn'[h] => g = h
      BY <1>0, <1>2, <2>2, <2>5 DEF IInv, Distinct
    <3>2. \A g \in ConnFds : conn'[g] # NULL => status'[conn'[g]] = "open"
      BY <1>0, <1>2, <2>2, <2>4, <2>5 DEF IInv, Distinct
    <3>3. \A j \in DOMAIN Tail(backlog) :
             j + 1 \in DOMAIN backlog /\ Tail(backlog)[j] = backlog[j + 1] /\ backlog[j + 1] # c
      BY <2>4 DEF IInv, Distinct
    <3>4. \A j \in DOMAIN backlog' : status'[backlog'[j]] = "backlog"
      <4>1. \A j \in DOMAIN backlog' : backlog'[j] \in Clients \ {c} /\ status[backlog'[j]] = "backlog"
        BY <1>0, <1>2, <3>3 DEF IInv, Distinct
      <4> QED BY <1>0, <1>2, <2>4, <4>1
    <3>5. \A j, m \in DOMAIN backlog' : backlog'[j] = backlog'[m] => j = m
      <4>0. \A j, m \in DOMAIN backlog : backlog[j] = backlog[m] => j = m
        BY DEF IInv, Distinct
      <4>1. \A j, m \in DOMAIN backlog' : backlog'[j] = backlog'[m] => j + 1 = m + 1
        BY <1>2, <3>3, <4>0
      <4>2. \A j \in DOMAIN backlog' : j \in Nat
        BY <1>2, <2>4
      <4> QED BY <4>1, <4>2
    <3> QED BY <3>1, <3>2, <3>4, <3>5 DEF Distinct
  <2>9. Places'
    <3>1. \A j \in Indexes : client'[j] = IF j = k THEN f ELSE client[j]
      BY <1>0, <1>2, <2>3
    <3>2. \A g \in ConnFds : conn'[g] = IF g = f THEN c ELSE conn[g]
      BY <1>0, <1>2, <2>2
    <3>3. \A j \in Indexes : client[j] >= 0 => client[j] # f /\ client[j] \in ConnFds
      BY <1>0, <2>2 DEF IInv, Places
    <3>4. \A g \in ConnFds : conn'[g] # NULL => g \in allset' /\ \E j \in Indexes : client'[j] = g
      BY <1>2, <2>3, <3>1, <3>2 DEF IInv, Places
    <3>5. \A j \in Indexes : client'[j] >= 0 => conn'[client'[j]] # NULL /\ j <= maxi'
      <4>1. c # NULL /\ k <= maxi' /\ maxi <= maxi' /\ maxi \in Int /\ maxi' \in Int
        BY <1>0, <1>2, <2>3, <2>4
      <4> QED BY <2>2, <3>1, <3>2, <3>3, <4>1 DEF IInv, Places
    <3>6. \A j, m \in Indexes : client'[j] >= 0 /\ client'[j] = client'[m] => j = m
      BY <2>2, <2>3, <3>1, <3>3 DEF IInv, Places
    <3> QED BY <3>4, <3>5, <3>6 DEF Places
  <2>10. CASE nready = -1
    <3>1. pc' = "select" /\ ~(nready' >= 0)
      BY <1>2, <2>10 DEF AfterOne
    <3>2. Walking'
      BY <3>1 DEF Walking, Selected
    <3> QED BY <2>7, <2>8, <2>9, <3>2 DEF IInv
  <2>11. CASE nready # -1
    <3>1. \A j \in Indexes : client'[j] = IF j = k THEN f ELSE client[j]
      BY <1>0, <1>2, <2>3
    <3>2. f \notin rset /\ client[k] \notin rset
      BY <1>0, <2>2, <2>3, <2>6, <2>11
    <3>3. Before' = Before
      BY <2>1, <3>1, <3>2 DEF Before
    <3>4. \A j \in Before : client'[j] = client[j] /\ client[j] \in ConnFds \ {f}
      <4>1. \A j \in Before : j # k /\ client[j] # f /\ j \in Indexes
        BY <3>2 DEF Before
      <4> QED BY <1>0, <3>1, <4>1, <3>2 DEF Before
    <3>5. \A j \in Before' : Readable(client[j])'
      <4>1. \A j \in Before : Readable(client[j])
        BY <2>1, <2>11 DEF IInv, Walking, Selected
      <4>2. \A g \in ConnFds \ {f} : conn'[g] = conn[g] /\ g # listenfd
        BY <1>0, <1>2
      <4> QED BY <2>1, <3>3, <3>4, <4>1, <4>2 DEF Readable
    <3>6. nready' = Cardinality(Before) /\ nready' \in Nat
      BY <1>2, <2>6, <2>11, BeforeFinite
    <3>7. nready' = 0 => Before' = {}
      BY <3>3, <3>6, BeforeFinite, FS_EmptySet
    <3>8. pc' = IF nready' <= 0 THEN "select" ELSE "serve"
      BY <1>2 DEF AfterOne
    <3>9. Walking'
      BY <3>3, <3>5, <3>6, <3>7, <3>8 DEF Walking, Selected
    <3> QED BY <2>7, <2>8, <2>9, <3>9 DEF IInv
  <2> QED BY <2>10, <2>11
<1> QED BY <1>1, <1>2 DEF Accept

LEMMA PassOverIInv ==
  ASSUME IInv, PassOver
  PROVE  IInv'
<1>1. /\ pc = "serve" /\ i <= maxi /\ ~Ready /\ i' = i + 1
      /\ UNCHANGED <<client, maxi, allset, rset, nready, pc, world>>
  BY DEF PassOver
<1>2. TypeOK'
  BY <1>1 DEF IInv, TypeOK, world
<1>3. Distinct' /\ Places'
  BY <1>1 DEF IInv, Distinct, Places, world
<1>4. Before' = Before
  <2>1. /\ client \in [Indexes -> ConnFds \cup {-1}] /\ i \in Nat
        /\ rset \subseteq {listenfd} \cup ConnFds
    BY DEF IInv, TypeOK
  <2>2. i \notin Before
    BY <1>1, <2>1 DEF Before, Ready
  <2> QED BY <1>1, <2>1, <2>2 DEF Before
<1>5. \A k \in Before : Readable(client[k]) => Readable(client[k])'
  BY <1>1 DEF Readable, world
<1>6. Walking'
  BY <1>1, <1>4, <1>5 DEF IInv, Walking, Selected
<1> QED BY <1>2, <1>3, <1>6 DEF IInv

\* One ready client is served: it leaves Before, and nready still counts Before.
LEMMA ServeWalking ==
  ASSUME IInv, pc = "serve", Ready,
         i' = i + 1, nready' = nready - 1,
         pc' = "killed" \/ AfterOne("serve"),
         \A k \in Indexes \ {i} : client'[k] = client[k] /\ (client[k] \in rset' <=> client[k] \in rset),
         \A k \in Before \ {i} : Readable(client[k]) => Readable(client[k])'
  PROVE  Walking' /\ nready' \in Nat /\ nready' <= nready
<1>1. i \in Before
  <2>1. maxi \in {-1} \cup Indexes /\ i \in Nat
    BY DEF IInv, TypeOK
  <2> QED BY <2>1 DEF Ready, Before
<1>2. Before' = Before \ {i}
  <2>1. i \in Nat
    BY DEF IInv, TypeOK
  <2> QED BY <1>1, <2>1 DEF Before
<1>3. Cardinality(Before') = Cardinality(Before) - 1 /\ IsFiniteSet(Before')
  BY <1>1, <1>2, BeforeFinite, FS_RemoveElement
<1>4. nready = Cardinality(Before) /\ nready > 0 /\ \A k \in Before : Readable(client[k])
  BY DEF IInv, Walking, Selected
<1>5. nready' = Cardinality(Before') /\ nready' \in Nat /\ nready' <= nready
  BY <1>3, <1>4, BeforeFinite
<1>6. nready' = 0 => Before' = {}
  BY <1>3, <1>5, FS_EmptySet
<1>7. pc' = "killed" \/ (nready' <= 0 /\ pc' = "select") \/ (~(nready' <= 0) /\ pc' = "serve")
  BY Zenon DEF AfterOne
<1>8. \A k \in Before' : Readable(client[k])'
  BY <1>2, <1>4 DEF Readable
<1>9. Walking'
  <2>1. pc' # "accept" /\ (pc' = "serve" => nready' > 0) /\ (pc' = "select" => nready' = 0)
    <3>1. pc' # "accept"
      BY <1>7
    <3>2. pc' = "serve" => ~(nready' <= 0)
      BY <1>7
    <3>3. pc' = "select" => nready' <= 0
      BY <1>7
    <3>4. nready' \in Nat
      BY <1>5
    <3>5. \A n \in Nat : (n <= 0 => n = 0) /\ (~(n <= 0) => n > 0)
      OBVIOUS
    <3> QED BY <3>1, <3>2, <3>3, <3>4, <3>5, Zenon
  <2> QED BY <1>5, <1>6, <1>8, <2>1 DEF Walking, Selected
<1> QED BY <1>5, <1>9

\* The place the walk is at holds an open descriptor of its own.
LEMMA ReadyPlace ==
  ASSUME IInv, Ready
  PROVE  /\ i \in Indexes /\ client[i] \in ConnFds
         /\ conn[client[i]] \in Clients /\ status[conn[client[i]]] = "open"
         /\ \A k \in Indexes \ {i} : client[k] # client[i]
         /\ \A g \in ConnFds \ {client[i]} : conn[g] # conn[client[i]]
<1>1. /\ client \in [Indexes -> ConnFds \cup {-1}] /\ maxi \in {-1} \cup Indexes /\ i \in Nat
      /\ conn \in [ConnFds -> Clients \cup {NULL}]
  BY DEF IInv, TypeOK
<1>2. i \in Indexes /\ client[i] \in ConnFds
  BY <1>1 DEF Ready
<1>3. conn[client[i]] \in Clients
  BY <1>1, <1>2 DEF IInv, Places
<1> QED BY <1>1, <1>2, <1>3 DEF IInv, Places, Distinct

LEMMA ServeEofIInv ==
  ASSUME IInv, ServeEof
  PROVE  IInv'
<1> DEFINE f == client[i]
           c == conn[f]
<1>0. /\ client \in [Indexes -> ConnFds \cup {-1}] /\ conn \in [ConnFds -> Clients \cup {NULL}]
      /\ status \in [Clients -> {"closed", "backlog", "open"}]
      /\ peer \in [Clients -> {"up", "fin", "rst", "err"}]
      /\ rset \subseteq allset /\ nready \in Int /\ backlog \in Seq(Clients)
  <2>1. Cardinality(allset) \in Nat
    BY AllsetFinite DEF IInv
  <2> QED BY <2>1 DEF IInv, TypeOK
<1>1. /\ pc = "serve" /\ Ready
      /\ conn' = [conn EXCEPT ![f] = NULL]
      /\ status' = [status EXCEPT ![c] = "closed"]
      /\ peer' = [peer EXCEPT ![c] = "up"]
      /\ rset' = rset \ {f}
      /\ client' = [client EXCEPT ![i] = -1]
      /\ nready' = nready - 1 /\ AfterOne("serve") /\ i' = i + 1
      /\ UNCHANGED <<maxi, allset, backlog, unread>>
  BY DEF ServeEof
<1>2. /\ i \in Indexes /\ f \in ConnFds /\ c \in Clients /\ status[c] = "open"
      /\ \A k \in Indexes \ {i} : client[k] # f
      /\ \A g \in ConnFds \ {f} : conn[g] # c
  BY <1>1, ReadyPlace
<1> HIDE DEF f, c
<1>3. \A k \in Indexes : client'[k] = IF k = i THEN -1 ELSE client[k]
  BY <1>0, <1>1, <1>2
<1>4. \A g \in ConnFds : conn'[g] = IF g = f THEN NULL ELSE conn[g]
  BY <1>0, <1>1, <1>2
<1>5. \A k \in Before \ {i} : Readable(client[k]) => Readable(client[k])'
  <2>1. \A k \in Before \ {i} : k \in Indexes \ {i} /\ client[k] # f
    BY <1>2 DEF Before
  <2>2. \A k \in Indexes \ {i} : client'[k] = client[k]
    BY <1>3
  <2>3. \A g \in ConnFds : g # listenfd
    OBVIOUS
  <2>4. \A k \in Before \ {i} : client[k] \in ConnFds
    BY <1>0, <2>1 DEF IInv, TypeOK, Before
  <2>5. \A g \in ConnFds \ {f} : conn[g] # NULL => peer'[conn[g]] = peer[conn[g]]
    BY <1>0, <1>1, <1>2
  <2> QED BY <1>1, <1>4, <2>1, <2>2, <2>3, <2>4, <2>5 DEF Readable
<1>6. Walking' /\ nready' \in Nat /\ nready' <= nready
  BY <1>0, <1>1, <1>2, <1>3, <1>5, ServeWalking
<1>7. TypeOK'
  <2>1. nready' \in -2 .. Cardinality(allset')
    <3>1. nready \in -2 .. Cardinality(allset) /\ Cardinality(allset) \in Nat
      BY AllsetFinite DEF IInv, TypeOK
    <3> QED BY <1>1, <1>6, <3>1
  <2>2. pc' \in {"select", "accept", "serve", "quit", "killed"}
    BY <1>1 DEF AfterOne
  <2>3. client' \in [Indexes -> ConnFds \cup {-1}] /\ conn' \in [ConnFds -> Clients \cup {NULL}]
    BY <1>0, <1>1, <1>2
  <2>4. /\ status' \in [Clients -> {"closed", "backlog", "open"}]
        /\ peer' \in [Clients -> {"up", "fin", "rst", "err"}]
    BY <1>0, <1>1, <1>2
  <2>5. rset' \subseteq allset' /\ i' \in Nat
    BY <1>0, <1>1, <1>2
  <2> QED BY <1>1, <2>1, <2>2, <2>3, <2>4, <2>5 DEF IInv, TypeOK
<1>8. Distinct'
  <2>1. \A g, h \in ConnFds : conn'[g] # NULL /\ conn'[g] = conn'[h] => g = h
    BY <1>4 DEF IInv, Distinct
  <2>2. \A g \in ConnFds : conn'[g] # NULL => status'[conn'[g]] = "open"
    BY <1>0, <1>1, <1>2, <1>4 DEF IInv, Distinct
  <2>3. \A j \in DOMAIN backlog : backlog[j] \in Clients /\ backlog[j] # c
    BY <1>0, <1>2 DEF IInv, Distinct
  <2>4. \A j \in DOMAIN backlog' : status'[backlog'[j]] = "backlog"
    BY <1>0, <1>1, <2>3 DEF IInv, Distinct
  <2> QED BY <1>1, <2>1, <2>2, <2>4 DEF IInv, Distinct
<1>9. Places'
  <2>1. \A g \in ConnFds : conn'[g] # NULL => g \in allset' /\ \E k \in Indexes : client'[k] = g
    <3>1. \A g \in ConnFds : conn'[g] # NULL => g # f /\ conn[g] # NULL
      BY <1>4
    <3>2. client[i] = f
      BY DEF f
    <3> QED BY <1>1, <1>3, <3>1, <3>2 DEF IInv, Places
  <2>2. \A k \in Indexes : client'[k] >= 0 => conn'[client'[k]] # NULL /\ k <= maxi'
    <3>1. \A k \in Indexes : client'[k] >= 0 => k # i /\ client'[k] = client[k] /\ client[k] \in ConnFds \ {f}
      BY <1>0, <1>2, <1>3
    <3> QED BY <1>1, <1>4, <3>1 DEF IInv, Places
  <2>3. \A j, k \in Indexes : client'[j] >= 0 /\ client'[j] = client'[k] => j = k
    BY <1>3 DEF IInv, Places
  <2> QED BY <2>1, <2>2, <2>3 DEF Places
<1> QED BY <1>6, <1>7, <1>8, <1>9 DEF IInv

LEMMA ServeResetDataIInv ==
  ASSUME IInv, ServeReset \/ ServeData
  PROVE  IInv'
<1> DEFINE f == client[i]
           c == conn[f]
<1>0. /\ peer \in [Clients -> {"up", "fin", "rst", "err"}] /\ nready \in Int
      /\ unread \in [Clients -> 0 .. MaxUnread] /\ client \in [Indexes -> ConnFds \cup {-1}]
      /\ conn \in [ConnFds -> Clients \cup {NULL}] /\ rset \subseteq {listenfd} \cup ConnFds
  <2>1. Cardinality(allset) \in Nat
    BY AllsetFinite DEF IInv
  <2> QED BY <2>1 DEF IInv, TypeOK
<1>1. /\ pc = "serve" /\ Ready
      /\ nready' = nready - 1 /\ i' = i + 1
      /\ pc' = "killed" \/ AfterOne("serve")
      /\ UNCHANGED <<client, maxi, allset, rset, conn, backlog, status>>
  BY DEF ServeReset, ServeData
<1>2. /\ i \in Indexes /\ f \in ConnFds /\ c \in Clients /\ status[c] = "open"
      /\ \A k \in Indexes \ {i} : client[k] # f
      /\ \A g \in ConnFds \ {f} : conn[g] # c
  BY <1>1, ReadyPlace
<1> HIDE DEF f, c
<1>3. /\ peer' \in [Clients -> {"up", "fin", "rst", "err"}]
      /\ unread' \in [Clients -> 0 .. MaxUnread]
      /\ \A d \in Clients \ {c} : peer'[d] = peer[d] /\ unread'[d] = unread[d]
  <2>1. CASE ServeReset
    BY <1>0, <1>2, <2>1 DEF ServeReset, c, f
  <2>2. CASE ServeData
    <3>1. \E n \in 1 .. unread[c] : unread' = [unread EXCEPT ![c] = @ - n]
      BY <2>2 DEF ServeData, c, f
    <3>2. \E p \in {peer[c], "rst"} : peer' = [peer EXCEPT ![c] = p]
      BY <1>0, <2>2 DEF ServeData, c, f
    <3>3. unread' \in [Clients -> 0 .. MaxUnread] /\ \A d \in Clients \ {c} : unread'[d] = unread[d]
      BY <1>0, <1>2, <3>1
    <3>4. /\ peer' \in [Clients -> {"up", "fin", "rst", "err"}]
          /\ \A d \in Clients \ {c} : peer'[d] = peer[d]
      BY <1>0, <1>2, <3>2
    <3> QED BY <3>3, <3>4
  <2> QED BY <2>1, <2>2
<1>4. \A k \in Before \ {i} : Readable(client[k]) => Readable(client[k])'
  <2>1. \A k \in Before \ {i} : client[k] \in ConnFds \ {f}
    BY <1>0, <1>2 DEF Before
  <2>2. \A g \in ConnFds : g # listenfd
    OBVIOUS
  <2>3. \A g \in ConnFds \ {f} : conn[g] # NULL => conn[g] \in Clients \ {c}
    BY <1>0, <1>2
  <2> QED BY <1>1, <1>3, <2>1, <2>2, <2>3 DEF Readable
<1>5. Walking' /\ nready' \in Nat /\ nready' <= nready
  BY <1>1, <1>4, ServeWalking
<1>6. TypeOK'
  <2>1. nready' \in -2 .. Cardinality(allset')
    <3>1. nready \in -2 .. Cardinality(allset) /\ Cardinality(allset) \in Nat
      BY AllsetFinite DEF IInv, TypeOK
    <3> QED BY <1>1, <1>5, <3>1
  <2>2. pc' \in {"select", "accept", "serve", "quit", "killed"}
    BY <1>1 DEF AfterOne
  <2>3. i' \in Nat
    BY <1>1 DEF IInv, TypeOK
  <2> QED BY <1>1, <1>3, <2>1, <2>2, <2>3 DEF IInv, TypeOK
<1>7. Distinct' /\ Places'
  BY <1>1 DEF IInv, Distinct, Places
<1> QED BY <1>5, <1>6, <1>7 DEF IInv

LEMMA NextIInv ==
  ASSUME IInv, [Next]_vars
  PROVE  IInv'
<1>1. CASE UNCHANGED vars
  <2>1. UNCHANGED <<client, maxi, allset, rset, nready, i, pc, conn, backlog, status, peer, unread>>
    BY <1>1 DEF vars, server, world
  <2>2. TypeOK' /\ Distinct' /\ Places'
    BY <2>1 DEF IInv, TypeOK, Distinct, Places
  <2>3. Before' = Before /\ \A k \in Before : Readable(client[k]) <=> Readable(client[k])'
    BY <2>1 DEF Before, Readable
  <2> QED BY <2>1, <2>2, <2>3 DEF IInv, Walking, Selected
<1> QED
  BY <1>1, ConnectIInv, SendLeaveIInv, SelectIInv, SelectFailsIInv, AcceptIInv, PassOverIInv,
     ServeEofIInv, ServeResetDataIInv DEF Next, Server

\* The inductive invariant of the select loop: client[], allset, rset and nready against
\* the descriptors that are open (selectserver_test.c:26 to 83).
THEOREM Invariance == Spec => []IInv
<1>1. IInv /\ [Next]_vars => IInv'
  BY NextIInv
<1> QED BY InitIInv, <1>1, PTL DEF Spec

-----------------------------------------------------------------------------
(* The properties. *)

\* Every open connection, and no other, has exactly one place in client[], which
\* the walk reaches, and select watches it: also when the descriptor was closed,
\* left behind in allset, and given to another client.
THEOREM OpenStaysServed == Spec => []OpenIsServed
<1>1. IInv => OpenIsServed
  <2> SUFFICES ASSUME IInv PROVE OpenIsServed
    OBVIOUS
  <2>1. \A f \in ConnFds : conn[f] # NULL => Cardinality({k \in 0 .. maxi : client[k] = f}) = 1
    <3> SUFFICES ASSUME NEW f \in ConnFds, conn[f] # NULL
                 PROVE  Cardinality({k \in 0 .. maxi : client[k] = f}) = 1
      OBVIOUS
    <3>1. PICK j \in Indexes : client[j] = f
      BY DEF IInv, Places
    <3>2. maxi \in {-1} \cup Indexes
      BY DEF IInv, TypeOK
    <3>3. \A k \in Indexes : client[k] = f => k = j
      BY <3>1 DEF IInv, Places
    <3>4. j <= maxi
      BY <3>1 DEF IInv, Places
    <3>5. {k \in 0 .. maxi : client[k] = f} = {j}
      BY <3>1, <3>2, <3>3, <3>4
    <3> QED BY <3>5, FS_Singleton
  <2> QED BY <2>1 DEF IInv, Places, OpenIsServed
<1> QED BY Invariance, <1>1, PTL

\* The server never blocks in the read of one client while others wait: not even
\* after a select that failed and left rset a mere copy of allset.
THEOREM ReadNeverBlocks == Spec => []NeverBlocksInRead
<1>1. IInv => NeverBlocksInRead
  <2> SUFFICES ASSUME IInv, pc = "serve", Ready PROVE Readable(client[i])
    BY DEF NeverBlocksInRead
  <2>1. i \in Indexes /\ i \in Nat
    BY ReadyPlace
  <2>2. i \in Before
    BY <2>1 DEF Before, Ready
  <2> QED BY <2>2 DEF IInv, Walking, Selected
<1> QED BY Invariance, <1>1, PTL

\* nready counts the ready clients still before the walk, so the walk ends behind
\* the last of them and never before.
THEOREM WalkIsComplete == Spec => []NothingSkipped
<1>1. IInv => NothingSkipped
  <2> SUFFICES ASSUME IInv PROVE NothingSkipped
    OBVIOUS
  <2>1. /\ client \in [Indexes -> ConnFds \cup {-1}] /\ maxi \in {-1} \cup Indexes /\ i \in Nat
        /\ rset \subseteq {listenfd} \cup ConnFds
    BY DEF IInv, TypeOK
  <2>2. \A k \in Before : k <= maxi
    <3>1. \A k \in Before : k \in Indexes /\ client[k] >= 0
      BY <2>1 DEF Before
    <3> QED BY <3>1 DEF IInv, Places
  <2>3. {k \in i .. maxi : client[k] \in rset} = Before
    BY <2>1, <2>2 DEF Before
  <2> QED BY <2>3 DEF IInv, Walking, NothingSkipped
<1> QED BY Invariance, <1>1, PTL

=============================================================================
