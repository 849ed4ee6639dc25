----------------------------- MODULE Ax25rtdProofs -----------------------------
(***************************************************************************)
(* Proofs about ax25rtd.                                                   *)
(*                                                                         *)
(* A route cache's list: for any set of keys, any room in memory and any   *)
(* maxima the list is whole between two calls, a signal handler can walk   *)
(* it at every statement but two, and the list implements the route cache. *)
(* The argument: at each statement there is a sequence w of entries along  *)
(* which the next pointers lead from head to NULL (List); where the back   *)
(* pointers do not mirror them, and which entry in hand is not among them, *)
(* depends on the statement (Shape); so does the relation of the keys      *)
(* along w to those the list held when the function was called (History).  *)
(*                                                                         *)
(* The kernel's tables: for any ports, stations, frames and files, a host  *)
(* route of another device stays, and the kernel does what the caches say. *)
(* The argument: each function of the daemon is a Move.  It keeps no       *)
(* station and no address twice in a cache (Sound), so a route that goes   *)
(* or comes for one entry is no other entry's (PathsFollow, RoutesFollow), *)
(* and it touches no address that has a foreign route (Kept).              *)
(***************************************************************************)
EXTENDS Ax25rtdList, Ax25rtd, TLAPS, FiniteSetTheorems, SequenceTheorems, WellFoundedInduction

-----------------------------------------------------------------------------
(* A sequence of entries, and how the pointers of a heap follow it *)

At(w, i) == IF i \in 1..Len(w) THEN w[i] ELSE NULL

\* The next pointers of h lead from n along w, no entry twice, to NULL.
List(h, n, w) ==
  /\ w \in Seq(Nodes)
  /\ \A i, j \in 1..Len(w) : w[i] = w[j] => i = j
  /\ n = At(w, 1)
  /\ \A i \in 1..Len(w) : h[w[i]].next = At(w, i + 1)

\* The back pointers mirror them.
Mirror(h, w) == \A i \in 1..Len(w) : h[w[i]].prev = At(w, i - 1)

\* The same, but for the entry after p, which already skips p.
Half(h, w, p) == \A i \in 1..Len(w) : h[w[i]].prev = At(w, IF i = p + 1 THEN p - 1 ELSE i - 1)

\* The entries have keys, no two of them the same.
Distinct(h, w) ==
  /\ \A i \in 1..Len(w) : h[w[i]].key \in Keys
  /\ \A i, j \in 1..Len(w) : h[w[i]].key = h[w[j]].key => i = j

Ks(h, w) == [i \in 1..Len(w) |-> h[w[i]].key]

HeapType ==
  [Nodes -> [next : Nodes \cup {NULL, Wild}, prev : Nodes \cup {NULL}, key : Keys \cup {NULL}]]

\* w without its element p, and w with n in front.
Cut(w, p) == [i \in 1..Len(w) - 1 |-> IF i < p THEN w[i] ELSE w[i + 1]]
Push(n, w) == [i \in 1..Len(w) + 1 |-> IF i = 1 THEN n ELSE w[i - 1]]

-----------------------------------------------------------------------------
(* Walking *)

\* Every nonempty set of naturals has a least element.
LEMMA LeastNat ==
  ASSUME NEW T \in SUBSET Nat, T # {}
  PROVE  \E n \in T : \A m \in T : n <= m
<1>1. PICK n \in T : \A m \in T : ~(<<m, n>> \in OpToRel(<, Nat))
  BY NatLessThanWellFounded, WFMin
<1>2. \A m \in T : m < n => <<m, n>> \in OpToRel(<, Nat)
  BY DEF OpToRel
<1>3. \A m \in T : ~(m < n)
  BY <1>1, <1>2, Zenon
<1> QED BY <1>3

\* A sequence of one element.
LEMMA OneElement ==
  ASSUME NEW S, NEW s \in Seq(S), Len(s) = 1
  PROVE  s = <<s[1]>>
OBVIOUS

\* A list has no more entries than there are nodes, and as many members.
LEMMA ListLength ==
  ASSUME NEW w \in Seq(Nodes), \A i, j \in 1..Len(w) : w[i] = w[j] => i = j
  PROVE  /\ Len(w) \in Nat /\ Cardinality(Nodes) \in Nat
         /\ Len(w) <= Cardinality(Nodes)
         /\ ToSet(w) \in SUBSET Nodes /\ IsFiniteSet(ToSet(w)) /\ Cardinality(ToSet(w)) = Len(w)
<1>1. w \in [1..Len(w) -> Nodes] /\ Len(w) \in Nat /\ DOMAIN w = 1..Len(w)
  OBVIOUS
<1>2. w \in Injection(1..Len(w), Nodes)
  BY <1>1 DEF Injection, IsInjective
<1>3. IsFiniteSet(1..Len(w)) /\ Cardinality(1..Len(w)) = Len(w)
  <2>1. Len(w) \in Int /\ 1 \in Int /\ (1 > Len(w) => Len(w) = 0)
    BY <1>1
  <2>2. IsFiniteSet(1..Len(w)) /\ Cardinality(1..Len(w)) = IF 1 > Len(w) THEN 0 ELSE Len(w) - 1 + 1
    BY <2>1, FS_Interval, Zenon
  <2> QED BY <2>1, <2>2
<1>4. Len(w) <= Cardinality(Nodes)
  BY <1>2, <1>3, FS_Injection, ListConstants
<1>5. ToSet(w) \in SUBSET Nodes
  BY <1>1 DEF ToSet
<1>6. w \in Surjection(1..Len(w), ToSet(w)) /\ w \in Injection(1..Len(w), ToSet(w))
  BY <1>1 DEF Surjection, Injection, IsInjective, ToSet
<1>7. IsFiniteSet(ToSet(w)) /\ Cardinality(ToSet(w)) = Cardinality(1..Len(w))
  BY <1>3, <1>6, FS_Surjection
<1> QED BY <1>1, <1>3, <1>4, <1>5, <1>7, FS_CardinalityType, ListConstants

\* Chain with its heap as a parameter.
ChainIn(h, n) ==
  LET chain[i \in 0..Cardinality(Nodes)] ==
        IF i = 0 THEN <<n>>
        ELSE LET s == chain[i - 1]
             IN  IF Last(s) \in Nodes THEN Append(s, h[Last(s)].next) ELSE s
  IN  chain[Cardinality(Nodes)]

\* c follows the next pointers of h over l nodes to what is no node.
Follows(h, c, l) ==
  /\ l \in Nat /\ Cardinality(Nodes) \in Nat /\ l <= Cardinality(Nodes)
  /\ c \in Seq(Nodes \cup {NULL, Wild}) /\ Len(c) = l + 1 /\ DOMAIN c = 1..l + 1
  /\ \A i \in 1..l : c[i] \in Nodes /\ c[i + 1] = h[c[i]].next
  /\ c[l + 1] \notin Nodes

\* Chain is the walk: it returns any sequence that follows the pointers from
\* the node it is given.
LEMMA ChainIs ==
  ASSUME NEW h, NEW c, NEW l, Follows(h, c, l)
  PROVE  ChainIn(h, c[1]) = c
<1> USE DEF Follows
<1> DEFINE N == Cardinality(Nodes)
           U == Nodes \cup {NULL, Wild}
           Upto(i) == IF i <= l THEN i + 1 ELSE l + 1
           g == [i \in 0..N |-> SubSeq(c, 1, Upto(i))]
           Step(f, i) == IF i = 0 THEN <<c[1]>>
                         ELSE IF Last(f[i - 1]) \in Nodes
                              THEN Append(f[i - 1], h[Last(f[i - 1])].next) ELSE f[i - 1]
           IsChain(f) == f = [i \in 0..N |-> Step(f, i)]
<1>1. ASSUME NEW i \in 0..N
      PROVE  /\ SubSeq(c, 1, Upto(i)) \in Seq(U)
             /\ Len(SubSeq(c, 1, Upto(i))) = Upto(i)
             /\ \A j \in 1..Upto(i) : SubSeq(c, 1, Upto(i))[j] = c[j]
             /\ Upto(i) \in 1..l + 1
             /\ Last(SubSeq(c, 1, Upto(i))) = c[Upto(i)]
  <2>1. Upto(i) \in 1..l + 1
    OBVIOUS
  <2>2. \A j \in 1..Upto(i) : c[j] \in U
    BY <2>1
  <2> HIDE DEF Upto
  <2> QED BY <2>1, <2>2, SubSeqProperties DEF Last
<1>2. ASSUME NEW i \in 0..N PROVE g[i] = Step(g, i)
  <2>1. CASE i = 0
    <3>1. Upto(0) = 1
      OBVIOUS
    <3>2. SubSeq(c, 1, Upto(0)) = <<c[1]>>
      <4>1. SubSeq(c, 1, 1) \in Seq(U) /\ Len(SubSeq(c, 1, 1)) = 1 /\ SubSeq(c, 1, 1)[1] = c[1]
        <5>1. \A j \in 1..1 : c[j] \in U
          OBVIOUS
        <5>2. 1 \in Int /\ 1 - 1 + 1 = 1 /\ 1 + 1 - 1 = 1 /\ 1 \in 1..1
          OBVIOUS
        <5> HIDE DEF U
        <5> QED BY <5>1, <5>2, SubSeqProperties
      <4>2. SubSeq(c, 1, 1) = <<c[1]>>
        BY <4>1, OneElement, Zenon
      <4> QED BY <3>1, <4>2
    <3>3. g[i] = SubSeq(c, 1, Upto(0)) /\ Step(g, i) = <<c[1]>>
      BY <2>1
    <3> QED BY <3>2, <3>3
  <2>2. CASE i > 0 /\ i <= l
    <3>1. i - 1 \in 0..N /\ Upto(i - 1) = i /\ Upto(i) = i + 1 /\ i \in 1..l
      BY <2>2
    <3>2. g[i - 1] = SubSeq(c, 1, i) /\ g[i] = SubSeq(c, 1, i + 1)
      BY <3>1
    <3>3. Last(g[i - 1]) = c[i] /\ c[i] \in Nodes
      BY <1>1, <3>1, <3>2
    <3>4. SubSeq(c, 1, i + 1) = Append(SubSeq(c, 1, i), c[i + 1])
      BY <3>1
    <3> QED BY <2>2, <3>1, <3>2, <3>3, <3>4
  <2>3. CASE i > l
    <3>1. i - 1 \in 0..N /\ Upto(i - 1) = l + 1 /\ Upto(i) = l + 1
      BY <2>3
    <3>2. g[i - 1] = g[i] /\ Last(g[i - 1]) = c[l + 1]
      BY <1>1, <3>1
    <3> QED BY <2>3, <3>2
  <2>4. i = 0 \/ (i > 0 /\ i <= l) \/ i > l
    OBVIOUS
  <2> QED BY <2>1, <2>2, <2>3, <2>4, Zenon
<1>3. IsChain(g)
  <2> HIDE DEF Step, Upto
  <2> QED BY <1>2
<1>4. ASSUME NEW f, IsChain(f) PROVE f[N] = g[N]
  <2> DEFINE Bad == {i \in 0..N : f[i] # g[i]}
  <2> HIDE DEF g
  <2>1. \A i \in 0..N : f[i] = Step(f, i)
    <3> HIDE DEF Step
    <3> QED BY <1>4
  <2>2. ASSUME Bad # {} PROVE FALSE
    <3>1. PICK i \in Bad : \A j \in Bad : i <= j
      <4>1. Bad \in SUBSET Nat
        OBVIOUS
      <4> HIDE DEF Bad
      <4> QED BY <2>2, <4>1, LeastNat
    <3>2. CASE i = 0
      BY <1>2, <2>1, <3>2, <3>1
    <3>3. CASE i # 0
      <4>1. i - 1 \in 0..N /\ i - 1 \notin Bad
        BY <3>1, <3>3
      <4>2. f[i - 1] = g[i - 1]
        BY <4>1
      <4>3. Step(f, i) = Step(g, i)
        BY <3>3, <4>2
      <4> HIDE DEF Step
      <4> QED BY <1>2, <2>1, <3>1, <4>3
    <3> QED BY <3>2, <3>3
  <2> QED BY <2>2
<1>5. g[N] = c
  <2>1. Upto(N) = l + 1
    OBVIOUS
  <2> QED BY <2>1, SubSeqFull
<1>6. ChainIn(h, c[1]) = (CHOOSE f : IsChain(f))[N]
  BY DEF ChainIn
<1> HIDE DEF g, IsChain
<1>7. IsChain(CHOOSE f : IsChain(f))
  BY <1>3
<1> QED BY <1>4, <1>5, <1>6, <1>7

\* A walk along a list meets its entries and ends with NULL.
LEMMA WalkIn ==
  ASSUME NEW h, NEW n, NEW w, List(h, n, w)
  PROVE  ChainIn(h, n) = Append(w, NULL) /\ Last(ChainIn(h, n)) = NULL /\ Front(ChainIn(h, n)) = w
<1> DEFINE l == Len(w)
           c == Append(w, NULL)
           U == Nodes \cup {NULL, Wild}
<1>1. w \in Seq(Nodes) /\ w \in Seq(U) /\ l \in Nat /\ DOMAIN w = 1..l
  BY DEF List
<1>2. l <= Cardinality(Nodes) /\ Cardinality(Nodes) \in Nat
  BY ListLength DEF List
<1>3. /\ c \in Seq(U) /\ Len(c) = l + 1 /\ DOMAIN c = 1..l + 1
      /\ \A i \in 1..l : c[i] = w[i] /\ c[l + 1] = NULL
  BY <1>1
<1>4. c[l + 1] = NULL /\ c[l + 1] \notin Nodes /\ \A i \in 1..l + 1 : c[i] = At(w, i)
  BY <1>1, <1>3, ListConstants DEF At
<1>5. c[1] = n
  BY <1>1, <1>4 DEF List
<1>6. \A i \in 1..l : c[i] \in Nodes /\ c[i + 1] = h[c[i]].next
  BY <1>1, <1>3, <1>4 DEF List
<1>7. ChainIn(h, n) = c
  <2>1. Follows(h, c, l)
    <3> HIDE DEF c, l
    <3> QED BY <1>1, <1>2, <1>3, <1>4, <1>6 DEF Follows
  <2>2. ChainIn(h, c[1]) = c
    BY <2>1, ChainIs
  <2> QED BY <1>5, <2>2
<1>8. Last(c) = NULL
  BY <1>3, <1>4 DEF Last
<1>9. Front(c) = w
  BY <1>1, <1>3 DEF Front
<1> QED BY <1>7, <1>8, <1>9

LEMMA WalkIs ==
  ASSUME NEW n, NEW w, List(heap, n, w)
  PROVE  /\ Chain(n) = Append(w, NULL) /\ Last(Chain(n)) = NULL /\ Walk(n) = w
         /\ KeysOf(w) = Ks(heap, w) /\ KeysOf(Walk(n)) = Ks(heap, w)
<1>1. Chain(n) = ChainIn(heap, n)
  BY DEF Chain, ChainIn
<1>2. DOMAIN w = 1..Len(w)
  BY DEF List
<1> QED BY <1>1, <1>2, WalkIn DEF Walk, KeysOf, Ks

\* The same of the next state.
LEMMA WalkNext ==
  ASSUME NEW w, List(heap', head', w)
  PROVE  /\ Last(Chain(head))' = NULL /\ Walk(head)' = w
         /\ KeysOf(Walk(head))' = Ks(heap', w)
<1>1. Chain(head)' = ChainIn(heap', head')
  BY DEF Chain, ChainIn
<1>2. DOMAIN w = 1..Len(w)
  BY DEF List
<1>3. Walk(head)' = w
  BY <1>1, WalkIn DEF Walk
<1>4. KeysOf(Walk(head))' = [i \in DOMAIN Walk(head)' |-> heap'[Walk(head)'[i]].key]
  BY DEF KeysOf
<1> QED BY <1>1, <1>2, <1>3, <1>4, WalkIn DEF Ks

\* From what is no node a walk gets nowhere.
LEMMA NoWalk ==
  ASSUME NEW n \in {NULL, Wild}, NEW keys
  PROVE  Chain(n) = <<n>> /\ Find(n, keys) = n
<1>1. Cardinality(Nodes) \in Nat /\ n \notin Nodes
  BY FS_CardinalityType, ListConstants
<1>2. Chain(n) = <<n>>
  <2> DEFINE c == <<n>>
  <2>1. Follows(heap, c, 0) /\ c[1] = n
    BY <1>1 DEF Follows
  <2>2. ChainIn(heap, c[1]) = c
    BY <2>1, ChainIs
  <2>3. Chain(n) = ChainIn(heap, n)
    BY DEF Chain, ChainIn
  <2> QED BY <2>1, <2>2, <2>3
<1> QED BY <1>2 DEF Find, Last

\* Find returns the first entry of the list with one of the keys, or NULL.
LEMMA FindIs ==
  ASSUME NEW n, NEW w, NEW keys, List(heap, n, w)
  PROVE  \/ \E i \in 1..Len(w) : Find(n, keys) = w[i] /\ heap[w[i]].key \in keys
         \/ Find(n, keys) = NULL /\ \A i \in 1..Len(w) : heap[w[i]].key \notin keys
<1> DEFINE c == Chain(n)
           hits == {i \in 1..Len(c) - 1 : heap[c[i]].key \in keys}
<1>1. w \in Seq(Nodes) /\ Len(w) \in Nat
  BY DEF List
<1>2. c = Append(w, NULL) /\ Last(c) = NULL
  BY WalkIs
<1>3. Len(c) - 1 = Len(w) /\ \A i \in 1..Len(w) : c[i] = w[i]
  BY <1>1, <1>2
<1>4. hits \in SUBSET Nat /\ hits = {i \in 1..Len(w) : heap[w[i]].key \in keys}
  BY <1>1, <1>3
<1>5. Find(n, keys) = IF hits = {} THEN Last(c) ELSE c[CHOOSE i \in hits : \A j \in hits : i <= j]
  BY DEF Find
<1> HIDE DEF c, hits
<1>6. CASE hits = {}
  BY <1>2, <1>4, <1>5, <1>6
<1>7. CASE hits # {}
  <2>1. \E i \in hits : \A j \in hits : i <= j
    BY <1>4, <1>7, LeastNat
  <2>2. PICK i \in hits : Find(n, keys) = c[i]
    BY <1>5, <1>7, <2>1
  <2> QED BY <1>3, <1>4, <2>2
<1> QED BY <1>6, <1>7

\* An entry of a list begins one with the entries from there on.
LEMMA ListFrom ==
  ASSUME NEW n, NEW w, List(heap, n, w), NEW q \in 1..Len(w)
  PROVE  \E v : List(heap, w[q], v) /\ ToSet(v) \in SUBSET ToSet(w)
<1> DEFINE v == [i \in 1..Len(w) - q + 1 |-> w[q + i - 1]]
<1>1. w \in Seq(Nodes) /\ Len(w) \in Nat /\ DOMAIN w = 1..Len(w)
  BY DEF List
<1>2. v \in Seq(Nodes) /\ Len(v) = Len(w) - q + 1 /\ DOMAIN v = 1..Len(w) - q + 1
  BY <1>1
<1>3. \A i \in 1..Len(v) : q + i - 1 \in 1..Len(w) /\ v[i] = w[q + i - 1]
  BY <1>1, <1>2
<1>4. \A i \in 1..Len(v) + 1 : At(v, i) = At(w, q + i - 1)
  BY <1>1, <1>2 DEF At
<1> HIDE DEF v
<1>5. ASSUME NEW i \in 1..Len(v), NEW j \in 1..Len(v), v[i] = v[j] PROVE i = j
  <2>1. q + i - 1 \in 1..Len(w) /\ q + j - 1 \in 1..Len(w) /\ w[q + i - 1] = w[q + j - 1]
    BY <1>3, <1>5
  <2>2. q + i - 1 = q + j - 1
    BY <2>1 DEF List
  <2>3. i \in Int /\ j \in Int /\ q \in Int
    BY <1>1
  <2> QED BY <2>2, <2>3
<1>6. w[q] = At(v, 1)
  BY <1>1, <1>2, <1>4 DEF At
<1>7. ASSUME NEW i \in 1..Len(v) PROVE heap[v[i]].next = At(v, i + 1)
  <2>1. q + i - 1 \in 1..Len(w) /\ v[i] = w[q + i - 1] /\ (q + i - 1) + 1 = q + (i + 1) - 1
        /\ i + 1 \in 1..Len(v) + 1
    <3>1. q + i - 1 \in 1..Len(w) /\ v[i] = w[q + i - 1]
      BY <1>3
    <3>2. i \in Int /\ q \in Int /\ Len(v) \in Int /\ 1 <= i /\ i <= Len(v)
      BY <1>1, <1>2
    <3>3. (q + i - 1) + 1 = q + (i + 1) - 1 /\ i + 1 \in 1..Len(v) + 1
      BY <3>2
    <3> QED BY <3>1, <3>3
  <2>2. heap[w[q + i - 1]].next = At(w, (q + i - 1) + 1)
    BY <2>1 DEF List
  <2> QED BY <1>4, <2>1, <2>2
<1>8. ToSet(v) \in SUBSET ToSet(w)
  <2>1. ToSet(v) = {v[i] : i \in 1..Len(v)} /\ ToSet(w) = {w[i] : i \in 1..Len(w)}
    BY <1>1, <1>2 DEF ToSet
  <2> QED BY <1>3, <2>1
<1> QED BY <1>2, <1>5, <1>6, <1>7, <1>8 DEF List

-----------------------------------------------------------------------------
(* What a write to a pointer does to a list *)

LEMMA SetNext ==
  ASSUME heap \in HeapType, NEW n \in Nodes, NEW v \in Nodes \cup {NULL, Wild}, Set(n, "next", v)
  PROVE  /\ heap' \in HeapType
         /\ \A m \in Nodes : /\ heap'[m].next = IF m = n THEN v ELSE heap[m].next
                             /\ heap'[m].prev = heap[m].prev /\ heap'[m].key = heap[m].key
BY DEF Set, HeapType

LEMMA SetPrev ==
  ASSUME heap \in HeapType, NEW n \in Nodes, NEW v \in Nodes \cup {NULL}, Set(n, "prev", v)
  PROVE  /\ heap' \in HeapType
         /\ \A m \in Nodes : /\ heap'[m].prev = IF m = n THEN v ELSE heap[m].prev
                             /\ heap'[m].next = heap[m].next /\ heap'[m].key = heap[m].key
BY DEF Set, HeapType

\* A list depends on the next pointers of its entries only.
LEMMA FrameNext ==
  ASSUME NEW h, NEW g, NEW n, NEW w, List(h, n, w), \A m \in ToSet(w) : g[m].next = h[m].next
  PROVE  List(g, n, w)
BY DEF List, ToSet

LEMMA SameKeys ==
  ASSUME NEW h, NEW g, NEW w \in Seq(Nodes), \A m \in Nodes : g[m].key = h[m].key
  PROVE  Ks(g, w) = Ks(h, w) /\ (Distinct(h, w) => Distinct(g, w))
<1>1. \A i \in 1..Len(w) : w[i] \in Nodes
  OBVIOUS
<1> QED BY <1>1 DEF Ks, Distinct

LEMMA FrameKey ==
  ASSUME NEW h, NEW g, NEW n, NEW w, List(h, n, w), \A m \in Nodes : g[m].key = h[m].key
  PROVE  Ks(g, w) = Ks(h, w) /\ (Distinct(h, w) => Distinct(g, w))
BY SameKeys DEF List

\* A write to an entry that is not in a list does not change it.
LEMMA OffList ==
  ASSUME NEW h, NEW g, NEW n, NEW w, List(h, n, w), NEW b, b \notin ToSet(w),
         \A m \in Nodes : m # b => g[m].next = h[m].next /\ g[m].prev = h[m].prev /\ g[m].key = h[m].key
  PROVE  /\ List(g, n, w) /\ Ks(g, w) = Ks(h, w)
         /\ Distinct(h, w) => Distinct(g, w)
         /\ Mirror(h, w) => Mirror(g, w)
<1>1. \A i \in 1..Len(w) : w[i] \in Nodes /\ w[i] # b
  BY DEF List, ToSet
<1>2. List(g, n, w)
  BY <1>1 DEF List
<1>3. Ks(g, w) = Ks(h, w)
  BY <1>1 DEF Ks
<1>4. Distinct(h, w) => Distinct(g, w)
  BY <1>1 DEF Distinct
<1>5. Mirror(h, w) => Mirror(g, w)
  BY <1>1 DEF Mirror
<1> QED BY <1>2, <1>3, <1>4, <1>5

LEMMA CutFacts ==
  ASSUME NEW S, NEW w \in Seq(S), NEW p \in 1..Len(w)
  PROVE  /\ Cut(w, p) \in Seq(S) /\ Len(Cut(w, p)) = Len(w) - 1 /\ DOMAIN Cut(w, p) = 1..Len(w) - 1
         /\ \A i \in 1..Len(w) - 1 :
              IF i < p THEN Cut(w, p)[i] = w[i] /\ i \in 1..Len(w) ELSE Cut(w, p)[i] = w[i + 1] /\ i + 1 \in 1..Len(w)
         /\ \A i \in 0..Len(w) : At(Cut(w, p), i) = IF i < p THEN At(w, i) ELSE At(w, i + 1)
<1>1. Len(w) \in Nat /\ DOMAIN w = 1..Len(w) /\ p \in Nat /\ 1 <= p /\ p <= Len(w)
  OBVIOUS
<1>2. \A i \in 1..Len(w) - 1 : i \in 1..Len(w) /\ i + 1 \in 1..Len(w)
  BY <1>1
<1>3. Cut(w, p) \in Seq(S) /\ Len(Cut(w, p)) = Len(w) - 1 /\ DOMAIN Cut(w, p) = 1..Len(w) - 1
  BY <1>1, <1>2 DEF Cut
<1>4. \A i \in 1..Len(w) - 1 : Cut(w, p)[i] = IF i < p THEN w[i] ELSE w[i + 1]
  BY <1>1 DEF Cut
<1>5. ASSUME NEW i \in 0..Len(w)
      PROVE  At(Cut(w, p), i) = IF i < p THEN At(w, i) ELSE At(w, i + 1)
  <2>1. CASE i \in 1..Len(w) - 1
    BY <1>1, <1>2, <1>3, <1>4, <2>1 DEF At
  <2>2. CASE i = 0
    BY <1>1, <1>3, <2>2 DEF At
  <2>3. CASE i = Len(w)
    BY <1>1, <1>3, <2>3 DEF At
  <2>4. i \in 1..Len(w) - 1 \/ i = 0 \/ i = Len(w)
    <3>1. \A l \in Nat : \A j \in 0..l : j \in 1..l - 1 \/ j = 0 \/ j = l
      OBVIOUS
    <3> QED BY <1>1, <3>1, Zenon
  <2> QED BY <2>1, <2>2, <2>3, <2>4, Zenon
<1>6. \A i \in 1..Len(w) - 1 :
        IF i < p THEN Cut(w, p)[i] = w[i] /\ i \in 1..Len(w) ELSE Cut(w, p)[i] = w[i + 1] /\ i + 1 \in 1..Len(w)
  BY <1>2, <1>4
<1> QED BY <1>3, <1>5, <1>6, Zenon

LEMMA CutSet ==
  ASSUME NEW S, NEW w \in Seq(S), NEW p \in 1..Len(w), \A i, j \in 1..Len(w) : w[i] = w[j] => i = j
  PROVE  /\ \A i, j \in 1..Len(Cut(w, p)) : Cut(w, p)[i] = Cut(w, p)[j] => i = j
         /\ ToSet(Cut(w, p)) = ToSet(w) \ {w[p]}
<1> DEFINE c == Cut(w, p)
           Old(i) == IF i < p THEN i ELSE i + 1
<1>1. Len(w) \in Nat /\ DOMAIN w = 1..Len(w) /\ p \in Nat /\ Len(c) = Len(w) - 1 /\ DOMAIN c = 1..Len(w) - 1
  BY CutFacts
<1>2. \A i \in 1..Len(w) - 1 : c[i] = w[Old(i)] /\ Old(i) \in 1..Len(w) /\ Old(i) # p
  <2>1. \A i \in 1..Len(w) - 1 :
          IF i < p THEN c[i] = w[i] /\ i \in 1..Len(w) ELSE c[i] = w[i + 1] /\ i + 1 \in 1..Len(w)
    BY CutFacts, Zenon
  <2> HIDE DEF c
  <2> QED BY <1>1, <2>1
<1>3. \A i, j \in 1..Len(w) - 1 : Old(i) = Old(j) => i = j
  BY <1>1
<1>4. \A i \in 1..Len(w) : i # p => \E j \in 1..Len(w) - 1 : Old(j) = i
  <2> TAKE i \in 1..Len(w)
  <2>1. CASE i < p
    BY <1>1, <2>1
  <2>2. CASE i > p
    <3>1. i - 1 \in 1..Len(w) - 1 /\ Old(i - 1) = i
      BY <1>1, <2>2
    <3> QED BY <3>1
  <2> QED BY <1>1, <2>1, <2>2
<1> HIDE DEF c, Old
<1>5. \A i, j \in 1..Len(c) : c[i] = c[j] => i = j
  BY <1>1, <1>2, <1>3
<1>6. ToSet(c) = {c[i] : i \in 1..Len(w) - 1} /\ ToSet(w) = {w[i] : i \in 1..Len(w)}
  BY <1>1 DEF ToSet
<1>7. \A x \in ToSet(c) : x \in ToSet(w) \ {w[p]}
  BY <1>1, <1>2, <1>6
<1>8. \A x \in ToSet(w) \ {w[p]} : x \in ToSet(c)
  BY <1>1, <1>2, <1>4, <1>6
<1> QED BY <1>5, <1>7, <1>8 DEF c

LEMMA PushFacts ==
  ASSUME NEW S, NEW w \in Seq(S), NEW n \in S
  PROVE  /\ Push(n, w) \in Seq(S) /\ Len(Push(n, w)) = Len(w) + 1 /\ DOMAIN Push(n, w) = 1..Len(w) + 1
         /\ Push(n, w)[1] = n /\ \A i \in 2..Len(w) + 1 : Push(n, w)[i] = w[i - 1] /\ i - 1 \in 1..Len(w)
         /\ ToSet(Push(n, w)) = ToSet(w) \cup {n}
<1> DEFINE c == Push(n, w)
<1>1. Len(w) \in Nat /\ DOMAIN w = 1..Len(w)
  OBVIOUS
<1>2. \A i \in 1..Len(w) + 1 : i = 1 \/ i - 1 \in 1..Len(w)
  BY <1>1
<1>3. c \in Seq(S) /\ Len(c) = Len(w) + 1 /\ DOMAIN c = 1..Len(w) + 1
  BY <1>1, <1>2 DEF Push
<1>4. c[1] = n /\ \A i \in 2..Len(w) + 1 : c[i] = w[i - 1] /\ i - 1 \in 1..Len(w)
  BY <1>1 DEF Push
<1>5. \A i \in 1..Len(w) : i + 1 \in 2..Len(w) + 1 /\ c[i + 1] = w[i]
  BY <1>1, <1>4
<1> HIDE DEF c
<1>6. ToSet(c) = ToSet(w) \cup {n}
  <2>1. ToSet(c) = {c[i] : i \in 1..Len(w) + 1} /\ ToSet(w) = {w[i] : i \in 1..Len(w)}
    BY <1>1, <1>3 DEF ToSet
  <2>2. \A x \in ToSet(c) : x \in ToSet(w) \cup {n}
    BY <1>1, <1>4, <2>1
  <2>3. \A x \in ToSet(w) \cup {n} : x \in ToSet(c)
    BY <1>1, <1>4, <1>5, <2>1
  <2> QED BY <2>2, <2>3
<1> QED BY <1>3, <1>4, <1>6 DEF c

LEMMA PushIsConcat ==
  ASSUME NEW S, NEW w \in Seq(S), NEW n \in S
  PROVE  /\ Push(n, w) # <<>> /\ Head(Push(n, w)) = n /\ Tail(Push(n, w)) = w
         /\ Push(n, w) = <<n>> \o w
<1> DEFINE c == Push(n, w)
<1>1. Len(w) \in Nat /\ DOMAIN w = 1..Len(w)
  OBVIOUS
<1>2. c \in Seq(S) /\ Len(c) = Len(w) + 1
      /\ c[1] = n /\ \A i \in 2..Len(w) + 1 : c[i] = w[i - 1] /\ i - 1 \in 1..Len(w)
  BY PushFacts
<1> HIDE DEF c
<1>3. \A i \in 1..Len(w) : i + 1 \in 2..Len(w) + 1 /\ c[i + 1] = w[i]
  BY <1>1, <1>2
<1>4. c # <<>> /\ Head(c) = n /\ Len(Tail(c)) = Len(w) /\ Tail(c) \in Seq(S)
      /\ \A i \in 1..Len(w) : Tail(c)[i] = c[i + 1]
  BY <1>1, <1>2, HeadTailProperties
<1>5. Tail(c) = w
  BY <1>3, <1>4, SeqEqual
<1>6. c = <<n>> \o w
  <2>1. <<n>> \o w \in Seq(S) /\ Len(<<n>> \o w) = Len(w) + 1 /\ (<<n>> \o w)[1] = n
        /\ \A i \in 2..Len(w) + 1 : (<<n>> \o w)[i] = w[i - 1]
    BY <1>1
  <2>2. \A i \in 1..Len(c) : c[i] = (<<n>> \o w)[i]
    BY <1>1, <1>2, <2>1
  <2> QED BY <1>2, <2>1, <2>2, SeqEqual
<1> QED BY <1>4, <1>5, <1>6 DEF c

\* Leading past the entry p takes it out of the list.
LEMMA ListCut ==
  ASSUME NEW h, NEW g, NEW n, NEW w, List(h, n, w), NEW p \in 1..Len(w),
         \A i \in 1..Len(w) : i + 1 # p => g[w[i]].next = h[w[i]].next,
         p > 1 => g[w[p - 1]].next = At(w, p + 1)
  PROVE  List(g, IF p = 1 THEN At(w, 2) ELSE n, Cut(w, p))
<1> DEFINE c == Cut(w, p)
<1>1. w \in Seq(Nodes) /\ Len(w) \in Nat /\ p \in Nat /\ 1 <= p /\ p <= Len(w)
      /\ \A i, j \in 1..Len(w) : w[i] = w[j] => i = j
  BY DEF List
<1>2. c \in Seq(Nodes) /\ Len(c) = Len(w) - 1
  BY <1>1, CutFacts
<1>3. \A i \in 1..Len(w) - 1 : IF i < p THEN c[i] = w[i] ELSE c[i] = w[i + 1]
  BY <1>1, CutFacts
<1>4. \A i \in 0..Len(w) : At(c, i) = IF i < p THEN At(w, i) ELSE At(w, i + 1)
  BY <1>1, CutFacts
<1>5. \A i, j \in 1..Len(c) : c[i] = c[j] => i = j
  BY <1>1, CutSet
<1> HIDE DEF c
<1>6. (IF p = 1 THEN At(w, 2) ELSE n) = At(c, 1)
  <2>1. At(c, 1) = IF 1 < p THEN At(w, 1) ELSE At(w, 2)
    BY <1>1, <1>4
  <2> QED BY <1>1, <2>1 DEF List
<1>7. ASSUME NEW i \in 1..Len(w) - 1 PROVE g[c[i]].next = At(c, i + 1)
  <2>1. i + 1 \in 0..Len(w) /\ i \in 1..Len(w) /\ i + 1 \in 1..Len(w) /\ i \in Nat
    BY <1>1
  <2>2. CASE i + 1 < p
    <3>1. g[w[i]].next = At(w, i + 1)
      BY <1>1, <2>1, <2>2 DEF List
    <3> QED BY <1>1, <1>3, <1>4, <2>1, <2>2, <3>1
  <2>3. CASE i + 1 = p
    <3>1. g[w[i]].next = At(w, i + 2)
      BY <1>1, <2>1, <2>3
    <3> QED BY <1>1, <1>3, <1>4, <2>1, <2>3, <3>1
  <2>4. CASE i + 1 > p
    <3>1. g[w[i + 1]].next = At(w, i + 2)
      BY <1>1, <2>1, <2>4 DEF List
    <3> QED BY <1>1, <1>3, <1>4, <2>1, <2>4, <3>1
  <2> QED BY <1>1, <2>1, <2>2, <2>3, <2>4
<1> QED BY <1>2, <1>5, <1>6, <1>7 DEF List, c

\* What the other pointers, the keys and the counter's set are then.
LEMMA CutRest ==
  ASSUME NEW h, NEW n, NEW w, List(h, n, w), NEW p \in 1..Len(w)
  PROVE  /\ Half(h, w, p) => Mirror(h, Cut(w, p))
         /\ p = Len(w) /\ Mirror(h, w) => Mirror(h, Cut(w, p))
         /\ Distinct(h, w) => Distinct(h, Cut(w, p))
         /\ Ks(h, Cut(w, p)) = Cut(Ks(h, w), p)
         /\ ToSet(Cut(w, p)) = ToSet(w) \ {w[p]} /\ w[p] \in ToSet(w)
         /\ Cut(w, p) \in Seq(Nodes) /\ Len(Cut(w, p)) = Len(w) - 1
<1> DEFINE c == Cut(w, p)
<1>1. w \in Seq(Nodes) /\ Len(w) \in Nat /\ p \in Nat /\ 1 <= p /\ p <= Len(w)
      /\ DOMAIN w = 1..Len(w) /\ \A i, j \in 1..Len(w) : w[i] = w[j] => i = j
  BY DEF List
<1>2. c \in Seq(Nodes) /\ Len(c) = Len(w) - 1 /\ ToSet(c) = ToSet(w) \ {w[p]}
  BY <1>1, CutFacts, CutSet
<1>3. \A i \in 1..Len(w) - 1 :
        IF i < p THEN c[i] = w[i] /\ i \in 1..Len(w) ELSE c[i] = w[i + 1] /\ i + 1 \in 1..Len(w)
  BY <1>1, CutFacts
<1>4. \A i \in 0..Len(w) : At(c, i) = IF i < p THEN At(w, i) ELSE At(w, i + 1)
  BY <1>1, CutFacts
<1>5. w[p] \in ToSet(w)
  BY <1>1 DEF ToSet
<1>6. Ks(h, c) = Cut(Ks(h, w), p)
  <2>1. DOMAIN Ks(h, w) = 1..Len(w) /\ Len(Ks(h, w)) = Len(w)
    BY <1>1 DEF Ks
  <2> HIDE DEF c
  <2>2. Ks(h, c) = [i \in 1..Len(w) - 1 |-> h[c[i]].key]
    BY <1>2 DEF Ks
  <2>3. Cut(Ks(h, w), p) = [i \in 1..Len(w) - 1 |-> IF i < p THEN Ks(h, w)[i] ELSE Ks(h, w)[i + 1]]
    BY <2>1 DEF Cut
  <2>4. \A i \in 1..Len(w) - 1 : h[c[i]].key = IF i < p THEN Ks(h, w)[i] ELSE Ks(h, w)[i + 1]
    BY <1>3 DEF Ks
  <2> QED BY <2>2, <2>3, <2>4
<1> HIDE DEF c
<1>7. ASSUME Half(h, w, p) PROVE Mirror(h, c)
  <2> SUFFICES ASSUME NEW i \in 1..Len(w) - 1 PROVE h[c[i]].prev = At(c, i - 1)
    BY <1>2 DEF Mirror
  <2>1. i - 1 \in 0..Len(w) /\ i \in 1..Len(w) /\ i + 1 \in 1..Len(w) /\ i \in Nat
    BY <1>1
  <2>2. CASE i < p
    <3>1. h[w[i]].prev = At(w, i - 1)
      BY <1>1, <1>7, <2>1, <2>2 DEF Half
    <3> QED BY <1>1, <1>3, <1>4, <2>1, <2>2, <3>1
  <2>3. CASE i = p
    <3>1. h[w[i + 1]].prev = At(w, i - 1)
      BY <1>1, <1>7, <2>1, <2>3 DEF Half
    <3> QED BY <1>1, <1>3, <1>4, <2>1, <2>3, <3>1
  <2>4. CASE i > p
    <3>1. h[w[i + 1]].prev = At(w, i)
      BY <1>1, <1>7, <2>1, <2>4 DEF Half
    <3>2. c[i] = w[i + 1] /\ At(c, i - 1) = At(w, i - 1 + 1) /\ i - 1 + 1 = i
      BY <1>1, <1>3, <1>4, <2>1, <2>4
    <3> QED BY <3>1, <3>2
  <2> QED BY <1>1, <2>1, <2>2, <2>3, <2>4
<1>8. ASSUME p = Len(w), Mirror(h, w) PROVE Half(h, w, p)
  BY <1>1, <1>8 DEF Half, Mirror
<1>9. ASSUME Distinct(h, w) PROVE Distinct(h, c)
  <2> DEFINE Old(i) == IF i < p THEN i ELSE i + 1
  <2>1. \A i \in 1..Len(c) : c[i] = w[Old(i)] /\ Old(i) \in 1..Len(w)
    BY <1>1, <1>2, <1>3
  <2>2. \A i, j \in 1..Len(c) : Old(i) = Old(j) => i = j
    BY <1>1, <1>2
  <2> HIDE DEF Old
  <2>3. \A i \in 1..Len(c) : h[c[i]].key \in Keys
    BY <1>9, <2>1 DEF Distinct
  <2>4. ASSUME NEW i \in 1..Len(c), NEW j \in 1..Len(c), h[c[i]].key = h[c[j]].key PROVE i = j
    <3>1. Old(i) \in 1..Len(w) /\ Old(j) \in 1..Len(w) /\ h[w[Old(i)]].key = h[w[Old(j)]].key
      BY <2>1, <2>4
    <3>2. Old(i) = Old(j)
      BY <1>9, <3>1 DEF Distinct
    <3> QED BY <2>2, <3>2
  <2> QED BY <2>3, <2>4 DEF Distinct
<1> QED BY <1>2, <1>5, <1>6, <1>7, <1>8, <1>9 DEF c

\* An entry linked before the first one is in front.
LEMMA ListPush ==
  ASSUME NEW h, NEW n, NEW w, List(h, n, w), NEW b \in Nodes, b \notin ToSet(w), h[b].next = n
  PROVE  /\ List(h, b, Push(b, w))
         /\ Ks(h, Push(b, w)) = Push(h[b].key, Ks(h, w))
         /\ ToSet(Push(b, w)) = ToSet(w) \cup {b} /\ Len(Push(b, w)) = Len(w) + 1
<1> DEFINE c == Push(b, w)
<1>1. w \in Seq(Nodes) /\ Len(w) \in Nat /\ DOMAIN w = 1..Len(w) /\ b \notin {w[i] : i \in 1..Len(w)}
  BY DEF List, ToSet
<1>2. /\ c \in Seq(Nodes) /\ Len(c) = Len(w) + 1 /\ c[1] = b /\ ToSet(c) = ToSet(w) \cup {b}
      /\ \A i \in 2..Len(w) + 1 : c[i] = w[i - 1]
      /\ \A i \in 1..Len(w) + 2 : At(c, i) = IF i = 1 THEN b ELSE At(w, i - 1)
  <2>1. /\ Push(b, w) \in Seq(Nodes) /\ Len(Push(b, w)) = Len(w) + 1
        /\ Push(b, w)[1] = b /\ ToSet(Push(b, w)) = ToSet(w) \cup {b}
    BY <1>1, PushFacts
  <2>2. \A i \in 2..Len(w) + 1 : Push(b, w)[i] = w[i - 1]
    BY <1>1, PushFacts
  <2>3. \A i \in 1..Len(w) + 2 : At(Push(b, w), i) = IF i = 1 THEN b ELSE At(w, i - 1)
    <3> HIDE DEF c
    <3> QED BY <1>1, <2>1, <2>2 DEF At
  <2> QED BY <2>1, <2>2, <2>3
<1>3. Ks(h, c) = Push(h[b].key, Ks(h, w))
  <2>1. Len(Ks(h, w)) = Len(w) /\ DOMAIN Ks(h, w) = 1..Len(w)
    BY <1>1 DEF Ks
  <2> HIDE DEF c
  <2>2. Ks(h, c) = [i \in 1..Len(w) + 1 |-> h[c[i]].key]
    BY <1>2 DEF Ks
  <2>3. Push(h[b].key, Ks(h, w)) = [i \in 1..Len(w) + 1 |-> IF i = 1 THEN h[b].key ELSE Ks(h, w)[i - 1]]
    BY <2>1 DEF Push
  <2>4. ASSUME NEW i \in 1..Len(w) + 1 PROVE h[c[i]].key = IF i = 1 THEN h[b].key ELSE Ks(h, w)[i - 1]
    <3>1. i # 1 => i - 1 \in 1..Len(w) /\ i \in 2..Len(w) + 1
      BY <1>1
    <3> QED BY <1>2, <3>1 DEF Ks
  <2> QED BY <2>2, <2>3, <2>4
<1> HIDE DEF c
<1>4. ASSUME NEW i \in 1..Len(c), NEW j \in 1..Len(c), c[i] = c[j] PROVE i = j
  <2>1. /\ i # 1 => i - 1 \in 1..Len(w) /\ c[i] = w[i - 1]
        /\ j # 1 => j - 1 \in 1..Len(w) /\ c[j] = w[j - 1]
    BY <1>1, <1>2
  <2>2. i # 1 /\ j # 1 => i - 1 = j - 1
    BY <1>4, <2>1 DEF List
  <2>3. \A k \in 1..Len(w) : w[k] # b
    BY <1>1
  <2>4. i = 1 <=> j = 1
    BY <1>2, <1>4, <2>1, <2>3
  <2>5. i \in Int /\ j \in Int
    OBVIOUS
  <2> QED BY <2>2, <2>4, <2>5
<1>5. ASSUME NEW i \in 1..Len(c) PROVE h[c[i]].next = At(c, i + 1)
  <2>1. CASE i = 1
    BY <1>1, <1>2, <2>1 DEF List
  <2>2. CASE i # 1
    <3>1. i - 1 \in 1..Len(w) /\ c[i] = w[i - 1] /\ i + 1 \in 1..Len(w) + 2 /\ i + 1 # 1 /\ i + 1 - 1 = i - 1 + 1
      BY <1>1, <1>2, <2>2
    <3>2. h[w[i - 1]].next = At(w, i - 1 + 1)
      BY <3>1 DEF List
    <3> QED BY <1>2, <3>1, <3>2
  <2> QED BY <2>1, <2>2
<1>6. b = At(c, 1)
  BY <1>1, <1>2
<1> QED BY <1>2, <1>3, <1>4, <1>5, <1>6 DEF List, c

LEMMA PushRest ==
  ASSUME NEW h, NEW n, NEW w, List(h, n, w), NEW b \in Nodes, b \notin ToSet(w)
  PROVE  /\ Distinct(h, w) /\ h[b].key \in Keys /\ (\A i \in 1..Len(w) : h[w[i]].key # h[b].key)
              => Distinct(h, Push(b, w))
         /\ h[b].prev = NULL /\ (\A i \in 1..Len(w) : h[w[i]].prev = IF i = 1 THEN b ELSE w[i - 1])
              => Mirror(h, Push(b, w))
<1> DEFINE c == Push(b, w)
<1>1. w \in Seq(Nodes) /\ Len(w) \in Nat
  BY DEF List
<1>2. /\ c \in Seq(Nodes) /\ Len(c) = Len(w) + 1 /\ c[1] = b
      /\ \A i \in 2..Len(w) + 1 : c[i] = w[i - 1]
  <2>1. /\ Push(b, w) \in Seq(Nodes) /\ Len(Push(b, w)) = Len(w) + 1
        /\ Push(b, w)[1] = b /\ ToSet(Push(b, w)) = ToSet(w) \cup {b}
    BY <1>1, PushFacts
  <2>2. \A i \in 2..Len(w) + 1 : Push(b, w)[i] = w[i - 1]
    BY <1>1, PushFacts
  <2> QED BY <2>1, <2>2
<1> HIDE DEF c
<1>3. \A i \in 1..Len(c) : i # 1 => i - 1 \in 1..Len(w) /\ c[i] = w[i - 1]
  BY <1>1, <1>2
<1>4. ASSUME Distinct(h, w), h[b].key \in Keys, \A i \in 1..Len(w) : h[w[i]].key # h[b].key
      PROVE  Distinct(h, c)
  <2>1. ASSUME NEW i \in 1..Len(c) PROVE h[c[i]].key \in Keys
    BY <1>2, <1>3, <1>4 DEF Distinct
  <2>2. ASSUME NEW i \in 1..Len(c), NEW j \in 1..Len(c), h[c[i]].key = h[c[j]].key PROVE i = j
    <3>1. ASSUME i # 1, j # 1 PROVE i - 1 = j - 1
      <4>1. i - 1 \in 1..Len(w) /\ j - 1 \in 1..Len(w) /\ h[w[i - 1]].key = h[w[j - 1]].key
        BY <1>3, <2>2, <3>1
      <4> QED BY <1>4, <4>1 DEF Distinct
    <3>2. i = 1 <=> j = 1
      BY <1>2, <1>3, <1>4, <2>2
    <3>3. i \in Int /\ j \in Int
      OBVIOUS
    <3> QED BY <3>1, <3>2, <3>3
  <2> QED BY <2>1, <2>2 DEF Distinct
<1>5. ASSUME h[b].prev = NULL, \A i \in 1..Len(w) : h[w[i]].prev = IF i = 1 THEN b ELSE w[i - 1]
      PROVE  Mirror(h, c)
  <2> SUFFICES ASSUME NEW i \in 1..Len(c) PROVE h[c[i]].prev = At(c, i - 1)
    BY DEF Mirror
  <2>1. CASE i = 1
    BY <1>1, <1>2, <1>5, <2>1 DEF At
  <2>2. CASE i = 2
    BY <1>1, <1>2, <1>3, <1>5, <2>2 DEF At
  <2>3. CASE i > 2
    <3>1. i - 1 \in 1..Len(w) /\ c[i] = w[i - 1] /\ i - 1 \in 1..Len(c) /\ i - 1 # 1 /\ c[i - 1] = w[i - 1 - 1]
      BY <1>1, <1>2, <1>3, <2>3
    <3> QED BY <1>5, <3>1 DEF At
  <2> QED BY <1>1, <1>2, <2>1, <2>2, <2>3
<1> QED BY <1>4, <1>5 DEF c

-----------------------------------------------------------------------------
(* Taking keys out of a sequence of keys *)

LEMMA ThinnedSame ==
  ASSUME NEW S, NEW s \in Seq(S)
  PROVE  Cache!Thinned(s, s, {}) /\ Cache!Keyset(s) = ToSet(s)
BY DEF Cache!Thinned, Cache!Keyset, ToSet

LEMMA ThinnedCut ==
  ASSUME NEW S, NEW s \in Seq(S), NEW t \in Seq(S), NEW D, Cache!Thinned(t, s, D), NEW p \in 1..Len(t),
         \A i, j \in 1..Len(t) : t[i] = t[j] => i = j
  PROVE  Cache!Thinned(Cut(t, p), s, D \cup {t[p]})
<1> DEFINE c == Cut(t, p)
           Old(i) == IF i < p THEN i ELSE i + 1
<1>1. Len(t) \in Nat /\ DOMAIN t = 1..Len(t) /\ DOMAIN c = 1..Len(t) - 1 /\ p \in Nat
  BY CutFacts
<1>2. \A i \in 1..Len(t) - 1 : c[i] = t[Old(i)] /\ Old(i) \in DOMAIN t
  <2>1. \A i \in 1..Len(t) - 1 :
          IF i < p THEN c[i] = t[i] /\ i \in 1..Len(t) ELSE c[i] = t[i + 1] /\ i + 1 \in 1..Len(t)
    BY CutFacts, Zenon
  <2> HIDE DEF c
  <2> QED BY <1>1, <2>1
<1>3. \A i, j \in 1..Len(t) - 1 : i < j => Old(i) < Old(j)
  BY <1>1
<1>4. ToSet(c) = ToSet(t) \ {t[p]}
  BY CutSet
<1> HIDE DEF c, Old
<1>5. Cache!Keyset(c) = Cache!Keyset(t) \ {t[p]}
  BY <1>4 DEF Cache!Keyset, ToSet
<1>6. Cache!Keyset(c) = Cache!Keyset(s) \ (D \cup {t[p]})
  BY <1>5 DEF Cache!Thinned
<1>7. ASSUME NEW i \in DOMAIN c, NEW j \in DOMAIN c, i < j
      PROVE  \E a, b \in DOMAIN s : a < b /\ s[a] = c[i] /\ s[b] = c[j]
  <2>1. Old(i) \in DOMAIN t /\ Old(j) \in DOMAIN t /\ Old(i) < Old(j) /\ c[i] = t[Old(i)] /\ c[j] = t[Old(j)]
    BY <1>1, <1>2, <1>3, <1>7
  <2> QED BY <2>1 DEF Cache!Thinned
<1> QED BY <1>6, <1>7 DEF Cache!Thinned, c

-----------------------------------------------------------------------------
(* The inductive invariant *)

Kinds == {"none", "update", "del", "expire", "call"}

OpType == [pc : Pcs, kind : Kinds, keys : SUBSET Keys, bp : Nodes \cup {NULL}, was : Seq(Keys)]

Typing ==
  /\ heap \in HeapType /\ live \in SUBSET Nodes /\ head \in Nodes \cup {NULL}
  /\ cnt \in Nat /\ maxroutes \in Sizes /\ op \in OpType

\* The entry in hand is one of the list's, about to be skipped by it, or none.
Held(w) == live = ToSet(w) /\ cnt = Len(w)
Within(w) == \E p \in 1..Len(w) : op.bp = w[p] /\ Half(heap, w, p)
Out(w) == op.bp \in Nodes \ ToSet(w) /\ live = ToSet(w) \cup {op.bp} /\ cnt = Len(w) + 1

InKeys == heap[op.bp].key \in op.keys
NewKey(w) == InKeys /\ \A i \in 1..Len(w) : heap[w[i]].key # heap[op.bp].key

Resting == {"idle", "crashed", "unlink_next", "cut_tail", "malloc", "remove_next", "read_next"}
Linking == {"link_next", "link_prev", "link_back", "link_head"}
Removing == {"remove_next", "remove_prev", "remove_head", "remove_free", "read_next"}
FirstPcs == {"first_prev", "first_next"}

Shape(w) ==
  /\ List(heap, head, w) /\ Distinct(heap, w)
  /\ op.pc \in Resting => Mirror(heap, w) /\ Held(w)
  /\ op.pc \in {"unlink_next", "remove_next"} => op.bp \in ToSet(w) /\ InKeys
  /\ op.pc \in {"unlink_prev", "remove_prev"} => Held(w) /\ Within(w) /\ InKeys
  /\ op.pc \in {"unlink_next", "unlink_prev"} => op.bp # head
  /\ op.pc = "remove_head" =>
       \/ op.bp = head /\ Held(w) /\ Within(w) /\ InKeys
       \/ op.bp # head /\ Out(w) /\ Mirror(heap, w) /\ heap[op.bp].next \in ToSet(w) \cup {NULL}
  /\ op.pc = "remove_free" => Out(w) /\ Mirror(heap, w) /\ heap[op.bp].next \in ToSet(w) \cup {NULL}
  /\ op.pc = "read_next" => op.bp \in Nodes /\ heap[op.bp].next \in ToSet(w) \cup {NULL, Wild}
  /\ op.pc \in Linking => w # <<>> /\ Out(w) /\ NewKey(w)
  /\ op.pc \in Linking \ {"link_head"} => Mirror(heap, w)
  /\ op.pc \in Linking \ {"link_next"} => heap[op.bp].next = head
  /\ op.pc \in {"link_back", "link_head"} => heap[op.bp].prev = NULL
  /\ op.pc = "link_head" =>
       \A i \in 1..Len(w) : heap[w[i]].prev = IF i = 1 THEN op.bp ELSE w[i - 1]
  /\ op.pc = "cut_tail" => w # <<>> /\ op.bp = w[Len(w)]
  /\ op.pc = "free_tail" => Mirror(heap, w) /\ Out(w)
  /\ op.pc = "count_tail" => Mirror(heap, w) /\ live = ToSet(w) /\ cnt = Len(w) + 1
  /\ op.pc = "first_head" => w = <<>> /\ Out(w) /\ InKeys

\* What is known of the keys in the list when the function was called.
Full == op.was # <<>> /\ Len(op.was) >= maxroutes
Entering ==
  /\ op.kind = "update" /\ \E k \in Keys : op.keys = {k} /\ k \notin ToSet(op.was)
  /\ ~(op.was = <<>> /\ maxroutes = 0)
Moving == op.kind = "update" /\ \E k \in ToSet(op.was) : op.keys = {k}

History(ks) ==
  /\ op.pc \in {"unlink_next", "unlink_prev"} => ks = op.was /\ Moving
  /\ op.pc = "cut_tail" => ks = op.was /\ Full /\ Entering
  /\ op.pc \in {"free_tail", "count_tail"} => ks = Cut(op.was, Len(op.was)) /\ Full /\ Entering
  /\ op.pc \in {"malloc", "first_head"} => ks = Cache!Room(op.was) /\ Entering
  /\ op.pc \in Linking => \/ Moving /\ Cache!Thinned(ks, op.was, op.keys)
                          \/ Entering /\ ks = Cache!Room(op.was)
  /\ op.pc \in Removing => /\ op.kind \in {"del", "expire", "call"}
                           /\ \E D \in SUBSET op.keys : Cache!Thinned(ks, op.was, D)

\* The first entry of an empty list is linked before its pointers are set.
First ==
  /\ op.bp \in Nodes /\ head = op.bp /\ live = {op.bp} /\ cnt = 1 /\ InKeys
  /\ op.pc = "first_next" => heap[op.bp].prev = NULL
  /\ Entering /\ Cache!Room(op.was) = <<>>

Inv ==
  /\ Typing
  /\ IF op.pc \in FirstPcs THEN First ELSE \E w : Shape(w) /\ History(Ks(heap, w))

-----------------------------------------------------------------------------
(* Steps *)

LEMMA GotoFacts ==
  ASSUME op \in OpType, NEW pc \in Pcs, Goto(pc)
  PROVE  /\ op' \in OpType /\ op'.pc = pc /\ op'.kind = op.kind /\ op'.keys = op.keys
         /\ op'.bp = op.bp /\ op'.was = op.was
BY DEF Goto, OpType

LEMMA GotoWithFacts ==
  ASSUME op \in OpType, NEW pc \in Pcs, NEW bp \in Nodes \cup {NULL}, GotoWith(pc, bp)
  PROVE  /\ op' \in OpType /\ op'.pc = pc /\ op'.kind = op.kind /\ op'.keys = op.keys
         /\ op'.bp = bp /\ op'.was = op.was
BY DEF GotoWith, OpType

LEMMA ReturnFacts ==
  ASSUME Return
  PROVE  op' \in OpType /\ op'.pc = "idle"
BY DEF Return, Idle, OpType, Pcs, Kinds

\* The members of a list by their places.
LEMMA Members ==
  ASSUME NEW h, NEW n, NEW w, List(h, n, w)
  PROVE  /\ w \in Seq(Nodes) /\ Len(w) \in Nat /\ DOMAIN w = 1..Len(w)
         /\ \A i \in 1..Len(w) : w[i] \in Nodes /\ w[i] \in ToSet(w)
         /\ \A x \in ToSet(w) : \E i \in 1..Len(w) : x = w[i]
         /\ ToSet(w) \in SUBSET Nodes
         /\ n = NULL <=> w = <<>>
         /\ n # NULL => Len(w) >= 1 /\ n = w[1]
<1>1. w \in Seq(Nodes) /\ Len(w) \in Nat /\ DOMAIN w = 1..Len(w)
  BY DEF List
<1>2. \A i \in 1..Len(w) : w[i] \in Nodes
  BY <1>1
<1>3. ToSet(w) = {w[i] : i \in 1..Len(w)}
  BY <1>1 DEF ToSet
<1>4. CASE Len(w) = 0
  <2>1. w = <<>>
    BY <1>1, <1>4
  <2>2. n = NULL
    BY <1>4 DEF List, At
  <2> QED BY <1>1, <1>2, <1>3, <2>1, <2>2
<1>5. CASE Len(w) >= 1
  <2>1. n = w[1] /\ w[1] \in Nodes
    BY <1>1, <1>2, <1>5 DEF List, At
  <2>2. w # <<>> /\ n # NULL
    BY <1>5, <2>1, ListConstants
  <2> QED BY <1>1, <1>2, <1>3, <1>5, <2>1, <2>2
<1> QED BY <1>1, <1>4, <1>5

\* Between two calls a whole list is all that is asked for.
LEMMA Done ==
  ASSUME Typing', op'.pc \in {"idle", "crashed"}, NEW w, List(heap', head', w), Distinct(heap', w),
         Mirror(heap', w), live' = ToSet(w), cnt' = Len(w)
  PROVE  Inv'
<1>1. Shape(w)'
  BY DEF Shape, Held, Linking
<1>2. History(Ks(heap, w))'
  BY DEF History, Linking, Removing
<1> QED BY <1>1, <1>2 DEF Inv, FirstPcs

\* bp->next = ip_routes
LEMMA LinkNextStep ==
  ASSUME Inv, LinkNext
  PROVE  Inv'
<1> USE DEF LinkNext
<1>1. Typing /\ op.bp \in Nodes \cup {NULL} /\ op \in OpType
  BY DEF Inv, Typing, OpType
<1>2. PICK w : Shape(w) /\ History(Ks(heap, w))
  BY DEF Inv, FirstPcs
<1>3. List(heap, head, w) /\ Distinct(heap, w) /\ Mirror(heap, w) /\ w # <<>> /\ Out(w) /\ NewKey(w)
  BY <1>2 DEF Shape, Linking
<1>4. op' \in OpType /\ op'.pc = "link_prev" /\ op'.kind = op.kind /\ op'.keys = op.keys
      /\ op'.bp = op.bp /\ op'.was = op.was
  BY <1>1, GotoFacts DEF Pcs
<1>5. op.bp \in Nodes /\ op.bp \notin ToSet(w)
  BY <1>3 DEF Out
<1>6. /\ heap' \in HeapType
      /\ \A m \in Nodes : /\ heap'[m].next = IF m = op.bp THEN head ELSE heap[m].next
                          /\ heap'[m].prev = heap[m].prev /\ heap'[m].key = heap[m].key
  BY <1>1, <1>5, SetNext DEF Typing
<1>7. \A i \in 1..Len(w) : w[i] \in Nodes /\ w[i] # op.bp
  BY <1>3, <1>5, Members
<1>8. List(heap', head, w) /\ Mirror(heap', w) /\ Distinct(heap', w) /\ Ks(heap', w) = Ks(heap, w)
  BY <1>3, <1>5, <1>6, OffList
<1>9. NewKey(w)' /\ Out(w)'
  BY <1>3, <1>4, <1>5, <1>6, <1>7 DEF NewKey, InKeys, Out
<1>10. Shape(w)'
  BY <1>3, <1>4, <1>5, <1>6, <1>8, <1>9 DEF Shape, Linking, Resting
<1>11. History(Ks(heap, w))'
  BY <1>2, <1>4, <1>8 DEF History, Linking, Removing, Moving, Entering, Cache!Room, Cache!Thinned
<1>12. Typing'
  BY <1>1, <1>4, <1>6 DEF Typing
<1> QED BY <1>4, <1>10, <1>11, <1>12 DEF Inv, FirstPcs

\* bp->prev = NULL
LEMMA LinkPrevStep ==
  ASSUME Inv, LinkPrev
  PROVE  Inv'
<1> USE DEF LinkPrev
<1>1. Typing /\ op \in OpType
  BY DEF Inv, Typing
<1>2. PICK w : Shape(w) /\ History(Ks(heap, w))
  BY DEF Inv, FirstPcs
<1>3. List(heap, head, w) /\ Distinct(heap, w) /\ Mirror(heap, w) /\ w # <<>> /\ Out(w) /\ NewKey(w)
      /\ heap[op.bp].next = head
  BY <1>2 DEF Shape, Linking
<1>4. op' \in OpType /\ op'.pc = "link_back" /\ op'.kind = op.kind /\ op'.keys = op.keys
      /\ op'.bp = op.bp /\ op'.was = op.was
  BY <1>1, GotoFacts DEF Pcs
<1>5. op.bp \in Nodes /\ op.bp \notin ToSet(w)
  BY <1>3 DEF Out
<1>6. /\ heap' \in HeapType
      /\ \A m \in Nodes : /\ heap'[m].prev = IF m = op.bp THEN NULL ELSE heap[m].prev
                          /\ heap'[m].next = heap[m].next /\ heap'[m].key = heap[m].key
  BY <1>1, <1>5, SetPrev DEF Typing
<1>7. \A i \in 1..Len(w) : w[i] \in Nodes /\ w[i] # op.bp
  BY <1>3, <1>5, Members
<1>8. List(heap', head, w) /\ Mirror(heap', w) /\ Distinct(heap', w) /\ Ks(heap', w) = Ks(heap, w)
  BY <1>3, <1>5, <1>6, OffList
<1>9. NewKey(w)' /\ Out(w)' /\ heap'[op.bp].next = head /\ heap'[op.bp].prev = NULL
  BY <1>3, <1>4, <1>5, <1>6, <1>7 DEF NewKey, InKeys, Out
<1>10. Shape(w)'
  BY <1>3, <1>4, <1>8, <1>9 DEF Shape, Linking, Resting
<1>11. History(Ks(heap, w))'
  BY <1>2, <1>4, <1>8 DEF History, Linking, Removing, Moving, Entering, Cache!Room, Cache!Thinned
<1>12. Typing'
  BY <1>1, <1>4, <1>6 DEF Typing
<1> QED BY <1>4, <1>10, <1>11, <1>12 DEF Inv, FirstPcs

\* ip_routes->prev = bp
LEMMA LinkBackStep ==
  ASSUME Inv, LinkBack
  PROVE  Inv'
<1> USE DEF LinkBack
<1>1. Typing /\ op \in OpType
  BY DEF Inv, Typing
<1>2. PICK w : Shape(w) /\ History(Ks(heap, w))
  BY DEF Inv, FirstPcs
<1>3. List(heap, head, w) /\ Distinct(heap, w) /\ Mirror(heap, w) /\ w # <<>> /\ Out(w) /\ NewKey(w)
      /\ heap[op.bp].next = head /\ heap[op.bp].prev = NULL
  BY <1>2 DEF Shape, Linking
<1>4. op' \in OpType /\ op'.pc = "link_head" /\ op'.kind = op.kind /\ op'.keys = op.keys
      /\ op'.bp = op.bp /\ op'.was = op.was
  BY <1>1, GotoFacts DEF Pcs
<1>5. op.bp \in Nodes /\ op.bp \notin ToSet(w)
  BY <1>3 DEF Out
<1>6. Len(w) \in Nat /\ Len(w) >= 1 /\ head = w[1] /\ \A i \in 1..Len(w) : w[i] \in Nodes /\ w[i] # op.bp
  BY <1>3, <1>5, Members
<1>7. head \in Nodes /\ head # op.bp
  BY <1>6
<1>8. /\ heap' \in HeapType
      /\ \A m \in Nodes : /\ heap'[m].prev = IF m = head THEN op.bp ELSE heap[m].prev
                          /\ heap'[m].next = heap[m].next /\ heap'[m].key = heap[m].key
  BY <1>1, <1>5, <1>7, SetPrev DEF Typing
<1>9. List(heap', head, w)
  <2>1. \A m \in ToSet(w) : heap'[m].next = heap[m].next
    BY <1>3, <1>8, Members
  <2> QED BY <1>3, <2>1, FrameNext
<1>10. Distinct(heap', w) /\ Ks(heap', w) = Ks(heap, w)
  BY <1>3, <1>8, FrameKey
<1>11. ASSUME NEW i \in 1..Len(w) PROVE heap'[w[i]].prev = IF i = 1 THEN op.bp ELSE w[i - 1]
  <2>1. CASE i = 1
    BY <1>6, <1>8, <2>1
  <2>2. CASE i # 1
    <3>1. w[i] # head /\ i - 1 \in 1..Len(w)
      BY <1>3, <1>6, <2>2 DEF List
    <3>2. heap[w[i]].prev = w[i - 1]
      BY <1>3, <3>1 DEF Mirror, At
    <3> QED BY <1>6, <1>8, <2>2, <3>1, <3>2
  <2> QED BY <2>1, <2>2
<1>12. NewKey(w)' /\ Out(w)' /\ heap'[op.bp].next = head /\ heap'[op.bp].prev = NULL
  BY <1>3, <1>4, <1>5, <1>6, <1>7, <1>8 DEF NewKey, InKeys, Out
<1>13. Shape(w)'
  BY <1>3, <1>4, <1>9, <1>10, <1>11, <1>12 DEF Shape, Linking, Resting
<1>14. History(Ks(heap, w))'
  BY <1>2, <1>4, <1>10 DEF History, Linking, Removing, Moving, Entering, Cache!Room, Cache!Thinned
<1>15. Typing'
  BY <1>1, <1>4, <1>8 DEF Typing
<1> QED BY <1>4, <1>13, <1>14, <1>15 DEF Inv, FirstPcs

\* ip_routes = bp: the entry is in front, and the keys are those of a cache
\* in which its key was touched.
LEMMA LinkHeadStep ==
  ASSUME Inv, LinkHead
  PROVE  /\ Inv'
         /\ \E k \in Keys, ks \in Seq(Keys) :
              /\ KeysOf(Walk(head))' = Push(k, ks)
              /\ \/ k \in ToSet(op.was) /\ Cache!Thinned(ks, op.was, {k})
                 \/ k \notin ToSet(op.was) /\ ks = Cache!Room(op.was) /\ ~(op.was = <<>> /\ maxroutes = 0)
<1> USE DEF LinkHead
<1>1. Typing /\ op \in OpType /\ op.was \in Seq(Keys)
  BY DEF Inv, Typing, OpType
<1>2. PICK w : Shape(w) /\ History(Ks(heap, w))
  BY DEF Inv, FirstPcs
<1>3. List(heap, head, w) /\ Distinct(heap, w) /\ w # <<>> /\ Out(w) /\ NewKey(w)
      /\ heap[op.bp].next = head /\ heap[op.bp].prev = NULL
      /\ \A i \in 1..Len(w) : heap[w[i]].prev = IF i = 1 THEN op.bp ELSE w[i - 1]
  BY <1>2 DEF Shape, Linking
<1>4. op' \in OpType /\ op'.pc = "idle" /\ heap' = heap
  BY ReturnFacts
<1>5. op.bp \in Nodes /\ op.bp \notin ToSet(w) /\ head' = op.bp
  BY <1>3 DEF Out
<1> DEFINE c == Push(op.bp, w)
<1>6. /\ List(heap, op.bp, c)
      /\ Ks(heap, c) = Push(heap[op.bp].key, Ks(heap, w))
      /\ ToSet(c) = ToSet(w) \cup {op.bp} /\ Len(c) = Len(w) + 1
  BY <1>3, <1>5, ListPush
<1>7. heap[op.bp].key \in Keys
  BY <1>1, <1>3 DEF NewKey, InKeys, OpType
<1>8. Distinct(heap, c) /\ Mirror(heap, c)
  BY <1>3, <1>5, <1>7, PushRest DEF NewKey
<1> HIDE DEF c
<1>9. live' = ToSet(c) /\ cnt' = Len(c)
  BY <1>3, <1>6 DEF Out
<1>11. Typing'
  BY <1>1, <1>4, <1>5 DEF Typing
<1>12. KeysOf(Walk(head))' = Push(heap[op.bp].key, Ks(heap, w))
  <2>1. KeysOf(Walk(op.bp)) = Ks(heap, c)
    BY <1>6, WalkIs
  <2>2. KeysOf(Walk(head))' = KeysOf(Walk(op.bp))
    BY <1>4, <1>5 DEF KeysOf, Walk, Chain
  <2> QED BY <1>6, <2>1, <2>2
<1>13. Ks(heap, w) \in Seq(Keys)
  BY <1>3, Members DEF Ks, Distinct
<1>14. \/ Moving /\ Cache!Thinned(Ks(heap, w), op.was, op.keys)
       \/ Entering /\ Ks(heap, w) = Cache!Room(op.was)
  BY <1>2 DEF History, Linking
<1>15. \A k : op.keys = {k} => k = heap[op.bp].key
  BY <1>3 DEF NewKey, InKeys
<1>16. \/ heap[op.bp].key \in ToSet(op.was) /\ Cache!Thinned(Ks(heap, w), op.was, {heap[op.bp].key})
       \/ /\ heap[op.bp].key \notin ToSet(op.was) /\ Ks(heap, w) = Cache!Room(op.was)
          /\ ~(op.was = <<>> /\ maxroutes = 0)
  <2>1. CASE Moving /\ Cache!Thinned(Ks(heap, w), op.was, op.keys)
    <3>1. PICK k \in ToSet(op.was) : op.keys = {k}
      BY <2>1 DEF Moving
    <3> QED BY <1>15, <2>1, <3>1
  <2>2. CASE Entering /\ Ks(heap, w) = Cache!Room(op.was)
    BY <1>15, <2>2 DEF Entering
  <2> QED BY <1>14, <2>1, <2>2
<1>17. Inv'
  <2>1. List(heap', head', c) /\ Distinct(heap', c) /\ Mirror(heap', c)
    BY <1>4, <1>5, <1>6, <1>8
  <2> QED BY <1>4, <1>9, <1>11, <2>1, Done
<1> QED BY <1>7, <1>12, <1>13, <1>16, <1>17

\* if (bp->next) bp->next->prev = bp->prev
LEMMA SkipBack ==
  ASSUME heap \in HeapType, NEW w, List(heap, head, w), Mirror(heap, w), NEW p \in 1..Len(w),
         SetIf(heap[w[p]].next, "prev", heap[w[p]].prev)
  PROVE  /\ heap' \in HeapType /\ List(heap', head, w) /\ Half(heap', w, p)
         /\ \A m \in Nodes : heap'[m].key = heap[m].key
<1>1. /\ Len(w) \in Nat /\ \A i \in 1..Len(w) : w[i] \in Nodes
      /\ \A i, j \in 1..Len(w) : w[i] = w[j] => i = j
  BY Members DEF List
<1>2. heap[w[p]].next = At(w, p + 1) /\ heap[w[p]].prev = At(w, p - 1)
  BY DEF List, Mirror
<1>3. At(w, p - 1) \in Nodes \cup {NULL}
  BY <1>1 DEF At
<1>4. CASE p = Len(w)
  <2>1. heap' = heap
    BY <1>1, <1>2, <1>4, ListConstants DEF SetIf, At
  <2>2. Half(heap, w, p)
    BY <1>1, <1>4 DEF Half, Mirror
  <2> QED BY <2>1, <2>2
<1>5. CASE p # Len(w)
  <2>1. p + 1 \in 1..Len(w) /\ At(w, p + 1) = w[p + 1] /\ w[p + 1] \in Nodes
    BY <1>1, <1>5 DEF At
  <2>2. Set(w[p + 1], "prev", At(w, p - 1))
    BY <1>2, <2>1 DEF SetIf
  <2>3. /\ heap' \in HeapType
        /\ \A m \in Nodes : /\ heap'[m].prev = IF m = w[p + 1] THEN At(w, p - 1) ELSE heap[m].prev
                            /\ heap'[m].next = heap[m].next /\ heap'[m].key = heap[m].key
    BY <1>3, <2>1, <2>2, SetPrev
  <2>4. List(heap', head, w)
    BY <2>3, FrameNext, Members
  <2>5. \A i \in 1..Len(w) : heap'[w[i]].prev = At(w, IF i = p + 1 THEN p - 1 ELSE i - 1)
    BY <1>1, <2>1, <2>3 DEF Mirror
  <2> QED BY <2>3, <2>4, <2>5 DEF Half
<1> QED BY <1>4, <1>5

\* if (bp->prev) bp->prev->next = bp->next
LEMMA SkipForth ==
  ASSUME heap \in HeapType, NEW w, List(heap, head, w), Distinct(heap, w), NEW p \in 1..Len(w), Half(heap, w, p),
         SetIf(heap[w[p]].prev, "next", heap[w[p]].next)
  PROVE  /\ p = 1 => heap' = heap
         /\ p > 1 => /\ List(heap', head, Cut(w, p)) /\ Mirror(heap', Cut(w, p)) /\ Distinct(heap', Cut(w, p))
                     /\ Ks(heap', Cut(w, p)) = Cut(Ks(heap, w), p)
                     /\ heap'[w[p]].next \in ToSet(Cut(w, p)) \cup {NULL}
         /\ heap' \in HeapType
         /\ \A m \in Nodes : heap'[m].key = heap[m].key
<1>1. /\ Len(w) \in Nat /\ \A i \in 1..Len(w) : w[i] \in Nodes /\ w[i] \in ToSet(w)
      /\ \A i, j \in 1..Len(w) : w[i] = w[j] => i = j
  BY Members DEF List
<1>2. heap[w[p]].next = At(w, p + 1) /\ heap[w[p]].prev = At(w, p - 1) /\ p \in Nat /\ 1 <= p /\ p <= Len(w)
  BY <1>1 DEF List, Half
<1>3. CASE p = 1
  <2>1. At(w, p - 1) = NULL
    BY <1>3 DEF At
  <2> QED BY <1>2, <1>3, <2>1, ListConstants DEF SetIf
<1>4. CASE p > 1
  <2>1. p - 1 \in 1..Len(w) /\ At(w, p - 1) = w[p - 1] /\ w[p - 1] \in Nodes /\ w[p - 1] # w[p]
    BY <1>1, <1>2, <1>4 DEF At
  <2>2. At(w, p + 1) \in Nodes \cup {NULL}
    BY <1>1 DEF At
  <2>3. Set(w[p - 1], "next", At(w, p + 1))
    BY <1>2, <2>1 DEF SetIf
  <2>4. /\ heap' \in HeapType
        /\ \A m \in Nodes : /\ heap'[m].next = IF m = w[p - 1] THEN At(w, p + 1) ELSE heap[m].next
                            /\ heap'[m].prev = heap[m].prev /\ heap'[m].key = heap[m].key
    BY <2>1, <2>2, <2>3, SetNext
  <2>5. List(heap', head, Cut(w, p))
    <3>1. \A i \in 1..Len(w) : i + 1 # p => heap'[w[i]].next = heap[w[i]].next
      BY <1>1, <1>2, <2>1, <2>4
    <3>2. p > 1 => heap'[w[p - 1]].next = At(w, p + 1)
      BY <2>1, <2>4
    <3>3. List(heap', IF p = 1 THEN At(w, 2) ELSE head, Cut(w, p))
      BY <3>1, <3>2, ListCut
    <3> QED BY <1>2, <1>4, <3>3
  <2>6. /\ Mirror(heap, Cut(w, p)) /\ Distinct(heap, Cut(w, p)) /\ Ks(heap, Cut(w, p)) = Cut(Ks(heap, w), p)
        /\ ToSet(Cut(w, p)) = ToSet(w) \ {w[p]}
    BY CutRest
  <2>7. Mirror(heap', Cut(w, p))
    <3>1. \A i \in 1..Len(Cut(w, p)) : Cut(w, p)[i] \in Nodes
      BY <2>5, Members
    <3> QED BY <2>4, <2>6, <3>1 DEF Mirror
  <2>8. Distinct(heap', Cut(w, p)) /\ Ks(heap', Cut(w, p)) = Cut(Ks(heap, w), p)
    BY <2>4, <2>5, <2>6, SameKeys, Members
  <2>9. heap'[w[p]].next \in ToSet(Cut(w, p)) \cup {NULL}
    <3>1. heap'[w[p]].next = At(w, p + 1)
      BY <1>1, <1>2, <2>1, <2>4
    <3>2. CASE p = Len(w)
      BY <1>1, <3>1, <3>2 DEF At
    <3>3. CASE p # Len(w)
      <4>1. p + 1 \in 1..Len(w) /\ At(w, p + 1) = w[p + 1] /\ w[p + 1] # w[p] /\ w[p + 1] \in ToSet(w)
        BY <1>1, <1>2, <3>3 DEF At
      <4> QED BY <2>6, <3>1, <4>1
    <3> QED BY <3>2, <3>3
  <2> QED BY <1>2, <1>4, <2>4, <2>5, <2>7, <2>8, <2>9
<1> QED BY <1>2, <1>3, <1>4

LEMMA UnlinkNextStep ==
  ASSUME Inv, UnlinkNext
  PROVE  Inv'
<1> USE DEF UnlinkNext
<1>1. Typing /\ op \in OpType
  BY DEF Inv, Typing
<1>2. PICK w : Shape(w) /\ History(Ks(heap, w))
  BY DEF Inv, FirstPcs
<1>3. List(heap, head, w) /\ Distinct(heap, w) /\ Mirror(heap, w) /\ Held(w) /\ op.bp \in ToSet(w)
      /\ InKeys /\ op.bp # head
  BY <1>2 DEF Shape, Resting
<1>4. op' \in OpType /\ op'.pc = "unlink_prev" /\ op'.kind = op.kind /\ op'.keys = op.keys
      /\ op'.bp = op.bp /\ op'.was = op.was
  BY <1>1, GotoFacts DEF Pcs
<1>5. PICK p \in 1..Len(w) : op.bp = w[p]
  BY <1>3, Members
<1>6. /\ heap' \in HeapType /\ List(heap', head, w) /\ Half(heap', w, p)
      /\ \A m \in Nodes : heap'[m].key = heap[m].key
  BY <1>1, <1>3, <1>5, SkipBack DEF Typing
<1>7. Distinct(heap', w) /\ Ks(heap', w) = Ks(heap, w)
  BY <1>3, <1>6, FrameKey
<1>8. Held(w)' /\ Within(w)' /\ InKeys'
  <2>1. w[p] \in Nodes
    BY <1>3, Members
  <2> QED BY <1>3, <1>4, <1>5, <1>6, <2>1 DEF Held, Within, InKeys
<1>9. Shape(w)'
  BY <1>3, <1>4, <1>6, <1>7, <1>8 DEF Shape, Linking, Resting
<1>10. History(Ks(heap, w))'
  BY <1>2, <1>4, <1>7 DEF History, Linking, Removing, Moving
<1>11. Typing'
  BY <1>1, <1>4, <1>6 DEF Typing
<1> QED BY <1>4, <1>9, <1>10, <1>11 DEF Inv, FirstPcs

LEMMA RemoveNextStep ==
  ASSUME Inv, RemoveNext
  PROVE  Inv'
<1> USE DEF RemoveNext
<1>1. Typing /\ op \in OpType
  BY DEF Inv, Typing
<1>2. PICK w : Shape(w) /\ History(Ks(heap, w))
  BY DEF Inv, FirstPcs
<1>3. List(heap, head, w) /\ Distinct(heap, w) /\ Mirror(heap, w) /\ Held(w) /\ op.bp \in ToSet(w) /\ InKeys
  BY <1>2 DEF Shape, Resting
<1>4. op' \in OpType /\ op'.pc = "remove_prev" /\ op'.kind = op.kind /\ op'.keys = op.keys
      /\ op'.bp = op.bp /\ op'.was = op.was
  BY <1>1, GotoFacts DEF Pcs
<1>5. PICK p \in 1..Len(w) : op.bp = w[p]
  BY <1>3, Members
<1>6. /\ heap' \in HeapType /\ List(heap', head, w) /\ Half(heap', w, p)
      /\ \A m \in Nodes : heap'[m].key = heap[m].key
  BY <1>1, <1>3, <1>5, SkipBack DEF Typing
<1>7. Distinct(heap', w) /\ Ks(heap', w) = Ks(heap, w)
  BY <1>3, <1>6, FrameKey
<1>8. Held(w)' /\ Within(w)' /\ InKeys'
  <2>1. w[p] \in Nodes
    BY <1>3, Members
  <2> QED BY <1>3, <1>4, <1>5, <1>6, <2>1 DEF Held, Within, InKeys
<1>9. Shape(w)'
  BY <1>3, <1>4, <1>6, <1>7, <1>8 DEF Shape, Linking, Resting
<1>10. History(Ks(heap, w))'
  BY <1>2, <1>4, <1>7 DEF History, Linking, Removing
<1>11. Typing'
  BY <1>1, <1>4, <1>6 DEF Typing
<1> QED BY <1>4, <1>9, <1>10, <1>11 DEF Inv, FirstPcs

\* The keys along a list are distinct, and those left when an entry has gone
\* are not its key.
LEMMA KeysApart ==
  ASSUME NEW h, NEW n, NEW w, List(h, n, w), Distinct(h, w)
  PROVE  /\ Ks(h, w) \in Seq(Keys) /\ Len(Ks(h, w)) = Len(w) /\ DOMAIN Ks(h, w) = 1..Len(w)
         /\ \A i, j \in 1..Len(w) : Ks(h, w)[i] = Ks(h, w)[j] => i = j
         /\ \A i \in 1..Len(w) : Ks(h, w)[i] = h[w[i]].key
         /\ \A p \in 1..Len(w) : \A i \in 1..Len(Cut(w, p)) : h[Cut(w, p)[i]].key # h[w[p]].key
<1>1. w \in Seq(Nodes) /\ Len(w) \in Nat /\ DOMAIN w = 1..Len(w)
  BY Members
<1>2. Ks(h, w) \in Seq(Keys) /\ Len(Ks(h, w)) = Len(w) /\ DOMAIN Ks(h, w) = 1..Len(w)
      /\ \A i \in 1..Len(w) : Ks(h, w)[i] = h[w[i]].key
  BY <1>1 DEF Ks, Distinct
<1>3. \A i, j \in 1..Len(w) : Ks(h, w)[i] = Ks(h, w)[j] => i = j
  BY <1>2 DEF Distinct
<1>4. ASSUME NEW p \in 1..Len(w), NEW i \in 1..Len(Cut(w, p)) PROVE h[Cut(w, p)[i]].key # h[w[p]].key
  <2>1. Cut(w, p)[i] \in ToSet(Cut(w, p))
    <3>1. DOMAIN Cut(w, p) = 1..Len(Cut(w, p))
      BY <1>1, CutFacts
    <3> QED BY <3>1 DEF ToSet
  <2>2. Cut(w, p)[i] \in ToSet(w) /\ Cut(w, p)[i] # w[p]
    BY <2>1, CutRest
  <2>3. PICK j \in 1..Len(w) : Cut(w, p)[i] = w[j]
    BY <2>2, Members
  <2> QED BY <2>2, <2>3 DEF Distinct
<1> QED BY <1>2, <1>3, <1>4

LEMMA UnlinkPrevStep ==
  ASSUME Inv, UnlinkPrev
  PROVE  Inv'
<1> USE DEF UnlinkPrev
<1>1. Typing /\ op \in OpType
  BY DEF Inv, Typing
<1>2. PICK w : Shape(w) /\ History(Ks(heap, w))
  BY DEF Inv, FirstPcs
<1>3. List(heap, head, w) /\ Distinct(heap, w) /\ Held(w) /\ Within(w) /\ InKeys /\ op.bp # head
  BY <1>2 DEF Shape
<1>4. op' \in OpType /\ op'.pc = "link_next" /\ op'.kind = op.kind /\ op'.keys = op.keys
      /\ op'.bp = op.bp /\ op'.was = op.was
  BY <1>1, GotoFacts DEF Pcs
<1>5. PICK p \in 1..Len(w) : op.bp = w[p] /\ Half(heap, w, p)
  BY <1>3 DEF Within
<1>6. Len(w) \in Nat /\ p > 1 /\ p <= Len(w) /\ w[p] \in Nodes /\ w[p] \in ToSet(w) /\ w \in Seq(Nodes)
  <2>1. Len(w) \in Nat /\ w[p] \in Nodes /\ w[p] \in ToSet(w) /\ w \in Seq(Nodes)
    BY <1>3, Members
  <2>2. p # 1
    BY <1>3, <1>5, <2>1 DEF List, At
  <2> QED BY <2>1, <2>2
<1> DEFINE c == Cut(w, p)
<1>7. /\ List(heap', head, c) /\ Mirror(heap', c) /\ Distinct(heap', c) /\ Ks(heap', c) = Cut(Ks(heap, w), p)
      /\ heap' \in HeapType /\ \A m \in Nodes : heap'[m].key = heap[m].key
  BY <1>1, <1>3, <1>5, <1>6, SkipForth DEF Typing
<1>8. ToSet(c) = ToSet(w) \ {w[p]} /\ Len(c) = Len(w) - 1 /\ c \in Seq(Nodes)
  BY <1>3, CutRest
<1>9. \A i \in 1..Len(c) : heap[c[i]].key # heap[w[p]].key /\ c[i] \in Nodes
  BY <1>3, <1>7, KeysApart, Members
<1> HIDE DEF c
<1>10. c # <<>> /\ Out(c)' /\ NewKey(c)'
  <2>1. c # <<>>
    BY <1>6, <1>8
  <2>2. Out(c)'
    BY <1>3, <1>4, <1>5, <1>6, <1>8 DEF Out, Held
  <2>3. NewKey(c)'
    BY <1>3, <1>4, <1>5, <1>6, <1>7, <1>9 DEF NewKey, InKeys
  <2> QED BY <2>1, <2>2, <2>3
<1>11. Shape(c)'
  BY <1>4, <1>7, <1>10 DEF Shape, Linking, Resting
<1>12. Ks(heap, w) = op.was /\ Moving
  BY <1>2 DEF History
<1>13. Cache!Thinned(Cut(Ks(heap, w), p), op.was, op.keys)
  <2>1. Ks(heap, w)[p] \in op.keys /\ Ks(heap, w) \in Seq(Keys)
        /\ Len(Ks(heap, w)) = Len(w) /\ \A i, j \in 1..Len(w) : Ks(heap, w)[i] = Ks(heap, w)[j] => i = j
    BY <1>3, <1>5, KeysApart DEF InKeys
  <2>2. op.keys = {} \cup {Ks(heap, w)[p]}
    BY <1>12, <2>1 DEF Moving
  <2>3. Cache!Thinned(Ks(heap, w), op.was, {})
    BY <1>12, <2>1, ThinnedSame
  <2>4. Cache!Thinned(Cut(Ks(heap, w), p), op.was, {} \cup {Ks(heap, w)[p]})
    BY <1>12, <2>1, <2>3, ThinnedCut
  <2> QED BY <2>2, <2>4
<1>14. History(Ks(heap, c))'
  <2>1. Cache!Thinned(Ks(heap', c), op'.was, op'.keys) /\ Moving'
    BY <1>4, <1>7, <1>12, <1>13 DEF Moving
  <2> QED BY <1>4, <2>1 DEF History, Linking, Removing
<1>15. Typing'
  BY <1>1, <1>4, <1>7 DEF Typing
<1> QED BY <1>4, <1>11, <1>14, <1>15 DEF Inv, FirstPcs

LEMMA RemovePrevStep ==
  ASSUME Inv, RemovePrev
  PROVE  Inv'
<1> USE DEF RemovePrev
<1>1. Typing /\ op \in OpType
  BY DEF Inv, Typing
<1>2. PICK w : Shape(w) /\ History(Ks(heap, w))
  BY DEF Inv, FirstPcs
<1>3. List(heap, head, w) /\ Distinct(heap, w) /\ Held(w) /\ Within(w) /\ InKeys
  BY <1>2 DEF Shape
<1>4. op' \in OpType /\ op'.pc = "remove_head" /\ op'.kind = op.kind /\ op'.keys = op.keys
      /\ op'.bp = op.bp /\ op'.was = op.was
  BY <1>1, GotoFacts DEF Pcs
<1>5. PICK p \in 1..Len(w) : op.bp = w[p] /\ Half(heap, w, p)
  BY <1>3 DEF Within
<1>6. Len(w) \in Nat /\ 1 <= p /\ p <= Len(w) /\ w[p] \in Nodes /\ w[p] \in ToSet(w) /\ w \in Seq(Nodes)
      /\ head = w[1]
  <2>1. w \in Seq(Nodes) /\ Len(w) \in Nat /\ w[p] \in Nodes /\ w[p] \in ToSet(w)
    BY <1>3, Members
  <2>2. 1 <= p /\ p <= Len(w) /\ 1 \in 1..Len(w)
    BY <2>1
  <2>3. head = At(w, 1)
    BY <1>3 DEF List
  <2> QED BY <2>1, <2>2, <2>3 DEF At
<1>7. PICK D \in SUBSET op.keys : Cache!Thinned(Ks(heap, w), op.was, D)
  BY <1>2 DEF History, Removing
<1>8. op.kind \in {"del", "expire", "call"}
  BY <1>2 DEF History, Removing
<1>9. CASE p = 1
  <2>1. heap' = heap
    BY <1>1, <1>3, <1>5, <1>9, SkipForth DEF Typing
  <2>2. Held(w)' /\ Within(w)' /\ InKeys' /\ op'.bp = head'
    BY <1>3, <1>4, <1>5, <1>6, <1>9, <2>1 DEF Held, Within, InKeys
  <2>3. Shape(w)'
    BY <1>3, <1>4, <2>1, <2>2 DEF Shape, Linking, Resting
  <2>4. History(Ks(heap, w))'
    BY <1>4, <1>7, <1>8, <2>1 DEF History, Linking, Removing
  <2>5. Typing'
    BY <1>1, <1>4, <2>1 DEF Typing
  <2> QED BY <1>4, <2>3, <2>4, <2>5 DEF Inv, FirstPcs
<1>10. CASE p > 1
  <2> DEFINE c == Cut(w, p)
  <2>1. /\ List(heap', head, c) /\ Mirror(heap', c) /\ Distinct(heap', c) /\ Ks(heap', c) = Cut(Ks(heap, w), p)
        /\ heap'[w[p]].next \in ToSet(c) \cup {NULL}
        /\ heap' \in HeapType /\ \A m \in Nodes : heap'[m].key = heap[m].key
    BY <1>1, <1>3, <1>5, <1>10, SkipForth DEF Typing
  <2>2. ToSet(c) = ToSet(w) \ {w[p]} /\ Len(c) = Len(w) - 1 /\ c \in Seq(Nodes)
    BY <1>3, CutRest
  <2> HIDE DEF c
  <2>3. Out(c)' /\ op'.bp # head'
    <3>1. w[p] # head
      BY <1>3, <1>6, <1>10 DEF List
    <3> QED BY <1>3, <1>4, <1>5, <1>6, <2>2, <3>1 DEF Out, Held
  <2>4. Shape(c)'
    BY <1>4, <1>5, <2>1, <2>3 DEF Shape, Linking, Resting
  <2>5. Cache!Thinned(Ks(heap', c), op.was, D \cup {Ks(heap, w)[p]}) /\ Ks(heap, w)[p] \in op.keys
    <3>1. /\ Ks(heap, w)[p] \in op.keys /\ Ks(heap, w) \in Seq(Keys) /\ Len(Ks(heap, w)) = Len(w)
          /\ \A i, j \in 1..Len(w) : Ks(heap, w)[i] = Ks(heap, w)[j] => i = j
      BY <1>3, <1>5, KeysApart DEF InKeys
    <3>2. op.was \in Seq(Keys)
      BY <1>1 DEF OpType
    <3>3. Cache!Thinned(Cut(Ks(heap, w), p), op.was, D \cup {Ks(heap, w)[p]})
      BY <1>7, <3>1, <3>2, ThinnedCut
    <3> QED BY <2>1, <3>1, <3>3
  <2>6. History(Ks(heap, c))'
    <3>1. D \cup {Ks(heap, w)[p]} \in SUBSET op'.keys
      BY <1>4, <2>5
    <3>2. \E E \in SUBSET op'.keys : Cache!Thinned(Ks(heap', c), op'.was, E)
      BY <1>4, <2>5, <3>1
    <3> QED BY <1>4, <1>8, <3>2 DEF History, Linking, Removing
  <2>7. Typing'
    BY <1>1, <1>4, <2>1 DEF Typing
  <2> QED BY <1>4, <2>4, <2>6, <2>7 DEF Inv, FirstPcs
<1> QED BY <1>6, <1>9, <1>10

\* The list goes on behind its first entry, if that is the one removed.
LEMMA RemoveHeadStep ==
  ASSUME Inv, RemoveHead
  PROVE  Inv'
<1> USE DEF RemoveHead
<1>1. Typing /\ op \in OpType
  BY DEF Inv, Typing
<1>2. PICK w : Shape(w) /\ History(Ks(heap, w))
  BY DEF Inv, FirstPcs
<1>3. /\ List(heap, head, w) /\ Distinct(heap, w)
      /\ \/ op.bp = head /\ Held(w) /\ Within(w) /\ InKeys
         \/ op.bp # head /\ Out(w) /\ Mirror(heap, w) /\ heap[op.bp].next \in ToSet(w) \cup {NULL}
  BY <1>2 DEF Shape
<1>4. op' \in OpType /\ op'.pc = "remove_free" /\ op'.kind = op.kind /\ op'.keys = op.keys
      /\ op'.bp = op.bp /\ op'.was = op.was /\ heap' = heap
  BY <1>1, GotoFacts DEF Pcs
<1>5. PICK D \in SUBSET op.keys : Cache!Thinned(Ks(heap, w), op.was, D)
  BY <1>2 DEF History, Removing
<1>6. op.kind \in {"del", "expire", "call"}
  BY <1>2 DEF History, Removing
<1>7. CASE op.bp = head /\ Held(w) /\ Within(w) /\ InKeys
  <2>1. PICK p \in 1..Len(w) : op.bp = w[p] /\ Half(heap, w, p)
    BY <1>7 DEF Within
  <2>2. Len(w) \in Nat /\ w \in Seq(Nodes) /\ w[p] \in Nodes /\ w[p] \in ToSet(w) /\ head = w[1] /\ p = 1
    <3>1. Len(w) \in Nat /\ w \in Seq(Nodes) /\ w[p] \in Nodes /\ w[p] \in ToSet(w)
      BY <1>3, Members
    <3>2. head = w[1] /\ 1 \in 1..Len(w)
      BY <1>3, <3>1 DEF List, At
    <3> QED BY <1>3, <1>7, <2>1, <3>1, <3>2 DEF List
  <2> DEFINE c == Cut(w, 1)
  <2>3. List(heap, At(w, 2), c)
    <3>1. List(heap, IF p = 1 THEN At(w, 2) ELSE head, Cut(w, p))
      BY <1>3, <2>2, ListCut
    <3> QED BY <2>2, <3>1
  <2>4. /\ Mirror(heap, c) /\ Distinct(heap, c) /\ Ks(heap, c) = Cut(Ks(heap, w), 1)
        /\ ToSet(c) = ToSet(w) \ {w[1]} /\ Len(c) = Len(w) - 1
    BY <1>3, <2>1, <2>2, CutRest
  <2>5. heap[w[1]].next = At(w, 2) /\ At(w, 2) \in ToSet(c) \cup {NULL}
    <3>1. heap[w[1]].next = At(w, 1 + 1)
      BY <1>3, <2>1, <2>2 DEF List
    <3>2. CASE 2 \in 1..Len(w)
      <4>1. w[2] \in ToSet(w)
        BY <1>3, <3>2, Members
      <4>2. w[2] # w[1]
        BY <1>3, <2>1, <2>2, <3>2 DEF List
      <4> QED BY <2>4, <3>1, <3>2, <4>1, <4>2 DEF At
    <3>3. CASE 2 \notin 1..Len(w)
      BY <3>1, <3>3 DEF At
    <3> QED BY <3>2, <3>3
  <2> HIDE DEF c
  <2>6. head' = At(w, 2)
    BY <1>7, <2>1, <2>2, <2>5
  <2>7. Out(c)'
    BY <1>4, <1>7, <2>1, <2>2, <2>4 DEF Out, Held
  <2>8. Shape(c)'
    BY <1>4, <2>1, <2>2, <2>3, <2>4, <2>5, <2>6, <2>7 DEF Shape, Linking, Resting
  <2>9. Cache!Thinned(Ks(heap, c), op.was, D \cup {Ks(heap, w)[1]}) /\ Ks(heap, w)[1] \in op.keys
    <3>1. /\ Ks(heap, w)[1] \in op.keys /\ Ks(heap, w) \in Seq(Keys) /\ Len(Ks(heap, w)) = Len(w)
          /\ \A i, j \in 1..Len(w) : Ks(heap, w)[i] = Ks(heap, w)[j] => i = j
      BY <1>3, <1>7, <2>1, <2>2, KeysApart DEF InKeys
    <3>2. op.was \in Seq(Keys) /\ 1 \in 1..Len(Ks(heap, w))
      BY <1>1, <2>1, <2>2, <3>1 DEF OpType
    <3>3. Cache!Thinned(Cut(Ks(heap, w), 1), op.was, D \cup {Ks(heap, w)[1]})
      BY <1>5, <3>1, <3>2, ThinnedCut
    <3> QED BY <2>4, <3>1, <3>3
  <2>10. History(Ks(heap, c))'
    <3>1. D \cup {Ks(heap, w)[1]} \in SUBSET op'.keys
      BY <1>4, <2>9
    <3>2. \E E \in SUBSET op'.keys : Cache!Thinned(Ks(heap', c), op'.was, E)
      BY <1>4, <2>9, <3>1
    <3> QED BY <1>4, <1>6, <3>2 DEF History, Linking, Removing
  <2>11. Typing'
    BY <1>1, <1>4, <2>5, <2>6, <2>3, Members DEF Typing
  <2> QED BY <1>4, <2>8, <2>10, <2>11 DEF Inv, FirstPcs
<1>8. CASE op.bp # head /\ Out(w) /\ Mirror(heap, w) /\ heap[op.bp].next \in ToSet(w) \cup {NULL}
  <2>1. head' = head /\ Out(w)'
    BY <1>4, <1>8 DEF Out
  <2>2. Shape(w)'
    BY <1>3, <1>4, <1>8, <2>1 DEF Shape, Linking, Resting
  <2>3. History(Ks(heap, w))'
    BY <1>4, <1>5, <1>6 DEF History, Linking, Removing
  <2>4. Typing'
    BY <1>1, <1>4, <2>1 DEF Typing
  <2> QED BY <1>4, <2>2, <2>3, <2>4 DEF Inv, FirstPcs
<1> QED BY <1>3, <1>7, <1>8

LEMMA CutLast ==
  ASSUME NEW S, NEW s \in Seq(S), s # <<>>
  PROVE  /\ SubSeq(s, 1, Len(s) - 1) = Cut(s, Len(s)) /\ Cut(s, Len(s)) \in Seq(S)
         /\ Len(s) \in 1..Len(s) /\ Len(Cut(s, Len(s))) = Len(s) - 1
<1>1. Len(s) \in Nat /\ Len(s) >= 1
  BY EmptySeq
<1>2. Cut(s, Len(s)) \in Seq(S) /\ Len(Cut(s, Len(s))) = Len(s) - 1
      /\ \A i \in 1..Len(s) - 1 : Cut(s, Len(s))[i] = s[i]
  <2>1. Len(s) \in 1..Len(s)
    BY <1>1
  <2>2. Cut(s, Len(s)) \in Seq(S) /\ Len(Cut(s, Len(s))) = Len(s) - 1
    BY <2>1, CutFacts
  <2>3. \A i \in 1..Len(s) - 1 : Cut(s, Len(s))[i] = s[i]
    BY <1>1 DEF Cut
  <2> QED BY <2>2, <2>3
<1>3. SubSeq(s, 1, Len(s) - 1) \in Seq(S) /\ Len(SubSeq(s, 1, Len(s) - 1)) = Len(s) - 1
      /\ \A i \in 1..Len(s) - 1 : SubSeq(s, 1, Len(s) - 1)[i] = s[i]
  <2> DEFINE l == Len(s) - 1
             t == SubSeq(s, 1, l)
  <2>1. l \in Nat /\ l \in Int /\ 1 \in Int /\ \A i \in 1..l : s[i] \in S
    BY <1>1
  <2> HIDE DEF l
  <2>2. t \in Seq(S)
    BY <2>1, SubSeqProperties
  <2>3. Len(t) = IF 1 <= l THEN l - 1 + 1 ELSE 0
    BY <2>1, SubSeqProperties
  <2>4. \A i \in 1..l - 1 + 1 : t[i] = s[1 + i - 1]
    BY <2>1, SubSeqProperties
  <2>5. Len(t) = l /\ \A i \in 1..l : t[i] = s[i]
    BY <2>1, <2>3, <2>4
  <2> QED BY <2>2, <2>5 DEF l
<1> HIDE DEF Cut
<1> QED BY <1>1, <1>2, <1>3, SeqEqual

\* The last entry is cut off.
LEMMA CutTailStep ==
  ASSUME Inv, CutTail
  PROVE  Inv'
<1> USE DEF CutTail
<1>1. Typing /\ op \in OpType
  BY DEF Inv, Typing
<1>2. PICK w : Shape(w) /\ History(Ks(heap, w))
  BY DEF Inv, FirstPcs
<1>3. List(heap, head, w) /\ Distinct(heap, w) /\ Mirror(heap, w) /\ Held(w) /\ w # <<>> /\ op.bp = w[Len(w)]
  BY <1>2 DEF Shape, Resting
<1>4. op' \in OpType /\ op'.pc = "free_tail" /\ op'.kind = op.kind /\ op'.keys = op.keys
      /\ op'.bp = op.bp /\ op'.was = op.was
  BY <1>1, GotoFacts DEF Pcs
<1> DEFINE p == Len(w)
           c == Cut(w, p)
<1>5. p \in 1..Len(w) /\ p \in Nat /\ p >= 1 /\ w \in Seq(Nodes) /\ \A i \in 1..p : w[i] \in Nodes
  <2>1. Len(w) \in Nat /\ w \in Seq(Nodes)
    BY <1>3, Members
  <2>2. Len(w) # 0
    BY <1>3, <2>1, EmptySeq
  <2> QED BY <2>1, <2>2
<1>6. /\ Mirror(heap, c) /\ Distinct(heap, c) /\ Ks(heap, c) = Cut(Ks(heap, w), p)
      /\ ToSet(c) = ToSet(w) \ {w[p]} /\ w[p] \in ToSet(w) /\ c \in Seq(Nodes) /\ Len(c) = Len(w) - 1
  BY <1>3, <1>5, CutRest
<1>7. heap[w[p]].prev = At(w, p - 1)
  BY <1>3, <1>5 DEF Mirror
<1>8. /\ heap' \in HeapType /\ List(heap', head', c) /\ head' \in Nodes \cup {NULL}
      /\ \A m \in Nodes : heap'[m].prev = heap[m].prev /\ heap'[m].key = heap[m].key
  <2>1. CASE p = 1
    <3>1. At(w, p - 1) = NULL /\ At(w, 2) = NULL
      BY <2>1 DEF At
    <3>2. heap' = heap /\ head' = NULL
      BY <1>3, <1>7, <3>1
    <3>3. List(heap, IF p = 1 THEN At(w, 2) ELSE head, c)
      <4> HIDE DEF p
      <4>1. p > 1 => heap[w[p - 1]].next = At(w, p + 1)
        BY <2>1
      <4> QED BY <1>3, <1>5, <4>1, ListCut
    <3>4. List(heap, NULL, c)
      BY <2>1, <3>1, <3>3
    <3> QED BY <1>1, <3>2, <3>4 DEF Typing
  <2>2. CASE p # 1
    <3>1. p - 1 \in 1..p /\ At(w, p - 1) = w[p - 1] /\ w[p - 1] \in Nodes /\ At(w, p + 1) = NULL
      <4>1. p - 1 \in 1..p /\ p + 1 \notin 1..p
        <5>1. \A q \in Nat : q >= 1 /\ q # 1 => q - 1 \in 1..q /\ q + 1 \notin 1..q
          OBVIOUS
        <5> HIDE DEF p
        <5> QED BY <1>5, <2>2, <5>1
      <4>2. w[p - 1] \in Nodes
        BY <1>5, <4>1
      <4> QED BY <4>1, <4>2 DEF At
    <3>2. Set(w[p - 1], "next", NULL) /\ head' = head
      BY <1>3, <1>7, <3>1, ListConstants
    <3>3. /\ heap' \in HeapType
          /\ \A m \in Nodes : /\ heap'[m].next = IF m = w[p - 1] THEN NULL ELSE heap[m].next
                              /\ heap'[m].prev = heap[m].prev /\ heap'[m].key = heap[m].key
      BY <1>1, <3>1, <3>2, SetNext DEF Typing
    <3>4. \A i \in 1..Len(w) : i + 1 # p => heap'[w[i]].next = heap[w[i]].next
      BY <1>3, <1>5, <3>1, <3>3 DEF List
    <3>5. p > 1 => heap'[w[p - 1]].next = At(w, p + 1)
      BY <3>1, <3>3
    <3>6. List(heap', IF p = 1 THEN At(w, 2) ELSE head, c)
      <4> HIDE DEF p
      <4> QED BY <1>3, <1>5, <3>4, <3>5, ListCut
    <3> QED BY <1>1, <2>2, <3>2, <3>3, <3>6 DEF Typing
  <2> QED BY <2>1, <2>2
<1> HIDE DEF c
<1>9. Mirror(heap', c)
  <2>1. \A i \in 1..Len(c) : c[i] \in Nodes
    BY <1>6
  <2> QED BY <1>6, <1>8, <2>1 DEF Mirror
<1>10. Distinct(heap', c) /\ Ks(heap', c) = Cut(Ks(heap, w), p)
  BY <1>6, <1>8, SameKeys
<1>11. Out(c)'
  BY <1>3, <1>4, <1>5, <1>6 DEF Out, Held
<1>12. Shape(c)'
  BY <1>4, <1>8, <1>9, <1>10, <1>11 DEF Shape, Linking, Resting
<1>13. Ks(heap, w) = op.was /\ Full /\ Entering /\ Len(Ks(heap, w)) = p
  BY <1>2, <1>3, KeysApart DEF History
<1>14. History(Ks(heap, c))'
  <2>1. Full' /\ Entering' /\ Ks(heap', c) = Cut(op'.was, Len(op'.was))
    BY <1>4, <1>10, <1>13 DEF Full, Entering
  <2> QED BY <1>4, <2>1 DEF History, Linking, Removing
<1>15. Typing'
  BY <1>1, <1>4, <1>8 DEF Typing
<1> QED BY <1>4, <1>12, <1>14, <1>15 DEF Inv, FirstPcs

\* free leaves every list alone that the entry is not in.
LEMMA FreeFacts ==
  ASSUME heap \in HeapType, NEW b \in Nodes, Free(b)
  PROVE  /\ heap' \in HeapType /\ live' = live \ {b}
         /\ heap'[b].next \in {heap[b].next, NULL, Wild}
         /\ \A m \in Nodes : m # b => heap'[m].next = heap[m].next
         /\ \A m \in Nodes : heap'[m].prev = heap[m].prev /\ heap'[m].key = heap[m].key
<1>1. PICK v \in {heap[b].next, NULL, Wild} : Set(b, "next", v)
  BY DEF Free
<1>2. v \in Nodes \cup {NULL, Wild}
  BY DEF HeapType
<1>3. /\ heap' \in HeapType
      /\ \A m \in Nodes : /\ heap'[m].next = IF m = b THEN v ELSE heap[m].next
                          /\ heap'[m].prev = heap[m].prev /\ heap'[m].key = heap[m].key
  BY <1>1, <1>2, SetNext
<1> QED BY <1>3 DEF Free

LEMMA FreeTailStep ==
  ASSUME Inv, FreeTail
  PROVE  Inv'
<1> USE DEF FreeTail
<1>1. Typing /\ op \in OpType
  BY DEF Inv, Typing
<1>2. PICK w : Shape(w) /\ History(Ks(heap, w))
  BY DEF Inv, FirstPcs
<1>3. List(heap, head, w) /\ Distinct(heap, w) /\ Mirror(heap, w) /\ Out(w)
  BY <1>2 DEF Shape
<1>4. op' \in OpType /\ op'.pc = "count_tail" /\ op'.kind = op.kind /\ op'.keys = op.keys
      /\ op'.bp = op.bp /\ op'.was = op.was
  BY <1>1, GotoFacts DEF Pcs
<1>5. op.bp \in Nodes /\ op.bp \notin ToSet(w)
  BY <1>3 DEF Out
<1>6. /\ heap' \in HeapType /\ live' = live \ {op.bp}
      /\ \A m \in Nodes : m # op.bp => /\ heap'[m].next = heap[m].next
                                       /\ heap'[m].prev = heap[m].prev /\ heap'[m].key = heap[m].key
  BY <1>1, <1>5, FreeFacts DEF Typing
<1>7. List(heap', head, w) /\ Mirror(heap', w) /\ Distinct(heap', w) /\ Ks(heap', w) = Ks(heap, w)
  BY <1>3, <1>5, <1>6, OffList
<1>8. live' = ToSet(w) /\ cnt' = Len(w) + 1
  BY <1>3, <1>5, <1>6 DEF Out
<1>9. Shape(w)'
  BY <1>4, <1>7, <1>8 DEF Shape, Linking, Resting
<1>10. History(Ks(heap, w))'
  <2>1. Ks(heap, w) = Cut(op.was, Len(op.was)) /\ Full /\ Entering
    BY <1>2 DEF History
  <2>2. Full' /\ Entering' /\ Ks(heap', w) = Cut(op'.was, Len(op'.was))
    BY <1>4, <1>7, <2>1 DEF Full, Entering
  <2> QED BY <1>4, <2>2 DEF History, Linking, Removing
<1>11. Typing'
  BY <1>1, <1>4, <1>6 DEF Typing
<1> QED BY <1>4, <1>9, <1>10, <1>11 DEF Inv, FirstPcs

LEMMA CountTailStep ==
  ASSUME Inv, CountTail
  PROVE  Inv'
<1> USE DEF CountTail
<1>1. Typing /\ op \in OpType /\ op.was \in Seq(Keys) /\ maxroutes \in Nat
  BY ListConstants DEF Inv, Typing, OpType
<1>2. PICK w : Shape(w) /\ History(Ks(heap, w))
  BY DEF Inv, FirstPcs
<1>3. List(heap, head, w) /\ Distinct(heap, w) /\ Mirror(heap, w) /\ live = ToSet(w) /\ cnt = Len(w) + 1
  BY <1>2 DEF Shape
<1>4. op' \in OpType /\ op'.pc = "malloc" /\ op'.kind = op.kind /\ op'.keys = op.keys
      /\ op'.bp = op.bp /\ op'.was = op.was
  BY <1>1, GotoFacts DEF Pcs
<1>5. Held(w)'
  <2>1. Len(w) \in Nat
    BY <1>3, Members
  <2> QED BY <1>3, <2>1 DEF Held
<1>6. Shape(w)'
  BY <1>3, <1>4, <1>5 DEF Shape, Linking, Resting
<1>7. History(Ks(heap, w))'
  <2>1. Ks(heap, w) = Cut(op.was, Len(op.was)) /\ Full /\ Entering
    BY <1>2 DEF History
  <2>2. Ks(heap, w) = Cache!Room(op.was)
    BY <1>1, <2>1, CutLast DEF Full, Cache!Room
  <2>3. Entering' /\ Ks(heap', w) = Cache!Room(op.was) /\ Cache!Room(op.was)' = Cache!Room(op.was)
    BY <1>4, <2>1, <2>2 DEF Entering, Cache!Room
  <2> QED BY <1>4, <2>3 DEF History, Linking, Removing
<1>8. Typing'
  <2>1. cnt' \in Nat
    BY <1>3, <1>5, Members DEF Held
  <2> QED BY <1>1, <1>4, <2>1 DEF Typing
<1> QED BY <1>4, <1>6, <1>7, <1>8 DEF Inv, FirstPcs

\* The keys left when a new one is to be entered are keys of the cache.
LEMMA RoomFacts ==
  ASSUME NEW s \in Seq(Keys), maxroutes \in Nat
  PROVE  Cache!Room(s) \in Seq(Keys) /\ \A i \in 1..Len(Cache!Room(s)) : Cache!Room(s)[i] \in ToSet(s)
<1>1. \A i \in 1..Len(s) : s[i] \in ToSet(s)
  BY DEF ToSet
<1>2. CASE Len(s) >= maxroutes
  <2>1. Cache!Room(s) = SubSeq(s, 1, Len(s) - 1)
    BY <1>2 DEF Cache!Room
  <2>2. CASE s = <<>>
    <3>1. SubSeq(s, 1, Len(s) - 1) = <<>>
      BY <2>2
    <3>2. Cache!Room(s) = <<>>
      BY <2>1, <3>1
    <3>3. <<>> \in Seq(Keys) /\ 1..Len(<<>>) = {}
      OBVIOUS
    <3> QED BY <3>2, <3>3
  <2>3. CASE s # <<>>
    <3>1. Len(s) \in Nat /\ Len(s) >= 1
      BY <2>3, EmptySeq
    <3>2. \A i \in 1..Len(s) - 1 : Cut(s, Len(s))[i] = s[i] /\ i \in 1..Len(s)
      BY <3>1 DEF Cut
    <3>3. Cache!Room(s) = Cut(s, Len(s)) /\ Cut(s, Len(s)) \in Seq(Keys) /\ Len(Cut(s, Len(s))) = Len(s) - 1
      BY <2>1, <2>3, CutLast
    <3>4. ASSUME NEW i \in 1..Len(Cache!Room(s)) PROVE Cache!Room(s)[i] \in ToSet(s)
      <4>1. i \in 1..Len(s) - 1
        BY <3>3
      <4> QED BY <1>1, <3>2, <3>3, <4>1
    <3> QED BY <3>3, <3>4
  <2> QED BY <2>2, <2>3
<1>3. CASE ~(Len(s) >= maxroutes)
  BY <1>1, <1>3 DEF Cache!Room
<1> QED BY <1>2, <1>3

\* With no memory the call ends without the entry; with it the new entry is
\* in no list yet.
LEMMA MallocStep ==
  ASSUME Inv, Malloc
  PROVE  /\ Inv'
         /\ op'.pc = "idle" =>
              /\ KeysOf(Walk(head))' = Cache!Room(op.was) /\ ~(op.was = <<>> /\ maxroutes = 0)
              /\ \E k \in Keys : k \notin ToSet(op.was)
         /\ op'.pc # "idle" => op'.was = op.was
<1>1. Typing /\ op \in OpType /\ op.was \in Seq(Keys) /\ maxroutes \in Nat /\ op.pc = "malloc"
      /\ head' = head /\ maxroutes' = maxroutes
  BY ListConstants DEF Inv, Typing, OpType, Malloc
<1>2. PICK w : Shape(w) /\ History(Ks(heap, w))
  BY <1>1 DEF Inv, FirstPcs
<1>3. List(heap, head, w) /\ Distinct(heap, w) /\ Mirror(heap, w) /\ live = ToSet(w) /\ cnt = Len(w)
  BY <1>1, <1>2 DEF Shape, Resting, Held
<1>4. Ks(heap, w) = Cache!Room(op.was) /\ Entering
  BY <1>1, <1>2 DEF History
<1>5. PICK k \in Keys : op.keys = {k} /\ k \notin ToSet(op.was) /\ op.kind = "update"
                        /\ ~(op.was = <<>> /\ maxroutes = 0)
  BY <1>4 DEF Entering
<1>6. CASE Return /\ UNCHANGED <<heap, live, cnt>>
  <2>1. op' \in OpType /\ op'.pc = "idle"
    BY <1>6, ReturnFacts
  <2>2. Typing'
    BY <1>1, <1>6, <2>1 DEF Typing
  <2>3. Inv'
    <3>1. List(heap', head', w) /\ Distinct(heap', w) /\ Mirror(heap', w) /\ live' = ToSet(w) /\ cnt' = Len(w)
      BY <1>1, <1>3, <1>6
    <3> QED BY <2>1, <2>2, <3>1, Done
  <2>4. KeysOf(Walk(head))' = KeysOf(Walk(head))
    BY <1>1, <1>6 DEF KeysOf, Walk, Chain
  <2>5. KeysOf(Walk(head)) = Ks(heap, w)
    BY <1>3, WalkIs
  <2> QED BY <1>4, <1>5, <2>1, <2>3, <2>4, <2>5
<1>7. ASSUME NEW n \in Nodes \ live,
             live' = live \cup {n}, cnt' = cnt + 1,
             heap' = [heap EXCEPT ![n].key = CHOOSE x \in op.keys : TRUE],
             GotoWith(IF head = NULL THEN "first_head" ELSE "link_next", n)
      PROVE  Inv' /\ op'.pc # "idle" /\ op'.was = op.was
  <2>1. n \in Nodes /\ n \notin ToSet(w)
    BY <1>3, <1>7
  <2>2. (CHOOSE x \in op.keys : TRUE) = k
    BY <1>5
  <2>3. /\ heap' \in HeapType /\ heap'[n].key = k
        /\ \A m \in Nodes : m # n => /\ heap'[m].next = heap[m].next
                                     /\ heap'[m].prev = heap[m].prev /\ heap'[m].key = heap[m].key
    BY <1>1, <1>7, <2>1, <2>2 DEF Typing, HeapType
  <2>4. op' \in OpType /\ op'.pc = (IF head = NULL THEN "first_head" ELSE "link_next") /\ op'.kind = op.kind
        /\ op'.keys = op.keys /\ op'.bp = n /\ op'.was = op.was
    BY <1>1, <1>7, <2>1, GotoWithFacts DEF Pcs
  <2>5. List(heap', head, w) /\ Mirror(heap', w) /\ Distinct(heap', w) /\ Ks(heap', w) = Ks(heap, w)
    BY <1>3, <2>1, <2>3, OffList
  <2>6. Out(w)' /\ InKeys'
    BY <1>3, <1>5, <1>7, <2>1, <2>3, <2>4 DEF Out, InKeys
  <2>7. ASSUME NEW i \in 1..Len(w) PROVE heap'[w[i]].key # k
    <3>1. Ks(heap', w)[i] = heap'[w[i]].key /\ Len(Ks(heap', w)) = Len(w)
      BY <2>5, KeysApart
    <3>2. Ks(heap', w)[i] \in ToSet(op.was)
      <4>1. i \in 1..Len(Cache!Room(op.was))
        BY <1>4, <2>5, <3>1
      <4> QED BY <1>1, <1>4, <2>5, <4>1, RoomFacts
    <3> QED BY <1>5, <3>1, <3>2
  <2>8. Typing'
    <3>1. cnt' \in Nat
      BY <1>3, <1>7, Members
    <3> QED BY <1>1, <1>7, <2>3, <2>4, <3>1 DEF Typing
  <2>9. Entering' /\ Ks(heap', w) = Cache!Room(op.was) /\ Cache!Room(op.was)' = Cache!Room(op.was)
    BY <1>1, <1>4, <2>4, <2>5 DEF Entering, Cache!Room
  <2>10. CASE head = NULL
    <3>1. w = <<>>
      BY <1>3, <2>10, Members
    <3>2. Shape(w)'
      BY <1>1, <2>4, <2>5, <2>6, <2>10, <3>1 DEF Shape, Linking, Resting
    <3>3. History(Ks(heap, w))'
      BY <2>4, <2>9, <2>10 DEF History, Linking, Removing
    <3> QED BY <2>4, <2>8, <2>10, <3>2, <3>3 DEF Inv, FirstPcs
  <2>11. CASE head # NULL
    <3>1. w # <<>>
      BY <1>3, <2>11, Members
    <3>2. NewKey(w)'
      BY <2>3, <2>4, <2>6, <2>7 DEF NewKey
    <3>3. Shape(w)'
      BY <1>1, <2>4, <2>5, <2>6, <2>11, <3>1, <3>2 DEF Shape, Linking, Resting
    <3>4. History(Ks(heap, w))'
      BY <2>4, <2>9, <2>11 DEF History, Linking, Removing
    <3> QED BY <2>4, <2>8, <2>11, <3>3, <3>4 DEF Inv, FirstPcs
  <2> QED BY <2>4, <2>10, <2>11
<1> QED BY <1>6, <1>7 DEF Malloc

\* The first entry of an empty list.
LEMMA FirstHeadStep ==
  ASSUME Inv, FirstHead
  PROVE  Inv'
<1> USE DEF FirstHead
<1>1. Typing /\ op \in OpType
  BY DEF Inv, Typing
<1>2. PICK w : Shape(w) /\ History(Ks(heap, w))
  BY DEF Inv, FirstPcs
<1>3. w = <<>> /\ Out(w) /\ InKeys
  BY <1>2 DEF Shape
<1>4. op' \in OpType /\ op'.pc = "first_prev" /\ op'.kind = op.kind /\ op'.keys = op.keys
      /\ op'.bp = op.bp /\ op'.was = op.was
  BY <1>1, GotoFacts DEF Pcs
<1>5. ToSet(w) = {} /\ Len(w) = 0 /\ Ks(heap, w) = <<>>
  BY <1>3 DEF ToSet, Ks
<1>6. Cache!Room(op.was) = <<>> /\ Entering
  BY <1>2, <1>5 DEF History
<1>7. First'
  <2>1. op.bp \in Nodes /\ live = {op.bp} /\ cnt = 1
    BY <1>3, <1>5 DEF Out
  <2>2. Entering' /\ Cache!Room(op.was)' = Cache!Room(op.was)
    BY <1>4, <1>6 DEF Entering, Cache!Room
  <2>3. InKeys'
    BY <1>3, <1>4 DEF InKeys
  <2> QED BY <1>4, <1>6, <2>1, <2>2, <2>3 DEF First
<1>8. Typing'
  BY <1>1, <1>3, <1>4 DEF Typing, Out
<1> QED BY <1>4, <1>7, <1>8 DEF Inv, FirstPcs

LEMMA FirstPrevStep ==
  ASSUME Inv, FirstPrev
  PROVE  Inv'
<1> USE DEF FirstPrev
<1>1. Typing /\ op \in OpType /\ First
  BY DEF Inv, Typing, FirstPcs
<1>2. op' \in OpType /\ op'.pc = "first_next" /\ op'.kind = op.kind /\ op'.keys = op.keys
      /\ op'.bp = op.bp /\ op'.was = op.was
  BY <1>1, GotoFacts DEF Pcs
<1>3. /\ heap' \in HeapType
      /\ \A m \in Nodes : /\ heap'[m].prev = IF m = op.bp THEN NULL ELSE heap[m].prev
                          /\ heap'[m].next = heap[m].next /\ heap'[m].key = heap[m].key
  BY <1>1, SetPrev DEF Typing, First
<1>4. Entering' /\ Cache!Room(op.was)' = Cache!Room(op.was)
  BY <1>1, <1>2 DEF First, Entering, Cache!Room
<1>5. First'
  BY <1>1, <1>2, <1>3, <1>4 DEF First, InKeys
<1>6. Typing'
  BY <1>1, <1>2, <1>3 DEF Typing
<1> QED BY <1>2, <1>5, <1>6 DEF Inv, FirstPcs

LEMMA FirstNextStep ==
  ASSUME Inv, FirstNext
  PROVE  /\ Inv'
         /\ \E k \in Keys, ks \in Seq(Keys) :
              /\ KeysOf(Walk(head))' = Push(k, ks)
              /\ k \notin ToSet(op.was) /\ ks = Cache!Room(op.was) /\ ~(op.was = <<>> /\ maxroutes = 0)
<1> USE DEF FirstNext
<1>1. Typing /\ op \in OpType /\ First
  BY DEF Inv, Typing, FirstPcs
<1>2. op' \in OpType /\ op'.pc = "idle"
  BY ReturnFacts
<1>3. op.bp \in Nodes /\ head = op.bp /\ live = {op.bp} /\ cnt = 1 /\ InKeys /\ heap[op.bp].prev = NULL
  BY <1>1 DEF First
<1>4. /\ heap' \in HeapType
      /\ \A m \in Nodes : /\ heap'[m].next = IF m = op.bp THEN NULL ELSE heap[m].next
                          /\ heap'[m].prev = heap[m].prev /\ heap'[m].key = heap[m].key
  BY <1>1, <1>3, SetNext DEF Typing
<1> DEFINE w == <<op.bp>>
<1>5. w \in Seq(Nodes) /\ Len(w) = 1 /\ w[1] = op.bp /\ ToSet(w) = {op.bp}
  BY <1>3 DEF ToSet
<1>6. At(w, 1) = op.bp /\ At(w, 2) = NULL /\ At(w, 0) = NULL
  BY <1>5 DEF At
<1> HIDE DEF w
<1>7. heap'[op.bp].key \in op.keys /\ heap'[op.bp].key \in Keys /\ heap'[op.bp].prev = NULL /\ heap'[op.bp].next = NULL
  BY <1>1, <1>3, <1>4 DEF InKeys, OpType
<1>8. List(heap', head', w)
  <2>1. \A i \in 1..Len(w) : i = 1 /\ heap'[w[i]].next = At(w, i + 1)
    BY <1>5, <1>6, <1>7
  <2> QED BY <1>3, <1>5, <1>6, <2>1 DEF List
<1>9. Distinct(heap', w) /\ Mirror(heap', w)
  BY <1>5, <1>6, <1>7 DEF Distinct, Mirror
<1>10. Typing'
  BY <1>1, <1>2, <1>4 DEF Typing
<1>11. Inv'
  BY <1>2, <1>3, <1>5, <1>8, <1>9, <1>10, Done
<1>12. KeysOf(Walk(head))' = Ks(heap', w)
  BY <1>8, WalkNext
<1>13. Ks(heap', w) = Push(heap'[op.bp].key, <<>>)
  BY <1>5 DEF Ks, Push
<1>14. PICK k \in Keys : op.keys = {k} /\ k \notin ToSet(op.was)
  BY <1>1 DEF First, Entering
<1>15. k = heap'[op.bp].key /\ <<>> \in Seq(Keys)
  BY <1>7, <1>14
<1>16. Cache!Room(op.was) = <<>> /\ ~(op.was = <<>> /\ maxroutes = 0)
  BY <1>1 DEF First, Entering
<1> QED BY <1>11, <1>12, <1>13, <1>14, <1>15, <1>16

-----------------------------------------------------------------------------
(* The calls *)

LEMMA Stutter ==
  ASSUME Inv, UNCHANGED vars
  PROVE  Inv'
<1>1. heap' = heap /\ live' = live /\ head' = head /\ cnt' = cnt /\ maxroutes' = maxroutes /\ op' = op
  BY DEF vars
<1>2. Typing'
  BY <1>1 DEF Inv, Typing
<1>3. CASE op.pc \in FirstPcs
  <2>1. First'
    BY <1>1, <1>3 DEF Inv, First, InKeys, Entering, Cache!Room
  <2> QED BY <1>1, <1>2, <1>3, <2>1 DEF Inv
<1>4. CASE op.pc \notin FirstPcs
  <2>1. PICK w : Shape(w) /\ History(Ks(heap, w))
    BY <1>4 DEF Inv
  <2>2. Shape(w)'
    BY <1>1, <2>1 DEF Shape, Held, Within, Out, InKeys, NewKey
  <2>3. History(Ks(heap, w))'
    BY <1>1, <2>1 DEF History, Full, Entering, Moving, Cache!Room, Cache!Thinned
  <2> QED BY <1>1, <1>2, <1>4, <2>2, <2>3 DEF Inv
<1> QED BY <1>3, <1>4

\* Between two calls the list is whole.
LEMMA AtRest ==
  ASSUME Inv, op.pc \in {"idle", "crashed"}
  PROVE  \E w : /\ List(heap, head, w) /\ Distinct(heap, w) /\ Mirror(heap, w) /\ Held(w)
                /\ KeysOf(Walk(head)) = Ks(heap, w) /\ Walk(head) = w /\ Last(Chain(head)) = NULL
                /\ Ks(heap, w) \in Seq(Keys) /\ Len(Ks(heap, w)) = Len(w)
                /\ \A i \in 1..Len(w) : Ks(heap, w)[i] = heap[w[i]].key
<1>1. PICK w : Shape(w)
  BY DEF Inv, FirstPcs
<1>2. List(heap, head, w) /\ Distinct(heap, w) /\ Mirror(heap, w) /\ Held(w)
  BY <1>1 DEF Shape, Resting
<1>3. KeysOf(Walk(head)) = Ks(heap, w) /\ Walk(head) = w /\ Last(Chain(head)) = NULL
  BY <1>2, WalkIs
<1> QED BY <1>2, <1>3, KeysApart

\* An update begins with the keys of the list, or changes nothing.
LEMMA UpdateStep ==
  ASSUME Inv, NEW k \in Keys, Update(k)
  PROVE  /\ Inv'
         /\ op' = op \/ (op'.pc # "idle" /\ op'.was = KeysOf(Walk(head)))
<1> DEFINE found == Find(head, {k})
           was == KeysOf(Walk(head))
           Begin(pc, bp) == op' = [pc |-> pc, kind |-> "update", keys |-> {k}, bp |-> bp, was |-> was]
<1>1. /\ op.pc = "idle" /\ UNCHANGED <<heap, live, head, cnt, maxroutes>>
      /\ \/ op' = op
         \/ found \in Nodes /\ found # head /\ Begin("unlink_next", found)
         \/ found \notin Nodes /\ cnt < maxroutes /\ Begin("malloc", NULL)
         \/ found \notin Nodes /\ ~(cnt < maxroutes) /\ head # NULL /\ Begin("cut_tail", Last(Walk(head)))
  BY DEF Update
<1>2. PICK w : /\ List(heap, head, w) /\ Distinct(heap, w) /\ Mirror(heap, w) /\ Held(w)
               /\ was = Ks(heap, w) /\ Walk(head) = w
               /\ was \in Seq(Keys) /\ Len(was) = Len(w)
               /\ \A i \in 1..Len(w) : was[i] = heap[w[i]].key
  BY <1>1, AtRest
<1>3. \/ \E i \in 1..Len(w) : found = w[i] /\ heap[w[i]].key \in {k}
      \/ found = NULL /\ \A i \in 1..Len(w) : heap[w[i]].key \notin {k}
  BY <1>2, FindIs
<1>4. Typing /\ maxroutes \in Nat /\ cnt = Len(w) /\ Len(w) \in Nat /\ Len(was) \in Nat
  BY <1>2, Members, ListConstants DEF Inv, Typing, Held
<1>5. ASSUME NEW pc \in Pcs, NEW bp \in Nodes \cup {NULL}, Begin(pc, bp)
      PROVE  Typing' /\ op'.pc = pc /\ op'.kind = "update" /\ op'.keys = {k} /\ op'.bp = bp /\ op'.was = was
  BY <1>1, <1>2, <1>4, <1>5 DEF Typing, OpType, Kinds
<1>6. ToSet(was) = {was[i] : i \in 1..Len(w)}
  BY <1>2 DEF ToSet
<1> HIDE DEF found, was, Begin
<1>7. ASSUME op' = op PROVE Inv'
  BY <1>1, <1>7, Stutter DEF vars
<1>8. ASSUME found \in Nodes, found # head, Begin("unlink_next", found) PROVE Inv'
  <2>1. PICK i \in 1..Len(w) : found = w[i] /\ heap[w[i]].key = k
    BY <1>3, <1>8, ListConstants
  <2>2. Typing' /\ op'.pc = "unlink_next" /\ op'.kind = "update" /\ op'.keys = {k} /\ op'.bp = found
        /\ op'.was = was
    BY <1>5, <1>8 DEF Pcs
  <2>3. found \in ToSet(w) /\ heap[found].key \in {k} /\ k \in ToSet(was)
    BY <1>2, <1>6, <2>1, Members
  <2>4. Shape(w)'
    BY <1>1, <1>2, <1>8, <2>2, <2>3 DEF Shape, Linking, Resting, Held, InKeys
  <2>5. History(Ks(heap, w))'
    BY <1>1, <1>2, <2>2, <2>3 DEF History, Linking, Removing, Moving
  <2> QED BY <2>2, <2>4, <2>5 DEF Inv, FirstPcs
<1>9. ASSUME found \notin Nodes PROVE k \notin ToSet(was)
  <2>1. \A i \in 1..Len(w) : was[i] # k
    BY <1>2, <1>3, <1>9, Members
  <2> QED BY <1>6, <2>1
<1>10. ASSUME found \notin Nodes, cnt < maxroutes, Begin("malloc", NULL) PROVE Inv'
  <2>1. Typing' /\ op'.pc = "malloc" /\ op'.kind = "update" /\ op'.keys = {k} /\ op'.was = was
    BY <1>5, <1>10 DEF Pcs
  <2>2. Cache!Room(was) = was /\ ~(was = <<>> /\ maxroutes = 0)
    BY <1>2, <1>4, <1>10 DEF Cache!Room
  <2>3. Shape(w)'
    BY <1>1, <1>2, <2>1 DEF Shape, Linking, Resting, Held
  <2>4. Entering'
    BY <1>1, <1>9, <1>10, <2>1, <2>2 DEF Entering
  <2>5. Cache!Room(op.was)' = Cache!Room(was) /\ Ks(heap', w) = was
    BY <1>1, <1>2, <2>1 DEF Cache!Room
  <2>6. History(Ks(heap, w))'
    BY <2>1, <2>2, <2>4, <2>5 DEF History, Linking, Removing
  <2> QED BY <2>1, <2>3, <2>6 DEF Inv, FirstPcs
<1>11. ASSUME found \notin Nodes, ~(cnt < maxroutes), head # NULL, Begin("cut_tail", Last(Walk(head)))
       PROVE  Inv'
  <2>1. w # <<>> /\ Len(w) >= 1 /\ Last(Walk(head)) = w[Len(w)] /\ w[Len(w)] \in Nodes
    BY <1>2, <1>4, <1>11, Members DEF Last
  <2>2. Typing' /\ op'.pc = "cut_tail" /\ op'.kind = "update" /\ op'.keys = {k} /\ op'.bp = w[Len(w)]
        /\ op'.was = was
    BY <1>5, <1>11, <2>1 DEF Pcs
  <2>3. was # <<>> /\ Len(was) >= maxroutes
    BY <1>2, <1>4, <1>11, <2>1
  <2>4. Shape(w)'
    BY <1>1, <1>2, <2>1, <2>2 DEF Shape, Linking, Resting, Held
  <2>5. Full' /\ Entering' /\ Ks(heap', w) = op'.was
    BY <1>1, <1>2, <1>9, <1>11, <2>2, <2>3 DEF Full, Entering
  <2>6. History(Ks(heap, w))'
    BY <2>2, <2>5 DEF History, Linking, Removing
  <2> QED BY <2>2, <2>4, <2>6 DEF Inv, FirstPcs
<1>12. op' = op \/ (op'.pc # "idle" /\ op'.was = was)
  <2>1. \A pc, bp : Begin(pc, bp) => op'.pc = pc /\ op'.was = was
    BY DEF Begin
  <2> QED BY <1>1, <2>1
<1>13. Inv'
  BY <1>1, <1>7, <1>8, <1>10, <1>11
<1> QED BY <1>12, <1>13 DEF was

\* From an entry of the list, or from what ends it, the search for an entry
\* to remove finds one of the list with one of the keys, or what is no node.
LEMMA FindFrom ==
  ASSUME NEW w, List(heap, head, w), NEW n \in ToSet(w) \cup {NULL, Wild}, NEW keys
  PROVE  \/ Find(n, keys) \in ToSet(w) /\ heap[Find(n, keys)].key \in keys
         \/ Find(n, keys) = NULL /\ n # Wild
         \/ Find(n, keys) = Wild /\ n = Wild
<1>1. CASE n \in ToSet(w)
  <2>1. PICK q \in 1..Len(w) : n = w[q]
    BY <1>1, Members
  <2>2. PICK v : List(heap, n, v) /\ ToSet(v) \in SUBSET ToSet(w)
    BY <2>1, ListFrom
  <2>3. n # Wild
    BY <1>1, Members, ListConstants
  <2>4. \/ \E i \in 1..Len(v) : Find(n, keys) = v[i] /\ heap[v[i]].key \in keys
        \/ Find(n, keys) = NULL
    BY <2>2, FindIs
  <2>5. \A i \in 1..Len(v) : v[i] \in ToSet(w)
    BY <2>2, Members
  <2> QED BY <2>3, <2>4, <2>5
<1>2. CASE n \in {NULL, Wild}
  BY <1>2, NoWalk
<1> QED BY <1>1, <1>2

\* The search leaves the list whole, or a removal begun.
LEMMA SeekStep ==
  ASSUME NEW kind \in {"del", "expire", "call"}, NEW keys \in SUBSET Keys, NEW was \in Seq(Keys),
         NEW w, List(heap, head, w), NEW n \in ToSet(w) \cup {NULL, Wild}, Seek(kind, keys, n, was),
         heap' \in HeapType, head' = head, head \in Nodes \cup {NULL}, maxroutes' \in Sizes,
         List(heap', head', w), Distinct(heap', w), Mirror(heap', w), live' = ToSet(w), cnt' = Len(w),
         \A m \in Nodes : heap'[m].key = heap[m].key,
         \E D \in SUBSET keys : Cache!Thinned(Ks(heap', w), was, D)
  PROVE  Inv' /\ (op'.pc # "idle" => op'.was = was) /\ (n # Wild => op'.pc # "crashed")
<1> DEFINE found == Find(n, keys)
<1>1. \/ found \in Nodes /\ op' = [pc |-> "remove_next", kind |-> kind, keys |-> keys, bp |-> found, was |-> was]
      \/ found = NULL /\ op' = Idle
      \/ found \notin Nodes /\ found # NULL /\ op' = [Idle EXCEPT !.pc = "crashed", !.was = was]
  BY ListConstants DEF Seek
<1>2. \/ found \in ToSet(w) /\ heap[found].key \in keys
      \/ found = NULL /\ n # Wild
      \/ found = Wild /\ n = Wild
  BY FindFrom
<1>3. w \in Seq(Nodes) /\ ToSet(w) \in SUBSET Nodes /\ cnt' \in Nat
  BY Members
<1> HIDE DEF found
<1>4. CASE found \in Nodes /\ op' = [pc |-> "remove_next", kind |-> kind, keys |-> keys, bp |-> found, was |-> was]
  <2>1. op' \in OpType /\ op'.pc = "remove_next" /\ op'.kind = kind /\ op'.keys = keys /\ op'.bp = found
        /\ op'.was = was
    BY <1>4 DEF OpType, Pcs, Kinds
  <2>2. found \in ToSet(w) /\ heap[found].key \in keys
    BY <1>2, <1>4, ListConstants
  <2>3. heap'[found].key = heap[found].key
    BY <1>4
  <2>4. Shape(w)'
    BY <2>1, <2>2, <2>3 DEF Shape, Linking, Resting, Held, InKeys
  <2>5. History(Ks(heap, w))'
    BY <2>1 DEF History, Linking, Removing
  <2>6. Typing'
    BY <1>3, <2>1 DEF Typing
  <2>7. Inv'
    BY <2>1, <2>4, <2>5, <2>6 DEF Inv, FirstPcs
  <2> QED BY <2>1, <2>7
<1>5. CASE op' = Idle
  <2>1. op' \in OpType /\ op'.pc = "idle"
    BY <1>5 DEF Idle, OpType, Pcs, Kinds
  <2>2. Typing'
    BY <1>3, <2>1 DEF Typing
  <2> QED BY <2>1, <2>2, Done
<1>6. CASE found \notin Nodes /\ found # NULL /\ op' = [Idle EXCEPT !.pc = "crashed", !.was = was]
  <2>1. op' \in OpType /\ op'.pc = "crashed" /\ op'.was = was
    BY <1>6 DEF Idle, OpType, Pcs, Kinds
  <2>2. Typing'
    BY <1>3, <2>1 DEF Typing
  <2>3. Inv'
    BY <2>1, <2>2, Done
  <2> QED BY <1>2, <1>3, <1>6, <2>1, <2>3
<1> QED BY <1>1, <1>4, <1>5, <1>6

\* A removal begins with the keys of the list, or finds nothing to remove.
LEMMA StartRemoveStep ==
  ASSUME Inv, NEW kind \in {"del", "expire", "call"}, NEW keys \in SUBSET Keys, StartRemove(kind, keys)
  PROVE  Inv' /\ (op'.pc # "idle" => op'.was = KeysOf(Walk(head)))
<1>1. op.pc = "idle" /\ Seek(kind, keys, head, KeysOf(Walk(head))) /\ UNCHANGED <<heap, live, head, cnt, maxroutes>>
  BY DEF StartRemove
<1>2. PICK w : /\ List(heap, head, w) /\ Distinct(heap, w) /\ Mirror(heap, w) /\ Held(w)
               /\ KeysOf(Walk(head)) = Ks(heap, w) /\ Ks(heap, w) \in Seq(Keys)
  BY <1>1, AtRest
<1>3. head \in ToSet(w) \cup {NULL, Wild}
  <2>1. CASE head = NULL
    BY <2>1
  <2>2. CASE head # NULL
    <3>1. Len(w) \in Nat /\ Len(w) >= 1 /\ head = w[1]
      BY <1>2, <2>2, Members
    <3>2. 1 \in 1..Len(w)
      BY <3>1
    <3> QED BY <1>2, <3>1, <3>2, Members
  <2> QED BY <2>1, <2>2
<1>4. Typing
  BY DEF Inv
<1>5. Cache!Thinned(Ks(heap, w), Ks(heap, w), {})
  BY <1>2, ThinnedSame
<1>6. /\ heap' \in HeapType /\ head \in Nodes \cup {NULL} /\ maxroutes' \in Sizes /\ live' = ToSet(w) /\ cnt' = Len(w)
      /\ heap' = heap /\ head' = head
  BY <1>1, <1>2, <1>4 DEF Typing, Held
<1> DEFINE was == KeysOf(Walk(head))
<1>7. /\ List(heap', head', w) /\ Distinct(heap', w) /\ Mirror(heap', w)
      /\ \E D \in SUBSET keys : Cache!Thinned(Ks(heap', w), was, D)
  <2>1. {} \in SUBSET keys
    OBVIOUS
  <2> QED BY <1>2, <1>5, <1>6, <2>1
<1>8. was \in Seq(Keys) /\ Seek(kind, keys, head, was)
  BY <1>1, <1>2
<1> HIDE DEF was
<1>9. Inv' /\ (op'.pc # "idle" => op'.was = was)
  BY <1>2, <1>3, <1>6, <1>7, <1>8, SeekStep
<1> QED BY <1>9 DEF was

\* The entry freed, the list is as it was; when the call is over it lacks
\* only entries with the keys to remove.
LEMMA RemoveFreeStep ==
  ASSUME Inv, RemoveFree
  PROVE  /\ Inv'
         /\ op'.pc = "idle" => \E D \in SUBSET Keys : Cache!Thinned(KeysOf(Walk(head))', op.was, D)
         /\ op'.pc # "idle" => op'.was = op.was
<1>1. /\ op.pc = "remove_free" /\ Free(op.bp) /\ cnt' = cnt - 1 /\ UNCHANGED <<head, maxroutes>>
      /\ CASE op.kind = "del" -> Return
           [] op.kind = "expire" -> Seek("expire", op.keys, heap[op.bp].next, op.was)
           [] op.kind = "call" -> GotoWith("read_next", op.bp)
  BY DEF RemoveFree
<1>2. Typing /\ op \in OpType /\ op.was \in Seq(Keys) /\ op.keys \in SUBSET Keys
  BY DEF Inv, Typing, OpType
<1>3. PICK w : Shape(w) /\ History(Ks(heap, w))
  BY <1>1 DEF Inv, FirstPcs
<1>4. List(heap, head, w) /\ Distinct(heap, w) /\ Mirror(heap, w) /\ Out(w)
      /\ heap[op.bp].next \in ToSet(w) \cup {NULL}
  BY <1>1, <1>3 DEF Shape
<1>5. op.bp \in Nodes /\ op.bp \notin ToSet(w)
  BY <1>4 DEF Out
<1>6. /\ heap' \in HeapType /\ live' = live \ {op.bp}
      /\ heap'[op.bp].next \in {heap[op.bp].next, NULL, Wild}
      /\ \A m \in Nodes : m # op.bp => /\ heap'[m].next = heap[m].next
                                       /\ heap'[m].prev = heap[m].prev /\ heap'[m].key = heap[m].key
      /\ \A m \in Nodes : heap'[m].key = heap[m].key
  BY <1>1, <1>2, <1>5, FreeFacts DEF Typing
<1>7. List(heap', head, w) /\ Mirror(heap', w) /\ Distinct(heap', w) /\ Ks(heap', w) = Ks(heap, w)
  BY <1>4, <1>5, <1>6, OffList
<1>8. live' = ToSet(w) /\ cnt' = Len(w) /\ cnt' \in Nat
  BY <1>1, <1>4, <1>5, <1>6, Members DEF Out
<1>9. /\ head' = head /\ head \in Nodes \cup {NULL} /\ maxroutes' \in Sizes /\ live' \in SUBSET Nodes
      /\ List(heap', head', w)
  BY <1>1, <1>2, <1>6, <1>7 DEF Typing
<1>10. /\ op.kind \in {"del", "expire", "call"}
       /\ \E D \in SUBSET op.keys : Cache!Thinned(Ks(heap', w), op.was, D)
  BY <1>1, <1>3, <1>7 DEF History, Removing
<1>11. \E D \in SUBSET Keys : Cache!Thinned(KeysOf(Walk(head))', op.was, D)
  <2>1. KeysOf(Walk(head))' = Ks(heap', w)
    BY <1>9, WalkNext
  <2> QED BY <1>2, <1>10, <2>1
<1>12. ASSUME Return PROVE Inv' /\ op'.pc = "idle"
  <2>1. op' \in OpType /\ op'.pc = "idle"
    BY <1>12, ReturnFacts
  <2>2. Typing'
    BY <1>6, <1>8, <1>9, <2>1 DEF Typing
  <2> QED BY <1>7, <1>8, <1>9, <2>1, <2>2, Done
<1>13. ASSUME Seek("expire", op.keys, heap[op.bp].next, op.was)
       PROVE  Inv' /\ (op'.pc # "idle" => op'.was = op.was)
  <2> DEFINE keys == op.keys
             was == op.was
             n == heap[op.bp].next
  <2>1. keys \in SUBSET Keys /\ was \in Seq(Keys) /\ n \in ToSet(w) \cup {NULL, Wild} /\ Seek("expire", keys, n, was)
        /\ \E D \in SUBSET keys : Cache!Thinned(Ks(heap', w), was, D)
    BY <1>2, <1>4, <1>10, <1>13
  <2> HIDE DEF keys, was, n
  <2>2. Inv' /\ (op'.pc # "idle" => op'.was = was)
    BY <1>4, <1>6, <1>7, <1>8, <1>9, <2>1, SeekStep
  <2> QED BY <2>2 DEF was
<1>14. ASSUME GotoWith("read_next", op.bp)
       PROVE  Inv' /\ op'.pc # "idle" /\ op'.was = op.was
  <2>1. op' \in OpType /\ op'.pc = "read_next" /\ op'.kind = op.kind /\ op'.keys = op.keys
        /\ op'.bp = op.bp /\ op'.was = op.was
    BY <1>2, <1>5, <1>14, GotoWithFacts DEF Pcs
  <2>2. heap'[op'.bp].next \in ToSet(w) \cup {NULL, Wild}
    BY <1>4, <1>6, <2>1
  <2>3. Shape(w)'
    BY <1>5, <1>7, <1>8, <1>9, <2>1, <2>2 DEF Shape, Linking, Resting, Held
  <2>4. History(Ks(heap, w))'
    BY <1>10, <2>1 DEF History, Linking, Removing
  <2>5. Typing'
    BY <1>6, <1>8, <1>9, <2>1 DEF Typing
  <2> QED BY <2>1, <2>3, <2>4, <2>5 DEF Inv, FirstPcs
<1>15. Return \/ Seek("expire", op.keys, heap[op.bp].next, op.was) \/ GotoWith("read_next", op.bp)
  BY <1>1, <1>10
<1> QED BY <1>11, <1>12, <1>13, <1>14, <1>15

\* The entry freed may lead anywhere; the search that follows its pointer
\* finds an entry of the list, its end, or crashes.
LEMMA ReadNextStep ==
  ASSUME Inv, ReadNext
  PROVE  /\ Inv'
         /\ op'.pc = "idle" => \E D \in SUBSET Keys : Cache!Thinned(KeysOf(Walk(head))', op.was, D)
         /\ op'.pc # "idle" => op'.was = op.was
<1>1. op.pc = "read_next" /\ Seek("call", op.keys, heap[op.bp].next, op.was)
      /\ UNCHANGED <<heap, live, head, cnt, maxroutes>>
  BY DEF ReadNext
<1>2. Typing /\ op \in OpType /\ op.was \in Seq(Keys) /\ op.keys \in SUBSET Keys
  BY DEF Inv, Typing, OpType
<1>3. PICK w : Shape(w) /\ History(Ks(heap, w))
  BY <1>1 DEF Inv, FirstPcs
<1>4. List(heap, head, w) /\ Distinct(heap, w) /\ Mirror(heap, w) /\ Held(w)
      /\ heap[op.bp].next \in ToSet(w) \cup {NULL, Wild}
  BY <1>1, <1>3 DEF Shape, Resting
<1>5. /\ heap' \in HeapType /\ head' = head /\ head \in Nodes \cup {NULL} /\ maxroutes' \in Sizes
      /\ live' = ToSet(w) /\ cnt' = Len(w) /\ heap' = heap
      /\ List(heap', head', w) /\ Distinct(heap', w) /\ Mirror(heap', w)
  BY <1>1, <1>2, <1>4 DEF Typing, Held
<1>6. \E D \in SUBSET op.keys : Cache!Thinned(Ks(heap', w), op.was, D)
  BY <1>1, <1>3, <1>5 DEF History, Removing
<1>7. \E D \in SUBSET Keys : Cache!Thinned(KeysOf(Walk(head))', op.was, D)
  <2>1. KeysOf(Walk(head))' = Ks(heap', w)
    BY <1>5, WalkNext
  <2> QED BY <1>2, <1>6, <2>1
<1> DEFINE keys == op.keys
           was == op.was
           n == heap[op.bp].next
<1>8. keys \in SUBSET Keys /\ was \in Seq(Keys) /\ n \in ToSet(w) \cup {NULL, Wild} /\ Seek("call", keys, n, was)
      /\ \E D \in SUBSET keys : Cache!Thinned(Ks(heap', w), was, D)
  BY <1>1, <1>2, <1>4, <1>6
<1> HIDE DEF keys, was, n
<1>9. Inv' /\ (op'.pc # "idle" => op'.was = was)
  BY <1>4, <1>5, <1>8, SeekStep
<1> QED BY <1>7, <1>9 DEF was

\* Another maximum: nothing is evicted.
LEMMA ReloadStep ==
  ASSUME Inv, Reload
  PROVE  Inv'
<1> USE DEF Reload
<1>1. PICK w : List(heap, head, w) /\ Distinct(heap, w) /\ Mirror(heap, w) /\ Held(w)
  BY AtRest
<1>2. Typing' /\ op'.pc = "idle"
  BY DEF Inv, Typing
<1>3. List(heap', head', w) /\ Distinct(heap', w) /\ Mirror(heap', w) /\ live' = ToSet(w) /\ cnt' = Len(w)
  BY <1>1 DEF Held
<1> QED BY <1>2, <1>3, Done

\* The empty list.
LEMMA InitInv ==
  ASSUME Init
  PROVE  Inv
<1> DEFINE w == <<>>
<1>1. w \in Seq(Nodes) /\ Len(w) = 0 /\ 1..Len(w) = {} /\ ToSet(w) = {}
  BY DEF ToSet
<1> HIDE DEF w
<1>2. Typing
  <2>1. heap \in HeapType
    BY DEF Init, HeapType
  <2>2. op \in OpType
    BY DEF Init, Idle, OpType, Pcs, Kinds
  <2> QED BY <2>1, <2>2 DEF Init, Typing
<1>3. List(heap, head, w) /\ Distinct(heap, w) /\ Mirror(heap, w) /\ Held(w) /\ op.pc = "idle"
  BY <1>1 DEF Init, Idle, List, At, Distinct, Mirror, Held
<1>4. Shape(w)
  BY <1>3 DEF Shape, Linking
<1>5. History(Ks(heap, w))
  BY <1>3 DEF History, Linking, Removing
<1> QED BY <1>2, <1>3, <1>4, <1>5 DEF Inv, FirstPcs

LEMMA NextInv ==
  ASSUME Inv, [Next]_vars
  PROVE  Inv'
<1>1. CASE UNCHANGED vars
  BY <1>1, Stutter
<1>2. ASSUME NEW k \in Keys, Update(k) PROVE Inv'
  BY <1>2, UpdateStep
<1>3. ASSUME NEW kind \in {"del", "expire", "call"}, NEW keys \in SUBSET Keys, StartRemove(kind, keys) PROVE Inv'
  BY <1>3, StartRemoveStep
<1>4. CASE UnlinkNext \/ UnlinkPrev \/ LinkNext \/ LinkPrev \/ LinkBack \/ LinkHead
  BY <1>4, UnlinkNextStep, UnlinkPrevStep, LinkNextStep, LinkPrevStep, LinkBackStep, LinkHeadStep
<1>5. CASE CutTail \/ FreeTail \/ CountTail \/ Malloc \/ FirstHead \/ FirstPrev \/ FirstNext
  BY <1>5, CutTailStep, FreeTailStep, CountTailStep, MallocStep, FirstHeadStep, FirstPrevStep, FirstNextStep
<1>6. CASE RemoveNext \/ RemovePrev \/ RemoveHead \/ RemoveFree \/ ReadNext
  BY <1>6, RemoveNextStep, RemovePrevStep, RemoveHeadStep, RemoveFreeStep, ReadNextStep
<1>7. CASE Reload
  BY <1>7, ReloadStep
<1>8. CASE Crashed
  BY <1>8, Stutter DEF Crashed
<1> QED BY <1>1, <1>2, <1>3, <1>4, <1>5, <1>6, <1>7, <1>8 DEF Next

\* At every statement of cache_ctl.c the list has the shape and the keys
\* that the inductive invariant says.
THEOREM InvHolds == Spec => []Inv
<1>1. Init => Inv
  BY InitInv
<1>2. Inv /\ [Next]_vars => Inv'
  BY NextInv
<1> QED BY <1>1, <1>2, PTL DEF Spec

-----------------------------------------------------------------------------
(* What the invariant says to a reader of the code *)

\* Only the last key of a sequence is lost when it is cut off, or when room
\* is made for a new one.
LEMMA OnlyLast ==
  ASSUME NEW s \in Seq(Keys), s # <<>>
  PROVE  ToSet(s) \ {Last(s)} \subseteq ToSet(Cut(s, Len(s)))
<1>1. Len(s) \in Nat /\ Len(s) >= 1 /\ ToSet(s) = {s[i] : i \in 1..Len(s)}
  BY EmptySeq DEF ToSet
<1>2. DOMAIN Cut(s, Len(s)) = 1..Len(s) - 1 /\ \A i \in 1..Len(s) - 1 : Cut(s, Len(s))[i] = s[i]
  BY <1>1 DEF Cut
<1>3. ASSUME NEW i \in 1..Len(s), s[i] # Last(s) PROVE s[i] \in ToSet(Cut(s, Len(s)))
  <2>1. i \in 1..Len(s) - 1
    BY <1>1, <1>3 DEF Last
  <2> QED BY <1>2, <2>1 DEF ToSet
<1> QED BY <1>1, <1>3

LEMMA RoomKeeps ==
  ASSUME NEW s \in Seq(Keys)
  PROVE  ToSet(s) \ (IF s = <<>> THEN {} ELSE {Last(s)}) \subseteq ToSet(Cache!Room(s))
<1>1. CASE s = <<>>
  BY <1>1 DEF ToSet
<1>2. CASE s # <<>> /\ Len(s) >= maxroutes
  BY <1>2, OnlyLast, CutLast DEF Cache!Room
<1>3. CASE ~(Len(s) >= maxroutes)
  <2>1. Cache!Room(s) = s
    BY <1>3 DEF Cache!Room
  <2> QED BY <2>1
<1> QED BY <1>1, <1>2, <1>3

\* The counter, whatever the statement.
LEMMA Counted ==
  ASSUME Inv
  PROVE  cnt \in {Cardinality(live), Cardinality(live) + 1}
<1>1. CASE op.pc \in FirstPcs
  <2>1. First
    BY <1>1 DEF Inv
  <2> QED BY <2>1, FS_Singleton DEF First
<1>2. CASE op.pc \notin FirstPcs
  <2>1. PICK w : Shape(w)
    BY <1>2 DEF Inv
  <2>2. List(heap, head, w) /\ op \in OpType
    BY <2>1 DEF Shape, Inv, Typing
  <2>3. /\ w \in Seq(Nodes) /\ Len(w) \in Nat
        /\ IsFiniteSet(ToSet(w)) /\ Cardinality(ToSet(w)) = Len(w)
    BY <2>2, ListLength DEF List
  <2>4. Held(w) \/ Out(w) \/ (live = ToSet(w) /\ cnt = Len(w) + 1)
    <3>1. op.pc \in Pcs
      BY <2>2 DEF OpType
    <3> QED BY <1>2, <2>1, <3>1 DEF Shape, Resting, Linking, FirstPcs, Pcs
  <2>5. CASE Out(w)
    <3>1. Cardinality(ToSet(w) \cup {op.bp}) = Cardinality(ToSet(w)) + 1
      BY <2>3, <2>5, FS_AddElement DEF Out
    <3> QED BY <2>3, <2>5, <3>1 DEF Out
  <2> QED BY <2>3, <2>4, <2>5 DEF Held
<1> QED BY <1>1, <1>2

LEMMA InvWhole == Inv => ListWhole
<1> SUFFICES ASSUME Inv, op.pc \in {"idle", "crashed"}
             PROVE  LET w == Walk(head)
                    IN  /\ Last(Chain(head)) = NULL
                        /\ \A i \in DOMAIN w : heap[w[i]].prev = IF i = 1 THEN NULL ELSE w[i - 1]
                        /\ live = ToSet(w) /\ cnt = Len(w)
  BY DEF ListWhole
<1>1. PICK w : /\ List(heap, head, w) /\ Mirror(heap, w) /\ Held(w)
               /\ Walk(head) = w /\ Last(Chain(head)) = NULL
  BY AtRest
<1>2. DOMAIN w = 1..Len(w) /\ Len(w) \in Nat
  BY <1>1, Members
<1>3. ASSUME NEW i \in DOMAIN w PROVE heap[w[i]].prev = IF i = 1 THEN NULL ELSE w[i - 1]
  <2>1. heap[w[i]].prev = At(w, i - 1)
    BY <1>1, <1>2 DEF Mirror
  <2>2. i \in 1..Len(w) /\ (i # 1 => i - 1 \in 1..Len(w)) /\ (i = 1 => i - 1 \notin 1..Len(w))
    BY <1>2
  <2> QED BY <2>1, <2>2 DEF At
<1> QED BY <1>1, <1>3 DEF Held

\* What a signal handler finds.
LEMMA InvSaved == Inv => SavedComplete
<1> SUFFICES ASSUME Inv, op.pc \notin {"first_prev", "first_next"}
             PROVE  /\ Walkable
                    /\ LET evicted == IF op.kind = "update" /\ op.was # <<>> /\ op.keys \cap ToSet(op.was) = {}
                                     THEN {Last(op.was)} ELSE {}
                       IN  op.pc \notin {"idle", "crashed"} =>
                             ToSet(op.was) \ (op.keys \cup evicted) \subseteq ToSet(KeysOf(Walk(head)))
  BY DEF SavedComplete
<1>1. PICK w : Shape(w) /\ History(Ks(heap, w))
  BY DEF Inv, FirstPcs
<1>2. List(heap, head, w) /\ Distinct(heap, w) /\ op \in OpType /\ op.was \in Seq(Keys)
  BY <1>1 DEF Shape, Inv, Typing, OpType
<1>3. Last(Chain(head)) = NULL /\ Walk(head) = w /\ KeysOf(Walk(head)) = Ks(heap, w)
  BY <1>2, WalkIs
<1>4. Walkable
  <2>1. ToSet(w) \subseteq live
    <3>1. op.pc \in Pcs
      BY <1>2 DEF OpType
    <3>2. Held(w) \/ Out(w) \/ live = ToSet(w)
      BY <1>1, <3>1 DEF Shape, Resting, Linking, Pcs
    <3> QED BY <3>2 DEF Held, Out
  <2>2. IsInjective(Ks(heap, w))
    BY <1>2, KeysApart DEF IsInjective
  <2> QED BY <1>3, <2>1, <2>2 DEF Walkable
<1> DEFINE ks == Ks(heap, w)
           evicted == IF op.kind = "update" /\ op.was # <<>> /\ op.keys \cap ToSet(op.was) = {}
                      THEN {Last(op.was)} ELSE {}
<1> HIDE DEF ks
<1>5. ASSUME Entering PROVE evicted = IF op.was = <<>> THEN {} ELSE {Last(op.was)}
  BY <1>5 DEF Entering
<1> HIDE DEF evicted
<1>6. ASSUME op.pc \notin {"idle", "crashed"} PROVE ToSet(op.was) \ (op.keys \cup evicted) \subseteq ToSet(ks)
  <2>1. \/ ks = op.was
        \/ Entering /\ op.was # <<>> /\ ks = Cut(op.was, Len(op.was))
        \/ Entering /\ ks = Cache!Room(op.was)
        \/ \E D \in SUBSET op.keys : Cache!Thinned(ks, op.was, D)
    <3>1. op.pc \in Pcs
      BY <1>2 DEF OpType
    <3> QED BY <1>1, <1>6, <3>1 DEF ks, History, Full, Linking, Removing, Pcs
  <2>2. CASE ks = op.was
    BY <2>2
  <2>3. CASE Entering /\ op.was # <<>> /\ ks = Cut(op.was, Len(op.was))
    BY <1>2, <1>5, <2>3, OnlyLast
  <2>4. CASE Entering /\ ks = Cache!Room(op.was)
    BY <1>2, <1>5, <2>4, RoomKeeps
  <2>5. CASE \E D \in SUBSET op.keys : Cache!Thinned(ks, op.was, D)
    BY <2>5 DEF Cache!Thinned, Cache!Keyset, ToSet
  <2> QED BY <2>1, <2>2, <2>3, <2>4, <2>5
<1> QED BY <1>3, <1>4, <1>6 DEF ks, evicted

\* cache_ctl.c: the list is whole between two calls, and whenever a signal
\* comes its handler can walk it and saves every entry that the call under
\* way is not about, no key twice; but for the first entry of an empty list.
THEOREM ListCorrect == Spec => []CacheWhole
<1>1. Inv => TypeOK
  <2> SUFFICES ASSUME Inv PROVE TypeOK
    OBVIOUS
  <2>1. Typing /\ cnt \in {Cardinality(live), Cardinality(live) + 1}
    BY Counted DEF Inv
  <2> QED BY <2>1 DEF TypeOK, Typing, HeapType, OpType, Kinds
<1>2. Inv => CacheWhole
  BY <1>1, InvWhole, InvSaved DEF CacheWhole
<1> QED BY <1>2, InvHolds, PTL

-----------------------------------------------------------------------------
(* The list implements the route cache *)

\* The keys of the cache, as the refinement mapping takes them from the list.
Order == IF op.pc = "idle" THEN KeysOf(Walk(head)) ELSE op.was

\* A call that goes on has not changed the cache.
LEMMA GoesOn ==
  ASSUME op.pc # "idle", op'.pc # "idle", op'.was = op.was, maxroutes' = maxroutes
  PROVE  Order' = Order /\ maxroutes' = maxroutes
BY DEF Order

\* A call that ends with its key in front has touched it.
LEMMA Touched ==
  ASSUME NEW k \in Keys, NEW ks \in Seq(Keys), op.pc # "idle", op'.pc = "idle", maxroutes' = maxroutes,
         KeysOf(Walk(head))' = Push(k, ks),
         \/ k \in ToSet(op.was) /\ Cache!Thinned(ks, op.was, {k})
         \/ k \notin ToSet(op.was) /\ ks = Cache!Room(op.was) /\ ~(op.was = <<>> /\ maxroutes = 0)
  PROVE  Cache!Next
<1>1. Order = op.was /\ Order' = Push(k, ks)
  BY DEF Order
<1>2. Order' # <<>> /\ Head(Order') = k /\ Tail(Order') = ks /\ Order' = <<k>> \o ks
  BY <1>1, PushIsConcat
<1>3. Cache!Keyset(op.was) = ToSet(op.was)
  BY DEF Cache!Keyset, ToSet
<1>4. Cache!Known(k) \/ Cache!New(k)
  BY <1>1, <1>2, <1>3 DEF Cache!Known, Cache!New, Order
<1>5. Cache!Touch(k)
  BY <1>4 DEF Cache!Touch
<1> QED BY <1>5 DEF Cache!Next

\* A call that ends with some keys gone has dropped them.
LEMMA Dropped ==
  ASSUME op.pc # "idle", op'.pc = "idle", maxroutes' = maxroutes,
         \E D \in SUBSET Keys : Cache!Thinned(KeysOf(Walk(head))', op.was, D)
  PROVE  Cache!Next
<1>1. Order = op.was /\ Order' = KeysOf(Walk(head))'
  BY DEF Order
<1>2. PICK D \in SUBSET Keys : Cache!Thinned(Order', Order, D)
  BY <1>1
<1>3. Cache!Drop(D)
  BY <1>2 DEF Cache!Drop, Order
<1> QED BY <1>3 DEF Cache!Next

\* A call that ends the list's share in it without the new key has made room.
LEMMA NoMemory ==
  ASSUME op.pc # "idle", op'.pc = "idle", maxroutes' = maxroutes,
         KeysOf(Walk(head))' = Cache!Room(op.was), ~(op.was = <<>> /\ maxroutes = 0),
         \E k \in Keys : k \notin ToSet(op.was)
  PROVE  Cache!Next
<1>1. Order = op.was /\ Order' = Cache!Room(op.was)
  BY DEF Order
<1>2. PICK k \in Keys : k \notin Cache!Keyset(op.was)
  BY DEF Cache!Keyset, ToSet
<1>3. Cache!New(k)
  BY <1>1, <1>2 DEF Cache!New, Order
<1> QED BY <1>3 DEF Cache!Touch, Cache!Next

\* Every statement is a step of the cache or leaves it as it is.
LEMMA StepIsCacheStep ==
  ASSUME Inv, [Next]_vars
  PROVE  Cache!Next \/ (Order' = Order /\ maxroutes' = maxroutes)
<1>1. ASSUME op' = op, head' = head, heap' = heap PROVE Order' = Order
  <2>1. KeysOf(Walk(head))' = KeysOf(Walk(head))
    BY <1>1 DEF KeysOf, Walk, Chain
  <2> QED BY <1>1, <2>1 DEF Order
<1>2. op \in OpType
  BY DEF Inv, Typing
<1>3. ASSUME NEW k \in Keys, Update(k) PROVE Order' = Order /\ maxroutes' = maxroutes
  <2>1. op.pc = "idle" /\ UNCHANGED <<heap, live, head, cnt, maxroutes>>
    BY <1>3 DEF Update
  <2>2. op' = op \/ (op'.pc # "idle" /\ op'.was = KeysOf(Walk(head)))
    BY <1>3, UpdateStep
  <2> QED BY <1>1, <2>1, <2>2 DEF Order
<1>4. ASSUME NEW kind \in {"del", "expire", "call"}, NEW keys \in SUBSET Keys, StartRemove(kind, keys)
      PROVE  Order' = Order /\ maxroutes' = maxroutes
  <2>1. op.pc = "idle" /\ head' = head /\ heap' = heap /\ maxroutes' = maxroutes
    BY <1>4 DEF StartRemove
  <2>2. op'.pc # "idle" => op'.was = KeysOf(Walk(head))
    BY <1>4, StartRemoveStep
  <2>3. KeysOf(Walk(head))' = KeysOf(Walk(head))
    BY <2>1 DEF KeysOf, Walk, Chain
  <2> QED BY <2>1, <2>2, <2>3 DEF Order
<1>5. ASSUME NEW pc \in Pcs \ {"idle"}, Goto(pc), op.pc # "idle", maxroutes' = maxroutes
      PROVE  Order' = Order /\ maxroutes' = maxroutes
  BY <1>2, <1>5, GotoFacts, GoesOn
<1>6. CASE UnlinkNext \/ UnlinkPrev \/ LinkNext \/ LinkPrev \/ LinkBack
  BY <1>5, <1>6 DEF UnlinkNext, UnlinkPrev, LinkNext, LinkPrev, LinkBack, Pcs
<1>7. CASE CutTail \/ FreeTail \/ CountTail \/ FirstHead \/ FirstPrev
  BY <1>5, <1>7 DEF CutTail, FreeTail, CountTail, FirstHead, FirstPrev, Pcs
<1>8. CASE RemoveNext \/ RemovePrev \/ RemoveHead
  BY <1>5, <1>8 DEF RemoveNext, RemovePrev, RemoveHead, Pcs
<1>9. CASE LinkHead
  <2>1. op.pc # "idle" /\ op'.pc = "idle" /\ maxroutes' = maxroutes
    BY <1>9, ReturnFacts DEF LinkHead
  <2> QED BY <1>9, <2>1, LinkHeadStep, Touched
<1>10. CASE FirstNext
  <2>1. op.pc # "idle" /\ op'.pc = "idle" /\ maxroutes' = maxroutes
    BY <1>10, ReturnFacts DEF FirstNext
  <2> QED BY <1>10, <2>1, FirstNextStep, Touched
<1>11. CASE Malloc
  <2>1. op.pc # "idle" /\ maxroutes' = maxroutes
    BY <1>11 DEF Malloc
  <2>2. CASE op'.pc = "idle"
    BY <1>11, <2>1, <2>2, MallocStep, NoMemory
  <2>3. CASE op'.pc # "idle"
    BY <1>11, <2>1, <2>3, MallocStep, GoesOn
  <2> QED BY <2>2, <2>3
<1>12. CASE RemoveFree \/ ReadNext
  <2>1. op.pc # "idle" /\ maxroutes' = maxroutes
    BY <1>12 DEF RemoveFree, ReadNext
  <2>2. CASE op'.pc = "idle"
    BY <1>12, <2>1, <2>2, RemoveFreeStep, ReadNextStep, Dropped
  <2>3. CASE op'.pc # "idle"
    BY <1>12, <2>1, <2>3, RemoveFreeStep, ReadNextStep, GoesOn
  <2> QED BY <2>2, <2>3
<1>13. CASE Reload
  <2>1. maxroutes' \in Sizes /\ Order' = Order
    BY <1>1, <1>13 DEF Reload
  <2> QED BY <2>1 DEF Cache!Resize, Cache!Next, Order
<1>14. CASE Crashed \/ UNCHANGED vars
  BY <1>1, <1>14 DEF Crashed, vars
<1> QED BY <1>3, <1>4, <1>6, <1>7, <1>8, <1>9, <1>10, <1>11, <1>12, <1>13, <1>14 DEF Next

\* cache_ctl.c implements the route cache: each update, deletion or expiry
\* is one step of it, taken when the function returns.
THEOREM ListIsCache == Spec => CacheSpec
<1>1. Init => Cache!Init
  <2> SUFFICES ASSUME Init PROVE Cache!Init
    OBVIOUS
  <2>1. Inv /\ op.pc = "idle" /\ head = NULL
    BY InitInv DEF Init, Idle
  <2>2. PICK w : List(heap, head, w) /\ KeysOf(Walk(head)) = Ks(heap, w)
    BY <2>1, AtRest
  <2>3. w = <<>>
    BY <2>1, <2>2, Members
  <2>4. KeysOf(Walk(head)) = <<>>
    BY <2>2, <2>3 DEF Ks
  <2> QED BY <2>1, <2>4 DEF Init, Cache!Init
<1>2. Inv /\ [Next]_vars => [Cache!Next]_<<Order, maxroutes>>
  BY StepIsCacheStep
<1>3. Inv /\ [Next]_vars =>
        [Cache!Next]_<<IF op.pc = "idle" THEN KeysOf(Walk(head)) ELSE op.was, maxroutes>>
  BY <1>2 DEF Order
<1> QED BY <1>1, <1>3, InvHolds, PTL DEF Spec, CacheSpec, Cache!Spec

-----------------------------------------------------------------------------
(* Lists without some of their entries *)

\* A set that has 0 and with each number the next one has them all.
LEMMA AllNat ==
  ASSUME NEW T \in SUBSET Nat, 0 \in T, \A n \in T : n + 1 \in T
  PROVE  T = Nat
<1> DEFINE Bad == Nat \ T
<1>1. ASSUME Bad # {} PROVE FALSE
  <2>1. PICK n \in Bad : \A m \in Bad : n <= m
    BY <1>1, LeastNat
  <2>2. n - 1 \in Nat /\ n - 1 \notin Bad
    BY <2>1
  <2> QED BY <2>1, <2>2
<1> QED BY <1>1

\* f is the beginning, up to n, of what step makes of x again and again.
Begins(f, n, S, x, step) ==
  /\ f \in [0..n -> S] /\ f[0] = x
  /\ \A i \in 0..n : i # n => f[i + 1] = step[<<i, f[i]>>]

LEMMA BeginsExists ==
  ASSUME NEW S, NEW x \in S, NEW step \in [Nat \X S -> S], NEW n \in Nat
  PROVE  \E f : Begins(f, n, S, x, step)
<1> DEFINE T == {k \in Nat : \E f : Begins(f, k, S, x, step)}
<1>1. 0 \in T
  <2>1. Begins([i \in 0..0 |-> x], 0, S, x, step)
    BY DEF Begins
  <2> QED BY <2>1
<1>2. ASSUME NEW k \in T PROVE k + 1 \in T
  <2>1. PICK f : Begins(f, k, S, x, step)
    BY <1>2
  <2> DEFINE g == [i \in 0..k + 1 |-> IF i = k + 1 THEN step[<<k, f[k]>>] ELSE f[i]]
  <2>2. f[k] \in S /\ step[<<k, f[k]>>] \in S
    BY <2>1 DEF Begins
  <2>3. g \in [0..k + 1 -> S] /\ g[0] = x
    BY <2>1, <2>2 DEF Begins
  <2>4. ASSUME NEW i \in 0..k + 1, i # k + 1 PROVE g[i + 1] = step[<<i, g[i]>>]
    <3>1. g[i] = f[i] /\ i \in 0..k
      BY <2>4
    <3>2. CASE i = k
      <4>1. i + 1 = k + 1 /\ i + 1 \in 0..k + 1
        BY <3>2
      <4>2. g[i + 1] = step[<<k, f[k]>>]
        BY <4>1
      <4> QED BY <3>1, <3>2, <4>2
    <3>3. CASE i # k
      <4>1. g[i + 1] = f[i + 1]
        BY <3>1, <3>3
      <4> QED BY <2>1, <3>1, <3>3, <4>1 DEF Begins
    <3> QED BY <3>2, <3>3
  <2>5. Begins(g, k + 1, S, x, step)
    BY <2>3, <2>4 DEF Begins
  <2> QED BY <2>5
<1>3. T = Nat
  <2> HIDE DEF T
  <2>1. T \in SUBSET Nat
    BY DEF T
  <2> QED BY <1>1, <1>2, <2>1, AllNat
<1> QED BY <1>3
\* A recursive definition on 0..k describes a function.
Describes(f, S, x, k, step) ==
  /\ f \in [0..k -> S] /\ f[0] = x
  /\ \A i \in 0..k : i # 0 => f[i] = step[<<i, f[i - 1]>>]

LEMMA Defines ==
  ASSUME NEW S, NEW x \in S, NEW k \in Nat, NEW step \in [Nat \X S -> S]
  PROVE  \E f : Describes(f, S, x, k, step)
<1> DEFINE go == [p \in Nat \X S |-> step[<<p[1] + 1, p[2]>>]]
<1>1. go \in [Nat \X S -> S] /\ \A i \in Nat, s \in S : go[<<i, s>>] = step[<<i + 1, s>>]
  OBVIOUS
<1> HIDE DEF go
<1>2. PICK f : Begins(f, k, S, x, go)
  BY <1>1, BeginsExists
<1>3. ASSUME NEW i \in 0..k, i # 0 PROVE f[i] = step[<<i, f[i - 1]>>]
  <2>1. i - 1 \in Nat /\ i - 1 \in 0..k /\ i - 1 # k /\ (i - 1) + 1 = i
    BY <1>3
  <2>2. f[i - 1] \in S /\ f[(i - 1) + 1] = go[<<i - 1, f[i - 1]>>]
    BY <1>2, <2>1 DEF Begins
  <2> QED BY <1>1, <2>1, <2>2
<1> QED BY <1>2, <1>3 DEF Begins, Describes

\* The entries of w are entries of s, at places up to n that are not in I.
Places(f, w, n, I) ==
  /\ f \in [1..Len(w) -> (1..n) \ I]
  /\ \A i, j \in 1..Len(w) : f[i] = f[j] => i = j
Part(w, s, n, I, S) ==
  w \in Seq(S) /\ \E f : Places(f, w, n, I) /\ \A i \in 1..Len(w) : w[i] = s[f[i]]

LEMMA PartNone ==
  ASSUME NEW S, NEW s \in Seq(S), NEW n \in Nat, NEW I
  PROVE  Part(<<>>, s, n, I, S)
<1>1. Places(<<>>, <<>>, n, I)
  BY DEF Places
<1> QED BY <1>1 DEF Part

LEMMA PartSkip ==
  ASSUME NEW S, NEW s \in Seq(S), NEW n \in Nat, NEW m \in Nat, m <= n, NEW I, NEW w,
         Part(w, s, m, I, S)
  PROVE  Part(w, s, n, I, S)
<1>1. PICK f : Places(f, w, m, I) /\ \A i \in 1..Len(w) : w[i] = s[f[i]]
  BY DEF Part
<1>2. (1..m) \ I \subseteq (1..n) \ I
  OBVIOUS
<1>3. Places(f, w, n, I)
  BY <1>1, <1>2 DEF Places
<1> QED BY <1>1, <1>3 DEF Part

LEMMA PartMore ==
  ASSUME NEW S, NEW s \in Seq(S), NEW n \in 1..Len(s), NEW I, n \notin I, NEW w,
         Part(w, s, n - 1, I, S)
  PROVE  Part(Append(w, s[n]), s, n, I, S)
<1> DEFINE v == Append(w, s[n])
<1>1. PICK f : Places(f, w, n - 1, I) /\ \A i \in 1..Len(w) : w[i] = s[f[i]]
  BY DEF Part
<1> DEFINE g == [i \in 1..Len(v) |-> IF i = Len(v) THEN n ELSE f[i]]
<1>2. w \in Seq(S) /\ s[n] \in S
  BY DEF Part
<1>3. /\ v \in Seq(S) /\ Len(v) = Len(w) + 1 /\ Len(w) \in Nat
      /\ \A i \in 1..Len(w) : v[i] = w[i]
      /\ v[Len(v)] = s[n]
  BY <1>2
<1> HIDE DEF v
<1>4. \A i \in 1..Len(v) : i = Len(v) \/ i \in 1..Len(w)
  BY <1>3
<1>5. /\ f \in [1..Len(w) -> (1..n - 1) \ I]
      /\ \A i, j \in 1..Len(w) : f[i] = f[j] => i = j
  BY <1>1 DEF Places
<1>6. ASSUME NEW i \in 1..Len(w) PROVE g[i] = f[i] /\ f[i] \in (1..n) \ I /\ f[i] # n
  <2>1. f[i] \in (1..n - 1) \ I
    BY <1>5
  <2> QED BY <1>3, <2>1
<1>7. g[Len(v)] = n /\ n \in (1..n) \ I
  BY <1>3
<1>8. g \in [1..Len(v) -> (1..n) \ I]
  BY <1>4, <1>6, <1>7
<1>9. ASSUME NEW i \in 1..Len(v), NEW j \in 1..Len(v), g[i] = g[j] PROVE i = j
  <2> HIDE DEF g
  <2> QED BY <1>4, <1>5, <1>6, <1>7, <1>9
<1>10. ASSUME NEW i \in 1..Len(v) PROVE v[i] = s[g[i]]
  <2> HIDE DEF g
  <2> QED BY <1>1, <1>3, <1>4, <1>6, <1>7
<1>11. Places(g, v, n, I)
  <2> HIDE DEF g
  <2> QED BY <1>8, <1>9 DEF Places
<1>12. Part(v, s, n, I, S)
  <2> HIDE DEF g
  <2> QED BY <1>3, <1>10, <1>11 DEF Part
<1> QED BY <1>12 DEF v

\* What is left of a list without some of its entries.
LEMMA WithoutPart ==
  ASSUME NEW S, NEW s \in Seq(S), NEW I
  PROVE  Part(Without(s, I), s, Len(s), I, S)
<1> DEFINE n == Len(s)
           R == Seq(S)
           go(i, t) == IF i \in I THEN t ELSE Append(t, s[i])
           Is(f) == f = [i \in 0..n |-> IF i = 0 THEN <<>>
                                        ELSE IF i \in I THEN f[i - 1] ELSE Append(f[i - 1], s[i])]
           all == CHOOSE f : Is(f)
           step == [p \in Nat \X R |-> IF p[1] \in 1..n THEN go(p[1], p[2]) ELSE p[2]]
<1>1. n \in Nat /\ <<>> \in R
  OBVIOUS
<1>2. \A i \in 1..n, t \in R : go(i, t) \in R
  OBVIOUS
<1>3. Without(s, I) = all[n]
  BY DEF Without
<1>4. ASSUME NEW i \in 1..n, NEW t, Part(t, s, i - 1, I, S) PROVE Part(go(i, t), s, i, I, S)
  <2>1. CASE i \in I
    BY <1>4, <2>1, PartSkip
  <2>2. CASE i \notin I
    BY <1>4, <2>2, PartMore
  <2> QED BY <2>1, <2>2
<1>5. Part(<<>>, s, 0, I, S)
  BY PartNone
<1> HIDE DEF n, R
<1>6. \A f : Is(f) <=> f = [i \in 0..n |-> IF i = 0 THEN <<>> ELSE go(i, f[i - 1])]
  OBVIOUS
<1> HIDE DEF Is, go
<1>7. step \in [Nat \X R -> R]
  <2>1. ASSUME NEW i \in Nat, NEW t \in R PROVE (IF i \in 1..n THEN go(i, t) ELSE t) \in R
    BY <1>2
  <2> QED BY <2>1
<1>8. \A i \in 1..n, t \in R : step[<<i, t>>] = go(i, t)
  BY <1>1
<1> HIDE DEF step
<1>9. PICK f : Describes(f, R, <<>>, n, step)
  BY <1>1, <1>7, Defines
<1>10. Is(f)
  <2>1. ASSUME NEW i \in 0..n PROVE f[i] = IF i = 0 THEN <<>> ELSE go(i, f[i - 1])
    <3>1. i # 0 => i \in 1..n /\ i - 1 \in 0..n
      BY <1>1
    <3>2. CASE i = 0
      BY <1>9, <3>2 DEF Describes
    <3>3. CASE i # 0
      <4>1. f[i] = step[<<i, f[i - 1]>>] /\ f[i - 1] \in R
        BY <1>9, <3>1, <3>3 DEF Describes
      <4> QED BY <1>8, <3>1, <3>3, <4>1
    <3> QED BY <3>2, <3>3
  <2>2. f = [i \in 0..n |-> f[i]]
    BY <1>9 DEF Describes
  <2> QED BY <1>6, <2>1, <2>2
<1>11. Is(all)
  BY <1>10
<1> HIDE DEF all
<1>12. \A i \in 0..n : all[i] = IF i = 0 THEN <<>> ELSE go(i, all[i - 1])
  BY <1>6, <1>11
<1> DEFINE T == {i \in Nat : i <= n => Part(all[i], s, i, I, S)}
<1>13. 0 \in T
  <2>1. 0 \in 0..n
    BY <1>1
  <2>2. all[0] = <<>>
    BY <1>12, <2>1
  <2> QED BY <1>5, <2>2
<1>14. ASSUME NEW i \in T PROVE i + 1 \in T
  <2> SUFFICES ASSUME i + 1 <= n PROVE Part(all[i + 1], s, i + 1, I, S)
    BY <1>14
  <2>1. i + 1 \in 1..n /\ i + 1 \in 0..n /\ (i + 1) - 1 = i /\ i + 1 # 0 /\ i <= n
    BY <1>1, <1>14
  <2>2. Part(all[i], s, (i + 1) - 1, I, S)
    BY <1>14, <2>1
  <2>3. Part(go(i + 1, all[i]), s, i + 1, I, S)
    BY <1>4, <2>1, <2>2
  <2>4. all[i + 1] = go(i + 1, all[(i + 1) - 1])
    BY <1>12, <2>1
  <2> QED BY <2>1, <2>3, <2>4
<1>15. T = Nat
  <2> HIDE DEF T
  <2>1. T \in SUBSET Nat
    BY DEF T
  <2> QED BY <1>13, <1>14, <2>1, AllNat
<1>16. Part(all[n], s, n, I, S)
  BY <1>1, <1>15
<1> QED BY <1>3, <1>16 DEF n

LEMMA PartWhole ==
  ASSUME NEW S, NEW s \in Seq(S), NEW I, \A i \in 1..Len(s) : i \notin I
  PROVE  Part(s, s, Len(s), I, S)
<1> DEFINE f == [i \in 1..Len(s) |-> i]
<1>1. Places(f, s, Len(s), I) /\ \A i \in 1..Len(s) : s[i] = s[f[i]]
  BY DEF Places
<1> QED BY <1>1 DEF Part

LEMMA RoomPart ==
  ASSUME NEW S, NEW s \in Seq(S), NEW max \in Nat, ~(s = <<>> /\ max = 0),
         NEW I, \A i \in 1..Len(s) : i \notin I
  PROVE  Part(Room(s, max), s, Len(s), I, S)
<1>1. CASE Len(s) < max
  BY <1>1, PartWhole DEF Room
<1>2. CASE ~(Len(s) < max)
  <2> DEFINE v == Front(s)
             f == [i \in 1..Len(s) - 1 |-> i]
  <2>1. Len(s) \in Nat \ {0} /\ Room(s, max) = v
    BY <1>2 DEF Room
  <2>2. v \in Seq(S) /\ Len(v) = Len(s) - 1 /\ \A i \in 1..Len(s) - 1 : v[i] = s[i]
    <3> DEFINE k == Len(s) - 1
    <3>1. v = SubSeq(s, 1, k) /\ k \in Nat /\ k <= Len(s)
      BY <2>1 DEF Front
    <3> HIDE DEF v, k
    <3>2. v = [i \in 1..k |-> s[i]]
      BY <3>1
    <3>3. v \in Seq(S) /\ Len(v) = k /\ \A i \in 1..k : v[i] = s[i]
      BY <3>1, <3>2
    <3> QED BY <3>3 DEF k
  <2> HIDE DEF v
  <2>3. Places(f, v, Len(s), I)
    BY <2>1, <2>2 DEF Places
  <2>4. \A i \in 1..Len(v) : v[i] = s[f[i]]
    BY <2>2
  <2>5. Part(v, s, Len(s), I, S)
    BY <2>2, <2>3, <2>4 DEF Part
  <2> QED BY <2>1, <2>5
<1> QED BY <1>1, <1>2

\* No two entries of s have the same key.
Apart(s, K) == \A i, j \in 1..Len(s) : K[s[i]] = K[s[j]] => i = j

\* w has no entries but those of s, less those at I.
From(w, s, I) == \A i \in 1..Len(w) : \E j \in 1..Len(s) : j \notin I /\ w[i] = s[j]

LEMMA PartFrom ==
  ASSUME NEW S, NEW s \in Seq(S), NEW I, NEW w, Part(w, s, Len(s), I, S)
  PROVE  /\ w \in Seq(S) /\ From(w, s, I)
         /\ \A K : Apart(s, K) => Apart(w, K)
<1>1. PICK f : Places(f, w, Len(s), I) /\ \A i \in 1..Len(w) : w[i] = s[f[i]]
  BY DEF Part
<1>2. w \in Seq(S)
  BY DEF Part
<1>3. \A i \in 1..Len(w) : f[i] \in 1..Len(s) /\ f[i] \notin I
  BY <1>1 DEF Places
<1>4. From(w, s, I)
  BY <1>1, <1>3 DEF From
<1>5. ASSUME NEW K, Apart(s, K) PROVE Apart(w, K)
  BY <1>1, <1>3, <1>5 DEF Apart, Places
<1> QED BY <1>2, <1>4, <1>5

\* A new entry in front of what is left of a list, which has none of its key.
Pushed(v, e, s, I, S) ==
  /\ v \in Seq(S)
  /\ \A i \in 1..Len(v) : v[i] = e \/ \E j \in 1..Len(s) : j \notin I /\ v[i] = s[j]

LEMMA PushPart ==
  ASSUME NEW S, NEW s \in Seq(S), NEW I, NEW w, Part(w, s, Len(s), I, S), NEW e \in S,
         NEW K, Apart(s, K), \A i \in 1..Len(s) : K[s[i]] = K[e] => i \in I
  PROVE  Pushed(<<e>> \o w, e, s, I, S) /\ Apart(<<e>> \o w, K)
<1> DEFINE v == <<e>> \o w
<1>1. w \in Seq(S) /\ From(w, s, I) /\ Apart(w, K)
  BY PartFrom
<1>2. /\ v \in Seq(S) /\ Len(v) = Len(w) + 1 /\ Len(w) \in Nat
      /\ v[1] = e /\ \A i \in 1..Len(w) : v[i + 1] = w[i]
  BY <1>1
<1> HIDE DEF v
<1>3. \A i \in 1..Len(v) : i = 1 \/ (i - 1 \in 1..Len(w) /\ v[i] = w[i - 1])
  <2>1. ASSUME NEW i \in 1..Len(v), i # 1 PROVE i - 1 \in 1..Len(w) /\ v[i] = w[i - 1]
    <3>1. i - 1 \in 1..Len(w) /\ (i - 1) + 1 = i
      BY <1>2, <2>1
    <3> QED BY <1>2, <3>1
  <2> QED BY <2>1
<1>4. \A i \in 1..Len(w) : K[w[i]] # K[e]
  BY <1>1 DEF From
<1>5. Apart(v, K)
  <2> SUFFICES ASSUME NEW i \in 1..Len(v), NEW j \in 1..Len(v), K[v[i]] = K[v[j]] PROVE i = j
    BY DEF Apart
  <2>1. CASE i = 1 /\ j # 1
    BY <1>2, <1>3, <1>4, <2>1
  <2>2. CASE i # 1 /\ j = 1
    BY <1>2, <1>3, <1>4, <2>2
  <2>3. CASE i # 1 /\ j # 1
    <3>1. i - 1 \in 1..Len(w) /\ v[i] = w[i - 1] /\ j - 1 \in 1..Len(w) /\ v[j] = w[j - 1]
      BY <1>3, <2>3
    <3>2. i - 1 = j - 1
      BY <1>1, <3>1 DEF Apart
    <3> QED BY <3>2
  <2> QED BY <2>1, <2>2, <2>3
<1>6. Pushed(v, e, s, I, S)
  <2>1. ASSUME NEW i \in 1..Len(v) PROVE v[i] = e \/ \E j \in 1..Len(s) : j \notin I /\ v[i] = s[j]
    <3>1. CASE i = 1
      BY <1>2, <3>1
    <3>2. CASE i # 1
      <4>1. i - 1 \in 1..Len(w) /\ v[i] = w[i - 1]
        BY <1>3, <3>2
      <4>2. PICK j \in 1..Len(s) : j \notin I /\ w[i - 1] = s[j]
        BY <1>1, <4>1, Zenon DEF From
      <4> QED BY <4>1, <4>2
    <3> QED BY <3>1, <3>2
  <2> QED BY <1>2, <2>1 DEF Pushed
<1> QED BY <1>5, <1>6 DEF v

-----------------------------------------------------------------------------
(* The tables: types, and what is right of them *)

Calls == {f.call : f \in Frames} \cup {l.e.call : l \in Adds}
Paths == {f.path : f \in Frames} \cup {l.e.path : l \in Adds} \cup {DefaultPath}
Addrs == {f.ip : f \in Frames} \cup {l.e.ip : l \in Adds}
Modes == {f.mode : f \in Frames} \cup {l.e.mode : l \in Adds}

AxEntries == [call : Calls, dev : Ports, path : Paths, stamp : 0..MaxNow]
IpEntries == [ip : Addrs, dev : Ports, call : Calls, mode : Modes, stamp : 0..MaxNow, invalid : BOOLEAN]
AxRoutes == [call : Calls, dev : Ports, path : Paths]
IpRoutes == [ip : Ips, dev : Ports \cup {Foreign}]
ArpEntries == [ip : Ips, dev : Ports, call : Calls]
KernelTables == [ax : SUBSET AxRoutes, rt : SUBSET IpRoutes, arp : SUBSET ArpEntries]
TablesType == [ax : Seq(AxEntries), ip : Seq(IpEntries), kernel : KernelTables]

CallOf == [e \in AxEntries |-> e.call]
AddrOf == [e \in IpEntries |-> e.ip]

\* No callsign and no address twice, and each address on a port it fits.
Sound(t) ==
  /\ t \in TablesType
  /\ Apart(t.ax, CallOf) /\ Apart(t.ip, AddrOf)
  /\ \A i \in 1..Len(t.ip) : t.ip[i].ip \in Subnet[t.ip[i].dev]

Way(e) == [call |-> e.call, dev |-> e.dev, path |-> e.path]
Host(a, p) == [ip |-> a, dev |-> p]

\* In configuration c the kernel does what an entry says.
PathIs(c, e, K) == c.port[e.dev].ax25_add_route => Way(e) \in K
RouteIs(c, e, R) ==
  e.invalid \/ \A p \in Ports : c.port[p].ip_add_route => (Host(e.ip, p) \in R <=> p = e.dev)
PathsFollow(c, s, K) == \A i \in 1..Len(s) : PathIs(c, s[i], K)
RoutesFollow(c, s, R) == \A i \in 1..Len(s) : RouteIs(c, s[i], R)
TablesFollow(c, t) == PathsFollow(c, t.ax, t.kernel.ax) /\ RoutesFollow(c, t.ip, t.kernel.rt)

\* No foreign route goes, and none is joined by another.
Kept(R, Q) ==
  \A a \in Ips : Host(a, Foreign) \in R =>
    Host(a, Foreign) \in Q /\ \A p \in Ports : Host(a, p) \in Q => Host(a, p) \in R

\* What each function of the daemon does to the tables.
Move(t, u) ==
  /\ Sound(u) /\ Kept(t.kernel.rt, u.kernel.rt)
  /\ TablesFollow(conf, t) => TablesFollow(conf, u)

LEMMA MoveOn ==
  ASSUME NEW t, NEW u, NEW v, Move(t, u), Move(u, v)
  PROVE  Move(t, v)
BY DEF Move, Kept

LEMMA MoveNot ==
  ASSUME NEW t, Sound(t)
  PROVE  Move(t, t)
BY DEF Move, Kept

LEMMA Parts ==
  ASSUME NEW t \in TablesType
  PROVE  /\ t = [ax |-> t.ax, ip |-> t.ip, kernel |-> t.kernel]
         /\ t.kernel = [ax |-> t.kernel.ax, rt |-> t.kernel.rt, arp |-> t.kernel.arp]
         /\ t.ax \in Seq(AxEntries) /\ t.ip \in Seq(IpEntries) /\ t.kernel \in KernelTables
         /\ t.kernel.ax \in SUBSET AxRoutes /\ t.kernel.rt \in SUBSET IpRoutes
         /\ t.kernel.arp \in SUBSET ArpEntries
BY DEF TablesType, KernelTables

LEMMA Whole ==
  ASSUME NEW s \in Seq(AxEntries), NEW i \in Seq(IpEntries), NEW K \in SUBSET AxRoutes,
         NEW R \in SUBSET IpRoutes, NEW A \in SUBSET ArpEntries
  PROVE  [ax |-> s, ip |-> i, kernel |-> [ax |-> K, rt |-> R, arp |-> A]] \in TablesType
BY DEF TablesType, KernelTables

LEMMA OptFacts ==
  ASSUME NEW c \in Confs, NEW p \in Ports
  PROVE  /\ c.port[p].ip_add_route \in BOOLEAN /\ c.port[p].ax25_add_route \in BOOLEAN
         /\ c.ax25_maxroutes \in Nat /\ c.ip_maxroutes \in Nat
<1>1. c.port[p] \in Options
  BY RtdConstants
<1> QED BY <1>1, RtdConstants DEF Options

LEMMA DelAxFacts ==
  ASSUME NEW t \in TablesType, NEW rs
  PROVE  \E K \in SUBSET AxRoutes :
           /\ DelKernelAx25Routes(t, rs) =
                [ax |-> t.ax, ip |-> t.ip, kernel |-> [ax |-> K, rt |-> t.kernel.rt, arp |-> t.kernel.arp]]
           /\ K \subseteq t.kernel.ax
           /\ \A k \in t.kernel.ax : [call |-> k.call, dev |-> k.dev] \notin rs => k \in K
<1> DEFINE K == {k \in t.kernel.ax : ~(Opt(k.dev).ax25_add_route /\ [call |-> k.call, dev |-> k.dev] \in rs)}
<1>1. K \in SUBSET AxRoutes /\ K \subseteq t.kernel.ax
  BY Parts
<1>2. \A k \in t.kernel.ax : [call |-> k.call, dev |-> k.dev] \notin rs => k \in K
  OBVIOUS
<1>3. DelKernelAx25Routes(t, rs) = [t EXCEPT !.kernel.ax = K]
  BY DEF DelKernelAx25Routes, TablesType, KernelTables
<1> HIDE DEF K
<1>4. [t EXCEPT !.kernel.ax = K] =
        [ax |-> t.ax, ip |-> t.ip, kernel |-> [ax |-> K, rt |-> t.kernel.rt, arp |-> t.kernel.arp]]
  BY DEF TablesType, KernelTables
<1> QED BY <1>1, <1>2, <1>3, <1>4

LEMMA SetAxFacts ==
  ASSUME NEW t \in TablesType, NEW e \in AxEntries
  PROVE  \E K \in SUBSET AxRoutes :
           /\ SetAx25Route(t, e) =
                [ax |-> t.ax, ip |-> t.ip, kernel |-> [ax |-> K, rt |-> t.kernel.rt, arp |-> t.kernel.arp]]
           /\ \A k \in t.kernel.ax : k.call # e.call => k \in K
           /\ Opt(e.dev).ax25_add_route => Way(e) \in K
<1>1. CASE ~Opt(e.dev).ax25_add_route
  <2>1. SetAx25Route(t, e) = t
    BY <1>1 DEF SetAx25Route
  <2>2. t = [ax |-> t.ax, ip |-> t.ip,
             kernel |-> [ax |-> t.kernel.ax, rt |-> t.kernel.rt, arp |-> t.kernel.arp]]
    BY Parts
  <2>3. t.kernel.ax \in SUBSET AxRoutes
    BY Parts
  <2> QED BY <1>1, <2>1, <2>2, <2>3
<1>2. CASE Opt(e.dev).ax25_add_route
  <2> DEFINE K == {k \in t.kernel.ax : ~(k.call = e.call /\ k.dev = e.dev)} \cup {Way(e)}
  <2>1. SetAx25Route(t, e) = [t EXCEPT !.kernel.ax = K]
    BY <1>2 DEF SetAx25Route, TablesType, KernelTables, Way
  <2>2. Way(e) \in AxRoutes
    BY DEF Way, AxRoutes, AxEntries
  <2>3. K \in SUBSET AxRoutes
    BY <2>2, Parts
  <2>4. (\A k \in t.kernel.ax : k.call # e.call => k \in K) /\ Way(e) \in K
    OBVIOUS
  <2> HIDE DEF K
  <2>5. [t EXCEPT !.kernel.ax = K] =
          [ax |-> t.ax, ip |-> t.ip, kernel |-> [ax |-> K, rt |-> t.kernel.rt, arp |-> t.kernel.arp]]
    BY DEF TablesType, KernelTables
  <2> QED BY <2>1, <2>3, <2>4, <2>5
<1> QED BY <1>1, <1>2

\* An AX.25 route is put in front of what stays of the others.
LEMMA AxMove ==
  ASSUME NEW t, Sound(t), NEW e \in AxEntries, NEW I, NEW w,
         Part(w, t.ax, Len(t.ax), I, AxEntries),
         \A i \in 1..Len(t.ax) : t.ax[i].call = e.call => i \in I,
         NEW K \in SUBSET AxRoutes, \A k \in t.kernel.ax : k.call # e.call => k \in K,
         PathsFollow(conf, t.ax, t.kernel.ax) => PathIs(conf, e, K)
  PROVE  Move(t, [ax |-> <<e>> \o w, ip |-> t.ip,
                  kernel |-> [ax |-> K, rt |-> t.kernel.rt, arp |-> t.kernel.arp]])
<1> DEFINE s == t.ax
           v == <<e>> \o w
           u == [ax |-> v, ip |-> t.ip, kernel |-> [ax |-> K, rt |-> t.kernel.rt, arp |-> t.kernel.arp]]
<1>1. t \in TablesType /\ Apart(s, CallOf) /\ s \in Seq(AxEntries)
  BY Parts DEF Sound
<1>2. \A i \in 1..Len(s) : s[i] \in AxEntries /\ CallOf[s[i]] = s[i].call
  BY <1>1 DEF CallOf
<1>3. CallOf[e] = e.call
  BY DEF CallOf
<1>4. Pushed(v, e, s, I, AxEntries) /\ Apart(v, CallOf)
  BY <1>1, <1>2, <1>3, PushPart
<1> HIDE DEF v
<1>5. v \in Seq(AxEntries)
  BY <1>4 DEF Pushed
<1>6. u \in TablesType
  BY <1>1, <1>5, Parts, Whole
<1>7. Sound(u) /\ Kept(t.kernel.rt, u.kernel.rt)
  BY <1>4, <1>6 DEF Sound, Kept
<1>8. ASSUME PathsFollow(conf, s, t.kernel.ax) PROVE PathsFollow(conf, v, K)
  <2> SUFFICES ASSUME NEW i \in 1..Len(v) PROVE PathIs(conf, v[i], K)
    BY DEF PathsFollow
  <2>1. CASE v[i] = e
    BY <1>8, <2>1
  <2>2. CASE v[i] # e
    <3>1. PICK j \in 1..Len(s) : j \notin I /\ v[i] = s[j]
      BY <1>4, <2>2 DEF Pushed
    <3>2. s[j].call # e.call /\ PathIs(conf, s[j], t.kernel.ax)
      BY <1>8, <3>1 DEF PathsFollow
    <3>3. Way(s[j]).call = s[j].call
      BY DEF Way
    <3> QED BY <3>1, <3>2, <3>3 DEF PathIs
  <2> QED BY <2>1, <2>2
<1>9. TablesFollow(conf, t) => TablesFollow(conf, u)
  BY <1>8 DEF TablesFollow
<1>10. Move(t, u)
  BY <1>7, <1>9 DEF Move
<1> QED BY <1>10 DEF v

\* A callsign that is not in the cache, and room for it.
AxFits(t, c) == Len(t.ax) < conf.ax25_maxroutes /\ \A i \in 1..Len(t.ax) : t.ax[i].call # c

\* update_ax25_route keeps the routes followed.
LEMMA LearnAx25Move ==
  ASSUME NEW t, Sound(t), conf \in Confs, NEW port \in Ports, NEW c \in Calls, NEW path \in Paths,
         NEW stamp \in 0..MaxNow
  PROVE  /\ Move(t, LearnAx25(t, port, c, path, stamp)) /\ LearnAx25(t, port, c, path, stamp).ip = t.ip
         /\ AxFits(t, c) => LearnAx25(t, port, c, path, stamp).ax
                              = <<[call |-> c, dev |-> port, path |-> path, stamp |-> stamp]>> \o t.ax
<1> DEFINE it == {i \in DOMAIN t.ax : t.ax[i].call = c}
           new == [call |-> c, dev |-> port, path |-> path, stamp |-> stamp]
           u == LearnAx25(t, port, c, path, stamp)
           Of(s, K) == [ax |-> s, ip |-> t.ip, kernel |-> [ax |-> K, rt |-> t.kernel.rt, arp |-> t.kernel.arp]]
<1>1. t \in TablesType /\ t.ax \in Seq(AxEntries) /\ DOMAIN t.ax = 1..Len(t.ax)
  <2>1. t \in TablesType
    BY DEF Sound
  <2>2. t.ax \in Seq(AxEntries)
    BY <2>1, Parts
  <2> QED BY <2>1, <2>2
<1>2. new \in AxEntries /\ new.call = c /\ new.dev = port /\ new.path = path
  BY DEF AxEntries
<1>3. it \in SUBSET (1..Len(t.ax)) /\ \A i \in 1..Len(t.ax) : t.ax[i].call = c => i \in it
  BY <1>1
<1>4. t.kernel.ax \in SUBSET AxRoutes /\ t = Of(t.ax, t.kernel.ax)
  BY <1>1, Parts
<1>5. ASSUME it # {} PROVE Move(t, u) /\ u.ip = t.ip
  <2> DEFINE old == t.ax[Min(it)]
             left == IF old.dev = port THEN t
                     ELSE DelKernelAx25Routes(t, {[call |-> c, dev |-> old.dev]})
             moved == [left EXCEPT !.ax = <<new>> \o Without(@, it)]
             w == Without(t.ax, it)
  <2>1. u = IF old.stamp = 0 /\ stamp # 0 THEN t
            ELSE IF SameRoute(old, port, path) THEN moved
            ELSE SetAx25Route(moved, new)
    BY <1>5 DEF LearnAx25
  <2>2. Min(it) \in it
    <3> HIDE DEF it
    <3>1. it \in SUBSET Nat
      BY <1>3
    <3>2. PICK n \in it : \A m \in it : n <= m
      BY <1>5, <3>1, LeastNat
    <3> QED BY <3>2 DEF Min
  <2>3. old.call = c /\ Min(it) \in 1..Len(t.ax)
    BY <1>3, <2>2
  <2>4. Part(w, t.ax, Len(t.ax), it, AxEntries)
    BY <1>1, WithoutPart
  <2>5. PICK K \in SUBSET AxRoutes : /\ left = Of(t.ax, K)
                                     /\ \A k \in t.kernel.ax : k.call # c => k \in K
                                     /\ old.dev = port => K = t.kernel.ax
    <3>1. CASE old.dev = port
      BY <1>4, <3>1
    <3>2. CASE old.dev # port
      <4>1. PICK K \in SUBSET AxRoutes :
              /\ left = Of(t.ax, K)
              /\ \A k \in t.kernel.ax : [call |-> k.call, dev |-> k.dev] \notin {[call |-> c, dev |-> old.dev]}
                   => k \in K
        BY <1>1, <3>2, DelAxFacts
      <4>2. \A k \in t.kernel.ax : k.call # c => k \in K
        BY <4>1
      <4> QED BY <3>2, <4>1, <4>2
    <3> QED BY <3>1, <3>2
  <2>6. moved = Of(<<new>> \o w, K)
    <3>1. left.ax = t.ax
      BY <2>5
    <3>2. moved = [left EXCEPT !.ax = <<new>> \o w]
      BY <3>1
    <3> HIDE DEF w, left, moved, new, it
    <3>3. moved = [Of(t.ax, K) EXCEPT !.ax = <<new>> \o w]
      BY <2>5, <3>2
    <3> QED BY <3>3
  <2> HIDE DEF w, left, moved, new, it, old
  <2>7. CASE old.stamp = 0 /\ stamp # 0
    BY <2>1, <2>7, MoveNot
  <2>8. CASE ~(old.stamp = 0 /\ stamp # 0) /\ SameRoute(old, port, path)
    <3>1. old.dev = new.dev /\ old.path = new.path /\ old.call = new.call
      BY <1>2, <2>3, <2>8 DEF SameRoute
    <3>2. PathIs(conf, old, t.kernel.ax) => PathIs(conf, new, t.kernel.ax)
      BY <3>1 DEF PathIs, Way
    <3>3. PathsFollow(conf, t.ax, t.kernel.ax) => PathIs(conf, old, t.kernel.ax)
      BY <2>3 DEF PathsFollow, old
    <3>4. K = t.kernel.ax
      BY <1>2, <2>5, <3>1
    <3>5. Move(t, Of(<<new>> \o w, K))
      BY <1>2, <1>3, <2>4, <2>5, <3>2, <3>3, <3>4, AxMove
    <3> QED BY <2>1, <2>6, <2>8, <3>5
  <2>9. CASE ~(old.stamp = 0 /\ stamp # 0) /\ ~SameRoute(old, port, path)
    <3> DEFINE m == Of(<<new>> \o w, K)
    <3>1. w \in Seq(AxEntries)
      BY <2>4 DEF Part
    <3>2. <<new>> \o w \in Seq(AxEntries)
      BY <1>2, <3>1
    <3>3. m \in TablesType /\ m.kernel.ax = K /\ m.ax = <<new>> \o w /\ m.ip = t.ip
          /\ m.kernel.rt = t.kernel.rt /\ m.kernel.arp = t.kernel.arp
      BY <1>1, <2>5, <3>2, Parts, Whole
    <3> HIDE DEF m
    <3>4. PICK L \in SUBSET AxRoutes :
            /\ SetAx25Route(m, new) = Of(<<new>> \o w, L)
            /\ \A k \in K : k.call # new.call => k \in L
            /\ Opt(new.dev).ax25_add_route => Way(new) \in L
      BY <1>2, <3>3, SetAxFacts
    <3>5. PathIs(conf, new, L)
      BY <3>4 DEF PathIs, Opt
    <3>6. \A k \in t.kernel.ax : k.call # new.call => k \in L
      BY <1>2, <2>5, <3>4
    <3>7. Move(t, Of(<<new>> \o w, L))
      BY <1>2, <1>3, <2>4, <3>4, <3>5, <3>6, AxMove
    <3>8. u = Of(<<new>> \o w, L)
      BY <2>1, <2>6, <2>9, <3>4 DEF m
    <3> QED BY <3>7, <3>8
  <2> QED BY <2>7, <2>8, <2>9
<1>6. ASSUME it = {}, t.ax = <<>>, conf.ax25_maxroutes = 0 PROVE Move(t, u) /\ u.ip = t.ip
  <2>1. u = t
    BY <1>6 DEF LearnAx25
  <2> QED BY <2>1, MoveNot
<1>7. ASSUME it = {}, ~(t.ax = <<>> /\ conf.ax25_maxroutes = 0)
      PROVE  Move(t, u) /\ u.ip = t.ip /\ u.ax = <<new>> \o Room(t.ax, conf.ax25_maxroutes)
  <2> DEFINE w == Room(t.ax, conf.ax25_maxroutes)
             m == Of(<<new>> \o w, t.kernel.ax)
  <2>1. conf.ax25_maxroutes \in Nat
    BY RtdConstants
  <2>2. Part(w, t.ax, Len(t.ax), it, AxEntries)
    BY <1>1, <1>7, <2>1, RoomPart
  <2>3. u = SetAx25Route([t EXCEPT !.ax = <<new>> \o Room(@, conf.ax25_maxroutes)], new)
    BY <1>7 DEF LearnAx25
  <2>4. [t EXCEPT !.ax = <<new>> \o Room(@, conf.ax25_maxroutes)] = m
    BY <1>4
  <2> HIDE DEF w, new, it
  <2>5. w \in Seq(AxEntries)
    BY <2>2 DEF Part
  <2>6. <<new>> \o w \in Seq(AxEntries)
    BY <1>2, <2>5
  <2>7. m \in TablesType /\ m.kernel.ax = t.kernel.ax /\ m.ax = <<new>> \o w /\ m.ip = t.ip
        /\ m.kernel.rt = t.kernel.rt /\ m.kernel.arp = t.kernel.arp
    BY <1>1, <2>6, Parts, Whole
  <2> HIDE DEF m
  <2>8. PICK L \in SUBSET AxRoutes :
          /\ SetAx25Route(m, new) = Of(<<new>> \o w, L)
          /\ \A k \in t.kernel.ax : k.call # new.call => k \in L
          /\ Opt(new.dev).ax25_add_route => Way(new) \in L
    BY <1>2, <2>7, SetAxFacts
  <2>9. PathIs(conf, new, L)
    BY <2>8 DEF PathIs, Opt
  <2>10. Move(t, Of(<<new>> \o w, L))
    BY <1>2, <1>3, <2>2, <2>8, <2>9, AxMove
  <2>11. u = Of(<<new>> \o w, L)
    BY <2>3, <2>4, <2>8
  <2> HIDE DEF u
  <2>12. u.ip = t.ip /\ u.ax = <<new>> \o w
    BY <2>11
  <2>13. Move(t, u)
    BY <2>10, <2>11
  <2> QED BY <2>12, <2>13 DEF w
<1>8. ASSUME AxFits(t, c) PROVE it = {} /\ Room(t.ax, conf.ax25_maxroutes) = t.ax
                                  /\ ~(t.ax = <<>> /\ conf.ax25_maxroutes = 0)
  <2>1. conf.ax25_maxroutes \in Nat /\ Len(t.ax) < conf.ax25_maxroutes /\ Len(t.ax) \in Nat
    BY <1>1, <1>8, RtdConstants DEF AxFits
  <2>2. it = {}
    BY <1>1, <1>8 DEF AxFits
  <2> QED BY <2>1, <2>2 DEF Room
<1> HIDE DEF u, it, new
<1> QED BY <1>5, <1>6, <1>7, <1>8 DEF u, new

With(t, ips, R) == [ax |-> t.ax, ip |-> ips, kernel |-> [ax |-> t.kernel.ax, rt |-> R, arp |-> t.kernel.arp]]

LEMMA WithFacts ==
  ASSUME NEW t \in TablesType, NEW s \in Seq(IpEntries), NEW R \in SUBSET IpRoutes
  PROVE  /\ With(t, s, R) \in TablesType
         /\ With(t, s, R).ax = t.ax /\ With(t, s, R).ip = s
         /\ With(t, s, R).kernel.ax = t.kernel.ax /\ With(t, s, R).kernel.rt = R
         /\ With(t, s, R).kernel.arp = t.kernel.arp
BY Parts, Whole DEF With

LEMMA DelIpFacts ==
  ASSUME NEW t \in TablesType, NEW rs
  PROVE  /\ t.kernel.rt \ {r \in rs : Opt(r.dev).ip_add_route} \in SUBSET IpRoutes
         /\ DelKernelIpRoutes(t, rs) = With(t, t.ip, t.kernel.rt \ {r \in rs : Opt(r.dev).ip_add_route})
<1> DEFINE R == t.kernel.rt \ {r \in rs : Opt(r.dev).ip_add_route}
<1>1. DelKernelIpRoutes(t, rs) = [t EXCEPT !.kernel.rt = R]
  BY DEF DelKernelIpRoutes, TablesType, KernelTables
<1>2. R \in SUBSET IpRoutes
  BY Parts
<1> HIDE DEF R
<1>3. [t EXCEPT !.kernel.rt = R] = With(t, t.ip, R)
  BY DEF TablesType, KernelTables, With
<1> QED BY <1>1, <1>2, <1>3 DEF R

\* Two lists hold the same entries, whichever of them are valid.
Valid(e) == [e EXCEPT !.invalid = FALSE]
Alike(s, v) == Len(v) = Len(s) /\ \A i \in 1..Len(s) : Valid(v[i]) = Valid(s[i])

LEMMA AlikeOn ==
  ASSUME NEW s, NEW v, NEW w, Alike(s, v), Alike(v, w)
  PROVE  Alike(s, w)
BY DEF Alike

\* The entries of an address are invalid, the others what they were.
Marked(v, s, a) ==
  /\ v \in Seq(IpEntries) /\ Len(v) = Len(s)
  /\ \A i \in 1..Len(v) :
       /\ v[i].ip = s[i].ip /\ v[i].dev = s[i].dev
       /\ v[i] = s[i] \/ (s[i].ip = a /\ v[i].invalid)
       /\ s[i].ip = a => v[i].invalid
       /\ Valid(v[i]) = Valid(s[i])

LEMMA InvalidateFacts ==
  ASSUME NEW t \in TablesType, NEW a
  PROVE  \E v : Marked(v, t.ip, a) /\ Invalidate(t, a) = With(t, v, t.kernel.rt)
<1> DEFINE s == t.ip
           v == [i \in DOMAIN s |-> IF s[i].ip = a THEN [s[i] EXCEPT !.invalid = TRUE] ELSE s[i]]
<1>1. s \in Seq(IpEntries) /\ DOMAIN s = 1..Len(s) /\ Len(s) \in Nat
  <2>1. s \in Seq(IpEntries)
    BY Parts
  <2> HIDE DEF s
  <2> QED BY <2>1
<1>2. Invalidate(t, a) = [t EXCEPT !.ip = v]
  BY DEF Invalidate, TablesType
<1>3. [t EXCEPT !.ip = v] = With(t, v, t.kernel.rt)
  <2> HIDE DEF v
  <2> QED BY Parts DEF With
<1> HIDE DEF s
<1>4. ASSUME NEW i \in 1..Len(s)
      PROVE  /\ v[i] \in IpEntries /\ v[i].ip = s[i].ip /\ v[i].dev = s[i].dev
             /\ v[i] = s[i] \/ (s[i].ip = a /\ v[i].invalid)
             /\ s[i].ip = a => v[i].invalid
             /\ Valid(v[i]) = Valid(s[i])
  <2>1. s[i] \in IpEntries
    BY <1>1
  <2>2. v[i] = IF s[i].ip = a THEN [s[i] EXCEPT !.invalid = TRUE] ELSE s[i]
    BY <1>1
  <2> HIDE DEF v
  <2>3. /\ [s[i] EXCEPT !.invalid = TRUE] \in IpEntries
        /\ [s[i] EXCEPT !.invalid = TRUE].ip = s[i].ip /\ [s[i] EXCEPT !.invalid = TRUE].dev = s[i].dev
        /\ [s[i] EXCEPT !.invalid = TRUE].invalid
        /\ Valid([s[i] EXCEPT !.invalid = TRUE]) = Valid(s[i])
    BY <2>1 DEF IpEntries, Valid
  <2> QED BY <2>1, <2>2, <2>3
<1>5. v \in Seq(IpEntries) /\ Len(v) = Len(s)
  <2>1. v \in [1..Len(s) -> IpEntries]
    BY <1>1, <1>4
  <2> HIDE DEF v
  <2> QED BY <1>1, <2>1
<1>6. Marked(v, s, a)
  <2> HIDE DEF v
  <2> QED BY <1>4, <1>5 DEF Marked
<1> QED BY <1>2, <1>3, <1>6 DEF s

\* The kernel does what the entries of the addresses other than a say.
Others(c, s, R, a) == \A i \in 1..Len(s) : s[i].ip # a => RouteIs(c, s[i], R)

\* The host routes of addresses other than a stay as they are.
OnlyOf(a, R, Q) == \A h \in IpRoutes : h.ip # a => (h \in R <=> h \in Q)

\* The entries of an address are on a port, and where routes lead in it alone.
OnPort(s, a, port) == \A i \in 1..Len(s) : s[i].ip = a => s[i].dev = port
LeadsTo(c, R, a, port) == \A p \in Ports : c.port[p].ip_add_route => (Host(a, p) \in R <=> p = port)

\* What set_route and set_arp for the address a do to the tables.
Result(t, u, a) ==
  /\ Sound(u) /\ Kept(t.kernel.rt, u.kernel.rt) /\ u.ax = t.ax /\ u.kernel.ax = t.kernel.ax
  /\ Others(conf, t.ip, t.kernel.rt, a) => RoutesFollow(conf, u.ip, u.kernel.rt)
  /\ Alike(t.ip, u.ip)

LEMMA OthersStay ==
  ASSUME NEW c \in Confs, NEW e \in IpEntries, e.ip \in Subnet[e.dev], NEW a, e.ip # a,
         NEW R, NEW Q, OnlyOf(a, R, Q), RouteIs(c, e, R)
  PROVE  RouteIs(c, e, Q)
<1>1. e.dev \in Ports
  BY DEF IpEntries
<1>2. e.ip \in Ips
  BY <1>1 DEF Ips
<1>3. ASSUME NEW p \in Ports PROVE Host(e.ip, p) \in R <=> Host(e.ip, p) \in Q
  <2>1. Host(e.ip, p) \in IpRoutes /\ Host(e.ip, p).ip = e.ip
    BY <1>2 DEF Host, IpRoutes
  <2> QED BY <2>1 DEF OnlyOf
<1> QED BY <1>3 DEF RouteIs

LEMMA TakenResult ==
  ASSUME NEW t, Sound(t), conf \in Confs, NEW a, NEW port, NEW R \in SUBSET IpRoutes,
         OnlyOf(a, t.kernel.rt, R), Kept(t.kernel.rt, R), OnPort(t.ip, a, port),
         LeadsTo(conf, R, a, port)
  PROVE  Result(t, With(t, t.ip, R), a)
<1> DEFINE u == With(t, t.ip, R)
<1>1. t \in TablesType
  BY DEF Sound
<1>2. t.ip \in Seq(IpEntries)
  BY <1>1, Parts
<1>3. /\ u \in TablesType /\ u.ax = t.ax /\ u.ip = t.ip /\ u.kernel.ax = t.kernel.ax
      /\ u.kernel.rt = R
  BY <1>1, <1>2, WithFacts
<1> HIDE DEF u
<1>4. Sound(u)
  BY <1>3 DEF Sound
<1>5. ASSUME Others(conf, t.ip, t.kernel.rt, a), NEW i \in 1..Len(t.ip)
      PROVE  RouteIs(conf, t.ip[i], R)
  <2>1. t.ip[i] \in IpEntries /\ t.ip[i].ip \in Subnet[t.ip[i].dev]
    BY <1>2 DEF Sound
  <2>2. CASE t.ip[i].ip = a
    BY <1>2, <2>2 DEF RouteIs, OnPort, LeadsTo
  <2>3. CASE t.ip[i].ip # a
    <3>1. RouteIs(conf, t.ip[i], t.kernel.rt)
      BY <1>5, <2>3 DEF Others
    <3> QED BY <2>1, <2>3, <3>1, OthersStay
  <2> QED BY <2>2, <2>3
<1>6. Result(t, u, a)
  BY <1>3, <1>4, <1>5 DEF Result, RoutesFollow, Alike
<1> QED BY <1>6 DEF u

LEMMA RefusedResult ==
  ASSUME NEW t, Sound(t), conf \in Confs, NEW a, NEW R \in SUBSET IpRoutes,
         OnlyOf(a, t.kernel.rt, R), Kept(t.kernel.rt, R)
  PROVE  Result(t, Invalidate(With(t, t.ip, R), a), a)
<1> DEFINE m == With(t, t.ip, R)
<1>1. t \in TablesType
  BY DEF Sound
<1>2. t.ip \in Seq(IpEntries)
  BY <1>1, Parts
<1>3. /\ m \in TablesType /\ m.ax = t.ax /\ m.ip = t.ip /\ m.kernel.ax = t.kernel.ax
      /\ m.kernel.rt = R
  BY <1>1, <1>2, WithFacts
<1> HIDE DEF m
<1>4. PICK v : Marked(v, t.ip, a) /\ Invalidate(m, a) = With(m, v, R)
  BY <1>3, InvalidateFacts
<1> DEFINE u == With(m, v, R)
<1>5. v \in Seq(IpEntries) /\ Len(v) = Len(t.ip)
  BY <1>4 DEF Marked
<1>6. /\ u \in TablesType /\ u.ax = t.ax /\ u.ip = v /\ u.kernel.ax = t.kernel.ax
      /\ u.kernel.rt = R
  BY <1>3, <1>5, WithFacts
<1> HIDE DEF u
<1>7. ASSUME NEW i \in 1..Len(v)
      PROVE  /\ v[i] \in IpEntries /\ t.ip[i] \in IpEntries
             /\ v[i].ip = t.ip[i].ip /\ v[i].dev = t.ip[i].dev
             /\ v[i] = t.ip[i] \/ (t.ip[i].ip = a /\ v[i].invalid)
             /\ t.ip[i].ip = a => v[i].invalid
             /\ v[i].ip \in Subnet[v[i].dev]
  <2>1. v[i] \in IpEntries /\ t.ip[i] \in IpEntries /\ i \in 1..Len(t.ip)
    BY <1>2, <1>5
  <2> QED BY <1>4, <2>1 DEF Marked, Sound
<1>8. Apart(v, AddrOf)
  <2>1. ASSUME NEW i \in 1..Len(v), NEW j \in 1..Len(v), AddrOf[v[i]] = AddrOf[v[j]] PROVE i = j
    <3>1. AddrOf[t.ip[i]] = AddrOf[t.ip[j]]
      BY <1>7, <2>1 DEF AddrOf
    <3>2. Apart(t.ip, AddrOf)
      BY DEF Sound
    <3> QED BY <1>5, <3>1, <3>2 DEF Apart
  <2> QED BY <2>1 DEF Apart
<1>9. Sound(u)
  BY <1>6, <1>7, <1>8 DEF Sound
<1>10. ASSUME Others(conf, t.ip, t.kernel.rt, a), NEW i \in 1..Len(v)
       PROVE  RouteIs(conf, v[i], R)
  <2>1. CASE t.ip[i].ip = a
    BY <1>7, <2>1 DEF RouteIs
  <2>2. CASE t.ip[i].ip # a
    <3>1. v[i] = t.ip[i] /\ RouteIs(conf, v[i], t.kernel.rt)
      BY <1>5, <1>7, <1>10, <2>2 DEF Others
    <3> QED BY <1>7, <2>2, <3>1, OthersStay
  <2> QED BY <2>1, <2>2
<1>11. Alike(t.ip, v)
  BY <1>4, <1>5 DEF Marked, Alike
<1>12. Result(t, u, a)
  BY <1>6, <1>9, <1>10, <1>11 DEF Result, RoutesFollow
<1> QED BY <1>4, <1>12 DEF u, m

\* The routes of an address go, and its new one comes, where none is foreign.
LEMMA HostKept ==
  ASSUME NEW a, NEW R \in SUBSET IpRoutes, NEW Q \in SUBSET IpRoutes, OnlyOf(a, R, Q),
         Host(a, Foreign) \in R => /\ Host(a, Foreign) \in Q
                                   /\ \A p \in Ports : Host(a, p) \in Q => Host(a, p) \in R
  PROVE  Kept(R, Q)
<1> SUFFICES ASSUME NEW b \in Ips, Host(b, Foreign) \in R
             PROVE  Host(b, Foreign) \in Q /\ \A p \in Ports : Host(b, p) \in Q => Host(b, p) \in R
  BY DEF Kept
<1>1. CASE b = a
  BY <1>1
<1>2. CASE b # a
  <2>1. \A p \in Ports \cup {Foreign} : Host(b, p) \in IpRoutes /\ Host(b, p).ip = b
    BY DEF Host, IpRoutes
  <2> QED BY <1>2, <2>1 DEF OnlyOf
<1> QED BY <1>1, <1>2

LEMMA HostRoutesAre ==
  ASSUME NEW t \in TablesType, NEW a
  PROVE  /\ \A r \in t.kernel.rt : r.ip = a => r = Host(a, r.dev) /\ r.dev \in Ports \cup {Foreign}
         /\ \A p : Host(a, p) \in t.kernel.rt => Host(a, p) \in HostRoutes(t, a)
         /\ \A r \in HostRoutes(t, a) : r \in t.kernel.rt /\ r.ip = a
<1>1. t.kernel.rt \in SUBSET IpRoutes
  BY Parts
<1>2. ASSUME NEW r \in t.kernel.rt, r.ip = a PROVE r = Host(a, r.dev) /\ r.dev \in Ports \cup {Foreign}
  <2>1. r \in IpRoutes
    BY <1>1
  <2> QED BY <1>2, <2>1 DEF IpRoutes, Host
<1> QED BY <1>2 DEF HostRoutes, Host

\* set_route, for an address whose entries are on the port already.
LEMMA SetRouteResult ==
  ASSUME NEW t, Sound(t), conf \in Confs, NEW port \in Ports, NEW a \in Subnet[port],
         OnPort(t.ip, a, port),
         NEW r \in SetRoute(t, port, a)
  PROVE  Result(t, r.t, a)
<1> DEFINE all == HostRoutes(t, a)
           own == Ours(all)
           S == t.kernel.rt
<1>1. t \in TablesType
  BY DEF Sound
<1>2. S \in SUBSET IpRoutes /\ t.ip \in Seq(IpEntries)
  BY <1>1, Parts
<1>3. /\ \A q \in S : q.ip = a => q = Host(a, q.dev) /\ q.dev \in Ports \cup {Foreign}
      /\ \A p : Host(a, p) \in S => Host(a, p) \in all
      /\ \A q \in all : q \in S /\ q.ip = a
  BY <1>1, HostRoutesAre
<1>4. a \in Ips /\ Host(a, port) \in IpRoutes
  <2>1. a \in Ips
    BY DEF Ips
  <2> QED BY <2>1 DEF Host, IpRoutes
<1>5. \A q \in own : q \in all /\ q.dev \in Ports
  BY DEF Ours
<1>6. \A p : Host(a, p).dev = p /\ Host(a, p).ip = a
  BY DEF Host
<1>7. \A p \in Ports : Opt(p).ip_add_route = conf.port[p].ip_add_route
  BY DEF Opt
<1>8. CASE own # all
  <2>1. PICK met \in SUBSET own : r = Refused(DelKernelIpRoutes(t, met), a)
    BY <1>8 DEF SetRoute
  <2> DEFINE R == S \ {q \in met : Opt(q.dev).ip_add_route}
  <2>2. R \in SUBSET IpRoutes /\ DelKernelIpRoutes(t, met) = With(t, t.ip, R)
    BY <1>1, DelIpFacts
  <2>3. \A q \in met : q.ip = a /\ q.dev \in Ports
    BY <1>3, <1>5
  <2>4. OnlyOf(a, S, R)
    BY <2>3 DEF OnlyOf
  <2>5. Host(a, Foreign) \in S => /\ Host(a, Foreign) \in R
                                  /\ \A p \in Ports : Host(a, p) \in R => Host(a, p) \in S
    BY <1>6, <2>3, RtdConstants
  <2>6. Kept(S, R)
    <3> HIDE DEF R
    <3> QED BY <1>2, <2>2, <2>4, <2>5, HostKept
  <2>7. Result(t, Invalidate(With(t, t.ip, R), a), a)
    <3> HIDE DEF R
    <3> QED BY <2>2, <2>4, <2>6, RefusedResult
  <2> QED BY <2>1, <2>2, <2>7 DEF Refused
<1>9. CASE own = all
  <2> DEFINE R == S \ {q \in own : Opt(q.dev).ip_add_route}
             d == DelKernelIpRoutes(t, own)
             Q == R \cup {Host(a, port)}
  <2>1. R \in SUBSET IpRoutes /\ d = With(t, t.ip, R)
    BY <1>1, DelIpFacts
  <2>2. r \in AddRoute(d, port, a)
    BY <1>9 DEF SetRoute
  <2>3. OnlyOf(a, S, R)
    BY <1>3, <1>5 DEF OnlyOf
  <2>4. OnlyOf(a, S, Q)
    BY <1>6, <2>3 DEF OnlyOf
  <2>5. Host(a, Foreign) \notin S
    BY <1>3, <1>5, <1>6, <1>9, RtdConstants
  <2>6. \A p \in Ports : conf.port[p].ip_add_route => Host(a, p) \notin R
    BY <1>3, <1>6, <1>7, <1>9
  <2>7. Q \in SUBSET IpRoutes
    BY <1>4, <2>1
  <2> HIDE DEF R, own, all
  <2>8. Kept(S, R) /\ Kept(S, Q)
    <3> HIDE DEF Q
    <3> QED BY <1>2, <2>1, <2>3, <2>4, <2>5, <2>7, HostKept
  <2>9. d \in TablesType /\ d.kernel.rt = R
    BY <1>1, <1>2, <2>1, WithFacts
  <2>10. CASE ~Opt(port).ip_add_route
    <3>1. r = Taken(d)
      BY <2>2, <2>10 DEF AddRoute
    <3>2. LeadsTo(conf, R, a, port)
      BY <1>7, <2>6, <2>10 DEF LeadsTo
    <3>3. Result(t, With(t, t.ip, R), a)
      BY <2>1, <2>3, <2>8, <3>2, TakenResult
    <3> QED BY <2>1, <3>1, <3>3 DEF Taken
  <2>11. CASE Opt(port).ip_add_route
    <3>1. \/ r = Taken([d EXCEPT !.kernel.rt = @ \cup {[ip |-> a, dev |-> port]}])
          \/ r = Refused(d, a)
      BY <2>2, <2>11 DEF AddRoute
    <3>2. CASE r = Refused(d, a)
      <4>1. Result(t, Invalidate(With(t, t.ip, R), a), a)
        BY <2>1, <2>3, <2>8, RefusedResult
      <4> QED BY <2>1, <3>2, <4>1 DEF Refused
    <3>3. CASE r = Taken([d EXCEPT !.kernel.rt = @ \cup {[ip |-> a, dev |-> port]}])
      <4>1. LeadsTo(conf, Q, a, port)
        BY <1>6, <2>6 DEF LeadsTo
      <4>2. Result(t, With(t, t.ip, Q), a)
        <5> HIDE DEF Q
        <5> QED BY <2>4, <2>7, <2>8, <4>1, TakenResult
      <4>3. [d EXCEPT !.kernel.rt = @ \cup {[ip |-> a, dev |-> port]}] = [d EXCEPT !.kernel.rt = Q]
        BY <2>9 DEF Host, TablesType, KernelTables
      <4>4. [With(t, t.ip, R) EXCEPT !.kernel.rt = Q] = With(t, t.ip, Q)
        <5> HIDE DEF Q
        <5> QED BY DEF With
      <4>5. r = Taken(With(t, t.ip, Q))
        BY <2>1, <3>3, <4>3, <4>4
      <4> QED BY <4>2, <4>5 DEF Taken
    <3> QED BY <3>1, <3>2, <3>3
  <2> QED BY <2>10, <2>11
<1> QED BY <1>8, <1>9

LEMMA SetArpMove ==
  ASSUME NEW t, Sound(t), conf \in Confs, NEW port \in Ports, NEW a \in Ips, NEW c \in Calls,
         NEW u \in SetArp(t, port, a, c)
  PROVE  Move(t, u) /\ u.ax = t.ax /\ Alike(t.ip, u.ip)
<1> DEFINE A == {r \in t.kernel.arp : ~(r.ip = a /\ r.dev = port)} \cup {[ip |-> a, dev |-> port, call |-> c]}
<1>1. t \in TablesType
  BY DEF Sound
<1>2. /\ t.ax \in Seq(AxEntries) /\ t.ip \in Seq(IpEntries) /\ t.kernel.ax \in SUBSET AxRoutes
      /\ t.kernel.rt \in SUBSET IpRoutes /\ t.kernel.arp \in SUBSET ArpEntries
  BY <1>1, Parts
<1>3. u = t \/ u = Invalidate(t, a) \/ u = [t EXCEPT !.kernel.arp = A]
  BY DEF SetArp, TablesType, KernelTables
<1>4. CASE u = t
  BY <1>4, MoveNot DEF Alike
<1>5. CASE u = Invalidate(t, a)
  <2>1. With(t, t.ip, t.kernel.rt) = t
    BY <1>1, Parts DEF With
  <2>2. OnlyOf(a, t.kernel.rt, t.kernel.rt) /\ Kept(t.kernel.rt, t.kernel.rt)
    BY DEF OnlyOf, Kept
  <2>3. Result(t, u, a)
    BY <1>2, <1>5, <2>1, <2>2, RefusedResult
  <2>4. RoutesFollow(conf, t.ip, t.kernel.rt) => Others(conf, t.ip, t.kernel.rt, a)
    BY DEF RoutesFollow, Others
  <2> QED BY <2>3, <2>4 DEF Result, Move, TablesFollow
<1>6. CASE u = [t EXCEPT !.kernel.arp = A]
  <2>1. [ip |-> a, dev |-> port, call |-> c] \in ArpEntries
    BY DEF ArpEntries
  <2>2. A \in SUBSET ArpEntries
    BY <1>2, <2>1
  <2> HIDE DEF A
  <2>3. u = [ax |-> t.ax, ip |-> t.ip, kernel |-> [ax |-> t.kernel.ax, rt |-> t.kernel.rt, arp |-> A]]
    BY <1>1, <1>6 DEF TablesType, KernelTables
  <2>4. u \in TablesType
    BY <1>2, <2>2, <2>3, Whole
  <2>5. u.ax = t.ax /\ u.ip = t.ip /\ u.kernel.ax = t.kernel.ax /\ u.kernel.rt = t.kernel.rt
    BY <2>3
  <2>6. Sound(u)
    BY <2>4, <2>5 DEF Sound
  <2>7. Alike(t.ip, u.ip)
    BY <2>5 DEF Alike
  <2> QED BY <2>5, <2>6, <2>7 DEF Move, TablesFollow, Kept
<1> QED BY <1>3, <1>4, <1>5, <1>6

\* An IP route e of a port is put in front of what stays of the others.
Ahead(t, m, e, port) ==
  /\ Sound(m) /\ m.kernel.rt = t.kernel.rt /\ m.ax = t.ax /\ m.kernel.ax = t.kernel.ax
  /\ OnPort(m.ip, e.ip, port)
  /\ RoutesFollow(conf, t.ip, t.kernel.rt) => Others(conf, m.ip, t.kernel.rt, e.ip)
  /\ RoutesFollow(conf, t.ip, t.kernel.rt) /\ RouteIs(conf, e, t.kernel.rt)
       => RoutesFollow(conf, m.ip, t.kernel.rt)

LEMMA IpPushed ==
  ASSUME NEW t, Sound(t), conf \in Confs, NEW port \in Ports, NEW e \in IpEntries,
         e.ip \in Subnet[port], e.dev = port, NEW I, NEW w,
         Part(w, t.ip, Len(t.ip), I, IpEntries), \A i \in 1..Len(t.ip) : t.ip[i].ip = e.ip => i \in I
  PROVE  Ahead(t, With(t, <<e>> \o w, t.kernel.rt), e, port)
<1> DEFINE s == t.ip
           v == <<e>> \o w
           m == With(t, v, t.kernel.rt)
<1>1. t \in TablesType /\ Apart(s, AddrOf)
  BY DEF Sound
<1>2. s \in Seq(IpEntries) /\ t.kernel.rt \in SUBSET IpRoutes
  BY <1>1, Parts
<1>3. \A i \in 1..Len(s) : s[i] \in IpEntries /\ AddrOf[s[i]] = s[i].ip
  BY <1>2 DEF AddrOf
<1>4. AddrOf[e] = e.ip
  BY DEF AddrOf
<1>5. \A i \in 1..Len(s) : AddrOf[s[i]] = AddrOf[e] => i \in I
  BY <1>3, <1>4
<1>6. Pushed(v, e, s, I, IpEntries) /\ Apart(v, AddrOf)
  BY <1>1, <1>2, <1>5, PushPart
<1> HIDE DEF v
<1>7. v \in Seq(IpEntries)
  BY <1>6 DEF Pushed
<1>8. /\ m \in TablesType /\ m.ip = v /\ m.kernel.rt = t.kernel.rt /\ m.ax = t.ax
      /\ m.kernel.ax = t.kernel.ax
  BY <1>1, <1>2, <1>7, WithFacts
<1> HIDE DEF m
<1>9. ASSUME NEW i \in 1..Len(v)
      PROVE  v[i] = e \/ \E j \in 1..Len(s) : v[i] = s[j] /\ s[j].ip # e.ip
  BY <1>6 DEF Pushed
<1>10. Sound(m)
  <2>1. ASSUME NEW i \in 1..Len(v) PROVE v[i].ip \in Subnet[v[i].dev]
    BY <1>9 DEF Sound
  <2> QED BY <1>1, <1>6, <1>8, <2>1 DEF Sound
<1>11. OnPort(v, e.ip, port)
  BY <1>9 DEF OnPort
<1>12. ASSUME RoutesFollow(conf, s, t.kernel.rt), NEW i \in 1..Len(v)
       PROVE  v[i] = e \/ RouteIs(conf, v[i], t.kernel.rt)
  BY <1>9, <1>12 DEF RoutesFollow
<1>13. RoutesFollow(conf, s, t.kernel.rt) => Others(conf, v, t.kernel.rt, e.ip)
  BY <1>12 DEF Others
<1>14. RoutesFollow(conf, s, t.kernel.rt) /\ RouteIs(conf, e, t.kernel.rt)
         => RoutesFollow(conf, v, t.kernel.rt)
  BY <1>12 DEF RoutesFollow
<1>15. Ahead(t, m, e, port)
  BY <1>8, <1>10, <1>11, <1>13, <1>14 DEF Ahead
<1> QED BY <1>15 DEF v, m

\* A valid route of an address that is not in the cache, for a port of its own,
\* and room for it: what load_cache finds in a line.
Fits(t, line) ==
  /\ conf.encaps \notin Ports /\ ~line.invalid /\ line.ip \in Subnet[line.dev]
  /\ Len(t.ip) < conf.ip_maxroutes /\ \A i \in 1..Len(t.ip) : t.ip[i].ip # line.ip

\* update_ip_route, set_route and set_arp keep the routes followed.
LEMMA LearnIpMove ==
  ASSUME NEW t, Sound(t), conf \in Confs, NEW line \in IpEntries, NEW u \in LearnIp(t, line)
  PROVE  Move(t, u) /\ u.ax = t.ax /\ (Fits(t, line) => Alike(<<line>> \o t.ip, u.ip))
<1> DEFINE port == IF conf.encaps \in Ports THEN conf.encaps ELSE line.dev
           it == {i \in DOMAIN t.ip : t.ip[i].ip = line.ip}
           known == it # {}
           old == t.ip[Min(it)]
           new == [line EXCEPT !.dev = port, !.invalid = known /\ old.invalid]
           w == IF known THEN Without(t.ip, it) ELSE Room(t.ip, conf.ip_maxroutes)
           m == [t EXCEPT !.ip = <<new>> \o (IF known THEN Without(@, it) ELSE Room(@, conf.ip_maxroutes))]
           routed == IF known /\ old.dev = port THEN {Taken(m)} ELSE SetRoute(m, port, line.ip)
           nothing == \/ line.ip \notin Subnet[port]
                      \/ known /\ old.stamp = 0 /\ line.stamp # 0
                      \/ ~known /\ t.ip = <<>> /\ conf.ip_maxroutes = 0
<1>1. u \in IF nothing THEN {t}
            ELSE UNION {IF ~r.ok \/ (known /\ old.call = line.call) THEN {r.t}
                        ELSE SetArp(r.t, port, line.ip, line.call) : r \in routed}
  BY DEF LearnIp
<1>2. t \in TablesType
  BY DEF Sound
<1>3. t.ip \in Seq(IpEntries) /\ t.kernel.rt \in SUBSET IpRoutes
  BY <1>2, Parts
<1>4. DOMAIN t.ip = 1..Len(t.ip) /\ Len(t.ip) \in Nat
  BY <1>3
<1>5. port \in Ports /\ line.ip \in Addrs /\ line.call \in Calls
  BY DEF IpEntries
<1>6. it \in SUBSET (1..Len(t.ip)) /\ \A i \in 1..Len(t.ip) : t.ip[i].ip = line.ip => i \in it
  BY <1>4
<1>7. known => old \in IpEntries /\ old.ip = line.ip /\ Min(it) \in 1..Len(t.ip)
  <2> SUFFICES ASSUME known PROVE old \in IpEntries /\ old.ip = line.ip /\ Min(it) \in 1..Len(t.ip)
    OBVIOUS
  <2>1. Min(it) \in it
    <3> HIDE DEF it
    <3>1. it \in SUBSET Nat
      BY <1>6
    <3>2. PICK n \in it : \A k \in it : n <= k
      BY <3>1, LeastNat
    <3> QED BY <3>2 DEF Min
  <2>2. t.ip[Min(it)].ip = line.ip /\ Min(it) \in 1..Len(t.ip)
    BY <1>4, <2>1
  <2> HIDE DEF it
  <2>3. old \in IpEntries
    BY <1>3, <2>2
  <2> QED BY <2>2, <2>3
<1> HIDE DEF it
<1>8. new \in IpEntries /\ new.ip = line.ip /\ new.dev = port /\ (known => new.invalid = old.invalid)
  <2>1. CASE known
    <3>1. old.invalid \in BOOLEAN
      BY <1>7, <2>1 DEF IpEntries
    <3>2. new = [line EXCEPT !.dev = port, !.invalid = old.invalid]
      BY <2>1, <3>1
    <3> HIDE DEF old, port, new
    <3> QED BY <1>5, <3>1, <3>2 DEF IpEntries
  <2>2. CASE ~known
    <3>1. new = [line EXCEPT !.dev = port, !.invalid = FALSE]
      BY <2>2
    <3> HIDE DEF old, port, new
    <3> QED BY <1>5, <2>2, <3>1 DEF IpEntries
  <2> QED BY <2>1, <2>2
<1>9. ~nothing => Part(w, t.ip, Len(t.ip), it, IpEntries)
  <2>1. CASE known
    BY <1>3, <2>1, WithoutPart
  <2>2. CASE ~known
    <3>1. conf.ip_maxroutes \in Nat
      BY RtdConstants
    <3> QED BY <1>3, <2>2, <3>1, RoomPart
  <2> QED BY <2>1, <2>2
<1>10. m = With(t, <<new>> \o w, t.kernel.rt)
  <2>1. m = [t EXCEPT !.ip = <<new>> \o w]
    BY <1>2 DEF TablesType
  <2> DEFINE v == <<new>> \o w
  <2>2. m = [t EXCEPT !.ip = v]
    BY <2>1
  <2> HIDE DEF v, m
  <2>3. m = With(t, v, t.kernel.rt)
    BY <1>2, <2>2, Parts DEF With
  <2> QED BY <2>3 DEF v
<1>11. ASSUME Fits(t, line) PROVE ~nothing /\ m.ip = <<line>> \o t.ip
  <2>1. it = {} /\ ~known /\ port = line.dev
    BY <1>6, <1>11 DEF Fits, it
  <2>2. new = [line EXCEPT !.dev = line.dev, !.invalid = FALSE]
    BY <2>1
  <2>3. [line EXCEPT !.dev = line.dev, !.invalid = FALSE] = line
    BY <1>11 DEF Fits, IpEntries
  <2>4. conf.ip_maxroutes \in Nat /\ Len(t.ip) < conf.ip_maxroutes
    BY <1>11, RtdConstants DEF Fits
  <2>5. w = t.ip
    BY <1>4, <2>1, <2>4 DEF Room
  <2>6. ~nothing
    <3>1. ~(line.ip \notin Subnet[port])
      BY <1>11, <2>1 DEF Fits
    <3>2. ~(t.ip = <<>> /\ conf.ip_maxroutes = 0)
      BY <1>4, <2>4
    <3> QED BY <2>1, <3>1, <3>2
  <2> HIDE DEF w, new, nothing
  <2>7. m.ip = <<new>> \o w
    BY <1>2, <1>10 DEF With
  <2> QED BY <2>2, <2>3, <2>5, <2>6, <2>7
<1>12. CASE nothing
  <2>1. u = t /\ ~Fits(t, line)
    BY <1>1, <1>11, <1>12
  <2> QED BY <2>1, MoveNot
<1>13. CASE ~nothing
  <2>1. line.ip \in Subnet[port] /\ line.ip \in Ips
    BY <1>5, <1>13 DEF Ips
  <2>2. PICK r \in routed : u = r.t \/ u \in SetArp(r.t, port, line.ip, line.call)
    <3> HIDE DEF routed, nothing, old, port
    <3>1. PICK r \in routed : u \in IF ~r.ok \/ (known /\ old.call = line.call) THEN {r.t}
                                    ELSE SetArp(r.t, port, line.ip, line.call)
      BY <1>1, <1>13
    <3> QED BY <3>1
  <2> HIDE DEF w, new, m, port, old, nothing
  <2>3. Ahead(t, m, new, port)
    <3>1. \A i \in 1..Len(t.ip) : t.ip[i].ip = new.ip => i \in it
      BY <1>6, <1>8
    <3>2. new.ip \in Subnet[port]
      BY <1>8, <2>1
    <3> QED BY <1>5, <1>8, <1>9, <1>10, <1>13, <3>1, <3>2, IpPushed
  <2>4. ASSUME known /\ old.dev = port
        PROVE  Move(t, r.t) /\ Sound(r.t) /\ r.t.ax = t.ax /\ Alike(m.ip, r.t.ip)
    <3>1. r = Taken(m)
      BY <2>2, <2>4
    <3>2. r.t = m
      BY <3>1 DEF Taken
    <3>3. RoutesFollow(conf, t.ip, t.kernel.rt) => RouteIs(conf, old, t.kernel.rt)
      BY <1>7, <2>4 DEF RoutesFollow, old
    <3>4. RouteIs(conf, old, t.kernel.rt) => RouteIs(conf, new, t.kernel.rt)
      BY <1>7, <1>8, <2>4 DEF RouteIs
    <3>5. Move(t, m)
      BY <2>3, <3>3, <3>4 DEF Ahead, Move, TablesFollow, Kept
    <3>6. Sound(m) /\ m.ax = t.ax
      BY <2>3 DEF Ahead
    <3> QED BY <3>2, <3>5, <3>6 DEF Alike
  <2>5. ASSUME ~(known /\ old.dev = port)
        PROVE  Move(t, r.t) /\ Sound(r.t) /\ r.t.ax = t.ax /\ Alike(m.ip, r.t.ip)
    <3>1. r \in SetRoute(m, port, line.ip)
      BY <2>2, <2>5
    <3>2. Result(m, r.t, line.ip)
      BY <1>5, <1>8, <2>1, <2>3, <3>1, SetRouteResult DEF Ahead
    <3>3. Move(t, r.t)
      BY <1>8, <2>3, <3>2 DEF Ahead, Result, Move, TablesFollow
    <3>4. Sound(r.t)
      BY <3>2 DEF Result
    <3> QED BY <2>3, <3>2, <3>3, <3>4 DEF Ahead, Result
  <2>6. Move(t, r.t) /\ Sound(r.t) /\ r.t.ax = t.ax /\ Alike(m.ip, r.t.ip)
    BY <2>4, <2>5
  <2>7. \/ u = r.t
        \/ Move(r.t, u) /\ u.ax = r.t.ax /\ Alike(r.t.ip, u.ip)
    BY <1>5, <2>1, <2>2, <2>6, SetArpMove
  <2>8. Move(t, u) /\ u.ax = t.ax /\ Alike(m.ip, u.ip)
    BY <2>6, <2>7, MoveOn, AlikeOn
  <2> QED BY <1>11, <2>8
<1> QED BY <1>12, <1>13

-----------------------------------------------------------------------------
(* Removing *)

\* Routes are removed with the entries they belong to, and no other.
LEMMA RemovedMove ==
  ASSUME Sound(Tables), conf \in Confs, NEW axs \in SUBSET DOMAIN ax, NEW ips \in SUBSET DOMAIN ip
  PROVE  Move(Tables, Removed(axs, ips))
<1> DEFINE t == Tables
           rs == {[ip |-> ip[i].ip, dev |-> ip[i].dev] : i \in ips}
           gone == {[call |-> ax[i].call, dev |-> ax[i].dev] : i \in axs}
           R == t.kernel.rt \ {r \in rs : Opt(r.dev).ip_add_route}
           d == DelKernelIpRoutes(t, rs)
           v == Without(ax, axs)
           w == Without(ip, ips)
           u == Removed(axs, ips)
<1>1. t \in TablesType /\ t.ax = ax /\ t.ip = ip /\ t.kernel = kernel
  BY DEF Sound, Tables
<1>2. /\ ax \in Seq(AxEntries) /\ ip \in Seq(IpEntries) /\ t.kernel.rt \in SUBSET IpRoutes
      /\ t.kernel.arp \in SUBSET ArpEntries /\ t.kernel.ax \in SUBSET AxRoutes
  BY <1>1, Parts
<1>3. DOMAIN ax = 1..Len(ax) /\ DOMAIN ip = 1..Len(ip)
  BY <1>2
<1> HIDE DEF t
<1>4. R \in SUBSET IpRoutes /\ d = With(t, ip, R)
  BY <1>1, DelIpFacts
<1>5. d \in TablesType /\ d.ax = ax /\ d.ip = ip /\ d.kernel.rt = R /\ d.kernel.ax = t.kernel.ax
      /\ d.kernel.arp = t.kernel.arp
  <2> HIDE DEF R
  <2> QED BY <1>1, <1>2, <1>4, WithFacts
<1>6. Part(v, ax, Len(ax), axs, AxEntries) /\ Part(w, ip, Len(ip), ips, IpEntries)
  BY <1>2, WithoutPart
<1>7. u = [DelKernelAx25Routes(d, gone) EXCEPT !.ax = Without(@, axs), !.ip = Without(@, ips)]
  BY DEF Removed, t
<1> HIDE DEF R, d, gone
<1>8. PICK K \in SUBSET AxRoutes :
        /\ DelKernelAx25Routes(d, gone) =
             [ax |-> ax, ip |-> ip, kernel |-> [ax |-> K, rt |-> R, arp |-> t.kernel.arp]]
        /\ \A k \in t.kernel.ax : [call |-> k.call, dev |-> k.dev] \notin gone => k \in K
  BY <1>5, DelAxFacts
<1>9. u = [ax |-> v, ip |-> w, kernel |-> [ax |-> K, rt |-> R, arp |-> t.kernel.arp]]
  <2> HIDE DEF u
  <2> DEFINE e == [ax |-> ax, ip |-> ip, kernel |-> [ax |-> K, rt |-> R, arp |-> t.kernel.arp]]
  <2>1. u = [e EXCEPT !.ax = Without(@, axs), !.ip = Without(@, ips)]
    BY <1>7, <1>8
  <2>2. u = [e EXCEPT !.ax = v, !.ip = w]
    BY <2>1
  <2> HIDE DEF v, w
  <2> QED BY <2>2
<1> HIDE DEF u, v, w
<1>10. /\ v \in Seq(AxEntries) /\ From(v, ax, axs) /\ (Apart(ax, CallOf) => Apart(v, CallOf))
       /\ w \in Seq(IpEntries) /\ From(w, ip, ips) /\ (Apart(ip, AddrOf) => Apart(w, AddrOf))
  BY <1>2, <1>6, PartFrom
<1>11. Apart(ax, CallOf) /\ Apart(ip, AddrOf) /\ \A i \in 1..Len(ip) : ip[i].ip \in Subnet[ip[i].dev]
  BY <1>1 DEF Sound, t
<1>12. \A i \in 1..Len(ax) : ax[i] \in AxEntries /\ CallOf[ax[i]] = ax[i].call
  BY <1>2 DEF CallOf
<1>13. \A i \in 1..Len(ip) : ip[i] \in IpEntries /\ AddrOf[ip[i]] = ip[i].ip /\ ip[i].dev \in Ports
  <2>1. \A i \in 1..Len(ip) : ip[i] \in IpEntries
    BY <1>2
  <2> QED BY <2>1 DEF AddrOf, IpEntries
<1>14. Sound(u)
  <2>1. u \in TablesType
    BY <1>2, <1>4, <1>8, <1>9, <1>10, Whole
  <2>2. u.ax = v /\ u.ip = w
    BY <1>9
  <2>3. \A i \in 1..Len(w) : w[i].ip \in Subnet[w[i].dev]
    BY <1>10, <1>11 DEF From
  <2> QED BY <1>10, <1>11, <2>1, <2>2, <2>3 DEF Sound
<1>15. Kept(t.kernel.rt, u.kernel.rt)
  <2>1. \A r \in rs : r.dev # Foreign
    BY <1>3, <1>13, RtdConstants
  <2>2. \A a : Host(a, Foreign) \notin rs
    BY <2>1 DEF Host
  <2>3. u.kernel.rt = R
    BY <1>9
  <2> QED BY <2>2, <2>3 DEF Kept, R
<1>16. ASSUME PathsFollow(conf, ax, t.kernel.ax), NEW i \in 1..Len(v) PROVE PathIs(conf, v[i], K)
  <2>1. PICK j \in 1..Len(ax) : j \notin axs /\ v[i] = ax[j]
    BY <1>10 DEF From
  <2>2. [call |-> ax[j].call, dev |-> ax[j].dev] \notin gone
    <3>1. \A k \in axs : ax[k].call # ax[j].call
      BY <1>3, <1>11, <1>12, <2>1 DEF Apart
    <3> QED BY <3>1 DEF gone
  <2>3. Way(ax[j]).call = ax[j].call /\ Way(ax[j]).dev = ax[j].dev
    BY DEF Way
  <2>4. PathIs(conf, ax[j], t.kernel.ax)
    BY <1>16 DEF PathsFollow
  <2> QED BY <1>8, <2>1, <2>2, <2>3, <2>4 DEF PathIs
<1>17. ASSUME RoutesFollow(conf, ip, t.kernel.rt), NEW i \in 1..Len(w) PROVE RouteIs(conf, w[i], R)
  <2>1. PICK j \in 1..Len(ip) : j \notin ips /\ w[i] = ip[j]
    BY <1>10 DEF From
  <2>2. \A k \in ips : ip[k].ip # ip[j].ip
    BY <1>3, <1>11, <1>13, <2>1 DEF Apart
  <2>3. \A p : Host(ip[j].ip, p) \notin rs
    BY <2>2 DEF Host
  <2>4. \A p : Host(ip[j].ip, p) \in t.kernel.rt <=> Host(ip[j].ip, p) \in R
    BY <2>3 DEF R
  <2>5. RouteIs(conf, ip[j], t.kernel.rt)
    BY <1>17 DEF RoutesFollow
  <2> QED BY <2>1, <2>4, <2>5 DEF RouteIs
<1>18. TablesFollow(conf, t) => TablesFollow(conf, u)
  <2>1. u.ax = v /\ u.ip = w /\ u.kernel.ax = K /\ u.kernel.rt = R
    BY <1>9
  <2> QED BY <1>1, <1>16, <1>17, <2>1 DEF TablesFollow, PathsFollow, RoutesFollow
<1> QED BY <1>14, <1>15, <1>18 DEF Move, t, u

-----------------------------------------------------------------------------
(* The invariant, action by action *)

Lines == [kind : {"ax25"}, e : AxEntries] \cup [kind : {"ip"}, e : IpEntries]

RtdShape ==
  /\ run \in {"up", "down", "load"} /\ conf \in Confs /\ now \in 1..MaxNow
  /\ Sound(Tables)
  /\ saved \in [ax : Seq(AxEntries), ip : Seq(IpEntries)]
  /\ todo \in Seq(Lines)

\* What every step does.
Right ==
  /\ RtdShape'
  /\ Kept(kernel.rt, kernel.rt')
  /\ SameOptions /\ TablesFollow(conf, Tables) => TablesFollow(conf', Tables')

Frame ==
  /\ conf' = conf /\ run' \in {"up", "down", "load"} /\ now' \in 1..MaxNow
  /\ saved' \in [ax : Seq(AxEntries), ip : Seq(IpEntries)] /\ todo' \in Seq(Lines)

LEMMA TablesStep ==
  ASSUME RtdShape, NEW t, Move(Tables, t), SetTables(t), Frame
  PROVE  Right
<1>1. t \in TablesType
  BY DEF Move, Sound
<1>2. Tables' = t
  BY <1>1, Parts DEF SetTables, Tables
<1>3. kernel' = t.kernel /\ Tables.kernel = kernel
  BY DEF SetTables, Tables
<1>4. RtdShape'
  BY <1>2 DEF RtdShape, Frame, Move
<1> QED BY <1>2, <1>3, <1>4 DEF Move, Right, Frame

LEMMA LineTypes ==
  /\ \A l \in Adds : (l.kind = "ax25" /\ l.e \in AxEntries) \/ (l.kind = "ip" /\ l.e \in IpEntries)
  /\ \A l \in Lines : (l.kind = "ax25" /\ l.e \in AxEntries) \/ (l.kind = "ip" /\ l.e \in IpEntries)
<1>1. ASSUME NEW l \in Adds
      PROVE  (l.kind = "ax25" /\ l.e \in AxEntries) \/ (l.kind = "ip" /\ l.e \in IpEntries)
  <2>1. l.e.dev \in Ports /\ l.e.stamp \in 0..MaxNow
    BY RtdConstants
  <2>2. l.e.call \in Calls /\ l.e.path \in Paths /\ l.e.ip \in Addrs /\ l.e.mode \in Modes
    BY DEF Calls, Paths, Addrs, Modes
  <2>3. CASE l.kind = "ax25" /\ IsAx25(l.e)
    BY <2>1, <2>2, <2>3 DEF IsAx25, AxEntries
  <2>4. CASE l.kind = "ip" /\ IsIp(l.e)
    BY <2>1, <2>2, <2>4 DEF IsIp, IpEntries
  <2> QED BY <2>3, <2>4, RtdConstants
<1> QED BY <1>1 DEF Lines

LEMMA InterpretMove ==
  ASSUME Sound(Tables), conf \in Confs, NEW l \in Adds \cup Lines, NEW t \in Interpret(l)
  PROVE  Move(Tables, t)
<1>1. CASE l.kind = "ax25" /\ l.e \in AxEntries
  <2>1. /\ l.e.dev \in Ports /\ l.e.call \in Calls /\ l.e.path \in Paths /\ l.e.stamp \in 0..MaxNow
    BY <1>1 DEF AxEntries
  <2>2. t = LearnAx25(Tables, l.e.dev, l.e.call, l.e.path, l.e.stamp)
    BY <1>1 DEF Interpret
  <2> QED BY <2>1, <2>2, LearnAx25Move
<1>2. CASE l.kind = "ip" /\ l.e \in IpEntries
  <2>1. t = Tables \/ t \in LearnIp(Tables, l.e)
    BY <1>2 DEF Interpret
  <2> QED BY <1>2, <2>1, LearnIpMove, MoveNot
<1> QED BY <1>1, <1>2, LineTypes

LEMMA ReceiveStep ==
  ASSUME RtdShape, NEW f \in Frames, Receive(f)
  PROVE  Right
<1> DEFINE path == IF ~f.mine /\ f.path = <<>> /\ Opt(f.port).ax25_add_default
                        /\ ~Contains(DefaultPath, f.call)
                     THEN DefaultPath ELSE f.path
           t == IF f.mine \/ ~Opt(f.port).ax25_for_me
                  THEN LearnAx25(Tables, f.port, f.call, path, now) ELSE Tables
           line == [ip |-> f.ip, dev |-> f.port, call |-> f.call, mode |-> f.mode, stamp |-> now,
                    invalid |-> FALSE]
<1>1. Sound(Tables) /\ conf \in Confs /\ now \in 0..MaxNow
  BY DEF RtdShape
<1>2. f.port \in Ports /\ f.call \in Calls /\ f.ip \in Addrs /\ f.mode \in Modes /\ path \in Paths
  BY RtdConstants DEF Calls, Paths, Addrs, Modes
<1>3. line \in IpEntries
  BY <1>1, <1>2 DEF IpEntries
<1>4. SetTables(t) \/ \E u \in LearnIp(t, line) : SetTables(u)
  BY DEF Receive
<1>5. Frame
  BY DEF Receive, Frame, RtdShape
<1> HIDE DEF path, line
<1>6. Move(Tables, t)
  BY <1>1, <1>2, LearnAx25Move, MoveNot
<1> HIDE DEF t
<1>7. Sound(t)
  BY <1>6 DEF Move
<1>8. CASE SetTables(t)
  BY <1>5, <1>6, <1>8, TablesStep
<1>9. CASE \E u \in LearnIp(t, line) : SetTables(u)
  <2>1. PICK u \in LearnIp(t, line) : SetTables(u)
    BY <1>9
  <2>2. Move(t, u)
    BY <1>1, <1>3, <1>7, <2>1, LearnIpMove
  <2>3. Move(Tables, u)
    BY <1>6, <2>2, MoveOn
  <2> QED BY <1>5, <2>1, <2>3, TablesStep
<1> QED BY <1>4, <1>8, <1>9

LEMMA AddStep ==
  ASSUME RtdShape, NEW l \in Adds, Add(l)
  PROVE  Right
<1>1. PICK t \in Interpret(l) : SetTables(t)
  BY DEF Add
<1>2. Frame
  BY DEF Add, Frame, RtdShape
<1>3. Move(Tables, t)
  BY InterpretMove DEF RtdShape
<1> QED BY <1>1, <1>2, <1>3, TablesStep

LEMMA LoadLineStep ==
  ASSUME RtdShape, LoadLine
  PROVE  Right
<1>1. PICK t \in Interpret(Head(todo)) : SetTables(t)
  BY DEF LoadLine
<1>2. todo \in Seq(Lines) /\ todo # <<>> /\ todo' = Tail(todo)
  BY DEF LoadLine, RtdShape
<1>3. Head(todo) \in Lines /\ todo' \in Seq(Lines)
  BY <1>2
<1>4. Frame
  BY <1>3 DEF LoadLine, Frame, RtdShape
<1>5. Move(Tables, t)
  BY <1>3, InterpretMove DEF RtdShape
<1> QED BY <1>1, <1>4, <1>5, TablesStep

\* The daemon ends, with nothing in its caches.
LEMMA EndsStep ==
  ASSUME RtdShape, Ends, conf' = conf, now' = now,
         saved' \in [ax : Seq(AxEntries), ip : Seq(IpEntries)],
         kernel' \in KernelTables, Kept(kernel.rt, kernel'.rt)
  PROVE  Right
<1>1. ax' = <<>> /\ ip' = <<>> /\ run' = "down" /\ todo' = <<>>
  BY DEF Ends
<1>2. /\ <<>> \in Seq(AxEntries) /\ <<>> \in Seq(IpEntries) /\ <<>> \in Seq(Lines)
      /\ \A i : i \notin 1..Len(<<>>)
  OBVIOUS
<1>3. Tables' = [ax |-> <<>>, ip |-> <<>>, kernel |-> kernel']
  BY <1>1 DEF Tables
<1>4. Tables' \in TablesType /\ Tables'.ax = <<>> /\ Tables'.ip = <<>>
  BY <1>2, <1>3 DEF TablesType
<1>5. Sound(Tables')
  BY <1>2, <1>4 DEF Sound, Apart
<1>6. RtdShape'
  BY <1>1, <1>2, <1>5 DEF RtdShape
<1>7. TablesFollow(conf', Tables')
  BY <1>2, <1>4 DEF TablesFollow, PathsFollow, RoutesFollow
<1> QED BY <1>6, <1>7 DEF Right

LEMMA RemoveEntriesStep ==
  ASSUME RtdShape, NEW axs \in SUBSET DOMAIN ax, NEW ips \in SUBSET DOMAIN ip,
         run = "up", RemoveEntries(axs, ips), conf' = conf, saved' = saved, now' = now
  PROVE  Right
<1> DEFINE Nth(i) == Cardinality({k \in 1..i : ip[k].call = ip[i].call})
           ipOf(n, js) == {i \in DOMAIN ip : \E j \in js : ax[j].call = ip[i].call /\ Nth(i) <= n[j]}
<1> HIDE DEF Nth
<1>1. PICK n \in [axs -> 1..(Len(ip) + 1)] :
        \/ SetTables(Removed(axs, ipOf(n, axs) \cup ips)) /\ UNCHANGED <<run, todo>>
        \/ \E j \in axs :
             LET before == {k \in axs : k < j}
             IN  ipOf(n, {j}) # {} /\ Ends /\ kernel' = Removed(before, ipOf(n, before \cup {j})).kernel
  BY DEF RemoveEntries, Nth
<1>2. \A js : ipOf(n, js) \in SUBSET DOMAIN ip
  OBVIOUS
<1> HIDE DEF ipOf
<1>3. Sound(Tables) /\ conf \in Confs
  BY DEF RtdShape
<1>4. CASE SetTables(Removed(axs, ipOf(n, axs) \cup ips)) /\ UNCHANGED <<run, todo>>
  <2>1. ipOf(n, axs) \cup ips \in SUBSET DOMAIN ip
    BY <1>2
  <2>2. Move(Tables, Removed(axs, ipOf(n, axs) \cup ips))
    BY <1>3, <2>1, RemovedMove
  <2>3. Frame
    BY <1>4 DEF Frame, RtdShape
  <2> QED BY <1>4, <2>2, <2>3, TablesStep
<1>5. CASE \E j \in axs :
             LET before == {k \in axs : k < j}
             IN  ipOf(n, {j}) # {} /\ Ends /\ kernel' = Removed(before, ipOf(n, before \cup {j})).kernel
  <2>1. PICK j \in axs :
             LET before == {k \in axs : k < j}
             IN  ipOf(n, {j}) # {} /\ Ends /\ kernel' = Removed(before, ipOf(n, before \cup {j})).kernel
    BY <1>5
  <2> DEFINE before == {k \in axs : k < j}
             is == ipOf(n, before \cup {j})
  <2>2. Ends /\ kernel' = Removed(before, is).kernel
    BY <2>1
  <2>3. before \in SUBSET DOMAIN ax /\ is \in SUBSET DOMAIN ip
    BY <1>2
  <2> HIDE DEF before, is
  <2>4. Move(Tables, Removed(before, is))
    BY <1>3, <2>3, RemovedMove
  <2>5. Removed(before, is) \in TablesType /\ Tables.kernel = kernel
    BY <2>4 DEF Move, Sound, Tables
  <2>6. kernel' \in KernelTables /\ Kept(kernel.rt, kernel'.rt)
    BY <2>2, <2>4, <2>5, Parts DEF Move
  <2>7. saved' \in [ax : Seq(AxEntries), ip : Seq(IpEntries)]
    BY DEF RtdShape
  <2> QED BY <2>2, <2>6, <2>7, EndsStep
<1> QED BY <1>1, <1>4, <1>5

LEMMA DelAx25Step ==
  ASSUME RtdShape, NEW c, NEW port, DelAx25(c, port)
  PROVE  Right
<1> DEFINE axs == {i \in DOMAIN ax : ax[i].call = c /\ ax[i].dev = port}
<1>1. RemoveEntries(axs, {}) /\ run = "up" /\ conf' = conf /\ saved' = saved /\ now' = now
  BY DEF DelAx25
<1>2. axs \in SUBSET DOMAIN ax /\ {} \in SUBSET DOMAIN ip
  OBVIOUS
<1> HIDE DEF axs
<1> QED BY <1>1, <1>2, RemoveEntriesStep

LEMMA ExpireStep ==
  ASSUME RtdShape, NEW age, Expire(age)
  PROVE  Right
<1> DEFINE old(s) == {i \in DOMAIN s : s[i].stamp # 0 /\ s[i].stamp + age <= now}
<1>1. RemoveEntries(old(ax), old(ip)) /\ run = "up" /\ conf' = conf /\ saved' = saved /\ now' = now
  BY DEF Expire
<1>2. old(ax) \in SUBSET DOMAIN ax /\ old(ip) \in SUBSET DOMAIN ip
  OBVIOUS
<1> HIDE DEF old
<1> QED BY <1>1, <1>2, RemoveEntriesStep

LEMMA DelIpStep ==
  ASSUME RtdShape, NEW a, DelIp(a)
  PROVE  Right
<1> DEFINE ips == {i \in DOMAIN ip : ip[i].ip = a}
<1>1. SetTables(Removed({}, ips))
  BY DEF DelIp
<1>2. {} \in SUBSET DOMAIN ax /\ ips \in SUBSET DOMAIN ip
  OBVIOUS
<1>3. Frame
  BY DEF DelIp, Frame, RtdShape
<1>4. Move(Tables, Removed({}, ips))
  <2> HIDE DEF ips
  <2> QED BY <1>2, RemovedMove DEF RtdShape
<1> HIDE DEF ips
<1> QED BY <1>1, <1>3, <1>4, TablesStep

\* The tables stay, in the same or another configuration.
LEMMA SameTablesStep ==
  ASSUME RtdShape, UNCHANGED <<ax, ip, kernel>>, conf' \in Confs, run' \in {"up", "down", "load"},
         now' \in 1..MaxNow, saved' \in [ax : Seq(AxEntries), ip : Seq(IpEntries)], todo' \in Seq(Lines)
  PROVE  Right
<1>1. Tables' = Tables /\ Tables.ax = ax /\ Tables.ip = ip /\ Tables.kernel = kernel
  BY DEF Tables
<1>2. RtdShape'
  BY <1>1 DEF RtdShape
<1>3. Kept(kernel.rt, kernel'.rt)
  BY DEF Kept
<1>4. ax \in Seq(AxEntries) /\ ip \in Seq(IpEntries)
  <2>1. Tables \in TablesType
    BY DEF RtdShape, Sound
  <2> QED BY <1>1, <2>1, Parts
<1>5. /\ \A i \in 1..Len(ax) : ax[i].dev \in Ports
      /\ \A i \in 1..Len(ip) : ip[i].dev \in Ports
  <2>1. \A i \in 1..Len(ax) : ax[i] \in AxEntries
    BY <1>4
  <2>2. \A i \in 1..Len(ip) : ip[i] \in IpEntries
    BY <1>4
  <2> QED BY <2>1, <2>2 DEF AxEntries, IpEntries
<1>6. ASSUME SameOptions, TablesFollow(conf, Tables) PROVE TablesFollow(conf', Tables)
  <2>1. \A p \in Ports : /\ conf.port[p].ax25_add_route = conf'.port[p].ax25_add_route
                         /\ conf.port[p].ip_add_route = conf'.port[p].ip_add_route
    BY <1>6 DEF SameOptions, RtdShape
  <2>2. ASSUME NEW i \in 1..Len(ax) PROVE PathIs(conf', ax[i], kernel.ax)
    <3>1. PathIs(conf, ax[i], kernel.ax)
      BY <1>1, <1>6 DEF TablesFollow, PathsFollow
    <3> QED BY <1>5, <2>1, <3>1 DEF PathIs
  <2>3. ASSUME NEW i \in 1..Len(ip) PROVE RouteIs(conf', ip[i], kernel.rt)
    <3>1. RouteIs(conf, ip[i], kernel.rt)
      BY <1>1, <1>6 DEF TablesFollow, RoutesFollow
    <3> QED BY <2>1, <3>1 DEF RouteIs
  <2> QED BY <1>1, <2>2, <2>3 DEF TablesFollow, PathsFollow, RoutesFollow
<1> QED BY <1>1, <1>2, <1>3, <1>6 DEF Right

LEMMA SeqsOf ==
  ASSUME RtdShape
  PROVE  /\ ax \in Seq(AxEntries) /\ ip \in Seq(IpEntries) /\ kernel \in KernelTables
         /\ saved.ax \in Seq(AxEntries) /\ saved.ip \in Seq(IpEntries)
         /\ saved = [ax |-> saved.ax, ip |-> saved.ip]
<1>1. Tables \in TablesType /\ Tables.ax = ax /\ Tables.ip = ip /\ Tables.kernel = kernel
  BY DEF RtdShape, Sound, Tables
<1>2. saved \in [ax : Seq(AxEntries), ip : Seq(IpEntries)]
  BY DEF RtdShape
<1> QED BY <1>1, <1>2, Parts

LEMMA ReloadConfStep == RtdShape /\ ReloadConf => Right
<1> SUFFICES ASSUME RtdShape, ReloadConf PROVE Right
  OBVIOUS
<1>1. UNCHANGED <<ax, ip, kernel>> /\ conf' \in Confs
  BY DEF ReloadConf
<1>2. UNCHANGED <<run, saved, todo, now>>
  BY DEF ReloadConf
<1> QED BY <1>1, <1>2, SameTablesStep DEF RtdShape

LEMMA SaveStep == RtdShape /\ Save => Right
<1> SUFFICES ASSUME RtdShape, Save PROVE Right
  OBVIOUS
<1>1. UNCHANGED <<ax, ip, kernel>> /\ conf' = conf
  BY DEF Save
<1>2. UNCHANGED <<run, todo, now>> /\ saved' \in [ax : Seq(AxEntries), ip : Seq(IpEntries)]
  BY SeqsOf DEF Save, SaveCache
<1> QED BY <1>1, <1>2, SameTablesStep DEF RtdShape

LEMMA ShutdownStep == RtdShape /\ Shutdown => Right
<1> SUFFICES ASSUME RtdShape, Shutdown PROVE Right
  OBVIOUS
<1>1. Ends /\ kernel' = kernel /\ conf' = conf /\ now' = now
  BY DEF Shutdown
<1>2. saved' \in [ax : Seq(AxEntries), ip : Seq(IpEntries)]
  BY SeqsOf DEF Shutdown, SaveCache
<1>3. kernel' \in KernelTables /\ Kept(kernel.rt, kernel'.rt)
  BY <1>1, SeqsOf DEF Kept
<1> QED BY <1>1, <1>2, <1>3, EndsStep

LEMMA CrashStep == RtdShape /\ Crash => Right
<1> SUFFICES ASSUME RtdShape, Crash PROVE Right
  OBVIOUS
<1>1. Ends /\ kernel' = kernel /\ conf' = conf /\ now' = now
  BY DEF Crash
<1>2. saved' \in [ax : Seq(AxEntries), ip : Seq(IpEntries)]
  <2>1. \A n \in 0..Len(ax) : SubSeq(ax, 1, n) \in Seq(AxEntries)
    BY SeqsOf
  <2>2. \A n \in 0..Len(ip) : SubSeq(ip, 1, n) \in Seq(IpEntries)
    BY SeqsOf
  <2>3. CASE saved' = saved
    BY <2>3 DEF RtdShape
  <2>4. CASE \E n \in 0..Len(ax) : saved' = [saved EXCEPT !.ax = SubSeq(ax, 1, n)]
    BY <2>1, <2>4 DEF RtdShape
  <2>5. CASE \E n \in 0..Len(ip) : saved' = [ax |-> ax, ip |-> SubSeq(ip, 1, n)]
    BY <2>2, <2>5, SeqsOf
  <2> QED BY <2>3, <2>4, <2>5 DEF Crash
<1>3. kernel' \in KernelTables /\ Kept(kernel.rt, kernel'.rt)
  BY <1>1, SeqsOf DEF Kept
<1> QED BY <1>1, <1>2, <1>3, EndsStep

LEMMA StartStep == RtdShape /\ Start => Right
<1> SUFFICES ASSUME RtdShape, Start PROVE Right
  OBVIOUS
<1> DEFINE a == [i \in DOMAIN saved.ax |-> Ax25Line(saved.ax[i])]
           b == [i \in DOMAIN saved.ip |-> IpLine(saved.ip[i])]
<1>1. UNCHANGED <<ax, ip, kernel, saved, now>> /\ conf' \in Confs /\ run' = "load" /\ todo' = a \o b
  BY DEF Start
<1>2. a \in Seq(Lines)
  <2>1. saved.ax \in Seq(AxEntries)
    BY SeqsOf
  <2>2. DOMAIN saved.ax = 1..Len(saved.ax) /\ Len(saved.ax) \in Nat
    BY <2>1
  <2>3. \A i \in 1..Len(saved.ax) : Ax25Line(saved.ax[i]) \in Lines
    BY <2>1 DEF Ax25Line, Lines
  <2>4. a \in [1..Len(saved.ax) -> Lines]
    BY <2>2, <2>3
  <2> HIDE DEF a
  <2> QED BY <2>2, <2>4
<1>3. b \in Seq(Lines)
  <2>1. saved.ip \in Seq(IpEntries)
    BY SeqsOf
  <2>2. DOMAIN saved.ip = 1..Len(saved.ip) /\ Len(saved.ip) \in Nat
    BY <2>1
  <2>3. \A i \in 1..Len(saved.ip) : IpLine(saved.ip[i]) \in Lines
    BY <2>1 DEF IpLine, Lines
  <2>4. b \in [1..Len(saved.ip) -> Lines]
    BY <2>2, <2>3
  <2> HIDE DEF b
  <2> QED BY <2>2, <2>4
<1> HIDE DEF a, b
<1>4. todo' \in Seq(Lines)
  BY <1>1, <1>2, <1>3
<1> QED BY <1>1, <1>4, SameTablesStep DEF RtdShape

LEMMA LoadedStep == RtdShape /\ Loaded => Right
<1> SUFFICES ASSUME RtdShape, Loaded PROVE Right
  OBVIOUS
<1>1. UNCHANGED <<ax, ip, kernel>> /\ run' = "up" /\ UNCHANGED <<conf, saved, todo, now>>
  BY DEF Loaded
<1> QED BY <1>1, SameTablesStep DEF RtdShape

LEMMA TickStep == RtdShape /\ Tick => Right
<1> SUFFICES ASSUME RtdShape, Tick PROVE Right
  OBVIOUS
<1>1. UNCHANGED <<ax, ip, kernel>> /\ UNCHANGED <<run, conf, saved, todo>>
  BY DEF Tick
<1>2. now' \in 1..MaxNow
  BY RtdConstants DEF Tick, RtdShape
<1> QED BY <1>1, <1>2, SameTablesStep DEF RtdShape

LEMMA ForeignRouteStep ==
  ASSUME RtdShape, NEW a \in Ips, ForeignRoute(a)
  PROVE  Right
<1> DEFINE R == kernel.rt \cup {Host(a, Foreign)}
           t == With(Tables, ip, R)
<1>1. Tables \in TablesType /\ Tables.ax = ax /\ Tables.ip = ip /\ Tables.kernel = kernel
  BY DEF RtdShape, Sound, Tables
<1>2. kernel.rt \in SUBSET IpRoutes /\ ip \in Seq(IpEntries)
  BY <1>1, Parts
<1>3. Host(a, Foreign) \in IpRoutes
  BY DEF Host, IpRoutes
<1>4. R \in SUBSET IpRoutes
  BY <1>2, <1>3
<1>5. /\ t \in TablesType /\ t.ax = ax /\ t.ip = ip /\ t.kernel.ax = kernel.ax /\ t.kernel.rt = R
      /\ t.kernel.arp = kernel.arp
  BY <1>1, <1>2, <1>4, WithFacts
<1>6. \A b, p : p \in Ports => (Host(b, p) \in R <=> Host(b, p) \in kernel.rt)
  BY RtdConstants DEF Host
<1>7. Kept(kernel.rt, R)
  BY <1>6 DEF Kept
<1>8. kernel' = [kernel EXCEPT !.rt = R]
  BY DEF ForeignRoute, Host
<1>9. Sound(t)
  BY <1>1, <1>5 DEF Sound, RtdShape
<1>10. kernel' = t.kernel
  <2>1. t.kernel = [ax |-> kernel.ax, rt |-> R, arp |-> kernel.arp]
    BY <1>1 DEF With
  <2>2. kernel = [ax |-> kernel.ax, rt |-> kernel.rt, arp |-> kernel.arp]
    BY <1>1, Parts
  <2> HIDE DEF R, t
  <2> QED BY <1>8, <2>1, <2>2
<1> HIDE DEF t
<1>11. ASSUME TablesFollow(conf, Tables) PROVE TablesFollow(conf, t)
  <2>1. ASSUME NEW i \in 1..Len(ip) PROVE RouteIs(conf, ip[i], R)
    <3>1. RouteIs(conf, ip[i], kernel.rt)
      BY <1>1, <1>11 DEF TablesFollow, RoutesFollow
    <3> HIDE DEF R
    <3> QED BY <1>6, <3>1 DEF RouteIs
  <2>2. PathsFollow(conf, ax, kernel.ax)
    BY <1>1, <1>11 DEF TablesFollow
  <2> HIDE DEF R
  <2> QED BY <1>5, <2>1, <2>2 DEF TablesFollow, RoutesFollow
<1>12. Move(Tables, t)
  BY <1>1, <1>5, <1>7, <1>9, <1>11 DEF Move
<1>13. SetTables(t)
  BY <1>5, <1>10 DEF SetTables, ForeignRoute
<1>14. Frame
  BY DEF Frame, RtdShape, ForeignRoute
<1> QED BY <1>12, <1>13, <1>14, TablesStep

LEMMA RtdInitRight == RtdInit => RtdShape /\ TablesFollow(conf, Tables)
<1> SUFFICES ASSUME RtdInit PROVE RtdShape /\ TablesFollow(conf, Tables)
  OBVIOUS
<1> DEFINE none == [ax |-> {}, rt |-> {}, arp |-> {}]
<1>1. /\ run = "up" /\ conf \in Confs /\ now = 1 /\ ax = <<>> /\ ip = <<>> /\ kernel = none
      /\ saved = [ax |-> <<>>, ip |-> <<>>] /\ todo = <<>>
  BY DEF RtdInit
<1>2. /\ <<>> \in Seq(AxEntries) /\ <<>> \in Seq(IpEntries) /\ <<>> \in Seq(Lines)
      /\ \A i : i \notin 1..Len(<<>>)
  OBVIOUS
<1>3. none \in KernelTables
  BY DEF KernelTables
<1>4. Tables \in TablesType /\ Tables.ax = <<>> /\ Tables.ip = <<>>
  BY <1>1, <1>2, <1>3 DEF Tables, TablesType
<1>5. Sound(Tables) /\ TablesFollow(conf, Tables)
  BY <1>2, <1>4 DEF Sound, Apart, TablesFollow, PathsFollow, RoutesFollow
<1>6. now \in 1..MaxNow
  BY <1>1, RtdConstants
<1> QED BY <1>1, <1>2, <1>5, <1>6 DEF RtdShape

LEMMA RtdStutter == RtdShape /\ UNCHANGED rtd_vars => Right
<1> SUFFICES ASSUME RtdShape, UNCHANGED rtd_vars PROVE Right
  OBVIOUS
<1>1. UNCHANGED <<ax, ip, kernel>> /\ UNCHANGED <<run, conf, saved, todo, now>>
  BY DEF rtd_vars
<1> QED BY <1>1, SameTablesStep DEF RtdShape

LEMMA RtdStep == RtdShape /\ [RtdNext]_rtd_vars => Right
<1> SUFFICES ASSUME RtdShape, [RtdNext]_rtd_vars PROVE Right
  OBVIOUS
<1>1. ASSUME NEW f \in Frames, Receive(f) PROVE Right
  BY <1>1, ReceiveStep
<1>2. ASSUME NEW l \in Adds, Add(l) PROVE Right
  BY <1>2, AddStep
<1>3. ASSUME NEW d \in Dels, DelAx25(d[1], d[2]) PROVE Right
  BY <1>3, DelAx25Step
<1>4. ASSUME NEW a \in Ips, DelIp(a) PROVE Right
  BY <1>4, DelIpStep
<1>5. ASSUME NEW a \in Ips, ForeignRoute(a) PROVE Right
  BY <1>5, ForeignRouteStep
<1>6. ASSUME NEW age \in 1..MaxNow - 1, Expire(age) PROVE Right
  BY <1>6, ExpireStep
<1> QED BY <1>1, <1>2, <1>3, <1>4, <1>5, <1>6, ReloadConfStep, SaveStep, ShutdownStep, CrashStep,
           StartStep, LoadLineStep, LoadedStep, TickStep, RtdStutter DEF RtdNext

-----------------------------------------------------------------------------
(* What follows from it *)

\* Nothing is in a cache twice.
LEMMA ShapeTyped == RtdShape => RtdTypeOK
<1> SUFFICES ASSUME RtdShape PROVE RtdTypeOK
  OBVIOUS
<1>1. /\ run \in {"up", "down", "load"} /\ conf \in Confs /\ now \in 1..MaxNow
      /\ Apart(ax, CallOf) /\ Apart(ip, AddrOf) /\ \A i \in 1..Len(ip) : ip[i].ip \in Subnet[ip[i].dev]
  BY DEF RtdShape, Sound, Tables
<1>2. ax \in Seq(AxEntries) /\ ip \in Seq(IpEntries) /\ kernel \in KernelTables
  BY SeqsOf
<1>3. DOMAIN ax = 1..Len(ax) /\ DOMAIN ip = 1..Len(ip)
  BY <1>2
<1>4. /\ \A i \in 1..Len(ax) : ax[i] \in AxEntries
      /\ \A i \in 1..Len(ip) : ip[i] \in IpEntries
  BY <1>2
<1>5. \A i \in 1..Len(ax) : ax[i].dev \in Ports /\ ax[i].stamp \in 0..MaxNow /\ CallOf[ax[i]] = ax[i].call
  BY <1>4 DEF AxEntries, CallOf
<1>6. \A i \in 1..Len(ip) : ip[i].dev \in Ports /\ AddrOf[ip[i]] = ip[i].ip
  BY <1>4 DEF IpEntries, AddrOf
<1>7. IsInjective([i \in DOMAIN ax |-> ax[i].call])
  BY <1>1, <1>3, <1>5 DEF IsInjective, Apart
<1>8. IsInjective([i \in DOMAIN ip |-> ip[i].ip])
  BY <1>1, <1>3, <1>6 DEF IsInjective, Apart
<1>9. \A r \in kernel.rt : r.ip \in Ips /\ r.dev \in Ports \cup {Foreign}
  BY <1>2 DEF KernelTables, IpRoutes
<1> QED BY <1>1, <1>3, <1>5, <1>6, <1>7, <1>8, <1>9 DEF RtdTypeOK

LEMMA OwnRoutesAre ==
  ASSUME RtdShape, NEW a, NEW p
  PROVE  p \in OwnRoutes(a) <=> p \in Ports /\ Host(a, p) \in kernel.rt
<1>1. kernel.rt \in SUBSET IpRoutes
  BY SeqsOf DEF KernelTables
<1>2. ASSUME p \in OwnRoutes(a) PROVE p \in Ports /\ Host(a, p) \in kernel.rt
  <2>1. PICK r \in kernel.rt : r.ip = a /\ r.dev \in Ports /\ p = r.dev
    BY <1>2 DEF OwnRoutes
  <2>2. r = Host(a, p)
    BY <1>1, <2>1 DEF IpRoutes, Host
  <2> QED BY <2>1, <2>2
<1>3. ASSUME p \in Ports, Host(a, p) \in kernel.rt PROVE p \in OwnRoutes(a)
  BY <1>3 DEF OwnRoutes, Host
<1> QED BY <1>2, <1>3

LEMMA FollowsFollows == RtdShape /\ TablesFollow(conf, Tables) => KernelFollows
<1> SUFFICES ASSUME RtdShape, TablesFollow(conf, Tables) PROVE KernelFollows
  OBVIOUS
<1>1. PathsFollow(conf, ax, kernel.ax) /\ RoutesFollow(conf, ip, kernel.rt)
  BY DEF TablesFollow, Tables
<1>2. ax \in Seq(AxEntries) /\ ip \in Seq(IpEntries)
  BY SeqsOf
<1>3. DOMAIN ax = 1..Len(ax) /\ DOMAIN ip = 1..Len(ip)
  BY <1>2
<1>4. PathFollows
  BY <1>1, <1>3 DEF PathFollows, PathsFollow, PathIs, Way, Opt
<1>5. RouteFollows
  <2> SUFFICES ASSUME NEW i \in DOMAIN ip, ~ip[i].invalid
               PROVE  {p \in OwnRoutes(ip[i].ip) : Opt(p).ip_add_route}
                        = IF Opt(ip[i].dev).ip_add_route THEN {ip[i].dev} ELSE {}
    BY DEF RouteFollows
  <2>1. ip[i] \in IpEntries
    BY <1>2, <1>3
  <2>2. ip[i].dev \in Ports
    BY <2>1 DEF IpEntries
  <2>3. \A p \in Ports : conf.port[p].ip_add_route => (Host(ip[i].ip, p) \in kernel.rt <=> p = ip[i].dev)
    BY <1>1, <1>3 DEF RoutesFollow, RouteIs
  <2>4. \A p : p \in OwnRoutes(ip[i].ip) <=> p \in Ports /\ Host(ip[i].ip, p) \in kernel.rt
    BY OwnRoutesAre
  <2> QED BY <2>2, <2>3, <2>4 DEF Opt
<1> QED BY <1>4, <1>5, ShapeTyped DEF KernelFollows

LEMMA KeptKeeps ==
  RtdShape /\ RtdShape' /\ Kept(kernel.rt, kernel.rt')
    => \A a \in Ips :
         LET f == [ip |-> a, dev |-> Foreign]
         IN  f \in kernel.rt => f \in kernel'.rt /\ OwnRoutes(a)' \subseteq OwnRoutes(a)
<1> SUFFICES ASSUME RtdShape, RtdShape', Kept(kernel.rt, kernel.rt'), NEW a \in Ips,
                    Host(a, Foreign) \in kernel.rt
             PROVE  Host(a, Foreign) \in kernel'.rt /\ OwnRoutes(a)' \subseteq OwnRoutes(a)
  BY DEF Host
<1>1. Host(a, Foreign) \in kernel'.rt /\ \A p \in Ports : Host(a, p) \in kernel'.rt => Host(a, p) \in kernel.rt
  BY DEF Kept
<1>2. ASSUME NEW p \in OwnRoutes(a)' PROVE p \in OwnRoutes(a)
  <2>1. p \in Ports /\ Host(a, p) \in kernel'.rt
    <3>1. kernel'.rt \in SUBSET IpRoutes
      <4>1. Tables' \in TablesType /\ Tables'.kernel = kernel'
        BY DEF RtdShape, Sound, Tables
      <4> QED BY <4>1, Parts
    <3>2. PICK r \in kernel'.rt : r.ip = a /\ r.dev \in Ports /\ p = r.dev
      BY DEF OwnRoutes
    <3>3. r = Host(a, p)
      BY <3>1, <3>2 DEF IpRoutes, Host
    <3> QED BY <3>2, <3>3
  <2> QED BY <1>1, <2>1, OwnRoutesAre
<1> QED BY <1>1, <1>2

-----------------------------------------------------------------------------
(* Loading the files *)

\* Nothing is in a file twice, and each address is on a port it fits.
SavedRight ==
  /\ Apart(saved.ax, CallOf) /\ Apart(saved.ip, AddrOf)
  /\ \A i \in 1..Len(saved.ip) : saved.ip[i].ip \in Subnet[saved.ip[i].dev]

\* The ith line of the files, one after the other.
LineNo(i) ==
  IF i <= Len(saved.ax) THEN Ax25Line(saved.ax[i]) ELSE IpLine(saved.ip[i - Len(saved.ax)])

\* The cache holds what the first k lines of its file say.
AxBack(s, k) ==
  /\ Len(s) <= k
  /\ \A i \in 1..Len(s) : \E j \in 1..Len(saved.ax) : j <= k /\ s[i] = saved.ax[j]
  /\ \A j \in 1..Len(saved.ax) : j <= k => \E i \in 1..Len(s) : s[i] = saved.ax[j]

IpBack(s, k) ==
  /\ Len(s) <= k \/ Len(s) = 0
  /\ \A i \in 1..Len(s) :
       \E j \in 1..Len(saved.ip) : j <= k /\ ~saved.ip[j].invalid /\ Valid(s[i]) = saved.ip[j]
  /\ \A j \in 1..Len(saved.ip) :
       j <= k /\ ~saved.ip[j].invalid => \E i \in 1..Len(s) : Valid(s[i]) = saved.ip[j]

AxEnough == Len(saved.ax) <= conf.ax25_maxroutes
IpEnough == Len(saved.ip) <= conf.ip_maxroutes /\ conf.encaps \notin Ports

\* After k lines.
Loading(k) ==
  /\ k \in 0..Len(saved.ax) + Len(saved.ip)
  /\ Len(todo) = Len(saved.ax) + Len(saved.ip) - k
  /\ \A i \in 1..Len(todo) : todo[i] = LineNo(k + i)
  /\ AxEnough => AxBack(ax, k)
  /\ IpEnough => IpBack(ip, k - Len(saved.ax))

Back ==
  /\ SavedRight
  /\ run = "down" => ax = <<>> /\ ip = <<>>
  /\ run = "load" => \E k \in Nat : Loading(k)

\* A line of the AX.25 file: the entry comes to the front of its cache.
LEMMA AxLine ==
  ASSUME RtdShape, SavedRight, NEW k \in Nat, Loading(k), k < Len(saved.ax),
         NEW t \in Interpret(LineNo(k + 1))
  PROVE  t.ip = ip /\ (AxEnough => AxBack(t.ax, k + 1))
<1> DEFINE e == saved.ax[k + 1]
<1>1. saved.ax \in Seq(AxEntries) /\ ax \in Seq(AxEntries) /\ Len(ax) \in Nat
  BY SeqsOf
<1>2. k + 1 \in 1..Len(saved.ax)
  BY <1>1
<1>3. e \in AxEntries
  BY <1>1, <1>2
<1> HIDE DEF e
<1>4. LineNo(k + 1) = Ax25Line(e)
  BY <1>2 DEF LineNo, e
<1>5. t = LearnAx25(Tables, e.dev, e.call, e.path, e.stamp)
  BY <1>4 DEF Interpret, Ax25Line
<1>6. /\ e.dev \in Ports /\ e.call \in Calls /\ e.path \in Paths /\ e.stamp \in 0..MaxNow
      /\ [call |-> e.call, dev |-> e.dev, path |-> e.path, stamp |-> e.stamp] = e
  BY <1>3 DEF AxEntries
<1>7. Sound(Tables) /\ conf \in Confs /\ Tables.ax = ax /\ Tables.ip = ip
  BY DEF RtdShape, Tables
<1>8. t.ip = ip /\ (AxFits(Tables, e.call) => t.ax = <<e>> \o ax)
  <2> DEFINE f == [call |-> e.call, dev |-> e.dev, path |-> e.path, stamp |-> e.stamp]
  <2>1. t.ip = Tables.ip /\ (AxFits(Tables, e.call) => t.ax = <<f>> \o Tables.ax)
    BY <1>5, <1>6, <1>7, LearnAx25Move
  <2> QED BY <1>6, <1>7, <2>1
<1>9. ASSUME AxEnough PROVE AxBack(t.ax, k + 1)
  <2>1. AxBack(ax, k)
    BY <1>9 DEF Loading
  <2>2. \A i \in 1..Len(saved.ax) : saved.ax[i] \in AxEntries /\ CallOf[saved.ax[i]] = saved.ax[i].call
    BY <1>1 DEF CallOf
  <2>3. ASSUME NEW i \in 1..Len(ax) PROVE ax[i].call # e.call
    <3>1. PICK j \in 1..Len(saved.ax) : j <= k /\ ax[i] = saved.ax[j]
      BY <2>1 DEF AxBack
    <3>2. CallOf[saved.ax[j]] # CallOf[saved.ax[k + 1]]
      BY <1>2, <3>1 DEF SavedRight, Apart
    <3> QED BY <1>2, <2>2, <3>1, <3>2 DEF e
  <2>4. Len(ax) < conf.ax25_maxroutes
    <3>1. conf.ax25_maxroutes \in Nat /\ Len(saved.ax) \in Nat
      BY <1>1, <1>7, RtdConstants
    <3> QED BY <1>1, <1>9, <2>1, <3>1 DEF AxBack, AxEnough
  <2>5. t.ax = <<e>> \o ax
    BY <1>7, <1>8, <2>3, <2>4 DEF AxFits
  <2>6. Len(t.ax) = Len(ax) + 1 /\ t.ax[1] = e /\ \A i \in 1..Len(ax) : t.ax[i + 1] = ax[i]
    BY <1>1, <1>3, <2>5
  <2>7. ASSUME NEW i \in 1..Len(t.ax)
        PROVE  \E j \in 1..Len(saved.ax) : j <= k + 1 /\ t.ax[i] = saved.ax[j]
    <3>1. CASE i = 1
      BY <1>2, <2>6, <3>1 DEF e
    <3>2. CASE i # 1
      <4>1. i - 1 \in 1..Len(ax) /\ (i - 1) + 1 = i
        BY <1>1, <2>6, <3>2
      <4>2. PICK j \in 1..Len(saved.ax) : j <= k /\ ax[i - 1] = saved.ax[j]
        BY <2>1, <4>1 DEF AxBack
      <4>3. t.ax[i] = ax[i - 1] /\ j <= k + 1
        BY <2>6, <4>1, <4>2
      <4> QED BY <4>2, <4>3
    <3> QED BY <3>1, <3>2
  <2>8. ASSUME NEW j \in 1..Len(saved.ax), j <= k + 1
        PROVE  \E i \in 1..Len(t.ax) : t.ax[i] = saved.ax[j]
    <3>1. CASE j = k + 1
      <4>1. 1 \in 1..Len(t.ax)
        BY <1>1, <2>6
      <4> QED BY <2>6, <3>1, <4>1 DEF e
    <3>2. CASE j # k + 1
      <4>1. PICK i \in 1..Len(ax) : ax[i] = saved.ax[j]
        BY <2>1, <2>8, <3>2 DEF AxBack
      <4>2. i + 1 \in 1..Len(t.ax) /\ t.ax[i + 1] = ax[i]
        BY <1>1, <2>6
      <4> QED BY <4>1, <4>2
    <3> QED BY <3>1, <3>2
  <2>9. Len(t.ax) <= k + 1
    BY <1>1, <2>1, <2>6 DEF AxBack
  <2> QED BY <2>7, <2>8, <2>9 DEF AxBack
<1> QED BY <1>8, <1>9

\* A line of the IP file: the entry comes to the front, unless it was invalid.
LEMMA IpLineBack ==
  ASSUME RtdShape, SavedRight, NEW k \in Nat, Loading(k), k >= Len(saved.ax),
         k < Len(saved.ax) + Len(saved.ip), NEW t \in Interpret(LineNo(k + 1))
  PROVE  t.ax = ax /\ (IpEnough => IpBack(t.ip, (k + 1) - Len(saved.ax)))
<1> DEFINE n == k - Len(saved.ax)
           e == saved.ip[n + 1]
<1>1. /\ saved.ip \in Seq(IpEntries) /\ ip \in Seq(IpEntries) /\ Len(ip) \in Nat
      /\ Len(saved.ax) \in Nat /\ Len(saved.ip) \in Nat
  BY SeqsOf
<1>2. n \in Nat /\ n + 1 \in 1..Len(saved.ip) /\ (k + 1) - Len(saved.ax) = n + 1
      /\ ~(k + 1 <= Len(saved.ax))
  <2> DEFINE a == Len(saved.ax)
             b == Len(saved.ip)
  <2>1. a \in Nat /\ b \in Nat /\ k >= a /\ k < a + b
    BY <1>1
  <2> HIDE DEF a, b
  <2>2. k - a \in Nat /\ (k - a) + 1 \in 1..b /\ (k + 1) - a = (k - a) + 1 /\ ~(k + 1 <= a)
    BY <2>1
  <2> QED BY <2>2 DEF a, b
<1>3. e \in IpEntries
  <2>1. \A i \in 1..Len(saved.ip) : saved.ip[i] \in IpEntries
    BY <1>1
  <2> QED BY <1>2, <2>1
<1>4. LineNo(k + 1) = IpLine(e)
  <2>1. LineNo(k + 1) = IpLine(saved.ip[(k + 1) - Len(saved.ax)])
    BY <1>2 DEF LineNo
  <2> QED BY <1>2, <2>1
<1>5. IpEnough => IpBack(ip, n)
  BY DEF Loading
<1> HIDE DEF n, e
<1>6. t \in IF e.invalid THEN {Tables} ELSE LearnIp(Tables, e)
  BY <1>4 DEF Interpret, IpLine
<1>7. Sound(Tables) /\ conf \in Confs /\ Tables.ax = ax /\ Tables.ip = ip
  BY DEF RtdShape, Tables
<1>8. CASE e.invalid
  <2>1. t.ax = ax /\ t.ip = ip
    BY <1>6, <1>7, <1>8
  <2>2. ASSUME IpBack(ip, n) PROVE IpBack(ip, n + 1)
    <3>1. \A j \in 1..Len(saved.ip) : j <= n + 1 /\ ~saved.ip[j].invalid => j <= n
      BY <1>2, <1>8 DEF e
    <3>2. \A j \in 1..Len(saved.ip) : j <= n => j <= n + 1
      BY <1>2
    <3>3. Len(ip) <= n + 1 \/ Len(ip) = 0
      BY <1>1, <1>2, <2>2 DEF IpBack
    <3> QED BY <2>2, <3>1, <3>2, <3>3 DEF IpBack
  <2> QED BY <1>2, <1>5, <2>1, <2>2
<1>9. CASE ~e.invalid
  <2>1. t.ax = ax /\ (Fits(Tables, e) => Alike(<<e>> \o ip, t.ip))
    BY <1>3, <1>6, <1>7, <1>9, LearnIpMove
  <2>2. ASSUME IpEnough PROVE IpBack(t.ip, n + 1)
    <3>1. IpBack(ip, n)
      BY <1>5, <2>2
    <3>2. /\ \A i \in 1..Len(saved.ip) : saved.ip[i] \in IpEntries /\ AddrOf[saved.ip[i]] = saved.ip[i].ip
          /\ \A i \in 1..Len(ip) : ip[i] \in IpEntries
      BY <1>1 DEF AddrOf
    <3>3. ASSUME NEW i \in 1..Len(ip) PROVE ip[i].ip # e.ip
      <4>1. PICK j \in 1..Len(saved.ip) : j <= n /\ Valid(ip[i]) = saved.ip[j]
        BY <3>1 DEF IpBack
      <4>2. AddrOf[saved.ip[j]] # AddrOf[saved.ip[n + 1]]
        BY <1>2, <4>1 DEF SavedRight, Apart
      <4>3. ip[i].ip = saved.ip[j].ip
        BY <3>2, <4>1 DEF Valid, IpEntries
      <4> QED BY <1>2, <3>2, <4>2, <4>3 DEF e
    <3>4. Len(ip) < conf.ip_maxroutes
      <4>1. conf.ip_maxroutes \in Nat
        BY <1>7, RtdConstants
      <4> QED BY <1>1, <1>2, <2>2, <3>1, <4>1 DEF IpBack, IpEnough
    <3>5. e.ip \in Subnet[e.dev]
      BY <1>2 DEF SavedRight, e
    <3>6. Alike(<<e>> \o ip, t.ip)
      BY <1>7, <1>9, <2>1, <2>2, <3>3, <3>4, <3>5 DEF Fits, IpEnough
    <3> DEFINE v == <<e>> \o ip
    <3>7. Len(v) = Len(ip) + 1 /\ v[1] = e /\ \A i \in 1..Len(ip) : v[i + 1] = ip[i]
      BY <1>1, <1>3
    <3> HIDE DEF v
    <3>8. Valid(e) = e
      BY <1>3, <1>9 DEF Valid, IpEntries
    <3>9. /\ Len(t.ip) = Len(ip) + 1 /\ Valid(t.ip[1]) = e
          /\ \A i \in 1..Len(ip) : Valid(t.ip[i + 1]) = Valid(ip[i])
      <4>1. 1 \in 1..Len(v) /\ \A i \in 1..Len(ip) : i + 1 \in 1..Len(v)
        BY <1>1, <3>7
      <4> QED BY <3>6, <3>7, <3>8, <4>1 DEF Alike, v
    <3>10. ASSUME NEW i \in 1..Len(t.ip)
           PROVE  \E j \in 1..Len(saved.ip) :
                    j <= n + 1 /\ ~saved.ip[j].invalid /\ Valid(t.ip[i]) = saved.ip[j]
      <4>1. CASE i = 1
        BY <1>2, <1>9, <3>9, <4>1 DEF e
      <4>2. CASE i # 1
        <5>1. i - 1 \in 1..Len(ip) /\ (i - 1) + 1 = i
          BY <1>1, <3>9, <4>2
        <5>2. PICK j \in 1..Len(saved.ip) :
                j <= n /\ ~saved.ip[j].invalid /\ Valid(ip[i - 1]) = saved.ip[j]
          BY <3>1, <5>1 DEF IpBack
        <5>3. Valid(t.ip[i]) = Valid(ip[i - 1]) /\ j <= n + 1
          BY <1>2, <3>9, <5>1, <5>2
        <5> QED BY <5>2, <5>3
      <4> QED BY <4>1, <4>2
    <3>11. ASSUME NEW j \in 1..Len(saved.ip), j <= n + 1, ~saved.ip[j].invalid
           PROVE  \E i \in 1..Len(t.ip) : Valid(t.ip[i]) = saved.ip[j]
      <4>1. CASE j = n + 1
        <5>1. 1 \in 1..Len(t.ip)
          BY <1>1, <3>9
        <5> QED BY <3>9, <4>1, <5>1 DEF e
      <4>2. CASE j # n + 1
        <5>1. PICK i \in 1..Len(ip) : Valid(ip[i]) = saved.ip[j]
          BY <1>2, <3>1, <3>11, <4>2 DEF IpBack
        <5>2. i + 1 \in 1..Len(t.ip) /\ Valid(t.ip[i + 1]) = Valid(ip[i])
          BY <1>1, <3>9
        <5> QED BY <5>1, <5>2
      <4> QED BY <4>1, <4>2
    <3>12. Len(t.ip) <= n + 1
      BY <1>1, <1>2, <3>1, <3>9 DEF IpBack
    <3> QED BY <3>10, <3>11, <3>12 DEF IpBack
  <2> QED BY <1>2, <2>1, <2>2
<1> QED BY <1>8, <1>9

\* What the lines say does not depend on the tables.
LEMMA SameFiles ==
  ASSUME UNCHANGED <<conf, saved>>, NEW k,
         k \in 0..Len(saved.ax) + Len(saved.ip), Len(todo') = Len(saved.ax) + Len(saved.ip) - k,
         \A i \in 1..Len(todo') : todo'[i] = LineNo(k + i),
         AxEnough => AxBack(ax', k), IpEnough => IpBack(ip', k - Len(saved.ax))
  PROVE  Loading(k)'
<1>1. saved' = saved /\ conf' = conf
  OBVIOUS
<1>2. \A i \in 1..Len(todo') : todo'[i] = LineNo(k + i)'
  BY <1>1 DEF LineNo
<1>3. (AxEnough => AxBack(ax, k))'
  <2>1. AxEnough' <=> AxEnough
    BY <1>1 DEF AxEnough
  <2>2. AxBack(ax', k) => AxBack(ax, k)'
    BY <1>1 DEF AxBack
  <2> QED BY <2>1, <2>2
<1>4. (IpEnough => IpBack(ip, k - Len(saved.ax)))'
  <2>1. IpEnough' <=> IpEnough
    BY <1>1 DEF IpEnough
  <2>2. IpBack(ip', k - Len(saved.ax)) => IpBack(ip, k - Len(saved.ax))'
    BY <1>1 DEF IpBack
  <2> QED BY <2>1, <2>2
<1> QED BY <1>1, <1>2, <1>3, <1>4 DEF Loading

LEMMA LoadLineBack ==
  ASSUME RtdShape, Back, LoadLine
  PROVE  Back'
<1>1. run = "load" /\ todo # <<>> /\ todo' = Tail(todo) /\ UNCHANGED <<run, conf, saved, now>>
  BY DEF LoadLine
<1>2. PICK k \in Nat : Loading(k)
  BY <1>1 DEF Back
<1>3. /\ Len(saved.ax) \in Nat /\ Len(saved.ip) \in Nat /\ todo \in Seq(Lines)
      /\ Len(ax) \in Nat /\ Len(ip) \in Nat
  BY SeqsOf DEF RtdShape
<1> DEFINE n == Len(saved.ax)
           m == Len(saved.ip)
<1>4. Len(todo) = n + m - k /\ \A i \in 1..Len(todo) : todo[i] = LineNo(k + i)
  BY <1>2 DEF Loading
<1>5. Len(todo) \in Nat \ {0} /\ Head(todo) = todo[1] /\ Len(todo') = Len(todo) - 1
      /\ \A i \in 1..Len(todo') : todo'[i] = todo[i + 1]
  BY <1>1, <1>3
<1> HIDE DEF n, m
<1>6. n \in Nat /\ m \in Nat
  BY <1>3 DEF n, m
<1>7. k + 1 \in 0..n + m /\ k < n + m /\ Len(todo') = n + m - (k + 1)
  BY <1>4, <1>5, <1>6
<1>8. Head(todo) = LineNo(k + 1)
  <2>1. 1 \in 1..Len(todo)
    BY <1>5
  <2> QED BY <1>4, <1>5, <2>1
<1>9. ASSUME NEW i \in 1..Len(todo') PROVE todo'[i] = LineNo((k + 1) + i)
  <2>1. i + 1 \in 1..Len(todo) /\ k + (i + 1) = (k + 1) + i
    BY <1>5, <1>7
  <2> QED BY <1>4, <1>5, <2>1
<1>10. PICK t \in Interpret(LineNo(k + 1)) : SetTables(t)
  BY <1>8 DEF LoadLine
<1>11. ax' = t.ax /\ ip' = t.ip
  BY <1>10 DEF SetTables
<1>12. SavedRight
  BY DEF Back
<1>13. /\ AxEnough => AxBack(ax', k + 1)
       /\ IpEnough => IpBack(ip', (k + 1) - n)
  <2>1. CASE k < n
    <3>1. t.ip = ip /\ (AxEnough => AxBack(t.ax, k + 1))
      BY <1>2, <1>10, <1>12, <2>1, AxLine DEF n
    <3>2. ASSUME IpEnough PROVE IpBack(ip, (k + 1) - n)
      <4>1. IpBack(ip, k - n)
        BY <1>2, <3>2 DEF Loading, n
      <4>2. Len(ip) = 0
        BY <1>3, <1>6, <2>1, <4>1 DEF IpBack
      <4>3. \A j \in 1..Len(saved.ip) : ~(j <= (k + 1) - n)
        BY <1>3, <1>6, <2>1
      <4> QED BY <4>2, <4>3 DEF IpBack
    <3> QED BY <1>11, <3>1, <3>2
  <2>2. CASE ~(k < n)
    <3>1. k >= n
      BY <1>6, <2>2
    <3>2. t.ax = ax /\ (IpEnough => IpBack(t.ip, (k + 1) - n))
      BY <1>2, <1>7, <1>10, <1>12, <3>1, IpLineBack DEF n, m
    <3>3. ASSUME AxEnough PROVE AxBack(ax, k + 1)
      <4>1. AxBack(ax, k)
        BY <1>2, <3>3 DEF Loading
      <4>2. \A j \in 1..Len(saved.ax) : j <= k /\ j <= k + 1
        BY <1>3, <3>1 DEF n
      <4>3. Len(ax) <= k + 1
        BY <1>3, <4>1 DEF AxBack
      <4> QED BY <4>1, <4>2, <4>3 DEF AxBack
    <3> QED BY <1>11, <3>2, <3>3
  <2> QED BY <2>1, <2>2
<1>14. Loading(k + 1)'
  <2> DEFINE l == k + 1
  <2>1. l \in 0..n + m /\ Len(todo') = n + m - l
    BY <1>7
  <2>2. (AxEnough => AxBack(ax', l)) /\ (IpEnough => IpBack(ip', l - n))
    BY <1>13
  <2>3. \A i \in 1..Len(todo') : todo'[i] = LineNo(l + i)
    BY <1>9
  <2> HIDE DEF l
  <2>4. Loading(l)'
    BY <1>1, <2>1, <2>2, <2>3, SameFiles DEF n, m
  <2> QED BY <2>4 DEF l
<1>15. SavedRight'
  BY <1>1, <1>12 DEF SavedRight
<1>16. run' = "load" /\ k + 1 \in Nat
  BY <1>1
<1> QED BY <1>14, <1>15, <1>16 DEF Back

LEMMA StartBack ==
  ASSUME RtdShape, Back, Start
  PROVE  Back'
<1> DEFINE a == [i \in DOMAIN saved.ax |-> Ax25Line(saved.ax[i])]
           b == [i \in DOMAIN saved.ip |-> IpLine(saved.ip[i])]
           n == Len(saved.ax)
           m == Len(saved.ip)
<1>1. /\ run = "down" /\ run' = "load" /\ todo' = a \o b /\ UNCHANGED <<ax, ip, kernel, saved, now>>
  BY DEF Start
<1>2. n \in Nat /\ m \in Nat /\ DOMAIN saved.ax = 1..n /\ DOMAIN saved.ip = 1..m
  BY SeqsOf
<1> HIDE DEF n, m
<1>3. a = [i \in 1..n |-> Ax25Line(saved.ax[i])] /\ b = [i \in 1..m |-> IpLine(saved.ip[i])]
  BY <1>2
<1> DEFINE S == {Ax25Line(saved.ax[i]) : i \in 1..n} \cup {IpLine(saved.ip[i]) : i \in 1..m}
<1>4. a \in [1..n -> S] /\ b \in [1..m -> S]
  BY <1>3
<1>5. a \in Seq(S) /\ b \in Seq(S) /\ Len(a) = n /\ Len(b) = m
  <2> HIDE DEF a, b, S
  <2> QED BY <1>2, <1>4
<1>6. /\ \A i \in 1..n : a[i] = Ax25Line(saved.ax[i])
      /\ \A i \in 1..m : b[i] = IpLine(saved.ip[i])
  BY <1>3
<1> HIDE DEF a, b, S
<1>7. /\ Len(a \o b) = n + m
      /\ \A i \in 1..n + m : (a \o b)[i] = IF i <= n THEN a[i] ELSE b[i - n]
  BY <1>2, <1>5
<1>8. ASSUME NEW i \in 1..Len(todo') PROVE todo'[i] = LineNo(0 + i)
  <2>1. i \in 1..n + m /\ 0 + i = i
    BY <1>1, <1>2, <1>7
  <2>2. CASE i <= n
    <3>1. i \in 1..n
      BY <1>2, <2>1, <2>2
    <3> QED BY <1>1, <1>6, <1>7, <2>1, <2>2, <3>1 DEF LineNo, n
  <2>3. CASE ~(i <= n)
    <3>1. i - n \in 1..m
      BY <1>2, <2>1, <2>3
    <3> QED BY <1>1, <1>6, <1>7, <2>1, <2>3, <3>1 DEF LineNo, n
  <2> QED BY <2>2, <2>3
<1>9. ax = <<>> /\ ip = <<>> /\ SavedRight
  BY <1>1 DEF Back
<1>10. Len(ax) = 0 /\ Len(ip) = 0
  BY <1>9
<1>11. AxBack(ax, 0) /\ IpBack(ip, 0 - n)
  BY <1>2, <1>10 DEF AxBack, IpBack, n, m
<1>12. Len(todo') = n + m - 0 /\ 0 \in 0..n + m
  BY <1>1, <1>2, <1>7
<1>13. Loading(0)'
  BY <1>1, <1>8, <1>11, <1>12 DEF Loading, LineNo, AxBack, IpBack, n, m
<1>14. SavedRight'
  BY <1>1, <1>9 DEF SavedRight
<1> QED BY <1>1, <1>13, <1>14 DEF Back

\* The daemon runs on, or has ended; what it saved is right.
LEMMA NotLoading ==
  ASSUME SavedRight', \/ run' = "up" \/ Ends
  PROVE  Back'
BY DEF Back, Ends

\* The beginning of a cache has nothing twice, either.
LEMMA Beginning ==
  ASSUME NEW S, NEW s \in Seq(S), NEW n \in 0..Len(s)
  PROVE  /\ SubSeq(s, 1, n) \in Seq(S) /\ Len(SubSeq(s, 1, n)) = n
         /\ \A i \in 1..n : SubSeq(s, 1, n)[i] = s[i]
OBVIOUS

LEMMA SavingBack ==
  ASSUME RtdShape, SavedRight, NEW p \in 0..Len(ax), NEW q \in 0..Len(ip),
         \/ saved' = saved
         \/ saved' = [saved EXCEPT !.ax = SubSeq(ax, 1, p)]
         \/ saved' = [ax |-> ax, ip |-> SubSeq(ip, 1, q)]
         \/ saved' = [ax |-> ax, ip |-> ip]
  PROVE  SavedRight'
<1>1. /\ Apart(ax, CallOf) /\ Apart(ip, AddrOf)
      /\ \A i \in 1..Len(ip) : ip[i].ip \in Subnet[ip[i].dev]
  BY DEF RtdShape, Sound, Tables
<1>2. /\ ax \in Seq(AxEntries) /\ ip \in Seq(IpEntries)
      /\ saved = [ax |-> saved.ax, ip |-> saved.ip]
  BY SeqsOf
<1> DEFINE a == SubSeq(ax, 1, p)
           b == SubSeq(ip, 1, q)
<1>3. Len(a) = p /\ \A i \in 1..p : a[i] = ax[i] /\ i \in 1..Len(ax)
  BY <1>2, Beginning
<1>4. Len(b) = q /\ \A i \in 1..q : b[i] = ip[i] /\ i \in 1..Len(ip)
  BY <1>2, Beginning
<1> HIDE DEF a, b
<1>5. Apart(a, CallOf)
  BY <1>1, <1>3 DEF Apart
<1>6. Apart(b, AddrOf) /\ \A i \in 1..Len(b) : b[i].ip \in Subnet[b[i].dev]
  <2>1. Apart(b, AddrOf)
    BY <1>1, <1>4 DEF Apart
  <2>2. ASSUME NEW i \in 1..Len(b) PROVE b[i].ip \in Subnet[b[i].dev]
    <3>1. b[i] = ip[i] /\ i \in 1..Len(ip)
      BY <1>4
    <3> QED BY <1>1, <3>1
  <2> QED BY <2>1, <2>2
<1>7. CASE saved' = saved
  BY <1>7 DEF SavedRight
<1>8. CASE saved' = [saved EXCEPT !.ax = SubSeq(ax, 1, p)]
  <2>1. saved'.ax = a /\ saved'.ip = saved.ip
    BY <1>2, <1>8 DEF a
  <2> QED BY <1>5, <2>1 DEF SavedRight
<1>9. CASE saved' = [ax |-> ax, ip |-> SubSeq(ip, 1, q)]
  <2>1. saved'.ax = ax /\ saved'.ip = b
    BY <1>9 DEF b
  <2> QED BY <1>1, <1>6, <2>1 DEF SavedRight
<1>10. CASE saved' = [ax |-> ax, ip |-> ip]
  <2>1. saved'.ax = ax /\ saved'.ip = ip
    BY <1>10
  <2> QED BY <1>1, <2>1 DEF SavedRight
<1> QED BY <1>7, <1>8, <1>9, <1>10

LEMMA BackStep == RtdShape /\ Back /\ [RtdNext]_rtd_vars => Back'
<1> SUFFICES ASSUME RtdShape, Back, [RtdNext]_rtd_vars PROVE Back'
  OBVIOUS
<1>1. SavedRight /\ Len(ax) \in Nat /\ Len(ip) \in Nat
  BY SeqsOf DEF Back
<1>2. 0 \in 0..Len(ax) /\ 0 \in 0..Len(ip)
  BY <1>1
<1>3. ASSUME saved' = saved, run' = "up" \/ Ends PROVE Back'
  BY <1>1, <1>2, <1>3, SavingBack, NotLoading
<1>4. ASSUME UNCHANGED <<run, conf, ax, ip, saved, todo>> PROVE Back'
  <2>1. ASSUME NEW k \in Nat, Loading(k) PROVE Loading(k)'
    BY <1>4, <2>1, SameFiles DEF Loading
  <2>2. SavedRight'
    BY <1>1, <1>4 DEF SavedRight
  <2> QED BY <1>4, <2>1, <2>2 DEF Back
<1>5. ASSUME saved' = [ax |-> ax, ip |-> ip], run' = "up" \/ Ends PROVE Back'
  BY <1>1, <1>2, <1>5, SavingBack, NotLoading
<1>6. ASSUME NEW axs, NEW ips, RemoveEntries(axs, ips), run = "up" PROVE run' = "up" \/ Ends
  BY <1>6 DEF RemoveEntries
<1>7. ASSUME NEW f \in Frames, Receive(f) PROVE Back'
  BY <1>3, <1>7 DEF Receive
<1>8. ASSUME NEW l \in Adds, Add(l) PROVE Back'
  BY <1>3, <1>8 DEF Add
<1>9. ASSUME NEW c, NEW port, DelAx25(c, port) PROVE Back'
  BY <1>3, <1>6, <1>9 DEF DelAx25
<1>10. ASSUME NEW a \in Ips, DelIp(a) PROVE Back'
  BY <1>3, <1>10 DEF DelIp
<1>11. ASSUME NEW a \in Ips, ForeignRoute(a) PROVE Back'
  BY <1>4, <1>11 DEF ForeignRoute
<1>12. ASSUME NEW age, Expire(age) PROVE Back'
  BY <1>3, <1>6, <1>12 DEF Expire
<1>13. CASE ReloadConf \/ Loaded
  BY <1>3, <1>13 DEF ReloadConf, Loaded
<1>14. CASE Save \/ Shutdown
  BY <1>5, <1>14 DEF Save, Shutdown, SaveCache
<1>15. CASE Crash
  <2>1. Ends
    BY <1>15 DEF Crash
  <2>2. SavedRight'
    <3>1. CASE saved' = saved
      BY <1>1, <1>2, <3>1, SavingBack
    <3>2. CASE \E p \in 0..Len(ax) : saved' = [saved EXCEPT !.ax = SubSeq(ax, 1, p)]
      BY <1>1, <1>2, <3>2, SavingBack
    <3>3. CASE \E q \in 0..Len(ip) : saved' = [ax |-> ax, ip |-> SubSeq(ip, 1, q)]
      BY <1>1, <1>2, <3>3, SavingBack
    <3> QED BY <1>15, <3>1, <3>2, <3>3 DEF Crash
  <2> QED BY <2>1, <2>2, NotLoading
<1>16. CASE Tick \/ UNCHANGED rtd_vars
  BY <1>4, <1>16 DEF Tick, rtd_vars
<1> QED BY <1>7, <1>8, <1>9, <1>10, <1>11, <1>12, <1>13, <1>14, <1>15, <1>16, StartBack, LoadLineBack
        DEF RtdNext

\* With no line left, the caches hold what the files say.
LEMMA BackRestores == RtdShape /\ Back => FilesRestore
<1> SUFFICES ASSUME RtdShape, Back, run = "load", todo = <<>>
             PROVE  /\ AxEnough => ToSet(ax) = ToSet(saved.ax)
                    /\ IpEnough => {[ip[i] EXCEPT !.invalid = FALSE] : i \in DOMAIN ip}
                                     = {e \in ToSet(saved.ip) : ~e.invalid}
  BY DEF FilesRestore, AxEnough, IpEnough
<1> DEFINE n == Len(saved.ax)
           m == Len(saved.ip)
<1>1. PICK k \in Nat : Loading(k)
  BY DEF Back
<1>2. /\ n \in Nat /\ m \in Nat /\ DOMAIN saved.ax = 1..n /\ DOMAIN saved.ip = 1..m
      /\ DOMAIN ax = 1..Len(ax) /\ DOMAIN ip = 1..Len(ip)
  BY SeqsOf
<1>3. Len(todo) = 0 /\ Len(todo) = n + m - k
  BY <1>1 DEF Loading
<1> HIDE DEF n, m
<1>4. k = n + m /\ k - n = m /\ \A j \in 1..n : j <= k
  BY <1>2, <1>3
<1>5. ASSUME AxEnough PROVE ToSet(ax) = ToSet(saved.ax)
  <2>1. AxBack(ax, k)
    BY <1>1, <1>5 DEF Loading
  <2>2. ASSUME NEW i \in DOMAIN ax PROVE ax[i] \in ToSet(saved.ax)
    BY <1>2, <2>1 DEF AxBack, ToSet, n
  <2>3. ASSUME NEW j \in DOMAIN saved.ax PROVE saved.ax[j] \in ToSet(ax)
    BY <1>2, <1>4, <2>1 DEF AxBack, ToSet, n
  <2> QED BY <2>2, <2>3 DEF ToSet
<1>6. ASSUME IpEnough PROVE {Valid(ip[i]) : i \in DOMAIN ip} = {e \in ToSet(saved.ip) : ~e.invalid}
  <2>1. IpBack(ip, m)
    BY <1>1, <1>4, <1>6 DEF Loading, n
  <2>2. ASSUME NEW i \in DOMAIN ip PROVE Valid(ip[i]) \in {e \in ToSet(saved.ip) : ~e.invalid}
    <3>1. PICK j \in 1..m : ~saved.ip[j].invalid /\ Valid(ip[i]) = saved.ip[j]
      BY <1>2, <2>1 DEF IpBack, m
    <3>2. saved.ip[j] \in ToSet(saved.ip)
      BY <1>2 DEF ToSet
    <3> QED BY <3>1, <3>2
  <2>3. ASSUME NEW e \in ToSet(saved.ip), ~e.invalid PROVE \E i \in DOMAIN ip : Valid(ip[i]) = e
    <3>1. PICK j \in 1..m : saved.ip[j] = e
      BY <1>2 DEF ToSet
    <3>2. j <= m
      BY <1>2
    <3> QED BY <1>2, <2>1, <2>3, <3>1, <3>2 DEF IpBack, m
  <2> QED BY <2>2, <2>3
<1> QED BY <1>5, <1>6 DEF Valid

-----------------------------------------------------------------------------
LEMMA ShapeHolds == RtdSpec => []RtdShape
<1>1. RtdInit => RtdShape
  BY RtdInitRight
<1>2. RtdShape /\ [RtdNext]_rtd_vars => RtdShape'
  BY RtdStep DEF Right
<1> QED BY <1>1, <1>2, PTL DEF RtdSpec

\* Whatever is heard, set by hand, deleted, expired, saved, loaded and lost, a
\* host route of a device that is not the daemon's stays, and none of the
\* daemon's comes beside it (ax25rtd.conf(5), listener.c:set_route).
THEOREM ForeignRoutesKept == RtdSpec => ForeignKept
<1>1. RtdShape /\ RtdShape' /\ [RtdNext]_rtd_vars
        => [\A a \in Ips :
              LET f == [ip |-> a, dev |-> Foreign]
              IN  f \in kernel.rt => f \in kernel'.rt /\ OwnRoutes(a)' \subseteq OwnRoutes(a)]_kernel
  BY RtdStep, KeptKeeps DEF Right
<1> QED BY <1>1, ShapeHolds, PTL DEF RtdSpec, ForeignKept

\* If the configurations agree on which ports learn, the kernel reaches every
\* station in the caches as they say: at any moment between two handlers, for
\* any stations, frames and sizes, and after evictions, reloads, crashes and
\* restarts (listener.c:211, cache_ctl.c:154).
THEOREM KernelFollowsCaches ==
  ASSUME SameOptions
  PROVE  RtdSpec => []KernelFollows
<1>1. RtdInit => RtdShape /\ TablesFollow(conf, Tables)
  BY RtdInitRight
<1>2. RtdShape /\ TablesFollow(conf, Tables) /\ [RtdNext]_rtd_vars => RtdShape' /\ TablesFollow(conf, Tables)'
  BY RtdStep DEF Right
<1>3. RtdShape /\ TablesFollow(conf, Tables) => KernelFollows
  BY FollowsFollows
<1> QED BY <1>1, <1>2, <1>3, PTL DEF RtdSpec

\* What load_cache makes of the files, line by line, is what the caches held
\* when they were written, but for what was invalid: whatever the daemon heard
\* before, wherever it died while writing, and in any configuration with room
\* for the files (config.c:684).
THEOREM FilesComeBack == RtdSpec => []FilesRestore
<1>1. RtdInit => Back
  BY DEF RtdInit, Back, SavedRight, Apart
<1>2. RtdShape /\ Back /\ [RtdNext]_rtd_vars => Back'
  BY BackStep
<1>3. RtdShape /\ Back => FilesRestore
  BY BackRestores
<1> QED BY <1>1, <1>2, <1>3, ShapeHolds, PTL DEF RtdSpec
=============================================================================
