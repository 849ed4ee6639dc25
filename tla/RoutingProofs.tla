---------------------------- MODULE RoutingProofs -----------------------------
(***************************************************************************)
(* Proofs about netromd and rip98d: in any network, whatever is lost or    *)
(* comes late, no node has a route that is better, and no router one that  *)
(* is shorter, than the distance allows; a child of netromd announces all  *)
(* that it has read.                                                       *)
(*                                                                         *)
(* The argument: a bound on a route that depends only on the distance      *)
(* (HopQuality, Way) holds of every route in a table and, for the distance *)
(* of the one that sends, of every route that a child has read and not     *)
(* sent yet and of every datagram under way; what is received is one hop   *)
(* on its way.                                                             *)
(***************************************************************************)
EXTENDS Netromd, Rip98d, TLAPS, FiniteSetTheorems, SequenceTheorems, WellFoundedInduction

-----------------------------------------------------------------------------
(* Recursion and induction on the naturals *)

\* Every nonempty set of naturals has a least element.
LEMMA LeastNat ==
  ASSUME NEW T \in SUBSET Nat, T # {}
  PROVE  \E n \in T : \A m \in T : n <= m
<1>1. PICK n \in T : \A m \in T : ~(<<m, n>> \in OpToRel(<, Nat))
  BY NatLessThanWellFounded, WFMin
<1>2. \A m \in T : m < n => <<m, n>> \in OpToRel(<, Nat)
  BY DEF OpToRel
<1>3. \A m \in T : ~(m < n)
  BY <1>1, <1>2, Zenon
<1> QED BY <1>3

\* A set that has 0 and with each number the next one has them all.
LEMMA AllNat ==
  ASSUME NEW T \in SUBSET Nat, 0 \in T, \A n \in T : n + 1 \in T
  PROVE  T = Nat
<1> DEFINE Bad == Nat \ T
<1>1. ASSUME Bad # {} PROVE FALSE
  <2>1. PICK n \in Bad : \A m \in Bad : n <= m
    BY <1>1, LeastNat
  <2>2. n - 1 \in Nat /\ n - 1 \notin Bad
    BY <2>1
  <2> QED BY <2>1, <2>2
<1> QED BY <1>1

\* f is the beginning, up to n, of what step makes of x again and again.
Begins(f, n, S, x, step) ==
  /\ f \in [0..n -> S] /\ f[0] = x
  /\ \A i \in 0..n : i # n => f[i + 1] = step[<<i, f[i]>>]

LEMMA BeginsSame ==
  ASSUME NEW S, NEW x, NEW step, NEW m \in Nat, NEW n \in Nat, m <= n,
         NEW f, Begins(f, m, S, x, step), NEW g, Begins(g, n, S, x, step)
  PROVE  f[m] = g[m]
<1> DEFINE T == {i \in Nat : i <= m => f[i] = g[i]}
<1>1. 0 \in T
  BY DEF Begins
<1>2. ASSUME NEW i \in T PROVE i + 1 \in T
  <2> SUFFICES ASSUME i + 1 <= m PROVE f[i + 1] = g[i + 1]
    BY <1>2
  <2>1. i \in 0..m /\ i \in 0..n /\ i # m /\ i # n /\ f[i] = g[i]
    BY <1>2
  <2> QED BY <2>1 DEF Begins
<1>3. T = Nat
  <2> HIDE DEF T
  <2>1. T \in SUBSET Nat
    BY DEF T
  <2> QED BY <1>1, <1>2, <2>1, AllNat
<1> QED BY <1>3

LEMMA BeginsExists ==
  ASSUME NEW S, NEW x \in S, NEW step \in [Nat \X S -> S], NEW n \in Nat
  PROVE  \E f : Begins(f, n, S, x, step)
<1> DEFINE T == {k \in Nat : \E f : Begins(f, k, S, x, step)}
<1>1. 0 \in T
  <2>1. Begins([i \in 0..0 |-> x], 0, S, x, step)
    BY DEF Begins
  <2> QED BY <2>1
<1>2. ASSUME NEW k \in T PROVE k + 1 \in T
  <2>1. PICK f : Begins(f, k, S, x, step)
    BY <1>2
  <2> DEFINE g == [i \in 0..k + 1 |-> IF i = k + 1 THEN step[<<k, f[k]>>] ELSE f[i]]
  <2>2. f[k] \in S /\ step[<<k, f[k]>>] \in S
    BY <2>1 DEF Begins
  <2>3. g \in [0..k + 1 -> S] /\ g[0] = x
    BY <2>1, <2>2 DEF Begins
  <2>4. ASSUME NEW i \in 0..k + 1, i # k + 1 PROVE g[i + 1] = step[<<i, g[i]>>]
    <3>1. g[i] = f[i] /\ i \in 0..k
      BY <2>4
    <3>2. CASE i = k
      BY <3>1, <3>2
    <3>3. CASE i # k
      <4>1. g[i + 1] = f[i + 1]
        BY <3>1, <3>3
      <4> QED BY <2>1, <3>1, <3>3, <4>1 DEF Begins
    <3> QED BY <3>2, <3>3
  <2>5. Begins(g, k + 1, S, x, step)
    BY <2>3, <2>4 DEF Begins
  <2> QED BY <2>5
<1>3. T = Nat
  <2> HIDE DEF T
  <2>1. T \in SUBSET Nat
    BY DEF T
  <2> QED BY <1>1, <1>2, <2>1, AllNat
<1> QED BY <1>3

\* f is all of it.
Iterates(f, S, x, step) ==
  f \in [Nat -> S] /\ f[0] = x /\ \A i \in Nat : f[i + 1] = step[<<i, f[i]>>]

LEMMA Recursion ==
  ASSUME NEW S, NEW x \in S, NEW step \in [Nat \X S -> S]
  PROVE  \E f : Iterates(f, S, x, step)
<1> DEFINE c(n) == CHOOSE f : Begins(f, n, S, x, step)
           F == [n \in Nat |-> c(n)[n]]
<1>1. ASSUME NEW n \in Nat PROVE Begins(c(n), n, S, x, step)
  BY BeginsExists
<1> HIDE DEF c
<1>2. F \in [Nat -> S]
  <2>1. ASSUME NEW n \in Nat PROVE c(n)[n] \in S
    BY <1>1 DEF Begins
  <2> QED BY <2>1
<1>3. F[0] = x
  BY <1>1 DEF Begins
<1>4. ASSUME NEW i \in Nat PROVE F[i + 1] = step[<<i, F[i]>>]
  <2>1. i + 1 \in Nat /\ i <= i + 1 /\ i \in 0..i + 1 /\ i # i + 1
    OBVIOUS
  <2>2. c(i)[i] = c(i + 1)[i]
    BY <1>1, <2>1, BeginsSame
  <2>3. c(i + 1)[i + 1] = step[<<i, c(i + 1)[i]>>]
    BY <1>1, <2>1 DEF Begins
  <2> QED BY <2>1, <2>2, <2>3
<1> HIDE DEF F
<1> QED BY <1>2, <1>3, <1>4 DEF Iterates

-----------------------------------------------------------------------------
(* The quality that is left after some hops *)

\* A hop never makes a route better, and keeps the order of two.
LEMMA QualityFacts ==
  ASSUME NEW a \in 0..255, NEW q \in Nat
  PROVE  /\ Quality(a, q) \in Nat /\ Quality(a, q) <= q
         /\ \A p \in Nat : p <= q => Quality(a, p) <= Quality(a, q)
<1>0. \A u, v, w \in Nat : u * v \in Nat /\ u * (v + w) = u * v + u * w /\ u * v = v * u
  OBVIOUS
<1>1. q * a \in Nat /\ q * a <= q * 255
  <2>1. 255 - a \in Nat /\ a \in Nat /\ a + (255 - a) = 255
    OBVIOUS
  <2>2. q * 255 = q * a + q * (255 - a) /\ q * (255 - a) \in Nat /\ q * a \in Nat
    BY <1>0, <2>1
  <2> QED BY <2>2
<1>2. (q * a + 128) \div 256 \in Nat /\ (q * a + 128) \div 256 <= q
  <2> DEFINE y == q * a
  <2>1. y \in Nat /\ y <= 255 * q
    BY <1>1
  <2> HIDE DEF y
  <2>2. (y + 128) \div 256 \in Nat /\ (y + 128) \div 256 <= q
    BY <2>1
  <2> QED BY <2>2 DEF y
<1>3. ASSUME NEW p \in Nat, p <= q PROVE (p * a + 128) \div 256 <= (q * a + 128) \div 256
  <2> DEFINE y == q * a
             z == p * a
  <2>1. y \in Nat /\ z \in Nat /\ z <= y
    <3>1. q - p \in Nat /\ a \in Nat /\ p + (q - p) = q
      BY <1>3
    <3>2. a * q = a * p + a * (q - p) /\ a * (q - p) \in Nat /\ a * p \in Nat /\ a * q = q * a /\ a * p = p * a
      BY <1>0, <3>1
    <3> QED BY <3>2
  <2> HIDE DEF y, z
  <2>2. (z + 128) \div 256 <= (y + 128) \div 256
    BY <2>1
  <2> QED BY <2>2 DEF y, z
<1> QED BY <1>2, <1>3 DEF Quality

\* HopQuality is the function that its definition describes.
LEMMA HopQualityIs ==
  /\ \A k \in Nat : HopQuality[k] \in Nat
  /\ HopQuality[0] = default_qual /\ HopQuality[1] = default_qual
  /\ \A k \in Nat \ {0} : HopQuality[k + 1] = Quality(default_qual, HopQuality[k])
<1> DEFINE Q(q) == (default_qual * q + 128) \div 256
           step == [p \in Nat \X Nat |-> IF p[1] = 0 THEN default_qual ELSE Q(p[2])]
           Is(f) == f = [k \in Nat |-> IF k <= 1 THEN default_qual ELSE Q(f[k - 1])]
<1>1. default_qual \in 0..255 /\ default_qual \in Nat
  <2>1. default_qual \in 0..255
    BY RoutingConstants, Zenon
  <2> QED BY <2>1
<1>2. ASSUME NEW q \in Nat PROVE Q(q) \in Nat /\ Q(q) = Quality(default_qual, q)
  <2>1. q * default_qual = default_qual * q
    BY <1>1
  <2>2. Q(q) = Quality(default_qual, q)
    BY <2>1 DEF Quality
  <2> QED BY <1>1, <2>2, QualityFacts
<1> HIDE DEF Q
<1>3. step \in [Nat \X Nat -> Nat]
  BY <1>1, <1>2
<1>4. \A i \in Nat, q \in Nat : step[<<i, q>>] = IF i = 0 THEN default_qual ELSE Q(q)
  OBVIOUS
<1> HIDE DEF step
<1>5. PICK f : Iterates(f, Nat, default_qual, step)
  BY <1>1, <1>3, Recursion
<1>6. Is(f)
  <2>1. ASSUME NEW k \in Nat PROVE f[k] = IF k <= 1 THEN default_qual ELSE Q(f[k - 1])
    <3>1. CASE k = 0
      BY <1>5, <3>1 DEF Iterates
    <3>2. CASE k # 0
      <4>1. k - 1 \in Nat /\ (k - 1) + 1 = k /\ (k - 1 = 0 <=> k <= 1)
        BY <3>2
      <4>2. f[k] = step[<<k - 1, f[k - 1]>>]
        BY <1>5, <4>1 DEF Iterates
      <4> QED BY <1>4, <1>5, <4>1, <4>2 DEF Iterates
    <3> QED BY <3>1, <3>2
  <2> QED BY <1>5, <2>1 DEF Iterates
<1>7. Is(HopQuality)
  <2>1. HopQuality = CHOOSE g : Is(g)
    BY DEF HopQuality, Q
  <2> HIDE DEF Is
  <2> QED BY <1>6, <2>1
<1>8. \A k \in Nat : HopQuality[k] = IF k <= 1 THEN default_qual ELSE Q(HopQuality[k - 1])
  BY <1>7
<1>9. \A k \in Nat : HopQuality[k] \in Nat
  <2> DEFINE T == {k \in Nat : HopQuality[k] \in Nat}
  <2>1. 0 \in T
    BY <1>1, <1>8
  <2>2. ASSUME NEW k \in T PROVE k + 1 \in T
    <3>1. k + 1 \in Nat /\ (k + 1) - 1 = k
      OBVIOUS
    <3> QED BY <1>1, <1>2, <1>8, <3>1
  <2>3. T = Nat
    <3> HIDE DEF T
    <3>1. T \in SUBSET Nat
      BY DEF T
    <3> QED BY <2>1, <2>2, <3>1, AllNat
  <2> QED BY <2>3
<1>10. ASSUME NEW k \in Nat \ {0} PROVE HopQuality[k + 1] = Quality(default_qual, HopQuality[k])
  <2>1. k + 1 \in Nat /\ (k + 1) - 1 = k /\ ~(k + 1 <= 1)
    OBVIOUS
  <2> QED BY <1>2, <1>8, <1>9, <2>1
<1> QED BY <1>8, <1>9, <1>10

\* The further away, the worse.
LEMMA Further ==
  ASSUME NEW j \in Nat, NEW k \in Nat, j <= k
  PROVE  HopQuality[k] <= HopQuality[j]
<1> DEFINE T == {n \in Nat : HopQuality[j + n] <= HopQuality[j]}
<1>1. 0 \in T
  BY HopQualityIs
<1>2. ASSUME NEW n \in T PROVE n + 1 \in T
  <2>1. HopQuality[(j + n) + 1] <= HopQuality[j + n]
    <3>1. CASE j + n = 0
      BY <3>1, HopQualityIs
    <3>2. CASE j + n # 0
      <4>1. HopQuality[(j + n) + 1] = Quality(default_qual, HopQuality[j + n]) /\ HopQuality[j + n] \in Nat
        BY <3>2, HopQualityIs
      <4>2. default_qual \in 0..255
        BY RoutingConstants, Zenon
      <4> QED BY <4>1, <4>2, QualityFacts
    <3> QED BY <3>1, <3>2
  <2>2. HopQuality[j + n] <= HopQuality[j] /\ j + n \in Nat /\ (j + n) + 1 \in Nat /\ j + (n + 1) = (j + n) + 1
    BY <1>2
  <2> QED BY <2>1, <2>2, HopQualityIs
<1>3. T = Nat
  <2> HIDE DEF T
  <2>1. T \in SUBSET Nat
    BY DEF T
  <2> QED BY <1>1, <1>2, <2>1, AllNat
<1>4. k - j \in Nat /\ j + (k - j) = k
  OBVIOUS
<1> QED BY <1>3, <1>4

-----------------------------------------------------------------------------
(* Tables, announcements and children that keep to the bound *)

Honest(n, d, quality) == n # d /\ quality <= HopQuality[Hops[n][d]]

IsTable(n, t) ==
  /\ t \in [Tracked -> SUBSET RouteType]
  /\ \A d \in Tracked : /\ IsFiniteSet(t[d]) /\ Cardinality(t[d]) <= 3
                        /\ \A r \in t[d] : Honest(n, d, r.quality)

Entry == [call : Tracked, best : Nodes, quality : 0..255]
Sound(n) == {e \in Entry : Honest(n, e.call, e.quality)}

ChildType(n) == [pc : {"mine", "read", "others", "decobs"}, rest : Seq(Sound(n))]
IsChild(n, c) == c \in ChildType(n) /\ (c.pc = "decobs" => c.rest = <<>>)

TablesHonest == routes \in [Nodes -> [Tracked -> SUBSET RouteType]] /\ \A n \in Nodes : IsTable(n, routes[n])
ChildrenHonest ==
  /\ child = [n \in Nodes |-> child[n]]
  /\ \A n \in Nodes : child[n] \in Seq(ChildType(n)) /\ \A i \in 1..Len(child[n]) : IsChild(n, child[n][i])

Inv == up \in SUBSET Nodes /\ TablesHonest /\ ChildrenHonest

LEMMA Constants ==
  /\ Tracked \in SUBSET Nodes /\ Dests \in Seq(Nodes) /\ \A i \in 1..Len(Dests) : Dests[i] \in Tracked
  /\ default_qual \in 0..255 /\ worst_qual \in 0..255 /\ obs_init \in Nat \ {0} /\ PerPacket \in Nat \ {0}
  /\ \A n \in Nodes : Neighbours[n] \in SUBSET Nodes /\ n \notin Neighbours[n]
  /\ \A n, d \in Nodes : Hops[n][d] \in Nat /\ (Hops[n][d] = 0 <=> n = d)
  /\ \A n, d \in Nodes : \A m \in Neighbours[n] : Hops[m][d] <= Hops[n][d] + 1
<1>1. Dests \in Seq(Nodes)
  BY RoutingConstants, Zenon
<1>2. Tracked \in SUBSET Nodes /\ \A i \in 1..Len(Dests) : Dests[i] \in Tracked
  BY <1>1 DEF Tracked, Range
<1>3. default_qual \in 0..255 /\ worst_qual \in 0..255 /\ obs_init \in Nat \ {0} /\ PerPacket \in Nat \ {0}
  BY RoutingConstants, Zenon
<1>4. Neighbours \in [Nodes -> SUBSET Nodes] /\ Hops \in [Nodes -> [Nodes -> Nat]]
  BY RoutingConstants, Zenon
<1>5. /\ \A n \in Nodes : n \notin Neighbours[n]
      /\ \A n, d \in Nodes : Hops[n][d] = 0 <=> n = d
      /\ \A n, d \in Nodes : \A m \in Neighbours[n] : Hops[m][d] <= Hops[n][d] + 1
  BY RoutingConstants, Zenon
<1> QED BY <1>1, <1>2, <1>3, <1>4, <1>5

\* The best and the worst of some routes are two of them.
LEMMA BestAndWorst ==
  ASSUME NEW rs \in SUBSET RouteType, rs # {}
  PROVE  Best(rs) \in rs /\ Worst(rs) \in rs
<1>1. \A r \in rs : r.quality \in 0..255
  BY DEF RouteType
<1>2. Worst(rs) \in rs
  <2> DEFINE T == {r.quality : r \in rs}
  <2>1. T \in SUBSET Nat /\ T # {}
    BY <1>1
  <2>2. PICK n \in T : \A m \in T : n <= m
    <3> HIDE DEF T
    <3> QED BY <2>1, LeastNat
  <2>3. PICK r \in rs : r.quality = n
    BY <2>2
  <2>4. \A o \in rs : o.quality >= r.quality
    BY <1>1, <2>2, <2>3
  <2> QED BY <2>4 DEF Worst
<1>3. Best(rs) \in rs
  <2> DEFINE T == {255 - r.quality : r \in rs}
  <2>1. T \in SUBSET Nat /\ T # {}
    BY <1>1
  <2>2. PICK n \in T : \A m \in T : n <= m
    <3> HIDE DEF T
    <3> QED BY <2>1, LeastNat
  <2>3. PICK r \in rs : 255 - r.quality = n
    BY <2>2
  <2>4. ASSUME NEW o \in rs PROVE o.quality <= r.quality
    <3>1. 255 - o.quality \in T /\ r.quality \in 0..255 /\ o.quality \in 0..255
      BY <1>1
    <3>2. 255 - r.quality <= 255 - o.quality
      BY <2>2, <2>3, <3>1
    <3>3. \A a, b \in 0..255 : 255 - a <= 255 - b => b <= a
      OBVIOUS
    <3> QED BY <3>1, <3>2, <3>3
  <2> QED BY <2>4 DEF Best
<1> QED BY <1>2, <1>3

\* One more element.
LEMMA AddOne ==
  ASSUME NEW S, NEW x, IsFiniteSet(S)
  PROVE  /\ IsFiniteSet(S \cup {x}) /\ Cardinality(S) \in Nat
         /\ Cardinality(S \cup {x}) \in Nat /\ Cardinality(S \cup {x}) <= Cardinality(S) + 1
<1>1. IsFiniteSet(S \cup {x}) /\ Cardinality(S) \in Nat /\ Cardinality(S \cup {x}) \in Nat
  BY FS_AddElement, FS_CardinalityType, Zenon
<1>2. Cardinality(S \cup {x}) = IF x \in S THEN Cardinality(S) ELSE Cardinality(S) + 1
  BY FS_AddElement, Zenon
<1> QED BY <1>1, <1>2

\* An honest route keeps a table honest, and three routes at most.
LEMMA AddRouteKeeps ==
  ASSUME NEW n \in Nodes, NEW t, IsTable(n, t), NEW d \in Nodes, NEW r \in RouteType, Honest(n, d, r.quality)
  PROVE  IsTable(n, AddRoute(t, d, r))
<1> DEFINE rs == t[d]
           others == {o \in rs : o.neigh # r.neigh}
           new == IF others # rs THEN IF r.quality = 0 THEN rs ELSE others \cup {r}
                  ELSE IF Cardinality(rs) < 3 THEN rs \cup {r}
                  ELSE IF r.quality > Worst(rs).quality THEN (rs \ {Worst(rs)}) \cup {r}
                  ELSE rs
<1>1. CASE d \notin Tracked
  BY <1>1 DEF AddRoute
<1>2. CASE d \in Tracked
  <2>1. AddRoute(t, d, r) = [t EXCEPT ![d] = new]
    BY <1>2 DEF AddRoute
  <2>2. rs \in SUBSET RouteType /\ IsFiniteSet(rs) /\ Cardinality(rs) \in Nat /\ Cardinality(rs) <= 3
        /\ \A o \in rs : Honest(n, d, o.quality)
    BY <1>2, FS_CardinalityType DEF IsTable
  <2> HIDE DEF rs
  <2>3. /\ new \in SUBSET (rs \cup {r}) /\ IsFiniteSet(new) /\ Cardinality(new) <= 3
    <3>1. CASE new = rs
      BY <2>2, <3>1
    <3>2. CASE others # rs /\ new = others \cup {r}
      <4>1. others \in SUBSET rs
        OBVIOUS
      <4> HIDE DEF others, new
      <4>2. IsFiniteSet(others) /\ Cardinality(others) <= Cardinality(rs) /\ Cardinality(others) # Cardinality(rs)
            /\ Cardinality(others) \in Nat
        BY <2>2, <3>2, <4>1, FS_Subset, FS_CardinalityType
      <4>3. IsFiniteSet(new) /\ Cardinality(new) \in Nat /\ Cardinality(new) <= Cardinality(others) + 1
        BY <3>2, <4>2, AddOne, Zenon
      <4>4. Cardinality(new) <= 3
        BY <2>2, <4>2, <4>3
      <4>5. new \in SUBSET (rs \cup {r})
        BY <3>2, <4>1
      <4> QED BY <4>3, <4>4, <4>5
    <3>3. CASE Cardinality(rs) < 3 /\ new = rs \cup {r}
      <4> HIDE DEF new
      <4>1. IsFiniteSet(new) /\ Cardinality(new) \in Nat /\ Cardinality(new) <= Cardinality(rs) + 1
        BY <2>2, <3>3, AddOne, Zenon
      <4>2. Cardinality(new) <= 3
        BY <2>2, <3>3, <4>1
      <4>3. new \in SUBSET (rs \cup {r})
        BY <3>3
      <4> QED BY <4>1, <4>2, <4>3
    <3>4. CASE ~(Cardinality(rs) < 3) /\ new = (rs \ {Worst(rs)}) \cup {r}
      <4>1. rs # {}
        BY <2>2, <3>4, FS_EmptySet
      <4>2. Worst(rs) \in rs
        BY <2>2, <4>1, BestAndWorst
      <4>3. IsFiniteSet(rs \ {Worst(rs)}) /\ Cardinality(rs \ {Worst(rs)}) = Cardinality(rs) - 1
        BY <2>2, <4>2, FS_RemoveElement
      <4>4. IsFiniteSet((rs \ {Worst(rs)}) \cup {r})
            /\ Cardinality((rs \ {Worst(rs)}) \cup {r}) <= Cardinality(rs \ {Worst(rs)}) + 1
        BY <4>3, AddOne, Zenon
      <4> HIDE DEF new
      <4> QED BY <2>2, <3>4, <4>3, <4>4
    <3> QED BY <3>1, <3>2, <3>3, <3>4
  <2> HIDE DEF new
  <2>4. new \in SUBSET RouteType /\ \A o \in new : Honest(n, d, o.quality)
    BY <2>2, <2>3
  <2> QED BY <1>2, <2>1, <2>3, <2>4 DEF IsTable
<1> QED BY <1>1, <1>2

-----------------------------------------------------------------------------
(* What a node makes of an announcement *)

Tables(n) == {t \in [Tracked -> SUBSET RouteType] : IsTable(n, t)}
Result(n) == [t : Tables(n), ret : {-1, 0, 1}]

\* An honest announcement of a neighbour leaves the table honest.
LEMMA AddNodeKeeps ==
  ASSUME NEW n \in Nodes, NEW m \in Neighbours[n], NEW t \in Tables(m), NEW e \in Sound(n)
  PROVE  add_node(m, t, n, e) \in Result(m)
<1> DEFINE q == Quality(default_qual, e.quality)
<1>1. m \in Nodes /\ m # n /\ e.call \in Tracked /\ e.call \in Nodes /\ e.quality \in 0..255
      /\ n # e.call /\ e.quality <= HopQuality[Hops[n][e.call]]
  BY Constants DEF Sound, Entry, Honest
<1>2. default_qual \in 0..255
  BY Constants
<1>3. q \in 0..255 /\ \A p \in Nat : e.quality <= p => q <= Quality(default_qual, p)
  <2>1. e.quality \in Nat /\ \A p \in Nat : e.quality \in Nat
    BY <1>1
  <2>2. q \in Nat /\ q <= e.quality
    BY <1>2, <2>1, QualityFacts
  <2>3. \A p \in Nat : e.quality <= p => q <= Quality(default_qual, p)
    BY <1>2, <2>1, QualityFacts
  <2> HIDE DEF q
  <2> QED BY <1>1, <2>2, <2>3
<1> HIDE DEF q
<1>4. ASSUME e.call # m PROVE Honest(m, e.call, q)
  <2> DEFINE k == Hops[n][e.call]
             j == Hops[m][e.call]
  <2>1. k \in Nat \ {0} /\ j \in Nat /\ j <= k + 1
    BY <1>1, Constants
  <2> HIDE DEF j, k
  <2>2. HopQuality[k] \in Nat /\ HopQuality[k + 1] = Quality(default_qual, HopQuality[k])
    BY <2>1, HopQualityIs
  <2>3. q <= HopQuality[k + 1]
    BY <1>1, <1>3, <2>2 DEF k
  <2>4. HopQuality[k + 1] <= HopQuality[j]
    BY <2>1, Further
  <2>5. HopQuality[j] \in Nat /\ HopQuality[k + 1] \in Nat
    BY <2>1, HopQualityIs
  <2>6. q <= HopQuality[j]
    BY <1>3, <2>3, <2>4, <2>5
  <2> QED BY <1>4, <2>6 DEF Honest, j
<1>5. Route(n, q) \in RouteType /\ Route(n, q).quality = q
  <2>1. obs_init \in 1..obs_init
    BY Constants
  <2> QED BY <1>3, <2>1 DEF Route, RouteType
<1>6. IsTable(m, t)
  BY DEF Tables
<1>7. ASSUME e.call # m PROVE AddRoute(t, e.call, Route(n, q)) \in Tables(m)
  <2>1. IsTable(m, AddRoute(t, e.call, Route(n, q)))
    BY <1>1, <1>4, <1>5, <1>6, <1>7, AddRouteKeeps
  <2> QED BY <2>1 DEF Tables, IsTable
<1> QED BY <1>7 DEF add_node, Result, q

\* The sender is one hop away, or no hop.
LEMMA SenderKeeps ==
  ASSUME NEW n \in Nodes, NEW m \in Neighbours[n], NEW t \in Tables(m)
  PROVE  AddRoute(t, n, Route(n, default_qual)) \in Tables(m)
<1>1. m \in Nodes /\ m # n /\ Hops[m][n] \in Nat /\ Hops[n][n] = 0 /\ Hops[m][n] <= Hops[n][n] + 1
  BY Constants
<1>2. HopQuality[Hops[m][n]] = default_qual /\ default_qual \in 0..255
  <2>1. Hops[m][n] = 0 \/ Hops[m][n] = 1
    BY <1>1
  <2> QED BY <2>1, HopQualityIs, Constants
<1>3. Honest(m, n, default_qual)
  BY <1>1, <1>2 DEF Honest
<1>4. Route(n, default_qual) \in RouteType /\ Route(n, default_qual).quality = default_qual
  <2>1. obs_init \in 1..obs_init
    BY Constants
  <2> QED BY <1>2, <2>1 DEF Route, RouteType
<1>5. IsTable(m, t)
  BY DEF Tables
<1>6. IsTable(m, AddRoute(t, n, Route(n, default_qual)))
  BY <1>1, <1>3, <1>4, <1>5, AddRouteKeeps
<1> QED BY <1>6 DEF Tables, IsTable

LEMMA ReceiveKeeps ==
  ASSUME NEW n \in Nodes, NEW m \in Neighbours[n], NEW t \in Tables(m), NEW entries \in Seq(Sound(n))
  PROVE  receive_nodes(m, t, n, entries) \in Tables(m)
<1> DEFINE S == Result(m)
           k == Len(entries)
           first == IF validmnemonic(m, n) THEN AddRoute(t, n, Route(n, default_qual)) ELSE t
           x == [t |-> first, ret |-> 0]
           go(i, s) == IF s.ret = -1 THEN s ELSE add_node(m, s.t, n, entries[i])
           Is(f) == f = [i \in 0..k |-> IF i = 0 THEN x ELSE IF f[i - 1].ret = -1 THEN f[i - 1]
                                        ELSE add_node(m, f[i - 1].t, n, entries[i])]
           after == CHOOSE f : Is(f)
           step == [p \in Nat \X S |-> IF p[1] < k THEN go(p[1] + 1, p[2]) ELSE p[2]]
<1>1. k \in Nat /\ \A i \in 1..k : entries[i] \in Sound(n)
  OBVIOUS
<1>2. x \in S
  BY SenderKeeps DEF Result
<1>3. \A i \in 1..k, s \in S : go(i, s) \in S
  <2>1. ASSUME NEW i \in 1..k, NEW s \in S PROVE go(i, s) \in S
    <3>1. s.t \in Tables(m)
      BY DEF Result
    <3>2. add_node(m, s.t, n, entries[i]) \in Result(m)
      BY <1>1, <3>1, AddNodeKeeps
    <3> QED BY <3>2
  <2> QED BY <2>1
<1>4. receive_nodes(m, t, n, entries) = after[k].t
  BY DEF receive_nodes
<1> HIDE DEF S, k, x
<1>6. \A f : Is(f) <=> f = [i \in 0..k |-> IF i = 0 THEN x ELSE go(i, f[i - 1])]
  OBVIOUS
<1> HIDE DEF Is, go
<1>7. step \in [Nat \X S -> S]
  <2>1. ASSUME NEW i \in Nat, NEW s \in S PROVE (IF i < k THEN go(i + 1, s) ELSE s) \in S
    BY <1>1, <1>3
  <2> QED BY <2>1
<1>8. \A i \in Nat, s \in S : i < k => step[<<i, s>>] = go(i + 1, s)
  OBVIOUS
<1> HIDE DEF step
<1>9. PICK f : Begins(f, k, S, x, step)
  BY <1>1, <1>2, <1>7, BeginsExists
<1>10. Is(f)
  <2>1. ASSUME NEW i \in 0..k PROVE f[i] = IF i = 0 THEN x ELSE go(i, f[i - 1])
    <3>1. CASE i = 0
      BY <1>9, <3>1 DEF Begins
    <3>2. CASE i # 0
      <4>1. i - 1 \in Nat /\ i - 1 \in 0..k /\ i - 1 # k /\ i - 1 < k /\ (i - 1) + 1 = i
        BY <1>1, <3>2
      <4>2. f[i - 1] \in S /\ f[(i - 1) + 1] = step[<<i - 1, f[i - 1]>>]
        BY <1>9, <4>1 DEF Begins
      <4> QED BY <1>8, <3>2, <4>1, <4>2
    <3> QED BY <3>1, <3>2
  <2> QED BY <1>6, <1>9, <2>1 DEF Begins
<1>11. Is(after)
  BY <1>10
<1> HIDE DEF after
<1>12. \A i \in 0..k : after[i] = IF i = 0 THEN x ELSE go(i, after[i - 1])
  BY <1>6, <1>11
<1> DEFINE T == {i \in Nat : i <= k => after[i] \in S}
<1>13. 0 \in T
  BY <1>1, <1>2, <1>12
<1>14. ASSUME NEW i \in T PROVE i + 1 \in T
  <2> SUFFICES ASSUME i + 1 <= k PROVE after[i + 1] \in S
    BY <1>14
  <2>1. i + 1 \in 1..k /\ i + 1 \in 0..k /\ (i + 1) - 1 = i /\ after[i] \in S
    BY <1>1, <1>14
  <2> QED BY <1>3, <1>12, <2>1
<1>15. T = Nat
  <2> HIDE DEF T
  <2>1. T \in SUBSET Nat
    BY DEF T
  <2> QED BY <1>13, <1>14, <2>1, AllNat
<1>16. after[k] \in S
  BY <1>1, <1>15
<1> QED BY <1>4, <1>16 DEF S, Result

-----------------------------------------------------------------------------
(* What a node announces, and what its table becomes with time *)

LEMMA AnnouncedIsSound ==
  ASSUME NEW n \in Nodes, NEW t \in Tables(n)
  PROVE  Announced(t) \in Seq(Sound(n))
<1> DEFINE S == Seq(Sound(n))
           k == Len(Dests)
           good(d) == t[d] # {} /\ Best(t[d]).obs >= minimum_obs /\ Best(t[d]).quality # 0
           entry(d) == [call |-> d, best |-> Best(t[d]).neigh, quality |-> Best(t[d]).quality]
           go(i, s) == IF good(Dests[i]) THEN Append(s, entry(Dests[i])) ELSE s
           Is(f) == f = [i \in 0..k |-> IF i = 0 THEN <<>>
                                        ELSE IF good(Dests[i]) THEN Append(f[i - 1], entry(Dests[i])) ELSE f[i - 1]]
           all == CHOOSE f : Is(f)
           step == [p \in Nat \X S |-> IF p[1] < k THEN go(p[1] + 1, p[2]) ELSE p[2]]
<1>1. k \in Nat /\ \A i \in 1..k : Dests[i] \in Tracked
  BY Constants
<1>2. ASSUME NEW d \in Tracked, good(d) PROVE entry(d) \in Sound(n)
  <2>1. t[d] \in SUBSET RouteType /\ \A r \in t[d] : Honest(n, d, r.quality)
    BY DEF Tables, IsTable
  <2>2. Best(t[d]) \in t[d]
    BY <1>2, <2>1, BestAndWorst
  <2>3. Best(t[d]).neigh \in Nodes /\ Best(t[d]).quality \in 0..255 /\ Honest(n, d, Best(t[d]).quality)
    BY <2>1, <2>2 DEF RouteType
  <2> QED BY <2>3 DEF Sound, Entry
<1>3. <<>> \in S
  OBVIOUS
<1>4. \A i \in 1..k, s \in S : go(i, s) \in S
  <2> HIDE DEF good, entry
  <2> QED BY <1>1, <1>2
<1>5. Announced(t) = all[k]
  BY DEF Announced
<1> HIDE DEF S, k
<1>6. \A f : Is(f) <=> f = [i \in 0..k |-> IF i = 0 THEN <<>> ELSE go(i, f[i - 1])]
  OBVIOUS
<1> HIDE DEF Is, go
<1>7. step \in [Nat \X S -> S]
  <2>1. ASSUME NEW i \in Nat, NEW s \in S PROVE (IF i < k THEN go(i + 1, s) ELSE s) \in S
    BY <1>1, <1>4
  <2> QED BY <2>1
<1>8. \A i \in Nat, s \in S : i < k => step[<<i, s>>] = go(i + 1, s)
  OBVIOUS
<1> HIDE DEF step
<1>9. PICK f : Begins(f, k, S, <<>>, step)
  BY <1>1, <1>3, <1>7, BeginsExists
<1>10. Is(f)
  <2>1. ASSUME NEW i \in 0..k PROVE f[i] = IF i = 0 THEN <<>> ELSE go(i, f[i - 1])
    <3>1. CASE i = 0
      BY <1>9, <3>1 DEF Begins
    <3>2. CASE i # 0
      <4>1. i - 1 \in Nat /\ i - 1 \in 0..k /\ i - 1 # k /\ i - 1 < k /\ (i - 1) + 1 = i
        BY <1>1, <3>2
      <4>2. f[i - 1] \in S /\ f[(i - 1) + 1] = step[<<i - 1, f[i - 1]>>]
        BY <1>9, <4>1 DEF Begins
      <4> QED BY <1>8, <3>2, <4>1, <4>2
    <3> QED BY <3>1, <3>2
  <2> QED BY <1>6, <1>9, <2>1 DEF Begins
<1>11. Is(all)
  BY <1>10
<1> HIDE DEF all
<1>12. \A i \in 0..k : all[i] = IF i = 0 THEN <<>> ELSE go(i, all[i - 1])
  BY <1>6, <1>11
<1> DEFINE T == {i \in Nat : i <= k => all[i] \in S}
<1>13. 0 \in T
  BY <1>1, <1>3, <1>12
<1>14. ASSUME NEW i \in T PROVE i + 1 \in T
  <2> SUFFICES ASSUME i + 1 <= k PROVE all[i + 1] \in S
    BY <1>14
  <2>1. i + 1 \in 1..k /\ i + 1 \in 0..k /\ (i + 1) - 1 = i /\ all[i] \in S
    BY <1>1, <1>14
  <2> QED BY <1>4, <1>12, <2>1
<1>15. T = Nat
  <2> HIDE DEF T
  <2>1. T \in SUBSET Nat
    BY DEF T
  <2> QED BY <1>13, <1>14, <2>1, AllNat
<1> QED BY <1>1, <1>5, <1>15 DEF S

\* Getting older keeps the quality and the number of routes.
LEMMA DecObsKeeps ==
  ASSUME NEW n \in Nodes, NEW t \in Tables(n)
  PROVE  DecObs(t) \in Tables(n)
<1> DEFINE older(r) == [r EXCEPT !.obs = @ - 1]
           live(d) == {o \in t[d] : o.obs > 1}
           rs(d) == {older(r) : r \in live(d)}
<1>1. DecObs(t) = [d \in Tracked |-> rs(d)]
  BY DEF DecObs
<1>2. ASSUME NEW d \in Tracked
      PROVE  /\ rs(d) \in SUBSET RouteType /\ IsFiniteSet(rs(d)) /\ Cardinality(rs(d)) <= 3
             /\ \A r \in rs(d) : Honest(n, d, r.quality)
  <2>1. t[d] \in SUBSET RouteType /\ IsFiniteSet(t[d]) /\ Cardinality(t[d]) \in Nat /\ Cardinality(t[d]) <= 3
        /\ \A r \in t[d] : Honest(n, d, r.quality)
    BY FS_CardinalityType DEF Tables, IsTable
  <2>2. ASSUME NEW r \in live(d) PROVE older(r) \in RouteType /\ older(r).quality = r.quality
    <3>1. r \in RouteType /\ r.obs \in 1..obs_init /\ r.obs > 1 /\ obs_init \in Nat
      BY <2>1, Constants DEF RouteType
    <3>2. r.obs - 1 \in 1..obs_init
      BY <3>1
    <3> QED BY <3>1, <3>2 DEF RouteType
  <2>3. live(d) \in SUBSET t[d]
    OBVIOUS
  <2> DEFINE f == [r \in live(d) |-> older(r)]
  <2>4. f \in Surjection(live(d), rs(d))
    BY DEF Surjection
  <2>5. \A r \in rs(d) : r \in RouteType /\ Honest(n, d, r.quality)
    BY <2>1, <2>2, <2>3
  <2> HIDE DEF f, live, rs
  <2>6. IsFiniteSet(live(d)) /\ Cardinality(live(d)) <= Cardinality(t[d]) /\ Cardinality(live(d)) \in Nat
    BY <2>1, <2>3, FS_Subset, FS_CardinalityType
  <2>7. IsFiniteSet(rs(d)) /\ Cardinality(rs(d)) <= Cardinality(live(d)) /\ Cardinality(rs(d)) \in Nat
    BY <2>4, <2>6, FS_Surjection, FS_CardinalityType
  <2>8. Cardinality(rs(d)) <= 3
    BY <2>1, <2>6, <2>7
  <2> QED BY <2>5, <2>7, <2>8
<1> HIDE DEF rs
<1> QED BY <1>1, <1>2 DEF Tables, IsTable

-----------------------------------------------------------------------------
(* The steps *)

LEMMA BroadcastKeeps ==
  ASSUME TablesHonest, NEW n \in Nodes, NEW entries \in Seq(Sound(n)), Broadcast(n, entries)
  PROVE  TablesHonest'
<1>1. PICK to \in SUBSET (Neighbours[n] \cap up) :
        routes' = [m \in Nodes |-> IF m \in to THEN receive_nodes(m, routes[m], n, entries) ELSE routes[m]]
  BY DEF Broadcast
<1>2. ASSUME NEW m \in Nodes PROVE routes'[m] \in Tables(m)
  <2>1. routes[m] \in Tables(m)
    BY DEF TablesHonest, Tables
  <2>2. CASE m \in to
    <3>1. m \in Neighbours[n]
      BY <2>2
    <3>2. receive_nodes(m, routes[m], n, entries) \in Tables(m)
      BY <2>1, <3>1, ReceiveKeeps
    <3> QED BY <1>1, <2>2, <3>2
  <2>3. CASE m \notin to
    BY <1>1, <2>1, <2>3
  <2> QED BY <2>2, <2>3
<1>3. ASSUME NEW m \in Nodes PROVE routes'[m] \in [Tracked -> SUBSET RouteType] /\ IsTable(m, routes'[m])
  BY <1>2 DEF Tables
<1>4. routes' = [m \in Nodes |-> routes'[m]]
  BY <1>1
<1>5. routes' \in [Nodes -> [Tracked -> SUBSET RouteType]]
  BY <1>3, <1>4
<1> QED BY <1>3, <1>5 DEF TablesHonest

LEMMA BecomesKeeps ==
  ASSUME ChildrenHonest, NEW n \in Nodes, NEW i \in DOMAIN child[n], NEW c, IsChild(n, c), Becomes(n, i, c)
  PROVE  ChildrenHonest'
<1>1. c \in ChildType(n)
  BY DEF IsChild
<1>2. child' = [child EXCEPT ![n] = [child[n] EXCEPT ![i] = c]]
  BY DEF Becomes
<1>3. child[n] \in Seq(ChildType(n)) /\ i \in 1..Len(child[n])
  BY DEF ChildrenHonest
<1> DEFINE s == child[n]
           r == [s EXCEPT ![i] = c]
<1> HIDE DEF s
<1>4. r \in Seq(ChildType(n)) /\ Len(r) = Len(s) /\ \A j \in 1..Len(r) : r[j] = IF j = i THEN c ELSE s[j]
  BY <1>1, <1>3 DEF s
<1>5. child' = [m \in Nodes |-> IF m = n THEN r ELSE child[m]]
  BY <1>2 DEF ChildrenHonest, s
<1> HIDE DEF r
<1>6. ASSUME NEW m \in Nodes
      PROVE  child'[m] \in Seq(ChildType(m)) /\ \A j \in 1..Len(child'[m]) : IsChild(m, child'[m][j])
  <2>1. CASE m = n
    <3>1. child'[m] = r
      BY <1>5, <2>1
    <3>2. \A j \in 1..Len(s) : IsChild(n, s[j])
      BY DEF ChildrenHonest, s
    <3>3. \A j \in 1..Len(r) : IsChild(n, r[j])
      BY <1>4, <3>2
    <3> QED BY <1>4, <2>1, <3>1, <3>3
  <2>2. CASE m # n
    BY <1>5, <2>2 DEF ChildrenHonest
  <2> QED BY <2>1, <2>2
<1> QED BY <1>5, <1>6 DEF ChildrenHonest

\* Any sequence of children in the place of those of n.
LEMMA OthersKeep ==
  ASSUME ChildrenHonest, NEW n \in Nodes, NEW s \in Seq(ChildType(n)),
         \A j \in 1..Len(s) : IsChild(n, s[j]), child' = [child EXCEPT ![n] = s]
  PROVE  ChildrenHonest'
<1>1. child' = [m \in Nodes |-> IF m = n THEN s ELSE child[m]]
  BY DEF ChildrenHonest
<1>2. ASSUME NEW m \in Nodes
      PROVE  child'[m] \in Seq(ChildType(m)) /\ \A j \in 1..Len(child'[m]) : IsChild(m, child'[m][j])
  <2>1. CASE m = n
    BY <1>1, <2>1
  <2>2. CASE m # n
    BY <1>1, <2>2 DEF ChildrenHonest
  <2> QED BY <2>1, <2>2
<1> QED BY <1>1, <1>2 DEF ChildrenHonest

LEMMA TransmitKeeps ==
  ASSUME Inv, NEW n \in Nodes, transmit_nodes(n)
  PROVE  Inv'
<1> DEFINE c == [pc |-> "mine", rest |-> <<>>]
           s == Append(child[n], c)
<1>1. up' = up /\ routes' = routes /\ child' = [child EXCEPT ![n] = s]
  BY DEF transmit_nodes
<1>2. IsChild(n, c) /\ c \in ChildType(n)
  <2>1. <<>> \in Seq(Sound(n))
    OBVIOUS
  <2> QED BY <2>1 DEF IsChild, ChildType
<1>3. child[n] \in Seq(ChildType(n)) /\ \A j \in 1..Len(child[n]) : IsChild(n, child[n][j])
  BY DEF Inv, ChildrenHonest
<1> HIDE DEF c
<1>4. s \in Seq(ChildType(n)) /\ \A j \in 1..Len(s) : IsChild(n, s[j])
  BY <1>2, <1>3
<1> HIDE DEF s
<1>5. ChildrenHonest'
  BY <1>1, <1>4, OthersKeep DEF Inv
<1>6. TablesHonest'
  BY <1>1 DEF Inv, TablesHonest
<1> QED BY <1>1, <1>5, <1>6 DEF Inv

LEMMA MineKeeps ==
  ASSUME Inv, NEW n \in Nodes, NEW i \in DOMAIN child[n], build_mine(n, i)
  PROVE  Inv'
<1> DEFINE c == [pc |-> "read", rest |-> <<>>]
<1>1. Becomes(n, i, c) /\ Broadcast(n, <<>>) /\ up' = up
  BY DEF build_mine
<1>2. <<>> \in Seq(Sound(n))
  OBVIOUS
<1>3. IsChild(n, c)
  BY <1>2 DEF IsChild, ChildType
<1> HIDE DEF c
<1>4. ChildrenHonest'
  BY <1>1, <1>3, BecomesKeeps DEF Inv
<1>5. TablesHonest'
  BY <1>1, <1>2, BroadcastKeeps DEF Inv
<1> QED BY <1>1, <1>4, <1>5 DEF Inv

\* A packet is the beginning of what is to be announced, and what it leaves is
\* nothing unless it is full.
Packet(all) == SubSeq(all, 1, Min({Len(all), PerPacket}))
Remains(all) == SubSeq(all, Len(Packet(all)) + 1, Len(all))

LEMMA Packets ==
  ASSUME NEW S, NEW all \in Seq(S)
  PROVE  Packet(all) \in Seq(S) /\ Remains(all) \in Seq(S) /\ (~More(Packet(all)) => Remains(all) = <<>>)
<1> DEFINE k == Min({Len(all), PerPacket})
           packet == Packet(all)
           rest == Remains(all)
<1>1. PerPacket \in Nat \ {0} /\ Len(all) \in Nat
  BY Constants
<1>2. k \in Nat /\ k <= Len(all) /\ k <= PerPacket /\ (k = Len(all) \/ k = PerPacket)
  <2>1. CASE Len(all) <= PerPacket
    <3>1. Len(all) \in {Len(all), PerPacket} /\ \A y \in {Len(all), PerPacket} : Len(all) =< y
      BY <1>1, <2>1
    <3>2. k \in {Len(all), PerPacket} /\ \A y \in {Len(all), PerPacket} : k =< y
      BY <3>1 DEF Min
    <3> HIDE DEF k
    <3> QED BY <1>1, <3>2
  <2>2. CASE ~(Len(all) <= PerPacket)
    <3>1. PerPacket \in {Len(all), PerPacket} /\ \A y \in {Len(all), PerPacket} : PerPacket =< y
      BY <1>1, <2>2
    <3>2. k \in {Len(all), PerPacket} /\ \A y \in {Len(all), PerPacket} : k =< y
      BY <3>1 DEF Min
    <3> HIDE DEF k
    <3> QED BY <1>1, <3>2
  <2> QED BY <2>1, <2>2
<1>3. packet = SubSeq(all, 1, k) /\ rest = SubSeq(all, Len(packet) + 1, Len(all))
  BY DEF Packet, Remains
<1> HIDE DEF k, packet, rest
<1>4. packet \in Seq(S) /\ Len(packet) = k
  <2>1. \A j \in 1..k : all[j] \in S
    BY <1>1, <1>2
  <2>2. 1 \in Int /\ k \in Int
    BY <1>2
  <2>3. SubSeq(all, 1, k) \in Seq(S) /\ Len(SubSeq(all, 1, k)) = IF 1 <= k THEN k - 1 + 1 ELSE 0
    BY <2>1, <2>2, SubSeqProperties
  <2>4. (IF 1 <= k THEN k - 1 + 1 ELSE 0) = k
    BY <1>2
  <2> QED BY <1>3, <2>3, <2>4, Zenon
<1>5. rest \in Seq(S)
  <2>1. \A j \in Len(packet) + 1..Len(all) : all[j] \in S
    BY <1>1, <1>2, <1>4
  <2>2. Len(packet) + 1 \in Int /\ Len(all) \in Int
    BY <1>1, <1>2, <1>4
  <2>3. SubSeq(all, Len(packet) + 1, Len(all)) \in Seq(S)
    BY <2>1, <2>2, SubSeqProperties
  <2> QED BY <1>3, <2>3, Zenon
<1>6. ASSUME ~More(packet) PROVE rest = <<>>
  <2>1. k = Len(all)
    BY <1>2, <1>4, <1>6 DEF More
  <2>2. Len(all) < Len(packet) + 1 /\ Len(packet) + 1 \in Int /\ Len(all) \in Int
    BY <1>1, <1>4, <2>1
  <2>3. SubSeq(all, Len(packet) + 1, Len(all)) = <<>>
    BY <2>2, SubSeqEmpty
  <2> QED BY <1>3, <2>3, Zenon
<1> QED BY <1>4, <1>5, <1>6 DEF packet, rest

LEMMA OthersKeeps ==
  ASSUME Inv, NEW n \in Nodes, NEW i \in DOMAIN child[n], build_others(n, i)
  PROVE  Inv'
<1> DEFINE all == IF child[n][i].pc = "read" THEN Announced(routes[n]) ELSE child[n][i].rest
           packet == Packet(all)
           rest == Remains(all)
           c == IF More(packet) THEN [pc |-> "others", rest |-> rest] ELSE [pc |-> "decobs", rest |-> rest]
<1>1. Becomes(n, i, c) /\ up' = up /\ IF packet # <<>> THEN Broadcast(n, packet) ELSE UNCHANGED routes
  BY DEF build_others, Packet, Remains
<1>2. all \in Seq(Sound(n))
  <2>1. routes[n] \in Tables(n)
    BY DEF Inv, TablesHonest, Tables
  <2>2. i \in 1..Len(child[n]) /\ child[n][i] \in ChildType(n)
    BY DEF Inv, ChildrenHonest
  <2> QED BY <2>1, <2>2, AnnouncedIsSound DEF ChildType
<1> HIDE DEF all
<1>3. packet \in Seq(Sound(n)) /\ rest \in Seq(Sound(n)) /\ (~More(packet) => rest = <<>>)
  BY <1>2, Packets
<1> HIDE DEF packet, rest
<1>4. IsChild(n, c)
  BY <1>3 DEF IsChild, ChildType
<1> HIDE DEF c
<1>5. ChildrenHonest'
  BY <1>1, <1>4, BecomesKeeps DEF Inv
<1>6. TablesHonest'
  <2>1. CASE packet # <<>>
    BY <1>1, <1>3, <2>1, BroadcastKeeps DEF Inv
  <2>2. CASE packet = <<>>
    BY <1>1, <2>2 DEF Inv, TablesHonest
  <2> QED BY <2>1, <2>2
<1> QED BY <1>1, <1>5, <1>6 DEF Inv

LEMMA DecrementKeeps ==
  ASSUME Inv, NEW n \in Nodes, NEW i \in DOMAIN child[n], Decrement(n, i)
  PROVE  Inv'
<1> DEFINE s == child[n]
           a == SubSeq(s, 1, i - 1)
           b == SubSeq(s, i + 1, Len(s))
<1>1. up' = up /\ child' = [child EXCEPT ![n] = a \o b] /\ routes' = [routes EXCEPT ![n] = DecObs(routes[n])]
  BY DEF Decrement, RemoveAt
<1>2. s \in Seq(ChildType(n)) /\ Len(s) \in Nat /\ i \in 1..Len(s) /\ \A j \in 1..Len(s) : s[j] \in ChildType(n) /\ IsChild(n, s[j])
  BY DEF Inv, ChildrenHonest
<1> DEFINE Good == {c \in ChildType(n) : IsChild(n, c)}
<1> HIDE DEF s
<1>3. \A j \in 1..Len(s) : s[j] \in Good
  BY <1>2
<1>4. a \in Seq(Good)
  <2>1. 1 \in Int /\ i - 1 \in Int /\ \A j \in 1..i - 1 : s[j] \in Good
    BY <1>2, <1>3
  <2> HIDE DEF Good
  <2> QED BY <2>1, SubSeqProperties
<1>5. b \in Seq(Good)
  <2>1. i + 1 \in Int /\ Len(s) \in Int /\ \A j \in i + 1..Len(s) : s[j] \in Good
    BY <1>2, <1>3
  <2> HIDE DEF Good
  <2> QED BY <2>1, SubSeqProperties
<1> HIDE DEF a, b
<1>6. a \o b \in Seq(Good)
  <2> HIDE DEF Good
  <2> QED BY <1>4, <1>5, ConcatProperties
<1> DEFINE r == a \o b
<1> HIDE DEF r
<1>7. r \in Seq(ChildType(n)) /\ \A j \in 1..Len(r) : IsChild(n, r[j])
  BY <1>6 DEF r
<1>8. ChildrenHonest'
  <2>1. child' = [child EXCEPT ![n] = r]
    BY <1>1 DEF r
  <2> QED BY <1>7, <2>1, OthersKeep DEF Inv
<1>9. TablesHonest'
  <2>1. routes[n] \in Tables(n)
    BY DEF Inv, TablesHonest, Tables
  <2>2. DecObs(routes[n]) \in Tables(n)
    BY <2>1, DecObsKeeps
  <2> QED BY <1>1, <2>2 DEF Inv, TablesHonest, Tables
<1> QED BY <1>1, <1>8, <1>9 DEF Inv

\* A table without routes.
LEMMA NoRoutes ==
  ASSUME NEW n \in Nodes
  PROVE  [d \in Tracked |-> {}] \in Tables(n)
<1>1. IsFiniteSet({}) /\ Cardinality({}) = 0
  BY FS_EmptySet
<1>2. Cardinality({}) <= 3
  BY <1>1
<1>3. \A d \in Tracked : [c \in Tracked |-> {}][d] = {}
  OBVIOUS
<1>4. [d \in Tracked |-> {}] \in [Tracked -> SUBSET RouteType]
  OBVIOUS
<1> QED BY <1>1, <1>2, <1>3, <1>4 DEF Tables, IsTable

LEMMA LeaveKeeps ==
  ASSUME Inv, NEW n \in Nodes, Leave(n)
  PROVE  Inv'
<1>1. up' = up \ {n} /\ child' = [child EXCEPT ![n] = <<>>]
      /\ routes' = [routes EXCEPT ![n] = [d \in Tracked |-> {}]]
  BY DEF Leave
<1>2. <<>> \in Seq(ChildType(n)) /\ \A j \in 1..Len(<<>>) : IsChild(n, (<<>>)[j])
  OBVIOUS
<1>3. ChildrenHonest'
  BY <1>1, <1>2, OthersKeep DEF Inv
<1>4. TablesHonest'
  BY <1>1, NoRoutes DEF Inv, TablesHonest, Tables
<1> QED BY <1>1, <1>3, <1>4 DEF Inv

LEMMA InitInv == Init => Inv
<1> SUFFICES ASSUME Init PROVE Inv
  OBVIOUS
<1>1. TablesHonest
  BY NoRoutes DEF Init, TablesHonest, Tables
<1>2. ChildrenHonest
  BY DEF Init, ChildrenHonest
<1> QED BY <1>1, <1>2 DEF Init, Inv

LEMMA NextInv == Inv /\ [Next]_vars => Inv'
<1> SUFFICES ASSUME Inv, [Next]_vars PROVE Inv'
  OBVIOUS
<1>1. ASSUME NEW n \in Nodes, transmit_nodes(n) PROVE Inv'
  BY <1>1, TransmitKeeps
<1>2. ASSUME NEW n \in Nodes, NEW i \in DOMAIN child[n], build_mine(n, i) PROVE Inv'
  BY <1>2, MineKeeps
<1>3. ASSUME NEW n \in Nodes, NEW i \in DOMAIN child[n], build_others(n, i) PROVE Inv'
  BY <1>3, OthersKeeps
<1>4. ASSUME NEW n \in Nodes, NEW i \in DOMAIN child[n], Decrement(n, i) PROVE Inv'
  BY <1>4, DecrementKeeps
<1>5. ASSUME NEW n \in Nodes, Leave(n) PROVE Inv'
  BY <1>5, LeaveKeeps
<1>6. CASE UNCHANGED vars
  BY <1>6 DEF vars, Inv, TablesHonest, ChildrenHonest
<1> QED BY <1>1, <1>2, <1>3, <1>4, <1>5, <1>6 DEF Next, Child

LEMMA InvIsEnough == Inv => NodesHonest
<1> SUFFICES ASSUME Inv PROVE NodesHonest
  OBVIOUS
<1>1. TypeOK
  <2>1. \A n \in Nodes, d \in Tracked : routes[n][d] \subseteq RouteType /\ Cardinality(routes[n][d]) <= 3
    BY DEF Inv, TablesHonest, IsTable
  <2>2. \A n \in Nodes : \A i \in DOMAIN child[n] : child[n][i].pc \in {"mine", "read", "others", "decobs"}
    <3>1. ASSUME NEW n \in Nodes, NEW i \in DOMAIN child[n] PROVE child[n][i] \in ChildType(n)
      BY DEF Inv, ChildrenHonest
    <3> QED BY <3>1 DEF ChildType
  <2> QED BY <2>1, <2>2 DEF Inv, TypeOK
<1>2. HonestQuality
  BY DEF Inv, TablesHonest, IsTable, Honest, HonestQuality
<1>3. AllAnnounced
  BY DEF Inv, ChildrenHonest, IsChild, AllAnnounced
<1> QED BY <1>1, <1>2, <1>3 DEF NodesHonest

\* In any network, with any qualities and whatever is lost, late or gone: no
\* node has a route that is better than the distance allows (netromr.c:104),
\* and a child that is through has announced all it had read (netromt.c:198).
THEOREM HonestNodes == Spec => []NodesHonest
<1> QED BY InitInv, NextInv, InvIsEnough, PTL DEF Spec

-----------------------------------------------------------------------------
(* Sequences put together from parts *)

\* A recursive definition on 0..k describes a function.
Describes(f, S, x, k, step) ==
  /\ f \in [0..k -> S] /\ f[0] = x
  /\ \A i \in 0..k : i # 0 => f[i] = step[<<i, f[i - 1]>>]

LEMMA Defines ==
  ASSUME NEW S, NEW x \in S, NEW k \in Nat, NEW step \in [Nat \X S -> S]
  PROVE  \E f : Describes(f, S, x, k, step)
<1> DEFINE go == [p \in Nat \X S |-> step[<<p[1] + 1, p[2]>>]]
<1>1. go \in [Nat \X S -> S] /\ \A i \in Nat, s \in S : go[<<i, s>>] = step[<<i + 1, s>>]
  OBVIOUS
<1> HIDE DEF go
<1>2. PICK f : Begins(f, k, S, x, go)
  BY <1>1, BeginsExists
<1>3. ASSUME NEW i \in 0..k, i # 0 PROVE f[i] = step[<<i, f[i - 1]>>]
  <2>1. i - 1 \in Nat /\ i - 1 \in 0..k /\ i - 1 # k /\ (i - 1) + 1 = i
    BY <1>3
  <2>2. f[i - 1] \in S /\ f[(i - 1) + 1] = go[<<i - 1, f[i - 1]>>]
    BY <1>2, <2>1 DEF Begins
  <2> QED BY <1>1, <2>1, <2>2
<1> QED BY <1>2, <1>3 DEF Begins, Describes

\* What each step keeps is so to the end.
LEMMA Stays ==
  ASSUME NEW S, NEW j \in Nat, NEW k \in Nat, NEW f, f[j] \in S,
         \A i \in j..k : i # j /\ f[i - 1] \in S => f[i] \in S
  PROVE  \A i \in j..k : f[i] \in S
<1> DEFINE T == {i \in Nat : j + i <= k => f[j + i] \in S}
<1>1. 0 \in T
  OBVIOUS
<1>2. ASSUME NEW i \in T PROVE i + 1 \in T
  <2> SUFFICES ASSUME j + (i + 1) <= k PROVE f[j + (i + 1)] \in S
    BY <1>2
  <2>1. f[j + i] \in S /\ j + (i + 1) \in j..k /\ (j + (i + 1)) - 1 = j + i /\ j + (i + 1) # j
    BY <1>2
  <2> QED BY <2>1
<1>3. T = Nat
  <2> HIDE DEF T
  <2>1. T \in SUBSET Nat
    BY DEF T
  <2> QED BY <1>1, <1>2, <2>1, AllNat
<1>4. ASSUME NEW i \in j..k PROVE f[i] \in S
  <2>1. i - j \in Nat /\ j + (i - j) = i /\ j + (i - j) <= k
    OBVIOUS
  <2>2. i - j \in T
    <3> HIDE DEF T
    <3> QED BY <1>3, <2>1
  <2> QED BY <2>1, <2>2
<1> QED BY <1>4

\* Picked picks.
LEMMA PickedType ==
  ASSUME NEW S, NEW s \in Seq(S), NEW I, NEW T, \A i \in DOMAIN s : i \in I => s[i] \in T
  PROVE  Picked(s, I) \in Seq(T)
<1> DEFINE n == Len(s)
           R == Seq(T)
           go(i, t) == IF i \in I THEN Append(t, s[i]) ELSE t
           Is(f) == f = [i \in 0..n |-> IF i = 0 THEN <<>>
                                        ELSE IF i \in I THEN Append(f[i - 1], s[i]) ELSE f[i - 1]]
           all == CHOOSE f : Is(f)
           step == [p \in Nat \X R |-> IF p[1] \in 1..n THEN go(p[1], p[2]) ELSE p[2]]
<1>1. n \in Nat /\ <<>> \in R
  OBVIOUS
<1>2. \A i \in 1..n, t \in R : go(i, t) \in R
  OBVIOUS
<1>3. Picked(s, I) = all[n]
  BY DEF Picked
<1> HIDE DEF n, R
<1>4. \A f : Is(f) <=> f = [i \in 0..n |-> IF i = 0 THEN <<>> ELSE go(i, f[i - 1])]
  OBVIOUS
<1> HIDE DEF Is, go
<1>5. step \in [Nat \X R -> R]
  <2>1. ASSUME NEW i \in Nat, NEW t \in R PROVE (IF i \in 1..n THEN go(i, t) ELSE t) \in R
    BY <1>2
  <2> QED BY <2>1
<1>6. \A i \in 1..n, t \in R : step[<<i, t>>] = go(i, t)
  BY <1>1
<1> HIDE DEF step
<1>7. PICK f : Describes(f, R, <<>>, n, step)
  BY <1>1, <1>5, Defines
<1>8. Is(f)
  <2>1. ASSUME NEW i \in 0..n PROVE f[i] = IF i = 0 THEN <<>> ELSE go(i, f[i - 1])
    <3>1. i # 0 => i \in 1..n /\ i - 1 \in 0..n
      BY <1>1
    <3>2. CASE i = 0
      BY <1>7, <3>2 DEF Describes
    <3>3. CASE i # 0
      <4>1. f[i] = step[<<i, f[i - 1]>>] /\ f[i - 1] \in R
        BY <1>7, <3>1, <3>3 DEF Describes
      <4> QED BY <1>6, <3>1, <3>3, <4>1
    <3> QED BY <3>2, <3>3
  <2>2. f = [i \in 0..n |-> f[i]]
    BY <1>7 DEF Describes
  <2> QED BY <1>4, <2>1, <2>2
<1>9. Is(all)
  BY <1>8
<1> HIDE DEF all
<1>10. \A i \in 0..n : all[i] = IF i = 0 THEN <<>> ELSE go(i, all[i - 1])
  BY <1>4, <1>9
<1>11. all[0] \in R
  BY <1>1, <1>10
<1>12. ASSUME NEW i \in 0..n, i # 0, all[i - 1] \in R PROVE all[i] \in R
  <2>1. i \in 1..n
    BY <1>1, <1>12
  <2> QED BY <1>2, <1>10, <1>12, <2>1
<1>13. all[n] \in R
  <2>1. 0 \in Nat /\ n \in 0..n
    BY <1>1
  <2> QED BY <1>1, <1>11, <1>12, <2>1, Stays
<1> QED BY <1>3, <1>13 DEF R

-----------------------------------------------------------------------------
(* rip98d: how far it is *)

LEMMA RipFacts ==
  /\ \A r \in Routers : /\ Own[r] \in Seq([addr : Seq({0, 1}), metric : Nat])
                        /\ Dest[r] \subseteq Routers /\ RipHops[r][r] = 0
                        /\ \A t \in Routers : RipHops[r][t] \in Nat
                        /\ \A s \in Dest[r], t \in Routers : RipHops[r][t] <= RipHops[s][t] + 1
  /\ RIP98_INFINITY \in Nat /\ MaxEntries \in Nat /\ MaxEntries > 0
BY RipConstants

LEMMA MinNat ==
  ASSUME NEW T \in SUBSET Nat, T # {}
  PROVE  Min(T) \in T /\ \A m \in T : Min(T) <= m
<1>1. PICK n \in T : \A m \in T : n <= m
  BY LeastNat
<1> QED BY <1>1 DEF Min

LEMMA MinOfTwo ==
  ASSUME NEW a \in Nat, NEW b \in Nat
  PROVE  Min({a, b}) \in Nat /\ Min({a, b}) <= a /\ Min({a, b}) <= b /\ Min({a, b}) \in {a, b}
<1> DEFINE T == {a, b}
<1>1. T \in SUBSET Nat /\ T # {} /\ a \in T /\ b \in T
  OBVIOUS
<1>2. T = {a, b}
  OBVIOUS
<1> HIDE DEF T
<1> QED BY <1>1, <1>2, MinNat

\* Distance is the length of a way, and of a shortest one.
LEMMA DistanceIs ==
  ASSUME NEW r \in Routers, NEW a \in Networks
  PROVE  /\ Distance(r, a) \in Nat
         /\ \E s \in Routers : \E x \in Range(Own[s]) : x.addr = a /\ Distance(r, a) = RipHops[r][s] + x.metric
         /\ \A s \in Routers : \A x \in Range(Own[s]) : x.addr = a => Distance(r, a) <= RipHops[r][s] + x.metric
<1> DEFINE To(s) == {RipHops[r][s] + x.metric : x \in {y \in Range(Own[s]) : y.addr = a}}
           T == UNION {To(s) : s \in Routers}
<1>1. ASSUME NEW s \in Routers, NEW x \in Range(Own[s]) PROVE x.metric \in Nat
  <2>1. PICK i \in DOMAIN Own[s] : x = Own[s][i]
    BY DEF Range
  <2>2. Own[s] \in Seq([addr : Seq({0, 1}), metric : Nat])
    BY RipFacts
  <2> DEFINE Net == [addr : Seq({0, 1}), metric : Nat]
  <2>3. x \in Net
    <3> HIDE DEF Net
    <3>1. Own[s] \in Seq(Net)
      BY <2>2 DEF Net
    <3> QED BY <2>1, <3>1
  <2> QED BY <2>3
<1>2. T \in SUBSET Nat
  <2>1. ASSUME NEW s \in Routers, NEW m \in To(s) PROVE m \in Nat
    BY <1>1, RipFacts
  <2> HIDE DEF To
  <2> QED BY <2>1
<1>3. \A m : m \in T <=> \E s \in Routers : \E x \in Range(Own[s]) : x.addr = a /\ m = RipHops[r][s] + x.metric
  OBVIOUS
<1>4. T # {}
  <2>1. PICK s \in Routers : a \in {x.addr : x \in Range(Own[s])}
    BY DEF Networks
  <2>2. PICK x \in Range(Own[s]) : x.addr = a
    BY <2>1
  <2>3. RipHops[r][s] + x.metric \in T
    BY <1>3, <2>2
  <2> QED BY <2>3
<1>5. Distance(r, a) = Min(T)
  BY DEF Distance
<1> HIDE DEF T
<1>6. Distance(r, a) \in T /\ Distance(r, a) \in Nat /\ \A m \in T : Distance(r, a) <= m
  <2>1. Min(T) \in T /\ \A m \in T : Min(T) <= m
    BY <1>2, <1>4, MinNat
  <2> QED BY <1>2, <1>5, <2>1
<1>7. ASSUME NEW s \in Routers, NEW x \in Range(Own[s]), x.addr = a PROVE Distance(r, a) <= RipHops[r][s] + x.metric
  BY <1>3, <1>6, <1>7
<1> QED BY <1>3, <1>6, <1>7

\* The least metric a route of r may have.
Way(r, a) == Min({Distance(r, a), RIP98_INFINITY})

LEMMA WayIs ==
  ASSUME NEW r \in Routers, NEW a \in Networks
  PROVE  /\ Way(r, a) \in Nat /\ Way(r, a) <= Distance(r, a) /\ Way(r, a) <= RIP98_INFINITY
         /\ Way(r, a) \in {Distance(r, a), RIP98_INFINITY}
BY DistanceIs, RipFacts, MinOfTwo DEF Way

\* rip98r.c:142: one more than a neighbour's metric is not too short.
LEMMA OneHop ==
  ASSUME NEW r \in Routers, NEW s \in Dest[r], NEW a \in Networks, NEW m \in Nat, m >= Way(s, a)
  PROVE  NextMetric(m) \in Nat /\ NextMetric(m) >= Way(r, a)
<1>1. s \in Routers /\ RIP98_INFINITY \in Nat /\ m + 1 \in Nat
  BY RipFacts
<1>2. PICK t \in Routers : \E x \in Range(Own[t]) : x.addr = a /\ Distance(s, a) = RipHops[s][t] + x.metric
  BY <1>1, DistanceIs
<1>3. PICK x \in Range(Own[t]) : x.addr = a /\ Distance(s, a) = RipHops[s][t] + x.metric
  BY <1>2
<1>4. Distance(r, a) <= RipHops[r][t] + x.metric
  BY <1>3, DistanceIs
<1>5. /\ RipHops[r][t] <= RipHops[s][t] + 1 /\ RipHops[r][t] \in Nat /\ RipHops[s][t] \in Nat
      /\ Distance(s, a) \in Nat /\ Distance(r, a) \in Nat
  BY <1>1, RipFacts, DistanceIs
<1>6. Distance(r, a) <= Distance(s, a) + 1
  <2>1. x.metric \in Int
    <3>1. PICK i \in DOMAIN Own[t] : x = Own[t][i]
      BY DEF Range
    <3> DEFINE Net == [addr : Seq({0, 1}), metric : Nat]
    <3>2. Own[t] \in Seq(Net)
      BY RipFacts
    <3>3. x \in Net
      <4> HIDE DEF Net
      <4> QED BY <3>1, <3>2
    <3> QED BY <3>3
  <2> QED BY <1>3, <1>4, <1>5, <2>1
<1>7. NextMetric(m) \in Nat /\ NextMetric(m) \in {m + 1, RIP98_INFINITY}
  BY <1>1, MinOfTwo DEF NextMetric
<1>8. /\ Way(r, a) \in Nat /\ Way(r, a) <= Distance(r, a) /\ Way(r, a) <= RIP98_INFINITY
      /\ Way(s, a) \in {Distance(s, a), RIP98_INFINITY}
  BY <1>1, WayIs
<1>9. CASE NextMetric(m) = RIP98_INFINITY
  BY <1>7, <1>8, <1>9
<1>10. CASE NextMetric(m) = m + 1
  <2>1. CASE Way(s, a) = Distance(s, a)
    BY <1>1, <1>5, <1>6, <1>8, <1>10, <2>1
  <2>2. CASE Way(s, a) = RIP98_INFINITY
    BY <1>1, <1>8, <1>10, <2>2
  <2> QED BY <1>8, <2>1, <2>2
<1> QED BY <1>7, <1>9, <1>10

-----------------------------------------------------------------------------
(* rip98d: the list and the tables, with metrics that are not too short *)

NotShort(r, x) == x.metric \in Nat /\ x.metric >= Way(r, x.addr)
Entries(r) == {x \in [addr : Networks, metric : Nat] : NotShort(r, x)}
Items(r)   == {x \in [addr : Networks, metric : Nat, action : {"ORIG", "FIXED", "NEW", "DEL"}] : NotShort(r, x)}
Rows(r)    == {x \in [addr : Networks, metric : Nat, dynamic : BOOLEAN, via : Routers] :
                 NotShort(r, x) /\ (x.dynamic => x.via \in Dest[r])}

LEMMA ReadKeeps ==
  ASSUME NEW r \in Routers, kernel[r] \in Seq(Rows(r))
  PROVE  /\ read_routes(r) \in Seq(Items(r))
         /\ \A i \in DOMAIN read_routes(r) : read_routes(r)[i].action # "NEW"
<1> DEFINE k == kernel[r]
           item(i) == [addr |-> k[i].addr, metric |-> k[i].metric,
                       action |-> IF k[i].dynamic THEN "ORIG" ELSE "FIXED"]
           s == [i \in DOMAIN k |-> item(i)]
           n == Len(k)
<1>1. n \in Nat /\ DOMAIN k = 1..n /\ \A i \in 1..n : k[i] \in Rows(r)
  OBVIOUS
<1>2. read_routes(r) = Reverse(s)
  BY DEF read_routes
<1> HIDE DEF k, n
<1>3. ASSUME NEW i \in 1..n PROVE item(i) \in Items(r) /\ item(i).action # "NEW"
  BY <1>1, <1>3 DEF Rows, Items, NotShort
<1> HIDE DEF item
<1>4. Len(s) = n /\ \A i \in 1..n : s[i] = item(i)
  BY <1>1
<1>5. Reverse(s) = [i \in 1..n |-> s[(n - i) + 1]]
  BY <1>4 DEF Reverse
<1> HIDE DEF s
<1>6. ASSUME NEW i \in 1..n PROVE s[(n - i) + 1] \in Items(r) /\ s[(n - i) + 1].action # "NEW"
  <2>1. (n - i) + 1 \in 1..n
    BY <1>1
  <2> QED BY <1>3, <1>4, <2>1
<1>7. Reverse(s) \in Seq(Items(r))
  BY <1>1, <1>5, <1>6
<1> QED BY <1>1, <1>2, <1>5, <1>6, <1>7

\* An entry of a datagram whose metric is not too short.
LEMMA ConsideredKeeps ==
  ASSUME NEW r \in Routers, NEW list \in Seq(Items(r)), NEW e, e.addr \in Networks,
         NextMetric(e.metric) \in Nat, NextMetric(e.metric) >= Way(r, e.addr)
  PROVE  Considered(list, e) \in Seq(Items(r))
<1> DEFINE metric == NextMetric(e.metric)
           verdict == [i \in DOMAIN list |-> cmp_route(list[i], e.addr, metric)]
           kept == [i \in DOMAIN list |-> IF verdict[i] = "REPLACE" THEN [list[i] EXCEPT !.action = "DEL"]
                                          ELSE list[i]]
           one == [addr |-> e.addr, metric |-> metric, action |-> "NEW"]
           new == <<one>>
<1>1. Considered(list, e) \in {new \o kept, kept}
  BY DEF Considered
<1>2. one \in Items(r)
  BY DEF Items, NotShort
<1> HIDE DEF verdict, one, metric
<1>3. ASSUME NEW i \in DOMAIN list PROVE [list[i] EXCEPT !.action = "DEL"] \in Items(r) /\ list[i] \in Items(r)
  <2>1. list[i] \in Items(r)
    OBVIOUS
  <2> QED BY <2>1 DEF Items, NotShort
<1>4. kept \in Seq(Items(r))
  <2> DEFINE S == Items(r)
             dele(i) == [list[i] EXCEPT !.action = "DEL"]
  <2>1. DOMAIN list = 1..Len(list) /\ Len(list) \in Nat
    OBVIOUS
  <2>2. \A i \in DOMAIN list : dele(i) \in S /\ list[i] \in S
    BY <1>3
  <2>3. kept = [i \in DOMAIN list |-> IF verdict[i] = "REPLACE" THEN dele(i) ELSE list[i]]
    OBVIOUS
  <2> HIDE DEF kept, S, dele
  <2>4. kept \in Seq(S)
    BY <2>1, <2>2, <2>3
  <2> QED BY <2>4 DEF S
<1>5. new \in Seq(Items(r))
  BY <1>2
<1> HIDE DEF kept, new
<1>6. new \o kept \in Seq(Items(r))
  BY <1>4, <1>5
<1> QED BY <1>1, <1>4, <1>6

\* What a whole datagram makes of the list.
LEMMA HeardKeeps ==
  ASSUME NEW r \in Routers, NEW list \in Seq(Items(r)), NEW es, Len(es) \in Nat,
         \A i \in 1..Len(es) : /\ es[i].addr \in Networks /\ NextMetric(es[i].metric) \in Nat
                               /\ NextMetric(es[i].metric) >= Way(r, es[i].addr)
  PROVE  Heard(list, es) \subseteq Seq(Items(r)) /\ (Len(es) = 0 => Heard(list, es) = {list})
<1> DEFINE n == Len(es)
           L == Seq(Items(r))
           S == SUBSET L
           go(i, ls) == {Considered(l, es[i]) : l \in ls}
           Is(f) == f = [i \in 0..n |-> IF i = 0 THEN {list} ELSE {Considered(l, es[i]) : l \in f[i - 1]}]
           all == CHOOSE f : Is(f)
           step == [p \in Nat \X S |-> IF p[1] \in 1..n THEN go(p[1], p[2]) ELSE p[2]]
<1>1. n \in Nat
  OBVIOUS
<1>2. ASSUME NEW i \in 1..n, NEW ls \in S PROVE go(i, ls) \in S
  <2>1. ASSUME NEW l \in ls PROVE Considered(l, es[i]) \in L
    BY ConsideredKeeps
  <2> QED BY <2>1
<1>3. Heard(list, es) = all[n]
  BY DEF Heard
<1>4. {list} \in S
  OBVIOUS
<1> HIDE DEF n, L, S
<1>5. \A f : Is(f) <=> f = [i \in 0..n |-> IF i = 0 THEN {list} ELSE go(i, f[i - 1])]
  OBVIOUS
<1> HIDE DEF Is, go
<1>6. step \in [Nat \X S -> S]
  <2>1. ASSUME NEW i \in Nat, NEW ls \in S PROVE (IF i \in 1..n THEN go(i, ls) ELSE ls) \in S
    BY <1>2
  <2> QED BY <2>1
<1>7. \A i \in 1..n, ls \in S : step[<<i, ls>>] = go(i, ls)
  BY <1>1
<1> HIDE DEF step
<1>8. PICK f : Describes(f, S, {list}, n, step)
  BY <1>1, <1>4, <1>6, Defines
<1>9. Is(f)
  <2>1. ASSUME NEW i \in 0..n PROVE f[i] = IF i = 0 THEN {list} ELSE go(i, f[i - 1])
    <3>1. i # 0 => i \in 1..n /\ i - 1 \in 0..n
      BY <1>1
    <3>2. CASE i = 0
      BY <1>8, <3>2 DEF Describes
    <3>3. CASE i # 0
      <4>1. f[i] = step[<<i, f[i - 1]>>] /\ f[i - 1] \in S
        BY <1>8, <3>1, <3>3 DEF Describes
      <4> QED BY <1>7, <3>1, <3>3, <4>1
    <3> QED BY <3>2, <3>3
  <2>2. f = [i \in 0..n |-> f[i]]
    BY <1>8 DEF Describes
  <2> QED BY <1>5, <2>1, <2>2
<1>10. Is(all)
  BY <1>9
<1> HIDE DEF all
<1>11. \A i \in 0..n : all[i] = IF i = 0 THEN {list} ELSE go(i, all[i - 1])
  BY <1>5, <1>10
<1>12. all[0] = {list} /\ all[0] \in S
  <2>1. 0 \in 0..n
    BY <1>1
  <2>2. all[0] = {list}
    BY <1>11, <2>1
  <2> QED BY <1>4, <2>2
<1>13. ASSUME NEW i \in 0..n, i # 0, all[i - 1] \in S PROVE all[i] \in S
  <2>1. i \in 1..n
    BY <1>1, <1>13
  <2> QED BY <1>2, <1>11, <1>13, <2>1
<1>14. all[n] \in S
  <2>1. 0 \in Nat /\ n \in 0..n
    BY <1>1
  <2> QED BY <1>1, <1>12, <1>13, <2>1, Stays
<1> QED BY <1>3, <1>12, <1>14 DEF S, L, n

\* The table with the routes that the ioctls have taken away and added.
LEMMA TableKeeps ==
  ASSUME NEW r \in Routers, NEW table \in Seq(Rows(r)), NEW gone, NEW list \in Seq(Items(r)), NEW failed,
         NEW from \in Routers, from \in Dest[r] \/ \A i \in DOMAIN list : list[i].action # "NEW"
  PROVE  Added(Picked(table, gone), list, failed, from) \in Seq(Rows(r))
<1> DEFINE row(i) == [addr |-> list[i].addr, metric |-> list[i].metric, dynamic |-> TRUE, via |-> from]
           new == [i \in DOMAIN list |-> row(i)]
           kept == Picked(table, gone)
           I == {i \in DOMAIN list \ failed : list[i].action = "NEW" /\ new[i] \notin Range(kept)}
           AnyRow == [addr : Networks, metric : Nat, dynamic : BOOLEAN, via : Routers]
           n == Len(list)
<1>1. n \in Nat /\ DOMAIN list = 1..n
  OBVIOUS
<1>2. ASSUME NEW i \in DOMAIN list PROVE row(i) \in AnyRow /\ (i \in I => row(i) \in Rows(r))
  <2>1. list[i] \in Items(r)
    OBVIOUS
  <2>2. /\ list[i].addr \in Networks /\ list[i].metric \in Nat
        /\ list[i].metric >= Way(r, list[i].addr)
    BY <2>1 DEF Items, NotShort
  <2>3. row(i) \in AnyRow
    BY <2>2
  <2>4. row(i).addr = list[i].addr /\ row(i).metric = list[i].metric /\ row(i).via = from
    OBVIOUS
  <2>5. i \in I => from \in Dest[r]
    OBVIOUS
  <2> HIDE DEF row, I
  <2>6. i \in I => row(i) \in Rows(r)
    BY <2>2, <2>3, <2>4, <2>5 DEF Rows, NotShort
  <2> QED BY <2>3, <2>6
<1>3. Added(kept, list, failed, from) = kept \o Picked(new, I)
  BY DEF Added
<1> HIDE DEF I, row
<1>4. kept \in Seq(Rows(r))
  <2>1. \A i \in DOMAIN table : i \in gone => table[i] \in Rows(r)
    OBVIOUS
  <2> QED BY <2>1, PickedType
<1> HIDE DEF kept, AnyRow
<1>5. new \in Seq(AnyRow) /\ \A i \in DOMAIN new : i \in I => new[i] \in Rows(r)
  BY <1>1, <1>2
<1> HIDE DEF new
<1>6. Picked(new, I) \in Seq(Rows(r))
  BY <1>5, PickedType
<1>7. kept \o Picked(new, I) \in Seq(Rows(r))
  BY <1>4, <1>6
<1> QED BY <1>3, <1>7 DEF kept

\* What transmit_routes sends.
LEMMA DatagramsKeep ==
  ASSUME NEW r \in Routers, NEW list \in Seq(Items(r))
  PROVE  Datagrams(list) \subseteq Seq(Entries(r))
<1> DEFINE I == {i \in DOMAIN list : list[i].action # "DEL"}
           sent == Picked(list, I)
           entry(i) == [addr |-> sent[i].addr, metric |-> sent[i].metric]
           entries == [i \in DOMAIN sent |-> entry(i)]
           n == Len(entries)
           count == (n + MaxEntries - 1) \div MaxEntries
<1>1. Datagrams(list) = {SubSeq(entries, (k - 1) * MaxEntries + 1, Min({k * MaxEntries, n})) : k \in 1..count}
  BY DEF Datagrams
<1>2. sent \in Seq(Items(r))
  <2>1. \A i \in DOMAIN list : i \in I => list[i] \in Items(r)
    OBVIOUS
  <2> HIDE DEF I
  <2> QED BY <2>1, PickedType
<1> HIDE DEF sent
<1>3. ASSUME NEW i \in DOMAIN sent PROVE entry(i) \in Entries(r)
  <2>1. sent[i] \in Items(r)
    BY <1>2
  <2> QED BY <2>1 DEF Items, Entries, NotShort
<1>4. entries \in Seq(Entries(r))
  BY <1>2, <1>3
<1> HIDE DEF entry, entries
<1>5. n \in Nat
  BY <1>4
<1> HIDE DEF n
<1>6. ASSUME NEW k \in 1..count
      PROVE  SubSeq(entries, (k - 1) * MaxEntries + 1, Min({k * MaxEntries, n})) \in Seq(Entries(r))
  <2>1. MaxEntries \in Nat /\ MaxEntries > 0
    BY RipFacts
  <2>2. k \in Nat /\ k - 1 \in Nat
    BY <2>1, <1>5
  <2>3. (k - 1) * MaxEntries \in Nat /\ k * MaxEntries \in Nat
    BY <2>1, <2>2
  <2> DEFINE a == (k - 1) * MaxEntries + 1
             b == Min({k * MaxEntries, n})
  <2>4. a \in Nat /\ a >= 1
    BY <2>3
  <2>5. b \in Nat /\ b <= n
    BY <1>5, <2>3, MinOfTwo
  <2> HIDE DEF a, b
  <2>6. \A i \in a..b : i \in 1..n
    BY <2>4, <2>5, <1>5
  <2>7. SubSeq(entries, a, b) \in Seq(Entries(r))
    BY <1>4, <2>4, <2>5, <2>6 DEF n
  <2> QED BY <2>7 DEF a, b
<1> QED BY <1>1, <1>6

LEMMA SentKeeps ==
  ASSUME NEW r \in Routers, NEW list \in Seq(Items(r)), NEW d \in Sent(r, list)
  PROVE  d.from \in Routers /\ d.entries \in Seq(Entries(d.from))
<1>1. PICK to \in Dest[r], e \in Datagrams(list) : d = [from |-> r, to |-> to, entries |-> e]
  BY DEF Sent
<1>2. e \in Seq(Entries(r))
  BY DatagramsKeep
<1> QED BY <1>1, <1>2

-----------------------------------------------------------------------------
(* rip98d: the invariant and the steps *)

\* No route, in a table or in a datagram under way, is shorter than the way.
RowsHonest(k) == k = [r \in Routers |-> k[r]] /\ \A r \in Routers : k[r] \in Seq(Rows(r))
NetHonest(all)  == \A d \in all : d.from \in Routers /\ d.entries \in Seq(Entries(d.from))
RipInv == RowsHonest(kernel) /\ NetHonest(net)

LEMMA RipInitInv == RipInit => RipInv
<1> SUFFICES ASSUME RipInit PROVE RipInv
  OBVIOUS
<1> DEFINE row(r, i) == [addr |-> Own[r][i].addr, metric |-> Own[r][i].metric, dynamic |-> FALSE, via |-> r]
<1>1. kernel = [r \in Routers |-> [i \in DOMAIN Own[r] |-> row(r, i)]] /\ net = {}
  BY DEF RipInit
<1>2. ASSUME NEW r \in Routers, NEW i \in DOMAIN Own[r] PROVE row(r, i) \in Rows(r)
  <2> DEFINE Net == [addr : Seq({0, 1}), metric : Nat]
             x == Own[r][i]
  <2>1. x \in Net
    <3>1. Own[r] \in Seq(Net)
      BY RipFacts
    <3> HIDE DEF Net
    <3> QED BY <3>1
  <2>2. x.metric \in Nat /\ x \in Range(Own[r])
    BY <2>1 DEF Range
  <2> HIDE DEF x
  <2>3. x.addr \in Networks
    BY <2>2 DEF Networks
  <2>4. Distance(r, x.addr) <= RipHops[r][r] + x.metric /\ RipHops[r][r] = 0
    BY <2>2, <2>3, DistanceIs, RipFacts
  <2>5. Way(r, x.addr) <= Distance(r, x.addr) /\ Way(r, x.addr) \in Nat /\ Distance(r, x.addr) \in Nat
    BY <2>3, WayIs, DistanceIs
  <2>6. x.metric >= Way(r, x.addr)
    BY <2>2, <2>4, <2>5
  <2>7. row(r, i) = [addr |-> x.addr, metric |-> x.metric, dynamic |-> FALSE, via |-> r]
    BY DEF x
  <2> HIDE DEF row
  <2> QED BY <2>2, <2>3, <2>6, <2>7 DEF Rows, NotShort
<1>3. ASSUME NEW r \in Routers PROVE kernel[r] \in Seq(Rows(r))
  <2>1. kernel[r] = [i \in DOMAIN Own[r] |-> row(r, i)]
    BY <1>1
  <2>2. DOMAIN Own[r] = 1..Len(Own[r]) /\ Len(Own[r]) \in Nat
    BY RipFacts
  <2> HIDE DEF row
  <2>3. \A i \in 1..Len(Own[r]) : row(r, i) \in Rows(r)
    BY <1>2, <2>2
  <2> QED BY <2>1, <2>2, <2>3
<1>4. kernel = [r \in Routers |-> kernel[r]]
  BY <1>1
<1> QED BY <1>1, <1>3, <1>4 DEF RipInv, RowsHonest, NetHonest

LEMMA TurnKeeps ==
  ASSUME NetHonest(net), NEW r \in Routers, NEW list \in Seq(Items(r)), NEW others \in SUBSET net,
         Turn(r, list, others)
  PROVE  NetHonest(net')
<1>1. \A d \in net' : d \in others \/ d \in Sent(r, list)
  BY DEF Turn
<1> QED BY <1>1, SentKeeps DEF NetHonest

LEMMA TransmitRoutesKeep ==
  ASSUME RipInv, NEW r \in Routers, transmit_routes(r)
  PROVE  RipInv'
<1>1. read_routes(r) \in Seq(Items(r))
  BY ReadKeeps DEF RipInv, RowsHonest
<1>2. Turn(r, read_routes(r), net) /\ kernel' = kernel
  BY DEF transmit_routes
<1>3. NetHonest(net')
  BY <1>1, <1>2, TurnKeeps DEF RipInv
<1> QED BY <1>2, <1>3 DEF RipInv

LEMMA ReceiveRoutesKeep ==
  ASSUME RipInv, NEW r \in Routers, NEW d \in net, receive_routes(r, d)
  PROVE  RipInv'
<1> DEFINE read == read_routes(r)
           es == IF d.from \in Dest[r] THEN d.entries ELSE <<>>
<1>1. PICK list, failed :
        /\ list \in Heard(read, es)
        /\ kernel' = [kernel EXCEPT ![r] = Added(Picked(@, DOMAIN @ \ Deleted(@, list, failed)), list, failed, d.from)]
        /\ Turn(r, list, net \ {d})
  BY DEF receive_routes
<1>2. /\ d.from \in Routers /\ d.entries \in Seq(Entries(d.from))
      /\ kernel = [s \in Routers |-> kernel[s]] /\ \A s \in Routers : kernel[s] \in Seq(Rows(s))
  BY DEF RipInv, NetHonest, RowsHonest
<1>3. read \in Seq(Items(r)) /\ \A i \in DOMAIN read : read[i].action # "NEW"
  BY <1>2, ReadKeeps
<1>4. Len(es) \in Nat /\ (d.from \notin Dest[r] => Len(es) = 0)
  BY <1>2
<1>5. ASSUME NEW i \in 1..Len(es)
      PROVE  /\ es[i].addr \in Networks /\ NextMetric(es[i].metric) \in Nat
             /\ NextMetric(es[i].metric) >= Way(r, es[i].addr)
  <2>1. d.from \in Dest[r] /\ es = d.entries
    BY <1>4
  <2> HIDE DEF es
  <2>2. es[i] \in Entries(d.from)
    BY <1>2, <2>1
  <2>3. es[i].addr \in Networks /\ es[i].metric \in Nat /\ es[i].metric >= Way(d.from, es[i].addr)
    BY <2>2 DEF Entries, NotShort
  <2> QED BY <2>1, <2>3, OneHop
<1> HIDE DEF es, read
<1>6. list \in Seq(Items(r)) /\ (Len(es) = 0 => list = read)
  <2>1. Heard(read, es) \subseteq Seq(Items(r)) /\ (Len(es) = 0 => Heard(read, es) = {read})
    BY <1>3, <1>4, <1>5, HeardKeeps
  <2> QED BY <1>1, <2>1
<1>7. d.from \in Dest[r] \/ \A i \in DOMAIN list : list[i].action # "NEW"
  BY <1>3, <1>4, <1>6
<1> DEFINE gone == DOMAIN kernel[r] \ Deleted(kernel[r], list, failed)
           table == Added(Picked(kernel[r], gone), list, failed, d.from)
<1>8. kernel' = [kernel EXCEPT ![r] = table]
  BY <1>1
<1> HIDE DEF gone
<1>9. table \in Seq(Rows(r))
  BY <1>2, <1>6, <1>7, TableKeeps
<1> HIDE DEF table
<1>10. RowsHonest(kernel')
  <2>1. kernel' = [s \in Routers |-> IF s = r THEN table ELSE kernel[s]]
    BY <1>2, <1>8
  <2> QED BY <1>2, <1>9, <2>1 DEF RowsHonest
<1>11. NetHonest(net')
  <2>1. net \ {d} \in SUBSET net
    OBVIOUS
  <2> QED BY <1>1, <1>6, <2>1, TurnKeeps DEF RipInv
<1> QED BY <1>10, <1>11 DEF RipInv

LEMMA RipNextInv == RipInv /\ [RipNext]_rip_vars => RipInv'
<1> SUFFICES ASSUME RipInv, [RipNext]_rip_vars PROVE RipInv'
  OBVIOUS
<1>1. ASSUME NEW r \in Routers, Interval(r) PROVE RipInv'
  BY <1>1 DEF Interval, RipInv
<1>2. CASE Lose
  <2>1. kernel' = kernel /\ net' \subseteq net
    BY <1>2 DEF Lose
  <2> QED BY <2>1 DEF RipInv, NetHonest
<1>3. CASE UNCHANGED rip_vars
  BY <1>3 DEF rip_vars, RipInv
<1> QED BY <1>1, <1>2, <1>3, TransmitRoutesKeep, ReceiveRoutesKeep DEF RipNext

LEMMA RipInvIsEnough == RipInv => HonestMetric
<1> SUFFICES ASSUME RipInv, NEW r \in Routers, NEW i \in DOMAIN kernel[r]
             PROVE  /\ kernel[r][i].metric >= Way(r, kernel[r][i].addr)
                    /\ kernel[r][i].dynamic => kernel[r][i].via \in Dest[r]
  BY DEF HonestMetric, Way
<1>1. kernel[r] \in Seq(Rows(r))
  BY DEF RipInv, RowsHonest
<1>2. kernel[r][i] \in Rows(r)
  BY <1>1
<1> QED BY <1>2 DEF Rows, NotShort

\* rip98r.c:142: however many routers there are, whatever is lost, late or
\* fails, none believes a network to be nearer than it is, and what it has
\* learned it has learned from a neighbour it lists.
THEOREM HonestRouters == RipSpec => []HonestMetric
<1>1. RipInv /\ [RipNext]_rip_vars => RipInv'
  BY RipNextInv
<1> QED BY <1>1, RipInitInv, RipInvIsEnough, PTL DEF RipSpec
=============================================================================
