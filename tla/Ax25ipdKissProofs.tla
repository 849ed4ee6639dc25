-------------------------- MODULE Ax25ipdKissProofs ---------------------------
(***************************************************************************)
(* Proofs about KISS framing: for buffers of any size, any parameters and  *)
(* frames, and however the tty cuts what is written or gives it up, frames *)
(* arrive in order and as they were sent, or cut, and never merged; and no *)
(* byte leaves its buffer, whatever the noise.                             *)
(*                                                                         *)
(* The argument: as long as there is no noise, each byte on the line has   *)
(* an origin: a frame and its place in oframe (Trail).  From one byte to   *)
(* the next the place moves on by one, or a later frame begins.  Where the *)
(* receiver is in a frame says what iframe holds (Reads), as the places of *)
(* the bytes of a frame in its stuffed form are known (Layout).            *)
(***************************************************************************)
EXTENDS Ax25ipdKiss, Integers, TLAPS, SequenceTheorems, WellFoundedInduction

-----------------------------------------------------------------------------
(* Recursion and induction on the naturals *)

\* Every nonempty set of naturals has a least element.
LEMMA LeastNat ==
  ASSUME NEW T \in SUBSET Nat, T # {}
  PROVE  \E n \in T : \A m \in T : n <= m
<1>1. PICK n \in T : \A m \in T : ~(<<m, n>> \in OpToRel(<, Nat))
  BY NatLessThanWellFounded, WFMin
<1>2. \A m \in T : m < n => <<m, n>> \in OpToRel(<, Nat)
  BY DEF OpToRel
<1>3. \A m \in T : ~(m < n)
  BY <1>1, <1>2, Zenon
<1> QED BY <1>3

\* A set that has 0 and with each number the next one has them all.
LEMMA AllNat ==
  ASSUME NEW T \in SUBSET Nat, 0 \in T, \A n \in T : n + 1 \in T
  PROVE  T = Nat
<1> DEFINE Bad == Nat \ T
<1>1. ASSUME Bad # {} PROVE FALSE
  <2>1. PICK n \in Bad : \A m \in Bad : n <= m
    BY <1>1, LeastNat
  <2>2. n - 1 \in Nat /\ n - 1 \notin Bad
    BY <2>1
  <2> QED BY <2>1, <2>2
<1> QED BY <1>1

\* f is the beginning, up to n, of what step makes of x again and again.
Begins(f, n, S, x, step) ==
  /\ f \in [0..n -> S] /\ f[0] = x
  /\ \A i \in 0..n : i # n => f[i + 1] = step[<<i, f[i]>>]

LEMMA BeginsExists ==
  ASSUME NEW S, NEW x \in S, NEW step \in [Nat \X S -> S], NEW n \in Nat
  PROVE  \E f : Begins(f, n, S, x, step)
<1> DEFINE T == {k \in Nat : \E f : Begins(f, k, S, x, step)}
<1>1. 0 \in T
  <2>1. Begins([i \in 0..0 |-> x], 0, S, x, step)
    BY DEF Begins
  <2> QED BY <2>1
<1>2. ASSUME NEW k \in T PROVE k + 1 \in T
  <2>1. PICK f : Begins(f, k, S, x, step)
    BY <1>2
  <2> DEFINE g == [i \in 0..k + 1 |-> IF i = k + 1 THEN step[<<k, f[k]>>] ELSE f[i]]
  <2>2. f[k] \in S /\ step[<<k, f[k]>>] \in S
    BY <2>1 DEF Begins
  <2>3. g \in [0..k + 1 -> S] /\ g[0] = x
    BY <2>1, <2>2 DEF Begins
  <2>4. ASSUME NEW i \in 0..k + 1, i # k + 1 PROVE g[i + 1] = step[<<i, g[i]>>]
    <3>1. g[i] = f[i] /\ i \in 0..k
      BY <2>4
    <3>2. CASE i = k
      BY <3>1, <3>2
    <3>3. CASE i # k
      <4>1. g[i + 1] = f[i + 1]
        BY <3>1, <3>3
      <4> QED BY <2>1, <3>1, <3>3, <4>1 DEF Begins
    <3> QED BY <3>2, <3>3
  <2>5. Begins(g, k + 1, S, x, step)
    BY <2>3, <2>4 DEF Begins
  <2> QED BY <2>5
<1>3. T = Nat
  <2> HIDE DEF T
  <2>1. T \in SUBSET Nat
    BY DEF T
  <2> QED BY <1>1, <1>2, <2>1, AllNat
<1> QED BY <1>3

-----------------------------------------------------------------------------
(* Stuffing *)

LEMMA ByteFacts ==
  /\ \A b \in Byte : Stuffed(b) \in Seq(Byte)
  /\ \A b \in Byte : b \notin {"FEND", "FESC"} => Stuffed(b) = <<b>>
  /\ Stuffed("FEND") = <<"FESC", "TFEND">> /\ Stuffed("FESC") = <<"FESC", "TFESC">>
BY DEF Stuffed, Byte

LEMMA ByteConcat ==
  ASSUME NEW a \in Seq(Byte), NEW b \in Seq(Byte), NEW c \in Seq(Byte)
  PROVE  (a \o b) \o c = a \o (b \o c)
BY ConcatAssociative

LEMMA ByteAppend ==
  ASSUME NEW t \in Byte, NEW a \in Seq(Byte), NEW x \in Byte
  PROVE  Append(<<t>> \o a, x) = <<t>> \o Append(a, x) /\ <<t>> \o <<>> = <<t>>
<1>1. <<t>> \in Seq(Byte) /\ <<x>> \in Seq(Byte) /\ <<t>> \o a \in Seq(Byte)
  OBVIOUS
<1>2. Append(<<t>> \o a, x) = (<<t>> \o a) \o <<x>> /\ Append(a, x) = a \o <<x>>
  BY <1>1
<1>3. <<t>> \o <<>> = <<t>>
  OBVIOUS
<1> QED BY <1>1, <1>2, <1>3, ByteConcat

\* u[i] is what the first i bytes of f are turned into.
Stuffing(f, u) ==
  /\ u \in [0..Len(f) -> Seq(Byte)] /\ u[0] = <<>>
  /\ \A i \in 0..Len(f) : i # Len(f) => u[i + 1] = u[i] \o Stuffed(f[i + 1])

LEMMA StuffAllIs ==
  ASSUME NEW f \in Seq(Byte)
  PROVE  \E u : Stuffing(f, u) /\ StuffAll(f) = u[Len(f)]
<1> DEFINE k == Len(f)
           S == Seq(Byte)
           Is(u) == u = [n \in 0..k |-> IF n = 0 THEN <<>> ELSE u[n - 1] \o Stuffed(f[n])]
           upto == CHOOSE u : Is(u)
           step == [p \in Nat \X S |-> IF p[1] < k THEN p[2] \o Stuffed(f[p[1] + 1]) ELSE <<>>]
<1>1. k \in Nat /\ \A i \in 1..k : f[i] \in Byte
  OBVIOUS
<1>2. StuffAll(f) = upto[k]
  BY DEF StuffAll
<1>3. <<>> \in S /\ \A a, b \in S : a \o b \in S
  OBVIOUS
<1>4. \A i \in 1..k : Stuffed(f[i]) \in S
  BY <1>1, ByteFacts
<1> HIDE DEF S, k
<1>5. \A i \in Nat, v \in S : (IF i < k THEN v \o Stuffed(f[i + 1]) ELSE <<>>) \in S
  <2>1. ASSUME NEW i \in Nat, NEW v \in S, i < k PROVE v \o Stuffed(f[i + 1]) \in S
    <3>1. i + 1 \in 1..k
      BY <1>1, <2>1
    <3> QED BY <1>3, <1>4, <3>1
  <2> QED BY <1>3, <2>1
<1>6. step \in [Nat \X S -> S] /\ \A i \in Nat, v \in S : i < k => step[<<i, v>>] = v \o Stuffed(f[i + 1])
  BY <1>5
<1> HIDE DEF step
<1>7. PICK u : Begins(u, k, S, <<>>, step)
  BY <1>1, <1>3, <1>6, BeginsExists
<1>8. u \in [0..k -> S] /\ u[0] = <<>>
  BY <1>7 DEF Begins
<1>9. ASSUME NEW i \in 0..k, i # k PROVE u[i + 1] = u[i] \o Stuffed(f[i + 1])
  <2>1. i \in Nat /\ i < k /\ u[i] \in S
    BY <1>1, <1>8, <1>9
  <2> QED BY <1>6, <1>7, <1>9, <2>1 DEF Begins
<1>10. Is(u)
  <2>1. ASSUME NEW n \in 0..k, n # 0 PROVE u[n] = u[n - 1] \o Stuffed(f[n])
    <3>1. n - 1 \in 0..k /\ n - 1 # k /\ (n - 1) + 1 = n
      BY <1>1, <2>1
    <3>2. u[(n - 1) + 1] = u[n - 1] \o Stuffed(f[(n - 1) + 1])
      BY <1>9, <3>1
    <3> QED BY <3>1, <3>2
  <2>2. u = [n \in 0..k |-> u[n]]
    BY <1>8
  <2>3. \A n \in 0..k : u[n] = IF n = 0 THEN <<>> ELSE u[n - 1] \o Stuffed(f[n])
    BY <1>8, <2>1
  <2> QED BY <2>2, <2>3
<1> HIDE DEF Is
<1>11. Is(upto)
  BY <1>10
<1> HIDE DEF upto
<1>12. upto = [n \in 0..k |-> IF n = 0 THEN <<>> ELSE upto[n - 1] \o Stuffed(f[n])]
  BY <1>11 DEF Is
<1>13. upto[0] = <<>>
  BY <1>1, <1>12
<1>14. ASSUME NEW i \in 0..k, i # k PROVE upto[i + 1] = upto[i] \o Stuffed(f[i + 1])
  <2>1. i + 1 \in 0..k /\ i + 1 # 0 /\ (i + 1) - 1 = i
    BY <1>1, <1>14
  <2> DEFINE m == i + 1
  <2>2. upto[m] = IF m = 0 THEN <<>> ELSE upto[m - 1] \o Stuffed(f[m])
    BY <1>12, <2>1
  <2> QED BY <2>1, <2>2
<1> DEFINE T == {n \in Nat : n <= k => upto[n] \in S}
<1>15. 0 \in T
  BY <1>3, <1>13
<1>16. ASSUME NEW n \in T PROVE n + 1 \in T
  <2> SUFFICES ASSUME n + 1 <= k PROVE upto[n + 1] \in S
    BY <1>16
  <2>1. n \in 0..k /\ n # k /\ n + 1 \in 1..k /\ upto[n] \in S
    BY <1>1, <1>16
  <2> QED BY <1>3, <1>4, <1>14, <2>1
<1>17. T = Nat
  <2> HIDE DEF T
  <2>1. T \in SUBSET Nat
    BY DEF T
  <2> QED BY <1>15, <1>16, <2>1, AllNat
<1>18. \A n \in 0..k : upto[n] \in S
  BY <1>1, <1>17
<1>19. upto \in [0..k -> S]
  <2>1. upto = [n \in 0..k |-> upto[n]]
    BY <1>12
  <2> QED BY <1>18, <2>1
<1> QED BY <1>2, <1>13, <1>14, <1>19 DEF Stuffing, S, k

-----------------------------------------------------------------------------
(* Where the bytes of a frame are in its stuffed form *)

Special(b) == b \in {"FEND", "FESC"}
Second(b) == IF b = "FEND" THEN "TFEND" ELSE "TFESC"

\* Byte i of g ends at e[i] in F.
Place(F, g, e, i) ==
  \/ ~Special(g[i]) /\ e[i] = e[i - 1] + 1 /\ F[e[i]] = g[i]
  \/ Special(g[i]) /\ e[i] = e[i - 1] + 2 /\ F[e[i] - 1] = "FESC" /\ F[e[i]] = Second(g[i])

\* P is a FEND and the stuffed bytes of g.
Opened(P, g, e) ==
  /\ P \in Seq(Byte) /\ g \in Seq(Byte) /\ e \in [0..Len(g) -> Nat]
  /\ P # <<>> /\ P[1] = "FEND" /\ e[0] = 1 /\ Len(P) = e[Len(g)]
  /\ \A i \in 1..Len(g) : Place(P, g, e, i)
  /\ \A i \in 0..Len(g) : i < e[i] /\ e[i] <= Len(P)

\* F is that, with the FEND at the end.
Layout(F, g, e) ==
  /\ F \in Seq(Byte) /\ g \in Seq(Byte) /\ e \in [0..Len(g) -> Nat]
  /\ F # <<>> /\ F[1] = "FEND" /\ e[0] = 1 /\ Len(F) = e[Len(g)] + 1 /\ F[Len(F)] = "FEND"
  /\ \A i \in 1..Len(g) : Place(F, g, e, i)
  /\ \A i \in 0..Len(g) : i < e[i] /\ e[i] < Len(F)

LEMMA OpenedNone == Opened(<<"FEND">>, <<>>, [i \in 0..0 |-> 1])
<1>1. <<"FEND">> \in Seq(Byte) /\ <<>> \in Seq(Byte) /\ Len(<<>>) = 0
  BY DEF Byte
<1> QED BY <1>1 DEF Opened

\* What is put behind P does not change the places in P.
LEMMA PlaceKept ==
  ASSUME NEW P, NEW g, NEW e, Opened(P, g, e), NEW s \in Seq(Byte), NEW b, NEW x,
         NEW i \in 1..Len(g), NEW d, d = [j \in 0..Len(g) + 1 |-> IF j <= Len(g) THEN e[j] ELSE x]
  PROVE  Place(P \o s, Append(g, b), d, i)
<1>1. /\ P \in Seq(Byte) /\ g \in Seq(Byte) /\ e \in [0..Len(g) -> Nat]
      /\ Place(P, g, e, i) /\ i \in Nat /\ i < e[i] /\ e[i] <= Len(P) /\ Len(P) \in Nat /\ Len(g) \in Nat
  BY DEF Opened
<1>2. d[i] = e[i] /\ d[i - 1] = e[i - 1] /\ e[i - 1] \in Nat /\ e[i] \in Nat
  <2>1. i \in 0..Len(g) + 1 /\ i - 1 \in 0..Len(g) + 1 /\ i <= Len(g) /\ i - 1 <= Len(g) /\ i - 1 \in 0..Len(g)
        /\ i \in 0..Len(g)
    BY <1>1
  <2> QED BY <1>1, <2>1
<1>3. Append(g, b)[i] = g[i]
  BY <1>1
<1>4. \A j \in 1..Len(P) : (P \o s)[j] = P[j]
  BY <1>1
<1>5. e[i] \in 1..Len(P) /\ (e[i] > 1 => e[i] - 1 \in 1..Len(P))
  BY <1>1, <1>2
<1>6. e[i] > 1
  BY <1>1, <1>2
<1>7. (P \o s)[e[i]] = P[e[i]] /\ (P \o s)[e[i] - 1] = P[e[i] - 1]
  BY <1>4, <1>5, <1>6
<1> QED BY <1>1, <1>2, <1>3, <1>7, Zenon DEF Place

LEMMA OpenedMore ==
  ASSUME NEW P, NEW g, NEW e, Opened(P, g, e), NEW b \in Byte
  PROVE  \E d : Opened(P \o Stuffed(b), Append(g, b), d)
<1> DEFINE n == Len(g)
           s == Stuffed(b)
           x == Len(P) + Len(s)
           d == [j \in 0..n + 1 |-> IF j <= n THEN e[j] ELSE x]
           Q == P \o s
           h == Append(g, b)
<1>1. /\ P \in Seq(Byte) /\ g \in Seq(Byte) /\ e \in [0..n -> Nat] /\ n \in Nat /\ Len(P) \in Nat
      /\ P # <<>> /\ P[1] = "FEND" /\ e[0] = 1 /\ Len(P) = e[n] /\ \A i \in 0..n : i < e[i] /\ e[i] <= Len(P)
  BY DEF Opened
<1>2. s \in Seq(Byte) /\ Len(s) \in Nat
  BY ByteFacts
<1>3. \/ ~Special(b) /\ s = <<b>>
      \/ Special(b) /\ s = <<"FESC", Second(b)>>
  BY ByteFacts DEF Special, Second
<1>4. Len(s) \in {1, 2}
  BY <1>3
<1> HIDE DEF s
<1>5. Q \in Seq(Byte) /\ Len(Q) = Len(P) + Len(s) /\ (\A i \in 1..Len(P) : Q[i] = P[i])
      /\ \A i \in 1..Len(s) : Q[Len(P) + i] = s[i]
  BY <1>1, <1>2
<1>6. h \in Seq(Byte) /\ Len(h) = n + 1 /\ h[n + 1] = b
  BY <1>1
<1>7. d \in [0..n + 1 -> Nat] /\ d[0] = 1 /\ d[n + 1] = x /\ \A j \in 0..n : d[j] = e[j]
  BY <1>1, <1>2
<1>8. Q # <<>> /\ Q[1] = "FEND"
  <2>1. Len(P) >= 1
    BY <1>1
  <2> QED BY <1>1, <1>4, <1>5, <2>1
<1>9. ASSUME NEW i \in 1..n PROVE Place(Q, h, d, i)
  BY <1>2, PlaceKept
<1>10. Place(Q, h, d, n + 1)
  <2>1. d[n + 1] = Len(P) + Len(s) /\ d[(n + 1) - 1] = Len(P) /\ h[n + 1] = b
    BY <1>1, <1>6, <1>7
  <2> HIDE DEF d, h, Q
  <2>2. CASE ~Special(b) /\ s = <<b>>
    <3>1. Len(s) = 1 /\ s[1] = b
      BY <2>2
    <3>2. Q[Len(P) + 1] = b
      BY <1>5, <3>1
    <3> QED BY <2>1, <2>2, <3>1, <3>2 DEF Place
  <2>3. CASE Special(b) /\ s = <<"FESC", Second(b)>>
    <3>1. Len(s) = 2 /\ s[1] = "FESC" /\ s[2] = Second(b)
      BY <2>3
    <3>2. Q[Len(P) + 1] = "FESC" /\ Q[Len(P) + 2] = Second(b)
      BY <1>5, <3>1
    <3>3. d[n + 1] = Len(P) + 2 /\ (Len(P) + 2) - 1 = Len(P) + 1
      BY <1>1, <2>1, <3>1
    <3> QED BY <2>1, <2>3, <3>2, <3>3 DEF Place
  <2> QED BY <1>3, <2>2, <2>3
<1>11. \A i \in 1..n + 1 : Place(Q, h, d, i)
  <2>1. \A i \in 1..n + 1 : i \in 1..n \/ i = n + 1
    BY <1>1
  <2> HIDE DEF Q, h, d
  <2> QED BY <1>9, <1>10, <2>1
<1>12. \A i \in 0..n + 1 : i < d[i] /\ d[i] <= Len(Q)
  <2>1. ASSUME NEW i \in 0..n PROVE i < d[i] /\ d[i] <= Len(Q)
    <3>1. d[i] = e[i] /\ i < e[i] /\ e[i] <= Len(P) /\ e[i] \in Nat
      BY <1>1, <1>7
    <3> HIDE DEF d, Q
    <3> QED BY <1>1, <1>2, <1>5, <3>1
  <2>2. n + 1 < d[n + 1] /\ d[n + 1] <= Len(Q)
    <3>1. n < Len(P)
      BY <1>1
    <3>2. d[n + 1] = Len(P) + Len(s) /\ Len(Q) = Len(P) + Len(s)
      BY <1>5, <1>7
    <3>3. n \in Nat /\ Len(P) \in Nat
      BY <1>1
    <3>4. n + 1 < Len(P) + Len(s) /\ Len(P) + Len(s) \in Nat
      BY <1>4, <3>1, <3>3
    <3> HIDE DEF d, Q, n
    <3> QED BY <3>2, <3>4
  <2>3. \A i \in 0..n + 1 : i \in 0..n \/ i = n + 1
    BY <1>1
  <2> HIDE DEF d, Q
  <2> QED BY <2>1, <2>2, <2>3
<1>13. Opened(Q, h, d)
  <2> HIDE DEF d, Q, h, x
  <2> QED BY <1>5, <1>6, <1>7, <1>8, <1>11, <1>12 DEF Opened, x
<1> QED BY <1>13

LEMMA Closed ==
  ASSUME NEW P, NEW g, NEW e, Opened(P, g, e)
  PROVE  Layout(P \o <<"FEND">>, g, e)
<1> DEFINE F == P \o <<"FEND">>
<1>1. /\ P \in Seq(Byte) /\ g \in Seq(Byte) /\ e \in [0..Len(g) -> Nat] /\ Len(P) \in Nat /\ Len(g) \in Nat
      /\ P # <<>> /\ P[1] = "FEND" /\ e[0] = 1 /\ Len(P) = e[Len(g)]
      /\ \A i \in 1..Len(g) : Place(P, g, e, i)
      /\ \A i \in 0..Len(g) : i < e[i] /\ e[i] <= Len(P)
  BY DEF Opened
<1>2. <<"FEND">> \in Seq(Byte) /\ Len(<<"FEND">>) = 1
  BY DEF Byte
<1>3. F \in Seq(Byte) /\ Len(F) = Len(P) + 1 /\ F[Len(P) + 1] = "FEND" /\ \A i \in 1..Len(P) : F[i] = P[i]
  BY <1>1, <1>2
<1> HIDE DEF F
<1>4. F # <<>> /\ F[1] = "FEND"
  <2>1. Len(P) >= 1
    BY <1>1
  <2> QED BY <1>1, <1>3, <2>1
<1>5. ASSUME NEW i \in 1..Len(g) PROVE Place(F, g, e, i)
  <2>1. Place(P, g, e, i) /\ i < e[i] /\ e[i] <= Len(P) /\ e[i] \in Nat
    BY <1>1
  <2>2. e[i] \in 1..Len(P) /\ e[i] - 1 \in 1..Len(P)
    BY <1>1, <2>1
  <2>3. F[e[i]] = P[e[i]] /\ F[e[i] - 1] = P[e[i] - 1]
    BY <1>3, <2>2
  <2> QED BY <2>1, <2>3, Zenon DEF Place
<1>6. \A i \in 0..Len(g) : i < e[i] /\ e[i] < Len(F)
  <2>1. ASSUME NEW i \in 0..Len(g) PROVE i < e[i] /\ e[i] < Len(F)
    <3>1. i < e[i] /\ e[i] <= Len(P) /\ e[i] \in Nat
      BY <1>1
    <3> QED BY <1>1, <1>3, <3>1
  <2> QED BY <2>1
<1>7. Layout(F, g, e)
  BY <1>1, <1>3, <1>4, <1>5, <1>6 DEF Layout
<1> QED BY <1>7 DEF F

\* The bytes that the frame s, <<type, frame>>, is made of.
Content(s) == <<s[1]>> \o s[2]
Full(s) == FullFrame(s[1], s[2])

LEMMA FrameLayout ==
  ASSUME NEW s \in Byte \X Seq(Byte)
  PROVE  \E e : Layout(Full(s), Content(s), e)
<1> DEFINE t == s[1]
           f == s[2]
           k == Len(f)
           P0 == <<"FEND">> \o Stuffed(t)
<1>1. t \in Byte /\ f \in Seq(Byte) /\ k \in Nat
  OBVIOUS
<1> HIDE DEF t, f
<1>2. PICK u : Stuffing(f, u) /\ StuffAll(f) = u[k]
  BY <1>1, StuffAllIs
<1>3. /\ u \in [0..k -> Seq(Byte)] /\ u[0] = <<>>
      /\ \A i \in 0..k : i # k => u[i + 1] = u[i] \o Stuffed(f[i + 1])
  BY <1>2 DEF Stuffing
<1>4. P0 \in Seq(Byte) /\ <<"FEND">> \in Seq(Byte)
  <2>1. Stuffed(t) \in Seq(Byte) /\ <<"FEND">> \in Seq(Byte)
    BY <1>1, ByteFacts DEF Byte
  <2> QED BY <2>1
<1>5. \E e : Opened(P0, <<t>>, e)
  <2>1. Append(<<>>, t) = <<t>>
    OBVIOUS
  <2> QED BY <1>1, <2>1, OpenedNone, OpenedMore
<1> HIDE DEF P0
<1> DEFINE T == {n \in Nat : n <= k => \E e : Opened(P0 \o u[n], <<t>> \o SubSeq(f, 1, n), e)}
<1>6. 0 \in T
  <2>1. P0 \o u[0] = P0
    BY <1>3, <1>4
  <2>2. SubSeq(f, 1, 0) = <<>>
    BY <1>1
  <2>3. <<t>> \o SubSeq(f, 1, 0) = <<t>>
    BY <1>1, <2>2, ByteAppend
  <2> QED BY <1>5, <2>1, <2>3
<1>7. ASSUME NEW n \in T PROVE n + 1 \in T
  <2> SUFFICES ASSUME n + 1 <= k
               PROVE  \E e : Opened(P0 \o u[n + 1], <<t>> \o SubSeq(f, 1, n + 1), e)
    BY <1>7
  <2>1. n \in 0..k /\ n # k /\ n + 1 \in 1..k /\ n \in Nat
    BY <1>1, <1>7
  <2>2. PICK e : Opened(P0 \o u[n], <<t>> \o SubSeq(f, 1, n), e)
    BY <1>7, <2>1
  <2>3. f[n + 1] \in Byte /\ u[n] \in Seq(Byte) /\ Stuffed(f[n + 1]) \in Seq(Byte)
    <3>1. f[n + 1] \in Byte
      BY <1>1, <2>1
    <3>2. u[n] \in Seq(Byte)
      BY <1>3, <2>1
    <3> QED BY <3>1, <3>2, ByteFacts
  <2>4. \E d : Opened((P0 \o u[n]) \o Stuffed(f[n + 1]), Append(<<t>> \o SubSeq(f, 1, n), f[n + 1]), d)
    BY <2>2, <2>3, OpenedMore
  <2>5. (P0 \o u[n]) \o Stuffed(f[n + 1]) = P0 \o u[n + 1]
    <3>1. u[n + 1] = u[n] \o Stuffed(f[n + 1])
      BY <1>3, <2>1
    <3> DEFINE a == u[n]
               b == Stuffed(f[n + 1])
    <3>2. a \in Seq(Byte) /\ b \in Seq(Byte) /\ u[n + 1] = a \o b
      BY <2>3, <3>1
    <3> HIDE DEF a, b
    <3>3. (P0 \o a) \o b = P0 \o (a \o b)
      BY <1>4, <3>2, ByteConcat
    <3>4. (P0 \o u[n]) \o Stuffed(f[n + 1]) = (P0 \o a) \o b
      BY DEF a, b
    <3> QED BY <3>2, <3>3, <3>4, Zenon
  <2>6. Append(<<t>> \o SubSeq(f, 1, n), f[n + 1]) = <<t>> \o SubSeq(f, 1, n + 1)
    <3>1. SubSeq(f, 1, n) \in Seq(Byte) /\ SubSeq(f, 1, n + 1) = Append(SubSeq(f, 1, n), f[n + 1])
      BY <1>1, <2>1
    <3> DEFINE a == SubSeq(f, 1, n)
    <3>2. a \in Seq(Byte)
      BY <3>1
    <3> HIDE DEF a
    <3>3. Append(<<t>> \o a, f[n + 1]) = <<t>> \o Append(a, f[n + 1])
      BY <1>1, <2>3, <3>2, ByteAppend
    <3> QED BY <3>1, <3>3 DEF a
  <2> QED BY <2>4, <2>5, <2>6
<1>8. T = Nat
  <2> HIDE DEF T
  <2>1. T \in SUBSET Nat
    BY DEF T
  <2> QED BY <1>6, <1>7, <2>1, AllNat
<1>9. PICK e : Opened(P0 \o u[k], <<t>> \o SubSeq(f, 1, k), e)
  BY <1>1, <1>8
<1>10. SubSeq(f, 1, k) = f
  BY <1>1
<1>11. Full(s) = (P0 \o u[k]) \o <<"FEND">>
  BY <1>2 DEF Full, FullFrame, P0, t, f
<1>12. Content(s) = <<t>> \o f
  BY DEF Content, t, f
<1> QED BY <1>9, <1>10, <1>11, <1>12, Closed

-----------------------------------------------------------------------------
(* What the receiver has of a frame *)

Messages == Byte \X Seq(Byte)

\* Within a frame: between two bytes, behind an escape, or at its end.
Within(F, g, e, pos, frame, esc) ==
  \/ \E i \in 0..Len(g) : pos = e[i] /\ esc = FALSE /\ frame = SubSeq(g, 1, i)
  \/ \E i \in 1..Len(g) : Special(g[i]) /\ pos = e[i] - 1 /\ esc = TRUE /\ frame = SubSeq(g, 1, i - 1)
  \/ pos = Len(F) /\ esc = FALSE /\ frame = <<>>

\* The receiver has taken pos bytes of the frame s.
Reads(s, pos, frame, esc) ==
  \E e : Layout(Full(s), Content(s), e) /\ Within(Full(s), Content(s), e, pos, frame, esc)

Plain(esc, c) == CASE esc /\ c = "TFEND" -> "FEND" [] esc /\ c = "TFESC" -> "FESC" [] OTHER -> c

LEMMA PlainIs ==
  /\ \A c \in Byte : Plain(FALSE, c) = c
  /\ \A b \in Byte : Special(b) => Plain(TRUE, Second(b)) = b /\ Second(b) \in {"TFEND", "TFESC"}
BY DEF Plain, Second, Special, Byte

LEMMA SubSeqMore ==
  ASSUME NEW g \in Seq(Byte), NEW i \in Nat, i < Len(g)
  PROVE  Append(SubSeq(g, 1, i), g[i + 1]) = SubSeq(g, 1, i + 1)
OBVIOUS

LEMMA ReadsStart ==
  ASSUME NEW s \in Messages
  PROVE  Reads(s, 1, <<>>, FALSE)
<1>1. PICK e : Layout(Full(s), Content(s), e)
  BY FrameLayout DEF Messages
<1>2. Content(s) \in Seq(Byte) /\ e[0] = 1
  BY <1>1 DEF Layout
<1>3. 0 \in 0..Len(Content(s)) /\ SubSeq(Content(s), 1, 0) = <<>>
  BY <1>2
<1>4. Within(Full(s), Content(s), e, 1, <<>>, FALSE)
  BY <1>2, <1>3, Zenon DEF Within
<1> QED BY <1>1, <1>4 DEF Reads

\* The next byte that the receiver takes.
LEMMA ReadsNext ==
  ASSUME NEW s \in Messages, NEW pos \in Nat, NEW frame, NEW esc, Reads(s, pos, frame, esc),
         pos < Len(Full(s)), NEW c, c = Full(s)[pos + 1]
  PROVE  \/ c = "FEND" /\ pos + 1 = Len(Full(s)) /\ frame = Content(s) /\ Reads(s, pos + 1, <<>>, FALSE)
         \/ c = "FESC" /\ Reads(s, pos + 1, frame, TRUE)
         \/ /\ c \in Byte \ {"FEND", "FESC"} /\ Len(frame) < pos
            /\ Reads(s, pos + 1, Append(frame, Plain(esc, c)), FALSE)
<1> DEFINE F == Full(s)
           g == Content(s)
<1>1. PICK e : Layout(F, g, e) /\ Within(F, g, e, pos, frame, esc)
  BY DEF Reads
<1>2. /\ F \in Seq(Byte) /\ g \in Seq(Byte) /\ e \in [0..Len(g) -> Nat]
      /\ Len(F) = e[Len(g)] + 1 /\ F[Len(F)] = "FEND"
      /\ \A i \in 1..Len(g) : Place(F, g, e, i)
      /\ \A i \in 0..Len(g) : i < e[i] /\ e[i] < Len(F)
  BY <1>1 DEF Layout
<1> HIDE DEF F, g
<1>3. Len(g) \in Nat /\ Len(F) \in Nat /\ \A i \in 1..Len(g) : g[i] \in Byte
  BY <1>2
<1>4. ASSUME NEW i \in 0..Len(g), pos = e[i], esc = FALSE, frame = SubSeq(g, 1, i), i # Len(g)
      PROVE  \/ c = "FESC" /\ Reads(s, pos + 1, frame, TRUE)
             \/ /\ c \in Byte \ {"FEND", "FESC"} /\ Len(frame) < pos
                /\ Reads(s, pos + 1, Append(frame, Plain(esc, c)), FALSE)
  <2>1. i + 1 \in 1..Len(g) /\ i + 1 \in 0..Len(g) /\ (i + 1) - 1 = i /\ i \in Nat /\ i < Len(g) /\ i < e[i]
    BY <1>2, <1>3, <1>4
  <2>2. Place(F, g, e, i + 1)
    BY <1>2, <2>1
  <2>3. Len(frame) = i
    BY <1>2, <1>4, <2>1
  <2>4. CASE ~Special(g[i + 1]) /\ e[i + 1] = e[i] + 1 /\ F[e[i + 1]] = g[i + 1]
    <3>1. c = g[i + 1] /\ g[i + 1] \in Byte
      BY <1>3, <1>4, <2>1, <2>4 DEF F
    <3>2. Plain(esc, c) = g[i + 1]
      BY <1>4, <3>1, PlainIs
    <3>3. Append(frame, g[i + 1]) = SubSeq(g, 1, i + 1)
      BY <1>2, <1>4, <2>1, SubSeqMore
    <3>4. Within(F, g, e, pos + 1, Append(frame, Plain(esc, c)), FALSE)
      <4>1. pos + 1 = e[i + 1]
        BY <1>4, <2>4
      <4> QED BY <2>1, <3>2, <3>3, <4>1, Zenon DEF Within
    <3>5. Reads(s, pos + 1, Append(frame, Plain(esc, c)), FALSE)
      BY <1>1, <3>4 DEF Reads, F, g
    <3> QED BY <1>4, <2>1, <2>3, <2>4, <3>1, <3>5 DEF Special
  <2>5. CASE Special(g[i + 1]) /\ e[i + 1] = e[i] + 2 /\ F[e[i + 1] - 1] = "FESC"
    <3>1. e[i] \in Nat /\ e[i + 1] - 1 = pos + 1
      BY <1>2, <1>4, <2>5
    <3>2. c = "FESC"
      BY <2>5, <3>1 DEF F
    <3>3. Within(F, g, e, pos + 1, frame, TRUE)
      <4>1. pos + 1 = e[i + 1] - 1 /\ frame = SubSeq(g, 1, (i + 1) - 1)
        BY <1>4, <2>1, <3>1
      <4> DEFINE j == i + 1
      <4>2. j \in 1..Len(g) /\ Special(g[j]) /\ pos + 1 = e[j] - 1 /\ frame = SubSeq(g, 1, j - 1)
        BY <2>1, <2>5, <4>1
      <4> HIDE DEF j
      <4> QED BY <4>2 DEF Within
    <3> QED BY <1>1, <3>2, <3>3 DEF Reads, F, g
  <2> QED BY <2>1, <2>2, <2>4, <2>5 DEF Place
<1>5. ASSUME NEW i \in 0..Len(g), pos = e[i], esc = FALSE, frame = SubSeq(g, 1, i), i = Len(g)
      PROVE  c = "FEND" /\ pos + 1 = Len(F) /\ frame = g /\ Reads(s, pos + 1, <<>>, FALSE)
  <2>1. pos + 1 = Len(F) /\ frame = g
    BY <1>2, <1>5
  <2>2. c = "FEND"
    BY <1>2, <2>1 DEF F
  <2>3. Within(F, g, e, pos + 1, <<>>, FALSE)
    BY <2>1 DEF Within
  <2> QED BY <1>1, <2>1, <2>2, <2>3 DEF Reads, F, g
<1>6. ASSUME NEW i \in 1..Len(g), Special(g[i]), pos = e[i] - 1, esc = TRUE, frame = SubSeq(g, 1, i - 1)
      PROVE  /\ c \in Byte \ {"FEND", "FESC"} /\ Len(frame) < pos
             /\ Reads(s, pos + 1, Append(frame, Plain(esc, c)), FALSE)
  <2>1. i \in Nat /\ i - 1 \in Nat /\ i - 1 < Len(g) /\ (i - 1) + 1 = i /\ i \in 0..Len(g)
    BY <1>3
  <2>2. i < e[i] /\ e[i] \in Nat /\ pos + 1 = e[i] /\ Place(F, g, e, i)
    <3>1. i < e[i] /\ e[i] \in Nat /\ Place(F, g, e, i)
      BY <1>2, <2>1
    <3> QED BY <1>6, <3>1
  <2>3. F[e[i]] = Second(g[i])
    BY <1>6, <2>2, Zenon DEF Place
  <2>4. c = Second(g[i]) /\ g[i] \in Byte
    BY <1>3, <2>2, <2>3 DEF F
  <2>5. Plain(esc, c) = g[i] /\ c \in {"TFEND", "TFESC"}
    BY <1>6, <2>4, PlainIs
  <2>6. Append(frame, g[i]) = SubSeq(g, 1, i) /\ Len(frame) = i - 1
    <3>1. Append(SubSeq(g, 1, i - 1), g[(i - 1) + 1]) = SubSeq(g, 1, (i - 1) + 1)
      BY <1>2, <2>1, SubSeqMore
    <3> QED BY <1>2, <1>6, <2>1, <3>1
  <2>7. Within(F, g, e, pos + 1, Append(frame, Plain(esc, c)), FALSE)
    BY <2>1, <2>2, <2>5, <2>6, Zenon DEF Within
  <2>8. Reads(s, pos + 1, Append(frame, Plain(esc, c)), FALSE)
    BY <1>1, <2>7 DEF Reads, F, g
  <2>9. Len(frame) < pos
    BY <1>6, <2>1, <2>2, <2>6
  <2> QED BY <2>5, <2>8, <2>9 DEF Byte
<1>7. pos # Len(F)
  BY <1>3 DEF F
<1>8. CASE \E i \in 0..Len(g) : pos = e[i] /\ esc = FALSE /\ frame = SubSeq(g, 1, i)
  <2>1. PICK i \in 0..Len(g) : pos = e[i] /\ esc = FALSE /\ frame = SubSeq(g, 1, i)
    BY <1>8
  <2>2. CASE i = Len(g)
    BY <1>5, <2>1, <2>2 DEF F, g
  <2>3. CASE i # Len(g)
    BY <1>4, <2>1, <2>3
  <2> QED BY <2>2, <2>3
<1>9. CASE \E i \in 1..Len(g) : Special(g[i]) /\ pos = e[i] - 1 /\ esc = TRUE /\ frame = SubSeq(g, 1, i - 1)
  BY <1>6, <1>9
<1> QED BY <1>1, <1>7, <1>8, <1>9 DEF Within

\* What iframe holds is the beginning of the frame; after its end, nothing.
LEMMA ReadsFrame ==
  ASSUME NEW s \in Messages, NEW pos, NEW frame, NEW esc, Reads(s, pos, frame, esc)
  PROVE  /\ pos \in 1..Len(Full(s)) /\ Full(s) \in Seq(Byte) /\ esc \in BOOLEAN
         /\ frame \in Seq(Byte) /\ Len(frame) < pos
         /\ pos = Len(Full(s)) => frame = <<>>
         /\ frame # <<>> => frame[1] = s[1] /\ Tail(frame) \in Seq(Byte) /\ IsPrefixOf(Tail(frame), s[2])
<1> DEFINE F == Full(s)
           g == Content(s)
           t == s[1]
           f == s[2]
<1>0. t \in Byte /\ f \in Seq(Byte) /\ g = <<t>> \o f
  BY DEF Messages, Content
<1>1. PICK e : Layout(F, g, e) /\ Within(F, g, e, pos, frame, esc)
  BY DEF Reads
<1>2. /\ F \in Seq(Byte) /\ g \in Seq(Byte) /\ e \in [0..Len(g) -> Nat]
      /\ \A i \in 1..Len(g) : Place(F, g, e, i)
      /\ \A i \in 0..Len(g) : i < e[i] /\ e[i] < Len(F)
  BY <1>1 DEF Layout
<1> HIDE DEF F, g, t, f
<1>3. Len(g) = Len(f) + 1 /\ Len(f) \in Nat /\ Len(F) \in Nat /\ g[1] = t /\ \A i \in 1..Len(f) : g[i + 1] = f[i]
  BY <1>0, <1>2
<1>4. ASSUME NEW i \in 0..Len(g), frame = SubSeq(g, 1, i)
      PROVE  /\ frame \in Seq(Byte) /\ Len(frame) = i
             /\ frame # <<>> => frame[1] = t /\ Tail(frame) \in Seq(Byte) /\ IsPrefixOf(Tail(frame), f)
  <2>1. frame \in Seq(Byte) /\ Len(frame) = i /\ \A j \in 1..i : frame[j] = g[j]
    BY <1>2, <1>3, <1>4
  <2>2. CASE frame # <<>>
    <3>1. i \in Nat /\ i >= 1 /\ i - 1 \in Nat /\ i - 1 <= Len(f)
      BY <1>3, <2>1, <2>2
    <3> DEFINE q == Tail(frame)
    <3>2. q \in Seq(Byte) /\ Len(q) = i - 1 /\ \A j \in 1..i - 1 : q[j] = frame[j + 1]
      BY <2>1, <2>2, <3>1
    <3> HIDE DEF q
    <3>3. \A j \in 1..i - 1 : q[j] = f[j]
      <4>1. ASSUME NEW j \in 1..i - 1 PROVE q[j] = f[j]
        <5>1. j \in 1..Len(f) /\ j + 1 \in 1..i
          BY <1>3, <3>1
        <5> QED BY <1>3, <2>1, <3>2, <5>1
      <4> QED BY <4>1
    <3>4. SubSeq(f, 1, i - 1) \in Seq(Byte) /\ Len(SubSeq(f, 1, i - 1)) = i - 1
          /\ \A j \in 1..i - 1 : SubSeq(f, 1, i - 1)[j] = f[j]
      BY <1>0, <3>1
    <3>5. SubSeq(f, 1, i - 1) = q
      BY <3>2, <3>3, <3>4, SeqEqual
    <3>6. IsPrefixOf(q, f)
      BY <3>1, <3>2, <3>5 DEF IsPrefixOf
    <3>7. frame[1] = t
      BY <1>3, <2>1, <3>1
    <3> QED BY <2>1, <3>2, <3>6, <3>7 DEF q
  <2> QED BY <2>1, <2>2
<1>5. CASE \E i \in 0..Len(g) : pos = e[i] /\ esc = FALSE /\ frame = SubSeq(g, 1, i)
  <2>1. PICK i \in 0..Len(g) : pos = e[i] /\ esc = FALSE /\ frame = SubSeq(g, 1, i)
    BY <1>5
  <2>2. i < pos /\ pos < Len(F) /\ pos \in Nat /\ i \in Nat
    BY <1>2, <2>1
  <2>3. pos \in 1..Len(F) /\ pos # Len(F)
    BY <1>3, <2>2
  <2> QED BY <1>2, <1>4, <2>1, <2>2, <2>3 DEF F, t, f
<1>6. CASE \E i \in 1..Len(g) : Special(g[i]) /\ pos = e[i] - 1 /\ esc = TRUE /\ frame = SubSeq(g, 1, i - 1)
  <2>1. PICK i \in 1..Len(g) : Special(g[i]) /\ pos = e[i] - 1 /\ esc = TRUE /\ frame = SubSeq(g, 1, i - 1)
    BY <1>6
  <2>2. i \in 0..Len(g) /\ i - 1 \in 0..Len(g) /\ i \in Nat /\ i >= 1
    BY <1>3
  <2>3. i < e[i] /\ e[i] < Len(F) /\ e[i] \in Nat
    BY <1>2, <2>2
  <2>4. pos \in 1..Len(F) /\ pos # Len(F) /\ i - 1 < pos
    BY <1>3, <2>1, <2>2, <2>3
  <2> QED BY <1>2, <1>4, <2>1, <2>2, <2>4 DEF F, t, f
<1>7. CASE pos = Len(F) /\ esc = FALSE /\ frame = <<>>
  <2>1. 0 \in 0..Len(g) /\ e[0] \in Nat
    BY <1>2, <1>3
  <2>2. 0 < e[0] /\ e[0] < Len(F)
    BY <1>2, <2>1
  <2>3. Len(F) \in 1..Len(F) /\ 0 < Len(F)
    BY <1>3, <2>1, <2>2
  <2> QED BY <1>2, <1>7, <2>3 DEF F
<1> QED BY <1>1, <1>5, <1>6, <1>7 DEF Within

-----------------------------------------------------------------------------
(* No byte leaves its buffer *)

\* What send_kiss leaves of the frame in oframe.
Cut(s) == Encode(s[1], s[2])

LEMMA CutIs ==
  ASSUME NEW s \in Messages
  PROVE  /\ Full(s) \in Seq(Byte) /\ Full(s)[1] = "FEND" /\ Full(s)[Len(Full(s))] = "FEND"
         /\ Cut(s) \in Seq(Byte) /\ Len(Cut(s)) \in 1..MAX_FRAME /\ Len(Cut(s)) <= Len(Full(s))
         /\ Len(Full(s)) <= MAX_FRAME => Len(Cut(s)) = Len(Full(s))
         /\ \A i \in 1..Len(Cut(s)) : Cut(s)[i] = Full(s)[i]
<1> DEFINE F == Full(s)
           n == IF Len(F) < MAX_FRAME THEN Len(F) ELSE MAX_FRAME
<1>1. F \in Seq(Byte) /\ F # <<>> /\ F[1] = "FEND" /\ F[Len(F)] = "FEND"
  BY FrameLayout DEF Messages, Layout
<1>2. Cut(s) = SubSeq(F, 1, n)
  BY DEF Cut, Encode, Full
<1> HIDE DEF F
<1>3. Len(F) \in Nat /\ Len(F) >= 1 /\ MAX_FRAME \in Nat /\ MAX_FRAME > 4
  BY <1>1, KissConstants
<1>4. n \in 1..MAX_FRAME /\ n <= Len(F) /\ (Len(F) <= MAX_FRAME => n = Len(F))
  BY <1>3
<1> HIDE DEF n
<1>5. SubSeq(F, 1, n) \in Seq(Byte) /\ Len(SubSeq(F, 1, n)) = n /\ \A i \in 1..n : SubSeq(F, 1, n)[i] = F[i]
  BY <1>1, <1>3, <1>4
<1> QED BY <1>1, <1>2, <1>4, <1>5 DEF F

LEMMA SubSeqType ==
  ASSUME NEW S, NEW s \in Seq(S), NEW n \in 1..Len(s)
  PROVE  /\ SubSeq(s, 1, n) \in Seq(S) /\ SubSeq(s, n + 1, Len(s)) \in Seq(S)
         /\ Len(SubSeq(s, 1, n)) = n /\ Len(SubSeq(s, n + 1, Len(s))) = Len(s) - n
         /\ \A i \in 1..n : SubSeq(s, 1, n)[i] = s[i]
         /\ \A i \in 1..Len(s) - n : SubSeq(s, n + 1, Len(s))[i] = s[n + i]
OBVIOUS

\* What the actions of the sender give to send_kiss.
LEMMA SendKissTypes ==
  ASSUME TypeOK, NEW type \in Byte, NEW f \in Seq(Byte), SendKiss(type, f)
  PROVE  /\ otty' \in Seq(Byte) /\ Len(otty') <= MAX_FRAME /\ retries' \in 0..SEND_RETRIES
         /\ sent' \in Seq(Byte \X Seq(Byte))
         /\ <<type, f>> \in Messages /\ otty = <<>> /\ otty' = Cut(<<type, f>>)
         /\ sent' = Append(sent, <<type, f>>)
<1>1. <<type, f>> \in Messages
  BY DEF Messages
<1>2. otty = <<>> /\ otty' = Encode(type, f) /\ retries' = 0 /\ sent' = Append(sent, <<type, f>>)
  BY DEF SendKiss
<1>3. Cut(<<type, f>>) = Encode(type, f)
  BY DEF Cut
<1>4. Cut(<<type, f>>) \in Seq(Byte) /\ Len(Cut(<<type, f>>)) \in 1..MAX_FRAME
  BY <1>1, CutIs
<1>5. sent' \in Seq(Byte \X Seq(Byte))
  BY <1>1, <1>2 DEF TypeOK, Messages
<1> QED BY <1>1, <1>2, <1>3, <1>4, <1>5, KissConstants

LEMMA ParamTypes ==
  ASSUME TypeOK, next_param < Len(param_tbl)
  PROVE  param_tbl[next_param + 1][1] \in Byte /\ <<param_tbl[next_param + 1][2]>> \in Seq(Byte)
<1>1. param_tbl[next_param + 1] \in Params
  BY DEF TypeOK
<1>2. param_tbl[next_param + 1] \in Byte \X Byte
  BY <1>1, KissInputs
<1> QED BY <1>2

Bounds == TypeOK /\ CrcRoom

LEMMA InitBounds == Init => Bounds
<1> SUFFICES ASSUME Init PROVE Bounds
  OBVIOUS
<1>1. /\ PTABLE_SIZE \in Nat /\ SEND_RETRIES \in Nat /\ MAX_FRAME \in Nat /\ MaxNoise \in Nat
  BY KissConstants
<1>2. param_tbl \in Seq(Params) /\ Len(param_tbl) = 0 /\ next_param \in 0..Len(param_tbl)
  BY DEF Init
<1>3. otty \in Seq(Byte) /\ Len(otty) = 0 /\ wire \in Seq(Byte) /\ iframe \in Seq(Byte) /\ Len(iframe) = 0
  BY DEF Init
<1>4. sent \in Seq(Byte \X Seq(Byte)) /\ rcvd \in Seq(Seq(Byte)) /\ DOMAIN rcvd = {}
  BY DEF Init
<1>5. /\ phase = "config" /\ retries = 0 /\ noise = 0 /\ iescaped = FALSE /\ gaveup = 0
      /\ stats = [kiss_in |-> 0, kiss_toobig |-> 0, kiss_badtype |-> 0]
  BY DEF Init
<1>6. TypeOK
  <2>1. stats \in [kiss_in : Nat, kiss_toobig : Nat, kiss_badtype : Nat]
    BY <1>5
  <2>2. Len(param_tbl) <= PTABLE_SIZE /\ Len(otty) <= MAX_FRAME /\ Len(iframe) <= MAX_FRAME
    BY <1>1, <1>2, <1>3
  <2>3. retries \in 0..SEND_RETRIES /\ noise \in 0..MaxNoise /\ gaveup \in Nat
    BY <1>1, <1>5
  <2>4. phase \in {"config", "params", "run"} /\ iescaped \in BOOLEAN
    BY <1>5
  <2> QED BY <1>2, <1>3, <1>4, <2>1, <2>2, <2>3, <2>4, Zenon DEF TypeOK
<1>7. CrcRoom
  BY <1>4 DEF CrcRoom
<1> QED BY <1>6, <1>7 DEF Bounds

\* The sender.
LEMMA SenderBounds ==
  ASSUME Bounds,
         \/ \E p \in Params : ParamAdd(p)
         \/ OpenTty \/ SendParams \/ SendTtyBusy
         \/ \E f \in Payloads : SendFrame(f)
         \/ \E n \in 1..Len(otty) : SendTty(n)
  PROVE  Bounds'
<1>0. TypeOK /\ CrcRoom
  BY DEF Bounds
<1>1. ASSUME NEW p \in Params, ParamAdd(p) PROVE Bounds'
  <2>1. param_tbl' \in Seq(Params) /\ Len(param_tbl') = Len(param_tbl) + 1 /\ Len(param_tbl') <= PTABLE_SIZE
    BY <1>0, <1>1, KissConstants DEF TypeOK, ParamAdd
  <2>2. next_param' \in 0..Len(param_tbl')
    BY <1>0, <1>1, <2>1 DEF TypeOK, ParamAdd
  <2> QED BY <1>0, <1>1, <2>1, <2>2 DEF Bounds, TypeOK, CrcRoom, ParamAdd, rvars
<1>2. CASE OpenTty
  BY <1>0, <1>2 DEF Bounds, TypeOK, CrcRoom, OpenTty, rvars
<1>3. CASE SendParams
  <2>1. CASE next_param < Len(param_tbl)
    <3> DEFINE p == param_tbl[next_param + 1]
    <3>1. SendKiss(p[1], <<p[2]>>) /\ next_param' = next_param + 1 /\ phase' = phase
          /\ UNCHANGED <<param_tbl, gaveup, wire, noise, rvars>>
      BY <1>3, <2>1 DEF SendParams
    <3>2. p[1] \in Byte /\ <<p[2]>> \in Seq(Byte)
      BY <1>0, <2>1, ParamTypes
    <3> HIDE DEF p
    <3>3. otty' \in Seq(Byte) /\ Len(otty') <= MAX_FRAME /\ retries' \in 0..SEND_RETRIES
          /\ sent' \in Seq(Byte \X Seq(Byte))
      BY <1>0, <3>1, <3>2, SendKissTypes
    <3>4. next_param' \in 0..Len(param_tbl)
      BY <1>0, <2>1, <3>1 DEF TypeOK
    <3> QED BY <1>0, <3>1, <3>3, <3>4 DEF Bounds, TypeOK, CrcRoom, rvars
  <2>2. CASE ~(next_param < Len(param_tbl))
    BY <1>0, <1>3, <2>2 DEF Bounds, TypeOK, CrcRoom, SendParams, rvars
  <2> QED BY <2>1, <2>2
<1>4. CASE SendTtyBusy
  <2>1. SEND_RETRIES \in Nat
    BY KissConstants
  <2>2. otty' \in Seq(Byte) /\ Len(otty') <= MAX_FRAME /\ retries' \in 0..SEND_RETRIES /\ gaveup' \in Nat
    <3>1. CASE retries + 1 > SEND_RETRIES
      BY <1>0, <1>4, <2>1, <3>1, KissConstants DEF TypeOK, SendTtyBusy
    <3>2. CASE ~(retries + 1 > SEND_RETRIES)
      BY <1>0, <1>4, <2>1, <3>2 DEF TypeOK, SendTtyBusy
    <3> QED BY <3>1, <3>2
  <2> QED BY <1>0, <1>4, <2>2 DEF Bounds, TypeOK, CrcRoom, SendTtyBusy, rvars
<1>5. ASSUME NEW f \in Payloads, SendFrame(f) PROVE Bounds'
  <2>1. f \in Seq(Byte) /\ "Z" \in Byte
    BY KissInputs DEF Byte
  <2>2. SendKiss("Z", f) /\ UNCHANGED <<param_tbl, phase, next_param, gaveup, wire, noise, rvars>>
    BY <1>5 DEF SendFrame
  <2>3. otty' \in Seq(Byte) /\ Len(otty') <= MAX_FRAME /\ retries' \in 0..SEND_RETRIES
        /\ sent' \in Seq(Byte \X Seq(Byte))
    BY <1>0, <2>1, <2>2, SendKissTypes
  <2> QED BY <1>0, <2>2, <2>3 DEF Bounds, TypeOK, CrcRoom, rvars
<1>6. ASSUME NEW n \in 1..Len(otty), SendTty(n) PROVE Bounds'
  <2>1. /\ wire' = wire \o SubSeq(otty, 1, n) /\ otty' = SubSeq(otty, n + 1, Len(otty)) /\ retries' = 0
        /\ UNCHANGED <<param_tbl, phase, next_param, sent, gaveup, noise, rvars>>
    BY <1>6 DEF SendTty
  <2>2. otty \in Seq(Byte) /\ wire \in Seq(Byte) /\ Len(otty) <= MAX_FRAME
    BY <1>0 DEF TypeOK
  <2>3. SubSeq(otty, 1, n) \in Seq(Byte) /\ otty' \in Seq(Byte) /\ Len(otty') = Len(otty) - n
    BY <2>1, <2>2, SubSeqType
  <2>4. wire' \in Seq(Byte) /\ Len(otty') <= MAX_FRAME /\ retries' \in 0..SEND_RETRIES
    BY <2>1, <2>2, <2>3, KissConstants
  <2> QED BY <1>0, <2>1, <2>3, <2>4 DEF Bounds, TypeOK, CrcRoom, rvars
<1> QED BY <1>1, <1>2, <1>3, <1>4, <1>5, <1>6

\* The receiver, whatever has come.
LEMMA ReceiverBounds ==
  ASSUME Bounds, AssembleKiss \/ \E b \in Byte : Noise(b)
  PROVE  Bounds'
<1>0. TypeOK /\ CrcRoom
  BY DEF Bounds
<1>1. ASSUME NEW b \in Byte, Noise(b) PROVE Bounds'
  <2>1. wire' \in Seq(Byte) /\ noise' \in 0..MaxNoise /\ UNCHANGED <<svars, rvars>>
    BY <1>0, <1>1, KissConstants DEF TypeOK, Noise
  <2> QED BY <1>0, <2>1 DEF Bounds, TypeOK, CrcRoom, svars, rvars
<1>2. CASE AssembleKiss
  <2>1. wire # <<>> /\ wire' = Tail(wire) /\ UNCHANGED <<svars, noise>> /\ wire \in Seq(Byte)
    BY <1>0, <1>2 DEF AssembleKiss, TypeOK
  <2>2. Head(wire) \in Byte /\ wire' \in Seq(Byte)
    BY <2>1
  <2>3. /\ iframe \in Seq(Byte) /\ Len(iframe) <= MAX_FRAME /\ iescaped \in BOOLEAN
        /\ rcvd \in Seq(Seq(Byte)) /\ stats \in [kiss_in : Nat, kiss_toobig : Nat, kiss_badtype : Nat]
        /\ MAX_FRAME \in Nat /\ MAX_FRAME > 4 /\ Len(iframe) \in Nat
    BY <1>0, KissConstants DEF TypeOK
  <2>4. /\ iframe' \in Seq(Byte) /\ Len(iframe') <= MAX_FRAME /\ iescaped' \in BOOLEAN
        /\ rcvd' \in Seq(Seq(Byte)) /\ stats' \in [kiss_in : Nat, kiss_toobig : Nat, kiss_badtype : Nat]
        /\ CrcRoom'
    <3>1. CASE EndOfFrame
      <4>1. iframe' = <<>> /\ iescaped' = FALSE
        BY <3>1 DEF EndOfFrame
      <4>2. stats' \in [kiss_in : Nat, kiss_toobig : Nat, kiss_badtype : Nat]
        <5>1. \/ stats' = stats
              \/ stats' = [stats EXCEPT !.kiss_badtype = @ + 1]
              \/ stats' = [stats EXCEPT !.kiss_in = @ + 1]
              \/ stats' = [stats EXCEPT !.kiss_toobig = @ + 1]
          BY <3>1 DEF EndOfFrame
        <5>2. CASE stats' = stats
          BY <2>3, <5>2
        <5>3. CASE stats' = [stats EXCEPT !.kiss_badtype = @ + 1]
          <6>1. stats.kiss_badtype + 1 \in Nat
            BY <2>3
          <6> QED BY <2>3, <5>3, <6>1
        <5>4. CASE stats' = [stats EXCEPT !.kiss_in = @ + 1]
          <6>1. stats.kiss_in + 1 \in Nat
            BY <2>3
          <6> QED BY <2>3, <5>4, <6>1
        <5>5. CASE stats' = [stats EXCEPT !.kiss_toobig = @ + 1]
          <6>1. stats.kiss_toobig + 1 \in Nat
            BY <2>3
          <6> QED BY <2>3, <5>5, <6>1
        <5> QED BY <5>1, <5>2, <5>3, <5>4, <5>5
      <4>3. CASE rcvd' = rcvd
        <5>1. CrcRoom'
          BY <1>0, <4>3 DEF CrcRoom
        <5>2. <<>> \in Seq(Byte) /\ Len(<<>>) = 0
          OBVIOUS
        <5>3. iframe' \in Seq(Byte) /\ Len(iframe') <= MAX_FRAME
          BY <2>3, <4>1, <5>2
        <5> QED BY <2>3, <4>1, <4>2, <4>3, <5>1, <5>3
      <4>4. CASE ifcount # 0 /\ ifcount < MAX_FRAME - 2 /\ rcvd' = Append(rcvd, Tail(iframe))
        <5> DEFINE q == Tail(iframe)
        <5>1. q \in Seq(Byte) /\ Len(q) = Len(iframe) - 1 /\ Len(iframe) < MAX_FRAME - 2 /\ Len(q) \in Nat
          BY <2>3, <4>4 DEF ifcount
        <5>2. 1 + Len(q) + 2 <= MAX_FRAME
          BY <2>3, <5>1
        <5> HIDE DEF q
        <5>3. rcvd' = Append(rcvd, q) /\ Len(rcvd) \in Nat
          BY <2>3, <4>4 DEF q
        <5>4. rcvd' \in Seq(Seq(Byte)) /\ DOMAIN rcvd' = 1..Len(rcvd) + 1 /\ rcvd'[Len(rcvd) + 1] = q
              /\ \A k \in 1..Len(rcvd) : rcvd'[k] = rcvd[k]
          BY <2>3, <5>1, <5>3
        <5>5. CrcRoom'
          <6>1. ASSUME NEW k \in DOMAIN rcvd' PROVE 1 + Len(rcvd'[k]) + 2 <= MAX_FRAME
            <7>1. CASE k = Len(rcvd) + 1
              BY <5>2, <5>4, <7>1
            <7>2. CASE k # Len(rcvd) + 1
              <8>1. k \in 1..Len(rcvd) /\ k \in DOMAIN rcvd
                BY <2>3, <5>3, <5>4, <7>2
              <8> QED BY <1>0, <5>4, <8>1 DEF CrcRoom
            <7> QED BY <7>1, <7>2
          <6> QED BY <6>1 DEF CrcRoom
        <5>6. <<>> \in Seq(Byte) /\ Len(<<>>) = 0
          OBVIOUS
        <5>7. iframe' \in Seq(Byte) /\ Len(iframe') <= MAX_FRAME
          BY <2>3, <4>1, <5>6
        <5> QED BY <4>1, <4>2, <5>4, <5>5, <5>7
      <4> QED BY <3>1, <4>3, <4>4 DEF EndOfFrame
    <3>2. CASE Escape
      BY <1>0, <2>3, <3>2 DEF Escape, CrcRoom
    <3>3. CASE DataByte
      <4>1. Unescaped(Head(wire)) \in Byte
        BY <2>2 DEF Unescaped, Byte
      <4>2. iframe' = (IF Len(iframe) < MAX_FRAME THEN Append(iframe, Unescaped(Head(wire))) ELSE iframe)
            /\ iescaped' = FALSE /\ UNCHANGED <<rcvd, stats>>
        BY <3>3 DEF DataByte, ifcount
      <4>3. iframe' \in Seq(Byte) /\ Len(iframe') <= MAX_FRAME
        BY <2>3, <4>1, <4>2
      <4> QED BY <1>0, <2>3, <4>2, <4>3 DEF CrcRoom
    <3> QED BY <1>2, <3>1, <3>2, <3>3 DEF AssembleKiss
  <2> QED BY <1>0, <2>1, <2>2, <2>4 DEF Bounds, TypeOK, svars
<1> QED BY <1>1, <1>2

LEMMA NextBounds == Bounds /\ [Next]_vars => Bounds'
<1> SUFFICES ASSUME Bounds, [Next]_vars PROVE Bounds'
  OBVIOUS
<1>1. CASE Next
  BY <1>1, SenderBounds, ReceiverBounds DEF Next
<1>2. CASE UNCHANGED vars
  BY <1>2 DEF vars, svars, rvars, Bounds, TypeOK, CrcRoom
<1> QED BY <1>1, <1>2

\* kiss.c:99, process.c:362: for buffers of any size and whatever bytes come in,
\* oframe, iframe and the table of parameters are never left, and each frame
\* has room for the CRC that is appended in place.
THEOREM BuffersHold == Spec => [](TypeOK /\ CrcRoom)
<1>1. Spec => []Bounds
  BY InitBounds, NextBounds, PTL DEF Spec
<1>2. Bounds => TypeOK /\ CrcRoom
  BY DEF Bounds
<1> QED BY <1>1, <1>2, PTL


-----------------------------------------------------------------------------
(* Where the bytes on the line come from *)

\* How many bytes of frame k are given to send_tty.
EncLen(snt, k) == IF k = 0 THEN 0 ELSE Len(Cut(snt[k]))

\* A byte's origin: a frame and a place in it.  <<0, 0>>: before the first one.
Origins(snt) ==
  {o \in (0..Len(snt)) \X Nat : o[2] <= EncLen(snt, o[1]) /\ (o[1] # 0 => o[2] # 0)}

\* p comes after o: the next byte of the frame, or the first of a later one.
\* When no frame was given up, the next frame begins where the last one ends.
SameFrame(o, p) == p[1] = o[1] /\ p[2] = o[2] + 1
LaterFrame(snt, gave, o, p) ==
  o[1] < p[1] /\ p[2] = 1 /\ (gave = 0 => p[1] = o[1] + 1 /\ o[2] = EncLen(snt, o[1]))
Follows(snt, gave, o, p) == SameFrame(o, p) \/ LaterFrame(snt, gave, o, p)

\* p[i] is the origin of byte i on the line, p[0] of the last one that was read.
Trail(snt, gave, w, p) ==
  /\ p \in [0..Len(w) -> Origins(snt)]
  /\ \A i \in 1..Len(w) : Follows(snt, gave, p[i - 1], p[i]) /\ w[i] = Full(snt[p[i][1]])[p[i][2]]

\* What send_tty has not written follows o, the last byte it wrote.
Rest(snt, gave, ot, o) ==
  IF ot = <<>>
    THEN gave = 0 => o[1] = Len(snt) /\ o[2] = EncLen(snt, Len(snt))
    ELSE /\ Len(snt) # 0
         /\ \E q \in Nat : /\ q + Len(ot) = EncLen(snt, Len(snt))
                           /\ Follows(snt, gave, o, <<Len(snt), q + 1>>)
                           /\ \A i \in 1..Len(ot) : ot[i] = Full(snt[Len(snt)])[q + i]

\* What the receiver has of the frame it is in.
Has(snt, o, frame, esc) ==
  IF o[1] = 0 THEN frame = <<>> ELSE Reads(snt[o[1]], o[2], frame, esc)

\* The receiver is past the end of frame k.
Done(snt, o, k) == k < o[1] \/ (k = o[1] /\ o[2] = Len(Full(snt[k])))

\* What has been handed to from_kiss; at[j] is the frame that message j is of.
Got(snt, gave, r, o, at) ==
  /\ at \in [1..Len(r) -> 1..Len(snt)]
  /\ \A i, j \in 1..Len(r) : i < j => at[i] < at[j]
  /\ \A j \in 1..Len(r) : /\ ControlOk(snt[at[j]][1]) /\ Done(snt, o, at[j])
                          /\ IsPrefixOf(r[j], snt[at[j]][2])
                          /\ gave = 0 /\ Fits(snt[at[j]]) => r[j] = snt[at[j]][2]
  /\ gave = 0 => \A k \in 1..Len(snt) :
       ControlOk(snt[k][1]) /\ Fits(snt[k]) /\ Done(snt, o, k) => \E j \in 1..Len(r) : at[j] = k

Whole(gave, ot, w, frame, esc, snt, r) ==
  \E p, at : /\ Trail(snt, gave, w, p) /\ Rest(snt, gave, ot, p[Len(w)])
             /\ Has(snt, p[0], frame, esc) /\ Got(snt, gave, r, p[0], at)

LEMMA EncLenIs ==
  ASSUME NEW snt \in Seq(Messages), NEW k \in 0..Len(snt)
  PROVE  /\ EncLen(snt, k) \in Nat
         /\ k # 0 => /\ snt[k] \in Messages /\ Len(Full(snt[k])) \in Nat
                     /\ EncLen(snt, k) \in 1..MAX_FRAME /\ EncLen(snt, k) <= Len(Full(snt[k]))
                     /\ Len(Full(snt[k])) <= MAX_FRAME => EncLen(snt, k) = Len(Full(snt[k]))
                     /\ Full(snt[k])[1] = "FEND" /\ Full(snt[k])[Len(Full(snt[k]))] = "FEND"
                     /\ Len(Full(snt[k])) > 1
<1>1. CASE k = 0
  BY <1>1 DEF EncLen
<1>2. CASE k # 0
  <2>1. snt[k] \in Messages /\ EncLen(snt, k) = Len(Cut(snt[k]))
    BY <1>2 DEF EncLen
  <2> DEFINE s == snt[k]
  <2>2. s \in Messages
    BY <2>1
  <2> HIDE DEF s
  <2>3. PICK e : Layout(Full(s), Content(s), e)
    BY <2>2, FrameLayout DEF Messages
  <2>4. e[0] = 1 /\ Content(s) \in Seq(Byte) /\ Full(s) \in Seq(Byte) /\ \A i \in 0..Len(Content(s)) : e[i] < Len(Full(s))
    BY <2>3 DEF Layout
  <2>5. 0 \in 0..Len(Content(s)) /\ Len(Full(s)) \in Nat
    BY <2>4
  <2>6. Len(Full(s)) > 1
    BY <2>4, <2>5
  <2>7. MAX_FRAME \in Nat
    BY KissConstants
  <2> QED BY <1>2, <2>1, <2>2, <2>5, <2>6, <2>7, CutIs DEF s
<1> QED BY <1>1, <1>2

LEMMA OriginIs ==
  ASSUME NEW snt \in Seq(Messages), NEW o \in Origins(snt)
  PROVE  /\ o[1] \in 0..Len(snt) /\ o[1] \in Nat /\ o[2] \in Nat /\ o[2] <= EncLen(snt, o[1])
         /\ o[1] # 0 => o[2] # 0 /\ o[1] \in 1..Len(snt)
         /\ o[1] = 0 => o[2] = 0
<1>1. o[1] \in 0..Len(snt) /\ o[2] \in Nat /\ o[2] <= EncLen(snt, o[1]) /\ (o[1] # 0 => o[2] # 0)
  BY DEF Origins
<1>2. o[1] = 0 => o[2] = 0
  BY <1>1 DEF EncLen
<1> QED BY <1>1, <1>2

\* One more frame does not change what is known of the others.
LEMMA AppendKeeps ==
  ASSUME NEW snt \in Seq(Messages), NEW s \in Messages, NEW new, new = Append(snt, s)
  PROVE  /\ new \in Seq(Messages) /\ Len(new) = Len(snt) + 1 /\ new[Len(new)] = s
         /\ \A k \in 1..Len(snt) : new[k] = snt[k]
         /\ \A k \in 0..Len(snt) : EncLen(new, k) = EncLen(snt, k)
         /\ Origins(snt) \subseteq Origins(new)
         /\ \A gave, o, p : o \in Origins(snt) => (Follows(snt, gave, o, p) <=> Follows(new, gave, o, p))
<1>1. new \in Seq(Messages) /\ Len(new) = Len(snt) + 1 /\ new[Len(new)] = s /\ Len(snt) \in Nat
      /\ \A k \in 1..Len(snt) : new[k] = snt[k]
  OBVIOUS
<1>2. ASSUME NEW k \in 0..Len(snt) PROVE EncLen(new, k) = EncLen(snt, k)
  <2>1. k # 0 => k \in 1..Len(snt)
    BY <1>1
  <2> QED BY <1>1, <2>1 DEF EncLen
<1>3. ASSUME NEW o \in Origins(snt) PROVE o \in Origins(new)
  <2>1. o \in (0..Len(snt)) \X Nat /\ o[2] <= EncLen(snt, o[1]) /\ (o[1] # 0 => o[2] # 0)
    BY DEF Origins
  <2>2. o \in (0..Len(new)) \X Nat /\ o[1] \in 0..Len(snt)
    BY <1>1, <2>1
  <2> QED BY <1>2, <2>1, <2>2 DEF Origins
<1>4. ASSUME NEW gave, NEW o, NEW p, o \in Origins(snt)
      PROVE  Follows(snt, gave, o, p) <=> Follows(new, gave, o, p)
  <2>1. o[1] \in 0..Len(snt)
    BY <1>4, OriginIs
  <2> QED BY <1>2, <2>1 DEF Follows, SameFrame, LaterFrame
<1> QED BY <1>1, <1>2, <1>3, <1>4

\* send_kiss puts a frame in oframe.
LEMMA WholeSend ==
  ASSUME NEW snt \in Seq(Messages), NEW s \in Messages, NEW gave, NEW w \in Seq(Byte), NEW frame, NEW esc,
         NEW r, Whole(gave, <<>>, w, frame, esc, snt, r)
  PROVE  Whole(gave, Cut(s), w, frame, esc, Append(snt, s), r)
<1> DEFINE new == Append(snt, s)
           m == Len(snt)
<1>1. PICK p, at : /\ Trail(snt, gave, w, p) /\ Rest(snt, gave, <<>>, p[Len(w)])
                   /\ Has(snt, p[0], frame, esc) /\ Got(snt, gave, r, p[0], at)
  BY DEF Whole
<1>2. /\ new \in Seq(Messages) /\ Len(new) = m + 1 /\ new[m + 1] = s /\ \A k \in 1..m : new[k] = snt[k]
      /\ \A k \in 0..m : EncLen(new, k) = EncLen(snt, k)
      /\ Origins(snt) \subseteq Origins(new)
      /\ \A o, q : o \in Origins(snt) => (Follows(snt, gave, o, q) <=> Follows(new, gave, o, q))
  <2> HIDE DEF new
  <2>1. new = Append(snt, s)
    BY DEF new
  <2>2. Len(new) = m + 1
    BY <2>1
  <2>3. new \in Seq(Messages) /\ new[Len(new)] = s /\ \A k \in 1..m : new[k] = snt[k]
    BY <2>1, AppendKeeps
  <2>4. (\A k \in 0..m : EncLen(new, k) = EncLen(snt, k)) /\ Origins(snt) \subseteq Origins(new)
    BY <2>1, AppendKeeps
  <2>5. \A o, q : o \in Origins(snt) => (Follows(snt, gave, o, q) <=> Follows(new, gave, o, q))
    BY <2>1, AppendKeeps
  <2> QED BY <2>2, <2>3, <2>4, <2>5
<1> HIDE DEF new
<1>3. m \in Nat /\ Len(w) \in Nat /\ 0 \in 0..Len(w) /\ Len(w) \in 0..Len(w)
  OBVIOUS
<1> HIDE DEF m
<1>4. p \in [0..Len(w) -> Origins(snt)]
      /\ \A i \in 1..Len(w) : Follows(snt, gave, p[i - 1], p[i]) /\ w[i] = Full(snt[p[i][1]])[p[i][2]]
  BY <1>1 DEF Trail
<1>5. \A o \in Origins(snt) : o[1] \in 0..m /\ (o[1] # 0 => o[1] \in 1..m /\ new[o[1]] = snt[o[1]]) /\ o[2] \in Nat
  BY <1>2, OriginIs DEF m
<1>6. Trail(new, gave, w, p)
  <2>1. p \in [0..Len(w) -> Origins(new)]
    BY <1>2, <1>4
  <2>2. ASSUME NEW i \in 1..Len(w)
        PROVE  Follows(new, gave, p[i - 1], p[i]) /\ w[i] = Full(new[p[i][1]])[p[i][2]]
    <3>1. i - 1 \in 0..Len(w) /\ i \in 0..Len(w)
      BY <1>3
    <3>2. p[i - 1] \in Origins(snt) /\ p[i] \in Origins(snt)
      BY <1>4, <3>1
    <3>3. Follows(snt, gave, p[i - 1], p[i]) /\ w[i] = Full(snt[p[i][1]])[p[i][2]]
      BY <1>4
    <3>4. p[i][1] # 0
      <4>1. CASE p[i - 1][1] < p[i][1]
        BY <1>5, <3>2, <4>1
      <4>2. CASE p[i][1] = p[i - 1][1] /\ p[i][2] = p[i - 1][2] + 1
        <5>1. p[i - 1][2] \in Nat /\ (p[i][1] = 0 => p[i][2] = 0)
          BY <3>2, OriginIs
        <5> QED BY <4>2, <5>1
      <4> QED BY <3>3, <4>1, <4>2 DEF Follows, SameFrame, LaterFrame
    <3>5. new[p[i][1]] = snt[p[i][1]]
      BY <1>5, <3>2, <3>4
    <3> QED BY <1>2, <3>2, <3>3, <3>5
  <2> QED BY <2>1, <2>2 DEF Trail
<1>7. Rest(new, gave, Cut(s), p[Len(w)])
  <2> DEFINE o == p[Len(w)]
             x == Cut(s)
  <2>1. o \in Origins(snt) /\ (gave = 0 => o[1] = m /\ o[2] = EncLen(snt, m))
    BY <1>1, <1>3, <1>4 DEF Rest, m
  <2> HIDE DEF o, x
  <2>2. Len(x) \in 1..MAX_FRAME /\ x \in Seq(Byte) /\ \A i \in 1..Len(x) : x[i] = Full(s)[i]
    BY CutIs DEF x
  <2>3. x # <<>> /\ Len(new) # 0
    BY <1>2, <1>3, <2>2
  <2>4. EncLen(new, m + 1) = Len(x)
    <3>1. m + 1 # 0
      BY <1>3
    <3> QED BY <1>2, <3>1 DEF EncLen, x
  <2>5. Follows(new, gave, o, <<m + 1, 1>>)
    <3>1. o[1] < m + 1
      BY <1>3, <1>5, <2>1
    <3>2. gave = 0 => m + 1 = o[1] + 1 /\ o[2] = EncLen(new, o[1])
      <4>1. m \in 0..m
        BY <1>3
      <4> QED BY <1>2, <2>1, <4>1
    <3> QED BY <3>1, <3>2 DEF Follows, SameFrame, LaterFrame
  <2> DEFINE q == 0
  <2>6. q \in Nat /\ q + Len(x) = EncLen(new, m + 1) /\ q + 1 = 1
    BY <2>2, <2>4
  <2>7. \A i \in 1..Len(x) : x[i] = Full(new[m + 1])[q + i]
    BY <1>2, <2>2
  <2> HIDE DEF q
  <2>8. Rest(new, gave, x, o)
    BY <1>2, <2>3, <2>5, <2>6, <2>7 DEF Rest
  <2> QED BY <2>8 DEF o, x
<1>8. p[0] \in Origins(snt)
  BY <1>3, <1>4
<1>9. Has(new, p[0], frame, esc)
  BY <1>1, <1>5, <1>8 DEF Has
<1>10. Got(new, gave, r, p[0], at)
  <2> DEFINE o == p[0]
             J == 1..Len(r)
  <2>1. o \in Origins(snt)
    BY <1>8
  <2>2. /\ at \in [J -> 1..m] /\ \A i, j \in J : i < j => at[i] < at[j]
        /\ \A j \in J : /\ ControlOk(snt[at[j]][1]) /\ Done(snt, o, at[j])
                        /\ IsPrefixOf(r[j], snt[at[j]][2])
                        /\ gave = 0 /\ Fits(snt[at[j]]) => r[j] = snt[at[j]][2]
        /\ gave = 0 => \A k \in 1..m :
             ControlOk(snt[k][1]) /\ Fits(snt[k]) /\ Done(snt, o, k) => \E j \in J : at[j] = k
    BY <1>1 DEF Got, m
  <2> HIDE DEF o, J
  <2>3. \A k \in 1..m : Done(snt, o, k) <=> Done(new, o, k)
    BY <1>2 DEF Done
  <2>4. ~Done(new, o, m + 1)
    BY <1>3, <1>5, <2>1 DEF Done
  <2>5. at \in [J -> 1..m + 1]
    <3>1. 1..m \subseteq 1..m + 1
      BY <1>3
    <3> QED BY <2>2, <3>1
  <2>6. ASSUME NEW j \in J
        PROVE  /\ ControlOk(new[at[j]][1]) /\ Done(new, o, at[j])
               /\ IsPrefixOf(r[j], new[at[j]][2])
               /\ gave = 0 /\ Fits(new[at[j]]) => r[j] = new[at[j]][2]
    <3>1. at[j] \in 1..m
      BY <2>2
    <3>2. new[at[j]] = snt[at[j]]
      BY <1>2, <3>1
    <3> QED BY <2>2, <2>3, <3>1, <3>2
  <2>7. ASSUME gave = 0, NEW k \in 1..m + 1, ControlOk(new[k][1]), Fits(new[k]), Done(new, o, k)
        PROVE  \E j \in J : at[j] = k
    <3>1. k \in 1..m
      BY <1>3, <2>4, <2>7
    <3> QED BY <1>2, <2>2, <2>3, <2>7, <3>1
  <2> QED BY <1>2, <2>2, <2>5, <2>6, <2>7 DEF Got, o, J
<1>11. Whole(gave, Cut(s), w, frame, esc, new, r)
  BY <1>6, <1>7, <1>9, <1>10, <1>2 DEF Whole
<1> QED BY <1>11 DEF new

\* send_tty gives a frame up.
LEMMA WholeGiveUp ==
  ASSUME NEW gave, NEW up, up # 0, NEW ot, NEW w, NEW frame, NEW esc, NEW snt, NEW r,
         Whole(gave, ot, w, frame, esc, snt, r)
  PROVE  Whole(up, <<>>, w, frame, esc, snt, r)
<1>1. PICK p, at : /\ Trail(snt, gave, w, p) /\ Rest(snt, gave, ot, p[Len(w)])
                   /\ Has(snt, p[0], frame, esc) /\ Got(snt, gave, r, p[0], at)
  BY DEF Whole
<1>2. \A o, q : Follows(snt, gave, o, q) => Follows(snt, up, o, q)
  BY DEF Follows, SameFrame, LaterFrame
<1>3. Trail(snt, up, w, p)
  BY <1>1, <1>2, Zenon DEF Trail
<1>4. Rest(snt, up, <<>>, p[Len(w)])
  BY DEF Rest
<1>5. Got(snt, up, r, p[0], at)
  BY <1>1, Zenon DEF Got
<1> QED BY <1>1, <1>3, <1>4, <1>5 DEF Whole

\* write() takes n of the bytes that send_tty has left.
LEMMA WholeTty ==
  ASSUME NEW snt \in Seq(Messages), NEW gave, NEW ot \in Seq(Byte), NEW w \in Seq(Byte),
         NEW frame, NEW esc, NEW r, NEW n \in 1..Len(ot), Whole(gave, ot, w, frame, esc, snt, r)
  PROVE  Whole(gave, SubSeq(ot, n + 1, Len(ot)), w \o SubSeq(ot, 1, n), frame, esc, snt, r)
<1> DEFINE L == Len(w)
           m == Len(snt)
           a == SubSeq(ot, 1, n)
           b == SubSeq(ot, n + 1, Len(ot))
           v == w \o a
<1>1. PICK p, at : /\ Trail(snt, gave, w, p) /\ Rest(snt, gave, ot, p[L])
                   /\ Has(snt, p[0], frame, esc) /\ Got(snt, gave, r, p[0], at)
  BY DEF Whole
<1>2. L \in Nat /\ m \in Nat /\ n \in Nat /\ n >= 1 /\ ot # <<>> /\ Len(ot) \in Nat /\ n <= Len(ot)
  OBVIOUS
<1>3. /\ a \in Seq(Byte) /\ Len(a) = n /\ \A i \in 1..n : a[i] = ot[i]
      /\ b \in Seq(Byte) /\ Len(b) = Len(ot) - n /\ \A i \in 1..Len(ot) - n : b[i] = ot[n + i]
  BY SubSeqType
<1> HIDE DEF a, b
<1>4. Len(v) = L + n /\ (\A i \in 1..L : v[i] = w[i]) /\ \A i \in 1..n : v[L + i] = ot[i]
  BY <1>3
<1> HIDE DEF v, L
<1>5. PICK q \in Nat : /\ q + Len(ot) = EncLen(snt, m) /\ Follows(snt, gave, p[L], <<m, q + 1>>)
                       /\ \A i \in 1..Len(ot) : ot[i] = Full(snt[m])[q + i]
  BY <1>1, <1>2 DEF Rest
<1>6. m # 0 /\ m \in 0..m
  BY <1>1, <1>2 DEF Rest
<1> HIDE DEF m
<1>7. p \in [0..L -> Origins(snt)]
      /\ \A i \in 1..L : Follows(snt, gave, p[i - 1], p[i]) /\ w[i] = Full(snt[p[i][1]])[p[i][2]]
  BY <1>1 DEF Trail, L
<1> DEFINE x(j) == <<m, q + j>>
           d == [i \in 0..L + n |-> IF i <= L THEN p[i] ELSE x(i - L)]
<1>8. \A j \in 1..Len(ot) : x(j) \in Origins(snt)
  <2>1. ASSUME NEW j \in 1..Len(ot) PROVE x(j) \in Origins(snt)
    <3>1. q + j \in Nat /\ q + j <= EncLen(snt, m) /\ q + j # 0
      BY <1>5
    <3>2. x(j) \in (0..Len(snt)) \X Nat /\ x(j)[1] = m /\ x(j)[2] = q + j
      BY <1>6, <3>1 DEF m
    <3> QED BY <3>1, <3>2 DEF Origins
  <2> QED BY <2>1
<1>9. \A j \in Nat : x(j)[1] = m /\ x(j)[2] = q + j
  OBVIOUS
<1> HIDE DEF x
<1>10. (\A i \in 0..L : d[i] = p[i]) /\ \A j \in 1..n : d[L + j] = x(j)
  <2>1. ASSUME NEW i \in 0..L PROVE d[i] = p[i]
    BY <1>2
  <2>2. ASSUME NEW j \in 1..n PROVE d[L + j] = x(j)
    <3>1. L + j \in 0..L + n /\ ~(L + j <= L) /\ (L + j) - L = j
      BY <1>2
    <3> QED BY <3>1
  <2> QED BY <2>1, <2>2
<1>11. d \in [0..L + n -> Origins(snt)]
  <2>1. ASSUME NEW i \in 0..L + n PROVE (IF i <= L THEN p[i] ELSE x(i - L)) \in Origins(snt)
    <3>1. CASE i <= L
      BY <1>2, <1>7, <3>1
    <3>2. CASE ~(i <= L)
      <4>1. i - L \in 1..Len(ot)
        BY <1>2, <3>2
      <4> QED BY <1>8, <3>2, <4>1
    <3> QED BY <3>1, <3>2
  <2> QED BY <2>1
<1> HIDE DEF d
<1>12. ASSUME NEW j \in 1..n
       PROVE  /\ Follows(snt, gave, d[(L + j) - 1], d[L + j])
              /\ v[L + j] = Full(snt[d[L + j][1]])[d[L + j][2]]
  <2>1. d[L + j] = x(j) /\ x(j)[1] = m /\ x(j)[2] = q + j
    <3>1. j \in Nat
      BY <1>2
    <3> QED BY <1>9, <1>10, <3>1
  <2>2. v[L + j] = Full(snt[m])[q + j]
    <3>1. j \in 1..Len(ot) /\ v[L + j] = ot[j]
      BY <1>2, <1>4
    <3> QED BY <1>5, <3>1
  <2>3. CASE j = 1
    <3>1. (L + j) - 1 = L /\ L \in 0..L
      BY <1>2, <2>3
    <3>2. d[(L + j) - 1] = p[L]
      BY <1>10, <3>1
    <3>3. x(j) = <<m, q + 1>>
      BY <2>3 DEF x
    <3> QED BY <1>5, <2>1, <2>2, <3>2, <3>3
  <2>4. CASE j # 1
    <3>1. j - 1 \in 1..n /\ j - 1 \in Nat /\ (L + j) - 1 = L + (j - 1) /\ q + j = (q + (j - 1)) + 1
      BY <1>2, <2>4
    <3>2. d[L + (j - 1)] = x(j - 1) /\ x(j - 1)[1] = m /\ x(j - 1)[2] = q + (j - 1)
      BY <1>9, <1>10, <3>1
    <3>3. Follows(snt, gave, x(j - 1), x(j))
      BY <2>1, <3>1, <3>2 DEF Follows, SameFrame, LaterFrame
    <3> QED BY <2>1, <2>2, <3>1, <3>2, <3>3
  <2> QED BY <2>3, <2>4
<1>13. Trail(snt, gave, v, d)
  <2>1. ASSUME NEW i \in 1..L + n
        PROVE  Follows(snt, gave, d[i - 1], d[i]) /\ v[i] = Full(snt[d[i][1]])[d[i][2]]
    <3>1. CASE i <= L
      <4>1. i \in 1..L /\ i \in 0..L /\ i - 1 \in 0..L
        BY <1>2, <3>1
      <4>2. d[i] = p[i] /\ d[i - 1] = p[i - 1] /\ v[i] = w[i]
        BY <1>4, <1>10, <4>1
      <4> QED BY <1>7, <4>1, <4>2
    <3>2. CASE ~(i <= L)
      <4>1. i - L \in 1..n /\ L + (i - L) = i
        BY <1>2, <3>2
      <4> DEFINE j == i - L
      <4>2. j \in 1..n /\ L + j = i
        BY <4>1
      <4> HIDE DEF j
      <4> QED BY <1>12, <4>2
    <3> QED BY <3>1, <3>2
  <2> QED BY <1>4, <1>11, <2>1 DEF Trail
<1>14. Rest(snt, gave, b, d[Len(v)])
  <2>1. n \in 1..n /\ d[Len(v)] = x(n) /\ x(n)[1] = m /\ x(n)[2] = q + n
    BY <1>2, <1>4, <1>9, <1>10
  <2>2. CASE n = Len(ot)
    <3>1. b = <<>>
      BY <1>2, <1>3, <2>2
    <3>2. q + n = EncLen(snt, m)
      BY <1>5, <2>2
    <3> QED BY <2>1, <3>1, <3>2 DEF Rest, m
  <2>3. CASE n # Len(ot)
    <3>1. b # <<>>
      BY <1>2, <1>3, <2>3
    <3> DEFINE k == q + n
    <3>2. k \in Nat /\ k + Len(b) = EncLen(snt, m)
      BY <1>2, <1>3, <1>5
    <3>3. Follows(snt, gave, x(n), <<m, k + 1>>)
      BY <2>1 DEF Follows, SameFrame, LaterFrame
    <3>4. ASSUME NEW i \in 1..Len(b) PROVE b[i] = Full(snt[m])[k + i]
      <4>1. n + i \in 1..Len(ot) /\ q + (n + i) = k + i /\ i \in 1..Len(ot) - n
        BY <1>2, <1>3
      <4>2. b[i] = ot[n + i] /\ ot[n + i] = Full(snt[m])[q + (n + i)]
        BY <1>3, <1>5, <4>1
      <4> QED BY <4>1, <4>2
    <3> HIDE DEF k
    <3> QED BY <1>6, <2>1, <3>1, <3>2, <3>3, <3>4 DEF Rest, m
  <2> QED BY <2>2, <2>3
<1>15. d[0] = p[0]
  BY <1>2, <1>10
<1>16. Whole(gave, b, v, frame, esc, snt, r)
  BY <1>1, <1>13, <1>14, <1>15 DEF Whole
<1> QED BY <1>16 DEF a, b, v

-----------------------------------------------------------------------------
(* The receiver takes a byte *)

\* What assemble_kiss makes of the byte c.
Taken(c, frame, esc, r, frame2, esc2, r2) ==
  \/ /\ c = "FEND" /\ frame2 = <<>> /\ esc2 = FALSE
     /\ r2 = IF frame # <<>> /\ ControlOk(frame[1]) /\ Len(frame) < MAX_FRAME - 2
               THEN Append(r, Tail(frame)) ELSE r
  \/ c = "FESC" /\ frame2 = frame /\ esc2 = TRUE /\ r2 = r
  \/ /\ c \notin {"FEND", "FESC"} /\ esc2 = FALSE /\ r2 = r
     /\ frame2 = IF Len(frame) < MAX_FRAME THEN Append(frame, Plain(esc, c)) ELSE frame

\* The receiver goes on from o to n without an end of frame that matters.
LEMMA GotSame ==
  ASSUME NEW snt, NEW gave, NEW r, NEW o, NEW n, NEW at, Got(snt, gave, r, o, at),
         \A k \in 1..Len(snt) : Done(snt, o, k) => Done(snt, n, k),
         gave = 0 => \A k \in 1..Len(snt) :
           ControlOk(snt[k][1]) /\ Fits(snt[k]) /\ Done(snt, n, k) => Done(snt, o, k)
  PROVE  Got(snt, gave, r, n, at)
<1>1. \A j \in 1..Len(r) : at[j] \in 1..Len(snt)
  BY DEF Got
<1> QED BY <1>1, Zenon DEF Got

\* It hands x, of the frame it is in, to from_kiss.
LEMMA GotMore ==
  ASSUME NEW snt \in Seq(Messages), NEW gave, NEW r \in Seq(Seq(Byte)), NEW o \in Origins(snt), NEW n, NEW at,
         Got(snt, gave, r, o, at), NEW x \in Seq(Byte), o[1] # 0,
         \A k \in 1..Len(snt) : Done(snt, o, k) => Done(snt, n, k),
         ~Done(snt, o, o[1]), Done(snt, n, o[1]), ControlOk(snt[o[1]][1]), IsPrefixOf(x, snt[o[1]][2]),
         gave = 0 /\ Fits(snt[o[1]]) => x = snt[o[1]][2],
         gave = 0 => \A k \in 1..Len(snt) :
           ControlOk(snt[k][1]) /\ Fits(snt[k]) /\ Done(snt, n, k) => Done(snt, o, k) \/ k = o[1]
  PROVE  \E at2 : Got(snt, gave, Append(r, x), n, at2)
<1> DEFINE J == 1..Len(r)
           l == Len(r) + 1
           r2 == Append(r, x)
           h == o[1]
           at2 == [j \in 1..l |-> IF j = l THEN h ELSE at[j]]
<1>1. Len(r) \in Nat /\ Len(r2) = l /\ r2[l] = x /\ \A j \in J : r2[j] = r[j]
  OBVIOUS
<1>2. h \in 1..Len(snt) /\ h \in Nat
  BY OriginIs
<1> HIDE DEF r2, h
<1>3. /\ at \in [J -> 1..Len(snt)] /\ \A i, j \in J : i < j => at[i] < at[j]
      /\ \A j \in J : /\ ControlOk(snt[at[j]][1]) /\ Done(snt, o, at[j])
                      /\ IsPrefixOf(r[j], snt[at[j]][2])
                      /\ gave = 0 /\ Fits(snt[at[j]]) => r[j] = snt[at[j]][2]
      /\ gave = 0 => \A k \in 1..Len(snt) :
           ControlOk(snt[k][1]) /\ Fits(snt[k]) /\ Done(snt, o, k) => \E j \in J : at[j] = k
  BY DEF Got
<1>4. ASSUME NEW j \in 1..l PROVE j \in J \/ j = l
  BY <1>1
<1>5. l \in 1..l /\ ~(l \in J) /\ \A j \in J : j \in 1..l
  BY <1>1
<1>6. at2 \in [1..l -> 1..Len(snt)] /\ at2[l] = h /\ \A j \in J : at2[j] = at[j]
  BY <1>2, <1>3, <1>4, <1>5
<1> HIDE DEF at2
<1>7. \A j \in J : at[j] < h
  <2>1. ASSUME NEW j \in J PROVE at[j] < h
    <3>1. at[j] \in 1..Len(snt) /\ Done(snt, o, at[j]) /\ ~Done(snt, o, h)
      BY <1>3 DEF h
    <3> QED BY <1>2, <3>1 DEF Done, h
  <2> QED BY <2>1
<1>8. ASSUME NEW i \in 1..l, NEW j \in 1..l, i < j PROVE at2[i] < at2[j]
  <2>1. CASE j = l
    <3>1. i \in J
      BY <1>1, <1>8, <2>1
    <3> QED BY <1>6, <1>7, <2>1, <3>1
  <2>2. CASE j # l
    <3>1. j \in J
      BY <1>4, <2>2
    <3>2. i \in J
      BY <1>1, <1>8, <3>1
    <3> QED BY <1>3, <1>6, <1>8, <3>1, <3>2
  <2> QED BY <2>1, <2>2
<1>9. ASSUME NEW j \in 1..l
      PROVE  /\ ControlOk(snt[at2[j]][1]) /\ Done(snt, n, at2[j])
             /\ IsPrefixOf(r2[j], snt[at2[j]][2])
             /\ gave = 0 /\ Fits(snt[at2[j]]) => r2[j] = snt[at2[j]][2]
  <2>1. CASE j = l
    BY <1>1, <1>6, <2>1 DEF h
  <2>2. CASE j \in J
    <3>1. at2[j] = at[j] /\ at[j] \in 1..Len(snt) /\ r2[j] = r[j]
      BY <1>1, <1>3, <1>6, <2>2
    <3> QED BY <1>3, <2>2, <3>1
  <2> QED BY <1>4, <2>1, <2>2
<1>10. ASSUME gave = 0, NEW k \in 1..Len(snt), ControlOk(snt[k][1]), Fits(snt[k]), Done(snt, n, k)
       PROVE  \E j \in 1..l : at2[j] = k
  <2>1. CASE k = h
    BY <1>5, <1>6, <2>1
  <2>2. CASE Done(snt, o, k)
    <3>1. PICK j \in J : at[j] = k
      BY <1>3, <1>10, <2>2
    <3> QED BY <1>5, <1>6, <3>1
  <2> QED BY <1>10, <2>1, <2>2 DEF h
<1>11. Got(snt, gave, r2, n, at2)
  BY <1>1, <1>6, <1>8, <1>9, <1>10 DEF Got
<1> QED BY <1>11 DEF r2

LEMMA ContentIs ==
  ASSUME NEW s \in Messages
  PROVE  /\ Content(s) # <<>> /\ Content(s)[1] = s[1] /\ Tail(Content(s)) = s[2]
         /\ Len(Content(s)) = 1 + Len(s[2]) /\ s[2] \in Seq(Byte)
         /\ Len(s[2]) \in Nat /\ IsPrefixOf(s[2], s[2])
<1> DEFINE t == s[1]
           f == s[2]
           g == <<t>> \o f
<1>1. t \in Byte /\ f \in Seq(Byte) /\ Len(f) \in Nat
  BY DEF Messages
<1> HIDE DEF t, f
<1>2. g \in Seq(Byte) /\ Len(g) = 1 + Len(f) /\ g[1] = t /\ \A i \in 1..Len(f) : g[i + 1] = f[i]
  BY <1>1
<1> HIDE DEF g
<1>3. g # <<>>
  BY <1>1, <1>2
<1>4. Tail(g) \in Seq(Byte) /\ Len(Tail(g)) = Len(f) /\ \A i \in 1..Len(f) : Tail(g)[i] = f[i]
  BY <1>1, <1>2, <1>3
<1>5. Tail(g) = f
  BY <1>1, <1>4, SeqEqual
<1>6. IsPrefixOf(f, f)
  BY <1>1 DEF IsPrefixOf
<1>7. Content(s) = g
  BY DEF Content, g, t, f
<1> QED BY <1>1, <1>2, <1>3, <1>5, <1>6, <1>7 DEF t, f

\* The receiver has got to o; the byte it takes is the one of origin n.
OneByte(snt, gave, r, o, n, at, frame, esc, frame2, esc2, r2) ==
  /\ snt \in Seq(Messages) /\ r \in Seq(Seq(Byte)) /\ o \in Origins(snt) /\ n \in Origins(snt)
  /\ Has(snt, o, frame, esc) /\ Got(snt, gave, r, o, at)
  /\ Taken(Full(snt[n[1]])[n[2]], frame, esc, r, frame2, esc2, r2)

\* The byte is the next one of the frame the receiver is in.
LEMMA TakenSame ==
  ASSUME NEW snt, NEW gave, NEW r, NEW o, NEW n, NEW at, NEW frame, NEW esc, NEW frame2, NEW esc2, NEW r2,
         OneByte(snt, gave, r, o, n, at, frame, esc, frame2, esc2, r2), SameFrame(o, n)
  PROVE  Has(snt, n, frame2, esc2) /\ \E at2 : Got(snt, gave, r2, n, at2)
<1> SUFFICES ASSUME snt \in Seq(Messages), r \in Seq(Seq(Byte)), o \in Origins(snt), n \in Origins(snt),
                    Has(snt, o, frame, esc), Got(snt, gave, r, o, at),
                    NEW c, c = Full(snt[n[1]])[n[2]], Taken(c, frame, esc, r, frame2, esc2, r2)
             PROVE  Has(snt, n, frame2, esc2) /\ \E at2 : Got(snt, gave, r2, n, at2)
  BY DEF OneByte
<1> DEFINE h == o[1]
           s == snt[h]
           pos == o[2]
           F == Full(s)
<1>0. n[1] = o[1] /\ n[2] = o[2] + 1
  BY DEF SameFrame
<1>1. h # 0
  <2>1. o[2] \in Nat /\ (h = 0 => n[2] = 0)
    BY <1>0, OriginIs
  <2> QED BY <1>0, <2>1
<1>2. /\ h \in 1..Len(snt) /\ h \in Nat /\ s \in Messages /\ pos \in Nat /\ Len(F) \in Nat
      /\ pos < Len(F) /\ pos < MAX_FRAME /\ MAX_FRAME \in Nat
      /\ F[Len(F)] = "FEND" /\ (Len(F) <= MAX_FRAME => EncLen(snt, h) = Len(F))
  <2>1. h \in 1..Len(snt) /\ h \in 0..Len(snt) /\ h \in Nat /\ pos \in Nat /\ n[2] <= EncLen(snt, h)
    BY <1>0, <1>1, OriginIs
  <2>2. /\ s \in Messages /\ Len(F) \in Nat /\ EncLen(snt, h) \in 1..MAX_FRAME
        /\ EncLen(snt, h) <= Len(F) /\ F[Len(F)] = "FEND" /\ (Len(F) <= MAX_FRAME => EncLen(snt, h) = Len(F))
    BY <1>1, <2>1, EncLenIs
  <2>3. MAX_FRAME \in Nat
    BY KissConstants
  <2> HIDE DEF h, s, pos, F
  <2>4. n[2] = pos + 1
    BY <1>0 DEF pos
  <2> QED BY <2>1, <2>2, <2>3, <2>4
<1>3. Reads(s, pos, frame, esc) /\ c = F[pos + 1]
  BY <1>0, <1>1 DEF Has
<1>4. Reads(s, pos + 1, frame2, esc2) => Has(snt, n, frame2, esc2)
  BY <1>0, <1>1 DEF Has
<1>5. n[1] = h /\ n[2] = pos + 1
  BY <1>0
<1>6. ASSUME NEW k \in 1..Len(snt)
      PROVE  (Done(snt, o, k) => k < h) /\ (k < h => Done(snt, o, k) /\ Done(snt, n, k))
             /\ (Done(snt, n, k) => k < h \/ (k = h /\ pos + 1 = Len(F)))
             /\ (k = h /\ pos + 1 = Len(F) => Done(snt, n, k))
  <2>1. Done(snt, o, k) <=> k < h \/ (k = h /\ pos = Len(Full(snt[k])))
    BY DEF Done
  <2>2. Done(snt, n, k) <=> k < h \/ (k = h /\ pos + 1 = Len(Full(snt[k])))
    BY <1>5 DEF Done
  <2>3. k = h => Len(Full(snt[k])) = Len(F)
    OBVIOUS
  <2> HIDE DEF h, pos, F
  <2> QED BY <1>2, <2>1, <2>2, <2>3
<1> HIDE DEF h, s, pos, F
<1>7. CASE c = "FEND" /\ pos + 1 = Len(F) /\ frame = Content(s) /\ Reads(s, pos + 1, <<>>, FALSE)
  <2>1. /\ frame # <<>> /\ frame[1] = s[1] /\ Tail(frame) = s[2] /\ Len(frame) = 1 + Len(s[2])
        /\ s[2] \in Seq(Byte) /\ Len(s[2]) \in Nat /\ IsPrefixOf(s[2], s[2])
    BY <1>2, <1>7, ContentIs
  <2>2. frame2 = <<>> /\ esc2 = FALSE /\ r2 = IF ControlOk(s[1]) /\ Len(frame) < MAX_FRAME - 2 THEN Append(r, s[2]) ELSE r
    BY <1>7, <2>1 DEF Taken
  <2>3. Has(snt, n, frame2, esc2)
    BY <1>4, <1>7, <2>2
  <2>4. CASE ControlOk(s[1]) /\ Len(frame) < MAX_FRAME - 2
    <3>1. r2 = Append(r, s[2])
      BY <2>2, <2>4
    <3>2. ~Done(snt, o, o[1]) /\ Done(snt, n, o[1])
      BY <1>2, <1>6, <1>7 DEF h
    <3>3. \A k \in 1..Len(snt) : Done(snt, n, k) => Done(snt, o, k) \/ k = o[1]
      BY <1>6 DEF h
    <3>4. \A k \in 1..Len(snt) : Done(snt, o, k) => Done(snt, n, k)
      BY <1>6
    <3>5. \E at2 : Got(snt, gave, Append(r, s[2]), n, at2)
      BY <1>1, <2>1, <2>4, <3>2, <3>3, <3>4, GotMore DEF h, s
    <3> QED BY <2>3, <3>1, <3>5
  <2>5. CASE ~(ControlOk(s[1]) /\ Len(frame) < MAX_FRAME - 2)
    <3>1. r2 = r
      BY <2>2, <2>5
    <3>2. \A k \in 1..Len(snt) : Done(snt, o, k) => Done(snt, n, k)
      BY <1>6
    <3>3. ASSUME NEW k \in 1..Len(snt), ControlOk(snt[k][1]), Fits(snt[k]), Done(snt, n, k)
          PROVE  Done(snt, o, k)
      <4>1. CASE k = h
        <5>1. ControlOk(s[1]) /\ 1 + Len(s[2]) < MAX_FRAME - 2
          BY <3>3, <4>1 DEF Fits, s
        <5> QED BY <2>1, <2>5, <5>1
      <4> QED BY <1>6, <3>3, <4>1
    <3>4. Got(snt, gave, r, n, at)
      BY <3>2, <3>3, GotSame
    <3> QED BY <2>3, <3>1, <3>4
  <2> QED BY <2>4, <2>5
<1>8. ASSUME c # "FEND", r2 = r, Reads(s, pos + 1, frame2, esc2)
      PROVE  Has(snt, n, frame2, esc2) /\ \E at2 : Got(snt, gave, r2, n, at2)
  <2>1. pos + 1 # Len(F)
    BY <1>2, <1>3, <1>8
  <2>2. \A k \in 1..Len(snt) : (Done(snt, o, k) => Done(snt, n, k)) /\ (Done(snt, n, k) => Done(snt, o, k))
    BY <1>6, <2>1
  <2>3. Got(snt, gave, r, n, at)
    BY <2>2, GotSame
  <2> QED BY <1>4, <1>8, <2>3
<1>9. CASE c = "FESC" /\ Reads(s, pos + 1, frame, TRUE)
  <2>1. c # "FEND" /\ frame2 = frame /\ esc2 = TRUE /\ r2 = r
    BY <1>9 DEF Taken
  <2> QED BY <1>8, <1>9, <2>1
<1>10. CASE /\ c \in Byte \ {"FEND", "FESC"} /\ Len(frame) < pos
            /\ Reads(s, pos + 1, Append(frame, Plain(esc, c)), FALSE)
  <2>1. Len(frame) < MAX_FRAME
    <3>1. Len(frame) \in Nat
      BY <1>2, <1>3, ReadsFrame
    <3> QED BY <1>2, <1>10, <3>1
  <2>2. c # "FEND" /\ frame2 = Append(frame, Plain(esc, c)) /\ esc2 = FALSE /\ r2 = r
    BY <1>10, <2>1 DEF Taken
  <2> QED BY <1>8, <1>10, <2>2
<1>11. \/ c = "FEND" /\ pos + 1 = Len(F) /\ frame = Content(s) /\ Reads(s, pos + 1, <<>>, FALSE)
       \/ c = "FESC" /\ Reads(s, pos + 1, frame, TRUE)
       \/ /\ c \in Byte \ {"FEND", "FESC"} /\ Len(frame) < pos
          /\ Reads(s, pos + 1, Append(frame, Plain(esc, c)), FALSE)
  BY <1>2, <1>3, ReadsNext DEF F
<1> QED BY <1>7, <1>9, <1>10, <1>11

\* The byte is the FEND that opens a later frame.
LEMMA TakenNew ==
  ASSUME NEW snt, NEW gave, NEW r, NEW o, NEW n, NEW at, NEW frame, NEW esc, NEW frame2, NEW esc2, NEW r2,
         OneByte(snt, gave, r, o, n, at, frame, esc, frame2, esc2, r2), LaterFrame(snt, gave, o, n)
  PROVE  Has(snt, n, frame2, esc2) /\ \E at2 : Got(snt, gave, r2, n, at2)
<1> SUFFICES ASSUME snt \in Seq(Messages), r \in Seq(Seq(Byte)), o \in Origins(snt), n \in Origins(snt),
                    Has(snt, o, frame, esc), Got(snt, gave, r, o, at),
                    NEW c, c = Full(snt[n[1]])[n[2]], Taken(c, frame, esc, r, frame2, esc2, r2)
             PROVE  Has(snt, n, frame2, esc2) /\ \E at2 : Got(snt, gave, r2, n, at2)
  BY DEF OneByte
<1> DEFINE h == o[1]
           s == snt[h]
           pos == o[2]
           x == Tail(frame)
<1>0. o[1] < n[1] /\ n[2] = 1 /\ (gave = 0 => n[1] = o[1] + 1 /\ o[2] = EncLen(snt, o[1]))
  BY DEF LaterFrame
<1>1. h \in Nat /\ h \in 0..Len(snt) /\ n[1] \in 1..Len(snt) /\ n[1] \in 0..Len(snt) /\ n[1] # 0 /\ n[1] \in Nat
  <2>1. h \in 0..Len(snt) /\ h \in Nat /\ n[1] \in 0..Len(snt) /\ n[1] \in Nat
    BY OriginIs
  <2> QED BY <1>0, <2>1
<1>2. snt[n[1]] \in Messages /\ Full(snt[n[1]])[1] = "FEND" /\ Len(Full(snt[n[1]])) > 1
  BY <1>1, EncLenIs
<1>3. /\ frame2 = <<>> /\ esc2 = FALSE
      /\ r2 = IF frame # <<>> /\ ControlOk(frame[1]) /\ Len(frame) < MAX_FRAME - 2 THEN Append(r, x) ELSE r
  BY <1>0, <1>2 DEF Taken
<1>4. Has(snt, n, frame2, esc2)
  BY <1>0, <1>1, <1>2, <1>3, ReadsStart DEF Has
<1>5. ASSUME NEW k \in 1..Len(snt)
      PROVE  (Done(snt, o, k) => Done(snt, n, k)) /\ (gave = 0 /\ Done(snt, n, k) => k < h \/ k = h)
             /\ (k < h => Done(snt, o, k)) /\ (k = h => Done(snt, n, k))
  <2>1. k = n[1] => n[2] # Len(Full(snt[k]))
    <3>1. 1 # Len(Full(snt[n[1]]))
      <4> DEFINE l == Len(Full(snt[n[1]]))
      <4>1. l \in Nat /\ l > 1
        BY <1>1, EncLenIs
      <4> HIDE DEF l
      <4>2. 1 # l
        BY <4>1
      <4> QED BY <4>2 DEF l
    <3> QED BY <1>0, <3>1
  <2> QED BY <1>0, <1>1, <2>1 DEF Done
<1>6. gave = 0 /\ h # 0 /\ Fits(s) => pos = Len(Full(s))
  <2>1. ASSUME gave = 0, h # 0, Fits(s) PROVE pos = Len(Full(s))
    <3>1. Len(Full(s)) <= MAX_FRAME
      BY <2>1 DEF Fits, Full
    <3>2. EncLen(snt, h) = Len(Full(s))
      BY <1>1, <2>1, <3>1, EncLenIs
    <3> QED BY <1>0, <2>1, <3>2
  <2> QED BY <2>1
<1>7. gave = 0 => \A k \in 1..Len(snt) : Fits(snt[k]) /\ Done(snt, n, k) => Done(snt, o, k)
  <2>1. ASSUME gave = 0, NEW k \in 1..Len(snt), Fits(snt[k]), Done(snt, n, k) PROVE Done(snt, o, k)
    <3>1. CASE k < h
      BY <1>5, <3>1
    <3>2. CASE k = h
      <4>1. pos = Len(Full(snt[k]))
        BY <1>6, <2>1, <3>2
      <4> QED BY <3>2, <4>1 DEF Done
    <3> QED BY <1>5, <2>1, <3>1, <3>2
  <2> QED BY <2>1
<1>8. CASE r2 = r
  <2>1. Got(snt, gave, r, n, at)
    BY <1>5, <1>7, GotSame
  <2> QED BY <1>4, <1>8, <2>1
<1>9. CASE frame # <<>> /\ ControlOk(frame[1]) /\ Len(frame) < MAX_FRAME - 2 /\ r2 = Append(r, x)
  <2>1. h # 0 /\ h \in 1..Len(snt)
    BY <1>1, <1>9 DEF Has
  <2>2. s \in Messages /\ Reads(s, pos, frame, esc)
    BY <2>1 DEF Has
  <2> HIDE DEF s, pos
  <2>3. pos # Len(Full(s)) /\ frame[1] = s[1] /\ x \in Seq(Byte) /\ IsPrefixOf(x, s[2])
    BY <1>9, <2>2, ReadsFrame
  <2>4. ~Done(snt, o, h)
    BY <1>1, <2>3 DEF Done, s, pos
  <2>5. Done(snt, n, h)
    BY <1>5, <2>1
  <2>6. ~(gave = 0 /\ Fits(s))
    BY <1>6, <2>1, <2>3
  <2> HIDE DEF x
  <2>7. \E at2 : Got(snt, gave, Append(r, x), n, at2)
    BY <1>5, <1>7, <1>9, <2>1, <2>3, <2>4, <2>5, <2>6, GotMore DEF s
  <2> QED BY <1>4, <1>9, <2>7
<1> QED BY <1>3, <1>8, <1>9

\* The receiver takes the first byte on the line.
LEMMA WholeTaken ==
  ASSUME NEW snt \in Seq(Messages), NEW gave, NEW ot, NEW w \in Seq(Byte), w # <<>>, NEW r \in Seq(Seq(Byte)),
         NEW frame, NEW esc, NEW frame2, NEW esc2, NEW r2,
         Whole(gave, ot, w, frame, esc, snt, r), Taken(Head(w), frame, esc, r, frame2, esc2, r2)
  PROVE  Whole(gave, ot, Tail(w), frame2, esc2, snt, r2)
<1> DEFINE L == Len(w)
           v == Tail(w)
           c == Head(w)
<1>1. PICK p, at : /\ Trail(snt, gave, w, p) /\ Rest(snt, gave, ot, p[L])
                   /\ Has(snt, p[0], frame, esc) /\ Got(snt, gave, r, p[0], at)
  BY DEF Whole
<1>2. /\ L \in Nat /\ L >= 1 /\ L - 1 \in Nat /\ c = w[1]
      /\ Len(v) = L - 1 /\ \A i \in 1..L - 1 : v[i] = w[i + 1]
  OBVIOUS
<1> DEFINE d == [i \in 0..L - 1 |-> p[i + 1]]
<1>3. p \in [0..L -> Origins(snt)]
      /\ \A i \in 1..L : Follows(snt, gave, p[i - 1], p[i]) /\ w[i] = Full(snt[p[i][1]])[p[i][2]]
  BY <1>1 DEF Trail
<1> HIDE DEF L, v, c
<1>4. d \in [0..L - 1 -> Origins(snt)] /\ \A i \in 0..L - 1 : d[i] = p[i + 1]
  <2>1. \A i \in 0..L - 1 : i + 1 \in 0..L
    BY <1>2
  <2> QED BY <1>3, <2>1
<1> HIDE DEF d
<1>5. Trail(snt, gave, v, d)
  <2>1. ASSUME NEW i \in 1..L - 1
        PROVE  Follows(snt, gave, d[i - 1], d[i]) /\ v[i] = Full(snt[d[i][1]])[d[i][2]]
    <3> DEFINE j == i + 1
    <3>1. j \in 1..L /\ j - 1 = i /\ i \in 0..L - 1 /\ i - 1 \in 0..L - 1 /\ (i - 1) + 1 = i
      BY <1>2
    <3>2. d[i] = p[j] /\ d[i - 1] = p[i] /\ v[i] = w[j]
      BY <1>2, <1>4, <3>1
    <3> HIDE DEF j
    <3>3. Follows(snt, gave, p[j - 1], p[j]) /\ w[j] = Full(snt[p[j][1]])[p[j][2]]
      BY <1>3, <3>1
    <3> QED BY <3>1, <3>2, <3>3
  <2> QED BY <1>2, <1>4, <2>1 DEF Trail
<1>6. d[Len(v)] = p[L] /\ d[0] = p[1]
  <2>1. L - 1 \in 0..L - 1 /\ 0 \in 0..L - 1 /\ (L - 1) + 1 = L /\ 0 + 1 = 1
    BY <1>2
  <2>2. d[L - 1] = p[(L - 1) + 1] /\ d[0] = p[0 + 1]
    BY <1>4, <2>1
  <2> QED BY <1>2, <2>1, <2>2
<1> DEFINE o == p[0]
           n == p[1]
<1>7. o \in Origins(snt) /\ n \in Origins(snt) /\ Follows(snt, gave, o, n) /\ c = Full(snt[n[1]])[n[2]]
  <2>1. 0 \in 0..L /\ 1 \in 0..L /\ 1 \in 1..L /\ 1 - 1 = 0
    BY <1>2
  <2>2. Follows(snt, gave, p[1 - 1], p[1]) /\ w[1] = Full(snt[p[1][1]])[p[1][2]]
    BY <1>3, <2>1
  <2>3. p[0] \in Origins(snt) /\ p[1] \in Origins(snt)
    BY <1>3, <2>1
  <2> QED BY <1>2, <2>1, <2>2, <2>3
<1>8. OneByte(snt, gave, r, o, n, at, frame, esc, frame2, esc2, r2)
  <2>1. Taken(Full(snt[n[1]])[n[2]], frame, esc, r, frame2, esc2, r2)
    BY <1>7 DEF c
  <2> QED BY <1>1, <1>7, <2>1 DEF OneByte
<1>9. Rest(snt, gave, ot, d[Len(v)])
  BY <1>1, <1>6
<1>10. d[0] = n
  BY <1>6
<1> HIDE DEF o, n
<1>11. Has(snt, n, frame2, esc2) /\ \E at2 : Got(snt, gave, r2, n, at2)
  <2>1. CASE SameFrame(o, n)
    BY <1>8, <2>1, TakenSame, Zenon
  <2>2. CASE LaterFrame(snt, gave, o, n)
    BY <1>8, <2>2, TakenNew, Zenon
  <2> QED BY <1>7, <2>1, <2>2, Zenon DEF Follows
<1>12. PICK at2 : Got(snt, gave, r2, n, at2)
  BY <1>11
<1>13. Whole(gave, ot, v, frame2, esc2, snt, r2)
  BY <1>5, <1>9, <1>10, <1>11, <1>12 DEF Whole
<1> QED BY <1>13 DEF v

-----------------------------------------------------------------------------
(* The invariant *)

Inv == /\ Bounds
       /\ noise = 0 => Whole(gaveup, otty, wire, iframe, iescaped, sent, rcvd)

LEMMA InitWhole == Init => Whole(gaveup, otty, wire, iframe, iescaped, sent, rcvd)
<1> SUFFICES ASSUME Init PROVE Whole(gaveup, otty, wire, iframe, iescaped, sent, rcvd)
  OBVIOUS
<1> DEFINE o == <<0, 0>>
           p == [i \in 0..0 |-> o]
           at == [j \in 1..0 |-> 1]
<1>1. gaveup = 0 /\ otty = <<>> /\ wire = <<>> /\ iframe = <<>> /\ sent = <<>> /\ rcvd = <<>>
  BY DEF Init
<1>2. Len(wire) = 0 /\ Len(sent) = 0 /\ Len(rcvd) = 0
  BY <1>1
<1>3. EncLen(sent, 0) = 0 /\ o \in (0..Len(sent)) \X Nat /\ o[1] = 0 /\ o[2] = 0
  BY <1>2 DEF EncLen
<1> HIDE DEF o
<1>4. o \in Origins(sent)
  BY <1>3 DEF Origins
<1>5. p[0] = o /\ p \in [0..0 -> Origins(sent)]
  BY <1>4
<1> HIDE DEF p
<1>6. Trail(sent, gaveup, wire, p)
  BY <1>2, <1>5 DEF Trail
<1>7. Rest(sent, gaveup, otty, p[Len(wire)])
  BY <1>1, <1>2, <1>3, <1>5 DEF Rest
<1>8. Has(sent, p[0], iframe, iescaped)
  BY <1>1, <1>3, <1>5 DEF Has
<1>9. Got(sent, gaveup, rcvd, p[0], at)
  <2>1. 1..Len(rcvd) = {} /\ 1..Len(sent) = {} /\ at \in [1..Len(rcvd) -> 1..Len(sent)]
    BY <1>2
  <2> HIDE DEF at
  <2> QED BY <2>1 DEF Got
<1> QED BY <1>6, <1>7, <1>8, <1>9 DEF Whole

\* What assemble_kiss does with a byte.
LEMMA AssembleTaken ==
  ASSUME TypeOK, AssembleKiss
  PROVE  Taken(Head(wire), iframe, iescaped, rcvd, iframe', iescaped', rcvd')
<1>1. ifcount = Len(iframe) /\ (Len(iframe) = 0 <=> iframe = <<>>) /\ \A c : Unescaped(c) = Plain(iescaped, c)
  BY DEF TypeOK, ifcount, Unescaped, Plain
<1>2. CASE EndOfFrame
  BY <1>1, <1>2 DEF EndOfFrame, Taken
<1>3. CASE Escape
  BY <1>3 DEF Escape, Taken
<1>4. CASE DataByte
  BY <1>1, <1>4 DEF DataByte, Taken
<1> QED BY <1>2, <1>3, <1>4 DEF AssembleKiss

LEMMA NextInv == Inv /\ [Next]_vars => Inv'
<1> SUFFICES ASSUME Inv, [Next]_vars PROVE Inv'
  OBVIOUS
<1>1. TypeOK /\ Bounds' /\ noise \in Nat
  BY NextBounds DEF Inv, Bounds, TypeOK
<1>2. sent \in Seq(Messages) /\ wire \in Seq(Byte) /\ otty \in Seq(Byte) /\ rcvd \in Seq(Seq(Byte))
  BY <1>1 DEF TypeOK, Messages
<1> SUFFICES ASSUME noise' = 0 PROVE Whole(gaveup, otty, wire, iframe, iescaped, sent, rcvd)'
  BY <1>1 DEF Inv
<1>3. noise = 0 => Whole(gaveup, otty, wire, iframe, iescaped, sent, rcvd)
  BY DEF Inv
<1>4. ASSUME NEW p \in Params, ParamAdd(p) PROVE Whole(gaveup, otty, wire, iframe, iescaped, sent, rcvd)'
  BY <1>3, <1>4 DEF ParamAdd, rvars
<1>5. CASE OpenTty
  BY <1>3, <1>5 DEF OpenTty, rvars
<1>6. ASSUME NEW type \in Byte, NEW f \in Seq(Byte), SendKiss(type, f), UNCHANGED <<gaveup, wire, noise, rvars>>
      PROVE  Whole(gaveup, otty, wire, iframe, iescaped, sent, rcvd)'
  <2> DEFINE s == <<type, f>>
  <2>1. s \in Messages /\ otty = <<>> /\ otty' = Cut(s) /\ sent' = Append(sent, s)
    BY <1>1, <1>6, SendKissTypes
  <2>2. Whole(gaveup, <<>>, wire, iframe, iescaped, sent, rcvd)
    BY <1>3, <1>6, <2>1
  <2> HIDE DEF s
  <2>3. Whole(gaveup, Cut(s), wire, iframe, iescaped, Append(sent, s), rcvd)
    BY <1>2, <2>1, <2>2, WholeSend
  <2> QED BY <1>6, <2>1, <2>3 DEF rvars
<1>7. CASE SendParams
  <2>1. CASE next_param < Len(param_tbl)
    <3>1. param_tbl[next_param + 1][1] \in Byte /\ <<param_tbl[next_param + 1][2]>> \in Seq(Byte)
      BY <1>1, <2>1, ParamTypes
    <3>2. SendKiss(param_tbl[next_param + 1][1], <<param_tbl[next_param + 1][2]>>)
          /\ UNCHANGED <<gaveup, wire, noise, rvars>>
      BY <1>7, <2>1 DEF SendParams
    <3> QED BY <1>6, <3>1, <3>2
  <2>2. CASE ~(next_param < Len(param_tbl))
    BY <1>3, <1>7, <2>2 DEF SendParams, rvars
  <2> QED BY <2>1, <2>2
<1>8. ASSUME NEW f \in Payloads, SendFrame(f) PROVE Whole(gaveup, otty, wire, iframe, iescaped, sent, rcvd)'
  <2>1. f \in Seq(Byte) /\ "Z" \in Byte /\ SendKiss("Z", f) /\ UNCHANGED <<gaveup, wire, noise, rvars>>
    BY <1>8, KissInputs DEF SendFrame, Byte
  <2> QED BY <1>6, <2>1
<1>9. ASSUME NEW n \in 1..Len(otty), SendTty(n) PROVE Whole(gaveup, otty, wire, iframe, iescaped, sent, rcvd)'
  <2>1. /\ wire' = wire \o SubSeq(otty, 1, n) /\ otty' = SubSeq(otty, n + 1, Len(otty))
        /\ UNCHANGED <<gaveup, iframe, iescaped, sent, rcvd>> /\ noise = 0
    BY <1>9 DEF SendTty, rvars
  <2>2. Whole(gaveup, SubSeq(otty, n + 1, Len(otty)), wire \o SubSeq(otty, 1, n), iframe, iescaped, sent, rcvd)
    BY <1>2, <1>3, <2>1, WholeTty
  <2> QED BY <2>1, <2>2
<1>10. CASE SendTtyBusy
  <2>1. noise = 0 /\ UNCHANGED <<wire, iframe, iescaped, sent, rcvd>>
    BY <1>10 DEF SendTtyBusy, rvars
  <2>2. CASE otty' = <<>> /\ gaveup' = gaveup + 1
    <3>1. gaveup + 1 # 0
      BY <1>1 DEF TypeOK
    <3>2. Whole(gaveup + 1, <<>>, wire, iframe, iescaped, sent, rcvd)
      BY <1>3, <2>1, <3>1, WholeGiveUp
    <3> QED BY <2>1, <2>2, <3>2
  <2>3. CASE UNCHANGED <<otty, gaveup>>
    BY <1>3, <2>1, <2>3
  <2> QED BY <1>10, <2>2, <2>3 DEF SendTtyBusy
<1>11. ASSUME NEW b \in Byte, Noise(b) PROVE FALSE
  BY <1>1, <1>11 DEF Noise
<1>12. CASE AssembleKiss
  <2>1. wire # <<>> /\ wire' = Tail(wire) /\ noise = 0 /\ UNCHANGED <<gaveup, otty, sent>>
    BY <1>12 DEF AssembleKiss, svars
  <2>2. Taken(Head(wire), iframe, iescaped, rcvd, iframe', iescaped', rcvd')
    BY <1>1, <1>12, AssembleTaken
  <2>3. Whole(gaveup, otty, Tail(wire), iframe', iescaped', sent, rcvd')
    BY <1>2, <1>3, <2>1, <2>2, WholeTaken
  <2> QED BY <2>1, <2>3
<1>13. CASE UNCHANGED vars
  BY <1>3, <1>13 DEF vars, svars, rvars
<1> QED BY <1>4, <1>5, <1>7, <1>8, <1>9, <1>10, <1>11, <1>12, <1>13 DEF Next

LEMMA InvFaithful == Inv => LineFaithful
<1> SUFFICES ASSUME Inv PROVE RoundTrip /\ NoMergedFrames
  BY DEF LineFaithful
<1> SUFFICES ASSUME noise = 0 PROVE RoundTrip /\ NoMergedFrames
  BY DEF RoundTrip, NoMergedFrames
<1> DEFINE o(p) == p[0]
           J == 1..Len(rcvd)
           m == Len(sent)
<1>1. sent \in Seq(Messages) /\ rcvd \in Seq(Seq(Byte)) /\ wire \in Seq(Byte)
  BY DEF Inv, Bounds, TypeOK, Messages
<1>2. PICK p, at : /\ Trail(sent, gaveup, wire, p) /\ Rest(sent, gaveup, otty, p[Len(wire)])
                   /\ Got(sent, gaveup, rcvd, p[0], at)
  BY DEF Inv, Whole
<1>3. /\ at \in [J -> 1..m] /\ \A i, j \in J : i < j => at[i] < at[j]
      /\ \A j \in J : /\ ControlOk(sent[at[j]][1]) /\ IsPrefixOf(rcvd[j], sent[at[j]][2])
                      /\ gaveup = 0 /\ Fits(sent[at[j]]) => rcvd[j] = sent[at[j]][2]
      /\ gaveup = 0 => \A k \in 1..m :
           ControlOk(sent[k][1]) /\ Fits(sent[k]) /\ Done(sent, p[0], k) => \E j \in J : at[j] = k
  BY <1>2 DEF Got
<1>4. DOMAIN rcvd = J /\ DOMAIN sent = 1..m /\ m \in Nat
  BY <1>1
<1> HIDE DEF J, m
<1>5. at \in [DOMAIN rcvd -> Accepted] /\ InOrder(at)
  <2>1. \A j \in J : at[j] \in Accepted
    BY <1>3, <1>4 DEF Accepted
  <2>2. at \in [J -> Accepted]
    BY <1>3, <2>1
  <2>3. InOrder(at)
    BY <1>3, <1>4, Zenon DEF InOrder
  <2> QED BY <1>4, <2>2, <2>3
<1>6. NoMergedFrames
  BY <1>3, <1>4, <1>5, Zenon DEF NoMergedFrames
<1>7. RoundTrip
  <2> SUFFICES ASSUME gaveup = 0, otty = <<>>, wire = <<>>, \A k \in DOMAIN sent : Fits(sent[k])
               PROVE  \E a \in [DOMAIN rcvd -> Accepted] :
                        /\ InOrder(a) /\ Accepted = {a[k] : k \in DOMAIN rcvd}
                        /\ \A k \in DOMAIN rcvd : rcvd[k] = sent[a[k]][2]
    BY DEF RoundTrip
  <2>1. Len(wire) = 0
    OBVIOUS
  <2>2. p[0][1] = m /\ p[0][2] = EncLen(sent, m)
    BY <1>2, <2>1 DEF Rest, m
  <2>3. \A k \in 1..m : Done(sent, p[0], k)
    <3>1. ASSUME NEW k \in 1..m PROVE Done(sent, p[0], k)
      <4>1. CASE k = m
        <5>1. Fits(sent[k]) /\ k \in 0..Len(sent) /\ k # 0
          BY <1>4 DEF m
        <5>2. Len(Full(sent[k])) <= MAX_FRAME
          BY <5>1 DEF Fits, Full
        <5>3. EncLen(sent, k) = Len(Full(sent[k]))
          BY <1>1, <5>1, <5>2, EncLenIs
        <5> QED BY <2>2, <4>1, <5>3 DEF Done
      <4>2. CASE k # m
        <5>1. k < p[0][1]
          BY <1>4, <2>2, <4>2
        <5> QED BY <5>1 DEF Done
      <4> QED BY <4>1, <4>2
    <3> QED BY <3>1
  <2>4. \A j \in J : rcvd[j] = sent[at[j]][2]
    BY <1>3, <1>4
  <2>5. \A k \in Accepted : \E j \in J : at[j] = k
    BY <1>3, <1>4, <2>3 DEF Accepted
  <2>6. Accepted = {at[j] : j \in J}
    BY <1>4, <1>5, <2>5
  <2> QED BY <1>4, <1>5, <2>4, <2>6
<1> QED BY <1>6, <1>7

\* kiss.c:115-151, io.c:734: as long as the line is quiet, the frames that are
\* handed to from_kiss are, in order, beginnings of distinct frames that were
\* sent, never two run into one; and if none was given up and they fit the
\* buffers, all have come, byte for byte.
THEOREM FramesFaithful == Spec => []LineFaithful
<1>1. Init => Inv
  BY InitBounds, InitWhole DEF Inv
<1>2. Spec => []Inv
  BY <1>1, NextInv, PTL DEF Spec
<1> QED BY <1>2, InvFaithful, PTL
=============================================================================
