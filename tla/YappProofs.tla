----------------------------- MODULE YappProofs ------------------------------
(***************************************************************************)
(* Proofs about YAPP: with files and blocks of any size and any number of  *)
(* cancels and late answers, what the download writes is the beginning of  *)
(* the file, and an upload that says it is done has delivered all of it.   *)
(*                                                                         *)
(* The argument: while data go, what is on the line and what waits in      *)
(* outbuffer are together whole blocks of the file, from where the         *)
(* download is to where the upload has read (Streams).  The bytes on the   *)
(* line are those, but for what the link has changed (Like).               *)
(***************************************************************************)
EXTENDS Yapp, TLAPS, SequenceTheorems, WellFoundedInduction

-----------------------------------------------------------------------------
(* Recursion and induction on the naturals *)

\* Every nonempty set of naturals has a least element.
LEMMA LeastNat ==
  ASSUME NEW T \in SUBSET Nat, T # {}
  PROVE  \E n \in T : \A m \in T : n <= m
<1>1. PICK n \in T : \A m \in T : ~(<<m, n>> \in OpToRel(<, Nat))
  BY NatLessThanWellFounded, WFMin
<1>2. \A m \in T : m < n => <<m, n>> \in OpToRel(<, Nat)
  BY DEF OpToRel
<1>3. \A m \in T : ~(m < n)
  BY <1>1, <1>2, Zenon
<1> QED BY <1>3

\* A set that has 0 and with each number the next one has them all.
LEMMA AllNat ==
  ASSUME NEW T \in SUBSET Nat, 0 \in T, \A n \in T : n + 1 \in T
  PROVE  T = Nat
<1> DEFINE Bad == Nat \ T
<1>1. ASSUME Bad # {} PROVE FALSE
  <2>1. PICK n \in Bad : \A m \in Bad : n <= m
    BY <1>1, LeastNat
  <2>2. n - 1 \in Nat /\ n - 1 \notin Bad
    BY <2>1
  <2> QED BY <2>1, <2>2
<1> QED BY <1>1

\* f is the beginning, up to n, of what step makes of x again and again.
Begins(f, n, S, x, step) ==
  /\ f \in [0..n -> S] /\ f[0] = x
  /\ \A i \in 0..n : i # n => f[i + 1] = step[<<i, f[i]>>]

LEMMA BeginsExists ==
  ASSUME NEW S, NEW x \in S, NEW step \in [Nat \X S -> S], NEW n \in Nat
  PROVE  \E f : Begins(f, n, S, x, step)
<1> DEFINE T == {k \in Nat : \E f : Begins(f, k, S, x, step)}
<1>1. 0 \in T
  <2>1. Begins([i \in 0..0 |-> x], 0, S, x, step)
    BY DEF Begins
  <2> QED BY <2>1
<1>2. ASSUME NEW k \in T PROVE k + 1 \in T
  <2>1. PICK f : Begins(f, k, S, x, step)
    BY <1>2
  <2> DEFINE g == [i \in 0..k + 1 |-> IF i = k + 1 THEN step[<<k, f[k]>>] ELSE f[i]]
  <2>2. f[k] \in S /\ step[<<k, f[k]>>] \in S
    BY <2>1 DEF Begins
  <2>3. g \in [0..k + 1 -> S] /\ g[0] = x
    BY <2>1, <2>2 DEF Begins
  <2>4. ASSUME NEW i \in 0..k + 1, i # k + 1 PROVE g[i + 1] = step[<<i, g[i]>>]
    <3>1. g[i] = f[i] /\ i \in 0..k
      BY <2>4
    <3>2. CASE i = k
      BY <3>1, <3>2
    <3>3. CASE i # k
      <4>1. g[i + 1] = f[i + 1]
        BY <3>1, <3>3
      <4> QED BY <2>1, <3>1, <3>3, <4>1 DEF Begins
    <3> QED BY <3>2, <3>3
  <2>5. Begins(g, k + 1, S, x, step)
    BY <2>3, <2>4 DEF Begins
  <2> QED BY <2>5
<1>3. T = Nat
  <2> HIDE DEF T
  <2>1. T \in SUBSET Nat
    BY DEF T
  <2> QED BY <1>1, <1>2, <2>1, AllNat
<1> QED BY <1>3

-----------------------------------------------------------------------------
(* The checksum *)

Plus(v, n) == (v + n) % 256

LEMMA PlusFacts ==
  /\ \A v \in 0..255, n \in Nat : Plus(v, n) \in 0..255
  /\ \A v \in 0..255 : Plus(v, 1) # v
  /\ \A v \in 0..255, n \in Nat : /\ Plus(Plus(v, 1), n) = Plus(Plus(v, n), 1)
                                 /\ Plus(v, Plus(n, 1)) = Plus(Plus(v, n), 1)
<1>1. \A v \in 0..255, n \in Nat : Plus(v, n) \in 0..255
  BY DEF Plus
<1>2. \A v \in 0..255 : Plus(v, 1) # v
  BY DEF Plus
<1>3. \A v \in 0..255, n \in Nat : Plus(Plus(v, 1), n) = Plus(Plus(v, n), 1)
  BY DEF Plus
<1>4. \A v \in 0..255, n \in Nat : Plus(v, Plus(n, 1)) = Plus(Plus(v, n), 1)
  BY DEF Plus
<1> QED BY <1>1, <1>2, <1>3, <1>4

Summed(s, f) ==
  f \in [0..Len(s) -> 0..255] /\ f[0] = 0 /\ \A i \in 1..Len(s) : f[i] = Plus(f[i - 1], s[i])

\* The checksum is what its definition adds up.
LEMMA ChecksumIs ==
  ASSUME NEW s \in Seq(Nat)
  PROVE  \E f : Summed(s, f) /\ checksum(s) = f[Len(s)]
<1> DEFINE k == Len(s)
           S == 0..255
           Is(f) == f = [i \in 0..k |-> IF i = 0 THEN 0 ELSE (f[i - 1] + s[i]) % 256]
           sum == CHOOSE f : Is(f)
           step == [p \in Nat \X S |-> IF p[1] < k THEN (p[2] + s[p[1] + 1]) % 256 ELSE 0]
<1>1. k \in Nat /\ \A i \in 1..k : s[i] \in Nat
  OBVIOUS
<1>2. checksum(s) = sum[k]
  BY DEF checksum
<1>3. 0 \in S
  OBVIOUS
<1>4. \A v \in S, n \in Nat : (v + n) % 256 \in S
  OBVIOUS
<1>5. step \in [Nat \X S -> S]
  <2>1. ASSUME NEW i \in Nat, NEW v \in S PROVE (IF i < k THEN (v + s[i + 1]) % 256 ELSE 0) \in S
    <3>1. CASE i < k
      <4>1. s[i + 1] \in Nat
        BY <1>1, <3>1
      <4> QED BY <1>4, <3>1, <4>1
    <3>2. CASE ~(i < k)
      BY <1>3, <3>2
    <3> QED BY <3>1, <3>2
  <2> HIDE DEF S, k
  <2> QED BY <2>1
<1> HIDE DEF S, k
<1>6. \A i \in Nat, v \in S : i < k => step[<<i, v>>] = (v + s[i + 1]) % 256
  OBVIOUS
<1> HIDE DEF step
<1>7. PICK f : Begins(f, k, S, 0, step)
  BY <1>1, <1>3, <1>5, BeginsExists
<1>8. f \in [0..k -> S] /\ f[0] = 0
  BY <1>7 DEF Begins
<1>9. ASSUME NEW i \in 1..k PROVE f[i] = (f[i - 1] + s[i]) % 256
  <2>1. i - 1 \in Nat /\ i - 1 \in 0..k /\ i - 1 # k /\ i - 1 < k /\ (i - 1) + 1 = i
    BY <1>1
  <2>2. f[i - 1] \in S /\ f[(i - 1) + 1] = step[<<i - 1, f[i - 1]>>]
    BY <1>7, <2>1 DEF Begins
  <2> QED BY <1>6, <2>1, <2>2
<1>10. Is(f)
  <2>1. \A i \in 0..k : i # 0 => i \in 1..k
    BY <1>1
  <2>2. \A i \in 0..k : f[i] = IF i = 0 THEN 0 ELSE (f[i - 1] + s[i]) % 256
    BY <1>8, <1>9, <2>1
  <2> QED BY <1>8, <2>2
<1> HIDE DEF Is
<1>11. Is(sum)
  BY <1>10
<1> HIDE DEF sum
<1>12. sum \in [0..k -> S] /\ sum[0] = 0 /\ \A i \in 1..k : sum[i] = (sum[i - 1] + s[i]) % 256
  <2>1. sum = [i \in 0..k |-> IF i = 0 THEN 0 ELSE (sum[i - 1] + s[i]) % 256]
    BY <1>11 DEF Is
  <2>2. \A i \in 0..k : sum[i] = IF i = 0 THEN 0 ELSE (sum[i - 1] + s[i]) % 256
    BY <2>1
  <2>3. 0 \in 0..k /\ \A i \in 1..k : i \in 0..k /\ i # 0 /\ i - 1 \in Nat
    BY <1>1
  <2>4. sum[0] = 0 /\ \A i \in 1..k : sum[i] = (sum[i - 1] + s[i]) % 256
    BY <2>2, <2>3
  <2> DEFINE T == {i \in Nat : i <= k => sum[i] \in S}
  <2>5. 0 \in T
    BY <1>3, <2>4
  <2>6. ASSUME NEW i \in T PROVE i + 1 \in T
    <3> SUFFICES ASSUME i + 1 <= k PROVE sum[i + 1] \in S
      BY <2>6
    <3>1. i + 1 \in 1..k /\ (i + 1) - 1 = i /\ sum[i] \in S
      BY <1>1, <2>6
    <3>2. sum[i + 1] = (sum[i] + s[i + 1]) % 256
      BY <2>4, <3>1
    <3> QED BY <1>1, <1>4, <3>1, <3>2
  <2>7. T = Nat
    <3> HIDE DEF T
    <3>1. T \in SUBSET Nat
      BY DEF T
    <3> QED BY <2>5, <2>6, <3>1, AllNat
  <2>8. \A i \in 0..k : sum[i] \in S
    BY <1>1, <2>7
  <2>9. sum = [i \in 0..k |-> sum[i]]
    BY <2>1
  <2> QED BY <2>4, <2>8, <2>9
<1>13. Summed(s, sum)
  BY <1>12 DEF Summed, S, k, Plus
<1> QED BY <1>2, <1>13 DEF k

\* r is s with one byte changed.
OneChanged(s, r, e) ==
  /\ e \in 1..Len(s) /\ Len(s) = Len(r) /\ r[e] = Plus(s[e], 1)
  /\ \A i \in 1..Len(s) : i # e => r[i] = s[i]

\* One changed byte is seen.
LEMMA ChecksumSees ==
  ASSUME NEW s \in Seq(Nat), NEW r \in Seq(Nat), NEW e, OneChanged(s, r, e)
  PROVE  checksum(s) \in 0..255 /\ checksum(r) # checksum(s)
<1>0. /\ e \in 1..Len(s) /\ Len(s) = Len(r) /\ r[e] = Plus(s[e], 1)
      /\ \A i \in 1..Len(s) : i # e => r[i] = s[i]
  BY DEF OneChanged
<1>1. PICK f : Summed(s, f) /\ checksum(s) = f[Len(s)]
  BY ChecksumIs
<1>2. PICK g : Summed(r, g) /\ checksum(r) = g[Len(r)]
  BY ChecksumIs
<1> DEFINE k == Len(s)
           T == {i \in Nat : i <= k => g[i] = IF i < e THEN f[i] ELSE Plus(f[i], 1)}
<1>3. k \in Nat /\ e \in 1..k /\ \A i \in 1..k : s[i] \in Nat
  BY <1>0
<1>4. /\ f \in [0..k -> 0..255] /\ f[0] = 0 /\ \A i \in 1..k : f[i] = Plus(f[i - 1], s[i])
      /\ g \in [0..k -> 0..255] /\ g[0] = 0 /\ \A i \in 1..k : g[i] = Plus(g[i - 1], r[i])
  BY <1>0, <1>1, <1>2 DEF Summed
<1>5. \A i \in 1..k : i # e => r[i] = s[i]
  BY <1>0
<1> HIDE DEF k
<1>6. 0 \in T
  BY <1>3, <1>4
<1>7. ASSUME NEW i \in T PROVE i + 1 \in T
  <2> SUFFICES ASSUME i + 1 <= k
               PROVE  g[i + 1] = IF i + 1 < e THEN f[i + 1] ELSE Plus(f[i + 1], 1)
    BY <1>7
  <2>1. i + 1 \in 1..k /\ (i + 1) - 1 = i /\ i \in 0..k /\ i \in Nat
        /\ g[i] = IF i < e THEN f[i] ELSE Plus(f[i], 1)
    BY <1>3, <1>7
  <2>2. f[i + 1] = Plus(f[i], s[i + 1]) /\ g[i + 1] = Plus(g[i], r[i + 1]) /\ f[i] \in 0..255
    <3>1. f[i + 1] = Plus(f[(i + 1) - 1], s[i + 1]) /\ g[i + 1] = Plus(g[(i + 1) - 1], r[i + 1])
      BY <1>4, <2>1, Zenon
    <3>2. f[i] \in 0..255
      <4>1. f \in [0..k -> 0..255] /\ i \in 0..k
        BY <1>4, <2>1
      <4> QED BY <4>1
    <3>3. (i + 1) - 1 = i
      BY <2>1
    <3> QED BY <3>1, <3>2, <3>3, Zenon
  <2>3. s[i + 1] \in Nat
    BY <1>3, <2>1
  <2> HIDE DEF T
  <2>5. CASE i + 1 < e
    <3>1. i < e /\ r[i + 1] = s[i + 1]
      BY <1>0, <1>3, <1>5, <2>1, <2>5
    <3> QED BY <2>1, <2>2, <2>5, <3>1
  <2>6. CASE i + 1 = e
    <3>1. i < e /\ r[i + 1] = Plus(s[i + 1], 1)
      BY <1>0, <1>3, <2>1, <2>6
    <3>2. g[i + 1] = Plus(f[i], Plus(s[i + 1], 1))
      BY <2>1, <2>2, <3>1
    <3>3. g[i + 1] = Plus(Plus(f[i], s[i + 1]), 1)
      BY <2>2, <2>3, <3>2, PlusFacts, Zenon
    <3> QED BY <1>3, <2>1, <2>2, <2>6, <3>3
  <2>7. CASE i + 1 > e
    <3>1. ~(i < e) /\ r[i + 1] = s[i + 1] /\ ~(i + 1 < e)
      BY <1>3, <1>5, <2>1, <2>7
    <3>2. g[i + 1] = Plus(Plus(f[i], 1), s[i + 1])
      BY <2>1, <2>2, <3>1
    <3>3. g[i + 1] = Plus(Plus(f[i], s[i + 1]), 1)
      BY <2>2, <2>3, <3>2, PlusFacts, Zenon
    <3> QED BY <2>2, <3>1, <3>3
  <2> QED BY <1>3, <2>1, <2>5, <2>6, <2>7
<1>8. T = Nat
  <2> HIDE DEF T
  <2>1. T \in SUBSET Nat
    BY DEF T
  <2> QED BY <1>6, <1>7, <2>1, AllNat
<1>9. g[k] = Plus(f[k], 1) /\ f[k] \in 0..255
  <2>1. k \in 0..k /\ ~(k < e) /\ (k \in T => g[k] = IF k < e THEN f[k] ELSE Plus(f[k], 1))
    BY <1>3
  <2>2. f[k] \in 0..255
    BY <1>4, <2>1
  <2> QED BY <1>3, <1>8, <2>1, <2>2
<1>11. g[k] # f[k]
  BY <1>9, PlusFacts, Zenon
<1>12. checksum(s) = f[k] /\ checksum(r) = g[k]
  BY <1>0, <1>1, <1>2 DEF k
<1> QED BY <1>9, <1>11, <1>12

-----------------------------------------------------------------------------
(* The blocks of a file of N bytes *)

Kinds == {"ENQ", "RR", "SOH", "RF", "RT", "RS", "STX", "byte", "ETX", "AF", "EOT", "AT", "NR", "CAN"}
Token == [t : Kinds, n : Nat]
Part(N, p) == SubSeq([i \in 1..N |-> i], p + 1, IF p + readlen < N THEN p + readlen ELSE N)
Block(N, y, p) == <<STX(Len(Part(N, p)))>> \o OutBuffer(Part(N, p), y)

LEMMA PartIs ==
  ASSUME NEW N \in Nat, NEW p \in 0..N
  PROVE  /\ Part(N, p) \in Seq(Nat) /\ Len(Part(N, p)) \in 0..readlen /\ p + Len(Part(N, p)) \in 0..N
         /\ (Part(N, p) = <<>> <=> p = N) /\ (Len(Part(N, p)) = 0 <=> p = N)
         /\ \A i \in 1..Len(Part(N, p)) : Part(N, p)[i] = p + i
<1> DEFINE c == [i \in 1..N |-> i]
           m == p + 1
           n == IF p + readlen < N THEN p + readlen ELSE N
           s == SubSeq(c, m, n)
<1>1. readlen \in Nat /\ readlen >= 1
  BY YappConstants
<1>2. m \in Int /\ n \in Int /\ p <= n /\ n <= N /\ n - p <= readlen /\ (n = p <=> p = N)
  BY <1>1
<1>3. \A i \in m..n : c[i] \in Nat
  <2>1. \A i \in m..n : i \in 1..N
    BY <1>2
  <2> QED BY <2>1
<1>4. \A i \in 1..n - m + 1 : c[m + i - 1] = p + i
  <2>1. \A i \in 1..n - m + 1 : m + i - 1 \in 1..N /\ m + i - 1 = p + i
    BY <1>2
  <2> QED BY <2>1
<1>5. Part(N, p) = s
  BY DEF Part
<1> HIDE DEF c, m, n
<1>6. s \in Seq(Nat) /\ Len(s) = (IF m <= n THEN n - m + 1 ELSE 0) /\ \A i \in 1..n - m + 1 : s[i] = c[m + i - 1]
  BY <1>2, <1>3, SubSeqProperties
<1>7. Len(s) = n - p /\ n - m + 1 = n - p
  BY <1>2, <1>6 DEF m
<1> HIDE DEF s
<1>8. s = <<>> <=> Len(s) = 0
  <2>1. s \in Seq(Nat)
    BY <1>6
  <2> QED BY <2>1
<1>9. \A i \in 1..Len(s) : s[i] = p + i
  BY <1>4, <1>6, <1>7
<1>10. Len(s) \in 0..readlen /\ p + Len(s) \in 0..N /\ (Len(s) = 0 <=> p = N)
  BY <1>1, <1>2, <1>7
<1> QED BY <1>5, <1>6, <1>8, <1>9, <1>10

LEMMA OutBufferIs ==
  ASSUME NEW b \in Seq(Nat), NEW y \in {0, 1}
  PROVE  /\ OutBuffer(b, y) \in Seq(Token) /\ Len(OutBuffer(b, y)) = Len(b) + y
         /\ \A i \in 1..Len(b) : OutBuffer(b, y)[i] = Byte(b[i])
         /\ y = 1 => OutBuffer(b, y)[Len(b) + 1] = Byte(checksum(b))
<1>1. \A n \in Nat : Byte(n) \in Token
  BY DEF Byte, Token, Kinds
<1>2. Bytes(b) \in Seq(Token) /\ Len(Bytes(b)) = Len(b) /\ \A i \in 1..Len(b) : Bytes(b)[i] = Byte(b[i])
  BY <1>1 DEF Bytes
<1>3. CASE y = 0
  <2>1. OutBuffer(b, y) = Bytes(b) \o <<>>
    BY <1>3 DEF OutBuffer
  <2>2. OutBuffer(b, y) = Bytes(b)
    BY <1>2, <2>1
  <2> QED BY <1>2, <1>3, <2>2
<1>4. CASE y = 1
  <2>1. OutBuffer(b, y) = Bytes(b) \o <<Byte(checksum(b))>>
    BY <1>4 DEF OutBuffer
  <2>2. checksum(b) \in Nat
    <3>1. PICK f : Summed(b, f) /\ checksum(b) = f[Len(b)]
      BY ChecksumIs
    <3>2. f \in [0..Len(b) -> 0..255] /\ Len(b) \in 0..Len(b)
      BY <3>1 DEF Summed
    <3>3. f[Len(b)] \in 0..255
      BY <3>2
    <3>4. \A v \in 0..255 : v \in Nat
      OBVIOUS
    <3> QED BY <3>1, <3>3, <3>4, Zenon
  <2>3. Byte(checksum(b)) \in Token
    BY <1>1, <2>2
  <2> DEFINE x == Byte(checksum(b))
             s == Bytes(b)
  <2> HIDE DEF x, s
  <2>4. s \in Seq(Token) /\ x \in Token /\ Len(s) = Len(b) /\ \A i \in 1..Len(b) : s[i] = Byte(b[i])
    BY <1>2, <2>3 DEF s, x
  <2>5. s \o <<x>> \in Seq(Token) /\ Len(s \o <<x>>) = Len(s) + 1
        /\ (\A i \in 1..Len(s) : (s \o <<x>>)[i] = s[i]) /\ (s \o <<x>>)[Len(s) + 1] = x
    BY <2>4
  <2>6. OutBuffer(b, y) = s \o <<x>>
    BY <2>1 DEF s, x
  <2> QED BY <1>4, <2>4, <2>5, <2>6 DEF x
<1> QED BY <1>3, <1>4

LEMMA BlockIs ==
  ASSUME NEW N \in Nat, NEW p \in 0..N, NEW y \in {0, 1}
  PROVE  /\ Block(N, y, p) \in Seq(Token) /\ Len(Block(N, y, p)) = 1 + Len(Part(N, p)) + y
         /\ Block(N, y, p)[1] = STX(Len(Part(N, p)))
         /\ \A i \in 1..Len(Part(N, p)) : Block(N, y, p)[i + 1] = Byte(p + i)
         /\ y = 1 => Block(N, y, p)[Len(Part(N, p)) + 2] = Byte(checksum(Part(N, p)))
<1> DEFINE b == Part(N, p)
           o == OutBuffer(b, y)
           x == STX(Len(b))
<1>1. b \in Seq(Nat) /\ Len(b) \in Nat /\ \A i \in 1..Len(b) : b[i] = p + i
  BY PartIs
<1> HIDE DEF b
<1>2. o \in Seq(Token) /\ Len(o) = Len(b) + y /\ (\A i \in 1..Len(b) : o[i] = Byte(b[i]))
      /\ (y = 1 => o[Len(b) + 1] = Byte(checksum(b)))
  BY <1>1, OutBufferIs
<1>3. x \in Token
  BY <1>1 DEF STX, Token, Kinds
<1>4. Block(N, y, p) = <<x>> \o o
  BY DEF Block, b
<1> HIDE DEF x, o
<1>5. <<x>> \o o \in Seq(Token) /\ Len(<<x>> \o o) = 1 + Len(o) /\ (<<x>> \o o)[1] = x
      /\ \A i \in 1..Len(o) : (<<x>> \o o)[i + 1] = o[i]
  BY <1>2, <1>3
<1>6. \A i \in 1..Len(b) : i \in 1..Len(o)
  BY <1>1, <1>2
<1>7. y = 1 => Len(b) + 1 \in 1..Len(o) /\ (Len(b) + 1) + 1 = Len(b) + 2
  BY <1>1, <1>2
<1>8. \A i \in 1..Len(b) : (<<x>> \o o)[i + 1] = Byte(p + i)
  BY <1>1, <1>2, <1>5, <1>6
<1>9. y = 1 => (<<x>> \o o)[Len(b) + 2] = Byte(checksum(b))
  BY <1>2, <1>5, <1>7
<1>10. Len(<<x>> \o o) = 1 + Len(b) + y
  BY <1>1, <1>2, <1>5
<1> QED BY <1>4, <1>5, <1>8, <1>9, <1>10 DEF b, x

-----------------------------------------------------------------------------
(* Whole blocks, one behind the other *)

LEMMA NilToken == <<>> \in Seq(Token)
OBVIOUS

LEMMA TokenConcat ==
  ASSUME NEW a \in Seq(Token), NEW b \in Seq(Token), NEW c \in Seq(Token)
  PROVE  (a \o b) \o c = a \o (b \o c)
BY ConcatAssociative

Pairs(N) == (0..N) \X Seq(Token)
Grows(N, y, d, T) ==
  /\ <<d, <<>>>> \in T
  /\ \A p \in 0..N, s \in Seq(Token) :
       <<p, s>> \in T /\ p < N => <<p + Len(Part(N, p)), s \o Block(N, y, p)>> \in T

\* <<p, s>>: s is the blocks of the file from d to p.
Streams(N, y, d) == {x \in Pairs(N) : \A T \in SUBSET Pairs(N) : Grows(N, y, d, T) => x \in T}

LEMMA StreamNil ==
  ASSUME NEW N \in Nat, NEW y, NEW d \in 0..N
  PROVE  <<d, <<>>>> \in Streams(N, y, d)
<1>1. <<d, <<>>>> \in Pairs(N)
  BY NilToken, Zenon DEF Pairs
<1> QED BY <1>1 DEF Streams, Grows

LEMMA StreamMore ==
  ASSUME NEW N \in Nat, NEW y \in {0, 1}, NEW d \in 0..N, NEW p \in 0..N, NEW s \in Seq(Token),
         <<p, s>> \in Streams(N, y, d), p < N
  PROVE  <<p + Len(Part(N, p)), s \o Block(N, y, p)>> \in Streams(N, y, d)
<1> DEFINE x == <<p + Len(Part(N, p)), s \o Block(N, y, p)>>
<1>1. x \in Pairs(N)
  <2>1. p + Len(Part(N, p)) \in 0..N /\ Block(N, y, p) \in Seq(Token)
    BY PartIs, BlockIs
  <2>2. s \o Block(N, y, p) \in Seq(Token)
    BY <2>1, ConcatProperties
  <2> QED BY <2>1, <2>2 DEF Pairs
<1>2. ASSUME NEW T \in SUBSET Pairs(N), Grows(N, y, d, T) PROVE x \in T
  <2>1. <<p, s>> \in T
    BY <1>2 DEF Streams
  <2> QED BY <1>2, <2>1 DEF Grows
<1> HIDE DEF x
<1>3. x \in Streams(N, y, d)
  BY <1>1, <1>2 DEF Streams
<1> QED BY <1>3 DEF x

\* At the end of the file there are no more.
LEMMA StreamEnd ==
  ASSUME NEW N \in Nat, NEW y \in {0, 1}, NEW p, NEW s, <<p, s>> \in Streams(N, y, N)
  PROVE  p = N /\ s = <<>>
<1> DEFINE T == {<<N, <<>>>>}
<1>1. T \in SUBSET Pairs(N)
  <2>1. N \in 0..N
    OBVIOUS
  <2>2. <<N, <<>>>> \in Pairs(N)
    BY <2>1, NilToken, Zenon DEF Pairs
  <2> QED BY <2>2
<1>2. Grows(N, y, N, T)
  <2>1. \A q \in 0..N, r \in Seq(Token) : ~(<<q, r>> \in T /\ q < N)
    OBVIOUS
  <2> QED BY <2>1 DEF Grows
<1>3. <<p, s>> \in T
  BY <1>1, <1>2 DEF Streams
<1> QED BY <1>3

\* The first of them is the block at d.
LEMMA StreamHead ==
  ASSUME NEW N \in Nat, NEW y \in {0, 1}, NEW d \in 0..N, d < N,
         NEW p, NEW s, <<p, s>> \in Streams(N, y, d)
  PROVE  \/ p = d /\ s = <<>>
         \/ \E r \in Seq(Token) : s = Block(N, y, d) \o r /\ <<p, r>> \in Streams(N, y, d + Len(Part(N, d)))
<1> DEFINE e == d + Len(Part(N, d))
           T == {x \in Pairs(N) :
                   \/ x[1] = d /\ x[2] = <<>>
                   \/ \E r \in Seq(Token) : x[2] = Block(N, y, d) \o r /\ <<x[1], r>> \in Streams(N, y, e)}
<1>1. e \in 0..N /\ Block(N, y, d) \in Seq(Token)
  BY PartIs, BlockIs
<1> HIDE DEF e
<1>2. T \in SUBSET Pairs(N)
  OBVIOUS
<1>3. \A q, t : <<q, t>> \in T <=>
        /\ q \in 0..N /\ t \in Seq(Token)
        /\ \/ q = d /\ t = <<>>
           \/ \E r \in Seq(Token) : t = Block(N, y, d) \o r /\ <<q, r>> \in Streams(N, y, e)
  BY DEF Pairs
<1> HIDE DEF T
<1>4. <<d, <<>>>> \in T
  BY <1>3, NilToken, Zenon
<1>5. ASSUME NEW q \in 0..N, NEW t \in Seq(Token), <<q, t>> \in T, q < N
      PROVE  <<q + Len(Part(N, q)), t \o Block(N, y, q)>> \in T
  <2>1. q + Len(Part(N, q)) \in 0..N /\ Block(N, y, q) \in Seq(Token)
    BY PartIs, BlockIs
  <2>2. t \o Block(N, y, q) \in Seq(Token)
    BY <2>1, ConcatProperties
  <2>3. CASE q = d /\ t = <<>>
    <3>1. <<e, <<>>>> \in Streams(N, y, e)
      BY <1>1, StreamNil
    <3>2. t \o Block(N, y, q) = Block(N, y, d) \o <<>>
      BY <1>1, <2>3
    <3>3. q + Len(Part(N, q)) = e /\ <<>> \in Seq(Token)
      BY <2>3 DEF e
    <3> QED BY <1>1, <1>3, <2>2, <3>1, <3>2, <3>3, Zenon
  <2>4. ASSUME NEW r \in Seq(Token), t = Block(N, y, d) \o r, <<q, r>> \in Streams(N, y, e)
        PROVE  <<q + Len(Part(N, q)), t \o Block(N, y, q)>> \in T
    <3>1. <<q + Len(Part(N, q)), r \o Block(N, y, q)>> \in Streams(N, y, e)
      BY <1>1, <1>5, <2>4, StreamMore
    <3>2. r \o Block(N, y, q) \in Seq(Token)
      BY <2>1, ConcatProperties
    <3>3. t \o Block(N, y, q) = Block(N, y, d) \o (r \o Block(N, y, q))
      BY <1>1, <2>1, <2>4, TokenConcat, Zenon
    <3> QED BY <1>3, <2>1, <2>2, <3>1, <3>2, <3>3, Zenon
  <2> QED BY <1>3, <1>5, <2>3, <2>4, Zenon
<1>6. Grows(N, y, d, T)
  BY <1>4, <1>5 DEF Grows
<1>7. <<p, s>> \in T
  BY <1>2, <1>6 DEF Streams
<1> QED BY <1>3, <1>7 DEF e

-----------------------------------------------------------------------------
(* What the link changes *)

\* u is q, but that e bytes of it have been changed.
Like(u, q, e) ==
  /\ u \in Seq(Token) /\ q \in Seq(Token) /\ Len(u) = Len(q)
  /\ \A i \in 1..Len(u) : u[i].t = q[i].t /\ (q[i].t # "byte" => u[i] = q[i])
  /\ e = 0 => u = q
  /\ e = 1 => \E k \in Nat : \A i \in 1..Len(u) :
                IF i = k THEN u[i].n \in {q[i].n, Plus(q[i].n, 1)} ELSE u[i] = q[i]

LEMMA LikeSame ==
  ASSUME NEW u \in Seq(Token), NEW e
  PROVE  Like(u, u, e)
<1>1. e = 1 => \E k \in Nat : \A i \in 1..Len(u) :
                 IF i = k THEN u[i].n \in {u[i].n, Plus(u[i].n, 1)} ELSE u[i] = u[i]
  OBVIOUS
<1> QED BY <1>1 DEF Like

LEMMA LikeConcat ==
  ASSUME NEW u, NEW q, NEW e, Like(u, q, e), NEW w \in Seq(Token)
  PROVE  Like(u \o w, q \o w, e)
<1>1. /\ u \in Seq(Token) /\ q \in Seq(Token) /\ Len(u) = Len(q)
      /\ \A i \in 1..Len(u) : u[i].t = q[i].t /\ (q[i].t # "byte" => u[i] = q[i])
      /\ e = 0 => u = q
      /\ e = 1 => \E k \in Nat : \A i \in 1..Len(u) :
                    IF i = k THEN u[i].n \in {q[i].n, Plus(q[i].n, 1)} ELSE u[i] = q[i]
  BY DEF Like
<1> DEFINE a == u \o w
           b == q \o w
           m == Len(u)
<1>2. /\ a \in Seq(Token) /\ b \in Seq(Token) /\ Len(a) = m + Len(w) /\ Len(b) = m + Len(w)
      /\ m \in Nat /\ Len(w) \in Nat
      /\ \A i \in 1..m : a[i] = u[i] /\ b[i] = q[i]
      /\ \A i \in m + 1..m + Len(w) : a[i] = b[i]
  <2>0. u \in Seq(Token) /\ q \in Seq(Token) /\ Len(u) = Len(q)
    BY <1>1
  <2>1. a \in Seq(Token) /\ b \in Seq(Token)
    BY <2>0
  <2>2. Len(a) = m + Len(w) /\ Len(b) = m + Len(w) /\ m \in Nat /\ Len(w) \in Nat
    <3>1. Len(a) = Len(u) + Len(w) /\ Len(b) = Len(q) + Len(w)
      BY <2>0, ConcatProperties
    <3> QED BY <2>0, <3>1
  <2>3. \A i \in 1..m : a[i] = u[i] /\ b[i] = q[i]
    BY <1>1, <2>2
  <2>4. \A i \in m + 1..m + Len(w) : a[i] = w[i - m] /\ b[i] = w[i - m]
    BY <1>1, <2>2
  <2> QED BY <2>1, <2>2, <2>3, <2>4
<1>3. e = 0 => a = b
  BY <1>1
<1> HIDE DEF a, b, m
<1>4. \A i \in 1..Len(a) : i \in 1..m \/ i \in m + 1..m + Len(w)
  BY <1>2
<1>5. \A i \in 1..Len(a) : a[i].t = b[i].t /\ (b[i].t # "byte" => a[i] = b[i])
  BY <1>1, <1>2, <1>4 DEF m
<1>6. ASSUME e = 1
      PROVE  \E k \in Nat : \A i \in 1..Len(a) :
               IF i = k THEN a[i].n \in {b[i].n, Plus(b[i].n, 1)} ELSE a[i] = b[i]
  <2>1. PICK k \in Nat : \A i \in 1..Len(u) :
               IF i = k THEN u[i].n \in {q[i].n, Plus(q[i].n, 1)} ELSE u[i] = q[i]
    BY <1>1, <1>6
  <2>2. \A i \in 1..Len(a) : IF i = k THEN a[i].n \in {b[i].n, Plus(b[i].n, 1)} ELSE a[i] = b[i]
    BY <1>2, <1>4, <2>1 DEF m
  <2> QED BY <2>2
<1>7. Len(a) = Len(b)
  BY <1>2
<1>8. Like(a, b, e)
  BY <1>2, <1>3, <1>5, <1>6, <1>7, Zenon DEF Like
<1> QED BY <1>8 DEF a, b

LEMMA LikeDrop ==
  ASSUME NEW u, NEW q, NEW e, Like(u, q, e), NEW n \in 0..Len(u)
  PROVE  Like(SubSeq(u, n + 1, Len(u)), SubSeq(q, n + 1, Len(q)), e)
<1>1. /\ u \in Seq(Token) /\ q \in Seq(Token) /\ Len(u) = Len(q)
      /\ \A i \in 1..Len(u) : u[i].t = q[i].t /\ (q[i].t # "byte" => u[i] = q[i])
      /\ e = 0 => u = q
      /\ e = 1 => \E k \in Nat : \A i \in 1..Len(u) :
                    IF i = k THEN u[i].n \in {q[i].n, Plus(q[i].n, 1)} ELSE u[i] = q[i]
  BY DEF Like
<1> DEFINE a == SubSeq(u, n + 1, Len(u))
           b == SubSeq(q, n + 1, Len(q))
           m == Len(u) - n
<1>2. n \in Nat /\ m \in Nat /\ Len(u) \in Nat
  BY <1>1
<1>3. /\ a \in Seq(Token) /\ Len(a) = m /\ \A i \in 1..m : a[i] = u[n + i]
      /\ b \in Seq(Token) /\ Len(b) = m /\ \A i \in 1..m : b[i] = q[n + i]
  BY <1>1, <1>2
<1>4. e = 0 => a = b
  BY <1>1
<1> HIDE DEF a, b
<1>5. \A i \in 1..m : n + i \in 1..Len(u)
  BY <1>2
<1> HIDE DEF m
<1>6. \A i \in 1..Len(a) : a[i].t = b[i].t /\ (b[i].t # "byte" => a[i] = b[i])
  BY <1>1, <1>3, <1>5
<1>7. ASSUME e = 1
      PROVE  \E k \in Nat : \A i \in 1..Len(a) :
               IF i = k THEN a[i].n \in {b[i].n, Plus(b[i].n, 1)} ELSE a[i] = b[i]
  <2>1. PICK k \in Nat : \A i \in 1..Len(u) :
               IF i = k THEN u[i].n \in {q[i].n, Plus(q[i].n, 1)} ELSE u[i] = q[i]
    BY <1>1, <1>7
  <2> DEFINE j == IF n < k THEN k - n ELSE 0
  <2>2. j \in Nat /\ \A i \in 1..m : i = j <=> n + i = k
    BY <1>2
  <2> HIDE DEF j
  <2>3. \A i \in 1..Len(a) : IF i = j THEN a[i].n \in {b[i].n, Plus(b[i].n, 1)} ELSE a[i] = b[i]
    BY <1>3, <1>5, <2>1, <2>2
  <2> QED BY <2>2, <2>3
<1>8. Like(a, b, e)
  BY <1>3, <1>4, <1>6, <1>7, Zenon DEF Like
<1> QED BY <1>8 DEF a, b

\* The link changes one more.
LEMMA LikeDamage ==
  ASSUME NEW u, NEW q, NEW e \in Nat, Like(u, q, e), NEW k \in 1..Len(u), u[k].t = "byte"
  PROVE  Like([u EXCEPT ![k].n = Plus(@, 1)], q, e + 1)
<1>1. /\ u \in Seq(Token) /\ q \in Seq(Token) /\ Len(u) = Len(q)
      /\ \A i \in 1..Len(u) : u[i].t = q[i].t /\ (q[i].t # "byte" => u[i] = q[i])
      /\ e = 0 => u = q
  BY DEF Like
<1> DEFINE x == [u[k] EXCEPT !.n = Plus(@, 1)]
           a == [u EXCEPT ![k].n = Plus(@, 1)]
<1>2. u[k] \in Token
  BY <1>1
<1>3. x.t = "byte" /\ x.n = Plus(u[k].n, 1) /\ x \in Token
  BY <1>2 DEF Token, Plus
<1>4. a = [u EXCEPT ![k] = x]
  BY <1>1
<1> HIDE DEF x, a
<1>5. a \in Seq(Token) /\ Len(a) = Len(u) /\ a[k] = x /\ \A i \in 1..Len(u) : i # k => a[i] = u[i]
  BY <1>1, <1>3, <1>4
<1>6. \A i \in 1..Len(a) : a[i].t = q[i].t /\ (q[i].t # "byte" => a[i] = q[i])
  BY <1>1, <1>3, <1>5
<1>7. ASSUME e + 1 = 1
      PROVE  \A i \in 1..Len(a) : IF i = k THEN a[i].n \in {q[i].n, Plus(q[i].n, 1)} ELSE a[i] = q[i]
  <2>1. u = q
    BY <1>1, <1>7
  <2> QED BY <1>3, <1>5, <2>1
<1>8. e + 1 # 0 /\ k \in Nat
  BY <1>1
<1>9. Like(a, q, e + 1)
  BY <1>1, <1>5, <1>6, <1>7, <1>8 DEF Like
<1> QED BY <1>9 DEF a

LEMMA DropConcat ==
  ASSUME NEW a \in Seq(Token), NEW b \in Seq(Token)
  PROVE  SubSeq(a \o b, Len(a) + 1, Len(a \o b)) = b
<1> DEFINE m == Len(a)
           s == a \o b
           t == SubSeq(s, m + 1, Len(s))
<1>1. /\ m \in Nat /\ Len(b) \in Nat /\ s \in Seq(Token) /\ Len(s) = m + Len(b)
      /\ \A i \in 1..Len(b) : s[m + i] = b[i]
  OBVIOUS
<1> HIDE DEF m, s
<1>2. t \in Seq(Token) /\ Len(t) = Len(b) /\ \A i \in 1..Len(b) : t[i] = s[m + i]
  BY <1>1
<1> HIDE DEF t
<1>3. t = b
  BY <1>1, <1>2
<1> QED BY <1>3 DEF m, s, t

\* b is the block of n bytes at the head of the line u, behind p bytes of the
\* file: right, or one byte was changed and the checksum shows it; w follows.
Received(n, y, p, u, b, w, e) ==
  /\ u # <<>> /\ u[1] = STX(n) /\ n \in Nat /\ n + y + 1 \in 0..Len(u)
  /\ b \in Seq(Nat) /\ Len(b) = n
  /\ e <= y => (y = 1 /\ u[n + 2].n # checksum(b)) \/ \A i \in 1..n : b[i] = p + i
  /\ Like(SubSeq(u, n + y + 2, Len(u)), w, e)

\* What the download makes of a block: with one changed byte the checksum is wrong.
LEMMA BlockReceived ==
  ASSUME NEW N \in Nat, NEW p \in 0..N, NEW y \in {0, 1}, NEW w \in Seq(Token), NEW e \in Nat,
         NEW u, Like(u, Block(N, y, p) \o w, e),
         NEW n, n = Len(Part(N, p)), NEW b, b = [i \in 1..n |-> u[i + 1].n]
  PROVE  Received(n, y, p, u, b, w, e)
<1> DEFINE B == Block(N, y, p)
           q == B \o w
           P == Part(N, p)
<1>1. /\ B \in Seq(Token) /\ n \in Nat /\ Len(B) = n + y + 1 /\ B[1] = STX(n)
      /\ \A i \in 1..n : B[i + 1] = Byte(p + i)
      /\ y = 1 => B[n + 2] = Byte(checksum(P))
      /\ P \in Seq(Nat) /\ Len(P) = n /\ \A i \in 1..n : P[i] = p + i
  <2>1. P \in Seq(Nat) /\ Len(P) = n /\ n \in 0..readlen /\ \A i \in 1..n : P[i] = p + i
    BY PartIs
  <2>2. n \in Nat
    BY <2>1, YappConstants
  <2>3. /\ B \in Seq(Token) /\ Len(B) = 1 + n + y /\ B[1] = STX(n)
        /\ \A i \in 1..n : B[i + 1] = Byte(p + i)
        /\ y = 1 => B[n + 2] = Byte(checksum(P))
    BY BlockIs
  <2> QED BY <2>1, <2>2, <2>3
<1>2. Like(u, q, e)
  OBVIOUS
<1> HIDE DEF B, P
<1>3. /\ q \in Seq(Token) /\ Len(q) = n + y + 1 + Len(w) /\ Len(w) \in Nat
      /\ \A i \in 1..n + y + 1 : q[i] = B[i]
      /\ SubSeq(q, n + y + 2, Len(q)) = w
  <2>0. B \in Seq(Token)
    BY <1>1
  <2>1. q \in Seq(Token) /\ Len(q) = Len(B) + Len(w) /\ Len(w) \in Nat
    BY <2>0, ConcatProperties
  <2>2. \A i \in 1..Len(B) : q[i] = B[i]
    BY <2>0, <2>1
  <2>3. SubSeq(q, Len(B) + 1, Len(q)) = w
    BY <2>0, DropConcat
  <2>4. Len(B) + 1 = n + y + 2
    BY <1>1
  <2> QED BY <1>1, <2>1, <2>2, <2>3, <2>4
<1> HIDE DEF q
<1>4. /\ u \in Seq(Token) /\ Len(u) = Len(q)
      /\ \A i \in 1..Len(u) : u[i].t = q[i].t /\ (q[i].t # "byte" => u[i] = q[i])
      /\ e = 0 => u = q
      /\ e = 1 => \E k \in Nat : \A i \in 1..Len(u) :
                    IF i = k THEN u[i].n \in {q[i].n, Plus(q[i].n, 1)} ELSE u[i] = q[i]
  BY <1>2 DEF Like
<1>5. /\ n + y + 1 \in 0..Len(u) /\ 1 \in 1..Len(u) /\ 1 \in 1..n + y + 1 /\ u # <<>>
      /\ \A i \in 1..n : i + 1 \in 1..Len(u) /\ i + 1 \in 1..n + y + 1
      /\ y = 1 => n + 2 \in 1..Len(u) /\ n + 2 \in 1..n + y + 1
  BY <1>1, <1>3, <1>4
<1>6. u[1] = STX(n)
  <2>1. q[1] = STX(n) /\ STX(n).t # "byte"
    BY <1>1, <1>3, <1>5 DEF STX
  <2> QED BY <1>4, <1>5, <2>1
<1>7. b \in Seq(Nat) /\ Len(b) = n /\ \A i \in 1..n : b[i] = u[i + 1].n
  <2>1. \A i \in 1..n : u[i + 1].n \in Nat
    <3>1. \A i \in 1..n : u[i + 1] \in Token
      BY <1>4, <1>5
    <3> QED BY <3>1 DEF Token
  <2> QED BY <1>1, <2>1
<1>8. \A i \in 1..n : q[i + 1].n = p + i
  <2>1. \A i \in 1..n : q[i + 1] = B[i + 1]
    BY <1>3, <1>5
  <2>2. \A i \in 1..n : q[i + 1] = Byte(p + i)
    BY <1>1, <2>1
  <2>3. \A v : Byte(v).n = v
    BY DEF Byte
  <2> QED BY <2>2, <2>3
<1>9. Like(SubSeq(u, n + y + 2, Len(u)), w, e)
  <2>1. Like(SubSeq(u, (n + y + 1) + 1, Len(u)), SubSeq(q, (n + y + 1) + 1, Len(q)), e)
    BY <1>2, <1>5, LikeDrop
  <2>2. (n + y + 1) + 1 = n + y + 2
    BY <1>1
  <2> QED BY <1>3, <2>1, <2>2
<1>10. ASSUME e <= y, NEW j \in 1..n, b[j] # p + j
       PROVE  y = 1 /\ u[n + 2].n # checksum(b)
  <2>1. e # 0
    BY <1>4, <1>7, <1>8, <1>10
  <2>2. e = 1 /\ y = 1
    BY <1>10, <2>1
  <2>3. PICK k \in Nat : \A i \in 1..Len(u) :
               IF i = k THEN u[i].n \in {q[i].n, Plus(q[i].n, 1)} ELSE u[i] = q[i]
    BY <1>4, <2>2
  <2>4. j + 1 = k /\ b[j] = Plus(p + j, 1)
    <3>1. j + 1 \in 1..Len(u) /\ u[j + 1].n = b[j] /\ q[j + 1].n = p + j
      BY <1>5, <1>7, <1>8, <1>10
    <3>2. IF j + 1 = k THEN u[j + 1].n \in {q[j + 1].n, Plus(q[j + 1].n, 1)} ELSE u[j + 1] = q[j + 1]
      BY <2>3, <3>1
    <3> QED BY <1>10, <3>1, <3>2
  <2>5. ASSUME NEW i \in 1..n, i # j PROVE b[i] = p + i
    <3>1. i + 1 \in 1..Len(u) /\ u[i + 1].n = b[i] /\ q[i + 1].n = p + i
      BY <1>5, <1>7, <1>8
    <3>2. i + 1 # k
      BY <2>4, <2>5
    <3> QED BY <2>3, <3>1, <3>2
  <2>6. u[n + 2].n = checksum(P)
    <3>1. n + 2 # k /\ n + 2 \in 1..Len(u)
      BY <1>1, <1>5, <2>2, <2>4
    <3>2. u[n + 2] = q[n + 2]
      BY <2>3, <3>1
    <3>3. q[n + 2] = Byte(checksum(P))
      BY <1>1, <1>3, <1>5, <2>2
    <3> QED BY <3>2, <3>3 DEF Byte
  <2>7. \A i \in 1..Len(P) : i # j => b[i] = P[i]
    BY <1>1, <2>5
  <2>8. OneChanged(P, b, j)
    BY <1>1, <1>7, <2>4, <2>7 DEF OneChanged
  <2>9. checksum(b) # checksum(P)
    <3>1. P \in Seq(Nat) /\ b \in Seq(Nat)
      BY <1>1, <1>7
    <3> HIDE DEF P
    <3> QED BY <2>8, <3>1, ChecksumSees, Zenon
  <2> QED BY <2>2, <2>6, <2>9
<1> QED BY <1>1, <1>5, <1>6, <1>7, <1>9, <1>10 DEF Received

-----------------------------------------------------------------------------
(* The inductive invariant *)

Y == IF file.time THEN 1 ELSE 0
Record(N) == [state : UpStates, yappc : {0, 1}, pos : 0..N, out : Seq(Token), total : Nat]
Types ==
  /\ file \in [size : Nat, existing : Nat, time : BOOLEAN]
  /\ up \in Record(file.size)
  /\ down \in [state : DownStates, yappc : {0, 1}, filefd : {"open", "none"}, data : Seq(Nat)]
  /\ u2d \in Seq(Token) /\ d2u \in Seq(Token) /\ errors \in 0..MaxErrors

\* The counts of the upload.
UpCounts ==
  /\ Len(up.out) <= readlen + 1 /\ up.total <= file.size + 1
  /\ up.state \in {"S", "SH"} => up.total = 0 /\ up.pos = 0 /\ up.out = <<>> /\ up.yappc = 0
  /\ up.state = "SD" => up.total + Len(up.out) = up.pos + up.yappc
  /\ up.state \in {"SE", "ST", "done"} => up.total = file.size /\ up.out = <<>>

\* What is in the file of the download.
Sane == errors <= Y /\ ~(up.state = "aborted" /\ up.out # <<>>)
Written ==
  /\ down.yappc \in {0, Y} /\ (down.state = "RD" => down.filefd = "open")
  /\ Len(down.data) <= file.size
  /\ Sane => \A i \in 1..Len(down.data) : down.data[i] = i

Quiet(s) == \A i \in 1..Len(s) : s[i].t \in {"ENQ", "SOH", "EOT", "CAN", "NR"}
NoAT(s) == \A i \in 1..Len(s) : s[i].t # "AT"

\* The upload has given up, and no block is on the line; the download has.
Over == up.state = "aborted" /\ Quiet(u2d)
DownGone == down.state = "aborted" /\ (up.state = "aborted" \/ (up.state # "done" /\ NoAT(d2u)))

\* Before the data.
Asked ==
  down.state = "R" /\ down.data = <<>> /\ down.yappc = 0 /\ up.state = "S" /\ u2d = <<Msg("ENQ")>> /\ d2u = <<>>
Greeted ==
  /\ down.state = "RH" /\ down.data = <<>> /\ down.yappc = 0
  /\ \/ up.state = "S" /\ u2d = <<>> /\ d2u = <<Msg("RR")>>
     \/ up.state = "SH" /\ u2d = <<Msg("SOH")>> /\ d2u = <<>>
Ready ==
  /\ down.state = "RD" /\ down.data = <<>> /\ down.yappc = Y
  /\ up.state = "SH" /\ u2d = <<>>
  /\ \/ d2u = <<Msg("RS")>>
     \/ d2u = <<Msg("RT")>> /\ Y = 1
     \/ d2u = <<Msg("RF")>> /\ Y = 0

\* s is what is on the line of the blocks, t what follows them.
InData ==
  /\ down.state = "RD" /\ down.yappc = Y /\ up.yappc = Y
  /\ \E s, t \in Seq(Token) :
       /\ Like(u2d, s \o t, errors)
       /\ <<up.pos, s \o up.out>> \in Streams(file.size, Y, Len(down.data))
       /\ \/ up.state = "SD" /\ t = <<>> /\ d2u = <<>>
          \/ up.state = "SE" /\ t = <<Msg("ETX")>> /\ up.pos = file.size /\ d2u = <<>>
          \/ up.state = "aborted" /\ t \in {<<>>, <<Msg("CAN")>>}
          \/ up.state = "aborted" /\ up.out = <<>> /\ up.pos = file.size
             /\ t \in {<<Msg("ETX")>>, <<Msg("ETX"), Msg("CAN")>>}

\* An empty file in YAPP C: a checksum without a block.
Stray ==
  /\ file.size = 0 /\ down.state = "RD" /\ down.data = <<>>
  /\ \/ up.state = "SD" /\ Len(up.out) = 1 /\ up.out[1].t = "byte" /\ u2d = <<>> /\ d2u = <<>>
     \/ /\ up.state \in {"SE", "aborted"} /\ Len(u2d) = 2 /\ u2d[1].t = "byte"
        /\ up.state = "SE" => d2u = <<>>
     \/ up.state = "aborted" /\ Len(u2d) = 3 /\ u2d[1].t = "byte"

\* Behind the data.
AtEnd ==
  /\ down.state = "RH" /\ Len(down.data) = file.size
  /\ \/ up.state = "SE" /\ u2d = <<>> /\ d2u = <<Msg("AF")>>
     \/ up.state = "ST" /\ u2d = <<Msg("EOT")>> /\ d2u = <<>>
AllDone ==
  /\ down.state = "done" /\ Len(down.data) = file.size /\ u2d = <<>>
  /\ \/ up.state = "ST" /\ d2u = <<Msg("AT")>>
     \/ up.state = "done"

Phase == Over \/ DownGone \/ Asked \/ Greeted \/ Ready \/ InData \/ Stray \/ AtEnd \/ AllDone
Inv == Types /\ UpCounts /\ Written /\ Phase

\* The invariant gives the property.
LEMMA InvSafe == Inv => YappSafe
<1> SUFFICES ASSUME Inv PROVE YappSafe
  OBVIOUS
<1>1. Types /\ UpCounts /\ Written /\ Phase
  BY DEF Inv
<1>2. /\ file.size \in Nat /\ up \in Record(file.size) /\ errors \in 0..MaxErrors
      /\ down \in [state : DownStates, yappc : {0, 1}, filefd : {"open", "none"}, data : Seq(Nat)]
  BY <1>1 DEF Types
<1>3. Len(down.data) \in Nat /\ DOMAIN down.data = 1..Len(down.data) /\ Len(up.out) \in Nat
  BY <1>2 DEF Record
<1>4. TypeOK
  BY <1>1, <1>2, <1>3, YappConstants DEF TypeOK, UpCounts, Written, Record
<1>5. Integrity
  <2>1. Y \in {0, 1} /\ (down.yappc = 0 \/ down.yappc = Y)
    BY <1>1 DEF Y, Written
  <2>2. errors <= down.yappc => errors <= Y
    BY <1>2, <2>1
  <2> QED BY <1>1, <1>3, <2>2 DEF Integrity, Written, Sane
<1>6. DoneMeansDelivered
  <2>1. up.state = "done" => AllDone
    BY <1>1 DEF Phase, Over, DownGone, Asked, Greeted, Ready, InData, Stray, AtEnd
  <2> QED BY <1>1, <2>1 DEF DoneMeansDelivered, AllDone, UpCounts
<1> QED BY <1>4, <1>5, <1>6 DEF YappSafe

-----------------------------------------------------------------------------
(* Streams of messages *)

LEMMA Tokens ==
  /\ \A m \in Kinds : Msg(m) \in Token /\ Msg(m).t = m
  /\ \A n \in Nat : STX(n) \in Token /\ STX(n).t = "STX" /\ STX(n).n = n
BY DEF Msg, STX, Token, Kinds

\* A message is added.
LEMMA Added ==
  ASSUME NEW s \in Seq(Token), NEW x \in Token
  PROVE  /\ Append(s, x) \in Seq(Token) /\ <<x>> \in Seq(Token)
         /\ Append(s, x) = s \o <<x>> /\ Append(<<>>, x) = <<x>> /\ <<>> \o <<x>> = <<x>>
         /\ Append(s, x) # <<>> /\ Len(Append(s, x)) = Len(s) + 1 /\ Len(s) \in Nat
         /\ (\A i \in 1..Len(s) : Append(s, x)[i] = s[i]) /\ Append(s, x)[Len(s) + 1] = x
         /\ Quiet(s) /\ x.t \in {"ENQ", "SOH", "EOT", "CAN", "NR"} => Quiet(Append(s, x))
         /\ NoAT(s) /\ x.t # "AT" => NoAT(Append(s, x))
<1>1. /\ Append(s, x) \in Seq(Token) /\ <<x>> \in Seq(Token)
      /\ Append(s, x) = s \o <<x>> /\ Append(<<>>, x) = <<x>> /\ <<>> \o <<x>> = <<x>>
      /\ Append(s, x) # <<>>
  OBVIOUS
<1> DEFINE a == Append(s, x)
<1>2. /\ Len(a) = Len(s) + 1 /\ Len(s) \in Nat
      /\ (\A i \in 1..Len(s) : a[i] = s[i]) /\ a[Len(s) + 1] = x
  OBVIOUS
<1> HIDE DEF a
<1>3. \A i \in 1..Len(a) : i \in 1..Len(s) \/ i = Len(s) + 1
  BY <1>2
<1>4. Quiet(s) /\ x.t \in {"ENQ", "SOH", "EOT", "CAN", "NR"} => Quiet(a)
  BY <1>2, <1>3 DEF Quiet
<1>5. NoAT(s) /\ x.t # "AT" => NoAT(a)
  BY <1>2, <1>3 DEF NoAT
<1> QED BY <1>1, <1>2, <1>4, <1>5 DEF a

\* One message.
LEMMA One ==
  ASSUME NEW x \in Token
  PROVE  /\ <<x>> \in Seq(Token) /\ Len(<<x>>) = 1 /\ <<x>>[1] = x /\ <<x>> # <<>>
         /\ Head(<<x>>) = x /\ Tail(<<x>>) = <<>>
         /\ x.t \in {"ENQ", "SOH", "EOT", "CAN", "NR"} => Quiet(<<x>>)
         /\ x.t # "AT" => NoAT(<<x>>)
<1>1. /\ <<x>> \in Seq(Token) /\ Len(<<x>>) = 1 /\ <<x>>[1] = x /\ <<x>> # <<>>
      /\ Head(<<x>>) = x /\ Tail(<<x>>) = <<>>
  OBVIOUS
<1> DEFINE s == <<x>>
<1> HIDE DEF s
<1>2. Len(s) = 1 /\ s[1] = x
  BY <1>1 DEF s
<1>3. x.t \in {"ENQ", "SOH", "EOT", "CAN", "NR"} => Quiet(s)
  BY <1>2 DEF Quiet
<1>4. x.t # "AT" => NoAT(s)
  BY <1>2 DEF NoAT
<1> QED BY <1>1, <1>3, <1>4 DEF s

LEMMA Two ==
  ASSUME NEW z \in Token, NEW x \in Token
  PROVE  Append(<<z>>, x) = <<z, x>> /\ <<z, x>> \in Seq(Token) /\ Len(<<z, x>>) = 2
         /\ <<z, x>>[1] = z /\ <<z, x>>[2] = x
<1> DEFINE a == Append(<<z>>, x)
           b == <<z, x>>
<1>1. b \in Seq(Token) /\ Len(b) = 2 /\ b[1] = z /\ b[2] = x
  OBVIOUS
<1>2. a \in Seq(Token) /\ Len(a) = 2 /\ a[1] = z /\ a[2] = x
  OBVIOUS
<1> HIDE DEF a, b
<1>3. a = b
  BY <1>1, <1>2
<1> QED BY <1>1, <1>3 DEF a, b

LEMMA Nothing == Quiet(<<>>) /\ NoAT(<<>>) /\ Len(<<>>) = 0
BY DEF Quiet, NoAT

\* The first n are taken.
LEMMA Taken ==
  ASSUME NEW s \in Seq(Token), NEW n \in 0..Len(s)
  PROVE  /\ SubSeq(s, n + 1, Len(s)) \in Seq(Token) /\ Len(SubSeq(s, n + 1, Len(s))) = Len(s) - n
         /\ Quiet(s) => Quiet(SubSeq(s, n + 1, Len(s)))
         /\ NoAT(s) => NoAT(SubSeq(s, n + 1, Len(s)))
<1> DEFINE a == SubSeq(s, n + 1, Len(s))
           m == Len(s)
<1>1. m \in Nat /\ n \in 0..m
  OBVIOUS
<1>2. a \in Seq(Token) /\ Len(a) = m - n /\ \A i \in 1..m - n : a[i] = s[n + i]
  OBVIOUS
<1> HIDE DEF a, m
<1>3. \A i \in 1..Len(a) : n + i \in 1..m /\ a[i] = s[n + i]
  BY <1>1, <1>2
<1>4. Quiet(s) => Quiet(a)
  BY <1>3 DEF Quiet, m
<1>5. NoAT(s) => NoAT(a)
  BY <1>3 DEF NoAT, m
<1> QED BY <1>2, <1>4, <1>5 DEF a, m

LEMMA TailTaken ==
  ASSUME NEW s \in Seq(Token), s # <<>>
  PROVE  /\ Head(s) \in Token /\ Head(s) = s[1] /\ Len(s) \in Nat /\ Len(s) >= 1
         /\ Tail(s) \in Seq(Token) /\ Tail(s) = SubSeq(s, 2, Len(s))
         /\ NoAT(s) => NoAT(Tail(s)) /\ Head(s).t # "AT"
<1>1. /\ Head(s) \in Token /\ Head(s) = s[1] /\ Len(s) \in Nat /\ Len(s) >= 1 /\ Tail(s) \in Seq(Token)
  OBVIOUS
<1>2. Tail(s) = SubSeq(s, 2, Len(s))
  BY TailIsSubSeq
<1>3. NoAT(s) => NoAT(SubSeq(s, 1 + 1, Len(s)))
  BY <1>1, Taken
<1>4. NoAT(s) => Head(s).t # "AT"
  BY <1>1 DEF NoAT
<1>5. NoAT(s) => NoAT(Tail(s))
  <2>1. 1 + 1 = 2
    OBVIOUS
  <2> QED BY <1>2, <1>3, <2>1
<1> QED BY <1>1, <1>2, <1>4, <1>5, Zenon

-----------------------------------------------------------------------------
(* Either side gives up *)

\* The upload, with or without a CAN message.
LEMMA UpGivesUp ==
  ASSUME Inv, up.state \notin Ended, up' = [up EXCEPT !.state = "aborted"],
         u2d' = u2d \/ u2d' = Append(u2d, Msg("CAN")), d2u' \in Seq(Token),
         UNCHANGED <<file, down, errors>>
  PROVE  Inv'
<1> DEFINE C == Msg("CAN")
<1>1. Types /\ UpCounts /\ Written /\ Phase
  BY DEF Inv
<1>2. C \in Token /\ C.t = "CAN" /\ Msg("ENQ") \in Token /\ Msg("SOH") \in Token
  BY Tokens DEF Kinds
<1>3. file' = file /\ down' = down /\ errors' = errors /\ Y' = Y
  BY DEF Y
<1>4. up \in Record(file.size) /\ u2d \in Seq(Token)
  BY <1>1 DEF Types
<1>5. /\ up'.state = "aborted" /\ up'.out = up.out /\ up'.pos = up.pos /\ up'.total = up.total
      /\ up'.yappc = up.yappc /\ up' \in Record(file.size)
  BY <1>4 DEF Record, UpStates, Ended
<1>6. up.state # "aborted" /\ up.state # "done"
  BY DEF Ended
<1> HIDE DEF C
<1>7. u2d' \in Seq(Token) /\ (Quiet(u2d) => Quiet(u2d'))
  BY <1>2, <1>4, Added DEF C
<1>8. Types'
  BY <1>1, <1>3, <1>5, <1>7 DEF Types
<1>9. UpCounts'
  BY <1>1, <1>3, <1>5 DEF UpCounts
<1>10. Written'
  BY <1>1, <1>3, <1>5, <1>6 DEF Written, Sane
<1>11. Phase'
  <2>1. CASE DownGone
    BY <1>3, <1>5, <2>1 DEF DownGone, Phase
  <2>2. CASE Asked \/ Greeted \/ Ready \/ AtEnd \/ AllDone
    <3>1. Quiet(<<>>) /\ Quiet(<<Msg("ENQ")>>) /\ Quiet(<<Msg("SOH")>>) /\ Quiet(<<Msg("EOT")>>)
      BY Nothing, One, Tokens DEF Kinds
    <3>2. Quiet(u2d)
      BY <2>2, <3>1 DEF Asked, Greeted, Ready, AtEnd, AllDone
    <3>3. Over'
      BY <1>5, <1>7, <3>2 DEF Over
    <3> QED BY <3>3 DEF Phase
  <2>3. CASE InData
    <3>1. down.state = "RD" /\ down.yappc = Y /\ up.yappc = Y
      BY <2>3 DEF InData
    <3>2. PICK s \in Seq(Token), t \in Seq(Token) :
       /\ Like(u2d, s \o t, errors)
       /\ <<up.pos, s \o up.out>> \in Streams(file.size, Y, Len(down.data))
       /\ \/ up.state = "SD" /\ t = <<>>
          \/ up.state = "SE" /\ t = <<Msg("ETX")>> /\ up.pos = file.size
      BY <1>6, <2>3 DEF InData
    <3>3. up.state = "SE" => up.out = <<>>
      BY <1>1 DEF UpCounts
    <3>4. Append(t, C) \in Seq(Token) /\ s \o Append(t, C) = (s \o t) \o <<C>> /\ <<C>> \in Seq(Token)
      <4>1. Append(t, C) = t \o <<C>> /\ <<C>> \in Seq(Token) /\ Append(t, C) \in Seq(Token)
        BY <1>2, Added
      <4> QED BY <4>1, TokenConcat
    <3>5. \E r \in Seq(Token) : /\ Like(u2d', s \o r, errors)
                                /\ r = t \/ r = Append(t, C)
      <4>1. CASE u2d' = u2d
        BY <3>2, <4>1
      <4>2. CASE u2d' = Append(u2d, C)
        <5>1. u2d' = u2d \o <<C>>
          BY <1>2, <1>4, <4>2, Added
        <5>2. Like(u2d', s \o Append(t, C), errors)
          BY <3>2, <3>4, <5>1, LikeConcat
        <5> QED BY <3>4, <5>2
      <4> QED BY <4>1, <4>2 DEF C
    <3>6. PICK r \in Seq(Token) : Like(u2d', s \o r, errors) /\ (r = t \/ r = Append(t, C))
      BY <3>5
    <3>7. \/ r \in {<<>>, <<Msg("CAN")>>}
          \/ up.out = <<>> /\ up.pos = file.size /\ r \in {<<Msg("ETX")>>, <<Msg("ETX"), Msg("CAN")>>}
      <4>1. Append(<<>>, C) = <<Msg("CAN")>> /\ Append(<<Msg("ETX")>>, C) = <<Msg("ETX"), Msg("CAN")>>
        BY <1>2, One, Two, Added, Tokens DEF Kinds, C
      <4> QED BY <3>2, <3>3, <3>6, <4>1
    <3>8. InData'
      BY <1>3, <1>5, <3>1, <3>2, <3>6, <3>7 DEF InData
    <3> QED BY <3>8 DEF Phase
  <2>4. CASE Stray
    <3>1. CASE up.state = "SD"
      <4>1. Over'
        BY <1>5, <1>7, <2>4, <3>1, Nothing DEF Over, Stray
      <4> QED BY <4>1 DEF Phase
    <3>2. CASE up.state # "SD"
      <4>1. Len(u2d) = 2 /\ u2d[1].t = "byte"
        BY <1>6, <2>4, <3>2 DEF Stray
      <4>2. Len(u2d') \in {2, 3} /\ u2d'[1].t = "byte"
        <5>1. CASE u2d' = u2d
          BY <4>1, <5>1
        <5>2. CASE u2d' = Append(u2d, C)
          <6>1. Len(u2d') = Len(u2d) + 1 /\ \A i \in 1..Len(u2d) : u2d'[i] = u2d[i]
            BY <1>2, <1>4, <5>2, Added
          <6> QED BY <4>1, <6>1
        <5> QED BY <5>1, <5>2 DEF C
      <4>3. Stray'
        BY <1>3, <1>5, <2>4, <4>2 DEF Stray
      <4> QED BY <4>3 DEF Phase
    <3> QED BY <3>1, <3>2
  <2>5. ~Over
    BY <1>6 DEF Over
  <2> QED BY <1>1, <2>1, <2>2, <2>3, <2>4, <2>5 DEF Phase
<1> QED BY <1>8, <1>9, <1>10, <1>11 DEF Inv

\* The download, with or without a message.
LEMMA DownGivesUp ==
  ASSUME Inv, down.state \notin Ended, down' = [down EXCEPT !.state = "aborted"],
         d2u' = d2u \/ d2u' = Append(d2u, Msg("CAN")) \/ d2u' = Append(d2u, Msg("NR")),
         u2d' \in Seq(Token), UNCHANGED <<file, up, errors>>
  PROVE  Inv'
<1>1. Types /\ UpCounts /\ Written /\ Phase
  BY DEF Inv
<1>2. file' = file /\ up' = up /\ errors' = errors /\ Y' = Y
  BY DEF Y
<1>3. d2u \in Seq(Token) /\ down \in [state : DownStates, yappc : {0, 1}, filefd : {"open", "none"}, data : Seq(Nat)]
  BY <1>1 DEF Types
<1>4. /\ down'.state = "aborted" /\ down'.data = down.data /\ down'.yappc = down.yappc
      /\ down' \in [state : DownStates, yappc : {0, 1}, filefd : {"open", "none"}, data : Seq(Nat)]
  BY <1>3 DEF DownStates, Ended
<1>5. d2u' \in Seq(Token) /\ (NoAT(d2u) => NoAT(d2u'))
  <2>1. Msg("CAN") \in Token /\ Msg("CAN").t = "CAN" /\ Msg("NR") \in Token /\ Msg("NR").t = "NR"
    BY Tokens DEF Kinds
  <2>2. \A x \in Token : x.t # "AT" => /\ Append(d2u, x) \in Seq(Token)
                                       /\ NoAT(d2u) => NoAT(Append(d2u, x))
    BY <1>3, Added
  <2>3. \A x \in {Msg("CAN"), Msg("NR")} : x \in Token /\ x.t # "AT"
    BY <2>1
  <2>4. CASE d2u' = d2u
    BY <1>3, <2>4
  <2>5. ASSUME NEW x \in {Msg("CAN"), Msg("NR")}, d2u' = Append(d2u, x)
        PROVE  d2u' \in Seq(Token) /\ (NoAT(d2u) => NoAT(d2u'))
    <3>1. Append(d2u, x) \in Seq(Token) /\ (NoAT(d2u) => NoAT(Append(d2u, x)))
      BY <2>2, <2>3
    <3> QED BY <2>5, <3>1
  <2> QED BY <2>4, <2>5
<1>6. Types'
  BY <1>1, <1>2, <1>4, <1>5 DEF Types
<1>7. UpCounts'
  BY <1>1, <1>2 DEF UpCounts
<1>8. Written'
  BY <1>1, <1>2, <1>4 DEF Written, Sane
<1>9. up.state = "aborted" \/ (up.state # "done" /\ NoAT(d2u))
  <2>1. ~DownGone /\ ~AllDone
    BY DEF DownGone, AllDone, Ended
  <2>2. /\ NoAT(<<>>) /\ NoAT(<<Msg("RR")>>) /\ NoAT(<<Msg("RS")>>) /\ NoAT(<<Msg("RT")>>)
        /\ NoAT(<<Msg("RF")>>) /\ NoAT(<<Msg("AF")>>)
    BY Nothing, One, Tokens DEF Kinds
  <2>3. CASE InData
    BY <2>2, <2>3 DEF InData
  <2>4. CASE Stray
    BY <2>2, <2>4 DEF Stray
  <2>5. CASE Asked \/ Greeted \/ Ready \/ AtEnd \/ Over
    BY <2>2, <2>5 DEF Asked, Greeted, Ready, AtEnd, Over
  <2> QED BY <1>1, <2>1, <2>3, <2>4, <2>5 DEF Phase
<1>10. DownGone'
  BY <1>2, <1>4, <1>5, <1>9 DEF DownGone
<1> QED BY <1>6, <1>7, <1>8, <1>10 DEF Inv, Phase

-----------------------------------------------------------------------------
(* The upload *)

LEMMA ReadBlockIs ==
  ASSUME Types, NEW p \in 0..file.size
  PROVE  ReadBlock(p) = Part(file.size, p)
BY DEF ReadBlock, Part, Content

LEMMA UpRecord ==
  ASSUME NEW N \in Nat, NEW state \in UpStates, NEW y \in {0, 1}, NEW pos \in 0..N, NEW o \in Seq(Token),
         NEW total \in Nat
  PROVE  [state |-> state, yappc |-> y, pos |-> pos, out |-> o, total |-> total] \in Record(N)
BY DEF Record

LEMMA FirstPart ==
  ASSUME NEW N \in Nat, NEW b, b = Part(N, 0)
  PROVE  /\ b \in Seq(Nat) /\ Len(b) \in Nat /\ Len(b) <= readlen /\ Len(b) \in 0..N
         /\ (b = <<>> <=> N = 0) /\ (N = 0 => Len(b) = 0)
<1>1. 0 \in 0..N /\ readlen \in 1..253
  BY YappConstants
<1>2. b \in Seq(Nat) /\ Len(b) \in 0..readlen /\ 0 + Len(b) \in 0..N /\ (b = <<>> <=> 0 = N)
      /\ (Len(b) = 0 <=> 0 = N)
  BY <1>1, PartIs
<1>3. Len(b) \in Nat /\ Len(b) <= readlen /\ Len(b) \in 0..N
  BY <1>1, <1>2
<1> QED BY <1>2, <1>3, Zenon

\* The first block.
LEMMA StartDataGoes ==
  ASSUME Types, UpCounts, up.state \in {"S", "SH"}, NEW y \in {0, 1}, StartData(y), UNCHANGED file
  PROVE  /\ up' \in Record(file.size) /\ UpCounts' /\ u2d' \in Seq(Token)
         /\ up'.state = "SD" /\ up'.yappc = y
         /\ up'.pos = Len(Part(file.size, 0)) /\ up'.out = OutBuffer(Part(file.size, 0), y)
         /\ u2d' = IF file.size = 0 THEN u2d ELSE Append(u2d, STX(Len(Part(file.size, 0))))
<1> DEFINE b == Part(file.size, 0)
<1>1. file.size \in Nat /\ up \in Record(file.size) /\ u2d \in Seq(Token)
  BY DEF Types
<1>2. 0 \in 0..file.size
  BY <1>1
<1>3. ReadBlock(0) = b
  BY <1>2, ReadBlockIs
<1>4. /\ b \in Seq(Nat) /\ Len(b) \in Nat /\ Len(b) <= readlen /\ Len(b) \in 0..file.size
      /\ (b = <<>> <=> file.size = 0)
  <2>1. file.size \in Nat
    BY <1>1
  <2> HIDE DEF b
  <2>2. b = Part(file.size, 0)
    BY DEF b
  <2> QED BY <2>1, <2>2, FirstPart
<1> HIDE DEF b
<1>5. OutBuffer(b, y) \in Seq(Token) /\ Len(OutBuffer(b, y)) = Len(b) + y
  BY <1>4, OutBufferIs
<1>6. /\ up' = [up EXCEPT !.state = "SD", !.yappc = y, !.pos = Len(b), !.out = OutBuffer(b, y)]
      /\ u2d' = IF b = <<>> THEN u2d ELSE Append(u2d, STX(Len(b)))
  BY <1>3 DEF StartData
<1>7. /\ up'.state = "SD" /\ up'.yappc = y /\ up'.pos = Len(b) /\ up'.out = OutBuffer(b, y)
      /\ up'.total = up.total /\ up' \in Record(file.size)
  BY <1>1, <1>4, <1>5, <1>6 DEF Record, UpStates
<1>8. u2d' \in Seq(Token)
  BY <1>1, <1>4, <1>6, Tokens, Added
<1>9. up.total = 0
  BY DEF UpCounts
<1>10. UpCounts'
  <2>1. file' = file
    OBVIOUS
  <2> QED BY <1>1, <1>4, <1>5, <1>7, <1>9, <2>1, YappConstants DEF UpCounts
<1> QED BY <1>4, <1>6, <1>7, <1>8, <1>10 DEF b

\* The data begin.
LEMMA DataBegin ==
  ASSUME Types, UpCounts, up.state \in {"S", "SH"}, StartData(Y), u2d = <<>>, d2u' = <<>>,
         down.state = "RD", down.yappc = Y, down.data = <<>>, UNCHANGED <<file, down, errors>>
  PROVE  (InData \/ Stray)'
<1> DEFINE N == file.size
           b == Part(N, 0)
<1>1. N \in Nat /\ 0 \in 0..N /\ Y \in {0, 1}
  BY DEF Types, Y
<1>2. file' = file /\ down' = down /\ errors' = errors /\ Y' = Y /\ Len(down.data) = 0
  BY Nothing DEF Y
<1>3. /\ up'.state = "SD" /\ up'.yappc = Y /\ up'.pos = Len(b) /\ up'.out = OutBuffer(b, Y)
      /\ u2d' = IF N = 0 THEN <<>> ELSE Append(<<>>, STX(Len(b)))
  BY <1>1, StartDataGoes
<1>4. b \in Seq(Nat) /\ Len(b) \in Nat /\ (N = 0 => b = <<>> /\ Len(b) = 0)
  BY <1>1, FirstPart
<1>5. OutBuffer(b, Y) \in Seq(Token) /\ Len(OutBuffer(b, Y)) = Len(b) + Y
      /\ (Y = 1 => OutBuffer(b, Y)[Len(b) + 1] = Byte(checksum(b)))
  BY <1>1, <1>4, OutBufferIs
<1>6. <<>> \in Seq(Token) /\ <<0, <<>>>> \in Streams(N, Y, 0)
  BY <1>1, NilToken, StreamNil
<1>7. CASE N = 0 /\ Y = 0
  <2>1. u2d' = <<>> /\ up'.pos = 0 /\ up'.out = <<>> /\ up'.yappc = 0
    BY <1>3, <1>4, <1>5, <1>7
  <2>2. <<>> \o <<>> = <<>> /\ Like(<<>>, <<>>, errors)
    BY <1>6, LikeSame, ConcatEmptySeq
  <2>3. /\ Like(u2d', <<>> \o <<>>, errors')
        /\ <<up'.pos, <<>> \o up'.out>> \in Streams(file'.size, Y', Len(down'.data))
    BY <1>2, <1>6, <2>1, <2>2, Zenon
  <2>4. InData'
    BY <1>2, <1>3, <1>6, <2>3 DEF InData
  <2> QED BY <2>4
<1>8. CASE N = 0 /\ Y = 1
  <2>1. u2d' = <<>> /\ Len(up'.out) = 1 /\ up'.out[1] = Byte(checksum(b))
    <3>1. Len(b) = 0 /\ 0 + 1 = 1
      BY <1>4, <1>8
    <3>2. Len(OutBuffer(b, Y)) = 1 /\ OutBuffer(b, Y)[1] = Byte(checksum(b))
      BY <1>5, <1>8, <3>1
    <3> QED BY <1>3, <1>8, <3>2
  <2>2. Stray'
    BY <1>2, <1>3, <1>8, <2>1 DEF Stray, Byte
  <2> QED BY <2>2
<1>9. CASE N # 0
  <2> DEFINE x == STX(Len(b))
  <2>1. x \in Token
    BY <1>4, Tokens
  <2>2. /\ <<x>> \in Seq(Token) /\ u2d' = <<x>> /\ <<x>> \o <<>> = <<x>>
    <3>1. <<x>> \in Seq(Token) /\ Append(<<>>, x) = <<x>>
      BY <1>6, <2>1, Added
    <3>2. <<x>> \o <<>> = <<x>>
      BY <3>1
    <3> QED BY <1>3, <1>9, <3>1, <3>2
  <2>3. <<x>> \o up'.out = Block(N, Y, 0)
    BY <1>3 DEF Block
  <2>4. <<up'.pos, <<x>> \o up'.out>> \in Streams(N, Y, 0)
    <3>1. 0 < N
      BY <1>1, <1>9
    <3>2. <<0 + Len(Part(N, 0)), <<>> \o Block(N, Y, 0)>> \in Streams(N, Y, 0)
      BY <1>1, <1>6, <3>1, StreamMore
    <3>3. 0 + Len(Part(N, 0)) = up'.pos
      BY <1>3, <1>4
    <3>4. <<>> \o Block(N, Y, 0) = Block(N, Y, 0)
      BY <1>1, BlockIs
    <3> QED BY <2>3, <3>2, <3>3, <3>4
  <2>5. Like(<<x>>, <<x>> \o <<>>, errors)
    BY <2>2, LikeSame
  <2> HIDE DEF x
  <2>6. InData'
    BY <1>2, <1>3, <1>6, <2>2, <2>4, <2>5 DEF InData
  <2> QED BY <2>6
<1> QED BY <1>1, <1>7, <1>8, <1>9

LEMMA UpReplies ==
  ASSUME Types, NEW state \in UpStates, NEW m \in Kinds, UpReply(state, m)
  PROVE  /\ up' \in Record(file.size) /\ u2d' \in Seq(Token) /\ u2d' = Append(u2d, Msg(m))
         /\ up'.state = state /\ up'.yappc = up.yappc /\ up'.pos = up.pos /\ up'.out = up.out
         /\ up'.total = up.total
<1>1. up \in Record(file.size) /\ u2d \in Seq(Token)
  BY DEF Types
<1>2. up' = [up EXCEPT !.state = state] /\ u2d' = Append(u2d, Msg(m))
  BY DEF UpReply
<1>3. u2d' \in Seq(Token)
  BY <1>1, <1>2, Tokens, Added
<1> QED BY <1>1, <1>2, <1>3 DEF Record

\* What UploadData chooses from.
LEMMA UploadDataIs ==
  ASSUME NEW m, UploadData(m)
  PROVE  \/ up' = [up EXCEPT !.state = "aborted"] /\ (u2d' = u2d \/ u2d' = Append(u2d, Msg("CAN")))
         \/ up.state = "S" /\ m.t = "RR" /\ UpReply("SH", "SOH")
         \/ up.state = "S" /\ m.t = "RF" /\ StartData(up.yappc)
         \/ up.state = "SH" /\ m.t = "RF" /\ StartData(up.yappc)
         \/ up.state = "SH" /\ m.t = "RT" /\ StartData(1)
         \/ up.state = "SE" /\ m.t = "AF" /\ UpReply("ST", "EOT")
         \/ up.state = "ST" /\ m.t = "AT" /\ up' = [up EXCEPT !.state = "done"] /\ u2d' = u2d
<1>1. UpReply("aborted", "CAN") => up' = [up EXCEPT !.state = "aborted"] /\ u2d' = Append(u2d, Msg("CAN"))
  BY DEF UpReply
<1> QED BY <1>1 DEF UploadData

\* Where the upload can hear something.
LEMMA UpHears ==
  ASSUME Phase, up.state \notin Ended, d2u # <<>>
  PROVE  \/ DownGone /\ NoAT(d2u)
         \/ Greeted /\ up.state = "S" /\ u2d = <<>> /\ d2u = <<Msg("RR")>>
         \/ Ready
         \/ AtEnd /\ up.state = "SE" /\ u2d = <<>> /\ d2u = <<Msg("AF")>>
         \/ AllDone /\ up.state = "ST" /\ d2u = <<Msg("AT")>>
<1>1. up.state # "aborted" /\ up.state # "done"
  BY DEF Ended
<1>2. ~Over /\ ~Asked /\ ~Stray
  BY <1>1 DEF Over, Asked, Stray
<1>3. ~InData
  BY <1>1 DEF InData
<1> QED BY <1>1, <1>2, <1>3 DEF Phase, DownGone, Greeted, AtEnd, AllDone

LEMMA UpReadKeeps ==
  ASSUME Inv, UpRead
  PROVE  Inv'
<1> DEFINE m == Head(d2u)
<1>1. Types /\ UpCounts /\ Written /\ Phase
  BY DEF Inv
<1>2. /\ up.state \notin Ended /\ d2u # <<>> /\ UploadData(m) /\ d2u' = Tail(d2u)
      /\ file' = file /\ down' = down /\ errors' = errors /\ Y' = Y
  BY DEF UpRead, Y
<1>3. /\ file.size \in Nat /\ up \in Record(file.size) /\ u2d \in Seq(Token) /\ d2u \in Seq(Token)
      /\ up.state # "aborted" /\ up.state # "done"
  BY <1>1, <1>2 DEF Types, Ended
<1>4. d2u' \in Seq(Token) /\ (NoAT(d2u) => NoAT(d2u') /\ m.t # "AT")
  BY <1>2, <1>3, TailTaken
<1>5. \A x \in Token : d2u = <<x>> => m = x /\ d2u' = <<>>
  BY <1>2, One
<1>6. /\ \A k \in Kinds : Msg(k) \in Token /\ Msg(k).t = k
      /\ {"RR", "RF", "RT", "RS", "AF", "AT", "SOH", "EOT"} \subseteq Kinds
  BY Tokens DEF Kinds
<1>7. \/ DownGone /\ NoAT(d2u)
      \/ Greeted /\ up.state = "S" /\ u2d = <<>> /\ d2u = <<Msg("RR")>>
      \/ Ready
      \/ AtEnd /\ up.state = "SE" /\ u2d = <<>> /\ d2u = <<Msg("AF")>>
      \/ AllDone /\ up.state = "ST" /\ d2u = <<Msg("AT")>>
  BY <1>1, <1>2, UpHears
<1> HIDE DEF m
<1>8. ASSUME up'.state # "aborted" PROVE Written'
  BY <1>1, <1>2, <1>3, <1>8 DEF Written, Sane
<1>9. ASSUME up' \in Record(file.size), u2d' \in Seq(Token) PROVE Types'
  BY <1>1, <1>2, <1>4, <1>9 DEF Types
<1>10. ASSUME DownGone, NoAT(d2u), up'.state # "done" PROVE Phase'
  <2>1. DownGone'
    BY <1>2, <1>4, <1>10 DEF DownGone
  <2> QED BY <2>1 DEF Phase
<1>11. CASE up' = [up EXCEPT !.state = "aborted"] /\ (u2d' = u2d \/ u2d' = Append(u2d, Msg("CAN")))
  BY <1>2, <1>4, <1>11, UpGivesUp
<1>12. CASE up.state = "S" /\ m.t = "RR" /\ UpReply("SH", "SOH")
  <2>1. /\ up' \in Record(file.size) /\ u2d' \in Seq(Token) /\ u2d' = Append(u2d, Msg("SOH"))
        /\ up'.state = "SH" /\ up'.yappc = up.yappc /\ up'.pos = up.pos /\ up'.out = up.out /\ up'.total = up.total
    BY <1>1, <1>6, <1>12, UpReplies DEF UpStates
  <2>2. UpCounts'
    BY <1>1, <1>2, <1>12, <2>1 DEF UpCounts
  <2>3. Phase'
    <3>1. CASE DownGone /\ NoAT(d2u)
      BY <1>10, <2>1, <3>1
    <3>2. CASE Greeted /\ u2d = <<>> /\ d2u = <<Msg("RR")>>
      <4>1. u2d' = <<Msg("SOH")>> /\ d2u' = <<>>
        BY <1>5, <1>6, <2>1, <3>2, Added
      <4>2. Greeted'
        BY <1>2, <2>1, <3>2, <4>1 DEF Greeted
      <4> QED BY <4>2 DEF Phase
    <3>3. ~Ready
      BY <1>12 DEF Ready
    <3> QED BY <1>7, <1>12, <3>1, <3>2, <3>3
  <2> QED BY <1>8, <1>9, <2>1, <2>2, <2>3 DEF Inv
<1>13. ASSUME up.state \in {"S", "SH"}, NEW y \in {0, 1}, StartData(y), m.t \in {"RF", "RT"},
              Ready => up.state = "SH" /\ y = Y
       PROVE  Inv'
  <2>1. up' \in Record(file.size) /\ UpCounts' /\ u2d' \in Seq(Token) /\ up'.state = "SD"
    BY <1>1, <1>2, <1>13, StartDataGoes
  <2>2. Phase'
    <3>1. CASE DownGone /\ NoAT(d2u)
      BY <1>10, <2>1, <3>1
    <3>2. CASE Ready
      <4>1. u2d = <<>> /\ d2u' = <<>> /\ down.state = "RD" /\ down.yappc = Y /\ down.data = <<>>
        BY <1>5, <1>6, <3>2 DEF Ready
      <4>2. (InData \/ Stray)'
        BY <1>1, <1>2, <1>13, <3>2, <4>1, DataBegin
      <4> QED BY <4>2 DEF Phase
    <3>3. m.t # "RR" /\ m.t # "AF" /\ m.t # "AT"
      BY <1>13
    <3>4. d2u = <<Msg("RR")>> => m.t = "RR"
      BY <1>5, <1>6
    <3> QED BY <1>7, <1>13, <3>1, <3>2, <3>3, <3>4
  <2> QED BY <1>8, <1>9, <2>1, <2>2 DEF Inv
<1>14. Ready => \/ m.t = "RS"
                \/ m.t = "RT" /\ Y = 1
                \/ m.t = "RF" /\ Y = 0
  BY <1>5, <1>6 DEF Ready
<1>15. CASE up.state \in {"S", "SH"} /\ m.t = "RF" /\ StartData(up.yappc)
  <2>1. up.yappc = 0 /\ (Ready => up.state = "SH")
    BY <1>1, <1>15 DEF UpCounts, Ready
  <2> QED BY <1>13, <1>14, <1>15, <2>1
<1>16. CASE up.state = "SH" /\ m.t = "RT" /\ StartData(1)
  BY <1>13, <1>14, <1>16
<1>17. CASE up.state = "SE" /\ m.t = "AF" /\ UpReply("ST", "EOT")
  <2>1. /\ up' \in Record(file.size) /\ u2d' \in Seq(Token) /\ u2d' = Append(u2d, Msg("EOT"))
        /\ up'.state = "ST" /\ up'.yappc = up.yappc /\ up'.pos = up.pos /\ up'.out = up.out /\ up'.total = up.total
    BY <1>1, <1>6, <1>17, UpReplies DEF UpStates
  <2>2. UpCounts'
    BY <1>1, <1>2, <1>17, <2>1 DEF UpCounts
  <2>3. Phase'
    <3>1. CASE DownGone /\ NoAT(d2u)
      BY <1>10, <2>1, <3>1
    <3>2. CASE AtEnd /\ u2d = <<>> /\ d2u = <<Msg("AF")>>
      <4>1. u2d' = <<Msg("EOT")>> /\ d2u' = <<>>
        BY <1>5, <1>6, <2>1, <3>2, Added
      <4>2. AtEnd'
        BY <1>2, <2>1, <3>2, <4>1 DEF AtEnd
      <4> QED BY <4>2 DEF Phase
    <3>3. ~Ready
      BY <1>17 DEF Ready
    <3> QED BY <1>7, <1>17, <3>1, <3>2, <3>3
  <2> QED BY <1>8, <1>9, <2>1, <2>2, <2>3 DEF Inv
<1>18. CASE up.state = "ST" /\ m.t = "AT" /\ up' = [up EXCEPT !.state = "done"] /\ u2d' = u2d
  <2>1. /\ up' \in Record(file.size) /\ u2d' \in Seq(Token)
        /\ up'.state = "done" /\ up'.pos = up.pos /\ up'.out = up.out /\ up'.total = up.total
    BY <1>3, <1>18 DEF Record, UpStates, Ended
  <2>2. UpCounts'
    BY <1>1, <1>2, <1>18, <2>1 DEF UpCounts
  <2>3. AllDone
    BY <1>4, <1>7, <1>18 DEF Ready
  <2>4. AllDone'
    BY <1>2, <1>18, <2>1, <2>3 DEF AllDone
  <2> QED BY <1>8, <1>9, <2>1, <2>2, <2>4 DEF Inv, Phase
<1> QED BY <1>2, <1>11, <1>12, <1>15, <1>16, <1>17, <1>18, UploadDataIs

\* What has gone out and what has not.
LEMMA Cut ==
  ASSUME NEW o \in Seq(Token), NEW n \in 0..Len(o)
  PROVE  /\ SubSeq(o, 1, n) \in Seq(Token) /\ SubSeq(o, n + 1, Len(o)) \in Seq(Token)
         /\ Len(SubSeq(o, 1, n)) = n /\ Len(SubSeq(o, n + 1, Len(o))) = Len(o) - n
         /\ SubSeq(o, 1, n) \o SubSeq(o, n + 1, Len(o)) = o
         /\ (SubSeq(o, n + 1, Len(o)) = <<>> => n = Len(o) /\ SubSeq(o, 1, n) = o)
<1> DEFINE a == SubSeq(o, 1, n)
           r == SubSeq(o, n + 1, Len(o))
           m == Len(o)
<1>1. m \in Nat /\ n \in 0..m
  OBVIOUS
<1>2. a \in Seq(Token) /\ Len(a) = n /\ \A i \in 1..n : a[i] = o[i]
  BY <1>1
<1>3. r \in Seq(Token) /\ Len(r) = m - n /\ \A i \in 1..m - n : r[i] = o[n + i]
  BY <1>1
<1> HIDE DEF a, r, m
<1>4. a \o r = o
  <2> DEFINE c == a \o r
  <2>1. /\ c \in Seq(Token) /\ Len(c) = m
        /\ \A i \in 1..n : c[i] = a[i]
        /\ \A i \in n + 1..m : c[i] = r[i - n]
    BY <1>1, <1>2, <1>3
  <2>2. \A i \in n + 1..m : i - n \in 1..m - n /\ n + (i - n) = i
    BY <1>1
  <2>3. \A i \in 1..m : c[i] = o[i]
    <3>1. \A i \in 1..m : i \in 1..n \/ i \in n + 1..m
      BY <1>1
    <3> QED BY <1>2, <1>3, <2>1, <2>2, <3>1
  <2> HIDE DEF c
  <2>4. c = o
    BY <2>1, <2>3 DEF m
  <2> QED BY <2>4 DEF c
<1>5. r = <<>> => n = m
  <2>1. r = <<>> => Len(r) = 0
    OBVIOUS
  <2> QED BY <1>1, <1>3, <2>1
<1>6. n = m => a = o
  BY <1>2 DEF m
<1> QED BY <1>2, <1>3, <1>4, <1>5, <1>6 DEF a, r, m

\* UpWrite, and what it does to the counts.
LEMMA UpWriteGoes ==
  ASSUME Types, UpCounts, NEW n, UpWrite(n),
         NEW a, a = SubSeq(up.out, 1, n), NEW r, r = SubSeq(up.out, n + 1, Len(up.out)),
         NEW b, b = Part(file.size, up.pos)
  PROVE  /\ up.state = "SD" /\ n \in 0..Len(up.out)
         /\ a \in Seq(Token) /\ r \in Seq(Token) /\ a \o r = up.out /\ Len(a) = n
         /\ up' \in Record(file.size) /\ UpCounts' /\ u2d' \in Seq(Token) /\ up'.yappc = up.yappc
         /\ \/ r # <<>> /\ up'.state = "SD" /\ up'.out = r /\ up'.pos = up.pos /\ u2d' = u2d \o a
            \/ /\ r = <<>> /\ a = up.out /\ up.pos < file.size /\ up'.state = "SD"
               /\ up'.pos = up.pos + Len(b) /\ up'.out = OutBuffer(b, up.yappc)
               /\ u2d' = Append(u2d \o a, STX(Len(b)))
            \/ /\ r = <<>> /\ a = up.out /\ up.pos = file.size /\ up'.state = "SE"
               /\ up'.pos = up.pos /\ up'.out = <<>> /\ u2d' = Append(u2d \o a, Msg("ETX"))
<1> DEFINE N == file.size
           y == up.yappc
           total == up.total + n
<1>1. /\ N \in Nat /\ up \in Record(N) /\ u2d \in Seq(Token) /\ up.out \in Seq(Token) /\ Len(up.out) \in Nat
      /\ up.pos \in 0..N /\ up.total \in Nat /\ y \in {0, 1}
  BY DEF Types, Record
<1>2. /\ up.state = "SD" /\ n \in 0..Len(up.out) /\ file' = file
      /\ ReadBlock(up.pos) = b
  BY <1>1, ReadBlockIs DEF UpWrite
<1>3. /\ a \in Seq(Token) /\ r \in Seq(Token) /\ Len(a) = n /\ Len(r) = Len(up.out) - n /\ a \o r = up.out
      /\ (r = <<>> => n = Len(up.out) /\ a = up.out)
  BY <1>1, <1>2, Cut
<1>4. /\ b \in Seq(Nat) /\ Len(b) \in Nat /\ Len(b) <= readlen /\ up.pos + Len(b) \in 0..N
      /\ (b = <<>> <=> up.pos = N)
  <2>1. b \in Seq(Nat) /\ Len(b) \in 0..readlen /\ up.pos + Len(b) \in 0..N /\ (b = <<>> <=> up.pos = N)
    BY <1>1, PartIs
  <2> QED BY <2>1, YappConstants
<1>5. u2d \o a \in Seq(Token)
  BY <1>1, <1>3, ConcatProperties
<1>6. /\ up.total + Len(up.out) = up.pos + y /\ Len(up.out) <= readlen + 1 /\ up.total <= N + 1
  BY <1>2 DEF UpCounts
<1>7. \/ r # <<>> /\ up' = [up EXCEPT !.out = r, !.total = total] /\ u2d' = u2d \o a
      \/ /\ r = <<>> /\ b # <<>> /\ u2d' = Append(u2d \o a, STX(Len(b)))
         /\ up' = [up EXCEPT !.pos = @ + Len(b), !.total = total - y, !.out = OutBuffer(b, y)]
      \/ /\ r = <<>> /\ b = <<>> /\ u2d' = Append(u2d \o a, Msg("ETX"))
         /\ up' = [up EXCEPT !.state = "SE", !.out = <<>>, !.total = total - y]
  BY <1>2 DEF UpWrite, BlockTotal
<1>8. /\ n \in Nat /\ total \in Nat /\ total <= N + 1 /\ Len(up.out) - n <= readlen + 1
      /\ total + (Len(up.out) - n) = up.pos + y /\ (n = Len(up.out) => total - y = up.pos)
      /\ Len(b) + y <= readlen + 1 /\ up.pos \in Nat /\ up.pos <= N + 1
      /\ up.pos + (Len(b) + y) = (up.pos + Len(b)) + y
  <2> DEFINE l == Len(up.out)
             k == Len(b)
             p == up.pos
             c == up.total
  <2>1. N \in Nat /\ p \in 0..N /\ c \in Nat /\ l \in Nat /\ y \in {0, 1} /\ n \in 0..l /\ k \in Nat
    BY <1>1, <1>2, <1>4
  <2>2. c + l = p + y /\ l <= readlen + 1 /\ k <= readlen /\ p + k \in 0..N
    BY <1>4, <1>6
  <2> HIDE DEF N, y, l, k, p, c
  <2>3. /\ n \in Nat /\ c + n \in Nat /\ c + n <= N + 1 /\ l - n <= readlen + 1
        /\ (c + n) + (l - n) = p + y /\ (n = l => (c + n) - y = p)
        /\ k + y <= readlen + 1 /\ p \in Nat /\ p <= N + 1 /\ p + (k + y) = (p + k) + y
    BY <2>1, <2>2, YappConstants
  <2> QED BY <2>3 DEF l, k, p, c
<1> HIDE DEF total
<1>9. CASE r # <<>> /\ up' = [up EXCEPT !.out = r, !.total = total] /\ u2d' = u2d \o a
  <2>1. /\ up'.state = "SD" /\ up'.out = r /\ up'.pos = up.pos /\ up'.yappc = y /\ up'.total = total
        /\ up' \in Record(N)
    BY <1>1, <1>2, <1>3, <1>8, <1>9 DEF Record
  <2>2. Len(r) <= readlen + 1 /\ total <= N + 1 /\ total + Len(r) = up.pos + y
    BY <1>3, <1>8
  <2>3. UpCounts'
    BY <1>2, <2>1, <2>2 DEF UpCounts
  <2> QED BY <1>2, <1>3, <1>5, <1>9, <2>1, <2>3
<1>10. CASE /\ r = <<>> /\ b # <<>> /\ u2d' = Append(u2d \o a, STX(Len(b)))
            /\ up' = [up EXCEPT !.pos = @ + Len(b), !.total = total - y, !.out = OutBuffer(b, y)]
  <2> DEFINE o == OutBuffer(b, y)
  <2>1. o \in Seq(Token) /\ Len(o) = Len(b) + y
    BY <1>1, <1>4, OutBufferIs
  <2>2. up' = [up EXCEPT !.pos = @ + Len(b), !.total = total - y, !.out = o]
    BY <1>10
  <2> HIDE DEF o
  <2>3. /\ up'.state = "SD" /\ up'.out = o /\ up'.pos = up.pos + Len(b) /\ up'.yappc = y /\ up'.total = up.pos
        /\ up' \in Record(N)
    <3>1. total - y = up.pos
      BY <1>3, <1>8, <1>10
    <3>2. up' = [up EXCEPT !.pos = @ + Len(b), !.total = up.pos, !.out = o]
      BY <2>2, <3>1
    <3> QED BY <1>1, <1>2, <1>4, <1>8, <2>1, <3>2 DEF Record
  <2>4. Len(o) <= readlen + 1 /\ up.pos <= N + 1 /\ up.pos + Len(o) = (up.pos + Len(b)) + y
    BY <1>8, <2>1
  <2>5. UpCounts'
    BY <1>2, <2>3, <2>4 DEF UpCounts
  <2>6. u2d' \in Seq(Token)
    BY <1>4, <1>5, <1>10, Tokens, Added
  <2>7. up.pos < N
    BY <1>1, <1>4, <1>10
  <2> QED BY <1>2, <1>3, <1>10, <2>3, <2>5, <2>6, <2>7 DEF o
<1>11. CASE /\ r = <<>> /\ b = <<>> /\ u2d' = Append(u2d \o a, Msg("ETX"))
            /\ up' = [up EXCEPT !.state = "SE", !.out = <<>>, !.total = total - y]
  <2>1. up.pos = N
    BY <1>4, <1>11
  <2>2. /\ up'.state = "SE" /\ up'.out = <<>> /\ up'.pos = up.pos /\ up'.yappc = y /\ up'.total = N
        /\ up' \in Record(N)
    <3>1. total - y = N
      BY <1>3, <1>8, <1>11, <2>1
    <3>2. up' = [up EXCEPT !.state = "SE", !.out = <<>>, !.total = N]
      BY <1>11, <3>1
    <3> QED BY <1>1, <1>2, <2>1, <3>2, NilToken DEF Record, UpStates
  <2>3. UpCounts'
    BY <1>1, <1>2, <2>2, Nothing, YappConstants DEF UpCounts
  <2>4. u2d' \in Seq(Token)
    BY <1>5, <1>11, Tokens, Added DEF Kinds
  <2> QED BY <1>2, <1>3, <1>11, <2>1, <2>2, <2>3, <2>4
<1> QED BY <1>7, <1>9, <1>10, <1>11

LEMMA UpWriteKeeps ==
  ASSUME Inv, NEW n, UpWrite(n)
  PROVE  Inv'
<1> DEFINE N == file.size
           a == SubSeq(up.out, 1, n)
           r == SubSeq(up.out, n + 1, Len(up.out))
           b == Part(N, up.pos)
<1>1. Types /\ UpCounts /\ Written /\ Phase
  BY DEF Inv
<1>2. /\ file' = file /\ down' = down /\ d2u' = d2u /\ errors' = errors /\ Y' = Y
  BY DEF UpWrite, Y
<1>3. /\ up.state = "SD" /\ n \in 0..Len(up.out)
      /\ a \in Seq(Token) /\ r \in Seq(Token) /\ a \o r = up.out /\ Len(a) = n
      /\ up' \in Record(N) /\ UpCounts' /\ u2d' \in Seq(Token) /\ up'.yappc = up.yappc
      /\ \/ r # <<>> /\ up'.state = "SD" /\ up'.out = r /\ up'.pos = up.pos /\ u2d' = u2d \o a
         \/ /\ r = <<>> /\ a = up.out /\ up.pos < N /\ up'.state = "SD"
            /\ up'.pos = up.pos + Len(b) /\ up'.out = OutBuffer(b, up.yappc)
            /\ u2d' = Append(u2d \o a, STX(Len(b)))
         \/ /\ r = <<>> /\ a = up.out /\ up.pos = N /\ up'.state = "SE"
            /\ up'.pos = up.pos /\ up'.out = <<>> /\ u2d' = Append(u2d \o a, Msg("ETX"))
  BY <1>1, UpWriteGoes
<1>4. /\ N \in Nat /\ up.pos \in 0..N /\ up.out \in Seq(Token) /\ u2d \in Seq(Token) /\ Y \in {0, 1}
  BY <1>1 DEF Types, Record, Y
<1>5. /\ b \in Seq(Nat) /\ Len(b) \in Nat /\ Block(N, Y, up.pos) = <<STX(Len(b))>> \o OutBuffer(b, Y)
      /\ OutBuffer(b, Y) \in Seq(Token) /\ STX(Len(b)) \in Token
  <2>1. b \in Seq(Nat) /\ Len(b) \in Nat
    <3>1. b \in Seq(Nat)
      BY <1>4, PartIs
    <3> HIDE DEF b
    <3> QED BY <3>1
  <2>2. OutBuffer(b, Y) \in Seq(Token) /\ STX(Len(b)) \in Token
    BY <1>4, <2>1, OutBufferIs, Tokens
  <2> QED BY <2>1, <2>2 DEF Block
<1>6. Msg("ETX") \in Token /\ Msg("ETX").t = "ETX"
  BY Tokens DEF Kinds
<1> HIDE DEF a, r, b, N
<1>7. Types'
  BY <1>1, <1>2, <1>3 DEF Types, N
<1>8. Written'
  BY <1>1, <1>2, <1>3 DEF Written, Sane
<1>9. Phase'
  <2>1. CASE DownGone
    <3>1. DownGone'
      BY <1>2, <1>3, <2>1 DEF DownGone
    <3> QED BY <3>1 DEF Phase
  <2>2. CASE InData
    <3>1. down.state = "RD" /\ down.yappc = Y /\ up.yappc = Y
      BY <2>2 DEF InData
    <3>2. PICK s \in Seq(Token) : /\ Like(u2d, s \o <<>>, errors) /\ d2u = <<>>
                                  /\ <<up.pos, s \o up.out>> \in Streams(N, Y, Len(down.data))
      BY <1>3, <2>2 DEF InData, N
    <3>3. s \o <<>> = s /\ <<>> \in Seq(Token)
      BY NilToken, ConcatEmptySeq
    <3>4. Like(u2d \o a, s \o a, errors) /\ s \o a \in Seq(Token) /\ u2d \o a \in Seq(Token)
      BY <1>3, <1>4, <3>2, <3>3, LikeConcat, ConcatProperties
    <3>5. ASSUME NEW z \in Seq(Token), z \o <<>> = z => Like(u2d', z \o <<>>, errors),
                 <<up'.pos, z \o up'.out>> \in Streams(N, Y, Len(down.data)), up'.state = "SD"
          PROVE  InData'
      <4>1. z \o <<>> = z
        BY ConcatEmptySeq
      <4>2. /\ Like(u2d', z \o <<>>, errors') /\ d2u' = <<>> /\ up'.yappc = Y'
            /\ <<up'.pos, z \o up'.out>> \in Streams(file'.size, Y', Len(down'.data))
        BY <1>2, <1>3, <3>1, <3>2, <3>5, <4>1 DEF N
      <4> QED BY <1>2, <3>1, <3>3, <3>5, <4>2 DEF InData
    <3>6. CASE up'.state = "SD" /\ up'.out = r /\ up'.pos = up.pos /\ u2d' = u2d \o a
      <4>1. (s \o a) \o up'.out = s \o up.out
        <5>1. (s \o a) \o r = s \o (a \o r)
          BY <1>3, TokenConcat
        <5> QED BY <1>3, <3>6, <5>1
      <4>2. <<up'.pos, (s \o a) \o up'.out>> \in Streams(N, Y, Len(down.data))
        BY <3>2, <3>6, <4>1
      <4>3. InData'
        BY <3>4, <3>5, <3>6, <4>2
      <4> QED BY <4>3 DEF Phase
    <3>7. CASE /\ r = <<>> /\ a = up.out /\ up.pos < N /\ up'.state = "SD"
               /\ up'.pos = up.pos + Len(b) /\ up'.out = OutBuffer(b, up.yappc)
               /\ u2d' = Append(u2d \o a, STX(Len(b)))
      <4> DEFINE x == STX(Len(b))
                 z == (s \o a) \o <<x>>
      <4>1. <<x>> \in Seq(Token) /\ u2d' = (u2d \o a) \o <<x>>
        BY <1>5, <3>4, <3>7, Added
      <4>2. z \in Seq(Token) /\ Like(u2d', z, errors)
        BY <3>4, <4>1, LikeConcat, ConcatProperties
      <4>3. z \o up'.out = (s \o up.out) \o Block(N, Y, up.pos)
        <5>1. z \o up'.out = (s \o a) \o (<<x>> \o up'.out)
          <6>1. up'.out \in Seq(Token)
            BY <1>5, <3>1, <3>7
          <6> HIDE DEF x
          <6> QED BY <3>4, <4>1, <6>1, TokenConcat, Zenon
        <5> QED BY <1>5, <3>1, <3>7, <5>1
      <4>4. Len(down.data) \in 0..N
        BY <1>1, <1>4 DEF Types, Written, N
      <4>5. <<up.pos + Len(Part(N, up.pos)), (s \o up.out) \o Block(N, Y, up.pos)>> \in Streams(N, Y, Len(down.data))
        BY <1>3, <1>4, <3>2, <3>4, <3>7, <4>4, StreamMore
      <4>6. <<up'.pos, z \o up'.out>> \in Streams(N, Y, Len(down.data))
        BY <3>7, <4>3, <4>5 DEF b
      <4> HIDE DEF z
      <4>7. InData'
        BY <3>5, <3>7, <4>2, <4>6
      <4> QED BY <4>7 DEF Phase
    <3>8. CASE /\ r = <<>> /\ a = up.out /\ up.pos = N /\ up'.state = "SE"
               /\ up'.pos = up.pos /\ up'.out = <<>> /\ u2d' = Append(u2d \o a, Msg("ETX"))
      <4> DEFINE x == Msg("ETX")
      <4>1. <<x>> \in Seq(Token) /\ u2d' = (u2d \o a) \o <<x>>
        BY <1>6, <3>4, <3>8, Added
      <4>2. Like(u2d', (s \o a) \o <<x>>, errors)
        BY <3>4, <4>1, LikeConcat
      <4>3. (s \o a) \o <<>> = s \o a
        BY <3>4, ConcatEmptySeq
      <4>4. <<up'.pos, (s \o a) \o up'.out>> \in Streams(N, Y, Len(down.data))
        BY <3>2, <3>8, <4>3
      <4> DEFINE z == s \o a
      <4> HIDE DEF z, x
      <4>5. z \in Seq(Token) /\ Like(u2d', z \o <<x>>, errors') /\ <<x>> \in Seq(Token) /\ <<x>> = <<Msg("ETX")>>
            /\ <<up'.pos, z \o up'.out>> \in Streams(file'.size, Y', Len(down'.data))
        BY <1>2, <3>4, <4>1, <4>2, <4>4 DEF z, x, N
      <4>6. InData'
        BY <1>2, <1>3, <3>1, <3>2, <3>8, <4>5 DEF InData, N
      <4> QED BY <4>6 DEF Phase
    <3> QED BY <1>3, <3>6, <3>7, <3>8
  <2>3. CASE Stray
    <3>1. /\ N = 0 /\ down.state = "RD" /\ down.data = <<>> /\ Len(up.out) = 1 /\ up.out[1].t = "byte"
          /\ u2d = <<>> /\ d2u = <<>>
      BY <1>3, <2>3 DEF Stray, N
    <3>2. \/ r # <<>> /\ up'.state = "SD" /\ up'.out = r /\ up'.pos = up.pos /\ u2d' = u2d \o a
          \/ up'.state = "SE" /\ u2d' = Append(u2d \o a, Msg("ETX")) /\ a = up.out
      BY <1>3, <1>4, <3>1
    <3>3. <<>> \o a = a
      BY <1>3, ConcatEmptySeq
    <3>4. CASE up'.state = "SE" /\ u2d' = Append(u2d \o a, Msg("ETX")) /\ a = up.out
      <4>1. u2d' = Append(a, Msg("ETX"))
        BY <3>1, <3>3, <3>4
      <4>2. Len(u2d') = Len(a) + 1 /\ \A i \in 1..Len(a) : u2d'[i] = a[i]
        BY <1>3, <1>6, <4>1, Added
      <4>3. Len(u2d') = 2 /\ u2d'[1].t = "byte"
        BY <3>1, <3>4, <4>2
      <4>4. Stray'
        BY <1>2, <3>1, <3>4, <4>3 DEF Stray, N
      <4> QED BY <4>4 DEF Phase
    <3>5. CASE r # <<>>
      <4>1. n = 1 \/ n = 0
        BY <1>3, <3>1
      <4>2. n # 0
        BY <3>1, Nothing DEF UpWrite
      <4>3. r = <<>>
        BY <3>1, <4>1, <4>2 DEF r
      <4> QED BY <3>5, <4>3
    <3> QED BY <3>2, <3>4, <3>5
  <2>4. ~Over /\ ~Asked /\ ~Greeted /\ ~Ready /\ ~AtEnd /\ ~AllDone
    BY <1>3 DEF Over, Asked, Greeted, Ready, AtEnd, AllDone
  <2> QED BY <1>1, <2>1, <2>2, <2>3, <2>4 DEF Phase
<1> QED BY <1>3, <1>7, <1>8, <1>9 DEF Inv

-----------------------------------------------------------------------------
(* The link *)

LEMMA DamageKeeps ==
  ASSUME Inv, NEW i \in DOMAIN u2d, DamageByte(i)
  PROVE  Inv'
<1>1. Types /\ UpCounts /\ Written /\ Phase
  BY DEF Inv
<1>2. /\ errors \in Nat /\ MaxErrors \in Nat /\ errors < MaxErrors /\ errors' = errors + 1
      /\ u2d \in Seq(Token) /\ i \in 1..Len(u2d) /\ u2d[i].t = "byte"
      /\ u2d' = [u2d EXCEPT ![i].n = Plus(@, 1)]
      /\ file' = file /\ up' = up /\ down' = down /\ d2u' = d2u /\ Y' = Y /\ Y \in {0, 1}
  <2>1. u2d' = [u2d EXCEPT ![i].n = (@ + 1) % 256]
    BY DEF DamageByte
  <2>2. u2d' = [u2d EXCEPT ![i].n = Plus(@, 1)]
    BY <2>1 DEF Plus
  <2>3. errors \in 0..MaxErrors /\ MaxErrors \in Nat
    BY <1>1, YappConstants DEF Types
  <2>4. errors \in Nat /\ MaxErrors \in Nat
    BY <2>3
  <2>5. u2d \in Seq(Token) /\ i \in 1..Len(u2d)
    BY <1>1 DEF Types
  <2> QED BY <2>2, <2>4, <2>5 DEF DamageByte, Y
<1>3. u2d' \in Seq(Token) /\ Len(u2d') = Len(u2d) /\ \A j \in 1..Len(u2d) : u2d'[j].t = u2d[j].t
  <2>1. Like(u2d, u2d, errors)
    BY <1>2, LikeSame
  <2>2. Like(u2d', u2d, errors + 1)
    BY <1>2, <2>1, LikeDamage
  <2> QED BY <2>2 DEF Like
<1>4. Types' /\ UpCounts'
  BY <1>1, <1>2, <1>3 DEF Types, UpCounts
<1>5. Written'
  <2>1. errors + 1 <= Y => errors <= Y
    BY <1>2
  <2> QED BY <1>1, <1>2, <2>1 DEF Written, Sane
<1>6. Phase'
  <2>1. CASE DownGone
    BY <1>2, <2>1 DEF DownGone, Phase
  <2>2. CASE InData
    <3>1. PICK s \in Seq(Token), t \in Seq(Token) :
       /\ Like(u2d, s \o t, errors)
       /\ <<up.pos, s \o up.out>> \in Streams(file.size, Y, Len(down.data))
       /\ \/ up.state = "SD" /\ t = <<>> /\ d2u = <<>>
          \/ up.state = "SE" /\ t = <<Msg("ETX")>> /\ up.pos = file.size /\ d2u = <<>>
          \/ up.state = "aborted" /\ t \in {<<>>, <<Msg("CAN")>>}
          \/ up.state = "aborted" /\ up.out = <<>> /\ up.pos = file.size
             /\ t \in {<<Msg("ETX")>>, <<Msg("ETX"), Msg("CAN")>>}
      BY <2>2 DEF InData
    <3>2. Like(u2d', s \o t, errors')
      BY <1>2, <3>1, LikeDamage
    <3>3. down.state = "RD" /\ down.yappc = Y /\ up.yappc = Y
      BY <2>2 DEF InData
    <3>4. InData'
      BY <1>2, <3>1, <3>2, <3>3 DEF InData
    <3> QED BY <3>4 DEF Phase
  <2>3. CASE Stray
    <3>1. 1 \in 1..Len(u2d)
      BY <1>2
    <3>2. u2d # <<>>
      BY <1>2, Nothing
    <3>3. Stray'
      BY <1>2, <1>3, <2>3, <3>1, <3>2 DEF Stray
    <3> QED BY <3>3 DEF Phase
  <2>4. ~Over
    BY <1>2 DEF Over, Quiet
  <2>5. \A m \in {"ENQ", "SOH", "EOT"} : u2d # <<Msg(m)>>
    <3>1. ASSUME NEW m \in {"ENQ", "SOH", "EOT"}, u2d = <<Msg(m)>> PROVE FALSE
      <4>1. Msg(m) \in Token /\ Msg(m).t = m
        BY Tokens DEF Kinds
      <4>2. Quiet(u2d)
        BY <3>1, <4>1, One
      <4> QED BY <1>2, <4>2 DEF Quiet
    <3> QED BY <3>1
  <2>6. u2d # <<>>
    BY <1>2, Nothing
  <2> QED BY <1>1, <2>1, <2>2, <2>3, <2>4, <2>5, <2>6 DEF Phase, Asked, Greeted, Ready, AtEnd, AllDone
<1> QED BY <1>4, <1>5, <1>6 DEF Inv

-----------------------------------------------------------------------------
(* The download *)

\* If a and b are c and r, and a is as long as c, a goes on after c.
SameText(a, b, c, r) == a \o b = c \o r /\ Len(c) <= Len(a)
GoesOn(a, b, c, r) == \E e \in Seq(Token) : a = c \o e /\ e \o b = r

LEMMA Prefix ==
  ASSUME NEW a \in Seq(Token), NEW b \in Seq(Token), NEW c \in Seq(Token), NEW r \in Seq(Token),
         SameText(a, b, c, r)
  PROVE  GoesOn(a, b, c, r)
<1> DEFINE n == Len(c)
           e == SubSeq(a, n + 1, Len(a))
           h == SubSeq(a, 1, n)
<1>0. a \o b = c \o r /\ Len(c) <= Len(a)
  BY DEF SameText
<1>1. n \in Nat /\ Len(a) \in Nat /\ n \in 0..Len(a) /\ Len(b) \in Nat /\ Len(r) \in Nat
  BY <1>0
<1>2. e \in Seq(Token) /\ h \in Seq(Token) /\ Len(h) = n /\ h \o e = a
  BY <1>1, Cut
<1>3. \A i \in 1..n : h[i] = a[i]
  BY <1>1
<1>4. \A i \in 1..n : a[i] = c[i]
  <2>1. \A i \in 1..n : (a \o b)[i] = a[i]
    BY <1>1
  <2>2. \A i \in 1..n : (c \o r)[i] = c[i]
    BY <1>1
  <2> QED BY <1>0, <2>1, <2>2
<1> HIDE DEF e, h
<1>5. h = c
  <2>1. Len(h) = Len(c) /\ \A i \in 1..Len(h) : h[i] = c[i]
    BY <1>2, <1>3, <1>4
  <2> QED BY <1>2, <2>1, SeqEqual
<1>6. c \o (e \o b) = c \o r
  <2>1. (c \o e) \o b = c \o (e \o b)
    BY <1>2, TokenConcat
  <2> QED BY <1>0, <1>2, <1>5, <2>1, Zenon
<1>7. e \o b \in Seq(Token)
  BY <1>2, ConcatProperties
<1>8. e \o b = r
  <2> DEFINE x == e \o b
  <2>1. x \in Seq(Token) /\ c \o x = c \o r
    BY <1>6, <1>7
  <2> HIDE DEF x
  <2>2. SubSeq(c \o x, Len(c) + 1, Len(c \o x)) = x
    BY <2>1, DropConcat
  <2>3. SubSeq(c \o r, Len(c) + 1, Len(c \o r)) = r
    BY DropConcat
  <2>4. x = r
    BY <2>1, <2>2, <2>3, Zenon
  <2> QED BY <2>4 DEF x
<1> QED BY <1>2, <1>5, <1>8 DEF GoesOn

\* What is at the head of the line while data go, with d of N bytes written
\* and n in the next block: that block, the beginning of it, or what ends the data.
AtHead(N, d, n) ==
  \/ \E s, t \in Seq(Token) :
       /\ Like(u2d, Block(N, Y, d) \o (s \o t), errors)
       /\ <<up.pos, s \o up.out>> \in Streams(N, Y, d + n)
       /\ \/ up.state = "SD" /\ t = <<>> /\ d2u = <<>>
          \/ up.state = "SE" /\ t = <<Msg("ETX")>> /\ up.pos = N /\ d2u = <<>>
          \/ up.state = "aborted" /\ t \in {<<>>, <<Msg("CAN")>>}
          \/ up.state = "aborted" /\ up.out = <<>> /\ up.pos = N
             /\ t \in {<<Msg("ETX")>>, <<Msg("ETX"), Msg("CAN")>>}
  \/ u2d[1] = STX(n) /\ Len(u2d) < n + Y + 1
  \/ u2d[1] = STX(n) /\ Len(u2d) = n + Y + 1 /\ up.state = "aborted" /\ up.out # <<>>
  \/ /\ d = N /\ u2d[1].t = "ETX"
     /\ \/ Len(u2d) = 1 /\ up.state = "SE" /\ d2u = <<>>
        \/ Len(u2d) = 1 /\ up.state = "aborted"
        \/ Len(u2d) = 2 /\ up.state = "aborted" /\ u2d[2].t = "CAN"
  \/ u2d[1].t = "CAN"

LEMMA InDataHead ==
  ASSUME Types, UpCounts, Written, InData, u2d # <<>>,
         NEW N, N = file.size, NEW d, d = Len(down.data), NEW n, n = Len(Part(N, d))
  PROVE  N \in Nat /\ d \in 0..N /\ n \in Nat /\ AtHead(N, d, n)
<1>1. /\ N \in Nat /\ d \in 0..N /\ Y \in {0, 1} /\ u2d \in Seq(Token) /\ up.out \in Seq(Token)
      /\ Len(u2d) \in Nat /\ 1 \in 1..Len(u2d)
  BY DEF Types, Record, Written, Y
<1>2. n \in Nat
  <2>1. Part(N, d) \in Seq(Nat)
    BY <1>1, PartIs
  <2> QED BY <2>1
<1>3. PICK s \in Seq(Token), t \in Seq(Token) :
       /\ Like(u2d, s \o t, errors)
       /\ <<up.pos, s \o up.out>> \in Streams(N, Y, d)
       /\ \/ up.state = "SD" /\ t = <<>> /\ d2u = <<>>
          \/ up.state = "SE" /\ t = <<Msg("ETX")>> /\ up.pos = N /\ d2u = <<>>
          \/ up.state = "aborted" /\ t \in {<<>>, <<Msg("CAN")>>}
          \/ up.state = "aborted" /\ up.out = <<>> /\ up.pos = N
             /\ t \in {<<Msg("ETX")>>, <<Msg("ETX"), Msg("CAN")>>}
  BY DEF InData
<1>4. /\ Msg("ETX") \in Token /\ Msg("ETX").t = "ETX" /\ Msg("CAN") \in Token /\ Msg("CAN").t = "CAN"
      /\ Msg("NR") \in Token
  BY Tokens DEF Kinds
<1>5. s \o t \in Seq(Token) /\ Len(u2d) = Len(s) + Len(t) /\ Len(s) \in Nat /\ Len(t) \in Nat
      /\ \A i \in 1..Len(u2d) : u2d[i].t = (s \o t)[i].t /\ ((s \o t)[i].t # "byte" => u2d[i] = (s \o t)[i])
  <2>1. s \o t \in Seq(Token) /\ Len(s \o t) = Len(s) + Len(t) /\ Len(s) \in Nat /\ Len(t) \in Nat
    OBVIOUS
  <2>2. Len(u2d) = Len(s \o t)
        /\ \A i \in 1..Len(u2d) : u2d[i].t = (s \o t)[i].t /\ ((s \o t)[i].t # "byte" => u2d[i] = (s \o t)[i])
    BY <1>3 DEF Like
  <2> QED BY <2>1, <2>2
<1>6. CASE s = <<>>
  <2>1. s \o t = t /\ Len(s) = 0
    BY <1>6, ConcatEmptySeq, Nothing
  <2>2. Len(t) = Len(u2d) /\ \A i \in 1..Len(u2d) : u2d[i].t = t[i].t
    BY <1>5, <2>1
  <2>3. t # <<>>
    BY <1>1, <2>2, Nothing
  <2>4. /\ Len(<<Msg("CAN")>>) = 1 /\ <<Msg("CAN")>>[1] = Msg("CAN")
        /\ Len(<<Msg("ETX")>>) = 1 /\ <<Msg("ETX")>>[1] = Msg("ETX")
        /\ Len(<<Msg("ETX"), Msg("CAN")>>) = 2 /\ <<Msg("ETX"), Msg("CAN")>>[1] = Msg("ETX")
        /\ <<Msg("ETX"), Msg("CAN")>>[2] = Msg("CAN")
    BY <1>4, One, Two
  <2>5. CASE t = <<Msg("CAN")>>
    <3>1. u2d[1].t = "CAN"
      BY <1>1, <1>4, <2>2, <2>4, <2>5
    <3> QED BY <1>1, <1>2, <3>1 DEF AtHead
  <2>6. CASE t = <<Msg("ETX")>> \/ t = <<Msg("ETX"), Msg("CAN")>>
    <3>1. up.pos = N /\ up.out = <<>>
      <4>1. <<Msg("ETX")>> # <<Msg("CAN")>> /\ <<Msg("ETX"), Msg("CAN")>> # <<Msg("CAN")>>
            /\ <<Msg("ETX"), Msg("CAN")>> # <<Msg("ETX")>>
        BY <1>4, <2>4
      <4> QED BY <1>3, <2>3, <2>6, <4>1 DEF UpCounts
    <3>2. d = N
      <4>1. s \o up.out = <<>>
        BY <1>6, <3>1, NilToken, ConcatEmptySeq
      <4>2. <<N, <<>>>> \in Streams(N, Y, d)
        BY <1>3, <3>1, <4>1
      <4>3. ASSUME d < N PROVE FALSE
        <5>1. \/ N = d /\ <<>> = <<>>
              \/ \E r \in Seq(Token) : <<>> = Block(N, Y, d) \o r /\ <<N, r>> \in Streams(N, Y, d + Len(Part(N, d)))
          BY <1>1, <4>2, <4>3, StreamHead
        <5>0. N # d
          BY <1>1, <4>3
        <5>2. PICK r \in Seq(Token) : <<>> = Block(N, Y, d) \o r
          BY <5>0, <5>1, Zenon
        <5>3. Block(N, Y, d) \in Seq(Token) /\ Block(N, Y, d) # <<>>
          <6>1. Block(N, Y, d) \in Seq(Token) /\ Len(Block(N, Y, d)) = 1 + n + Y
            BY <1>1, BlockIs
          <6> QED BY <1>1, <1>2, <6>1, Nothing
        <5>4. Block(N, Y, d) \o r # <<>>
          <6> DEFINE x == Block(N, Y, d)
          <6> HIDE DEF x
          <6>1. x \in Seq(Token) /\ x # <<>>
            BY <5>3 DEF x
          <6>2. x \o r # <<>>
            BY <6>1, ConcatEqualIffEmpty
          <6> QED BY <6>2 DEF x
        <5> QED BY <5>2, <5>4
      <4> QED BY <1>1, <4>3
    <3>3. u2d[1].t = "ETX"
      BY <1>1, <1>4, <2>2, <2>4, <2>6
    <3>4. \/ Len(u2d) = 1 /\ up.state = "SE" /\ d2u = <<>>
          \/ Len(u2d) = 1 /\ up.state = "aborted"
          \/ Len(u2d) = 2 /\ up.state = "aborted" /\ u2d[2].t = "CAN"
      <4>1. CASE t = <<Msg("ETX")>>
        BY <1>3, <2>2, <2>3, <2>4, <4>1
      <4>2. CASE t = <<Msg("ETX"), Msg("CAN")>>
        <5>1. 2 \in 1..Len(u2d) /\ Len(u2d) = 2
          <6>1. Len(u2d) = 2
            BY <2>2, <2>4, <4>2, Zenon
          <6> QED BY <6>1
        <5>2. up.state = "aborted"
          BY <1>3, <2>3, <2>4, <4>2
        <5> QED BY <1>4, <2>2, <2>4, <4>2, <5>1, <5>2
      <4> QED BY <2>6, <4>1, <4>2
    <3> QED BY <1>1, <1>2, <3>2, <3>3, <3>4 DEF AtHead
  <2> QED BY <1>3, <2>3, <2>5, <2>6
<1>7. CASE s # <<>>
  <2> DEFINE B == Block(N, Y, d)
  <2>1. B \in Seq(Token) /\ Len(B) = n + Y + 1 /\ B[1] = STX(n)
    <3>1. B \in Seq(Token) /\ Len(B) = 1 + n + Y /\ B[1] = STX(n)
      BY <1>1, BlockIs
    <3> QED BY <1>1, <1>2, <3>1
  <2>2. s \o up.out # <<>> /\ Len(s) >= 1
    <3>1. s \o up.out # <<>>
      BY <1>1, <1>7, ConcatEqualIffEmpty
    <3> QED BY <1>7, <3>1
  <2>3. d < N
    <3>1. ASSUME d = N PROVE FALSE
      <4>1. s \o up.out = <<>>
        BY <1>1, <1>3, <3>1, StreamEnd
      <4> QED BY <2>2, <4>1
    <3> QED BY <1>1, <3>1
  <2>4. PICK r \in Seq(Token) : s \o up.out = B \o r /\ <<up.pos, r>> \in Streams(N, Y, d + n)
    <3>1. \/ up.pos = d /\ s \o up.out = <<>>
          \/ \E r \in Seq(Token) : /\ s \o up.out = Block(N, Y, d) \o r
                                   /\ <<up.pos, r>> \in Streams(N, Y, d + Len(Part(N, d)))
      <4> DEFINE x == s \o up.out
                 p == up.pos
      <4>1. N \in Nat /\ Y \in {0, 1} /\ d \in 0..N
        BY <1>1
      <4>2. <<p, x>> \in Streams(N, Y, d)
        BY <1>3
      <4> HIDE DEF x, p, B
      <4>3. \/ p = d /\ x = <<>>
            \/ \E r \in Seq(Token) : x = Block(N, Y, d) \o r /\ <<p, r>> \in Streams(N, Y, d + Len(Part(N, d)))
        BY <2>3, <4>1, <4>2, StreamHead
      <4> QED BY <4>3 DEF x, p
    <3> QED BY <2>2, <3>1, Zenon
  <2> HIDE DEF B
  <2>5. CASE Len(B) <= Len(s)
    <3>1. PICK e \in Seq(Token) : s = B \o e /\ e \o up.out = r
      <4>1. up.out \in Seq(Token)
        BY <1>1
      <4>2. B \in Seq(Token) /\ s \o up.out = B \o r
        BY <2>1, <2>4
      <4> DEFINE o == up.out
      <4>3. o \in Seq(Token) /\ s \o o = B \o r
        BY <4>1, <4>2
      <4> HIDE DEF o
      <4>4. GoesOn(s, o, B, r)
        <5>1. SameText(s, o, B, r)
          BY <2>5, <4>3 DEF SameText
        <5>2. s \in Seq(Token) /\ o \in Seq(Token) /\ B \in Seq(Token) /\ r \in Seq(Token)
          BY <4>2, <4>3
        <5> QED BY <5>1, <5>2, Prefix, Zenon
      <4> QED BY <4>4 DEF o, GoesOn
    <3>2. s \o t = B \o (e \o t)
      BY <2>1, <3>1, TokenConcat
    <3>3. Like(u2d, B \o (e \o t), errors)
      BY <1>3, <3>2
    <3>4. <<up.pos, e \o up.out>> \in Streams(N, Y, d + n)
      BY <2>4, <3>1
    <3> QED BY <1>1, <1>2, <1>3, <3>3, <3>4 DEF B, AtHead
  <2>6. CASE Len(s) < Len(B)
    <3>1. (s \o t)[1] = s[1] /\ (s \o up.out)[1] = s[1] /\ (B \o r)[1] = B[1]
      BY <1>1, <2>1, <2>2, <1>2
    <3>2. u2d[1] = STX(n)
      <4>1. (s \o t)[1] = STX(n) /\ STX(n).t # "byte"
        BY <1>2, <2>1, <2>4, <3>1, Tokens
      <4> QED BY <1>1, <1>5, <4>1
    <3>3. up.out # <<>>
      <4>1. Len(s \o up.out) = Len(s) + Len(up.out) /\ Len(B \o r) = Len(B) + Len(r)
            /\ Len(up.out) \in Nat /\ Len(r) \in Nat
        <5>1. B \in Seq(Token) /\ up.out \in Seq(Token)
          BY <1>1, <2>1
        <5> QED BY <5>1, ConcatProperties, LenProperties
      <4>2. Len(up.out) # 0
        BY <1>2, <1>5, <2>1, <2>4, <2>6, <4>1
      <4> QED BY <4>2, Nothing
    <3>4. t = <<>> \/ (up.state = "aborted" /\ t = <<Msg("CAN")>>)
      BY <1>3, <3>3 DEF UpCounts
    <3>5. Len(t) = 0 \/ (up.state = "aborted" /\ Len(t) = 1)
      BY <1>4, <3>4, Nothing, One
    <3>6. \/ Len(u2d) < n + Y + 1
          \/ Len(u2d) = n + Y + 1 /\ up.state = "aborted"
      <4>1. Len(s) < n + Y + 1 /\ Len(u2d) = Len(s) + Len(t) /\ Len(s) \in Nat /\ n \in Nat /\ Y \in {0, 1}
        BY <1>1, <1>2, <1>5, <2>1, <2>6
      <4> DEFINE ls == Len(s)
                 lt == Len(t)
                 lu == Len(u2d)
                 y == Y
      <4>2. /\ ls < n + y + 1 /\ lu = ls + lt /\ ls \in Nat /\ n \in Nat /\ y \in {0, 1}
            /\ lt = 0 \/ (up.state = "aborted" /\ lt = 1)
        BY <3>5, <4>1
      <4> HIDE DEF ls, lt, lu, y
      <4>3. lu < n + y + 1 \/ (lu = n + y + 1 /\ up.state = "aborted")
        <5>1. CASE lt = 0
          BY <4>2, <5>1
        <5>2. CASE up.state = "aborted" /\ lt = 1
          BY <4>2, <5>2
        <5> QED BY <4>2, <5>1, <5>2
      <4> QED BY <4>3 DEF lu, y
    <3> QED BY <1>1, <1>2, <3>2, <3>3, <3>6 DEF AtHead
  <2>7. Len(B) <= Len(s) \/ Len(s) < Len(B)
    <3>1. Len(B) \in Nat /\ Len(s) \in Nat
      BY <1>5, <2>1, LenProperties
    <3> QED BY <3>1
  <2> QED BY <2>5, <2>6, <2>7
<1> QED BY <1>6, <1>7

\* What DownloadData chooses from.
LEMMA DownloadDataIs ==
  ASSUME NEW m, NEW block, NEW sum, DownloadData(m, block, sum)
  PROVE  \/ /\ down' = [down EXCEPT !.state = "aborted"]
            /\ d2u' = d2u \/ d2u' = Append(d2u, Msg("CAN")) \/ d2u' = Append(d2u, Msg("NR"))
         \/ /\ down.state = "R" /\ m.t = "ENQ"
            /\ down' = [down EXCEPT !.state = "RH"] /\ d2u' = Append(d2u, Msg("RR"))
         \/ /\ down.state = "RH" /\ m.t = "SOH"
            /\ down' = [down EXCEPT !.state = "RD", !.yappc = Y, !.filefd = "open"]
            /\ \/ d2u' = Append(d2u, Msg("RS"))
               \/ d2u' = Append(d2u, Msg("RT")) /\ Y = 1
               \/ d2u' = Append(d2u, Msg("RF")) /\ Y = 0
         \/ down.state = "RH" /\ m.t = "ENQ" /\ down' = down /\ d2u' = d2u
         \/ /\ down.state = "RH" /\ m.t = "EOT"
            /\ down' = [down EXCEPT !.state = "done"] /\ d2u' = Append(d2u, Msg("AT"))
         \/ /\ down.state = "RD" /\ m.t = "STX" /\ ~(down.yappc = 1 /\ sum # checksum(block))
            /\ down' = [down EXCEPT !.data = @ \o block] /\ d2u' = d2u
         \/ /\ down.state = "RD" /\ m.t = "ETX"
            /\ down' = [down EXCEPT !.state = "RH", !.filefd = "none"] /\ d2u' = Append(d2u, Msg("AF"))
<1>1. CASE m.t \in Abort
  <2>1. down' = [down EXCEPT !.state = "aborted"] /\ d2u' = d2u
    BY <1>1 DEF DownloadData, Abort, NAK
  <2> QED BY <2>1
<1>2. CASE down.state = "RH" /\ m.t = "SOH" /\ Header
  <2>1. Y \in {0, 1}
    BY DEF Y
  <2> DEFINE reply == CASE Y = 0 -> "RF" [] Y = 1 /\ file.existing > 0 -> "RS" [] OTHER -> "RT"
  <2>2. reply = "RS" \/ (reply = "RT" /\ Y = 1) \/ (reply = "RF" /\ Y = 0)
    BY <2>1
  <2>3. \/ DownReply("aborted", "NR")
        \/ /\ down' = [down EXCEPT !.state = "RD", !.yappc = Y, !.filefd = "open"]
           /\ d2u' = Append(d2u, Msg(reply))
    BY <1>2 DEF Header, Y
  <2> HIDE DEF reply, Y
  <2>4. CASE DownReply("aborted", "NR")
    BY <2>4 DEF DownReply
  <2>5. CASE /\ down' = [down EXCEPT !.state = "RD", !.yappc = Y, !.filefd = "open"]
             /\ d2u' = Append(d2u, Msg(reply))
    BY <1>2, <2>2, <2>5
  <2> QED BY <2>3, <2>4, <2>5
<1>3. CASE m.t \notin Abort /\ ~(down.state = "RH" /\ m.t = "SOH")
  <2>1. \/ down.state = "R" /\ m.t = "ENQ" /\ DownReply("RH", "RR")
        \/ down.state = "RH" /\ m.t = "ENQ" /\ UNCHANGED <<down, d2u>>
        \/ down.state = "RH" /\ m.t = "EOT" /\ DownReply("done", "AT")
        \/ down.state = "RD" /\ m.t = "STX" /\ Data(block, sum)
        \/ /\ down.state = "RD" /\ m.t = "ETX" /\ down' = [down EXCEPT !.state = "RH", !.filefd = "none"]
           /\ d2u' = Append(d2u, Msg("AF"))
        \/ DownReply("aborted", "CAN")
    BY <1>3 DEF DownloadData
  <2> QED BY <2>1 DEF DownReply, Data
<1> QED BY <1>1, <1>2, <1>3 DEF DownloadData, Abort, NAK

\* The message at the head.
LEMMA DownReadIs ==
  ASSUME Types, DownRead
  PROVE  /\ down.state \notin Ended /\ u2d # <<>> /\ u2d \in Seq(Token) /\ Len(u2d) \in Nat /\ 1 \in 1..Len(u2d)
         /\ u2d[1] \in Token /\ u2d[1].n \in Nat
         /\ file' = file /\ up' = up /\ errors' = errors
         /\ u2d[1].t = "STX" => MsgLen = 1 + u2d[1].n + down.yappc
         /\ u2d[1].t \notin {"STX", "byte"} => MsgLen = 1
         /\ MsgLen \in 1..Len(u2d) /\ u2d' = SubSeq(u2d, MsgLen + 1, Len(u2d)) /\ u2d' \in Seq(Token)
         /\ Quiet(u2d) => Quiet(u2d')
<1> DEFINE m == u2d[1]
<1>1. /\ u2d \in Seq(Token) /\ u2d # <<>> /\ Len(u2d) \in Nat /\ down.yappc \in {0, 1}
      /\ m \in Token /\ 1 \in 1..Len(u2d) /\ Head(u2d) = m
  <2>1. u2d \in Seq(Token) /\ u2d # <<>> /\ down.yappc \in {0, 1}
    BY DEF Types, DownRead
  <2>2. Head(u2d) \in Token /\ Head(u2d) = u2d[1] /\ Len(u2d) \in Nat /\ Len(u2d) >= 1
    BY <2>1, TailTaken
  <2> QED BY <2>1, <2>2
<1> HIDE DEF m
<1>2. m.n \in Nat
  BY <1>1 DEF Token
<1>3. MsgLen = CASE m.t = "STX" -> 1 + m.n + down.yappc [] m.t = "byte" -> 3 [] OTHER -> 1
  BY <1>1 DEF MsgLen
<1>4. MsgLen \in 1..Len(u2d)
  <2>1. MsgLen \in Nat /\ MsgLen >= 1
    BY <1>1, <1>2, <1>3
  <2>2. Len(u2d) >= MsgLen
    BY DEF DownRead, Complete
  <2> QED BY <1>1, <2>1, <2>2
<1>5. u2d' = SubSeq(u2d, MsgLen + 1, Len(u2d))
  BY DEF DownRead
<1>6. u2d' \in Seq(Token) /\ (Quiet(u2d) => Quiet(u2d'))
  <2>1. MsgLen \in 0..Len(u2d)
    BY <1>4
  <2> HIDE DEF MsgLen
  <2> QED BY <1>1, <1>5, <2>1, Taken
<1>7. /\ m.t = "STX" => MsgLen = 1 + m.n + down.yappc
      /\ m.t \notin {"STX", "byte"} => MsgLen = 1
  BY <1>3
<1>8. down.state \notin Ended /\ file' = file /\ up' = up /\ errors' = errors
  BY DEF DownRead
<1> QED BY <1>1, <1>2, <1>4, <1>5, <1>6, <1>7, <1>8 DEF m

\* What is done with it.
LEMMA DownReadData ==
  ASSUME Types, DownRead
  PROVE  \E block, sum : /\ DownloadData(u2d[1], block, sum)
                         /\ u2d[1].t = "STX" => /\ block = [i \in 1..u2d[1].n |-> u2d[i + 1].n]
                                               /\ sum = u2d[MsgLen].n
<1> DEFINE m == u2d[1]
           block == IF m.t = "STX" THEN [i \in 1..m.n |-> u2d[i + 1].n] ELSE <<>>
           sum == IF m.t = "STX" THEN u2d[MsgLen].n ELSE 0
<1>1. Head(u2d) = m
  <2>1. u2d \in Seq(Token) /\ u2d # <<>>
    BY DEF Types, DownRead
  <2> QED BY <2>1, TailTaken
<1>2. DownloadData(m, block, sum)
  BY <1>1 DEF DownRead
<1>3. m.t = "STX" => block = [i \in 1..m.n |-> u2d[i + 1].n] /\ sum = u2d[MsgLen].n
  OBVIOUS
<1> HIDE DEF block, sum
<1> QED BY <1>2, <1>3

LEMMA DataGrow ==
  ASSUME NEW a \in Seq(Nat), NEW b \in Seq(Nat), NEW d, d = Len(a), NEW n, n = Len(b)
  PROVE  /\ a \o b \in Seq(Nat) /\ Len(a \o b) = d + n /\ d \in Nat /\ n \in Nat
         /\ (\A i \in 1..d : a[i] = i) /\ (\A i \in 1..n : b[i] = d + i)
            => \A i \in 1..d + n : (a \o b)[i] = i
<1> DEFINE c == a \o b
<1>1. c \in Seq(Nat) /\ Len(c) = d + n /\ d \in Nat /\ n \in Nat
  OBVIOUS
<1>2. (\A i \in 1..d : c[i] = a[i]) /\ (\A i \in d + 1..d + n : c[i] = b[i - d])
  OBVIOUS
<1> HIDE DEF c
<1>3. ASSUME \A i \in 1..d : a[i] = i, \A i \in 1..n : b[i] = d + i, NEW i \in 1..d + n
      PROVE  c[i] = i
  <2>1. CASE i \in 1..d
    BY <1>2, <1>3, <2>1
  <2>2. CASE i \notin 1..d
    <3>1. i \in d + 1..d + n /\ i - d \in 1..n /\ d + (i - d) = i
      BY <1>1, <2>2
    <3> QED BY <1>2, <1>3, <3>1
  <2> QED BY <2>1, <2>2
<1> QED BY <1>1, <1>3 DEF c

LEMMA BlockTyped ==
  ASSUME NEW u \in Seq(Token), NEW n \in Nat, n + 1 <= Len(u), NEW b, b = [i \in 1..n |-> u[i + 1].n]
  PROVE  b \in Seq(Nat) /\ Len(b) = n
<1>1. Len(u) \in Nat
  OBVIOUS
<1>2. \A i \in 1..n : i + 1 \in 1..Len(u)
  BY <1>1
<1>3. \A i \in 1..n : u[i + 1] \in Token
  BY <1>2
<1>4. \A i \in 1..n : u[i + 1].n \in Nat
  BY <1>3 DEF Token
<1> QED BY <1>4

\* A data block.
LEMMA DataKeeps ==
  ASSUME Inv, DownRead, down.state = "RD", u2d[1].t = "STX",
         NEW block, block = [i \in 1..u2d[1].n |-> u2d[i + 1].n],
         ~(down.yappc = 1 /\ u2d[MsgLen].n # checksum(block)),
         down' = [down EXCEPT !.data = @ \o block], d2u' = d2u
  PROVE  Inv'
<1> DEFINE N == file.size
           d == Len(down.data)
           n == Len(Part(N, d))
           DownRecord == [state : DownStates, yappc : {0, 1}, filefd : {"open", "none"}, data : Seq(Nat)]
<1>1. Types /\ UpCounts /\ Written /\ Phase
  BY DEF Inv
<1>2. /\ u2d # <<>> /\ u2d \in Seq(Token) /\ 1 \in 1..Len(u2d) /\ Len(u2d) \in Nat
      /\ file' = file /\ up' = up /\ errors' = errors /\ Y' = Y
      /\ MsgLen = 1 + u2d[1].n + down.yappc
      /\ MsgLen \in 1..Len(u2d) /\ u2d' = SubSeq(u2d, MsgLen + 1, Len(u2d)) /\ u2d' \in Seq(Token)
      /\ u2d[1].n \in Nat
  <2>1. file' = file => Y' = Y
    BY DEF Y
  <2> QED BY <1>1, <2>1, DownReadIs
<1>3. /\ N \in Nat /\ down \in DownRecord /\ d2u \in Seq(Token) /\ errors \in Nat /\ Y \in {0, 1}
  <2>1. errors \in 0..MaxErrors
    BY <1>1 DEF Types
  <2>2. errors \in Nat
    BY <2>1, YappConstants
  <2> QED BY <1>1, <2>2 DEF Types, Y
<1>4. InData
  <2>1. ~Over
    BY <1>2 DEF Over, Quiet
  <2>2. ~Ready
    BY <1>2 DEF Ready
  <2>3. ~Stray
    BY <1>2 DEF Stray
  <2> QED BY <1>1, <2>1, <2>2, <2>3 DEF Phase, DownGone, Asked, Greeted, AtEnd, AllDone
<1>5. down.yappc = Y /\ up.yappc = Y
  BY <1>4 DEF InData
<1>6. /\ d \in 0..N /\ n \in Nat
      /\ \/ \E s, t \in Seq(Token) :
              /\ Like(u2d, Block(N, Y, d) \o (s \o t), errors)
              /\ <<up.pos, s \o up.out>> \in Streams(N, Y, d + n)
              /\ \/ up.state = "SD" /\ t = <<>> /\ d2u = <<>>
                 \/ up.state = "SE" /\ t = <<Msg("ETX")>> /\ up.pos = N /\ d2u = <<>>
                 \/ up.state = "aborted" /\ t \in {<<>>, <<Msg("CAN")>>}
                 \/ up.state = "aborted" /\ up.out = <<>> /\ up.pos = N
                    /\ t \in {<<Msg("ETX")>>, <<Msg("ETX"), Msg("CAN")>>}
         \/ u2d[1] = STX(n) /\ Len(u2d) < n + Y + 1
         \/ u2d[1] = STX(n) /\ Len(u2d) = n + Y + 1 /\ up.state = "aborted" /\ up.out # <<>>
  <2>1. N = file.size /\ d = Len(down.data) /\ n = Len(Part(N, d))
    OBVIOUS
  <2>2. Types /\ UpCounts /\ Written /\ InData /\ u2d # <<>>
    BY <1>1, <1>2, <1>4
  <2> HIDE DEF N, d, n
  <2>3. N \in Nat /\ d \in 0..N /\ n \in Nat /\ AtHead(N, d, n)
    BY <2>1, <2>2, InDataHead, Zenon
  <2>4. u2d[1].t # "ETX" /\ u2d[1].t # "CAN"
    OBVIOUS
  <2> QED BY <2>3, <2>4, Zenon DEF AtHead
<1> HIDE DEF N, d, n
<1>7. d + n \in 0..N
  BY <1>3, <1>6, PartIs DEF n
<1>8. down.data \in Seq(Nat) /\ Len(down.data) = d
  BY <1>3 DEF d
<1>9. ASSUME block \in Seq(Nat), Len(block) = n,
             Sane => \A i \in 1..n : block[i] = d + i
      PROVE  Types' /\ UpCounts' /\ Written' /\ down'.state = "RD" /\ down'.yappc = Y /\ Len(down'.data) = d + n
  <2>1. /\ down.data \o block \in Seq(Nat) /\ Len(down.data \o block) = d + n
        /\ (\A i \in 1..d : down.data[i] = i) /\ (\A i \in 1..n : block[i] = d + i)
            => \A i \in 1..d + n : (down.data \o block)[i] = i
    <3> DEFINE a == down.data
    <3>1. a \in Seq(Nat) /\ d = Len(a)
      BY <1>8
    <3>2. block \in Seq(Nat) /\ n = Len(block)
      BY <1>9
    <3> HIDE DEF a
    <3>3. ASSUME NEW r \in Seq(Nat), n = Len(r)
          PROVE  /\ a \o r \in Seq(Nat) /\ Len(a \o r) = d + n
                 /\ (\A i \in 1..d : a[i] = i) /\ (\A i \in 1..n : r[i] = d + i)
                    => \A i \in 1..d + n : (a \o r)[i] = i
      BY <3>1, <3>3, DataGrow
    <3>4. \A r \in Seq(Nat) : n = Len(r) =>
                 /\ a \o r \in Seq(Nat) /\ Len(a \o r) = d + n
                 /\ (\A i \in 1..d : a[i] = i) /\ (\A i \in 1..n : r[i] = d + i)
                    => \A i \in 1..d + n : (a \o r)[i] = i
      BY <3>3
    <3> QED BY <3>2, <3>4, Zenon DEF a
  <2>2. down'.data = down.data \o block /\ down'.state = "RD" /\ down'.yappc = Y /\ down'.filefd = down.filefd
    BY <1>3, <1>5
  <2>3. down' \in DownRecord
    BY <1>3, <2>1, <2>2
  <2>4. Types'
    BY <1>1, <1>2, <1>3, <2>3 DEF Types
  <2>5. UpCounts'
    BY <1>1, <1>2 DEF UpCounts
  <2>6. d + n <= N
    BY <1>3, <1>7
  <2>7. Sane' <=> Sane
    BY <1>2 DEF Sane
  <2>8. Sane => \A i \in 1..d : down.data[i] = i
    BY <1>1 DEF Written, d
  <2>9. /\ Len(down'.data) = d + n
        /\ Sane' => \A i \in 1..Len(down'.data) : down'.data[i] = i
    BY <1>9, <2>1, <2>2, <2>7, <2>8
  <2>10. down'.filefd = "open"
    BY <1>1, <2>2 DEF Written
  <2>11. Written'
    BY <1>2, <2>2, <2>6, <2>9, <2>10 DEF Written, N
  <2> QED BY <2>2, <2>4, <2>5, <2>9, <2>11
<1>10. ASSUME NEW s \in Seq(Token), NEW t \in Seq(Token),
              Like(u2d, Block(N, Y, d) \o (s \o t), errors),
              <<up.pos, s \o up.out>> \in Streams(N, Y, d + n),
              \/ up.state = "SD" /\ t = <<>> /\ d2u = <<>>
              \/ up.state = "SE" /\ t = <<Msg("ETX")>> /\ up.pos = N /\ d2u = <<>>
              \/ up.state = "aborted" /\ t \in {<<>>, <<Msg("CAN")>>}
              \/ up.state = "aborted" /\ up.out = <<>> /\ up.pos = N
                 /\ t \in {<<Msg("ETX")>>, <<Msg("ETX"), Msg("CAN")>>}
       PROVE  Inv'
  <2> DEFINE b == [i \in 1..n |-> u2d[i + 1].n]
             w == s \o t
  <2>1. w \in Seq(Token)
    OBVIOUS
  <2>2. Like(u2d, Block(N, Y, d) \o w, errors)
    BY <1>10
  <2> HIDE DEF w
  <2>3. /\ u2d[1] = STX(n) /\ b \in Seq(Nat) /\ Len(b) = n
        /\ errors <= Y => (Y = 1 /\ u2d[n + 2].n # checksum(b)) \/ \A i \in 1..n : b[i] = d + i
        /\ Like(SubSeq(u2d, n + Y + 2, Len(u2d)), w, errors)
    <3> DEFINE e == errors
               y == Y
    <3>1. N \in Nat /\ d \in 0..N /\ y \in {0, 1} /\ w \in Seq(Token) /\ e \in Nat /\ n = Len(Part(N, d))
      BY <1>3, <1>6, <2>1 DEF n
    <3>2. Like(u2d, Block(N, y, d) \o w, e)
      BY <2>2
    <3>3. b = [i \in 1..n |-> u2d[i + 1].n]
      OBVIOUS
    <3> HIDE DEF e, y, b
    <3>4. Received(n, y, d, u2d, b, w, e)
      BY <3>1, <3>2, <3>3, BlockReceived, Zenon
    <3> QED BY <3>4, Zenon DEF e, y, Received
  <2>4. u2d[1].n = n
    BY <2>3 DEF STX
  <2>5. block = b /\ MsgLen = n + Y + 1 /\ MsgLen + 1 = n + Y + 2 /\ (Y = 1 => MsgLen = n + 2)
    <3>1. block = b
      BY <2>4
    <3>2. MsgLen = 1 + n + Y
      BY <1>2, <1>5, <2>4
    <3>3. n \in Nat /\ Y \in {0, 1}
      BY <1>3, <1>6
    <3> DEFINE l == MsgLen
               y == Y
    <3>4. l = 1 + n + y /\ n \in Nat /\ y \in {0, 1}
      BY <3>2, <3>3
    <3> HIDE DEF l, y, b
    <3>5. l = n + y + 1 /\ l + 1 = n + y + 2 /\ (y = 1 => l = n + 2)
      BY <3>4
    <3> QED BY <3>1, <3>5 DEF l, y
  <2>6. Sane => \A i \in 1..n : block[i] = d + i
    BY <1>5, <2>3, <2>5 DEF Sane
  <2>7. Types' /\ UpCounts' /\ Written' /\ down'.state = "RD" /\ down'.yappc = Y /\ Len(down'.data) = d + n
    BY <1>9, <2>3, <2>5, <2>6
  <2>8. Like(u2d', s \o t, errors')
    BY <1>2, <2>3, <2>5 DEF w
  <2>9. InData'
    BY <1>2, <1>5, <1>10, <2>7, <2>8 DEF InData, N
  <2> QED BY <2>7, <2>9 DEF Inv, Phase
<1>11. CASE u2d[1] = STX(n) /\ Len(u2d) < n + Y + 1
  <2>1. u2d[1].n = n
    BY <1>11 DEF STX
  <2>2. MsgLen = 1 + n + Y /\ MsgLen <= Len(u2d)
    BY <1>2, <1>5, <2>1
  <2> QED BY <1>2, <1>3, <1>6, <1>11, <2>2
<1>12. CASE u2d[1] = STX(n) /\ Len(u2d) = n + Y + 1 /\ up.state = "aborted" /\ up.out # <<>>
  <2>1. u2d[1].n = n
    BY <1>12 DEF STX
  <2>2. MsgLen = Len(u2d) /\ n + 1 <= Len(u2d)
    <3> DEFINE l == MsgLen
               y == Y
               lu == Len(u2d)
    <3>1. l = 1 + n + y /\ n \in Nat /\ y \in {0, 1} /\ lu = n + y + 1
      BY <1>2, <1>3, <1>5, <1>6, <1>12, <2>1
    <3> HIDE DEF l, y, lu
    <3>2. l = lu /\ n + 1 <= lu
      BY <3>1
    <3> QED BY <3>2 DEF l, lu
  <2>3. block \in Seq(Nat) /\ Len(block) = n
    <3>1. u2d \in Seq(Token) /\ n \in Nat /\ n + 1 <= Len(u2d) /\ block = [i \in 1..n |-> u2d[i + 1].n]
      BY <1>2, <1>6, <2>1, <2>2
    <3> QED BY <3>1, BlockTyped, Zenon
  <2>4. ~Sane
    BY <1>12 DEF Sane
  <2>5. Types' /\ UpCounts' /\ Written'
    BY <1>9, <2>3, <2>4
  <2>6. u2d' = <<>>
    <3>1. u2d' = SubSeq(u2d, Len(u2d) + 1, Len(u2d))
      BY <1>2, <2>2
    <3>2. SubSeq(u2d, Len(u2d) + 1, Len(u2d)) = <<>>
      BY <1>2
    <3> QED BY <3>1, <3>2
  <2>7. Over'
    BY <1>2, <1>12, <2>6, Nothing DEF Over
  <2> QED BY <2>5, <2>7 DEF Inv, Phase
<1> QED BY <1>6, <1>10, <1>11, <1>12

\* What the download reads.
LEMMA DownReadKeeps == ASSUME Inv, DownRead PROVE Inv'
<1> DEFINE DownRecord == [state : DownStates, yappc : {0, 1}, filefd : {"open", "none"}, data : Seq(Nat)]
<1>1. Types /\ UpCounts /\ Written /\ Phase
  BY DEF Inv
<1>2. /\ down.state \notin Ended /\ u2d # <<>> /\ u2d \in Seq(Token) /\ Len(u2d) \in Nat /\ 1 \in 1..Len(u2d)
      /\ u2d[1] \in Token /\ u2d[1].n \in Nat
      /\ file' = file /\ up' = up /\ errors' = errors
      /\ u2d[1].t = "STX" => MsgLen = 1 + u2d[1].n + down.yappc
      /\ u2d[1].t \notin {"STX", "byte"} => MsgLen = 1
      /\ MsgLen \in 1..Len(u2d) /\ u2d' = SubSeq(u2d, MsgLen + 1, Len(u2d)) /\ u2d' \in Seq(Token)
      /\ Quiet(u2d) => Quiet(u2d')
  BY <1>1, DownReadIs
<1>3. /\ down \in DownRecord /\ d2u \in Seq(Token) /\ errors \in 0..MaxErrors /\ Y \in {0, 1}
      /\ file \in [size : Nat, existing : Nat, time : BOOLEAN] /\ up \in Record(file.size)
  BY <1>1 DEF Types, Y
<1>4. Y' = Y
  BY <1>2 DEF Y
<1>5. ~DownGone /\ ~AllDone
  BY <1>2 DEF DownGone, AllDone, Ended
<1>6. UpCounts'
  BY <1>1, <1>2 DEF UpCounts
<1>7. Over => Over'
  BY <1>2 DEF Over
<1>8. ASSUME down' \in DownRecord, d2u' \in Seq(Token)
      PROVE  Types'
  BY <1>2, <1>3, <1>8 DEF Types
<1>9. ASSUME down'.data = down.data, down'.yappc \in {0, Y}, down'.state = "RD" => down'.filefd = "open"
      PROVE  Written'
  BY <1>1, <1>2, <1>4, <1>9 DEF Written, Sane
<1>10. ASSUME u2d[1].t \notin {"STX", "byte"}, Len(u2d) = 1
       PROVE  u2d' = <<>>
  <2>1. u2d' = SubSeq(u2d, 1 + 1, 1)
    BY <1>2, <1>10
  <2>2. SubSeq(u2d, 1 + 1, 1) = <<>>
    BY <1>2
  <2> QED BY <2>1, <2>2
<1>11. \A k \in Kinds : /\ <<Msg(k)>> \in Seq(Token) /\ Len(<<Msg(k)>>) = 1 /\ <<Msg(k)>>[1] = Msg(k)
                        /\ Msg(k).t = k /\ Append(d2u, Msg(k)) \in Seq(Token)
                        /\ Append(<<>>, Msg(k)) = <<Msg(k)>>
  <2>1. ASSUME NEW k \in Kinds
        PROVE  /\ <<Msg(k)>> \in Seq(Token) /\ Len(<<Msg(k)>>) = 1 /\ <<Msg(k)>>[1] = Msg(k)
               /\ Msg(k).t = k /\ Append(d2u, Msg(k)) \in Seq(Token)
               /\ Append(<<>>, Msg(k)) = <<Msg(k)>>
    <3>1. Msg(k) \in Token /\ Msg(k).t = k
      BY Tokens
    <3> QED BY <1>3, <3>1, One, Added
  <2> QED BY <2>1
<1>12. {"ENQ", "SOH", "EOT", "CAN", "RR", "RS", "RT", "RF", "AT", "AF", "ETX"} \subseteq Kinds
  BY DEF Kinds
<1>13. PICK block, sum : /\ DownloadData(u2d[1], block, sum)
                         /\ u2d[1].t = "STX" => /\ block = [i \in 1..u2d[1].n |-> u2d[i + 1].n]
                                                /\ sum = u2d[MsgLen].n
  BY <1>1, DownReadData
<1>14. CASE /\ down' = [down EXCEPT !.state = "aborted"]
            /\ d2u' = d2u \/ d2u' = Append(d2u, Msg("CAN")) \/ d2u' = Append(d2u, Msg("NR"))
  <2>1. UNCHANGED <<file, up, errors>>
    BY <1>2
  <2> QED BY <1>2, <1>14, <2>1, DownGivesUp
<1>15. CASE /\ down.state = "R" /\ u2d[1].t = "ENQ"
            /\ down' = [down EXCEPT !.state = "RH"] /\ d2u' = Append(d2u, Msg("RR"))
  <2>1. down' \in DownRecord /\ down'.data = down.data /\ down'.yappc = down.yappc /\ down'.state = "RH"
    BY <1>3, <1>15 DEF DownStates
  <2>2. Types' /\ Written'
    BY <1>1, <1>8, <1>9, <1>11, <1>12, <1>15, <2>1 DEF Written
  <2>3. Over \/ Asked
    BY <1>1, <1>5, <1>15 DEF Phase, Greeted, Ready, InData, Stray, AtEnd
  <2>4. Asked => Greeted'
    <3>1. ASSUME Asked PROVE u2d' = <<>> /\ d2u' = <<Msg("RR")>>
      BY <1>10, <1>11, <1>12, <1>15, <3>1 DEF Asked
    <3> QED BY <1>2, <2>1, <3>1 DEF Asked, Greeted
  <2> QED BY <1>6, <1>7, <2>2, <2>3, <2>4 DEF Inv, Phase
<1>16. CASE /\ down.state = "RH" /\ u2d[1].t = "SOH"
            /\ down' = [down EXCEPT !.state = "RD", !.yappc = Y, !.filefd = "open"]
            /\ \/ d2u' = Append(d2u, Msg("RS"))
               \/ d2u' = Append(d2u, Msg("RT")) /\ Y = 1
               \/ d2u' = Append(d2u, Msg("RF")) /\ Y = 0
  <2>1. /\ down' \in DownRecord /\ down'.data = down.data /\ down'.yappc = Y
        /\ down'.state = "RD" /\ down'.filefd = "open"
    BY <1>3, <1>16 DEF DownStates
  <2>2. d2u' \in Seq(Token)
    BY <1>11, <1>12, <1>16
  <2>3. Types' /\ Written'
    BY <1>3, <1>8, <1>9, <2>1, <2>2
  <2>4. Over \/ Greeted
    <3>1. ~AtEnd
      BY <1>2, <1>11, <1>12, <1>16 DEF AtEnd
    <3> QED BY <1>1, <1>5, <1>16, <3>1 DEF Phase, Asked, Ready, InData, Stray
  <2>5. Greeted => Ready'
    <3>1. ASSUME Greeted
          PROVE  /\ up.state = "SH" /\ u2d' = <<>> /\ d2u = <<>>
                 /\ \/ d2u' = <<Msg("RS")>>
                    \/ d2u' = <<Msg("RT")>> /\ Y = 1
                    \/ d2u' = <<Msg("RF")>> /\ Y = 0
      <4>1. up.state = "SH" /\ u2d = <<Msg("SOH")>> /\ d2u = <<>>
        BY <1>2, <3>1 DEF Greeted
      <4> QED BY <1>10, <1>11, <1>12, <1>16, <4>1
    <3> QED BY <1>2, <1>4, <2>1, <3>1 DEF Greeted, Ready
  <2> QED BY <1>6, <1>7, <2>3, <2>4, <2>5 DEF Inv, Phase
<1>17. CASE down.state = "RH" /\ u2d[1].t = "ENQ" /\ down' = down /\ d2u' = d2u
  <2>1. Types' /\ Written'
    BY <1>1, <1>3, <1>8, <1>9, <1>17 DEF Written
  <2>2. Over
    <3>1. ~AtEnd /\ ~Greeted
      BY <1>2, <1>11, <1>12, <1>17 DEF AtEnd, Greeted
    <3> QED BY <1>1, <1>5, <1>17, <3>1 DEF Phase, Asked, Ready, InData, Stray
  <2> QED BY <1>6, <1>7, <2>1, <2>2 DEF Inv, Phase
<1>18. CASE /\ down.state = "RH" /\ u2d[1].t = "EOT"
            /\ down' = [down EXCEPT !.state = "done"] /\ d2u' = Append(d2u, Msg("AT"))
  <2>1. down' \in DownRecord /\ down'.data = down.data /\ down'.yappc = down.yappc /\ down'.state = "done"
    BY <1>3, <1>18 DEF DownStates, Ended
  <2>2. d2u' \in Seq(Token)
    BY <1>11, <1>12, <1>18
  <2>3. Types' /\ Written'
    BY <1>1, <1>8, <1>9, <2>1, <2>2 DEF Written
  <2>4. Over \/ AtEnd
    <3>1. ~Greeted
      BY <1>2, <1>11, <1>12, <1>18 DEF Greeted
    <3> QED BY <1>1, <1>5, <1>18, <3>1 DEF Phase, Asked, Ready, InData, Stray
  <2>5. AtEnd => AllDone'
    <3>1. ASSUME AtEnd
          PROVE  up.state = "ST" /\ u2d' = <<>> /\ d2u' = <<Msg("AT")>> /\ Len(down.data) = file.size
      <4>1. up.state = "ST" /\ u2d = <<Msg("EOT")>> /\ d2u = <<>> /\ Len(down.data) = file.size
        BY <1>2, <3>1 DEF AtEnd
      <4> QED BY <1>10, <1>11, <1>12, <1>18, <4>1
    <3> QED BY <1>2, <2>1, <3>1 DEF AllDone
  <2> QED BY <1>6, <1>7, <2>3, <2>4, <2>5 DEF Inv, Phase
<1>19. CASE /\ down.state = "RD" /\ u2d[1].t = "STX" /\ ~(down.yappc = 1 /\ sum # checksum(block))
            /\ down' = [down EXCEPT !.data = @ \o block] /\ d2u' = d2u
  <2>1. block = [i \in 1..u2d[1].n |-> u2d[i + 1].n] /\ ~(down.yappc = 1 /\ u2d[MsgLen].n # checksum(block))
    BY <1>13, <1>19
  <2> QED BY <1>19, <2>1, DataKeeps
<1>20. CASE /\ down.state = "RD" /\ u2d[1].t = "ETX"
            /\ down' = [down EXCEPT !.state = "RH", !.filefd = "none"] /\ d2u' = Append(d2u, Msg("AF"))
  <2>1. down' \in DownRecord /\ down'.data = down.data /\ down'.yappc = down.yappc /\ down'.state = "RH"
    BY <1>3, <1>20 DEF DownStates
  <2>2. d2u' \in Seq(Token)
    BY <1>11, <1>12, <1>20
  <2>3. Types' /\ Written'
    BY <1>1, <1>8, <1>9, <2>1, <2>2 DEF Written
  <2>4. Over \/ InData
    <3>1. ~Ready /\ ~Stray
      BY <1>2, <1>20 DEF Ready, Stray
    <3> QED BY <1>1, <1>5, <1>20, <3>1 DEF Phase, Asked, Greeted, AtEnd
  <2>5. InData => Over' \/ AtEnd'
    <3> SUFFICES ASSUME InData PROVE Over' \/ AtEnd'
      OBVIOUS
    <3>1. /\ Len(down.data) = file.size
          /\ \/ Len(u2d) = 1 /\ up.state = "SE" /\ d2u = <<>>
             \/ Len(u2d) = 1 /\ up.state = "aborted"
             \/ Len(u2d) = 2 /\ up.state = "aborted" /\ u2d[2].t = "CAN"
      <4> DEFINE N == file.size
                 d == Len(down.data)
                 n == Len(Part(N, d))
      <4>1. N = file.size /\ d = Len(down.data) /\ n = Len(Part(N, d))
        OBVIOUS
      <4> HIDE DEF N, d, n
      <4>2. N \in Nat /\ d \in 0..N /\ n \in Nat /\ AtHead(N, d, n)
        BY <1>1, <1>2, <4>1, InDataHead, Zenon
      <4>3. u2d[1].t = "ETX" /\ u2d[1] # STX(n) /\ u2d[1].t # "CAN"
        BY <1>20 DEF STX
      <4>4. ASSUME NEW s \in Seq(Token), NEW t \in Seq(Token), Like(u2d, Block(N, Y, d) \o (s \o t), errors)
            PROVE  FALSE
        <5> DEFINE w == s \o t
                   y == Y
                   e == errors
                   b == [i \in 1..n |-> u2d[i + 1].n]
        <5>1. /\ w \in Seq(Token) /\ y \in {0, 1} /\ e \in Nat /\ Like(u2d, Block(N, y, d) \o w, e)
              /\ b = [i \in 1..n |-> u2d[i + 1].n]
          BY <1>3, <4>4, YappConstants
        <5> HIDE DEF w, y, e, b
        <5>2. Received(n, y, d, u2d, b, w, e)
          BY <4>1, <4>2, <5>1, BlockReceived, Zenon
        <5> QED BY <4>3, <5>2, Zenon DEF Received
      <4> QED BY <4>2, <4>3, <4>4 DEF AtHead, N, d
    <3>2. CASE Len(u2d) = 1
      <4>1. u2d' = <<>>
        BY <1>10, <1>20, <3>2
      <4>2. CASE up.state = "SE" /\ d2u = <<>>
        <5>1. d2u' = <<Msg("AF")>>
          BY <1>11, <1>12, <1>20, <4>2
        <5> QED BY <1>2, <2>1, <3>1, <4>1, <4>2, <5>1 DEF AtEnd
      <4>3. CASE up.state = "aborted"
        BY <1>2, <4>1, <4>3, Nothing DEF Over
      <4> QED BY <3>1, <3>2, <4>2, <4>3
    <3>3. CASE Len(u2d) = 2 /\ up.state = "aborted" /\ u2d[2].t = "CAN"
      <4>1. u2d' = SubSeq(u2d, 2, 2)
        BY <1>2, <1>20, <3>3
      <4>2. Len(u2d') = 1 /\ u2d'[1] = u2d[2]
        <5>1. u2d \in Seq(Token) /\ Len(u2d) = 2
          BY <1>2, <3>3
        <5>2. \A q \in Seq(Token) : Len(q) = 2 => Len(SubSeq(q, 2, 2)) = 1 /\ SubSeq(q, 2, 2)[1] = q[2]
          OBVIOUS
        <5>3. Len(SubSeq(u2d, 2, 2)) = 1 /\ SubSeq(u2d, 2, 2)[1] = u2d[2]
          BY <5>1, <5>2, Zenon
        <5> QED BY <4>1, <5>3, Zenon
      <4>3. Quiet(u2d')
        BY <3>3, <4>2 DEF Quiet
      <4> QED BY <1>2, <3>3, <4>3 DEF Over
    <3> QED BY <3>1, <3>2, <3>3
  <2> QED BY <1>6, <1>7, <2>3, <2>4, <2>5 DEF Inv, Phase
<1> QED BY <1>13, <1>14, <1>15, <1>16, <1>17, <1>18, <1>19, <1>20, DownloadDataIs

-----------------------------------------------------------------------------
(* The theorem *)

LEMMA InitInv == Init => Inv
<1> SUFFICES ASSUME Init PROVE Inv
  OBVIOUS
<1>1. /\ file \in [size : Nat, existing : Nat, time : BOOLEAN] /\ errors = 0
  <2>1. file \in [size : Sizes, existing : Existing, time : BOOLEAN]
    BY DEF Init
  <2> QED BY <2>1, YappConstants DEF Init
<1>2. /\ \/ up.state = "S" /\ u2d = <<Msg("ENQ")>>
         \/ up.state = "aborted" /\ u2d = <<Msg("NR")>>
      /\ up.yappc = 0 /\ up.pos = 0 /\ up.out = <<>> /\ up.total = 0
      /\ up \in Record(file.size)
  <2>1. \E st \in {"S", "aborted"} : up = [state |-> st, yappc |-> 0, pos |-> 0, out |-> <<>>, total |-> 0]
    BY DEF Init
  <2>2. <<>> \in Seq(Token) /\ 0 \in 0..file.size
    BY <1>1
  <2>3. {"S", "aborted"} \subseteq UpStates /\ file.size \in Nat /\ 0 \in {0, 1} /\ 0 \in Nat
    BY <1>1 DEF UpStates, Ended
  <2>4. \A st \in UpStates : [state |-> st, yappc |-> 0, pos |-> 0, out |-> <<>>, total |-> 0] \in Record(file.size)
    BY <2>2, <2>3, UpRecord
  <2>5. up \in Record(file.size)
    BY <2>1, <2>3, <2>4, Zenon
  <2> QED BY <2>5 DEF Init
<1>3. /\ \/ down.state = "R" /\ d2u = <<>>
         \/ down.state = "aborted" /\ d2u = <<Msg("NR")>>
      /\ down.yappc = 0 /\ down.data = <<>>
      /\ down \in [state : DownStates, yappc : {0, 1}, filefd : {"open", "none"}, data : Seq(Nat)]
  <2>1. down \in [state : {"R", "aborted"}, yappc : {0}, filefd : {"open", "none"}, data : {<<>>}]
    BY DEF Init
  <2>2. <<>> \in Seq(Nat)
    OBVIOUS
  <2>3. down \in [state : DownStates, yappc : {0, 1}, filefd : {"open", "none"}, data : Seq(Nat)]
    BY <2>1, <2>2 DEF DownStates, Ended
  <2> QED BY <2>3 DEF Init
<1>4. /\ <<Msg("ENQ")>> \in Seq(Token) /\ <<Msg("NR")>> \in Seq(Token) /\ <<>> \in Seq(Token)
      /\ Quiet(<<Msg("NR")>>) /\ NoAT(<<Msg("NR")>>)
  BY Tokens, One DEF Kinds
<1>5. Types
  <2>1. errors \in 0..MaxErrors
    BY <1>1, YappConstants
  <2>2. u2d \in Seq(Token) /\ d2u \in Seq(Token)
    BY <1>2, <1>3, <1>4
  <2> QED BY <1>1, <1>2, <1>3, <2>1, <2>2 DEF Types
<1>6. UpCounts
  <2>1. Len(up.out) = 0 /\ readlen \in Nat /\ file.size \in Nat
    BY <1>1, <1>2, Nothing, YappConstants
  <2> QED BY <1>2, <2>1 DEF UpCounts
<1>7. Written
  <2>1. Len(down.data) = 0 /\ file.size \in Nat /\ down.state # "RD"
    BY <1>1, <1>3, Nothing
  <2> QED BY <1>3, <2>1 DEF Written
<1>8. Phase
  <2>1. CASE up.state = "aborted"
    BY <1>2, <1>4, <2>1 DEF Phase, Over
  <2>2. CASE up.state = "S"
    BY <1>2, <1>3, <1>4, <2>2 DEF Phase, Asked, DownGone
  <2> QED BY <1>2, <2>1, <2>2
<1> QED BY <1>5, <1>6, <1>7, <1>8 DEF Inv

LEMMA NextInv == Inv /\ [Next]_vars => Inv'
<1> SUFFICES ASSUME Inv, [Next]_vars PROVE Inv'
  OBVIOUS
<1>1. Types /\ d2u \in Seq(Token) /\ u2d \in Seq(Token)
  BY DEF Inv, Types
<1>2. CASE UpRead
  BY <1>2, UpReadKeeps
<1>3. ASSUME NEW n \in 0..Len(up.out), UpWrite(n) PROVE Inv'
  BY <1>3, UpWriteKeeps
<1>4. CASE UpTimeout \/ UpCancel
  <2>1. /\ up.state \notin Ended /\ up' = [up EXCEPT !.state = "aborted"]
        /\ u2d' = Append(u2d, Msg("CAN")) /\ UNCHANGED <<file, down, d2u, errors>>
    BY <1>4 DEF UpTimeout, UpCancel, Expired, UpWaits, UpReply
  <2>2. d2u' \in Seq(Token) /\ UNCHANGED <<file, down, errors>>
    BY <1>1, <2>1
  <2> QED BY <2>1, <2>2, UpGivesUp
<1>5. CASE DownRead
  BY <1>5, DownReadKeeps
<1>6. CASE DownTimeout \/ DownCancel
  <2>1. /\ down.state \notin Ended /\ down' = [down EXCEPT !.state = "aborted"]
        /\ d2u' = Append(d2u, Msg("CAN")) /\ UNCHANGED <<file, up, u2d, errors>>
    BY <1>6 DEF DownTimeout, DownCancel, Expired, DownWaits, DownReply
  <2>2. u2d' \in Seq(Token) /\ UNCHANGED <<file, up, errors>>
    BY <1>1, <2>1
  <2> QED BY <2>1, <2>2, DownGivesUp
<1>7. ASSUME NEW i \in DOMAIN u2d, DamageByte(i) PROVE Inv'
  BY <1>7, DamageKeeps
<1>8. CASE UNCHANGED vars
  <2>1. file' = file /\ up' = up /\ down' = down /\ u2d' = u2d /\ d2u' = d2u /\ errors' = errors
    BY <1>8 DEF vars
  <2>2. Y' = Y
    BY <2>1 DEF Y
  <2>3. Types' = Types /\ UpCounts' = UpCounts /\ Written' = Written
    BY <2>1, <2>2 DEF Types, UpCounts, Written, Sane
  <2>4. Over' = Over /\ DownGone' = DownGone /\ Asked' = Asked /\ Greeted' = Greeted /\ Ready' = Ready
    BY <2>1, <2>2 DEF Over, DownGone, Asked, Greeted, Ready
  <2>5. Stray' = Stray /\ AtEnd' = AtEnd /\ AllDone' = AllDone
    BY <2>1, <2>2 DEF Stray, AtEnd, AllDone
  <2>6. InData' = InData
    BY <2>1, <2>2, Zenon DEF InData
  <2> QED BY <2>3, <2>4, <2>5, <2>6 DEF Inv, Phase
<1> QED BY <1>2, <1>3, <1>4, <1>5, <1>6, <1>7, <1>8 DEF Next, UpStep, DownStep, Finished

\* yapp_upload and yapp_download, with files and blocks of any size, any
\* number of bytes changed on the way, and either user or either timer ending
\* it at any moment: the download writes the beginning of the file sent, its
\* blocks and checksums where the upload puts them, one changed byte is seen
\* by the checksum, and an upload that ends without an abort has delivered
\* the whole file and reports its size.
THEOREM TransferSafe == Spec => []YappSafe
<1>1. Spec => []Inv
  BY InitInv, NextInv, PTL DEF Spec
<1> QED BY <1>1, InvSafe, PTL
=============================================================================
