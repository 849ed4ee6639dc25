-------------------------- MODULE Ax25ipdRouteProofs --------------------------
(***************************************************************************)
(* Proofs about the routing module of ax25ipd: for any configuration, any  *)
(* callsigns and any number of DNS threads that might be started.          *)
(***************************************************************************)
EXTENDS Ax25ipdRoute, TLAPS, SequenceTheorems, WellFoundedInduction

-----------------------------------------------------------------------------
(* Well-ordering of the naturals, in the form used below *)

\* Every nonempty set of naturals has a least element.
LEMMA LeastNat ==
  ASSUME NEW T \in SUBSET Nat, T # {}
  PROVE  \E n \in T : \A m \in T : n <= m
<1>1. PICK n \in T : \A m \in T : ~(<<m, n>> \in OpToRel(<, Nat))
  BY NatLessThanWellFounded, WFMin
<1>2. \A m \in T : m < n => <<m, n>> \in OpToRel(<, Nat)
  BY DEF OpToRel
<1>3. \A m \in T : ~(m < n)
  BY <1>1, <1>2, Zenon
<1> QED BY <1>3

-----------------------------------------------------------------------------
(* Comparing callsigns *)

\* addrcompare wraps round, but it is zero for equal callsigns only.
LEMMA CompareZero ==
  ASSUME NEW a \in Calls, NEW b \in Calls, addrcompare(a, b) = 0
  PROVE  a = b
<1>1. a \in [k : {2 * i : i \in 0..127}, s : 0..15] /\ b \in [k : {2 * i : i \in 0..127}, s : 0..15]
  BY RouteConstants
<1>2. a.k \in 0..255 /\ b.k \in 0..255 /\ a.s \in 0..15 /\ b.s \in 0..15
  BY <1>1
<1>3. ASSUME NEW z \in Int, z < 256, 0 - 256 < z, SignedChar(z) = 0
      PROVE  z = 0
  BY <1>3 DEF SignedChar
<1>4. ASSUME NEW x \in 0..255, NEW y \in 0..255
      PROVE  x - y \in Int /\ x - y < 256 /\ 0 - 256 < x - y /\ (x - y = 0 => x = y)
  OBVIOUS
<1>5. a.k = b.k
  <2>1. PICK x \in 0..255, y \in 0..255 : x = a.k /\ y = b.k
    BY <1>2
  <2>2. x # y => SignedChar(x - y) = 0
    BY <2>1 DEF addrcompare
  <2>3. x - y \in Int /\ x - y < 256 /\ 0 - 256 < x - y /\ (x - y = 0 => x = y)
    BY <1>4
  <2>4. x = y
    BY <1>3, <2>2, <2>3
  <2> QED BY <2>1, <2>4
<1>6. a.s = b.s
  <2>1. ASSUME NEW x \in 0..15, NEW y \in 0..15, SignedChar(2 * x - 2 * y) = 0
        PROVE  x = y
    BY <2>1 DEF SignedChar
  <2>2. SignedChar(2 * a.s - 2 * b.s) = 0
    BY <1>5 DEF addrcompare
  <2> QED BY <1>2, <2>1, <2>2
<1> QED BY <1>1, <1>5, <1>6

-----------------------------------------------------------------------------
(* The tree of return paths *)

Direction == {"prev", "next"}

\* Every node is where the search for its own callsign looks; the tree has a
\* bounded depth; every return path learned has a node.
TreeInv ==
  /\ \E B \in Nat : \A p \in Positions : Len(p) <= B
  /\ \A p \in Positions : OnPath(callsign_lookup[p].call, p)
  /\ \A c \in DOMAIN learned :
       \E p \in Positions : callsign_lookup[p] = [call |-> c, route |-> learned[c]]

\* Slots are paths of left and right turns.
LEMMA SlotType ==
  ASSUME TypeOK
  PROVE  Slots \subseteq Seq(Direction)
<1>1. \A q \in Positions : q \in Seq(Direction)
  BY DEF TypeOK, Direction
<1>2. \A q \in Positions, d \in Direction : Append(q, d) \in Seq(Direction)
  BY <1>1
<1>3. <<>> \in Seq(Direction)
  OBVIOUS
<1>4. \A x \in Slots : x = <<>> \/ \E q \in Positions, d \in Direction : x = Append(q, d)
  BY DEF Slots, Direction
<1> QED BY <1>2, <1>3, <1>4, Zenon

\* The search always ends: going down from the root, it meets the callsign
\* or an empty position.
LEMMA SearchEnds ==
  ASSUME TypeOK, TreeInv, NEW call
  PROVE  \E p \in Slots : SearchEnd(call, p)
<1>1. PICK B \in Nat : \A p \in Positions : Len(p) <= B
  BY DEF TreeInv
<1> DEFINE T == {n \in Nat : \E p \in Slots : OnPath(call, p) /\ Len(p) + n = B + 1}
<1>2. <<>> \in Slots /\ OnPath(call, <<>>) /\ Len(<<>>) = 0
  BY DEF Slots, OnPath
<1>3. B + 1 \in T
  BY <1>2
<1>4. PICK n \in T : \A m \in T : n <= m
  <2> HIDE DEF T
  <2>1. T \in SUBSET Nat BY DEF T
  <2> QED BY <1>3, <2>1, LeastNat
<1>5. PICK p \in Slots : OnPath(call, p) /\ Len(p) + n = B + 1
  BY <1>4
<1>6. ASSUME p \in Positions, addrcompare(call, callsign_lookup[p].call) # 0
      PROVE  FALSE
  <2> DEFINE d == Side(call, callsign_lookup[p].call)
             q == Append(p, d)
  <2>1. p \in Seq(Direction) /\ d \in Direction
    BY SlotType DEF Direction, Side
  <2>2. q \in Slots
    BY <1>6 DEF Slots, Side
  <2>3. /\ Len(q) = Len(p) + 1 /\ q[Len(p) + 1] = d
        /\ \A i \in 1..Len(p) : q[i] = p[i]
    BY <2>1
  <2>4. \A i \in 1..Len(p) : SubSeq(q, 1, i - 1) = SubSeq(p, 1, i - 1)
    BY <2>1
  <2>5. SubSeq(q, 1, Len(p)) = p
    BY <2>1
  <2>6. OnPath(call, q)
    <3> SUFFICES ASSUME NEW i \in 1..Len(q)
                 PROVE  /\ SubSeq(q, 1, i - 1) \in Positions
                        /\ addrcompare(call, callsign_lookup[SubSeq(q, 1, i - 1)].call) # 0
                        /\ q[i] = Side(call, callsign_lookup[SubSeq(q, 1, i - 1)].call)
      BY DEF OnPath
    <3> HIDE DEF q, d
    <3>1. CASE i \in 1..Len(p)
      BY <3>1, <1>5, <2>3, <2>4 DEF OnPath
    <3>2. CASE i = Len(p) + 1
      <4>1. SubSeq(q, 1, i - 1) = p /\ q[i] = d
        BY <3>2, <2>1, <2>3, <2>5
      <4> QED BY <4>1, <1>6 DEF d
    <3>3. Len(p) \in Nat
      BY <2>1
    <3> QED BY <3>1, <3>2, <3>3, <2>3
  <2>7. Len(p) <= B /\ Len(p) \in Nat
    BY <1>1, <1>6, <2>1
  <2>8. n - 1 \in T
    <3>1. n \in Nat /\ n - 1 \in Nat
      BY <1>5, <2>7
    <3>2. Len(q) + (n - 1) = B + 1
      BY <1>5, <2>3, <2>7, <3>1
    <3> QED BY <2>2, <2>6, <3>1, <3>2
  <2>9. n \in Nat /\ n <= n - 1
    BY <1>4, <2>8
  <2> QED BY <2>9
<1>7. SearchEnd(call, p)
  BY <1>5, <1>6 DEF SearchEnd
<1> QED BY <1>7

\* Two ends of the search for one callsign are the same position.
LEMMA SearchEndUnique ==
  ASSUME TypeOK, NEW call, NEW p, NEW q, SearchEnd(call, p), SearchEnd(call, q),
         Len(p) <= Len(q)
  PROVE  p = q
<1>1. p \in Seq(Direction) /\ q \in Seq(Direction)
  BY SlotType DEF SearchEnd
<1>2. \A i \in 1..Len(p) : p[i] = q[i]
  <2> DEFINE T == {i \in 1..Len(p) : p[i] # q[i]}
  <2>1. SUFFICES ASSUME T # {} PROVE FALSE
    OBVIOUS
  <2>2. PICK i \in T : \A j \in T : i <= j
    <3>1. T \in SUBSET Nat BY <1>1
    <3> HIDE DEF T
    <3> QED BY <2>1, <3>1, LeastNat
  <2>3. \A j \in 1..(i - 1) : p[j] = q[j]
    BY <1>1, <2>2
  <2>4. SubSeq(p, 1, i - 1) = SubSeq(q, 1, i - 1)
    BY <1>1, <2>2, <2>3
  <2>5. i \in 1..Len(p) /\ i \in 1..Len(q)
    BY <1>1, <2>2
  <2>6. p[i] = Side(call, callsign_lookup[SubSeq(p, 1, i - 1)].call)
    BY <2>5 DEF SearchEnd, OnPath
  <2>7. q[i] = Side(call, callsign_lookup[SubSeq(q, 1, i - 1)].call)
    BY <2>5 DEF SearchEnd, OnPath
  <2> QED BY <2>2, <2>4, <2>6, <2>7
<1>3. SubSeq(q, 1, Len(p)) = p
  BY <1>1, <1>2
<1>4. ASSUME Len(p) < Len(q) PROVE FALSE
  <2>1. Len(p) + 1 \in 1..Len(q) /\ (Len(p) + 1) - 1 = Len(p)
    BY <1>1, <1>4
  <2>2. p \in Positions /\ addrcompare(call, callsign_lookup[p].call) # 0
    BY <2>1, <1>3 DEF SearchEnd, OnPath
  <2> QED BY <2>2 DEF SearchEnd
<1> QED BY <1>1, <1>3, <1>4

\* A node whose callsign compares equal is where the search ends.
LEMMA NodeFound ==
  ASSUME TypeOK, TreeInv, NEW p \in Positions
  PROVE  Search(callsign_lookup[p].call) = p
<1> DEFINE call == callsign_lookup[p].call
           q == Search(call)
<1>1. p \in Seq(Direction) /\ call \in Calls
  BY DEF TypeOK, Direction
<1>2. OnPath(call, p)
  BY DEF TreeInv
<1>3. p \in Slots
  <2>1. CASE p = <<>>
    BY <2>1 DEF Slots
  <2>2. CASE p # <<>>
    <3>1. Len(p) \in 1..Len(p) /\ p = Append(SubSeq(p, 1, Len(p) - 1), p[Len(p)])
          /\ p[Len(p)] \in Direction
      BY <1>1, <2>2
    <3>2. SubSeq(p, 1, Len(p) - 1) \in Positions
      BY <1>2, <3>1 DEF OnPath
    <3>3. \E r \in Positions, d \in {"prev", "next"} : p = Append(r, d)
      BY <3>1, <3>2 DEF Direction
    <3> QED BY <3>3 DEF Slots
  <2> QED BY <2>1, <2>2
<1>4. addrcompare(call, callsign_lookup[p].call) = 0
  <2>1. call \in [k : {2 * i : i \in 0..127}, s : 0..15]
    BY <1>1, RouteConstants
  <2> HIDE DEF call
  <2>2. addrcompare(call, call) = 0
    BY <2>1 DEF addrcompare, SignedChar
  <2> QED BY <2>2 DEF call
<1>5. SearchEnd(call, p)
  BY <1>2, <1>3, <1>4 DEF SearchEnd
<1>6. q \in Slots /\ SearchEnd(call, q)
  BY <1>3, <1>5 DEF Search
<1>7. p \in Seq(Direction) /\ q \in Seq(Direction)
  BY <1>1, <1>6, SlotType
<1> HIDE DEF call, q
<1>8. Len(p) <= Len(q) \/ Len(q) <= Len(p)
  BY <1>7
<1>9. p = q
  BY <1>5, <1>6, <1>8, SearchEndUnique
<1> QED BY <1>9 DEF call, q

\* The tree finds all that was learned.
LEMMA TreeFinds ==
  ASSUME TypeOK, TreeInv
  PROVE  ReturnPathFound
<1> SUFFICES ASSUME NEW c \in DOMAIN learned
             PROVE  Search(c) \in Positions /\ callsign_lookup[Search(c)].route = learned[c]
  BY DEF ReturnPathFound
<1>1. PICK p \in Positions : callsign_lookup[p] = [call |-> c, route |-> learned[c]]
  BY DEF TreeInv
<1>2. Search(c) = p
  BY <1>1, NodeFound
<1> QED BY <1>1, <1>2

-----------------------------------------------------------------------------
(* Type correctness *)

MainType == [pc : {"scan", "changed", "learned", "gateway"},
             rp : 1..(Len(Config) + 1), src : Sources, call : Calls, isroute : BOOLEAN]
ThreadType == {NoThread} \cup [pc : {"walk"}, rp : 1..(Len(Config) + 1)]
                         \cup [pc : {"lookup"}, rp : Route]

\* The entries of the configuration are well typed.
LEMMA ConfigType ==
  /\ Len(Config) \in Nat /\ Route = 1..Len(Config)
  /\ \A r \in Route : /\ Config[r].call \in Calls /\ Config[r].ip \in Ip
                      /\ Config[r].host \in DOMAIN DnsAnswers
  /\ \A r \in Route : DnsAnswers[Config[r].host] \subseteq Ip
  /\ Sources \subseteq Ip
<1> DEFINE Entry == [call : Calls, host : DOMAIN DnsAnswers, ip : Ip, flags : SUBSET Flags]
<1>0. Config \in Seq(Entry)
  BY RouteConstants
<1>1. /\ Len(Config) \in Nat /\ Route = 1..Len(Config)
      /\ \A r \in Route : Config[r] \in Entry
  <2> HIDE DEF Entry
  <2> QED BY <1>0 DEF Route
<1>2. \A h \in DOMAIN DnsAnswers : DnsAnswers[h] \subseteq Ip
  BY DEF Ip
<1>3. Sources \subseteq Ip
  BY DEF Ip
<1> QED BY <1>1, <1>2, <1>3

\* What update_dns may do to the thread table.
LEMMA UpdateDnsType ==
  ASSUME TypeOK, NEW w, update_dns(w)
  PROVE  threadrunning' \in BOOLEAN /\ since' \in 0..WAIT_POLL /\ thread' \in [Tid -> ThreadType]
<1>1. [pc |-> "walk", rp |-> 1] \in ThreadType
  BY ConfigType DEF ThreadType
<1>2. 0 \in 0..WAIT_POLL
  BY RouteConstants
<1>3. thread \in [Tid -> ThreadType] /\ since \in 0..WAIT_POLL /\ threadrunning \in BOOLEAN
  BY DEF TypeOK, ThreadType
<1> QED BY <1>1, <1>2, <1>3 DEF update_dns, tvars

\* The node route_updatereturnpath writes is at a slot of the tree.
LEMMA InsertSlot ==
  ASSUME TypeOK, TreeInv, NEW call
  PROVE  /\ Search(call) \in Slots
         /\ SearchEnd(call, Search(call))
         /\ Search(call) \in Seq(Direction)
<1>1. Search(call) \in Slots /\ SearchEnd(call, Search(call))
  BY SearchEnds DEF Search
<1> QED BY <1>1, SlotType

\* The table route_init and the configuration leave is well typed.
LEMMA TypeInit == Init => TypeOK
<1> SUFFICES ASSUME Init PROVE TypeOK
  OBVIOUS
<1>1. ip \in [Route -> Ip]
  BY ConfigType DEF Init
<1>2. since \in 0..WAIT_POLL
  BY RouteConstants DEF Init
<1>3. thread \in [Tid -> ThreadType]
  BY DEF Init, ThreadType
<1>4. main = Idle /\ main.pc = "idle"
  BY DEF Init, Idle
<1> QED BY <1>1, <1>2, <1>3, <1>4 DEF Init, TypeOK, ThreadType, Positions

\* Every step of the main loop and of a DNS thread keeps the types.
LEMMA TypeStep ==
  ASSUME TypeOK, TreeInv, [Next]_vars
  PROVE  TypeOK'
<1> USE ConfigType
<1>0. /\ ip \in [Route -> Ip]
      /\ thread \in [Tid -> ThreadType]
      /\ main = Idle \/ main \in MainType
  BY DEF TypeOK, ThreadType, MainType
<1>1. CASE PollDns
  <2>1. threadrunning' \in BOOLEAN /\ since' \in 0..WAIT_POLL /\ thread' \in [Tid -> ThreadType]
    BY <1>1, UpdateDnsType DEF PollDns
  <2> QED BY <1>1, <2>1 DEF PollDns, TypeOK, ThreadType, Positions
<1>2. CASE Tick
  <2>1. since' \in 0..WAIT_POLL
    BY <1>2, RouteConstants DEF Tick, TypeOK
  <2> QED BY <1>2, <2>1 DEF Tick, TypeOK, Positions
<1>3. ASSUME NEW src \in Sources, NEW call \in Calls, RouteProcess(src, call)
      PROVE  TypeOK'
  <2>1. main' \in MainType /\ main'.pc = "scan"
    BY <1>3 DEF RouteProcess, MainType
  <2> QED BY <1>3, <2>1 DEF RouteProcess, TypeOK, MainType, Positions, tvars
<1>4. CASE ScanRoute
  <2>1. main \in MainType /\ main.rp \in Route
    BY <1>0, <1>4 DEF ScanRoute, Idle
  <2> DEFINE m == addrmatch(main.call, Config[main.rp].call)
             i == main.isroute \/ m
  <2>range. i \in BOOLEAN /\ main.rp \in 1..(Len(Config) + 1) /\ main.rp + 1 \in 1..(Len(Config) + 1)
    BY <2>1
  <2>next. \/ main' = [main EXCEPT !.isroute = i, !.pc = "changed", !.rp = main.rp]
        \/ main' = [main EXCEPT !.isroute = i, !.pc = main.pc, !.rp = main.rp + 1]
    BY <1>4, Zenon DEF ScanRoute
  <2>2. main' \in MainType /\ (main'.pc \in {"changed", "learned"} => main'.rp \in Route)
    <3> HIDE DEF i
    <3>1. main.pc = "scan"
      BY <1>4 DEF ScanRoute
    <3> QED BY <2>1, <2>range, <2>next, <3>1 DEF MainType
  <2> QED BY <1>4, <2>2 DEF ScanRoute, TypeOK, MainType, Positions, tvars
<1>5. CASE UpdateDynDns
  <2>1. main \in MainType /\ main.rp \in Route
    BY <1>0, <1>5 DEF UpdateDynDns, Idle, TypeOK
  <2>2. main' \in MainType /\ main'.rp \in Route
    BY <1>5, <2>1 DEF UpdateDynDns, MainType
  <2>3. ip' \in [Route -> Ip]
    BY <1>0, <1>5, <2>1 DEF UpdateDynDns, MainType
  <2> QED BY <1>5, <2>2, <2>3 DEF UpdateDynDns, TypeOK, MainType, Positions, tvars
<1>6. CASE CheckDynDns
  <2>1. main \in MainType /\ main.rp \in Route
    BY <1>0, <1>6 DEF CheckDynDns, Idle, TypeOK
  <2>range. main.rp + 1 \in 1..(Len(Config) + 1)
    BY <2>1
  <2>next. main' = [main EXCEPT !.pc = "scan", !.rp = main.rp + 1]
    BY <1>6 DEF CheckDynDns
  <2>2. main' \in MainType /\ main'.pc = "scan"
    BY <2>1, <2>range, <2>next DEF MainType
  <2>3. threadrunning' \in BOOLEAN /\ since' \in 0..WAIT_POLL /\ thread' \in [Tid -> ThreadType]
    BY <1>0, <1>6, UpdateDnsType DEF CheckDynDns, tvars, TypeOK
  <2> QED BY <1>6, <2>2, <2>3 DEF CheckDynDns, TypeOK, MainType, ThreadType, Positions
<1>7. CASE ScanDone
  <2>1. main \in MainType
    BY <1>0, <1>7 DEF ScanDone, Idle
  <2>range. main' = Idle \/ main' = [main EXCEPT !.pc = "gateway", !.rp = 1]
    BY <1>7 DEF ScanDone
  <2>2. main' = Idle \/ (main' \in MainType /\ main'.pc = "gateway")
    <3>1. 1 \in 1..(Len(Config) + 1)
      OBVIOUS
    <3>2. CASE main' = [main EXCEPT !.pc = "gateway", !.rp = 1]
      BY <2>1, <3>1, <3>2 DEF MainType
    <3> QED BY <2>range, <3>2
  <2>3. main'.pc \notin {"changed", "learned"}
    BY <2>2 DEF Idle
  <2> QED BY <1>7, <2>2, <2>3 DEF ScanDone, TypeOK, MainType, Positions, tvars
<1>8. CASE FindGateway
  <2>1. main \in MainType /\ main.pc = "gateway"
    BY <1>0, <1>8 DEF FindGateway, Idle
  <2>2. main' = Idle \/ (main' \in MainType /\ main'.pc = "gateway")
    BY <1>8, <2>1 DEF FindGateway, MainType
  <2>3. main'.pc \notin {"changed", "learned"}
    BY <2>2 DEF Idle
  <2>4. /\ Positions' \subseteq Seq({"prev", "next"})
        /\ \A p \in Positions' : callsign_lookup'[p] \in [call : Calls, route : Route]
        /\ DOMAIN learned' \subseteq Calls
        /\ \A c \in DOMAIN learned' : learned'[c] \in Route
    <3>1. CASE UNCHANGED <<callsign_lookup, learned>>
      BY <3>1 DEF TypeOK, Positions
    <3>2. CASE /\ main.rp \in Route
               /\ route_updatereturnpath(main.call, main.rp)
               /\ learned' = [c \in DOMAIN learned \cup {main.call} |->
                                IF c = main.call THEN main.rp ELSE learned[c]]
      <4> DEFINE P == Search(main.call)
      <4>1. P \in Seq({"prev", "next"})
        BY InsertSlot DEF Direction
      <4>2. main.call \in Calls
        BY <2>1 DEF MainType
      <4>3. callsign_lookup' = [q \in Positions \cup {P} |->
                                  IF q = P THEN [call |-> main.call, route |-> main.rp]
                                           ELSE callsign_lookup[q]]
        BY <3>2 DEF route_updatereturnpath
      <4> HIDE DEF P
      <4>4. Positions' = Positions \cup {P}
        BY <4>3 DEF Positions
      <4>5. \A p \in Positions' : callsign_lookup'[p] \in [call : Calls, route : Route]
        BY <3>2, <4>2, <4>3, <4>4 DEF TypeOK
      <4> QED BY <3>2, <4>1, <4>2, <4>4, <4>5 DEF TypeOK
    <3> QED BY <1>8, <3>1, <3>2 DEF FindGateway
  <2> QED BY <1>8, <2>2, <2>3, <2>4 DEF FindGateway, TypeOK, MainType, tvars
<1>9. ASSUME NEW t \in Tid, ThreadStep(t)
      PROVE  TypeOK'
  <2>1. thread[t] \in ThreadType
    BY <1>0
  <2>2. thread' \in [Tid -> ThreadType]
    <3>1. CASE DnsCheck(t)
      BY <1>0, <2>1, <3>1 DEF DnsCheck, ThreadType
    <3>2. CASE DnsAnswer(t) \/ DnsFailure(t)
      <4>1. thread[t].rp \in Route
        BY <2>1, <3>2 DEF DnsAnswer, DnsFailure, ThreadType, NoThread
      <4>2. [pc |-> "walk", rp |-> thread[t].rp + 1] \in ThreadType
        BY <4>1 DEF ThreadType
      <4>3. thread' = [thread EXCEPT ![t] = [pc |-> "walk", rp |-> thread[t].rp + 1]]
        BY <3>2 DEF DnsAnswer, DnsFailure
      <4> QED BY <1>0, <4>2, <4>3
    <3>3. CASE DnsDone(t)
      BY <1>0, <3>3 DEF DnsDone, ThreadType
    <3> QED BY <1>9, <3>1, <3>2, <3>3 DEF ThreadStep
  <2>3. ip' \in [Route -> Ip]
    <3>1. CASE DnsAnswer(t)
      <4>1. thread[t].rp \in Route
        BY <2>1, <3>1 DEF DnsAnswer, ThreadType, NoThread
      <4> QED BY <1>0, <3>1, <4>1 DEF DnsAnswer
    <3> QED BY <1>0, <1>9, <3>1 DEF ThreadStep, DnsCheck, DnsFailure, DnsDone
  <2>4. threadrunning' \in BOOLEAN /\ UNCHANGED <<callsign_lookup, since, main, learned>>
    BY <1>9 DEF ThreadStep, DnsCheck, DnsAnswer, DnsFailure, DnsDone, TypeOK
  <2> QED BY <2>2, <2>3, <2>4 DEF TypeOK, ThreadType, Positions
<1>10. CASE UNCHANGED vars
  BY <1>10 DEF vars, TypeOK, Positions
<1> QED BY <1>1, <1>2, <1>3, <1>4, <1>5, <1>6, <1>7, <1>8, <1>9, <1>10 DEF Next, MainStep

-----------------------------------------------------------------------------
(* One DNS thread *)

\* Every step keeps at most one DNS thread, with threadrunning set.
LEMMA OneStep ==
  ASSUME TypeOK, OneDnsThread, [Next]_vars
  PROVE  OneDnsThread'
<1>0. thread \in [Tid -> ThreadType]
  BY DEF TypeOK, ThreadType
<1>1. ASSUME NEW w, update_dns(w) PROVE OneDnsThread'
  <2>1. CASE UNCHANGED tvars
    BY <2>1 DEF OneDnsThread, tvars
  <2>2. CASE UNCHANGED <<thread, threadrunning>>
    BY <2>2 DEF OneDnsThread
  <2>3. CASE /\ ~threadrunning
             /\ \E t \in Tid :
                 /\ thread[t] = NoThread
                 /\ thread' = [thread EXCEPT ![t] = [pc |-> "walk", rp |-> 1]]
                 /\ threadrunning' = TRUE
    <3>1. PICK t \in Tid : /\ thread' = [thread EXCEPT ![t] = [pc |-> "walk", rp |-> 1]]
                           /\ threadrunning' = TRUE
      BY <2>3
    <3>2. \A u \in Tid : thread[u] = NoThread
      BY <2>3 DEF OneDnsThread
    <3>3. thread'[t] # NoThread /\ \A u \in Tid \ {t} : thread'[u] = NoThread
      BY <1>0, <3>1, <3>2 DEF NoThread
    <3> QED BY <3>1, <3>3 DEF OneDnsThread
  <2> QED BY <1>1, <2>1, <2>2, <2>3 DEF update_dns
<1>2. ASSUME NEW t \in Tid, ThreadStep(t)
      PROVE  OneDnsThread'
  <2>1. /\ thread[t] # NoThread
        /\ \A u \in Tid \ {t} : thread[u] = NoThread /\ thread'[u] = thread[u]
    BY <1>0, <1>2 DEF ThreadStep, DnsCheck, DnsAnswer, DnsFailure, DnsDone, NoThread, OneDnsThread
  <2>2. CASE DnsDone(t)
    <3>1. thread'[t] = NoThread /\ threadrunning' = FALSE
      BY <1>0, <2>2 DEF DnsDone
    <3> QED BY <2>1, <3>1 DEF OneDnsThread
  <2>3. CASE DnsCheck(t) \/ DnsAnswer(t) \/ DnsFailure(t)
    <3>1. thread'[t] # NoThread /\ threadrunning' = threadrunning
      BY <1>0, <2>3 DEF DnsCheck, DnsAnswer, DnsFailure, NoThread
    <3> QED BY <2>1, <3>1 DEF OneDnsThread
  <2> QED BY <1>2, <2>2, <2>3 DEF ThreadStep
<1>3. CASE UNCHANGED tvars
  BY <1>3 DEF OneDnsThread, tvars
<1>4. CASE PollDns
  BY <1>1, <1>4 DEF PollDns
<1>5. CASE CheckDynDns
  BY <1>1, <1>3, <1>5 DEF CheckDynDns
<1>6. CASE Tick
  BY <1>6 DEF Tick, OneDnsThread
<1>7. ASSUME NEW src \in Sources, NEW call \in Calls, RouteProcess(src, call)
      PROVE  OneDnsThread'
  BY <1>3, <1>7 DEF RouteProcess
<1>8. CASE ScanRoute \/ UpdateDynDns \/ ScanDone \/ FindGateway
  BY <1>3, <1>8 DEF ScanRoute, UpdateDynDns, ScanDone, FindGateway
<1>9. CASE UNCHANGED vars
  BY <1>3, <1>9 DEF vars, tvars
<1> QED BY <1>2, <1>4, <1>5, <1>6, <1>7, <1>8, <1>9 DEF Next, MainStep

-----------------------------------------------------------------------------
(* Permanent addresses *)

\* A lookup under way for a permanent route that does not learn finds its
\* address as unknown as it was when the thread tested it.
LookupInv ==
  \A t \in Tid : LET rp == thread[t].rp
                 IN  thread[t].pc = "lookup" /\ Has(rp, "PERMANENT") /\ ~Has(rp, "LEARN")
                       => ip[rp] = NoIp

\* Who changes an address: route_updatedyndns, if the route learns, and the
\* lookup of a thread.
LEMMA LookupStep ==
  ASSUME TypeOK, OneDnsThread, LookupInv, [Next]_vars
  PROVE  /\ LookupInv'
         /\ \A r \in Route :
              Has(r, "PERMANENT") /\ ~Has(r, "LEARN") /\ ip[r] # NoIp => ip'[r] = ip[r]
<1> DEFINE Kept == \A r \in Route :
              Has(r, "PERMANENT") /\ ~Has(r, "LEARN") /\ ip[r] # NoIp => ip'[r] = ip[r]
<1>0. thread \in [Tid -> ThreadType] /\ ip \in [Route -> Ip]
  BY DEF TypeOK, ThreadType
<1>1. ASSUME NEW w, update_dns(w), ip' = ip PROVE LookupInv'
  <2>1. \A t \in Tid : thread'[t] = thread[t] \/ thread'[t] = [pc |-> "walk", rp |-> 1]
    BY <1>0, <1>1 DEF update_dns, tvars
  <2> QED BY <1>1, <2>1 DEF LookupInv
<1>2. CASE UNCHANGED <<thread, ip>>
  BY <1>2 DEF LookupInv
<1>3. CASE PollDns
  BY <1>1, <1>3 DEF PollDns
<1>4. CASE CheckDynDns
  BY <1>1, <1>2, <1>4 DEF CheckDynDns, tvars
<1>5. CASE Tick \/ ScanRoute \/ ScanDone \/ FindGateway \/ UNCHANGED vars
  BY <1>2, <1>5 DEF Tick, ScanRoute, ScanDone, FindGateway, vars, tvars
<1>6. ASSUME NEW src \in Sources, NEW call \in Calls, RouteProcess(src, call)
      PROVE  LookupInv' /\ Kept
  BY <1>2, <1>6 DEF RouteProcess, tvars
<1>7. CASE UpdateDynDns
  <2>1. thread' = thread
    BY <1>7 DEF UpdateDynDns, tvars
  <2>2. \A r \in Route : ~Has(r, "LEARN") => ip'[r] = ip[r]
    BY <1>0, <1>7 DEF UpdateDynDns
  <2>3. Kept
    BY <2>2
  <2>4. \A t \in Tid : thread[t].pc = "lookup" => thread[t].rp \in Route
    BY <1>0 DEF ThreadType, NoThread
  <2> QED BY <2>1, <2>2, <2>3, <2>4 DEF LookupInv
<1>8. ASSUME NEW t \in Tid, ThreadStep(t)
      PROVE  LookupInv' /\ Kept
  <2>1. \A u \in Tid \ {t} : thread'[u] = NoThread
    BY <1>0, <1>8 DEF ThreadStep, DnsCheck, DnsAnswer, DnsFailure, DnsDone, NoThread, OneDnsThread
  <2>2. \A u \in Tid \ {t} : thread'[u].pc # "lookup"
    BY <2>1 DEF NoThread
  <2>3. CASE DnsCheck(t)
    <3>1. ip' = ip /\ thread'[t].rp \in {thread[t].rp, thread[t].rp + 1}
      BY <1>0, <2>3 DEF DnsCheck
    <3>2. thread'[t].pc = "lookup" =>
            thread'[t].rp = thread[t].rp /\ (~Has(thread[t].rp, "PERMANENT") \/ ip[thread[t].rp] = NoIp)
      BY <1>0, <2>3 DEF DnsCheck
    <3> QED BY <2>2, <3>1, <3>2 DEF LookupInv
  <2>4. CASE DnsAnswer(t)
    <3>1. thread'[t].pc = "walk"
      BY <1>0, <2>4 DEF DnsAnswer
    <3>2. LookupInv'
      BY <2>2, <3>1 DEF LookupInv
    <3>3. \A r \in Route : r # thread[t].rp => ip'[r] = ip[r]
      BY <1>0, <2>4 DEF DnsAnswer
    <3>4. Has(thread[t].rp, "PERMANENT") /\ ~Has(thread[t].rp, "LEARN") => ip[thread[t].rp] = NoIp
      BY <2>4 DEF DnsAnswer, LookupInv
    <3> QED BY <3>2, <3>3, <3>4
  <2>5. CASE DnsFailure(t) \/ DnsDone(t)
    <3>1. thread'[t].pc # "lookup" /\ ip' = ip
      BY <1>0, <2>5 DEF DnsFailure, DnsDone, NoThread
    <3> QED BY <2>2, <3>1 DEF LookupInv
  <2> QED BY <1>8, <2>3, <2>4, <2>5 DEF ThreadStep
<1>9. PollDns \/ CheckDynDns => Kept
  BY DEF PollDns, CheckDynDns
<1>10. Tick \/ ScanRoute \/ ScanDone \/ FindGateway \/ UNCHANGED vars => Kept
  BY DEF Tick, ScanRoute, ScanDone, FindGateway, vars
<1> QED BY <1>3, <1>4, <1>5, <1>6, <1>7, <1>8, <1>9, <1>10 DEF Next, MainStep

-----------------------------------------------------------------------------
(* Return paths *)

\* What route_process knows of the entries it has passed.
ScanInv ==
  /\ main.pc = "scan" =>
       \A r \in Route : r < main.rp /\ addrmatch(main.call, Config[r].call) => main.isroute
  /\ main.pc \in {"changed", "learned"} =>
       \A r \in Route : r <= main.rp /\ addrmatch(main.call, Config[r].call) => main.isroute
  /\ main.pc = "gateway" => Matching(main.call) = {} /\ ~is_call_bcast(main.call)

\* Every step keeps the record of the entries route_process has passed.
LEMMA ScanStep ==
  ASSUME TypeOK, ScanInv, [Next]_vars
  PROVE  ScanInv'
<1> USE ConfigType
<1>0. main = Idle \/ main \in MainType
  BY DEF TypeOK, MainType
<1>1. CASE main' = main
  BY <1>1 DEF ScanInv
<1>2. CASE main' = Idle
  BY <1>2 DEF ScanInv, Idle
<1>3. CASE PollDns \/ Tick \/ UNCHANGED vars
  BY <1>1, <1>3 DEF PollDns, Tick, vars
<1>4. ASSUME NEW t \in Tid, ThreadStep(t) PROVE ScanInv'
  BY <1>1, <1>4 DEF ThreadStep, DnsCheck, DnsAnswer, DnsFailure, DnsDone
<1>5. ASSUME NEW src \in Sources, NEW call \in Calls, RouteProcess(src, call)
      PROVE  ScanInv'
  <2>1. main'.pc = "scan" /\ main'.rp = 1
    BY <1>5 DEF RouteProcess
  <2> QED BY <2>1 DEF ScanInv
<1>6. CASE ScanRoute
  <2>1. main \in MainType /\ main.rp \in Route /\ main.pc = "scan"
    BY <1>0, <1>6 DEF ScanRoute, Idle
  <2> DEFINE m == addrmatch(main.call, Config[main.rp].call)
             i == main.isroute \/ m
  <2>2. \/ main' = [main EXCEPT !.isroute = i, !.pc = "changed", !.rp = main.rp]
        \/ main' = [main EXCEPT !.isroute = i, !.pc = main.pc, !.rp = main.rp + 1]
    BY <1>6, Zenon DEF ScanRoute
  <2>3. \A r \in Route : r < main.rp /\ addrmatch(main.call, Config[r].call) => main.isroute
    BY <2>1 DEF ScanInv
  <2>4. \A r \in Route : r <= main.rp => r < main.rp \/ r = main.rp
    BY <2>1
  <2>5. \A r \in Route : r <= main.rp /\ addrmatch(main.call, Config[r].call) => i
    BY <2>3, <2>4
  <2>6. \A r \in Route : r < main.rp + 1 => r <= main.rp
    BY <2>1
  <2> HIDE DEF i
  <2>7. \/ main'.pc = "changed" /\ main'.rp = main.rp
        \/ main'.pc = "scan" /\ main'.rp = main.rp + 1
    BY <2>1, <2>2 DEF MainType
  <2>8. main'.isroute = i /\ main'.call = main.call
    BY <2>1, <2>2 DEF MainType
  <2> QED BY <2>5, <2>6, <2>7, <2>8 DEF ScanInv
<1>7. CASE UpdateDynDns
  <2>1. main \in MainType /\ main.pc = "changed"
    BY <1>0, <1>7 DEF UpdateDynDns, Idle
  <2>2. /\ main'.pc = "learned" /\ main'.rp = main.rp /\ main'.call = main.call
        /\ main'.isroute = main.isroute
    BY <1>7, <2>1 DEF UpdateDynDns, MainType
  <2> QED BY <2>1, <2>2 DEF ScanInv
<1>8. CASE CheckDynDns
  <2>1. main \in MainType /\ main.pc = "learned" /\ main.rp \in Route
    BY <1>0, <1>8 DEF CheckDynDns, Idle, TypeOK
  <2>2. /\ main'.pc = "scan" /\ main'.rp = main.rp + 1 /\ main'.call = main.call
        /\ main'.isroute = main.isroute
    BY <1>8, <2>1 DEF CheckDynDns, MainType
  <2>3. \A r \in Route : r < main.rp + 1 => r <= main.rp
    BY <2>1
  <2> QED BY <2>1, <2>2, <2>3 DEF ScanInv
<1>9. CASE ScanDone
  <2>1. main \in MainType /\ main.pc = "scan" /\ main.rp \notin Route
    BY <1>0, <1>9 DEF ScanDone, Idle
  <2>2. CASE main.isroute \/ is_call_bcast(main.call)
    BY <1>2, <1>9, <2>2 DEF ScanDone
  <2>3. CASE ~(main.isroute \/ is_call_bcast(main.call))
    <3>1. main'.pc = "gateway" /\ main'.call = main.call
      BY <1>9, <2>1, <2>3 DEF ScanDone, MainType
    <3>2. \A r \in Route : r < main.rp
      BY <2>1 DEF MainType
    <3>3. Matching(main.call) = {}
      BY <2>1, <2>3, <3>2 DEF ScanInv, Matching
    <3> QED BY <2>3, <3>1, <3>3 DEF ScanInv, Matching, is_call_bcast
  <2> QED BY <2>2, <2>3
<1>10. CASE FindGateway
  <2>1. CASE main' = [main EXCEPT !.rp = main.rp + 1]
    <3>1. main \in MainType /\ main.pc = "gateway"
      BY <1>0, <1>10 DEF FindGateway, Idle
    <3>2. main'.pc = "gateway" /\ main'.call = main.call
      BY <2>1, <3>1 DEF MainType
    <3> QED BY <3>1, <3>2 DEF ScanInv, Matching, is_call_bcast
  <2> QED BY <1>2, <1>10, <2>1 DEF FindGateway
<1> QED BY <1>3, <1>4, <1>5, <1>6, <1>7, <1>8, <1>9, <1>10 DEF Next, MainStep

\* Only FindGateway touches the tree.
LEMMA TreeSteps ==
  ASSUME [Next]_vars
  PROVE  \/ UNCHANGED <<callsign_lookup, learned>>
         \/ /\ main.pc = "gateway" /\ main.rp \in Route
            /\ route_updatereturnpath(main.call, main.rp)
            /\ learned' = [c \in DOMAIN learned \cup {main.call} |->
                             IF c = main.call THEN main.rp ELSE learned[c]]
<1>1. CASE FindGateway
  BY <1>1 DEF FindGateway
<1>2. CASE PollDns \/ Tick \/ UNCHANGED vars
  BY <1>2 DEF PollDns, Tick, vars
<1>3. CASE ScanRoute \/ UpdateDynDns \/ CheckDynDns \/ ScanDone
  BY <1>3 DEF ScanRoute, UpdateDynDns, CheckDynDns, ScanDone
<1>4. ASSUME NEW src \in Sources, NEW call \in Calls, RouteProcess(src, call)
      PROVE  UNCHANGED <<callsign_lookup, learned>>
  BY <1>4 DEF RouteProcess
<1>5. ASSUME NEW t \in Tid, ThreadStep(t)
      PROVE  UNCHANGED <<callsign_lookup, learned>>
  BY <1>5 DEF ThreadStep, DnsCheck, DnsAnswer, DnsFailure, DnsDone
<1> QED BY <1>1, <1>2, <1>3, <1>4, <1>5 DEF Next, MainStep

\* Inserting a return path keeps every node on the path of its callsign.
LEMMA TreeStep ==
  ASSUME TypeOK, TreeInv, [Next]_vars
  PROVE  TreeInv'
<1>1. CASE UNCHANGED <<callsign_lookup, learned>>
  BY <1>1 DEF TreeInv, Positions, OnPath
<1>2. CASE /\ main.pc = "gateway" /\ main.rp \in Route
           /\ route_updatereturnpath(main.call, main.rp)
           /\ learned' = [c \in DOMAIN learned \cup {main.call} |->
                            IF c = main.call THEN main.rp ELSE learned[c]]
  <2> DEFINE call == main.call
             P == Search(call)
  <2>1. /\ P \in Slots /\ SearchEnd(call, P) /\ P \in Seq(Direction)
    BY InsertSlot
  <2>2. call \in Calls
    BY <1>2 DEF TypeOK, Idle
  <2>3. callsign_lookup' = [q \in Positions \cup {P} |->
                              IF q = P THEN [call |-> call, route |-> main.rp]
                                       ELSE callsign_lookup[q]]
    BY <1>2 DEF route_updatereturnpath
  <2>4. P \in Positions => callsign_lookup[P].call = call
    <3>1. P \in Positions => /\ callsign_lookup[P].call \in Calls
                             /\ addrcompare(call, callsign_lookup[P].call) = 0
      BY <2>1 DEF SearchEnd, TypeOK
    <3> QED BY <2>2, <3>1, CompareZero
  <2> HIDE DEF P, call
  <2>5. Positions' = Positions \cup {P}
    BY <2>3 DEF Positions
  <2>6. \A q \in Positions : q \in Positions' /\ callsign_lookup'[q].call = callsign_lookup[q].call
    BY <2>3, <2>4, <2>5
  <2>7. ASSUME NEW c, NEW q, OnPath(c, q) PROVE OnPath(c, q)'
    BY <2>6, <2>7 DEF OnPath
  <2>8. \E B \in Nat : \A p \in Positions' : Len(p) <= B
    <3>1. PICK B \in Nat : \A p \in Positions : Len(p) <= B
      BY DEF TreeInv
    <3>2. \A p \in Positions : Len(p) \in Nat
      BY DEF TypeOK
    <3>3. Len(P) \in Nat
      BY <2>1
    <3>4. B + Len(P) \in Nat /\ \A p \in Positions' : Len(p) <= B + Len(P)
      BY <2>5, <3>1, <3>2, <3>3
    <3> QED BY <3>4
  <2>9. \A p \in Positions' : OnPath(callsign_lookup[p].call, p)'
    <3> SUFFICES ASSUME NEW p \in Positions', NEW c, c = callsign_lookup'[p].call
                 PROVE  OnPath(c, p)'
      BY DEF OnPath
    <3>1. CASE p \in Positions
      <4>1. c = callsign_lookup[p].call
        BY <2>6, <3>1
      <4>2. OnPath(c, p)
        BY <3>1, <4>1 DEF TreeInv
      <4> QED BY <2>7, <4>2
    <3>2. CASE p = P
      <4>1. OnPath(call, P)
        BY <2>1 DEF SearchEnd
      <4>2. c = call
        BY <2>3, <3>2
      <4> QED BY <2>7, <3>2, <4>1, <4>2
    <3> QED BY <2>5, <3>1, <3>2
  <2>10. ASSUME NEW c \in DOMAIN learned'
         PROVE  \E p \in Positions' : callsign_lookup'[p] = [call |-> c, route |-> learned'[c]]
    <3>1. CASE c = call
      <4>1. callsign_lookup'[P] = [call |-> c, route |-> learned'[c]]
        BY <1>2, <2>3, <3>1 DEF call
      <4> QED BY <2>5, <4>1
    <3>2. CASE c # call
      <4>1. c \in DOMAIN learned /\ learned'[c] = learned[c]
        BY <1>2, <2>10, <3>2 DEF call
      <4>2. PICK p \in Positions : callsign_lookup[p] = [call |-> c, route |-> learned[c]]
        BY <4>1 DEF TreeInv
      <4>3. p # P
        BY <2>4, <3>2, <4>2
      <4>4. callsign_lookup'[p] = callsign_lookup[p]
        BY <2>3, <4>3
      <4> QED BY <2>5, <4>1, <4>2, <4>4
    <3> QED BY <3>1, <3>2
  <2> QED BY <2>8, <2>9, <2>10 DEF TreeInv
<1> QED BY <1>1, <1>2, TreeSteps

\* A new return path is for a callsign the configuration does not match.
LEMMA ExtraStep ==
  ASSUME TypeOK, TreeInv, ScanInv, ReturnPathsAreExtra, [Next]_vars
  PROVE  ReturnPathsAreExtra'
<1>1. CASE UNCHANGED <<callsign_lookup, learned>>
  BY <1>1 DEF ReturnPathsAreExtra, Positions, Matching, is_call_bcast
<1>2. CASE main.pc = "gateway" /\ route_updatereturnpath(main.call, main.rp)
  <2>1. Matching(main.call) = {} /\ ~is_call_bcast(main.call)
    BY <1>2 DEF ScanInv
  <2>2. \A p \in Positions' : \/ callsign_lookup'[p].call = main.call
                              \/ p \in Positions /\ callsign_lookup'[p] = callsign_lookup[p]
    BY <1>2 DEF route_updatereturnpath, Positions
  <2> QED BY <2>1, <2>2 DEF ReturnPathsAreExtra, Matching, is_call_bcast
<1> QED BY <1>1, <1>2, TreeSteps

-----------------------------------------------------------------------------
(* Theorems *)

\* The inductive invariant: the invariants the runs check, and what they
\* rest on.
Inv == /\ TypeOK /\ OneDnsThread /\ LookupInv
       /\ ScanInv /\ TreeInv /\ ReturnPathsAreExtra

\* Inv holds in every reachable state of the routing module.
THEOREM InvHolds == Spec => []Inv
<1>1. Init => Inv
  <2> SUFFICES ASSUME Init PROVE Inv
    OBVIOUS
  <2>1. TypeOK
    BY TypeInit
  <2>2. OneDnsThread /\ LookupInv
    BY DEF Init, OneDnsThread, LookupInv, NoThread
  <2>3. ScanInv
    BY DEF Init, ScanInv, Idle
  <2>4. Positions = {} /\ DOMAIN learned = {}
    BY DEF Init, Positions
  <2>5. TreeInv /\ ReturnPathsAreExtra
    BY <2>4 DEF TreeInv, ReturnPathsAreExtra
  <2> QED BY <2>1, <2>2, <2>3, <2>5 DEF Inv
<1>2. Inv /\ [Next]_vars => Inv'
  BY TypeStep, OneStep, LookupStep, ScanStep, TreeStep, ExtraStep DEF Inv
<1> QED BY <1>1, <1>2, PTL DEF Spec

\* The walks over the table and the tree stay inside them, for every
\* configuration.
THEOREM TypeCorrect == Spec => []TypeOK
<1>1. Inv => TypeOK
  BY DEF Inv
<1> QED BY <1>1, InvHolds, PTL

\* At most one DNS thread runs, however many starts are asked for.
THEOREM OneThread == Spec => []OneDnsThread
<1>1. Inv => OneDnsThread
  BY DEF Inv
<1> QED BY <1>1, InvHolds, PTL

\* The address of a permanent route that does not learn is set once at most.
THEOREM PermanentRoutes == Spec => PermanentKept
<1> DEFINE Kept == \A r \in Route :
              Has(r, "PERMANENT") /\ ~Has(r, "LEARN") /\ ip[r] # NoIp => ip'[r] = ip[r]
<1>1. Inv /\ [Next]_vars => [Kept]_ip
  BY LookupStep DEF Inv
<1>2. Spec => [][Kept]_ip
  BY <1>1, InvHolds, PTL DEF Spec
<1> QED BY <1>2 DEF PermanentKept

\* The search of call_to_ip finds the latest return path of every callsign,
\* for any set of callsigns and although addrcompare is not an ordering.
THEOREM ReturnPaths == Spec => []ReturnPathFound
<1>1. Inv => ReturnPathFound
  BY TreeFinds DEF Inv
<1> QED BY <1>1, InvHolds, PTL

\* Return paths never shadow a route of the configuration or a broadcast.
THEOREM ReturnPathsExtra == Spec => []ReturnPathsAreExtra
<1>1. Inv => ReturnPathsAreExtra
  BY DEF Inv
<1> QED BY <1>1, InvHolds, PTL
=============================================================================
