--------------------------- MODULE Ax25ipdProcess ----------------------------
(***************************************************************************)
(* The frame handlers of ax25ipd (ax25apps/ax25ipd/process.c, with         *)
(* send_broadcast and send_ip): several daemons, each with a KISS side (a  *)
(* radio, or the kernel in tnc mode) and a UDP/IP side, exchange AX.25     *)
(* frames in datagrams that may be lost, duplicated, reordered or damaged. *)
(* What one daemon transmits by radio another one may hear.                *)
(*                                                                         *)
(* A frame is the sequence of the 7-byte groups it holds, each an address  *)
(* with its H (has been repeated) and E (last address) bits, and the       *)
(* number of bytes after the last whole group.  Groups 1 and 2 are the     *)
(* destination and the source; which groups are addresses depends on the   *)
(* E bits, as it does in the code.  Callsigns match when they are equal.   *)
(* The tree of return paths is a map here: Ax25ipdRoute shows it is one.   *)
(***************************************************************************)
EXTENDS Naturals, Sequences, FiniteSetsExt, TLAPS, WellFoundedInduction

CONSTANTS
  Gateway,    \* daemons; a gateway also stands for its IP address
  Nowhere,    \* an address nothing is sent to (0.0.0.0, or no such socket)
  MyCalls,    \* [Gateway -> mycall, mycall2 and the two aliases, if set]
  Digi,       \* gateways configured "mode digi"; the others are in tnc mode
  Routes,     \* [Gateway -> Seq([call, gw, flags])]
  Bcast,      \* broadcast callsigns
  Frames,     \* frames that stations transmit near a gateway
  MAX_DIGIS,
  MaxNet      \* bound: datagrams under way at a time

VARIABLES
  net,    \* datagrams under way
  radio,  \* [Gateway -> the last frame sent out of its KISS side]
  ret,    \* [Gateway -> [callsign -> route] learned by route_process]
  last    \* history: the last frame handled: [op, g, in, out, via, sender]

gvars == <<net, radio, ret, last>>

-----------------------------------------------------------------------------
(* Address fields *)

FrameLen(f) == 7 * Len(f.addr) + f.rem

\* The first E bit at or after the source, with a control byte behind it.
addr_field_ok(f) ==
  \E n \in 2..(2 + MAX_DIGIS) :
    /\ n <= Len(f.addr)
    /\ f.addr[n].e
    /\ FrameLen(f) >= 7 * n + 1
    /\ \A m \in 2..(n - 1) : ~f.addr[m].e

\* The digipeaters that stop the walk: one that has not repeated the frame,
\* or the last of the address.
Pending(f)  == {i \in 3..Len(f.addr) : ~f.addr[i].h}
Stopping(f) == {i \in 3..Len(f.addr) : ~f.addr[i].h \/ f.addr[i].e}

\* Where the walk ends: at the first of these groups, or at the group behind
\* the frame if it runs off its end.
WalkEnd(f, stops) == Min(stops \cup {Len(f.addr) + 1})

WithH(f) == Len(f.addr) > 1 /\ ~f.addr[2].e

\* Mutant: the walk stops at an unset H bit only.
next_addr_noend(f) ==
  LET i == WalkEnd(f, Pending(f))
  IN  IF WithH(f) THEN i ELSE 1

\* The next station to get the frame: the first digipeater that has not
\* repeated it, else the destination.
next_addr(f) ==
  LET i == WalkEnd(f, Stopping(f))
  IN  IF ~WithH(f) THEN 1
      ELSE IF i > Len(f.addr) THEN i
      ELSE IF ~f.addr[i].h THEN i ELSE 1

\* The station the frame came from, as the code computes it.
from_addr(g, f) ==
  LET i == WalkEnd(f, Stopping(f))
  IN  IF ~WithH(f) THEN 2
      ELSE IF i > Len(f.addr) THEN i
      ELSE IF g \in Digi \/ ~f.addr[i].h THEN i - 1 ELSE i

\* The callsign of group i; what lies behind the frame matches nothing.
CallAt(f, i) == IF i \in DOMAIN f.addr THEN f.addr[i].call ELSE Nowhere

IsMe(g, f, i) == CallAt(f, i) \in MyCalls[g]

\* Mutant: overwrites the whole last byte of the address.
SetRepeatedByte(f, i) == [f EXCEPT !.addr[i].h = TRUE, !.addr[i].e = FALSE]

SetRepeated(f, i) == [f EXCEPT !.addr[i].h = TRUE]

-----------------------------------------------------------------------------
(* Routing *)

Has(g, r, flag) == flag \in Routes[g][r].flags
Least(s) == CHOOSE i \in s : \A j \in s : i <= j
Greatest(s) == CHOOSE i \in s : \A j \in s : i >= j

call_to_ip(g, call) ==
  LET match == {r \in DOMAIN Routes[g] : Routes[g][r].call = call}
      default == {r \in DOMAIN Routes[g] : Has(g, r, "DEFAULT")}
  IN  IF match # {} THEN Least(match)
      ELSE IF call \in DOMAIN ret[g] THEN ret[g][call]
      ELSE IF default # {} THEN Greatest(default)
      ELSE 0

\* send_ip to the addresses of a set of routes: none to address zero.
Datagrams(g, f, rs) ==
  {[to |-> Routes[g][r].gw, from |-> g, frame |-> f, crc |-> TRUE] :
     r \in {q \in rs : Routes[g][q].gw # Nowhere}}

\* route_process for a frame that came from address src.
RouteProcess(g, src, call) ==
  LET known == \E r \in DOMAIN Routes[g] : Routes[g][r].call = call
      via == {r \in DOMAIN Routes[g] : Routes[g][r].gw = src}
  IN  IF known \/ call \in Bcast \/ via = {} THEN ret[g]
      ELSE [c \in DOMAIN ret[g] \cup {call} |-> IF c = call THEN Least(via) ELSE ret[g][c]]

-----------------------------------------------------------------------------
NoFrame == [addr |-> <<>>, rem |-> 0]

GatewayInit ==
  /\ net = {}
  /\ radio = [g \in Gateway |-> NoFrame]
  /\ ret = [g \in Gateway |-> [c \in {} |-> 0]]
  /\ last = [op |-> "none", g |-> Nowhere, in |-> NoFrame, out |-> NoFrame,
             via |-> 0, sender |-> 0]

Handled(op, g, f, out, via, sender) ==
  last' = [op |-> op, g |-> g, in |-> f, out |-> out, via |-> via, sender |-> sender]

Dumped(g, f) == Handled("dump", g, f, NoFrame, 0, 0)

\* Is the frame one this gateway passes on?  tooshort, bad address field and,
\* in digi mode, not_for_me and i_am_dest are the reasons it is not.
Passes(g, f) ==
  /\ FrameLen(f) >= 15
  /\ addr_field_ok(f)
  /\ g \in Digi => IsMe(g, f, next_addr(f)) /\ next_addr(f) # 1

\* Mutant: marks the frame in tnc mode as well.
RepeatedAlways(g, f) == IF next_addr(f) # 1 THEN SetRepeated(f, next_addr(f)) ELSE f

Repeated(g, f) == IF g \in Digi THEN SetRepeated(f, next_addr(f)) ELSE f

\* from_kiss: to the next station's route and, for a broadcast callsign, to
\* every broadcast route as well.
FromKiss(g, f) ==
  /\ IF ~Passes(g, f)
       THEN Dumped(g, f) /\ UNCHANGED net
       ELSE LET out == Repeated(g, f)
                a == CallAt(out, next_addr(out))
                r == call_to_ip(g, a)
                rs == (IF r = 0 THEN {} ELSE {r})
                        \cup (IF a \in Bcast
                              THEN {q \in DOMAIN Routes[g] : Has(g, q, "BCAST")} ELSE {})
            IN  /\ net' = net \cup Datagrams(g, out, rs)
                /\ Cardinality(net') <= MaxNet
                /\ IF rs = {} THEN Dumped(g, f)
                   ELSE Handled("kiss", g, f, out, IF g \in Digi THEN next_addr(f) ELSE 0, 0)
  /\ UNCHANGED <<radio, ret>>

\* A station near g, or another gateway's radio, is heard.
HearStation(g, f) == f \in Frames /\ FromKiss(g, f)
HearGateway(g, h) == g # h /\ radio[h] # NoFrame /\ FromKiss(g, radio[h])

\* Mutant: the CRC is not looked at.
FromIpNoCrc(d) ==
  LET g == d.to
      out == Repeated(g, d.frame)
      f == from_addr(g, out)
  IN  /\ d \in net
      /\ net' \in {net, net \ {d}}
      /\ IF ~Passes(g, d.frame)
           THEN Dumped(g, d.frame) /\ UNCHANGED <<radio, ret>>
           ELSE /\ ret' = [ret EXCEPT ![g] = RouteProcess(g, d.from, CallAt(out, f))]
                /\ radio' = [radio EXCEPT ![g] = out]
                /\ Handled("ip", g, d.frame, out,
                           IF g \in Digi THEN next_addr(d.frame) ELSE 0, f)

\* from_ip: the datagram is consumed, or stays if the network duplicates it.
FromIp(d) ==
  LET g == d.to
      out == Repeated(g, d.frame)
      f == from_addr(g, out)
  IN  /\ d \in net
      /\ net' \in {net, net \ {d}}
      /\ IF ~d.crc \/ ~Passes(g, d.frame)
           THEN Dumped(g, d.frame) /\ UNCHANGED <<radio, ret>>
           ELSE /\ ret' = [ret EXCEPT ![g] = RouteProcess(g, d.from, CallAt(out, f))]
                /\ radio' = [radio EXCEPT ![g] = out]
                /\ Handled("ip", g, d.frame, out,
                           IF g \in Digi THEN next_addr(d.frame) ELSE 0, f)

LoseDatagram(d) ==
  /\ d \in net
  /\ net' = net \ {d}
  /\ UNCHANGED <<radio, ret, last>>

DamageDatagram(d) ==
  /\ d \in net /\ d.crc
  /\ net' = (net \ {d}) \cup {[d EXCEPT !.crc = FALSE]}
  /\ UNCHANGED <<radio, ret, last>>

GatewayNext ==
  \/ \E g \in Gateway, f \in Frames : HearStation(g, f)
  \/ \E g, h \in Gateway : HearGateway(g, h)
  \/ \E d \in net : FromIp(d) \/ LoseDatagram(d) \/ DamageDatagram(d)

GatewaySpec == GatewayInit /\ [][GatewayNext]_gvars

-----------------------------------------------------------------------------
(* Properties *)

Addr(f) == {i \in DOMAIN f.addr : \A j \in 2..(i - 1) : ~f.addr[j].e}
AllFrames == {d.frame : d \in net} \cup ({radio[g] : g \in Gateway} \ {NoFrame})
SameButH(f, o) == /\ f.rem = o.rem /\ DOMAIN f.addr = DOMAIN o.addr
                  /\ \A i \in DOMAIN f.addr : f.addr[i].call = o.addr[i].call
                                              /\ f.addr[i].e = o.addr[i].e

\* The H bits of the digipeaters have no gap, as AX.25 stations set them.
NoGap(f) == \A i, j \in Addr(f) \ {1, 2} : i < j /\ f.addr[j].h => f.addr[i].h

Honest(f) ==
  /\ NoGap(f)
  /\ \E o \in Frames :
       /\ SameButH(f, o)
       /\ \A i \in DOMAIN f.addr :
            f.addr[i].h # o.addr[i].h =>
              /\ f.addr[i].h /\ i \in Addr(f) \ {1, 2}
              /\ \E g \in Digi : f.addr[i].call \in MyCalls[g]

\* Shape of the state; every frame under way comes from one of a station.
GatewayTypeOK ==
  /\ \A d \in net : d.to \in Gateway /\ d.from \in Gateway /\ d.crc \in BOOLEAN
  /\ \A f \in AllFrames : \E o \in Frames : SameButH(f, o)
  /\ \A g \in Gateway : \A c \in DOMAIN ret[g] : ret[g][c] \in DOMAIN Routes[g]

\* next_addr and from_addr walk the digipeaters without knowing where the
\* frame ends: addr_field_ok keeps both on an address of the frame, for the
\* frame handled and for the one sent on with one more H bit.
WalkInsideFrame ==
  last.op \in {"kiss", "ip"} =>
    /\ next_addr(last.in) \in Addr(last.in) \ {2}
    /\ next_addr(last.out) \in Addr(last.out) \ {2}
    /\ last.op = "ip" => last.sender \in Addr(last.out) \ {1}

\* The H bits of a frame under way tell its true story: they cover the
\* digipeaters from the first on without a gap, every bit more than the
\* originating station set belongs to a digi gateway of that callsign, and
\* nothing else in the frame has changed.  This holds through any number of
\* hops by datagram and by radio, with loss and duplication.
HonestTrail == \A f \in AllFrames : Honest(f)

\* A damaged datagram never reaches the radio: all a gateway transmits was
\* received from the network in one piece.
DamagedNeverSent ==
  [][\A g \in Gateway : radio'[g] # radio[g] =>
       \E d \in net : d.to = g /\ d.crc /\ SameButH(d.frame, radio'[g])]_gvars

\* process.c: from_addr returns "the last station this packet came from";
\* in digi mode "we have set REPEATED already, so the one before is it".
\* The address before the one this gateway repeated is the sender.
SenderIsPreviousHop ==
  last.op = "ip" /\ last.g \in Digi => last.sender = last.via - 1

-----------------------------------------------------------------------------
(* Proofs, for any gateways, routes and frames of stations that are fit to *)
(* be heard.  Passing a frame on changes one H bit of one digipeater.      *)

Calls == UNION {{f.addr[i].call : i \in DOMAIN f.addr} : f \in Frames}
FrameType == [addr : Seq([call : Calls, h : BOOLEAN, e : BOOLEAN]), rem : Nat]

\* The configuration and the stations: every route leads to a daemon or
\* nowhere, and stations set H bits from the first digipeater on.
ASSUME ProcessConstants ==
  /\ MAX_DIGIS \in Nat /\ Digi \subseteq Gateway
  /\ \A g \in Gateway : /\ Len(Routes[g]) \in Nat /\ DOMAIN Routes[g] = 1..Len(Routes[g])
                        /\ \A r \in DOMAIN Routes[g] : Routes[g][r].gw \in Gateway \cup {Nowhere}
  /\ Frames \subseteq FrameType /\ \A f \in Frames : NoGap(f)

\* Min of FiniteSetsExt, for numbers.
LEMMA MinIs ==
  ASSUME NEW T \in SUBSET Nat, T # {}
  PROVE  Min(T) \in T /\ \A m \in T : Min(T) <= m
<1>1. PICK n \in T : \A m \in T : ~(<<m, n>> \in OpToRel(<, Nat))
  BY NatLessThanWellFounded, WFMin
<1>2. \A m \in T : m < n => <<m, n>> \in OpToRel(<, Nat)
  BY DEF OpToRel
<1>3. \A m \in T : ~(m < n)
  BY <1>1, <1>2, Zenon
<1>4. \A m \in T : n <= m
  BY <1>3
<1> QED BY <1>4 DEF Min

\* SetRepeated sets one H bit and leaves a frame a frame.
LEMMA SetRepeatedIs ==
  ASSUME NEW f \in FrameType, NEW i \in DOMAIN f.addr
  PROVE  /\ SetRepeated(f, i) \in FrameType /\ SameButH(f, SetRepeated(f, i))
         /\ SetRepeated(f, i).addr[i].h = TRUE
         /\ \A j \in DOMAIN f.addr : j # i => SetRepeated(f, i).addr[j] = f.addr[j]
<1> DEFINE Group == [call : Calls, h : BOOLEAN, e : BOOLEAN]
           s == f.addr
           x == [s[i] EXCEPT !.h = TRUE]
           t == [s EXCEPT ![i] = x]
           r == SetRepeated(f, i)
<1>1. s \in Seq(Group) /\ f.rem \in Nat /\ f = [addr |-> s, rem |-> f.rem]
  BY DEF FrameType
<1>2. s[i] \in Group
  <2>1. i \in DOMAIN s
    OBVIOUS
  <2> HIDE DEF s, Group
  <2>2. DOMAIN s = 1..Len(s)
    BY <1>1
  <2> QED BY <1>1, <2>1, <2>2
<1>3. x \in Group /\ x.h = TRUE /\ x.call = s[i].call /\ x.e = s[i].e
  BY <1>2
<1>4. r = [f EXCEPT !.addr = t]
  BY DEF SetRepeated
<1> HIDE DEF x, Group
<1>5. t \in Seq(Group) /\ DOMAIN t = DOMAIN s /\ t[i] = x /\ \A j \in DOMAIN s : j # i => t[j] = s[j]
  BY <1>1, <1>3
<1> HIDE DEF t, r
<1>6. r.addr = t /\ r.rem = f.rem /\ r \in [addr : Seq(Group), rem : Nat]
  BY <1>1, <1>4, <1>5
<1>7. \A j \in DOMAIN s : s[j].call = t[j].call /\ s[j].e = t[j].e
  BY <1>3, <1>5
<1> QED BY <1>3, <1>5, <1>6, <1>7 DEF r, FrameType, SameButH, Group

\* What does not depend on H bits.
LEMMA SameButHIs ==
  ASSUME NEW f \in FrameType, NEW o \in FrameType, SameButH(f, o)
  PROVE  /\ Addr(f) = Addr(o) /\ Len(f.addr) = Len(o.addr) /\ DOMAIN f.addr = DOMAIN o.addr
         /\ addr_field_ok(f) <=> addr_field_ok(o)
<1> DEFINE Group == [call : Calls, h : BOOLEAN, e : BOOLEAN]
<1>1. f.addr \in Seq(Group) /\ o.addr \in Seq(Group)
  BY DEF FrameType
<1>2. f.rem = o.rem /\ DOMAIN f.addr = DOMAIN o.addr
      /\ \A i \in DOMAIN f.addr : f.addr[i].call = o.addr[i].call /\ f.addr[i].e = o.addr[i].e
  BY DEF SameButH
<1> HIDE DEF Group
<1>3. DOMAIN f.addr = 1..Len(f.addr) /\ DOMAIN o.addr = 1..Len(o.addr)
      /\ Len(f.addr) \in Nat /\ Len(o.addr) \in Nat
  BY <1>1
<1>4. Len(f.addr) = Len(o.addr)
  <2> DEFINE m == Len(f.addr)
             n == Len(o.addr)
  <2>1. m \in Nat /\ n \in Nat /\ 1..m = 1..n
    BY <1>2, <1>3
  <2> HIDE DEF m, n
  <2>2. ~(m < n)
    <3>1. ASSUME m < n PROVE FALSE
      <4>1. n \in 1..n /\ ~(n \in 1..m)
        BY <2>1, <3>1
      <4> QED BY <2>1, <4>1
    <3> QED BY <3>1
  <2>3. ~(n < m)
    <3>1. ASSUME n < m PROVE FALSE
      <4>1. m \in 1..m /\ ~(m \in 1..n)
        BY <2>1, <3>1
      <4> QED BY <2>1, <4>1
    <3> QED BY <3>1
  <2>4. m = n
    BY <2>1, <2>2, <2>3
  <2> QED BY <2>4 DEF m, n
<1>5. Addr(f) = Addr(o)
  <2>1. ASSUME NEW i \in DOMAIN f.addr
        PROVE  (\A j \in 2..(i - 1) : ~f.addr[j].e) <=> \A j \in 2..(i - 1) : ~o.addr[j].e
    <3>1. \A j \in 2..(i - 1) : j \in DOMAIN f.addr
      BY <1>3
    <3>2. \A j \in 2..(i - 1) : f.addr[j].e = o.addr[j].e
      BY <1>2, <3>1
    <3> QED BY <3>2
  <2> QED BY <1>2, <2>1 DEF Addr
<1>6. FrameLen(f) = FrameLen(o)
  BY <1>2, <1>4 DEF FrameLen
<1>7. ASSUME NEW n \in 2..(2 + MAX_DIGIS), n <= Len(f.addr)
      PROVE  (f.addr[n].e /\ FrameLen(f) >= 7 * n + 1 /\ \A m \in 2..(n - 1) : ~f.addr[m].e)
             <=> (o.addr[n].e /\ FrameLen(o) >= 7 * n + 1 /\ \A m \in 2..(n - 1) : ~o.addr[m].e)
  <2>1. n \in DOMAIN f.addr /\ \A m \in 2..(n - 1) : m \in DOMAIN f.addr
    BY <1>3, <1>7
  <2>2. f.addr[n].e = o.addr[n].e /\ \A m \in 2..(n - 1) : f.addr[m].e = o.addr[m].e
    BY <1>2, <2>1
  <2> QED BY <1>6, <2>2
<1>8. addr_field_ok(f) <=> addr_field_ok(o)
  BY <1>4, <1>7 DEF addr_field_ok
<1> QED BY <1>2, <1>4, <1>5, <1>8

\* The walk over the digipeaters ends at one of them.
LEMMA WalkIs ==
  ASSUME NEW f \in FrameType, addr_field_ok(f), WithH(f), NEW i, i = WalkEnd(f, Stopping(f))
  PROVE  /\ i \in Nat /\ 3 <= i /\ i <= Len(f.addr) /\ i \in Addr(f) /\ i - 1 \in Addr(f)
         /\ \A k \in Addr(f) \ {1, 2} : k < i => f.addr[k].h
<1> DEFINE L == Len(f.addr)
           T == Stopping(f) \cup {L + 1}
<1>1. L \in Nat /\ DOMAIN f.addr = 1..L
  BY DEF FrameType
<1>2. PICK n \in 2..(2 + MAX_DIGIS) : n <= L /\ f.addr[n].e
  BY DEF addr_field_ok
<1>3. L > 1 /\ ~f.addr[2].e
  BY DEF WithH
<1> HIDE DEF L
<1>4. n \in Nat /\ n >= 3
  <2>1. n # 2
    BY <1>2, <1>3
  <2> QED BY <1>2, <2>1
<1>5. n \in Stopping(f)
  BY <1>1, <1>2, <1>4 DEF Stopping, L
<1>6. T \in SUBSET Nat /\ T # {} /\ n \in T
  <2>1. Stopping(f) \subseteq 3..L
    BY DEF Stopping, L
  <2> QED BY <1>1, <1>5, <2>1
<1>7. i = Min(T)
  BY DEF WalkEnd, L
<1> HIDE DEF T
<1>8. i \in T /\ i \in Nat /\ \A m \in T : i <= m
  <2>1. Min(T) \in T /\ \A m \in T : Min(T) <= m
    BY <1>6, MinIs
  <2> QED BY <1>6, <1>7, <2>1
<1>9. i <= L
  BY <1>1, <1>2, <1>4, <1>6, <1>8
<1>10. 3 <= i
  <2>1. i \in Stopping(f)
    BY <1>1, <1>8, <1>9 DEF T
  <2> QED BY <2>1 DEF Stopping
<1>11. ASSUME NEW k \in 3..L, k < i PROVE f.addr[k].h /\ ~f.addr[k].e
  <2>1. k \notin T /\ k \in 3..Len(f.addr)
    BY <1>8, <1>11 DEF L
  <2>2. k \notin Stopping(f)
    BY <2>1 DEF T
  <2> QED BY <2>1, <2>2 DEF Stopping
<1>12. ASSUME NEW k \in 1..L, k <= i PROVE k \in Addr(f)
  <2>1. ASSUME NEW j \in 2..(k - 1) PROVE ~f.addr[j].e
    <3>1. CASE j = 2
      BY <1>3, <3>1
    <3>2. CASE j # 2
      <4>1. j \in 3..L /\ j < i
        BY <1>1, <1>8, <1>12, <3>2
      <4> QED BY <1>11, <4>1
    <3> QED BY <3>1, <3>2
  <2> QED BY <1>1, <2>1 DEF Addr
<1>13. i \in 1..L /\ i - 1 \in 1..L /\ i - 1 <= i
  BY <1>1, <1>8, <1>9, <1>10
<1>14. ASSUME NEW k \in Addr(f) \ {1, 2}, k < i PROVE f.addr[k].h
  <2>1. k \in 1..L
    BY <1>1 DEF Addr
  <2>2. k \in 3..L
    BY <1>1, <1>14, <2>1
  <2> QED BY <1>11, <1>14, <2>2
<1> QED BY <1>8, <1>9, <1>10, <1>12, <1>13, <1>14 DEF L

\* next_addr is the destination or a digipeater, all before it repeated.
LEMMA NextIs ==
  ASSUME NEW f \in FrameType, addr_field_ok(f)
  PROVE  /\ next_addr(f) \in Addr(f) \ {2}
         /\ next_addr(f) # 1 => /\ next_addr(f) \in DOMAIN f.addr
                                /\ \A k \in Addr(f) \ {1, 2} : k < next_addr(f) => f.addr[k].h
<1> DEFINE i == WalkEnd(f, Stopping(f))
<1>1. 1 \in Addr(f)
  <2>1. PICK n \in 2..(2 + MAX_DIGIS) : n <= Len(f.addr)
    BY DEF addr_field_ok
  <2>2. Len(f.addr) \in Nat /\ DOMAIN f.addr = 1..Len(f.addr)
    BY DEF FrameType
  <2>3. 1 \in DOMAIN f.addr /\ 2..(1 - 1) = {}
    BY <2>1, <2>2
  <2> QED BY <2>3 DEF Addr
<1>2. CASE WithH(f)
  <2> HIDE DEF i
  <2>1. /\ i \in Nat /\ 3 <= i /\ i <= Len(f.addr) /\ i \in Addr(f)
        /\ \A k \in Addr(f) \ {1, 2} : k < i => f.addr[k].h
    BY <1>2, WalkIs DEF i
  <2>2. next_addr(f) \in {i, 1}
    BY <1>2, <2>1 DEF next_addr, i
  <2>3. Addr(f) \subseteq DOMAIN f.addr /\ i # 2
    BY <2>1 DEF Addr
  <2> QED BY <1>1, <2>1, <2>2, <2>3
<1>3. CASE ~WithH(f)
  <2>1. next_addr(f) = 1
    BY <1>3 DEF next_addr
  <2> QED BY <1>1, <2>1
<1> QED BY <1>2, <1>3

\* from_addr is the source or a digipeater.
LEMMA FromIs ==
  ASSUME NEW f \in FrameType, addr_field_ok(f), NEW g
  PROVE  from_addr(g, f) \in Addr(f) \ {1}
<1> DEFINE i == WalkEnd(f, Stopping(f))
<1>1. CASE WithH(f)
  <2> HIDE DEF i
  <2>1. i \in Nat /\ 3 <= i /\ i <= Len(f.addr) /\ i \in Addr(f) /\ i - 1 \in Addr(f)
    BY <1>1, WalkIs DEF i
  <2>2. ~(i > Len(f.addr))
    <3>1. Len(f.addr) \in Nat
      BY DEF FrameType
    <3> QED BY <2>1, <3>1
  <2>3. from_addr(g, f) \in {i, i - 1}
    BY <1>1, <2>2 DEF from_addr, i
  <2> QED BY <2>1, <2>3
<1>2. CASE ~WithH(f)
  <2>1. PICK n \in 2..(2 + MAX_DIGIS) : n <= Len(f.addr)
    BY DEF addr_field_ok
  <2>2. Len(f.addr) \in Nat /\ DOMAIN f.addr = 1..Len(f.addr)
    BY DEF FrameType
  <2>3. 2 \in DOMAIN f.addr /\ 2..(2 - 1) = {}
    BY <2>1, <2>2
  <2>4. from_addr(g, f) = 2
    BY <1>2 DEF from_addr
  <2> QED BY <2>3, <2>4 DEF Addr
<1> QED BY <1>1, <1>2

\* The first and the last route that match.
LEMMA LeastIs ==
  ASSUME NEW T \in SUBSET Nat, T # {}
  PROVE  Least(T) \in T
BY MinIs DEF Min, Least

LEMMA GreatestIs ==
  ASSUME NEW n \in Nat, NEW T \in SUBSET (1..n), T # {}
  PROVE  Greatest(T) \in T
<1> DEFINE U == {n - i : i \in T}
<1>1. U \in SUBSET Nat /\ U # {}
  <2>1. ASSUME NEW j \in T PROVE n - j \in Nat
    <3>1. j \in 1..n
      OBVIOUS
    <3> HIDE DEF U
    <3> QED BY <3>1
  <2>2. PICK j \in T : TRUE
    OBVIOUS
  <2>3. n - j \in U
    BY <2>2
  <2> QED BY <2>1, <2>3
<1>2. PICK u \in U : \A m \in U : u <= m
  <2> HIDE DEF U
  <2>1. Min(U) \in U /\ \A m \in U : Min(U) <= m
    BY <1>1, MinIs
  <2> QED BY <2>1
<1>3. PICK i \in T : u = n - i
  BY <1>2
<1>4. \A j \in T : i >= j
  <2>1. ASSUME NEW j \in T PROVE i >= j
    <3>1. n - i <= n - j
      BY <1>2, <1>3
    <3> QED BY <3>1
  <2> QED BY <2>1
<1> QED BY <1>4 DEF Greatest

\* What a gateway passes on is as honest as what it got, and the walks over
\* its address stay inside it.
LEMMA PassesOn ==
  ASSUME NEW g \in Gateway, NEW f \in FrameType, Honest(f), Passes(g, f),
         NEW out, out = Repeated(g, f)
  PROVE  /\ out \in FrameType /\ Honest(out) /\ SameButH(f, out)
         /\ next_addr(f) \in Addr(f) \ {2} /\ next_addr(out) \in Addr(out) \ {2}
         /\ from_addr(g, out) \in Addr(out) \ {1}
<1> DEFINE i == next_addr(f)
<1>1. addr_field_ok(f)
  BY DEF Passes
<1>2. i \in Addr(f) \ {2}
      /\ (i # 1 => i \in DOMAIN f.addr /\ \A k \in Addr(f) \ {1, 2} : k < i => f.addr[k].h)
  BY <1>1, NextIs
<1> HIDE DEF i
<1>3. CASE g \notin Digi
  <2>1. out = f
    BY <1>3 DEF Repeated
  <2>2. SameButH(f, f)
    BY DEF SameButH
  <2> QED BY <1>1, <1>2, <2>1, <2>2, FromIs DEF i
<1>4. CASE g \in Digi
  <2>1. out = SetRepeated(f, i) /\ i # 1 /\ IsMe(g, f, i)
    BY <1>4 DEF Repeated, Passes, i
  <2>2. i \in DOMAIN f.addr /\ i \in Addr(f) \ {1, 2} /\ \A k \in Addr(f) \ {1, 2} : k < i => f.addr[k].h
    BY <1>2, <2>1
  <2>3. f.addr[i].call \in MyCalls[g]
    BY <2>1, <2>2 DEF IsMe, CallAt
  <2>4. /\ out \in FrameType /\ SameButH(f, out) /\ out.addr[i].h = TRUE
        /\ \A j \in DOMAIN f.addr : j # i => out.addr[j] = f.addr[j]
    <3>1. i \in DOMAIN f.addr
      BY <2>2
    <3> DEFINE r == SetRepeated(f, i)
    <3>2. /\ r \in FrameType /\ SameButH(f, r) /\ r.addr[i].h = TRUE
          /\ \A j \in DOMAIN f.addr : j # i => r.addr[j] = f.addr[j]
      BY <3>1, SetRepeatedIs
    <3>3. out = r
      BY <2>1
    <3> HIDE DEF r
    <3> QED BY <3>2, <3>3
  <2>5. Addr(out) = Addr(f) /\ DOMAIN out.addr = DOMAIN f.addr /\ addr_field_ok(out)
    BY <1>1, <2>4, SameButHIs
  <2>6. Addr(f) \subseteq DOMAIN f.addr /\ Addr(f) \subseteq Int
    <3>1. DOMAIN f.addr = 1..Len(f.addr) /\ Len(f.addr) \in Nat
      BY DEF FrameType
    <3>2. Addr(f) \subseteq DOMAIN f.addr
      BY DEF Addr
    <3> QED BY <3>1, <3>2
  <2>7. NoGap(out)
    <3>1. ASSUME NEW a \in Addr(f) \ {1, 2}, NEW b \in Addr(f) \ {1, 2}, a < b, out.addr[b].h
          PROVE  out.addr[a].h
      <4>1. CASE a = i
        BY <2>4, <4>1
      <4>2. CASE a # i
        <5>1. out.addr[a] = f.addr[a]
          BY <2>4, <2>6, <4>2
        <5>2. CASE b = i
          <6>1. f.addr[a].h
            BY <2>2, <3>1, <5>2
          <6> QED BY <5>1, <6>1
        <5>3. CASE b # i
          <6>1. out.addr[b] = f.addr[b]
            BY <2>4, <2>6, <5>3
          <6>2. f.addr[b].h
            BY <3>1, <6>1
          <6>3. f.addr[a].h
            BY <3>1, <6>2 DEF Honest, NoGap
          <6> QED BY <5>1, <6>3
        <5> QED BY <5>2, <5>3
      <4> QED BY <4>1, <4>2
    <3> QED BY <2>5, <3>1 DEF NoGap
  <2>8. PICK o \in Frames : /\ SameButH(f, o)
                            /\ \A j \in DOMAIN f.addr :
                                 f.addr[j].h # o.addr[j].h =>
                                   /\ f.addr[j].h /\ j \in Addr(f) \ {1, 2}
                                   /\ \E h \in Digi : f.addr[j].call \in MyCalls[h]
    BY DEF Honest
  <2>9. SameButH(out, o)
    BY <2>4, <2>8 DEF SameButH
  <2>10. ASSUME NEW j \in DOMAIN f.addr, out.addr[j].h # o.addr[j].h
         PROVE  /\ out.addr[j].h /\ j \in Addr(f) \ {1, 2}
                /\ \E h \in Digi : out.addr[j].call \in MyCalls[h]
    <3>1. CASE j = i
      <4>1. out.addr[j].call = f.addr[i].call
        BY <2>4, <3>1 DEF SameButH
      <4>2. \E h \in Digi : out.addr[j].call \in MyCalls[h]
        BY <1>4, <2>3, <4>1
      <4>3. out.addr[j].h
        BY <2>4, <3>1
      <4> QED BY <2>2, <3>1, <4>2, <4>3
    <3>2. CASE j # i
      <4>1. out.addr[j] = f.addr[j]
        BY <2>4, <3>2
      <4>2. f.addr[j].h # o.addr[j].h
        BY <2>10, <4>1
      <4> QED BY <2>8, <4>1, <4>2
    <3> QED BY <3>1, <3>2
  <2>11. Honest(out)
    BY <2>5, <2>7, <2>9, <2>10 DEF Honest
  <2>12. next_addr(out) \in Addr(out) \ {2} /\ from_addr(g, out) \in Addr(out) \ {1}
    BY <2>4, <2>5, NextIs, FromIs
  <2> QED BY <1>2, <2>4, <2>11, <2>12 DEF i
<1> QED BY <1>3, <1>4

\* What a station transmits is its own trail.
LEMMA StationHonest ==
  ASSUME NEW f \in Frames
  PROVE  f \in FrameType /\ Honest(f)
<1>1. f \in FrameType /\ NoGap(f)
  BY ProcessConstants
<1>2. SameButH(f, f)
  BY DEF SameButH
<1> QED BY <1>1, <1>2 DEF Honest

\* call_to_ip finds an entry of the table or none.
LEMMA RouteIs ==
  ASSUME NEW g \in Gateway, NEW call,
         \A c \in DOMAIN ret[g] : ret[g][c] \in DOMAIN Routes[g]
  PROVE  call_to_ip(g, call) \in DOMAIN Routes[g] \cup {0}
<1> DEFINE match == {r \in DOMAIN Routes[g] : Routes[g][r].call = call}
           default == {r \in DOMAIN Routes[g] : Has(g, r, "DEFAULT")}
           n == Len(Routes[g])
<1>1. n \in Nat /\ DOMAIN Routes[g] = 1..n
  BY ProcessConstants
<1>2. match \in SUBSET (1..n) /\ default \in SUBSET (1..n) /\ match \in SUBSET Nat
  BY <1>1
<1> HIDE DEF match, default, n
<1>3. match # {} => Least(match) \in DOMAIN Routes[g]
  BY <1>1, <1>2, LeastIs
<1>4. default # {} => Greatest(default) \in DOMAIN Routes[g]
  BY <1>1, <1>2, GreatestIs
<1> QED BY <1>3, <1>4 DEF call_to_ip, match, default

Datagram == [to : Gateway, from : Gateway, frame : FrameType, crc : BOOLEAN]

\* The inductive invariant.
IInv ==
  /\ net \subseteq Datagram /\ radio \in [Gateway -> FrameType]
  /\ ret = [g \in Gateway |-> ret[g]]
  /\ \A g \in Gateway : \A c \in DOMAIN ret[g] : ret[g][c] \in DOMAIN Routes[g]
  /\ HonestTrail /\ WalkInsideFrame

\* The daemons start with nothing under way.
LEMMA InitIInv == GatewayInit => IInv
<1> SUFFICES ASSUME GatewayInit PROVE IInv
  OBVIOUS
<1>1. NoFrame \in FrameType
  BY DEF NoFrame, FrameType
<1>2. net = {} /\ radio = [g \in Gateway |-> NoFrame] /\ last.op = "none"
      /\ ret = [g \in Gateway |-> [c \in {} |-> 0]]
  BY DEF GatewayInit
<1>3. radio \in [Gateway -> FrameType] /\ AllFrames = {}
  BY <1>1, <1>2 DEF AllFrames
<1>4. \A g \in Gateway : DOMAIN ret[g] = {}
  BY <1>2
<1> QED BY <1>2, <1>3, <1>4 DEF IInv, HonestTrail, WalkInsideFrame

\* A frame that is heard, from a station or from a gateway's radio.
LEMMA KissIInv ==
  ASSUME IInv, NEW g \in Gateway, NEW f \in FrameType, Honest(f), FromKiss(g, f)
  PROVE  IInv'
<1>1. /\ net \subseteq Datagram /\ radio \in [Gateway -> FrameType]
      /\ ret = [h \in Gateway |-> ret[h]]
      /\ \A h \in Gateway : \A c \in DOMAIN ret[h] : ret[h][c] \in DOMAIN Routes[h]
      /\ \A x \in AllFrames : Honest(x)
      /\ UNCHANGED <<radio, ret>>
  BY DEF IInv, HonestTrail, FromKiss
<1>2. CASE ~Passes(g, f)
  <2>1. net' = net /\ last'.op = "dump"
    BY <1>2 DEF FromKiss, Dumped, Handled
  <2> QED BY <1>1, <2>1 DEF IInv, HonestTrail, AllFrames, WalkInsideFrame
<1>3. CASE Passes(g, f)
  <2> DEFINE out == Repeated(g, f)
             a == CallAt(out, next_addr(out))
             r == call_to_ip(g, a)
             rs == (IF r = 0 THEN {} ELSE {r})
                     \cup (IF a \in Bcast THEN {q \in DOMAIN Routes[g] : Has(g, q, "BCAST")} ELSE {})
  <2>1. /\ out \in FrameType /\ Honest(out) /\ next_addr(f) \in Addr(f) \ {2}
        /\ next_addr(out) \in Addr(out) \ {2}
    BY <1>3, PassesOn
  <2>2. net' = net \cup Datagrams(g, out, rs)
        /\ (Dumped(g, f) \/ Handled("kiss", g, f, out, IF g \in Digi THEN next_addr(f) ELSE 0, 0))
    BY <1>3 DEF FromKiss
  <2>3. r \in DOMAIN Routes[g] \cup {0}
    BY <1>1, RouteIs
  <2> HIDE DEF out, a, r
  <2>4. rs \subseteq DOMAIN Routes[g]
    BY <2>3
  <2> HIDE DEF rs
  <2>5. ASSUME NEW d \in Datagrams(g, out, rs) PROVE d \in Datagram /\ d.frame = out
    <3>1. PICK q \in rs : d = [to |-> Routes[g][q].gw, from |-> g, frame |-> out, crc |-> TRUE]
                          /\ Routes[g][q].gw # Nowhere
      BY DEF Datagrams
    <3>2. Routes[g][q].gw \in Gateway
      BY <2>4, <3>1, ProcessConstants
    <3> QED BY <2>1, <3>1, <3>2 DEF Datagram
  <2>6. net' \subseteq Datagram
    BY <1>1, <2>2, <2>5
  <2>7. ASSUME NEW x \in AllFrames' PROVE Honest(x)
    <3>1. x \in AllFrames \/ x = out
      BY <1>1, <2>2, <2>5 DEF AllFrames
    <3> QED BY <1>1, <2>1, <3>1
  <2>8. WalkInsideFrame'
    <3>1. CASE Dumped(g, f)
      BY <3>1 DEF Dumped, Handled, WalkInsideFrame
    <3>2. CASE Handled("kiss", g, f, out, IF g \in Digi THEN next_addr(f) ELSE 0, 0)
      <4>1. last'.op = "kiss" /\ last'.in = f /\ last'.out = out
        BY <3>2 DEF Handled
      <4> QED BY <2>1, <4>1 DEF WalkInsideFrame
    <3> QED BY <2>2, <3>1, <3>2
  <2> QED BY <1>1, <2>6, <2>7, <2>8 DEF IInv, HonestTrail
<1> QED BY <1>2, <1>3

\* A datagram that arrives, and the radio transmission it may lead to.
LEMMA IpIInv ==
  ASSUME IInv, NEW d \in net, FromIp(d)
  PROVE  IInv' /\ \A g \in Gateway : radio'[g] # radio[g] => d.to = g /\ d.crc /\ SameButH(d.frame, radio'[g])
<1> DEFINE g == d.to
           f == d.frame
           out == Repeated(g, f)
           h == from_addr(g, out)
<1>1. /\ net \subseteq Datagram /\ radio \in [Gateway -> FrameType]
      /\ ret = [k \in Gateway |-> ret[k]]
      /\ \A k \in Gateway : \A c \in DOMAIN ret[k] : ret[k][c] \in DOMAIN Routes[k]
      /\ \A x \in AllFrames : Honest(x)
  BY DEF IInv, HonestTrail
<1>2. g \in Gateway /\ d.from \in Gateway /\ f \in FrameType /\ net' \subseteq net
  BY <1>1 DEF FromIp, Datagram
<1>3. Honest(f)
  BY <1>1 DEF AllFrames
<1>4. CASE ~d.crc \/ ~Passes(g, f)
  <2>1. UNCHANGED <<radio, ret>> /\ last'.op = "dump"
    BY <1>4 DEF FromIp, Dumped, Handled
  <2>2. AllFrames' \subseteq AllFrames
    BY <1>2, <2>1 DEF AllFrames
  <2> QED BY <1>1, <1>2, <2>1, <2>2 DEF IInv, HonestTrail, WalkInsideFrame
<1>5. CASE d.crc /\ Passes(g, f)
  <2>1. /\ out \in FrameType /\ Honest(out) /\ SameButH(f, out)
        /\ next_addr(f) \in Addr(f) \ {2} /\ next_addr(out) \in Addr(out) \ {2}
        /\ h \in Addr(out) \ {1}
    BY <1>2, <1>3, <1>5, PassesOn
  <2>2. /\ ret' = [ret EXCEPT ![g] = RouteProcess(g, d.from, CallAt(out, h))]
        /\ radio' = [radio EXCEPT ![g] = out]
        /\ Handled("ip", g, f, out, IF g \in Digi THEN next_addr(f) ELSE 0, h)
    BY <1>5 DEF FromIp
  <2> DEFINE call == CallAt(out, h)
  <2>3. \A c \in DOMAIN RouteProcess(g, d.from, call) : RouteProcess(g, d.from, call)[c] \in DOMAIN Routes[g]
    <3> DEFINE via == {r \in DOMAIN Routes[g] : Routes[g][r].gw = d.from}
    <3>1. via \in SUBSET Nat /\ (via # {} => Least(via) \in via)
      <4>1. via \in SUBSET Nat
        BY <1>2, ProcessConstants
      <4> HIDE DEF via
      <4> QED BY <4>1, LeastIs
    <3>2. RouteProcess(g, d.from, call) = ret[g]
          \/ /\ via # {}
             /\ RouteProcess(g, d.from, call)
                  = [c \in DOMAIN ret[g] \cup {call} |-> IF c = call THEN Least(via) ELSE ret[g][c]]
      BY DEF RouteProcess
    <3>3. via # {} => Least(via) \in DOMAIN Routes[g]
      BY <3>1
    <3> HIDE DEF via, call, g
    <3> QED BY <1>1, <1>2, <3>2, <3>3
  <2> HIDE DEF call, out, h
  <2>4. /\ ret' = [k \in Gateway |-> ret'[k]]
        /\ \A k \in Gateway : \A c \in DOMAIN ret'[k] : ret'[k][c] \in DOMAIN Routes[k]
    <3> DEFINE new == RouteProcess(g, d.from, call)
    <3>1. ret' = [ret EXCEPT ![g] = new]
      BY <2>2 DEF call
    <3> HIDE DEF new, g
    <3>2. ret' = [k \in Gateway |-> IF k = g THEN new ELSE ret[k]]
      BY <1>1, <1>2, <3>1
    <3>3. \A k \in Gateway : ret'[k] = IF k = g THEN new ELSE ret[k]
      BY <3>2
    <3>4. \A c \in DOMAIN new : new[c] \in DOMAIN Routes[g]
      BY <2>3 DEF new
    <3> QED BY <1>1, <3>2, <3>3, <3>4
  <2>5. /\ radio' \in [Gateway -> FrameType]
        /\ \A k \in Gateway : radio'[k] = IF k = g THEN out ELSE radio[k]
    <3> HIDE DEF g, f
    <3> QED BY <1>1, <1>2, <2>1, <2>2
  <2>6. ASSUME NEW x \in AllFrames' PROVE Honest(x)
    <3>1. x \in AllFrames \/ x = out
      BY <1>2, <2>5 DEF AllFrames
    <3> QED BY <1>1, <2>1, <3>1
  <2>7. WalkInsideFrame'
    <3>1. last'.op = "ip" /\ last'.in = f /\ last'.out = out /\ last'.sender = h
      BY <2>2 DEF Handled
    <3> QED BY <2>1, <3>1 DEF WalkInsideFrame
  <2>8. \A k \in Gateway : radio'[k] # radio[k] => d.to = k /\ d.crc /\ SameButH(d.frame, radio'[k])
    BY <1>5, <2>1, <2>5
  <2> QED BY <1>1, <1>2, <2>4, <2>5, <2>6, <2>7, <2>8 DEF IInv, HonestTrail
<1> QED BY <1>4, <1>5

\* No transmission without a datagram that arrived in one piece.
Received == \A g \in Gateway : radio'[g] # radio[g] =>
              \E d \in net : d.to = g /\ d.crc /\ SameButH(d.frame, radio'[g])

\* Every step keeps the invariant and transmits only what was received.
LEMMA NextIInv ==
  ASSUME IInv, [GatewayNext]_gvars
  PROVE  IInv' /\ Received
<1>1. /\ net \subseteq Datagram /\ radio \in [Gateway -> FrameType]
      /\ \A x \in AllFrames : Honest(x)
  BY DEF IInv, HonestTrail
<1>2. ASSUME NEW g \in Gateway, NEW f \in Frames, HearStation(g, f) PROVE IInv' /\ Received
  <2>1. FromKiss(g, f) /\ f \in FrameType /\ Honest(f)
    BY <1>2, StationHonest DEF HearStation
  <2>2. radio' = radio
    BY <2>1 DEF FromKiss
  <2> QED BY <2>1, <2>2, KissIInv DEF Received
<1>3. ASSUME NEW g \in Gateway, NEW h \in Gateway, HearGateway(g, h) PROVE IInv' /\ Received
  <2>1. FromKiss(g, radio[h]) /\ radio[h] \in FrameType /\ radio[h] \in AllFrames
    BY <1>1, <1>3 DEF HearGateway, AllFrames
  <2>2. radio' = radio /\ Honest(radio[h])
    BY <1>1, <2>1 DEF FromKiss
  <2> QED BY <2>1, <2>2, KissIInv DEF Received
<1>4. ASSUME NEW d \in net, FromIp(d) PROVE IInv' /\ Received
  BY <1>4, IpIInv DEF Received
<1>5. ASSUME NEW d \in net, LoseDatagram(d) PROVE IInv' /\ Received
  <2>1. net' \subseteq net /\ UNCHANGED <<radio, ret, last>>
    BY <1>5 DEF LoseDatagram
  <2>2. AllFrames' \subseteq AllFrames
    BY <2>1 DEF AllFrames
  <2> QED BY <1>1, <2>1, <2>2 DEF IInv, HonestTrail, WalkInsideFrame, Received
<1>6. ASSUME NEW d \in net, DamageDatagram(d) PROVE IInv' /\ Received
  <2> DEFINE x == [d EXCEPT !.crc = FALSE]
  <2>1. net' = (net \ {d}) \cup {x} /\ UNCHANGED <<radio, ret, last>>
    BY <1>6 DEF DamageDatagram
  <2>2. x \in Datagram /\ x.frame = d.frame
    BY <1>1 DEF Datagram
  <2> HIDE DEF x
  <2>3. net' \subseteq Datagram /\ AllFrames' \subseteq AllFrames
    BY <1>1, <2>1, <2>2 DEF AllFrames
  <2> QED BY <1>1, <2>1, <2>3 DEF IInv, HonestTrail, WalkInsideFrame, Received
<1>7. CASE UNCHANGED gvars
  BY <1>7 DEF gvars, IInv, HonestTrail, AllFrames, WalkInsideFrame, Received
<1> QED BY <1>2, <1>3, <1>4, <1>5, <1>6, <1>7 DEF GatewayNext

\* process.c:189: through any number of hops by datagram and by radio, with
\* loss, duplication and damage, among any gateways: the H bits of every
\* frame tell its true story.
THEOREM TrailsHonest == GatewaySpec => []HonestTrail
<1>1. IInv /\ [GatewayNext]_gvars => IInv'
  BY NextIInv
<1>2. IInv => HonestTrail
  BY DEF IInv
<1> QED BY <1>1, <1>2, InitIInv, PTL DEF GatewaySpec

\* process.c:362: the walks over the address, of a frame that came and of the
\* one that is sent on, never leave it; routes learned are in the table.
THEOREM WalksInside == GatewaySpec => [](GatewayTypeOK /\ WalkInsideFrame)
<1>1. IInv /\ [GatewayNext]_gvars => IInv'
  BY NextIInv
<1>2. IInv => GatewayTypeOK /\ WalkInsideFrame
  <2>1. IInv => \A d \in net : d.to \in Gateway /\ d.from \in Gateway /\ d.crc \in BOOLEAN
    BY DEF IInv, Datagram
  <2> QED BY <2>1 DEF IInv, GatewayTypeOK, HonestTrail, Honest
<1> QED BY <1>1, <1>2, InitIInv, PTL DEF GatewaySpec

\* process.c:323: what a gateway transmits was received in one piece.
THEOREM OnlyReceivedSent == GatewaySpec => DamagedNeverSent
<1>1. IInv /\ [GatewayNext]_gvars => IInv'
  BY NextIInv
<1>2. IInv /\ [GatewayNext]_gvars => [Received]_gvars
  BY NextIInv
<1>3. GatewaySpec => [][Received]_gvars
  BY <1>1, <1>2, InitIInv, PTL DEF GatewaySpec
<1> QED BY <1>3 DEF DamagedNeverSent, Received
=============================================================================
