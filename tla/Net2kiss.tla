------------------------------- MODULE Net2kiss ------------------------------
(***************************************************************************)
(* net2kiss (ax25tools/kiss/net2kiss.c): packets of a network interface as *)
(* KISS frames on a pty, and back.  doio keeps a ring of encoded bytes the *)
(* pty has not taken yet, and a decoder; both start again when the pty is  *)
(* opened again.  The steps of one turn of its loop are actions of their   *)
(* own: what select has found ready stays ready through the turn.          *)
(***************************************************************************)
EXTENDS KissBytes

CONSTANTS
  ObufSize,    \* sizeof(obuf)
  PktbufSize,  \* sizeof(pktbuf)
  NetFrames,   \* packets the interface receives: KISS command and contents
  PtyLines,    \* what the station on the pty writes at a time
  MaxFrames,   \* bound: packets and lines together
  MaxHangups   \* bound: times the pty is closed by the other side

VARIABLES
  obuf, ob_rp, ob_wp,  \* the ring
  pktstate, pktbuf,    \* the decoder
  fdpty,               \* "open", or "gone" once the program has ended
  ptyin,     \* bytes the station has written
  written,   \* bytes the station was given since the pty was opened
  accepted,  \* history: packets encoded since then
  lines,     \* history: what the station wrote since then
  sendto,    \* history: packets given to the interface since then
  count, hangups

ring    == <<obuf, ob_rp, ob_wp>>
decoder == <<pktstate, pktbuf>>
vars == <<ring, decoder, fdpty, ptyin, written, accepted, lines, sendto, count, hangups>>

Fresh ==
  /\ ob_rp' = 0 /\ ob_wp' = 0
  /\ pktstate' = "HUNT" /\ pktbuf' = <<>>
  /\ ptyin' = <<>> /\ written' = <<>> /\ accepted' = <<>> /\ lines' = <<>> /\ sendto' = <<>>

Init ==
  /\ obuf = [i \in 0..(ObufSize - 1) |-> 0]
  /\ ob_rp = 0 /\ ob_wp = 0
  /\ pktstate = "HUNT" /\ pktbuf = <<>>
  /\ fdpty = "open"
  /\ ptyin = <<>> /\ written = <<>> /\ accepted = <<>> /\ lines = <<>> /\ sendto = <<>>
  /\ count = 0 /\ hangups = 0

-----------------------------------------------------------------------------
(* Interface to pty *)

Used == (ob_wp + ObufSize - ob_rp) % ObufSize

\* Mutant: a full ring looks like an empty one.
FitsAll(bytes) == Len(bytes) <= ObufSize - Used

\* ADD_CHAR gives up when the write pointer meets the read pointer.
Fits(bytes) == Len(bytes) < ObufSize - Used

\* The ring after the bytes that ADD_CHAR stored before it gave up, if it did.
Stored(bytes) ==
  LET n == IF Fits(bytes) THEN Len(bytes) ELSE ObufSize - Used
      at(i) == ((i + ObufSize - ob_wp) % ObufSize) + 1
  IN  [i \in DOMAIN obuf |-> IF at(i) <= n THEN bytes[at(i)] ELSE obuf[i]]

\* recvfrom: a packet is encoded and counts only when all of it fits.
NetInput(f) ==
  /\ fdpty = "open" /\ count < MaxFrames
  /\ LET bytes == KissFrame(f)
     IN  /\ obuf' = Stored(bytes)
         /\ IF Fits(bytes) THEN /\ ob_wp' = (ob_wp + Len(bytes)) % ObufSize
                                /\ accepted' = Append(accepted, f)
                           ELSE UNCHANGED <<ob_wp, accepted>>
  /\ count' = count + 1
  /\ UNCHANGED <<ob_rp, decoder, fdpty, ptyin, written, lines, sendto, hangups>>

\* Mutant: the part at the start of the ring is not left for the next write.
LinearWrapped == IF ob_rp > ob_wp THEN ObufSize - ob_rp + ob_wp ELSE ob_wp - ob_rp

\* The bytes from the read pointer on, up to the end of the ring.
Linear == IF ob_rp > ob_wp THEN ObufSize - ob_rp ELSE ob_wp - ob_rp

\* The pty takes n of them.
PtyOutput(n) ==
  /\ fdpty = "open" /\ ob_rp # ob_wp
  /\ n <= Linear
  /\ written' = written \o [i \in 1..n |-> IF ob_rp + i - 1 < ObufSize THEN obuf[ob_rp + i - 1] ELSE 0]
  /\ ob_rp' = (ob_rp + n) % ObufSize
  /\ UNCHANGED <<obuf, ob_wp, decoder, fdpty, ptyin, accepted, lines, sendto, count, hangups>>

-----------------------------------------------------------------------------
(* Pty to interface *)

\* Mutant: a wrong escape is dropped and the frame goes on.
BadEscapeKept(d) == [d EXCEPT !.state = "RX"]

\* kiss_bad_escape, kiss_overflow: nothing counts until the next FEND.
Hunt(d) == [d EXCEPT !.state = "HUNT"]

Take(d, b) == [d EXCEPT !.state = "RX", !.buf = Append(@, b)]

\* One byte read from the pty; out is what kiss_packet is called with.
KissByte(d, b) ==
  CASE d.state = "HUNT" -> IF b = FEND THEN [d EXCEPT !.state = "RX", !.buf = <<>>] ELSE d
    [] d.state = "RX" /\ b = FESC -> [d EXCEPT !.state = "ESCAPED"]
    [] d.state = "RX" /\ b = FEND -> [d EXCEPT !.buf = <<>>, !.out = Append(@, d.buf)]
    [] Len(d.buf) >= PktbufSize -> Hunt(d)
    [] d.state = "RX" -> Take(d, b)
    [] b = TFESC -> Take(d, FESC)
    [] b = TFEND -> Take(d, FEND)
    [] OTHER -> Hunt(d)

\* kiss_packet: the interface may be busy or refuse the size.
Packets(out, busy) == IF busy THEN <<>> ELSE SelectSeq(out, LAMBDA pkt : Len(pkt) >= 2)

PtyInput(n, busy) ==
  /\ fdpty = "open" /\ n \in 1..Len(ptyin)
  /\ LET d == FoldLeft(KissByte, [state |-> pktstate, buf |-> pktbuf, out |-> <<>>],
                       SubSeq(ptyin, 1, n))
     IN  /\ pktstate' = d.state /\ pktbuf' = d.buf
         /\ sendto' = sendto \o Packets(d.out, busy)
  /\ ptyin' = SubSeq(ptyin, n + 1, Len(ptyin))
  /\ UNCHANGED <<ring, fdpty, written, accepted, lines, count, hangups>>

\* read fails with EIO: main opens the pty again, or waits for a ptmx slave,
\* and calls doio again.  A write or an ioctl that fails first ends the program.
Hangup ==
  /\ fdpty = "open" /\ hangups < MaxHangups
  /\ hangups' = hangups + 1
  /\ Fresh
  /\ fdpty' \in {"open", "gone"}
  /\ UNCHANGED <<obuf, count>>

StationWrites(l) ==
  /\ fdpty = "open" /\ count < MaxFrames
  /\ ptyin' = ptyin \o l
  /\ lines' = Append(lines, l)
  /\ count' = count + 1
  /\ UNCHANGED <<ring, decoder, fdpty, written, accepted, sendto, hangups>>

Next ==
  \/ \E f \in NetFrames : NetInput(f)
  \/ \E n \in 1..ObufSize : PtyOutput(n)
  \/ \E n \in 1..Len(ptyin), busy \in BOOLEAN : PtyInput(n, busy)
  \/ \E l \in PtyLines : StationWrites(l)
  \/ Hangup

-----------------------------------------------------------------------------
TypeOK ==
  /\ {ob_rp, ob_wp} \subseteq 0..(ObufSize - 1)
  /\ pktstate \in {"HUNT", "RX", "ESCAPED"}
  /\ Len(pktbuf) <= PktbufSize

\* The bytes in the ring, oldest first.
Ring == [i \in 1..Used |-> obuf[(ob_rp + i - 1) % ObufSize]]

\* The pty is given the packets that fitted, each of them whole, in order and
\* once, however the ring wraps and however little the pty takes at a time;
\* nothing of one that did not fit.
RingExact == written \o Ring = FlattenSeq([i \in DOMAIN accepted |-> KissFrame(accepted[i])])

\* A frame of the station that is sound: every escape is one of the two, and
\* it fits.
Sound(piece) ==
  /\ \A i \in DOMAIN piece : piece[i] = FESC => i < Len(piece) /\ piece[i + 1] \in {TFEND, TFESC}
  /\ Len(Unstuffed(piece)) \in 2..PktbufSize

\* Every packet given to the interface is a sound frame of the station, and
\* no part of it belongs to another one.
OnlySound ==
  \A i \in DOMAIN sendto : \E j \in DOMAIN lines : \E k \in DOMAIN Pieces(lines[j]).closed :
    LET piece == Pieces(lines[j]).closed[k]
    IN  Sound(piece) /\ sendto[i] = Unstuffed(piece)
=============================================================================
