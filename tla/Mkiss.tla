-------------------------------- MODULE Mkiss --------------------------------
(***************************************************************************)
(* mkiss (ax25tools/kiss/mkiss.c): several ptys share one tty with a TNC   *)
(* that has several ports.  The port is in the high nibble of the first    *)
(* byte of a frame; frames on the tty may have a checksum, one byte of     *)
(* exclusive ors (-c) or two of a CRC (-f), and the ports may be polled.   *)
(* The descriptors block, so that each write is whole.  A byte is a        *)
(* number; a frame is the sequence of its bytes, command byte first.       *)
(***************************************************************************)
EXTENDS KissBytes, FiniteSets

CONSTANTS
  crctab,     \* the table that init_crc fills
  numptys,
  None,       \* ptys given as "none", which have no descriptor
  TncFrames,  \* frames the TNC sends, the port in the first byte
  PtyFrames,  \* [0..numptys-1 -> frames that the station on the pty sends]
  MaxFrames,  \* bound: frames sent in all
  MaxPolls    \* bound: polls of the timer

VARIABLES
  crcflag, pollspeed,  \* the options
  ttyrx, ptyrx,        \* [obuf, escaped, crc] of the tty, and of each pty
  port,                \* the port poll asks next
  timeouts,            \* history: polls of the timer
  ttyin, ptyin,        \* bytes not yet read
  ttyout, ptyout,      \* bytes written
  fromTnc,             \* history: frames of the TNC that were not damaged
  fromPty              \* history: [pty -> its frames]

options == <<crcflag, pollspeed>>
vars == <<options, ttyrx, ptyrx, port, timeouts, ttyin, ptyin, ttyout, ptyout, fromTnc, fromPty>>

G8BPQ_CRC == 1
FLEX_CRC  == 2
ACKREQ == 12
POLL   == 14
CRCTYP == 32

Ptys == 0..(numptys - 1)
Cmd(b) == b % 16

-----------------------------------------------------------------------------
(* Checksums *)

FlexStep(crc, c) == ExclusiveOr((crc % 256) * 256, crctab[ExclusiveOr(crc \div 256, c)])

\* What each byte does to the checksum.
CrcStep(crc, c, usecrc) ==
  CASE usecrc = G8BPQ_CRC -> ExclusiveOr(crc, c)
    [] usecrc = FLEX_CRC -> FlexStep(crc, c)
    [] OTHER -> crc

CrcStart(usecrc) == IF usecrc = FLEX_CRC THEN 65535 ELSE 0

Crc(bytes, usecrc) ==
  LET upto[n \in 0..Len(bytes)] ==
        IF n = 0 THEN CrcStart(usecrc) ELSE CrcStep(upto[n - 1], bytes[n], usecrc)
  IN  upto[Len(bytes)]

\* What follows the bytes of a frame.
Check(bytes, usecrc) ==
  LET crc == Crc(bytes, usecrc)
  IN  CASE usecrc = G8BPQ_CRC -> <<crc>>
        [] usecrc = FLEX_CRC -> <<crc \div 256, crc % 256>>
        [] OTHER -> <<>>

\* Only data frames have a checksum with G8BPQ.
TxCrc(s, usecrc) == IF usecrc = G8BPQ_CRC /\ Cmd(s[1]) \notin {0, ACKREQ} THEN 0 ELSE usecrc

\* Mutant: the port of the pty is not set.
TxFirstPortless(s, to, usecrc) == IF usecrc = FLEX_CRC THEN CRCTYP ELSE Cmd(s[1])

\* The first byte sent: with a CRC it is CRCTYP, whatever the command and the
\* port are.
TxFirst(s, to, usecrc) == IF usecrc = FLEX_CRC THEN CRCTYP ELSE Cmd(s[1]) + 16 * to

\* kiss_tx: the bytes written.
kiss_tx(s, to, usecrc) ==
  LET use  == TxCrc(s, usecrc)
      body == <<TxFirst(s, to, use)>> \o Tail(s)
  IN  KissFrame(body \o Check(body, use))

-----------------------------------------------------------------------------
(* Receiving *)

Cleaned(usecrc) == [obuf |-> <<>>, escaped |-> FALSE, crc |-> CrcStart(usecrc)]

\* Mutant: the checksum of one frame goes on into the next.
CleanedLate(usecrc) == [obuf |-> <<>>, escaped |-> FALSE, crc |-> 0]

\* The frame that a FEND ends, <<>> if it is dropped.
Ended(ifp, usecrc) ==
  LET f == ifp.obuf
      n == Len(f)
  IN  CASE n = 0 \/ ifp.escaped -> <<>>
        [] usecrc = G8BPQ_CRC /\ Cmd(f[1]) = POLL -> <<>>
        [] usecrc = G8BPQ_CRC /\ Cmd(f[1]) = 0 ->
             IF ifp.crc = 0 THEN SubSeq(f, 1, n - 1) ELSE <<>>
        [] usecrc = FLEX_CRC ->
             IF n > 14 /\ ifp.crc = 28784 THEN <<0>> \o SubSeq(f, 2, n - 2) ELSE <<>>
        [] OTHER -> f

\* Mutant: the byte after an escape is taken as it is.
UnescapedRaw(ifp, c) == c

Unescaped(ifp, c) ==
  CASE ifp.escaped /\ c = TFESC -> FESC
    [] ifp.escaped /\ c = TFEND -> FEND
    [] OTHER -> c

\* kiss_rx of one byte that is not a FEND.  After a wrong escape the byte is
\* counted as an error, and kept.
kiss_rx(ifp, c, usecrc) ==
  IF c = FESC THEN [ifp EXCEPT !.escaped = TRUE]
  ELSE LET b == Unescaped(ifp, c)
       IN  [obuf |-> Append(ifp.obuf, b), escaped |-> FALSE, crc |-> CrcStep(ifp.crc, b, usecrc)]

\* The loop over the bytes read: the frames that end in them.
ReadAll(ifp, bytes, usecrc) ==
  LET Byte(s, c) ==
        LET f == Ended(s.ifp, usecrc)
        IN  IF c # FEND THEN [s EXCEPT !.ifp = kiss_rx(s.ifp, c, usecrc)]
            ELSE [ifp |-> Cleaned(usecrc),
                  frames |-> IF f = <<>> THEN s.frames ELSE Append(s.frames, f)]
      upto[n \in 0..Len(bytes)] ==
        IF n = 0 THEN [ifp |-> ifp, frames |-> <<>>] ELSE Byte(upto[n - 1], bytes[n])
  IN  upto[Len(bytes)]

-----------------------------------------------------------------------------
Init ==
  /\ crcflag \in {0, G8BPQ_CRC, FLEX_CRC} /\ pollspeed \in BOOLEAN
  /\ ttyrx = Cleaned(0) /\ ptyrx = [i \in Ptys |-> Cleaned(0)]
  /\ port = 0 /\ timeouts = 0
  /\ ttyin = <<>> /\ ptyin = [i \in Ptys |-> <<>>]
  /\ ttyout = <<>> /\ ptyout = [i \in Ptys |-> <<>>]
  /\ fromTnc = <<>> /\ fromPty = [i \in Ptys |-> <<>>]

\* poll, n times: the bytes written to the tty.
Polls(n) ==
  FlattenSeq([k \in 1..n |-> <<FEND, POLL + 16 * ((port + k - 1) % numptys), FEND>>])

poll(n) ==
  /\ ttyout' = ttyout \o Polls(n)
  /\ port' = (port + n) % numptys

\* The timer expired.
PollTimer ==
  /\ pollspeed /\ timeouts < MaxPolls
  /\ ttyin = <<>> /\ \A i \in Ptys : ptyin[i] = <<>>
  /\ poll(1)
  /\ timeouts' = timeouts + 1
  /\ UNCHANGED <<options, ttyrx, ptyrx, ttyin, ptyin, ptyout, fromTnc, fromPty>>

\* Bytes have arrived on the tty: each frame goes to the pty of its port, if
\* there is one, and is followed by a poll of the next port.
TtyInput(n) ==
  /\ n \in 1..Len(ttyin)
  /\ LET read == ReadAll(ttyrx, SubSeq(ttyin, 1, n), crcflag)
         to(i) == SelectSeq(read.frames, LAMBDA f : f[1] \div 16 = i)
     IN  /\ ttyrx' = read.ifp
         /\ ptyout' = [i \in Ptys |->
              IF i \in None THEN ptyout[i]
              ELSE ptyout[i] \o FlattenSeq([k \in DOMAIN to(i) |-> kiss_tx(to(i)[k], 0, 0)])]
         /\ IF pollspeed THEN poll(Len(read.frames)) ELSE UNCHANGED <<ttyout, port>>
  /\ ttyin' = SubSeq(ttyin, n + 1, Len(ttyin))
  /\ UNCHANGED <<options, ptyrx, timeouts, ptyin, fromTnc, fromPty>>

\* Bytes have arrived on a pty.
PtyInput(i, n) ==
  /\ i \notin None /\ n \in 1..Len(ptyin[i])
  /\ LET read == ReadAll(ptyrx[i], SubSeq(ptyin[i], 1, n), 0)
     IN  /\ ptyrx' = [ptyrx EXCEPT ![i] = read.ifp]
         /\ ttyout' = ttyout \o FlattenSeq([k \in DOMAIN read.frames |->
                                            kiss_tx(read.frames[k], i, crcflag)])
  /\ ptyin' = [ptyin EXCEPT ![i] = SubSeq(@, n + 1, Len(@))]
  /\ UNCHANGED <<options, ttyrx, port, timeouts, ttyin, ptyout, fromTnc, fromPty>>

-----------------------------------------------------------------------------
(* The TNC and the stations on the ptys *)

Sent == Len(fromTnc) + Len(FlattenSeq([k \in 1..numptys |-> fromPty[k - 1]]))

\* A TNC puts a checksum where kiss_rx looks for one: of its own frames only
\* data has one with G8BPQ.  With CRCs it sends data of its first port only.
TncCrc(f) == IF crcflag = G8BPQ_CRC /\ Cmd(f[1]) # 0 THEN 0 ELSE crcflag

TncBytes(f) ==
  LET use == TncCrc(f)
      body == <<IF use = FLEX_CRC THEN CRCTYP ELSE f[1]>> \o Tail(f)
  IN  body \o Check(body, use)

TncSends(f) ==
  /\ Sent < MaxFrames
  /\ ttyin' = ttyin \o KissFrame(TncBytes(f))
  /\ fromTnc' = Append(fromTnc, f)
  /\ UNCHANGED <<options, ttyrx, ptyrx, port, timeouts, ptyin, ttyout, ptyout, fromPty>>

\* The line changes a byte behind the first of a frame that has a checksum;
\* it may be one of an escape sequence.
LineDamages(f) ==
  /\ Sent < MaxFrames /\ ttyin = <<>> /\ ttyrx.obuf = <<>>
  /\ TncCrc(f) # 0
  /\ \E i \in {2, Len(StuffAll(TncBytes(f))) - 1, Len(StuffAll(TncBytes(f)))} :
       ttyin' = <<FEND>> \o [StuffAll(TncBytes(f)) EXCEPT ![i] = 99] \o <<FEND>>
  /\ UNCHANGED <<options, ttyrx, ptyrx, port, timeouts, ptyin, ttyout, ptyout, fromTnc, fromPty>>

PtySends(i, f) ==
  /\ i \notin None /\ Sent < MaxFrames
  /\ ptyin' = [ptyin EXCEPT ![i] = @ \o KissFrame(f)]
  /\ fromPty' = [fromPty EXCEPT ![i] = Append(@, f)]
  /\ UNCHANGED <<options, ttyrx, ptyrx, port, timeouts, ttyin, ttyout, ptyout, fromTnc>>

\* Bound: a read takes all the bytes there are, or all but two.
Taken(bytes) == {Len(bytes), Len(bytes) - 2} \cap Nat

Next ==
  \/ \E f \in TncFrames : TncSends(f) \/ LineDamages(f)
  \/ \E i \in Ptys : \E f \in PtyFrames[i] : PtySends(i, f)
  \/ \E n \in Taken(ttyin) : TtyInput(n)
  \/ \E i \in Ptys : \E n \in Taken(ptyin[i]) : PtyInput(i, n)
  \/ PollTimer

-----------------------------------------------------------------------------
TypeOK ==
  /\ port \in Ptys
  /\ \A ifp \in {ttyrx} \cup {ptyrx[i] : i \in Ptys} : ifp.escaped \in BOOLEAN /\ ifp.crc \in 0..65535

\* The port a frame of the TNC is for, and how a pty is to get it; a frame
\* with a CRC is for the first port.
PortOf(f) == IF crcflag = FLEX_CRC THEN 0 ELSE f[1] \div 16
ForPty(f) == <<IF crcflag = FLEX_CRC THEN 0 ELSE Cmd(f[1])>> \o Tail(f)
Passes(f) ==
  CASE crcflag = G8BPQ_CRC -> Cmd(f[1]) # POLL
    [] crcflag = FLEX_CRC -> Len(f) + 2 > 14
    [] OTHER -> TRUE

\* Each pty is given the frames of its own port, whole, in order and once,
\* and no damaged one.
FromTncDelivered ==
  \A i \in Ptys \ None :
    LET mine == SelectSeq(fromTnc, LAMBDA f : PortOf(f) = i /\ Passes(f))
        due  == [k \in DOMAIN mine |-> ForPty(mine[k])]
        got  == KissRead(ptyout[i])
    IN  IsPrefix(got, due) /\ (ttyin = <<>> => got = due)

\* The frames the TNC finds sound in what it is sent, without checksums.
TncRead ==
  LET sound == SelectSeq(KissRead(ttyout), LAMBDA f :
                 Cmd(f[1]) # POLL /\ (TxCrc(f, crcflag) = G8BPQ_CRC => Crc(f, G8BPQ_CRC) = 0)
                                  /\ (crcflag = FLEX_CRC => Crc(f, FLEX_CRC) = 28784))
      bare(f) == SubSeq(f, 1, Len(f) - Len(Check(f, TxCrc(f, crcflag))))
  IN  [k \in DOMAIN sound |-> bare(sound[k])]

\* The command byte as the TNC gets it: the command and the port of the pty,
\* and CRCTYP for both if CRCs are in use.
FirstByte(f, i) == IF crcflag = FLEX_CRC THEN CRCTYP ELSE Cmd(f[1]) + 16 * i

\* The TNC is sent the frames of each pty, whole, in order and once, with the
\* port of the pty unless CRCs are in use, whatever polls come between them.
FromPtyDelivered ==
  \A i \in Ptys \ None :
    LET due == [k \in DOMAIN fromPty[i] |->
                 <<FirstByte(fromPty[i][k], i)>> \o Tail(fromPty[i][k])]
        got == SelectSeq(TncRead, LAMBDA f : \E g \in PtyFrames[i] : Tail(g) = Tail(f))
    IN  IsPrefix(got, due) /\ (ptyin[i] = <<>> => got = due)

\* Both directions, whole and once, and no damaged frame.
EachFrameOnce == FromTncDelivered /\ FromPtyDelivered
=============================================================================
