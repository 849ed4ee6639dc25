-------------------------------- MODULE Nrsdrv -------------------------------
(***************************************************************************)
(* nrsdrv (ax25tools/netrom/nrsdrv.c): frames of the kernel's KISS driver  *)
(* as frames of the serial protocol of NET/ROM TNCs, and back.  The two    *)
(* directions share nothing but the loop that reads.                       *)
(***************************************************************************)
EXTENDS KissBytes

CONSTANTS
  BufSize,    \* of kiss_rxbuffer and nrs_rxbuffer
  KissFrames, \* frames the KISS side sends, control byte first
  NrsFrames,  \* frames the TNC sends
  MaxFrames   \* bound: frames sent in all

VARIABLES
  kiss_state, kiss_rxbuffer,
  nrs_state, nrs_rxbuffer, nrs_cksum,
  flowcontrol, \* "off", "on", or "waiting" in key_rts for CTS to be low
  CTS,         \* the TNC lets the driver send
  pending,     \* what nrs_esc writes when key_rts is through
  kissin, nrsin, kissout, nrsout,  \* bytes not yet read, and written
  fromKiss, fromNrs                \* history: what was sent; of a TNC's frame
                                   \* also whether it arrives undamaged

kiss == <<kiss_state, kiss_rxbuffer>>
nrs  == <<nrs_state, nrs_rxbuffer, nrs_cksum>>
flow == <<flowcontrol, CTS, pending>>
vars == <<kiss, nrs, flow, kissin, nrsin, kissout, nrsout, fromKiss, fromNrs>>

NUL == 0
STX == 2
ETX == 3
DLE == 16

SumOf(bytes) ==
  LET upto[n \in 0..Len(bytes)] == IF n = 0 THEN 0 ELSE (upto[n - 1] + bytes[n]) % 256
  IN  upto[Len(bytes)]

\* Mutant: one byte more than there is room for is kept.
KeptAll(buf, b) == IF Len(buf) <= BufSize THEN Append(buf, b) ELSE buf

\* A byte that there is no room for is dropped.
Kept(buf, b) == IF Len(buf) < BufSize THEN Append(buf, b) ELSE buf

-----------------------------------------------------------------------------
(* Writing *)

\* Mutant: a DLE in the data is sent as it is.
NrsStuffedNoDle(b) == IF b \in {STX, ETX} THEN <<DLE, b>> ELSE <<b>>

NrsStuffed(b) == IF b \in {STX, ETX, DLE} THEN <<DLE, b>> ELSE <<b>>

\* nrs_esc
nrs_esc(f) ==
  <<STX>> \o FlattenSeq([i \in DOMAIN f |-> NrsStuffed(f[i])]) \o <<ETX, SumOf(f), NUL, NUL>>

\* kiss_esc
kiss_esc(f) == KissFrame(<<0>> \o f)

-----------------------------------------------------------------------------
(* Reading *)

\* kiss_unesc of one byte; out has the frames for nrs_esc.
KissByte(s, b) ==
  CASE s.state = "WAIT" -> IF b = FEND THEN [s EXCEPT !.state = "CTRL", !.buf = <<>>] ELSE s
    [] s.state = "CTRL" -> [s EXCEPT !.state = IF b % 16 = 0 THEN "DATA" ELSE "WAIT", !.buf = <<>>]
    [] s.state = "DATA" /\ b = FEND ->
         [state |-> "WAIT", buf |-> <<>>, out |-> IF Len(s.buf) > 2 THEN Append(s.out, s.buf) ELSE s.out]
    [] s.state = "DATA" /\ b = FESC -> [s EXCEPT !.state = "ESCAPE"]
    [] s.state = "DATA" -> [s EXCEPT !.buf = Kept(@, b)]
    [] b = TFESC -> [s EXCEPT !.state = "DATA", !.buf = Kept(@, FESC)]
    [] b = TFEND -> [s EXCEPT !.state = "DATA", !.buf = Kept(@, FEND)]
    [] OTHER -> [s EXCEPT !.state = "DATA"]

NrsStart(s, state) == [s EXCEPT !.state = state, !.buf = <<>>, !.cksum = 0]

\* Only a byte there is room for counts in the checksum.
NrsData(s, b) ==
  IF Len(s.buf) < BufSize
    THEN [s EXCEPT !.state = "DATA", !.buf = Append(@, b), !.cksum = (@ + b) % 256]
    ELSE [s EXCEPT !.state = "DATA"]

\* nrs_unesc of one byte; out has the frames for kiss_esc.
NrsByte(s, b) ==
  CASE s.state = "WAIT" -> IF b = STX THEN NrsStart(s, "DATA") ELSE s
    [] s.state = "DATA" /\ b = STX -> NrsStart(s, "DATA")
    [] s.state = "DATA" /\ b = DLE -> [s EXCEPT !.state = "ESCAPE"]
    [] s.state = "DATA" /\ b = ETX -> [s EXCEPT !.state = "CKSUM"]
    [] s.state \in {"DATA", "ESCAPE"} -> NrsData(s, b)
    [] OTHER -> NrsStart([s EXCEPT !.out = IF b = s.cksum THEN Append(@, s.buf) ELSE @], "WAIT")

-----------------------------------------------------------------------------
Init ==
  /\ kiss_state = "WAIT" /\ kiss_rxbuffer = <<>>
  /\ nrs_state = "WAIT" /\ nrs_rxbuffer = <<>> /\ nrs_cksum = 0
  /\ flowcontrol \in {"off", "on"} /\ CTS = FALSE /\ pending = <<>>
  /\ kissin = <<>> /\ nrsin = <<>> /\ kissout = <<>> /\ nrsout = <<>>
  /\ fromKiss = <<>> /\ fromNrs = <<>>

\* Bound: a read takes all the bytes there are, or all but two.
Taken(bytes) == ({Len(bytes), Len(bytes) - 2} \cap Nat) \ {0}

\* Input on the KISS device, handled byte by byte; a frame is written once
\* key_rts has seen CTS low, and until then nothing is read.
KissInput(n) ==
  /\ pending = <<>> /\ n \in Taken(kissin)
  /\ LET upto[k \in 0..n] ==
           IF k = 0 THEN [state |-> kiss_state, buf |-> kiss_rxbuffer, out |-> <<>>]
           ELSE KissByte(upto[k - 1], kissin[k])
         s == upto[n]
         bytes == FlattenSeq([k \in DOMAIN s.out |-> nrs_esc(s.out[k])])
     IN  /\ kiss_state' = s.state /\ kiss_rxbuffer' = s.buf
         /\ IF flowcontrol = "off" \/ ~CTS
              THEN nrsout' = nrsout \o bytes /\ UNCHANGED pending
              ELSE pending' = bytes /\ UNCHANGED nrsout
  /\ kissin' = SubSeq(kissin, n + 1, Len(kissin))
  /\ UNCHANGED <<nrs, flowcontrol, CTS, nrsin, kissout, fromKiss, fromNrs>>

\* key_rts ends, because CTS is low or because an ioctl has failed, which
\* turns flow control off.
KeyRts ==
  /\ pending # <<>>
  /\ \/ ~CTS /\ UNCHANGED flowcontrol
     \/ flowcontrol = "on" /\ flowcontrol' = "off"
  /\ nrsout' = nrsout \o pending
  /\ pending' = <<>>
  /\ UNCHANGED <<kiss, nrs, CTS, kissin, nrsin, kissout, fromKiss, fromNrs>>

NrsInput(n) ==
  /\ pending = <<>> /\ n \in Taken(nrsin)
  /\ LET upto[k \in 0..n] ==
           IF k = 0 THEN [state |-> nrs_state, buf |-> nrs_rxbuffer, cksum |-> nrs_cksum, out |-> <<>>]
           ELSE NrsByte(upto[k - 1], nrsin[k])
         s == upto[n]
     IN  /\ nrs_state' = s.state /\ nrs_rxbuffer' = s.buf /\ nrs_cksum' = s.cksum
         /\ kissout' = kissout \o FlattenSeq([k \in DOMAIN s.out |-> kiss_esc(s.out[k])])
  /\ nrsin' = SubSeq(nrsin, n + 1, Len(nrsin))
  /\ UNCHANGED <<kiss, flow, kissin, nrsout, fromKiss, fromNrs>>

-----------------------------------------------------------------------------
(* The kernel, the TNC and the line between them *)

Count == Len(fromKiss) + Len(fromNrs)

KissSends(f) ==
  /\ Count < MaxFrames
  /\ kissin' = kissin \o KissFrame(f)
  /\ fromKiss' = Append(fromKiss, f)
  /\ UNCHANGED <<kiss, nrs, flow, nrsin, kissout, nrsout, fromNrs>>

TncSends(f) ==
  /\ Count < MaxFrames
  /\ nrsin' = nrsin \o nrs_esc(f)
  /\ fromNrs' = Append(fromNrs, [bytes |-> f, whole |-> TRUE])
  /\ UNCHANGED <<kiss, nrs, flow, kissin, kissout, nrsout, fromKiss>>

\* A data byte is changed into another one, or the end of the frame is lost.
LineDamages(f, cut) ==
  /\ Count < MaxFrames
  /\ LET bytes == nrs_esc(f)
     IN  nrsin' = nrsin \o (IF cut THEN SubSeq(bytes, 1, Len(bytes) - 4)
                            ELSE [bytes EXCEPT ![Len(bytes) - 4] = (@ + 101) % 256])
  /\ fromNrs' = Append(fromNrs, [bytes |-> f, whole |-> FALSE])
  /\ UNCHANGED <<kiss, nrs, flow, kissin, kissout, nrsout, fromKiss>>

TncFlow == CTS' = ~CTS /\ flowcontrol = "on"
           /\ UNCHANGED <<kiss, nrs, flowcontrol, pending, kissin, nrsin, kissout, nrsout, fromKiss, fromNrs>>

Next ==
  \/ \E f \in KissFrames : KissSends(f)
  \/ \E f \in NrsFrames : TncSends(f) \/ \E cut \in BOOLEAN : LineDamages(f, cut)
  \/ \E n \in Taken(kissin) : KissInput(n)
  \/ \E n \in Taken(nrsin) : NrsInput(n)
  \/ KeyRts \/ TncFlow

-----------------------------------------------------------------------------
TypeOK ==
  /\ kiss_state \in {"WAIT", "CTRL", "DATA", "ESCAPE"} /\ Len(kiss_rxbuffer) <= BufSize
  /\ nrs_state \in {"WAIT", "DATA", "ESCAPE", "CKSUM"} /\ Len(nrs_rxbuffer) <= BufSize
  /\ nrs_cksum = SumOf(nrs_rxbuffer) \/ nrs_state = "WAIT"

\* What a TNC reads: the frames in a stream, and whether each has its checksum.
NrsRead(stream) ==
  LET upto[k \in 0..Len(stream)] ==
        IF k = 0 THEN [state |-> "WAIT", buf |-> <<>>, out |-> <<>>]
        ELSE LET s == upto[k - 1]
                 b == stream[k]
             IN  CASE s.state = "WAIT" /\ b # STX -> s
                   [] b = STX /\ s.state # "DLE" /\ s.state # "ETX" -> [s EXCEPT !.state = "TEXT", !.buf = <<>>]
                   [] s.state = "TEXT" /\ b = DLE -> [s EXCEPT !.state = "DLE"]
                   [] s.state = "TEXT" /\ b = ETX -> [s EXCEPT !.state = "ETX"]
                   [] s.state \in {"TEXT", "DLE"} -> [s EXCEPT !.state = "TEXT", !.buf = Append(@, b)]
                   [] OTHER -> [state |-> "WAIT", buf |-> <<>>,
                                out |-> Append(s.out, [bytes |-> s.buf, sum |-> b])]
  IN  upto[Len(stream)].out

\* A frame that is no data leaves the driver waiting, so that the FEND which
\* ends it begins the next frame and the FEND in front of that one passes for
\* its control byte: Shifted[k] if this happens to the frame k.
Shifted ==
  LET shifted[k \in DOMAIN fromKiss] ==
        k > 1 /\ fromKiss[k - 1][1] % 16 # 0 /\ ~shifted[k - 1]
  IN  shifted

\* What the TNC is to be sent for a frame: nothing if it is no data, or if it
\* has no more than two bytes.  A shifted frame goes with its control byte.
DueOf(f, shifted) ==
  LET bytes == IF shifted THEN f ELSE IF f[1] % 16 = 0 THEN Tail(f) ELSE <<>>
  IN  IF Len(bytes) > 2 THEN <<SubSeq(bytes, 1, IF Len(bytes) > BufSize THEN BufSize ELSE Len(bytes))>>
      ELSE <<>>

\* The TNC is sent every data frame of more than two bytes, in order and
\* once, and the first BufSize bytes of a longer one; the sums are right.
ToTnc ==
  LET due  == FlattenSeq([k \in DOMAIN fromKiss |-> DueOf(fromKiss[k], Shifted[k])])
      read == NrsRead(nrsout)
      got  == [k \in DOMAIN read |-> read[k].bytes]
  IN  /\ IsPrefix(got, due)
      /\ kissin = <<>> /\ pending = <<>> => got = due
      /\ \A k \in DOMAIN read : read[k].sum = SumOf(read[k].bytes)

\* The kernel is given every frame of the TNC that arrived undamaged and had
\* room, in order and once, and no other one.
ToKernel ==
  LET good == SelectSeq(fromNrs, LAMBDA f : f.whole /\ Len(f.bytes) <= BufSize)
      due  == [k \in DOMAIN good |-> <<0>> \o good[k].bytes]
      got  == KissRead(kissout)
  IN  IsPrefix(got, due) /\ (nrsin = <<>> => got = due)

Translated == ToTnc /\ ToKernel
=============================================================================
