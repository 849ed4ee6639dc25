------------------------------- MODULE MCSerial -------------------------------
(***************************************************************************)
(* The programs between serial lines, ptys and interfaces.  A behaviour    *)
(* runs one of the small instances in Parts, chosen at the start:          *)
(*   mkiss:    one pty is "none", and the TNC uses a port more than there  *)
(*             are ptys;                                                   *)
(*   kissnetd: two ttys or slaves of ptys and a /dev/ptmx;                 *)
(*   tonet, topty: net2kiss with a ring of nine bytes and a decoder of     *)
(*             three, in one direction each;                               *)
(*   m6pack:   two ptys, and a ring that also has a TNC 2, whose address   *)
(*             m6pack takes for one of a pty, and a TNC 3;                 *)
(*   nrsdrv:   buffers of four bytes;                                      *)
(*   locks:    as the .cfg has it: kissattach twice, and nrsdrv started by *)
(*             init; or mkiss started from a shell and a kissattach.       *)
(* The locks, mkiss and kissnetd have their own variables, any other       *)
(* program as many of s1, s2, ... as it has.  What a part does not use     *)
(* stays as it is.                                                         *)
(***************************************************************************)
EXTENDS TtyLock, KissBytes

CONSTANT Parts

VARIABLES part, crcflag, pollspeed, ttyrx, ptyrx, port, timeouts, ttyin, ptyin, ttyout, ptyout, fromTnc, fromPty,
          PortList, up, lost, input, MyFdSet, MyBuffer, output, sent, hangups,
          s1, s2, s3, s4, s5, s6, s7, s8, s9, s10, s11, s12, s13, s14, s15

\* Only frames with at least twelve bytes of contents pass with a CRC.
Long(first, b) == <<first, b>> \o [i \in 1..12 |-> 64 + i]
MCTncFrames == {Long(0, FEND), Long(16, FESC), <<32, 66>>, <<60, 7, 9>>, <<14>>}
MCPtyFrames == [i \in 0..2 |-> IF i = 0 THEN {<<0, FEND, 1>>, <<1, 50>>}
                               ELSE {<<0, FESC, 2>>, <<12, 9, 8, 51>>}]

M == INSTANCE Mkiss
  WITH crctab <- init_crc, numptys <- 3, None <- {2}, TncFrames <- MCTncFrames, PtyFrames <- MCPtyFrames, MaxFrames <- 2, MaxPolls <- 1

-----------------------------------------------------------------------------
\* With and without a byte to stuff, not to be passed on, and one too long.
MCFrames == {<<0, 65, 66>>, <<1, FEND>>, <<0, 65, 67, 68, 69>>}

N == INSTANCE Kissnetd
  WITH Ports <- {0, 1, 2}, Ptmx <- {2}, MaxFrameSize <- 6, REOPEN_TIMEOUT <- 1,
       Frames <- MCFrames, MaxFrames <- 2, MaxHangups <- 1

\* Packets of two, five, and eight bytes and more than the ring has room for.
MCNetFrames == {<<0, 65>>, <<0, FEND, FESC>>, <<0, 1, 2, 3, 4, 5, 6, 7>>}
\* Sound frames, wrong escapes, one byte too many, two frames in a line, and
\* a frame that ends in an escape.
MCPtyLines == {<<FEND, 0, FESC, TFEND, FEND>>, <<FEND, 0, FESC, 66, 67, FEND>>,
               <<FEND, 0, 1, 2, 3, FEND>>, <<FEND, 7, FEND, 0, 8, FEND>>,
               <<FEND, 0, 3, FESC, FEND>>, <<FEND, 0, 1, 2, FESC, TFESC, FEND>>}

ToPty == INSTANCE Net2kiss
  WITH ObufSize <- 9, PktbufSize <- 3, NetFrames <- MCNetFrames, PtyLines <- {},
       MaxFrames <- 3, MaxHangups <- 1,
       obuf <- s1, ob_rp <- s2, ob_wp <- s3, pktstate <- s4, pktbuf <- s5, fdpty <- s6,
       ptyin <- s7, written <- s8, accepted <- s9, lines <- s10, sendto <- s11,
       count <- s12, hangups <- s13
ToNet == INSTANCE Net2kiss
  WITH ObufSize <- 9, PktbufSize <- 3, NetFrames <- {}, PtyLines <- MCPtyLines,
       MaxFrames <- 3, MaxHangups <- 1,
       obuf <- s1, ob_rp <- s2, ob_wp <- s3, pktstate <- s4, pktbuf <- s5, fdpty <- s6,
       ptyin <- s7, written <- s8, accepted <- s9, lines <- s10, sendto <- s11,
       count <- s12, hangups <- s13

-----------------------------------------------------------------------------
\* Two, three and four bytes, with all eight bits in use.
MCRingFrames == {[addr |-> 0, bytes |-> <<20, 195>>], [addr |-> 1, bytes |-> <<10, 255, 90>>],
                 [addr |-> 3, bytes |-> <<1, 2, 3, 4>>]}
MCSixPtyFrames == [i \in 0..1 |-> {<<7, i, 200>>}]

Six == INSTANCE M6pack
  WITH numptys <- 2, SIXP_MAX_ADDR <- 2, RingFrames <- MCRingFrames, PtyFrames <- MCSixPtyFrames,
       Commands <- {136}, MaxFrames <- 3, MaxDamage <- 1,
       ttyrx <- s1, ptyrx <- s2, fifo <- s3, head <- s4, tail <- s5, running <- s6,
       ttyin <- s7, ptyin <- s8, ttyout <- s9, ptyout <- s10, answered <- s11,
       fromRing <- s12, fromPty <- s13, asked <- s14, damage <- s15

\* Data with the special bytes of either side, a parameter, a frame that is
\* too short, and one that is too long for the buffers.
MCKissFrames == {<<0, 2, 16, 9>>, <<16, FEND, FESC, 3, 7>>, <<1, 5, 6, 7>>, <<0, 5, 6>>,
                 <<0, 1, 4, 5, 6, 7>>}
MCNrsFrames == {<<2, 16, 9>>, <<FEND, FESC, 3, 7>>, <<11, 12, 13, 14, 15>>}

Nrs == INSTANCE Nrsdrv
  WITH BufSize <- 4, KissFrames <- MCKissFrames, NrsFrames <- MCNrsFrames, MaxFrames <- 3,
       kiss_state <- s1, kiss_rxbuffer <- s2, nrs_state <- s3, nrs_rxbuffer <- s4,
       nrs_cksum <- s5, flowcontrol <- s6, CTS <- s7, pending <- s8, kissin <- s9,
       nrsin <- s10, kissout <- s11, nrsout <- s12, fromKiss <- s13, fromNrs <- s14

-----------------------------------------------------------------------------
MCKind == [k1 |-> "kissattach", k2 |-> "kissattach", n |-> "nrsdrv", m |-> "mkiss"]
MCUses == [k1 |-> <<"S0">>, k2 |-> <<"S0">>, n |-> <<"p0", "S0">>, m |-> <<"S0", "p0">>]

-----------------------------------------------------------------------------
mkiss == <<crcflag, pollspeed, ttyrx, ptyrx, port, timeouts, ttyin, ptyin, ttyout, ptyout, fromTnc, fromPty>>
net == <<PortList, up, lost, input, MyFdSet, MyBuffer, output, sent, hangups>>
Slots == <<s1, s2, s3, s4, s5, s6, s7, s8, s9, s10, s11, s12, s13, s14, s15>>

Zero13 == s13 = 0 /\ s14 = 0 /\ s15 = 0
Zero8 == s8 = 0 /\ s9 = 0 /\ s10 = 0 /\ s11 = 0 /\ s12 = 0 /\ Zero13
Zero1 == s1 = 0 /\ s2 = 0 /\ s3 = 0 /\ s4 = 0 /\ s5 = 0 /\ s6 = 0 /\ s7 = 0 /\ Zero8

SerialInit ==
  /\ part \in Parts /\ LockConstants /\ Init /\ M!Init /\ N!Init
  /\ part # "locks" => ~writable
  /\ part # "mkiss" => crcflag = 0 /\ ~pollspeed
  /\ \/ part \in {"mkiss", "kissnetd", "locks"} /\ Zero1
     \/ part = "topty" /\ ToPty!Init /\ s14 = 0 /\ s15 = 0
     \/ part = "tonet" /\ ToNet!Init /\ s14 = 0 /\ s15 = 0
     \/ part = "m6pack" /\ Six!Init
     \/ part = "nrsdrv" /\ Nrs!Init /\ s15 = 0

SerialNext ==
  /\ part' = part
  /\ \/ part = "locks" /\ Next /\ UNCHANGED <<mkiss, net, Slots>>
     \/ /\ UNCHANGED vars
        /\ \/ part = "mkiss" /\ M!Next /\ UNCHANGED <<net, Slots>>
           \/ part = "kissnetd" /\ N!Next /\ UNCHANGED <<mkiss, Slots>>
           \/ part = "topty" /\ ToPty!Next /\ UNCHANGED <<mkiss, net, s14, s15>>
           \/ part = "tonet" /\ ToNet!Next /\ UNCHANGED <<mkiss, net, s14, s15>>
           \/ part = "m6pack" /\ Six!Next /\ UNCHANGED <<mkiss, net>>
           \/ part = "nrsdrv" /\ Nrs!Next /\ UNCHANGED <<mkiss, net, s15>>

\* kissnetd runs on; select returns within a second.
SerialSpec ==
  /\ SerialInit /\ [][SerialNext]_<<part, vars, mkiss, net, Slots>>
  /\ WF_net(part = "kissnetd" /\ N!ProcessPortList)

-----------------------------------------------------------------------------
\* Buffers keep inside their sizes, pointers and counters of bits inside their
\* ranges, a checksum belongs to its buffer, and a lock file holds no pid that
\* was never used.
SerialTypeOK ==
  CASE part = "kissnetd" -> N!TypeOK
    [] part = "topty" -> ToPty!TypeOK
    [] part = "tonet" -> ToNet!TypeOK
    [] part = "mkiss" -> M!TypeOK
    [] part = "m6pack" -> Six!TypeOK
    [] part = "nrsdrv" -> Nrs!TypeOK
    [] OTHER -> TypeOK

\* kissnetd.c: a port somebody is behind is open again in the end, if there
\* are seconds without input.
IdleReopens == N!IdleReopens

\* kissnetd.c: a station reads frames of another one, or the first part of one,
\* and never a mixture; net2kiss.c: packets that fit the ring reach the pty whole,
\* in order and once, and nothing of one that does not fit; the interface is
\* given sound frames of the pty only.
PacketsExact ==
  /\ part = "kissnetd" => N!NoMixedFrames
  /\ part = "topty" => ToPty!RingExact
  /\ part = "tonet" => ToNet!OnlySound

\* mkiss.c, m6pack.c, nrsdrv.c: each frame goes where its address says, whole,
\* in order and once, and no damaged one does; the answer to a request for an
\* address goes to the pty that asked.
FramesOnce ==
  CASE part = "mkiss" -> M!EachFrameOnce
    [] part = "m6pack" -> Six!SixpackDelivers
    [] part = "nrsdrv" -> Nrs!Translated
    [] OTHER -> TRUE
=============================================================================
