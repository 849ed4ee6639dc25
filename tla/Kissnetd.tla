------------------------------- MODULE Kissnetd ------------------------------
(***************************************************************************)
(* kissnetd (ax25tools/kiss/kissnetd.c): each information frame read from  *)
(* one tty or pty is written to all the others.  Ports fail when what is   *)
(* behind them goes away, and are opened again; writes do not block and    *)
(* may take a part of a frame only.                                        *)
(***************************************************************************)
EXTENDS KissBytes, FiniteSets

CONSTANTS
  Ports,           \* the numbers of the ports, from 0
  Ptmx,            \* those that are /dev/ptmx masters, which stay open
  MaxFrameSize,    \* size of each FrameBuffer
  REOPEN_TIMEOUT,  \* seconds
  Frames,          \* what the stations behind the ports send
  MaxFrames,       \* bound: frames sent in all
  MaxHangups       \* bound: times a station goes away

VARIABLES
  PortList,  \* [Ports -> [Fd, is_active, FrameBuffer, idle]]; idle is the time
             \* since TimeLastOpen, counted up to REOPEN_TIMEOUT + 1
  up,        \* ports with somebody behind them
  lost,      \* open ports whose device has gone since they were opened
  input,     \* [Ports -> bytes not yet read]
  MyFdSet,   \* ports select reported that ProcessPortList has still to look at
  MyBuffer,  \* [port, bytes]: what ProcessInput has read and not yet taken
  output,    \* [Ports -> bytes written since the station came]
  sent,      \* history: [Ports -> frames of the station behind it]
  hangups    \* history: times a station went away

vars == <<PortList, up, lost, input, MyFdSet, MyBuffer, output, sent, hangups>>
env  == <<up, input, sent, hangups>>

Open(p) == PortList[p].Fd /\ PortList[p].is_active

\* Reads and writes fail on a device that has gone; a ptmx master works again
\* once its slave is open again, other ports have to be opened again.
Works(p) == p \in up /\ p \notin lost

\* Bound: a read or a write takes all the bytes there are, or all but two.
Taken(bytes) == {Len(bytes), Len(bytes) - 2} \cap Nat

NoInput == [port |-> CHOOSE p \in Ports : TRUE, bytes |-> <<>>]

Init ==
  /\ PortList = [p \in Ports |-> [Fd |-> FALSE, is_active |-> FALSE, FrameBuffer |-> <<FEND>>,
                                  idle |-> REOPEN_TIMEOUT + 1]]
  /\ up = Ports /\ lost = {}
  /\ input = [p \in Ports |-> <<>>]
  /\ MyFdSet = {} /\ MyBuffer = NoInput
  /\ output = [p \in Ports |-> <<>>]
  /\ sent = [p \in Ports |-> <<>>] /\ hangups = 0

-----------------------------------------------------------------------------
(* The stations behind the ports.  What arrives while the daemon is at work *)
(* is what its next select finds.                                          *)

AtSelect == MyFdSet = {} /\ MyBuffer.bytes = <<>>

SendFrame(p, f) ==
  /\ AtSelect /\ Works(p)
  /\ FoldSet(LAMBDA q, n : n + Len(sent[q]), 0, Ports) < MaxFrames
  /\ input' = [input EXCEPT ![p] = @ \o KissFrame(f)]
  /\ sent' = [sent EXCEPT ![p] = Append(@, f)]
  /\ UNCHANGED <<PortList, up, lost, MyFdSet, MyBuffer, output, hangups>>

\* What was on its way in is lost with the device.
Hangup(p) ==
  /\ p \in up /\ hangups < MaxHangups
  /\ up' = up \ {p}
  /\ lost' = IF PortList[p].Fd /\ p \notin Ptmx THEN lost \cup {p} ELSE lost
  /\ input' = [input EXCEPT ![p] = <<>>]
  /\ hangups' = hangups + 1
  /\ UNCHANGED <<PortList, MyFdSet, MyBuffer, output, sent>>

ComeBack(p) ==
  /\ p \notin up
  /\ up' = up \cup {p}
  /\ output' = [output EXCEPT ![p] = <<>>]
  /\ UNCHANGED <<PortList, lost, input, MyFdSet, MyBuffer, sent, hangups>>

-----------------------------------------------------------------------------
(* Opening *)

\* ReopenPort: a ptmx can always be opened, and is only marked active again
\* once it is.
ReopenPort(p) ==
  LET opens == p \in up \cup Ptmx
  IN  [PortList[p] EXCEPT !.idle = 0, !.Fd = opens, !.is_active = opens]

\* A second passes for every port.
Later(pl) == [p \in Ports |-> [pl[p] EXCEPT !.idle = IF @ > REOPEN_TIMEOUT THEN @ ELSE @ + 1]]

\* Mutant: only the first of the ports that are closed is looked at.
DueFirst(pl, p) ==
  /\ ~Open(p) /\ p = (CHOOSE q \in Ports : ~Open(q))
  /\ pl[p].idle > REOPEN_TIMEOUT

Due(pl, p) == ~Open(p) /\ pl[p].idle > REOPEN_TIMEOUT

\* select found nothing for a second: TickReopen.
TickReopen ==
  /\ AtSelect
  /\ \A p \in Ports : Open(p) => Works(p) /\ input[p] = <<>>
  /\ LET pl == Later(PortList)
     IN  PortList' = [p \in Ports |-> IF Due(pl, p) THEN ReopenPort(p) ELSE pl[p]]
  /\ UNCHANGED <<env, lost, MyFdSet, MyBuffer, output>>

\* select found input, or an error, which is also readable.  It may have
\* waited for the better part of a second.
Select ==
  /\ AtSelect
  /\ MyFdSet' = {p \in Ports : Open(p) /\ (~Works(p) \/ input[p] # <<>>)}
  /\ MyFdSet' # {}
  /\ PortList' \in {PortList, Later(PortList)}
  /\ UNCHANGED <<env, lost, MyBuffer, output>>

-----------------------------------------------------------------------------
(* Frames *)

Closed(pl, p) == IF p \in Ptmx THEN [pl EXCEPT ![p].is_active = FALSE]
                 ELSE [pl EXCEPT ![p].is_active = FALSE, ![p].Fd = FALSE]

\* ProcessInput: the read.
Read(p) ==
  /\ MyBuffer.bytes = <<>>
  /\ p \in MyFdSet /\ \A q \in MyFdSet : p <= q
  /\ MyFdSet' = MyFdSet \ {p}
  /\ IF ~PortList[p].Fd
       THEN UNCHANGED <<PortList, input, MyBuffer>>
     ELSE IF Works(p)
       THEN /\ \E n \in Taken(input[p]) \ {0} :
                 /\ MyBuffer' = [port |-> p, bytes |-> SubSeq(input[p], 1, n)]
                 /\ input' = [input EXCEPT ![p] = SubSeq(@, n + 1, Len(@))]
            /\ UNCHANGED PortList
       ELSE /\ PortList' = Closed(PortList, p)
            /\ UNCHANGED <<input, MyBuffer>>
  /\ lost' = {q \in lost : PortList'[q].Fd}
  /\ UNCHANGED <<up, output, sent, hangups>>

\* Mutant: a frame is written without the FEND in front of it.
ToWriteNoOpen(buf) == Tail(buf)

ToWrite(buf) == buf

Info(buf) == buf[2] \in {0, 32, 128}

\* Broadcast: a port that is busy takes the first part of a frame only; one
\* that fails is closed.
Broadcast(p, buf, pl) ==
  LET to == {q \in Ports \ {p} : pl[q].Fd /\ pl[q].is_active}
      whole == ToWrite(buf)
  IN  IF ~Info(buf) THEN PortList' = pl /\ UNCHANGED output
      ELSE /\ PortList' = [q \in Ports |-> IF q \in to /\ ~Works(q) THEN Closed(pl, q)[q] ELSE pl[q]]
           /\ \E taken \in [to -> Taken(whole)] :
                output' = [q \in Ports |-> IF q \in to /\ Works(q)
                                             THEN output[q] \o SubSeq(whole, 1, taken[q])
                                             ELSE output[q]]

\* Mutant: the FEND that ends a frame which is too long is kept.
OverlongKept(buf, b) == IF b = FEND THEN <<FEND, b>> ELSE buf

Overlong(buf, b) == IF b = FEND THEN <<FEND>> ELSE buf

\* ProcessInput: the next byte read.
TakeByte ==
  /\ MyBuffer.bytes # <<>>
  /\ LET p   == MyBuffer.port
         b   == Head(MyBuffer.bytes)
         buf == PortList[p].FrameBuffer
         set(x) == [PortList EXCEPT ![p].FrameBuffer = x]
     IN  IF Len(buf) = MaxFrameSize
           THEN PortList' = set(Overlong(buf, b)) /\ UNCHANGED output
         ELSE IF b = FEND
           THEN Broadcast(p, Append(buf, b), set(<<FEND>>))
           ELSE PortList' = set(Append(buf, b)) /\ UNCHANGED output
  /\ MyBuffer' = [MyBuffer EXCEPT !.bytes = Tail(@)]
  /\ lost' = {q \in lost : PortList'[q].Fd}
  /\ UNCHANGED <<env, MyFdSet>>

ProcessPortList == TickReopen \/ Select \/ TakeByte \/ \E p \in Ports : Read(p)

Next ==
  \/ \E p \in Ports, f \in Frames : SendFrame(p, f)
  \/ \E p \in Ports : Hangup(p) \/ ComeBack(p)
  \/ ProcessPortList

-----------------------------------------------------------------------------
TypeOK ==
  /\ \A p \in Ports : Len(PortList[p].FrameBuffer) \in 1..MaxFrameSize
  /\ lost \subseteq {p \in Ports \ Ptmx : PortList[p].Fd}
  /\ MyFdSet \subseteq Ports /\ MyBuffer.port \in Ports

\* What a station reads is a frame another one sent, or the first part of
\* one: what a busy port left unwritten, or a port that failed left unread,
\* is never glued to another frame.
NoMixedFrames ==
  \A p \in Ports :
    LET closed == Pieces(output[p]).closed
    IN  \A i \in DOMAIN closed :
          \E q \in Ports \ {p} : \E j \in DOMAIN sent[q] :
            IsPrefix(closed[i], StuffAll(sent[q][j]))

\* A port somebody is behind is open again in the end, if there are seconds
\* without input.
IdleReopens ==
  \A p \in Ports :
    (<>[](p \in up) /\ []<><<TickReopen>>_vars) => []<>(Open(p) /\ Works(p))
=============================================================================
