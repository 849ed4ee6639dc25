-------------------------------- MODULE M6pack -------------------------------
(***************************************************************************)
(* m6pack (ax25tools/6pack/m6pack.c): several ptys share a serial line     *)
(* with a ring of 6pack TNCs, which are told apart by an address in each   *)
(* command octet.  An octet below 64 carries six bits of data; the others  *)
(* are commands, of an operation (a multiple of 8) and an address.  The    *)
(* descriptors block, so that each write is whole.                         *)
(***************************************************************************)
EXTENDS Naturals, SequencesExt

CONSTANTS
  numptys,
  SIXP_MAX_ADDR,  \* addresses, and entries of cmd_addr_fifo
  RingFrames,     \* [addr, bytes] that TNCs send
  PtyFrames,      \* [0..numptys-1 -> byte strings that the station on the pty sends]
  Commands,       \* operations other than SEOF and ADDR
  MaxFrames,      \* bound: frames, commands and requests in all
  MaxDamage       \* bound: frames damaged

VARIABLES
  ttyrx, ptyrx,      \* [databuf, part, sixp_cnt, seof] of the tty, and of each pty
  fifo, head, tail,  \* cmd_addr_fifo
  running,    \* FALSE once a NULL pty has been used
  ttyin, ptyin, ttyout, ptyout,  \* octets not yet read, and written
  answered,   \* requests for an address the ring has answered
  fromRing,   \* history: what the TNCs sent, in order: [addr, bytes, whole]
  fromPty,    \* history: [pty -> what it sent]
  asked,      \* history: ptys whose requests m6pack has read, in order
  damage      \* history: frames damaged

lines == <<ttyin, ptyin, ttyout, ptyout>>
state == <<ttyrx, ptyrx, fifo, head, tail, running>>
history == <<answered, fromRing, fromPty, asked, damage>>
vars == <<state, lines, history>>

Ptys == 0..(numptys - 1)
SEOF == 64
ADDR == 232

IsData(c) == c < 64
OpOf(c) == c - (c % 8)
AddrOf(c) == c % 8
SumOf(bytes) ==
  LET upto[n \in 0..Len(bytes)] == IF n = 0 THEN 0 ELSE (upto[n - 1] + bytes[n]) % 256
  IN  upto[Len(bytes)]

-----------------------------------------------------------------------------
(* Octets *)

\* The octets of three bytes or of what is left of them.
Octets(b) ==
  CASE Len(b) = 1 -> <<b[1] % 64, (b[1] \div 64) * 16>>
    [] Len(b) = 2 -> <<b[1] % 64, (b[1] \div 64) * 16 + (b[2] % 16), (b[2] \div 16) * 4>>
    [] OTHER -> <<b[1] % 64, (b[1] \div 64) * 16 + (b[2] % 16),
                  (b[2] \div 16) * 4 + (b[3] % 4), b[3] \div 4>>

Encode(bytes) ==
  LET groups == (Len(bytes) + 2) \div 3
      group(k) == SubSeq(bytes, 3 * k - 2, IF 3 * k < Len(bytes) THEN 3 * k ELSE Len(bytes))
  IN  FlattenSeq([k \in 1..groups |-> Octets(group(k))])

\* Mutant: the checksum leaves the address out.
CheckNoAddr(bytes, addr) == 255 - SumOf(bytes)

Check(bytes, addr) == 255 - SumOf(Append(bytes, addr))

\* sixpack_tx of a data frame; the closing SEOF has no address.
DataTx(bytes, addr) == <<SEOF + addr>> \o Encode(Append(bytes, Check(bytes, addr))) \o <<SEOF>>

\* sixpack_tx of a command: "TNC address" goes as it is.
CommandTx(c, addr) == IF OpOf(c) = ADDR THEN <<c>> ELSE <<OpOf(c) + addr>>

-----------------------------------------------------------------------------
(* sixpack_rx *)

Empty(seof) == [databuf |-> <<>>, part |-> 0, sixp_cnt |-> 0, seof |-> seof]

\* Mutant: the last two bits of a byte are lost.
DataRxShort(r, c) ==
  CASE r.sixp_cnt = 0 -> [r EXCEPT !.sixp_cnt = 1, !.part = c]
    [] r.sixp_cnt = 1 -> [r EXCEPT !.sixp_cnt = 2, !.part = c % 16, !.databuf = Append(@, r.part)]
    [] r.sixp_cnt = 2 -> [r EXCEPT !.sixp_cnt = 3, !.part = c % 4,
                                   !.databuf = Append(@, r.part + (c \div 4) * 16)]
    [] OTHER -> [r EXCEPT !.sixp_cnt = 0, !.part = 0, !.databuf = Append(@, r.part + c * 4)]

\* A data octet: part holds the bits of the byte that is not yet complete.
DataRx(r, c) ==
  CASE r.sixp_cnt = 0 -> [r EXCEPT !.sixp_cnt = 1, !.part = c]
    [] r.sixp_cnt = 1 -> [r EXCEPT !.sixp_cnt = 2, !.part = c % 16,
                                   !.databuf = Append(@, r.part + (c \div 16) * 64)]
    [] r.sixp_cnt = 2 -> [r EXCEPT !.sixp_cnt = 3, !.part = c % 4,
                                   !.databuf = Append(@, r.part + (c \div 4) * 16)]
    [] OTHER -> [r EXCEPT !.sixp_cnt = 0, !.part = 0, !.databuf = Append(@, r.part + c * 4)]

\* Is the frame that a SEOF ends sound?
Sound(r) ==
  /\ Len(r.databuf) >= 3
  /\ SumOf(Append(r.databuf, AddrOf(r.seof))) = 255

\* A frame that is not sound leaves the old seof behind.
AfterSeof(r, c) ==
  IF r.databuf # <<>> /\ ~Sound(r) THEN Empty(r.seof) ELSE Empty(c)

\* What the loop of main does for each octet read from the tty: s is the
\* state, d what goes to which pty.
ToPty(s, addr, octets) ==
  IF addr < numptys THEN [s EXCEPT !.out[addr] = @ \o octets]
  ELSE IF addr = numptys THEN [s EXCEPT !.running = FALSE]
  ELSE s

TtyOctet(s, c) ==
  IF ~s.running THEN s
  ELSE IF IsData(c) THEN [s EXCEPT !.r = DataRx(@, c)]
  ELSE IF OpOf(c) = ADDR
    THEN ToPty([s EXCEPT !.head = (@ + 1) % SIXP_MAX_ADDR], s.fifo[s.head], <<ADDR + 1>>)
  ELSE IF OpOf(c) # SEOF THEN ToPty(s, AddrOf(c), CommandTx(c, 0))
  ELSE LET next == [s EXCEPT !.r = AfterSeof(s.r, c)]
       IN  IF ~Sound(s.r) THEN next
           ELSE ToPty(next, AddrOf(s.r.seof), DataTx(Front(s.r.databuf), 0))

\* The same for pty i.
PtyOctet(s, c, i) ==
  IF IsData(c) THEN [s EXCEPT !.r = DataRx(@, c)]
  ELSE IF OpOf(c) = ADDR
    THEN [s EXCEPT !.fifo[s.tail] = i, !.tail = (@ + 1) % SIXP_MAX_ADDR,
                   !.out = Append(@, ADDR), !.asked = Append(@, i)]
  ELSE IF OpOf(c) # SEOF THEN [s EXCEPT !.out = @ \o CommandTx(c, i)]
  ELSE [s EXCEPT !.r = AfterSeof(s.r, c),
                 !.out = IF Sound(s.r) THEN @ \o DataTx(Front(s.r.databuf), i) ELSE @]

-----------------------------------------------------------------------------
Init ==
  /\ ttyrx = Empty(0) /\ ptyrx = [i \in Ptys |-> Empty(0)]
  /\ fifo = [k \in 0..(SIXP_MAX_ADDR - 1) |-> 0] /\ head = 0 /\ tail = 0
  /\ running = TRUE
  /\ ttyin = <<>> /\ ttyout = <<>>
  /\ ptyin = [i \in Ptys |-> <<>>] /\ ptyout = [i \in Ptys |-> <<>>]
  /\ answered = 0 /\ fromRing = <<>> /\ fromPty = [i \in Ptys |-> <<>>] /\ asked = <<>>
  /\ damage = 0

\* The octets read from the tty; after a NULL pty nothing more happens.
TtyInput ==
  /\ running /\ ttyin # <<>>
  /\ LET start == [r |-> ttyrx, head |-> head, out |-> ptyout, fifo |-> fifo, running |-> TRUE]
         upto[n \in 0..Len(ttyin)] ==
           IF n = 0 THEN start ELSE TtyOctet(upto[n - 1], ttyin[n])
         s == upto[Len(ttyin)]
     IN  /\ ttyrx' = s.r
         /\ head' = s.head /\ ptyout' = s.out /\ running' = s.running
  /\ ttyin' = <<>>
  /\ UNCHANGED <<ptyrx, fifo, tail, ptyin, ttyout, history>>

PtyInput(i) ==
  /\ running /\ ptyin[i] # <<>>
  /\ LET start == [r |-> ptyrx[i], tail |-> tail, out |-> ttyout, fifo |-> fifo, asked |-> asked]
         upto[n \in 0..Len(ptyin[i])] ==
           IF n = 0 THEN start ELSE PtyOctet(upto[n - 1], ptyin[i][n], i)
         s == upto[Len(ptyin[i])]
     IN  /\ ptyrx' = [ptyrx EXCEPT ![i] = s.r]
         /\ tail' = s.tail /\ fifo' = s.fifo /\ ttyout' = s.out /\ asked' = s.asked
  /\ ptyin' = [ptyin EXCEPT ![i] = <<>>]
  /\ UNCHANGED <<ttyrx, head, running, ttyin, ptyout, answered, fromRing, fromPty, damage>>

-----------------------------------------------------------------------------
(* The ring and the stations *)

Count == Len(fromRing) + Len(FlattenSeq([k \in 1..numptys |-> fromPty[k - 1]]))
AnswersRead == answered - Len(SelectSeq(ttyin, LAMBDA c : OpOf(c) = ADDR))
AddrsAsked == Len(SelectSeq(ttyout, LAMBDA c : c = ADDR))

RingSends(f) ==
  /\ Count < MaxFrames
  /\ ttyin' = ttyin \o DataTx(f.bytes, f.addr)
  /\ fromRing' = Append(fromRing, [addr |-> f.addr, bytes |-> f.bytes, whole |-> TRUE])
  /\ UNCHANGED <<state, ptyin, ttyout, ptyout, answered, fromPty, asked, damage>>

\* A frame with a command of another TNC after its third octet.
RingInterrupts(f, op, addr) ==
  /\ Count + 1 < MaxFrames
  /\ LET octets == DataTx(f.bytes, f.addr)
     IN  ttyin' = ttyin \o SubSeq(octets, 1, 3) \o <<op + addr>> \o SubSeq(octets, 4, Len(octets))
  /\ fromRing' = fromRing \o <<[addr |-> addr, bytes |-> <<op>>, whole |-> TRUE],
                               [addr |-> f.addr, bytes |-> f.bytes, whole |-> TRUE]>>
  /\ UNCHANGED <<state, ptyin, ttyout, ptyout, answered, fromPty, asked, damage>>

\* The third octet is changed, or the closing SEOF is lost: the next one may
\* close the frame instead.
LineDamages(f, changed) ==
  /\ Count < MaxFrames /\ damage < MaxDamage
  /\ LET octets == DataTx(f.bytes, f.addr)
     IN  ttyin' = ttyin \o (IF changed THEN [octets EXCEPT ![3] = (@ + 21) % 64] ELSE Front(octets))
  /\ fromRing' = Append(fromRing, [addr |-> f.addr, bytes |-> f.bytes, whole |-> ~changed])
  /\ damage' = damage + 1
  /\ UNCHANGED <<state, ptyin, ttyout, ptyout, answered, fromPty, asked>>

\* The ring answers the requests in the order they come out of the line.
RingAnswers ==
  /\ answered < AddrsAsked
  /\ answered' = answered + 1
  /\ ttyin' = Append(ttyin, ADDR + numptys)
  /\ UNCHANGED <<state, ptyin, ttyout, ptyout, fromRing, fromPty, asked, damage>>

PtySends(i, bytes) ==
  /\ Count < MaxFrames
  /\ ptyin' = [ptyin EXCEPT ![i] = @ \o DataTx(bytes, 0)]
  /\ fromPty' = [fromPty EXCEPT ![i] = Append(@, bytes)]
  /\ UNCHANGED <<state, ttyin, ttyout, ptyout, answered, fromRing, asked, damage>>

\* The kernel asks for addresses when it opens the line; the FIFO has room
\* for as many requests as there are addresses.
PtyAsks(i) ==
  /\ Count < MaxFrames
  /\ Len(SelectSeq(FlattenSeq([k \in 1..numptys |-> fromPty[k - 1]]), LAMBDA f : f = <<ADDR>>))
       < AnswersRead + SIXP_MAX_ADDR
  /\ ptyin' = [ptyin EXCEPT ![i] = Append(@, ADDR)]
  /\ fromPty' = [fromPty EXCEPT ![i] = Append(@, <<ADDR>>)]
  /\ UNCHANGED <<state, ttyin, ttyout, ptyout, answered, fromRing, asked, damage>>

Next ==
  \/ TtyInput \/ RingAnswers
  \/ \E i \in Ptys : PtyInput(i) \/ PtyAsks(i)
  \/ \E f \in RingFrames : RingSends(f) \/ \E changed \in BOOLEAN : LineDamages(f, changed)
  \/ \E f \in RingFrames, op \in Commands, addr \in 0..numptys : RingInterrupts(f, op, addr)
  \/ \E i \in Ptys : \E bytes \in PtyFrames[i] : PtySends(i, bytes)

-----------------------------------------------------------------------------
TypeOK ==
  /\ head \in DOMAIN fifo /\ tail \in DOMAIN fifo
  /\ \A r \in {ttyrx} \cup {ptyrx[i] : i \in Ptys} :
       r.sixp_cnt \in 0..3 /\ r.part \in 0..63 /\ \A k \in DOMAIN r.databuf : r.databuf[k] \in 0..255

\* A stream as a station reads it: commands, and the bytes of sound frames
\* without their checksum; each with its address.
Read(stream) ==
  LET step(s, c) ==
        IF ~IsData(c) /\ OpOf(c) # SEOF
          THEN [s EXCEPT !.got = Append(@, [addr |-> AddrOf(c), bytes |-> <<OpOf(c)>>])]
        ELSE IF IsData(c) THEN [s EXCEPT !.r = DataRx(@, c)]
        ELSE [r |-> AfterSeof(s.r, c),
              got |-> IF Sound(s.r)
                        THEN Append(s.got, [addr |-> AddrOf(s.r.seof), bytes |-> Front(s.r.databuf)])
                        ELSE s.got]
      upto[n \in 0..Len(stream)] ==
        IF n = 0 THEN [r |-> Empty(0), got |-> <<>>] ELSE step(upto[n - 1], stream[n])
  IN  upto[Len(stream)].got

IsSubSequence(s, t) == \E keep \in SUBSET DOMAIN t :
  s = LET index == SetToSortSeq(keep, LAMBDA a, b : a < b) IN [k \in DOMAIN index |-> t[index[k]]]

BytesOf(records) == [k \in DOMAIN records |-> records[k].bytes]
Answers(records) == SelectSeq(records, LAMBDA f : f.bytes = <<ADDR>>)
Others(records) == SelectSeq(records, LAMBDA f : f.bytes # <<ADDR>>)

\* Each pty is given what the TNC of its address sent, whole, in order and
\* once: all of it unless frames were damaged, and never a damaged one.
FromRingDelivered ==
  \A i \in Ptys :
    LET due == BytesOf(SelectSeq(fromRing, LAMBDA f : f.addr = i /\ f.whole))
        got == BytesOf(Others(Read(ptyout[i])))
    IN  IF damage > 0 THEN IsSubSequence(got, due)
        ELSE IsPrefix(got, due) /\ (ttyin = <<>> /\ running => got = due)

\* The ring is sent what each pty sent, under the address of that pty.
FromPtyDelivered ==
  \A i \in Ptys :
    LET due == SelectSeq(fromPty[i], LAMBDA f : f # <<ADDR>>)
        got == BytesOf(SelectSeq(Others(Read(ttyout)), LAMBDA f : f.addr = i))
    IN  IsPrefix(got, due) /\ (ptyin[i] = <<>> => got = due)

\* The answer to a request for an address goes to the pty that asked, also
\* when several are under way.
AnswerToAsker ==
  running =>
    \A i \in Ptys : Len(Answers(Read(ptyout[i]))) =
      Len(SelectSeq(SubSeq(asked, 1, AnswersRead), LAMBDA j : j = i))

SixpackDelivers == FromRingDelivered /\ FromPtyDelivered /\ AnswerToAsker
=============================================================================
