-------------------------------- MODULE Ax25io --------------------------------
(***************************************************************************)
(* ax25io: a buffered connection with lines, end-of-line conversion and    *)
(* telnet options.  Compression is left out.                               *)
(***************************************************************************)
EXTENDS Integers, Sequences, FiniteSets, FiniteSetsExt, SequencesExt

CONSTANTS
  AXBUFLEN, paclen,
  eol,        \* the end of line of the connection
  Waits,      \* the descriptor blocks
  telnetmode,
  Strings,    \* what the program writes: sequences of characters
  Packets,    \* what the peer sends: sequences of bytes
  MaxStrings, MaxPackets, MaxBusy  \* bounds; MaxBusy: writes that fail

NL == 10
CR == 13
IAC == 255
DONT == 254
DO == 253
WONT == 252
WILL == 251
SB == 250
SE == 240
Ending == {244, 238, 236}  \* IP, ABORT, xEOF
ECHO == 1
SGA == 3

VARIABLES
  obuf, optr,       \* bytes; optr is the length of obuf
  gbuf, gbuf_usage, \* memory around the line buffer, which starts at 0
  sock,             \* bytes that have arrived
  tn_echo,
  out, given,       \* history: bytes written, bytes to be written
  came, lines,      \* history: bytes that have come, lines returned
  strings, packets, busy,
  again             \* history: a byte was kept and yet refused
vars == <<obuf, optr, gbuf, gbuf_usage, sock, tn_echo, out, given, came, lines, strings, packets,
          busy, again>>

Init ==
  /\ obuf = <<>> /\ optr = 0 /\ gbuf = [i \in -AXBUFLEN..AXBUFLEN |-> 0] /\ gbuf_usage = 0
  /\ sock = <<>> /\ tn_echo \in {FALSE, telnetmode} /\ out = <<>> /\ given = <<>>
  /\ came = <<>> /\ lines = <<>> /\ strings = 0 /\ packets = 0 /\ busy = 0 /\ again = FALSE

-----------------------------------------------------------------------------
(* Output.  o is [obuf, out, busy, ret], the buffer while it is worked on. *)

\* Mutant: what a write has not taken of a packet is dropped with it.
RestOfPacket(b, n) == SubSeq(b, Min({paclen, Len(b)}) + 1, Len(b))
\* What stays in the buffer after n bytes have been written.
Rest(b, n) == SubSeq(b, n + 1, Len(b))

\* flush_obuf: a write takes any part of a packet, or fails.
flush_obuf(o) ==
  IF o.obuf = <<>> THEN {[o EXCEPT !.ret = 0]}
  ELSE {[o EXCEPT !.obuf = Rest(@, n), !.out = @ \o SubSeq(o.obuf, 1, n), !.ret = n]
          : n \in 1..Min({paclen, Len(o.obuf)})}
       \cup (IF o.busy < MaxBusy THEN {[o EXCEPT !.busy = @ + 1, !.ret = -1]} ELSE {})

Room(o) == IF paclen <= Len(o.obuf) THEN flush_obuf(o) ELSE {o}

\* rsend without compression; kept says that the bytes are in the buffer.
rsend(o, bytes) ==
  UNION {
    IF paclen <= Len(o.obuf) /\ r.ret <= 0 THEN {[r EXCEPT !.ret = -1]}
    ELSE IF Len(r.obuf) + Len(bytes) >= AXBUFLEN THEN {[r EXCEPT !.ret = -1]}
    ELSE LET kept == [r EXCEPT !.obuf = @ \o bytes, !.ret = Len(bytes), !.given = @ \o bytes]
         IN IF Len(kept.obuf) < paclen THEN {kept}
            ELSE {[f EXCEPT !.ret = IF f.ret < 0 THEN -1 ELSE Len(bytes), !.again = @ \/ f.ret < 0]
                    : f \in flush_obuf(kept)}
  : r \in Room(o)}

\* axio_putc: the bytes for a character, in text mode.
Coded(c) == IF telnetmode /\ c = IAC THEN <<IAC, IAC>> ELSE IF c = NL THEN eol ELSE <<c>>

\* axio_puts: up to the first character that is refused.
Put(o0, s) ==
  LET after[i \in 0..Len(s)] ==
        IF i = 0 THEN {o0}
        ELSE UNION {IF o.ret = -1 THEN {o} ELSE rsend(o, Coded(s[i])) : o \in after[i - 1]}
  IN after[Len(s)]

Now == [obuf |-> obuf, out |-> out, busy |-> busy, ret |-> 0, given |-> given, again |-> again]
Becomes(o) == /\ obuf' = o.obuf /\ optr' = Len(o.obuf) /\ out' = o.out /\ busy' = o.busy
              /\ given' = o.given /\ again' = o.again

axio_puts(s) == /\ strings < MaxStrings /\ strings' = strings + 1
                /\ \E o \in Put(Now, s) : Becomes(o)
                /\ UNCHANGED <<gbuf, gbuf_usage, sock, tn_echo, came, lines, packets>>

\* axio_flush: until the buffer is empty or a write fails.
Flushed(o0) ==
  LET after[i \in 0..Len(o0.obuf)] ==
        IF i = 0 THEN {o0}
        ELSE UNION {IF o.obuf = <<>> \/ o.ret = -1 THEN {o} ELSE flush_obuf(o) : o \in after[i - 1]}
  IN after[Len(o0.obuf)]
axio_flush == /\ obuf # <<>> /\ \E o \in Flushed(Now) : Becomes(o)
              /\ UNCHANGED <<gbuf, gbuf_usage, sock, tn_echo, came, lines, strings, packets>>

-----------------------------------------------------------------------------
(* Input *)

\* The bytes answered to an option command of the peer.
Answer(cmd, opt) == CASE cmd = WILL -> <<IAC, DONT, opt>>
                      [] cmd = DO /\ opt = SGA -> <<IAC, WILL, opt>>
                      [] cmd = DO /\ opt # SGA /\ (opt # ECHO \/ ~tn_echo) -> <<IAC, WONT, opt>>
                      [] OTHER -> <<>>
Answered(o, answer) ==
  IF answer = <<>> THEN {[o EXCEPT !.ret = 0]}
  ELSE UNION {IF r.ret = -1 THEN {r} ELSE {[f EXCEPT !.ret = 0] : f \in Flushed(r)} : r \in rsend(o, answer)}

\* Bytes after a command: a sub-negotiation is skipped up to IAC SE.
SubEnd(s, i) == LET ends == {k \in i + 4..Len(s) : s[k - 1] = IAC /\ s[k] = SE}
                IN IF ends = {} THEN Len(s) + 1 ELSE Min(ends)

\* One step of axio_gets in s at x.at: a character, a command or the end of the
\* line.  x is [at, text, o, end], end is "no", "line" or "short".
Taken(s, x) ==
  LET i == x.at
      cmd == s[i + 1]
      Short(n) == {[x EXCEPT !.at = Min({n, Len(s) + 1}), !.end = "short"]}
  IN IF i > Len(s) THEN Short(i)
     ELSE IF ~(telnetmode /\ s[i] = IAC)
     THEN IF s[i] = eol[1]
          THEN IF i + Len(eol) - 1 > Len(s) THEN Short(Len(s) + 1)
               ELSE {[x EXCEPT !.at = i + Len(eol), !.end = "line"]}
          ELSE IF s[i] \in {0, CR, NL} THEN {[x EXCEPT !.at = i + 1, !.end = "line"]}
          ELSE {[x EXCEPT !.at = i + 1, !.text = Append(@, s[i])]}
     ELSE IF i + 1 > Len(s) \/ (cmd \in SB..DONT /\ i + 2 > Len(s)) THEN Short(Len(s) + 1)
     ELSE IF cmd = IAC THEN {[x EXCEPT !.at = i + 2, !.text = Append(@, IAC)]}
     ELSE IF cmd \in Ending THEN Short(i + 2)
     ELSE IF cmd = SB THEN IF SubEnd(s, i) > Len(s) THEN Short(Len(s) + 1) ELSE {[x EXCEPT !.at = SubEnd(s, i) + 1]}
     ELSE IF cmd \notin WILL..DONT THEN {[x EXCEPT !.at = i + 2]}
     ELSE {[x EXCEPT !.at = i + 3, !.o = o, !.end = IF o.ret = -1 THEN "short" ELSE "no"]
             : o \in Answered(x.o, Answer(cmd, s[i + 2]))}

\* axio_gets: all outcomes for s.
axio_gets(s, o) ==
  LET after[k \in 0..Len(s) + 1] ==
        IF k = 0 THEN {[at |-> 1, text |-> <<>>, o |-> o, end |-> "no"]}
        ELSE UNION {IF x.end = "no" THEN Taken(s, x) ELSE {x} : x \in after[k - 1]}
  IN after[Len(s) + 1]

\* The usage of the buffer after axio_gets; a part of a line is subtracted.
Usage(x) == IF x.end = "line" THEN 0 ELSE gbuf_usage - Len(x.text)

Stored(x) ==
  [i \in DOMAIN gbuf |->
     IF i - gbuf_usage + 1 \in DOMAIN x.text THEN x.text[i - gbuf_usage + 1]
     ELSE IF x.end = "line" /\ i = gbuf_usage + Len(x.text) THEN 0 ELSE gbuf[i]]
StringAt0(m) == [i \in 1..Min({k \in 0..AXBUFLEN : k = AXBUFLEN \/ m[k] = 0}) |-> m[i - 1]]

\* A descriptor that blocks has waited for the whole line.
axio_getline ==
  /\ sock # <<>>
  /\ \E x \in axio_gets(sock, Now) :
       /\ Waits => x.end = "line" \/ x.o.ret = -1 \/ x.at <= Len(sock)
       /\ gbuf' = Stored(x) /\ gbuf_usage' = Usage(x)
       /\ lines' = IF x.end = "line" THEN Append(lines, StringAt0(gbuf')) ELSE lines
       /\ sock' = SubSeq(sock, x.at, Len(sock))
       /\ Becomes(x.o)
  /\ UNCHANGED <<tn_echo, came, strings, packets>>

PeerSends(p) == /\ packets < MaxPackets /\ packets' = packets + 1
                /\ sock' = sock \o p /\ came' = came \o p
                /\ UNCHANGED <<obuf, optr, gbuf, gbuf_usage, tn_echo, out, given, lines, strings, busy, again>>

Next == \/ \E s \in Strings : axio_puts(s)
        \/ axio_flush \/ axio_getline
        \/ \E p \in Packets : PeerSends(p)

-----------------------------------------------------------------------------
\* ax25io.c:154: what is written and what waits is what was put in, in order,
\* however writes were cut, answers to options included; nothing is beyond
\* the buffer.
OutputExact == /\ out \o obuf = given /\ Len(obuf) < AXBUFLEN
               /\ ~again => Len(obuf) < paclen + Len(eol) + 3

\* The lines in a stream without its telnet commands.
RECURSIVE LinesOf(_)
LinesOf(s) == LET x == CHOOSE y \in axio_gets(s, [Now EXCEPT !.obuf = <<>>, !.busy = MaxBusy]) : TRUE IN
              IF x.end # "line" THEN <<>> ELSE <<x.text>> \o LinesOf(SubSeq(s, x.at, Len(s)))

\* ax25io.c:599: the lines returned are those that came, whole, on a
\* descriptor that blocks and as long as every answer could be sent.  (A read
\* that ends within a line makes the usage of the buffer negative.)
LinesWhole == Waits /\ busy = 0 => lines = SubSeq(LinesOf(came), 1, Len(lines)) /\ gbuf_usage = 0
=============================================================================
