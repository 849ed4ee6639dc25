------------------------------- MODULE Axspawn -------------------------------
(***************************************************************************)
(* axspawn between a connection and the pty of a program: the write queue  *)
(* that collects packets, the alarm that sends what is left, and the main  *)
(* loop.  write_ax25 ignores the alarm while it works, so both are steps   *)
(* of one thread.  The commands in the data are chunks of their own, as    *)
(* the program and the peer send them.  At the end, by itself, what        *)
(* compression makes of a packet.                                          *)
(***************************************************************************)
EXTENDS Integers, Sequences, FiniteSets, FiniteSetsExt, SequencesExt

CONSTANTS
  paclen,
  QueueFactor,  \* 7: the program is not read while more than so many packets wait
  HuffSize,     \* 255: what a compressed packet holds
  Output,       \* what a read of the pty may give
  MaxOutput,    \* bound: reads of the pty
  MaxBusy,      \* bound: writes that fail with EAGAIN
  MaxCommands,  \* bound: //COMP commands of the peer
  Code,         \* [symbols -> sequences of bits]: huffencodtab
  DestSize,     \* what the decoder has room for: 259
  MaxWord       \* bound: length of the data that are compressed

CR == 13
LF == 10
BinOn == <<-1>>
BinOff == <<-2>>
CompReply == <<CR, 47, CR>>  \* the answer to //COMP, in short

VARIABLES
  wqueue, \* [list, tail, length]: tail is "list" or "freed"
  alarm,  \* SIGALRM is caught and the timer runs
  last_ended_with_CR, bin, huffman,
  child,  \* the program is alive
  state,  \* "run", "done" or "crash"
  out,    \* history: bytes sent
  fed,    \* history: bytes as they were given to write_ax25
  reads, busy, commands, dropped, \* dropped: a buffer was appended to one that was freed
  word    \* the data of a packet, for the compression alone
vars == <<wqueue, alarm, last_ended_with_CR, bin, huffman, child, state, out, fed, reads, busy,
          commands, dropped>>

Init ==
  /\ wqueue = [list |-> <<>>, tail |-> "list", length |-> 0]
  /\ alarm = FALSE /\ last_ended_with_CR = FALSE /\ bin = FALSE /\ huffman = FALSE
  /\ child = TRUE /\ state = "run" /\ out = <<>> /\ fed = <<>>
  /\ reads = 0 /\ busy = 0 /\ commands = 0 /\ dropped = FALSE

-----------------------------------------------------------------------------
bufsize == IF huffman THEN HuffSize ELSE paclen

\* "recompute waitqueue": the buffers up to bufsize bytes become one.
Before(q, i) == FoldLeft(LAMBDA n, b : n + Len(b), 0, SubSeq(q.list, 1, i - 1))
Left(q) == SelectSeq([i \in DOMAIN q.list |->
                        SubSeq(q.list[i], 1 + Max({0, Min({Len(q.list[i]), bufsize - Before(q, i)})}), Len(q.list[i]))],
                     LAMBDA b : b # <<>>)
Joined(q, all, left) == [q EXCEPT !.list = <<SubSeq(all, 1, Min({bufsize, Len(all)}))>> \o left,
                                  !.tail = IF left = <<>> THEN "freed" ELSE @]
Merged(q) ==
  IF Len(q.list) > 1 /\ Len(q.list[1]) < bufsize
  THEN UNION {{Joined(q, all, left) : all \in {FlattenSeq(q.list)}} : left \in {Left(q)}} ELSE {q}

\* Mutant: what is left of a buffer after a packet is thrown away.
WrittenCut(q) == [list |-> Tail(q.list), tail |-> q.tail, length |-> q.length - Len(q.list[1])]

\* A packet has been written.
Written(q) ==
  LET n == Min({bufsize, Len(q.list[1])})
      rest == SubSeq(q.list[1], n + 1, Len(q.list[1]))
      list == IF rest # <<>> THEN <<rest>> \o Tail(q.list) ELSE Tail(q.list)
  IN [list |-> list, tail |-> IF list = <<>> THEN "list" ELSE q.tail, length |-> q.length - n]

\* kick_wqueue: one turn of its loop, with the queue merged to m; a write
\* succeeds or fails with EAGAIN.
Sent(r, m, w) == [r EXCEPT !.q = w, !.out = @ \o SubSeq(m.list[1], 1, Min({bufsize, Len(m.list[1])})),
                           !.end = w.list = <<>> \/ w.length < paclen,
                           !.alarm = w.list # <<>> /\ w.length < paclen]
Turn(r, m, succeeds) ==
  IF succeeds THEN {Sent(r, m, w) : w \in {Written(m)}}
  ELSE {[r EXCEPT !.q = m, !.end = TRUE, !.alarm = TRUE, !.failed = TRUE]}

\* All of it, in which so many writes succeed: the results [q, out, alarm,
\* failed] in a set, empty if it crashes.
Kick(q0, succeed) ==
  LET turn[k \in Nat] ==
        IF k = 0 THEN {[q |-> q0, out |-> <<>>, end |-> FALSE, alarm |-> FALSE, failed |-> FALSE]}
        ELSE UNION {
          IF r.end THEN {r}
          ELSE IF r.q.length = 0 THEN {[r EXCEPT !.end = TRUE]}
          ELSE IF r.q.list = <<>> THEN {}
          ELSE UNION {Turn(r, m, k <= succeed) : m \in Merged(r.q)}
          : r \in turn[k - 1]}
  IN turn[q0.length + 1]

\* The state after a kick; fedNow is what the caller has put into the queue.
Kicked(q, fedNow, lost) ==
  \/ \E succeed \in {q.length + 1} \cup (IF busy < MaxBusy THEN 0..(q.length \div paclen) ELSE {}) :
       \E r \in Kick(q, succeed) :
         /\ wqueue' = r.q /\ out' = out \o r.out /\ alarm' = r.alarm
         /\ busy' = busy + (IF r.failed THEN 1 ELSE 0)
         /\ fed' = fed \o fedNow /\ dropped' = lost /\ UNCHANGED state
  \/ /\ Kick(q, q.length + 1) = {} /\ state' = "crash"
     /\ UNCHANGED <<wqueue, out, alarm, busy, fed, dropped>>

\* Mutant: a line feed after a carriage return at the end of the last read stays.
OmittedNone(s) == s
Omitted(s) == IF last_ended_with_CR /\ s[1] = LF THEN Tail(s) ELSE s

\* The pairs inside one chunk.
OneEnd(s) ==
  LET kept == SelectSeq([i \in DOMAIN s |-> i], LAMBDA i : ~(i > 1 /\ s[i] = LF /\ s[i - 1] = CR))
  IN [k \in DOMAIN kept |-> s[kept[k]]]

\* A buffer at the end of the list.  Behind a freed one nobody finds it.
Appended(data) ==
  IF wqueue.list = <<>> THEN [list |-> <<data>>, tail |-> "list", length |-> Len(data)]
  ELSE [wqueue EXCEPT !.list = IF wqueue.tail = "list" THEN Append(@, data) ELSE @,
                      !.length = @ + Len(data)]

\* write_ax25
write_ax25(s, kick, on) ==
  IF s = BinOn /\ ~bin
  THEN bin' = TRUE /\ Kicked(wqueue, s, dropped) /\ UNCHANGED last_ended_with_CR
  ELSE IF s = BinOff /\ bin
  THEN bin' = FALSE /\ last_ended_with_CR' = FALSE /\ Kicked(wqueue, s, dropped)
  ELSE LET data == IF on THEN s ELSE OneEnd(Omitted(s))
           q == Appended(data)
           lost == dropped \/ (wqueue.list # <<>> /\ wqueue.tail = "freed")
       IN /\ bin' = bin
          /\ last_ended_with_CR' = IF on THEN last_ended_with_CR ELSE data # <<>> /\ Last(data) = CR
          /\ IF data = <<>>
             THEN IF wqueue.list # <<>> THEN Kicked(wqueue, s, dropped)
                  ELSE /\ alarm' = FALSE /\ fed' = fed \o s
                       /\ UNCHANGED <<wqueue, out, busy, dropped, state>>
             ELSE IF q.length > QueueFactor * paclen \/ kick \/ on
             THEN Kicked(q, s, lost)
             ELSE /\ wqueue' = q /\ alarm' = TRUE /\ fed' = fed \o s /\ dropped' = lost
                  /\ UNCHANGED <<out, busy, state>>

-----------------------------------------------------------------------------
Running == state = "run"

\* The program has written something.
ReadMaster(s) ==
  /\ Running /\ child /\ wqueue.length <= QueueFactor * paclen
  /\ reads < MaxOutput /\ reads' = reads + 1
  /\ write_ax25(s, FALSE, bin)
  /\ UNCHANGED <<huffman, child, commands>>

\* read_ax25: the peer turns compression on or off; anything else that it
\* sends goes to the program.
Compress ==
  /\ Running /\ ~bin /\ commands < MaxCommands /\ commands' = commands + 1
  /\ write_ax25(CompReply, TRUE, FALSE)
  /\ huffman' = ~huffman
  /\ UNCHANGED <<child, reads>>

\* kick_wqueue as the handler of SIGALRM.
Alarm == /\ Running /\ alarm /\ Kicked(wqueue, <<>>, dropped)
         /\ UNCHANGED <<last_ended_with_CR, bin, huffman, child, reads, commands>>

ChildEnds == /\ Running /\ child /\ child' = FALSE
             /\ UNCHANGED <<wqueue, alarm, last_ended_with_CR, bin, huffman, state, out, fed, reads,
                            busy, commands, dropped>>

\* The pty is closed; the last packets get their chance.
EndOfOutput ==
  /\ Running /\ ~child /\ wqueue.length = 0
  /\ IF huffman THEN \E q \in {Appended(CompReply)} : \E r \in Kick(q, q.length + 1) :
                       out' = out \o r.out /\ fed' = fed \o CompReply
     ELSE UNCHANGED <<out, fed>>
  /\ state' = "done"
  /\ UNCHANGED <<wqueue, alarm, last_ended_with_CR, bin, huffman, child, reads, busy, commands, dropped>>

\* The connection has died: the program gets SIGHUP.
PeerGone == /\ Running /\ state' = "done" /\ child' = FALSE
            /\ UNCHANGED <<wqueue, alarm, last_ended_with_CR, bin, huffman, out, fed, reads, busy,
                           commands, dropped>>

Next == \/ \E s \in Output : ReadMaster(s)
        \/ Compress \/ Alarm \/ ChildEnds \/ EndOfOutput \/ PeerGone

\* Timers go off, and the main loop sees a pty that is closed.
Fairness == WF_vars(Alarm) /\ WF_vars(EndOfOutput)
Spec == Init /\ [][Next]_vars /\ Fairness

-----------------------------------------------------------------------------
\* The stream with one end of line for each pair, outside //BIN.
Byte(x, i) ==
  LET b == fed[i]
  IN CASE b = BinOn[1] /\ ~x.bin -> [x EXCEPT !.bin = TRUE]
       [] b = BinOff[1] /\ x.bin -> [x EXCEPT !.bin = FALSE]
       [] b = LF /\ i > 1 /\ fed[Max({1, i - 1})] = CR /\ ~x.bin -> x
       [] OTHER -> [x EXCEPT !.bytes = Append(@, b)]
Converted ==
  LET after[i \in 0..Len(fed)] ==
        IF i = 0 THEN {[bin |-> FALSE, bytes |-> <<>>]} ELSE {Byte(x, i) : x \in after[i - 1]}
  IN (CHOOSE x \in after[Len(fed)] : TRUE).bytes

\* axspawn.c:731-957: what was sent and what waits are what was to be sent, in
\* order and with one end of line for each pair, however it was read, merged
\* and cut; and nothing waits without an alarm.  After a buffer was lost
\* behind a freed one there is no order to keep.
QueueExact ==
  ~dropped /\ Running =>
    /\ out \o FlattenSeq(wqueue.list) = Converted
    /\ wqueue.length = Len(FlattenSeq(wqueue.list))
    /\ wqueue.list # <<>> => alarm

\* axspawn.c:1935: a session whose program has ended sends the last packets
\* and ends, unless one was lost.
Ending == ~child
Finished == state = "done" \/ dropped
LastPacketSent == Ending ~> Finished

-----------------------------------------------------------------------------
(* The compression of packets (//COMP): encstathuf and decstathuf, with the *)
(* tables as a prefix code.  Here the state is the data of a packet.        *)

Symbols == DOMAIN Code
HuffInit == word = <<>>
Type(b) == Len(word) < MaxWord /\ word' = Append(word, b)
HuffNext == \E b \in Symbols : Type(b)

Bits(w) == FlattenSeq([i \in DOMAIN w |-> Code[w[i]]])

\* Mutant: the byte that is not full is forgotten.
PackedFull(bits) == [k \in 1..(Len(bits) \div 8) |-> [j \in 1..8 |-> bits[8 * (k - 1) + j]]]

\* The bits in bytes, each the sequence of its bits; the last one is filled up.
Packed(bits) ==
  [k \in 1..((Len(bits) + 7) \div 8) |->
     [j \in 1..8 |-> IF 8 * (k - 1) + j <= Len(bits) THEN bits[8 * (k - 1) + j] ELSE 0]]

\* "coding uneffective": as many bytes as there are data are full.
Ineffective(w) == Len(Bits(w)) \div 8 >= Len(w)

\* encstathuf: the length byte and what follows it.
encstathuf(w) ==
  IF Ineffective(w) THEN [marker |-> 255, copy |-> w, bytes |-> <<>>]
  ELSE [marker |-> Len(w) - 1, copy |-> <<>>, bytes |-> Packed(Bits(w))]

\* A walk down the tree: a leaf gives its symbol before the next bit is used.
\* out is what was decoded when all length symbols are there.
Step(s, bit) ==
  LET leaf == {b \in Symbols : Code[b] = s.node}
      root == [node |-> <<>>, out |-> IF leaf = {} THEN s.out ELSE s.out \o <<CHOOSE b \in leaf : TRUE>>]
      at == IF leaf = {} THEN s ELSE root
  IN IF Len(at.out) >= s.length \/ Len(at.out) >= DestSize THEN [s EXCEPT !.out = at.out, !.end = TRUE]
     ELSE [s EXCEPT !.out = at.out, !.node = Append(at.node, bit)]

\* decstathuf, which looks at one byte more than it was given to find the
\* last leaf: the results in a set, empty if it failed.
decstathuf(e, beyond) ==
  IF e.marker = 255 THEN {SubSeq(e.copy, 1, Min({Len(e.copy), DestSize}))}
  ELSE UNION {
         LET after[i \in 0..Len(bits)] ==
               IF i = 0 THEN {[node |-> <<>>, out |-> <<>>, length |-> e.marker + 1, end |-> FALSE]}
               ELSE {IF s.end THEN s ELSE Step(s, bits[i]) : s \in after[i - 1]}
         IN {s.out : s \in {x \in after[Len(bits)] : x.end}}
       : bits \in {FlattenSeq(e.bytes) \o beyond}}

-----------------------------------------------------------------------------
\* axspawn.c:493-640: what the peer decodes is what was encoded, for data that
\* the code makes shorter, longer, or as long as before, and whatever stands
\* behind the packet in the buffer.
RoundTrip ==
  word # <<>> => \A first \in {0, 1} : \E e \in {encstathuf(word)} :
    decstathuf(e, <<first>> \o [i \in 1..7 |-> 1 - first]) = {word}
=============================================================================
