------------------------------ MODULE Ax25mond ------------------------------
(***************************************************************************)
(* ax25mond: the frames of two monitor sockets, received ones and all, to  *)
(* the clients of its RX and RXTX sockets.                                 *)
(***************************************************************************)
EXTENDS Integers, Sequences, FiniteSets, FiniteSetsExt, SequencesExt

CONSTANTS
  Lines,         \* the configuration: [mode, sound, bound]
  MAX_SOCKETS, MAX_CONNECTS,
  MaxClients, MaxFrames  \* bounds

RX == 0
RXTX == 1

VARIABLES
  sock_monmode,  \* the modes of the sockets
  conn_list, conn_monmode, conn_num,
  backlog,       \* per socket, the clients that wait for accept
  monrx, monrxtx,  \* frames at the monitor sockets
  pc, end,
  gone,          \* clients that have left; a send to them fails
  got,           \* history: frames by client
  due,           \* history: by client, frames of its socket's mode since it was accepted
  refused,
  clients, frames \* counters
vars == <<sock_monmode, conn_list, conn_monmode, conn_num, backlog, monrx, monrxtx, pc, end, gone, got, due,
          refused, clients, frames>>

-----------------------------------------------------------------------------
\* add_socket for each line: one that fails takes no place.
Socks(n) ==
  FoldLeft(LAMBDA s, l : IF Len(s) >= MAX_SOCKETS \/ ~l.sound \/ ~l.bound \/ l.mode \notin {RX, RXTX}
                         THEN s ELSE Append(s, l.mode),
           <<>>, SubSeq(Lines, 1, n))

Init == /\ sock_monmode = Socks(Len(Lines)) /\ sock_monmode # <<>>
        /\ conn_list = [i \in 1..MAX_CONNECTS |-> 0] /\ conn_monmode = [i \in 1..MAX_CONNECTS |-> 0]
        /\ conn_num = 0 /\ backlog = [i \in DOMAIN sock_monmode |-> <<>>]
        /\ monrx = <<>> /\ monrxtx = <<>> /\ pc = "accept" /\ end = FALSE
        /\ gone = {} /\ got = <<>> /\ due = <<>> /\ refused = {} /\ clients = 0 /\ frames = 0

\* The clients of all sockets that have one waiting are accepted; x is
\* [list, mode, num, refused].
Accepted(i, x) ==
  IF backlog[i] = <<>> THEN x
  ELSE IF x.num >= MAX_CONNECTS THEN [x EXCEPT !.refused = @ \cup {Head(backlog[i])}]
  ELSE [x EXCEPT !.list[x.num + 1] = Head(backlog[i]), !.mode[x.num + 1] = sock_monmode[i], !.num = @ + 1]
Accepting ==
  /\ pc = "accept" /\ ~end /\ pc' = "rx"
  /\ \E x \in {FoldLeft(LAMBDA y, i : Accepted(i, y),
                        [list |-> conn_list, mode |-> conn_monmode, num |-> conn_num, refused |-> refused],
                        [i \in DOMAIN backlog |-> i])} :
       conn_list' = x.list /\ conn_monmode' = x.mode /\ conn_num' = x.num /\ refused' = x.refused
  /\ backlog' = [i \in DOMAIN backlog |-> IF backlog[i] = <<>> THEN <<>> ELSE Tail(backlog[i])]
  /\ UNCHANGED <<sock_monmode, monrx, monrxtx, end, gone, got, due, clients, frames>>

\* Mutant: the number of clients stays when one has gone.
RemovedCounted(x, i) == [x EXCEPT !.list[i] = x.list[x.num]]
\* A client whose send failed: the last one takes its place, not its mode.
Removed(x, i) == [x EXCEPT !.list[i] = x.list[x.num], !.num = @ - 1]

\* Frame f to the clients of a mode; x is [list, num, got].
SendAt(x, i, mode, f) ==
  IF i > x.num \/ conn_monmode[i] # mode THEN x
  ELSE IF x.list[i] \in gone THEN Removed(x, i)
  ELSE [x EXCEPT !.got[x.list[i]] = Append(@, f)]
Send(mode, f) ==
  /\ \E x \in {FoldLeft(LAMBDA y, i : SendAt(y, i, mode, f), [list |-> conn_list, num |-> conn_num, got |-> got],
                        [i \in 1..MAX_CONNECTS |-> i])} :
       conn_list' = x.list /\ conn_num' = x.num /\ got' = x.got
  /\ due' = [c \in DOMAIN due |->
               IF due[c].mode = mode /\ \E i \in 1..conn_num : conn_list[i] = c
               THEN [due[c] EXCEPT !.frames = Append(@, f)] ELSE due[c]]

Received == /\ pc = "rx" /\ pc' = "rxtx"
            /\ IF monrx = <<>> THEN UNCHANGED <<monrx, conn_list, conn_num, got, due>>
               ELSE monrx' = Tail(monrx) /\ Send(RX, Head(monrx))
            /\ UNCHANGED <<sock_monmode, conn_monmode, backlog, monrxtx, end, gone, refused, clients, frames>>
\* Frames of interfaces that are not AX.25 are skipped.
All == /\ pc = "rxtx" /\ pc' = "accept"
       /\ IF monrxtx = <<>> THEN UNCHANGED <<monrxtx, conn_list, conn_num, got, due>>
          ELSE /\ monrxtx' = Tail(monrxtx)
               /\ IF Head(monrxtx).ax25 THEN Send(RXTX, Head(monrxtx).n)
                  ELSE UNCHANGED <<conn_list, conn_num, got, due>>
       /\ UNCHANGED <<sock_monmode, conn_monmode, backlog, monrx, end, gone, refused, clients, frames>>

Quit == /\ ~end /\ end' = TRUE
        /\ UNCHANGED <<sock_monmode, conn_list, conn_monmode, conn_num, backlog, monrx, monrxtx, pc, gone, got,
                       due, refused, clients, frames>>

Connects(i) == /\ clients < MaxClients /\ clients' = clients + 1
               /\ backlog' = [backlog EXCEPT ![i] = Append(@, clients')]
               /\ got' = Append(got, <<>>) /\ due' = Append(due, [mode |-> sock_monmode[i], frames |-> <<>>])
               /\ UNCHANGED <<sock_monmode, conn_list, conn_monmode, conn_num, monrx, monrxtx, pc, end, gone, refused, frames>>
Leaves(c) == /\ c \notin gone /\ gone' = gone \cup {c}
             /\ UNCHANGED <<sock_monmode, conn_list, conn_monmode, conn_num, backlog, monrx, monrxtx, pc, end, got,
                            due, refused, clients, frames>>
\* A frame is received or sent, or is no AX.25 at all.
Frame(kind) == /\ frames < MaxFrames /\ frames' = frames + 1
               /\ monrxtx' = Append(monrxtx, [n |-> frames', ax25 |-> kind # "other"])
               /\ monrx' = IF kind = "received" THEN Append(monrx, frames') ELSE monrx
               /\ UNCHANGED <<sock_monmode, conn_list, conn_monmode, conn_num, backlog, pc, end, gone, got, due, refused, clients>>

Next == \/ Accepting \/ Received \/ All \/ Quit
        \/ \E i \in DOMAIN backlog : Connects(i)
        \/ \E c \in 1..clients : Leaves(c)
        \/ \E kind \in {"received", "sent", "other"} : Frame(kind)

-----------------------------------------------------------------------------
Conns == {conn_list[i] : i \in 1..conn_num}

\* ax25mond.c:386: moving the last client into the place of one that has left
\* loses and doubles nobody.
ClientsKept ==
  /\ Cardinality(Conns) = conn_num
  /\ \A c \in 1..clients : \/ c \in Conns \/ c \in gone \/ c \in refused
                           \/ \E i \in DOMAIN backlog : Contains(backlog[i], c)

\* ax25mond.c:377: as long as nobody leaves each client has the frames of the
\* mode of its socket, all of them since it was accepted.
Complete == gone = {} => \A c \in Conns : got[c] = due[c].frames
=============================================================================
