------------------------------ MODULE Ax25ipdIo ------------------------------
(***************************************************************************)
(* The main loop of ax25ipd (ax25apps/ax25ipd/io.c and check_signals of    *)
(* ax25ipd.c): signals let in by an empty pselect, the beacon, the wait    *)
(* for input, and the output loops that retry a send that cannot go        *)
(* through.  What the frame handlers decide is left to Ax25ipdProcess:     *)
(* here a read makes any number of sends up to MaxSends.  The environment  *)
(* chooses what is readable, what every system call returns and when       *)
(* signals arrive.                                                         *)
(***************************************************************************)
EXTENDS Naturals

CONSTANTS
  Socks,         \* the open sockets: "udp" (udp_mode), "ip" (ip_mode)
  BpqMode,       \* ttyfd_bpq: the tty is an Ethernet tap device
  digi, bc_every, bc_interval,  \* configuration
  SEND_RETRIES,
  MaxSends,      \* bound: datagrams one KISS frame makes (broadcast)
  MaxBytes       \* bound: bytes of a KISS frame

Signals == {"HUP", "USR1", "TERM"}
Fds == {"tty"} \cup Socks

VARIABLES
  pc,       \* "top", "beacon", "wait", "tty", "udp", "ip", "send", "exited"
  pending,  \* signals blocked since they arrived
  got,      \* got_hup, got_usr1, got_term
  ready,    \* descriptors the last pselect found readable
  out,      \* sends of the handler under way: [fd, frames, bytes, back]
  retries,
  bcage,    \* seconds since last_bc_time, not counted past bc_interval + 1
  reports,  \* history: was the last SIGUSR1 answered
  event     \* history: what the last system call returned

vars == <<pc, pending, got, ready, out, retries, bcage, reports, event>>

NoSend == [fd |-> "none", frames |-> 0, bytes |-> 0, back |-> "top"]
Locations == {"top", "beacon", "wait", "tty", "udp", "ip", "send", "exited"}

Init ==
  /\ pc = "top" /\ pending = {} /\ got = {} /\ ready = {}
  /\ out = NoSend /\ retries = 0
  /\ bcage = bc_interval + 1      \* last_bc_time = 0: identify at once
  /\ reports = TRUE /\ event = "none"

-----------------------------------------------------------------------------
Signal(s) ==
  /\ pc # "exited"
  /\ pending' = pending \cup {s}
  /\ reports' = IF s = "USR1" THEN FALSE ELSE reports
  /\ UNCHANGED <<pc, got, ready, out, retries, bcage, event>>

Tick ==
  /\ bcage <= bc_interval
  /\ bcage' = bcage + 1
  /\ UNCHANGED <<pc, pending, got, ready, out, retries, reports, event>>

\* Mutant: no empty pselect.
NoEmptySelect == got

\* The empty pselect lets the handlers of the pending signals run.
EmptySelect == got \cup pending

\* check_signals: SIGHUP is ignored, SIGUSR1 reports, SIGTERM and SIGINT end.
CheckSignals ==
  LET g == EmptySelect
  IN  /\ pc = "top"
      /\ pending' = pending \ g
      /\ reports' = (reports \/ "USR1" \in g)
      /\ got' = {}
      /\ pc' = IF "TERM" \in g THEN "exited" ELSE "beacon"
      /\ event' = "none"
      /\ UNCHANGED <<ready, out, retries, bcage>>

\* Start a handler's sends; with none to make, go on.
StartSends(fd, n, back) ==
  IF n = 0
    THEN pc' = back /\ UNCHANGED <<out, retries>>
    ELSE /\ pc' = "send"
         /\ out' = [fd |-> fd, frames |-> n, bytes |-> MaxBytes, back |-> back]
         /\ retries' = 0

\* send_kiss goes through send_tty, send_bpq is one write and no retry.
StartTty(n, back) ==
  IF BpqMode THEN pc' = back /\ UNCHANGED <<out, retries>> ELSE StartSends("tty", n, back)

BeaconDue == bc_interval > 0 /\ digi /\ bcage > bc_interval

Beacon ==
  /\ pc = "beacon"
  /\ IF BeaconDue
       THEN bcage' = 0 /\ StartTty(1, "wait") /\ event' = "beacon"
       ELSE pc' = "wait" /\ UNCHANGED <<bcage, out, retries, event>>
  /\ UNCHANGED <<pending, got, ready, reports>>

\* pselect: readable descriptors make it return at once, without delivering
\* a signal; otherwise a pending signal interrupts it, or it times out.
Wait(r) ==
  /\ pc = "wait"
  /\ ready' = r
  /\ event' = "none"
  /\ IF r # {} THEN pc' = "tty" /\ UNCHANGED <<got, pending>>
     ELSE pc' = "top" /\ got' = got \cup pending /\ pending' = {}
  /\ UNCHANGED <<out, retries, bcage, reports>>

Skip(fd, next) ==
  /\ pc = fd /\ fd \notin ready
  /\ pc' = next
  /\ UNCHANGED <<pending, got, ready, out, retries, bcage, reports, event>>

\* Only an unexpected errno ends the daemon in io_error for a read: the test
\* for end of file compares the return value, 0, with TTY_MODE.
io_error_read(n) == IF n = "fatal" THEN "exit" ELSE "no retry"

\* Mutant: any traffic puts the beacon off.
ReadTtyResets(res, n) ==
  /\ pc = "tty" /\ "tty" \in ready
  /\ event' = "none"
  /\ IF io_error_read(res) = "exit"
       THEN pc' = "exited" /\ UNCHANGED <<out, retries, bcage>>
       ELSE /\ IF res = "data" THEN \E s \in Socks : StartSends(s, n, "udp")
               ELSE pc' = "udp" /\ UNCHANGED <<out, retries>>
            /\ bcage' = 0
  /\ UNCHANGED <<pending, got, ready, reports>>

\* The tty is read: n sends follow a good read.  The tap device also yields
\* packets that are none of ours, which do not count as channel activity.
ReadTty(res, n) ==
  /\ pc = "tty" /\ "tty" \in ready
  /\ event' = IF res = "eof" THEN "tty_eof" ELSE "none"
  /\ IF io_error_read(res) = "exit"
       THEN pc' = "exited" /\ UNCHANGED <<out, retries, bcage>>
       ELSE /\ IF res = "data" THEN \E s \in Socks : StartSends(s, n, "udp")
               ELSE pc' = "udp" /\ UNCHANGED <<out, retries>>
            /\ bcage' = IF bc_every \/ res = "foreign" THEN bcage ELSE 0
  /\ UNCHANGED <<pending, got, ready, reports>>

\* A datagram makes at most one frame for the tty.
ReadSock(s, res, n) ==
  /\ pc = s /\ s \in ready
  /\ event' = "none"
  /\ LET next == IF s = "udp" THEN "ip" ELSE "top"
     IN  IF io_error_read(res) = "exit" THEN pc' = "exited" /\ UNCHANGED <<out, retries>>
         ELSE IF res = "data" THEN StartTty(n, next)
         ELSE pc' = next /\ UNCHANGED <<out, retries>>
  /\ UNCHANGED <<pending, got, ready, bcage, reports>>

-----------------------------------------------------------------------------
(* send_ip and send_tty *)

\* The frame under way is done with, sent or dropped: on to the next.
FrameDone ==
  IF out.frames > 1
    THEN /\ out' = [out EXCEPT !.frames = @ - 1, !.bytes = MaxBytes]
         /\ pc' = pc
    ELSE out' = NoSend /\ pc' = out.back

\* A datagram is accepted or dropped as a whole, a tty takes some bytes.
SendAccepted(n) ==
  /\ pc = "send"
  /\ retries' = 0
  /\ event' = "none"
  /\ IF out.fd = "tty" /\ n < out.bytes
       THEN out' = [out EXCEPT !.bytes = @ - n] /\ pc' = pc
       ELSE FrameDone
  /\ UNCHANGED <<pending, got, ready, bcage, reports>>

\* Mutants: one retry too many; retries for ever.
SendBusyLate ==
  /\ pc = "send"
  /\ event' = "none"
  /\ IF retries > SEND_RETRIES
       THEN FrameDone /\ retries' = 0
       ELSE retries' = retries + 1 /\ UNCHANGED <<out, pc>>
  /\ UNCHANGED <<pending, got, ready, bcage, reports>>

SendBusyForever ==
  /\ pc = "send"
  /\ event' = "none"
  /\ retries' = (retries + 1) % (SEND_RETRIES + 1)
  /\ UNCHANGED <<out, pc, pending, got, ready, bcage, reports>>

\* EAGAIN, ENOBUFS, EINTR: io_error sleeps and asks for a retry.
SendBusy ==
  /\ pc = "send"
  /\ event' = "none"
  /\ IF retries + 1 > SEND_RETRIES
       THEN FrameDone /\ retries' = 0
       ELSE retries' = retries + 1 /\ UNCHANGED <<out, pc>>
  /\ UNCHANGED <<pending, got, ready, bcage, reports>>

\* EMSGSIZE, ENETUNREACH and the like: a datagram is dropped.  On a tty, or
\* with another errno, or a write of 0 bytes, io_error exits.
SendRefused ==
  /\ pc = "send" /\ out.fd # "tty"
  /\ event' = "none"
  /\ FrameDone /\ retries' = 0
  /\ UNCHANGED <<pending, got, ready, bcage, reports>>

SendFatal ==
  /\ pc = "send"
  /\ pc' = "exited"
  /\ event' = "fatal"
  /\ UNCHANGED <<pending, got, ready, out, retries, bcage, reports>>

-----------------------------------------------------------------------------
ReadResults == {"data", "eof", "again", "fatal"}

MainStep ==
  \/ CheckSignals \/ Beacon
  \/ \E r \in SUBSET Fds : Wait(r)
  \/ Skip("tty", "udp") \/ Skip("udp", "ip") \/ Skip("ip", "top")
  \/ \E res \in ReadResults \cup (IF BpqMode THEN {"foreign"} ELSE {}), n \in 0..MaxSends :
       ReadTty(res, n)
  \/ \E s \in Socks, res \in ReadResults, n \in 0..1 : ReadSock(s, res, n)
  \/ \E n \in 1..MaxBytes : SendAccepted(n)
  \/ SendBusy \/ SendRefused \/ SendFatal

Exited == pc = "exited" /\ UNCHANGED vars

Next == MainStep \/ Tick \/ (\E s \in Signals : Signal(s)) \/ Exited

Spec == Init /\ [][Next]_vars

-----------------------------------------------------------------------------
(* Properties *)

\* Shape of the state: a send under way has something left to send and has
\* not been retried more than SEND_RETRIES times.
TypeOK ==
  /\ pc \in Locations
  /\ pending \subseteq Signals /\ got \subseteq Signals
  /\ ready \subseteq Fds
  /\ out \in [fd : Fds \cup {"none"}, frames : 0..(MaxSends + 1),
              bytes : 0..MaxBytes, back : Locations]
  /\ pc = "send" => out.frames > 0 /\ out.bytes > 0
  /\ retries \in 0..SEND_RETRIES
  /\ bcage \in 0..(bc_interval + 1)
  /\ reports \in BOOLEAN
  /\ event \in {"none", "beacon", "tty_eof", "fatal"}

\* SIGTERM stops the daemon whatever the line does: a tty nobody reads any
\* more and descriptors that are always readable only delay it (the comments
\* on SEND_RETRIES and on the empty pselect).
TermStops == ("TERM" \in pending) ~> (pc = "exited")

\* Every SIGUSR1 is answered, or the daemon ends.
UsrReported == ~reports ~> (reports \/ pc = "exited")

\* "beacon every": as long as the daemon runs it goes on identifying itself.
BeaconEvery == (bc_every /\ digi /\ bc_interval > 0) =>
                 []<>(event = "beacon" \/ pc = "exited")
=============================================================================
