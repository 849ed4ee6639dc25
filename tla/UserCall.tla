------------------------------ MODULE UserCall ------------------------------
(***************************************************************************)
(* ax25_call, netrom_call, rose_call and tcp_call: a connection for the    *)
(* user of standard input and output.  Data are bytes of a stream; what    *)
(* one write takes is a frame.                                             *)
(***************************************************************************)
EXTENDS Integers, Sequences, FiniteSets, FiniteSetsExt, SequencesExt

CONSTANTS
  Programs,                \* the programs that are checked
  paclen_in, paclen_out,   \* the frames to the user and to the far end
  connect_seconds,         \* -T; 0: the protocol decides
  BUFLEN,                  \* what one read takes
  MaxData                  \* bound: bytes each end sends

\* What each program prepares, in order, before it connects; the errors of
\* connect it has a text of its own for; its name for the line end.
ax25_call == [steps |-> <<"options", "arguments", "ports", "port", "port call", "my call", "destination", "socket", "bind">>,
              named |-> {"ECONNREFUSED", "ENETUNREACH", "EINTR"}]
netrom_call == [steps |-> <<"options", "arguments", "ports", "port", "port call", "my call", "destination", "socket", "bind">>,
                named |-> {"ECONNREFUSED", "ENETUNREACH", "EINTR"}]
rose_call == [steps |-> <<"options", "arguments", "ports", "port", "port address", "my call", "destination", "address",
                          "socket", "bind">>,
              named |-> {"ECONNREFUSED", "ENETUNREACH", "EINTR"}]
tcp_call == [steps |-> <<"options", "arguments", "socket", "host", "service">>, named |-> {"EINTR"}]
Of(p) == CASE p = "ax25_call" -> ax25_call [] p = "netrom_call" -> netrom_call
           [] p = "rose_call" -> rose_call [] OTHER -> tcp_call

VARIABLES
  program, pc,
  step,              \* steps prepared
  armed, waited,     \* the alarm; seconds connect has taken
  said,              \* history: messages to the user
  far, user,         \* ends: [in, sent, eof], bytes that have come from it
  toUser, toFar,     \* history: frames written
  pending,           \* what user_write still has to write: [to, left, frame]
  set,               \* descriptors select found ready
  why                \* the end that closed
vars == <<program, pc, step, armed, waited, said, far, user, toUser, toFar, pending, set, why>>
conversation == <<far, user, toUser, toFar, pending, set, why>>

NewEnd == [in |-> <<>>, sent |-> 0, eof |-> FALSE]
Nothing == [to |-> "-", left |-> <<>>, frame |-> 0]
Init == /\ program \in Programs /\ pc = "prepare" /\ step = 0 /\ armed = FALSE /\ waited = 0 /\ said = <<>>
        /\ far = NewEnd /\ user = NewEnd /\ toUser = <<>> /\ toFar = <<>> /\ pending = Nothing
        /\ set = {} /\ why = "-"

-----------------------------------------------------------------------------
(* The connection *)

Prepare == /\ pc = "prepare" /\ step < Len(Of(program).steps) /\ step' = step + 1
           /\ UNCHANGED <<program, pc, armed, waited, said, conversation>>
\* err(): the message, and the end.
PrepareFails == /\ pc = "prepare" /\ step < Len(Of(program).steps) /\ pc' = "done"
                /\ said' = Append(said, "error")
                /\ UNCHANGED <<program, step, armed, waited, conversation>>
\* connect_timeout_handler_init, and connect.
Connect == /\ pc = "prepare" /\ step = Len(Of(program).steps) /\ pc' = "connect"
           /\ said' = Append(said, "connecting") /\ armed' = (connect_seconds > 0)
           /\ UNCHANGED <<program, step, waited, conversation>>

Second == /\ pc = "connect" /\ waited' = Min({waited + 1, connect_seconds + 1})
          /\ armed => waited < connect_seconds
          /\ UNCHANGED <<program, pc, step, armed, said, conversation>>
\* Mutant: the handler returns, and connect is restarted.
TimedOutRestart == pc' = pc /\ armed' = FALSE /\ UNCHANGED said
\* alarm_handler: the message, and the end of the process.
TimedOut == pc' = "done" /\ armed' = FALSE /\ said' = Append(said, "timed out")
Alarm == /\ pc \in {"connect", "returned"} /\ armed /\ waited = connect_seconds /\ TimedOut
         /\ UNCHANGED <<program, step, waited, conversation>>

\* connect returns; the alarm may still come before it is cancelled.
Answered == /\ pc = "connect" /\ pc' = "returned"
            /\ UNCHANGED <<program, step, armed, waited, said, conversation>>
Connected == /\ pc = "returned" /\ pc' = "select" /\ armed' = FALSE /\ said' = Append(said, "connected")
             /\ UNCHANGED <<program, step, waited, conversation>>
Refused(errno) == /\ pc = "connect" /\ pc' = "done" /\ armed' = FALSE
                  /\ said' = Append(said, IF errno \in Of(program).named THEN errno ELSE "error")
                  /\ UNCHANGED <<program, step, waited, conversation>>

-----------------------------------------------------------------------------
(* select_loop *)

Select == /\ pc = "select" /\ pc' = "copy"
          /\ set' = {e \in {"far", "user"} : LET x == IF e = "far" THEN far ELSE user IN x.in # <<>> \/ x.eof}
          /\ set' # {}
          /\ UNCHANGED <<program, step, armed, waited, said, far, user, toUser, toFar, pending, why>>

\* The far end is served before the user.
Serving == IF "far" \in set THEN "far" ELSE "user"
EndOf(e) == IF e = "far" THEN far ELSE user
\* flush_output and write_frame: a write takes a frame or a part of it, and
\* what is left of a frame goes before the next; without room it waits.
Paclen(to) == IF to = "user" THEN paclen_in ELSE paclen_out
Framed(to, left) == IF left = <<>> THEN Nothing
                    ELSE [to |-> to, left |-> left, frame |-> Min({Paclen(to), Len(left)})]
\* Reading goes on until there is nothing, or the end.
Copy ==
  /\ pc = "copy" /\ pending = Nothing
  /\ \E e \in {Serving} :
       IF EndOf(e).in # <<>>
       THEN /\ pending' = Framed(IF e = "far" THEN "user" ELSE "far", SubSeq(EndOf(e).in, 1, Min({BUFLEN, Len(EndOf(e).in)})))
            /\ IF e = "far" THEN far' = [far EXCEPT !.in = SubSeq(@, BUFLEN + 1, Len(@))] /\ UNCHANGED user
               ELSE user' = [user EXCEPT !.in = SubSeq(@, BUFLEN + 1, Len(@))] /\ UNCHANGED far
            /\ UNCHANGED <<set, pc, why, said>>
       ELSE /\ set' = set \ {e}
            /\ IF EndOf(e).eof THEN pc' = "done" /\ why' = e /\ said' = Append(said, "disconnected")
               ELSE pc' = (IF set = {e} THEN "select" ELSE "copy") /\ UNCHANGED <<why, said>>
            /\ UNCHANGED <<pending, far, user>>
  /\ UNCHANGED <<program, step, armed, waited, toUser, toFar>>

\* Mutant: the rest of a frame is not written.
RestSkipped(n) == Framed(pending.to, SubSeq(pending.left, pending.frame + 1, Len(pending.left)))
Rest(n) == IF n < pending.frame
           THEN [pending EXCEPT !.left = SubSeq(@, n + 1, Len(@)), !.frame = @ - n]
           ELSE Framed(pending.to, SubSeq(pending.left, n + 1, Len(pending.left)))
Write(n) ==
  /\ pc = "copy" /\ pending # Nothing /\ n \in 1..pending.frame
  /\ IF pending.to = "user" THEN toUser' = Append(toUser, SubSeq(pending.left, 1, n)) /\ UNCHANGED toFar
     ELSE toFar' = Append(toFar, SubSeq(pending.left, 1, n)) /\ UNCHANGED toUser
  /\ pending' = Rest(n)
  /\ UNCHANGED <<program, pc, step, armed, waited, said, far, user, set, why>>
WriteFails == /\ pc = "copy" /\ pending # Nothing /\ pc' = "done" /\ why' = "error"
              /\ said' = Append(said, "disconnected")
              /\ UNCHANGED <<program, step, armed, waited, far, user, toUser, toFar, pending, set>>

-----------------------------------------------------------------------------
Sends(e) == [e EXCEPT !.in = Append(@, e.sent + 1), !.sent = @ + 1]
FarSends == /\ pc \in {"select", "copy"} /\ ~far.eof /\ far.sent < MaxData /\ far' = Sends(far)
            /\ UNCHANGED <<program, pc, step, armed, waited, said, user, toUser, toFar, pending, set, why>>
UserSends == /\ ~user.eof /\ user.sent < MaxData /\ user' = Sends(user)
             /\ UNCHANGED <<program, pc, step, armed, waited, said, far, toUser, toFar, pending, set, why>>
FarCloses == /\ pc \in {"select", "copy"} /\ ~far.eof /\ far' = [far EXCEPT !.eof = TRUE]
             /\ UNCHANGED <<program, pc, step, armed, waited, said, user, toUser, toFar, pending, set, why>>
UserCloses == /\ ~user.eof /\ user' = [user EXCEPT !.eof = TRUE]
              /\ UNCHANGED <<program, pc, step, armed, waited, said, far, toUser, toFar, pending, set, why>>

Next == \/ Prepare \/ PrepareFails \/ Connect \/ Second \/ Alarm \/ Answered \/ Connected
        \/ \E errno \in {"ECONNREFUSED", "ENETUNREACH", "EINTR", "other"} : Refused(errno)
        \/ Select \/ Copy \/ WriteFails
        \/ \E n \in 1..BUFLEN : Write(n)
        \/ FarSends \/ UserSends \/ FarCloses \/ UserCloses

-----------------------------------------------------------------------------
UpTo(n) == [i \in 1..n |-> i]
Stream(frames) == FlattenSeq(frames)
InFlight(to) == IF pending.to = to THEN pending.left ELSE <<>>

\* user_io.c:144: however writes are cut, each end gets the bytes of the other
\* in order, in frames that fit it; when the far end has closed the user has
\* all it sent.
Conveyed ==
  /\ Stream(toUser) \o InFlight("user") \o far.in = UpTo(far.sent)
  /\ Stream(toFar) \o InFlight("far") \o user.in = UpTo(user.sent)
  /\ \A i \in DOMAIN toUser : Len(toUser[i]) <= paclen_in
  /\ \A i \in DOMAIN toFar : Len(toFar[i]) <= paclen_out
  /\ why = "far" => Len(Stream(toUser)) = far.sent

\* user_io.c:87: with -T an attempt to connect takes no longer, and one that
\* was given up is over, though the alarm may come after connect has returned.
InTime == /\ (pc = "connect" /\ connect_seconds > 0) => waited <= connect_seconds
          /\ Contains(said, "timed out") => pc = "done" /\ toUser = <<>> /\ toFar = <<>> /\ ~Contains(said, "connected")
=============================================================================
