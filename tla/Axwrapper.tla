------------------------------ MODULE Axwrapper ------------------------------
(***************************************************************************)
(* axwrapper: a program behind three pipes, its lines ended by CR for the  *)
(* user.  Bytes are CR, LF or others; the user's side is a socket.         *)
(***************************************************************************)
EXTENDS Integers, Sequences, FiniteSets, FiniteSetsExt, SequencesExt

CONSTANTS
  paclen,      \* the buffer of stdout
  BufSize,     \* what one read takes
  Typed, Output,     \* what the user types, and the program writes, at once
  MaxTyped, MaxOutput  \* bounds

CR == 13
LF == 10

VARIABLES
  pc, fdset,            \* "select", or the descriptors of fdset are served; "done"
  stdin, pipe_in,       \* from the user; to the program
  pipe_out, pipe_err,   \* from the program
  shut,                 \* ends that are closed: "stdin", "out", "err"
  outbuf,               \* the buffer of stdout
  user,                 \* history: [out, err], bytes sent to the user
  typed, output,        \* history: bytes typed; [out, err], bytes the program wrote
  by, ntyped, noutput   \* which end was the last; counters
vars == <<pc, fdset, stdin, pipe_in, pipe_out, pipe_err, shut, outbuf, user, typed, output, by, ntyped, noutput>>

convert_cr_lf(buf) == [i \in DOMAIN buf |-> IF buf[i] = CR THEN LF ELSE buf[i]]
\* Mutant: only a line feed that ends the buffer is converted.
convert_last(buf) == [i \in DOMAIN buf |-> IF buf[i] = LF /\ i = Len(buf) THEN CR ELSE buf[i]]
convert_lf_cr(buf) == [i \in DOMAIN buf |-> IF buf[i] = LF THEN CR ELSE buf[i]]

Init == /\ pc = "select" /\ fdset = {} /\ stdin = <<>> /\ pipe_in = <<>> /\ pipe_out = <<>> /\ pipe_err = <<>>
        /\ shut = {} /\ outbuf = <<>> /\ user = [out |-> <<>>, err |-> <<>>] /\ typed = <<>>
        /\ output = [out |-> <<>>, err |-> <<>>] /\ by = "-" /\ ntyped = 0 /\ noutput = 0

Readable == {f \in {"stdin", "out", "err"} :
               \/ f \in shut \/ (f = "stdin" /\ stdin # <<>>)
               \/ (f = "out" /\ pipe_out # <<>>) \/ (f = "err" /\ pipe_err # <<>>)}

\* select: what is ready, or the timeout, which flushes stdout.
Select == /\ pc = "select" /\ Readable # {} /\ fdset' = Readable /\ pc' = "serve"
          /\ UNCHANGED <<stdin, pipe_in, pipe_out, pipe_err, shut, outbuf, user, typed, output, by, ntyped, noutput>>
Flush == /\ pc = "select" /\ Readable = {} /\ outbuf # <<>>
         /\ user' = [user EXCEPT !.out = @ \o outbuf] /\ outbuf' = <<>>
         /\ UNCHANGED <<pc, fdset, stdin, pipe_in, pipe_out, pipe_err, shut, typed, output, by, ntyped, noutput>>

\* The descriptors are served in this order.
Served == IF "stdin" \in fdset THEN "stdin" ELSE IF "out" \in fdset THEN "out" ELSE "err"
One(q) == SubSeq(q, 1, Min({BufSize, Len(q)}))
More(q) == SubSeq(q, BufSize + 1, Len(q))
Continue == /\ fdset' = fdset \ {Served}
            /\ pc' = IF fdset = {Served} THEN "select" ELSE "serve"
            /\ by' = by

\* The end of one of the three ends everything; exit flushes stdout.
Break == /\ pc' = "done" /\ fdset' = {} /\ by' = Served
         /\ user' = [user EXCEPT !.out = @ \o outbuf] /\ outbuf' = <<>>
         /\ UNCHANGED <<stdin, pipe_in, pipe_out, pipe_err>>

ServeStdin ==
  IF stdin = <<>> THEN Break
  ELSE /\ pipe_in' = pipe_in \o convert_cr_lf(One(stdin)) /\ stdin' = More(stdin)
       /\ Continue /\ UNCHANGED <<pipe_out, pipe_err, outbuf, user>>
\* fwrite to stdout: whole buffers go out.
ServeOut ==
  IF pipe_out = <<>> THEN Break
  ELSE \E b \in {outbuf \o convert_lf_cr(One(pipe_out))} :
         \E whole \in {Len(b) - (Len(b) % paclen)} :
           /\ user' = [user EXCEPT !.out = @ \o SubSeq(b, 1, whole)]
           /\ outbuf' = SubSeq(b, whole + 1, Len(b)) /\ pipe_out' = More(pipe_out)
           /\ Continue /\ UNCHANGED <<stdin, pipe_in, pipe_err>>
ServeErr ==
  IF pipe_err = <<>> THEN Break
  ELSE /\ user' = [user EXCEPT !.err = @ \o convert_lf_cr(One(pipe_err))] /\ pipe_err' = More(pipe_err)
       /\ Continue /\ UNCHANGED <<stdin, pipe_in, pipe_out, outbuf>>
Serve == /\ pc = "serve"
         /\ CASE Served = "stdin" -> ServeStdin [] Served = "out" -> ServeOut [] OTHER -> ServeErr
         /\ UNCHANGED <<shut, typed, output, ntyped, noutput>>

Types(t) == /\ ntyped < MaxTyped /\ "stdin" \notin shut /\ ntyped' = ntyped + 1
            /\ stdin' = stdin \o t /\ typed' = typed \o t
            /\ UNCHANGED <<pc, fdset, pipe_in, pipe_out, pipe_err, shut, outbuf, user, output, by, noutput>>
Writes(s, err) ==
  /\ noutput < MaxOutput /\ noutput' = noutput + 1
  /\ IF err THEN /\ "err" \notin shut /\ pipe_err' = pipe_err \o s /\ output' = [output EXCEPT !.err = @ \o s]
                 /\ UNCHANGED pipe_out
     ELSE /\ "out" \notin shut /\ pipe_out' = pipe_out \o s /\ output' = [output EXCEPT !.out = @ \o s]
          /\ UNCHANGED pipe_err
  /\ UNCHANGED <<pc, fdset, stdin, pipe_in, shut, outbuf, user, typed, by, ntyped>>
\* The user disconnects; the program closes one of its ends, or ends.
Shuts(ends) == /\ ends \cap shut = {} /\ shut' = shut \cup ends
               /\ UNCHANGED <<pc, fdset, stdin, pipe_in, pipe_out, pipe_err, outbuf, user, typed, output, by, ntyped, noutput>>

Next == \/ Select \/ Flush \/ Serve
        \/ \E t \in Typed : Types(t)
        \/ \E s \in Output, err \in BOOLEAN : Writes(s, err)
        \/ \E ends \in {{"stdin"}, {"err"}, {"out"}, {"out", "err"}} : Shuts(ends)

-----------------------------------------------------------------------------
Converted(from, to, got, sent) ==
  Len(got) <= Len(sent) /\ \A i \in DOMAIN got : got[i] = IF sent[i] = from THEN to ELSE sent[i]

\* axwrapper.c:202: what arrives on either side is what was sent to it, line
\* ends converted, in order; and when the end of the program's output was the
\* last thing read the user has all of it.  (When the end of its errors is read
\* first, output beyond one read of 4096 bytes is lost.)
WrapExact ==
  /\ Converted(CR, LF, pipe_in, typed)
  /\ Converted(LF, CR, user.out, output.out) /\ Converted(LF, CR, user.err, output.err)
  /\ by = "out" => Len(user.out) = Len(output.out)
  /\ Len(outbuf) < paclen
=============================================================================
