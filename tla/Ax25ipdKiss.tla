----------------------------- MODULE Ax25ipdKiss -----------------------------
(***************************************************************************)
(* KISS framing of ax25ipd (ax25apps/ax25ipd/kiss.c) and the tty output    *)
(* routine under it (send_tty of io.c).                                    *)
(*                                                                         *)
(* Two daemons share one tty line: the sender turns AX.25 frames into KISS *)
(* bytes and writes them with send_tty, which may write a few bytes at a   *)
(* time and gives the rest of a frame up after SEND_RETRIES fruitless      *)
(* tries; the receiver assembles frames from the bytes it reads.  The line *)
(* neither loses nor changes a byte, but noise may add some.               *)
(*                                                                         *)
(* A byte is one of six classes: the four KISS specials, "Z" (any other    *)
(* byte whose low nibble is zero) and "D" (any other byte).                *)
(***************************************************************************)
EXTENDS Naturals, Sequences

CONSTANTS
  MAX_FRAME,      \* size of the iframe and oframe buffers
  SEND_RETRIES,   \* busy writes send_tty puts up with, without progress
  PTABLE_SIZE,    \* entries of the parameter table
  Params,         \* <<parameter, value>> pairs a configuration may hold
  Payloads,       \* the AX.25 frames the process layer sends
  MaxFrames,      \* bound: frames sent after the parameters
  MaxLine,        \* bound: bytes the line holds between the two daemons
  MaxNoise        \* bound: bytes of noise on the line

ASSUME KissConstants ==
  /\ MAX_FRAME \in Nat /\ MAX_FRAME > 4
  /\ SEND_RETRIES \in Nat
  /\ PTABLE_SIZE \in Nat
  /\ MaxFrames \in Nat /\ MaxLine \in Nat /\ MaxNoise \in Nat

Byte == {"FEND", "FESC", "TFEND", "TFESC", "Z", "D"}

\* The low nibble of 0xc0 is zero, that of the other three specials is not.
ControlOk(b) == b \in {"FEND", "Z"}

ASSUME KissInputs ==
  /\ Params \subseteq Byte \X Byte
  /\ Payloads \subseteq Seq(Byte)

VARIABLES
  param_tbl,  \* sender: parameters read from the configuration, in order
  phase,      \* sender: "config", then "params", then "run"
  next_param, \* sender: parameters send_params has sent
  otty,       \* sender: bytes of oframe send_tty has not written yet
  retries,    \* sender: busy writes since the last progress
  wire,       \* bytes written and not yet read
  noise,      \* history: bytes of noise so far
  iframe,     \* receiver: the frame being assembled
  iescaped,   \* receiver: the last byte was FESC
  sent,       \* history: <<type, frame>> given to send_kiss, in order
  gaveup,     \* history: frames send_tty gave up part of the way
  rcvd,       \* history: frames given to from_kiss, in order
  stats       \* receiver: the counters of assemble_kiss

svars == <<param_tbl, phase, next_param, otty, retries, sent, gaveup>>
rvars == <<iframe, iescaped, rcvd, stats>>
vars == <<svars, wire, noise, rvars>>

ifcount == Len(iframe)

-----------------------------------------------------------------------------
(* Encoding: send_kiss *)

\* What KISSEMIT is called with for one byte of the frame.
Stuffed(b) == CASE b = "FEND" -> <<"FESC", "TFEND">>
                [] b = "FESC" -> <<"FESC", "TFESC">>
                [] OTHER -> <<b>>

\* The stuffed bytes of a frame, first byte first.
StuffAll(f) ==
  LET upto[n \in 0..Len(f)] ==
        IF n = 0 THEN <<>> ELSE upto[n - 1] \o Stuffed(f[n])
  IN  upto[Len(f)]

\* Mutant: frames are closed, not opened, with a FEND.
FullFrameNoOpen(type, f) == Stuffed(type) \o StuffAll(f) \o <<"FEND">>

FullFrame(type, f) == <<"FEND">> \o Stuffed(type) \o StuffAll(f) \o <<"FEND">>

\* oframe after send_kiss: KISSEMIT drops what does not fit.
Encode(type, f) ==
  LET full == FullFrame(type, f)
  IN  SubSeq(full, 1, IF Len(full) < MAX_FRAME THEN Len(full) ELSE MAX_FRAME)

-----------------------------------------------------------------------------
Init ==
  /\ param_tbl = <<>> /\ phase = "config" /\ next_param = 0
  /\ otty = <<>> /\ retries = 0
  /\ wire = <<>> /\ noise = 0
  /\ iframe = <<>> /\ iescaped = FALSE
  /\ sent = <<>> /\ gaveup = 0 /\ rcvd = <<>>
  /\ stats = [kiss_in |-> 0, kiss_toobig |-> 0, kiss_badtype |-> 0]

\* param_add: a full table ignores the entry.
ParamAdd(p) ==
  /\ phase = "config"
  /\ Len(param_tbl) < PTABLE_SIZE
  /\ param_tbl' = Append(param_tbl, p)
  /\ UNCHANGED <<phase, next_param, otty, retries, sent, gaveup, wire, noise, rvars>>

\* send_kiss up to its call of send_tty, which resets its own retry count.
SendKiss(type, f) ==
  /\ otty = <<>>
  /\ otty' = Encode(type, f)
  /\ retries' = 0
  /\ sent' = Append(sent, <<type, f>>)

\* io_open calls send_params (digi mode) before the main loop starts.
OpenTty ==
  /\ phase = "config"
  /\ phase' = "params"
  /\ UNCHANGED <<param_tbl, next_param, otty, retries, sent, gaveup, wire, noise, rvars>>

SendParams ==
  /\ phase = "params"
  /\ IF next_param < Len(param_tbl)
       THEN LET p == param_tbl[next_param + 1]
            IN  /\ SendKiss(p[1], <<p[2]>>)
                /\ next_param' = next_param + 1
                /\ phase' = phase
       ELSE /\ otty = <<>>
            /\ phase' = "run"
            /\ UNCHANGED <<next_param, otty, retries, sent>>
  /\ UNCHANGED <<param_tbl, gaveup, wire, noise, rvars>>

\* from_ip or do_beacon send a frame: the port nibble is 0x00 or 0x10.
SendFrame(f) ==
  /\ phase = "run"
  /\ Len(sent) < Len(param_tbl) + MaxFrames
  /\ SendKiss("Z", f)
  /\ UNCHANGED <<param_tbl, phase, next_param, gaveup, wire, noise, rvars>>

\* send_tty: write() takes n of the bytes left.
SendTty(n) ==
  /\ n \in 1..Len(otty)
  /\ Len(wire) + n <= MaxLine
  /\ wire' = wire \o SubSeq(otty, 1, n)
  /\ otty' = SubSeq(otty, n + 1, Len(otty))
  /\ retries' = 0
  /\ UNCHANGED <<param_tbl, phase, next_param, sent, gaveup, noise, rvars>>

\* Mutant: gives up one try too late.
SendTtyBusyLate ==
  /\ otty # <<>>
  /\ IF retries > SEND_RETRIES
       THEN /\ otty' = <<>>
            /\ retries' = 0
            /\ gaveup' = gaveup + 1
       ELSE /\ retries' = retries + 1
            /\ UNCHANGED <<otty, gaveup>>
  /\ UNCHANGED <<param_tbl, phase, next_param, sent, wire, noise, rvars>>

\* send_tty: write() takes nothing; io_error sleeps and asks for a retry.
SendTtyBusy ==
  /\ otty # <<>>
  /\ IF retries + 1 > SEND_RETRIES
       THEN /\ otty' = <<>>
            /\ retries' = 0
            /\ gaveup' = gaveup + 1
       ELSE /\ retries' = retries + 1
            /\ UNCHANGED <<otty, gaveup>>
  /\ UNCHANGED <<param_tbl, phase, next_param, sent, wire, noise, rvars>>

-----------------------------------------------------------------------------
(* Decoding: one iteration of the loop of assemble_kiss.  Its state is     *)
(* static, so how read() cuts the bytes into buffers makes no difference.  *)

\* Mutant: takes a frame of a control byte only for no frame.
EndOfFrameNoEmpty ==
  /\ Head(wire) = "FEND"
  /\ rcvd' = IF ifcount \in 2..(MAX_FRAME - 3) /\ ControlOk(iframe[1])
               THEN Append(rcvd, Tail(iframe)) ELSE rcvd
  /\ iframe' = <<>>
  /\ iescaped' = FALSE
  /\ stats' = stats

\* Mutant: passes on every frame that fits iframe.
EndOfFrameNoRoom ==
  /\ Head(wire) = "FEND"
  /\ rcvd' = IF ifcount # 0 /\ ControlOk(iframe[1]) THEN Append(rcvd, Tail(iframe)) ELSE rcvd
  /\ iframe' = <<>>
  /\ iescaped' = FALSE
  /\ stats' = stats

\* A FEND ends the frame; what it does with it depends on the frame only.
EndOfFrame ==
  /\ Head(wire) = "FEND"
  /\ IF ifcount = 0
       THEN UNCHANGED <<rcvd, stats>>
       ELSE IF ~ControlOk(iframe[1])
       THEN /\ stats' = [stats EXCEPT !.kiss_badtype = @ + 1]
            /\ rcvd' = rcvd
       ELSE IF ifcount < MAX_FRAME - 2
       THEN /\ stats' = [stats EXCEPT !.kiss_in = @ + 1]
            /\ rcvd' = Append(rcvd, Tail(iframe))
       ELSE /\ stats' = [stats EXCEPT !.kiss_toobig = @ + 1]
            /\ rcvd' = rcvd
  /\ iframe' = <<>>
  /\ iescaped' = FALSE

Escape ==
  /\ Head(wire) = "FESC"
  /\ iescaped' = TRUE
  /\ UNCHANGED <<iframe, rcvd, stats>>

Unescaped(c) == CASE iescaped /\ c = "TFEND" -> "FEND"
                  [] iescaped /\ c = "TFESC" -> "FESC"
                  [] OTHER -> c

\* Mutant: stores without a look at the end of the buffer.
DataByteUnbounded ==
  /\ Head(wire) \notin {"FEND", "FESC"}
  /\ iframe' = Append(iframe, Unescaped(Head(wire)))
  /\ iescaped' = FALSE
  /\ UNCHANGED <<rcvd, stats>>

DataByte ==
  /\ Head(wire) \notin {"FEND", "FESC"}
  /\ iframe' = IF ifcount < MAX_FRAME
                 THEN Append(iframe, Unescaped(Head(wire)))
                 ELSE iframe
  /\ iescaped' = FALSE
  /\ UNCHANGED <<rcvd, stats>>

\* A byte nobody sent appears on the line.
Noise(b) ==
  /\ noise < MaxNoise /\ Len(wire) < MaxLine
  /\ wire' = Append(wire, b)
  /\ noise' = noise + 1
  /\ UNCHANGED <<svars, rvars>>

AssembleKiss ==
  /\ wire # <<>>
  /\ EndOfFrame \/ Escape \/ DataByte
  /\ wire' = Tail(wire)
  /\ UNCHANGED <<svars, noise>>

Next ==
  \/ \E p \in Params : ParamAdd(p)
  \/ OpenTty
  \/ SendParams
  \/ \E f \in Payloads : SendFrame(f)
  \/ \E n \in 1..Len(otty) : SendTty(n)
  \/ SendTtyBusy
  \/ \E b \in Byte : Noise(b)
  \/ AssembleKiss

Spec == Init /\ [][Next]_vars

-----------------------------------------------------------------------------
(* Properties *)

\* Shape of the state.  The buffers never outgrow MAX_FRAME, the table never
\* outgrows PTABLE_SIZE and a busy tty is retried at most SEND_RETRIES times.
TypeOK ==
  /\ param_tbl \in Seq(Params) /\ Len(param_tbl) <= PTABLE_SIZE
  /\ phase \in {"config", "params", "run"}
  /\ next_param \in 0..Len(param_tbl)
  /\ otty \in Seq(Byte) /\ Len(otty) <= MAX_FRAME
  /\ retries \in 0..SEND_RETRIES
  /\ wire \in Seq(Byte) /\ noise \in 0..MaxNoise
  /\ iframe \in Seq(Byte) /\ Len(iframe) <= MAX_FRAME
  /\ iescaped \in BOOLEAN
  /\ sent \in Seq(Byte \X Seq(Byte))
  /\ gaveup \in Nat
  /\ rcvd \in Seq(Seq(Byte))
  /\ stats \in [kiss_in : Nat, kiss_toobig : Nat, kiss_badtype : Nat]

\* from_kiss appends two CRC bytes in place: every frame it is given, which
\* starts at iframe + 1, leaves room for them inside iframe.
CrcRoom == \A k \in DOMAIN rcvd : 1 + Len(rcvd[k]) + 2 <= MAX_FRAME

\* Frames sent with a control byte the receiver accepts, by their numbers.
Accepted == {k \in DOMAIN sent : ControlOk(sent[k][1])}

\* Each frame that was received is one that was sent, later ones are later.
InOrder(at) == \A j, k \in DOMAIN rcvd : j < k => at[j] < at[k]

IsPrefixOf(s, t) == Len(s) <= Len(t) /\ SubSeq(t, 1, Len(s)) = s

\* A frame cut short, by the oframe limit or by send_tty giving up, never
\* runs into the next one: the frames handed to from_kiss are, in order,
\* prefixes of distinct frames given to send_kiss.  It is the FEND that
\* opens every frame that closes the one before it.  (Without noise: a frame
\* carries no check sum on the line.)
NoMergedFrames == noise = 0 =>
  \E at \in [DOMAIN rcvd -> Accepted] :
    InOrder(at) /\ \A k \in DOMAIN rcvd : IsPrefixOf(rcvd[k], sent[at[k]][2])

\* The frame passes both limits: oframe when sent, iframe when received.
Fits(s) == /\ Len(FullFrame(s[1], s[2])) <= MAX_FRAME
           /\ 1 + Len(s[2]) < MAX_FRAME - 2

\* When send_tty never gave a frame up, the line is quiet and all the frames
\* fitted the buffers, the receiver has had exactly the frames sent with an
\* acceptable control byte, byte for byte, whatever specials they contain.
RoundTrip ==
  (gaveup = 0 /\ noise = 0 /\ otty = <<>> /\ wire = <<>> /\ \A k \in DOMAIN sent : Fits(sent[k]))
    => \E at \in [DOMAIN rcvd -> Accepted] :
         /\ InOrder(at) /\ Accepted = {at[k] : k \in DOMAIN rcvd}
         /\ \A k \in DOMAIN rcvd : rcvd[k] = sent[at[k]][2]

\* kiss.c:115-151, io.c:734: frames arrive as they were sent; one that was given
\* up part of the way is lost or cut, and never glued to another.
LineFaithful == RoundTrip /\ NoMergedFrames
=============================================================================
