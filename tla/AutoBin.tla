------------------------------- MODULE AutoBin -------------------------------
(***************************************************************************)
(* A file sent with the #BIN# protocol: by call (~a) or bget, received by  *)
(* call or bput, in every pairing.  Between two calls the connection keeps *)
(* packets apart, unless a node on the way joins them (MayMerge); bget and *)
(* bput see it through axspawn as a stream of bytes.                       *)
(*                                                                         *)
(* Data are tokens: "x" for any byte, "CR", and for the lines of the       *)
(* protocol without their CR "BIN" (the header; what it says is in offer), *)
(* "OK", "NO", "ABORT".  A CRC is the sequence it was computed over.       *)
(***************************************************************************)
EXTENDS Integers, Sequences, SequencesExt

CONSTANTS
  Files,          \* contents
  Pairs,          \* <<sender, receiver>>: {"call", "bget", "pipe", "stream"} \X {"call", "bput"}
  UplBuf,         \* 128 in call
  BLOCKSIZ,       \* of bget
  MayMerge, MayFail, MayStop,
  MaxTyped        \* bound: what the user types after the upload

Wrap == 256       \* dwn_cnt is unsigned (2^64)

Keys == INSTANCE CallKeys WITH key_words <- <<<<"BIN">>>>, MAX_CMPSTRLEN <- Wrap

VARIABLES
  file, pair,
  tx,             \* [pc, pos, buf]: pc "start", "ask", "data", "done", "failed"
  rx,             \* [pc, left, got, crc, cr, line]: pc "idle", "data", "ok", "bad",
                  \* "failed"; line of call's search
  s2r, r2s,       \* packets under way
  calm, typed     \* history: nobody stopped, failed or joined anything
vars == <<file, pair, tx, rx, s2r, r2s, calm, typed>>

Sender == pair[1]
Receiver == pair[2]
\* What the header offers: the stream has neither size nor CRC.
offer == IF Sender = "stream" THEN [size |-> 0, crc |-> <<>>] ELSE [size |-> Len(file), crc |-> file]

Init == /\ file \in Files /\ pair \in Pairs
        /\ tx = [pc |-> "start", pos |-> 0, buf |-> <<>>]
        /\ rx = [pc |-> "idle", left |-> 0, got |-> <<>>, crc |-> <<>>, cr |-> FALSE, line |-> Keys!NoLine]
        /\ s2r = <<>> /\ r2s = <<>> /\ calm = TRUE /\ typed = 0

\* bput reads a stream.
Put(p) == s2r' = IF Receiver = "bput" THEN <<(IF s2r = <<>> THEN <<>> ELSE s2r[1]) \o p>> ELSE Append(s2r, p)
Merge == /\ MayMerge /\ Len(s2r) > 1 /\ s2r' = <<s2r[1] \o s2r[2]>> \o SubSeq(s2r, 3, Len(s2r))
         /\ calm' = FALSE /\ UNCHANGED <<file, pair, tx, rx, r2s, typed>>

-----------------------------------------------------------------------------
(* call, ~a *)

Block(n) == SubSeq(file, tx.pos + 1, IF tx.pos + n < Len(file) THEN tx.pos + n ELSE Len(file))

StartUpload == /\ Sender = "call" /\ tx.pc = "start" /\ Put(<<"BIN", "CR">>)
               /\ tx' = [tx EXCEPT !.pc = "data"]
               /\ UNCHANGED <<file, pair, rx, r2s, calm, typed>>
\* Mutant: what could not be written is read again as a new block.
UploadWhole(buf, n) == [tx EXCEPT !.buf = <<>>, !.pos = @ + Len(buf)]
\* n bytes of the block are written; pos is where the file is read next.
Uploaded(buf, n) == [tx EXCEPT !.buf = SubSeq(buf, n + 1, Len(buf)),
                               !.pos = IF tx.buf = <<>> THEN @ + Len(buf) ELSE @]
Upload ==
  /\ Sender = "call" /\ tx.pc = "data"
  /\ LET buf == IF tx.buf = <<>> THEN Block(UplBuf) ELSE tx.buf
     IN IF buf = <<>> THEN tx' = [tx EXCEPT !.pc = "done"] /\ UNCHANGED s2r
        ELSE \E n \in 1..Len(buf) : /\ Put(SubSeq(buf, 1, n)) /\ tx' = Uploaded(buf, n)
  /\ UNCHANGED <<file, pair, rx, r2s, calm, typed>>
\* ~s closes the file; the other side is told nothing.
StopUpload == /\ MayStop /\ Sender = "call" /\ tx.pc = "data" /\ tx' = [tx EXCEPT !.pc = "done"]
              /\ calm' = FALSE /\ UNCHANGED <<file, pair, rx, s2r, r2s, typed>>
\* Lines typed are sent when no file is.
Types == /\ Sender = "call" /\ tx.pc = "done" /\ typed < MaxTyped /\ typed' = typed + 1
         /\ Put(<<"x", "CR">>) /\ UNCHANGED <<file, pair, tx, rx, r2s, calm>>

-----------------------------------------------------------------------------
(* bget *)

bget == /\ Sender # "call" /\ tx.pc = "start" /\ Put(<<"CR", "BIN", "CR">>)
        /\ tx' = [tx EXCEPT !.pc = "ask"] /\ UNCHANGED <<file, pair, rx, r2s, calm, typed>>
\* The answer, a line; an empty one before it is skipped.
Answer == /\ Sender # "call" /\ tx.pc = "ask" /\ r2s # <<>> /\ r2s' = Tail(r2s)
          /\ LET a == SelectSeq(Head(r2s), LAMBDA t : t # "CR")
             IN tx' = [tx EXCEPT !.pc = CASE a = <<"OK">> -> "data" [] a = <<"NO">> -> "done"
                                          [] a = <<"ABORT">> -> "failed" [] OTHER -> @]
          /\ UNCHANGED <<file, pair, rx, s2r, calm, typed>>
\* What has come meanwhile is read at once; only an abort without a CR before
\* it is one.  A pipe is kept in memory: an empty one has no first block.
IsAbort(p) == p = <<"ABORT", "CR">>
SendBlock ==
  /\ Sender # "call" /\ tx.pc = "data" /\ r2s' = (IF r2s = <<>> THEN <<>> ELSE Tail(r2s))
  /\ LET in == IF r2s = <<>> THEN <<>> ELSE Head(r2s)
         b == Block(BLOCKSIZ)
     IN IF IsAbort(in) \/ (Sender = "pipe" /\ file = <<>>)
        THEN tx' = [tx EXCEPT !.pc = "failed"] /\ UNCHANGED s2r
        ELSE IF b = <<>> THEN tx' = [tx EXCEPT !.pc = "done"] /\ UNCHANGED s2r
        ELSE /\ Put(b)
             /\ tx' = [tx EXCEPT !.pos = @ + Len(b),
                         !.pc = IF Sender # "stream" /\ tx.pos + Len(b) = Len(file) THEN "done" ELSE @]
  /\ UNCHANGED <<file, pair, rx, calm, typed>>

-----------------------------------------------------------------------------
(* call, autobin download *)

\* An open or a write of the receiver fails in a step.
Fails == IF MayFail THEN BOOLEAN ELSE {FALSE}

\* A rest of one byte counts as the CR of the header; another one is data.
start_ab_download(r, rest, fail) ==
  LET n == IF Len(rest) = 1 THEN 0 ELSE Len(rest)
      left == (offer.size - n) % Wrap
  IN IF fail THEN [r EXCEPT !.pc = "failed"]
     ELSE [r EXCEPT !.pc = IF left = 0 THEN "idle" ELSE "data", !.left = left,
                    !.got = SubSeq(rest, 1, n), !.crc = SubSeq(rest, 1, n)]

\* Mutant: the CRC is not looked at.
CheckedNot(crc) == "ok"
Checked(crc) == IF crc = offer.crc THEN "ok" ELSE "bad"
InFile(p) == IF rx.left < Len(p) THEN rx.left ELSE Len(p)
ab_down(p, fail) ==
  LET n == InFile(p)
      crc == rx.crc \o SubSeq(p, 1, n)
  IN IF IsAbort(p) \/ fail THEN [rx EXCEPT !.pc = "failed", !.left = 0]
     ELSE [rx EXCEPT !.left = @ - n, !.got = @ \o SubSeq(p, 1, n), !.crc = crc,
                     !.pc = IF rx.left = n THEN Checked(crc) ELSE @]
\* What is text of a packet: bytes behind the end of the file, or the packet
\* that could not be written.
Behind(p, fail) == IF IsAbort(p) THEN <<>>
                   ELSE IF fail THEN SubSeq(p, 1, InFile(p)) ELSE SubSeq(p, InFile(p) + 1, Len(p))

CallReads ==
  /\ Receiver = "call" /\ s2r # <<>> /\ s2r' = Tail(s2r)
  /\ \E fail \in Fails, p \in {Head(s2r)} :
     \E r \in {IF rx.pc = "data" THEN ab_down(p, fail) ELSE rx},
        text \in {IF rx.pc = "data" THEN Behind(p, fail) ELSE p} :
     \E s \in {Keys!searche_key_words(r.line, text)} :
       /\ calm' = (calm /\ ~fail)
       /\ IF text = <<>> THEN rx' = r /\ UNCHANGED r2s
          ELSE IF s.com = 0 THEN rx' = [r EXCEPT !.line = s.line] /\ UNCHANGED r2s
          ELSE /\ rx' = start_ab_download([r EXCEPT !.line = s.line], s.rest, fail)
               /\ r2s' = IF fail THEN Append(r2s, <<"ABORT", "CR">>)
                         ELSE IF Len(s.rest) = 1 THEN Append(r2s, <<"OK", "CR">>) ELSE r2s
  /\ UNCHANGED <<file, pair, tx, typed>>

-----------------------------------------------------------------------------
(* bput *)

\* my_read: up to and with the next CR, or limit bytes; <<>> when neither came.
my_read(limit) ==
  LET s == IF s2r = <<>> THEN <<>> ELSE s2r[1]
      Ends == {i \in DOMAIN s : s[i] = "CR" \/ i = limit}
  IN IF Ends = {} THEN <<>> ELSE SubSeq(s, 1, CHOOSE i \in Ends : \A j \in Ends : i <= j)
Take(line) == s2r' = <<SubSeq(s2r[1], Len(line) + 1, Len(s2r[1]))>>

bput ==
  /\ Receiver = "bput" /\ rx.pc = "idle"
  /\ \E fail \in Fails, l \in {my_read(Wrap)} :
       /\ l # <<>> /\ Take(l)
       /\ IF l = <<"BIN", "CR">> THEN
            /\ rx' = [rx EXCEPT !.pc = IF fail THEN "failed" ELSE "data", !.left = offer.size]
            /\ \E a \in IF fail THEN {"NO", "ABORT"} ELSE {"OK"} : r2s' = Append(r2s, <<"CR", a, "CR">>)
            /\ calm' = (calm /\ ~fail)
          ELSE /\ rx' = [rx EXCEPT !.pc = IF IsAbort(l) THEN "failed" ELSE @] /\ UNCHANGED <<r2s, calm>>
  /\ UNCHANGED <<file, pair, tx, typed>>

\* With no size given the file ends with a line ***END, which no sender of
\* the repository writes.  A line is one only behind a CR.
Data ==
  /\ Receiver = "bput" /\ rx.pc = "data"
  /\ \E fail \in Fails, l \in {my_read(IF offer.size = 0 THEN Wrap ELSE rx.left)} :
     LET crc == IF offer.crc = <<>> THEN <<>> ELSE rx.crc \o l
         cr == Last(l) = "CR"
         left == IF offer.size = 0 THEN 0 ELSE rx.left - Len(l)
     IN /\ l # <<>> /\ Take(l)
        /\ IF rx.cr /\ IsAbort(l)
           THEN rx' = [rx EXCEPT !.pc = "failed", !.got = <<>>] /\ UNCHANGED <<r2s, calm>>
           ELSE IF rx.cr /\ offer.size = 0 /\ l = <<"END", "CR">>
           THEN rx' = [rx EXCEPT !.pc = Checked(crc)] /\ UNCHANGED <<r2s, calm>>
           ELSE /\ rx' = IF fail THEN [rx EXCEPT !.pc = "failed", !.crc = crc, !.cr = cr, !.left = left]
                         ELSE [rx EXCEPT !.left = left, !.got = @ \o l, !.crc = crc, !.cr = cr,
                                 !.pc = IF offer.size # 0 /\ left = 0 THEN Checked(crc) ELSE @]
                /\ r2s' = IF fail THEN Append(r2s, <<"CR", "ABORT", "CR">>) ELSE r2s
                /\ calm' = (calm /\ ~fail)
  /\ UNCHANGED <<file, pair, tx, typed>>

Step == \/ StartUpload \/ Upload \/ bget \/ Answer \/ SendBlock
        \/ CallReads \/ bput \/ Data
Next == Step \/ Merge \/ StopUpload \/ Types

\* Both programs run and the link delivers.
Spec == Init /\ [][Next]_vars /\ WF_vars(Step)

-----------------------------------------------------------------------------
\* call.c:1140, proto_bin.c:255: a file that is reported complete is the one
\* sent, byte for byte, whatever was stopped, joined or typed on the way.
Exact == rx.pc = "ok" => rx.got = file

\* call.c:2749, proto_bin.c:440: left alone, every sender gets a file to every
\* receiver.  (Not an empty one, which bput takes for a stream, a stream, or
\* for bput one with a line #ABORT#, which is taken for the user's.)
Ordinary == file # <<>> /\ Sender # "stream" /\ ~Contains(file, "ABORT")
Delivered == Ordinary => <>[](~calm \/ (rx.pc = "ok" /\ tx.pc = "done"))
=============================================================================
