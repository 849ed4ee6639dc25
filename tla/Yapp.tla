-------------------------------- MODULE Yapp ---------------------------------
(***************************************************************************)
(* The YAPP file transfer of call (ax25apps/call/yapp.c): one station runs *)
(* yapp_upload, the other yapp_download, over an AX.25 connection, which   *)
(* is a reliable byte stream in each direction.  A faulty link may change  *)
(* data bytes (MaxErrors); either user may cancel.                         *)
(*                                                                         *)
(* A stream is a sequence of tokens: a control message, which its sender   *)
(* writes in one go, or one byte of a data block or its checksum.  Header  *)
(* and reason texts are left out; what the header says is in "time".       *)
(***************************************************************************)
EXTENDS Naturals, Sequences

CONSTANTS
  Sizes,      \* sizes of the file uploaded
  Existing,   \* sizes of the file the download appends to
  readlen,    \* bytes per data block: paclen - 2, at most 253
  Slow,       \* a reply may take longer than TIMEOUT
  MayCancel,  \* users press a key
  MaxErrors   \* bound: data bytes changed on the way

ASSUME YappConstants ==
  /\ Sizes \subseteq Nat /\ Existing \subseteq Nat
  /\ readlen \in 1..253
  /\ Slow \in BOOLEAN /\ MayCancel \in BOOLEAN
  /\ MaxErrors \in Nat

VARIABLES
  file,   \* what is transferred: [size, existing, time]
  up,     \* yapp_upload: [state, yappc, pos, out, total]
  down,   \* yapp_download: [state, yappc, filefd, data]
  u2d,    \* stream from the upload to the download
  d2u,    \* stream back
  errors  \* history: data bytes changed

vars == <<file, up, down, u2d, d2u, errors>>

Msg(t) == [t |-> t, n |-> 0]
Byte(b) == [t |-> "byte", n |-> b]
STX(n) == [t |-> "STX", n |-> n]

\* Send_NR and Send_RS are both NAK messages; the reader tells them apart by
\* their third byte only.
NAK == {"NR", "RS"}
Abort == {"CAN"} \cup NAK

Ended == {"done", "aborted"}
UpStates == {"S", "SH", "SD", "SE", "ST"} \cup Ended
DownStates == {"R", "RH", "RD"} \cup Ended

\* The bytes of the file sent; every one is different from its neighbours.
Content == [i \in 1..file.size |-> i]

checksum(s) ==
  LET sum[i \in 0..Len(s)] == IF i = 0 THEN 0 ELSE (sum[i - 1] + s[i]) % 256
  IN  sum[Len(s)]

-----------------------------------------------------------------------------
\* cmd_yapp on both sides.  A file that cannot be opened is answered with NR;
\* an upload starts with SI.  The download opens the file named by the user,
\* or leaves that to the header.
Init ==
  /\ errors = 0
  /\ file \in [size : Sizes, existing : Existing, time : BOOLEAN]
  /\ \/ /\ up = [state |-> "S", yappc |-> 0, pos |-> 0, out |-> <<>>, total |-> 0]
        /\ u2d = <<Msg("ENQ")>>
     \/ /\ up = [state |-> "aborted", yappc |-> 0, pos |-> 0, out |-> <<>>, total |-> 0]
        /\ u2d = <<Msg("NR")>>
  /\ \/ \E f \in {"open", "none"} :
          /\ down = [state |-> "R", yappc |-> 0, filefd |-> f, data |-> <<>>]
          /\ d2u = <<>>
     \/ /\ down = [state |-> "aborted", yappc |-> 0, filefd |-> "none", data |-> <<>>]
        /\ d2u = <<Msg("NR")>>

-----------------------------------------------------------------------------
(* Upload *)

\* read(filefd, outbuffer, readlen)
ReadBlock(pos) ==
  SubSeq(Content, pos + 1, IF pos + readlen < file.size THEN pos + readlen ELSE file.size)

Bytes(s) == [i \in DOMAIN s |-> Byte(s[i])]

\* Mutant: the checksum byte is left out of a full block.
OutBufferShort(block, yappc) ==
  Bytes(block) \o (IF yappc = 1 /\ Len(block) < readlen THEN <<Byte(checksum(block))>> ELSE <<>>)

\* A block in outbuffer: in YAPP C the checksum is the byte behind it.
OutBuffer(block, yappc) ==
  Bytes(block) \o (IF yappc = 1 THEN <<Byte(checksum(block))>> ELSE <<>>)

\* RF or RT: send the first block.  An empty one gets no STX.
StartData(yappc) ==
  LET block == ReadBlock(0)
  IN  /\ up' = [up EXCEPT !.state = "SD", !.yappc = yappc, !.pos = Len(block),
                          !.out = OutBuffer(block, yappc)]
      /\ u2d' = IF block = <<>> THEN u2d ELSE Append(u2d, STX(Len(block)))

UpReply(state, m) ==
  /\ up' = [up EXCEPT !.state = state]
  /\ u2d' = Append(u2d, Msg(m))

\* Mutant: the upload is over as soon as the end of the file is acknowledged.
UploadDataNoEot(m) ==
  CASE m.t \in Abort -> up' = [up EXCEPT !.state = "aborted"] /\ u2d' = u2d
    [] up.state = "S" /\ m.t = "RR" -> UpReply("SH", "SOH")
    [] up.state = "SH" /\ m.t = "RF" -> StartData(up.yappc)
    [] up.state = "SH" /\ m.t = "RT" -> StartData(1)
    [] up.state = "SE" /\ m.t = "AF" -> UpReply("done", "EOT")
    [] OTHER -> UpReply("aborted", "CAN")

\* yapp_upload_data: a NAK aborts before the branch for resume is reached.
UploadData(m) ==
  CASE m.t \in Abort -> up' = [up EXCEPT !.state = "aborted"] /\ u2d' = u2d
    [] up.state = "S" /\ m.t = "RR" -> UpReply("SH", "SOH")
    [] up.state = "S" /\ m.t = "RF" -> StartData(up.yappc)
    [] up.state = "SH" /\ m.t = "RF" -> StartData(up.yappc)
    [] up.state = "SH" /\ m.t = "RT" -> StartData(1)
    [] up.state = "SE" /\ m.t = "AF" -> UpReply("ST", "EOT")
    [] up.state = "ST" /\ m.t = "AT" -> up' = [up EXCEPT !.state = "done"] /\ u2d' = u2d
    [] OTHER -> UpReply("aborted", "CAN")

UpRead ==
  /\ up.state \notin Ended
  /\ d2u # <<>>
  /\ UploadData(Head(d2u))
  /\ d2u' = Tail(d2u)
  /\ UNCHANGED <<file, down, errors>>

\* Mutant: the checksum is counted.
BlockTotalAll(total) == total

\* total -= yappc when a block has gone out.
BlockTotal(total) == total - up.yappc

\* The socket is writable in STATE_SD: write n bytes, and when the block is
\* out go on with the next, or with EF at the end of the file.
UpWrite(n) ==
  LET rest  == SubSeq(up.out, n + 1, Len(up.out))
      total == up.total + n
      block == ReadBlock(up.pos)
      sent  == u2d \o SubSeq(up.out, 1, n)
  IN  /\ up.state = "SD"
      /\ n \in 0..Len(up.out) /\ (n = 0 => up.out = <<>>)
      /\ IF rest # <<>>
           THEN up' = [up EXCEPT !.out = rest, !.total = total] /\ u2d' = sent
         ELSE IF block # <<>>
           THEN /\ up' = [up EXCEPT !.pos = @ + Len(block), !.total = BlockTotal(total),
                                    !.out = OutBuffer(block, up.yappc)]
                /\ u2d' = Append(sent, STX(Len(block)))
         ELSE /\ up' = [up EXCEPT !.state = "SE", !.out = <<>>, !.total = BlockTotal(total)]
              /\ u2d' = Append(sent, Msg("ETX"))
      /\ UNCHANGED <<file, down, d2u, errors>>

-----------------------------------------------------------------------------
(* Download *)

\* The number of tokens of the message at the head of the buffer.  A byte
\* that starts no message is taken for one whose length is the next byte;
\* behind a stray byte that is the ETX, so EF and one more message fill it.
MsgLen == CASE u2d = <<>> -> 1
            [] Head(u2d).t = "STX" -> 1 + Head(u2d).n + down.yappc
            [] Head(u2d).t = "byte" -> 3
            [] OTHER -> 1
Complete == Len(u2d) >= MsgLen

DownReply(state, m) ==
  /\ down' = [down EXCEPT !.state = state]
  /\ d2u' = Append(d2u, Msg(m))

\* The header: open the file, then RF, or in YAPP C RT, or RS if there is
\* something in it already.
Header ==
  LET yappc == IF file.time THEN 1 ELSE 0
      reply == CASE yappc = 0 -> "RF" [] yappc = 1 /\ file.existing > 0 -> "RS" [] OTHER -> "RT"
  IN  \/ /\ down.filefd = "none"
         /\ DownReply("aborted", "NR")
      \/ /\ down' = [down EXCEPT !.state = "RD", !.yappc = yappc, !.filefd = "open"]
         /\ d2u' = Append(d2u, Msg(reply))

\* Mutant: writes the block before it looks at the checksum.
DataUnchecked(block, sum) == down' = [down EXCEPT !.data = @ \o block] /\ d2u' = d2u

\* A data block, with its checksum in YAPP C.
Data(block, sum) ==
  IF down.yappc = 1 /\ sum # checksum(block)
    THEN DownReply("aborted", "CAN")
    ELSE down' = [down EXCEPT !.data = @ \o block] /\ d2u' = d2u

DownloadData(m, block, sum) ==
  CASE m.t \in Abort -> down' = [down EXCEPT !.state = "aborted"] /\ d2u' = d2u
    [] down.state = "R" /\ m.t = "ENQ" -> DownReply("RH", "RR")
    [] down.state = "RH" /\ m.t = "SOH" -> Header
    [] down.state = "RH" /\ m.t = "ENQ" -> UNCHANGED <<down, d2u>>
    [] down.state = "RH" /\ m.t = "EOT" -> DownReply("done", "AT")
    [] down.state = "RD" /\ m.t = "STX" -> Data(block, sum)
    [] down.state = "RD" /\ m.t = "ETX" ->
         /\ down' = [down EXCEPT !.state = "RH", !.filefd = "none"]
         /\ d2u' = Append(d2u, Msg("AF"))
    [] OTHER -> DownReply("aborted", "CAN")

DownRead ==
  LET m == Head(u2d)
      block == IF m.t = "STX" THEN [i \in 1..m.n |-> u2d[i + 1].n] ELSE <<>>
      sum == IF m.t = "STX" THEN u2d[MsgLen].n ELSE 0
  IN  /\ down.state \notin Ended
      /\ u2d # <<>> /\ Complete
      /\ DownloadData(m, block, sum)
      /\ u2d' = SubSeq(u2d, MsgLen + 1, Len(u2d))
      /\ UNCHANGED <<file, up, errors>>

-----------------------------------------------------------------------------
(* Timeouts, users, the link *)

UpWaits == up.state \notin Ended \cup {"SD"} /\ d2u = <<>>
DownWaits == down.state \notin Ended /\ ~(u2d # <<>> /\ Complete)

\* Mutant: the timer is never set.
NeverExpired(waits, peerwaits) == FALSE

\* TIMEOUT passes; when nothing is slow, only if nothing else will happen.
Expired(waits, peerwaits) == waits /\ (Slow \/ peerwaits)

\* select times out; in STATE_SD it waits for ever to write.
UpTimeout ==
  /\ Expired(UpWaits, DownWaits \/ down.state \in Ended)
  /\ UpReply("aborted", "CAN")
  /\ UNCHANGED <<file, down, d2u, errors>>

DownTimeout ==
  /\ Expired(DownWaits, UpWaits \/ up.state \in Ended)
  /\ DownReply("aborted", "CAN")
  /\ UNCHANGED <<file, up, u2d, errors>>

\* A key, or a signal that interrupts select.
UpCancel ==
  /\ MayCancel /\ up.state \notin Ended
  /\ UpReply("aborted", "CAN")
  /\ UNCHANGED <<file, down, d2u, errors>>

DownCancel ==
  /\ MayCancel /\ down.state \notin Ended
  /\ DownReply("aborted", "CAN")
  /\ UNCHANGED <<file, up, u2d, errors>>

DamageByte(i) ==
  /\ errors < MaxErrors
  /\ u2d[i].t = "byte"
  /\ u2d' = [u2d EXCEPT ![i].n = (@ + 1) % 256]
  /\ errors' = errors + 1
  /\ UNCHANGED <<file, up, down, d2u>>

UpStep == UpRead \/ (\E n \in 0..Len(up.out) : UpWrite(n)) \/ UpTimeout
DownStep == DownRead \/ DownTimeout

Finished == up.state \in Ended /\ down.state \in Ended /\ UNCHANGED vars

Next ==
  \/ UpStep \/ DownStep \/ UpCancel \/ DownCancel
  \/ \E i \in DOMAIN u2d : DamageByte(i)
  \/ Finished

Spec == Init /\ [][Next]_vars

\* Both programs run on; the link delivers what is written.
FairSpec == Spec /\ WF_vars(UpStep) /\ WF_vars(DownStep)

-----------------------------------------------------------------------------
(* Properties *)

\* Shape of the state.
TypeOK ==
  /\ up.state \in UpStates /\ up.yappc \in {0, 1} /\ up.pos \in 0..file.size
  /\ Len(up.out) <= readlen + 1 /\ up.total \in 0..(file.size + 1)
  /\ down.state \in DownStates /\ down.yappc \in {0, 1}
  /\ down.filefd \in {"open", "none"}
  /\ down.state = "RD" => down.filefd = "open"
  /\ Len(down.data) <= file.size + readlen
  /\ errors \in 0..MaxErrors

\* What has been written to the file is the beginning of the file sent: both
\* sides agree on where a block ends and whether a checksum follows it.  In
\* YAPP C this holds with one changed byte too; two can make up for each
\* other.  It does not hold once the upload is cancelled in the middle of a
\* block, whose rest is then taken from the CAN message.
Integrity ==
  /\ errors <= down.yappc
  /\ ~(up.state = "aborted" /\ up.out # <<>>)
  =>
    /\ Len(down.data) <= file.size
    /\ \A i \in DOMAIN down.data : down.data[i] = i

\* An upload that ends without an abort has delivered the whole file, and
\* the count of bytes it reports is the size of the file.
DoneMeansDelivered ==
  up.state = "done" => down.state = "done" /\ Len(down.data) = file.size /\ up.total = file.size

\* yapp.c: the shapes of the two machines; a file reported done is the one
\* offered, and done on both sides unless a reply came too late.
YappSafe == TypeOK /\ Integrity /\ DoneMeansDelivered

\* Nobody waits for ever: both sides end, with success or an abort.
BothEnd == <>(up.state \in Ended /\ down.state \in Ended)

\* Left alone, two stations transfer a file that is not empty, into a new
\* file or by plain YAPP.
Undisturbed ==
  (up.state = "S" /\ down.state = "R" /\ down.filefd = "open" /\ file.size > 0
     /\ (file.existing = 0 \/ ~file.time))
  => <>(up.state = "done" /\ down.state = "done")
=============================================================================
