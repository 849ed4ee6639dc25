------------------------------ MODULE TtyLink ------------------------------
(***************************************************************************)
(* ttylinkd: pages the sysop through the talk daemons of both machines and *)
(* then passes the lines of the sysop and of the user.  The talk daemons   *)
(* are external: a request or its answer may be lost, or come late.        *)
(***************************************************************************)
EXTENDS Integers, Sequences, FiniteSets, SequencesExt

CONSTANTS
  Families,     \* "inet", "ax25": how the user came
  Limit,        \* 80 in the program
  Keys,         \* what the sysop may send: symbols
  Chunks,       \* what a read from the user may return
  MaxFaults, MaxKeys, MaxChunks         \* bounds

\* The three characters that the talk program of the sysop sends first.
Erase == 8
Kill == 21
WordErase == 23
Daemons == {"my", "rem"}
NoAnswer == [answer |-> FALSE, id |-> 0]

VARIABLES
  family, bigEndian,
  pc,           \* "lookup", "announce", "invite", "accept", "delete", "delete_rem", "talk", "end"
  queue,        \* answers at the control socket
  invites, ids, \* external: the invitations of each daemon; the last id given
  local_id, remote_id,
  armed, faults,
  outbuf, bptr, \* the buffer of send_sysop_data; bytes of it in use
  line, typed,  \* history: the line as the sysop edits it; keys so far
  toUser, meant,        \* history: sent to the user, and what the lines ask for
  fromUser, toSysop     \* history: the chunks of the user, and what is sent on
control == <<queue, invites, ids, local_id, remote_id, armed, faults>>
talk == <<outbuf, bptr, line, typed, toUser, meant, fromUser, toSysop>>
vars == <<family, bigEndian, pc, control, talk>>

Init ==
  /\ family \in Families /\ bigEndian \in BOOLEAN /\ pc = "lookup"
  /\ queue = <<>> /\ invites = [d \in Daemons |-> {}] /\ ids = 0
  /\ local_id = 0 /\ remote_id = 0 /\ armed = FALSE /\ faults = 0
  /\ outbuf = [i \in 0..(Limit + 1) |-> 0] /\ bptr = 0 /\ line = <<>> /\ typed = 0
  /\ toUser = <<>> /\ meant = <<>> /\ fromUser = <<>> /\ toSysop = <<>>

-----------------------------------------------------------------------------
(* The talk daemons *)

\* Answer of daemon d to msg, and its invitations behind it.
Handle(d, msg) ==
  CASE msg.type = "LOOK_UP" -> {[answer |-> FALSE, id |-> 0, left |-> invites[d], ids |-> ids]}
    [] msg.type \in {"ANNOUNCE", "LEAVE_INVITE"} ->
         {[answer |-> TRUE, id |-> ids + 1, left |-> invites[d] \cup {ids + 1}, ids |-> ids + 1]}
         \cup (IF msg.type = "ANNOUNCE" THEN {[answer |-> FALSE, id |-> 0, left |-> invites[d], ids |-> ids]} ELSE {})
    [] msg.type = "DELETE" -> {[answer |-> TRUE, id |-> msg.id, left |-> invites[d] \ {msg.id}, ids |-> ids]}

\* The oldest answer that waits is taken, whatever it answers, or none when
\* RING_WAIT passes without one: what the request may come to.
send_control(d, msg) ==
  {LET reply == <<[answer |-> r.answer, id |-> r.id]>>
       now == queue \o (IF fate = "answered" THEN reply ELSE <<>>)
   IN [got |-> IF now = <<>> THEN NoAnswer ELSE Head(now),
       queue |-> (IF now = <<>> THEN <<>> ELSE Tail(now)) \o (IF fate = "late" THEN reply ELSE <<>>),
       invites |-> IF fate = "unheard" THEN invites ELSE [invites EXCEPT ![d] = r.left],
       ids |-> IF fate = "unheard" THEN ids ELSE r.ids,
       faults |-> faults + (IF fate = "answered" THEN 0 ELSE 1)]
   : r \in Handle(d, msg),
     fate \in IF faults < MaxFaults THEN {"answered", "late", "lost", "unheard"} ELSE {"answered"}}
Asked(o) == queue' = o.queue /\ invites' = o.invites /\ ids' = o.ids /\ faults' = o.faults

\* The ids of the answers are in network order already: on a little-endian
\* machine htonl turns them round.
htonl(id) == IF bigEndian THEN id ELSE 0 - id

-----------------------------------------------------------------------------
(* main *)

LookUp == /\ pc = "lookup"
          /\ \E o \in send_control("rem", [type |-> "LOOK_UP", id |-> 0]) : Asked(o)
          /\ pc' = "announce"
          /\ UNCHANGED <<family, bigEndian, local_id, remote_id, armed, talk>>
Announced(r) == IF r.answer THEN pc' = "invite" /\ remote_id' = r.id ELSE pc' = "end" /\ UNCHANGED remote_id
Announce == /\ pc = "announce" /\ \E o \in send_control("rem", [type |-> "ANNOUNCE", id |-> 0 - 1]) :
                                      Asked(o) /\ Announced(o.got)
            /\ UNCHANGED <<family, bigEndian, local_id, armed, talk>>
Invited(r) == IF r.answer THEN pc' = "accept" /\ local_id' = r.id /\ armed' = TRUE
              ELSE pc' = "end" /\ UNCHANGED <<local_id, armed>>
Invite == /\ pc = "invite" /\ \E o \in send_control("my", [type |-> "LEAVE_INVITE", id |-> 0 - 1]) :
                                   Asked(o) /\ Invited(o.got)
          /\ UNCHANGED <<family, bigEndian, remote_id, talk>>

\* The handler set with signal() returns, and accept starts again: the daemon
\* waits on, and is not reminded a second time.
alarm_handle == pc = "accept" /\ armed /\ armed' = FALSE
                /\ UNCHANGED <<family, bigEndian, pc, queue, invites, ids, local_id, remote_id, faults, talk>>
Accept == pc = "accept" /\ pc' = "delete" /\ armed' = FALSE
          /\ UNCHANGED <<family, bigEndian, queue, invites, ids, local_id, remote_id, faults, talk>>
Delete == /\ pc = "delete"
          /\ \E o \in send_control("my", [type |-> "DELETE", id |-> htonl(local_id)]) : Asked(o)
          /\ pc' = "delete_rem"
          /\ UNCHANGED <<family, bigEndian, local_id, remote_id, armed, talk>>
\* The characters of both ends follow: short of them there is no talk.
DeleteRem == /\ pc = "delete_rem"
             /\ \E o \in send_control("rem", [type |-> "DELETE", id |-> htonl(remote_id)]) : Asked(o)
             /\ pc' \in {"talk", "end"}
             /\ UNCHANGED <<family, bigEndian, local_id, remote_id, armed, talk>>

-----------------------------------------------------------------------------
(* do_talk *)

Newline == IF family = "inet" THEN <<13, 10>> ELSE <<13>>
\* Where word-erase stops: it looks at the byte behind the text first, which is
\* left from an earlier, longer line.
WordStart == CHOOSE i \in 0..bptr : /\ i = 0 \/ outbuf[i] = 32
                                    /\ \A j \in (i + 1)..bptr : outbuf[j] # 32
Stored(text) == [i \in DOMAIN outbuf |-> IF i \in bptr..(bptr + Len(text) - 1) THEN text[i - bptr + 1] ELSE outbuf[i]]
\* Mutant: the buffer is only written out with a newline, or when it is full.
FullLate(n) == n > Limit + 1
\* More than 80 bytes are sent without one.
Full(n) == n > Limit

\* One byte from the sysop; l: what is meant by it.
send_sysop_data(c) ==
  /\ pc = "talk" /\ typed < MaxKeys /\ typed' = typed + 1
  /\ CASE c = Erase -> /\ bptr' = IF bptr > 0 THEN bptr - 1 ELSE 0
                       /\ line' = IF line = <<>> THEN line ELSE Front(line)
                       /\ UNCHANGED <<outbuf, toUser, meant>>
       [] c = Kill -> bptr' = 0 /\ line' = <<>> /\ UNCHANGED <<outbuf, toUser, meant>>
       [] c = WordErase -> /\ bptr' = WordStart /\ line' = SubSeq(line, 1, WordStart)
                           /\ UNCHANGED <<outbuf, toUser, meant>>
       [] OTHER ->
            LET text == IF c = 10 THEN Newline ELSE <<c>>
                n == bptr + Len(text)
                new == Stored(text)
            IN /\ outbuf' = new
               /\ IF c = 10 \/ Full(n)
                  THEN /\ toUser' = toUser \o [i \in 1..n |-> new[i - 1]] /\ bptr' = 0
                       /\ meant' = meant \o line \o text /\ line' = <<>>
                  ELSE bptr' = n /\ line' = line \o text /\ UNCHANGED <<toUser, meant>>
  /\ UNCHANGED <<family, bigEndian, pc, control, fromUser, toSysop>>

\* CR LF and CR NUL are one newline from TELNET; behind the last byte of a read
\* lies what an earlier one left, and that byte is not sent either way.
Byte(f, r, c) ==
  IF r.skip /\ c \in {0, 10} THEN [r EXCEPT !.skip = FALSE]
  ELSE [out |-> Append(r.out, IF c = 13 THEN 10 ELSE c), skip |-> f = "inet" /\ c = 13]
Sent(f, bytes) == FoldLeft(LAMBDA r, c : Byte(f, r, c), [out |-> <<>>, skip |-> FALSE], bytes).out
send_user_data(chunk) ==
  /\ pc = "talk" /\ Len(fromUser) < MaxChunks
  /\ fromUser' = Append(fromUser, chunk) /\ toSysop' = toSysop \o Sent(family, chunk)
  /\ UNCHANGED <<family, bigEndian, pc, control, outbuf, bptr, line, typed, toUser, meant>>

do_talk_ends == pc = "talk" /\ pc' = "end" /\ UNCHANGED <<family, bigEndian, control, talk>>

Next == \/ LookUp \/ Announce \/ Invite \/ alarm_handle \/ Accept \/ Delete \/ DeleteRem
        \/ (\E c \in Keys : send_sysop_data(c)) \/ (\E b \in Chunks : send_user_data(b)) \/ do_talk_ends

-----------------------------------------------------------------------------
\* ttylinkd.c:536: the user reads the lines of the sysop as they are edited, none
\* of what is erased and nothing of an earlier line, and a line that is too long
\* in parts: the two bytes of a newline still fit behind 80.
SysopRead ==
  /\ toUser = meant /\ bptr = Len(line) /\ bptr <= Limit
  /\ \A i \in DOMAIN line : outbuf[i - 1] = line[i]

\* ttylinkd.c:600: the sysop reads what the user wrote, each CR, CR LF or CR NUL
\* as one newline, however the reads cut it: but for a CR LF cut in the middle.
CutApart == \E i \in 1..(Len(fromUser) - 1) :
              fromUser[i] # <<>> /\ Last(fromUser[i]) = 13 /\ fromUser[i + 1] # <<>> /\ fromUser[i + 1][1] \in {0, 10}
UserRead == family # "inet" \/ ~CutApart => toSysop = Sent(family, FlattenSeq(fromUser))

\* ttylinkd.c:396: who talks to the sysop has left no invitation with a daemon,
\* if each answered in time; on a little-endian machine both always stay.
InvitesGone ==
  pc = "talk" /\ faults = 0 =>
    IF bigEndian THEN \A d \in Daemons : invites[d] = {}
    ELSE invites["my"] = {local_id} /\ invites["rem"] = {remote_id}
=============================================================================
