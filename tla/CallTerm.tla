------------------------------ MODULE CallTerm -------------------------------
(***************************************************************************)
(* A session of call: what the far station sends, in packets of any size,  *)
(* goes to the screen, the log and a 7plus file; what the user types goes  *)
(* out or is a ~ command.  Screen layout, encodings and the transfers      *)
(* themselves (AutoBin, Yapp) are left out: an upload is the number of its *)
(* blocks still to be sent.                                                *)
(***************************************************************************)
EXTENDS CallKeys

CONSTANTS
  Streams,              \* what the far station may send
  stop7plus,            \* the key word that ends a 7plus file; 2nd of key_words starts one
  UploadBlocks,
  inactivity_timeout_is_set, wait_for_remote_disconnect,
  MaxPacket, MaxLines, MaxSessions

go7plus == 2
VARIABLES
  stream, pos,          \* what is sent in this session, how much has come
  line,                 \* of the search
  out,                  \* history: what has come, in the order it was dealt with
  log, logfile,         \* contents; open?
  plus, downloadfile, sevenplus,
  screen,               \* history: text shown
  upload,               \* blocks left, -1 without a file
  EOF_on_STDIN, interrupted, reconnect,
  pc,                   \* "loop", "done", "wait"
  lines, sessions,      \* history: lines typed, connections made
  idled,                \* history: ended by the timeout while data went
  from, gone, carry     \* history: where the 7plus file began in out, where command lines
                        \* are in it, what was held when the session began
vars == <<stream, pos, line, out, log, logfile, plus, downloadfile, sevenplus, screen, upload,
          EOF_on_STDIN, interrupted, reconnect, pc, lines, sessions, idled, from, gone, carry>>
FarVars == <<pos, line, out, log, plus, screen, sevenplus, from, gone, carry, stream, sessions>>

Init == /\ stream \in Streams /\ pos = 0 /\ line = NoLine /\ out = <<>> /\ log = <<>> /\ logfile = FALSE
        /\ plus = <<>> /\ downloadfile = FALSE /\ sevenplus = FALSE /\ screen = <<>> /\ upload = -1
        /\ EOF_on_STDIN = FALSE /\ interrupted = FALSE /\ reconnect = FALSE /\ pc = "loop"
        /\ lines = 0 /\ sessions = 1 /\ idled = FALSE /\ from = 0 /\ gone = {} /\ carry = <<>>

-----------------------------------------------------------------------------
(* What comes from the far station *)

convert_cr_lf(s) == [i \in DOMAIN s |-> IF s[i] = "CR" THEN "LF" ELSE s[i]]

\* The state the loop over one packet works on.
State == [line |-> line, out |-> out, log |-> log, logfile |-> logfile, plus |-> plus,
          downloadfile |-> downloadfile, sevenplus |-> sevenplus, screen |-> screen, from |-> from, gone |-> gone]

\* Text of a 7plus file is not shown; what goes to the file is not logged.
Text(st, text) ==
  LET t == convert_cr_lf(text)
  IN [st EXCEPT !.out = @ \o text,
                !.screen = IF st.sevenplus THEN @ ELSE @ \o t,
                !.plus = IF st.downloadfile THEN @ \o t ELSE @,
                !.log = IF st.logfile /\ ~st.downloadfile THEN @ \o t ELSE @]

\* A header without its fields is none.
sevenplname(st, parms) ==
  IF parms = <<>> \/ Head(parms) # "1" THEN st
  ELSE [st EXCEPT !.plus = key_words[go7plus] \o convert_cr_lf(parms), !.downloadfile = TRUE,
                  !.sevenplus = TRUE, !.from = Len(st.out)]
Stop7plus(st, parms) ==
  IF ~st.sevenplus THEN st
  ELSE [st EXCEPT !.plus = IF st.downloadfile THEN @ \o key_words[stop7plus] \o convert_cr_lf(parms) ELSE @,
                  !.sevenplus = FALSE, !.downloadfile = FALSE]
\* The command line is out of the text, whatever it does.
Done(st, s) ==
  LET w == [st EXCEPT !.out = @ \o key_words[s.com] \o s.parms]
      away == (Len(st.out) + 1)..Len(w.out)
  IN CASE s.com = go7plus ->
            LET n == sevenplname(st, s.parms)
            IN [n EXCEPT !.out = w.out, !.gone = IF n = st THEN @ \cup away ELSE @]
       [] s.com = stop7plus -> Stop7plus(w, s.parms)
       [] OTHER -> [w EXCEPT !.gone = @ \cup away]

\* The loop: text, command, and again for the rest.
RECURSIVE Dealt(_, _)
Dealt(st, buf) ==
  LET s == searche_key_words(st.line, buf)
      t == Text([st EXCEPT !.line = s.line], s.text)
      u == IF s.com = 0 THEN t ELSE Done(t, s)
  IN IF s.rest = <<>> THEN u ELSE Dealt(u, s.rest)

\* The end of a turn of the loop writes a block of the upload, if it can.
Sends == upload' = upload \/ (upload >= 0 /\ upload' = upload - 1)

FromFar ==
  /\ pc = "loop" /\ pos < Len(stream)
  /\ \E n \in 1..MaxPacket :
       /\ pos + n <= Len(stream) /\ pos' = pos + n
       /\ \E st \in {Dealt(State, SubSeq(stream, pos + 1, pos + n))} :
            /\ line' = st.line /\ out' = st.out /\ log' = st.log /\ logfile' = st.logfile /\ plus' = st.plus
            /\ downloadfile' = st.downloadfile /\ sevenplus' = st.sevenplus /\ screen' = st.screen
            /\ from' = st.from /\ gone' = st.gone
  /\ Sends
  /\ UNCHANGED <<stream, EOF_on_STDIN, interrupted, reconnect, pc, lines, sessions, idled, carry>>

-----------------------------------------------------------------------------
(* The end of the session *)

\* The line held back by the search is kept for the next session.
Leave(again) == /\ pc' = (IF again THEN "wait" ELSE "done") /\ logfile' = FALSE /\ downloadfile' = FALSE
Stay == UNCHANGED <<pc, logfile, downloadfile>>
\* An EOF of the far station, behind all it sent.
FarCloses ==
  /\ pc = "loop" /\ pos = Len(stream) /\ reconnect' = FALSE /\ Leave(FALSE)
  /\ UNCHANGED <<FarVars, upload, EOF_on_STDIN, interrupted, lines, idled>>
ConnectionLost ==
  /\ pc = "loop" /\ Leave(reconnect)
  /\ UNCHANGED <<FarVars, upload, EOF_on_STDIN, interrupted, reconnect, lines, idled>>
\* SIGQUIT
cmd_intr ==
  /\ pc = "loop" /\ interrupted' = TRUE /\ Leave(reconnect)
  /\ UNCHANGED <<FarVars, upload, EOF_on_STDIN, reconnect, lines, idled>>
\* pselect returns with nothing to read: after the timeout, or at once with a
\* file open.
Idle == inactivity_timeout_is_set
InactivityTimeout ==
  /\ pc = "loop" /\ Idle /\ Leave(reconnect) /\ idled' = (upload # -1 \/ downloadfile)
  /\ UNCHANGED <<FarVars, upload, EOF_on_STDIN, interrupted, reconnect, lines>>
\* main waits a minute and calls again; only what is static stays.
Reconnect ==
  /\ pc = "wait" /\ sessions < MaxSessions
  /\ \/ /\ pc' = "done" /\ UNCHANGED <<FarVars, upload, EOF_on_STDIN, interrupted, reconnect, logfile, downloadfile>>
     \/ /\ stream' \in Streams /\ pos' = 0 /\ out' = <<>> /\ upload' = -1 /\ pc' = "loop"
        /\ sevenplus' = FALSE /\ EOF_on_STDIN' = FALSE /\ interrupted' = FALSE /\ reconnect' = FALSE
        /\ from' = 0 /\ gone' = {} /\ sessions' = sessions + 1 /\ carry' = line.held /\ screen' = <<>> /\ log' = <<>>
        /\ UNCHANGED <<line, plus, logfile, downloadfile>>
  /\ UNCHANGED <<lines, idled>>

-----------------------------------------------------------------------------
(* The user and the upload *)

\* A line that is no command, or an EOF, is where interrupted is looked at.
UserText ==
  /\ pc = "loop" /\ ~EOF_on_STDIN /\ lines < MaxLines /\ lines' = lines + 1
  /\ \E eof \in BOOLEAN :
       /\ EOF_on_STDIN' = eof
       /\ IF interrupted \/ (eof /\ ~wait_for_remote_disconnect)
          THEN Leave(reconnect) /\ UNCHANGED <<sevenplus, upload>>
          ELSE Stay /\ sevenplus' = (sevenplus /\ eof) /\ (IF eof THEN Sends ELSE upload' = upload)
  /\ UNCHANGED <<pos, line, out, log, plus, screen, from, gone, carry, stream, sessions,
                 interrupted, reconnect, idled>>

Close == /\ interrupted' = TRUE /\ Leave(reconnect) /\ UNCHANGED <<upload, reconnect, log>>
\* ~r only marks the session for its end.
AskReconnect == /\ interrupted' = TRUE /\ reconnect' = TRUE /\ Stay
                /\ UNCHANGED <<upload, log>>
OpenLog == /\ pc' = pc /\ downloadfile' = FALSE /\ logfile' \in BOOLEAN /\ log' = <<>>
           /\ UNCHANGED <<upload, interrupted, reconnect>>
CloseLog == /\ logfile' = FALSE /\ UNCHANGED <<pc, downloadfile, upload, interrupted, reconnect, log>>
StartUpload == /\ upload = -1 /\ upload' \in UploadBlocks /\ Stay
               /\ UNCHANGED <<interrupted, reconnect, log>>
StopUpload == /\ upload' = -1 /\ Stay /\ UNCHANGED <<interrupted, reconnect, log>>

Tilde ==
  /\ pc = "loop" /\ ~EOF_on_STDIN /\ lines < MaxLines /\ lines' = lines + 1
  /\ Close \/ AskReconnect \/ OpenLog \/ CloseLog \/ StartUpload \/ StopUpload
  /\ UNCHANGED <<pos, line, out, plus, screen, sevenplus, from, gone, carry, stream, sessions, EOF_on_STDIN, idled>>

\* A turn with nothing to read, which with -T is the last one.
Upload ==
  /\ pc = "loop" /\ ~inactivity_timeout_is_set /\ upload >= 0 /\ upload' = upload - 1
  /\ UNCHANGED <<FarVars, EOF_on_STDIN, interrupted, reconnect, pc, logfile, downloadfile, lines, idled>>

Next == \/ FromFar \/ FarCloses \/ ConnectionLost \/ cmd_intr \/ InactivityTimeout \/ Reconnect
        \/ UserText \/ Tilde \/ Upload

\* The loop serves what is ready; main calls again.
Spec == Init /\ [][Next]_vars /\ WF_vars(FromFar) /\ WF_vars(Upload) /\ WF_vars(Reconnect)

-----------------------------------------------------------------------------
\* call.c:1845: no byte that comes is lost, doubled or out of order in the
\* search for commands, however the stream is cut into packets; a line held
\* when the session before ended comes first.
Accounted == out \o line.held = carry \o SubSeq(stream, 1, pos)

\* call.c:2240, 1924: a 7plus file is the text from its first line on, whole
\* and in order, until its last line or the user's next one; only the lines
\* of other commands are not in it.
SevenPlus == sevenplus /\ downloadfile =>
               plus = convert_cr_lf(FoldLeft(LAMBDA s, i : IF i <= from \/ i \in gone THEN s ELSE Append(s, out[i]),
                                             <<>>, [i \in DOMAIN out |-> i]))
CallText == Accounted /\ SevenPlus

\* call.1: "Set idle timeout seconds after a connection will be closed
\* automatically when there's no data being transferred (in- and outbound)."
IdleOnly == ~idled
=============================================================================
