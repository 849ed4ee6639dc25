----------------------------- MODULE MCSessions -----------------------------
(***************************************************************************)
(* The programs of a session and the daemons beside them.  A behaviour     *)
(* runs one of Parts.  Those of call and of the login have variables of    *)
(* their own, which stay as they are in the others:                        *)
(*   yapp:  YAPP transfers as the .cfg has them;                           *)
(*   calm:  YAPP with no slow reply, no cancel and no changed byte;        *)
(*   bin:   #BIN# transfers between call, bget and bput, with blocks of    *)
(*          two bytes in call and three in bget;                           *)
(*   term:  a session with 7plus files, a log, an upload and the ~         *)
(*          commands with -W, that can be followed by one more;            *)
(*   timed: one with -T;                                                   *)
(*   login, useradd: two callers with one callsign, with the entry written *)
(*          by axspawn and by useradd.                                     *)
(* The variables of the others are the slots s1 to s19, in order; a slot   *)
(* that a part does not use is 0:                                          *)
(*   axspawn:  a short queue and packets of two bytes;                     *)
(*   huffman:  codes of 3, 7 and 10 bits;                                  *)
(*   ax25io, axwrapper, user_call, rose, rosesigned: short buffers;        *)
(*   ax25d:    two files, with ports and entries of every kind;            *)
(*   ax25mond: two sockets of six lines, two places for three clients;     *)
(*   rxecho:   two lines for one interface and one back;                   *)
(*   ttylink:  lines of two bytes;                                         *)
(*   callsign: texts of five symbols, callsigns of two;                    *)
(*   ports:    lines that clash, and interfaces that come and go;          *)
(*   ipdconf:  three heads of a file and two lines more.                   *)
(***************************************************************************)
EXTENDS Yapp, AxspawnLogin

CONSTANT Parts

VARIABLES part,
  afile, pair, tx, rx, s2r, r2s, calm, typed,
  stream, pos, line, out, log, logfile, plus, downloadfile, sevenplus, screen, upload, EOF_on_STDIN,
  interrupted, reconnect, pc, lines, sessions, idled, from, gone, carry

Calm == INSTANCE Yapp WITH Slow <- FALSE, MayCancel <- FALSE, MaxErrors <- 0

\* An empty file, one with a line that aborts, one that ends in a full block.
MCFiles == {<<>>, <<"x">>, <<"x", "CR", "x">>, <<"CR", "ABORT", "CR", "x">>, <<"x", "x", "CR", "x", "CR">>}
Bin == INSTANCE AutoBin
  WITH Files <- MCFiles, Pairs <- {"call", "bget", "pipe", "stream"} \X {"call", "bput"},
       UplBuf <- 2, BLOCKSIZ <- 3, MayMerge <- TRUE, MayFail <- TRUE, MayStop <- TRUE, MaxTyped <- 2,
       file <- afile

\* A whole 7plus file between two texts; a command and a line that only looks
\* like one, with a header of no fields; a file that ends the session, whose
\* last line begins a key word.
MCKeys == <<<<"/", "/">>, <<"g", "o">>, <<"s", "t">>>>
MCStreams == {<<"a", "CR", "g", "o", "1", "CR", "b", "CR", "s", "t", "2", "CR", "c">>,
              <<"/", "/", "a", "CR", "/", "x", "CR", "g", "o", "2", "CR">>,
              <<"g", "o", "1", "b", "CR", "x", "CR", "s", "t", "CR", "y", "g", "o">>}
Term == INSTANCE CallTerm
  WITH key_words <- MCKeys, MAX_CMPSTRLEN <- 5, Streams <- MCStreams, stop7plus <- 3,
       UploadBlocks <- {0, 1}, inactivity_timeout_is_set <- FALSE, wait_for_remote_disconnect <- TRUE,
       MaxPacket <- 4, MaxLines <- 1, MaxSessions <- 2
Timed == INSTANCE CallTerm
  WITH key_words <- MCKeys, MAX_CMPSTRLEN <- 5, Streams <- MCStreams, stop7plus <- 3,
       UploadBlocks <- {0, 1}, inactivity_timeout_is_set <- TRUE, wait_for_remote_disconnect <- FALSE,
       MaxPacket <- 4, MaxLines <- 1, MaxSessions <- 1

bin == <<afile, pair, tx, rx, s2r, r2s, calm, typed>>
term == <<stream, pos, line, out, log, logfile, plus, downloadfile, sevenplus, screen, upload, EOF_on_STDIN,
          interrupted, reconnect, pc, lines, sessions, idled, from, gone, carry>>

LoginParts == {"login", "useradd"}
CallParts == {"yapp", "calm", "bin", "term", "timed"}
CallInit ==
  /\ part \in Parts /\ Init /\ Bin!Init /\ Term!Init
  /\ part \notin {"yapp", "calm"} =>
       /\ file = [size |-> 0, existing |-> 0, time |-> FALSE]
       /\ up.state = "aborted" /\ down.state = "aborted"
  /\ part # "bin" => afile = <<>> /\ pair = <<"call", "call">>
  /\ part \notin {"term", "timed"} => Len(stream) = 11

CallNext ==
  /\ part' = part
  /\ \/ part = "yapp" /\ Next /\ UNCHANGED <<bin, term>>
     \/ part = "calm" /\ Calm!Next /\ UNCHANGED <<bin, term>>
     \/ part = "bin" /\ Bin!Next /\ UNCHANGED <<vars, term>>
     \/ part = "term" /\ Term!Next /\ UNCHANGED <<vars, bin>>
     \/ part = "timed" /\ Timed!Next /\ UNCHANGED <<vars, bin>>

\* The programs run on; the link delivers what is written.
CallFair ==
  /\ WF_vars(part = "yapp" /\ UpStep) /\ WF_vars(part = "yapp" /\ DownStep)
  /\ WF_vars(part = "calm" /\ Calm!UpStep) /\ WF_vars(part = "calm" /\ Calm!DownStep)
  /\ WF_bin(part = "bin" /\ Bin!Step)

-----------------------------------------------------------------------------
VARIABLES s1, s2, s3, s4, s5, s6, s7, s8, s9, s10, s11, s12, s13, s14, s15, s16, s17, s18, s19
slots == <<s1, s2, s3, s4, s5, s6, s7, s8, s9, s10, s11, s12, s13, s14, s15, s16, s17, s18, s19>>

From17 == s17 = 0 /\ s18 = 0 /\ s19 = 0
From16 == s16 = 0 /\ From17
From15 == s15 = 0 /\ From16
From14 == s14 = 0 /\ From15
From9 == s9 = 0 /\ s10 = 0 /\ s11 = 0 /\ s12 = 0 /\ s13 = 0 /\ From14
From8 == s8 = 0 /\ From9
From6 == s6 = 0 /\ s7 = 0 /\ From8
From5 == s5 = 0 /\ From6
From2 == s2 = 0 /\ s3 = 0 /\ s4 = 0 /\ From5

-----------------------------------------------------------------------------
Spawn == INSTANCE Axspawn
  WITH paclen <- 2, QueueFactor <- 2, HuffSize <- 3, MaxOutput <- 3, MaxBusy <- 1, MaxCommands <- 1,
       Output <- {<<65>>, <<66, 67, 13>>, <<10, 68>>, <<13, 10, 69, 70>>, <<-1>>, <<-2>>},
       Code <- (32 :> <<1, 1, 0>> @@ 101 :> <<0, 1, 0>> @@ 65 :> <<0, 0, 1, 1, 1, 0, 0>>
                @@ 9 :> <<1, 1, 1, 1, 0, 0, 1, 1, 0, 1>>),
       DestSize <- 259, MaxWord <- 5,
       wqueue <- s1, alarm <- s2, last_ended_with_CR <- s3, bin <- s4, huffman <- s5,
       child <- s6, state <- s7, out <- s8, fed <- s9, reads <- s10,
       busy <- s11, commands <- s12, dropped <- s13, word <- s1

L(name, kind, long) == [name |-> name, kind |-> kind, long |-> long]
UserAdds == INSTANCE AxspawnLogin WITH UserAdd <- TRUE, MaxAdmin <- 0
MCName == [a1 |-> "a", a2 |-> "a"]
MCKnown == [root |-> 0]
MCSystemLines == {<<>>, <<L("a", "md5", TRUE)>>, <<L("b", "sys", FALSE), L("a", "only", TRUE)>>,
                  <<L("-", "only", TRUE), L("a", "unix", TRUE), L("a", "md5", TRUE)>>}
MCHomeLines == {<<>>, <<L("-", "bad", TRUE), L("-", "md5", TRUE)>>, <<L("-", "sys", FALSE)>>}

Io == INSTANCE Ax25io
  WITH AXBUFLEN <- 8, paclen <- 3, eol <- <<13, 10>>, Waits <- TRUE, telnetmode <- TRUE,
       Strings <- {<<65>>, <<66, 10>>, <<255, 67, 68>>},
       Packets <- {<<97>>, <<13, 10>>, <<98, 13>>, <<10>>, <<255, 253, 24>>, <<255, 250, 1, 2, 255, 240>>},
       MaxStrings <- 2, MaxPackets <- 3, MaxBusy <- 1,
       obuf <- s1, optr <- s2, gbuf <- s3, gbuf_usage <- s4, sock <- s5,
       tn_echo <- s6, out <- s7, given <- s8, came <- s9, lines <- s10,
       strings <- s11, packets <- s12, busy <- s13, again <- s14

Wrap == INSTANCE Axwrapper
  WITH paclen <- 2, BufSize <- 3, Typed <- {<<65, 13>>}, Output <- {<<97, 10, 98, 10>>, <<99>>},
       MaxTyped <- 1, MaxOutput <- 2,
       pc <- s1, fdset <- s2, stdin <- s3, pipe_in <- s4, pipe_out <- s5,
       pipe_err <- s6, shut <- s7, outbuf <- s8, user <- s9, typed <- s10,
       output <- s11, by <- s12, ntyped <- s13, noutput <- s14

User == INSTANCE UserCall
  WITH Programs <- {"ax25_call", "netrom_call", "rose_call", "tcp_call"}, paclen_in <- 2, paclen_out <- 3,
       connect_seconds <- 2, BUFLEN <- 4, MaxData <- 3,
       program <- s1, pc <- s2, step <- s3, armed <- s4, waited <- s5,
       said <- s6, far <- s7, user <- s8, toUser <- s9, toFar <- s10,
       pending <- s11, set <- s12, why <- s13

Rose(Signed) == INSTANCE RoseLink
  WITH CharSigned <- Signed, Pids <- {240, 207}, Bodies <- {"x"},
       Addresses <- {[dnic |-> "2080", addr |-> "833501"], [dnic |-> "2620", addr |-> "833501"]},
       Digis <- {"D1", "D2"}, Timeout <- 1, MaxFrames <- 2,
       pc <- s1, waited <- s2, rose <- s3, sent <- s4, got <- s5

-----------------------------------------------------------------------------
P(port, af) == [k |-> "port", port |-> port, af |-> af, base |-> "-", ssid |-> "-", node |-> "-", t1 |-> 0,
                whole |-> TRUE, flags |-> {}, check |-> 0, login |-> FALSE, disc |-> FALSE, prog |-> "-"]
Params(t1) == [P("-", "ax25") EXCEPT !.k = "params", !.t1 = t1]
Vc(check, login, disc) == [P("-", "ax25") EXCEPT !.k = "vc", !.check = check, !.login = login, !.disc = disc]
Entry(base, ssid, prog) == [P("-", "ax25") EXCEPT !.k = "entry", !.base = base, !.ssid = ssid, !.prog = prog]
F1 == <<P("x", "ax25"), Params(3), Vc(1, TRUE, TRUE), Entry("A", "1", "p1"), [Entry("A", "any", "p2") EXCEPT !.flags = {"l"}],
        Vc(3, FALSE, FALSE), [Entry("default", "any", "p3") EXCEPT !.t1 = 5, !.flags = {"d"}],
        P("n", "netrom"), [Entry("default", "any", "p4") EXCEPT !.node = "M"],
        [Entry("A", "any", "p5") EXCEPT !.whole = FALSE], Entry("B", "any", "p6")>>
F2 == <<Entry("A", "any", "p7"), P("z", "ax25"), Entry("A", "any", "p8"), P("n", "netrom"), Entry("default", "any", "p9"),
        P("x", "ax25"), Entry("A", "any", "p10")>>
C(port, base, ssid, node, digis) == [port |-> port, base |-> base, ssid |-> ssid, node |-> node, digis |-> digis]

D == INSTANCE Ax25d
  WITH Files <- {F1, F2}, Known <- {"x", "n"}, VcUsers <- {"A", "B"},
       Calls <- {C("x", "A", "1", "-", FALSE), C("x", "A", "2", "-", FALSE), C("x", "B", "0", "-", TRUE),
                 C("n", "A", "1", "M", FALSE), C("n", "B", "1", "O", FALSE)},
       MaxCalls <- 1, MaxSignals <- 1, MaxEdits <- 1, MaxDowns <- 1, MaxErrors <- 1, MaxWords <- 1,
       AXL <- s1, file <- s2, loaded <- s3, unread <- s4, down <- s5,
       timer <- s6, signals <- s7, ReloadPending <- s8, TermPending <- s9, pc <- s10,
       fdread <- s11, kids <- s12, started <- s13, calls <- s14, sent <- s15,
       edits <- s16, downs <- s17, errors <- s18, words <- s19

M(mode, sound, bound) == [mode |-> mode, sound |-> sound, bound |-> bound]
Mond == INSTANCE Ax25mond
  WITH Lines <- <<M(0, TRUE, TRUE), M(1, FALSE, TRUE), M(1, TRUE, FALSE), M(2, TRUE, TRUE), M(1, TRUE, TRUE), M(0, TRUE, TRUE)>>,
       MAX_SOCKETS <- 2, MAX_CONNECTS <- 2, MaxClients <- 3, MaxFrames <- 1,
       sock_monmode <- s1, conn_list <- s2, conn_monmode <- s3, conn_num <- s4, backlog <- s5,
       monrx <- s6, monrxtx <- s7, pc <- s8, end <- s9, gone <- s10,
       got <- s11, due <- s12, refused <- s13, clients <- s14, frames <- s15

R(call, repeated) == [call |-> call, repeated |-> repeated]
Heard(dest, digis) == [data |-> TRUE, sound |-> TRUE, dest |-> dest, digis |-> digis]
Line(f, t, calls) == [from |-> f, to |-> t, calls |-> calls, sound |-> TRUE]
Echo == INSTANCE Rxecho
  WITH Lines <- <<Line("u", "v", <<"A", "B">>), Line("u", "w", <<>>), Line("v", "u", <<"B", "C", "A">>)>>,
       Ports <- {"u", "v", "w"}, MAXCALLS <- 2, MaxFrames <- 2,
       Frames <- {Heard("A", <<>>), Heard("A", <<R("B", TRUE), R("C", FALSE)>>), Heard("C", <<R("A", TRUE), R("B", TRUE)>>),
                  Heard("C", <<R("A", FALSE), R("B", FALSE)>>), [Heard("A", <<>>) EXCEPT !.data = FALSE],
                  [Heard("A", <<>>) EXCEPT !.sound = FALSE]},
       list <- s1, heard <- s2, sent <- s3, echoed <- s4

Tty == INSTANCE TtyLink
  WITH Families <- {"inet", "ax25"}, Limit <- 2, Keys <- {66, 32, 10, 8, 21, 23},
       Chunks <- {<<65, 13>>, <<10, 66, 13, 0, 67>>}, MaxFaults <- 1, MaxKeys <- 4, MaxChunks <- 2,
       family <- s1, bigEndian <- s2, pc <- s3, queue <- s4, invites <- s5, ids <- s6,
       local_id <- s7, remote_id <- s8, armed <- s9, faults <- s10, outbuf <- s11, bptr <- s12,
       line <- s13, typed <- s14, toUser <- s15, meant <- s16, fromUser <- s17, toSysop <- s18

-----------------------------------------------------------------------------
Signs == INSTANCE Callsign
  WITH Symbols <- {"A", "V", "1", "6", "0", "-", "?", " "}, Digit <- ("1" :> 1 @@ "6" :> 6 @@ "0" :> 0),
       Letters <- {"A", "V"}, CallLen <- 2, AX25_MAX_DIGIS <- 1, MaxText <- 5,
       text <- s1

W(base, tail) == [base |-> base, tail |-> tail]
PortLine(name, call, alias) ==
  [comment |-> FALSE, whole |-> TRUE, name |-> name, call |-> call, alias |-> alias, numbers |-> <<1, 1>>]
If(dev, type, call) == [dev |-> dev, type |-> type, gone |-> FALSE, up |-> TRUE, call |-> call]
AllUp == <<If("a0", "ax25", W("A", "")), If("a1", "ax25", W("B", "-1")), If("n0", "netrom", W("A", "")),
           If("n1", "netrom", W("B", "-1")), If("r0", "rose", W("A", "")), If("r1", "rose", W("B", "-1"))>>
PortFiles == INSTANCE PortConfig
  WITH Lines <- {PortLine(W("p", ""), W("A", ""), "a"), PortLine(W("q", ""), W("A", "-0"), "b"),
                 PortLine(W("q", ""), W("A", "-01"), "b"), PortLine(W("A", ""), W("B", "-1"), "a"),
                 PortLine(W("r", ""), W("B", "-1"), "c"),
                 [PortLine(W("p", ""), W("B", "-1"), "d") EXCEPT !.numbers = <<1, 0>>],
                 [PortLine(W("s", ""), W("A", ""), "e") EXCEPT !.comment = TRUE],
                 [PortLine(W("s", ""), W("A", ""), "e") EXCEPT !.whole = FALSE]},
       Networks <- {AllUp, [i \in DOMAIN AllUp |-> [AllUp[i] EXCEPT !.up = i % 2 = 0]], [AllUp EXCEPT ![1].gone = TRUE]},
       MaxLines <- 3, MaxLoads <- 2, MaxChanges <- 1,
       kind <- s1, file <- s2, network <- s3, ports <- s4, n <- s5, loads <- s6, changes <- s7

IpdConf == INSTANCE Ax25ipdConfig
  WITH Heads <- {<<>>, <<<<"device", "tty1">>, <<"socket", "ip">>, <<"mode", "tnc">>>>,
                 <<<<"device", "tty1">>, <<"mycall", "A">>, <<"mycall2", "B">>, <<"socket", "udp", "70000">>>>},
       Lines <- {<<>>, <<"#", "route">>, <<"mycall", "A">>, <<"mycall", "?">>, <<"mycall2", "B">>, <<"myalias", "C">>,
                 <<"device", "tty1">>, <<"device", "tty2">>, <<"device">>, <<"mode", "tnc">>, <<"mode", "digi">>,
                 <<"speed", "77">>, <<"socket", "ip">>, <<"socket", "udp">>, <<"socket", "x">>, <<"beacon", "every">>,
                 <<"beacon", "after", "77">>, <<"btext", "hi">>, <<"btext", "long">>, <<"param", "77", "77">>, <<"oops">>,
                 <<"broadcast", "A", "?", "B">>, <<"broadcast", "B">>, <<"route", "B", "0.0.0.0", "udp", "b">>,
                 <<"route", "B", "44.1", "udp", "77", "bd", "hub", "#", "l">>, <<"route", "B", "h", "udp", "udp", "77", "d">>,
                 <<"route", "B", "u", "udp", "70000">>, <<"route", "B">>, <<"route", "?">>},
       Calls <- {"A", "B", "C"}, Number <- ("77" :> 77 @@ "70000" :> 70000), FlagWords <- {"b", "bd", "d", "l"},
       LettersIn <- ("b" :> {"b"} @@ "bd" :> {"b", "d"} @@ "d" :> {"d"} @@ "l" :> {"l"} @@ "hub" :> {"b"} @@ "udp" :> {"d", "p"}),
       Address <- ("0.0.0.0" :> 0 @@ "44.1" :> 1), Host <- ("h" :> 2), LongText <- "long",
       DEFAULT_UDP_PORT <- 10093, MaxLines <- 2,
       file <- s1, more <- s2, s <- s3, errflag <- s4, outcome <- s5

-----------------------------------------------------------------------------
SessionsInit ==
  /\ CallInit
  /\ LoginInit
  /\ \/ part \in CallParts \cup LoginParts /\ s1 = 0 /\ From2
     \/ part = "axspawn" /\ Spawn!Init /\ From14
     \/ part = "huffman" /\ Spawn!HuffInit /\ From2
     \/ part = "ax25io" /\ Io!Init /\ From15
     \/ part = "axwrapper" /\ Wrap!Init /\ From15
     \/ part = "user_call" /\ User!Init /\ From14
     \/ part = "rose" /\ Rose(FALSE)!Init /\ From6
     \/ part = "rosesigned" /\ Rose(TRUE)!Init /\ From6
     \/ part = "ax25d" /\ D!Init
     \/ part = "ax25mond" /\ Mond!Init /\ From16
     \/ part = "rxecho" /\ Echo!Init /\ From5
     \/ part = "ttylink" /\ Tty!Init /\ s19 = 0
     \/ part = "callsign" /\ Signs!Init /\ From2
     \/ part = "ports" /\ PortFiles!Init /\ From8
     \/ part = "ipdconf" /\ IpdConf!Init /\ From6

callvars == <<vars, bin, term>>
After13 == <<s14, s15, s16, s17, s18, s19>>
After8 == <<s9, s10, s11, s12, s13, After13>>
After5 == <<s6, s7, s8, After8>>
SessionsNext ==
  \/ CallNext /\ UNCHANGED <<login_vars, slots>>
  \/ /\ part' = part /\ UNCHANGED <<callvars, slots>>
     /\ \/ part = "login" /\ LoginNext
        \/ part = "useradd" /\ UserAdds!LoginNext
  \/ /\ part' = part /\ UNCHANGED <<callvars, login_vars>>
     /\ \/ part = "axspawn" /\ Spawn!Next /\ UNCHANGED After13
        \/ part = "huffman" /\ Spawn!HuffNext /\ UNCHANGED <<s2, s3, s4, s5, After5>>
        \/ part = "ax25io" /\ Io!Next /\ UNCHANGED <<s15, s16, s17, s18, s19>>
        \/ part = "axwrapper" /\ Wrap!Next /\ UNCHANGED <<s15, s16, s17, s18, s19>>
        \/ part = "user_call" /\ User!Next /\ UNCHANGED After13
        \/ part = "rose" /\ Rose(FALSE)!Next /\ UNCHANGED After5
        \/ part = "rosesigned" /\ Rose(TRUE)!Next /\ UNCHANGED After5
        \/ part = "ax25d" /\ D!Next
        \/ part = "ax25mond" /\ Mond!Next /\ UNCHANGED <<s16, s17, s18, s19>>
        \/ part = "rxecho" /\ Echo!Next /\ UNCHANGED <<s5, After5>>
        \/ part = "ttylink" /\ Tty!Next /\ UNCHANGED s19
        \/ part = "callsign" /\ Signs!Next /\ UNCHANGED <<s2, s3, s4, s5, After5>>
        \/ part = "ports" /\ PortFiles!Next /\ UNCHANGED <<s8, After8>>
        \/ part = "ipdconf" /\ IpdConf!Next /\ UNCHANGED After5

\* The alarm of axspawn goes off and its main loop sees the end of the pty;
\* ax25d goes on when it can.  One condition states the fairness of both.
SessionsSpec ==
  /\ SessionsInit /\ [][SessionsNext]_<<part, callvars, login_vars, slots>>
  /\ CallFair
  /\ WF_slots(\/ part = "axspawn" /\ Spawn!Alarm /\ UNCHANGED After13
              \/ part = "ax25d" /\ D!Daemon)
  /\ WF_slots(part = "axspawn" /\ Spawn!EndOfOutput /\ UNCHANGED After13)

-----------------------------------------------------------------------------
\* axspawn.c:731-957: however the program's output is read, merged and cut, the
\* peer gets it in order with one end of line for each pair.
QueueExact == part = "axspawn" => Spawn!QueueExact

\* ax25io.c:154, 599, axwrapper.c:202, axspawn.c:493-637: what goes through the
\* buffered connection, the pipes of axwrapper and the compression of axspawn
\* comes out whole, once and in order, however reads and writes are cut.
StreamsWhole ==
  CASE part = "ax25io" -> Io!OutputExact /\ Io!LinesWhole
    [] part = "axwrapper" -> Wrap!WrapExact
    [] part = "huffman" -> Spawn!RoundTrip
    [] OTHER -> TRUE

\* user_io.c:87, 144: connect ends in time, and data get through whole;
\* ttylinkd.c:396-638: the user and the sysop read each other's lines, and no
\* invitation stays behind where the talk daemons answered.
Conversation ==
  /\ part = "user_call" => User!Conveyed /\ User!InTime
  /\ part = "ttylink" => Tty!SysopRead /\ Tty!UserRead /\ Tty!InvitesGone

\* rsdwnlnk.c:244, rsuplnk.c:148: frames keep their PID over a ROSE connection
\* whether or not char is signed, and the way back is that of the call.
RoseKept == /\ part = "rose" => Rose(FALSE)!PidKept /\ Rose(FALSE)!AnswerReturns
            /\ part = "rosesigned" => Rose(TRUE)!PidKept

\* ax25d.c:756, 1236: each call gets what the file declares for its port, and a
\* port that is closed will be tried again.
PortsServed == part = "ax25d" => D!EntryDecides /\ D!RetryPending

\* axspawn.c:1934: what waits when the program ends is sent, and then the
\* session ends, unless a buffer was lost behind a freed one; ax25d.c:1171: a
\* SIGHUP is acted upon, whenever it arrives, unless ax25d ends.
SessionsGoOn ==
  /\ (part = "axspawn" /\ Spawn!Ending) ~> (part = "axspawn" /\ Spawn!Finished)
  /\ (part = "ax25d" /\ D!HangupSent) ~> (part = "ax25d" /\ D!HangupServed)

\* ax25d.c:267: "The lock is held on the pid file for the life of the daemon
\* and released by the kernel even after kill -9."
LockReleased == part = "ax25d" => D!LockReleased

\* ax25mond.c:377-388: clients that come and go cost the others nothing.
MonitorsFed == part = "ax25mond" => Mond!ClientsKept /\ Mond!Complete

\* axutils.c:20, axconfig.c:191, config.c:162: what the configuration files say
\* is what the programs run with: the first line of the password files that
\* fits a user decides (access.c:313), a callsign has one address everywhere, a port
\* has a name, a callsign and an interface of its own, a route of ax25ipd has the
\* flags and the port that are written for it.
ConfigRight ==
  CASE part = "login" -> FirstFileDecides
    [] part = "callsign" -> Signs!CallsAgree /\ Signs!PathsAgree
    [] part = "ports" -> PortFiles!PortsApart /\ PortFiles!WalkWhole /\ PortFiles!LoadedRight
    [] part = "ipdconf" -> IpdConf!RoutesMeant /\ IpdConf!StartsComplete
    [] OTHER -> TRUE

\* rxecho.c:341: an echo is never what its own repeater has sent already.
EchoRight == part = "rxecho" => Echo!EchoRight

\* call.c:1140, proto_bin.c:255: a file reported complete is the one sent.
BinExact == part = "bin" => Bin!Exact

\* yapp.c: both sides come to an end, and left alone they transfer a file
\* that is not empty, into a new file or by plain YAPP.  call.c:2749,
\* proto_bin.c:440: left alone, every sender of #BIN# gets an ordinary file to
\* every receiver.
TransfersEnd == /\ part = "yapp" => BothEnd
                /\ part = "calm" => Undisturbed
                /\ part = "bin" => Bin!Delivered

\* call.c:1845: the search for commands loses no byte, and a 7plus file is
\* the text between its lines.
CallText == part \in {"term", "timed"} => Term!CallText

\* call.1: "Set idle timeout seconds after a connection will be closed
\* automatically when there's no data being transferred".
IdleOnly == part = "timed" => Timed!IdleOnly
=============================================================================
