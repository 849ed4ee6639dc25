-------------------------------- MODULE Ax25d --------------------------------
(***************************************************************************)
(* ax25d: listens on the ports of its configuration, gives each call to a  *)
(* program, and reads the configuration again on SIGHUP and on a timer.    *)
(* The six numbers of an entry are one, t1; 0 is "*" or out of range.      *)
(***************************************************************************)
EXTENDS Integers, Sequences, FiniteSets, FiniteSetsExt, SequencesExt

CONSTANTS
  Files,      \* configuration files: sequences of lines, see Line
  Known,      \* the ports of axports, nrports and rsports
  Calls,      \* calls: [port, base, ssid, node, digis]
  VcUsers,    \* users with a mode VC entry in ax25rtd
  MaxCalls, MaxSignals, MaxEdits, MaxDowns, MaxErrors, MaxWords  \* bounds

None == "-"
Line == [k : {"port", "params", "vc", "entry", "bad"}, port : STRING, af : {"ax25", "netrom", "rose"},
         base : STRING, ssid : STRING, node : STRING, t1 : Nat, whole : BOOLEAN,
         flags : SUBSET {"l", "d"}, check : 0..3, login : BOOLEAN, disc : BOOLEAN, prog : STRING]

VARIABLES
  AXL,        \* ports listened on: [port, af, open, ents, queue]
  file,       \* the configuration file; <<>> cannot be opened
  loaded,     \* the file AXL was made from
  unread,     \* the last reload could not open the file
  down,       \* ports that cannot be bound
  timer, signals,                  \* the kernel's
  ReloadPending, TermPending,
  pc, fdread,                      \* "top", "wait", "accept", "dead"; what pselect returned
  kids,       \* children that read what a mode VC user says: [call, ent]
  started,    \* programs started: [call, prog, t1]
  calls, sent, edits, downs, errors, words  \* counters
reading == <<AXL, loaded, unread, timer>>
counters == <<calls, sent, edits, downs, errors, words>>
vars == <<reading, file, down, signals, ReloadPending, TermPending, pc, fdread, kids, started, counters>>

-----------------------------------------------------------------------------
(* ReadConfig *)

NoDefaults == [t1 |-> 0, check |-> 0, login |-> FALSE, disc |-> FALSE]
NewPort(l) == [port |-> l.port, af |-> l.af, open |-> TRUE, ents |-> <<>>, queue |-> <<>>]
Exclusive(check) == Min({check, 2})

\* Mutant: a port that cannot be bound does not start the timer.
RetryNever(r) == r
Retry(r) == [r EXCEPT !.timer = TRUE]

\* A line read while a port is looked for.
Header(r, l) ==
  LET h == [r EXCEPT !.hunt = TRUE, !.error = IF l.k = "port" THEN FALSE ELSE @, !.def = NoDefaults]
  IN IF l.k # "port" \/ ~l.whole \/ l.port \notin Known THEN h
     ELSE IF l.port \in down THEN Retry([h EXCEPT !.error = TRUE])
     ELSE [h EXCEPT !.hunt = FALSE, !.list = Append(@, NewPort(l))]

\* Mutant: the last parameters stay those of the port before.
EntOfOwn(l, d) == [l EXCEPT !.check = d.check, !.login = d.login, !.disc = d.disc]
\* An entry with what it takes from the parameters.
EntOf(l, d) == [l EXCEPT !.t1 = IF @ = 0 THEN d.t1 ELSE @,
                         !.check = d.check, !.login = d.login, !.disc = d.disc]

\* A line read below a port.
Below(r, l) ==
  LET last == Len(r.list)
  IN CASE l.k = "vc" /\ r.list[last].af = "ax25" ->
            [r EXCEPT !.def = [@ EXCEPT !.check = Exclusive(l.check), !.login = l.login, !.disc = l.disc]]
       [] l.k = "params" -> [r EXCEPT !.def.t1 = IF l.t1 = 0 THEN @ ELSE l.t1]
       [] l.k = "entry" /\ l.whole -> [r EXCEPT !.list[last].ents = Append(@, EntOf(l, r.def))]
       [] OTHER -> r

Parsed(lines) ==
  LET after[i \in 0..Len(lines)] ==
        IF i = 0 THEN {[list |-> <<>>, hunt |-> TRUE, error |-> FALSE, def |-> NoDefaults, timer |-> FALSE]}
        ELSE {IF r.hunt \/ lines[i].k = "port" THEN Header(r, lines[i]) ELSE Below(r, lines[i]) : r \in after[i - 1]}
  IN CHOOSE r \in after[Len(lines)] : TRUE

ReadConfig == IF file = <<>>
              THEN unread' = TRUE /\ timer' = FALSE /\ UNCHANGED <<AXL, loaded>>
              ELSE \E r \in {Parsed(file)} : /\ AXL' = r.list /\ timer' = r.timer
                                             /\ loaded' = file /\ unread' = FALSE

Init == /\ file \in Files /\ down \in SUBSET Known /\ Cardinality(down) <= 1
        /\ AXL = Parsed(file).list /\ timer = Parsed(file).timer /\ loaded = file /\ unread = FALSE
        /\ signals = {} /\ ReloadPending = FALSE /\ TermPending = FALSE /\ pc = "top" /\ fdread = {}
        /\ kids = {} /\ started = {}
        /\ calls = 0 /\ sent = 0 /\ edits = 0 /\ downs = 0 /\ errors = 0 /\ words = 0

-----------------------------------------------------------------------------
(* The main loop *)

Terminate == /\ pc = "top" /\ TermPending /\ pc' = "dead"
             /\ UNCHANGED <<reading, file, down, signals, ReloadPending, TermPending, fdread, kids, started, counters>>

\* Mutant: the flag of the signal is not cleared.
ReloadAgain == /\ pc = "top" /\ ~TermPending /\ pc' = "wait"
               /\ IF ReloadPending THEN ReadConfig ELSE UNCHANGED reading
               /\ UNCHANGED <<file, down, signals, ReloadPending, TermPending, fdread, kids, started, counters>>
Reload == /\ pc = "top" /\ ~TermPending /\ pc' = "wait"
          /\ IF ReloadPending THEN ReadConfig ELSE UNCHANGED reading
          /\ ReloadPending' = FALSE
          /\ UNCHANGED <<file, down, signals, TermPending, fdread, kids, started, counters>>

\* pselect: the signals are unblocked while it waits.
Interrupted == /\ pc = "wait" /\ signals # {} /\ pc' = "top" /\ signals' = {}
               /\ ReloadPending' = (ReloadPending \/ signals \cap {"HUP", "ALRM"} # {})
               /\ TermPending' = (TermPending \/ "TERM" \in signals)
               /\ UNCHANGED <<reading, file, down, fdread, kids, started, counters>>

ReadyPorts == {i \in DOMAIN AXL : AXL[i].open /\ AXL[i].queue # <<>>}
Ready == /\ pc = "wait" /\ ReadyPorts # {} /\ pc' = "accept" /\ fdread' = ReadyPorts
         /\ UNCHANGED <<reading, file, down, signals, ReloadPending, TermPending, kids, started, counters>>

\* The entry for a call: the first that matches; <<>> when there is none.
NodeMatches(e, af, call) == af = "netrom" /\ e.node # None => e.node = call.node
UserMatches(e, call) == e.base = "default" \/ (e.base = call.base /\ e.ssid \in {"any", call.ssid})
Decision(p, call) ==
  LET fits == {i \in DOMAIN p.ents : NodeMatches(p.ents[i], p.af, call) /\ UserMatches(p.ents[i], call)}
  IN IF fits = {} THEN <<>> ELSE <<p.ents[Min(fits)]>>

Program(call, e) == [call |-> call, prog |-> e.prog, t1 |-> e.t1]
\* What becomes of a call that was accepted.
Serve(p, call) ==
  \E d \in {Decision(p, call)} :
    IF d = <<>> \/ "l" \in d[1].flags \/ (p.af = "ax25" /\ "d" \in d[1].flags /\ call.digis)
    THEN UNCHANGED <<kids, started>>
    ELSE IF p.af = "ax25" /\ d[1].check > 0 /\ call.base \in VcUsers
    THEN /\ kids' = IF d[1].check > 1 THEN kids ELSE kids \cup {[call |-> call, ent |-> d[1]]}
         /\ UNCHANGED started
    ELSE started' = started \cup {Program(call, d[1])} /\ UNCHANGED kids

NextReady == IF fdread = {} THEN 0 ELSE Min(fdread)
Shut(i) == AXL' = [AXL EXCEPT ![i].open = FALSE, ![i].queue = <<>>]
Leave(i) == fdread' = fdread \ {i} /\ pc' = IF fdread = {i} THEN "top" ELSE "accept"
Accept ==
  /\ pc = "accept"
  /\ \E i \in {NextReady} :
       /\ Leave(i)
       /\ AXL' = [AXL EXCEPT ![i].queue = Tail(@)]
       /\ Serve(AXL[i], Head(AXL[i].queue))
  /\ UNCHANGED <<loaded, unread, timer, file, down, signals, ReloadPending, TermPending, counters>>
\* accept fails: the port is closed, and the timer started.
AcceptFails ==
  /\ pc = "accept" /\ errors < MaxErrors /\ errors' = errors + 1
  /\ Leave(NextReady) /\ Shut(NextReady) /\ timer' = TRUE
  /\ UNCHANGED <<loaded, unread, file, down, signals, ReloadPending, TermPending, kids, started,
                 calls, sent, edits, downs, words>>

\* A child of a mode VC user reads a text: of a link failure, or another.
KidReads(k, failure) ==
  /\ k \in kids /\ words < MaxWords /\ words' = words + 1
  /\ IF failure /\ k.ent.disc THEN kids' = kids \ {k} /\ UNCHANGED started
     ELSE IF k.ent.login THEN kids' = kids \ {k} /\ started' = started \cup {Program(k.call, k.ent)}
     ELSE UNCHANGED <<kids, started>>
  /\ UNCHANGED <<reading, file, down, signals, ReloadPending, TermPending, pc, fdread, calls, sent, edits, downs, errors>>
KidLeft(k) == /\ k \in kids /\ kids' = kids \ {k}
              /\ UNCHANGED <<reading, file, down, signals, ReloadPending, TermPending, pc, fdread, started, counters>>

Daemon == Terminate \/ Reload \/ Interrupted \/ Ready \/ Accept \/ AcceptFails

-----------------------------------------------------------------------------
(* Outside: callers, the timer, the administrator *)

CallArrives(i, c) ==
  /\ calls < MaxCalls /\ calls' = calls + 1 /\ i \in DOMAIN AXL /\ AXL[i].open /\ AXL[i].port = c.port
  /\ AXL' = [AXL EXCEPT ![i].queue = Append(@, c)]
  /\ UNCHANGED <<loaded, unread, timer, file, down, signals, ReloadPending, TermPending, pc, fdread, kids, started,
                 sent, edits, downs, errors, words>>
TimerFires == /\ timer /\ timer' = FALSE /\ signals' = signals \cup {"ALRM"}
              /\ UNCHANGED <<AXL, loaded, unread, file, down, ReloadPending, TermPending, pc, fdread, kids, started, counters>>
Signal(s) == /\ sent < MaxSignals /\ sent' = sent + 1 /\ signals' = signals \cup {s}
             /\ UNCHANGED <<reading, file, down, ReloadPending, TermPending, pc, fdread, kids, started,
                            calls, edits, downs, errors, words>>
AdminEdits(f) == /\ edits < MaxEdits /\ edits' = edits + 1 /\ file' = f
                 /\ UNCHANGED <<reading, down, signals, ReloadPending, TermPending, pc, fdread, kids, started,
                                calls, sent, downs, errors, words>>
PortChanges(p) == /\ downs < MaxDowns /\ downs' = downs + 1
                  /\ down' = IF p \in down THEN down \ {p} ELSE down \cup {p}
                  /\ UNCHANGED <<reading, file, signals, ReloadPending, TermPending, pc, fdread, kids, started,
                                 calls, sent, edits, errors, words>>

Next == \/ Daemon \/ TimerFires
        \/ \E i \in DOMAIN AXL, c \in Calls : CallArrives(i, c)
        \/ \E s \in {"HUP", "TERM"} : Signal(s)
        \/ \E f \in Files \cup {<<>>} : AdminEdits(f)
        \/ \E p \in Known : PortChanges(p)
        \/ \E k \in kids, failure \in BOOLEAN : KidReads(k, failure)
        \/ \E k \in kids : KidLeft(k)
Spec == Init /\ [][Next]_vars /\ WF_vars(Daemon)

-----------------------------------------------------------------------------
(* Properties *)

\* What a file says of a call on the port of line h, without reading it in
\* order: the first sound entry below that port which fits, with the number of
\* the last parameters above it and the last mode VC line.
Section(f, h) == {j \in h + 1..Len(f) : \A n \in h + 1..j : f[n].k # "port"}
LastAbove(f, h, j, P(_)) == Max({h} \cup {n \in Section(f, h) : n < j /\ P(f[n])})
Declared(f, h, call) ==
  LET fits == {j \in Section(f, h) : /\ f[j].k = "entry" /\ f[j].whole
                                     /\ NodeMatches(f[j], f[h].af, call) /\ UserMatches(f[j], call)}
      j == Min(fits)
      vc == LastAbove(f, h, j, LAMBDA l : l.k = "vc" /\ f[h].af = "ax25")
      params == LastAbove(f, h, j, LAMBDA l : l.k = "params" /\ l.t1 # 0)
  IN IF fits = {} THEN <<>>
     ELSE <<[f[j] EXCEPT !.t1 = IF @ = 0 /\ params # h THEN f[params].t1 ELSE @,
                         !.check = IF vc = h THEN 0 ELSE Exclusive(f[vc].check),
                         !.login = vc # h /\ f[vc].login, !.disc = vc # h /\ f[vc].disc]>>

Wanted == {h \in DOMAIN loaded : loaded[h].k = "port" /\ loaded[h].whole /\ loaded[h].port \in Known}

\* ax25d.c:756: a port that could not be opened, and one that was left alone,
\* take nothing from the entries of the others: each call gets what the loaded
\* file declares for its port.
EntryDecides ==
  \A i \in DOMAIN AXL : \E h \in Wanted :
    /\ loaded[h].port = AXL[i].port
    /\ \A c \in Calls : c.port = AXL[i].port => Decision(AXL[i], c) = Declared(loaded, h, c)

\* ax25d.c:1236: a port that is wanted and closed will be tried again: the
\* timer runs, has fired, or a reload is pending.  (Not so once a reload has not
\* found the file: it has cancelled the timer, ax25d.c:579.)
RetryPending ==
  pc # "dead" /\ ~unread /\ Cardinality({i \in DOMAIN AXL : AXL[i].open}) < Cardinality(Wanted)
    => timer \/ "ALRM" \in signals \/ ReloadPending

\* ax25d.c:1171: a SIGHUP is acted upon, whenever it arrives, unless ax25d ends.
HangupSent == "HUP" \in signals
HangupServed == pc = "dead" \/ ("HUP" \notin signals /\ ~ReloadPending)
Reloaded == HangupSent ~> HangupServed

\* ax25d.c:267: "The lock is held on the pid file for the life of the daemon
\* and released by the kernel even after kill -9": a child that reads what a
\* mode VC user says still has the descriptor, and with it the lock.
LockHeld == pc # "dead" \/ kids # {}
LockReleased == LockHeld => pc # "dead"
=============================================================================
