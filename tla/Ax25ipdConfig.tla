--------------------------- MODULE Ax25ipdConfig ---------------------------
(***************************************************************************)
(* ax25ipd's configuration file (config.c).  A line is the sequence of its *)
(* words, and a word one of a few strings; the file ends in a newline.     *)
(***************************************************************************)
EXTENDS Integers, Sequences, FiniteSets, FiniteSetsExt, SequencesExt

CONSTANTS
  Heads,        \* how a file may begin: sequences of lines
  Lines,        \* lines that may follow
  Calls,        \* words that a_to_call accepts
  Number,       \* [words that are all digits -> their value]
  LettersIn,    \* [words with a letter of "bdpl" -> those letters]
  FlagWords,    \* those with no other letter
  Address,      \* [words that are dotted addresses -> the address], 0 for 0.0.0.0
  Host,         \* [names that gethostbyname knows -> their address]
  LongText,     \* a word of more than 128 letters
  DEFAULT_UDP_PORT,
  MaxLines      \* bound: lines behind the head

VARIABLES file, more, s, errflag, outcome
vars == <<file, more, s, errflag, outcome>>

Comment == "#"
None == ""
Value(w) == IF w \in DOMAIN Number THEN Number[w] ELSE 0
Flags(w) == IF w \in DOMAIN LettersIn THEN LettersIn[w] ELSE {}
CallNames == {"mycall", "mycall2", "myalias", "myalias2"}
NumberNames == {"speed", "loglevel"}

config_init ==
  [device |-> None, call |-> [k \in CallNames |-> None], digi |-> TRUE, number |-> [speed |-> 9600, loglevel |-> 0],
   bc_interval |-> 0, bc_text |-> None, bc_every |-> FALSE, my_udp |-> 0, udp_mode |-> FALSE, ip_mode |-> FALSE,
   dual_port |-> FALSE, routes |-> <<>>, bcasts |-> <<>>, params |-> <<>>]

-----------------------------------------------------------------------------
\* The effect of a line: [s, e].
Ok(t) == [s |-> t, e |-> 0]
Bad(t, e) == [s |-> t, e |-> e]

\* A callsign that is refused ends the program after the file.
SetCall(t, p, q) ==
  IF q \notin Calls THEN Bad(t, -2)
  ELSE Ok([t EXCEPT !.call[p] = q, !.dual_port = IF p = "myalias" THEN t.call["mycall2"] # None ELSE @])

Socket(t, l) ==
  CASE l[2] = "ip" -> Ok([t EXCEPT !.ip_mode = TRUE])
    [] l[2] = "udp" -> Ok([t EXCEPT !.udp_mode = TRUE,
                                    !.my_udp = IF Len(l) > 2 /\ Value(l[3]) > 0 THEN Value(l[3]) % 65536
                                               ELSE DEFAULT_UDP_PORT])
    [] OTHER -> Bad(t, -9)

Beacon(t, l) ==
  IF l[2] \notin {"every", "after"} THEN Bad(t, -8)
  ELSE IF Len(l) = 2 THEN Bad([t EXCEPT !.bc_every = l[2] = "every"], -1)
  ELSE Ok([t EXCEPT !.bc_every = l[2] = "every", !.bc_interval = Value(l[3])])

\* Mutant: the letters are searched for in any word.
RouteFlagsAny(w) == Flags(w)
RouteFlags(w) == IF w \in FlagWords THEN Flags(w) ELSE {}

\* One word of a route; r.udp: the one before was "udp".
RouteWord(r, w) ==
  IF r.end \/ w = Comment THEN [r EXCEPT !.end = TRUE]
  ELSE IF r.udp /\ w \in DOMAIN Number
    THEN [r EXCEPT !.udp = FALSE, !.port = IF Number[w] \in 1..65535 THEN Number[w] ELSE @]
  ELSE IF ~r.udp /\ w = "udp" THEN [r EXCEPT !.udp = TRUE, !.port = IF @ = 0 THEN DEFAULT_UDP_PORT ELSE @]
  ELSE [r EXCEPT !.udp = FALSE, !.flags = @ \cup RouteFlags(w)]

\* A host that is not known yet is asked for again later (routing.c).
Route(t, l) ==
  LET dotted == Len(l) > 2 /\ l[3] \in DOMAIN Address
      ip == IF dotted THEN Address[l[3]] ELSE IF l[3] \in DOMAIN Host THEN Host[l[3]] ELSE 0
      r == FoldLeft(RouteWord,
                    [port |-> t.my_udp, udp |-> FALSE, end |-> FALSE,
                     flags |-> IF dotted THEN {"p"} \cup (IF ip = 0 THEN {"l"} ELSE {}) ELSE {}],
                    SubSeq(l, 4, Len(l)))
  IN IF l[2] \notin Calls THEN Bad(t, -2)
     ELSE IF Len(l) = 2 THEN Bad(t, -1)
     ELSE Ok([t EXCEPT !.routes = Append(@, [host |-> l[3], ip |-> ip, call |-> l[2], port |-> r.port, flags |-> r.flags])])

\* The callsigns in front of the first that is refused are added.
Broadcast(t, l) ==
  LET n == Min({i - 2 : i \in {j \in 2..Len(l) : l[j] \notin Calls}} \cup {Len(l) - 1})
      u == [t EXCEPT !.bcasts = @ \o SubSeq(l, 2, n + 1)]
  IN IF n < Len(l) - 1 THEN Bad(u, -2) ELSE Ok(u)

Keywords == CallNames \cup NumberNames \cup {"device", "mode", "socket", "beacon", "btext", "route", "param"}
parse_line(t, l) ==
  IF l = <<>> \/ Head(l) = Comment \/ (Head(l) = "device" /\ t.device # None) THEN Ok(t)
  ELSE IF Head(l) = "broadcast" THEN Broadcast(t, l)
  ELSE IF Head(l) \notin Keywords THEN Bad(t, -999)
  ELSE IF Len(l) = 1 THEN Bad(t, -1)
  ELSE LET p == Head(l)
           q == l[2]
       IN CASE p \in CallNames -> SetCall(t, p, q)
            [] p = "device" -> Ok([t EXCEPT !.device = q])
            [] p = "mode" -> IF q \in {"digi", "tnc"} THEN Ok([t EXCEPT !.digi = q = "digi"]) ELSE Bad(t, -4)
            [] p \in NumberNames -> Ok([t EXCEPT !.number[p] = Value(q)])
            [] p = "socket" -> Socket(t, l)
            [] p = "beacon" -> Beacon(t, l)
            [] p = "btext" -> IF q = LongText THEN Bad(t, -7) ELSE Ok([t EXCEPT !.bc_text = q])
            [] p = "route" -> Route(t, l)
            [] p = "param" -> IF Len(l) = 2 THEN Bad(t, -1)
                              ELSE Ok([t EXCEPT !.params = Append(@, <<Value(q), Value(l[3])>>)])

-----------------------------------------------------------------------------
Init ==
  /\ file \in Heads /\ more = 0 /\ outcome = "reading"
  /\ s = FoldLeft(LAMBDA t, l : parse_line(t, l).s, config_init, file)
  /\ errflag = Cardinality({i \in DOMAIN file :
       parse_line(FoldLeft(LAMBDA t, l : parse_line(t, l).s, config_init, SubSeq(file, 1, i - 1)), file[i]).e < 0})

\* All lines are read, also behind a bad one.
ReadLine(l) ==
  /\ outcome = "reading" /\ more < MaxLines /\ more' = more + 1
  /\ file' = Append(file, l)
  /\ s' = parse_line(s, l).s
  /\ errflag' = errflag + (IF parse_line(s, l).e < 0 THEN 1 ELSE 0)
  /\ UNCHANGED outcome

\* The end of the file.
config_read ==
  /\ outcome = "reading"
  /\ outcome' = IF \/ errflag # 0 \/ s.device = None \/ ~(s.udp_mode \/ s.ip_mode)
                   \/ s.digi /\ s.call["mycall"] = None
                   \/ s.digi /\ s.dual_port /\ s.call["mycall2"] = None
                THEN "exit" ELSE "running"
  /\ UNCHANGED <<file, more, s, errflag>>

Next == config_read \/ \E l \in Lines : ReadLine(l)

-----------------------------------------------------------------------------
Named(w) == {i \in DOMAIN file : file[i] # <<>> /\ file[i][1] = w}
\* The words of route line l in front of its comment, and the numbers that stand
\* behind an "udp" which is not itself the word behind one.
Bare(l) == {k \in 4..Len(l) : \A j \in 4..k : l[j] # Comment}
Opens(l) == LET open[k \in 3..Len(l)] == k # 3 /\ l[k] = "udp" /\ ~open[k - 1] IN {k \in Bare(l) : open[k]}
PortNumbers(l) == {k \in Bare(l) : k - 1 \in Opens(l) /\ Value(l[k]) \in 1..65535}
UdpPort(i) ==
  LET l == file[i]
      above == {j \in Named("socket") : j < i /\ l # <<>> /\ file[j][2] = "udp"}
      last == file[Max(above)]
      own == IF above = {} THEN 0 ELSE IF Len(last) > 2 /\ Value(last[3]) > 0 THEN Value(last[3]) % 65536 ELSE DEFAULT_UDP_PORT
  IN IF PortNumbers(l) # {} THEN Value(l[Max(PortNumbers(l))])
     ELSE IF Opens(l) # {} /\ own = 0 THEN DEFAULT_UDP_PORT ELSE own

\* config.c:310: a program that starts has for each route line one route, in the
\* order of the file, with the flags that words of its own give and no letter of
\* another word or a comment, and with the port of the line, or else that of the
\* socket line above it.
RoutesMeant ==
  outcome = "running" =>
    LET lines == SetToSortSeq(Named("route"), <)
    IN /\ Len(s.routes) = Len(lines)
       /\ \A k \in DOMAIN lines :
            LET l == file[lines[k]]
                r == s.routes[k]
            IN /\ r.call = l[2] /\ r.host = l[3]
               /\ r.flags = UNION {Flags(l[j]) : j \in {h \in Bare(l) : l[h] \in FlagWords}}
                            \cup (IF l[3] \in DOMAIN Address THEN {"p"} ELSE {})
                            \cup (IF l[3] \in DOMAIN Address /\ Address[l[3]] = 0 THEN {"l"} ELSE {})
               /\ r.port = UdpPort(lines[k])

\* config.c:78, 193: it has a device, the first that is named, a socket and the
\* callsigns of its mode; its second port works when the last "myalias" stands
\* below a "mycall2", wherever it then stands.
StartsComplete ==
  outcome = "running" =>
    /\ Named("device") # {} /\ s.device = file[Min(Named("device"))][2]
    /\ Named("socket") # {}
    /\ Named("mycall") = {} => Named("mode") # {} /\ file[Max(Named("mode"))][2] = "tnc"
    /\ s.dual_port <=> Named("myalias") # {} /\ \E i \in Named("mycall2") : i < Max(Named("myalias"))
=============================================================================
