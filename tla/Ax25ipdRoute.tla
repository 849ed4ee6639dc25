---------------------------- MODULE Ax25ipdRoute -----------------------------
(***************************************************************************)
(* The routing module of ax25ipd (ax25apps/ax25ipd/routing.c): the table   *)
(* read from the configuration, the return paths learned from frames, and  *)
(* the thread that looks the host names up again while the main loop goes  *)
(* on routing frames.                                                      *)
(*                                                                         *)
(* The table and its flags are fixed once the configuration is read; only  *)
(* the IP address of a route changes.  Both threads touch it under         *)
(* dnsmutex, or with a single aligned load, so each access is one step.    *)
(* A callsign is the byte that tells it from the others (k, a shifted      *)
(* character) and its SSID (s); the H and E bits that route_process,       *)
(* call_to_ip and is_call_bcast mask out are not part of it.               *)
(***************************************************************************)
EXTENDS Integers, Sequences, FiniteSets

CONSTANTS
  Config,     \* the "route" lines, in order: [call, host, ip, flags]
  Bcast,      \* callsigns of the "broadcast" line
  Calls,      \* callsigns frames may come from or go to
  Sources,    \* IP addresses datagrams may come from
  DnsAnswers, \* [host -> the addresses gethostbyname may answer]
  NoIp,       \* 0.0.0.0
  Tid,        \* names for DNS threads
  WAIT_CHANGED, WAIT_POLL  \* update_dns(300) and update_dns(60*60)

Flags == {"BCAST", "DEFAULT", "PERMANENT", "LEARN"}
Route == DOMAIN Config
Ip == Sources \cup {NoIp} \cup {Config[r].ip : r \in Route}
        \cup UNION {DnsAnswers[h] : h \in DOMAIN DnsAnswers}
Has(r, flag) == flag \in Config[r].flags

ASSUME RouteConstants ==
  /\ Config \in Seq([call : Calls, host : DOMAIN DnsAnswers, ip : Ip,
                     flags : SUBSET Flags])
  /\ Bcast \subseteq Calls
  /\ Calls \subseteq [k : {2 * i : i \in 0..127}, s : 0..15]
  /\ WAIT_CHANGED \in Nat /\ WAIT_POLL \in Nat /\ WAIT_CHANGED <= WAIT_POLL

VARIABLES
  ip,              \* [Route -> the ip_addr of the entry]
  callsign_lookup, \* the binary tree: [position -> [call, route]]
  threadrunning,   \* the flag that keeps a second DNS thread away
  since,           \* seconds since last_dns_time, not counted past WAIT_POLL
  main,            \* main loop: where it is in route_process
  thread,          \* [Tid -> where that DNS thread is]
  learned          \* history: [call -> route of its last return path]

tvars == <<threadrunning, since, thread>>
vars == <<ip, callsign_lookup, threadrunning, since, main, thread, learned>>

NoThread == [pc |-> "none", rp |-> 0]
NoCall == [k |-> 0, s |-> 0]
Idle == [pc |-> "idle", rp |-> 0, src |-> NoIp, call |-> NoCall, isroute |-> FALSE]

-----------------------------------------------------------------------------
(* Comparing callsigns (process.c) *)

\* An empty callsign matches nothing; an SSID of zero in the table matches
\* every SSID.
addrmatch(a, b) == a.k # 0 /\ a.k = b.k /\ (b.s = 0 \/ a.s = b.s)

\* Byte differences are kept in a signed char: far apart bytes wrap round,
\* so this is not an ordering of the callsigns.  (Shifted characters are
\* even, so that the mask 0xfe takes nothing from a difference.)
SignedChar(x) == LET m == x % 256 IN IF m >= 128 THEN m - 256 ELSE m
addrcompare(a, b) == IF a.k # b.k THEN SignedChar(a.k - b.k)
                                  ELSE SignedChar(2 * a.s - 2 * b.s)

is_call_bcast(call) == \E b \in Bcast : addrmatch(call, b)

-----------------------------------------------------------------------------
(* The tree of return paths.  A position is the way from the root to it.   *)

Positions == DOMAIN callsign_lookup
Side(call, other) == IF addrcompare(call, other) > 0 THEN "next" ELSE "prev"

\* The search for call goes through every proper prefix of p and on to p.
OnPath(call, p) ==
  \A i \in 1..Len(p) :
    LET q == SubSeq(p, 1, i - 1)
    IN  /\ q \in Positions
        /\ addrcompare(call, callsign_lookup[q].call) # 0
        /\ p[i] = Side(call, callsign_lookup[q].call)

Slots == {<<>>} \cup {Append(q, d) : q \in Positions, d \in {"prev", "next"}}

\* Where the search ends: at the callsign, or at the first empty position.
SearchEnd(call, p) ==
  /\ p \in Slots
  /\ OnPath(call, p)
  /\ p \in Positions => addrcompare(call, callsign_lookup[p].call) = 0
Search(call) == CHOOSE p \in Slots : SearchEnd(call, p)

-----------------------------------------------------------------------------
(* Lookups made by the frame handlers *)

FirstRoute(rs) == CHOOSE r \in rs : \A q \in rs : r <= q
Matching(call) == {r \in Route : addrmatch(call, Config[r].call)}

\* route_add moves default_route to every new entry with the flag.
DefaultRoutes == {r \in Route : Has(r, "DEFAULT")}
default_route == CHOOSE r \in DefaultRoutes : \A q \in DefaultRoutes : q <= r

\* call_to_ip, as the entry whose address it copies; 0 when there is none.
call_to_ip(call) ==
  IF Matching(call) # {} THEN FirstRoute(Matching(call))
  ELSE IF Search(call) \in Positions THEN callsign_lookup[Search(call)].route
  ELSE IF DefaultRoutes # {} THEN default_route
  ELSE 0

\* send_broadcast sends to every one of these.
BroadcastRoutes == {r \in Route : Has(r, "BCAST")}

-----------------------------------------------------------------------------
Init ==
  /\ ip = [r \in Route |-> Config[r].ip]
  /\ callsign_lookup = [p \in {} |-> {}]
  /\ threadrunning = FALSE
  /\ since = 0
  /\ main = Idle
  /\ thread = [t \in Tid |-> NoThread]
  /\ learned = [c \in {} |-> {}]

\* Mutant: only the clock keeps a second thread away.
update_dns_unguarded(wait) ==
  IF wait > 0 /\ since < wait
    THEN UNCHANGED tvars
    ELSE /\ since' = 0
         /\ \E t \in Tid :
              /\ thread[t] = NoThread
              /\ thread' = [thread EXCEPT ![t] = [pc |-> "walk", rp |-> 1]]
              /\ threadrunning' = TRUE

\* update_dns: start a thread unless one runs or the last start is recent.
\* pthread_create may fail.
update_dns(wait) ==
  IF threadrunning \/ (wait > 0 /\ since < wait)
    THEN UNCHANGED tvars
    ELSE /\ since' = 0
         /\ \/ \E t \in Tid :
                 /\ thread[t] = NoThread
                 /\ thread' = [thread EXCEPT ![t] = [pc |-> "walk", rp |-> 1]]
                 /\ threadrunning' = TRUE
            \/ UNCHANGED <<thread, threadrunning>>

\* The main loop calls update_dns(60*60) after every pselect.
PollDns ==
  /\ main.pc = "idle"
  /\ update_dns(WAIT_POLL)
  /\ UNCHANGED <<ip, callsign_lookup, main, learned>>

Tick ==
  /\ since < WAIT_POLL
  /\ since' = since + 1
  /\ UNCHANGED <<ip, callsign_lookup, threadrunning, main, thread, learned>>

\* from_ip calls route_process with the sender's address and callsign.
RouteProcess(src, call) ==
  /\ main.pc = "idle"
  /\ main' = [pc |-> "scan", rp |-> 1, src |-> src, call |-> call, isroute |-> FALSE]
  /\ UNCHANGED <<ip, callsign_lookup, tvars, learned>>

\* One turn of the first loop: an entry for the callsign with another address
\* goes on to route_updatedyndns.
ScanRoute ==
  LET m == addrmatch(main.call, Config[main.rp].call)
  IN  /\ main.pc = "scan" /\ main.rp \in Route
      /\ main' = [main EXCEPT
                    !.isroute = @ \/ m,
                    !.pc = IF m /\ ip[main.rp] # main.src THEN "changed" ELSE @,
                    !.rp = IF m /\ ip[main.rp] # main.src THEN @ ELSE @ + 1]
      /\ UNCHANGED <<ip, callsign_lookup, tvars, learned>>

\* route_updatedyndns: learn the address, then ask for a DNS check.
UpdateDynDns ==
  /\ main.pc = "changed"
  /\ ip' = IF Has(main.rp, "LEARN") THEN [ip EXCEPT ![main.rp] = main.src] ELSE ip
  /\ main' = [main EXCEPT !.pc = "learned"]
  /\ UNCHANGED <<callsign_lookup, tvars, learned>>

\* Mutant: steps over the next entry.
CheckDynDnsSkips ==
  /\ main.pc = "learned"
  /\ IF Has(main.rp, "PERMANENT") THEN UNCHANGED tvars ELSE update_dns(WAIT_CHANGED)
  /\ main' = [main EXCEPT !.pc = "scan", !.rp = @ + 2]
  /\ UNCHANGED <<ip, callsign_lookup, learned>>

CheckDynDns ==
  /\ main.pc = "learned"
  /\ IF Has(main.rp, "PERMANENT") THEN UNCHANGED tvars ELSE update_dns(WAIT_CHANGED)
  /\ main' = [main EXCEPT !.pc = "scan", !.rp = @ + 1]
  /\ UNCHANGED <<ip, callsign_lookup, learned>>

\* Mutant: a broadcast callsign may get a return path.
ScanDoneAnyCall ==
  /\ main.pc = "scan" /\ main.rp \notin Route
  /\ main' = IF main.isroute THEN Idle ELSE [main EXCEPT !.pc = "gateway", !.rp = 1]
  /\ UNCHANGED <<ip, callsign_lookup, tvars, learned>>

\* End of the first loop.  Callsigns of the table and broadcast callsigns
\* get no return path.
ScanDone ==
  /\ main.pc = "scan" /\ main.rp \notin Route
  /\ main' = IF main.isroute \/ is_call_bcast(main.call) THEN Idle
             ELSE [main EXCEPT !.pc = "gateway", !.rp = 1]
  /\ UNCHANGED <<ip, callsign_lookup, tvars, learned>>

\* Mutant: a callsign that has a node keeps its old route.
route_keepreturnpath(call, rn) ==
  LET p == Search(call)
  IN  callsign_lookup' = [q \in Positions \cup {p} |->
                            IF q \in Positions THEN callsign_lookup[q]
                                               ELSE [call |-> call, route |-> rn]]

\* route_updatereturnpath: attach the callsign to route rn.
route_updatereturnpath(call, rn) ==
  LET p == Search(call)
  IN  callsign_lookup' = [q \in Positions \cup {p} |->
                            IF q = p THEN [call |-> call, route |-> rn]
                                     ELSE callsign_lookup[q]]

\* One turn of the second loop: the first entry with the sender's address.
FindGateway ==
  /\ main.pc = "gateway"
  /\ IF main.rp \notin Route
       THEN main' = Idle /\ UNCHANGED <<callsign_lookup, learned>>
     ELSE IF ip[main.rp] = main.src
       THEN /\ route_updatereturnpath(main.call, main.rp)
            /\ learned' = [c \in DOMAIN learned \cup {main.call} |->
                             IF c = main.call THEN main.rp ELSE learned[c]]
            /\ main' = Idle
     ELSE /\ main' = [main EXCEPT !.rp = @ + 1]
          /\ UNCHANGED <<callsign_lookup, learned>>
  /\ UNCHANGED <<ip, tvars>>

\* Mutants: every name is looked up again; no permanent one ever is.
DnsCheckAll(t) ==
  LET rp == thread[t].rp
  IN  /\ thread[t].pc = "walk" /\ rp \in Route
      /\ thread' = [thread EXCEPT ![t] = [pc |-> "lookup", rp |-> rp]]
      /\ UNCHANGED <<ip, callsign_lookup, threadrunning, since, main, learned>>

DnsCheckDynamic(t) ==
  LET rp == thread[t].rp
  IN  /\ thread[t].pc = "walk" /\ rp \in Route
      /\ thread' = [thread EXCEPT ![t] =
           IF ~Has(rp, "PERMANENT") THEN [pc |-> "lookup", rp |-> rp]
                                    ELSE [pc |-> "walk", rp |-> rp + 1]]
      /\ UNCHANGED <<ip, callsign_lookup, threadrunning, since, main, learned>>

\* update_dnsthread, one entry: look the name up if the route is not
\* permanent, or if its address is still unknown.
DnsCheck(t) ==
  LET rp == thread[t].rp
  IN  /\ thread[t].pc = "walk" /\ rp \in Route
      /\ thread' = [thread EXCEPT ![t] =
           IF ~Has(rp, "PERMANENT") \/ ip[rp] = NoIp
             THEN [pc |-> "lookup", rp |-> rp]
             ELSE [pc |-> "walk", rp |-> rp + 1]]
      /\ UNCHANGED <<ip, callsign_lookup, threadrunning, since, main, learned>>

\* gethostbyname has an answer: store it.
DnsAnswer(t) ==
  /\ thread[t].pc = "lookup"
  /\ \E a \in DnsAnswers[Config[thread[t].rp].host] :
       ip' = [ip EXCEPT ![thread[t].rp] = a]
  /\ thread' = [thread EXCEPT ![t] = [pc |-> "walk", rp |-> @.rp + 1]]
  /\ UNCHANGED <<callsign_lookup, threadrunning, since, main, learned>>

DnsFailure(t) ==
  /\ thread[t].pc = "lookup"
  /\ thread' = [thread EXCEPT ![t] = [pc |-> "walk", rp |-> @.rp + 1]]
  /\ UNCHANGED <<ip, callsign_lookup, threadrunning, since, main, learned>>

DnsDone(t) ==
  /\ thread[t].pc = "walk" /\ thread[t].rp \notin Route
  /\ thread' = [thread EXCEPT ![t] = NoThread]
  /\ threadrunning' = FALSE
  /\ UNCHANGED <<ip, callsign_lookup, since, main, learned>>

MainStep == \/ ScanRoute \/ UpdateDynDns \/ CheckDynDns \/ ScanDone \/ FindGateway
ThreadStep(t) == DnsCheck(t) \/ DnsAnswer(t) \/ DnsFailure(t) \/ DnsDone(t)

Next ==
  \/ PollDns \/ Tick
  \/ \E src \in Sources, call \in Calls : RouteProcess(src, call)
  \/ MainStep
  \/ \E t \in Tid : ThreadStep(t)

Spec == Init /\ [][Next]_vars

\* A thread is started; together with the steps of a thread that get one
\* answer, this is what the fairness of MCAx25ipdLoop is about.
StartsThread == (PollDns \/ CheckDynDns) /\ thread' # thread

-----------------------------------------------------------------------------
(* Properties *)

\* Shape of the state: walks over the table stay inside it, return paths
\* point to entries of it.
TypeOK ==
  /\ ip \in [Route -> Ip]
  /\ Positions \subseteq Seq({"prev", "next"})
  /\ \A p \in Positions : callsign_lookup[p] \in [call : Calls, route : Route]
  /\ threadrunning \in BOOLEAN
  /\ since \in 0..WAIT_POLL
  /\ main = Idle \/ main \in [pc : {"scan", "changed", "learned", "gateway"},
                              rp : 1..(Len(Config) + 1), src : Sources,
                              call : Calls, isroute : BOOLEAN]
  /\ main.pc \in {"changed", "learned"} => main.rp \in Route
  /\ thread \in [Tid -> {NoThread}
                        \cup [pc : {"walk"}, rp : 1..(Len(Config) + 1)]
                        \cup [pc : {"lookup"}, rp : Route]]
  /\ DOMAIN learned \subseteq Calls
  /\ \A c \in DOMAIN learned : learned[c] \in Route

\* "Don't start a thread when one is going already": whatever the order of
\* polls, changed addresses, failed starts and thread ends, at most one DNS
\* thread walks the table, and the flag says so.
OneDnsThread ==
  /\ \A t, u \in Tid : thread[t] # NoThread /\ thread[u] # NoThread => t = u
  /\ threadrunning <=> \E t \in Tid : thread[t] # NoThread

\* A permanent route that has an address keeps it, unless it also learns.
\* The DNS thread tests the address before a lookup and stores the answer
\* after it, so this leans on there being one thread only.
PermanentKept ==
  [][\A r \in Route :
       Has(r, "PERMANENT") /\ ~Has(r, "LEARN") /\ ip[r] # NoIp => ip'[r] = ip[r]]_ip

\* Every callsign with a return path is found by the search of call_to_ip,
\* with its latest route, although addrcompare does not order the callsigns:
\* nodes never move, so a search repeats the comparisons of the insertion.
ReturnPathFound ==
  \A c \in DOMAIN learned :
    Search(c) \in Positions /\ callsign_lookup[Search(c)].route = learned[c]

\* Return paths never shadow the configuration: no callsign of the tree is
\* matched by a route entry or by a broadcast callsign.
ReturnPathsAreExtra ==
  \A p \in Positions : LET c == callsign_lookup[p].call
                       IN  Matching(c) = {} /\ ~is_call_bcast(c)

\* A host whose name could not be resolved at startup is probed again until
\* it has an address (config.c: "will probe it again later").
UnknownHostResolved ==
  \A r \in Route : (NoIp \notin DnsAnswers[Config[r].host]
                     /\ DnsAnswers[Config[r].host] # {})
                   => <>(ip[r] # NoIp)
=============================================================================
