------------------------------ MODULE MCRouting ------------------------------
(***************************************************************************)
(* The programs that collect what they hear.  A behaviour runs one of      *)
(* Parts:                                                                  *)
(*   netrom: nodes in a triangle as the .cfg has them, and a fourth one    *)
(*           heard by one of them that may go off the air;                 *)
(*   line:   three nodes in a row, three routes to announce, two to a      *)
(*           packet;                                                       *)
(*   rip98:  three routers in a row and two networks, of which one is at   *)
(*           both ends, nearer to one of them;                             *)
(*   mheard: a list of two stations.                                       *)
(* What a part does not use stays as it is.                                *)
(***************************************************************************)
EXTENDS Netromd, Rip98d

CONSTANT Parts

VARIABLES part, row_up, row_routes, row_child,
          mheard_list, hfile, clock, heard, restarts, failed, lastHeard

MCNeighbours == [a |-> {"b", "c", "g"}, b |-> {"a", "c"}, c |-> {"a", "b"}, g |-> {"a"}]
MCHops == [a |-> [a |-> 0, b |-> 1, c |-> 1, g |-> 1], b |-> [a |-> 1, b |-> 0, c |-> 1, g |-> 2],
           c |-> [a |-> 1, b |-> 1, c |-> 0, g |-> 2], g |-> [a |-> 1, b |-> 2, c |-> 2, g |-> 0]]
MCDests == <<"g">>

Line == INSTANCE Netromd
  WITH Nodes <- {"a", "b", "c"}, Neighbours <- [a |-> {"b"}, b |-> {"a", "c"}, c |-> {"b"}],
       Hops <- [a |-> [a |-> 0, b |-> 1, c |-> 2], b |-> [a |-> 1, b |-> 0, c |-> 1],
                c |-> [a |-> 2, b |-> 1, c |-> 0]],
       Dests <- <<"a", "b", "c">>, Leavers <- {}, BadMnemonics <- {"c"}, Compliant <- {"a"},
       default_qual <- 192, worst_qual <- 4, minimum_obs <- 1, obs_init <- 2, PerPacket <- 1,
       MaxChildren <- 1, up <- row_up, routes <- row_routes, child <- row_child
ASSUME RoutingConstants /\ Line!RoutingConstants

-----------------------------------------------------------------------------
MCDest == [a |-> {"b"}, b |-> {"a", "c"}, c |-> {"b"}]
MCRipHops == [a |-> [a |-> 0, b |-> 1, c |-> 2], b |-> [a |-> 1, b |-> 0, c |-> 1],
              c |-> [a |-> 2, b |-> 1, c |-> 0]]
Net(addr, metric) == [addr |-> addr, metric |-> metric]
MCOwn == [a |-> <<Net(<<0>>, 0)>>, b |-> <<Net(<<1>>, 0)>>, c |-> <<Net(<<0>>, 3)>>]

-----------------------------------------------------------------------------
Frame(port, from, valid, control) ==
  [port |-> port, from |-> from, valid |-> valid, control |-> control, pid |-> 240]
\* UI, I, FRMR and RR with the P/F bit, one without control, one cut short.
MCFrames == {Frame(1, 1, TRUE, 19), Frame(1, 2, TRUE, 0), Frame(2, 1, TRUE, 151),
             Frame(1, 3, TRUE, 177), Frame(1, 3, TRUE, -1), Frame(1, 4, FALSE, 0)}

Mh == INSTANCE Mheardd
  WITH mheard_list_size <- 2, HeardFrames <- MCFrames, CharSigned <- TRUE,
       MaxHeard <- 4, MaxClock <- 3, MaxRestarts <- 1, MaxFailed <- 1

-----------------------------------------------------------------------------
row == <<row_up, row_routes, row_child>>
mh == <<mheard_list, hfile, clock, heard, restarts, failed, lastHeard>>

RoutingInit ==
  /\ part \in Parts /\ Init /\ Line!Init /\ RipInit /\ Mh!Init

RoutingNext ==
  /\ part' = part
  /\ \/ part = "netrom" /\ Next /\ UNCHANGED <<row, rip_vars, mh>>
     \/ part = "line" /\ Line!Next /\ UNCHANGED <<vars, rip_vars, mh>>
     \/ part = "rip98" /\ RipNext /\ UNCHANGED <<vars, row, mh>>
     \/ part = "mheard" /\ Mh!Next /\ UNCHANGED <<vars, row, rip_vars>>

\* Timers go off, children go on, and what has arrived is read in its turn.
\* A part has its own actions: one condition states the fairness of two.
Both(A, B) == (part = "netrom" /\ A /\ UNCHANGED rip_vars) \/ (part = "rip98" /\ B /\ UNCHANGED vars)
RoutingSpec ==
  /\ RoutingInit /\ [][RoutingNext]_<<part, vars, row, rip_vars, mh>>
  /\ \A n \in DOMAIN MCDest : WF_<<vars, rip_vars>>(Both(transmit_nodes(n), transmit_routes(n) \/ Interval(n)))
  /\ \A n \in {"a", "c"} : WF_<<vars, rip_vars>>(Both(Child(n), Hear(n, "b")))
  /\ WF_<<vars, rip_vars>>(Both(Child("b"), Hear("b", "a")))
  /\ WF_<<vars, rip_vars>>(Both(Child("g"), Hear("b", "c")))
  /\ WF_vars(part = "netrom" /\ transmit_nodes("g"))

-----------------------------------------------------------------------------
\* netromr.c:104, netromt.c:212: a node off the air disappears from all tables
\* for good, although its neighbours go on learning it from one another.
NodesForgotten == <>[](part = "netrom" => GoneForgotten)

\* rip98r.c:142: each router learns the shortest way to each network that no
\* other one covers, and keeps it.
RipLearned == <>[](part = "rip98" => Learned)

\* netromr.c:104, netromt.c:198: three nodes in a row, of which one drops a name
\* that is not compliant and what follows, claim no better way than there is
\* and announce all they have read, in packets that are just full, too.
\* mheardd.c:479: the file has each station once, as it was heard last, and
\* mheard shows all of it in each order.
HeardRight ==
  /\ RipTypeOK
  /\ part = "line" => Line!NodesHonest
  /\ part = "mheard" => Mh!HeardList /\ Mh!Listed
=============================================================================
