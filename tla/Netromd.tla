------------------------------- MODULE Netromd -------------------------------
(***************************************************************************)
(* netromd: NODES broadcasts (netromt.c), what a node learns from those it *)
(* hears (netromr.c), and the kernel's routing tables they meet in.  One   *)
(* port per node; the child that sends runs beside the daemon that         *)
(* receives.  Broadcasts are heard by any of the neighbours, or by none.   *)
(***************************************************************************)
EXTENDS Integers, Sequences, FiniteSets, FiniteSetsExt, SequencesExt

CONSTANTS
  Nodes,        \* callsigns of the nodes
  Neighbours,   \* [Nodes -> SUBSET Nodes]: who hears a node, which does not hear itself
  Hops,         \* [Nodes -> [Nodes -> Nat]]: how far apart they are
  Dests,        \* sequence of the nodes whose routes are followed, as /proc lists them
  Leavers,      \* nodes that may go off the air for good
  BadMnemonics, \* nodes with a mnemonic that compliant nodes refuse
  Compliant,    \* nodes that run with -c
  default_qual, worst_qual, minimum_obs, obs_init,
  PerPacket,    \* routes in a packet: (NODES_PACLEN - 7) \div ROUTE_LEN = 11
  MaxChildren   \* bound: children at work at the same time in one node

ASSUME RoutingConstants ==
  /\ Neighbours \in [Nodes -> SUBSET Nodes] /\ Dests \in Seq(Nodes)
  /\ Hops \in [Nodes -> [Nodes -> Nat]]
  /\ \A n \in Nodes : n \notin Neighbours[n]
  /\ \A n, d \in Nodes : Hops[n][d] = 0 <=> n = d
  /\ \A n, d \in Nodes : \A m \in Neighbours[n] : Hops[m][d] <= Hops[n][d] + 1
  /\ {default_qual, worst_qual} \subseteq 0..255
  /\ minimum_obs \in 0..6 /\ {obs_init, PerPacket, MaxChildren} \subseteq Nat \ {0}

VARIABLES
  up,     \* nodes on the air
  routes, \* [Nodes -> [Range(Dests) -> set of routes]]: the kernel's tables
  child   \* [Nodes -> sequence of sending children]
vars == <<up, routes, child>>

Tracked == Range(Dests)

Init ==
  /\ up = Nodes
  /\ routes = [n \in Nodes |-> [d \in Tracked |-> {}]]
  /\ child = [n \in Nodes |-> <<>>]

-----------------------------------------------------------------------------
(* The kernel's table: up to three routes for a node, the best one first.  *)

Best(rs) == CHOOSE r \in rs : \A o \in rs : o.quality <= r.quality
Worst(rs) == CHOOSE r \in rs : \A o \in rs : o.quality >= r.quality

\* SIOCADDRT.  Quality zero does not change a known route.
AddRoute(t, d, r) ==
  LET others == {o \in t[d] : o.neigh # r.neigh} IN
  IF d \notin Tracked THEN t
  ELSE [t EXCEPT ![d] = IF others # @ THEN IF r.quality = 0 THEN @ ELSE others \cup {r}
                        ELSE IF Cardinality(@) < 3 THEN @ \cup {r}
                        ELSE IF r.quality > Worst(@).quality THEN (@ \ {Worst(@)}) \cup {r}
                        ELSE @]

\* SIOCNRDECOBS
DecObs(t) == [d \in Tracked |-> {[r EXCEPT !.obs = @ - 1] : r \in {o \in t[d] : o.obs > 1}}]

-----------------------------------------------------------------------------
(* netromr.c *)

Route(neigh, quality) == [neigh |-> neigh, quality |-> quality, obs |-> obs_init]

validmnemonic(m, d) == m \in Compliant => d \notin BadMnemonics

\* Mutant: the product is not divided by the best quality.
QualityKept(q, best) == best
Quality(q, best) == (q * best + 128) \div 256

\* add_node: what becomes of the table t of m, and -1 if the rest is dropped.
add_node(m, t, from, e) ==
  IF ~validmnemonic(m, e.call) THEN [t |-> t, ret |-> -1]
  ELSE IF e.best = m THEN [t |-> t, ret |-> 0]
  ELSE IF Quality(default_qual, e.quality) < worst_qual THEN [t |-> t, ret |-> 0]
  ELSE IF e.call = m THEN [t |-> t, ret |-> -1]    \* refused by SIOCADDRT
  ELSE [t |-> AddRoute(t, e.call, Route(from, Quality(default_qual, e.quality))), ret |-> 1]

\* The sender itself, then its routes up to the first one that is not sound.
receive_nodes(m, t, from, entries) ==
  LET first == IF validmnemonic(m, from) THEN AddRoute(t, from, Route(from, default_qual)) ELSE t
      after[i \in 0..Len(entries)] ==
        IF i = 0 THEN [t |-> first, ret |-> 0]
        ELSE IF after[i - 1].ret = -1 THEN after[i - 1]
        ELSE add_node(m, after[i - 1].t, from, entries[i])
  IN after[Len(entries)].t

-----------------------------------------------------------------------------
(* netromt.c *)

\* The routes that build_others announces of a table.
Announced(t) ==
  LET good(d) == t[d] # {} /\ Best(t[d]).obs >= minimum_obs /\ Best(t[d]).quality # 0
      entry(d) == [call |-> d, best |-> Best(t[d]).neigh, quality |-> Best(t[d]).quality]
      all[i \in 0..Len(Dests)] ==
        IF i = 0 THEN <<>>
        ELSE IF good(Dests[i]) THEN Append(all[i - 1], entry(Dests[i])) ELSE all[i - 1]
  IN all[Len(Dests)]

\* sendto, heard by any of the neighbours at once or by nobody.
Broadcast(n, entries) ==
  \E to \in SUBSET (Neighbours[n] \cap up) :
    routes' = [m \in Nodes |-> IF m \in to THEN receive_nodes(m, routes[m], n, entries)
                               ELSE routes[m]]

\* The timer of the main loop: fork.
transmit_nodes(n) ==
  /\ n \in up /\ Len(child[n]) < MaxChildren
  /\ child' = [child EXCEPT ![n] = Append(@, [pc |-> "mine", rest |-> <<>>])]
  /\ UNCHANGED <<up, routes>>

Becomes(n, i, c) == child' = [child EXCEPT ![n][i] = c]

\* The packet about this node; there are no other ports to be named.
build_mine(n, i) ==
  /\ child[n][i].pc = "mine"
  /\ Becomes(n, i, [pc |-> "read", rest |-> <<>>]) /\ Broadcast(n, <<>>)
  /\ UNCHANGED up

\* Mutant: a packet with room for one more is taken for the last one.
MoreRoom(packet) == Len(packet) > PerPacket
More(packet) == Len(packet) = PerPacket

\* A packet of build_others: the first one reads the tables, and the others
\* come from what it read.  Nothing follows a packet that was not full.
build_others(n, i) ==
  /\ child[n][i].pc \in {"read", "others"}
  /\ LET all == IF child[n][i].pc = "read" THEN Announced(routes[n]) ELSE child[n][i].rest
         packet == SubSeq(all, 1, Min({Len(all), PerPacket}))
         rest == SubSeq(all, Len(packet) + 1, Len(all))
     IN /\ Becomes(n, i, IF More(packet) THEN [pc |-> "others", rest |-> rest]
                         ELSE [pc |-> "decobs", rest |-> rest])
        /\ IF packet # <<>> THEN Broadcast(n, packet) ELSE UNCHANGED routes
  /\ UNCHANGED up

\* Mutant: the child ends without counting down.
DecrementForgotten(n, i) ==
  /\ child[n][i].pc = "decobs"
  /\ child' = [child EXCEPT ![n] = RemoveAt(@, i)]
  /\ UNCHANGED <<up, routes>>

\* The end of the child, which counts obsolescence down.
Decrement(n, i) ==
  /\ child[n][i].pc = "decobs"
  /\ child' = [child EXCEPT ![n] = RemoveAt(@, i)]
  /\ routes' = [routes EXCEPT ![n] = DecObs(@)]
  /\ UNCHANGED up

Child(n) == \E i \in DOMAIN child[n] : build_mine(n, i) \/ build_others(n, i) \/ Decrement(n, i)

Leave(n) ==
  /\ n \in Leavers \cap up
  /\ up' = up \ {n} /\ child' = [child EXCEPT ![n] = <<>>]
  /\ routes' = [routes EXCEPT ![n] = [d \in Tracked |-> {}]]

Next == \E n \in Nodes : transmit_nodes(n) \/ Child(n) \/ Leave(n)

\* Timers go off and children go on.
Fairness == \A n \in Nodes : WF_vars(transmit_nodes(n)) /\ WF_vars(Child(n))
Spec == Init /\ [][Next]_vars /\ Fairness

-----------------------------------------------------------------------------
RouteType == [neigh : Nodes, quality : 0..255, obs : 1..obs_init]
TypeOK ==
  /\ up \subseteq Nodes
  /\ \A n \in Nodes, d \in Tracked :
       routes[n][d] \subseteq RouteType /\ Cardinality(routes[n][d]) <= 3
  /\ \A n \in Nodes : \A i \in DOMAIN child[n] : child[n][i].pc \in {"mine", "read", "others", "decobs"}

\* The quality that a route over k hops may have at most.
HopQuality[k \in Nat] ==
  IF k <= 1 THEN default_qual ELSE (default_qual * HopQuality[k - 1] + 128) \div 256

\* netromr.c:104: a route is never better than the distance allows, however
\* old the broadcasts are and whatever was lost: no node becomes attractive
\* for one it cannot reach as well as it says.
HonestQuality ==
  \A n \in Nodes, d \in Tracked : \A r \in routes[n][d] :
    /\ n # d
    /\ r.quality <= HopQuality[Hops[n][d]]

\* netromt.c:198: a child that is through has announced all it had read.
AllAnnounced == \A n \in Nodes : \A i \in DOMAIN child[n] :
                  child[n][i].pc = "decobs" => child[n][i].rest = <<>>

\* netromr.c:104, netromt.c:198: whatever is lost or late, no route of a node
\* is better than the distance allows, and a child announces all it has read.
NodesHonest == TypeOK /\ HonestQuality /\ AllAnnounced

\* What holds at last: a node that has gone off the air is in no table.
Forgotten(d) == \A n \in up : routes[n][d] = {}
GoneForgotten == \A d \in Leavers \cap Tracked : d \notin up => Forgotten(d)
=============================================================================
