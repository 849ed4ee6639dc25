-------------------------------- MODULE Rip98d --------------------------------
(***************************************************************************)
(* rip98d: RIP98 between routers that list each other as destinations, and *)
(* the kernel's route tables.  A network is the sequence of its bits: one  *)
(* covers another if it is a prefix of it.                                 *)
(***************************************************************************)
EXTENDS Integers, Sequences, FiniteSets, FiniteSetsExt, SequencesExt

CONSTANTS
  Routers,
  Dest,          \* [Routers -> SUBSET Routers]: rip98d.conf
  RipHops,          \* [Routers -> [Routers -> Nat]]: how far apart they are
  Own,           \* [Routers -> routes of the administrator: sequence of [addr, metric]]
  MaxEntries,    \* routes in a datagram: 30
  RIP98_INFINITY,
  MaxTrouble     \* bound: ioctls that fail and datagrams lost

ASSUME RipConstants ==
  /\ Dest \in [Routers -> SUBSET Routers]
  /\ Own \in [Routers -> Seq([addr : Seq({0, 1}), metric : Nat])]
  /\ RipHops \in [Routers -> [Routers -> Nat]]
  /\ \A r, t \in Routers : RipHops[r][r] = 0 /\ \A s \in Dest[r] : RipHops[r][t] <= RipHops[s][t] + 1
  /\ {MaxEntries, RIP98_INFINITY} \subseteq Nat \ {0} /\ MaxTrouble \in Nat

VARIABLES
  kernel,   \* [Routers -> sequence of routes], as /proc/net/route lists them
  net,      \* datagrams under way
  due,      \* routers whose interval is over
  failures, \* history: ioctls that have failed
  lost      \* history: datagrams lost
rip_vars == <<kernel, net, due, failures, lost>>

RipInit ==
  /\ kernel = [r \in Routers |-> [i \in DOMAIN Own[r] |->
                 [addr |-> Own[r][i].addr, metric |-> Own[r][i].metric, dynamic |-> FALSE, via |-> r]]]
  /\ net = {} /\ due = Routers /\ failures = 0 /\ lost = 0

-----------------------------------------------------------------------------
\* read_routes: every entry goes to the front of the list.
read_routes(r) ==
  Reverse([i \in DOMAIN kernel[r] |->
             [addr |-> kernel[r][i].addr, metric |-> kernel[r][i].metric,
              action |-> IF kernel[r][i].dynamic THEN "ORIG" ELSE "FIXED"]])

Overlap(a, b) == IsPrefix(a, b) \/ IsPrefix(b, a)

\* cmp_route
cmp_route(route, addr, metric) ==
  IF route.action \in {"DEL", "NEW"} \/ ~Overlap(route.addr, addr) THEN "UNMATCH"
  ELSE IF route.metric <= metric THEN "NO"
  ELSE IF Len(route.addr) <= Len(addr) /\ route.action = "ORIG" THEN "REPLACE"
  ELSE "ADDITIONAL"

\* Mutant: the hop to the sender is not counted.
NextMetricSame(m) == Min({m, RIP98_INFINITY})
NextMetric(m) == Min({m + 1, RIP98_INFINITY})

\* What an entry of a datagram makes of the list.
Considered(list, e) ==
  LET metric == NextMetric(e.metric)
      verdict == [i \in DOMAIN list |-> cmp_route(list[i], e.addr, metric)]
      kept == [i \in DOMAIN list |-> IF verdict[i] = "REPLACE" THEN [list[i] EXCEPT !.action = "DEL"]
                                     ELSE list[i]]
      new == <<[addr |-> e.addr, metric |-> metric, action |-> "NEW"]>>
  IN IF \/ Range(verdict) \cap {"REPLACE", "ADDITIONAL"} # {}
        \/ Range(verdict) \subseteq {"UNMATCH"}
     THEN new \o kept ELSE kept

\* receive_routes up to the ioctls: the one list that results, in a set.
Heard(list, entries) ==
  LET after[i \in 0..Len(entries)] ==
        IF i = 0 THEN {list} ELSE {Considered(l, entries[i]) : l \in after[i - 1]}
  IN after[Len(entries)]

\* The elements of s at the places I.
Picked(s, I) ==
  LET picked[i \in 0..Len(s)] ==
        IF i = 0 THEN <<>> ELSE IF i \in I THEN Append(picked[i - 1], s[i]) ELSE picked[i - 1]
  IN  picked[Len(s)]

\* SIOCDELRT is given the address alone: the kernel takes away the first route
\* to it.  The places in its table that are free after the ones that work.
Deleted(table, list, failed) ==
  {k \in DOMAIN table :
     Cardinality({j \in 1..k : table[j].addr = table[k].addr})
       <= Cardinality({i \in DOMAIN list \ failed : list[i].action = "DEL" /\ list[i].addr = table[k].addr})}

\* SIOCADDRT adds a route at the end, unless it is there or fails.
Added(table, list, failed, from) ==
  LET new == [i \in DOMAIN list |-> [addr |-> list[i].addr, metric |-> list[i].metric,
                                     dynamic |-> TRUE, via |-> from]]
  IN  table \o Picked(new, {i \in DOMAIN list \ failed : list[i].action = "NEW"
                                                          /\ new[i] \notin Range(table)})

\* transmit_routes: the list in datagrams of MaxEntries, to each destination.
Datagrams(list) ==
  LET sent == Picked(list, {i \in DOMAIN list : list[i].action # "DEL"})
      entries == [i \in DOMAIN sent |-> [addr |-> sent[i].addr, metric |-> sent[i].metric]]
      count == (Len(entries) + MaxEntries - 1) \div MaxEntries
  IN {SubSeq(entries, (k - 1) * MaxEntries + 1, Min({k * MaxEntries, Len(entries)})) : k \in 1..count}
Sent(r, list) ==
  {[from |-> r, to |-> d, entries |-> e] : d \in Dest[r], e \in Datagrams(list)}

\* A turn of the main loop with the list as it is after what was received.
Turn(r, list, others) ==
  /\ net' = IF r \in due THEN others \cup Sent(r, list) ELSE others
  /\ due' = due \ {r}

\* select returned because of a datagram.  An unlisted sender is not heard.
receive_routes(r, d) ==
  /\ d \in net /\ d.to = r
  /\ \E list \in Heard(read_routes(r), IF d.from \in Dest[r] THEN d.entries ELSE <<>>) :
     \E failed \in SUBSET {i \in DOMAIN list : list[i].action \in {"DEL", "NEW"}} :
       /\ failures' = failures + Cardinality(failed) /\ failures' + lost <= MaxTrouble
       /\ kernel' = [kernel EXCEPT ![r] = Added(Picked(@, DOMAIN @ \ Deleted(@, list, failed)), list, failed, d.from)]
       /\ Turn(r, list, net \ {d}) /\ UNCHANGED lost

\* select timed out.
transmit_routes(r) ==
  /\ r \in due
  /\ \E list \in {read_routes(r)} : Turn(r, list, net)
  /\ UNCHANGED <<kernel, failures, lost>>

\* Bound: a datagram arrives or is lost before the sender's next interval is over.
Interval(r) == /\ r \notin due /\ \A d \in net : d.from # r
               /\ due' = due \cup {r} /\ UNCHANGED <<kernel, net, failures, lost>>

Lose == /\ failures + lost < MaxTrouble /\ lost' = lost + 1
        /\ \E d \in net : net' = net \ {d} /\ UNCHANGED <<kernel, due, failures>>

RipNext == \/ \E r \in Routers : transmit_routes(r) \/ Interval(r)
        \/ \E r \in Routers, d \in net : receive_routes(r, d)
        \/ Lose

Networks == UNION {{x.addr : x \in Range(Own[r])} : r \in Routers}
Hear(r, s) == \E d \in net : d.from = s /\ receive_routes(r, d)

\* Time passes, and what has arrived is read in its turn.
RipFairness == \A r \in Routers : /\ WF_rip_vars(transmit_routes(r) \/ Interval(r))
                              /\ \A s \in Dest[r] : WF_rip_vars(Hear(r, s))
RipSpec == RipInit /\ [][RipNext]_rip_vars /\ RipFairness

-----------------------------------------------------------------------------
Distance(r, a) ==
  Min(UNION {{RipHops[r][s] + x.metric : x \in {y \in Range(Own[s]) : y.addr = a}} : s \in Routers})

RipTypeOK ==
  /\ \A r \in Routers : \A i \in DOMAIN kernel[r] :
       kernel[r][i].metric \in 0..RIP98_INFINITY /\ kernel[r][i].via \in Routers
  /\ \A d \in net : Len(d.entries) \in 1..MaxEntries
  /\ due \subseteq Routers

\* rip98r.c:142: no route is shorter than the way, whatever is lost, late or
\* fails, so that two routers never send to each other what neither can reach.
HonestMetric ==
  \A r \in Routers : \A i \in DOMAIN kernel[r] :
    /\ kernel[r][i].metric >= Min({Distance(r, kernel[r][i].addr), RIP98_INFINITY})
    /\ kernel[r][i].dynamic => kernel[r][i].via \in Dest[r]

\* Each router has learned the shortest way to each network that no other one
\* covers.
Alone(a) == \A b \in Networks : Overlap(a, b) => a = b
Learned == \A r \in Routers, a \in Networks : Alone(a) =>
             \E i \in DOMAIN kernel[r] : kernel[r][i].addr = a /\ kernel[r][i].metric = Distance(r, a)
=============================================================================
