------------------------------ MODULE MCAx25rtd ------------------------------
(***************************************************************************)
(* The routing daemon.  A behaviour runs one of the small instances in     *)
(* Parts, chosen at the start; the variables of the others keep their      *)
(* initial values.                                                         *)
(*   list:    a cache's list, statement by statement, with 3 keys, memory  *)
(*            for 3 entries and a maximum of 3 or 0;                       *)
(*   kernel:  two IP addresses of a station that changes its port, caches  *)
(*            of 1 or 2 entries, ip-encaps-dev, expiry;                    *)
(*   restart: the same station with one address; saves, crashes, restarts. *)
(* The last two are the daemon with some configurations and frames.        *)
(***************************************************************************)
EXTENDS Ax25rtdList, Ax25rtd

CONSTANT Parts

VARIABLE part

Symmetry == Permutations(Nodes)

-----------------------------------------------------------------------------
\* p1 learns from every frame, p2 from frames for its callsigns.
Port(mine, arp) ==
  [ax25_add_route |-> TRUE, ax25_for_me |-> mine, ax25_add_default |-> ~mine,
   ip_add_route |-> TRUE, ip_add_arp |-> arp]
Cfg(max, encaps, arp) ==
  [ax25_maxroutes |-> max, ip_maxroutes |-> max, encaps |-> encaps,
   port |-> [p1 |-> Port(FALSE, FALSE), p2 |-> Port(TRUE, arp)]]

F(port, call, mine, a) ==
  [port |-> port, call |-> call, mine |-> mine, path |-> <<>>, ip |-> a, mode |-> "d"]
Heard(port, call) == F(port, call, FALSE, "noip")

Net(as) == [p1 |-> as, p2 |-> as]
Station == {Heard("p1", "c1"), F("p1", "c1", TRUE, "i1"), F("p2", "c1", TRUE, "i1")}
Permanent == [kind |-> "ax25", e |-> [call |-> "c2", dev |-> "p2", path |-> <<>>, stamp |-> 0]]

Moving == (Station \ {Heard("p1", "c1")}) \cup {F("p1", "c1", TRUE, "i2")}
KernelConfs == {Cfg(1, "none", FALSE), Cfg(2, "p2", FALSE)}
RestartConfs == {Cfg(1, "none", TRUE), Cfg(2, "none", TRUE)}

MCSubnet == Net({"i1", "i2"})
MCDefaultPath == <<"d1">>
MCConfs == KernelConfs \cup RestartConfs
MCFrames == Station \cup Moving
MCAdds == {Permanent}
MCDels == {<<"c1", "p1">>}

Kernel == INSTANCE Ax25rtd WITH Confs <- KernelConfs, Frames <- Moving, Restarts <- FALSE
Restart == INSTANCE Ax25rtd
  WITH Subnet <- Net({"i1"}), Confs <- RestartConfs, Frames <- Station, MaxNow <- 1

ASSUME /\ ListConstants /\ RtdConstants /\ SameOptions
       /\ Kernel!RtdConstants /\ Restart!RtdConstants

-----------------------------------------------------------------------------
\* A part that does not run has one of its configurations.
One(S) == CHOOSE x \in S : TRUE
MCInit ==
  /\ part \in Parts /\ Init /\ RtdInit
  /\ part # "list" => maxroutes = One(Sizes)
  /\ conf \in CASE part = "kernel" -> KernelConfs
               [] part = "restart" -> RestartConfs
               [] OTHER -> {One(Confs)}

MCNext ==
  /\ part' = part
  /\ \/ part = "list" /\ Next /\ UNCHANGED rtd_vars
     \/ part = "kernel" /\ Kernel!RtdNext /\ UNCHANGED vars
     \/ part = "restart" /\ Restart!RtdNext /\ UNCHANGED vars

MCSpec == MCInit /\ [][MCNext]_<<part, vars, rtd_vars>>
=============================================================================
