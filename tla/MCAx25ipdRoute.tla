---------------------------- MODULE MCAx25ipdRoute ---------------------------
(***************************************************************************)
(* The main loop of ax25ipd and what it shares with the DNS thread.  A     *)
(* behaviour runs one of the small instances in Parts, chosen at the       *)
(* start; the variables of the others keep their initial values.           *)
(*   route: the routing module with the routes of the .cfg;                *)
(*   dns:   the routing module with three routes that need the DNS;        *)
(*   tty:   the loop on a tty with both sockets and "beacon every";        *)
(*   tap:   the loop on a tap device with "beacon after".                  *)
(***************************************************************************)
EXTENDS Ax25ipdRoute, TLC

CONSTANT Parts

VARIABLES part, pc, pending, got, ready, out, retries, bcage, reports, event

Symmetry == Permutations(Tid)

iovars == <<pc, pending, got, ready, out, retries, bcage, reports, event>>

Call(k, s) == [k |-> k, s |-> s]
GW1 == Call(100, 0)
GW2 == Call(102, 1)
GW3 == Call(104, 0)
QST == Call(162, 0)

\* A dynamic host unknown at startup, a permanent one that is unknown too,
\* and a 0.0.0.0 route, which config.c makes permanent and learning.
MCDnsConfig == << [call |-> GW1, host |-> "dyn",  ip |-> NoIp, flags |-> {"BCAST"}],
                  [call |-> GW2, host |-> "perm", ip |-> NoIp, flags |-> {"PERMANENT"}],
                  [call |-> GW3, host |-> "zero", ip |-> NoIp, flags |-> {"PERMANENT", "LEARN"}] >>
MCDnsCalls == {GW1, GW2, GW3, QST, Call(64, 0)}
MCDnsAnswers == [h \in {"dyn", "perm", "zero"} |->
                   CASE h = "dyn" -> {"A"} [] h = "perm" -> {"A", "B"} [] OTHER -> {NoIp}]
MCBcast == {QST}
MCSources == {"A", "C"}

\* Routes with addresses and a default one, for the tree: the bytes 64, 136
\* and 210 compare in a circle.
MCTreeConfig == << [call |-> GW1, host |-> "dyn", ip |-> "A", flags |-> {"DEFAULT"}],
                   [call |-> GW2, host |-> "perm", ip |-> "C", flags |-> {"PERMANENT"}],
                   [call |-> GW3, host |-> "dyn", ip |-> "A", flags |-> {}] >>
MCTreeCalls == {Call(64, 0), Call(136, 0), Call(136, 3), Call(210, 0), QST, GW1, GW2, GW3}

\* (TypeOK and the other invariants of the .cfg's routes fit these as well.)
Dns == INSTANCE Ax25ipdRoute WITH Config <- MCDnsConfig,
                                  Calls <- MCDnsCalls
Tty == INSTANCE Ax25ipdIo
         WITH Socks <- {"udp", "ip"}, BpqMode <- FALSE, digi <- TRUE, bc_every <- TRUE,
              bc_interval <- 1, SEND_RETRIES <- 2, MaxSends <- 2, MaxBytes <- 2
Tap == INSTANCE Ax25ipdIo
         WITH Socks <- {"udp", "ip"}, BpqMode <- TRUE, digi <- TRUE, bc_every <- FALSE,
              bc_interval <- 1, SEND_RETRIES <- 2, MaxSends <- 2, MaxBytes <- 2

LoopInit ==
  /\ part \in Parts
  /\ Tty!Init
  /\ \/ part # "dns" /\ Init
     \/ part = "dns" /\ Dns!Init

LoopNext ==
  /\ part' = part
  /\ \/ part = "route" /\ Next /\ UNCHANGED iovars
     \/ part = "dns" /\ Dns!Next /\ UNCHANGED iovars
     \/ part = "tty" /\ Tty!Next /\ UNCHANGED vars
     \/ part = "tap" /\ Tap!Next /\ UNCHANGED vars

LoopSpec == LoopInit /\ [][LoopNext]_<<part, vars, iovars>>

\* The main loop and a started thread run on and time passes; threads do not
\* fail to start for ever, and a name asked for again and again is answered.
\* Nothing else is owed by the environment: descriptors may always be
\* readable and every send may meet a full buffer.
Fairness ==
  /\ WF_vars(part = "route" /\ Tick)
  /\ WF_vars(part = "route" /\ MainStep)
  /\ SF_vars(part = "route" /\ StartsThread)
  /\ \A t \in Tid : WF_vars(part = "route" /\ ThreadStep(t))
  /\ \A t \in Tid, r \in Route : SF_vars(part = "route" /\ DnsAnswer(t) /\ thread[t].rp = r)
  /\ WF_iovars(part = "tty" /\ Tty!MainStep)
  /\ WF_iovars(part = "tap" /\ Tap!MainStep)
  /\ WF_iovars(part \in {"tty", "tap"} /\ Tty!Tick)

FairSpec == LoopSpec /\ Fairness

-----------------------------------------------------------------------------
(* Properties that speak of an instance; the others are used as they are *)

\* A host whose name could not be resolved at startup is probed again until
\* it has an address (config.c: "will probe it again later").
HostResolved == part = "route" => UnknownHostResolved

\* SIGTERM stops the daemon whatever the line does: a tty nobody reads any
\* more and descriptors that are always readable only delay it (the comments
\* on SEND_RETRIES and on the empty pselect in io.c).  Until then every SIGUSR1
\* is answered, and with "beacon every" it goes on identifying itself.
LoopLives ==
  /\ []Tty!TypeOK /\ Tty!TermStops /\ Tty!UsrReported
  /\ part = "tty" => Tty!BeaconEvery
=============================================================================
