------------------------------- MODULE Ax25rtd -------------------------------
(***************************************************************************)
(* The AX.25 routing daemon (ax25apps/ax25rtd): routes learned from heard  *)
(* frames and from commands, kept in two caches, copied into the kernel's  *)
(* AX.25, IP and ARP tables, and saved to two files that are loaded again  *)
(* when the daemon starts.                                                 *)
(*                                                                         *)
(* One handler is one step: the loop of main runs it to its end.  What a   *)
(* signal finds in the middle of a list operation is in Ax25rtdList, which *)
(* also shows that the lists are the sequences they are here.  A frame is  *)
(* one that ax25_receive has found sound and fully repeated; its path is   *)
(* the inverted list of its digipeaters.  iproute2-table is not set.  The  *)
(* kernel may refuse an IP route or an ARP entry.                          *)
(***************************************************************************)
EXTENDS Naturals, FiniteSets, FiniteSetsExt, SequencesExt

CONSTANTS
  Ports,        \* AX.25 devices of ax25rtd.conf
  Foreign,      \* a network device ax25rtd does not know
  Subnet,       \* [Ports -> IP addresses that fit the netmask of the device]
  NoIp,         \* the frame carries no IP datagram
  DefaultPath,  \* ax25-add-path
  Confs,        \* configurations: [ax25_maxroutes, ip_maxroutes, port, encaps]
  Frames,       \* frames heard: [port, call, mine, path, ip, mode]
  Adds,         \* "add" commands (see Line)
  Dels,         \* AX.25 routes to delete: <<call, port>>
  Restarts,     \* bound: whether the files are written and the daemon ends
  MaxNow        \* bound: the clock

Ips == UNION {Subnet[p] : p \in Ports}
Options == [{"ax25_add_route", "ax25_for_me", "ax25_add_default", "ip_add_route", "ip_add_arp"} -> BOOLEAN]

\* An entry of the cache of AX.25 routes, and one of the cache of IP routes.
IsAx25(e) == e = [call |-> e.call, dev |-> e.dev, path |-> e.path, stamp |-> e.stamp]
IsIp(e) == /\ e = [ip |-> e.ip, dev |-> e.dev, call |-> e.call, mode |-> e.mode,
                   stamp |-> e.stamp, invalid |-> e.invalid]
           /\ e.invalid \in BOOLEAN

ASSUME RtdConstants ==
  /\ Foreign \notin Ports /\ MaxNow \in Nat \ {0}
  /\ \A c \in Confs : /\ c.ax25_maxroutes \in Nat /\ c.ip_maxroutes \in Nat
                      /\ c.port \in [Ports -> Options]
  /\ \A f \in Frames : f.port \in Ports /\ f.mine \in BOOLEAN
  /\ \A l \in Adds : /\ l.e.dev \in Ports /\ l.e.stamp \in 0..MaxNow
                     /\ (l.kind = "ax25" /\ IsAx25(l.e)) \/ (l.kind = "ip" /\ IsIp(l.e))

VARIABLES
  run,    \* "up", "down", "load"
  conf,
  ax,     \* ax25_routes: [call, dev, path, stamp], first to last
  ip,     \* ip_routes: [ip, dev, call, mode, stamp, invalid]
  kernel, \* [ax : {[call, dev, path]}, rt : {[ip, dev]}, arp : {[ip, dev, call]}]
  saved,  \* the two files: [ax, ip]
  todo,   \* lines load_cache has yet to interpret
  now     \* stamp 0 is for ever

rtd_vars == <<run, conf, ax, ip, kernel, saved, todo, now>>

\* The daemon's state as the functions below take and return it.
Tables == [ax |-> ax, ip |-> ip, kernel |-> kernel]
SetTables(t) == ax' = t.ax /\ ip' = t.ip /\ kernel' = t.kernel

Opt(port) == conf.port[port]

\* The list s without what is at the places I.
Without(s, I) ==
  LET kept[i \in 0..Len(s)] ==
        IF i = 0 THEN <<>> ELSE IF i \in I THEN kept[i - 1] ELSE Append(kept[i - 1], s[i])
  IN  kept[Len(s)]

\* At the maximum, the entry at the end of a list makes room.
Room(s, max) == IF Len(s) >= max THEN Front(s) ELSE s

-----------------------------------------------------------------------------
(* The kernel *)

\* Routes of ports whose routes the daemon is not to touch stay.
DelKernelIpRoutes(t, rs) ==
  [t EXCEPT !.kernel.rt = @ \ {r \in rs : Opt(r.dev).ip_add_route}]

DelKernelAx25Routes(t, rs) ==
  [t EXCEPT !.kernel.ax =
     {k \in @ : ~(Opt(k.dev).ax25_add_route /\ [call |-> k.call, dev |-> k.dev] \in rs)}]

\* SIOCADDRT replaces the path of a route to the same callsign on the port.
SetAx25Route(t, e) ==
  IF ~Opt(e.dev).ax25_add_route THEN t
  ELSE [t EXCEPT !.kernel.ax = {k \in @ : ~(k.call = e.call /\ k.dev = e.dev)}
                                 \cup {[call |-> e.call, dev |-> e.dev, path |-> e.path]}]

Invalidate(t, a) ==
  [t EXCEPT !.ip = [i \in DOMAIN @ |-> IF @[i].ip = a THEN [@[i] EXCEPT !.invalid = TRUE] ELSE @[i]]]

Refused(t, a) == [ok |-> FALSE, t |-> Invalidate(t, a)]
Taken(t) == [ok |-> TRUE, t |-> t]
HostRoutes(t, a) == {r \in t.kernel.rt : r.ip = a}
Ours(rs) == {r \in rs : r.dev \in Ports}

\* The kernel takes the new route, or not.
AddRoute(t, port, a) ==
  IF ~Opt(port).ip_add_route THEN {Taken(t)}
  ELSE {Taken([t EXCEPT !.kernel.rt = @ \cup {[ip |-> a, dev |-> port]}]), Refused(t, a)}

\* Mutant: a route that points to another device does not stop it.
SetRouteAnyway(t, port, a) == AddRoute(DelKernelIpRoutes(t, Ours(HostRoutes(t, a))), port, a)

\* Mutant: the routes that are there stay beside the new one.
SetRouteBeside(t, port, a) ==
  IF Ours(HostRoutes(t, a)) # HostRoutes(t, a) THEN {Refused(t, a)} ELSE AddRoute(t, port, a)

\* set_route and what may come of it: every host route there is goes first,
\* up to one that points to a device that is not ours, if there is one.
SetRoute(t, port, a) ==
  LET own == Ours(HostRoutes(t, a))
  IN  IF own = HostRoutes(t, a) THEN AddRoute(DelKernelIpRoutes(t, own), port, a)
      ELSE {Refused(DelKernelIpRoutes(t, met), a) : met \in SUBSET own}

\* set_arp, after set_route.
SetArp(t, port, a, c) ==
  IF ~Opt(port).ip_add_arp THEN {t}
  ELSE {Invalidate(t, a),
        [t EXCEPT !.kernel.arp = {r \in @ : ~(r.ip = a /\ r.dev = port)}
                                   \cup {[ip |-> a, dev |-> port, call |-> c]}]}

-----------------------------------------------------------------------------
(* Learning *)

\* Mutant: only another port makes a route a new one.
SameRoutePort(old, port, path) == old.dev = port

SameRoute(old, port, path) == old.dev = port /\ old.path = path

\* update_ax25_route, and set_ax25_route for what it returns.
LearnAx25(t, port, c, path, stamp) ==
  LET it == {i \in DOMAIN t.ax : t.ax[i].call = c}
      new == [call |-> c, dev |-> port, path |-> path, stamp |-> stamp]
  IN  IF it # {}
        THEN LET old == t.ax[Min(it)]
                 left == IF old.dev = port THEN t
                         ELSE DelKernelAx25Routes(t, {[call |-> c, dev |-> old.dev]})
                 moved == [left EXCEPT !.ax = <<new>> \o Without(@, it)]
             IN  IF old.stamp = 0 /\ stamp # 0 THEN t
                 ELSE IF SameRoute(old, port, path) THEN moved
                 ELSE SetAx25Route(moved, new)
        ELSE IF t.ax = <<>> /\ conf.ax25_maxroutes = 0 THEN t
        ELSE SetAx25Route([t EXCEPT !.ax = <<new>> \o Room(@, conf.ax25_maxroutes)], new)

\* update_ip_route, and for what is new, set_route and set_arp: the tables
\* there may be afterwards.
LearnIp(t, line) ==
  LET port == IF conf.encaps \in Ports THEN conf.encaps ELSE line.dev
      it == {i \in DOMAIN t.ip : t.ip[i].ip = line.ip}
      known == it # {}
      old == t.ip[Min(it)]
      new == [line EXCEPT !.dev = port, !.invalid = known /\ old.invalid]
      u == [t EXCEPT !.ip = <<new>> \o (IF known THEN Without(@, it) ELSE Room(@, conf.ip_maxroutes))]
      routed == IF known /\ old.dev = port THEN {Taken(u)} ELSE SetRoute(u, port, line.ip)
  IN  IF \/ line.ip \notin Subnet[port]
         \/ known /\ old.stamp = 0 /\ line.stamp # 0
         \/ ~known /\ t.ip = <<>> /\ conf.ip_maxroutes = 0
        THEN {t}
      ELSE UNION {IF ~r.ok \/ (known /\ old.call = line.call) THEN {r.t}
                  ELSE SetArp(r.t, port, line.ip, line.call) : r \in routed}

\* A line of the caches' files, which is an "add" command.
Ax25Line(e) == [kind |-> "ax25", e |-> e]
IpLine(e) == [kind |-> "ip", e |-> e]

\* Mutant: a route that was invalid is tried again, and may do now.
InterpretInvalid(line) ==
  IF line.kind = "ax25"
    THEN {LearnAx25(Tables, line.e.dev, line.e.call, line.e.path, line.e.stamp)}
    ELSE LearnIp(Tables, [line.e EXCEPT !.invalid = FALSE])

Interpret(line) ==
  IF line.kind = "ax25"
    THEN {LearnAx25(Tables, line.e.dev, line.e.call, line.e.path, line.e.stamp)}
    ELSE IF line.e.invalid THEN {Tables} ELSE LearnIp(Tables, line.e)

-----------------------------------------------------------------------------
RtdInit ==
  /\ run = "up" /\ conf \in Confs /\ now = 1
  /\ ax = <<>> /\ ip = <<>>
  /\ kernel = [ax |-> {}, rt |-> {}, arp |-> {}]
  /\ saved = [ax |-> <<>>, ip |-> <<>>] /\ todo = <<>>

\* ax25_receive: routes from frames for us, or for anybody, IP routes from IP
\* frames for us.  Frames without a path may get the default one.
Receive(f) ==
  LET path == IF ~f.mine /\ f.path = <<>> /\ Opt(f.port).ax25_add_default
                   /\ ~Contains(DefaultPath, f.call)
                THEN DefaultPath ELSE f.path
      t == IF f.mine \/ ~Opt(f.port).ax25_for_me
             THEN LearnAx25(Tables, f.port, f.call, path, now) ELSE Tables
  IN  /\ run = "up"
      /\ IF f.mine /\ f.ip # NoIp
           THEN \E u \in LearnIp(t, [ip |-> f.ip, dev |-> f.port, call |-> f.call,
                                     mode |-> f.mode, stamp |-> now, invalid |-> FALSE]) : SetTables(u)
           ELSE SetTables(t)
      /\ UNCHANGED <<run, conf, saved, todo, now>>

Add(line) ==
  /\ run = "up"
  /\ \E t \in Interpret(line) : SetTables(t)
  /\ UNCHANGED <<run, conf, saved, todo, now>>

Ends == run' = "down" /\ ax' = <<>> /\ ip' = <<>> /\ todo' = <<>>

\* The entries at places axs and ips go, with their routes in the kernel.
Removed(axs, ips) ==
  LET t == DelKernelAx25Routes(DelKernelIpRoutes(Tables, {[ip |-> ip[i].ip, dev |-> ip[i].dev] : i \in ips}),
                               {[call |-> ax[i].call, dev |-> ax[i].dev] : i \in axs})
  IN  [t EXCEPT !.ax = Without(@, axs), !.ip = Without(@, ips)]

\* remove_ax25_route removes the IP routes of the callsign, too, and goes on
\* from each with the pointer of the entry just freed (see Ax25rtdList): what
\* it finds there decides whether it gets past the nth, or crashes.
RemoveEntries(axs, ips) ==
  \E n \in [axs -> 1..(Len(ip) + 1)] :
    LET Nth(i) == Cardinality({k \in 1..i : ip[k].call = ip[i].call})
        ipOf(js) == {i \in DOMAIN ip : \E j \in js : ax[j].call = ip[i].call /\ Nth(i) <= n[j]}
    IN  \/ SetTables(Removed(axs, ipOf(axs) \cup ips)) /\ UNCHANGED <<run, todo>>
        \/ \E j \in axs :
             LET before == {k \in axs : k < j}
             IN  ipOf({j}) # {} /\ Ends /\ kernel' = Removed(before, ipOf(before \cup {j})).kernel

DelAx25(c, port) ==
  /\ run = "up"
  /\ RemoveEntries({i \in DOMAIN ax : ax[i].call = c /\ ax[i].dev = port}, {})
  /\ UNCHANGED <<conf, saved, now>>

DelIp(a) ==
  /\ run = "up"
  /\ SetTables(Removed({}, {i \in DOMAIN ip : ip[i].ip = a}))
  /\ UNCHANGED <<run, conf, saved, todo, now>>

Expire(age) ==
  LET old(s) == {i \in DOMAIN s : s[i].stamp # 0 /\ s[i].stamp + age <= now}
  IN  /\ run = "up"
      /\ RemoveEntries(old(ax), old(ip))
      /\ UNCHANGED <<conf, saved, now>>

ReloadConf ==
  /\ run = "up" /\ conf' \in Confs
  /\ UNCHANGED <<run, ax, ip, kernel, saved, todo, now>>

-----------------------------------------------------------------------------
(* Files, and the end of the daemon *)

SaveCache == saved' = [ax |-> ax, ip |-> ip]

Save == /\ Restarts /\ run = "up" /\ SaveCache
        /\ UNCHANGED <<run, conf, ax, ip, kernel, todo, now>>

\* "shutdown", SIGTERM between two handlers, or an error of a system call.
Shutdown == Restarts /\ run = "up" /\ SaveCache /\ Ends /\ UNCHANGED <<conf, kernel, now>>

\* The daemon dies (a client that has gone raises SIGPIPE), maybe while it is
\* writing one of the files, both of which creat has cut.
Crash ==
  /\ Restarts /\ run # "down" /\ Ends
  /\ \/ saved' = saved
     \/ run = "up" /\ \E n \in 0..Len(ax) : saved' = [saved EXCEPT !.ax = SubSeq(ax, 1, n)]
     \/ run = "up" /\ \E n \in 0..Len(ip) : saved' = [ax |-> ax, ip |-> SubSeq(ip, 1, n)]
  /\ UNCHANGED <<conf, kernel, now>>

\* load_config, then load_cache with a line of a file a step.
Start ==
  /\ Restarts /\ run = "down" /\ run' = "load" /\ conf' \in Confs
  /\ todo' = [i \in DOMAIN saved.ax |-> Ax25Line(saved.ax[i])]
               \o [i \in DOMAIN saved.ip |-> IpLine(saved.ip[i])]
  /\ UNCHANGED <<ax, ip, kernel, saved, now>>

LoadLine ==
  /\ run = "load" /\ todo # <<>>
  /\ \E t \in Interpret(Head(todo)) : SetTables(t)
  /\ todo' = Tail(todo)
  /\ UNCHANGED <<run, conf, saved, now>>

Loaded ==
  /\ run = "load" /\ todo = <<>> /\ run' = "up"
  /\ UNCHANGED <<conf, ax, ip, kernel, saved, todo, now>>

\* Somebody else sets a host route, or the clock goes on.
ForeignRoute(a) ==
  /\ kernel' = [kernel EXCEPT !.rt = @ \cup {[ip |-> a, dev |-> Foreign]}]
  /\ UNCHANGED <<run, conf, ax, ip, saved, todo, now>>

Tick == now < MaxNow /\ now' = now + 1 /\ UNCHANGED <<run, conf, ax, ip, kernel, saved, todo>>

RtdNext ==
  \/ \E f \in Frames : Receive(f)
  \/ \E line \in Adds : Add(line)
  \/ \E d \in Dels : DelAx25(d[1], d[2])
  \/ \E a \in Ips : DelIp(a) \/ ForeignRoute(a)
  \/ \E age \in 1..MaxNow - 1 : Expire(age)
  \/ ReloadConf \/ Save \/ Shutdown \/ Crash \/ Start \/ LoadLine \/ Loaded \/ Tick

RtdSpec == RtdInit /\ [][RtdNext]_rtd_vars

-----------------------------------------------------------------------------
(* Properties *)

OwnRoutes(a) == {r.dev : r \in {q \in kernel.rt : q.ip = a /\ q.dev \in Ports}}

\* Shape of the state: no callsign and no address is in a cache twice.
RtdTypeOK ==
  /\ run \in {"up", "down", "load"} /\ conf \in Confs /\ now \in 1..MaxNow
  /\ \A i \in DOMAIN ax : ax[i].dev \in Ports /\ ax[i].stamp \in 0..MaxNow
  /\ \A i \in DOMAIN ip : ip[i].dev \in Ports /\ ip[i].ip \in Subnet[ip[i].dev]
  /\ IsInjective([i \in DOMAIN ax |-> ax[i].call])
  /\ IsInjective([i \in DOMAIN ip |-> ip[i].ip])
  /\ \A r \in kernel.rt : r.ip \in Ips /\ r.dev \in Ports \cup {Foreign}

\* ax25rtd.conf(5): it "will adjust the route only if it fits the netmask and
\* the old route points to one of the devices ax25rtd knows about".  A route
\* of another device stays, and no route is put beside it.
ForeignKept ==
  [][\A a \in Ips :
       LET f == [ip |-> a, dev |-> Foreign]
       IN  f \in kernel.rt => f \in kernel'.rt /\ OwnRoutes(a)' \subseteq OwnRoutes(a)]_kernel

\* A valid entry of the IP cache is what the kernel does: its host route goes
\* to the port of the entry and, of the ports with ip-learn-routes, to no
\* other.  This holds however often the station moves from port to port, and
\* through evictions, crashes and restarts, which leave routes behind.
RouteFollows ==
  \A i \in DOMAIN ip : ~ip[i].invalid =>
    {p \in OwnRoutes(ip[i].ip) : Opt(p).ip_add_route}
      = IF Opt(ip[i].dev).ip_add_route THEN {ip[i].dev} ELSE {}

\* The kernel reaches every callsign of the AX.25 cache by the path heard
\* last, on the port of ax25-learn-routes it was heard on.
PathFollows ==
  \A i \in DOMAIN ax : Opt(ax[i].dev).ax25_add_route =>
    [call |-> ax[i].call, dev |-> ax[i].dev, path |-> ax[i].path] \in kernel.ax

\* All configurations let the same ports learn routes for the kernel.
SameOptions ==
  \A c, d \in Confs : \A p \in Ports :
    /\ c.port[p].ax25_add_route = d.port[p].ax25_add_route
    /\ c.port[p].ip_add_route = d.port[p].ip_add_route

\* listener.c:211, cache_ctl.c:154: both.  They take SameOptions: for a port
\* that a reload lets learn, the kernel has nothing of what is in the caches.
KernelFollows == RtdTypeOK /\ RouteFollows /\ PathFollows

\* What load_cache makes of the files is what the caches held when they were
\* written, but for IP routes that were invalid, unless a cache has become
\* smaller or IP got a port of its own (ip-encaps-dev): permanent entries stay
\* permanent, and every station is on the port it was on.
FilesRestore ==
  run = "load" /\ todo = <<>> =>
    /\ Len(saved.ax) <= conf.ax25_maxroutes => ToSet(ax) = ToSet(saved.ax)
    /\ Len(saved.ip) <= conf.ip_maxroutes /\ conf.encaps \notin Ports =>
         {[ip[i] EXCEPT !.invalid = FALSE] : i \in DOMAIN ip} = {e \in ToSet(saved.ip) : ~e.invalid}
=============================================================================
