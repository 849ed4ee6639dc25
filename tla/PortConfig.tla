----------------------------- MODULE PortConfig -----------------------------
(***************************************************************************)
(* The port files that every program of the package reads: axconfig.c,     *)
(* nrconfig.c and rsconfig.c.  A name and a callsign (or a ROSE address)   *)
(* are a word [base, tail], the tail being what is written from the "-".   *)
(***************************************************************************)
EXTENDS Integers, Sequences, FiniteSets, FiniteSetsExt, SequencesExt

CONSTANTS
  Lines,        \* lines of a file: [comment, whole, name, call, alias, numbers], numbers: sizes that must be positive
  Networks,     \* what /proc/net/dev may list: sequences of [dev, type, gone, up, call]
  MaxLines, MaxLoads, MaxChanges        \* bounds

VARIABLES kind, file, network, ports, n, loads, changes
vars == <<kind, file, network, ports, n, loads, changes>>

Kinds == {"ax25", "netrom", "rose"}
Bare(c) == [c EXCEPT !.tail = ""]
\* First index of s with P, or 0.
First(s, P(_)) == Min({i \in DOMAIN s : P(s[i])} \cup {Len(s) + 1}) % (Len(s) + 1)

-----------------------------------------------------------------------------
\* "A" and "A-0" are one callsign.
is_same_call(a, b) == a.base = b.base /\ (a.tail = b.tail \/ {a.tail, b.tail} = {"", "-0"})
\* strstr: "-0" and all behind it goes, "-01" too.
CutZero(c) == IF c.tail \in {"-0", "-01"} THEN Bare(c) ELSE c
\* A port is set up only on an interface that is up now.
OnInterface(ps, l, call, ifs) ==
  LET i == First(ifs, LAMBDA f : f.call = call)
  IN IF i = 0 THEN ps ELSE Append(ps, [name |-> l.name, call |-> call, alias |-> l.alias, dev |-> ifs[i].dev])
Positive(l) == \A k \in DOMAIN l.numbers : l.numbers[k] > 0

\* Mutant: only the last port is looked at for duplicates.
DuplicateLast(ps, l) == ps # <<>> /\ (Last(ps).name = l.name \/ is_same_call(l.call, Last(ps).call))
Duplicate(ps, l) == \E i \in DOMAIN ps : ps[i].name = l.name \/ is_same_call(l.call, ps[i].call)
ax25_config_init_port(ps, l, ifs) ==
  IF ~l.whole \/ Duplicate(ps, l) \/ ~Positive(l) THEN ps ELSE OnInterface(ps, l, CutZero(l.call), ifs)
nr_config_init_port(ps, l, ifs) ==
  IF ~l.whole \/ Duplicate(ps, l) \/ (\E i \in DOMAIN ps : ps[i].alias = l.alias) \/ ~Positive(l) THEN ps
  ELSE OnInterface(ps, l, CutZero(l.call), ifs)
rs_config_init_port(ps, l, ifs) ==
  IF ~l.whole \/ \E i \in DOMAIN ps : ps[i].name = l.name \/ ps[i].call = l.call THEN ps
  ELSE OnInterface(ps, l, l.call, ifs)

\* The interfaces first, and none is taken when one has gone in the meantime;
\* then the lines, in order.
LoadPorts(type, init_port(_, _, _)) ==
  LET ifs == SelectSeq(network, LAMBDA f : f.type = type /\ f.up)
      read == FoldLeft(LAMBDA ps, l : IF l.comment THEN ps ELSE init_port(ps, l, ifs), ports, file)
  IN /\ kind = type
     /\ IF \E i \in DOMAIN network : network[i].gone THEN n' = 0 /\ UNCHANGED ports
        ELSE ports' = read /\ n' = Len(read) - Len(ports)

ax25_config_load_ports == LoadPorts("ax25", ax25_config_init_port)
nr_config_load_ports == LoadPorts("netrom", nr_config_init_port)
rs_config_load_ports == LoadPorts("rose", rs_config_init_port)

-----------------------------------------------------------------------------
\* The port of a name; with AX.25 the callsign of a port is a name of it too.
ax25_port_ptr(name) == First(ports, LAMBDA p : p.name = name \/ is_same_call(p.call, name))
nr_port_ptr(name) == First(ports, LAMBDA p : p.name = name)
rs_port_ptr(name) == First(ports, LAMBDA p : p.name = name)

\* name: <<>> for NULL, or <<name>>, as the result is.
NextOf(name, port_ptr(_)) ==
  LET i == IF name = <<>> THEN 0 ELSE port_ptr(name[1])
  IN IF (name # <<>> /\ i = 0) \/ i = Len(ports) THEN <<>> ELSE <<ports[i + 1].name>>
ax25_config_get_next(name) == NextOf(name, ax25_port_ptr)
nr_config_get_next(name) == NextOf(name, nr_port_ptr)
rs_config_get_next(name) == NextOf(name, rs_port_ptr)

NameAt(i) == IF i = 0 THEN <<>> ELSE <<ports[i].name>>
ax25_config_get_name(device) == NameAt(First(ports, LAMBDA p : p.dev = device))
nr_config_get_name(device) == NameAt(First(ports, LAMBDA p : p.dev = device))
rs_config_get_name(device) == NameAt(First(ports, LAMBDA p : p.dev = device))
\* By the callsign of the address; "A-1" and "A-01" are one, as ax25_aton_entry reads.
Address(c) == [c EXCEPT !.tail = IF @ = "-01" THEN "-1" ELSE IF @ = "-0" THEN "" ELSE @]
ax25_config_get_port(call) == NameAt(First(ports, LAMBDA p : Address(p.call) = Address(call)))
nr_config_get_port(call) == NameAt(First(ports, LAMBDA p : Address(p.call) = Address(call)))
rs_config_get_port(addr) == NameAt(First(ports, LAMBDA p : p.call = addr))

-----------------------------------------------------------------------------
Init == /\ kind \in Kinds /\ network \in Networks
        /\ file = <<>> /\ ports = <<>> /\ n = 0 /\ loads = 0 /\ changes = 0

\* The administrator adds a line; interfaces come and go.
Write(l) == Len(file) < MaxLines /\ file' = Append(file, l) /\ UNCHANGED <<kind, network, ports, n, loads, changes>>
Change(s) == /\ changes < MaxChanges /\ s # network /\ network' = s /\ changes' = changes + 1
             /\ UNCHANGED <<kind, file, ports, n, loads>>
Load == /\ loads < MaxLoads /\ loads' = loads + 1
        /\ ax25_config_load_ports \/ nr_config_load_ports \/ rs_config_load_ports
        /\ UNCHANGED <<kind, file, network, changes>>

Next == Load \/ (\E l \in Lines : Write(l)) \/ (\E s \in Networks : Change(s))

-----------------------------------------------------------------------------
Get(name) == CASE kind = "ax25" -> ax25_config_get_next(name) [] kind = "netrom" -> nr_config_get_next(name)
               [] kind = "rose" -> rs_config_get_next(name)
NameOf(dev) == CASE kind = "ax25" -> ax25_config_get_name(dev) [] kind = "netrom" -> nr_config_get_name(dev)
                 [] kind = "rose" -> rs_config_get_name(dev)
PortOf(call) == CASE kind = "ax25" -> ax25_config_get_port(call) [] kind = "netrom" -> nr_config_get_port(call)
                  [] kind = "rose" -> rs_config_get_port(call)
\* What get_next returns time after time, from NULL on.
Walk == [k \in 0..Len(ports) |->
           LET step[j \in 0..k] == IF j = 0 THEN Get(<<>>) ELSE IF step[j - 1] = <<>> THEN <<>> ELSE Get(step[j - 1])
           IN step[k]]
\* Callsigns of one port, as the files write them.
Zeroed == \E i \in DOMAIN file : file[i].call.tail = "-01"
NamedAsCall(i) == \E j \in 1..(i - 1) : is_same_call(ports[j].call, ports[i].name)

\* axconfig.c:191, nrconfig.c:175, rsconfig.c:142: no two ports have one name,
\* one alias or one interface, also when the files are read again after an
\* interface came up, unless an SSID is written "-01"; an interface then leads
\* to its port, and so does its callsign.
PortsApart ==
  /\ \A i, j \in DOMAIN ports : i # j =>
       /\ ports[i].name # ports[j].name
       /\ kind = "netrom" => ports[i].alias # ports[j].alias
       /\ kind = "rose" \/ ~Zeroed => ports[i].call # ports[j].call
  /\ kind = "rose" \/ ~Zeroed =>
       \A i \in DOMAIN ports : /\ NameOf(ports[i].dev) = <<ports[i].name>>
                               /\ PortOf(ports[i].call) = <<ports[i].name>>

\* axconfig.c:73, nrconfig.c:71, rsconfig.c:53: who asks for one port after the
\* other is given each once; with AX.25 not when a port is named as the callsign
\* of an earlier one, behind whose name the walk starts over.
WalkWhole ==
  (kind # "ax25" \/ \A i \in DOMAIN ports : ~NamedAsCall(i)) =>
    \A k \in 0..Len(ports) : Walk[k] = IF k = Len(ports) THEN <<>> ELSE <<ports[k + 1].name>>

\* axconfig.c:282, nrconfig.c:261, rsconfig.c:207: a port that is loaded is one
\* that a sound line declares, and sits on the interface that had exactly the
\* callsign of that line; one with "-01" sits on that of the bare callsign.
LoadedRight ==
  \A i \in DOMAIN ports :
    /\ \E j \in DOMAIN file :
         LET l == file[j] IN
         /\ ~l.comment /\ l.whole /\ l.name = ports[i].name /\ (kind = "rose" \/ Positive(l))
         /\ Address(ports[i].call) = IF kind = "rose" \/ l.call.tail # "-01" THEN Address(l.call) ELSE Bare(l.call)
    /\ \E s \in Networks : \E j \in DOMAIN s :
         s[j].up /\ s[j].type = kind /\ s[j].dev = ports[i].dev /\ s[j].call = ports[i].call
=============================================================================
