------------------------------ MODULE RoseLink ------------------------------
(***************************************************************************)
(* rsuplnk and rsdwnlnk: the AX.25 station that calls reaches ROSE through *)
(* one, and the station it calls through the other.  A digipeater is a     *)
(* call, a DNIC of four digits or an address of six.                       *)
(***************************************************************************)
EXTENDS Integers, Sequences, FiniteSets, FiniteSetsExt, SequencesExt

CONSTANTS
  CharSigned,        \* whether char is signed in the build
  Pids, Bodies,      \* of the frames the stations send
  Addresses,         \* ROSE addresses: [dnic, addr]
  Digis,             \* calls of digipeaters
  Timeout,           \* seconds, 300 and 60 in the code
  MaxFrames          \* bound per direction

TEXT == 240          \* PID F0
None == "-"
Call(c) == [kind |-> "call", is |-> c]
Dnic(d) == [kind |-> "dnic", is |-> d]
Addr(a) == [kind |-> "addr", is |-> a]

VARIABLES
  pc,                \* by link "up", "down": "connect", "loop", "done"
  waited,            \* seconds the connect of each has taken
  rose,              \* packets on the ROSE connection, by link they go to
  sent, got          \* history: frames of and for the stations, by their link
vars == <<pc, waited, rose, sent, got>>

-----------------------------------------------------------------------------
(* The paths *)

\* Mutant: the digipeater of this end is taken one place too early.
FromBehindEarly(path, i) == IF Len(path) - i >= 1 THEN path[i + 1].is ELSE None
\* The digipeater behind the node that follows position i.
FromBehind(path, i) == IF Len(path) - i >= 2 THEN path[i + 2].is ELSE None
LastOf(path, kind) == Max({0} \cup {i \in DOMAIN path : path[i].kind = kind})

\* rsuplnk: what a station that came over path wants to reach; own is the DNIC
\* of the port.  far and near are the digipeaters of the two ends.
Uplink(path, own) ==
  LET d == LastOf(path, "dnic")
      a == LastOf(path, "addr")
  IN IF a = 0 THEN <<>>
     ELSE <<[dnic |-> IF d = 0 THEN own ELSE path[d].is, addr |-> path[a].is,
             far |-> IF a > 1 THEN path[a - 1].is ELSE None,
             near |-> FromBehind(path, IF d # 0 THEN d ELSE a)]>>

\* rsdwnlnk: the path over which the called station sees the caller.
Repeated(c) == [digi |-> c, repeated |-> TRUE]
Downlink(peer, own, mycall) ==
  (IF peer.digi = None THEN <<>> ELSE <<Repeated(Call(peer.digi))>>)
  \o (IF peer.dnic = own.dnic THEN <<>> ELSE <<Repeated(Dnic(peer.dnic))>>)
  \o <<Repeated(Addr(peer.addr)), Repeated(Call(mycall))>>
  \o (IF own.digi = None THEN <<>> ELSE <<[digi |-> Call(own.digi), repeated |-> FALSE]>>)

-----------------------------------------------------------------------------
(* The connections *)

Other(l) == IF l = "up" THEN "down" ELSE "up"
Init == /\ pc = [l \in {"up", "down"} |-> "connect"] /\ waited = [l \in {"up", "down"} |-> 0]
        /\ rose = [l \in {"up", "down"} |-> <<>>]
        /\ sent = [l \in {"up", "down"} |-> <<>>] /\ got = [l \in {"up", "down"} |-> <<>>]

\* The downlink calls once the ROSE connection is there.
MayConnect(l) == pc[l] = "connect" /\ (l = "down" => pc["up"] # "done")
Second(l) == /\ MayConnect(l) /\ waited[l] <= Timeout /\ waited' = [waited EXCEPT ![l] = @ + 1]
             /\ UNCHANGED <<pc, rose, sent, got>>
\* The handler set with signal() returns, and connect starts again.
alarm_handler(l) == pc' = pc
Alarm(l) == /\ MayConnect(l) /\ waited[l] = Timeout /\ alarm_handler(l)
            /\ waited' = [waited EXCEPT ![l] = @ + 1] /\ UNCHANGED <<rose, sent, got>>
Connected(l) == /\ MayConnect(l) /\ (l = "up" => pc["down"] = "loop") /\ pc' = [pc EXCEPT ![l] = "loop"]
                /\ UNCHANGED <<waited, rose, sent, got>>
Refused(l) == /\ MayConnect(l) /\ pc' = [pc EXCEPT ![l] = "done"]
              /\ UNCHANGED <<waited, rose, sent, got>>

\* A signed char is never equal to F0.
IsText(pid) == pid = TEXT /\ ~CharSigned
\* Mutant: the text PID stands behind the escape, whatever the frame has.
PacketText(f) == IF IsText(f.pid) THEN <<0, f.body>> ELSE <<1, 127, TEXT, f.body>>
\* An AX.25 frame as a ROSE packet: text, or Q bit, escape and PID.
Packet(f) == IF IsText(f.pid) THEN <<0, f.body>> ELSE <<1, 127, f.pid, f.body>>
\* A ROSE packet as an AX.25 frame.
Frame(p) == IF p[1] = 0 THEN [pid |-> TEXT, body |-> p[2]] ELSE [pid |-> p[3], body |-> p[4]]

\* The station of link l sends; the loop of l puts it on the ROSE connection.
FromStation(l, pid, body) ==
  /\ pc[l] = "loop" /\ Len(sent[l]) < MaxFrames
  /\ sent' = [sent EXCEPT ![l] = Append(@, [pid |-> pid, body |-> body])]
  /\ rose' = [rose EXCEPT ![Other(l)] = Append(@, Packet([pid |-> pid, body |-> body]))]
  /\ UNCHANGED <<pc, waited, got>>
ToStation(l) ==
  /\ pc[l] = "loop" /\ rose[l] # <<>> /\ rose' = [rose EXCEPT ![l] = Tail(@)]
  /\ got' = [got EXCEPT ![l] = Append(@, Frame(Head(rose[l])))]
  /\ UNCHANGED <<pc, waited, sent>>
\* A read fails: the station or the ROSE connection has gone.
Ends(l) == /\ pc[l] = "loop" /\ pc' = [pc EXCEPT ![l] = "done"]
           /\ UNCHANGED <<waited, rose, sent, got>>

Next == \E l \in {"up", "down"} :
          \/ Second(l) \/ Alarm(l) \/ Connected(l) \/ Refused(l)
          \/ \E pid \in Pids, body \in Bodies : FromStation(l, pid, body)
          \/ ToStation(l) \/ Ends(l)

-----------------------------------------------------------------------------
\* rsdwnlnk.c:242: a frame keeps its PID and its data from one station to the
\* other and back, whether or not char is signed.
PidKept == \A l \in {"up", "down"} : IsPrefix(got[l], sent[Other(l)])

\* rsuplnk.c:148: a station that calls back over the path it was called by
\* reaches the caller, over the digipeaters of both ends, when both are in one
\* network.  (rsdwnlnk writes a DNIC before the address, rsuplnk looks for it
\* behind: with two networks the digipeaters are not found.)
AnswerReturns ==
  \A a \in Addresses, far, near \in Digis \cup {None} :
    LET seen == Downlink([dnic |-> a.dnic, addr |-> a.addr, digi |-> far], [dnic |-> a.dnic, digi |-> near], "NODE")
        path == [i \in DOMAIN seen |-> seen[i].digi]
    IN Uplink(path, a.dnic) = <<[dnic |-> a.dnic, addr |-> a.addr, far |-> far, near |-> near]>>
=============================================================================
