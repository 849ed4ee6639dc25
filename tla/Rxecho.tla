------------------------------- MODULE Rxecho -------------------------------
(***************************************************************************)
(* rxecho: frames heard on one interface are sent on others, when they are *)
(* for one of a list of stations.  The medium carries them on.             *)
(***************************************************************************)
EXTENDS Integers, Sequences, FiniteSets, FiniteSetsExt, SequencesExt

CONSTANTS
  Lines,        \* the configuration: [from, to, calls, sound]; calls "*" for all
  Ports,        \* the ports of axports
  MAXCALLS,
  Frames,       \* frames on the air: [data, sound, dest, digis]; digis: [call, repeated]
  MaxFrames     \* bound

VARIABLES
  list,         \* the entries, last line first
  heard,        \* frames received: [on, frame]
  sent,         \* history: frames echoed, in order
  echoed        \* history: frames received, in order
vars == <<list, heard, sent, echoed>>

\* readconfig: one line that is not sound ends the program, as <<>>.
readconfig(lines) ==
  IF \E i \in DOMAIN lines : ~lines[i].sound \/ {lines[i].from, lines[i].to} \ Ports # {} THEN <<>>
  ELSE Reverse([i \in DOMAIN lines |-> [lines[i] EXCEPT !.calls = SubSeq(@, 1, Min({MAXCALLS, Len(@)}))]])

\* The station a frame goes to next, as check_calls finds it.
lastrepeat(digis) == Max({0} \cup {i \in DOMAIN digis : digis[i].repeated})
\* Mutant: the last one that has repeated is taken.
NextHopLast(f) == IF f.digis = <<>> THEN f.dest ELSE f.digis[Max({1, lastrepeat(f.digis)})].call
NextHop(f) == IF lastrepeat(f.digis) = Len(f.digis) THEN f.dest ELSE f.digis[lastrepeat(f.digis) + 1].call

check_calls(e, f) == f.data /\ (e.calls = <<>> \/ (f.sound /\ Contains(e.calls, NextHop(f))))

Init == list = readconfig(Lines) /\ heard = <<>> /\ sent = <<>> /\ echoed = <<>>

\* The main loop: one frame, to every entry of its interface.
Echo ==
  /\ list # <<>> /\ heard # <<>> /\ heard' = Tail(heard) /\ echoed' = Append(echoed, Head(heard))
  /\ sent' = sent \o LET h == Head(heard)
                         fits == SelectSeq(list, LAMBDA e : e.from = h.on /\ check_calls(e, h.frame))
                     IN [i \in DOMAIN fits |-> [on |-> fits[i].to, frame |-> h.frame]]
  /\ UNCHANGED list

Hear(p, f) == /\ Len(heard) + Len(echoed) < MaxFrames /\ heard' = Append(heard, [on |-> p, frame |-> f])
              /\ UNCHANGED <<list, sent, echoed>>
Next == Echo \/ \E p \in Ports, f \in Frames : Hear(p, f)

-----------------------------------------------------------------------------
\* rxecho.c:341: a frame with a list of stations is echoed exactly when the
\* stations before the listed one have repeated it and that one has not: an
\* echo is never what its own repeater has sent already.
Handled(f, c) == \/ \E i \in DOMAIN f.digis :
                      /\ f.digis[i].call = c /\ \A k \in DOMAIN f.digis : f.digis[k].repeated <=> k < i
                 \/ f.dest = c /\ \A k \in DOMAIN f.digis : f.digis[k].repeated
EchoRight ==
  \A p \in Ports, f \in Frames :
    LET times(s, on) == Cardinality({i \in DOMAIN s : s[i] = [on |-> on, frame |-> f]})
        to == {i \in DOMAIN Lines : Lines[i].to = p /\ list # <<>> /\ f.data
                 /\ (Lines[i].calls = <<>> \/ (f.sound /\ \E c \in ToSet(SubSeq(Lines[i].calls, 1, Min({MAXCALLS, Len(Lines[i].calls)}))) : Handled(f, c)))}
    IN times(sent, p) = FoldFunction(+, 0, [i \in to |-> times(echoed, Lines[i].from)])
=============================================================================
