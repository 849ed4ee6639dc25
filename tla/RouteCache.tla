----------------------------- MODULE RouteCache ------------------------------
(***************************************************************************)
(* What a route cache of ax25rtd promises (ax25apps/ax25rtd/cache_ctl.c):  *)
(* at most one entry per key, the one updated last in front, and at the    *)
(* maximum the entry at the end makes room for a new one.                  *)
(***************************************************************************)
EXTENDS Naturals, Sequences

CONSTANTS
  Keys,     \* IP addresses, or callsigns
  Sizes     \* values of ip-maxroutes, ax25-maxroutes

VARIABLES
  order,    \* keys of the entries, first to last
  maxroutes

Keyset(s) == {s[i] : i \in DOMAIN s}

\* t holds the keys of s but for those in drop, in the order of s.
Thinned(t, s, drop) ==
  /\ Keyset(t) = Keyset(s) \ drop
  /\ \A i, j \in DOMAIN t : i < j =>
       \E a, b \in DOMAIN s : a < b /\ s[a] = t[i] /\ s[b] = t[j]

\* The entries left when one more is to be entered.
Room(s) == IF Len(s) >= maxroutes THEN SubSeq(s, 1, Len(s) - 1) ELSE s

Init == order = <<>> /\ maxroutes \in Sizes

\* An update of a known key moves it to the front.  A new key is entered
\* there, unless memory is short; a cache of size 0 that is empty stays so.
Known(k) ==
  /\ k \in Keyset(order)
  /\ order' # <<>> /\ Head(order') = k /\ Thinned(Tail(order'), order, {k})

New(k) ==
  /\ k \notin Keyset(order)
  /\ order' \in IF order = <<>> /\ maxroutes = 0 THEN {order}
                ELSE {<<k>> \o Room(order), Room(order)}

Touch(k) == (Known(k) \/ New(k)) /\ UNCHANGED maxroutes

\* Entries are deleted or expire; the others keep their places.
Drop(keys) == Thinned(order', order, keys) /\ UNCHANGED maxroutes

Resize == maxroutes' \in Sizes /\ UNCHANGED order

Next ==
  \/ Resize
  \/ \E k \in Keys : Touch(k)
  \/ \E keys \in SUBSET Keys : Drop(keys)

Spec == Init /\ [][Next]_<<order, maxroutes>>
=============================================================================
