----------------------------- MODULE Ax25rtdList -----------------------------
(***************************************************************************)
(* The doubly linked list that holds a route cache of ax25rtd              *)
(* (ax25apps/ax25rtd/cache_ctl.c), pointer by pointer: update_ip_route and *)
(* update_ax25_route are the same but for the fields of an entry, and so   *)
(* are the two remove functions.  A step is one statement that writes the  *)
(* list, in source order, because SIGTERM and SIGUSR1 may come between two *)
(* of them and their handlers walk the list.                               *)
(*                                                                         *)
(* free() leaves the next pointer of a freed entry alone, clears it or     *)
(* fills it with the allocator's own data; malloc() clears nothing.        *)
(***************************************************************************)
EXTENDS Naturals, FiniteSets, SequencesExt

CONSTANTS
  Keys,     \* IP addresses, or callsigns
  Nodes,    \* bound: memory for this many entries
  Sizes,    \* values of ip-maxroutes, ax25-maxroutes
  NULL, Wild

ASSUME ListConstants ==
  /\ IsFiniteSet(Nodes) /\ Sizes \subseteq Nat
  /\ NULL \notin Nodes /\ Wild \notin Nodes /\ NULL # Wild

VARIABLES
  heap,       \* [Nodes -> [next, prev, key]]
  live,       \* nodes allocated
  head,       \* ip_routes
  cnt,        \* ip_routes_cnt
  maxroutes,  \* ip_maxroutes
  op          \* the function under way: [pc, kind, keys, bp], and as history
              \* "was", the keys in the list when it was called

vars == <<heap, live, head, cnt, maxroutes, op>>

Idle == [pc |-> "idle", kind |-> "none", keys |-> {}, bp |-> NULL, was |-> <<>>]

\* The nodes met from n on, with the pointer that ends the walk.
Chain(n) ==
  LET chain[i \in 0..Cardinality(Nodes)] ==
        IF i = 0 THEN <<n>>
        ELSE LET s == chain[i - 1]
             IN  IF Last(s) \in Nodes THEN Append(s, heap[Last(s)].next) ELSE s
  IN  chain[Cardinality(Nodes)]

Walk(n) == Front(Chain(n))
KeysOf(s) == [i \in DOMAIN s |-> heap[s[i]].key]

\* The first node from n on with one of the keys, or what ends the walk.
Find(n, keys) ==
  LET c == Chain(n)
      hits == {i \in 1..Len(c) - 1 : heap[c[i]].key \in keys}
  IN  IF hits = {} THEN Last(c) ELSE c[CHOOSE i \in hits : \A j \in hits : i <= j]

Set(n, field, value) == heap' = [heap EXCEPT ![n][field] = value]
SetIf(n, field, value) ==
  IF n \in Nodes THEN Set(n, field, value) ELSE UNCHANGED heap

Goto(pc) == op' = [op EXCEPT !.pc = pc]
GotoWith(pc, bp) == op' = [op EXCEPT !.pc = pc, !.bp = bp]
Return == op' = Idle

Init ==
  /\ heap = [n \in Nodes |-> [next |-> NULL, prev |-> NULL, key |-> NULL]]
  /\ live = {} /\ head = NULL /\ cnt = 0
  /\ maxroutes \in Sizes
  /\ op = Idle

-----------------------------------------------------------------------------
(* update_ip_route, update_ax25_route *)

\* Mutant: one entry too many before one is evicted.
UpdateOneMore(k) ==
  LET found == Find(head, {k})
      start(pc, bp) == op' = [pc |-> pc, kind |-> "update", keys |-> {k}, bp |-> bp,
                              was |-> KeysOf(Walk(head))]
  IN  /\ op.pc = "idle"
      /\ CASE found \in Nodes /\ found = head -> UNCHANGED op
           [] found \in Nodes /\ found # head -> start("unlink_next", found)
           [] found \notin Nodes /\ cnt <= maxroutes -> start("malloc", NULL)
           [] OTHER -> IF head = NULL THEN UNCHANGED op
                       ELSE start("cut_tail", Last(Walk(head)))
      /\ UNCHANGED <<heap, live, head, cnt, maxroutes>>

\* Look for the key: refresh it where it is, or go on.  (A permanent entry
\* that a frame would refresh is left alone: a stuttering step.)
Update(k) ==
  LET found == Find(head, {k})
      start(pc, bp) == op' = [pc |-> pc, kind |-> "update", keys |-> {k}, bp |-> bp,
                              was |-> KeysOf(Walk(head))]
  IN  /\ op.pc = "idle"
      /\ CASE found \in Nodes /\ found = head -> UNCHANGED op
           [] found \in Nodes /\ found # head -> start("unlink_next", found)
           [] found \notin Nodes /\ cnt < maxroutes -> start("malloc", NULL)
           [] OTHER -> IF head = NULL THEN UNCHANGED op
                       ELSE start("cut_tail", Last(Walk(head)))
      /\ UNCHANGED <<heap, live, head, cnt, maxroutes>>

UnlinkNext ==
  /\ op.pc = "unlink_next"
  /\ SetIf(heap[op.bp].next, "prev", heap[op.bp].prev)
  /\ Goto("unlink_prev")
  /\ UNCHANGED <<live, head, cnt, maxroutes>>

UnlinkPrev ==
  /\ op.pc = "unlink_prev"
  /\ SetIf(heap[op.bp].prev, "next", heap[op.bp].next)
  /\ Goto("link_next")
  /\ UNCHANGED <<live, head, cnt, maxroutes>>

\* bp->next = ip_routes; bp->prev = NULL; ip_routes->prev = bp; ip_routes = bp
LinkNext ==
  /\ op.pc = "link_next" /\ Set(op.bp, "next", head) /\ Goto("link_prev")
  /\ UNCHANGED <<live, head, cnt, maxroutes>>

LinkPrev ==
  /\ op.pc = "link_prev" /\ Set(op.bp, "prev", NULL) /\ Goto("link_back")
  /\ UNCHANGED <<live, head, cnt, maxroutes>>

\* Mutant: the old first entry is not linked back.
LinkBackNot ==
  /\ op.pc = "link_back" /\ Goto("link_head")
  /\ UNCHANGED <<heap, live, head, cnt, maxroutes>>

LinkBack ==
  /\ op.pc = "link_back" /\ Set(head, "prev", op.bp) /\ Goto("link_head")
  /\ UNCHANGED <<live, head, cnt, maxroutes>>

LinkHead ==
  /\ op.pc = "link_head" /\ head' = op.bp /\ Return
  /\ UNCHANGED <<heap, live, cnt, maxroutes>>

\* The list is full: the last entry, which may be the only one, goes.
CutTail ==
  /\ op.pc = "cut_tail"
  /\ IF heap[op.bp].prev # NULL
       THEN Set(heap[op.bp].prev, "next", NULL) /\ UNCHANGED head
       ELSE head' = NULL /\ UNCHANGED heap
  /\ Goto("free_tail")
  /\ UNCHANGED <<live, cnt, maxroutes>>

Free(n) ==
  /\ live' = live \ {n}
  /\ \E p \in {heap[n].next, NULL, Wild} : Set(n, "next", p)

FreeTail ==
  /\ op.pc = "free_tail" /\ Free(op.bp) /\ Goto("count_tail")
  /\ UNCHANGED <<head, cnt, maxroutes>>

\* Mutant: the evicted entry is still counted.
CountTailNot ==
  /\ op.pc = "count_tail" /\ Goto("malloc")
  /\ UNCHANGED <<heap, live, head, cnt, maxroutes>>

CountTail ==
  /\ op.pc = "count_tail" /\ cnt' = cnt - 1 /\ Goto("malloc")
  /\ UNCHANGED <<heap, live, head, maxroutes>>

\* malloc, the counter and the fields of the entry, none of them in the list.
Malloc ==
  /\ op.pc = "malloc"
  /\ \/ Return /\ UNCHANGED <<heap, live, cnt>>
     \/ \E n \in Nodes \ live :
          /\ live' = live \cup {n} /\ cnt' = cnt + 1
          /\ heap' = [heap EXCEPT ![n].key = CHOOSE k \in op.keys : TRUE]
          /\ GotoWith(IF head = NULL THEN "first_head" ELSE "link_next", n)
  /\ UNCHANGED <<head, maxroutes>>

\* The first entry: ip_routes = bp; bp->next = bp->prev = NULL.
FirstHead ==
  /\ op.pc = "first_head" /\ head' = op.bp /\ Goto("first_prev")
  /\ UNCHANGED <<heap, live, cnt, maxroutes>>

FirstPrev ==
  /\ op.pc = "first_prev" /\ Set(op.bp, "prev", NULL) /\ Goto("first_next")
  /\ UNCHANGED <<live, head, cnt, maxroutes>>

FirstNext ==
  /\ op.pc = "first_next" /\ Set(op.bp, "next", NULL) /\ Return
  /\ UNCHANGED <<live, head, cnt, maxroutes>>

-----------------------------------------------------------------------------
(* remove_ip_route and its callers *)

\* Go to the next entry to remove, from n on.
Seek(kind, keys, n, was) ==
  LET found == Find(n, keys)
  IN  op' = CASE found \in Nodes ->
                   [pc |-> "remove_next", kind |-> kind, keys |-> keys, bp |-> found, was |-> was]
              [] found = NULL -> Idle
              [] OTHER -> [Idle EXCEPT !.pc = "crashed", !.was = was]

\* "del" finds one entry (del_ip_route); "expire" goes on with the entry
\* remove_ip_route returns; "call", the loop of remove_ax25_route over the
\* IP routes of the callsign, goes on with the next pointer of the entry.
StartRemove(kind, keys) ==
  /\ op.pc = "idle"
  /\ kind = "del" => Cardinality(keys) = 1
  /\ Seek(kind, keys, head, KeysOf(Walk(head)))
  /\ UNCHANGED <<heap, live, head, cnt, maxroutes>>

RemoveNext ==
  /\ op.pc = "remove_next"
  /\ SetIf(heap[op.bp].next, "prev", heap[op.bp].prev)
  /\ Goto("remove_prev")
  /\ UNCHANGED <<live, head, cnt, maxroutes>>

RemovePrev ==
  /\ op.pc = "remove_prev"
  /\ SetIf(heap[op.bp].prev, "next", heap[op.bp].next)
  /\ Goto("remove_head")
  /\ UNCHANGED <<live, head, cnt, maxroutes>>

\* Mutant: freed before the head of the list is moved on.
RemoveHeadLate ==
  /\ op.pc = "remove_head" /\ Goto("remove_free")
  /\ UNCHANGED <<heap, live, head, cnt, maxroutes>>

RemoveHead ==
  /\ op.pc = "remove_head"
  /\ head' = IF op.bp = head THEN heap[op.bp].next ELSE head
  /\ Goto("remove_free")
  /\ UNCHANGED <<heap, live, cnt, maxroutes>>

\* free, the counter, and on to the next entry.
RemoveFree ==
  LET bp2 == heap[op.bp].next
  IN  /\ op.pc = "remove_free"
      /\ Free(op.bp) /\ cnt' = cnt - 1
      /\ CASE op.kind = "del" -> Return
           [] op.kind = "expire" -> Seek("expire", op.keys, bp2, op.was)
           [] op.kind = "call" -> GotoWith("read_next", op.bp)
      /\ UNCHANGED <<head, maxroutes>>

\* iprt = iprt->next, of the entry just freed.
ReadNext ==
  /\ op.pc = "read_next" /\ Seek("call", op.keys, heap[op.bp].next, op.was)
  /\ UNCHANGED <<heap, live, head, cnt, maxroutes>>

\* reload_config with another ip-maxroutes.
Reload ==
  /\ op.pc = "idle" /\ maxroutes' \in Sizes
  /\ UNCHANGED <<heap, live, head, cnt, op>>

Crashed == op.pc = "crashed" /\ UNCHANGED vars

Next ==
  \/ \E k \in Keys : Update(k)
  \/ UnlinkNext \/ UnlinkPrev \/ LinkNext \/ LinkPrev \/ LinkBack \/ LinkHead
  \/ CutTail \/ FreeTail \/ CountTail \/ Malloc \/ FirstHead \/ FirstPrev \/ FirstNext
  \/ \E kind \in {"del", "expire", "call"}, keys \in SUBSET Keys : StartRemove(kind, keys)
  \/ RemoveNext \/ RemovePrev \/ RemoveHead \/ RemoveFree \/ ReadNext
  \/ Reload \/ Crashed

Spec == Init /\ [][Next]_vars

-----------------------------------------------------------------------------
(* Properties *)

Pcs == {"idle", "unlink_next", "unlink_prev", "link_next", "link_prev", "link_back", "link_head",
        "cut_tail", "free_tail", "count_tail", "malloc", "first_head", "first_prev", "first_next",
        "remove_next", "remove_prev", "remove_head", "remove_free", "read_next", "crashed"}

\* Shape of the state; the counter is the number of entries, give or take
\* the one in hand.
TypeOK ==
  /\ heap \in [Nodes -> [next : Nodes \cup {NULL, Wild}, prev : Nodes \cup {NULL}, key : Keys \cup {NULL}]]
  /\ live \subseteq Nodes /\ head \in Nodes \cup {NULL}
  /\ cnt \in {Cardinality(live), Cardinality(live) + 1}
  /\ maxroutes \in Sizes
  /\ op.pc \in Pcs /\ op.kind \in {"none", "update", "del", "expire", "call"}
  /\ op.keys \subseteq Keys /\ op.bp \in Nodes \cup {NULL}

\* Between two calls the list is whole: back pointers mirror the forward
\* ones, every entry allocated is in it, and the counter counts them.
ListWhole ==
  op.pc \in {"idle", "crashed"} =>
    LET w == Walk(head)
    IN  /\ Last(Chain(head)) = NULL
        /\ \A i \in DOMAIN w : heap[w[i]].prev = IF i = 1 THEN NULL ELSE w[i - 1]
        /\ live = ToSet(w) /\ cnt = Len(w)

\* A list that a signal handler finds can be walked: it ends, and holds no
\* freed entry and no key twice.
Walkable ==
  /\ Last(Chain(head)) = NULL
  /\ ToSet(Walk(head)) \subseteq live
  /\ IsInjective(KeysOf(Walk(head)))

\* Whenever a signal comes, the handler can walk the list, and what it finds
\* lacks at most the entries that the function under way is to move, evict
\* or remove.  The first entry of an empty list is the exception.
SavedComplete ==
  op.pc \notin {"first_prev", "first_next"} =>
    /\ Walkable
    /\ LET evicted == IF op.kind = "update" /\ op.was # <<>> /\ op.keys \cap ToSet(op.was) = {}
                     THEN {Last(op.was)} ELSE {}
       IN  op.pc \notin {"idle", "crashed"} =>
             ToSet(op.was) \ (op.keys \cup evicted) \subseteq ToSet(KeysOf(Walk(head)))

\* cache_ctl.c: the list is whole before and after each operation, and a
\* handler that interrupts one saves every entry, no key twice.
CacheWhole == TypeOK /\ ListWhole /\ SavedComplete

\* The list implements the route cache.
Cache == INSTANCE RouteCache WITH order <- IF op.pc = "idle" THEN KeysOf(Walk(head)) ELSE op.was
CacheSpec == Cache!Spec

\* ax25rtctl(8): "--expire removes the entries older than <minutes> from the
\* caches": the daemon does not follow the pointer of a freed entry.
ExpireSurvives == op.pc # "crashed"
=============================================================================
