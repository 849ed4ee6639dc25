------------------------------- MODULE Mheardd -------------------------------
(***************************************************************************)
(* mheardd: the list of the stations heard, in memory and in its file, and *)
(* mheard, which prints the file.  A record stands for its file position:  *)
(* fseek goes to whole records.                                            *)
(***************************************************************************)
EXTENDS Integers, Sequences, FiniteSets, FiniteSetsExt, SequencesExt

CONSTANTS
  mheard_list_size,
  HeardFrames,   \* [port, from, valid, control, pid], numbers; control is -1 if there is none
  CharSigned,    \* whether char is signed on the machine
  MaxHeard,      \* bound: frames
  MaxClock,      \* bound: seconds
  MaxRestarts,   \* bound: restarts
  MaxFailed      \* bound: failures to open the file

VARIABLES
  mheard_list, \* sequence of slots [entry, position]; a slot beyond it is not in use
  hfile,       \* the records of the file
  clock, heard, restarts, failed,
  lastHeard    \* history: when each station sent its last complete frame, zero for never
vars == <<mheard_list, hfile, clock, heard, restarts, failed, lastHeard>>

Stations == {<<f.port, f.from>> : f \in {g \in HeardFrames : g.valid}}

NoPosition == 0  \* 0xFFFFFF: the record goes to the end of the file
Empty == [call |-> 0, port |-> 0, count |-> 0, i |-> 0, s |-> 0, u |-> 0, type |-> "SABM",
          mode |-> {}, first |-> 0, last |-> 0]

Init == /\ mheard_list = <<>> /\ hfile = <<>>
        /\ clock = 1 /\ heard = 0 /\ restarts = 0 /\ failed = 0
        /\ lastHeard = [s \in Stations |-> 0]

-----------------------------------------------------------------------------
TypeNames == << <<47, "SABM">>, <<111, "SABME">>, <<67, "DISC">>, <<99, "UA">>, <<15, "DM">>,
                <<1, "RR">>, <<5, "RNR">>, <<9, "REJ">>, <<135, "FRMR">>, <<3, "UI">> >>
Named(b) == IF \E t \in Range(TypeNames) : t[1] = b
            THEN (CHOOSE t \in Range(TypeNames) : t[1] = b)[2] ELSE "????"

\* ftype, on frames of eight bits.  ~PF takes away bit four; a negative char
\* equals none of the types.
ftype(b) ==
  IF b % 2 = 0 THEN "I"
  ELSE IF (b \div 2) % 2 = 0 THEN Named(b % 16)
  ELSE IF CharSigned /\ b >= 128 THEN "????"
  ELSE Named(b - 16 * ((b \div 16) % 2))

\* What a frame makes of its entry.
Noted(e, f) ==
  LET type == ftype(f.control)
      named == [e EXCEPT !.call = f.from, !.port = f.port]
  IN IF f.control = -1 THEN named
     ELSE [named EXCEPT
             !.count = @ + 1, !.type = type,
             !.i = IF type = "I" THEN @ + 1 ELSE @,
             !.s = IF type \in {"RR", "RNR", "REJ"} THEN @ + 1 ELSE @,
             !.u = IF type \in {"SABM", "SABME", "DISC", "UA", "DM", "FRMR", "UI"} THEN @ + 1 ELSE @,
             !.mode = IF type \in {"I", "UI"} THEN @ \cup {<<type, f.pid>>} ELSE @,
             !.first = IF @ = 0 THEN clock ELSE @, !.last = clock]

\* Mutant: the slot that is used again is the one heard last.
OldestLatest(list) == Max({i \in DOMAIN list : \A k \in DOMAIN list : list[k].entry.last <= list[i].entry.last})
Oldest(list) == Min({i \in DOMAIN list : \A k \in DOMAIN list : list[k].entry.last >= list[i].entry.last})

\* Mutant: a slot that is used again gets a new record in the file.
ReusedAnew(slot) == [entry |-> Empty, position |-> NoPosition]
Reused(slot) == [slot EXCEPT !.entry = Empty]

\* findentry: the list with a slot for the station, and which one.
findentry(call, port) ==
  LET known == {i \in DOMAIN mheard_list : mheard_list[i].entry.call = call /\ mheard_list[i].entry.port = port}
      oldest == Oldest(mheard_list)
  IN IF known # {} THEN [list |-> mheard_list, at |-> Min(known)]
     ELSE IF Len(mheard_list) < mheard_list_size
     THEN [list |-> Append(mheard_list, [entry |-> Empty, position |-> NoPosition]),
           at |-> Len(mheard_list) + 1]
     ELSE [list |-> [mheard_list EXCEPT ![oldest] = Reused(@)], at |-> oldest]

\* fopen, fseek and fwrite.
Written(list, at) ==
  LET position == IF list[at].position = NoPosition THEN Len(hfile) + 1 ELSE list[at].position
  IN /\ mheard_list' = [list EXCEPT ![at].position = position]
     /\ hfile' = [k \in 1..Max({Len(hfile), position}) |-> IF k = position THEN list[at].entry ELSE hfile[k]]

\* A turn of the main loop.  The slot is taken before the callsign is looked
\* at, and a frame without control leaves its name there.
Hear(f) ==
  /\ heard < MaxHeard /\ heard' = heard + 1 /\ UNCHANGED <<clock, restarts>>
  /\ \E found \in {findentry(f.from, f.port)} :
       LET list == IF f.valid THEN [found.list EXCEPT ![found.at].entry = Noted(@, f)] ELSE found.list
       IN IF f.valid /\ f.control # -1
          THEN /\ lastHeard' = [lastHeard EXCEPT ![<<f.port, f.from>>] = clock]
               /\ \/ Written(list, found.at) /\ UNCHANGED failed
                  \/ /\ failed < MaxFailed /\ failed' = failed + 1    \* fopen fails
                     /\ mheard_list' = list /\ UNCHANGED hfile
          ELSE mheard_list' = list /\ UNCHANGED <<hfile, failed, lastHeard>>

Tick == /\ clock < MaxClock /\ clock' = clock + 1
        /\ UNCHANGED <<mheard_list, hfile, heard, restarts, failed, lastHeard>>

\* SIGTERM, and the start: the list is loaded from the file.
Restart ==
  /\ restarts < MaxRestarts /\ restarts' = restarts + 1
  /\ mheard_list' = [i \in 1..Min({Len(hfile), mheard_list_size}) |-> [entry |-> hfile[i], position |-> i]]
  /\ UNCHANGED <<hfile, clock, heard, failed, lastHeard>>

Next == (\E f \in HeardFrames : Hear(f)) \/ Tick \/ Restart

-----------------------------------------------------------------------------
(* mheard.c *)

\* LoadPortData: the last record first.
LoadPortData == Reverse(hfile)

\* Mutant: only the head of the list is compared.
PlaceEarly(list, before) == IF list = <<>> \/ before[1] THEN 1 ELSE 2

\* Where the record goes: before the first one that has to stand behind it.
Place(list, before) == Min({i \in DOMAIN list : before[i]} \cup {Len(list) + 1})

\* The four sorts take the records from the list one after the other.
Sorted(records, Before(_, _)) ==
  LET after[i \in 0..Len(records)] ==
        IF i = 0 THEN <<>>
        ELSE InsertAt(after[i - 1],
                      Place(after[i - 1], [k \in DOMAIN after[i - 1] |-> Before(records[i], after[i - 1][k])]),
                      records[i])
  IN after[Len(records)]

SortByTime(records) == Sorted(records, LAMBDA p, w : p.last > w.last)
SortByFrame(records) == Sorted(records, LAMBDA p, w : p.count > w.count)
SortByPort(records) == Sorted(records, LAMBDA p, w : p.port < w.port)
SortByCall(records) == Sorted(records, LAMBDA p, w : p.call < w.call)

-----------------------------------------------------------------------------
TypeOK ==
  /\ Len(mheard_list) <= mheard_list_size /\ Len(hfile) <= mheard_list_size
  /\ \A i \in DOMAIN mheard_list : mheard_list[i].position \in 0..Len(hfile)

\* mheardd.c:479-486: the file has each station once, with the time it was
\* heard, and those that are missing were heard before all that are there:
\* with slots used again, names without a record, and restarts.
HeardList ==
  /\ TypeOK
  /\ \A i, k \in DOMAIN mheard_list :
       mheard_list[i].position = mheard_list[k].position => i = k \/ mheard_list[i].position = NoPosition
  /\ failed = 0 =>
       /\ \A i, k \in DOMAIN hfile :
            hfile[i].call = hfile[k].call /\ hfile[i].port = hfile[k].port => i = k
       /\ \A i \in DOMAIN hfile : hfile[i].last = lastHeard[<<hfile[i].port, hfile[i].call>>]
       /\ \A s \in Stations : (\A i \in DOMAIN hfile : s # <<hfile[i].port, hfile[i].call>>) =>
            lastHeard[s] <= Min({clock + 1} \cup {hfile[i].last : i \in DOMAIN hfile})
            /\ (lastHeard[s] = 0 \/ Len(hfile) = mheard_list_size)

\* mheard.c:272-379: each order shows all records, in that order.
InOrder(list, Before(_, _)) == \A i, k \in DOMAIN list : i < k => ~Before(list[k], list[i])
Whole(list) == Len(list) = Len(hfile) /\ Range(list) = Range(hfile)
Listed ==
  /\ \E l \in {SortByTime(LoadPortData)} : Whole(l) /\ InOrder(l, LAMBDA p, w : p.last > w.last)
  /\ \E l \in {SortByFrame(LoadPortData)} : Whole(l) /\ InOrder(l, LAMBDA p, w : p.count > w.count)
  /\ \E l \in {SortByPort(LoadPortData)} : Whole(l) /\ InOrder(l, LAMBDA p, w : p.port < w.port)
  /\ \E l \in {SortByCall(LoadPortData)} : Whole(l) /\ InOrder(l, LAMBDA p, w : p.call < w.call)
=============================================================================
