---------------------------- MODULE TtyLockProofs ----------------------------
(***************************************************************************)
(* Proofs about the lock files of ttys: for any programs, any ttys they    *)
(* use, and any number of starts, crashes and ends.                        *)
(***************************************************************************)
EXTENDS TtyLock, TLAPS, FiniteSetTheorems, SequenceTheorems

-----------------------------------------------------------------------------
(* The inductive invariant *)

Steps == {"off", "check", "open", "lock", "fork", "run", "end"}

\* A program that is not off is at one of the ttys it uses.
Types ==
  /\ lock \in [Ttys -> {NoPid} \cup Nat] /\ writable \in BOOLEAN /\ overlapped \in BOOLEAN
  /\ nextpid \in Nat \ {0} /\ alive \subseteq 1..(nextpid - 1)
  /\ proc \in [Programs -> [pc : Steps, pid : Nat, at : Nat]]
  /\ \A p \in Programs : proc[p].pc # "off" => proc[p].at < Len(Uses[p])

\* The pids of the processes are alive, and each has its own.
Pids ==
  /\ \A p \in Programs : proc[p].pc # "off" => proc[p].pid \in alive
  /\ \A p, q \in Programs : p # q /\ proc[p].pc # "off" /\ proc[q].pc # "off" => proc[p].pid # proc[q].pid

IsBusy(p) == proc[p].pc \notin {"off", "run"}
OneBusy == ~overlapped => \A p, q \in Programs : IsBusy(p) /\ IsBusy(q) => p = q

\* The first n ttys of p are locked by its process, and are none of q's.
Mine(p, n) == \A i \in 1..n : lock[Uses[p][i]] = proc[p].pid
Clear(p, n, q) == \A i \in 1..n, j \in 1..Len(Uses[q]) : Uses[p][i] # Uses[q][j]

\* The ttys that p has locked, and those it has found free.
Locked(p) ==
  CASE proc[p].pc = "run" -> Len(Uses[p])
    [] proc[p].pc = "fork" /\ Kind[p] # "kissattach" -> Len(Uses[p])
    [] proc[p].pc = "lock" -> proc[p].at
    [] OTHER -> 0
Free(p) ==
  CASE proc[p].pc = "off" -> 0
    [] proc[p].pc = "check" -> proc[p].at
    [] OTHER -> Len(Uses[p])

LeftToInit == \A p \in Programs : Kind[p] = "kissattach" \/ p \in ByInit

\* Whatever runs has locked its ttys, and who has found a tty free shares it
\* with nobody that runs.
Apart ==
  ~overlapped /\ LeftToInit /\ writable =>
    /\ \A p \in Programs : Mine(p, Locked(p))
    /\ \A p, q \in Programs : p # q /\ proc[q].pc = "run" => Clear(p, Free(p), q)

\* kissattach does not run without its lock.
NoLockNoRun == \A p \in Programs : ~writable /\ Kind[p] = "kissattach" => proc[p].pc # "run"

Inv == LockConstants /\ Types /\ Pids /\ OneBusy /\ Apart /\ NoLockNoRun

-----------------------------------------------------------------------------
\* A set of at most one member.
LEMMA AtMostOne ==
  ASSUME NEW S, IsFiniteSet(S), ~(Cardinality(S) > 1), NEW x \in S, NEW y \in S
  PROVE  x = y
<1> SUFFICES ASSUME x # y PROVE FALSE
  OBVIOUS
<1>1. IsFiniteSet({x}) /\ Cardinality({x}) = 1
  BY FS_Singleton
<1>2. Cardinality({x} \cup {y}) = 2
  BY <1>1, FS_AddElement
<1>3. Cardinality({x} \cup {y}) <= Cardinality(S)
  BY FS_Subset, {x} \cup {y} \subseteq S
<1>4. Cardinality(S) \in Nat
  BY FS_CardinalityType
<1> QED BY <1>2, <1>3, <1>4

\* Every step of a program keeps it the only busy one, or is seen to overlap.
LEMMA BusyKept ==
  ASSUME LockConstants, Types, NEW p \in Programs, NEW s, Becomes(p, s)
  PROVE  OneBusy' /\ (~overlapped' => ~overlapped)
<1>1. ~overlapped' => ~overlapped /\ ~(Cardinality(Busy(proc')) > 1)
  BY DEF Becomes, Types
<1>2. Busy(proc') = {q \in Programs : IsBusy(q)'}
  BY DEF Busy, IsBusy
<1>3. IsFiniteSet(Busy(proc'))
  BY FS_Subset DEF LockConstants, Busy
<1>4. ASSUME ~overlapped', NEW q \in Programs, NEW r \in Programs, IsBusy(q)', IsBusy(r)'
      PROVE  q = r
  BY <1>1, <1>2, <1>3, <1>4, AtMostOne
<1> QED BY <1>1, <1>4 DEF OneBusy

\* The state of p after its step, and that of the others.
LEMMA Moved ==
  ASSUME Types, NEW p \in Programs, NEW s \in [pc : Steps, pid : Nat, at : Nat], Becomes(p, s)
  PROVE  /\ proc' \in [Programs -> [pc : Steps, pid : Nat, at : Nat]] /\ proc'[p] = s
         /\ \A q \in Programs : q # p => proc'[q] = proc[q]
         /\ overlapped' \in BOOLEAN
BY DEF Types, Becomes

\* Sharing a tty is mutual.
LEMMA ClearBoth ==
  ASSUME NEW p, NEW q, Len(Uses[p]) \in Nat, Len(Uses[q]) \in Nat, Clear(p, Len(Uses[p]), q)
  PROVE  Clear(q, Len(Uses[q]), p)
BY DEF Clear

\* What a step of p owes for everything to stay apart: it locks or unlocks no
\* tty that another has locked, holds what it says, has found its ttys free of
\* those that run, and runs only beside programs that are off or clear of it.
Owed(p, s) ==
  /\ \A q \in Programs : \A i \in 1..Locked(q) : q # p => lock'[Uses[q][i]] = lock[Uses[q][i]]
  /\ Mine(p, Locked(p))'
  /\ \A q \in Programs : q # p /\ proc[q].pc = "run" => Clear(p, Free(p)', q)
  /\ s.pc = "run" => \A q \in Programs : q # p => Clear(q, Free(q), p)

LEMMA ApartKept ==
  ASSUME Types, Apart, NEW p \in Programs, NEW s \in [pc : Steps, pid : Nat, at : Nat],
         Becomes(p, s), ~overlapped' => ~overlapped, writable' = writable,
         ~overlapped' /\ LeftToInit /\ writable => Owed(p, s)
  PROVE  Apart'
<1> SUFFICES ASSUME ~overlapped', LeftToInit, writable
             PROVE  /\ \A q \in Programs : Mine(q, Locked(q))'
                    /\ \A q, r \in Programs : q # r /\ proc'[r].pc = "run" => Clear(q, Free(q), r)'
  BY DEF Apart, LeftToInit
<1>1. /\ \A q \in Programs : Mine(q, Locked(q))
      /\ \A q, r \in Programs : q # r /\ proc[r].pc = "run" => Clear(q, Free(q), r)
      /\ Owed(p, s)
  BY DEF Apart
<1>2. /\ proc'[p] = s
      /\ \A q \in Programs : q # p => proc'[q] = proc[q]
  BY Moved
<1>3. \A q \in Programs : q # p => Locked(q)' = Locked(q) /\ Free(q)' = Free(q)
  BY <1>2 DEF Locked, Free
<1>4. ASSUME NEW q \in Programs
      PROVE  Mine(q, Locked(q))'
  <2>1. CASE q = p
    BY <1>1, <2>1 DEF Owed
  <2>2. CASE q # p
    <3>1. \A i \in 1..Locked(q) : lock'[Uses[q][i]] = lock[Uses[q][i]] /\ lock[Uses[q][i]] = proc[q].pid
      BY <1>1, <2>2 DEF Owed, Mine
    <3> QED BY <1>2, <1>3, <2>2, <3>1 DEF Mine
  <2> QED BY <2>1, <2>2
<1>5. ASSUME NEW q \in Programs, NEW r \in Programs, q # r, proc'[r].pc = "run"
      PROVE  Clear(q, Free(q), r)'
  <2>1. CASE q = p
    BY <1>1, <1>2, <1>5, <2>1 DEF Owed, Clear
  <2>2. CASE r = p
    BY <1>1, <1>2, <1>3, <1>5, <2>2 DEF Owed, Clear
  <2>3. CASE q # p /\ r # p
    BY <1>1, <1>2, <1>3, <1>5, <2>3 DEF Clear
  <2> QED BY <2>1, <2>2, <2>3
<1> QED BY <1>4, <1>5

\* A step of p as the invariant sees it: a process keeps its pid or gets a new
\* one, nobody else's ends, and kissattach does not run without its lock.
Proper(p, s) ==
  /\ s.pc # "off" =>
       /\ s.at < Len(Uses[p]) /\ s.pid \in alive'
       /\ s.pid = nextpid \/ (proc[p].pc # "off" /\ s.pid = proc[p].pid)
       /\ ~writable /\ Kind[p] = "kissattach" => s.pc # "run"
  /\ \A i \in alive : i \in alive' \/ (proc[p].pc # "off" /\ i = proc[p].pid)

LEMMA InvKept ==
  ASSUME Inv, NEW p \in Programs, NEW s \in [pc : Steps, pid : Nat, at : Nat],
         Becomes(p, s), Proper(p, s), writable' = writable,
         lock' \in [Ttys -> {NoPid} \cup Nat], nextpid' \in Nat \ {0}, alive' \subseteq 1..(nextpid' - 1),
         ~overlapped' /\ LeftToInit /\ writable => Owed(p, s)
  PROVE  Inv'
<1>1. /\ proc' \in [Programs -> [pc : Steps, pid : Nat, at : Nat]] /\ proc'[p] = s
      /\ \A q \in Programs : q # p => proc'[q] = proc[q]
      /\ overlapped' \in BOOLEAN
  BY Moved DEF Inv
<1>2. Types'
  BY <1>1 DEF Inv, Types, Proper
<1>3. Pids'
  <2>1. ASSUME NEW q \in Programs, q # p, proc'[q].pc # "off"
        PROVE  /\ proc'[q].pid \in alive /\ proc'[q].pid \in alive'
               /\ proc'[p].pc # "off" => proc'[p].pid # proc'[q].pid
    <3>1. proc'[q].pid = proc[q].pid /\ proc[q].pid \in alive /\ proc[q].pid # nextpid
      BY <1>1, <2>1 DEF Inv, Pids, Types
    <3>2. proc[p].pc # "off" => proc[p].pid # proc[q].pid
      BY <1>1, <2>1 DEF Inv, Pids
    <3> QED BY <1>1, <3>1, <3>2 DEF Proper
  <2>2. proc'[p].pc # "off" => proc'[p].pid \in alive'
    BY <1>1 DEF Proper
  <2>3. ASSUME NEW q \in Programs, NEW r \in Programs, q # r, q # p, r # p, proc'[q].pc # "off", proc'[r].pc # "off"
        PROVE  proc'[q].pid # proc'[r].pid
    BY <1>1, <2>3 DEF Inv, Pids
  <2> QED BY <2>1, <2>2, <2>3 DEF Pids
<1>4. OneBusy' /\ (~overlapped' => ~overlapped)
  BY BusyKept DEF Inv
<1>5. Apart'
  BY <1>4, ApartKept DEF Inv
<1>6. NoLockNoRun'
  BY <1>1 DEF Inv, NoLockNoRun, Proper
<1> QED BY <1>2, <1>3, <1>4, <1>5, <1>6 DEF Inv, LockConstants, Ttys

-----------------------------------------------------------------------------
(* The actions *)

\* The tty a program is at is one it uses.
LEMMA AtTty ==
  ASSUME LockConstants, Types, NEW p \in Programs
  PROVE  /\ Len(Uses[p]) \in Nat \ {0}
         /\ \A i \in 1..Len(Uses[p]) : Uses[p][i] \in Ttys
         /\ proc[p].pc # "off" => proc[p].at + 1 \in 1..Len(Uses[p]) /\ This(p) \in Ttys
<1>1. Uses[p] \in Seq(Ttys) /\ Uses[p] # <<>>
  BY DEF LockConstants
<1>2. Len(Uses[p]) \in Nat \ {0} /\ DOMAIN Uses[p] = 1..Len(Uses[p])
      /\ \A i \in 1..Len(Uses[p]) : Uses[p][i] \in Ttys
  BY <1>1, EmptySeq, LenProperties, ElementOfSeq
<1>3. proc[p].pc # "off" => proc[p].at + 1 \in 1..Len(Uses[p])
  BY <1>2 DEF Types
<1> QED BY <1>2, <1>3 DEF This

\* Beside a busy program that overlaps with none, the others are off or run.
LEMMA Beside ==
  ASSUME Inv, ~overlapped, NEW p \in Programs, IsBusy(p), NEW q \in Programs, q # p
  PROVE  proc[q].pc \in {"off", "run"}
BY DEF Inv, OneBusy, IsBusy

\* Ending: the lock files of others stay as they were.
LEMMA ExitKept ==
  ASSUME Inv, NEW p \in Programs, proc[p].pc # "off", Exit(p), writable' = writable, nextpid' = nextpid,
         lock' \in [Ttys -> {NoPid} \cup Nat],
         ~overlapped' /\ LeftToInit /\ writable =>
           \A q \in Programs : \A i \in 1..Locked(q) : q # p => lock'[Uses[q][i]] = lock[Uses[q][i]]
  PROVE  Inv'
<1>1. Becomes(p, Off) /\ alive' = alive \ {proc[p].pid}
  BY DEF Exit
<1>2. Off \in [pc : Steps, pid : Nat, at : Nat] /\ Off.pc = "off"
  BY DEF Off, Steps
<1>3. proc'[p] = Off
  BY <1>1, <1>2, Moved DEF Inv
<1>4. Proper(p, Off)
  BY <1>1, <1>2 DEF Proper
<1>5. Locked(p)' = 0 /\ Free(p)' = 0
  BY <1>2, <1>3 DEF Locked, Free
<1>6. ~overlapped' /\ LeftToInit /\ writable => Owed(p, Off)
  BY <1>2, <1>5 DEF Owed, Mine, Clear
<1>7. nextpid' \in Nat \ {0} /\ alive' \subseteq 1..(nextpid' - 1)
  BY <1>1 DEF Inv, Types
<1> QED BY <1>1, <1>2, <1>4, <1>6, <1>7, InvKept

LEMMA StartKept ==
  ASSUME Inv, NEW p \in Programs, Start(p)
  PROVE  Inv'
<1> DEFINE s == [pc |-> "check", pid |-> nextpid, at |-> 0]
<1>1. s \in [pc : Steps, pid : Nat, at : Nat] /\ s.pc = "check" /\ s.pid = nextpid /\ s.at = 0
  BY DEF Inv, Types, Steps
<1>2. Becomes(p, s) /\ alive' = alive \cup {nextpid} /\ nextpid' = nextpid + 1
      /\ lock' = lock /\ writable' = writable
  BY DEF Start
<1> HIDE DEF s
<1>3. proc'[p] = s
  BY <1>1, <1>2, Moved DEF Inv
<1>4. Proper(p, s)
  BY <1>1, <1>2, AtTty DEF Proper, Inv
<1>5. Owed(p, s)
  BY <1>1, <1>2, <1>3 DEF Owed, Mine, Clear, Locked, Free
<1>6. lock' \in [Ttys -> {NoPid} \cup Nat] /\ nextpid' \in Nat \ {0} /\ alive' \subseteq 1..(nextpid' - 1)
  BY <1>2 DEF Inv, Types
<1> QED BY <1>1, <1>2, <1>4, <1>5, <1>6, InvKept

\* A step that neither starts nor ends a process and leaves the lock files.
LEMMA GoesOn ==
  ASSUME Inv, NEW p \in Programs, NEW s \in [pc : Steps, pid : Nat, at : Nat], Becomes(p, s),
         proc[p].pc # "off", s.pc # "off", s.pid = proc[p].pid, s.at < Len(Uses[p]),
         UNCHANGED <<lock, writable, alive, nextpid>>,
         ~writable /\ Kind[p] = "kissattach" => s.pc # "run",
         ~overlapped' /\ LeftToInit /\ writable => Owed(p, s)
  PROVE  Inv'
<1>1. Proper(p, s)
  BY DEF Proper, Inv, Pids
<1>2. lock' \in [Ttys -> {NoPid} \cup Nat] /\ nextpid' \in Nat \ {0} /\ alive' \subseteq 1..(nextpid' - 1)
  BY DEF Inv, Types
<1> QED BY <1>1, <1>2, InvKept

\* The next state of a program that goes to pc, or to the next of its ttys.
LEMMA Goes ==
  ASSUME Types, NEW p \in Programs, NEW pc \in Steps, Goto(p, pc)
  PROVE  \E s \in [pc : Steps, pid : Nat, at : Nat] :
           Becomes(p, s) /\ s.pid = proc[p].pid /\ s.pc = pc /\ s.at = 0
<1> DEFINE s == [proc[p] EXCEPT !.pc = pc, !.at = 0]
<1>1. s \in [pc : Steps, pid : Nat, at : Nat] /\ s.pid = proc[p].pid /\ s.pc = pc /\ s.at = 0
  BY DEF Types
<1> QED BY <1>1 DEF Goto

LEMMA GoesThrough ==
  ASSUME Types, NEW p \in Programs, NEW pc \in Steps, Through(p, pc)
  PROVE  \E s \in [pc : Steps, pid : Nat, at : Nat] :
           /\ Becomes(p, s) /\ s.pid = proc[p].pid
           /\ IF proc[p].at + 1 < Len(Uses[p])
              THEN s.pc = proc[p].pc /\ s.at = proc[p].at + 1
              ELSE s.pc = pc /\ s.at = 0
<1>1. CASE proc[p].at + 1 < Len(Uses[p])
  <2> DEFINE s == [proc[p] EXCEPT !.at = @ + 1]
  <2>1. s \in [pc : Steps, pid : Nat, at : Nat] /\ s.pid = proc[p].pid /\ s.pc = proc[p].pc /\ s.at = proc[p].at + 1
    BY DEF Types
  <2>2. Becomes(p, s)
    BY <1>1 DEF Through
  <2> QED BY <1>1, <2>1, <2>2
<1>2. CASE ~(proc[p].at + 1 < Len(Uses[p]))
  BY <1>2, Goes DEF Through
<1> QED BY <1>1, <1>2

\* A tty that is found free is used by nobody that runs.
LEMMA CheckKept ==
  ASSUME Inv, NEW p \in Programs, Check(p)
  PROVE  Inv'
<1>1. /\ proc[p].pc = "check" /\ UNCHANGED <<lock, writable, nextpid>>
      /\ \/ tty_is_locked(This(p)) /\ Exit(p)
         \/ ~tty_is_locked(This(p)) /\ Through(p, "open") /\ UNCHANGED alive
  BY DEF Check
<1>2. LockConstants /\ Types
  BY DEF Inv
<1>3. CASE Exit(p)
  BY <1>1, <1>3, ExitKept DEF Inv, Types
<1>4. CASE ~tty_is_locked(This(p)) /\ Through(p, "open") /\ UNCHANGED alive
  <2>1. "open" \in Steps
    BY DEF Steps
  <2>2. PICK s \in [pc : Steps, pid : Nat, at : Nat] :
           /\ Becomes(p, s) /\ s.pid = proc[p].pid
           /\ IF proc[p].at + 1 < Len(Uses[p])
              THEN s.pc = "check" /\ s.at = proc[p].at + 1
              ELSE s.pc = "open" /\ s.at = 0
    BY <1>1, <1>2, <1>4, <2>1, GoesThrough
  <2>3. proc'[p] = s
    BY <1>2, <2>2, Moved
  <2>4. proc[p].at + 1 \in 1..Len(Uses[p]) /\ Len(Uses[p]) \in Nat \ {0} /\ proc[p].at \in Nat
    BY <1>1, <1>2, AtTty DEF Types
  <2>5. Locked(p)' = 0 /\ Free(p)' = proc[p].at + 1
    BY <2>2, <2>3, <2>4 DEF Locked, Free
  <2>6. ASSUME ~overlapped', LeftToInit, writable
        PROVE  Owed(p, s)
    <3>1. ~overlapped
      BY <1>2, <2>2, <2>6, BusyKept
    <3>2. ASSUME NEW q \in Programs, q # p, proc[q].pc = "run"
          PROVE  Clear(p, proc[p].at + 1, q)
      <4>1. Clear(p, proc[p].at, q)
        BY <1>1, <2>6, <3>1, <3>2 DEF Inv, Apart, Free
      <4>2. \A j \in 1..Len(Uses[q]) : lock[Uses[q][j]] = proc[q].pid
        BY <2>6, <3>1, <3>2 DEF Inv, Apart, Mine, Locked
      <4>3. proc[q].pid \in alive
        BY <3>2 DEF Inv, Pids
      <4>4. \A j \in 1..Len(Uses[q]) : Uses[p][proc[p].at + 1] # Uses[q][j]
        BY <1>4, <4>2, <4>3 DEF tty_is_locked, This
      <4> QED BY <2>4, <4>1, <4>4 DEF Clear
    <3> QED BY <1>1, <2>2, <2>5, <3>2 DEF Owed, Mine
  <2> QED BY <1>1, <1>4, <2>2, <2>4, <2>6, GoesOn
<1> QED BY <1>1, <1>3, <1>4

LEMMA OpenKept ==
  ASSUME Inv, NEW p \in Programs, OpenTtys(p)
  PROVE  Inv'
<1>1. /\ proc[p].pc = "open" /\ UNCHANGED <<lock, writable, nextpid>>
      /\ \/ Exit(p)
         \/ Goto(p, IF Kind[p] = "kissattach" THEN "fork" ELSE "lock") /\ UNCHANGED alive
  BY DEF OpenTtys
<1>2. LockConstants /\ Types
  BY DEF Inv
<1>3. CASE Exit(p)
  BY <1>1, <1>3, ExitKept DEF Inv, Types
<1>4. ASSUME NEW pc \in {"fork", "lock"}, Goto(p, pc), UNCHANGED alive, pc = "fork" => Kind[p] = "kissattach"
      PROVE  Inv'
  <2>1. PICK s \in [pc : Steps, pid : Nat, at : Nat] :
           Becomes(p, s) /\ s.pid = proc[p].pid /\ s.pc = pc /\ s.at = 0
    BY <1>2, <1>4, Goes DEF Steps
  <2>2. proc'[p] = s
    BY <1>2, <2>1, Moved
  <2>3. Len(Uses[p]) \in Nat \ {0}
    BY <1>2, AtTty
  <2>4. Locked(p)' = 0 /\ Free(p)' = Len(Uses[p]) /\ Free(p) = Len(Uses[p])
    BY <1>1, <1>4, <2>1, <2>2 DEF Locked, Free
  <2>5. ~overlapped' => ~overlapped
    BY <1>2, <2>1, BusyKept
  <2>6. ~overlapped' /\ LeftToInit /\ writable => Owed(p, s)
    BY <1>1, <1>4, <2>1, <2>4, <2>5 DEF Owed, Mine, Inv, Apart
  <2> QED BY <1>1, <1>4, <2>1, <2>3, <2>6, GoesOn
<1> QED BY <1>1, <1>3, <1>4

\* The lock is written with the pid of the process that goes on, and while
\* nobody else is busy.
LEMMA LockKept ==
  ASSUME Inv, NEW p \in Programs, Lock(p)
  PROVE  Inv'
<1> DEFINE next == IF Kind[p] = "kissattach" THEN "run" ELSE "fork"
<1>1. /\ proc[p].pc = "lock" /\ UNCHANGED <<writable, nextpid>>
      /\ lock' = IF writable THEN [lock EXCEPT ![This(p)] = proc[p].pid] ELSE lock
      /\ \/ ~writable /\ Exit(p)
         \/ (~writable => Kind[p] # "kissattach") /\ Through(p, next) /\ UNCHANGED alive
  BY DEF Lock, LockPid
<1>2. LockConstants /\ Types
  BY DEF Inv
<1>3. next \in Steps /\ next \in {"run", "fork"} /\ (next = "fork" <=> Kind[p] # "kissattach")
  BY DEF Steps
<1> HIDE DEF next
<1>4. This(p) \in Ttys /\ proc[p].at + 1 \in 1..Len(Uses[p]) /\ Len(Uses[p]) \in Nat \ {0} /\ proc[p].at \in Nat
  BY <1>1, <1>2, AtTty DEF Types
<1>5. lock' \in [Ttys -> {NoPid} \cup Nat] /\ proc[p].pid \in Nat
  BY <1>1, <1>2 DEF Types
<1>6. CASE ~writable /\ Exit(p)
  BY <1>1, <1>5, <1>6, ExitKept
<1>7. CASE (~writable => Kind[p] # "kissattach") /\ Through(p, next) /\ UNCHANGED alive
  <2>1. PICK s \in [pc : Steps, pid : Nat, at : Nat] :
           /\ Becomes(p, s) /\ s.pid = proc[p].pid
           /\ IF proc[p].at + 1 < Len(Uses[p])
              THEN s.pc = "lock" /\ s.at = proc[p].at + 1
              ELSE s.pc = next /\ s.at = 0
    BY <1>1, <1>2, <1>3, <1>7, GoesThrough
  <2>2. proc'[p] = s
    BY <1>2, <2>1, Moved
  <2>3. Locked(p)' = proc[p].at + 1 /\ Free(p)' = Len(Uses[p]) /\ Free(p) = Len(Uses[p]) /\ Locked(p) = proc[p].at
    BY <1>1, <1>3, <1>4, <2>1, <2>2 DEF Locked, Free
  <2>4. ASSUME ~overlapped', LeftToInit, writable
        PROVE  Owed(p, s)
    <3>1. ~overlapped
      BY <1>2, <2>1, <2>4, BusyKept
    <3>2. \A q \in Programs : q # p => proc[q].pc \in {"off", "run"}
      BY <1>1, <3>1, Beside DEF IsBusy
    <3>3. ASSUME NEW q \in Programs, q # p, proc[q].pc = "run"
          PROVE  Clear(p, Len(Uses[p]), q) /\ Clear(q, Len(Uses[q]), p)
      <4>1. Clear(p, Len(Uses[p]), q)
        BY <2>3, <2>4, <3>1, <3>3 DEF Inv, Apart
      <4>2. Len(Uses[q]) \in Nat
        BY <1>2, AtTty
      <4> QED BY <1>4, <4>1, <4>2, ClearBoth
    <3>4. ASSUME NEW q \in Programs, q # p, NEW i \in 1..Locked(q)
          PROVE  lock'[Uses[q][i]] = lock[Uses[q][i]]
      <4>1. proc[q].pc = "run" /\ i \in 1..Len(Uses[q])
        BY <3>2, <3>4 DEF Locked
      <4>2. Uses[q][i] # This(p) /\ Uses[q][i] \in Ttys
        BY <1>2, <1>4, <3>3, <3>4, <4>1, AtTty DEF Clear, This
      <4> QED BY <1>1, <1>2, <2>4, <4>2 DEF Types
    <3>5. Mine(p, Locked(p))'
      <4>1. \A i \in 1..proc[p].at : lock[Uses[p][i]] = proc[p].pid
        BY <2>3, <2>4, <3>1 DEF Inv, Apart, Mine
      <4>2. \A i \in 1..(proc[p].at + 1) : Uses[p][i] \in Ttys /\ (i = proc[p].at + 1 => Uses[p][i] = This(p))
        BY <1>2, <1>4, AtTty DEF This
      <4>3. \A i \in 1..(proc[p].at + 1) : lock'[Uses[p][i]] = proc[p].pid
        BY <1>1, <1>2, <1>4, <2>4, <4>1, <4>2 DEF Types
      <4> QED BY <2>1, <2>2, <2>3, <4>3 DEF Mine
    <3>6. \A q \in Programs : q # p => Clear(q, Free(q), p)
      BY <3>2, <3>3 DEF Free, Clear
    <3> QED BY <2>3, <3>3, <3>4, <3>5, <3>6 DEF Owed
  <2>5. Proper(p, s)
    BY <1>1, <1>3, <1>4, <1>7, <2>1 DEF Proper, Inv, Pids
  <2> QED BY <1>1, <1>2, <1>5, <1>7, <2>1, <2>4, <2>5, InvKept DEF Types
<1> QED BY <1>1, <1>6, <1>7

\* daemon_start: kissattach forks before it locks; what init has started and
\* has its lock goes on under the same pid.
LEMMA ForkKept ==
  ASSUME Inv, NEW p \in Programs, DaemonStart(p)
  PROVE  Inv'
<1> DEFINE next == IF Kind[p] = "kissattach" THEN "lock" ELSE "run"
<1>1. /\ proc[p].pc = "fork" /\ UNCHANGED <<lock, writable>>
      /\ \/ p \in ByInit /\ Goto(p, next) /\ UNCHANGED <<alive, nextpid>>
         \/ /\ p \notin ByInit /\ Becomes(p, [pc |-> next, pid |-> nextpid, at |-> 0])
            /\ alive' = (alive \ {proc[p].pid}) \cup {nextpid} /\ nextpid' = nextpid + 1
         \/ Goto(p, "end") /\ UNCHANGED <<alive, nextpid>>
         \/ Exit(p) /\ UNCHANGED nextpid
  BY DEF DaemonStart
<1>2. LockConstants /\ Types
  BY DEF Inv
<1>3. next \in Steps /\ next \in {"lock", "run"} /\ (next = "lock" <=> Kind[p] = "kissattach")
  BY DEF Steps
<1> HIDE DEF next
<1>4. Len(Uses[p]) \in Nat \ {0} /\ Free(p) = Len(Uses[p])
      /\ (Kind[p] # "kissattach" => Locked(p) = Len(Uses[p]))
  BY <1>1, <1>2, AtTty DEF Free, Locked
<1>5. lock' \in [Ttys -> {NoPid} \cup Nat]
  BY <1>1, <1>2 DEF Types
<1>6. ASSUME NEW s \in [pc : Steps, pid : Nat, at : Nat], Becomes(p, s),
             s.pc \in {"lock", "run", "end"}, s.at = 0, s.pc = "lock" => Kind[p] = "kissattach",
             s.pc = "run" => Kind[p] # "kissattach" /\ (LeftToInit => s.pid = proc[p].pid),
             ~overlapped', LeftToInit, writable
      PROVE  Owed(p, s)
  <2>1. proc'[p] = s /\ ~overlapped
    BY <1>2, <1>6, Moved, BusyKept
  <2>2. \A q \in Programs : q # p => proc[q].pc \in {"off", "run"}
    BY <1>1, <2>1, Beside DEF IsBusy
  <2>3. Free(p)' = Len(Uses[p]) /\ Locked(p)' = IF s.pc = "run" THEN Len(Uses[p]) ELSE 0
    BY <1>6, <2>1 DEF Free, Locked
  <2>4. ASSUME NEW q \in Programs, q # p, proc[q].pc = "run"
        PROVE  Clear(p, Len(Uses[p]), q) /\ Clear(q, Len(Uses[q]), p)
    <3>1. Clear(p, Len(Uses[p]), q)
      BY <1>4, <1>6, <2>1, <2>4 DEF Inv, Apart
    <3>2. Len(Uses[q]) \in Nat
      BY <1>2, AtTty
    <3> QED BY <1>4, <3>1, <3>2, ClearBoth
  <2>5. Mine(p, Locked(p))'
    <3>1. CASE s.pc = "run"
      <4>1. Mine(p, Len(Uses[p]))
        BY <1>4, <1>6, <2>1, <3>1 DEF Inv, Apart
      <4> QED BY <1>1, <1>6, <2>1, <2>3, <3>1, <4>1 DEF Mine
    <3>2. CASE s.pc # "run"
      BY <2>3, <3>2 DEF Mine
    <3> QED BY <3>1, <3>2
  <2>6. \A q \in Programs : q # p => Clear(q, Free(q), p)
    BY <2>2, <2>4 DEF Free, Clear
  <2> QED BY <1>1, <2>3, <2>4, <2>5, <2>6 DEF Owed
<1>7. ASSUME NEW pc \in {next, "end"}, Goto(p, pc), UNCHANGED <<alive, nextpid>>
      PROVE  Inv'
  <2>1. PICK s \in [pc : Steps, pid : Nat, at : Nat] :
           Becomes(p, s) /\ s.pid = proc[p].pid /\ s.pc = pc /\ s.at = 0
    BY <1>2, <1>3, <1>7, Goes DEF Steps
  <2>2. ~overlapped' /\ LeftToInit /\ writable => Owed(p, s)
    BY <1>3, <1>6, <1>7, <2>1
  <2> QED BY <1>1, <1>3, <1>4, <1>7, <2>1, <2>2, GoesOn
<1>8. ASSUME p \notin ByInit, Becomes(p, [pc |-> next, pid |-> nextpid, at |-> 0]),
             alive' = (alive \ {proc[p].pid}) \cup {nextpid}, nextpid' = nextpid + 1
      PROVE  Inv'
  <2> DEFINE s == [pc |-> next, pid |-> nextpid, at |-> 0]
  <2>1. s \in [pc : Steps, pid : Nat, at : Nat] /\ s.pc = next /\ s.pid = nextpid /\ s.at = 0 /\ Becomes(p, s)
    BY <1>2, <1>3, <1>8 DEF Types
  <2> HIDE DEF s
  <2>2. LeftToInit => Kind[p] = "kissattach"
    BY <1>8 DEF LeftToInit
  <2>3. ~overlapped' /\ LeftToInit /\ writable => Owed(p, s)
    BY <1>3, <1>6, <2>1, <2>2
  <2>4. Proper(p, s)
    BY <1>1, <1>3, <1>4, <1>8, <2>1 DEF Proper
  <2>5. nextpid' \in Nat \ {0} /\ alive' \subseteq 1..(nextpid' - 1)
    <3>1. nextpid \in Nat \ {0} /\ \A i \in alive : i \in Nat /\ 1 <= i /\ i <= nextpid - 1
      BY <1>2 DEF Types
    <3>2. \A i \in alive' : i \in alive \/ i = nextpid
      BY <1>8
    <3>3. \A i \in alive' : i \in 1..nextpid
      BY <3>1, <3>2
    <3> QED BY <1>8, <3>1, <3>3
  <2> QED BY <1>1, <1>5, <2>1, <2>3, <2>4, <2>5, InvKept
<1>9. CASE Exit(p) /\ UNCHANGED nextpid
  BY <1>1, <1>5, <1>9, ExitKept
<1> QED BY <1>1, <1>7, <1>8, <1>9

LEMMA TerminateKept ==
  ASSUME Inv, NEW p \in Programs, Terminate(p)
  PROVE  Inv'
<1>1. /\ proc[p].pc \in {"fork", "run", "lock"} /\ Goto(p, "end")
      /\ UNCHANGED <<lock, writable, alive, nextpid>>
  BY DEF Terminate
<1>2. LockConstants /\ Types
  BY DEF Inv
<1>3. PICK s \in [pc : Steps, pid : Nat, at : Nat] :
         Becomes(p, s) /\ s.pid = proc[p].pid /\ s.pc = "end" /\ s.at = 0
  BY <1>1, <1>2, Goes DEF Steps
<1>4. proc'[p] = s /\ (~overlapped' => ~overlapped)
  BY <1>2, <1>3, Moved, BusyKept
<1>5. Len(Uses[p]) \in Nat \ {0} /\ Free(p) = Len(Uses[p]) /\ Free(p)' = Len(Uses[p]) /\ Locked(p)' = 0
  BY <1>1, <1>2, <1>3, <1>4, AtTty DEF Free, Locked
<1>6. ~overlapped' /\ LeftToInit /\ writable => Owed(p, s)
  BY <1>1, <1>3, <1>4, <1>5 DEF Owed, Mine, Inv, Apart
<1> QED BY <1>1, <1>3, <1>5, <1>6, GoesOn

\* A lock is removed whoever's it is, and while nobody else is busy.
LEMMA UnlockKept ==
  ASSUME Inv, NEW p \in Programs, Unlock(p)
  PROVE  Inv'
<1>1. /\ proc[p].pc = "end" /\ UNCHANGED <<writable, nextpid>>
      /\ lock' = IF writable THEN [lock EXCEPT ![This(p)] = NoPid] ELSE lock
      /\ \/ proc[p].at + 1 < Len(Uses[p]) /\ Through(p, "end") /\ UNCHANGED alive
         \/ Exit(p)
  BY DEF Unlock
<1>2. LockConstants /\ Types
  BY DEF Inv
<1>3. This(p) \in Ttys /\ proc[p].at + 1 \in 1..Len(Uses[p]) /\ Len(Uses[p]) \in Nat \ {0}
  BY <1>1, <1>2, AtTty
<1>4. lock' \in [Ttys -> {NoPid} \cup Nat]
  BY <1>1, <1>2 DEF Types
<1>5. Free(p) = Len(Uses[p])
  BY <1>1 DEF Free
<1>6. ASSUME ~overlapped, LeftToInit, writable, NEW q \in Programs, q # p, NEW i \in 1..Locked(q)
      PROVE  lock'[Uses[q][i]] = lock[Uses[q][i]]
  <2>1. proc[q].pc = "run" /\ i \in 1..Len(Uses[q])
    BY <1>1, <1>6, Beside DEF IsBusy, Locked
  <2>2. Clear(p, Len(Uses[p]), q)
    BY <1>5, <1>6, <2>1 DEF Inv, Apart
  <2>3. Uses[q][i] # This(p) /\ Uses[q][i] \in Ttys
    BY <1>2, <1>3, <2>1, <2>2, AtTty DEF Clear, This
  <2> QED BY <1>1, <1>2, <1>6, <2>3 DEF Types
<1>7. CASE proc[p].at + 1 < Len(Uses[p]) /\ Through(p, "end") /\ UNCHANGED alive
  <2>1. PICK s \in [pc : Steps, pid : Nat, at : Nat] :
           Becomes(p, s) /\ s.pid = proc[p].pid /\ s.pc = "end" /\ s.at = proc[p].at + 1
    BY <1>1, <1>2, <1>7, GoesThrough DEF Steps
  <2>2. proc'[p] = s /\ (~overlapped' => ~overlapped)
    BY <1>2, <2>1, Moved, BusyKept
  <2>3. Free(p)' = Len(Uses[p]) /\ Locked(p)' = 0
    BY <2>1, <2>2 DEF Free, Locked
  <2>4. ~overlapped' /\ LeftToInit /\ writable => Owed(p, s)
    BY <1>1, <1>5, <1>6, <2>1, <2>2, <2>3 DEF Owed, Mine, Inv, Apart
  <2>5. Proper(p, s)
    BY <1>1, <1>7, <2>1 DEF Proper, Inv, Pids
  <2> QED BY <1>1, <1>2, <1>4, <1>7, <2>1, <2>4, <2>5, InvKept DEF Types
<1>8. CASE Exit(p)
  <2>1. ~overlapped' => ~overlapped
    BY <1>2, <1>8, BusyKept DEF Exit, Off, Steps
  <2> QED BY <1>1, <1>4, <1>6, <1>8, <2>1, ExitKept
<1> QED BY <1>1, <1>7, <1>8

LEMMA CrashKept ==
  ASSUME Inv, NEW p \in Programs, Crash(p)
  PROVE  Inv'
<1>1. proc[p].pc # "off" /\ Exit(p) /\ UNCHANGED <<lock, writable, nextpid>>
  BY DEF Crash
<1>2. lock' \in [Ttys -> {NoPid} \cup Nat]
  BY <1>1 DEF Inv, Types
<1> QED BY <1>1, <1>2, ExitKept

-----------------------------------------------------------------------------
(* The theorems *)

\* Pids of processes that run are alive and each process has its own, and
\* whoever runs holds the locks of its ttys, through every start, end and crash.
THEOREM InvHolds == Spec => []Inv
<1>1. LockConstants /\ Init => Inv
  <2> SUFFICES ASSUME LockConstants, Init PROVE Inv
    OBVIOUS
  <2>1. \A p \in Programs : proc[p].pc = "off" /\ proc[p].pid = 0 /\ proc[p].at = 0
    BY DEF Init, Off
  <2>2. Types
    <3>1. proc \in [Programs -> [pc : Steps, pid : Nat, at : Nat]]
      <4>1. Off \in [pc : Steps, pid : Nat, at : Nat]
        BY DEF Off, Steps
      <4> QED BY <4>1 DEF Init
    <3>2. lock \in [Ttys -> {NoPid} \cup Nat] /\ writable \in BOOLEAN /\ overlapped \in BOOLEAN
      BY DEF Init
    <3>3. nextpid \in Nat \ {0} /\ alive \subseteq 1..(nextpid - 1)
      BY DEF Init
    <3> QED BY <2>1, <3>1, <3>2, <3>3 DEF Types
  <2>3. Pids /\ OneBusy /\ NoLockNoRun
    BY <2>1 DEF Pids, OneBusy, IsBusy, NoLockNoRun
  <2>4. Apart
    BY <2>1 DEF Apart, Mine, Locked
  <2> QED BY <2>2, <2>3, <2>4 DEF Inv
<1>2. Inv /\ [Next]_vars => Inv'
  <2> SUFFICES ASSUME Inv, [Next]_vars PROVE Inv'
    OBVIOUS
  <2>1. ASSUME NEW p \in Programs,
               \/ Start(p) \/ Check(p) \/ OpenTtys(p) \/ Lock(p) \/ DaemonStart(p)
               \/ Terminate(p) \/ Unlock(p) \/ Crash(p)
        PROVE  Inv'
    BY <2>1, StartKept, CheckKept, OpenKept, LockKept, ForkKept, TerminateKept, UnlockKept, CrashKept
  <2>2. CASE UNCHANGED vars
    BY <2>2 DEF vars, Inv, LockConstants, Ttys, Types, Pids, OneBusy, IsBusy, Apart, NoLockNoRun,
                Mine, Clear, Locked, Free, LeftToInit
  <2> QED BY <2>1, <2>2 DEF Next
<1> QED BY <1>1, <1>2, PTL DEF Spec

\* ttyutils.c: lock files keep two programs off one tty, if those that init can
\* start are left to it, no two start or end at a time, and the directory of the
\* lock files can be written.
THEOREM Attached == Spec => []AttachedOnce
<1>1. Inv => AttachedOnce
  <2> SUFFICES ASSUME Inv, ~overlapped, LeftToInit, NEW p \in Programs, NEW q \in Programs, Share(p, q)
               PROVE  Kind[p] # "kissattach" /\ ~writable
    BY DEF AttachedOnce, LeftToInit
  <2>1. Kind[p] = "kissattach" => writable
    BY DEF Inv, NoLockNoRun, Share
  <2>2. p # q
    BY DEF Share, Inv, Types
  <2>3. writable => Clear(p, Len(Uses[p]), q)
    BY <2>2 DEF Inv, Apart, Share, Free
  <2>4. DOMAIN Uses[p] = 1..Len(Uses[p]) /\ DOMAIN Uses[q] = 1..Len(Uses[q])
    BY LenProperties DEF Inv, LockConstants
  <2> QED BY <2>1, <2>3, <2>4 DEF Share, Clear
<1> QED BY <1>1, InvHolds, PTL
=============================================================================
