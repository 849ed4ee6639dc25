------------------------------- MODULE TtyLock -------------------------------
(***************************************************************************)
(* The lock files of serial lines (libax25/lib/ax25/ttyutils.c) and the    *)
(* way mkiss, m6pack, nrsdrv and kissattach start, lock and end.  A lock   *)
(* file holds a pid and counts as long as that process is alive.           *)
(***************************************************************************)
EXTENDS Naturals, Sequences, FiniteSets

CONSTANTS
  Programs,  \* instances that may be started
  Kind,      \* [Programs -> {"mkiss", "nrsdrv", "kissattach"}]; m6pack is as mkiss
  Uses,      \* [Programs -> the ttys it locks, in the order of its arguments]
  ByInit,    \* programs that init starts, which do not fork
  NoPid,     \* no lock file, or one without a pid in it
  MaxStarts  \* bound: starts in all

VARIABLES
  lock,      \* [Ttys -> pid in the lock file]
  writable,  \* the directory of the lock files can be written
  alive,     \* pids of the running processes
  proc,      \* [Programs -> [pc, pid, at]]; at: ttys the step has been through
  nextpid,
  starts,    \* history: starts so far
  overlapped \* history: two programs were starting or ending at a time

vars == <<lock, writable, alive, proc, nextpid, starts, overlapped>>

Ttys == UNION {{Uses[p][i] : i \in DOMAIN Uses[p]} : p \in Programs}
Off == [pc |-> "off", pid |-> 0, at |-> 0]

\* Every program works on one tty at least.
LockConstants ==
  /\ IsFiniteSet(Programs)
  /\ \A p \in Programs : Uses[p] \in Seq(Ttys) /\ Uses[p] # <<>>

Init ==
  /\ lock = [t \in Ttys |-> NoPid] /\ writable \in BOOLEAN
  /\ alive = {} /\ proc = [p \in Programs |-> Off] /\ nextpid = 1
  /\ starts = 0 /\ overlapped = FALSE

Busy(pr) == {p \in Programs : pr[p].pc \notin {"off", "run"}}

\* Every step of a program is one of its process.
Becomes(p, s) ==
  /\ proc' = [proc EXCEPT ![p] = s]
  /\ overlapped' = (overlapped \/ Cardinality(Busy(proc')) > 1)

Goto(p, pc) == Becomes(p, [proc[p] EXCEPT !.pc = pc, !.at = 0])

Exit(p) == Becomes(p, Off) /\ alive' = alive \ {proc[p].pid}

tty_is_locked(t) == lock[t] \in alive

\* The next tty of a step that goes through all of them, or the next step.
This(p) == Uses[p][proc[p].at + 1]
Through(p, pc) ==
  IF proc[p].at + 1 < Len(Uses[p]) THEN Becomes(p, [proc[p] EXCEPT !.at = @ + 1]) ELSE Goto(p, pc)

-----------------------------------------------------------------------------
Start(p) ==
  /\ proc[p].pc = "off" /\ starts < MaxStarts
  /\ Becomes(p, [pc |-> "check", pid |-> nextpid, at |-> 0])
  /\ alive' = alive \cup {nextpid} /\ nextpid' = nextpid + 1 /\ starts' = starts + 1
  /\ UNCHANGED <<lock, writable>>

\* Every program refuses to start on a tty that is locked.
Check(p) ==
  /\ proc[p].pc = "check"
  /\ IF tty_is_locked(This(p)) THEN Exit(p) ELSE Through(p, "open") /\ UNCHANGED alive
  /\ UNCHANGED <<lock, writable, nextpid, starts>>

\* Opening the ttys, or attaching the line discipline.
OpenTtys(p) ==
  /\ proc[p].pc = "open"
  /\ \/ Exit(p)
     \/ Goto(p, IF Kind[p] = "kissattach" THEN "fork" ELSE "lock") /\ UNCHANGED alive
  /\ UNCHANGED <<lock, writable, nextpid, starts>>

\* Mutant: the pid of the process that ran before daemon_start.
LockPidParent(p) == proc[p].pid - 1

LockPid(p) == proc[p].pid

\* tty_lock; only kissattach looks at its result.
Lock(p) ==
  /\ proc[p].pc = "lock"
  /\ lock' = IF writable THEN [lock EXCEPT ![This(p)] = LockPid(p)] ELSE lock
  /\ IF ~writable /\ Kind[p] = "kissattach"
       THEN Exit(p)
       ELSE Through(p, IF Kind[p] = "kissattach" THEN "run" ELSE "fork") /\ UNCHANGED alive
  /\ UNCHANGED <<writable, nextpid, starts>>

\* daemon_start: the parent exits and the child goes on, unless init has
\* started the program.  When nrsdrv fails here, or sets a speed in vain
\* before, it removes its locks.
DaemonStart(p) ==
  /\ proc[p].pc = "fork"
  /\ LET pc == IF Kind[p] = "kissattach" THEN "lock" ELSE "run"
     IN  \/ IF p \in ByInit THEN Goto(p, pc) /\ UNCHANGED <<alive, nextpid>>
            ELSE /\ Becomes(p, [pc |-> pc, pid |-> nextpid, at |-> 0])
                 /\ alive' = (alive \ {proc[p].pid}) \cup {nextpid} /\ nextpid' = nextpid + 1
         \/ /\ IF Kind[p] = "nrsdrv" THEN Goto(p, "end") /\ UNCHANGED alive ELSE Exit(p)
            /\ UNCHANGED nextpid
  /\ UNCHANGED <<lock, writable, starts>>

\* SIGTERM once its handler is there; a read that fails in mkiss or nrsdrv.
Terminate(p) ==
  /\ proc[p].pc \in {"fork", "run"} \/ (Kind[p] = "kissattach" /\ proc[p].pc = "lock")
  /\ Goto(p, "end")
  /\ UNCHANGED <<lock, writable, alive, nextpid, starts>>

\* tty_unlock of each tty, whoever's the lock is; then exit.
Unlock(p) ==
  /\ proc[p].pc = "end"
  /\ lock' = IF writable THEN [lock EXCEPT ![This(p)] = NoPid] ELSE lock
  /\ IF proc[p].at + 1 < Len(Uses[p]) THEN Through(p, "end") /\ UNCHANGED alive ELSE Exit(p)
  /\ UNCHANGED <<writable, nextpid, starts>>

\* SIGKILL: the lock files stay.
Crash(p) ==
  /\ proc[p].pc # "off"
  /\ Exit(p)
  /\ UNCHANGED <<lock, writable, nextpid, starts>>

Next ==
  \E p \in Programs :
    \/ Start(p) \/ Check(p) \/ OpenTtys(p) \/ Lock(p) \/ DaemonStart(p)
    \/ Terminate(p) \/ Unlock(p) \/ Crash(p)

Spec == LockConstants /\ Init /\ [][Next]_vars

-----------------------------------------------------------------------------
TypeOK ==
  /\ \A t \in Ttys : lock[t] \in {NoPid} \cup 1..(nextpid - 1)
  /\ \A p \in Programs : proc[p].pc # "off" => proc[p].pid \in alive

\* Do two programs run on the same tty, p the one that was started first?
Share(p, q) ==
  /\ proc[p].pc = "run" /\ proc[q].pc = "run" /\ proc[p].pid < proc[q].pid
  /\ \E i \in DOMAIN Uses[p], j \in DOMAIN Uses[q] : Uses[p][i] = Uses[q][j]

\* If mkiss, m6pack and nrsdrv are left to init, which has them lock their
\* ttys as the process that goes on running, and no two programs are started
\* or ended at the same time, no tty is used by two of them, of either kind,
\* also after crashes.
AttachedOnce ==
  (~overlapped /\ \A p \in Programs : Kind[p] = "kissattach" \/ p \in ByInit) =>
    \A p, q \in Programs : Share(p, q) => Kind[p] # "kissattach" /\ ~writable

\* mkiss.c:602: "Now all the ports are open, lock them."  What is locked is
\* locked as long as the program runs.
LockedWhileRunning ==
  ~overlapped /\ writable =>
    \A p \in Programs : proc[p].pc = "run" => \A i \in DOMAIN Uses[p] : tty_is_locked(Uses[p][i])
=============================================================================
