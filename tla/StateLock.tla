----------------------------- MODULE StateLock -----------------------------
(***************************************************************************)
(* The two locks that keep orchlink's processes from changing a file at    *)
(* the same time: the one of the loop state (loop/adapters/lock.py, taken  *)
(* by the transactions of state_repo.py) and the one of a goal             *)
(* (goal/files.py, taken by those of transaction.py).                      *)
(*                                                                         *)
(* Both are directories: mkdir takes the lock, and owner.json in it names  *)
(* the process.  A lock that was left behind is broken by the next process *)
(* that wants it.  Every call to the file system is a step of its own; an  *)
(* owner file that is not yet written, or not complete, is none.  What the *)
(* loop does with a lock that is held is to give up, a goal waits.         *)
(*                                                                         *)
(* A lock gets old (an hour, or five minutes) only when no process that    *)
(* lives has it: nobody keeps a lock for long.  A process is a pid on one  *)
(* host, and pids are not used again.                                      *)
(***************************************************************************)
EXTENDS Naturals

CONSTANTS
  Procs,      \* processes
  Kinds,      \* which of the locks, "loop" and "goal"
  MaxTurns,   \* transactions of each process, a bound of the model only
  MaxFaults   \* crashes and unreadable files, a bound of the model only

None == "none"

ASSUME LockConstantsOK ==
  /\ Kinds \subseteq {"loop", "goal"}
  /\ MaxTurns \in Nat /\ MaxFaults \in Nat /\ None \notin Procs

VARIABLES
  kind,     \* the lock there is
  lock,     \* the directory: whether it is there, its owner.json, its age
  at,       \* the next call of each process
  saw,      \* the owner that a process has read
  sawOld,   \* whether the lock was old when a process looked at it
  turns,    \* transactions a process has begun
  faults

lockVars == <<kind, lock, at, saw, sawOld, turns, faults>>

NoLock == [there |-> FALSE, owner |-> None, old |-> FALSE]

\* Where a process waits for the lock, breaks one, has one, or leaves it.
Waiting == {"mkdir", "stat", "read", "probe", "move"}
Breaking == {"unlink", "rmdir", "again"}
Having == {"own", "inside", "check", "unown", "vacate"}

Alive(p) == at[p] # "gone"
HasIt(p) == at[p] \in Having

LockTypeOK ==
  /\ kind \in Kinds
  /\ lock \in [there : BOOLEAN, owner : Procs \cup {None}, old : BOOLEAN]
  /\ ~lock.there => lock = NoLock
  /\ at \in [Procs -> {"idle", "gone"} \cup Waiting \cup Breaking \cup Having]
  /\ saw \in [Procs -> Procs \cup {None}] /\ sawOld \in [Procs -> BOOLEAN]
  /\ turns \in [Procs -> 0..MaxTurns]
  /\ faults \in 0..MaxFaults

LockInit ==
  /\ kind \in Kinds /\ lock = NoLock
  /\ at = [p \in Procs |-> "idle"]
  /\ saw = [p \in Procs |-> None] /\ sawOld = [p \in Procs |-> FALSE]
  /\ turns = [p \in Procs |-> 0]
  /\ faults = 0

Calls(p, from, to) == at[p] = from /\ at' = [at EXCEPT ![p] = to]
Fails == faults < MaxFaults /\ faults' = faults + 1

\* What a step leaves alone that changes nothing but the lock.
Keeps == UNCHANGED <<kind, saw, sawOld, turns, faults>>

-----------------------------------------------------------------------------
(* Taking the lock *)

\* The outermost transaction of a process.
Start(p) ==
  /\ turns[p] < MaxTurns /\ Calls(p, "idle", "mkdir")
  /\ UNCHANGED lock /\ Keeps

Made(p, from) ==
  /\ ~lock.there /\ Calls(p, from, "own")
  /\ lock' = [NoLock EXCEPT !.there = TRUE]

Mkdir(p) ==
  /\ \/ Made(p, "mkdir")
     \/ lock.there /\ Calls(p, "mkdir", "stat") /\ UNCHANGED lock
  /\ Keeps

\* After a stale lock was broken the loop tries once more, then gives up.
MkdirAgain(p) ==
  /\ \/ Made(p, "again")
     \/ lock.there /\ Calls(p, "again", "idle") /\ UNCHANGED lock
  /\ Keeps

\* Mutant of Stat: the loop does not ask how old the lock is.
StatAnyAge(p) ==
  /\ \/ lock.there /\ Calls(p, "stat", "read")
     \/ ~lock.there /\ Calls(p, "stat", IF kind = "loop" THEN "again" ELSE "mkdir")
  /\ sawOld' = [sawOld EXCEPT ![p] = lock.old /\ at'[p] = "read"]
  /\ UNCHANGED <<kind, lock, saw, turns, faults>>

\* The loop looks no further at a lock that is young.
Stat(p) ==
  /\ \/ lock.there /\ (kind = "loop" => lock.old) /\ Calls(p, "stat", "read")
     \/ lock.there /\ kind = "loop" /\ ~lock.old /\ Calls(p, "stat", "idle")
     \/ ~lock.there /\ Calls(p, "stat", IF kind = "loop" THEN "again" ELSE "mkdir")
  /\ sawOld' = [sawOld EXCEPT ![p] = lock.old /\ at'[p] = "read"]
  /\ UNCHANGED <<kind, lock, saw, turns, faults>>

ReadOwner(p) ==
  /\ Calls(p, "read", "probe")
  /\ saw' = [saw EXCEPT ![p] = lock.owner]
  /\ UNCHANGED <<kind, lock, sawOld, turns, faults>>

\* Mutant of Stale: a goal's lock without an owner is left alone.
StaleOwned(p) == saw[p] # None /\ ~Alive(saw[p])

\* _lock_is_stale and _pid_is_live: the process on file decides if there is one.
Stale(p) == IF saw[p] # None THEN ~Alive(saw[p]) ELSE sawOld[p]

Probe(p) ==
  /\ Calls(p, "probe", IF kind = "loop" THEN IF Stale(p) THEN "unlink" ELSE "idle"
                                       ELSE IF Stale(p) THEN "move" ELSE "mkdir")
  /\ saw' = [saw EXCEPT ![p] = None] /\ sawOld' = [sawOld EXCEPT ![p] = FALSE]
  /\ UNCHANGED <<kind, lock, turns, faults>>

\* A goal's lock is moved out of the way in one call, whosever it is by now.
Move(p) ==
  /\ Calls(p, "move", "mkdir") /\ lock' = NoLock /\ Keeps

\* rmtree empties the directory, and then removes it if it is still empty.  To
\* break a lock that somebody else has broken is as good.
Empties(p, from, next, missing) ==
  /\ Calls(p, from, IF lock.there THEN next ELSE missing)
  /\ lock' = [lock EXCEPT !.owner = None, !.old = @ /\ lock.owner = None]
  /\ Keeps
Removes(p, from, done) ==
  /\ Calls(p, from, IF lock.owner = None THEN done ELSE "idle")
  /\ lock' = IF lock.owner = None THEN NoLock ELSE lock
  /\ Keeps

BreakEmpties(p) == Empties(p, "unlink", "rmdir", "again")
BreakRemoves(p) == Removes(p, "rmdir", "again")

-----------------------------------------------------------------------------
(* Having it, and giving it back *)

\* The owner file is written, over that of another if there is one.
WriteOwner(p) ==
  /\ \/ /\ lock.there /\ Calls(p, "own", "inside")
        /\ lock' = [lock EXCEPT !.owner = p, !.old = @ /\ lock.owner # None]
        /\ turns' = [turns EXCEPT ![p] = @ + 1]
     \/ /\ ~lock.there /\ Calls(p, "own", IF kind = "loop" THEN "idle" ELSE "check")
        /\ UNCHANGED <<lock, turns>>
  /\ UNCHANGED <<kind, saw, sawOld, faults>>

\* The file is read, changed and replaced, or the transaction fails.
Transaction(p) ==
  /\ Calls(p, "inside", IF kind = "loop" THEN "unown" ELSE "check")
  /\ UNCHANGED lock /\ Keeps

\* The loop's file cannot be read: that is before the try whose finally clause
\* releases the lock.
ReadFails(p) ==
  /\ kind = "loop" /\ Calls(p, "inside", "idle") /\ Fails
  /\ UNCHANGED <<kind, lock, saw, sawOld, turns>>

\* _release_lock: only a lock with the own token goes.
Check(p) ==
  /\ Calls(p, "check", IF lock.owner = p THEN "unown" ELSE "idle")
  /\ UNCHANGED lock /\ Keeps

FreeEmpties(p) == Empties(p, "unown", "vacate", "idle")
FreeRemoves(p) == Removes(p, "vacate", "idle")

-----------------------------------------------------------------------------
(* Processes end, and time passes *)

Exit(p) ==
  /\ Calls(p, "idle", "gone") /\ UNCHANGED lock /\ Keeps

Crash(p) ==
  /\ at[p] \notin {"idle", "gone"} /\ at' = [at EXCEPT ![p] = "gone"] /\ Fails
  /\ saw' = [saw EXCEPT ![p] = None] /\ sawOld' = [sawOld EXCEPT ![p] = FALSE]
  /\ UNCHANGED <<kind, lock, turns>>

GetsOld ==
  /\ lock.there /\ ~lock.old /\ \A p \in Procs : ~HasIt(p)
  /\ lock' = [lock EXCEPT !.old = TRUE]
  /\ UNCHANGED at /\ Keeps

-----------------------------------------------------------------------------
LockStep(p) ==
  \/ Mkdir(p) \/ MkdirAgain(p) \/ Stat(p) \/ ReadOwner(p) \/ Probe(p) \/ Move(p)
  \/ BreakEmpties(p) \/ BreakRemoves(p) \/ WriteOwner(p) \/ Transaction(p)
  \/ Check(p) \/ FreeEmpties(p) \/ FreeRemoves(p)

LockNext ==
  \/ \E p \in Procs : Start(p) \/ LockStep(p) \/ ReadFails(p) \/ Exit(p) \/ Crash(p)
  \/ GetsOld

LockSpec == LockInit /\ [][LockNext]_lockVars

\* A process that has begun goes on, and time passes.
LockFairSpec == LockSpec /\ WF_lockVars(GetsOld) /\ \A p \in Procs : WF_lockVars(LockStep(p))

-----------------------------------------------------------------------------
(* Properties *)

\* Nothing has happened by which a lock may be broken that somebody has: for the
\* loop a crash or an unreadable file, for a goal the end of any process, since
\* its waiters ask for the process they read of and not for the age of the lock.
Undisturbed ==
  IF kind = "loop" THEN faults = 0 ELSE \A p \in Procs : Alive(p)

\* Two transactions never overlap, from the moment their locks are taken until
\* they are given back (loop/adapters/lock.py:30, goal/files.py:64).
AloneInside ==
  Undisturbed => \A p, q \in Procs : HasIt(p) /\ HasIt(q) => p = q

\* Types, and nobody else inside.
LocksOK == LockTypeOK /\ AloneInside

\* The lock is there, and no process that lives has it or is on file.
Orphaned ==
  /\ lock.there /\ \A p \in Procs : ~HasIt(p)
  /\ lock.owner # None => ~Alive(lock.owner)

\* No lock is in the way for ever: who waits for a goal's gets it, and who finds
\* that of the loop old and left behind breaks it (goal/files.py:67,
\* loop/adapters/lock.py:36).
NeverForGood ==
  \A p \in Procs :
    /\ kind = "goal" /\ at[p] \in Waiting ~> at[p] \notin Waiting
    /\ kind = "loop" /\ at[p] = "mkdir" /\ Orphaned /\ lock.old
         ~> ~Orphaned \/ ~Alive(p)
=============================================================================
