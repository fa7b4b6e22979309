-------------------------- MODULE WorkerSupervisor --------------------------
(***************************************************************************)
(* The supervisors of one background worker (worker/supervisor.py), the    *)
(* commands that start, replace and stop them (cli/commands/lead.py), and  *)
(* the sessions they hold at the broker (memory_session_store.py).         *)
(*                                                                         *)
(* A supervisor has two threads.  The main one acquires a session, starts  *)
(* the heartbeats, spawns Pi, reads its output until it ends, and cleans   *)
(* up; the handler of SIGTERM runs in it, between any two of its steps.    *)
(* The other one sends the heartbeats, and ends Pi when the broker does    *)
(* not know the session any more.  Each is split where the other one, the  *)
(* signal or the command may come in between.                              *)
(*                                                                         *)
(* Pi is external: it ends by itself, or when it is terminated.  One       *)
(* command runs at a time.  The status file, which nothing here reads, is  *)
(* a write that may fail.                                                  *)
(***************************************************************************)
EXTENDS Naturals

CONSTANTS
  MaxSups,      \* supervisors launched, numbered in the order of their launch
  MaxSupFaults  \* failures of writes, requests, the broker: model only

ASSUME SupervisorConstantsOK == MaxSups \in Nat /\ MaxSupFaults \in Nat

Sups == 1..MaxSups
NoSup == 0

VARIABLES
  main,      \* what the main thread of each supervisor does next
  leased,    \* whether it got a session (lease_id)
  known,     \* whether the main thread has assigned child
  stop,      \* stop_event
  term,      \* whether it was sent SIGTERM, and has not handled it
  handling,  \* whether the main thread is in the handler, terminating Pi
  killed,    \* whether it was killed
  beat,      \* the heartbeat thread
  child,     \* the Pi process of each supervisor
  session,   \* broker: the session of each supervisor
  pidFile, childFile,  \* the supervisor whose pid, or child's pid, is on file
  cmd,       \* the command under way
  supFaults

supVars == <<main, leased, known, stop, handling, killed>>
workerVars == <<supVars, term, beat, child, session, pidFile, childFile, cmd, supFaults>>

MainState == {"none", "start", "acquire", "spawn", "assign", "write", "read", "wait",
              "clean", "release", "unlink", "gone"}
Live(s) == main[s] \notin {"none", "gone"}
Active == {s \in Sups : session[s] = "ACTIVE"}

BeatState == {"none", "sleeping", "asking", "killing", "over"}
ChildState == {"none", "alive", "dead"}
SessionState == {"NONE", "ACTIVE", "ENDED"}
CommandState == [op : {"none", "work", "replace", "stop"},
                 at : {"idle", "signal", "terminate", "release", "launch", "write"},
                 pid : Sups \cup {NoSup}, sessions : SUBSET Sups]

NoCommand == [op |-> "none", at |-> "idle", pid |-> NoSup, sessions |-> {}]

SupTypeOK ==
  /\ main \in [Sups -> MainState]
  /\ leased \in [Sups -> BOOLEAN] /\ known \in [Sups -> BOOLEAN]
  /\ stop \in [Sups -> BOOLEAN] /\ term \in [Sups -> BOOLEAN]
  /\ handling \in [Sups -> BOOLEAN] /\ killed \in [Sups -> BOOLEAN]
  /\ beat \in [Sups -> BeatState] /\ child \in [Sups -> ChildState]
  /\ session \in [Sups -> SessionState]
  /\ pidFile \in Sups \cup {NoSup} /\ childFile \in Sups \cup {NoSup}
  /\ cmd \in CommandState
  /\ supFaults \in 0..MaxSupFaults
  \* Only a process that is known is terminated.
  /\ \A s \in Sups : handling[s] \/ beat[s] = "killing" => known[s]

SupInit ==
  /\ main = [s \in Sups |-> "none"]
  /\ leased = [s \in Sups |-> FALSE] /\ known = [s \in Sups |-> FALSE]
  /\ stop = [s \in Sups |-> FALSE] /\ term = [s \in Sups |-> FALSE]
  /\ handling = [s \in Sups |-> FALSE] /\ killed = [s \in Sups |-> FALSE]
  /\ beat = [s \in Sups |-> "none"] /\ child = [s \in Sups |-> "none"]
  /\ session = [s \in Sups |-> "NONE"]
  /\ pidFile = NoSup /\ childFile = NoSup
  /\ cmd = NoCommand /\ supFaults = 0

SupFails == supFaults < MaxSupFaults /\ supFaults' = supFaults + 1

-----------------------------------------------------------------------------
(* The main thread *)

Goes(s, from, to) ==
  /\ main[s] = from /\ ~handling[s]
  /\ main' = [main EXCEPT ![s] = to]

OthersIdle == UNCHANGED <<term, handling, killed, pidFile, cmd>>

\* build_launch_spec may raise, before anything is there to clean up; the
\* write of the status may raise, too, and that is cleaned up.
Start(s) ==
  /\ \/ Goes(s, "start", "acquire") /\ UNCHANGED supFaults
     \/ Goes(s, "start", "clean") /\ SupFails
     \/ Goes(s, "start", "gone") /\ SupFails
  /\ UNCHANGED <<leased, known, stop, beat, child, session, childFile>> /\ OthersIdle

\* acquire_session_locked refuses an agent that has an active session.  If the
\* request or its answer is lost, the supervisor has no session to release.
Acquire(s) ==
  /\ \/ /\ Goes(s, "acquire", "spawn") /\ Active = {}
        /\ session' = [session EXCEPT ![s] = "ACTIVE"] /\ leased' = [leased EXCEPT ![s] = TRUE]
        /\ beat' = [beat EXCEPT ![s] = "sleeping"] /\ UNCHANGED supFaults
     \/ /\ Goes(s, "acquire", "clean") /\ Active # {}
        /\ UNCHANGED <<session, leased, beat, supFaults>>
     \/ /\ Goes(s, "acquire", "clean") /\ SupFails
        /\ \/ UNCHANGED session
           \/ Active = {} /\ session' = [session EXCEPT ![s] = "ACTIVE"]
        /\ UNCHANGED <<leased, beat>>
  /\ UNCHANGED <<known, stop, child, childFile>> /\ OthersIdle

\* Popen; what was meant to stop the supervisor before is not looked at.
Spawn(s) ==
  /\ \/ /\ Goes(s, "spawn", "assign") /\ child' = [child EXCEPT ![s] = "alive"]
        /\ UNCHANGED supFaults
     \/ Goes(s, "spawn", "clean") /\ SupFails /\ UNCHANGED child
  /\ UNCHANGED <<leased, known, stop, beat, session, childFile>> /\ OthersIdle

Assign(s) ==
  /\ Goes(s, "assign", "write") /\ known' = [known EXCEPT ![s] = TRUE]
  /\ UNCHANGED <<leased, stop, beat, child, session, childFile, supFaults>> /\ OthersIdle

\* The child's pid and the status "running".
WriteChildPid(s) ==
  /\ \/ Goes(s, "write", "read") /\ childFile' = s /\ UNCHANGED supFaults
     \/ Goes(s, "write", "clean") /\ childFile' \in {s, childFile} /\ SupFails
  /\ UNCHANGED <<leased, known, stop, beat, child, session>> /\ OthersIdle

\* Pi's output ends, or a line of it comes after stop_event, or is no text.
Read(s) ==
  /\ \/ Goes(s, "read", "wait") /\ (child[s] = "dead" \/ stop[s]) /\ UNCHANGED supFaults
     \/ Goes(s, "read", "clean") /\ SupFails
  /\ UNCHANGED <<leased, known, stop, beat, child, session, childFile>> /\ OthersIdle

\* Mutant of Wait: Pi's end counts only if it was asked for.
WaitForStop(s) ==
  /\ Goes(s, "wait", "clean") /\ child[s] = "dead" /\ stop[s]
  /\ UNCHANGED <<leased, known, stop, beat, child, session, childFile, supFaults>>
  /\ OthersIdle

\* child.wait and the status "exited", whether it can be written or not.
Wait(s) ==
  /\ Goes(s, "wait", "clean") /\ child[s] = "dead"
  /\ UNCHANGED <<leased, known, stop, beat, child, session, childFile, supFaults>>
  /\ OthersIdle

\* Mutant of Clean: Pi is left to itself.
CleanLeavesPi(s) ==
  /\ Goes(s, "clean", "release") /\ stop' = [stop EXCEPT ![s] = TRUE]
  /\ UNCHANGED <<child, leased, known, beat, session, childFile, supFaults>> /\ OthersIdle

\* The finally clause: Pi is terminated if it lives.
Clean(s) ==
  /\ Goes(s, "clean", "release") /\ stop' = [stop EXCEPT ![s] = TRUE]
  /\ child' = [child EXCEPT ![s] = IF known[s] THEN "dead" ELSE @]
  /\ UNCHANGED <<leased, known, beat, session, childFile, supFaults>> /\ OthersIdle

\* release_session swallows a failure; an ended session stays as it is.
Release(s) ==
  /\ Goes(s, "release", "unlink")
  /\ \/ /\ session' = [session EXCEPT ![s] = IF leased[s] /\ @ = "ACTIVE" THEN "ENDED" ELSE @]
        /\ UNCHANGED supFaults
     \/ SupFails /\ leased[s] /\ UNCHANGED session
  /\ UNCHANGED <<leased, known, stop, beat, child, childFile>> /\ OthersIdle

\* The child's pid goes whosever it is, the supervisor's if it is its own.  The
\* process ends, and with it the other thread.
Unlink(s) ==
  /\ Goes(s, "unlink", "gone")
  /\ childFile' = NoSup /\ pidFile' = IF pidFile = s THEN NoSup ELSE pidFile
  /\ beat' = [beat EXCEPT ![s] = "over"]
  /\ UNCHANGED <<leased, known, stop, handling, killed, term, child, session, cmd, supFaults>>

-----------------------------------------------------------------------------
(* SIGTERM, the heartbeats, and Pi *)

\* A signal that comes before the handlers are there ends the process.
DiesEarly(s) ==
  /\ term[s] /\ main[s] = "start" /\ main' = [main EXCEPT ![s] = "gone"]
  /\ UNCHANGED <<leased, known, stop, term, handling, killed, beat, child, session, pidFile,
                 childFile, cmd, supFaults>>

\* handle_stop.
HandleStop(s) ==
  /\ term[s] /\ Live(s) /\ ~handling[s]
  /\ term' = [term EXCEPT ![s] = FALSE] /\ stop' = [stop EXCEPT ![s] = TRUE]
  /\ handling' = [handling EXCEPT ![s] = known[s] /\ child[s] = "alive"]
  /\ UNCHANGED <<main, leased, known, killed, beat, child, session, pidFile, childFile,
                 cmd, supFaults>>

\* _terminate_process_tree, in the handler: SIGTERM to Pi's group, five seconds
\* later SIGKILL.
HandlerTerminates(s) ==
  /\ handling[s] /\ handling' = [handling EXCEPT ![s] = FALSE]
  /\ child' = [child EXCEPT ![s] = "dead"]
  /\ UNCHANGED <<main, leased, known, stop, killed, term, beat, session, pidFile, childFile,
                 cmd, supFaults>>

BeatIdle ==
  UNCHANGED <<main, leased, known, handling, killed, term, session, pidFile, childFile, cmd>>

BeatAsks(s) ==
  /\ beat[s] = "sleeping"
  /\ beat' = [beat EXCEPT ![s] = IF stop[s] THEN "over" ELSE "asking"]
  /\ UNCHANGED <<stop, child, supFaults>> /\ BeatIdle

\* heartbeat_session_locked answers as well for a session that has ended; a
\* session it does not know, after the broker has lost its memory, is a 404.
\* The thread ends at once if the status "session_lost" cannot be written.
BeatReturns(s) ==
  /\ beat[s] = "asking"
  /\ \/ session[s] # "NONE" /\ beat' = [beat EXCEPT ![s] = "sleeping"] /\ UNCHANGED stop
     \/ /\ session[s] = "NONE" /\ stop' = [stop EXCEPT ![s] = TRUE]
        /\ beat' = [beat EXCEPT ![s] = IF known[s] THEN "killing" ELSE "over"]
     \/ session[s] = "NONE" /\ beat' = [beat EXCEPT ![s] = "over"] /\ UNCHANGED stop
  /\ UNCHANGED <<child, supFaults>> /\ BeatIdle

BeatTerminates(s) ==
  /\ beat[s] = "killing" /\ beat' = [beat EXCEPT ![s] = "over"]
  /\ child' = [child EXCEPT ![s] = "dead"]
  /\ UNCHANGED <<stop, supFaults>> /\ BeatIdle

\* Pi ends by itself, as a oneshot worker does.
ChildEnds(s) ==
  /\ child[s] = "alive" /\ child' = [child EXCEPT ![s] = "dead"]
  /\ UNCHANGED <<beat, stop, supFaults>> /\ BeatIdle

-----------------------------------------------------------------------------
(* The broker *)

BrokerOnly ==
  UNCHANGED <<supVars, term, beat, child, pidFile, childFile, cmd>>

\* expire_sessions_locked, when the heartbeats have stopped, ...
Expire(s) ==
  /\ session[s] = "ACTIVE" /\ beat[s] \notin {"sleeping", "asking"}
  /\ session' = [session EXCEPT ![s] = "ENDED"] /\ UNCHANGED supFaults /\ BrokerOnly

\* ... and when they were late, as after the machine has slept.
ExpireLate(s) ==
  /\ session[s] = "ACTIVE" /\ beat[s] \in {"sleeping", "asking"} /\ SupFails
  /\ session' = [session EXCEPT ![s] = "ENDED"] /\ BrokerOnly

\* A broker that keeps its state in memory starts again.
Forget ==
  /\ SupFails /\ session' = [s \in Sups |-> "NONE"] /\ BrokerOnly

-----------------------------------------------------------------------------
(* orch work --background, orch work --background --replace, orch stop *)

CommandOnly ==
  UNCHANGED <<leased, known, stop, handling, child, childFile>>

\* What the command finds decides what it does: work refuses a worker that is
\* active, and with --new stops the process on file.
Command ==
  /\ cmd.at = "idle"
  /\ \/ /\ Active = {}
        /\ \E at \in {"launch"} \cup (IF pidFile # NoSup THEN {"signal"} ELSE {}) :
             cmd' = [op |-> "work", at |-> at, pid |-> NoSup, sessions |-> {}]
     \/ /\ Active # {}
        /\ cmd' = [op |-> "replace", at |-> "signal", pid |-> NoSup, sessions |-> Active]
     \/ cmd' = [op |-> "stop", at |-> "signal", pid |-> NoSup, sessions |-> Active]
  /\ cmd'.op \in {"work", "replace"} => \E s \in Sups : main[s] = "none"
  /\ UNCHANGED <<main, killed, term, beat, session, pidFile, supFaults>> /\ CommandOnly

\* stop_pid_file, up to the signal.
Signal ==
  /\ cmd.at = "signal"
  /\ IF pidFile # NoSup /\ Live(pidFile)
     THEN /\ term' = [term EXCEPT ![pidFile] = TRUE]
          /\ cmd' = [cmd EXCEPT !.at = "terminate", !.pid = pidFile] /\ UNCHANGED pidFile
     ELSE /\ cmd' = [cmd EXCEPT !.at = "release"] /\ pidFile' = NoSup /\ UNCHANGED term
  /\ UNCHANGED <<main, killed, beat, session, supFaults>> /\ CommandOnly

\* _terminate_pid: the supervisor has gone, or is killed with its group, which
\* is not that of Pi.  The file goes, whatever is in it by now.
Terminated ==
  /\ cmd.at = "terminate" /\ pidFile' = NoSup
  /\ IF Live(cmd.pid)
     THEN /\ main' = [main EXCEPT ![cmd.pid] = "gone"]
          /\ killed' = [killed EXCEPT ![cmd.pid] = TRUE]
          /\ beat' = [beat EXCEPT ![cmd.pid] = "over"]
          /\ handling' = [handling EXCEPT ![cmd.pid] = FALSE]
     ELSE UNCHANGED <<main, killed, beat, handling>>
  /\ cmd' = [cmd EXCEPT !.at = "release"]
  /\ UNCHANGED <<leased, known, stop, child, childFile, term, session, supFaults>>

\* release_work_sessions; orch stop without a name does not release the
\* sessions of a process it did not stop.
ReleaseSessions ==
  /\ cmd.at = "release"
  /\ \/ session' = [s \in Sups |-> IF s \in cmd.sessions /\ session[s] = "ACTIVE"
                                   THEN "ENDED" ELSE session[s]] /\ UNCHANGED supFaults
     \/ SupFails /\ UNCHANGED session
     \/ cmd.op = "stop" /\ cmd.pid = NoSup /\ UNCHANGED <<session, supFaults>>
  /\ cmd' = IF cmd.op = "stop" THEN NoCommand ELSE [cmd EXCEPT !.at = "launch"]
  /\ UNCHANGED <<main, killed, term, beat, pidFile>> /\ CommandOnly

\* launch_work_background.
Launch ==
  /\ cmd.at = "launch"
  /\ \E s \in Sups :
       /\ main[s] = "none" /\ \A r \in Sups : main[r] = "none" => s <= r
       /\ main' = [main EXCEPT ![s] = "start"]
       /\ cmd' = [cmd EXCEPT !.at = "write", !.pid = s]
  /\ UNCHANGED <<killed, term, beat, session, pidFile, supFaults>> /\ CommandOnly

WritePid ==
  /\ cmd.at = "write" /\ pidFile' = cmd.pid /\ cmd' = NoCommand
  /\ UNCHANGED <<main, killed, term, beat, session, supFaults>> /\ CommandOnly

-----------------------------------------------------------------------------
MainStep(s) ==
  \/ Start(s) \/ Acquire(s) \/ Spawn(s) \/ Assign(s) \/ WriteChildPid(s)
  \/ Read(s) \/ Wait(s) \/ Clean(s) \/ Release(s) \/ Unlink(s)
  \/ DiesEarly(s) \/ HandleStop(s) \/ HandlerTerminates(s)

BeatStep(s) == BeatAsks(s) \/ BeatReturns(s) \/ BeatTerminates(s)

CommandStep == Signal \/ Terminated \/ ReleaseSessions \/ Launch \/ WritePid

SupNext ==
  \/ \E s \in Sups : MainStep(s) \/ BeatStep(s) \/ ChildEnds(s) \/ Expire(s) \/ ExpireLate(s)
  \/ Forget \/ Command \/ CommandStep

SupSpec == SupInit /\ [][SupNext]_workerVars

\* Threads run, a command goes on, and the broker's session expiry loop does;
\* nobody need give a command, and Pi need not end.
SupFairSpec ==
  /\ SupSpec /\ WF_workerVars(CommandStep)
  /\ \A s \in Sups : /\ WF_workerVars(MainStep(s)) /\ WF_workerVars(BeatStep(s))
                     /\ WF_workerVars(Expire(s))

-----------------------------------------------------------------------------
(* Properties *)

\* A supervisor that ended, unless it was killed, has ended its Pi, whatever
\* failed after the spawn (worker/supervisor.py:501).
GoneIsClean == \A s \in Sups : main[s] = "gone" /\ ~killed[s] => child[s] # "alive"

\* Types, and no Pi left behind.
SupervisorOK == SupTypeOK /\ GoneIsClean

\* When Pi has ended, by itself, by a signal or by the heartbeats, its
\* supervisor ends as well, and the session does not outlive it
\* (worker/supervisor.py:484).
EndsTogether ==
  \A s \in Sups : child[s] = "dead" ~> main[s] = "gone" /\ session[s] # "ACTIVE"

\* A worker whose session has ended learns it from its next heartbeat and stops,
\* unless nobody is left to send one.
FencedWorkerStops ==
  \A s \in Sups : session[s] = "ENDED" ~> child[s] # "alive" \/ killed[s]
=============================================================================
