----------------------------- MODULE WorkerAgent -----------------------------
(***************************************************************************)
(* The extension that runs inside a worker's Pi process                    *)
(* (connector/pi_extension_worker.py) against the part of the broker that  *)
(* concerns this worker: the messages sent to it, one at a time, and the   *)
(* leases of their jobs.                                                   *)
(*                                                                         *)
(* The extension is one thread, so a handler runs in one step up to the    *)
(* request it awaits.  What comes back may be old by then, and what it     *)
(* finds in currentTask another task.  While a task is current, its status *)
(* is checked and its lease renewed again and again; the timers of these   *)
(* two chains are left out, those of the poll and of the deferred failure  *)
(* are armed or not, and when they fire is open.                           *)
(*                                                                         *)
(* Pi is external: it takes prompts in turn, and a turn ends in a message. *)
(***************************************************************************)
EXTENDS Naturals, FiniteSets

CONSTANTS
  MaxTasks,   \* tasks and talk turns sent to this worker, numbered as they come
  MaxPolls,   \* polls under way at once, a bound of the model only
  MaxAsks,    \* tasks whose status or lease is asked for at once: model only
  MaxTurns,   \* prompts and notices that Pi has yet to take: model only
  MaxFaults   \* requests that fail, a bound of the model only

ASSUME WorkerConstantsOK ==
  /\ MaxTasks \in Nat /\ MaxPolls \in Nat \ {0} /\ MaxAsks \in Nat
  /\ MaxTurns \in Nat \ {0} /\ MaxFaults \in Nat

Tasks == 1..MaxTasks
None == 0

VARIABLES
  work,        \* broker: the status of each message
  mine,        \* broker: the tasks whose job lease is this worker's
  agent,       \* the extension: "starting", "serving" or "stopped"
  pendingTask, currentTask, cancelNoticeSent, leaseLost,
  timer,       \* whether the timer of the poll is armed
  recovery,    \* the task whose recoverable failure is deferred, or None
  polling,     \* polls that wait at the broker
  arriving,    \* messages on their way in the answer of a poll
  checks,      \* tasks whose status was asked for
  renewals,    \* tasks whose lease is being renewed
  reply,       \* how far the reply of each task has come
  posts,       \* ghost: how many replies were posted for each task
  prompts,     \* prompts sent to Pi whose input event is to come
  turns,       \* Pi: the turns to take, the first under way
  taken,       \* ghost: tasks the extension took up, but for those that one which
               \* was over by then took the place of
  faults

brokerVars == <<work, mine>>
taskVars == <<pendingTask, currentTask, cancelNoticeSent, leaseLost>>
pollVars == <<timer, polling, arriving>>
askVars == <<checks, renewals>>
replyVars == <<reply, posts>>
vars == <<brokerVars, agent, taskVars, pollVars, recovery, askVars, replyVars,
          prompts, turns, taken, faults>>

\* A message that runs is not told apart from a delivered one, nor one that
\* timed out from a cancelled one.
Status == {"NEW", "QUEUED", "DELIVERED", "DONE", "CANCELLED"}
Busy(t) == work[t] \in {"QUEUED", "DELIVERED"}
Over(t) == work[t] = "CANCELLED"

TypeOK ==
  /\ work \in [Tasks -> Status] /\ mine \subseteq Tasks
  /\ agent \in {"starting", "serving", "stopped"}
  /\ pendingTask \in Tasks \cup {None} /\ currentTask \in Tasks \cup {None}
  /\ cancelNoticeSent \in BOOLEAN /\ leaseLost \in BOOLEAN
  /\ timer \in BOOLEAN /\ recovery \in Tasks \cup {None}
  /\ polling \in 0..MaxPolls /\ arriving \subseteq Tasks
  /\ checks \subseteq Tasks /\ renewals \subseteq Tasks
  /\ reply \in [Tasks -> {"none", "posted", "ok", "failed"}]
  /\ posts \in [Tasks -> Nat]
  /\ prompts \in Nat /\ turns \in Nat /\ taken \subseteq Tasks
  /\ faults \in 0..MaxFaults

Init ==
  /\ work = [t \in Tasks |-> "NEW"] /\ mine = {}
  /\ agent = "starting"
  /\ pendingTask = None /\ currentTask = None
  /\ cancelNoticeSent = FALSE /\ leaseLost = FALSE
  /\ timer = FALSE /\ recovery = None /\ polling = 0 /\ arriving = {}
  /\ checks = {} /\ renewals = {}
  /\ reply = [t \in Tasks |-> "none"] /\ posts = [t \in Tasks |-> 0]
  /\ prompts = 0 /\ turns = 0 /\ taken = {} /\ faults = 0

Fails == faults < MaxFaults /\ faults' = faults + 1

-----------------------------------------------------------------------------
(* The broker *)

AgentIdle ==
  UNCHANGED <<agent, taskVars, timer, recovery, askVars, posts, prompts, turns, taken>>

\* assert_worker_target_free: a worker has one busy message.
Send(t) ==
  /\ work[t] = "NEW" /\ \A u \in Tasks : ~Busy(u) /\ (work[u] = "NEW" => u >= t)
  /\ work' = [work EXCEPT ![t] = "QUEUED"]
  /\ AgentIdle /\ UNCHANGED <<mine, polling, arriving, reply, faults>>

\* cancel_work, the timeout sweep, the end of the session, and the reply of an
\* agent that reclaimed the job; a finished job has no lease.
Settle(t) ==
  /\ Busy(t)
  /\ \E s \in {"CANCELLED"} \cup
              (IF work[t] = "DELIVERED" /\ t \notin mine THEN {"DONE"} ELSE {}) :
       work' = [work EXCEPT ![t] = s]
  /\ mine' = mine \ {t}
  /\ AgentIdle /\ UNCHANGED <<polling, arriving, reply, faults>>

\* reclaim_job by another agent; the message stays addressed to this worker.
Reclaim(t) ==
  /\ t \in mine /\ mine' = mine \ {t}
  /\ AgentIdle /\ UNCHANGED <<work, polling, arriving, reply, faults>>

Deliver(t) ==
  /\ polling > 0 /\ work[t] = "QUEUED"
  /\ work' = [work EXCEPT ![t] = "DELIVERED"] /\ mine' = mine \cup {t}
  /\ polling' = polling - 1 /\ arriving' = arriving \cup {t}
  /\ AgentIdle /\ UNCHANGED <<reply, faults>>

\* save_reply: 409 for a lease that was taken over, ignored if the message was
\* cancelled or timed out.  The request or its answer may also be lost.
Stored(t) ==
  IF t \in mine THEN work' = [work EXCEPT ![t] = "DONE"] /\ mine' = mine \ {t}
  ELSE UNCHANGED <<work, mine>>
SaveReply(t) ==
  /\ reply[t] = "posted"
  /\ \/ /\ Stored(t) /\ UNCHANGED faults
        /\ reply' = [reply EXCEPT ![t] = IF t \in mine \/ ~Busy(t) THEN "ok" ELSE "failed"]
     \/ /\ Fails /\ (Stored(t) \/ UNCHANGED <<work, mine>>)
        /\ reply' = [reply EXCEPT ![t] = "failed"]
  /\ AgentIdle /\ UNCHANGED <<polling, arriving>>

-----------------------------------------------------------------------------
(* The extension *)

\* schedule: the timer of the poll is armed, unless the extension was stopped.
Schedule == timer' = (timer \/ agent = "serving")

\* session_start: polls begin once the broker has answered; if it does not, the
\* extension never polls, and here never starts.
SessionStart ==
  /\ agent = "starting" /\ agent' = "serving" /\ timer' = TRUE
  /\ UNCHANGED <<brokerVars, taskVars, polling, arriving, recovery, askVars,
                 replyVars, prompts, turns, taken, faults>>

HasTask == pendingTask # None \/ currentTask # None

\* poll, up to its request.
PollFires ==
  /\ timer /\ timer' = FALSE
  /\ HasTask \/ agent # "serving" \/ polling < MaxPolls
  /\ polling' = IF HasTask \/ agent # "serving" THEN polling ELSE polling + 1
  /\ UNCHANGED <<brokerVars, agent, taskVars, arriving, recovery, askVars,
                 replyVars, prompts, turns, taken, faults>>

\* poll's finally clause.
PollEnds == IF currentTask = None THEN Schedule ELSE UNCHANGED timer

PollIdle ==
  UNCHANGED <<brokerVars, agent, currentTask, cancelNoticeSent, leaseLost,
              recovery, askVars, replyVars, turns>>

\* What is left of the tasks taken up, when t takes the place of one.
Displaced(t, held) == IF Busy(t) THEN taken ELSE taken \ {held}

\* poll has got a message: its prompt is sent to Pi, which may refuse it.
PollArrives(t) ==
  /\ t \in arriving /\ arriving' = arriving \ {t}
  /\ \/ /\ pendingTask' = t /\ prompts' = prompts + 1 /\ UNCHANGED faults
        /\ taken' = Displaced(t, pendingTask) \cup {t}
     \/ /\ Fails /\ pendingTask' = None /\ UNCHANGED prompts
        /\ taken' = Displaced(t, pendingTask)
  /\ PollEnds /\ PollIdle /\ UNCHANGED polling

\* poll has got nothing, or an error.
PollEmpty ==
  /\ polling > 0 /\ polling' = polling - 1
  /\ PollEnds /\ PollIdle /\ UNCHANGED <<arriving, pendingTask, prompts, taken, faults>>

\* The answer of a poll is lost with the message in it.
PollLost(t) ==
  /\ t \in arriving /\ arriving' = arriving \ {t} /\ Fails
  /\ PollEnds /\ PollIdle /\ UNCHANGED <<polling, pendingTask, prompts, taken>>

\* The input event of a prompt: the pending task, whichever prompt it was for,
\* becomes the current one.
Input ==
  /\ prompts > 0 /\ prompts' = prompts - 1
  /\ turns < MaxTurns /\ turns' = turns + 1
  /\ IF pendingTask = None THEN UNCHANGED <<taskVars, taken>>
     ELSE /\ currentTask' = pendingTask /\ pendingTask' = None
          /\ cancelNoticeSent' = FALSE /\ leaseLost' = FALSE
          /\ taken' = Displaced(pendingTask, currentTask)
  /\ UNCHANGED <<brokerVars, agent, pollVars, recovery, askVars, replyVars, faults>>

\* sendReply, up to its request: the reply is posted under the task's lease.
Posts(t) ==
  /\ reply' = [reply EXCEPT ![t] = "posted"]
  /\ posts' = [posts EXCEPT ![t] = @ + 1]

EndIdle ==
  UNCHANGED <<brokerVars, agent, pendingTask, cancelNoticeSent, leaseLost, pollVars,
              askVars, prompts, taken, faults>>

\* message_end, of the turn under way.
MessageEnd ==
  /\ turns > 0 /\ turns' = turns - 1
  /\ IF currentTask = None THEN UNCHANGED <<currentTask, recovery, replyVars>>
     ELSE currentTask' = None /\ recovery' = None /\ Posts(currentTask)
  /\ EndIdle

\* Mutant of MessageRecovers: the failure waits for Pi, however long.
MessageRecoversUntimed ==
  /\ turns > 0 /\ turns' \in {turns, turns - 1} /\ currentTask # None
  /\ UNCHANGED <<currentTask, recovery, replyVars>> /\ EndIdle

\* message_end with an error from which Pi recovers, or does not.
MessageRecovers ==
  /\ turns > 0 /\ turns' \in {turns, turns - 1}
  /\ currentTask # None /\ recovery' = currentTask
  /\ UNCHANGED <<currentTask, replyVars>> /\ EndIdle

\* Mutant of RecoveryFires: the deferred failure keeps the task.
RecoveryKeepsTask ==
  /\ recovery # None /\ recovery' = None
  /\ IF currentTask # recovery THEN UNCHANGED replyVars ELSE Posts(recovery)
  /\ UNCHANGED <<currentTask, turns>> /\ EndIdle

\* deferRecoverableFailure, when its timer fires.
RecoveryFires ==
  /\ recovery # None /\ recovery' = None
  /\ IF currentTask # recovery THEN UNCHANGED <<currentTask, replyVars>>
     ELSE currentTask' = None /\ Posts(recovery)
  /\ UNCHANGED turns /\ EndIdle

\* stopAfterOneshotReply: which workers are oneshot, and which messages are turns
\* of a talk, after which no worker stops, is left open.
Stops == agent' = "stopped" /\ timer' = FALSE /\ recovery' = None

\* Mutant of ReplyReturns: the next poll is scheduled by a reply that was sent.
ReplyReturnsSent(t) ==
  /\ reply[t] \in {"ok", "failed"} /\ reply' = [reply EXCEPT ![t] = "none"]
  /\ \/ reply[t] = "ok" /\ Stops
     \/ (IF reply[t] = "ok" THEN Schedule ELSE UNCHANGED timer) /\ UNCHANGED <<agent, recovery>>
  /\ UNCHANGED <<brokerVars, taskVars, polling, arriving, askVars, posts, prompts, turns,
                 taken, faults>>

\* sendReply goes on, whether it was answered or not: the next poll, or the end if
\* a oneshot worker of the supervisor has sent the reply to a task.
ReplyReturns(t) ==
  /\ reply[t] \in {"ok", "failed"} /\ reply' = [reply EXCEPT ![t] = "none"]
  /\ \/ reply[t] = "ok" /\ Stops
     \/ Schedule /\ UNCHANGED <<agent, recovery>>
  /\ UNCHANGED <<brokerVars, taskVars, polling, arriving, askVars, posts, prompts, turns,
                 taken, faults>>

AskIdle ==
  UNCHANGED <<brokerVars, agent, pendingTask, currentTask, pollVars, recovery,
              replyVars, prompts, taken, faults>>

\* A steering notice is taken within the turn under way, or becomes a turn.
Steers == turns' \in {turns} \cup (IF turns < MaxTurns THEN {turns + 1} ELSE {})

MoreAsks == Cardinality(checks) + Cardinality(renewals) < MaxAsks

\* checkCurrentTaskCancellation, of the timer or of a tool, up to its request.
CheckAsks ==
  /\ agent = "serving" /\ currentTask # None /\ ~cancelNoticeSent
  /\ MoreAsks /\ checks' = checks \cup {currentTask}
  /\ UNCHANGED <<renewals, cancelNoticeSent, leaseLost, turns>> /\ AskIdle

\* It goes on with what is the current task by then.
CheckReturns(t) ==
  /\ t \in checks /\ checks' = checks \ {t}
  /\ \/ UNCHANGED <<cancelNoticeSent, turns>>
     \/ /\ Over(t) /\ cancelNoticeSent' = TRUE
        /\ IF currentTask = None THEN UNCHANGED turns ELSE Steers
  /\ UNCHANGED <<renewals, leaseLost>> /\ AskIdle

\* renewJobLease, after the heartbeat posted activity and telemetry.
RenewAsks ==
  /\ agent = "serving" /\ currentTask # None /\ ~leaseLost
  /\ MoreAsks /\ renewals' = renewals \cup {currentTask}
  /\ UNCHANGED <<checks, cancelNoticeSent, leaseLost, turns>> /\ AskIdle

\* A 409 stops the current task, whichever that is by then.
RenewReturns(t) ==
  /\ t \in renewals /\ renewals' = renewals \ {t}
  /\ \/ UNCHANGED <<leaseLost, turns>>
     \/ t \notin mine /\ leaseLost' = TRUE /\ Steers
  /\ UNCHANGED <<checks, cancelNoticeSent>> /\ AskIdle

TaskStep(t) ==
  \/ Send(t) \/ Settle(t) \/ Reclaim(t) \/ Deliver(t) \/ SaveReply(t)
  \/ PollArrives(t) \/ PollLost(t) \/ ReplyReturns(t)
  \/ CheckReturns(t) \/ RenewReturns(t)

Next ==
  \/ \E t \in Tasks : TaskStep(t)
  \/ SessionStart \/ PollFires \/ PollEmpty \/ Input
  \/ MessageEnd \/ MessageRecovers \/ RecoveryFires \/ CheckAsks \/ RenewAsks

Spec == Init /\ [][Next]_vars

\* Timers fire, requests are answered or fail, and Pi takes its prompts and
\* ends its turns; nobody need send, cancel or reclaim anything.
FairSpec ==
  /\ Spec
  /\ WF_vars(SessionStart) /\ WF_vars(PollFires) /\ WF_vars(PollEmpty)
  /\ WF_vars(Input) /\ WF_vars(MessageEnd) /\ WF_vars(RecoveryFires)
  /\ WF_vars(\E t \in Tasks : PollArrives(t) \/ PollLost(t))
  /\ WF_vars(\E t \in Tasks : SaveReply(t)) /\ WF_vars(\E t \in Tasks : ReplyReturns(t))

-----------------------------------------------------------------------------
(* Properties *)

\* A task is answered once, whichever of the end of its turn, the deferred
\* failure, an abort and the turn of a notice comes first
\* (pi_extension_worker.py:635).
AnsweredOnce == \A t \in Tasks : posts[t] <= 1

\* Types, and no task answered twice.
AgentOK == TypeOK /\ AnsweredOnce

\* A task that the worker has is answered, or was settled by others meanwhile:
\* no prompt, notice or second poll makes it forget what it was working on, but
\* for a message that was over already when the answer of a poll brought it late.
\* A oneshot worker may have polled again before it stopped: what it got then is
\* settled with its session (pi_extension_worker.py:690).
HeldIsAnswered ==
  []<>\A t \in taken : posts[t] > 0 \/ ~Busy(t) \/ agent = "stopped"

\* Whatever fails, the worker comes back to the broker for more, unless it
\* stopped for good (pi_extension_worker.py:719).
KeepsPolling == []<>(agent = "stopped" \/ polling > 0)
=============================================================================
