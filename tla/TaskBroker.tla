----------------------------- MODULE TaskBroker -----------------------------
(***************************************************************************)
(* The task path of the orchlink broker: MemoryMessageStore (memory.py)    *)
(* with its work queue, job projector and session store.                   *)
(*                                                                         *)
(* Every store operation runs under one asyncio lock, so an operation is   *)
(* one action -- except where the code gives the lock up in the middle:    *)
(*   - a poll waits on the inbox queue outside the lock and retakes it to  *)
(*     deliver, so a message can be in the poller's hand (PollTake) while  *)
(*     other operations run (PollDeliver comes later);                     *)
(*   - a sender that waits for its reply sees its timer fire outside the   *)
(*     lock (TimerFires) and takes the lock to record it (TimeoutReply).   *)
(* Most operations start with the expiry sweep                             *)
(* _expire_timed_out_messages_locked.  Deadlines are wall-clock times the  *)
(* model does not have: a sweep is any number of ExpireSession and         *)
(* TimeoutMessage steps just before the operation, and a job lease lapses  *)
(* at any moment (LeaseLapses).                                            *)
(*                                                                         *)
(* Clients are those of the repository: every message has a fresh id and a *)
(* fresh correlation id (client/messages.py), workers always assert their  *)
(* session lease, and a worker reports on or replies to a message only     *)
(* after that message has been handed out.  Tasks come from the lead, one  *)
(* project is modelled, and Talk conversations are not in this module.     *)
(***************************************************************************)
EXTENDS Naturals, Sequences, JobLifecycle

CONSTANTS
  Workers,     \* agent ids of the workers
  Lead,        \* agent id of the lead, the sender of every task
  Msgs,        \* message ids, each sent at most once
  Tasks,       \* task ids, chosen by the sender: two messages may share one
  Leases,      \* session lease ids, one per connected process
  To,          \* To[m]: the worker message m is addressed to
  TaskOf,      \* TaskOf[m]: its task id
  AgentOf,     \* AgentOf[l]: the agent whose process holds session lease l
  MaxEpoch,    \* bound on the reclaims of one job, a bound of the model only
  RequirePeerSessions   \* ORCHLINK_REQUIRE_PEER_SESSIONS

Agents == Workers \cup {Lead}

ASSUME ConstantsOK ==
  /\ Lead \notin Workers
  /\ To \in [Msgs -> Workers]
  /\ TaskOf \in [Msgs -> Tasks]
  /\ AgentOf \in [Leases -> Agents]
  /\ MaxEpoch \in Nat \ {0}
  /\ RequirePeerSessions \in BOOLEAN

\* The poll states and the missing values are told apart from the ids.
ASSUME SentinelsOK ==
  /\ "idle" \notin Msgs /\ "waiting" \notin Msgs
  /\ "nobody" \notin Agents

VARIABLES
  msg,      \* active_messages: status of each message, NONE before it is sent
  job,      \* task_jobs: status of each task's job, NONE before it exists
  lease,    \* lease of each job, NoLease when it has none
  result,   \* results_by_task: status of the stored result, NONE without one
  inbox,    \* inboxes: queue of messages of each worker
  session,  \* sessions: NONE, ACTIVE or ENDED (released or expired)
  poll,     \* what each process's long poll is doing: idle, waiting, or
            \* holding a message it popped and has not delivered
  wait,     \* send-and-wait of each message: none, waiting (pending reply
            \* future) or expired (its timer fired, the lock not yet taken)
  taskWait  \* tasks some caller waits for in wait_for_task

vars == <<msg, job, lease, result, inbox, session, poll, wait, taskWait>>

-----------------------------------------------------------------------------
MessageStatus == {"NONE", "QUEUED", "DELIVERED", "RUNNING",
                  "DONE", "FAILED", "TIMEOUT", "CANCELLED"}
TerminalMessage == {"DONE", "FAILED", "TIMEOUT", "CANCELLED"}
LiveJob == {"QUEUED", "DELIVERED", "RUNNING"}

\* Mutant of FreshLease: the epoch is counted twice.
FreshLeaseSkipping(a, e) == [holder |-> a, epoch |-> e + 1, live |-> TRUE]

HeldLease == [holder : Workers, epoch : 1..MaxEpoch, live : BOOLEAN]
NoLease == [holder |-> "nobody", epoch |-> 0, live |-> FALSE]
FreshLease(a, e) == [holder |-> a, epoch |-> e, live |-> TRUE]
LapsedLease(a, e) == [holder |-> a, epoch |-> e, live |-> FALSE]

TypeOK ==
  /\ msg \in [Msgs -> MessageStatus]
  /\ job \in [Tasks -> JobStatus \cup {"NONE"}]
  /\ lease \in [Tasks -> HeldLease \cup {NoLease}]
  /\ result \in [Tasks -> TerminalMessage \cup {"NONE"}]
  /\ inbox \in [Workers -> Seq(Msgs)]
  /\ session \in [Leases -> {"NONE", "ACTIVE", "ENDED"}]
  /\ poll \in [Leases -> {"idle", "waiting"} \cup Msgs]
  /\ wait \in [Msgs -> {"none", "waiting", "expired"}]
  /\ taskWait \subseteq Tasks

Init ==
  /\ msg = [m \in Msgs |-> "NONE"]
  /\ job = [t \in Tasks |-> "NONE"]
  /\ lease = [t \in Tasks |-> NoLease]
  /\ result = [t \in Tasks |-> "NONE"]
  /\ inbox = [w \in Workers |-> <<>>]
  /\ session = [l \in Leases |-> "NONE"]
  /\ poll = [l \in Leases |-> "idle"]
  /\ wait = [m \in Msgs |-> "none"]
  /\ taskWait = {}

Busy(m) == msg[m] \in BusyMessageStatus
Known(m) == msg[m] \notin {"NONE", "QUEUED"}  \* a worker can have heard of it
TasksOf(S) == {TaskOf[m] : m \in S}

ActiveLeases(a) == {l \in Leases : AgentOf[l] = a /\ session[l] = "ACTIVE"}

\* Mutant of TargetFree: a worker that has started counts as free.
TargetFreeOnceStarted(w) ==
  /\ RequirePeerSessions => ActiveLeases(w) # {}
  /\ \A m \in Msgs : To[m] = w => msg[m] \notin {"QUEUED", "DELIVERED"}

\* assert_worker_target_free_locked, without the check of open conversations.
TargetFree(w) ==
  /\ RequirePeerSessions => ActiveLeases(w) # {}
  /\ \A m \in Msgs : To[m] = w => ~Busy(m)

\* assert_poll_lease_locked: anyone may poll for an agent without a session.
PollAllowed(l) == ActiveLeases(AgentOf[l]) = {} \/ session[l] = "ACTIVE"

\* Mutant of LeaseUnder: the lease survives the job.
LeaseKept(t, status) == lease[t]

\* A job that reaches a terminal status loses its lease (advance_job).
LeaseUnder(t, status) ==
  IF status \in CanonicalTerminal THEN NoLease ELSE lease[t]

\* transition_task_job_locked of one task, with nothing else to the job.
MoveJob(t, status) ==
  LET next == TransitionTo(job[t], status) IN
  /\ job' = [job EXCEPT ![t] = next]
  /\ lease' = [lease EXCEPT ![t] = LeaseUnder(t, next)]

\* Mutant of Answer: the reply future is never resolved.
AnswerNobody(S) == wait

\* The senders whose reply future is resolved when the messages of S are
\* replied to or settled; a future cancelled by its timer stays cancelled.
Answer(S) == [m \in Msgs |-> IF m \in S /\ wait[m] = "waiting" THEN "none" ELSE wait[m]]

-----------------------------------------------------------------------------
(* Sending *)

QueuedFrom(t) == IF job[t] = "NONE" THEN "CREATED" ELSE job[t]

\* enqueue_message: w is create_waiter, set by send-and-wait.
Enqueue(m, w) ==
  LET t == TaskOf[m] IN
  /\ msg[m] = "NONE"
  /\ TargetFree(To[m])
  /\ ~TransitionRaises(QueuedFrom(t), "QUEUED")
  /\ msg' = [msg EXCEPT ![m] = "QUEUED"]
  /\ job' = [job EXCEPT ![t] = TransitionTo(QueuedFrom(t), "QUEUED")]
  /\ inbox' = [inbox EXCEPT ![To[m]] = Append(@, m)]
  /\ wait' = IF w THEN [wait EXCEPT ![m] = "waiting"] ELSE wait
  /\ UNCHANGED <<lease, result, session, poll, taskWait>>

\* The same when the task's job is already past the queue: the projection
\* raises after the message was stored and before it is put in the inbox.
EnqueueRaises(m) ==
  /\ msg[m] = "NONE"
  /\ TargetFree(To[m])
  /\ TransitionRaises(QueuedFrom(TaskOf[m]), "QUEUED")
  /\ msg' = [msg EXCEPT ![m] = "QUEUED"]
  /\ UNCHANGED <<job, lease, result, inbox, session, poll, wait, taskWait>>

-----------------------------------------------------------------------------
(* Long polls: get_next_message *)

PollBegin(l) ==
  /\ poll[l] = "idle"
  /\ PollAllowed(l)
  /\ poll' = [poll EXCEPT ![l] = "waiting"]
  /\ UNCHANGED <<msg, job, lease, result, inbox, session, wait, taskWait>>

PollEmpty(l) ==
  /\ poll[l] = "waiting"
  /\ poll' = [poll EXCEPT ![l] = "idle"]
  /\ UNCHANGED <<msg, job, lease, result, inbox, session, wait, taskWait>>

\* Mutant of PollTake: the message is read and left in the inbox.
PollPeek(l) ==
  LET a == AgentOf[l] IN
  /\ poll[l] = "waiting"
  /\ a \in Workers
  /\ inbox[a] # <<>>
  /\ poll' = [poll EXCEPT ![l] = Head(inbox[a])]
  /\ UNCHANGED <<msg, job, lease, result, inbox, session, wait, taskWait>>

\* inbox.get() returns, outside the lock.
PollTake(l) ==
  LET a == AgentOf[l] IN
  /\ poll[l] = "waiting"
  /\ a \in Workers
  /\ inbox[a] # <<>>
  /\ poll' = [poll EXCEPT ![l] = Head(inbox[a])]
  /\ inbox' = [inbox EXCEPT ![a] = Tail(@)]
  /\ UNCHANGED <<msg, job, lease, result, session, wait, taskWait>>

\* deliver_message_locked of a message still active: the worker gets it and
\* its job a lease, unless it has one.
Deliver(l, m) ==
  LET t == TaskOf[m]
      next == TransitionTo(job[t], "DELIVERED")
  IN
  /\ ~TransitionRaises(job[t], "DELIVERED")
  /\ msg' = [msg EXCEPT ![m] = "DELIVERED"]
  /\ job' = [job EXCEPT ![t] = next]
  /\ lease' = [lease EXCEPT ![t] =
                 IF next = "DELIVERED" /\ @ = NoLease THEN FreshLease(To[m], 1) ELSE @]
  /\ poll' = [poll EXCEPT ![l] = "idle"]
  /\ UNCHANGED <<result, inbox, session, wait, taskWait>>

PollDeliver(l) ==
  /\ poll[l] \in Msgs
  /\ PollAllowed(l)
  /\ msg[poll[l]] \notin TerminalMessage
  /\ Deliver(l, poll[l])

\* The job refuses DELIVERED: the message has been marked, the request fails.
PollDeliverRaises(l) ==
  /\ poll[l] \in Msgs
  /\ PollAllowed(l)
  /\ msg[poll[l]] \notin TerminalMessage
  /\ TransitionRaises(job[TaskOf[poll[l]]], "DELIVERED")
  /\ msg' = [msg EXCEPT ![poll[l]] = "DELIVERED"]
  /\ poll' = [poll EXCEPT ![l] = "idle"]
  /\ UNCHANGED <<job, lease, result, inbox, session, wait, taskWait>>

\* Settled while in hand: the poll skips it and waits on, or gives up.
PollSkip(l) ==
  /\ poll[l] \in Msgs
  /\ PollAllowed(l)
  /\ msg[poll[l]] \in TerminalMessage
  /\ \E next \in {"idle", "waiting"} : poll' = [poll EXCEPT ![l] = next]
  /\ UNCHANGED <<msg, job, lease, result, inbox, session, wait, taskWait>>

\* The agent's session changed hands since the poll began: the request fails
\* and the message it had popped is in no queue any more.
PollConflict(l) ==
  /\ poll[l] \in Msgs
  /\ ~PollAllowed(l)
  /\ poll' = [poll EXCEPT ![l] = "idle"]
  /\ UNCHANGED <<msg, job, lease, result, inbox, session, wait, taskWait>>

-----------------------------------------------------------------------------
(* Progress and replies *)

StartRunning(m) ==
  /\ Known(m)
  /\ Busy(m)
  /\ ~TransitionRaises(job[TaskOf[m]], "RUNNING")
  /\ msg' = [msg EXCEPT ![m] = "RUNNING"]
  /\ MoveJob(TaskOf[m], "RUNNING")
  /\ UNCHANGED <<result, inbox, session, poll, wait, taskWait>>

\* update_message_status (the route accepts RUNNING only): the session of the
\* addressee.
MarkRunning(m, l) ==
  /\ session[l] = "ACTIVE"
  /\ AgentOf[l] = To[m]
  /\ StartRunning(m)

\* record_activity: the session of whoever reports, addressee or not.
RecordActivity(m, l) ==
  /\ session[l] = "ACTIVE"
  /\ StartRunning(m)

\* save_reply_locked.  e is the job lease epoch the reply asserts, 0 for none;
\* a job without a lease accepts any epoch.  A reply to a message that timed
\* out or was cancelled is ignored.
Reply(m, l, e, status) ==
  LET t == TaskOf[m]
  IN
  /\ Known(m)
  /\ session[l] = "ACTIVE"
  /\ e # 0 /\ lease[t] # NoLease =>
       lease[t].holder = AgentOf[l] /\ lease[t].epoch = e
  /\ msg[m] \notin {"TIMEOUT", "CANCELLED"}
  /\ msg' = [msg EXCEPT ![m] = status]
  /\ MoveJob(t, status)
  /\ result' = [result EXCEPT ![t] = status]
  /\ taskWait' = taskWait \ {t}
  /\ wait' = Answer({m})
  /\ UNCHANGED <<inbox, session, poll>>

ReplyAny(m, l) ==
  \E e \in 0..MaxEpoch, wire \in {"DONE", "FAILED"} : Reply(m, l, e, ReplyJobStatus(wire))

-----------------------------------------------------------------------------
(* Settling: timeouts, cancellation, the end of a session *)

\* What the three do to each message of S in turn: mark it, settle its job,
\* store a result (which releases the task's waiters), answer the sender.
Settle(S, status) ==
  LET settled == TasksOf(S)
      next(t) == IF t \in settled THEN TransitionTo(job[t], status) ELSE job[t]
  IN
  /\ msg' = [m \in Msgs |-> IF m \in S THEN status ELSE msg[m]]
  /\ job' = [t \in Tasks |-> next(t)]
  /\ lease' = [t \in Tasks |-> LeaseUnder(t, next(t))]
  /\ result' = [t \in Tasks |-> IF t \in settled THEN status ELSE result[t]]
  /\ taskWait' = taskWait \ settled
  /\ wait' = Answer(S)

\* Mutant of TimeoutMessage: only queued work expires.
TimeoutQueuedOnly(m) ==
  /\ msg[m] = "QUEUED"
  /\ Settle({m}, "TIMEOUT")
  /\ UNCHANGED <<inbox, session, poll>>

\* _expire_timed_out_messages_locked reaches a message past its timeout.
TimeoutMessage(m) ==
  /\ Busy(m)
  /\ Settle({m}, "TIMEOUT")
  /\ UNCHANGED <<inbox, session, poll>>

\* cancel_work_locked: the item is a message id or a task id.
CancelWork(item) ==
  LET targets == {m \in Msgs : Busy(m) /\ (m = item \/ TaskOf[m] = item)} IN
  /\ targets # {}
  /\ Settle(targets, "CANCELLED")
  /\ UNCHANGED <<inbox, session, poll>>

\* acquire_session_locked: one active session per agent; a lease id that was
\* used before is taken up again.
AcquireSession(l) ==
  /\ session[l] # "ACTIVE"
  /\ ActiveLeases(AgentOf[l]) = {}
  /\ session' = [session EXCEPT ![l] = "ACTIVE"]
  /\ UNCHANGED <<msg, job, lease, result, inbox, poll, wait, taskWait>>

\* Mutant of BusyWorkOf: only work the worker has received is settled.
DeliveredWorkOf(a) == {m \in Msgs : msg[m] \in {"DELIVERED", "RUNNING"} /\ a \in {To[m], Lead}}

BusyWorkOf(a) == {m \in Msgs : Busy(m) /\ a \in {To[m], Lead}}

\* Ending a session settles the busy work sent by or to its agent
\* (_settle_work_for_offline_agent_locked).
EndSession(l) ==
  /\ session[l] = "ACTIVE"
  /\ session' = [session EXCEPT ![l] = "ENDED"]
  /\ Settle(BusyWorkOf(AgentOf[l]), "CANCELLED")
  /\ UNCHANGED <<inbox, poll>>

ReleaseSession(l) == EndSession(l)  \* the process says goodbye
ExpireSession(l) == EndSession(l)   \* its heartbeats stayed out too long

-----------------------------------------------------------------------------
(* Waiting *)

\* asyncio.wait_for gives up on the reply and cancels its future.
TimerFires(m) ==
  /\ wait[m] = "waiting"
  /\ wait' = [wait EXCEPT ![m] = "expired"]
  /\ UNCHANGED <<msg, job, lease, result, inbox, session, poll, taskWait>>

\* timeout_reply_locked marks the message whatever became of it meanwhile,
\* and stores no result.
TimeoutReply(m) ==
  /\ wait[m] = "expired"
  /\ wait' = [wait EXCEPT ![m] = "none"]
  /\ msg' = [msg EXCEPT ![m] = "TIMEOUT"]
  /\ MoveJob(TaskOf[m], "TIMEOUT")
  /\ UNCHANGED <<result, inbox, session, poll, taskWait>>

\* Mutant of WaitForTask: the stored result is not looked up.
WaitForTaskAlways(t) ==
  /\ job[t] # "NONE"
  /\ taskWait' = taskWait \cup {t}
  /\ UNCHANGED <<msg, job, lease, result, inbox, session, poll, wait>>

\* prepare_task_wait_locked: a stored result is returned at once.
WaitForTask(t) ==
  /\ job[t] # "NONE"
  /\ result[t] = "NONE"
  /\ taskWait' = taskWait \cup {t}
  /\ UNCHANGED <<msg, job, lease, result, inbox, session, poll, wait>>

TaskWaitExpires(t) ==
  /\ t \in taskWait
  /\ taskWait' = taskWait \ {t}
  /\ UNCHANGED <<msg, job, lease, result, inbox, session, poll, wait>>

-----------------------------------------------------------------------------
(* Job leases *)

LeaseLapses(t) ==
  /\ lease[t].live
  /\ lease' = [lease EXCEPT ![t] = LapsedLease(@.holder, @.epoch)]
  /\ UNCHANGED <<msg, job, result, inbox, session, poll, wait, taskWait>>

\* heartbeat_job_locked renews a lapsed lease too, until it is reclaimed.
HeartbeatJob(t, a, e) ==
  /\ lease[t] # NoLease
  /\ lease[t].holder = a /\ lease[t].epoch = e
  /\ lease' = [lease EXCEPT ![t] = FreshLease(a, e)]
  /\ UNCHANGED <<msg, job, result, inbox, session, poll, wait, taskWait>>

\* Mutant of Reclaimable: a lease still held is taken.
ReclaimableAlways(t) == lease[t] # NoLease /\ CanTransition(job[t], "RECLAIMABLE")

Reclaimable(t) ==
  /\ lease[t] # NoLease
  /\ ~lease[t].live
  /\ CanTransition(job[t], "RECLAIMABLE")

\* reclaim_job_locked: any agent may take over a lapsed lease; the job passes
\* through RECLAIMABLE within the step.
ReclaimJob(t, a) ==
  /\ Reclaimable(t)
  /\ lease[t].epoch < MaxEpoch
  /\ lease' = [lease EXCEPT ![t] = FreshLease(a, @.epoch + 1)]
  /\ job' = [job EXCEPT ![t] = "RUNNING"]
  /\ UNCHANGED <<msg, result, inbox, session, poll, wait, taskWait>>

-----------------------------------------------------------------------------
SenderStep == \E m \in Msgs : \/ \E w \in BOOLEAN : Enqueue(m, w)
                              \/ EnqueueRaises(m)
PollStep == \E l \in Leases :
              \/ PollBegin(l) \/ PollEmpty(l) \/ PollTake(l) \/ PollDeliver(l)
              \/ PollDeliverRaises(l) \/ PollSkip(l) \/ PollConflict(l)
WorkerStep == \E m \in Msgs, l \in Leases :
              MarkRunning(m, l) \/ RecordActivity(m, l) \/ ReplyAny(m, l)
SettleStep == \/ \E m \in Msgs : TimeoutMessage(m)
              \/ \E item \in Msgs \cup Tasks : CancelWork(item)
SessionStep == \E l \in Leases :
              AcquireSession(l) \/ ReleaseSession(l) \/ ExpireSession(l)
WaitStep == \/ \E m \in Msgs : TimerFires(m) \/ TimeoutReply(m)
            \/ \E t \in Tasks : WaitForTask(t) \/ TaskWaitExpires(t)
LeaseStep == \E t \in Tasks :
              \/ LeaseLapses(t)
              \/ \E a \in Workers : ReclaimJob(t, a) \/ \E e \in 1..MaxEpoch : HeartbeatJob(t, a, e)

Next == SenderStep \/ PollStep \/ WorkerStep \/ SettleStep \/ SessionStep
          \/ WaitStep \/ LeaseStep

Spec == Init /\ [][Next]_vars

\* Every message carries a positive timeout, and the sweep that enforces it
\* runs at the head of every request, the heartbeats of live processes
\* included: a message past its timeout is eventually settled.  A fired timer's
\* continuation eventually gets the lock.
Fairness == \A m \in Msgs : WF_vars(TimeoutMessage(m)) /\ WF_vars(TimeoutReply(m))

FairSpec == Spec /\ Fairness

-----------------------------------------------------------------------------
(* Properties *)

\* A worker never has two pieces of unfinished work: neither a poll that took
\* a message, nor a failing enqueue, nor a settled one that comes back opens
\* the worker twice (assert_worker_target_free_locked and every operation
\* that writes a message's status).
OneTaskPerWorker ==
  \A m, n \in Msgs : Busy(m) /\ Busy(n) /\ To[m] = To[n] => m = n

\* The places a message can still be delivered from.
QueuedIn(m) == {w \in Workers : \E i \in 1..Len(inbox[w]) : inbox[w][i] = m}
HeldBy(m) == {l \in Leases : poll[l] = m}

\* No message is handed out twice: it is in one place at most, its worker's
\* inbox or one poll's hand, once, and in none when it has been delivered
\* (get_next_message, although it pops outside the lock).
DeliveredAtMostOnce ==
  \A m \in Msgs :
    /\ QueuedIn(m) = {} \/ HeldBy(m) = {}
    /\ QueuedIn(m) \subseteq {To[m]}
    /\ \A k, l \in HeldBy(m) : k = l
    /\ \A i, j \in 1..Len(inbox[To[m]]) :
         inbox[To[m]][i] = m /\ inbox[To[m]][j] = m => i = j
    /\ msg[m] \in {"NONE", "DELIVERED", "RUNNING"} => QueuedIn(m) \cup HeldBy(m) = {}

\* Exactly the jobs a worker is on have a lease, so that a lost worker's job
\* can be reclaimed and a queued or finished one cannot (upsert_task_locked
\* acquires it, advance_job clears it, many operations pass between).
LeasedIffBeingWorked ==
  \A t \in Tasks : lease[t] # NoLease <=> job[t] \in {"DELIVERED", "RUNNING"}

\* An unfinished job always has an unfinished message behind it, so that the
\* timeout of some message will finish it, even when a task id is reused and
\* operations on its messages fail halfway.
NoOrphanJob ==
  \A t \in Tasks : job[t] \in LiveJob => \E m \in Msgs : TaskOf[m] = t /\ Busy(m)

\* What a worker is on can be recovered, and what nobody is on will be finished,
\* over reused task ids, failed requests, lapsed leases and lost workers.
WorkAccounted == LeasedIffBeingWorked /\ NoOrphanJob

\* With peer sessions required no work is pending for a worker that is not
\* connected (the enqueue check and the settling of an ended session).
NoWorkForOfflineWorker ==
  RequirePeerSessions => \A m \in Msgs : Busy(m) => ActiveLeases(To[m]) # {}

\* A sender left waiting always has a message that can still answer it: every
\* way to settle a message answers its sender.
NoSenderForgotten == \A m \in Msgs : wait[m] = "waiting" => Busy(m)

\* The end of a session, and every other way to settle work, leaves neither a
\* worker nor a sender behind (_settle_work_for_offline_agent_locked).
NobodyLeftBehind == NoWorkForOfflineWorker /\ NoSenderForgotten

\* Nobody waits for a task whose result is stored, and results are stored
\* only of finished jobs (store_task_result_locked and its three callers).
ResultsReachWaiters ==
  \A t \in Tasks : result[t] # "NONE" => t \notin taskWait /\ job[t] \in CanonicalTerminal

\* A job that finished never moves again, although its messages may
\* (ALLOWED_JOB_TRANSITIONS and the terminal case of transition).
FinishedJobStays ==
  [][\A t \in Tasks : job[t] \in CanonicalTerminal => job'[t] = job[t]]_vars

\* A settled message is never busy again, and only two things still rewrite
\* it: another reply, or the continuation of a sender's fired timer.
SettledMessageStays ==
  [][\A m \in Msgs : msg[m] \in TerminalMessage =>
       \/ msg'[m] = msg[m]
       \/ msg[m] \in {"DONE", "FAILED"} /\ msg'[m] \in {"DONE", "FAILED"}
       \/ wait[m] = "expired" /\ msg'[m] = "TIMEOUT"]_vars

\* Nothing that is over begins again: late polls, replies, timers and reused
\* task ids find it as it is.
NothingComesBack == FinishedJobStays /\ SettledMessageStays

\* A lease is acquired at epoch 1 by the addressee of a queued job, changes
\* holder only when it had lapsed and then at the next epoch, and ends only
\* with the job (new_job_lease, renew, reclaim, advance_job).
LeaseDiscipline ==
  [][\A t \in Tasks : lease'[t] # lease[t] =>
       \/ /\ job[t] = "QUEUED" /\ job'[t] = "DELIVERED"
          /\ \E m \in Msgs : TaskOf[m] = t /\ lease'[t] = FreshLease(To[m], 1)
       \/ /\ lease'[t].holder = lease[t].holder /\ lease'[t].epoch = lease[t].epoch
          /\ lease[t] # NoLease
       \/ /\ ~lease[t].live /\ lease'[t].live
          /\ lease'[t].epoch = lease[t].epoch + 1
          /\ job'[t] = "RUNNING"
       \/ lease'[t] = NoLease /\ job'[t] \in CanonicalTerminal]_vars

\* Each worker is a slot that holds one piece of work and is freed in the end,
\* even by work lost between the inbox and its worker or stored by an enqueue
\* that failed.
Slots == INSTANCE WorkerSlots WITH
           open <- {m \in Msgs : Busy(m)},
           closed <- {m \in Msgs : msg[m] \in TerminalMessage}

\* The task broker implements the worker slots: nothing reopens settled work,
\* no worker is held twice, and none is held for ever.
ImplementsSlots == Slots!LiveSpec

\* Every sender that waits for a reply is answered.
SendersAnswered == \A m \in Msgs : wait[m] # "none" ~> wait[m] = "none"
=============================================================================
