-------------------------- MODULE TaskBrokerProofs --------------------------
(***************************************************************************)
(* Proofs about TaskBroker for any number of workers, messages, tasks and  *)
(* processes: its type invariant, the inductive invariant IInv behind its  *)
(* safety properties, and that it implements WorkerSlots.                  *)
(***************************************************************************)
EXTENDS TaskBroker, JobLifecycleProofs, TLAPS

USE ConstantsOK, SentinelsOK

-----------------------------------------------------------------------------
(* The inductive invariant *)

\* What the statuses of messages and jobs have to do with each other.  A job
\* follows its messages: it exists once one was sent, and it has left the queue
\* once one was handed out, which is what keeps a report of progress or a reply
\* from moving a job that was never leased.
JobsFollowMessages ==
  /\ \A t \in Tasks : job[t] \in {"NONE"} \cup LiveJob \cup TerminalMessage
  /\ \A m \in Msgs : msg[m] # "NONE" => job[TaskOf[m]] # "NONE"
  /\ \A m \in Msgs : Known(m) => job[TaskOf[m]] # "QUEUED"

\* Only messages that were sent travel or are waited for.
OnlySentTravels ==
  /\ \A w \in Workers : \A i \in 1..Len(inbox[w]) : msg[inbox[w][i]] # "NONE"
  /\ \A l \in Leases : poll[l] \in Msgs => msg[poll[l]] # "NONE"
  /\ \A m \in Msgs : wait[m] # "none" => msg[m] # "NONE"

IInv ==
  /\ TypeOK
  /\ JobsFollowMessages
  /\ OnlySentTravels
  /\ OneTaskPerWorker
  /\ LeasedIffBeingWorked
  /\ NoOrphanJob
  /\ NoSenderForgotten
  /\ ResultsReachWaiters
  /\ NoWorkForOfflineWorker

-----------------------------------------------------------------------------
(* Types *)

LEMMA LeaseTypes ==
  /\ \A a \in Workers, e \in 1..MaxEpoch :
       FreshLease(a, e) \in HeldLease /\ LapsedLease(a, e) \in HeldLease
  /\ NoLease \notin HeldLease
BY DEF HeldLease, NoLease, FreshLease, LapsedLease, Agents

LEMMA TransitionType ==
  ASSUME NEW s \in JobStatus \cup {"NONE"}, NEW t \in MessageStatus \ {"NONE"}
  PROVE  TransitionTo(s, t) \in JobStatus \cup {"NONE"}
BY TransitionChoice DEF MessageStatus, JobStatus

LEMMA MoveJobType ==
  ASSUME TypeOK, NEW t \in Tasks, NEW s \in MessageStatus \ {"NONE"}, MoveJob(t, s)
  PROVE  /\ job' \in [Tasks -> JobStatus \cup {"NONE"}]
         /\ lease' \in [Tasks -> HeldLease \cup {NoLease}]
<1>1. TransitionTo(job[t], s) \in JobStatus \cup {"NONE"}
  BY TransitionType DEF TypeOK
<1>2. LeaseUnder(t, TransitionTo(job[t], s)) \in HeldLease \cup {NoLease}
  BY LeaseTypes DEF LeaseUnder, TypeOK
<1> QED
  BY <1>1, <1>2 DEF MoveJob, TypeOK

LEMMA AnswerType ==
  ASSUME TypeOK, NEW S PROVE Answer(S) \in [Msgs -> {"none", "waiting", "expired"}]
BY DEF Answer, TypeOK

\* Settling any messages keeps the types of everything it touches.
LEMMA SettleType ==
  ASSUME TypeOK, NEW S \in SUBSET Msgs, NEW s \in {"TIMEOUT", "CANCELLED"}, Settle(S, s)
  PROVE  /\ msg' \in [Msgs -> MessageStatus]
         /\ job' \in [Tasks -> JobStatus \cup {"NONE"}]
         /\ lease' \in [Tasks -> HeldLease \cup {NoLease}]
         /\ result' \in [Tasks -> TerminalMessage \cup {"NONE"}]
         /\ wait' \in [Msgs -> {"none", "waiting", "expired"}]
         /\ taskWait' \subseteq Tasks
<1> DEFINE next(t) == IF t \in TasksOf(S) THEN TransitionTo(job[t], s) ELSE job[t]
<1>1. s \in MessageStatus \ {"NONE"} /\ s \in TerminalMessage
  BY DEF MessageStatus, TerminalMessage
<1>2. ASSUME NEW t \in Tasks PROVE next(t) \in JobStatus \cup {"NONE"}
  BY <1>1, TransitionType DEF TypeOK
<1>3. ASSUME NEW t \in Tasks PROVE LeaseUnder(t, next(t)) \in HeldLease \cup {NoLease}
  BY LeaseTypes DEF LeaseUnder, TypeOK
<1>4. job' = [t \in Tasks |-> next(t)] /\ lease' = [t \in Tasks |-> LeaseUnder(t, next(t))]
  BY DEF Settle
<1>5. job' \in [Tasks -> JobStatus \cup {"NONE"}] /\ lease' \in [Tasks -> HeldLease \cup {NoLease}]
  <2> HIDE DEF next
  <2> QED BY <1>2, <1>3, <1>4
<1> QED
  BY <1>1, <1>5, AnswerType DEF Settle, TypeOK

LEMMA QueueType ==
  ASSUME NEW q \in Seq(Msgs)
  PROVE  /\ \A m \in Msgs : Append(q, m) \in Seq(Msgs)
         /\ q # <<>> => Head(q) \in Msgs /\ Tail(q) \in Seq(Msgs)
OBVIOUS

LEMMA TypeInit == Init => TypeOK
BY LeaseTypes DEF Init, TypeOK, MessageStatus

LEMMA TypeStep == TypeOK /\ [Next]_vars => TypeOK'
<1> SUFFICES ASSUME TypeOK, [Next]_vars PROVE TypeOK'
  OBVIOUS
<1> USE DEF TypeOK
<1>1. ASSUME NEW m \in Msgs, NEW w \in BOOLEAN, Enqueue(m, w) PROVE TypeOK'
  <2>1. QueuedFrom(TaskOf[m]) \in JobStatus
    BY DEF QueuedFrom, JobStatus
  <2>2. TransitionTo(QueuedFrom(TaskOf[m]), "QUEUED") \in JobStatus
    BY <2>1, TransitionChoice DEF JobStatus
  <2>3. Append(inbox[To[m]], m) \in Seq(Msgs)
    BY QueueType
  <2> QED BY <1>1, <2>2, <2>3 DEF Enqueue, MessageStatus
<1>2. ASSUME NEW m \in Msgs, EnqueueRaises(m) PROVE TypeOK'
  BY <1>2 DEF EnqueueRaises, MessageStatus
<1>3. ASSUME NEW l \in Leases, PollBegin(l) \/ PollEmpty(l) PROVE TypeOK'
  BY <1>3 DEF PollBegin, PollEmpty
<1>4. ASSUME NEW l \in Leases, PollTake(l) PROVE TypeOK'
  <2>1. AgentOf[l] \in Workers /\ inbox[AgentOf[l]] # <<>>
    BY <1>4 DEF PollTake
  <2>2. Head(inbox[AgentOf[l]]) \in Msgs /\ Tail(inbox[AgentOf[l]]) \in Seq(Msgs)
    BY <2>1, QueueType
  <2> QED BY <1>4, <2>1, <2>2 DEF PollTake
<1>5. ASSUME NEW l \in Leases, PollDeliver(l) PROVE TypeOK'
  <2> DEFINE m == poll[l]  t == TaskOf[m]  next == TransitionTo(job[t], "DELIVERED")
  <2>1. m \in Msgs /\ t \in Tasks /\ Deliver(l, m)
    BY <1>5 DEF PollDeliver
  <2>2. next \in JobStatus \cup {"NONE"}
    BY <2>1, TransitionType DEF MessageStatus
  <2>3. FreshLease(To[m], 1) \in HeldLease \cup {NoLease}
    BY <2>1, LeaseTypes
  <2> QED
    BY <2>1, <2>2, <2>3 DEF Deliver, MessageStatus
<1>6. ASSUME NEW l \in Leases, PollDeliverRaises(l) PROVE TypeOK'
  BY <1>6 DEF PollDeliverRaises, MessageStatus
<1>7. ASSUME NEW l \in Leases, PollSkip(l) \/ PollConflict(l) PROVE TypeOK'
  <2>1. \E next \in {"idle", "waiting"} : poll' = [poll EXCEPT ![l] = next]
    BY <1>7 DEF PollSkip, PollConflict
  <2>2. UNCHANGED <<msg, job, lease, result, inbox, session, wait, taskWait>>
    BY <1>7 DEF PollSkip, PollConflict
  <2> QED BY <2>1, <2>2
<1>8. ASSUME NEW m \in Msgs, StartRunning(m) PROVE TypeOK'
  <2>1. TaskOf[m] \in Tasks /\ "RUNNING" \in MessageStatus \ {"NONE"}
    BY DEF MessageStatus
  <2>2. job' \in [Tasks -> JobStatus \cup {"NONE"}] /\ lease' \in [Tasks -> HeldLease \cup {NoLease}]
    BY <1>8, <2>1, MoveJobType DEF StartRunning
  <2> QED BY <1>8, <2>1, <2>2 DEF StartRunning
<1>9. ASSUME NEW m \in Msgs, NEW l \in Leases, NEW e \in 0..MaxEpoch,
             NEW s \in {"DONE", "FAILED"}, Reply(m, l, e, s)
      PROVE  TypeOK'
  <2>1. TaskOf[m] \in Tasks /\ s \in MessageStatus \ {"NONE"} /\ s \in TerminalMessage
    BY DEF MessageStatus, TerminalMessage
  <2>2. job' \in [Tasks -> JobStatus \cup {"NONE"}] /\ lease' \in [Tasks -> HeldLease \cup {NoLease}]
    BY <1>9, <2>1, MoveJobType DEF Reply
  <2> QED BY <1>9, <2>1, <2>2, AnswerType DEF Reply
<1>10. ASSUME NEW m \in Msgs, TimeoutMessage(m) PROVE TypeOK'
  BY <1>10, SettleType DEF TimeoutMessage
<1>11. ASSUME NEW item, CancelWork(item) PROVE TypeOK'
  BY <1>11, SettleType DEF CancelWork
<1>12. ASSUME NEW l \in Leases, AcquireSession(l) PROVE TypeOK'
  BY <1>12 DEF AcquireSession
<1>13. ASSUME NEW l \in Leases, EndSession(l) PROVE TypeOK'
  BY <1>13, SettleType DEF EndSession, BusyWorkOf
<1>14. ASSUME NEW m \in Msgs, TimerFires(m) PROVE TypeOK'
  BY <1>14 DEF TimerFires
<1>15. ASSUME NEW m \in Msgs, TimeoutReply(m) PROVE TypeOK'
  <2>1. TaskOf[m] \in Tasks /\ "TIMEOUT" \in MessageStatus \ {"NONE"}
    BY DEF MessageStatus
  <2>2. job' \in [Tasks -> JobStatus \cup {"NONE"}] /\ lease' \in [Tasks -> HeldLease \cup {NoLease}]
    BY <1>15, <2>1, MoveJobType DEF TimeoutReply
  <2> QED BY <1>15, <2>1, <2>2 DEF TimeoutReply
<1>16. ASSUME NEW t \in Tasks, WaitForTask(t) \/ TaskWaitExpires(t) PROVE TypeOK'
  BY <1>16 DEF WaitForTask, TaskWaitExpires
<1>17. ASSUME NEW t \in Tasks, LeaseLapses(t) PROVE TypeOK'
  <2>1. lease[t] \in HeldLease
    BY <1>17 DEF LeaseLapses, NoLease
  <2>2. LapsedLease(lease[t].holder, lease[t].epoch) \in HeldLease
    BY <2>1, LeaseTypes DEF HeldLease
  <2> QED BY <1>17, <2>2 DEF LeaseLapses
<1>18. ASSUME NEW t \in Tasks, NEW a \in Workers, NEW e \in 1..MaxEpoch, HeartbeatJob(t, a, e)
       PROVE  TypeOK'
  <2>1. FreshLease(a, e) \in HeldLease
    BY LeaseTypes
  <2> QED BY <1>18, <2>1 DEF HeartbeatJob
<1>19. ASSUME NEW t \in Tasks, NEW a \in Workers, ReclaimJob(t, a) PROVE TypeOK'
  <2>1. lease[t] \in HeldLease
    BY <1>19 DEF ReclaimJob, Reclaimable
  <2>2. lease[t].epoch + 1 \in 1..MaxEpoch
    BY <1>19, <2>1 DEF ReclaimJob, HeldLease
  <2>3. FreshLease(a, lease[t].epoch + 1) \in HeldLease
    BY <2>2, LeaseTypes
  <2> QED BY <1>19, <2>3 DEF ReclaimJob, JobStatus
<1>20. CASE UNCHANGED vars
  BY <1>20 DEF vars
<1> QED
  BY <1>1, <1>2, <1>3, <1>4, <1>5, <1>6, <1>7, <1>8, <1>9, <1>10, <1>11, <1>12,
     <1>13, <1>14, <1>15, <1>16, <1>17, <1>18, <1>19, <1>20
  DEF Next, SenderStep, PollStep, WorkerStep, SettleStep, SessionStep, WaitStep, LeaseStep,
      MarkRunning, RecordActivity, ReplyAny, ReplyJobStatus, ReleaseSession, ExpireSession

\* Every variable keeps its type (the state of MemoryMessageStore).
THEOREM TypeCorrect == Spec => []TypeOK
BY TypeInit, TypeStep, PTL DEF Spec

-----------------------------------------------------------------------------
(* The inductive invariant: one lemma per operation *)

LEMMA InvInit == Init => IInv
<1> SUFFICES ASSUME Init PROVE IInv
  OBVIOUS
<1>1. TypeOK
  BY TypeInit
<1>2. JobsFollowMessages /\ OnlySentTravels
  BY DEF Init, JobsFollowMessages, OnlySentTravels, Known
<1>3. OneTaskPerWorker /\ LeasedIffBeingWorked /\ NoOrphanJob
  BY DEF Init, OneTaskPerWorker, LeasedIffBeingWorked, NoOrphanJob, Busy,
         BusyMessageStatus, NoLease, LiveJob
<1>4. NoSenderForgotten /\ ResultsReachWaiters /\ NoWorkForOfflineWorker
  BY DEF Init, NoSenderForgotten, ResultsReachWaiters, NoWorkForOfflineWorker, Busy,
         BusyMessageStatus
<1> QED
  BY <1>1, <1>2, <1>3, <1>4 DEF IInv

\* The parts of IInv about messages, jobs and leases survive a step that
\* leaves all three alone.
LEMMA QuietKeeps ==
  ASSUME IInv, UNCHANGED <<msg, job, lease>>
  PROVE  JobsFollowMessages' /\ OneTaskPerWorker' /\ LeasedIffBeingWorked' /\ NoOrphanJob'
<1>1. JobsFollowMessages'
  BY DEF IInv, JobsFollowMessages, Known
<1>2. OneTaskPerWorker' /\ LeasedIffBeingWorked' /\ NoOrphanJob'
  BY DEF IInv, OneTaskPerWorker, LeasedIffBeingWorked, NoOrphanJob, Busy
<1> QED
  BY <1>1, <1>2

\* No message becomes unsent, and nothing more travels or is waited for.
LEMMA TravelKeeps ==
  ASSUME IInv, UNCHANGED inbox,
         \A m \in Msgs : msg[m] # "NONE" => msg'[m] # "NONE",
         \A l \in Leases : poll'[l] \in Msgs => poll'[l] = poll[l],
         \A m \in Msgs : wait'[m] # "none" => wait[m] # "none"
  PROVE  OnlySentTravels'
<1>1. ASSUME NEW w \in Workers, NEW i \in 1..Len(inbox[w]) PROVE msg'[inbox[w][i]] # "NONE"
  <2>1. inbox[w] \in Seq(Msgs)
    BY DEF IInv, TypeOK
  <2>2. inbox[w][i] \in Msgs
    BY <2>1
  <2> QED BY <2>2 DEF IInv, OnlySentTravels
<1>2. \A l \in Leases : poll'[l] \in Msgs => msg'[poll'[l]] # "NONE"
  BY DEF IInv, OnlySentTravels
<1>3. \A m \in Msgs : wait'[m] # "none" => msg'[m] # "NONE"
  BY DEF IInv, OnlySentTravels
<1> QED
  BY <1>1, <1>2, <1>3 DEF OnlySentTravels

\* The polls before and after a message is in hand, and the timers.
LEMMA PollKeeps ==
  ASSUME IInv, TypeOK', NEW l \in Leases,
         PollBegin(l) \/ PollEmpty(l) \/ PollSkip(l) \/ PollConflict(l)
  PROVE  IInv'
<1>1. UNCHANGED <<msg, job, lease, result, inbox, session, wait, taskWait>>
  BY DEF PollBegin, PollEmpty, PollSkip, PollConflict
<1>2. OnlySentTravels'
  <2>1. \A k \in Leases : poll'[k] \in Msgs => poll'[k] = poll[k]
    BY DEF PollBegin, PollEmpty, PollSkip, PollConflict, IInv, TypeOK
  <2> QED BY <1>1, <2>1 DEF OnlySentTravels, IInv
<1>3. NoSenderForgotten' /\ ResultsReachWaiters' /\ NoWorkForOfflineWorker'
  BY <1>1 DEF IInv, NoSenderForgotten, ResultsReachWaiters, NoWorkForOfflineWorker, Busy,
              ActiveLeases
<1> QED
  BY <1>1, <1>2, <1>3, QuietKeeps DEF IInv

LEMMA PollTakeKeeps ==
  ASSUME IInv, TypeOK', NEW l \in Leases, PollTake(l) PROVE IInv'
<1> DEFINE a == AgentOf[l]
<1>1. UNCHANGED <<msg, job, lease, result, session, wait, taskWait>>
  BY DEF PollTake
<1>2. a \in Workers /\ inbox[a] \in Seq(Msgs) /\ inbox[a] # <<>>
  BY DEF PollTake, IInv, TypeOK
<1>3. Head(inbox[a]) = inbox[a][1] /\ 1 \in 1..Len(inbox[a])
  BY <1>2
<1>4. \A i \in 1..Len(Tail(inbox[a])) : i + 1 \in 1..Len(inbox[a]) /\ Tail(inbox[a])[i] = inbox[a][i + 1]
  BY <1>2
<1>5. OnlySentTravels'
  <2>1. \A w \in Workers : \A i \in 1..Len(inbox'[w]) : msg[inbox'[w][i]] # "NONE"
    BY <1>2, <1>4 DEF PollTake, IInv, TypeOK, OnlySentTravels
  <2>2. \A k \in Leases : poll'[k] \in Msgs => msg[poll'[k]] # "NONE"
    BY <1>2, <1>3 DEF PollTake, IInv, TypeOK, OnlySentTravels
  <2> QED BY <1>1, <2>1, <2>2 DEF OnlySentTravels, IInv
<1>6. NoSenderForgotten' /\ ResultsReachWaiters' /\ NoWorkForOfflineWorker'
  BY <1>1 DEF IInv, NoSenderForgotten, ResultsReachWaiters, NoWorkForOfflineWorker, Busy,
              ActiveLeases
<1> QED
  BY <1>1, <1>5, <1>6, QuietKeeps DEF IInv

LEMMA WaitKeeps ==
  ASSUME IInv, TypeOK',
         \/ \E m \in Msgs : TimerFires(m)
         \/ \E t \in Tasks : WaitForTask(t) \/ TaskWaitExpires(t)
  PROVE  IInv'
<1>1. UNCHANGED <<msg, job, lease, result, inbox, session, poll>>
  BY DEF TimerFires, WaitForTask, TaskWaitExpires
<1>2. \A m \in Msgs : wait'[m] # "none" => wait[m] # "none"
  BY DEF TimerFires, WaitForTask, TaskWaitExpires, IInv, TypeOK
<1>3. \A m \in Msgs : wait'[m] = "waiting" => wait[m] = "waiting"
  BY DEF TimerFires, WaitForTask, TaskWaitExpires, IInv, TypeOK
<1>4. OnlySentTravels'
  BY <1>1, <1>2 DEF OnlySentTravels, IInv
<1>5. NoSenderForgotten' /\ NoWorkForOfflineWorker'
  BY <1>1, <1>3 DEF IInv, NoSenderForgotten, NoWorkForOfflineWorker, Busy, ActiveLeases
<1>6. ResultsReachWaiters'
  BY <1>1 DEF TimerFires, WaitForTask, TaskWaitExpires, IInv, ResultsReachWaiters
<1> QED
  BY <1>1, <1>4, <1>5, <1>6, QuietKeeps DEF IInv

LEMMA AcquireKeeps ==
  ASSUME IInv, TypeOK', NEW l \in Leases, AcquireSession(l) PROVE IInv'
<1>1. UNCHANGED <<msg, job, lease, result, inbox, poll, wait, taskWait>>
  BY DEF AcquireSession
<1>2. \A a \in Agents : ActiveLeases(a) \subseteq ActiveLeases(a)'
  BY DEF AcquireSession, ActiveLeases, IInv, TypeOK
<1>3. NoWorkForOfflineWorker'
  BY <1>1, <1>2 DEF IInv, NoWorkForOfflineWorker, Busy, Agents
<1>4. OnlySentTravels' /\ NoSenderForgotten' /\ ResultsReachWaiters'
  BY <1>1 DEF IInv, OnlySentTravels, NoSenderForgotten, ResultsReachWaiters, Busy
<1> QED
  BY <1>1, <1>3, <1>4, QuietKeeps DEF IInv

\* Messages of S settle and take their jobs with them: the common part of a
\* reply, a timeout, a cancellation and the end of a session.
LEMMA SettledKeeps ==
  ASSUME IInv, TypeOK', NEW S \in SUBSET Msgs,
         \A m \in S : msg[m] # "NONE" /\ msg'[m] \in TerminalMessage,
         \A m \in Msgs \ S : msg'[m] = msg[m],
         \A t \in TasksOf(S) : job'[t] \in TerminalMessage /\ lease'[t] = NoLease,
         \A t \in Tasks \ TasksOf(S) : job'[t] = job[t] /\ lease'[t] = lease[t]
  PROVE  /\ JobsFollowMessages' /\ OneTaskPerWorker' /\ LeasedIffBeingWorked' /\ NoOrphanJob'
         /\ \A m \in Msgs : Busy(m)' => Busy(m) /\ m \notin S
         /\ \A m \in Msgs : msg[m] # "NONE" => msg'[m] # "NONE"
<1>1. \A m \in Msgs : Busy(m)' => Busy(m) /\ m \notin S
  BY DEF Busy, BusyMessageStatus, TerminalMessage
<1>2. \A m \in Msgs : msg'[m] # "NONE" <=> msg[m] # "NONE"
  BY DEF TerminalMessage
<1>3. \A m \in S : TaskOf[m] \in TasksOf(S)
  BY DEF TasksOf
<1>4. JobsFollowMessages'
  <2>1. \A t \in Tasks : job'[t] \in {"NONE"} \cup LiveJob \cup TerminalMessage
    BY DEF IInv, JobsFollowMessages
  <2>2. ASSUME NEW m \in Msgs, msg'[m] # "NONE" PROVE job'[TaskOf[m]] # "NONE"
    BY <1>2, <2>2 DEF IInv, JobsFollowMessages, TerminalMessage
  <2>3. ASSUME NEW m \in Msgs, Known(m)' PROVE job'[TaskOf[m]] # "QUEUED"
    <3>1. CASE TaskOf[m] \in TasksOf(S)
      BY <3>1 DEF TerminalMessage
    <3>2. CASE TaskOf[m] \notin TasksOf(S)
      BY <1>3, <2>3, <3>2 DEF IInv, JobsFollowMessages, Known
    <3> QED BY <3>1, <3>2
  <2> QED BY <2>1, <2>2, <2>3 DEF JobsFollowMessages
<1>5. OneTaskPerWorker'
  BY <1>1 DEF IInv, OneTaskPerWorker
<1>6. LeasedIffBeingWorked'
  <2> SUFFICES ASSUME NEW t \in Tasks
               PROVE  lease'[t] # NoLease <=> job'[t] \in {"DELIVERED", "RUNNING"}
    BY DEF LeasedIffBeingWorked
  <2> QED BY DEF IInv, LeasedIffBeingWorked, TerminalMessage
<1>7. NoOrphanJob'
  <2> SUFFICES ASSUME NEW t \in Tasks, job'[t] \in LiveJob
               PROVE  \E m \in Msgs : TaskOf[m] = t /\ Busy(m)'
    BY DEF NoOrphanJob
  <2>1. t \notin TasksOf(S) /\ job[t] \in LiveJob
    BY DEF LiveJob, TerminalMessage
  <2>2. PICK m \in Msgs : TaskOf[m] = t /\ Busy(m)
    BY <2>1 DEF IInv, NoOrphanJob
  <2>3. msg'[m] = msg[m]
    BY <1>3, <2>1, <2>2
  <2> QED BY <2>2, <2>3 DEF Busy
<1> QED
  BY <1>1, <1>2, <1>4, <1>5, <1>6, <1>7

LEMMA JobSettles ==
  ASSUME NEW s \in LiveJob \cup TerminalMessage, NEW x \in TerminalMessage
  PROVE  TransitionTo(s, x) \in TerminalMessage
BY LiveSettles, FinishedStays DEF LiveJob, TerminalMessage, CanonicalTerminal

\* What a settling step needs of the variables SettledKeeps does not speak of.
LEMMA AnsweredKeeps ==
  ASSUME IInv, NEW S \in SUBSET Msgs, wait' = Answer(S),
         \A m \in Msgs : Busy(m)' <=> Busy(m) /\ m \notin S
  PROVE  NoSenderForgotten'
BY DEF NoSenderForgotten, Answer, IInv

LEMMA SettleKeeps ==
  ASSUME IInv, TypeOK', NEW S \in SUBSET {m \in Msgs : Busy(m)},
         NEW s \in {"TIMEOUT", "CANCELLED"}, Settle(S, s), UNCHANGED <<inbox, poll>>,
         \A m \in Msgs \ S : Busy(m) => ActiveLeases(To[m]) \subseteq ActiveLeases(To[m])'
  PROVE  IInv'
<1>1. s \in TerminalMessage /\ \A m \in S : m \in Msgs /\ msg[m] # "NONE"
  BY DEF TerminalMessage, Busy, BusyMessageStatus
<1>2. \A m \in S : msg'[m] = s
  BY <1>1 DEF Settle
<1>3. \A m \in Msgs \ S : msg'[m] = msg[m]
  BY DEF Settle
<1>4. \A t \in TasksOf(S) : t \in Tasks /\ job[t] \in LiveJob \cup TerminalMessage
  BY <1>1 DEF TasksOf, IInv, JobsFollowMessages
<1>5. ASSUME NEW t \in TasksOf(S) PROVE job'[t] \in TerminalMessage /\ lease'[t] = NoLease
  <2>1. job'[t] = TransitionTo(job[t], s) /\ lease'[t] = LeaseUnder(t, TransitionTo(job[t], s))
    BY <1>4 DEF Settle
  <2>2. TransitionTo(job[t], s) \in TerminalMessage
    BY <1>1, <1>4, JobSettles
  <2> QED BY <2>1, <2>2 DEF LeaseUnder, TerminalMessage, CanonicalTerminal
<1>6. ASSUME NEW t \in Tasks \ TasksOf(S) PROVE job'[t] = job[t] /\ lease'[t] = lease[t]
  <2>1. job'[t] = job[t] /\ lease'[t] = LeaseUnder(t, job[t])
    BY DEF Settle
  <2>2. job[t] \in CanonicalTerminal => lease[t] = NoLease
    BY DEF IInv, LeasedIffBeingWorked, CanonicalTerminal
  <2> QED BY <2>1, <2>2 DEF LeaseUnder
<1>7. /\ JobsFollowMessages' /\ OneTaskPerWorker' /\ LeasedIffBeingWorked' /\ NoOrphanJob'
      /\ \A m \in Msgs : Busy(m)' => Busy(m) /\ m \notin S
      /\ \A m \in Msgs : msg[m] # "NONE" => msg'[m] # "NONE"
  BY <1>1, <1>2, <1>3, <1>5, <1>6, SettledKeeps
<1>8. \A m \in Msgs : Busy(m)' <=> Busy(m) /\ m \notin S
  BY <1>3, <1>7 DEF Busy
<1>9. NoSenderForgotten'
  BY <1>8, AnsweredKeeps DEF Settle
<1>10. OnlySentTravels'
  <2>1. \A n \in Msgs : wait'[n] # "none" => wait[n] # "none"
    BY DEF Settle, Answer, IInv, TypeOK
  <2> QED BY <1>7, <2>1, TravelKeeps
<1>11. ResultsReachWaiters'
  <2> SUFFICES ASSUME NEW t \in Tasks, result'[t] # "NONE"
               PROVE  t \notin taskWait' /\ job'[t] \in CanonicalTerminal
    BY DEF ResultsReachWaiters
  <2>1. CASE t \in TasksOf(S)
    BY <1>5, <2>1 DEF Settle, CanonicalTerminal, TerminalMessage
  <2>2. CASE t \notin TasksOf(S)
    BY <1>6, <2>2 DEF Settle, IInv, ResultsReachWaiters
  <2> QED BY <2>1, <2>2
<1>12. NoWorkForOfflineWorker'
  BY <1>8 DEF NoWorkForOfflineWorker, IInv
<1> QED
  BY <1>7, <1>9, <1>10, <1>11, <1>12 DEF IInv

LEMMA TimeoutKeeps ==
  ASSUME IInv, TypeOK', NEW m \in Msgs, TimeoutMessage(m) PROVE IInv'
BY SettleKeeps DEF TimeoutMessage, ActiveLeases

LEMMA CancelKeeps ==
  ASSUME IInv, TypeOK', NEW item, CancelWork(item) PROVE IInv'
<1> DEFINE S == {m \in Msgs : Busy(m) /\ (m = item \/ TaskOf[m] = item)}
<1>1. Settle(S, "CANCELLED") /\ UNCHANGED <<inbox, session, poll>>
  BY DEF CancelWork
<1>2. S \in SUBSET {m \in Msgs : Busy(m)}
  OBVIOUS
<1>3. \A m \in Msgs : ActiveLeases(To[m]) \subseteq ActiveLeases(To[m])'
  BY <1>1 DEF ActiveLeases
<1> HIDE DEF S
<1> QED
  BY <1>1, <1>2, <1>3, SettleKeeps

\* The session that ends is the one of the agent whose work is settled.
LEMMA EndSessionKeeps ==
  ASSUME IInv, TypeOK', NEW l \in Leases, EndSession(l) PROVE IInv'
<1> DEFINE S == BusyWorkOf(AgentOf[l])
<1>1. Settle(S, "CANCELLED") /\ UNCHANGED <<inbox, poll>>
  BY DEF EndSession
<1>2. S \in SUBSET {m \in Msgs : Busy(m)}
  BY DEF BusyWorkOf
<1>3. ASSUME NEW m \in Msgs \ S, Busy(m)
      PROVE  ActiveLeases(To[m]) \subseteq ActiveLeases(To[m])'
  <2>1. AgentOf[l] # To[m]
    BY <1>3 DEF BusyWorkOf
  <2> QED BY <2>1 DEF EndSession, ActiveLeases, IInv, TypeOK
<1> HIDE DEF S
<1> QED
  BY <1>1, <1>2, <1>3, SettleKeeps

\* A message that settles alone, by a reply or by its sender's timer.
LEMMA OneSettles ==
  ASSUME IInv, TypeOK', NEW m \in Msgs, NEW s \in TerminalMessage, msg[m] # "NONE",
         msg' = [msg EXCEPT ![m] = s], MoveJob(TaskOf[m], s)
  PROVE  /\ JobsFollowMessages' /\ OneTaskPerWorker' /\ LeasedIffBeingWorked' /\ NoOrphanJob'
         /\ job'[TaskOf[m]] \in TerminalMessage
         /\ \A t \in Tasks \ {TaskOf[m]} : job'[t] = job[t]
         /\ \A n \in Msgs : Busy(n)' <=> Busy(n) /\ n # m
         /\ \A n \in Msgs : msg[n] # "NONE" => msg'[n] # "NONE"
<1> DEFINE S == {m}  u == TaskOf[m]
<1>1. u \in Tasks /\ TasksOf(S) = {u} /\ job[u] \in LiveJob \cup TerminalMessage
  BY DEF TasksOf, IInv, JobsFollowMessages
<1>2. \A n \in S : msg[n] # "NONE" /\ msg'[n] \in TerminalMessage
  BY DEF IInv, TypeOK
<1>3. \A n \in Msgs \ S : msg'[n] = msg[n]
  BY DEF IInv, TypeOK
<1>4. job'[u] = TransitionTo(job[u], s) /\ lease'[u] = LeaseUnder(u, TransitionTo(job[u], s))
  BY <1>1 DEF MoveJob, IInv, TypeOK
<1>5. TransitionTo(job[u], s) \in TerminalMessage
  BY <1>1, JobSettles
<1>6. \A t \in TasksOf(S) : job'[t] \in TerminalMessage /\ lease'[t] = NoLease
  BY <1>1, <1>4, <1>5 DEF LeaseUnder, TerminalMessage, CanonicalTerminal
<1>7. \A t \in Tasks \ TasksOf(S) : job'[t] = job[t] /\ lease'[t] = lease[t]
  BY <1>1 DEF MoveJob, IInv, TypeOK
<1>8. /\ JobsFollowMessages' /\ OneTaskPerWorker' /\ LeasedIffBeingWorked' /\ NoOrphanJob'
      /\ \A n \in Msgs : Busy(n)' => Busy(n) /\ n \notin S
      /\ \A n \in Msgs : msg[n] # "NONE" => msg'[n] # "NONE"
  <2>1. S \in SUBSET Msgs
    OBVIOUS
  <2> HIDE DEF S, u
  <2> QED BY <2>1, <1>2, <1>3, <1>6, <1>7, SettledKeeps
<1>9. \A n \in Msgs : Busy(n)' <=> Busy(n) /\ n # m
  BY <1>3, <1>8 DEF Busy
<1> QED
  BY <1>1, <1>6, <1>7, <1>8, <1>9

LEMMA ReplyKeeps ==
  ASSUME IInv, TypeOK', NEW m \in Msgs, NEW l \in Leases, NEW e \in 0..MaxEpoch,
         NEW s \in {"DONE", "FAILED"}, Reply(m, l, e, s)
  PROVE  IInv'
<1>1. s \in TerminalMessage /\ msg[m] # "NONE" /\ TaskOf[m] \in Tasks
  BY DEF TerminalMessage, Reply, Known
<1>2. msg' = [msg EXCEPT ![m] = s] /\ MoveJob(TaskOf[m], s)
  BY DEF Reply
<1>3. /\ JobsFollowMessages' /\ OneTaskPerWorker' /\ LeasedIffBeingWorked' /\ NoOrphanJob'
      /\ job'[TaskOf[m]] \in TerminalMessage
      /\ \A t \in Tasks \ {TaskOf[m]} : job'[t] = job[t]
      /\ \A n \in Msgs : Busy(n)' <=> Busy(n) /\ n # m
      /\ \A n \in Msgs : msg[n] # "NONE" => msg'[n] # "NONE"
  BY <1>1, <1>2, OneSettles
<1>4. NoSenderForgotten'
  BY <1>3, AnsweredKeeps DEF Reply
<1>5. OnlySentTravels'
  <2>1. \A n \in Msgs : wait'[n] # "none" => wait[n] # "none"
    BY DEF Reply, Answer, IInv, TypeOK
  <2>2. UNCHANGED <<inbox, poll>>
    BY DEF Reply
  <2> QED BY <1>3, <2>1, <2>2, TravelKeeps
<1>6. ResultsReachWaiters'
  BY <1>1, <1>3 DEF ResultsReachWaiters, Reply, IInv, TypeOK, TerminalMessage, CanonicalTerminal
<1>7. NoWorkForOfflineWorker'
  BY <1>3 DEF NoWorkForOfflineWorker, Reply, IInv, ActiveLeases
<1> QED
  BY <1>3, <1>4, <1>5, <1>6, <1>7 DEF IInv

\* The timer's continuation settles the message whatever became of it, and
\* its own future is gone already.
LEMMA TimeoutReplyKeeps ==
  ASSUME IInv, TypeOK', NEW m \in Msgs, TimeoutReply(m) PROVE IInv'
<1>1. "TIMEOUT" \in TerminalMessage /\ msg[m] # "NONE" /\ TaskOf[m] \in Tasks
  BY DEF TerminalMessage, TimeoutReply, IInv, OnlySentTravels
<1>2. msg' = [msg EXCEPT ![m] = "TIMEOUT"] /\ MoveJob(TaskOf[m], "TIMEOUT")
  BY DEF TimeoutReply
<1>3. /\ JobsFollowMessages' /\ OneTaskPerWorker' /\ LeasedIffBeingWorked' /\ NoOrphanJob'
      /\ job'[TaskOf[m]] \in TerminalMessage
      /\ \A t \in Tasks \ {TaskOf[m]} : job'[t] = job[t]
      /\ \A n \in Msgs : Busy(n)' <=> Busy(n) /\ n # m
      /\ \A n \in Msgs : msg[n] # "NONE" => msg'[n] # "NONE"
  BY <1>1, <1>2, OneSettles
<1>4. NoSenderForgotten'
  BY <1>3 DEF NoSenderForgotten, TimeoutReply, IInv, TypeOK
<1>5. OnlySentTravels'
  <2>1. \A n \in Msgs : wait'[n] # "none" => wait[n] # "none"
    BY DEF TimeoutReply, IInv, TypeOK
  <2>2. UNCHANGED <<inbox, poll>>
    BY DEF TimeoutReply
  <2> QED BY <1>3, <2>1, <2>2, TravelKeeps
<1>6. ResultsReachWaiters'
  BY <1>1, <1>3 DEF ResultsReachWaiters, TimeoutReply, IInv, TypeOK, TerminalMessage,
                    CanonicalTerminal
<1>7. NoWorkForOfflineWorker'
  BY <1>3 DEF NoWorkForOfflineWorker, TimeoutReply, IInv, ActiveLeases
<1> QED
  BY <1>3, <1>4, <1>5, <1>6, <1>7 DEF IInv

\* A busy message moves on, and so does its job, to the same status.
LEMMA MovesOn ==
  ASSUME IInv, TypeOK', NEW m \in Msgs, NEW s \in {"DELIVERED", "RUNNING"}, Busy(m),
         msg' = [msg EXCEPT ![m] = s],
         \A t \in Tasks \ {TaskOf[m]} : job'[t] = job[t] /\ lease'[t] = lease[t],
         job'[TaskOf[m]] \in {"DELIVERED", "RUNNING"} \cup TerminalMessage,
         job[TaskOf[m]] \in TerminalMessage => job'[TaskOf[m]] = job[TaskOf[m]],
         lease'[TaskOf[m]] # NoLease <=> job'[TaskOf[m]] \in {"DELIVERED", "RUNNING"},
         UNCHANGED <<result, inbox, session, wait, taskWait>>,
         \A l \in Leases : poll'[l] \in Msgs => poll'[l] = poll[l]
  PROVE  IInv'
<1> DEFINE u == TaskOf[m]
<1>1. u \in Tasks /\ msg[m] # "NONE" /\ msg'[m] = s
  BY DEF Busy, BusyMessageStatus, IInv, TypeOK
<1>2. \A n \in Msgs : (Busy(n)' <=> Busy(n)) /\ (msg'[n] # "NONE" <=> msg[n] # "NONE")
  BY DEF Busy, BusyMessageStatus, IInv, TypeOK
<1>3. JobsFollowMessages'
  <2>1. \A t \in Tasks : job'[t] \in {"NONE"} \cup LiveJob \cup TerminalMessage
    BY <1>1 DEF IInv, JobsFollowMessages, LiveJob
  <2>2. ASSUME NEW n \in Msgs, msg'[n] # "NONE" PROVE job'[TaskOf[n]] # "NONE"
    BY <1>1, <1>2, <2>2 DEF IInv, JobsFollowMessages, TerminalMessage
  <2>3. ASSUME NEW n \in Msgs, Known(n)' PROVE job'[TaskOf[n]] # "QUEUED"
    <3>1. CASE TaskOf[n] = u
      BY <3>1 DEF TerminalMessage
    <3>2. CASE TaskOf[n] # u
      BY <2>3, <3>2 DEF IInv, JobsFollowMessages, Known, TypeOK
    <3> QED BY <3>1, <3>2
  <2> QED BY <2>1, <2>2, <2>3 DEF JobsFollowMessages
<1>4. OneTaskPerWorker' /\ NoSenderForgotten' /\ NoWorkForOfflineWorker'
  BY <1>2 DEF IInv, OneTaskPerWorker, NoSenderForgotten, NoWorkForOfflineWorker, ActiveLeases
<1>5. LeasedIffBeingWorked'
  BY <1>1 DEF IInv, LeasedIffBeingWorked
<1>6. NoOrphanJob'
  <2> SUFFICES ASSUME NEW t \in Tasks, job'[t] \in LiveJob
               PROVE  \E n \in Msgs : TaskOf[n] = t /\ Busy(n)'
    BY DEF NoOrphanJob
  <2>1. CASE t = u
    BY <1>2, <2>1
  <2>2. CASE t # u
    BY <1>2, <2>2 DEF IInv, NoOrphanJob
  <2> QED BY <2>1, <2>2
<1>7. OnlySentTravels'
  BY <1>2, TravelKeeps
<1>8. ResultsReachWaiters'
  <2> SUFFICES ASSUME NEW t \in Tasks, result[t] # "NONE"
               PROVE  t \notin taskWait /\ job'[t] \in CanonicalTerminal
    BY DEF ResultsReachWaiters
  <2>1. t \notin taskWait /\ job[t] \in CanonicalTerminal
    BY DEF IInv, ResultsReachWaiters
  <2>2. job[t] \in TerminalMessage
    BY <2>1 DEF IInv, JobsFollowMessages, CanonicalTerminal, LiveJob
  <2> QED BY <2>1, <2>2
<1> QED
  BY <1>3, <1>4, <1>5, <1>6, <1>7, <1>8 DEF IInv

LEMMA RunningKeeps ==
  ASSUME IInv, TypeOK', NEW m \in Msgs, StartRunning(m) PROVE IInv'
<1> DEFINE u == TaskOf[m]
<1>1. u \in Tasks /\ job[u] \in {"DELIVERED", "RUNNING"} \cup TerminalMessage
  BY DEF IInv, JobsFollowMessages, StartRunning, Known, LiveJob
<1>2. job'[u] = TransitionTo(job[u], "RUNNING")
  BY <1>1 DEF StartRunning, MoveJob, IInv, TypeOK
<1>3. lease'[u] = LeaseUnder(u, TransitionTo(job[u], "RUNNING"))
  BY <1>1 DEF StartRunning, MoveJob, IInv, TypeOK
<1>4. \A t \in Tasks \ {u} : job'[t] = job[t] /\ lease'[t] = lease[t]
  BY DEF StartRunning, MoveJob, IInv, TypeOK
<1>5. /\ job[u] \in TerminalMessage => job'[u] = job[u]
      /\ job[u] \notin TerminalMessage => job'[u] = "RUNNING"
  BY <1>1, <1>2, FinishedStays, LiveStarts DEF TerminalMessage, CanonicalTerminal
<1>6. lease'[u] # NoLease <=> job'[u] \in {"DELIVERED", "RUNNING"}
  BY <1>1, <1>2, <1>3, <1>5 DEF LeaseUnder, IInv, LeasedIffBeingWorked, TerminalMessage,
                               CanonicalTerminal
<1>7. /\ Busy(m) /\ msg' = [msg EXCEPT ![m] = "RUNNING"]
      /\ UNCHANGED <<result, inbox, session, poll, wait, taskWait>>
  BY DEF StartRunning
<1> QED
  BY <1>1, <1>4, <1>5, <1>6, <1>7, MovesOn

\* A message in a poller's hand was sent; unless it has settled, it is busy.
LEMMA InHandIsBusy ==
  ASSUME IInv, NEW l \in Leases, poll[l] \in Msgs, msg[poll[l]] \notin TerminalMessage
  PROVE  Busy(poll[l])
BY DEF IInv, OnlySentTravels, TypeOK, Busy, BusyMessageStatus, MessageStatus, TerminalMessage

LEMMA DeliverKeeps ==
  ASSUME IInv, TypeOK', NEW l \in Leases, PollDeliver(l) PROVE IInv'
<1> DEFINE m == poll[l]  u == TaskOf[m]  next == TransitionTo(job[u], "DELIVERED")
<1>1. m \in Msgs /\ u \in Tasks /\ Deliver(l, m) /\ Busy(m)
  BY InHandIsBusy DEF PollDeliver
<1>2. job[u] \in {"QUEUED", "DELIVERED"} \cup TerminalMessage
  <2>1. job[u] \in LiveJob \cup TerminalMessage
    BY <1>1 DEF IInv, JobsFollowMessages, Busy, BusyMessageStatus
  <2>2. job[u] # "RUNNING"
    BY <1>1, Delivering DEF Deliver
  <2> QED BY <2>1, <2>2 DEF LiveJob
<1>3. /\ job[u] \in TerminalMessage => next = job[u]
      /\ job[u] \notin TerminalMessage => next = "DELIVERED"
  BY <1>2, FinishedStays, Delivering DEF TerminalMessage, CanonicalTerminal
<1>4. /\ msg' = [msg EXCEPT ![m] = "DELIVERED"]
      /\ job' = [job EXCEPT ![u] = next]
      /\ lease' = [lease EXCEPT ![u] =
           IF next = "DELIVERED" /\ lease[u] = NoLease THEN FreshLease(To[m], 1) ELSE lease[u]]
      /\ poll' = [poll EXCEPT ![l] = "idle"]
      /\ UNCHANGED <<result, inbox, session, wait, taskWait>>
  BY <1>1 DEF Deliver
<1> HIDE DEF next
<1>5. /\ job'[u] = next
      /\ lease'[u] = IF next = "DELIVERED" /\ lease[u] = NoLease
                     THEN FreshLease(To[m], 1) ELSE lease[u]
      /\ \A t \in Tasks \ {u} : job'[t] = job[t] /\ lease'[t] = lease[t]
  BY <1>1, <1>4 DEF IInv, TypeOK
<1>6. FreshLease(To[m], 1) # NoLease
  BY DEF FreshLease, NoLease
<1>7. lease'[u] # NoLease <=> job'[u] \in {"DELIVERED", "RUNNING"}
  BY <1>1, <1>2, <1>3, <1>5, <1>6 DEF IInv, LeasedIffBeingWorked, TerminalMessage
<1>8. \A k \in Leases : poll'[k] \in Msgs => poll'[k] = poll[k]
  BY <1>4 DEF IInv, TypeOK
<1> QED
  BY <1>1, <1>2, <1>3, <1>4, <1>5, <1>7, <1>8, MovesOn

LEMMA DeliverRaisesKeeps ==
  ASSUME IInv, TypeOK', NEW l \in Leases, PollDeliverRaises(l) PROVE IInv'
<1> DEFINE m == poll[l]  u == TaskOf[m]
<1>1. m \in Msgs /\ u \in Tasks /\ Busy(m)
  BY InHandIsBusy DEF PollDeliverRaises
<1>2. /\ msg' = [msg EXCEPT ![m] = "DELIVERED"]
      /\ poll' = [poll EXCEPT ![l] = "idle"]
      /\ UNCHANGED <<job, lease, result, inbox, session, wait, taskWait>>
  BY DEF PollDeliverRaises
<1>3. job[u] \in {"DELIVERED", "RUNNING"} \cup TerminalMessage
  <2>1. job[u] \in LiveJob \cup TerminalMessage
    BY <1>1 DEF IInv, JobsFollowMessages, Busy, BusyMessageStatus
  <2>2. job[u] # "QUEUED"
    BY Delivering DEF PollDeliverRaises
  <2> QED BY <2>1, <2>2 DEF LiveJob
<1>4. lease[u] # NoLease <=> job[u] \in {"DELIVERED", "RUNNING"}
  BY <1>1 DEF IInv, LeasedIffBeingWorked
<1>5. \A k \in Leases : poll'[k] \in Msgs => poll'[k] = poll[k]
  BY <1>2 DEF IInv, TypeOK
<1> QED
  BY <1>1, <1>2, <1>3, <1>4, <1>5, MovesOn

\* A message enters: its worker was free, and its job is unfinished or keeps
\* its terminal status.
LEMMA EntersKeeps ==
  ASSUME IInv, TypeOK', NEW m \in Msgs, msg[m] = "NONE", TargetFree(To[m]),
         msg' = [msg EXCEPT ![m] = "QUEUED"],
         \A t \in Tasks \ {TaskOf[m]} : job'[t] = job[t],
         \/ job'[TaskOf[m]] = job[TaskOf[m]] /\ job[TaskOf[m]] # "NONE"
         \/ job[TaskOf[m]] = "NONE" /\ job'[TaskOf[m]] = "QUEUED",
         UNCHANGED <<lease, result, session, poll, taskWait>>,
         \A w \in Workers : \A i \in 1..Len(inbox'[w]) :
           inbox'[w][i] = m \/ (i \in 1..Len(inbox[w]) /\ inbox'[w][i] = inbox[w][i]),
         \A n \in Msgs : wait'[n] = wait[n] \/ n = m
  PROVE  IInv'
<1> DEFINE u == TaskOf[m]
<1>1. u \in Tasks /\ To[m] \in Workers /\ msg'[m] = "QUEUED"
  BY DEF IInv, TypeOK
<1>2. \A n \in Msgs : n # m => msg'[n] = msg[n]
  BY DEF IInv, TypeOK
<1>3. \A n \in Msgs : Busy(n)' <=> Busy(n) \/ n = m
  BY <1>1, <1>2 DEF Busy, BusyMessageStatus
<1>4. JobsFollowMessages'
  <2>1. \A t \in Tasks : job'[t] \in {"NONE"} \cup LiveJob \cup TerminalMessage
    BY <1>1 DEF IInv, JobsFollowMessages, LiveJob
  <2>2. ASSUME NEW n \in Msgs, msg'[n] # "NONE" PROVE job'[TaskOf[n]] # "NONE"
    BY <1>1, <1>2, <2>2 DEF IInv, JobsFollowMessages
  <2>3. ASSUME NEW n \in Msgs, Known(n)' PROVE job'[TaskOf[n]] # "QUEUED"
    <3>1. n # m /\ Known(n) /\ msg[n] # "NONE"
      BY <1>1, <1>2, <2>3 DEF Known
    <3>2. job[TaskOf[n]] # "NONE" /\ job[TaskOf[n]] # "QUEUED"
      BY <3>1 DEF IInv, JobsFollowMessages
    <3> QED BY <3>2
  <2> QED BY <2>1, <2>2, <2>3 DEF JobsFollowMessages
<1>5. OneTaskPerWorker' /\ NoWorkForOfflineWorker'
  BY <1>1, <1>3 DEF IInv, OneTaskPerWorker, NoWorkForOfflineWorker, TargetFree, ActiveLeases
<1>6. LeasedIffBeingWorked'
  BY <1>1 DEF IInv, LeasedIffBeingWorked
<1>7. NoOrphanJob'
  <2> SUFFICES ASSUME NEW t \in Tasks, job'[t] \in LiveJob
               PROVE  \E n \in Msgs : TaskOf[n] = t /\ Busy(n)'
    BY DEF NoOrphanJob
  <2>1. CASE t = u
    BY <1>3, <2>1
  <2>2. CASE t # u
    BY <1>3, <2>2 DEF IInv, NoOrphanJob
  <2> QED BY <2>1, <2>2
<1>8. \A n \in Msgs : msg[n] # "NONE" => msg'[n] # "NONE"
  BY <1>2
<1>9. OnlySentTravels'
  <2>1. ASSUME NEW w \in Workers, NEW i \in 1..Len(inbox'[w])
        PROVE  msg'[inbox'[w][i]] # "NONE"
    <3>1. CASE inbox'[w][i] = m
      BY <1>1, <3>1
    <3>2. CASE i \in 1..Len(inbox[w]) /\ inbox'[w][i] = inbox[w][i]
      BY <1>8, <3>2 DEF IInv, OnlySentTravels, TypeOK
    <3> QED BY <3>1, <3>2
  <2>2. \A l \in Leases : poll[l] \in Msgs => msg'[poll[l]] # "NONE"
    BY <1>8 DEF IInv, OnlySentTravels
  <2>3. \A n \in Msgs : wait'[n] # "none" => msg'[n] # "NONE"
    BY <1>1, <1>8 DEF IInv, OnlySentTravels
  <2> QED BY <2>1, <2>2, <2>3 DEF OnlySentTravels
<1>10. NoSenderForgotten'
  BY <1>3 DEF IInv, NoSenderForgotten
<1>11. ResultsReachWaiters'
  BY <1>1 DEF IInv, ResultsReachWaiters, CanonicalTerminal
<1> QED
  BY <1>4, <1>5, <1>6, <1>7, <1>9, <1>10, <1>11 DEF IInv

LEMMA EnqueueKeeps ==
  ASSUME IInv, TypeOK', NEW m \in Msgs, NEW w \in BOOLEAN, Enqueue(m, w) PROVE IInv'
<1> DEFINE u == TaskOf[m]  next == TransitionTo(QueuedFrom(u), "QUEUED")
<1>1. u \in Tasks /\ job[u] \in {"NONE"} \cup LiveJob \cup TerminalMessage
  BY DEF IInv, JobsFollowMessages
<1>2. ~TransitionRaises(QueuedFrom(u), "QUEUED")
  BY DEF Enqueue
<1>3. \/ job[u] = "NONE" /\ next = "QUEUED"
      \/ job[u] # "NONE" /\ next = job[u]
  <2>1. CASE job[u] = "NONE"
    BY <2>1, Queueing DEF QueuedFrom
  <2>2. CASE job[u] \in TerminalMessage
    BY <2>2, FinishedStays DEF QueuedFrom, TerminalMessage, CanonicalTerminal
  <2>3. CASE job[u] \in LiveJob
    BY <1>2, <2>3, Queueing DEF QueuedFrom, LiveJob
  <2> QED BY <1>1, <2>1, <2>2, <2>3
<1>4. job' = [job EXCEPT ![u] = next]
  BY DEF Enqueue
<1>5. job'[u] = next /\ \A t \in Tasks \ {u} : job'[t] = job[t]
  <2> HIDE DEF next
  <2> QED BY <1>1, <1>4 DEF IInv, TypeOK
<1>6. ASSUME NEW v \in Workers, NEW i \in 1..Len(inbox'[v])
      PROVE  inbox'[v][i] = m \/ (i \in 1..Len(inbox[v]) /\ inbox'[v][i] = inbox[v][i])
  <2>1. inbox[v] \in Seq(Msgs)
    BY DEF IInv, TypeOK
  <2>2. CASE v = To[m]
    <3>1. inbox'[v] = Append(inbox[v], m)
      BY <2>2 DEF Enqueue, IInv, TypeOK
    <3> QED BY <2>1, <3>1
  <2>3. CASE v # To[m]
    BY <2>3 DEF Enqueue, IInv, TypeOK
  <2> QED BY <2>2, <2>3
<1>7. \A n \in Msgs : wait'[n] = wait[n] \/ n = m
  BY DEF Enqueue, IInv, TypeOK
<1>8. /\ msg[m] = "NONE" /\ TargetFree(To[m]) /\ msg' = [msg EXCEPT ![m] = "QUEUED"]
      /\ UNCHANGED <<lease, result, session, poll, taskWait>>
  BY DEF Enqueue
<1>9. \/ job'[u] = job[u] /\ job[u] # "NONE"
      \/ job[u] = "NONE" /\ job'[u] = "QUEUED"
  BY <1>3, <1>5
<1> HIDE DEF next
<1> QED
  BY <1>5, <1>6, <1>7, <1>8, <1>9, EntersKeeps

LEMMA EnqueueRaisesKeeps ==
  ASSUME IInv, TypeOK', NEW m \in Msgs, EnqueueRaises(m) PROVE IInv'
<1>1. job[TaskOf[m]] # "NONE"
  BY Queueing DEF EnqueueRaises, QueuedFrom
<1>2. /\ msg[m] = "NONE" /\ TargetFree(To[m]) /\ msg' = [msg EXCEPT ![m] = "QUEUED"]
      /\ UNCHANGED <<job, lease, result, inbox, session, poll, wait, taskWait>>
  BY DEF EnqueueRaises
<1> QED
  BY <1>1, <1>2, EntersKeeps

\* A lease changes hands or lapses, and its job stays in work.
LEMMA LeaseKeeps ==
  ASSUME IInv, TypeOK', NEW t \in Tasks, lease[t] # NoLease, lease'[t] # NoLease,
         \A u \in Tasks \ {t} : lease'[u] = lease[u] /\ job'[u] = job[u],
         job'[t] \in {job[t], "RUNNING"},
         UNCHANGED <<msg, result, inbox, session, poll, wait, taskWait>>
  PROVE  IInv'
<1>1. job[t] \in {"DELIVERED", "RUNNING"} /\ job'[t] \in {"DELIVERED", "RUNNING"}
  BY DEF IInv, LeasedIffBeingWorked
<1>2. JobsFollowMessages'
  BY <1>1 DEF IInv, JobsFollowMessages, LiveJob, Known
<1>3. LeasedIffBeingWorked'
  BY <1>1 DEF IInv, LeasedIffBeingWorked
<1>4. NoOrphanJob'
  BY <1>1 DEF IInv, NoOrphanJob, LiveJob, Busy
<1>5. OneTaskPerWorker' /\ NoSenderForgotten' /\ NoWorkForOfflineWorker' /\ OnlySentTravels'
  BY DEF IInv, OneTaskPerWorker, NoSenderForgotten, NoWorkForOfflineWorker, OnlySentTravels,
         Busy, ActiveLeases
<1>6. ResultsReachWaiters'
  BY <1>1 DEF IInv, ResultsReachWaiters, CanonicalTerminal
<1> QED
  BY <1>2, <1>3, <1>4, <1>5, <1>6 DEF IInv

LEMMA LapseKeeps ==
  ASSUME IInv, TypeOK', NEW t \in Tasks, LeaseLapses(t) PROVE IInv'
<1> DEFINE new == LapsedLease(lease[t].holder, lease[t].epoch)
<1>1. lease[t] \in HeldLease
  BY DEF LeaseLapses, NoLease, IInv, TypeOK
<1>2. new \in HeldLease
  BY <1>1, LeaseTypes DEF HeldLease
<1>3. lease[t] # NoLease /\ new # NoLease
  BY <1>1, <1>2, LeaseTypes
<1>4. lease' = [lease EXCEPT ![t] = new]
  BY DEF LeaseLapses
<1> HIDE DEF new
<1>5. lease'[t] = new /\ \A u \in Tasks \ {t} : lease'[u] = lease[u]
  BY <1>4 DEF IInv, TypeOK
<1>6. UNCHANGED <<msg, job, result, inbox, session, poll, wait, taskWait>>
  BY DEF LeaseLapses
<1> QED
  BY <1>3, <1>5, <1>6, LeaseKeeps

LEMMA HeartbeatKeeps ==
  ASSUME IInv, TypeOK', NEW t \in Tasks, NEW a \in Workers, NEW e \in 1..MaxEpoch,
         HeartbeatJob(t, a, e)
  PROVE  IInv'
<1>1. lease' = [lease EXCEPT ![t] = FreshLease(a, e)] /\ lease[t] # NoLease
  BY DEF HeartbeatJob
<1>2. FreshLease(a, e) # NoLease
  BY LeaseTypes
<1>3. lease'[t] # NoLease /\ \A u \in Tasks \ {t} : lease'[u] = lease[u]
  BY <1>1, <1>2 DEF IInv, TypeOK
<1>4. UNCHANGED <<msg, job, result, inbox, session, poll, wait, taskWait>>
  BY DEF HeartbeatJob
<1> QED
  BY <1>1, <1>3, <1>4, LeaseKeeps

LEMMA ReclaimKeeps ==
  ASSUME IInv, TypeOK', NEW t \in Tasks, NEW a \in Workers, ReclaimJob(t, a) PROVE IInv'
<1> DEFINE new == FreshLease(a, lease[t].epoch + 1)
<1>1. lease[t] # NoLease /\ lease' = [lease EXCEPT ![t] = new]
  BY DEF ReclaimJob, Reclaimable
<1>2. new # NoLease
  BY DEF FreshLease, NoLease
<1> HIDE DEF new
<1>3. lease'[t] = new /\ \A u \in Tasks \ {t} : lease'[u] = lease[u]
  BY <1>1 DEF IInv, TypeOK
<1>4. /\ job'[t] = "RUNNING" /\ \A u \in Tasks \ {t} : job'[u] = job[u]
      /\ UNCHANGED <<msg, result, inbox, session, poll, wait, taskWait>>
  BY DEF ReclaimJob, IInv, TypeOK
<1> QED
  BY <1>1, <1>2, <1>3, <1>4, LeaseKeeps

-----------------------------------------------------------------------------
(* The invariant of the specification *)

LEMMA InvStep == IInv /\ [Next]_vars => IInv'
<1> SUFFICES ASSUME IInv, [Next]_vars PROVE IInv'
  OBVIOUS
<1>1. TypeOK'
  BY TypeStep DEF IInv
<1>2. CASE SenderStep
  BY <1>1, <1>2, EnqueueKeeps, EnqueueRaisesKeeps DEF SenderStep
<1>3. CASE PollStep
  BY <1>1, <1>3, PollKeeps, PollTakeKeeps, DeliverKeeps, DeliverRaisesKeeps DEF PollStep
<1>4. CASE WorkerStep
  <2>1. ASSUME NEW m \in Msgs, NEW l \in Leases, MarkRunning(m, l) \/ RecordActivity(m, l)
        PROVE  IInv'
    BY <1>1, <2>1, RunningKeeps DEF MarkRunning, RecordActivity
  <2>2. ASSUME NEW m \in Msgs, NEW l \in Leases, ReplyAny(m, l) PROVE IInv'
    BY <1>1, <2>2, ReplyKeeps DEF ReplyAny, ReplyJobStatus
  <2> QED BY <1>4, <2>1, <2>2 DEF WorkerStep
<1>5. CASE SettleStep
  BY <1>1, <1>5, TimeoutKeeps, CancelKeeps DEF SettleStep
<1>6. CASE SessionStep
  BY <1>1, <1>6, AcquireKeeps, EndSessionKeeps DEF SessionStep, ReleaseSession, ExpireSession
<1>7. CASE WaitStep
  BY <1>1, <1>7, WaitKeeps, TimeoutReplyKeeps DEF WaitStep
<1>8. CASE LeaseStep
  BY <1>1, <1>8, LapseKeeps, HeartbeatKeeps, ReclaimKeeps DEF LeaseStep
<1>9. CASE UNCHANGED vars
  <2>1. UNCHANGED <<msg, job, lease, result, inbox, session, poll, wait, taskWait>>
    BY <1>9 DEF vars
  <2>2. OnlySentTravels' /\ NoSenderForgotten' /\ ResultsReachWaiters' /\ NoWorkForOfflineWorker'
    BY <2>1 DEF IInv, OnlySentTravels, NoSenderForgotten, ResultsReachWaiters,
                NoWorkForOfflineWorker, Busy, ActiveLeases
  <2> QED BY <1>1, <2>1, <2>2, QuietKeeps DEF IInv
<1> QED
  BY <1>2, <1>3, <1>4, <1>5, <1>6, <1>7, <1>8, <1>9 DEF Next

\* The inductive invariant holds of every reachable state of the task path.
THEOREM InvariantHolds == Spec => []IInv
BY InvInit, InvStep, PTL DEF Spec

\* The safety invariants of the task path, each under its own name.
\* A worker never has two pieces of unfinished work (assert_worker_target_free).
THEOREM OneTask == Spec => []OneTaskPerWorker
BY InvariantHolds, PTL DEF IInv

\* Exactly the jobs in work are leased (upsert_task, advance_job).
THEOREM LeasedExactly == Spec => []LeasedIffBeingWorked
BY InvariantHolds, PTL DEF IInv

\* An unfinished job has an unfinished message behind it (enqueue, save_reply
\* and the ways to settle).
THEOREM NoOrphans == Spec => []NoOrphanJob
BY InvariantHolds, PTL DEF IInv

\* A sender left waiting has a message that can still answer it (reply futures).
THEOREM NoneForgotten == Spec => []NoSenderForgotten
BY InvariantHolds, PTL DEF IInv

\* Nobody waits for a task whose result is stored (store_task_result).
THEOREM ResultsReach == Spec => []ResultsReachWaiters
BY InvariantHolds, PTL DEF IInv

\* With peer sessions required no work is pending for an offline worker
\* (settle_work_for_offline_agent).
THEOREM NoneForOffline == Spec => []NoWorkForOfflineWorker
BY InvariantHolds, PTL DEF IInv

-----------------------------------------------------------------------------
(* What a step may do *)

\* A finished job keeps its status in every step.
LEMMA FinishedStep ==
  ASSUME IInv, [Next]_vars, NEW t \in Tasks, job[t] \in CanonicalTerminal
  PROVE  job'[t] = job[t]
<1> USE DEF IInv, TypeOK
<1>1. \A s : TransitionTo(job[t], s) = job[t]
  BY FinishedStays
<1>2. ASSUME NEW u \in Tasks, NEW s, MoveJob(u, s) PROVE job'[t] = job[t]
  BY <1>1, <1>2 DEF MoveJob
<1>3. ASSUME NEW S, NEW s, Settle(S, s) PROVE job'[t] = job[t]
  BY <1>1, <1>3 DEF Settle
<1>4. CASE SenderStep
  <2>1. QueuedFrom(t) = job[t]
    BY DEF QueuedFrom, CanonicalTerminal
  <2> QED BY <1>1, <1>4, <2>1 DEF SenderStep, Enqueue, EnqueueRaises
<1>5. CASE PollStep
  BY <1>1, <1>5 DEF PollStep, PollBegin, PollEmpty, PollTake, PollDeliver, Deliver,
                    PollDeliverRaises, PollSkip, PollConflict
<1>6. CASE WorkerStep
  BY <1>2, <1>6 DEF WorkerStep, MarkRunning, RecordActivity, StartRunning, ReplyAny, Reply
<1>7. CASE SettleStep
  BY <1>3, <1>7 DEF SettleStep, TimeoutMessage, CancelWork
<1>8. CASE SessionStep
  BY <1>3, <1>8 DEF SessionStep, AcquireSession, ReleaseSession, ExpireSession, EndSession
<1>9. CASE WaitStep
  BY <1>2, <1>9 DEF WaitStep, TimerFires, TimeoutReply, WaitForTask, TaskWaitExpires
<1>10. CASE LeaseStep
  <2>1. ASSUME NEW u \in Tasks, NEW a \in Workers, ReclaimJob(u, a) PROVE job'[t] = job[t]
    <3>1. u # t
      BY <2>1 DEF ReclaimJob, Reclaimable, CanTransition, AllowedJobTransitions, JobStatus,
                  CanonicalTerminal
    <3> QED BY <2>1, <3>1 DEF ReclaimJob
  <2> QED BY <1>10, <2>1 DEF LeaseStep, LeaseLapses, HeartbeatJob
<1>11. CASE UNCHANGED vars
  BY <1>11 DEF vars
<1> QED
  BY <1>4, <1>5, <1>6, <1>7, <1>8, <1>9, <1>10, <1>11 DEF Next

\* A job that finished never moves again (ALLOWED_JOB_TRANSITIONS).
THEOREM FinishedJobsStay == Spec => FinishedJobStays
<1>1. IInv /\ [Next]_vars =>
        [\A t \in Tasks : job[t] \in CanonicalTerminal => job'[t] = job[t]]_vars
  BY FinishedStep
<1> QED
  BY <1>1, InvariantHolds, PTL DEF Spec, FinishedJobStays

\* What a step may do to the messages, seen from their worker's slot.
Stays == \A m \in Msgs : /\ Busy(m)' <=> Busy(m)
                         /\ msg'[m] \in TerminalMessage <=> msg[m] \in TerminalMessage
Enters(m) == /\ msg[m] = "NONE" /\ TargetFree(To[m])
             /\ msg' = [msg EXCEPT ![m] = "QUEUED"]
Leave(S) == /\ \A m \in S : Busy(m) /\ msg'[m] \in TerminalMessage
            /\ \A m \in Msgs \ S : msg'[m] = msg[m]

LEMMA SlotSteps ==
  ASSUME IInv, [Next]_vars
  PROVE  \/ Stays
         \/ \E m \in Msgs : Enters(m)
         \/ \E S \in SUBSET Msgs : Leave(S)
<1> USE DEF IInv, TypeOK
<1>1. ASSUME UNCHANGED msg PROVE Stays
  BY <1>1 DEF Stays, Busy
<1>2. ASSUME NEW m \in Msgs, NEW s \in {"DELIVERED", "RUNNING"}, Busy(m),
             msg' = [msg EXCEPT ![m] = s]
      PROVE  Stays
  BY <1>2 DEF Stays, Busy, BusyMessageStatus, TerminalMessage
<1>3. ASSUME NEW m \in Msgs, NEW s \in TerminalMessage, msg[m] # "NONE",
             msg' = [msg EXCEPT ![m] = s]
      PROVE  Stays \/ Leave({m})
  <2>1. CASE msg[m] \in TerminalMessage
    BY <1>3, <2>1 DEF Stays, Busy, BusyMessageStatus, TerminalMessage
  <2>2. CASE msg[m] \notin TerminalMessage
    BY <1>3, <2>2 DEF Leave, Busy, BusyMessageStatus, TerminalMessage, MessageStatus
  <2> QED BY <2>1, <2>2
<1>4. ASSUME NEW S \in SUBSET {m \in Msgs : Busy(m)}, NEW s \in TerminalMessage, Settle(S, s)
      PROVE  Leave(S)
  BY <1>4 DEF Leave, Settle
<1>5. CASE SenderStep
  BY <1>5 DEF SenderStep, Enqueue, EnqueueRaises, Enters
<1>6. CASE PollStep
  <2>1. ASSUME NEW l \in Leases, PollDeliver(l) \/ PollDeliverRaises(l) PROVE Stays
    <3>1. Busy(poll[l]) /\ poll[l] \in Msgs
      BY <2>1, InHandIsBusy DEF PollDeliver, PollDeliverRaises
    <3>2. msg' = [msg EXCEPT ![poll[l]] = "DELIVERED"]
      BY <2>1 DEF PollDeliver, Deliver, PollDeliverRaises
    <3> QED BY <3>1, <3>2, <1>2
  <2> QED BY <1>1, <1>6, <2>1 DEF PollStep, PollBegin, PollEmpty, PollTake, PollSkip, PollConflict
<1>7. CASE WorkerStep
  <2>1. ASSUME NEW m \in Msgs, StartRunning(m) PROVE Stays
    BY <1>2, <2>1 DEF StartRunning
  <2>2. ASSUME NEW m \in Msgs, NEW l \in Leases, ReplyAny(m, l)
        PROVE  Stays \/ \E S \in SUBSET Msgs : Leave(S)
    <3>1. PICK s \in TerminalMessage : msg' = [msg EXCEPT ![m] = s]
      BY <2>2 DEF ReplyAny, Reply, ReplyJobStatus, TerminalMessage
    <3>2. msg[m] # "NONE"
      BY <2>2 DEF ReplyAny, Reply, Known
    <3>3. Stays \/ Leave({m})
      BY <1>3, <3>1, <3>2
    <3> QED BY <3>3
  <2>3. \/ \E m \in Msgs : StartRunning(m)
        \/ \E m \in Msgs, l \in Leases : ReplyAny(m, l)
    BY <1>7 DEF WorkerStep, MarkRunning, RecordActivity
  <2> HIDE DEF IInv, TypeOK
  <2> QED BY <2>1, <2>2, <2>3
<1>8. CASE SettleStep \/ SessionStep
  <2>1. "TIMEOUT" \in TerminalMessage /\ "CANCELLED" \in TerminalMessage
    BY DEF TerminalMessage
  <2>2. ASSUME NEW m \in Msgs, TimeoutMessage(m) PROVE Leave({m})
    BY <1>4, <2>1, <2>2 DEF TimeoutMessage
  <2>3. ASSUME NEW item, CancelWork(item) PROVE \E S \in SUBSET Msgs : Leave(S)
    BY <1>4, <2>1, <2>3 DEF CancelWork
  <2>4. ASSUME NEW l \in Leases, EndSession(l) PROVE \E S \in SUBSET Msgs : Leave(S)
    BY <1>4, <2>1, <2>4 DEF EndSession, BusyWorkOf
  <2>5. ASSUME NEW l \in Leases, AcquireSession(l) PROVE Stays
    BY <1>1, <2>5 DEF AcquireSession
  <2>6. \/ \E m \in Msgs : TimeoutMessage(m)
        \/ \E item \in Msgs \cup Tasks : CancelWork(item)
        \/ \E l \in Leases : AcquireSession(l) \/ EndSession(l)
    BY <1>8 DEF SettleStep, SessionStep, ReleaseSession, ExpireSession
  <2>7. \A m \in Msgs : {m} \in SUBSET Msgs
    OBVIOUS
  <2> HIDE DEF IInv, TypeOK
  <2> QED BY <2>2, <2>3, <2>4, <2>5, <2>6, <2>7
<1>9. CASE WaitStep
  <2>1. ASSUME NEW m \in Msgs, TimeoutReply(m) PROVE Stays \/ Leave({m})
    <3>1. msg[m] # "NONE" /\ "TIMEOUT" \in TerminalMessage
      BY <2>1 DEF TimeoutReply, OnlySentTravels, TerminalMessage
    <3> QED BY <1>3, <2>1, <3>1 DEF TimeoutReply
  <2>2. Stays \/ \E m \in Msgs : TimeoutReply(m)
    BY <1>1, <1>9 DEF WaitStep, TimerFires, WaitForTask, TaskWaitExpires
  <2> HIDE DEF IInv, TypeOK
  <2>3. ASSUME NEW m \in Msgs, Leave({m}) PROVE \E S \in SUBSET Msgs : Leave(S)
    <3>1. {m} \in SUBSET Msgs
      OBVIOUS
    <3> QED BY <3>1, <2>3
  <2> QED BY <2>1, <2>2, <2>3
<1>10. CASE LeaseStep
  BY <1>1, <1>10 DEF LeaseStep, LeaseLapses, HeartbeatJob, ReclaimJob
<1>11. CASE UNCHANGED vars
  BY <1>1, <1>11 DEF vars
<1> QED
  BY <1>5, <1>6, <1>7, <1>8, <1>9, <1>10, <1>11 DEF Next

\* The task path implements the worker slots, but for their liveness: no worker
\* is held twice and nothing reopens settled work (TaskBroker's refinement).
THEOREM SafeSlots == Spec => Slots!Spec
<1> DEFINE open == {m \in Msgs : Busy(m)}
           closed == {m \in Msgs : msg[m] \in TerminalMessage}
<1>1. Init => Slots!Init
  BY DEF Init, Slots!Init, Busy, BusyMessageStatus, TerminalMessage
<1>2. IInv /\ [Next]_vars => [Slots!Next]_(Slots!vars)
  <2> SUFFICES ASSUME IInv, [Next]_vars PROVE Slots!Next \/ UNCHANGED Slots!vars
    OBVIOUS
  <2>1. CASE Stays
    BY <2>1 DEF Stays, Slots!vars
  <2>2. ASSUME NEW m \in Msgs, Enters(m) PROVE Slots!Next
    <3>1. m \notin open \cup closed
      BY <2>2 DEF Enters, Busy, BusyMessageStatus, TerminalMessage
    <3>2. \A n \in open : To[n] # To[m]
      BY <2>2 DEF Enters, TargetFree
    <3>3. open' = open \cup {m} /\ closed' = closed
      BY <2>2 DEF Enters, Busy, BusyMessageStatus, TerminalMessage, IInv, TypeOK
    <3>4. Slots!Open(m)
      BY <3>1, <3>2, <3>3 DEF Slots!Open
    <3> QED BY <3>4 DEF Slots!Next
  <2>3. ASSUME NEW S \in SUBSET Msgs, Leave(S) PROVE Slots!Next \/ UNCHANGED Slots!vars
    <3>1. S \subseteq open
      BY <2>3 DEF Leave
    <3>2. open' = open \ S /\ closed' = closed \cup S
      BY <2>3 DEF Leave, Busy, BusyMessageStatus, TerminalMessage
    <3>3. CASE S = {}
      BY <3>2, <3>3 DEF Slots!vars
    <3>4. CASE S # {}
      <4>1. Slots!Close(S)
        BY <3>1, <3>2, <3>4 DEF Slots!Close
      <4> QED BY <4>1 DEF Slots!Next
    <3> QED BY <3>3, <3>4
  <2> QED BY <2>1, <2>2, <2>3, SlotSteps
<1> QED
  BY <1>1, <1>2, InvariantHolds, PTL DEF Spec, Slots!Spec

\* The body of SettledMessageStays, for one message and one step.
LEMMA SettledStep ==
  ASSUME IInv, [Next]_vars, NEW m \in Msgs, msg[m] \in TerminalMessage
  PROVE  \/ msg'[m] = msg[m]
         \/ msg[m] \in {"DONE", "FAILED"} /\ msg'[m] \in {"DONE", "FAILED"}
         \/ wait[m] = "expired" /\ msg'[m] = "TIMEOUT"
<1> USE DEF IInv, TypeOK
<1>1. ~Busy(m) /\ msg[m] # "NONE"
  BY DEF Busy, BusyMessageStatus, TerminalMessage
<1>2. ASSUME NEW S \in SUBSET {n \in Msgs : Busy(n)}, NEW s, Settle(S, s) PROVE msg'[m] = msg[m]
  BY <1>1, <1>2 DEF Settle
<1>3. CASE SenderStep
  BY <1>1, <1>3 DEF SenderStep, Enqueue, EnqueueRaises
<1>4. CASE PollStep
  BY <1>4 DEF PollStep, PollBegin, PollEmpty, PollTake, PollDeliver, Deliver,
              PollDeliverRaises, PollSkip, PollConflict
<1>5. CASE WorkerStep
  <2>1. ASSUME NEW n \in Msgs, StartRunning(n) PROVE msg'[m] = msg[m]
    BY <1>1, <2>1 DEF StartRunning
  <2>2. ASSUME NEW n \in Msgs, NEW l \in Leases, ReplyAny(n, l)
        PROVE  \/ msg'[m] = msg[m]
               \/ msg[m] \in {"DONE", "FAILED"} /\ msg'[m] \in {"DONE", "FAILED"}
    <3>1. msg[n] \notin {"TIMEOUT", "CANCELLED"}
      BY <2>2 DEF ReplyAny, Reply
    <3>2. \E s \in {"DONE", "FAILED"} : msg' = [msg EXCEPT ![n] = s]
      BY <2>2 DEF ReplyAny, Reply, ReplyJobStatus
    <3> QED BY <3>1, <3>2 DEF TerminalMessage
  <2>3. \/ \E n \in Msgs : StartRunning(n)
        \/ \E n \in Msgs, l \in Leases : ReplyAny(n, l)
    BY <1>5 DEF WorkerStep, MarkRunning, RecordActivity
  <2> HIDE DEF IInv, TypeOK
  <2> QED BY <2>1, <2>2, <2>3
<1>6. CASE SettleStep \/ SessionStep
  BY <1>2, <1>6 DEF SettleStep, TimeoutMessage, CancelWork, SessionStep, AcquireSession,
                    ReleaseSession, ExpireSession, EndSession, BusyWorkOf
<1>7. CASE WaitStep
  BY <1>7 DEF WaitStep, TimerFires, TimeoutReply, WaitForTask, TaskWaitExpires
<1>8. CASE LeaseStep
  BY <1>8 DEF LeaseStep, LeaseLapses, HeartbeatJob, ReclaimJob
<1>9. CASE UNCHANGED vars
  BY <1>9 DEF vars
<1> QED
  BY <1>3, <1>4, <1>5, <1>6, <1>7, <1>8, <1>9 DEF Next

\* A settled message is rewritten only by another reply or by the timer of its
\* own sender (save_reply, timeout_reply).
THEOREM SettledMessagesStay == Spec => SettledMessageStays
<1>1. IInv /\ [Next]_vars =>
        [\A m \in Msgs : msg[m] \in TerminalMessage =>
           \/ msg'[m] = msg[m]
           \/ msg[m] \in {"DONE", "FAILED"} /\ msg'[m] \in {"DONE", "FAILED"}
           \/ wait[m] = "expired" /\ msg'[m] = "TIMEOUT"]_vars
  BY SettledStep
<1> QED
  BY <1>1, InvariantHolds, PTL DEF Spec, SettledMessageStays

\* The ways a lease may change in one step, the disjuncts of LeaseDiscipline.
LeaseMayChange(t) ==
  \/ /\ job[t] = "QUEUED" /\ job'[t] = "DELIVERED"
     /\ \E m \in Msgs : TaskOf[m] = t /\ lease'[t] = FreshLease(To[m], 1)
  \/ /\ lease'[t].holder = lease[t].holder /\ lease'[t].epoch = lease[t].epoch
     /\ lease[t] # NoLease
  \/ /\ ~lease[t].live /\ lease'[t].live
     /\ lease'[t].epoch = lease[t].epoch + 1
     /\ job'[t] = "RUNNING"
  \/ lease'[t] = NoLease /\ job'[t] \in CanonicalTerminal

LEMMA LeaseStepwise ==
  ASSUME IInv, [Next]_vars, NEW t \in Tasks, lease'[t] # lease[t]
  PROVE  LeaseMayChange(t)
<1> USE DEF IInv, TypeOK
<1>1. ASSUME NEW u \in Tasks, NEW s, MoveJob(u, s) PROVE LeaseMayChange(t)
  BY <1>1 DEF MoveJob, LeaseUnder, LeaseMayChange
<1>2. ASSUME NEW S, NEW s, Settle(S, s) PROVE LeaseMayChange(t)
  BY <1>2 DEF Settle, LeaseUnder, LeaseMayChange
<1>3. CASE SenderStep
  BY <1>3 DEF SenderStep, Enqueue, EnqueueRaises
<1>4. CASE PollStep
  <2>1. ASSUME NEW l \in Leases, PollDeliver(l) PROVE LeaseMayChange(t)
    <3> DEFINE m == poll[l]  next == TransitionTo(job[TaskOf[m]], "DELIVERED")
    <3>1. /\ m \in Msgs /\ Busy(m)
          /\ job' = [job EXCEPT ![TaskOf[m]] = next]
          /\ lease' = [lease EXCEPT ![TaskOf[m]] =
                IF next = "DELIVERED" /\ lease[TaskOf[m]] = NoLease
                THEN FreshLease(To[m], 1) ELSE lease[TaskOf[m]]]
      BY <2>1, InHandIsBusy DEF PollDeliver, Deliver
    <3> HIDE DEF next
    <3>2. TaskOf[m] = t /\ next = "DELIVERED" /\ lease[t] = NoLease /\ lease'[t] = FreshLease(To[m], 1)
      BY <3>1
    <3>3. job[t] \in {"QUEUED", "NONE"} \cup TerminalMessage /\ job[t] # "NONE"
      BY <3>1, <3>2 DEF LeasedIffBeingWorked, JobsFollowMessages, LiveJob, Busy, BusyMessageStatus
    <3>4. job[t] \notin TerminalMessage
      BY <3>2, FinishedStays DEF next, TerminalMessage, CanonicalTerminal
    <3> QED BY <3>1, <3>2, <3>3, <3>4 DEF LeaseMayChange
  <2>2. \E l \in Leases : PollDeliver(l)
    BY <1>4 DEF PollStep, PollBegin, PollEmpty, PollTake, PollDeliverRaises, PollSkip,
                PollConflict
  <2> QED BY <2>1, <2>2
<1>5. CASE WorkerStep
  <2>1. \E u \in Tasks : \E s \in MessageStatus : MoveJob(u, s)
    BY <1>5 DEF WorkerStep, MarkRunning, RecordActivity, StartRunning, ReplyAny, Reply,
                ReplyJobStatus, MessageStatus
  <2> HIDE DEF IInv, TypeOK
  <2> QED BY <1>1, <2>1
<1>6. CASE SettleStep \/ SessionStep
  <2>1. ASSUME NEW l \in Leases, AcquireSession(l) PROVE FALSE
    BY <2>1 DEF AcquireSession
  <2> QED
    BY <1>2, <1>6, <2>1 DEF SettleStep, TimeoutMessage, CancelWork, SessionStep, ReleaseSession,
                            ExpireSession, EndSession
<1>7. CASE WaitStep
  BY <1>1, <1>7 DEF WaitStep, TimerFires, TimeoutReply, WaitForTask, TaskWaitExpires
<1>8. CASE LeaseStep
  <2>1. ASSUME NEW u \in Tasks, LeaseLapses(u) PROVE LeaseMayChange(t)
    <3>1. u = t /\ lease[t] # NoLease /\ lease'[t] = LapsedLease(lease[t].holder, lease[t].epoch)
      BY <2>1 DEF LeaseLapses, NoLease
    <3> QED BY <3>1 DEF LapsedLease, LeaseMayChange
  <2>2. ASSUME NEW u \in Tasks, NEW a \in Workers, NEW e \in 1..MaxEpoch, HeartbeatJob(u, a, e)
        PROVE  LeaseMayChange(t)
    <3>1. /\ u = t /\ lease[t] # NoLease /\ lease[t].holder = a /\ lease[t].epoch = e
          /\ lease'[t] = FreshLease(a, e)
      BY <2>2 DEF HeartbeatJob
    <3> QED BY <3>1 DEF FreshLease, LeaseMayChange
  <2>3. ASSUME NEW u \in Tasks, NEW a \in Workers, ReclaimJob(u, a) PROVE LeaseMayChange(t)
    <3>1. /\ u = t /\ ~lease[t].live /\ job'[t] = "RUNNING"
          /\ lease'[t] = FreshLease(a, lease[t].epoch + 1)
      BY <2>3 DEF ReclaimJob, Reclaimable
    <3> QED BY <3>1 DEF FreshLease, LeaseMayChange
  <2> QED BY <1>8, <2>1, <2>2, <2>3 DEF LeaseStep
<1>9. CASE UNCHANGED vars
  BY <1>9 DEF vars
<1> QED
  BY <1>3, <1>4, <1>5, <1>6, <1>7, <1>8, <1>9 DEF Next

\* Leases are acquired, renewed, reclaimed and dropped in order (models.py).
THEOREM LeasesDisciplined == Spec => LeaseDiscipline
<1>1. IInv /\ [Next]_vars => [\A t \in Tasks : lease'[t] # lease[t] => LeaseMayChange(t)]_vars
  BY LeaseStepwise
<1> QED
  BY <1>1, InvariantHolds, PTL DEF Spec, LeaseDiscipline, LeaseMayChange

-----------------------------------------------------------------------------
(* The properties as the runs check them *)

\* What is being worked on is leased, what is unfinished has a message that
\* will finish it (upsert_task, advance_job, _expire_timed_out_messages).
THEOREM AllWorkAccounted == Spec => []WorkAccounted
BY InvariantHolds, PTL DEF IInv, WorkAccounted

\* No worker and no sender is left behind by a session that ends
\* (_settle_work_for_offline_agent_locked).
THEOREM NobodyIsLeftBehind == Spec => []NobodyLeftBehind
BY InvariantHolds, PTL DEF IInv, NobodyLeftBehind

\* Finished jobs and settled messages stay finished and settled (transition,
\* deliver_message_locked, timeout_reply_locked).
THEOREM NothingEverComesBack == Spec => NothingComesBack
BY FinishedJobsStay, SettledMessagesStay, PTL DEF NothingComesBack

-----------------------------------------------------------------------------
(* Where messages are *)

\* A message that is in one of these statuses is to be handed to nobody.
NowhereStatus == {"NONE", "DELIVERED", "RUNNING"}

\* DeliveredAtMostOnce, place by place: what is in an inbox, at each position,
\* and what is in each poll's hand.
Places ==
  /\ \A w \in Workers : \A i, j \in 1..Len(inbox[w]) : inbox[w][i] = inbox[w][j] => i = j
  /\ \A w \in Workers : \A i \in 1..Len(inbox[w]) :
       /\ To[inbox[w][i]] = w
       /\ msg[inbox[w][i]] \notin NowhereStatus
       /\ \A l \in Leases : poll[l] # inbox[w][i]
  /\ \A k \in Leases : poll[k] \in Msgs =>
       /\ msg[poll[k]] \notin NowhereStatus
       /\ \A l \in Leases : poll[k] = poll[l] => k = l

LEMMA InboxAt ==
  ASSUME TypeOK, NEW w \in Workers, NEW i \in 1..Len(inbox[w])
  PROVE  inbox[w][i] \in Msgs
<1>1. inbox[w] \in Seq(Msgs)
  BY DEF TypeOK
<1> QED
  BY <1>1

LEMMA PlacesSuffice == TypeOK /\ Places => DeliveredAtMostOnce
<1> SUFFICES ASSUME TypeOK, Places, NEW m \in Msgs
             PROVE /\ QueuedIn(m) = {} \/ HeldBy(m) = {}
                   /\ QueuedIn(m) \subseteq {To[m]}
                   /\ \A k, l \in HeldBy(m) : k = l
                   /\ \A i, j \in 1..Len(inbox[To[m]]) :
                        inbox[To[m]][i] = m /\ inbox[To[m]][j] = m => i = j
                   /\ msg[m] \in NowhereStatus => QueuedIn(m) \cup HeldBy(m) = {}
  BY DEF DeliveredAtMostOnce, NowhereStatus
<1>1. \A w \in QueuedIn(m) : w \in Workers /\ \E i \in 1..Len(inbox[w]) : inbox[w][i] = m
  BY DEF QueuedIn
<1>2. \A l \in HeldBy(m) : l \in Leases /\ poll[l] = m
  BY DEF HeldBy
<1>3. To[m] \in Workers
  OBVIOUS
<1> QED
  BY <1>1, <1>2, <1>3 DEF Places

\* Nothing new is anywhere, and nothing that is becomes a message to be handed
\* to nobody: the case of every step but the four that move a message.
LEMMA PlacesKept ==
  ASSUME TypeOK, Places, UNCHANGED inbox,
         \A l \in Leases : poll'[l] \in Msgs => poll'[l] = poll[l],
         \A m \in Msgs : msg'[m] \in NowhereStatus => msg[m] \in NowhereStatus
  PROVE  Places'
<1>1. \A w \in Workers : \A i, j \in 1..Len(inbox'[w]) : inbox'[w][i] = inbox'[w][j] => i = j
  BY DEF Places
<1>2. ASSUME NEW w \in Workers, NEW i \in 1..Len(inbox'[w])
      PROVE  /\ To[inbox'[w][i]] = w /\ msg'[inbox'[w][i]] \notin NowhereStatus
             /\ \A l \in Leases : poll'[l] # inbox'[w][i]
  <2>1. inbox[w][i] \in Msgs
    BY InboxAt
  <2> QED BY <2>1 DEF Places
<1>3. ASSUME NEW k \in Leases, poll'[k] \in Msgs
      PROVE  /\ msg'[poll'[k]] \notin NowhereStatus
             /\ \A l \in Leases : poll'[k] = poll'[l] => k = l
  BY <1>3 DEF Places
<1> QED
  BY <1>1, <1>2, <1>3 DEF Places

\* A message is sent once, and was nowhere before.
LEMMA EnqueuePlaces ==
  ASSUME TypeOK, Places, NEW m \in Msgs, NEW b \in BOOLEAN, Enqueue(m, b) PROVE Places'
<1> DEFINE q == inbox[To[m]]
<1>1. /\ msg[m] = "NONE" /\ msg' = [msg EXCEPT ![m] = "QUEUED"] /\ poll' = poll
      /\ inbox' = [inbox EXCEPT ![To[m]] = Append(q, m)]
  BY DEF Enqueue
<1>2. q \in Seq(Msgs) /\ To[m] \in Workers
  BY DEF TypeOK
<1>3. /\ Len(Append(q, m)) = Len(q) + 1 /\ Append(q, m)[Len(q) + 1] = m
      /\ \A i \in 1..Len(q) : Append(q, m)[i] = q[i]
  BY <1>2
<1>4. /\ \A w \in Workers : \A i \in 1..Len(inbox[w]) : inbox[w][i] # m
      /\ \A l \in Leases : poll[l] # m
  BY <1>1 DEF Places, NowhereStatus
<1>5. \A n \in Msgs : msg'[n] \in NowhereStatus => msg[n] \in NowhereStatus
  BY <1>1 DEF TypeOK, NowhereStatus
<1>6. \A w \in Workers \ {To[m]} : inbox'[w] = inbox[w]
  BY <1>1 DEF TypeOK
<1>7. inbox'[To[m]] = Append(q, m)
  BY <1>1, <1>2 DEF TypeOK
<1>8. ASSUME NEW i \in 1..Len(Append(q, m)) PROVE (i \in 1..Len(q) /\ Append(q, m)[i] = q[i])
                                                   \/ (i = Len(q) + 1 /\ Append(q, m)[i] = m)
  <2>1. Len(q) \in Nat
    BY <1>2
  <2> HIDE DEF q
  <2> QED BY <1>3, <2>1
<1>9. \A w \in Workers : \A i, j \in 1..Len(inbox'[w]) : inbox'[w][i] = inbox'[w][j] => i = j
  <2>1. ASSUME NEW i \in 1..Len(Append(q, m)), NEW j \in 1..Len(Append(q, m)),
               Append(q, m)[i] = Append(q, m)[j]
        PROVE  i = j
    BY <2>1, <1>2, <1>4, <1>8 DEF Places
  <2> QED BY <2>1, <1>6, <1>7 DEF Places
<1>10. ASSUME NEW w \in Workers, NEW i \in 1..Len(inbox'[w])
       PROVE  /\ To[inbox'[w][i]] = w /\ msg'[inbox'[w][i]] \notin NowhereStatus
              /\ \A l \in Leases : poll'[l] # inbox'[w][i]
  <2>1. CASE w # To[m]
    BY <2>1, <1>1, <1>5, <1>6, InboxAt DEF Places
  <2>2. CASE w = To[m] /\ i \in 1..Len(q)
    BY <2>2, <1>1, <1>3, <1>5, <1>7, InboxAt DEF Places
  <2>3. CASE w = To[m] /\ inbox'[w][i] = m
    BY <2>3, <1>1, <1>4 DEF TypeOK, NowhereStatus
  <2> QED BY <2>1, <2>2, <2>3, <1>7, <1>8
<1>11. ASSUME NEW k \in Leases, poll'[k] \in Msgs
       PROVE  /\ msg'[poll'[k]] \notin NowhereStatus
              /\ \A l \in Leases : poll'[k] = poll'[l] => k = l
  BY <1>1, <1>5, <1>11 DEF Places
<1> QED
  BY <1>9, <1>10, <1>11 DEF Places

\* A poll takes what was in the inbox, and leaves the rest one place further.
LEMMA PollTakePlaces ==
  ASSUME TypeOK, Places, NEW l \in Leases, PollTake(l) PROVE Places'
<1> DEFINE a == AgentOf[l]  q == inbox[a]
<1>1. /\ msg' = msg /\ poll[l] = "waiting" /\ poll' = [poll EXCEPT ![l] = Head(q)]
      /\ inbox' = [inbox EXCEPT ![a] = Tail(q)]
  BY DEF PollTake
<1>2. a \in Workers /\ q \in Seq(Msgs) /\ q # <<>>
  BY DEF TypeOK, PollTake
<1>3. 1 \in 1..Len(q) /\ Head(q) = q[1] /\ Head(q) \in Msgs
  BY <1>2
<1>4. \A i \in 1..Len(Tail(q)) : i + 1 \in 1..Len(q) /\ i + 1 # 1 /\ Tail(q)[i] = q[i + 1]
  BY <1>2
<1>5. inbox'[a] = Tail(q) /\ \A w \in Workers \ {a} : inbox'[w] = inbox[w]
  BY <1>1, <1>2 DEF TypeOK
<1>6. poll'[l] = q[1] /\ \A k \in Leases \ {l} : poll'[k] = poll[k]
  BY <1>1, <1>3 DEF TypeOK
<1>7. \A w \in Workers : \A i \in 1..Len(inbox'[w]) :
        \E j \in 1..Len(inbox[w]) : /\ inbox'[w][i] = inbox[w][j]
                                    /\ w = a => j = i + 1 /\ j # 1
                                    /\ w # a => j = i
  <2> SUFFICES ASSUME NEW w \in Workers, NEW i \in 1..Len(inbox'[w])
               PROVE  \E j \in 1..Len(inbox[w]) : /\ inbox'[w][i] = inbox[w][j]
                                                  /\ w = a => j = i + 1 /\ j # 1
                                                  /\ w # a => j = i
    OBVIOUS
  <2>1. CASE w = a
    <3>1. i + 1 \in 1..Len(q) /\ i + 1 # 1 /\ inbox'[w][i] = q[i + 1]
      BY <1>4, <1>5, <2>1
    <3> QED BY <2>1, <3>1
  <2>2. CASE w # a
    BY <1>5, <2>2
  <2> QED BY <2>1, <2>2
<1> HIDE DEF a, q
<1>8. ASSUME NEW w \in Workers, NEW i \in 1..Len(inbox'[w]), NEW j \in 1..Len(inbox'[w]),
             inbox'[w][i] = inbox'[w][j]
      PROVE  i = j
  <2>1. CASE w = a
    <3>1. /\ i + 1 \in 1..Len(inbox[w]) /\ inbox'[w][i] = inbox[w][i + 1]
          /\ j + 1 \in 1..Len(inbox[w]) /\ inbox'[w][j] = inbox[w][j + 1]
      BY <2>1, <1>7
    <3>2. i + 1 = j + 1
      BY <3>1, <1>8 DEF Places
    <3> QED BY <3>2
  <2>2. CASE w # a
    BY <2>2, <1>7, <1>8 DEF Places
  <2> QED BY <2>1, <2>2
<1>9. ASSUME NEW w \in Workers, NEW i \in 1..Len(inbox'[w])
      PROVE  /\ To[inbox'[w][i]] = w /\ msg'[inbox'[w][i]] \notin NowhereStatus
             /\ inbox'[w][i] # q[1]
             /\ \A k \in Leases \ {l} : poll'[k] # inbox'[w][i]
  <2>1. PICK j \in 1..Len(inbox[w]) : inbox'[w][i] = inbox[w][j] /\ (w = a => j # 1)
    BY <1>7
  <2>2. To[inbox[w][j]] = w /\ To[q[1]] = a
    BY <1>2, <1>3 DEF Places, q
  <2>3. inbox[w][j] # q[1]
    BY <2>1, <2>2, <1>2, <1>3 DEF Places, q
  <2> QED BY <1>1, <1>6, <2>1, <2>2, <2>3 DEF Places
<1>10. ASSUME NEW k \in Leases, poll'[k] \in Msgs
       PROVE  /\ msg'[poll'[k]] \notin NowhereStatus
              /\ \A n \in Leases : poll'[k] = poll'[n] => k = n
  <2>1. msg[q[1]] \notin NowhereStatus /\ \A n \in Leases : poll[n] # q[1]
    BY <1>2, <1>3 DEF Places, q
  <2> QED BY <1>1, <1>3, <1>6, <1>10, <2>1 DEF Places
<1> QED
  BY <1>6, <1>8, <1>9, <1>10 DEF Places

\* A poll delivers the message in its hand, which was nowhere else.
LEMMA DeliverPlaces ==
  ASSUME TypeOK, Places, NEW l \in Leases, poll[l] \in Msgs,
         msg' = [msg EXCEPT ![poll[l]] = "DELIVERED"], poll' = [poll EXCEPT ![l] = "idle"],
         UNCHANGED inbox
  PROVE  Places'
<1>1. \A m \in Msgs \ {poll[l]} : msg'[m] = msg[m]
  BY DEF TypeOK
<1>2. \A k \in Leases : poll'[k] \in Msgs => poll'[k] = poll[k] /\ k # l
  BY DEF TypeOK
<1>3. ASSUME NEW w \in Workers, NEW i \in 1..Len(inbox[w])
      PROVE  msg'[inbox[w][i]] \notin NowhereStatus /\ \A k \in Leases : poll'[k] # inbox[w][i]
  <2>1. inbox[w][i] \in Msgs \ {poll[l]}
    BY InboxAt DEF Places
  <2> QED BY <1>1, <1>2, <2>1 DEF Places
<1>4. ASSUME NEW k \in Leases, poll'[k] \in Msgs
      PROVE  /\ msg'[poll'[k]] \notin NowhereStatus
             /\ \A n \in Leases : poll'[k] = poll'[n] => k = n
  BY <1>1, <1>2, <1>4 DEF Places
<1> QED
  BY <1>3, <1>4 DEF Places

LEMMA PlacesStep == TypeOK /\ Places /\ [Next]_vars => Places'
<1> SUFFICES ASSUME TypeOK, Places, [Next]_vars PROVE Places'
  OBVIOUS
<1>1. ASSUME NEW m \in Msgs, NEW b \in BOOLEAN, Enqueue(m, b) PROVE Places'
  BY <1>1, EnqueuePlaces
<1>2. ASSUME NEW m \in Msgs, EnqueueRaises(m) PROVE Places'
  BY <1>2, PlacesKept DEF EnqueueRaises, TypeOK, NowhereStatus
<1>3. ASSUME NEW l \in Leases, PollBegin(l) \/ PollEmpty(l) \/ PollSkip(l) \/ PollConflict(l)
      PROVE  Places'
  <2>1. UNCHANGED <<msg, inbox>>
    BY <1>3 DEF PollBegin, PollEmpty, PollSkip, PollConflict
  <2>2. \A k \in Leases : poll'[k] \in Msgs => poll'[k] = poll[k]
    BY <1>3 DEF PollBegin, PollEmpty, PollSkip, PollConflict, TypeOK
  <2> QED BY <2>1, <2>2, PlacesKept
<1>4. ASSUME NEW l \in Leases, PollTake(l) PROVE Places'
  BY <1>4, PollTakePlaces
<1>5. ASSUME NEW l \in Leases, PollDeliver(l) \/ PollDeliverRaises(l) PROVE Places'
  BY <1>5, DeliverPlaces DEF PollDeliver, PollDeliverRaises, Deliver
<1>6. ASSUME NEW m \in Msgs, StartRunning(m) PROVE Places'
  <2>1. msg[m] \in {"DELIVERED", "RUNNING"} /\ UNCHANGED <<inbox, poll>>
    BY <1>6 DEF StartRunning, Known, Busy, BusyMessageStatus
  <2>2. \A n \in Msgs : msg'[n] \in NowhereStatus => msg[n] \in NowhereStatus
    BY <1>6, <2>1 DEF StartRunning, TypeOK, NowhereStatus
  <2> QED BY <2>1, <2>2, PlacesKept
<1>7. ASSUME NEW m \in Msgs, NEW l \in Leases, NEW e \in 0..MaxEpoch,
             NEW s \in {"DONE", "FAILED"}, Reply(m, l, e, s)
      PROVE  Places'
  BY <1>7, PlacesKept DEF Reply, TypeOK, NowhereStatus
<1>8. ASSUME NEW m \in Msgs, TimeoutMessage(m) PROVE Places'
  BY <1>8, PlacesKept DEF TimeoutMessage, Settle, NowhereStatus
<1>9. ASSUME NEW item, CancelWork(item) PROVE Places'
  BY <1>9, PlacesKept DEF CancelWork, Settle, NowhereStatus
<1>10. ASSUME NEW l \in Leases, EndSession(l) PROVE Places'
  BY <1>10, PlacesKept DEF EndSession, Settle, NowhereStatus
<1>11. ASSUME NEW m \in Msgs, TimeoutReply(m) PROVE Places'
  BY <1>11, PlacesKept DEF TimeoutReply, TypeOK, NowhereStatus
<1>12. ASSUME UNCHANGED <<msg, inbox, poll>> PROVE Places'
  BY <1>12, PlacesKept
<1> QED
  BY <1>1, <1>2, <1>3, <1>4, <1>5, <1>6, <1>7, <1>8, <1>9, <1>10, <1>11, <1>12
  DEF Next, SenderStep, PollStep, WorkerStep, SettleStep, SessionStep, WaitStep, LeaseStep,
      MarkRunning, RecordActivity, ReplyAny, ReplyJobStatus, ReleaseSession, ExpireSession,
      AcquireSession, TimerFires, WaitForTask, TaskWaitExpires, LeaseLapses, HeartbeatJob,
      ReclaimJob, vars

\* No message is handed out twice, although a poll pops it outside the lock and
\* the session may change hands before it delivers (memory.py, get_next_message).
THEOREM NobodyGetsItTwice == Spec => []DeliveredAtMostOnce
<1>1. Init => Places
  BY DEF Init, Places, NowhereStatus
<1> QED
  BY <1>1, TypeInit, TypeStep, PlacesStep, PlacesSuffice, PTL DEF Spec

=============================================================================
