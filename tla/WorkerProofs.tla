---------------------------- MODULE WorkerProofs ----------------------------
(***************************************************************************)
(* Proofs about a worker, for any number of tasks, polls, prompts, starts  *)
(* and faults: WorkerAgent, its extension, answers a task once; and        *)
(* WorkerSupervisor, the process around it, leaves no Pi behind.           *)
(***************************************************************************)
EXTENDS WorkerAgent, WorkerSupervisor, TLAPS

USE WorkerConstantsOK DEF Tasks, None

\* Where a task is on its way from the broker to its answer, which is one place:
\* what is current is not pending, what is pending does not arrive, and so on.
OnePlace ==
  \A t \in Tasks :
    /\ posts[t] <= 1
    /\ work[t] \in {"NEW", "QUEUED"} =>
         t \notin arriving /\ pendingTask # t /\ currentTask # t /\ posts[t] = 0
    /\ t \in arriving => pendingTask # t /\ currentTask # t /\ posts[t] = 0
    /\ pendingTask = t => currentTask # t /\ posts[t] = 0
    /\ currentTask = t => posts[t] = 0

IInv == TypeOK /\ OnePlace

LEMMA InitOK == Init => IInv
<1> SUFFICES ASSUME Init PROVE IInv
  OBVIOUS
<1>1. OnePlace
  BY DEF Init, OnePlace
<1>2. work \in [Tasks -> Status] /\ posts \in [Tasks -> Nat]
  BY DEF Init, Status
<1>3. reply \in [Tasks -> {"none", "posted", "ok", "failed"}]
  BY DEF Init
<1>4. faults \in 0..MaxFaults /\ polling \in 0..MaxPolls
  BY DEF Init, WorkerConstantsOK
<1>5. /\ agent \in {"starting", "serving", "stopped"}
      /\ cancelNoticeSent \in BOOLEAN /\ leaseLost \in BOOLEAN /\ timer \in BOOLEAN
  BY DEF Init
<1> QED
  BY <1>1, <1>2, <1>3, <1>4, <1>5 DEF Init, IInv, TypeOK

\* What only changes flags, timers and requests.
LEMMA Elsewhere ==
  ASSUME IInv, UNCHANGED <<work, arriving, pendingTask, currentTask, posts>>, TypeOK'
  PROVE  IInv'
BY DEF IInv, OnePlace

LEMMA BrokerStep ==
  ASSUME IInv, NEW t \in Tasks, Send(t) \/ Settle(t) \/ Reclaim(t) \/ Deliver(t) \/ SaveReply(t)
  PROVE  IInv'
<1> USE DEF IInv
<1>1. /\ UNCHANGED <<agent, pendingTask, currentTask, cancelNoticeSent, leaseLost>>
      /\ UNCHANGED <<timer, recovery, checks, renewals, posts, prompts, turns, taken>>
  BY DEF Send, Settle, Reclaim, Deliver, SaveReply, AgentIdle, taskVars, askVars
<1>2. ASSUME work' \in [Tasks -> Status], mine' \subseteq Tasks, arriving' = arriving,
             \A u \in Tasks : work'[u] \in {"NEW", "QUEUED"} => work[u] \in {"NEW", "QUEUED"},
             polling' = polling, reply' \in [Tasks -> {"none", "posted", "ok", "failed"}],
             faults' \in 0..MaxFaults
      PROVE  IInv'
  <2>1. TypeOK'
    BY <1>1, <1>2 DEF TypeOK
  <2>2. OnePlace'
    BY <1>1, <1>2 DEF OnePlace
  <2> QED
    BY <2>1, <2>2
<1>3. CASE Send(t)
  <2>1. work[t] = "NEW" /\ work' = [work EXCEPT ![t] = "QUEUED"]
        /\ UNCHANGED <<mine, polling, arriving, reply, faults>>
    BY <1>3 DEF Send
  <2>2. work' \in [Tasks -> Status]
        /\ \A u \in Tasks : work'[u] \in {"NEW", "QUEUED"} => work[u] \in {"NEW", "QUEUED"}
    BY <2>1 DEF TypeOK, Status
  <2> QED
    BY <1>2, <2>1, <2>2 DEF TypeOK
<1>4. CASE Settle(t)
  <2>1. PICK s \in {"CANCELLED", "DONE"} : work' = [work EXCEPT ![t] = s]
    BY <1>4 DEF Settle
  <2>2. mine' = mine \ {t} /\ UNCHANGED <<polling, arriving, reply, faults>>
    BY <1>4 DEF Settle
  <2>3. work' \in [Tasks -> Status]
        /\ \A u \in Tasks : work'[u] \in {"NEW", "QUEUED"} => work[u] \in {"NEW", "QUEUED"}
    BY <2>1 DEF TypeOK, Status
  <2> QED
    BY <1>2, <2>2, <2>3 DEF TypeOK
<1>5. CASE Reclaim(t)
  BY <1>2, <1>5 DEF Reclaim, TypeOK
<1>6. CASE Deliver(t)
  <2>1. /\ work[t] = "QUEUED" /\ work' = [work EXCEPT ![t] = "DELIVERED"]
        /\ mine' = mine \cup {t} /\ polling > 0 /\ polling' = polling - 1
        /\ arriving' = arriving \cup {t} /\ UNCHANGED <<reply, faults>>
    BY <1>6 DEF Deliver
  <2>2. work' \in [Tasks -> Status] /\ polling' \in 0..MaxPolls
    BY <2>1 DEF TypeOK, Status
  <2>3. TypeOK'
    BY <1>1, <2>1, <2>2 DEF TypeOK
  <2>4. OnePlace'
    BY <1>1, <2>1 DEF OnePlace, TypeOK
  <2> QED
    BY <2>3, <2>4
<1>7. CASE SaveReply(t)
  <2>1. UNCHANGED <<polling, arriving>>
    BY <1>7 DEF SaveReply
  <2>2. reply' \in [Tasks -> {"none", "posted", "ok", "failed"}] /\ faults' \in 0..MaxFaults
    BY <1>7 DEF SaveReply, Fails, TypeOK
  <2>3. work' \in [Tasks -> Status] /\ mine' \subseteq Tasks
        /\ \A u \in Tasks : work'[u] \in {"NEW", "QUEUED"} => work[u] \in {"NEW", "QUEUED"}
    <3>1. \/ UNCHANGED <<work, mine>>
          \/ work' = [work EXCEPT ![t] = "DONE"] /\ mine' = mine \ {t}
      BY <1>7 DEF SaveReply, Stored
    <3> QED
      BY <3>1 DEF TypeOK, Status
  <2> QED
    BY <1>2, <2>1, <2>2, <2>3
<1> QED
  BY <1>3, <1>4, <1>5, <1>6, <1>7

LEMMA PollStep ==
  ASSUME IInv,
         SessionStart \/ PollFires \/ PollEmpty \/ (\E t \in Tasks : PollArrives(t) \/ PollLost(t))
  PROVE  IInv'
<1> USE DEF IInv
<1>1. CASE SessionStart
  <2>1. TypeOK'
    BY <1>1 DEF SessionStart, TypeOK, brokerVars, taskVars, askVars, replyVars
  <2> QED
    BY <1>1, <2>1, Elsewhere DEF SessionStart, brokerVars, taskVars, replyVars
       
<1>2. CASE PollFires
  <2>1. timer' = FALSE /\ polling' \in 0..MaxPolls
    BY <1>2 DEF PollFires, TypeOK
  <2>2. TypeOK'
    BY <1>2, <2>1 DEF PollFires, TypeOK, brokerVars, taskVars, askVars, replyVars
  <2> QED
    BY <1>2, <2>2, Elsewhere DEF PollFires, brokerVars, taskVars, replyVars
<1>3. (PollEmpty \/ \E t \in Tasks : PollArrives(t) \/ PollLost(t)) =>
        /\ timer' \in BOOLEAN /\ taken' \subseteq Tasks
        /\ UNCHANGED <<work, mine, agent, currentTask, cancelNoticeSent, leaseLost>>
        /\ UNCHANGED <<recovery, checks, renewals, reply, posts, turns>>
  BY DEF PollEmpty, PollArrives, PollLost, PollIdle, PollEnds, Schedule, TypeOK, Displaced,
         brokerVars, askVars, replyVars
<1>4. CASE PollEmpty
  <2>1. polling' \in 0..MaxPolls /\ UNCHANGED <<arriving, pendingTask, prompts, faults>>
    BY <1>4 DEF PollEmpty, TypeOK
  <2>2. TypeOK'
    BY <1>3, <1>4, <2>1 DEF TypeOK
  <2> QED
    BY <1>3, <1>4, <2>1, <2>2, Elsewhere
<1>5. ASSUME NEW t \in Tasks, PollArrives(t) \/ PollLost(t) PROVE IInv'
  <2>1. /\ t \in arriving /\ arriving' = arriving \ {t} /\ polling' = polling
        /\ pendingTask' \in {pendingTask, None, t}
        /\ prompts' \in {prompts, prompts + 1} /\ (UNCHANGED faults \/ Fails)
    BY <1>5 DEF PollArrives, PollLost
  <2>2. prompts' \in Nat /\ faults' \in 0..MaxFaults
    BY <2>1 DEF Fails, TypeOK
  <2>3. TypeOK'
    BY <1>3, <1>5, <2>1, <2>2 DEF TypeOK
  <2>4. OnePlace'
    BY <1>3, <1>5, <2>1 DEF OnePlace, TypeOK
  <2> QED
    BY <2>3, <2>4
<1> QED
  BY <1>1, <1>2, <1>4, <1>5

LEMMA TaskStepOK ==
  ASSUME IInv, Input \/ MessageEnd \/ MessageRecovers \/ RecoveryFires
  PROVE  IInv'
<1> USE DEF IInv
<1>1. CASE Input
  <2>0. taken' \subseteq Tasks
    <3>1. taken' = taken \/ taken' = Displaced(pendingTask, currentTask)
      BY <1>1 DEF Input
    <3> QED
      BY <3>1 DEF Displaced, TypeOK
  <2>1. /\ prompts' \in Nat /\ turns' \in Nat
        /\ UNCHANGED <<work, mine, agent, timer, polling, arriving, recovery>>
        /\ UNCHANGED <<checks, renewals, reply, posts, faults>>
    BY <1>1 DEF Input, TypeOK, brokerVars, pollVars, askVars, replyVars
  <2>2. CASE UNCHANGED taskVars
    <3>1. UNCHANGED <<pendingTask, currentTask, cancelNoticeSent, leaseLost>>
      BY <2>2 DEF taskVars
    <3>2. TypeOK'
      BY <2>0, <2>1, <3>1 DEF TypeOK
    <3> QED
      BY <2>1, <3>1, <3>2, Elsewhere
  <2>3. CASE /\ pendingTask # None /\ currentTask' = pendingTask /\ pendingTask' = None
             /\ cancelNoticeSent' = FALSE /\ leaseLost' = FALSE
    <3>1. TypeOK'
      BY <2>0, <2>1, <2>3 DEF TypeOK
    <3>2. OnePlace'
      BY <2>1, <2>3 DEF OnePlace, TypeOK
    <3> QED
      BY <3>1, <3>2
  <2> QED
    BY <1>1, <2>2, <2>3 DEF Input
<1>2. (MessageEnd \/ MessageRecovers \/ RecoveryFires) =>
        /\ turns' \in Nat
        /\ UNCHANGED <<work, mine, agent, taken, pendingTask, cancelNoticeSent, leaseLost>>
        /\ UNCHANGED <<timer, polling, arriving, checks, renewals, prompts, faults>>
  BY DEF MessageEnd, MessageRecovers, RecoveryFires, EndIdle, TypeOK, brokerVars, pollVars, askVars
<1>3. ASSUME MessageEnd \/ MessageRecovers \/ RecoveryFires,
             UNCHANGED <<currentTask, reply, posts>>, recovery' \in Tasks \cup {None}
      PROVE  IInv'
  <2>1. TypeOK'
    BY <1>2, <1>3 DEF TypeOK
  <2> QED
    BY <1>2, <1>3, <2>1, Elsewhere
<1>4. ASSUME MessageEnd \/ MessageRecovers \/ RecoveryFires,
             currentTask \in Tasks, currentTask' = None, recovery' = None, Posts(currentTask)
      PROVE  IInv'
  <2>1. /\ reply' \in [Tasks -> {"none", "posted", "ok", "failed"}]
        /\ posts' = [posts EXCEPT ![currentTask] = @ + 1] /\ posts' \in [Tasks -> Nat]
    BY <1>4 DEF Posts, TypeOK
  <2>2. TypeOK'
    BY <1>2, <1>4, <2>1 DEF TypeOK
  <2>3. OnePlace'
    BY <1>2, <1>4, <2>1 DEF OnePlace, TypeOK
  <2> QED
    BY <2>2, <2>3
<1>5. CASE MessageEnd
  BY <1>3, <1>4, <1>5 DEF MessageEnd, TypeOK, replyVars
<1>6. CASE MessageRecovers
  BY <1>3, <1>6 DEF MessageRecovers, TypeOK, replyVars
<1>7. CASE RecoveryFires
  BY <1>3, <1>4, <1>7 DEF RecoveryFires, TypeOK, replyVars
<1> QED
  BY <1>1, <1>5, <1>6, <1>7

LEMMA RequestStep ==
  ASSUME IInv,
         CheckAsks \/ RenewAsks \/ (\E t \in Tasks : ReplyReturns(t) \/ CheckReturns(t)
               \/ RenewReturns(t))
  PROVE  IInv'
<1> USE DEF IInv
<1>1. ASSUME NEW t \in Tasks, ReplyReturns(t) PROVE IInv'
  <2>1. /\ reply' \in [Tasks -> {"none", "posted", "ok", "failed"}]
        /\ timer' \in BOOLEAN /\ agent' \in {"starting", "serving", "stopped"}
        /\ recovery' \in Tasks \cup {None}
        /\ UNCHANGED <<work, mine, taken, pendingTask, currentTask, cancelNoticeSent, leaseLost>>
        /\ UNCHANGED <<polling, arriving, checks, renewals, posts, prompts, turns, faults>>
    BY <1>1 DEF ReplyReturns, Stops, Schedule, TypeOK, brokerVars, taskVars, askVars
  <2>2. TypeOK'
    BY <2>1 DEF TypeOK
  <2> QED
    BY <2>1, <2>2, Elsewhere
<1>2. ASSUME CheckAsks \/ RenewAsks \/ (\E t \in Tasks : CheckReturns(t) \/ RenewReturns(t))
      PROVE  IInv'
  <2>1. /\ checks' \subseteq Tasks /\ renewals' \subseteq Tasks /\ turns' \in Nat
        /\ cancelNoticeSent' \in BOOLEAN /\ leaseLost' \in BOOLEAN
        /\ UNCHANGED <<work, mine, agent, taken, pendingTask, currentTask, timer, polling>>
        /\ UNCHANGED <<arriving, recovery, reply, posts, prompts, faults>>
    <3> USE DEF AskIdle, Steers, TypeOK, brokerVars, pollVars, replyVars
    <3>1. CASE CheckAsks
      BY <3>1 DEF CheckAsks
    <3>2. CASE RenewAsks
      BY <3>2 DEF RenewAsks
    <3>3. CASE \E t \in Tasks : CheckReturns(t)
      <4>1. PICK t \in Tasks : CheckReturns(t)
        BY <3>3
      <4>2. turns' \in {turns, turns + 1} /\ cancelNoticeSent' \in {cancelNoticeSent, TRUE}
        BY <4>1 DEF CheckReturns
      <4>3. checks' = checks \ {t} /\ UNCHANGED <<renewals, leaseLost>> /\ AskIdle
        BY <4>1 DEF CheckReturns
      <4>4. cancelNoticeSent' \in BOOLEAN
        <5>1. cancelNoticeSent \in BOOLEAN
          OBVIOUS
        <5> QED
          BY <4>2, <5>1, Zenon
      <4>5. turns' \in Nat /\ checks' \subseteq Tasks
        BY <4>2, <4>3
      <4> QED
        BY <4>3, <4>4, <4>5
    <3>4. CASE \E t \in Tasks : RenewReturns(t)
      <4>1. PICK t \in Tasks : RenewReturns(t)
        BY <3>4
      <4>2. turns' \in {turns, turns + 1} /\ leaseLost' \in {leaseLost, TRUE}
        BY <4>1 DEF RenewReturns
      <4>3. renewals' = renewals \ {t} /\ UNCHANGED <<checks, cancelNoticeSent>> /\ AskIdle
        BY <4>1 DEF RenewReturns
      <4>4. leaseLost' \in BOOLEAN
        <5>1. leaseLost \in BOOLEAN
          OBVIOUS
        <5> QED
          BY <4>2, <5>1, Zenon
      <4>5. turns' \in Nat /\ renewals' \subseteq Tasks
        BY <4>2, <4>3
      <4> QED
        BY <4>3, <4>4, <4>5
    <3> QED
      BY <1>2, <3>1, <3>2, <3>3, <3>4
  <2>2. TypeOK'
    BY <2>1 DEF TypeOK
  <2> QED
    BY <2>1, <2>2, Elsewhere
<1> QED
  BY <1>1, <1>2

\* However the end of a turn, the deferred failure, an abort and the turn of a
\* notice meet, a task is answered once (pi_extension_worker.py:635).
THEOREM EveryTaskIsAnsweredOnce == Spec => []AgentOK
<1>1. IInv /\ [Next]_vars => IInv'
  <2> SUFFICES ASSUME IInv, [Next]_vars PROVE IInv'
    OBVIOUS
  <2>1. CASE UNCHANGED vars
    <3>1. TypeOK'
      BY <2>1 DEF IInv, TypeOK, vars, brokerVars, taskVars, pollVars, askVars, replyVars
    <3>2. UNCHANGED <<work, arriving, pendingTask, currentTask, posts>>
      BY <2>1 DEF vars, brokerVars, taskVars, pollVars, replyVars
    <3> QED
      BY <3>1, <3>2, Elsewhere
  <2>2. CASE Next
    BY <2>2, BrokerStep, PollStep, TaskStepOK, RequestStep DEF Next, TaskStep
  <2> QED
    BY <2>1, <2>2
<1>2. IInv => AgentOK
  BY DEF IInv, AgentOK, AnsweredOnce, OnePlace
<1> QED
  BY InitOK, <1>1, <1>2, PTL DEF Spec

-----------------------------------------------------------------------------
(* The supervisor *)

USE SupervisorConstantsOK DEF Sups, NoSup

\* Where the main thread is tells whether Pi was started, whether the thread has
\* hold of it, and whether it can still be alive: once it was spawned every way
\* to the end leads through the assignment or through nothing to clean up.
PiFollows(s) ==
  /\ main[s] \in {"none", "start", "acquire", "spawn"} => child[s] = "none" /\ ~known[s]
  /\ main[s] = "assign" => ~known[s]
  /\ main[s] \in {"write", "read", "wait"} => known[s]
  /\ main[s] = "clean" /\ child[s] = "alive" => known[s]
  /\ main[s] \in {"release", "unlink"} => child[s] # "alive"
  /\ main[s] = "gone" /\ ~killed[s] => child[s] # "alive"

SupervisorInv == SupTypeOK /\ \A s \in Sups : PiFollows(s)

\* The main thread keeps every variable's type.
LEMMA MainTypes ==
  ASSUME SupTypeOK, NEW s \in Sups, MainStep(s) PROVE SupTypeOK'
<1> USE DEF SupTypeOK, MainState, BeatState, ChildState, SessionState, Goes,
      OthersIdle, SupFails
<1>1. CASE Start(s)
  <2>1. /\ \E to \in MainState : main' = [main EXCEPT ![s] = to]
        /\ supFaults' \in 0..MaxSupFaults
    BY <1>1 DEF Start
  <2> QED BY <1>1, <2>1 DEF Start
<1>2. CASE Acquire(s)
  <2>1. /\ \E to \in MainState : main' = [main EXCEPT ![s] = to]
        /\ supFaults' \in 0..MaxSupFaults
    BY <1>2 DEF Acquire
  <2>2. /\ session' \in [Sups -> SessionState] /\ leased' \in [Sups -> BOOLEAN]
        /\ beat' \in [Sups -> BeatState]
        /\ \A r \in Sups : beat'[r] = "killing" => beat[r] = "killing"
    <3>1. session' \in {session, [session EXCEPT ![s] = "ACTIVE"]}
      BY <1>2 DEF Acquire
    <3>2. leased' \in {leased, [leased EXCEPT ![s] = TRUE]}
      BY <1>2 DEF Acquire
    <3>3. beat' \in {beat, [beat EXCEPT ![s] = "sleeping"]}
      BY <1>2 DEF Acquire
    <3>4. beat' \in [Sups -> BeatState]
          /\ \A r \in Sups : beat'[r] = "killing" => beat[r] = "killing"
      BY <3>3
    <3>5. session' \in [Sups -> SessionState]
      BY <3>1
    <3>6. leased' \in [Sups -> BOOLEAN]
      BY <3>2
    <3> QED BY <3>4, <3>5, <3>6
  <2> QED BY <1>2, <2>1, <2>2 DEF Acquire
<1>3. CASE Spawn(s)
  <2>1. /\ \E to \in MainState : main' = [main EXCEPT ![s] = to]
        /\ supFaults' \in 0..MaxSupFaults /\ child' \in [Sups -> ChildState]
    BY <1>3 DEF Spawn
  <2> QED BY <1>3, <2>1 DEF Spawn
<1>12. CASE Assign(s)
  BY <1>12 DEF Assign
<1>4. CASE WriteChildPid(s)
  BY <1>4 DEF WriteChildPid
<1>5. CASE Read(s)
  BY <1>5 DEF Read
<1>13. CASE Wait(s)
  BY <1>13 DEF Wait
<1>6. CASE Clean(s)
  BY <1>6 DEF Clean
<1>7. CASE Release(s)
  BY <1>7 DEF Release
<1>8. CASE Unlink(s)
  BY <1>8 DEF Unlink
<1>9. CASE DiesEarly(s)
  BY <1>9 DEF DiesEarly
<1>10. CASE HandleStop(s)
  BY <1>10 DEF HandleStop
<1>11. CASE HandlerTerminates(s)
  BY <1>11 DEF HandlerTerminates
<1> QED
  BY <1>1, <1>2, <1>3, <1>4, <1>5, <1>6, <1>7, <1>8, <1>9, <1>10, <1>11, <1>12,
        <1>13 DEF MainStep

\* How far a command has come, whichever it is.
Stage == {"idle", "signal", "terminate", "release", "launch", "write"}

\* A command goes on to another stage, or to another process as well.
LEMMA CommandMoves ==
  ASSUME NEW c \in CommandState, NEW at \in Stage
  PROVE  [c EXCEPT !.at = at] \in CommandState
BY DEF CommandState, Stage

LEMMA CommandMovesWith ==
  ASSUME NEW c \in CommandState, NEW at \in Stage, NEW s \in Sups \cup {NoSup}
  PROVE  [c EXCEPT !.at = at, !.pid = s] \in CommandState
BY Zenon DEF CommandState, Stage

LEMMA CommandStarts ==
  ASSUME NEW op \in {"work", "replace", "stop"}, NEW at \in Stage, NEW S \in SUBSET Sups
  PROVE  [op |-> op, at |-> at, pid |-> NoSup, sessions |-> S] \in CommandState
BY DEF CommandState, Stage

LEMMA CommandTypes ==
  ASSUME cmd \in CommandState, pidFile \in Sups \cup {NoSup},
        Command \/ CommandStep
  PROVE  cmd' \in CommandState
<1>1. CASE Command
  <2>1. Active \in SUBSET Sups /\ {} \in SUBSET Sups
    BY DEF Active
  <2>2. \/ \E at \in Stage : cmd' = [op |-> "work", at |-> at, pid |-> NoSup, sessions |-> {}]
        \/ cmd' = [op |-> "replace", at |-> "signal", pid |-> NoSup, sessions |-> Active]
        \/ cmd' = [op |-> "stop", at |-> "signal", pid |-> NoSup, sessions |-> Active]
    BY <1>1, Zenon DEF Command, Stage
  <2>3. "signal" \in Stage
    BY DEF Stage
  <2> QED BY <2>1, <2>2, <2>3, CommandStarts
<1>2. CASE Signal
  <2>1. \/ cmd' = [cmd EXCEPT !.at = "terminate", !.pid = pidFile]
        \/ cmd' = [cmd EXCEPT !.at = "release"]
    BY <1>2, Zenon DEF Signal
  <2> QED BY <2>1, CommandMoves, CommandMovesWith, Zenon DEF Stage
<1>3. CASE Terminated \/ ReleaseSessions
  <2>1. cmd' = NoCommand \/ \E at \in Stage : cmd' = [cmd EXCEPT !.at = at]
    <3>1. CASE Terminated
      BY <3>1, Zenon DEF Terminated, Stage
    <3>2. CASE ReleaseSessions
      BY <3>2, Zenon DEF ReleaseSessions, Stage
    <3> QED BY <1>3, <3>1, <3>2
  <2>2. NoCommand \in CommandState
    BY DEF NoCommand, CommandState
  <2> QED BY <2>1, <2>2, CommandMoves, Zenon
<1>4. CASE Launch
  <2>1. PICK s \in Sups : cmd' = [cmd EXCEPT !.at = "write", !.pid = s]
    BY <1>4, Zenon DEF Launch
  <2> QED BY <2>1, CommandMovesWith, Zenon DEF Stage
<1>5. CASE WritePid
  BY <1>5 DEF WritePid, NoCommand, CommandState
<1> QED BY <1>1, <1>2, <1>3, <1>4, <1>5 DEF CommandStep

\* So do the other thread, Pi, the broker and the commands.
LEMMA OtherTypes ==
  ASSUME SupTypeOK,
         \/ \E s \in Sups : BeatStep(s) \/ ChildEnds(s) \/ Expire(s)
               \/ ExpireLate(s)
         \/ Forget \/ Command \/ CommandStep
  PROVE  SupTypeOK'
<1> USE DEF SupTypeOK, MainState, BeatState, ChildState, SessionState, SupFails
<1>1. ASSUME NEW s \in Sups, BeatStep(s) \/ ChildEnds(s) PROVE SupTypeOK'
  <2>1. /\ beat' \in [Sups -> BeatState] /\ child' \in [Sups -> ChildState]
        /\ stop' \in [Sups -> BOOLEAN] /\ supFaults' = supFaults /\ BeatIdle
        /\ \A r \in Sups : beat'[r] = "killing" => beat[r] = "killing" \/ known[r]
    <3>1. CASE BeatAsks(s)
      BY <3>1 DEF BeatAsks, BeatIdle
    <3>2. CASE BeatReturns(s)
      BY <3>2 DEF BeatReturns, BeatIdle
    <3>3. CASE BeatTerminates(s) \/ ChildEnds(s)
      BY <3>3 DEF BeatTerminates, ChildEnds, BeatIdle
    <3> QED BY <1>1, <3>1, <3>2, <3>3 DEF BeatStep
  <2> QED BY <2>1 DEF BeatIdle
<1>2. ASSUME NEW s \in Sups, Expire(s) \/ ExpireLate(s) PROVE SupTypeOK'
  <2>1. /\ session' \in [Sups -> SessionState] /\ supFaults' \in 0..MaxSupFaults
        /\ UNCHANGED <<supVars, term, beat, child, pidFile, childFile, cmd>>
    BY <1>2 DEF Expire, ExpireLate, BrokerOnly
  <2> QED BY <2>1 DEF supVars
<1>3. CASE Forget
  BY <1>3 DEF Forget, BrokerOnly, supVars
<1>4. ASSUME Command \/ Signal \/ ReleaseSessions \/ Launch \/ WritePid
      PROVE SupTypeOK'
  <2>1. cmd' \in CommandState
    BY <1>4, CommandTypes DEF CommandStep
  <2>2. pidFile' \in Sups \cup {NoSup}
    BY <1>4 DEF Command, Signal, ReleaseSessions, Launch, WritePid,
          CommandState
  <2>3. term' \in [Sups -> BOOLEAN] /\ session' \in [Sups -> SessionState]
        /\ supFaults' \in 0..MaxSupFaults /\ main' \in [Sups -> MainState]
    <3>1. CASE Command \/ Signal \/ WritePid
      BY <3>1 DEF Command, Signal, WritePid
    <3>2. CASE ReleaseSessions
      BY <3>2 DEF ReleaseSessions
    <3>3. CASE Launch
      BY <3>3 DEF Launch
    <3> QED BY <1>4, <3>1, <3>2, <3>3
  <2>4. UNCHANGED <<killed, beat>> /\ CommandOnly
    BY <1>4 DEF Command, Signal, ReleaseSessions, Launch, WritePid
  <2> QED BY <2>1, <2>2, <2>3, <2>4 DEF CommandOnly
<1>5. CASE Terminated
  <2>1. cmd' \in CommandState
    BY <1>5, CommandTypes DEF CommandStep
  <2> QED BY <1>5, <2>1 DEF Terminated
<1> QED
  BY <1>1, <1>2, <1>3, <1>4, <1>5 DEF CommandStep

\* A Pi that only ends, and that its supervisor may have ended, follows still.
LEMMA PiElsewhere ==
  ASSUME NEW s \in Sups, PiFollows(s),
         main'[s] = main[s], known'[s] = known[s], killed'[s] = killed[s],
         child'[s] \in {child[s], "dead"}, child'[s] # child[s] => child[s] = "alive" \/ known[s]
  PROVE  PiFollows(s)'
BY DEF PiFollows

LEMMA MainPi ==
  ASSUME SupervisorInv, NEW s \in Sups, MainStep(s) PROVE \A r \in Sups : PiFollows(r)'
<1> USE DEF SupervisorInv, SupTypeOK
<1>1. ASSUME NEW r \in Sups \ {s} PROVE PiFollows(r)'
  <2>1. /\ main'[r] = main[r] /\ known'[r] = known[r] /\ child'[r] = child[r]
        /\ killed'[r] = killed[r]
    BY DEF MainStep, Start, Acquire, Spawn, Assign, WriteChildPid,
          Read, Wait, Clean, Release,
       Unlink, DiesEarly, HandleStop, HandlerTerminates, Goes, OthersIdle
  <2> QED BY <2>1, PiElsewhere
<1>2. PiFollows(s)'
  <2> USE DEF PiFollows, Goes, OthersIdle
  <2>1. CASE Start(s) \/ Acquire(s) \/ Spawn(s) \/ Assign(s)
    BY <2>1 DEF Start, Acquire, Spawn, Assign
  <2>2. CASE WriteChildPid(s) \/ Read(s) \/ Wait(s) \/ Clean(s)
        \/ Release(s) \/ Unlink(s)
    BY <2>2 DEF WriteChildPid, Read, Wait, Clean, Release, Unlink
  <2>3. CASE DiesEarly(s) \/ HandleStop(s) \/ HandlerTerminates(s)
    BY <2>3 DEF DiesEarly, HandleStop, HandlerTerminates
  <2> QED BY <2>1, <2>2, <2>3 DEF MainStep
<1> QED
  BY <1>1, <1>2

LEMMA OtherPi ==
  ASSUME SupervisorInv,
         \/ \E s \in Sups : BeatStep(s) \/ ChildEnds(s) \/ Expire(s)
               \/ ExpireLate(s)
         \/ Forget \/ Command \/ CommandStep
  PROVE  \A r \in Sups : PiFollows(r)'
<1> USE DEF SupervisorInv, SupTypeOK
<1>1. ASSUME NEW s \in Sups, BeatStep(s) \/ ChildEnds(s), NEW r \in Sups
      PROVE PiFollows(r)'
  <2>1. /\ UNCHANGED <<main, known, killed>>
        /\ child'[r] \in {child[r], "dead"}
        /\ child'[r] # child[r] => child[r] = "alive" \/ known[r]
    BY <1>1 DEF BeatStep, BeatAsks, BeatReturns, BeatTerminates, ChildEnds,
          BeatIdle
  <2> QED BY <2>1, PiElsewhere
<1>2. ASSUME UNCHANGED <<main, known, killed, child>>, NEW r \in Sups PROVE PiFollows(r)'
  BY <1>2, PiElsewhere
<1>3. ASSUME Launch, NEW r \in Sups PROVE PiFollows(r)'
  BY <1>3 DEF Launch, CommandOnly, PiFollows
<1>4. ASSUME Terminated, NEW r \in Sups PROVE PiFollows(r)'
  <2>1. /\ child' = child /\ known' = known
        /\ \/ main'[r] = main[r] /\ killed'[r] = killed[r]
           \/ main'[r] = "gone" /\ killed'[r]
    BY <1>4 DEF Terminated, CommandState
  <2> QED BY <2>1 DEF PiFollows
<1> QED
  BY <1>1, <1>2, <1>3, <1>4 DEF Expire, ExpireLate, BrokerOnly, supVars,
        Forget, Command,
     CommandStep, CommandOnly, Signal, ReleaseSessions, WritePid

\* For any number of supervisors and faults, one that ended without being killed
\* has ended its Pi, whichever write, request or signal came in between
\* (worker/supervisor.py:501).
THEOREM NoPiLeftBehind == SupSpec => []SupervisorOK
<1>1. SupInit => SupervisorInv
  BY DEF SupInit, SupervisorInv, SupTypeOK, PiFollows, MainState, BeatState,
        ChildState, SessionState,
     CommandState, NoCommand
<1>2. SupervisorInv /\ [SupNext]_workerVars => SupervisorInv'
  <2> SUFFICES ASSUME SupervisorInv, [SupNext]_workerVars PROVE SupervisorInv'
    OBVIOUS
  <2>1. CASE UNCHANGED workerVars
    BY <2>1 DEF SupervisorInv, SupTypeOK, PiFollows, workerVars, supVars
  <2>2. CASE SupNext
    BY <2>2, MainTypes, OtherTypes, MainPi, OtherPi DEF SupNext, SupervisorInv
  <2> QED BY <2>1, <2>2
<1>3. SupervisorInv => SupervisorOK
  BY DEF SupervisorInv, SupervisorOK, GoneIsClean, PiFollows
<1> QED
  BY <1>1, <1>2, <1>3, PTL DEF SupSpec
=============================================================================
