# A TLA+ verification of orchlink

Orchlink lets a *lead* coding agent hand tasks to named *worker* agents through a small broker process on one machine.
Three ways of working are built on it: *talk mode* (a conversation with a worker), *loop mode* (items that are made,
verified by another worker and retried) and *goal mode* (a goal with gates, tasks and evidence). This directory holds
TLA+ modules that model the parts of the program that keep state over time, TLC configurations that check them on small
instances, and TLAPS proofs of what matters most, for every instance. Paths below are relative to `src/src/orchlink/` unless
they say otherwise.

| File | What it is |
| --- | --- |
| `JobLifecycle.tla`, `JobLifecycleProofs.tla` | statuses of jobs and the planner that moves them |
| `WorkerSlots.tla` | abstract specification: what the broker promises about its workers |
| `TaskBroker.tla`, `MCTaskBroker.tla`, `TaskBrokerProofs.tla` | the task path of the broker |
| `Talk.tla`, `MCTalk.tla`, `TalkProofs.tla` | conversations of a lead with a worker |
| `Durability.tla`, `MCDurability.tla`, `DurabilityProofs.tla` | the broker's journal and checkpoint, over crashes and restarts |
| `Transcript.tla`, `MCTranscript.tla`, `TranscriptProofs.tla` | transcript and telemetry of a task, from the worker to a reader |
| `WorkerAgent.tla`, `MCWorkerAgent.tla` | the extension inside a worker's Pi |
| `WorkerSupervisor.tla`, `MCWorkerSupervisor.tla` | the supervisors of a background worker |
| `WorkerProofs.tla` | proofs about both of a worker's processes |
| `LoopItem.tla` | a loop item: its states and methods |
| `LoopEngine.tla`, `MCLoopEngine.tla` | loop mode: several processes over one state file |
| `StateLock.tla`, `MCStateLock.tla` | the locks of the loop's state and of a goal |
| `LoopEngineProofs.tla` | proofs about loop items, the engine and the locks |
| `GoalRules.tla`, `GoalRunner.tla`, `MCGoalRunner.tla`, `GoalRunnerProofs.tla` | goal mode: rules of a goal, and commands that run on one |
| `PROJECT.json` | components, runs, mutants, source map, findings, hazards, theorems |

To check a run: `tlc -config TaskBroker_restart.cfg MCTaskBroker`. To check proofs: `tlapm TaskBrokerProofs.tla`.

Two modules have proofs together with another one, and so have names of their own for what every module has: `SupInit`, `SupNext`,
`SupSpec`, `SupTypeOK` in `WorkerSupervisor`, and `LockInit`, `LockNext`, `LockSpec`, `LockTypeOK` in `StateLock`.

## 1. The system

### 1.1 Parts, their state and their operations

| Part | State | Operations | Modelled in |
| --- | --- | --- | --- |
| **Job lifecycle** (`core/states.py`, `core/job_lifecycle.py`) | the status of a job | the planner: a breadth-first search for a path of permitted transitions | `JobLifecycle` |
| **Task broker** (`broker/storage/memory*.py`) | messages, jobs and their leases, results, an inbox per worker, sessions, reply futures, task waiters | enqueue, long poll, progress, activity, reply, timeout sweep, cancel; acquire, release and expire sessions; heartbeat and reclaim of job leases; send-and-wait, wait for a task | `TaskBroker` |
| **Talk conversations** (same files, `cli/commands/talk.py`) | conversations, their turns, their job | open, say, reply, close, cancel | `Talk` |
| **JSONL persistence** (`broker/storage/jsonl.py`, `persistence.py`) | a journal of snapshots | append after each operation, compaction, repair, replay | `Durability` |
| **Checkpoint and journal** (`broker/checkpoint.py`, `journal.py`) | a file with leases, an audit log | write, load, reconcile after a restart | `Durability` |
| **Transcript store, telemetry** (`memory_transcript_store.py`, `memory_telemetry_store.py`) | bounded logs read through cursors, with a journal of their own; the last telemetry | append a batch, read after a cursor, drop the oldest; fence by lease | `Transcript` |
| **Event log, activity** | bounded lists | append, list | see section 6 |
| **HTTP service** (`broker/main.py`, `service.py`) | none of its own but background loops | routes, session expiry loop, auto-stop | in `TaskBroker`, `Durability` |
| **Worker extension** (`connector/pi_extension_worker.py`, generated JavaScript) | current and pending task, lease, deferred failure, timers | poll, prompt, turn, reply, cancellation check, lease renewal, publishing | `WorkerAgent`, `Transcript` |
| **Lead extension** (`connector/pi_extension_ui.py`) | cursor of a view, of a delegated task | follow, wait | `Transcript` |
| **Supervisor** (`worker/supervisor.py`, `cli/commands/lead.py`) | Pi process, heartbeat thread, session, pid files | launch, spawn, replace, stop, clean up | `WorkerSupervisor` |
| **Loop items and service** (`loop/domain`, `loop/services/loop_service.py`) | the state file: items and their attempts | one transaction per method: ready, next, mark, collect, reserve verification, apply verdict, block, cancel, recover | `LoopItem`, `LoopEngine` |
| **Loop engine** (`loop/services/loop_engine.py`, `loop/runtime.py`, `verifier_service.py`) | what a tick has read and where it stands | tick: recover, triage, dispatch, advance every open attempt | `LoopEngine` |
| **Loop lock and repository** (`loop/adapters/lock.py`, `state_repo.py`) | a lock directory with its owner, a file replaced atomically | acquire, break a stale lock, release, transaction | `StateLock` |
| **Goal policy and store** (`goal/policy.py`, `store.py`) | a goal: status, gates, active task, criteria, evidence, in three files | status changes, gates, evidence, task records | `GoalRules`, `GoalRunner` |
| **Goal runner** (`goal/runner.py`, `dispatcher.py`, `checks.py`, `criteria.py`) | where a command stands | select, dispatch, wait, record, check, finish; derive, audit, sign off, cancel | `GoalRunner` |
| **Goal files and lock** (`goal/files.py`, `transaction.py`) | a lock directory | acquire, move a stale lock away, atomic write | `StateLock`, `GoalRunner` |

### 1.2 How they interact

* Lead, workers, loop and goal processes talk to the **broker** over HTTP. Every store operation runs under one asyncio
  lock, except for two windows: a long poll waits on its inbox *outside* the lock, and a sender that waits for its reply
  sees its timer fire *outside* the lock. Nothing in the broker runs by itself but the sweep: almost every operation
  begins by expiring sessions and messages.
* The broker writes a **snapshot** of all its memory as one line of a journal after each mutation, and then the checkpoint
  of leases; a new broker process restores the last good line and queues again whatever is not over.
* A **worker** is a Pi process with an extension, started by a **supervisor** that holds the worker's session lease and
  renews it. A **job** of a worker has a lease of its own, renewed by the extension, with an epoch that fences a former holder.
* The extension **publishes** transcript and telemetry without waiting for an answer; the lead's terminal reads them by cursor.
* A **loop engine** is a process started by `orch loop tick`, `watch` or a schedule. Several may run, and operators use
  `orch loop` commands next to them. They share only the state file, locked for one transaction at a time, and the
  broker, which knows the loop's tasks by ids computed from item and attempt number.
* A **goal** command is a process, too; every call of the store is a transaction under the goal's lock. A loop item may
  attach its evidence to a goal.

### 1.3 What is hard, and what makes each part correct

| Part | Hard behaviour | Properties that make it correct |
| --- | --- | --- |
| Job lifecycle | paths through several statuses | exactly the permitted paths; every unfinished job can be settled; never backwards |
| Task broker | windows outside the lock; operations that raise halfway; task ids used again; workers that restart; lapsed leases; timers that race replies | one unfinished task per worker; nothing delivered twice; leases exactly of the jobs in work and with epochs in order; nothing finished comes back; no orphan job, no forgotten sender, no worker held for ever |
| Talk | a command computed from a conversation that has moved on | record, job, messages and worker agree on the one conversation that goes on; turns go forward |
| Persistence | a crash at any point of a write, a write that fails, sweeps that are not recorded, auto-stop | what a client was told is there after replay; every task ends for good; the checkpoint is never ahead |
| Transcript | posts lost, late and reordered; retention; failing appends; restarts; pages | no silent gap for a reader; an open view keeps up; telemetry of the present holder only |
| Worker extension | one thread, but every request is a window in which the current task may change | each task answered once; none forgotten; the worker always polls again |
| Supervisor | two threads, signals and commands between any two steps | no Pi left behind; Pi, supervisor and session end together |
| Loop item, service | many writers with stale views, each valid alone | stored items satisfy their own invariants; results and verdicts are kept; verdicts in turn |
| Loop engine | processes that die between broker and file; recovery that races live processes; attempt numbers used again | nothing done without work; rejected items can be retried; nothing left with a maker or a verifier for ever |
| Goals | three files, commands between the transactions of a run, crashes | no task sent twice; the files never tell of what did not happen; done only by right; commands and tasks end |
| Locks | stale locks broken by two processes, each call to the file system a step | one holder at a time, for the loop's lock unless a process crashed or the state file could not be read, for a goal's as long as no process has ended; no lock in the way for ever |

`PROJECT.json` lists the hazards line by line, with the properties that cover each one, or why none does.

## 2. Plan, and where it stands

The order follows importance: the broker is what everything rests on, loop mode is its most concurrent client.

1. **Done.** `JobLifecycle`, then `TaskBroker` over it, with `WorkerSlots` as its abstract specification, and proofs.
2. **Done.** `LoopItem`, then `LoopEngine` over it, which sees the broker through task ids, and proofs.
3. **Done.** `Talk`, with the part of the work queue that conversations use, and proofs.
4. **Done.** `Durability`: the journal, crash and replay, compaction, the checkpoint, and proofs. What the restored broker promises
   is stated against a ghost of what clients were told, instead of as a refinement.
5. **Done.** `WorkerAgent` and `WorkerSupervisor`: what a worker's two processes do with what the broker allows them. They are
   composed with the part of the broker that concerns one worker, not with all of `TaskBroker`, whose product with
   either is beyond a run. With proofs.
6. **Done.** `Transcript` with its readers, and telemetry, with proofs. The event log has no reader in the code that acts on it.
7. **Done.** `StateLock` for both locks, with a proof of mutual exclusion where it holds.
8. **Done.** `GoalRules` and `GoalRunner`, and proofs.

Every invariant and every action property that a run checks is now a theorem, but for `FencedWorkerStops`, which is refuted; what
TLC alone checks is liveness. Left: the visible worker, whose Pi runs in a terminal of the operator; two leads.

## 3. The modules

### 3.1 JobLifecycle

Constant-level. `AllowedJobTransitions` is `ALLOWED_JOB_TRANSITIONS`; `TransitionPathTo` is the breadth-first search of
`transition_path`, written as four layers, since the longest path without repetition has four steps; `TransitionTo` and
`TransitionRaises` are what `TaskJobLifecycle.transition` returns or raises. `PlannerIsExact` proves that the
layers reach what any chain of permitted steps reaches.

### 3.2 TaskBroker

| Variable | In the code |
| --- | --- |
| `msg` | status of `active_messages` |
| `job`, `lease` | `task_jobs`: status, and `JobLease` (holder, epoch, live or lapsed) |
| `result` | `results_by_task` |
| `inbox` | the `asyncio.Queue` of each agent |
| `session` | `sessions` |
| `poll` | where each process's `get_next_message` stands: waiting on the queue, or holding a message it popped |
| `wait` | `pending_replies`: waiting, or its timer has fired and its continuation has not got the lock |
| `taskWait` | `task_waiters` |

One action is one operation under the lock. Operations that raise halfway are actions of their own, because what they
changed before stays: `EnqueueRaises` (the message is stored, but the job of its task is past the queue and not over, so that it
can neither be queued nor be left as it is; a job that is over is left alone and the message accepted), `PollDeliverRaises`.
`PollTake`/`PollDeliver` and `TimerFires`/`TimeoutReply` are the two windows outside the lock. The sweep is
`ExpireSession` and `TimeoutMessage`, enabled at any moment: there are no clocks in the model, so each run covers every
timing. `Settle` is what timeouts, cancellations and ended sessions have in common.

`WorkerSlots` says what a client may rely on: a worker is a slot that holds one piece of work, settled work never
returns, and no slot is held for ever. The mapping is `open <- busy messages`, `closed <- terminal messages`.

### 3.3 LoopItem and LoopEngine

`LoopItem` is constant-level, like the immutable `LoopItem` of the code: for each method a guard and the item it returns. An
attempt is a record of its maker's task (reserved, the engine's, or one named by an operator), whether it has a result and
with text, whether it is being verified, and its verdict. `ValidItem` is `_validate_invariants`.

`LoopEngine` has three variables: `item` is the state file, `task` the broker's side (per task id: unfinished work, stored
result), `eng` what each process carries between transactions: its phase, the items it listed, the item and attempt
number it works on, and what it was told. An action is either one transaction (`NextItem`, `MarkDispatched`, `MarkRunning`,
`CollectMaker`, `ReserveVerification`, `ApplyVerdict`, `BlockMakerFailure`, `Recover`) or one exchange with the broker
(`SendMaker`, `AwaitMaker`, `SendVerifier`, `AwaitVerdict` and their failures). Reading an item is a step of its own (`Look`), so
every transaction may find an item that has moved on. `Abandon` ends a process anywhere: it died, or a transaction found the
lock held and raised. `ChecksFail` is the outcome of the objective checks, which overrides an acceptance in the process
that awaited the verdict and nowhere else.

Details that turned out to matter, all from the code:
* `await_result` returns an empty text when its wait times out, and the text of a *failed* reply as if it were a result;
  recovery treats the same replies as failures.
* A rolled-back attempt gives its number, and with it its task id, to the next attempt. The broker refuses the second task
  only while a message of the first keeps the worker busy; a finished job stays as it is and the message is queued, delivered
  and worked beside the stored result (`Sends`). A wait for the second execution returns the text of the first at once, and
  the second reply, whatever it says, overwrites the first (`TaskEnds`). Nothing tells the two executions apart, so an item
  may be judged on the text of either: what does hold is that it is judged on a recorded text (`DoneOnWork`), that no
  verdict waits under the id of an attempt that is made again (`VerifiedHaveText`), and that what an item once recorded of
  an attempt no second execution changes (`RecordsKept`).
* `block` and `cancel` take an item in any unfinished state by its id alone, and leave its attempt without a verdict.

### 3.4 Talk

`conv` and `job` are a conversation's record and its job, which move together in `Touched` (`touch_conversation_locked`) but by
different rules: the record takes the status it is given, the job goes through its planner and stays where it ended. `msgs`
are the messages sent; their way to the worker is one step here. A command of the lead is two requests: `Reads`
computes a message from the conversation as it is, `Enqueue` sends it when anything may have happened in between, and is
refused by the two checks of the broker, `CanReceive` and `TargetFree`.

### 3.5 Durability

`store` is memory (tasks, inboxes, messages in the hand of a poll), `file` the journal as lines and whether the last one is
ended, `checkpoint` its lease entries. `Recorded` is the one way in which a mutation becomes durable, with every way to cut
it short: the append raises, with nothing, part or all of the line written, and the process goes on with memory changed; the process dies before, in or after the
line; the checkpoint fails to be written, which the code ignores. A line without an end swallows the next one
(`Appended`), which the ghost `glued` notes. `Journal` also compacts. `told` is a ghost: the last answer a client got about
each task. Sweeps that no record follows are `SweepUnrecorded`, auto-stop is `StopSoon` and `Stop`, with requests served
between the two.

### 3.6 Transcript

The holder of each lease epoch publishes batches (`posts`), numbered per holder, which arrive in any order, late or never;
`store` and `file` are the transcript in memory and in its journal. `AppendBatch` is fenced by the lease and by the ids
`seen`, numbers the event, drops the oldest beyond `Keep`, and writes the journal, which may fail and leave a torn line.
`reader` is either the view that follows a worker or the tool that waits for a delegated task, from its request (`Read`)
to what it makes of the answer (`Take`); the tool asks for the task's status beside it (`ReadStatus`). `marked` is the marker last
shown: the view shows one again when it reaches further, the tool shows the words once (`MarkedAfter`). Both the broker's page
and the reader's own test keep the events after a cursor (`Later`): as numbers ascend, these are the end of the sequence.

### 3.7 WorkerAgent

Each handler of the extension is an action up to the request it awaits; its continuation is another action, which finds
whatever is current by then. `timer`, `polling` and `arriving` are the poll loop, `recovery` the deferred failure,
`checks` and `renewals` requests under way, `reply` how far each reply has come. Pi is external: prompts become turns in
order, a turn ends in a message or an error from which Pi may recover, a steering notice may become a turn of its own.
Which workers are oneshot, and which messages are turns of a talk, nothing else depends on: whether the extension stops
after a reply (`Stops`) is left open. The ghost `taken` has what the extension took up and was not made to drop by a
message that was over before it came.

### 3.8 WorkerSupervisor

`main` is where the main thread of each supervisor stands, `beat` its heartbeat thread, `handling` whether the handler
of SIGTERM has taken over; `cmd` is the one command under way, which reads pid files and sessions and acts on what it
read. A supervisor's child is Pi; `known` is whether the main thread has assigned it, for a signal may come between.

### 3.9 GoalRules and GoalRunner

`GoalRules` is constant-level: the transitions, the policy's guards and the goals it returns, and which criterion comes
next. In `GoalRunner` a command (`proc`) goes from transaction to transaction, and between two of them another command or
a crash may come. A transaction writes `goal`, then `history`, then `acceptance`; a crash is possible after each of them
(`Commit`), and what was read is judged again where the code reads again. The broker is seen through `jobs`. A list of criteria
or commands is the set of its places with what stands there (`Listed`), so that its order, and a name that is in it
twice, count as in the code. Any process may run any command, `goal work` included. What a hand or a worker writes into
`acceptance.md` is any list with any statuses (`Written`); loading a goal sets the statuses it shows from `goal.yaml` where they stand in
a fenced block (`Repaired`), and the decisions read `goal.yaml` alone. A death within an append leaves a torn line (`torn`): later
events are as good as not written, and a command that has to number a task raises. Two ghosts serve `DoneByRight`: `judged`,
the list by which a process last found its goal done, and `proven`, the core criteria a check of which has passed.

### 3.10 StateLock

One module for both locks, `kind` says which: `mkdir`, reading the age and the owner, breaking, writing the owner file,
releasing are steps of their own, each one call to the file system. `rmtree` is two steps, since a file may be written
between them. Time is `GetsOld`: a lock gets old only while no living process has it, which is an assumption that no
transaction lasts for an hour (loop) or five minutes (goal).

## 4. Runs

| Run | Instance | What it shows |
| --- | --- | --- |
| `broker_sharedtask` | two messages with one task id for two workers, epochs to 2, no sessions required | types; stored results reach those who wait; exactly the jobs in work are leased, at epochs in order; no unfinished job without a message; nothing finished or settled comes back, but for the two rewrites the code makes |
| `broker_restart` | two tasks in a row for a worker whose process is replaced by another with a session of its own, fair | one task per worker; nothing handed out twice; no work or sender left behind; refinement of `WorkerSlots`, its liveness included; every sender answered |
| `loop_race` | one item, one attempt that may be rolled back and made again, two processes told to go on past open attempts, operators with `next`, `collect` and `verify`, first and second executions of a task that end in different ways, a broker that forgets | types; stored items valid; nothing done without work; no verdict under the id of an attempt whose work is not recorded, although ids are used again; finished items stay; what was said of an attempt stays said |
| `loop_live` | one process scheduled for ever, two attempts, fair | a rejected item can be retried; no item stays with a maker or a verifier for ever |
| `goal_work` | two processes that run `goal work`, one of which does everything else as well; lists that are empty, repeat a criterion, or claim that all is verified; one death; fair | the files never tell of what did not happen, wherever a transaction is cut off; no task is sent twice; a goal becomes done only by a list whose core criteria were earned by checks and humans; every command and every claimed task ends |
| `durability` | one task, two crashes, one failing write, fair | what a client was told is there after a restart; the checkpoint never runs ahead of the journal; every task ends for good |
| `agent` | three tasks, one failing request, fair | each task is answered once; what the worker took up is answered, unless the late answer of a second poll put a finished task in its place; it always polls again, unless it was told to stop |
| `supervisor` | two supervisors of one worker, launched, replaced, stopped and killed, one fault, fair | no Pi is left behind by a supervisor that ended in order; Pi, supervisor and session end together |
| `talk` | two conversations, a lead whose commands are computed before they are sent | types; record, job, messages and worker agree on one conversation; it only goes forward |
| `transcript` | a worker and one that takes over, posts late and out of turn, one failing write, one crash, a reader of either kind, fair | memory and journal numbered without a gap; the reader misses nothing without a word and keeps up; telemetry of the present holder only |
| `locks` | three processes, either lock, one fault, fair | transactions do not overlap, for the loop's lock unless a process crashed or the file could not be read, for a goal's as long as no process has ended, in order or not; no lock is in the way for ever |

One run expects a violation. `supervisor_fenced` checks `FencedWorkerStops`: a supervisor whose session has ended stops its Pi.
`tests/test_worker_supervisor.py:252` and `:299` say so of a broker that answers the heartbeat with an error; the real one
answers a heartbeat of a released or expired session without any (`memory_session_store.py:179`), so the error that
`worker/supervisor.py:74` waits for never comes, and the supervisor goes on beating for a session that is over.

### 4.1 Bounds

Every bound is a constant that the `.cfg` sets; no guard contains another.

* **Broker.** Two messages; two workers, or two sessions of one. The hazards are about pairs: two messages for one worker, two of
  one task, two processes of one worker name, a reply and a timer. A third message multiplies the states and adds no new
  pair; the proofs cover any number. `MaxEpoch` bounds reclaims to one per job, enough for a former and a present holder.
  Messages are sent at most once, since clients make fresh ids.
* **Loop.** One item: transactions and engine steps touch one item each, and recovery treats items one by one. Two processes are
  one with a stale view and one that made it stale. `Endings` names how tasks may end in a run. The processes are
  interchangeable, hence the symmetry in the run without liveness. The proofs cover any number of items, processes and attempts.
* **Goal.** Three criteria: a core one that a command checks, a core one that depends on it and a human signs off, and one that
  is not core: the kinds the selection tells apart. Three lists: none, one with a criterion listed twice, one without the third;
  what is written claims that everything is verified, the most that a decision could be misled by. One run of `work`
  beside two commands of another process, of which one must approve the gates and the other may be a second run of `work`:
  so one can undo what the other relies on. `MaxSteps` is two, so that a run takes up the next criterion, and there are four tasks.
  One death, between any two writes or within a line of the history. The proofs cover any number of all of these.
* **Durability.** One task: a snapshot holds all of memory, so tasks are lost or restored together. `MaxRecords` is the length
  at which the journal is compacted; two crashes, the second after a restart from what the first one left.
* **Worker.** Three tasks: two are the least for a handler that finds another task than the one it awaited, and a third is
  needed for two polls at once of which the later is answered first. Two requests of the poll loop and two turns at once; one
  status or lease asked for at a time (`MaxAsks`), whose answer may come when another task is current; one failing request. Two supervisors, the old and its replacement.
* **Talk.** Two conversations, an ended and a new one; turns to 4, for two rounds; five messages.
* **Transcript.** Three texts against a retention of two and pages of one: a reader falls behind, a page ends early. Two
  holders, two posts under way each, one failing write and one crash, which together make a torn line and what follows it.
* **Locks.** Three processes: a holder and two that break the lock it left. Two transactions each, one fault.

Where a run says `CHECK_DEADLOCK FALSE` (goal, agent, supervisor, talk, transcript, locks), the system may really stop, its
commands given and its tasks, turns or texts used up.

### 4.2 Fairness

* `TaskBroker`: `WF(TimeoutMessage)`, because every message carries a positive timeout and the sweep that enforces it is at
  the head of every request, heartbeats included; `WF(TimeoutReply)`, because a fired timer's continuation gets the
  lock in the end. Workers are not assumed to do anything.
* `LoopEngine`: a process goes on or ends; recovery, started by every tick of a schedule, gets lock and broker in the end
  (`SF(Recover)`, strong since a tick may fail to, any number of times); tasks end, which is what `broker_restart` shows of the
  broker; time passes (`WF(GrowsLate)`). Nothing is assumed of operators, of how tasks end, or of the broker's memory.
* `GoalRunner`: a command that runs takes its steps, and tasks end. A process that died takes none.
* `Durability`: a broker that is down is started again (`WF(Restart)`, by the next client that finds none), time passes for
  every task, and some recorded mutation follows whatever the sweep did (`SF(OtherMutation)`). Weak fairness of the last is not
  enough: a broker that sweeps, stops by itself and restores the same task from its journal could go on so for ever.
* `WorkerAgent`: timers fire, polls and replies return or fail, Pi takes prompts and ends its turns. Nothing is assumed of
  the checks and renewals, of Pi's recovery from an error, or of what the broker sends and others settle.
* `WorkerSupervisor`: threads and the command under way go on, and the broker's expiry loop runs. Pi may run as long as it likes.
* `Transcript`: the reader's own requests and what it makes of the answers. Nothing is assumed of the worker's posts.
* `StateLock`: a process goes on unless it died, and a lock gets old.
* `Talk` has no liveness: that a turn is answered is `SendersAnswered` of the broker.

### 4.3 Observations without a run

Met while modelling. Some contradict a line of the repository, which is named; the others are consequences of the code that its
authors may or may not want, or that the hazards point to.

*Broker.*
* Without a lease nothing is fenced: a reply that asserts an old epoch rewrites a finished message and its stored result, although
  a finished job's lease is cleared "so a stale holder cannot renew or reply" (`core/models.py:738`, `memory_work_queue.py:246`).
* When a session ends, a job its worker had reclaimed stays unfinished until its message times out (`docs/prd.md:386`,
  `memory.py:196`); a busy worker may reclaim a second job (`README.md:311`, `memory.py:614`).
* `timeout_reply` settles the job and stores no result, so waiters of the task are released only by their own timers
  (`memory_work_queue.py:465`).

*Loop.*
* Recovery that finds the verifier's answer applies it without the override by failed checks (`README.md:172` speaks of
  objective checks before `done`; `loop_service.py:457`, `verifier_service.py:182`).
* An item blocked during an attempt cannot be readied again (`loop/cli.py:180`), nor does anything look at work that
  recovery collected while no tick may start (`README.md:283`, `loop_engine.py:164`).
* Recovery blocks an item whose verifier another process is about to send its task: a task that the broker does not know is given
  no grace (`loop_service.py:463`).

*Goal.*
* After a process died in a task, `runner.py:280` advises `orch jobs --result` or `--cancel` and then `goal work`, but no command
  except a terminal one clears `active_task_id`.
* A goal can be done while a core criterion is not met: between the decision and the transition (`runner.py:99`, `:100`) a check of
  another `goal work` can fail, or a derivation replace the list. `DoneByRight` says what is left of
  `goal-mode.md:5` ("refuses to call the whole goal done until objective checks or human signoff are complete"): every
  criterion judged had been checked with success or signed off.
* A block by one of two `work` commands clears the task of the other; `claim_task` does not look at the status, so a cancelled goal
  can be given a task.
* A torn line of `history.jsonl` makes every later command that claims a task raise (`files.py:127`), and nothing mends it.
* A failing audit sets the goal BLOCKED, although its help says "without editing or closing the goal"; a sign-off of a draft
  records the approvals and then raises.
* A derivation made again keeps the status of ids that stay, and the gates.
* The text of a reply that timed out counts as a result.
* A criterion that is not core and is listed twice is looked at twice in one run.

*Durability.*
* Timeouts and sweeps write neither record nor checkpoint: a restart restores what they ended, and reports as drift the
  leases the checkpoint still has.
* A message that is redelivered while its job is RUNNING raises and is handed to nobody; so does a poll whose lease
  assertion fails after it popped the message.
* A failing append ends the session expiry loop without a word; event numbers go back after a restart.
* Auto-stop is looked at only when a session ends (`broker/main.py:122`); a client may connect between the look and the
  signal. Two clients that start a broker at once overwrite each other's `broker.pid` (`client/process.py:123`).
* A complete record without its end of line is joined with the next one and both are lost (`jsonl.py:15` speaks of the last
  record only); the transcript's loader skips corrupt lines without a repair.

*Worker.*
* Of three tasks the extension can drop one that is open for one that is over: a poll armed before a reply and one armed by it wait
  at once, the first gets a task that is cancelled on its way, the second the next task; if the answer to the first comes last,
  `pendingTask` is overwritten (`pi_extension_worker.py:703`) and the broker waits for the open task until it times out. `HeldIsAnswered`
  admits this case and no other. An oneshot worker may have popped a second task before it stops.
* An answer about a former task, a conflict or a cancellation, aborts the present one (`pi_extension_worker.py:664`, a
  hazard that no property covers: the model has the step, and no property forbids it).
* The extra turn of a notice is taken for the reply of the task that came meanwhile; a failed reply is not tried again; a worker
  that fails to register never polls.

*Supervisor.*
* The kill that follows after five seconds races the supervisor's own clean-up, and Pi may be left over.
* A signal before `child` is assigned leaves the main thread waiting for a Pi that nobody ends.
* An old supervisor unlinks the pid file of its replacement; a launcher that loses the race has overwritten the winner's pid file
  and then unlinks it; a failing write of "session_lost" ends the heartbeat thread.

*Talk.*
* A `close` is stored as closed and never delivered; it is refused while a turn is pending.
* An idle open conversation never expires and keeps the worker from other work.
* A `say` that read the conversation while the reply was on its way has a turn that the reply already has, so a
  conversation may have more rounds than asked for (`docs/prd.md:770` speaks of max-turn protection).
* Two `talk` commands at once compute the same id. The close endpoint does not settle a pending turn, whose reply opens the record
  again while its job stays CLOSED.

*Transcript.*
* The last flush races the reply: if it loses, it is refused and the last text is never sent again.
* Batch ids restart at 1 when a task is accepted again, while the ids seen are kept per task: new text is dropped as a repetition.
* After a failing append the events are in memory only; a restart gives their numbers to others and a reader's cursor skips them.
* A delegated task's view says only once that its output is incomplete (`pi_extension_ui.py:1101`) and keeps fifty lines: where a
  later gap is, it does not say. `NoSilentGap` asks no more of it (`ToldMissing`).
* A delegated task's last snapshot may lack the end. `list_events` returns the newest entries, so a reader that gives a
  cursor misses older ones (`memory_event_log.py:62`).

*Locks.*
* After a crash two processes that break one stale lock can both get in: the second removes, or moves, the lock that the first
  has just made. With a goal's lock it takes no crash: a waiter that read the owner of a holder which released and ended moves
  the next one's lock.
* A live holder that is older than the limit (an hour, five minutes) can lose its lock, which the model excludes by assumption.
* A loop state file that cannot be read leaves the lock held until its process ends and the hour has passed (`state_repo.py:43`);
  a process id used again makes a dead goal lock permanent.

## 5. Proofs

All proofs are checked to the last leaf. They assume what the modules assume of their constants, which TLC evaluates in the runs
(`ConstantsOK` and `SentinelsOK` of `TaskBroker`, `MaxAttemptsOK` and `LoopConstantsOK` of the loop, `LockConstantsOK`, `TalkConstantsOK`,
`TranscriptConstantsOK`, `WorkerConstantsOK`, and their like), and nothing else.

**JobLifecycleProofs.** `LiveSettles` and `FinishedStays`: the planner settles every unfinished task job and leaves every
finished one alone. They are case distinctions over the statuses, and the facts the broker's proofs cite. `PlannerIsExact`: the
planner finds a path exactly where permitted transitions lead, whatever their number; as only four layers are searched,
the proof shows that no transition leaves the set of statuses they have reached, and that set is then the reachable ones.

**TaskBrokerProofs.** Type correctness by itself, then one inductive invariant

    IInv == TypeOK /\ JobsFollowMessages /\ OnlySentTravels /\ OneTaskPerWorker /\ LeasedIffBeingWorked
            /\ NoOrphanJob /\ NoSenderForgotten /\ ResultsReachWaiters /\ NoWorkForOfflineWorker

from which follow the properties of the runs (`WorkAccounted` is `LeasedIffBeingWorked` and `NoOrphanJob`, `NobodyLeftBehind` the last
conjunct and `NoSenderForgotten`), the action properties `NothingComesBack` and `LeaseDiscipline`, and that the
broker implements the safety of `WorkerSlots` (`SafeSlots`). `JobsFollowMessages` and `OnlySentTravels` are the strengthening:
`LeasedIffBeingWorked` is not inductive by itself, because a report on a message whose job is still queued would move the job
to RUNNING without a lease. That cannot happen since a worker only knows messages that were delivered, and delivery moves
the job out of the queue; and a popped message or a fired timer must not belong to a message that was never sent.
The proof has a lemma per operation, and lemmas for what operations share: several messages settled at once, one
settled, one moved on, nothing changed but the waits.

`DeliveredAtMostOnce` has an invariant of its own, `Places`: by position in each inbox and by the hand of each poll, every
message is in one place at most, in the inbox of the worker it is for, and one that was delivered is in none.

**LoopEngineProofs.** One lemma per method: it keeps an item *Sound* and loses nothing an attempt produced
(*Keeps*). `Sound` is `ValidItem` strengthened: attempts not made yet are blank, only the *last* attempt may lack a
verdict, what is verified has a result, what is done has a text, a rejected item has an attempt left. The invariant

    IInv == TypeOK /\ (every item Sound) /\ VerifiedHaveText /\ (every process EngineOK)

adds that a verifier's task exists only for an attempt with a text, so that a recovery that applies its verdict finds one,
and that what a process carries fits its phase. A text never goes away (`TextStays`), which is why a stale view is harmless
there. Nothing is assumed of how a task ends, nor of how often: a second execution may replace the broker's result by any other
(`TaskEnds`). It gives `TypeOK`, `ItemsValid`, `DoneOnWork`, `VerifiedHaveText`, `RejectedCanRetry` and the action properties
`FinishedItemStays` and `RecordsKept`.

Of the locks, `LockInv == LockTypeOK /\ TurnLeft /\ (Undisturbed => HeldByOne /\ NobodyBreaks)`: as long as no process crashed and every
file could be read (the loop's lock), or no process ended (a goal's), whoever has the lock is the one that made the directory, and nobody is on the way to break it, for a lock
gets old only when no living process has it. That nobody *breaks* is the strengthening: exclusion alone is lost in one
step by a process that has already decided.

**TalkProofs.** `IInv == TypeOK /\ JobsFollow /\ OneBusy /\ OneOpen /\ CommandOK`, of which `TypeCorrect` is a part. A job follows its
record; one message of a worker is unfinished; one conversation is open; and what a command has computed is bound to the
conversation it read (`CommandOK`): however much that has moved on since, its turn is not beyond the command's, and it is behind
it while a turn is pending, the last turn apart. This is what keeps `TurnsGoForward` in spite of stale reads.

**TranscriptProofs.** `StoreOK` says of memory and journal alike that the events are numbered without a gap, that no text is in
twice, and that the next number is behind both; without a fault both are equal and no line is torn. Most of the work is
arithmetic about appending to a sequence and keeping its tail. `TelemetryIsCurrent` rests on an invariant of its own.

`ReaderMissesNothingSilently` adds `ReaderOK`, which is about the answer on its way: its events have numbers one after the other,
are behind the broker's next number and, where the broker still has them, the same as the broker's (`AnswerOK`); and either
they follow the reader's cursor, or a marker beyond the gap is in the answer, and the broker has nothing in the gap any
more (`BeginsAfter`). Without the last part a later answer could bring what the cursor has passed. The hypothesis `regressed` of the property is
part of the invariant: after a restart that lost events, the reader's cursor may be beyond the broker's numbers.

**WorkerProofs.** `OnePlace`: from the broker's answer to the reply a task is in one place, on its way, pending or current, and
unanswered; a reply leaves all three. This is what makes `AgentOK` inductive.

Of the supervisors, `SupervisorInv` says for each of them where Pi can be at each point of the main thread and of the signal handler
(`PiFollows`): none before the spawn, one that the main thread does not know yet between spawn and assignment, none alive once the
thread has cleaned up. The heartbeat thread, Pi itself, the broker and the commands can only end a Pi, or are at no such point. The proof is split
that way: what the main thread does, and what everything else can do to one supervisor (`PiElsewhere`).

**GoalRunnerProofs.** Two invariants, the second on top of the first.

    TaskInv     == TypeOK /\ FollowsGates(goal) /\ CommandsFit /\ SentAtMostOnce /\ ResultInOrder
    CriteriaInv == (for every process: StillHolds /\ FoundBefore)
                   /\ EvidenceInOrder /\ NeverShownEarly /\ ByKind

`TaskInv` gives `Consistent` and `SentOnce`, for every set of processes and whatever commands they run. `CommandsFit` ties what a process
carries to where it stands; `SentAtMostOnce` says that what was sent was recorded before, and that a task about to be sent belongs
to one process and was not sent, although tasks are claimed and sent in different transactions. A torn line is no danger to
it, since nothing is numbered behind one. `CriteriaInv` gives `CrashConsistent` and `DoneByRight`. Almost nothing that a process has read is
safe from the others: two runs of `goal work` can take a criterion back from verified to failed between the other's check and its
conclusion. The invariant keeps what no command undoes. `ByKind` says which statuses a criterion of each kind can have, so that a
criterion once met that a human signs stays signed, one that a command checks stays checked, with a pass on record
(`proven`), and none returns to pending. `StillHolds` says what a process that stands between two of its transactions relies
on, `FoundBefore` that one about to finish has judged a list of which every core criterion is earned. No hypothesis is made about who works,
derives or signs off, nor about what `acceptance.md` lists and claims.

**DurabilityProofs.** The invariant

    IInv == TypeOK /\ records <= Bound /\ memory in Memory /\ (an entry has a status iff it has an epoch)
            /\ (\E n : FileOK(file, n) /\ Counted(n)) /\ (~glued => NothingLost)

is about what a restart would find. `FileOK(file, n)` says which lines of the journal a restart trusts, the first n; that there is
such an n is part of the invariant, so that no induction over the journal is needed. `Memory` is the pairs of message and job status
that can be stored (`Kept`), which is what makes a restored broker one that could have been running. `NothingLost` says that only the
last line can be broken, and that memory *and* what a restart would restore are not behind what clients were told (`told`),
what the checkpoint says (`Fits`) or what a restart has reported as drift (`Explains`). It is claimed of memory as well because
memory is what the next line will hold, and it needs `~glued`: a complete line without its end swallows the next one, which
is observation six on durability in 4.3 and which the properties exclude in the same words. `Bound` and
`Counted` are the only places where the counts of faults and crashes matter: a line whose `fsync` raised is there, but was not counted. Every mutation goes through one lemma about `Recorded` (`TaskWrite`, `SweepWrite`), with a case for each
way to cut a write short.

**Only model-checked.** Liveness, which is out of the prover's reach: `SendersAnswered`, the liveness half of `ImplementsSlots`,
`MakersAndVerifiersLeft`, `WorkEnds`, `EveryTaskEnds`, `HeldIsAnswered`, `KeepsPolling`, `EndsTogether`, `KeepsUp`, `NeverForGood`; and the refuted
`FencedWorkerStops`. That `Later` and the other sequence operators are what the code's loops compute for every list is seen from
their definitions: induction over data is out of reach, too.

## 6. What is not modelled, and why

* **Left out of modelled parts.** Agent registration, which no operation depends on; previews; several projects (the code keys
  everything by project); the event log and activity records, which are views for people that nothing reads back; the audit
  journal, which is only written. Of loop mode: the attachment of evidence to goals, worktrees except that the lack of one blocks
  an item, triage and its connectors, the limit of items per tick. Of goal mode: titles, texts, times. Of Talk: two leads at
  once, and the close endpoint, which no client of the repository calls. Of workers: the visible worker, whose Pi
  runs in the operator's terminal and is ended by the operator.
* **Compositions.** Each module has the part of its neighbours it depends on, as an environment that may do whatever the
  neighbour's own module allows: `LoopEngine` and `GoalRunner` see the broker through task ids, `WorkerAgent` and
  `WorkerSupervisor` through one worker's tasks and sessions. `LoopEngine` and `GoalRunner` take a transaction as exclusive;
  `StateLock` shows when it is.
* **Not to be modelled.** Views and envelopes, the drawing of the lead's panels, parsing of arguments and of texts, project setup,
  skills and installers, connectors to external services: they convert, print, or do input and output, and keep no state that
  others depend on. The `VERDICT:` block of a verifier's reply is parsed by `loop/domain/verdict.py`; the model only says
  whether a verdict could be read.
