----------------------------- MODULE GoalRunner -----------------------------
(***************************************************************************)
(* Goal mode at work: the commands of goal/cli.py run by goal/runner.py on *)
(* one goal.  Each call of the store is a transaction under the goal's     *)
(* lock and one step here; between two of them a command runs a check,     *)
(* waits for a worker, or is overtaken by another command.                 *)
(*                                                                         *)
(* A transaction writes goal.yaml, then history.jsonl, then acceptance.md  *)
(* (store.py:44).  A process may die at each point, and what it holds in   *)
(* its local state dies with it.  Reading the goal also repairs the        *)
(* statuses that acceptance.md shows, if they stand in a fenced block; a   *)
(* hand or a worker may have written anything there.  Each query of        *)
(* GoalCriteriaEngine, a few reads, is one step.                           *)
(*                                                                         *)
(* The broker is seen through its tasks: one is sent, then open until the  *)
(* worker answers, it times out or it is cancelled.  A wait that times out *)
(* returns a body without a reply, which counts as a result.               *)
(***************************************************************************)
EXTENDS GoalRules, FiniteSets

CONSTANTS
  Procs,        \* processes that run commands
  Commands,     \* the commands each may run
  MaxSteps,     \* --max-steps
  MaxRuns,      \* commands each process may run, a bound of the model only
  MaxCrashes,   \* deaths of processes, a bound of the model only
  Acceptances,  \* what acceptance.md may list, written by hand or by a worker,
  Claims        \* and the statuses it may then show

AllCommands == {"work", "derive", "audit", "signoff", "cancel", "gate"}

ASSUME RunnerConstantsOK ==
  /\ Commands \in [Procs -> SUBSET AllCommands]
  /\ MaxSteps \in Nat \ {0} /\ MaxCrashes \in Nat
  /\ MaxRuns \in [Procs -> Nat]
  /\ Acceptances \subseteq Seq(Criteria)
  /\ Claims \subseteq [Criteria -> AcceptanceStatus]

VARIABLES
  goal,        \* goal.yaml
  acceptance,  \* acceptance.md: its criteria and the statuses it shows
  history,     \* history.jsonl: the events that name a task, as <<type, task>>
  torn,        \* whether a line of it is torn, which no reading gets past
  sent,        \* how often each task was handed to the broker
  jobs,        \* the broker's view of each task
  proc,        \* what each command is doing
  left,        \* commands each process may still run
  crashes,     \* deaths so far
  judged,      \* ghost: the criteria each process found satisfied when it
               \* decided that the goal is done
  proven       \* ghost: the core criteria a check of which has passed

vars == <<goal, acceptance, history, torn, sent, jobs, proc, left, crashes, judged, proven>>

Points == {"idle", "select", "claim", "dispatch", "wait", "answered", "blocker",
           "check", "checked", "evidence", "noncore", "item", "noted", "decide",
           "subjective", "finish", "pause", "block", "sign", "signed", "artifacts", "cancel"}
Events == {"dispatched", "result", "blocked", "cancelfailed"}

\* cmd, at: the command and where it stands; task: the one it claimed; sel: the
\* criterion in hand; todo: those left; passed, looping: the last check, and
\* whether the steps after it return to the loop.
Proc == [cmd : AllCommands, at : Points, task : Tasks \cup {NoTask},
         sel : Criteria, todo : SUBSET (Nat \X Criteria), steps : 0..MaxSteps,
         passed : BOOLEAN, looping : BOOLEAN]

SomeCriterion == CHOOSE c \in Criteria : TRUE
Idle == [cmd |-> "work", at |-> "idle", task |-> NoTask, sel |-> SomeCriterion,
         todo |-> {}, steps |-> 0, passed |-> FALSE, looping |-> FALSE]

\* fenced: the list stands in a fenced block, under a key; repaired: the
\* statuses have been set from goal.yaml since the list was written.
Acceptance == [items : Acceptances, shown : [Criteria -> AcceptanceStatus],
               fenced : BOOLEAN, repaired : BOOLEAN]
Written == [items : Acceptances, shown : Claims, fenced : BOOLEAN, repaired : {FALSE}]

History == SUBSET (Events \X Tasks)

TypeOK ==
  /\ goal \in Goal
  /\ acceptance \in Acceptance
  /\ history \in History
  /\ torn \in BOOLEAN
  /\ sent \in [Tasks -> 0..2]
  /\ jobs \in [Tasks -> {"none", "open", "closed"}]
  /\ proc \in [Procs -> Proc]
  /\ left \in [Procs -> Nat]
  /\ crashes \in 0..MaxCrashes
  /\ judged \in [Procs -> SUBSET Criteria]
  /\ proven \in SUBSET Criteria

\* create_goal; the user may have written the criteria by hand, with statuses.
Init ==
  /\ goal = NewGoal
  /\ acceptance \in Written
  /\ history = {}
  /\ torn = FALSE
  /\ sent = [t \in Tasks |-> 0]
  /\ jobs = [t \in Tasks |-> "none"]
  /\ proc = [p \in Procs |-> Idle]
  /\ left = MaxRuns
  /\ crashes = 0
  /\ judged = [p \in Procs |-> {}]
  /\ proven = {}

-----------------------------------------------------------------------------
(* The store *)

At(p, point) == proc[p].at = point
Items == acceptance.items

\* repair_acceptance_projection rewrites a fenced block, and the criteria it lists.
Repaired(g) ==
  IF acceptance.fenced
  THEN [acceptance EXCEPT !.repaired = TRUE, !.shown =
          [c \in Criteria |-> IF c \in ToSet(Items) THEN g.ac[c] ELSE @[c]]]
  ELSE acceptance

\* A step of the process alone, and one that loads the goal.
Goes(p, next) ==
  /\ proc' = [proc EXCEPT ![p] = next]
  /\ UNCHANGED <<goal, acceptance, history, torn, sent, jobs, crashes>>
Reads(p, next) ==
  /\ proc' = [proc EXCEPT ![p] = next]
  /\ acceptance' = Repaired(goal)
  /\ UNCHANGED <<goal, history, torn, sent, jobs, crashes>>

\* Events behind a torn line are as good as not written.
Appended(events) == IF torn THEN history ELSE history \cup events

\* Mutant of Commit: acceptance.md is written before goal.yaml.
CommitProjectionFirst(p, g, events, next) ==
  /\ \/ /\ proc' = [proc EXCEPT ![p] = next]
        /\ goal' = g /\ history' = Appended(events) /\ UNCHANGED crashes
     \/ /\ crashes < MaxCrashes /\ crashes' = crashes + 1
        /\ proc' = [proc EXCEPT ![p] = Idle]
        /\ UNCHANGED <<goal, history>>
  /\ acceptance' = Repaired(g)
  /\ UNCHANGED <<torn, sent, jobs>>

\* _apply_outcome_locked: the goal, its event, its projection, in this order;
\* the process may die after the first write, within the second, or after it.
Commit(p, g, events, next) ==
  /\ goal' = g
  /\ \/ /\ proc' = [proc EXCEPT ![p] = next]
        /\ history' = Appended(events)
        /\ acceptance' = Repaired(g)
        /\ UNCHANGED <<torn, crashes>>
     \/ /\ crashes < MaxCrashes /\ crashes' = crashes + 1
        /\ proc' = [proc EXCEPT ![p] = Idle]
        /\ \/ history' \in {history, Appended(events)} /\ UNCHANGED torn
           \/ torn' = TRUE /\ UNCHANGED history
        /\ UNCHANGED acceptance
  /\ UNCHANGED <<sent, jobs>>

\* set_status: a transition that is not allowed raises, and ends the command.
SetStatus(p, target, events) ==
  IF TransitionAllowed(goal, target)
  THEN Commit(p, Transitioned(goal, target), events, Idle)
  ELSE Goes(p, Idle)

\* Mutant of NextNumber: numbers follow the results, not every event.
NextNumberByResult(kind, n) ==
  /\ \A h \in history : h[1] = "result" /\ h[2].kind = kind => h[2].n < n
  /\ n = 1 \/ \E h \in history : h[1] = "result" /\ h[2] = [kind |-> kind, n |-> n - 1]

\* _next_number_for_prefix_locked: one more than the highest in the history.
NextNumber(kind, n) ==
  /\ \A h \in history : h[2].kind = kind => h[2].n < n
  /\ n = 1 \/ \E h \in history : h[2] = [kind |-> kind, n |-> n - 1]

-----------------------------------------------------------------------------
(* Starting a command *)

Starts(p, cmd) ==
  /\ At(p, "idle") /\ cmd \in Commands[p] /\ left[p] > 0
  /\ left' = [left EXCEPT ![p] = @ - 1]

Begins(p, next) ==
  /\ proc' = [proc EXCEPT ![p] = next]
  /\ acceptance' = Repaired(goal)
  /\ UNCHANGED <<goal, torn, sent, crashes>>

\* work and resume: nothing is done for a goal that is over, waits for a gate
\* or has a task already.
WorkRefused(g) ==
  g.status \in {"cancelled", "done"} \/ ~GatesApproved(g) \/ g.active # NoTask
StartWork(p) ==
  /\ Starts(p, "work")
  /\ Begins(p, IF WorkRefused(goal) THEN Idle
               ELSE [Idle EXCEPT !.cmd = "work", !.at = "select"])
  /\ UNCHANGED <<history, jobs>>

\* derive and audit ask for nothing but a free goal.
StartDerive(p) ==
  /\ Starts(p, "derive") /\ Begins(p, [Idle EXCEPT !.cmd = "derive", !.at = "claim"])
  /\ UNCHANGED <<history, jobs>>

StartAudit(p) ==
  /\ Starts(p, "audit") /\ Begins(p, [Idle EXCEPT !.cmd = "audit", !.at = "claim"])
  /\ UNCHANGED <<history, jobs>>

\* signoff of one criterion or of all, refused if one has dependencies left.
StartSignoff(p) ==
  /\ Starts(p, "signoff")
  /\ LET all == Signable(Items, goal) IN
     \E todo \in {all} \cup {{y \in all : y[2] = x[2]} : x \in all} :
       Begins(p, IF todo # {} /\ \A x \in todo : DependenciesSatisfied(goal, x[2])
                 THEN [Idle EXCEPT !.cmd = "signoff", !.at = "sign", !.todo = todo]
                 ELSE Idle)
  /\ UNCHANGED <<history, jobs>>

\* cancel first asks the broker to cancel the task, which may fail.
StartCancel(p) ==
  /\ Starts(p, "cancel")
  /\ Begins(p, [Idle EXCEPT !.cmd = "cancel", !.at = "cancel"])
  /\ \/ goal.active = NoTask /\ UNCHANGED <<history, jobs>>
     \/ /\ goal.active # NoTask /\ jobs[goal.active] = "open"
        /\ jobs' = [jobs EXCEPT ![goal.active] = "closed"]
        /\ UNCHANGED history
     \/ /\ goal.active # NoTask
        /\ history' = Appended({<<"cancelfailed", goal.active>>})
        /\ UNCHANGED jobs

\* approve and gate: one transaction each.
Gate(p) ==
  /\ Starts(p, "gate")
  /\ \/ \E gate \in {"ac", "plan"} : Commit(p, GateSet(goal, gate, "approved"), {}, Idle)
     \/ \E value \in {"approved", "rejected"} :
          Commit(p, CombinedGateSet(goal, value), {}, Idle)

-----------------------------------------------------------------------------
(* A worker task: claimed, dispatched, waited for *)

\* The number is looked up first, and a torn history cannot be read.
Claim(p) ==
  /\ At(p, "claim")
  /\ IF torn \/ ~ClaimAllowed(goal)
     THEN IF ~torn /\ proc[p].cmd = "work" THEN Reads(p, Idle) ELSE Goes(p, Idle)
     ELSE \E n \in 1..MaxTask :
            LET kind == CASE proc[p].cmd = "derive" -> "DERIVE"
                          [] proc[p].cmd = "audit" -> "AUDIT"
                          [] OTHER -> "WORK"
                t == [kind |-> kind, n |-> n]
            IN /\ NextNumber(kind, n)
               /\ Commit(p, Claimed(goal, t), {<<"dispatched", t>>},
                         [proc[p] EXCEPT !.at = "dispatch", !.task = t])

\* The request may be lost on the way there, or on the way back.
Dispatch(p) ==
  /\ At(p, "dispatch")
  /\ \/ /\ sent' = [sent EXCEPT ![proc[p].task] = IF @ < 2 THEN @ + 1 ELSE 2]
        /\ jobs' = [jobs EXCEPT ![proc[p].task] = "open"]
        /\ proc' = [proc EXCEPT ![p].at = "wait"]
     \/ /\ proc' = [proc EXCEPT ![p].at = "block"]
        /\ UNCHANGED <<sent, jobs>>
  /\ UNCHANGED <<goal, acceptance, history, torn, crashes>>

ConnectionLost(p) ==
  At(p, "wait") /\ Goes(p, [proc[p] EXCEPT !.at = "block"])

Answered(p) ==
  /\ At(p, "wait") /\ jobs[proc[p].task] = "closed"
  /\ Goes(p, [proc[p] EXCEPT !.at = "answered"])

\* record_task_result, then what the command does with the reply; a task the
\* goal no longer owns raises.
AfterResult(p, blocker) ==
  CASE proc[p].cmd = "derive" -> [proc[p] EXCEPT !.at = "artifacts"]
    [] proc[p].cmd = "audit" -> Idle
    [] OTHER -> [proc[p] EXCEPT !.at = IF blocker THEN "blocker" ELSE "check"]
RecordTaskResult(p) ==
  /\ At(p, "answered")
  /\ IF CompleteAllowed(goal, proc[p].task)
     THEN \E blocker \in BOOLEAN :
            Commit(p, Completed(goal), {<<"result", proc[p].task>>},
                   AfterResult(p, blocker))
     ELSE Goes(p, Idle)

\* The blocker is recorded on its own, then the goal is blocked.
RecordBlocker(p) ==
  At(p, "blocker") /\ Commit(p, goal, {}, [proc[p] EXCEPT !.at = "block"])

\* set_status to blocked: dispatch failed, worker blocked, cap reached, or
\* manual verification is required.
Block(p) ==
  /\ At(p, "block")
  /\ SetStatus(p, "blocked", {<<"blocked", t>> : t \in {proc[p].task} \ {NoTask}})

\* Mutant of WriteArtifacts: the statuses of the worker's list are taken over.
WriteArtifactsTrusted(p) ==
  /\ At(p, "artifacts")
  /\ \E written \in Written :
       /\ acceptance' = written
       /\ goal' = [goal EXCEPT !.ac = [c \in Criteria |->
                    IF c \in ToSet(written.items) THEN written.shown[c] ELSE @[c]]]
  /\ proc' = [proc EXCEPT ![p] = Idle]
  /\ UNCHANGED <<history, torn, sent, jobs, crashes>>

\* derive replaces acceptance.md by what the worker wrote, its statuses included,
\* or by a text without a list, and nothing else that the goal is judged by.  The
\* process may die before the history is told, or within.
WriteArtifacts(p) ==
  /\ At(p, "artifacts")
  /\ acceptance' \in Written
  /\ proc' = [proc EXCEPT ![p] = Idle]
  /\ \/ UNCHANGED <<torn, crashes>>
     \/ crashes < MaxCrashes /\ crashes' = crashes + 1 /\ torn' = TRUE
  /\ UNCHANGED <<goal, history, sent, jobs>>

-----------------------------------------------------------------------------
(* The loop of work *)

\* Mutant of Select: the steps are not counted.
SelectUncounted(p) ==
  /\ At(p, "select")
  /\ LET open == Selectable(Items, goal) IN
     \/ open = {} /\ Reads(p, [proc[p] EXCEPT !.at = "noncore", !.looping = FALSE])
     \/ \E x \in open : /\ IsFirst(x, open)
                       /\ Reads(p, [proc[p] EXCEPT !.at = "claim", !.sel = x[2]])

Select(p) ==
  /\ At(p, "select")
  /\ LET open == Selectable(Items, goal) IN
     IF proc[p].steps = MaxSteps
     THEN Goes(p, [proc[p] EXCEPT !.at = "block"])
     ELSE \/ open = {} /\ Reads(p, [proc[p] EXCEPT !.at = "noncore", !.looping = FALSE])
          \/ \E x \in open :
               /\ IsFirst(x, open)
               /\ Reads(p, [proc[p] EXCEPT !.at = "claim", !.sel = x[2], !.steps = @ + 1])

\* run_objective_checks selects anew, and runs that criterion's command.  Where the
\* list has gone meanwhile it runs what commands the text has, for no criterion.
Check(p) ==
  /\ At(p, "check")
  /\ LET open == Selectable(Items, goal) IN
     \/ open = {} /\ Reads(p, [proc[p] EXCEPT !.at = "block"]) /\ UNCHANGED proven
     \/ \E x \in open, passed \in BOOLEAN :
          /\ IsFirst(x, open)
          /\ Reads(p, [proc[p] EXCEPT !.at = "checked", !.sel = x[2], !.passed = passed])
          /\ proven' = proven \cup (IF passed THEN {x[2]} ELSE {})
     \/ \E passed \in BOOLEAN :
          /\ Items = <<>>
          /\ Commit(p, goal, {}, [proc[p] EXCEPT !.at = IF passed THEN "noncore" ELSE "select",
                                                  !.looping = TRUE])
          /\ UNCHANGED proven

SetCheckedStatus(p) ==
  /\ At(p, "checked")
  /\ Commit(p, StatusSet(goal, proc[p].sel, IF proc[p].passed THEN "verified" ELSE "failed"),
            {}, [proc[p] EXCEPT !.at = "evidence"])

RecordEvidence(p) ==
  /\ At(p, "evidence")
  /\ Commit(p, EvidenceAdded(goal, proc[p].sel, proc[p].passed), {},
            [proc[p] EXCEPT !.at = IF proc[p].passed THEN "noncore" ELSE "select",
                            !.looping = TRUE])

\* process_noncore: from the statuses read here, one criterion after another.
NonCore(p) ==
  /\ At(p, "noncore")
  /\ Reads(p, [proc[p] EXCEPT !.at = "item", !.todo = NonCoreTodo(Items, goal)])

NonCoreItem(p) ==
  /\ At(p, "item")
  /\ \/ proc[p].todo = {} /\ Goes(p, [proc[p] EXCEPT !.at = "decide"])
     \/ \E x \in proc[p].todo :
          LET c == x[2]
              rest == [proc[p] EXCEPT !.todo = @ \ {x}]
          IN /\ IsFirst(x, proc[p].todo)
             /\ CASE ~DependenciesSatisfied(goal, c) -> Reads(p, rest)
                  [] DependenciesSatisfied(goal, c) /\ c \in Manual ->
                       Commit(p, StatusSet(goal, c, "deferred"), {}, rest)
                  [] OTHER -> \E passed \in BOOLEAN :
                       Commit(p, EvidenceAdded(goal, c, passed), {},
                              [proc[p] EXCEPT !.at = "noted", !.passed = passed])

NonCoreNoted(p) ==
  /\ At(p, "noted")
  /\ \E x \in proc[p].todo :
       /\ IsFirst(x, proc[p].todo)
       /\ Commit(p, StatusSet(goal, x[2], IF proc[p].passed THEN "verified" ELSE "deferred"),
                 {}, [proc[p] EXCEPT !.at = "item", !.todo = @ \ {x}])

Judges(p) ==
  judged' = [judged EXCEPT ![p] = IF AllRequiredSatisfied(Items, goal)
                                  THEN ToSet(Items) ELSE {}]

\* Whether the goal is done is decided from one reading, what else it waits for
\* from another, and either is done in a transaction of its own.
Decide(p) ==
  /\ At(p, "decide")
  /\ Reads(p, [proc[p] EXCEPT !.at =
       IF AllRequiredSatisfied(Items, goal) THEN "finish"
       ELSE IF proc[p].looping THEN "select" ELSE "subjective"])
  /\ Judges(p)

Subjective(p) ==
  /\ At(p, "subjective")
  /\ Reads(p, [proc[p] EXCEPT !.at =
       IF PendingCoreSubjective(Items, goal) # {} THEN "pause" ELSE "block"])

Finish(p) == At(p, "finish") /\ SetStatus(p, "done", {})
Pause(p) == At(p, "pause") /\ SetStatus(p, "gated", {})

-----------------------------------------------------------------------------
(* signoff and cancel *)

Sign(p) ==
  /\ At(p, "sign")
  /\ \E x \in proc[p].todo :
       LET rest == proc[p].todo \ {x} IN
       /\ IsFirst(x, proc[p].todo)
       /\ Commit(p, StatusSet(goal, x[2], "human-approved"), {},
                 [proc[p] EXCEPT !.todo = rest, !.at = IF rest = {} THEN "signed" ELSE @])

Signed(p) ==
  /\ At(p, "signed")
  /\ Reads(p, IF AllRequiredSatisfied(Items, goal)
             THEN [proc[p] EXCEPT !.at = "finish"] ELSE Idle)
  /\ Judges(p)

Cancel(p) == At(p, "cancel") /\ SetStatus(p, "cancelled", {})

-----------------------------------------------------------------------------
(* The environment *)

\* The worker answers, or the broker times the task out or loses it.
TaskEnds(t) ==
  /\ jobs[t] = "open"
  /\ jobs' = [jobs EXCEPT ![t] = "closed"]
  /\ UNCHANGED <<goal, acceptance, history, torn, sent, proc, crashes>>

\* A process dies between transactions or while it appends an event that names no
\* task, or a check runs out of time, which nothing catches.
Crash(p) ==
  /\ ~At(p, "idle") /\ crashes < MaxCrashes
  /\ crashes' = crashes + 1
  /\ proc' = [proc EXCEPT ![p] = Idle]
  /\ torn' \in {torn, TRUE}
  /\ UNCHANGED <<goal, acceptance, history, sent, jobs>>

Start(p) ==
  \/ StartWork(p) \/ StartDerive(p) \/ StartAudit(p) \/ StartSignoff(p)
  \/ StartCancel(p) \/ Gate(p)

Decides(p) == Decide(p) \/ Signed(p)
Other(p) ==
  \/ Claim(p) \/ Dispatch(p) \/ Answered(p) \/ RecordTaskResult(p)
  \/ RecordBlocker(p) \/ Block(p) \/ WriteArtifacts(p)
  \/ Select(p) \/ Subjective(p) \/ SetCheckedStatus(p) \/ RecordEvidence(p)
  \/ NonCore(p) \/ NonCoreItem(p) \/ NonCoreNoted(p)
  \/ Finish(p) \/ Pause(p) \/ Sign(p) \/ Cancel(p)
Step(p) ==
  /\ UNCHANGED left
  /\ \/ Decides(p) /\ UNCHANGED proven
     \/ Check(p) /\ judged' = [judged EXCEPT ![p] = {}]
     \/ Other(p) /\ judged' = [judged EXCEPT ![p] = {}] /\ UNCHANGED proven

Next ==
  \/ \E p \in Procs : Step(p)
  \/ (\E p \in Procs : Start(p)) /\ UNCHANGED <<judged, proven>>
  \/ /\ \/ \E p \in Procs : ConnectionLost(p) \/ Crash(p)
        \/ \E t \in Tasks : TaskEnds(t)
     /\ UNCHANGED <<left, judged, proven>>

Spec == Init /\ [][Next]_vars

\* A command runs on until it returns; the broker times a task out.
FairSpec ==
  /\ Spec
  /\ \A p \in Procs : WF_vars(Step(p))
  /\ \A t \in Tasks : WF_vars(TaskEnds(t) /\ UNCHANGED <<left, judged, proven>>)

-----------------------------------------------------------------------------
(* Properties *)

Working(p) == ~At(p, "idle")

\* No task id is handed to the broker twice, although the number comes from a
\* history whose last event a crash may have lost (store.py:136, :203).
SentOnce == \A t \in Tasks : sent[t] <= 1

\* A goal is ready exactly while both gates are approved and nothing has been
\* done about it, however approvals, rejections and work interleave
\* (policy.py:174).
StatusFollowsGates ==
  /\ goal.status = "ready" => GatesApproved(goal)
  /\ goal.status = "draft" => ~GatesApproved(goal)

\* Types, and the status the gates give.
Consistent == TypeOK /\ StatusFollowsGates

\* Once repaired, acceptance.md never shows a criterion as met that goal.yaml has
\* never counted as met, whatever a crash cuts off (store.py:44).
NeverShownEarly ==
  acceptance.repaired => \A c \in ToSet(Items) :
    acceptance.shown[c] \in {"verified", "human-approved"} => goal.ac[c] # "pending"

\* The status and the evidence of a check are two transactions: status first
\* for core criteria (checks.py:190), evidence first for the others
\* (criteria.py:100).  A crash leaves only the later one out.
EvidenceInOrder ==
  /\ \A e \in goal.evidence : e[1] \in Core => goal.ac[e[1]] \in {"verified", "failed"}
  /\ \A c \in Criteria \ Core : goal.ac[c] = "verified" => <<c, TRUE>> \in goal.evidence

\* A result in the history belongs to a task the history shows dispatched, and one
\* that the goal no longer owns: an event that was lost with its process has no
\* consequences (store.py:90).
ResultInOrder ==
  \A t \in Tasks : <<"result", t>> \in history =>
    <<"dispatched", t>> \in history /\ goal.active # t

\* What a crash between two writes, or between two transactions, cuts off is
\* always the later one, however many processes work: the three files never tell
\* of something that did not happen (store.py:44).
CrashConsistent == NeverShownEarly /\ EvidenceInOrder /\ ResultInOrder

\* A human has signed the criterion off, or a check of it has passed and only a
\* check that another process had under way may have failed since.
Earned(c) ==
  IF c \in Manual THEN goal.ac[c] = "human-approved"
                  ELSE c \in proven /\ goal.ac[c] \in {"verified", "failed"}

\* A goal becomes done only after a list was judged of which every core criterion
\* is earned, by checks and humans and never by what a worker or a hand wrote into
\* acceptance.md, although the decision and the transition are two transactions
\* with other work, derivations and sign-offs between (runner.py:99, :170, :234).
DoneByRight ==
  [][goal.status # "done" /\ goal'.status = "done" =>
       \E p \in Procs : /\ At(p, "finish") /\ judged[p] # {}
                        /\ \A c \in judged[p] \cap Core : Earned(c)]_vars

\* Every command comes to an end (runner.py:93).
CommandsEnd == \A p \in Procs : []<>~Working(p)

\* The task of a goal that is not over is given back, if no process dies: the
\* reply, the failure or a cancellation releases it (store.py:151, :214).
ActiveTaskReleased ==
  []<>(goal.active = NoTask \/ goal.status \in {"done", "cancelled"} \/ crashes > 0)

\* Work ends, and leaves the goal free for the next task.
WorkEnds == CommandsEnd /\ ActiveTaskReleased
=============================================================================
