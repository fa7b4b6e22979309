----------------------------- MODULE LoopEngine -----------------------------
(***************************************************************************)
(* Loop mode at work: engines (loop/services/loop_engine.py, one per orch  *)
(* loop tick or watch process) and operators drive the items of one state  *)
(* file through the service (loop_service.py), while maker and verifier    *)
(* tasks live in the broker.                                               *)
(*                                                                         *)
(* Every service call is a transaction under the lock of the state file    *)
(* and one action here.  Between two of them an engine awaits the broker,  *)
(* and what it read before is stale: an engine carries the item and the    *)
(* attempt number it works on, and transactions check them again.  A       *)
(* process may die anywhere, and a transaction that finds the lock held    *)
(* raises, which ends the tick where it stands: Abandon is both.           *)
(*                                                                         *)
(* The broker is what TaskBroker says, seen through a task id: a task has  *)
(* unfinished work or not, and perhaps a stored result.  Triage has put    *)
(* every item in the file; the attachment of evidence to goals, worktrees  *)
(* and the per-tick limit (10 items) are left out.                         *)
(***************************************************************************)
EXTENDS LoopItem

CONSTANTS
  Items,        \* ids of the loop items
  Engines,      \* processes that may run a tick or a command at the same time
  AllowActive,  \* --allow-active-attempts
  RunChecks,    \* --run-checks
  FailingWork,  \* the attempts <<item, n>> whose work fails a required check
  ByHand,       \* whether operators also use next, collect and verify
  Endings,      \* how tasks may end, a bound of the model only
  Forgetful     \* the broker keeps its tasks in memory only

ASSUME LoopConstantsOK ==
  /\ Items # {}
  /\ AllowActive \in BOOLEAN /\ RunChecks \in BOOLEAN /\ ByHand \in BOOLEAN
  /\ Forgetful \in BOOLEAN
  /\ FailingWork \subseteq Items \X (1..MaxAttempts)

VARIABLES
  item,   \* the state file
  task,   \* the broker's view of each maker and verifier task
  eng     \* what each process is doing

vars == <<item, task, eng>>

Numbers == 1..MaxAttempts
Tasks == ({"loop", "cli", "verify"} \X Items) \X Numbers
MakerTask(kind, i, n) == <<<<kind, i>>, n>>
VerifyTask(i, n) == <<<<"verify", i>>, n>>

\* How a maker's task ends: done with a text or without one, failed (with a
\* text), or timed out or cancelled; a verifier's with a verdict, without a
\* readable one, or timed out or cancelled.
MakerOutcome == {"text", "empty", "failed", "dropped"}
VerifierOutcome == Verdict \cup {"unusable", "dropped"}
Outcomes(k) == IF k[1][1] = "verify" THEN VerifierOutcome ELSE MakerOutcome
Task == [pending : BOOLEAN,
         result : {"none"} \cup MakerOutcome \cup VerifierOutcome]
NoTask == [pending |-> FALSE, result |-> "none"]

Phases == {"idle", "recovered", "triaging", "dispatch", "resolving", "advance",
           "look", "sending", "sent", "marked", "collecting", "collected", "failing",
           "reserving", "checking", "judging", "judged"}

\* at, todo: the items left to dispatch or advance, and the one in hand;
\* n, kind, found: what the engine knows of its attempt; hand: it is an
\* operator's command.
Engine == [at : Phases, todo : SUBSET Items, i : Items, n : 0..MaxAttempts,
           kind : {"none"} \cup RealMaker,
           found : {"none", "text", "empty"} \cup Verdict,
           hand : BOOLEAN]

SomeItem == CHOOSE i \in Items : TRUE
Idle == [at |-> "idle", todo |-> {}, i |-> SomeItem, n |-> 0,
         kind |-> "none", found |-> "none", hand |-> FALSE]

TypeOK ==
  /\ item \in [Items -> Item]
  /\ task \in [Tasks -> Task]
  /\ eng \in [Engines -> Engine]

Init ==
  /\ item = [i \in Items |-> TriagedItem]
  /\ task = [k \in Tasks |-> NoTask]
  /\ eng = [e \in Engines |-> Idle]

\* What get_task_status answers.
Status(k) == IF task[k].result # "none" THEN task[k].result
             ELSE IF task[k].pending THEN "open" ELSE "missing"

\* An engine goes on to a phase, with what it knew or (to look at the item
\* afresh, to give up on it) without; back to its list; or out of its tick.
Goes(e, at) == eng' = [eng EXCEPT ![e].at = at]
Afresh(e, at) ==
  eng' = [eng EXCEPT ![e] = [Idle EXCEPT !.at = at, !.i = eng[e].i, !.todo = eng[e].todo]]
Back(e) == eng' = [eng EXCEPT ![e] = [Idle EXCEPT !.at = "advance", !.todo = eng[e].todo]]
Ends(e) == eng' = [eng EXCEPT ![e] = Idle]
Takes(e, i, at) == eng' = [eng EXCEPT ![e].at = at, ![e].i = i, ![e].todo = @ \ {i}]

\* A transaction of engine e on item i.
Writes(i, it) == item' = [item EXCEPT ![i] = it]

-----------------------------------------------------------------------------
(* Recovery *)

\* _recover_item of a reserved or dispatched attempt.
RecoverDispatching(i) ==
  LET it == item[i]
      status == Status(MakerTask(Current(it).maker, i, it.count))
  IN
  IF Current(it).maker = "reserved"
  THEN IF it.late THEN RolledBack(it) ELSE it
  ELSE CASE status = "missing" -> RolledBack(it)
         [] status = "text"    -> Collected(it, "text")
         [] status = "open"    -> DispatchConfirmed(it)
         [] OTHER              -> Blocked(it)

RecoverRunning(i) ==
  LET it == item[i]
      status == Status(MakerTask(Current(it).maker, i, it.count))
  IN
  CASE status = "text" -> Collected(it, "text")
    [] status \in {"open", "missing"} -> IF it.late THEN Blocked(it) ELSE it
    [] OTHER -> Blocked(it)

\* Mutant of RecoverVerifying: the attempt of a verifier that did not answer is
\* made again.
RecoverVerifyingAgain(i) ==
  LET status == Status(VerifyTask(i, item[i].count)) IN
  CASE status \in Verdict             -> Judged(item[i], status)
    [] status = "open"                -> item[i]
    [] status \in {"missing", "dropped"} -> RolledBack(item[i])
    [] OTHER                          -> Blocked(item[i])

\* Mutant of RecoverVerifying: a verifier whose task is gone is waited for.
RecoverVerifyingPatient(i) ==
  LET status == Status(VerifyTask(i, item[i].count)) IN
  CASE status \in Verdict            -> Judged(item[i], status)
    [] status \in {"open", "missing"} -> item[i]
    [] OTHER                          -> Blocked(item[i])

\* A verdict is read off the reply even if the reply reports a failure.
RecoverVerifying(i) ==
  LET status == Status(VerifyTask(i, item[i].count)) IN
  CASE status \in Verdict -> Judged(item[i], status)
    [] status = "open"    -> item[i]
    [] OTHER              -> Blocked(item[i])

Recovered(i) ==
  CASE item[i].state = "dispatching" -> RecoverDispatching(i)
    [] item[i].state = "running"     -> RecoverRunning(i)
    [] item[i].state = "verifying"   -> RecoverVerifying(i)
    [] OTHER                         -> item[i]

\* recover, the first step of a tick: one transaction over all items.
Recover(e) ==
  /\ eng[e].at = "idle"
  /\ item' = [i \in Items |-> Recovered(i)]
  /\ Goes(e, "recovered")
  /\ UNCHANGED task

\* The broker was there when the gateway was built and gone when the client
\* was: recovery without a broker gives up every open attempt.
RecoverWithoutBroker(e) ==
  /\ eng[e].at = "idle"
  /\ item' = [i \in Items |->
                IF item[i].state \in ActiveStates \ {"awaiting_verdict"}
                THEN Blocked(item[i]) ELSE item[i]]
  /\ Goes(e, "recovered")
  /\ UNCHANGED task

\* Recovery is skipped without any broker, and an error in it is only noted.
RecoverFails(e) ==
  /\ eng[e].at = "idle"
  /\ Goes(e, "recovered")
  /\ UNCHANGED <<item, task>>

-----------------------------------------------------------------------------
(* A tick *)

\* Active attempts stop the tick, unless it is told to go on.
TickRefuses(e) ==
  /\ eng[e].at = "recovered"
  /\ ~AllowActive
  /\ \E i \in Items : Active(item[i])
  /\ Ends(e)
  /\ UNCHANGED <<item, task>>

TickGoesOn(e) ==
  /\ eng[e].at = "recovered"
  /\ AllowActive \/ \A i \in Items : ~Active(item[i])
  /\ Goes(e, "triaging")
  /\ UNCHANGED <<item, task>>

\* After triage, and whatever happened meanwhile, _dispatch_ready lists the
\* ready items.
ListReady(e) ==
  /\ eng[e].at = "triaging"
  /\ eng' = [eng EXCEPT ![e].at = "dispatch",
                        ![e].todo = {i \in Items : item[i].state = "ready"}]
  /\ UNCHANGED <<item, task>>

ResolveItem(e) ==
  /\ eng[e].at = "dispatch"
  /\ \E i \in eng[e].todo : Takes(e, i, "resolving")
  /\ UNCHANGED <<item, task>>

\* next_item; an item that is not ready any more is passed over.
NextItem(e) ==
  LET i == eng[e].i IN
  /\ eng[e].at = "resolving"
  /\ IF DispatchAllowed(item[i]) THEN Writes(i, Dispatched(item[i])) ELSE UNCHANGED item
  /\ Goes(e, "dispatch")
  /\ UNCHANGED task

\* No worktree for the maker: the item is blocked, whatever it is by now.
WorktreeUnavailable(e) ==
  /\ eng[e].at = "resolving"
  /\ Unfinished(item[eng[e].i])
  /\ Writes(eng[e].i, Blocked(item[eng[e].i]))
  /\ Goes(e, "dispatch")
  /\ UNCHANGED task

\* _advance_open_attempts lists the open ones.
DispatchEnds(e) ==
  /\ \/ eng[e].at = "dispatch" /\ eng[e].todo = {}
     \/ eng[e].at = "resolving"  \* an error ends the dispatching only
  /\ eng' = [eng EXCEPT ![e] = [Idle EXCEPT !.at = "advance",
                                            !.todo = {i \in Items : Active(item[i])}]]
  /\ UNCHANGED <<item, task>>

AdvanceItem(e) ==
  /\ eng[e].at = "advance"
  /\ \E i \in eng[e].todo : Takes(e, i, "look")
  /\ UNCHANGED <<item, task>>

TickEnds(e) ==
  /\ eng[e].at = "advance"
  /\ eng[e].todo = {}
  /\ Ends(e)
  /\ UNCHANGED <<item, task>>

\* The process dies, a transaction finds the lock held, or a step raises.
Abandon(e) ==
  /\ eng[e].at # "idle"
  /\ Ends(e)
  /\ UNCHANGED <<item, task>>

-----------------------------------------------------------------------------
(* One item: _advance_item_until_waiting *)

NextPhase(it) ==
  CASE it.state = "dispatching"      -> "sending"
    [] it.state = "running"          -> "collecting"
    [] it.state = "awaiting_verdict" -> "reserving"
    [] it.state = "verifying"        -> "checking"

\* The id a maker is sent to: a reservation becomes the engine's own task.
KindOf(it) ==
  IF it.state \in {"awaiting_verdict", "verifying"} THEN "none"
  ELSE IF Current(it).maker \in RealMaker THEN Current(it).maker ELSE "loop"

Look(e) ==
  LET it == item[eng[e].i] IN
  /\ eng[e].at = "look"
  /\ Active(it)
  /\ eng' = [eng EXCEPT ![e] = [@ EXCEPT !.at = NextPhase(it), !.n = it.count,
                                         !.kind = KindOf(it), !.found = "none"]]
  /\ UNCHANGED <<item, task>>

LookAway(e) ==
  /\ eng[e].at = "look"
  /\ ~Active(item[eng[e].i])
  /\ Back(e)
  /\ UNCHANGED <<item, task>>

\* The broker refuses a task whose worker still has a message of it (a busy
\* worker), and takes one that is already finished: its job stays as it is, but
\* the message is queued, delivered and worked, beside the stored result.
Sends(k) ==
  /\ ~task[k].pending
  /\ task' = [task EXCEPT ![k].pending = TRUE]

Engaged(e) == MakerTask(eng[e].kind, eng[e].i, eng[e].n)

SendMaker(e) ==
  /\ eng[e].at = "sending"
  /\ Sends(Engaged(e))
  /\ Goes(e, "sent")
  /\ UNCHANGED item

\* The request is refused or fails, perhaps after the broker took the task.
SendMakerFails(e) ==
  /\ eng[e].at = "sending"
  /\ Sends(Engaged(e)) \/ UNCHANGED task
  /\ Afresh(e, "failing")
  /\ UNCHANGED item

\* mark_dispatched.
MarkDispatched(e) ==
  LET i == eng[e].i IN
  /\ eng[e].at = "sent"
  /\ At(item[i], eng[e].n, "dispatching")
  /\ Writes(i, BrokerTaskRecorded(item[i], eng[e].kind))
  /\ IF eng[e].hand THEN Ends(e) ELSE Goes(e, "marked")
  /\ UNCHANGED task

\* mark_running.
MarkRunning(e) ==
  LET i == eng[e].i IN
  /\ eng[e].at = "marked"
  /\ At(item[i], eng[e].n, "dispatching")
  /\ Current(item[i]).maker # "reserved"
  /\ Writes(i, DispatchConfirmed(item[i]))
  /\ Afresh(e, "look")
  /\ UNCHANGED task

\* Mutant of AwaitMaker: what the broker answers is taken for the result.
AwaitMakerStatus(e) ==
  /\ eng[e].at = "collecting"
  /\ eng' = [eng EXCEPT ![e].at = "collected", ![e].found = Status(Engaged(e))]
  /\ UNCHANGED <<item, task>>

\* await_result returns the text of any stored result, even a failure's, and
\* no text for anything else, a wait that timed out included.
AwaitMaker(e) ==
  /\ eng[e].at = "collecting"
  /\ LET status == Status(Engaged(e)) IN
     eng' = [eng EXCEPT ![e].at = "collected",
                        ![e].found = IF status \in {"text", "failed"} THEN "text" ELSE "empty"]
  /\ UNCHANGED <<item, task>>

AwaitMakerFails(e) ==
  /\ eng[e].at = "collecting"
  /\ Afresh(e, "failing")
  /\ UNCHANGED <<item, task>>

\* Mutant of CollectMaker: the attempt is not checked again.
CollectMakerUnchecked(e) ==
  LET i == eng[e].i IN
  /\ eng[e].at = "collected"
  /\ Active(item[i])
  /\ Writes(i, Collected(item[i], eng[e].found))
  /\ Afresh(e, "look")
  /\ UNCHANGED task

\* collect_maker_result.
CollectMaker(e) ==
  LET i == eng[e].i IN
  /\ eng[e].at = "collected"
  /\ At(item[i], eng[e].n, "running")
  /\ Writes(i, Collected(item[i], eng[e].found))
  /\ Afresh(e, "look")
  /\ UNCHANGED task

\* Mutant of BlockMakerFailure: a finished item is blocked too.
BlockMakerFailureAnyway(e) ==
  /\ eng[e].at = "failing"
  /\ Writes(eng[e].i, Blocked(item[eng[e].i]))
  /\ Back(e)
  /\ UNCHANGED task

\* _block_maker_failure blocks the item, whatever it is by now.
BlockMakerFailure(e) ==
  LET i == eng[e].i IN
  /\ eng[e].at = "failing"
  /\ Unfinished(item[i])
  /\ Writes(i, Blocked(item[i]))
  /\ Back(e)
  /\ UNCHANGED task

\* reserve_verification; a command goes on with its reservation at hand.
ReserveVerification(e) ==
  LET i == eng[e].i IN
  /\ eng[e].at = "reserving"
  /\ At(item[i], eng[e].n, "awaiting_verdict")
  /\ Writes(i, VerificationStarted(item[i]))
  /\ IF eng[e].hand THEN Goes(e, "checking") ELSE Afresh(e, "look")
  /\ UNCHANGED task

\* Without a broker client the engine blocks the item it should verify.
VerifierUnavailable(e) ==
  LET i == eng[e].i IN
  /\ eng[e].at = "checking" /\ ~eng[e].hand
  /\ Unfinished(item[i])
  /\ Writes(i, Blocked(item[i]))
  /\ Afresh(e, "look")
  /\ UNCHANGED task

\* Mutant of SendVerifier: the maker's result is not looked at.
SendVerifierAnyway(e) ==
  /\ eng[e].at = "checking"
  /\ Sends(VerifyTask(eng[e].i, eng[e].n))
  /\ Goes(e, "judging")
  /\ UNCHANGED item

\* dispatch_and_collect runs the checks and sends the verifier its task; a
\* maker result without text raises.
SendVerifier(e) ==
  /\ eng[e].at = "checking"
  /\ item[eng[e].i].attempts[eng[e].n].result = "text"
  /\ Sends(VerifyTask(eng[e].i, eng[e].n))
  /\ Goes(e, "judging")
  /\ UNCHANGED item

\* The request is refused or fails, and the error ends the tick.
SendVerifierFails(e) ==
  /\ eng[e].at = "checking"
  /\ item[eng[e].i].attempts[eng[e].n].result = "text"
  /\ Sends(VerifyTask(eng[e].i, eng[e].n))
  /\ Ends(e)
  /\ UNCHANGED item

\* run_checks; one that cannot be read or run counts as a failed required one.
ChecksFail(e) ==
  RunChecks /\ ~eng[e].hand /\ <<eng[e].i, eng[e].n>> \in FailingWork

\* A failed required check overrides the verdict; anything unreadable raises.
AwaitVerdict(e) ==
  LET status == Status(VerifyTask(eng[e].i, eng[e].n)) IN
  /\ eng[e].at = "judging"
  /\ status \in Verdict
  /\ eng' = [eng EXCEPT ![e].at = "judged",
                        ![e].found = IF ChecksFail(e) THEN "rejected" ELSE status]
  /\ UNCHANGED <<item, task>>

\* apply_verdict.
ApplyVerdict(e) ==
  LET i == eng[e].i IN
  /\ eng[e].at = "judged"
  /\ At(item[i], eng[e].n, "verifying")
  /\ Writes(i, Judged(item[i], eng[e].found))
  /\ IF eng[e].hand THEN Ends(e) ELSE Afresh(e, "look")
  /\ UNCHANGED task

-----------------------------------------------------------------------------
(* Operators: orch loop ready, cancel, next, collect, verify *)

Ready(i) ==
  /\ ReadyAllowed(item[i])
  /\ Writes(i, Readied(item[i]))
  /\ UNCHANGED <<task, eng>>

Cancel(i) ==
  /\ Unfinished(item[i])
  /\ Writes(i, Cancelled(item[i]))
  /\ UNCHANGED <<task, eng>>

\* next reserves an attempt and goes on to mark it dispatched, under a task
\* id that the operator sends by other means, or never.
NextByHand(e, i) ==
  /\ ByHand
  /\ eng[e].at = "idle"
  /\ DispatchAllowed(item[i])
  /\ Writes(i, Dispatched(item[i]))
  /\ eng' = [eng EXCEPT ![e] = [Idle EXCEPT !.at = "sent", !.hand = TRUE, !.i = i,
                                            !.n = item[i].count + 1, !.kind = "cli"]]
  /\ UNCHANGED task

\* The operator sends the task announced by next, which may be refused.
SendByHand(i, n) ==
  /\ ByHand
  /\ item[i].attempts[n].maker = "cli"
  /\ Sends(MakerTask("cli", i, n))
  /\ UNCHANGED <<item, eng>>

CollectByHand(i) ==
  /\ ByHand
  /\ item[i].state = "running"
  /\ \E result \in {"text", "empty"} : Writes(i, Collected(item[i], result))
  /\ UNCHANGED <<task, eng>>

\* verify does what an engine does from awaiting_verdict on, without checks.
VerifyByHand(e, i) ==
  /\ ByHand
  /\ eng[e].at = "idle"
  /\ item[i].state = "awaiting_verdict"
  /\ eng' = [eng EXCEPT ![e] = [Idle EXCEPT !.at = "reserving", !.hand = TRUE, !.i = i,
                                            !.n = item[i].count]]
  /\ UNCHANGED <<item, task>>

-----------------------------------------------------------------------------
(* The world: the broker's side, and the clock *)

\* A task is replied to, or times out or is cancelled, and what the broker kept
\* of an earlier execution of the same id is overwritten.
TaskEnds(k) ==
  /\ task[k].pending
  /\ \E outcome \in Outcomes(k) \cap Endings :
       task' = [task EXCEPT ![k] = [pending |-> FALSE, result |-> outcome]]
  /\ UNCHANGED <<item, eng>>

\* The broker restarts without its memory.
BrokerForgets ==
  /\ Forgetful
  /\ task' = [k \in Tasks |-> NoTask]
  /\ UNCHANGED <<item, eng>>

\* The reservation or the task of an attempt grows older than its grace.
GrowsLate(i) ==
  /\ item[i].state \in {"dispatching", "running"}
  /\ ~item[i].late
  /\ Writes(i, [item[i] EXCEPT !.late = TRUE])
  /\ UNCHANGED <<task, eng>>

-----------------------------------------------------------------------------
TickStep(e) ==
  \/ RecoverWithoutBroker(e) \/ RecoverFails(e) \/ TickRefuses(e) \/ TickGoesOn(e)
  \/ ListReady(e) \/ ResolveItem(e) \/ NextItem(e) \/ WorktreeUnavailable(e)
  \/ DispatchEnds(e) \/ AdvanceItem(e) \/ TickEnds(e) \/ Look(e) \/ LookAway(e)
MakerStep(e) ==
  \/ SendMaker(e) \/ SendMakerFails(e) \/ MarkDispatched(e) \/ MarkRunning(e)
  \/ AwaitMaker(e) \/ AwaitMakerFails(e) \/ CollectMaker(e) \/ BlockMakerFailure(e)
VerifierStep(e) ==
  \/ ReserveVerification(e) \/ VerifierUnavailable(e) \/ SendVerifier(e)
  \/ SendVerifierFails(e) \/ AwaitVerdict(e) \/ ApplyVerdict(e)
EngineStep(e) == TickStep(e) \/ MakerStep(e) \/ VerifierStep(e)

OperatorStep ==
  \/ \E i \in Items : Ready(i) \/ Cancel(i) \/ CollectByHand(i)
  \/ \E i \in Items, e \in Engines : NextByHand(e, i) \/ VerifyByHand(e, i)
  \/ \E i \in Items, n \in Numbers : SendByHand(i, n)
WorldStep ==
  \/ \E k \in Tasks : TaskEnds(k)
  \/ \E i \in Items : GrowsLate(i)
  \/ BrokerForgets

Next == \/ \E e \in Engines : Recover(e) \/ EngineStep(e) \/ Abandon(e)
        \/ OperatorStep \/ WorldStep

Spec == Init /\ [][Next]_vars

\* A scheduled tick comes again and again, a process goes on or ends, and
\* recovery, tried again and again, gets the lock and the broker in the end.
\* A task ends (TaskBroker shows that the broker frees every worker), and time
\* passes.
Fairness ==
  /\ \A e \in Engines : WF_vars(EngineStep(e) \/ Abandon(e)) /\ SF_vars(Recover(e))
  /\ \A k \in Tasks : WF_vars(TaskEnds(k))
  /\ \A i \in Items : WF_vars(GrowsLate(i))

FairSpec == Spec /\ Fairness
-----------------------------------------------------------------------------
(* Properties *)

\* Whatever engines, operators and recovery do to it in turn, every stored
\* item passes _validate_invariants, so that the state file can be read again
\* (LoopItem.__post_init__ on every transition; only ready relies on it).
ItemsValid == \A i \in Items : ValidItem(item[i])

\* A done item was judged on a result with a text in it: neither a task id that
\* is executed twice after a rollback, nor a recovery, nor a wait that returned
\* nothing lets it through (dispatch_and_collect, _recover_item).
DoneOnWork ==
  \A i \in Items : item[i].state = "done" => Current(item[i]).result = "text"

\* Task ids are made of the number of an attempt, a rolled-back attempt gives its
\* number back, and the broker keeps the results of both executions under one
\* id.  Even so the broker knows a verifier's task only of an attempt whose work
\* is recorded: no verdict waits under the id of an attempt that is made again
\* (rollback_dispatch, dispatch_and_collect).
VerifiedHaveText ==
  \A i \in Items, n \in Numbers :
    task[VerifyTask(i, n)] # NoTask => item[i].attempts[n].result = "text"

\* A rejected item has an attempt left: whoever applies the last rejection,
\* the engine or recovery, blocks the item (_apply_verifier_verdict).
RejectedCanRetry ==
  \A i \in Items : item[i].state = "rejected" => ReadyAllowed(item[i])

\* Nothing that holds a stale view moves a finished item.
FinishedItemStays ==
  [][\A i \in Items : ~Unfinished(item[i]) => item'[i] = item[i]]_vars

\* What an attempt produced is never lost: a result and a verdict stay as they
\* are, and only an attempt without a result is rolled back.
ResultsKept ==
  [][\A i \in Items, n \in Numbers :
       /\ item[i].attempts[n].result # "none" =>
            item'[i].attempts[n].result = item[i].attempts[n].result
       /\ item[i].attempts[n].verdict # "none" =>
            item'[i].attempts[n] = item[i].attempts[n]]_vars

\* A verdict is given to the last attempt only, once it is being verified.
VerdictsInTurn ==
  [][\A i \in Items, n \in Numbers :
       item'[i].attempts[n].verdict # item[i].attempts[n].verdict =>
         /\ n = item[i].count
         /\ item[i].state = "verifying"
         /\ item[i].attempts[n].result # "none"]_vars

\* What a maker and a verifier said of an attempt is recorded in turn and for
\* good, whichever process or recovery records it, and whatever a second
\* execution of the same task makes of the result in the broker (_transact).
RecordsKept == ResultsKept /\ VerdictsInTurn

\* However processes die and whatever the broker forgets, an item does not
\* stay with a maker or a verifier for ever (recover).
MakersAndVerifiersLeft ==
  \A i \in Items, s \in {"dispatching", "running", "verifying"} :
    item[i].state = s ~> item[i].state # s
=============================================================================
