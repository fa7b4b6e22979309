------------------------------ MODULE GoalRules ------------------------------
(***************************************************************************)
(* The lifecycle of a goal: the transitions of goal/lifecycle.py, the      *)
(* mutations of goal/policy.py and the reading of acceptance criteria in   *)
(* goal/criteria.py.  A policy call validates first and changes the goal   *)
(* only if it may, so for each one there is the goal it returns and, where *)
(* it can refuse, a guard.                                                 *)
(*                                                                         *)
(* A goal's blockers are recorded and never read again; they are left out, *)
(* as are titles, times and reasons.  Its evidence is the set of checks    *)
(* recorded, its acceptance statuses a total map (pending when absent).    *)
(***************************************************************************)
EXTENDS Naturals, Sequences, SequencesExt

CONSTANTS
  Criteria,   \* ids of acceptance criteria
  Core,       \* those of priority core
  Manual,     \* those that are subjective or have no check command
  DependsOn,  \* the criteria each depends on
  MaxTask,    \* the highest task number, a bound of the model only
  NoTask      \* active_task_id when there is none

ASSUME GoalConstantsOK ==
  /\ Criteria # {} /\ Core \subseteq Criteria /\ Manual \subseteq Criteria
  /\ DependsOn \in [Criteria -> SUBSET Criteria]
  /\ MaxTask \in Nat \ {0}

Kinds == {"WORK", "DERIVE", "AUDIT"}
Tasks == [kind : Kinds, n : 1..MaxTask]

ASSUME NoTaskOK == NoTask \notin Tasks

GoalStatus == {"draft", "ready", "running", "gated", "blocked", "done", "cancelled"}
GateStatus == {"pending", "approved", "rejected"}
AcceptanceStatus == {"pending", "verified", "failed", "deferred", "human-approved"}

Goal == [status : GoalStatus,
         acGate : GateStatus,
         planGate : GateStatus,
         active : Tasks \cup {NoTask},
         ac : [Criteria -> AcceptanceStatus],
         evidence : SUBSET (Criteria \X BOOLEAN)]

NewGoal == [status |-> "draft", acGate |-> "pending", planGate |-> "pending",
            active |-> NoTask, ac |-> [c \in Criteria |-> "pending"], evidence |-> {}]

-----------------------------------------------------------------------------
(* Transitions *)

AllowedGoalTransitions(current) ==
  CASE current = "draft" -> {"ready", "blocked", "cancelled"}
    [] current = "ready" ->
         {"draft", "running", "gated", "blocked", "done", "cancelled"}
    [] current = "running" -> {"gated", "blocked", "done", "cancelled"}
    [] current = "gated" -> {"running", "blocked", "done", "cancelled"}
    [] current = "blocked" -> {"running", "gated", "done", "cancelled"}
    [] OTHER -> {}

TransitionAllowed(g, target) ==
  target = g.status \/ target \in AllowedGoalTransitions(g.status)

\* transition_status and cancel: some statuses release the active task.
Releases(target) == target \in {"blocked", "done", "cancelled"}
Transitioned(g, target) ==
  [g EXCEPT !.status = target, !.active = IF Releases(target) THEN NoTask ELSE @]

GatesApproved(g) == g.acGate = "approved" /\ g.planGate = "approved"

\* Mutant of RefreshedStatus: a rejected gate leaves a ready goal ready.
RefreshedOnlyForward(g) ==
  [g EXCEPT !.status = IF GatesApproved(g) /\ @ = "draft" THEN "ready" ELSE @]

\* _refresh_status_from_gates: only draft and ready follow the gates.
RefreshedStatus(g) ==
  [g EXCEPT !.status = IF GatesApproved(g) /\ @ = "draft" THEN "ready"
                       ELSE IF ~GatesApproved(g) /\ @ = "ready" THEN "draft"
                       ELSE @]

GateSet(g, gate, value) ==
  RefreshedStatus(IF gate = "ac" THEN [g EXCEPT !.acGate = value]
                                 ELSE [g EXCEPT !.planGate = value])
CombinedGateSet(g, value) ==
  RefreshedStatus([g EXCEPT !.acGate = value, !.planGate = value])

\* claim_task and complete_task.  A claim asks for no status.
ClaimAllowed(g) == g.active = NoTask
Claimed(g, t) ==
  [g EXCEPT !.active = t,
            !.status = IF t.kind = "WORK" /\ @ = "ready" THEN "running" ELSE @]

CompleteAllowed(g, t) == g.active = t
Completed(g) == [g EXCEPT !.active = NoTask]

\* set_ac_status, defer_ac and record_evidence.
StatusSet(g, c, value) == [g EXCEPT !.ac[c] = value]
EvidenceAdded(g, c, passed) == [g EXCEPT !.evidence = @ \cup {<<c, passed>>}]

-----------------------------------------------------------------------------
(* Criteria; items is the list that acceptance.md holds, in its order.     *)

\* A selection from the list is a set of criteria, each with its place there,
\* and is gone through from the first place to the last.
Listed(items) == {<<i, items[i]>> : i \in DOMAIN items}
IsFirst(x, S) == x \in S /\ \A y \in S : x[1] <= y[1]

Satisfied(g, c) == g.ac[c] \in {"verified", "human-approved"}
DependenciesSatisfied(g, c) == \A d \in DependsOn[c] : Satisfied(g, d)

\* The criteria a worker may be sent for, of which selected takes the first.
Selectable(items, g) ==
  {x \in Listed(items) : /\ x[2] \in Core \ Manual
                         /\ ~Satisfied(g, x[2]) /\ g.ac[x[2]] # "deferred"
                         /\ DependenciesSatisfied(g, x[2])}

PendingCoreSubjective(items, g) ==
  {c \in ToSet(items) : c \in Core \cap Manual /\ ~Satisfied(g, c)
                          /\ DependenciesSatisfied(g, c)}

AllRequiredSatisfied(items, g) ==
  /\ items # <<>>
  /\ \A c \in ToSet(items) \cap Core : Satisfied(g, c)

\* What process_noncore will look at, from the statuses it reads once.
NonCoreTodo(items, g) ==
  {x \in Listed(items) : x[2] \notin Core /\ g.ac[x[2]] \notin {"verified", "deferred"}}

\* What signoff may take: verified ones are refused, approved ones are not.
Signable(items, g) ==
  {x \in Listed(items) : x[2] \in Core \cap Manual /\ g.ac[x[2]] # "verified"}
=============================================================================
