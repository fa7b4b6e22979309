---------------------------- MODULE JobLifecycle ----------------------------
(***************************************************************************)
(* The canonical lifecycle of a task job: core/states.py, and the planner  *)
(* of core/job_lifecycle.py that moves a job to a requested status along   *)
(* the permitted transitions.  Constant-level: the broker modules import   *)
(* it.                                                                     *)
(*                                                                         *)
(* Aliases accepted on the wire (PENDING, IN_PROGRESS, COMPLETED) are      *)
(* normalised to their canonical status before any of this runs and are    *)
(* not modelled.                                                           *)
(***************************************************************************)

JobStatus == {"CREATED", "QUEUED", "DELIVERED", "RUNNING", "RECLAIMABLE",
              "DONE", "FAILED", "TIMEOUT", "CANCELLED", "CLOSED"}

\* Statuses under which a message keeps its worker busy.
BusyMessageStatus == {"QUEUED", "DELIVERED", "RUNNING"}

\* No transition leaves these, and reaching one drops the job's lease.
CanonicalTerminal == {"DONE", "FAILED", "TIMEOUT", "CANCELLED", "CLOSED"}

AllowedJobTransitions ==
  [s \in JobStatus |->
     CASE s = "CREATED"     -> {"QUEUED", "CANCELLED"}
       [] s = "QUEUED"      -> {"DELIVERED", "RUNNING", "TIMEOUT", "CANCELLED"}
       [] s = "DELIVERED"   -> {"RUNNING", "RECLAIMABLE", "DONE", "FAILED",
                                "TIMEOUT", "CANCELLED"}
       [] s = "RUNNING"     -> {"RECLAIMABLE", "DONE", "FAILED", "TIMEOUT",
                                "CANCELLED", "CLOSED"}
       [] s = "RECLAIMABLE" -> {"RUNNING", "DONE", "FAILED", "TIMEOUT",
                                "CANCELLED", "CLOSED"}
       [] OTHER             -> {}]

CanTransition(s, t) == t \in AllowedJobTransitions[s]

\* The statuses the planner may step through or stop at: a task job is never
\* driven to RECLAIMABLE (only reclaim does that) nor to CLOSED (talk jobs).
PreferredStatuses == {"QUEUED", "DELIVERED", "RUNNING",
                      "DONE", "FAILED", "TIMEOUT", "CANCELLED"}

\* One layer of the breadth-first search of transition_path.
Layer(S) == S \cup {t \in PreferredStatuses : \E s \in S : CanTransition(s, t)}

\* Statuses a path exists to.  The longest path without repetition has four
\* steps (CREATED, QUEUED, DELIVERED, RUNNING, terminal), so four layers
\* close the search.
TransitionPathTo == [s \in JobStatus |-> Layer(Layer(Layer(Layer({s}))))]

HasPath(s, target) == s = target \/ target \in TransitionPathTo[s]

\* TaskJobLifecycle.transition: a request that names no lifecycle event leaves
\* the job as it is; without a path it raises, except that a terminal job is
\* returned unchanged.
TransitionRaises(s, target) ==
  /\ target \in PreferredStatuses
  /\ ~HasPath(s, target)
  /\ s \notin CanonicalTerminal

\* Mutant of TransitionTo: the job takes whatever status is requested.
TransitionUnchecked(s, target) == IF target \in PreferredStatuses THEN target ELSE s

TransitionTo(s, target) ==
  IF target \in PreferredStatuses /\ HasPath(s, target) THEN target ELSE s

\* reply_job_status for a task reply: any failed wire status is FAILED.
ReplyJobStatus(replyStatus) ==
  IF replyStatus \in {"FAILED", "TIMEOUT", "CANCELLED"} THEN "FAILED" ELSE "DONE"

-----------------------------------------------------------------------------
\* The reference for the planner: what permitted steps lead to from s, which
\* is the least set of statuses it may use with all of their successors.
Closed(s, S) == \A r \in S \cup {s}, t \in PreferredStatuses :
                  CanTransition(r, t) => t \in S

Reachable == [s \in JobStatus |->
  {t \in PreferredStatuses : \A S \in SUBSET PreferredStatuses : Closed(s, S) => t \in S}]
=============================================================================
