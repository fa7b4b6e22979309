------------------------- MODULE JobLifecycleProofs -------------------------
(***************************************************************************)
(* What the transition planner of JobLifecycle answers, status by status.  *)
(* The search is four nested layers; it is bounded from below by           *)
(* exhibiting a path (LayerStep) and from above by a set no permitted step *)
(* leaves (LayerClosed).                                                   *)
(***************************************************************************)
EXTENDS JobLifecycle, TLAPS

\* A permitted step from a status of the frontier is found by the next layer.
LEMMA LayerStep ==
  ASSUME NEW S, NEW s \in S, NEW t \in PreferredStatuses, CanTransition(s, t)
  PROVE  t \in Layer(S)
BY DEF Layer

LEMMA LayerGrows == ASSUME NEW S PROVE S \subseteq Layer(S)
BY DEF Layer

\* A set no permitted step leaves bounds the search that starts in it.
LEMMA LayerClosed ==
  ASSUME NEW X, NEW S \in SUBSET X,
         \A s \in X, t \in PreferredStatuses : CanTransition(s, t) => t \in X
  PROVE  Layer(S) \in SUBSET X
BY DEF Layer

LEMMA SearchClosed ==
  ASSUME NEW s \in JobStatus, NEW X, s \in X,
         \A r \in X, t \in PreferredStatuses : CanTransition(r, t) => t \in X
  PROVE  TransitionPathTo[s] \subseteq X
<1> DEFINE L1 == Layer({s})  L2 == Layer(L1)  L3 == Layer(L2)
<1>1. L1 \in SUBSET X
  BY LayerClosed
<1>2. L2 \in SUBSET X
  <2> HIDE DEF L1
  <2> QED BY <1>1, LayerClosed
<1>3. L3 \in SUBSET X
  <2> HIDE DEF L2
  <2> QED BY <1>2, LayerClosed
<1>4. Layer(L3) \in SUBSET X
  <2> HIDE DEF L3
  <2> QED BY <1>3, LayerClosed
<1>5. QED
  BY <1>4 DEF TransitionPathTo

\* Whatever the request, the job takes it or stays.
LEMMA TransitionChoice ==
  ASSUME NEW s, NEW t PROVE TransitionTo(s, t) \in {s, t}
BY DEF TransitionTo

\* A finished job is returned as it is, whatever is requested.
LEMMA FinishedStays ==
  ASSUME NEW s \in CanonicalTerminal, NEW t
  PROVE  TransitionTo(s, t) = s /\ ~TransitionRaises(s, t)
<1>1. s \in JobStatus
  BY DEF CanonicalTerminal, JobStatus
<1>2. \A r \in {s}, u \in PreferredStatuses : CanTransition(r, u) => u \in {s}
  BY <1>1 DEF CanTransition, AllowedJobTransitions, CanonicalTerminal, JobStatus
<1>3. TransitionPathTo[s] \subseteq {s}
  BY <1>1, <1>2, SearchClosed
<1>4. QED
  BY <1>3 DEF TransitionTo, TransitionRaises, HasPath

\* Two permitted steps, the first to DELIVERED, are found by the search.
LEMMA SearchFinds ==
  ASSUME NEW s \in JobStatus, NEW t \in PreferredStatuses,
         CanTransition(s, t) \/ (CanTransition(s, "DELIVERED") /\ CanTransition("DELIVERED", t))
  PROVE  t \in TransitionPathTo[s]
<1> DEFINE L1 == Layer({s})  L2 == Layer(L1)  L3 == Layer(L2)
<1>1. t \in L2
  <2>1. CASE CanTransition(s, t)
    <3>1. t \in L1
      BY <2>1, LayerStep
    <3> QED BY <3>1, LayerGrows
  <2>2. CASE CanTransition(s, "DELIVERED") /\ CanTransition("DELIVERED", t)
    <3>1. "DELIVERED" \in L1
      BY <2>2, LayerStep DEF PreferredStatuses
    <3> HIDE DEF L1
    <3> QED BY <2>2, <3>1, LayerStep
  <2> QED BY <2>1, <2>2
<1>2. t \in Layer(L3)
  <2> HIDE DEF L2
  <2>1. t \in L3
    BY <1>1, LayerGrows
  <2> HIDE DEF L3
  <2> QED BY <2>1, LayerGrows
<1> QED BY <1>2 DEF TransitionPathTo

\* An unfinished job accepts every request that settles it.
LEMMA LiveSettles ==
  ASSUME NEW s \in {"QUEUED", "DELIVERED", "RUNNING"},
         NEW t \in {"DONE", "FAILED", "TIMEOUT", "CANCELLED"}
  PROVE  TransitionTo(s, t) = t /\ ~TransitionRaises(s, t)
<1>1. s \in JobStatus /\ t \in PreferredStatuses
  BY DEF JobStatus, PreferredStatuses
<1>2. CanTransition(s, t) \/ (CanTransition(s, "DELIVERED") /\ CanTransition("DELIVERED", t))
  BY DEF CanTransition, AllowedJobTransitions, JobStatus
<1>3. t \in TransitionPathTo[s]
  BY <1>1, <1>2, SearchFinds
<1> QED
  BY <1>1, <1>3 DEF TransitionTo, TransitionRaises, HasPath

\* An unfinished job can always be started.
LEMMA LiveStarts ==
  ASSUME NEW s \in {"QUEUED", "DELIVERED", "RUNNING"}
  PROVE  TransitionTo(s, "RUNNING") = "RUNNING"
<1>1. s \in JobStatus /\ "RUNNING" \in PreferredStatuses
  BY DEF JobStatus, PreferredStatuses
<1>2. CASE s = "RUNNING"
  BY <1>1, <1>2 DEF TransitionTo, HasPath
<1>3. CASE s # "RUNNING"
  <2>1. CanTransition(s, "RUNNING")
    BY <1>3 DEF CanTransition, AllowedJobTransitions, JobStatus
  <2>2. "RUNNING" \in TransitionPathTo[s]
    BY <1>1, <2>1, SearchFinds
  <2> QED BY <1>1, <2>2 DEF TransitionTo, HasPath
<1> QED BY <1>2, <1>3

\* A new or queued job can be queued; a delivered or started one refuses.
LEMMA Queueing ==
  /\ TransitionTo("CREATED", "QUEUED") = "QUEUED" /\ ~TransitionRaises("CREATED", "QUEUED")
  /\ TransitionTo("QUEUED", "QUEUED") = "QUEUED" /\ ~TransitionRaises("QUEUED", "QUEUED")
  /\ TransitionRaises("DELIVERED", "QUEUED") /\ TransitionRaises("RUNNING", "QUEUED")
<1>1. "QUEUED" \in PreferredStatuses
  BY DEF PreferredStatuses
<1>2. "QUEUED" \in TransitionPathTo["CREATED"]
  <2>1. "CREATED" \in JobStatus /\ CanTransition("CREATED", "QUEUED")
    BY DEF CanTransition, AllowedJobTransitions, JobStatus
  <2> QED BY <1>1, <2>1, SearchFinds
<1>3. ASSUME NEW s \in {"DELIVERED", "RUNNING"} PROVE TransitionRaises(s, "QUEUED")
  <2> DEFINE X == JobStatus \ {"CREATED", "QUEUED"}
  <2>1. s \in JobStatus /\ s \in X
    BY DEF JobStatus
  <2>2. \A r \in X, t \in PreferredStatuses : CanTransition(r, t) => t \in X
    BY DEF CanTransition, AllowedJobTransitions, JobStatus, PreferredStatuses
  <2>3. TransitionPathTo[s] \subseteq X
    <3> HIDE DEF X
    <3> QED BY <2>1, <2>2, SearchClosed
  <2> QED BY <1>1, <2>3 DEF TransitionRaises, HasPath, CanonicalTerminal
<1> QED
  BY <1>1, <1>2, <1>3 DEF TransitionTo, TransitionRaises, HasPath

\* A queued or delivered job can be delivered; a running one refuses.
LEMMA Delivering ==
  /\ TransitionTo("QUEUED", "DELIVERED") = "DELIVERED"
  /\ TransitionTo("DELIVERED", "DELIVERED") = "DELIVERED"
  /\ ~TransitionRaises("QUEUED", "DELIVERED")
  /\ TransitionRaises("RUNNING", "DELIVERED")
<1>1. "DELIVERED" \in PreferredStatuses
  BY DEF PreferredStatuses
<1>2. "DELIVERED" \in TransitionPathTo["QUEUED"]
  <2>1. "QUEUED" \in JobStatus /\ CanTransition("QUEUED", "DELIVERED")
    BY DEF CanTransition, AllowedJobTransitions, JobStatus
  <2> QED BY <1>1, <2>1, SearchFinds
<1>3. TransitionRaises("RUNNING", "DELIVERED")
  <2> DEFINE X == JobStatus \ {"CREATED", "QUEUED", "DELIVERED"}
  <2>1. "RUNNING" \in JobStatus /\ "RUNNING" \in X
    BY DEF JobStatus
  <2>2. \A r \in X, t \in PreferredStatuses : CanTransition(r, t) => t \in X
    BY DEF CanTransition, AllowedJobTransitions, JobStatus, PreferredStatuses
  <2>3. TransitionPathTo["RUNNING"] \subseteq X
    <3> HIDE DEF X
    <3> QED BY <2>1, <2>2, SearchClosed
  <2> QED BY <1>1, <2>3 DEF TransitionRaises, HasPath, CanonicalTerminal
<1> QED
  BY <1>1, <1>2, <1>3 DEF TransitionTo, TransitionRaises, HasPath

\* The reference finds nothing outside a set no permitted step leaves.
LEMMA ReachableBound ==
  ASSUME NEW s \in JobStatus, NEW X \in SUBSET PreferredStatuses, Closed(s, X)
  PROVE  Reachable[s] \subseteq X
BY DEF Reachable

\* The first half: what the search finds is reachable, unless it was there.
LEMMA SearchSound ==
  ASSUME NEW s \in JobStatus, NEW t \in TransitionPathTo[s], t # s, t \in PreferredStatuses
  PROVE  t \in Reachable[s]
<1> SUFFICES ASSUME NEW S \in SUBSET PreferredStatuses, Closed(s, S) PROVE t \in S
  BY DEF Reachable
<1>1. TransitionPathTo[s] \subseteq S \cup {s}
  BY SearchClosed DEF Closed
<1> QED
  BY <1>1

\* The way from a job that was just created to any end.
LEMMA CreatedSettles ==
  ASSUME NEW t \in {"QUEUED", "DELIVERED", "RUNNING", "DONE", "FAILED", "TIMEOUT", "CANCELLED"}
  PROVE  t \in TransitionPathTo["CREATED"]
<1> DEFINE L1 == Layer({"CREATED"})  L2 == Layer(L1)  L3 == Layer(L2)
<1>1. "QUEUED" \in L1
  BY LayerStep DEF PreferredStatuses, CanTransition, AllowedJobTransitions, JobStatus
<1>2. "QUEUED" \in L2 /\ "DELIVERED" \in L2
  <2> HIDE DEF L1
  <2>1. "DELIVERED" \in PreferredStatuses /\ CanTransition("QUEUED", "DELIVERED")
    BY DEF PreferredStatuses, CanTransition, AllowedJobTransitions, JobStatus
  <2> QED BY <1>1, <2>1, LayerStep, LayerGrows
<1>3. t \in L3
  <2> HIDE DEF L2
  <2>1. CASE t \in {"QUEUED", "DELIVERED"}
    BY <1>2, <2>1, LayerGrows
  <2>2. CASE t \notin {"QUEUED", "DELIVERED"}
    <3>1. t \in PreferredStatuses /\ CanTransition("DELIVERED", t)
      BY <2>2 DEF PreferredStatuses, CanTransition, AllowedJobTransitions, JobStatus
    <3> QED BY <1>2, <3>1, LayerStep
  <2> QED BY <2>1, <2>2
<1>4. t \in Layer(L3)
  <2> HIDE DEF L3
  <2> QED BY <1>3, LayerGrows
<1> QED
  BY <1>4 DEF TransitionPathTo, JobStatus

\* The second half, status by status: the search finds all that is reachable.
LEMMA SearchComplete ==
  ASSUME NEW s \in JobStatus, NEW t \in Reachable[s], t # s
  PROVE  t \in TransitionPathTo[s]
<1> DEFINE Ends == {"DONE", "FAILED", "TIMEOUT", "CANCELLED"}
<1> USE DEF PreferredStatuses, JobStatus
<1>1. t \in PreferredStatuses
  BY DEF Reachable
<1>2. CASE s = "CREATED"
  BY <1>1, <1>2, CreatedSettles
<1>3. CASE s = "QUEUED"
  <2> DEFINE X == {"DELIVERED", "RUNNING"} \cup Ends
  <2>1. Closed(s, X)
    BY <1>3 DEF Closed, CanTransition, AllowedJobTransitions
  <2>2. t \in X
    BY <2>1, ReachableBound
  <2>3. CanTransition(s, t) \/ (CanTransition(s, "DELIVERED") /\ CanTransition("DELIVERED", t))
    BY <1>3, <2>2 DEF CanTransition, AllowedJobTransitions
  <2> QED BY <1>1, <2>3, SearchFinds
<1>4. CASE s \in {"DELIVERED", "RUNNING", "RECLAIMABLE"}
  <2> DEFINE X == {"RUNNING"} \cup Ends
  <2>1. Closed(s, X)
    BY <1>4 DEF Closed, CanTransition, AllowedJobTransitions
  <2>2. t \in X
    BY <2>1, ReachableBound
  <2>3. CanTransition(s, t)
    BY <1>4, <2>2 DEF CanTransition, AllowedJobTransitions
  <2> QED BY <1>1, <2>3, SearchFinds
<1>5. CASE s \in CanonicalTerminal
  <2>1. Closed(s, {})
    BY <1>5 DEF Closed, CanTransition, AllowedJobTransitions, CanonicalTerminal
  <2>2. t \in {}
    BY <2>1, ReachableBound
  <2> QED BY <2>2
<1> QED
  BY <1>2, <1>3, <1>4, <1>5 DEF CanonicalTerminal

\* The layered search of transition_path finds another status exactly where a
\* chain of permitted steps leads to it (core/job_lifecycle.py:127).
THEOREM PlannerIsExact ==
  \A s \in JobStatus : \A t \in JobStatus \ {s} : TransitionTo(s, t) = t <=> t \in Reachable[s]
<1> SUFFICES ASSUME NEW s \in JobStatus, NEW t \in JobStatus \ {s}
             PROVE  TransitionTo(s, t) = t <=> t \in Reachable[s]
  OBVIOUS
<1>1. t \in Reachable[s] => t \in PreferredStatuses
  BY DEF Reachable
<1> QED
  BY <1>1, SearchSound, SearchComplete DEF TransitionTo, HasPath
=============================================================================
