-------------------------- MODULE GoalRunnerProofs --------------------------
(***************************************************************************)
(* Proofs about GoalRunner for any number of processes, criteria, steps    *)
(* and crashes.  A first invariant says where a command may stand and that *)
(* a task which is about to be sent has not been; with it the types, the   *)
(* status the gates give and SentOnce are proved.  A second one says which *)
(* statuses a criterion of each kind may have, and what of a command's     *)
(* reading no other command can undo; with it CrashConsistent and          *)
(* DoneByRight are.                                                        *)
(***************************************************************************)
EXTENDS GoalRunner, TLAPS

-----------------------------------------------------------------------------
(* Commands and goals with some of their fields replaced.                  *)

\* The fields of a command that a step which only goes on leaves alone.
GoesOn(r, n, a) == n \in Proc /\ n.cmd = r.cmd /\ n.task = r.task /\ n.at = a

LEMMA IdleType == Idle \in Proc /\ Idle.at = "idle" /\ Idle.task = NoTask
<1>1. SomeCriterion \in Criteria
  BY GoalConstantsOK DEF SomeCriterion
<1> QED BY <1>1, RunnerConstantsOK DEF Idle, Proc, AllCommands, Points

\* What a hand or a worker wrote is not repaired yet.
LEMMA WrittenFits == \A w \in Written : w \in Acceptance /\ ~w.repaired
BY RunnerConstantsOK DEF Written, Acceptance

LEMMA MovesOn ==
  ASSUME NEW r \in Proc, NEW a \in Points
  PROVE  LET n == [r EXCEPT !.at = a]
         IN GoesOn(r, n, a) /\ n.sel = r.sel /\ n.todo = r.todo /\ n.passed = r.passed
BY DEF Proc, GoesOn

LEMMA Selects ==
  ASSUME NEW r \in Proc, NEW a \in Points, NEW c \in Criteria, r.steps # MaxSteps
  PROVE  LET n == [r EXCEPT !.at = a, !.sel = c, !.steps = @ + 1] IN GoesOn(r, n, a)
<1>1. r.steps + 1 \in 0..MaxSteps
  BY RunnerConstantsOK DEF Proc
<1> QED BY <1>1, Zenon DEF Proc, GoesOn

LEMMA Loops ==
  ASSUME NEW r \in Proc, NEW a \in Points, NEW b \in BOOLEAN
  PROVE  LET n == [r EXCEPT !.at = a, !.looping = b] IN GoesOn(r, n, a)
BY Zenon DEF Proc, GoesOn

FollowsGates(g) ==
  /\ g.status = "ready" => GatesApproved(g)
  /\ g.status = "draft" => ~GatesApproved(g)
SameCriteria(g, h) == h.ac = g.ac /\ h.evidence = g.evidence

LEMMA GoalTransitioned ==
  ASSUME NEW g \in Goal, NEW s \in {"done", "gated", "blocked", "cancelled"}
  PROVE  LET h == Transitioned(g, s)
         IN /\ h \in Goal /\ SameCriteria(g, h) /\ h.status = s /\ FollowsGates(h)
            /\ h.active \in {g.active, NoTask}
<1> DEFINE a == IF Releases(s) THEN NoTask ELSE [g EXCEPT !.status = s].active
           h == Transitioned(g, s)
<1>1. s \in GoalStatus /\ a \in Tasks \cup {NoTask} /\ a \in {g.active, NoTask}
  <2>1. [g EXCEPT !.status = s].active = g.active
    BY Zenon DEF Goal
  <2>2. g.active \in Tasks \cup {NoTask}
    BY DEF Goal
  <2> QED BY <2>1, <2>2 DEF GoalStatus
<1>2. h = [g EXCEPT !.status = s, !.active = a]
  BY Zenon DEF Transitioned
<1>3. h \in Goal /\ SameCriteria(g, h) /\ h.status = s /\ h.active = a
  <2> HIDE DEF a, h
  <2>1. LET k == [g EXCEPT !.status = s, !.active = a]
        IN k \in Goal /\ SameCriteria(g, k) /\ k.status = s /\ k.active = a
    BY <1>1, Zenon DEF Goal, SameCriteria
  <2> QED BY <1>2, <2>1
<1> QED BY <1>1, <1>3 DEF FollowsGates

LEMMA GoalClaimed ==
  ASSUME NEW g \in Goal, FollowsGates(g), NEW t \in Tasks
  PROVE  LET h == Claimed(g, t)
         IN /\ h \in Goal /\ SameCriteria(g, h) /\ FollowsGates(h)
            /\ h.status \in {g.status, "running"} /\ h.active = t
<1> DEFINE s == IF t.kind = "WORK" /\ g.status = "ready" THEN "running" ELSE g.status
<1>1. s \in GoalStatus
  BY DEF GoalStatus, Goal
<1>2. LET h == [g EXCEPT !.active = t, !.status = s]
      IN /\ h \in Goal /\ SameCriteria(g, h) /\ h.status = s
         /\ h.acGate = g.acGate /\ h.planGate = g.planGate /\ h.active = t
  <2> HIDE DEF s
  <2> QED BY <1>1, Zenon DEF Goal, SameCriteria
<1>3. Claimed(g, t) = [g EXCEPT !.active = t, !.status = s]
  BY Zenon DEF Claimed, Goal
<1> QED BY <1>2, <1>3 DEF FollowsGates, GatesApproved

LEMMA GoalCompleted ==
  ASSUME NEW g \in Goal, FollowsGates(g)
  PROVE  LET h == Completed(g)
         IN /\ h \in Goal /\ SameCriteria(g, h) /\ FollowsGates(h) /\ h.status = g.status
            /\ h.active = NoTask
<1>1. LET h == Completed(g)
      IN /\ h \in Goal /\ SameCriteria(g, h) /\ h.status = g.status /\ h.active = NoTask
         /\ h.acGate = g.acGate /\ h.planGate = g.planGate
  BY Zenon DEF Completed, Goal, SameCriteria
<1> QED BY <1>1 DEF FollowsGates, GatesApproved

LEMMA GoalRefreshed ==
  ASSUME NEW g \in Goal
  PROVE  LET h == RefreshedStatus(g)
         IN /\ h \in Goal /\ SameCriteria(g, h) /\ FollowsGates(h)
            /\ h.status \in {g.status, "ready", "draft"} /\ h.active = g.active
<1> DEFINE s == IF GatesApproved(g) /\ g.status = "draft" THEN "ready"
                ELSE IF ~GatesApproved(g) /\ g.status = "ready" THEN "draft"
                ELSE g.status
<1>1. s \in GoalStatus
  BY DEF GoalStatus, Goal
<1>2. LET h == [g EXCEPT !.status = s]
      IN /\ h \in Goal /\ SameCriteria(g, h) /\ h.status = s
         /\ h.acGate = g.acGate /\ h.planGate = g.planGate /\ h.active = g.active
  <2> HIDE DEF s
  <2> QED BY <1>1, Zenon DEF Goal, SameCriteria
<1>3. RefreshedStatus(g) = [g EXCEPT !.status = s]
  BY DEF RefreshedStatus
<1> QED BY <1>2, <1>3 DEF FollowsGates, GatesApproved

LEMMA GoalGated ==
  ASSUME NEW g \in Goal, NEW v \in {"approved", "rejected"}
  PROVE  \A h \in {GateSet(g, "ac", v), GateSet(g, "plan", v), CombinedGateSet(g, v)} :
           /\ h \in Goal /\ SameCriteria(g, h) /\ FollowsGates(h)
           /\ h.status \in {g.status, "ready", "draft"} /\ h.active = g.active
<1>0. v \in GateStatus
  BY DEF GateStatus
<1> DEFINE h1 == [g EXCEPT !.acGate = v]  h2 == [g EXCEPT !.planGate = v]
           h3 == [g EXCEPT !.acGate = v, !.planGate = v]
<1>1. /\ h1 \in Goal /\ SameCriteria(g, h1) /\ h1.status = g.status
      /\ h1.active = g.active
  BY <1>0, Zenon DEF Goal, SameCriteria
<1>2. /\ h2 \in Goal /\ SameCriteria(g, h2) /\ h2.status = g.status
      /\ h2.active = g.active
  BY <1>0, Zenon DEF Goal, SameCriteria
<1>3. /\ h3 \in Goal /\ SameCriteria(g, h3) /\ h3.status = g.status
      /\ h3.active = g.active
  BY <1>0, Zenon DEF Goal, SameCriteria
<1>4. /\ GateSet(g, "ac", v) = RefreshedStatus(h1) /\ GateSet(g, "plan", v) = RefreshedStatus(h2)
      /\ CombinedGateSet(g, v) = RefreshedStatus(h3)
  BY Zenon DEF GateSet, CombinedGateSet
<1> HIDE DEF h1, h2, h3
<1>5. ASSUME NEW h \in {h1, h2, h3}
      PROVE  LET k == RefreshedStatus(h)
             IN /\ k \in Goal /\ SameCriteria(g, k) /\ FollowsGates(k)
                /\ k.status \in {g.status, "ready", "draft"} /\ k.active = g.active
  <2>1. h \in Goal /\ SameCriteria(g, h) /\ h.status = g.status /\ h.active = g.active
    BY <1>1, <1>2, <1>3
  <2> QED BY <2>1, GoalRefreshed DEF SameCriteria
<1> QED BY <1>4, <1>5

LEMMA GoalStatusSet ==
  ASSUME NEW g \in Goal, FollowsGates(g), NEW c \in Criteria, NEW v \in AcceptanceStatus
  PROVE  LET h == StatusSet(g, c, v)
         IN /\ h \in Goal /\ FollowsGates(h) /\ h.status = g.status /\ h.evidence = g.evidence
            /\ h.ac = [g.ac EXCEPT ![c] = v] /\ h.active = g.active
<1>1. LET h == StatusSet(g, c, v)
      IN /\ h.status = g.status /\ h.evidence = g.evidence /\ h.active = g.active
         /\ h.acGate = g.acGate /\ h.planGate = g.planGate
         /\ h.ac = [g.ac EXCEPT ![c] = v]
  BY Zenon DEF StatusSet, Goal
<1>2. StatusSet(g, c, v) \in Goal
  BY DEF StatusSet, Goal
<1> QED BY <1>1, <1>2 DEF FollowsGates, GatesApproved

LEMMA GoalEvidence ==
  ASSUME NEW g \in Goal, FollowsGates(g), NEW c \in Criteria, NEW b \in BOOLEAN
  PROVE  LET h == EvidenceAdded(g, c, b)
         IN /\ h \in Goal /\ FollowsGates(h) /\ h.status = g.status /\ h.ac = g.ac
            /\ h.evidence = g.evidence \cup {<<c, b>>} /\ h.active = g.active
<1>1. g.evidence \cup {<<c, b>>} \in SUBSET (Criteria \X BOOLEAN)
  BY DEF Goal
<1>2. LET h == [g EXCEPT !.evidence = g.evidence \cup {<<c, b>>}]
      IN /\ h \in Goal /\ h.status = g.status /\ h.ac = g.ac
         /\ h.acGate = g.acGate /\ h.planGate = g.planGate
         /\ h.evidence = g.evidence \cup {<<c, b>>} /\ h.active = g.active
  BY <1>1, Zenon DEF Goal
<1>3. EvidenceAdded(g, c, b) = [g EXCEPT !.evidence = g.evidence \cup {<<c, b>>}]
  BY Zenon DEF EvidenceAdded
<1> QED BY <1>2, <1>3 DEF FollowsGates, GatesApproved

-----------------------------------------------------------------------------
(* What every step of a process keeps.  Most hand the process its next   *)
(* state through Goes, Reads or Commit; the lemmas Looked and Committed    *)
(* say what these do, and one lemma for each action how it uses them.      *)

\* Where only work stands, and where a command has a task or is to claim one.
WorkPoints == {"select", "blocker", "check", "checked", "evidence", "noncore", "item",
               "noted", "decide", "subjective"}
TaskPoints == {"claim", "dispatch", "wait", "answered"}

\* A command stands only where its own code takes it, and one that has claimed a
\* task knows which.
Fits(p, r) ==
  /\ r.at = "idle" \/ r.cmd \in Commands[p]
  /\ r.at \in WorkPoints => r.cmd = "work"
  /\ r.at \in TaskPoints => r.cmd \in {"work", "derive", "audit"}
  /\ r.at \in TaskPoints \ {"claim"} => r.task # NoTask
CommandsFit == \A p \in Procs : Fits(p, proc[p])

Recorded(t) == <<"dispatched", t>> \in history

\* A task that a process is about to send has not been sent, and no other
\* process is about to send it.
SentAtMostOnce ==
  /\ SentOnce
  /\ \A t \in Tasks : sent[t] > 0 => Recorded(t)
  /\ \A p \in Procs : proc[p].task # NoTask => Recorded(proc[p].task)
  /\ \A p \in Procs : At(p, "dispatch") =>
       /\ sent[proc[p].task] = 0
       /\ \A q \in Procs : At(q, "dispatch") /\ proc[q].task = proc[p].task => q = p

TaskInv == TypeOK /\ FollowsGates(goal) /\ CommandsFit /\ SentAtMostOnce /\ ResultInOrder

\* What every step of a process does.
WellFormed(p) ==
  /\ goal' \in Goal /\ FollowsGates(goal')
  /\ acceptance' \in Acceptance
  /\ history' \in History /\ history \subseteq history'
  /\ torn' \in BOOLEAN
  /\ ResultInOrder'
  /\ jobs' \in [Tasks -> {"none", "open", "closed"}]
  /\ crashes' \in 0..MaxCrashes
  /\ proc' \in [Procs -> Proc] /\ Fits(p, proc'[p])
  /\ \A q \in Procs \ {p} : proc'[q] = proc[q]

\* What every step does that neither claims a task nor sends it.
SendsNothing(p) ==
  /\ sent' = sent /\ proc'[p].at # "dispatch"
  /\ proc'[p].task \in {NoTask, proc[p].task}

LEMMA FitsIdle == \A p \in Procs : Fits(p, Idle)
BY IdleType DEF Fits, WorkPoints, TaskPoints

LEMMA RepairedType ==
  ASSUME TypeOK, NEW g \in Goal
  PROVE  /\ Repaired(g) \in Acceptance /\ Repaired(g).items = Items
         /\ \/ Repaired(g) = acceptance
            \/ \A c \in ToSet(Items) \cap Criteria : Repaired(g).shown[c] = g.ac[c]
<1>1. acceptance \in Acceptance
  BY DEF TypeOK
<1> DEFINE S == [c \in Criteria |-> IF c \in ToSet(Items) THEN g.ac[c] ELSE acceptance.shown[c]]
           R == [acceptance EXCEPT !.repaired = TRUE, !.shown = S]
<1>2. Repaired(g) \in {R, acceptance}
  <2>1. [acceptance EXCEPT !.repaired = TRUE].shown = acceptance.shown
    BY <1>1, Zenon DEF Acceptance
  <2>2. R = [acceptance EXCEPT !.repaired = TRUE, !.shown =
               [c \in Criteria |-> IF c \in ToSet(Items) THEN g.ac[c] ELSE @[c]]]
    BY <2>1, Zenon
  <2> HIDE DEF R
  <2> QED BY <2>2, Zenon DEF Repaired
<1>3. S \in [Criteria -> AcceptanceStatus]
  <2>1. /\ g.ac \in [Criteria -> AcceptanceStatus]
        /\ acceptance.shown \in [Criteria -> AcceptanceStatus]
    BY <1>1 DEF Goal, Acceptance
  <2> QED BY <2>1
<1>4. \A c \in ToSet(Items) \cap Criteria : S[c] = g.ac[c]
  OBVIOUS
<1> HIDE DEF S
<1>5. R \in Acceptance /\ R.items = acceptance.items /\ R.shown = S
  BY <1>1, <1>3 DEF Acceptance
<1> HIDE DEF R
<1> QED BY <1>1, <1>2, <1>4, <1>5 DEF Items

LEMMA Committed ==
  ASSUME TaskInv, NEW p \in Procs, NEW g \in Goal, FollowsGates(g),
         NEW ev \in SUBSET (Events \X Tasks),
         \A t \in Tasks : <<"result", t>> \in history \cup ev => Recorded(t) /\ g.active # t,
         NEW n \in Proc, Fits(p, n), Commit(p, g, ev, n)
  PROVE  /\ WellFormed(p) /\ sent' = sent /\ goal' = g /\ proc'[p] \in {n, Idle}
         /\ acceptance' \in {acceptance, Repaired(g)}
<1>1. TypeOK
  BY DEF TaskInv
<1>2. goal' = g /\ jobs' = jobs /\ sent' = sent
  BY DEF Commit
<1>3. history' \in {history, history \cup ev} /\ torn' \in BOOLEAN
  BY <1>1 DEF Commit, Appended, TypeOK
<1>4. acceptance' \in {acceptance, Repaired(g)}
  BY DEF Commit
<1>5. crashes' \in 0..MaxCrashes
  BY <1>1, RunnerConstantsOK DEF Commit, TypeOK
<1>6. \E m \in {n, Idle} : proc' = [proc EXCEPT ![p] = m]
  BY DEF Commit
<1>7. /\ proc' \in [Procs -> Proc] /\ proc'[p] \in {n, Idle}
      /\ \A q \in Procs \ {p} : proc'[q] = proc[q]
  BY <1>1, <1>6, IdleType DEF TypeOK
<1>8. Fits(p, proc'[p])
  BY <1>7, FitsIdle
<1>9. acceptance' \in Acceptance
  BY <1>1, <1>4, RepairedType DEF TypeOK
<1>10. history' \in History /\ history \subseteq history' /\ ResultInOrder'
  BY <1>1, <1>2, <1>3 DEF TypeOK, History, ResultInOrder, Recorded
<1>11. jobs' \in [Tasks -> {"none", "open", "closed"}]
  BY <1>1, <1>2 DEF TypeOK
<1> QED BY <1>2, <1>3, <1>4, <1>5, <1>7, <1>8, <1>9, <1>10, <1>11 DEF WellFormed

LEMMA Looked ==
  ASSUME TaskInv, NEW p \in Procs, NEW n \in Proc, Fits(p, n), Reads(p, n) \/ Goes(p, n)
  PROVE  /\ WellFormed(p) /\ sent' = sent /\ goal' = goal /\ proc'[p] = n
         /\ acceptance' \in {acceptance, Repaired(goal)}
<1>1. TypeOK /\ FollowsGates(goal) /\ goal \in Goal
  BY DEF TaskInv, TypeOK
<1>2. /\ goal' = goal /\ jobs' = jobs /\ sent' = sent /\ history' = history /\ crashes' = crashes
      /\ torn' = torn
  BY DEF Reads, Goes
<1>3. acceptance' \in {acceptance, Repaired(goal)}
  BY DEF Reads, Goes
<1>4. proc' = [proc EXCEPT ![p] = n]
  BY DEF Reads, Goes
<1>5. /\ proc' \in [Procs -> Proc] /\ proc'[p] = n
      /\ \A q \in Procs \ {p} : proc'[q] = proc[q]
  BY <1>1, <1>4 DEF TypeOK
<1>6. acceptance' \in Acceptance
  BY <1>1, <1>3, RepairedType DEF TypeOK
<1>7. ResultInOrder'
  BY <1>2 DEF TaskInv, ResultInOrder
<1> QED BY <1>1, <1>2, <1>3, <1>5, <1>6, <1>7 DEF WellFormed, TypeOK

LEMMA SendingNothing ==
  ASSUME TaskInv, NEW p \in Procs, WellFormed(p), SendsNothing(p),
         left' \in [Procs -> Nat], judged' \in [Procs -> SUBSET Criteria], proven' \in SUBSET Criteria
  PROVE  TaskInv'
<1>1. TypeOK'
  BY DEF TaskInv, TypeOK, WellFormed, SendsNothing
<1>2. FollowsGates(goal') /\ CommandsFit'
  BY DEF TaskInv, WellFormed, CommandsFit, Fits
<1>3. ResultInOrder'
  BY DEF WellFormed
<1>4. SentAtMostOnce'
  <2>1. SentOnce' /\ \A t \in Tasks : sent'[t] > 0 => Recorded(t)'
    BY DEF TaskInv, WellFormed, SendsNothing, SentAtMostOnce, SentOnce, Recorded
  <2>2. \A q \in Procs : proc'[q].task # NoTask => <<"dispatched", proc'[q].task>> \in history'
    BY DEF TaskInv, WellFormed, SendsNothing, SentAtMostOnce, Recorded
  <2>3. \A q \in Procs : proc'[q].at = "dispatch" => q # p /\ proc'[q] = proc[q]
    BY DEF WellFormed, SendsNothing
  <2> QED BY <2>1, <2>2, <2>3 DEF TaskInv, SentAtMostOnce, SendsNothing, Recorded, At
<1> QED BY <1>1, <1>2, <1>3, <1>4 DEF TaskInv, FollowsGates

-----------------------------------------------------------------------------
(* The steps that neither claim a task, nor send one, nor touch a criterion. *)

\* A step that leaves the criteria of the goal alone.
CriteriaKept(p) ==
  /\ SameCriteria(goal, goal')
  /\ acceptance' \in {acceptance, Repaired(goal')} \/ ~acceptance'.repaired

\* Where nothing is claimed about the criteria in hand.
Plain(r) == r.at \notin {"checked", "evidence", "item", "noted", "sign", "finish"}

Ordinary(p) == WellFormed(p) /\ SendsNothing(p) /\ CriteriaKept(p) /\ Plain(proc'[p])

\* What the invariant says of one process.
LEMMA Fitting ==
  ASSUME TaskInv
  PROVE  /\ goal \in Goal /\ FollowsGates(goal)
         /\ \A p \in Procs : proc[p] \in Proc /\ Fits(p, proc[p])
         /\ \A p \in Procs : proc[p].task \in Tasks => Recorded(proc[p].task)
BY NoTaskOK DEF TaskInv, TypeOK, CommandsFit, SentAtMostOnce

LEMMA OrdinaryLook ==
  ASSUME TaskInv, NEW p \in Procs, NEW n \in Proc, Fits(p, n), Reads(p, n) \/ Goes(p, n),
         n.at # "dispatch", n.task \in {NoTask, proc[p].task}
  PROVE  WellFormed(p) /\ SendsNothing(p) /\ CriteriaKept(p) /\ proc'[p] = n
<1>1. /\ WellFormed(p) /\ sent' = sent /\ goal' = goal /\ proc'[p] = n
      /\ acceptance' \in {acceptance, Repaired(goal)}
  BY Looked
<1> QED BY <1>1 DEF SendsNothing, CriteriaKept, SameCriteria

LEMMA OrdinaryCommit ==
  ASSUME TaskInv, NEW p \in Procs, NEW g \in Goal, FollowsGates(g), SameCriteria(goal, g),
         NEW ev \in SUBSET (Events \X Tasks), g.active \in {goal.active, NoTask},
         \A t \in Tasks : <<"result", t>> \in ev => Recorded(t) /\ g.active = NoTask,
         NEW n \in Proc, Fits(p, n), Commit(p, g, ev, n),
         n.at # "dispatch", n.task \in {NoTask, proc[p].task}
  PROVE  WellFormed(p) /\ SendsNothing(p) /\ CriteriaKept(p) /\ proc'[p] \in {n, Idle}
<1>0. \A t \in Tasks : <<"result", t>> \in history \cup ev => Recorded(t) /\ g.active # t
  BY NoTaskOK DEF TaskInv, ResultInOrder, Recorded
<1>1. /\ WellFormed(p) /\ sent' = sent /\ goal' = g /\ proc'[p] \in {n, Idle}
      /\ acceptance' \in {acceptance, Repaired(g)}
  BY <1>0, Committed
<1> QED BY <1>1, IdleType DEF SendsNothing, CriteriaKept

LEMMA AnsweredStep ==
  ASSUME TaskInv, NEW p \in Procs, Answered(p)
  PROVE  Ordinary(p)
<1> DEFINE n == [proc[p] EXCEPT !.at = "answered"]
<1>1. proc[p] \in Proc /\ Fits(p, proc[p]) /\ proc[p].at = "wait"
  BY Fitting DEF Answered, At
<1>2. GoesOn(proc[p], n, "answered")
  BY <1>1, MovesOn DEF Points
<1>3. Goes(p, n)
  BY DEF Answered
<1> HIDE DEF n
<1>4. Fits(p, n)
  BY <1>1, <1>2 DEF Fits, GoesOn, WorkPoints, TaskPoints
<1> QED BY <1>2, <1>3, <1>4, OrdinaryLook DEF Ordinary, Plain, GoesOn

LEMMA LostStep ==
  ASSUME TaskInv, NEW p \in Procs, ConnectionLost(p)
  PROVE  Ordinary(p)
<1> DEFINE n == [proc[p] EXCEPT !.at = "block"]
<1>1. proc[p] \in Proc /\ Fits(p, proc[p]) /\ proc[p].at = "wait"
  BY Fitting DEF ConnectionLost, At
<1>2. GoesOn(proc[p], n, "block")
  BY <1>1, MovesOn DEF Points
<1>3. Goes(p, n)
  BY DEF ConnectionLost
<1> HIDE DEF n
<1>4. Fits(p, n)
  BY <1>1, <1>2 DEF Fits, GoesOn, WorkPoints, TaskPoints
<1> QED BY <1>2, <1>3, <1>4, OrdinaryLook DEF Ordinary, Plain, GoesOn

LEMMA RecordBlockerStep ==
  ASSUME TaskInv, NEW p \in Procs, RecordBlocker(p)
  PROVE  Ordinary(p)
<1> DEFINE n == [proc[p] EXCEPT !.at = "block"]
<1>1. proc[p] \in Proc /\ Fits(p, proc[p]) /\ proc[p].at = "blocker"
  BY Fitting DEF RecordBlocker, At
<1>2. GoesOn(proc[p], n, "block")
  BY <1>1, MovesOn DEF Points
<1>3. Commit(p, goal, {}, n)
  BY DEF RecordBlocker
<1> HIDE DEF n
<1>4. Fits(p, n)
  BY <1>1, <1>2 DEF Fits, GoesOn, WorkPoints, TaskPoints
<1>5. goal \in Goal /\ FollowsGates(goal) /\ SameCriteria(goal, goal)
  BY Fitting DEF SameCriteria
<1>6. {} \in SUBSET (Events \X Tasks) /\ \A t \in Tasks : <<"result", t>> \notin {}
  OBVIOUS
<1>7. n \in Proc /\ n.at # "dispatch" /\ n.task \in {NoTask, proc[p].task} /\ Plain(n)
  BY <1>2 DEF GoesOn, Plain
<1>8. WellFormed(p) /\ SendsNothing(p) /\ CriteriaKept(p) /\ proc'[p] \in {n, Idle}
  BY <1>3, <1>4, <1>5, <1>6, <1>7, OrdinaryCommit
<1> QED BY <1>7, <1>8, IdleType DEF Ordinary, Plain

LEMMA StatusStep ==
  ASSUME TaskInv, NEW p \in Procs, NEW s \in {"done", "gated", "blocked", "cancelled"},
         NEW ev \in SUBSET (Events \X Tasks), \A t \in Tasks : <<"result", t>> \notin ev,
         SetStatus(p, s, ev)
  PROVE  Ordinary(p)
<1>1. Fits(p, Idle) /\ Idle \in Proc /\ Idle.at = "idle" /\ Idle.task = NoTask
  BY FitsIdle, IdleType
<1>2. CASE Goes(p, Idle)
  BY <1>1, <1>2, OrdinaryLook DEF Ordinary, Plain
<1>3. CASE Commit(p, Transitioned(goal, s), ev, Idle)
  <2> DEFINE g == Transitioned(goal, s)
  <2>1. g \in Goal /\ SameCriteria(goal, g) /\ FollowsGates(g) /\ g.active \in {goal.active, NoTask}
    BY Fitting, GoalTransitioned
  <2>2. Commit(p, g, ev, Idle)
    BY <1>3
  <2> HIDE DEF g
  <2> QED BY <1>1, <2>1, <2>2, OrdinaryCommit DEF Ordinary, Plain
<1> QED BY <1>2, <1>3 DEF SetStatus

LEMMA BlockStep ==
  ASSUME TaskInv, NEW p \in Procs, Block(p)
  PROVE  Ordinary(p)
<1> DEFINE ev == {<<"blocked", t>> : t \in {proc[p].task} \ {NoTask}}
<1>1. ev \in SUBSET (Events \X Tasks) /\ \A t \in Tasks : <<"result", t>> \notin ev
  <2>1. proc[p].task \in Tasks \cup {NoTask}
    BY Fitting DEF Proc
  <2> QED BY <2>1 DEF Events
<1>2. SetStatus(p, "blocked", ev)
  BY DEF Block
<1> HIDE DEF ev
<1> QED BY <1>1, <1>2, StatusStep

LEMMA EndStep ==
  ASSUME TaskInv, NEW p \in Procs, Finish(p) \/ Pause(p) \/ Cancel(p)
  PROVE  Ordinary(p)
<1>1. {} \in SUBSET (Events \X Tasks) /\ \A t \in Tasks : <<"result", t>> \notin {}
  OBVIOUS
<1>2. PICK s \in {"done", "gated", "cancelled"} : SetStatus(p, s, {})
  BY DEF Finish, Pause, Cancel
<1> QED BY <1>1, <1>2, StatusStep

LEMMA ResultStep ==
  ASSUME TaskInv, NEW p \in Procs, RecordTaskResult(p)
  PROVE  Ordinary(p)
<1>1. proc[p] \in Proc /\ Fits(p, proc[p]) /\ proc[p].at = "answered"
  BY Fitting DEF RecordTaskResult, At
<1>2. Fits(p, Idle) /\ Idle \in Proc /\ Idle.at = "idle" /\ Idle.task = NoTask
  BY FitsIdle, IdleType
<1>3. CASE Goes(p, Idle)
  BY <1>2, <1>3, OrdinaryLook DEF Ordinary, Plain
<1>4. ASSUME NEW blocker \in BOOLEAN,
             Commit(p, Completed(goal), {<<"result", proc[p].task>>}, AfterResult(p, blocker))
      PROVE  Ordinary(p)
  <2> DEFINE ev == {<<"result", proc[p].task>>}  g == Completed(goal)
             n == AfterResult(p, blocker)
  <2>1. ev \in SUBSET (Events \X Tasks) /\ \A t \in Tasks : <<"result", t>> \in ev => Recorded(t)
    <3>1. proc[p].task \in Tasks
      BY <1>1 DEF Fits, TaskPoints, Proc
    <3>2. Recorded(proc[p].task)
      BY <3>1, Fitting
    <3> QED BY <3>1, <3>2 DEF Events
  <2>2. g \in Goal /\ SameCriteria(goal, g) /\ FollowsGates(g) /\ g.active = NoTask
    BY Fitting, GoalCompleted
  <2>3. \A a \in {"artifacts", "blocker", "check"} : GoesOn(proc[p], [proc[p] EXCEPT !.at = a], a)
    BY <1>1, MovesOn DEF Points
  <2>4. \/ proc[p].cmd = "derive" /\ GoesOn(proc[p], n, "artifacts")
        \/ n = Idle
        \/ proc[p].cmd = "work" /\ (GoesOn(proc[p], n, "blocker") \/ GoesOn(proc[p], n, "check"))
    <3>1. proc[p].cmd \in {"work", "derive", "audit"}
      BY <1>1 DEF Fits, TaskPoints
    <3>2. CASE proc[p].cmd = "derive"
      <4>1. n = [proc[p] EXCEPT !.at = "artifacts"]
        BY <3>2 DEF AfterResult
      <4> QED BY <3>2, <4>1, <2>3
    <3>3. CASE proc[p].cmd = "audit"
      BY <3>3 DEF AfterResult
    <3>4. CASE proc[p].cmd = "work"
      <4>1. n = [proc[p] EXCEPT !.at = IF blocker THEN "blocker" ELSE "check"]
        BY <3>4, Zenon DEF AfterResult
      <4>2. PICK a \in {"blocker", "check"} : a = IF blocker THEN "blocker" ELSE "check"
        OBVIOUS
      <4>3. n = [proc[p] EXCEPT !.at = a]
        BY <4>1, <4>2, Zenon
      <4> HIDE DEF n
      <4> QED BY <3>4, <4>2, <4>3, <2>3
    <3> QED BY <3>1, <3>2, <3>3, <3>4
  <2>5. Commit(p, g, ev, n)
    BY <1>4
  <2> HIDE DEF n, g, ev
  <2>6. /\ n \in Proc /\ Fits(p, n) /\ n.at # "dispatch" /\ Plain(n)
        /\ n.task \in {NoTask, proc[p].task}
    BY <1>1, <1>2, <2>4 DEF Fits, GoesOn, WorkPoints, TaskPoints, Plain
  <2>7. WellFormed(p) /\ SendsNothing(p) /\ CriteriaKept(p) /\ proc'[p] \in {n, Idle}
    BY <2>1, <2>2, <2>5, <2>6, OrdinaryCommit
  <2> QED BY <1>2, <2>6, <2>7 DEF Ordinary, Plain
<1> QED BY <1>3, <1>4 DEF RecordTaskResult

LEMMA ArtifactsStep ==
  ASSUME TaskInv, NEW p \in Procs, WriteArtifacts(p)
  PROVE  Ordinary(p)
<1>1. TypeOK /\ FollowsGates(goal) /\ Fits(p, Idle)
  BY FitsIdle DEF TaskInv
<1>2. /\ proc' = [proc EXCEPT ![p] = Idle] /\ goal' = goal /\ history' = history
      /\ sent' = sent /\ jobs' = jobs
  BY DEF WriteArtifacts
<1>3. /\ proc' \in [Procs -> Proc] /\ proc'[p] = Idle
      /\ \A q \in Procs \ {p} : proc'[q] = proc[q]
  BY <1>1, <1>2, IdleType DEF TypeOK
<1>4. acceptance' \in Acceptance /\ ~acceptance'.repaired
  <2>1. acceptance' \in Written
    BY DEF WriteArtifacts
  <2>2. \A w : w \in Written => w \in Acceptance /\ ~w.repaired
    BY WrittenFits
  <2> QED BY <2>1, <2>2
<1>5. crashes' \in 0..MaxCrashes /\ torn' \in BOOLEAN
  <2>1. crashes' \in 0..MaxCrashes
    BY <1>1, RunnerConstantsOK DEF WriteArtifacts, TypeOK
  <2>2. torn' \in BOOLEAN
    BY <1>1 DEF WriteArtifacts, TypeOK
  <2> QED BY <2>1, <2>2
<1>6. WellFormed(p)
  BY <1>1, <1>2, <1>3, <1>4, <1>5 DEF WellFormed, TypeOK, TaskInv, ResultInOrder
<1> QED BY <1>2, <1>3, <1>4, <1>6, IdleType
        DEF Ordinary, SendsNothing, CriteriaKept, Plain, SameCriteria

LEMMA CrashStep ==
  ASSUME TaskInv, NEW p \in Procs, Crash(p)
  PROVE  Ordinary(p)
<1>1. TypeOK /\ FollowsGates(goal) /\ Fits(p, Idle)
  BY FitsIdle DEF TaskInv
<1>2. /\ proc' = [proc EXCEPT ![p] = Idle] /\ goal' = goal /\ history' = history
      /\ sent' = sent /\ jobs' = jobs /\ acceptance' = acceptance
  BY DEF Crash
<1>3. /\ proc' \in [Procs -> Proc] /\ proc'[p] = Idle
      /\ \A q \in Procs \ {p} : proc'[q] = proc[q]
  BY <1>1, <1>2, IdleType DEF TypeOK
<1>4. crashes' \in 0..MaxCrashes /\ torn' \in BOOLEAN
  <2>1. crashes' \in 0..MaxCrashes
    BY <1>1, RunnerConstantsOK DEF Crash, TypeOK
  <2>2. torn' \in BOOLEAN
    BY <1>1 DEF Crash, TypeOK
  <2> QED BY <2>1, <2>2
<1>5. WellFormed(p)
  BY <1>1, <1>2, <1>3, <1>4 DEF WellFormed, TypeOK, TaskInv, ResultInOrder
<1> QED BY <1>2, <1>3, <1>5, IdleType DEF Ordinary, SendsNothing, CriteriaKept, Plain, SameCriteria

LEMMA ListedFacts ==
  ASSUME TaskInv
  PROVE  /\ Items \in Acceptances /\ Items \in Seq(Criteria)
         /\ Listed(Items) \subseteq Nat \X Criteria
         /\ \A x \in Listed(Items) : x[1] \in DOMAIN Items /\ x = <<x[1], Items[x[1]]>>
         /\ ToSet(Items) \subseteq Criteria
<1>1. Items \in Acceptances /\ Items \in Seq(Criteria)
  BY RunnerConstantsOK DEF TaskInv, TypeOK, Acceptance, Items
<1> QED BY <1>1 DEF Listed, ToSet

LEMMA SelectStep ==
  ASSUME TaskInv, NEW p \in Procs, Select(p)
  PROVE  Ordinary(p)
<1> DEFINE open == Selectable(Items, goal)
<1>1. proc[p] \in Proc /\ Fits(p, proc[p]) /\ proc[p].at = "select"
  BY Fitting DEF Select, At
<1>2. ASSUME NEW n, NEW a \in {"block", "noncore", "claim"}, GoesOn(proc[p], n, a),
             Reads(p, n) \/ Goes(p, n)
      PROVE  Ordinary(p)
  <2>1. Fits(p, n) /\ Plain(n)
    BY <1>1, <1>2 DEF Fits, GoesOn, WorkPoints, TaskPoints, Plain
  <2> QED BY <1>2, <2>1, OrdinaryLook DEF Ordinary, GoesOn
<1>3. CASE Goes(p, [proc[p] EXCEPT !.at = "block"])
  <2>1. GoesOn(proc[p], [proc[p] EXCEPT !.at = "block"], "block")
    BY <1>1, MovesOn DEF Points
  <2> QED BY <1>2, <1>3, <2>1
<1>4. CASE Reads(p, [proc[p] EXCEPT !.at = "noncore", !.looping = FALSE])
  <2>1. GoesOn(proc[p], [proc[p] EXCEPT !.at = "noncore", !.looping = FALSE], "noncore")
    BY <1>1, Loops DEF Points
  <2> QED BY <1>2, <1>4, <2>1, Zenon
<1>5. ASSUME NEW x \in open, proc[p].steps # MaxSteps,
             Reads(p, [proc[p] EXCEPT !.at = "claim", !.sel = x[2], !.steps = @ + 1])
      PROVE  Ordinary(p)
  <2>1. x[2] \in Criteria
    BY ListedFacts, Fitting DEF Selectable
  <2>2. GoesOn(proc[p], [proc[p] EXCEPT !.at = "claim", !.sel = x[2], !.steps = @ + 1], "claim")
    BY <1>1, <1>5, <2>1, Selects DEF Points
  <2> QED BY <1>2, <1>5, <2>2, Zenon
<1> QED BY <1>3, <1>4, <1>5 DEF Select

LEMMA SubjectiveStep ==
  ASSUME TaskInv, NEW p \in Procs, Subjective(p)
  PROVE  Ordinary(p)
<1>1. proc[p] \in Proc /\ Fits(p, proc[p]) /\ proc[p].at = "subjective"
  BY Fitting DEF Subjective, At
<1>2. PICK a \in {"pause", "block"} : Reads(p, [proc[p] EXCEPT !.at = a])
  BY Zenon DEF Subjective
<1> DEFINE n == [proc[p] EXCEPT !.at = a]
<1>3. GoesOn(proc[p], n, a)
  BY <1>1, MovesOn DEF Points
<1>4. Reads(p, n)
  BY <1>2
<1> HIDE DEF n
<1>5. Fits(p, n) /\ Plain(n)
  BY <1>1, <1>3 DEF Fits, GoesOn, WorkPoints, TaskPoints, Plain
<1> QED BY <1>3, <1>4, <1>5, OrdinaryLook DEF Ordinary, GoesOn

-----------------------------------------------------------------------------
(* Starting a command, claiming a task, sending it.                        *)

LEMMA Begun ==
  ASSUME TaskInv, NEW p \in Procs, NEW n \in Proc, Fits(p, n), Begins(p, n),
         n.at # "dispatch", n.task = NoTask,
         history' = history \/ \E t \in Tasks : history' = history \cup {<<"cancelfailed", t>>},
         jobs' \in [Tasks -> {"none", "open", "closed"}]
  PROVE  WellFormed(p) /\ SendsNothing(p) /\ CriteriaKept(p) /\ proc'[p] = n
<1>1. TypeOK /\ FollowsGates(goal) /\ goal \in Goal
  BY DEF TaskInv, TypeOK
<1>2. /\ proc' = [proc EXCEPT ![p] = n] /\ acceptance' = Repaired(goal)
      /\ goal' = goal /\ sent' = sent /\ crashes' = crashes /\ torn' = torn
  BY DEF Begins
<1>3. /\ proc' \in [Procs -> Proc] /\ proc'[p] = n
      /\ \A q \in Procs \ {p} : proc'[q] = proc[q]
  BY <1>1, <1>2 DEF TypeOK
<1>4. acceptance' \in Acceptance
  BY <1>1, <1>2, RepairedType
<1>5. history' \in History /\ history \subseteq history' /\ ResultInOrder'
  <2>1. /\ history' \in History /\ history \subseteq history'
        /\ \A t \in Tasks : <<"result", t>> \in history' => <<"result", t>> \in history
    BY <1>1 DEF TypeOK, History, Events
  <2> QED BY <1>2, <2>1 DEF TaskInv, ResultInOrder
<1>6. WellFormed(p)
  BY <1>1, <1>2, <1>3, <1>4, <1>5 DEF WellFormed, TypeOK
<1> QED BY <1>2, <1>3, <1>6 DEF SendsNothing, CriteriaKept, SameCriteria

\* A command stands at the point its name allows when it has begun.
LEMMA FitsAtStart ==
  ASSUME NEW p \in Procs, NEW n \in Proc, n.cmd \in Commands[p],
         \/ n.cmd = "work" /\ n.at = "select"
         \/ n.cmd \in {"derive", "audit"} /\ n.at = "claim"
         \/ n.cmd = "signoff" /\ n.at = "sign"
         \/ n.cmd = "cancel" /\ n.at = "cancel"
  PROVE  Fits(p, n)
BY DEF Fits, WorkPoints, TaskPoints

LEMMA StartStep ==
  ASSUME TaskInv, NEW p \in Procs, StartWork(p) \/ StartDerive(p) \/ StartAudit(p) \/ StartCancel(p)
  PROVE  Ordinary(p)
<1>1. Fits(p, Idle) /\ Idle \in Proc /\ Idle.at = "idle" /\ Idle.task = NoTask
  BY FitsIdle, IdleType
<1>2. jobs' \in [Tasks -> {"none", "open", "closed"}]
  BY DEF TaskInv, TypeOK, StartWork, StartDerive, StartAudit, StartCancel
<1>3. history' = history \/ \E t \in Tasks : history' = history \cup {<<"cancelfailed", t>>}
  <2>1. goal.active \in Tasks \cup {NoTask}
    BY Fitting DEF Goal
  <2> QED BY <2>1 DEF StartWork, StartDerive, StartAudit, StartCancel, Appended
<1>4. CASE Begins(p, Idle)
  BY <1>1, <1>2, <1>3, <1>4, Begun DEF Ordinary, Plain
<1>5. ASSUME NEW c \in {"work", "derive", "audit", "cancel"},
             NEW a \in {"select", "claim", "cancel"},
             c \in Commands[p],
             \/ c = "work" /\ a = "select"
             \/ c \in {"derive", "audit"} /\ a = "claim"
             \/ c = "cancel" /\ a = "cancel",
             Begins(p, [Idle EXCEPT !.cmd = c, !.at = a])
      PROVE  Ordinary(p)
  <2> DEFINE n == [Idle EXCEPT !.cmd = c, !.at = a]
  <2>1. n \in Proc /\ n.cmd = c /\ n.at = a /\ n.task = NoTask
    <3>1. c \in AllCommands /\ a \in Points
      BY DEF AllCommands, Points
    <3> QED BY <3>1, IdleType, Zenon DEF Proc
  <2>2. Begins(p, n)
    BY <1>5
  <2> HIDE DEF n
  <2>3. Fits(p, n)
    BY <1>5, <2>1, FitsAtStart
  <2> QED BY <1>2, <1>3, <1>5, <2>1, <2>2, <2>3, Begun DEF Ordinary, Plain
<1>6. CASE StartWork(p)
  <2>1. "work" \in Commands[p]
    BY <1>6 DEF StartWork, Starts
  <2>2. Begins(p, Idle) \/ Begins(p, [Idle EXCEPT !.cmd = "work", !.at = "select"])
    BY <1>6, Zenon DEF StartWork
  <2> QED BY <1>4, <1>5, <2>1, <2>2
<1>7. CASE StartDerive(p)
  BY <1>5, <1>7 DEF StartDerive, Starts
<1>8. CASE StartAudit(p)
  BY <1>5, <1>8 DEF StartAudit, Starts
<1>9. CASE StartCancel(p)
  BY <1>5, <1>9 DEF StartCancel, Starts
<1> QED BY <1>6, <1>7, <1>8, <1>9

LEMMA GateStep ==
  ASSUME TaskInv, NEW p \in Procs, Gate(p)
  PROVE  Ordinary(p)
<1>1. Fits(p, Idle) /\ Idle \in Proc /\ Idle.at = "idle" /\ Idle.task = NoTask
  BY FitsIdle, IdleType
<1>2. PICK g \in Goal : /\ SameCriteria(goal, g) /\ FollowsGates(g) /\ g.active = goal.active
                       /\ Commit(p, g, {}, Idle)
  <2>1. goal \in Goal
    BY Fitting
  <2> QED BY <2>1, GoalGated DEF Gate
<1>3. {} \in SUBSET (Events \X Tasks) /\ \A t \in Tasks : <<"result", t>> \notin {}
  OBVIOUS
<1> QED BY <1>1, <1>2, <1>3, OrdinaryCommit DEF Ordinary, Plain

LEMMA ClaimStep ==
  ASSUME TaskInv, NEW p \in Procs, Claim(p),
         left' = left, judged' \in [Procs -> SUBSET Criteria], proven' \in SUBSET Criteria
  PROVE  TaskInv' /\ CriteriaKept(p) /\ WellFormed(p) /\ Plain(proc'[p])
<1>1. proc[p] \in Proc /\ Fits(p, proc[p]) /\ proc[p].at = "claim"
  BY Fitting DEF Claim, At
<1>2. Fits(p, Idle) /\ Idle \in Proc /\ Idle.at = "idle" /\ Idle.task = NoTask
  BY FitsIdle, IdleType
<1>3. left \in [Procs -> Nat]
  BY DEF TaskInv, TypeOK
<1>4. CASE Reads(p, Idle) \/ Goes(p, Idle)
  <2>1. Ordinary(p)
    BY <1>2, <1>4, OrdinaryLook DEF Ordinary, Plain
  <2> QED BY <1>3, <2>1, SendingNothing DEF Ordinary
<1>5. ASSUME ~torn, NEW n \in 1..MaxTask, NEW kind \in Kinds, NextNumber(kind, n),
             Commit(p, Claimed(goal, [kind |-> kind, n |-> n]),
                    {<<"dispatched", [kind |-> kind, n |-> n]>>},
                    [proc[p] EXCEPT !.at = "dispatch", !.task = [kind |-> kind, n |-> n]])
      PROVE  TaskInv' /\ CriteriaKept(p) /\ WellFormed(p) /\ Plain(proc'[p])
  <2> DEFINE t == [kind |-> kind, n |-> n]  g == Claimed(goal, t)
             r == [proc[p] EXCEPT !.at = "dispatch", !.task = t]  ev == {<<"dispatched", t>>}
  <2>1. t \in Tasks /\ t.kind = kind /\ t.n = n
    BY DEF Tasks
  <2>2. g \in Goal /\ SameCriteria(goal, g) /\ FollowsGates(g) /\ g.active = t
    BY <2>1, Fitting, GoalClaimed
  <2>3. r \in Proc /\ r.cmd = proc[p].cmd /\ r.task = t /\ r.at = "dispatch"
    <3>1. "dispatch" \in Points
      BY DEF Points
    <3> HIDE DEF t
    <3> QED BY <1>1, <2>1, <3>1, Zenon DEF Proc
  <2>4. Commit(p, g, ev, r)
    BY <1>5
  <2>5. ev \in SUBSET (Events \X Tasks) /\ \A u \in Tasks : <<"result", u>> \notin ev
    BY <2>1 DEF Events
  <2>6. t # NoTask /\ ~Recorded(t)
    <3>1. ~Recorded(t)
      <4>1. SUFFICES ASSUME Recorded(t) PROVE FALSE
        OBVIOUS
      <4>2. <<"dispatched", t>> \in history /\ <<"dispatched", t>>[2].kind = kind
            /\ <<"dispatched", t>>[2].n = n
        BY <2>1, <4>1 DEF Recorded
      <4>3. n < n
        <5> HIDE DEF t
        <5> QED BY <4>2, <1>5, <2>1 DEF NextNumber
      <4> QED BY <4>3
    <3> QED BY <2>1, <3>1, NoTaskOK
  <2> HIDE DEF t, g, r, ev
  <2>7. Fits(p, r)
    BY <1>1, <2>3, <2>6 DEF Fits, WorkPoints, TaskPoints
  <2>8. /\ WellFormed(p) /\ sent' = sent /\ goal' = g /\ proc'[p] \in {r, Idle}
        /\ acceptance' \in {acceptance, Repaired(g)}
    <3>1. \A u \in Tasks : <<"result", u>> \in history \cup ev => Recorded(u) /\ g.active # u
      BY <2>2, <2>5, <2>6 DEF TaskInv, ResultInOrder, Recorded
    <3> QED BY <2>2, <2>3, <2>4, <2>5, <2>7, <3>1, Committed
  <2>9. CriteriaKept(p) /\ Plain(proc'[p])
    BY <1>2, <2>2, <2>3, <2>8 DEF CriteriaKept, Plain
  <2>10. CASE proc'[p] = Idle
    BY <1>2, <1>3, <2>8, <2>9, <2>10, SendingNothing DEF SendsNothing
  <2>11. CASE proc'[p] # Idle
    <3>1. proc'[p] = r /\ Recorded(t)'
      <4>1. \/ proc' = [proc EXCEPT ![p] = r] /\ history' = history \cup ev
            \/ proc' = [proc EXCEPT ![p] = Idle]
        BY <1>5, <2>4 DEF Commit, Appended
      <4>2. proc \in [Procs -> Proc]
        BY DEF TaskInv, TypeOK
      <4> QED BY <2>8, <2>11, <4>1, <4>2 DEF Recorded, ev
    <3>2. TypeOK'
      BY <1>3, <2>8 DEF TaskInv, TypeOK, WellFormed
    <3>3. FollowsGates(goal') /\ CommandsFit'
      BY <2>8 DEF TaskInv, WellFormed, CommandsFit, Fits
    <3>4. ResultInOrder'
      BY <2>8 DEF WellFormed
    <3>5. sent[t] = 0
      BY <2>1, <2>6 DEF TaskInv, TypeOK, SentAtMostOnce
    <3>6. \A q \in Procs \ {p} : proc[q].task # t
      BY <2>6 DEF TaskInv, SentAtMostOnce
    <3>7. SentAtMostOnce'
      <4>1. SentOnce' /\ \A u \in Tasks : sent'[u] > 0 => Recorded(u)'
        <5>1. history \subseteq history' /\ sent' = sent
          BY <2>8 DEF WellFormed
        <5> QED BY <5>1 DEF TaskInv, SentAtMostOnce, SentOnce, Recorded
      <4>2. \A q \in Procs :
              proc'[q].task # NoTask => <<"dispatched", proc'[q].task>> \in history'
        <5>1. /\ proc'[p].task = t /\ <<"dispatched", t>> \in history' /\ history \subseteq history'
              /\ \A q \in Procs \ {p} : proc'[q] = proc[q]
          BY <2>3, <2>8, <3>1 DEF WellFormed, Recorded
        <5> QED BY <5>1 DEF TaskInv, SentAtMostOnce, Recorded
      <4>3. \A q \in Procs : At(q, "dispatch")' =>
              /\ sent'[proc'[q].task] = 0
              /\ \A s \in Procs : At(s, "dispatch")' /\ proc'[s].task = proc'[q].task => s = q
        <5>1. /\ proc'[p].task = t /\ sent' = sent
              /\ \A q \in Procs \ {p} : proc'[q] = proc[q]
          BY <2>3, <2>8, <3>1 DEF WellFormed
        <5>2. ASSUME NEW q \in Procs, proc'[q].at = "dispatch"
              PROVE  /\ sent'[proc'[q].task] = 0
                     /\ \A s \in Procs : proc'[s].at = "dispatch" /\ proc'[s].task = proc'[q].task
                                         => s = q
          <6>1. CASE q = p
            BY <5>1, <6>1, <3>5, <3>6
          <6>2. CASE q # p
            BY <5>1, <5>2, <6>2, <3>6 DEF TaskInv, SentAtMostOnce, At
          <6> QED BY <6>1, <6>2
        <5> QED BY <5>2 DEF At
      <4> QED BY <4>1, <4>2, <4>3 DEF SentAtMostOnce, Recorded
    <3> QED BY <2>8, <2>9, <3>2, <3>3, <3>4, <3>7 DEF TaskInv, FollowsGates
  <2> QED BY <2>10, <2>11
<1> QED BY <1>4, <1>5 DEF Claim, Kinds

LEMMA DispatchStep ==
  ASSUME TaskInv, NEW p \in Procs, Dispatch(p),
         left' = left, judged' \in [Procs -> SUBSET Criteria], proven' \in SUBSET Criteria
  PROVE  TaskInv' /\ CriteriaKept(p) /\ WellFormed(p) /\ Plain(proc'[p])
<1>1. /\ proc[p] \in Proc /\ Fits(p, proc[p]) /\ proc[p].at = "dispatch"
      /\ proc[p].task \in Tasks /\ Recorded(proc[p].task)
  <2>1. proc[p] \in Proc /\ Fits(p, proc[p]) /\ proc[p].at = "dispatch"
    BY Fitting DEF Dispatch, At
  <2>2. proc[p].task \in Tasks
    BY <2>1 DEF Fits, TaskPoints, Proc
  <2> QED BY <2>1, <2>2, Fitting
<1>2. TypeOK /\ FollowsGates(goal)
  BY DEF TaskInv
<1>3. /\ goal' = goal /\ acceptance' = acceptance /\ history' = history /\ crashes' = crashes
      /\ torn' = torn
  BY DEF Dispatch
<1>4. PICK a \in {"wait", "block"} :
        /\ proc' = [proc EXCEPT ![p] = [proc[p] EXCEPT !.at = a]]
        /\ \/ /\ sent' = [sent EXCEPT ![proc[p].task] = IF @ < 2 THEN @ + 1 ELSE 2]
              /\ jobs' = [jobs EXCEPT ![proc[p].task] = "open"]
           \/ sent' = sent /\ jobs' = jobs
  <2>1. \A a : [proc EXCEPT ![p].at = a] = [proc EXCEPT ![p] = [proc[p] EXCEPT !.at = a]]
    OBVIOUS
  <2> QED BY <2>1 DEF Dispatch
<1> DEFINE n == [proc[p] EXCEPT !.at = a]
<1>5. GoesOn(proc[p], n, a)
  BY <1>1, MovesOn DEF Points
<1>6. proc' = [proc EXCEPT ![p] = n]
  BY <1>4
<1> HIDE DEF n
<1>7. Fits(p, n) /\ Plain(n)
  BY <1>1, <1>5 DEF Fits, GoesOn, WorkPoints, TaskPoints, Plain
<1>8. /\ proc' \in [Procs -> Proc] /\ proc'[p] = n
      /\ \A q \in Procs \ {p} : proc'[q] = proc[q]
  BY <1>2, <1>5, <1>6 DEF TypeOK, GoesOn
<1>9. jobs' \in [Tasks -> {"none", "open", "closed"}]
  BY <1>1, <1>2, <1>4 DEF TypeOK
<1>10. WellFormed(p)
  BY <1>2, <1>3, <1>7, <1>8, <1>9 DEF WellFormed, TypeOK, TaskInv, ResultInOrder
<1>11. sent[proc[p].task] = 0
  BY <1>1 DEF TaskInv, SentAtMostOnce, At
<1>12. /\ sent' \in [Tasks -> 0..2]
       /\ \A u \in Tasks \ {proc[p].task} : sent'[u] = sent[u]
       /\ sent'[proc[p].task] \in {0, 1}
  BY <1>1, <1>2, <1>4, <1>11 DEF TypeOK
<1>13. TypeOK'
  BY <1>2, <1>10, <1>12 DEF TypeOK, WellFormed
<1>14. FollowsGates(goal') /\ CommandsFit' /\ ResultInOrder'
  BY <1>10 DEF TaskInv, WellFormed, CommandsFit, Fits
<1>15. SentAtMostOnce'
  <2>1. SentOnce' /\ \A u \in Tasks : sent'[u] > 0 => Recorded(u)'
    BY <1>1, <1>3, <1>12 DEF TaskInv, SentAtMostOnce, SentOnce, Recorded
  <2>2. \A q \in Procs : proc'[q].task = proc[q].task
    BY <1>5, <1>8 DEF GoesOn
  <2>3. \A q \in Procs : At(q, "dispatch")' => q # p /\ At(q, "dispatch")
    BY <1>5, <1>8 DEF GoesOn, At
  <2>4. \A q \in Procs : At(q, "dispatch")' => proc[q].task # proc[p].task /\ proc[q].task \in Tasks
    <3>1. \A q \in Procs : proc[q].at = "dispatch" => proc[q].task \in Tasks
      BY <1>2, Fitting DEF Fits, TaskPoints, Proc
    <3> QED BY <1>1, <2>3, <3>1 DEF TaskInv, SentAtMostOnce, At
  <2> QED BY <1>3, <1>12, <2>1, <2>2, <2>3, <2>4 DEF TaskInv, SentAtMostOnce, Recorded, At
<1> QED BY <1>3, <1>7, <1>8, <1>10, <1>13, <1>14, <1>15
        DEF TaskInv, FollowsGates, CriteriaKept, SameCriteria

-----------------------------------------------------------------------------
(* The steps that take a criterion in hand, or find all of them met.       *)

\* What a command holds about the criteria in hand, whatever the others do: which
\* kind they are of, that P has the one a check of which passed, and that the first
\* of status and evidence is there.
StillHolds(r, g, P) ==
  /\ r.at \in {"checked", "evidence"} =>
       r.sel \in Core \ Manual /\ (r.passed => r.sel \in P)
  /\ r.at = "evidence" => g.ac[r.sel] # "pending"
  /\ r.at \in {"item", "noted"} =>
       /\ \A x \in r.todo : x[2] \notin Core
       /\ \A x, y \in r.todo : x[1] = y[1] => x = y
  /\ r.at = "noted" /\ r.passed =>
       \A x \in r.todo : IsFirst(x, r.todo) => <<x[2], TRUE>> \in g.evidence
  /\ r.at = "sign" => \A x \in r.todo : x[2] \in Core \cap Manual

LEMMA CheckStep ==
  ASSUME TaskInv, NEW p \in Procs, Check(p)
  PROVE  /\ WellFormed(p) /\ SendsNothing(p) /\ CriteriaKept(p)
         /\ StillHolds(proc'[p], goal, proven') /\ proc'[p].at # "finish"
<1> DEFINE open == Selectable(Items, goal)
<1>1. proc[p] \in Proc /\ Fits(p, proc[p]) /\ proc[p].at = "check"
  BY Fitting DEF Check, At
<1>2. CASE Reads(p, [proc[p] EXCEPT !.at = "block"])
  <2> DEFINE n == [proc[p] EXCEPT !.at = "block"]
  <2>1. GoesOn(proc[p], n, "block")
    BY <1>1, MovesOn DEF Points
  <2>2. Reads(p, n)
    BY <1>2
  <2> HIDE DEF n
  <2>3. Fits(p, n) /\ StillHolds(n, goal, proven')
    BY <1>1, <2>1 DEF Fits, GoesOn, WorkPoints, TaskPoints, StillHolds
  <2> QED BY <2>1, <2>2, <2>3, OrdinaryLook DEF GoesOn
<1>3. ASSUME NEW x \in open, NEW b \in BOOLEAN,
             Reads(p, [proc[p] EXCEPT !.at = "checked", !.sel = x[2], !.passed = b]),
             proven' = proven \cup (IF b THEN {x[2]} ELSE {})
      PROVE  /\ WellFormed(p) /\ SendsNothing(p) /\ CriteriaKept(p)
             /\ StillHolds(proc'[p], goal, proven') /\ proc'[p].at # "finish"
  <2>1. x[2] \in Criteria /\ x[2] \in Core \ Manual
    BY ListedFacts DEF Selectable
  <2> DEFINE c == x[2]  n == [proc[p] EXCEPT !.at = "checked", !.sel = c, !.passed = b]
  <2>2. Reads(p, n)
    BY <1>3
  <2>3. GoesOn(proc[p], n, "checked") /\ n.sel = c /\ n.passed = b
    <3>1. "checked" \in Points /\ c \in Criteria
      BY <2>1 DEF Points
    <3> HIDE DEF c
    <3> QED BY <1>1, <3>1, Zenon DEF Proc, GoesOn
  <2> HIDE DEF n
  <2>4. Fits(p, n) /\ StillHolds(n, goal, proven')
    BY <1>1, <1>3, <2>1, <2>3 DEF Fits, GoesOn, WorkPoints, TaskPoints, StillHolds
  <2> QED BY <2>2, <2>3, <2>4, OrdinaryLook DEF GoesOn
<1>4. ASSUME NEW b \in BOOLEAN,
             Commit(p, goal, {}, [proc[p] EXCEPT !.at = IF b THEN "noncore" ELSE "select",
                                                 !.looping = TRUE])
      PROVE  /\ WellFormed(p) /\ SendsNothing(p) /\ CriteriaKept(p)
             /\ StillHolds(proc'[p], goal, proven') /\ proc'[p].at # "finish"
  <2> DEFINE a == IF b THEN "noncore" ELSE "select"
             n == [proc[p] EXCEPT !.at = a, !.looping = TRUE]
  <2>1. Commit(p, goal, {}, n)
    BY <1>4
  <2>2. a \in {"noncore", "select"} /\ a \in Points
    BY DEF Points
  <2> HIDE DEF a
  <2>3. GoesOn(proc[p], n, a)
    BY <1>1, <2>2, Loops
  <2> HIDE DEF n
  <2>4. Fits(p, n) /\ StillHolds(n, goal, proven') /\ StillHolds(Idle, goal, proven')
    BY <1>1, <2>2, <2>3, IdleType DEF Fits, GoesOn, WorkPoints, TaskPoints, StillHolds
  <2>5. goal \in Goal /\ FollowsGates(goal) /\ SameCriteria(goal, goal)
    BY Fitting DEF SameCriteria
  <2>6. {} \in SUBSET (Events \X Tasks) /\ \A t \in Tasks : <<"result", t>> \notin {}
    OBVIOUS
  <2>7. n \in Proc /\ n.at # "dispatch" /\ n.task \in {NoTask, proc[p].task} /\ n.at # "finish"
    BY <2>2, <2>3 DEF GoesOn
  <2>8. WellFormed(p) /\ SendsNothing(p) /\ CriteriaKept(p) /\ proc'[p] \in {n, Idle}
    BY <2>1, <2>4, <2>5, <2>6, <2>7, OrdinaryCommit
  <2> QED BY <2>4, <2>7, <2>8, IdleType
<1> QED BY <1>2, <1>3, <1>4 DEF Check

LEMMA NonCoreStep ==
  ASSUME TaskInv, NEW p \in Procs, NonCore(p)
  PROVE  /\ WellFormed(p) /\ SendsNothing(p) /\ CriteriaKept(p)
         /\ StillHolds(proc'[p], goal, proven') /\ proc'[p].at # "finish"
<1> DEFINE S == NonCoreTodo(Items, goal)  n == [proc[p] EXCEPT !.at = "item", !.todo = S]
<1>1. proc[p] \in Proc /\ Fits(p, proc[p]) /\ proc[p].at = "noncore"
  BY Fitting DEF NonCore, At
<1>2. /\ S \in SUBSET (Nat \X Criteria)
      /\ \A x \in S : x[2] \notin Core
  BY ListedFacts DEF NonCoreTodo
<1>3. \A x, y \in S : x[1] = y[1] => x = y
  <2>1. \A x \in S : x = <<x[1], Items[x[1]]>>
    BY ListedFacts DEF NonCoreTodo
  <2> HIDE DEF S
  <2> QED BY <2>1
<1>4. Reads(p, n)
  BY DEF NonCore
<1>5. GoesOn(proc[p], n, "item") /\ n.todo = S
  <2>1. "item" \in Points
    BY DEF Points
  <2> HIDE DEF S
  <2> QED BY <1>1, <1>2, <2>1, Zenon DEF Proc, GoesOn
<1> HIDE DEF n, S
<1>6. Fits(p, n) /\ StillHolds(n, goal, proven')
  BY <1>1, <1>2, <1>3, <1>5 DEF Fits, GoesOn, WorkPoints, TaskPoints, StillHolds
<1> QED BY <1>4, <1>5, <1>6, OrdinaryLook DEF GoesOn

LEMMA StartSignoffStep ==
  ASSUME TaskInv, NEW p \in Procs, StartSignoff(p)
  PROVE  /\ WellFormed(p) /\ SendsNothing(p) /\ CriteriaKept(p)
         /\ StillHolds(proc'[p], goal, proven') /\ proc'[p].at # "finish"
<1> DEFINE all == Signable(Items, goal)
<1>1. Fits(p, Idle) /\ Idle \in Proc /\ Idle.at = "idle" /\ Idle.task = NoTask
  BY FitsIdle, IdleType
<1>2. history' = history /\ jobs' \in [Tasks -> {"none", "open", "closed"}]
  BY DEF StartSignoff, TaskInv, TypeOK
<1>3. CASE Begins(p, Idle)
  BY <1>1, <1>2, <1>3, Begun DEF StillHolds
<1>4. ASSUME NEW S \in SUBSET all,
             Begins(p, [Idle EXCEPT !.cmd = "signoff", !.at = "sign", !.todo = S])
      PROVE  /\ WellFormed(p) /\ SendsNothing(p) /\ CriteriaKept(p)
             /\ StillHolds(proc'[p], goal, proven') /\ proc'[p].at # "finish"
  <2>1. S \in SUBSET (Nat \X Criteria) /\ \A x \in S : x[2] \in Core \cap Manual
    BY ListedFacts DEF Signable
  <2> DEFINE n == [Idle EXCEPT !.cmd = "signoff", !.at = "sign", !.todo = S]
  <2>2. n \in Proc /\ n.cmd = "signoff" /\ n.at = "sign" /\ n.task = NoTask /\ n.todo = S
    <3>1. "signoff" \in AllCommands /\ "sign" \in Points
      BY DEF AllCommands, Points
    <3> QED BY <2>1, <3>1, IdleType, Zenon DEF Proc
  <2>3. Begins(p, n)
    BY <1>4
  <2> HIDE DEF n
  <2>4. Fits(p, n)
    BY <2>2, FitsAtStart DEF StartSignoff, Starts
  <2>5. StillHolds(n, goal, proven')
    BY <2>1, <2>2 DEF StillHolds
  <2> QED BY <1>2, <2>2, <2>3, <2>4, <2>5, Begun
<1>5. Begins(p, Idle)
      \/ \E S \in SUBSET all :
           Begins(p, [Idle EXCEPT !.cmd = "signoff", !.at = "sign", !.todo = S])
  <2>1. PICK S \in {all} \cup {{y \in all : y[2] = x[2]} : x \in all} :
          Begins(p, IF S # {} /\ \A x \in S : DependenciesSatisfied(goal, x[2])
                    THEN [Idle EXCEPT !.cmd = "signoff", !.at = "sign", !.todo = S]
                    ELSE Idle)
    BY Zenon DEF StartSignoff
  <2>2. S \in SUBSET all
    <3> HIDE DEF all
    <3> QED OBVIOUS
  <2>3. Begins(p, Idle)
        \/ Begins(p, [Idle EXCEPT !.cmd = "signoff", !.at = "sign", !.todo = S])
    BY <2>1, Zenon
  <2> QED BY <2>2, <2>3, Zenon
<1> QED BY <1>3, <1>4, <1>5, Zenon

\* Who goes on to finish has found every required criterion satisfied.
FindsAll(p) ==
  proc'[p].at = "finish" =>
    judged'[p] # {} /\ \A c \in judged'[p] \cap Core : Satisfied(goal, c)

LEMMA JudgesFound ==
  ASSUME TaskInv, NEW p \in Procs, Judges(p)
  PROVE  /\ judged' \in [Procs -> SUBSET Criteria]
         /\ \A q \in Procs \ {p} : judged'[q] = judged[q]
         /\ AllRequiredSatisfied(Items, goal) =>
              judged'[p] # {} /\ \A c \in judged'[p] \cap Core : Satisfied(goal, c)
<1>1. judged \in [Procs -> SUBSET Criteria]
  BY DEF TaskInv, TypeOK
<1>2. ToSet(Items) \subseteq Criteria
  BY ListedFacts
<1>3. Items # <<>> => ToSet(Items) # {}
  <2>1. Items \in Seq(Criteria)
    BY ListedFacts
  <2>2. Items # <<>> => 1 \in DOMAIN Items
    BY <2>1
  <2> QED BY <2>2 DEF ToSet
<1> QED BY <1>1, <1>2, <1>3 DEF Judges, AllRequiredSatisfied

LEMMA DecidesStep ==
  ASSUME TaskInv, NEW p \in Procs, Decides(p)
  PROVE  /\ WellFormed(p) /\ SendsNothing(p) /\ CriteriaKept(p) /\ FindsAll(p)
         /\ StillHolds(proc'[p], goal, proven')
         /\ judged' \in [Procs -> SUBSET Criteria]
         /\ \A q \in Procs \ {p} : judged'[q] = judged[q]
<1>1. Judges(p)
  BY DEF Decides, Decide, Signed
<1>2. proc[p] \in Proc /\ Fits(p, proc[p]) /\ proc[p].at \in {"decide", "signed"}
  BY Fitting DEF Decides, Decide, Signed, At
<1>3. CASE Reads(p, Idle)
  <2>1. Fits(p, Idle) /\ Idle \in Proc /\ Idle.at = "idle" /\ Idle.task = NoTask
    BY FitsIdle, IdleType
  <2> QED BY <1>1, <1>3, <2>1, OrdinaryLook, JudgesFound DEF FindsAll, StillHolds
<1>4. ASSUME NEW a \in {"finish", "select", "subjective"},
             a = "finish" => AllRequiredSatisfied(Items, goal),
             a \in {"select", "subjective"} => proc[p].at = "decide",
             Reads(p, [proc[p] EXCEPT !.at = a])
      PROVE  /\ WellFormed(p) /\ SendsNothing(p) /\ CriteriaKept(p) /\ FindsAll(p)
             /\ StillHolds(proc'[p], goal, proven')
  <2> DEFINE n == [proc[p] EXCEPT !.at = a]
  <2>1. GoesOn(proc[p], n, a)
    BY <1>2, MovesOn DEF Points
  <2>2. Reads(p, n)
    BY <1>4
  <2> HIDE DEF n
  <2>3. Fits(p, n) /\ StillHolds(n, goal, proven')
    BY <1>2, <1>4, <2>1 DEF Fits, GoesOn, WorkPoints, TaskPoints, StillHolds
  <2>4. WellFormed(p) /\ SendsNothing(p) /\ CriteriaKept(p) /\ proc'[p] = n
    BY <2>1, <2>2, <2>3, OrdinaryLook DEF GoesOn
  <2> QED BY <1>1, <1>4, <2>1, <2>3, <2>4, JudgesFound DEF FindsAll, GoesOn
<1>5. CASE Decide(p)
  <2> DEFINE a == IF AllRequiredSatisfied(Items, goal) THEN "finish"
                  ELSE IF proc[p].looping THEN "select" ELSE "subjective"
  <2>1. /\ a \in {"finish", "select", "subjective"}
        /\ a = "finish" => AllRequiredSatisfied(Items, goal)
    OBVIOUS
  <2>2. Reads(p, [proc[p] EXCEPT !.at = a])
    BY <1>5, Zenon DEF Decide
  <2>3. proc[p].at = "decide"
    BY <1>5 DEF Decide, At
  <2> HIDE DEF a
  <2> QED BY <1>1, <1>4, <2>1, <2>2, <2>3, JudgesFound
<1>6. CASE Signed(p)
  <2>1. \/ Reads(p, Idle)
        \/ /\ AllRequiredSatisfied(Items, goal)
           /\ Reads(p, [proc[p] EXCEPT !.at = "finish"])
    BY <1>6, Zenon DEF Signed
  <2> QED BY <1>1, <1>3, <1>4, <2>1, JudgesFound
<1> QED BY <1>5, <1>6 DEF Decides

-----------------------------------------------------------------------------
(* The steps that change a criterion.                                      *)

\* The steps that change the status of a criterion, or its evidence.
SetsStatus(p, c, v) ==
  /\ goal'.status = goal.status /\ goal'.evidence = goal.evidence
  /\ goal'.ac = [goal.ac EXCEPT ![c] = v]
  /\ acceptance' \in {acceptance, Repaired(goal')}
AddsEvidence(p, c, b) ==
  /\ goal'.status = goal.status /\ goal'.ac = goal.ac
  /\ goal'.evidence = goal.evidence \cup {<<c, b>>}
  /\ acceptance' \in {acceptance, Repaired(goal')}

LEMMA StatusCommit ==
  ASSUME TaskInv, NEW p \in Procs, NEW c \in Criteria, NEW v \in AcceptanceStatus,
         NEW n \in Proc, Fits(p, n), n.at # "dispatch", n.task \in {NoTask, proc[p].task},
         Commit(p, StatusSet(goal, c, v), {}, n)
  PROVE  WellFormed(p) /\ SendsNothing(p) /\ SetsStatus(p, c, v) /\ proc'[p] \in {n, Idle}
<1> DEFINE g == StatusSet(goal, c, v)
<1>1. /\ g \in Goal /\ FollowsGates(g) /\ g.status = goal.status /\ g.evidence = goal.evidence
      /\ g.ac = [goal.ac EXCEPT ![c] = v] /\ g.active = goal.active
  BY Fitting, GoalStatusSet
<1>2. /\ {} \in SUBSET (Events \X Tasks)
      /\ \A t \in Tasks : <<"result", t>> \in history \cup {} => Recorded(t) /\ goal.active # t
  BY DEF TaskInv, ResultInOrder, Recorded
<1>3. Commit(p, g, {}, n)
  OBVIOUS
<1> HIDE DEF g
<1>4. /\ WellFormed(p) /\ sent' = sent /\ goal' = g /\ proc'[p] \in {n, Idle}
      /\ acceptance' \in {acceptance, Repaired(g)}
  BY <1>1, <1>2, <1>3, Committed
<1> QED BY <1>1, <1>4, IdleType DEF SendsNothing, SetsStatus

LEMMA EvidenceCommit ==
  ASSUME TaskInv, NEW p \in Procs, NEW c \in Criteria, NEW b \in BOOLEAN,
         NEW n \in Proc, Fits(p, n), n.at # "dispatch", n.task \in {NoTask, proc[p].task},
         Commit(p, EvidenceAdded(goal, c, b), {}, n)
  PROVE  WellFormed(p) /\ SendsNothing(p) /\ AddsEvidence(p, c, b) /\ proc'[p] \in {n, Idle}
<1> DEFINE g == EvidenceAdded(goal, c, b)
<1>1. /\ g \in Goal /\ FollowsGates(g) /\ g.status = goal.status /\ g.ac = goal.ac
      /\ g.evidence = goal.evidence \cup {<<c, b>>} /\ g.active = goal.active
  BY Fitting, GoalEvidence
<1>2. /\ {} \in SUBSET (Events \X Tasks)
      /\ \A t \in Tasks : <<"result", t>> \in history \cup {} => Recorded(t) /\ goal.active # t
  BY DEF TaskInv, ResultInOrder, Recorded
<1>3. Commit(p, g, {}, n)
  OBVIOUS
<1> HIDE DEF g
<1>4. /\ WellFormed(p) /\ sent' = sent /\ goal' = g /\ proc'[p] \in {n, Idle}
      /\ acceptance' \in {acceptance, Repaired(g)}
  BY <1>1, <1>2, <1>3, Committed
<1> QED BY <1>1, <1>4, IdleType DEF SendsNothing, AddsEvidence

LEMMA SetCheckedStep ==
  ASSUME TaskInv, NEW p \in Procs, SetCheckedStatus(p)
  PROVE  /\ WellFormed(p) /\ SendsNothing(p)
         /\ SetsStatus(p, proc[p].sel, IF proc[p].passed THEN "verified" ELSE "failed")
         /\ \/ proc'[p] = Idle
            \/ /\ proc'[p].at = "evidence" /\ proc'[p].sel = proc[p].sel
               /\ proc'[p].passed = proc[p].passed
<1> DEFINE n == [proc[p] EXCEPT !.at = "evidence"]
           v == IF proc[p].passed THEN "verified" ELSE "failed"
<1>1. proc[p] \in Proc /\ Fits(p, proc[p]) /\ proc[p].at = "checked"
  BY Fitting DEF SetCheckedStatus, At
<1>2. GoesOn(proc[p], n, "evidence") /\ n.sel = proc[p].sel /\ n.passed = proc[p].passed
  BY <1>1, MovesOn DEF Points
<1>3. proc[p].sel \in Criteria /\ v \in AcceptanceStatus
  BY <1>1 DEF Proc, AcceptanceStatus
<1>4. Commit(p, StatusSet(goal, proc[p].sel, v), {}, n)
  BY DEF SetCheckedStatus
<1> HIDE DEF n
<1>5. Fits(p, n)
  BY <1>1, <1>2 DEF Fits, GoesOn, WorkPoints, TaskPoints
<1>6. WellFormed(p) /\ SendsNothing(p) /\ SetsStatus(p, proc[p].sel, v) /\ proc'[p] \in {n, Idle}
  <2> HIDE DEF v
  <2> QED BY <1>2, <1>3, <1>4, <1>5, StatusCommit DEF GoesOn
<1> QED BY <1>2, <1>6 DEF GoesOn

LEMMA EvidenceStep ==
  ASSUME TaskInv, NEW p \in Procs, RecordEvidence(p)
  PROVE  /\ WellFormed(p) /\ SendsNothing(p) /\ AddsEvidence(p, proc[p].sel, proc[p].passed)
         /\ proc'[p].at \in {"idle", "noncore", "select"}
<1> DEFINE a == IF proc[p].passed THEN "noncore" ELSE "select"
           n == [proc[p] EXCEPT !.at = a, !.looping = TRUE]
<1>1. proc[p] \in Proc /\ Fits(p, proc[p]) /\ proc[p].at = "evidence"
  BY Fitting DEF RecordEvidence, At
<1>2. Commit(p, EvidenceAdded(goal, proc[p].sel, proc[p].passed), {}, n)
  BY DEF RecordEvidence
<1>3. a \in {"noncore", "select"}
  OBVIOUS
<1> HIDE DEF a
<1>4. GoesOn(proc[p], n, a)
  <2>1. a \in Points
    BY <1>3 DEF Points
  <2> QED BY <1>1, <2>1, Zenon DEF Proc, GoesOn
<1> HIDE DEF n
<1>5. proc[p].sel \in Criteria /\ proc[p].passed \in BOOLEAN
  BY <1>1 DEF Proc
<1>6. Fits(p, n)
  BY <1>1, <1>3, <1>4 DEF Fits, GoesOn, WorkPoints, TaskPoints
<1>7. /\ WellFormed(p) /\ SendsNothing(p) /\ AddsEvidence(p, proc[p].sel, proc[p].passed)
      /\ proc'[p] \in {n, Idle}
  BY <1>2, <1>3, <1>4, <1>5, <1>6, EvidenceCommit DEF GoesOn
<1> QED BY <1>3, <1>4, <1>7, IdleType DEF GoesOn

\* The items of process_noncore; what is left of them afterwards.
Passes(p, x) ==
  proc'[p].at = "idle" \/ (proc'[p].at = "item" /\ proc'[p].todo = proc[p].todo \ {x})

LEMMA ItemStep ==
  ASSUME TaskInv, NEW p \in Procs, NonCoreItem(p)
  PROVE  /\ WellFormed(p) /\ SendsNothing(p)
         /\ \/ CriteriaKept(p) /\ proc'[p].at = "decide"
            \/ \E x \in proc[p].todo :
                 /\ IsFirst(x, proc[p].todo) /\ Passes(p, x)
                 /\ CriteriaKept(p) \/ SetsStatus(p, x[2], "deferred")
            \/ \E x \in proc[p].todo, b \in BOOLEAN :
                 /\ IsFirst(x, proc[p].todo) /\ AddsEvidence(p, x[2], b)
                 /\ \/ proc'[p].at = "idle"
                    \/ /\ proc'[p].at = "noted" /\ proc'[p].todo = proc[p].todo
                       /\ proc'[p].passed = b
<1>1. proc[p] \in Proc /\ Fits(p, proc[p]) /\ proc[p].at = "item"
  BY Fitting DEF NonCoreItem, At
<1>2. CASE Goes(p, [proc[p] EXCEPT !.at = "decide"])
  <2> DEFINE n == [proc[p] EXCEPT !.at = "decide"]
  <2>1. GoesOn(proc[p], n, "decide")
    BY <1>1, MovesOn DEF Points
  <2>2. Goes(p, n)
    BY <1>2
  <2> HIDE DEF n
  <2>3. Fits(p, n)
    BY <1>1, <2>1 DEF Fits, GoesOn, WorkPoints, TaskPoints
  <2> QED BY <2>1, <2>2, <2>3, OrdinaryLook DEF GoesOn
<1>3. ASSUME NEW x \in proc[p].todo, IsFirst(x, proc[p].todo)
      PROVE  LET n == [proc[p] EXCEPT !.todo = @ \ {x}]
             IN /\ n \in Proc /\ Fits(p, n) /\ n.at = "item" /\ n.task = proc[p].task
                /\ n.todo = proc[p].todo \ {x}
  <2> DEFINE S == proc[p].todo \ {x}  n == [proc[p] EXCEPT !.todo = S]
  <2>1. S \in SUBSET (Nat \X Criteria)
    BY <1>1 DEF Proc
  <2>2. GoesOn(proc[p], n, proc[p].at) /\ n.todo = S
    <3> HIDE DEF S
    <3> QED BY <1>1, <2>1, Zenon DEF Proc, GoesOn
  <2>3. [proc[p] EXCEPT !.todo = @ \ {x}] = n
    BY Zenon
  <2>4. n \in Proc /\ Fits(p, n) /\ n.at = "item" /\ n.task = proc[p].task
    <3> HIDE DEF n, S
    <3> QED BY <1>1, <2>2 DEF Fits, GoesOn, WorkPoints, TaskPoints
  <2> QED BY <2>2, <2>3, <2>4, Zenon
<1>4. ASSUME NEW x \in proc[p].todo, IsFirst(x, proc[p].todo),
             \/ Reads(p, [proc[p] EXCEPT !.todo = @ \ {x}])
             \/ Commit(p, StatusSet(goal, x[2], "deferred"), {}, [proc[p] EXCEPT !.todo = @ \ {x}])
      PROVE  /\ WellFormed(p) /\ SendsNothing(p) /\ Passes(p, x)
             /\ CriteriaKept(p) \/ SetsStatus(p, x[2], "deferred")
  <2> DEFINE n == [proc[p] EXCEPT !.todo = @ \ {x}]
  <2>1. /\ n \in Proc /\ Fits(p, n) /\ n.at = "item" /\ n.task = proc[p].task
        /\ n.todo = proc[p].todo \ {x}
    BY <1>3, <1>4
  <2>2. Reads(p, n) \/ Commit(p, StatusSet(goal, x[2], "deferred"), {}, n)
    BY <1>4
  <2>3. x[2] \in Criteria /\ "deferred" \in AcceptanceStatus
    BY <1>1 DEF Proc, AcceptanceStatus
  <2> HIDE DEF n
  <2>4. CASE Reads(p, n)
    BY <2>1, <2>4, OrdinaryLook DEF Passes
  <2>5. CASE Commit(p, StatusSet(goal, x[2], "deferred"), {}, n)
    <3> DEFINE c == x[2]
    <3>1. WellFormed(p) /\ SendsNothing(p) /\ SetsStatus(p, c, "deferred") /\ proc'[p] \in {n, Idle}
      <4>1. c \in Criteria /\ Commit(p, StatusSet(goal, c, "deferred"), {}, n)
        BY <2>3, <2>5
      <4> HIDE DEF c
      <4> QED BY <2>1, <2>3, <4>1, StatusCommit
    <3> QED BY <2>1, <3>1, IdleType DEF Passes
  <2> QED BY <2>2, <2>4, <2>5
<1>5. ASSUME NEW x \in proc[p].todo, NEW b \in BOOLEAN,
             Commit(p, EvidenceAdded(goal, x[2], b), {},
                    [proc[p] EXCEPT !.at = "noted", !.passed = b])
      PROVE  /\ WellFormed(p) /\ SendsNothing(p) /\ AddsEvidence(p, x[2], b)
             /\ \/ proc'[p].at = "idle"
                \/ /\ proc'[p].at = "noted" /\ proc'[p].todo = proc[p].todo
                   /\ proc'[p].passed = b
  <2> DEFINE n == [proc[p] EXCEPT !.at = "noted", !.passed = b]  c == x[2]
  <2>1. GoesOn(proc[p], n, "noted") /\ n.todo = proc[p].todo /\ n.passed = b
    <3>1. "noted" \in Points
      BY DEF Points
    <3> QED BY <1>1, <3>1, Zenon DEF Proc, GoesOn
  <2>2. c \in Criteria
    BY <1>1 DEF Proc
  <2>3. Commit(p, EvidenceAdded(goal, c, b), {}, n)
    BY <1>5
  <2> HIDE DEF n, c
  <2>4. Fits(p, n)
    BY <1>1, <2>1 DEF Fits, GoesOn, WorkPoints, TaskPoints
  <2>5. WellFormed(p) /\ SendsNothing(p) /\ AddsEvidence(p, c, b) /\ proc'[p] \in {n, Idle}
    BY <2>1, <2>2, <2>3, <2>4, EvidenceCommit DEF GoesOn
  <2> QED BY <2>1, <2>5, IdleType DEF GoesOn, c
<1>6. \/ Goes(p, [proc[p] EXCEPT !.at = "decide"])
      \/ \E x \in proc[p].todo :
           /\ IsFirst(x, proc[p].todo)
           /\ \/ Reads(p, [proc[p] EXCEPT !.todo = @ \ {x}])
              \/ Commit(p, StatusSet(goal, x[2], "deferred"), {},
                        [proc[p] EXCEPT !.todo = @ \ {x}])
              \/ \E b \in BOOLEAN :
                   Commit(p, EvidenceAdded(goal, x[2], b), {},
                          [proc[p] EXCEPT !.at = "noted", !.passed = b])
  BY Zenon DEF NonCoreItem
<1> QED BY <1>2, <1>4, <1>5, <1>6, Zenon

LEMMA NotedStep ==
  ASSUME TaskInv, NEW p \in Procs, NonCoreNoted(p)
  PROVE  /\ WellFormed(p) /\ SendsNothing(p)
         /\ \E x \in proc[p].todo :
              /\ IsFirst(x, proc[p].todo) /\ Passes(p, x)
              /\ SetsStatus(p, x[2], IF proc[p].passed THEN "verified" ELSE "deferred")
<1> DEFINE v == IF proc[p].passed THEN "verified" ELSE "deferred"
<1>1. proc[p] \in Proc /\ Fits(p, proc[p]) /\ proc[p].at = "noted"
  BY Fitting DEF NonCoreNoted, At
<1>2. PICK x \in proc[p].todo :
        /\ IsFirst(x, proc[p].todo)
        /\ Commit(p, StatusSet(goal, x[2], v), {}, [proc[p] EXCEPT !.at = "item", !.todo = @ \ {x}])
  BY Zenon DEF NonCoreNoted
<1> DEFINE S == proc[p].todo \ {x}  c == x[2]
           n == [proc[p] EXCEPT !.at = "item", !.todo = S]
<1>3. S \in SUBSET (Nat \X Criteria) /\ c \in Criteria /\ v \in AcceptanceStatus
  BY <1>1 DEF Proc, AcceptanceStatus
<1>4. Commit(p, StatusSet(goal, c, v), {}, n)
  <2>1. [proc[p] EXCEPT !.at = "item"].todo = proc[p].todo
    BY <1>1, Zenon DEF Proc
  <2>2. [proc[p] EXCEPT !.at = "item", !.todo = @ \ {x}] = n
    BY <2>1, Zenon
  <2> HIDE DEF n
  <2> QED BY <1>2, <2>2, Zenon
<1>5. GoesOn(proc[p], n, "item") /\ n.todo = S
  <2>1. "item" \in Points
    BY DEF Points
  <2> HIDE DEF S
  <2> QED BY <1>1, <1>3, <2>1, Zenon DEF Proc, GoesOn
<1> HIDE DEF n, v, c, S
<1>6. Fits(p, n)
  BY <1>1, <1>5 DEF Fits, GoesOn, WorkPoints, TaskPoints
<1>7. WellFormed(p) /\ SendsNothing(p) /\ SetsStatus(p, c, v) /\ proc'[p] \in {n, Idle}
  BY <1>3, <1>4, <1>5, <1>6, StatusCommit DEF GoesOn
<1>8. Passes(p, x)
  BY <1>5, <1>7, IdleType DEF Passes, GoesOn, S
<1> QED BY <1>2, <1>7, <1>8 DEF c, v

LEMMA SignStep ==
  ASSUME TaskInv, NEW p \in Procs, Sign(p)
  PROVE  /\ WellFormed(p) /\ SendsNothing(p)
         /\ \E x \in proc[p].todo :
              /\ SetsStatus(p, x[2], "human-approved")
              /\ \/ proc'[p].at \in {"idle", "signed"}
                 \/ proc'[p].at = "sign" /\ proc'[p].todo = proc[p].todo \ {x}
<1>1. proc[p] \in Proc /\ Fits(p, proc[p]) /\ proc[p].at = "sign"
  BY Fitting DEF Sign, At
<1>2. PICK x \in proc[p].todo :
        Commit(p, StatusSet(goal, x[2], "human-approved"), {},
               [proc[p] EXCEPT !.todo = proc[p].todo \ {x},
                               !.at = IF proc[p].todo \ {x} = {} THEN "signed" ELSE @])
  BY Zenon DEF Sign
<1> DEFINE S == proc[p].todo \ {x}  c == x[2]  a == IF S = {} THEN "signed" ELSE "sign"
           n == [proc[p] EXCEPT !.todo = S, !.at = a]
<1>3. S \in SUBSET (Nat \X Criteria) /\ c \in Criteria /\ "human-approved" \in AcceptanceStatus
  BY <1>1 DEF Proc, AcceptanceStatus
<1>4. Commit(p, StatusSet(goal, c, "human-approved"), {}, n)
  <2>1. [proc[p] EXCEPT !.todo = S].at = "sign"
    <3> HIDE DEF S
    <3> QED BY <1>1, Zenon DEF Proc
  <2>2. [proc[p] EXCEPT !.todo = S, !.at = IF S = {} THEN "signed" ELSE @] = n
    <3>1. (IF S = {} THEN "signed" ELSE [proc[p] EXCEPT !.todo = S].at) = a
      BY <2>1
    <3> HIDE DEF S, a
    <3> QED BY <3>1, Zenon
  <2> HIDE DEF n
  <2> QED BY <1>2, <2>2, Zenon
<1>5. GoesOn(proc[p], n, a) /\ n.todo = S /\ a \in {"sign", "signed"}
  <2>1. a \in Points /\ a \in {"sign", "signed"}
    BY DEF Points
  <2> HIDE DEF S, a
  <2> QED BY <1>1, <1>3, <2>1, Zenon DEF Proc, GoesOn
<1> HIDE DEF n, c, S, a
<1>6. Fits(p, n)
  BY <1>1, <1>5 DEF Fits, GoesOn, WorkPoints, TaskPoints
<1>7. /\ WellFormed(p) /\ SendsNothing(p) /\ SetsStatus(p, c, "human-approved")
      /\ proc'[p] \in {n, Idle}
  BY <1>3, <1>4, <1>5, <1>6, StatusCommit DEF GoesOn
<1>8. \/ proc'[p].at \in {"idle", "signed"}
      \/ proc'[p].at = "sign" /\ proc'[p].todo = S
  BY <1>5, <1>7, IdleType DEF GoesOn
<1> QED BY <1>7, <1>8 DEF c, S

-----------------------------------------------------------------------------
(* The first invariant *)

LEMMA TaskInvInit == Init => TaskInv
<1> SUFFICES ASSUME Init PROVE TaskInv
  OBVIOUS
<1>1. NewGoal.ac \in [Criteria -> AcceptanceStatus] /\ NewGoal \in Goal /\ FollowsGates(NewGoal)
  BY DEF NewGoal, Goal, AcceptanceStatus, GoalStatus, GateStatus, FollowsGates, GatesApproved
<1>2. TypeOK
  <2>1. acceptance \in Acceptance
    BY WrittenFits DEF Init
  <2>2. torn \in BOOLEAN
    BY DEF Init
  <2>3. /\ goal \in Goal /\ history \in History
        /\ sent \in [Tasks -> 0..2] /\ jobs \in [Tasks -> {"none", "open", "closed"}]
        /\ proc \in [Procs -> Proc] /\ left \in [Procs -> Nat] /\ crashes \in 0..MaxCrashes
        /\ judged \in [Procs -> SUBSET Criteria] /\ proven \in SUBSET Criteria
    <3> HIDE DEF NewGoal
    <3> QED BY <1>1, RunnerConstantsOK, IdleType DEF Init, History
  <2> QED BY <2>1, <2>2, <2>3 DEF TypeOK
<1>3. CommandsFit
  BY FitsIdle DEF Init, CommandsFit
<1>4. SentAtMostOnce
  BY IdleType DEF Init, SentAtMostOnce, SentOnce, At
<1>5. ResultInOrder
  BY DEF Init, ResultInOrder
<1> QED BY <1>1, <1>2, <1>3, <1>4, <1>5 DEF TaskInv, Init

\* A step that does nothing for any process, or for the task t.
NothingDone ==
  /\ goal' = goal /\ acceptance' = acceptance /\ history' = history /\ sent' = sent
  /\ jobs' \in [Tasks -> {"none", "open", "closed"}]
  /\ proc' = proc /\ left' = left /\ crashes' = crashes /\ judged' = judged
  /\ torn' = torn /\ proven' = proven

LEMMA DoingNothing ==
  ASSUME TaskInv, NothingDone
  PROVE  TaskInv'
BY DEF TaskInv, NothingDone, TypeOK, FollowsGates, GatesApproved, CommandsFit, Fits, SentAtMostOnce,
       SentOnce, Recorded, ResultInOrder, At, Acceptance

\* The steps of a process, by what they do to the criteria.
ChangesCriteria(p) ==
  SetCheckedStatus(p) \/ RecordEvidence(p) \/ NonCoreItem(p) \/ NonCoreNoted(p) \/ Sign(p)
TakesInHand(p) == Check(p) \/ NonCore(p) \/ StartSignoff(p)
Sends(p) == Claim(p) \/ Dispatch(p)
Ordinarily(p) ==
  \/ StartWork(p) \/ StartDerive(p) \/ StartAudit(p) \/ StartCancel(p) \/ Gate(p)
  \/ Answered(p) \/ RecordTaskResult(p) \/ RecordBlocker(p) \/ Block(p) \/ WriteArtifacts(p)
  \/ Select(p) \/ Subjective(p) \/ Finish(p) \/ Pause(p) \/ Cancel(p) \/ ConnectionLost(p)
  \/ Crash(p)

LEMMA Steps ==
  ASSUME TaskInv, [Next]_vars
  PROVE  \/ NothingDone
         \/ \E p \in Procs :
              /\ left' \in [Procs -> Nat] /\ judged' \in [Procs -> SUBSET Criteria]
              /\ \A q \in Procs \ {p} : judged'[q] = judged[q]
              /\ proven' \in SUBSET Criteria /\ proven \subseteq proven'
              /\ \/ Decides(p) \/ ChangesCriteria(p) \/ TakesInHand(p) \/ Ordinarily(p)
                 \/ Sends(p) /\ left' = left
<1>1. /\ TypeOK /\ judged \in [Procs -> SUBSET Criteria] /\ left \in [Procs -> Nat]
      /\ proven \in SUBSET Criteria
  BY DEF TaskInv, TypeOK
<1>2. CASE UNCHANGED vars
  BY <1>1, <1>2 DEF vars, NothingDone, TypeOK
<1>3. ASSUME NEW t \in Tasks, TaskEnds(t), left' = left, judged' = judged, proven' = proven
      PROVE  NothingDone
  BY <1>1, <1>3 DEF TaskEnds, NothingDone, TypeOK
<1>4. ASSUME NEW p \in Procs, Step(p)
      PROVE  /\ left' \in [Procs -> Nat] /\ judged' \in [Procs -> SUBSET Criteria]
             /\ \A q \in Procs \ {p} : judged'[q] = judged[q]
             /\ proven' \in SUBSET Criteria /\ proven \subseteq proven'
             /\ left' = left
             /\ Decides(p) \/ Check(p) \/ Other(p)
  <2>1. left' = left
    BY <1>4 DEF Step
  <2>2. CASE Decides(p) /\ proven' = proven
    BY <1>1, <2>1, <2>2, DecidesStep
  <2>3. CASE Other(p) /\ judged' = [judged EXCEPT ![p] = {}] /\ proven' = proven
    BY <1>1, <2>1, <2>3
  <2>4. CASE Check(p) /\ judged' = [judged EXCEPT ![p] = {}]
    <3>1. proven' = proven \/ \E x \in Selectable(Items, goal) : proven' = proven \cup {x[2]}
      BY <2>4 DEF Check
    <3>2. \A x \in Selectable(Items, goal) : x[2] \in Criteria
      BY ListedFacts DEF Selectable
    <3>3. proven' \in SUBSET Criteria /\ proven \subseteq proven'
      BY <1>1, <3>1, <3>2
    <3> QED BY <1>1, <2>1, <2>4, <3>3
  <2> QED BY <1>4, <2>2, <2>3, <2>4 DEF Step
<1>5. ASSUME NEW p \in Procs, Start(p), judged' = judged
      PROVE  left' \in [Procs -> Nat]
  <2>1. PICK cmd : Starts(p, cmd)
    BY <1>5 DEF Start, StartWork, StartDerive, StartAudit, StartSignoff, StartCancel, Gate
  <2> QED BY <1>1, <2>1 DEF Starts
<1>6. \A p \in Procs :
        Other(p) \/ Check(p) => ChangesCriteria(p) \/ TakesInHand(p) \/ Ordinarily(p) \/ Sends(p)
  BY Zenon DEF Other, ChangesCriteria, TakesInHand, Ordinarily, Sends
<1>7. \A p \in Procs : Start(p) \/ ConnectionLost(p) \/ Crash(p) => TakesInHand(p) \/ Ordinarily(p)
  BY Zenon DEF Start, TakesInHand, Ordinarily
<1> DEFINE Kept == judged' = judged /\ proven' = proven
<1>8. \/ \E p \in Procs : Step(p)
      \/ (\E p \in Procs : Start(p)) /\ Kept
      \/ (\E p \in Procs : ConnectionLost(p) \/ Crash(p)) /\ left' = left /\ Kept
      \/ (\E t \in Tasks : TaskEnds(t)) /\ left' = left /\ Kept
      \/ UNCHANGED vars
  BY Zenon DEF Next
<1>9. CASE \E p \in Procs : Step(p)
  BY <1>4, <1>6, <1>9, Zenon
<1>10. CASE Kept /\ \/ \E p \in Procs : Start(p)
                    \/ (\E p \in Procs : ConnectionLost(p) \/ Crash(p)) /\ left' = left
  <2>1. proven' \in SUBSET Criteria /\ proven \subseteq proven'
    BY <1>1, <1>10
  <2> QED BY <1>1, <1>5, <1>7, <1>10, <2>1, Zenon
<1> QED BY <1>2, <1>3, <1>8, <1>9, <1>10, Zenon

LEMMA OrdinarySteps ==
  ASSUME TaskInv, NEW p \in Procs, Ordinarily(p)
  PROVE  Ordinary(p)
BY StartStep, GateStep, AnsweredStep, ResultStep, RecordBlockerStep, BlockStep, ArtifactsStep,
   SelectStep, SubjectiveStep, EndStep, LostStep, CrashStep, Zenon DEF Ordinarily

LEMMA TakesInHandStep ==
  ASSUME TaskInv, NEW p \in Procs, TakesInHand(p)
  PROVE  WellFormed(p) /\ SendsNothing(p) /\ CriteriaKept(p) /\ proc'[p].at # "finish"
         /\ StillHolds(proc'[p], goal, proven')
BY CheckStep, NonCoreStep, StartSignoffStep, Zenon DEF TakesInHand

LEMMA ChangesCriteriaStep ==
  ASSUME TaskInv, NEW p \in Procs, ChangesCriteria(p)
  PROVE  WellFormed(p) /\ SendsNothing(p)
BY SetCheckedStep, EvidenceStep, ItemStep, NotedStep, SignStep, Zenon DEF ChangesCriteria

LEMMA TaskInvStep == TaskInv /\ [Next]_vars => TaskInv'
<1> SUFFICES ASSUME TaskInv, [Next]_vars PROVE TaskInv'
  OBVIOUS
<1>1. CASE NothingDone
  BY <1>1, DoingNothing
<1>2. ASSUME NEW p \in Procs, left' \in [Procs -> Nat], judged' \in [Procs -> SUBSET Criteria],
             proven' \in SUBSET Criteria,
             \/ Decides(p) \/ ChangesCriteria(p) \/ TakesInHand(p) \/ Ordinarily(p)
             \/ Sends(p) /\ left' = left
      PROVE  TaskInv'
  <2>1. CASE Sends(p) /\ left' = left
    BY <1>2, <2>1, ClaimStep, DispatchStep DEF Sends
  <2>2. CASE Decides(p) \/ ChangesCriteria(p) \/ Ordinarily(p)
    BY <1>2, <2>2, SendingNothing, DecidesStep, ChangesCriteriaStep, OrdinarySteps DEF Ordinary
  <2>3. CASE TakesInHand(p)
    <3>1. WellFormed(p) /\ SendsNothing(p)
      BY <2>3, TakesInHandStep
    <3> QED BY <1>2, <3>1, SendingNothing
  <2> QED BY <1>2, <2>1, <2>2, <2>3
<1> QED BY <1>1, <1>2, Steps

-----------------------------------------------------------------------------
(* The second invariant: what the commands hold about the criteria, and    *)
(* which statuses a criterion of each kind may have.                       *)

FoundBefore(p) ==
  At(p, "finish") => judged[p] # {} /\ \A c \in judged[p] \cap Core : Earned(c)

\* Checks, humans and deferrals each have the criteria of their kind, and a core
\* criterion is verified only after a check has passed.
ByKind ==
  \A c \in Criteria :
    /\ c \in Core \cap Manual => goal.ac[c] \in {"pending", "human-approved"}
    /\ c \in Core \ Manual => /\ goal.ac[c] \in {"pending", "verified", "failed"}
                              /\ goal.ac[c] = "verified" => c \in proven
    /\ c \notin Core => goal.ac[c] \in {"pending", "verified", "deferred"}

CriteriaInv ==
  /\ \A p \in Procs : StillHolds(proc[p], goal, proven) /\ FoundBefore(p)
  /\ EvidenceInOrder /\ NeverShownEarly /\ ByKind

\* No criterion becomes pending again, by which a met one may be lost to a check
\* but not to oblivion.
NoneForgotten == \A c \in Criteria : goal.ac[c] # "pending" => goal'.ac[c] # "pending"

\* acceptance.md follows a goal that forgets nothing.
LEMMA ShownKept ==
  ASSUME TaskInv, CriteriaInv, NoneForgotten,
         acceptance' \in {acceptance, Repaired(goal')} \/ ~acceptance'.repaired, goal' \in Goal
  PROVE  NeverShownEarly'
<1>1. ToSet(Items) \subseteq Criteria /\ Items' = acceptance'.items
  BY ListedFacts DEF Items
<1>2. CASE acceptance' = acceptance
  BY <1>1, <1>2 DEF CriteriaInv, NeverShownEarly, NoneForgotten, Items
<1>3. CASE acceptance' = Repaired(goal') /\ acceptance' # acceptance
  <2>1. acceptance'.items = Items /\ \A c \in ToSet(Items) : acceptance'.shown[c] = goal'.ac[c]
    BY <1>1, <1>3, RepairedType DEF TaskInv
  <2> QED BY <1>1, <2>1 DEF NeverShownEarly, Items
<1>4. CASE ~acceptance'.repaired
  BY <1>4 DEF NeverShownEarly
<1> QED BY <1>2, <1>3, <1>4

LEMMA StillFound ==
  ASSUME TaskInv, CriteriaInv, NoneForgotten, ByKind', proven \subseteq proven',
         NEW p \in Procs, WellFormed(p), FindsAll(p),
         judged' \in [Procs -> SUBSET Criteria],
         \A q \in Procs \ {p} : judged'[q] = judged[q]
  PROVE  \A q \in Procs : FoundBefore(q)'
<1>1. ASSUME NEW c \in Core, Satisfied(goal, c) \/ Earned(c)
      PROVE  Earned(c)'
  <2>1. c \in Criteria /\ goal.ac[c] # "pending" /\ (c \in Manual \/ c \in proven)
    BY <1>1, GoalConstantsOK DEF CriteriaInv, ByKind, Satisfied, Earned
  <2>2. goal'.ac[c] # "pending" /\ (c \in Manual \/ c \in proven')
    BY <2>1 DEF NoneForgotten
  <2> QED BY <1>1, <2>1, <2>2 DEF ByKind, Earned
<1>2. ASSUME NEW q \in Procs, proc'[q].at = "finish"
      PROVE  judged'[q] # {} /\ \A c \in judged'[q] \cap Core : Earned(c)'
  <2>1. CASE q = p
    BY <1>1, <1>2, <2>1 DEF FindsAll
  <2>2. CASE q # p
    <3>1. proc'[q] = proc[q] /\ judged'[q] = judged[q] /\ FoundBefore(q)
      BY <2>2 DEF WellFormed, CriteriaInv
    <3> QED BY <1>1, <1>2, <3>1 DEF FoundBefore, At
  <2> QED BY <2>1, <2>2
<1> QED BY <1>2 DEF FoundBefore, At

\* What the others hold survives any step that forgets and unproves nothing.
LEMMA OthersHold ==
  ASSUME TaskInv, CriteriaInv, NoneForgotten, proven \subseteq proven',
         NEW p \in Procs, WellFormed(p), goal.evidence \subseteq goal'.evidence,
         StillHolds(proc'[p], goal', proven')
  PROVE  \A q \in Procs : StillHolds(proc'[q], goal', proven')
<1> SUFFICES ASSUME NEW q \in Procs \ {p} PROVE StillHolds(proc'[q], goal', proven')
  OBVIOUS
<1>1. proc'[q] = proc[q] /\ StillHolds(proc[q], goal, proven) /\ proc[q].sel \in Criteria
  BY Fitting DEF WellFormed, CriteriaInv, Proc
<1> QED BY <1>1 DEF StillHolds, NoneForgotten

LEMMA KeepingCriteria ==
  ASSUME TaskInv, CriteriaInv, NEW p \in Procs, WellFormed(p), CriteriaKept(p),
         StillHolds(proc'[p], goal, proven'), FindsAll(p), proven \subseteq proven',
         judged' \in [Procs -> SUBSET Criteria],
         \A q \in Procs \ {p} : judged'[q] = judged[q]
  PROVE  CriteriaInv'
<1>1. goal'.ac = goal.ac /\ goal'.evidence = goal.evidence /\ NoneForgotten
  BY DEF CriteriaKept, SameCriteria, NoneForgotten
<1>2. StillHolds(proc'[p], goal', proven')
  BY <1>1 DEF StillHolds
<1>3. EvidenceInOrder' /\ ByKind'
  BY <1>1 DEF CriteriaInv, EvidenceInOrder, ByKind
<1>4. NeverShownEarly'
  BY <1>1, ShownKept DEF CriteriaKept, WellFormed
<1>5. \A q \in Procs : FoundBefore(q)'
  BY <1>1, <1>3, StillFound
<1> QED BY <1>1, <1>2, <1>3, <1>4, <1>5, OthersHold DEF CriteriaInv

\* A status set for a criterion: fit for its kind, and with evidence if that is
\* not a core one.
LEMMA SettingStatus ==
  ASSUME TaskInv, CriteriaInv, NEW p \in Procs, NEW c \in Criteria, NEW v,
         WellFormed(p), SetsStatus(p, c, v), StillHolds(proc'[p], goal', proven'), FindsAll(p),
         \/ c \in Core \cap Manual /\ v = "human-approved"
         \/ c \in Core \ Manual /\ v \in {"verified", "failed"} /\ (v = "verified" => c \in proven)
         \/ c \notin Core /\ v \in {"verified", "deferred"}
            /\ (v = "verified" => <<c, TRUE>> \in goal.evidence),
         proven \subseteq proven', judged' \in [Procs -> SUBSET Criteria],
         \A q \in Procs \ {p} : judged'[q] = judged[q]
  PROVE  CriteriaInv'
<1>1. /\ goal \in Goal /\ goal'.evidence = goal.evidence
      /\ \A d \in Criteria : goal'.ac[d] = IF d = c THEN v ELSE goal.ac[d]
  BY Fitting DEF SetsStatus, Goal
<1>2. NoneForgotten
  BY <1>1 DEF NoneForgotten
<1>3. ByKind'
  BY <1>1 DEF CriteriaInv, ByKind
<1>4. EvidenceInOrder'
  <2>1. \A e \in goal'.evidence : e[1] \in Criteria /\ (e[1] \in Core => goal.ac[e[1]] \in {"verified", "failed"})
    BY <1>1 DEF Goal, CriteriaInv, EvidenceInOrder
  <2>2. ASSUME NEW e \in goal'.evidence, e[1] \in Core
        PROVE  goal'.ac[e[1]] \in {"verified", "failed"}
    <3>1. CASE e[1] # c
      BY <1>1, <2>1, <2>2, <3>1
    <3>2. CASE e[1] = c
      <4>1. c \in Core /\ goal.ac[c] \in {"verified", "failed"}
        BY <2>1, <2>2, <3>2
      <4>2. c \notin Manual
        BY <4>1 DEF CriteriaInv, ByKind
      <4> QED BY <1>1, <3>2, <4>1, <4>2
    <3> QED BY <3>1, <3>2
  <2>3. \A d \in Criteria \ Core : goal'.ac[d] = "verified" => <<d, TRUE>> \in goal'.evidence
    BY <1>1 DEF CriteriaInv, EvidenceInOrder
  <2> QED BY <2>2, <2>3 DEF EvidenceInOrder
<1>5. NeverShownEarly'
  BY <1>2, ShownKept DEF SetsStatus, WellFormed
<1>6. \A q \in Procs : FoundBefore(q)'
  BY <1>2, <1>3, StillFound
<1>7. \A q \in Procs : StillHolds(proc'[q], goal', proven')
  BY <1>1, <1>2, OthersHold
<1> QED BY <1>3, <1>4, <1>5, <1>6, <1>7 DEF CriteriaInv

\* Evidence of a check, which for a core criterion follows its status.
LEMMA AddingEvidence ==
  ASSUME TaskInv, CriteriaInv, NEW p \in Procs, NEW c \in Criteria,
         NEW b \in BOOLEAN,
         WellFormed(p), AddsEvidence(p, c, b), StillHolds(proc'[p], goal', proven'), FindsAll(p),
         c \in Core => c \notin Manual /\ goal.ac[c] # "pending",
         proven \subseteq proven', judged' \in [Procs -> SUBSET Criteria],
         \A q \in Procs \ {p} : judged'[q] = judged[q]
  PROVE  CriteriaInv'
<1>1. goal'.ac = goal.ac /\ goal'.evidence = goal.evidence \cup {<<c, b>>}
  BY DEF AddsEvidence
<1>2. NoneForgotten
  BY <1>1 DEF NoneForgotten
<1>3. EvidenceInOrder' /\ ByKind'
  <2>1. ByKind'
    BY <1>1 DEF CriteriaInv, ByKind
  <2>2. c \in Core => goal.ac[c] \in {"verified", "failed"}
    BY DEF CriteriaInv, ByKind
  <2>3. ASSUME NEW e \in goal'.evidence, e[1] \in Core
        PROVE  goal'.ac[e[1]] \in {"verified", "failed"}
    <3>1. CASE e \in goal.evidence
      BY <1>1, <2>3, <3>1 DEF CriteriaInv, EvidenceInOrder
    <3>2. CASE e = <<c, b>>
      BY <1>1, <2>2, <2>3, <3>2
    <3> QED BY <1>1, <3>1, <3>2
  <2>4. \A k \in Criteria \ Core : goal'.ac[k] = "verified" => <<k, TRUE>> \in goal'.evidence
    BY <1>1 DEF CriteriaInv, EvidenceInOrder
  <2> QED BY <2>1, <2>3, <2>4 DEF EvidenceInOrder
<1>4. NeverShownEarly'
  BY <1>2, ShownKept DEF AddsEvidence, WellFormed
<1>5. \A q \in Procs : FoundBefore(q)'
  BY <1>2, <1>3, StillFound
<1>6. \A q \in Procs : StillHolds(proc'[q], goal', proven')
  BY <1>1, <1>2, OthersHold
<1> QED BY <1>3, <1>4, <1>5, <1>6 DEF CriteriaInv

LEMMA HoldsNothing ==
  ASSUME NEW r, NEW g, NEW P, r.at \in {"idle", "noncore", "select", "decide", "signed"}
  PROVE  StillHolds(r, g, P) /\ r.at # "finish"
BY DEF StillHolds

\* What is left of a list after its first item.
LEMMA RestStillHolds ==
  ASSUME TaskInv, CriteriaInv, NEW p \in Procs, NEW x \in proc[p].todo, NEW g, NEW P,
         proc[p].at \in {"item", "noted"}, Passes(p, x)
  PROVE  StillHolds(proc'[p], g, P) /\ proc'[p].at # "finish"
<1>1. CASE proc'[p].at = "idle"
  BY <1>1 DEF StillHolds
<1>2. CASE proc'[p].at = "item" /\ proc'[p].todo = proc[p].todo \ {x}
  BY <1>2 DEF StillHolds, CriteriaInv
<1> QED BY <1>1, <1>2 DEF Passes

LEMMA ChangingCriteria ==
  ASSUME TaskInv, CriteriaInv, NEW p \in Procs, ChangesCriteria(p), proven \subseteq proven',
         judged' \in [Procs -> SUBSET Criteria],
         \A q \in Procs \ {p} : judged'[q] = judged[q]
  PROVE  CriteriaInv'
<1>0. goal \in Goal /\ proc[p] \in Proc /\ StillHolds(proc[p], goal, proven)
  BY Fitting DEF CriteriaInv
<1>1. CASE SetCheckedStatus(p)
  <2> DEFINE c == proc[p].sel  v == IF proc[p].passed THEN "verified" ELSE "failed"
  <2>1. /\ WellFormed(p) /\ SendsNothing(p) /\ SetsStatus(p, c, v)
        /\ \/ proc'[p] = Idle
           \/ proc'[p].at = "evidence" /\ proc'[p].sel = c /\ proc'[p].passed = proc[p].passed
    BY <1>1, SetCheckedStep
  <2>2. proc[p].at = "checked"
    BY <1>1 DEF SetCheckedStatus, At
  <2>3. /\ c \in Criteria /\ c \in Core \ Manual /\ v \in {"verified", "failed"}
        /\ v = "verified" => c \in proven
    BY <1>0, <2>2 DEF StillHolds, Proc
  <2>4. goal'.ac[c] = v
    BY <1>0, <2>1, <2>3 DEF SetsStatus, Goal
  <2>5. StillHolds(proc'[p], goal', proven') /\ FindsAll(p)
    <3>1. CASE proc'[p] = Idle
      BY <3>1, IdleType, HoldsNothing DEF FindsAll
    <3>2. CASE proc'[p].at = "evidence" /\ proc'[p].sel = c /\ proc'[p].passed = proc[p].passed
      BY <1>0, <2>2, <2>3, <2>4, <3>2 DEF StillHolds, FindsAll
    <3> QED BY <2>1, <3>1, <3>2
  <2> HIDE DEF c, v
  <2> QED BY <2>1, <2>3, <2>5, SettingStatus
<1>2. CASE RecordEvidence(p)
  <2> DEFINE c == proc[p].sel  b == proc[p].passed
  <2>1. WellFormed(p) /\ AddsEvidence(p, c, b) /\ proc'[p].at \in {"idle", "noncore", "select"}
    BY <1>2, EvidenceStep
  <2>2. proc[p].at = "evidence"
    BY <1>2 DEF RecordEvidence, At
  <2>3. c \in Criteria /\ b \in BOOLEAN /\ c \notin Manual /\ goal.ac[c] # "pending"
    BY <1>0, <2>2 DEF StillHolds, Proc
  <2>4. StillHolds(proc'[p], goal', proven') /\ FindsAll(p)
    BY <2>1, HoldsNothing DEF FindsAll
  <2> HIDE DEF c, b
  <2> QED BY <2>1, <2>3, <2>4, AddingEvidence
<1>3. CASE NonCoreItem(p)
  <2>1. proc[p].at = "item"
    BY <1>3 DEF NonCoreItem, At
  <2>2. WellFormed(p)
    BY <1>3, ItemStep
  <2>3. CASE CriteriaKept(p) /\ proc'[p].at = "decide"
    BY <2>2, <2>3, HoldsNothing, KeepingCriteria DEF FindsAll
  <2>4. ASSUME NEW x \in proc[p].todo, Passes(p, x), CriteriaKept(p)
        PROVE  CriteriaInv'
    <3>1. StillHolds(proc'[p], goal, proven') /\ FindsAll(p)
      BY <2>1, <2>4, RestStillHolds DEF FindsAll
    <3> QED BY <2>2, <2>4, <3>1, KeepingCriteria
  <2>5. ASSUME NEW x \in proc[p].todo, Passes(p, x), SetsStatus(p, x[2], "deferred")
        PROVE  CriteriaInv'
    <3> DEFINE c == x[2]
    <3>1. c \in Criteria /\ c \notin Core
      BY <1>0, <2>1 DEF StillHolds, Proc
    <3>2. StillHolds(proc'[p], goal', proven') /\ FindsAll(p)
      BY <2>1, <2>5, RestStillHolds DEF FindsAll
    <3>3. SetsStatus(p, c, "deferred")
      BY <2>5
    <3> HIDE DEF c
    <3> QED BY <2>2, <3>1, <3>2, <3>3, SettingStatus
  <2>6. ASSUME NEW x \in proc[p].todo, NEW b \in BOOLEAN, IsFirst(x, proc[p].todo),
               AddsEvidence(p, x[2], b),
               \/ proc'[p].at = "idle"
               \/ /\ proc'[p].at = "noted" /\ proc'[p].todo = proc[p].todo
                  /\ proc'[p].passed = b
        PROVE  CriteriaInv'
    <3> DEFINE c == x[2]
    <3>1. c \in Criteria /\ c \notin Core
      BY <1>0, <2>1 DEF StillHolds, Proc
    <3>2. AddsEvidence(p, c, b)
      BY <2>6
    <3>3. \A y \in proc[p].todo : IsFirst(y, proc[p].todo) => y = x
      <4>1. \A y \in proc[p].todo : y[1] \in Nat /\ x[1] \in Nat
        BY <1>0 DEF Proc
      <4>2. \A y \in proc[p].todo : y[1] = x[1] => y = x
        BY <1>0, <2>1 DEF StillHolds
      <4> QED BY <2>6, <4>1, <4>2 DEF IsFirst
    <3>4. StillHolds(proc'[p], goal', proven') /\ FindsAll(p)
      <4>1. b => <<c, TRUE>> \in goal'.evidence
        BY <3>2 DEF AddsEvidence
      <4>2. CASE proc'[p].at = "idle"
        BY <4>2, HoldsNothing DEF FindsAll
      <4>3. CASE proc'[p].at = "noted" /\ proc'[p].todo = proc[p].todo /\ proc'[p].passed = b
        BY <1>0, <2>1, <3>3, <4>1, <4>3 DEF StillHolds, FindsAll
      <4> QED BY <2>6, <4>2, <4>3
    <3> HIDE DEF c
    <3> QED BY <2>2, <3>1, <3>2, <3>4, AddingEvidence
  <2> QED BY <1>3, <2>3, <2>4, <2>5, <2>6, ItemStep
<1>4. CASE NonCoreNoted(p)
  <2> DEFINE v == IF proc[p].passed THEN "verified" ELSE "deferred"
  <2>1. proc[p].at = "noted"
    BY <1>4 DEF NonCoreNoted, At
  <2>2. PICK x \in proc[p].todo :
          WellFormed(p) /\ IsFirst(x, proc[p].todo) /\ Passes(p, x) /\ SetsStatus(p, x[2], v)
    BY <1>4, NotedStep
  <2> DEFINE c == x[2]
  <2>3. c \in Criteria /\ c \notin Core
    BY <1>0, <2>1 DEF StillHolds, Proc
  <2>4. StillHolds(proc'[p], goal', proven') /\ FindsAll(p)
    BY <2>1, <2>2, RestStillHolds DEF FindsAll
  <2>5. /\ v \in {"verified", "deferred"} /\ (v = "verified" => <<c, TRUE>> \in goal.evidence)
        /\ SetsStatus(p, c, v)
    BY <1>0, <2>1, <2>2 DEF StillHolds
  <2> HIDE DEF c, v
  <2> QED BY <2>2, <2>3, <2>4, <2>5, SettingStatus
<1>5. CASE Sign(p)
  <2>1. proc[p].at = "sign"
    BY <1>5 DEF Sign, At
  <2>2. PICK x \in proc[p].todo :
          /\ WellFormed(p) /\ SetsStatus(p, x[2], "human-approved")
          /\ \/ proc'[p].at \in {"idle", "signed"}
             \/ proc'[p].at = "sign" /\ proc'[p].todo = proc[p].todo \ {x}
    BY <1>5, SignStep
  <2> DEFINE c == x[2]
  <2>3. c \in Criteria /\ c \in Core \cap Manual
    BY <1>0, <2>1 DEF StillHolds, Proc
  <2>4. StillHolds(proc'[p], goal', proven') /\ FindsAll(p)
    <3>1. CASE proc'[p].at \in {"idle", "signed"}
      BY <3>1, HoldsNothing DEF FindsAll
    <3>2. CASE proc'[p].at = "sign" /\ proc'[p].todo = proc[p].todo \ {x}
      BY <1>0, <2>1, <3>2 DEF StillHolds, FindsAll
    <3> QED BY <2>2, <3>1, <3>2
  <2>5. SetsStatus(p, c, "human-approved")
    BY <2>2
  <2> HIDE DEF c
  <2> QED BY <2>2, <2>3, <2>4, <2>5, SettingStatus
<1> QED BY <1>1, <1>2, <1>3, <1>4, <1>5 DEF ChangesCriteria

LEMMA CriteriaInvInit == Init => CriteriaInv
<1> SUFFICES ASSUME Init PROVE CriteriaInv
  OBVIOUS
<1>1. goal.evidence = {} /\ \A c \in Criteria : goal.ac[c] = "pending"
  BY DEF Init, NewGoal
<1>2. \A p \in Procs : StillHolds(proc[p], goal, proven) /\ FoundBefore(p)
  BY IdleType, HoldsNothing DEF Init, FoundBefore, At
<1>3. NeverShownEarly
  BY DEF Init, Written, NeverShownEarly
<1> QED BY <1>1, <1>2, <1>3 DEF CriteriaInv, EvidenceInOrder, ByKind

LEMMA CriteriaInvStep == TaskInv /\ CriteriaInv /\ [Next]_vars => CriteriaInv'
<1> SUFFICES ASSUME TaskInv, CriteriaInv, [Next]_vars PROVE CriteriaInv'
  OBVIOUS
<1>1. CASE NothingDone
  <2>1. goal' = goal /\ acceptance' = acceptance /\ proc' = proc /\ judged' = judged /\ proven' = proven
    BY <1>1 DEF NothingDone
  <2>2. EvidenceInOrder' /\ NeverShownEarly' /\ ByKind'
    BY <2>1 DEF CriteriaInv, EvidenceInOrder, NeverShownEarly, ByKind, Items
  <2>3. \A p \in Procs : StillHolds(proc[p], goal, proven)' /\ FoundBefore(p)'
    BY <2>1 DEF CriteriaInv, StillHolds, FoundBefore, Earned, At
  <2> QED BY <2>2, <2>3 DEF CriteriaInv
<1>2. ASSUME NEW p \in Procs, left' \in [Procs -> Nat], judged' \in [Procs -> SUBSET Criteria],
             \A q \in Procs \ {p} : judged'[q] = judged[q],
             proven' \in SUBSET Criteria, proven \subseteq proven',
             \/ Decides(p) \/ ChangesCriteria(p) \/ TakesInHand(p) \/ Ordinarily(p)
             \/ Sends(p) /\ left' = left
      PROVE  CriteriaInv'
  <2>1. CASE ChangesCriteria(p)
    BY <1>2, <2>1, ChangingCriteria
  <2>2. CASE Sends(p) /\ left' = left
    <3>1. WellFormed(p) /\ CriteriaKept(p) /\ Plain(proc'[p])
      BY <1>2, <2>2, ClaimStep, DispatchStep DEF Sends
    <3> QED BY <1>2, <3>1, KeepingCriteria DEF Plain, StillHolds, FindsAll
  <2>3. CASE Ordinarily(p)
    <3>1. WellFormed(p) /\ CriteriaKept(p) /\ Plain(proc'[p])
      BY <2>3, OrdinarySteps DEF Ordinary
    <3> QED BY <1>2, <3>1, KeepingCriteria DEF Plain, StillHolds, FindsAll
  <2>4. CASE Decides(p)
    BY <1>2, <2>4, DecidesStep, KeepingCriteria
  <2>5. CASE TakesInHand(p)
    BY <1>2, <2>5, TakesInHandStep, KeepingCriteria DEF FindsAll
  <2> QED BY <1>2, <2>1, <2>2, <2>3, <2>4, <2>5
<1> QED BY <1>1, <1>2, Steps

\* Only finish makes a goal done.
LEMMA DoneByFinish ==
  ASSUME TaskInv, [Next]_vars, goal.status # "done", goal'.status = "done"
  PROVE  \E p \in Procs : Finish(p)
<1>1. goal \in Goal /\ FollowsGates(goal) /\ ~NothingDone
  BY Fitting DEF NothingDone
<1>2. PICK p \in Procs : \/ Decides(p) \/ ChangesCriteria(p) \/ TakesInHand(p) \/ Ordinarily(p)
                         \/ Sends(p)
  BY <1>1, Steps
<1>3. ASSUME NEW g, NEW ev, NEW n, g.status # "done"
      PROVE  ~Commit(p, g, ev, n)
  BY <1>3 DEF Commit
<1>4. \A n : ~Reads(p, n) /\ ~Goes(p, n) /\ ~Begins(p, n)
  BY DEF Reads, Goes, Begins
<1>5. ~ChangesCriteria(p)
  <2>1. \A c, v : ~SetsStatus(p, c, v) /\ ~AddsEvidence(p, c, v)
    BY DEF SetsStatus, AddsEvidence
  <2>2. CASE NonCoreItem(p)
    <3>1. ASSUME NEW x \in proc[p].todo, NEW b \in BOOLEAN
          PROVE  /\ StatusSet(goal, x[2], "deferred").status # "done"
                 /\ EvidenceAdded(goal, x[2], b).status # "done"
      <4> DEFINE c == x[2]
      <4>1. c \in Criteria /\ "deferred" \in AcceptanceStatus
        BY Fitting DEF Proc, AcceptanceStatus
      <4> HIDE DEF c
      <4>2. StatusSet(goal, c, "deferred").status = goal.status
        BY <1>1, <4>1, GoalStatusSet
      <4>3. EvidenceAdded(goal, c, b).status = goal.status
        BY <1>1, <4>1, GoalEvidence
      <4> QED BY <4>2, <4>3 DEF c
    <3>2. \A n : ~Reads(p, n) /\ ~Goes(p, n)
      BY <1>4
    <3>3. \E x \in proc[p].todo, b \in BOOLEAN : \E n :
            \/ Commit(p, StatusSet(goal, x[2], "deferred"), {}, n)
            \/ Commit(p, EvidenceAdded(goal, x[2], b), {}, n)
      BY <2>2, <3>2, Zenon DEF NonCoreItem
    <3> QED BY <1>3, <3>1, <3>3
  <2> QED BY <2>1, <2>2, SetCheckedStep, EvidenceStep, NotedStep, SignStep DEF ChangesCriteria
<1>6. ~Decides(p) /\ ~TakesInHand(p)
  BY <1>3, <1>4 DEF Decides, Decide, Signed, TakesInHand, Check, NonCore, StartSignoff
<1>7. ~Sends(p)
  <2>1. ~Dispatch(p)
    BY DEF Dispatch
  <2>2. \A t \in Tasks : Claimed(goal, t).status # "done"
    BY <1>1, GoalClaimed
  <2>3. ~Claim(p)
    BY <1>3, <1>4, <2>2 DEF Claim, Tasks, Kinds
  <2> QED BY <2>1, <2>3 DEF Sends
<1>8. \A ev : \A s \in {"gated", "blocked", "cancelled"} : ~SetStatus(p, s, ev)
  <2>1. \A s \in {"gated", "blocked", "cancelled"} : Transitioned(goal, s).status # "done"
    BY <1>1, GoalTransitioned
  <2> QED BY <1>3, <1>4, <2>1 DEF SetStatus
<1>9. Ordinarily(p) => Finish(p)
  <2>1. ~Block(p) /\ ~Pause(p) /\ ~Cancel(p)
    BY <1>8 DEF Block, Pause, Cancel
  <2>2. ~RecordTaskResult(p) /\ ~RecordBlocker(p)
    <3>1. Completed(goal).status # "done"
      BY <1>1, GoalCompleted
    <3> QED BY <1>3, <1>4, <3>1 DEF RecordTaskResult, RecordBlocker
  <2>3. ~Gate(p)
    <3>1. \A v \in {"approved", "rejected"} :
            \A h \in {GateSet(goal, "ac", v), GateSet(goal, "plan", v), CombinedGateSet(goal, v)} :
              h.status # "done"
      BY <1>1, GoalGated
    <3> QED BY <1>3, <3>1 DEF Gate
  <2>4. /\ ~StartWork(p) /\ ~StartDerive(p) /\ ~StartAudit(p) /\ ~StartCancel(p)
        /\ ~Answered(p) /\ ~Select(p) /\ ~Subjective(p) /\ ~ConnectionLost(p)
    BY <1>4 DEF StartWork, StartDerive, StartAudit, StartCancel, Answered, Select, Subjective,
                ConnectionLost
  <2>5. ~WriteArtifacts(p) /\ ~Crash(p)
    BY DEF WriteArtifacts, Crash
  <2> QED BY <2>1, <2>2, <2>3, <2>4, <2>5 DEF Ordinarily
<1> QED BY <1>2, <1>5, <1>6, <1>7, <1>9

-----------------------------------------------------------------------------
(* Theorems *)

\* The first invariant, for every value of the constants.
LEMMA Invariance == Spec => []TaskInv
BY TaskInvInit, TaskInvStep, PTL DEF Spec

\* A goal that is ready has both gates approved and one that is a draft has not,
\* and every file and command has its type, however the commands of any number
\* of processes interleave and wherever they die (policy.py:174).
THEOREM StatusAndTypes == Spec => []Consistent
<1>1. TaskInv => Consistent
  BY DEF TaskInv, Consistent, StatusFollowsGates, FollowsGates, GatesApproved
<1> QED BY <1>1, Invariance, PTL

\* No task is handed to the broker twice: its number exceeds all in the history,
\* and the history has every task before it is sent (store.py:136, :203).
THEOREM NoTaskSentTwice == Spec => []SentOnce
<1>1. TaskInv => SentOnce
  BY DEF TaskInv, SentAtMostOnce
<1> QED BY <1>1, Invariance, PTL

\* The second one, on top of the first.
LEMMA CriteriaInvariance == Spec => []CriteriaInv
BY CriteriaInvInit, CriteriaInvStep, Invariance, PTL DEF Spec

\* Wherever processes die, and however many of them work, the three files never
\* tell of what did not happen (store.py:44).
THEOREM CrashTellsNothingFalse == Spec => []CrashConsistent
<1>1. TaskInv /\ CriteriaInv => CrashConsistent
  BY DEF TaskInv, CriteriaInv, CrashConsistent
<1> QED BY <1>1, Invariance, CriteriaInvariance, PTL

\* Whatever a worker writes into acceptance.md, and whoever works, derives or signs
\* off between the decision and the transition, a goal becomes done only if checks
\* and humans have earned every core criterion it was judged by (runner.py:99).
THEOREM DoneOnlyByRight == Spec => DoneByRight
<1>1. TaskInv /\ CriteriaInv /\ [Next]_vars
        => [goal.status # "done" /\ goal'.status = "done" =>
              \E p \in Procs : /\ At(p, "finish") /\ judged[p] # {}
                               /\ \A c \in judged[p] \cap Core : Earned(c)]_vars
  <2> SUFFICES ASSUME TaskInv, CriteriaInv, [Next]_vars, goal.status # "done", goal'.status = "done"
               PROVE  \E p \in Procs : /\ At(p, "finish") /\ judged[p] # {}
                                       /\ \A c \in judged[p] \cap Core : Earned(c)
    OBVIOUS
  <2>1. PICK p \in Procs : Finish(p)
    BY DoneByFinish
  <2> QED BY <2>1 DEF Finish, CriteriaInv, FoundBefore
<1> QED BY <1>1, Invariance, CriteriaInvariance, PTL DEF DoneByRight, Spec
=============================================================================
