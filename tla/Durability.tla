----------------------------- MODULE Durability -----------------------------
(***************************************************************************)
(* The JSONL store of the broker (broker/storage/jsonl.py) and the         *)
(* checkpoint of leases beside it (broker/checkpoint.py, written by        *)
(* broker/service.py), over crashes, restarts and failing writes.          *)
(*                                                                         *)
(* A mutation changes memory, appends a line that holds a snapshot of all  *)
(* of it, and returns; the store's lock is held throughout, so this is one *)
(* step, with every way in which it can be cut short.  The checkpoint is   *)
(* written after the append with nothing awaited in between, so only a     *)
(* crash can come between the two.  A poll gives the lock up while it      *)
(* holds a message it has popped.                                          *)
(*                                                                         *)
(* A task stands for its message and its job; each has a worker of its     *)
(* own, so the inboxes are one set.  Sessions, events and conversations    *)
(* are in the snapshots too and fare as the tasks do.                      *)
(***************************************************************************)
EXTENDS Naturals, Sequences, SequencesExt, JobLifecycle

CONSTANTS
  Tasks,       \* tasks, each sent with ids of its own
  MaxRecords,  \* records at which the journal is compacted
  MaxEpoch,    \* reclaims of a job, plus one: a bound of the model only
  MaxCrashes,  \* crashes of the broker, a bound of the model only
  MaxFaults,   \* writes that fail, a bound of the model only
  Broken       \* a line of the journal that does not parse

ASSUME DurabilityConstantsOK ==
  /\ MaxRecords \in Nat \ {0, 1} /\ MaxEpoch \in Nat \ {0}
  /\ MaxCrashes \in Nat /\ MaxFaults \in Nat

VARIABLES
  store,       \* memory: the tasks, the messages in inboxes, those popped
  records,     \* memory: _record_count
  up,          \* whether the broker runs
  stopping,    \* whether it has sent itself the signal that ends it
  file,        \* the journal: its lines, and whether the last one is ended
  checkpoint,  \* broker-checkpoint.json: the lease entry of each task
  drifted,     \* the drifts that the last restart reported, by task
  due,         \* tasks whose timeout has passed
  told,        \* ghost: what a client was last told of each task
  glued,       \* ghost: something was appended to a line without an end
  crashes, faults

vars ==
  <<store, records, up, stopping, file, checkpoint, drifted, due, told, glued, crashes,
    faults>>

MessageStatus == {"NONE", "QUEUED", "DELIVERED", "RUNNING", "DONE", "TIMEOUT", "CANCELLED"}
TaskState == [msg : MessageStatus, job : JobStatus \cup {"NONE"}, lease : 0..MaxEpoch]
Absent == [msg |-> "NONE", job |-> "NONE", lease |-> 0]
Snapshot == [Tasks -> TaskState]
Nothing == [t \in Tasks |-> Absent]

ASSUME BrokenOK == Broken \notin Snapshot

Stopped == [tasks |-> Nothing, inbox |-> {}, hand |-> {}]
Entry == [epoch : 0..MaxEpoch, status : {"none", "in_flight", "recently_settled"}]
Checkpoint == [Tasks -> Entry]
NoEntry == [epoch |-> 0, status |-> "none"]
Drift == {"none", "missing_after_restart", "epoch_changed"}

TypeOK ==
  /\ store \in [tasks : Snapshot, inbox : SUBSET Tasks, hand : SUBSET Tasks]
  /\ records \in 0..(MaxRecords + MaxFaults + MaxCrashes)
  /\ up \in BOOLEAN /\ stopping \in BOOLEAN
  /\ file.lines \in Seq(Snapshot \cup {Broken}) /\ file.ended \in BOOLEAN
  /\ checkpoint \in Checkpoint
  /\ drifted \in [Tasks -> Drift]
  /\ due \subseteq Tasks
  /\ told \in Snapshot
  /\ glued \in BOOLEAN
  /\ crashes \in 0..MaxCrashes /\ faults \in 0..MaxFaults

Init ==
  /\ store = Stopped /\ records = 0 /\ up = FALSE /\ stopping = FALSE
  /\ file = [lines |-> <<>>, ended |-> TRUE]
  /\ checkpoint = [t \in Tasks |-> NoEntry]
  /\ drifted = [t \in Tasks |-> "none"]
  /\ due = {} /\ told = Nothing /\ glued = FALSE
  /\ crashes = 0 /\ faults = 0

-----------------------------------------------------------------------------
(* The journal *)

\* What is written after a line without an end becomes part of that line.
Appended(f, line) ==
  [lines |-> IF f.ended THEN Append(f.lines, line) ELSE Append(Front(f.lines), Broken),
   ended |-> TRUE]
Unended(f) == [lines |-> f.lines, ended |-> FALSE]
\* atomic_write_text replaces the file as a whole, or not at all.
Rewritten(lines) == [lines |-> lines, ended |-> TRUE]

\* A write cut short leaves nothing, a torn line, or all of it but its end.
CutShort(f, m) == {f, Unended(Appended(f, Broken)), Unended(Appended(f, m))}
\* One that raises has written as much, or all of it, and failed to sync.
Raised(f, m) == CutShort(f, m) \cup {Appended(f, m)}

\* _load_latest_snapshot trusts the lines before the first that does not parse.
ValidLines(lines) ==
  SubSeq(lines, 1, CHOOSE n \in 0..Len(lines) :
                     /\ \A i \in 1..n : lines[i] # Broken
                     /\ n = Len(lines) \/ lines[n + 1] = Broken)
LatestOf(lines) == IF lines = <<>> THEN Nothing ELSE Last(lines)
Recoverable(f) == LatestOf(ValidLines(f.lines))

\* A journal with a broken line is rewritten up to it; any other is left alone.
Repaired(f) ==
  IF ValidLines(f.lines) = f.lines THEN f ELSE Rewritten(ValidLines(f.lines))

\* _append_record_locked and _maybe_compact_locked: the line for m is appended
\* to f, which holds n records, and the file may then be compacted, or fail to.
Journal(f, n, m) ==
  \/ /\ n + 1 >= MaxRecords
     /\ file' = Rewritten(<<m>>) /\ records' = 1
     /\ UNCHANGED faults
  \/ /\ file' = Appended(f, m) /\ records' = n + 1
     /\ IF n + 1 < MaxRecords THEN UNCHANGED faults
        ELSE faults < MaxFaults /\ faults' = faults + 1

Glues(f) == glued' = (glued \/ ~f.ended)

\* A step of the broker that writes nothing.
Unrecorded(next) ==
  /\ store' = next
  /\ UNCHANGED <<records, up, stopping, file, checkpoint, drifted, told, glued, crashes,
                faults>>

\* The append raises: memory has changed, the caller gets an error.
AppendRaises(f, next) ==
  /\ faults < MaxFaults /\ faults' = faults + 1
  /\ store' = next /\ up' = TRUE
  /\ file' \in Raised(f, next.tasks) /\ glued' = (glued \/ (~f.ended /\ file' # f))
  /\ UNCHANGED <<stopping, checkpoint, told, crashes>>

\* The broker dies; what it left of the journal is one of files.
Dies(files) ==
  /\ crashes < MaxCrashes /\ crashes' = crashes + 1
  /\ store' = Stopped /\ records' = 0 /\ up' = FALSE /\ stopping' = FALSE
  /\ file' \in files
  /\ UNCHANGED <<checkpoint, told, faults>>

\* Mutant of Recorded: the checkpoint is written before the journal.
RecordedLate(next, ack, entries) ==
  \/ /\ Journal(file, records, next.tasks) /\ Glues(file)
     /\ store' = next /\ told' = ack /\ checkpoint' = entries
     /\ UNCHANGED <<up, stopping, crashes>>
  \/ /\ crashes < MaxCrashes /\ crashes' = crashes + 1
     /\ store' = Stopped /\ records' = 0 /\ up' = FALSE /\ stopping' = FALSE
     /\ checkpoint' = entries
     /\ UNCHANGED <<file, told, glued, faults>>

\* Mutant of Recorded: the caller is answered before the append.
RecordedAnswered(next, ack, entries) ==
  \/ /\ Journal(file, records, next.tasks) /\ Glues(file)
     /\ store' = next /\ told' = ack /\ checkpoint' = entries
     /\ UNCHANGED <<up, stopping, crashes>>
  \/ /\ AppendRaises(file, next) /\ UNCHANGED records
  \/ /\ crashes < MaxCrashes /\ crashes' = crashes + 1
     /\ store' = Stopped /\ records' = 0 /\ up' = FALSE
     /\ stopping' = FALSE /\ told' = ack
     /\ UNCHANGED <<file, checkpoint, glued, faults>>

\* _safe_record_lease swallows a failure to write the checkpoint.
Saved(entries) == {entries} \cup (IF faults < MaxFaults THEN {checkpoint} ELSE {})

\* _recorded and the service around it: memory becomes next, the journal gets
\* its line, the checkpoint its entries, and the caller is told.
Recorded(next, ack, entries) ==
  \/ /\ Journal(file, records, next.tasks) /\ Glues(file)
     /\ store' = next /\ told' = ack
     /\ checkpoint' \in Saved(entries)
     /\ UNCHANGED <<up, stopping, crashes>>
  \/ AppendRaises(file, next) /\ UNCHANGED records
  \/ /\ Dies(Raised(file, next.tasks))
     /\ glued' = (glued \/ (~file.ended /\ file' # file))

-----------------------------------------------------------------------------
(* Memory *)

Busy(r) == r.msg \in BusyMessageStatus

Moved(r, status) ==
  LET job == TransitionTo(r.job, status) IN
  [msg |-> status, job |-> job,
   lease |-> IF job \in CanonicalTerminal THEN 0 ELSE r.lease]

\* Mutant of Swept: only messages that were delivered time out.
SweptHandedOut ==
  [t \in Tasks |-> IF t \in due /\ store.tasks[t].msg \in {"DELIVERED", "RUNNING"}
                   THEN Moved(store.tasks[t], "TIMEOUT") ELSE store.tasks[t]]

\* Nearly every operation starts with the sweep of timed out messages.
Swept ==
  [t \in Tasks |-> IF t \in due /\ Busy(store.tasks[t])
                   THEN Moved(store.tasks[t], "TIMEOUT") ELSE store.tasks[t]]
With(t, r) == [store EXCEPT !.tasks = [Swept EXCEPT ![t] = r]]
Told(t, r) == [told EXCEPT ![t] = r]

\* A mutation that leaves the checkpoint and what was told alone, but for t.
RecordedOnly(next, ack) == Recorded(next, ack, checkpoint)

-----------------------------------------------------------------------------
(* The checkpoint *)

Order(e) == <<e.epoch, IF e.status = "recently_settled" THEN 1 ELSE 0>>
NotOlder(e, f) ==
  e.epoch > f.epoch \/ (e.epoch = f.epoch /\ Order(e)[2] >= Order(f)[2])

\* _upsert_lease: an older entry does not replace a later one.
Upserted(t, e) ==
  IF checkpoint[t] = NoEntry \/ NotOlder(e, checkpoint[t])
  THEN [checkpoint EXCEPT ![t] = e] ELSE checkpoint

InFlight(t, epoch) == Upserted(t, [epoch |-> epoch, status |-> "in_flight"])

\* record_recently_settled: without a lease it keeps that of a prior entry.
Settled(t, epoch) ==
  LET known == IF epoch > 0 THEN epoch
               ELSE IF checkpoint[t].status = "in_flight" THEN checkpoint[t].epoch
               ELSE 0
  IN IF known = 0 THEN checkpoint
     ELSE Upserted(t, [epoch |-> known, status |-> "recently_settled"])

-----------------------------------------------------------------------------
(* Operations *)

Enqueue(t) ==
  /\ up /\ told[t] = Absent /\ store.tasks[t] = Absent
  /\ LET r == [msg |-> "QUEUED", job |-> TransitionTo("CREATED", "QUEUED"), lease |-> 0]
     IN RecordedOnly([With(t, r) EXCEPT !.inbox = @ \cup {t}], Told(t, r))
  /\ UNCHANGED <<due, drifted>>

\* get_next_message pops outside the lock...
PollTake(t) ==
  /\ up /\ t \in store.inbox
  /\ Unrecorded([store EXCEPT !.inbox = @ \ {t}, !.hand = @ \cup {t}])
  /\ UNCHANGED due

\* ...and retakes it to deliver: the session may have changed hands, the message
\* may be over, or its job, restored while it ran, cannot be delivered again.
\* None of this is recorded, nor is the sweep before it.
PollFails(t) ==
  /\ up /\ t \in store.hand
  /\ LET r == Swept[t] IN
     \/ Unrecorded([With(t, r) EXCEPT !.hand = @ \ {t}])
     \/ /\ Busy(r) /\ TransitionRaises(r.job, "DELIVERED")
        /\ Unrecorded([With(t, [r EXCEPT !.msg = "DELIVERED"]) EXCEPT !.hand = @ \ {t}])
  /\ UNCHANGED due

PollDeliver(t) ==
  /\ up /\ t \in store.hand
  /\ LET r == Moved(Swept[t], "DELIVERED")
         leased == [r EXCEPT !.lease = IF @ = 0 THEN 1 ELSE @]
     IN /\ Busy(Swept[t]) /\ ~TransitionRaises(Swept[t].job, "DELIVERED")
        /\ Recorded([With(t, leased) EXCEPT !.hand = @ \ {t}], Told(t, leased),
                    InFlight(t, leased.lease))
  /\ UNCHANGED <<due, drifted>>

\* A worker has the task once it was told of the delivery.
HasTask(t) == told[t].lease > 0

\* update_message_status of a message that is not over.
StartRunning(t) ==
  /\ up /\ HasTask(t) /\ Busy(Swept[t])
  /\ LET r == Moved(Swept[t], "RUNNING") IN
     RecordedOnly(With(t, r), Told(t, [r EXCEPT !.lease = told[t].lease]))
  /\ UNCHANGED <<due, drifted>>

\* save_reply: fenced by the lease if the job has one.
Reply(t) ==
  /\ up /\ HasTask(t) /\ Busy(Swept[t]) /\ Swept[t].lease \in {0, told[t].lease}
  /\ LET r == Moved(Swept[t], "DONE") IN
     Recorded(With(t, r), Told(t, r), Settled(t, told[t].lease))
  /\ UNCHANGED <<due, drifted>>

CancelWork(t) ==
  /\ up /\ told[t] # Absent /\ Busy(Swept[t])
  /\ LET r == Moved(Swept[t], "CANCELLED") IN
     Recorded(With(t, r), Told(t, r), Settled(t, 0))
  /\ UNCHANGED <<due, drifted>>

HeartbeatJob(t) ==
  /\ up /\ HasTask(t) /\ Swept[t].lease = told[t].lease
  /\ Recorded([store EXCEPT !.tasks = Swept], told, InFlight(t, told[t].lease))
  /\ UNCHANGED <<due, drifted>>

\* reclaim_job, once the lease has lapsed.
ReclaimJob(t) ==
  /\ up /\ Swept[t].lease \in 1..(MaxEpoch - 1)
  /\ LET r == [Swept[t] EXCEPT !.job = "RUNNING", !.lease = @ + 1] IN
     Recorded(With(t, r), Told(t, r), InFlight(t, r.lease))
  /\ UNCHANGED <<due, drifted>>

\* Any other mutation, as the heartbeat of a session, records what it finds.
OtherMutation ==
  /\ up
  /\ RecordedOnly([store EXCEPT !.tasks = Swept], told)
  /\ UNCHANGED <<due, drifted>>

\* Reads are recorded only if their sweep found something.
RecordedRead ==
  /\ up /\ Swept # store.tasks
  /\ RecordedOnly([store EXCEPT !.tasks = Swept], told)
  /\ UNCHANGED <<due, drifted>>

\* The first section of a poll or of wait_for_reply, and a call that raises,
\* sweep and do not record it.
SweepUnrecorded ==
  /\ up /\ Swept # store.tasks
  /\ Unrecorded([store EXCEPT !.tasks = Swept])
  /\ UNCHANGED due

PassTime(t) ==
  /\ t \notin due /\ (told[t] # Absent \/ store.tasks[t] # Absent)
  /\ due' = due \cup {t}
  /\ UNCHANGED <<store, records, up, stopping, file, checkpoint, drifted, told, glued,
                crashes, faults>>

Crash == up /\ Dies({file}) /\ UNCHANGED <<due, drifted, glued>>

\* can_auto_stop: no job is active; whether a session is, is left open.  What its
\* sweep finds is recorded as for any read.
CanAutoStop == Swept = store.tasks /\ \A t \in Tasks : ~Busy(store.tasks[t])

\* maybe_schedule_auto_stop: between its last look and the end of the process
\* requests are still served.
StopSoon ==
  /\ up /\ ~stopping /\ CanAutoStop /\ stopping' = TRUE
  /\ UNCHANGED <<store, records, up, file, checkpoint, drifted, due, told, glued, crashes,
                faults>>

\* The signal ends the process between two requests.
Stop ==
  /\ up /\ stopping /\ store' = Stopped /\ records' = 0
  /\ up' = FALSE /\ stopping' = FALSE
  /\ UNCHANGED <<file, checkpoint, drifted, due, told, glued, crashes, faults>>

\* _restore_snapshot: whatever is not over is queued again.
Restored(m) == [tasks |-> m, inbox |-> {t \in Tasks : Busy(m[t])}, hand |-> {}]

\* reconcile_checkpoint: prior entries in flight against the restored leases.
DriftOf(t, m) ==
  IF checkpoint[t].status # "in_flight" \/ m[t].lease = checkpoint[t].epoch THEN "none"
  ELSE IF m[t].lease = 0 THEN "missing_after_restart" ELSE "epoch_changed"

\* append_checkpoint_drifts: a record, with drifts or without, that is appended
\* before the broker serves; if that raises it serves all the same.
Reconciled(f, n, m) ==
  \/ /\ Journal(f, n, m) /\ Glues(f)
     /\ store' = Restored(m) /\ up' = TRUE
     /\ UNCHANGED <<stopping, checkpoint, told, crashes>>
  \/ AppendRaises(f, Restored(m)) /\ records' = n
  \/ /\ Dies(Raised(f, m) \cup {file})
     /\ glued' = (glued \/ (~f.ended /\ file' \notin {f, file}))

\* The constructor loads and repairs the journal, the start of the service
\* reconciles the checkpoint with it.
Reconcile ==
  /\ drifted' = [t \in Tasks |-> DriftOf(t, Recoverable(file))]
  /\ Reconciled(Repaired(file), Len(ValidLines(file.lines)), Recoverable(file))
  /\ UNCHANGED due

\* A supervisor or a command that finds no broker starts one and waits for it.
Restart == ~up /\ Reconcile

TaskStep(t) ==
  \/ Enqueue(t) \/ PollTake(t) \/ PollFails(t) \/ PollDeliver(t)
  \/ StartRunning(t) \/ Reply(t) \/ CancelWork(t) \/ HeartbeatJob(t) \/ ReclaimJob(t)
  \/ PassTime(t)
Next == (\E t \in Tasks : TaskStep(t)) \/ OtherMutation \/ RecordedRead \/ SweepUnrecorded
        \/ Crash \/ StopSoon \/ Stop \/ Restart

Spec == Init /\ [][Next]_vars

\* A supervisor starts a broker that is down, and time passes.  Sessions go on
\* sending heartbeats, each of which is a mutation, and a broker stops itself only
\* after one has ended, which is a mutation too: it is for SF that a life of the
\* broker has one.
FairSpec ==
  /\ Spec
  /\ WF_vars(Restart) /\ SF_vars(OtherMutation)
  /\ \A t \in Tasks : WF_vars(PassTime(t))

-----------------------------------------------------------------------------
(* Properties *)

Rank(job) ==
  CASE job = "NONE" -> 0 [] job = "QUEUED" -> 1 [] job = "DELIVERED" -> 2
    [] job = "RUNNING" -> 3 [] OTHER -> 4

\* The task has come at least as far in r as in s, and no lease was taken back.
AtLeast(r, s) ==
  /\ Rank(r.job) >= Rank(s.job)
  /\ s.job \in CanonicalTerminal => r.job = s.job
  /\ r.job \in CanonicalTerminal \/ r.lease >= s.lease

\* Whatever a client was told survives a crash at any moment, unless the journal
\* was appended to a line without an end (jsonl.py:507).
Durable == ~glued => \A t \in Tasks : AtLeast(Recoverable(file)[t], told[t])

\* A restart reports a drift only of a task that is over or was reclaimed: the
\* lease it compares with has not been lost (checkpoint.py:257).
DriftedIsNotLost ==
  ~glued => \A t \in Tasks :
    LET r == Recoverable(file)[t] IN
    /\ drifted[t] = "missing_after_restart" => r.job \in CanonicalTerminal
    /\ drifted[t] = "epoch_changed" =>
         r.lease > 1 \/ r.job \in CanonicalTerminal

\* The checkpoint never tells of a lease or a settlement that the journal would
\* not restore: it is always the later of the two writes (service.py:139).
NeverAhead ==
  ~glued => \A t \in Tasks :
    LET r == Recoverable(file)[t] IN
    /\ checkpoint[t].status = "in_flight" =>
         r.lease >= checkpoint[t].epoch \/ r.job \in CanonicalTerminal
    /\ checkpoint[t].status = "recently_settled" => r.job \in CanonicalTerminal

\* What an operator reads in the checkpoint after a crash is never ahead of the
\* journal, so a drift means that the work has moved on (service.py:399).
CheckpointBehindJournal == TypeOK /\ NeverAhead /\ DriftedIsNotLost

\* Over crashes and failing writes, every task comes to an end that the journal
\* remembers, although most sweeps are not recorded (jsonl.py:717).
EveryTaskEnds == \A t \in Tasks : <>[](~Busy(Recoverable(file)[t]))
=============================================================================
