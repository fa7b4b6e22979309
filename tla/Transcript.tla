----------------------------- MODULE Transcript -----------------------------
(***************************************************************************)
(* The transcript and the telemetry of one task: what its worker publishes *)
(* (connector/pi_extension_worker.py), what the broker keeps of it in      *)
(* memory and in a journal of its own (memory_transcript_store.py,         *)
(* memory_telemetry_store.py, jsonl.py), and a reader in the lead's        *)
(* terminal (connector/pi_extension_ui.py): the view that follows a worker *)
(* or the tool that waits for a delegated task.                            *)
(*                                                                         *)
(* Nobody waits for the answer to what it publishes, so posts overtake one *)
(* another, get lost, and come late: after the task, or from a holder that *)
(* has lost its lease.  One that is lost is one that never comes.  The     *)
(* broker keeps the last events only, and a reader, which fetches a page   *)
(* at a time, must learn what it has missed.  A flushed buffer is one      *)
(* event, and texts are numbers.                                           *)
(***************************************************************************)
EXTENDS Naturals, Sequences, SequencesExt, FiniteSetsExt

CONSTANTS
  MaxTexts,    \* texts and reports published in all, a bound of the model only
  MaxPosts,    \* of which are on their way at a time, a bound of the model only
  MaxEpoch,    \* epochs of the job lease, a bound of the model only
  Keep,        \* MAX_TRANSCRIPT_EVENTS_PER_TASK
  Page,        \* the limit of a read
  MaxFaults,   \* failing requests and writes, a bound of the model only
  MaxCrashes   \* deaths of the broker, a bound of the model only

ASSUME TranscriptConstantsOK ==
  /\ MaxTexts \in Nat /\ MaxPosts \in Nat /\ MaxEpoch \in Nat \ {0} /\ Keep \in Nat \ {0}
  /\ Page \in Nat \ {0} /\ MaxFaults \in Nat /\ MaxCrashes \in Nat

VARIABLES
  job,        \* the task's job: "live" or "over"
  lease,      \* the epoch of its lease
  batch,      \* transcriptBatchId of the holder of each epoch
  texts,      \* texts and reports published so far, of which texts have the numbers
  posts,      \* batches on their way, one event each
  telemetry,  \* the epoch of the record kept, 0 for none
  store,      \* the transcript in the broker's memory
  file,       \* the one that its journal restores
  torn,       \* whether the journal ends in a line cut short
  reader,     \* the view or the tool
  faults, crashes,
  regressed   \* ghost: a restart has lost something of the transcript

publishVars == <<batch, texts, posts>>
brokerVars == <<job, lease, telemetry>>
storeVars == <<store, file, torn>>
vars == <<publishVars, brokerVars, storeVars, reader, faults, crashes, regressed>>

Epochs == 1..MaxEpoch
Texts == 1..MaxTexts
Event == [seq : Texts, text : Texts]
Batch == [epoch : Epochs, id : Texts, text : Texts]
Transcripts == [events : Seq(Event), next : Nat, seen : SUBSET Texts, before : Nat]
NoTranscript == [events |-> <<>>, next |-> 1, seen |-> {}, before |-> 0]
Telemetry == 0..MaxEpoch
NoAnswer == [events |-> <<>>, marker |-> 0]

TypeOK ==
  /\ job \in {"live", "over"} /\ lease \in Epochs
  /\ batch \in [Epochs -> 0..MaxTexts] /\ texts \in 0..MaxTexts
  /\ posts \subseteq Batch /\ telemetry \in Telemetry
  /\ store \in Transcripts /\ file \in Transcripts /\ torn \in BOOLEAN
  /\ reader.kind \in {"follow", "delegate"} /\ reader.open \in BOOLEAN
  /\ reader.at \in {"idle", "asking", "answered"}
  /\ reader.ended \in {"unread", "no", "yes"}
  /\ faults \in 0..MaxFaults /\ crashes \in 0..MaxCrashes /\ regressed \in BOOLEAN

Init ==
  /\ job = "live" /\ lease = 1
  /\ batch = [e \in Epochs |-> 0] /\ texts = 0 /\ posts = {} /\ telemetry = 0
  /\ store = NoTranscript /\ file = NoTranscript /\ torn = FALSE
  /\ \E kind \in {"follow", "delegate"} :
       reader = [kind |-> kind, open |-> FALSE, at |-> "idle", cursor |-> 0,
                 marked |-> 0, shown |-> <<>>, answer |-> NoAnswer, ended |-> "unread"]
  /\ faults = 0 /\ crashes = 0 /\ regressed = FALSE

Fails == faults < MaxFaults /\ faults' = faults + 1

-----------------------------------------------------------------------------
(* The worker *)

\* The input event: a task that the broker hands out once more, after its death,
\* has its batches numbered from one again, as a new holder has.
Accept(e) ==
  /\ job = "live" /\ e = lease /\ crashes > 0 /\ batch' = [batch EXCEPT ![e] = 0]
  /\ UNCHANGED <<texts, posts, brokerVars, storeVars, reader, faults, crashes, regressed>>

\* flushTranscriptBuffer, finalizeTranscript; a holder goes on for a while when
\* its lease or its task has ended.
Publish(e) ==
  /\ e <= lease /\ texts < MaxTexts /\ Cardinality(posts) < MaxPosts
  /\ texts' = texts + 1 /\ batch' = [batch EXCEPT ![e] = @ + 1]
  /\ posts' = posts \cup {[epoch |-> e, id |-> batch[e] + 1, text |-> texts + 1]}
  /\ UNCHANGED <<brokerVars, storeVars, reader, faults, crashes, regressed>>

-----------------------------------------------------------------------------
(* The broker *)

\* A reply, or whatever else settles the work.
Finish ==
  /\ job = "live" /\ job' = "over"
  /\ UNCHANGED <<lease, telemetry, publishVars, storeVars, reader, faults, crashes, regressed>>

Reclaim ==
  /\ job = "live" /\ lease < MaxEpoch /\ lease' = lease + 1
  /\ UNCHANGED <<job, telemetry, publishVars, storeVars, reader, faults, crashes, regressed>>

\* A finished job has no lease, and takes nothing from anyone.
Fenced(e) == job = "over" \/ e # lease

\* Mutant of Retained: events are dropped without a trace.
RetainedSilently(s) ==
  IF Len(s.events) <= Keep THEN s ELSE [s EXCEPT !.events = Tail(@)]

\* _drop_oldest_events.
Retained(s) ==
  IF Len(s.events) <= Keep THEN s
  ELSE [events |-> Tail(s.events), next |-> s.next, seen |-> s.seen,
        before |-> Head(s.events).seq + 1]

Appended(s, b) ==
  Retained([events |-> Append(s.events, [seq |-> s.next, text |-> b.text]),
            next |-> s.next + 1, seen |-> s.seen \cup {b.id}, before |-> s.before])

\* atomic_append_jsonl_line of the whole transcript: a line after one cut short
\* is read with it, as neither; a write that fails may leave one cut short.
Journal(s) ==
  \/ /\ file' = IF torn THEN file ELSE s
     /\ torn' = FALSE /\ UNCHANGED faults
  \/ Fails /\ torn' \in {torn, TRUE} /\ UNCHANGED file

\* Requests come in any order, and none of them twice.
Arrives(b) == b \in posts /\ posts' = posts \ {b}

\* append_transcript_batch_locked: memory first.
AppendBatch(b) ==
  /\ Arrives(b)
  /\ IF Fenced(b.epoch) \/ b.id \in store.seen THEN UNCHANGED <<storeVars, faults>>
     ELSE store' = Appended(store, b) /\ Journal(store')
  /\ UNCHANGED <<brokerVars, batch, texts, reader, crashes, regressed>>

TelemetryIdle ==
  UNCHANGED <<job, lease, batch, posts, storeVars, reader, faults, crashes, regressed>>

\* postCurrentTelemetry of a holder, as late as it may be.
Reports(e) == e <= lease /\ texts < MaxTexts /\ texts' = texts + 1

\* Mutant of RecordTelemetry: the lease is not compared.
RecordTelemetryOfAnyone(e) ==
  /\ Reports(e) /\ telemetry' = IF job = "over" THEN telemetry ELSE e
  /\ TelemetryIdle

\* record_telemetry_locked; the record is part of the broker's own journal.
RecordTelemetry(e) ==
  /\ Reports(e) /\ telemetry' = IF Fenced(e) THEN telemetry ELSE e
  /\ TelemetryIdle

\* _maybe_compact_transcript_locked.
Compact ==
  /\ file' = store /\ torn' = FALSE
  /\ UNCHANGED <<store, publishVars, brokerVars, reader, faults, crashes, regressed>>

\* The broker dies and loads its journals again.
Restart ==
  /\ crashes < MaxCrashes /\ crashes' = crashes + 1
  /\ store' = file /\ regressed' = (regressed \/ file # store)
  /\ UNCHANGED <<file, torn, publishVars, brokerVars, reader, faults>>

-----------------------------------------------------------------------------
(* The reader *)

Reading == UNCHANGED <<publishVars, brokerVars, storeVars, crashes, regressed>>

Polling(r) == [r EXCEPT !.at = "asking", !.answer = NoAnswer,
                        !.ended = IF r.kind = "delegate" THEN "unread" ELSE "no"]

\* enterFollow, runPoll; a delegated task is waited for once.
Open ==
  /\ ~reader.open /\ (reader.kind = "delegate" => reader.cursor = 0 /\ reader.ended = "unread")
  /\ reader' = Polling([reader EXCEPT !.open = TRUE])
  /\ UNCHANGED faults /\ Reading

\* abortActive: an answer that still comes is dropped; or the tool detaches.
Close ==
  /\ reader.open
  /\ reader' = [reader EXCEPT !.open = FALSE, !.at = "idle", !.answer = NoAnswer]
  /\ UNCHANGED faults /\ Reading

\* The events numbered after a cursor.  They are the end of q, in a transcript
\* (Gapless) as in an answer, since numbers ascend.
Later(q, cursor) ==
  SubSeq(q, 1 + Cardinality({i \in DOMAIN q : q[i].seq <= cursor}), Len(q))

\* Mutant of Selected: the newest page.
SelectedNewest(s, after) ==
  LET later == Later(s.events, after)
  IN SubSeq(later, 1 + Max({0, Len(later) - Page}), Len(later))

Selected(s, after) ==
  LET later == Later(s.events, after)
  IN IF Len(later) <= Page THEN later ELSE SubSeq(later, 1, Page)

\* read_transcript_events_locked, at once or when woken or out of time.
Read ==
  /\ reader.at = "asking"
  /\ reader' = [reader EXCEPT !.at = "answered", !.answer =
       [events |-> Selected(store, reader.cursor),
        marker |-> IF reader.cursor < store.before THEN store.before ELSE 0]]
  /\ UNCHANGED faults /\ Reading

\* refreshDelegateSnapshot asks for the task's status beside the transcript.
ReadStatus ==
  /\ reader.open /\ reader.ended = "unread"
  /\ reader' = [reader EXCEPT !.ended = IF job = "over" THEN "yes" ELSE "no"]
  /\ UNCHANGED faults /\ Reading

\* Mutant of ReadFails: an error ends the poll.
ReadFailsForGood ==
  /\ reader.at = "answered" /\ Fails
  /\ reader' = [reader EXCEPT !.at = "idle"]
  /\ Reading

\* An answer that is an error or lost: the reader asks again.
ReadFails ==
  /\ reader.at = "answered" /\ Fails
  /\ reader' = Polling(reader)
  /\ Reading

\* The cursor is that of the last event, which a marker is not.
CursorAfter(r) ==
  IF r.answer.events = <<>> THEN r.cursor ELSE Max({r.cursor, Last(r.answer.events).seq})

\* The view repeats a marker that reaches further; the tool shows the words once.
MarkedAfter(r) ==
  IF r.kind = "delegate" /\ r.marked # 0 THEN r.marked ELSE Max({r.marked, r.answer.marker})

\* What runPoll and refreshDelegateSnapshot make of an answer.
Take ==
  /\ reader.at = "answered" /\ reader.ended # "unread"
  /\ LET shown == Later(reader.answer.events, reader.cursor)
         seen == [reader EXCEPT !.shown = @ \o shown, !.cursor = CursorAfter(reader),
                                !.marked = MarkedAfter(reader)]
     IN reader' = IF reader.ended = "yes"
                  THEN [seen EXCEPT !.open = FALSE, !.at = "idle", !.answer = NoAnswer]
                  ELSE Polling(seen)
  /\ UNCHANGED faults /\ Reading

-----------------------------------------------------------------------------
Next ==
  \/ \E e \in Epochs : Accept(e) \/ Publish(e) \/ RecordTelemetry(e)
  \/ \E b \in posts : AppendBatch(b)
  \/ Finish \/ Reclaim \/ Compact \/ Restart
  \/ Open \/ Close \/ Read \/ ReadStatus \/ ReadFails \/ Take

Spec == Init /\ [][Next]_vars

\* The reader's requests are answered in the end, by a timeout if by nothing
\* else, and it goes on; nobody need publish, append or open anything.
FairSpec == Spec /\ WF_vars(Read) /\ WF_vars(ReadStatus) /\ WF_vars(Take)

-----------------------------------------------------------------------------
(* Properties *)

\* What is kept is the end of what was published, without a gap, and what lies
\* before it is known to be missing (memory_transcript_store.py:62).
Gapless(s) ==
  /\ s.next = Max({s.before, 1}) + Len(s.events)
  /\ \A i \in DOMAIN s.events : s.events[i].seq = s.next - Len(s.events) + i - 1
  /\ \A i, j \in DOMAIN s.events : s.events[i].text = s.events[j].text => i = j

\* The transcript has no gap of its own, in memory and after any crash, and what
\* a journal restores is the whole of it unless a write has failed.
StoreGapless ==
  /\ TypeOK /\ Gapless(store) /\ Gapless(file)
  /\ faults = 0 => file = store

\* That q may be missing: a view says so of all that a marker precedes, the tool
\* of whatever it shows.
ToldMissing(q) == IF reader.kind = "follow" THEN q < reader.marked ELSE reader.marked # 0

\* A reader has seen what its cursor has passed, or has been told that it has
\* not: pages, retention, markers, its own retries and the broker's crashes
\* leave no gap that nobody notices, unless a restart has lost events, whose
\* numbers are then used again (pi_extension_ui.py:848).
NoSilentGap ==
  /\ reader.cursor \in Nat /\ reader.marked \in Nat /\ reader.shown \in Seq(Event)
  /\ regressed \/
    /\ \A q \in 1..reader.cursor :
         ToldMissing(q) \/ \E i \in DOMAIN reader.shown : reader.shown[i].seq = q
    /\ \A i \in DOMAIN store.events :
         store.events[i].seq <= reader.cursor => store.events[i] \in ToSet(reader.shown)
    /\ \A i, j \in DOMAIN reader.shown : i < j => reader.shown[i].seq < reader.shown[j].seq

\* As long as it is open, a view comes to every event, or past it
\* (memory_transcript_store.py:245).
KeepsUp ==
  \A q \in Texts :
    (reader.open /\ store.next > q) ~> (~reader.open \/ reader.cursor >= q \/ regressed)

\* A record of telemetry is never replaced by one from before the job changed
\* hands, and stays when the job is over (memory_telemetry_store.py:157).
TelemetryFollowsLease ==
  [][telemetry' # telemetry => telemetry' > telemetry /\ telemetry' = lease /\ job = "live"]_vars
=============================================================================
