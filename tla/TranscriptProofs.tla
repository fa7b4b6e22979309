-------------------------- MODULE TranscriptProofs --------------------------
(***************************************************************************)
(* Proofs about Transcript for any number of texts, epochs and faults, any *)
(* retention and any page: telemetry follows the lease of the job, and the *)
(* transcript is without gaps in memory and on file.                       *)
(***************************************************************************)
EXTENDS Transcript, FiniteSetTheorems, SequenceTheorems, TLAPS

USE TranscriptConstantsOK DEF Epochs, Texts

-----------------------------------------------------------------------------
(* Telemetry *)

\* What the broker keeps of telemetry is not from after the current lease.
TelemetryOK ==
  /\ job \in {"live", "over"} /\ lease \in Epochs
  /\ telemetry \in Telemetry /\ telemetry <= lease

LEMMA TelemetryStep ==
  TelemetryOK /\ [Next]_vars =>
    /\ TelemetryOK'
    /\ telemetry' # telemetry => telemetry' > telemetry /\ telemetry' = lease /\ job = "live"
<1> SUFFICES ASSUME TelemetryOK, [Next]_vars
             PROVE  /\ TelemetryOK'
                    /\ telemetry' # telemetry =>
                         telemetry' > telemetry /\ telemetry' = lease /\ job = "live"
  OBVIOUS
<1> USE DEF TelemetryOK, Telemetry
<1>1. ASSUME NEW e \in Epochs, RecordTelemetry(e)
      PROVE  /\ UNCHANGED <<job, lease>>
             /\ telemetry' = telemetry \/ (telemetry' = e /\ e = lease /\ job = "live")
  BY <1>1 DEF RecordTelemetry, TelemetryIdle, Fenced
<1>2. ASSUME NEW e \in Epochs, Accept(e) \/ Publish(e) PROVE UNCHANGED brokerVars
  BY <1>2 DEF Accept, Publish, brokerVars
<1>3. ASSUME NEW b \in posts, AppendBatch(b) PROVE UNCHANGED brokerVars
  BY <1>3 DEF AppendBatch, brokerVars
<1>4. ASSUME Finish \/ Reclaim
      PROVE  telemetry' = telemetry /\ lease' \in {lease, lease + 1} \cap Epochs
             /\ job' \in {"live", "over"}
  BY <1>4 DEF Finish, Reclaim
<1>5. ASSUME Compact \/ Restart \/ Open \/ Close \/ Read \/ ReadStatus \/ ReadFails \/ Take
      PROVE  UNCHANGED brokerVars
  BY <1>5 DEF Compact, Restart, Open, Close, Read, ReadStatus, ReadFails, Take, Reading, brokerVars
<1>6. CASE UNCHANGED brokerVars
  BY <1>6 DEF brokerVars
<1>7. CASE UNCHANGED vars
  BY <1>6, <1>7 DEF vars
<1>8. CASE Finish \/ Reclaim
  BY <1>4, <1>8
<1>9. ASSUME NEW e \in Epochs, RecordTelemetry(e)
      PROVE  /\ TelemetryOK'
             /\ telemetry' # telemetry => telemetry' > telemetry /\ telemetry' = lease /\ job = "live"
  BY <1>1, <1>9
<1> QED
  BY <1>2, <1>3, <1>5, <1>6, <1>7, <1>8, <1>9 DEF Next

\* Whatever arrives late, out of order or from a holder that lost its lease, the
\* telemetry of a task is replaced by the current holder's only
\* (memory_telemetry_store.py:157).
THEOREM TelemetryIsCurrent == Spec => TelemetryFollowsLease
<1>1. Init => TelemetryOK
  BY DEF Init, TelemetryOK, Telemetry
<1>2. TelemetryOK /\ [Next]_vars =>
        [telemetry' # telemetry => telemetry' > telemetry /\ telemetry' = lease /\ job = "live"]_vars
  BY TelemetryStep
<1>3. TelemetryOK /\ [Next]_vars => TelemetryOK'
  BY TelemetryStep
<1> QED
  BY <1>1, <1>2, <1>3, PTL DEF Spec, TelemetryFollowsLease

-----------------------------------------------------------------------------
(* The transcript *)

\* The text of a batch on its way is stored nowhere, and no two carry the same.
TextsApart(s) ==
  \A i \in 1..Len(s.events) :
    s.events[i].text <= texts /\ \A b \in posts : s.events[i].text # b.text

\* There are at least as many texts as events were numbered and are on their way.
Counted ==
  /\ IsFiniteSet(posts)
  /\ store.next + Cardinality(posts) <= texts + 1 /\ file.next + Cardinality(posts) <= texts + 1
  /\ \A b \in posts : b.text <= texts
  /\ \A a, b \in posts : a.text = b.text => a = b
  /\ \A e \in Epochs : batch[e] <= texts

\* The fields of the reader.
ReaderFields ==
  DOMAIN reader = {"kind", "open", "at", "cursor", "marked", "shown", "answer", "ended"}

StoreOK ==
  /\ TypeOK /\ ReaderFields
  /\ Gapless(store) /\ Gapless(file)
  /\ TextsApart(store) /\ TextsApart(file)
  /\ Counted
  /\ faults = 0 => file = store /\ ~torn

LEMMA MaxOfOne ==
  ASSUME NEW a \in Nat
  PROVE  Max({a, 1}) = IF a >= 1 THEN a ELSE 1
<1> DEFINE m == IF a >= 1 THEN a ELSE 1
<1>1. m \in {a, 1} /\ m >= a /\ m >= 1 /\ m \in Nat
  OBVIOUS
<1> HIDE DEF m
<1>2. ASSUME NEW x \in {a, 1}, \A y \in {a, 1} : x >= y PROVE x = m
  <2>1. x >= a /\ x >= 1 /\ x \in Nat
    BY <1>2
  <2>2. x >= m
    BY <1>1, <1>2
  <2>3. m >= x
    BY <1>1, <1>2
  <2>4. x \in Nat /\ m \in Nat
    BY <1>1, <2>1
  <2> QED
    BY <2>2, <2>3, <2>4
<1>3. \A y \in {a, 1} : m >= y
  BY <1>1
<1>4. (CHOOSE x \in {a, 1} : \A y \in {a, 1} : x >= y) = m
  BY <1>1, <1>2, <1>3
<1> QED
  BY <1>4 DEF Max, m

Numbered(q, k) == \A i \in 1..Len(q) : q[i].seq = k - Len(q) + i - 1
Distinct(q) == \A i, j \in 1..Len(q) : q[i].text = q[j].text => i = j

LEMMA GaplessMeans ==
  ASSUME NEW s \in Transcripts
  PROVE  Gapless(s) <=> /\ s.next = (IF s.before >= 1 THEN s.before ELSE 1) + Len(s.events)
                        /\ Numbered(s.events, s.next) /\ Distinct(s.events)
<1>1. DOMAIN s.events = 1..Len(s.events) /\ s.before \in Nat
  BY DEF Transcripts
<1>2. Max({s.before, 1}) = IF s.before >= 1 THEN s.before ELSE 1
  BY <1>1, MaxOfOne
<1> QED
  BY <1>1, <1>2 DEF Gapless, Numbered, Distinct

\* One event more at the end of a sequence, and one less at its head.
LEMMA AppendNumbered ==
  ASSUME NEW q \in Seq(Event), NEW k \in Nat, NEW v \in Event,
         Numbered(q, k), Distinct(q), v.seq = k, \A i \in 1..Len(q) : q[i].text # v.text
  PROVE  Numbered(Append(q, v), k + 1) /\ Distinct(Append(q, v))
<1> DEFINE p == Append(q, v)
           n == Len(q)
<1>1. n \in Nat /\ Len(p) = n + 1 /\ p[n + 1] = v /\ \A i \in 1..n : p[i] = q[i]
  OBVIOUS
<1> HIDE DEF p, n
<1>2. \A i \in 1..n : q[i].seq = k - n + i - 1 /\ q[i].text # v.text
  BY DEF Numbered, n
<1>3. \A i, j \in 1..n : q[i].text = q[j].text => i = j
  BY DEF Distinct, n
<1>4. ASSUME NEW i \in 1..(n + 1) PROVE p[i].seq = (k + 1) - (n + 1) + i - 1
  <2>1. CASE i \in 1..n
    <3>1. p[i].seq = k - n + i - 1
      BY <1>1, <1>2, <2>1
    <3>2. k - n + i - 1 = (k + 1) - (n + 1) + i - 1
      BY <1>1
    <3> QED
      BY <3>1, <3>2
  <2>2. CASE i = n + 1
    BY <1>1, <2>2
  <2> QED
    BY <1>1, <2>1, <2>2
<1>5. ASSUME NEW i \in 1..(n + 1), NEW j \in 1..(n + 1), p[i].text = p[j].text PROVE i = j
  <2>1. CASE i \in 1..n /\ j \in 1..n
    BY <1>1, <1>3, <1>5, <2>1
  <2>2. CASE i \in 1..n /\ j = n + 1
    BY <1>1, <1>2, <1>5, <2>2
  <2>3. CASE i = n + 1 /\ j \in 1..n
    BY <1>1, <1>2, <1>5, <2>3
  <2>4. CASE i = n + 1 /\ j = n + 1
    BY <2>4
  <2> QED
    BY <1>1, <2>1, <2>2, <2>3, <2>4
<1>6. Numbered(p, k + 1) /\ Distinct(p)
  BY <1>1, <1>4, <1>5 DEF Numbered, Distinct
<1> QED
  BY <1>6 DEF p

LEMMA TailNumbered ==
  ASSUME NEW q \in Seq(Event), q # <<>>, NEW k \in Nat, Numbered(q, k), Distinct(q)
  PROVE  /\ Tail(q) \in Seq(Event) /\ Len(Tail(q)) = Len(q) - 1 /\ Len(q) \in Nat \ {0}
         /\ Numbered(Tail(q), k) /\ Distinct(Tail(q))
         /\ Head(q) \in Event /\ Head(q).seq = k - Len(q)
         /\ \A i \in 1..Len(Tail(q)) : i + 1 \in 1..Len(q) /\ Tail(q)[i] = q[i + 1]
<1> DEFINE p == Tail(q)
           n == Len(q)
<1>1. /\ n \in Nat \ {0} /\ p \in Seq(Event) /\ Len(p) = n - 1
      /\ \A i \in 1..(n - 1) : p[i] = q[i + 1]
      /\ Head(q) = q[1] /\ q[1] \in Event
  OBVIOUS
<1> HIDE DEF p, n
<1>2. \A i \in 1..n : q[i].seq = k - n + i - 1
  BY DEF Numbered, n
<1>3. \A i, j \in 1..n : q[i].text = q[j].text => i = j
  BY DEF Distinct, n
<1>4. ASSUME NEW i \in 1..(n - 1)
      PROVE  /\ i + 1 \in 1..n /\ p[i] = q[i + 1] /\ p[i].seq = k - (n - 1) + i - 1
  <2>1. i + 1 \in 1..n /\ p[i] = q[i + 1]
    BY <1>1
  <2>2. q[i + 1].seq = k - n + (i + 1) - 1
    BY <1>2, <2>1
  <2> QED
    BY <1>1, <2>1, <2>2
<1>5. ASSUME NEW i \in 1..(n - 1), NEW j \in 1..(n - 1), p[i].text = p[j].text PROVE i = j
  <2>1. q[i + 1].text = q[j + 1].text /\ i + 1 \in 1..n /\ j + 1 \in 1..n
    BY <1>4, <1>5
  <2>2. i + 1 = j + 1
    BY <1>3, <2>1
  <2> QED
    BY <1>1, <2>2
<1>6. Numbered(p, k) /\ Distinct(p)
  BY <1>1, <1>4, <1>5 DEF Numbered, Distinct
<1>7. q[1].seq = k - n
  BY <1>1, <1>2
<1>8. Len(p) = n - 1
  BY <1>1
<1>9. \A i \in 1..Len(p) : i + 1 \in 1..n /\ p[i] = q[i + 1]
  BY <1>4, <1>8
<1> QED
  BY <1>1, <1>6, <1>7, <1>9 DEF p, n

LEMMA AppendedGapless ==
  ASSUME NEW s \in Transcripts, Gapless(s), NEW b \in Batch, s.next \in Texts,
         \A i \in 1..Len(s.events) : s.events[i].text # b.text
  PROVE  /\ Appended(s, b) \in Transcripts /\ Gapless(Appended(s, b))
         /\ Appended(s, b).next = s.next + 1
         /\ \A i \in 1..Len(Appended(s, b).events) :
              \/ Appended(s, b).events[i] = [seq |-> s.next, text |-> b.text]
              \/ \E j \in 1..Len(s.events) : Appended(s, b).events[i] = s.events[j]
<1> DEFINE v == [seq |-> s.next, text |-> b.text]
           r == [events |-> Append(s.events, v), next |-> s.next + 1,
                 seen |-> s.seen \cup {b.id}, before |-> s.before]
           n == Len(s.events)
<1>1. /\ v \in Event /\ v.seq = s.next /\ v.text = b.text /\ b.id \in Texts
      /\ s.events \in Seq(Event) /\ s.next \in Nat /\ s.before \in Nat /\ s.seen \subseteq Texts
      /\ n \in Nat
  BY DEF Event, Batch, Transcripts
<1> HIDE DEF v
<1>2. /\ r.events = Append(s.events, v) /\ r.next = s.next + 1 /\ r.before = s.before
      /\ Append(s.events, v) \in Seq(Event) /\ Len(Append(s.events, v)) = n + 1
      /\ Append(s.events, v)[n + 1] = v /\ \A i \in 1..n : Append(s.events, v)[i] = s.events[i]
  BY <1>1 DEF Transcripts
<1>3. r \in Transcripts
  BY <1>1, <1>2 DEF Transcripts
<1>4. /\ s.next = (IF s.before >= 1 THEN s.before ELSE 1) + n
      /\ Numbered(s.events, s.next) /\ Distinct(s.events)
  BY GaplessMeans
<1>5. Numbered(Append(s.events, v), s.next + 1) /\ Distinct(Append(s.events, v))
  BY <1>1, <1>4, AppendNumbered
<1>6. r.next = (IF r.before >= 1 THEN r.before ELSE 1) + (n + 1)
  <2> HIDE DEF r, n
  <2>1. s.next \in Nat /\ s.before \in Nat /\ n \in Nat
    BY <1>1
  <2>2. r.next = s.next + 1 /\ r.before = s.before
    BY <1>2
  <2>3. s.next = (IF s.before >= 1 THEN s.before ELSE 1) + n
    BY <1>4
  <2>4. CASE s.before >= 1
    BY <2>1, <2>2, <2>3, <2>4
  <2>5. CASE ~(s.before >= 1)
    BY <2>1, <2>2, <2>3, <2>5
  <2> QED
    BY <2>4, <2>5
<1>7. \A i \in 1..(n + 1) : r.events[i] = v \/ \E j \in 1..n : r.events[i] = s.events[j]
  <2> SUFFICES ASSUME NEW i \in 1..(n + 1)
               PROVE  r.events[i] = v \/ \E j \in 1..n : r.events[i] = s.events[j]
    OBVIOUS
  <2>1. CASE i \in 1..n
    BY <1>2, <2>1
  <2>2. CASE i = n + 1
    BY <1>1, <1>2, <2>2
  <2> QED
    BY <1>1, <2>1, <2>2
<1>8. Appended(s, b) = Retained(r)
  BY DEF Appended, v
<1> HIDE DEF r
<1>9. Gapless(r) /\ Len(r.events) = n + 1
  BY <1>2, <1>3, <1>5, <1>6, GaplessMeans
<1>10. CASE Len(r.events) <= Keep
  <2>1. Retained(r) = r
    BY <1>10 DEF Retained
  <2> QED
    <3>1. Appended(s, b) = r
      BY <1>8, <2>1
    <3>2. \A i \in 1..Len(r.events) : r.events[i] = v \/ \E j \in 1..n : r.events[i] = s.events[j]
      BY <1>7, <1>9
    <3> QED
      BY <1>2, <1>3, <1>9, <3>1, <3>2 DEF v
<1>11. CASE ~(Len(r.events) <= Keep)
  <2> DEFINE q == r.events
             p == Tail(q)
             w == [events |-> p, next |-> r.next, seen |-> r.seen, before |-> Head(q).seq + 1]
  <2>1. Retained(r) = w
    BY <1>11 DEF Retained
  <2>2. q \in Seq(Event) /\ q # <<>> /\ Len(q) = n + 1 /\ r.next \in Nat
    BY <1>1, <1>2, <1>9
  <2>3. /\ p \in Seq(Event) /\ Len(p) = Len(q) - 1 /\ Numbered(p, r.next) /\ Distinct(p)
        /\ Head(q).seq = r.next - Len(q)
        /\ \A i \in 1..Len(p) : i + 1 \in 1..Len(q) /\ p[i] = q[i + 1]
    <3>1. Numbered(q, r.next) /\ Distinct(q)
      BY <1>2, <1>5
    <3> HIDE DEF q
    <3> QED
      BY <2>2, <3>1, TailNumbered
  <2>4. /\ w.events = p /\ w.next = r.next /\ w.before = Head(q).seq + 1 /\ w.seen = r.seen
    BY <1>3 DEF Transcripts
  <2>5. Len(p) = n /\ w.before = s.next + 1 - n /\ s.next - n >= 1
    <3> HIDE DEF p, q, w, n
    <3>1. Len(q) = n + 1 /\ Len(p) = n /\ r.next = s.next + 1
      BY <1>1, <1>2, <2>2, <2>3
    <3>2. Head(q).seq = (s.next + 1) - (n + 1)
      BY <2>3, <3>1
    <3>3. w.before = (s.next + 1) - (n + 1) + 1
      BY <2>4, <3>2
    <3>4. s.next - n >= 1
      BY <1>1, <1>4
    <3> QED
      BY <1>1, <3>1, <3>3, <3>4
  <2>6. w.before \in Nat /\ w.next = (IF w.before >= 1 THEN w.before ELSE 1) + Len(w.events)
    <3> HIDE DEF p, q, w, n
    <3>1. w.next = s.next + 1 /\ w.before = s.next + 1 - n /\ Len(w.events) = n
      BY <1>2, <2>4, <2>5
    <3> QED
      BY <1>1, <2>5, <3>1
  <2>7. w \in Transcripts
    BY <1>3, <2>3, <2>4, <2>6 DEF Transcripts
  <2>8. \A i \in 1..Len(p) : p[i] = v \/ \E j \in 1..n : p[i] = s.events[j]
    <3> SUFFICES ASSUME NEW i \in 1..Len(p)
                 PROVE  p[i] = v \/ \E j \in 1..n : p[i] = s.events[j]
      OBVIOUS
    <3> HIDE DEF p, n
    <3>1. i + 1 \in 1..(n + 1) /\ p[i] = r.events[i + 1]
      BY <2>2, <2>3
    <3> QED
      BY <1>7, <3>1
  <2> HIDE DEF w, p, q
  <2>9. Gapless(w)
    BY <2>3, <2>4, <2>6, <2>7, GaplessMeans
  <2>10. Appended(s, b) = w
    BY <1>8, <2>1
  <2> QED
    BY <1>2, <2>4, <2>7, <2>8, <2>9, <2>10 DEF v
<1> QED
  BY <1>10, <1>11

LEMMA InitStore == Init => StoreOK
<1> SUFFICES ASSUME Init PROVE StoreOK
  OBVIOUS
<1>1. NoTranscript \in Transcripts /\ NoTranscript.next = 1 /\ Len(NoTranscript.events) = 0
  BY DEF NoTranscript, Transcripts
<1>2. Gapless(NoTranscript)
  <2>1. Numbered(NoTranscript.events, 1) /\ Distinct(NoTranscript.events)
    BY <1>1 DEF Numbered, Distinct
  <2>2. NoTranscript.before = 0
    BY DEF NoTranscript
  <2> QED
    BY <1>1, <2>1, <2>2, GaplessMeans
<1>3. TextsApart(NoTranscript)
  BY <1>1 DEF TextsApart
<1>4. Counted
  <2>1. IsFiniteSet({}) /\ Cardinality({}) = 0
    BY FS_EmptySet
  <2> QED
    BY <1>1, <2>1 DEF Init, Counted
<1>5. PICK kind \in {"follow", "delegate"} :
        reader = [kind |-> kind, open |-> FALSE, at |-> "idle", cursor |-> 0,
                  marked |-> 0, shown |-> <<>>, answer |-> NoAnswer, ended |-> "unread"]
  BY DEF Init
<1>6. /\ reader.kind \in {"follow", "delegate"} /\ reader.open \in BOOLEAN
      /\ reader.at \in {"idle", "asking", "answered"} /\ reader.ended \in {"unread", "no", "yes"}
      /\ ReaderFields
  BY <1>5 DEF ReaderFields
<1>7. TypeOK
  <2>1. job \in {"live", "over"} /\ lease \in Epochs /\ texts \in 0..MaxTexts /\ telemetry \in Telemetry
    BY DEF Init, Telemetry
  <2>2. batch \in [Epochs -> 0..MaxTexts] /\ posts \subseteq Batch
    BY DEF Init
  <2>3. store \in Transcripts /\ file \in Transcripts /\ torn \in BOOLEAN
    BY <1>1 DEF Init
  <2>4. faults = 0 /\ crashes = 0 /\ regressed \in BOOLEAN
    BY DEF Init
  <2>5. 0 \in 0..MaxFaults /\ 0 \in 0..MaxCrashes
    BY DEF TranscriptConstantsOK
  <2> QED
    BY <1>6, <2>5, <2>1, <2>2, <2>3, <2>4 DEF TypeOK
<1> QED
  BY <1>2, <1>3, <1>4, <1>6, <1>7 DEF Init, StoreOK

\* What leaves both transcripts, and what was published, alone.
LEMMA StoreAside ==
  ASSUME StoreOK, UNCHANGED <<texts, posts, storeVars>>, batch' \in [Epochs -> 0..MaxTexts],
         \A e \in Epochs : batch'[e] <= texts, TypeOK', ReaderFields', faults' >= faults
  PROVE  StoreOK'
<1>1. store' = store /\ file' = file /\ torn' = torn /\ texts' = texts /\ posts' = posts
  BY DEF storeVars
<1>2. Counted'
  BY <1>1 DEF Counted, StoreOK
<1>3. TextsApart(store)' /\ TextsApart(file)' /\ Gapless(store)' /\ Gapless(file)'
  BY <1>1 DEF TextsApart, Gapless, StoreOK
<1>4. faults' = 0 => file' = store' /\ ~torn'
  BY <1>1 DEF StoreOK, TypeOK
<1> QED
  BY <1>2, <1>3, <1>4 DEF StoreOK

LEMMA StoreWorker ==
  ASSUME StoreOK, NEW e \in Epochs, Accept(e) \/ Publish(e) \/ RecordTelemetry(e)
  PROVE  StoreOK'
<1>1. CASE Accept(e)
  <2>1. /\ batch' = [batch EXCEPT ![e] = 0]
        /\ UNCHANGED <<texts, posts, storeVars, job, lease, telemetry, reader, faults, crashes, regressed>>
    BY <1>1 DEF Accept, brokerVars
  <2>2. batch' \in [Epochs -> 0..MaxTexts] /\ \A x \in Epochs : batch'[x] <= texts
    BY <2>1 DEF StoreOK, TypeOK, Counted
  <2>3. TypeOK' /\ ReaderFields'
    BY <2>1, <2>2 DEF StoreOK, TypeOK, ReaderFields, storeVars
  <2>4. faults' >= faults
    BY <2>1 DEF StoreOK, TypeOK
  <2> QED
    BY <2>1, <2>2, <2>3, <2>4, StoreAside
<1>2. ASSUME texts < MaxTexts, texts' = texts + 1,
             batch' \in [Epochs -> 0..MaxTexts], \A x \in Epochs : batch'[x] <= texts',
             \/ posts' = posts
             \/ \E b \in Batch : posts' = posts \cup {b} /\ b.text = texts + 1,
             telemetry' \in Telemetry,
             UNCHANGED <<storeVars, job, lease, reader, faults, crashes, regressed>>
      PROVE  StoreOK'
  <2>1. store' = store /\ file' = file /\ torn' = torn /\ faults' = faults
    BY <1>2 DEF storeVars
  <2>2. texts \in Nat /\ texts' \in 0..MaxTexts /\ posts \subseteq Batch
    BY <1>2 DEF StoreOK, TypeOK
  <2>3. posts' \subseteq Batch
    BY <1>2, <2>2
  <2>4. TypeOK' /\ ReaderFields'
    BY <1>2, <2>1, <2>2, <2>3 DEF StoreOK, TypeOK, ReaderFields
  <2>5. \A b \in posts' : b \in posts \/ b.text = texts + 1
    BY <1>2
  <2>6. /\ IsFiniteSet(posts') /\ Cardinality(posts') \in Nat /\ Cardinality(posts) \in Nat
        /\ Cardinality(posts') <= Cardinality(posts) + 1
    <3>1. IsFiniteSet(posts) /\ Cardinality(posts) \in Nat
      BY FS_CardinalityType DEF StoreOK, Counted
    <3>2. CASE posts' = posts
      BY <3>1, <3>2
    <3>3. ASSUME NEW b, posts' = posts \cup {b}
          PROVE  /\ IsFiniteSet(posts') /\ Cardinality(posts') \in Nat
                 /\ Cardinality(posts') <= Cardinality(posts) + 1
      BY <3>1, <3>3, FS_AddElement
    <3> QED
      BY <1>2, <3>1, <3>2, <3>3
  <2>7. \A b \in posts : b.text <= texts /\ b.text \in Nat
    BY <2>2 DEF StoreOK, Counted, Batch
  <2>8. Counted'
    <3>1. /\ store.next + Cardinality(posts) <= texts + 1 /\ file.next + Cardinality(posts) <= texts + 1
          /\ store.next \in Nat /\ file.next \in Nat
      BY DEF StoreOK, TypeOK, Counted, Transcripts
    <3>2. /\ store'.next + Cardinality(posts') <= texts' + 1
          /\ file'.next + Cardinality(posts') <= texts' + 1
      <4>1. /\ store'.next = store.next /\ file'.next = file.next
            /\ texts \in Nat /\ texts' = texts + 1
        BY <1>2, <2>1, <2>2
      <4> QED
        BY <2>6, <3>1, <4>1
    <3>3. \A b \in posts' : b.text <= texts'
      BY <1>2, <2>2, <2>5, <2>7
    <3>4. \A a, b \in posts' : a.text = b.text => a = b
      <4>1. CASE posts' = posts
        BY <4>1 DEF StoreOK, Counted
      <4>2. ASSUME NEW c \in Batch, posts' = posts \cup {c}, c.text = texts + 1
            PROVE  \A a, b \in posts' : a.text = b.text => a = b
        <5>1. \A a \in posts : a.text # c.text
          BY <2>2, <2>7, <4>2
        <5>2. \A a, b \in posts : a.text = b.text => a = b
          BY DEF StoreOK, Counted
        <5> QED
          BY <4>2, <5>1, <5>2
      <4> QED
        BY <1>2, <4>1, <4>2
    <3> QED
      BY <1>2, <2>6, <3>2, <3>3, <3>4 DEF Counted
  <2>9. ASSUME NEW s \in Transcripts, TextsApart(s)
        PROVE  \A i \in 1..Len(s.events) :
                 s.events[i].text <= texts' /\ \A b \in posts' : s.events[i].text # b.text
    <3> SUFFICES ASSUME NEW i \in 1..Len(s.events)
                 PROVE  s.events[i].text <= texts' /\ \A b \in posts' : s.events[i].text # b.text
      OBVIOUS
    <3>1. s.events[i] \in Event
      BY DEF Transcripts
    <3>2. s.events[i].text \in Nat /\ s.events[i].text <= texts
      BY <2>9, <3>1 DEF TextsApart, Event
    <3>3. \A b \in posts : s.events[i].text # b.text
      BY <2>9 DEF TextsApart
    <3> QED
      BY <1>2, <2>2, <2>5, <3>2, <3>3
  <2>10. TextsApart(store)' /\ TextsApart(file)'
    BY <2>1, <2>9 DEF TextsApart, StoreOK, TypeOK
  <2>11. Gapless(store)' /\ Gapless(file)' /\ (faults' = 0 => file' = store' /\ ~torn')
    BY <2>1 DEF Gapless, StoreOK
  <2> QED
    BY <2>4, <2>8, <2>10, <2>11 DEF StoreOK
<1>3. CASE Publish(e)
  <2> DEFINE c == [epoch |-> e, id |-> batch[e] + 1, text |-> texts + 1]
  <2>1. /\ texts < MaxTexts /\ texts' = texts + 1 /\ batch' = [batch EXCEPT ![e] = @ + 1]
        /\ posts' = posts \cup {c} /\ telemetry' = telemetry
        /\ UNCHANGED <<storeVars, job, lease, reader, faults, crashes, regressed>>
    BY <1>3 DEF Publish, brokerVars
  <2>2. texts \in 0..MaxTexts /\ batch \in [Epochs -> 0..MaxTexts] /\ \A x \in Epochs : batch[x] <= texts
    BY DEF StoreOK, TypeOK, Counted
  <2>3. batch[e] \in 0..MaxTexts /\ batch[e] + 1 \in Texts /\ texts + 1 \in Texts
    BY <2>1, <2>2
  <2>4. c \in Batch /\ c.text = texts + 1
    BY <2>3 DEF Batch
  <2>5. batch' \in [Epochs -> 0..MaxTexts] /\ \A x \in Epochs : batch'[x] <= texts'
    BY <2>1, <2>2, <2>3
  <2>6. telemetry' \in Telemetry
    BY <2>1 DEF StoreOK, TypeOK
  <2> HIDE DEF c
  <2> QED
    BY <1>2, <2>1, <2>4, <2>5, <2>6
<1>4. CASE RecordTelemetry(e)
  <2>1. /\ texts < MaxTexts /\ texts' = texts + 1 /\ batch' = batch /\ posts' = posts
        /\ UNCHANGED <<storeVars, job, lease, reader, faults, crashes, regressed>>
        /\ telemetry' \in {telemetry, e}
    BY <1>4 DEF RecordTelemetry, Reports, TelemetryIdle
  <2>2. batch' \in [Epochs -> 0..MaxTexts] /\ \A x \in Epochs : batch'[x] <= texts'
    BY <2>1 DEF StoreOK, TypeOK, Counted
  <2>3. telemetry' \in Telemetry
    BY <2>1 DEF StoreOK, TypeOK, Telemetry
  <2> QED
    BY <1>2, <2>1, <2>2, <2>3
<1> QED
  BY <1>1, <1>3, <1>4

LEMMA StoreAppend ==
  ASSUME StoreOK, NEW b \in posts, AppendBatch(b)
  PROVE  StoreOK'
<1> USE DEF StoreOK
<1>1. /\ posts' = posts \ {b} /\ b \in Batch /\ posts \subseteq Batch
      /\ UNCHANGED <<job, lease, telemetry, batch, texts, reader, crashes, regressed>>
  BY DEF AppendBatch, Arrives, brokerVars, TypeOK
<1>2. /\ IsFiniteSet(posts') /\ Cardinality(posts') = Cardinality(posts) - 1
      /\ Cardinality(posts') \in Nat /\ Cardinality(posts) \in Nat
  <2>1. IsFiniteSet(posts) /\ Cardinality(posts) \in Nat
    BY FS_CardinalityType DEF Counted
  <2>2. IsFiniteSet(posts \ {b}) /\ Cardinality(posts \ {b}) = Cardinality(posts) - 1
    BY <2>1, FS_RemoveElement
  <2>3. Cardinality(posts \ {b}) \in Nat
    BY <2>2, FS_CardinalityType
  <2> QED
    BY <1>1, <2>1, <2>2, <2>3
<1>3. /\ texts \in 0..MaxTexts /\ store.next \in Nat /\ file.next \in Nat
      /\ store.next + Cardinality(posts) <= texts + 1 /\ file.next + Cardinality(posts) <= texts + 1
      /\ b.text <= texts
  BY DEF TypeOK, Counted, Transcripts
<1>4. CASE UNCHANGED <<storeVars, faults>>
  <2>1. store' = store /\ file' = file /\ torn' = torn /\ faults' = faults
    BY <1>4 DEF storeVars
  <2>2. TypeOK' /\ ReaderFields'
    BY <1>1, <2>1 DEF TypeOK, ReaderFields
  <2>3. store'.next = store.next /\ file'.next = file.next
    BY <2>1
  <2>4. Counted'
    BY <1>1, <1>2, <1>3, <2>3 DEF Counted
  <2>5. TextsApart(store)' /\ TextsApart(file)' /\ Gapless(store)' /\ Gapless(file)'
    BY <1>1, <2>1 DEF TextsApart, Gapless
  <2> QED
    BY <2>1, <2>2, <2>4, <2>5
<1>5. CASE store' = Appended(store, b) /\ Journal(store')
  <2>1. store.next \in Texts
    <3>1. store \in Transcripts /\ Gapless(store)
      BY DEF TypeOK
    <3>2. store.next = (IF store.before >= 1 THEN store.before ELSE 1) + Len(store.events)
      BY <3>1, GaplessMeans
    <3>3. store.before \in Nat /\ Len(store.events) \in Nat
      BY <3>1 DEF Transcripts
    <3>4. store.next >= 1
      BY <3>2, <3>3
    <3>5. store.next <= texts
      BY <1>2, <1>3
    <3> QED
      BY <1>3, <3>4, <3>5
  <2>2. \A i \in 1..Len(store.events) : store.events[i].text # b.text
    BY DEF TextsApart
  <2>3. /\ store' \in Transcripts /\ Gapless(store') /\ store'.next = store.next + 1
        /\ \A i \in 1..Len(store'.events) :
             \/ store'.events[i] = [seq |-> store.next, text |-> b.text]
             \/ \E j \in 1..Len(store.events) : store'.events[i] = store.events[j]
    BY <1>1, <1>5, <2>1, <2>2, AppendedGapless DEF TypeOK
  <2>4. ASSUME NEW i \in 1..Len(store'.events)
        PROVE  store'.events[i].text <= texts' /\ \A a \in posts' : store'.events[i].text # a.text
    <3>1. CASE store'.events[i].text = b.text
      <4>1. \A a \in posts' : a.text # b.text
        BY <1>1 DEF Counted
      <4> QED
        BY <1>1, <1>3, <3>1, <4>1
    <3>2. ASSUME NEW j \in 1..Len(store.events), store'.events[i].text = store.events[j].text
          PROVE  store'.events[i].text <= texts' /\ \A a \in posts' : store'.events[i].text # a.text
      <4>1. store.events[j].text <= texts /\ \A a \in posts : store.events[j].text # a.text
        BY DEF TextsApart
      <4> QED
        BY <1>1, <3>2, <4>1
    <3> QED
      BY <2>3, <3>1, <3>2
  <2>5. TextsApart(store)'
    BY <2>4 DEF TextsApart
  <2>7. file' = file \/ file' = store'
    BY <1>5 DEF Journal
  <2>8. file' \in Transcripts /\ Gapless(file')
    BY <2>3, <2>7 DEF TypeOK
  <2>9. TextsApart(file)'
    <3>1. CASE file' = store'
      BY <2>4, <3>1 DEF TextsApart
    <3>2. CASE file' = file
      BY <1>1, <3>2 DEF TextsApart
    <3> QED
      BY <2>7, <3>1, <3>2
  <2>10. torn' \in BOOLEAN /\ faults' \in 0..MaxFaults
         /\ (faults' = 0 => file' = store' /\ ~torn')
    <3>1. CASE /\ file' = IF torn THEN file ELSE store'
               /\ torn' = FALSE /\ UNCHANGED faults
      BY <3>1 DEF TypeOK
    <3>2. CASE Fails /\ torn' \in {torn, TRUE} /\ UNCHANGED file
      <4>1. faults < MaxFaults /\ faults' = faults + 1 /\ faults \in 0..MaxFaults
        BY <3>2 DEF Fails, TypeOK
      <4>2. faults' \in 0..MaxFaults /\ faults' # 0
        BY <4>1
      <4> QED
        BY <3>2, <4>2 DEF TypeOK
    <3> QED
      BY <1>5, <3>1, <3>2 DEF Journal
  <2>11. TypeOK' /\ ReaderFields'
    BY <1>1, <2>3, <2>8, <2>10 DEF TypeOK, ReaderFields
  <2>12. Counted'
    <3>1. file'.next = file.next \/ file'.next = store.next + 1
      BY <2>3, <2>7
    <3>2. /\ store'.next + Cardinality(posts') <= texts' + 1
          /\ file'.next + Cardinality(posts') <= texts' + 1
      BY <1>1, <1>2, <1>3, <2>3, <3>1
    <3>3. /\ \A a \in posts' : a.text <= texts'
          /\ \A a, c \in posts' : a.text = c.text => a = c
          /\ \A e \in Epochs : batch'[e] <= texts'
      BY <1>1 DEF Counted
    <3> QED
      BY <1>2, <3>2, <3>3 DEF Counted
  <2>13. Gapless(store)' /\ Gapless(file)'
    BY <2>3, <2>8 DEF Gapless
  <2> QED
    BY <2>5, <2>9, <2>10, <2>11, <2>12, <2>13
<1> QED
  BY <1>4, <1>5 DEF AppendBatch

LEMMA StoreBroker ==
  ASSUME StoreOK, Finish \/ Reclaim \/ Compact \/ Restart
  PROVE  StoreOK'
<1> USE DEF StoreOK
<1>1. CASE Finish \/ Reclaim
  <2>1. /\ UNCHANGED <<batch, texts, posts, telemetry, storeVars, reader, faults, crashes, regressed>>
        /\ job' \in {"live", "over"} /\ lease' \in Epochs
    BY <1>1 DEF Finish, Reclaim, publishVars, TypeOK
  <2>2. TypeOK' /\ ReaderFields' /\ faults' >= faults
    BY <2>1 DEF TypeOK, ReaderFields, storeVars
  <2>3. batch' \in [Epochs -> 0..MaxTexts] /\ \A x \in Epochs : batch'[x] <= texts
    BY <2>1 DEF TypeOK, Counted
  <2> QED
    BY <2>1, <2>2, <2>3, StoreAside
<1>2. ASSUME UNCHANGED <<publishVars, brokerVars, reader, faults>>,
             store' = file' /\ file' \in {store, file}, torn' = FALSE \/ torn' = torn,
             crashes' \in 0..MaxCrashes, regressed' \in BOOLEAN
      PROVE  StoreOK'
  <2>1. /\ UNCHANGED <<batch, texts, posts, job, lease, telemetry, reader, faults>>
    BY <1>2 DEF publishVars, brokerVars
  <2>2. store' \in {store, file} /\ file' = store'
    BY <1>2
  <2>3. /\ store' \in Transcripts /\ file' \in Transcripts /\ Gapless(store)' /\ Gapless(file)'
        /\ TextsApart(store)' /\ TextsApart(file)'
    <3>1. CASE store' = store
      BY <2>1, <2>2, <3>1 DEF TypeOK, Gapless, TextsApart
    <3>2. CASE store' = file
      BY <2>1, <2>2, <3>2 DEF TypeOK, Gapless, TextsApart
    <3> QED
      BY <2>2, <3>1, <3>2
  <2>4. TypeOK' /\ ReaderFields'
    BY <1>2, <2>1, <2>3 DEF TypeOK, ReaderFields
  <2>5. Counted'
    <3>1. /\ store'.next + Cardinality(posts') <= texts' + 1
          /\ file'.next + Cardinality(posts') <= texts' + 1
      <4>1. CASE store' = store
        BY <2>1, <2>2, <4>1 DEF Counted
      <4>2. CASE store' = file
        BY <2>1, <2>2, <4>2 DEF Counted
      <4> QED
        BY <2>2, <4>1, <4>2
    <3> QED
      BY <2>1, <3>1 DEF Counted
  <2>6. faults' = 0 => file' = store' /\ ~torn'
    BY <1>2, <2>1, <2>2
  <2> QED
    BY <2>3, <2>4, <2>5, <2>6
<1>3. CASE Compact
  BY <1>2, <1>3 DEF Compact, TypeOK
<1>4. CASE Restart
  <2>1. crashes' \in 0..MaxCrashes /\ regressed' \in BOOLEAN
    BY <1>4 DEF Restart, TypeOK
  <2> QED
    BY <1>2, <1>4, <2>1 DEF Restart
<1> QED
  BY <1>1, <1>3, <1>4

LEMMA StoreReader ==
  ASSUME StoreOK, Open \/ Close \/ Read \/ ReadStatus \/ ReadFails \/ Take
  PROVE  StoreOK'
<1> USE DEF StoreOK
<1> DEFINE Fits(r) ==
      /\ DOMAIN r = {"kind", "open", "at", "cursor", "marked", "shown", "answer", "ended"}
      /\ r.kind \in {"follow", "delegate"} /\ r.open \in BOOLEAN
      /\ r.at \in {"idle", "asking", "answered"} /\ r.ended \in {"unread", "no", "yes"}
<1>1. Fits(reader)
  BY DEF TypeOK, ReaderFields
<1>2. ASSUME NEW r, Fits(r) PROVE Fits(Polling(r))
  BY <1>2 DEF Polling
<1>3. ASSUME NEW r, Fits(r), NEW x \in BOOLEAN PROVE Fits([r EXCEPT !.open = x])
  BY <1>3
<1>4. ASSUME NEW r, Fits(r), NEW x \in {"idle", "asking", "answered"} PROVE Fits([r EXCEPT !.at = x])
  BY <1>4
<1>5. ASSUME NEW r, Fits(r), NEW x PROVE Fits([r EXCEPT !.answer = x])
  BY <1>5
<1>6. ASSUME NEW r, Fits(r), NEW x \in {"unread", "no", "yes"} PROVE Fits([r EXCEPT !.ended = x])
  BY <1>6
<1>7. ASSUME NEW r, Fits(r), NEW x, NEW y, NEW z
      PROVE  Fits([r EXCEPT !.shown = x, !.cursor = y, !.marked = z])
  BY <1>7
<1> HIDE DEF Fits
<1>8. ASSUME NEW r, Fits(r), NEW x PROVE Fits([r EXCEPT !.open = FALSE, !.at = "idle", !.answer = x])
  <2> DEFINE p == [r EXCEPT !.open = FALSE]
             q == [p EXCEPT !.at = "idle"]
  <2>1. Fits(p)
    BY <1>3, <1>8, FALSE \in BOOLEAN, Zenon
  <2> HIDE DEF p
  <2>2. Fits(q)
    BY <1>4, <2>1, "idle" \in {"idle", "asking", "answered"}, Zenon
  <2> HIDE DEF q
  <2>3. Fits([q EXCEPT !.answer = x])
    BY <1>5, <2>2, Zenon
  <2> QED
    BY <2>3, Zenon DEF p, q
<1>9. ASSUME Open PROVE Fits(reader')
  <2> DEFINE p == [reader EXCEPT !.open = TRUE]
  <2>1. Fits(p)
    BY <1>1, <1>3, TRUE \in BOOLEAN, Zenon
  <2>2. reader' = Polling(p)
    BY <1>9 DEF Open
  <2> HIDE DEF p
  <2> QED
    BY <1>2, <2>1, <2>2, Zenon
<1>10. ASSUME Close PROVE Fits(reader')
  <2>1. reader' = [reader EXCEPT !.open = FALSE, !.at = "idle", !.answer = NoAnswer]
    BY <1>10, Zenon DEF Close
  <2>2. Fits([reader EXCEPT !.open = FALSE, !.at = "idle", !.answer = NoAnswer])
    BY <1>1, <1>8, Zenon
  <2> QED
    BY <2>1, <2>2, Zenon
<1>11. ASSUME Read PROVE Fits(reader')
  <2> DEFINE a == [events |-> Selected(store, reader.cursor),
                   marker |-> IF reader.cursor < store.before THEN store.before ELSE 0]
             p == [reader EXCEPT !.at = "answered"]
  <2>1. Fits(p)
    BY <1>1, <1>4, "answered" \in {"idle", "asking", "answered"}, Zenon
  <2>2. reader' = [p EXCEPT !.answer = a]
    BY <1>11, Zenon DEF Read
  <2> HIDE DEF p, a
  <2> QED
    BY <1>5, <2>1, <2>2, Zenon
<1>12. ASSUME ReadStatus PROVE Fits(reader')
  <2>1. /\ reader' = [reader EXCEPT !.ended = IF job = "over" THEN "yes" ELSE "no"]
        /\ (IF job = "over" THEN "yes" ELSE "no") \in {"unread", "no", "yes"}
    BY <1>12, Zenon DEF ReadStatus
  <2> QED
    BY <1>1, <1>6, <2>1, Zenon
<1>13. ASSUME ReadFails PROVE Fits(reader')
  BY <1>1, <1>2, <1>13, Zenon DEF ReadFails
<1>14. ASSUME Take PROVE Fits(reader')
  <2> DEFINE shown == Later(reader.answer.events, reader.cursor)
             x == reader.shown \o shown
             z == MarkedAfter(reader)
             p == [reader EXCEPT !.shown = x, !.cursor = CursorAfter(reader), !.marked = z]
  <2>1. Fits(p)
    BY <1>1, <1>7, Zenon
  <2>2. reader' = IF reader.ended = "yes"
                  THEN [p EXCEPT !.open = FALSE, !.at = "idle", !.answer = NoAnswer]
                  ELSE Polling(p)
    BY <1>14, Zenon DEF Take
  <2> HIDE DEF p
  <2>3. Fits(Polling(p)) /\ Fits([p EXCEPT !.open = FALSE, !.at = "idle", !.answer = NoAnswer])
    BY <1>2, <1>8, <2>1, Zenon
  <2> QED
    BY <2>2, <2>3, Zenon
<1>15. Fits(reader')
  BY <1>9, <1>10, <1>11, <1>12, <1>13, <1>14, Zenon
<1>16. /\ UNCHANGED <<batch, texts, posts, job, lease, telemetry, storeVars, crashes, regressed>>
       /\ UNCHANGED faults \/ Fails
  BY DEF Open, Close, Read, ReadStatus, ReadFails, Take, Reading, publishVars, brokerVars
<1>17. faults' \in 0..MaxFaults /\ faults' >= faults
  BY <1>16 DEF Fails, TypeOK
<1>18. ReaderFields' /\ TypeOK'
  BY <1>15, <1>16, <1>17 DEF Fits, ReaderFields, TypeOK, storeVars
<1>19. batch' \in [Epochs -> 0..MaxTexts] /\ \A x \in Epochs : batch'[x] <= texts
  BY <1>16 DEF TypeOK, Counted
<1> QED
  BY <1>16, <1>17, <1>18, <1>19, StoreAside

LEMMA StoreStep == StoreOK /\ [Next]_vars => StoreOK'
<1> SUFFICES ASSUME StoreOK, [Next]_vars PROVE StoreOK'
  OBVIOUS
<1>1. ASSUME NEW e \in Epochs, Accept(e) \/ Publish(e) \/ RecordTelemetry(e) PROVE StoreOK'
  BY <1>1, StoreWorker
<1>2. ASSUME NEW b \in posts, AppendBatch(b) PROVE StoreOK'
  BY <1>2, StoreAppend
<1>3. CASE Finish \/ Reclaim \/ Compact \/ Restart
  BY <1>3, StoreBroker
<1>4. CASE Open \/ Close \/ Read \/ ReadStatus \/ ReadFails \/ Take
  BY <1>4, StoreReader
<1>5. CASE UNCHANGED vars
  <2>1. /\ UNCHANGED <<texts, posts, batch, storeVars, job, lease, telemetry, reader>>
        /\ UNCHANGED <<faults, crashes, regressed>>
    BY <1>5 DEF vars, publishVars, brokerVars
  <2>2. TypeOK' /\ ReaderFields' /\ faults' >= faults
    BY <2>1 DEF StoreOK, TypeOK, ReaderFields, storeVars
  <2>3. batch' \in [Epochs -> 0..MaxTexts] /\ \A x \in Epochs : batch'[x] <= texts
    BY <2>1 DEF StoreOK, TypeOK, Counted
  <2> QED
    BY <2>1, <2>2, <2>3, StoreAside
<1> QED
  BY <1>1, <1>2, <1>3, <1>4, <1>5 DEF Next

\* What is kept of a transcript, in memory and on file, is the end of what was
\* published, in order and without a gap or a repetition, whatever is lost or
\* late, and through any crash; unless a write has failed, a journal restores
\* all of it (memory_transcript_store.py:62).
THEOREM TranscriptHasNoGap == Spec => []StoreGapless
<1>1. StoreOK => StoreGapless
  BY DEF StoreOK, StoreGapless
<1> QED
  BY InitStore, StoreStep, <1>1, PTL DEF Spec

-----------------------------------------------------------------------------
(* The reader *)

\* An answer, and what is later than a cursor, has numbers one after the other.
Consecutive(q, f) == \A i \in 1..Len(q) : q[i].seq = f + i

\* The events of an answer begin after number f, which is the reader's cursor, or
\* lies before what a marker tells of; the broker has nothing in between.
BeginsAfter(f) ==
  /\ f >= reader.cursor /\ f < store.next /\ Consecutive(reader.answer.events, f)
  /\ f = reader.cursor \/ f < reader.answer.marker
  /\ \A j \in 1..Len(store.events) :
       store.events[j].seq <= reader.cursor \/ store.events[j].seq > f

\* The events of an answer on its way are the broker's, which may have dropped
\* them since.
AnswerOK ==
  LET a == reader.answer IN
  /\ \E f \in Nat : BeginsAfter(f)
  /\ \A i \in 1..Len(a.events) :
       /\ a.events[i].seq < store.next
       /\ \A j \in 1..Len(store.events) :
            store.events[j].seq = a.events[i].seq => store.events[j] = a.events[i]

\* What a reader has seen, or been told that it has not.
SeenOK ==
  /\ reader.cursor < store.next
  /\ \A q \in 1..reader.cursor :
       ToldMissing(q) \/ \E i \in 1..Len(reader.shown) : reader.shown[i].seq = q
  /\ \A i \in 1..Len(store.events) :
       store.events[i].seq <= reader.cursor =>
         \E j \in 1..Len(reader.shown) : reader.shown[j] = store.events[i]
  /\ \A i, j \in 1..Len(reader.shown) : i < j => reader.shown[i].seq < reader.shown[j].seq
  /\ \A i \in 1..Len(reader.shown) : reader.shown[i].seq <= reader.cursor

ReaderTypes ==
  /\ reader.cursor \in Nat /\ reader.marked \in Nat /\ reader.shown \in Seq(Event)
  /\ reader.answer.events \in Seq(Event) /\ reader.answer.marker \in Nat

ReaderOK == ReaderTypes /\ (regressed \/ (SeenOK /\ AnswerOK))

LEMMA StoredEvents ==
  ASSUME StoreOK
  PROVE  /\ store.next \in Nat /\ store.events \in Seq(Event) /\ Len(store.events) \in Nat
         /\ \A j \in 1..Len(store.events) : store.events[j].seq \in Nat
<1>1. store.next \in Nat /\ store.events \in Seq(Event)
  BY DEF StoreOK, TypeOK, Transcripts
<1>2. \A j \in 1..Len(store.events) : store.events[j] \in Event
  BY <1>1
<1>3. Len(store.events) \in Nat
  BY <1>1
<1> QED
  BY <1>1, <1>2, <1>3 DEF Event

LEMMA MaxOfTwo ==
  ASSUME NEW a \in Nat, NEW b \in Nat
  PROVE  Max({a, b}) \in {a, b} /\ Max({a, b}) >= a /\ Max({a, b}) >= b
<1> DEFINE m == IF a >= b THEN a ELSE b
<1>1. m \in {a, b} /\ m >= a /\ m >= b /\ \A y \in {a, b} : m >= y
  OBVIOUS
<1> HIDE DEF m
<1>2. \E x \in {a, b} : \A y \in {a, b} : x >= y
  BY <1>1
<1>3. Max({a, b}) \in {a, b} /\ \A y \in {a, b} : Max({a, b}) >= y
  BY <1>2, Zenon DEF Max
<1> QED
  BY <1>3

LEMMA SubSeqOf ==
  ASSUME NEW q \in Seq(Event), NEW m \in Nat \ {0}, NEW n \in Nat, n <= Len(q)
  PROVE  /\ SubSeq(q, m, n) \in Seq(Event)
         /\ Len(SubSeq(q, m, n)) = IF m <= n THEN n - m + 1 ELSE 0
         /\ \A i \in 1..Len(SubSeq(q, m, n)) :
              m + i - 1 \in 1..Len(q) /\ SubSeq(q, m, n)[i] = q[m + i - 1]
<1>1. \A i \in m..n : q[i] \in Event
  OBVIOUS
<1>2. /\ SubSeq(q, m, n) \in Seq(Event)
      /\ Len(SubSeq(q, m, n)) = IF m <= n THEN n - m + 1 ELSE 0
      /\ \A i \in 1..(n - m + 1) : SubSeq(q, m, n)[i] = q[m + i - 1]
  BY <1>1, SubSeqProperties
<1> QED
  BY <1>2

\* No more events lie up to a cursor than there are.
LEMMA CountUpTo ==
  ASSUME NEW q \in Seq(Event), NEW c \in Nat
  PROVE  /\ Cardinality({i \in DOMAIN q : q[i].seq <= c}) \in Nat
         /\ Cardinality({i \in DOMAIN q : q[i].seq <= c}) <= Len(q)
<1> DEFINE S == {i \in DOMAIN q : q[i].seq <= c}
<1>1. Len(q) \in Nat /\ S \subseteq 1..Len(q)
  OBVIOUS
<1>2. IsFiniteSet(1..Len(q)) /\ Cardinality(1..Len(q)) = Len(q)
  <2>1. 1 \in Int /\ Len(q) \in Int
    BY <1>1
  <2>2. /\ IsFiniteSet(1..Len(q))
        /\ Cardinality(1..Len(q)) = IF 1 > Len(q) THEN 0 ELSE Len(q) - 1 + 1
    BY <2>1, FS_Interval
  <2> QED
    BY <1>1, <2>2
<1> HIDE DEF S
<1>3. IsFiniteSet(S) /\ Cardinality(S) <= Cardinality(1..Len(q))
  BY <1>1, <1>2, FS_Subset
<1>4. Cardinality(S) \in Nat
  BY <1>3, FS_CardinalityType
<1> QED
  BY <1>2, <1>3, <1>4 DEF S

LEMMA LaterType ==
  ASSUME NEW q \in Seq(Event), NEW c \in Nat
  PROVE  Later(q, c) \in Seq(Event)
<1> DEFINE k == Cardinality({i \in DOMAIN q : q[i].seq <= c})
<1>1. k \in Nat /\ Len(q) \in Nat
  BY CountUpTo
<1>2. Later(q, c) = SubSeq(q, 1 + k, Len(q))
  BY DEF Later
<1> HIDE DEF k
<1>3. 1 + k \in Nat \ {0} /\ Len(q) <= Len(q)
  BY <1>1
<1> QED
  BY <1>1, <1>2, <1>3, SubSeqOf

\* Of events with numbers one after the other, Later keeps just those after the
\* cursor, in their order.
LEMMA LaterMeans ==
  ASSUME NEW q \in Seq(Event), NEW f \in Nat, Consecutive(q, f), NEW c \in Nat
  PROVE  \E g \in {c, f} :
           /\ g >= c /\ g >= f /\ Consecutive(Later(q, c), g)
           /\ c <= f => Later(q, c) = q
           /\ \A i \in 1..Len(Later(q, c)) : \E j \in 1..Len(q) : Later(q, c)[i] = q[j]
<1> DEFINE n == Len(q)
           k == IF c <= f THEN 0 ELSE IF c - f <= n THEN c - f ELSE n
           S == {i \in DOMAIN q : q[i].seq <= c}
           g == IF c <= f THEN f ELSE c
           p == Later(q, c)
<1>1. n \in Nat /\ k \in 0..n /\ DOMAIN q = 1..n /\ g \in {c, f} /\ g >= c /\ g >= f
  OBVIOUS
<1>2. S = 1..k
  <2>1. \A i \in 1..n : q[i].seq = f + i
    BY DEF Consecutive
  <2>2. ASSUME NEW i \in 1..n PROVE f + i <= c <=> i <= k
    OBVIOUS
  <2> HIDE DEF k, n
  <2>3. S = {i \in 1..n : i <= k}
    BY <1>1, <2>1, <2>2
  <2> QED
    BY <1>1, <2>3
<1>3. Cardinality(S) = k
  <2> HIDE DEF S, k
  <2>1. 1 \in Int /\ k \in Int
    BY <1>1
  <2>2. Cardinality(1..k) = IF 1 > k THEN 0 ELSE k - 1 + 1
    BY <2>1, FS_Interval
  <2> QED
    BY <1>1, <1>2, <2>2
<1>4. p = SubSeq(q, 1 + k, n)
  BY <1>3 DEF Later
<1>5. /\ Len(p) = IF 1 + k <= n THEN n - (1 + k) + 1 ELSE 0
      /\ \A i \in 1..Len(p) : k + i \in 1..n /\ p[i] = q[k + i]
  <2> HIDE DEF p, k, n
  <2>1. 1 + k \in Nat \ {0} /\ n \in Nat /\ n <= Len(q)
    BY <1>1 DEF n
  <2>2. /\ Len(p) = IF 1 + k <= n THEN n - (1 + k) + 1 ELSE 0
        /\ \A i \in 1..Len(p) : (1 + k) + i - 1 \in 1..Len(q) /\ p[i] = q[(1 + k) + i - 1]
    BY <1>4, <2>1, SubSeqOf
  <2>3. ASSUME NEW i \in 1..Len(p) PROVE (1 + k) + i - 1 = k + i
    BY <1>1, <2>2
  <2> QED
    BY <2>2, <2>3 DEF n
<1>6. Len(p) = n - k
  <2> HIDE DEF p, k, n
  <2> QED
    BY <1>1, <1>5
<1>7. Consecutive(p, g)
  <2> SUFFICES ASSUME NEW i \in 1..Len(p) PROVE p[i].seq = g + i
    BY DEF Consecutive
  <2>1. p[i] = q[k + i] /\ k + i \in 1..n
    BY <1>5
  <2>2. q[k + i].seq = f + (k + i)
    BY <2>1 DEF Consecutive
  <2>3. i \in 1..(n - k)
    BY <1>6
  <2>4. f + (k + i) = g + i
    <3> HIDE DEF p
    <3> QED
      BY <1>1, <2>3
  <2> QED
    BY <2>1, <2>2, <2>4
<1>8. c <= f => p = q
  <2> SUFFICES ASSUME c <= f PROVE p = q
    OBVIOUS
  <2>1. k = 0
    OBVIOUS
  <2>2. p = SubSeq(q, 1, Len(q))
    BY <1>4, <2>1
  <2> QED
    BY <2>2, SubSeqFull
<1>9. \A i \in 1..Len(p) : \E j \in 1..Len(q) : p[i] = q[j]
  <2> HIDE DEF p, k
  <2> QED
    BY <1>5
<1> HIDE DEF p, g
<1> QED
  BY <1>1, <1>7, <1>8, <1>9 DEF p

\* The transcript begins after f, and a reader at cursor c is told so.
NothingUpTo(s, f, c) ==
  /\ f < s.before /\ c < s.before /\ f < s.next
  /\ \A j \in 1..Len(s.events) : s.events[j].seq > f

\* The page of an answer.
LEMMA SelectedMeans ==
  ASSUME NEW s \in Transcripts, Gapless(s), NEW c \in Nat
  PROVE  /\ Selected(s, c) \in Seq(Event)
         /\ \A i \in 1..Len(Selected(s, c)) : \E j \in 1..Len(s.events) : Selected(s, c)[i] = s.events[j]
         /\ \E f \in Nat : /\ f >= c /\ Consecutive(Selected(s, c), f)
                           /\ f = c \/ NothingUpTo(s, f, c)
<1> DEFINE q == s.events
           n == Len(q)
           later == Later(q, c)
           p == Selected(s, c)
           h == s.next - n - 1
<1>1. q \in Seq(Event) /\ n \in Nat /\ s.next \in Nat /\ s.before \in Nat
  BY DEF Transcripts
<1>2. /\ s.next = (IF s.before >= 1 THEN s.before ELSE 1) + n
      /\ \A i \in 1..n : q[i].seq = s.next - n + i - 1
  BY GaplessMeans DEF Numbered
<1>3. h \in Nat /\ (h = 0 \/ h < s.before) /\ Consecutive(q, h)
  <2>1. h = IF s.before >= 1 THEN s.before - 1 ELSE 0
    <3> HIDE DEF n, q
    <3> QED
      BY <1>1, <1>2
  <2>2. ASSUME NEW i \in 1..n PROVE q[i].seq = h + i
    <3>1. q[i].seq = s.next - n + i - 1
      BY <1>2
    <3> HIDE DEF q, n
    <3>2. s.next - n + i - 1 = h + i
      BY <1>1, <2>2
    <3> QED
      BY <3>1, <3>2
  <2>3. Consecutive(q, h)
    BY <2>2 DEF Consecutive
  <2> HIDE DEF h, q, n
  <2> QED
    BY <1>1, <2>1, <2>3
<1>4. PICK g \in {c, h} :
        /\ g >= c /\ g >= h /\ Consecutive(later, g)
        /\ \A i \in 1..Len(later) : \E j \in 1..n : later[i] = q[j]
  <2> HIDE DEF h, q
  <2> QED
    BY <1>1, <1>3, LaterMeans
<1>5. later \in Seq(Event) /\ Len(later) \in Nat
  <2> HIDE DEF q
  <2>1. later \in Seq(Event)
    BY <1>1, LaterType
  <2> HIDE DEF later
  <2> QED
    BY <2>1
<1>6. g \in Nat /\ g >= c /\ (g = c \/ NothingUpTo(s, g, c))
  <2>1. \A j \in 1..n : q[j].seq > h
    <3>1. \A j \in 1..n : q[j].seq = h + j
      BY <1>3 DEF Consecutive
    <3> HIDE DEF h, n, q
    <3> QED
      BY <1>1, <1>3, <3>1
  <2>2. h < s.next
    <3> HIDE DEF n, q
    <3> QED
      BY <1>1
  <2> HIDE DEF h
  <2>3. CASE g = c
    BY <1>4, <2>3
  <2>4. CASE g = h /\ g # c
    <3>1. h < s.before /\ c < s.before
      BY <1>1, <1>3, <1>4, <2>4
    <3> QED
      BY <1>3, <1>4, <2>1, <2>2, <2>4, <3>1 DEF NothingUpTo
  <2> QED
    BY <1>4, <2>3, <2>4
<1>7. p = IF Len(later) <= Page THEN later ELSE SubSeq(later, 1, Page)
  BY DEF Selected
<1>8. /\ p \in Seq(Event)
      /\ \A i \in 1..Len(p) : i \in 1..Len(later) /\ p[i] = later[i]
  <2> HIDE DEF p, later
  <2>1. CASE Len(later) <= Page
    BY <1>5, <1>7, <2>1
  <2>2. CASE ~(Len(later) <= Page)
    <3>1. Page \in Nat /\ Page <= Len(later) /\ 1 \in Nat \ {0}
      BY <1>5, <2>2 DEF TranscriptConstantsOK
    <3>2. /\ p \in Seq(Event)
          /\ \A i \in 1..Len(p) : 1 + i - 1 \in 1..Len(later) /\ p[i] = later[1 + i - 1]
      BY <1>5, <1>7, <2>2, <3>1, SubSeqOf
    <3>3. \A i \in 1..Len(p) : 1 + i - 1 = i
      BY <3>2
    <3> QED
      BY <3>2, <3>3
  <2> QED
    BY <2>1, <2>2
<1>9. Consecutive(p, g)
  BY <1>4, <1>8 DEF Consecutive
<1> HIDE DEF p, later, h
<1>10. \A i \in 1..Len(p) : \E j \in 1..n : p[i] = q[j]
  BY <1>4, <1>8
<1> QED
  BY <1>6, <1>8, <1>9, <1>10 DEF p

LEMMA InitReader == Init => ReaderOK
<1> SUFFICES ASSUME Init PROVE ReaderOK
  OBVIOUS
<1>1. /\ reader.cursor = 0 /\ reader.marked = 0 /\ reader.shown = <<>>
      /\ reader.answer.events = <<>> /\ reader.answer.marker = 0
  BY DEF Init, NoAnswer
<1>2. store.next = 1 /\ Len(store.events) = 0
  BY DEF Init, NoTranscript
<1>3. Len(reader.shown) = 0 /\ Len(reader.answer.events) = 0
  BY <1>1
<1>4. ReaderTypes
  BY <1>1 DEF ReaderTypes
<1>5. SeenOK
  BY <1>1, <1>2, <1>3 DEF SeenOK
<1>6. AnswerOK
  <2>1. 0 \in Nat /\ 0 >= reader.cursor /\ 0 = reader.cursor
    BY <1>1
  <2>2. Consecutive(reader.answer.events, 0)
    BY <1>3 DEF Consecutive
  <2>3. BeginsAfter(0)
    BY <1>2, <2>1, <2>2 DEF BeginsAfter
  <2> QED
    BY <1>3, <2>3 DEF AnswerOK
<1> QED
  BY <1>4, <1>5, <1>6 DEF ReaderOK

\* The reader stays where it is, and so does the transcript, unless a restart
\* has lost something of it.
LEMMA ReaderAside ==
  ASSUME ReaderOK, reader' = reader, regressed' \/ (store' = store /\ regressed' = regressed)
  PROVE  ReaderOK'
<1>1. ReaderTypes'
  BY DEF ReaderOK, ReaderTypes
<1>2. CASE store' = store /\ regressed' = regressed
  <2>1. SeenOK => SeenOK'
    BY <1>2 DEF SeenOK, ToldMissing
  <2>2. AnswerOK => AnswerOK'
    BY <1>2 DEF AnswerOK, BeginsAfter
  <2> QED
    BY <1>1, <1>2, <2>1, <2>2 DEF ReaderOK
<1> QED
  BY <1>1, <1>2 DEF ReaderOK

LEMMA ReaderAppend ==
  ASSUME StoreOK, ReaderOK, NEW b \in posts, AppendBatch(b)
  PROVE  ReaderOK'
<1>1. reader' = reader /\ regressed' = regressed
  BY DEF AppendBatch
<1>2. CASE UNCHANGED <<storeVars, faults>>
  BY <1>1, <1>2, ReaderAside DEF storeVars
<1>3. CASE store' = Appended(store, b) /\ ~regressed
  <2>1. /\ store \in Transcripts /\ Gapless(store) /\ b \in Batch /\ texts \in 0..MaxTexts
        /\ store.next + Cardinality(posts) <= texts + 1
    BY DEF StoreOK, TypeOK, Counted
  <2>2. store.next \in Texts
    <3>1. Cardinality(posts) \in Nat /\ Cardinality(posts) # 0
      BY FS_CardinalityType, FS_EmptySet DEF StoreOK, Counted
    <3>2. store.next = (IF store.before >= 1 THEN store.before ELSE 1) + Len(store.events)
      BY <2>1, GaplessMeans
    <3>3. store.before \in Nat /\ Len(store.events) \in Nat /\ store.next \in Nat
      BY <2>1 DEF Transcripts
    <3>4. store.next >= 1
      BY <3>2, <3>3
    <3> QED
      BY <2>1, <3>1, <3>3, <3>4
  <2>3. \A i \in 1..Len(store.events) : store.events[i].text # b.text
    BY DEF StoreOK, TextsApart
  <2> DEFINE v == [seq |-> store.next, text |-> b.text]
  <2>4. /\ store'.next = store.next + 1 /\ store.next \in Nat
        /\ \A i \in 1..Len(store'.events) :
             store'.events[i] = v \/ \E j \in 1..Len(store.events) : store'.events[i] = store.events[j]
    BY <1>3, <2>1, <2>2, <2>3, AppendedGapless DEF Transcripts
  <2>5. v.seq = store.next
    OBVIOUS
  <2> HIDE DEF v
  <2>6. ReaderTypes /\ SeenOK /\ AnswerOK
    BY <1>3 DEF ReaderOK
  <2>7. SeenOK'
    <3>1. reader.cursor \in Nat /\ reader.cursor < store.next
      BY <2>6 DEF SeenOK, ReaderTypes
    <3>2. reader.cursor < store'.next
      BY <2>4, <3>1
    <3>3. ASSUME NEW i \in 1..Len(store'.events), store'.events[i].seq <= reader.cursor
          PROVE  \E j \in 1..Len(reader.shown) : reader.shown[j] = store'.events[i]
      <4>1. store'.events[i] # v
        BY <2>4, <2>5, <3>1, <3>3
      <4>2. PICK j \in 1..Len(store.events) : store'.events[i] = store.events[j]
        BY <2>4, <4>1
      <4> QED
        BY <2>6, <3>3, <4>2 DEF SeenOK
    <3> QED
      BY <1>1, <2>6, <3>2, <3>3 DEF SeenOK, ToldMissing
  <2>8. AnswerOK'
    <3> DEFINE a == reader.answer.events
    <3>1. a \in Seq(Event)
      BY <2>6 DEF ReaderTypes
    <3>2. ASSUME NEW i \in 1..Len(a)
          PROVE  /\ a[i].seq < store'.next
                 /\ \A j \in 1..Len(store'.events) :
                      store'.events[j].seq = a[i].seq => store'.events[j] = a[i]
      <4>0. a[i] \in Event
        BY <3>1
      <4>1. a[i].seq < store.next /\ a[i].seq \in Nat
        BY <2>6, <4>0 DEF AnswerOK, Event
      <4>2. \A j \in 1..Len(store.events) : store.events[j].seq = a[i].seq => store.events[j] = a[i]
        BY <2>6 DEF AnswerOK
      <4>3. v.seq # a[i].seq
        BY <2>4, <2>5, <4>1
      <4>4. a[i].seq < store'.next
        BY <2>4, <4>1
      <4> QED
        BY <2>4, <4>2, <4>3, <4>4
    <3>3. PICK f \in Nat : BeginsAfter(f)
      BY <2>6 DEF AnswerOK
    <3>4. f < store.next /\ f < store'.next /\ v.seq > f
      BY <2>4, <2>5, <3>3 DEF BeginsAfter
    <3>5. \A j \in 1..Len(store'.events) :
            store'.events[j].seq <= reader.cursor \/ store'.events[j].seq > f
      BY <2>4, <3>3, <3>4 DEF BeginsAfter
    <3>6. BeginsAfter(f)'
      BY <1>1, <3>3, <3>4, <3>5 DEF BeginsAfter
    <3> QED
      BY <1>1, <3>2, <3>6 DEF AnswerOK
  <2> QED
    BY <1>1, <2>6, <2>7, <2>8 DEF ReaderOK, ReaderTypes
<1>4. CASE regressed
  BY <1>1, <1>4, ReaderAside
<1> QED
  BY <1>2, <1>3, <1>4 DEF AppendBatch

\* A reader that has no answer, and what it had seen before.
LEMMA ReaderForgets ==
  ASSUME StoreOK, ReaderOK, UNCHANGED <<store, regressed>>,
         reader'.kind = reader.kind, reader'.cursor = reader.cursor, reader'.marked = reader.marked,
         reader'.shown = reader.shown, reader'.answer = NoAnswer
  PROVE  ReaderOK'
<1>1. NoAnswer.events = <<>> /\ NoAnswer.marker = 0 /\ Len(<<>>) = 0
  BY DEF NoAnswer
<1>2. ReaderTypes'
  BY <1>1 DEF ReaderOK, ReaderTypes
<1>3. SeenOK => SeenOK'
  BY DEF SeenOK, ToldMissing
<1>4. SeenOK => AnswerOK'
  <2> SUFFICES ASSUME SeenOK PROVE AnswerOK'
    OBVIOUS
  <2>1. /\ reader.cursor \in Nat /\ reader.cursor < store.next
        /\ \A j \in 1..Len(store.events) : store.events[j].seq \in Nat
    BY StoredEvents DEF ReaderOK, ReaderTypes, SeenOK
  <2>2. Consecutive(reader'.answer.events, reader.cursor)
    BY <1>1 DEF Consecutive
  <2>3. BeginsAfter(reader.cursor)'
    BY <2>1, <2>2 DEF BeginsAfter
  <2> QED
    BY <1>1, <2>1, <2>3 DEF AnswerOK
<1> QED
  BY <1>2, <1>3, <1>4 DEF ReaderOK

LEMMA PollingMeans ==
  ASSUME NEW r, DOMAIN r = {"kind", "open", "at", "cursor", "marked", "shown", "answer", "ended"}
  PROVE  /\ Polling(r).cursor = r.cursor /\ Polling(r).marked = r.marked
         /\ Polling(r).shown = r.shown /\ Polling(r).answer = NoAnswer /\ Polling(r).kind = r.kind
BY DEF Polling

LEMMA ReaderTurns ==
  ASSUME StoreOK, ReaderOK, Open \/ Close \/ ReadStatus \/ ReadFails
  PROVE  ReaderOK'
<1>1. UNCHANGED <<store, regressed>>
  BY DEF Open, Close, ReadStatus, ReadFails, Reading, storeVars
<1>2. DOMAIN reader = {"kind", "open", "at", "cursor", "marked", "shown", "answer", "ended"}
  BY DEF StoreOK, ReaderFields
<1> DEFINE Kept ==
      /\ reader'.cursor = reader.cursor /\ reader'.marked = reader.marked
      /\ reader'.shown = reader.shown /\ reader'.kind = reader.kind
<1>3. CASE Open
  <2> DEFINE r == [reader EXCEPT !.open = TRUE]
  <2>1. DOMAIN r = DOMAIN reader /\ r.cursor = reader.cursor /\ r.marked = reader.marked
        /\ r.shown = reader.shown /\ r.kind = reader.kind
    BY <1>2
  <2>2. reader' = Polling(r)
    BY <1>3, Zenon DEF Open
  <2> HIDE DEF r
  <2>3. Kept /\ reader'.answer = NoAnswer
    BY <1>2, <2>1, <2>2, PollingMeans
  <2> QED
    BY <1>1, <2>3, ReaderForgets
<1>4. CASE Close
  <2>1. reader' = [reader EXCEPT !.open = FALSE, !.at = "idle", !.answer = NoAnswer]
    BY <1>4, Zenon DEF Close
  <2>2. Kept /\ reader'.answer = NoAnswer
    BY <1>2, <2>1
  <2> QED
    BY <1>1, <2>2, ReaderForgets
<1>5. CASE ReadStatus
  <2>1. reader' = [reader EXCEPT !.ended = IF job = "over" THEN "yes" ELSE "no"]
    BY <1>5, Zenon DEF ReadStatus
  <2>2. Kept /\ reader'.answer = reader.answer
    BY <1>2, <2>1
  <2> QED
    <3>1. ReaderTypes => ReaderTypes'
      BY <2>2 DEF ReaderTypes
    <3>2. SeenOK => SeenOK'
      BY <1>1, <2>2 DEF SeenOK, ToldMissing
    <3>3. AnswerOK => AnswerOK'
      BY <1>1, <2>2 DEF AnswerOK, BeginsAfter
    <3> QED
      BY <1>1, <3>1, <3>2, <3>3 DEF ReaderOK
<1>6. CASE ReadFails
  <2>1. reader' = Polling(reader)
    BY <1>6, Zenon DEF ReadFails
  <2>2. Kept /\ reader'.answer = NoAnswer
    BY <1>2, <2>1, PollingMeans
  <2> QED
    BY <1>1, <2>2, ReaderForgets
<1> QED
  BY <1>3, <1>4, <1>5, <1>6

LEMMA ReaderReads ==
  ASSUME StoreOK, ReaderOK, Read
  PROVE  ReaderOK'
<1> DEFINE p == Selected(store, reader.cursor)
           marker == IF reader.cursor < store.before THEN store.before ELSE 0
<1>1. UNCHANGED <<store, regressed>>
  BY DEF Read, Reading, storeVars
<1>2. DOMAIN reader = {"kind", "open", "at", "cursor", "marked", "shown", "answer", "ended"}
  BY DEF StoreOK, ReaderFields
<1>3. store \in Transcripts /\ Gapless(store) /\ store.before \in Nat /\ store.next \in Nat
  BY DEF StoreOK, TypeOK, Transcripts
<1>4. ReaderTypes
  BY DEF ReaderOK
<1>5. reader.cursor \in Nat
  BY <1>4 DEF ReaderTypes
<1>6. /\ p \in Seq(Event)
      /\ \A i \in 1..Len(p) : \E j \in 1..Len(store.events) : p[i] = store.events[j]
      /\ \E f \in Nat : /\ f >= reader.cursor /\ Consecutive(p, f)
                        /\ f = reader.cursor \/ NothingUpTo(store, f, reader.cursor)
  BY <1>3, <1>5, SelectedMeans
<1> HIDE DEF p
<1>7. /\ reader'.cursor = reader.cursor /\ reader'.marked = reader.marked
      /\ reader'.shown = reader.shown /\ reader'.kind = reader.kind
      /\ reader'.answer = [events |-> p, marker |-> marker]
  <2> HIDE DEF marker
  <2>1. reader' = [reader EXCEPT !.at = "answered", !.answer = [events |-> p, marker |-> marker]]
    BY Zenon DEF Read, p, marker
  <2> QED
    BY <1>2, <2>1
<1>8. reader'.answer.events = p /\ reader'.answer.marker = marker /\ marker \in Nat
  BY <1>3, <1>7
<1>9. ReaderTypes'
  <2> HIDE DEF marker
  <2> QED
    BY <1>4, <1>6, <1>7, <1>8 DEF ReaderTypes
<1>10. SeenOK => SeenOK'
  BY <1>1, <1>7 DEF SeenOK, ToldMissing
<1>11. SeenOK => AnswerOK'
  <2> SUFFICES ASSUME SeenOK PROVE AnswerOK'
    OBVIOUS
  <2>1. PICK f \in Nat : /\ f >= reader.cursor /\ Consecutive(p, f)
                         /\ f = reader.cursor \/ NothingUpTo(store, f, reader.cursor)
    BY <1>6
  <2>2. f = reader'.cursor \/ f < marker
    BY <1>7, <2>1 DEF NothingUpTo
  <2>5. reader.cursor < store.next /\ \A j \in 1..Len(store.events) : store.events[j].seq \in Nat
    BY StoredEvents DEF SeenOK
  <2>6. f < store.next
    BY <2>1, <2>5 DEF NothingUpTo
  <2>7. \A j \in 1..Len(store.events) :
          store.events[j].seq <= reader.cursor \/ store.events[j].seq > f
    BY <1>5, <2>1, <2>5 DEF NothingUpTo
  <2>3. ASSUME NEW i \in 1..Len(p)
        PROVE  /\ p[i].seq < store.next
               /\ \A j \in 1..Len(store.events) : store.events[j].seq = p[i].seq => store.events[j] = p[i]
    <3> DEFINE q == store.events
               n == Len(store.events)
    <3>1. PICK k \in 1..n : p[i] = q[k]
      BY <1>6
    <3>2. n \in Nat /\ \A j \in 1..n : q[j].seq = store.next - n + j - 1
      BY <1>3, GaplessMeans DEF Numbered, Transcripts
    <3> HIDE DEF q, n
    <3>3. p[i].seq < store.next
      BY <1>3, <3>1, <3>2
    <3>4. ASSUME NEW j \in 1..n, q[j].seq = p[i].seq PROVE q[j] = p[i]
      <4>1. store.next - n + j - 1 = store.next - n + k - 1
        BY <3>1, <3>2, <3>4
      <4>2. j = k
        BY <1>3, <3>2, <4>1
      <4> QED
        BY <3>1, <4>2
    <3> QED
      BY <3>3, <3>4 DEF q, n
  <2> HIDE DEF marker
  <2>4. BeginsAfter(f)'
    BY <1>1, <1>7, <1>8, <2>1, <2>2, <2>6, <2>7 DEF BeginsAfter
  <2> QED
    BY <1>1, <1>8, <2>3, <2>4 DEF AnswerOK
<1> QED
  BY <1>1, <1>9, <1>10, <1>11 DEF ReaderOK

\* What a reader keeps of an answer.
LEMMA TakeMeans ==
  ASSUME StoreOK, ReaderTypes, Take
  PROVE  /\ UNCHANGED <<store, regressed>>
         /\ reader'.shown = reader.shown \o Later(reader.answer.events, reader.cursor)
         /\ reader'.cursor = CursorAfter(reader)
         /\ reader'.marked = MarkedAfter(reader) /\ reader'.kind = reader.kind
         /\ reader'.answer = NoAnswer
<1> DEFINE x == reader.shown \o Later(reader.answer.events, reader.cursor)
           y == CursorAfter(reader)
           z == MarkedAfter(reader)
           p == [reader EXCEPT !.shown = x, !.cursor = y, !.marked = z]
<1>1. UNCHANGED <<store, regressed>>
  BY DEF Take, Reading, storeVars
<1>2. DOMAIN reader = {"kind", "open", "at", "cursor", "marked", "shown", "answer", "ended"}
  BY DEF StoreOK, ReaderFields
<1>3. reader' = IF reader.ended = "yes"
                THEN [p EXCEPT !.open = FALSE, !.at = "idle", !.answer = NoAnswer]
                ELSE Polling(p)
  BY Zenon DEF Take
<1> HIDE DEF x, y, z
<1>4. /\ DOMAIN p = DOMAIN reader /\ p.shown = x /\ p.cursor = y /\ p.marked = z
      /\ p.kind = reader.kind
  BY <1>2
<1> HIDE DEF p
<1>5. /\ Polling(p).shown = x /\ Polling(p).cursor = y /\ Polling(p).marked = z
      /\ Polling(p).answer = NoAnswer /\ Polling(p).kind = reader.kind
  BY <1>2, <1>4, PollingMeans
<1> DEFINE o == [p EXCEPT !.open = FALSE, !.at = "idle", !.answer = NoAnswer]
<1>6. /\ o.shown = x /\ o.cursor = y /\ o.marked = z /\ o.answer = NoAnswer
      /\ o.kind = reader.kind
  BY <1>2, <1>4
<1> HIDE DEF o
<1>7. reader' = o \/ reader' = Polling(p)
  BY <1>3 DEF o
<1> QED
  BY <1>1, <1>5, <1>6, <1>7 DEF x, y, z

LEMMA TakeTypes ==
  ASSUME StoreOK, ReaderTypes, Take
  PROVE  ReaderTypes'
<1> DEFINE a == reader.answer.events
<1>1. /\ reader.cursor \in Nat /\ reader.marked \in Nat /\ reader.shown \in Seq(Event)
      /\ a \in Seq(Event) /\ reader.answer.marker \in Nat
  BY DEF ReaderTypes
<1>2. Later(a, reader.cursor) \in Seq(Event)
  BY <1>1, LaterType
<1>3. reader'.shown \in Seq(Event)
  <2> DEFINE x == Later(a, reader.cursor)
  <2>1. reader'.shown = reader.shown \o x /\ x \in Seq(Event)
    BY <1>2, TakeMeans
  <2> HIDE DEF x
  <2> QED
    BY <1>1, <2>1
<1>4. reader'.marked \in Nat
  BY <1>1, MaxOfTwo, TakeMeans DEF MarkedAfter
<1>5. CursorAfter(reader) \in Nat
  <2>1. CASE a = <<>>
    BY <1>1, <2>1 DEF CursorAfter
  <2>2. CASE a # <<>>
    <3> HIDE DEF a
    <3>1. Len(a) \in 1..Len(a)
      BY <1>1, <2>2
    <3>2. Last(a) \in Event
      BY <1>1, <3>1 DEF Last
    <3>3. Last(a).seq \in Nat
      BY <3>2 DEF Event
    <3>4. Max({reader.cursor, Last(a).seq}) \in Nat
      BY <1>1, <3>3, MaxOfTwo
    <3> QED
      BY <2>2, <3>4 DEF CursorAfter, a
  <2> QED
    BY <2>1, <2>2
<1>6. reader'.answer.events = <<>> /\ reader'.answer.marker = 0
  BY TakeMeans DEF NoAnswer
<1>7. reader'.cursor \in Nat
  BY <1>5, TakeMeans
<1>8. reader'.answer.events \in Seq(Event) /\ reader'.answer.marker \in Nat
  BY <1>6
<1> QED
  BY <1>3, <1>4, <1>7, <1>8 DEF ReaderTypes

LEMMA ReaderTakes ==
  ASSUME StoreOK, ReaderOK, Take
  PROVE  ReaderOK'
<1> DEFINE a == reader.answer.events
           n == Len(a)
           c == reader.cursor
           old == reader.shown
           new == old \o a
           m == Len(old)
<1>1. ReaderTypes /\ ReaderTypes' /\ UNCHANGED <<store, regressed>>
  BY TakeMeans, TakeTypes DEF ReaderOK
<1>2. CASE regressed
  BY <1>1, <1>2 DEF ReaderOK
<1>3. CASE ~regressed
  <2>1. SeenOK /\ AnswerOK
    BY <1>3 DEF ReaderOK
  <2>2. PICK f \in Nat : BeginsAfter(f)
    BY <2>1 DEF AnswerOK
  <2>3. /\ c \in Nat /\ f >= c /\ Consecutive(a, f) /\ a \in Seq(Event) /\ old \in Seq(Event)
        /\ n \in Nat /\ m \in Nat /\ store.next \in Nat
        /\ reader.marked \in Nat /\ reader.answer.marker \in Nat
    <3>1. /\ a \in Seq(Event) /\ old \in Seq(Event) /\ c \in Nat
          /\ reader.marked \in Nat /\ reader.answer.marker \in Nat
      BY <1>1 DEF ReaderTypes
    <3>2. f >= c /\ Consecutive(a, f)
      BY <2>2 DEF BeginsAfter
    <3> HIDE DEF a, old, c
    <3>3. n \in Nat /\ m \in Nat
      BY <3>1
    <3> QED
      BY <3>1, <3>2, <3>3, StoredEvents
  <2>4. Later(a, c) = a
    <3> HIDE DEF a, c
    <3> QED
      BY <2>3, LaterMeans
  <2>5. reader'.shown = new
    BY <1>1, <2>4, TakeMeans
  <2>6. /\ new \in Seq(Event) /\ Len(new) = m + n
        /\ \A i \in 1..m : new[i] = old[i] /\ old[i].seq <= c
        /\ \A i \in 1..n : new[m + i] = a[i] /\ a[i].seq = f + i
    <3>1. \A i \in 1..m : old[i].seq <= c
      BY <2>1 DEF SeenOK
    <3>2. \A i \in 1..n : a[i].seq = f + i
      BY <2>3 DEF Consecutive
    <3> HIDE DEF a, old, c
    <3>3. new \in Seq(Event) /\ Len(new) = m + n
      BY <2>3
    <3>4. ASSUME NEW i \in 1..m PROVE new[i] = old[i]
      BY <2>3, <3>4
    <3>5. ASSUME NEW i \in 1..n PROVE new[m + i] = a[i]
      BY <2>3, <3>5
    <3> QED
      BY <3>1, <3>2, <3>3, <3>4, <3>5
  <2>7. ASSUME NEW q \in Nat, ToldMissing(q) \/ q < reader.answer.marker PROVE ToldMissing(q)'
    <3> DEFINE x == Max({reader.marked, reader.answer.marker})
    <3>1. /\ reader'.marked = IF reader.kind = "delegate" /\ reader.marked # 0 THEN reader.marked ELSE x
          /\ reader'.kind = reader.kind /\ reader.kind \in {"follow", "delegate"}
      BY <1>1, TakeMeans DEF MarkedAfter, StoreOK, TypeOK
    <3>2. x \in {reader.marked, reader.answer.marker} /\ x >= reader.marked /\ x >= reader.answer.marker
      BY <2>3, MaxOfTwo
    <3> HIDE DEF x
    <3> QED
      BY <2>3, <2>7, <3>1, <3>2 DEF ToldMissing
  <2> DEFINE d == IF n = 0 THEN c ELSE f + n
  <2>8. reader'.cursor = d
    <3>1. reader'.cursor = CursorAfter(reader)
      BY <1>1, TakeMeans
    <3>2. CASE a = <<>>
      BY <3>1, <3>2 DEF CursorAfter
    <3>3. CASE a # <<>>
      <4>1. n # 0 /\ n \in 1..n
        <5> HIDE DEF a
        <5> QED
          BY <2>3, <3>3
      <4>2. Last(a).seq = f + n
        BY <2>6, <4>1 DEF Last
      <4>3. Max({c, f + n}) = f + n
        <5> HIDE DEF c, n
        <5>1. f + n \in Nat /\ f + n > c
          BY <2>3, <4>1
        <5>2. Max({c, f + n}) \in {c, f + n} /\ Max({c, f + n}) >= f + n
          BY <2>3, <5>1, MaxOfTwo
        <5> QED
          BY <2>3, <5>1, <5>2
      <4>4. CursorAfter(reader) = Max({c, Last(a).seq})
        BY <3>3 DEF CursorAfter
      <4> QED
        BY <3>1, <4>1, <4>2, <4>3, <4>4
    <3> QED
      BY <3>2, <3>3
  <2> HIDE DEF new, a, old, m, n, c
  <2>9. d \in Nat /\ d >= c /\ (n # 0 => d = f + n)
    BY <2>3
  <2>10. d < store.next
    <3>1. CASE n = 0
      BY <2>1, <3>1 DEF SeenOK, c
    <3>2. CASE n # 0
      <4>1. n \in 1..n
        BY <2>3, <3>2
      <4>2. a[n].seq < store.next
        BY <2>1, <4>1 DEF AnswerOK, a, n
      <4> QED
        BY <2>6, <2>9, <3>2, <4>1, <4>2
    <3> QED
      BY <3>1, <3>2
  <2>11. \A q \in 1..d : ToldMissing(q)' \/ \E i \in 1..(m + n) : new[i].seq = q
    <3> SUFFICES ASSUME NEW q \in 1..d, ~ToldMissing(q)'
                 PROVE  \E i \in 1..(m + n) : new[i].seq = q
      OBVIOUS
    <3>1. ~ToldMissing(q) /\ ~(q < reader.answer.marker) /\ q \in Nat
      BY <2>7, <2>9
    <3>2. CASE q <= c
      <4>1. PICK i \in 1..m : old[i].seq = q
        BY <2>1, <2>3, <3>1, <3>2 DEF SeenOK, c, old, m
      <4>2. i \in 1..(m + n) /\ new[i].seq = q
        BY <2>3, <2>6, <4>1
      <4> QED
        BY <4>2
    <3>3. CASE q > c
      <4>1. n # 0 /\ d = f + n
        BY <2>3, <2>9, <3>1, <3>3
      <4>2. f = c \/ f < reader.answer.marker
        BY <2>2 DEF BeginsAfter, c
      <4>3. q > f
        BY <2>3, <3>1, <3>3, <4>2
      <4>4. q - f \in 1..n /\ m + (q - f) \in 1..(m + n) /\ f + (q - f) = q
        BY <2>3, <3>1, <4>1, <4>3
      <4>5. new[m + (q - f)].seq = q
        BY <2>6, <4>4
      <4> QED
        BY <4>4, <4>5
    <3> QED
      BY <2>3, <3>1, <3>2, <3>3
  <2>12. ASSUME NEW i \in 1..Len(store.events), store.events[i].seq <= d
         PROVE  \E j \in 1..(m + n) : new[j] = store.events[i]
    <3> DEFINE e == store.events[i].seq
    <3>1. e \in Nat
      BY StoredEvents
    <3>2. CASE e <= c
      <4>1. PICK j \in 1..m : old[j] = store.events[i]
        BY <2>1, <3>2 DEF SeenOK, c, old, m
      <4>2. j \in 1..(m + n) /\ new[j] = store.events[i]
        BY <2>3, <2>6, <4>1
      <4> QED
        BY <4>2
    <3>3. CASE ~(e <= c)
      <4>1. e > f
        BY <2>2, <3>3 DEF BeginsAfter, c
      <4>2. n # 0 /\ e <= f + n
        BY <2>3, <2>9, <2>12, <3>1, <3>3
      <4> HIDE DEF e
      <4>3. e - f \in 1..n /\ m + (e - f) \in 1..(m + n) /\ f + (e - f) = e
        BY <2>3, <3>1, <4>1, <4>2
      <4>4. a[e - f].seq = e /\ new[m + (e - f)] = a[e - f]
        BY <2>6, <4>3
      <4>5. store.events[i] = a[e - f]
        BY <2>1, <4>3, <4>4 DEF AnswerOK, a, n, e
      <4> QED
        BY <4>3, <4>4, <4>5
    <3> QED
      BY <3>2, <3>3
  <2>13. ASSUME NEW i \in 1..(m + n), NEW j \in 1..(m + n), i < j
         PROVE  new[i].seq < new[j].seq
    <3>1. CASE j <= m
      <4>1. i \in 1..m /\ j \in 1..m
        BY <2>3, <2>13, <3>1
      <4> QED
        BY <2>1, <2>6, <2>13, <4>1 DEF SeenOK, old, m
    <3>2. CASE i <= m /\ j > m
      <4>1. i \in 1..m /\ j - m \in 1..n /\ m + (j - m) = j
        BY <2>3, <3>2
      <4>2. new[i] = old[i] /\ old[i].seq <= c /\ new[j].seq = f + (j - m)
        BY <2>6, <4>1
      <4>3. old[i].seq \in Nat
        <5>1. old[i] \in Event
          BY <2>3, <4>1 DEF m
        <5> QED
          BY <5>1 DEF Event
      <4> QED
        BY <2>3, <4>1, <4>2, <4>3
    <3>3. CASE i > m
      <4>1. i - m \in 1..n /\ m + (i - m) = i /\ j - m \in 1..n /\ m + (j - m) = j
        BY <2>3, <2>13, <3>3
      <4>2. new[i].seq = f + (i - m) /\ new[j].seq = f + (j - m)
        BY <2>6, <4>1
      <4> QED
        BY <2>3, <2>13, <4>2
    <3> QED
      BY <2>3, <3>1, <3>2, <3>3
  <2>14. ASSUME NEW i \in 1..(m + n) PROVE new[i].seq <= d
    <3>1. CASE i <= m
      <4>1. i \in 1..m
        BY <2>3, <3>1
      <4>2. new[i] = old[i] /\ old[i].seq <= c /\ old[i] \in Event
        BY <2>3, <2>6, <4>1 DEF m
      <4>3. old[i].seq \in Nat
        BY <4>2 DEF Event
      <4> QED
        BY <2>3, <2>9, <4>2, <4>3
    <3>2. CASE i > m
      <4>1. i - m \in 1..n /\ m + (i - m) = i
        BY <2>3, <3>2
      <4>2. new[i].seq = f + (i - m) /\ n # 0
        <5>1. new[m + (i - m)] = a[i - m] /\ a[i - m].seq = f + (i - m)
          BY <2>6, <4>1
        <5>2. n # 0
          BY <2>3, <4>1
        <5> QED
          BY <4>1, <5>1, <5>2
      <4> QED
        BY <2>3, <2>9, <4>1, <4>2
    <3> QED
      BY <2>3, <3>1, <3>2
  <2> HIDE DEF d
  <2>15. SeenOK'
    BY <1>1, <2>5, <2>6, <2>8, <2>10, <2>11, <2>12, <2>13, <2>14 DEF SeenOK
  <2>16. AnswerOK'
    <3>1. reader'.answer.events = <<>> /\ Len(<<>>) = 0
      BY <1>1, TakeMeans DEF NoAnswer
    <3>2. Consecutive(reader'.answer.events, d)
      BY <3>1 DEF Consecutive
    <3>3. \A j \in 1..Len(store.events) : store.events[j].seq \in Nat
      BY StoredEvents
    <3>4. \A j \in 1..Len(store.events) :
            store.events[j].seq <= d \/ store.events[j].seq > d
      BY <2>9, <3>3
    <3>5. PICK g \in Nat : g = d
      BY <2>9
    <3>6. BeginsAfter(g)'
      BY <1>1, <2>8, <2>10, <3>2, <3>4, <3>5 DEF BeginsAfter
    <3>7. Len(reader'.answer.events) = 0
      BY <3>1
    <3> QED
      BY <3>6, <3>7 DEF AnswerOK
  <2> QED
    BY <1>1, <2>15, <2>16 DEF ReaderOK
<1> QED
  BY <1>2, <1>3

\* Neither pages, nor retention, nor what the reader tries again, nor a crash that
\* loses nothing leave a gap in what a reader has seen that it was not told of
\* (pi_extension_ui.py:848).
THEOREM ReaderMissesNothingSilently == Spec => []NoSilentGap
<1>1. Init => StoreOK /\ ReaderOK
  BY InitStore, InitReader
<1>2. StoreOK /\ ReaderOK /\ [Next]_vars => StoreOK' /\ ReaderOK'
  <2> SUFFICES ASSUME StoreOK, ReaderOK, [Next]_vars PROVE ReaderOK'
    BY StoreStep
  <2>1. ASSUME NEW e \in Epochs, Accept(e) \/ Publish(e) \/ RecordTelemetry(e) PROVE ReaderOK'
    <3>1. UNCHANGED <<reader, store, regressed>>
      BY <2>1 DEF Accept, Publish, RecordTelemetry, TelemetryIdle, storeVars
    <3> QED
      BY <3>1, ReaderAside
  <2>2. ASSUME NEW b \in posts, AppendBatch(b) PROVE ReaderOK'
    BY <2>2, ReaderAppend
  <2>3. CASE Finish \/ Reclaim \/ Compact
    <3>1. UNCHANGED <<reader, store, regressed>>
      BY <2>3 DEF Finish, Reclaim, Compact, storeVars
    <3> QED
      BY <3>1, ReaderAside
  <2>4. CASE Restart
    <3>1. /\ reader' = reader /\ store' = file /\ regressed' = (regressed \/ file # store)
          /\ regressed \in BOOLEAN
      BY <2>4 DEF Restart, StoreOK, TypeOK
    <3>2. regressed' \/ (store' = store /\ regressed' = regressed)
      BY <3>1
    <3> QED
      BY <3>1, <3>2, ReaderAside
  <2>5. CASE Open \/ Close \/ ReadStatus \/ ReadFails
    BY <2>5, ReaderTurns
  <2>6. CASE Read
    BY <2>6, ReaderReads
  <2>7. CASE Take
    BY <2>7, ReaderTakes
  <2>8. CASE UNCHANGED vars
    BY <2>8, ReaderAside DEF vars, storeVars
  <2> QED
    BY <2>1, <2>2, <2>3, <2>4, <2>5, <2>6, <2>7, <2>8 DEF Next
<1>3. StoreOK /\ ReaderOK => NoSilentGap
  <2> SUFFICES ASSUME StoreOK, ReaderOK PROVE NoSilentGap
    OBVIOUS
  <2>1. /\ reader.cursor \in Nat /\ reader.marked \in Nat /\ reader.shown \in Seq(Event)
        /\ DOMAIN reader.shown = 1..Len(reader.shown)
    BY DEF ReaderOK, ReaderTypes
  <2>2. CASE SeenOK
    <3>1. DOMAIN store.events = 1..Len(store.events)
      BY DEF StoreOK, TypeOK, Transcripts
    <3> QED
      BY <2>1, <2>2, <3>1 DEF NoSilentGap, SeenOK, ToSet
  <2> QED
    BY <2>1, <2>2 DEF ReaderOK, NoSilentGap
<1> QED
  BY <1>1, <1>2, <1>3, PTL DEF Spec

=============================================================================
