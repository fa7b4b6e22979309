-------------------------- MODULE DurabilityProofs --------------------------
(***************************************************************************)
(* Proofs about Durability, for any number of tasks, records, reclaims,    *)
(* crashes and failing writes: its type invariant, that what a client was  *)
(* told survives a crash, and that the checkpoint stays behind the         *)
(* journal.                                                                *)
(***************************************************************************)
EXTENDS Durability, JobLifecycleProofs, TLAPS

USE DurabilityConstantsOK

-----------------------------------------------------------------------------
(* The inductive invariant *)

Live == {"QUEUED", "DELIVERED", "RUNNING"}

\* How the statuses of a message and of its job go together.  Only a job that
\* was delivered has a lease, and one that is over has none.
Kept(r) ==
  \/ r = Absent
  \/ /\ r.msg \in BusyMessageStatus /\ r.job \in Live
     /\ r.job = "QUEUED" => r.lease = 0
  \/ /\ r.msg \in {"DONE", "TIMEOUT", "CANCELLED"} /\ r.job \in CanonicalTerminal
     /\ r.lease = 0

\* What memory and the lines of the journal hold.
Memory == {m \in Snapshot : \A t \in Tasks : Kept(m[t])}

\* The lines that a restart trusts are the first n.
Prefix(lines, n) ==
  /\ n \in 0..Len(lines) /\ \A i \in 1..n : lines[i] # Broken
  /\ n = Len(lines) \/ lines[n + 1] = Broken

\* A journal of which n lines are trusted, and one that was never appended to
\* after a line without an end, in which only the last line can be broken.
FileOK(f, n) ==
  /\ f = [lines |-> f.lines, ended |-> f.ended]
  /\ f.lines \in Seq(Memory \cup {Broken}) /\ f.ended \in BOOLEAN
  /\ ~f.ended => f.lines # <<>>
  /\ Prefix(f.lines, n)
BreaksLast(f) ==
  \A i \in 1..Len(f.lines) : f.lines[i] = Broken => i = Len(f.lines) /\ ~f.ended

\* How many lines there can be: a compaction that is due waits for a write that
\* does not fail, and a crash or a failed write may leave one that was not counted.
Bound == MaxRecords - 1 + faults + crashes

\* What the checkpoint says of a task, and a drift, against a state of it.
Fits(e, r) ==
  /\ e.status = "in_flight" => r.lease >= e.epoch \/ r.job \in CanonicalTerminal
  /\ e.status = "recently_settled" => r.job \in CanonicalTerminal
Explains(d, r) ==
  /\ d = "missing_after_restart" => r.job \in CanonicalTerminal
  /\ d = "epoch_changed" => r.lease > 1 \/ r.job \in CanonicalTerminal

\* m is not behind anything that anybody knows of the task.
Covers(m, t) ==
  AtLeast(m[t], told[t]) /\ Fits(checkpoint[t], m[t]) /\ Explains(drifted[t], m[t])

NothingLost ==
  /\ BreaksLast(file)
  /\ \A t \in Tasks : Covers(Recoverable(file), t)
  /\ up => \A t \in Tasks : Covers(store.tasks, t)

\* A write that raised may have left a line that memory did not count.
Counted(n) == n <= Bound /\ (up => n <= records + faults)

IInv ==
  /\ TypeOK /\ records <= Bound
  /\ store.tasks \in Memory
  /\ \A t \in Tasks : checkpoint[t].status = "none" <=> checkpoint[t].epoch = 0
  /\ \E n \in Nat : FileOK(file, n) /\ Counted(n)
  /\ ~glued => NothingLost

-----------------------------------------------------------------------------
(* The journal *)

\* What a restart trusts is determined by the first broken line.
LEMMA PrefixIsValid ==
  ASSUME NEW S, NEW lines \in Seq(S), NEW n, Prefix(lines, n)
  PROVE  ValidLines(lines) = SubSeq(lines, 1, n)
<1> DEFINE P(k) == /\ \A i \in 1..k : lines[i] # Broken
                   /\ k = Len(lines) \/ lines[k + 1] = Broken
<1>1. n \in 0..Len(lines) /\ P(n)
  BY DEF Prefix
<1>2. ASSUME NEW k \in 0..Len(lines), P(k) PROVE k = n
  <2>1. Len(lines) \in Nat
    OBVIOUS
  <2>2. CASE k < n
    BY <1>1, <1>2, <2>1, <2>2
  <2>3. CASE n < k
    BY <1>1, <1>2, <2>1, <2>3
  <2> QED BY <1>1, <2>1, <2>2, <2>3
<1>3. (CHOOSE k \in 0..Len(lines) : P(k)) = n
  <2> HIDE DEF P
  <2> QED BY <1>1, <1>2
<1> QED
  BY <1>3 DEF ValidLines

LEMMA RecoverableIs ==
  ASSUME NEW f, NEW n, FileOK(f, n)
  PROVE  Recoverable(f) = IF n = 0 THEN Nothing ELSE f.lines[n]
<1>1. n \in Nat /\ n <= Len(f.lines) /\ ValidLines(f.lines) = SubSeq(f.lines, 1, n)
  BY PrefixIsValid DEF FileOK, Prefix
<1>2. SubSeq(f.lines, 1, n) \in Seq(Memory \cup {Broken})
      /\ Len(SubSeq(f.lines, 1, n)) = n
      /\ \A i \in 1..n : SubSeq(f.lines, 1, n)[i] = f.lines[i]
  BY <1>1 DEF FileOK
<1>3. CASE n = 0
  BY <1>1, <1>2, <1>3 DEF Recoverable, LatestOf
<1>4. CASE n # 0
  <2>1. SubSeq(f.lines, 1, n) # <<>>
    BY <1>2, <1>4
  <2> QED
    BY <1>1, <1>2, <1>4, <2>1 DEF Recoverable, LatestOf, Last
<1> QED BY <1>3, <1>4

LEMMA NothingOK == Nothing \in Memory
BY DEF Nothing, Memory, Snapshot, TaskState, Absent, MessageStatus, Kept

LEMMA RecoverableOK ==
  ASSUME NEW f, NEW n, FileOK(f, n)
  PROVE  Recoverable(f) \in Memory
<1>1. n = 0 \/ (n \in 1..Len(f.lines) /\ f.lines[n] # Broken)
  BY DEF FileOK, Prefix
<1>2. n # 0 => f.lines[n] \in Memory \cup {Broken}
  BY <1>1 DEF FileOK
<1> QED BY <1>1, <1>2, RecoverableIs, NothingOK

LEMMA MemoryIsNotBroken == ASSUME NEW m \in Memory PROVE m # Broken
BY BrokenOK DEF Memory

\* A line written after one that is ended is the last one; if it is a snapshot
\* and nothing before is broken, it is what will be restored.
LEMMA AppendedEnded ==
  ASSUME NEW f, NEW n, FileOK(f, n), f.ended, NEW x \in Memory \cup {Broken}
  PROVE  LET g == Appended(f, x) IN
         /\ \E k \in Nat : FileOK(g, k) /\ k <= n + 1 /\ (x = Broken => k = n)
         /\ g.lines # <<>>
         /\ BreaksLast(f) /\ x # Broken => BreaksLast(g) /\ Recoverable(g) = x
         /\ BreaksLast(f) /\ x = Broken => BreaksLast(Unended(g)) /\ Recoverable(g) = Recoverable(f)
<1> DEFINE g == Appended(f, x)  k == IF n = Len(f.lines) /\ x # Broken THEN n + 1 ELSE n
<1>1. g = [lines |-> Append(f.lines, x), ended |-> TRUE]
  BY DEF Appended
<1>2. f.lines \in Seq(Memory \cup {Broken}) /\ n \in 0..Len(f.lines) /\ Len(f.lines) \in Nat
  BY DEF FileOK, Prefix
<1>3. /\ g.lines \in Seq(Memory \cup {Broken}) /\ Len(g.lines) = Len(f.lines) + 1
      /\ \A i \in 1..Len(f.lines) : g.lines[i] = f.lines[i]
      /\ g.lines[Len(f.lines) + 1] = x
  BY <1>1, <1>2
<1>4. Prefix(g.lines, k)
  <2>1. Prefix(f.lines, n)
    BY DEF FileOK
  <2> HIDE DEF g
  <2>2. CASE n < Len(f.lines)
    <3>1. /\ k = n /\ n \in 0..Len(g.lines) /\ \A i \in 1..n : g.lines[i] # Broken
          /\ n + 1 \in 1..Len(f.lines) /\ f.lines[n + 1] = Broken
      <4>1. n \in Nat /\ k = n /\ n \in 0..Len(g.lines) /\ n + 1 \in 1..Len(f.lines)
        BY <1>2, <1>3, <2>1, <2>2 DEF Prefix
      <4>2. \A i \in 1..n : g.lines[i] # Broken
        <5> SUFFICES ASSUME NEW i \in 1..n PROVE g.lines[i] # Broken
          OBVIOUS
        <5>1. i \in 1..Len(f.lines) /\ f.lines[i] # Broken
          BY <1>2, <2>1, <2>2 DEF Prefix
        <5> QED BY <1>3, <5>1
      <4>3. f.lines[n + 1] = Broken
        BY <2>1, <2>2, <4>1 DEF Prefix
      <4> QED BY <4>1, <4>2, <4>3
    <3>2. g.lines[n + 1] = Broken
      BY <1>3, <3>1
    <3> QED BY <3>1, <3>2 DEF Prefix
  <2>3. CASE n = Len(f.lines)
    BY <1>2, <1>3, <2>1, <2>3 DEF Prefix
  <2> QED BY <1>2, <2>2, <2>3
<1>5. g.lines # <<>>
  BY <1>2, <1>3
<1>6. FileOK(g, k)
  BY <1>1, <1>3, <1>4, <1>5 DEF FileOK
<1>7. ASSUME BreaksLast(f) PROVE \A i \in 1..Len(f.lines) : f.lines[i] # Broken
  BY <1>7 DEF BreaksLast
<1>8. ASSUME BreaksLast(f) PROVE n = Len(f.lines)
  BY <1>2, <1>7, <1>8 DEF FileOK, Prefix
<1>9. ASSUME BreaksLast(f), x # Broken PROVE BreaksLast(g) /\ Recoverable(g) = x
  <2>1. BreaksLast(g)
    BY <1>2, <1>3, <1>7, <1>9 DEF BreaksLast
  <2>2. k # 0 /\ g.lines[k] = x
    BY <1>2, <1>3, <1>8, <1>9
  <2> HIDE DEF g, k
  <2> QED BY <1>6, <2>1, <2>2, RecoverableIs
<1>10. ASSUME BreaksLast(f), x = Broken
       PROVE  BreaksLast(Unended(g)) /\ Recoverable(g) = Recoverable(f)
  <2>1. Unended(g) = [lines |-> g.lines, ended |-> FALSE]
    BY DEF Unended
  <2>2. BreaksLast(Unended(g))
    BY <1>2, <1>3, <1>7, <1>10, <2>1 DEF BreaksLast
  <2>3. k = n /\ (n # 0 => g.lines[k] = f.lines[n])
    BY <1>2, <1>3, <1>10
  <2> HIDE DEF g, k
  <2> QED BY <1>6, <2>2, <2>3, RecoverableIs
<1>11. k \in Nat /\ k <= n + 1 /\ (x = Broken => k = n)
  BY <1>2
<1> HIDE DEF g, k
<1>12. \E j \in Nat : FileOK(g, j) /\ j <= n + 1 /\ (x = Broken => j = n)
  BY <1>6, <1>11
<1> QED BY <1>5, <1>9, <1>10, <1>12 DEF g

\* A line that is added to one without an end breaks it, and only less is
\* trusted than was.
LEMMA AppendedUnended ==
  ASSUME NEW f, NEW n, FileOK(f, n), ~f.ended, NEW x
  PROVE  /\ \E k \in Nat : FileOK(Appended(f, x), k) /\ k <= n
         /\ Appended(f, x).lines # <<>>
<1> DEFINE g == Appended(f, x)  k == IF n = Len(f.lines) THEN n - 1 ELSE n
<1>1. /\ f.lines \in Seq(Memory \cup {Broken}) /\ n \in 0..Len(f.lines)
      /\ Len(f.lines) \in Nat /\ Len(f.lines) # 0
  BY DEF FileOK, Prefix
<1>2. g = [lines |-> Append(SubSeq(f.lines, 1, Len(f.lines) - 1), Broken), ended |-> TRUE]
  BY DEF Appended, Front
<1>3. /\ g.lines \in Seq(Memory \cup {Broken}) /\ Len(g.lines) = Len(f.lines)
      /\ \A i \in 1..(Len(f.lines) - 1) : g.lines[i] = f.lines[i]
      /\ g.lines[Len(f.lines)] = Broken
  BY <1>1, <1>2
<1>4. k \in 0..(Len(f.lines) - 1) /\ k <= n
  BY <1>1
<1>5. \A i \in 1..k : g.lines[i] # Broken
  <2> SUFFICES ASSUME NEW i \in 1..k PROVE g.lines[i] # Broken
    OBVIOUS
  <2>1. i \in 1..(Len(f.lines) - 1) /\ i \in 1..n
    BY <1>1, <1>4
  <2>2. f.lines[i] # Broken
    BY <2>1 DEF FileOK, Prefix
  <2> HIDE DEF g
  <2> QED BY <1>3, <2>1, <2>2
<1>6. g.lines[k + 1] = Broken
  <2>1. CASE k + 1 = Len(f.lines)
    BY <1>3, <2>1
  <2>2. CASE k + 1 # Len(f.lines)
    <3>1. k = n /\ k + 1 \in 1..(Len(f.lines) - 1)
      BY <1>1, <1>4, <2>2
    <3>2. f.lines[k + 1] = Broken
      BY <1>1, <3>1 DEF FileOK, Prefix
    <3> HIDE DEF g
    <3> QED BY <1>3, <3>1, <3>2
  <2> QED BY <2>1, <2>2
<1> HIDE DEF k
<1>7. Prefix(g.lines, k)
  <2> HIDE DEF g
  <2> QED BY <1>1, <1>3, <1>4, <1>5, <1>6 DEF Prefix
<1>8. FileOK(g, k)
  BY <1>2, <1>3, <1>7 DEF FileOK
<1>9. g.lines # <<>>
  <2> HIDE DEF g
  <2> QED BY <1>1, <1>3
<1> QED BY <1>1, <1>4, <1>8, <1>9

LEMMA RewrittenOne ==
  ASSUME NEW m \in Memory
  PROVE  FileOK(Rewritten(<<m>>), 1) /\ BreaksLast(Rewritten(<<m>>)) /\ Recoverable(Rewritten(<<m>>)) = m
<1>1. Rewritten(<<m>>) = [lines |-> <<m>>, ended |-> TRUE]
  BY DEF Rewritten
<1>2. m # Broken
  BY MemoryIsNotBroken
<1>3. <<m>> \in Seq(Memory \cup {Broken}) /\ Len(<<m>>) = 1 /\ <<m>>[1] = m /\ <<m>> # <<>>
  OBVIOUS
<1>4. FileOK(Rewritten(<<m>>), 1)
  <2> DEFINE s == <<m>>
  <2>1. Len(s) = 1 /\ s[1] # Broken
    BY <1>2, <1>3
  <2>2. Prefix(s, 1)
    <3> HIDE DEF s
    <3>1. \A i \in 1..1 : s[i] # Broken
      BY <2>1
    <3> QED BY <2>1, <3>1 DEF Prefix
  <2>3. s \in Seq(Memory \cup {Broken}) /\ Rewritten(s) = [lines |-> s, ended |-> TRUE]
    BY <1>1, <1>3
  <2> HIDE DEF s
  <2>4. FileOK(Rewritten(s), 1)
    BY <2>2, <2>3 DEF FileOK
  <2> QED BY <2>4 DEF s
<1>5. BreaksLast(Rewritten(<<m>>))
  BY <1>1, <1>2, <1>3 DEF BreaksLast
<1> QED BY <1>1, <1>3, <1>4, <1>5, RecoverableIs

\* A file whose last line loses its end.
LEMMA UnendedKeeps ==
  ASSUME NEW f, NEW n, FileOK(f, n), f.lines # <<>>
  PROVE  /\ FileOK(Unended(f), n) /\ Recoverable(Unended(f)) = Recoverable(f)
         /\ BreaksLast(f) => BreaksLast(Unended(f))
<1>1. Unended(f) = [lines |-> f.lines, ended |-> FALSE]
  BY DEF Unended
<1>2. FileOK(Unended(f), n)
  BY <1>1 DEF FileOK
<1>3. BreaksLast(f) => BreaksLast(Unended(f))
  BY <1>1 DEF BreaksLast
<1> QED BY <1>1, <1>2, <1>3 DEF Recoverable

\* A broken journal is cut back to what a restart trusts.
LEMMA RepairedKeeps ==
  ASSUME NEW f, NEW n, FileOK(f, n)
  PROVE  /\ FileOK(Repaired(f), n) /\ Recoverable(Repaired(f)) = Recoverable(f)
         /\ Len(ValidLines(f.lines)) = n
         /\ BreaksLast(f) => BreaksLast(Repaired(f))
<1>1. /\ n \in Nat /\ n <= Len(f.lines) /\ f.lines \in Seq(Memory \cup {Broken})
      /\ ValidLines(f.lines) = SubSeq(f.lines, 1, n)
  BY PrefixIsValid DEF FileOK, Prefix
<1> DEFINE v == SubSeq(f.lines, 1, n)
<1>2. v \in Seq(Memory \cup {Broken}) /\ Len(v) = n /\ \A i \in 1..n : v[i] = f.lines[i]
  BY <1>1
<1>3. CASE v = f.lines
  BY <1>1, <1>2, <1>3 DEF Repaired
<1>4. CASE v # f.lines
  <2>1. Repaired(f) = [lines |-> v, ended |-> TRUE]
    BY <1>1, <1>4 DEF Repaired, Rewritten
  <2>2. \A i \in 1..n : v[i] # Broken
    BY <1>1, <1>2 DEF FileOK, Prefix
  <2> HIDE DEF v
  <2>3. Prefix(v, n)
    BY <1>1, <1>2, <2>2 DEF Prefix
  <2>4. FileOK(Repaired(f), n)
    BY <1>2, <2>1, <2>3 DEF FileOK
  <2>5. BreaksLast(Repaired(f))
    BY <1>2, <2>1, <2>2 DEF BreaksLast
  <2>6. n # 0 => v[n] = f.lines[n]
    BY <1>1, <1>2
  <2>7. Recoverable(Repaired(f)) = Recoverable(f)
    BY <2>1, <2>4, <2>6, RecoverableIs
  <2> QED BY <1>1, <1>2, <2>4, <2>5, <2>7 DEF v
<1> QED BY <1>3, <1>4

\* Whatever becomes of the write of m to f.
LEMMA WrittenOK ==
  ASSUME NEW f, NEW n, FileOK(f, n), NEW m \in Memory,
         NEW g \in Raised(f, m) \cup {Rewritten(<<m>>)}
  PROVE  /\ \E k \in Nat : FileOK(g, k) /\ k <= n + 1
         /\ f.ended /\ BreaksLast(f) =>
              BreaksLast(g) /\ Recoverable(g) \in {Recoverable(f), m}
         /\ f.ended /\ BreaksLast(f) /\ g \in {Appended(f, m), Rewritten(<<m>>)} =>
              Recoverable(g) = m
<1>1. n \in Nat /\ m # Broken /\ f.ended \in BOOLEAN
  BY MemoryIsNotBroken DEF FileOK, Prefix
<1>2. ASSUME NEW x \in {Broken, m}
      PROVE  LET a == Appended(f, x) IN
             /\ \E k \in Nat : /\ FileOK(a, k) /\ FileOK(Unended(a), k) /\ k <= n + 1
                               /\ x = Broken => k <= n
             /\ f.ended /\ BreaksLast(f) =>
                  /\ BreaksLast(Unended(a)) /\ (x = m => BreaksLast(a))
                  /\ Recoverable(a) = IF x = Broken THEN Recoverable(f) ELSE m
                  /\ Recoverable(Unended(a)) = Recoverable(a)
  <2> DEFINE a == Appended(f, x)
  <2>1. CASE ~f.ended
    <3>1. PICK k \in Nat : FileOK(a, k) /\ k <= n
      BY <2>1, AppendedUnended
    <3>2. a.lines # <<>>
      BY <2>1, AppendedUnended
    <3>3. FileOK(Unended(a), k)
      BY <3>1, <3>2, UnendedKeeps
    <3>4. k <= n + 1
      BY <1>1, <3>1
    <3> QED BY <2>1, <3>1, <3>3, <3>4
  <2>2. CASE f.ended
    <3>1. x \in Memory \cup {Broken}
      OBVIOUS
    <3>2. /\ \E k \in Nat : FileOK(a, k) /\ k <= n + 1 /\ (x = Broken => k = n)
          /\ a.lines # <<>>
          /\ BreaksLast(f) /\ x # Broken => BreaksLast(a) /\ Recoverable(a) = x
          /\ BreaksLast(f) /\ x = Broken =>
               BreaksLast(Unended(a)) /\ Recoverable(a) = Recoverable(f)
      BY <2>2, <3>1, AppendedEnded
    <3> HIDE DEF a
    <3>3. PICK k \in Nat : FileOK(a, k) /\ k <= n + 1 /\ (x = Broken => k = n)
      BY <3>2
    <3>4. FileOK(Unended(a), k) /\ Recoverable(Unended(a)) = Recoverable(a)
          /\ (BreaksLast(a) => BreaksLast(Unended(a)))
      BY <3>2, <3>3, UnendedKeeps
    <3>5. x = Broken => k <= n
      BY <1>1, <3>3
    <3>6. x = m <=> x # Broken
      BY <1>1
    <3>7. \E j \in Nat : FileOK(a, j) /\ FileOK(Unended(a), j) /\ j <= n + 1 /\ (x = Broken => j <= n)
      BY <3>3, <3>4, <3>5
    <3> QED BY <3>2, <3>4, <3>6, <3>7 DEF a
  <2> QED BY <1>1, <2>1, <2>2
<1>3. FileOK(Rewritten(<<m>>), 1) /\ BreaksLast(Rewritten(<<m>>)) /\ Recoverable(Rewritten(<<m>>)) = m
  BY RewrittenOne
<1>4. n <= n + 1 /\ n <= n /\ 1 \in Nat /\ 1 <= n + 1
  BY <1>1
<1>5. CASE g = f
  BY <1>1, <1>2, <1>3, <1>4, <1>5
<1>6. CASE g = Unended(Appended(f, Broken))
  BY <1>1, <1>2, <1>3, <1>6
<1>7. CASE g \notin {f, Unended(Appended(f, Broken))}
  BY <1>1, <1>2, <1>3, <1>4, <1>7 DEF CutShort, Raised
<1> QED BY <1>5, <1>6, <1>7

-----------------------------------------------------------------------------
(* How far a task has come *)

LEMMA RankIsNat == ASSUME NEW j PROVE Rank(j) \in Nat
BY DEF Rank

\* AtLeast orders what a task can be.
LEMMA OnwardOnward ==
  ASSUME NEW q \in TaskState, NEW r \in TaskState, NEW s \in TaskState,
         AtLeast(q, r), AtLeast(r, s)
  PROVE  AtLeast(q, s)
<1>1. Rank(q.job) \in Nat /\ Rank(r.job) \in Nat /\ Rank(s.job) \in Nat
  BY RankIsNat
<1>2. q.lease \in Nat /\ r.lease \in Nat /\ s.lease \in Nat
  BY DEF TaskState
<1> QED BY <1>1, <1>2 DEF AtLeast

LEMMA OnwardSame == ASSUME NEW r \in TaskState PROVE AtLeast(r, r)
<1>1. Rank(r.job) \in Nat /\ r.lease \in Nat
  BY RankIsNat DEF TaskState
<1> QED BY <1>1 DEF AtLeast

LEMMA FitsOnward ==
  ASSUME NEW q \in TaskState, NEW r \in TaskState, AtLeast(q, r), NEW e \in Entry, Fits(e, r)
  PROVE  Fits(e, q)
<1>1. q.lease \in Nat /\ r.lease \in Nat /\ e.epoch \in Nat
  BY DEF TaskState, Entry
<1> QED BY <1>1 DEF AtLeast, Fits

\* What covers all that is known still does after it has moved on.
LEMMA CoversOnward ==
  ASSUME TypeOK, NEW a \in Memory, NEW b \in Memory, NEW t \in Tasks,
         AtLeast(b[t], a[t]), Covers(a, t)
  PROVE  Covers(b, t)
<1>1. a[t] \in TaskState /\ b[t] \in TaskState /\ told[t] \in TaskState /\ checkpoint[t] \in Entry
  BY DEF Memory, Snapshot, TypeOK, Checkpoint
<1>2. AtLeast(b[t], told[t])
  BY <1>1, OnwardOnward DEF Covers
<1>3. Fits(checkpoint[t], b[t])
  BY <1>1, FitsOnward DEF Covers
<1>4. a[t].lease \in Nat /\ b[t].lease \in Nat
  BY <1>1 DEF TaskState
<1>5. Explains(drifted[t], b[t])
  BY <1>4 DEF Covers, Explains, AtLeast
<1> QED BY <1>2, <1>3, <1>5 DEF Covers

-----------------------------------------------------------------------------
(* A write and the ways in which it is cut short *)

StoreState == [tasks : Memory, inbox : SUBSET Tasks, hand : SUBSET Tasks]
EntriesOK(entries) ==
  entries \in Checkpoint /\ \A t \in Tasks : entries[t].status = "none" <=> entries[t].epoch = 0

LEMMA FileTypes ==
  ASSUME NEW f, NEW n, FileOK(f, n)
  PROVE  f.lines \in Seq(Snapshot \cup {Broken}) /\ f.ended \in BOOLEAN
<1>1. Memory \cup {Broken} \subseteq Snapshot \cup {Broken}
  BY DEF Memory
<1>2. f.lines \in Seq(Memory \cup {Broken})
  BY DEF FileOK
<1>3. f.lines \in Seq(Snapshot \cup {Broken})
  <2>1. Len(f.lines) \in Nat /\ f.lines \in [1..Len(f.lines) -> Memory \cup {Broken}]
    BY <1>2
  <2>2. f.lines \in [1..Len(f.lines) -> Snapshot \cup {Broken}]
    BY <1>1, <2>1
  <2> QED BY <2>1, <2>2
<1> QED BY <1>3 DEF FileOK

LEMMA BoundIsNat == IInv => Bound \in Nat /\ faults \in Nat /\ crashes \in Nat /\ records \in Nat
BY DEF IInv, TypeOK, Bound

\* The append that succeeds, and the compaction after it.
LEMMA JournalOK ==
  ASSUME IInv, NEW f, NEW n, FileOK(f, n), NEW c \in Nat, n <= c + faults, n <= Bound,
         c <= Bound, NEW m \in Memory, Journal(f, c, m), crashes' = crashes
  PROVE  /\ records' \in Nat /\ records' <= Bound' /\ faults' \in 0..MaxFaults /\ Bound' \in Nat
         /\ \E k \in Nat : FileOK(file', k) /\ k <= Bound' /\ k <= records' + faults'
         /\ f.ended /\ BreaksLast(f) => BreaksLast(file') /\ Recoverable(file') = m
<1>1. n \in Nat
  BY DEF FileOK, Prefix
<1>2. faults \in 0..MaxFaults /\ crashes \in Nat
  BY DEF IInv, TypeOK
<1>3. CASE file' = Rewritten(<<m>>) /\ records' = 1 /\ UNCHANGED faults /\ c + 1 >= MaxRecords
  <2>1. FileOK(file', 1) /\ BreaksLast(file') /\ Recoverable(file') = m
    BY <1>3, RewrittenOne
  <2> QED BY <1>2, <1>3, <2>1 DEF Bound
<1>4. CASE /\ file' = Appended(f, m) /\ records' = c + 1
           /\ IF c + 1 < MaxRecords THEN UNCHANGED faults
              ELSE faults < MaxFaults /\ faults' = faults + 1
  <2>1. /\ \E k \in Nat : FileOK(file', k) /\ k <= n + 1
        /\ f.ended /\ BreaksLast(f) => BreaksLast(file') /\ Recoverable(file') = m
    BY <1>4, WrittenOK DEF Raised
  <2>2. faults' \in 0..MaxFaults /\ records' \in Nat /\ records' <= Bound' /\ Bound' \in Nat
    BY <1>2, <1>4 DEF Bound
  <2>3. ASSUME NEW k \in Nat, k <= n + 1 PROVE k <= Bound' /\ k <= records' + faults'
    BY <1>1, <1>2, <1>4, <2>3 DEF Bound
  <2> QED BY <2>1, <2>2, <2>3
<1> QED BY <1>3, <1>4 DEF Journal

\* What IInv needs of a step that may write, put together.
LEMMA Closing ==
  ASSUME IInv, store' \in StoreState, records' \in Nat, records' <= Bound', Bound' \in Nat,
         up' \in BOOLEAN, stopping' \in BOOLEAN,
         NEW k \in Nat, FileOK(file', k), k <= Bound', up' => k <= records' + faults',
         EntriesOK(checkpoint'), drifted' \in [Tasks -> Drift], due' \subseteq Tasks,
         told' \in Snapshot, glued' \in BOOLEAN, crashes' \in 0..MaxCrashes,
         faults' \in 0..MaxFaults, ~glued' => NothingLost'
  PROVE  IInv'
<1>1. file'.lines \in Seq(Snapshot \cup {Broken}) /\ file'.ended \in BOOLEAN
  BY FileTypes
<1>2. store' \in [tasks : Snapshot, inbox : SUBSET Tasks, hand : SUBSET Tasks]
      /\ store'.tasks \in Memory
  BY DEF StoreState, Memory
<1>3. records' \in 0..(MaxRecords + MaxFaults + MaxCrashes)
  <2>1. Bound' = MaxRecords - 1 + faults' + crashes'
    BY DEF Bound
  <2>2. faults' <= MaxFaults /\ crashes' <= MaxCrashes /\ faults' \in Nat /\ crashes' \in Nat
    OBVIOUS
  <2>3. MaxRecords \in Nat /\ MaxFaults \in Nat /\ MaxCrashes \in Nat
    OBVIOUS
  <2>4. records' <= MaxRecords - 1 + faults' + crashes'
    BY <2>1
  <2>5. \A a, b, p, q, r, s \in Nat : a <= r - 1 + p + q /\ p <= s /\ q <= b => a <= r + s + b
    OBVIOUS
  <2>6. records' <= MaxRecords + MaxFaults + MaxCrashes
    BY <2>2, <2>3, <2>4, <2>5
  <2> QED BY <2>3, <2>6
<1>4. TypeOK'
  BY <1>1, <1>2, <1>3 DEF TypeOK, EntriesOK
<1> QED
  BY <1>2, <1>4 DEF IInv, Counted, EntriesOK

\* What holds of the state that a step is about to write: it is not behind
\* anything that is known of a task before the step or after it.
Progress(next, ack, entries) ==
  ~glued => \A t \in Tasks :
    LET r == next.tasks[t] IN
    /\ AtLeast(r, told[t]) /\ AtLeast(r, ack[t])
    /\ Fits(checkpoint[t], r) /\ Fits(entries[t], r)
    /\ Explains(drifted'[t], r) /\ Explains(drifted'[t], Recoverable(file)[t])

\* A write of next to f, which is the journal or what a restart made of it.
LEMMA WriteKeeps ==
  ASSUME IInv, NEW f, NEW n, FileOK(f, n), NEW c \in Nat, n <= c + faults, n <= Bound,
         c <= Bound, ~glued => BreaksLast(f) /\ Recoverable(f) = Recoverable(file),
         NEW next \in StoreState, NEW ack \in Snapshot, NEW entries, EntriesOK(entries),
         Progress(next, ack, entries),
         drifted' \in [Tasks -> Drift], due' = due,
         \/ /\ Journal(f, c, next.tasks) /\ Glues(f)
            /\ store' = next /\ told' = ack /\ checkpoint' \in {entries, checkpoint}
            /\ up' = TRUE /\ UNCHANGED <<stopping, crashes>>
         \/ AppendRaises(f, next) /\ records' = c
         \/ /\ Dies(Raised(f, next.tasks) \cup {file})
            /\ glued' = (glued \/ (~f.ended /\ file' \notin {f, file}))
  PROVE  IInv'
<1>1. /\ records \in Nat /\ Bound \in Nat /\ faults \in Nat /\ crashes \in Nat
      /\ faults \in 0..MaxFaults /\ crashes \in 0..MaxCrashes
      /\ stopping \in BOOLEAN /\ glued \in BOOLEAN /\ f.ended \in BOOLEAN
      /\ told \in Snapshot /\ EntriesOK(checkpoint) /\ due \subseteq Tasks
  BY BoundIsNat DEF IInv, TypeOK, EntriesOK, FileOK
<1>2. next.tasks \in Memory /\ n \in Nat
  BY DEF StoreState, FileOK, Prefix
<1>3. ~glued => \A t \in Tasks : AtLeast(Recoverable(file)[t], told[t]) /\ Fits(checkpoint[t], Recoverable(file)[t])
  BY DEF IInv, NothingLost, Covers
<1> DEFINE m == next.tasks
<1>4. CASE /\ Journal(f, c, m) /\ Glues(f)
           /\ store' = next /\ told' = ack /\ checkpoint' \in {entries, checkpoint}
           /\ up' = TRUE /\ UNCHANGED <<stopping, crashes>>
  <2>1. /\ records' \in Nat /\ records' <= Bound' /\ faults' \in 0..MaxFaults /\ Bound' \in Nat
        /\ \E k \in Nat : FileOK(file', k) /\ k <= Bound' /\ k <= records' + faults'
        /\ f.ended /\ BreaksLast(f) => BreaksLast(file') /\ Recoverable(file') = m
    <3> HIDE DEF m
    <3> QED BY <1>2, <1>4, JournalOK DEF m
  <2>2. PICK k \in Nat : FileOK(file', k) /\ k <= Bound' /\ k <= records' + faults'
    BY <2>1
  <2>4. glued' = (glued \/ ~f.ended)
    BY <1>4 DEF Glues
  <2>5. ASSUME ~glued' PROVE NothingLost'
    <3>1. ~glued /\ f.ended /\ BreaksLast(f)
      BY <1>1, <2>4, <2>5
    <3>2. BreaksLast(file') /\ Recoverable(file') = m /\ store'.tasks = m
      BY <1>4, <2>1, <3>1
    <3>3. ASSUME NEW t \in Tasks PROVE Covers(m, t)'
      BY <1>4, <3>1, <3>3 DEF Progress, Covers
    <3> QED BY <3>2, <3>3 DEF NothingLost, Covers
  <2>6. EntriesOK(checkpoint') /\ glued' \in BOOLEAN
    BY <1>1, <1>4, <2>4
  <2> QED BY <1>1, <1>4, <2>1, <2>2, <2>5, <2>6, Closing
<1>5. CASE AppendRaises(f, next) /\ records' = c
  <2>1. /\ faults < MaxFaults /\ faults' = faults + 1 /\ store' = next /\ up' = TRUE
        /\ file' \in Raised(f, m) /\ UNCHANGED <<stopping, checkpoint, told, crashes>>
        /\ glued' = (glued \/ (~f.ended /\ file' # f))
    BY <1>5 DEF AppendRaises
  <2>2. /\ \E k \in Nat : FileOK(file', k) /\ k <= n + 1
        /\ (f.ended \/ file' = f) /\ BreaksLast(f) =>
             BreaksLast(file') /\ Recoverable(file') \in {Recoverable(f), m}
    <3>1. CASE file' = f
      BY <1>2, <3>1
    <3>2. CASE file' # f
      BY <1>2, <2>1, <3>2, WrittenOK
    <3> QED BY <3>1, <3>2
  <2>3. PICK k \in Nat : FileOK(file', k) /\ k <= n + 1
    BY <2>2
  <2>4. /\ Bound' = Bound + 1 /\ Bound' \in Nat /\ records' \in Nat /\ records' <= Bound'
        /\ k <= Bound' /\ k <= records' + faults' /\ faults' \in 0..MaxFaults
    <3>1. Bound' = Bound + 1
      BY <1>1, <2>1 DEF Bound
    <3> QED BY <1>1, <1>2, <1>5, <2>1, <2>3, <3>1
  <2>5. ASSUME ~glued' PROVE NothingLost'
    <3>1. /\ ~glued /\ (f.ended \/ file' = f) /\ BreaksLast(f)
          /\ Recoverable(f) = Recoverable(file)
      BY <1>1, <2>1, <2>5
    <3>2. /\ BreaksLast(file') /\ Recoverable(file') \in {Recoverable(file), m}
          /\ store'.tasks = m
      BY <2>1, <2>2, <3>1
    <3>3. ASSUME NEW t \in Tasks, NEW r \in {m[t], Recoverable(file)[t]}
          PROVE  AtLeast(r, told'[t]) /\ Fits(checkpoint'[t], r) /\ Explains(drifted'[t], r)
      BY <1>3, <2>1, <3>1, <3>3 DEF Progress
    <3> QED BY <3>2, <3>3 DEF NothingLost, Covers
  <2>6. EntriesOK(checkpoint') /\ glued' \in BOOLEAN
    BY <1>1, <2>1
  <2> QED BY <1>1, <2>1, <2>3, <2>4, <2>5, <2>6, Closing
<1>6. CASE /\ Dies(Raised(f, m) \cup {file})
           /\ glued' = (glued \/ (~f.ended /\ file' \notin {f, file}))
  <2>1. /\ crashes < MaxCrashes /\ crashes' = crashes + 1
        /\ store' = Stopped /\ records' = 0 /\ up' = FALSE /\ stopping' = FALSE
        /\ file' \in Raised(f, m) \cup {file}
        /\ UNCHANGED <<checkpoint, told, faults>>
    BY <1>6 DEF Dies
  <2>2. PICK j \in Nat : FileOK(file, j) /\ j <= Bound
    BY DEF IInv, Counted
  <2>3. /\ \E k \in Nat : FileOK(file', k) /\ k <= Bound + 1
        /\ (f.ended \/ file' \in {f, file}) /\ BreaksLast(f) /\ Recoverable(f) = Recoverable(file)
             /\ BreaksLast(file)
             => BreaksLast(file') /\ Recoverable(file') \in {Recoverable(file), m}
    <3>1. n <= Bound /\ n <= Bound + 1 /\ n + 1 <= Bound + 1 /\ j <= Bound + 1
      BY <1>1, <1>2, <2>2
    <3>2. CASE file' \in {f, file}
      BY <1>2, <2>2, <3>1, <3>2
    <3>3. CASE file' \notin {f, file}
      <4>1. file' \in Raised(f, m)
        BY <2>1, <3>3
      <4>2. /\ \E k \in Nat : FileOK(file', k) /\ k <= n + 1
            /\ f.ended /\ BreaksLast(f) => BreaksLast(file') /\ Recoverable(file') \in {Recoverable(f), m}
        BY <1>2, <4>1, WrittenOK
      <4>3. \A k \in Nat : k <= n + 1 => k <= Bound + 1
        BY <1>1, <1>2, <3>1
      <4> QED BY <3>3, <4>2, <4>3
    <3> QED BY <3>2, <3>3
  <2>4. PICK k \in Nat : FileOK(file', k) /\ k <= Bound + 1
    BY <2>3
  <2>5. /\ Bound' = Bound + 1 /\ Bound' \in Nat /\ records' \in Nat /\ records' <= Bound'
        /\ crashes' \in 0..MaxCrashes
    <3>1. Bound' = Bound + 1
      BY <1>1, <2>1 DEF Bound
    <3> QED BY <1>1, <2>1, <3>1
  <2>6. ASSUME ~glued' PROVE NothingLost'
    <3>1. /\ ~glued /\ (f.ended \/ file' \in {f, file}) /\ BreaksLast(f)
          /\ Recoverable(f) = Recoverable(file) /\ BreaksLast(file)
      BY <1>1, <1>6, <2>6 DEF IInv, NothingLost
    <3>2. BreaksLast(file') /\ Recoverable(file') \in {Recoverable(file), m}
      BY <2>3, <3>1
    <3>3. ASSUME NEW t \in Tasks, NEW r \in {m[t], Recoverable(file)[t]}
          PROVE  AtLeast(r, told'[t]) /\ Fits(checkpoint'[t], r) /\ Explains(drifted'[t], r)
      BY <1>3, <2>1, <3>1, <3>3 DEF Progress
    <3> QED BY <2>1, <3>2, <3>3 DEF NothingLost, Covers
  <2>7. Stopped \in StoreState /\ EntriesOK(checkpoint') /\ glued' \in BOOLEAN
    BY <1>1, <1>6, <2>1, NothingOK DEF Stopped, StoreState
  <2> QED BY <1>1, <2>1, <2>4, <2>5, <2>6, <2>7, Closing
<1> QED BY <1>4, <1>5, <1>6

-----------------------------------------------------------------------------
(* What operations make of memory and of the checkpoint *)

LEMMA StoreOK == IInv => store \in StoreState
BY DEF IInv, TypeOK, StoreState

LEMMA MemoryTask ==
  ASSUME NEW m \in Memory, NEW t \in Tasks
  PROVE  m[t] \in TaskState /\ Kept(m[t])
BY DEF Memory, Snapshot

\* A busy message that is settled settles its job and drops the lease; one that
\* starts running starts its job.
LEMMA SettledMove ==
  ASSUME NEW r \in TaskState, Kept(r), Busy(r), NEW s \in {"DONE", "TIMEOUT", "CANCELLED"}
  PROVE  /\ Moved(r, s) = [msg |-> s, job |-> s, lease |-> 0]
         /\ Moved(r, s) \in TaskState /\ Kept(Moved(r, s)) /\ AtLeast(Moved(r, s), r)
<1>1. r.job \in Live
  BY DEF Kept, Busy, Absent, BusyMessageStatus
<1>2. TransitionTo(r.job, s) = s
  BY <1>1, LiveSettles DEF Live
<1>3. Moved(r, s) = [msg |-> s, job |-> s, lease |-> 0]
  BY <1>2 DEF Moved, CanonicalTerminal
<1>4. Moved(r, s) \in TaskState /\ Kept(Moved(r, s))
  BY <1>3 DEF TaskState, Kept, MessageStatus, JobStatus, CanonicalTerminal
<1>5. AtLeast(Moved(r, s), r)
  BY <1>1, <1>3 DEF AtLeast, Rank, Live, CanonicalTerminal
<1> QED BY <1>3, <1>4, <1>5

LEMMA RunningMove ==
  ASSUME NEW r \in TaskState, Kept(r), Busy(r)
  PROVE  /\ Moved(r, "RUNNING") = [msg |-> "RUNNING", job |-> "RUNNING", lease |-> r.lease]
         /\ Moved(r, "RUNNING") \in TaskState /\ Kept(Moved(r, "RUNNING"))
         /\ AtLeast(Moved(r, "RUNNING"), r)
<1>1. r.job \in Live /\ r.lease \in 0..MaxEpoch
  BY DEF Kept, Busy, Absent, BusyMessageStatus, TaskState
<1>2. TransitionTo(r.job, "RUNNING") = "RUNNING"
  BY <1>1, LiveStarts DEF Live
<1>3. Moved(r, "RUNNING") = [msg |-> "RUNNING", job |-> "RUNNING", lease |-> r.lease]
  BY <1>2 DEF Moved, CanonicalTerminal
<1>4. Moved(r, "RUNNING") \in TaskState /\ Kept(Moved(r, "RUNNING"))
  BY <1>1, <1>3 DEF TaskState, Kept, MessageStatus, JobStatus, Live, BusyMessageStatus
<1>5. AtLeast(Moved(r, "RUNNING"), r)
  BY <1>1, <1>3 DEF AtLeast, Rank, Live, CanonicalTerminal
<1> QED BY <1>3, <1>4, <1>5

\* The sweep only settles.
LEMMA SweptOK ==
  ASSUME store.tasks \in Memory
  PROVE  Swept \in Memory /\ \A t \in Tasks : AtLeast(Swept[t], store.tasks[t])
<1>1. ASSUME NEW t \in Tasks
      PROVE  /\ Swept[t] \in TaskState /\ Kept(Swept[t]) /\ AtLeast(Swept[t], store.tasks[t])
  <2>1. store.tasks[t] \in TaskState /\ Kept(store.tasks[t])
    BY MemoryTask
  <2>2. CASE t \in due /\ Busy(store.tasks[t])
    <3>1. Swept[t] = Moved(store.tasks[t], "TIMEOUT")
      BY <2>2 DEF Swept
    <3> QED BY <2>1, <2>2, <3>1, SettledMove
  <2>3. CASE ~(t \in due /\ Busy(store.tasks[t]))
    <3>1. Swept[t] = store.tasks[t]
      BY <2>3 DEF Swept
    <3> QED BY <2>1, <3>1, OnwardSame
  <2> QED BY <2>2, <2>3
<1>2. Swept \in Snapshot
  <2>1. Swept = [t \in Tasks |-> Swept[t]]
    BY DEF Swept
  <2> HIDE DEF Swept
  <2> QED BY <1>1, <2>1 DEF Snapshot
<1> QED BY <1>1, <1>2 DEF Memory

LEMMA WithOK ==
  ASSUME IInv, NEW t \in Tasks, NEW r \in TaskState, Kept(r)
  PROVE  /\ With(t, r) \in StoreState /\ With(t, r).tasks = [Swept EXCEPT ![t] = r]
         /\ \A u \in Tasks : With(t, r).tasks[u] = IF u = t THEN r ELSE Swept[u]
<1>1. Swept \in Memory /\ store \in StoreState
  BY SweptOK, StoreOK DEF IInv
<1> DEFINE m == [Swept EXCEPT ![t] = r]
<1>2. m \in Memory /\ \A u \in Tasks : m[u] = IF u = t THEN r ELSE Swept[u]
  BY <1>1 DEF Memory, Snapshot
<1> HIDE DEF m
<1>3. [store EXCEPT !.tasks = m] \in StoreState /\ [store EXCEPT !.tasks = m].tasks = m
  BY <1>1, <1>2 DEF StoreState
<1> QED BY <1>2, <1>3 DEF With, m

LEMMA Popped ==
  ASSUME NEW s \in StoreState, NEW t \in Tasks
  PROVE  /\ [s EXCEPT !.hand = @ \ {t}] \in StoreState /\ [s EXCEPT !.hand = @ \ {t}].tasks = s.tasks
         /\ [s EXCEPT !.inbox = @ \cup {t}] \in StoreState
         /\ [s EXCEPT !.inbox = @ \cup {t}].tasks = s.tasks
         /\ [s EXCEPT !.inbox = @ \ {t}, !.hand = @ \cup {t}] \in StoreState
         /\ [s EXCEPT !.inbox = @ \ {t}, !.hand = @ \cup {t}].tasks = s.tasks
<1>1. /\ s.hand \ {t} \in SUBSET Tasks /\ s.inbox \cup {t} \in SUBSET Tasks
      /\ s.inbox \ {t} \in SUBSET Tasks /\ s.hand \cup {t} \in SUBSET Tasks
  BY DEF StoreState
<1> QED BY <1>1 DEF StoreState

LEMMA WithPopped ==
  ASSUME IInv, NEW t \in Tasks, NEW r \in TaskState, Kept(r)
  PROVE  LET taken == [With(t, r) EXCEPT !.hand = @ \ {t}]
             put == [With(t, r) EXCEPT !.inbox = @ \cup {t}]
         IN /\ taken \in StoreState /\ taken.tasks = [Swept EXCEPT ![t] = r]
            /\ put \in StoreState /\ put.tasks = [Swept EXCEPT ![t] = r]
            /\ \A u \in Tasks : taken.tasks[u] = IF u = t THEN r ELSE Swept[u]
<1> DEFINE s == With(t, r)
<1>1. /\ s \in StoreState /\ s.tasks = [Swept EXCEPT ![t] = r]
      /\ \A u \in Tasks : s.tasks[u] = IF u = t THEN r ELSE Swept[u]
  BY WithOK
<1> HIDE DEF s
<1>2. /\ [s EXCEPT !.hand = @ \ {t}] \in StoreState /\ [s EXCEPT !.hand = @ \ {t}].tasks = s.tasks
      /\ [s EXCEPT !.inbox = @ \cup {t}] \in StoreState
      /\ [s EXCEPT !.inbox = @ \cup {t}].tasks = s.tasks
  BY <1>1, Popped
<1> QED BY <1>1, <1>2 DEF s

LEMMA UpsertedOK ==
  ASSUME EntriesOK(checkpoint), NEW t \in Tasks, NEW e \in Entry, e.status # "none", e.epoch # 0
  PROVE  /\ EntriesOK(Upserted(t, e)) /\ Upserted(t, e)[t] \in {checkpoint[t], e}
         /\ \A u \in Tasks \ {t} : Upserted(t, e)[u] = checkpoint[u]
BY DEF EntriesOK, Upserted, Checkpoint

LEMMA InFlightOK ==
  ASSUME EntriesOK(checkpoint), NEW t \in Tasks, NEW epoch \in 1..MaxEpoch
  PROVE  /\ EntriesOK(InFlight(t, epoch)) /\ \A u \in Tasks \ {t} : InFlight(t, epoch)[u] = checkpoint[u]
         /\ \/ InFlight(t, epoch)[t] = checkpoint[t]
            \/ \A r \in TaskState : r.lease >= epoch => Fits(InFlight(t, epoch)[t], r)
<1> DEFINE e == [epoch |-> epoch, status |-> "in_flight"]
<1>1. e \in Entry /\ e.status = "in_flight" /\ e.epoch = epoch
  BY DEF Entry
<1> HIDE DEF e
<1>2. \A r \in TaskState : r.lease >= epoch => Fits(e, r)
  BY <1>1 DEF Fits
<1>3. e.status # "none" /\ e.epoch # 0
  BY <1>1
<1> QED BY <1>1, <1>2, <1>3, UpsertedOK DEF InFlight, e

LEMMA SettledOK ==
  ASSUME EntriesOK(checkpoint), NEW t \in Tasks, NEW epoch \in 0..MaxEpoch
  PROVE  /\ EntriesOK(Settled(t, epoch)) /\ \A u \in Tasks \ {t} : Settled(t, epoch)[u] = checkpoint[u]
         /\ \/ Settled(t, epoch)[t] = checkpoint[t]
            \/ \A r \in TaskState : r.job \in CanonicalTerminal => Fits(Settled(t, epoch)[t], r)
<1> DEFINE known == IF epoch > 0 THEN epoch
                    ELSE IF checkpoint[t].status = "in_flight" THEN checkpoint[t].epoch ELSE 0
           e == [epoch |-> known, status |-> "recently_settled"]
<1>1. known \in 0..MaxEpoch
  BY DEF EntriesOK, Checkpoint, Entry
<1>2. CASE known = 0
  BY <1>2 DEF Settled
<1>3. CASE known # 0
  <2>1. Settled(t, epoch) = Upserted(t, e)
    BY <1>3 DEF Settled
  <2> HIDE DEF known
  <2>2. e \in Entry /\ e.status = "recently_settled" /\ e.epoch # 0
    BY <1>1, <1>3 DEF Entry
  <2> HIDE DEF e
  <2>3. \A r \in TaskState : r.job \in CanonicalTerminal => Fits(e, r)
    BY <2>2 DEF Fits
  <2> QED BY <2>1, <2>2, <2>3, UpsertedOK
<1> QED BY <1>2, <1>3

-----------------------------------------------------------------------------
(* Operations *)

\* A recorded mutation that takes no task back.
LEMMA RecordedKeeps ==
  ASSUME IInv, up, NEW next \in StoreState, NEW ack \in Snapshot, NEW entries, EntriesOK(entries),
         \A t \in Tasks : AtLeast(next.tasks[t], store.tasks[t]),
         ~glued => \A t \in Tasks : /\ AtLeast(next.tasks[t], ack[t])
                                    /\ entries[t] = checkpoint[t] \/ Fits(entries[t], next.tasks[t]),
         Recorded(next, ack, entries), UNCHANGED <<due, drifted>>
  PROVE  IInv'
<1>1. PICK n \in Nat : FileOK(file, n) /\ Counted(n)
  BY DEF IInv
<1>2. n <= records + faults /\ n <= Bound /\ records <= Bound /\ records \in Nat
  BY <1>1, BoundIsNat DEF IInv, Counted
<1>3. ~glued => NothingLost
  BY DEF IInv
<1>4. store.tasks \in Memory /\ next.tasks \in Memory /\ TypeOK
  BY DEF IInv, StoreState
<1>5. Progress(next, ack, entries)
  <2> SUFFICES ASSUME ~glued, NEW t \in Tasks
               PROVE  LET r == next.tasks[t] IN
                      /\ AtLeast(r, told[t]) /\ AtLeast(r, ack[t])
                      /\ Fits(checkpoint[t], r) /\ Fits(entries[t], r)
                      /\ Explains(drifted'[t], r) /\ Explains(drifted'[t], Recoverable(file)[t])
    BY DEF Progress
  <2>1. Covers(store.tasks, t) /\ Covers(Recoverable(file), t)
    BY <1>3 DEF NothingLost
  <2>2. Covers(next.tasks, t)
    BY <1>4, <2>1, CoversOnward
  <2>3. AtLeast(next.tasks[t], ack[t]) /\ Fits(entries[t], next.tasks[t])
    <3>1. /\ AtLeast(next.tasks[t], ack[t])
          /\ entries[t] = checkpoint[t] \/ Fits(entries[t], next.tasks[t])
      OBVIOUS
    <3>2. Fits(checkpoint[t], next.tasks[t])
      BY <2>2 DEF Covers
    <3> QED BY <3>1, <3>2
  <2>4. drifted' = drifted
    OBVIOUS
  <2> QED BY <2>1, <2>2, <2>3, <2>4 DEF Covers
<1>6. drifted' \in [Tasks -> Drift] /\ due' = due
  BY DEF IInv, TypeOK
<1>7. ~glued => BreaksLast(file)
  BY <1>3 DEF NothingLost
<1>8. CASE /\ Journal(file, records, next.tasks) /\ Glues(file)
           /\ store' = next /\ told' = ack /\ checkpoint' \in Saved(entries)
           /\ UNCHANGED <<up, stopping, crashes>>
  <2>1. checkpoint' \in {entries, checkpoint} /\ up' = TRUE
    BY <1>8 DEF Saved, IInv, TypeOK
  <2> QED BY <1>1, <1>2, <1>5, <1>6, <1>7, <1>8, <2>1, WriteKeeps
<1>9. CASE AppendRaises(file, next) /\ UNCHANGED records
  BY <1>1, <1>2, <1>5, <1>6, <1>7, <1>9, WriteKeeps
<1>10. CASE /\ Dies(Raised(file, next.tasks))
            /\ glued' = (glued \/ (~file.ended /\ file' # file))
  <2>1. Dies(Raised(file, next.tasks) \cup {file})
    BY <1>10 DEF Dies
  <2>2. glued' = (glued \/ (~file.ended /\ file' \notin {file, file}))
    BY <1>10
  <2> QED BY <1>1, <1>2, <1>5, <1>6, <1>7, <2>1, <2>2, WriteKeeps
<1> QED BY <1>8, <1>9, <1>10 DEF Recorded

\* One that changes a single task and tells its client.
LEMMA TaskWrite ==
  ASSUME IInv, up, NEW t \in Tasks, NEW r \in TaskState, Kept(r), AtLeast(r, store.tasks[t]),
         NEW next \in StoreState, next.tasks = [Swept EXCEPT ![t] = r],
         NEW a \in TaskState, ~glued => AtLeast(r, a),
         NEW entries, EntriesOK(entries), \A u \in Tasks \ {t} : entries[u] = checkpoint[u],
         entries[t] = checkpoint[t] \/ Fits(entries[t], r),
         Recorded(next, Told(t, a), entries), UNCHANGED <<due, drifted>>
  PROVE  IInv'
<1>1. Swept \in Memory /\ (\A u \in Tasks : AtLeast(Swept[u], store.tasks[u])) /\ TypeOK
      /\ store.tasks \in Memory
  BY SweptOK DEF IInv
<1>2. \A u \in Tasks : next.tasks[u] = IF u = t THEN r ELSE Swept[u]
  BY <1>1 DEF Memory, Snapshot
<1>3. \A u \in Tasks : AtLeast(next.tasks[u], store.tasks[u])
  BY <1>1, <1>2
<1>4. Told(t, a) \in Snapshot /\ \A u \in Tasks : Told(t, a)[u] = IF u = t THEN a ELSE told[u]
  BY <1>1 DEF Told, TypeOK, Snapshot
<1>5. ASSUME ~glued, NEW u \in Tasks \ {t} PROVE AtLeast(Swept[u], told[u])
  <2>1. Covers(store.tasks, u)
    BY <1>5 DEF IInv, NothingLost
  <2> QED BY <1>1, <1>5, <2>1, CoversOnward DEF Covers
<1>6. ~glued => \A u \in Tasks : /\ AtLeast(next.tasks[u], Told(t, a)[u])
                                 /\ entries[u] = checkpoint[u] \/ Fits(entries[u], next.tasks[u])
  BY <1>2, <1>4, <1>5
<1> QED BY <1>3, <1>4, <1>6, RecordedKeeps

\* One that only writes what the sweep found, and entries that fit.
LEMMA SweepWrite ==
  ASSUME IInv, up, NEW entries, EntriesOK(entries),
         \A t \in Tasks : entries[t] = checkpoint[t] \/ Fits(entries[t], Swept[t]),
         Recorded([store EXCEPT !.tasks = Swept], told, entries), UNCHANGED <<due, drifted>>
  PROVE  IInv'
<1>1. Swept \in Memory /\ (\A u \in Tasks : AtLeast(Swept[u], store.tasks[u])) /\ TypeOK
      /\ store.tasks \in Memory /\ store \in StoreState /\ told \in Snapshot
  BY SweptOK, StoreOK DEF IInv, TypeOK
<1> DEFINE next == [store EXCEPT !.tasks = Swept]
<1>2. next \in StoreState /\ next.tasks = Swept
  BY <1>1 DEF StoreState
<1> HIDE DEF next
<1>3. ASSUME ~glued, NEW u \in Tasks PROVE AtLeast(Swept[u], told[u])
  <2>1. Covers(store.tasks, u)
    BY <1>3 DEF IInv, NothingLost
  <2> QED BY <1>1, <2>1, CoversOnward DEF Covers
<1> QED BY <1>1, <1>2, <1>3, RecordedKeeps DEF next

\* A step that leaves the journal, the checkpoint and what was told alone.
LEMMA QuietStep ==
  ASSUME IInv, NEW next \in StoreState, store' = next,
         \A t \in Tasks : AtLeast(next.tasks[t], store.tasks[t]),
         UNCHANGED <<records, up, file, checkpoint, drifted, told, glued, crashes, faults>>,
         stopping' \in BOOLEAN, due' \subseteq Tasks
  PROVE  IInv'
<1>1. PICK n \in Nat : FileOK(file, n) /\ Counted(n)
  BY DEF IInv
<1>2. Bound' = Bound /\ Bound \in Nat
  BY BoundIsNat DEF Bound
<1>3. FileOK(file', n) /\ n <= Bound' /\ (up' => n <= records' + faults')
  BY <1>1, <1>2 DEF Counted
<1>4. ASSUME ~glued' PROVE NothingLost'
  <2>1. NothingLost
    BY <1>4 DEF IInv
  <2>2. next.tasks \in Memory /\ store.tasks \in Memory /\ TypeOK
    BY DEF IInv, StoreState
  <2>3. ASSUME up, NEW t \in Tasks PROVE Covers(next.tasks, t)
    BY <2>1, <2>2, <2>3, CoversOnward DEF NothingLost
  <2> QED BY <2>1, <2>3 DEF NothingLost, Covers
<1>5. /\ records' \in Nat /\ records' <= Bound' /\ up' \in BOOLEAN /\ EntriesOK(checkpoint')
      /\ drifted' \in [Tasks -> Drift] /\ told' \in Snapshot /\ glued' \in BOOLEAN
      /\ crashes' \in 0..MaxCrashes /\ faults' \in 0..MaxFaults
  BY <1>2, BoundIsNat DEF IInv, TypeOK, EntriesOK
<1> QED BY <1>2, <1>3, <1>4, <1>5, Closing

\* The broker ends and leaves the journal as it is.
LEMMA EndStep ==
  ASSUME IInv, store' = Stopped, records' = 0, up' = FALSE, stopping' = FALSE,
         UNCHANGED <<file, checkpoint, told, glued, faults, due, drifted>>,
         crashes' \in {crashes, crashes + 1}, crashes' \in 0..MaxCrashes
  PROVE  IInv'
<1>1. PICK n \in Nat : FileOK(file, n) /\ Counted(n)
  BY DEF IInv
<1>2. Bound' \in Nat /\ Bound \in Nat /\ Bound <= Bound'
  BY BoundIsNat DEF Bound
<1>3. FileOK(file', n) /\ n <= Bound'
  BY <1>1, <1>2 DEF Counted
<1>4. ASSUME ~glued' PROVE NothingLost'
  <2>1. NothingLost
    BY <1>4 DEF IInv
  <2> QED BY <2>1 DEF NothingLost, Covers
<1>5. /\ EntriesOK(checkpoint') /\ records' \in Nat /\ records' <= Bound'
      /\ drifted' \in [Tasks -> Drift] /\ told' \in Snapshot /\ glued' \in BOOLEAN
      /\ faults' \in 0..MaxFaults /\ due' \subseteq Tasks
  BY <1>2 DEF IInv, TypeOK, EntriesOK
<1>6. Stopped \in StoreState
  BY NothingOK DEF Stopped, StoreState
<1> QED BY <1>2, <1>3, <1>4, <1>5, <1>6, Closing

LEMMA BusyIsLive ==
  ASSUME NEW r \in TaskState, Kept(r), Busy(r)
  PROVE  r.job \in Live
BY DEF Kept, Busy, Absent, BusyMessageStatus

LEMMA EnqueueInv == ASSUME IInv, NEW t \in Tasks, Enqueue(t) PROVE IInv'
<1> DEFINE r == [msg |-> "QUEUED", job |-> TransitionTo("CREATED", "QUEUED"), lease |-> 0]
           next == [With(t, r) EXCEPT !.inbox = @ \cup {t}]
<1>1. /\ up /\ store.tasks[t] = Absent /\ Recorded(next, Told(t, r), checkpoint)
      /\ UNCHANGED <<due, drifted>>
  BY DEF Enqueue, RecordedOnly
<1>2. r = [msg |-> "QUEUED", job |-> "QUEUED", lease |-> 0]
  BY Queueing
<1>3. r \in TaskState /\ Kept(r)
  BY <1>2 DEF TaskState, Kept, MessageStatus, JobStatus, Live, BusyMessageStatus
<1>4. AtLeast(r, Absent)
  BY <1>2 DEF AtLeast, Absent, Rank, CanonicalTerminal
<1> HIDE DEF r
<1>5. next \in StoreState /\ next.tasks = [Swept EXCEPT ![t] = r]
  BY <1>3, WithPopped
<1> HIDE DEF next
<1>6. EntriesOK(checkpoint) /\ AtLeast(r, r)
  BY <1>3, OnwardSame DEF IInv, TypeOK, EntriesOK
<1> QED BY <1>1, <1>3, <1>4, <1>5, <1>6, TaskWrite

LEMMA PollInv ==
  ASSUME IInv, NEW t \in Tasks, PollTake(t) \/ PollFails(t) \/ PollDeliver(t) PROVE IInv'
<1>1. Swept \in Memory /\ (\A u \in Tasks : AtLeast(Swept[u], store.tasks[u])) /\ TypeOK
      /\ store.tasks \in Memory /\ store \in StoreState
  BY SweptOK, StoreOK DEF IInv
<1>2. Swept[t] \in TaskState /\ Kept(Swept[t]) /\ store.tasks[t] \in TaskState
  BY <1>1, MemoryTask
<1>3. ASSUME NEW next \in StoreState, Unrecorded(next), UNCHANGED due,
             \A u \in Tasks : AtLeast(next.tasks[u], store.tasks[u])
      PROVE  IInv'
  <2>1. /\ store' = next
        /\ UNCHANGED <<records, up, file, checkpoint, drifted, told, glued, crashes, faults>>
        /\ stopping' \in BOOLEAN /\ due' \subseteq Tasks
    BY <1>1, <1>3 DEF Unrecorded, TypeOK
  <2> QED BY <1>3, <2>1, QuietStep
<1>4. CASE PollTake(t)
  <2> DEFINE next == [store EXCEPT !.inbox = @ \ {t}, !.hand = @ \cup {t}]
  <2>1. next \in StoreState /\ next.tasks = store.tasks
    BY <1>1, Popped
  <2>2. \A u \in Tasks : AtLeast(next.tasks[u], store.tasks[u])
    BY <1>1, <2>1, OnwardSame, MemoryTask
  <2>3. Unrecorded(next) /\ UNCHANGED due
    BY <1>4 DEF PollTake
  <2> HIDE DEF next
  <2> QED BY <1>3, <2>1, <2>2, <2>3
<1>5. ASSUME NEW r \in TaskState, Kept(r), AtLeast(r, store.tasks[t]), UNCHANGED due,
             Unrecorded([With(t, r) EXCEPT !.hand = @ \ {t}])
      PROVE  IInv'
  <2> DEFINE next == [With(t, r) EXCEPT !.hand = @ \ {t}]
  <2>1. /\ next \in StoreState
        /\ \A u \in Tasks : next.tasks[u] = IF u = t THEN r ELSE Swept[u]
    BY <1>5, WithPopped
  <2>2. \A u \in Tasks : AtLeast(next.tasks[u], store.tasks[u])
    BY <1>1, <1>5, <2>1
  <2>3. Unrecorded(next)
    BY <1>5
  <2> HIDE DEF next
  <2> QED BY <1>3, <1>5, <2>1, <2>2, <2>3
<1>6. CASE PollFails(t)
  <2> DEFINE r == Swept[t]  d == [r EXCEPT !.msg = "DELIVERED"]
  <2>1. \/ Unrecorded([With(t, r) EXCEPT !.hand = @ \ {t}])
        \/ Busy(r) /\ Unrecorded([With(t, d) EXCEPT !.hand = @ \ {t}])
    BY <1>6 DEF PollFails
  <2>2. UNCHANGED due
    BY <1>6 DEF PollFails
  <2>3. AtLeast(r, store.tasks[t])
    BY <1>1
  <2>4. d \in TaskState /\ d.msg = "DELIVERED" /\ d.job = r.job /\ d.lease = r.lease
    BY <1>2 DEF TaskState, MessageStatus
  <2> HIDE DEF r, d
  <2>5. ASSUME Busy(r) PROVE Kept(d)
    BY <1>2, <2>4, <2>5 DEF r, Kept, Busy, Absent, BusyMessageStatus
  <2>6. AtLeast(d, store.tasks[t])
    BY <2>3, <2>4 DEF AtLeast
  <2> QED BY <1>2, <1>5, <2>1, <2>2, <2>3, <2>4, <2>5, <2>6 DEF r
<1>7. CASE PollDeliver(t)
  <2> DEFINE r == Moved(Swept[t], "DELIVERED")
             leased == [r EXCEPT !.lease = IF @ = 0 THEN 1 ELSE @]
             next == [With(t, leased) EXCEPT !.hand = @ \ {t}]
  <2>1. /\ up /\ Busy(Swept[t]) /\ ~TransitionRaises(Swept[t].job, "DELIVERED")
        /\ Recorded(next, Told(t, leased), InFlight(t, leased.lease))
        /\ UNCHANGED <<due, drifted>>
    BY <1>7 DEF PollDeliver
  <2>2. Swept[t].job \in {"QUEUED", "DELIVERED"}
    BY <1>2, <2>1, BusyIsLive, Delivering DEF Live
  <2>3. r = [msg |-> "DELIVERED", job |-> "DELIVERED", lease |-> Swept[t].lease]
    BY <2>2, Delivering DEF Moved, CanonicalTerminal
  <2>4. r \in TaskState /\ Swept[t].lease \in 0..MaxEpoch
    BY <1>2, <2>3 DEF TaskState, MessageStatus, JobStatus
  <2>5. /\ r.msg = "DELIVERED" /\ r.job = "DELIVERED" /\ r.lease = Swept[t].lease
    BY <2>3
  <2> HIDE DEF r
  <2>6. /\ leased \in TaskState /\ leased.msg = "DELIVERED" /\ leased.job = "DELIVERED"
        /\ leased.lease = IF Swept[t].lease = 0 THEN 1 ELSE Swept[t].lease
    <3> DEFINE l == IF r.lease = 0 THEN 1 ELSE r.lease
    <3>1. l \in 0..MaxEpoch
      BY <2>4, <2>5
    <3>2. leased = [r EXCEPT !.lease = l]
      OBVIOUS
    <3> HIDE DEF l
    <3>3. [r EXCEPT !.lease = l] \in TaskState /\ [r EXCEPT !.lease = l].msg = r.msg
          /\ [r EXCEPT !.lease = l].job = r.job /\ [r EXCEPT !.lease = l].lease = l
      BY <2>4, <3>1 DEF TaskState
    <3> QED BY <2>5, <3>2, <3>3 DEF l
  <2> HIDE DEF leased
  <2>7. Kept(leased)
    BY <2>6 DEF Kept, Live, BusyMessageStatus
  <2>8. AtLeast(leased, Swept[t]) /\ leased.lease \in 1..MaxEpoch
    BY <2>2, <2>4, <2>6 DEF AtLeast, Rank, CanonicalTerminal
  <2>9. AtLeast(leased, store.tasks[t]) /\ AtLeast(leased, leased)
    BY <1>1, <1>2, <2>6, <2>8, OnwardOnward, OnwardSame
  <2>10. next \in StoreState /\ next.tasks = [Swept EXCEPT ![t] = leased]
    BY <2>6, <2>7, WithPopped
  <2> HIDE DEF next
  <2>11. EntriesOK(checkpoint)
    BY DEF IInv, TypeOK, EntriesOK
  <2> DEFINE entries == InFlight(t, leased.lease)
  <2>12. /\ EntriesOK(entries) /\ (\A u \in Tasks \ {t} : entries[u] = checkpoint[u])
         /\ (entries[t] = checkpoint[t] \/ Fits(entries[t], leased))
    BY <2>6, <2>8, <2>11, InFlightOK
  <2> HIDE DEF entries
  <2>13. Recorded(next, Told(t, leased), entries)
    BY <2>1 DEF entries
  <2> QED BY <2>1, <2>6, <2>7, <2>9, <2>10, <2>12, <2>13, TaskWrite
<1> QED BY <1>4, <1>6, <1>7

\* A worker or a client changes its task.
LEMMA TaskInv ==
  ASSUME IInv, NEW t \in Tasks, StartRunning(t) \/ Reply(t) \/ CancelWork(t) \/ ReclaimJob(t)
  PROVE  IInv'
<1>1. Swept \in Memory /\ AtLeast(Swept[t], store.tasks[t]) /\ TypeOK /\ store.tasks \in Memory
  BY SweptOK DEF IInv
<1>2. /\ Swept[t] \in TaskState /\ Kept(Swept[t]) /\ store.tasks[t] \in TaskState
      /\ told[t] \in TaskState /\ EntriesOK(checkpoint)
  BY <1>1, MemoryTask DEF TypeOK, Snapshot, IInv, EntriesOK
<1>3. ASSUME NEW r \in TaskState, Kept(r), AtLeast(r, Swept[t]), NEW a \in TaskState,
             ~glued => AtLeast(r, a), up, UNCHANGED <<due, drifted>>,
             NEW entries, EntriesOK(entries), \A u \in Tasks \ {t} : entries[u] = checkpoint[u],
             entries[t] = checkpoint[t] \/ Fits(entries[t], r),
             Recorded(With(t, r), Told(t, a), entries)
      PROVE  IInv'
  <2>1. With(t, r) \in StoreState /\ With(t, r).tasks = [Swept EXCEPT ![t] = r]
    BY <1>3, WithOK
  <2>2. AtLeast(r, store.tasks[t])
    BY <1>1, <1>2, <1>3, OnwardOnward
  <2> DEFINE next == With(t, r)
  <2> HIDE DEF next
  <2>3. /\ next \in StoreState /\ next.tasks = [Swept EXCEPT ![t] = r]
        /\ Recorded(next, Told(t, a), entries)
    BY <1>3, <2>1 DEF next
  <2> QED BY <1>3, <2>2, <2>3, TaskWrite
<1>4. ASSUME ~glued, up PROVE AtLeast(Swept[t], told[t])
  <2>1. Covers(store.tasks, t)
    BY <1>4 DEF IInv, NothingLost
  <2> QED BY <1>1, <1>2, <2>1, OnwardOnward DEF Covers
<1>5. CASE StartRunning(t)
  <2> DEFINE r == Moved(Swept[t], "RUNNING")  a == [r EXCEPT !.lease = told[t].lease]
  <2>1. /\ up /\ Busy(Swept[t]) /\ Recorded(With(t, r), Told(t, a), checkpoint)
        /\ UNCHANGED <<due, drifted>>
    BY <1>5 DEF StartRunning, RecordedOnly
  <2>2. /\ r = [msg |-> "RUNNING", job |-> "RUNNING", lease |-> Swept[t].lease]
        /\ r \in TaskState /\ Kept(r) /\ AtLeast(r, Swept[t])
    BY <1>2, <2>1, RunningMove
  <2> HIDE DEF r
  <2>3. a \in TaskState /\ a.job = r.job /\ a.lease = told[t].lease
    BY <1>2, <2>2 DEF TaskState
  <2> HIDE DEF a
  <2>4. ASSUME ~glued PROVE AtLeast(r, a)
    <3>1. AtLeast(Swept[t], told[t]) /\ AtLeast(r, told[t])
      BY <1>2, <1>4, <2>1, <2>2, <2>4, OnwardOnward
    <3>2. r.job = "RUNNING" /\ r.lease >= told[t].lease
      BY <2>2, <3>1 DEF AtLeast, CanonicalTerminal
    <3>3. Rank(r.job) \in Nat
      BY RankIsNat
    <3> QED BY <2>3, <3>2, <3>3 DEF AtLeast, CanonicalTerminal
  <2> QED BY <1>2, <1>3, <2>1, <2>2, <2>3, <2>4
<1>6. ASSUME NEW s \in {"DONE", "CANCELLED"}, NEW epoch \in 0..MaxEpoch, up, Busy(Swept[t]),
             Recorded(With(t, Moved(Swept[t], s)), Told(t, Moved(Swept[t], s)), Settled(t, epoch)),
             UNCHANGED <<due, drifted>>
      PROVE  IInv'
  <2> DEFINE r == Moved(Swept[t], s)  entries == Settled(t, epoch)
  <2>1. /\ r = [msg |-> s, job |-> s, lease |-> 0]
        /\ r \in TaskState /\ Kept(r) /\ AtLeast(r, Swept[t])
    BY <1>2, <1>6, SettledMove
  <2>2. r.job \in CanonicalTerminal
    BY <2>1 DEF CanonicalTerminal
  <2>3. Recorded(With(t, r), Told(t, r), entries)
    BY <1>6
  <2> HIDE DEF r
  <2>4. /\ EntriesOK(entries) /\ \A u \in Tasks \ {t} : entries[u] = checkpoint[u]
    BY <1>2, <1>6, SettledOK
  <2>5. entries[t] = checkpoint[t] \/ Fits(entries[t], r)
    BY <1>2, <1>6, <2>1, <2>2, SettledOK
  <2> HIDE DEF entries
  <2> QED BY <1>3, <1>6, <2>1, <2>3, <2>4, <2>5, OnwardSame
<1>7. CASE Reply(t)
  <2>1. told[t].lease \in 0..MaxEpoch
    BY <1>2 DEF TaskState
  <2> QED BY <1>6, <1>7, <2>1 DEF Reply
<1>8. CASE CancelWork(t)
  BY <1>6, <1>8 DEF CancelWork
<1>9. CASE ReclaimJob(t)
  <2> DEFINE r == [Swept[t] EXCEPT !.job = "RUNNING", !.lease = @ + 1]
             entries == InFlight(t, r.lease)
  <2>1. /\ up /\ Swept[t].lease \in 1..(MaxEpoch - 1)
        /\ Recorded(With(t, r), Told(t, r), entries) /\ UNCHANGED <<due, drifted>>
    BY <1>9 DEF ReclaimJob
  <2>2. /\ r \in TaskState /\ r.msg = Swept[t].msg /\ r.job = "RUNNING"
        /\ r.lease = Swept[t].lease + 1
    <3> DEFINE q == Swept[t]  l == q.lease + 1
    <3>1. l \in 0..MaxEpoch /\ "RUNNING" \in JobStatus \cup {"NONE"} /\ q \in TaskState
      BY <1>2, <2>1 DEF JobStatus
    <3>2. r = [q EXCEPT !.job = "RUNNING", !.lease = l]
      OBVIOUS
    <3> HIDE DEF q, l
    <3>3. LET x == [q EXCEPT !.job = "RUNNING", !.lease = l] IN
          x \in TaskState /\ x.msg = q.msg /\ x.job = "RUNNING" /\ x.lease = l
      BY <3>1 DEF TaskState
    <3> QED BY <3>2, <3>3 DEF q, l
  <2> HIDE DEF r
  <2>3. Swept[t].msg \in BusyMessageStatus /\ Swept[t].job \in Live
    BY <1>2, <2>1 DEF Kept, Absent
  <2>4. Kept(r)
    BY <2>2, <2>3 DEF Kept, Live
  <2>5. AtLeast(r, Swept[t])
    BY <2>1, <2>2, <2>3 DEF AtLeast, Rank, Live, CanonicalTerminal
  <2>6. r.lease \in 1..MaxEpoch
    BY <2>1, <2>2
  <2>7. /\ EntriesOK(entries) /\ (\A u \in Tasks \ {t} : entries[u] = checkpoint[u])
        /\ entries[t] = checkpoint[t] \/ Fits(entries[t], r)
    <3>1. r.lease >= r.lease
      BY <2>6
    <3> HIDE DEF entries
    <3> QED BY <1>2, <2>2, <2>6, <3>1, InFlightOK DEF entries
  <2> HIDE DEF entries
  <2> QED BY <1>3, <2>1, <2>2, <2>4, <2>5, <2>7, OnwardSame
<1> QED BY <1>5, <1>7, <1>8, <1>9

\* Heartbeats, and everything else that records what its sweep finds.
LEMMA SweepInv ==
  ASSUME IInv, OtherMutation \/ RecordedRead \/ SweepUnrecorded
               \/ \E t \in Tasks : HeartbeatJob(t)
  PROVE  IInv'
<1>1. Swept \in Memory /\ (\A u \in Tasks : AtLeast(Swept[u], store.tasks[u])) /\ TypeOK
      /\ store.tasks \in Memory /\ store \in StoreState /\ EntriesOK(checkpoint)
  BY SweptOK, StoreOK DEF IInv, EntriesOK, TypeOK
<1>2. CASE OtherMutation \/ RecordedRead
  BY <1>1, <1>2, SweepWrite DEF OtherMutation, RecordedRead, RecordedOnly
<1>3. CASE SweepUnrecorded
  <2> DEFINE next == [store EXCEPT !.tasks = Swept]
  <2>1. next \in StoreState /\ next.tasks = Swept
    BY <1>1 DEF StoreState
  <2>2. Unrecorded(next) /\ UNCHANGED due
    BY <1>3 DEF SweepUnrecorded
  <2> HIDE DEF next
  <2>3. /\ store' = next
        /\ UNCHANGED <<records, up, file, checkpoint, drifted, told, glued, crashes, faults>>
        /\ stopping' \in BOOLEAN /\ due' \subseteq Tasks
    BY <1>1, <2>2 DEF Unrecorded, TypeOK
  <2> QED BY <1>1, <2>1, <2>3, QuietStep
<1>4. ASSUME NEW t \in Tasks, HeartbeatJob(t) PROVE IInv'
  <2> DEFINE entries == InFlight(t, told[t].lease)
  <2>1. /\ up /\ told[t].lease > 0 /\ Swept[t].lease = told[t].lease
        /\ Recorded([store EXCEPT !.tasks = Swept], told, entries) /\ UNCHANGED <<due, drifted>>
    BY <1>4 DEF HeartbeatJob, HasTask
  <2>2. Swept[t] \in TaskState /\ told[t].lease \in 1..MaxEpoch /\ Swept[t].lease >= told[t].lease
    BY <1>1, <2>1, MemoryTask DEF TaskState
  <2>3. EntriesOK(entries) /\ \A u \in Tasks : entries[u] = checkpoint[u] \/ Fits(entries[u], Swept[u])
    BY <1>1, <2>2, InFlightOK
  <2> HIDE DEF entries
  <2> QED BY <2>1, <2>3, SweepWrite
<1> QED BY <1>2, <1>3, <1>4

\* Time passes, and the broker ends.
LEMMA QuietInv ==
  ASSUME IInv, (\E t \in Tasks : PassTime(t)) \/ Crash \/ StopSoon \/ Stop
  PROVE  IInv'
<1>1. TypeOK /\ store \in StoreState /\ store.tasks \in Memory
  BY StoreOK DEF IInv
<1>2. \A u \in Tasks : AtLeast(store.tasks[u], store.tasks[u])
  BY <1>1, MemoryTask, OnwardSame
<1>3. CASE (\E t \in Tasks : PassTime(t)) \/ StopSoon
  <2>1. /\ store' = store
        /\ UNCHANGED <<records, up, file, checkpoint, drifted, told, glued, crashes, faults>>
        /\ stopping' \in BOOLEAN /\ due' \subseteq Tasks
    BY <1>1, <1>3 DEF PassTime, StopSoon, TypeOK
  <2> QED BY <1>1, <1>2, <2>1, QuietStep
<1>4. CASE Crash
  <2>1. /\ store' = Stopped /\ records' = 0 /\ up' = FALSE /\ stopping' = FALSE
        /\ UNCHANGED <<file, checkpoint, told, glued, faults, due, drifted>>
        /\ crashes < MaxCrashes /\ crashes' = crashes + 1
    BY <1>4 DEF Crash, Dies
  <2>2. crashes' \in {crashes, crashes + 1} /\ crashes' \in 0..MaxCrashes
    BY <1>1, <2>1 DEF TypeOK
  <2> QED BY <2>1, <2>2, EndStep
<1>5. CASE Stop
  <2>1. /\ store' = Stopped /\ records' = 0 /\ up' = FALSE /\ stopping' = FALSE
        /\ UNCHANGED <<file, checkpoint, told, glued, faults, due, drifted>>
        /\ crashes' \in {crashes, crashes + 1} /\ crashes' \in 0..MaxCrashes
    BY <1>1, <1>5 DEF Stop, TypeOK
  <2> QED BY <2>1, EndStep
<1> QED BY <1>3, <1>4, <1>5

\* A drift is reported only of a task that has moved on, since the checkpoint is
\* not ahead of what is restored.
LEMMA DriftExplained ==
  ASSUME NEW t \in Tasks, NEW m \in Memory, EntriesOK(checkpoint), Fits(checkpoint[t], m[t])
  PROVE  Explains(DriftOf(t, m), m[t])
<1> DEFINE e == checkpoint[t]
<1>1. m[t].lease \in Nat /\ e.epoch \in Nat /\ (e.status # "none" => e.epoch # 0)
  <2>1. m[t] \in TaskState /\ e \in Entry
    BY MemoryTask DEF EntriesOK, Checkpoint
  <2>2. e.status = "none" <=> e.epoch = 0
    BY DEF EntriesOK
  <2>3. m[t].lease \in Nat
    BY <2>1 DEF TaskState
  <2>4. e.epoch \in Nat
    BY <2>1 DEF Entry
  <2> HIDE DEF e
  <2> QED BY <2>2, <2>3, <2>4
<1>2. CASE e.status # "in_flight"
  BY <1>2 DEF DriftOf, Explains
<1>3. CASE e.status = "in_flight" /\ m[t].lease = 0
  BY <1>1, <1>3 DEF DriftOf, Explains, Fits
<1>4. CASE e.status = "in_flight" /\ m[t].lease # 0 /\ m[t].lease = e.epoch
  BY <1>4 DEF DriftOf, Explains
<1>5. CASE e.status = "in_flight" /\ m[t].lease # 0 /\ m[t].lease # e.epoch
  <2>1. DriftOf(t, m) = "epoch_changed"
    BY <1>5 DEF DriftOf
  <2>2. m[t].lease > 1 \/ m[t].job \in CanonicalTerminal
    BY <1>1, <1>5 DEF Fits
  <2> QED BY <2>1, <2>2 DEF Explains
<1> QED BY <1>2, <1>3, <1>4, <1>5

LEMMA RestartInv == ASSUME IInv, Restart PROVE IInv'
<1> DEFINE f == Repaired(file)  m == Recoverable(file)  next == Restored(m)
<1>1. PICK n \in Nat : FileOK(file, n) /\ Counted(n)
  BY DEF IInv
<1>2. /\ FileOK(f, n) /\ Recoverable(f) = m /\ Len(ValidLines(file.lines)) = n
      /\ BreaksLast(file) => BreaksLast(f)
  BY <1>1, RepairedKeeps
<1>3. m \in Memory /\ told \in Snapshot /\ EntriesOK(checkpoint) /\ n \in Nat
      /\ n <= n + faults /\ n <= Bound
  BY <1>1, RecoverableOK DEF IInv, TypeOK, EntriesOK, Counted
<1>4. ~glued => NothingLost
  BY DEF IInv
<1>5. next = [tasks |-> m, inbox |-> {t \in Tasks : Busy(m[t])}, hand |-> {}]
  BY DEF Restored
<1>6. /\ \A t \in Tasks : drifted'[t] = DriftOf(t, m)
      /\ drifted' = [t \in Tasks |-> DriftOf(t, m)]
      /\ Reconciled(f, n, m) /\ due' = due
  BY <1>2 DEF Restart, Reconcile
<1> HIDE DEF f, m
<1>7. next \in StoreState /\ next.tasks = m
  BY <1>3, <1>5 DEF StoreState
<1> HIDE DEF next
<1>8. drifted' \in [Tasks -> Drift]
  <2>1. \A t \in Tasks : DriftOf(t, m) \in Drift
    BY DEF DriftOf, Drift
  <2> QED BY <1>6, <2>1
<1>9. Progress(next, told, checkpoint)
  <2> SUFFICES ASSUME ~glued, NEW t \in Tasks
               PROVE  /\ AtLeast(m[t], told[t]) /\ Fits(checkpoint[t], m[t])
                      /\ Explains(drifted'[t], m[t])
    BY <1>7 DEF Progress, m
  <2>1. AtLeast(m[t], told[t]) /\ Fits(checkpoint[t], m[t])
    BY <1>4 DEF NothingLost, Covers, m
  <2> QED BY <1>3, <1>6, <2>1, DriftExplained
<1>10. ~glued => BreaksLast(f) /\ Recoverable(f) = Recoverable(file)
  BY <1>2, <1>4 DEF NothingLost, m
<1>11. CASE /\ Journal(f, n, m) /\ Glues(f) /\ store' = next /\ up' = TRUE
            /\ UNCHANGED <<stopping, checkpoint, told, crashes>>
  BY <1>1, <1>2, <1>3, <1>6, <1>7, <1>8, <1>9, <1>10, <1>11, WriteKeeps
<1>12. CASE AppendRaises(f, next) /\ records' = n
  BY <1>1, <1>2, <1>3, <1>6, <1>7, <1>8, <1>9, <1>10, <1>12, WriteKeeps
<1>13. CASE /\ Dies(Raised(f, m) \cup {file})
            /\ glued' = (glued \/ (~f.ended /\ file' \notin {f, file}))
  BY <1>1, <1>2, <1>3, <1>6, <1>7, <1>8, <1>9, <1>10, <1>13, WriteKeeps
<1> QED BY <1>6, <1>11, <1>12, <1>13 DEF Reconciled, next

LEMMA InitInv == Init => IInv
<1> SUFFICES ASSUME Init PROVE IInv
  OBVIOUS
<1>1. Nothing \in Memory /\ Nothing \in Snapshot
  BY NothingOK DEF Memory
<1>2. store \in StoreState /\ store.tasks = Nothing
  BY <1>1 DEF Init, Stopped, StoreState
<1>3. file.lines = <<>> /\ file.ended = TRUE /\ FileOK(file, 0)
  BY DEF Init, FileOK, Prefix
<1>4. EntriesOK(checkpoint) /\ \A t \in Tasks : checkpoint[t].status = "none"
  BY DEF Init, NoEntry, EntriesOK, Checkpoint, Entry
<1>5. 0 \in 0..(MaxRecords + MaxFaults + MaxCrashes) /\ 0 <= MaxRecords - 1
  OBVIOUS
<1>6. TypeOK
  <2>1. file.lines \in Seq(Snapshot \cup {Broken}) /\ file.ended \in BOOLEAN
    BY <1>3, FileTypes
  <2>2. store \in [tasks : Snapshot, inbox : SUBSET Tasks, hand : SUBSET Tasks]
    BY <1>2 DEF StoreState, Memory
  <2>3. /\ records \in 0..(MaxRecords + MaxFaults + MaxCrashes)
        /\ crashes \in 0..MaxCrashes /\ faults \in 0..MaxFaults
    BY <1>5 DEF Init
  <2>4. /\ up \in BOOLEAN /\ stopping \in BOOLEAN /\ glued \in BOOLEAN
        /\ checkpoint \in Checkpoint /\ drifted \in [Tasks -> Drift]
        /\ due \subseteq Tasks /\ told \in Snapshot
    BY <1>1, <1>4 DEF Init, EntriesOK, Drift
  <2> QED BY <2>1, <2>2, <2>3, <2>4 DEF TypeOK
<1>7. records = 0 /\ 0 <= Bound /\ Counted(0)
  BY <1>5 DEF Init, Bound, Counted
<1>8. Recoverable(file) = Nothing
  BY <1>3, RecoverableIs
<1>9. NothingLost
  <2>1. BreaksLast(file) /\ ~up
    BY <1>3 DEF Init, BreaksLast
  <2>2. ASSUME NEW t \in Tasks PROVE Covers(Nothing, t)
    <3>1. AtLeast(Nothing[t], told[t])
      BY <1>1, OnwardSame DEF Init, Snapshot
    <3> QED BY <1>4, <3>1 DEF Init, Covers, Fits, Explains
  <2> QED BY <1>8, <2>1, <2>2 DEF NothingLost, Covers
<1> QED BY <1>1, <1>2, <1>3, <1>4, <1>6, <1>7, <1>9 DEF IInv, EntriesOK

LEMMA NextInv == IInv /\ [Next]_vars => IInv'
<1> SUFFICES ASSUME IInv, [Next]_vars PROVE IInv'
  OBVIOUS
<1>1. CASE \E t \in Tasks : TaskStep(t)
  BY <1>1, EnqueueInv, PollInv, TaskInv, SweepInv, QuietInv DEF TaskStep
<1>2. CASE OtherMutation \/ RecordedRead \/ SweepUnrecorded
  BY <1>2, SweepInv
<1>3. CASE Crash \/ StopSoon \/ Stop
  BY <1>3, QuietInv
<1>4. CASE Restart
  BY <1>4, RestartInv
<1>5. CASE UNCHANGED vars
  <2>1. store \in StoreState /\ store.tasks \in Memory
    BY StoreOK DEF IInv
  <2>2. \A t \in Tasks : AtLeast(store.tasks[t], store.tasks[t])
    BY <2>1, MemoryTask, OnwardSame
  <2>3. /\ store' = store /\ stopping' \in BOOLEAN /\ due' \subseteq Tasks
        /\ UNCHANGED <<records, up, file, checkpoint, drifted, told, glued, crashes, faults>>
    BY <1>5 DEF vars, IInv, TypeOK
  <2> QED BY <2>1, <2>2, <2>3, QuietStep
<1> QED BY <1>1, <1>2, <1>3, <1>4, <1>5 DEF Next

\* For any number of tasks, records, reclaims, crashes and failing writes: a
\* restart finds every task at least as far as a client was told it had come,
\* unless something was appended to a line without an end (jsonl.py:507).
THEOREM NothingToldIsLost == Spec => []Durable
<1>1. IInv => Durable
  BY DEF IInv, Durable, NothingLost, Covers
<1> QED
  BY InitInv, NextInv, <1>1, PTL DEF Spec

\* The checkpoint is never ahead of the journal, and a drift that a restart has
\* reported is one of a task that has moved on (service.py:399).
THEOREM CheckpointStaysBehind == Spec => []CheckpointBehindJournal
<1>1. IInv => CheckpointBehindJournal
  BY DEF IInv, CheckpointBehindJournal, NeverAhead, DriftedIsNotLost, NothingLost, Covers, Fits,
         Explains
<1> QED
  BY InitInv, NextInv, <1>1, PTL DEF Spec
=============================================================================
