-------------------------- MODULE LoopEngineProofs --------------------------
(***************************************************************************)
(* Theorems about LoopEngine, for any number of items, attempts and        *)
(* processes.  First the items: each method of a loop item keeps what      *)
(* holds of the items the program stores (Sound), and none loses what an   *)
(* attempt produced (KeepsOutcome), one lemma per method.  Then the        *)
(* engine: the invariant IInv says of every stored item that it is Sound,  *)
(* of every verifier task that its attempt has a text to verify, and of    *)
(* every process that what it carries fits the phase it is in.  Last, the  *)
(* lock under which the engine changes its state (StateLock).              *)
(***************************************************************************)
EXTENDS LoopEngine, StateLock, TLAPS

-----------------------------------------------------------------------------
(* Items *)

\* ValidItem with the strengthening that makes it inductive: attempts not made
\* yet are blank, only the last one may lack a verdict, what is being verified
\* has a result, a done item's has a text, and a rejected item an attempt left.
Sound(it) ==
  /\ it \in Item
  /\ ValidItem(it)
  /\ \A n \in 1..MaxAttempts : n > it.count => it.attempts[n] = NoAttempt
  /\ \A n \in 1..MaxAttempts : Open(it, n) => n = it.count
  /\ it.state = "verifying" => Current(it).result # "none"
  /\ it.state = "done" => Current(it).result = "text"
  /\ it.state = "rejected" => it.count < MaxAttempts

\* What a step may never do to an item.
KeepsOutcome(it, new) ==
  /\ ~Unfinished(it) => new = it
  /\ \A n \in 1..MaxAttempts :
       /\ it.attempts[n].result # "none" => new.attempts[n].result = it.attempts[n].result
       /\ it.attempts[n].verdict # "none" => new.attempts[n] = it.attempts[n]
       /\ new.attempts[n].verdict # it.attempts[n].verdict =>
            n = it.count /\ it.state = "verifying" /\ it.attempts[n].result # "none"

Follows(it, new) == Sound(new) /\ KeepsOutcome(it, new)

-----------------------------------------------------------------------------
(* Steps that leave the attempts alone *)

LEMMA TriagedSound == Sound(TriagedItem)
BY MaxAttemptsOK DEF Sound, ValidItem, TriagedItem, Item, ItemState, NoAttempt, Attempt,
     Open, Active, ActiveStates, Current, Verdict, RealMaker

LEMMA StayFollows == ASSUME NEW it, Sound(it) PROVE Follows(it, it)
BY DEF Follows, KeepsOutcome

\* An item in a state of work has a current attempt, without a verdict.
LEMMA ActiveHasAttempt ==
  ASSUME NEW it, Sound(it), Active(it)
  PROVE  /\ it.count \in 1..MaxAttempts
         /\ Current(it) \in Attempt /\ Current(it).maker # "none"
         /\ Current(it).verdict = "none"
BY MaxAttemptsOK DEF Sound, ValidItem, Item, Open, Current

LEMMA ReadiedFollows ==
  ASSUME NEW it, Sound(it), ReadyAllowed(it)
  PROVE  Follows(it, Readied(it))
<1> DEFINE new == Readied(it)
<1>1. new \in Item
  BY DEF Sound, Item, ItemState, Readied
<1>2. ValidItem(new)
  BY DEF Sound, Item, ValidItem, Readied, ReadyAllowed, Open, Active, ActiveStates, Current
<1>3. Sound(new)
  BY <1>1, <1>2 DEF Sound, Readied, Open, Current, Item
<1>4. KeepsOutcome(it, new)
  BY DEF KeepsOutcome, Readied, ReadyAllowed, Unfinished, Sound, Item
<1> QED BY <1>3, <1>4 DEF Follows

LEMMA BlockedFollows ==
  ASSUME NEW it, Sound(it), Unfinished(it)
  PROVE  Follows(it, Blocked(it))
<1> DEFINE new == Blocked(it)
<1>1. new \in Item
  BY DEF Sound, Item, ItemState, Blocked
<1>2. ValidItem(new)
  BY DEF Sound, Item, ValidItem, Blocked, Open, Active, ActiveStates, Current
<1>3. Sound(new)
  BY <1>1, <1>2 DEF Sound, Blocked, Open, Current, Item
<1>4. KeepsOutcome(it, new)
  BY DEF KeepsOutcome, Blocked, Unfinished, Sound, Item
<1> QED BY <1>3, <1>4 DEF Follows

LEMMA CancelledFollows ==
  ASSUME NEW it, Sound(it), Unfinished(it)
  PROVE  Follows(it, Cancelled(it))
<1> DEFINE new == Cancelled(it)
<1>1. new \in Item
  BY DEF Sound, Item, ItemState, Cancelled
<1>2. ValidItem(new)
  BY DEF Sound, Item, ValidItem, Cancelled, Open, Active, ActiveStates, Current
<1>3. Sound(new)
  BY <1>1, <1>2 DEF Sound, Cancelled, Open, Current, Item
<1>4. KeepsOutcome(it, new)
  BY DEF KeepsOutcome, Cancelled, Unfinished, Sound, Item
<1> QED BY <1>3, <1>4 DEF Follows

LEMMA DispatchConfirmedFollows ==
  ASSUME NEW it, Sound(it), it.state = "dispatching", Current(it).maker # "reserved"
  PROVE  Follows(it, DispatchConfirmed(it))
<1> DEFINE new == DispatchConfirmed(it)
<1>1. new \in Item
  BY DEF Sound, Item, ItemState, DispatchConfirmed
<1>2. Active(it)
  BY DEF Active, ActiveStates
<1>3. Current(it).maker \in RealMaker
  BY <1>2, ActiveHasAttempt DEF Attempt
<1>4. ValidItem(new)
  BY <1>3 DEF Sound, Item, ValidItem, DispatchConfirmed, Open, Active, ActiveStates, Current
<1>5. Sound(new)
  BY <1>1, <1>4 DEF Sound, DispatchConfirmed, Open, Current, Item
<1>6. KeepsOutcome(it, new)
  BY DEF KeepsOutcome, DispatchConfirmed, Unfinished, Sound, Item
<1> QED BY <1>5, <1>6 DEF Follows

LEMMA LateFollows ==
  ASSUME NEW it, Sound(it), Unfinished(it)
  PROVE  Follows(it, [it EXCEPT !.late = TRUE])
<1> DEFINE new == [it EXCEPT !.late = TRUE]
<1>1. new \in Item
  BY DEF Sound, Item
<1>2. ValidItem(new)
  BY DEF Sound, Item, ValidItem, Open, Active, Current
<1>3. Sound(new)
  BY <1>1, <1>2 DEF Sound, Open, Current, Item
<1>4. KeepsOutcome(it, new)
  BY DEF KeepsOutcome, Unfinished, Sound, Item
<1> QED BY <1>3, <1>4 DEF Follows

-----------------------------------------------------------------------------
(* Steps that change the number of attempts *)

LEMMA DispatchedFollows ==
  ASSUME NEW it, Sound(it), DispatchAllowed(it)
  PROVE  Follows(it, Dispatched(it))
<1> DEFINE new == Dispatched(it)
           c == it.count + 1
<1>1. c \in 1..MaxAttempts /\ it.count \in 0..MaxAttempts
  BY MaxAttemptsOK DEF Sound, Item, DispatchAllowed
<1>2. NewAttempt \in Attempt /\ NewAttempt.maker = "reserved"
      /\ NewAttempt.result = "none" /\ NewAttempt.verdict = "none" /\ ~NewAttempt.verifying
  BY DEF NewAttempt, NoAttempt, Attempt
<1>3. [it.attempts EXCEPT ![c] = NewAttempt] \in [1..MaxAttempts -> Attempt]
  BY <1>2 DEF Sound, Item
<1> DEFINE started == [it EXCEPT !.state = "dispatching", !.attempts[c] = NewAttempt]
<1>4. new \in Item
  <2>1. started \in Item
    BY <1>3 DEF Sound, Item, ItemState
  <2>2. new = [started EXCEPT !.count = c, !.late = FALSE]
    BY DEF Dispatched, Sound, Item
  <2>3. c \in 0..MaxAttempts
    BY <1>1, MaxAttemptsOK
  <2> HIDE DEF new, started, c
  <2> QED BY <2>1, <2>2, <2>3 DEF Item
<1>5. /\ new.state = "dispatching" /\ new.count = c
      /\ new.attempts[c] = NewAttempt
      /\ \A n \in 1..MaxAttempts : n # c => new.attempts[n] = it.attempts[n]
  BY <1>1 DEF Sound, Item, Dispatched
<1>6. \A n \in 1..MaxAttempts : ~Open(it, n)
  BY DEF Sound, ValidItem, DispatchAllowed
<1>7. \A n \in 1..MaxAttempts : Open(new, n) <=> n = c
  BY <1>1, <1>2, <1>5, <1>6, MaxAttemptsOK DEF Open
<1>8. \A n \in 1..MaxAttempts : new.attempts[n].maker # "none" <=> n <= new.count
  BY <1>1, <1>2, <1>5, MaxAttemptsOK DEF Sound, ValidItem
<1>9. ValidItem(new)
  BY <1>1, <1>2, <1>5, <1>7, <1>8 DEF ValidItem, Active, Current
<1>10. Sound(new)
  BY <1>1, <1>4, <1>5, <1>7, <1>9, MaxAttemptsOK DEF Sound
<1>11. it.attempts[c].result = "none" /\ it.attempts[c].verdict = "none"
  BY <1>1 DEF Sound, NoAttempt
<1>12. KeepsOutcome(it, new)
  BY <1>2, <1>5, <1>11 DEF KeepsOutcome, DispatchAllowed, Unfinished
<1> QED BY <1>10, <1>12 DEF Follows

\* Only an attempt without a result is rolled back.
LEMMA RolledBackFollows ==
  ASSUME NEW it, Sound(it), it.state = "dispatching"
  PROVE  Follows(it, RolledBack(it))
<1> DEFINE new == RolledBack(it)
           c == it.count
<1>1. Active(it)
  BY DEF Active, ActiveStates
<1>2. c \in 1..MaxAttempts /\ Current(it).verdict = "none" /\ Current(it).result = "none"
  BY <1>1, ActiveHasAttempt DEF Sound, ValidItem
<1>3. NoAttempt \in Attempt /\ NoAttempt.maker = "none"
  BY DEF NoAttempt, Attempt
<1>4. [it.attempts EXCEPT ![c] = NoAttempt] \in [1..MaxAttempts -> Attempt]
  BY <1>3 DEF Sound, Item
<1>5. c - 1 \in 0..MaxAttempts
  BY <1>2, MaxAttemptsOK
<1>6. new \in Item
  BY <1>4, <1>5 DEF Sound, Item, ItemState, RolledBack, Moved
<1>7. /\ new.state = "ready" /\ new.count = c - 1
      /\ new.attempts[c] = NoAttempt
      /\ \A n \in 1..MaxAttempts : n # c => new.attempts[n] = it.attempts[n]
  BY <1>2 DEF Sound, Item, RolledBack, Moved
<1>8. \A n \in 1..MaxAttempts : ~Open(new, n)
  <2> SUFFICES ASSUME NEW n \in 1..MaxAttempts, Open(new, n) PROVE FALSE
    OBVIOUS
  <2>1. n \in 1..(c - 1) /\ new.attempts[n].verdict = "none"
    BY <1>7 DEF Open
  <2>2. n # c /\ n \in 1..c
    BY <2>1, <1>2, MaxAttemptsOK
  <2>3. Open(it, n)
    BY <2>1, <2>2, <1>7 DEF Open
  <2> QED BY <2>2, <2>3 DEF Sound
<1>9. \A n \in 1..MaxAttempts : new.attempts[n].maker # "none" <=> n <= new.count
  BY <1>2, <1>3, <1>7, MaxAttemptsOK DEF Sound, ValidItem
<1>10. ValidItem(new)
  BY <1>7, <1>8, <1>9 DEF ValidItem, Active, ActiveStates
<1>11. \A n \in 1..MaxAttempts : n > new.count => new.attempts[n] = NoAttempt
  BY <1>2, <1>7, MaxAttemptsOK DEF Sound
<1>12. Sound(new)
  BY <1>6, <1>7, <1>8, <1>10, <1>11 DEF Sound
<1>13. KeepsOutcome(it, new)
  BY <1>2, <1>7 DEF KeepsOutcome, Unfinished, Current, NoAttempt
<1> QED BY <1>12, <1>13 DEF Follows

-----------------------------------------------------------------------------
(* Steps on the current attempt *)

\* What an item in state s must find in its last attempt a.
Fits(s, a, c) ==
  /\ s \in ActiveStates \cup {"rejected", "blocked", "done"}
  /\ s \in ActiveStates => a.verdict = "none"
  /\ s = "dispatching" => a.result = "none" /\ ~a.verifying
  /\ s = "running" => a.maker \in RealMaker /\ a.result = "none" /\ ~a.verifying
  /\ s = "awaiting_verdict" => a.result # "none" /\ ~a.verifying
  /\ s = "verifying" => a.verifying /\ a.result # "none"
  /\ s = "done" => a.verdict = "accepted" /\ a.result = "text"
  /\ s = "rejected" => a.verdict = "rejected" /\ c < MaxAttempts

LEMMA MovedFollows ==
  ASSUME NEW it, Sound(it), Active(it), NEW s, NEW a \in Attempt, NEW late \in BOOLEAN,
         a.maker # "none", Fits(s, a, it.count),
         Current(it).result # "none" => a.result = Current(it).result,
         a.verdict # "none" => it.state = "verifying"
  PROVE  Follows(it, [Moved(it, s, a) EXCEPT !.late = late])
<1> DEFINE new == [Moved(it, s, a) EXCEPT !.late = late]
           c == it.count
<1>1. c \in 1..MaxAttempts /\ Current(it).verdict = "none"
  BY ActiveHasAttempt
<1>2. [it.attempts EXCEPT ![c] = a] \in [1..MaxAttempts -> Attempt]
  BY DEF Sound, Item
<1>3. s \in ItemState
  BY DEF Fits, ItemState, ActiveStates
<1>4. new \in Item
  BY <1>2, <1>3 DEF Sound, Item, Moved
<1>5. /\ new.state = s /\ new.count = c
      /\ new.attempts[c] = a
      /\ \A n \in 1..MaxAttempts : n # c => new.attempts[n] = it.attempts[n]
  BY <1>1 DEF Sound, Item, Moved
<1>6. Current(new) = a
  BY <1>5 DEF Current
<1>7. \A n \in 1..MaxAttempts : Open(new, n) <=> n = c /\ a.verdict = "none"
  <2> TAKE n \in 1..MaxAttempts
  <2>1. CASE n = c
    BY <2>1, <1>1, <1>5, MaxAttemptsOK DEF Open
  <2>2. CASE n # c
    BY <2>2, <1>5 DEF Open, Sound
  <2> QED BY <2>1, <2>2
<1>8. \A n \in 1..MaxAttempts : new.attempts[n].maker # "none" <=> n <= new.count
  BY <1>1, <1>5, MaxAttemptsOK DEF Sound, ValidItem
<1>9. c > 0
  BY <1>1, MaxAttemptsOK
<1>10. ValidItem(new)
  BY <1>1, <1>5, <1>6, <1>7, <1>8, <1>9 DEF ValidItem, Active, ActiveStates, Fits
<1>11. \A n \in 1..MaxAttempts : n > new.count => new.attempts[n] = NoAttempt
  BY <1>1, <1>5, MaxAttemptsOK DEF Sound
<1>12. Sound(new)
  BY <1>4, <1>5, <1>6, <1>7, <1>10, <1>11 DEF Sound, Fits
<1>13. KeepsOutcome(it, new)
  BY <1>1, <1>5 DEF KeepsOutcome, Unfinished, Active, ActiveStates, Current, Sound
<1> QED BY <1>12, <1>13 DEF Follows

\* Most steps leave the clock alone.
LEMMA MovedInTimeFollows ==
  ASSUME NEW it, Sound(it), Active(it), NEW s, NEW a \in Attempt,
         a.maker # "none", Fits(s, a, it.count),
         Current(it).result # "none" => a.result = Current(it).result,
         a.verdict # "none" => it.state = "verifying"
  PROVE  Follows(it, Moved(it, s, a))
<1>1. it.late \in BOOLEAN /\ Moved(it, s, a) = [Moved(it, s, a) EXCEPT !.late = it.late]
  BY DEF Sound, Item, Moved
<1>2. Follows(it, [Moved(it, s, a) EXCEPT !.late = it.late])
  BY <1>1, MovedFollows
<1> QED BY <1>1, <1>2

LEMMA BrokerTaskRecordedFollows ==
  ASSUME NEW it, Sound(it), it.state = "dispatching", NEW k \in RealMaker
  PROVE  Follows(it, BrokerTaskRecorded(it, k))
<1> DEFINE a == [Current(it) EXCEPT !.maker = k]
<1>1. Active(it)
  BY DEF Active, ActiveStates
<1>2. /\ Current(it) \in Attempt /\ Current(it).verdict = "none"
      /\ Current(it).result = "none" /\ ~Current(it).verifying
  BY <1>1, ActiveHasAttempt DEF Sound, ValidItem
<1>3. a \in Attempt /\ a.maker # "none" /\ a.verdict = "none" /\ a.result = "none"
      /\ ~a.verifying
  BY <1>2 DEF Attempt, RealMaker
<1>4. Fits("dispatching", a, it.count)
  BY <1>3 DEF Fits, ActiveStates
<1> HIDE DEF a
<1>5. Follows(it, [Moved(it, "dispatching", a) EXCEPT !.late = FALSE])
  BY <1>1, <1>2, <1>3, <1>4, MovedFollows
<1> QED BY <1>5 DEF BrokerTaskRecorded, a

\* The engine collects from running, recovery from dispatching too.
LEMMA CollectedFollows ==
  ASSUME NEW it, Sound(it), it.state \in {"dispatching", "running"},
         NEW result \in {"text", "empty"}
  PROVE  Follows(it, Collected(it, result))
<1> DEFINE a == [Current(it) EXCEPT !.result = result]
<1>1. Active(it)
  BY DEF Active, ActiveStates
<1>2. /\ Current(it) \in Attempt /\ Current(it).verdict = "none"
      /\ Current(it).maker # "none"
      /\ Current(it).result = "none" /\ ~Current(it).verifying
  BY <1>1, ActiveHasAttempt DEF Sound, ValidItem
<1>3. a \in Attempt /\ a.maker # "none" /\ a.verdict = "none" /\ a.result # "none"
      /\ ~a.verifying
  BY <1>2 DEF Attempt
<1>4. Fits("awaiting_verdict", a, it.count)
  BY <1>3 DEF Fits, ActiveStates
<1> HIDE DEF a
<1>5. Follows(it, Moved(it, "awaiting_verdict", a))
  BY <1>1, <1>2, <1>3, <1>4, MovedInTimeFollows
<1> QED BY <1>5 DEF Collected, a

LEMMA VerificationStartedFollows ==
  ASSUME NEW it, Sound(it), it.state = "awaiting_verdict"
  PROVE  Follows(it, VerificationStarted(it))
<1> DEFINE a == [Current(it) EXCEPT !.verifying = TRUE]
<1>1. Active(it)
  BY DEF Active, ActiveStates
<1>2. /\ Current(it) \in Attempt /\ Current(it).verdict = "none"
      /\ Current(it).maker # "none" /\ Current(it).result # "none"
  BY <1>1, ActiveHasAttempt DEF Sound, ValidItem
<1>3. a \in Attempt /\ a.maker # "none" /\ a.verdict = "none" /\ a.verifying
      /\ a.result = Current(it).result
  BY <1>2 DEF Attempt
<1>4. Fits("verifying", a, it.count)
  BY <1>2, <1>3 DEF Fits, ActiveStates
<1> HIDE DEF a
<1>5. Follows(it, Moved(it, "verifying", a))
  BY <1>1, <1>2, <1>3, <1>4, MovedInTimeFollows
<1> QED BY <1>5 DEF VerificationStarted, a

LEMMA JudgedFollows ==
  ASSUME NEW it, Sound(it), it.state = "verifying", NEW verdict \in Verdict,
         verdict = "accepted" => Current(it).result = "text"
  PROVE  Follows(it, Judged(it, verdict))
<1> DEFINE a == [Current(it) EXCEPT !.verdict = verdict]
<1>1. Active(it)
  BY DEF Active, ActiveStates
<1>2. /\ it.count \in 1..MaxAttempts
      /\ Current(it) \in Attempt /\ Current(it).maker # "none"
  BY <1>1, ActiveHasAttempt
<1>3. a \in Attempt /\ a.maker # "none" /\ a.verdict = verdict
      /\ a.result = Current(it).result
  BY <1>2 DEF Attempt
<1>4. Fits(AfterVerdict(it, verdict), a, it.count)
  BY <1>2, <1>3 DEF Fits, ActiveStates, AfterVerdict, Verdict
<1> HIDE DEF a
<1>5. Follows(it, Moved(it, AfterVerdict(it, verdict), a))
  BY <1>1, <1>2, <1>3, <1>4, MovedInTimeFollows
<1> QED BY <1>5 DEF Judged, a

-----------------------------------------------------------------------------
(* The engine *)

\* The phases in which a process works on an attempt it looked up.
Engaging == {"sending", "sent", "marked", "collecting", "collected",
             "reserving", "checking", "judging", "judged"}

HasText(its, i, n) == its[i].attempts[n].result = "text"

EngineOK(g, its) ==
  /\ g.at \in Engaging => g.n \in Numbers
  /\ g.at \in {"sending", "sent"} => g.kind \in RealMaker
  /\ g.at = "collected" => g.found \in {"text", "empty"}
  /\ g.at \in {"judging", "judged"} => HasText(its, g.i, g.n)
  /\ g.at = "judged" => g.found \in Verdict

IInv ==
  /\ TypeOK
  /\ \A i \in Items : Sound(item[i])
  /\ VerifiedHaveText
  /\ \A e \in Engines : EngineOK(eng[e], item)

\* What every step does to the items.
ItemsFollow ==
  /\ item' \in [Items -> Item]
  /\ \A i \in Items : Follows(item[i], item'[i])

\* What a step of process e does to the processes.
Only(e, g) ==
  /\ eng' \in [Engines -> Engine]
  /\ eng'[e] = g
  /\ \A f \in Engines \ {e} : eng'[f] = eng[f]

-----------------------------------------------------------------------------
(* Items *)

LEMMA UnchangedFollow == ASSUME IInv, UNCHANGED item PROVE ItemsFollow
BY StayFollows DEF IInv, TypeOK, ItemsFollow

LEMMA WritesFollow ==
  ASSUME IInv, NEW i \in Items, NEW it, Writes(i, it), Follows(item[i], it)
  PROVE  ItemsFollow
<1>1. it \in Item
  BY DEF Follows, Sound
<1>2. item' \in [Items -> Item] /\ item'[i] = it /\ \A j \in Items \ {i} : item'[j] = item[j]
  BY <1>1 DEF IInv, TypeOK, Writes
<1>3. \A j \in Items \ {i} : Follows(item[j], item'[j])
  BY <1>2, StayFollows DEF IInv
<1> QED BY <1>2, <1>3 DEF ItemsFollow

\* Recovery does to each item what one of its methods does, or nothing.
LEMMA RecoveredFollows ==
  ASSUME IInv, NEW i \in Items
  PROVE  Follows(item[i], Recovered(i))
<1> DEFINE it == item[i]
<1>1. Sound(it)
  BY DEF IInv
<1>2. CASE it.state = "dispatching"
  <2>1. Recovered(i) = RecoverDispatching(i) /\ Unfinished(it)
    BY <1>2 DEF Recovered, Unfinished
  <2>2. Follows(it, RolledBack(it)) /\ Follows(it, it) /\ Follows(it, Blocked(it))
        /\ Follows(it, Collected(it, "text"))
    BY <1>1, <1>2, <2>1, RolledBackFollows, StayFollows, BlockedFollows, CollectedFollows
  <2>3. Current(it).maker # "reserved" => Follows(it, DispatchConfirmed(it))
    BY <1>1, <1>2, DispatchConfirmedFollows
  <2> HIDE DEF it
  <2>4. Follows(it, RecoverDispatching(i))
    BY <2>2, <2>3, Zenon DEF RecoverDispatching, it
  <2> QED BY <2>1, <2>4 DEF it
<1>3. CASE it.state = "running"
  <2>1. Recovered(i) = RecoverRunning(i) /\ Unfinished(it)
    BY <1>3 DEF Recovered, Unfinished
  <2>2. Follows(it, it) /\ Follows(it, Blocked(it)) /\ Follows(it, Collected(it, "text"))
    BY <1>1, <1>3, <2>1, StayFollows, BlockedFollows, CollectedFollows
  <2>3. Follows(it, RecoverRunning(i))
    BY <2>2 DEF RecoverRunning
  <2> QED BY <2>1, <2>3
<1>4. CASE it.state = "verifying"
  <2> DEFINE status == Status(VerifyTask(i, it.count))
  <2>1. Recovered(i) = RecoverVerifying(i) /\ Unfinished(it)
    BY <1>4 DEF Recovered, Unfinished
  <2>2. Follows(it, it) /\ Follows(it, Blocked(it))
    BY <1>1, <2>1, StayFollows, BlockedFollows
  <2>3. it.count \in Numbers
    BY <1>1, <1>4, ActiveHasAttempt DEF Active, ActiveStates, Numbers
  <2>4. ASSUME status \in Verdict PROVE Follows(it, Judged(it, status))
    <3>1. task[VerifyTask(i, it.count)] # NoTask
      BY <2>4 DEF Status, NoTask, Verdict
    <3>2. Current(it).result = "text"
      BY <2>3, <3>1 DEF IInv, VerifiedHaveText, HasText, Current
    <3> HIDE DEF status, it
    <3> QED BY <1>1, <1>4, <2>4, <3>2, JudgedFollows
  <2>5. Follows(it, RecoverVerifying(i))
    BY <2>2, <2>4 DEF RecoverVerifying
  <2> QED BY <2>1, <2>5
<1>5. CASE it.state \notin {"dispatching", "running", "verifying"}
  BY <1>1, <1>5, StayFollows DEF Recovered
<1> QED BY <1>2, <1>3, <1>4, <1>5

LEMMA BlockedByEngineFollow ==
  ASSUME IInv, NEW i \in Items, Unfinished(item[i]), Writes(i, Blocked(item[i]))
  PROVE  ItemsFollow
<1>1. Follows(item[i], Blocked(item[i]))
  BY BlockedFollows DEF IInv
<1> QED BY <1>1, WritesFollow

\* The item a process has in hand.
LEMMA EngineTypes ==
  ASSUME IInv, NEW e \in Engines
  PROVE  eng[e] \in Engine /\ eng[e].i \in Items /\ EngineOK(eng[e], item)
BY DEF IInv, TypeOK, Engine

LEMMA TickItems ==
  ASSUME IInv, NEW e \in Engines, TickStep(e) \/ Recover(e) \/ Abandon(e)
  PROVE  ItemsFollow
<1>1. CASE Recover(e)
  <2>1. item' \in [Items -> Item]
    BY <1>1, RecoveredFollows DEF Recover, Follows, Sound
  <2> QED BY <1>1, <2>1, RecoveredFollows DEF Recover, ItemsFollow
<1>2. CASE RecoverWithoutBroker(e)
  <2>1. \A i \in Items : item[i].state \in ActiveStates => Follows(item[i], Blocked(item[i]))
    BY BlockedFollows DEF IInv, Unfinished, ActiveStates
  <2>2. \A i \in Items : Follows(item[i], item'[i])
    BY <1>2, <2>1, StayFollows DEF RecoverWithoutBroker, IInv
  <2>3. item' \in [Items -> Item]
    BY <1>2, <2>2 DEF RecoverWithoutBroker, Follows, Sound
  <2> QED BY <2>2, <2>3 DEF ItemsFollow
<1>3. CASE NextItem(e)
  <2>1. eng[e].i \in Items /\ Sound(item[eng[e].i])
    BY EngineTypes DEF IInv
  <2>2. CASE DispatchAllowed(item[eng[e].i])
    BY <1>3, <2>1, <2>2, DispatchedFollows, WritesFollow DEF NextItem
  <2>3. CASE ~DispatchAllowed(item[eng[e].i])
    BY <1>3, <2>3, UnchangedFollow DEF NextItem
  <2> QED BY <2>2, <2>3
<1>4. CASE WorktreeUnavailable(e)
  BY <1>4, EngineTypes, BlockedByEngineFollow DEF WorktreeUnavailable
<1>5. CASE UNCHANGED item
  BY <1>5, UnchangedFollow
<1> QED
  BY <1>1, <1>2, <1>3, <1>4, <1>5
  DEF TickStep, Abandon, RecoverFails, TickRefuses, TickGoesOn, ListReady, ResolveItem,
      DispatchEnds, AdvanceItem, TickEnds, Look, LookAway

LEMMA MakerItems ==
  ASSUME IInv, NEW e \in Engines, MakerStep(e)
  PROVE  ItemsFollow
<1> DEFINE i == eng[e].i
<1>1. i \in Items /\ Sound(item[i]) /\ EngineOK(eng[e], item)
  BY EngineTypes DEF IInv
<1>2. CASE MarkDispatched(e)
  <2>1. item[i].state = "dispatching" /\ eng[e].kind \in RealMaker
    BY <1>1, <1>2 DEF MarkDispatched, At, EngineOK
  <2> QED BY <1>1, <1>2, <2>1, BrokerTaskRecordedFollows, WritesFollow DEF MarkDispatched
<1>3. CASE MarkRunning(e)
  BY <1>1, <1>3, DispatchConfirmedFollows, WritesFollow DEF MarkRunning, At
<1>4. CASE CollectMaker(e)
  <2>1. item[i].state = "running" /\ eng[e].found \in {"text", "empty"}
    BY <1>1, <1>4 DEF CollectMaker, At, EngineOK
  <2> QED BY <1>1, <1>4, <2>1, CollectedFollows, WritesFollow DEF CollectMaker
<1>5. CASE BlockMakerFailure(e)
  BY <1>1, <1>5, BlockedByEngineFollow DEF BlockMakerFailure
<1>6. CASE UNCHANGED item
  BY <1>6, UnchangedFollow
<1> QED
  BY <1>2, <1>3, <1>4, <1>5, <1>6
  DEF MakerStep, SendMaker, SendMakerFails, AwaitMaker, AwaitMakerFails

LEMMA VerifierItems ==
  ASSUME IInv, NEW e \in Engines, VerifierStep(e)
  PROVE  ItemsFollow
<1> DEFINE i == eng[e].i
<1>1. i \in Items /\ Sound(item[i]) /\ EngineOK(eng[e], item)
  BY EngineTypes DEF IInv
<1>2. CASE ReserveVerification(e)
  BY <1>1, <1>2, VerificationStartedFollows, WritesFollow DEF ReserveVerification, At
<1>3. CASE VerifierUnavailable(e)
  BY <1>1, <1>3, BlockedByEngineFollow DEF VerifierUnavailable
<1>4. CASE ApplyVerdict(e)
  <2>1. item[i].state = "verifying" /\ item[i].count = eng[e].n /\ eng[e].at = "judged"
    BY <1>4 DEF ApplyVerdict, At
  <2>2. eng[e].found \in Verdict /\ Current(item[i]).result = "text"
    BY <1>1, <2>1 DEF EngineOK, HasText, Current
  <2>3. Follows(item[i], Judged(item[i], eng[e].found))
    BY <1>1, <2>1, <2>2, JudgedFollows
  <2> QED BY <1>1, <1>4, <2>3, WritesFollow DEF ApplyVerdict
<1>5. CASE UNCHANGED item
  BY <1>5, UnchangedFollow
<1> QED
  BY <1>2, <1>3, <1>4, <1>5 DEF VerifierStep, SendVerifier, SendVerifierFails, AwaitVerdict

LEMMA OperatorItems ==
  ASSUME IInv, OperatorStep
  PROVE  ItemsFollow
<1>1. ASSUME NEW i \in Items, Ready(i) PROVE ItemsFollow
  BY <1>1, ReadiedFollows, WritesFollow DEF Ready, IInv
<1>2. ASSUME NEW i \in Items, Cancel(i) PROVE ItemsFollow
  BY <1>2, CancelledFollows, WritesFollow DEF Cancel, IInv
<1>3. ASSUME NEW i \in Items, CollectByHand(i) PROVE ItemsFollow
  BY <1>3, CollectedFollows, WritesFollow DEF CollectByHand, IInv
<1>4. ASSUME NEW i \in Items, NEW e \in Engines, NextByHand(e, i) PROVE ItemsFollow
  BY <1>4, DispatchedFollows, WritesFollow DEF NextByHand, IInv
<1>5. CASE UNCHANGED item
  BY <1>5, UnchangedFollow
<1> QED
  BY <1>1, <1>2, <1>3, <1>4, <1>5 DEF OperatorStep, SendByHand, VerifyByHand

LEMMA WorldItems ==
  ASSUME IInv, WorldStep
  PROVE  ItemsFollow
<1>1. ASSUME NEW i \in Items, GrowsLate(i) PROVE ItemsFollow
  <2>1. Unfinished(item[i])
    BY <1>1 DEF GrowsLate, Unfinished
  <2> QED BY <1>1, <2>1, LateFollows, WritesFollow DEF GrowsLate, IInv
<1>2. CASE UNCHANGED item
  BY <1>2, UnchangedFollow
<1> QED
  BY <1>1, <1>2 DEF WorldStep, TaskEnds, BrokerForgets

LEMMA NextItems == ASSUME IInv, [Next]_vars PROVE ItemsFollow
<1>1. CASE UNCHANGED vars
  BY <1>1, UnchangedFollow DEF vars
<1> QED
  BY <1>1, TickItems, MakerItems, VerifierItems, OperatorItems, WorldItems
  DEF Next, EngineStep

-----------------------------------------------------------------------------
(* Tasks *)

\* A text is never lost, so what depends on one goes on to hold.
LEMMA TextStays ==
  ASSUME ItemsFollow, NEW i \in Items, NEW n \in Numbers, HasText(item, i, n)
  PROVE  HasText(item', i, n)
BY DEF ItemsFollow, Follows, KeepsOutcome, HasText, Numbers

TasksOK == task \in [Tasks -> Task] /\ VerifiedHaveText

LEMMA UnchangedTasks == ASSUME IInv, ItemsFollow, UNCHANGED task PROVE TasksOK'
BY TextStays DEF IInv, TypeOK, TasksOK, VerifiedHaveText, HasText

LEMMA MakerTaskSent ==
  ASSUME IInv, ItemsFollow, NEW i \in Items, NEW n \in Numbers, NEW k \in RealMaker,
         Sends(MakerTask(k, i, n))
  PROVE  TasksOK'
<1>1. task' \in [Tasks -> Task]
  BY DEF IInv, TypeOK, Sends, Task
<1>2. \A j \in Items, m \in Numbers : task'[VerifyTask(j, m)] = task[VerifyTask(j, m)]
  BY DEF IInv, TypeOK, Sends, MakerTask, VerifyTask, RealMaker, Tasks
<1> QED BY <1>1, <1>2, TextStays DEF IInv, TasksOK, VerifiedHaveText, HasText

LEMMA VerifyTaskSent ==
  ASSUME IInv, ItemsFollow, NEW i \in Items, NEW n \in Numbers,
         HasText(item, i, n), Sends(VerifyTask(i, n))
  PROVE  TasksOK'
<1>1. task' \in [Tasks -> Task]
  BY DEF IInv, TypeOK, Sends, Task
<1>2. \A j \in Items, m \in Numbers :
        task'[VerifyTask(j, m)] = task[VerifyTask(j, m)] \/ (j = i /\ m = n)
  BY DEF IInv, TypeOK, Sends, VerifyTask, Tasks
<1> QED BY <1>1, <1>2, TextStays DEF IInv, TasksOK, VerifiedHaveText, HasText

LEMMA EngineTasks ==
  ASSUME IInv, ItemsFollow, NEW e \in Engines, Recover(e) \/ EngineStep(e) \/ Abandon(e)
  PROVE  TasksOK'
<1>1. eng[e].i \in Items /\ EngineOK(eng[e], item)
  BY EngineTypes
<1>2. CASE SendMaker(e) \/ SendMakerFails(e)
  <2>1. eng[e].at = "sending"
    BY <1>2 DEF SendMaker, SendMakerFails
  <2>2. eng[e].n \in Numbers /\ eng[e].kind \in RealMaker
    BY <1>1, <2>1 DEF EngineOK, Engaging
  <2> QED BY <1>1, <1>2, <2>2, MakerTaskSent, UnchangedTasks
          DEF SendMaker, SendMakerFails, Sends, Engaged
<1>3. CASE SendVerifier(e) \/ SendVerifierFails(e)
  <2>1. eng[e].n \in Numbers
    BY <1>1, <1>3 DEF EngineOK, Engaging, SendVerifier, SendVerifierFails
  <2> QED BY <1>1, <1>3, <2>1, VerifyTaskSent
          DEF SendVerifier, SendVerifierFails, Sends, HasText
<1>4. CASE UNCHANGED task
  BY <1>4, UnchangedTasks
<1> QED
  BY <1>2, <1>3, <1>4
  DEF EngineStep, TickStep, MakerStep, VerifierStep, Recover, RecoverWithoutBroker,
      RecoverFails, TickRefuses, TickGoesOn, ListReady, ResolveItem, NextItem, WorktreeUnavailable,
      DispatchEnds, AdvanceItem, TickEnds, Look, LookAway, Abandon, MarkDispatched,
      MarkRunning, AwaitMaker, AwaitMakerFails, CollectMaker, BlockMakerFailure,
      ReserveVerification, VerifierUnavailable, AwaitVerdict, ApplyVerdict

LEMMA NextTasks == ASSUME IInv, ItemsFollow, [Next]_vars PROVE TasksOK'
<1>1. ASSUME NEW i \in Items, NEW n \in Numbers, SendByHand(i, n) PROVE TasksOK'
  BY <1>1, MakerTaskSent DEF SendByHand, RealMaker
<1>2. ASSUME NEW k \in Tasks, TaskEnds(k) PROVE TasksOK'
  <2>1. task' \in [Tasks -> Task]
    <3>1. Outcomes(k) \cap Endings \subseteq MakerOutcome \cup VerifierOutcome
      BY DEF Outcomes, MakerOutcome, VerifierOutcome
    <3>2. PICK outcome \in MakerOutcome \cup VerifierOutcome :
            task' = [task EXCEPT ![k] = [pending |-> FALSE, result |-> outcome]]
      BY <1>2, <3>1 DEF TaskEnds
    <3>3. [pending |-> FALSE, result |-> outcome] \in Task
      BY DEF Task
    <3> QED BY <3>2, <3>3 DEF IInv, TypeOK
  <2>2. \A j \in Items, m \in Numbers :
          task'[VerifyTask(j, m)] # NoTask => task[VerifyTask(j, m)] # NoTask
    <3>1. task[k] # NoTask
      BY <1>2 DEF TaskEnds, NoTask
    <3>2. \A l \in Tasks : l # k => task'[l] = task[l]
      BY <1>2 DEF IInv, TypeOK, TaskEnds
    <3>3. \A j \in Items, m \in Numbers : VerifyTask(j, m) \in Tasks
      BY DEF VerifyTask, Tasks
    <3> QED BY <3>1, <3>2, <3>3
  <2> QED BY <1>2, <2>1, <2>2, TextStays DEF IInv, TasksOK, VerifiedHaveText, HasText, TaskEnds
<1>3. CASE BrokerForgets
  <2>1. \A j \in Items, m \in Numbers : VerifyTask(j, m) \in Tasks
    BY DEF VerifyTask, Tasks
  <2> QED BY <1>3, <2>1 DEF BrokerForgets, TasksOK, VerifiedHaveText, NoTask, Task
<1>4. CASE UNCHANGED task
  BY <1>4, UnchangedTasks
<1> QED
  BY <1>1, <1>2, <1>3, <1>4, EngineTasks
  DEF Next, vars, OperatorStep, WorldStep, Ready, Cancel, CollectByHand, NextByHand,
      VerifyByHand, GrowsLate

-----------------------------------------------------------------------------
(* Processes *)

EnginesOK == eng \in [Engines -> Engine] /\ \A e \in Engines : EngineOK(eng[e], item)

\* What a process carries goes on to fit, whoever changes the items.
LEMMA CarriedStays ==
  ASSUME ItemsFollow, NEW g \in Engine, EngineOK(g, item)
  PROVE  EngineOK(g, item')
<1>1. g.i \in Items
  BY DEF Engine
<1>2. g.at \in {"judging", "judged"} => g.n \in Numbers
  BY DEF EngineOK, Engaging
<1> QED BY <1>1, <1>2, TextStays DEF EngineOK

LEMMA UnchangedEngines == ASSUME IInv, ItemsFollow, UNCHANGED eng PROVE EnginesOK'
BY CarriedStays DEF IInv, TypeOK, EnginesOK

LEMMA OnlyEngine ==
  ASSUME IInv, ItemsFollow, NEW e \in Engines, NEW g \in Engine, EngineOK(g, item'),
         eng' = [eng EXCEPT ![e] = g]
  PROVE  EnginesOK'
<1>1. eng' \in [Engines -> Engine] /\ eng'[e] = g
      /\ \A f \in Engines \ {e} : eng'[f] = eng[f] /\ EngineOK(eng[f], item')
  BY CarriedStays DEF IInv, TypeOK
<1> QED BY <1>1 DEF EnginesOK

LEMMA IdleOK == Idle \in Engine
<1>1. SomeItem \in Items
  BY LoopConstantsOK DEF SomeItem
<1>2. 0 \in 0..MaxAttempts
  BY MaxAttemptsOK
<1> QED BY <1>1, <1>2 DEF Idle, Engine, Phases

\* A phase in which a process carries nothing that has to fit.
Light == Phases \ Engaging

LEMMA LightOK == ASSUME NEW g, g.at \in Light, NEW its PROVE EngineOK(g, its)
BY DEF Light, Engaging, EngineOK

LEMMA LightEngine ==
  ASSUME IInv, ItemsFollow, NEW e \in Engines, NEW ph \in Light,
         Goes(e, ph) \/ Afresh(e, ph)
  PROVE  EnginesOK'
<1>1. eng[e] \in Engine /\ Idle \in Engine /\ ph \in Phases
  BY EngineTypes, IdleOK DEF Light
<1>2. PICK g : eng' = [eng EXCEPT ![e] = g] /\ g \in Engine /\ g.at = ph
  <2>1. CASE Goes(e, ph)
    <3>1. eng' = [eng EXCEPT ![e] = [eng[e] EXCEPT !.at = ph]]
      BY <2>1 DEF Goes
    <3>2. [eng[e] EXCEPT !.at = ph] \in Engine /\ [eng[e] EXCEPT !.at = ph].at = ph
      BY <1>1 DEF Engine
    <3> QED BY <3>1, <3>2
  <2>2. CASE Afresh(e, ph)
    <3> DEFINE g == [Idle EXCEPT !.at = ph, !.i = eng[e].i, !.todo = eng[e].todo]
    <3>1. g \in Engine /\ g.at = ph
      BY <1>1 DEF Engine
    <3> QED BY <2>2, <3>1 DEF Afresh
  <2> QED BY <2>1, <2>2
<1> QED BY <1>2, LightOK, OnlyEngine

LEMMA LeavingEngine ==
  ASSUME IInv, ItemsFollow, NEW e \in Engines, Back(e) \/ Ends(e)
  PROVE  EnginesOK'
<1>1. eng[e] \in Engine /\ Idle \in Engine
  BY EngineTypes, IdleOK
<1>2. CASE Ends(e)
  <2>1. Idle.at \in Light
    BY DEF Idle, Light, Phases, Engaging
  <2> QED BY <1>1, <1>2, <2>1, LightOK, OnlyEngine DEF Ends
<1>3. CASE Back(e)
  <2> DEFINE g == [Idle EXCEPT !.at = "advance", !.todo = eng[e].todo]
  <2>1. g \in Engine /\ g.at \in Light
    BY <1>1 DEF Engine, Light, Phases, Engaging
  <2>2. eng' = [eng EXCEPT ![e] = g]
    BY <1>3 DEF Back
  <2> HIDE DEF g
  <2> QED BY <2>1, <2>2, LightOK, OnlyEngine
<1> QED BY <1>2, <1>3

\* A process goes on with what it carries.
LEMMA GoingEngine ==
  ASSUME IInv, ItemsFollow, NEW e \in Engines, NEW ph \in Phases, Goes(e, ph),
         EngineOK([eng[e] EXCEPT !.at = ph], item')
  PROVE  EnginesOK'
<1> DEFINE g == [eng[e] EXCEPT !.at = ph]
<1>1. g \in Engine
  BY EngineTypes DEF Engine
<1>2. eng' = [eng EXCEPT ![e] = g]
  BY DEF Goes
<1> HIDE DEF g
<1> QED BY <1>1, <1>2, OnlyEngine DEF g

LEMMA TickEngines ==
  ASSUME IInv, ItemsFollow, NEW e \in Engines, TickStep(e) \/ Recover(e) \/ Abandon(e)
  PROVE  EnginesOK'
<1>1. {"recovered", "triaging", "dispatch", "resolving", "advance", "look", "idle"} \subseteq Light
  BY DEF Light, Phases, Engaging
<1>2. eng[e] \in Engine /\ Idle \in Engine
  BY EngineTypes, IdleOK
<1>3. CASE \E ph \in {"recovered", "triaging", "dispatch"} : Goes(e, ph)
  BY <1>1, <1>3, LightEngine
<1>4. CASE Ends(e) \/ Back(e)
  BY <1>4, LeavingEngine
<1>5. ASSUME NEW i \in Items, NEW ph \in {"resolving", "look"}, Takes(e, i, ph)
      PROVE  EnginesOK'
  <2> DEFINE g == [eng[e] EXCEPT !.at = ph, !.i = i, !.todo = @ \ {i}]
  <2>1. g \in Engine /\ g.at \in Light
    BY <1>1, <1>2 DEF Engine, Light
  <2>2. eng' = [eng EXCEPT ![e] = g]
    BY <1>5 DEF Takes, IInv, TypeOK
  <2> HIDE DEF g
  <2> QED BY <2>1, <2>2, LightOK, OnlyEngine
<1>6. CASE ListReady(e)
  <2> DEFINE g == [eng[e] EXCEPT !.at = "dispatch",
                                 !.todo = {i \in Items : item[i].state = "ready"}]
  <2>1. g \in Engine /\ g.at \in Light
    BY <1>1, <1>2 DEF Engine, Light
  <2>2. eng' = [eng EXCEPT ![e] = g]
    BY <1>6 DEF ListReady, IInv, TypeOK
  <2> HIDE DEF g
  <2> QED BY <2>1, <2>2, LightOK, OnlyEngine
<1>7. CASE DispatchEnds(e)
  <2> DEFINE g == [Idle EXCEPT !.at = "advance", !.todo = {i \in Items : Active(item[i])}]
  <2>1. g \in Engine /\ g.at \in Light
    BY <1>1, <1>2 DEF Engine, Light
  <2>2. eng' = [eng EXCEPT ![e] = g]
    BY <1>7 DEF DispatchEnds
  <2> HIDE DEF g
  <2> QED BY <2>1, <2>2, LightOK, OnlyEngine
<1>8. CASE Look(e)
  <2> DEFINE it == item[eng[e].i]
             g == [eng[e] EXCEPT !.at = NextPhase(it), !.n = it.count,
                                 !.kind = KindOf(it), !.found = "none"]
  <2>1. Sound(it) /\ Active(it)
    BY <1>8, EngineTypes DEF Look, IInv
  <2>2. it.count \in Numbers /\ it.count \in 0..MaxAttempts
    BY <2>1, ActiveHasAttempt, MaxAttemptsOK DEF Numbers
  <2>3. KindOf(it) \in {"none"} \cup RealMaker
        /\ (it.state \in {"dispatching", "running"} => KindOf(it) \in RealMaker)
    BY DEF KindOf, RealMaker
  <2>4. NextPhase(it) \in {"sending", "collecting", "reserving", "checking"}
        /\ (NextPhase(it) = "sending" => it.state = "dispatching")
    BY <2>1 DEF NextPhase, Active, ActiveStates
  <2> HIDE DEF it
  <2>5. g \in Engine /\ g.at = NextPhase(it) /\ g.n = it.count /\ g.kind = KindOf(it)
    BY <1>2, <2>2, <2>3, <2>4 DEF Engine, Phases
  <2>6. EngineOK(g, item')
    BY <2>2, <2>3, <2>4, <2>5 DEF EngineOK
  <2>7. eng' = [eng EXCEPT ![e] = g]
    BY <1>8 DEF Look, it
  <2> HIDE DEF g
  <2> QED BY <2>5, <2>6, <2>7, OnlyEngine
<1>9. CASE ResolveItem(e) \/ AdvanceItem(e)
  <2>1. eng[e].todo \subseteq Items
    BY <1>2 DEF Engine
  <2> QED BY <1>5, <1>9, <2>1 DEF ResolveItem, AdvanceItem
<1> QED
  BY <1>3, <1>4, <1>6, <1>7, <1>8, <1>9
  DEF TickStep, Recover, Abandon, RecoverWithoutBroker, RecoverFails, TickRefuses,
      TickGoesOn, NextItem, WorktreeUnavailable, TickEnds, LookAway

LEMMA MakerEngines ==
  ASSUME IInv, ItemsFollow, NEW e \in Engines, MakerStep(e)
  PROVE  EnginesOK'
<1>1. eng[e] \in Engine /\ EngineOK(eng[e], item)
  BY EngineTypes
<1>2. {"look", "failing"} \subseteq Light /\ {"sent", "marked", "collected"} \subseteq Phases
  BY DEF Light, Phases, Engaging
<1>3. CASE SendMaker(e)
  <2>1. EngineOK([eng[e] EXCEPT !.at = "sent"], item')
    BY <1>1, <1>3 DEF SendMaker, EngineOK, Engaging, Engine
  <2> QED BY <1>2, <1>3, <2>1, GoingEngine DEF SendMaker
<1>4. CASE MarkDispatched(e)
  <2>1. EngineOK([eng[e] EXCEPT !.at = "marked"], item')
    BY <1>1, <1>4 DEF MarkDispatched, EngineOK, Engaging, Engine
  <2> QED BY <1>2, <1>4, <2>1, GoingEngine, LeavingEngine DEF MarkDispatched
<1>5. CASE AwaitMaker(e)
  <2> DEFINE found == IF Status(Engaged(e)) \in {"text", "failed"} THEN "text" ELSE "empty"
             g == [eng[e] EXCEPT !.at = "collected", !.found = found]
  <2>1. found \in {"text", "empty"}
    OBVIOUS
  <2>2. eng' = [eng EXCEPT ![e] = g]
    BY <1>5 DEF AwaitMaker
  <2> HIDE DEF found
  <2>3. g \in Engine /\ EngineOK(g, item')
    BY <1>1, <1>2, <1>5, <2>1 DEF AwaitMaker, Engine, EngineOK, Engaging
  <2> HIDE DEF g
  <2> QED BY <2>2, <2>3, OnlyEngine
<1>6. CASE \E ph \in {"look", "failing"} : Afresh(e, ph)
  BY <1>2, <1>6, LightEngine
<1>7. CASE Back(e)
  BY <1>7, LeavingEngine
<1> QED
  BY <1>3, <1>4, <1>5, <1>6, <1>7
  DEF MakerStep, SendMakerFails, MarkRunning, AwaitMakerFails, CollectMaker, BlockMakerFailure

LEMMA VerifierEngines ==
  ASSUME IInv, ItemsFollow, NEW e \in Engines, VerifierStep(e)
  PROVE  EnginesOK'
<1>1. eng[e] \in Engine /\ eng[e].i \in Items /\ EngineOK(eng[e], item)
  BY EngineTypes
<1>2. "look" \in Light /\ {"checking", "judging", "judged"} \subseteq Phases
  BY DEF Light, Phases, Engaging
<1>3. CASE ReserveVerification(e)
  <2>1. EngineOK([eng[e] EXCEPT !.at = "checking"], item')
    BY <1>1, <1>3 DEF ReserveVerification, EngineOK, Engaging, Engine
  <2> QED BY <1>2, <1>3, <2>1, GoingEngine, LightEngine DEF ReserveVerification
<1>4. CASE SendVerifier(e)
  <2>1. HasText(item', eng[e].i, eng[e].n)
    BY <1>4 DEF SendVerifier, HasText
  <2>2. EngineOK([eng[e] EXCEPT !.at = "judging"], item')
    BY <1>1, <1>4, <2>1 DEF SendVerifier, EngineOK, Engaging, Engine
  <2> QED BY <1>2, <1>4, <2>2, GoingEngine DEF SendVerifier
<1>5. CASE AwaitVerdict(e)
  <2> DEFINE status == Status(VerifyTask(eng[e].i, eng[e].n))
             found == IF ChecksFail(e) THEN "rejected" ELSE status
             g == [eng[e] EXCEPT !.at = "judged", !.found = found]
  <2>1. found \in Verdict
    BY <1>5 DEF AwaitVerdict, Verdict
  <2>2. eng' = [eng EXCEPT ![e] = g]
    BY <1>5 DEF AwaitVerdict
  <2>3. eng[e].at = "judging" /\ item' = item
    BY <1>5 DEF AwaitVerdict
  <2> HIDE DEF found
  <2>4. g \in Engine /\ g.i = eng[e].i /\ g.n = eng[e].n /\ g.at = "judged" /\ g.found = found
    BY <1>1, <1>2, <2>1 DEF Engine
  <2>5. EngineOK(g, item')
    BY <1>1, <2>1, <2>3, <2>4 DEF EngineOK, Engaging, HasText
  <2> HIDE DEF g
  <2> QED BY <2>2, <2>4, <2>5, OnlyEngine
<1>6. CASE Afresh(e, "look")
  BY <1>2, <1>6, LightEngine
<1>7. CASE Ends(e)
  BY <1>7, LeavingEngine
<1> QED
  BY <1>3, <1>4, <1>5, <1>6, <1>7 DEF VerifierStep, VerifierUnavailable, SendVerifierFails, ApplyVerdict

LEMMA HandEngines ==
  ASSUME IInv, ItemsFollow, NEW i \in Items, NEW e \in Engines,
         NextByHand(e, i) \/ VerifyByHand(e, i)
  PROVE  EnginesOK'
<1>1. Idle \in Engine /\ item[i] \in Item /\ Sound(item[i])
  BY IdleOK DEF IInv, TypeOK
<1>2. CASE NextByHand(e, i)
  <2> DEFINE n == item[i].count + 1
             g == [Idle EXCEPT !.at = "sent", !.hand = TRUE, !.i = i,
                               !.n = n, !.kind = "cli"]
  <2>1. n \in Numbers /\ n \in 0..MaxAttempts
    BY <1>1, <1>2, MaxAttemptsOK DEF NextByHand, DispatchAllowed, Item, Numbers
  <2>2. eng' = [eng EXCEPT ![e] = g]
    BY <1>2 DEF NextByHand
  <2> HIDE DEF n
  <2>3. g \in Engine /\ EngineOK(g, item')
    BY <1>1, <2>1 DEF Engine, EngineOK, Phases, RealMaker
  <2> HIDE DEF g
  <2> QED BY <2>2, <2>3, OnlyEngine
<1>3. CASE VerifyByHand(e, i)
  <2> DEFINE n == item[i].count
             g == [Idle EXCEPT !.at = "reserving", !.hand = TRUE, !.i = i, !.n = n]
  <2>1. n \in Numbers /\ n \in 0..MaxAttempts
    BY <1>1, <1>3, ActiveHasAttempt, MaxAttemptsOK
    DEF VerifyByHand, Active, ActiveStates, Numbers
  <2>2. eng' = [eng EXCEPT ![e] = g]
    BY <1>3 DEF VerifyByHand
  <2> HIDE DEF n
  <2>3. g \in Engine /\ EngineOK(g, item')
    BY <1>1, <2>1 DEF Engine, EngineOK, Phases
  <2> HIDE DEF g
  <2> QED BY <2>2, <2>3, OnlyEngine
<1> QED BY <1>2, <1>3

LEMMA NextEngines == ASSUME IInv, ItemsFollow, [Next]_vars PROVE EnginesOK'
<1>1. CASE UNCHANGED eng
  BY <1>1, UnchangedEngines
<1> QED
  BY <1>1, TickEngines, MakerEngines, VerifierEngines, HandEngines
  DEF Next, vars, EngineStep, OperatorStep, WorldStep, Ready, Cancel, CollectByHand,
      SendByHand, GrowsLate, TaskEnds, BrokerForgets

-----------------------------------------------------------------------------
(* Theorems *)

LEMMA InitInv == Init => IInv
<1> SUFFICES ASSUME Init PROVE IInv
  OBVIOUS
<1>1. TriagedItem \in Item /\ Sound(TriagedItem)
  BY TriagedSound DEF Sound
<1>2. NoTask \in Task
  BY DEF NoTask, Task
<1>3. TypeOK
  BY <1>1, <1>2, IdleOK DEF Init, TypeOK
<1>4. VerifiedHaveText
  BY DEF Init, VerifiedHaveText, VerifyTask, Tasks
<1>5. EngineOK(Idle, item)
  BY DEF EngineOK, Idle, Engaging
<1> QED BY <1>1, <1>3, <1>4, <1>5 DEF Init, IInv

LEMMA NextInv == IInv /\ [Next]_vars => IInv' /\ ItemsFollow
<1> SUFFICES ASSUME IInv, [Next]_vars PROVE IInv' /\ ItemsFollow
  OBVIOUS
<1>1. ItemsFollow
  BY NextItems
<1>2. TasksOK' /\ EnginesOK'
  BY <1>1, NextTasks, NextEngines
<1>3. TypeOK'
  BY <1>1, <1>2 DEF ItemsFollow, TasksOK, EnginesOK, TypeOK
<1>4. (\A i \in Items : Sound(item[i]))'
  BY <1>1 DEF ItemsFollow, Follows
<1> QED BY <1>1, <1>2, <1>3, <1>4 DEF IInv, TasksOK, EnginesOK

LEMMA Invariance == Spec => []IInv
BY InitInv, NextInv, PTL DEF Spec

\* The state file, the broker's view and the processes keep their types.
THEOREM TypeCorrect == Spec => []TypeOK
<1>1. IInv => TypeOK
  BY DEF IInv
<1> QED BY <1>1, Invariance, PTL

\* Every stored item passes _validate_invariants, whatever engines, operators
\* and recovery do to it in turn, so that the state file can be read again.
THEOREM ItemsStayValid == Spec => []ItemsValid
<1>1. IInv => ItemsValid
  BY DEF IInv, ItemsValid, Sound
<1> QED BY <1>1, Invariance, PTL

\* An item is done only on a maker's result with a text in it.
THEOREM DoneHasWork == Spec => []DoneOnWork
<1>1. IInv => DoneOnWork
  BY DEF IInv, DoneOnWork, Sound
<1> QED BY <1>1, Invariance, PTL

\* The broker knows a verifier's task only of an attempt whose work is recorded,
\* however often task ids are used again.
THEOREM VerifiedHaveRecords == Spec => []VerifiedHaveText
BY Invariance, PTL DEF IInv

\* A rejected item can be readied again: the last rejection blocks it.
THEOREM RejectedIsRetriable == Spec => []RejectedCanRetry
<1>1. ASSUME IInv, NEW i \in Items, item[i].state = "rejected"
      PROVE  ReadyAllowed(item[i])
  <2> DEFINE it == item[i]
  <2>1. Sound(it)
    BY <1>1 DEF IInv
  <2>2. it.count < MaxAttempts /\ Current(it).verdict = "rejected"
    BY <1>1, <2>1 DEF Sound, ValidItem
  <2>3. \A n \in 1..MaxAttempts : ~Open(it, n)
    BY <2>1, <2>2 DEF Sound, Open, Current
  <2> QED BY <1>1, <2>2, <2>3 DEF ReadyAllowed
<1>2. IInv => RejectedCanRetry
  BY <1>1 DEF RejectedCanRetry
<1> QED BY <1>2, Invariance, PTL

\* A done or cancelled item is never moved, by no holder of a stale view.
THEOREM FinishedStays == Spec => FinishedItemStays
<1>1. IInv /\ [Next]_vars =>
        [\A i \in Items : ~Unfinished(item[i]) => item'[i] = item[i]]_vars
  BY NextInv DEF ItemsFollow, Follows, KeepsOutcome
<1> QED BY <1>1, Invariance, PTL DEF Spec, FinishedItemStays

\* What an attempt produced is never lost.
THEOREM ResultsAreKept == Spec => ResultsKept
<1>1. IInv /\ [Next]_vars =>
        [\A i \in Items, n \in Numbers :
           /\ item[i].attempts[n].result # "none" =>
                item'[i].attempts[n].result = item[i].attempts[n].result
           /\ item[i].attempts[n].verdict # "none" =>
                item'[i].attempts[n] = item[i].attempts[n]]_vars
  BY NextInv DEF ItemsFollow, Follows, KeepsOutcome, Numbers
<1> QED BY <1>1, Invariance, PTL DEF Spec, ResultsKept

\* A verdict is given to the last attempt only, while it is being verified.
THEOREM VerdictsComeInTurn == Spec => VerdictsInTurn
<1>1. IInv /\ [Next]_vars =>
        [\A i \in Items, n \in Numbers :
           item'[i].attempts[n].verdict # item[i].attempts[n].verdict =>
             /\ n = item[i].count
             /\ item[i].state = "verifying"
             /\ item[i].attempts[n].result # "none"]_vars
  BY NextInv DEF ItemsFollow, Follows, KeepsOutcome, Numbers
<1> QED BY <1>1, Invariance, PTL DEF Spec, VerdictsInTurn

\* What was said of an attempt is recorded in turn and for good (_transact).
THEOREM RecordsAreKept == Spec => RecordsKept
BY ResultsAreKept, VerdictsComeInTurn, PTL DEF RecordsKept
-----------------------------------------------------------------------------
(***************************************************************************)
(* The lock of the loop's state, and of a goal, for any number of          *)
(* processes and transactions: transactions do not overlap unless          *)
(* something happened by which the code breaks a lock that is held.        *)
(***************************************************************************)

USE LockConstantsOK DEF None

-----------------------------------------------------------------------------
(* The lock: its inductive invariant *)

\* Who has yet to get the lock has a transaction left to count.
TurnLeft ==
  \A p \in Procs : at[p] \in Waiting \cup Breaking \cup {"own"} => turns[p] < MaxTurns

\* As long as nothing has disturbed it, the lock is there for as long as one
\* process has it, so that it never gets old; hence nobody comes to the steps
\* that break a lock, and its owner file is that of the process that has it.
HeldByOne ==
  /\ lock.there <=> \E p \in Procs : HasIt(p)
  /\ \A p, q \in Procs : HasIt(p) /\ HasIt(q) => p = q
  /\ \A p \in Procs : /\ at[p] \in {"own", "vacate"} => lock.owner = None
                      /\ at[p] \in {"inside", "check", "unown"} => lock.owner = p

NobodyBreaks ==
  /\ ~lock.old
  /\ \A p \in Procs : /\ at[p] \notin {"move", "unlink", "rmdir"} /\ ~sawOld[p]
                      /\ kind = "loop" => at[p] \notin {"read", "probe"}

LockInv == LockTypeOK /\ TurnLeft /\ (Undisturbed => HeldByOne /\ NobodyBreaks)

-----------------------------------------------------------------------------
(* The lock: types *)

LEMMA TypeInit == LockInit => LockTypeOK /\ TurnLeft
BY DEF LockInit, LockTypeOK, TurnLeft, NoLock, Waiting, Breaking

\* Every step keeps the types, and nobody goes back to the lock uncounted.
LEMMA TypeStep == LockTypeOK /\ TurnLeft /\ [LockNext]_lockVars => LockTypeOK' /\ TurnLeft'
<1> SUFFICES ASSUME LockTypeOK, TurnLeft, [LockNext]_lockVars PROVE LockTypeOK' /\ TurnLeft'
  OBVIOUS
<1> USE DEF LockTypeOK, TurnLeft, Waiting, Breaking, Having, NoLock, Keeps
<1>1. ASSUME NEW p \in Procs, Start(p) \/ Mkdir(p) \/ MkdirAgain(p)
      PROVE  LockTypeOK' /\ TurnLeft'
  <2>1. CASE Start(p)
    BY <2>1 DEF Start, Calls
  <2>2. CASE Made(p, "mkdir") /\ Keeps
    BY <2>2 DEF Made, Calls
  <2>3. CASE Made(p, "again") /\ Keeps
    BY <2>3 DEF Made, Calls
  <2>4. CASE Calls(p, "mkdir", "stat") /\ UNCHANGED lock /\ Keeps
    BY <2>4 DEF Calls
  <2>5. CASE Calls(p, "again", "idle") /\ UNCHANGED lock /\ Keeps
    BY <2>5 DEF Calls
  <2> QED
    BY <1>1, <2>1, <2>2, <2>3, <2>4, <2>5 DEF Mkdir, MkdirAgain
<1>2. ASSUME NEW p \in Procs, Stat(p) PROVE LockTypeOK' /\ TurnLeft'
  <2>1. PICK x \in {"read", "idle", "again", "mkdir"} : Calls(p, "stat", x)
    BY <1>2 DEF Stat
  <2>2. /\ at' \in [Procs -> {"idle", "gone"} \cup Waiting \cup Breaking \cup Having]
        /\ TurnLeft'
    BY <1>2, <2>1 DEF Stat, Calls
  <2>3. sawOld' \in [Procs -> BOOLEAN]
    BY <1>2 DEF Stat
  <2> QED
    BY <1>2, <2>2, <2>3 DEF Stat
<1>3. ASSUME NEW p \in Procs, ReadOwner(p) \/ Probe(p) PROVE LockTypeOK' /\ TurnLeft'
  <2>1. PICK x \in {"probe", "unlink", "idle", "move", "mkdir"} :
          (Calls(p, "read", x) /\ x # "mkdir") \/ Calls(p, "probe", x)
    BY <1>3 DEF ReadOwner, Probe
  <2>2. /\ at' \in [Procs -> {"idle", "gone"} \cup Waiting \cup Breaking \cup Having]
        /\ UNCHANGED turns
    BY <1>3, <2>1 DEF ReadOwner, Probe, Calls
  <2>3. TurnLeft'
    BY <2>1, <2>2 DEF Calls
  <2>4. sawOld' \in [Procs -> BOOLEAN] /\ saw' \in [Procs -> Procs \cup {None}]
    BY <1>3 DEF ReadOwner, Probe
  <2> QED
    BY <1>3, <2>2, <2>3, <2>4 DEF ReadOwner, Probe
<1>4. ASSUME NEW p \in Procs, Move(p) PROVE LockTypeOK' /\ TurnLeft'
  BY <1>4 DEF Move, Calls
<1>5. ASSUME NEW p \in Procs, BreakEmpties(p) \/ FreeEmpties(p) PROVE LockTypeOK' /\ TurnLeft'
  <2>1. /\ Keeps
        /\ lock' = [lock EXCEPT !.owner = None, !.old = @ /\ lock.owner = None]
    BY <1>5 DEF BreakEmpties, FreeEmpties, Empties
  <2>2. /\ lock' \in [there : BOOLEAN, owner : Procs \cup {None}, old : BOOLEAN]
        /\ ~lock'.there => lock' = NoLock
    BY <2>1
  <2>3. CASE BreakEmpties(p)
    <3>1. Calls(p, "unlink", "rmdir") \/ Calls(p, "unlink", "again")
      BY <2>3 DEF BreakEmpties, Empties
    <3> QED
      BY <2>1, <2>2, <3>1 DEF Calls
  <2>4. CASE FreeEmpties(p)
    <3>1. Calls(p, "unown", "vacate") \/ Calls(p, "unown", "idle")
      BY <2>4 DEF FreeEmpties, Empties
    <3> QED
      BY <2>1, <2>2, <3>1 DEF Calls
  <2> QED
    BY <1>5, <2>3, <2>4
<1>6. ASSUME NEW p \in Procs, BreakRemoves(p) \/ FreeRemoves(p) PROVE LockTypeOK' /\ TurnLeft'
  <2>1. Keeps /\ (lock' = NoLock \/ lock' = lock)
    BY <1>6 DEF BreakRemoves, FreeRemoves, Removes
  <2>2. Calls(p, "rmdir", "again") \/ Calls(p, "rmdir", "idle") \/ Calls(p, "vacate", "idle")
    <3>1. CASE lock.owner = None
      BY <1>6, <3>1 DEF BreakRemoves, FreeRemoves, Removes
    <3>2. CASE lock.owner # None
      BY <1>6, <3>2 DEF BreakRemoves, FreeRemoves, Removes
    <3> QED
      BY <3>1, <3>2
  <2>3. lock' \in [there : BOOLEAN, owner : Procs \cup {None}, old : BOOLEAN]
        /\ (~lock'.there => lock' = NoLock)
    <3>1. CASE lock' = NoLock
      BY <3>1
    <3>2. CASE lock' = lock
      BY <3>2
    <3> QED
      BY <2>1, <3>1, <3>2
  <2>4. TurnLeft'
    BY <2>1, <2>2 DEF Calls
  <2> QED
    BY <2>1, <2>2, <2>3, <2>4 DEF Calls
<1>7. ASSUME NEW p \in Procs, WriteOwner(p) PROVE LockTypeOK' /\ TurnLeft'
  <2>1. CASE lock.there
    <3>1. /\ Calls(p, "own", "inside")
          /\ lock' = [lock EXCEPT !.owner = p, !.old = @ /\ lock.owner # None]
          /\ turns' = [turns EXCEPT ![p] = @ + 1]
          /\ UNCHANGED <<kind, saw, sawOld, faults>>
      BY <1>7, <2>1 DEF WriteOwner
    <3>2. turns[p] < MaxTurns
      BY <3>1 DEF Calls
    <3>3. turns' \in [Procs -> 0..MaxTurns]
      BY <3>1, <3>2
    <3>4. /\ lock' \in [there : BOOLEAN, owner : Procs \cup {None}, old : BOOLEAN]
          /\ ~lock'.there => lock' = NoLock
      BY <2>1, <3>1
    <3> QED
      BY <3>1, <3>3, <3>4 DEF Calls
  <2>2. CASE ~lock.there
    <3>1. /\ Calls(p, "own", "idle") \/ Calls(p, "own", "check")
          /\ UNCHANGED <<lock, turns, kind, saw, sawOld, faults>>
      BY <1>7, <2>2 DEF WriteOwner
    <3> QED
      BY <3>1 DEF Calls
  <2> QED
    BY <2>1, <2>2
<1>8. ASSUME NEW p \in Procs, Transaction(p) \/ Check(p) \/ Exit(p)
      PROVE  LockTypeOK' /\ TurnLeft'
  BY <1>8 DEF Transaction, Check, Exit, Calls
<1>9. ASSUME NEW p \in Procs, ReadFails(p) \/ Crash(p) PROVE LockTypeOK' /\ TurnLeft'
  <2>1. faults' \in 0..MaxFaults
    BY <1>9 DEF ReadFails, Crash, Fails
  <2>2. CASE ReadFails(p)
    BY <2>1, <2>2 DEF ReadFails, Calls
  <2>3. CASE Crash(p)
    BY <2>1, <2>3 DEF Crash
  <2> QED
    BY <1>9, <2>2, <2>3
<1>10. CASE GetsOld
  BY <1>10 DEF GetsOld
<1>11. CASE UNCHANGED lockVars
  BY <1>11 DEF lockVars
<1> HIDE DEF LockTypeOK, TurnLeft, Waiting, Breaking, Having, NoLock, Keeps
<1> QED
  BY <1>1, <1>2, <1>3, <1>4, <1>5, <1>6, <1>7, <1>8, <1>9, <1>10, <1>11 DEF LockNext, LockStep

-----------------------------------------------------------------------------
(* Nobody else inside *)

\* What was disturbed stays so: faults are counted, and who is gone stays gone.
LEMMA StaysDisturbed ==
  ASSUME LockTypeOK, [LockNext]_lockVars, Undisturbed' PROVE Undisturbed
<1>1. kind' = kind /\ (faults' = 0 => faults = 0)
  <2>1. ASSUME NEW p \in Procs, LockStep(p) PROVE UNCHANGED <<kind, faults>>
    BY <2>1 DEF LockStep, Mkdir, MkdirAgain, Stat, ReadOwner, Probe, Move, BreakEmpties,
      BreakRemoves, FreeEmpties, FreeRemoves, Empties, Removes, WriteOwner, Transaction,
      Check, Keeps
  <2>2. ASSUME NEW p \in Procs, Start(p) \/ ReadFails(p) \/ Exit(p) \/ Crash(p)
        PROVE  kind' = kind /\ (faults' = 0 => faults = 0)
    BY <2>2 DEF Start, ReadFails, Exit, Crash, Keeps, Fails, LockTypeOK
  <2>3. CASE GetsOld \/ UNCHANGED lockVars
    BY <2>3 DEF GetsOld, Keeps, lockVars
  <2> QED
    BY <2>1, <2>2, <2>3 DEF LockNext
<1>2. \A p \in Procs : at[p] = "gone" => at'[p] = "gone"
  <2>1. ASSUME NEW q \in Procs, NEW from, from # "gone", NEW to, Calls(q, from, to)
        PROVE  \A p \in Procs : at[p] = "gone" => at'[p] = "gone"
    BY <2>1 DEF Calls, LockTypeOK
  <2>2. ASSUME NEW q \in Procs, Start(q) \/ ReadFails(q) \/ Exit(q) \/ LockStep(q)
        PROVE  \E from, to : from # "gone" /\ Calls(q, from, to)
    BY <2>2 DEF LockStep, Start, Mkdir, Made, MkdirAgain, Stat, ReadOwner, Probe, Move,
      BreakEmpties, BreakRemoves, FreeEmpties, FreeRemoves, Empties, Removes, WriteOwner,
      Transaction, ReadFails, Check, Exit
  <2>3. ASSUME NEW q \in Procs, Crash(q)
        PROVE  \A p \in Procs : at[p] = "gone" => at'[p] = "gone"
    BY <2>3 DEF Crash, LockTypeOK
  <2>4. CASE GetsOld \/ UNCHANGED lockVars
    BY <2>4 DEF GetsOld, lockVars
  <2> QED
    BY <2>1, <2>2, <2>3, <2>4 DEF LockNext
<1> QED
  BY <1>1, <1>2 DEF Undisturbed, Alive

\* Of two processes one has just got the lock, which was not there.
LEMMA MadeKeeps ==
  ASSUME LockTypeOK, HeldByOne, NobodyBreaks, NEW p \in Procs, NEW from \in {"mkdir", "again"},
         Made(p, from), Keeps
  PROVE  HeldByOne' /\ NobodyBreaks'
<1> USE DEF HeldByOne, NobodyBreaks, HasIt, Having
<1>1. /\ at[p] = from /\ at'[p] = "own" /\ \A q \in Procs \ {p} : at'[q] = at[q]
  BY DEF Made, Calls, LockTypeOK
<1>2. lock'.there /\ lock'.owner = None /\ ~lock'.old /\ \A q \in Procs : ~HasIt(q)
  BY DEF Made, NoLock
<1> QED
  BY <1>1, <1>2 DEF Keeps

\* A step of one process that neither takes nor leaves the lock nor touches it.
LEMMA MovesKeep ==
  ASSUME LockTypeOK, HeldByOne, NobodyBreaks, NEW p \in Procs, NEW from, NEW to,
         Calls(p, from, to),
         UNCHANGED <<kind, lock>>, ~sawOld'[p], \A q \in Procs \ {p} : sawOld'[q] = sawOld[q],
         from \in Having <=> to \in Having,
         to \in {"inside", "check", "unown"} => lock.owner = p,
         to \notin {"own", "vacate", "move", "unlink", "rmdir"},
         kind = "loop" => to \notin {"read", "probe"}
  PROVE  HeldByOne' /\ NobodyBreaks'
<1> USE DEF HeldByOne, NobodyBreaks, HasIt
<1>1. /\ at[p] = from /\ at'[p] = to /\ \A q \in Procs \ {p} : at'[q] = at[q]
  BY DEF Calls, LockTypeOK
<1>2. \A q \in Procs : HasIt(q)' <=> HasIt(q)
  BY <1>1
<1> QED
  BY <1>1, <1>2

\* The process that has the lock writes its owner file, or removes it.
LEMMA OwnerKeeps ==
  ASSUME LockTypeOK, HeldByOne, NobodyBreaks, NEW p \in Procs, WriteOwner(p) \/ FreeEmpties(p)
  PROVE  HeldByOne' /\ NobodyBreaks'
<1> USE DEF HeldByOne, NobodyBreaks, HasIt, Having
<1>1. CASE WriteOwner(p)
  <2>1. at[p] = "own" /\ lock.there /\ UNCHANGED <<kind, sawOld>>
    BY <1>1 DEF WriteOwner, Calls
  <2>2. at'[p] = "inside" /\ \A q \in Procs \ {p} : at'[q] = at[q]
    BY <1>1, <2>1 DEF WriteOwner, Calls, LockTypeOK
  <2>3. lock'.there /\ lock'.owner = p /\ ~lock'.old
    BY <1>1, <2>1 DEF WriteOwner, LockTypeOK
  <2> QED
    BY <2>1, <2>2, <2>3
<1>2. CASE FreeEmpties(p)
  <2>1. at[p] = "unown" /\ lock.there /\ UNCHANGED <<kind, sawOld>>
    BY <1>2 DEF FreeEmpties, Empties, Calls, Keeps
  <2>2. at'[p] = "vacate" /\ \A q \in Procs \ {p} : at'[q] = at[q]
    BY <1>2, <2>1 DEF FreeEmpties, Empties, Calls, LockTypeOK
  <2>3. lock'.there /\ lock'.owner = None /\ ~lock'.old
    BY <1>2, <2>1 DEF FreeEmpties, Empties, LockTypeOK
  <2> QED
    BY <2>1, <2>2, <2>3
<1> QED
  BY <1>1, <1>2

\* The process that has the lock removes it, and nobody has it.
LEMMA FreeKeeps ==
  ASSUME LockTypeOK, HeldByOne, NobodyBreaks, NEW p \in Procs, FreeRemoves(p)
  PROVE  HeldByOne' /\ NobodyBreaks'
<1> USE DEF HeldByOne, NobodyBreaks, HasIt, Having
<1>1. at[p] = "vacate" /\ lock.owner = None /\ UNCHANGED <<kind, sawOld>>
  BY DEF FreeRemoves, Removes, Calls, Keeps
<1>2. at'[p] = "idle" /\ \A q \in Procs \ {p} : at'[q] = at[q]
  BY <1>1 DEF FreeRemoves, Removes, Calls, LockTypeOK
<1>3. lock' = NoLock
  BY <1>1 DEF FreeRemoves, Removes
<1> QED
  BY <1>1, <1>2, <1>3 DEF NoLock

\* Waiting for the lock ends at it, or in giving up, but not in breaking it:
\* it is not old, and whoever is read of is alive.
LEMMA WaitKeeps ==
  ASSUME LockTypeOK, Undisturbed, HeldByOne, NobodyBreaks, NEW p \in Procs,
         Mkdir(p) \/ MkdirAgain(p) \/ Stat(p) \/ ReadOwner(p) \/ Probe(p)
  PROVE  HeldByOne' /\ NobodyBreaks'
<1>1. CASE Mkdir(p) \/ MkdirAgain(p)
  <2>1. CASE Calls(p, "mkdir", "stat") /\ UNCHANGED lock /\ Keeps
    BY <2>1, MovesKeep DEF Keeps, NobodyBreaks, Having
  <2>2. CASE Calls(p, "again", "idle") /\ UNCHANGED lock /\ Keeps
    BY <2>2, MovesKeep DEF Keeps, NobodyBreaks, Having
  <2> QED
    BY <1>1, <2>1, <2>2, MadeKeeps DEF Mkdir, MkdirAgain
<1>2. CASE Stat(p)
  <2>1. PICK x \in {"read", "idle", "again", "mkdir"} :
          Calls(p, "stat", x) /\ (kind = "loop" => x # "read")
    BY <1>2 DEF Stat, NobodyBreaks
  <2>2. ~sawOld'[p] /\ (\A q \in Procs \ {p} : sawOld'[q] = sawOld[q]) /\ UNCHANGED <<kind, lock>>
    BY <1>2 DEF Stat, NobodyBreaks, LockTypeOK
  <2> QED
    BY <2>1, <2>2, MovesKeep DEF Having
<1>3. CASE ReadOwner(p)
  <2>1. Calls(p, "read", "probe") /\ UNCHANGED <<kind, lock, sawOld>> /\ kind # "loop"
    BY <1>3 DEF ReadOwner, NobodyBreaks, Calls
  <2> QED
    BY <2>1, MovesKeep DEF NobodyBreaks, Having
<1>4. CASE Probe(p)
  <2>1. kind # "loop" /\ ~Stale(p)
    BY <1>4 DEF Probe, NobodyBreaks, Calls, Stale, Undisturbed, LockTypeOK
  <2>2. Calls(p, "probe", "mkdir") /\ UNCHANGED <<kind, lock>>
    BY <1>4, <2>1 DEF Probe
  <2>3. ~sawOld'[p] /\ \A q \in Procs \ {p} : sawOld'[q] = sawOld[q]
    BY <1>4 DEF Probe, LockTypeOK
  <2> QED
    BY <2>2, <2>3, MovesKeep DEF Having
<1> QED
  BY <1>1, <1>2, <1>3, <1>4

\* The steps of a process that has the lock or none of it.
LEMMA OtherMovesKeep ==
  ASSUME LockTypeOK, HeldByOne, NobodyBreaks, NEW p \in Procs,
         Start(p) \/ Transaction(p) \/ Check(p) \/ Exit(p)
  PROVE  HeldByOne' /\ NobodyBreaks'
<1>1. UNCHANGED <<kind, lock, sawOld>>
  BY DEF Start, Transaction, Check, Exit, Keeps
<1>2. CASE Start(p)
  BY <1>1, <1>2, MovesKeep DEF Start, NobodyBreaks, Having
<1>3. CASE Transaction(p)
  <2>1. Calls(p, "inside", "unown") \/ Calls(p, "inside", "check")
    BY <1>3 DEF Transaction
  <2>2. lock.owner = p
    BY <2>1 DEF Calls, HeldByOne
  <2> QED
    BY <1>1, <2>1, <2>2, MovesKeep DEF NobodyBreaks, Having
<1>4. CASE Check(p)
  <2>1. lock.owner = p
    BY <1>4 DEF Check, Calls, HeldByOne
  <2>2. Calls(p, "check", "unown")
    BY <1>4, <2>1 DEF Check
  <2> QED
    BY <1>1, <2>1, <2>2, MovesKeep DEF NobodyBreaks, Having
<1>5. CASE Exit(p)
  BY <1>1, <1>5, MovesKeep DEF Exit, NobodyBreaks, Having
<1> QED
  BY <1>2, <1>3, <1>4, <1>5

-----------------------------------------------------------------------------
(* The theorem *)

LEMMA InvInit == LockInit => LockInv
<1> SUFFICES ASSUME LockInit PROVE LockInv
  OBVIOUS
<1>1. HeldByOne /\ NobodyBreaks
  BY DEF LockInit, HeldByOne, NobodyBreaks, HasIt, Having, NoLock
<1> QED
  BY <1>1, TypeInit DEF LockInv

LEMMA InvStep == LockInv /\ [LockNext]_lockVars => LockInv'
<1> SUFFICES ASSUME LockInv, [LockNext]_lockVars, Undisturbed' PROVE HeldByOne' /\ NobodyBreaks'
  BY TypeStep DEF LockInv
<1>1. LockTypeOK /\ Undisturbed /\ HeldByOne /\ NobodyBreaks
  BY StaysDisturbed DEF LockInv
<1>2. ASSUME NEW p \in Procs, LockStep(p) PROVE HeldByOne' /\ NobodyBreaks'
  <2>1. ~Move(p) /\ ~BreakEmpties(p) /\ ~BreakRemoves(p)
    BY <1>1 DEF Move, BreakEmpties, BreakRemoves, Empties, Removes, Calls, NobodyBreaks
  <2> QED
    BY <1>1, <1>2, <2>1, WaitKeeps, OwnerKeeps, FreeKeeps, OtherMovesKeep DEF LockStep
<1>3. ASSUME NEW p \in Procs PROVE ~ReadFails(p) /\ ~Crash(p)
  <2>1. ASSUME ReadFails(p) PROVE FALSE
    BY <1>1, <2>1 DEF ReadFails, Fails, Undisturbed, LockTypeOK
  <2>2. ASSUME Crash(p) PROVE FALSE
    BY <1>1, <2>2 DEF Crash, Fails, Undisturbed, Alive, LockTypeOK
  <2> QED
    BY <2>1, <2>2
<1>4. ~GetsOld
  BY <1>1 DEF GetsOld, HeldByOne
<1>5. CASE UNCHANGED lockVars
  BY <1>1, <1>5 DEF lockVars, HeldByOne, NobodyBreaks, HasIt
<1> QED
  BY <1>1, <1>2, <1>3, <1>4, <1>5, OtherMovesKeep DEF LockNext

\* Whatever the interleaving of the calls to the file system, two processes never
\* have the lock of the loop's state or of a goal at once, unless a process died
\* or ended, or a file could not be read (loop/adapters/lock.py:30,
\* goal/files.py:64).
THEOREM LocksAreExclusive == LockSpec => []LocksOK
<1>1. LockInv => LocksOK
  BY DEF LockInv, LocksOK, AloneInside, HeldByOne
<1> QED
  BY InvInit, InvStep, <1>1, PTL DEF LockSpec

=============================================================================
