------------------------------ MODULE LoopItem ------------------------------
(***************************************************************************)
(* The lifecycle of a loop item: loop/domain/item.py.  An item goes from   *)
(* ready to done through attempts; an attempt is made by a maker, whose    *)
(* result a verifier judges.  Items are immutable values and a method      *)
(* returns the next one, so this module is constant-level: for each method *)
(* a guard (the method raises IllegalTransition or BudgetExhausted without *)
(* it) and the item it returns.                                            *)
(*                                                                         *)
(* Worker names are left out: maker and verifier are configured to differ. *)
(* Reasons and texts are left out, except whether a maker's result has any *)
(* text.  The clock is the flag late: the current attempt has been in its  *)
(* state for longer than recovery lets it.                                 *)
(***************************************************************************)
EXTENDS Naturals

CONSTANT MaxAttempts  \* RetryPolicy.max_attempts

ASSUME MaxAttemptsOK == MaxAttempts \in Nat \ {0}

ItemState == {"triaged", "ready", "dispatching", "running", "awaiting_verdict",
              "verifying", "rejected", "blocked", "done", "cancelled"}
ActiveStates == {"dispatching", "running", "awaiting_verdict", "verifying"}

\* The task a maker works under: reserved for it but not sent, the engine's,
\* or one named by an operator.
RealMaker == {"loop", "cli"}
Verdict == {"accepted", "rejected", "blocker"}

Attempt == [maker : {"none", "reserved"} \cup RealMaker,
            result : {"none", "text", "empty"},
            verifying : BOOLEAN,
            verdict : {"none"} \cup Verdict]
NoAttempt ==
  [maker |-> "none", result |-> "none", verifying |-> FALSE, verdict |-> "none"]
NewAttempt == [NoAttempt EXCEPT !.maker = "reserved"]

Item == [state : ItemState,
         count : 0..MaxAttempts,
         attempts : [1..MaxAttempts -> Attempt],
         late : BOOLEAN]

TriagedItem ==
  [state |-> "triaged", count |-> 0, late |-> FALSE,
   attempts |-> [n \in 1..MaxAttempts |-> NoAttempt]]

Active(it) == it.state \in ActiveStates
Current(it) == it.attempts[it.count]
Open(it, n) == n \in 1..it.count /\ it.attempts[n].verdict = "none"

\* _require_attempt and a state: what every step on an attempt checks first.
At(it, n, state) == it.count = n /\ it.state = state

\* _transition with _replace_current_attempt.
Moved(it, state, attempt) ==
  [it EXCEPT !.state = state, !.attempts[it.count] = attempt]

-----------------------------------------------------------------------------
(* The methods *)

\* The last conjunct is _validate_invariants, which refuses a ready item with
\* an attempt that has no verdict.
ReadyAllowed(it) ==
  /\ it.state \in {"triaged", "rejected", "blocked"}
  /\ it.state # "triaged" => it.count < MaxAttempts
  /\ \A n \in 1..MaxAttempts : ~Open(it, n)
Readied(it) == [it EXCEPT !.state = "ready"]

DispatchAllowed(it) == it.state = "ready" /\ it.count < MaxAttempts
Dispatched(it) ==
  [it EXCEPT !.state = "dispatching", !.count = @ + 1,
             !.attempts[it.count + 1] = NewAttempt, !.late = FALSE]

BrokerTaskRecorded(it, kind) ==
  [Moved(it, "dispatching", [Current(it) EXCEPT !.maker = kind]) EXCEPT !.late = FALSE]

\* Mutant of RolledBack: the forgotten attempt still counts.
RolledBackCounted(it) == [Moved(it, "ready", NoAttempt) EXCEPT !.late = FALSE]

\* rollback_dispatch forgets the attempt, and its number is used again.
RolledBack(it) ==
  [Moved(it, "ready", NoAttempt) EXCEPT !.count = @ - 1, !.late = FALSE]

DispatchConfirmed(it) == [it EXCEPT !.state = "running"]

Collected(it, result) ==
  Moved(it, "awaiting_verdict", [Current(it) EXCEPT !.result = result])

VerificationStarted(it) ==
  Moved(it, "verifying", [Current(it) EXCEPT !.verifying = TRUE])

\* Mutant of AfterVerdict: a rejection leaves the item rejected, budget or not.
AfterVerdictNoBudget(it, verdict) ==
  CASE verdict = "accepted" -> "done"
    [] verdict = "rejected" -> "rejected"
    [] OTHER -> "blocked"

\* apply_verdict, with the service's block_retry_exhausted on the last attempt.
AfterVerdict(it, verdict) ==
  CASE verdict = "accepted" -> "done"
    [] verdict = "rejected" /\ it.count < MaxAttempts -> "rejected"
    [] OTHER -> "blocked"
Judged(it, verdict) ==
  Moved(it, AfterVerdict(it, verdict), [Current(it) EXCEPT !.verdict = verdict])

\* block and cancel take an item in any other state, and leave its current
\* attempt without a verdict.
Unfinished(it) == it.state \notin {"done", "cancelled"}
Blocked(it) == [it EXCEPT !.state = "blocked"]
Cancelled(it) == [it EXCEPT !.state = "cancelled"]

-----------------------------------------------------------------------------
(* What holds of the items the program stores *)

\* _validate_invariants: attempts are numbered without a gap, at most one has
\* no verdict, and in a state of work it is the last one, as far along as the
\* state says.  (dispatched_at is set with the real task.)
ValidItem(it) ==
  /\ \A n \in 1..MaxAttempts : it.attempts[n].maker # "none" <=> n <= it.count
  /\ \A m, n \in 1..MaxAttempts : Open(it, m) /\ Open(it, n) => m = n
  /\ Active(it) => it.count > 0 /\ Open(it, it.count)
  /\ it.state \in {"triaged", "ready"} => \A n \in 1..MaxAttempts : ~Open(it, n)
  /\ it.state = "dispatching" =>
       Current(it).result = "none" /\ ~Current(it).verifying
  /\ it.state = "running" =>
       /\ Current(it).maker \in RealMaker
       /\ Current(it).result = "none" /\ ~Current(it).verifying
  /\ it.state = "awaiting_verdict" =>
       Current(it).result # "none" /\ ~Current(it).verifying
  /\ it.state = "verifying" => Current(it).verifying
  /\ it.state = "done" => it.count > 0 /\ Current(it).verdict = "accepted"
  /\ it.state = "rejected" => it.count > 0 /\ Current(it).verdict = "rejected"
=============================================================================
