----------------------------- MODULE WorkerSlots -----------------------------
(***************************************************************************)
(* What the broker promises about work sent to named workers: a worker is  *)
(* a slot that holds one piece of work; work, once taken out of its slot,  *)
(* never returns; and no slot is held for ever.                            *)
(***************************************************************************)
CONSTANTS Msgs, To

VARIABLES open,   \* work that occupies its worker
          closed  \* work that is settled

vars == <<open, closed>>

Init == open = {} /\ closed = {}

\* Work is accepted for a worker that has none.
Open(m) ==
  /\ m \notin open \cup closed
  /\ \A n \in open : To[n] # To[m]
  /\ open' = open \cup {m}
  /\ UNCHANGED closed

\* Any open work may be settled, several pieces at once when a session ends.
Close(S) ==
  /\ S # {}
  /\ S \subseteq open
  /\ open' = open \ S
  /\ closed' = closed \cup S

Next == (\E m \in Msgs : Open(m)) \/ (\E S \in SUBSET Msgs : Close(S))

Spec == Init /\ [][Next]_vars

\* No worker is held for ever.
EverySlotFreed == \A m \in Msgs : m \in open ~> m \in closed

LiveSpec == Spec /\ EverySlotFreed
=============================================================================
