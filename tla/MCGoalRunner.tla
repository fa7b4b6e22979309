---------------------------- MODULE MCGoalRunner ----------------------------
EXTENDS GoalRunner

CONSTANTS a, b, n, p1, p2

\* a is checked by a command, b signed off by a human after a is met, and n is
\* not a core criterion.
Depends == [c \in {a, b, n} |-> IF c = b THEN {a} ELSE {}]

\* Both processes work, and one does everything else besides.
BothWork ==
  [p \in {p1, p2} |-> IF p = p1 THEN {"work"} ELSE AllCommands]

\* One run of work, and two commands of which one must approve the gates.
Runs == [p \in {p1, p2} |-> IF p = p1 THEN 1 ELSE 2]

\* A text without a list, one with a criterion listed twice, and one that says all
\* of it has been done.
Lists == {<<>>, <<n, n, a>>, <<a, b>>}
Shows == {[c \in {a, b, n} |-> "verified"]}
=============================================================================
