---------------------------- MODULE MCLoopEngine ----------------------------
EXTENDS LoopEngine, TLC

CONSTANTS i1, i2, e1, e2

\* The processes are interchangeable.
Processes == Permutations(Engines)

\* Which attempts produce work that fails a required check.
NoneFails == {}
FirstFails == {<<i1, 1>>}
\* How tasks end: in any way; or in one of each kind, where a verifier without
\* a readable verdict is as good as one that timed out.
AnyEnding == MakerOutcome \cup VerifierOutcome
MixedEndings == {"text", "failed", "dropped", "accepted", "rejected"}
=============================================================================
