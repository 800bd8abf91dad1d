---------------------------- MODULE MCTickFork ----------------------------
(* TickFork for TLC. *)
EXTENDS TickFork, TLC

CONSTANT MaxPhase   \* bound on fork and commit attempts

\* A shutdown retries a retirement that times out without end.
FewPhases == node.phase <= MaxPhase

\* The request processors are interchangeable.
WorkerSymmetry == Permutations(Workers)
=============================================================================
