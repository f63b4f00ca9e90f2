--------------------------- MODULE MCTestScheduler ---------------------------
(* Small instances of TestScheduler. *)
EXTENDS TestScheduler, TLC

\* Two parallelizable tests that compete for the workers, a sequential one,
\* and the callers of stop().
CONSTANTS p1, p2, s1, k1, k2

\* The parallelizable tests are alike, and so are the callers of stop().
MCSymmetry == Permutations({p1, p2}) \cup Permutations({k1, k2})

=============================================================================
