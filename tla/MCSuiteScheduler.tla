-------------------------- MODULE MCSuiteScheduler --------------------------
(* Small instances of SuiteScheduler. *)
EXTENDS SuiteScheduler

CONSTANTS p1, p2, s1, k1, loop

\* A suite with a parallel and a sequential phase.
OneSuite == <<{p1, s1}>>

\* Two suites that share a test: competing parallelizable tests, then a change of phase.
TwoSuites == <<{p1, p2}, {p2, s1}>>

=============================================================================
