------------------------------ MODULE TestRound ------------------------------
(***************************************************************************)
(* What TestScheduler::schedule promises its caller, SuiteScheduler: one   *)
(* round at a time; a round records results of its own tests only, and     *)
(* nothing is recorded between two rounds; what a round returns tells what *)
(* it recorded.                                                            *)
(***************************************************************************)
CONSTANTS
    Tests,
    Reliable,    \* the SUT kernel never panics
    Cancellable  \* the caller may drop a round

VARIABLES
    busy,      \* a round is running
    tests,     \* the tests of the round
    recorded,  \* the tests results() reports
    ret,       \* what the last round returned
    stopping   \* a stop was in progress at some time in the round

vars == <<busy, tests, recorded, ret, stopping>>

Errors == {"KernelTainted", "KernelPanic", "KernelTimeout"}

Init ==
    /\ busy = FALSE /\ tests = {} /\ recorded = {} /\ ret = "none" /\ stopping = FALSE

\* An empty list of tests is refused.
Refuse ==
    /\ ~busy
    /\ ret' = "Fatal"
    /\ UNCHANGED <<busy, tests, recorded, stopping>>

Begin(T) ==
    /\ ~busy /\ T # {}
    /\ busy' = TRUE
    /\ tests' = T
    /\ recorded' = {}
    /\ ret' = "none"
    /\ stopping' \in BOOLEAN

Push(t) ==
    /\ busy
    /\ t \in tests
    /\ recorded' = recorded \cup {t}
    /\ UNCHANGED <<busy, tests, ret, stopping>>

\* A kernel error comes with a result that shows it, and an Ok that no stop
\* explains means that every test was run.
End(r) ==
    /\ busy
    /\ r \in Errors /\ Reliable => recorded # {}
    /\ r = "Ok" /\ ~stopping /\ Reliable => tests \subseteq recorded
    /\ busy' = FALSE
    /\ ret' = r
    /\ UNCHANGED <<tests, recorded, stopping>>

StopRequested ==
    /\ stopping' = TRUE
    /\ UNCHANGED <<busy, tests, recorded, ret>>

\* The round is dropped.  From then on a task it had may still add a result.
Cancelled ==
    /\ busy /\ busy' = FALSE
    /\ ret' = "Dropped"
    /\ UNCHANGED <<tests, recorded, stopping>>

Straggler(t) ==
    /\ recorded' = recorded \cup {t}
    /\ UNCHANGED <<busy, tests, ret, stopping>>

Next ==
    \/ Refuse
    \/ \E T \in SUBSET Tests : Begin(T)
    \/ \E t \in Tests : Push(t)
    \/ \E r \in Errors \cup {"Ok", "Fatal"} : End(r)
    \/ StopRequested
    \/ Cancellable /\ (Cancelled \/ \E t \in Tests : Straggler(t))

Spec == Init /\ [][Next]_vars

=============================================================================
