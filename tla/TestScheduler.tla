---------------------------- MODULE TestScheduler ----------------------------
(***************************************************************************)
(* kirk-scheduler/src/test_sched.rs: one TestScheduler shared by a caller  *)
(* of schedule(), the run_one tasks of the round, and concurrent callers   *)
(* of stop().  A step is the code one task executes between two await      *)
(* points; the SUT is the environment.                                     *)
(***************************************************************************)
EXTENDS Integers, FiniteSets

CONSTANTS
    Tests,        \* tests a caller may pass to schedule()
    Parallel,     \* those with Test::parallelizable()
    Stoppers,     \* tasks that may call stop()
    MaxWorkers,   \* max_workers after the clamp in new()
    TestTimeout,  \* test_timeout > 0
    Cancellable,  \* the caller may drop the schedule() future
    MayPanic,     \* the SUT kernel may panic while a test is on it
    MayHang,      \* the SUT may stop answering while a test is on it
    Bounded,      \* a call on a SUT that does not answer ends with an error
                  \* (QEMU's EXPECT_TIMEOUT) and does not block for ever
    MaxTaint      \* bound on the kernel's taint value

ASSUME ConstantsAssumption ==
    /\ IsFiniteSet(Tests)
    /\ Parallel \subseteq Tests
    /\ MaxWorkers \in Nat \ {0}
    /\ {TestTimeout, Cancellable, MayPanic, MayHang, Bounded} \subseteq BOOLEAN
    /\ MaxTaint \in Nat

VARIABLES
    phase,     \* where schedule() is; "idle" when nobody holds schedule_lock
    round,     \* the tests of the current (or last) call of schedule()
    pc,        \* where run_one is, for every test of the round
    status,    \* TestStatus of every test (ExecOutcome.status)
    killed,    \* tests whose row has KILLED_RETURNCODE
    before,    \* tainted_before of every test
    results,   \* how often every test occurs in Shared.results
    err,       \* the first error a run_one returned
    ret,       \* what the last call of schedule() returned
    late,      \* aborted tasks caught in the poll that pushes their result
    permits,   \* available permits of the semaphore in Shared.running_sem
    stopCnt,   \* Shared.stop_cnt
    stopped,   \* Shared.stopped
    spc,       \* where every stop() call is
    cloned,    \* those that wait for a permit of the running_sem of now
    sut,       \* what the SUT does when it is asked
    taint,     \* /proc/sys/kernel/tainted
    started,   \* tests of the round with a test_started event
    completed, \* tests of the round with a test_completed event
    stopSeen   \* history: stop() was in progress at some time in the round

roundVars == <<phase, round, err, ret>>
testVars  == <<pc, status, killed, before, started, completed>>
semVars   == <<permits, cloned>>
stopVars  == <<stopCnt, stopped, spc>>
sutVars   == <<sut, taint>>
vars == <<roundVars, testVars, results, late, semVars, stopVars, sutVars, stopSeen>>

Statuses     == {"Ok", "TestTimeout", "KernelTainted", "KernelPanic", "KernelTimeout"}
KernelErrors == {"KernelTainted", "KernelPanic", "KernelTimeout"}
Returns      == {"none", "Ok", "Fatal", "Dropped"} \cup KernelErrors

\* A run_one that holds its permit, in the order of its awaits.
OnSut == {"before", "running", "ping", "after", "parse", "record"}
PCs   == {"idle", "pending", "acquire", "done"} \cup OnSut

Holding == {t \in Tests : pc[t] \in OnSut}
Active  == {t \in Tests : pc[t] \in OnSut \cup {"acquire"}}

\* What a task asks of the SUT comes to an end, with an answer or an error.
CallsEnd == sut # "hung" \/ Bounded

\* Mutant: drive() does not look at parallelizable().
ParallelPartOfAll(T) == IF MaxWorkers > 1 THEN T ELSE {}

\* The tests drive() hands to run_parallel.
ParallelPart(T) == IF MaxWorkers > 1 THEN T \cap Parallel ELSE {}

-----------------------------------------------------------------------------
(* schedule(), drive(), run_parallel(), run_sequential() *)

Init ==
    /\ phase = "idle" /\ round = {} /\ err = "none" /\ ret = "none"
    /\ pc = [t \in Tests |-> "idle"]
    /\ status = [t \in Tests |-> "Ok"]
    /\ killed = {}
    /\ before = [t \in Tests |-> 0]
    /\ started = {} /\ completed = {}
    /\ results = [t \in Tests |-> 0]
    /\ late = {}
    /\ permits = 1 /\ cloned = {}
    /\ stopCnt = 0 /\ stopped = FALSE
    /\ spc = [p \in Stoppers |-> "idle"]
    /\ sut = "up" /\ taint = 0
    /\ stopSeen = FALSE

\* A phase begins: a fresh semaphore replaces running_sem, its tests are due.
BeginPhase(name, T, capacity) ==
    /\ phase' = name
    /\ permits' = capacity
    /\ cloned' = {}
    /\ pc' = [t \in Tests |-> IF t \in T THEN "pending" ELSE "idle"]

\* schedule(tests): an empty list is refused before the lock is taken.
ScheduleEmpty ==
    /\ phase = "idle"
    /\ ret' = "Fatal"
    /\ UNCHANGED <<phase, round, err, testVars, results, late, semVars, stopVars,
                   sutVars, stopSeen>>

\* Mutant: schedule() does not take the lock.
ScheduleUnlocked(T) ==
    /\ T # {}
    /\ round' = T
    /\ results' = [t \in Tests |-> 0]
    /\ err' = "none" /\ ret' = "none"
    /\ status' = [t \in Tests |-> "Ok"]
    /\ before' = [t \in Tests |-> 0]
    /\ killed' = {} /\ started' = {} /\ completed' = {}
    /\ stopSeen' = (stopCnt > 0)
    /\ BeginPhase("sequential", T, 1)
    /\ UNCHANGED <<late, stopVars, sutVars>>

\* Mutant: the lock is not fair, schedule() overtakes a waiting stop().
ScheduleBarging(T) ==
    /\ phase = "idle" /\ T # {}
    /\ round' = T
    /\ results' = [t \in Tests |-> 0]
    /\ err' = "none" /\ ret' = "none"
    /\ status' = [t \in Tests |-> "Ok"]
    /\ before' = [t \in Tests |-> 0]
    /\ killed' = {} /\ started' = {} /\ completed' = {}
    /\ stopSeen' = (stopCnt > 0)
    /\ IF ParallelPart(T) # {}
       THEN BeginPhase("parallel", ParallelPart(T), MaxWorkers)
       ELSE BeginPhase("sequential", T, 1)
    /\ UNCHANGED <<late, stopVars, sutVars>>

\* The lock is a FIFO mutex: a stop() that already waits for it goes first.
Schedule(T) ==
    /\ phase = "idle" /\ T # {}
    /\ \A p \in Stoppers : spc[p] # "lock"
    /\ round' = T
    /\ results' = [t \in Tests |-> 0]
    /\ err' = "none" /\ ret' = "none"
    /\ status' = [t \in Tests |-> "Ok"]
    /\ before' = [t \in Tests |-> 0]
    /\ killed' = {} /\ started' = {} /\ completed' = {}
    /\ stopSeen' = (stopCnt > 0)
    /\ IF ParallelPart(T) # {}
       THEN BeginPhase("parallel", ParallelPart(T), MaxWorkers)
       ELSE BeginPhase("sequential", T, 1)
    /\ UNCHANGED <<late, stopVars, sutVars>>

\* Every task of run_parallel is joined; drive() goes on with the rest.
ParallelJoined ==
    /\ phase = "parallel"
    /\ \A t \in ParallelPart(round) : pc[t] = "done"

BeginSequential ==
    /\ ParallelJoined
    /\ err = "none"
    /\ round \ ParallelPart(round) # {}
    /\ BeginPhase("sequential", round \ ParallelPart(round), 1)
    /\ UNCHANGED <<round, err, ret, status, killed, before, started, completed,
                   results, late, stopVars, sutVars, stopSeen>>

\* run_sequential's loop is over: at its end or at the first error.
SequentialDone ==
    /\ phase = "sequential"
    /\ Active = {}
    /\ err # "none" \/ \A t \in Tests : pc[t] # "pending"

RoundDriven ==
    \/ SequentialDone
    \/ ParallelJoined /\ (err # "none" \/ round = ParallelPart(round))

\* schedule() returns; an error is swallowed when a stop was requested.
Return ==
    /\ RoundDriven
    /\ phase' = "idle"
    /\ ret' = IF err # "none" /\ stopCnt = 0 THEN err ELSE "Ok"
    /\ pc' = [t \in Tests |-> "idle"]
    /\ UNCHANGED <<round, err, status, killed, before, started, completed,
                   results, late, semVars, stopVars, sutVars, stopSeen>>

\* The caller drops the future: the lock is released and the tasks of the
\* JoinSet are aborted.  A task that another worker thread is polling runs on
\* to its next await, so one that is about to push its result still may.
Drop ==
    /\ Cancellable
    /\ phase # "idle"
    /\ \E L \in SUBSET {t \in Tests : pc[t] = "record" /\ phase = "parallel" /\ CallsEnd} :
          late' = late \cup L
    /\ phase' = "idle"
    /\ ret' = "Dropped"
    /\ pc' = [t \in Tests |-> "idle"]
    /\ UNCHANGED <<round, err, status, killed, before, started, completed,
                   results, semVars, stopVars, sutVars, stopSeen>>

LatePush(t) ==
    /\ t \in late
    /\ late' = late \ {t}
    /\ results' = [results EXCEPT ![t] = @ + 1]
    /\ UNCHANGED <<roundVars, testVars, semVars, stopVars, sutVars, stopSeen>>

-----------------------------------------------------------------------------
(* run_one() and exec_test() *)

\* Mutant: the permit is forgotten.
FinishLeaking(t, e) ==
    /\ pc' = [pc EXCEPT ![t] = "done"]
    /\ permits' = permits
    /\ err' = IF err = "none" THEN e ELSE err

\* run_one returns e; the permit it may hold is dropped.
Finish(t, e) ==
    /\ pc' = [pc EXCEPT ![t] = "done"]
    /\ permits' = IF pc[t] \in OnSut THEN permits + 1 ELSE permits
    /\ err' = IF err = "none" THEN e ELSE err

MoveTo(t, place) ==
    /\ pc' = [pc EXCEPT ![t] = place]
    /\ UNCHANGED <<permits, err>>

taskUnchanged == <<phase, round, ret, late, cloned, stopVars, sutVars, stopSeen>>

\* The first look at stop_cnt; run_sequential gets here one test at a time.
Check(t) ==
    /\ pc[t] = "pending"
    /\ phase = "sequential" => Active = {} /\ err = "none"
    /\ IF stopCnt > 0 THEN Finish(t, "none") ELSE MoveTo(t, "acquire")
    /\ UNCHANGED <<taskUnchanged, status, killed, before, started, completed, results>>

\* Mutant: stop_cnt is not looked at again.
AcquireUnchecked(t) ==
    /\ pc[t] = "acquire"
    /\ permits > 0
    /\ pc' = [pc EXCEPT ![t] = "before"]
    /\ permits' = permits - 1
    /\ started' = started \cup {t}
    /\ UNCHANGED <<taskUnchanged, err, status, killed, before, completed, results>>

\* A permit is acquired and stop_cnt is looked at again.
Acquire(t) ==
    /\ pc[t] = "acquire"
    /\ permits > 0
    /\ IF stopCnt > 0
       THEN Finish(t, "none") /\ UNCHANGED started
       ELSE /\ pc' = [pc EXCEPT ![t] = "before"]
            /\ permits' = permits - 1
            /\ started' = started \cup {t}
            /\ UNCHANGED err
    /\ UNCHANGED <<taskUnchanged, status, killed, before, completed, results>>

\* write_kmsg(start), whose outcome is ignored, then the taint check before
\* the command.  A panic it reports leaves neither a row nor an error.
TaintBefore(t) ==
    /\ pc[t] = "before"
    /\ CallsEnd
    /\ \/ /\ sut = "up"
          /\ before' = [before EXCEPT ![t] = taint]
          /\ MoveTo(t, "running")
          /\ UNCHANGED status
       \/ /\ sut = "panicked"
          /\ status' = [status EXCEPT ![t] = "KernelPanic"]
          /\ Finish(t, "none")
          /\ UNCHANGED before
       \/ /\ sut # "panicked"
          /\ Finish(t, "Fatal")
          /\ UNCHANGED <<status, before>>
    /\ UNCHANGED <<taskUnchanged, killed, started, completed, results>>

\* run_command answers within the timeout.
RunCommand(t) ==
    /\ pc[t] = "running"
    /\ CallsEnd
    /\ \/ /\ sut = "up"
          /\ MoveTo(t, "after")
          /\ UNCHANGED <<status, killed>>
       \/ /\ sut \in {"up", "down"}
          /\ MoveTo(t, "after")
          /\ killed' = killed \cup {t}
          /\ UNCHANGED status
       \/ /\ sut = "panicked"
          /\ status' = [status EXCEPT ![t] = "KernelPanic"]
          /\ MoveTo(t, "parse")
          /\ UNCHANGED killed
       \/ /\ sut # "panicked"
          /\ Finish(t, "Fatal")
          /\ UNCHANGED <<status, killed>>
    /\ UNCHANGED <<taskUnchanged, before, started, completed, results>>

\* The timeout expires first: run_command is dropped, the SUT is pinged.
Timeout(t) ==
    /\ pc[t] = "running"
    /\ TestTimeout
    /\ status' = [status EXCEPT ![t] = "TestTimeout"]
    /\ MoveTo(t, "ping")
    /\ UNCHANGED <<taskUnchanged, killed, before, started, completed, results>>

\* ping() with its own timeout, which turns silence into a kernel timeout.
\* Any other failure of ping is fatal, a kernel panic it reports included.
Ping(t) ==
    /\ pc[t] = "ping"
    /\ \/ /\ sut = "up"
          /\ MoveTo(t, "parse")
          /\ UNCHANGED status
       \/ /\ sut \in {"hung", "panicked"}
          /\ status' = [status EXCEPT ![t] = "KernelTimeout"]
          /\ MoveTo(t, "parse")
       \/ /\ sut = "panicked"
          /\ Finish(t, "KernelPanic")
          /\ UNCHANGED status
       \/ /\ sut \in {"up", "down"}
          /\ Finish(t, "Fatal")
          /\ UNCHANGED status
    /\ UNCHANGED <<taskUnchanged, killed, before, started, completed, results>>

\* The taint check after a command that returned a row.
TaintAfter(t) ==
    /\ pc[t] = "after"
    /\ CallsEnd
    /\ \/ /\ sut = "up"
          /\ status' = [status EXCEPT ![t] = IF taint # before[t] THEN "KernelTainted" ELSE "Ok"]
          /\ MoveTo(t, "parse")
          /\ UNCHANGED killed
       \/ /\ sut = "panicked"
          /\ status' = [status EXCEPT ![t] = "KernelPanic"]
          /\ killed' = killed \ {t}
          /\ MoveTo(t, "parse")
       \/ /\ sut # "panicked"
          /\ Finish(t, "Fatal")
          /\ UNCHANGED <<status, killed>>
    /\ UNCHANGED <<taskUnchanged, before, started, completed, results>>

\* Mutant: every killed test is dropped, stop or no stop.
ReadResultDropping(t) ==
    /\ pc[t] = "parse"
    /\ IF t \in killed
       THEN Finish(t, "none") /\ UNCHANGED completed
       ELSE MoveTo(t, "record") /\ completed' = completed \cup {t}
    /\ UNCHANGED <<taskUnchanged, status, killed, before, started, results>>

\* A test killed by a forced stop is dropped; otherwise read_result parses
\* the row and test_completed is fired.
ReadResult(t) ==
    /\ pc[t] = "parse"
    /\ \/ /\ t \in killed /\ stopCnt > 1
          /\ Finish(t, "none")
          /\ UNCHANGED completed
       \/ /\ ~(t \in killed /\ stopCnt > 1)
          /\ MoveTo(t, "record")
          /\ completed' = completed \cup {t}
       \/ /\ ~(t \in killed /\ stopCnt > 1)
          /\ Finish(t, "Fatal")
          /\ UNCHANGED completed
    /\ UNCHANGED <<taskUnchanged, status, killed, before, started, results>>

\* Mutant: a taint is recorded but not raised.
RecordSilentTaint(t) ==
    /\ pc[t] = "record"
    /\ CallsEnd
    /\ results' = [results EXCEPT ![t] = @ + 1]
    /\ Finish(t, IF status[t] \in KernelErrors \ {"KernelTainted"} THEN status[t] ELSE "none")
    /\ UNCHANGED <<taskUnchanged, status, killed, before, started, completed>>

\* Mutant: a SUT that does not respond is recorded but not raised.
RecordSilentTimeout(t) ==
    /\ pc[t] = "record"
    /\ CallsEnd
    /\ results' = [results EXCEPT ![t] = @ + 1]
    /\ Finish(t, IF status[t] \in KernelErrors \ {"KernelTimeout"} THEN status[t] ELSE "none")
    /\ UNCHANGED <<taskUnchanged, status, killed, before, started, completed>>

\* Mutant: every status is returned as an error.
RecordRaisingAll(t) ==
    /\ pc[t] = "record"
    /\ CallsEnd
    /\ results' = [results EXCEPT ![t] = @ + 1]
    /\ Finish(t, status[t])
    /\ UNCHANGED <<taskUnchanged, status, killed, before, started, completed>>

\* write_kmsg(end), which run_one does not bound and whose error it ignores;
\* then the result is pushed, the permit dropped and the kernel error of the
\* test returned.
Record(t) ==
    /\ pc[t] = "record"
    /\ CallsEnd
    /\ results' = [results EXCEPT ![t] = @ + 1]
    /\ Finish(t, IF status[t] \in KernelErrors THEN status[t] ELSE "none")
    /\ UNCHANGED <<taskUnchanged, status, killed, before, started, completed>>

-----------------------------------------------------------------------------
(* stop() *)

stopUnchanged == <<roundVars, testVars, results, late, permits>>

StopBegin(p) ==
    /\ spc[p] = "idle"
    /\ stopCnt' = stopCnt + 1
    /\ spc' = [spc EXCEPT ![p] = IF stopCnt + 1 > 1 THEN "force" ELSE "clone"]
    /\ stopSeen' = TRUE
    /\ UNCHANGED <<stopUnchanged, cloned, stopped, sutVars>>

\* Only a second concurrent call stops the SUT.
StopSut(p) ==
    /\ spc[p] = "force"
    /\ sut' = "down"
    /\ spc' = [spc EXCEPT ![p] = "clone"]
    /\ UNCHANGED <<stopUnchanged, cloned, stopCnt, stopped, taint, stopSeen>>

StopClone(p) ==
    /\ spc[p] = "clone"
    /\ cloned' = cloned \cup {p}
    /\ spc' = [spc EXCEPT ![p] = "sem"]
    /\ UNCHANGED <<stopUnchanged, stopCnt, stopped, sutVars, stopSeen>>

\* Every permit of a phase that is over has been returned.
StopAcquire(p) ==
    /\ spc[p] = "sem"
    /\ p \notin cloned \/ phase = "idle" \/ permits > 0
    /\ cloned' = cloned \ {p}
    /\ spc' = [spc EXCEPT ![p] = "lock"]
    /\ UNCHANGED <<stopUnchanged, stopCnt, stopped, sutVars, stopSeen>>

\* Mutant: stop() does not wait for schedule_lock.
StopLockSkipped(p) ==
    /\ spc[p] = "lock"
    /\ spc' = [spc EXCEPT ![p] = "reset"]
    /\ UNCHANGED <<stopUnchanged, cloned, stopCnt, stopped, sutVars, stopSeen>>

StopLock(p) ==
    /\ spc[p] = "lock"
    /\ phase = "idle"
    /\ spc' = [spc EXCEPT ![p] = "reset"]
    /\ UNCHANGED <<stopUnchanged, cloned, stopCnt, stopped, sutVars, stopSeen>>

StopReset(p) ==
    /\ spc[p] = "reset"
    /\ stopCnt' = 0
    /\ stopped' = TRUE
    /\ spc' = [spc EXCEPT ![p] = "idle"]
    /\ UNCHANGED <<stopUnchanged, cloned, sutVars, stopSeen>>

-----------------------------------------------------------------------------
(* The SUT: what a test on it may do to its kernel, and its restart by the *)
(* caller of schedule() between two rounds.                                *)

envUnchanged == <<roundVars, testVars, results, late, semVars, stopVars, stopSeen>>

KernelTaint ==
    /\ sut = "up" /\ Holding # {} /\ taint < MaxTaint
    /\ taint' = taint + 1
    /\ UNCHANGED <<envUnchanged, sut>>

KernelPanic ==
    /\ MayPanic
    /\ sut = "up" /\ Holding # {}
    /\ sut' = "panicked"
    /\ UNCHANGED <<envUnchanged, taint>>

KernelHang ==
    /\ MayHang
    /\ sut = "up" /\ Holding # {}
    /\ sut' = "hung"
    /\ UNCHANGED <<envUnchanged, taint>>

\* A stop and a start.  A stop that fails leaves the SUT as it was, a start
\* that fails leaves it down.  Whether they boot another kernel, without the
\* taint of the last one, depends on the channel.
SutRestart ==
    /\ phase = "idle"
    /\ sut' \in {"up", "down", sut}
    /\ taint' \in {0, taint}
    /\ UNCHANGED envUnchanged

-----------------------------------------------------------------------------
Task(t) ==
    \/ Check(t) \/ Acquire(t) \/ TaintBefore(t) \/ RunCommand(t) \/ Timeout(t)
    \/ Ping(t) \/ TaintAfter(t) \/ ReadResult(t) \/ Record(t)

Stop(p) ==
    \/ StopSut(p) \/ StopClone(p) \/ StopAcquire(p) \/ StopLock(p) \/ StopReset(p)

Driver == BeginSequential \/ Return

Environment == KernelTaint \/ KernelPanic \/ KernelHang

Next ==
    \/ ScheduleEmpty
    \/ \E T \in SUBSET Tests : Schedule(T)
    \/ Driver
    \/ Drop
    \/ \E t \in Tests : Task(t) \/ LatePush(t)
    \/ \E p \in Stoppers : StopBegin(p) \/ Stop(p)
    \/ Environment
    \/ SutRestart

Spec == Init /\ [][Next]_vars

\* The runtime polls every task that can go on; the caller, the operator who
\* asks for a stop and the kernel's misbehaviour are under no obligation.
Fairness ==
    /\ WF_vars(Driver)
    /\ \A t \in Tests : WF_vars(Task(t)) /\ WF_vars(LatePush(t))
    /\ \A p \in Stoppers : WF_vars(Stop(p))

FairSpec == Spec /\ Fairness

-----------------------------------------------------------------------------
(* Properties *)

\* Every variable keeps its type.
TypeOK ==
    /\ phase \in {"idle", "parallel", "sequential"}
    /\ round \subseteq Tests
    /\ pc \in [Tests -> PCs]
    /\ status \in [Tests -> Statuses]
    /\ killed \subseteq Tests
    /\ before \in [Tests -> 0..MaxTaint]
    /\ results \in [Tests -> Nat]
    /\ err \in {"none", "Fatal"} \cup KernelErrors
    /\ ret \in Returns
    /\ late \subseteq Tests
    /\ permits \in Nat
    /\ stopCnt \in Nat
    /\ stopped \in BOOLEAN
    /\ spc \in [Stoppers -> {"idle", "force", "clone", "sem", "lock", "reset"}]
    /\ cloned \subseteq Stoppers
    /\ sut \in {"up", "panicked", "hung", "down"}
    /\ taint \in 0..MaxTaint
    /\ started \subseteq Tests
    /\ completed \subseteq Tests
    /\ stopSeen \in BOOLEAN

Capacity == IF phase = "parallel" THEN MaxWorkers ELSE 1

\* The permits of the running phase are conserved over every way out of
\* run_one: what its tests hold and what running_sem has left add up to the
\* capacity the phase began with, so neither a worker slot nor the slot that
\* stop() waits for is ever leaked or invented.
PermitsConserved ==
    phase # "idle" => permits + Cardinality(Holding) = Capacity

\* No more than max_workers tests are on the SUT at a time, a test that is
\* not parallelizable is on it alone, and none is when no round is running.
WorkersBounded ==
    /\ Cardinality(Holding) <= MaxWorkers
    /\ \A t \in Holding : t \notin Parallel => Holding = {t}
    /\ phase = "idle" => Holding = {}

\* run_one pushes the result of a test at most once in a round, only for a
\* test of the round, and only after its test_started and test_completed.
ResultsOnce ==
    \A t \in Tests :
        /\ results[t] <= 1
        /\ results[t] = 1 => t \in round \cap started \cap completed

\* schedule() returned Ok and nobody asked it to stop during the round: every
\* test it was given has its result.  SuiteScheduler::drive_suite relies on it
\* to make progress.
OkRoundComplete ==
    ret = "Ok" /\ ~stopSeen => \A t \in round : results[t] > 0

\* schedule() raises a kernel error only for a test whose result it recorded
\* ("Kernel errors raise after results are collected"), or the test that breaks
\* the kernel is run again after every restart; the one exception is a panic
\* that the ping after a test's timeout reports.  And no kernel condition is
\* swallowed: a test that was announced completed with one is raised by its
\* round, unless a stop was requested or another error came first.
KernelErrorsRaised ==
    /\ ret \in KernelErrors => \E t \in round :
          \/ status[t] = ret /\ results[t] > 0
          \/ ret = "KernelPanic" /\ status[t] = "TestTimeout" /\ t \notin completed
    /\ ret = "Ok" /\ ~stopSeen => \A t \in completed : status[t] \notin KernelErrors

\* The step that gives a stop() the schedule_lock finds no test on the SUT
\* and none that could still get there: stop() returns only after the drain.
StopDrains ==
    [][\A p \in Stoppers : spc[p] = "lock" /\ spc'[p] = "reset"
                               => \A t \in Tests : pc[t] = "idle"]_vars

\* From the moment stop() is called until it returns no test is started.
NoStartWhileStopping ==
    [][(\E p \in Stoppers : spc[p] # "idle") => started' \subseteq started]_vars

\* A test diagnosed with a kernel timeout has its result recorded ("result
\* recorded, then raised"), so that the caller restarts the SUT.  Not so where
\* calls on a SUT that does not answer block for ever.
KernelTimeoutRaised ==
    \A t \in Tests : pc[t] = "record" /\ status[t] = "KernelTimeout" ~> results[t] > 0

\* schedule() and every stop() return: no lost permit, lock or task blocks a
\* round, and no order of the two locks blocks them both.
RoundAndStopEnd ==
    /\ phase # "idle" ~> phase = "idle"
    /\ \A p \in Stoppers : spc[p] # "idle" ~> spc[p] = "idle"

-----------------------------------------------------------------------------
(* The promise to the caller, and the state it is about. *)

Contract == INSTANCE TestRound WITH
    Reliable <- ~MayPanic,
    busy     <- phase # "idle",
    tests    <- round,
    recorded <- {t \in Tests : results[t] > 0},
    stopping <- stopSeen

\* schedule() with its tasks, semaphores and stop() calls does nothing to the
\* results and to its return value that TestRound does not allow.
RefinesTestRound == Contract!Spec

=============================================================================
