--------------------------- MODULE SuiteScheduler ---------------------------
(***************************************************************************)
(* kirk-scheduler/src/suite_sched.rs: the loop that drives suites through  *)
(* the TestScheduler it owns, restarts the SUT after a kernel error and    *)
(* gives up on a suite when its timeout expires, and the calls of stop().  *)
(* Every inner step is an action of TestScheduler.                         *)
(***************************************************************************)
EXTENDS TestScheduler, Sequences

CONSTANTS
    Suites,  \* the suites of a schedule() call, each the set of its tests
    Loop,    \* the loop's own task, which calls inner.stop() to restart
    Repeat   \* schedule() is called again as long as it returns Ok (--runtime)

Users == Stoppers \ {Loop}

ASSUME SuitesAssumption ==
    /\ Suites \in Seq(SUBSET Tests) /\ Suites # <<>>
    /\ Loop \in Stoppers
    /\ Repeat \in BOOLEAN

VARIABLES
    upc,          \* where the loop is; "idle" when nobody holds schedule_lock
    suite,        \* index of the current suite
    left,         \* tests_left
    ran,          \* SuiteLoop.tests: how often every test has a result
    conf,         \* SuiteLoop.tests: tests with a CONF row
    timedOut,     \* SuiteLoop.timed_out
    outcome,      \* what drive_suite returned
    suiteResults, \* SuiteScheduler.results: one entry per recorded suite
    sret,         \* what the last call of schedule() returned
    stopFlag,     \* SuiteScheduler.stop_flag
    suiteStopped, \* SuiteScheduler.stopped
    ustop,        \* where every stop() call is
    stopReq       \* history: a stop() was in progress during this schedule()

loopVars  == <<upc, suite, left, ran, conf, timedOut, outcome, suiteResults, sret>>
ustopVars == <<stopFlag, suiteStopped, ustop>>
suiteVars == <<loopVars, ustopVars, stopReq>>
allVars   == <<vars, suiteVars>>

SuiteInit ==
    /\ Init
    /\ upc = "idle" /\ suite = 1 /\ left = {}
    /\ ran = [t \in Tests |-> 0] /\ conf = {}
    /\ timedOut = FALSE /\ outcome = "Ok"
    /\ suiteResults = <<>> /\ sret = "none"
    /\ stopFlag = FALSE /\ suiteStopped = FALSE
    /\ ustop = [p \in Users |-> "idle"]
    /\ stopReq = FALSE

-----------------------------------------------------------------------------
(* schedule(), run_suite() *)

\* A stop() whose inner stop is over waits for schedule_lock, in FIFO order.
WaitsForLoop(p) == ustop[p] = "inner" /\ spc[p] = "idle"

\* Mutant: the lock is not fair.
SuiteScheduleBarging ==
    /\ upc = "idle"
    /\ sret \in IF Repeat THEN {"none", "Ok"} ELSE {"none"}
    /\ upc' = "info"
    /\ suite' = 1
    /\ suiteResults' = <<>>
    /\ sret' = "none"
    /\ stopReq' = stopFlag
    /\ UNCHANGED <<vars, left, ran, conf, timedOut, outcome, ustopVars>>

SuiteSchedule ==
    /\ upc = "idle"
    /\ sret \in IF Repeat THEN {"none", "Ok"} ELSE {"none"}
    /\ \A p \in Users : ~WaitsForLoop(p)
    /\ upc' = "info"
    /\ suite' = 1
    /\ suiteResults' = <<>>
    /\ sret' = "none"
    /\ stopReq' = stopFlag
    /\ UNCHANGED <<vars, left, ran, conf, timedOut, outcome, ustopVars>>

\* Mutant: the rows of the last suite are kept.
GetInfoKeeping ==
    /\ upc = "info"
    /\ sut # "down"
    /\ upc' = "check"
    /\ left' = Suites[suite]
    /\ conf' = {} /\ timedOut' = FALSE /\ outcome' = "Ok"
    /\ UNCHANGED <<vars, ran, sret, suite, suiteResults, ustopVars, stopReq>>

\* suite_started, then get_info(): an error is returned with nothing recorded.
\* A hung SUT answers "unknown" after the timeout of every probe.
GetInfo ==
    /\ upc = "info"
    /\ \/ /\ sut # "down"
          /\ upc' = "check"
          /\ left' = Suites[suite]
          /\ ran' = [t \in Tests |-> 0] /\ conf' = {}
          /\ timedOut' = FALSE /\ outcome' = "Ok"
          /\ UNCHANGED sret
       \/ /\ sut # "hung"
          /\ upc' = "idle"
          /\ sret' = "Fatal"
          /\ UNCHANGED <<left, ran, conf, timedOut, outcome>>
    /\ UNCHANGED <<vars, suite, suiteResults, ustopVars, stopReq>>

\* Mutant: one suite too many.
RecordSuiteOffByOne ==
    /\ upc = "record"
    /\ suiteResults' = Append(suiteResults, [suite |-> suite, ran |-> ran, conf |-> conf])
    /\ \/ /\ outcome = "Ok" /\ suite <= Len(Suites)
          /\ suite' = suite + 1
          /\ upc' = "info"
          /\ UNCHANGED sret
       \/ /\ outcome = "Fatal"
          /\ upc' = "idle"
          /\ sret' = outcome
          /\ UNCHANGED suite
    /\ UNCHANGED <<vars, left, ran, conf, timedOut, outcome, ustopVars, stopReq>>

\* Recorded on every way out of drive_suite; an error ends schedule().
RecordSuite ==
    /\ upc = "record"
    /\ suiteResults' = Append(suiteResults, [suite |-> suite, ran |-> ran, conf |-> conf])
    /\ \/ /\ outcome = "Ok" /\ suite < Len(Suites)
          /\ suite' = suite + 1
          /\ upc' = "info"
          /\ UNCHANGED sret
       \/ /\ outcome = "Fatal" \/ suite = Len(Suites)
          /\ upc' = "idle"
          /\ sret' = outcome
          /\ UNCHANGED suite
    /\ UNCHANGED <<vars, left, ran, conf, timedOut, outcome, ustopVars, stopReq>>

-----------------------------------------------------------------------------
(* drive_suite(), restart_sut() *)

WhileCheck ==
    /\ upc = "check"
    /\ upc' = IF stopFlag \/ left = {} THEN "record" ELSE "call"
    /\ UNCHANGED <<vars, suite, left, ran, conf, timedOut, outcome, suiteResults, sret,
                   ustopVars, stopReq>>

CallRound ==
    /\ upc = "call"
    /\ Schedule(left)
    /\ upc' = "round"
    /\ UNCHANGED <<suite, left, ran, conf, timedOut, outcome, suiteResults, sret,
                   ustopVars, stopReq>>

RoundReturns ==
    /\ upc = "round"
    /\ Return
    /\ upc' = "collect"
    /\ UNCHANGED <<suite, left, ran, conf, timedOut, outcome, suiteResults, sret,
                   ustopVars, stopReq>>

\* The suite timeout bounds one round, not the suite: it expires, the inner
\* schedule is dropped.
SuiteTimeout ==
    /\ upc = "round"
    /\ Drop
    /\ upc' = "collect"
    /\ timedOut' = TRUE
    /\ UNCHANGED <<suite, left, ran, conf, outcome, suiteResults, sret, ustopVars, stopReq>>

\* Mutant: a kernel error does not restart the SUT.
CollectSkippingRestart ==
    /\ upc = "collect"
    /\ ran' = [t \in Tests |-> ran[t] + results[t]]
    /\ IF ret = "Fatal"
       THEN upc' = "record" /\ outcome' = "Fatal"
       ELSE upc' = "left" /\ UNCHANGED outcome
    /\ UNCHANGED <<vars, suite, left, conf, timedOut, suiteResults, sret, ustopVars, stopReq>>

\* Mutant: the results of a round that raised are not collected.
CollectLosing ==
    /\ upc = "collect"
    /\ ran' = IF ret = "Ok" THEN [t \in Tests |-> ran[t] + results[t]] ELSE ran
    /\ \/ ret = "Ok" /\ upc' = "left" /\ UNCHANGED outcome
       \/ ret \in KernelErrors /\ upc' = "restart" /\ UNCHANGED outcome
       \/ ret = "Fatal" /\ upc' = "record" /\ outcome' = "Fatal"
    /\ UNCHANGED <<vars, suite, left, conf, timedOut, suiteResults, sret, ustopVars, stopReq>>

\* inner.results() is appended and the round's outcome looked at.
Collect ==
    /\ upc = "collect"
    /\ ran' = [t \in Tests |-> ran[t] + results[t]]
    /\ \/ /\ timedOut \/ ret = "Ok"
          /\ upc' = "left"
          /\ UNCHANGED outcome
       \/ /\ ~timedOut /\ ret \in KernelErrors
          /\ upc' = "restart"
          /\ UNCHANGED outcome
       \/ /\ ~timedOut /\ ret = "Fatal"
          /\ upc' = "record"
          /\ outcome' = "Fatal"
    /\ UNCHANGED <<vars, suite, left, conf, timedOut, suiteResults, sret, ustopVars, stopReq>>

\* restart_sut(): inner.stop() by the loop itself, then sut.restart().
RestartBegin ==
    /\ upc = "restart"
    /\ StopBegin(Loop)
    /\ upc' = "stopping"
    /\ UNCHANGED <<suite, left, ran, conf, timedOut, outcome, suiteResults, sret,
                   ustopVars, stopReq>>

\* Once the inner stop is over the SUT is restarted; an error ends the suite.
Reboot ==
    /\ upc = "stopping"
    /\ spc[Loop] = "idle"
    /\ SutRestart
    /\ \/ sut' = "up" /\ upc' = "left" /\ UNCHANGED outcome
       \/ sut' \in {"down", sut} /\ upc' = "record" /\ outcome' = "Fatal"
    /\ UNCHANGED <<suite, left, ran, conf, timedOut, suiteResults, sret, ustopVars, stopReq>>

\* Mutant: what a restart left over is given up.
LeftoverGivingUp ==
    /\ upc = "left"
    /\ left' = {} /\ upc' = "record" /\ UNCHANGED conf
    /\ UNCHANGED <<vars, suite, ran, timedOut, outcome, suiteResults, sret, ustopVars, stopReq>>

\* Mutant: on a timeout the tests with a result get a CONF row as well.
LeftoverConfAll ==
    /\ upc = "left"
    /\ IF timedOut
       THEN conf' = Suites[suite] /\ left' = {} /\ upc' = "record"
       ELSE left' = {t \in Suites[suite] : ran[t] = 0} /\ upc' = "check" /\ UNCHANGED conf
    /\ UNCHANGED <<vars, suite, ran, timedOut, outcome, suiteResults, sret, ustopVars, stopReq>>

\* tests_left are the tests without a result; CONF rows when timed out.
Leftover ==
    /\ upc = "left"
    /\ LET missing == {t \in Suites[suite] : ran[t] = 0} IN
          IF timedOut
          THEN conf' = missing /\ left' = {} /\ upc' = "record"
          ELSE left' = missing /\ upc' = "check" /\ UNCHANGED conf
    /\ UNCHANGED <<vars, suite, ran, timedOut, outcome, suiteResults, sret, ustopVars, stopReq>>

-----------------------------------------------------------------------------
(* stop() *)

UserStop(p) ==
    /\ ustop[p] = "idle"
    /\ stopFlag' = TRUE
    /\ ustop' = [ustop EXCEPT ![p] = "begin"]
    /\ stopReq' = TRUE
    /\ UNCHANGED <<vars, loopVars, suiteStopped>>

UserStopInner(p) ==
    /\ ustop[p] = "begin"
    /\ StopBegin(p)
    /\ ustop' = [ustop EXCEPT ![p] = "inner"]
    /\ UNCHANGED <<loopVars, stopFlag, suiteStopped, stopReq>>

UserStopLock(p) ==
    /\ WaitsForLoop(p)
    /\ upc = "idle"
    /\ ustop' = [ustop EXCEPT ![p] = "reset"]
    /\ UNCHANGED <<vars, loopVars, stopFlag, suiteStopped, stopReq>>

UserStopReset(p) ==
    /\ ustop[p] = "reset"
    /\ stopFlag' = FALSE
    /\ suiteStopped' = TRUE
    /\ ustop' = [ustop EXCEPT ![p] = "idle"]
    /\ UNCHANGED <<vars, loopVars, stopReq>>

-----------------------------------------------------------------------------
SuiteLoop ==
    \/ GetInfo \/ RecordSuite \/ WhileCheck \/ CallRound \/ RoundReturns \/ Collect
    \/ RestartBegin \/ Reboot \/ Leftover

\* A step of the inner scheduler or of the SUT that the loop does not see.
Inner(A) == A /\ UNCHANGED suiteVars

SuiteStop(p) ==
    UserStopInner(p) \/ Inner(Stop(p)) \/ UserStopLock(p) \/ UserStopReset(p)

SuiteNext ==
    \/ SuiteSchedule
    \/ SuiteLoop
    \/ SuiteTimeout
    \/ \E p \in Users : UserStop(p) \/ SuiteStop(p)
    \/ Inner(BeginSequential)
    \/ \E t \in Tests : Inner(Task(t) \/ LatePush(t))
    \/ Inner(Stop(Loop))
    \/ Inner(Environment)

SuiteSpec == SuiteInit /\ [][SuiteNext]_allVars

\* The runtime polls every task that can go on.
SuiteFairness ==
    /\ WF_allVars(SuiteLoop)
    /\ WF_allVars(Inner(BeginSequential))
    /\ \A t \in Tests : WF_allVars(Inner(Task(t)))
    /\ WF_allVars(Inner(Stop(Loop)))
    /\ \A p \in Users : WF_allVars(SuiteStop(p))

SuiteFairSpec == SuiteSpec /\ SuiteFairness

-----------------------------------------------------------------------------
(* Properties *)

\* Every variable of the loop keeps its type.
SuiteTypeOK ==
    /\ upc \in {"idle", "info", "check", "call", "round", "collect", "restart",
                "stopping", "left", "record"}
    /\ suite \in 1..Len(Suites)
    /\ left \subseteq Tests
    /\ ran \in [Tests -> Nat]
    /\ conf \subseteq Tests
    /\ timedOut \in BOOLEAN
    /\ outcome \in {"Ok", "Fatal"}
    /\ suiteResults \in Seq([suite : 1..Len(Suites), ran : [Tests -> Nat], conf : SUBSET Tests])
    /\ sret \in {"none", "Ok", "Fatal"}
    /\ stopFlag \in BOOLEAN
    /\ suiteStopped \in BOOLEAN
    /\ ustop \in [Users -> {"idle", "begin", "inner", "reset"}]
    /\ stopReq \in BOOLEAN

\* However many restarts it takes, no test of a suite is reported twice, and
\* none both as executed and as left over.
RowsOnce ==
    \A i \in DOMAIN suiteResults : \A t \in Tests :
        suiteResults[i].ran[t] + (IF t \in suiteResults[i].conf THEN 1 ELSE 0) <= 1

\* schedule() returned Ok and nobody asked for a stop: every test of every
\* suite is reported exactly once, over kernel errors, restarts and timeouts.
SuitesAccounted ==
    sret = "Ok" /\ ~stopReq =>
        /\ Len(suiteResults) = Len(Suites)
        /\ \A i \in DOMAIN Suites : \A t \in Suites[i] :
              (suiteResults[i].ran[t] = 1) # (t \in suiteResults[i].conf)

\* A suite's report holds results of its own tests only.
RowsOfSuite ==
    \A i \in DOMAIN suiteResults : \A t \in Tests :
        suiteResults[i].ran[t] > 0 => t \in Suites[suiteResults[i].suite]

\* A round that follows a kernel error begins on a SUT that was restarted since,
\* which no forced stop() is about to take away again, and with stop_cnt
\* back at 0 unless a user asked for a stop: else run_one would skip its tests.
RestartedAfterKernelError ==
    [][upc = "call" /\ upc' = "round" /\ ret \in KernelErrors =>
          /\ sut = "up"
          /\ \A p \in Stoppers : spc[p] # "force"
          /\ stopCnt > 0 => \E p \in Users : ustop[p] # "idle"]_allVars

\* schedule() returns: every restart is followed by progress.
SuiteEnds == upc # "idle" ~> upc = "idle"

\* Every stop() returns.
SuiteStopEnds == \A p \in Users : ustop[p] # "idle" ~> ustop[p] = "idle"

=============================================================================
