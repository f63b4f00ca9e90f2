------------------------------- MODULE Session -------------------------------
(***************************************************************************)
(* kirk-session/src/session.rs: Session::run with restore, iterate,        *)
(* runtime, fault injection and export, concurrent calls of Session::stop, *)
(* and the Ctrl-C of kirk-cli's run_session, which drops run() and calls   *)
(* stop().  A second session restores from the directory of the first.     *)
(* The suite scheduler is reduced to what SuiteScheduler shows of it: a    *)
(* schedule() runs tests and records their rows, runs some again after a   *)
(* kernel error, gives a suite up, fails, or obeys a stop().               *)
(***************************************************************************)
EXTENDS Integers, FiniteSets, Sequences

CONSTANTS
    Suites,       \* RunOptions.suites as found: records with name and tests
    Selected,     \* tests that pass the pattern and the skip filter
    Iterate,      \* RunOptions.suite_iterate
    Runtime,      \* RunOptions.runtime > 0
    Command,      \* RunOptions.command is given
    Fault,        \* RunOptions.fault_prob # 0
    DryRuns,      \* values of RunOptions.dry_run
    SuiteTimeout, \* a suite may exceed its timeout
    Stoppers,     \* tasks that may call Session::stop
    IdleStops,    \* also while no run() is in progress
    Interrupts,   \* Ctrl-C may arrive
    Sessions,     \* number of sessions, each restoring from the one before
    MaxRounds     \* bound on the iterations of schedule_infinite

ASSUME SessionAssumption ==
    /\ {Runtime, Command, Fault, SuiteTimeout, IdleStops, Interrupts} \cup DryRuns \subseteq BOOLEAN
    /\ {Iterate, Sessions, MaxRounds} \subseteq Nat \ {0}
    /\ Suites \in Seq([name : STRING, tests : SUBSET STRING])

VARIABLES
    sess,         \* the session, and the number of its directory
    rpc,          \* where run() is; "idle" when run_lock is free
    dry,          \* RunOptions.dry_run of this run()
    plan,         \* the suites to schedule, with their names as path
    count,        \* the round of schedule_infinite
    outcome,      \* what run_inner returned so far
    ret,          \* what the last run() returned
    idx,          \* schedule(): the current suite
    todo,         \* its tests without a row
    running,      \* tests of the round that were started and have no row yet
    rows,         \* the suite's rows: a test, and whether it was run or is CONF
    schedResults, \* SuiteScheduler.results
    schedStop,    \* SuiteScheduler.stop_flag
    schedStopped, \* SuiteScheduler.stopped
    results,      \* Session.results
    executed,     \* the executed file of every session's directory
    report,       \* results.json
    stopFlag,     \* Session.stop_flag
    spc,          \* where every stop() is
    up,           \* the SUT is running
    fault,        \* its fault injection knobs are set
    knobs,        \* what the last write of the knobs came to
    ran,          \* history: what was started on the SUT, by session
    recorded,     \* history: what has a row of the scheduler
    cut,          \* history: the runtime ended a round before its rows were collected
    stopReq       \* history: a stop or a Ctrl-C came during this run()

planVars  == <<sess, dry, plan, count>>
schedVars == <<idx, todo, running, rows, schedResults>>
histVars  == <<ran, recorded, cut>>
stopVars  == <<stopFlag, spc, schedStop, schedStopped>>
diskVars  == <<executed, report>>
sutVars   == <<up, fault, knobs>>
vars == <<planVars, rpc, outcome, ret, schedVars, stopVars, results, diskVars,
          sutVars, histVars, stopReq>>

Init ==
    /\ sess = 1 /\ dry = FALSE /\ rpc = "idle" /\ plan = <<>> /\ count = 1
    /\ outcome = "Ok" /\ ret = "none"
    /\ idx = 1 /\ todo = {} /\ running = {} /\ rows = {} /\ schedResults = <<>>
    /\ schedStop = FALSE /\ schedStopped = FALSE
    /\ results = <<>>
    /\ executed = [s \in 1..Sessions |-> {}] /\ report = <<>>
    /\ stopFlag = FALSE /\ spc = [p \in Stoppers |-> "idle"]
    /\ up = FALSE /\ fault = FALSE /\ knobs = "written"
    /\ ran = {} /\ recorded = {} /\ cut = FALSE /\ stopReq = FALSE

\* run() goes on, or goes to its common end with an error.
Goto(place) == rpc' = place /\ UNCHANGED <<outcome, ret>>
Fail        == rpc' = "reset" /\ outcome' = "Err" /\ UNCHANGED ret

-----------------------------------------------------------------------------
(* The suites to run *)

\* The lines of the directory to restore from: suite name and test.
Restored == IF sess = 1 THEN {} ELSE executed[sess - 1]

\* Mutant: a suite the file does not know ends the loop over the suites.
RestoreTestsBreaking(suites) ==
    [i \in DOMAIN suites |->
        [suites[i] EXCEPT !.tests =
            {t \in @ : \/ <<suites[i].name, t>> \notin Restored
                       \/ \E j \in 1..i - 1 : \A line \in Restored : line[1] # suites[j].name}]]

\* Mutant: the lines are compared by test name alone.
RestoreTestsByName(suites) ==
    [i \in DOMAIN suites |->
        [suites[i] EXCEPT !.tests = {t \in @ : \A line \in Restored : line[2] # t}]]

\* restore_tests(): the tests the file names under the suite's name are left out.
RestoreTests(suites) ==
    [i \in DOMAIN suites |->
        [suites[i] EXCEPT !.tests = {t \in @ : <<suites[i].name, t>> \notin Restored}]]

FilterTests(suites) ==
    [i \in DOMAIN suites |-> [suites[i] EXCEPT !.tests = @ \cap Selected]]

\* apply_iterate() and schedule_infinite() rename: suite becomes suite[i].
Rename(suite, i) == [suite EXCEPT !.name = Append(@, i)]

ApplyIterate(suites) ==
    IF Iterate = 1
    THEN suites
    ELSE [j \in 1..(Len(suites) * Iterate) |->
             Rename(suites[(j - 1) \div Iterate + 1], (j - 1) % Iterate)]

Found == [i \in DOMAIN Suites |-> [name |-> <<Suites[i].name>>, tests |-> Suites[i].tests]]

-----------------------------------------------------------------------------
(* run() up to the scheduler *)

\* The command line calls run() once per session.
Run ==
    /\ rpc = "idle" /\ ret = "none"
    /\ \A p \in Stoppers : spc[p] # "lock"
    /\ dry' \in DryRuns
    /\ rpc' = "start" /\ outcome' = "Ok"
    /\ stopReq' = \E p \in Stoppers : spc[p] # "idle"
    /\ knobs' = "written"
    /\ UNCHANGED <<sess, plan, count, ret, schedVars, stopVars, results, diskVars, up, fault, histVars>>

\* start_sut() does nothing to a running SUT.
StartSut ==
    /\ rpc = "start"
    /\ \/ up' = TRUE /\ Goto(IF dry THEN "read" ELSE "command")
       \/ ~up /\ UNCHANGED up /\ Fail
    /\ UNCHANGED <<planVars, schedVars, stopVars, results, diskVars, fault, knobs, histVars, stopReq>>

\* The only look at stop_flag before the scheduler.
ExecCommand ==
    /\ rpc = "command"
    /\ \/ (~Command \/ stopFlag \/ up) /\ Goto("fault")
       \/ Command /\ ~stopFlag /\ Fail
    /\ UNCHANGED <<planVars, schedVars, stopVars, results, diskVars, sutVars, histVars, stopReq>>

\* apply_fault_injection(): a knob that refuses its value, maybe after others
\* took theirs, is worth a warning, and so is an SUT without root or without the
\* knobs, but only if they are to be set; a probe that fails is passed over.
ApplyFaultInjection(on) ==
    \/ /\ Fault /\ up
       /\ \/ knobs' = "written" /\ fault' = on
          \/ knobs' = "warned" /\ fault' \in {on, fault}
          \/ knobs' = "silent" /\ UNCHANGED fault
    \/ Fault /\ ~up /\ knobs' = "silent" /\ UNCHANGED fault
    \/ ~Fault /\ UNCHANGED <<fault, knobs>>

SetFault ==
    /\ rpc = "fault"
    /\ ApplyFaultInjection(TRUE)
    /\ Goto("read")
    /\ UNCHANGED <<planVars, schedVars, stopVars, results, diskVars, up, histVars, stopReq>>

\* read_suites(), apply_iterate(): discovery needs the SUT and may fail, and a
\* session with nothing to run is an error.
ReadSuites ==
    /\ rpc = "read"
    /\ LET suites == FilterTests(RestoreTests(Found)) IN
          \/ /\ up
             /\ \E i \in DOMAIN suites : suites[i].tests # {}
             /\ plan' = ApplyIterate(suites)
             /\ Goto(IF dry THEN "reset" ELSE "loop")
          \/ plan' = <<>> /\ Fail
    /\ count' = 1
    /\ UNCHANGED <<sess, dry, schedVars, stopVars, results, diskVars, sutVars, histVars, stopReq>>

-----------------------------------------------------------------------------
(* The suite scheduler as the session uses it *)

quiet == <<planVars, stopVars, results, diskVars, fault, knobs, stopReq>>

ThisRound == IF Runtime THEN [i \in DOMAIN plan |-> Rename(plan[i], count)] ELSE plan

\* schedule(): its lock is FIFO, a waiting stop() goes first.
Schedule ==
    /\ rpc = "loop"
    /\ \A p \in Stoppers : spc[p] # "sched"
    /\ Runtime => ~stopFlag /\ count <= MaxRounds
    /\ idx' = 1 /\ todo' = ThisRound[1].tests /\ running' = {} /\ rows' = {}
    /\ schedResults' = <<>>
    /\ Goto("schedule")
    /\ UNCHANGED <<quiet, up, histVars>>

\* The tests of a suite may run beside each other.
RunTest(t) ==
    /\ rpc = "schedule" /\ up
    /\ t \in todo \ running
    /\ running' = running \cup {t}
    /\ ran' = ran \cup {[sess |-> sess, suite |-> ThisRound[idx].name, test |-> t]}
    /\ UNCHANGED <<quiet, rpc, outcome, ret, idx, todo, rows, schedResults, up, recorded, cut>>

\* The row of a test.  After a kernel error the round is over with it, the SUT
\* is restarted, and its other tests are run again.
RecordTest(t) ==
    /\ rpc = "schedule"
    /\ t \in running
    /\ rows' = rows \cup {[test |-> t, run |-> TRUE]}
    /\ todo' = todo \ {t}
    /\ recorded' = recorded \cup {[sess |-> sess, suite |-> ThisRound[idx].name, test |-> t]}
    /\ \/ running' = running \ {t} /\ UNCHANGED up
       \/ running' = {} /\ up' = TRUE
    /\ UNCHANGED <<quiet, rpc, outcome, ret, idx, schedResults, ran, cut>>

\* The suite timeout: CONF rows for the tests that are left.
SuiteExpires ==
    /\ SuiteTimeout
    /\ rpc = "schedule" /\ todo # {}
    /\ rows' = rows \cup [test : todo, run : {FALSE}]
    /\ todo' = {} /\ running' = {}
    /\ UNCHANGED <<quiet, rpc, outcome, ret, idx, schedResults, up, histVars>>

Recorded == Append(schedResults, [name |-> ThisRound[idx].name, rows |-> rows])

\* A suite is over: with its tests, or by a stop(), which drops those that run.
SuiteDone ==
    /\ rpc = "schedule"
    /\ todo = {} \/ schedStop
    /\ schedResults' = Recorded
    /\ running' = {}
    /\ IF idx < Len(plan)
       THEN idx' = idx + 1 /\ todo' = ThisRound[idx + 1].tests /\ rows' = {} /\ UNCHANGED rpc
       ELSE rpc' = "collect" /\ UNCHANGED <<idx, todo, rows>>
    /\ UNCHANGED <<quiet, outcome, ret, up, histVars>>

\* An error of the channel, of the framework or of a restart ends schedule(), with
\* the suite recorded so far unless it is the get_info() at its beginning that fails.
ScheduleFails ==
    /\ rpc = "schedule"
    /\ \/ schedResults' = Recorded
       \/ rows = {} /\ running = {} /\ UNCHANGED schedResults
    /\ rpc' = "collect" /\ outcome' = "Err"
    /\ up' \in {up, FALSE}
    /\ UNCHANGED <<quiet, ret, idx, todo, running, rows, histVars>>

-----------------------------------------------------------------------------
(* schedule_once(), schedule_infinite(), run_scheduler() *)

\* Mutant: the results of a round replace those of the rounds before.
CollectLast ==
    /\ rpc = "collect"
    /\ results' = schedResults
    /\ Goto("append")
    /\ UNCHANGED <<planVars, schedVars, stopVars, diskVars, sutVars, histVars, stopReq>>

Collect ==
    /\ rpc = "collect"
    /\ results' = results \o schedResults
    /\ Goto("append")
    /\ UNCHANGED <<planVars, schedVars, stopVars, diskVars, sutVars, histVars, stopReq>>

\* A line for every row, a CONF row included, until a write fails.
Lines == UNION {{<<schedResults[i].name, row.test>> : row \in schedResults[i].rows} :
                   i \in DOMAIN schedResults}

AppendExecuted ==
    /\ rpc = "append"
    /\ \E L \in SUBSET Lines :
          executed' = [executed EXCEPT ![sess] = @ \cup L]
    /\ rpc' = IF Runtime /\ outcome = "Ok" THEN "again" ELSE IF Runtime THEN "expired" ELSE "reset"
    /\ outcome' = IF Runtime THEN "Ok" ELSE outcome
    /\ UNCHANGED <<planVars, ret, schedVars, stopVars, results, report, sutVars, histVars, stopReq>>

\* The end of a round: a scheduler that was stopped is not asked again.
Again ==
    /\ rpc = "again"
    /\ IF schedStopped
       THEN Goto("stopped") /\ UNCHANGED count
       ELSE Goto("loop") /\ count' = count + 1
    /\ UNCHANGED <<sess, dry, plan, schedVars, stopVars, results, diskVars, sutVars, histVars, stopReq>>

LoopStopped ==
    /\ rpc = "loop" /\ Runtime /\ stopFlag
    /\ Goto("stopped")
    /\ UNCHANGED <<planVars, schedVars, stopVars, results, diskVars, sutVars, histVars, stopReq>>

\* The runtime is over: schedule_infinite() is dropped wherever it is.
RuntimeExpires ==
    /\ Runtime /\ rpc \in {"loop", "schedule", "collect", "append", "again"}
    /\ rpc' = "expired" /\ outcome' = "Ok"
    /\ cut' = (cut \/ rpc \in {"schedule", "collect"})
    /\ UNCHANGED <<planVars, ret, schedVars, stopVars, results, diskVars, sutVars, ran, recorded, stopReq>>

\* scheduler.stop(), with nothing scheduled.
StopIdleScheduler == schedStop' = FALSE /\ schedStopped' = TRUE

RuntimeStop ==
    /\ rpc \in {"stopped", "expired"}
    /\ StopIdleScheduler
    /\ Goto("reset")
    /\ UNCHANGED <<planVars, schedVars, stopFlag, spc, results, diskVars, sutVars, histVars, stopReq>>

-----------------------------------------------------------------------------
(* The end of run() *)

\* Mutant: an error skips the reset.
ResetFaultOnSuccess ==
    /\ rpc = "reset"
    /\ IF dry \/ outcome # "Ok" THEN UNCHANGED <<fault, knobs>> ELSE ApplyFaultInjection(FALSE)
    /\ Goto("export")
    /\ UNCHANGED <<planVars, schedVars, stopVars, results, diskVars, up, histVars, stopReq>>

ResetFault ==
    /\ rpc = "reset"
    /\ IF dry THEN UNCHANGED <<fault, knobs>> ELSE ApplyFaultInjection(FALSE)
    /\ Goto("export")
    /\ UNCHANGED <<planVars, schedVars, stopVars, results, diskVars, up, histVars, stopReq>>

\* Mutant: the results of a session that failed are not exported.
ExportOnSuccess ==
    /\ rpc = "export"
    /\ results' = <<>>
    /\ IF results # <<>> /\ outcome = "Ok" THEN report' = results ELSE UNCHANGED report
    /\ Goto("stop")
    /\ UNCHANGED <<planVars, schedVars, stopVars, executed, sutVars, histVars, stopReq>>

\* The results are taken; an export that fails is the outcome of run().
Export ==
    /\ rpc = "export"
    /\ results' = <<>>
    /\ \/ results = <<>> /\ UNCHANGED report /\ Goto("stop")
       \/ results # <<>> /\ report' = results /\ Goto("stop")
       \/ results # <<>> /\ rpc' = "stop" /\ outcome' = "ExportErr" /\ UNCHANGED <<report, ret>>
    /\ UNCHANGED <<planVars, schedVars, stopVars, executed, sutVars, histVars, stopReq>>

InnerStop ==
    /\ rpc = "stop"
    /\ StopIdleScheduler
    /\ up' = FALSE
    /\ rpc' = "idle" /\ ret' = outcome
    /\ UNCHANGED <<planVars, outcome, schedVars, stopFlag, spc, results, diskVars,
                   fault, knobs, histVars, stopReq>>

-----------------------------------------------------------------------------
(* stop(), Ctrl-C, and the next session *)

stopQuiet == <<planVars, outcome, schedVars, results, diskVars, fault, knobs, histVars>>

Stop(p) ==
    /\ spc[p] = "idle"
    /\ IdleStops \/ rpc # "idle"
    /\ stopFlag' = TRUE
    /\ schedStop' = TRUE
    /\ spc' = [spc EXCEPT ![p] = "begin"]
    /\ stopReq' = TRUE
    /\ UNCHANGED <<stopQuiet, rpc, ret, schedStopped, up>>

\* The inner scheduler was stopped; SuiteScheduler::stop() waits for its lock.
StopWaits(p) ==
    /\ spc[p] = "begin"
    /\ spc' = [spc EXCEPT ![p] = "sched"]
    /\ UNCHANGED <<stopQuiet, rpc, ret, stopFlag, schedStop, schedStopped, up, stopReq>>

StopScheduler(p) ==
    /\ spc[p] = "sched" /\ rpc # "schedule"
    /\ StopIdleScheduler
    /\ spc' = [spc EXCEPT ![p] = "sut"]
    /\ UNCHANGED <<stopQuiet, rpc, ret, stopFlag, up, stopReq>>

StopSut(p) ==
    /\ spc[p] = "sut"
    /\ up' = FALSE
    /\ spc' = [spc EXCEPT ![p] = "lock"]
    /\ UNCHANGED <<stopQuiet, rpc, ret, stopFlag, schedStop, schedStopped, stopReq>>

StopReturns(p) ==
    /\ spc[p] = "lock" /\ rpc = "idle"
    /\ stopFlag' = FALSE
    /\ spc' = [spc EXCEPT ![p] = "idle"]
    /\ UNCHANGED <<stopQuiet, rpc, ret, schedStop, schedStopped, up, stopReq>>

\* Mutant: run() is pinned outside the select and keeps run_lock.
CtrlCPinned(p) ==
    /\ Interrupts
    /\ rpc \notin {"idle", "pinned"} /\ rpc' = "pinned" /\ ret' = "Dropped"
    /\ spc[p] = "idle"
    /\ stopFlag' = TRUE
    /\ schedStop' = TRUE
    /\ spc' = [spc EXCEPT ![p] = "begin"]
    /\ stopReq' = TRUE
    /\ UNCHANGED <<stopQuiet, schedStopped, up>>

\* run() is dropped and stop() called on what is left of the session.
CtrlC(p) ==
    /\ Interrupts
    /\ rpc # "idle"
    /\ rpc' = "idle" /\ ret' = "Dropped"
    /\ spc[p] = "idle"
    /\ stopFlag' = TRUE
    /\ schedStop' = TRUE
    /\ spc' = [spc EXCEPT ![p] = "begin"]
    /\ stopReq' = TRUE
    /\ UNCHANGED <<stopQuiet, schedStopped, up>>

\* A new process, with --restore on the directory of the last one.
NewSession ==
    /\ sess < Sessions /\ rpc = "idle" /\ ret # "none"
    /\ \A p \in Stoppers : spc[p] = "idle"
    /\ sess' = sess + 1 /\ plan' = <<>> /\ count' = 1
    /\ outcome' = "Ok" /\ ret' = "none"
    /\ idx' = 1 /\ todo' = {} /\ running' = {} /\ rows' = {} /\ schedResults' = <<>>
    /\ schedStop' = FALSE /\ schedStopped' = FALSE /\ results' = <<>> /\ report' = <<>>
    /\ up' = FALSE /\ knobs' = "written" /\ cut' = FALSE /\ stopReq' = FALSE
    /\ UNCHANGED <<dry, rpc, stopFlag, spc, executed, fault, ran, recorded>>

RunStep ==
    \/ StartSut \/ ExecCommand \/ SetFault \/ ReadSuites
    \/ Schedule \/ (\E t \in todo : RunTest(t) \/ RecordTest(t)) \/ SuiteExpires \/ SuiteDone \/ ScheduleFails
    \/ Collect \/ AppendExecuted \/ Again \/ LoopStopped \/ RuntimeExpires \/ RuntimeStop
    \/ ResetFault \/ Export \/ InnerStop

StopStep(p) == StopWaits(p) \/ StopScheduler(p) \/ StopSut(p) \/ StopReturns(p)

Next ==
    \/ Run \/ RunStep \/ NewSession
    \/ \E p \in Stoppers : Stop(p) \/ StopStep(p) \/ CtrlC(p)

Spec == Init /\ [][Next]_vars

\* The runtime polls run() and stop(); a test that runs ends, and so does the
\* runtime of a session.
FairSpec == Spec /\ WF_vars(RunStep) /\ \A p \in Stoppers : WF_vars(StopStep(p))

-----------------------------------------------------------------------------
(* Properties *)

\* Test t of suite `name` has a row in results.json.
Reported(name, t) ==
    \E i \in DOMAIN report : report[i].name = name /\ \E row \in report[i].rows : row.test = t

\* run() returned and could export.  What the scheduler recorded, also before a
\* failure, a stop() or a restart of the SUT, is in results.json ("Partial results
\* collected before a failure are still exported"), but for the round that the
\* runtime ended; and a run() without a runtime that returned Ok and that nobody
\* asked to stop has a row there for every test of its plan.
ReportComplete ==
    rpc = "idle" /\ ret \in {"Ok", "Err"} =>
        /\ \A x \in recorded : x.sess = sess =>
              \/ \E i \in DOMAIN report :
                    /\ report[i].name = x.suite
                    /\ [test |-> x.test, run |-> TRUE] \in report[i].rows
              \/ cut /\ x.suite[Len(x.suite)] = count
        /\ ret = "Ok" /\ ~Runtime /\ ~dry /\ ~stopReq =>
              \A i \in DOMAIN plan : \A t \in plan[i].tests : Reported(plan[i].name, t)

\* A restored session does not run what the executed file of the last one says
\* was executed ("skips already-executed tests").
RestoreSkips ==
    \A x \in ran : x.sess > 1 =>
        \A line \in executed[x.sess - 1] : ~(line[1][1] = x.suite[1] /\ line[2] = x.test)

\* A selected test that a restored session leaves out has a row of a session
\* before, not only a start: however the sessions before were stopped, interrupted
\* or failed, a test that ran in vain is run again.
RestoredRan ==
    rpc = "loop" =>
        \A i \in DOMAIN Found : \A t \in Found[i].tests \cap Selected :
            \/ \E j \in DOMAIN plan : plan[j].name[1] = Found[i].name[1] /\ t \in plan[j].tests
            \/ \E x \in recorded : x.sess < sess /\ x.suite[1] = Found[i].name[1] /\ x.test = t

\* run() leaves no fault injection behind, however it ended, unless the last
\* write of the knobs found no SUT or was refused; setting them in between does
\* not count, the last write is the one that resets.
FaultOff ==
    rpc = "idle" /\ ret \in {"Ok", "Err", "ExportErr"} /\ ~dry /\ fault => knobs # "written"

\* run() and every stop() return, whoever tears the SUT down.
RunAndStopEnd ==
    /\ rpc # "idle" ~> rpc = "idle"
    /\ \A p \in Stoppers : spc[p] # "idle" ~> spc[p] = "idle"

=============================================================================
