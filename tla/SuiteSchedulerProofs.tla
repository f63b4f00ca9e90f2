------------------------ MODULE SuiteSchedulerProofs ------------------------
(***************************************************************************)
(* Theorems about SuiteScheduler for every list of suites, every set of    *)
(* tests and every number of workers: the loop drives its TestScheduler as *)
(* TestScheduler's specification allows, so that the theorems about rounds *)
(* hold for the rounds of a suite, and what it makes of their rows.        *)
(***************************************************************************)
EXTENDS SuiteScheduler, TestSchedulerProofs

\* Every step of the loop, of a stop() and of the suite timeout is a step of the
\* TestScheduler the loop owns, or does not touch it.
LEMMA SuiteStepIsRoundStep ==
    ASSUME SuiteTypeOK, [SuiteNext]_allVars
    PROVE  [Next]_vars
<1>1. CASE SuiteSchedule \/ GetInfo \/ RecordSuite \/ WhileCheck \/ Collect \/ Leftover
  BY <1>1 DEF SuiteSchedule, GetInfo, RecordSuite, WhileCheck, Collect, Leftover
<1>2. CASE CallRound
  <2>1. Schedule(left) /\ left \in SUBSET Tests
    BY <1>2 DEF CallRound, SuiteTypeOK
  <2> QED BY <2>1 DEF Next
<1>3. CASE RoundReturns \/ Inner(BeginSequential)
  BY <1>3 DEF RoundReturns, Inner, Next, Driver
<1>4. CASE SuiteTimeout
  BY <1>4 DEF SuiteTimeout, Next
<1>5. CASE RestartBegin \/ Inner(Stop(Loop))
  BY <1>5, SuitesAssumption DEF RestartBegin, Inner, Next
<1>6. CASE Reboot
  BY <1>6 DEF Reboot, Next
<1>7. ASSUME NEW p \in Users, UserStop(p) \/ SuiteStop(p) PROVE [Next]_vars
  BY <1>7 DEF UserStop, SuiteStop, UserStopInner, UserStopLock, UserStopReset, Inner, Next, Users
<1>8. ASSUME NEW t \in Tests, Inner(Task(t) \/ LatePush(t)) PROVE Next
  BY <1>8 DEF Inner, Next
<1>9. CASE Inner(Environment)
  BY <1>9 DEF Inner, Next
<1>10. CASE UNCHANGED allVars
  BY <1>10 DEF allVars
<1> QED
  BY <1>1, <1>2, <1>3, <1>4, <1>5, <1>6, <1>7, <1>8, <1>9, <1>10 DEF SuiteNext, SuiteLoop

SuiteRow == [suite : 1..Len(Suites), ran : [Tests -> Nat], conf : SUBSET Tests]

\* No operation of the loop takes a variable out of its type: the index of the
\* suite stays within the list, over every suite, restart and timeout.
LEMMA SuiteTypeStep ==
    ASSUME TypeOK, SuiteTypeOK, [SuiteNext]_allVars
    PROVE  SuiteTypeOK'
<1> USE SuitesAssumption DEF SuiteTypeOK, loopVars, ustopVars, suiteVars
<1>1. CASE SuiteSchedule
  BY <1>1 DEF SuiteSchedule
<1>2. CASE GetInfo
  <2>1. Suites[suite] \subseteq Tests
    OBVIOUS
  <2>2. timedOut' \in BOOLEAN
    BY <1>2 DEF GetInfo
  <2> QED BY <1>2, <2>1, <2>2 DEF GetInfo
<1>3. CASE RecordSuite
  <2>1. [suite |-> suite, ran |-> ran, conf |-> conf] \in SuiteRow
    BY DEF SuiteRow
  <2>2. suiteResults' \in Seq(SuiteRow)
    BY <1>3, <2>1 DEF RecordSuite, SuiteRow
  <2> QED BY <1>3, <2>2 DEF RecordSuite, SuiteRow
<1>4. CASE WhileCheck \/ CallRound \/ RoundReturns \/ SuiteTimeout \/ RestartBegin
  BY <1>4 DEF WhileCheck, CallRound, RoundReturns, SuiteTimeout, RestartBegin
<1>5. CASE Collect
  <2>1. ran' \in [Tests -> Nat]
    BY <1>5 DEF Collect, TypeOK
  <2> HIDE DEF TypeOK
  <2>2. upc' \in {"left", "restart", "record"} /\ outcome' \in {outcome, "Fatal"}
    BY <1>5 DEF Collect
  <2>3. UNCHANGED <<suite, left, conf, timedOut, suiteResults, sret, ustopVars, stopReq>>
    BY <1>5 DEF Collect
  <2>4. SuiteTypeOK => SuiteTypeOK'
    BY <2>1, <2>2, <2>3, Zenon
  <2> QED BY <2>4
<1>6. CASE Reboot
  BY <1>6 DEF Reboot
<1>7. CASE Leftover
  BY <1>7 DEF Leftover
<1>8. ASSUME NEW p \in Users, UserStop(p) \/ SuiteStop(p) PROVE SuiteTypeOK'
  <2>1. CASE UserStop(p)
    BY <2>1 DEF UserStop
  <2>2. CASE UserStopInner(p)
    BY <2>2 DEF UserStopInner
  <2>3. CASE Inner(Stop(p))
    BY <2>3 DEF Inner
  <2>4. CASE UserStopLock(p)
    BY <2>4 DEF UserStopLock
  <2>5. CASE UserStopReset(p)
    BY <2>5 DEF UserStopReset
  <2> QED
    BY <1>8, <2>1, <2>2, <2>3, <2>4, <2>5 DEF SuiteStop
<1>9. CASE UNCHANGED suiteVars
  BY <1>9
<1> QED
  BY <1>1, <1>2, <1>3, <1>4, <1>5, <1>6, <1>7, <1>8, <1>9
     DEF SuiteNext, SuiteLoop, Inner, allVars

\* The loop keeps its own types and those of the rounds it drives.
THEOREM SuiteTypesCorrect == SuiteSpec => [](TypeOK /\ SuiteTypeOK)
<1>1. SuiteInit => TypeOK /\ SuiteTypeOK
  <2> SUFFICES ASSUME SuiteInit PROVE TypeOK /\ SuiteTypeOK
    OBVIOUS
  <2>1. TypeOK
    BY TypeInit DEF SuiteInit
  <2>2. 1 \in 1..Len(Suites)
    BY SuitesAssumption
  <2>3. stopFlag \in BOOLEAN /\ suiteStopped \in BOOLEAN /\ stopReq \in BOOLEAN /\ timedOut \in BOOLEAN
    BY DEF SuiteInit
  <2> QED BY <2>1, <2>2, <2>3 DEF SuiteInit, SuiteTypeOK
<1>2. ASSUME TypeOK /\ SuiteTypeOK, [SuiteNext]_allVars PROVE (TypeOK /\ SuiteTypeOK)'
  BY <1>2, SuiteStepIsRoundStep, TypeStep, SuiteTypeStep
<1> QED BY <1>1, <1>2, PTL DEF SuiteSpec

\* The loop's variables keep their types, the index of the suite in the list of
\* suites and the rows of a report in their domain.
THEOREM SuiteTypeCorrect == SuiteSpec => []SuiteTypeOK
  BY SuiteTypesCorrect, PTL

\* The TestScheduler inside a SuiteScheduler behaves as a TestScheduler: what is
\* proved of every caller of schedule() and stop() holds for this one.
THEOREM SuiteDrivesRounds == SuiteSpec => Spec
<1>1. SuiteInit => Init
  BY DEF SuiteInit
<1>2. ASSUME TypeOK /\ SuiteTypeOK, [SuiteNext]_allVars PROVE [Next]_vars
  BY <1>2, SuiteStepIsRoundStep
<1> QED BY <1>1, <1>2, SuiteTypesCorrect, PTL DEF SuiteSpec, Spec

-----------------------------------------------------------------------------
(* What is known at each await of the loop *)

\* The tests of the current suite that have no row yet.
Missing == {t \in Suites[suite] : ran[t] = 0}

Driving == {"check", "call", "round", "collect", "restart", "stopping", "left"}

\* No row of a dropped round can fall into a later one: schedule() futures are
\* not dropped (no suite timeout), or there is no later round.
RowsSettle == ~Cancellable \/ (Len(Suites) = 1 /\ ~Repeat)

\* Until the suite timeout the rows of the round are as run_one leaves them.
\* After it the loop is on its way out, and a task that was caught in its push
\* still adds at most the one row of its test.
DropInv ==
    /\ ~timedOut => RowInv /\ ResultsOnce
    /\ timedOut =>
          /\ Len(Suites) = 1 /\ ~Repeat
          /\ upc \in {"collect", "left", "record", "idle"}
          /\ upc = "idle" => sret # "none"
          /\ phase = "idle"
          /\ \A t \in Tests :
                /\ results[t] + (IF t \in late THEN 1 ELSE 0) <= 1
                /\ results[t] > 0 \/ t \in late => t \in round

\* What drive_suite knows about its suite at each of its awaits.
DriveInv ==
    /\ phase # "idle" => upc = "round"
    /\ upc \in Driving => outcome = "Ok" /\ conf = {}
    /\ upc \in {"check", "call", "round", "collect"} => left = Missing
    /\ upc \in {"round", "collect"} => round = left
    /\ upc \in Driving \cup {"record"} => \A t \in Tests :
          /\ ran[t] + (IF t \in conf THEN 1 ELSE 0) <= 1
          /\ ran[t] > 0 => t \in Suites[suite]

\* A suite that ends without an error and without a stop() is accounted for,
\* and so are the suites before it.
SuiteDone(row, i) == \A t \in Suites[i] : (row.ran[t] = 1) # (t \in row.conf)

AccountInv ==
    /\ stopFlag => stopReq
    /\ upc = "record" /\ outcome = "Ok" /\ ~stopReq =>
          \A t \in Suites[suite] : (ran[t] = 1) # (t \in conf)
    /\ upc # "idle" =>
          /\ sret = "none"
          /\ Len(suiteResults) = suite - 1
          /\ ~stopReq => \A i \in DOMAIN suiteResults : SuiteDone(suiteResults[i], i)

SuiteInv == SuiteTypeOK /\ DropInv /\ DriveInv /\ AccountInv

\* A step of the round that is not its begin, its end or its drop.
InnerStep ==
    \/ BeginSequential
    \/ \E t \in Tests : Task(t) \/ LatePush(t)
    \/ \E p \in Stoppers : StopBegin(p) \/ Stop(p)
    \/ Environment \/ SutRestart
    \/ UNCHANGED vars

\* Such a step neither begins nor ends a round, and between two rounds only a
\* task that was caught in its push touches the rows.
LEMMA InnerFrame ==
    ASSUME SlotInv, InnerStep
    PROVE  /\ UNCHANGED <<round, ret>>
           /\ phase' = "idle" <=> phase = "idle"
           /\ ~Drop
           /\ phase = "idle" => \/ UNCHANGED <<results, late>>
                                \/ \E t \in Tests : LatePush(t)
<1> USE DEF roundVars
<1>1. CASE BeginSequential
  BY <1>1 DEF BeginSequential, BeginPhase, ParallelJoined, Drop
<1>2. ASSUME NEW t \in Tests, Task(t)
      PROVE  UNCHANGED <<round, ret, phase>> /\ phase # "idle"
  BY <1>2, TaskHasEffect DEF TaskEffect, SlotInv, PhaseInv
<1>3. ASSUME NEW t \in Tests, LatePush(t) PROVE UNCHANGED <<round, ret, phase>>
  BY <1>3 DEF LatePush
<1>4. ASSUME NEW p \in Stoppers, StopBegin(p) \/ Stop(p)
      PROVE  UNCHANGED <<round, ret, phase, results, late>>
  BY <1>4 DEF StopBegin, Stop, StopSut, StopClone, StopAcquire, StopLock, StopReset,
              stopUnchanged
<1>5. CASE Environment \/ SutRestart
  <2>1. UNCHANGED <<round, ret, phase, results, late>>
    BY <1>5 DEF Environment, KernelTaint, KernelPanic, KernelHang, SutRestart, envUnchanged
  <2> QED BY <2>1 DEF Drop
<1>6. CASE UNCHANGED vars
  BY <1>6 DEF vars, Drop
<1>7. UNCHANGED phase => ~Drop
  BY DEF Drop
<1> QED BY <1>1, <1>2, <1>3, <1>4, <1>5, <1>6, <1>7 DEF InnerStep

\* Such a step keeps the rows as the loop knows them.
LEMMA InnerKeepsRows ==
    ASSUME SlotInv, RoundInv, DropInv, InnerStep,
           UNCHANGED <<timedOut, sret>>, timedOut => UNCHANGED upc
    PROVE  DropInv'
<1>1. CASE timedOut
  <2>1. CASE UNCHANGED <<results, late>>
    BY <1>1, <2>1, InnerFrame DEF DropInv
  <2>2. ASSUME NEW t \in Tests, LatePush(t) PROVE DropInv'
    <3>1. /\ t \in late /\ late' = late \ {t}
          /\ results' = [results EXCEPT ![t] = @ + 1] /\ results \in [Tests -> Nat]
      BY <2>2 DEF LatePush, SlotInv, TypeOK
    <3>2. \A u \in Tests :
                /\ results'[u] + (IF u \in late' THEN 1 ELSE 0) <= 1
                /\ results'[u] > 0 \/ u \in late' => u \in round
      BY <1>1, <3>1 DEF DropInv
    <3> QED BY <1>1, <3>2, InnerFrame DEF DropInv
  <2> QED BY <1>1, <2>1, <2>2, InnerFrame DEF DropInv
<1>2. CASE ~timedOut
  <2>1. [Next]_vars
    BY DEF InnerStep, Next, Driver
  <2> QED BY <1>2, <2>1, InnerFrame, RowStep DEF DropInv
<1> QED BY <1>1, <1>2

\* What a step of SuiteNext is to the round: nothing of it is seen by the loop,
\* or the loop or a stop() takes one of its own steps.
LEMMA LoopStepCases ==
    ASSUME [SuiteNext]_allVars
    PROVE  \/ SuiteSchedule \/ GetInfo \/ RecordSuite \/ WhileCheck \/ CallRound \/ RoundReturns
           \/ SuiteTimeout \/ Collect \/ RestartBegin \/ Reboot \/ Leftover
           \/ UNCHANGED loopVars /\ InnerStep
<1>1. ASSUME NEW p \in Users, UserStop(p) \/ SuiteStop(p) PROVE UNCHANGED loopVars /\ InnerStep
  BY <1>1 DEF UserStop, SuiteStop, UserStopInner, UserStopLock, UserStopReset, Inner, InnerStep,
              Users, suiteVars
<1>2. CASE Inner(BeginSequential) \/ Inner(Stop(Loop)) \/ Inner(Environment)
  BY <1>2, SuitesAssumption DEF Inner, InnerStep, suiteVars
<1>3. ASSUME NEW t \in Tests, Inner(Task(t) \/ LatePush(t)) PROVE UNCHANGED loopVars /\ InnerStep
  BY <1>3 DEF Inner, InnerStep, suiteVars
<1>4. CASE UNCHANGED allVars
  BY <1>4 DEF allVars, InnerStep, suiteVars
<1> QED BY <1>1, <1>2, <1>3, <1>4 DEF SuiteNext, SuiteLoop

\* Every step keeps the rows as the loop knows them, the suite timeout included.
LEMMA DropStep ==
    ASSUME RowsSettle, SlotInv, RoundInv, SuiteTypeOK, DropInv, DriveInv, [SuiteNext]_allVars
    PROVE  DropInv'
<1>1. [Next]_vars
  BY SuiteStepIsRoundStep
<1>2. CASE SuiteSchedule
  <2>1. ~timedOut /\ UNCHANGED <<timedOut, vars>>
    BY <1>2 DEF SuiteSchedule, DropInv
  <2>2. (RowInv /\ ResultsOnce)'
    BY <1>1, <2>1, RowStep DEF DropInv, Drop, vars, roundVars
  <2> QED BY <2>1, <2>2 DEF DropInv
<1>3. CASE GetInfo
  <2>1. ~timedOut /\ ~timedOut' /\ UNCHANGED vars
    BY <1>3 DEF GetInfo, DropInv
  <2>2. (RowInv /\ ResultsOnce)'
    BY <1>1, <2>1, RowStep DEF DropInv, Drop, vars, roundVars
  <2> QED BY <2>1, <2>2 DEF DropInv
<1>4. CASE RecordSuite
  <2>1. UNCHANGED <<timedOut, vars>>
    BY <1>4 DEF RecordSuite
  <2>2. CASE timedOut
    <3>1. Len(Suites) = 1 /\ suite \in 1..Len(Suites) /\ outcome \in {"Ok", "Fatal"}
      BY <2>2 DEF DropInv, SuiteTypeOK
    <3>2. ~(suite < Len(Suites))
      BY <3>1
    <3>3. upc' = "idle" /\ sret' # "none"
      BY <1>4, <3>1, <3>2 DEF RecordSuite
    <3> QED BY <2>1, <2>2, <3>3 DEF DropInv, vars, roundVars
  <2>3. CASE ~timedOut
    BY <1>1, <2>1, <2>3, RowStep DEF DropInv, Drop, vars, roundVars
  <2> QED BY <2>2, <2>3
<1>5. CASE WhileCheck
  <2>1. ~timedOut /\ UNCHANGED <<timedOut, vars>>
    BY <1>5 DEF WhileCheck, DropInv
  <2> QED BY <1>1, <2>1, RowStep DEF DropInv, Drop, vars, roundVars
<1>6. CASE CallRound
  <2>1. ~timedOut /\ UNCHANGED timedOut /\ phase = "idle"
    BY <1>6 DEF CallRound, Schedule, DropInv
  <2> QED BY <1>1, <2>1, RowStep DEF DropInv, Drop
<1>7. CASE RoundReturns
  <2>1. ~timedOut /\ UNCHANGED timedOut /\ ret' # "Dropped"
    BY <1>7 DEF RoundReturns, Return, DropInv, SlotInv, TypeOK, KernelErrors
  <2> QED BY <1>1, <2>1, RowStep DEF DropInv, Drop
<1>8. CASE SuiteTimeout
  <2>1. ~timedOut /\ RowInv /\ ResultsOnce
    BY <1>8 DEF SuiteTimeout, DropInv
  <2>2. timedOut' /\ Len(Suites) = 1 /\ ~Repeat /\ upc' = "collect" /\ phase' = "idle"
    BY <1>8 DEF SuiteTimeout, Drop, RowsSettle
  <2>3. UNCHANGED <<results, round>> /\ \A t \in late' : t \in Tests /\ pc[t] = "record"
    BY <1>8, <2>1 DEF SuiteTimeout, Drop, RowInv
  <2>4. ASSUME NEW t \in Tests
        PROVE  /\ results'[t] + (IF t \in late' THEN 1 ELSE 0) <= 1
               /\ results'[t] > 0 \/ t \in late' => t \in round'
    <3>1. results[t] \in Nat
      BY DEF SlotInv, TypeOK
    <3>2. t \in late' => results[t] = 0 /\ t \in round
      BY <2>1, <2>3 DEF RowInv, RoundInv, RoundShape
    <3>3. results[t] <= 1 /\ (results[t] = 1 => t \in round)
      BY <2>1 DEF ResultsOnce
    <3> QED BY <2>3, <3>1, <3>2, <3>3
  <2> QED BY <2>2, <2>4 DEF DropInv
<1>9. CASE Collect \/ Leftover
  <2>1. UNCHANGED <<timedOut, sret, vars>> /\ (timedOut => upc' \in {"left", "record"})
    BY <1>9 DEF Collect, Leftover
  <2>2. CASE timedOut
    BY <2>1, <2>2 DEF DropInv, vars, roundVars
  <2>3. CASE ~timedOut
    BY <1>1, <2>1, <2>3, RowStep DEF DropInv, Drop, vars, roundVars
  <2> QED BY <2>2, <2>3
<1>10. CASE RestartBegin \/ Reboot
  <2>1. ~timedOut /\ UNCHANGED <<timedOut, sret>>
    BY <1>10 DEF RestartBegin, Reboot, DropInv
  <2>2. InnerStep
    BY <1>10, SuitesAssumption DEF RestartBegin, Reboot, InnerStep
  <2> QED BY <2>1, <2>2, InnerKeepsRows
<1>11. CASE UNCHANGED loopVars /\ InnerStep
  BY <1>11, InnerKeepsRows DEF loopVars
<1> QED
  BY <1>2, <1>3, <1>4, <1>5, <1>6, <1>7, <1>8, <1>9, <1>10, <1>11, LoopStepCases

\* The rows a round leaves for the loop to collect are of tests of the round,
\* one each.
LEMMA RowsToCollect ==
    ASSUME SlotInv, DropInv, NEW t \in Tests
    PROVE  results[t] \in {0, 1} /\ (results[t] = 1 => t \in round)
<1>1. results[t] \in Nat
  BY DEF SlotInv, TypeOK
<1>2. CASE timedOut
  BY <1>1, <1>2 DEF DropInv
<1>3. CASE ~timedOut
  BY <1>1, <1>3 DEF DropInv, ResultsOnce
<1> QED BY <1>2, <1>3

\* Every step keeps what the loop knows about its suite.
LEMMA DriveStep ==
    ASSUME SlotInv, RoundInv, SuiteTypeOK, DropInv, DriveInv, [SuiteNext]_allVars
    PROVE  DriveInv'
<1> USE DEF Missing, Driving
<1>1. CASE SuiteSchedule
  BY <1>1 DEF SuiteSchedule, DriveInv, vars, roundVars
<1>2. CASE GetInfo
  <2>1. UNCHANGED <<phase, round>> /\ phase = "idle" /\ UNCHANGED suite
    BY <1>2 DEF GetInfo, vars, roundVars, DriveInv
  <2>2. CASE upc' = "check"
    <3>1. left' = Suites[suite] /\ ran' = [t \in Tests |-> 0] /\ conf' = {} /\ outcome' = "Ok"
      BY <1>2, <2>2 DEF GetInfo
    <3>2. Suites[suite] \subseteq Tests
      BY SuitesAssumption DEF SuiteTypeOK
    <3> QED BY <2>1, <2>2, <3>1, <3>2 DEF DriveInv
  <2>3. CASE upc' = "idle"
    BY <2>1, <2>3 DEF DriveInv
  <2> QED BY <1>2, <2>2, <2>3 DEF GetInfo
<1>3. CASE RecordSuite
  <2>1. upc' \in {"info", "idle"} /\ phase' = "idle"
    BY <1>3 DEF RecordSuite, vars, roundVars, DriveInv
  <2> QED BY <2>1 DEF DriveInv
<1>4. CASE WhileCheck
  BY <1>4 DEF WhileCheck, DriveInv, vars, roundVars
<1>5. CASE CallRound
  BY <1>5 DEF CallRound, Schedule, DriveInv
<1>6. CASE RoundReturns \/ SuiteTimeout
  BY <1>6 DEF RoundReturns, SuiteTimeout, Return, Drop, DriveInv
<1>7. CASE Collect
  <2>1. /\ UNCHANGED <<phase, suite, conf>> /\ phase = "idle"
        /\ upc' \in {"left", "restart", "record"} /\ outcome' \in {"Ok", "Fatal"}
        /\ upc' # "record" => outcome' = "Ok"
    BY <1>7 DEF Collect, vars, roundVars, DriveInv
  <2>2. ASSUME NEW t \in Tests
        PROVE  /\ ran'[t] + (IF t \in conf' THEN 1 ELSE 0) <= 1
               /\ ran'[t] > 0 => t \in Suites[suite]
    <3>1. ran'[t] = ran[t] + results[t] /\ ran[t] \in Nat /\ conf = {}
      BY <1>7 DEF Collect, SuiteTypeOK, DriveInv
    <3>2. results[t] = 1 => ran[t] = 0 /\ t \in Suites[suite]
      BY <1>7, RowsToCollect DEF DriveInv, Collect
    <3>3. ran[t] <= 1 /\ (ran[t] > 0 => t \in Suites[suite])
      BY <1>7, <3>1 DEF DriveInv, Collect
    <3> QED BY <2>1, <3>1, <3>2, <3>3, RowsToCollect
  <2>3. upc' # "record" => conf' = {}
    BY <1>7, <2>1 DEF DriveInv, Collect
  <2> QED BY <2>1, <2>2, <2>3 DEF DriveInv
<1>8. CASE RestartBegin \/ Reboot
  <2>1. phase' = "idle" /\ UNCHANGED <<suite, ran, conf>>
    BY <1>8 DEF RestartBegin, Reboot, StopBegin, SutRestart, stopUnchanged, envUnchanged,
                roundVars, DriveInv
  <2> QED BY <1>8, <2>1 DEF RestartBegin, Reboot, DriveInv
<1>9. CASE Leftover
  <2>1. phase' = "idle" /\ UNCHANGED <<suite, ran, outcome>> /\ upc = "left"
    BY <1>9 DEF Leftover, vars, roundVars, DriveInv
  <2>2. CASE timedOut
    BY <1>9, <2>1, <2>2 DEF Leftover, DriveInv, SuiteTypeOK
  <2>3. CASE ~timedOut
    BY <1>9, <2>1, <2>3 DEF Leftover, DriveInv
  <2> QED BY <2>2, <2>3
<1>10. CASE UNCHANGED loopVars /\ InnerStep
  BY <1>10, InnerFrame DEF loopVars, DriveInv
<1> QED
  BY <1>1, <1>2, <1>3, <1>4, <1>5, <1>6, <1>7, <1>8, <1>9, <1>10, LoopStepCases

\* Appending a row keeps the rows before it.
LEMMA RowAppended ==
    ASSUME SuiteTypeOK, RecordSuite
    PROVE  /\ Len(suiteResults') = Len(suiteResults) + 1
           /\ DOMAIN suiteResults' = 1..(Len(suiteResults) + 1)
           /\ \A i \in DOMAIN suiteResults : suiteResults'[i] = suiteResults[i]
           /\ suiteResults'[Len(suiteResults) + 1] = [suite |-> suite, ran |-> ran, conf |-> conf]
<1>1. suiteResults \in Seq(SuiteRow) /\ [suite |-> suite, ran |-> ran, conf |-> conf] \in SuiteRow
  BY DEF SuiteTypeOK, SuiteRow
<1>2. suiteResults' = Append(suiteResults, [suite |-> suite, ran |-> ran, conf |-> conf])
  BY DEF RecordSuite
<1> HIDE DEF SuiteRow
<1> QED BY <1>1, <1>2

\* stop_flag and what a stop() in progress means for the account of the suites.
LEMMA StopFlagStep ==
    ASSUME AccountInv, [SuiteNext]_allVars
    PROVE  (stopFlag' => stopReq') /\ (~SuiteSchedule /\ stopReq => stopReq')
<1>1. stopFlag => stopReq
  BY DEF AccountInv
<1>2. CASE UNCHANGED <<stopFlag, stopReq>>
  BY <1>1, <1>2
<1>3. CASE SuiteSchedule
  BY <1>3 DEF SuiteSchedule, ustopVars
<1>4. ASSUME NEW p \in Users, UserStop(p) \/ UserStopReset(p)
      PROVE  (stopFlag' => stopReq') /\ (stopReq => stopReq')
  BY <1>4 DEF UserStop, UserStopReset
<1> QED
  BY <1>2, <1>3, <1>4
     DEF SuiteNext, SuiteLoop, GetInfo, RecordSuite, WhileCheck, CallRound, RoundReturns,
         SuiteTimeout, Collect, RestartBegin, Reboot, Leftover, SuiteStop, UserStopInner,
         UserStopLock, Inner, suiteVars, ustopVars, allVars

\* Every step keeps the account of the suites that are done.
LEMMA AccountStep ==
    ASSUME SlotInv, SuiteTypeOK, DriveInv, DropInv, AccountInv, [SuiteNext]_allVars
    PROVE  AccountInv'
<1>1. stopFlag' => stopReq'
  BY StopFlagStep
<1>2. CASE SuiteSchedule
  BY <1>1, <1>2 DEF SuiteSchedule, AccountInv
<1> USE StopFlagStep
<1>3. CASE RecordSuite
  <2>1. ~SuiteSchedule /\ (~stopReq' => ~stopReq)
    BY <1>3 DEF RecordSuite, SuiteSchedule
  <2>2. CASE upc' = "info"
    <3>1. outcome = "Ok" /\ suite' = suite + 1 /\ suite \in Nat /\ sret' = "none"
      BY <1>3, <2>2 DEF RecordSuite, SuiteTypeOK, AccountInv
    <3>2. Len(suiteResults) = suite - 1 /\ DOMAIN suiteResults = 1..(suite - 1)
      BY <1>3 DEF RecordSuite, AccountInv, SuiteTypeOK
    <3>3. Len(suiteResults') = suite' - 1
      BY <1>3, <3>1, <3>2, RowAppended
    <3>4. ASSUME ~stopReq', NEW i \in DOMAIN suiteResults' PROVE SuiteDone(suiteResults'[i], i)
      <4>1. CASE i \in DOMAIN suiteResults
        BY <1>3, <2>1, <3>4, <4>1, RowAppended DEF AccountInv, RecordSuite
      <4>2. CASE i \notin DOMAIN suiteResults
        <5>1. i = suite /\ suiteResults'[i] = [suite |-> suite, ran |-> ran, conf |-> conf]
          BY <1>3, <3>1, <3>2, <3>4, <4>2, RowAppended
        <5> QED BY <1>3, <2>1, <3>1, <3>4, <5>1 DEF AccountInv, RecordSuite, SuiteDone
      <4> QED BY <4>1, <4>2
    <3> QED BY <1>1, <2>2, <3>1, <3>3, <3>4 DEF AccountInv, SuiteDone
  <2>3. CASE upc' = "idle"
    BY <1>1, <2>3 DEF AccountInv
  <2> QED BY <1>3, <2>2, <2>3 DEF RecordSuite
<1>4. CASE GetInfo
  BY <1>1, <1>4 DEF GetInfo, AccountInv, SuiteDone, SuiteSchedule
<1>5. CASE WhileCheck
  <2>1. ~SuiteSchedule /\ UNCHANGED <<suite, ran, conf, outcome, suiteResults, sret, stopReq, left>>
    BY <1>5 DEF WhileCheck, SuiteSchedule
  <2>2. upc' = "record" /\ ~stopReq => \A t \in Suites[suite] : (ran[t] = 1) # (t \in conf)
    <3>1. upc' = "record" /\ ~stopReq => left = {}
      BY <1>1, <1>5 DEF WhileCheck, AccountInv
    <3>2. left = Missing /\ conf = {} /\ Suites[suite] \subseteq Tests
      BY <1>5, SuitesAssumption DEF WhileCheck, DriveInv, Driving, SuiteTypeOK
    <3>3. \A t \in Tests : ran[t] \in {0, 1}
      BY <1>5, <3>2 DEF WhileCheck, DriveInv, Driving, SuiteTypeOK
    <3> QED BY <3>1, <3>2, <3>3 DEF Missing
  <2> QED BY <1>1, <1>5, <2>1, <2>2 DEF WhileCheck, AccountInv, SuiteDone
<1>6. CASE Leftover
  <2>1. ~SuiteSchedule /\ UNCHANGED <<suite, ran, outcome, suiteResults, sret, stopReq>>
    BY <1>6 DEF Leftover, SuiteSchedule
  <2>2. upc' = "record" => \A t \in Suites[suite] : (ran[t] = 1) # (t \in conf')
    <3>1. upc' = "record" => conf' = Missing
      BY <1>6 DEF Leftover, Missing
    <3>2. Suites[suite] \subseteq Tests
      BY SuitesAssumption DEF SuiteTypeOK
    <3>3. \A t \in Tests : ran[t] \in {0, 1}
      BY <1>6 DEF Leftover, DriveInv, Driving, SuiteTypeOK
    <3> QED BY <3>1, <3>2, <3>3 DEF Missing
  <2> QED BY <1>1, <1>6, <2>1, <2>2 DEF Leftover, AccountInv, SuiteDone
<1>7. CASE CallRound \/ RoundReturns \/ SuiteTimeout \/ RestartBegin
  <2>1. /\ upc' # "record" /\ upc # "idle" /\ UNCHANGED <<suite, suiteResults, sret, stopReq>>
    BY <1>7 DEF CallRound, RoundReturns, SuiteTimeout, RestartBegin
  <2> QED BY <1>1, <2>1 DEF AccountInv, SuiteDone
<1>8. CASE Collect \/ Reboot
  <2>1. /\ upc' = "record" => outcome' = "Fatal"
        /\ upc # "idle" /\ UNCHANGED <<suite, suiteResults, sret, stopReq>>
    BY <1>8 DEF Collect, Reboot
  <2> QED BY <1>1, <2>1 DEF AccountInv, SuiteDone
<1>9. CASE UNCHANGED loopVars /\ ~SuiteSchedule
  BY <1>1, <1>9 DEF loopVars, AccountInv, SuiteDone
<1> QED
  BY <1>2, <1>3, <1>4, <1>5, <1>6, <1>7, <1>8, <1>9, LoopStepCases

\* What the loop knows holds in every reachable state, if no row of a dropped
\* round can fall into a later one.
THEOREM SuiteInvariant ==
    ASSUME RowsSettle
    PROVE  SuiteSpec => []SuiteInv
<1>1. SuiteInit => DropInv /\ DriveInv /\ AccountInv
  BY DEF SuiteInit, Init, DropInv, RowInv, ResultsOnce, OnSut, DriveInv, Driving, AccountInv
<1>2. ASSUME SlotInv, RoundInv, TypeOK /\ SuiteTypeOK, DropInv /\ DriveInv /\ AccountInv,
             [SuiteNext]_allVars
      PROVE  (DropInv /\ DriveInv /\ AccountInv)'
  BY <1>2, DropStep, DriveStep, AccountStep
<1> QED
  BY <1>1, <1>2, SlotInvariant, RoundInvariant, SuiteDrivesRounds, SuiteTypesCorrect, PTL
     DEF SuiteSpec, SuiteInv

-----------------------------------------------------------------------------
(* The reports *)

\* A step that keeps the reports, or adds the row of the suite that is done.
LEMMA ReportStep ==
    ASSUME SuiteTypeOK, [SuiteNext]_allVars
    PROVE  suiteResults' \in {suiteResults, <<>>} \/ RecordSuite
  BY LoopStepCases
     DEF SuiteSchedule, GetInfo, WhileCheck, CallRound, RoundReturns, SuiteTimeout, Collect,
         RestartBegin, Reboot, Leftover, loopVars

\* No test is reported twice, executed twice or executed and left over, however
\* many kernel errors and restarts its suite takes; with a suite timeout as long
\* as a dropped round is the last one.
THEOREM RowsAreOnce ==
    ASSUME RowsSettle
    PROVE  SuiteSpec => []RowsOnce
<1>1. SuiteInit => RowsOnce
  BY DEF SuiteInit, RowsOnce
<1>2. ASSUME SuiteInv, RowsOnce, [SuiteNext]_allVars PROVE RowsOnce'
  <2>1. CASE suiteResults' \in {suiteResults, <<>>}
    BY <1>2, <2>1 DEF RowsOnce
  <2>2. CASE RecordSuite
    BY <1>2, <2>2, RowAppended DEF RowsOnce, SuiteInv, DriveInv, RecordSuite, SuiteTypeOK
  <2> QED BY <1>2, <2>1, <2>2, ReportStep DEF SuiteInv
<1> QED BY <1>1, <1>2, SuiteInvariant, PTL DEF SuiteSpec

\* A suite's report has no row of a test of another suite.
THEOREM RowsAreOfSuite ==
    ASSUME RowsSettle
    PROVE  SuiteSpec => []RowsOfSuite
<1>1. SuiteInit => RowsOfSuite
  BY DEF SuiteInit, RowsOfSuite
<1>2. ASSUME SuiteInv, RowsOfSuite, [SuiteNext]_allVars PROVE RowsOfSuite'
  <2>1. CASE suiteResults' \in {suiteResults, <<>>}
    BY <1>2, <2>1 DEF RowsOfSuite
  <2>2. CASE RecordSuite
    BY <1>2, <2>2, RowAppended DEF RowsOfSuite, SuiteInv, DriveInv, RecordSuite, SuiteTypeOK
  <2> QED BY <1>2, <2>1, <2>2, ReportStep DEF SuiteInv
<1> QED BY <1>1, <1>2, SuiteInvariant, PTL DEF SuiteSpec

\* schedule() that returns Ok, with no stop() during it, has one report per suite
\* with exactly one row for every test of the suite: over panics, hangs, taints,
\* restarts and, for a single suite, its timeout.
THEOREM SuitesAreAccounted ==
    ASSUME RowsSettle
    PROVE  SuiteSpec => []SuitesAccounted
<1>1. SuiteInit => SuitesAccounted
  BY DEF SuiteInit, SuitesAccounted
<1>2. ASSUME SuiteInv, SuitesAccounted, [SuiteNext]_allVars PROVE SuitesAccounted'
  <2> USE <1>2 DEF SuiteInv
  <2>1. CASE SuiteSchedule
    BY <2>1 DEF SuiteSchedule, SuitesAccounted
  <2>2. stopReq /\ ~SuiteSchedule => stopReq'
    BY StopFlagStep
  <2>3. CASE RecordSuite
    <3>1. CASE upc' = "info"
      BY <2>3, <3>1 DEF RecordSuite, SuitesAccounted, AccountInv
    <3>2. CASE upc' = "idle" /\ sret' = "Ok" /\ ~stopReq'
      <4>1. outcome = "Ok" /\ suite = Len(Suites) /\ ~stopReq /\ Len(suiteResults) = suite - 1
        BY <2>2, <2>3, <3>2 DEF RecordSuite, SuiteSchedule, AccountInv
      <4>2. Len(Suites) \in Nat /\ DOMAIN Suites = 1..Len(Suites)
            /\ DOMAIN suiteResults = 1..Len(suiteResults)
        BY SuitesAssumption DEF SuiteTypeOK
      <4>3. ASSUME NEW i \in DOMAIN Suites PROVE SuiteDone(suiteResults'[i], i)
        <5>1. CASE i = suite
          BY <2>3, <4>1, <4>2, <5>1, RowAppended DEF AccountInv, RecordSuite, SuiteDone
        <5>2. CASE i # suite
          <6>1. i \in DOMAIN suiteResults
            BY <4>1, <4>2, <5>2
          <6> QED BY <2>3, <4>1, <6>1, RowAppended DEF AccountInv, RecordSuite
        <5> QED BY <5>1, <5>2
      <4>4. Len(suiteResults') = Len(Suites)
        BY <2>3, <4>1, <4>2, RowAppended
      <4> QED BY <4>3, <4>4 DEF SuitesAccounted, SuiteDone
    <3> QED BY <2>3, <3>1, <3>2 DEF RecordSuite, SuitesAccounted
  <2>4. CASE GetInfo
    BY <2>4 DEF GetInfo, SuitesAccounted, AccountInv
  <2>5. CASE UNCHANGED <<sret, suiteResults>> /\ ~SuiteSchedule
    BY <2>2, <2>5 DEF SuitesAccounted
  <2> QED
    BY <2>1, <2>3, <2>4, <2>5, LoopStepCases
       DEF WhileCheck, CallRound, RoundReturns, SuiteTimeout, Collect, RestartBegin, Reboot,
           Leftover, loopVars
<1> QED BY <1>1, <1>2, SuiteInvariant, PTL DEF SuiteSpec

-----------------------------------------------------------------------------
(* A round after a kernel error *)

\* Where the stop() of the one user and the loop's own stop() can be: a forced
\* stop, the only one that takes the SUT down, needs two at a time.
StopPlaces ==
    /\ phase # "idle" => upc = "round"
    /\ spc[Loop] # "idle" => upc = "stopping"
    /\ \A p \in Users :
          /\ spc[p] # "idle" => ustop[p] = "inner"
          /\ ustop[p] # "idle" => stopFlag
          /\ upc = "call" => spc[p] # "force"
    /\ (\A p \in Stoppers : spc[p] = "idle") => stopCnt = 0

\* The SUT between a kernel error and the next round: restarted, unless a
\* forced stop() took it down, which keeps stop_flag set.  Where the restart
\* failed there is no next round.
RestartInv ==
    /\ timedOut => upc \in {"collect", "left", "record", "info", "idle"}
    /\ timedOut /\ upc = "collect" => ret = "Dropped"
    /\ /\ ret \in KernelErrors /\ upc \notin {"round", "collect", "restart", "stopping"}
       /\ ~(upc = "record" /\ outcome = "Fatal") /\ ~(upc = "idle" /\ sret = "Fatal")
       => /\ sut \in {"up", "down"}
          /\ upc \in {"left", "check", "call"} /\ sut = "down" =>
                upc # "call" /\ \E p \in Users : ustop[p] = "inner"

\* Every step keeps the places of the two stop() calls.
LEMMA PlacesStep ==
    ASSUME \A p, q \in Users : p = q,
           TypeOK, SuiteTypeOK, PhaseInv, StopPlaces, [SuiteNext]_allVars
    PROVE  StopPlaces'
<1> USE SuitesAssumption DEF StopPlaces, Users
<1>1. CASE SuiteSchedule \/ GetInfo \/ RecordSuite \/ Collect \/ Leftover
  BY <1>1 DEF SuiteSchedule, GetInfo, RecordSuite, Collect, Leftover, ustopVars, vars, roundVars,
              stopVars
<1>2. CASE WhileCheck
  BY <1>2 DEF WhileCheck, ustopVars, vars, roundVars, stopVars
<1>3. CASE CallRound
  BY <1>3 DEF CallRound, Schedule, BeginPhase, ustopVars, stopVars
<1>4. CASE RoundReturns \/ SuiteTimeout
  BY <1>4 DEF RoundReturns, SuiteTimeout, Return, Drop, ustopVars, stopVars
<1>5. CASE RestartBegin
  BY <1>5 DEF RestartBegin, StopBegin, stopUnchanged, roundVars, ustopVars, TypeOK
<1>6. CASE Reboot
  BY <1>6 DEF Reboot, SutRestart, envUnchanged, roundVars, stopVars, ustopVars
<1>7. ASSUME NEW p \in Users, UserStop(p) PROVE StopPlaces'
  BY <1>7 DEF UserStop, vars, roundVars, stopVars, loopVars, SuiteTypeOK
<1>8. ASSUME NEW p \in Users, UserStopInner(p) PROVE StopPlaces'
  <2>1. /\ UNCHANGED <<phase, upc, stopFlag>> /\ stopCnt' = stopCnt + 1 /\ p # Loop
        /\ spc' = [spc EXCEPT ![p] = IF stopCnt + 1 > 1 THEN "force" ELSE "clone"]
        /\ ustop' = [ustop EXCEPT ![p] = "inner"] /\ spc[p] = "idle" /\ ustop[p] = "begin"
    BY <1>8 DEF UserStopInner, StopBegin, stopUnchanged, roundVars, loopVars
  <2>2. upc = "call" => stopCnt = 0
    BY <2>1
  <2>3. \A q \in Users : spc'[q] # "idle" => ustop'[q] = "inner"
    BY <2>1 DEF TypeOK, SuiteTypeOK
  <2>4. \A q \in Users : upc = "call" => spc'[q] # "force"
    BY <2>1, <2>2 DEF TypeOK
  <2>5. spc'[p] # "idle" /\ spc'[Loop] = spc[Loop]
    BY <2>1 DEF TypeOK
  <2> QED BY <2>1, <2>3, <2>4, <2>5
<1>9. ASSUME NEW p \in Stoppers, Stop(p), UNCHANGED suiteVars PROVE StopPlaces'
  <2>1. UNCHANGED <<phase, upc, ustop, stopFlag>>
    BY <1>9 DEF Stop, StopSut, StopClone, StopAcquire, StopLock, StopReset, stopUnchanged,
                roundVars, suiteVars, loopVars, ustopVars
  <2>2. /\ spc[p] # "idle"
        /\ \E x \in {"clone", "sem", "lock", "reset", "idle"} : spc' = [spc EXCEPT ![p] = x]
        /\ spc'[p] = "idle" => stopCnt' = 0
    BY <1>9 DEF Stop, StopSut, StopClone, StopAcquire, StopLock, StopReset, TypeOK
  <2>3. (\A q \in Stoppers : spc'[q] = "idle") => stopCnt' = 0
    BY <2>2
  <2>4. \A q \in Stoppers : spc'[q] # "idle" => spc[q] # "idle"
    BY <2>2 DEF TypeOK
  <2>5. \A q \in Stoppers : spc'[q] = "force" => spc[q] = "force"
    BY <2>2 DEF TypeOK
  <2> QED BY <2>1, <2>3, <2>4, <2>5
<1>10. ASSUME NEW p \in Users, UserStopLock(p) PROVE StopPlaces'
  BY <1>10 DEF UserStopLock, WaitsForLoop, vars, roundVars, stopVars, loopVars, SuiteTypeOK
<1>11. ASSUME NEW p \in Users, UserStopReset(p) PROVE StopPlaces'
  <2>1. \A q \in Users : ustop'[q] = "idle" /\ spc[q] = "idle"
    BY <1>11 DEF UserStopReset, SuiteTypeOK
  <2> QED BY <1>11, <2>1 DEF UserStopReset, vars, roundVars, stopVars, loopVars
<1>12. CASE Inner(BeginSequential)
  BY <1>12 DEF Inner, BeginSequential, BeginPhase, ParallelJoined, stopVars, suiteVars, loopVars,
               ustopVars
<1>13. ASSUME NEW t \in Tests, Inner(Task(t)) PROVE StopPlaces'
  <2>1. UNCHANGED <<phase, stopVars>>
    BY <1>13 DEF Inner, Task, Check, Acquire, TaintBefore, RunCommand, Timeout, Ping, TaintAfter,
                 ReadResult, Record, taskUnchanged
  <2> QED BY <1>13, <2>1 DEF Inner, suiteVars, loopVars, ustopVars, stopVars
<1>14. ASSUME NEW t \in Tests, Inner(LatePush(t)) PROVE StopPlaces'
  BY <1>14 DEF Inner, LatePush, roundVars, stopVars, suiteVars, loopVars, ustopVars
<1>15. CASE Inner(Environment) \/ UNCHANGED allVars
  BY <1>15 DEF Inner, Environment, KernelTaint, KernelPanic, KernelHang, envUnchanged, roundVars,
               stopVars, suiteVars, loopVars, ustopVars, allVars, vars
<1> QED
  BY <1>1, <1>2, <1>3, <1>4, <1>5, <1>6, <1>7, <1>8, <1>9, <1>10, <1>11, <1>12, <1>13, <1>14,
     <1>15
     DEF SuiteNext, SuiteLoop, SuiteStop, Inner

\* Every step keeps the SUT fit for the round that follows a kernel error.
LEMMA RestartStep ==
    ASSUME TypeOK, SuiteTypeOK, PhaseInv, StopPlaces, RestartInv, [SuiteNext]_allVars
    PROVE  RestartInv'
<1> USE SuitesAssumption DEF RestartInv, KernelErrors
<1>1. CASE SuiteSchedule \/ RecordSuite
  BY <1>1 DEF SuiteSchedule, RecordSuite, vars, roundVars, sutVars
<1>2. CASE GetInfo
  BY <1>2 DEF GetInfo, vars, roundVars, sutVars
<1>3. CASE WhileCheck
  <2>1. (\E p \in Users : ustop[p] = "inner") => stopFlag
    BY DEF StopPlaces
  <2> QED BY <1>3, <2>1 DEF WhileCheck, vars, roundVars, sutVars, ustopVars
<1>4. CASE CallRound \/ RoundReturns \/ SuiteTimeout \/ RestartBegin
  BY <1>4 DEF CallRound, RoundReturns, SuiteTimeout, RestartBegin, Drop
<1>5. CASE Collect
  BY <1>5 DEF Collect, vars, roundVars, sutVars
<1>6. CASE Reboot
  BY <1>6 DEF Reboot, SutRestart
<1>7. CASE Leftover
  BY <1>7 DEF Leftover, vars, roundVars, sutVars, ustopVars
<1>8. ASSUME NEW p \in Users, UserStop(p) \/ UserStopLock(p) \/ UserStopReset(p) PROVE RestartInv'
  <2>1. UNCHANGED <<ret, upc, timedOut, sut, outcome, sret>>
    BY <1>8 DEF UserStop, UserStopLock, UserStopReset, vars, roundVars, sutVars, loopVars
  <2>2. upc # "idle" => \A q \in Users : ustop[q] = "inner" => ustop'[q] = "inner"
    BY <1>8 DEF UserStop, UserStopLock, UserStopReset, SuiteTypeOK
  <2> QED BY <2>1, <2>2
<1>9. ASSUME NEW p \in Users, UserStopInner(p) PROVE RestartInv'
  <2>1. UNCHANGED <<ret, upc, timedOut, sut, outcome, sret>>
    BY <1>9 DEF UserStopInner, StopBegin, stopUnchanged, roundVars, sutVars, loopVars
  <2>2. \A q \in Users : ustop[q] = "inner" => ustop'[q] = "inner"
    BY <1>9 DEF UserStopInner, SuiteTypeOK
  <2> QED BY <2>1, <2>2
<1>10. ASSUME NEW p \in Stoppers, StopSut(p), UNCHANGED suiteVars PROVE RestartInv'
  <2>1. UNCHANGED <<ret, upc, timedOut, ustop, outcome, sret>> /\ sut' = "down" /\ spc[p] = "force"
    BY <1>10 DEF StopSut, stopUnchanged, roundVars, suiteVars, loopVars, ustopVars
  <2>2. CASE p = Loop
    BY <2>1, <2>2 DEF StopPlaces
  <2>3. CASE p # Loop
    BY <2>1, <2>3 DEF StopPlaces, Users
  <2> QED BY <2>2, <2>3
<1>11. ASSUME NEW p \in Stoppers, Stop(p), ~StopSut(p), UNCHANGED suiteVars PROVE RestartInv'
  BY <1>11 DEF Stop, StopClone, StopAcquire, StopLock, StopReset, stopUnchanged, roundVars,
               sutVars, suiteVars, loopVars, ustopVars
<1>12. ASSUME NEW t \in Tests, Inner(Task(t)) PROVE RestartInv'
  <2>1. phase # "idle"
    BY <1>12, TaskHasEffect DEF Inner, TaskEffect, PhaseInv
  <2> QED BY <1>12, <2>1 DEF Inner, StopPlaces, suiteVars, loopVars
<1>13. ASSUME NEW t \in Tests, Inner(LatePush(t)) PROVE RestartInv'
  BY <1>13 DEF Inner, LatePush, roundVars, sutVars, suiteVars, loopVars, ustopVars
<1>14. CASE Inner(BeginSequential)
  BY <1>14 DEF Inner, BeginSequential, ParallelJoined, StopPlaces, suiteVars, loopVars
<1>15. CASE Inner(Environment)
  <2>1. phase # "idle"
    BY <1>15 DEF Inner, Environment, KernelTaint, KernelPanic, KernelHang, Holding, OnSut, PhaseInv
  <2> QED BY <1>15, <2>1 DEF Inner, StopPlaces, suiteVars, loopVars
<1>16. CASE UNCHANGED allVars
  BY <1>16 DEF allVars, vars, roundVars, sutVars, suiteVars, loopVars, ustopVars
<1> QED
  BY <1>1, <1>2, <1>3, <1>4, <1>5, <1>6, <1>7, <1>8, <1>9, <1>10, <1>11, <1>12, <1>13, <1>14,
     <1>15, <1>16
     DEF SuiteNext, SuiteLoop, SuiteStop, Inner, Users

\* The round after a kernel error begins on a SUT that was restarted since and
\* that no forced stop() is about to take away, with stop_cnt back at 0 unless
\* the user asked for a stop: for one user who may call stop() at any time, also
\* between the loop's own stop() and its restart, and any number of restarts,
\* suites and calls of schedule(); the suite timeout included.
THEOREM RoundsAfterErrorRestarted ==
    ASSUME \A p, q \in Users : p = q
    PROVE  SuiteSpec => RestartedAfterKernelError
<1>1. SuiteInit => StopPlaces /\ RestartInv
  BY SuitesAssumption DEF SuiteInit, Init, StopPlaces, RestartInv, KernelErrors, Users
<1>2. ASSUME SlotInv, TypeOK /\ SuiteTypeOK, StopPlaces /\ RestartInv, [SuiteNext]_allVars
      PROVE  (StopPlaces /\ RestartInv)'
  BY <1>2, PlacesStep, RestartStep DEF SlotInv
<1>3. ASSUME StopPlaces /\ RestartInv
      PROVE  [upc = "call" /\ upc' = "round" /\ ret \in KernelErrors
                 => /\ sut = "up"
                    /\ \A p \in Stoppers : spc[p] # "force"
                    /\ stopCnt > 0 => \E p \in Users : ustop[p] # "idle"]_allVars
  <2> SUFFICES ASSUME upc = "call", ret \in KernelErrors
               PROVE  /\ sut = "up"
                      /\ \A p \in Stoppers : spc[p] # "force"
                      /\ stopCnt > 0 => \E p \in Users : ustop[p] # "idle"
    OBVIOUS
  <2>1. sut = "up"
    BY <1>3 DEF RestartInv
  <2>2. spc[Loop] = "idle" /\ \A p \in Users : spc[p] # "force"
    BY <1>3 DEF StopPlaces
  <2>3. stopCnt > 0 => \E p \in Users : spc[p] # "idle"
    BY <1>3, <2>2 DEF StopPlaces, Users
  <2>4. stopCnt > 0 => \E p \in Users : ustop[p] # "idle"
    BY <1>3, <2>3 DEF StopPlaces
  <2> QED BY <2>1, <2>2, <2>4 DEF Users
<1> QED
  BY <1>1, <1>2, <1>3, SlotInvariant, SuiteDrivesRounds, SuiteTypesCorrect, PTL
     DEF SuiteSpec, RestartedAfterKernelError

=============================================================================
