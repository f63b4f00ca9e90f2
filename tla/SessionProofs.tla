---------------------------- MODULE SessionProofs ----------------------------
(* Proofs about Session for any suites, any number of stop() calls and any    *)
(* number of sessions.  Where the code does keep a promise only without a     *)
(* runtime, iterations or a suite timeout, the theorem says so.               *)
EXTENDS Session, TLAPS

NameSet   == Seq(STRING \cup Nat)
SuiteSet  == [name : NameSet, tests : SUBSET STRING]
RowSet    == [test : STRING, run : BOOLEAN]
ResultSet == [name : NameSet, rows : SUBSET RowSet]
RanSet    == [sess : 1..Sessions, suite : NameSet, test : STRING]

\* Where the scheduler is asked, and where run() is otherwise.
Rounds == {"loop", "schedule", "collect", "append", "again"}
RunPlaces == Rounds \cup {"idle", "start", "command", "fault", "read", "stopped", "expired",
                          "reset", "export", "stop"}

Progress ==
    /\ sess \in 1..Sessions /\ rpc \in RunPlaces
    /\ outcome \in {"Ok", "Err", "ExportErr"}
    /\ rpc # "idle" => ret = "none"

SuitesTyped ==
    /\ plan \in Seq(SuiteSet) /\ count \in Nat
    /\ rpc \in Rounds => plan # <<>>

ScheduleTyped ==
    /\ idx \in Nat \ {0} /\ (rpc = "schedule" => idx <= Len(plan))
    /\ todo \in SUBSET STRING /\ rows \in SUBSET RowSet
    /\ schedResults \in Seq(ResultSet)

KeptTyped ==
    /\ results \in Seq(ResultSet) /\ report \in Seq(ResultSet)
    /\ executed \in [1..Sessions -> SUBSET (NameSet \X STRING)]
    /\ ran \in SUBSET RanSet /\ recorded \in SUBSET RanSet

Typed == Progress /\ SuitesTyped /\ ScheduleTyped /\ KeptTyped

\* The suites as found are suites.
LEMMA FoundTyped ==
    /\ Found \in Seq(SuiteSet) /\ Len(Found) = Len(Suites)
    /\ \A i \in 1..Len(Suites) : /\ Found[i].name = <<Suites[i].name>> /\ Suites[i].name \in STRING
                                 /\ Found[i].tests = Suites[i].tests
<1> DEFINE Given == [name : STRING, tests : SUBSET STRING]
           Words == STRING \cup Nat
<1>1. Suites \in Seq(Given)
  BY SessionAssumption
<1>2. \A suite \in Given : suite.name \in STRING /\ suite.tests \in SUBSET STRING
  OBVIOUS
<1> HIDE DEF Given
<1>3. \A i \in 1..Len(Suites) : Suites[i].name \in STRING /\ Suites[i].tests \in SUBSET STRING
  <2>1. \A i \in 1..Len(Suites) : Suites[i] \in Given
    BY <1>1
  <2> QED
    BY <1>2, <2>1
<1>4. \A n \in STRING : <<n>> \in NameSet
  <2>1. \A n \in STRING : n \in Words
    OBVIOUS
  <2> HIDE DEF Words
  <2>2. \A n \in Words : <<n>> \in Seq(Words)
    OBVIOUS
  <2> QED
    BY <2>1, <2>2 DEF NameSet, Words
<1>5. DOMAIN Suites = 1..Len(Suites) /\ Len(Suites) \in Nat
  BY <1>1
<1>6. \A i \in 1..Len(Suites) : [name |-> <<Suites[i].name>>, tests |-> Suites[i].tests] \in SuiteSet
  BY <1>3, <1>4 DEF SuiteSet
<1>7. Found = [i \in 1..Len(Suites) |-> [name |-> <<Suites[i].name>>, tests |-> Suites[i].tests]]
  BY <1>5 DEF Found
<1>8. Found \in Seq(SuiteSet) /\ Len(Found) = Len(Suites)
  BY <1>5, <1>6, <1>7
<1> QED
  BY <1>3, <1>7, <1>8

\* restore_tests() and the filters only leave tests out.
LEMMA FilteredTyped ==
    LET suites == FilterTests(RestoreTests(Found))
    IN  /\ suites \in Seq(SuiteSet) /\ Len(suites) = Len(Found)
        /\ \A i \in 1..Len(Found) :
              /\ suites[i].name = Found[i].name
              /\ suites[i].tests = {t \in Found[i].tests : <<Found[i].name, t>> \notin Restored} \cap Selected
<1> DEFINE restored == RestoreTests(Found)
           suites == FilterTests(restored)
<1>1. Found \in Seq(SuiteSet) /\ DOMAIN Found = 1..Len(Found) /\ Len(Found) \in Nat
  BY FoundTyped
<1>2. \A i \in 1..Len(Found) : Found[i] \in SuiteSet
  BY <1>1
<1>3. restored = [i \in 1..Len(Found) |->
                    [Found[i] EXCEPT !.tests = {t \in @ : <<Found[i].name, t>> \notin Restored}]]
  BY <1>1 DEF RestoreTests
<1>4. \A i \in 1..Len(Found) :
         /\ restored[i] \in SuiteSet /\ restored[i].name = Found[i].name
         /\ restored[i].tests = {t \in Found[i].tests : <<Found[i].name, t>> \notin Restored}
  <2> SUFFICES ASSUME NEW i \in 1..Len(Found)
               PROVE  /\ restored[i] \in SuiteSet /\ restored[i].name = Found[i].name
                      /\ restored[i].tests = {t \in Found[i].tests : <<Found[i].name, t>> \notin Restored}
    OBVIOUS
  <2> DEFINE left == {t \in Found[i].tests : <<Found[i].name, t>> \notin Restored}
  <2>1. restored[i] = [Found[i] EXCEPT !.tests = left]
    BY <1>3
  <2>2. Found[i] \in SuiteSet /\ left \subseteq Found[i].tests
    BY <1>2
  <2> HIDE DEF left, restored
  <2>3. /\ restored[i] \in SuiteSet /\ restored[i].name = Found[i].name
        /\ restored[i].tests = left
    BY <2>1, <2>2 DEF SuiteSet
  <2> QED
    BY <2>3 DEF left
<1>5. DOMAIN restored = 1..Len(Found)
  BY <1>3
<1> HIDE DEF restored
<1>6. suites = [i \in 1..Len(Found) |-> [restored[i] EXCEPT !.tests = @ \cap Selected]]
  BY <1>5 DEF FilterTests
<1>7. \A i \in 1..Len(Found) :
         /\ suites[i] \in SuiteSet /\ suites[i].name = restored[i].name
         /\ suites[i].tests = restored[i].tests \cap Selected
  BY <1>4, <1>6 DEF SuiteSet
<1>8. suites \in Seq(SuiteSet) /\ Len(suites) = Len(Found)
  BY <1>1, <1>6, <1>7
<1> QED
  BY <1>4, <1>7, <1>8 DEF restored

\* A renamed suite is a suite with the same tests.
LEMMA RenameTyped ==
    ASSUME NEW suite \in SuiteSet, NEW i \in Nat
    PROVE  /\ Rename(suite, i) \in SuiteSet
           /\ Rename(suite, i).tests = suite.tests
           /\ Rename(suite, i).name = Append(suite.name, i)
<1>1. suite.name \in Seq(STRING \cup Nat) /\ suite.tests \in SUBSET STRING
  BY DEF SuiteSet, NameSet
<1>2. Append(suite.name, i) \in NameSet
  BY <1>1 DEF NameSet
<1> QED
  BY <1>2 DEF Rename, SuiteSet

\* apply_iterate(): suites again, and some if there were some.
LEMMA IterateTyped ==
    ASSUME NEW suites \in Seq(SuiteSet)
    PROVE  /\ ApplyIterate(suites) \in Seq(SuiteSet)
           /\ suites # <<>> => ApplyIterate(suites) # <<>>
<1>1. CASE Iterate = 1
  BY <1>1 DEF ApplyIterate
<1>2. CASE Iterate # 1
  <2> DEFINE n == Len(suites) * Iterate
             out == [j \in 1..n |-> Rename(suites[(j - 1) \div Iterate + 1], (j - 1) % Iterate)]
  <2>1. Iterate \in Nat \ {0} /\ Len(suites) \in Nat /\ n \in Nat
    BY SessionAssumption
  <2>2. \A j \in 1..n : (j - 1) \div Iterate + 1 \in 1..Len(suites) /\ (j - 1) % Iterate \in Nat
    BY <2>1, SMTT(30)
  <2>3. \A j \in 1..n : out[j] \in SuiteSet
    <3>1. \A k \in 1..Len(suites) : suites[k] \in SuiteSet
      OBVIOUS
    <3> QED
      BY <2>2, <3>1, RenameTyped
  <2>4. suites # <<>> => n # 0
    BY <2>1
  <2>5. ApplyIterate(suites) = out
    BY <1>2 DEF ApplyIterate
  <2> HIDE DEF n
  <2>6. out \in Seq(SuiteSet) /\ Len(out) = n
    BY <2>1, <2>3
  <2> HIDE DEF out
  <2> QED
    BY <2>4, <2>5, <2>6
<1> QED
  BY <1>1, <1>2

\* schedule_infinite() renames the suites of a round, and that is all.
LEMMA RoundTyped ==
    ASSUME SuitesTyped
    PROVE  /\ ThisRound \in Seq(SuiteSet) /\ Len(ThisRound) = Len(plan)
           /\ \A i \in 1..Len(plan) : ThisRound[i] \in SuiteSet /\ ThisRound[i].tests = plan[i].tests
           /\ ~Runtime => ThisRound = plan
<1>1. plan \in Seq(SuiteSet) /\ count \in Nat /\ DOMAIN plan = 1..Len(plan) /\ Len(plan) \in Nat
  BY DEF SuitesTyped
<1>2. \A i \in 1..Len(plan) : plan[i] \in SuiteSet
  BY <1>1
<1>3. CASE Runtime
  <2>1. ThisRound = [i \in 1..Len(plan) |-> Rename(plan[i], count)]
    BY <1>1, <1>3 DEF ThisRound
  <2>2. \A i \in 1..Len(plan) : Rename(plan[i], count) \in SuiteSet /\ Rename(plan[i], count).tests = plan[i].tests
    BY <1>1, <1>2, RenameTyped
  <2> QED
    BY <1>1, <1>3, <2>1, <2>2
<1>4. CASE ~Runtime
  BY <1>1, <1>2, <1>4 DEF ThisRound
<1> QED
  BY <1>3, <1>4

\* The first session before its run().
LEMMA TypedInit == Init => Typed
<1> SUFFICES ASSUME Init PROVE Typed
  OBVIOUS
<1>1. Progress
  BY SessionAssumption DEF Init, Progress, RunPlaces, Rounds
<1>2. SuitesTyped /\ ScheduleTyped
  BY DEF Init, SuitesTyped, ScheduleTyped, Rounds
<1>3. KeptTyped
  BY DEF Init, KeptTyped
<1> QED
  BY <1>1, <1>2, <1>3 DEF Typed

\* Where run(), stop() and Ctrl-C may go.
LEMMA ProgressStep ==
    ASSUME Progress, [Next]_vars
    PROVE  Progress'
<1> USE DEF Progress, RunPlaces, Rounds
<1>1. CASE UNCHANGED vars
  BY <1>1 DEF vars, planVars
<1>2. CASE Run \/ StartSut \/ ExecCommand \/ SetFault \/ ReadSuites
  BY <1>2 DEF Run, StartSut, ExecCommand, SetFault, ReadSuites, Goto, Fail, planVars
<1>3. CASE Schedule \/ (\E t \in todo : RunTest(t) \/ RecordTest(t)) \/ SuiteExpires \/ SuiteDone \/ ScheduleFails
  BY <1>3 DEF Schedule, RunTest, RecordTest, SuiteExpires, SuiteDone, ScheduleFails, Goto, quiet, planVars
<1>4. CASE Collect \/ AppendExecuted \/ Again \/ LoopStopped \/ RuntimeExpires \/ RuntimeStop
  BY <1>4 DEF Collect, AppendExecuted, Again, LoopStopped, RuntimeExpires, RuntimeStop, Goto, planVars
<1>5. CASE ResetFault \/ Export \/ InnerStop
  BY <1>5 DEF ResetFault, Export, InnerStop, Goto, planVars
<1>6. CASE NewSession
  BY <1>6, SessionAssumption DEF NewSession
<1>7. CASE \E p \in Stoppers : Stop(p) \/ StopStep(p) \/ CtrlC(p)
  BY <1>7 DEF Stop, StopStep, StopWaits, StopScheduler, StopSut, StopReturns, CtrlC, stopQuiet, planVars
<1> QED
  BY <1>1, <1>2, <1>3, <1>4, <1>5, <1>6, <1>7 DEF Next, RunStep

\* A step of stop() or a Ctrl-C leaves all but the flags and the SUT alone.
LEMMA StopsAreQuiet ==
    ASSUME NEW p \in Stoppers, Stop(p) \/ StopStep(p) \/ CtrlC(p)
    PROVE  /\ UNCHANGED <<planVars, outcome, schedVars, results, diskVars, fault, knobs, histVars>>
           /\ UNCHANGED <<rpc, ret>> \/ (rpc # "idle" /\ rpc' = "idle" /\ ret' = "Dropped")
  BY DEF Stop, StopStep, StopWaits, StopScheduler, StopSut, StopReturns, CtrlC, stopQuiet

\* read_suites() and the rounds.
LEMMA SuitesStep ==
    ASSUME Progress, SuitesTyped, [Next]_vars
    PROVE  SuitesTyped'
<1> USE DEF SuitesTyped
<1>1. CASE UNCHANGED <<plan, count>> /\ (rpc' \in Rounds => rpc \in Rounds)
  BY <1>1
<1>2. CASE ReadSuites
  <2> DEFINE suites == FilterTests(RestoreTests(Found))
  <2>1. suites \in Seq(SuiteSet)
    BY FilteredTyped
  <2>2. count' = 1
    BY <1>2 DEF ReadSuites
  <2>3. CASE plan' = <<>> /\ rpc' = "reset"
    BY <2>2, <2>3 DEF Rounds
  <2>4. CASE (\E i \in DOMAIN suites : suites[i].tests # {}) /\ plan' = ApplyIterate(suites)
    <3>1. suites # <<>>
      BY <2>1, <2>4
    <3> HIDE DEF suites
    <3> QED
      BY <2>1, <2>2, <2>4, <3>1, IterateTyped
  <2> QED
    BY <1>2, <2>3, <2>4 DEF ReadSuites, Fail
<1>3. CASE NewSession
  BY <1>3 DEF NewSession, Progress, Rounds
<1>4. CASE Again
  BY <1>4 DEF Again, Goto, Rounds
<1>5. CASE UNCHANGED vars
  BY <1>1, <1>5 DEF vars, planVars
<1>6. CASE Run \/ StartSut \/ ExecCommand \/ SetFault
  BY <1>1, <1>6 DEF Run, StartSut, ExecCommand, SetFault, Goto, Fail, planVars, Rounds
<1>7. CASE Schedule \/ (\E t \in todo : RunTest(t) \/ RecordTest(t)) \/ SuiteExpires \/ SuiteDone \/ ScheduleFails
  BY <1>1, <1>7 DEF Schedule, RunTest, RecordTest, SuiteExpires, SuiteDone, ScheduleFails, Goto, quiet, planVars, Rounds
<1>8. CASE Collect \/ AppendExecuted \/ LoopStopped \/ RuntimeExpires \/ RuntimeStop
  BY <1>1, <1>8 DEF Collect, AppendExecuted, LoopStopped, RuntimeExpires, RuntimeStop, Goto, planVars, Rounds
<1>9. CASE ResetFault \/ Export \/ InnerStop
  BY <1>1, <1>9 DEF ResetFault, Export, InnerStop, Goto, planVars, Rounds
<1>10. CASE \E p \in Stoppers : Stop(p) \/ StopStep(p) \/ CtrlC(p)
  BY <1>1, <1>10, StopsAreQuiet DEF planVars, Rounds
<1> QED
  BY <1>2, <1>3, <1>4, <1>5, <1>6, <1>7, <1>8, <1>9, <1>10 DEF Next, RunStep

\* Recording a suite.
LEMMA RecordedTyped ==
    ASSUME SuitesTyped, ScheduleTyped, rpc = "schedule"
    PROVE  /\ Recorded \in Seq(ResultSet) /\ Len(Recorded) = Len(schedResults) + 1
           /\ \A i \in 1..Len(schedResults) : Recorded[i] = schedResults[i]
           /\ Recorded[Len(schedResults) + 1] = [name |-> ThisRound[idx].name, rows |-> rows]
           /\ ThisRound[idx].name \in NameSet
<1>1. idx \in 1..Len(plan)
  BY DEF ScheduleTyped
<1>2. ThisRound[idx].name \in NameSet
  BY <1>1, RoundTyped DEF SuiteSet
<1>3. [name |-> ThisRound[idx].name, rows |-> rows] \in ResultSet
  BY <1>2 DEF ResultSet, ScheduleTyped
<1> QED
  BY <1>2, <1>3 DEF Recorded, ScheduleTyped

\* The scheduler's own results.
LEMMA ScheduleStep ==
    ASSUME Progress, SuitesTyped, ScheduleTyped, [Next]_vars
    PROVE  ScheduleTyped'
<1>1. CASE UNCHANGED <<schedVars, plan>> /\ (rpc' = "schedule" => rpc = "schedule")
  BY <1>1 DEF schedVars, ScheduleTyped
<1>2. CASE Schedule
  <2>1. 1 \in 1..Len(plan)
    BY <1>2 DEF Schedule, SuitesTyped, Rounds
  <2>2. ThisRound[1].tests \in SUBSET STRING
    BY <2>1, RoundTyped DEF SuiteSet
  <2> QED
    BY <1>2, <2>1, <2>2 DEF Schedule, ScheduleTyped, quiet, planVars
<1>3. ASSUME NEW t \in todo, RunTest(t) \/ RecordTest(t)
      PROVE  ScheduleTyped'
  <2>1. [test |-> t, run |-> TRUE] \in RowSet
    BY DEF ScheduleTyped, RowSet
  <2> QED
    BY <1>3, <2>1 DEF RunTest, RecordTest, ScheduleTyped, quiet, planVars
<1>4. CASE SuiteExpires
  <2>1. [test : todo, run : {FALSE}] \subseteq RowSet
    BY DEF ScheduleTyped, RowSet
  <2> QED
    BY <1>4, <2>1 DEF SuiteExpires, ScheduleTyped, quiet, planVars
<1>5. CASE SuiteDone
  <2>1. schedResults' \in Seq(ResultSet) /\ UNCHANGED plan
    BY <1>5, RecordedTyped DEF SuiteDone, quiet, planVars
  <2>2. CASE idx < Len(plan) /\ idx' = idx + 1 /\ todo' = ThisRound[idx + 1].tests /\ rows' = {}
    <3>1. idx + 1 \in 1..Len(plan) /\ idx + 1 \in Nat \ {0}
      BY <2>2 DEF ScheduleTyped, SuitesTyped
    <3>2. ThisRound[idx + 1].tests \in SUBSET STRING
      BY <3>1, RoundTyped DEF SuiteSet
    <3> QED
      BY <2>1, <2>2, <3>1, <3>2 DEF ScheduleTyped
  <2>3. CASE rpc' = "collect" /\ UNCHANGED <<idx, todo, rows>>
    BY <2>1, <2>3 DEF ScheduleTyped
  <2> QED
    BY <1>5, <2>2, <2>3 DEF SuiteDone
<1>6. CASE ScheduleFails
  <2>1. schedResults' \in Seq(ResultSet)
    BY <1>6, RecordedTyped DEF ScheduleFails, ScheduleTyped
  <2> QED
    BY <1>6, <2>1 DEF ScheduleFails, ScheduleTyped, quiet, planVars
<1>7. CASE NewSession
  BY <1>7 DEF NewSession, ScheduleTyped, Progress
<1>8. CASE ReadSuites
  BY <1>8 DEF ReadSuites, ScheduleTyped, schedVars, Goto, Fail
<1>9. CASE UNCHANGED vars
  BY <1>1, <1>9 DEF vars, planVars
<1>10. CASE Run \/ StartSut \/ ExecCommand \/ SetFault
  BY <1>1, <1>10 DEF Run, StartSut, ExecCommand, SetFault, Goto, Fail, planVars
<1>11. CASE Collect \/ AppendExecuted \/ Again \/ LoopStopped \/ RuntimeExpires \/ RuntimeStop
  BY <1>1, <1>11 DEF Collect, AppendExecuted, Again, LoopStopped, RuntimeExpires, RuntimeStop, Goto, planVars
<1>12. CASE ResetFault \/ Export \/ InnerStop
  BY <1>1, <1>12 DEF ResetFault, Export, InnerStop, Goto, planVars
<1>13. CASE \E p \in Stoppers : Stop(p) \/ StopStep(p) \/ CtrlC(p)
  BY <1>1, <1>13, StopsAreQuiet DEF planVars
<1> QED
  BY <1>2, <1>3, <1>4, <1>5, <1>6, <1>7, <1>8, <1>9, <1>10, <1>11, <1>12, <1>13 DEF Next, RunStep

\* The lines of the executed file.
LEMMA LinesTyped ==
    ASSUME ScheduleTyped
    PROVE  /\ Lines \in SUBSET (NameSet \X STRING)
           /\ \A line \in Lines : \E i \in 1..Len(schedResults) :
                 \E row \in schedResults[i].rows : line = <<schedResults[i].name, row.test>>
<1>1. schedResults \in Seq(ResultSet) /\ DOMAIN schedResults = 1..Len(schedResults)
  BY DEF ScheduleTyped
<1>2. \A i \in 1..Len(schedResults) : schedResults[i] \in ResultSet
  BY <1>1
<1>3. \A r \in ResultSet : r.name \in NameSet /\ \A row \in r.rows : row.test \in STRING
  BY DEF ResultSet, RowSet
<1>4. \A line \in Lines : \E i \in 1..Len(schedResults) :
                 \E row \in schedResults[i].rows : line = <<schedResults[i].name, row.test>>
  BY <1>1 DEF Lines
<1> QED
  BY <1>2, <1>3, <1>4

\* What outlives a schedule().
LEMMA KeptStep ==
    ASSUME Progress, SuitesTyped, ScheduleTyped, KeptTyped, [Next]_vars
    PROVE  KeptTyped'
<1>1. CASE UNCHANGED <<results, diskVars, ran, recorded>>
  BY <1>1 DEF diskVars, KeptTyped
<1>2. ASSUME NEW t \in todo, RunTest(t) \/ RecordTest(t)
      PROVE  KeptTyped'
  <2>1. idx \in 1..Len(plan) /\ t \in STRING
    BY <1>2 DEF ScheduleTyped, RunTest, RecordTest
  <2>2. ThisRound[idx].name \in NameSet
    BY <2>1, RoundTyped DEF SuiteSet
  <2>3. [sess |-> sess, suite |-> ThisRound[idx].name, test |-> t] \in RanSet
    BY <2>1, <2>2 DEF RanSet, Progress
  <2> QED
    BY <1>2, <2>3 DEF RunTest, RecordTest, KeptTyped, quiet, diskVars
<1>3. CASE Collect
  BY <1>3 DEF Collect, KeptTyped, ScheduleTyped, diskVars, histVars
<1>4. CASE AppendExecuted
  <2>1. PICK L \in SUBSET Lines : executed' = [executed EXCEPT ![sess] = @ \cup L]
    BY <1>4 DEF AppendExecuted
  <2>2. L \in SUBSET (NameSet \X STRING)
    BY LinesTyped
  <2>3. UNCHANGED <<results, report, ran, recorded>>
    BY <1>4 DEF AppendExecuted, histVars
  <2>4. executed' \in [1..Sessions -> SUBSET (NameSet \X STRING)]
    BY <2>1, <2>2 DEF KeptTyped, Progress
  <2> QED
    BY <2>3, <2>4 DEF KeptTyped
<1>5. CASE Export
  BY <1>5 DEF Export, KeptTyped, histVars
<1>6. CASE NewSession
  BY <1>6 DEF NewSession, KeptTyped
<1>7. CASE UNCHANGED vars
  BY <1>1, <1>7 DEF vars, histVars
<1>8. CASE Run \/ StartSut \/ ExecCommand \/ SetFault \/ ReadSuites
  BY <1>1, <1>8 DEF Run, StartSut, ExecCommand, SetFault, ReadSuites, histVars
<1>9. CASE Schedule \/ SuiteExpires \/ SuiteDone \/ ScheduleFails
  BY <1>1, <1>9 DEF Schedule, SuiteExpires, SuiteDone, ScheduleFails, quiet, histVars
<1>10. CASE Again \/ LoopStopped \/ RuntimeExpires \/ RuntimeStop \/ ResetFault \/ InnerStop
  BY <1>1, <1>10 DEF Again, LoopStopped, RuntimeExpires, RuntimeStop, ResetFault, InnerStop, histVars
<1>11. CASE \E p \in Stoppers : Stop(p) \/ StopStep(p) \/ CtrlC(p)
  BY <1>1, <1>11, StopsAreQuiet DEF histVars
<1> QED
  BY <1>2, <1>3, <1>4, <1>5, <1>6, <1>7, <1>8, <1>9, <1>10, <1>11 DEF Next, RunStep

\* The types hold throughout.
LEMMA SessionTyped == Spec => []Typed
<1>1. Typed /\ [Next]_vars => Typed'
  BY ProgressStep, SuitesStep, ScheduleStep, KeptStep DEF Typed
<1> QED
  BY <1>1, TypedInit, PTL DEF Spec

-----------------------------------------------------------------------------
(* The strengthened invariants. *)

\* What ran or was recorded, was so in this session or an earlier one.
Past == \A x \in ran \cup recorded : x.sess <= sess

\* From the reset on, fault injection is off unless the write said otherwise.
FaultInv ==
    /\ fault \in BOOLEAN /\ (~Fault => ~fault)
    /\ rpc \in {"export", "stop"} /\ ~dry /\ fault => knobs # "written"
    /\ FaultOff

\* A stop that the suite scheduler has still to obey is remembered as a request.
StopInv ==
    /\ spc \in [Stoppers -> {"idle", "begin", "sched", "sut", "lock"}]
    /\ schedStop => \E p \in Stoppers : spc[p] \in {"begin", "sched"}
    /\ rpc # "idle" /\ (\E p \in Stoppers : spc[p] # "idle") => stopReq

\* A list of suite results has one of the given rows under the name of a suite.
Has(list, name, R) ==
    \E i \in DOMAIN list : list[i].name = name /\ \E row \in list[i].rows : row \in R

TheRow(x) == {[test |-> x.test, run |-> TRUE]}
RowsOf(t) == {row \in RowSet : row.test = t}

\* So has the scheduler, while the current suite is not recorded yet.
Due(name, R) ==
    \/ Has(schedResults, name, R)
    \/ name = ThisRound[idx].name /\ \E row \in rows : row \in R

\* On its way from the scheduler to results.json no row is lost.
RowsKept ==
    \A x \in recorded : x.sess = sess =>
        /\ ~(rpc = "idle" /\ ret = "none")
        /\ rpc \notin {"start", "command", "fault", "read", "loop"}
        /\ rpc = "schedule" => Due(x.suite, TheRow(x))
        /\ rpc = "collect" => Has(schedResults, x.suite, TheRow(x))
        /\ rpc \in {"append", "reset", "export"} => Has(results, x.suite, TheRow(x))
        /\ rpc = "stop" /\ outcome # "ExportErr" => Has(report, x.suite, TheRow(x))

\* Every test of suite i of the plan has a row in the list.
SuiteIn(i, list) == \A t \in plan[i].tests : Has(list, plan[i].name, RowsOf(t))

\* As long as nobody asks it to stop and nothing fails, run() has a row for every
\* test of its plan, or has it still to do.
PlanKept ==
    ~stopReq =>
        /\ rpc = "schedule" =>
              /\ \A i \in 1..Len(plan) : i < idx => SuiteIn(i, schedResults)
              /\ \A t \in plan[idx].tests : t \in todo \/ \E row \in rows : row \in RowsOf(t)
        /\ outcome = "Ok" /\ ~dry => \A i \in 1..Len(plan) :
              /\ rpc = "collect" => SuiteIn(i, schedResults)
              /\ rpc \in {"append", "reset", "export"} => SuiteIn(i, results)
              /\ rpc = "stop" => SuiteIn(i, report)

ReportInv ==
    /\ rpc \notin {"again", "stopped", "expired"}
    /\ RowsKept /\ PlanKept
    /\ ReportComplete

\* A row, and a line of an executed file, is that of a test that was recorded.
RowsRecorded ==
    /\ rpc = "schedule" => \A row \in rows :
          [sess |-> sess, suite |-> ThisRound[idx].name, test |-> row.test] \in recorded
    /\ rpc \in {"schedule", "collect", "append"} =>
          \A i \in 1..Len(schedResults) : \A row \in schedResults[i].rows :
              [sess |-> sess, suite |-> schedResults[i].name, test |-> row.test] \in recorded
    /\ \A s \in 1..Sessions : \A line \in executed[s] :
          [sess |-> s, suite |-> line[1], test |-> line[2]] \in recorded

\* A selected test is in the plan, or was recorded in an earlier session.
PlanCovers ==
    \A i \in 1..Len(Found) : \A t \in Found[i].tests \cap Selected :
        \/ \E j \in 1..Len(plan) : plan[j].name[1] = Found[i].name[1] /\ t \in plan[j].tests
        \/ \E x \in recorded : x.sess < sess /\ x.suite[1] = Found[i].name[1] /\ x.test = t

CoverInv == rpc \in Rounds => PlanCovers

\* Every name in the plan, the results and the files is that of a suite.
SuiteName(name) == \E i \in 1..Len(Found) : name = Found[i].name

SkipInv ==
    /\ \A x \in ran : SuiteName(x.suite)
    /\ \A s \in 1..Sessions : \A line \in executed[s] : SuiteName(line[1])
    /\ rpc \in {"schedule", "collect", "append"} =>
          \A i \in 1..Len(schedResults) : SuiteName(schedResults[i].name)
    /\ rpc \in Rounds => \A j \in 1..Len(plan) :
          /\ SuiteName(plan[j].name)
          /\ \A t \in plan[j].tests : sess > 1 => <<plan[j].name, t>> \notin executed[sess - 1]
    /\ rpc = "schedule" => todo \subseteq plan[idx].tests
    /\ RestoreSkips

-----------------------------------------------------------------------------
(* Fault injection. *)

\* apply_fault_injection(): the knobs are as asked, or were not all written.
LEMMA KnobsWritten ==
    ASSUME fault \in BOOLEAN, ~Fault => ~fault, NEW on \in BOOLEAN, ApplyFaultInjection(on)
    PROVE  fault' \in BOOLEAN /\ (~Fault => ~fault') /\ (Fault /\ knobs' = "written" => fault' = on)
<1>1. CASE Fault /\ knobs' = "written" /\ fault' = on
  BY <1>1
<1>2. CASE Fault /\ knobs' = "warned" /\ fault' \in {on, fault}
  BY <1>2
<1>3. CASE Fault /\ knobs' = "silent" /\ UNCHANGED fault
  BY <1>3
<1>4. CASE ~Fault /\ UNCHANGED <<fault, knobs>>
  BY <1>4
<1> QED
  BY <1>1, <1>2, <1>3, <1>4 DEF ApplyFaultInjection

\* The knobs are set after the start, and reset on every way to the end of run().
LEMMA FaultStep ==
    ASSUME Progress, FaultInv, [Next]_vars
    PROVE  FaultInv'
<1> USE DEF FaultInv
<1>1. CASE UNCHANGED <<fault, knobs, dry, rpc, ret>>
  BY <1>1 DEF FaultOff
<1>2. CASE UNCHANGED fault /\ rpc' \notin {"export", "stop", "idle"}
  BY <1>2 DEF FaultOff
<1>3. CASE UNCHANGED fault /\ rpc' = "idle" /\ ret' \in {"none", "Dropped"}
  BY <1>3 DEF FaultOff
<1>4. CASE SetFault
  <2>1. fault' \in BOOLEAN /\ (~Fault => ~fault')
    BY <1>4, KnobsWritten DEF SetFault
  <2>2. rpc' = "read"
    BY <1>4 DEF SetFault, Goto
  <2> QED
    BY <2>1, <2>2 DEF FaultOff
<1>5. CASE ResetFault
  <2>1. rpc' = "export" /\ UNCHANGED dry
    BY <1>5 DEF ResetFault, Goto, planVars
  <2>2. CASE dry /\ UNCHANGED <<fault, knobs>>
    BY <2>1, <2>2 DEF FaultOff
  <2>3. CASE ApplyFaultInjection(FALSE)
    <3>1. fault' \in BOOLEAN /\ (~Fault => ~fault') /\ (fault' => knobs' # "written")
      BY <2>3, KnobsWritten
    <3> QED
      BY <2>1, <3>1 DEF FaultOff
  <2> QED
    BY <1>5, <2>2, <2>3 DEF ResetFault
<1>6. CASE Export
  BY <1>6 DEF Export, Goto, sutVars, planVars, FaultOff
<1>7. CASE InnerStop
  BY <1>7 DEF InnerStop, planVars, FaultOff
<1>8. CASE UNCHANGED vars
  BY <1>1, <1>8 DEF vars, planVars, sutVars
<1>9. CASE Run \/ StartSut \/ ExecCommand \/ ReadSuites
  BY <1>2, <1>9 DEF Run, StartSut, ExecCommand, ReadSuites, Goto, Fail, sutVars
<1>10. CASE Schedule \/ (\E t \in todo : RunTest(t) \/ RecordTest(t)) \/ SuiteExpires \/ SuiteDone \/ ScheduleFails
  BY <1>2, <1>10 DEF Schedule, RunTest, RecordTest, SuiteExpires, SuiteDone, ScheduleFails, Goto, quiet
<1>11. CASE Collect \/ AppendExecuted \/ Again \/ LoopStopped \/ RuntimeExpires \/ RuntimeStop
  BY <1>2, <1>11 DEF Collect, AppendExecuted, Again, LoopStopped, RuntimeExpires, RuntimeStop, Goto, sutVars
<1>12. CASE NewSession
  BY <1>3, <1>12 DEF NewSession
<1>13. CASE \E p \in Stoppers : Stop(p) \/ StopStep(p) \/ CtrlC(p)
  BY <1>1, <1>3, <1>13, StopsAreQuiet DEF planVars
<1> QED
  BY <1>4, <1>5, <1>6, <1>7, <1>8, <1>9, <1>10, <1>11, <1>12, <1>13 DEF Next, RunStep

\* A run() that returned, with whatever result and whoever called stop(), has left
\* the fault injection off, unless the last write of the knobs was refused or found
\* no SUT.
THEOREM FaultInjectionIsOff == Spec => []FaultOff
<1>1. Init => FaultInv
  BY DEF Init, FaultInv, FaultOff
<1>2. Typed /\ FaultInv /\ [Next]_vars => FaultInv'
  BY FaultStep DEF Typed
<1>3. FaultInv => FaultOff
  BY DEF FaultInv
<1> QED
  BY <1>1, <1>2, <1>3, SessionTyped, PTL DEF Spec

-----------------------------------------------------------------------------
(* What was recorded is reported. *)

\* Most steps leave what ran and the session alone.
LEMMA PastStep ==
    ASSUME Typed, Past, [Next]_vars
    PROVE  Past'
<1> USE DEF Past
<1>1. CASE UNCHANGED <<sess, ran, recorded>>
  BY <1>1
<1>2. ASSUME NEW t \in todo, RunTest(t) \/ RecordTest(t)
      PROVE  Past'
  BY <1>2 DEF RunTest, RecordTest, quiet, planVars, Typed, Progress
<1>3. CASE NewSession
  BY <1>3 DEF NewSession, Typed, Progress, KeptTyped, RanSet
<1>4. CASE UNCHANGED vars
  BY <1>1, <1>4 DEF vars, planVars, histVars
<1>5. CASE Run \/ StartSut \/ ExecCommand \/ SetFault \/ ReadSuites
  BY <1>1, <1>5 DEF Run, StartSut, ExecCommand, SetFault, ReadSuites, planVars, histVars
<1>6. CASE Schedule \/ SuiteExpires \/ SuiteDone \/ ScheduleFails
  BY <1>1, <1>6 DEF Schedule, SuiteExpires, SuiteDone, ScheduleFails, quiet, planVars, histVars
<1>7. CASE Collect \/ AppendExecuted \/ Again \/ LoopStopped \/ RuntimeExpires \/ RuntimeStop
  BY <1>1, <1>7 DEF Collect, AppendExecuted, Again, LoopStopped, RuntimeExpires, RuntimeStop, planVars, histVars
<1>8. CASE ResetFault \/ Export \/ InnerStop
  BY <1>1, <1>8 DEF ResetFault, Export, InnerStop, planVars, histVars
<1>9. CASE \E p \in Stoppers : Stop(p) \/ StopStep(p) \/ CtrlC(p)
  BY <1>1, <1>9, StopsAreQuiet DEF planVars, histVars
<1> QED
  BY <1>2, <1>3, <1>4, <1>5, <1>6, <1>7, <1>8, <1>9 DEF Next, RunStep

\* Nothing ran in a session that is still to come.
LEMMA PastHolds == Spec => [](Typed /\ Past)
<1>1. Init => Past
  BY DEF Init, Past
<1>2. Typed /\ Past /\ [Next]_vars => Past'
  BY PastStep
<1> QED
  BY <1>1, <1>2, SessionTyped, PTL DEF Spec

\* Only stop() and Ctrl-C, and run() at its beginning and its end, touch the flags.
LEMMA StopInvStep ==
    ASSUME Progress, StopInv, [Next]_vars
    PROVE  StopInv'
<1> USE DEF StopInv
<1>1. CASE UNCHANGED <<stopVars, stopReq>> /\ rpc # "idle"
  BY <1>1 DEF stopVars
<1>2. CASE UNCHANGED vars
  BY <1>2 DEF vars, stopVars
<1>3. CASE Run
  BY <1>3 DEF Run, stopVars
<1>4. CASE StartSut \/ ExecCommand \/ SetFault \/ ReadSuites
  BY <1>1, <1>4 DEF StartSut, ExecCommand, SetFault, ReadSuites
<1>5. CASE Schedule \/ (\E t \in todo : RunTest(t) \/ RecordTest(t)) \/ SuiteExpires \/ SuiteDone \/ ScheduleFails
  BY <1>1, <1>5 DEF Schedule, RunTest, RecordTest, SuiteExpires, SuiteDone, ScheduleFails, quiet
<1>6. CASE Collect \/ AppendExecuted \/ Again \/ LoopStopped \/ RuntimeExpires
  BY <1>1, <1>6 DEF Collect, AppendExecuted, Again, LoopStopped, RuntimeExpires
<1>7. CASE RuntimeStop
  BY <1>7 DEF RuntimeStop, StopIdleScheduler, Goto
<1>8. CASE ResetFault \/ Export
  BY <1>1, <1>8 DEF ResetFault, Export
<1>9. CASE InnerStop
  BY <1>9 DEF InnerStop, StopIdleScheduler
<1>10. CASE NewSession
  BY <1>10 DEF NewSession
<1>11. ASSUME NEW p \in Stoppers, Stop(p) \/ CtrlC(p)
       PROVE  StopInv'
  BY <1>11 DEF Stop, CtrlC
<1>12. ASSUME NEW p \in Stoppers, StopStep(p)
       PROVE  StopInv'
  <2>1. UNCHANGED <<rpc, stopReq>> /\ spc[p] # "idle"
    BY <1>12 DEF StopStep, StopWaits, StopScheduler, StopSut, StopReturns
  <2>2. \A q \in Stoppers : spc'[q] # "idle" => spc[q] # "idle"
    BY <1>12, <2>1 DEF StopStep, StopWaits, StopScheduler, StopSut, StopReturns
  <2>3. schedStop' => \E q \in Stoppers : spc'[q] \in {"begin", "sched"}
    BY <1>12 DEF StopStep, StopWaits, StopScheduler, StopSut, StopReturns, StopIdleScheduler
  <2>4. spc' \in [Stoppers -> {"idle", "begin", "sched", "sut", "lock"}]
    BY <1>12 DEF StopStep, StopWaits, StopScheduler, StopSut, StopReturns
  <2> QED
    BY <2>1, <2>2, <2>3, <2>4
<1> QED
  BY <1>2, <1>3, <1>4, <1>5, <1>6, <1>7, <1>8, <1>9, <1>10, <1>11, <1>12 DEF Next, RunStep

\* A list that grows keeps what it has.
LEMMA HasAppended ==
    ASSUME NEW s \in Seq(ResultSet), NEW t \in Seq(ResultSet), NEW name, NEW R,
           Has(s, name, R) \/ Has(t, name, R)
    PROVE  Has(s \o t, name, R)
<1>1. Len(s) \in Nat /\ Len(t) \in Nat /\ DOMAIN s = 1..Len(s) /\ DOMAIN t = 1..Len(t)
  OBVIOUS
<1>2. /\ s \o t \in Seq(ResultSet) /\ DOMAIN (s \o t) = 1..(Len(s) + Len(t))
      /\ \A i \in 1..Len(s) : (s \o t)[i] = s[i]
      /\ \A i \in 1..Len(t) : (s \o t)[Len(s) + i] = t[i]
  OBVIOUS
<1>3. CASE Has(s, name, R)
  <2>1. PICK i \in 1..Len(s) : s[i].name = name /\ \E row \in s[i].rows : row \in R
    BY <1>1, <1>3 DEF Has
  <2>2. i \in DOMAIN (s \o t) /\ (s \o t)[i] = s[i]
    BY <1>1, <1>2
  <2> QED
    BY <2>1, <2>2 DEF Has
<1>4. CASE Has(t, name, R)
  <2>1. PICK i \in 1..Len(t) : t[i].name = name /\ \E row \in t[i].rows : row \in R
    BY <1>1, <1>4 DEF Has
  <2>2. Len(s) + i \in DOMAIN (s \o t) /\ (s \o t)[Len(s) + i] = t[i]
    BY <1>1, <1>2
  <2> QED
    BY <2>1, <2>2 DEF Has
<1> QED
  BY <1>3, <1>4

\* Recording a suite keeps its rows, and those of the suites before.
LEMMA HasRecorded ==
    ASSUME SuitesTyped, ScheduleTyped, rpc = "schedule", NEW name, NEW R, Due(name, R)
    PROVE  Has(Recorded, name, R)
<1>1. Len(schedResults) \in Nat /\ DOMAIN schedResults = 1..Len(schedResults)
  BY DEF ScheduleTyped
<1>2. /\ DOMAIN Recorded = 1..(Len(schedResults) + 1)
      /\ \A i \in 1..Len(schedResults) : Recorded[i] = schedResults[i]
      /\ Recorded[Len(schedResults) + 1].name = ThisRound[idx].name
      /\ Recorded[Len(schedResults) + 1].rows = rows
  BY RecordedTyped
<1>3. CASE Has(schedResults, name, R)
  BY <1>1, <1>2, <1>3 DEF Has
<1>4. CASE name = ThisRound[idx].name /\ \E row \in rows : row \in R
  <2>1. Len(schedResults) + 1 \in DOMAIN Recorded
    BY <1>1, <1>2
  <2> QED
    BY <1>2, <1>4, <2>1 DEF Has
<1> QED
  BY <1>3, <1>4 DEF Due

\* What has the row of a test has a row of it.
LEMMA RowInReport ==
    ASSUME NEW x, Has(report, x.suite, TheRow(x))
    PROVE  \E i \in DOMAIN report : /\ report[i].name = x.suite
                                    /\ [test |-> x.test, run |-> TRUE] \in report[i].rows
  BY DEF Has, TheRow

\* Without a runtime the rows go from the scheduler to the results and to the report.
LEMMA RowsKeptStep ==
    ASSUME ~Runtime, Typed, Past, RowsKept, rpc \notin {"again", "stopped", "expired"}, [Next]_vars
    PROVE  RowsKept'
<1> USE DEF Typed, RowsKept
<1>1. CASE UNCHANGED vars
  BY <1>1 DEF vars, planVars, schedVars, histVars, diskVars, Has, TheRow, Due, ThisRound
<1>2. CASE Run
  BY <1>2 DEF Run, histVars
<1>3. CASE StartSut \/ ExecCommand \/ SetFault \/ ReadSuites
  BY <1>3 DEF StartSut, ExecCommand, SetFault, ReadSuites, Goto, Fail, planVars, histVars
<1>4. CASE Schedule
  BY <1>4 DEF Schedule, quiet, planVars, Goto, histVars
<1>5. ASSUME rpc = "schedule", rpc' = "schedule", UNCHANGED <<sess, idx, schedResults, plan, count>>,
             rows \subseteq rows',
             \A x \in recorded' \ recorded :
                x.suite = ThisRound[idx].name /\ [test |-> x.test, run |-> TRUE] \in rows'
      PROVE  RowsKept'
  <2>1. ThisRound' = ThisRound
    BY <1>5 DEF ThisRound
  <2>2. ASSUME NEW x \in recorded', x.sess = sess
        PROVE  Due(x.suite, TheRow(x))'
    <3>1. CASE x \in recorded
      <4>1. Due(x.suite, TheRow(x))
        BY <1>5, <2>2, <3>1
      <4> QED
        BY <1>5, <2>1, <4>1 DEF Due, Has
    <3>2. CASE x \notin recorded
      BY <1>5, <2>1, <2>2, <3>2 DEF Due, TheRow
    <3> QED
      BY <3>1, <3>2
  <2> QED
    BY <1>5, <2>2
<1>6. ASSUME NEW t \in todo, RunTest(t)
      PROVE  RowsKept'
  BY <1>5, <1>6 DEF RunTest, quiet, planVars
<1>7. ASSUME NEW t \in todo, RecordTest(t)
      PROVE  RowsKept'
  <2>1. /\ rpc = "schedule" /\ rpc' = "schedule" /\ UNCHANGED <<sess, idx, schedResults, plan, count>>
        /\ rows' = rows \cup {[test |-> t, run |-> TRUE]}
        /\ recorded' = recorded \cup {[sess |-> sess, suite |-> ThisRound[idx].name, test |-> t]}
    BY <1>7 DEF RecordTest, quiet, planVars
  <2>2. ASSUME NEW x \in recorded' \ recorded
        PROVE  x.suite = ThisRound[idx].name /\ [test |-> x.test, run |-> TRUE] \in rows'
    <3>1. x = [sess |-> sess, suite |-> ThisRound[idx].name, test |-> t]
      BY <2>1
    <3>2. x.suite = ThisRound[idx].name /\ x.test = t
      BY <3>1
    <3> QED
      BY <2>1, <3>2
  <2> QED
    BY <1>5, <2>1, <2>2
<1>8. CASE SuiteExpires
  BY <1>5, <1>8 DEF SuiteExpires, quiet, planVars, histVars
<1>9. CASE SuiteDone
  <2>1. rpc = "schedule" /\ rpc' \in {"schedule", "collect"} /\ UNCHANGED <<sess, recorded>> /\ schedResults' = Recorded
    BY <1>9 DEF SuiteDone, quiet, planVars, histVars
  <2>2. \A x \in recorded : x.sess = sess => Has(Recorded, x.suite, TheRow(x))
    BY <2>1, HasRecorded
  <2> QED
    BY <2>1, <2>2 DEF Due, Has, TheRow
<1>10. CASE ScheduleFails
  <2>1. rpc = "schedule" /\ rpc' = "collect" /\ UNCHANGED <<sess, recorded>>
    BY <1>10 DEF ScheduleFails, quiet, planVars, histVars
  <2>2. \A x \in recorded : x.sess = sess => Has(Recorded, x.suite, TheRow(x))
    BY <2>1, HasRecorded
  <2>3. schedResults' = Recorded \/ (rows = {} /\ schedResults' = schedResults)
    BY <1>10 DEF ScheduleFails
  <2>4. rows = {} => \A x \in recorded : x.sess = sess => Has(schedResults, x.suite, TheRow(x))
    BY <2>1 DEF Due
  <2> QED
    BY <2>1, <2>2, <2>3, <2>4 DEF Has, TheRow
<1>11. CASE Collect
  <2>1. rpc = "collect" /\ rpc' = "append" /\ UNCHANGED <<sess, recorded>> /\ results' = results \o schedResults
    BY <1>11 DEF Collect, planVars, Goto, histVars
  <2>2. \A x \in recorded : x.sess = sess => Has(results \o schedResults, x.suite, TheRow(x))
    BY <2>1, HasAppended DEF KeptTyped, ScheduleTyped
  <2> QED
    BY <2>1, <2>2 DEF Has, TheRow
<1>12. CASE AppendExecuted
  BY <1>12 DEF AppendExecuted, planVars, Has, TheRow, histVars
<1>13. CASE Again \/ LoopStopped \/ RuntimeExpires \/ RuntimeStop
  BY <1>13 DEF Again, LoopStopped, RuntimeExpires, RuntimeStop
<1>14. CASE ResetFault
  BY <1>14 DEF ResetFault, Goto, planVars, Has, TheRow, histVars
<1>15. CASE Export
  <2>1. rpc = "export" /\ rpc' = "stop" /\ UNCHANGED <<sess, recorded>>
    BY <1>15 DEF Export, Goto, planVars, histVars
  <2>2. results = <<>> => \A x \in recorded : x.sess # sess
    BY <2>1 DEF Has
  <2>3. results = <<>> \/ report' = results \/ outcome' = "ExportErr"
    BY <1>15 DEF Export
  <2> QED
    BY <2>1, <2>2, <2>3 DEF Has, TheRow
<1>16. CASE InnerStop
  BY <1>16 DEF InnerStop, planVars, Progress, histVars
<1>17. CASE NewSession
  <2>1. sess' = sess + 1 /\ UNCHANGED recorded
    BY <1>17 DEF NewSession
  <2>2. \A x \in recorded : x.sess # sess'
    BY <2>1 DEF Past, Progress, KeptTyped, RanSet
  <2> QED
    BY <2>1, <2>2
<1>18. CASE \E p \in Stoppers : Stop(p) \/ StopStep(p) \/ CtrlC(p)
  <2>1. UNCHANGED <<planVars, outcome, schedVars, results, diskVars, fault, knobs, histVars>>
    BY <1>18, StopsAreQuiet
  <2>2. UNCHANGED <<rpc, ret>> \/ (rpc' = "idle" /\ ret' = "Dropped")
    BY <1>18, StopsAreQuiet
  <2> QED
    BY <2>1, <2>2 DEF planVars, schedVars, diskVars, histVars, Has, TheRow, Due, ThisRound
<1> QED
  BY <1>1, <1>2, <1>3, <1>4, <1>6, <1>7, <1>8, <1>9, <1>10, <1>11, <1>12, <1>13, <1>14, <1>15, <1>16,
     <1>17, <1>18 DEF Next, RunStep

\* Nothing of the plan gets lost but by an error or a stop.
LEMMA PlanKeptStep ==
    ASSUME ~Runtime, Typed, StopInv, PlanKept, rpc \notin {"again", "stopped", "expired"}, [Next]_vars
    PROVE  PlanKept'
<1> USE DEF Typed, PlanKept
<1>0. /\ ThisRound = plan /\ plan \in Seq(SuiteSet) /\ Len(plan) \in Nat
      /\ \A i \in 1..Len(plan) : plan[i].tests \in SUBSET STRING
  BY RoundTyped DEF SuitesTyped, SuiteSet
<1>1. CASE UNCHANGED vars
  BY <1>1 DEF vars, planVars, schedVars, diskVars, SuiteIn, Has, RowsOf
<1>2. CASE rpc' \in {"idle", "start", "command", "fault", "read", "loop"}
  BY <1>2
<1>3. CASE ReadSuites
  BY <1>3 DEF ReadSuites, Goto, Fail, planVars
<1>4. CASE Schedule
  <2>1. /\ rpc' = "schedule" /\ UNCHANGED <<plan, outcome, dry>> /\ idx' = 1 /\ todo' = plan[1].tests
    BY <1>0, <1>4 DEF Schedule, Goto, quiet, planVars
  <2> QED
    BY <1>0, <2>1
<1>5. ASSUME rpc = "schedule", rpc' = "schedule", UNCHANGED <<idx, schedResults, plan, stopReq>>,
             rows \subseteq rows',
             \A t \in todo \ todo' : \E row \in rows' : row \in RowsOf(t)
      PROVE  PlanKept'
  <2> SUFFICES ASSUME ~stopReq
               PROVE  /\ \A i \in 1..Len(plan) : i < idx => SuiteIn(i, schedResults)
                      /\ \A t \in plan[idx].tests : t \in todo' \/ \E row \in rows' : row \in RowsOf(t)
    BY <1>5 DEF SuiteIn, Has, RowsOf
  <2> QED
    BY <1>5
<1>6. ASSUME NEW t \in todo, RunTest(t)
      PROVE  PlanKept'
  <2>1. /\ rpc = "schedule" /\ rpc' = "schedule" /\ UNCHANGED <<idx, schedResults, plan, stopReq, rows, todo>>
    BY <1>6 DEF RunTest, quiet, planVars
  <2> QED
    BY <1>5, <2>1
<1>7. ASSUME NEW t \in todo, RecordTest(t)
      PROVE  PlanKept'
  <2>1. /\ rpc = "schedule" /\ rpc' = "schedule" /\ UNCHANGED <<idx, schedResults, plan, stopReq>>
        /\ rows' = rows \cup {[test |-> t, run |-> TRUE]} /\ todo' = todo \ {t}
    BY <1>7 DEF RecordTest, quiet, planVars
  <2>2. [test |-> t, run |-> TRUE] \in RowsOf(t)
    BY DEF ScheduleTyped, RowsOf, RowSet
  <2> QED
    BY <1>5, <2>1, <2>2
<1>8. CASE SuiteExpires
  <2>1. /\ rpc = "schedule" /\ rpc' = "schedule" /\ UNCHANGED <<idx, schedResults, plan, stopReq>>
        /\ rows' = rows \cup [test : todo, run : {FALSE}]
    BY <1>8 DEF SuiteExpires, quiet, planVars
  <2>2. ASSUME NEW t \in todo
        PROVE  \E row \in rows' : row \in RowsOf(t)
    <3>1. [test |-> t, run |-> FALSE] \in [test : todo, run : {FALSE}]
      OBVIOUS
    <3>2. [test |-> t, run |-> FALSE] \in RowsOf(t)
      BY DEF ScheduleTyped, RowsOf, RowSet
    <3> QED
      BY <2>1, <3>1, <3>2
  <2> QED
    BY <1>5, <2>1, <2>2
<1>9. CASE SuiteDone
  <2>1. /\ rpc = "schedule" /\ schedResults' = Recorded /\ UNCHANGED <<plan, stopReq, outcome, dry>>
        /\ todo = {} \/ schedStop
        /\ \/ idx < Len(plan) /\ idx' = idx + 1 /\ todo' = plan[idx + 1].tests /\ rpc' = "schedule"
           \/ ~(idx < Len(plan)) /\ rpc' = "collect"
    BY <1>0, <1>9 DEF SuiteDone, quiet, planVars
  <2> SUFFICES ASSUME ~stopReq
               PROVE  PlanKept'
    BY <2>1
  <2>2. todo = {}
    BY <2>1 DEF StopInv
  <2>3. idx \in 1..Len(plan)
    BY <2>1 DEF ScheduleTyped
  <2>4. ASSUME NEW i \in 1..Len(plan), i <= idx
        PROVE  SuiteIn(i, Recorded)
    <3> SUFFICES ASSUME NEW t \in plan[i].tests
                 PROVE  Has(Recorded, plan[i].name, RowsOf(t))
      BY DEF SuiteIn
    <3>1. Due(plan[i].name, RowsOf(t))
      <4>1. CASE i < idx
        BY <2>1, <4>1 DEF SuiteIn, Due
      <4>2. CASE i = idx
        BY <1>0, <2>1, <2>2, <4>2 DEF Due
      <4> QED
        BY <2>3, <2>4, <4>1, <4>2
    <3> QED
      BY <2>1, <3>1, HasRecorded
  <2>5. CASE idx < Len(plan) /\ idx' = idx + 1 /\ todo' = plan[idx + 1].tests /\ rpc' = "schedule"
    <3>1. \A i \in 1..Len(plan) : i < idx' => SuiteIn(i, Recorded)
      BY <2>3, <2>4, <2>5
    <3>2. \A i \in 1..Len(plan') : i < idx' => SuiteIn(i, schedResults)'
      BY <2>1, <3>1 DEF SuiteIn, Has, RowsOf
    <3>3. \A t \in plan'[idx'].tests : t \in todo'
      BY <2>1, <2>5
    <3> QED
      BY <2>5, <3>2, <3>3
  <2>6. CASE ~(idx < Len(plan)) /\ rpc' = "collect"
    <3>1. \A i \in 1..Len(plan) : SuiteIn(i, Recorded)
      BY <1>0, <2>3, <2>4, <2>6
    <3>2. \A i \in 1..Len(plan') : SuiteIn(i, schedResults)'
      BY <2>1, <3>1 DEF SuiteIn, Has, RowsOf
    <3> QED
      BY <2>6, <3>2
  <2> QED
    BY <2>1, <2>5, <2>6
<1>10. CASE ScheduleFails
  BY <1>10 DEF ScheduleFails
<1>11. CASE Collect
  <2>1. /\ rpc = "collect" /\ rpc' = "append" /\ UNCHANGED <<plan, stopReq, outcome, dry>>
        /\ results' = results \o schedResults
    BY <1>11 DEF Collect, planVars, Goto
  <2>2. ASSUME NEW i \in 1..Len(plan), SuiteIn(i, schedResults)
        PROVE  SuiteIn(i, results \o schedResults)
    BY <2>2, HasAppended DEF SuiteIn, KeptTyped, ScheduleTyped
  <2>3. ASSUME NEW i \in 1..Len(plan), SuiteIn(i, results \o schedResults)
        PROVE  SuiteIn(i, results)'
    BY <2>1, <2>3 DEF SuiteIn, Has, RowsOf
  <2> QED
    BY <2>1, <2>2, <2>3
<1>12. CASE AppendExecuted
  BY <1>12 DEF AppendExecuted, planVars, SuiteIn, Has, RowsOf
<1>13. CASE Again \/ LoopStopped \/ RuntimeExpires \/ RuntimeStop
  BY <1>13 DEF Again, LoopStopped, RuntimeExpires, RuntimeStop
<1>14. CASE ResetFault
  BY <1>14 DEF ResetFault, Goto, planVars, SuiteIn, Has, RowsOf
<1>15. CASE Export
  <2>1. rpc = "export" /\ rpc' = "stop" /\ UNCHANGED <<plan, stopReq, dry>>
    BY <1>15 DEF Export, Goto, planVars
  <2>2. \/ results = <<>> /\ UNCHANGED <<report, outcome>>
        \/ report' = results /\ UNCHANGED outcome
        \/ outcome' = "ExportErr"
    BY <1>15 DEF Export, Goto
  <2>3. ASSUME NEW i \in 1..Len(plan), SuiteIn(i, results), results = <<>> \/ report' = results
        PROVE  SuiteIn(i, report)'
    BY <2>1, <2>3 DEF SuiteIn, Has, RowsOf
  <2> QED
    BY <2>1, <2>2, <2>3
<1>16. CASE InnerStop \/ NewSession \/ Run \/ StartSut \/ ExecCommand \/ SetFault
  BY <1>16 DEF InnerStop, NewSession, Run, StartSut, ExecCommand, SetFault, Goto, Fail
<1>17. CASE \E p \in Stoppers : Stop(p) \/ StopStep(p) \/ CtrlC(p)
  <2>1. UNCHANGED <<planVars, outcome, schedVars, results, diskVars>>
    BY <1>17, StopsAreQuiet
  <2>2. UNCHANGED rpc \/ rpc' = "idle"
    BY <1>17, StopsAreQuiet
  <2>3. ~stopReq' => ~stopReq
    BY <1>17 DEF Stop, CtrlC, StopStep, StopWaits, StopScheduler, StopSut, StopReturns
  <2> QED
    BY <2>1, <2>2, <2>3 DEF planVars, schedVars, diskVars, SuiteIn, Has, RowsOf
<1> QED
  BY <1>1, <1>3, <1>4, <1>6, <1>7, <1>8, <1>9, <1>10, <1>11, <1>12, <1>13, <1>14, <1>15, <1>16, <1>17
     DEF Next, RunStep

\* The report of a run() that returned is what was kept until then.
LEMMA ReportStep ==
    ASSUME ~Runtime, Typed, Past, StopInv, ReportInv, [Next]_vars
    PROVE  ReportInv'
<1> USE DEF ReportInv
<1>1. RowsKept' /\ PlanKept'
  BY RowsKeptStep, PlanKeptStep
<1>2. rpc' \notin {"again", "stopped", "expired"}
  BY DEF Next, RunStep, vars, Run, StartSut, ExecCommand, SetFault, ReadSuites, Schedule, RunTest, RecordTest,
         SuiteExpires, SuiteDone, ScheduleFails, Collect, AppendExecuted, Again, LoopStopped,
         RuntimeExpires, RuntimeStop, ResetFault, Export, InnerStop, NewSession, Stop, StopStep, StopWaits,
         StopScheduler, StopSut, StopReturns, CtrlC, Goto, Fail
<1>3. CASE ~(rpc' = "idle" /\ ret' \in {"Ok", "Err"})
  BY <1>1, <1>2, <1>3 DEF ReportComplete
<1>4. CASE rpc' = "idle" /\ ret' \in {"Ok", "Err"}
  <2>1. CASE InnerStop
    <3>1. rpc = "stop" /\ ret' = outcome /\ UNCHANGED <<planVars, report, histVars, stopReq>>
      BY <2>1 DEF InnerStop, diskVars
    <3>2. \A x \in recorded : x.sess = sess => Has(report, x.suite, TheRow(x))
      BY <1>4, <3>1 DEF RowsKept
    <3>3. ASSUME ret' = "Ok", ~dry, ~stopReq, NEW i \in 1..Len(plan), NEW t \in plan[i].tests
          PROVE  Reported(plan[i].name, t)
      <4>1. SuiteIn(i, report)
        BY <3>1, <3>3 DEF PlanKept
      <4> QED
        BY <4>1 DEF SuiteIn, Has, RowsOf, Reported
    <3>4. DOMAIN plan = 1..Len(plan)
      BY DEF Typed, SuitesTyped
    <3>5. ReportComplete'
      BY <3>1, <3>2, <3>3, <3>4, RowInReport DEF ReportComplete, Reported, planVars, histVars
    <3> QED
      BY <1>1, <1>2, <3>5
  <2>2. CASE UNCHANGED <<rpc, ret, planVars, report, histVars, cut>> /\ (~stopReq' => ~stopReq)
    BY <1>1, <1>2, <1>4, <2>2 DEF ReportComplete, Reported, planVars, histVars
  <2>3. CASE \E p \in Stoppers : Stop(p) \/ StopStep(p) \/ CtrlC(p)
    <3>1. ~stopReq' => ~stopReq
      BY <2>3 DEF Stop, CtrlC, StopStep, StopWaits, StopScheduler, StopSut, StopReturns
    <3> QED
      BY <1>4, <2>2, <2>3, <3>1, StopsAreQuiet DEF diskVars, histVars
  <2>4. CASE UNCHANGED vars
    BY <2>2, <2>4 DEF vars, diskVars, histVars
  <2> QED
    BY <1>4, <2>1, <2>3, <2>4 DEF Next, RunStep, Run, StartSut, ExecCommand, SetFault, ReadSuites, Schedule,
         RunTest, RecordTest, SuiteExpires, SuiteDone, ScheduleFails, Collect, AppendExecuted, Again,
         LoopStopped, RuntimeExpires, RuntimeStop, ResetFault, Export, NewSession, Goto, Fail
<1> QED
  BY <1>3, <1>4

\* A run() without a runtime that returns has every row the scheduler recorded in
\* its results.json, also when the scheduler failed, the SUT died or a stop() came,
\* unless the export itself failed; and if it returns Ok and nobody asked it to
\* stop, every test of its plan has a row there.
THEOREM WhatWasRecordedIsReported ==
    ASSUME ~Runtime
    PROVE  Spec => []ReportComplete
<1>1. Init => StopInv /\ ReportInv
  <2> SUFFICES ASSUME Init PROVE StopInv /\ ReportInv
    OBVIOUS
  <2>1. spc \in [Stoppers -> {"idle", "begin", "sched", "sut", "lock"}] /\ \A p \in Stoppers : spc[p] = "idle"
    BY DEF Init
  <2>2. StopInv
    BY <2>1 DEF Init, StopInv
  <2> QED
    BY <2>2 DEF Init, ReportInv, RowsKept, PlanKept, ReportComplete
<1>2. Typed /\ Past /\ StopInv /\ ReportInv /\ [Next]_vars => StopInv' /\ ReportInv'
  BY StopInvStep, ReportStep DEF Typed
<1>3. ReportInv => ReportComplete
  BY DEF ReportInv
<1> QED
  BY <1>1, <1>2, <1>3, PastHolds, PTL DEF Spec

-----------------------------------------------------------------------------
(* What a restored session leaves out, and what it runs. *)

\* Every suite comes at least once out of apply_iterate(), with its tests.
LEMMA IterateCovers ==
    ASSUME NEW suites \in Seq(SuiteSet), NEW k \in 1..Len(suites), suites[k].name # <<>>
    PROVE  \E j \in 1..Len(ApplyIterate(suites)) :
              /\ ApplyIterate(suites)[j].name[1] = suites[k].name[1]
              /\ ApplyIterate(suites)[j].tests = suites[k].tests
<1>1. CASE Iterate = 1
  BY <1>1 DEF ApplyIterate
<1>2. CASE Iterate # 1
  <2> DEFINE n == Len(suites) * Iterate
             j == (k - 1) * Iterate + 1
             out == [i \in 1..n |-> Rename(suites[(i - 1) \div Iterate + 1], (i - 1) % Iterate)]
  <2>1. Iterate \in Nat \ {0} /\ Len(suites) \in Nat /\ n \in Nat
    BY SessionAssumption
  <2>2. j \in 1..n
    BY <2>1, SMTT(30)
  <2>3. (j - 1) \div Iterate + 1 = k /\ (j - 1) % Iterate = 0
    BY <2>1, SMTT(30)
  <2>4. ApplyIterate(suites) = out
    BY <1>2 DEF ApplyIterate
  <2> HIDE DEF n, j
  <2>5. out[j] = Rename(suites[k], 0) /\ Len(out) = n
    BY <2>1, <2>2, <2>3
  <2>6. suites[k] \in SuiteSet
    OBVIOUS
  <2> HIDE DEF out
  <2>7. out[j].tests = suites[k].tests /\ out[j].name = Append(suites[k].name, 0)
    <3>1. 0 \in Nat
      OBVIOUS
    <3>2. /\ Rename(suites[k], 0).tests = suites[k].tests
          /\ Rename(suites[k], 0).name = Append(suites[k].name, 0)
      BY <2>6, <3>1, RenameTyped, Zenon
    <3> QED
      BY <2>5, <3>2
  <2>8. Append(suites[k].name, 0)[1] = suites[k].name[1]
    <3> DEFINE Words == STRING \cup Nat
    <3>1. suites[k].name \in Seq(Words) /\ 0 \in Words
      BY <2>6 DEF SuiteSet, NameSet
    <3> HIDE DEF Words
    <3> QED
      BY <3>1
  <2> QED
    BY <2>2, <2>4, <2>5, <2>7, <2>8
<1> QED
  BY <1>1, <1>2

\* Without a suite timeout a row is that of a test that was recorded.
LEMMA RowsStep ==
    ASSUME ~SuiteTimeout, Typed, RowsRecorded, [Next]_vars
    PROVE  RowsRecorded'
<1> USE DEF Typed, RowsRecorded
<1>1. CASE /\ UNCHANGED <<sess, recorded, executed>>
           /\ rpc' \notin {"schedule", "collect", "append"}
  BY <1>1
<1>2. CASE /\ UNCHANGED <<sess, recorded, executed, schedResults>>
           /\ rpc = "collect" /\ rpc' = "append"
  BY <1>2
<1>3. CASE UNCHANGED <<sess, recorded, executed, schedVars, plan, count, rpc>>
  BY <1>3 DEF schedVars, ThisRound
<1>4. CASE Schedule
  BY <1>4 DEF Schedule, quiet, planVars, diskVars, Goto, histVars
<1>5. ASSUME NEW t \in todo, RecordTest(t)
      PROVE  RowsRecorded'
  <2>1. /\ rpc = "schedule" /\ rpc' = "schedule" /\ UNCHANGED <<sess, idx, schedResults, plan, count, executed>>
        /\ rows' = rows \cup {[test |-> t, run |-> TRUE]}
        /\ recorded' = recorded \cup {[sess |-> sess, suite |-> ThisRound[idx].name, test |-> t]}
    BY <1>5 DEF RecordTest, quiet, planVars, diskVars, histVars
  <2>2. ThisRound' = ThisRound
    BY <2>1 DEF ThisRound
  <2>3. ASSUME NEW row \in rows'
        PROVE  [sess |-> sess, suite |-> ThisRound[idx].name, test |-> row.test] \in recorded'
    <3>1. CASE row \in rows
      BY <2>1, <3>1
    <3>2. CASE row = [test |-> t, run |-> TRUE]
      BY <2>1, <3>2
    <3> QED
      BY <2>1, <3>1, <3>2
  <2>4. \A s \in 1..Sessions : \A line \in executed[s] :
          [sess |-> s, suite |-> line[1], test |-> line[2]] \in recorded'
    BY <2>1
  <2>5. \A i \in 1..Len(schedResults) : \A row \in schedResults[i].rows :
          [sess |-> sess, suite |-> schedResults[i].name, test |-> row.test] \in recorded'
    BY <2>1
  <2> QED
    BY <2>1, <2>2, <2>3, <2>4, <2>5
<1>18. ASSUME NEW t \in todo, RunTest(t)
       PROVE  RowsRecorded'
  BY <1>18 DEF RunTest, quiet, planVars, diskVars, ThisRound, histVars
<1>6. CASE SuiteExpires
  BY <1>6 DEF SuiteExpires
<1>7. ASSUME rpc = "schedule", schedResults' \in {schedResults, Recorded}, UNCHANGED <<sess, recorded, executed>>,
             rpc' = "schedule" => rows' = {}
      PROVE  RowsRecorded'
  <2>1. ASSUME NEW i \in 1..Len(Recorded), NEW row \in Recorded[i].rows
        PROVE  [sess |-> sess, suite |-> Recorded[i].name, test |-> row.test] \in recorded
    <3>1. Len(schedResults) \in Nat
      BY DEF ScheduleTyped
    <3>2. CASE i \in 1..Len(schedResults)
      BY <1>7, <2>1, <3>2, RecordedTyped
    <3>3. CASE i = Len(schedResults) + 1
      <4>1. Recorded[i].name = ThisRound[idx].name /\ Recorded[i].rows = rows
        BY <1>7, <3>3, RecordedTyped
      <4> QED
        BY <1>7, <2>1, <4>1
    <3> QED
      BY <1>7, <3>1, <3>2, <3>3, RecordedTyped
  <2>2. \A i \in 1..Len(schedResults') : \A row \in schedResults'[i].rows :
          [sess |-> sess, suite |-> schedResults'[i].name, test |-> row.test] \in recorded
    BY <1>7, <2>1
  <2> QED
    BY <1>7, <2>2
<1>8. CASE SuiteDone
  BY <1>7, <1>8 DEF SuiteDone, quiet, planVars, diskVars, histVars
<1>9. CASE ScheduleFails
  BY <1>7, <1>9 DEF ScheduleFails, quiet, planVars, diskVars, histVars
<1>10. CASE AppendExecuted
  <2>1. PICK L \in SUBSET Lines : executed' = [executed EXCEPT ![sess] = @ \cup L]
    BY <1>10 DEF AppendExecuted
  <2>2. UNCHANGED <<sess, recorded>> /\ rpc' \notin {"schedule", "collect", "append"} /\ rpc = "append"
    BY <1>10 DEF AppendExecuted, planVars, histVars
  <2>3. ASSUME NEW line \in L
        PROVE  [sess |-> sess, suite |-> line[1], test |-> line[2]] \in recorded
    <3>1. PICK i \in 1..Len(schedResults) :
              \E row \in schedResults[i].rows : line = <<schedResults[i].name, row.test>>
      BY LinesTyped
    <3>2. PICK row \in schedResults[i].rows : line = <<schedResults[i].name, row.test>>
      BY <3>1
    <3>3. line[1] = schedResults[i].name /\ line[2] = row.test
      BY <3>2
    <3> QED
      BY <2>2, <3>3
  <2>4. \A s \in 1..Sessions : \A line \in executed'[s] : line \in executed[s] \/ (s = sess /\ line \in L)
    BY <2>1 DEF KeptTyped
  <2>5. \A s \in 1..Sessions : \A line \in executed'[s] : [sess |-> s, suite |-> line[1], test |-> line[2]] \in recorded
    BY <2>3, <2>4
  <2> QED
    BY <2>2, <2>5
<1>11. CASE NewSession
  BY <1>11 DEF NewSession
<1>12. CASE UNCHANGED vars
  BY <1>3, <1>12 DEF vars, planVars, diskVars, histVars
<1>13. CASE Run \/ StartSut \/ ExecCommand \/ SetFault \/ ReadSuites
  BY <1>1, <1>13 DEF Run, StartSut, ExecCommand, SetFault, ReadSuites, Goto, Fail, planVars, diskVars, histVars
<1>14. CASE Collect
  BY <1>2, <1>14 DEF Collect, Goto, planVars, diskVars, schedVars, histVars
<1>15. CASE Again \/ LoopStopped \/ RuntimeExpires \/ RuntimeStop \/ ResetFault
  BY <1>1, <1>15 DEF Again, LoopStopped, RuntimeExpires, RuntimeStop, ResetFault, Goto, planVars, diskVars, histVars
<1>16. CASE Export \/ InnerStop
  BY <1>1, <1>16 DEF Export, InnerStop, Goto, planVars, diskVars, histVars
<1>17. CASE \E p \in Stoppers : Stop(p) \/ StopStep(p) \/ CtrlC(p)
  BY <1>1, <1>3, <1>17, StopsAreQuiet DEF planVars, diskVars, histVars
<1> QED
  BY <1>4, <1>5, <1>6, <1>8, <1>9, <1>10, <1>11, <1>12, <1>13, <1>14, <1>15, <1>16, <1>17, <1>18 DEF Next, RunStep

\* The plan is made once, and what was recorded stays so.
LEMMA CoverStep ==
    ASSUME Typed, RowsRecorded, CoverInv, [Next]_vars
    PROVE  CoverInv'
<1> USE DEF CoverInv
<1>1. CASE rpc' \notin Rounds
  BY <1>1
<1>2. CASE UNCHANGED <<plan, sess>> /\ recorded \subseteq recorded' /\ rpc \in Rounds
  BY <1>2 DEF PlanCovers
<1>3. CASE ReadSuites
  <2> DEFINE suites == FilterTests(RestoreTests(Found))
  <2> SUFFICES ASSUME rpc' \in Rounds, NEW i \in 1..Len(Found), NEW t \in Found[i].tests \cap Selected
               PROVE  \/ \E j \in 1..Len(plan') : plan'[j].name[1] = Found[i].name[1] /\ t \in plan'[j].tests
                      \/ \E x \in recorded' : x.sess < sess' /\ x.suite[1] = Found[i].name[1] /\ x.test = t
    BY DEF PlanCovers
  <2>1. plan' = ApplyIterate(suites) /\ UNCHANGED <<sess, recorded>>
    BY <1>3 DEF ReadSuites, Fail, Rounds, histVars
  <2>2. /\ suites \in Seq(SuiteSet) /\ Len(suites) = Len(Found)
        /\ suites[i].name = Found[i].name
        /\ suites[i].tests = {u \in Found[i].tests : <<Found[i].name, u>> \notin Restored} \cap Selected
    BY FilteredTyped
  <2>3. Found[i].name # <<>> /\ i \in 1..Len(Suites)
    <3>1. i \in 1..Len(Suites)
      BY FoundTyped
    <3>2. Found[i].name = <<Suites[i].name>>
      BY <3>1, FoundTyped
    <3> QED
      BY <3>1, <3>2
  <2> HIDE DEF suites
  <2>4. CASE <<Found[i].name, t>> \notin Restored
    <3>1. t \in suites[i].tests
      BY <2>2, <2>4
    <3>2. PICK j \in 1..Len(ApplyIterate(suites)) : /\ ApplyIterate(suites)[j].name[1] = suites[i].name[1]
                                                   /\ ApplyIterate(suites)[j].tests = suites[i].tests
      BY <2>2, <2>3, IterateCovers
    <3> QED
      BY <2>1, <2>2, <3>1, <3>2
  <2>5. CASE <<Found[i].name, t>> \in Restored
    <3>1. sess # 1 /\ <<Found[i].name, t>> \in executed[sess - 1]
      BY <2>5 DEF Restored
    <3>2. sess - 1 \in 1..Sessions /\ sess - 1 < sess
      <4>1. Sessions \in Nat /\ sess \in 1..Sessions
        BY SessionAssumption DEF Typed, Progress
      <4> QED
        BY <3>1, <4>1
    <3> DEFINE x == [sess |-> sess - 1, suite |-> Found[i].name, test |-> t]
    <3>3. x \in recorded
      BY <3>1, <3>2 DEF RowsRecorded
    <3>4. x.sess = sess - 1 /\ x.suite = Found[i].name /\ x.test = t
      OBVIOUS
    <3> HIDE DEF x
    <3> QED
      BY <2>1, <3>2, <3>3, <3>4
  <2> QED
    BY <2>4, <2>5
<1>4. CASE UNCHANGED vars
  BY <1>1, <1>2, <1>4 DEF vars, planVars, histVars
<1>5. CASE Run \/ StartSut \/ ExecCommand \/ SetFault \/ LoopStopped \/ RuntimeExpires \/ RuntimeStop
  BY <1>1, <1>5 DEF Run, StartSut, ExecCommand, SetFault, LoopStopped, RuntimeExpires, RuntimeStop, Goto, Fail, Rounds, histVars
<1>6. CASE Schedule \/ (\E t \in todo : RunTest(t) \/ RecordTest(t)) \/ SuiteExpires \/ SuiteDone \/ ScheduleFails
  BY <1>2, <1>6 DEF Schedule, RunTest, RecordTest, SuiteExpires, SuiteDone, ScheduleFails, quiet, planVars, Rounds, histVars
<1>7. CASE Collect \/ AppendExecuted \/ Again
  BY <1>2, <1>7 DEF Collect, AppendExecuted, Again, planVars, Rounds, histVars
<1>8. CASE ResetFault \/ Export \/ InnerStop
  BY <1>1, <1>8 DEF ResetFault, Export, InnerStop, Goto, Rounds, histVars
<1>9. CASE NewSession
  BY <1>1, <1>9 DEF NewSession, Rounds, histVars
<1>10. CASE \E p \in Stoppers : Stop(p) \/ StopStep(p) \/ CtrlC(p)
  BY <1>1, <1>2, <1>10, StopsAreQuiet DEF planVars, Rounds, histVars
<1> QED
  BY <1>3, <1>4, <1>5, <1>6, <1>7, <1>8, <1>9, <1>10 DEF Next, RunStep

\* Nothing is forgotten over a restore: a selected test is in the plan of the
\* restored session, or a session before it recorded it, however that session was
\* stopped, interrupted or failed; also with iterations and a runtime.  A suite
\* timeout is excepted: its CONF rows go to the executed file too.
THEOREM NothingIsForgotten ==
    ASSUME ~SuiteTimeout
    PROVE  Spec => []RestoredRan
<1>1. Init => RowsRecorded /\ CoverInv
  BY DEF Init, RowsRecorded, CoverInv, Rounds, histVars
<1>2. Typed /\ RowsRecorded /\ CoverInv /\ [Next]_vars => RowsRecorded' /\ CoverInv'
  BY RowsStep, CoverStep
<1>3. CoverInv /\ Typed => RestoredRan
  <2> SUFFICES ASSUME CoverInv, Typed, rpc = "loop"
               PROVE  RestoredRan
    BY DEF RestoredRan
  <2>1. DOMAIN Found = 1..Len(Found) /\ DOMAIN plan = 1..Len(plan)
    BY FoundTyped DEF Typed, SuitesTyped
  <2>2. PlanCovers
    BY DEF CoverInv, Rounds, histVars
  <2> QED
    BY <2>1, <2>2 DEF PlanCovers, RestoredRan
<1> QED
  BY <1>1, <1>2, <1>3, SessionTyped, PTL DEF Spec

\* Without iterations and a runtime, the names in the executed file are those the
\* next session looks for.
LEMMA SkipStep ==
    ASSUME Iterate = 1, ~Runtime, Typed, Past, SkipInv, [Next]_vars
    PROVE  SkipInv'
<1> USE DEF Typed, SkipInv
<1>0. ThisRound = plan
  BY RoundTyped
<1>1. CASE UNCHANGED <<sess, ran, executed>> /\ rpc' \notin Rounds
  BY <1>1 DEF RestoreSkips, Rounds, histVars
<1>2. CASE /\ UNCHANGED <<sess, ran, executed, schedVars, plan>>
           /\ rpc' = rpc \/ (rpc = "collect" /\ rpc' = "append")
  BY <1>2 DEF RestoreSkips, Rounds, schedVars, histVars
<1>3. CASE ReadSuites
  <2> DEFINE suites == FilterTests(RestoreTests(Found))
  <2>1. UNCHANGED <<sess, ran, executed>> /\ rpc' \in {"reset", "loop"}
    BY <1>3 DEF ReadSuites, Goto, Fail, diskVars, histVars
  <2>2. CASE rpc' = "reset"
    BY <1>1, <2>1, <2>2 DEF Rounds, histVars
  <2>3. CASE rpc' = "loop"
    <3>1. plan' = suites
      BY <1>3, <2>3 DEF ReadSuites, Fail, ApplyIterate
    <3>2. ASSUME NEW j \in 1..Len(plan')
          PROVE  /\ SuiteName(plan'[j].name)
                 /\ \A t \in plan'[j].tests : sess > 1 => <<plan'[j].name, t>> \notin executed[sess - 1]
      <4>1. j \in 1..Len(Found) /\ plan'[j].name = Found[j].name
        BY <3>1, FilteredTyped
      <4>2. \A t \in plan'[j].tests : <<Found[j].name, t>> \notin Restored
        BY <3>1, <4>1, FilteredTyped
      <4> QED
        BY <4>1, <4>2 DEF SuiteName, Restored
    <3>3. (\A i \in 1..Len(Found) : Found[i] = Found'[i]) /\ Len(Found) = Len(Found)'
      BY DEF Found
    <3> QED
      BY <2>1, <2>3, <3>2 DEF RestoreSkips
  <2> QED
    BY <2>1, <2>2, <2>3
<1>4. CASE Schedule
  <2>1. /\ rpc = "loop" /\ rpc' = "schedule" /\ UNCHANGED <<sess, ran, executed, plan>>
        /\ idx' = 1 /\ todo' = plan[1].tests /\ schedResults' = <<>>
    BY <1>0, <1>4 DEF Schedule, Goto, quiet, planVars, diskVars, histVars
  <2> QED
    BY <2>1 DEF RestoreSkips, Rounds, histVars
<1>5. ASSUME NEW t \in todo, RunTest(t)
      PROVE  SkipInv'
  <2> DEFINE new == [sess |-> sess, suite |-> plan[idx].name, test |-> t]
  <2>1. /\ rpc = "schedule" /\ rpc' = "schedule"
        /\ UNCHANGED <<sess, idx, schedResults, plan, executed>> /\ todo' \subseteq todo
        /\ ran' = ran \cup {new}
    BY <1>0, <1>5 DEF RunTest, quiet, planVars, diskVars, histVars
  <2>2. idx \in 1..Len(plan)
    BY <2>1 DEF ScheduleTyped, SuitesTyped
  <2>3. SuiteName(plan[idx].name) /\ (sess > 1 => <<plan[idx].name, t>> \notin executed[sess - 1])
    BY <2>1, <2>2 DEF Rounds, histVars
  <2>4. new.sess = sess /\ new.suite = plan[idx].name /\ new.test = t
    OBVIOUS
  <2> HIDE DEF new
  <2>5. ASSUME sess > 1, NEW line \in executed[sess - 1], line[1][1] = plan[idx].name[1], line[2] = t
        PROVE  FALSE
    <3>1. sess - 1 \in 1..Sessions
      <4>1. Sessions \in Nat /\ sess \in 1..Sessions
        BY SessionAssumption DEF Progress
      <4> QED
        BY <2>5, <4>1
    <3>2. PICK i \in 1..Len(Found) : line[1] = Found[i].name
      BY <2>5, <3>1 DEF SuiteName
    <3>3. PICK k \in 1..Len(Found) : plan[idx].name = Found[k].name
      BY <2>3 DEF SuiteName
    <3>4. line[1] = plan[idx].name
      BY <2>5, <3>2, <3>3, FoundTyped
    <3>5. line \in NameSet \X STRING
      BY <2>5, <3>1 DEF KeptTyped
    <3>6. line = <<plan[idx].name, t>>
      BY <2>5, <3>4, <3>5
    <3> QED
      BY <2>3, <2>5, <3>6
  <2>6. RestoreSkips'
    <3> SUFFICES ASSUME NEW x \in ran', x.sess > 1, NEW line \in executed[x.sess - 1]
                 PROVE  ~(line[1][1] = x.suite[1] /\ line[2] = x.test)
      BY <2>1 DEF RestoreSkips
    <3>1. CASE x \in ran
      BY <3>1 DEF RestoreSkips
    <3>2. CASE x = new
      BY <2>4, <2>5, <3>2
    <3> QED
      BY <2>1, <3>1, <3>2
  <2>7. \A x \in ran' : SuiteName(x.suite)
    BY <2>1, <2>3, <2>4
  <2> QED
    BY <2>1, <2>6, <2>7
<1>19. ASSUME NEW t \in todo, RecordTest(t)
       PROVE  SkipInv'
  BY <1>19 DEF RecordTest, quiet, planVars, diskVars, RestoreSkips
<1>6. CASE SuiteExpires
  BY <1>6 DEF SuiteExpires, quiet, planVars, diskVars, RestoreSkips, histVars
<1>7. ASSUME rpc = "schedule", schedResults' \in {schedResults, Recorded}, UNCHANGED <<sess, ran, executed, plan>>,
             rpc' \in {"schedule", "collect"}, rpc' = "schedule" => todo' \subseteq plan[idx'].tests
      PROVE  SkipInv'
  <2>1. ASSUME NEW i \in 1..Len(Recorded)
        PROVE  SuiteName(Recorded[i].name)
    <3>1. Len(schedResults) \in Nat /\ idx \in 1..Len(plan)
      BY <1>7 DEF ScheduleTyped
    <3>2. CASE i \in 1..Len(schedResults)
      BY <1>7, <3>2, RecordedTyped
    <3>3. CASE i = Len(schedResults) + 1
      <4>1. Recorded[i].name = plan[idx].name
        BY <1>0, <1>7, <3>3, RecordedTyped
      <4> QED
        BY <1>7, <3>1, <4>1 DEF Rounds, histVars
    <3> QED
      BY <1>7, <3>1, <3>2, <3>3, RecordedTyped
  <2>2. \A i \in 1..Len(schedResults') : SuiteName(schedResults'[i].name)
    BY <1>7, <2>1
  <2> QED
    BY <1>7, <2>2 DEF RestoreSkips, Rounds, histVars
<1>8. CASE SuiteDone
  <2>1. /\ rpc = "schedule" /\ schedResults' = Recorded /\ UNCHANGED <<sess, ran, executed, plan>>
        /\ rpc' \in {"schedule", "collect"}
    BY <1>8 DEF SuiteDone, quiet, planVars, diskVars, histVars
  <2>2. rpc' = "schedule" => todo' = plan[idx'].tests
    BY <1>0, <1>8 DEF SuiteDone
  <2> QED
    BY <1>7, <2>1, <2>2
<1>9. CASE ScheduleFails
  BY <1>7, <1>9 DEF ScheduleFails, quiet, planVars, diskVars, histVars
<1>10. CASE AppendExecuted
  <2>1. PICK L \in SUBSET Lines : executed' = [executed EXCEPT ![sess] = @ \cup L]
    BY <1>10 DEF AppendExecuted
  <2>2. UNCHANGED <<sess, ran>> /\ rpc' \notin Rounds /\ rpc = "append"
    BY <1>10 DEF AppendExecuted, planVars, Rounds, histVars
  <2>3. ASSUME NEW line \in L
        PROVE  SuiteName(line[1])
    <3>1. PICK i \in 1..Len(schedResults) :
              \E row \in schedResults[i].rows : line = <<schedResults[i].name, row.test>>
      BY LinesTyped
    <3>2. line[1] = schedResults[i].name
      BY <3>1
    <3> QED
      BY <2>2, <3>2
  <2>4. \A s \in 1..Sessions : \A line \in executed'[s] : line \in executed[s] \/ (s = sess /\ line \in L)
    BY <2>1 DEF KeptTyped
  <2>5. \A x \in ran : x.sess > 1 => executed'[x.sess - 1] = executed[x.sess - 1]
    <3> SUFFICES ASSUME NEW x \in ran, x.sess > 1 PROVE x.sess - 1 # sess
      BY <2>1 DEF KeptTyped
    <3>1. x.sess \in Nat /\ sess \in Nat /\ x.sess <= sess
      BY DEF KeptTyped, RanSet, Past, Progress
    <3> QED
      BY <3>1
  <2>6. RestoreSkips'
    BY <2>2, <2>5 DEF RestoreSkips
  <2>7. \A s \in 1..Sessions : \A line \in executed'[s] : SuiteName(line[1])
    BY <2>3, <2>4
  <2> QED
    BY <2>2, <2>6, <2>7 DEF Rounds, histVars
<1>11. CASE NewSession
  BY <1>11 DEF NewSession, RestoreSkips, Rounds, histVars
<1>12. CASE UNCHANGED vars
  BY <1>2, <1>12 DEF vars, planVars, diskVars, histVars
<1>13. CASE Run \/ StartSut \/ ExecCommand \/ SetFault
  BY <1>1, <1>13 DEF Run, StartSut, ExecCommand, SetFault, Goto, Fail, planVars, diskVars, Rounds, histVars
<1>14. CASE Collect
  BY <1>2, <1>14 DEF Collect, Goto, planVars, diskVars, schedVars, histVars
<1>15. CASE Again
  BY <1>15 DEF Again, Goto, planVars, diskVars, schedVars, RestoreSkips, Rounds, histVars
<1>16. CASE LoopStopped \/ RuntimeExpires \/ RuntimeStop \/ ResetFault
  BY <1>1, <1>16 DEF LoopStopped, RuntimeExpires, RuntimeStop, ResetFault, Goto, planVars, diskVars, Rounds, histVars
<1>17. CASE Export \/ InnerStop
  BY <1>1, <1>17 DEF Export, InnerStop, Goto, planVars, diskVars, Rounds, histVars
<1>18. CASE \E p \in Stoppers : Stop(p) \/ StopStep(p) \/ CtrlC(p)
  BY <1>1, <1>2, <1>18, StopsAreQuiet DEF planVars, diskVars, Rounds, histVars
<1> QED
  BY <1>3, <1>4, <1>5, <1>6, <1>8, <1>9, <1>10, <1>11, <1>12, <1>13, <1>14, <1>15, <1>16, <1>17, <1>18, <1>19
     DEF Next, RunStep

\* Nothing is run twice over a restore: a restored session runs no test that the
\* executed file of the last session names, if it neither iterates nor has a runtime
\* (whose renamed suites the file does not match).
THEOREM NothingRunsTwice ==
    ASSUME Iterate = 1, ~Runtime
    PROVE  Spec => []RestoreSkips
<1>1. Init => SkipInv
  BY DEF Init, SkipInv, RestoreSkips, Rounds, histVars
<1>2. Typed /\ Past /\ SkipInv /\ [Next]_vars => SkipInv'
  BY SkipStep
<1>3. SkipInv => RestoreSkips
  BY DEF SkipInv
<1> QED
  BY <1>1, <1>2, <1>3, PastHolds, PTL DEF Spec
==============================================================================
