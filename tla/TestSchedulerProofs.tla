------------------------ MODULE TestSchedulerProofs ------------------------
(***************************************************************************)
(* Theorems about TestScheduler for every set of tests, every number of    *)
(* workers and every number of callers of stop().                          *)
(***************************************************************************)
EXTENDS TestScheduler, FiniteSetTheorems, TLAPS

\* No operation of the scheduler, no stop() and nothing the SUT does takes a
\* variable out of its type.
LEMMA TypeStep ==
    ASSUME TypeOK, [Next]_vars
    PROVE  TypeOK'
<1> USE ConstantsAssumption DEF TypeOK, PCs, OnSut, Statuses, KernelErrors, Returns,
        roundVars, testVars, semVars, stopVars, sutVars
<1>1. CASE ScheduleEmpty
  BY <1>1 DEF ScheduleEmpty
<1>2. ASSUME NEW T \in SUBSET Tests, Schedule(T) PROVE TypeOK'
  BY <1>2 DEF Schedule, BeginPhase
<1>3. CASE BeginSequential
  BY <1>3 DEF BeginSequential, BeginPhase
<1>4. CASE Return
  BY <1>4 DEF Return
<1>5. CASE Drop
  BY <1>5 DEF Drop
<1>6. ASSUME NEW t \in Tests, Task(t) PROVE TypeOK'
  <2> USE DEF taskUnchanged, Finish, MoveTo
  <2>1. CASE Check(t) BY <2>1 DEF Check
  <2>2. CASE Acquire(t) BY <2>2 DEF Acquire
  <2>3. CASE TaintBefore(t) BY <2>3 DEF TaintBefore
  <2>4. CASE RunCommand(t) BY <2>4 DEF RunCommand
  <2>5. CASE Timeout(t) BY <2>5 DEF Timeout
  <2>6. CASE Ping(t) BY <2>6 DEF Ping
  <2>7. CASE TaintAfter(t) BY <2>7 DEF TaintAfter
  <2>8. CASE ReadResult(t) BY <2>8 DEF ReadResult
  <2>9. CASE Record(t) BY <2>9 DEF Record
  <2> QED BY <1>6, <2>1, <2>2, <2>3, <2>4, <2>5, <2>6, <2>7, <2>8, <2>9 DEF Task
<1>7. ASSUME NEW t \in Tests, LatePush(t) PROVE TypeOK'
  BY <1>7 DEF LatePush
<1>8. ASSUME NEW p \in Stoppers, StopBegin(p) \/ Stop(p) PROVE TypeOK'
  <2> USE DEF stopUnchanged
  <2>1. CASE StopBegin(p) BY <2>1 DEF StopBegin
  <2>2. CASE StopSut(p) BY <2>2 DEF StopSut
  <2>3. CASE StopClone(p) BY <2>3 DEF StopClone
  <2>4. CASE StopAcquire(p) BY <2>4 DEF StopAcquire
  <2>5. CASE StopLock(p) BY <2>5 DEF StopLock
  <2>6. CASE StopReset(p) BY <2>6 DEF StopReset
  <2> QED BY <1>8, <2>1, <2>2, <2>3, <2>4, <2>5, <2>6 DEF Stop
<1>9. CASE Environment
  BY <1>9 DEF Environment, KernelTaint, KernelPanic, KernelHang, envUnchanged
<1>10. CASE SutRestart
  BY <1>10 DEF SutRestart, envUnchanged
<1>11. CASE UNCHANGED vars
  BY <1>11 DEF vars
<1> QED
  BY <1>1, <1>2, <1>3, <1>4, <1>5, <1>6, <1>7, <1>8, <1>9, <1>10, <1>11 DEF Next, Driver

\* A new TestScheduler is well typed.
LEMMA TypeInit == Init => TypeOK
<1> SUFFICES ASSUME Init PROVE TypeOK
  OBVIOUS
<1>1. 0 \in 0..MaxTaint
  BY ConstantsAssumption
<1>2. stopped \in BOOLEAN /\ stopSeen \in BOOLEAN
  BY DEF Init
<1> QED BY <1>1, <1>2 DEF Init, TypeOK, Statuses, Returns, PCs, OnSut, KernelErrors

\* The type invariant holds in every reachable state of a TestScheduler.
THEOREM TypeCorrect == Spec => []TypeOK
<1>1. ASSUME TypeOK, [Next]_vars PROVE TypeOK'
  BY <1>1, TypeStep
<1> QED BY <1>1, TypeInit, PTL DEF Spec

-----------------------------------------------------------------------------
(* Worker slots *)

\* Which tests have a task in a phase, and that run_sequential drives one
\* run_one at a time: what PermitsConserved and WorkersBounded rest on.
PhaseInv ==
    /\ phase = "idle" => \A t \in Tests : pc[t] = "idle"
    /\ phase = "parallel" => \A t \in Tests : pc[t] # "idle" => t \in ParallelPart(round)
    /\ phase = "sequential" => \A t, u \in Active : t = u

\* The four things a step of run_one can do with its permit: stay without one,
\* take one, keep it, give it back.
TaskShape(t) ==
    /\ UNCHANGED <<phase, round>>
    /\ \/ /\ pc[t] = "pending"
          /\ phase = "sequential" => Active = {}
          /\ \E x \in {"acquire", "done"} : pc' = [pc EXCEPT ![t] = x]
          /\ permits' = permits
       \/ /\ pc[t] = "acquire"
          /\ pc' = [pc EXCEPT ![t] = "done"]
          /\ permits' = permits
       \/ /\ pc[t] = "acquire"
          /\ pc' = [pc EXCEPT ![t] = "before"]
          /\ permits > 0 /\ permits' = permits - 1
       \/ /\ pc[t] \in OnSut
          /\ \E x \in OnSut : pc' = [pc EXCEPT ![t] = x]
          /\ permits' = permits
       \/ /\ pc[t] \in OnSut
          /\ pc' = [pc EXCEPT ![t] = "done"]
          /\ permits' = permits + 1

\* Every step of run_one, on every one of its early returns, has that shape.
LEMMA TaskHasShape ==
    ASSUME NEW t \in Tests, Task(t), TypeOK
    PROVE  TaskShape(t)
<1> USE DEF TaskShape, taskUnchanged, Finish, MoveTo, OnSut
<1>1. CASE Check(t) BY <1>1 DEF Check
<1>2. CASE Acquire(t) BY <1>2 DEF Acquire
<1>3. CASE TaintBefore(t) BY <1>3 DEF TaintBefore
<1>4. CASE RunCommand(t) BY <1>4 DEF RunCommand
<1>5. CASE Timeout(t) BY <1>5 DEF Timeout
<1>6. CASE Ping(t) BY <1>6 DEF Ping
<1>7. CASE TaintAfter(t) BY <1>7 DEF TaintAfter
<1>8. CASE ReadResult(t) BY <1>8 DEF ReadResult
<1>9. CASE Record(t) BY <1>9 DEF Record
<1> QED BY <1>1, <1>2, <1>3, <1>4, <1>5, <1>6, <1>7, <1>8, <1>9 DEF Task

\* The holders of a permit are finitely many.
LEMMA HoldingFinite == IsFiniteSet(Holding) /\ Cardinality(Holding) \in Nat
  BY ConstantsAssumption, FS_Subset, FS_CardinalityType DEF Holding

\* A step of run_one conserves the permits of its phase.
LEMMA TaskConserves ==
    ASSUME NEW t \in Tests, TaskShape(t), TypeOK, PermitsConserved
    PROVE  PermitsConserved'
<1>1. Capacity' = Capacity /\ phase' = phase
  BY DEF TaskShape, Capacity
<1>2. CASE Holding' = Holding /\ permits' = permits
  BY <1>1, <1>2 DEF PermitsConserved
<1>3. CASE Holding' = Holding \cup {t} /\ t \notin Holding /\ permits' = permits - 1
  <2>1. Cardinality(Holding') = Cardinality(Holding) + 1
    BY <1>3, HoldingFinite, FS_AddElement
  <2> QED BY <1>1, <1>3, <2>1, HoldingFinite DEF PermitsConserved, TypeOK
<1>4. CASE Holding' = Holding \ {t} /\ t \in Holding /\ permits' = permits + 1
  <2>1. Cardinality(Holding') = Cardinality(Holding) - 1
    BY <1>4, HoldingFinite, FS_RemoveElement
  <2> QED BY <1>1, <1>4, <2>1, HoldingFinite DEF PermitsConserved, TypeOK
<1>5. \/ Holding' = Holding /\ permits' = permits
      \/ Holding' = Holding \cup {t} /\ t \notin Holding /\ permits' = permits - 1
      \/ Holding' = Holding \ {t} /\ t \in Holding /\ permits' = permits + 1
  BY DEF TaskShape, Holding, TypeOK, OnSut
<1> QED BY <1>2, <1>3, <1>4, <1>5

\* A phase begins with every permit of its fresh semaphore available.
LEMMA PhaseConserves ==
    ASSUME NEW T, NEW name \in {"parallel", "sequential"},
           BeginPhase(name, T, IF name = "parallel" THEN MaxWorkers ELSE 1)
    PROVE  PermitsConserved' /\ Holding' = {} /\ Active' = {}
<1>1. Holding' = {} /\ Active' = {}
  BY DEF BeginPhase, Holding, Active, OnSut
<1> QED BY <1>1, FS_EmptySet, ConstantsAssumption DEF PermitsConserved, BeginPhase, Capacity

SlotInv == TypeOK /\ PhaseInv /\ PermitsConserved

\* What stop(), the SUT and a late result leave alone keeps the slots' state.
LEMMA SlotFrame ==
    ASSUME PhaseInv, PermitsConserved, UNCHANGED <<phase, round, pc, permits>>
    PROVE  PhaseInv' /\ PermitsConserved'
  BY DEF PhaseInv, PermitsConserved, Capacity, Active, Holding

\* The permits of a phase and the shape of its tasks are preserved by every step.
THEOREM SlotInvariant == Spec => []SlotInv
<1>1. Init => PhaseInv /\ PermitsConserved
  BY DEF Init, PhaseInv, PermitsConserved
<1>2. ASSUME SlotInv, [Next]_vars PROVE PhaseInv' /\ PermitsConserved'
  <2> USE <1>2 DEF SlotInv
  <2>1. CASE ScheduleEmpty
    BY <2>1, SlotFrame DEF ScheduleEmpty, testVars, semVars
  <2>2. ASSUME NEW T \in SUBSET Tests, Schedule(T) PROVE PhaseInv' /\ PermitsConserved'
    <3>1. CASE ParallelPart(T) # {}
      <4>1. BeginPhase("parallel", ParallelPart(T), MaxWorkers) /\ round' = T
        BY <2>2, <3>1 DEF Schedule
      <4>2. PermitsConserved'
        BY <4>1, PhaseConserves
      <4>3. PhaseInv'
        BY <4>1 DEF BeginPhase, PhaseInv, ParallelPart
      <4> QED BY <4>2, <4>3
    <3>2. CASE ParallelPart(T) = {}
      <4>1. BeginPhase("sequential", T, 1)
        BY <2>2, <3>2 DEF Schedule
      <4>2. PermitsConserved' /\ Active' = {}
        BY <4>1, PhaseConserves
      <4>3. PhaseInv'
        BY <4>1, <4>2 DEF BeginPhase, PhaseInv
      <4> QED BY <4>2, <4>3
    <3> QED BY <3>1, <3>2
  <2>3. CASE BeginSequential
    <3>1. BeginPhase("sequential", round \ ParallelPart(round), 1)
      BY <2>3 DEF BeginSequential
    <3>2. PermitsConserved' /\ Active' = {}
      BY <3>1, PhaseConserves
    <3> QED BY <3>1, <3>2 DEF BeginPhase, PhaseInv
  <2>4. CASE Return \/ Drop
    BY <2>4 DEF Return, Drop, PhaseInv, PermitsConserved
  <2>5. ASSUME NEW t \in Tests, Task(t) PROVE PhaseInv' /\ PermitsConserved'
    <3>1. TaskShape(t)
      BY <2>5, TaskHasShape
    <3>2. PermitsConserved'
      BY <3>1, TaskConserves
    <3>3. PhaseInv'
      <4>1. phase' = phase /\ round' = round /\ pc[t] # "idle"
        BY <3>1 DEF TaskShape, OnSut
      <4>2. \A u \in Tests : u # t => pc'[u] = pc[u]
        BY <3>1 DEF TaskShape, TypeOK
      <4>3. phase = "sequential" => Active' \subseteq {t} \cup Active
        BY <4>2 DEF Active
      <4>4. phase = "sequential" => Active \subseteq {t}
        BY <3>1 DEF TaskShape, Active, PhaseInv
      <4> QED BY <4>1, <4>2, <4>3, <4>4 DEF PhaseInv, ParallelPart
    <3> QED BY <3>2, <3>3
  <2>6. ASSUME NEW t \in Tests, LatePush(t) PROVE PhaseInv' /\ PermitsConserved'
    BY <2>6, SlotFrame DEF LatePush, roundVars, testVars, semVars
  <2>7. ASSUME NEW p \in Stoppers, StopBegin(p) \/ Stop(p)
        PROVE  PhaseInv' /\ PermitsConserved'
    <3>1. UNCHANGED <<phase, round, pc, permits>>
      BY <2>7 DEF StopBegin, Stop, StopSut, StopClone, StopAcquire, StopLock, StopReset,
                  stopUnchanged, roundVars, testVars
    <3> QED BY <3>1, SlotFrame
  <2>8. CASE Environment \/ SutRestart
    BY <2>8, SlotFrame DEF Environment, KernelTaint, KernelPanic, KernelHang, SutRestart,
                           envUnchanged, roundVars, testVars, semVars
  <2>9. CASE UNCHANGED vars
    BY <2>9, SlotFrame DEF vars, roundVars, testVars, semVars
  <2> QED
    BY <2>1, <2>2, <2>3, <2>4, <2>5, <2>6, <2>7, <2>8, <2>9 DEF Next, Driver
<1> QED BY <1>1, <1>2, TypeCorrect, PTL DEF Spec, SlotInv

\* Slots are neither leaked nor invented, for any number of workers and tests:
\* a permit that a path of run_one failed to return would starve the round
\* and every stop() that waits for one.
THEOREM SlotsConserved == Spec => []PermitsConserved
<1>1. SlotInv => PermitsConserved
  BY DEF SlotInv
<1> QED BY <1>1, SlotInvariant, PTL

\* At most max_workers tests are on the SUT, a test that is not parallelizable
\* is there alone, and no test is there between two rounds.
THEOREM WorkersAreBounded == Spec => []WorkersBounded
<1>1. SlotInv => WorkersBounded
  <2> SUFFICES ASSUME SlotInv PROVE WorkersBounded
    OBVIOUS
  <2>1. phase = "idle" => Holding = {}
    BY DEF SlotInv, PhaseInv, Holding, OnSut
  <2>2. Cardinality(Holding) <= MaxWorkers
    <3>1. CASE phase = "idle"
      BY <3>1, <2>1, FS_EmptySet, ConstantsAssumption
    <3>2. CASE phase # "idle"
      BY <3>2, HoldingFinite, ConstantsAssumption
         DEF SlotInv, PermitsConserved, Capacity, TypeOK
    <3> QED BY <3>1, <3>2
  <2>3. ASSUME NEW t \in Holding, t \notin Parallel PROVE Holding = {t}
    <3>1. phase # "parallel"
      BY <2>3 DEF SlotInv, PhaseInv, ParallelPart, Holding, OnSut
    <3>2. phase = "sequential"
      BY <2>1, <2>3, <3>1 DEF SlotInv, TypeOK
    <3>3. Holding \subseteq Active
      BY DEF Holding, Active
    <3> QED BY <2>3, <3>2, <3>3 DEF SlotInv, PhaseInv
  <2> QED BY <2>1, <2>2, <2>3 DEF WorkersBounded
<1> QED BY <1>1, SlotInvariant, PTL

-----------------------------------------------------------------------------
(* TestScheduler implements TestRound *)

\* Every task belongs to the round; a stop in progress has been noticed; late
\* results come from dropped rounds only.
RoundShape ==
    /\ \A t \in Tests : pc[t] # "idle" => t \in round
    /\ stopCnt > 0 => stopSeen
    /\ late # {} => Cancellable

\* On a SUT that never panics a kernel error has left a result, and a test
\* that is done in an undisturbed round has one.
Recorded(t) == results[t] > 0

RoundProgress ==
    /\ sut # "panicked"
    /\ err \in KernelErrors => \E t \in Tests : Recorded(t)
    /\ phase = "parallel" => \A t \in ParallelPart(round) : pc[t] # "idle"
    /\ phase = "sequential" => \A t \in round \ ParallelPart(round) : pc[t] # "idle"
    /\ err = "none" /\ ~stopSeen => \A t \in Tests : pc[t] = "done" => Recorded(t)
    /\ phase = "sequential" /\ ~stopSeen => \A t \in ParallelPart(round) : Recorded(t)

RoundInv == RoundShape /\ (~MayPanic => RoundProgress)

\* What a step of run_one does to the round: it ends with or without an error
\* and a result, or it goes on.
TaskEffect(t) ==
    /\ UNCHANGED <<phase, round, late, stopCnt, stopSeen, sut, ret>>
    /\ pc[t] # "idle"
    /\ \E x \in PCs \ {"idle"} : pc' = [pc EXCEPT ![t] = x]
    /\ \/ pc'[t] # "done" /\ UNCHANGED <<err, results>>
       \/ /\ pc'[t] = "done" /\ UNCHANGED results
          /\ err' = err
          /\ stopCnt > 0 \/ sut = "panicked"
       \/ /\ UNCHANGED results
          /\ err' = IF err = "none" THEN "Fatal" ELSE err
       \/ /\ UNCHANGED results
          /\ sut = "panicked" /\ err' = IF err = "none" THEN "KernelPanic" ELSE err
       \/ /\ pc[t] = "record"
          /\ results' = [results EXCEPT ![t] = @ + 1]
          /\ err' = IF err = "none" /\ status[t] \in KernelErrors THEN status[t] ELSE err

\* Every step of run_one has one of these effects.
LEMMA TaskHasEffect ==
    ASSUME NEW t \in Tests, Task(t), TypeOK
    PROVE  TaskEffect(t)
<1> USE DEF TaskEffect, taskUnchanged, stopVars, sutVars, Finish, MoveTo, PCs, OnSut, TypeOK
<1>1. CASE Check(t) BY <1>1 DEF Check
<1>2. CASE Acquire(t) BY <1>2 DEF Acquire
<1>3. CASE TaintBefore(t) BY <1>3 DEF TaintBefore
<1>4. CASE RunCommand(t) BY <1>4 DEF RunCommand
<1>5. CASE Timeout(t) BY <1>5 DEF Timeout
<1>6. CASE Ping(t) BY <1>6 DEF Ping
<1>7. CASE TaintAfter(t) BY <1>7 DEF TaintAfter
<1>8. CASE ReadResult(t) BY <1>8 DEF ReadResult
<1>9. CASE Record(t) BY <1>9 DEF Record
<1> QED BY <1>1, <1>2, <1>3, <1>4, <1>5, <1>6, <1>7, <1>8, <1>9 DEF Task

\* A step of run_one keeps the invariant of the round.
LEMMA TaskKeepsRound ==
    ASSUME NEW t \in Tests, TaskEffect(t), TypeOK, RoundInv
    PROVE  RoundInv'
<1>1. RoundShape'
  BY DEF TaskEffect, TypeOK, RoundInv, RoundShape
<1>2. ASSUME ~MayPanic PROVE RoundProgress'
  <2> USE <1>2 DEF RoundInv, TaskEffect, TypeOK, Recorded
  <2>1. RoundProgress /\ sut' # "panicked"
    BY DEF RoundProgress
  <2>2. \A u \in Tests : Recorded(u) => Recorded(u)'
    OBVIOUS
  <2>3. err' \in KernelErrors => \E u \in Tests : Recorded(u)'
    BY <2>1, <2>2 DEF RoundProgress, KernelErrors
  <2>4. \A u \in Tests : pc[u] # "idle" => pc'[u] # "idle"
    BY DEF PCs, OnSut
  <2>5. /\ phase' = "parallel" => \A u \in ParallelPart(round)' : pc'[u] # "idle"
        /\ phase' = "sequential" => \A u \in round' \ ParallelPart(round)' : pc'[u] # "idle"
    BY <2>1, <2>4, ConstantsAssumption DEF RoundProgress, ParallelPart
  <2>6. ASSUME err' = "none", ~stopSeen', NEW u \in Tests, pc'[u] = "done"
        PROVE  Recorded(u)'
    BY <2>1, <2>2, <2>6 DEF RoundProgress, RoundShape, KernelErrors
  <2>7. phase' = "sequential" /\ ~stopSeen' => \A u \in ParallelPart(round)' : Recorded(u)'
    BY <2>1, <2>2, ConstantsAssumption DEF RoundProgress, ParallelPart
  <2> QED BY <2>1, <2>3, <2>5, <2>6, <2>7 DEF RoundProgress
<1> QED BY <1>1, <1>2 DEF RoundInv

\* The invariant of the round holds in every reachable state.
THEOREM RoundInvariant == Spec => []RoundInv
<1>1. Init => RoundInv
  BY DEF Init, RoundInv, RoundShape, RoundProgress, KernelErrors
<1>2. ASSUME SlotInv, RoundInv, [Next]_vars PROVE RoundInv'
  <2> USE <1>2 DEF RoundInv, RoundShape, RoundProgress, Recorded, SlotInv
  <2>1. CASE ScheduleEmpty
    BY <2>1 DEF ScheduleEmpty, testVars, stopVars, sutVars, ParallelPart
  <2>2. ASSUME NEW T \in SUBSET Tests, Schedule(T) PROVE RoundInv'
    BY <2>2, ConstantsAssumption
       DEF Schedule, BeginPhase, ParallelPart, stopVars, sutVars, KernelErrors, TypeOK
  <2>3. CASE BeginSequential
    BY <2>3, ConstantsAssumption
       DEF BeginSequential, BeginPhase, ParallelJoined, ParallelPart, stopVars, sutVars, TypeOK
  <2>4. CASE Return
    BY <2>4 DEF Return, stopVars, sutVars, TypeOK
  <2>5. CASE Drop
    BY <2>5 DEF Drop, stopVars, sutVars, TypeOK
  <2>6. ASSUME NEW t \in Tests, Task(t) PROVE RoundInv'
    BY <2>6, TaskHasEffect, TaskKeepsRound
  <2>7. ASSUME NEW t \in Tests, LatePush(t) PROVE RoundInv'
    <3>1. \A u \in Tests : Recorded(u) => Recorded(u)'
      BY <2>7 DEF LatePush, TypeOK
    <3> QED BY <2>7, <3>1, ConstantsAssumption
            DEF LatePush, roundVars, testVars, stopVars, sutVars, ParallelPart
  <2>8. ASSUME NEW p \in Stoppers, StopBegin(p) \/ Stop(p) PROVE RoundInv'
    <3> USE DEF stopUnchanged, roundVars, testVars, sutVars, ParallelPart
    <3>1. CASE StopBegin(p) BY <3>1 DEF StopBegin
    <3>2. CASE StopSut(p) BY <3>2 DEF StopSut
    <3>3. CASE StopClone(p) BY <3>3 DEF StopClone
    <3>4. CASE StopAcquire(p) BY <3>4 DEF StopAcquire
    <3>5. CASE StopLock(p) BY <3>5 DEF StopLock
    <3>6. CASE StopReset(p) BY <3>6 DEF StopReset
    <3> QED BY <2>8, <3>1, <3>2, <3>3, <3>4, <3>5, <3>6 DEF Stop
  <2>9. CASE Environment \/ SutRestart
    BY <2>9 DEF Environment, KernelTaint, KernelPanic, KernelHang, SutRestart, envUnchanged,
                roundVars, testVars, stopVars, ParallelPart
  <2>10. CASE UNCHANGED vars
    BY <2>10 DEF vars, roundVars, testVars, stopVars, sutVars, ParallelPart
  <2> QED
    BY <2>1, <2>2, <2>3, <2>4, <2>5, <2>6, <2>7, <2>8, <2>9, <2>10 DEF Next, Driver
<1> QED BY <1>1, <1>2, SlotInvariant, PTL DEF Spec

\* On a SUT that never panics, a schedule() that returns Ok with no stop asked
\* for has a row for every test of its round.
LEMMA OkReturnIsComplete ==
    ASSUME SlotInv, RoundInv, Return, ret' = "Ok", ~stopSeen, ~MayPanic, NEW t \in round
    PROVE  Recorded(t)
<1>1. err = "none" /\ t \in Tests /\ RoundProgress
  BY DEF Return, RoundInv, RoundShape, SlotInv, TypeOK, KernelErrors
<1>2. CASE SequentialDone
  <2>1. pc[t] \in {"idle", "done"} /\ phase = "sequential"
    BY <1>1, <1>2 DEF SequentialDone, Active, SlotInv, TypeOK, PCs
  <2> QED BY <1>1, <2>1 DEF RoundProgress
<1>3. CASE ParallelJoined /\ round = ParallelPart(round)
  BY <1>1, <1>3 DEF ParallelJoined, RoundProgress
<1> QED BY <1>1, <1>2, <1>3 DEF Return, RoundDriven

RecordedTests == {t \in Tests : results[t] > 0}

\* A step that leaves what the caller can see alone is a stutter of TestRound.
LEMMA ContractFrame ==
    ASSUME UNCHANGED <<phase, round, results, ret, stopSeen>>
    PROVE  UNCHANGED Contract!vars
  BY DEF Contract!vars

\* schedule(), with its phases, semaphores, tasks, timeouts and concurrent
\* stop() calls, implements the contract its caller relies on: one round at a
\* time, results of the round's own tests only, nothing recorded between
\* rounds unless a round was dropped, and, on a SUT that does not panic, an Ok
\* that means every test was run unless a stop explains it and a kernel error
\* only with a result that shows it.
THEOREM ImplementsTestRound == Spec => RefinesTestRound
<1>1. Init => Contract!Init
  BY DEF Init, Contract!Init
<1>2. ASSUME SlotInv, RoundInv, [Next]_vars PROVE [Contract!Next]_(Contract!vars)
  <2> USE <1>2
  <2>1. CASE ScheduleEmpty
    BY <2>1 DEF ScheduleEmpty, Contract!Next, Contract!Refuse
  <2>2. ASSUME NEW T \in SUBSET Tests, Schedule(T) PROVE Contract!Next
    <3>1. Contract!Begin(T)
      BY <2>2 DEF Schedule, BeginPhase, Contract!Begin
    <3> QED BY <3>1 DEF Contract!Next
  <2>3. CASE BeginSequential
    <3>1. UNCHANGED <<round, results, ret, stopSeen>> /\ (phase # "idle") /\ (phase' # "idle")
      BY <2>3 DEF BeginSequential, BeginPhase, ParallelJoined
    <3> QED BY <3>1 DEF Contract!vars
  <2>4. CASE Return
    <3>1. PICK r \in Contract!Errors \cup {"Ok", "Fatal"} :
             r = IF err # "none" /\ stopCnt = 0 THEN err ELSE "Ok"
      BY DEF SlotInv, TypeOK, KernelErrors, Contract!Errors
    <3>2. r \in Contract!Errors /\ ~MayPanic => RecordedTests # {}
      BY <3>1 DEF RoundInv, RoundProgress, Recorded, RecordedTests, KernelErrors, Contract!Errors
    <3>3. ASSUME r = "Ok", ~stopSeen, ~MayPanic, NEW t \in round PROVE t \in RecordedTests
      BY <2>4, <3>1, <3>3, OkReturnIsComplete
         DEF Return, RecordedTests, Recorded, SlotInv, TypeOK
    <3>4. phase # "idle" /\ phase' = "idle" /\ ret' = r /\ UNCHANGED <<round, results, stopSeen>>
      BY <2>4, <3>1 DEF Return, RoundDriven, SequentialDone, ParallelJoined
    <3>5. Contract!End(r)
      BY <3>2, <3>3, <3>4 DEF Contract!End, RecordedTests
    <3> QED BY <3>5 DEF Contract!Next
  <2>5. CASE Drop
    BY <2>5 DEF Drop, Contract!Next, Contract!Cancelled
  <2>6. ASSUME NEW t \in Tests, Task(t) PROVE [Contract!Next]_(Contract!vars)
    <3>1. TaskEffect(t)
      BY <2>6, TaskHasEffect DEF SlotInv
    <3>2. CASE UNCHANGED results
      BY <3>1, <3>2, ContractFrame DEF TaskEffect
    <3>3. CASE pc[t] = "record" /\ results' = [results EXCEPT ![t] = @ + 1]
      <4>1. t \in round /\ phase # "idle"
        BY <3>3 DEF RoundInv, RoundShape, SlotInv, PhaseInv
      <4>2. RecordedTests' = RecordedTests \cup {t}
        BY <3>3 DEF SlotInv, TypeOK, RecordedTests
      <4>3. Contract!Push(t)
        BY <3>1, <4>1, <4>2 DEF TaskEffect, Contract!Push, RecordedTests
      <4> QED BY <4>3 DEF Contract!Next
    <3> QED BY <3>1, <3>2, <3>3 DEF TaskEffect
  <2>7. ASSUME NEW t \in Tests, LatePush(t) PROVE Contract!Next
    <3>1. Cancellable
      BY <2>7 DEF LatePush, RoundInv, RoundShape
    <3>2. RecordedTests' = RecordedTests \cup {t}
      BY <2>7 DEF LatePush, SlotInv, TypeOK, RecordedTests
    <3>3. Contract!Straggler(t)
      BY <2>7, <3>2 DEF LatePush, roundVars, Contract!Straggler, RecordedTests
    <3> QED BY <3>1, <3>3 DEF Contract!Next
  <2>8. ASSUME NEW p \in Stoppers, StopBegin(p) PROVE Contract!Next
    BY <2>8 DEF StopBegin, stopUnchanged, roundVars, Contract!Next, Contract!StopRequested
  <2>9. ASSUME NEW p \in Stoppers, Stop(p) PROVE UNCHANGED Contract!vars
    BY <2>9, ContractFrame
       DEF Stop, StopSut, StopClone, StopAcquire, StopLock, StopReset, stopUnchanged, roundVars
  <2>10. CASE Environment \/ SutRestart
    BY <2>10, ContractFrame
       DEF Environment, KernelTaint, KernelPanic, KernelHang, SutRestart, envUnchanged, roundVars
  <2>11. CASE UNCHANGED vars
    BY <2>11, ContractFrame DEF vars, roundVars
  <2> QED
    BY <2>1, <2>2, <2>3, <2>4, <2>5, <2>6, <2>7, <2>8, <2>9, <2>10, <2>11 DEF Next, Driver
<1> QED
  BY <1>1, <1>2, SlotInvariant, RoundInvariant, PTL DEF Spec, RefinesTestRound, Contract!Spec

-----------------------------------------------------------------------------
(* What a round leaves behind *)

\* Where a test is in its run_one tells how far its row is: it has none before
\* the push, its events precede the push, and the tests that wait for the
\* sequential phase have none.
RowInv ==
    /\ late = {}
    /\ \A t \in Tests :
          /\ pc[t] \notin {"idle", "done"} => results[t] = 0
          /\ pc[t] \in OnSut => t \in started
          /\ pc[t] = "record" => t \in completed
    /\ phase = "parallel" => \A t \in Tests \ ParallelPart(round) : results[t] = 0

\* What a step of run_one does to the row and the events of its test.
RowEffect(t) ==
    /\ UNCHANGED <<phase, round, late>>
    /\ pc[t] \notin {"idle", "done"}
    /\ \E x \in PCs \ {"idle"} : pc' = [pc EXCEPT ![t] = x]
    /\ started' \in {started, started \cup {t}}
    /\ completed' \in {completed, completed \cup {t}}
    /\ pc'[t] \in OnSut => pc[t] \in OnSut \/ t \in started'
    /\ pc'[t] = "record" => t \in completed'
    /\ \/ UNCHANGED results
       \/ pc[t] = "record" /\ pc'[t] = "done" /\ results' = [results EXCEPT ![t] = @ + 1]

\* Every step of run_one has that effect.
LEMMA TaskHasRowEffect ==
    ASSUME NEW t \in Tests, Task(t), TypeOK
    PROVE  RowEffect(t)
<1> USE DEF RowEffect, taskUnchanged, Finish, MoveTo, PCs, OnSut, TypeOK
<1>1. CASE Check(t) BY <1>1 DEF Check
<1>2. CASE Acquire(t) BY <1>2 DEF Acquire
<1>3. CASE TaintBefore(t) BY <1>3 DEF TaintBefore
<1>4. CASE RunCommand(t) BY <1>4 DEF RunCommand
<1>5. CASE Timeout(t) BY <1>5 DEF Timeout
<1>6. CASE Ping(t) BY <1>6 DEF Ping
<1>7. CASE TaintAfter(t) BY <1>7 DEF TaintAfter
<1>8. CASE ReadResult(t) BY <1>8 DEF ReadResult
<1>9. CASE Record(t) BY <1>9 DEF Record
<1> QED BY <1>1, <1>2, <1>3, <1>4, <1>5, <1>6, <1>7, <1>8, <1>9 DEF Task

\* The progress of the rows is preserved by every step but the drop of a
\* schedule() future, whose last rows may fall into the next round.
LEMMA RowStep ==
    ASSUME SlotInv, RoundInv, RowInv, ResultsOnce, [Next]_vars, ~Drop
    PROVE  (RowInv /\ ResultsOnce)'
<1>1. CASE ScheduleEmpty
  BY <1>1 DEF ScheduleEmpty, testVars, RowInv, ResultsOnce, ParallelPart
<1>2. ASSUME NEW T \in SUBSET Tests, Schedule(T) PROVE (RowInv /\ ResultsOnce)'
  BY <1>2 DEF Schedule, BeginPhase, RowInv, ResultsOnce, OnSut
<1>3. CASE BeginSequential
  BY <1>3 DEF BeginSequential, BeginPhase, ParallelJoined, RowInv, ResultsOnce, OnSut,
              SlotInv, TypeOK
<1>4. CASE Return
  BY <1>4 DEF Return, RowInv, ResultsOnce, OnSut
<1>5. ASSUME NEW t \in Tests, Task(t) PROVE (RowInv /\ ResultsOnce)'
  <2>1. RowEffect(t) /\ t \in round /\ TypeOK
    BY <1>5, TaskHasRowEffect DEF SlotInv, TaskEffect, RowEffect, RoundInv, RoundShape
  <2>2. PhaseInv
    BY DEF SlotInv
  <2>3. late' = {}
    BY <2>1, <2>2 DEF RowEffect, RowInv
  <2>4. ASSUME NEW u \in Tests
        PROVE  /\ pc'[u] \notin {"idle", "done"} => results'[u] = 0
               /\ pc'[u] \in OnSut => u \in started'
               /\ pc'[u] = "record" => u \in completed'
    BY <2>1, <2>2 DEF RowEffect, RowInv, TypeOK, OnSut
  <2>5. phase' = "parallel" => \A u \in Tests \ ParallelPart(round)' : results'[u] = 0
    BY <2>1, <2>2 DEF RowEffect, RowInv, TypeOK, ParallelPart, PhaseInv
  <2>6. ResultsOnce'
    BY <2>1, <2>2 DEF RowEffect, RowInv, ResultsOnce, TypeOK, OnSut
  <2> QED BY <2>3, <2>4, <2>5, <2>6 DEF RowInv
<1>6. ASSUME NEW t \in Tests, LatePush(t) PROVE FALSE
  BY <1>6 DEF LatePush, RowInv
<1>7. ASSUME NEW p \in Stoppers, StopBegin(p) \/ Stop(p) PROVE (RowInv /\ ResultsOnce)'
  BY <1>7 DEF StopBegin, Stop, StopSut, StopClone, StopAcquire, StopLock, StopReset,
              stopUnchanged, roundVars, testVars, RowInv, ResultsOnce, ParallelPart
<1>8. CASE Environment \/ SutRestart
  BY <1>8 DEF Environment, KernelTaint, KernelPanic, KernelHang, SutRestart, envUnchanged,
              roundVars, testVars, RowInv, ResultsOnce, ParallelPart
<1>9. CASE UNCHANGED vars
  BY <1>9 DEF vars, roundVars, testVars, RowInv, ResultsOnce, ParallelPart
<1> QED
  BY <1>1, <1>2, <1>3, <1>4, <1>5, <1>6, <1>7, <1>8, <1>9 DEF Next, Driver

\* With no schedule() future dropped the rows progress as run_one says.
THEOREM RowInvariant ==
    ASSUME ~Cancellable
    PROVE  Spec => [](RowInv /\ ResultsOnce)
<1>1. Init => RowInv /\ ResultsOnce
  BY DEF Init, RowInv, ResultsOnce, OnSut
<1>2. ~Drop
  BY DEF Drop
<1>3. ASSUME SlotInv, RoundInv, RowInv /\ ResultsOnce, [Next]_vars PROVE (RowInv /\ ResultsOnce)'
  BY <1>2, <1>3, RowStep
<1> QED BY <1>1, <1>3, SlotInvariant, RoundInvariant, PTL DEF Spec

\* As long as no schedule() future is dropped, run_one pushes the row of a test
\* at most once in a round, for a test of the round, after both its events.
THEOREM ResultsPushedOnce ==
    ASSUME ~Cancellable
    PROVE  Spec => []ResultsOnce
  BY RowInvariant, PTL

-----------------------------------------------------------------------------
(* What schedule() returns *)

\* schedule() has nothing to return while it runs; a test that was announced
\* completed is at its push or past it, and one that is pinged has timed out.
PlaceInv ==
    /\ phase # "idle" => ret = "none"
    /\ phase # "idle" => \A t \in completed : pc[t] \in {"record", "done", "idle"}
    /\ phase = "parallel" => completed \subseteq ParallelPart(round)
    /\ \A t \in Tests : pc[t] = "ping" => status[t] = "TestTimeout"

\* Test t, which is done, explains the kernel error e of its round.
Explains(t, e) ==
    /\ pc[t] = "done"
    /\ \/ status[t] = e /\ results[t] > 0
       \/ e = "KernelPanic" /\ status[t] = "TestTimeout" /\ t \notin completed

\* The first error of a running round is explained by a test that is done, and
\* as long as there is none every completed test with a kernel error is still
\* on its way to its push.
ErrorInv ==
    phase # "idle" =>
        /\ err \in KernelErrors => \E t \in round : Explains(t, err)
        /\ err = "none" => \A t \in completed : status[t] \in KernelErrors => pc[t] = "record"

\* What a step of run_one does to the status of its test, to its announcement
\* and to the error of the round: it goes on, ends without a row, ends with
\* the panic that ping reports, or pushes its row.
ErrorEffect(t) ==
    /\ UNCHANGED <<phase, round, ret, stopSeen>>
    /\ pc[t] \notin {"idle", "done"}
    /\ \E x \in PCs \ {"idle"} : pc' = [pc EXCEPT ![t] = x]
    /\ \A u \in Tests \ {t} : status'[u] = status[u]
    /\ \/ /\ pc'[t] # "done" /\ UNCHANGED <<err, results, completed>>
          /\ pc[t] # "record" /\ pc'[t] # "record"
          /\ pc'[t] = "ping" => status'[t] = "TestTimeout"
       \/ /\ pc'[t] = "record" /\ pc[t] # "record" /\ UNCHANGED <<err, results, status>>
          /\ completed' = completed \cup {t}
       \/ /\ pc'[t] = "done" /\ pc[t] # "record" /\ UNCHANGED <<results, completed>>
          /\ err' \in {err, IF err = "none" THEN "Fatal" ELSE err}
       \/ /\ pc'[t] = "done" /\ pc[t] = "ping" /\ UNCHANGED <<results, completed, status>>
          /\ err' = IF err = "none" THEN "KernelPanic" ELSE err
       \/ /\ pc'[t] = "done" /\ pc[t] = "record" /\ UNCHANGED <<status, completed>>
          /\ results' = [results EXCEPT ![t] = @ + 1]
          /\ err' = IF err = "none" /\ status[t] \in KernelErrors THEN status[t] ELSE err

\* Every step of run_one has one of these effects.
LEMMA TaskHasErrorEffect ==
    ASSUME NEW t \in Tests, Task(t), TypeOK
    PROVE  ErrorEffect(t)
<1> USE DEF ErrorEffect, taskUnchanged, Finish, MoveTo, PCs, OnSut, TypeOK
<1>1. CASE Check(t) BY <1>1 DEF Check
<1>2. CASE Acquire(t) BY <1>2 DEF Acquire
<1>3. CASE TaintBefore(t) BY <1>3 DEF TaintBefore
<1>4. CASE RunCommand(t) BY <1>4 DEF RunCommand
<1>5. CASE Timeout(t) BY <1>5 DEF Timeout
<1>6. CASE Ping(t) BY <1>6 DEF Ping
<1>7. CASE TaintAfter(t) BY <1>7 DEF TaintAfter
<1>8. CASE ReadResult(t) BY <1>8 DEF ReadResult
<1>9. CASE Record(t) BY <1>9 DEF Record
<1> QED BY <1>1, <1>2, <1>3, <1>4, <1>5, <1>6, <1>7, <1>8, <1>9 DEF Task

\* A step of run_one keeps the places of its round.
LEMMA TaskKeepsPlaces ==
    ASSUME NEW t \in Tests, ErrorEffect(t), TypeOK, PhaseInv, PlaceInv
    PROVE  PlaceInv'
<1>1. pc' \in [Tests -> PCs] /\ \A u \in Tests \ {t} : pc'[u] = pc[u]
  BY DEF ErrorEffect, TypeOK
<1>2. completed' \in {completed, completed \cup {t}} /\ completed \subseteq Tests
  BY DEF ErrorEffect, TypeOK
<1>3. ASSUME NEW u \in completed', phase # "idle" PROVE pc'[u] \in {"record", "done", "idle"}
  BY <1>1, <1>2, <1>3 DEF ErrorEffect, PlaceInv
<1>4. phase = "parallel" => t \in ParallelPart(round)
  BY DEF ErrorEffect, PhaseInv
<1>5. ParallelPart(round)' = ParallelPart(round)
  BY DEF ErrorEffect, ParallelPart
<1>6. ASSUME NEW u \in Tests, pc'[u] = "ping" PROVE status'[u] = "TestTimeout"
  BY <1>1, <1>6 DEF ErrorEffect, PlaceInv
<1> QED BY <1>2, <1>3, <1>4, <1>5, <1>6 DEF ErrorEffect, PlaceInv

\* A step of run_one keeps the error of its round explained.
LEMMA TaskKeepsError ==
    ASSUME NEW t \in Tests, ErrorEffect(t), TypeOK, PlaceInv, ErrorInv, phase # "idle", t \in round
    PROVE  ErrorInv'
<1>1. /\ pc' \in [Tests -> PCs] /\ \A u \in Tests \ {t} : pc'[u] = pc[u]
      /\ completed \subseteq Tests /\ round \subseteq Tests /\ round' = round
      /\ results \in [Tests -> Nat]
  BY DEF ErrorEffect, TypeOK
<1>2. completed' \in {completed, completed \cup {t}} /\ (t \in completed => pc[t] = "record")
  BY DEF ErrorEffect, PlaceInv
<1>3. \A u \in Tests : results'[u] > 0 \/ ~(results[u] > 0)
  BY <1>1 DEF ErrorEffect
<1>4. ASSUME err \in KernelErrors, err' = err
      PROVE  \E u \in round' : Explains(u, err)'
  <2>1. PICK u \in round : Explains(u, err)
    BY <1>4 DEF ErrorInv
  <2>2. u # t
    BY <2>1 DEF Explains, ErrorEffect
  <2>3. pc'[u] = pc[u] /\ status'[u] = status[u] /\ (u \in completed' => u \in completed)
    BY <1>1, <1>2, <2>2 DEF ErrorEffect
  <2> QED BY <1>1, <1>3, <1>4, <2>1, <2>3 DEF Explains
<1>5. ASSUME err' \in KernelErrors PROVE \E u \in round' : Explains(u, err)'
  <2>1. CASE err' = err
    BY <1>4, <1>5, <2>1
  <2>2. CASE err' # err /\ pc[t] = "ping"
    <3>1. pc'[t] = "done" /\ err' = "KernelPanic" /\ UNCHANGED <<status, completed>>
      BY <1>5, <2>2 DEF ErrorEffect, KernelErrors
    <3>2. status[t] = "TestTimeout" /\ t \notin completed
      BY <1>2, <2>2 DEF PlaceInv
    <3>3. Explains(t, err)'
      BY <3>1, <3>2 DEF Explains
    <3> QED BY <1>1, <3>3
  <2>3. CASE err' # err /\ pc[t] # "ping"
    <3>1. /\ pc'[t] = "done" /\ err' = status[t] /\ UNCHANGED status
          /\ results' = [results EXCEPT ![t] = @ + 1]
      BY <1>5, <2>3 DEF ErrorEffect, KernelErrors
    <3>2. results'[t] > 0
      BY <1>1, <3>1
    <3>3. Explains(t, err)'
      BY <3>1, <3>2 DEF Explains
    <3> QED BY <1>1, <3>3
  <2> QED BY <2>1, <2>2, <2>3
<1>6. ASSUME err' = "none", NEW u \in completed', status'[u] \in KernelErrors
      PROVE  pc'[u] = "record"
  <2>1. err = "none"
    BY <1>6 DEF ErrorEffect, KernelErrors
  <2>2. CASE u # t
    <3>1. u \in completed /\ u \in Tests
      BY <1>1, <1>2, <2>2
    <3> QED BY <1>1, <1>6, <2>1, <2>2, <3>1 DEF ErrorInv, ErrorEffect
  <2>3. CASE u = t
    <3>1. pc[t] = "record" \/ pc'[t] = "record"
      BY <1>2, <1>6, <2>3 DEF ErrorEffect
    <3>2. CASE pc[t] = "record"
      <4>1. UNCHANGED status /\ (err' = IF err = "none" /\ status[t] \in KernelErrors THEN status[t] ELSE err)
        BY <3>2 DEF ErrorEffect
      <4> QED BY <1>6, <2>1, <2>3, <4>1 DEF KernelErrors
    <3> QED BY <2>3, <3>1, <3>2
  <2> QED BY <2>2, <2>3
<1> QED BY <1>5, <1>6 DEF ErrorInv

\* When a round ends none of its tasks is on its way.
LEMMA ReturnEndsTasks ==
    ASSUME Return, TypeOK, PhaseInv, err = "none"
    PROVE  \A t \in Tests : pc[t] \in {"idle", "done"}
<1>1. CASE SequentialDone
  BY <1>1 DEF SequentialDone, Active, OnSut, TypeOK, PCs
<1>2. CASE ParallelJoined
  BY <1>2 DEF ParallelJoined, PhaseInv
<1> QED BY <1>1, <1>2 DEF Return, RoundDriven

\* The error of a round, and what schedule() made of it, are explained in every
\* reachable state.
THEOREM ErrorInvariant == Spec => [](PlaceInv /\ ErrorInv /\ KernelErrorsRaised)
<1>1. Init => PlaceInv /\ ErrorInv /\ KernelErrorsRaised
  BY DEF Init, PlaceInv, ErrorInv, KernelErrorsRaised, KernelErrors
<1>2. ASSUME SlotInv, RoundInv, PlaceInv, ErrorInv, KernelErrorsRaised, [Next]_vars
      PROVE  (PlaceInv /\ ErrorInv /\ KernelErrorsRaised)'
  <2> USE <1>2
  <2>0. TypeOK /\ PhaseInv /\ RoundShape /\ completed \subseteq Tests /\ round \subseteq Tests
    BY DEF SlotInv, RoundInv, TypeOK
  <2>1. CASE ScheduleEmpty
    BY <2>1 DEF ScheduleEmpty, testVars, PlaceInv, ErrorInv, KernelErrorsRaised, KernelErrors
  <2>2. ASSUME NEW T \in SUBSET Tests, Schedule(T) PROVE (PlaceInv /\ ErrorInv /\ KernelErrorsRaised)'
    <3>1. \A t \in Tests : pc'[t] # "ping"
      BY <2>2 DEF Schedule, BeginPhase
    <3> QED BY <2>2, <3>1 DEF Schedule, BeginPhase, PlaceInv, ErrorInv, KernelErrorsRaised, KernelErrors
  <2>3. CASE BeginSequential
    <3>1. \A t \in completed : pc[t] = "done" /\ t \in ParallelPart(round)
      BY <2>0, <2>3 DEF BeginSequential, ParallelJoined, PlaceInv
    <3>2. /\ phase # "idle" /\ phase' = "sequential" /\ err = "none" /\ ret = "none"
          /\ UNCHANGED <<completed, status, err, ret>>
          /\ pc' = [t \in Tests |-> IF t \in round \ ParallelPart(round) THEN "pending" ELSE "idle"]
      BY <2>3 DEF BeginSequential, BeginPhase, ParallelJoined, PlaceInv
    <3>3. PlaceInv'
      BY <2>0, <3>1, <3>2 DEF PlaceInv
    <3>4. \A t \in completed : status[t] \notin KernelErrors
      BY <3>1, <3>2 DEF ErrorInv
    <3> QED BY <3>2, <3>3, <3>4 DEF ErrorInv, KernelErrorsRaised, KernelErrors
  <2>4. CASE Return
    <3>1. /\ phase # "idle" /\ phase' = "idle" /\ ret' = IF err # "none" /\ stopCnt = 0 THEN err ELSE "Ok"
          /\ UNCHANGED <<round, status, completed, results, stopSeen, err>>
          /\ pc' = [t \in Tests |-> "idle"]
      BY <2>4 DEF Return, RoundDriven, SequentialDone, ParallelJoined
    <3>2. PlaceInv' /\ ErrorInv'
      BY <3>1 DEF PlaceInv, ErrorInv
    <3>3. CASE ret' = err /\ err # "none"
      <4>1. err \in {"Fatal"} \cup KernelErrors /\ ret' # "Ok"
        BY <2>0, <3>3 DEF TypeOK, KernelErrors
      <4>2. err \in KernelErrors => \E t \in round : Explains(t, err)
        BY <3>1 DEF ErrorInv
      <4>3. KernelErrorsRaised'
        BY <3>1, <3>3, <4>1, <4>2 DEF Explains, KernelErrorsRaised
      <4> QED BY <3>2, <4>3
    <3>4. CASE ret' = "Ok" /\ stopCnt > 0
      BY <2>0, <3>1, <3>2, <3>4 DEF RoundShape, KernelErrorsRaised, KernelErrors
    <3>5. CASE ret' = "Ok" /\ err = "none"
      <4>1. \A t \in Tests : pc[t] \in {"idle", "done"}
        BY <2>0, <2>4, <3>5, ReturnEndsTasks
      <4>2. \A t \in completed : status[t] \notin KernelErrors
        BY <2>0, <3>1, <3>5, <4>1 DEF ErrorInv
      <4> QED BY <3>1, <3>2, <3>5, <4>2 DEF KernelErrorsRaised, KernelErrors
    <3>6. stopCnt \in Nat
      BY <2>0 DEF TypeOK
    <3> QED BY <3>1, <3>2, <3>3, <3>4, <3>5, <3>6
  <2>5. CASE Drop
    BY <2>5 DEF Drop, PlaceInv, ErrorInv, KernelErrorsRaised, KernelErrors
  <2>6. ASSUME NEW t \in Tests, Task(t) PROVE (PlaceInv /\ ErrorInv /\ KernelErrorsRaised)'
    <3>1. ErrorEffect(t) /\ phase # "idle" /\ t \in round
      BY <2>0, <2>6, TaskHasErrorEffect DEF ErrorEffect, PhaseInv, RoundShape
    <3>2. PlaceInv' /\ ErrorInv'
      BY <2>0, <3>1, TaskKeepsPlaces, TaskKeepsError
    <3>3. ret' = "none"
      BY <3>1 DEF ErrorEffect, PlaceInv
    <3> QED BY <3>2, <3>3 DEF KernelErrorsRaised, KernelErrors
  <2>7. ASSUME NEW t \in Tests, LatePush(t) PROVE (PlaceInv /\ ErrorInv /\ KernelErrorsRaised)'
    <3>1. UNCHANGED <<phase, round, err, ret, pc, status, completed, stopSeen>>
      BY <2>7 DEF LatePush, roundVars, testVars
    <3>2. \A u \in Tests : results[u] > 0 => results'[u] > 0
      BY <2>0, <2>7 DEF LatePush, TypeOK
    <3>3. PlaceInv'
      BY <3>1 DEF PlaceInv, ParallelPart
    <3>4. ErrorInv'
      BY <2>0, <3>1, <3>2 DEF ErrorInv, Explains
    <3>5. KernelErrorsRaised'
      BY <2>0, <3>1, <3>2 DEF KernelErrorsRaised
    <3> QED BY <3>3, <3>4, <3>5
  <2>8. ASSUME UNCHANGED <<phase, round, err, ret, pc, status, completed, results>>,
               stopSeen' \in {stopSeen, TRUE}
        PROVE  (PlaceInv /\ ErrorInv /\ KernelErrorsRaised)'
    BY <2>8 DEF PlaceInv, ErrorInv, Explains, KernelErrorsRaised, ParallelPart
  <2>9. ASSUME NEW p \in Stoppers, StopBegin(p) \/ Stop(p)
        PROVE  (PlaceInv /\ ErrorInv /\ KernelErrorsRaised)'
    BY <2>8, <2>9 DEF StopBegin, Stop, StopSut, StopClone, StopAcquire, StopLock, StopReset,
                      stopUnchanged, roundVars, testVars
  <2>10. CASE Environment \/ SutRestart
    BY <2>8, <2>10 DEF Environment, KernelTaint, KernelPanic, KernelHang, SutRestart, envUnchanged,
                       roundVars, testVars
  <2>11. CASE UNCHANGED vars
    BY <2>8, <2>11 DEF vars, roundVars, testVars
  <2> QED
    BY <2>1, <2>2, <2>3, <2>4, <2>5, <2>6, <2>7, <2>9, <2>10, <2>11 DEF Next, Driver
<1> QED BY <1>1, <1>2, SlotInvariant, RoundInvariant, PTL DEF Spec

\* schedule() raises a kernel error only with the row that explains it, or for
\* a panic that ping reported, and every kernel condition a completed test was
\* announced with is raised unless a stop() or an earlier error hides it: on
\* every SUT, whether it panics, hangs or taints, and whatever rounds were
\* dropped before.
THEOREM KernelErrorsAreRaised == Spec => []KernelErrorsRaised
  BY ErrorInvariant, PTL

\* An Ok of schedule() in whose round nobody called stop() means that every test
\* was executed, on every SUT that does not panic.
THEOREM OkRoundsAreComplete ==
    ASSUME ~MayPanic
    PROVE  Spec => []OkRoundComplete
<1>1. Init => OkRoundComplete
  BY DEF Init, OkRoundComplete
<1>2. ASSUME SlotInv, RoundInv, OkRoundComplete, [Next]_vars PROVE OkRoundComplete'
  <2> USE <1>2 DEF OkRoundComplete
  <2>1. CASE ScheduleEmpty
    BY <2>1 DEF ScheduleEmpty
  <2>2. ASSUME NEW T \in SUBSET Tests, Schedule(T) PROVE OkRoundComplete'
    BY <2>2 DEF Schedule
  <2>3. CASE BeginSequential
    BY <2>3 DEF BeginSequential
  <2>4. CASE Return
    BY <2>4, OkReturnIsComplete DEF Return, Recorded
  <2>5. CASE Drop
    BY <2>5 DEF Drop
  <2>6. ASSUME NEW t \in Tests, Task(t) \/ LatePush(t) PROVE OkRoundComplete'
    <3>1. /\ UNCHANGED <<ret, round, stopSeen>>
          /\ \A u \in Tests : results[u] > 0 => results'[u] > 0
      BY <2>6, TaskHasEffect DEF TaskEffect, LatePush, roundVars, SlotInv, TypeOK
    <3> QED BY <3>1 DEF SlotInv, TypeOK
  <2>7. ASSUME NEW p \in Stoppers, StopBegin(p) \/ Stop(p) PROVE OkRoundComplete'
    BY <2>7 DEF StopBegin, Stop, StopSut, StopClone, StopAcquire, StopLock, StopReset,
                stopUnchanged, roundVars
  <2>8. CASE Environment \/ SutRestart
    BY <2>8 DEF Environment, KernelTaint, KernelPanic, KernelHang, SutRestart, envUnchanged,
                roundVars
  <2>9. CASE UNCHANGED vars
    BY <2>9 DEF vars, roundVars
  <2> QED
    BY <2>1, <2>2, <2>3, <2>4, <2>5, <2>6, <2>7, <2>8, <2>9 DEF Next, Driver
<1> QED BY <1>1, <1>2, SlotInvariant, RoundInvariant, PTL DEF Spec

-----------------------------------------------------------------------------
(* What stop() waits for *)

\* A stop() gets schedule_lock only when no run_one is left, for any number of
\* concurrent callers of stop() and with rounds that may be dropped.
THEOREM StopWaitsForDrain == Spec => StopDrains
<1>1. ASSUME SlotInv, [Next]_vars, NEW p \in Stoppers, spc[p] = "lock", spc'[p] = "reset"
      PROVE  \A t \in Tests : pc[t] = "idle"
  <2>1. ASSUME UNCHANGED spc PROVE FALSE
    BY <1>1, <2>1
  <2>2. ASSUME NEW q \in Stoppers, StopBegin(q) \/ Stop(q), ~StopLock(q) PROVE FALSE
    BY <1>1, <2>2 DEF StopBegin, Stop, StopSut, StopClone, StopAcquire, StopReset, SlotInv, TypeOK
  <2>3. ASSUME NEW q \in Stoppers, StopLock(q) PROVE phase = "idle"
    BY <2>3 DEF StopLock
  <2>4. ASSUME NEW t \in Tests, Task(t) PROVE UNCHANGED spc
    BY <2>4 DEF Task, Check, Acquire, TaintBefore, RunCommand, Timeout, Ping, TaintAfter,
                ReadResult, Record, taskUnchanged, stopVars
  <2>5. \/ UNCHANGED spc
        \/ \E q \in Stoppers : StopBegin(q) \/ Stop(q)
    BY <1>1, <2>4
       DEF Next, Driver, ScheduleEmpty, Schedule, BeginSequential, Return, Drop, LatePush,
           Environment, KernelTaint, KernelPanic, KernelHang, SutRestart, envUnchanged,
           stopVars, vars
  <2> QED BY <1>1, <2>1, <2>2, <2>3, <2>5 DEF SlotInv, PhaseInv
<1>2. ASSUME SlotInv, [Next]_vars
      PROVE  [\A p \in Stoppers : spc[p] = "lock" /\ spc'[p] = "reset"
                                    => \A t \in Tests : pc[t] = "idle"]_vars
  BY <1>1, <1>2
<1> QED BY <1>2, SlotInvariant, PTL DEF Spec, StopDrains

\* stop_cnt counts a stop() in progress.
StopCounted == (\E p \in Stoppers : spc[p] # "idle") => stopCnt > 0

\* Between two looks of run_one at stop_cnt no test gets past the second one:
\* with one caller of stop() at a time no test is started from its call to its
\* return.  (With two, the reset of the first to finish hides the other.)
THEOREM NothingStartsWhileStopping ==
    ASSUME \A p, q \in Stoppers : p = q
    PROVE  Spec => NoStartWhileStopping
<1>1. Init => StopCounted
  BY DEF Init, StopCounted
<1>2. ASSUME NEW t \in Tests, Task(t) PROVE UNCHANGED stopVars
  BY <1>2 DEF Task, Check, Acquire, TaintBefore, RunCommand, Timeout, Ping, TaintAfter,
              ReadResult, Record, taskUnchanged
<1>3. ASSUME TypeOK, StopCounted, [Next]_vars PROVE StopCounted'
  <2> USE <1>3
  <2>1. CASE UNCHANGED stopVars
    BY <2>1 DEF stopVars, StopCounted
  <2>2. ASSUME NEW p \in Stoppers, StopBegin(p) PROVE StopCounted'
    BY <2>2 DEF StopBegin, StopCounted, TypeOK
  <2>3. ASSUME NEW p \in Stoppers, Stop(p), ~StopReset(p) PROVE StopCounted'
    BY <2>3 DEF Stop, StopSut, StopClone, StopAcquire, StopLock, StopCounted, TypeOK
  <2>4. ASSUME NEW p \in Stoppers, StopReset(p) PROVE StopCounted'
    <3>1. \A q \in Stoppers : spc'[q] = "idle"
      BY <2>4 DEF StopReset, TypeOK
    <3> QED BY <3>1 DEF StopCounted
  <2> QED
    BY <1>2, <2>1, <2>2, <2>3, <2>4
       DEF Next, Driver, ScheduleEmpty, Schedule, BeginSequential, Return, Drop, LatePush,
           Environment, KernelTaint, KernelPanic, KernelHang, SutRestart, envUnchanged, vars
<1>4. ASSUME TypeOK, StopCounted, [Next]_vars, NEW p \in Stoppers, spc[p] # "idle"
      PROVE  started' \subseteq started
  <2> USE <1>4
  <2>1. stopCnt > 0
    BY DEF StopCounted
  <2>2. ASSUME NEW t \in Tests, Task(t) PROVE UNCHANGED started
    BY <2>1, <2>2 DEF Task, Check, Acquire, TaintBefore, RunCommand, Timeout, Ping, TaintAfter,
                      ReadResult, Record
  <2> QED
    BY <2>2
       DEF Next, Driver, ScheduleEmpty, Schedule, BeginSequential, Return, Drop, LatePush,
           StopBegin, Stop, StopSut, StopClone, StopAcquire, StopLock, StopReset, stopUnchanged,
           Environment, KernelTaint, KernelPanic, KernelHang, SutRestart, envUnchanged, testVars, vars
<1>5. ASSUME TypeOK, StopCounted, [Next]_vars
      PROVE  [(\E p \in Stoppers : spc[p] # "idle") => started' \subseteq started]_vars
  BY <1>4, <1>5
<1> QED BY <1>1, <1>3, <1>5, TypeCorrect, PTL DEF Spec, NoStartWhileStopping

=============================================================================
