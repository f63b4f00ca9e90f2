--------------------------- MODULE SutHandleProofs ---------------------------
(* Proofs about SutHandle, for any number of callers, any retry limit and    *)
(* both kinds of channel, with and without dropped calls and a hung SUT.     *)
(* LockInv is about the FIFO mutex of CliSut, TaintInv about TaintState.     *)
EXTENDS SutHandle, SequenceLemmas

Places ==
    {"idle", "lock", "handle", "probe", "command", "reply", "stopping", "communicate", "cleanup", "stuck"}

LockType ==
    /\ shared \in BOOLEAN
    /\ queue \in Seq(Callers) /\ IsInjective(queue)
    /\ op \in [Callers -> Ops]
    /\ at \in [Callers -> Places]
    /\ attempt \in [Callers -> 0..Retries - 1]

ValueType ==
    /\ dropped \in BOOLEAN
    /\ inFlight \in BOOLEAN /\ active \in BOOLEAN /\ hung \in BOOLEAN
    /\ cached \in -1..MaxTaint
    /\ taint \in 0..MaxTaint
    /\ answer \in [Callers -> -1..MaxTaint]
    /\ seen \in [Callers -> SUBSET (0..MaxTaint)]

\* A caller that waits for nothing is not in the queue of the mutex.
IdleOut == \A c \in Callers : at[c] = "idle" => \A i \in 1..Len(queue) : queue[i] # c

\* The channel is stopped between two attempts, never after the last.
NotTheLast == \A c \in Callers : at[c] = "cleanup" => attempt[c] + 1 < Retries

LockInv == LockType /\ IdleOut /\ ChannelExclusive /\ NotTheLast

\* The caller that stopped the channel communicates again.
Retry(c) ==
    /\ at[c] = "cleanup"
    /\ at' = [at EXCEPT ![c] = "communicate"]
    /\ attempt' = [attempt EXCEPT ![c] = @ + 1]
    /\ UNCHANGED <<queue, op, shared>>

\* The holder of the lock goes on to another await.
Goes(c, place) ==
    /\ Await(c, place) /\ Holds(c)
    /\ place = "cleanup" => attempt[c] + 1 < Retries

\* What a step of a call does with the mutex: it leaves, goes on while it holds
\* the lock, takes the lock again (run_command) or retries (ensure_communicate).
LEMMA StepMoves ==
    ASSUME LockInv, NEW c \in Callers, Step(c)
    PROVE  \/ Leave(c)
           \/ \E place \in Places \ {"idle"} : Goes(c, place)
           \/ RunCommand(c)
           \/ Retry(c)
<1> USE DEF LockInv, ChannelExclusive, OnChannel, Places, Goes
<1>1. CASE GetTaintedInfo(c)
  BY <1>1 DEF GetTaintedInfo
<1>2. CASE TaintProbe(c)
  BY <1>2 DEF TaintProbe
<1>3. CASE RunCommand(c)
  BY <1>3
<1>4. CASE RunExclusive(c)
  BY <1>4 DEF RunExclusive
<1>5. CASE CommandReturns(c)
  BY <1>5 DEF CommandReturns
<1>6. CASE Begin(c)
  BY <1>6 DEF Begin
<1>7. CASE Reply(c)
  BY <1>7 DEF Reply
<1>8. CASE Lifecycle(c)
  BY <1>8 DEF Lifecycle
<1>9. CASE StopChannel(c)
  BY <1>9 DEF StopChannel
<1>10. CASE Communicated(c)
  BY <1>10 DEF Communicated
<1>11. CASE CommunicateFails(c)
  BY <1>11 DEF CommunicateFails
<1>12. CASE Cleanup(c)
  BY <1>12 DEF Cleanup, Retry
<1> QED
  BY <1>1, <1>2, <1>3, <1>4, <1>5, <1>6, <1>7, <1>8, <1>9, <1>10, <1>11, <1>12 DEF Step

\* A call that returns or is dropped leaves the queue, and whoever holds the
\* lock then still holds it.
LEMMA LeaveKeepsLock ==
    ASSUME LockInv, NEW c \in Callers, Leave(c)
    PROVE  LockInv'
<1>1. /\ queue' \in Seq(Callers) /\ IsInjective(queue')
      /\ \A i \in 1..Len(queue') : queue'[i] # c /\ \E j \in 1..Len(queue) : queue'[i] = queue[j]
      /\ queue # <<>> /\ Head(queue) # c => queue' # <<>> /\ Head(queue') = Head(queue)
  BY RemoveFirstKeeps DEF LockInv, LockType, Leave
<1>2. LockType'
  BY <1>1 DEF LockInv, LockType, Leave, Places
<1>3. IdleOut'
  BY <1>1 DEF LockInv, LockType, IdleOut, Leave
<1>4. ChannelExclusive'
  BY <1>1 DEF LockInv, LockType, ChannelExclusive, OnChannel, Holds, Leave
<1>5. NotTheLast'
  BY DEF LockInv, LockType, NotTheLast, Leave
<1> QED
  BY <1>2, <1>3, <1>4, <1>5 DEF LockInv

\* The holder of the lock goes on to another await.
LEMMA AwaitKeepsLock ==
    ASSUME LockInv, NEW c \in Callers, NEW place \in Places \ {"idle"}, Goes(c, place)
    PROVE  LockInv'
<1> USE DEF Goes
<1>1. LockType'
  BY DEF LockInv, LockType, Await, Places
<1>2. IdleOut'
  BY DEF LockInv, LockType, IdleOut, Await
<1>3. ChannelExclusive'
  BY DEF LockInv, LockType, ChannelExclusive, OnChannel, Holds, Await
<1>4. NotTheLast'
  BY DEF LockInv, LockType, NotTheLast, Await
<1> QED
  BY <1>1, <1>2, <1>3, <1>4 DEF LockInv

\* run_command() gives the lock up, and queues again when its channel has no
\* shared handle; nobody else was on the channel while it held the lock.
LEMMA RunCommandKeepsLock ==
    ASSUME LockInv, NEW c \in Callers, RunCommand(c)
    PROVE  LockInv'
<1> DEFINE rest == Tail(queue)
<1>1. /\ queue # <<>> /\ Head(queue) = c /\ at[c] = "lock"
      /\ rest \in Seq(Callers) /\ IsInjective(rest)
      /\ \A i \in 1..Len(rest) : rest[i] # c /\ \E j \in 1..Len(queue) : rest[i] = queue[j]
  BY TailKeeps DEF LockInv, LockType, RunCommand, Holds
<1>2. \A d \in Callers \ {c} : at[d] \notin OnChannel
  BY <1>1 DEF LockInv, ChannelExclusive, Holds
<1>3. CASE shared
  <2>1. at' = [at EXCEPT ![c] = "command"] /\ queue' = rest /\ UNCHANGED <<op, attempt, shared>>
    BY <1>3 DEF RunCommand
  <2>2. LockType'
    BY <1>1, <2>1 DEF LockInv, LockType, Places
  <2>3. IdleOut'
    BY <1>1, <2>1 DEF LockInv, LockType, IdleOut
  <2>4. ChannelExclusive'
    BY <1>2, <1>3, <2>1 DEF LockInv, LockType, ChannelExclusive, OnChannel
  <2>5. NotTheLast'
    BY <2>1 DEF LockInv, LockType, NotTheLast
  <2> QED
    BY <2>2, <2>3, <2>4, <2>5 DEF LockInv
<1>4. CASE ~shared
  <2>1. at' = [at EXCEPT ![c] = "handle"] /\ queue' = Append(rest, c) /\ UNCHANGED <<op, attempt, shared>>
    BY <1>4 DEF RunCommand
  <2> HIDE DEF rest
  <2>2. /\ queue' \in Seq(Callers) /\ IsInjective(queue')
        /\ \A i \in 1..Len(queue') : queue'[i] = c \/ \E j \in 1..Len(rest) : queue'[i] = rest[j]
    <3>1. \A i \in 1..Len(rest) : rest[i] # c
      BY <1>1
    <3>2. rest \in Seq(Callers) /\ IsInjective(rest)
      BY <1>1
    <3> QED
      BY <2>1, <3>1, <3>2, AppendKeeps
  <2>3. LockType'
    BY <2>1, <2>2 DEF LockInv, LockType, Places
  <2>4. IdleOut'
    <3>1. SUFFICES ASSUME NEW d \in Callers, at'[d] = "idle", NEW i \in 1..Len(queue')
                   PROVE  queue'[i] # d
      BY DEF IdleOut
    <3>2. d # c /\ at[d] = "idle"
      BY <2>1, <3>1 DEF LockInv, LockType
    <3>3. \A j \in 1..Len(rest) : rest[j] # d
      BY <1>1, <3>2 DEF LockInv, IdleOut
    <3> QED
      BY <2>2, <3>2, <3>3
  <2>5. ChannelExclusive'
    BY <1>2, <2>1 DEF LockInv, LockType, ChannelExclusive, OnChannel
  <2>6. NotTheLast'
    BY <2>1 DEF LockInv, LockType, NotTheLast
  <2> QED
    BY <2>3, <2>4, <2>5, <2>6 DEF LockInv
<1> QED
  BY <1>3, <1>4 DEF LockInv, LockType

\* A caller queues for the mutex.
LEMMA CallKeepsLock ==
    ASSUME LockInv, NEW c \in Callers, NEW o \in Ops, Call(c, o)
    PROVE  LockInv'
<1> USE HandleAssumption
<1>1. /\ queue' \in Seq(Callers) /\ IsInjective(queue') /\ queue' # <<>>
      /\ queue # <<>> => Head(queue') = Head(queue)
      /\ \A i \in 1..Len(queue') : queue'[i] = c \/ \E j \in 1..Len(queue) : queue'[i] = queue[j]
  BY AppendKeeps DEF LockInv, LockType, IdleOut, Call
<1>2. LockType'
  BY <1>1 DEF LockInv, LockType, Call, Places
<1>3. IdleOut'
  BY <1>1 DEF LockInv, LockType, IdleOut, Call
<1>4. ChannelExclusive'
  BY <1>1 DEF LockInv, LockType, ChannelExclusive, OnChannel, Holds, Call
<1>5. NotTheLast'
  BY DEF LockInv, LockType, NotTheLast, Call
<1> QED
  BY <1>2, <1>3, <1>4, <1>5 DEF LockInv

\* Every step keeps the mutex in order.
LEMMA LockStep ==
    ASSUME LockInv, [Next]_vars
    PROVE  LockInv'
<1> USE HandleAssumption
<1>1. ASSUME NEW c \in Callers, Step(c)
      PROVE  LockInv'
  <2>1. CASE \E place \in Places \ {"idle"} : Goes(c, place)
    BY <2>1, AwaitKeepsLock
  <2>2. CASE Retry(c)
    <3>1. LockType'
      <4>1. attempt[c] + 1 \in 0..Retries - 1
        BY <2>2 DEF Retry, LockInv, LockType, NotTheLast
      <4> QED
        BY <2>2, <4>1 DEF Retry, LockInv, LockType, Places
    <3>2. IdleOut' /\ ChannelExclusive'
      BY <2>2 DEF Retry, LockInv, LockType, IdleOut, ChannelExclusive, OnChannel, Holds
    <3>3. NotTheLast'
      BY <2>2 DEF Retry, LockInv, LockType, NotTheLast
    <3> QED
      BY <3>1, <3>2, <3>3 DEF LockInv
  <2> QED
    BY <1>1, <2>1, <2>2, StepMoves, LeaveKeepsLock, RunCommandKeepsLock
<1>2. ASSUME UNCHANGED lockVars
      PROVE  LockInv'
  BY <1>2 DEF lockVars, LockInv, LockType, IdleOut, ChannelExclusive, OnChannel, Holds, NotTheLast
<1>3. ASSUME NEW c \in Callers, Cancel(c)
      PROVE  LockInv'
  BY <1>3, LeaveKeepsLock DEF Cancel
<1>4. ASSUME NEW c \in Callers, Sticks(c)
      PROVE  LockInv'
  <2>1. Goes(c, "stuck")
    BY <1>4 DEF Sticks, Goes, LockInv, ChannelExclusive, OnChannel
  <2> QED
    BY <2>1, AwaitKeepsLock DEF Places
<1> QED
  BY <1>1, <1>2, <1>3, <1>4, CallKeepsLock DEF Next, KernelTaint, Hang, vars

\* Every value keeps its type.
LEMMA ValueStep ==
    ASSUME LockInv, ValueType, [Next]_vars
    PROVE  ValueType'
<1> USE HandleAssumption
<1>1. ASSUME NEW c \in Callers, NEW o \in Ops, Call(c, o)
      PROVE  ValueType'
  BY <1>1 DEF Call, ValueType, taintVars, sutVars
<1>2. ASSUME NEW c \in Callers, Step(c)
      PROVE  ValueType'
  <2> USE DEF ValueType, taintVars, sutVars, histVars
  <2>1. CASE GetTaintedInfo(c)
    BY <2>1 DEF GetTaintedInfo
  <2>2. CASE TaintProbe(c)
    <3>1. taint \in -1..MaxTaint
      OBVIOUS
    <3>2. answer' \in [Callers -> -1..MaxTaint] /\ cached' \in -1..MaxTaint
      BY <2>2, <3>1 DEF TaintProbe
    <3> QED
      BY <2>2, <3>2 DEF TaintProbe
  <2>3. CASE RunCommand(c) \/ RunExclusive(c) \/ CommandReturns(c) \/ Begin(c) \/ Reply(c)
             \/ Lifecycle(c)
    BY <2>3 DEF RunCommand, RunExclusive, CommandReturns, Begin, Reply, Lifecycle
  <2>4. CASE StopChannel(c) \/ Cleanup(c)
    BY <2>4 DEF StopChannel, Cleanup
  <2>5. CASE Communicated(c) \/ CommunicateFails(c)
    <3>1. Booted
      BY <2>5 DEF Communicated, CommunicateFails
    <3>2. taint' \in 0..MaxTaint
      BY <3>1 DEF Booted
    <3>3. seen' \in [Callers -> SUBSET (0..MaxTaint)]
      BY <3>1, <3>2 DEF Booted
    <3> QED
      BY <2>5, <3>2, <3>3 DEF Communicated, CommunicateFails
  <2> QED
    BY <1>2, <2>1, <2>2, <2>3, <2>4, <2>5 DEF Step
<1>3. ASSUME NEW c \in Callers, Cancel(c)
      PROVE  ValueType'
  BY <1>3 DEF Cancel, ValueType, taintVars, sutVars
<1>4. CASE KernelTaint
  BY <1>4 DEF KernelTaint, ValueType, taintVars
<1>5. CASE Hang
  BY <1>5 DEF Hang, ValueType, taintVars, histVars
<1>6. CASE UNCHANGED vars
  BY <1>6 DEF vars, ValueType, lockVars, taintVars, sutVars, histVars
<1>7. ASSUME NEW c \in Callers, Sticks(c)
      PROVE  ValueType'
  BY <1>7 DEF Sticks, ValueType, taintVars, histVars
<1> QED
  BY <1>1, <1>2, <1>3, <1>4, <1>5, <1>6, <1>7 DEF Next

\* The FIFO mutex stays in order, and every value keeps its type, whatever is
\* called, dropped, hung or retried.
THEOREM HandleInvariant == Spec => [](LockInv /\ ValueType)
<1> USE HandleAssumption
<1>1. Init => LockInv /\ ValueType
  <2> SUFFICES ASSUME Init PROVE LockInv /\ ValueType
    OBVIOUS
  <2>1. queue \in Seq(Callers) /\ IsInjective(queue)
    BY DEF Init, IsInjective
  <2>2. LockType
    BY <2>1 DEF Init, LockType, Places, Ops
  <2>3. IdleOut /\ ChannelExclusive /\ NotTheLast
    BY DEF Init, IdleOut, ChannelExclusive, OnChannel, NotTheLast
  <2>4. ValueType
    <3>1. -1 \in -1..MaxTaint /\ 0 \in 0..MaxTaint
      OBVIOUS
    <3>2. answer \in [Callers -> -1..MaxTaint] /\ cached \in -1..MaxTaint
      BY <3>1 DEF Init
    <3>3. seen \in [Callers -> SUBSET (0..MaxTaint)] /\ taint \in 0..MaxTaint
      BY <3>1 DEF Init
    <3> QED
      BY <3>2, <3>3 DEF Init, ValueType
  <2> QED
    BY <2>2, <2>3, <2>4 DEF LockInv
<1>2. (LockInv /\ ValueType) /\ [Next]_vars => (LockInv /\ ValueType)'
  BY LockStep, ValueStep
<1> QED
  BY <1>1, <1>2, PTL DEF Spec

\* Every variable of the SUT's handle keeps its type; in particular no caller is
\* in the queue of the mutex twice, and communicate() is tried at most
\* COMMUNICATE_RETRIES times.
THEOREM HandleTypeCorrect == Spec => []TypeOK
<1>1. LockInv /\ ValueType => TypeOK
  BY DEF LockInv, LockType, ValueType, TypeOK, Places
<1> QED
  BY <1>1, HandleInvariant, PTL

\* The channel behind the mutex is used by one caller at a time, although
\* run_command takes the lock twice and any call may be dropped at any await.
THEOREM ChannelIsExclusive == Spec => []ChannelExclusive
<1>1. LockInv => ChannelExclusive
  BY DEF LockInv
<1> QED
  BY <1>1, HandleInvariant, PTL

-----------------------------------------------------------------------------
\* in_flight is set only while its prober is at work, unless one was dropped;
\* the kernel's value is among those a call in progress has seen.
FlightHeld == ~dropped => (inFlight => \E c \in Callers : at[c] = "probe")
SeesPresent == \A c \in Callers : at[c] # "idle" => taint \in seen[c]

TaintInv == FlightHeld /\ SeesPresent /\ TaintFreshUnlessDropped

\* taint_begin() never reuses an answer while no probe was dropped: the prober
\* holds the mutex, so nobody else gets to look at in_flight.
LEMMA NoReuse ==
    ASSUME LockInv, TaintInv, ~dropped, NEW c \in Callers, at[c] = "lock", Holds(c)
    PROVE  ~inFlight
  BY DEF LockInv, ChannelExclusive, OnChannel, Holds, TaintInv, FlightHeld

\* A call that was dropped before stays dropped.
LEMMA TaintStep ==
    ASSUME LockInv, ValueType, TaintInv, [Next]_vars
    PROVE  TaintInv'
<1> USE DEF TaintInv, TaintFreshUnlessDropped, TaintFresh
<1>1. ASSUME NEW c \in Callers, NEW o \in Ops, Call(c, o)
      PROVE  TaintInv'
  <2>1. FlightHeld'
    BY <1>1 DEF Call, FlightHeld, taintVars, LockInv, LockType
  <2>2. SeesPresent' /\ TaintFreshUnlessDropped'
    BY <1>1 DEF Call, SeesPresent, sutVars, LockInv, LockType, ValueType
  <2> QED
    BY <2>1, <2>2
<1>2. ASSUME NEW c \in Callers, Leave(c), at[c] # "probe" \/ ~inFlight', UNCHANGED <<taint, seen, dropped>>,
             inFlight' => inFlight
      PROVE  FlightHeld' /\ SeesPresent'
  BY <1>2 DEF Leave, FlightHeld, SeesPresent, LockInv, LockType
<1>3. ASSUME NEW c \in Callers, GetTaintedInfo(c)
      PROVE  TaintInv'
  <2>1. CASE Leave(c)
    <3>1. FlightHeld' /\ SeesPresent'
      <4>1. at'[c] = "idle" /\ ~Await(c, "probe")
        BY <2>1 DEF Leave, Await, LockInv, LockType
      <4>2. UNCHANGED <<inFlight, taint, seen, dropped>> /\ at[c] = "lock"
        BY <1>3, <4>1 DEF GetTaintedInfo, sutVars
      <4> QED
        BY <1>2, <2>1, <4>2
    <3>2. TaintFreshUnlessDropped'
      BY <1>3, NoReuse DEF GetTaintedInfo, ValueType, sutVars
    <3> QED
      BY <3>1, <3>2
  <2>2. CASE Await(c, "probe")
    <3>1. FlightHeld' /\ SeesPresent'
      BY <1>3, <2>2 DEF GetTaintedInfo, sutVars, Await, FlightHeld, SeesPresent, LockInv, LockType
    <3>2. TaintFreshUnlessDropped'
      BY <1>3, NoReuse DEF GetTaintedInfo, ValueType, sutVars
    <3> QED
      BY <3>1, <3>2
  <2> QED
    BY <1>3, <2>1, <2>2 DEF GetTaintedInfo
<1>4. ASSUME NEW c \in Callers, TaintProbe(c)
      PROVE  TaintInv'
  <2>1. FlightHeld' /\ SeesPresent'
    BY <1>2, <1>4 DEF TaintProbe, sutVars
  <2>2. TaintFreshUnlessDropped'
    BY <1>4 DEF TaintProbe, sutVars, SeesPresent, ValueType
  <2> QED
    BY <2>1, <2>2
<1>5. ASSUME NEW c \in Callers, Step(c), at[c] # "probe", UNCHANGED <<taintVars, taint, histVars>>
      PROVE  TaintInv'
  <2> USE <1>5 DEF taintVars, histVars
  <2>1. TaintFreshUnlessDropped'
    OBVIOUS
  <2>2. CASE Leave(c)
    BY <1>2, <2>1, <2>2
  <2>3. CASE \E place \in Places \ {"idle"} : Goes(c, place)
    <3>1. PICK place \in Places \ {"idle"} : Await(c, place) /\ Holds(c)
      BY <2>3 DEF Goes
    <3>2. at[c] # "idle"
      BY DEF Step, GetTaintedInfo, TaintProbe, RunCommand, RunExclusive, CommandReturns, Begin, Reply,
             Lifecycle, StopChannel, Communicated, CommunicateFails, Cleanup
    <3>3. FlightHeld' /\ SeesPresent'
      BY <3>1, <3>2 DEF Goes, Await, FlightHeld, SeesPresent, LockInv, LockType
    <3> QED
      BY <2>1, <3>3
  <2>4. CASE RunCommand(c)
    BY <2>1, <2>4 DEF RunCommand, FlightHeld, SeesPresent, LockInv, LockType
  <2>5. CASE Retry(c)
    BY <2>1, <2>5 DEF Retry, FlightHeld, SeesPresent, LockInv, LockType
  <2> QED
    BY <2>2, <2>3, <2>4, <2>5, StepMoves
<1>6. ASSUME NEW c \in Callers, Communicated(c) \/ CommunicateFails(c)
      PROVE  TaintInv'
  <2> USE <1>6 DEF Communicated, CommunicateFails
  <2>1. FlightHeld'
    BY DEF Leave, Await, FlightHeld, taintVars, LockInv, LockType
  <2>2. SeesPresent' /\ TaintFreshUnlessDropped'
    BY DEF Booted, SeesPresent, LockInv, LockType, ValueType, taintVars
  <2> QED
    BY <2>1, <2>2
<1>7. ASSUME NEW c \in Callers, Step(c)
      PROVE  TaintInv'
  <2>1. CASE RunCommand(c) \/ RunExclusive(c) \/ CommandReturns(c) \/ Begin(c) \/ Reply(c)
             \/ Lifecycle(c) \/ StopChannel(c) \/ Cleanup(c)
    BY <1>5, <1>7, <2>1 DEF RunCommand, RunExclusive, CommandReturns, Begin, Reply, Lifecycle,
         StopChannel, Cleanup, sutVars
  <2> QED
    BY <1>3, <1>4, <1>6, <1>7, <2>1 DEF Step
<1>8. ASSUME NEW c \in Callers, Cancel(c)
      PROVE  TaintInv'
  <2>1. CASE at[c] = "probe"
    <3>1. dropped' /\ SeesPresent'
      BY <1>8, <2>1 DEF Cancel, Leave, SeesPresent, sutVars, LockInv, LockType
    <3> QED
      BY <3>1 DEF FlightHeld
  <2>2. CASE at[c] # "probe"
    <3>1. dropped' = dropped
      BY <1>8, <2>2 DEF Cancel, ValueType
    <3>2. FlightHeld' /\ SeesPresent'
      BY <1>2, <1>8, <2>2, <3>1 DEF Cancel, taintVars, sutVars
    <3>3. TaintFreshUnlessDropped'
      BY <1>8, <3>1 DEF Cancel
    <3> QED
      BY <3>2, <3>3
  <2> QED
    BY <2>1, <2>2
<1>9. CASE KernelTaint
  <2>1. FlightHeld'
    BY <1>9 DEF KernelTaint, FlightHeld, lockVars, taintVars
  <2>2. SeesPresent' /\ TaintFreshUnlessDropped'
    BY <1>9 DEF KernelTaint, SeesPresent, lockVars, ValueType
  <2> QED
    BY <2>1, <2>2
<1>10. CASE Hang \/ UNCHANGED vars
  BY <1>10 DEF Hang, vars, lockVars, taintVars, sutVars, histVars, FlightHeld, SeesPresent
<1>11. ASSUME NEW c \in Callers, Sticks(c)
       PROVE  TaintInv'
  BY <1>11 DEF Sticks, Await, taintVars, histVars, FlightHeld, SeesPresent, LockInv, LockType
<1> QED
  BY <1>1, <1>7, <1>8, <1>9, <1>10, <1>11 DEF Next

\* The answer of a taint check is a value the kernel had during the check, as
\* long as no probe was dropped, however calls, reboots and taints interleave
\* (get_tainted_info, taint_begin, taint_end).
THEOREM TaintIsFresh == Spec => []TaintFreshUnlessDropped
<1>1. Init => TaintInv
  BY DEF Init, TaintInv, FlightHeld, SeesPresent, TaintFreshUnlessDropped, TaintFresh
<1>2. LockInv /\ ValueType /\ TaintInv /\ [Next]_vars => TaintInv'
  BY TaintStep
<1>3. TaintInv => TaintFreshUnlessDropped
  BY DEF TaintInv
<1> QED
  BY <1>1, <1>2, <1>3, HandleInvariant, PTL DEF Spec
=============================================================================
