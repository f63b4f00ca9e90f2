--------------------------- MODULE ChannelsProofs ---------------------------
(* Proofs about the channels of a run (Channels), for any number of          *)
(* commands, probes, connections and calls.  The SUT talks through one       *)
(* channel and the others rest, so an invariant of a channel's own steps is  *)
(* one of the whole.  Each channel has a section: its inductive invariant,   *)
(* one lemma per kind of step, and the theorem about Channels.               *)
EXTENDS Channels, FiniteSetTheorems, SequenceTheorems, SequenceLemmas

\* Every step of the run is a step of one channel, or of none.
LEMMA ChannelSteps ==
    ASSUME [Next]_vars
    PROVE  [ShNext]_shVars /\ [SsNext]_ssVars /\ [QmNext]_qmVars
  BY DEF Next, Attach, ChannelNext, vars

-----------------------------------------------------------------------------
(* The shell channel. *)

ShInv == ShTypeOK /\ NoOrphan

\* Nothing runs before the first command.
LEMMA ShInvInit == ShInit => ShInv
<1> SUFFICES ASSUME ShInit PROVE ShInv
  OBVIOUS
<1>1. shOut \in [ShCmds -> SUBSET {"panic", "cap", "exited", "killed"}]
  BY DEF ShInit
<1>2. shCmd \in [ShCmds -> {"new"}] /\ shProc \in [ShCmds -> {"none"}] /\ shFetch \in [ShFetches -> {"idle"}]
  BY DEF ShInit
<1>3. shSessions \in 0..ShMaxSessions
  BY ShellAssumption DEF ShInit
<1>4. ShTypeOK
  BY <1>1, <1>2, <1>3 DEF ShInit, ShTypeOK
<1> QED
  BY <1>2, <1>4 DEF ShInit, ShInv, NoOrphan

\* communicate() and stop(): when stop() takes the tracked processes it is about
\* to kill them all, and when it has, none of them lives.
LEMMA ShStopKeeps ==
    ASSUME ShInv,
           \/ ShCommunicate \/ ShStopTake \/ ShStopKill \/ ShStopJoined \/ ShStopReturn \/ ShStopDrop
           \/ \E c \in ShCmds : wait_for_exit(c)
    PROVE  ShInv'
<1> USE DEF ShInv
<1>1. CASE ShCommunicate
  BY <1>1, ShellAssumption DEF ShCommunicate, ShTypeOK, NoOrphan
<1>2. CASE ShStopTake
  BY <1>2 DEF ShStopTake, ShTypeOK, NoOrphan
<1>3. CASE ShStopKill
  <2>1. ShTypeOK'
    BY <1>3 DEF ShStopKill, kill_process_group, ShTypeOK, ShDead
  <2>2. NoOrphan'
    BY <1>3 DEF ShStopKill, kill_process_group, ShTypeOK, NoOrphan
  <2> QED
    BY <2>1, <2>2
<1>4. CASE ShStopJoined
  BY <1>4 DEF ShStopJoined, ShTypeOK, NoOrphan
<1>5. CASE ShStopReturn
  BY <1>5 DEF ShStopReturn, ShTypeOK, NoOrphan
<1>6. CASE ShStopDrop
  BY <1>6 DEF ShStopDrop, ShTypeOK, NoOrphan
<1>7. ASSUME NEW c \in ShCmds, wait_for_exit(c)
      PROVE  ShInv'
  BY <1>7 DEF wait_for_exit, ShTypeOK, NoOrphan
<1> QED
  BY <1>1, <1>2, <1>3, <1>4, <1>5, <1>6, <1>7

\* run_command() until its process is tracked: what it spawned it registers with
\* an active channel, or kills.
LEMMA ShStartKeeps ==
    ASSUME ShInv, NEW c \in ShCmds, ShSpawn(c) \/ ShRegister(c) \/ ShLost(c)
    PROVE  ShInv'
<1> USE DEF ShInv, ShGoto
<1>1. CASE ShSpawn(c)
  <2>1. ShTypeOK'
    BY <1>1 DEF ShSpawn, ShTypeOK, ShReturned
  <2>2. NoOrphan'
    BY <1>1 DEF ShSpawn, ShTypeOK, NoOrphan
  <2> QED
    BY <2>1, <2>2
<1>2. CASE ShRegister(c)
  <2>1. ShTypeOK'
    BY <1>2 DEF ShRegister, kill_process_group, ShTypeOK, ShDead
  <2>2. NoOrphan'
    BY <1>2 DEF ShRegister, kill_process_group, ShTypeOK, NoOrphan
  <2> QED
    BY <2>1, <2>2
<1>3. CASE ShLost(c)
  <2>1. ShTypeOK'
    BY <1>3 DEF ShLost, ShTypeOK, ShReturned
  <2>2. NoOrphan'
    BY <1>3 DEF ShLost, ShTypeOK, NoOrphan
  <2> QED
    BY <2>1, <2>2
<1> QED
  BY <1>1, <1>2, <1>3

\* run_command() with its process tracked, to its end or until it is dropped.
LEMMA ShRunKeeps ==
    ASSUME ShInv, NEW c \in ShCmds,
           \/ ShReap(c) \/ ShReturn(c) \/ ShDrop(c) \/ ShDropKill(c) \/ ShProcExit(c)
           \/ \E what \in {"panic", "cap"} : ShRead(c, what)
    PROVE  ShInv'
<1> USE DEF ShInv, ShGoto
<1>1. CASE ShReap(c)
  <2>1. ShTypeOK'
    BY <1>1 DEF ShReap, ShTypeOK, ShDead
  <2>2. NoOrphan'
    BY <1>1 DEF ShReap, ShTypeOK, NoOrphan
  <2> QED
    BY <2>1, <2>2
<1>2. CASE ShReturn(c)
  <2>1. ShTypeOK'
    BY <1>2 DEF ShReturn, ShTypeOK, ShReturned
  <2>2. NoOrphan'
    BY <1>2 DEF ShReturn, ShTypeOK, NoOrphan
  <2> QED
    BY <2>1, <2>2
<1>3. CASE ShDrop(c)
  <2>1. ShTypeOK'
    BY <1>3 DEF ShDrop, ShTypeOK
  <2>2. NoOrphan'
    BY <1>3 DEF ShDrop, ShTypeOK, NoOrphan
  <2> QED
    BY <2>1, <2>2
<1>4. CASE ShDropKill(c)
  <2>1. ShTypeOK'
    BY <1>4 DEF ShDropKill, kill_process_group, ShTypeOK, ShReturned, ShDead
  <2>2. NoOrphan'
    BY <1>4 DEF ShDropKill, kill_process_group, ShTypeOK, NoOrphan
  <2> QED
    BY <2>1, <2>2
<1>5. CASE ShProcExit(c)
  <2>1. ShTypeOK'
    BY <1>5 DEF ShProcExit, ShTypeOK, ShDead
  <2>2. NoOrphan'
    BY <1>5 DEF ShProcExit, ShTypeOK, NoOrphan
  <2> QED
    BY <2>1, <2>2
<1>6. ASSUME NEW what \in {"panic", "cap"}, ShRead(c, what)
      PROVE  ShInv'
  <2>1. ShTypeOK'
    BY <1>6 DEF ShRead, kill_process_group, ShTypeOK, ShDead
  <2>2. NoOrphan'
    BY <1>6 DEF ShRead, kill_process_group, ShTypeOK, NoOrphan
  <2> QED
    BY <2>1, <2>2
<1> QED
  BY <1>1, <1>2, <1>3, <1>4, <1>5, <1>6

\* fetch_file() touches its own state only.
LEMMA ShFetchKeeps ==
    ASSUME ShInv, NEW f \in ShFetches, ShFetchFile(f) \/ ShFetchStep(f, "reading", "end")
    PROVE  ShInv'
<1>1. ASSUME NEW from, NEW to \in {"want", "reading", "end"}, ShFetchStep(f, from, to)
      PROVE  ShInv'
  BY <1>1 DEF ShFetchStep, ShInv, ShTypeOK, NoOrphan
<1> QED
  BY <1>1 DEF ShFetchFile

\* No step of the shell channel leaves a process behind.
LEMMA ShInvStep ==
    ASSUME ShInv, [ShNext]_shVars
    PROVE  ShInv'
<1>1. CASE UNCHANGED shVars
  BY <1>1 DEF shVars, ShInv, ShTypeOK, NoOrphan
<1> QED
  BY <1>1, ShStopKeeps, ShStartKeeps, ShRunKeeps, ShFetchKeeps DEF ShNext, ShStep

\* No process runs behind the shell channel's back: a live one is tracked by an
\* active channel, or the stop() or run_command() that is to kill or register it
\* is in progress.  However stop() races with spawns and dropped calls, for any
\* number of commands.
THEOREM NoProcessIsOrphaned == FairSpec => []NoOrphan
<1>1. Init => ShInv
  BY ShInvInit DEF Init
<1>2. ShInv /\ [Next]_vars => ShInv'
  BY ShInvStep, ChannelSteps
<1>3. ShInv => NoOrphan
  BY DEF ShInv
<1> QED
  BY <1>1, <1>2, <1>3, PTL DEF FairSpec

-----------------------------------------------------------------------------
(* The SSH channel. *)

SsPcs == {"new", "session", "queue", "permit", "open", "orphan"} \union SsEnded
SsConnSet == [up : BOOLEAN, limit : Nat]
SsCallSet == [pc : SsPcs, conn : Nat, sem : Nat, status : {"none", "exited"}]

SsTypes ==
    /\ ssSession \in Nat /\ ssVictim \in Nat
    /\ ssConns \in Seq(SsConnSet) /\ ssSilent \subseteq 1..Len(ssConns)
    /\ ssSems \in Seq(Nat \ {0}) /\ Len(ssSems) > 0
    /\ ssComm \in {"idle", "probe", "publish"} /\ ssStop \in {"idle", "disconnect", "reset"}
    /\ ssCall \in [SsCalls -> SsCallSet]

\* communicate() and stop() exclude each other, and work on an open connection.
SsLifecycle ==
    /\ ssSession <= Len(ssConns)
    /\ ssComm # "idle" => ssSession = 0 /\ ssStop = "idle" /\ Len(ssConns) > 0
    /\ ssStop # "idle" => ssSession = 0 /\ ssVictim \in 1..Len(ssConns)

\* A live connection is published, or being opened, or being stopped.
SsOneUp ==
    \A g \in 1..Len(ssConns) : ssConns[g].up =>
        \/ g = ssSession
        \/ g = ssVictim /\ ssStop = "disconnect"
        \/ g = Len(ssConns) /\ ssComm # "idle"

\* No call has a connection that is not published yet.
SsReferences ==
    \A c \in SsCalls :
        /\ ssCall[c].conn <= Len(ssConns) /\ ssCall[c].sem <= Len(ssSems)
        /\ ssComm # "idle" => ssCall[c].conn < Len(ssConns)
        /\ ssCall[c].pc = "new" => ssCall[c].sem = 0

\* The last semaphore has as many permits as a live connection allows sessions,
\* and the commands on that connection use that semaphore.
SsMatching ==
    \A g \in 1..Len(ssConns) :
        ssConns[g].up /\ ~(g = Len(ssConns) /\ ssComm = "probe") =>
            /\ ssConns[g].limit = ssSems[Len(ssSems)]
            /\ \A c \in SsCalls : ssCall[c].conn = g /\ ssCall[c].sem # 0 => ssCall[c].sem = Len(ssSems)

\* No semaphore gives out more permits than it has.
SsPermits == \A s \in 1..Len(ssSems) : Cardinality(SsHolders(s)) <= ssSems[s]

SsInv ==
    /\ SsTypes /\ SsLifecycle /\ SsOneUp /\ SsReferences /\ SsMatching /\ SsPermits
    /\ SshLostIsNotOk

\* A channel that was never connected keeps all of it.
LEMMA SsInvInit == SsInit => SsInv
<1> SUFFICES ASSUME SsInit PROVE SsInv
  OBVIOUS
<1>1. SsTypes
  BY SshAssumption DEF SsInit, SsTypes, SsCallSet, SsNewCall, SsPcs
<1>2. SsLifecycle /\ SsOneUp /\ SsMatching
  BY DEF SsInit, SsLifecycle, SsOneUp, SsMatching
<1>3. SsReferences /\ SshLostIsNotOk
  BY DEF SsInit, SsReferences, SshLostIsNotOk, SsNewCall
<1>4. SsPermits
  <2>1. SsHolders(1) = {}
    BY DEF SsInit, SsHolders, SsNewCall, SsCalls
  <2>2. Cardinality(SsHolders(1)) = 0
    BY <2>1, FS_EmptySet
  <2>3. Len(ssSems) = 1 /\ ssSems[1] = SsDefaultMax
    BY DEF SsInit
  <2> QED
    BY <2>2, <2>3, SshAssumption DEF SsPermits
<1> QED
  BY <1>1, <1>2, <1>3, <1>4 DEF SsInv

\* The holders of a semaphore can be counted.
LEMMA HoldersFinite ==
    ASSUME NEW s
    PROVE  IsFiniteSet(SsHolders(s)) /\ Cardinality(SsHolders(s)) \in Nat
<1>1. SsHolders(s) \subseteq SsCmds
  BY DEF SsHolders
<1> QED
  BY <1>1, SshAssumption, FS_Subset, FS_CardinalityType

\* set_max_sessions(): nobody holds a permit of the new semaphore.
LEMMA NewSemaphore ==
    ASSUME SsInv, NEW n \in Nat \ {0}, set_max_sessions(n), ssCall' = ssCall
    PROVE  /\ ssSems' \in Seq(Nat \ {0}) /\ Len(ssSems') = Len(ssSems) + 1
           /\ ssSems'[Len(ssSems')] = n
           /\ SsPermits'
<1>1. /\ ssSems' \in Seq(Nat \ {0}) /\ Len(ssSems') = Len(ssSems) + 1
      /\ ssSems'[Len(ssSems) + 1] = n
      /\ \A s \in 1..Len(ssSems) : ssSems'[s] = ssSems[s]
  BY DEF SsInv, SsTypes, set_max_sessions
<1>2. \A s : SsHolders(s)' = SsHolders(s)
  BY DEF SsHolders
<1>3. SsHolders(Len(ssSems) + 1) = {}
  BY DEF SsHolders, SsInv, SsReferences, SsTypes, SsCalls
<1>4. Cardinality(SsHolders(Len(ssSems) + 1)) = 0
  BY <1>3, FS_EmptySet
<1>5. Len(ssSems) \in Nat
  BY DEF SsInv, SsTypes
<1>6. ASSUME NEW s \in 1..Len(ssSems')
      PROVE  Cardinality(SsHolders(s)') <= ssSems'[s]
  <2>1. CASE s = Len(ssSems) + 1
    BY <1>1, <1>2, <1>4, <2>1
  <2>2. CASE s \in 1..Len(ssSems)
    BY <1>1, <1>2, <2>2 DEF SsInv, SsPermits
  <2> QED
    BY <1>1, <1>5, <2>1, <2>2
<1> QED
  BY <1>1, <1>5, <1>6 DEF SsPermits

\* The semaphores and the calls are left alone.
LEMMA PermitsUnchanged ==
    ASSUME SsInv, UNCHANGED <<ssSems, ssCall>>
    PROVE  SsPermits' /\ SshLostIsNotOk'
  BY DEF SsInv, SsPermits, SsHolders, SshLostIsNotOk

\* communicate(): the connection is opened when no other lives, its limit is that
\* of the new semaphore, and calls see it only then.
LEMMA SsCommunicateKeeps ==
    ASSUME SsInv, SsConnect \/ SsProbe \/ SsPublish \/ SsCommDrop
    PROVE  SsInv'
<1> USE DEF SsInv
<1>0. Len(ssConns) \in Nat
  BY DEF SsTypes
<1>1. CASE SsConnect
  <2>1. /\ ssConns' \in Seq(SsConnSet) /\ Len(ssConns') = Len(ssConns) + 1
        /\ \A g \in 1..Len(ssConns) : ssConns'[g] = ssConns[g]
    BY <1>1 DEF SsConnect, SsTypes, SsConnSet
  <2>2. SsTypes'
    BY <1>1, <2>1 DEF SsConnect, SsTypes
  <2>3. SsLifecycle'
    BY <1>0, <1>1, <2>1 DEF SsConnect, SsLifecycle, SsTypes
  <2>4. \A g \in 1..Len(ssConns) : ~ssConns[g].up
    BY <1>1 DEF SsConnect, SsOneUp
  <2>5. SsOneUp'
    BY <1>0, <1>1, <2>1, <2>4 DEF SsConnect, SsOneUp
  <2>6. SsReferences'
    BY <1>0, <1>1, <2>1 DEF SsConnect, SsReferences, SsTypes, SsCallSet
  <2>7. SsMatching'
    BY <1>0, <1>1, <2>1, <2>4 DEF SsConnect, SsMatching
  <2> QED
    BY <1>1, <2>2, <2>3, <2>5, <2>6, <2>7, PermitsUnchanged DEF SsConnect
<1>2. CASE SsProbe
  <2>1. PICK n \in parse_max_sessions : set_max_sessions(n) /\ ssConns' = [ssConns EXCEPT ![Len(ssConns)].limit = n]
    BY <1>2 DEF SsProbe
  <2>2. n \in Nat \ {0}
    BY SshAssumption DEF parse_max_sessions
  <2>3. /\ ssComm = "probe" /\ ssComm' = "publish"
        /\ UNCHANGED <<ssSession, ssSilent, ssStop, ssVictim, ssCall>>
    BY <1>2 DEF SsProbe
  <2>4. /\ ssSems' \in Seq(Nat \ {0}) /\ Len(ssSems') = Len(ssSems) + 1
        /\ ssSems'[Len(ssSems')] = n
        /\ SsPermits'
    BY <2>1, <2>2, <2>3, NewSemaphore
  <2>5. /\ ssConns' \in Seq(SsConnSet) /\ Len(ssConns') = Len(ssConns)
        /\ Len(ssConns) \in 1..Len(ssConns)
        /\ ssConns'[Len(ssConns)].limit = n
    <3>1. Len(ssConns) \in 1..Len(ssConns)
      BY <1>0, <2>3 DEF SsLifecycle
    <3>2. ssConns[Len(ssConns)] \in SsConnSet
      BY <3>1 DEF SsTypes
    <3>3. [ssConns[Len(ssConns)] EXCEPT !.limit = n] \in SsConnSet
      BY <2>2, <3>2 DEF SsConnSet
    <3>4. ssConns' = [ssConns EXCEPT ![Len(ssConns)] = [ssConns[Len(ssConns)] EXCEPT !.limit = n]]
      BY <2>1
    <3>5. ssConns' \in Seq(SsConnSet) /\ Len(ssConns') = Len(ssConns)
      BY <3>1, <3>3, <3>4 DEF SsTypes
    <3>6. ssConns'[Len(ssConns)].limit = n
      BY <3>1, <3>2, <3>4 DEF SsTypes, SsConnSet
    <3> QED
      BY <3>1, <3>5, <3>6
  <2>6. \A g \in 1..Len(ssConns) : ssConns'[g].up => g = Len(ssConns)
    <3>1. \A g \in 1..Len(ssConns) : ssConns[g].up => g = Len(ssConns)
      BY <2>3 DEF SsOneUp, SsLifecycle
    <3>2. \A g \in 1..Len(ssConns) : g # Len(ssConns) => ssConns'[g] = ssConns[g]
      BY <2>1 DEF SsTypes
    <3> QED
      BY <3>1, <3>2
  <2>7. SsTypes'
    BY <2>3, <2>4, <2>5 DEF SsTypes
  <2>8. SsLifecycle' /\ SsOneUp'
    BY <2>3, <2>5, <2>6 DEF SsLifecycle, SsOneUp
  <2>9. SsReferences'
    BY <2>3, <2>4, <2>5 DEF SsReferences, SsTypes, SsCallSet
  <2>10. SsMatching'
    <3>1. \A c \in SsCalls : ssCall[c].conn \in Nat /\ ssCall[c].conn # Len(ssConns)
      BY <1>0, <2>3 DEF SsReferences, SsTypes, SsCallSet
    <3> QED
      BY <2>3, <2>4, <2>5, <2>6, <3>1 DEF SsMatching
  <2>11. SshLostIsNotOk'
    BY <2>3 DEF SshLostIsNotOk
  <2> QED
    BY <2>4, <2>7, <2>8, <2>9, <2>10, <2>11
<1>3. CASE SsPublish
  <2>1. SsTypes' /\ SsLifecycle' /\ SsOneUp' /\ SsReferences'
    BY <1>0, <1>3 DEF SsPublish, SsTypes, SsLifecycle, SsOneUp, SsReferences
  <2>2. SsMatching'
    BY <1>3 DEF SsPublish, SsMatching
  <2> QED
    BY <1>3, <2>1, <2>2, PermitsUnchanged DEF SsPublish
<1>4. CASE SsCommDrop
  <2>1. /\ ssConns' \in Seq(SsConnSet) /\ Len(ssConns') = Len(ssConns)
        /\ \A g \in 1..Len(ssConns) : ~ssConns'[g].up
    BY <1>0, <1>4 DEF SsCommDrop, SsCloses, SsTypes, SsConnSet, SsClosed, SsOneUp, SsLifecycle
  <2>2. /\ UNCHANGED <<ssSession, ssSems, ssStop, ssVictim, ssCall>> /\ ssComm' = "idle"
        /\ ssSilent' \subseteq ssSilent
    BY <1>4 DEF SsCommDrop, SsCloses
  <2>3. SsTypes'
    BY <2>1, <2>2 DEF SsTypes
  <2>4. SsLifecycle' /\ SsOneUp' /\ SsReferences' /\ SsMatching'
    BY <2>1, <2>2 DEF SsLifecycle, SsOneUp, SsReferences, SsMatching
  <2> QED
    BY <1>4, <2>3, <2>4, PermitsUnchanged DEF SsCommDrop
<1> QED
  BY <1>1, <1>2, <1>3, <1>4

\* stop(), and a connection that is lost: with the connection its limit is gone.
LEMMA SsStopKeeps ==
    ASSUME SsInv,
           \/ SsStopTake \/ SsStopDisconnect \/ SsStopReset \/ SsStopDrop
           \/ \E g \in 1..Len(ssConns) : SsGoesSilent(g) \/ SsConnLost(g)
    PROVE  SsInv'
<1> USE DEF SsInv
<1>0. Len(ssConns) \in Nat
  BY DEF SsTypes
<1>1. CASE SsStopTake
  <2>1. SsTypes' /\ SsLifecycle' /\ SsOneUp' /\ SsReferences'
    BY <1>0, <1>1 DEF SsStopTake, SsTypes, SsLifecycle, SsOneUp, SsReferences
  <2>2. SsMatching'
    BY <1>1 DEF SsStopTake, SsMatching
  <2> QED
    BY <1>1, <2>1, <2>2, PermitsUnchanged DEF SsStopTake
<1>2. CASE SsStopDisconnect
  <2>1. /\ ssConns' \in Seq(SsConnSet) /\ Len(ssConns') = Len(ssConns)
        /\ \A g \in 1..Len(ssConns) : ~ssConns'[g].up
    BY <1>0, <1>2 DEF SsStopDisconnect, SsCloses, SsTypes, SsConnSet, SsClosed, SsOneUp, SsLifecycle
  <2>2. /\ UNCHANGED <<ssSession, ssComm, ssCall>> /\ ssStop = "disconnect"
        /\ ssStop' \in {"idle", "reset"} /\ ssVictim' \in {0, ssVictim}
        /\ ssStop' # "idle" => ssVictim' = ssVictim
        /\ ssSilent' \subseteq ssSilent
    BY <1>2 DEF SsStopDisconnect, SsCloses
  <2>3. /\ ssSems' \in Seq(Nat \ {0}) /\ Len(ssSems') = Len(ssSems) + 1
        /\ SsPermits'
    BY <1>2, <2>2, NewSemaphore, SshAssumption DEF SsStopDisconnect
  <2>4. SsTypes'
    BY <2>1, <2>2, <2>3 DEF SsTypes
  <2>6. SsLifecycle' /\ SshLostIsNotOk'
    BY <2>1, <2>2, <2>3 DEF SsLifecycle, SshLostIsNotOk
  <2>7. SsOneUp' /\ SsMatching'
    BY <2>1 DEF SsOneUp, SsMatching
  <2>5. SsReferences'
    BY <2>1, <2>2, <2>3 DEF SsReferences, SsTypes, SsCallSet
  <2> QED
    BY <2>3, <2>4, <2>5, <2>6, <2>7
<1>3. CASE SsStopReset
  <2>1. SsTypes' /\ SsLifecycle' /\ SsOneUp' /\ SsReferences' /\ SsMatching'
    BY <1>3 DEF SsStopReset, SsTypes, SsLifecycle, SsOneUp, SsReferences, SsMatching
  <2> QED
    BY <1>3, <2>1, PermitsUnchanged DEF SsStopReset
<1>4. ASSUME NEW g \in 1..Len(ssConns), SsCloses(g), UNCHANGED <<ssSession, ssSems, ssComm, ssCall>>,
             UNCHANGED <<ssStop, ssVictim>> \/ (ssStop' = "idle" /\ ssVictim' = 0 /\ g = ssVictim)
      PROVE  SsInv'
  <2>1. /\ ssConns' \in Seq(SsConnSet) /\ Len(ssConns') = Len(ssConns)
        /\ \A h \in 1..Len(ssConns) : ssConns'[h].up => h # g /\ ssConns'[h] = ssConns[h]
        /\ ssSilent' \subseteq ssSilent
    BY <1>0, <1>4 DEF SsCloses, SsTypes, SsConnSet, SsClosed
  <2>2. SsTypes'
    BY <1>4, <2>1 DEF SsTypes
  <2>3. SsLifecycle' /\ SsReferences'
    BY <1>4, <2>1 DEF SsLifecycle, SsReferences
  <2>4. \A h \in 1..Len(ssConns) : ssConns'[h].up => ssConns[h].up /\ h # g
    BY <2>1
  <2>5. SsOneUp'
    <3> SUFFICES ASSUME NEW h \in 1..Len(ssConns), ssConns'[h].up
                 PROVE  \/ h = ssSession
                        \/ h = ssVictim' /\ ssStop' = "disconnect"
                        \/ h = Len(ssConns) /\ ssComm # "idle"
      BY <1>4, <2>1 DEF SsOneUp
    <3>1. ssConns[h].up /\ h # g
      BY <2>4
    <3> QED
      BY <1>4, <3>1 DEF SsOneUp
  <2>6. SsMatching'
    <3> SUFFICES ASSUME NEW h \in 1..Len(ssConns), ssConns'[h].up, ~(h = Len(ssConns) /\ ssComm = "probe")
                 PROVE  /\ ssConns'[h].limit = ssSems[Len(ssSems)]
                        /\ \A c \in SsCalls : ssCall[c].conn = h /\ ssCall[c].sem # 0 => ssCall[c].sem = Len(ssSems)
      BY <1>4, <2>1 DEF SsMatching
    <3>1. ssConns'[h] = ssConns[h] /\ ssConns[h].up
      BY <2>1, <2>4
    <3> QED
      BY <3>1 DEF SsMatching
  <2> QED
    BY <1>4, <2>2, <2>3, <2>5, <2>6, PermitsUnchanged
<1>5. CASE SsStopDrop
  BY <1>4, <1>5 DEF SsStopDrop, SsLifecycle
<1>6. ASSUME NEW g \in 1..Len(ssConns), SsConnLost(g)
      PROVE  SsInv'
  BY <1>4, <1>6 DEF SsConnLost
<1>7. ASSUME NEW g \in 1..Len(ssConns), SsGoesSilent(g)
      PROVE  SsInv'
  <2>1. /\ UNCHANGED <<ssSession, ssConns, ssSems, ssComm, ssStop, ssVictim, ssCall>>
        /\ ssSilent' \subseteq 1..Len(ssConns)
    BY <1>7 DEF SsGoesSilent, SsTypes
  <2>2. SsTypes' /\ SsLifecycle' /\ SsOneUp' /\ SsReferences' /\ SsMatching'
    BY <2>1 DEF SsTypes, SsLifecycle, SsOneUp, SsReferences, SsMatching
  <2> QED
    BY <2>1, <2>2, PermitsUnchanged
<1> QED
  BY <1>1, <1>2, <1>3, <1>5, <1>6, <1>7

\* A step of one call: it takes the published session or keeps its own, takes the
\* current semaphore or keeps its own, and gets a permit only if one is free.
LEMMA SsCallKeeps ==
    ASSUME SsInv, NEW c \in SsCalls, NEW call \in SsCallSet, SsBecomes(c, call),
           \/ call.conn \in {0, ssCall[c].conn}
           \/ call.conn = ssSession /\ ssSession # 0 /\ call.sem = 0,
           call.sem \in {0, ssCall[c].sem, Len(ssSems)},
           call.pc = "new" => call.sem = 0,
           call.pc = "ok" => call.status = "exited",
           call.sem # 0 /\ call.pc \in {"permit", "open"} =>
               /\ call.sem = ssCall[c].sem
               /\ \/ ssCall[c].pc \in {"permit", "open"}
                  \/ Cardinality(SsHolders(call.sem)) < ssSems[call.sem]
    PROVE  SsInv'
<1> USE DEF SsInv
<1>1. /\ UNCHANGED <<ssSession, ssConns, ssSilent, ssSems, ssComm, ssStop, ssVictim>>
      /\ ssCall' \in [SsCalls -> SsCallSet]
      /\ ssCall'[c] = call /\ \A d \in SsCalls : d # c => ssCall'[d] = ssCall[d]
  BY DEF SsBecomes, SsTypes
<1>2. SsTypes' /\ SsLifecycle' /\ SsOneUp'
  BY <1>1 DEF SsTypes, SsLifecycle, SsOneUp
<1>3. SshLostIsNotOk'
  BY <1>1 DEF SshLostIsNotOk
<1>4. call.sem \in 0..Len(ssSems) /\ call.conn \in 0..Len(ssConns)
  BY DEF SsReferences, SsTypes, SsCallSet, SsLifecycle
<1>5. ssComm # "idle" => call.conn < Len(ssConns)
  BY DEF SsReferences, SsTypes, SsCallSet, SsLifecycle
<1>6. SsReferences'
  <2> SUFFICES ASSUME NEW d \in SsCalls
               PROVE  /\ ssCall'[d].conn <= Len(ssConns) /\ ssCall'[d].sem <= Len(ssSems)
                      /\ ssComm # "idle" => ssCall'[d].conn < Len(ssConns)
                      /\ ssCall'[d].pc = "new" => ssCall'[d].sem = 0
    BY <1>1 DEF SsReferences
  <2>1. CASE d = c
    BY <1>1, <1>4, <1>5, <2>1
  <2>2. CASE d # c
    BY <1>1, <2>2 DEF SsReferences
  <2> QED
    BY <2>1, <2>2
<1>7. SsMatching'
  <2> SUFFICES ASSUME NEW g \in 1..Len(ssConns), ssConns[g].up, ~(g = Len(ssConns) /\ ssComm = "probe"),
                      NEW d \in SsCalls, ssCall'[d].conn = g, ssCall'[d].sem # 0
               PROVE  ssCall'[d].sem = Len(ssSems)
    BY <1>1 DEF SsMatching
  <2>1. CASE d # c
    BY <1>1, <2>1 DEF SsMatching
  <2>2. CASE d = c
    <3>1. call.conn = ssCall[c].conn /\ call.conn = g
      BY <1>1, <2>2
    <3> QED
      BY <1>1, <2>2, <3>1 DEF SsMatching
  <2> QED
    BY <2>1, <2>2
<1>8. SsPermits'
  <2> SUFFICES ASSUME NEW s \in 1..Len(ssSems)
               PROVE  Cardinality(SsHolders(s)') <= ssSems[s]
    BY <1>1 DEF SsPermits
  <2>1. Cardinality(SsHolders(s)) <= ssSems[s] /\ ssSems[s] \in Nat
    BY DEF SsPermits, SsTypes
  <2>2. CASE SsHolders(s)' \subseteq SsHolders(s)
    <3>1. Cardinality(SsHolders(s)') <= Cardinality(SsHolders(s))
      BY <2>2, HoldersFinite, FS_Subset
    <3>2. IsFiniteSet(SsHolders(s)')
      BY <2>2, HoldersFinite, FS_Subset
    <3>3. Cardinality(SsHolders(s)') \in Nat
      BY <3>2, FS_CardinalityType
    <3> QED
      BY <2>1, <3>1, <3>3, HoldersFinite
  <2>3. CASE ~(SsHolders(s)' \subseteq SsHolders(s))
    <3>1. /\ call.sem = s /\ call.pc \in {"permit", "open"} /\ c \notin SsHolders(s)
          /\ SsHolders(s)' \subseteq SsHolders(s) \union {c} /\ c \in SsCmds
      BY <1>1, <2>3 DEF SsHolders, SsCalls
    <3>2. Cardinality(SsHolders(s)) < ssSems[s]
      BY <3>1 DEF SsHolders
    <3>3. /\ IsFiniteSet(SsHolders(s) \union {c})
          /\ Cardinality(SsHolders(s) \union {c}) = Cardinality(SsHolders(s)) + 1
      BY <3>1, HoldersFinite, FS_AddElement
    <3>4. /\ Cardinality(SsHolders(s)') <= Cardinality(SsHolders(s) \union {c})
          /\ IsFiniteSet(SsHolders(s)')
      BY <3>1, <3>3, FS_Subset
    <3>5. Cardinality(SsHolders(s)') \in Nat
      BY <3>4, FS_CardinalityType
    <3> QED
      BY <2>1, <3>2, <3>3, <3>4, <3>5, HoldersFinite
  <2> QED
    BY <2>2, <2>3
<1> QED
  BY <1>2, <1>3, <1>6, <1>7, <1>8

\* A call that returns holds nothing: neither connection nor permit.
LEMMA SsEndsKeeps ==
    ASSUME SsInv, NEW c \in SsCalls, NEW pc \in SsEnded, SsEnds(c, pc),
           pc = "ok" => ssCall[c].status = "exited"
    PROVE  SsInv'
<1> DEFINE call == [SsNewCall EXCEPT !.pc = pc, !.status = ssCall[c].status]
<1>1. ssCall[c].status \in {"none", "exited"}
  BY DEF SsInv, SsTypes, SsCallSet
<1>2. /\ call \in SsCallSet /\ call.conn = 0 /\ call.sem = 0 /\ call.pc = pc
      /\ call.status = ssCall[c].status
  BY <1>1 DEF SsNewCall, SsCallSet, SsPcs
<1>3. SsBecomes(c, call)
  BY DEF SsEnds
<1>4. pc # "new"
  BY DEF SsEnded
<1> HIDE DEF call
<1> QED
  BY <1>2, <1>3, <1>4, SsCallKeeps

\* A call that only moves on keeps what it has.
LEMMA SsGoesKeeps ==
    ASSUME SsInv, NEW c \in SsCalls, NEW pc \in {"permit", "open", "orphan"}, SsGoes(c, pc),
           \/ pc = "permit" /\ Cardinality(SsHolders(ssCall[c].sem)) < ssSems[ssCall[c].sem]
           \/ pc = "open" /\ ssCall[c].pc = "permit"
           \/ pc = "orphan"
    PROVE  SsInv'
<1> DEFINE call == [ssCall[c] EXCEPT !.pc = pc]
<1>1. ssCall[c] \in SsCallSet
  BY DEF SsInv, SsTypes
<1>2. /\ call \in SsCallSet /\ call.conn = ssCall[c].conn /\ call.sem = ssCall[c].sem
      /\ call.pc = pc
  BY <1>1 DEF SsCallSet, SsPcs
<1>3. SsBecomes(c, call)
  BY DEF SsGoes
<1> HIDE DEF call
<1> QED
  BY <1>2, <1>3, SsCallKeeps

\* The steps of run_command(), ping() and fetch_file().
LEMMA SsCallStepKeeps ==
    ASSUME SsInv, NEW c \in SsCalls,
           \/ session_arc(c) \/ max_sessions(c) \/ acquire_owned(c) \/ SsOpen(c) \/ SsClose(c)
           \/ SsExitStatus(c) \/ SsOverCap(c) \/ SsDrop(c) \/ SsOrphanEnds(c)
    PROVE  SsInv'
<1>0. ssCall[c] \in SsCallSet
  BY DEF SsInv, SsTypes
<1>1. CASE session_arc(c)
  <2>1. CASE SsEnds(c, "err")
    BY <2>1, SsEndsKeeps DEF SsEnded
  <2>2. ASSUME NEW pc \in {"session", "permit"}, ssSession # 0,
               SsBecomes(c, [ssCall[c] EXCEPT !.conn = ssSession, !.pc = pc])
        PROVE  SsInv'
    <3> DEFINE call == [ssCall[c] EXCEPT !.conn = ssSession, !.pc = pc]
    <3>1. ssCall[c].sem = 0
      BY <1>1 DEF session_arc, SsInv, SsReferences
    <3>2. ssSession \in Nat
      BY DEF SsInv, SsTypes
    <3>3. /\ call \in SsCallSet /\ call.conn = ssSession /\ call.sem = 0 /\ call.pc = pc
      BY <1>0, <3>1, <3>2 DEF SsCallSet, SsPcs
    <3>4. SsBecomes(c, call)
      BY <2>2
    <3> HIDE DEF call
    <3> QED
      BY <2>2, <3>3, <3>4, SsCallKeeps
  <2> QED
    BY <1>1, <2>1, <2>2 DEF session_arc
<1>2. CASE max_sessions(c)
  <2> DEFINE call == [ssCall[c] EXCEPT !.pc = "queue", !.sem = Len(ssSems)]
  <2>1. Len(ssSems) \in Nat
    BY DEF SsInv, SsTypes
  <2>2. /\ call \in SsCallSet /\ call.conn = ssCall[c].conn /\ call.sem = Len(ssSems)
        /\ call.pc = "queue"
    BY <1>0, <2>1 DEF SsCallSet, SsPcs
  <2>3. SsBecomes(c, call)
    BY <1>2 DEF max_sessions
  <2> HIDE DEF call
  <2> QED
    BY <2>2, <2>3, SsCallKeeps
<1>3. CASE acquire_owned(c)
  BY <1>3, SsGoesKeeps DEF acquire_owned
<1>4. CASE SsOpen(c)
  <2>1. SsGoes(c, "open") \/ SsEnds(c, "err")
    BY <1>4 DEF SsOpen
  <2> QED
    BY <1>4, <2>1, SsGoesKeeps, SsEndsKeeps DEF SsOpen, SsEnded
<1>5. CASE SsClose(c)
  BY <1>5, SsEndsKeeps DEF SsClose, SsEnded
<1>6. CASE SsExitStatus(c)
  <2> DEFINE call == [ssCall[c] EXCEPT !.status = "exited"]
  <2>1. /\ call \in SsCallSet /\ call.conn = ssCall[c].conn /\ call.sem = ssCall[c].sem
        /\ call.pc = ssCall[c].pc /\ ssCall[c].pc = "open"
    BY <1>0, <1>6 DEF SsCallSet, SsExitStatus
  <2>2. SsBecomes(c, call)
    BY <1>6 DEF SsExitStatus
  <2> HIDE DEF call
  <2> QED
    BY <2>1, <2>2, SsCallKeeps
<1>7. CASE SsOverCap(c) \/ SsOrphanEnds(c)
  BY <1>7, SsEndsKeeps DEF SsOverCap, SsOrphanEnds, SsEnded
<1>8. CASE SsDrop(c)
  <2>1. SsGoes(c, "orphan") \/ SsEnds(c, "err")
    BY <1>8 DEF SsDrop
  <2> QED
    BY <2>1, SsGoesKeeps, SsEndsKeeps DEF SsEnded
<1> QED
  BY <1>1, <1>2, <1>3, <1>4, <1>5, <1>6, <1>7, <1>8

\* No step of the SSH channel breaks it.
LEMMA SsInvStep ==
    ASSUME SsInv, [SsNext]_ssVars
    PROVE  SsInv'
<1>1. CASE UNCHANGED ssVars
  <2>1. UNCHANGED <<ssSession, ssConns, ssSilent, ssSems, ssComm, ssStop, ssVictim, ssCall>>
    BY <1>1 DEF ssVars
  <2>2. SsTypes' /\ SsLifecycle' /\ SsOneUp' /\ SsReferences' /\ SsMatching'
    BY <2>1 DEF SsInv, SsTypes, SsLifecycle, SsOneUp, SsReferences, SsMatching
  <2> QED
    BY <2>1, <2>2, PermitsUnchanged DEF SsInv
<1>2. CASE SsNext
  BY <1>2, SsCommunicateKeeps, SsStopKeeps, SsCallStepKeeps DEF SsNext, SsStep
<1> QED
  BY <1>1, <1>2

\* The permits in use bound the commands on a live connection.
LEMMA CommandsHoldPermits == SsInv => SshWithinLimit
<1> SUFFICES ASSUME SsInv, NEW g \in 1..Len(ssConns), ssConns[g].up
             PROVE  Cardinality({c \in SsCmds : /\ IsCommand(c) /\ ssCall[c].conn = g
                                                 /\ ssCall[c].pc \in {"permit", "open"}})
                      <= ssConns[g].limit
  BY DEF SshWithinLimit
<1> USE DEF SsInv
<1> DEFINE on == {c \in SsCmds : /\ IsCommand(c) /\ ssCall[c].conn = g
                                /\ ssCall[c].pc \in {"permit", "open"}}
<1>1. Len(ssSems) \in 1..Len(ssSems) /\ ssSems[Len(ssSems)] \in Nat
  BY DEF SsTypes
<1>2. CASE g = Len(ssConns) /\ ssComm = "probe"
  <2>1. on = {}
    BY <1>2 DEF SsReferences, SsCalls
  <2>2. Cardinality(on) = 0
    BY <2>1, FS_EmptySet
  <2>3. ssConns[g].limit \in Nat
    <3>1. ssConns[g] \in SsConnSet
      BY DEF SsTypes
    <3> QED
      BY <3>1 DEF SsConnSet
  <2> HIDE DEF on
  <2>4. Cardinality(on) <= ssConns[g].limit
    BY <2>2, <2>3
  <2> QED
    BY <2>4 DEF on
<1>3. CASE ~(g = Len(ssConns) /\ ssComm = "probe")
  <2>1. on \subseteq SsHolders(Len(ssSems))
    BY <1>3 DEF SsMatching, SsHolders, IsCommand, SsCalls
  <2>2. IsFiniteSet(on) /\ Cardinality(on) <= Cardinality(SsHolders(Len(ssSems)))
    BY <2>1, HoldersFinite, FS_Subset
  <2>3. Cardinality(on) \in Nat
    BY <2>2, FS_CardinalityType
  <2>4. Cardinality(SsHolders(Len(ssSems))) <= ssSems[Len(ssSems)]
    BY <1>1 DEF SsPermits
  <2>5. ssConns[g].limit = ssSems[Len(ssSems)]
    BY <1>3 DEF SsMatching
  <2> HIDE DEF on
  <2>6. Cardinality(on) <= ssConns[g].limit
    BY <1>1, <2>2, <2>3, <2>4, <2>5, HoldersFinite
  <2> QED
    BY <2>6 DEF on
<1> QED
  BY <1>2, <1>3

\* The invariant of the SSH channel holds throughout.
LEMMA SshInvariant == FairSpec => []SsInv
<1>1. Init => SsInv
  BY SsInvInit DEF Init
<1>2. SsInv /\ [Next]_vars => SsInv'
  BY SsInvStep, ChannelSteps
<1> QED
  BY <1>1, <1>2, PTL DEF FairSpec

\* The commands that hold a permit never ask a live connection for more sessions
\* than communicate() found it to allow, for any number of commands and however
\* often stop() and communicate() replace session and semaphore under them.
THEOREM SshStaysWithinLimit == FairSpec => []SshWithinLimit
  BY SshInvariant, CommandsHoldPermits, PTL

\* run_command() never returns success for a command whose exit status did not
\* arrive before its connection was lost.
THEOREM SshNeverInventsSuccess == FairSpec => []SshLostIsNotOk
<1>1. SsInv => SshLostIsNotOk
  BY DEF SsInv
<1> QED
  BY <1>1, SshInvariant, PTL

-----------------------------------------------------------------------------
(* The QEMU channel. *)

QmOps == {"idle", "communicate", "stop", "ping", "run", "fetch"}
QmPlaces == QmDirs \union {QmNoDir, "home"}
QmLineSet == [id : Nat, part : {"cd", "cmd", "test", "cat"}, dir : QmPlaces]
QmAnswerSet == [id : Nat, part : {"cd", "cmd", "test", "cat"}, ran : QmPlaces, ok : BOOLEAN]
QmCallSet == [op : QmOps, id : Nat, dir : QmPlaces, locks : SUBSET {"comm", "cmd", "fetch"},
              pc : {"idle", "begin", "login", "stop", "poweroff", "kill", "lockers", "done",
                    "cd", "cmd", "test", "cat"}]

QmTypes ==
    /\ qmVM \in {"off", "boot", "shell", "panic"} /\ qmDir \in QmPlaces
    /\ qmIn \in Seq(QmLineSet) /\ qmOut \in Seq(QmAnswerSet) /\ qmTransport \in Seq(Nat)
    /\ qmCall \in QmCallSet /\ qmCalls \in Nat

\* Which call may be where.
QmPlace ==
    /\ qmCall.op = "idle" <=> qmCall.pc = "idle"
    /\ qmCall.pc = "cd" => qmCall.op = "run"
    /\ qmCall.pc = "cmd" => qmCall.op \in {"run", "ping"}
    /\ qmCall.pc \in {"test", "cat"} => qmCall.op = "fetch"
    /\ qmCall.pc \in {"login", "stop"} => qmCall.op = "communicate"
    /\ qmCall.pc \in {"poweroff", "kill", "lockers", "done"} => qmCall.op \in {"communicate", "stop"}
    /\ qmCall.pc \in {"lockers", "done"} => ~is_active

\* What is in the two pipes belongs to calls made; nothing to one that begins.
QmIds ==
    /\ qmCall.op # "idle" => qmCall.id = qmCalls
    /\ \A k \in 1..Len(qmIn) : qmIn[k].id <= qmCalls /\ (qmCall.pc = "begin" => qmIn[k].id < qmCalls)
    /\ \A k \in 1..Len(qmOut) : qmOut[k].id <= qmCalls /\ (qmCall.pc = "begin" => qmOut[k].id < qmCalls)

\* The line a call waits for is the last one, and the only one of that call.
QmOwnLine ==
    QmWaiting => \A k \in 1..Len(qmIn) : qmIn[k].id = qmCall.id =>
        k = Len(qmIn) /\ qmIn[k].part = qmCall.pc /\ qmIn[k].dir = qmCall.dir

\* Once it is answered the guest has nothing left to do, and the answer tells
\* what the guest's shell and the transport are in now.
QmAnswered(answer) ==
    /\ qmIn = <<>>
    /\ qmCall.pc = "cd" /\ answer.ok => answer.ran = qmCall.dir /\ (is_active => qmDir = qmCall.dir)
    /\ qmCall.pc = "cmd" /\ qmCall.op = "run" /\ qmCall.dir # QmNoDir => answer.ran = qmCall.dir
    /\ qmCall.pc = "cat" /\ answer.ok =>
            qmTransport # <<>> /\ qmTransport[Len(qmTransport)] = qmCall.id

QmOwnAnswer ==
    QmWaiting => \A k \in 1..Len(qmOut) : qmOut[k].id = qmCall.id =>
        /\ qmCall.pc \in {"cd", "test"} => qmOut[k].part = qmCall.pc
        /\ qmOut[k].part = qmCall.pc => QmAnswered(qmOut[k])

\* A command with a directory is all the guest has to do, in that directory.
QmInPlace ==
    QmAt("run", "cmd") /\ qmCall.dir # QmNoDir /\ qmIn # <<>> =>
        Len(qmIn) = 1 /\ qmIn[1].part # "cd" /\ qmDir = qmCall.dir

\* All of it but what the last call returned.
QmCore == QmTypes /\ QmPlace /\ QmIds /\ QmOwnLine /\ QmOwnAnswer /\ QmInPlace

QmInv == QmCore /\ QemuAnswers

\* A machine that never ran has an empty line.
LEMMA QmInvInit == QmInit => QmInv
<1> SUFFICES ASSUME QmInit PROVE QmInv
  OBVIOUS
<1>1. QmTypes
  BY DEF QmInit, QmTypes, QmIdle, QmCallSet, QmOps, QmPlaces
<1>2. QmPlace /\ QmOwnLine /\ QmOwnAnswer /\ QmInPlace
  BY DEF QmInit, QmPlace, QmOwnLine, QmOwnAnswer, QmInPlace, QmIdle, QmWaiting, QmAt
<1>3. QmIds
  BY DEF QmInit, QmIds, QmIdle
<1>4. QemuAnswers
  BY DEF QmInit, QemuAnswers, QmNothingYet
<1> QED
  BY <1>1, <1>2, <1>3, <1>4 DEF QmCore, QmInv

\* What is in the pipes has an identity.
LEMMA QmPipes ==
    ASSUME QmCore
    PROVE  /\ \A k \in 1..Len(qmIn) : qmIn[k] \in QmLineSet /\ qmIn[k].id \in Nat /\ qmIn[k].id <= qmCalls
           /\ \A k \in 1..Len(qmOut) : qmOut[k] \in QmAnswerSet /\ qmOut[k].id \in Nat /\ qmOut[k].id <= qmCalls
<1>1. \A k \in 1..Len(qmIn) : qmIn[k] \in QmLineSet
  BY DEF QmCore, QmTypes
<1>2. \A k \in 1..Len(qmOut) : qmOut[k] \in QmAnswerSet
  BY DEF QmCore, QmTypes
<1>3. /\ \A line \in QmLineSet : line.id \in Nat
      /\ \A answer \in QmAnswerSet : answer.id \in Nat
  BY DEF QmLineSet, QmAnswerSet
<1> QED
  BY <1>1, <1>2, <1>3 DEF QmCore, QmIds

\* The call returns: nobody waits for what is left in the pipes.
LEMMA QmIdleKeeps ==
    ASSUME QmCore, qmCall' = QmIdle, UNCHANGED <<qmIn, qmDir, qmCalls>>,
           qmVM' \in {"off", "boot", "shell", "panic"}, qmTransport' \in Seq(Nat),
           qmOut' \in Seq(QmAnswerSet), \A k \in 1..Len(qmOut') : qmOut'[k].id <= qmCalls
    PROVE  QmCore'
<1> USE DEF QmCore
<1>0. QmIdle \in QmCallSet /\ QmIdle.op = "idle" /\ QmIdle.pc = "idle"
  BY DEF QmIdle, QmCallSet, QmOps, QmPlaces
<1>1. QmTypes'
  BY <1>0 DEF QmTypes
<1>2. QmPlace'
  BY <1>0 DEF QmPlace
<1>3. QmOwnLine' /\ QmOwnAnswer' /\ QmInPlace'
  BY <1>0 DEF QmOwnLine, QmOwnAnswer, QmInPlace, QmWaiting, QmAt
<1>4. QmIds'
  BY <1>0 DEF QmIds
<1> QED
  BY <1>1, <1>2, <1>3, <1>4

\* What a wait loses is the first part of the pipe.
LEMMA QmSubSeqKeeps ==
    ASSUME QmCore, NEW k \in 1..(Len(qmOut) + 1), qmOut' = SubSeq(qmOut, k, Len(qmOut))
    PROVE  /\ qmOut' \in Seq(QmAnswerSet) /\ Len(qmOut') = Len(qmOut) - k + 1
           /\ \A j \in 1..Len(qmOut') : j + k - 1 \in 1..Len(qmOut) /\ qmOut'[j] = qmOut[j + k - 1]
           /\ \A j \in 1..Len(qmOut') : qmOut'[j].id <= qmCalls
<1>1. qmOut \in Seq(QmAnswerSet) /\ Len(qmOut) \in Nat
  BY DEF QmCore, QmTypes
<1>2. /\ qmOut' \in Seq(QmAnswerSet) /\ Len(qmOut') = Len(qmOut) - k + 1
      /\ \A j \in 1..Len(qmOut') : j + k - 1 \in 1..Len(qmOut) /\ qmOut'[j] = qmOut[j + k - 1]
  BY <1>1
<1>3. \A j \in 1..Len(qmOut) : qmOut[j].id <= qmCalls
  BY DEF QmCore, QmIds
<1> QED
  BY <1>2, <1>3

\* A call that fails, or succeeds without an answer, tells nothing wrong.
LEMMA QmFailKeeps ==
    ASSUME NEW res, QmFail(res),
           res = "ok" => qmCall.op \notin {"run", "fetch"} /\ (qmCall.op = "stop" => qmVM' = "off")
    PROVE  QemuAnswers'
<1>1. /\ qmLast'.ans = QmNoAns /\ qmLast'.op = qmCall.op /\ qmLast'.res = res
      /\ qmCall' = QmIdle
  BY DEF QmFail, QmReturn
<1> QED
  BY <1>1 DEF QemuAnswers, is_active

\* A step within communicate() or stop().
LEMMA QmMoves ==
    ASSUME QmInv, qmCall.pc \notin {"idle"},
           qmCall' \in QmCallSet, qmCall'.op = qmCall.op, qmCall'.id = qmCall.id,
           qmCall'.pc \in {"login", "stop", "poweroff", "kill", "lockers", "done"}, QmPlace',
           qmIn' \in {qmIn, <<>>}, qmOut' \in {qmOut, <<>>}, qmTransport' \in {qmTransport, <<>>},
           qmDir' \in {qmDir, "home"}, qmVM' \in {"off", "boot", "shell", "panic"},
           UNCHANGED <<qmCalls, qmLast>>
    PROVE  QmInv'
<1> USE DEF QmInv, QmCore
<1>1. qmIn' \in Seq(QmLineSet) /\ qmOut' \in Seq(QmAnswerSet) /\ qmTransport' \in Seq(Nat)
  <2>1. <<>> \in Seq(QmLineSet) /\ <<>> \in Seq(QmAnswerSet) /\ <<>> \in Seq(Nat)
    OBVIOUS
  <2>2. qmIn \in Seq(QmLineSet) /\ qmOut \in Seq(QmAnswerSet) /\ qmTransport \in Seq(Nat)
    BY DEF QmTypes
  <2> QED
    BY <2>1, <2>2
<1>2. QmTypes'
  BY <1>1 DEF QmTypes, QmPlaces
<1>3. QmOwnLine' /\ QmOwnAnswer' /\ QmInPlace'
  BY DEF QmOwnLine, QmOwnAnswer, QmInPlace, QmWaiting, QmAt
<1>4. \A k \in 1..Len(qmIn') : qmIn'[k].id <= qmCalls
  BY DEF QmIds
<1>5. \A k \in 1..Len(qmOut') : qmOut'[k].id <= qmCalls
  BY DEF QmIds
<1>6. QmIds'
  BY <1>4, <1>5 DEF QmIds, QmPlace
<1>7. QemuAnswers'
  BY DEF QemuAnswers, QmPlace
<1> QED
  BY <1>2, <1>3, <1>6, <1>7

\* A call begins with an identity of its own.
LEMMA QmBeginKeeps ==
    ASSUME QmInv, NEW op \in QmOps \ {"idle"}, NEW dir \in QmDirs \union {QmNoDir}, QmBegin(op, dir)
    PROVE  QmInv'
<1> USE DEF QmInv, QmCore
<1>1. /\ qmCall' = [op |-> op, pc |-> "begin", id |-> qmCalls + 1, dir |-> dir, locks |-> {}]
      /\ UNCHANGED <<qmVM, qmFlags, qmIn, qmOut, qmDir, qmTransport, qmLast>>
      /\ qmCalls' = qmCalls + 1 /\ qmCall.op = "idle"
  BY DEF QmBegin
<1>2. qmCalls \in Nat
  BY DEF QmTypes
<1>3. /\ qmCall' \in QmCallSet /\ qmCall'.op = op /\ qmCall'.pc = "begin"
      /\ qmCall'.id = qmCalls'
  BY <1>1, <1>2 DEF QmCallSet, QmPlaces
<1>4. QmTypes'
  BY <1>1, <1>2, <1>3 DEF QmTypes
<1>5. QmPlace'
  BY <1>1, <1>3 DEF QmPlace
<1>6. QmIds'
  BY <1>1, <1>2, <1>3, QmPipes DEF QmIds
<1>7. QmOwnLine' /\ QmOwnAnswer' /\ QmInPlace'
  BY <1>3 DEF QmOwnLine, QmOwnAnswer, QmInPlace, QmWaiting, QmAt
<1>8. QemuAnswers'
  BY <1>1, <1>3 DEF QemuAnswers
<1> QED
  BY <1>4, <1>5, <1>6, <1>7, <1>8

\* exec(): a line is written behind the others, when no answer to it can be there.
LEMMA QmSendKeeps ==
    ASSUME QmInv, NEW part \in {"cd", "cmd", "test", "cat"}, QmSendLine(part), qmCall.op # "idle",
           UNCHANGED <<qmVM, qmDir, qmTransport, qmCalls, qmLast>>,
           part = "cd" => qmCall.op = "run",
           part = "cmd" => qmCall.op \in {"run", "ping"},
           part \in {"test", "cat"} => qmCall.op = "fetch",
           part = "cmd" /\ qmCall.op = "run" /\ qmCall.dir # QmNoDir => qmIn = <<>> /\ qmDir = qmCall.dir,
           \A k \in 1..Len(qmIn) : qmIn[k].id # qmCall.id,
           qmOut' \in Seq(QmAnswerSet), \A k \in 1..Len(qmOut') : qmOut'[k].id <= qmCalls,
           \A k \in 1..Len(qmOut') : qmOut'[k].id = qmCall.id =>
               part \notin {"cd", "test"} /\ qmOut'[k].part # part
    PROVE  QmInv'
<1> USE DEF QmInv, QmCore
<1> DEFINE line == [id |-> qmCall.id, part |-> part, dir |-> qmCall.dir]
<1>1. qmCall.id \in Nat /\ qmCall.dir \in QmPlaces
  BY DEF QmTypes, QmCallSet
<1>2. /\ line \in QmLineSet /\ line.id = qmCall.id /\ line.part = part /\ line.dir = qmCall.dir
  BY <1>1 DEF QmLineSet
<1>3. /\ qmCall' \in QmCallSet /\ qmCall'.op = qmCall.op /\ qmCall'.id = qmCall.id
      /\ qmCall'.dir = qmCall.dir /\ qmCall'.pc = part
  <2>1. QmLockOf(qmCall.op) \in SUBSET {"comm", "cmd", "fetch"}
    BY DEF QmLockOf
  <2> QED
    BY <2>1 DEF QmSendLine, QmTypes, QmCallSet
<1>4. qmIn' = Append(qmIn, line)
  BY DEF QmSendLine
<1> HIDE DEF line
<1>5. qmIn \in Seq(QmLineSet) /\ Len(qmIn) \in Nat
  BY DEF QmTypes
<1>6. /\ qmIn' \in Seq(QmLineSet) /\ Len(qmIn') = Len(qmIn) + 1
      /\ \A k \in 1..Len(qmIn) : qmIn'[k] = qmIn[k]
      /\ qmIn'[Len(qmIn) + 1] = line
  BY <1>2, <1>4, <1>5
<1>7. QmTypes'
  BY <1>3, <1>6 DEF QmTypes
<1>8. QmPlace'
  BY <1>3 DEF QmPlace
<1>9. QmIds'
  <2>1. qmCall.id = qmCalls /\ qmCall'.pc # "begin"
    BY <1>3 DEF QmIds
  <2>2. ASSUME NEW k \in 1..Len(qmIn')
        PROVE  qmIn'[k].id <= qmCalls
    <3>1. CASE k \in 1..Len(qmIn)
      BY <1>6, <3>1, QmPipes
    <3>2. CASE k = Len(qmIn) + 1
      BY <1>1, <1>2, <1>6, <2>1, <3>2
    <3> QED
      BY <1>5, <1>6, <3>1, <3>2
  <2> QED
    BY <1>3, <2>1, <2>2 DEF QmIds
<1>10. QmOwnLine'
  <2> SUFFICES ASSUME NEW k \in 1..Len(qmIn'), qmIn'[k].id = qmCall.id
               PROVE  k = Len(qmIn') /\ qmIn'[k].part = part /\ qmIn'[k].dir = qmCall.dir
    BY <1>3 DEF QmOwnLine
  <2>1. k = Len(qmIn) + 1
    BY <1>5, <1>6
  <2> QED
    BY <1>2, <1>6, <2>1
<1>11. QmOwnAnswer'
  BY <1>3 DEF QmOwnAnswer
<1>12. QmInPlace'
  <2> SUFFICES ASSUME QmAt("run", "cmd")', qmCall.dir # QmNoDir
               PROVE  Len(qmIn') = 1 /\ qmIn'[1].part # "cd" /\ qmDir = qmCall.dir
    BY <1>3 DEF QmInPlace
  <2>1. part = "cmd" /\ qmIn = <<>> /\ qmDir = qmCall.dir
    BY <1>3 DEF QmAt
  <2> QED
    BY <1>2, <1>6, <2>1
<1>13. QemuAnswers'
  BY <1>3 DEF QemuAnswers
<1> QED
  BY <1>7, <1>8, <1>9, <1>10, <1>11, <1>12, <1>13

\* The first line of a call.
LEMMA QmFirstLineKeeps ==
    ASSUME QmInv, QmFirstLine
    PROVE  QmInv'
<1> USE DEF QmInv, QmCore
<1>1. UNCHANGED <<qmVM, qmFlags, qmOut, qmDir, qmTransport, qmCalls>>
  BY DEF QmFirstLine
<1>2. CASE QmSendLine(QmParts(qmCall.op, qmCall.dir)[1]) /\ UNCHANGED qmLast
  <2> DEFINE part == QmParts(qmCall.op, qmCall.dir)[1]
  <2>1. /\ part \in {"cd", "cmd", "test", "cat"} /\ part # "cat"
        /\ part = "cd" => qmCall.op = "run"
        /\ part = "cmd" => qmCall.op = "ping" \/ (qmCall.op = "run" /\ qmCall.dir = QmNoDir)
        /\ part = "test" => qmCall.op = "fetch"
    BY DEF QmFirstLine, QmParts
  <2>2. qmCall.op # "idle" /\ qmCall.pc = "begin" /\ qmCall.id = qmCalls /\ qmCalls \in Nat
    BY DEF QmFirstLine, QmIds, QmTypes
  <2>3. /\ \A k \in 1..Len(qmIn) : qmIn[k].id # qmCall.id
        /\ \A k \in 1..Len(qmOut) : qmOut[k].id # qmCall.id
    BY <2>2, QmPipes DEF QmIds
  <2>4. QmSendLine(part)
    BY <1>2
  <2>5. qmOut' \in Seq(QmAnswerSet) /\ \A k \in 1..Len(qmOut') : qmOut'[k].id <= qmCalls
    BY <1>1, QmPipes DEF QmTypes
  <2> HIDE DEF part
  <2> QED
    BY <1>1, <1>2, <2>1, <2>2, <2>3, <2>4, <2>5, QmSendKeeps
<1>3. CASE QmFail("err") /\ UNCHANGED qmIn
  <2>1. QemuAnswers'
    BY <1>3, QmFailKeeps
  <2>2. QmCore'
    BY <1>1, <1>3, QmIdleKeeps, QmPipes DEF QmFail, QmReturn, QmTypes
  <2> QED
    BY <2>1, <2>2
<1> QED
  BY <1>2, <1>3 DEF QmFirstLine

\* The calls that end without an answer.
LEMMA QmEndsKeep ==
    ASSUME QmInv, QmRefuse \/ QmStopDone \/ QmCancelled \/ QmNoAnswer \/ QmDrop
    PROVE  QmInv'
<1> USE DEF QmInv
<1>0. /\ qmOut \in Seq(QmAnswerSet) /\ qmTransport \in Seq(Nat)
      /\ qmVM \in {"off", "boot", "shell", "panic"}
      /\ \A k \in 1..Len(qmOut) : qmOut[k].id <= qmCalls
  BY QmPipes DEF QmCore, QmTypes
<1>1. ASSUME NEW res, QmFail(res), res # "ok" \/ (qmCall.pc = "done" /\ UNCHANGED qmVM),
             UNCHANGED <<qmIn, qmDir, qmTransport, qmCalls>>,
             UNCHANGED qmOut \/ qmOut' = <<>> \/ QmLosesOutput,
             qmVM' \in {"off", "boot", "shell", "panic"}
      PROVE  QmInv'
  <2>1. QemuAnswers'
    <3>1. qmCall.pc = "done" => qmVM = "off" /\ qmCall.op \notin {"run", "fetch"}
      BY DEF QmCore, QmPlace, is_active
    <3> QED
      BY <1>1, <3>1, QmFailKeeps
  <2>2. qmOut' \in Seq(QmAnswerSet) /\ \A k \in 1..Len(qmOut') : qmOut'[k].id <= qmCalls
    <3>1. CASE UNCHANGED qmOut
      BY <1>0, <3>1
    <3>2. CASE qmOut' = <<>>
      BY <3>2
    <3>3. CASE QmLosesOutput
      BY <3>3, QmSubSeqKeeps DEF QmLosesOutput
    <3> QED
      BY <1>1, <3>1, <3>2, <3>3
  <2>3. QmCore'
    BY <1>0, <1>1, <2>2, QmIdleKeeps DEF QmFail, QmReturn
  <2> QED
    BY <2>1, <2>3
<1>2. CASE QmRefuse
  BY <1>0, <1>1, <1>2 DEF QmRefuse
<1>3. CASE QmStopDone
  BY <1>0, <1>1, <1>3 DEF QmStopDone
<1>4. CASE QmCancelled
  <2>1. PICK res \in {"err", "noanswer"} : QmFail(res)
    BY <1>4 DEF QmCancelled
  <2> QED
    BY <1>0, <1>1, <1>4, <2>1 DEF QmCancelled
<1>5. CASE QmNoAnswer
  <2>1. PICK res \in {"err", "panic"} : QmFail(res) /\ (qmOut' = <<>> \/ QmLosesOutput)
    BY <1>5 DEF QmNoAnswer
  <2> QED
    BY <1>0, <1>1, <1>5, <2>1 DEF QmNoAnswer
<1>6. CASE QmDrop
  <2>1. qmVM' \in {"off", "boot", "shell", "panic"}
    BY <1>0, <1>6 DEF QmDrop
  <2> QED
    BY <1>1, <1>6, <2>1 DEF QmDrop
<1> QED
  BY <1>2, <1>3, <1>4, <1>5, <1>6

\* communicate() and stop().
LEMMA QmLifeKeeps ==
    ASSUME QmInv, QmSpawn \/ login \/ QmStopBegin \/ QmAskPowerOff \/ QmKill \/ wait_lockers
    PROVE  QmInv'
<1> USE DEF QmInv
<1> DEFINE VMs == {"off", "boot", "shell", "panic"}
           Places == {"login", "stop", "poweroff", "kill", "lockers", "done"}
<1>0. /\ qmOut \in Seq(QmAnswerSet) /\ qmTransport \in Seq(Nat) /\ qmVM \in VMs
      /\ qmCall \in QmCallSet /\ (qmCall.op = "idle" <=> qmCall.pc = "idle")
      /\ \A k \in 1..Len(qmOut) : qmOut[k].id <= qmCalls
  BY QmPipes DEF QmCore, QmTypes, QmPlace
<1>1. ASSUME NEW res, QmFail(res), res = "ok" => qmCall.op = "communicate" \/ (qmCall.op = "stop" /\ qmVM' = "off"),
             UNCHANGED <<qmIn, qmDir, qmCalls>>, qmVM' \in VMs,
             qmOut' \in {qmOut, <<>>}, qmTransport' \in {qmTransport, <<>>}
      PROVE  QmInv'
  <2>1. QemuAnswers'
    BY <1>1, QmFailKeeps
  <2>2. qmOut' \in Seq(QmAnswerSet) /\ qmTransport' \in Seq(Nat)
    <3>1. <<>> \in Seq(QmAnswerSet) /\ <<>> \in Seq(Nat)
      OBVIOUS
    <3> QED
      BY <1>0, <1>1, <3>1
  <2>3. \A k \in 1..Len(qmOut') : qmOut'[k].id <= qmCalls
    BY <1>0, <1>1
  <2>4. QmCore'
    BY <1>1, <2>2, <2>3, QmIdleKeeps DEF QmFail, QmReturn
  <2> QED
    BY <2>1, <2>4
<1>2. ASSUME NEW pc \in Places, NEW locks \in SUBSET {"comm", "cmd", "fetch"},
             qmCall' = [qmCall EXCEPT !.pc = pc, !.locks = locks],
             qmCall.op = "communicate" \/ (qmCall.op = "stop" /\ pc \notin {"login", "stop"}),
             pc \in {"lockers", "done"} => qmVM' = "off",
             qmIn' \in {qmIn, <<>>}, qmOut' \in {qmOut, <<>>}, qmTransport' \in {qmTransport, <<>>},
             qmDir' \in {qmDir, "home"}, qmVM' \in VMs, UNCHANGED <<qmCalls, qmLast>>
      PROVE  QmInv'
  <2>1. /\ qmCall' \in QmCallSet /\ qmCall'.op = qmCall.op /\ qmCall'.id = qmCall.id
        /\ qmCall'.pc = pc
    BY <1>0, <1>2 DEF QmCallSet
  <2>2. qmCall.pc # "idle"
    BY <1>0, <1>2
  <2>3. QmPlace'
    BY <1>2, <2>1 DEF QmPlace, is_active
  <2> QED
    BY <1>2, <2>1, <2>2, <2>3, QmMoves
<1>3. ASSUME NEW pc \in Places, QmGoto(pc)
      PROVE  \E locks \in SUBSET {"comm", "cmd", "fetch"} : qmCall' = [qmCall EXCEPT !.pc = pc, !.locks = locks]
  <2>1. qmCall \in QmCallSet /\ qmCall' = [qmCall EXCEPT !.pc = pc]
    BY <1>0, <1>3 DEF QmGoto
  <2>2. qmCall.locks \in SUBSET {"comm", "cmd", "fetch"}
    BY <2>1 DEF QmCallSet
  <2>3. qmCall' = [qmCall EXCEPT !.pc = pc, !.locks = qmCall.locks]
    BY <2>1 DEF QmCallSet
  <2> QED
    BY <2>2, <2>3
<1>4. CASE QmSpawn
  <2>1. UNCHANGED <<qmIn, qmDir, qmCalls>> /\ qmOut' = <<>> /\ qmTransport' = <<>> /\ qmCall.op = "communicate"
    BY <1>4 DEF QmSpawn, QmAt
  <2>2. CASE /\ qmVM' = "boot" /\ UNCHANGED qmLast
             /\ qmCall' = [qmCall EXCEPT !.pc = "login", !.locks = {"comm"}]
    BY <1>2, <2>1, <2>2
  <2>3. CASE QmFail("err") /\ UNCHANGED qmVM
    BY <1>0, <1>1, <2>1, <2>3
  <2> QED
    BY <1>4, <2>2, <2>3 DEF QmSpawn
<1>5. CASE login
  <2>1. /\ UNCHANGED <<qmIn, qmOut, qmDir, qmTransport, qmCalls>> /\ qmCall.op = "communicate"
        /\ qmVM' \in VMs
    BY <1>0, <1>5 DEF login, QmAt
  <2>2. CASE QmFail("ok") \/ QmFail("panic")
    BY <1>1, <2>1, <2>2
  <2>3. CASE QmGoto("stop") /\ UNCHANGED <<qmVM, qmFlags, qmLast>>
    BY <1>2, <1>3, <2>1, <2>3
  <2> QED
    BY <1>5, <2>2, <2>3 DEF login
<1>6. CASE QmStopBegin
  <2>1. /\ UNCHANGED <<qmVM, qmIn, qmOut, qmDir, qmTransport, qmCalls>>
        /\ qmCall.op \in {"communicate", "stop"}
    BY <1>6 DEF QmStopBegin, QmAt
  <2>2. CASE ~is_active /\ QmFail(QmStopResult)
    BY <1>0, <1>1, <2>1, <2>2 DEF is_active
  <2>3. CASE UNCHANGED qmLast /\ \E pc \in {"poweroff", "kill"} : QmGoto(pc)
    BY <1>0, <1>2, <1>3, <2>1, <2>3
  <2> QED
    BY <1>6, <2>2, <2>3 DEF QmStopBegin
<1>7. CASE QmAskPowerOff
  <2>1. UNCHANGED <<qmOut, qmTransport, qmCalls>> /\ qmCall.op \in {"communicate", "stop"}
    BY <1>7 DEF QmAskPowerOff, QmCore, QmPlace
  <2>2. CASE QmPowerOff /\ QmGoto("kill") /\ UNCHANGED qmLast
    BY <1>0, <1>2, <1>3, <2>1, <2>2 DEF QmPowerOff
  <2>3. CASE QmGoto("kill") /\ UNCHANGED <<qmVM, qmIn, qmDir, qmLast>>
    BY <1>0, <1>2, <1>3, <2>1, <2>3
  <2>4. CASE QmFail("err") /\ UNCHANGED <<qmVM, qmIn, qmDir>>
    BY <1>0, <1>1, <2>1, <2>4
  <2> QED
    BY <1>7, <2>2, <2>3, <2>4 DEF QmAskPowerOff
<1>8. CASE QmKill
  <2>1. UNCHANGED <<qmOut, qmTransport, qmCalls, qmLast>> /\ qmCall.op \in {"communicate", "stop"}
    BY <1>8 DEF QmKill, QmCore, QmPlace
  <2>2. CASE QmPowerOff /\ QmGoto("lockers")
    BY <1>0, <1>2, <1>3, <2>1, <2>2 DEF QmPowerOff
  <2>3. CASE ~is_active /\ QmGoto("done") /\ UNCHANGED <<qmVM, qmIn, qmDir>>
    BY <1>0, <1>2, <1>3, <2>1, <2>3 DEF is_active
  <2> QED
    BY <1>8, <2>2, <2>3 DEF QmKill
<1>9. CASE wait_lockers
  <2>1. qmCall.op \in {"communicate", "stop"} /\ qmVM = "off"
    BY <1>9 DEF wait_lockers, QmCore, QmPlace, is_active
  <2> QED
    BY <1>0, <1>2, <1>3, <1>9, <2>1 DEF wait_lockers
<1> QED
  BY <1>4, <1>5, <1>6, <1>7, <1>8, <1>9

\* The machine panics or dies: what it had not executed is gone.
LEMMA QmCrashKeeps ==
    ASSUME QmInv, QmCrash
    PROVE  QmInv'
<1> USE DEF QmInv, QmCore
<1>1. UNCHANGED <<qmFlags, qmOut, qmTransport, qmCall, qmCalls, qmLast>>
  BY DEF QmCrash
<1>2. (qmVM' = "panic" /\ is_active /\ UNCHANGED <<qmIn, qmDir>>) \/ (qmVM' = "off" /\ qmIn' = <<>> /\ qmDir' = "home")
  BY DEF QmCrash, QmPowerOff, is_active
<1>3. QmTypes'
  <2>1. <<>> \in Seq(QmLineSet)
    OBVIOUS
  <2> QED
    BY <1>1, <1>2, <2>1 DEF QmTypes, QmPlaces
<1>4. QmPlace'
  BY <1>1, <1>2 DEF QmPlace, is_active
<1>5. QmIds' /\ QmOwnLine' /\ QmInPlace'
  BY <1>1, <1>2 DEF QmIds, QmOwnLine, QmInPlace, QmWaiting, QmAt
<1>6. QmOwnAnswer'
  <2> SUFFICES ASSUME QmWaiting, NEW k \in 1..Len(qmOut), qmOut[k].id = qmCall.id
               PROVE  /\ qmCall.pc \in {"cd", "test"} => qmOut[k].part = qmCall.pc
                      /\ qmOut[k].part = qmCall.pc => QmAnswered(qmOut[k])'
    BY <1>1 DEF QmOwnAnswer, QmWaiting
  <2>1. /\ qmCall.pc \in {"cd", "test"} => qmOut[k].part = qmCall.pc
        /\ qmOut[k].part = qmCall.pc => QmAnswered(qmOut[k])
    BY DEF QmOwnAnswer
  <2> QED
    BY <1>1, <1>2, <2>1 DEF QmAnswered, is_active
<1>7. QemuAnswers'
  BY <1>1, <1>2 DEF QemuAnswers, is_active
<1> QED
  BY <1>3, <1>4, <1>5, <1>6, <1>7

\* The guest executes a line and prints its marker.
LEMMA QmGuestKeeps ==
    ASSUME QmInv, QmGuest
    PROVE  QmInv'
<1> USE DEF QmInv, QmCore
<1> DEFINE line == Head(qmIn)
<1>1. PICK ok \in BOOLEAN :
        /\ qmIn' = Tail(qmIn)
        /\ qmDir' = IF line.part = "cd" /\ ok THEN line.dir ELSE qmDir
        /\ qmOut' = Append(qmOut, [id |-> line.id, part |-> line.part, ran |-> qmDir', ok |-> ok])
        /\ qmTransport' = IF line.part = "cat" /\ ok THEN Append(qmTransport, line.id) ELSE qmTransport
  BY DEF QmGuest
<1> DEFINE answer == [id |-> line.id, part |-> line.part, ran |-> qmDir', ok |-> ok]
<1>2. qmVM = "shell" /\ qmIn # <<>> /\ UNCHANGED <<qmVM, qmFlags, qmCall, qmCalls, qmLast>>
  BY DEF QmGuest
<1>3. qmIn \in Seq(QmLineSet) /\ qmOut \in Seq(QmAnswerSet) /\ qmTransport \in Seq(Nat)
  BY DEF QmTypes
<1>4. /\ line = qmIn[1] /\ 1 \in 1..Len(qmIn) /\ line \in QmLineSet
      /\ Len(qmIn') = Len(qmIn) - 1 /\ qmIn' \in Seq(QmLineSet)
      /\ \A k \in 1..Len(qmIn') : k + 1 \in 1..Len(qmIn) /\ qmIn'[k] = qmIn[k + 1]
  BY <1>1, <1>2, <1>3
<1>5. line.id \in Nat /\ line.part \in {"cd", "cmd", "test", "cat"} /\ line.dir \in QmPlaces
  BY <1>4 DEF QmLineSet
<1>6. qmDir' \in QmPlaces
  BY <1>1, <1>5 DEF QmTypes
<1>7. /\ answer \in QmAnswerSet /\ answer.id = line.id /\ answer.part = line.part
      /\ answer.ran = qmDir' /\ answer.ok = ok
  BY <1>5, <1>6 DEF QmAnswerSet
<1>8. qmTransport' \in Seq(Nat) /\ (line.part = "cat" /\ ok => qmTransport' # <<>> /\ qmTransport'[Len(qmTransport')] = line.id)
  BY <1>1, <1>3, <1>5
<1>9. qmOut' = Append(qmOut, answer)
  BY <1>1
<1> HIDE DEF line, answer
<1>10. /\ qmOut' \in Seq(QmAnswerSet) /\ Len(qmOut') = Len(qmOut) + 1 /\ Len(qmOut) \in Nat
       /\ \A k \in 1..Len(qmOut) : qmOut'[k] = qmOut[k]
       /\ qmOut'[Len(qmOut) + 1] = answer
  BY <1>3, <1>7, <1>9
<1>11. \A k \in 1..Len(qmOut') : k \in 1..Len(qmOut) \/ qmOut'[k] = answer
  BY <1>10
<1>12. QmTypes'
  BY <1>2, <1>4, <1>6, <1>8, <1>10 DEF QmTypes
<1>13. QmPlace'
  BY <1>2 DEF QmPlace, is_active
<1>14. QmIds'
  <2>1. line.id <= qmCalls /\ (qmCall.pc = "begin" => line.id < qmCalls)
    BY <1>4 DEF QmIds
  <2>2. ASSUME NEW k \in 1..Len(qmOut')
        PROVE  qmOut'[k].id <= qmCalls /\ (qmCall.pc = "begin" => qmOut'[k].id < qmCalls)
    <3>1. CASE k \in 1..Len(qmOut)
      BY <1>10, <3>1 DEF QmIds
    <3>2. CASE qmOut'[k] = answer
      BY <1>7, <2>1, <3>2
    <3> QED
      BY <1>11, <3>1, <3>2
  <2>3. \A k \in 1..Len(qmIn') : qmIn'[k].id <= qmCalls /\ (qmCall.pc = "begin" => qmIn'[k].id < qmCalls)
    BY <1>4 DEF QmIds
  <2> QED
    BY <1>2, <2>2, <2>3 DEF QmIds
<1>15. QmOwnLine'
  <2> SUFFICES ASSUME QmWaiting, NEW k \in 1..Len(qmIn'), qmIn'[k].id = qmCall.id
               PROVE  k = Len(qmIn') /\ qmIn'[k].part = qmCall.pc /\ qmIn'[k].dir = qmCall.dir
    BY <1>2 DEF QmOwnLine, QmWaiting
  <2>1. k + 1 = Len(qmIn) /\ qmIn'[k].part = qmCall.pc /\ qmIn'[k].dir = qmCall.dir
    BY <1>4 DEF QmOwnLine
  <2> QED
    BY <1>3, <1>4, <2>1
<1>16. QmOwnAnswer'
  <2> SUFFICES ASSUME QmWaiting, NEW k \in 1..Len(qmOut'), qmOut'[k].id = qmCall.id
               PROVE  /\ qmCall.pc \in {"cd", "test"} => qmOut'[k].part = qmCall.pc
                      /\ qmOut'[k].part = qmCall.pc => QmAnswered(qmOut[k])'
    BY <1>2 DEF QmOwnAnswer, QmWaiting
  <2>1. CASE k \in 1..Len(qmOut)
    \* An answer that was there already would have left the guest nothing to do.
    <3>1. /\ qmCall.pc \in {"cd", "test"} => qmOut[k].part = qmCall.pc
          /\ qmOut[k].part = qmCall.pc => qmIn = <<>>
      BY <1>10, <2>1 DEF QmOwnAnswer, QmAnswered
    <3> QED
      BY <1>2, <1>10, <2>1, <3>1
  <2>2. CASE qmOut'[k] = answer
    <3>1. line.id = qmCall.id
      BY <1>7, <2>2
    <3>2. Len(qmIn) = 1 /\ line.part = qmCall.pc /\ line.dir = qmCall.dir
      BY <1>4, <3>1 DEF QmOwnLine
    <3>3. qmIn' = <<>>
      <4>1. Len(qmIn') = 0
        BY <1>4, <3>2
      <4> QED
        BY <1>4, <4>1
    <3>4. qmCall.pc = "cd" /\ ok => qmDir' = qmCall.dir
      BY <1>1, <3>2
    <3>5. qmCall.pc = "cmd" /\ qmCall.op = "run" /\ qmCall.dir # QmNoDir => qmDir' = qmCall.dir
      BY <1>1, <1>2, <3>2 DEF QmInPlace, QmAt
    <3>6. qmCall.pc = "cat" /\ ok => qmTransport' # <<>> /\ qmTransport'[Len(qmTransport')] = qmCall.id
      BY <1>8, <3>1, <3>2
    <3>7. qmOut'[k].ran = qmDir' /\ qmOut'[k].ok = ok /\ qmOut'[k].part = qmCall.pc
      BY <1>7, <2>2, <3>2
    <3>8. QmAnswered(qmOut[k])'
      BY <1>2, <3>3, <3>4, <3>5, <3>6, <3>7 DEF QmAnswered
    <3> QED
      BY <3>7, <3>8
  <2> QED
    BY <1>11, <2>1, <2>2
<1>17. QmInPlace'
  <2>1. ASSUME QmAt("run", "cmd"), qmCall.dir # QmNoDir
        PROVE  qmIn' = <<>>
    <3>1. Len(qmIn) = 1
      BY <1>2, <2>1 DEF QmInPlace
    <3>2. Len(qmIn') = 0 /\ qmIn' \in Seq(QmLineSet)
      BY <1>4, <3>1
    <3> QED
      BY <3>2
  <2> QED
    BY <1>2, <2>1 DEF QmInPlace, QmAt
<1>18. QemuAnswers'
  BY <1>2 DEF QemuAnswers, is_active
<1> QED
  BY <1>12, <1>13, <1>14, <1>15, <1>16, <1>17, <1>18

\* wait_for_message(): the first marker of the line sent.
LEMMA FirstMarker ==
    ASSUME QmFound, Len(qmOut) \in Nat
    PROVE  QmFirstFound \in 1..Len(qmOut) /\ QmMarker(qmOut[QmFirstFound])
<1> DEFINE Marked == {k \in 1..Len(qmOut) : QmMarker(qmOut[k])}
<1>1. Marked \subseteq Nat /\ Marked # {}
  BY DEF QmFound
<1> HIDE DEF Marked
<1>2. PICK m \in Marked : \A k \in Marked : m <= k
  BY <1>1, LeastNat
<1>3. m \in 1..Len(qmOut) /\ QmMarker(qmOut[m])
  BY DEF Marked
<1>4. \A j \in 1..(m - 1) : j \in 1..Len(qmOut) /\ ~(m <= j)
  BY <1>3
<1>5. \A j \in 1..(m - 1) : ~QmMarker(qmOut[j])
  BY <1>2, <1>4 DEF Marked
<1> QED
  BY <1>3, <1>5 DEF QmFirstFound

\* The marker is found: the next line is sent, or the call returns.
LEMMA QmAnswerKeeps ==
    ASSUME QmInv, QmAnswer
    PROVE  QmInv'
<1> USE DEF QmInv
<1> DEFINE k == QmFirstFound
           ans == qmOut[k]
           next == CASE qmCall.pc = "cd" -> "cmd" [] qmCall.pc = "test" -> "cat" [] OTHER -> "end"
<1>1. /\ QmWaiting /\ QmFound /\ qmOut' = SubSeq(qmOut, k + 1, Len(qmOut))
      /\ UNCHANGED <<qmVM, qmDir, qmCalls>>
  BY DEF QmAnswer
<1>2. \/ /\ next # "end" /\ ans.ok /\ is_active
         /\ QmSendLine(next)
         /\ UNCHANGED <<qmLast, qmTransport>>
      \/ /\ next = "end"
         /\ QmReturn("ok", ans, read_transport)
         /\ qmTransport' = IF qmCall.op = "fetch" THEN <<>> ELSE qmTransport
         /\ UNCHANGED qmIn
      \/ /\ qmCall.pc # "cmd"
         /\ QmFail("err")
         /\ UNCHANGED <<qmTransport, qmIn>>
  BY DEF QmAnswer
<1>3. Len(qmOut) \in Nat /\ qmTransport \in Seq(Nat) /\ qmVM \in {"off", "boot", "shell", "panic"}
  BY DEF QmCore, QmTypes
<1>4. k \in 1..Len(qmOut) /\ QmMarker(ans)
  BY <1>1, <1>3, FirstMarker
<1>5. ans.id = qmCall.id /\ ans.part = qmCall.pc
  BY <1>4 DEF QmMarker
<1>6. QmAnswered(ans)
  BY <1>1, <1>4, <1>5 DEF QmCore, QmOwnAnswer
<1> HIDE DEF k, next
<1>7. k + 1 \in 1..(Len(qmOut) + 1)
  BY <1>3, <1>4
<1>8. /\ qmOut' \in Seq(QmAnswerSet) /\ \A j \in 1..Len(qmOut') : qmOut'[j].id <= qmCalls
      /\ \A j \in 1..Len(qmOut') : \E i \in 1..Len(qmOut) : qmOut'[j] = qmOut[i]
  BY <1>1, <1>7, QmSubSeqKeeps
<1>9. CASE /\ next # "end" /\ ans.ok /\ is_active
           /\ QmSendLine(next)
           /\ UNCHANGED <<qmLast, qmTransport>>
  <2>1. (qmCall.pc = "cd" /\ next = "cmd") \/ (qmCall.pc = "test" /\ next = "cat")
    BY <1>9 DEF next
  <2>2. (qmCall.pc = "cd" => qmCall.op = "run") /\ (qmCall.pc = "test" => qmCall.op = "fetch")
    BY DEF QmCore, QmPlace
  <2>3. qmIn = <<>> /\ (qmCall.pc = "cd" => qmDir = qmCall.dir)
    BY <1>6, <1>9 DEF QmAnswered
  <2>4. \A i \in 1..Len(qmOut) : qmOut[i].id = qmCall.id => qmOut[i].part = qmCall.pc
    BY <1>1, <2>1 DEF QmCore, QmOwnAnswer
  <2>5. \A j \in 1..Len(qmOut') : qmOut'[j].id = qmCall.id => next \notin {"cd", "test"} /\ qmOut'[j].part # next
    BY <1>8, <2>1, <2>4
  <2>6. \A i \in 1..Len(qmIn) : qmIn[i].id # qmCall.id
    BY <2>3
  <2> QED
    BY <1>1, <1>8, <1>9, <2>1, <2>2, <2>3, <2>5, <2>6, QmSendKeeps
<1>10. CASE /\ next = "end"
            /\ QmReturn("ok", ans, read_transport)
            /\ qmTransport' = IF qmCall.op = "fetch" THEN <<>> ELSE qmTransport
            /\ UNCHANGED qmIn
  <2>1. qmTransport' \in Seq(Nat)
    BY <1>3, <1>10
  <2>2. QmCore'
    BY <1>1, <1>3, <1>8, <1>10, <2>1, QmIdleKeeps DEF QmReturn
  <2>3. /\ qmCall.pc \in {"cmd", "cat"} /\ (qmCall.pc = "cmd" => qmCall.op \in {"run", "ping"})
        /\ (qmCall.pc = "cat" => qmCall.op = "fetch")
    BY <1>1, <1>10 DEF next, QmWaiting, QmCore, QmPlace
  <2>4. /\ qmLast'.op = qmCall.op /\ qmLast'.id = qmCall.id /\ qmLast'.dir = qmCall.dir
        /\ qmLast'.ans = ans /\ qmLast'.data = read_transport
    BY <1>10 DEF QmReturn
  <2> HIDE DEF ans
  <2>5. qmLast'.op = "run" /\ qmLast'.dir # QmNoDir => qmLast'.ans.ran = qmLast'.dir
    BY <1>6, <2>3, <2>4 DEF QmAnswered
  <2>6. qmLast'.op = "fetch" /\ qmLast'.ans.ok =>
            qmLast'.data # <<>> /\ qmLast'.data[Len(qmLast'.data)] = qmLast'.id
    BY <1>6, <2>3, <2>4 DEF QmAnswered, read_transport
  <2>7. qmLast'.ans.id = qmLast'.id /\ qmLast'.op # "stop"
    BY <1>5, <2>3, <2>4
  <2>8. QemuAnswers'
    BY <2>5, <2>6, <2>7 DEF QemuAnswers
  <2> QED
    BY <2>2, <2>8
<1>11. CASE qmCall.pc # "cmd" /\ QmFail("err") /\ UNCHANGED <<qmTransport, qmIn>>
  <2>1. QemuAnswers'
    BY <1>11, QmFailKeeps
  <2>2. QmCore'
    BY <1>1, <1>3, <1>8, <1>11, QmIdleKeeps DEF QmFail, QmReturn
  <2> QED
    BY <2>1, <2>2
<1> QED
  BY <1>2, <1>9, <1>10, <1>11

\* No step of the QEMU channel mixes up the answers.
LEMMA QmInvStep ==
    ASSUME QmInv, [QmNext]_qmVars
    PROVE  QmInv'
<1>1. CASE UNCHANGED qmVars
  <2>1. QmTypes' /\ QmPlace' /\ QmIds' /\ QmOwnLine' /\ QmInPlace'
    BY <1>1 DEF qmVars, QmInv, QmCore, QmTypes, QmPlace, QmIds, QmOwnLine, QmInPlace, QmWaiting, QmAt, is_active
  <2>2. QmOwnAnswer'
    BY <1>1 DEF qmVars, QmInv, QmCore, QmOwnAnswer, QmAnswered, QmWaiting, is_active
  <2>3. QemuAnswers'
    BY <1>1 DEF qmVars, QmInv, QemuAnswers, is_active
  <2> QED
    BY <2>1, <2>2, <2>3 DEF QmInv, QmCore
<1>2. CASE \/ \E op \in {"communicate", "stop", "ping", "fetch"} : QmBegin(op, QmNoDir)
           \/ \E dir \in QmDirs \union {QmNoDir} : QmBegin("run", dir)
  BY <1>2, QmBeginKeeps DEF QmOps
<1>3. CASE QmStep \/ QmGuest \/ QmCrash \/ QmDrop
  BY <1>3, QmEndsKeep, QmLifeKeeps, QmFirstLineKeeps, QmAnswerKeeps, QmGuestKeeps, QmCrashKeeps DEF QmStep
<1> QED
  BY <1>1, <1>2, <1>3 DEF QmNext

\* An answered call of the QEMU channel has the answer to its own line, a command
\* that succeeded ran in the directory it asked for, a file that was read ends with
\* the data asked for, and a stop() that succeeded left no machine running: for any
\* number of calls, wherever they are dropped and whenever the machine dies.
THEOREM QemuAnswersItsCaller == FairSpec => []QemuAnswers
<1>1. Init => QmInv
  BY QmInvInit DEF Init
<1>2. QmInv /\ [Next]_vars => QmInv'
  BY QmInvStep, ChannelSteps
<1>3. QmInv => QemuAnswers
  BY DEF QmInv
<1> QED
  BY <1>1, <1>2, <1>3, PTL DEF FairSpec

-----------------------------------------------------------------------------
(* The LTX channel. *)

LtPcs == {"new", "send", "write", "wait", "ok", "err", "dropped"}
LtOps == {"VERSION", "PING", "GET_FILE", "EXEC", "KILL"}
LtSlotIds == 0..(LtSlots - 1)
LtRequests == [kind : LtOps, slot : 0..LtSlots, echoed : BOOLEAN, got : SUBSET LtCalls]
LtEntries == [id : Nat, req : LtRequests]
LtConns == [running : BOOLEAN, desynced : BOOLEAN, fatal : BOOLEAN, pending : SUBSET LtEntries,
            replies : SUBSET LtEntries, next_id : Nat]
LtCallRecords == [op : LtOps \union {"none"}, pc : LtPcs, conn : Nat, slot : 0..LtSlots, ids : SUBSET Nat,
                  reqs : Seq(LtRequests), got : SUBSET LtCalls]
LtFrames == [op : LtOps \union {"PONG", "DATA", "RESULT", "ERROR"}, slot : 0..LtSlots, who : LtCalls]

LtTyped ==
    /\ ltConn \in Seq(LtConns) /\ ltLtx \in 0..Len(ltConn)
    /\ ltCall \in [LtCalls -> LtCallRecords]
    /\ \A c \in LtCalls : ltCall[c].conn \in 0..Len(ltConn)
    /\ ltSlots \subseteq LtSlotIds
    /\ ltDone \in [probes : Nat, stops : Nat]
    /\ ltRuns \in [LtSlotIds -> LtCmds \union {"none"}]
    /\ ltOut \in Seq(LtFrames)

Sending(c) == ltCall[c].pc \in {"send", "write", "wait"}
\* The requests of a call are with a connection that is open.
Registered(c) == ltCall[c].pc \in {"write", "wait"} /\ Connected(ltCall[c].conn)

\* What a call in progress asks for.
LtAsked ==
    \A c \in LtCalls : Sending(c) =>
        /\ ltCall[c].conn \in 1..Len(ltConn)
        /\ c # "stop" =>
              /\ ltCall[c].reqs = <<LtRequest(ltCall[c].op, ltCall[c].slot)>>
              /\ IF ltCall[c].op = "EXEC" THEN c \in LtCmds /\ ltCall[c].slot \in LtSlotIds
                 ELSE ltCall[c].op \in {"VERSION", "PING", "GET_FILE"} /\ ltCall[c].slot = LtNoSlot
              /\ ltCall[c].op = "VERSION" <=> c = "comm"
        /\ c = "stop" =>
              /\ \A k \in 1..Len(ltCall[c].reqs) :
                    \E s \in LtSlotIds : ltCall[c].reqs[k] = LtRequest("KILL", s)
              /\ \A j, k \in 1..Len(ltCall[c].reqs) :
                    ltCall[c].reqs[j].slot = ltCall[c].reqs[k].slot => j = k

\* A slot is held by one command.
LtHeld ==
    /\ \A c \in LtCalls : ltCall[c].slot # LtNoSlot => c \in LtCmds /\ ltCall[c].slot \in ltSlots
    /\ \A c, d \in LtCalls : ltCall[c].slot = ltCall[d].slot /\ ltCall[c].slot # LtNoSlot => c = d
    /\ \A c \in LtCalls : ltCall[c].op = "EXEC" => c \in LtCmds

\* One connection is open: the published one, or that of a handshake.
LtOneConn ==
    /\ \A g \in 1..Len(ltConn) :
          Connected(g) => g = ltLtx \/ (ltCall["comm"].pc # "new" /\ g = ltCall["comm"].conn)
    /\ ltCall["comm"].pc # "new" =>
          /\ ltCall["comm"].pc # "dropped" /\ ltCall["comm"].conn \in 1..Len(ltConn)
          /\ ~LtActive
    /\ \A c \in LtCalls \ {"comm"} : Sending(c) /\ Connected(ltCall[c].conn) => ltCall[c].conn = ltLtx

\* What is pending or answered under the ids of a call is what it asked for.
LtNumbered ==
    /\ \A g \in 1..Len(ltConn) : Connected(g) =>
          \A p \in ltConn[g].pending \union ltConn[g].replies : p.id <= ltConn[g].next_id
    /\ \A c \in LtCalls : Registered(c) /\ c # "stop" =>
          /\ \E n \in 1..ltConn[ltCall[c].conn].next_id : ltCall[c].ids = {n}
          /\ \A p \in ltConn[ltCall[c].conn].pending \union ltConn[ltCall[c].conn].replies :
                p.id \in ltCall[c].ids => p.req.kind = ltCall[c].op /\ p.req.slot = ltCall[c].slot

Traces == {"EXEC", "RESULT"}
\* The executor neither runs the command nor is there a frame of it to be read.
Gone(c) ==
    /\ \A i \in 1..Len(ltOut) : ltOut[i].op \in Traces => ltOut[i].who # c
    /\ \A s \in LtSlotIds : ltRuns[s] # c

\* The executor runs a command once, and a result is the last frame of it.
LtExecuted ==
    /\ \A c \in LtCalls : ltCall[c].op # "EXEC" \/ ltCall[c].pc \in {"new", "send", "write"} => Gone(c)
    /\ \A s, t \in LtSlotIds : ltRuns[s] = ltRuns[t] /\ ltRuns[s] # "none" => s = t
    /\ \A i \in 1..Len(ltOut) : ltOut[i].op = "RESULT" => \A s \in LtSlotIds : ltRuns[s] # ltOut[i].who
    /\ \A i, j \in 1..Len(ltOut) :
          ltOut[i].op = "RESULT" /\ ltOut[j].op \in Traces /\ ltOut[j].who = ltOut[i].who => j <= i

\* While requests can be sent, the echoes in the FIFO are those of the commands
\* that hold the slots.
LtFenced ==
    LtActive /\ ~LtFailed(ltLtx) =>
        \A i \in 1..Len(ltOut) : ltOut[i].op = "EXEC" =>
           /\ ltCall[ltOut[i].who].pc \in {"wait", "dropped"}
           /\ ltCall[ltOut[i].who].pc = "wait" => ltCall[ltOut[i].who].conn = ltLtx
           /\ ltCall[ltOut[i].who].slot = ltOut[i].slot

\* The answer to the handshake comes after every echo.
LtShaken ==
    /\ \A i \in 1..Len(ltOut) : ltOut[i].op = "VERSION" =>
          /\ ltCall["comm"].pc \in {"wait", "err"}
          /\ \A j \in 1..Len(ltOut) : ltOut[j].op \in {"EXEC", "VERSION"} => j <= i
    /\ \/ ltCall["comm"].pc = "ok"
       \/ Registered("comm") /\ \E p \in ltConn[ltCall["comm"].conn].replies : p.id \in ltCall["comm"].ids
       => /\ ltCall["comm"].pc # "write"
          /\ \A i \in 1..Len(ltOut) : ltOut[i].op \notin {"EXEC", "VERSION"}

Foreign(c, i) == ltOut[i].op = "RESULT" /\ ltOut[i].slot = ltCall[c].slot /\ ltOut[i].who # c
NoForeign(c) ==
    /\ ltRuns[ltCall[c].slot] \in {c, "none"}
    /\ \A i \in 1..Len(ltOut) : ~Foreign(c, i)
\* Echo and result that reach the request of a command are its own.
LtOwn(c) ==
    /\ \A i \in 1..Len(ltOut) : ltOut[i].op = "EXEC" /\ ltOut[i].slot = ltCall[c].slot => ltOut[i].who = c
    /\ \A i \in 1..Len(ltOut) : ltOut[i].op = "EXEC" /\ ltOut[i].who = c =>
          ltRuns[ltCall[c].slot] \in {c, "none"} /\ \A j \in 1..Len(ltOut) : Foreign(c, j) => j < i
    /\ \A p \in ltConn[ltCall[c].conn].pending : p.id \in ltCall[c].ids =>
          p.req.got = {} /\ (p.req.echoed => ltCall[c].pc = "wait" /\ NoForeign(c))
    /\ \A p \in ltConn[ltCall[c].conn].replies : p.id \in ltCall[c].ids =>
          p.req.got = {c} /\ ltCall[c].pc = "wait" /\ Gone(c)
LtOwned == \A c \in LtCmds : ltCall[c].op = "EXEC" /\ Registered(c) => LtOwn(c)
LtEnded == \A c \in LtCmds : ltCall[c].op = "EXEC" /\ ltCall[c].pc = "ok" => ltCall[c].got = {c} /\ Gone(c)

LtBase == LtTyped /\ LtAsked /\ LtHeld /\ LtOneConn /\ LtNumbered /\ LtExecuted
LtOrder == LtFenced /\ LtShaken /\ LtOwned /\ LtEnded
LtInv == LtBase /\ (ltStray = {} => LtOrder)

PrintedUpTo(out, a, n, f) == f = [k \in 0..n |-> IF k = 0 THEN out ELSE f[k - 1] \o a[k]]

\* The function behind Printed exists: its values are found one after the other.
LEMMA PrintedUnfolds ==
    ASSUME NEW out, NEW a, NEW n \in Nat
    PROVE  \E f : PrintedUpTo(out, a, n, f)
<1> DEFINE Bad == {m \in Nat : ~ \E f : PrintedUpTo(out, a, m, f)}
<1>1. ASSUME Bad # {}
      PROVE  FALSE
  <2>1. PICK m \in Bad : \A k \in Bad : m <= k
    BY <1>1, LeastNat
  <2>2. m # 0
    <3> DEFINE f == [k \in 0..0 |-> out]
    <3>1. PrintedUpTo(out, a, 0, f)
      BY DEF PrintedUpTo
    <3> QED
      BY <3>1
  <2>3. m \in Nat /\ ~ \E f : PrintedUpTo(out, a, m, f)
    BY <2>1
  <2>4. PICK g : PrintedUpTo(out, a, m - 1, g)
    <3>1. m - 1 \in Nat /\ ~(m <= m - 1)
      BY <2>2, <2>3
    <3> QED
      BY <2>1, <3>1
  <2> DEFINE f == [k \in 0..m |-> IF k = m THEN g[k - 1] \o a[k] ELSE g[k]]
  <2>5. \A k \in 0..(m - 1) : g[k] = IF k = 0 THEN out ELSE g[k - 1] \o a[k]
    BY <2>4 DEF PrintedUpTo
  <2>6. (\A k \in 0..(m - 1) : f[k] = g[k]) /\ f[m] = g[m - 1] \o a[m]
    <3>1. m \in 0..m /\ \A k \in 0..(m - 1) : k \in 0..m /\ k # m
      BY <2>3
    <3>2. f[m] = g[m - 1] \o a[m]
      BY <3>1, Zenon
    <3>3. \A k \in 0..(m - 1) : f[k] = g[k]
      BY <3>1, Zenon
    <3> QED
      BY <3>2, <3>3
  <2>7. \A k \in 0..m : f[k] = IF k = 0 THEN out ELSE f[k - 1] \o a[k]
    <3> HIDE DEF f
    <3> SUFFICES ASSUME NEW k \in 0..m
                 PROVE  f[k] = IF k = 0 THEN out ELSE f[k - 1] \o a[k]
      OBVIOUS
    <3>1. CASE k = m
      <4>1. m - 1 \in 0..(m - 1)
        BY <2>2, <2>3
      <4> QED
        BY <2>2, <2>6, <3>1, <4>1
    <3>2. CASE k = 0
      BY <2>2, <2>3, <2>5, <2>6, <3>2
    <3>3. CASE k # m /\ k # 0
      <4>1. k \in 0..(m - 1) /\ k - 1 \in 0..(m - 1)
        BY <2>3, <3>3
      <4>2. f[k] = g[k] /\ f[k - 1] = g[k - 1]
        BY <2>6, <4>1
      <4> QED
        BY <2>5, <3>3, <4>1, <4>2
    <3> QED
      BY <3>1, <3>2, <3>3
  <2>8. PrintedUpTo(out, a, m, f)
    BY <2>7 DEF PrintedUpTo
  <2> QED
    BY <2>3, <2>8
<1> QED
  BY <1>1

\* What is printed, answer by answer: f[k] is the FIFO after the first k.
PrintedBy(f, out, a) ==
    /\ f[0] = out /\ \A k \in 1..Len(a) : f[k] = f[k - 1] \o a[k]
    /\ Printed(out, a) = f[Len(a)]

\* Such a function exists.
LEMMA PrintedSteps ==
    ASSUME NEW out, NEW a, Len(a) \in Nat
    PROVE  \E f : PrintedBy(f, out, a)
<1> DEFINE upTo[k \in 0..Len(a)] == IF k = 0 THEN out ELSE upTo[k - 1] \o a[k]
<1>1. upTo = [k \in 0..Len(a) |-> IF k = 0 THEN out ELSE upTo[k - 1] \o a[k]]
  <2>1. \E f : PrintedUpTo(out, a, Len(a), f)
    BY PrintedUnfolds
  <2> QED
    BY <2>1, Zenon DEF PrintedUpTo
<1>2. Printed(out, a) = upTo[Len(a)]
  BY DEF Printed
<1> HIDE DEF upTo
<1>3. upTo[0] = out
  BY <1>1
<1>4. ASSUME NEW k \in 1..Len(a)
      PROVE  upTo[k] = upTo[k - 1] \o a[k]
  <2>1. k \in 0..Len(a) /\ k # 0
    OBVIOUS
  <2> QED
    BY <1>1, <2>1
<1>5. PrintedBy(upTo, out, a)
  BY <1>2, <1>3, <1>4 DEF PrintedBy
<1> QED
  BY <1>5, Zenon

\* A FIFO that grew by the first n answers: behind what was there, every frame is one
\* of an answer, and two frames are not the same one.
GrownBy(out, p, a, n) ==
    /\ Len(p) >= Len(out) /\ \A i \in 1..Len(out) : p[i] = out[i]
    /\ \A i \in (Len(out) + 1)..Len(p) : \E k \in 1..n : \E x \in 1..Len(a[k]) : p[i] = a[k][x]
    /\ \A i, j \in (Len(out) + 1)..Len(p) : i # j =>
          \E k, l \in 1..n : \E x \in 1..Len(a[k]), y \in 1..Len(a[l]) :
             p[i] = a[k][x] /\ p[j] = a[l][y] /\ (k = l => x # y)

\* One more answer.
LEMMA GrownByOne ==
    ASSUME NEW S, NEW out \in Seq(S), NEW a, NEW n \in Nat, NEW p \in Seq(S), GrownBy(out, p, a, n),
           a[n + 1] \in Seq(S)
    PROVE  p \o a[n + 1] \in Seq(S) /\ GrownBy(out, p \o a[n + 1], a, n + 1)
<1> DEFINE t == a[n + 1]
           q == p \o t
<1>1. t \in Seq(S) /\ Len(t) \in Nat /\ Len(p) \in Nat /\ Len(out) \in Nat
  OBVIOUS
<1>2. /\ q \in Seq(S) /\ Len(q) = Len(p) + Len(t)
      /\ \A i \in 1..(Len(p) + Len(t)) : q[i] = IF i <= Len(p) THEN p[i] ELSE t[i - Len(p)]
  BY <1>1, ConcatProperties
<1>3. Len(p) >= Len(out) /\ \A i \in 1..Len(out) : p[i] = out[i]
  BY DEF GrownBy
<1>4. \A i \in (Len(out) + 1)..Len(p) : \E k \in 1..n : \E x \in 1..Len(a[k]) : p[i] = a[k][x]
  BY DEF GrownBy
<1>5. \A i, j \in (Len(out) + 1)..Len(p) : i # j =>
          \E k, l \in 1..n : \E x \in 1..Len(a[k]), y \in 1..Len(a[l]) :
             p[i] = a[k][x] /\ p[j] = a[l][y] /\ (k = l => x # y)
  BY DEF GrownBy
<1> HIDE DEF q, t
<1>6. \A i \in (Len(out) + 1)..Len(q) :
          \/ i \in (Len(out) + 1)..Len(p) /\ q[i] = p[i]
          \/ i - Len(p) \in 1..Len(t) /\ ~(i \in (Len(out) + 1)..Len(p)) /\ q[i] = t[i - Len(p)]
  BY <1>1, <1>2, <1>3
<1>7. n + 1 \in 1..(n + 1) /\ t = a[n + 1] /\ \A k \in 1..n : k \in 1..(n + 1) /\ k # n + 1
  BY DEF t
<1>8. ASSUME NEW i \in (Len(out) + 1)..Len(q)
      PROVE  \E k \in 1..(n + 1) : \E x \in 1..Len(a[k]) : q[i] = a[k][x]
  <2>1. CASE i \in (Len(out) + 1)..Len(p) /\ q[i] = p[i]
    <3>1. PICK k \in 1..n : \E x \in 1..Len(a[k]) : p[i] = a[k][x]
      BY <1>4, <2>1
    <3>2. k \in 1..(n + 1)
      BY <1>7
    <3>3. \E x \in 1..Len(a[k]) : q[i] = a[k][x]
      BY <2>1, <3>1
    <3> QED
      BY <3>2, <3>3, Zenon
  <2>2. CASE i - Len(p) \in 1..Len(t) /\ q[i] = t[i - Len(p)]
    BY <1>7, <2>2
  <2> QED
    BY <1>6, <2>1, <2>2
<1>9. ASSUME NEW i \in (Len(out) + 1)..Len(q), NEW j \in (Len(out) + 1)..Len(q), i # j
      PROVE  \E k, l \in 1..(n + 1) : \E x \in 1..Len(a[k]), y \in 1..Len(a[l]) :
                q[i] = a[k][x] /\ q[j] = a[l][y] /\ (k = l => x # y)
  <2>1. CASE i \in (Len(out) + 1)..Len(p) /\ q[i] = p[i] /\ j \in (Len(out) + 1)..Len(p) /\ q[j] = p[j]
    <3>1. PICK k \in 1..n, l \in 1..n : \E x \in 1..Len(a[k]), y \in 1..Len(a[l]) :
                p[i] = a[k][x] /\ p[j] = a[l][y] /\ (k = l => x # y)
      BY <1>5, <1>9, <2>1
    <3>2. k \in 1..(n + 1) /\ l \in 1..(n + 1)
      BY <1>7
    <3>3. \E x \in 1..Len(a[k]), y \in 1..Len(a[l]) : q[i] = a[k][x] /\ q[j] = a[l][y] /\ (k = l => x # y)
      BY <2>1, <3>1
    <3> QED
      BY <3>2, <3>3, Zenon
  <2>2. CASE i \in (Len(out) + 1)..Len(p) /\ q[i] = p[i] /\ j - Len(p) \in 1..Len(t) /\ q[j] = t[j - Len(p)]
    <3>1. PICK k \in 1..n : \E x \in 1..Len(a[k]) : p[i] = a[k][x]
      BY <1>4, <2>2
    <3>2. PICK x \in 1..Len(a[k]) : p[i] = a[k][x]
      BY <3>1
    <3>3. k \in 1..(n + 1) /\ k # n + 1
      BY <1>7
    <3> DEFINE z == j - Len(p)
    <3>4. z \in 1..Len(a[n + 1]) /\ q[j] = a[n + 1][z] /\ q[i] = a[k][x]
      BY <1>7, <2>2, <3>2
    <3> HIDE DEF z
    <3> QED
      BY <1>7, <3>3, <3>4
  <2>3. CASE j \in (Len(out) + 1)..Len(p) /\ q[j] = p[j] /\ i - Len(p) \in 1..Len(t) /\ q[i] = t[i - Len(p)]
    <3>1. PICK k \in 1..n : \E x \in 1..Len(a[k]) : p[j] = a[k][x]
      BY <1>4, <2>3
    <3>2. PICK x \in 1..Len(a[k]) : p[j] = a[k][x]
      BY <3>1
    <3>3. k \in 1..(n + 1) /\ k # n + 1
      BY <1>7
    <3> DEFINE z == i - Len(p)
    <3>4. z \in 1..Len(a[n + 1]) /\ q[i] = a[n + 1][z] /\ q[j] = a[k][x]
      BY <1>7, <2>3, <3>2
    <3> HIDE DEF z
    <3> QED
      BY <1>7, <3>3, <3>4
  <2>4. CASE /\ j - Len(p) \in 1..Len(t) /\ q[j] = t[j - Len(p)]
             /\ i - Len(p) \in 1..Len(t) /\ q[i] = t[i - Len(p)]
    <3>1. i - Len(p) # j - Len(p)
      <4>1. i \in Int /\ j \in Int
        BY <1>1, <1>2
      <4> QED
        BY <1>1, <1>9, <4>1
    <3> DEFINE x == i - Len(p)
               y == j - Len(p)
    <3>2. x \in 1..Len(a[n + 1]) /\ q[i] = a[n + 1][x] /\ y \in 1..Len(a[n + 1]) /\ q[j] = a[n + 1][y] /\ x # y
      BY <1>7, <2>4, <3>1
    <3> HIDE DEF x, y
    <3>3. \E u \in 1..Len(a[n + 1]), v \in 1..Len(a[n + 1]) : q[i] = a[n + 1][u] /\ q[j] = a[n + 1][v] /\ u # v
      BY <3>2
    <3> QED
      BY <1>7, <3>3
  <2> QED
    BY <1>6, <2>1, <2>2, <2>3, <2>4
<1>10. Len(q) >= Len(out) /\ \A i \in 1..Len(out) : q[i] = out[i]
  BY <1>1, <1>2, <1>3
<1> QED
  BY <1>2, <1>8, <1>9, <1>10 DEF GrownBy, q, t

\* All the answers.
LEMMA PrintedGrows ==
    ASSUME NEW S, NEW out \in Seq(S), NEW a, Len(a) \in Nat, \A k \in 1..Len(a) : a[k] \in Seq(S)
    PROVE  Printed(out, a) \in Seq(S) /\ GrownBy(out, Printed(out, a), a, Len(a))
<1>0. PICK f : PrintedBy(f, out, a)
  BY PrintedSteps, Zenon
<1>1. /\ f[0] = out /\ \A k \in 1..Len(a) : f[k] = f[k - 1] \o a[k]
      /\ Printed(out, a) = f[Len(a)]
  BY <1>0 DEF PrintedBy
<1> DEFINE Good(m) == f[m] \in Seq(S) /\ GrownBy(out, f[m], a, m)
           Bad == {m \in 0..Len(a) : ~Good(m)}
<1>2. ASSUME Bad # {}
      PROVE  FALSE
  <2>0. Bad \subseteq Nat
    OBVIOUS
  <2>1. PICK m \in Bad : \A k \in Bad : m <= k
    BY <1>2, <2>0, LeastNat
  <2>2. m \in 0..Len(a) /\ ~Good(m)
    BY <2>1
  <2>3. CASE m = 0
    <3>1. f[m] = out
      BY <1>1, <2>3
    <3>2. GrownBy(out, out, a, 0)
      <4>1. Len(out) \in Nat
        OBVIOUS
      <4> QED
        BY <4>1 DEF GrownBy
    <3> QED
      BY <2>2, <2>3, <3>1, <3>2
  <2>4. CASE m # 0
    <3>1. m - 1 \in Nat /\ m - 1 \in 0..Len(a) /\ ~(m <= m - 1) /\ m \in 1..Len(a) /\ (m - 1) + 1 = m
      BY <2>2, <2>4
    <3>2. Good(m - 1)
      BY <2>1, <3>1
    <3>3. f[m] = f[m - 1] \o a[m]
      BY <1>1, <3>1
    <3> DEFINE n == m - 1
    <3>4. n \in Nat /\ f[n] \in Seq(S) /\ GrownBy(out, f[n], a, n) /\ a[n + 1] \in Seq(S)
      BY <3>1, <3>2
    <3> HIDE DEF n
    <3>5. f[n] \o a[n + 1] \in Seq(S) /\ GrownBy(out, f[n] \o a[n + 1], a, n + 1)
      BY <3>4, GrownByOne
    <3> QED
      BY <2>2, <3>1, <3>3, <3>5 DEF n
  <2> QED
    BY <2>3, <2>4
<1>3. Good(Len(a))
  BY <1>2
<1> QED
  BY <1>1, <1>3

\* What a step may add to the FIFO and change of what the executor runs.
Prints(c) ==
    /\ ltOut' \in Seq(LtFrames) /\ ltRuns' \in [LtSlotIds -> LtCmds \union {"none"}]
    /\ Len(ltOut') >= Len(ltOut) /\ \A i \in 1..Len(ltOut) : ltOut'[i] = ltOut[i]
    /\ \A i \in (Len(ltOut) + 1)..Len(ltOut') :
          /\ ltOut'[i].op = "EXEC" =>
                /\ c \in LtCmds /\ ltCall[c].op = "EXEC" /\ ltCall[c].pc = "write"
                /\ ltOut'[i].who = c /\ ltOut'[i].slot = ltCall[c].slot
                /\ ltRuns[ltCall[c].slot] = "none" /\ ltRuns'[ltCall[c].slot] = c
          /\ ltOut'[i].op = "VERSION" => c = "comm" /\ ltCall[c].pc = "write"
          /\ ltOut'[i].op = "RESULT" =>
                /\ ltOut'[i].slot \in LtSlotIds /\ ltOut'[i].who = ltRuns[ltOut'[i].slot]
                /\ ltOut'[i].who # "none" /\ ltRuns'[ltOut'[i].slot] = "none" /\ c = "stop"
    /\ \A i, j \in (Len(ltOut) + 1)..Len(ltOut') :
          \/ ltOut'[i].op = "VERSION" /\ ltOut'[j].op = "VERSION"
          \/ ltOut'[i].op = "RESULT" /\ ltOut'[j].op = "RESULT" /\ ltOut'[i].who = ltOut'[j].who
          => i = j
    /\ \A s \in LtSlotIds :
          \/ ltRuns'[s] \in {ltRuns[s], "none"}
          \/ /\ ltRuns'[s] = c /\ c \in LtCmds /\ ltCall[c].op = "EXEC" /\ ltCall[c].pc = "write"
             /\ s = ltCall[c].slot /\ ltRuns[s] = "none"

\* The frames of one answer.
LEMMA AnswerFrames ==
    ASSUME LtTyped, NEW c \in LtCalls, NEW req \in LtRequests, NEW a \in Answers(req, c),
           req.kind \in {"EXEC", "KILL"} => req.slot \in LtSlotIds
    PROVE  /\ a \in Seq(LtFrames)
           /\ \A x \in 1..Len(a) :
                /\ a[x].op = "EXEC" =>
                      /\ req.kind = "EXEC" /\ ltRuns[req.slot] = "none"
                      /\ a = <<Frame("EXEC", req.slot, c)>> /\ a[x].who = c /\ a[x].slot = req.slot
                /\ a[x].op = "VERSION" => req.kind = "VERSION" /\ x = 1
                /\ a[x].op = "RESULT" =>
                      /\ req.kind = "KILL" /\ x = 2 /\ ltRuns[req.slot] # "none"
                      /\ a = <<Frame("KILL", req.slot, c)>> \o Result(req.slot)
                      /\ a[x].slot = req.slot /\ a[x].who = ltRuns[req.slot]
<1>no. LtNoSlot \in 0..LtSlots
  BY LtxAssumption DEF LtNoSlot
<1>req. req.kind \in LtOps /\ req.slot \in 0..LtSlots
  BY DEF LtRequests
<1>frame. ASSUME NEW op \in LtOps \union {"PONG", "DATA", "RESULT", "ERROR"}, NEW t \in 0..LtSlots, NEW w \in LtCalls
          PROVE  /\ Frame(op, t, w) \in LtFrames /\ Frame(op, t, w).op = op
                 /\ Frame(op, t, w).slot = t /\ Frame(op, t, w).who = w
  BY DEF Frame, LtFrames
<1>1. \/ req.kind = "PING" /\ a = <<Frame("PING", LtNoSlot, c), Frame("PONG", LtNoSlot, c)>>
      \/ req.kind = "GET_FILE" /\ a = <<Frame("ERROR", LtNoSlot, c)>>
      \/ req.kind = "GET_FILE" /\ a = <<Frame("DATA", LtNoSlot, c), Frame("GET_FILE", LtNoSlot, c)>>
      \/ req.kind = "EXEC" /\ a = <<Frame("ERROR", LtNoSlot, c)>>
      \/ req.kind = "EXEC" /\ ltRuns[req.slot] = "none" /\ a = <<Frame("EXEC", req.slot, c)>>
      \/ /\ req.kind = "KILL" /\ ltRuns[req.slot] # "none"
         /\ a = <<Frame("KILL", req.slot, c)>> \o Result(req.slot)
      \/ req.kind \in {"VERSION", "KILL"} /\ a = <<Frame(req.kind, req.slot, c)>>
  BY <1>req DEF Answers, LtOps
<1>2. CASE req.kind = "PING" /\ a = <<Frame("PING", LtNoSlot, c), Frame("PONG", LtNoSlot, c)>>
  <2>1. Frame("PING", LtNoSlot, c) \in LtFrames /\ Frame("PONG", LtNoSlot, c) \in LtFrames
    BY <1>no, <1>frame DEF LtOps
  <2>2. Frame("PING", LtNoSlot, c).op = "PING" /\ Frame("PONG", LtNoSlot, c).op = "PONG"
    BY <1>no, <1>frame DEF LtOps
  <2> QED
    BY <1>2, <2>1, <2>2
<1>3. CASE req.kind \in {"EXEC", "GET_FILE"} /\ a = <<Frame("ERROR", LtNoSlot, c)>>
  <2>1. Frame("ERROR", LtNoSlot, c) \in LtFrames /\ Frame("ERROR", LtNoSlot, c).op = "ERROR"
    BY <1>no, <1>frame
  <2> QED
    BY <1>3, <2>1
<1>4. CASE req.kind = "GET_FILE" /\ a = <<Frame("DATA", LtNoSlot, c), Frame("GET_FILE", LtNoSlot, c)>>
  <2>1. Frame("DATA", LtNoSlot, c) \in LtFrames /\ Frame("GET_FILE", LtNoSlot, c) \in LtFrames
    BY <1>no, <1>frame DEF LtOps
  <2>2. Frame("DATA", LtNoSlot, c).op = "DATA" /\ Frame("GET_FILE", LtNoSlot, c).op = "GET_FILE"
    BY <1>no, <1>frame DEF LtOps
  <2> QED
    BY <1>4, <2>1, <2>2
<1>5. CASE req.kind = "EXEC" /\ ltRuns[req.slot] = "none" /\ a = <<Frame("EXEC", req.slot, c)>>
  <2>1. /\ Frame("EXEC", req.slot, c) \in LtFrames /\ Frame("EXEC", req.slot, c).op = "EXEC"
        /\ Frame("EXEC", req.slot, c).slot = req.slot /\ Frame("EXEC", req.slot, c).who = c
    BY <1>req, <1>frame DEF LtOps
  <2> QED
    BY <1>5, <2>1
<1>6. CASE /\ req.kind = "KILL" /\ ltRuns[req.slot] # "none"
           /\ a = <<Frame("KILL", req.slot, c)>> \o Result(req.slot)
  <2> DEFINE k == Frame("KILL", req.slot, c)
             r == Frame("RESULT", req.slot, ltRuns[req.slot])
  <2>1. k \in LtFrames /\ k.op = "KILL"
    BY <1>req, <1>frame DEF LtOps
  <2>2. ltRuns[req.slot] \in LtCalls
    BY <1>6 DEF LtTyped, LtCalls
  <2>3. r \in LtFrames /\ r.op = "RESULT" /\ r.slot = req.slot /\ r.who = ltRuns[req.slot]
    BY <1>req, <1>frame, <2>2 DEF LtOps
  <2>4. a = <<k>> \o <<r>>
    BY <1>6 DEF Result
  <2> HIDE DEF k, r
  <2>5. <<k>> \in Seq(LtFrames) /\ <<r>> \in Seq(LtFrames) /\ Len(<<k>>) = 1 /\ Len(<<r>>) = 1 /\ <<k>>[1] = k /\ <<r>>[1] = r
    BY <2>1, <2>3
  <2>6. a \in Seq(LtFrames) /\ Len(a) = 2 /\ a[1] = k /\ a[2] = r
    BY <2>4, <2>5, ConcatProperties
  <2>7. \A x \in 1..Len(a) : x = 1 \/ x = 2
    BY <2>6
  <2> QED
    BY <1>6, <2>1, <2>3, <2>6, <2>7
<1>7. CASE req.kind \in {"VERSION", "KILL"} /\ a = <<Frame(req.kind, req.slot, c)>>
  <2>1. Frame(req.kind, req.slot, c) \in LtFrames /\ Frame(req.kind, req.slot, c).op = req.kind
    BY <1>req, <1>frame
  <2> QED
    BY <1>7, <2>1
<1> QED
  BY <1>1, <1>2, <1>3, <1>4, <1>5, <1>6, <1>7

\* What the executor prints for a batch.
LEMMA ServePrints ==
    ASSUME LtBase, NEW c \in LtCalls, ltCall[c].pc = "write", Serve(c)
    PROVE  Prints(c)
<1> DEFINE reqs == ltCall[c].reqs
           n == Len(reqs)
<1>1. PICK a \in [1..n -> UNION {Answers(reqs[k], c) : k \in 1..n}] :
        /\ \A k \in 1..n : a[k] \in Answers(reqs[k], c)
        /\ ltOut' = Printed(ltOut, a)
        /\ ltRuns' = [s \in DOMAIN ltRuns |->
             IF \E k \in DOMAIN a : a[k] = <<Frame("EXEC", s, c)>> THEN c
             ELSE IF \E k \in DOMAIN a : a[k] = <<Frame("KILL", s, c)>> \o Result(s)
                  THEN "none" ELSE ltRuns[s]]
  BY DEF Serve
<1>2. reqs \in Seq(LtRequests) /\ n \in Nat
  BY DEF LtBase, LtTyped, LtCallRecords
<1>3. c # "stop" =>
        /\ reqs = <<LtRequest(ltCall[c].op, ltCall[c].slot)>>
        /\ ltCall[c].op = "EXEC" => c \in LtCmds /\ ltCall[c].slot \in LtSlotIds
        /\ ltCall[c].op \in {"VERSION", "PING", "GET_FILE", "EXEC"}
        /\ ltCall[c].op = "VERSION" => c = "comm"
  BY DEF LtBase, LtAsked, Sending
<1>4. c = "stop" =>
        /\ \A k \in 1..n : reqs[k].kind = "KILL" /\ reqs[k].slot \in LtSlotIds
        /\ \A j, k \in 1..n : reqs[j].slot = reqs[k].slot => j = k
  <2>1. c = "stop" =>
          /\ \A k \in 1..n : \E s \in LtSlotIds : reqs[k] = LtRequest("KILL", s)
          /\ \A j, k \in 1..n : reqs[j].slot = reqs[k].slot => j = k
    BY DEF LtBase, LtAsked, Sending
  <2>2. \A s \in LtSlotIds : LtRequest("KILL", s).kind = "KILL" /\ LtRequest("KILL", s).slot = s
    BY DEF LtRequest
  <2> HIDE DEF reqs, n
  <2>3. ASSUME c = "stop", NEW k \in 1..n
        PROVE  reqs[k].kind = "KILL" /\ reqs[k].slot \in LtSlotIds
    <3>1. PICK s \in LtSlotIds : reqs[k] = LtRequest("KILL", s)
      BY <2>1, <2>3, Zenon
    <3> QED
      BY <2>2, <3>1, Zenon
  <2>4. c = "stop" => \A j, k \in 1..n : reqs[j].slot = reqs[k].slot => j = k
    BY <2>1, Zenon
  <2> QED
    BY <2>3, <2>4, Zenon
<1>5. c # "stop" =>
        /\ \A k \in 1..n : k = 1
        /\ \A k \in 1..n : reqs[k].kind = ltCall[c].op /\ reqs[k].slot = ltCall[c].slot
  <2> SUFFICES ASSUME c # "stop"
               PROVE  /\ \A k \in 1..n : k = 1
                      /\ \A k \in 1..n : reqs[k].kind = ltCall[c].op /\ reqs[k].slot = ltCall[c].slot
    OBVIOUS
  <2> DEFINE r == LtRequest(ltCall[c].op, ltCall[c].slot)
  <2>1. reqs = <<r>>
    BY <1>3
  <2>2. r.kind = ltCall[c].op /\ r.slot = ltCall[c].slot
    BY DEF LtRequest
  <2> HIDE DEF r, reqs
  <2>3. n = 1 /\ reqs[1] = r
    BY <2>1
  <2> HIDE DEF n
  <2> QED
    BY <2>2, <2>3
<1> HIDE DEF reqs, n
<1>6. \A k \in 1..n : /\ reqs[k] \in LtRequests
                      /\ reqs[k].kind \in {"EXEC", "KILL"} => reqs[k].slot \in LtSlotIds
                      /\ reqs[k].kind = "EXEC" => c # "stop" /\ c \in LtCmds /\ ltCall[c].op = "EXEC" /\ reqs[k].slot = ltCall[c].slot
                      /\ reqs[k].kind = "VERSION" => c = "comm" /\ c # "stop"
                      /\ reqs[k].kind = "KILL" <=> c = "stop"
  <2>1. \A k \in 1..n : reqs[k] \in LtRequests
    BY <1>2 DEF n
  <2> QED
    BY <1>3, <1>4, <1>5, <2>1
<1>7. ASSUME NEW k \in 1..n
      PROVE  /\ a[k] \in Seq(LtFrames)
             /\ \A x \in 1..Len(a[k]) :
                /\ a[k][x].op = "EXEC" =>
                      /\ reqs[k].kind = "EXEC" /\ ltRuns[reqs[k].slot] = "none"
                      /\ a[k] = <<Frame("EXEC", reqs[k].slot, c)>> /\ a[k][x].who = c /\ a[k][x].slot = reqs[k].slot
                /\ a[k][x].op = "VERSION" => reqs[k].kind = "VERSION" /\ x = 1
                /\ a[k][x].op = "RESULT" =>
                      /\ reqs[k].kind = "KILL" /\ x = 2 /\ ltRuns[reqs[k].slot] # "none"
                      /\ a[k] = <<Frame("KILL", reqs[k].slot, c)>> \o Result(reqs[k].slot)
                      /\ a[k][x].slot = reqs[k].slot /\ a[k][x].who = ltRuns[reqs[k].slot]
  <2>1. a[k] \in Answers(reqs[k], c) /\ LtTyped
    BY <1>1 DEF LtBase
  <2>2. reqs[k] \in LtRequests /\ (reqs[k].kind \in {"EXEC", "KILL"} => reqs[k].slot \in LtSlotIds)
    BY <1>6
  <2> DEFINE r == reqs[k]
             b == a[k]
  <2>3. r \in LtRequests /\ b \in Answers(r, c) /\ (r.kind \in {"EXEC", "KILL"} => r.slot \in LtSlotIds)
    BY <2>1, <2>2
  <2> HIDE DEF r, b
  <2>4. /\ b \in Seq(LtFrames)
        /\ \A x \in 1..Len(b) :
             /\ b[x].op = "EXEC" =>
                   /\ r.kind = "EXEC" /\ ltRuns[r.slot] = "none"
                   /\ b = <<Frame("EXEC", r.slot, c)>> /\ b[x].who = c /\ b[x].slot = r.slot
             /\ b[x].op = "VERSION" => r.kind = "VERSION" /\ x = 1
             /\ b[x].op = "RESULT" =>
                   /\ r.kind = "KILL" /\ x = 2 /\ ltRuns[r.slot] # "none"
                   /\ b = <<Frame("KILL", r.slot, c)>> \o Result(r.slot)
                   /\ b[x].slot = r.slot /\ b[x].who = ltRuns[r.slot]
    BY <2>1, <2>3, AnswerFrames
  <2> QED
    BY <2>4 DEF r, b
<1>8. Len(a) = n /\ DOMAIN a = 1..n
  BY <1>1, <1>2
<1>9. ltOut \in Seq(LtFrames) /\ Len(ltOut) \in Nat /\ DOMAIN ltRuns = LtSlotIds
      /\ \A s \in LtSlotIds : ltRuns[s] \in LtCmds \union {"none"}
  BY DEF LtBase, LtTyped
<1>10. ltOut' \in Seq(LtFrames) /\ GrownBy(ltOut, ltOut', a, n)
  <2>1. Printed(ltOut, a) \in Seq(LtFrames) /\ GrownBy(ltOut, Printed(ltOut, a), a, Len(a))
    BY <1>2, <1>7, <1>8, <1>9, PrintedGrows
  <2> QED
    BY <1>1, <1>8, <2>1
<1>11. \A s \in LtSlotIds : ltRuns'[s] =
             IF \E k \in 1..n : a[k] = <<Frame("EXEC", s, c)>> THEN c
             ELSE IF \E k \in 1..n : a[k] = <<Frame("KILL", s, c)>> \o Result(s)
                  THEN "none" ELSE ltRuns[s]
  BY <1>1, <1>8, <1>9
<1>12. \A s \in LtSlotIds, k \in 1..n : a[k] = <<Frame("EXEC", s, c)>> =>
           /\ c \in LtCmds /\ ltCall[c].op = "EXEC" /\ ltCall[c].pc = "write" /\ c # "stop"
           /\ s = ltCall[c].slot /\ ltRuns[s] = "none"
  <2> SUFFICES ASSUME NEW s \in LtSlotIds, NEW k \in 1..n, a[k] = <<Frame("EXEC", s, c)>>
               PROVE  /\ c \in LtCmds /\ ltCall[c].op = "EXEC" /\ ltCall[c].pc = "write" /\ c # "stop"
                      /\ s = ltCall[c].slot /\ ltRuns[s] = "none"
    OBVIOUS
  <2>1. Len(a[k]) = 1 /\ a[k][1].op = "EXEC" /\ a[k][1].slot = s
    BY DEF Frame
  <2>2. 1 \in 1..Len(a[k])
    BY <2>1
  <2>3. reqs[k].kind = "EXEC" /\ ltRuns[reqs[k].slot] = "none" /\ s = reqs[k].slot
    BY <1>7, <2>1, <2>2
  <2> QED
    BY <1>6, <2>3
<1>13. \A s \in LtSlotIds :
          \/ ltRuns'[s] \in {ltRuns[s], "none"}
          \/ /\ ltRuns'[s] = c /\ c \in LtCmds /\ ltCall[c].op = "EXEC" /\ ltCall[c].pc = "write"
             /\ s = ltCall[c].slot /\ ltRuns[s] = "none"
  BY <1>11, <1>12
<1>14. ltRuns' \in [LtSlotIds -> LtCmds \union {"none"}]
  <2>1. ltRuns' = [s \in LtSlotIds |-> ltRuns'[s]]
    BY <1>1, <1>9
  <2>2. \A s \in LtSlotIds : ltRuns'[s] \in LtCmds \union {"none"}
    BY <1>9, <1>13
  <2> QED
    BY <2>1, <2>2
<1>15. ASSUME NEW i \in (Len(ltOut) + 1)..Len(ltOut')
       PROVE  /\ ltOut'[i].op = "EXEC" =>
                /\ c \in LtCmds /\ ltCall[c].op = "EXEC" /\ ltCall[c].pc = "write"
                /\ ltOut'[i].who = c /\ ltOut'[i].slot = ltCall[c].slot
                /\ ltRuns[ltCall[c].slot] = "none" /\ ltRuns'[ltCall[c].slot] = c
              /\ ltOut'[i].op = "VERSION" => c = "comm" /\ ltCall[c].pc = "write"
              /\ ltOut'[i].op = "RESULT" =>
                /\ ltOut'[i].slot \in LtSlotIds /\ ltOut'[i].who = ltRuns[ltOut'[i].slot]
                /\ ltOut'[i].who # "none" /\ ltRuns'[ltOut'[i].slot] = "none" /\ c = "stop"
  <2>1. PICK k \in 1..n : \E x \in 1..Len(a[k]) : ltOut'[i] = a[k][x]
    BY <1>10 DEF GrownBy
  <2>2. PICK x \in 1..Len(a[k]) : ltOut'[i] = a[k][x]
    BY <2>1
  <2>3. CASE ltOut'[i].op = "EXEC"
    <3>1. reqs[k].kind = "EXEC" /\ ltRuns[reqs[k].slot] = "none" /\ a[k] = <<Frame("EXEC", reqs[k].slot, c)>>
          /\ ltOut'[i].who = c /\ ltOut'[i].slot = reqs[k].slot
      BY <1>7, <2>2, <2>3
    <3>2. c \in LtCmds /\ ltCall[c].op = "EXEC" /\ reqs[k].slot = ltCall[c].slot /\ reqs[k].slot \in LtSlotIds
      BY <1>6, <3>1
    <3>3. ltRuns'[ltCall[c].slot] = c
      BY <1>11, <3>1, <3>2
    <3> QED
      BY <2>3, <3>1, <3>2, <3>3
  <2>4. CASE ltOut'[i].op = "VERSION"
    BY <1>6, <1>7, <2>2, <2>4
  <2>5. CASE ltOut'[i].op = "RESULT"
    <3>1. /\ reqs[k].kind = "KILL" /\ ltRuns[reqs[k].slot] # "none"
          /\ a[k] = <<Frame("KILL", reqs[k].slot, c)>> \o Result(reqs[k].slot)
          /\ ltOut'[i].slot = reqs[k].slot /\ ltOut'[i].who = ltRuns[reqs[k].slot]
      BY <1>7, <2>2, <2>5
    <3>2. c = "stop" /\ reqs[k].slot \in LtSlotIds
      BY <1>6, <3>1
    <3>3. ltRuns'[reqs[k].slot] = "none"
      BY <1>11, <1>12, <3>1, <3>2
    <3> QED
      BY <2>5, <3>1, <3>2, <3>3
  <2> QED
    BY <2>3, <2>4, <2>5
<1>16. ASSUME NEW i \in (Len(ltOut) + 1)..Len(ltOut'), NEW j \in (Len(ltOut) + 1)..Len(ltOut'), i # j
       PROVE  /\ ~(ltOut'[i].op = "VERSION" /\ ltOut'[j].op = "VERSION")
              /\ ~(ltOut'[i].op = "RESULT" /\ ltOut'[j].op = "RESULT" /\ ltOut'[i].who = ltOut'[j].who)
  <2>1. PICK k \in 1..n, l \in 1..n : \E x \in 1..Len(a[k]), y \in 1..Len(a[l]) :
             ltOut'[i] = a[k][x] /\ ltOut'[j] = a[l][y] /\ (k = l => x # y)
    BY <1>10, <1>16 DEF GrownBy
  <2>2. PICK x \in 1..Len(a[k]), y \in 1..Len(a[l]) :
             ltOut'[i] = a[k][x] /\ ltOut'[j] = a[l][y] /\ (k = l => x # y)
    BY <2>1
  <2>3. ASSUME ltOut'[i].op = "VERSION", ltOut'[j].op = "VERSION"
        PROVE  FALSE
    <3>1. x = 1 /\ y = 1 /\ reqs[k].kind = "VERSION"
      BY <1>7, <2>2, <2>3
    <3>2. k = 1 /\ l = 1
      BY <1>5, <1>6, <3>1
    <3> QED
      BY <2>2, <3>1, <3>2
  <2>4. ASSUME ltOut'[i].op = "RESULT", ltOut'[j].op = "RESULT", ltOut'[i].who = ltOut'[j].who
        PROVE  FALSE
    <3>0. a[k][x].op = "RESULT" /\ a[l][y].op = "RESULT" /\ a[k][x].who = a[l][y].who
      BY <2>2, <2>4
    <3>1. /\ x = 2 /\ y = 2 /\ reqs[k].kind = "KILL" /\ reqs[l].kind = "KILL"
          /\ ltRuns[reqs[k].slot] # "none" /\ ltRuns[reqs[l].slot] = ltRuns[reqs[k].slot]
      <4>1. /\ x = 2 /\ reqs[k].kind = "KILL" /\ ltRuns[reqs[k].slot] # "none"
            /\ a[k][x].who = ltRuns[reqs[k].slot]
        BY <1>7, <3>0
      <4>2. y = 2 /\ reqs[l].kind = "KILL" /\ a[l][y].who = ltRuns[reqs[l].slot]
        BY <1>7, <3>0
      <4> QED
        BY <3>0, <4>1, <4>2
    <3>2. c = "stop" /\ reqs[k].slot \in LtSlotIds /\ reqs[l].slot \in LtSlotIds
      BY <1>6, <3>1
    <3>3. reqs[k].slot = reqs[l].slot
      BY <3>1, <3>2 DEF LtBase, LtExecuted
    <3> QED
      BY <1>4, <2>2, <3>1, <3>2, <3>3
  <2> QED
    BY <2>3, <2>4
<1>17. Len(ltOut') >= Len(ltOut) /\ \A i \in 1..Len(ltOut) : ltOut'[i] = ltOut[i]
  BY <1>10 DEF GrownBy
<1> QED
  BY <1>10, <1>13, <1>14, <1>15, <1>16, <1>17 DEF Prints

\* A step that prints and moves at most the call whose requests are written.
Printing(c) ==
    /\ Prints(c)
    /\ UNCHANGED <<ltLtx, ltConn, ltSlots, ltDone>>
    /\ \/ ltCall' = ltCall /\ c = "stop"
       \/ ltCall[c].pc = "write" /\ ltCall' = [ltCall EXCEPT ![c].pc = "wait"]
    /\ ltStray' = {} => ltStray = {} /\ (c \in LtCmds /\ ltCall[c].op = "EXEC" => Connected(ltCall[c].conn))

\* The calls stay what they are.
LEMMA PrintingCalls ==
    ASSUME LtTyped, NEW c \in LtCalls, Printing(c)
    PROVE  /\ ltCall' \in [LtCalls -> LtCallRecords]
           /\ \A d \in LtCalls :
                /\ ltCall'[d].op = ltCall[d].op /\ ltCall'[d].conn = ltCall[d].conn
                /\ ltCall'[d].slot = ltCall[d].slot /\ ltCall'[d].ids = ltCall[d].ids
                /\ ltCall'[d].reqs = ltCall[d].reqs /\ ltCall'[d].got = ltCall[d].got
                /\ \/ ltCall'[d].pc = ltCall[d].pc /\ (c = d => c = "stop")
                   \/ ltCall'[d].pc = ltCall[d].pc /\ c # d
                   \/ d = c /\ ltCall[d].pc = "write" /\ ltCall'[d].pc = "wait"
           /\ c # "stop" => ltCall[c].pc = "write" /\ ltCall'[c].pc = "wait"
<1>1. ltCall \in [LtCalls -> LtCallRecords]
  BY DEF LtTyped
<1>2. CASE ltCall' = ltCall /\ c = "stop"
  BY <1>1, <1>2
<1>3. CASE ltCall[c].pc = "write" /\ ltCall' = [ltCall EXCEPT ![c].pc = "wait"]
  <2>1. ltCall[c] \in LtCallRecords /\ [ltCall[c] EXCEPT !.pc = "wait"] \in LtCallRecords
    <3> DEFINE r == ltCall[c]
    <3>1. r \in LtCallRecords
      BY <1>1
    <3> HIDE DEF r
    <3>2. [r EXCEPT !.pc = "wait"] \in LtCallRecords
      BY <3>1 DEF LtCallRecords, LtPcs
    <3> QED
      BY <3>1, <3>2 DEF r
  <2>2. ltCall' \in [LtCalls -> LtCallRecords]
    BY <1>1, <1>3, <2>1
  <2>3. \A d \in LtCalls : d # c => ltCall'[d] = ltCall[d]
    BY <1>1, <1>3
  <2>4. ltCall'[c] = [ltCall[c] EXCEPT !.pc = "wait"]
    BY <1>1, <1>3
  <2>5. /\ ltCall'[c].op = ltCall[c].op /\ ltCall'[c].conn = ltCall[c].conn
        /\ ltCall'[c].slot = ltCall[c].slot /\ ltCall'[c].ids = ltCall[c].ids
        /\ ltCall'[c].reqs = ltCall[c].reqs /\ ltCall'[c].got = ltCall[c].got
        /\ ltCall'[c].pc = "wait"
    BY <2>1, <2>4 DEF LtCallRecords
  <2> QED
    BY <1>3, <2>2, <2>3, <2>5
<1> QED
  BY <1>2, <1>3 DEF Printing

\* What was in the FIFO and what is new.
LEMMA PrintedFrames ==
    ASSUME LtTyped, NEW c \in LtCalls, Prints(c)
    PROVE  /\ \A i \in 1..Len(ltOut') :
                  \/ i \in 1..Len(ltOut) /\ ltOut'[i] = ltOut[i]
                  \/ i \in (Len(ltOut) + 1)..Len(ltOut') /\ \A j \in 1..Len(ltOut) : j < i
           /\ \A s \in LtSlotIds : ltRuns[s] \in LtCmds \union {"none"}
           /\ Len(ltOut) \in Nat /\ Len(ltOut') \in Nat
<1>1. Len(ltOut) \in Nat /\ Len(ltOut') \in Nat
  BY DEF LtTyped, Prints
<1>2. \A i \in 1..Len(ltOut') : i \in 1..Len(ltOut) \/ (i \in (Len(ltOut) + 1)..Len(ltOut') /\ \A j \in 1..Len(ltOut) : j < i)
  <2> DEFINE m == Len(ltOut)
             n == Len(ltOut')
  <2> HIDE DEF m, n
  <2>1. m \in Nat /\ n \in Nat
    BY <1>1 DEF m, n
  <2>2. ASSUME NEW i \in 1..n, ~(i \in 1..m)
        PROVE  i \in (m + 1)..n /\ \A j \in 1..m : j < i
    BY <2>1, <2>2
  <2> QED
    BY <2>2 DEF m, n
<1>3. \A s \in LtSlotIds : ltRuns[s] \in LtCmds \union {"none"}
  BY DEF LtTyped
<1> QED
  BY <1>1, <1>2, <1>3 DEF Prints

\* The names that are no commands.
LEMMA NotCommands == "none" \notin LtCalls /\ "comm" \notin LtCmds /\ "stop" \notin LtCmds /\ LtCmds \subseteq LtCalls
                     /\ "comm" \in LtCalls /\ "stop" \in LtCalls
  BY LtxAssumption DEF LtCalls

\* A command that is gone stays gone, unless it is being written.
LEMMA PrintingGone ==
    ASSUME LtTyped, NEW c \in LtCalls, Prints(c), NEW d \in LtCalls, Gone(d),
           d # c \/ c = "stop" \/ ltCall[c].op # "EXEC" \/ ltCall[c].pc # "write"
    PROVE  Gone(d)'
<1>1. ASSUME NEW s \in LtSlotIds
      PROVE  ltRuns'[s] # d
  BY NotCommands DEF Prints, Gone
<1>2. ASSUME NEW i \in 1..Len(ltOut'), ltOut'[i].op \in Traces, ltOut'[i].who = d
      PROVE  FALSE
  <2>1. CASE i \in 1..Len(ltOut) /\ ltOut'[i] = ltOut[i]
    BY <1>2, <2>1 DEF Gone
  <2>2. CASE i \in (Len(ltOut) + 1)..Len(ltOut')
    <3>1. CASE ltOut'[i].op = "EXEC"
      BY <1>2, <2>2, <3>1, NotCommands DEF Prints
    <3>2. CASE ltOut'[i].op = "RESULT"
      BY <1>2, <2>2, <3>2 DEF Prints, Gone
    <3> QED
      BY <1>2, <3>1, <3>2 DEF Traces
  <2> QED
    BY <2>1, <2>2, PrintedFrames
<1> QED
  BY <1>1, <1>2 DEF Gone

\* The executor runs a command once.
LEMMA PrintingExecuted ==
    ASSUME LtBase, NEW c \in LtCalls, Printing(c)
    PROVE  LtExecuted'
<1>0. LtTyped /\ Prints(c)
  BY DEF LtBase, Printing
<1>1. \A d \in LtCalls :
        /\ ltCall'[d].op = ltCall[d].op
        /\ ltCall'[d].pc = ltCall[d].pc \/ (d = c /\ ltCall[d].pc = "write" /\ ltCall'[d].pc = "wait")
        /\ c # "stop" => ltCall[c].pc = "write" /\ ltCall'[c].pc = "wait"
  BY <1>0, PrintingCalls
<1>2. c # "stop" => Gone(c)
  BY <1>1 DEF LtBase, LtExecuted
<1>3. /\ \A i \in 1..Len(ltOut') :
                  \/ i \in 1..Len(ltOut) /\ ltOut'[i] = ltOut[i]
                  \/ i \in (Len(ltOut) + 1)..Len(ltOut') /\ \A j \in 1..Len(ltOut) : j < i
      /\ \A s \in LtSlotIds : ltRuns[s] \in LtCmds \union {"none"}
      /\ Len(ltOut) \in Nat /\ Len(ltOut') \in Nat
  BY <1>0, PrintedFrames
<1>4. ASSUME NEW d \in LtCalls, ltCall'[d].op # "EXEC" \/ ltCall'[d].pc \in {"new", "send", "write"}
      PROVE  Gone(d)'
  <2>1. ltCall[d].op # "EXEC" \/ ltCall[d].pc \in {"new", "send", "write"}
    BY <1>1, <1>4
  <2>2. Gone(d)
    BY <2>1 DEF LtBase, LtExecuted
  <2>3. d # c \/ c = "stop" \/ ltCall[c].op # "EXEC" \/ ltCall[c].pc # "write"
    BY <1>1, <1>4
  <2> QED
    BY <1>0, <2>2, <2>3, PrintingGone
<1>5. ASSUME NEW s \in LtSlotIds, NEW t \in LtSlotIds, ltRuns'[s] = ltRuns'[t], ltRuns'[s] # "none"
      PROVE  s = t
  <2>1. \A u \in {s, t} : \/ ltRuns'[u] = ltRuns[u]
                          \/ ltRuns'[u] = c /\ c \in LtCmds /\ u = ltCall[c].slot
    BY <1>0, <1>5 DEF Prints
  <2>2. c \in LtCmds => ltRuns[s] # c /\ ltRuns[t] # c
    BY <1>2, NotCommands DEF Gone
  <2>3. ltRuns[s] = ltRuns[t] /\ ltRuns[s] # "none" => s = t
    BY DEF LtBase, LtExecuted
  <2> QED
    BY <1>5, <2>1, <2>2, <2>3
<1>6. ASSUME NEW i \in 1..Len(ltOut'), ltOut'[i].op = "RESULT", NEW s \in LtSlotIds, ltRuns'[s] = ltOut'[i].who
      PROVE  FALSE
  <2>1. \/ ltRuns'[s] = ltRuns[s] \/ ltRuns'[s] = "none"
        \/ ltRuns'[s] = c /\ c \in LtCmds /\ s = ltCall[c].slot
    BY <1>0 DEF Prints
  <2>2. CASE i \in 1..Len(ltOut) /\ ltOut'[i] = ltOut[i]
    <3>1. ltRuns[s] # ltOut[i].who
      BY <1>6, <2>2 DEF LtBase, LtExecuted
    <3>2. c \in LtCmds => ltOut[i].who # c
      BY <1>2, <1>6, <2>2, NotCommands DEF Gone, Traces
    <3>3. ltOut[i].who # "none"
      <4>1. ltOut[i] \in LtFrames
        BY <1>0, <2>2 DEF LtTyped
      <4> QED
        BY <4>1, NotCommands DEF LtFrames
    <3> QED
      BY <1>6, <2>1, <2>2, <3>1, <3>2, <3>3
  <2>3. CASE i \in (Len(ltOut) + 1)..Len(ltOut')
    <3>1. /\ ltOut'[i].slot \in LtSlotIds /\ ltOut'[i].who = ltRuns[ltOut'[i].slot]
          /\ ltOut'[i].who # "none" /\ ltRuns'[ltOut'[i].slot] = "none" /\ c = "stop"
      BY <1>0, <1>6, <2>3 DEF Prints
    <3>2. ltRuns[s] = ltRuns[ltOut'[i].slot]
      BY <1>6, <2>1, <3>1, NotCommands
    <3>3. s = ltOut'[i].slot
      BY <3>1, <3>2 DEF LtBase, LtExecuted
    <3> QED
      BY <1>6, <3>1, <3>3
  <2> QED
    BY <1>3, <2>2, <2>3
<1>7. ASSUME NEW i \in 1..Len(ltOut'), NEW j \in 1..Len(ltOut'), ltOut'[i].op = "RESULT",
             ltOut'[j].op \in Traces, ltOut'[j].who = ltOut'[i].who
      PROVE  j <= i
  <2>1. CASE i \in 1..Len(ltOut) /\ ltOut'[i] = ltOut[i]
    <3>1. CASE j \in 1..Len(ltOut) /\ ltOut'[j] = ltOut[j]
      BY <1>7, <2>1, <3>1 DEF LtBase, LtExecuted
    <3>2. CASE j \in (Len(ltOut) + 1)..Len(ltOut')
      <4>1. CASE ltOut'[j].op = "EXEC"
        <5>1. c \in LtCmds /\ ltOut'[j].who = c
          BY <1>0, <3>2, <4>1 DEF Prints
        <5> QED
          BY <1>2, <1>7, <2>1, <5>1, NotCommands DEF Gone, Traces
      <4>2. CASE ltOut'[j].op = "RESULT"
        <5>1. ltOut'[j].slot \in LtSlotIds /\ ltOut'[j].who = ltRuns[ltOut'[j].slot]
          BY <1>0, <3>2, <4>2 DEF Prints
        <5>2. ltRuns[ltOut'[j].slot] # ltOut[i].who
          BY <1>7, <2>1, <5>1 DEF LtBase, LtExecuted
        <5> QED
          BY <1>7, <2>1, <5>1, <5>2
      <4> QED
        BY <1>7, <4>1, <4>2 DEF Traces
    <3> QED
      BY <1>3, <3>1, <3>2
  <2>2. CASE i \in (Len(ltOut) + 1)..Len(ltOut') /\ \A k \in 1..Len(ltOut) : k < i
    <3>1. CASE j \in 1..Len(ltOut)
      BY <1>3, <2>2, <3>1
    <3>2. CASE j \in (Len(ltOut) + 1)..Len(ltOut')
      <4>1. c = "stop"
        BY <1>0, <1>7, <2>2 DEF Prints
      <4>2. ltOut'[j].op # "EXEC"
        BY <1>0, <3>2, <4>1, NotCommands DEF Prints
      <4>3. i = j
        BY <1>0, <1>7, <2>2, <3>2, <4>2 DEF Prints, Traces
      <4> QED
        BY <1>3, <3>2, <4>3
    <3> QED
      BY <1>3, <3>1, <3>2
  <2> QED
    BY <1>3, <2>1, <2>2
<1> QED
  BY <1>4, <1>5, <1>6, <1>7 DEF LtExecuted

\* What does not depend on the FIFO.
LEMMA PrintingBase ==
    ASSUME LtBase, NEW c \in LtCalls, Printing(c)
    PROVE  LtBase'
<1>0. LtTyped /\ Prints(c) /\ UNCHANGED <<ltLtx, ltConn, ltSlots, ltDone>>
  BY DEF LtBase, Printing
<1>1. /\ ltCall' \in [LtCalls -> LtCallRecords]
      /\ \A d \in LtCalls :
           /\ ltCall'[d].op = ltCall[d].op /\ ltCall'[d].conn = ltCall[d].conn
           /\ ltCall'[d].slot = ltCall[d].slot /\ ltCall'[d].ids = ltCall[d].ids
           /\ ltCall'[d].reqs = ltCall[d].reqs
           /\ ltCall'[d].pc = ltCall[d].pc \/ (ltCall[d].pc = "write" /\ ltCall'[d].pc = "wait")
  BY <1>0, PrintingCalls
<1>2. \A d \in LtCalls : Sending(d)' => Sending(d)
  BY <1>1 DEF Sending
<1>3. \A d \in LtCalls : Registered(d)' => Registered(d)
  BY <1>0, <1>1 DEF Registered, Connected
<1>4. LtTyped'
  BY <1>0, <1>1 DEF LtTyped, Prints
<1>5. LtAsked'
  BY <1>0, <1>1, <1>2 DEF LtBase, LtAsked
<1>6. LtHeld'
  BY <1>0, <1>1 DEF LtBase, LtHeld
<1>7. LtOneConn'
  <2>1. (ltCall["comm"].pc # "new")' <=> ltCall["comm"].pc # "new"
    BY <1>1, NotCommands
  <2>2. (ltCall["comm"].pc # "dropped")' <=> ltCall["comm"].pc # "dropped"
    BY <1>1, NotCommands
  <2>3. ltCall'["comm"].conn = ltCall["comm"].conn
    BY <1>1, NotCommands
  <2>4. LtActive' <=> LtActive
    BY <1>0 DEF LtActive, Connected
  <2> QED
    BY <1>0, <1>1, <1>2, <2>1, <2>2, <2>3, <2>4 DEF LtBase, LtOneConn, Connected
<1>8. LtNumbered'
  BY <1>0, <1>1, <1>3 DEF LtBase, LtNumbered, Connected
<1>9. LtExecuted'
  BY PrintingExecuted
<1> QED
  BY <1>4, <1>5, <1>6, <1>7, <1>8, <1>9 DEF LtBase

\* Frames that are printed reach the commands they are of.
LEMMA PrintingOrder ==
    ASSUME LtBase, LtOrder, NEW c \in LtCalls, Printing(c), ltStray' = {}
    PROVE  LtOrder'
<1>0. LtTyped /\ Prints(c) /\ UNCHANGED <<ltLtx, ltConn, ltSlots, ltDone>>
  BY DEF LtBase, Printing
<1>1. \A d \in LtCalls :
           /\ ltCall'[d].op = ltCall[d].op /\ ltCall'[d].conn = ltCall[d].conn
           /\ ltCall'[d].slot = ltCall[d].slot /\ ltCall'[d].ids = ltCall[d].ids
           /\ ltCall'[d].got = ltCall[d].got
           /\ ltCall'[d].pc = ltCall[d].pc \/ (d = c /\ ltCall[d].pc = "write" /\ ltCall'[d].pc = "wait")
           /\ d = c /\ c # "stop" => ltCall'[d].pc = "wait"
  BY <1>0, PrintingCalls
<1>2. /\ \A i \in 1..Len(ltOut') :
                  \/ i \in 1..Len(ltOut) /\ ltOut'[i] = ltOut[i]
                  \/ i \in (Len(ltOut) + 1)..Len(ltOut') /\ \A j \in 1..Len(ltOut) : j < i
      /\ \A s \in LtSlotIds : ltRuns[s] \in LtCmds \union {"none"}
      /\ Len(ltOut) \in Nat /\ Len(ltOut') \in Nat
  BY <1>0, PrintedFrames
\* A new echo: its command is sent on the published connection.
<1>3. ASSUME NEW i \in (Len(ltOut) + 1)..Len(ltOut'), ltOut'[i].op = "EXEC"
      PROVE  /\ c \in LtCmds /\ ltOut'[i].who = c /\ ltOut'[i].slot = ltCall[c].slot
             /\ ltCall[c].op = "EXEC" /\ ltCall[c].pc = "write" /\ ltCall'[c].pc = "wait"
             /\ ltCall[c].conn = ltLtx /\ LtActive /\ ltCall[c].slot \in LtSlotIds
             /\ ltRuns'[ltCall[c].slot] = c
  <2>1. /\ c \in LtCmds /\ ltOut'[i].who = c /\ ltOut'[i].slot = ltCall[c].slot
        /\ ltCall[c].op = "EXEC" /\ ltCall[c].pc = "write" /\ ltRuns'[ltCall[c].slot] = c
    BY <1>0, <1>3 DEF Prints
  <2>2. Connected(ltCall[c].conn)
    BY <2>1 DEF Printing
  <2>3. Sending(c) /\ c # "comm" /\ c # "stop"
    BY <2>1, NotCommands DEF Sending
  <2>4. ltCall[c].conn = ltLtx
    BY <2>2, <2>3 DEF LtBase, LtOneConn
  <2>5. ltCall[c].conn \in 1..Len(ltConn) /\ ltCall[c].slot \in LtSlotIds
    BY <2>1, <2>3 DEF LtBase, LtAsked
  <2>6. LtActive
    BY <2>2, <2>4, <2>5 DEF LtActive
  <2> QED
    BY <1>1, <2>1, <2>3, <2>4, <2>5, <2>6
<1>4. ASSUME NEW i \in (Len(ltOut) + 1)..Len(ltOut'), ltOut'[i].op = "VERSION"
      PROVE  c = "comm" /\ ltCall["comm"].pc = "write" /\ ltCall'["comm"].pc = "wait"
             /\ \A j \in (Len(ltOut) + 1)..Len(ltOut') : ltOut'[j].op \in {"EXEC", "VERSION"} => i = j
  <2>1. c = "comm" /\ ltCall["comm"].pc = "write"
    BY <1>0, <1>4 DEF Prints
  <2>2. \A j \in (Len(ltOut) + 1)..Len(ltOut') : ltOut'[j].op = "VERSION" => i = j
    BY <1>0, <1>4 DEF Prints
  <2>3. \A j \in (Len(ltOut) + 1)..Len(ltOut') : ltOut'[j].op # "EXEC"
    BY <1>3, <2>1, NotCommands
  <2> QED
    BY <1>1, <2>1, <2>2, <2>3, NotCommands
<1>5. ltCall["comm"].pc # "new" => ~LtActive
  BY DEF LtBase, LtOneConn
<1>6. LtFenced'
  <2>1. LtActive' = LtActive /\ LtFailed(ltLtx)' = LtFailed(ltLtx)
    BY <1>0 DEF LtActive, LtFailed, Connected
  <2> SUFFICES ASSUME LtActive, ~LtFailed(ltLtx), NEW i \in 1..Len(ltOut'), ltOut'[i].op = "EXEC"
               PROVE  /\ ltCall'[ltOut'[i].who].pc \in {"wait", "dropped"}
                      /\ ltCall'[ltOut'[i].who].pc = "wait" => ltCall'[ltOut'[i].who].conn = ltLtx
                      /\ ltCall'[ltOut'[i].who].slot = ltOut'[i].slot
    BY <1>0, <2>1 DEF LtFenced
  <2>2. CASE i \in 1..Len(ltOut) /\ ltOut'[i] = ltOut[i]
    <3>1. ltOut[i].who \in LtCalls
      <4>1. ltOut[i] \in LtFrames
        BY <1>0, <2>2 DEF LtTyped
      <4> QED
        BY <4>1 DEF LtFrames
    <3>2. /\ ltCall[ltOut[i].who].pc \in {"wait", "dropped"}
          /\ ltCall[ltOut[i].who].pc = "wait" => ltCall[ltOut[i].who].conn = ltLtx
          /\ ltCall[ltOut[i].who].slot = ltOut[i].slot
      BY <2>2 DEF LtOrder, LtFenced
    <3> QED
      BY <1>1, <2>2, <3>1, <3>2
  <2>3. CASE i \in (Len(ltOut) + 1)..Len(ltOut')
    BY <1>1, <1>3, <2>3
  <2> QED
    BY <1>2, <2>2, <2>3
<1>7. LtShaken'
  <2>1. ASSUME NEW i \in 1..Len(ltOut'), ltOut'[i].op = "VERSION"
        PROVE  ltCall'["comm"].pc \in {"wait", "err"}
               /\ \A j \in 1..Len(ltOut') : ltOut'[j].op \in {"EXEC", "VERSION"} => j <= i
    <3>1. CASE i \in 1..Len(ltOut) /\ ltOut'[i] = ltOut[i]
      <4>1. /\ ltCall["comm"].pc \in {"wait", "err"}
            /\ \A j \in 1..Len(ltOut) : ltOut[j].op \in {"EXEC", "VERSION"} => j <= i
        BY <2>1, <3>1 DEF LtOrder, LtShaken
      <4>2. \A j \in (Len(ltOut) + 1)..Len(ltOut') : ltOut'[j].op \notin {"EXEC", "VERSION"}
        BY <1>3, <1>4, <1>5, <4>1
      <4>3. ltCall'["comm"].pc = ltCall["comm"].pc
        BY <1>1, <4>1, NotCommands
      <4> QED
        BY <1>2, <4>1, <4>2, <4>3
    <3>2. CASE i \in (Len(ltOut) + 1)..Len(ltOut') /\ \A j \in 1..Len(ltOut) : j < i
      <4>1. ltCall'["comm"].pc = "wait"
        BY <1>4, <2>1, <3>2
      <4>2. \A j \in (Len(ltOut) + 1)..Len(ltOut') : ltOut'[j].op \in {"EXEC", "VERSION"} => i = j
        BY <1>4, <2>1, <3>2
      <4>3. i \in Nat /\ \A j \in 1..Len(ltOut) : j <= i
        BY <1>2, <3>2
      <4> QED
        BY <1>2, <4>1, <4>2, <4>3
    <3> QED
      BY <1>2, <3>1, <3>2
  <2>2. ASSUME \/ ltCall'["comm"].pc = "ok"
               \/ Registered("comm")' /\ \E p \in ltConn'[ltCall'["comm"].conn].replies : p.id \in ltCall'["comm"].ids
        PROVE  ltCall'["comm"].pc # "write" /\ \A i \in 1..Len(ltOut') : ltOut'[i].op \notin {"EXEC", "VERSION"}
    <3>1. \/ ltCall["comm"].pc = "ok"
          \/ Registered("comm") /\ \E p \in ltConn[ltCall["comm"].conn].replies : p.id \in ltCall["comm"].ids
      BY <1>0, <1>1, <2>2, NotCommands DEF Registered, Connected
    <3>2. ltCall["comm"].pc # "write" /\ \A i \in 1..Len(ltOut) : ltOut[i].op \notin {"EXEC", "VERSION"}
      BY <3>1 DEF LtOrder, LtShaken
    <3>3. ltCall["comm"].pc # "new" /\ ltCall'["comm"].pc = ltCall["comm"].pc
      BY <1>1, <3>1, <3>2, NotCommands DEF Registered
    <3>4. \A j \in (Len(ltOut) + 1)..Len(ltOut') : ltOut'[j].op \notin {"EXEC", "VERSION"}
      BY <1>3, <1>4, <1>5, <3>2, <3>3
    <3> QED
      BY <1>2, <3>2, <3>3, <3>4
  <2> QED
    BY <2>1, <2>2 DEF LtShaken
\* A command that goes on without a foreign result meets none.
<1>8. ASSUME NEW d \in LtCmds, ltCall[d].slot \in LtSlotIds, ltRuns[ltCall[d].slot] \in {d, "none"}
      PROVE  /\ ltRuns'[ltCall[d].slot] \in {d, "none"}
             /\ \A j \in (Len(ltOut) + 1)..Len(ltOut') : ~(ltOut'[j].op = "RESULT" /\ ltOut'[j].slot = ltCall[d].slot /\ ltOut'[j].who # d)
  <2>1. ltRuns'[ltCall[d].slot] \in {d, "none"}
    <3>1. \/ ltRuns'[ltCall[d].slot] \in {ltRuns[ltCall[d].slot], "none"}
          \/ ltRuns'[ltCall[d].slot] = c /\ c \in LtCmds /\ ltCall[d].slot = ltCall[c].slot
      BY <1>0, <1>8 DEF Prints
    <3>2. ltCall[d].slot = ltCall[c].slot => c = d
      <4>1. ltCall[d].slot # LtNoSlot
        BY <1>8, LtxAssumption DEF LtNoSlot, LtSlotIds
      <4> QED
        BY <4>1, NotCommands DEF LtBase, LtHeld
    <3> QED
      BY <1>8, <3>1, <3>2
  <2> QED
    BY <1>0, <1>8, <2>1 DEF Prints
<1>9. LtOwned'
  <2> SUFFICES ASSUME NEW d \in LtCmds, ltCall'[d].op = "EXEC", Registered(d)'
               PROVE  LtOwn(d)'
    BY DEF LtOwned
  <2>1. d \in LtCalls /\ d # "stop" /\ d # "comm"
    BY NotCommands
  <2>2. ltCall[d].op = "EXEC" /\ Registered(d) /\ Sending(d)
    BY <1>0, <1>1, <2>1 DEF Registered, Connected, Sending
  <2>3. LtOwn(d)
    BY <2>2 DEF LtOrder, LtOwned
  <2>4. ltCall[d].slot \in LtSlotIds /\ ltCall[d].slot # LtNoSlot
    <3>1. ltCall[d].slot \in LtSlotIds
      BY <2>1, <2>2 DEF LtBase, LtAsked
    <3> QED
      BY <3>1, LtxAssumption DEF LtNoSlot, LtSlotIds
  <2>5. ltCall'[d].slot = ltCall[d].slot /\ ltCall'[d].conn = ltCall[d].conn /\ ltCall'[d].ids = ltCall[d].ids
        /\ (ltCall[d].pc = "wait" => ltCall'[d].pc = "wait")
    BY <1>1, <2>1
  <2>6. ASSUME NEW i \in 1..Len(ltOut'), ltOut'[i].op = "EXEC", ltOut'[i].slot = ltCall[d].slot
        PROVE  ltOut'[i].who = d
    <3>1. CASE i \in 1..Len(ltOut) /\ ltOut'[i] = ltOut[i]
      BY <2>3, <2>6, <3>1 DEF LtOwn
    <3>2. CASE i \in (Len(ltOut) + 1)..Len(ltOut')
      <4>1. c \in LtCmds /\ ltOut'[i].who = c /\ ltCall[c].slot = ltCall[d].slot
        BY <1>3, <2>6, <3>2
      <4> QED
        BY <2>1, <2>4, <4>1, NotCommands DEF LtBase, LtHeld
    <3> QED
      BY <1>2, <3>1, <3>2
  <2>7. ASSUME NEW i \in 1..Len(ltOut'), ltOut'[i].op = "EXEC", ltOut'[i].who = d
        PROVE  ltRuns'[ltCall[d].slot] \in {d, "none"} /\ \A j \in 1..Len(ltOut') : Foreign(d, j)' => j < i
    <3>1. CASE i \in 1..Len(ltOut) /\ ltOut'[i] = ltOut[i]
      <4>1. ltRuns[ltCall[d].slot] \in {d, "none"} /\ \A j \in 1..Len(ltOut) : Foreign(d, j) => j < i
        BY <2>3, <2>7, <3>1 DEF LtOwn
      <4>2. /\ ltRuns'[ltCall[d].slot] \in {d, "none"}
            /\ \A j \in (Len(ltOut) + 1)..Len(ltOut') : ~Foreign(d, j)'
        BY <1>8, <2>4, <2>5, <4>1 DEF Foreign
      <4> QED
        BY <1>2, <2>5, <4>1, <4>2 DEF Foreign
    <3>2. CASE i \in (Len(ltOut) + 1)..Len(ltOut') /\ \A j \in 1..Len(ltOut) : j < i
      <4>1. c \in LtCmds /\ c = d /\ ltRuns'[ltCall[c].slot] = c
        BY <1>3, <2>7, <3>2
      <4>2. \A j \in (Len(ltOut) + 1)..Len(ltOut') : ltOut'[j].op # "RESULT"
        BY <1>0, <4>1, NotCommands DEF Prints
      <4> QED
        BY <1>2, <3>2, <4>1, <4>2 DEF Foreign
    <3> QED
      BY <1>2, <3>1, <3>2
  <2>8. ASSUME NEW p \in ltConn[ltCall[d].conn].pending, p.id \in ltCall[d].ids
        PROVE  p.req.got = {} /\ (p.req.echoed => ltCall'[d].pc = "wait" /\ NoForeign(d)')
    <3>1. p.req.got = {} /\ (p.req.echoed => ltCall[d].pc = "wait" /\ NoForeign(d))
      BY <2>3, <2>8 DEF LtOwn
    <3>2. ASSUME NoForeign(d)
          PROVE  NoForeign(d)'
      <4>1. ltRuns[ltCall[d].slot] \in {d, "none"} /\ \A j \in 1..Len(ltOut) : ~Foreign(d, j)
        BY <3>2 DEF NoForeign
      <4>2. /\ ltRuns'[ltCall[d].slot] \in {d, "none"}
            /\ \A j \in (Len(ltOut) + 1)..Len(ltOut') : ~Foreign(d, j)'
        BY <1>8, <2>4, <2>5, <4>1 DEF Foreign
      <4>3. \A j \in 1..Len(ltOut') : ~Foreign(d, j)'
        BY <1>2, <2>5, <4>1, <4>2 DEF Foreign
      <4> QED
        BY <2>5, <4>2, <4>3 DEF NoForeign
    <3> QED
      BY <2>5, <3>1, <3>2
  <2>9. ASSUME NEW p \in ltConn[ltCall[d].conn].replies, p.id \in ltCall[d].ids
        PROVE  p.req.got = {d} /\ ltCall'[d].pc = "wait" /\ Gone(d)'
    <3>1. p.req.got = {d} /\ ltCall[d].pc = "wait" /\ Gone(d)
      BY <2>3, <2>9 DEF LtOwn
    <3>2. Gone(d)'
      BY <1>0, <2>1, <3>1, PrintingGone
    <3> QED
      BY <2>5, <3>1, <3>2
  <2> QED
    BY <1>0, <2>5, <2>6, <2>7, <2>8, <2>9 DEF LtOwn
<1>10. LtEnded'
  <2> SUFFICES ASSUME NEW d \in LtCmds, ltCall'[d].op = "EXEC", ltCall'[d].pc = "ok"
               PROVE  ltCall'[d].got = {d} /\ Gone(d)'
    BY DEF LtEnded
  <2>1. d \in LtCalls
    BY NotCommands
  <2>2. ltCall[d].op = "EXEC" /\ ltCall[d].pc = "ok" /\ ltCall'[d].got = ltCall[d].got
    BY <1>1, <2>1
  <2>3. ltCall[d].got = {d} /\ Gone(d)
    BY <2>2 DEF LtOrder, LtEnded
  <2>4. Gone(d)'
    BY <1>0, <2>1, <2>2, <2>3, PrintingGone
  <2> QED
    BY <2>2, <2>3, <2>4
<1> QED
  BY <1>6, <1>7, <1>9, <1>10 DEF LtOrder

\* Whatever is printed, the invariant holds.
LEMMA PrintingKeeps ==
    ASSUME LtInv, NEW c \in LtCalls, Printing(c)
    PROVE  LtInv'
  BY PrintingBase, PrintingOrder DEF LtInv, Printing

\* The executor ends a command, or fails.
LEMMA LtPeerFinishKeeps ==
    ASSUME LtInv, NEW s \in LtSlotIds, LtPeerFinish(s)
    PROVE  LtInv'
<1> DEFINE r == Frame("RESULT", s, ltRuns[s])
<1>1. /\ ltRuns[s] # "none" /\ ltOut' = ltOut \o <<r>>
      /\ ltRuns' = [ltRuns EXCEPT ![s] = "none"]
      /\ UNCHANGED <<ltLtx, ltConn, ltSlots, ltCall, ltDone, ltStray>>
  BY DEF LtPeerFinish, Result
<1>2. LtBase /\ ltOut \in Seq(LtFrames) /\ ltRuns \in [LtSlotIds -> LtCmds \union {"none"}]
  BY DEF LtInv, LtBase, LtTyped
<1>3. r \in LtFrames /\ r.op = "RESULT" /\ r.slot = s /\ r.who = ltRuns[s]
  <2>1. s \in 0..LtSlots /\ ltRuns[s] \in LtCalls
    BY <1>1, <1>2, NotCommands, LtxAssumption DEF LtSlotIds
  <2> QED
    BY <2>1 DEF Frame, LtFrames
<1> HIDE DEF r
<1>4. <<r>> \in Seq(LtFrames) /\ Len(<<r>>) = 1 /\ <<r>>[1] = r
  BY <1>3
<1>5. /\ ltOut' \in Seq(LtFrames) /\ Len(ltOut) \in Nat /\ Len(ltOut') = Len(ltOut) + 1
      /\ \A i \in 1..Len(ltOut) : ltOut'[i] = ltOut[i]
      /\ ltOut'[Len(ltOut) + 1] = r
  BY <1>1, <1>2, <1>4, ConcatProperties
<1>6. \A i \in (Len(ltOut) + 1)..Len(ltOut') : i = Len(ltOut) + 1
  BY <1>5
<1>7. /\ ltRuns' \in [LtSlotIds -> LtCmds \union {"none"}] /\ ltRuns'[s] = "none"
      /\ \A t \in LtSlotIds : ltRuns'[t] \in {ltRuns[t], "none"}
  BY <1>1, <1>2
<1>8. Prints("stop")
  BY <1>1, <1>3, <1>5, <1>6, <1>7 DEF Prints
<1>9. Printing("stop")
  BY <1>1, <1>8, NotCommands DEF Printing
<1> QED
  BY <1>9, PrintingKeeps, NotCommands

\* The executor stops answering, or ends.
LEMMA LtPeerFailsKeeps ==
    ASSUME LtInv, LtPeerFails
    PROVE  LtInv'
<1>1. /\ ltRuns' = [s \in DOMAIN ltRuns |-> "none"]
      /\ UNCHANGED <<ltLtx, ltConn, ltSlots, ltCall, ltDone, ltOut, ltStray>>
  BY DEF LtPeerFails
<1>2. LtBase /\ ltOut \in Seq(LtFrames) /\ Len(ltOut) \in Nat /\ ltRuns \in [LtSlotIds -> LtCmds \union {"none"}]
  BY DEF LtInv, LtBase, LtTyped
<1>3. ltRuns' \in [LtSlotIds -> LtCmds \union {"none"}] /\ \A t \in LtSlotIds : ltRuns'[t] \in {ltRuns[t], "none"}
  BY <1>1, <1>2
<1>4. Prints("stop")
  BY <1>1, <1>2, <1>3 DEF Prints
<1>5. Printing("stop")
  BY <1>1, <1>4, NotCommands DEF Printing
<1> QED
  BY <1>5, PrintingKeeps, NotCommands

\* The requests of a call are written.
LEMMA LtWrittenKeeps ==
    ASSUME LtInv, NEW c \in LtCalls, ltCall[c].pc = "write", ltCall' = [ltCall EXCEPT ![c].pc = "wait"],
           Serve(c) \/ UNCHANGED <<ltRuns, ltOut>>,
           ltStray' = IF ltCall[c].op = "EXEC" /\ ~Connected(ltCall[c].conn) THEN ltStray \union {c} ELSE ltStray,
           UNCHANGED <<ltLtx, ltConn, ltSlots, ltDone>>
    PROVE  LtInv'
<1>1. Prints(c)
  <2>1. LtBase
    BY DEF LtInv
  <2>2. CASE Serve(c)
    BY <2>1, <2>2, ServePrints
  <2>3. CASE UNCHANGED <<ltRuns, ltOut>>
    <3>1. ltOut \in Seq(LtFrames) /\ Len(ltOut) \in Nat /\ ltRuns \in [LtSlotIds -> LtCmds \union {"none"}]
      BY <2>1 DEF LtBase, LtTyped
    <3> QED
      BY <2>3, <3>1 DEF Prints
  <2> QED
    BY <2>2, <2>3
<1>2. ltStray' = {} => ltStray = {} /\ (c \in LtCmds /\ ltCall[c].op = "EXEC" => Connected(ltCall[c].conn))
  OBVIOUS
<1>3. Printing(c)
  BY <1>1, <1>2 DEF Printing
<1> QED
  BY <1>3, PrintingKeeps

\* What is left in the FIFO is the end of what was there.
Suffix(k) ==
    /\ k \in 0..Len(ltOut) /\ ltOut' \in Seq(LtFrames) /\ Len(ltOut') = Len(ltOut) - k
    /\ \A i \in 1..Len(ltOut') : i + k \in 1..Len(ltOut) /\ ltOut'[i] = ltOut[i + k]

\* What a step leaves of the FIFO: all, all but the first frame, or nothing.
LEMMA LtSuffixes ==
    ASSUME LtTyped
    PROVE  /\ ltOut' = ltOut => Suffix(0)
           /\ ltOut # <<>> /\ ltOut' = Tail(ltOut) => Suffix(1)
           /\ ltOut' = <<>> => Suffix(Len(ltOut))
           /\ Len(ltOut) \in Nat
<1>1. ltOut \in Seq(LtFrames) /\ Len(ltOut) \in Nat
  BY DEF LtTyped
<1>2. ltOut' = ltOut => Suffix(0)
  BY <1>1 DEF Suffix
<1>3. ltOut' = <<>> => Suffix(Len(ltOut))
  BY <1>1 DEF Suffix
<1>4. ASSUME ltOut # <<>>, ltOut' = Tail(ltOut)
      PROVE  Suffix(1)
  <2>1. /\ ltOut' \in Seq(LtFrames) /\ Len(ltOut') = Len(ltOut) - 1 /\ Len(ltOut) >= 1
        /\ \A i \in 1..Len(ltOut') : ltOut'[i] = ltOut[i + 1]
    BY <1>1, <1>4
  <2> QED
    BY <1>1, <2>1 DEF Suffix
<1> QED
  BY <1>1, <1>2, <1>3, <1>4

\* Connections close, break or lose replies.
ConnsSettle ==
    /\ ltConn' \in Seq(LtConns) /\ Len(ltConn') = Len(ltConn)
    /\ \A g \in 1..Len(ltConn) : Connected(g)' =>
          /\ Connected(g) /\ ltConn'[g].pending = ltConn[g].pending /\ ltConn'[g].replies \subseteq ltConn[g].replies
          /\ ltConn'[g].next_id = ltConn[g].next_id
          /\ LtFailed(g) => LtFailed(g)'

\* Calls end, connections close or break, frames are lost.
Settles ==
    /\ ltRuns' = ltRuns /\ ltDone' \in [probes : Nat, stops : Nat]
    /\ \E k \in 0..Len(ltOut) : Suffix(k)
    /\ ltStray' = {} => ltStray = {}
    /\ ConnsSettle
    /\ ltLtx' = ltLtx \/ (ltLtx' = 0 /\ (ltLtx # 0 => ~ltConn'[ltLtx].running))
    /\ ltSlots' \subseteq ltSlots
    /\ ltCall' \in [LtCalls -> LtCallRecords]

\* A call that ends.
Settled(d) ==
    /\ ltCall'[d].pc \in {"new", "ok", "err", "dropped"}
    /\ ltCall'[d].conn \in {0, ltCall[d].conn}
    /\ ltCall'[d].slot \in {ltCall[d].slot, LtNoSlot}
    /\ ltCall'[d].op = ltCall[d].op \/ (ltCall'[d].op # "EXEC" /\ d \notin LtCmds)
    /\ ltCall'[d].pc = "new" => ltCall[d].pc = "new" \/ d \notin LtCmds
    /\ \/ ltCall'[d].pc = "dropped" /\ ltCall'[d].slot = ltCall[d].slot
       \/ ltCall[d].pc \notin {"wait", "dropped"}
       \/ LtFailed(ltCall[d].conn) /\ ltCall[d].pc = "wait"
       \/ ltStray' = {} => Gone(d)
    /\ d \in LtCmds /\ ltCall[d].op = "EXEC" /\ ltCall'[d].pc = "ok" =>
          \/ ltCall[d].pc = "ok" /\ ltCall'[d].got = ltCall[d].got
          \/ ltStray' = {} => ltCall'[d].got = {d} /\ Gone(d)
    /\ d = "comm" =>
          \/ ltCall'[d].pc = "err" /\ ltCall[d].pc # "new" /\ ltCall'[d].conn = ltCall[d].conn
          \/ /\ ltCall'[d].pc = "ok" /\ ltCall'[d].conn = ltCall[d].conn /\ Registered(d)
             /\ \E p \in ltConn[ltCall[d].conn].replies : p.id \in ltCall[d].ids
          \/ /\ ltCall'[d].pc = "new" /\ ~ltConn'[ltCall[d].conn].running
             /\ ltStray' = {} => \A i \in 1..Len(ltOut') : ltOut'[i].op # "VERSION"

\* When calls end and connections close, types, slots, ids and the executor's commands
\* stay in order.
LEMMA SettlesBase ==
    ASSUME LtBase, Settles,
           \A d \in LtCalls : ltCall'[d] = ltCall[d] \/ Settled(d),
           \A d \in LtCalls : ltCall'[d].slot # LtNoSlot => ltCall'[d].slot \in ltSlots'
    PROVE  LtBase'
<1>0. LtTyped
  BY DEF LtBase
<1>1. PICK k \in 0..Len(ltOut) : Suffix(k)
  BY DEF Settles
<1>2. ltConn' \in Seq(LtConns) /\ Len(ltConn') = Len(ltConn) /\ Len(ltConn) \in Nat
  BY <1>0 DEF Settles, ConnsSettle, LtTyped
<1>3. \A g \in 1..Len(ltConn) : Connected(g)' =>
          /\ Connected(g) /\ ltConn'[g].pending = ltConn[g].pending /\ ltConn'[g].replies \subseteq ltConn[g].replies
          /\ ltConn'[g].next_id = ltConn[g].next_id
  BY DEF Settles, ConnsSettle
<1>4. ltLtx' = ltLtx \/ (ltLtx' = 0 /\ (ltLtx # 0 => ~ltConn'[ltLtx].running))
  BY DEF Settles
<1>5. ltLtx \in 0..Len(ltConn) /\ \A d \in LtCalls : ltCall[d].conn \in 0..Len(ltConn)
  BY <1>0 DEF LtTyped
<1>6. \A d \in LtCalls : Sending(d)' => ltCall'[d] = ltCall[d] /\ Sending(d)
  BY DEF Sending, Settled
<1>7. LtTyped'
  <2>1. ltLtx' \in 0..Len(ltConn') /\ \A d \in LtCalls : ltCall'[d].conn \in 0..Len(ltConn')
    BY <1>2, <1>4, <1>5 DEF Settled
  <2>2. ltOut' \in Seq(LtFrames)
    BY <1>1 DEF Suffix
  <2>3. ltSlots' \subseteq LtSlotIds /\ ltRuns' \in [LtSlotIds -> LtCmds \union {"none"}]
    BY <1>0 DEF LtTyped, Settles
  <2> QED
    BY <1>2, <2>1, <2>2, <2>3 DEF LtTyped, Settles
<1>8. LtAsked'
  <2>1. ASSUME NEW d \in LtCalls, Sending(d)'
        PROVE  ltCall'[d] = ltCall[d] /\ Sending(d)
    BY <1>6, <2>1
  <2>2. LtAsked
    BY DEF LtBase
  <2> QED
    BY <1>2, <2>1, <2>2 DEF LtAsked
<1>9. LtHeld'
  <2>1. \A d \in LtCalls : ltCall'[d].slot = ltCall[d].slot \/ ltCall'[d].slot = LtNoSlot
    BY DEF Settled
  <2>2. \A d \in LtCalls : ltCall'[d].op = "EXEC" => ltCall[d].op = "EXEC"
    BY DEF Settled
  <2> QED
    BY <2>1, <2>2 DEF LtBase, LtHeld
<1>10. LtActive' => LtActive
  BY <1>3, <1>4, <1>5 DEF LtActive, Connected
<1>11. LtOneConn'
  <2>1. ltCall'["comm"] = ltCall["comm"] \/ Settled("comm")
    BY NotCommands
  <2>2. ASSUME NEW g \in 1..Len(ltConn'), Connected(g)'
        PROVE  g = ltLtx' \/ (ltCall'["comm"].pc # "new" /\ g = ltCall'["comm"].conn)
    <3>1. g = ltLtx \/ (ltCall["comm"].pc # "new" /\ g = ltCall["comm"].conn)
      BY <1>2, <1>3, <2>2 DEF LtBase, LtOneConn
    <3>2. CASE g = ltLtx
      BY <1>2, <1>4, <2>2, <3>2 DEF Connected
    <3>3. CASE ltCall["comm"].pc # "new" /\ g = ltCall["comm"].conn
      BY <2>1, <2>2, <3>3 DEF Settled, Connected
    <3> QED
      BY <3>1, <3>2, <3>3
  <2>3. ASSUME ltCall'["comm"].pc # "new"
        PROVE  /\ ltCall'["comm"].pc # "dropped" /\ ltCall'["comm"].conn \in 1..Len(ltConn')
               /\ ~LtActive'
    <3>1. ltCall["comm"].pc # "new" /\ ltCall'["comm"].conn = ltCall["comm"].conn
      BY <2>1, <2>3 DEF Settled, Registered
    <3>2. ltCall["comm"].pc # "dropped" /\ ltCall["comm"].conn \in 1..Len(ltConn) /\ ~LtActive
      BY <3>1 DEF LtBase, LtOneConn
    <3> QED
      BY <1>2, <1>10, <2>1, <3>1, <3>2 DEF Settled
  <2>4. ASSUME NEW d \in LtCalls \ {"comm"}, Sending(d)', ltConn'[ltCall'[d].conn].running
        PROVE  ltCall'[d].conn = ltLtx'
    <3>1. ltCall'[d] = ltCall[d] /\ Sending(d)
      BY <1>6, <2>4
    <3>2. ltCall[d].conn \in 1..Len(ltConn)
      BY <3>1 DEF LtBase, LtAsked
    <3>3. Connected(ltCall[d].conn)
      BY <1>3, <2>4, <3>1, <3>2 DEF Connected
    <3>4. ltCall[d].conn = ltLtx
      BY <3>1, <3>3 DEF LtBase, LtOneConn
    <3> QED
      BY <1>4, <2>4, <3>1, <3>2, <3>4 DEF Connected
  <2> QED
    BY <2>2, <2>3, <2>4 DEF LtOneConn, Connected
<1>12. LtNumbered'
  <2>1. ASSUME NEW g \in 1..Len(ltConn'), Connected(g)'
        PROVE  \A p \in ltConn'[g].pending \union ltConn'[g].replies : p.id <= ltConn'[g].next_id
    BY <1>2, <1>3, <2>1 DEF LtBase, LtNumbered
  <2>2. ASSUME NEW d \in LtCalls, Registered(d)', d # "stop"
        PROVE  /\ \E n \in 1..ltConn'[ltCall'[d].conn].next_id : ltCall'[d].ids = {n}
               /\ \A p \in ltConn'[ltCall'[d].conn].pending \union ltConn'[ltCall'[d].conn].replies :
                     p.id \in ltCall'[d].ids => p.req.kind = ltCall'[d].op /\ p.req.slot = ltCall'[d].slot
    <3>1. ltCall'[d] = ltCall[d] /\ Sending(d)
      BY <1>6, <2>2 DEF Registered, Sending
    <3>2. ltCall[d].conn \in 1..Len(ltConn)
      BY <3>1 DEF LtBase, LtAsked
    <3>3. Registered(d)
      BY <1>3, <2>2, <3>1, <3>2 DEF Registered, Connected
    <3> DEFINE g == ltCall[d].conn
    <3>4. ltConn'[g].pending = ltConn[g].pending /\ ltConn'[g].replies \subseteq ltConn[g].replies
          /\ ltConn'[g].next_id = ltConn[g].next_id
      BY <1>3, <2>2, <3>1, <3>2 DEF Registered, Connected
    <3>5. /\ \E n \in 1..ltConn[g].next_id : ltCall[d].ids = {n}
          /\ \A p \in ltConn[g].pending \union ltConn[g].replies :
                     p.id \in ltCall[d].ids => p.req.kind = ltCall[d].op /\ p.req.slot = ltCall[d].slot
      BY <2>2, <3>3 DEF LtBase, LtNumbered
    <3> HIDE DEF g
    <3>6. ltCall'[d].conn = g
      BY <3>1 DEF g
    <3> QED
      BY <3>1, <3>4, <3>5, <3>6
  <2> QED
    BY <2>1, <2>2 DEF LtNumbered
<1>13. \A d : Gone(d) => Gone(d)'
  BY <1>1 DEF Gone, Suffix, Settles
<1>14. LtExecuted'
  <2>1. ASSUME NEW d \in LtCalls, ltCall'[d].op # "EXEC" \/ ltCall'[d].pc \in {"new", "send", "write"}
        PROVE  Gone(d)'
    <3>1. ltCall[d].op # "EXEC" \/ ltCall[d].pc \in {"new", "send", "write"}
      <4>1. CASE ltCall'[d] = ltCall[d]
        BY <2>1, <4>1
      <4>2. CASE Settled(d)
        <5>1. ltCall[d].op = "EXEC" => d \in LtCmds
          BY DEF LtBase, LtHeld
        <5> QED
          BY <2>1, <4>2, <5>1 DEF Settled
      <4> QED
        BY <4>1, <4>2
    <3>2. Gone(d)
      BY <3>1 DEF LtBase, LtExecuted
    <3> QED
      BY <1>13, <3>2
  <2>2. \A s, t \in LtSlotIds : ltRuns'[s] = ltRuns'[t] /\ ltRuns'[s] # "none" => s = t
    BY DEF LtBase, LtExecuted, Settles
  <2>3. ASSUME NEW i \in 1..Len(ltOut'), ltOut'[i].op = "RESULT"
        PROVE  \A s \in LtSlotIds : ltRuns'[s] # ltOut'[i].who
    <3>1. i + k \in 1..Len(ltOut) /\ ltOut'[i] = ltOut[i + k] /\ ltRuns' = ltRuns
      BY <1>1 DEF Suffix, Settles
    <3> QED
      BY <2>3, <3>1 DEF LtBase, LtExecuted
  <2>4. ASSUME NEW i \in 1..Len(ltOut'), NEW j \in 1..Len(ltOut'),
               ltOut'[i].op = "RESULT", ltOut'[j].op \in Traces, ltOut'[j].who = ltOut'[i].who
        PROVE  j <= i
    <3>1. /\ i + k \in 1..Len(ltOut) /\ ltOut'[i] = ltOut[i + k]
          /\ j + k \in 1..Len(ltOut) /\ ltOut'[j] = ltOut[j + k]
      BY <1>1 DEF Suffix
    <3>2. j + k <= i + k
      BY <2>4, <3>1 DEF LtBase, LtExecuted
    <3> QED
      BY <3>2
  <2> QED
    BY <2>1, <2>2, <2>3, <2>4 DEF LtExecuted
<1> QED
  BY <1>7, <1>8, <1>9, <1>11, <1>12, <1>14 DEF LtBase

\* What is left of the FIFO keeps its order.
LEMMA SettlesOrder ==
    ASSUME LtBase, LtOrder, Settles, ltStray' = {},
           \A d \in LtCalls : ltCall'[d] = ltCall[d] \/ Settled(d)
    PROVE  LtOrder'
<1>0. LtTyped
  BY DEF LtBase
<1>1. PICK k \in 0..Len(ltOut) : Suffix(k)
  BY DEF Settles
<1>2. /\ \A i \in 1..Len(ltOut') : i + k \in 1..Len(ltOut) /\ ltOut'[i] = ltOut[i + k]
      /\ k \in Nat /\ Len(ltOut') \in Nat /\ Len(ltOut) \in Nat
  BY <1>0, <1>1 DEF Suffix, LtTyped
<1>3. \A g \in 1..Len(ltConn) : ltConn'[g].running =>
          /\ ltConn[g].running /\ ltConn'[g].pending = ltConn[g].pending /\ ltConn'[g].replies \subseteq ltConn[g].replies
          /\ LtFailed(g) => LtFailed(g)'
  BY DEF Settles, ConnsSettle, Connected
<1>4. ltLtx' = ltLtx \/ (ltLtx' = 0 /\ (ltLtx # 0 => ~ltConn'[ltLtx].running))
  BY DEF Settles
<1>5. ltLtx \in 0..Len(ltConn) /\ \A d \in LtCalls : ltCall[d].conn \in 0..Len(ltConn)
  BY <1>0 DEF LtTyped
<1>6. \A d : Gone(d) => Gone(d)'
  BY <1>1 DEF Gone, Suffix, Settles
<1>7. \A d \in LtCalls : Registered(d)' => /\ ltCall'[d] = ltCall[d] /\ Registered(d) /\ ltCall[d].conn \in 1..Len(ltConn)
                                           /\ ltConn'[ltCall[d].conn].pending = ltConn[ltCall[d].conn].pending
                                           /\ ltConn'[ltCall[d].conn].replies \subseteq ltConn[ltCall[d].conn].replies
  <2> SUFFICES ASSUME NEW d \in LtCalls, Registered(d)'
               PROVE  /\ ltCall'[d] = ltCall[d] /\ Registered(d) /\ ltCall[d].conn \in 1..Len(ltConn)
                      /\ ltConn'[ltCall[d].conn].pending = ltConn[ltCall[d].conn].pending
                      /\ ltConn'[ltCall[d].conn].replies \subseteq ltConn[ltCall[d].conn].replies
    OBVIOUS
  <2>1. ltCall'[d] = ltCall[d] /\ Sending(d)
    BY DEF Registered, Settled, Sending
  <2>2. ltCall[d].conn \in 1..Len(ltConn)
    BY <2>1 DEF LtBase, LtAsked
  <2>3. ltConn'[ltCall[d].conn].running
    BY <2>1 DEF Registered, Connected
  <2> QED
    BY <1>3, <2>1, <2>2, <2>3 DEF Registered, Connected
<1>8. LtFenced'
  <2> SUFFICES ASSUME LtActive', ~LtFailed(ltLtx)', NEW i \in 1..Len(ltOut'), ltOut'[i].op = "EXEC"
               PROVE  /\ ltCall'[ltOut'[i].who].pc \in {"wait", "dropped"}
                      /\ ltCall'[ltOut'[i].who].pc = "wait" => ltCall'[ltOut'[i].who].conn = ltLtx'
                      /\ ltCall'[ltOut'[i].who].slot = ltOut'[i].slot
    BY DEF LtFenced
  <2>1. ltLtx' = ltLtx /\ ltLtx \in 1..Len(ltConn) /\ ltConn'[ltLtx].running
    BY <1>4, <1>5 DEF LtActive, Connected
  <2>2. LtActive /\ ~LtFailed(ltLtx)
    <3>1. ~LtFailed(ltLtx)
      <4>1. ltConn'[ltLtx].running /\ ~(ltConn'[ltLtx].fatal \/ ltConn'[ltLtx].desynced)
        BY <2>1 DEF LtFailed, Connected
      <4> QED
        BY <1>3, <2>1, <4>1 DEF LtFailed, Connected
    <3> QED
      BY <1>3, <2>1, <3>1 DEF LtActive, Connected
  <2> DEFINE d == ltOut[i + k].who
  <2>3. ltOut'[i] = ltOut[i + k] /\ i + k \in 1..Len(ltOut)
    BY <1>2
  <2>4. d \in LtCalls
    <3>1. ltOut[i + k] \in LtFrames
      BY <1>0, <2>3 DEF LtTyped
    <3> QED
      BY <3>1 DEF LtFrames
  <2>5. /\ ltCall[d].pc \in {"wait", "dropped"}
        /\ ltCall[d].pc = "wait" => ltCall[d].conn = ltLtx
        /\ ltCall[d].slot = ltOut[i + k].slot
    BY <2>2, <2>3 DEF LtOrder, LtFenced
  <2>6. ~Gone(d)
    BY <2>3 DEF Gone, Traces
  <2>7. ltOut'[i].who = d /\ ltOut'[i].slot = ltOut[i + k].slot
    BY <2>3
  <2> HIDE DEF d
  <2>8. CASE ltCall'[d] = ltCall[d]
    BY <2>1, <2>5, <2>7, <2>8
  <2>9. CASE Settled(d)
    <3>1. ltCall'[d].pc = "dropped" /\ ltCall'[d].slot = ltCall[d].slot
      BY <2>2, <2>5, <2>6, <2>9 DEF Settled
    <3> QED
      BY <2>5, <2>7, <3>1
  <2> QED
    BY <2>4, <2>8, <2>9
<1>9. LtShaken'
  <2>0. ltCall'["comm"] = ltCall["comm"] \/ Settled("comm")
    BY NotCommands
  <2>1. ASSUME NEW i \in 1..Len(ltOut'), ltOut'[i].op = "VERSION"
        PROVE  ltCall'["comm"].pc \in {"wait", "err"}
               /\ \A j \in 1..Len(ltOut') : ltOut'[j].op \in {"EXEC", "VERSION"} => j <= i
    <3>1. i + k \in 1..Len(ltOut) /\ ltOut[i + k].op = "VERSION"
      BY <1>2, <2>1
    <3>2. /\ ltCall["comm"].pc \in {"wait", "err"}
          /\ \A j \in 1..Len(ltOut) : ltOut[j].op \in {"EXEC", "VERSION"} => j <= i + k
      BY <3>1 DEF LtOrder, LtShaken
    <3>3. \A j \in 1..Len(ltOut') : ltOut'[j].op \in {"EXEC", "VERSION"} => j <= i
      <4> SUFFICES ASSUME NEW j \in 1..Len(ltOut'), ltOut'[j].op \in {"EXEC", "VERSION"}
                   PROVE  j <= i
        OBVIOUS
      <4>1. j + k <= i + k
        BY <1>2, <3>2
      <4> QED
        BY <1>2, <4>1
    <3>4. CASE ltCall'["comm"] = ltCall["comm"]
      BY <3>2, <3>3, <3>4
    <3>5. CASE Settled("comm")
      <4>1. ~(Registered("comm") /\ \E p \in ltConn[ltCall["comm"].conn].replies : p.id \in ltCall["comm"].ids)
        BY <3>1 DEF LtOrder, LtShaken
      <4>2. ltCall'["comm"].pc = "err"
        BY <2>1, <3>5, <4>1 DEF Settled
      <4> QED
        BY <3>3, <4>2
    <3> QED
      BY <2>0, <3>4, <3>5
  <2>2. ASSUME \/ ltCall'["comm"].pc = "ok"
               \/ Registered("comm")' /\ \E p \in ltConn'[ltCall'["comm"].conn].replies : p.id \in ltCall'["comm"].ids
        PROVE  ltCall'["comm"].pc # "write" /\ \A i \in 1..Len(ltOut') : ltOut'[i].op \notin {"EXEC", "VERSION"}
    <3>1. \/ ltCall["comm"].pc = "ok"
          \/ Registered("comm") /\ \E p \in ltConn[ltCall["comm"].conn].replies : p.id \in ltCall["comm"].ids
      <4>1. CASE Settled("comm")
        BY <2>2, <4>1 DEF Settled, Registered
      <4>2. CASE ltCall'["comm"] = ltCall["comm"]
        BY <1>7, <2>2, <4>2, NotCommands
      <4> QED
        BY <2>0, <4>1, <4>2
    <3>2. ltCall["comm"].pc # "write" /\ \A i \in 1..Len(ltOut) : ltOut[i].op \notin {"EXEC", "VERSION"}
      BY <3>1 DEF LtOrder, LtShaken
    <3>3. ltCall'["comm"].pc # "write"
      BY <2>0, <3>2 DEF Settled
    <3> QED
      BY <1>2, <3>2, <3>3
  <2> QED
    BY <2>1, <2>2 DEF LtShaken
<1>10. LtOwned'
  <2> SUFFICES ASSUME NEW d \in LtCmds, ltCall'[d].op = "EXEC", Registered(d)'
               PROVE  LtOwn(d)'
    BY DEF LtOwned
  <2> DEFINE g == ltCall[d].conn
  <2>1. /\ ltCall'[d] = ltCall[d] /\ Registered(d)
        /\ ltConn'[g].pending = ltConn[g].pending /\ ltConn'[g].replies \subseteq ltConn[g].replies
    BY <1>7, NotCommands
  <2>2. LtOwn(d)
    BY <2>1 DEF LtOrder, LtOwned
  <2>3. ltRuns' = ltRuns
    BY DEF Settles
  <2>4. \A i \in 1..Len(ltOut') : Foreign(d, i)' <=> Foreign(d, i + k)
    BY <1>2, <2>1 DEF Foreign
  <2>5. \A i \in 1..Len(ltOut') : ltOut'[i].op = "EXEC" /\ ltOut'[i].slot = ltCall[d].slot => ltOut'[i].who = d
    BY <1>2, <2>2 DEF LtOwn
  <2>6. ASSUME NEW i \in 1..Len(ltOut'), ltOut'[i].op = "EXEC", ltOut'[i].who = d
        PROVE  ltRuns'[ltCall[d].slot] \in {d, "none"} /\ \A j \in 1..Len(ltOut') : Foreign(d, j)' => j < i
    <3>1. ltRuns[ltCall[d].slot] \in {d, "none"} /\ \A j \in 1..Len(ltOut) : Foreign(d, j) => j < i + k
      BY <1>2, <2>2, <2>6 DEF LtOwn
    <3>2. \A j \in 1..Len(ltOut') : Foreign(d, j)' => j + k < i + k
      BY <1>2, <2>4, <3>1
    <3> QED
      BY <1>2, <2>3, <3>1, <3>2
  <2>7. NoForeign(d) => NoForeign(d)'
    BY <1>2, <2>1, <2>3, <2>4 DEF NoForeign
  <2> QED
    BY <1>6, <2>1, <2>2, <2>5, <2>6, <2>7 DEF LtOwn
<1>11. LtEnded'
  <2> SUFFICES ASSUME NEW d \in LtCmds, ltCall'[d].op = "EXEC", ltCall'[d].pc = "ok"
               PROVE  ltCall'[d].got = {d} /\ Gone(d)'
    BY DEF LtEnded
  <2>1. d \in LtCalls
    BY NotCommands
  <2>2. ltCall[d].op = "EXEC" /\ ltCall[d].pc = "ok" => ltCall[d].got = {d} /\ Gone(d)
    BY DEF LtOrder, LtEnded
  <2>3. CASE ltCall'[d] = ltCall[d]
    BY <1>6, <2>2, <2>3
  <2>4. CASE Settled(d)
    <3>1. ltCall[d].op = "EXEC"
      BY <2>4 DEF Settled
    <3>2. \/ ltCall[d].pc = "ok" /\ ltCall'[d].got = ltCall[d].got
          \/ ltCall'[d].got = {d} /\ Gone(d)
      BY <2>4 DEF Settled
    <3> QED
      BY <1>6, <2>2, <3>1, <3>2
  <2> QED
    BY <2>1, <2>3, <2>4
<1> QED
  BY <1>8, <1>9, <1>10, <1>11 DEF LtOrder

\* When calls end and connections close, the invariant holds.
LEMMA SettlesKeeps ==
    ASSUME LtInv, Settles,
           \A d \in LtCalls : ltCall'[d] = ltCall[d] \/ Settled(d),
           \A d \in LtCalls : ltCall'[d].slot # LtNoSlot => ltCall'[d].slot \in ltSlots'
    PROVE  LtInv'
  BY SettlesBase, SettlesOrder DEF LtInv, Settles

\* Only commands are executed.
LEMMA OnlyCommands ==
    ASSUME LtBase, NEW d \in LtCalls, d \notin LtCmds \/ ltCall[d].op # "EXEC"
    PROVE  Gone(d)
  BY DEF LtBase, LtHeld, LtExecuted

\* What may happen to a connection.
LEMMA ConnChanges ==
    ASSUME LtTyped, NEW g \in 1..Len(ltConn), NEW mine,
           \/ ltConn' = ltConn
           \/ ltConn' = [ltConn EXCEPT ![g].desynced = TRUE]
           \/ ltConn' = [ltConn EXCEPT ![g].fatal = TRUE]
           \/ ltConn' = [ltConn EXCEPT ![g].replies = @ \ mine]
           \/ ltConn' = [ltConn EXCEPT ![g] = LtClosed]
    PROVE  ConnsSettle
<1> DEFINE r == ltConn[g]
<1>1. ltConn \in Seq(LtConns) /\ r \in LtConns
  BY DEF LtTyped
<1>2. CASE ltConn' = ltConn
  BY <1>1, <1>2 DEF ConnsSettle, LtFailed, Connected
<1>3. ASSUME NEW q \in LtConns, ltConn' = [ltConn EXCEPT ![g] = q],
             q.running => /\ r.running /\ q.pending = r.pending /\ q.replies \subseteq r.replies /\ q.next_id = r.next_id
                          /\ (r.fatal \/ r.desynced => q.fatal \/ q.desynced)
      PROVE  ConnsSettle
  <2>1. ltConn' \in Seq(LtConns) /\ Len(ltConn') = Len(ltConn) /\ ltConn'[g] = q
        /\ \A h \in 1..Len(ltConn) : h # g => ltConn'[h] = ltConn[h]
    BY <1>1, <1>3
  <2> QED
    BY <1>3, <2>1 DEF ConnsSettle, LtFailed, Connected
<1> HIDE DEF r
<1>4. CASE ltConn' = [ltConn EXCEPT ![g].desynced = TRUE]
  <2> DEFINE q == [r EXCEPT !.desynced = TRUE]
  <2>1. q \in LtConns /\ q.running = r.running /\ q.pending = r.pending /\ q.replies = r.replies /\ q.next_id = r.next_id
        /\ q.desynced
    BY <1>1 DEF LtConns
  <2>2. ltConn' = [ltConn EXCEPT ![g] = q]
    BY <1>4 DEF r
  <2> HIDE DEF q
  <2> QED
    BY <1>3, <2>1, <2>2
<1>5. CASE ltConn' = [ltConn EXCEPT ![g].fatal = TRUE]
  <2> DEFINE q == [r EXCEPT !.fatal = TRUE]
  <2>1. q \in LtConns /\ q.running = r.running /\ q.pending = r.pending /\ q.replies = r.replies /\ q.next_id = r.next_id
        /\ q.fatal
    BY <1>1 DEF LtConns
  <2>2. ltConn' = [ltConn EXCEPT ![g] = q]
    BY <1>5 DEF r
  <2> HIDE DEF q
  <2> QED
    BY <1>3, <2>1, <2>2
<1>6. CASE ltConn' = [ltConn EXCEPT ![g].replies = @ \ mine]
  <2> DEFINE q == [r EXCEPT !.replies = @ \ mine]
  <2>1. q \in LtConns /\ q.running = r.running /\ q.pending = r.pending /\ q.replies \subseteq r.replies /\ q.next_id = r.next_id
        /\ q.fatal = r.fatal /\ q.desynced = r.desynced
    BY <1>1 DEF LtConns
  <2>2. ltConn' = [ltConn EXCEPT ![g] = q]
    BY <1>6 DEF r
  <2> HIDE DEF q
  <2> QED
    BY <1>3, <2>1, <2>2
<1>7. CASE ltConn' = [ltConn EXCEPT ![g] = LtClosed]
  <2>1. LtClosed \in LtConns /\ ~LtClosed.running
    BY DEF LtClosed, LtConns
  <2> QED
    BY <1>3, <1>7, <2>1
<1> QED
  BY <1>2, <1>4, <1>5, <1>6, <1>7

\* The record of a call that ended, and of none.
LEMMA EndRecords ==
    ASSUME LtTyped, NEW c \in LtCalls
    PROVE  /\ LtNew \in LtCallRecords
           /\ ltCall' = [ltCall EXCEPT ![c] = LtNew] =>
                /\ ltCall' \in [LtCalls -> LtCallRecords]
                /\ \A d \in LtCalls : d # c => ltCall'[d] = ltCall[d]
                /\ ltCall'[c].op = "none" /\ ltCall'[c].pc = "new" /\ ltCall'[c].conn = 0 /\ ltCall'[c].slot = LtNoSlot
           /\ \A res \in {"ok", "err", "dropped"}, got \in SUBSET LtCalls : LtEndWith(c, res, got) =>
                /\ ltCall' \in [LtCalls -> LtCallRecords]
                /\ \A d \in LtCalls : d # c => ltCall'[d] = ltCall[d]
                /\ ltCall'[c].op = ltCall[c].op /\ ltCall'[c].pc = res /\ ltCall'[c].slot = ltCall[c].slot
                /\ ltCall'[c].conn = (IF c = "comm" THEN ltCall[c].conn ELSE 0) /\ ltCall'[c].got = got
           /\ ltCall[c].got \in SUBSET LtCalls
<1>1. ltCall \in [LtCalls -> LtCallRecords]
  BY DEF LtTyped
<1>2. LtNew \in LtCallRecords /\ LtNew.op = "none" /\ LtNew.pc = "new" /\ LtNew.conn = 0 /\ LtNew.slot = LtNoSlot
  <2>1. LtSlots \in 0..LtSlots
    BY LtxAssumption
  <2> QED
    BY <2>1 DEF LtNew, LtCallRecords, LtPcs, LtNoSlot
<1>3. ASSUME ltCall' = [ltCall EXCEPT ![c] = LtNew]
      PROVE  /\ ltCall' \in [LtCalls -> LtCallRecords]
             /\ \A d \in LtCalls : d # c => ltCall'[d] = ltCall[d]
             /\ ltCall'[c].op = "none" /\ ltCall'[c].pc = "new" /\ ltCall'[c].conn = 0 /\ ltCall'[c].slot = LtNoSlot
  <2>1. ltCall'[c] = LtNew
    BY <1>1, <1>3
  <2> QED
    BY <1>1, <1>2, <1>3, <2>1
<1>4. ASSUME NEW res \in {"ok", "err", "dropped"}, NEW got \in SUBSET LtCalls, LtEndWith(c, res, got)
      PROVE  /\ ltCall' \in [LtCalls -> LtCallRecords]
             /\ \A d \in LtCalls : d # c => ltCall'[d] = ltCall[d]
             /\ ltCall'[c].op = ltCall[c].op /\ ltCall'[c].pc = res /\ ltCall'[c].slot = ltCall[c].slot
             /\ ltCall'[c].conn = (IF c = "comm" THEN ltCall[c].conn ELSE 0) /\ ltCall'[c].got = got
  <2> DEFINE r == ltCall[c]
             n == r.conn * (IF c = "comm" THEN 1 ELSE 0)
             q == [LtNew EXCEPT !.op = r.op, !.pc = res, !.conn = n, !.slot = r.slot, !.got = got]
  <2>1. ltCall' = [ltCall EXCEPT ![c] = q]
    BY <1>4 DEF LtEndWith
  <2>2. r \in LtCallRecords /\ r.op \in LtOps \union {"none"} /\ r.conn \in Nat /\ r.slot \in 0..LtSlots
    <3>1. r \in LtCallRecords
      BY <1>1
    <3> HIDE DEF r
    <3> QED
      BY <3>1 DEF LtCallRecords
  <2>3. n = IF c = "comm" THEN r.conn ELSE 0
    BY <2>2
  <2>4. n \in Nat
    BY <2>2, <2>3
  <2> HIDE DEF r, n
  <2>5. q \in LtCallRecords /\ q.op = r.op /\ q.pc = res /\ q.conn = n /\ q.slot = r.slot /\ q.got = got
    <3>1. res \in LtPcs
      BY DEF LtPcs
    <3> QED
      BY <1>2, <1>4, <2>2, <2>4, <3>1 DEF LtCallRecords, LtNew
  <2> HIDE DEF q
  <2>6. ltCall'[c] = q
    BY <1>1, <2>1
  <2> QED
    BY <1>1, <2>1, <2>3, <2>5, <2>6 DEF r
<1>5. ltCall[c].got \in SUBSET LtCalls
  BY <1>1 DEF LtCallRecords
<1> QED
  BY <1>2, <1>3, <1>4, <1>5

\* A command that has a slot holds it, and no other call has one.
LEMMA SlotsHeld ==
    ASSUME LtBase, NEW d \in LtCalls
    PROVE  /\ ltCall[d].slot # LtNoSlot => d \in LtCmds /\ ltCall[d].slot \in ltSlots
           /\ d \notin LtCmds => ltCall[d].slot = LtNoSlot
           /\ ltDone \in [probes : Nat, stops : Nat]
  BY DEF LtBase, LtHeld, LtTyped

\* A call ends without an answer.
LEMMA EndsKeep ==
    ASSUME LtInv, NEW c \in LtCalls, NEW res \in {"ok", "err", "dropped"}, LtEnd(c, res), ConnsSettle,
           UNCHANGED <<ltLtx, ltSlots, ltRuns, ltOut, ltStray>>, ltDone' \in [probes : Nat, stops : Nat],
           c = "comm" => res = "err" /\ ltCall[c].pc # "new",
           res = "ok" => c = "stop",
           res = "dropped" \/ ltCall[c].pc \notin {"wait", "dropped"} \/ (LtFailed(ltCall[c].conn) /\ ltCall[c].pc = "wait")
    PROVE  LtInv'
<1>1. LtBase /\ LtTyped
  BY DEF LtInv, LtBase
<1>2. /\ ltCall' \in [LtCalls -> LtCallRecords]
      /\ \A d \in LtCalls : d # c => ltCall'[d] = ltCall[d]
      /\ ltCall'[c].op = ltCall[c].op /\ ltCall'[c].pc = res /\ ltCall'[c].slot = ltCall[c].slot
      /\ ltCall'[c].conn = IF c = "comm" THEN ltCall[c].conn ELSE 0
  BY <1>1, EndRecords DEF LtEnd
<1>3. Settled(c)
  BY <1>2, NotCommands DEF Settled
<1>4. \A d \in LtCalls : ltCall'[d].slot = ltCall[d].slot
  BY <1>2
<1>5. \A d \in LtCalls : ltCall'[d].slot # LtNoSlot => ltCall'[d].slot \in ltSlots'
  BY <1>1, <1>4, SlotsHeld
<1>6. \E k \in 0..Len(ltOut) : Suffix(k)
  <2>1. Suffix(0) /\ 0 \in 0..Len(ltOut)
    BY <1>1, LtSuffixes
  <2> QED
    BY <2>1
<1>7. Settles
  BY <1>2, <1>6 DEF Settles
<1> QED
  BY <1>2, <1>3, <1>5, <1>7, SettlesKeeps

\* No call moves: a connection ends, or an error is read.
LEMMA ConnsKeep ==
    ASSUME LtInv, ConnsSettle, UNCHANGED <<ltLtx, ltSlots, ltCall, ltDone, ltRuns, ltStray>>,
           ltOut' = ltOut \/ (ltOut # <<>> /\ ltOut' = Tail(ltOut))
    PROVE  LtInv'
<1>1. LtBase /\ LtTyped
  BY DEF LtInv, LtBase
<1>2. \E k \in 0..Len(ltOut) : Suffix(k)
  <2>1. Suffix(0) \/ Suffix(1)
    BY <1>1, LtSuffixes
  <2> QED
    BY <2>1 DEF Suffix
<1>3. ltCall' \in [LtCalls -> LtCallRecords] /\ ltDone' \in [probes : Nat, stops : Nat]
  BY <1>1 DEF LtTyped
<1>4. Settles
  BY <1>2, <1>3 DEF Settles
<1>5. \A d \in LtCalls : ltCall'[d].slot # LtNoSlot => ltCall'[d].slot \in ltSlots'
  BY <1>1, SlotsHeld
<1> QED
  BY <1>4, <1>5, SettlesKeeps

\* poll_loop() ends: the connection closes.
LEMMA LtPollEndKeeps ==
    ASSUME LtInv, NEW g \in 1..Len(ltConn), LtPollEnd(g)
    PROVE  LtInv'
<1>1. LtTyped
  BY DEF LtInv, LtBase
<1>2. ConnsSettle
  BY <1>1, ConnChanges DEF LtPollEnd
<1> QED
  BY <1>2, ConnsKeep DEF LtPollEnd

\* poll_loop() reads an ERROR frame.
LEMMA LtErrorReadKeeps ==
    ASSUME LtInv, NEW g \in 1..Len(ltConn), LtPoll(g), Head(ltOut).op = "ERROR"
    PROVE  LtInv'
<1>1. LtTyped
  BY DEF LtInv, LtBase
<1>2. ConnsSettle
  BY <1>1, ConnChanges DEF LtPoll, record_fatal
<1> QED
  BY <1>2, ConnsKeep DEF LtPoll

\* send() finds the connection in error.
LEMMA LtRefusedKeeps ==
    ASSUME LtInv, NEW c \in LtCalls, ltCall[c].pc = "send", LtFailed(ltCall[c].conn), LtEnd(c, "err"),
           UNCHANGED <<ltLtx, ltConn, ltSlots, ltDone, ltRuns, ltOut, ltStray>>
    PROVE  LtInv'
<1>1. LtTyped /\ ltDone \in [probes : Nat, stops : Nat]
  BY DEF LtInv, LtBase, LtTyped
<1>2. ltCall[c].conn \in 1..Len(ltConn)
  BY DEF LtInv, LtBase, LtAsked, Sending
<1>3. ConnsSettle
  BY <1>1, <1>2, ConnChanges
<1> QED
  BY <1>1, <1>3, EndsKeep

\* write_infile() fails, and SendGuard gives the stream up.
LEMMA LtUnwrittenKeeps ==
    ASSUME LtInv, NEW c \in LtCalls, ltCall[c].pc = "write", LtEnd(c, "err"),
           ltConn' = [ltConn EXCEPT ![ltCall[c].conn].desynced = TRUE],
           UNCHANGED <<ltLtx, ltSlots, ltDone, ltRuns, ltOut, ltStray>>
    PROVE  LtInv'
<1>1. LtTyped /\ ltDone \in [probes : Nat, stops : Nat]
  BY DEF LtInv, LtBase, LtTyped
<1>2. ltCall[c].conn \in 1..Len(ltConn)
  BY DEF LtInv, LtBase, LtAsked, Sending
<1>3. ConnsSettle
  BY <1>1, <1>2, ConnChanges
<1> QED
  BY <1>1, <1>3, EndsKeep

\* gather() finds the connection in error.
LEMMA LtUnansweredKeeps ==
    ASSUME LtInv, NEW c \in LtCalls, ltCall[c].pc = "wait", LtFailed(ltCall[c].conn), LtEnd(c, "err"),
           UNCHANGED <<ltLtx, ltConn, ltSlots, ltDone, ltRuns, ltOut, ltStray>>
    PROVE  LtInv'
<1>1. LtTyped /\ ltDone \in [probes : Nat, stops : Nat]
  BY DEF LtInv, LtBase, LtTyped
<1>2. ltCall[c].conn \in 1..Len(ltConn)
  BY DEF LtInv, LtBase, LtAsked, Sending
<1>3. ConnsSettle
  BY <1>1, <1>2, ConnChanges
<1> QED
  BY <1>1, <1>3, EndsKeep

\* stop() and communicate() start anew.
LEMMA LtAnewKeeps ==
    ASSUME LtInv, NEW c \in {"comm", "stop"}, ltCall' = [ltCall EXCEPT ![c] = LtNew], ConnsSettle,
           ltLtx' = ltLtx \/ (ltLtx' = 0 /\ (ltLtx # 0 => ~ltConn'[ltLtx].running)),
           ltOut' \in {ltOut, <<>>}, UNCHANGED <<ltSlots, ltDone, ltRuns>>,
           ltStray' = {} => ltStray = {},
           c = "comm" => /\ ~ltConn'[ltCall[c].conn].running
                         /\ ltStray' = {} => \A i \in 1..Len(ltOut') : ltOut'[i].op # "VERSION"
    PROVE  LtInv'
<1>1. LtBase /\ LtTyped
  BY DEF LtInv, LtBase
<1>2. c \in LtCalls /\ c \notin LtCmds
  BY NotCommands
<1>3. /\ ltCall' \in [LtCalls -> LtCallRecords]
      /\ \A d \in LtCalls : d # c => ltCall'[d] = ltCall[d]
      /\ ltCall'[c].op = "none" /\ ltCall'[c].pc = "new" /\ ltCall'[c].conn = 0 /\ ltCall'[c].slot = LtNoSlot
  BY <1>1, <1>2, EndRecords
<1>4. Gone(c) /\ ltCall[c].slot = LtNoSlot
  BY <1>1, <1>2, OnlyCommands, SlotsHeld
<1>5. Settled(c)
  BY <1>2, <1>3, <1>4 DEF Settled
<1>6. \A d \in LtCalls : ltCall'[d].slot # LtNoSlot => ltCall'[d].slot \in ltSlots'
  BY <1>1, <1>3, SlotsHeld
<1>7. \E k \in 0..Len(ltOut) : Suffix(k)
  <2>1. Suffix(0) \/ Suffix(Len(ltOut))
    BY <1>1, LtSuffixes
  <2> QED
    BY <2>1 DEF Suffix
<1>8. ltDone' \in [probes : Nat, stops : Nat]
  BY <1>1 DEF LtTyped
<1>9. Settles
  BY <1>3, <1>7, <1>8 DEF Settles
<1> QED
  BY <1>3, <1>5, <1>6, <1>9, SettlesKeeps

\* A call is dropped at an await.
LEMMA LtDropKeeps ==
    ASSUME LtInv, NEW c \in LtCalls, LtDrop(c)
    PROVE  LtInv'
<1>1. LtTyped /\ ltDone \in [probes : Nat, stops : Nat]
  BY DEF LtInv, LtBase, LtTyped
<1>2. ltCall[c].conn \in 1..Len(ltConn)
  BY DEF LtDrop, LtInv, LtBase, LtAsked, Sending
<1>3. ConnsSettle
  BY <1>1, <1>2, ConnChanges DEF LtDrop
<1>4. UNCHANGED <<ltLtx, ltSlots, ltDone, ltRuns, ltOut, ltStray>> /\ c # "comm"
  BY DEF LtDrop
<1>5. CASE c = "stop"
  BY <1>3, <1>4, <1>5, LtAnewKeeps DEF LtDrop
<1>6. CASE c # "stop"
  BY <1>1, <1>3, <1>4, <1>6, EndsKeep DEF LtDrop
<1> QED
  BY <1>5, <1>6

\* stop() disconnects, or gives up.
LEMMA LtStopEndKeeps ==
    ASSUME LtInv, LtStopEnd
    PROVE  LtInv'
<1>1. LtTyped /\ ltLtx \in 0..Len(ltConn) /\ ltConn \in Seq(LtConns)
  BY DEF LtInv, LtBase, LtTyped
<1>2. ltCall' = [ltCall EXCEPT !["stop"] = LtNew] /\ UNCHANGED <<ltSlots, ltDone, ltRuns, ltStray>>
  BY DEF LtStopEnd
<1>3. CASE UNCHANGED <<ltConn, ltOut>> /\ ltLtx' \in {ltLtx, 0} /\ (ltLtx' = ltLtx \/ ltLtx = 0)
  <2>1. ConnsSettle
    BY <1>1, <1>3 DEF ConnsSettle, LtFailed, Connected
  <2> QED
    BY <1>2, <1>3, <2>1, LtAnewKeeps
<1>4. CASE ltLtx # 0 /\ ltLtx' = 0 /\ LtDisconnect(ltLtx)
  <2>1. ltConn' = [ltConn EXCEPT ![ltLtx] = LtClosed] /\ ltLtx \in 1..Len(ltConn) /\ ltOut' \in {ltOut, <<>>}
    BY <1>1, <1>4 DEF LtDisconnect
  <2>2. ConnsSettle
    BY <1>1, <2>1, ConnChanges
  <2>3. ~ltConn'[ltLtx].running
    BY <1>1, <2>1 DEF LtClosed
  <2> QED
    BY <1>2, <1>4, <2>1, <2>2, <2>3, LtAnewKeeps
<1> QED
  BY <1>3, <1>4 DEF LtStopEnd

\* communicate() gives the handshake up: an answer that stays in the FIFO is stray.
LEMMA LtHandshakeFailsKeeps ==
    ASSUME LtInv, LtHandshake, ltCall["comm"].pc # "ok"
    PROVE  LtInv'
<1> DEFINE g == ltCall["comm"].conn
<1>1. LtTyped /\ ltConn \in Seq(LtConns) /\ ltOut \in Seq(LtFrames)
  BY DEF LtInv, LtBase, LtTyped
<1>2. /\ ltCall["comm"].pc \in {"err", "send", "write", "wait"}
      /\ LtDisconnect(g) /\ UNCHANGED ltLtx
      /\ ltStray' = IF \E k \in DOMAIN ltOut' : ltOut'[k].op = "VERSION" THEN ltStray \union {"comm"} ELSE ltStray
      /\ ltCall' = [ltCall EXCEPT !["comm"] = LtNew]
      /\ UNCHANGED <<ltSlots, ltDone, ltRuns>>
  BY DEF LtHandshake
<1>3. g \in 1..Len(ltConn)
  BY <1>2 DEF LtInv, LtBase, LtOneConn
<1>4. ltConn' = [ltConn EXCEPT ![g] = LtClosed] /\ ltOut' \in {ltOut, <<>>}
  BY <1>2 DEF LtDisconnect
<1> HIDE DEF g
<1>5. ConnsSettle
  BY <1>1, <1>3, <1>4, ConnChanges
<1>6. ~ltConn'[g].running
  BY <1>1, <1>3, <1>4 DEF LtClosed
<1>7. ltStray' = {} => ltStray = {} /\ \A i \in 1..Len(ltOut') : ltOut'[i].op # "VERSION"
  <2>1. DOMAIN ltOut' = 1..Len(ltOut')
    BY <1>1, <1>4
  <2> QED
    BY <1>2, <2>1
<1> QED
  BY <1>2, <1>4, <1>5, <1>6, <1>7, LtAnewKeeps DEF g

\* release_slot() after the outcome is known.
LEMMA ReleaseKeeps ==
    ASSUME LtInv, NEW c \in LtCmds, release_slot(c)
    PROVE  LtInv'
<1>1. LtBase /\ LtTyped /\ c \in LtCalls
  BY NotCommands DEF LtInv, LtBase
<1>2. /\ ltCall[c].pc \in {"ok", "err"} /\ ltCall[c].slot # LtNoSlot /\ ltSlots' = ltSlots \ {ltCall[c].slot}
      /\ ltCall' = [ltCall EXCEPT ![c].slot = LtNoSlot]
      /\ UNCHANGED <<ltLtx, ltConn, ltDone, ltRuns, ltOut, ltStray>>
  BY DEF release_slot
<1>3. ltCall \in [LtCalls -> LtCallRecords] /\ ltConn \in Seq(LtConns) /\ ltDone \in [probes : Nat, stops : Nat]
  BY <1>1 DEF LtTyped
<1> DEFINE r == ltCall[c]
           q == [r EXCEPT !.slot = LtNoSlot]
<1>4. r \in LtCallRecords /\ ltCall' = [ltCall EXCEPT ![c] = q]
  BY <1>1, <1>2, <1>3
<1> HIDE DEF r
<1>5. /\ q \in LtCallRecords /\ q.op = r.op /\ q.pc = r.pc /\ q.conn = r.conn /\ q.slot = LtNoSlot /\ q.got = r.got
  BY <1>4, LtxAssumption DEF LtCallRecords, LtNoSlot
<1> HIDE DEF q
<1>6. ltCall' \in [LtCalls -> LtCallRecords] /\ ltCall'[c] = q /\ \A d \in LtCalls : d # c => ltCall'[d] = ltCall[d]
  BY <1>1, <1>3, <1>4, <1>5
<1>7. Settled(c)
  BY <1>2, <1>5, <1>6, NotCommands DEF Settled, r
<1>8. ASSUME NEW d \in LtCalls, ltCall'[d].slot # LtNoSlot
      PROVE  ltCall'[d].slot \in ltSlots'
  <2>1. d # c /\ ltCall'[d] = ltCall[d]
    BY <1>5, <1>6, <1>8
  <2>2. ltCall[d].slot \in ltSlots /\ ltCall[d].slot # ltCall[c].slot
    BY <1>1, <1>8, <2>1 DEF LtBase, LtHeld
  <2> QED
    BY <1>2, <2>1, <2>2
<1>9. \E k \in 0..Len(ltOut) : Suffix(k)
  <2>1. Suffix(0) /\ 0 \in 0..Len(ltOut)
    BY <1>1, <1>2, LtSuffixes
  <2> QED
    BY <2>1
<1>10. ConnsSettle
  BY <1>2, <1>3 DEF ConnsSettle, LtFailed, Connected
<1>11. Settles
  BY <1>2, <1>3, <1>6, <1>9, <1>10 DEF Settles
<1> QED
  BY <1>6, <1>7, <1>8, <1>11, SettlesKeeps

\* gather() finds all the replies: those of a command are its own.
LEMMA LtAnsweredKeeps ==
    ASSUME LtInv, NEW c \in LtCalls, ltCall[c].pc = "wait", ~LtFailed(ltCall[c].conn),
           NEW mine, mine = {r \in ltConn[ltCall[c].conn].replies : r.id \in ltCall[c].ids},
           Cardinality(mine) = Cardinality(ltCall[c].ids),
           ltConn' = [ltConn EXCEPT ![ltCall[c].conn].replies = @ \ mine],
           LtEndWith(c, "ok", IF c = "stop" THEN ltCall[c].got ELSE UNION {r.req.got : r \in mine}),
           UNCHANGED <<ltLtx, ltSlots, ltDone, ltRuns, ltOut, ltStray>>
    PROVE  LtInv'
<1> DEFINE g == ltCall[c].conn
           got == IF c = "stop" THEN ltCall[c].got ELSE UNION {r.req.got : r \in mine}
<1>1. LtBase /\ LtTyped
  BY DEF LtInv, LtBase
<1>2. g \in 1..Len(ltConn) /\ Registered(c) /\ Connected(g)
  BY <1>1 DEF LtBase, LtAsked, Sending, Registered, LtFailed
<1>3. ltConn \in Seq(LtConns) /\ ltConn[g] \in LtConns /\ ltDone \in [probes : Nat, stops : Nat]
  BY <1>1, <1>2 DEF LtTyped
<1>4. got \in SUBSET LtCalls
  <2>1. \A r \in mine : r \in LtEntries
    BY <1>3 DEF LtConns
  <2>2. \A r \in mine : r.req.got \in SUBSET LtCalls
    BY <2>1 DEF LtEntries, LtRequests
  <2>3. ltCall[c].got \in SUBSET LtCalls
    BY <1>1, EndRecords
  <2> QED
    BY <2>2, <2>3
<1>5. /\ ltCall' \in [LtCalls -> LtCallRecords]
      /\ \A d \in LtCalls : d # c => ltCall'[d] = ltCall[d]
      /\ ltCall'[c].op = ltCall[c].op /\ ltCall'[c].pc = "ok" /\ ltCall'[c].slot = ltCall[c].slot
      /\ ltCall'[c].conn = (IF c = "comm" THEN ltCall[c].conn ELSE 0) /\ ltCall'[c].got = got
  <2>1. LtEndWith(c, "ok", got)
    OBVIOUS
  <2> HIDE DEF got
  <2> QED
    BY <1>1, <1>4, <2>1, EndRecords
<1>6. c # "stop" => mine # {}
  <2> SUFFICES ASSUME c # "stop", mine = {} PROVE FALSE
    OBVIOUS
  <2>1. PICK n \in 1..ltConn[g].next_id : ltCall[c].ids = {n}
    BY <1>1, <1>2 DEF LtBase, LtNumbered
  <2>2. Cardinality({n}) = 1 /\ Cardinality({}) = 0
    BY FS_Singleton, FS_EmptySet
  <2>3. Cardinality(ltCall[c].ids) = 1 /\ Cardinality(mine) = 0
    BY <2>1, <2>2
  <2> QED
    BY <2>3
<1>7. ASSUME ltStray = {}, c \in LtCmds, ltCall[c].op = "EXEC"
      PROVE  got = {c} /\ Gone(c)
  <2>1. LtOwn(c)
    BY <1>2, <1>7 DEF LtInv, LtOrder, LtOwned
  <2>2. \A r \in mine : r.req.got = {c} /\ Gone(c)
    BY <2>1 DEF LtOwn
  <2>3. c # "stop" /\ mine # {}
    BY <1>6, <1>7, NotCommands
  <2> QED
    BY <2>2, <2>3
<1>8. c = "comm" => \E p \in ltConn[g].replies : p.id \in ltCall[c].ids
  BY <1>6
<1>9. Settled(c)
  <2>1. ltStray' = {} => Gone(c)
    BY <1>1, <1>7, OnlyCommands
  <2>2. c \in LtCmds /\ ltCall[c].op = "EXEC" => (ltStray' = {} => got = {c} /\ Gone(c))
    BY <1>7
  <2> HIDE DEF got
  <2> QED
    BY <1>2, <1>5, <1>8, <2>1, <2>2, NotCommands DEF Settled
<1> HIDE DEF got, g
<1>10. \A d \in LtCalls : ltCall'[d].slot # LtNoSlot => ltCall'[d].slot \in ltSlots'
  BY <1>1, <1>5, SlotsHeld
<1>11. \E k \in 0..Len(ltOut) : Suffix(k)
  <2>1. Suffix(0) /\ 0 \in 0..Len(ltOut)
    BY <1>1, LtSuffixes
  <2> QED
    BY <2>1
<1>12. ConnsSettle
  BY <1>1, <1>2, ConnChanges DEF g
<1>13. Settles
  BY <1>3, <1>5, <1>11, <1>12 DEF Settles
<1> QED
  BY <1>5, <1>9, <1>10, <1>13, SettlesKeeps

\* A call starts on the published connection.
LEMMA StartsKeep ==
    ASSUME LtInv, NEW c \in LtCalls, c # "comm", ltCall[c].pc = "new", LtActive,
           NEW slot \in 0..LtSlots, NEW reqs \in Seq(LtRequests), NEW got \in SUBSET LtCalls,
           reqs # <<>>, LtSend(c, ltLtx, slot, reqs, got),
           UNCHANGED <<ltLtx, ltConn, ltRuns, ltOut, ltStray>>, ltDone' \in [probes : Nat, stops : Nat],
           c # "stop" => /\ reqs = <<LtRequest(reqs[1].kind, slot)>>
                         /\ IF reqs[1].kind = "EXEC" THEN c \in LtCmds /\ slot \in LtSlotIds
                            ELSE reqs[1].kind \in {"PING", "GET_FILE"} /\ slot = LtNoSlot,
           c = "stop" => /\ \A k \in 1..Len(reqs) : \E s \in LtSlotIds : reqs[k] = LtRequest("KILL", s)
                         /\ \A j, k \in 1..Len(reqs) : reqs[j].slot = reqs[k].slot => j = k,
           \/ slot = LtNoSlot /\ ltSlots' = ltSlots
           \/ slot \in LtSlotIds \ ltSlots /\ ltSlots' = ltSlots \union {slot} /\ c \in LtCmds
    PROVE  LtInv'
<1>1. LtBase /\ LtTyped
  BY DEF LtInv, LtBase
<1>2. ltCall \in [LtCalls -> LtCallRecords] /\ ltLtx \in 1..Len(ltConn) /\ ltConn \in Seq(LtConns) /\ Len(ltConn) \in Nat
  BY <1>1 DEF LtTyped, LtActive
<1> DEFINE q == [op |-> reqs[1].kind, pc |-> "send", conn |-> ltLtx, slot |-> slot, ids |-> {}, reqs |-> reqs, got |-> got]
<1>3. reqs[1].kind \in LtOps
  <2>1. reqs[1] \in LtRequests
    OBVIOUS
  <2> QED
    BY <2>1 DEF LtRequests
<1>4. /\ q \in LtCallRecords /\ q.op = reqs[1].kind /\ q.pc = "send" /\ q.conn = ltLtx /\ q.slot = slot /\ q.reqs = reqs
  BY <1>2, <1>3 DEF LtCallRecords, LtPcs
<1>5. ltCall' = [ltCall EXCEPT ![c] = q]
  BY DEF LtSend
<1> HIDE DEF q
<1>6. ltCall' \in [LtCalls -> LtCallRecords] /\ ltCall'[c] = q /\ \A d \in LtCalls : d # c => ltCall'[d] = ltCall[d]
  BY <1>2, <1>4, <1>5
<1>7. ltCall'["comm"] = ltCall["comm"]
  BY <1>6, NotCommands
<1>8. LtTyped'
  <2>1. \A d \in LtCalls : ltCall'[d].conn \in 0..Len(ltConn)
    BY <1>1, <1>2, <1>4, <1>6 DEF LtTyped
  <2>2. ltSlots' \subseteq LtSlotIds
    BY <1>1 DEF LtTyped
  <2> QED
    BY <1>1, <1>6, <2>1, <2>2 DEF LtTyped
<1>9. LtAsked'
  <2> SUFFICES ASSUME NEW d \in LtCalls, Sending(d)'
               PROVE  /\ ltCall'[d].conn \in 1..Len(ltConn')
                      /\ d # "stop" =>
                         /\ ltCall'[d].reqs = <<LtRequest(ltCall'[d].op, ltCall'[d].slot)>>
                         /\ IF ltCall'[d].op = "EXEC" THEN d \in LtCmds /\ ltCall'[d].slot \in LtSlotIds
                            ELSE ltCall'[d].op \in {"VERSION", "PING", "GET_FILE"} /\ ltCall'[d].slot = LtNoSlot
                         /\ ltCall'[d].op = "VERSION" <=> d = "comm"
                      /\ d = "stop" =>
                         /\ \A k \in 1..Len(ltCall'[d].reqs) : \E s \in LtSlotIds : ltCall'[d].reqs[k] = LtRequest("KILL", s)
                         /\ \A j, k \in 1..Len(ltCall'[d].reqs) : ltCall'[d].reqs[j].slot = ltCall'[d].reqs[k].slot => j = k
    BY DEF LtAsked
  <2>1. CASE d = c
    <3>1. /\ ltCall'[d].op = reqs[1].kind /\ ltCall'[d].conn = ltLtx /\ ltCall'[d].slot = slot
          /\ ltCall'[d].reqs = reqs
      BY <1>4, <1>6, <2>1
    <3>2. ltLtx \in 1..Len(ltConn')
      BY <1>2
    <3> QED
      BY <2>1, <3>1, <3>2
  <2>2. CASE d # c
    <3>1. ltCall'[d] = ltCall[d] /\ Sending(d)
      BY <1>6, <2>2 DEF Sending
    <3> QED
      BY <1>1, <3>1 DEF LtBase, LtAsked
  <2> QED
    BY <2>1, <2>2
<1>10. LtHeld'
  <2>1. \A d \in LtCalls : ltCall'[d].slot # LtNoSlot => d \in LtCmds /\ ltCall'[d].slot \in ltSlots'
    <3>1. \A d \in LtCalls : d # c => (ltCall'[d].slot # LtNoSlot => d \in LtCmds /\ ltCall'[d].slot \in ltSlots')
      BY <1>1, <1>6, SlotsHeld
    <3> QED
      BY <1>4, <1>6, <3>1
  <2>2. ASSUME NEW d \in LtCalls, NEW e \in LtCalls, ltCall'[d].slot = ltCall'[e].slot, ltCall'[d].slot # LtNoSlot
        PROVE  d = e
    <3>1. CASE d # c /\ e # c
      BY <1>1, <1>6, <2>2, <3>1 DEF LtBase, LtHeld
    <3>2. CASE d = c /\ e # c
      BY <1>1, <1>4, <1>6, <2>2, <3>2, SlotsHeld
    <3>3. CASE e = c /\ d # c
      BY <1>1, <1>4, <1>6, <2>2, <3>3, SlotsHeld
    <3> QED
      BY <3>1, <3>2, <3>3
  <2>3. \A d \in LtCalls : ltCall'[d].op = "EXEC" => d \in LtCmds
    <3>1. c = "stop" => reqs[1].kind = "KILL"
      <4>1. 1 \in 1..Len(reqs)
        OBVIOUS
      <4>2. \A s \in LtSlotIds : LtRequest("KILL", s).kind = "KILL"
        BY DEF LtRequest
      <4> QED
        BY <4>1, <4>2
    <3>2. reqs[1].kind = "EXEC" => c \in LtCmds
      BY <3>1
    <3> QED
      BY <1>1, <1>4, <1>6, <3>2 DEF LtBase, LtHeld
  <2> QED
    BY <2>1, <2>2, <2>3 DEF LtHeld
<1>11. LtOneConn'
  <2>1. ASSUME NEW d \in LtCalls \ {"comm"}, Sending(d)', ltConn[ltCall'[d].conn].running
        PROVE  ltCall'[d].conn = ltLtx
    <3>1. CASE d = c
      BY <1>4, <1>6, <3>1
    <3>2. CASE d # c
      <4>1. ltCall'[d] = ltCall[d]
        BY <1>6, <3>2
      <4>2. Sending(d) /\ Connected(ltCall[d].conn)
        BY <2>1, <4>1 DEF Sending, Connected
      <4> QED
        BY <1>1, <4>1, <4>2 DEF LtBase, LtOneConn
    <3> QED
      BY <3>1, <3>2
  <2>2. LtActive' = LtActive
    BY DEF LtActive, Connected
  <2> QED
    BY <1>1, <1>7, <2>1, <2>2 DEF LtBase, LtOneConn, Connected
<1>12. \A d \in LtCalls : Registered(d)' => d # c /\ ltCall'[d] = ltCall[d] /\ Registered(d)
  BY <1>4, <1>6 DEF Registered, Connected
<1>13. LtNumbered'
  <2>1. \A g \in 1..Len(ltConn') : Connected(g)' =>
          \A p \in ltConn'[g].pending \union ltConn'[g].replies : p.id <= ltConn'[g].next_id
    BY <1>1 DEF LtBase, LtNumbered, Connected
  <2>2. ASSUME NEW d \in LtCalls, Registered(d)', d # "stop"
        PROVE  /\ \E n \in 1..ltConn'[ltCall'[d].conn].next_id : ltCall'[d].ids = {n}
               /\ \A p \in ltConn'[ltCall'[d].conn].pending \union ltConn'[ltCall'[d].conn].replies :
                     p.id \in ltCall'[d].ids => p.req.kind = ltCall'[d].op /\ p.req.slot = ltCall'[d].slot
    BY <1>1, <1>12, <2>2 DEF LtBase, LtNumbered
  <2> QED
    BY <2>1, <2>2 DEF LtNumbered
<1>14. \A d : Gone(d) => Gone(d)'
  BY DEF Gone
<1>15. LtExecuted'
  <2>1. ASSUME NEW d \in LtCalls, ltCall'[d].op # "EXEC" \/ ltCall'[d].pc \in {"new", "send", "write"}
        PROVE  Gone(d)'
    <3>1. ltCall[d].op # "EXEC" \/ ltCall[d].pc \in {"new", "send", "write"}
      BY <1>6, <2>1
    <3> QED
      BY <1>1, <1>14, <3>1 DEF LtBase, LtExecuted
  <2> QED
    BY <1>1, <2>1 DEF LtBase, LtExecuted
<1>16. LtBase'
  BY <1>8, <1>9, <1>10, <1>11, <1>13, <1>15 DEF LtBase
<1>17. ASSUME LtOrder
       PROVE  LtOrder'
  <2>1. LtFenced'
    <3>1. LtActive' = LtActive /\ LtFailed(ltLtx)' = LtFailed(ltLtx)
      BY DEF LtActive, LtFailed, Connected
    <3>2. ASSUME LtActive, ~LtFailed(ltLtx), NEW i \in 1..Len(ltOut), ltOut[i].op = "EXEC"
          PROVE  ltCall'[ltOut[i].who] = ltCall[ltOut[i].who] /\ ltCall[ltOut[i].who].pc \in {"wait", "dropped"}
      <4>1. ltCall[ltOut[i].who].pc \in {"wait", "dropped"}
        BY <1>17, <3>2 DEF LtOrder, LtFenced
      <4>2. ltOut[i] \in LtFrames
        BY <1>1, <3>2 DEF LtTyped
      <4>3. ltOut[i].who \in LtCalls
        BY <4>2 DEF LtFrames
      <4> QED
        BY <1>6, <4>1, <4>3
    <3> QED
      BY <1>17, <3>1, <3>2 DEF LtOrder, LtFenced
  <2>2. LtShaken'
    BY <1>7, <1>17 DEF LtOrder, LtShaken, Registered, Connected
  <2>3. LtOwned'
    <3> SUFFICES ASSUME NEW d \in LtCmds, ltCall'[d].op = "EXEC", Registered(d)'
                 PROVE  LtOwn(d)'
      BY DEF LtOwned
    <3>1. ltCall'[d] = ltCall[d] /\ Registered(d)
      BY <1>12, NotCommands
    <3>2. LtOwn(d)
      BY <1>17, <3>1 DEF LtOrder, LtOwned
    <3>3. NoForeign(d)' <=> NoForeign(d)
      BY <3>1 DEF NoForeign, Foreign
    <3>4. \A i : Foreign(d, i)' <=> Foreign(d, i)
      BY <3>1 DEF Foreign
    <3> QED
      BY <1>14, <3>1, <3>2, <3>3, <3>4 DEF LtOwn
  <2>4. LtEnded'
    <3>1. \A d \in LtCmds : ltCall'[d].pc = "ok" => ltCall'[d] = ltCall[d]
      BY <1>4, <1>6, NotCommands
    <3> QED
      BY <1>14, <1>17, <3>1 DEF LtOrder, LtEnded
  <2> QED
    BY <2>1, <2>2, <2>3, <2>4 DEF LtOrder
<1> QED
  BY <1>16, <1>17 DEF LtInv

\* The calls made are counted.
LEMMA CountTyped ==
    ASSUME LtBase, NEW kind \in {"probes", "stops"}, LtCount(kind)
    PROVE  ltDone' \in [probes : Nat, stops : Nat]
<1>1. ltDone \in [probes : Nat, stops : Nat] /\ ltDone' = [ltDone EXCEPT ![kind] = @ + 1]
  BY DEF LtBase, LtTyped, LtCount
<1>2. CASE kind = "probes"
  BY <1>1, <1>2
<1>3. CASE kind = "stops"
  BY <1>1, <1>3
<1> QED
  BY <1>2, <1>3

\* run_command(), ping() and fetch_file() begin.
LEMMA LtBeginKeeps ==
    ASSUME LtInv, NEW c \in LtCmds \union LtProbes, LtBegin(c)
    PROVE  LtInv'
<1>1. LtBase /\ LtTyped /\ ltConn \in Seq(LtConns) /\ ltDone \in [probes : Nat, stops : Nat]
  BY DEF LtInv, LtBase, LtTyped
<1>2. c \in LtCalls /\ c # "comm" /\ c # "stop"
  BY LtxAssumption DEF LtCalls
<1>3. ltCall[c].pc = "new" /\ UNCHANGED <<ltLtx, ltConn, ltRuns, ltOut, ltStray>>
  BY DEF LtBegin
<1>4. CASE LtEnd(c, "err") /\ UNCHANGED <<ltSlots, ltDone>>
  <2>1. ConnsSettle
    BY <1>1, <1>3 DEF ConnsSettle, LtFailed, Connected
  <2> QED
    BY <1>1, <1>2, <1>3, <1>4, <2>1, EndsKeep
<1>no. LtNoSlot \in 0..LtSlots /\ LtSlotIds \subseteq 0..LtSlots
  BY LtxAssumption DEF LtNoSlot, LtSlotIds
<1>req. ASSUME NEW op \in {"PING", "GET_FILE", "EXEC"}, NEW s \in 0..LtSlots, NEW reqs, reqs = <<LtRequest(op, s)>>
        PROVE  reqs \in Seq(LtRequests) /\ reqs # <<>> /\ reqs[1].kind = op
  <2> DEFINE r == LtRequest(op, s)
  <2>1. r \in LtRequests /\ r.kind = op
    BY DEF LtRequest, LtRequests, LtOps
  <2>2. reqs = <<r>>
    BY <1>req
  <2> HIDE DEF r
  <2> QED
    BY <2>1, <2>2
<1>5. CASE /\ LtActive /\ LtCount("probes")
           /\ \E op \in {"PING", "GET_FILE"} : LtSend(c, ltLtx, LtNoSlot, <<LtRequest(op, LtNoSlot)>>, {})
           /\ UNCHANGED ltSlots
  <2>1. PICK op \in {"PING", "GET_FILE"} : LtSend(c, ltLtx, LtNoSlot, <<LtRequest(op, LtNoSlot)>>, {})
    BY <1>5
  <2> DEFINE reqs == <<LtRequest(op, LtNoSlot)>>
  <2>2. reqs \in Seq(LtRequests) /\ reqs # <<>> /\ reqs[1].kind = op
    BY <1>no, <1>req
  <2>3. reqs = <<LtRequest(reqs[1].kind, LtNoSlot)>>
    BY <2>2
  <2>4. ltDone' \in [probes : Nat, stops : Nat]
    BY <1>1, <1>5, CountTyped
  <2>5. LtSend(c, ltLtx, LtNoSlot, reqs, {}) /\ {} \in SUBSET LtCalls
    BY <2>1
  <2> HIDE DEF reqs
  <2> QED
    BY <1>2, <1>3, <1>5, <1>no, <2>2, <2>3, <2>4, <2>5, StartsKeep
<1>6. CASE LtActive /\ \E s \in (0..(LtSlots - 1)) \ ltSlots :
             /\ c \in LtCmds /\ ltSlots' = ltSlots \union {s}
             /\ LtSend(c, ltLtx, s, <<LtRequest("EXEC", s)>>, {})
             /\ UNCHANGED ltDone
  <2>1. PICK s \in LtSlotIds \ ltSlots :
             /\ c \in LtCmds /\ ltSlots' = ltSlots \union {s}
             /\ LtSend(c, ltLtx, s, <<LtRequest("EXEC", s)>>, {})
             /\ UNCHANGED ltDone
    BY <1>6 DEF LtSlotIds
  <2> DEFINE reqs == <<LtRequest("EXEC", s)>>
  <2>2. s \in 0..LtSlots
    BY <1>no
  <2>3. reqs \in Seq(LtRequests) /\ reqs # <<>> /\ reqs[1].kind = "EXEC"
    BY <1>req, <2>2
  <2>4. reqs = <<LtRequest(reqs[1].kind, s)>>
    BY <2>3
  <2>5. LtSend(c, ltLtx, s, reqs, {}) /\ {} \in SUBSET LtCalls /\ ltDone' \in [probes : Nat, stops : Nat]
    BY <1>1, <2>1
  <2> HIDE DEF reqs
  <2> QED
    BY <1>2, <1>3, <1>6, <2>1, <2>2, <2>3, <2>4, <2>5, StartsKeep
<1> QED
  BY <1>4, <1>5, <1>6 DEF LtBegin

\* stop() begins: a KILL for every slot reserved.
LEMMA KillKeeps ==
    ASSUME LtInv, kill_in_flight
    PROVE  LtInv'
<1>1. LtBase /\ LtTyped /\ ltConn \in Seq(LtConns) /\ ltSlots \subseteq LtSlotIds
  BY DEF LtInv, LtBase, LtTyped
<1>2. /\ ltCall["stop"].pc = "new" /\ LtActive /\ UNCHANGED <<ltLtx, ltConn, ltSlots, ltRuns, ltOut, ltStray>>
      /\ LtCount("stops")
  BY DEF kill_in_flight
<1>3. ltDone' \in [probes : Nat, stops : Nat]
  BY <1>1, <1>2, CountTyped
<1>4. "stop" \in LtCalls /\ "stop" # "comm"
  BY NotCommands
<1>5. CASE LtEnd("stop", "ok")
  <2>1. ConnsSettle
    BY <1>1, <1>2 DEF ConnsSettle, LtFailed, Connected
  <2> QED
    BY <1>2, <1>3, <1>4, <1>5, <2>1, EndsKeep
<1>6. CASE /\ ltSlots # {}
           /\ \E slots \in [1..Cardinality(ltSlots) -> ltSlots] :
               /\ IsInjective(slots)
               /\ LtSend("stop", ltLtx, LtNoSlot, [k \in DOMAIN slots |-> LtRequest("KILL", slots[k])],
                         {c \in LtCmds : ltCall[c].pc = "wait"})
  <2>1. PICK slots \in [1..Cardinality(ltSlots) -> ltSlots] :
               /\ IsInjective(slots)
               /\ LtSend("stop", ltLtx, LtNoSlot, [k \in DOMAIN slots |-> LtRequest("KILL", slots[k])],
                         {c \in LtCmds : ltCall[c].pc = "wait"})
    BY <1>6
  <2> DEFINE n == Cardinality(ltSlots)
             reqs == [k \in 1..n |-> LtRequest("KILL", slots[k])]
             got == {c \in LtCmds : ltCall[c].pc = "wait"}
  <2>2. n \in Nat /\ n # 0
    <3>1. LtSlots - 1 \in Int /\ IsFiniteSet(0..(LtSlots - 1))
      BY FS_Interval, LtxAssumption
    <3>2. IsFiniteSet(ltSlots)
      BY <1>1, <3>1, FS_Subset DEF LtSlotIds
    <3> QED
      BY <1>6, <3>2, FS_CardinalityType, FS_EmptySet
  <2>3. DOMAIN slots = 1..n /\ \A k \in 1..n : slots[k] \in LtSlotIds
    BY <1>1, <2>1
  <2>4. \A s \in LtSlotIds : LtRequest("KILL", s) \in LtRequests /\ LtRequest("KILL", s).slot = s
    BY LtxAssumption DEF LtRequest, LtRequests, LtOps, LtSlotIds
  <2>5. LtSend("stop", ltLtx, LtNoSlot, reqs, got) /\ got \in SUBSET LtCalls
    BY <2>1, <2>3, NotCommands
  <2>6. \A j, k \in 1..n : slots[j] = slots[k] => j = k
    BY <2>1, <2>3 DEF IsInjective
  <2>no. LtNoSlot \in 0..LtSlots
    BY LtxAssumption DEF LtNoSlot
  <2> HIDE DEF n
  <2>7. /\ reqs \in Seq(LtRequests) /\ Len(reqs) = n
        /\ \A k \in 1..n : reqs[k] = LtRequest("KILL", slots[k])
    <3>1. reqs \in [1..n -> LtRequests]
      BY <2>3, <2>4
    <3>2. \A k \in 1..n : reqs[k] = LtRequest("KILL", slots[k])
      OBVIOUS
    <3> HIDE DEF reqs
    <3> QED
      BY <2>2, <3>1, <3>2
  <2> HIDE DEF reqs, got
  <2>8. reqs # <<>>
    BY <2>2, <2>7
  <2>9. \A k \in 1..Len(reqs) : \E s \in LtSlotIds : reqs[k] = LtRequest("KILL", s)
    BY <2>3, <2>7
  <2>10. \A j, k \in 1..Len(reqs) : reqs[j].slot = reqs[k].slot => j = k
    BY <2>3, <2>4, <2>6, <2>7
  <2> QED
    BY <1>2, <1>3, <1>4, <2>no, <2>5, <2>7, <2>8, <2>9, <2>10, StartsKeep
<1> QED
  BY <1>5, <1>6 DEF kill_in_flight

\* A connection is opened when none is open.
LEMMA LtConnectKeeps ==
    ASSUME LtInv, LtConnect
    PROVE  LtInv'
<1> DEFINE n == Len(ltConn)
           open == [running |-> TRUE, desynced |-> FALSE, fatal |-> FALSE, pending |-> {}, replies |-> {}, next_id |-> 0]
           req == LtRequest("VERSION", LtNoSlot)
           q == [op |-> <<req>>[1].kind, pc |-> "send", conn |-> n + 1, slot |-> LtNoSlot, ids |-> {}, reqs |-> <<req>>, got |-> {}]
<1>1. LtBase /\ LtTyped /\ ltConn \in Seq(LtConns) /\ n \in Nat /\ ltCall \in [LtCalls -> LtCallRecords]
  BY DEF LtInv, LtBase, LtTyped
<1>2. /\ ltCall["comm"].pc = "new" /\ ~LtActive
      /\ ltConn' = Append(ltConn, open)
      /\ ltCall' = [ltCall EXCEPT !["comm"] = q]
      /\ UNCHANGED <<ltLtx, ltSlots, ltDone, ltRuns, ltOut, ltStray>>
  BY DEF LtConnect, LtSend
<1>3. open \in LtConns /\ open.running /\ open.pending = {} /\ open.replies = {}
  BY DEF LtConns
<1>no. LtNoSlot \in 0..LtSlots
  BY LtxAssumption DEF LtNoSlot
<1>4. req \in LtRequests /\ req.kind = "VERSION"
  BY <1>no DEF LtRequest, LtRequests, LtOps
<1>5. /\ q \in LtCallRecords /\ q.op = "VERSION" /\ q.pc = "send" /\ q.conn = n + 1 /\ q.slot = LtNoSlot
      /\ q.reqs = <<LtRequest("VERSION", LtNoSlot)>>
  <2>1. q.reqs = <<req>>
    OBVIOUS
  <2> HIDE DEF req
  <2>2. <<req>> \in Seq(LtRequests) /\ <<req>>[1].kind = "VERSION"
    BY <1>4
  <2>3. n + 1 \in Nat
    BY <1>1
  <2> HIDE DEF n
  <2>4. q \in LtCallRecords /\ q.op = "VERSION" /\ q.pc = "send" /\ q.conn = n + 1 /\ q.slot = LtNoSlot
    BY <1>no, <2>2, <2>3 DEF LtCallRecords, LtPcs, LtOps
  <2> QED
    BY <2>1, <2>4 DEF req
<1> HIDE DEF open, q
<1>6. /\ ltConn' \in Seq(LtConns) /\ Len(ltConn') = n + 1 /\ ltConn'[n + 1] = open
      /\ \A g \in 1..n : ltConn'[g] = ltConn[g]
  BY <1>1, <1>2, <1>3
<1> HIDE DEF n
<1>7. /\ ltCall' \in [LtCalls -> LtCallRecords] /\ ltCall'["comm"] = q
      /\ \A d \in LtCalls : d # "comm" => ltCall'[d] = ltCall[d]
  BY <1>1, <1>2, <1>5, NotCommands
<1>8. ltLtx \in 0..n /\ \A d \in LtCalls : ltCall[d].conn \in 0..n
  BY <1>1 DEF LtTyped, n
<1>9. \A g \in 1..n : ~ltConn[g].running /\ ~ltConn'[g].running
  <2>1. \A g \in 1..n : Connected(g) => g = ltLtx
    BY <1>1, <1>2 DEF LtBase, LtOneConn, n
  <2>2. \A g \in 1..n : ~Connected(g)
    BY <1>1, <1>2, <2>1 DEF LtActive
  <2> QED
    BY <1>6, <2>2 DEF Connected
<1>10. ~LtActive'
  <2>1. ltLtx # 0 => ltLtx \in 1..n
    BY <1>1, <1>8
  <2> QED
    BY <1>2, <1>9, <2>1 DEF LtActive, Connected
<1>11. \A d \in LtCalls : Sending(d)' => d = "comm" \/ (ltCall'[d] = ltCall[d] /\ Sending(d) /\ ltCall[d].conn \in 1..n)
  <2>1. \A d \in LtCalls : Sending(d) => ltCall[d].conn \in 1..n
    BY <1>1 DEF LtBase, LtAsked, n
  <2> QED
    BY <1>7, <2>1 DEF Sending
<1>12. \A d \in LtCalls : ~Registered(d)'
  <2> SUFFICES ASSUME NEW d \in LtCalls, Registered(d)' PROVE FALSE
    OBVIOUS
  <2>1. d # "comm"
    BY <1>5, <1>7 DEF Registered
  <2>2. ltCall'[d].conn \in 1..n
    BY <1>11, <2>1 DEF Registered, Sending
  <2> QED
    BY <1>9, <2>2 DEF Registered, Connected
<1>13. LtTyped'
  <2>1. n + 1 \in Nat /\ ltLtx \in 0..(n + 1) /\ \A d \in LtCalls : ltCall'[d].conn \in 0..(n + 1)
    BY <1>1, <1>5, <1>7, <1>8
  <2> QED
    BY <1>1, <1>2, <1>6, <1>7, <2>1 DEF LtTyped
<1>14. LtAsked'
  <2> SUFFICES ASSUME NEW d \in LtCalls, Sending(d)'
               PROVE  /\ ltCall'[d].conn \in 1..Len(ltConn')
                      /\ d # "stop" =>
                         /\ ltCall'[d].reqs = <<LtRequest(ltCall'[d].op, ltCall'[d].slot)>>
                         /\ IF ltCall'[d].op = "EXEC" THEN d \in LtCmds /\ ltCall'[d].slot \in LtSlotIds
                            ELSE ltCall'[d].op \in {"VERSION", "PING", "GET_FILE"} /\ ltCall'[d].slot = LtNoSlot
                         /\ ltCall'[d].op = "VERSION" <=> d = "comm"
                      /\ d = "stop" =>
                         /\ \A k \in 1..Len(ltCall'[d].reqs) : \E s \in LtSlotIds : ltCall'[d].reqs[k] = LtRequest("KILL", s)
                         /\ \A j, k \in 1..Len(ltCall'[d].reqs) : ltCall'[d].reqs[j].slot = ltCall'[d].reqs[k].slot => j = k
    BY DEF LtAsked
  <2>0. \A m \in 1..n : m \in 1..(n + 1)
    BY <1>1 DEF n
  <2>1. CASE d = "comm"
    <3>1. n + 1 \in 1..(n + 1)
      BY <1>1 DEF n
    <3> QED
      BY <1>5, <1>6, <1>7, <2>1, <3>1
  <2>2. CASE d # "comm"
    <3>1. ltCall'[d] = ltCall[d] /\ Sending(d) /\ ltCall[d].conn \in 1..n
      BY <1>11, <2>2
    <3> QED
      BY <1>1, <1>6, <2>0, <2>2, <3>1 DEF LtBase, LtAsked
  <2> QED
    BY <2>1, <2>2
<1>15. LtHeld'
  BY <1>1, <1>2, <1>5, <1>7 DEF LtBase, LtHeld
<1>16. LtOneConn'
  <2>1. ASSUME NEW g \in 1..Len(ltConn'), Connected(g)'
        PROVE  g = n + 1
    BY <1>1, <1>6, <1>9, <2>1 DEF Connected, n
  <2>2. ASSUME NEW d \in LtCalls \ {"comm"}, Sending(d)', Connected(ltCall[d].conn)'
        PROVE  FALSE
    BY <1>9, <1>11, <2>2 DEF Connected
  <2>3. n + 1 \in 1..Len(ltConn')
    BY <1>1, <1>6 DEF n
  <2> QED
    BY <1>5, <1>7, <1>10, <2>1, <2>2, <2>3 DEF LtOneConn
<1>17. LtNumbered'
  <2>1. ASSUME NEW g \in 1..Len(ltConn'), Connected(g)'
        PROVE  ltConn'[g].pending = {} /\ ltConn'[g].replies = {}
    <3>1. g = n + 1
      BY <1>1, <1>6, <1>9, <2>1 DEF Connected, n
    <3> QED
      BY <1>3, <1>6, <3>1
  <2> QED
    BY <1>12, <2>1 DEF LtNumbered
<1>18. \A d : Gone(d) => Gone(d)'
  BY <1>2 DEF Gone
<1>19. LtExecuted'
  <2>1. ASSUME NEW d \in LtCalls, ltCall'[d].op # "EXEC" \/ ltCall'[d].pc \in {"new", "send", "write"}
        PROVE  Gone(d)'
    <3>1. ltCall[d].op # "EXEC" \/ ltCall[d].pc \in {"new", "send", "write"}
      BY <1>2, <1>7, <2>1
    <3> QED
      BY <1>1, <1>18, <3>1 DEF LtBase, LtExecuted
  <2> QED
    BY <1>1, <1>2, <2>1 DEF LtBase, LtExecuted
<1>20. LtBase'
  BY <1>13, <1>14, <1>15, <1>16, <1>17, <1>19 DEF LtBase
<1>21. ASSUME LtOrder
       PROVE  LtOrder'
  <2>1. LtFenced' /\ LtOwned'
    BY <1>10, <1>12, NotCommands DEF LtFenced, LtOwned
  <2>2. LtShaken'
    <3>1. \A i \in 1..Len(ltOut') : ltOut'[i].op # "VERSION"
      BY <1>2, <1>21 DEF LtOrder, LtShaken
    <3> QED
      BY <1>5, <1>7, <1>12, <3>1, NotCommands DEF LtShaken
  <2>3. LtEnded'
    BY <1>7, <1>18, <1>21, NotCommands DEF LtOrder, LtEnded
  <2> QED
    BY <2>1, <2>2, <2>3 DEF LtOrder
<1> QED
  BY <1>2, <1>20, <1>21 DEF LtInv

\* The handshake succeeds: every echo of earlier commands is read.
LEMMA LtPublishKeeps ==
    ASSUME LtInv, LtHandshake, ltCall["comm"].pc = "ok"
    PROVE  LtInv'
<1> DEFINE g == ltCall["comm"].conn
<1>1. LtBase /\ LtTyped
  BY DEF LtInv, LtBase
<1>2. /\ ltLtx' = g /\ ltCall' = [ltCall EXCEPT !["comm"] = LtNew]
      /\ UNCHANGED <<ltConn, ltOut, ltStray, ltSlots, ltDone, ltRuns>>
  BY DEF LtHandshake
<1>3. g \in 1..Len(ltConn) /\ ~LtActive
  BY <1>1 DEF LtBase, LtOneConn
<1>4. /\ ltCall' \in [LtCalls -> LtCallRecords]
      /\ \A d \in LtCalls : d # "comm" => ltCall'[d] = ltCall[d]
      /\ ltCall'["comm"].op = "none" /\ ltCall'["comm"].pc = "new" /\ ltCall'["comm"].conn = 0
      /\ ltCall'["comm"].slot = LtNoSlot
  BY <1>1, <1>2, EndRecords, NotCommands
<1>5. \A d \in LtCalls : Sending(d)' => d # "comm" /\ ltCall'[d] = ltCall[d] /\ Sending(d)
  BY <1>4 DEF Sending
<1>6. \A h \in 1..Len(ltConn) : Connected(h) => h = g
  BY <1>1, <1>3 DEF LtBase, LtOneConn, LtActive
<1>7. LtTyped'
  <2>1. Len(ltConn) \in Nat /\ g \in 0..Len(ltConn) /\ \A d \in LtCalls : ltCall'[d].conn \in 0..Len(ltConn)
    <3>1. ltConn \in Seq(LtConns) /\ \A d \in LtCalls : ltCall[d].conn \in 0..Len(ltConn)
      BY <1>1 DEF LtTyped
    <3>2. Len(ltConn) \in Nat
      BY <3>1
    <3> QED
      BY <1>3, <1>4, <3>1, <3>2
  <2> QED
    BY <1>1, <1>2, <1>4, <2>1 DEF LtTyped
<1>8. LtAsked'
  BY <1>1, <1>2, <1>5 DEF LtBase, LtAsked
<1>9. LtHeld'
  BY <1>1, <1>2, <1>4 DEF LtBase, LtHeld
<1>10. LtOneConn'
  <2>1. ASSUME NEW d \in LtCalls \ {"comm"}, Sending(d)', Connected(ltCall[d].conn)'
        PROVE  FALSE
    <3>1. ltCall'[d] = ltCall[d] /\ Sending(d) /\ Connected(ltCall[d].conn)
      BY <1>2, <1>5, <2>1 DEF Connected
    <3>2. ltCall[d].conn = ltLtx /\ ltCall[d].conn \in 1..Len(ltConn)
      BY <1>1, <3>1 DEF LtBase, LtOneConn, LtAsked
    <3> QED
      BY <1>3, <3>1, <3>2 DEF LtActive
  <2>2. \A h \in 1..Len(ltConn') : Connected(h)' => h = ltLtx'
    BY <1>2, <1>6 DEF Connected
  <2> QED
    BY <1>4, <2>1, <2>2 DEF LtOneConn
<1>11. \A d \in LtCalls : Registered(d)' => d # "comm" /\ ltCall'[d] = ltCall[d] /\ Registered(d)
  BY <1>2, <1>4 DEF Registered, Connected
<1>12. LtNumbered'
  <2>1. \A h \in 1..Len(ltConn') : Connected(h)' =>
          \A p \in ltConn'[h].pending \union ltConn'[h].replies : p.id <= ltConn'[h].next_id
    BY <1>1, <1>2 DEF LtBase, LtNumbered, Connected
  <2>2. ASSUME NEW d \in LtCalls, Registered(d)', d # "stop"
        PROVE  /\ \E n \in 1..ltConn'[ltCall'[d].conn].next_id : ltCall'[d].ids = {n}
               /\ \A p \in ltConn'[ltCall'[d].conn].pending \union ltConn'[ltCall'[d].conn].replies :
                     p.id \in ltCall'[d].ids => p.req.kind = ltCall'[d].op /\ p.req.slot = ltCall'[d].slot
    BY <1>1, <1>2, <1>11, <2>2 DEF LtBase, LtNumbered
  <2> QED
    BY <2>1, <2>2 DEF LtNumbered
<1>13. \A d : Gone(d) => Gone(d)'
  BY <1>2 DEF Gone
<1>14. LtExecuted'
  <2>1. ASSUME NEW d \in LtCalls, ltCall'[d].op # "EXEC" \/ ltCall'[d].pc \in {"new", "send", "write"}
        PROVE  Gone(d)'
    <3>1. CASE d = "comm"
      BY <1>1, <1>13, <3>1, OnlyCommands, NotCommands
    <3>2. CASE d # "comm"
      <4>1. ltCall[d].op # "EXEC" \/ ltCall[d].pc \in {"new", "send", "write"}
        BY <1>4, <2>1, <3>2
      <4> QED
        BY <1>1, <1>13, <4>1 DEF LtBase, LtExecuted
    <3> QED
      BY <3>1, <3>2
  <2> QED
    BY <1>1, <1>2, <2>1 DEF LtBase, LtExecuted
<1>15. LtBase'
  BY <1>7, <1>8, <1>9, <1>10, <1>12, <1>14 DEF LtBase
<1>16. ASSUME LtOrder
       PROVE  LtOrder'
  <2>0. \A i \in 1..Len(ltOut') : ltOut'[i].op \notin {"EXEC", "VERSION"}
    BY <1>2, <1>16 DEF LtOrder, LtShaken
  <2>1. LtFenced'
    BY <2>0 DEF LtFenced
  <2>2. LtShaken'
    BY <2>0, <1>4 DEF LtShaken
  <2>3. LtOwned'
    <3> SUFFICES ASSUME NEW d \in LtCmds, ltCall'[d].op = "EXEC", Registered(d)'
                 PROVE  LtOwn(d)'
      BY DEF LtOwned
    <3>1. ltCall'[d] = ltCall[d] /\ Registered(d)
      BY <1>11, NotCommands
    <3>2. LtOwn(d)
      BY <1>16, <3>1 DEF LtOrder, LtOwned
    <3>3. NoForeign(d)' <=> NoForeign(d)
      BY <1>2, <3>1 DEF NoForeign, Foreign
    <3>4. \A i : Foreign(d, i)' <=> Foreign(d, i)
      BY <1>2, <3>1 DEF Foreign
    <3> QED
      BY <1>2, <1>13, <3>1, <3>2, <3>3, <3>4 DEF LtOwn
  <2>4. LtEnded'
    BY <1>4, <1>13, <1>16, NotCommands DEF LtOrder, LtEnded
  <2> QED
    BY <2>1, <2>2, <2>3, <2>4 DEF LtOrder
<1> QED
  BY <1>2, <1>15, <1>16 DEF LtInv

\* The ids are given out.
Registers(c) ==
    LET g == ltCall[c].conn
        conn == ltConn[g]
        reqs == ltCall[c].reqs
    IN  /\ ltCall[c].pc = "send" /\ ~(conn.desynced \/ conn.fatal)
        /\ ltConn' = [ltConn EXCEPT ![g].pending = @ \union
                         {[id |-> conn.next_id + k, req |-> reqs[k]] : k \in 1..Len(reqs)},
                                    ![g].next_id = @ + Len(reqs)]
        /\ ltCall' = [ltCall EXCEPT ![c].pc = "write",
                                    ![c].ids = (conn.next_id + 1)..(conn.next_id + Len(reqs))]
        /\ UNCHANGED <<ltLtx, ltSlots, ltDone, ltRuns, ltOut, ltStray>>

\* The requests of a call are pending.
LEMMA LtRegisteredKeeps ==
    ASSUME LtInv, NEW c \in LtCalls, Registers(c)
    PROVE  LtInv'
<1> DEFINE g == ltCall[c].conn
           conn == ltConn[g]
           reqs == ltCall[c].reqs
           n == conn.next_id
           m == Len(reqs)
           added == {[id |-> n + k, req |-> reqs[k]] : k \in 1..m}
<1>same. UNCHANGED <<ltLtx, ltSlots, ltDone, ltRuns, ltOut, ltStray>> /\ ltCall[c].pc = "send" /\ ~(conn.desynced \/ conn.fatal)
  BY DEF Registers
<1>eq. g = ltCall[c].conn /\ conn = ltConn[g] /\ reqs = ltCall[c].reqs
  OBVIOUS
<1>1. LtBase /\ LtTyped /\ ltConn \in Seq(LtConns) /\ ltCall \in [LtCalls -> LtCallRecords] /\ Sending(c)
  BY <1>same DEF LtInv, LtBase, LtTyped, Sending
<1>2. g \in 1..Len(ltConn) /\ conn \in LtConns
  BY <1>1 DEF LtBase, LtAsked
<1>3. reqs \in Seq(LtRequests) /\ m \in Nat /\ n \in Nat /\ ltCall[c] \in LtCallRecords
  BY <1>1, <1>2 DEF LtCallRecords, LtConns
<1>4. /\ \A p \in added : p \in LtEntries /\ n < p.id /\ p.id <= n + m
      /\ \A p \in added : \E k \in 1..m : p.id = n + k /\ p.req = reqs[k]
  <2>1. ASSUME NEW k \in 1..m
        PROVE  /\ [id |-> n + k, req |-> reqs[k]] \in LtEntries
               /\ [id |-> n + k, req |-> reqs[k]].id = n + k /\ [id |-> n + k, req |-> reqs[k]].req = reqs[k]
               /\ n < n + k /\ n + k <= n + m
    <3>1. reqs[k] \in LtRequests /\ n + k \in Nat
      BY <1>3
    <3> QED
      BY <1>3, <3>1 DEF LtEntries
  <2>2. ASSUME NEW p \in added
        PROVE  p \in LtEntries /\ n < p.id /\ p.id <= n + m /\ \E k \in 1..m : p.id = n + k /\ p.req = reqs[k]
    <3>1. PICK k \in 1..m : p = [id |-> n + k, req |-> reqs[k]]
      OBVIOUS
    <3> HIDE DEF n, m
    <3> QED
      BY <2>1, <3>1
  <2> QED
    BY <2>2
<1> DEFINE q == [conn EXCEPT !.pending = @ \union added, !.next_id = @ + m]
           r == [ltCall[c] EXCEPT !.pc = "write", !.ids = (n + 1)..(n + m)]
<1>5. ltConn' = [ltConn EXCEPT ![g] = q] /\ ltCall' = [ltCall EXCEPT ![c] = r]
  BY <1>1, <1>2 DEF Registers
<1> HIDE DEF added, g, conn, reqs
<1>6. /\ q \in LtConns /\ q.running = conn.running /\ q.desynced = conn.desynced /\ q.fatal = conn.fatal
      /\ q.pending = conn.pending \union added /\ q.replies = conn.replies /\ q.next_id = n + m
  <2>1. added \subseteq LtEntries /\ n + m \in Nat
    BY <1>3, <1>4
  <2> QED
    BY <1>2, <2>1 DEF LtConns
<1>7. /\ r \in LtCallRecords /\ r.op = ltCall[c].op /\ r.pc = "write" /\ r.conn = ltCall[c].conn /\ r.slot = ltCall[c].slot
      /\ r.ids = (n + 1)..(n + m) /\ r.reqs = ltCall[c].reqs /\ r.got = ltCall[c].got
  <2> DEFINE b == ltCall[c]
  <2>1. b \in LtCallRecords /\ (n + 1)..(n + m) \in SUBSET Nat
    BY <1>3
  <2> HIDE DEF b, n, m
  <2>2. LET x == [b EXCEPT !.pc = "write", !.ids = (n + 1)..(n + m)]
        IN  /\ x \in LtCallRecords /\ x.op = b.op /\ x.pc = "write" /\ x.conn = b.conn /\ x.slot = b.slot
            /\ x.ids = (n + 1)..(n + m) /\ x.reqs = b.reqs /\ x.got = b.got
    BY <2>1 DEF LtCallRecords, LtPcs
  <2> QED
    BY <2>2 DEF b
<1> HIDE DEF q, r, n, m
<1>n. n = conn.next_id /\ m = Len(reqs)
  BY DEF n, m
<1>8. /\ ltConn' \in Seq(LtConns) /\ Len(ltConn') = Len(ltConn) /\ ltConn'[g] = q
      /\ \A h \in 1..Len(ltConn) : h # g => ltConn'[h] = ltConn[h]
  BY <1>1, <1>2, <1>5, <1>6
<1>9. /\ ltCall' \in [LtCalls -> LtCallRecords] /\ ltCall'[c] = r
      /\ \A d \in LtCalls : d # c => ltCall'[d] = ltCall[d]
  BY <1>1, <1>5, <1>7
<1>10. \A h \in 1..Len(ltConn) :
          /\ ltConn'[h].running = ltConn[h].running /\ ltConn'[h].desynced = ltConn[h].desynced
          /\ ltConn'[h].fatal = ltConn[h].fatal /\ ltConn'[h].replies = ltConn[h].replies
  BY <1>eq, <1>6, <1>8
<1>11. \A d \in LtCalls :
          /\ ltCall'[d].op = ltCall[d].op /\ ltCall'[d].conn = ltCall[d].conn /\ ltCall'[d].slot = ltCall[d].slot
          /\ ltCall'[d].reqs = ltCall[d].reqs /\ ltCall'[d].got = ltCall[d].got
          /\ ltCall'[d].pc = ltCall[d].pc \/ (d = c /\ ltCall[d].pc = "send" /\ ltCall'[d].pc = "write")
  BY <1>same, <1>7, <1>9
<1>12. ltLtx \in 0..Len(ltConn) /\ \A d \in LtCalls : ltCall[d].conn \in 0..Len(ltConn)
  BY <1>1 DEF LtTyped
<1>13. \A d \in LtCalls : (Sending(d)' => Sending(d)) /\ (Sending(d) => ltCall[d].conn \in 1..Len(ltConn))
  BY <1>1, <1>11 DEF Sending, LtBase, LtAsked
<1>14. LtTyped'
  <2>1. ltLtx' = ltLtx /\ ltSlots' = ltSlots /\ ltDone' = ltDone /\ ltRuns' = ltRuns /\ ltOut' = ltOut
    BY <1>same
  <2>2. \A d \in LtCalls : ltCall'[d].conn \in 0..Len(ltConn')
    BY <1>8, <1>11, <1>12
  <2> QED
    BY <1>1, <1>8, <1>9, <2>1, <2>2 DEF LtTyped
<1>15. LtAsked'
  <2> SUFFICES ASSUME NEW d \in LtCalls, Sending(d)'
               PROVE  /\ ltCall'[d].conn \in 1..Len(ltConn')
                      /\ d # "stop" =>
                            /\ ltCall'[d].reqs = <<LtRequest(ltCall'[d].op, ltCall'[d].slot)>>
                            /\ IF ltCall'[d].op = "EXEC" THEN d \in LtCmds /\ ltCall'[d].slot \in LtSlotIds
                               ELSE ltCall'[d].op \in {"VERSION", "PING", "GET_FILE"} /\ ltCall'[d].slot = LtNoSlot
                            /\ ltCall'[d].op = "VERSION" <=> d = "comm"
                      /\ d = "stop" =>
                            /\ \A k \in 1..Len(ltCall'[d].reqs) :
                                  \E s \in LtSlotIds : ltCall'[d].reqs[k] = LtRequest("KILL", s)
                            /\ \A j, k \in 1..Len(ltCall'[d].reqs) :
                                  ltCall'[d].reqs[j].slot = ltCall'[d].reqs[k].slot => j = k
    BY DEF LtAsked
  <2>1. Sending(d)
    BY <1>13
  <2>2. /\ ltCall'[d].op = ltCall[d].op /\ ltCall'[d].conn = ltCall[d].conn
        /\ ltCall'[d].slot = ltCall[d].slot /\ ltCall'[d].reqs = ltCall[d].reqs
    BY <1>11
  <2>3. /\ ltCall[d].conn \in 1..Len(ltConn)
        /\ d # "stop" =>
              /\ ltCall[d].reqs = <<LtRequest(ltCall[d].op, ltCall[d].slot)>>
              /\ IF ltCall[d].op = "EXEC" THEN d \in LtCmds /\ ltCall[d].slot \in LtSlotIds
                 ELSE ltCall[d].op \in {"VERSION", "PING", "GET_FILE"} /\ ltCall[d].slot = LtNoSlot
              /\ ltCall[d].op = "VERSION" <=> d = "comm"
        /\ d = "stop" =>
              /\ \A k \in 1..Len(ltCall[d].reqs) :
                    \E s \in LtSlotIds : ltCall[d].reqs[k] = LtRequest("KILL", s)
              /\ \A j, k \in 1..Len(ltCall[d].reqs) :
                    ltCall[d].reqs[j].slot = ltCall[d].reqs[k].slot => j = k
    BY <1>1, <2>1 DEF LtBase, LtAsked
  <2>4. 1..Len(ltConn') = 1..Len(ltConn)
    BY <1>8
  <2> QED
    BY <2>2, <2>3, <2>4
<1>16. LtHeld'
  BY <1>same, <1>1, <1>11 DEF LtBase, LtHeld
<1>17. LtActive' <=> LtActive
  <2>1. ltLtx # 0 => ltLtx \in 1..Len(ltConn)
    BY <1>12
  <2> QED
    BY <1>same, <1>10, <2>1 DEF LtActive, Connected
<1>18. LtOneConn'
  <2>1. (ltCall'["comm"].pc # "new" <=> ltCall["comm"].pc # "new") /\ (ltCall'["comm"].pc # "dropped" <=> ltCall["comm"].pc # "dropped")
        /\ ltCall'["comm"].conn = ltCall["comm"].conn
    BY <1>11, NotCommands
  <2>2. ASSUME NEW d \in LtCalls \ {"comm"}, Sending(d)', Connected(ltCall[d].conn)'
        PROVE  ltCall'[d].conn = ltLtx'
    <3>1. Sending(d) /\ ltCall'[d].conn = ltCall[d].conn /\ ltCall[d].conn \in 1..Len(ltConn)
      BY <1>11, <1>13, <2>2
    <3>2. Connected(ltCall[d].conn)
      BY <1>10, <2>2, <3>1 DEF Connected
    <3> QED
      BY <1>same, <1>1, <3>1, <3>2 DEF LtBase, LtOneConn
  <2>3. ASSUME NEW h \in 1..Len(ltConn'), Connected(h)'
        PROVE  h = ltLtx' \/ (ltCall'["comm"].pc # "new" /\ h = ltCall'["comm"].conn)
    <3>1. Connected(h) /\ h \in 1..Len(ltConn)
      BY <1>8, <1>10, <2>3 DEF Connected
    <3> QED
      BY <1>same, <1>1, <2>1, <3>1 DEF LtBase, LtOneConn
  <2>4. ASSUME ltCall'["comm"].pc # "new"
        PROVE  ltCall'["comm"].pc # "dropped" /\ ltCall'["comm"].conn \in 1..Len(ltConn') /\ ~LtActive'
    BY <1>1, <1>8, <1>17, <2>1, <2>4 DEF LtBase, LtOneConn
  <2> QED
    BY <2>2, <2>3, <2>4 DEF LtOneConn
\* What was registered before.
<1>19. ASSUME NEW d \in LtCalls, d # c, Registered(d)', NEW h, h = ltCall[d].conn
       PROVE  /\ Registered(d) /\ ltCall'[d] = ltCall[d] /\ h \in 1..Len(ltConn) /\ Connected(h)
              /\ d # "stop" => \A p \in ltConn'[h].pending : p.id \in ltCall[d].ids => p \in ltConn[h].pending
              /\ ltConn'[h].replies = ltConn[h].replies
  <2>1. ltCall'[d] = ltCall[d] /\ Sending(d)
    BY <1>9, <1>19 DEF Registered, Sending
  <2>2. h \in 1..Len(ltConn)
    BY <1>13, <1>19, <2>1
  <2>3. Registered(d) /\ Connected(h)
    BY <1>10, <1>19, <2>1, <2>2 DEF Registered, Connected
  <2>4. ASSUME d # "stop", NEW p \in ltConn'[h].pending, p.id \in ltCall[d].ids
        PROVE  p \in ltConn[h].pending
    <3>1. CASE h # g
      BY <1>8, <2>2, <2>4, <3>1
    <3>2. CASE h = g
      <4>1. \E x \in 1..n : ltCall[d].ids = {x}
        BY <1>eq, <1>1, <1>19, <2>3, <2>4, <3>2 DEF LtBase, LtNumbered, n
      <4>2. p.id \in 1..n
        BY <2>4, <4>1
      <4>3. p \notin added
        BY <1>3, <1>4, <4>2
      <4> QED
        BY <1>eq, <1>6, <1>8, <2>4, <3>2, <4>3
    <3> QED
      BY <3>1, <3>2
  <2> QED
    BY <1>10, <2>1, <2>2, <2>3, <2>4
\* What is registered now.
<1>20. ASSUME Registered(c)', c # "stop"
       PROVE  /\ Connected(g) /\ r.ids = {n + 1} /\ n + 1 \in 1..(n + m)
              /\ \A p \in ltConn'[g].pending : p.id = n + 1 => p.req = LtRequest(ltCall[c].op, ltCall[c].slot)
              /\ \A p \in ltConn'[g].replies : p.id # n + 1
  <2>1. Connected(g)
    BY <1>eq, <1>2, <1>10, <1>11, <1>20 DEF Registered, Connected
  <2>2. \A p \in conn.pending \union conn.replies : p.id <= n
    BY <1>eq, <1>1, <1>2, <2>1 DEF LtBase, LtNumbered, n
  <2>3. reqs = <<LtRequest(ltCall[c].op, ltCall[c].slot)>>
    BY <1>eq, <1>1, <1>20 DEF LtBase, LtAsked
  <2> DEFINE x == LtRequest(ltCall[c].op, ltCall[c].slot)
  <2>4. reqs = <<x>>
    BY <2>3
  <2> HIDE DEF x
  <2>5. m = 1 /\ reqs[1] = x
    BY <2>4 DEF m
  <2>6. (n + 1)..(n + m) = {n + 1} /\ n + 1 \in 1..(n + m)
    BY <1>3, <2>5 DEF m, n
  <2>7. \A p \in added : p.req = x
    BY <1>4, <2>5
  <2>8. \A p \in conn.pending \union conn.replies : p.id # n + 1
    <3>1. \A p \in conn.pending \union conn.replies : p.id \in Nat
      BY <1>2 DEF LtConns, LtEntries
    <3> QED
      BY <1>3, <2>2, <3>1 DEF n
  <2> QED
    BY <1>6, <1>7, <1>8, <2>1, <2>6, <2>7, <2>8 DEF x
<1>21. LtNumbered'
  <2>1. ASSUME NEW h \in 1..Len(ltConn'), Connected(h)', NEW p \in ltConn'[h].pending \union ltConn'[h].replies
        PROVE  p.id <= ltConn'[h].next_id
    <3>1. Connected(h) /\ h \in 1..Len(ltConn)
      BY <1>8, <1>10, <2>1 DEF Connected
    <3>2. \A o \in ltConn[h].pending \union ltConn[h].replies : o.id <= ltConn[h].next_id
      BY <1>1, <3>1 DEF LtBase, LtNumbered
    <3>3. CASE h # g
      BY <1>8, <2>1, <3>1, <3>2, <3>3
    <3>4. CASE h = g
      <4>1. CASE p \in added
        BY <1>4, <1>6, <1>8, <3>4, <4>1
      <4>2. CASE p \in conn.pending \union conn.replies
        <5>1. p.id <= n /\ p.id \in Nat
          BY <1>eq, <1>2, <3>2, <3>4, <4>2 DEF n, LtConns, LtEntries
        <5>2. p.id <= n + m
          BY <1>3, <5>1 DEF n, m
        <5> QED
          BY <1>6, <1>8, <3>4, <5>2
      <4> QED
        BY <1>6, <1>8, <2>1, <3>4, <4>1, <4>2
    <3> QED
      BY <3>3, <3>4
  <2>2. ASSUME NEW d \in LtCalls, Registered(d)', d # "stop"
        PROVE  /\ \E x \in 1..ltConn'[ltCall'[d].conn].next_id : ltCall'[d].ids = {x}
               /\ \A p \in ltConn'[ltCall'[d].conn].pending \union ltConn'[ltCall'[d].conn].replies :
                     p.id \in ltCall'[d].ids => p.req.kind = ltCall'[d].op /\ p.req.slot = ltCall'[d].slot
    <3>1. CASE d = c
      <4>1. /\ r.ids = {n + 1} /\ n + 1 \in 1..(n + m)
            /\ \A p \in ltConn'[g].pending : p.id = n + 1 => p.req = LtRequest(ltCall[c].op, ltCall[c].slot)
            /\ \A p \in ltConn'[g].replies : p.id # n + 1
        BY <1>20, <2>2, <3>1
      <4>2. /\ LtRequest(ltCall[c].op, ltCall[c].slot).kind = ltCall[c].op
            /\ LtRequest(ltCall[c].op, ltCall[c].slot).slot = ltCall[c].slot
        BY DEF LtRequest
      <4>3. ltConn'[g].next_id = n + m /\ ltCall'[c].conn = g /\ ltCall'[c].ids = r.ids
        BY <1>eq, <1>6, <1>7, <1>8, <1>9
      <4> QED
        BY <1>11, <3>1, <4>1, <4>2, <4>3
    <3>2. CASE d # c
      <4> DEFINE h == ltCall[d].conn
      <4>1. /\ Registered(d) /\ ltCall'[d] = ltCall[d] /\ h \in 1..Len(ltConn)
            /\ \A p \in ltConn'[h].pending : p.id \in ltCall[d].ids => p \in ltConn[h].pending
            /\ ltConn'[h].replies = ltConn[h].replies
        BY <1>19, <2>2, <3>2
      <4>2. /\ \E x \in 1..ltConn[h].next_id : ltCall[d].ids = {x}
            /\ \A p \in ltConn[h].pending \union ltConn[h].replies :
                     p.id \in ltCall[d].ids => p.req.kind = ltCall[d].op /\ p.req.slot = ltCall[d].slot
        BY <1>1, <2>2, <4>1 DEF LtBase, LtNumbered
      <4>3. \A x \in 1..ltConn[h].next_id : x \in 1..ltConn'[h].next_id
        <5>1. CASE h # g
          BY <1>8, <4>1, <5>1
        <5>2. CASE h = g
          BY <1>eq, <1>3, <1>6, <1>8, <5>2 DEF n, m
        <5> QED
          BY <5>1, <5>2
      <4>4. ltCall'[d].conn = h
        BY <4>1
      <4> HIDE DEF h
      <4> QED
        BY <4>1, <4>2, <4>3, <4>4
    <3> QED
      BY <3>1, <3>2
  <2> QED
    BY <2>1, <2>2 DEF LtNumbered
<1>22. \A d : Gone(d) => Gone(d)'
  BY <1>same DEF Gone
<1>23. LtExecuted'
  <2>1. ASSUME NEW d \in LtCalls, ltCall'[d].op # "EXEC" \/ ltCall'[d].pc \in {"new", "send", "write"}
        PROVE  Gone(d)'
    <3>1. ltCall[d].op # "EXEC" \/ ltCall[d].pc \in {"new", "send", "write"}
      BY <1>11, <2>1
    <3> QED
      BY <1>1, <1>22, <3>1 DEF LtBase, LtExecuted
  <2> QED
    BY <1>same, <1>1, <2>1 DEF LtBase, LtExecuted
<1>24. LtBase'
  BY <1>14, <1>15, <1>16, <1>18, <1>21, <1>23 DEF LtBase
<1>25. ASSUME LtOrder
       PROVE  LtOrder'
  <2>1. LtFenced'
    <3>1. LtActive => (LtFailed(ltLtx)' <=> LtFailed(ltLtx))
      <4>1. LtActive => ltLtx \in 1..Len(ltConn)
        BY <1>12 DEF LtActive
      <4> QED
        BY <1>same, <1>10, <4>1 DEF LtFailed, Connected
    <3>2. ASSUME LtActive, ~LtFailed(ltLtx), NEW i \in 1..Len(ltOut), ltOut[i].op = "EXEC"
          PROVE  ltCall'[ltOut[i].who] = ltCall[ltOut[i].who]
      <4>1. ltCall[ltOut[i].who].pc \in {"wait", "dropped"}
        BY <1>25, <3>2 DEF LtOrder, LtFenced
      <4>2. ltOut[i] \in LtFrames
        BY <1>1, <3>2 DEF LtTyped
      <4>3. ltOut[i].who \in LtCalls
        BY <4>2 DEF LtFrames
      <4> QED
        BY <1>same, <1>9, <4>1, <4>3
    <3> QED
      BY <1>same, <1>17, <1>25, <3>1, <3>2 DEF LtOrder, LtFenced
  <2>2. LtShaken'
    <3>1. CASE c = "comm"
      <4>1. \A i \in 1..Len(ltOut') : ltOut'[i].op # "VERSION"
        BY <1>same, <1>25, <3>1 DEF LtOrder, LtShaken
      <4>2. ltCall'["comm"].pc = "write"
        BY <1>7, <1>9, <3>1
      <4>3. ASSUME Registered("comm")', NEW p \in ltConn'[ltCall'["comm"].conn].replies, p.id \in ltCall'["comm"].ids
            PROVE  FALSE
        <5>1. r.ids = {n + 1} /\ \A o \in ltConn'[g].replies : o.id # n + 1
          BY <1>20, <3>1, <4>3
        <5>2. ltCall'["comm"].conn = g /\ ltCall'["comm"].ids = r.ids
          BY <1>eq, <1>7, <1>9, <3>1
        <5> QED
          BY <4>3, <5>1, <5>2
      <4> QED
        BY <4>1, <4>2, <4>3 DEF LtShaken
    <3>2. CASE c # "comm"
      <4>1. ltCall'["comm"] = ltCall["comm"]
        BY <1>9, <3>2, NotCommands
      <4>2. Registered("comm")' => Registered("comm") /\ ltConn'[ltCall["comm"].conn].replies = ltConn[ltCall["comm"].conn].replies
        BY <1>19, <3>2, NotCommands
      <4> QED
        BY <1>same, <1>25, <4>1, <4>2 DEF LtOrder, LtShaken
    <3> QED
      BY <3>1, <3>2
  <2>3. LtOwned'
    <3> SUFFICES ASSUME NEW d \in LtCmds, ltCall'[d].op = "EXEC", Registered(d)'
                 PROVE  LtOwn(d)'
      BY DEF LtOwned
    <3>0. d \in LtCalls /\ d # "stop" /\ d # "comm"
      BY NotCommands
    <3>1. CASE d = c
      <4>1. /\ Connected(g) /\ r.ids = {n + 1}
            /\ \A p \in ltConn'[g].pending : p.id = n + 1 => p.req = LtRequest(ltCall[c].op, ltCall[c].slot)
            /\ \A p \in ltConn'[g].replies : p.id # n + 1
        BY <1>20, <3>0, <3>1
      <4>2. ltCall'[c].conn = g /\ ltCall'[c].ids = r.ids /\ ltCall'[c].slot = ltCall[c].slot /\ ltCall[c].op = "EXEC"
        BY <1>eq, <1>7, <1>9, <1>11, <3>1
      <4>3. g = ltLtx
        BY <1>eq, <1>1, <3>0, <3>1, <4>1 DEF LtBase, LtOneConn
      <4>4. LtActive /\ ~LtFailed(ltLtx)
        BY <1>same, <1>eq, <1>2, <4>1, <4>3 DEF LtActive, LtFailed
      <4>5. ltCall[c].slot # LtNoSlot
        <5>1. ltCall[c].slot \in LtSlotIds
          BY <1>1, <3>0, <3>1, <4>2 DEF LtBase, LtAsked
        <5> QED
          BY <5>1, LtxAssumption DEF LtNoSlot, LtSlotIds
      <4>6. ASSUME NEW i \in 1..Len(ltOut), ltOut[i].op = "EXEC", ltOut[i].slot = ltCall[c].slot
            PROVE  ltOut[i].who = c
        <5>1. ltCall[ltOut[i].who].slot = ltOut[i].slot
          BY <1>25, <4>4, <4>6 DEF LtOrder, LtFenced
        <5>2. ltOut[i] \in LtFrames
          BY <1>1, <4>6 DEF LtTyped
        <5>3. ltOut[i].who \in LtCalls
          BY <5>2 DEF LtFrames
        <5> QED
          BY <1>1, <4>5, <4>6, <5>1, <5>3 DEF LtBase, LtHeld
      <4>7. Gone(c)
        BY <1>same, <1>1 DEF LtBase, LtExecuted
      <4>8. \A i \in 1..Len(ltOut) : ~(ltOut[i].op = "EXEC" /\ ltOut[i].who = c)
        BY <4>7 DEF Gone, Traces
      <4>9. LtRequest(ltCall[c].op, ltCall[c].slot).got = {} /\ ~LtRequest(ltCall[c].op, ltCall[c].slot).echoed
        BY DEF LtRequest
      <4> QED
        BY <1>same, <3>1, <4>1, <4>2, <4>6, <4>8, <4>9 DEF LtOwn
    <3>2. CASE d # c
      <4> DEFINE h == ltCall[d].conn
      <4>1. /\ Registered(d) /\ ltCall'[d] = ltCall[d]
            /\ \A p \in ltConn'[h].pending : p.id \in ltCall[d].ids => p \in ltConn[h].pending
            /\ ltConn'[h].replies = ltConn[h].replies
        BY <1>19, <3>0, <3>2
      <4>2. LtOwn(d)
        BY <1>25, <4>1 DEF LtOrder, LtOwned
      <4>3. NoForeign(d)' <=> NoForeign(d)
        BY <1>same, <4>1 DEF NoForeign, Foreign
      <4>4. \A i : Foreign(d, i)' <=> Foreign(d, i)
        BY <1>same, <4>1 DEF Foreign
      <4> QED
        BY <1>same, <1>22, <4>1, <4>2, <4>3, <4>4 DEF LtOwn
    <3> QED
      BY <3>1, <3>2
  <2>4. LtEnded'
    BY <1>11, <1>22, <1>25, NotCommands DEF LtOrder, LtEnded
  <2> QED
    BY <2>1, <2>2, <2>3, <2>4 DEF LtOrder
<1> QED
  BY <1>same, <1>24, <1>25 DEF LtInv

\* feed(): a request keeps its kind and slot; a command is answered by a result
\* for its slot, after an echo for its slot; a handshake by a version.
LEMMA FeedKeeps ==
    ASSUME NEW req \in LtRequests, NEW f \in LtFrames
    PROVE  /\ feed(req, f).res \in {"none", "reply", "error"}
           /\ feed(req, f).req \in LtRequests
           /\ feed(req, f).req.kind = req.kind /\ feed(req, f).req.slot = req.slot
           /\ req.kind = "EXEC" /\ feed(req, f).res = "reply" =>
                 /\ f.op = "RESULT" /\ f.slot = req.slot /\ req.echoed
                 /\ feed(req, f).req.got = req.got \union {f.who}
           /\ req.kind = "EXEC" /\ feed(req, f).res = "none" =>
                 /\ feed(req, f).req.got = req.got
                 /\ feed(req, f).req.echoed => req.echoed \/ (f.op = "EXEC" /\ f.slot = req.slot)
           /\ req.kind = "VERSION" /\ feed(req, f).res = "reply" => f.op = "VERSION"
<1> DEFINE echo == [req EXCEPT !.echoed = TRUE]
           taken == [req EXCEPT !.got = @ \union {f.who}]
<1>1. echo \in LtRequests /\ echo.kind = req.kind /\ echo.slot = req.slot /\ echo.got = req.got
  BY DEF LtRequests
<1>2. /\ taken \in LtRequests /\ taken.kind = req.kind /\ taken.slot = req.slot
      /\ taken.got = req.got \union {f.who} /\ taken.echoed = req.echoed
  BY DEF LtRequests, LtFrames
<1>3. \/ feed(req, f) = [res |-> "none", req |-> req]
      \/ feed(req, f) = [res |-> "error", req |-> req]
      \/ feed(req, f) = [res |-> "reply", req |-> req] /\ (req.kind = "VERSION" => f.op = "VERSION") /\ req.kind # "EXEC"
      \/ feed(req, f) = [res |-> "none", req |-> echo] /\ (req.kind = "EXEC" => f.op = "EXEC" /\ f.slot = req.slot)
      \/ feed(req, f) = [res |-> "none", req |-> taken] /\ req.kind = "GET_FILE"
      \/ feed(req, f) = [res |-> "reply", req |-> taken] /\ req.kind = "EXEC" /\ f.op = "RESULT" /\ f.slot = req.slot /\ req.echoed
  <2>1. req.kind \in LtOps
    BY DEF LtRequests
  <2>2. CASE ~frame_targets_slot(req, f)
    BY <2>2 DEF feed
  <2>3. CASE frame_targets_slot(req, f)
    <3>0. req.kind = "EXEC" => f.slot = req.slot
      BY <2>3 DEF frame_targets_slot
    <3>1. CASE f.op = req.kind /\ req.kind \in {"VERSION", "KILL", "GET_FILE"}
      BY <2>3, <3>1 DEF feed
    <3>2. CASE f.op = req.kind /\ req.kind \in {"PING", "EXEC"}
      BY <2>3, <3>0, <3>2 DEF feed
    <3>3. CASE req.kind = "GET_FILE" /\ f.op = "DATA"
      BY <2>3, <3>3 DEF feed
    <3>4. CASE req.kind = "EXEC" /\ f.op = "RESULT"
      BY <2>3, <3>0, <3>4 DEF feed
    <3>5. CASE req.kind = "PING" /\ f.op = "PONG"
      BY <2>3, <3>5 DEF feed
    <3>6. CASE /\ f.op # req.kind /\ ~(req.kind = "GET_FILE" /\ f.op = "DATA")
               /\ ~(req.kind = "EXEC" /\ f.op = "RESULT") /\ ~(req.kind = "PING" /\ f.op = "PONG")
      BY <2>3, <3>6 DEF feed
    <3> QED
      BY <2>1, <3>1, <3>2, <3>3, <3>4, <3>5, <3>6 DEF LtOps
  <2> QED
    BY <2>2, <2>3
<1> HIDE DEF echo, taken
<1> QED
  BY <1>1, <1>2, <1>3

\* dispatch(): the requests of a connection keep ids, kinds and slots, and those
\* the frame answers become replies.
LEMMA DispatchKeeps ==
    ASSUME NEW conn \in LtConns, NEW f \in LtFrames, NEW q, q = Dispatched(conn, f)
    PROVE  /\ q \in LtConns /\ q.running = conn.running /\ q.desynced = conn.desynced
           /\ q.next_id = conn.next_id /\ (conn.fatal => q.fatal)
           /\ \A p \in q.pending : \E o \in conn.pending :
                 /\ p.id = o.id /\ p.req.kind = o.req.kind /\ p.req.slot = o.req.slot
                 /\ p = o \/ (feed(o.req, f).res = "none" /\ p.req = feed(o.req, f).req)
           /\ \A p \in q.replies : p \in conn.replies \/ \E o \in conn.pending :
                 /\ p.id = o.id /\ p.req.kind = o.req.kind /\ p.req.slot = o.req.slot
                 /\ feed(o.req, f).res = "reply" /\ p.req = feed(o.req, f).req
<1> DEFINE Refused == {p \in conn.pending : feed(p.req, f).res = "error"}
           Reached == {p \in conn.pending : \A r \in Refused : p.id < r.id}
           Done == {p \in Reached : feed(p.req, f).res = "reply"}
           After(p) == [p EXCEPT !.req = feed(p.req, f).req]
           pending == (conn.pending \ Reached) \union {After(p) : p \in Reached \ Done}
           replies == conn.replies \union {After(p) : p \in Done}
           fatal == conn.fatal \/ Refused # {}
<1>1. /\ conn.pending \in SUBSET LtEntries /\ conn.replies \in SUBSET LtEntries
      /\ conn.fatal \in BOOLEAN
  BY DEF LtConns
<1>2. q = [conn EXCEPT !.pending = pending, !.replies = replies, !.fatal = fatal]
  BY DEF Dispatched
<1>3. ASSUME NEW p \in conn.pending
      PROVE  /\ After(p) \in LtEntries /\ After(p).id = p.id /\ After(p).req = feed(p.req, f).req
             /\ After(p).req.kind = p.req.kind /\ After(p).req.slot = p.req.slot
             /\ p \in Reached \ Done => feed(p.req, f).res = "none"
  <2>1. p \in LtEntries
    BY <1>1
  <2>2. p.req \in LtRequests /\ p.id \in Nat
    BY <2>1 DEF LtEntries
  <2>3. feed(p.req, f).res \in {"none", "reply", "error"} /\ feed(p.req, f).req \in LtRequests
        /\ feed(p.req, f).req.kind = p.req.kind /\ feed(p.req, f).req.slot = p.req.slot
    BY <2>2, FeedKeeps
  <2>4. After(p) \in LtEntries /\ After(p).id = p.id /\ After(p).req = feed(p.req, f).req
    BY <2>1, <2>3 DEF LtEntries
  <2>5. p \in Reached => feed(p.req, f).res # "error"
    BY <2>2
  <2> QED
    BY <2>3, <2>4, <2>5
<1> HIDE DEF After
<1>4. pending \in SUBSET LtEntries /\ replies \in SUBSET LtEntries
  BY <1>1, <1>3
<1>5. \A p \in pending : \E o \in conn.pending :
                 /\ p.id = o.id /\ p.req.kind = o.req.kind /\ p.req.slot = o.req.slot
                 /\ p = o \/ (feed(o.req, f).res = "none" /\ p.req = feed(o.req, f).req)
  <2> SUFFICES ASSUME NEW p \in pending
               PROVE  \E o \in conn.pending :
                         /\ p.id = o.id /\ p.req.kind = o.req.kind /\ p.req.slot = o.req.slot
                         /\ p = o \/ (feed(o.req, f).res = "none" /\ p.req = feed(o.req, f).req)
    OBVIOUS
  <2>1. CASE p \in conn.pending
    BY <2>1
  <2>2. CASE p \notin conn.pending
    <3>1. PICK o \in Reached \ Done : p = After(o)
      BY <2>2
    <3> QED
      BY <1>3, <3>1
  <2> QED
    BY <2>1, <2>2
<1>6. \A p \in replies : p \in conn.replies \/ \E o \in conn.pending :
                 /\ p.id = o.id /\ p.req.kind = o.req.kind /\ p.req.slot = o.req.slot
                 /\ feed(o.req, f).res = "reply" /\ p.req = feed(o.req, f).req
  <2> SUFFICES ASSUME NEW p \in replies, p \notin conn.replies
               PROVE  \E o \in conn.pending :
                         /\ p.id = o.id /\ p.req.kind = o.req.kind /\ p.req.slot = o.req.slot
                         /\ feed(o.req, f).res = "reply" /\ p.req = feed(o.req, f).req
    OBVIOUS
  <2>1. PICK o \in Done : p = After(o)
    OBVIOUS
  <2> QED
    BY <1>3, <2>1
<1>7. fatal \in BOOLEAN /\ (conn.fatal => fatal)
  BY <1>1
<1> HIDE DEF pending, replies, fatal
<1>8. /\ q \in LtConns /\ q.running = conn.running /\ q.desynced = conn.desynced
      /\ q.next_id = conn.next_id /\ q.fatal = fatal /\ q.pending = pending /\ q.replies = replies
  BY <1>2, <1>4, <1>7 DEF LtConns
<1> QED
  BY <1>5, <1>6, <1>7, <1>8

\* A frame is read and fed to the requests that are pending.
LEMMA LtDispatchKeeps ==
    ASSUME LtInv, NEW g \in 1..Len(ltConn), LtPoll(g), Head(ltOut).op # "ERROR"
    PROVE  LtInv'
<1> DEFINE f == Head(ltOut)
           conn == ltConn[g]
           q == Dispatched(conn, f)
<1>1. /\ Connected(g) /\ ltOut # <<>> /\ ltOut' = Tail(ltOut) /\ ltConn' = [ltConn EXCEPT ![g] = q]
      /\ UNCHANGED <<ltLtx, ltSlots, ltCall, ltDone, ltRuns, ltStray>>
  BY DEF LtPoll
<1>2. LtBase /\ LtTyped /\ ltConn \in Seq(LtConns) /\ ltOut \in Seq(LtFrames)
  BY DEF LtInv, LtBase, LtTyped
<1>3. conn \in LtConns /\ f \in LtFrames /\ f = ltOut[1] /\ 1 \in 1..Len(ltOut)
  BY <1>1, <1>2
<1>4. /\ Len(ltOut) \in Nat /\ Len(ltOut') \in Nat /\ ltOut' \in Seq(LtFrames)
      /\ \A i \in 1..Len(ltOut') : i + 1 \in 1..Len(ltOut) /\ ltOut'[i] = ltOut[i + 1]
  <2>1. Suffix(1) /\ Len(ltOut) \in Nat
    BY <1>1, <1>2, LtSuffixes
  <2> QED
    BY <2>1 DEF Suffix
<1>eq. conn = ltConn[g]
  OBVIOUS
<1>def. q = Dispatched(conn, f)
  OBVIOUS
<1> HIDE DEF f, conn, q
<1>5. /\ q \in LtConns /\ q.running = conn.running /\ q.desynced = conn.desynced
      /\ q.next_id = conn.next_id /\ (conn.fatal => q.fatal)
  BY <1>3, <1>def, DispatchKeeps
<1>6. \A p \in q.pending : \E o \in conn.pending :
                 /\ p.id = o.id /\ p.req.kind = o.req.kind /\ p.req.slot = o.req.slot
                 /\ p = o \/ (feed(o.req, f).res = "none" /\ p.req = feed(o.req, f).req)
  BY <1>3, <1>def, DispatchKeeps
<1>7. \A p \in q.replies : p \in conn.replies \/ \E o \in conn.pending :
                 /\ p.id = o.id /\ p.req.kind = o.req.kind /\ p.req.slot = o.req.slot
                 /\ feed(o.req, f).res = "reply" /\ p.req = feed(o.req, f).req
  BY <1>3, <1>def, DispatchKeeps
<1>8. /\ ltConn' \in Seq(LtConns) /\ Len(ltConn') = Len(ltConn) /\ ltConn'[g] = q
      /\ \A h \in 1..Len(ltConn) : h # g => ltConn'[h] = ltConn[h]
  BY <1>1, <1>2, <1>5
<1>9. \A h \in 1..Len(ltConn) :
         /\ ltConn'[h].running = ltConn[h].running /\ ltConn'[h].desynced = ltConn[h].desynced
         /\ ltConn'[h].next_id = ltConn[h].next_id /\ (ltConn[h].fatal => ltConn'[h].fatal)
  BY <1>5, <1>8, <1>eq
\* What is pending or answered was pending or answered before.
<1>10. ASSUME NEW h \in 1..Len(ltConn), NEW p \in ltConn'[h].pending \union ltConn'[h].replies
       PROVE  \E o \in ltConn[h].pending \union ltConn[h].replies :
                 p.id = o.id /\ p.req.kind = o.req.kind /\ p.req.slot = o.req.slot
  <2>1. CASE h # g
    BY <1>8, <1>10, <2>1
  <2>2. CASE h = g
    <3>1. CASE p \in q.pending
      BY <1>6, <1>eq, <2>2, <3>1
    <3>2. CASE p \in q.replies
      BY <1>7, <1>eq, <2>2, <3>2
    <3> QED
      BY <1>8, <1>10, <2>2, <3>1, <3>2
  <2> QED
    BY <2>1, <2>2
<1>11. ltLtx \in 0..Len(ltConn) /\ \A d \in LtCalls : ltCall[d].conn \in 0..Len(ltConn)
  BY <1>2 DEF LtTyped
<1>12. \A d \in LtCalls : Sending(d) => ltCall[d].conn \in 1..Len(ltConn)
  BY <1>2 DEF LtBase, LtAsked
<1>13. \A d \in LtCalls : Registered(d)' => Registered(d) /\ ltCall[d].conn \in 1..Len(ltConn)
  <2> SUFFICES ASSUME NEW d \in LtCalls, Registered(d)'
               PROVE  Registered(d) /\ ltCall[d].conn \in 1..Len(ltConn)
    OBVIOUS
  <2>1. ltCall[d].pc \in {"write", "wait"} /\ ltConn'[ltCall[d].conn].running
    BY <1>1 DEF Registered, Connected
  <2>2. ltCall[d].conn \in 1..Len(ltConn)
    BY <1>12, <2>1 DEF Sending
  <2> QED
    BY <1>9, <2>1, <2>2 DEF Registered, Connected
<1>14. LtTyped'
  <2>1. ltLtx' \in 0..Len(ltConn') /\ \A d \in LtCalls : ltCall'[d].conn \in 0..Len(ltConn')
    BY <1>1, <1>8, <1>11
  <2> QED
    BY <1>1, <1>2, <1>4, <1>8, <2>1 DEF LtTyped
<1>15. LtAsked' /\ LtHeld'
  BY <1>1, <1>2, <1>8 DEF LtBase, LtAsked, LtHeld, Sending
<1>16. LtActive' <=> LtActive
  <2>1. ltLtx # 0 => ltLtx \in 1..Len(ltConn)
    BY <1>11
  <2> QED
    BY <1>1, <1>9, <2>1 DEF LtActive, Connected
<1>17. LtOneConn'
  <2>1. ASSUME NEW h \in 1..Len(ltConn'), Connected(h)'
        PROVE  h = ltLtx' \/ (ltCall'["comm"].pc # "new" /\ h = ltCall'["comm"].conn)
    <3>1. h \in 1..Len(ltConn) /\ Connected(h)
      BY <1>8, <1>9, <2>1 DEF Connected
    <3> QED
      BY <1>1, <1>2, <3>1 DEF LtBase, LtOneConn
  <2>2. ASSUME NEW d \in LtCalls \ {"comm"}, Sending(d)', ltConn'[ltCall'[d].conn].running
        PROVE  ltCall'[d].conn = ltLtx'
    <3>1. Sending(d) /\ ltCall'[d].conn = ltCall[d].conn
      BY <1>1, <2>2 DEF Sending
    <3>2. Connected(ltCall[d].conn)
      BY <1>9, <1>12, <2>2, <3>1 DEF Connected
    <3> QED
      BY <1>1, <1>2, <3>1, <3>2 DEF LtBase, LtOneConn
  <2>3. ltCall'["comm"].pc # "new" =>
           ltCall'["comm"].pc # "dropped" /\ ltCall'["comm"].conn \in 1..Len(ltConn') /\ ~LtActive'
    BY <1>1, <1>2, <1>8, <1>16 DEF LtBase, LtOneConn
  <2> QED
    BY <2>1, <2>2, <2>3 DEF LtOneConn, Connected
<1>18. LtNumbered'
  <2>1. ASSUME NEW h \in 1..Len(ltConn'), Connected(h)', NEW p \in ltConn'[h].pending \union ltConn'[h].replies
        PROVE  p.id <= ltConn'[h].next_id
    <3>1. h \in 1..Len(ltConn) /\ Connected(h)
      BY <1>8, <1>9, <2>1 DEF Connected
    <3>2. PICK o \in ltConn[h].pending \union ltConn[h].replies : p.id = o.id
      BY <1>10, <3>1
    <3>3. o.id <= ltConn[h].next_id
      BY <1>2, <3>1 DEF LtBase, LtNumbered
    <3> QED
      BY <1>9, <3>1, <3>2, <3>3
  <2>2. ASSUME NEW d \in LtCalls, Registered(d)', d # "stop"
        PROVE  /\ \E n \in 1..ltConn'[ltCall'[d].conn].next_id : ltCall'[d].ids = {n}
               /\ \A p \in ltConn'[ltCall'[d].conn].pending \union ltConn'[ltCall'[d].conn].replies :
                     p.id \in ltCall'[d].ids => p.req.kind = ltCall'[d].op /\ p.req.slot = ltCall'[d].slot
    <3> DEFINE h == ltCall[d].conn
    <3>1. Registered(d) /\ h \in 1..Len(ltConn) /\ ltCall'[d] = ltCall[d]
      BY <1>1, <1>13, <2>2
    <3>2. /\ \E n \in 1..ltConn[h].next_id : ltCall[d].ids = {n}
          /\ \A o \in ltConn[h].pending \union ltConn[h].replies :
                o.id \in ltCall[d].ids => o.req.kind = ltCall[d].op /\ o.req.slot = ltCall[d].slot
      BY <1>2, <2>2, <3>1 DEF LtBase, LtNumbered
    <3>3. ltConn'[h].next_id = ltConn[h].next_id /\ ltCall'[d].conn = h
      BY <1>9, <3>1
    <3> HIDE DEF h
    <3>4. ASSUME NEW p \in ltConn'[h].pending \union ltConn'[h].replies, p.id \in ltCall[d].ids
          PROVE  p.req.kind = ltCall[d].op /\ p.req.slot = ltCall[d].slot
      <4>1. PICK o \in ltConn[h].pending \union ltConn[h].replies :
               p.id = o.id /\ p.req.kind = o.req.kind /\ p.req.slot = o.req.slot
        BY <1>10, <3>1
      <4> QED
        BY <3>2, <3>4, <4>1
    <3> QED
      BY <3>1, <3>2, <3>3, <3>4
  <2> QED
    BY <2>1, <2>2 DEF LtNumbered
<1>19. \A d : Gone(d) => Gone(d)'
  BY <1>1, <1>4 DEF Gone
<1>20. LtExecuted'
  <2>1. \A d \in LtCalls : ltCall'[d].op # "EXEC" \/ ltCall'[d].pc \in {"new", "send", "write"} => Gone(d)'
    BY <1>1, <1>2, <1>19 DEF LtBase, LtExecuted
  <2>2. \A s, t \in LtSlotIds : ltRuns'[s] = ltRuns'[t] /\ ltRuns'[s] # "none" => s = t
    BY <1>1, <1>2 DEF LtBase, LtExecuted
  <2>3. \A i \in 1..Len(ltOut') : ltOut'[i].op = "RESULT" => \A s \in LtSlotIds : ltRuns'[s] # ltOut'[i].who
    BY <1>1, <1>2, <1>4 DEF LtBase, LtExecuted
  <2>4. ASSUME NEW i \in 1..Len(ltOut'), NEW j \in 1..Len(ltOut'),
               ltOut'[i].op = "RESULT", ltOut'[j].op \in Traces, ltOut'[j].who = ltOut'[i].who
        PROVE  j <= i
    <3>1. /\ i + 1 \in 1..Len(ltOut) /\ j + 1 \in 1..Len(ltOut)
          /\ ltOut'[i] = ltOut[i + 1] /\ ltOut'[j] = ltOut[j + 1]
      BY <1>4
    <3>2. j + 1 <= i + 1
      BY <1>2, <2>4, <3>1 DEF LtBase, LtExecuted
    <3> QED
      BY <1>4, <3>2
  <2> QED
    BY <2>1, <2>2, <2>3, <2>4 DEF LtExecuted
<1>21. LtBase'
  BY <1>14, <1>15, <1>17, <1>18, <1>20 DEF LtBase
<1>22. ASSUME LtOrder
       PROVE  LtOrder'
  <2>1. LtFenced'
    <3> SUFFICES ASSUME LtActive', ~LtFailed(ltLtx)', NEW i \in 1..Len(ltOut'), ltOut'[i].op = "EXEC"
                 PROVE  /\ ltCall'[ltOut'[i].who].pc \in {"wait", "dropped"}
                        /\ ltCall'[ltOut'[i].who].pc = "wait" => ltCall'[ltOut'[i].who].conn = ltLtx'
                        /\ ltCall'[ltOut'[i].who].slot = ltOut'[i].slot
      BY DEF LtFenced
    <3>1. LtActive /\ ltLtx \in 1..Len(ltConn) /\ ltLtx' = ltLtx
      BY <1>1, <1>11, <1>16 DEF LtActive
    <3>2. ~(ltConn'[ltLtx].fatal \/ ltConn'[ltLtx].desynced \/ ~ltConn'[ltLtx].running)
      BY <3>1 DEF LtFailed, Connected
    <3>3. ~LtFailed(ltLtx)
      BY <1>9, <3>1, <3>2 DEF LtFailed, Connected
    <3>4. i + 1 \in 1..Len(ltOut) /\ ltOut'[i] = ltOut[i + 1]
      BY <1>4
    <3>5. /\ ltCall[ltOut[i + 1].who].pc \in {"wait", "dropped"}
          /\ ltCall[ltOut[i + 1].who].pc = "wait" => ltCall[ltOut[i + 1].who].conn = ltLtx
          /\ ltCall[ltOut[i + 1].who].slot = ltOut[i + 1].slot
      BY <1>22, <3>1, <3>3, <3>4 DEF LtOrder, LtFenced
    <3> QED
      BY <1>1, <3>1, <3>4, <3>5
  <2>2. LtEnded'
    BY <1>1, <1>19, <1>22 DEF LtOrder, LtEnded
  <2>3. LtShaken'
    <3>1. ASSUME NEW i \in 1..Len(ltOut'), ltOut'[i].op = "VERSION"
          PROVE  /\ ltCall'["comm"].pc \in {"wait", "err"}
                 /\ \A j \in 1..Len(ltOut') : ltOut'[j].op \in {"EXEC", "VERSION"} => j <= i
      <4>1. i + 1 \in 1..Len(ltOut) /\ ltOut[i + 1].op = "VERSION"
        BY <1>4, <3>1
      <4>2. /\ ltCall["comm"].pc \in {"wait", "err"}
            /\ \A j \in 1..Len(ltOut) : ltOut[j].op \in {"EXEC", "VERSION"} => j <= i + 1
        BY <1>22, <4>1 DEF LtOrder, LtShaken
      <4>3. ASSUME NEW j \in 1..Len(ltOut'), ltOut'[j].op \in {"EXEC", "VERSION"}
            PROVE  j <= i
        <5>1. j + 1 <= i + 1
          BY <1>4, <4>2, <4>3
        <5> QED
          BY <1>4, <5>1
      <4> QED
        BY <1>1, <4>2, <4>3
    <3>2. \A i \in 1..Len(ltOut) : ltOut[i].op = "VERSION" =>
             /\ ltCall["comm"].pc \in {"wait", "err"}
             /\ \A j \in 1..Len(ltOut) : ltOut[j].op \in {"EXEC", "VERSION"} => j <= i
      BY <1>22 DEF LtOrder, LtShaken
    <3>3. ASSUME \/ ltCall["comm"].pc = "ok"
                 \/ Registered("comm") /\ \E p \in ltConn[ltCall["comm"].conn].replies : p.id \in ltCall["comm"].ids
          PROVE  ltCall["comm"].pc # "write" /\ \A i \in 1..Len(ltOut) : ltOut[i].op \notin {"EXEC", "VERSION"}
      BY <1>22, <3>3 DEF LtOrder, LtShaken
    <3>4. ASSUME Registered("comm")', NEW p \in ltConn'[ltCall["comm"].conn].replies, p.id \in ltCall["comm"].ids,
                 p \notin ltConn[ltCall["comm"].conn].replies
          PROVE  f.op = "VERSION"
      <4>1. Registered("comm") /\ ltCall["comm"].conn \in 1..Len(ltConn)
        BY <1>13, <3>4, NotCommands
      <4>2. ltCall["comm"].conn = g
        BY <1>8, <3>4, <4>1
      <4>3. PICK o \in conn.pending : p.id = o.id /\ feed(o.req, f).res = "reply"
        BY <1>7, <1>8, <1>eq, <3>4, <4>2
      <4>4. o.req.kind = ltCall["comm"].op
        BY <1>2, <1>eq, <3>4, <4>1, <4>2, <4>3, NotCommands DEF LtBase, LtNumbered
      <4>5. ltCall["comm"].op = "VERSION"
        BY <1>2, <4>1, NotCommands DEF LtBase, LtAsked, Sending, Registered
      <4>6. o.req \in LtRequests
        BY <1>3, <4>3 DEF LtConns, LtEntries
      <4> QED
        BY <1>3, <4>3, <4>4, <4>5, <4>6, FeedKeeps
    <3>5. ASSUME \/ ltCall["comm"].pc = "ok"
                 \/ Registered("comm")' /\ \E p \in ltConn'[ltCall["comm"].conn].replies : p.id \in ltCall["comm"].ids
          PROVE  ltCall["comm"].pc # "write" /\ \A i \in 1..Len(ltOut') : ltOut'[i].op \notin {"EXEC", "VERSION"}
      <4>1. CASE f.op = "VERSION"
        <5>1. /\ ltCall["comm"].pc \in {"wait", "err"}
              /\ \A j \in 1..Len(ltOut) : ltOut[j].op \in {"EXEC", "VERSION"} => j <= 1
          BY <1>3, <3>2, <4>1
        <5> QED
          BY <1>4, <5>1
      <4>2. CASE f.op # "VERSION"
        <5>1. ltCall["comm"].pc # "write" /\ \A i \in 1..Len(ltOut) : ltOut[i].op \notin {"EXEC", "VERSION"}
          BY <1>13, <3>3, <3>4, <3>5, <4>2, NotCommands
        <5> QED
          BY <1>4, <5>1
      <4> QED
        BY <4>1, <4>2
    <3> QED
      BY <1>1, <3>1, <3>5 DEF LtShaken
  <2>4. LtOwned'
    <3> SUFFICES ASSUME NEW d \in LtCmds, ltCall'[d].op = "EXEC", Registered(d)'
                 PROVE  LtOwn(d)'
      BY DEF LtOwned
    <3> DEFINE h == ltCall[d].conn
    <3>0. d \in LtCalls /\ d # "stop" /\ ltCall' = ltCall /\ ltCall[d].op = "EXEC"
      BY <1>1, NotCommands
    <3>1. Registered(d) /\ h \in 1..Len(ltConn) /\ LtOwn(d)
      BY <1>13, <1>22, <3>0 DEF LtOrder, LtOwned
    <3>2. NoForeign(d) => NoForeign(d)'
      BY <1>1, <1>4 DEF NoForeign, Foreign
    <3>3. \A o \in ltConn[h].pending : o.id \in ltCall[d].ids =>
             o.req \in LtRequests /\ o.req.kind = "EXEC" /\ o.req.slot = ltCall[d].slot
      <4>1. \A o \in ltConn[h].pending : o.id \in ltCall[d].ids => o.req.kind = ltCall[d].op /\ o.req.slot = ltCall[d].slot
        BY <1>2, <3>0, <3>1 DEF LtBase, LtNumbered
      <4>2. ltConn[h] \in LtConns
        BY <1>2, <3>1
      <4>3. \A o \in ltConn[h].pending : o.req \in LtRequests
        BY <4>2 DEF LtConns, LtEntries
      <4> QED
        BY <3>0, <4>1, <4>3
    <3>4. ASSUME NEW i \in 1..Len(ltOut'), ltOut'[i].op = "EXEC", ltOut'[i].slot = ltCall[d].slot
          PROVE  ltOut'[i].who = d
      BY <1>4, <3>1, <3>4 DEF LtOwn
    <3>5. ASSUME NEW i \in 1..Len(ltOut'), ltOut'[i].op = "EXEC", ltOut'[i].who = d
          PROVE  ltRuns'[ltCall[d].slot] \in {d, "none"} /\ \A j \in 1..Len(ltOut') : Foreign(d, j)' => j < i
      <4>1. i + 1 \in 1..Len(ltOut) /\ ltOut[i + 1].op = "EXEC" /\ ltOut[i + 1].who = d
        BY <1>4, <3>5
      <4>2. ltRuns[ltCall[d].slot] \in {d, "none"} /\ \A j \in 1..Len(ltOut) : Foreign(d, j) => j < i + 1
        BY <3>1, <4>1 DEF LtOwn
      <4>3. \A j \in 1..Len(ltOut') : Foreign(d, j)' => Foreign(d, j + 1)
        BY <1>4, <3>0 DEF Foreign
      <4>4. ASSUME NEW j \in 1..Len(ltOut'), Foreign(d, j)'
            PROVE  j < i
        <5>1. j + 1 < i + 1
          BY <1>4, <4>2, <4>3, <4>4
        <5> QED
          BY <1>4, <5>1
      <4> QED
        BY <1>1, <4>2, <4>4
    <3>6. ASSUME NEW p \in ltConn'[h].pending, p.id \in ltCall[d].ids
          PROVE  p.req.got = {} /\ (p.req.echoed => ltCall[d].pc = "wait" /\ NoForeign(d)')
      <4>1. CASE p \in ltConn[h].pending
        BY <3>1, <3>2, <3>6, <4>1 DEF LtOwn
      <4>2. CASE p \notin ltConn[h].pending
        <5>1. h = g
          BY <1>8, <3>1, <3>6, <4>2
        <5>2. PICK o \in ltConn[h].pending : p.id = o.id /\ feed(o.req, f).res = "none" /\ p.req = feed(o.req, f).req
          BY <1>6, <1>8, <1>eq, <3>6, <4>2, <5>1
        <5>3. /\ o.req.got = {} /\ (o.req.echoed => ltCall[d].pc = "wait" /\ NoForeign(d))
              /\ o.req \in LtRequests /\ o.req.kind = "EXEC" /\ o.req.slot = ltCall[d].slot
          BY <3>1, <3>3, <3>6, <5>2 DEF LtOwn
        <5>4. p.req.got = {} /\ (p.req.echoed => o.req.echoed \/ (f.op = "EXEC" /\ f.slot = ltCall[d].slot))
          BY <1>3, <5>2, <5>3, FeedKeeps
        <5>5. ASSUME f.op = "EXEC", f.slot = ltCall[d].slot
              PROVE  ltCall[d].pc = "wait" /\ NoForeign(d)
          <6>1. f.who = d
            BY <1>3, <3>1, <5>5 DEF LtOwn
          <6>2. ltRuns[ltCall[d].slot] \in {d, "none"} /\ \A j \in 1..Len(ltOut) : Foreign(d, j) => j < 1
            BY <1>3, <3>1, <5>5, <6>1 DEF LtOwn
          <6>3. NoForeign(d)
            BY <1>4, <6>2 DEF NoForeign
          <6>4. ~Gone(d)
            BY <1>3, <5>5, <6>1 DEF Gone, Traces
          <6>5. ltCall[d].pc = "wait"
            BY <1>2, <3>0, <3>1, <6>4 DEF Registered, LtBase, LtExecuted
          <6> QED
            BY <6>3, <6>5
        <5> QED
          BY <3>2, <5>3, <5>4, <5>5
      <4> QED
        BY <4>1, <4>2
    <3>7. ASSUME NEW p \in ltConn'[h].replies, p.id \in ltCall[d].ids
          PROVE  p.req.got = {d} /\ ltCall[d].pc = "wait" /\ Gone(d)'
      <4>1. CASE p \in ltConn[h].replies
        BY <1>19, <3>1, <3>7, <4>1 DEF LtOwn
      <4>2. CASE p \notin ltConn[h].replies
        <5>1. h = g
          BY <1>8, <3>1, <3>7, <4>2
        <5>2. PICK o \in ltConn[h].pending : p.id = o.id /\ feed(o.req, f).res = "reply" /\ p.req = feed(o.req, f).req
          BY <1>7, <1>8, <1>eq, <3>7, <4>2, <5>1
        <5>3. /\ o.req.got = {} /\ (o.req.echoed => ltCall[d].pc = "wait" /\ NoForeign(d))
              /\ o.req \in LtRequests /\ o.req.kind = "EXEC" /\ o.req.slot = ltCall[d].slot
          BY <3>1, <3>3, <3>7, <5>2 DEF LtOwn
        <5>4. f.op = "RESULT" /\ f.slot = ltCall[d].slot /\ o.req.echoed /\ p.req.got = {f.who}
          BY <1>3, <5>2, <5>3, FeedKeeps
        <5>5. f.who = d
          BY <1>3, <5>3, <5>4 DEF NoForeign, Foreign
        <5>6. \A s \in LtSlotIds : ltRuns[s] # d
          BY <1>2, <1>3, <5>4, <5>5 DEF LtBase, LtExecuted
        <5>7. \A j \in 1..Len(ltOut) : ltOut[j].op \in Traces /\ ltOut[j].who = d => j <= 1
          BY <1>2, <1>3, <5>4, <5>5 DEF LtBase, LtExecuted
        <5>8. \A i \in 1..Len(ltOut') : ltOut'[i].op \in Traces => ltOut'[i].who # d
          BY <1>4, <5>7
        <5>9. Gone(d)'
          BY <1>1, <5>6, <5>8 DEF Gone
        <5> QED
          BY <5>3, <5>4, <5>5, <5>9
      <4> QED
        BY <4>1, <4>2
    <3>8. ltCall'[d].conn = h /\ ltCall'[d] = ltCall[d]
      BY <3>0
    <3> HIDE DEF h
    <3> QED
      BY <3>4, <3>5, <3>6, <3>7, <3>8 DEF LtOwn
  <2> QED
    BY <2>1, <2>2, <2>3, <2>4 DEF LtOrder
<1> QED
  BY <1>1, <1>21, <1>22 DEF LtInv

\* Before the first connection nothing is typed wrongly, sent or answered.
LEMMA LtInvInit == LtInit => LtInv
<1> SUFFICES ASSUME LtInit PROVE LtInv
  OBVIOUS
<1>1. LtNoSlot \in 0..LtSlots
  BY LtxAssumption DEF LtNoSlot
<1>2. LtNew \in LtCallRecords /\ LtNew.pc = "new" /\ LtNew.op = "none" /\ LtNew.conn = 0 /\ LtNew.slot = LtNoSlot
  BY <1>1 DEF LtNew, LtCallRecords, LtPcs
<1>3. ltOut = <<>> /\ ltConn = <<>> /\ ltLtx = 0 /\ \A c \in LtCalls : ltCall[c] = LtNew
  BY DEF LtInit
<1>4. ltRuns \in [LtSlotIds -> {"none"}]
  BY DEF LtInit, LtSlotIds
<1>5. ltOut \in Seq(LtFrames) /\ ltConn \in Seq(LtConns) /\ Len(ltConn) = 0 /\ Len(ltOut) = 0
  BY <1>3
<1>6. LtTyped
  BY <1>2, <1>3, <1>4, <1>5 DEF LtInit, LtTyped
<1>7. LtAsked /\ LtHeld
  BY <1>2, <1>3 DEF LtAsked, LtHeld, Sending
<1>8. LtOneConn /\ LtNumbered
  BY <1>2, <1>3, <1>5, NotCommands DEF LtOneConn, LtNumbered, Sending, Registered
<1>9. \A c \in LtCalls : Gone(c)
  BY <1>4, <1>5, NotCommands DEF Gone
<1>10. LtExecuted
  BY <1>4, <1>5, <1>9 DEF LtExecuted
<1>11. LtOrder
  BY <1>2, <1>3, <1>5, NotCommands DEF LtOrder, LtFenced, LtShaken, LtOwned, LtEnded, LtActive, Registered
<1> QED
  BY <1>6, <1>7, <1>8, <1>10, <1>11 DEF LtBase, LtInv

\* send() and gather(), whichever call makes them.
LEMMA LtExchangesKeep ==
    ASSUME LtInv, NEW c \in LtCalls, LtRegister(c) \/ LtWrite(c) \/ LtGather(c)
    PROVE  LtInv'
<1>1. CASE LtRegister(c)
  <2>1. CASE Registers(c)
    BY <2>1, LtRegisteredKeeps
  <2>2. CASE ~Registers(c)
    <3>1. /\ ltCall[c].pc = "send" /\ LtFailed(ltCall[c].conn) /\ LtEnd(c, "err")
          /\ UNCHANGED <<ltLtx, ltConn, ltSlots, ltDone, ltRuns, ltOut, ltStray>>
      BY <1>1, <2>2 DEF LtRegister, Registers
    <3> QED
      BY <3>1, LtRefusedKeeps
  <2> QED
    BY <2>1, <2>2
<1>2. CASE LtWrite(c)
  <2>1. ltCall[c].pc = "write" /\ UNCHANGED <<ltLtx, ltSlots, ltDone>>
    BY <1>2 DEF LtWrite
  <2>2. CASE /\ ltCall' = [ltCall EXCEPT ![c].pc = "wait"]
             /\ Serve(c) \/ UNCHANGED <<ltRuns, ltOut>>
             /\ ltStray' = IF ltCall[c].op = "EXEC" /\ ~Connected(ltCall[c].conn) THEN ltStray \union {c} ELSE ltStray
             /\ UNCHANGED ltConn
    BY <2>1, <2>2, LtWrittenKeeps
  <2>3. CASE /\ LtEnd(c, "err") /\ ltConn' = [ltConn EXCEPT ![ltCall[c].conn].desynced = TRUE]
             /\ UNCHANGED <<ltRuns, ltOut, ltStray>>
    BY <2>1, <2>3, LtUnwrittenKeeps
  <2> QED
    BY <1>2, <2>2, <2>3 DEF LtWrite
<1>3. CASE LtGather(c)
  <2> DEFINE mine == {r \in ltConn[ltCall[c].conn].replies : r.id \in ltCall[c].ids}
  <2>1. ltCall[c].pc = "wait" /\ UNCHANGED <<ltLtx, ltSlots, ltDone, ltRuns, ltOut, ltStray>>
    BY <1>3 DEF LtGather
  <2>2. CASE LtFailed(ltCall[c].conn) /\ LtEnd(c, "err") /\ UNCHANGED ltConn
    BY <2>1, <2>2, LtUnansweredKeeps
  <2>3. CASE /\ ~LtFailed(ltCall[c].conn) /\ Cardinality(mine) = Cardinality(ltCall[c].ids)
             /\ ltConn' = [ltConn EXCEPT ![ltCall[c].conn].replies = @ \ mine]
             /\ LtEndWith(c, "ok", IF c = "stop" THEN ltCall[c].got ELSE UNION {r.req.got : r \in mine})
    BY <2>1, <2>3, LtAnsweredKeeps
  <2> QED
    BY <1>3, <2>2, <2>3 DEF LtGather
<1> QED
  BY <1>1, <1>2, <1>3

\* A step of other channels, or of none.
LEMMA LtRests ==
    ASSUME LtInv, UNCHANGED ltVars
    PROVE  LtInv'
<1>1. UNCHANGED <<ltLtx, ltConn, ltSlots, ltCall, ltDone, ltRuns, ltOut, ltStray>>
  BY DEF ltVars
<1>2. ConnsSettle
  BY <1>1 DEF ConnsSettle, LtInv, LtBase, LtTyped, LtFailed, Connected
<1> QED
  BY <1>1, <1>2, ConnsKeep

\* No step of the LTX channel mixes up results.
LEMMA LtInvStep ==
    ASSUME LtInv, [LtNext]_ltVars
    PROVE  LtInv'
<1>1. CASE UNCHANGED ltVars
  BY <1>1, LtRests
<1>2. ASSUME NEW c \in LtCalls, LtRegister(c) \/ LtWrite(c) \/ LtGather(c)
      PROVE  LtInv'
  BY <1>2, LtExchangesKeep
<1>3. ASSUME NEW c \in LtCmds, release_slot(c)
      PROVE  LtInv'
  BY <1>3, ReleaseKeeps
<1>4. ASSUME NEW g \in 1..Len(ltConn), LtPoll(g) \/ LtPollEnd(g)
      PROVE  LtInv'
  BY <1>4, LtErrorReadKeeps, LtDispatchKeeps, LtPollEndKeeps
<1>5. CASE LtStopEnd
  BY <1>5, LtStopEndKeeps
<1>6. CASE LtConnect \/ kill_in_flight \/ LtPeerFails
  BY <1>6, LtConnectKeeps, KillKeeps, LtPeerFailsKeeps
<1>7. CASE LtHandshake
  BY <1>7, LtPublishKeeps, LtHandshakeFailsKeeps
<1>8. ASSUME NEW c \in LtCmds \union LtProbes, LtBegin(c)
      PROVE  LtInv'
  BY <1>8, LtBeginKeeps
<1>9. ASSUME NEW c \in LtCalls, LtDrop(c)
      PROVE  LtInv'
  BY <1>9, LtDropKeeps
<1>10. ASSUME NEW s \in 0..(LtSlots - 1), LtPeerFinish(s)
       PROVE  LtInv'
  BY <1>10, LtPeerFinishKeeps DEF LtSlotIds
<1> QED
  BY <1>1, <1>2, <1>3, <1>4, <1>5, <1>6, <1>7, <1>8, <1>9, <1>10 DEF LtNext, LtStep

\* Every step of the run is a step of the LTX channel, or of none.
LEMMA LtChannelSteps == [Next]_vars => [LtNext]_ltVars
  BY DEF Next, Attach, ChannelNext, vars

\* The LTX channel keeps its invariant.
LEMMA LtxInvariant == FairSpec => []LtInv
<1>1. Init => LtInv
  BY LtInvInit DEF Init
<1>2. LtInv /\ [Next]_vars => LtInv'
  BY LtInvStep, LtChannelSteps
<1> QED
  BY <1>1, <1>2, PTL DEF FairSpec

\* A command that succeeded over LTX has the result and the output of its own
\* execution and of no other, unless a command was written after its connection ended
\* or the answer to a handshake given up stayed in the FIFO: for any number of
\* commands, probes, slots and connections, whatever the executor refuses or delays.
THEOREM LtxResultsAreOwn == FairSpec => []LtxOwnUnlessStray
<1>1. LtInv => LtxOwnUnlessStray
  BY DEF LtInv, LtOrder, LtEnded, LtxOwnUnlessStray, LtxOwnResult
<1> QED
  BY <1>1, LtxInvariant, PTL

\* The invariant is typed as the runs check it.
LEMMA LtInvTypes == LtInv => LtTypeOK
<1> SUFFICES ASSUME LtInv PROVE LtTypeOK
  OBVIOUS
<1>1. LtTyped
  BY DEF LtInv, LtBase
<1>2. ASSUME NEW c \in LtCalls
      PROVE  /\ ltCall[c].pc \in {"new", "send", "write", "wait", "ok", "err", "dropped"}
             /\ ltCall[c].conn \in 0..Len(ltConn) /\ ltCall[c].slot \in 0..LtSlots
  BY <1>1 DEF LtTyped, LtCallRecords, LtPcs
<1> QED
  BY <1>1, <1>2 DEF LtTyped, LtTypeOK, LtSlotIds

-----------------------------------------------------------------------------
(* The channel of the run. *)

ChKinds == Kinds \union {"error"}
ChInstances == [kind : ChKinds, name : STRING \union Kinds]
ChInstance(config, built) == [kind |-> lookup_template(config.name, built).kind, name |-> config.id]

ChBuilt(configs, n, f) ==
    f = [k \in 0..n |-> IF k = 0 THEN <<>> ELSE Append(f[k - 1], ChInstance(configs[k], f[k - 1]))]

\* The function behind Instances exists: one instance after the other is built.
LEMMA ChBuiltUnfolds ==
    ASSUME NEW configs, NEW n \in Nat
    PROVE  \E f : ChBuilt(configs, n, f)
<1> DEFINE Bad == {m \in Nat : ~ \E f : ChBuilt(configs, m, f)}
<1>1. ASSUME Bad # {}
      PROVE  FALSE
  <2>1. PICK m \in Bad : \A k \in Bad : m <= k
    BY <1>1, LeastNat
  <2>2. m # 0
    <3> DEFINE f == [k \in 0..0 |-> <<>>]
    <3>1. ChBuilt(configs, 0, f)
      BY DEF ChBuilt
    <3> QED
      BY <3>1
  <2>3. m \in Nat /\ ~ \E f : ChBuilt(configs, m, f)
    BY <2>1
  <2>4. PICK g : ChBuilt(configs, m - 1, g)
    <3>1. m - 1 \in Nat /\ ~(m <= m - 1)
      BY <2>2, <2>3
    <3> QED
      BY <2>1, <3>1
  <2> DEFINE last == Append(g[m - 1], ChInstance(configs[m], g[m - 1]))
             f == [k \in 0..m |-> IF k = m THEN last ELSE g[k]]
  <2>5. \A k \in 0..(m - 1) : g[k] = IF k = 0 THEN <<>> ELSE Append(g[k - 1], ChInstance(configs[k], g[k - 1]))
    BY <2>4 DEF ChBuilt
  <2>6. (\A k \in 0..(m - 1) : f[k] = g[k]) /\ f[m] = last
    <3>1. m \in 0..m /\ \A k \in 0..(m - 1) : k \in 0..m /\ k # m
      BY <2>3
    <3> HIDE DEF last
    <3> QED
      BY <3>1, Zenon
  <2>7. \A k \in 0..m : f[k] = IF k = 0 THEN <<>> ELSE Append(f[k - 1], ChInstance(configs[k], f[k - 1]))
    <3> HIDE DEF f
    <3> SUFFICES ASSUME NEW k \in 0..m
                 PROVE  f[k] = IF k = 0 THEN <<>> ELSE Append(f[k - 1], ChInstance(configs[k], f[k - 1]))
      OBVIOUS
    <3>1. CASE k = m
      <4>1. m - 1 \in 0..(m - 1)
        BY <2>2, <2>3
      <4> QED
        BY <2>2, <2>6, <3>1, <4>1
    <3>2. CASE k = 0
      BY <2>2, <2>3, <2>5, <2>6, <3>2
    <3>3. CASE k # m /\ k # 0
      <4>1. k \in 0..(m - 1) /\ k - 1 \in 0..(m - 1)
        BY <2>3, <3>3
      <4>2. f[k] = g[k] /\ f[k - 1] = g[k - 1]
        BY <2>6, <4>1
      <4> QED
        BY <2>5, <3>3, <4>1, <4>2
    <3> QED
      BY <3>1, <3>2, <3>3
  <2>8. ChBuilt(configs, m, f)
    BY <2>7 DEF ChBuilt
  <2> QED
    BY <2>3, <2>8
<1> QED
  BY <1>1

\* Looking a name up gives a kind there is, or the error.
LEMMA ChLookups ==
    ASSUME NEW instances \in Seq(ChInstances), NEW name
    PROVE  /\ FindChannel(instances, name).kind \in ChKinds
           /\ lookup_template(name, instances).kind \in ChKinds
<1>1. FindChannel(instances, name).kind \in ChKinds
  <2>1. CASE \E k \in DOMAIN instances : instances[k].name = name
    <3> DEFINE Named == {k \in 1..Len(instances) : instances[k].name = name}
               First(k) == k \in DOMAIN instances /\ instances[k].name = name /\ \A j \in 1..(k - 1) : instances[j].name # name
    <3>1. PICK n \in Named : \A k \in Named : n <= k
      <4>1. Named # {} /\ Named \subseteq Nat
        BY <2>1
      <4> QED
        BY <4>1, LeastNat
    <3>2. n \in DOMAIN instances /\ instances[n].name = name /\ \A j \in 1..(n - 1) : instances[j].name # name
      BY <3>1
    <3> DEFINE m == CHOOSE k \in DOMAIN instances :
                       instances[k].name = name /\ \A j \in 1..(k - 1) : instances[j].name # name
    <3>3. m \in DOMAIN instances
      BY <3>2
    <3>4. FindChannel(instances, name) = instances[m]
      BY <2>1 DEF FindChannel
    <3>5. instances[m] \in ChInstances
      BY <3>3
    <3> QED
      BY <3>4, <3>5 DEF ChInstances
  <2>2. CASE ~ \E k \in DOMAIN instances : instances[k].name = name
    BY <2>2 DEF FindChannel, NoInstance, ChKinds
  <2> QED
    BY <2>1, <2>2
<1>2. builtin_template(name).kind \in ChKinds
  BY DEF builtin_template, NoInstance, ChKinds
<1> QED
  BY <1>1, <1>2 DEF lookup_template

\* What is built from the options is a sequence of instances.
LEMMA ChInstancesTyped ==
    ASSUME NEW configs \in ComOptions
    PROVE  setup_channels(configs) \in Seq(ChInstances)
<1> DEFINE built[n \in 0..Len(configs)] ==
             IF n = 0 THEN <<>>
             ELSE Append(built[n - 1], [kind |-> lookup_template(configs[n].name, built[n - 1]).kind,
                                        name |-> configs[n].id])
<1>1. configs \in Seq([name : STRING, id : STRING]) /\ Len(configs) \in Nat
  BY ChannelsAssumption
<1>2. built = [n \in 0..Len(configs) |->
                 IF n = 0 THEN <<>>
                 ELSE Append(built[n - 1], [kind |-> lookup_template(configs[n].name, built[n - 1]).kind,
                                            name |-> configs[n].id])]
  <2>1. \E f : ChBuilt(configs, Len(configs), f)
    BY <1>1, ChBuiltUnfolds
  <2> QED
    BY <2>1, Zenon DEF ChBuilt, ChInstance
<1>3. Instances[configs] = built[Len(configs)]
  BY DEF Instances
<1> HIDE DEF built
<1> DEFINE Bad == {n \in 0..Len(configs) : built[n] \notin Seq(ChInstances)}
<1>4. ASSUME Bad # {}
      PROVE  FALSE
  <2>1. PICK m \in Bad : \A k \in Bad : m <= k
    <3>1. Bad \subseteq Nat
      OBVIOUS
    <3> QED
      BY <1>4, <3>1, LeastNat
  <2>2. m # 0
    BY <1>1, <1>2, <2>1
  <2>3. m \in 1..Len(configs) /\ m - 1 \in 0..Len(configs) /\ ~(m <= m - 1)
    BY <1>1, <2>1, <2>2
  <2>4. built[m - 1] \in Seq(ChInstances)
    BY <2>1, <2>3
  <2>5. built[m] = Append(built[m - 1], [kind |-> lookup_template(configs[m].name, built[m - 1]).kind,
                                         name |-> configs[m].id])
    BY <1>2, <2>1, <2>2
  <2>6. [kind |-> lookup_template(configs[m].name, built[m - 1]).kind, name |-> configs[m].id] \in ChInstances
    <3>1. lookup_template(configs[m].name, built[m - 1]).kind \in ChKinds
      BY <2>4, ChLookups
    <3>2. configs[m].id \in STRING
      <4> DEFINE Options == [name : STRING, id : STRING]
      <4>1. configs \in Seq(Options) /\ \A option \in Options : option.id \in STRING
        BY <1>1
      <4> HIDE DEF Options
      <4> QED
        BY <2>3, <4>1
    <3> QED
      BY <3>1, <3>2 DEF ChInstances
  <2>7. built[m] \in Seq(ChInstances)
    BY <2>4, <2>5, <2>6
  <2> QED
    BY <2>1, <2>7
<1>5. Instances[configs] \in Seq(ChInstances)
  <2>1. Len(configs) \in 0..Len(configs)
    BY <1>1
  <2> QED
    BY <1>3, <1>4, <2>1
<1>6. <<builtin_template("shell")>> \in Seq(ChInstances)
  <2>1. builtin_template("shell") \in ChInstances
    BY DEF builtin_template, Kinds, ChInstances, ChKinds
  <2> QED
    BY <2>1
<1> QED
  BY <1>5, <1>6 DEF setup_channels

ChTypes == chConfigs \in ComOptions /\ chKind \in Kinds \union {"none", "error"}

\* setup_with_registry() attaches a channel of a kind there is, or fails.
LEMMA ChTypesStep ==
    ASSUME ChTypes, [Next]_vars
    PROVE  ChTypes'
<1>1. CASE Attach
  <2> DEFINE instances == setup_channels(chConfigs)
  <2>1. instances \in Seq(ChInstances)
    BY ChInstancesTyped DEF ChTypes
  <2> HIDE DEF instances
  <2>2. FindChannel(instances, chCom).kind \in ChKinds
    BY <2>1, ChLookups
  <2>3. chKind' \in ChKinds /\ chConfigs' = chConfigs
    BY <1>1, <2>2 DEF Attach, instances, ChKinds
  <2> QED
    BY <2>3 DEF ChTypes, ChKinds
<1>2. CASE UNCHANGED <<chConfigs, chKind>>
  BY <1>2 DEF ChTypes
<1> QED
  BY <1>1, <1>2 DEF Next, ChannelNext, chVars, vars

\* stop() of the SSH channel takes a connection that was opened.
SsTaken == ssVictim <= Len(ssConns)

\* A step of a call leaves the connections and the one stop() took alone.
LEMMA SsCallLeavesConns ==
    ASSUME NEW c \in SsCalls,
           \/ session_arc(c) \/ max_sessions(c) \/ acquire_owned(c) \/ SsOpen(c) \/ SsClose(c)
           \/ SsExitStatus(c) \/ SsOverCap(c) \/ SsDrop(c) \/ SsOrphanEnds(c)
    PROVE  UNCHANGED <<ssConns, ssVictim>>
<1>1. (\E call : SsBecomes(c, call)) => UNCHANGED <<ssConns, ssVictim>>
  BY DEF SsBecomes
<1>2. (\E pc : SsGoes(c, pc) \/ SsEnds(c, pc)) => \E call : SsBecomes(c, call)
  BY DEF SsGoes, SsEnds
<1>3. CASE session_arc(c) \/ max_sessions(c) \/ acquire_owned(c)
  BY <1>1, <1>2, <1>3 DEF session_arc, max_sessions, acquire_owned
<1>4. CASE SsOpen(c) \/ SsClose(c)
  BY <1>1, <1>2, <1>4 DEF SsOpen, SsClose
<1>5. CASE SsExitStatus(c) \/ SsOverCap(c) \/ SsDrop(c) \/ SsOrphanEnds(c)
  BY <1>1, <1>2, <1>5 DEF SsExitStatus, SsOverCap, SsDrop, SsOrphanEnds
<1> QED
  BY <1>3, <1>4, <1>5

\* No step of the SSH channel takes another.
LEMMA SsTakenStep ==
    ASSUME SsInv, SsTaken, [SsNext]_ssVars
    PROVE  SsTaken'
<1>1. ssConns \in Seq(SsConnSet) /\ ssSession <= Len(ssConns) /\ ssVictim \in Nat /\ Len(ssConns) \in Nat
  BY DEF SsInv, SsTypes, SsLifecycle
<1>2. CASE UNCHANGED ssVars
  BY <1>2 DEF ssVars, SsTaken
<1>3. ASSUME NEW c \in SsCalls,
             \/ session_arc(c) \/ max_sessions(c) \/ acquire_owned(c) \/ SsOpen(c) \/ SsClose(c)
             \/ SsExitStatus(c) \/ SsOverCap(c) \/ SsDrop(c) \/ SsOrphanEnds(c)
      PROVE  SsTaken'
  BY <1>3, SsCallLeavesConns DEF SsTaken
<1>4. CASE SsConnect \/ SsPublish \/ SsCommDrop
  BY <1>1, <1>4 DEF SsConnect, SsPublish, SsCommDrop, SsCloses, SsTaken
<1>5. CASE SsStopTake \/ SsStopDisconnect \/ SsStopReset \/ SsStopDrop
  BY <1>1, <1>5 DEF SsStopTake, SsStopDisconnect, SsStopReset, SsStopDrop, SsCloses, SsTaken
<1>6. CASE SsProbe
  <2>1. PICK n \in parse_max_sessions : ssConns' = [ssConns EXCEPT ![Len(ssConns)].limit = n]
    BY <1>6 DEF SsProbe
  <2>2. ssConns' = [ssConns EXCEPT ![Len(ssConns)] = [ssConns[Len(ssConns)] EXCEPT !.limit = n]]
    BY <2>1
  <2>3. Len(ssConns') = Len(ssConns) /\ ssVictim' = ssVictim
    BY <1>1, <1>6, <2>2 DEF SsProbe
  <2> QED
    BY <2>3 DEF SsTaken
<1>7. ASSUME NEW g \in 1..Len(ssConns), SsGoesSilent(g) \/ SsConnLost(g)
      PROVE  SsTaken'
  BY <1>1, <1>7 DEF SsGoesSilent, SsConnLost, SsCloses, SsTaken
<1> QED
  BY <1>2, <1>3, <1>4, <1>5, <1>6, <1>7 DEF SsNext, SsStep

\* The flags, the calls and the directory of the QEMU channel; a `cd` goes to
\* the directory its call was given.
QmBounds ==
    /\ qmFlags \subseteq {"stopping", "panicked", "logged_in"}
    /\ qmDir \in QmDirs \union {"home"}
    /\ qmCalls <= QmMaxCalls /\ qmCall.id <= qmCalls
    /\ qmCall.pc = "cd" => qmCall.dir # QmNoDir
    /\ \A k \in 1..Len(qmIn) : qmIn[k].part = "cd" => qmIn[k].dir # QmNoDir

QmPcs == {"idle", "begin", "login", "stop", "poweroff", "kill", "lockers", "done", "cd", "cmd", "test", "cat"}

\* Calls that rest, return or go on, but not to a `cd`.
QmCallMoves ==
    \/ UNCHANGED qmCall
    \/ qmCall' = QmIdle
    \/ \E locks : \E pc \in QmPcs \ {"cd"} : qmCall' = [qmCall EXCEPT !.pc = pc, !.locks = locks]
    \/ \E pc \in QmPcs \ {"cd"} : qmCall' = [qmCall EXCEPT !.pc = pc]

\* A call that moves stays within the calls made.
LEMMA QmCallChanges ==
    ASSUME QmCore, QmBounds, UNCHANGED <<qmCalls, qmIn, qmDir>>, QmCallMoves,
           qmFlags' \subseteq qmFlags \union {"stopping", "panicked", "logged_in"}
    PROVE  QmBounds'
<1>1. qmCall \in QmCallSet /\ qmCalls \in Nat
  BY DEF QmCore, QmTypes
<1>2. QmIdle.id = 0 /\ QmIdle.pc # "cd"
  BY DEF QmIdle
<1>3. qmCall'.id \in {0, qmCall.id} /\ (qmCall'.pc = "cd" => qmCall'.dir # QmNoDir)
  BY <1>1, <1>2 DEF QmCallMoves, QmCallSet, QmBounds, QmPcs
<1>4. qmFlags' \subseteq {"stopping", "panicked", "logged_in"}
  BY DEF QmBounds
<1>5. qmCall'.id <= qmCalls
  <2>1. qmCall.id \in Nat /\ qmCall.id <= qmCalls
    BY <1>1 DEF QmBounds, QmCallSet
  <2> QED
    BY <1>1, <1>3, <2>1
<1> QED
  BY <1>3, <1>4, <1>5 DEF QmBounds

\* A line is sent: a `cd` only by a call with a directory.
LEMMA QmSentStays ==
    ASSUME QmCore, QmBounds, UNCHANGED <<qmCalls, qmDir>>,
           NEW part \in {"cd", "cmd", "test", "cat"}, QmSendLine(part), part = "cd" => qmCall.dir # QmNoDir,
           qmFlags' \subseteq qmFlags
    PROVE  QmBounds'
<1> DEFINE line == [id |-> qmCall.id, part |-> part, dir |-> qmCall.dir]
<1>1. qmCall \in QmCallSet /\ qmIn \in Seq(QmLineSet) /\ qmIn' = Append(qmIn, line)
  BY DEF QmCore, QmTypes, QmSendLine
<1>2. qmCall'.id = qmCall.id /\ qmCall'.pc = part /\ qmCall'.dir = qmCall.dir
  BY <1>1 DEF QmSendLine, QmCallSet
<1>3. line \in QmLineSet /\ line.part = part /\ line.dir = qmCall.dir
  BY <1>1 DEF QmCallSet, QmLineSet
<1> HIDE DEF line
<1>4. \A k \in 1..Len(qmIn') : qmIn'[k] = line \/ (k \in 1..Len(qmIn) /\ qmIn'[k] = qmIn[k])
  BY <1>1, <1>3
<1> QED
  BY <1>2, <1>3, <1>4 DEF QmBounds

\* The machine stops, and forgets the lines.
LEMMA QmOffStays ==
    ASSUME QmCore, QmBounds, QmPowerOff, UNCHANGED <<qmCalls, qmFlags>>,
           qmCall'.id = qmCall.id, qmCall'.pc # "cd" \/ UNCHANGED qmCall
    PROVE  QmBounds'
<1>1. qmIn' = <<>> /\ Len(qmIn') = 0 /\ qmDir' = "home"
  BY DEF QmPowerOff
<1> QED
  BY <1>1 DEF QmBounds

\* The guest goes where a `cd` tells it to.
LEMMA QmGuestStays ==
    ASSUME QmCore, QmBounds, QmGuest
    PROVE  QmBounds'
<1>1. qmIn \in Seq(QmLineSet) /\ qmIn # <<>> /\ qmIn' = Tail(qmIn) /\ UNCHANGED <<qmFlags, qmCall, qmCalls>>
  BY DEF QmCore, QmTypes, QmGuest
<1>2. Head(qmIn) = qmIn[1] /\ 1 \in 1..Len(qmIn) /\ qmIn[1] \in QmLineSet
  BY <1>1
<1>3. \A k \in 1..Len(qmIn') : k + 1 \in 1..Len(qmIn) /\ qmIn'[k] = qmIn[k + 1]
  BY <1>1
<1>4. qmIn[1].part = "cd" => qmIn[1].dir \in QmDirs \union {"home"}
  BY <1>2 DEF QmLineSet, QmPlaces, QmBounds
<1>5. qmDir' = qmDir \/ (qmIn[1].part = "cd" /\ qmDir' = qmIn[1].dir)
  BY <1>2 DEF QmGuest
<1> QED
  BY <1>1, <1>3, <1>4, <1>5 DEF QmBounds

\* No step of the QEMU channel leaves those bounds.
LEMMA QmBoundsStep ==
    ASSUME QmInv, QmBounds, [QmNext]_qmVars
    PROVE  QmBounds'
<1>0. QmCore
  BY DEF QmInv
<1>1. CASE UNCHANGED qmVars
  BY <1>0, <1>1, QmCallChanges DEF qmVars, QmCallMoves
<1>2. ASSUME NEW op, NEW dir, QmBegin(op, dir)
      PROVE  QmBounds'
  <2>1. qmCalls \in Nat
    BY <1>0 DEF QmCore, QmTypes
  <2>2. qmCalls < QmMaxCalls /\ qmCalls' = qmCalls + 1 /\ qmCall'.id = qmCalls + 1 /\ qmCall'.pc = "begin"
        /\ UNCHANGED <<qmFlags, qmIn, qmDir>>
    BY <1>2 DEF QmBegin
  <2> QED
    BY <2>1, <2>2, QemuAssumption DEF QmBounds
<1>3. CASE QmRefuse \/ QmStopDone \/ QmCancelled \/ QmNoAnswer \/ QmDrop \/ wait_lockers
  <2>1. UNCHANGED <<qmCalls, qmIn, qmDir>> /\ qmFlags' \subseteq qmFlags \union {"stopping", "panicked", "logged_in"}
    BY <1>3 DEF QmRefuse, QmStopDone, QmCancelled, QmNoAnswer, QmDrop, wait_lockers, QmClear, QmSet
  <2>2. qmCall' = QmIdle \/ \E pc \in QmPcs \ {"cd"} : qmCall' = [qmCall EXCEPT !.pc = pc]
    BY <1>3 DEF QmRefuse, QmStopDone, QmCancelled, QmNoAnswer, QmDrop, wait_lockers, QmFail, QmReturn, QmGoto, QmPcs
  <2> QED
    BY <1>0, <2>1, <2>2, QmCallChanges DEF QmCallMoves
<1>4. CASE QmSpawn \/ login \/ QmStopBegin
  <2>1. UNCHANGED <<qmCalls, qmIn, qmDir>> /\ qmFlags' \subseteq qmFlags \union {"stopping", "panicked", "logged_in"}
    BY <1>4 DEF QmSpawn, login, QmStopBegin, QmSet
  <2>2. \/ qmCall' = QmIdle
        \/ \E locks : \E pc \in QmPcs \ {"cd"} : qmCall' = [qmCall EXCEPT !.pc = pc, !.locks = locks]
        \/ \E pc \in QmPcs \ {"cd"} : qmCall' = [qmCall EXCEPT !.pc = pc]
    BY <1>4 DEF QmSpawn, login, QmStopBegin, QmFail, QmReturn, QmGoto, QmPcs
  <2> QED
    BY <1>0, <2>1, <2>2, QmCallChanges DEF QmCallMoves
<1>5. CASE QmAskPowerOff \/ QmKill
  <2>1. UNCHANGED <<qmCalls, qmFlags>>
    BY <1>5 DEF QmAskPowerOff, QmKill
  <2>2. qmCall' = QmIdle \/ \E pc \in QmPcs \ {"cd"} : qmCall' = [qmCall EXCEPT !.pc = pc]
    BY <1>5 DEF QmAskPowerOff, QmKill, QmFail, QmReturn, QmGoto, QmPcs
  <2>3. CASE QmPowerOff /\ \E pc \in QmPcs \ {"cd"} : qmCall' = [qmCall EXCEPT !.pc = pc]
    <3>1. qmCall \in QmCallSet
      BY <1>0 DEF QmCore, QmTypes
    <3>2. qmCall'.id = qmCall.id /\ qmCall'.pc # "cd"
      BY <2>3, <3>1 DEF QmCallSet
    <3> QED
      BY <1>0, <2>1, <2>3, <3>2, QmOffStays
  <2>4. CASE UNCHANGED <<qmIn, qmDir>>
    BY <1>0, <2>1, <2>2, <2>4, QmCallChanges DEF QmCallMoves
  <2> QED
    BY <1>5, <2>3, <2>4 DEF QmAskPowerOff, QmKill, QmGoto, QmPcs
<1>6. CASE QmFirstLine
  <2>1. UNCHANGED <<qmCalls, qmFlags, qmDir>> /\ qmCall.op \in {"run", "ping", "fetch"}
    BY <1>6 DEF QmFirstLine
  <2>2. CASE QmSendLine(QmParts(qmCall.op, qmCall.dir)[1])
    <3>1. /\ QmParts(qmCall.op, qmCall.dir)[1] \in {"cd", "cmd", "test", "cat"}
          /\ QmParts(qmCall.op, qmCall.dir)[1] = "cd" => qmCall.dir # QmNoDir
      BY <2>1 DEF QmParts
    <3> QED
      BY <1>0, <2>1, <2>2, <3>1, QmSentStays
  <2>3. CASE QmFail("err") /\ UNCHANGED qmIn
    BY <1>0, <2>1, <2>3, QmCallChanges DEF QmFail, QmReturn, QmCallMoves
  <2> QED
    BY <1>6, <2>2, <2>3 DEF QmFirstLine
<1>7. CASE QmAnswer
  <2>1. UNCHANGED <<qmCalls, qmDir>> /\ qmFlags' \subseteq qmFlags
    BY <1>7 DEF QmAnswer, QmClear
  <2>2. CASE \E part \in {"cmd", "cat"} : QmSendLine(part)
    <3>1. PICK part \in {"cmd", "cat"} : QmSendLine(part)
      BY <2>2
    <3> QED
      BY <1>0, <2>1, <3>1, QmSentStays
  <2>3. CASE qmCall' = QmIdle /\ UNCHANGED qmIn
    BY <1>0, <2>1, <2>3, QmCallChanges DEF QmCallMoves
  <2> QED
    BY <1>7, <2>2, <2>3 DEF QmAnswer, QmFail, QmReturn, QmWaiting
<1>8. CASE QmCrash
  <2>1. UNCHANGED <<qmFlags, qmCall, qmCalls>>
    BY <1>8 DEF QmCrash
  <2> QED
    BY <1>0, <1>8, <2>1, QmOffStays, QmCallChanges DEF QmCrash, QmCallMoves
<1> QED
  BY <1>0, <1>1, <1>2, <1>3, <1>4, <1>5, <1>6, <1>7, <1>8, QmGuestStays DEF QmNext, QmStep

\* What the types of the run rest on.
ChInv == ChTypes /\ ShInv /\ SsInv /\ SsTaken /\ QmInv /\ QmBounds /\ LtInv

\* They give every variable its type.
LEMMA ChInvTypes == ChInv => TypeOK
<1> SUFFICES ASSUME ChInv PROVE TypeOK
  OBVIOUS
<1>1. ShTypeOK /\ LtTypeOK /\ chKind \in Kinds \union {"none", "error"}
  BY LtInvTypes DEF ChInv, ShInv, ChTypes
<1>2. SsTypeOK
  <2>1. SsTypes /\ SsLifecycle /\ SsReferences /\ SsTaken
    BY DEF ChInv, SsInv
  <2>2. /\ \A g \in 1..Len(ssConns) : ssConns[g].up \in BOOLEAN /\ ssConns[g].limit \in Nat
        /\ \A s \in 1..Len(ssSems) : ssSems[s] \in Nat \ {0}
    <3>1. ssConns \in Seq(SsConnSet) /\ ssSems \in Seq(Nat \ {0})
      BY <2>1 DEF SsTypes
    <3>2. \A g \in 1..Len(ssConns) : ssConns[g] \in SsConnSet
      BY <3>1
    <3>3. \A s \in 1..Len(ssSems) : ssSems[s] \in Nat \ {0}
      BY <3>1
    <3> QED
      BY <3>2, <3>3 DEF SsConnSet
  <2>3. \A c \in SsCalls :
           /\ ssCall[c].pc \in {"new", "session", "queue", "permit", "open", "orphan"} \union SsEnded
           /\ ssCall[c].conn \in 0..Len(ssConns) /\ ssCall[c].sem \in 0..Len(ssSems)
    BY <2>1 DEF SsTypes, SsCallSet, SsPcs, SsReferences
  <2> QED
    BY <2>1, <2>2, <2>3 DEF SsTypeOK, SsTypes, SsLifecycle, SsTaken
<1>3. QmTypeOK
  <2>1. QmTypes /\ QmBounds
    BY DEF ChInv, QmInv, QmCore
  <2> QED
    BY <2>1 DEF QmTypeOK, QmTypes, QmBounds, QmCallSet, QmOps
<1> QED
  BY <1>1, <1>2, <1>3 DEF TypeOK

\* The four channels and the selection among them keep their types, whatever
\* the options name.
THEOREM ChannelsTypesAreRight == FairSpec => []TypeOK
<1>1. Init => ChInv
  <2> SUFFICES ASSUME Init PROVE ChInv
    OBVIOUS
  <2>1. ChTypes /\ ShInv /\ SsInv /\ QmInv /\ LtInv
    BY ShInvInit, SsInvInit, QmInvInit, LtInvInit DEF Init, ChTypes
  <2>2. SsTaken
    BY DEF Init, SsInit, SsTaken
  <2>3. QmBounds
    BY QemuAssumption DEF Init, QmInit, QmBounds, QmIdle
  <2> QED
    BY <2>1, <2>2, <2>3 DEF ChInv
<1>2. ChInv /\ [Next]_vars => ChInv'
  BY ShInvStep, SsInvStep, SsTakenStep, QmInvStep, QmBoundsStep, LtInvStep, ChannelSteps, LtChannelSteps, ChTypesStep
     DEF ChInv
<1> QED
  BY <1>1, <1>2, ChInvTypes, PTL DEF FairSpec
=============================================================================
