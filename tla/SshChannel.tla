----------------------------- MODULE SshChannel -----------------------------
(***************************************************************************)
(* The SSH channel of crates/kirk-com-ssh/src/lib.rs.  Clones share one    *)
(* Inner: the session published by communicate() and the semaphore that    *)
(* keeps the commands within the server's MaxSessions.  A call takes its   *)
(* own reference to the session, then to the semaphore, and keeps both     *)
(* while stop() and communicate() replace them.                            *)
(*                                                                         *)
(* Connections and semaphores are numbered in the order of their creation. *)
(* The permits of a semaphore are given back when the call that holds one  *)
(* returns or is dropped, so they are counted from the calls.              *)
(* communicate() and stop() are called under the SUT's mutex and never     *)
(* overlap.                                                                *)
(***************************************************************************)
EXTENDS Integers, Sequences, FiniteSets

CONSTANTS
    SsCmds,        \* calls that may be run_command()
    SsProbes,      \* calls that may be ping() or fetch_file(), which take no permit
    SsServerMax,   \* the server's MaxSessions
    SsDefaultMax,  \* DEFAULT_MAX_SESSIONS
    SsMaxConns     \* bound: connections opened by communicate()

ASSUME SshAssumption ==
    /\ IsFiniteSet(SsCmds)
    /\ SsServerMax \in Nat /\ SsDefaultMax \in Nat \ {0} /\ SsMaxConns \in Nat

VARIABLES
    ssSession,  \* Inner.session: the published connection, 0 when none
    ssConns,    \* connection -> [up, limit]: `limit` is what communicate() set for it
    ssSilent,   \* open connections whose peer no longer answers, which nobody has noticed
    ssSems,     \* semaphore -> its size; Inner.max_sessions is the last one
    ssComm,     \* where communicate() is: "idle", "probe" or "publish"
    ssStop,     \* where stop() is: "idle", "disconnect" or "reset"
    ssVictim,   \* the connection stop() took
    ssCall      \* call -> [pc, conn, sem, status]

ssVars == <<ssSession, ssConns, ssSilent, ssSems, ssComm, ssStop, ssVictim, ssCall>>

SsCalls == SsCmds \union SsProbes
SsClosed == [up |-> FALSE, limit |-> 0]
SsNewCall == [pc |-> "new", conn |-> 0, sem |-> 0, status |-> "none"]
SsEnded == {"ok", "lost", "panic", "err"}

SsInit ==
    /\ ssSession = 0 /\ ssConns = <<>> /\ ssSilent = {} /\ ssSems = <<SsDefaultMax>>
    /\ ssComm = "idle" /\ ssStop = "idle" /\ ssVictim = 0
    /\ ssCall = [c \in SsCalls |-> SsNewCall]

\* set_max_sessions(): a new semaphore; the old one stays with its holders.
\* Mutant: one permit is kept back for the probes.
set_max_sessionsLess(n) == ssSems' = Append(ssSems, n - 1)

set_max_sessions(n) == ssSems' = Append(ssSems, n)
SsHolders(sem) == {c \in SsCmds : ssCall[c].sem = sem /\ ssCall[c].pc \in {"permit", "open"}}
SsCloses(g) == ssConns' = [ssConns EXCEPT ![g] = SsClosed] /\ ssSilent' = ssSilent \ {g}
IsCommand(c) == ssCall[c].sem # 0

(***************************************************************************)
(* communicate(): connect and authenticate, probe MaxSessions, publish.    *)
(***************************************************************************)
\* A connection is refused when one is published; it may fail, which changes nothing.
SsConnect ==
    /\ ssComm = "idle" /\ ssStop = "idle" /\ ssSession = 0 /\ Len(ssConns) < SsMaxConns
    /\ ssConns' = Append(ssConns, [up |-> TRUE, limit |-> 0])
    /\ ssComm' = "probe"
    /\ UNCHANGED <<ssSilent, ssSession, ssSems, ssStop, ssVictim, ssCall>>

\* parse_max_sessions() of what the server says, at least 1, or the default.
parse_max_sessions == {IF SsServerMax < 1 THEN 1 ELSE SsServerMax, SsDefaultMax}

\* Mutant: the probe's answer is not applied before the session is published.
SsProbeIgnored ==
    /\ ssComm = "probe"
    /\ \E n \in parse_max_sessions :
         ssConns' = [ssConns EXCEPT ![Len(ssConns)].limit = n]
    /\ ssComm' = "publish"
    /\ UNCHANGED <<ssSilent, ssSession, ssSems, ssStop, ssVictim, ssCall>>

\* probe_max_sessions(), then set_max_sessions() with its answer.
SsProbe ==
    /\ ssComm = "probe"
    /\ \E n \in parse_max_sessions :
         /\ set_max_sessions(n)
         /\ ssConns' = [ssConns EXCEPT ![Len(ssConns)].limit = n]
    /\ ssComm' = "publish"
    /\ UNCHANGED <<ssSilent, ssSession, ssStop, ssVictim, ssCall>>

SsPublish ==
    /\ ssComm = "publish"
    /\ ssSession' = Len(ssConns)
    /\ ssComm' = "idle"
    /\ UNCHANGED <<ssSilent, ssConns, ssSems, ssStop, ssVictim, ssCall>>

\* communicate() is dropped: its handle is the only one, and closes.
SsCommDrop ==
    /\ ssComm # "idle"
    /\ SsCloses(Len(ssConns))
    /\ ssComm' = "idle"
    /\ UNCHANGED <<ssSession, ssSems, ssStop, ssVictim, ssCall>>

(***************************************************************************)
(* stop().                                                                 *)
(***************************************************************************)
SsStopTake ==
    /\ ssStop = "idle" /\ ssComm = "idle" /\ ssSession # 0
    /\ ssVictim' = ssSession /\ ssSession' = 0
    /\ ssStop' = "disconnect"
    /\ UNCHANGED <<ssSilent, ssConns, ssSems, ssComm, ssCall>>

\* disconnect(), which closes the connection on this side whether or not the peer
\* answers, then the default permits and the reset command, if one is configured.
SsStopDisconnect ==
    /\ ssStop = "disconnect"
    /\ SsCloses(ssVictim)
    /\ set_max_sessions(SsDefaultMax)
    /\ ssStop' \in {"idle", "reset"}
    /\ ssVictim' = IF ssStop' = "idle" THEN 0 ELSE ssVictim
    /\ UNCHANGED <<ssSession, ssComm, ssCall>>

\* run_reset() returns when the command ends, and that has no deadline; its
\* failure is the result of stop().
SsStopReset ==
    /\ ssStop = "reset"
    /\ ssStop' = "idle" /\ ssVictim' = 0
    /\ UNCHANGED <<ssSilent, ssSession, ssConns, ssSems, ssComm, ssCall>>

\* stop() is dropped with the whole run, when its last handle closes the
\* connection; the semaphore stays.
SsStopDrop ==
    /\ ssStop # "idle"
    /\ SsCloses(ssVictim)
    /\ ssStop' = "idle" /\ ssVictim' = 0
    /\ UNCHANGED <<ssSession, ssSems, ssComm, ssCall>>

\* The network or the host fails and this side is told nothing: there is no
\* keepalive.
SsGoesSilent(g) ==
    /\ ssConns[g].up
    /\ ssSilent' = ssSilent \union {g}
    /\ UNCHANGED <<ssSession, ssConns, ssSems, ssComm, ssStop, ssVictim, ssCall>>

\* The connection is lost and this side is told, at once or late.
SsConnLost(g) ==
    /\ ssConns[g].up
    /\ SsCloses(g)
    /\ UNCHANGED <<ssSession, ssSems, ssComm, ssStop, ssVictim, ssCall>>

(***************************************************************************)
(* run_command(), ping() and fetch_file().                                 *)
(***************************************************************************)
SsBecomes(c, call) ==
    /\ ssCall' = [ssCall EXCEPT ![c] = call]
    /\ UNCHANGED <<ssSilent, ssSession, ssConns, ssSems, ssComm, ssStop, ssVictim>>
SsGoes(c, pc) == SsBecomes(c, [ssCall[c] EXCEPT !.pc = pc])
SsEnds(c, pc) == SsBecomes(c, [SsNewCall EXCEPT !.pc = pc, !.status = ssCall[c].status])

session_arc(c) ==
    /\ ssCall[c].pc = "new"
    /\ IF ssSession = 0 THEN SsEnds(c, "err")
       ELSE \E pc \in {"session", "permit"} :
              /\ c \in (IF pc = "session" THEN SsCmds ELSE SsProbes)
              /\ SsBecomes(c, [ssCall[c] EXCEPT !.conn = ssSession, !.pc = pc])

\* The semaphore of this moment, not the one of the session taken.
max_sessions(c) ==
    /\ ssCall[c].pc = "session"
    /\ SsBecomes(c, [ssCall[c] EXCEPT !.pc = "queue", !.sem = Len(ssSems)])

acquire_owned(c) ==
    /\ ssCall[c].pc = "queue"
    /\ Cardinality(SsHolders(ssCall[c].sem)) < ssSems[ssCall[c].sem]
    /\ SsGoes(c, "permit")

\* Channels the server has open on a connection; an orphan's remote command
\* still runs although its call was dropped.
SsChannels(g) == {c \in SsCalls : ssCall[c].conn = g /\ ssCall[c].pc \in {"open", "orphan"}}

\* Whether the peer of a call's connection still answers.
SsAnswers(c) == ssConns[ssCall[c].conn].up /\ ssCall[c].conn \notin ssSilent

\* Channel open and exec request: refused beyond MaxSessions and on a dead
\* connection, and given up after IO_TIMEOUT on a silent one.
SsOpen(c) ==
    /\ ssCall[c].pc = "permit"
    /\ LET g == ssCall[c].conn
       IN  IF SsAnswers(c) /\ Cardinality(SsChannels(g)) < SsServerMax
           THEN SsGoes(c, "open")
           ELSE SsEnds(c, "err")

\* ChannelMsg::ExitStatus, before the close.
SsExitStatus(c) ==
    /\ ssCall[c].pc = "open" /\ ssCall[c].status = "none" /\ SsAnswers(c)
    /\ SsBecomes(c, [ssCall[c] EXCEPT !.status = "exited"])

\* Whether the output of a command shows a panic; nobody looks at a probe's.
OutputCollector(c) == IF IsCommand(c) THEN BOOLEAN ELSE {FALSE}

\* fetch_file() closes its channel when the file is over the size limit.
SsOverCap(c) == ssCall[c].pc = "open" /\ ~IsCommand(c) /\ SsEnds(c, "err")

\* Mutant: a command without an exit status counts as exited.
SsCloseAssumeExit(c) ==
    /\ ssCall[c].pc = "open"
    /\ (ssCall[c].status = "exited" /\ SsAnswers(c)) \/ ~ssConns[ssCall[c].conn].up
    /\ \E panicked \in OutputCollector(c) : SsEnds(c, IF panicked THEN "panic" ELSE "ok")

\* The channel closes: after the status, or with the connection and perhaps
\* without one, which makes the return code -1.  On a silent connection neither
\* happens: the loop that waits for it has no timeout.
SsClose(c) ==
    /\ ssCall[c].pc = "open"
    /\ (ssCall[c].status = "exited" /\ SsAnswers(c)) \/ ~ssConns[ssCall[c].conn].up
    /\ \E panicked \in OutputCollector(c) :
         SsEnds(c, IF panicked THEN "panic"
                 ELSE IF ssCall[c].status = "exited" THEN "ok" ELSE "lost")

\* Dropped at any await (a ping also by its own 5 s): the permit is back, the
\* channel may stay open on the server until its command ends.
SsDrop(c) ==
    /\ ssCall[c].pc \in {"session", "queue", "permit", "open"}
    /\ IF ssCall[c].pc = "open" THEN SsGoes(c, "orphan") ELSE SsEnds(c, "err")

SsOrphanEnds(c) == ssCall[c].pc = "orphan" /\ SsEnds(c, "err")

\* What happens by itself: no remote command, no reset command has to end, and
\* nobody has to notice a silent connection.
SsStep ==
    \/ SsStopDisconnect
    \/ \E c \in SsCalls :
        session_arc(c) \/ max_sessions(c) \/ acquire_owned(c) \/ SsOpen(c) \/ SsClose(c)

SsNext ==
    \/ SsStep
    \/ SsConnect \/ SsProbe \/ SsPublish \/ SsCommDrop
    \/ SsStopTake \/ SsStopReset \/ SsStopDrop
    \/ \E g \in 1..Len(ssConns) : SsGoesSilent(g) \/ SsConnLost(g)
    \/ \E c \in SsCalls : SsExitStatus(c) \/ SsOverCap(c) \/ SsDrop(c) \/ SsOrphanEnds(c)

(***************************************************************************)
(* Properties.                                                             *)
(***************************************************************************)
SsTypeOK ==
    /\ ssSession \in 0..Len(ssConns)
    /\ ssVictim \in 0..Len(ssConns) /\ ssSilent \subseteq 1..Len(ssConns)
    /\ \A g \in 1..Len(ssConns) : ssConns[g].up \in BOOLEAN /\ ssConns[g].limit \in Nat
    /\ \A s \in 1..Len(ssSems) : ssSems[s] \in Nat \ {0}
    /\ ssComm \in {"idle", "probe", "publish"} /\ ssStop \in {"idle", "disconnect", "reset"}
    /\ \A c \in SsCalls :
         /\ ssCall[c].pc \in {"new", "session", "queue", "permit", "open", "orphan"} \union SsEnded
         /\ ssCall[c].conn \in 0..Len(ssConns) /\ ssCall[c].sem \in 0..Len(ssSems)

\* The commands that hold a permit never ask a live connection for more
\* sessions than communicate() found it to allow, however stop() and a new
\* communicate() replace session and semaphore under them: a command is refused
\* by the server only because of the channels that take no permit (ping(),
\* fetch_file() and what dropped calls left running).
SshWithinLimit ==
    \A g \in 1..Len(ssConns) :
        ssConns[g].up =>
            Cardinality({c \in SsCmds : /\ IsCommand(c) /\ ssCall[c].conn = g
                                        /\ ssCall[c].pc \in {"permit", "open"}})
              <= ssConns[g].limit

\* A command whose connection was lost before its exit status never returns as
\* if it had exited.
SshLostIsNotOk ==
    \A c \in SsCalls : ssCall[c].pc = "ok" => ssCall[c].status = "exited"

\* A call whose connection is closed on this side.
SsDead(c) == ssCall[c].conn # 0 /\ ~ssConns[ssCall[c].conn].up

\* stop() is disconnecting, or a call whose connection is closed goes on: it asks
\* for a channel, waits for the end of its command, or waits for a permit that
\* only such calls hold.  disconnect() closes a silent connection too.
SsStuck ==
    \/ ssStop = "disconnect"
    \/ \E c \in SsCalls :
        /\ SsDead(c)
        /\ \/ ssCall[c].pc \in {"permit", "open"}
           \/ ssCall[c].pc = "queue" /\ \A d \in SsHolders(ssCall[c].sem) : SsDead(d)
=============================================================================
