------------------------------ MODULE SutHandle ------------------------------
(***************************************************************************)
(* The SUT as the scheduler and the session see it: CliSut (kirk-cli)      *)
(* wraps one GenericSut (kirk-sut) in a mutex, and every operation takes   *)
(* that mutex for as long as it uses the channel.  Callers are the tasks   *)
(* of a round, the loop that restarts the SUT and the callers of stop();   *)
(* any of them may be dropped at an await (a test or suite timeout).       *)
(***************************************************************************)
EXTENDS Integers, Sequences, SequencesExt

CONSTANTS
    Callers,      \* tasks that use the SUT
    Channels,     \* the kinds of channel: whether it offers a concurrent_handle()
    Cancellable,  \* a caller may drop its future
    MayHang,      \* the SUT may stop answering
    Retries,      \* COMMUNICATE_RETRIES
    MaxTaint      \* bound on the kernel's taint value

ASSUME HandleAssumption ==
    /\ Channels \cup {Cancellable, MayHang} \subseteq BOOLEAN
    /\ Retries \in Nat \ {0}
    /\ MaxTaint \in Nat

VARIABLES
    shared,    \* the channel of this SUT offers a concurrent_handle()
    queue,     \* the FIFO mutex around GenericSut: the head holds it
    op,        \* the operation of every caller
    at,        \* the await it is in
    attempt,   \* the loop counter of ensure_communicate
    inFlight,  \* TaintState.in_flight
    cached,    \* TaintState.cached, or -1
    active,    \* ComChannel::active()
    hung,      \* the SUT does not answer
    taint,     \* /proc/sys/kernel/tainted
    answer,    \* what the caller's last taint check returned, or -1
    seen,      \* history: the taint values since the caller's call began
    dropped    \* history: a taint check was dropped while it probed

lockVars  == <<queue, op, at, attempt, shared>>
taintVars == <<inFlight, cached>>
sutVars   == <<active, hung, taint>>
histVars  == <<answer, seen, dropped>>
vars == <<lockVars, taintVars, sutVars, histVars>>

\* Query is a command under the lock with no timeout of its own (logged_as_root,
\* is_fault_injection_enabled, session_run_command); Info bounds every probe.
Ops == {"Taint", "Command", "Ping", "Query", "Info", "Start", "Stop", "Restart"}

Init ==
    /\ shared \in Channels
    /\ queue = <<>>
    /\ op = [c \in Callers |-> "Info"]
    /\ at = [c \in Callers |-> "idle"]
    /\ attempt = [c \in Callers |-> 0]
    /\ inFlight = FALSE /\ cached = -1
    /\ active = FALSE /\ hung = FALSE /\ taint = 0
    /\ answer = [c \in Callers |-> -1]
    /\ seen = [c \in Callers |-> {}]
    /\ dropped = FALSE

Holds(c) == queue # <<>> /\ Head(queue) = c

\* Without the lock a dropped or finished future is just gone.
Leave(c) ==
    /\ at' = [at EXCEPT ![c] = "idle"]
    /\ queue' = RemoveFirst(queue, c)
    /\ UNCHANGED <<op, attempt, shared>>

\* A command in flight ends: its SUT answers, or its channel was stopped, or the
\* channel bounds every wait, as the one without a shared handle does (QEMU,
\* EXPECT_TIMEOUT); over ssh and ltx a command is awaited for ever.
Ends == ~hung \/ ~active \/ ~shared

Await(c, place) ==
    /\ at' = [at EXCEPT ![c] = place]
    /\ UNCHANGED <<queue, op, attempt, shared>>

Call(c, o) ==
    /\ at[c] = "idle"
    /\ at' = [at EXCEPT ![c] = "lock"]
    /\ op' = [op EXCEPT ![c] = o]
    /\ queue' = Append(queue, c)
    /\ attempt' = [attempt EXCEPT ![c] = 0]
    /\ answer' = [answer EXCEPT ![c] = -1]
    /\ seen' = [seen EXCEPT ![c] = {taint}]
    /\ UNCHANGED <<shared, taintVars, sutVars, dropped>>

-----------------------------------------------------------------------------
(* get_tainted_info() *)

\* Mutant: the last answer is served although no probe is running.
GetTaintedInfoCaching(c) ==
    /\ at[c] = "lock" /\ op[c] = "Taint" /\ Holds(c)
    /\ IF cached # -1
       THEN answer' = [answer EXCEPT ![c] = cached] /\ Leave(c) /\ UNCHANGED inFlight
       ELSE inFlight' = TRUE /\ Await(c, "probe") /\ UNCHANGED answer
    /\ UNCHANGED <<cached, sutVars, seen, dropped>>

\* is_running(), then taint_begin(): the answer of a probe in flight is
\* reused, otherwise this caller probes.
GetTaintedInfo(c) ==
    /\ at[c] = "lock" /\ op[c] = "Taint" /\ Holds(c)
    /\ \/ /\ ~active
          /\ Leave(c)
          /\ UNCHANGED <<inFlight, answer>>
       \/ /\ active /\ inFlight /\ cached # -1
          /\ answer' = [answer EXCEPT ![c] = cached]
          /\ Leave(c)
          /\ UNCHANGED inFlight
       \/ /\ active /\ ~(inFlight /\ cached # -1)
          /\ inFlight' = TRUE
          /\ Await(c, "probe")
          /\ UNCHANGED answer
    /\ UNCHANGED <<cached, sutVars, seen, dropped>>

\* The command answers or fails; either way taint_end() clears the flag.
TaintProbe(c) ==
    /\ at[c] = "probe"
    /\ \/ ~hung /\ answer' = [answer EXCEPT ![c] = taint] /\ cached' = taint
       \/ Ends /\ UNCHANGED <<answer, cached>>
    /\ inFlight' = FALSE
    /\ Leave(c)
    /\ UNCHANGED <<sutVars, seen, dropped>>

-----------------------------------------------------------------------------
(* run_command(), and the operations that await under the lock *)

\* Mutant: the lock is held while the command runs on a shared handle.
RunCommandHolding(c) ==
    /\ at[c] = "lock" /\ op[c] = "Command" /\ Holds(c)
    /\ Await(c, "command")
    /\ UNCHANGED <<taintVars, sutVars, histVars>>

\* Mutant: the exclusive channel is used after the lock was released.
RunCommandUnlocked(c) ==
    /\ at[c] = "lock" /\ op[c] = "Command" /\ Holds(c)
    /\ at' = [at EXCEPT ![c] = "command"]
    /\ queue' = Tail(queue)
    /\ UNCHANGED <<op, attempt, shared, taintVars, sutVars, histVars>>

\* The lock is released once the handle is known, and without a shared handle
\* it is taken again, behind whoever waits by then.
RunCommand(c) ==
    /\ at[c] = "lock" /\ op[c] = "Command" /\ Holds(c)
    /\ \/ /\ shared
          /\ at' = [at EXCEPT ![c] = "command"]
          /\ queue' = Tail(queue)
       \/ /\ ~shared
          /\ at' = [at EXCEPT ![c] = "handle"]
          /\ queue' = Append(Tail(queue), c)
    /\ UNCHANGED <<op, attempt, shared, taintVars, sutVars, histVars>>

RunExclusive(c) ==
    /\ at[c] = "handle" /\ Holds(c)
    /\ Await(c, "command")
    /\ UNCHANGED <<taintVars, sutVars, histVars>>

\* An inactive channel refuses a command, and stopping it kills the running ones.
CommandReturns(c) ==
    /\ at[c] = "command"
    /\ Ends
    /\ Leave(c)
    /\ UNCHANGED <<taintVars, sutVars, histVars>>

Begin(c) ==
    /\ at[c] = "lock" /\ op[c] \in {"Ping", "Query", "Info"} /\ Holds(c)
    /\ Await(c, "reply")
    /\ UNCHANGED <<taintVars, sutVars, histVars>>

Reply(c) ==
    /\ at[c] = "reply"
    /\ op[c] = "Info" \/ Ends
    /\ Leave(c)
    /\ UNCHANGED <<taintVars, sutVars, histVars>>

-----------------------------------------------------------------------------
(* start(), stop(), restart(), ensure_communicate() *)

\* start() does nothing to a running SUT, stop() nothing to a stopped one.
Lifecycle(c) ==
    /\ at[c] = "lock" /\ op[c] \in {"Start", "Stop", "Restart"} /\ Holds(c)
    /\ \/ op[c] = "Start" /\ active /\ Leave(c)
       \/ op[c] = "Stop" /\ ~active /\ Leave(c)
       \/ op[c] \in {"Stop", "Restart"} /\ active /\ Await(c, "stopping")
       \/ op[c] \in {"Start", "Restart"} /\ ~active /\ Await(c, "communicate")
    /\ UNCHANGED <<taintVars, sutVars, histVars>>

\* ComChannel::stop(): a failure ends stop() and restart() alike.
StopChannel(c) ==
    /\ at[c] = "stopping"
    /\ \/ /\ active' = FALSE
          /\ IF op[c] = "Stop" THEN Leave(c) ELSE Await(c, "communicate")
       \/ Leave(c) /\ UNCHANGED active
    /\ UNCHANGED <<taintVars, hung, taint, histVars>>

\* What communicate() talks to is a kernel booted anew, or the one of before.
Booted ==
    /\ taint' \in {0, taint}
    /\ seen' = [d \in Callers |-> seen[d] \cup {taint'}]

Communicated(c) ==
    /\ at[c] = "communicate"
    /\ active' = TRUE /\ hung' = FALSE
    /\ Booted
    /\ Leave(c)
    /\ UNCHANGED <<taintVars, answer, dropped>>

\* Mutant: one attempt too many.
CommunicateFailsOnceMore(c) ==
    /\ at[c] = "communicate"
    /\ active' \in BOOLEAN
    /\ Booted
    /\ IF attempt[c] < Retries THEN Await(c, "cleanup") ELSE Leave(c)
    /\ UNCHANGED <<taintVars, hung, answer, dropped>>

\* It fails, and may leave a SUT behind that runs: the error of the last
\* attempt is returned, before that the channel is stopped.
CommunicateFails(c) ==
    /\ at[c] = "communicate"
    /\ active' \in BOOLEAN
    /\ Booted
    /\ IF attempt[c] + 1 < Retries THEN Await(c, "cleanup") ELSE Leave(c)
    /\ UNCHANGED <<taintVars, hung, answer, dropped>>

\* The stop() between two attempts: a failure of it is returned.
Cleanup(c) ==
    /\ at[c] = "cleanup"
    /\ \/ /\ active' = FALSE
          /\ at' = [at EXCEPT ![c] = "communicate"]
          /\ attempt' = [attempt EXCEPT ![c] = @ + 1]
          /\ UNCHANGED <<queue, op, shared>>
       \/ Leave(c) /\ UNCHANGED active
    /\ UNCHANGED <<taintVars, hung, taint, histVars>>

\* communicate() or stop() of the channel waits for what never comes: QEMU's
\* failed login for its own lock, stop() over ltx for slots that dropped calls
\* keep, stop() over ssh for a reset command.
Sticks(c) ==
    /\ at[c] \in {"stopping", "communicate", "cleanup"}
    /\ Await(c, "stuck")
    /\ active' \in BOOLEAN
    /\ UNCHANGED <<taintVars, hung, taint, histVars>>

-----------------------------------------------------------------------------
\* The future is dropped at an await: only what its destructors do is done,
\* and there is none that would call taint_end().
Cancel(c) ==
    /\ Cancellable
    /\ at[c] # "idle"
    /\ Leave(c)
    /\ dropped' = (dropped \/ at[c] = "probe")
    /\ UNCHANGED <<taintVars, sutVars, answer, seen>>

KernelTaint ==
    /\ active /\ ~hung /\ taint < MaxTaint
    /\ taint' = taint + 1
    /\ seen' = [c \in Callers |-> seen[c] \cup {taint'}]
    /\ UNCHANGED <<lockVars, taintVars, active, hung, answer, dropped>>

Hang ==
    /\ MayHang
    /\ active /\ ~hung
    /\ hung' = TRUE
    /\ UNCHANGED <<lockVars, taintVars, active, taint, histVars>>

Step(c) ==
    \/ GetTaintedInfo(c) \/ TaintProbe(c)
    \/ RunCommand(c) \/ RunExclusive(c) \/ CommandReturns(c)
    \/ Begin(c) \/ Reply(c)
    \/ Lifecycle(c) \/ StopChannel(c) \/ Communicated(c) \/ CommunicateFails(c) \/ Cleanup(c)

Next ==
    \/ \E c \in Callers : (\E o \in Ops : Call(c, o)) \/ Step(c) \/ Sticks(c) \/ Cancel(c)
    \/ KernelTaint
    \/ Hang

Spec == Init /\ [][Next]_vars

\* The runtime polls every future that can go on; that a call of the channel
\* sticks or is dropped is under no obligation.
FairSpec == Spec /\ \A c \in Callers : WF_vars(Step(c))

-----------------------------------------------------------------------------
(* Properties *)

\* Every variable keeps its type, and a caller is in the queue at most once.
TypeOK ==
    /\ shared \in BOOLEAN /\ dropped \in BOOLEAN
    /\ queue \in Seq(Callers) /\ IsInjective(queue)
    /\ op \in [Callers -> Ops]
    /\ at \in [Callers -> {"idle", "lock", "handle", "probe", "command", "reply",
                            "stopping", "communicate", "cleanup", "stuck"}]
    /\ attempt \in [Callers -> 0..Retries - 1]
    /\ inFlight \in BOOLEAN
    /\ cached \in -1..MaxTaint
    /\ active \in BOOLEAN
    /\ hung \in BOOLEAN
    /\ taint \in 0..MaxTaint
    /\ answer \in [Callers -> -1..MaxTaint]
    /\ seen \in [Callers -> SUBSET (0..MaxTaint)]

\* Where a caller uses the channel itself and not a shared handle.
OnChannel ==
    {"probe", "reply", "stopping", "communicate", "cleanup", "stuck"} \cup (IF shared THEN {} ELSE {"command"})

\* The channel, a &mut behind the mutex, is used by one caller at a time, in
\* spite of dropped futures and of the lock that run_command takes twice.
ChannelExclusive ==
    \A c \in Callers : at[c] \in OnChannel => Holds(c)

\* A taint check answers with a value the kernel had during the call, so that
\* the scheduler's comparison of two answers blames the test between them.
TaintFresh ==
    \A c \in Callers : answer[c] # -1 => answer[c] \in seen[c]

\* That holds as long as no check is dropped while it probes, whatever else is
\* dropped and however the callers of taint_begin() and taint_end() interleave.
TaintFreshUnlessDropped == ~dropped => TaintFresh

\* Caller c is at an await of the channel that does not end.
NeverAnswered(c) ==
    \/ at[c] = "stuck"
    \/ at[c] \in {"probe", "command", "reply"} /\ op[c] # "Info" /\ ~Ends

\* Every call returns, unless it awaits the channel for ever itself or waits for
\* the mutex behind a taint check, a ping, a query or a call of the channel's
\* lifecycle that does: the FIFO lock starves nobody, run_command, which takes it
\* twice, does not lose it for ever in between, the retries of communicate()
\* end, and a test that hangs on a shared handle does not keep stop() from the
\* SUT ("Only hold the SUT lock long enough to obtain a handle").
CallsReturn ==
    \A c \in Callers : at[c] # "idle" ~>
        \/ at[c] = "idle" \/ NeverAnswered(c)
        \/ at[c] \in {"lock", "handle"}
           /\ \E d \in Callers : Holds(d) /\ NeverAnswered(d) /\ at[d] # "command"

=============================================================================
