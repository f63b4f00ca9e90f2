---------------------------- MODULE ShellChannel ----------------------------
(***************************************************************************)
(* The shell channel of crates/kirk-com-shell/src/lib.rs: commands are     *)
(* local processes, each the leader of its own process group.  Clones of   *)
(* the channel share one Inner, so commands, pings, fetches and stop() of  *)
(* different tasks interleave; a call is dropped at an await when a        *)
(* timeout or a session stop abandons it.                                  *)
(*                                                                         *)
(* A process group is one process here: what it prints is abstracted to    *)
(* whether it ever printed the panic marker or passed the output cap.  A   *)
(* background member that closed its output is not modelled.               *)
(***************************************************************************)
EXTENDS Integers, FiniteSets

CONSTANTS
    ShCmds,        \* calls of run_command() and ping(), one process each
    ShFetches,     \* calls of fetch_file()
    ShMaxSessions  \* bound: successful calls of communicate()

ASSUME ShellAssumption == ShMaxSessions \in Nat

VARIABLES
    shActive,   \* LifecycleState.active
    shPids,     \* LifecycleState.pids
    shSessions, \* number of successful communicate() calls
    shCmd,      \* call -> where run_command() is, or what it returned
    shProc,     \* call -> its process: "none", "live", "exited" or "killed" (to be
                \*         reaped), "reaped"
    shOut,      \* call -> what its reader has seen: "panic", "cap", and how it ended
    shStop,     \* where stop() is: "idle", "kill", "wait" or "fetch"
    shTaken,    \* the pids stop() took from the list and waits for
    shFetch     \* call -> "idle", "want", "reading" (fetch_lock held) or "end"

shVars == <<shActive, shPids, shSessions, shCmd, shProc, shOut, shStop, shTaken, shFetch>>

ShDead == {"exited", "killed"}
ShReturned == {"exited", "killed", "err", "panic"}

ShInit ==
    /\ shActive = FALSE /\ shPids = {} /\ shSessions = 0
    /\ shCmd = [c \in ShCmds |-> "new"]
    /\ shProc = [c \in ShCmds |-> "none"]
    /\ shOut = [c \in ShCmds |-> {}]
    /\ shStop = "idle" /\ shTaken = {}
    /\ shFetch = [f \in ShFetches |-> "idle"]

\* kill_process_group() of these pids: only a live process feels it.
kill_process_group(pids) ==
    shProc' = [c \in ShCmds |-> IF c \in pids /\ shProc[c] = "live" THEN "killed" ELSE shProc[c]]

ShGoto(c, pc) == shCmd' = [shCmd EXCEPT ![c] = pc]

(***************************************************************************)
(* communicate() and stop().                                               *)
(***************************************************************************)
ShCommunicate ==
    /\ ~shActive /\ shSessions < ShMaxSessions
    /\ shActive' = TRUE
    /\ shSessions' = shSessions + 1
    /\ UNCHANGED <<shPids, shCmd, shProc, shOut, shStop, shTaken, shFetch>>

\* Under the lock: an inactive channel has nothing to stop.
ShStopTake ==
    /\ shStop = "idle" /\ shActive
    /\ shActive' = FALSE
    /\ shTaken' = shPids
    /\ shPids' = {}
    /\ shStop' = "kill"
    /\ UNCHANGED <<shSessions, shCmd, shProc, shOut, shFetch>>

ShStopKill ==
    /\ shStop = "kill"
    /\ kill_process_group(shTaken)
    /\ shStop' = "wait"
    /\ UNCHANGED <<shActive, shPids, shSessions, shCmd, shOut, shTaken, shFetch>>

\* wait_for_exit(): a process is gone once its owner reaped it, or 5 s pass.
wait_for_exit(c) ==
    /\ shStop = "wait" /\ c \in shTaken
    /\ shTaken' = shTaken \ {c}
    /\ UNCHANGED <<shActive, shPids, shSessions, shCmd, shProc, shOut, shStop, shFetch>>

ShStopJoined ==
    /\ shStop = "wait" /\ shTaken = {}
    /\ shStop' = "fetch"
    /\ UNCHANGED <<shActive, shPids, shSessions, shCmd, shProc, shOut, shTaken, shFetch>>

fetch_lock_free == \A f \in ShFetches : shFetch[f] # "reading"

\* The lock of fetch_file() is taken and given back.
ShStopReturn ==
    /\ shStop = "fetch" /\ fetch_lock_free
    /\ shStop' = "idle"
    /\ UNCHANGED <<shActive, shPids, shSessions, shCmd, shProc, shOut, shTaken, shFetch>>

\* stop() is dropped at one of its awaits; everything is killed already.
ShStopDrop ==
    /\ shStop \in {"wait", "fetch"}
    /\ shStop' = "idle" /\ shTaken' = {}
    /\ UNCHANGED <<shActive, shPids, shSessions, shCmd, shProc, shOut, shFetch>>

(***************************************************************************)
(* run_command().                                                          *)
(***************************************************************************)
\* The look at `active` and the spawn, which other threads may separate
\* from the registration.  An empty command or a failed spawn is an error.
ShSpawn(c) ==
    /\ shCmd[c] = "new"
    /\ IF shActive
       THEN \/ ShGoto(c, "spawned") /\ shProc' = [shProc EXCEPT ![c] = "live"]
            \/ ShGoto(c, "err") /\ UNCHANGED shProc
       ELSE ShGoto(c, "err") /\ UNCHANGED shProc
    /\ UNCHANGED <<shActive, shPids, shSessions, shOut, shStop, shTaken, shFetch>>

\* Mutant: the process is tracked whether or not the channel is still active.
ShRegisterAlways(c) ==
    /\ shCmd[c] = "spawned"
    /\ shPids' = shPids \union {c} /\ ShGoto(c, "reading")
    /\ UNCHANGED <<shActive, shSessions, shProc, shOut, shStop, shTaken, shFetch>>

\* try_register(): when stop() won the race, the caller kills what it started.
ShRegister(c) ==
    /\ shCmd[c] = "spawned"
    /\ IF shActive
       THEN /\ shPids' = shPids \union {c} /\ ShGoto(c, "reading")
            /\ UNCHANGED shProc
       ELSE /\ kill_process_group({c}) /\ ShGoto(c, "lost")
            /\ UNCHANGED shPids
    /\ UNCHANGED <<shActive, shSessions, shOut, shStop, shTaken, shFetch>>

\* The killed process is reaped by wait(), or by the runtime if the call is dropped.
ShLost(c) ==
    /\ shCmd[c] = "lost"
    /\ shProc' = [shProc EXCEPT ![c] = "reaped"]
    /\ ShGoto(c, "err")
    /\ UNCHANGED <<shActive, shPids, shSessions, shOut, shStop, shTaken, shFetch>>

\* A chunk with the panic marker, or one beyond the cap: the latter kills and reads on.
ShRead(c, what) ==
    /\ shCmd[c] = "reading" /\ shProc[c] # "none"
    /\ what \notin shOut[c]
    /\ what = "panic" => "cap" \notin shOut[c]
    /\ shOut' = [shOut EXCEPT ![c] = @ \union {what}]
    /\ IF what = "cap" THEN kill_process_group({c}) ELSE UNCHANGED shProc
    /\ UNCHANGED <<shActive, shPids, shSessions, shCmd, shStop, shTaken, shFetch>>

\* The process ends by itself: the end of its output follows.
ShProcExit(c) ==
    /\ shProc[c] = "live"
    /\ shProc' = [shProc EXCEPT ![c] = "exited"]
    /\ UNCHANGED <<shActive, shPids, shSessions, shCmd, shOut, shStop, shTaken, shFetch>>

\* End of output, then wait(): the process is reaped, still tracked.  exit_code()
\* makes a negative code of a kill.
ShReap(c) ==
    /\ shCmd[c] = "reading" /\ shProc[c] \in ShDead
    /\ shProc' = [shProc EXCEPT ![c] = "reaped"]
    /\ shOut' = [shOut EXCEPT ![c] = @ \union {shProc[c]}]
    /\ ShGoto(c, "reaped")
    /\ UNCHANGED <<shActive, shPids, shSessions, shStop, shTaken, shFetch>>

\* disarm() and the result: a panic hides the cap, the cap hides the exit code.
ShReturn(c) ==
    /\ shCmd[c] = "reaped"
    /\ shPids' = shPids \ {c}
    /\ ShGoto(c, IF "panic" \in shOut[c] THEN "panic"
               ELSE IF "cap" \in shOut[c] THEN "err"
               ELSE IF "killed" \in shOut[c] THEN "killed" ELSE "exited")
    /\ shOut' = [shOut EXCEPT ![c] = {}]
    /\ UNCHANGED <<shActive, shSessions, shProc, shStop, shTaken, shFetch>>

\* The call is dropped, or fails to read or to write to the buffer: the guard
\* leaves the list, and kills.
ShDrop(c) ==
    /\ shCmd[c] = "reading"
    /\ shPids' = shPids \ {c}
    /\ ShGoto(c, "dropping")
    /\ UNCHANGED <<shActive, shSessions, shProc, shOut, shStop, shTaken, shFetch>>

ShDropKill(c) ==
    /\ shCmd[c] = "dropping"
    /\ kill_process_group({c})
    /\ shOut' = [shOut EXCEPT ![c] = {}]
    /\ ShGoto(c, "err")
    /\ UNCHANGED <<shActive, shPids, shSessions, shStop, shTaken, shFetch>>

(***************************************************************************)
(* fetch_file(): checks, the lock, the blocking read.                      *)
(***************************************************************************)
ShFetchStep(f, from, to) ==
    /\ shFetch[f] = from
    /\ shFetch' = [shFetch EXCEPT ![f] = to]
    /\ UNCHANGED <<shActive, shPids, shSessions, shCmd, shProc, shOut, shStop, shTaken>>

ShFetchFile(f) ==
    \/ ShFetchStep(f, "idle", IF shActive THEN "want" ELSE "end")
    \/ fetch_lock_free /\ ShFetchStep(f, "want", "reading")

\* What the runtime does by itself; a read of a local file ends.
ShStep ==
    \/ ShStopKill \/ ShStopJoined \/ ShStopReturn
    \/ \E c \in ShCmds :
        wait_for_exit(c) \/ ShRegister(c) \/ ShLost(c) \/ ShReap(c) \/ ShReturn(c) \/ ShDropKill(c)
    \/ \E f \in ShFetches : ShFetchStep(f, "reading", "end")

ShNext ==
    \/ ShStep
    \/ ShCommunicate \/ ShStopTake \/ ShStopDrop
    \/ \E c \in ShCmds :
        \/ ShSpawn(c) \/ ShProcExit(c) \/ ShDrop(c)
        \/ \E what \in {"panic", "cap"} : ShRead(c, what)
    \/ \E f \in ShFetches : ShFetchFile(f)

(***************************************************************************)
(* Properties.                                                             *)
(***************************************************************************)
ShTypeOK ==
    /\ shActive \in BOOLEAN /\ shPids \subseteq ShCmds /\ shTaken \subseteq ShCmds
    /\ shSessions \in 0..ShMaxSessions
    /\ shCmd \in [ShCmds -> {"new", "spawned", "lost", "reading", "reaped", "dropping"} \union ShReturned]
    /\ shProc \in [ShCmds -> {"none", "live", "reaped"} \union ShDead]
    /\ shOut \in [ShCmds -> SUBSET {"panic", "cap", "exited", "killed"}]
    /\ shStop \in {"idle", "kill", "wait", "fetch"}
    /\ shFetch \in [ShFetches -> {"idle", "want", "reading", "end"}]

\* No process runs behind the channel's back: a live process is tracked by an
\* active channel, or stop() is about to kill it, or the call that started it
\* is about to register or kill it.  In particular nothing survives stop() or
\* a dropped call, however they race with the spawn.
NoOrphan ==
    /\ shPids # {} => shActive
    /\ \A c \in ShCmds :
        shProc[c] = "live" =>
            \/ c \in shPids /\ shCmd[c] = "reading"
            \/ c \in shTaken /\ shStop = "kill"
            \/ shCmd[c] \in {"spawned", "dropping"}

\* stop() is in progress, or a command whose process was killed has not returned.
ShStuck ==
    \/ shStop # "idle"
    \/ \E c \in ShCmds : shProc[c] = "killed" /\ shCmd[c] \notin ShReturned
=============================================================================
