----------------------------- MODULE QemuChannel -----------------------------
(***************************************************************************)
(* The QEMU channel of crates/kirk-com-qemu/src/lib.rs and expect.rs: one  *)
(* virtual machine, driven through the serial line of its shell.  Calls    *)
(* take &mut self and the channel has no concurrent handle, so there is    *)
(* one call at a time; it may be dropped at any await.  What the dropped   *)
(* call wrote is still executed by the guest, and its output comes before  *)
(* that of the next command.                                               *)
(*                                                                         *)
(* A line sent to the guest is [id, part, dir]: the call it belongs to,    *)
(* what it does, and the directory it names.  The answer to a line is its  *)
(* marker, with the directory the line ran in and whether it succeeded.    *)
(* The interrupt that stop() sends to a command in progress needs two      *)
(* calls at once and is left out.                                          *)
(***************************************************************************)
EXTENDS Integers, Sequences, FiniteSets

CONSTANTS
    QmDirs,      \* directories a command may ask for
    QmMaxCalls   \* bound: calls made

ASSUME QemuAssumption == QmMaxCalls \in Nat

VARIABLES
    qmVM,        \* "off", "boot", "shell" or "panic"
    qmFlags,     \* the flags set: subset of {"stopping", "panicked", "logged_in"}
    qmIn,        \* lines the guest has not executed
    qmOut,       \* answers not consumed: last_read and the pipe
    qmDir,       \* the directory of the guest's shell
    qmTransport, \* calls whose data is in the transport file beyond last_pos
    qmCall,      \* the call in progress
    qmCalls,     \* calls made so far
    qmLast       \* history: what the last call that returned, returned

qmVars == <<qmVM, qmFlags, qmIn, qmOut, qmDir, qmTransport, qmCall, qmCalls, qmLast>>

QmNoDir == "none"
QmIdle == [op |-> "idle", pc |-> "idle", id |-> 0, dir |-> QmNoDir, locks |-> {}]
QmNoAns == [id |-> 0, part |-> "none", ran |-> QmNoDir, ok |-> FALSE]
QmNothingYet == [op |-> "idle", id |-> 0, res |-> "none", dir |-> QmNoDir, ans |-> QmNoAns, data |-> <<>>]

QmInit ==
    /\ qmVM = "off" /\ qmFlags = {} /\ qmIn = <<>> /\ qmOut = <<>> /\ qmDir = "home"
    /\ qmTransport = <<>> /\ qmCall = QmIdle /\ qmCalls = 0 /\ qmLast = QmNothingYet

is_active == qmVM # "off"
QmAt(op, pc) == qmCall.op = op /\ qmCall.pc = pc
QmGoto(pc) == qmCall' = [qmCall EXCEPT !.pc = pc]
QmSet(flag) == qmFlags' = qmFlags \union {flag}
QmClear(flag) == qmFlags' = qmFlags \ {flag}

\* The call returns: its locks are released.
QmReturn(res, ans, data) ==
    /\ qmCall' = QmIdle
    /\ qmLast' = [op |-> qmCall.op, id |-> qmCall.id, res |-> res, dir |-> qmCall.dir,
                  ans |-> ans, data |-> data]
QmFail(res) == QmReturn(res, QmNoAns, <<>>)

\* The machine stops, with everything it was doing.
QmPowerOff ==
    /\ qmVM' = "off" /\ qmIn' = <<>> /\ qmDir' = "home"

(***************************************************************************)
(* A call starts.  communicate() refuses a running machine, the others a   *)
(* machine that does not run; stop() is content with one.                  *)
(***************************************************************************)
QmBegin(op, dir) ==
    /\ qmCall.op = "idle" /\ qmCalls < QmMaxCalls
    /\ qmCalls' = qmCalls + 1
    /\ qmCall' = [op |-> op, pc |-> "begin", id |-> qmCalls + 1, dir |-> dir, locks |-> {}]
    /\ UNCHANGED <<qmVM, qmFlags, qmIn, qmOut, qmDir, qmTransport, qmLast>>

QmRefuse ==
    /\ qmCall.pc = "begin"
    /\ \/ qmCall.op = "communicate" /\ is_active
       \/ qmCall.op \in {"run", "ping", "fetch"} /\ ~is_active
    /\ QmFail("err")
    /\ UNCHANGED <<qmVM, qmFlags, qmIn, qmOut, qmDir, qmTransport, qmCalls>>

(***************************************************************************)
(* communicate(): reset, spawn, login.  A login that fails with a          *)
(* communication error shuts the machine down, while comm_lock is held.    *)
(***************************************************************************)
QmSpawn ==
    /\ QmAt("communicate", "begin") /\ ~is_active
    /\ qmFlags' = {}
    /\ qmOut' = <<>> /\ qmTransport' = <<>>
    /\ \/ /\ qmVM' = "boot"
          /\ qmCall' = [qmCall EXCEPT !.pc = "login", !.locks = {"comm"}]
          /\ UNCHANGED qmLast
       \/ QmFail("err") /\ UNCHANGED qmVM
    /\ UNCHANGED <<qmIn, qmDir, qmCalls>>

login ==
    /\ QmAt("communicate", "login")
    /\ \/ /\ qmVM = "boot"                        \* the whole dialogue succeeds
          /\ qmVM' = "shell"
          /\ QmSet("logged_in") /\ QmFail("ok")
       \/ /\ QmGoto("stop")                         \* a timeout, or a step that failed
          /\ UNCHANGED <<qmVM, qmFlags, qmLast>>
       \/ /\ qmVM = "panic"
          /\ QmSet("panicked") /\ QmFail("panic")
          /\ UNCHANGED qmVM
    /\ UNCHANGED <<qmIn, qmOut, qmDir, qmTransport, qmCalls>>

(***************************************************************************)
(* stop_inner(), called by stop() and by a failed communicate().           *)
(***************************************************************************)
QmStopResult == IF qmCall.op = "stop" THEN "ok" ELSE "err"

QmStopBegin ==
    /\ QmAt("stop", "begin") \/ QmAt("communicate", "stop")
    /\ IF ~is_active
       THEN QmFail(QmStopResult) /\ UNCHANGED qmFlags
       ELSE /\ QmSet("stopping")
            /\ QmGoto(IF "panicked" \notin qmFlags /\ "logged_in" \in qmFlags THEN "poweroff" ELSE "kill")
            /\ UNCHANGED qmLast
    /\ UNCHANGED <<qmVM, qmIn, qmOut, qmDir, qmTransport, qmCalls>>

\* "poweroff; poweroff -f": obeyed, or not within the deadline; a failed write
\* is the result of stop(), and leaves `stopping` set.
QmAskPowerOff ==
    /\ qmCall.pc = "poweroff"
    /\ \/ /\ qmVM = "shell" /\ QmPowerOff
          /\ QmGoto("kill") /\ UNCHANGED qmLast
       \/ /\ QmGoto("kill")
          /\ UNCHANGED <<qmVM, qmIn, qmDir, qmLast>>
       \/ /\ QmFail("err")
          /\ UNCHANGED <<qmVM, qmIn, qmDir>>
    /\ UNCHANGED <<qmFlags, qmOut, qmTransport, qmCalls>>

QmKill ==
    /\ qmCall.pc = "kill"
    /\ IF is_active THEN QmPowerOff /\ QmGoto("lockers")
       ELSE QmGoto("done") /\ UNCHANGED <<qmVM, qmIn, qmDir>>
    /\ UNCHANGED <<qmFlags, qmOut, qmTransport, qmCalls, qmLast>>

\* wait_lockers(): the three locks, also the one the caller itself may hold.
wait_lockers ==
    /\ qmCall.pc = "lockers" /\ qmCall.locks = {}
    /\ QmGoto("done")
    /\ UNCHANGED <<qmVM, qmFlags, qmIn, qmOut, qmDir, qmTransport, qmCalls, qmLast>>

QmStopDone ==
    /\ qmCall.pc = "done"
    /\ QmClear("stopping") /\ QmFail(QmStopResult)
    /\ UNCHANGED <<qmVM, qmIn, qmOut, qmDir, qmTransport, qmCalls>>

(***************************************************************************)
(* exec(): write the line, then wait for its marker.                       *)
(***************************************************************************)
\* The lines of a call, in order.  "cd" also stands for the exports that follow it.
QmParts(op, dir) ==
    CASE op = "run" -> IF dir = QmNoDir THEN <<"cmd">> ELSE <<"cd", "cmd">>
      [] op = "ping" -> <<"cmd">>
      [] op = "fetch" -> <<"test", "cat">>
      [] OTHER -> <<>>
QmLockOf(op) == CASE op = "run" -> {"cmd"} [] op = "fetch" -> {"fetch"} [] OTHER -> {}

QmSendLine(part) ==
    /\ qmIn' = Append(qmIn, [id |-> qmCall.id, part |-> part, dir |-> qmCall.dir])
    /\ qmCall' = [qmCall EXCEPT !.pc = part, !.locks = QmLockOf(qmCall.op)]

QmFirstLine ==
    /\ qmCall.pc = "begin" /\ qmCall.op \in {"run", "ping", "fetch"} /\ is_active
    /\ \/ QmSendLine(QmParts(qmCall.op, qmCall.dir)[1]) /\ UNCHANGED qmLast
       \/ QmFail("err") /\ UNCHANGED qmIn
    /\ UNCHANGED <<qmVM, qmFlags, qmOut, qmDir, qmTransport, qmCalls>>

\* The guest executes the next line, well or not, and prints its marker.  Only a
\* `cat` that succeeds writes to the transport.
QmGuest ==
    /\ qmVM = "shell" /\ qmIn # <<>>
    /\ \E ok \in BOOLEAN :
         LET line == Head(qmIn)
             dir == IF line.part = "cd" /\ ok THEN line.dir ELSE qmDir
         IN  /\ qmIn' = Tail(qmIn)
             /\ qmDir' = dir
             /\ qmOut' = Append(qmOut, [id |-> line.id, part |-> line.part, ran |-> dir, ok |-> ok])
             /\ qmTransport' = IF line.part = "cat" /\ ok THEN Append(qmTransport, line.id)
                               ELSE qmTransport
    /\ UNCHANGED <<qmVM, qmFlags, qmCall, qmCalls, qmLast>>

\* The guest panics, or its machine dies.
QmCrash ==
    \/ /\ qmVM \in {"boot", "shell"}
       /\ qmVM' = "panic"
       /\ UNCHANGED <<qmFlags, qmIn, qmOut, qmDir, qmTransport, qmCall, qmCalls, qmLast>>
    \/ /\ is_active /\ QmPowerOff
       /\ UNCHANGED <<qmFlags, qmOut, qmTransport, qmCall, qmCalls, qmLast>>

QmWaiting == qmCall.pc \in {"cd", "cmd", "test", "cat"}

\* Mutant: every line is answered by the same marker.
QmMarkerAny(answer) == answer.part = qmCall.pc

\* The marker of the line sent: generate_code() draws a new one for each.
QmMarker(answer) == answer.id = qmCall.id /\ answer.part = qmCall.pc

QmFound == \E k \in 1..Len(qmOut) : QmMarker(qmOut[k])
QmFirstFound == CHOOSE k \in 1..Len(qmOut) :
                 QmMarker(qmOut[k]) /\ \A j \in 1..(k - 1) : ~QmMarker(qmOut[j])

\* read_transport() reads all that was written since last_pos.
read_transport == IF qmCall.op = "fetch" THEN qmTransport ELSE <<>>

\* wait_for_message() finds the marker; what follows it stays for the next wait.
\* A return code other than 0 ends the call, except that of the command itself;
\* fetch_file() also accepts some codes of a `cat` that failed.
QmAnswer ==
    /\ QmWaiting /\ "stopping" \notin qmFlags /\ QmFound
    /\ qmOut' = SubSeq(qmOut, QmFirstFound + 1, Len(qmOut))
    /\ QmClear("panicked")
    /\ LET ans == qmOut[QmFirstFound]
           next == CASE qmCall.pc = "cd" -> "cmd" [] qmCall.pc = "test" -> "cat" [] OTHER -> "end"
       IN  \/ /\ next # "end" /\ ans.ok /\ is_active
              /\ QmSendLine(next)
              /\ UNCHANGED <<qmLast, qmTransport>>
           \/ /\ next = "end"
              /\ QmReturn("ok", ans, read_transport)
              /\ qmTransport' = IF qmCall.op = "fetch" THEN <<>> ELSE qmTransport
              /\ UNCHANGED qmIn
           \/ /\ qmCall.pc # "cmd"             \* a bad code, a failed write or read
              /\ QmFail("err")
              /\ UNCHANGED <<qmTransport, qmIn>>
    /\ UNCHANGED <<qmVM, qmDir, qmCalls>>

\* `stopping` left set by an earlier stop(): nothing is waited for, and the call
\* succeeds without an answer.  A dead machine: the same if nothing was printed,
\* otherwise the code is missing.
QmCancelled ==
    /\ QmWaiting
    /\ \/ "stopping" \in qmFlags /\ QmFail(IF qmCall.pc \in {"cd", "test"} THEN "err" ELSE "noanswer")
       \/ /\ "stopping" \notin qmFlags /\ ~is_active
          /\ \E res \in {"err"} \union IF qmCall.pc = "cmd" THEN {"noanswer"} ELSE {} : QmFail(res)
    /\ QmClear("panicked")
    /\ UNCHANGED <<qmVM, qmIn, qmOut, qmDir, qmTransport, qmCalls>>

\* What a wait had taken from the pipe when it ended without giving it back.
QmLosesOutput == \E k \in 1..(Len(qmOut) + 1) : qmOut' = SubSeq(qmOut, k, Len(qmOut))

\* The panic is seen, unless the marker came first; or the wait times out, or
\* the caller's buffer fails.
QmNoAnswer ==
    /\ QmWaiting /\ "stopping" \notin qmFlags /\ is_active /\ ~QmFound
    /\ \/ qmVM = "panic" /\ QmSet("panicked") /\ QmFail("panic") /\ qmOut' = <<>>
       \/ QmClear("panicked") /\ QmFail("err") /\ QmLosesOutput
    /\ UNCHANGED <<qmVM, qmIn, qmDir, qmTransport, qmCalls>>

\* The call is dropped at an await.  A dropped login may have reached the shell.
QmDrop ==
    /\ qmCall.pc \notin {"idle", "begin"}
    /\ QmFail("dropped")
    /\ IF QmWaiting THEN QmLosesOutput ELSE UNCHANGED qmOut
    /\ qmVM' \in {qmVM} \union IF qmCall.pc = "login" /\ qmVM = "boot" THEN {"shell"} ELSE {}
    /\ UNCHANGED <<qmFlags, qmIn, qmDir, qmTransport, qmCalls>>

\* What the runtime does by itself: every wait has a deadline.
QmStep ==
    \/ QmRefuse \/ QmSpawn \/ login \/ QmStopBegin \/ QmAskPowerOff \/ QmKill \/ wait_lockers
    \/ QmStopDone \/ QmFirstLine \/ QmAnswer \/ QmCancelled \/ QmNoAnswer

QmNext ==
    \/ \E op \in {"communicate", "stop", "ping", "fetch"} : QmBegin(op, QmNoDir)
    \/ \E dir \in QmDirs \union {QmNoDir} : QmBegin("run", dir)
    \/ QmStep \/ QmGuest \/ QmCrash \/ QmDrop

(***************************************************************************)
(* Properties.                                                             *)
(***************************************************************************)
QmTypeOK ==
    /\ qmVM \in {"off", "boot", "shell", "panic"}
    /\ qmFlags \subseteq {"stopping", "panicked", "logged_in"}
    /\ qmDir \in QmDirs \union {"home"}
    /\ qmCall.op \in {"idle", "communicate", "stop", "ping", "run", "fetch"}
    /\ qmCall.locks \subseteq {"comm", "cmd", "fetch"}
    /\ qmCalls \in 0..QmMaxCalls /\ qmCall.id \in 0..qmCalls

\* A call that was answered has the answer to its own line, and a command that
\* succeeded ran in the directory it asked for, also after dropped calls whose
\* lines the guest executes first; a file that `cat` could write ends with the
\* data asked for (before it may come the data of a dropped fetch); and a stop()
\* that succeeds has left no machine running.
QemuAnswers ==
    /\ qmLast.ans # QmNoAns => qmLast.ans.id = qmLast.id
    /\ qmLast.op = "run" /\ qmLast.res = "ok" /\ qmLast.dir # QmNoDir =>
            qmLast.ans.ran = qmLast.dir
    /\ qmLast.op = "fetch" /\ qmLast.res = "ok" /\ qmLast.ans.ok =>
            qmLast.data # <<>> /\ qmLast.data[Len(qmLast.data)] = qmLast.id
    /\ qmLast.op = "stop" /\ qmLast.res = "ok" /\ qmCall.op = "idle" => ~is_active

\* The failed login of a machine that still runs: stop_inner() waits for the
\* comm_lock its own caller holds.
QmSelfLocked == qmCall.pc = "lockers" /\ "comm" \in qmCall.locks

\* A call is in progress, and not in that one case.
QmStuck == qmCall.op # "idle" /\ ~QmSelfLocked

\* "shut down unless a stop is in progress, then re-raise as a communication
\* error" (communicate()): a communicate() whose login failed returns.
QemuFailedLoginReturns == QmAt("communicate", "stop") ~> (qmCall.op = "idle")
=============================================================================
