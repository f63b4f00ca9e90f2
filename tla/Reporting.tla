----------------------------- MODULE Reporting -----------------------------
(***************************************************************************)
(* What the user sees of a session: the console interfaces of              *)
(* crates/kirk-support/src/ui.rs and the JSON monitor of monitor.rs, fed   *)
(* through the event registry by the session and the schedulers, and wired *)
(* up and shut down by run_session() of crates/kirk-cli/src/session.rs.    *)
(*                                                                         *)
(* The tests are run by the schedulers of TestScheduler and SuiteScheduler; *)
(* here they appear only as the order in which run_one() fires its events. *)
(* Text is abstracted: the screen is the sequence of the result lines, and *)
(* the monitor file shows the last event it was meant to, or does not.     *)
(*                                                                         *)
(* In the mode "api" there is no session: clients call the registry        *)
(* directly, in any order, with handlers that may fail.                    *)
(***************************************************************************)
EXTENDS EventRegistry

CONSTANTS
    Tests,      \* the tests of the suite
    ParTests,   \* those that are parallelizable
    WorkerCounts,   \* the values of --workers
    MaxRuns,    \* bound: how often one test is started
    MaxQueue,   \* bound: dispatches queued when the session fires another
    MaxCalls    \* bound: registry calls in the mode "api"

ASSUME ReportingAssumption ==
    /\ IsFiniteSet(Tests) /\ ParTests \subseteq Tests
    /\ WorkerCounts \subseteq Nat \ {0}
    /\ MaxRuns \in Nat \ {0}
    /\ MaxQueue \in Nat \ {0} /\ MaxCalls \in Nat

VARIABLES
    mode,     \* "session" or "api"
    workers,  \* --workers
    ui,       \* the selected interface: its kind and its state
    screen,   \* history: the result lines printed
    file,     \* the monitor's file shows the "last" event, or has "lost" it
    sess,     \* where run_session() is
    run,      \* test -> where run_one() is
    status,   \* test -> the TestStatus it ended with
    runs,     \* test -> how often it was started
    calls     \* registry calls made in the mode "api"

rpVars == <<mode, workers, ui, screen, file, sess, run, status, runs, calls>>
vars == <<evVars, rpVars>>

(***************************************************************************)
(* Registrations.  All of them are unordered.                              *)
(***************************************************************************)
EVENT_TYPES ==
    {"session_restore", "session_started", "session_stopped", "sut_stdout", "sut_start",
     "sut_stop", "sut_restart", "sut_not_responding", "run_cmd_start", "run_cmd_stop",
     "test_stdout", "test_started", "test_completed", "test_timed_out", "suite_started",
     "suite_completed", "suite_timeout", "session_warning", "session_error",
     "kernel_panic", "kernel_tainted"}

attach_session_events ==
    {"session_restore", "session_started", "session_stopped", "sut_start", "sut_stop",
     "sut_restart", "session_warning", "session_error", "session_dry_run_command",
     "session_dry_run", "session_completed"}
attach_command_events == {"run_cmd_start", "run_cmd_stdout", "run_cmd_stop"}
attach_suite_events == {"suite_started", "suite_completed", "suite_timeout"}
attach_console == attach_session_events \union attach_command_events \union attach_suite_events

attach_simple ==
    {"sut_not_responding", "kernel_panic", "kernel_tainted", "test_timed_out",
     "test_started", "test_completed"}
attach_verbose ==
    {"sut_stdout", "kernel_tainted", "test_stdout", "test_timed_out", "test_started",
     "test_completed"}
attach_parallel ==
    {"sut_not_responding", "kernel_panic", "kernel_tainted", "suite_started",
     "test_timed_out", "test_completed"}
attach_ui(kind) ==
    CASE kind = "simple" -> attach_simple
      [] kind = "verbose" -> attach_verbose
      [] kind = "parallel" -> attach_parallel

registerEach(evs, names, h) ==
    [name \in DOMAIN evs \union names |->
        IF name \in names THEN register(evs, name, h, FALSE)[name] ELSE evs[name]]

\* The registry as run_session() leaves it before the session starts.
Attached(kind, monitored) ==
    LET console == registerEach(new, attach_console, "console")
        screens == registerEach(console, attach_ui(kind), "ui")
    IN  IF monitored THEN registerEach(screens, EVENT_TYPES, "monitor") ELSE screens

select_ui(verbose) ==
    IF workers > 1 THEN "parallel" ELSE IF verbose THEN "verbose" ELSE "simple"

(***************************************************************************)
(* The interfaces.  A kernel event sets a flag; the next completed test    *)
(* consumes it.  The simple interface then prints no result line, the      *)
(* parallel one prints the flag as that test's result.                     *)
(***************************************************************************)
NewUi(kind) ==
    [kind |-> kind, sut_not_responding |-> FALSE, kernel_panic |-> FALSE,
     kernel_tainted |-> FALSE, timed_out |-> FALSE, total |-> 0, done |-> 0,
     num_suites |-> 1]

Flags(u) == {f \in {"timed_out", "sut_not_responding", "kernel_panic"} : u[f]}
Cleared(u) == [u EXCEPT !.timed_out = FALSE, !.sut_not_responding = FALSE, !.kernel_panic = FALSE]

Line(t, shown, tainted) == [test |-> t, shown |-> shown, tainted |-> tainted]

\* Mutant: a taint hides the result, as a panic does.
SimpleTaintHides(u, item) ==
    LET hides == Flags(u) # {} \/ u.kernel_tainted
    IN  CASE item.ev \in {"sut_not_responding", "kernel_panic", "kernel_tainted"} ->
                <<[u EXCEPT ![item.ev] = TRUE], <<>> >>
          [] item.ev = "test_completed" /\ hides ->
                <<[Cleared(u) EXCEPT !.kernel_tainted = FALSE], <<>> >>
          [] item.ev = "test_completed" /\ ~hides -> <<u, <<Line(item.arg, "result", FALSE)>> >>
          [] OTHER -> <<u, <<>> >>

\* SimpleUi: the new state, and the result line that is printed.
SimpleUi(u, item) ==
    CASE item.ev \in {"sut_not_responding", "kernel_panic", "kernel_tainted"} ->
            <<[u EXCEPT ![item.ev] = TRUE], <<>> >>
      [] item.ev = "test_timed_out" -> <<[u EXCEPT !.timed_out = TRUE], <<>> >>
      [] item.ev = "test_completed" /\ Flags(u) # {} -> <<Cleared(u), <<>> >>
      [] item.ev = "test_completed" /\ Flags(u) = {} ->
            <<[u EXCEPT !.kernel_tainted = FALSE], <<Line(item.arg, "result", u.kernel_tainted)>> >>
      [] OTHER -> <<u, <<>> >>

\* VerboseUi prints every result; nothing but a timeout is kept.
VerboseUi(u, item) ==
    CASE item.ev = "test_timed_out" -> <<[u EXCEPT !.timed_out = TRUE], <<>> >>
      [] item.ev = "test_completed" ->
            <<[u EXCEPT !.timed_out = FALSE], <<Line(item.arg, "result", FALSE)>> >>
      [] OTHER -> <<u, <<>> >>

\* ParallelUi: the flags in the order in which they hide each other.
ParallelUi(u, item) ==
    CASE item.ev \in {"sut_not_responding", "kernel_panic", "kernel_tainted"} ->
            <<[u EXCEPT ![item.ev] = TRUE], <<>> >>
      [] item.ev = "test_timed_out" -> <<[u EXCEPT !.timed_out = TRUE], <<>> >>
      [] item.ev = "suite_started" ->
            <<[u EXCEPT !.total = @ + Cardinality(ParTests)], <<>> >>
      [] item.ev = "test_completed" ->
            LET shown == IF u.timed_out THEN "timed_out"
                         ELSE IF u.sut_not_responding THEN "sut_not_responding"
                         ELSE IF u.kernel_panic THEN "kernel_panic" ELSE "result"
            IN  <<[Cleared(u) EXCEPT !.kernel_tainted = FALSE,
                                     !.done = IF item.arg \in ParTests THEN @ + 1 ELSE @],
                  <<Line(item.arg, shown, u.kernel_tainted /\ shown = "result")>> >>
      [] OTHER -> <<u, <<>> >>

UiHandler(u, item) ==
    CASE u.kind = "simple" -> SimpleUi(u, item)
      [] u.kind = "verbose" -> VerboseUi(u, item)
      [] u.kind = "parallel" -> ParallelUi(u, item)

\* ConsoleUi remembers the number of suites; the rest is printing.
ConsoleUi(u, item) ==
    IF item.ev = "session_started" THEN [u EXCEPT !.num_suites = item.arg] ELSE u

(***************************************************************************)
(* A handler finishes.  JSONFileMonitor.record() opens the file with "w",  *)
(* which empties it, writes the document and closes: it fails before the   *)
(* file is emptied or after, and the last event is lost either way.        *)
(***************************************************************************)
\* What a recorder of the monitor leaves in the file, done well or not.
record(ok) == IF ok THEN "last" ELSE "lost"

Handler(i, ok) ==
    /\ mode = "session"
    /\ RunHandler(i, ok)
    /\ LET h == pump.todo[i]
       IN  \/ /\ h = "console" /\ ok
              /\ ui' = ConsoleUi(ui, pump.item)
              /\ UNCHANGED <<screen, file>>
           \/ /\ h = "ui" /\ ok
              /\ ui' = UiHandler(ui, pump.item)[1]
              /\ screen' = screen \o UiHandler(ui, pump.item)[2]
              /\ UNCHANGED file
           \/ /\ h = "monitor"
              /\ file' = record(ok)
              /\ UNCHANGED <<ui, screen>>
    /\ UNCHANGED <<mode, workers, sess, run, status, runs, calls>>

(***************************************************************************)
(* The session, as far as it fires events.                                 *)
(***************************************************************************)
Fires(name, arg) ==
    /\ mode = "session" /\ Len(queue) < MaxQueue
    /\ fire(name, arg)
    /\ UNCHANGED <<events, pump, taken, ran, stops, mode, workers, ui, screen, file, calls>>

Session(from, to, name, arg) ==
    /\ sess = from /\ sess' = to
    /\ Fires(name, arg)
    /\ UNCHANGED <<run, status, runs>>

SessionStarted == Session("new", "run", "session_started", 1)
SuiteStarted == Session("run", "suite", "suite_started", 0)
\* The round is dropped, with the tests that were running.
SuiteTimeout == Session("suite", "suite_over", "suite_timeout", 0)
SuiteCompleted ==
    \/ Session("suite_over", "suite_done", "suite_completed", 0)
    \/ /\ \A t \in Tests : run[t] \in {"new", "done"}
       /\ Session("suite", "suite_done", "suite_completed", 0)
SessionCompleted == Session("suite_done", "ended", "session_completed", 0)
\* Ctrl-C: the run is dropped and the session stopped.
Interrupt ==
    \E from \in {"new", "run", "suite", "suite_over", "suite_done"} :
        Session(from, "ended", "session_stopped", 0)

InFlight(phases) == {t \in Tests : run[t] \in phases}

\* A permit is free.  A sequential test waits for the whole of the one before.
MayStart(t) ==
    IF workers > 1 /\ t \in ParTests
    THEN /\ InFlight({"started", "row", "completed"}) \subseteq ParTests
         /\ Cardinality(InFlight({"started", "row"})) < workers
    ELSE /\ InFlight({"started", "row", "completed"}) = {}
         /\ workers > 1 => \A p \in ParTests : run[p] = "done" \/ runs[p] > 0

TestStarted(t) ==
    /\ sess = "suite" /\ run[t] = "new" /\ runs[t] < MaxRuns /\ MayStart(t)
    /\ run' = [run EXCEPT ![t] = "started"]
    /\ runs' = [runs EXCEPT ![t] = @ + 1]
    /\ Fires("test_started", t)
    /\ UNCHANGED <<sess, status>>

\* exec_test() without a row: nothing is reported and the test may come again.
NoRow(t) ==
    /\ mode = "session" /\ sess = "suite" /\ run[t] = "started"
    /\ run' = [run EXCEPT ![t] = "new"]
    /\ UNCHANGED <<evVars, mode, workers, ui, screen, file, sess, status, runs, calls>>

KernelEvent ==
    [KernelTainted |-> "kernel_tainted", KernelPanic |-> "kernel_panic",
     KernelTimeout |-> "sut_not_responding"]

\* exec_test(): a tainted kernel is announced before the test is completed ...
Diagnose(t, st) ==
    /\ sess = "suite" /\ run[t] = "started"
    /\ run' = [run EXCEPT ![t] = "row"]
    /\ status' = [status EXCEPT ![t] = st]
    /\ IF st = "KernelTainted" THEN Fires("kernel_tainted", t)
       ELSE mode = "session" /\ UNCHANGED <<evVars, mode, workers, ui, screen, file, calls>>
    /\ UNCHANGED <<sess, runs>>

TestCompleted(t) ==
    /\ sess = "suite" /\ run[t] = "row"
    /\ run' = [run EXCEPT ![t] = IF status[t] \in DOMAIN KernelEvent THEN "completed" ELSE "done"]
    /\ Fires("test_completed", t)
    /\ UNCHANGED <<sess, status, runs>>

\* ... and every kernel error, that one again, after it.
RaiseKernelError(t) ==
    /\ sess = "suite" /\ run[t] = "completed"
    /\ run' = [run EXCEPT ![t] = "done"]
    /\ Fires(KernelEvent[status[t]], t)
    /\ UNCHANGED <<sess, status, runs>>

(***************************************************************************)
(* The end of run_session(): the monitor is detached, which removes every  *)
(* handler of its events; then the registry is stopped and waited for.     *)
(***************************************************************************)
detach ==
    /\ mode = "session" /\ sess = "ended"
    /\ sess' = "detached"
    /\ events' = IF \E name \in DOMAIN events : Contains(events[name].handlers, "monitor")
                 THEN unregisterAll(events, EVENT_TYPES) ELSE events
    /\ UNCHANGED <<queue, pump, fired, taken, ran, stops, mode, workers, ui, screen, file, run, status, runs, calls>>

StopEvents ==
    /\ mode = "session" /\ sess = "detached"
    /\ sess' = "stopping"
    /\ stop
    /\ UNCHANGED <<events, pump, fired, taken, ran, mode, workers, ui, screen, file, run, status, runs, calls>>

Exit ==
    /\ mode = "session" /\ sess = "stopping" /\ pump.pc = "off"
    /\ sess' = "exit"
    /\ UNCHANGED <<evVars, mode, workers, ui, screen, file, run, status, runs, calls>>

(***************************************************************************)
(* The mode "api": any calls, any handlers.                                *)
(***************************************************************************)
ApiEvents == {"event", INTERNAL_ERROR}
ApiHandlers == {"h1", "h2"}

Api(op) ==
    /\ mode = "api" /\ calls < MaxCalls /\ calls' = calls + 1
    /\ UNCHANGED <<mode, workers, ui, screen, file, sess, run, status, runs>>
    /\ op

SetEvents(evs) == events' = evs /\ UNCHANGED <<queue, pump, fired, taken, ran, stops>>

ApiCall ==
    \/ \E name \in ApiEvents, h \in ApiHandlers, ord \in BOOLEAN :
            Api(SetEvents(register(events, name, h, ord)))
    \/ \E name \in ApiEvents, h \in ApiHandlers : Api(SetEvents(unregister(events, name, h)))
    \/ \E name \in ApiEvents : Api(SetEvents(unregisterAll(events, {name})))
    \/ Api(SetEvents(unregisterAll(events, DOMAIN events)))   \* reset()
    \/ \E name \in ApiEvents : Api(fire(name, 0) /\ UNCHANGED <<events, pump, taken, ran, stops>>)
    \/ Api(stop /\ UNCHANGED <<events, pump, fired, taken, ran>>)
    \/ Api(start)

ApiHandler(i, ok) == mode = "api" /\ RunHandler(i, ok) /\ UNCHANGED rpVars

(***************************************************************************)
(* The specification.                                                      *)
(***************************************************************************)
\* A TestStatus::TestTimeout fires what an Ok does: no test_timed_out.
Statuses == {"Ok"} \union DOMAIN KernelEvent

Init ==
    /\ queue = <<>> /\ fired = <<>> /\ taken = 0 /\ ran = <<>> /\ stops = 0
    /\ screen = <<>> /\ file = "lost" /\ calls = 0
    /\ workers \in WorkerCounts
    /\ run = [t \in Tests |-> "new"]
    /\ status = [t \in Tests |-> "Ok"]
    /\ runs = [t \in Tests |-> 0]
    /\ \/ /\ mode = "session" /\ sess = "new"
          /\ pump = [Idle EXCEPT !.pc = "recv"]
          /\ \E verbose, monitored \in BOOLEAN :
                /\ ui = NewUi(select_ui(verbose))
                /\ events = Attached(select_ui(verbose), monitored)
       \/ /\ mode = "api" /\ sess = "none"
          /\ pump = Idle
          /\ ui = NewUi("simple")
          /\ events = new

Pump == PumpStep /\ UNCHANGED rpVars
Handlers ==
    \/ \E i \in 1..Len(pump.todo), ok \in BOOLEAN : Handler(i, ok)
    \/ \E i \in 1..Len(pump.todo), ok \in BOOLEAN : ApiHandler(i, ok)

Next ==
    \/ Pump \/ Handlers
    \/ SessionStarted \/ SuiteStarted \/ SuiteTimeout \/ SuiteCompleted
    \/ SessionCompleted \/ Interrupt
    \/ \E t \in Tests : \/ TestStarted(t) \/ NoRow(t) \/ TestCompleted(t)
                        \/ RaiseKernelError(t)
                        \/ \E st \in Statuses : Diagnose(t, st)
    \/ detach \/ StopEvents \/ Exit
    \/ ApiCall

\* The runtime runs the pump's task and its handlers, none of which waits
\* for another task, and run_session() goes on once the pump has returned.
Fairness == WF_vars(Pump) /\ WF_vars(Handlers) /\ WF_vars(Exit)

Spec == Init /\ [][Next]_vars /\ Fairness

(***************************************************************************)
(* Properties.                                                             *)
(***************************************************************************)
\* start() handles the dispatches in the order of their fire() calls, one
\* after the other: for every dispatch it took, each handler registered when
\* the event was fired runs exactly once, in order for an ordered event, and
\* all of them have ended before the next dispatch is taken.  What it has not
\* taken is still queued, all of it and in that order.
Queued == {i \in 1..Len(queue) : queue[i] # StopItem}
HandledInOrder ==
    /\ taken > 0 =>
        LET hs == fired[taken].hs
            all == ran \o (IF Executing THEN pump.todo ELSE <<>>)
            Count(s, h) == Cardinality({i \in 1..Len(s) : s[i] = h})
        IN  /\ \A h \in Range(hs) \union Range(all) : Count(all, h) = Count(hs, h)
            /\ fired[taken].ordered => all = hs
    /\ {queue[i] : i \in Queued} = {fired[k] : k \in (taken + 1)..Len(fired)}
    /\ \A i, j \in Queued : i < j => queue[i].id < queue[j].id

\* stop() called once never loses an event: when start() returns, everything
\* fired up to that moment has been handled, also what was fired after stop();
\* and start() does return, so that run_session(), which waits for it, exits.
DrainsQueue == [][pump.pc # "off" /\ pump'.pc = "off" /\ stops = 1 => queue' = <<>>]_vars
DrainedByStop ==
    /\ DrainsQueue
    /\ (sess = "stopping") ~> (sess = "exit")

\* How often an event of these names has reached the interface.
Reached(names) ==
    {i \in 1..taken : /\ fired[i].ev \in names /\ Contains(fired[i].hs, "ui")
                      /\ i < taken \/ ~Executing \/ Contains(ran, "ui")}
ShownAsIs(t) == \E k \in 1..Len(screen) : screen[k].test = t /\ screen[k].shown = "result"

\* The interfaces lose or falsify at most one result line for each kernel
\* panic or dead SUT announced, and mark at most one line for each taint
\* announced; and the parallel interface never counts more tests done than it
\* announced for the suite.
BlameBounded ==
    /\ Cardinality({i \in Reached({"test_completed"}) : ~ShownAsIs(fired[i].arg)})
         <= Cardinality(Reached({"kernel_panic", "sut_not_responding"}))
    /\ Cardinality({k \in 1..Len(screen) : screen[k].tainted})
         <= Cardinality(Reached({"kernel_tainted"}))
    /\ ui.done <= ui.total

\* "sets state consumed by the next `test_completed`, which prints the message
\* as that test's result" (ParallelUi::kernel_panic): the test shown with a
\* kernel panic is the one that met it.
OwnVerdict ==
    \A k \in 1..Len(screen) :
        screen[k].shown = "kernel_panic" => status[screen[k].test] = "KernelPanic"
============================================================================
