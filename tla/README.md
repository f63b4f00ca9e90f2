# TLA+ models of kirk-rs

kirk runs Linux kernel test suites on a system under test (SUT): it discovers
suites, schedules their tests over a communication channel, diagnoses kernel
taints, panics and hangs, reboots the SUT and reports. The interesting code is
asynchronous: rounds of tests that share a semaphore and a lock with concurrent
`stop()` calls, futures dropped at an await by a timeout or Ctrl-C, an SUT that
stops answering. This directory models that code in TLA+, checks it with TLC on
small instances and proves nearly all of the safety properties for every
instance with TLAPS.

Paths below are relative to `src/crates/`. `PROJECT.json` maps every definition
to the lines it models.

## 1. Inventory

| Component | State | Operations | Hard behaviour | What makes it correct |
|---|---|---|---|---|
| Test scheduler `kirk-scheduler/src/test_sched.rs` | results buffer, `stop_cnt`, `stopped`, `schedule_lock`, the semaphore of the running phase | `schedule`, `run_one`/`exec_test` per test, `stop` | tasks race with two kinds of `stop()`; the caller drops `schedule()`; the SUT taints, panics, hangs | slots conserved, one result per test, kernel errors raised with a result, `stop()` drains and returns |
| Suite scheduler `kirk-scheduler/src/suite_sched.rs` | `results`, `stop_flag`, `stopped`, `schedule_lock`, `reboot_lock`, tests left | `schedule`, `drive_suite`, `restart_sut`, `stop` | suite timeout drops a round; restart calls the inner `stop()` while a user's is pending | every test reported exactly once in its own suite, restart after every kernel error, progress |
| SUT handle `kirk-sut`, `CliSut` in `kirk-cli/src/session.rs`, `kirk-com` | one mutex around the SUT, taint cache (`in_flight`, `cached`), channel activity, retry counter | `get_tainted_info`, `run_command`, `ping`, `get_info`, `start`, `stop`, `restart` | callers are dropped while they hold the mutex or probe; a channel without shared handles is locked twice | channel used by one caller at a time, fresh taint values, calls return |
| Session `kirk-session/src/session.rs` | `run_lock`, `exec_lock`, `stop_flag`, results, the `executed` and `results.json` files | `run`, `stop`, restore, filter, iterate, runtime loop, fault injection, export | `stop()` and Ctrl-C at any await; runtime expiry; failures of every step; the next process restores | nothing is run twice or forgotten over a restore, what was recorded is reported, knobs are reset, `run()` and `stop()` return |
| Command line `kirk-cli` | – | options, validation, `run_session` | Ctrl-C drops `run()` and calls `stop()` | locks are free for that `stop()` |
| Event registry `kirk-events/src/lib.rs` | handlers per event, queue with stop sentinels | `register`, `unregister`, `fire`, `start`, `stop` | handlers that fail or panic; sentinel and queue order | each handler of an event once and in order, nothing fired before `stop()` lost |
| User interfaces and monitor `kirk-support/src/ui.rs`, `monitor.rs` | flags kept from an event to the next, counters, the monitor's file | one handler per event | the order in which parallel tests fire their events | no line lost or falsified without an event that explains it |
| Shell channel `kirk-com-shell` | `active`, tracked process groups | `communicate`, `run_command`, `stop`, `fetch_file` | `stop()` against a command that is just being spawned, dropped calls | no process survives `stop()` or a dropped call |
| SSH channel `kirk-com-ssh` | the session, the semaphore for `MaxSessions` | `communicate`, `run_command`, `ping`, `fetch_file`, `stop` | session and semaphore are replaced under running commands; the connection is lost | the server's limit respected, no success without an exit status |
| QEMU channel `kirk-com-qemu` | child process, console, three locks, markers, position in the transport file | `communicate` (login), `run_command`, `ping`, `fetch_file`, `stop` | what a dropped call wrote is still executed; panic text; `stop()` in a failed login | an answer belongs to its command, calls return |
| LTX channel `kirk-com-ltx` | slots, pending requests, replies, fatal error, poll task | `connect`, `send`, `gather`, `dispatch`, `run_command`, `stop` | replies in any order, dropped callers, dead peer, connections replaced over the same FIFO | a command gets the result of its own execution, calls return |
| LTP framework `kirk-ltp` | – | suite discovery, `read_result` | any channel call of the discovery fails, `fetch_file` returns a part | a suite is whole or an error, but for a part fetched as the whole; every test is counted |
| Temporary directories, export `kirk-support/src/tempfile.rs`, `export.rs` | session folders, `latest`, executed and report files | rotate, create, link; append; check, open, write | two processes at once, lines that are not written, Ctrl-C in between | processes have folders of their own, the last sessions are kept, no executed test lacks a result |
| Core, plugins, I/O `kirk-core`, `kirk-plugin`, `kirk-support/src/io.rs` | records | formatting, parsing | – | – |

**Interaction.** `run_session` builds a `Session` over one `CliSut`. `Session::run`
calls `SuiteScheduler::schedule`, which calls `TestScheduler::schedule` once per
round; the tasks of a round use the SUT through the mutex of `CliSut`.
`Session::stop` calls `SuiteScheduler::stop`, which calls `TestScheduler::stop`,
which on a second concurrent call stops the SUT through that same mutex. Events
go to the registry's queue and have no influence on the schedulers; one task
hands them to the user interface and the monitor. The SUT talks through one
channel, a fresh copy of the instance that `setup_channels` made for it.

## 2. Modules

| Module | Models | Uses |
|---|---|---|
| `TestRound` | the contract of `TestScheduler::schedule` towards its caller | |
| `TestScheduler` | `test_sched.rs` | refines `TestRound` |
| `SuiteScheduler` | `suite_sched.rs` | extends `TestScheduler`: every inner step is one of its actions |
| `SutHandle` | `CliSut`, `GenericSut`, `ensure_communicate` | |
| `Session` | `session.rs` of kirk-session and the Ctrl-C of `run_session` | |
| `EventRegistry` | `kirk-events` | |
| `Reporting` | `ui.rs`, `monitor.rs`, the events the session and the schedulers fire | extends `EventRegistry` |
| `ShellChannel`, `SshChannel`, `QemuChannel`, `LtxChannel` | the channel crates | |
| `Channels` | registry, `setup_channels`, attachment of the SUT's channel | extends the four channels |
| `LtpFramework` | `kirk-ltp`, the counters of `kirk-core` | |
| `SessionFiles` | `tempfile.rs`, `export.rs`, `validate.rs`, the files of `session.rs` | extends `LtpFramework` |
| `TestSchedulerProofs`, `SutHandleProofs`, `SessionProofs`, `SessionFilesProofs`, `ReportingProofs`, `ChannelsProofs` | theorems about the module of that name | each extends it |
| `SuiteSchedulerProofs` | theorems about `SuiteScheduler` | extends it and `TestSchedulerProofs` |
| `SequenceLemmas` | what `RemoveFirst`, `Append`, `Tail`... keep of a sequence | used by the proof modules |
| `MC...` | model values and suites for TLC | |

Operators called *Mutant* are plausible bugs of the definition that follows
them. They are part of no specification; `PROJECT.json` pairs each with the
property that exposes it.

### How state and actions correspond to the code

**TestScheduler.** An action is what one task does between two awaits. `pc[t]`
is the await at which `run_one` of test `t` is suspended: `pending` (not polled
yet), `acquire` (the semaphore), `before` (kmsg and the first taint check),
`running` (`run_command` under the test timeout), `ping`, `after` (the second
taint check), `parse` (`read_result`), `record` (kmsg, then the push). `phase`
says whether `schedule_lock` is held and by which half of `drive`. The
semaphore in `running_sem` is replaced at every phase, so a `stop()` may wait on
the semaphore of a phase that is over: `cloned` holds the callers that wait on
the present one. `Drop` is the caller dropping the future: tasks are aborted,
except that one which another worker thread is polling finishes its poll, so a
push can come late (`late`). The SUT is `up`, `panicked` (it answers every
request with a kernel panic), `hung` (it does not answer) or `down` (stopped).
What a task asks of a hung SUT ends with an error if the channel bounds its calls
(`Bounded`: QEMU's `EXPECT_TIMEOUT`) and blocks until a forced stop if it does not
(shell, ssh, ltx); `CallsEnd` is the guard that says so. A test on a hung SUT then
times out, `ping` finds the SUT dead, the error of `write_kmsg` is ignored, and the
result is pushed and `KernelTimeout` raised. Here `stop()` of the SUT is one step that
always succeeds; the mutex in front of it is the subject of `SutHandle`.

**SuiteScheduler.** `upc` is the place of the loop in
`schedule`/`run_suite`/`drive_suite`/`restart_sut`. A round begins with
`Schedule(left)` of the inner module and ends with its `Return`, or with its
`Drop` when the suite timeout expires. `restart_sut` makes the loop a caller of
the inner `stop()`, beside the users. The restart itself is a stop and a start
(`SutRestart`): each may fail, which leaves the SUT as it was or down, and what comes
up may have the taint of before, since only some channels boot another kernel.

**SutHandle.** `queue` is tokio's FIFO mutex, its head the owner. `at[c]` is the
await of caller `c`. `Cancel` drops a caller at any await and runs its
destructors only: it leaves the queue, and nothing calls `taint_end()`. Shell,
ssh and ltx channels offer shared handles; qemu does not, and bounds every wait for an
answer (`Ends`). An attempt of `communicate()` that fails may leave a SUT running,
and `Cleanup`, the `stop()` between two attempts, may fail too. `Sticks` is a
`communicate()` or `stop()` of the channel that never returns: `Channels` says when
that happens.

**Session.** `rpc` is the place of `run()`, `spc[p]` that of a `stop()`. The suite
scheduler appears with the outcomes `SuiteScheduler` allows: tests run beside each
other (`RunTest`, `running`) and each gets its row in a step of its own
(`RecordTest`); a kernel error, a stop, an error or the expiry of the runtime can come
in between, and then a test that ran has no row. There are CONF rows after a suite
timeout. `ran`, `recorded` and `cut` are histories: what was started, what has a row,
and that the runtime ended a round before its rows were collected. File names
are modelled by what they become: a suite name is a sequence that
`apply_iterate` and `schedule_infinite` append to. `executed` keeps one file per
session directory; a session restores from the directory before it. An
`append_executed` whose writes fail leaves any part of its lines.

**EventRegistry, Reporting.** `queue` holds dispatches, each with the handlers
registered when it was fired, and stop sentinels. `pump` is the task in `start()`:
waiting, draining what is queued behind the sentinel, or executing the handlers
of one dispatch, in order or all at once. In the mode `session` the events come in
the order in which `run_session`, the session, the suite scheduler and `run_one`
fire them, tests in parallel; `ui` is the state of the interface `select_ui`
chose. In the mode `api` clients call the registry in any order, so that `stop()`
twice or before `start()`, handlers that fail and a failing `INTERNAL_ERROR`
handler occur.

**ShellChannel.** A step is what `run_command` or `stop` does between two awaits or
two lock regions: `ShSpawn` (fork), `ShRegister` (`try_register` under the
lifecycle lock), reading, reaping. `ShDrop` drops a call, and the destructor of
`TrackedProcess` kills what it tracked in a step of its own.

**SshChannel.** Connections and semaphores are numbered, so that a call may hold
one that was replaced. Permits are counted from the calls that hold one. The
server closes a connection at any time (external), and this side is told at once,
late or, as there is no keepalive, never (`ssSilent`): then opening a channel
is given up after a timeout, but the loops that read a command's output wait. `stop()`
closes the connection on this side all the same; the reset command behind it may
never end.

**QemuChannel.** `qmIn` and `qmOut` are the two directions of the serial line,
`qmTransport` what `cat` wrote beyond `last_pos`. The channel has no shared handle,
so there is one call at a time; `QmDrop` leaves its lines with the guest.

**LtxChannel.** `ltConn` keeps every connection with its pending requests and
replies, `feed` is the request state machine, `Dispatched` feeds a frame to all
pending requests, `LtPoll` is one iteration of the poll task. A frame carries the
call it answers as a history the client does not see; the executor is external.
`pending` is a set, since the ids order it. `ltStray` is a history too: the commands
written after their connection had ended, and the handshakes given up whose answer
stays in the FIFO.

**Channels.** `Attach` chooses the channel from the `--com` options by the rules of
`lookup_template` (ids may hide builtin names); the channel attached then works.

**SessionFiles.** Two processes; a step is a system call on the temporary
directory, the executed file or a report. Rotation lists first and removes
later. Suite discovery is `find_suite` of `LtpFramework` with a SUT and one failing
call chosen freely; the runtest file may arrive in part, as QEMU's `fetch_file`
lets it (`cut`). It yields a set of tests, their order is the schedulers' business; a
test's row is `read_result` of what it printed and returned, and any part of the suite
has one (`RunSuite`): a run that is stopped or fails exports what it has. `AppendExecuted`
writes a line for every row or for some or none of them, since errors of opening and
writing are ignored; a line is written whole or not at all.

## 3. Runs

TLC finishes each passing run over its whole state space.

| Run | Instance | Shows |
|---|---|---|
| `sched_rounds` | two parallel tests, one sequential, two workers, two `stop()` callers, one taint, hangs | slots, worker bound, an undisturbed round complete, taints and kernel timeouts raised with a result, `stop()` drains; refinement of `TestRound` |
| `sched_cancel` | two parallel tests, a `stop()` caller, dropped rounds, panics, hangs | panics and kernel timeouts raised with a result, none swallowed; nothing starts during a stop; `schedule()` and `stop()` return |
| `suite_restart` | suites {p1, p2} and {p2, s1}, taints, hangs, restarts that may fail or keep the taint, a user's `stop()`, `schedule()` repeated as long as it returns Ok | rows stay in their suite; the round after a kernel error begins on a SUT that was started again and that no stop is taking down; both calls return |
| `suite_timeout` | one suite, timeouts at any await, panics and hangs | executed and CONF rows partition the suite |
| `handle_calls` | two callers, both kinds of channel, drops, hangs, failed attempts and the stop between them, channel calls that never return | exclusive use of the channel, fresh taint answers; a call returns unless it, or a lifecycle call, probe or ping it queues behind, is never answered |
| `session_restore` | two suites that share a test name, two sessions, dry runs, fault injection, tests beside each other, kernel errors, `stop()`, Ctrl-C, errors | restore neither repeats nor forgets, every recorded row reported, an undisturbed run reports its whole plan, knobs reset |
| `session_runtime` | iterated suite, two rounds, suite timeouts, `stop()`, Ctrl-C | the rows of every round reported but those of the one the runtime cut; `run()` and `stop()` return |
| `reporting` | two tests, one or two workers, each interface, with and without the monitor; or five registry calls | every handler once and in order, result lines lost only with an event that explains it, all events handled before `run_session` exits |
| `channels` | the four channels, two commands each, probes, fetches, `stop()`, silent and closed connections and a second one | no orphan process, `MaxSessions` respected, no success after a lost connection, answers to their own command, calls end |
| `session_files` | two processes, two old folders, `max_rotate` 2, every discovery call failing in turn, the runtest file fetched in part, suites run in part, lines that are not written | folders rotated in order, a report has every test of the executed file beside it and counts every test it has, suites whole but for a part fetched |
| `suite_livelock` (violated) | panics | the suite loop schedules the same tests for ever |
| `qemu_login` (violated) | a QEMU channel whose login fails | `communicate()` waits for the lock it holds |

**Bounds.** Two parallel tests compete for two workers and a third, sequential
one needs the change of phase. Two `stop()` callers are what tells a first from
a forcing stop; with `restart_sut` the loop is the second. One taint value
suffices, tests compare for equality. `Bounded` is TRUE in the runs, as with QEMU;
the other channels' calls on a hung SUT block (below). Suites that share a test distinguish "by
name" from "by suite". Two sessions are a session and its restore. Two attempts
of `communicate` exercise the retry; the code uses `COMMUNICATE_RETRIES`.
`MaxRounds` bounds the rounds of `schedule_infinite`; at the bound only the
expiry of the runtime or a stop is left, as at any other round.

In `reporting` a test is started once (`MaxRuns`), the session fires when at most
`MaxQueue` dispatches are waiting, which lets the queue hold two, and `MaxCalls` of
the registry interface reach a `stop()` before and after `start()`. In `channels` each
command is one call: `ShMaxSessions`, `SsMaxConns` and `LtMaxConns` are 2, a
session and the one that replaces it under running calls; a third LTX connection brings
the second exception of `LtxOwnUnlessStray`, which the theorem about it covers. `SsServerMax` is below
`SsDefaultMax`, so that ignoring the probe would show. `QmMaxCalls` is 4: connect, a
dropped call, its successor, and one more, or stop and connect again. `LtSlots` is
1, so that slots are reused; `LtLoads` allows one probe beside the commands or
one `stop()`. In `session_files` `Names` has one new folder per process, so
that both may choose the same; `MaxRotate` equals the number of old folders, so
that every start rotates, and `MaxRuntime` separates a test that is to be run from
one whose metadata ask for longer. The runtest file has the test that the metadata
leave out, then one that is run; it is fetched whole, up to the first of them (`kept` is
2) or not at all, so that a part is empty, misses a test or has nothing to run. Symmetry
is used in `sched_rounds` and `session_files`,
which have no liveness property.

**Deadlock.** It is checked in the runs of the schedulers and of the SUT handle. In the
others the system may really stop: a session, a process or all calls of a channel are
over, and so is the suite of `suite_livelock`.

**Fairness.** Weak fairness of every task, of the loop and of every pending
`stop()`: tokio polls a future that was woken, and its mutex and semaphore are
FIFO, which the models state in the guards (`Schedule`, `WaitsForLoop`,
`queue`). Nothing is assumed of callers, of an operator or of the kernel: a
test may time out or not, a round be dropped or not. In `Session` the end of the
runtime is one of the fair steps, because a timer fires. In `Reporting` the pump,
the handlers, which wait for no other task, and the end of `run_session` are fair.
`RunAndStopEnd` is about that module alone: every step of `run()` and `stop()` ends there,
as the calls of the SUT do but for the exceptions of `CallsReturn`. In `SutHandle`
the callers are fair and `Sticks` is not: no channel call has to get stuck.
In `Channels` it is only assumed that some step that is ready is taken: remote
commands may never end, servers and executors never answer, nobody has to notice
that an SSH peer fell silent, and the reset command of ssh need not end.

**What a passing run leaves out, and why.** `sched_rounds` and `suite_restart`
have no panics: their completeness properties fail with one, which is what
`suite_livelock` shows. `session_restore` has no suite timeout and no runtime: with them
`RestoredRan` and `RestoreSkips` fail (below), and `session_runtime`, which has both,
checks neither. Some
properties name what they except, each a behaviour the run reaches:
`ChannelCallsEnd` the lock `qemu_login` is about (`QmSelfLocked`), slots of LTX that are
kept or taken late (`LtLeaked`, `LtLate`), an executor that hangs, `ltMissed`, calls on an
SSH connection that is silent until `stop()` closes it, and `stop()` during its reset
command; `CallsReturn` the calls that wait for the channel for ever and those behind
them; `ReportComplete` the round the runtime cut; `SuiteWhole` a runtest file fetched
in part; `KernelErrorsRaised` the panic that a `ping` reports.

### What else the models show

Each of these is a reachable behaviour of the models that a stronger property
would reject; none has a run of its own. Where a property or a constant is named,
checking it reproduces the behaviour.

*Schedulers*

- After a kernel timeout `run_one` awaits `write_kmsg(end)`, which it does not bound,
  before it pushes the result (`test_sched.rs:536`). On a channel that does not
  bound it either (shell, ssh, ltx) and a SUT that does not answer, the timeout is neither
  recorded nor raised and the round does not end, although the module says "result
  recorded, then raised" (`test_sched.rs:17-18`). `KernelTimeoutRaised` and
  `RoundAndStopEnd` with `MayHang = TRUE`, `Bounded = FALSE`; with `Bounded = TRUE`
  both hold (the first where rounds are not dropped).
- Of two `stop()` calls the first to finish resets `stop_cnt` (`test_sched.rs:355`) while
  the other still waits, and a round that gets the lock first starts its tests.
  `NoStartWhileStopping` with `Stoppers = {k1, k2}`.
- A restart is a stop and a start (`suite_sched.rs:153-154`), which reboot neither the
  host of a shell nor that of ssh without `reset_cmd` nor that of ltx: the taint stays,
  and a test that adds the same taint again is not blamed for it.
- A panic that `ping` reports after a test timeout is raised without a result
  (`test_sched.rs:623`), so the test is run again after the restart.
- Tasks aborted in their last poll push a result into a later round, even of
  another suite (`Drop`, `LatePush`), although `test_sched.rs:4-5` says that no
  task outlives `schedule()`. `RowsOfSuite` is checked without drops.
- A `stop()` that runs to the end of its inner part between `drive_suite`'s look
  at `stop_flag` (`suite_sched.rs:195`) and the inner `schedule()` does not
  prevent the round.

*SUT and session*

- A `get_tainted_info` dropped at its await leaves `in_flight` set
  (`generic.rs:164`): with a cached answer every later check returns that answer,
  whatever the kernel says. `TaintFresh` in `handle_calls`.
- `CliSut::stop` queues behind a taint check or ping on a channel that waits
  without a bound (`kirk-cli/src/session.rs:287`), or behind a `communicate()` or `stop()`
  of the channel that never returns: the stop that is to force a hung SUT down does not
  return either. `CallsReturn` excepts this case.
- The `stop()` that `ensure_communicate` calls between two attempts is awaited, and its
  failure ends the retries (`kirk-com/src/lib.rs:152`).
- `append_executed` writes a line for the CONF rows too that a suite timeout gives
  to tests that never ran (`session.rs:486`), so a restored session leaves them
  out. `RestoredRan` with `SuiteTimeout = TRUE`.
- The runtime drops `schedule_once` before the results of the round are collected
  (`session.rs:529`): tests that ran are missing in `results.json`, or there is
  none. `ReportComplete` excepts this round (`cut`).
- With `suite_iterate` or a runtime the `executed` file names `suite[0]`...,
  and `restore_tests` (`session.rs:374`) finds nothing. `RestoreSkips` is checked
  for plain suites.
- `stopped()` of the suite scheduler is never reset (`suite_sched.rs:110`), so a
  `stop()` with no run in progress, or an earlier `run()`, ends the next runtime
  loop after one round (`session.rs:519`). Errors that `schedule_once` returns end the
  loop too, and `run()` returns Ok (`session.rs:529-535`). `IdleStops` is FALSE in
  `session_runtime`.
- `Session::stop` before `start_sut` finds nothing to stop, and the session runs
  to its end (`session.rs:547`).
- After Ctrl-C, and after a `stop()` that takes the SUT away first, fault
  injection stays set; Ctrl-C also skips the export.

*Files*

- A session that restores the oldest folder kept rotates it away before it reads
  its executed file (`tempfile.rs:134`), and everything runs again without a
  word. `RestoreReads` with `ArgSets <- OldestArgs`.
- Of two sessions started together the one that loses the race for `latest` fails
  with "can't link latest" (`tempfile.rs:153`). A third may rotate the folder of a
  session that runs: its executed lines are lost silently, its `results.json`
  fails, and with it the `--json-report` that comes after.
- `save_file` checks, then opens with truncation (`export.rs:45-60`): of two processes with
  one `--json-report` path that both looked before either had written, the second
  replaces the report of the first and both return Ok, although "the file already exists" is
  one of its errors (`export.rs:34-36`). `ReportNotReplaced` with `ArgSets <- ReportArgs`.
  Ctrl-C between open and write leaves an empty report, which the next run refuses to
  replace.
- Errors of opening and writing the executed file are ignored and the report is exported
  all the same (`session.rs:481-506`): it then has tests that the file lacks, and a
  restored session runs them again.
- QEMU's `fetch_file` returns what arrived when `cat` exits with 1 or 9, and nothing when the
  machine is being stopped (`kirk-com-qemu/src/lib.rs:616-621`): the session takes the part of
  the runtest file for the whole and runs a part of the suite without an error.
  `SuiteWhole` without its `cut`.
- Output above `MAX_STDOUT_BYTES` loses the summary LTP prints last, and the
  markers before the cut are counted instead (`LtpFramework.truncate_stdout`).
- `validate` refuses `MAX_COM_INSTANCES` channels with "Maximum number ... is",
  so the maximum itself is one too many (`validate.rs:47`).

*Events and interfaces*

- `run_one` fires `kernel_panic`, `sut_not_responding` and a second
  `kernel_tainted` after `test_completed` (`test_sched.rs:540-561`), and the
  interfaces keep them for the *next* `test_completed`: the verdict is shown for
  another test. `OwnVerdict` in `reporting`. `test_timed_out` is never fired.
- Two `stop()` calls leave a sentinel that ends the next `start()` at once.

*Channels*

- SSH: `RusshConfig::default()` has no keepalive (`kirk-com-ssh/src/lib.rs:380`) and the loops
  that read a command or a file have no timeout (`lib.rs:20-22`): when the peer falls silent,
  calls wait until `stop()` closes the connection. The reset command that `stop()` runs has
  no deadline (`lib.rs:235-307`): `stop()` returns when it does.
- QEMU: a `fetch_file` after a dropped one returns the data of both, since
  `last_pos` was not advanced; `cat` exit codes 1 and 9 pass for success with what
  arrived; the directory of a command sticks to the next that names none; after a
  `stop()` that fails, `stopping` stays set and commands succeed without an answer.
- LTX: a dropped `run_command` keeps its slot and `stop()` waits for it for ever
  (`channel.rs:125`); so it does for a command that took a slot after the kills.
  A call dropped in the middle of a write gives the stream up, while `connected()`
  stays true, so `communicate()` refuses and only `stop()` helps. An error frame
  that finds the state locked is lost, although the comment says "a missed update
  only delays the error by one frame" (`ltx.rs:494-495`): `LtxErrorOnlyDelayed`. A
  PONG after a dropped PING of an earlier connection is fatal to the present one;
  concurrent `fetch_file` calls share their DATA frames.
- LTX: a command that waits for room in the FIFO (`ltx.rs:490`) while its connection
  ends is run by the executor when `communicate()` has opened the next one over the
  same FIFOs, and its output and result are taken for those of the command that
  has its slot by then, although `connect` promises "a fresh FIFO stream that
  shares no history with the previous one". `LtxOwnResult`; what is checked is
  `LtxOwnUnlessStray`.
- LTX: when `communicate()` gives its handshake up (`channel.rs:329`) the answer may
  still come. The next handshake takes it for its own and returns while echoes of
  commands of an older connection are unread; the first command on such a slot
  takes one, and the result behind it, for its own. This is the second exception of
  `LtxOwnUnlessStray`. It takes three connections (`LtMaxConns`) and was found by the
  proof: the order `LtShaken` states was not inductive without it.

## 4. Proofs

Eight modules hold the proofs; 31 of their theorems state a property some run
checks, and `PROJECT.json` lists them with a few more that are worth citing. Every
invariant and every action property of the runs is among them; what is left to TLC is
liveness. The theorems hold for all values of
the constants that satisfy the `ASSUME` of the component (tests, commands,
processes form finite sets where something is counted, limits are positive
numbers, switches are Boolean, no command of LTX is named like `communicate()` or
`stop()`, options are lists of named channels) and, where the table says so, one
hypothesis more.
Each such hypothesis but one excludes a behaviour of section 3 with which TLC finds the
property violated. The exception is the runtime of `ReportComplete`, which excepts the cut
round itself and holds in `session_runtime`: with a runtime it is model-checked only.

| Module | Theorem | Property | Beyond the `ASSUME` |
|---|---|---|---|
| `TestSchedulerProofs` | `TypeCorrect` | `TypeOK` | |
| | `SlotsConserved` | `PermitsConserved` | |
| | `WorkersAreBounded` | `WorkersBounded` | |
| | `ImplementsTestRound` | `RefinesTestRound` | |
| | `StopWaitsForDrain` | `StopDrains` | |
| | `ResultsPushedOnce` | `ResultsOnce` (no run of its own) | rounds are not dropped: an aborted task pushes late |
| | `OkRoundsAreComplete` | `OkRoundComplete` | no panics: one reported by `ping` has no result |
| | `KernelErrorsAreRaised` | `KernelErrorsRaised` | |
| | `NothingStartsWhileStopping` | `NoStartWhileStopping` | one `stop()` caller: the first to return of two clears the flag |
| `SuiteSchedulerProofs` | `SuiteTypeCorrect` | `SuiteTypeOK` | |
| | `SuiteDrivesRounds` | `SuiteSpec => Spec` | |
| | `RowsAreOnce`, `RowsAreOfSuite`, `SuitesAreAccounted` | `RowsOnce`, `RowsOfSuite`, `SuitesAccounted` | `RowsSettle`: no suite timeouts, or no round after the dropped one |
| | `RoundsAfterErrorRestarted` | `RestartedAfterKernelError` | one user of `stop()`: two force the SUT down |
| `SutHandleProofs` | `HandleTypeCorrect` | `TypeOK` | |
| | `ChannelIsExclusive` | `ChannelExclusive` | |
| | `TaintIsFresh` | `TaintFreshUnlessDropped` | |
| `SessionProofs` | `FaultInjectionIsOff` | `FaultOff` | |
| | `WhatWasRecordedIsReported` | `ReportComplete` | no runtime: the round it cuts is lost (`session.rs:529`) |
| | `NothingIsForgotten` | `RestoredRan` | no suite timeout (`session.rs:486`) |
| | `NothingRunsTwice` | `RestoreSkips` | plain suites: no iteration, no runtime (`session.rs:374`) |
| `SessionFilesProofs` | `FilesTypeCorrect` | `Typed` of that module | |
| | `RotationKeepsOrder` | `FoldersRotated` | |
| | `SuitesAreWhole` | `SuiteWhole` | |
| | `ExecutedIsReported` | `ExecutedReported` | |
| `ReportingProofs` | `EventsAreHandledInOrder` | `HandledInOrder` | |
| | `StopDrainsTheQueue` | `DrainsQueue`, the safety half of `DrainedByStop` | |
| | `LinesAreLostForEvents` | `BlameBounded` | |
| `ChannelsProofs` | `NoProcessIsOrphaned` | `NoOrphan` | |
| | `SshStaysWithinLimit`, `SshNeverInventsSuccess` | `SshWithinLimit`, `SshLostIsNotOk` | |
| | `QemuAnswersItsCaller` | `QemuAnswers` | |
| | `LtxResultsAreOwn` | `LtxOwnUnlessStray` | |
| | `ChannelsTypesAreRight` | `TypeOK` of `Channels` | |

The bounds of the instances (`MaxRuns`, `MaxCalls`, `QmMaxCalls`, the numbers of
connections and sessions) are constants of the theorems too, so the results hold
for every bound.

**Arguments.** Hardly any of the properties is inductive as it stands. What was
added, and was checked with TLC before it was proved:

- *TestScheduler.* `SlotInv` adds to `PermitsConserved` that no test is on the SUT when
  no round runs, that the tests of a parallel phase are parallelizable and that in
  a sequential phase at most one test is past its first check; a step then changes
  `Holding` by one element and the permits by one. `RoundInv` says which results,
  statuses and errors go together in a round, so that a `Return` is an `End` that
  `TestRound` allows. `RowInv` ties `results` to the place of each task (no result
  before `record`). `ErrorInv` ties the error of a round to a test that is done and explains it, by
  its result or, for a panic, by the ping that reported it; and while there is no error,
  every test announced completed with a kernel condition is still at its push. `PlaceInv`
  says where such tests are, so that the late pushes of dropped rounds cannot disturb
  it. Both hold on a SUT that taints, panics and hangs, with calls that end and calls
  that do not.
- *SuiteScheduler.* `SuiteDrivesRounds` shows every step to be a step of
  `TestScheduler` or none, so its invariants are available. `DriveInv` states what
  `drive_suite` knows at each await: above all that the tests it still has to run
  are those without a row. `DropInv` follows the rows of a dropped round,
  `AccountInv` the suites recorded so far. `RestartInv` follows the SUT from a kernel error to the next round: it is up again, or
  a forced stop took it down, and then the loop sees `stop_flag` before it begins a
  round. That needs `StopPlaces`: where the user's and the loop's own `stop()` can be at
  the same time, and that `stop_cnt` is 0 when neither is under way.
- *SutHandle.* The queue is injective and an idle caller is not in it (`LockInv`): so
  there is one owner, whoever was dropped. `NotTheLast`, in the same invariant, keeps the
  attempts of `communicate()` within the bound over the stop between them. `TaintInv`: while a probe is in flight
  somebody holds the lock for it, and each caller has seen the present value.
- *Session.* `RowsKept` follows a recorded row from the scheduler to `results.json` through
  every place of `run()`, after errors and stops too; `PlanKept` does the same for the
  tests of the plan while nobody asks for a stop, where each has a row or is still to do.
  It needs `StopInv`: a stop the scheduler has still to obey is a request. `RowsRecorded`
  and `CoverInv` relate the executed files and the plan to what was recorded.
- *SessionFiles.* The bound on the folders is about interleaved rotations: `Room` says
  that beside what a process will keep of its listing there are only folders of
  processes that have rotated already. `ReportInv` is about the two files of a folder:
  empty until the process that made it appends (`Fresh`), then only tests of which that
  process has rows (`Appended`), which are the rows it exports (`Recorded`). Another
  process cannot come in between, since no two own a folder (`OwnFolder`). `SuiteInv`
  has the tests found whole unless the file was cut, and part of the suite even then.
- *Reporting.* `Pending`: the dispatches in the queue are those not taken yet, with
  increasing identities, so the head is the next one; `InHand`: the handlers that
  ended and those that run are a permutation of those registered when the event was
  fired, the identity for an ordered event; `OneSentinel`: the sentinel of a single
  `stop()` is in the queue or has started the drain. Steps of sessions and clients
  are first reduced to six ways of changing the registry (`RegistryStep`). On top of
  it, `BlameInv` is about the interface: a flag that is up is an event for which no line
  has gone wrong yet, so the lines lost and that flag together never exceed the events
  (`UiCounts`). That needs the interface to be registered once and for its own events
  (`UiWired`), and every test to be announced completed once, by the session, behind
  its suite (`UiFired`); else a line could be counted twice, or the parallel interface
  count a test of a suite it was not told of.
- *Channels.* For SSH, `SsMatching`: the last semaphore has the size of the live
  connection, and commands on that connection use that semaphore, although both
  are replaced one after the other; a connection that falls silent changes neither. For QEMU, `QmOwnLine` and `QmOwnAnswer`: the line a
  call waits for is the last one and the only one of that call, and once it is
  answered the guest has nothing left to do. For LTX, `LtInv`: while nothing has gone
  astray, the echoes in the FIFO are those of the commands that hold the slots
  (`LtFenced`), since a connection is published only when the answer to its handshake,
  which comes behind every older echo, has been read (`LtShaken`); so echo and result
  that reach a request are its own, because results of older commands on that slot lie
  before the echo (`LtOwned`). Its other half, `LtBase`, holds whatever went astray: one
  connection is open, slots and ids have one owner, and a command is run once. `ChInv`
  collects the types of the four channels, each with what bounds it.

What recursive functions compute (`retain`, `Printed`, `Instances`) is proved by
descent from a least counterexample (`LeastNat`), which needs no induction rule with
an operator parameter.

**What the proofs changed.** `LtxOwnUnlessStray` was false as first stated, beyond the
two connections of the run (section 3). `pending` had been a sequence sorted by
`SetToSortSeq`, and `feed` a CASE whose guards overlapped; the prover can unfold neither.
`ReportingAssumption` now states that `Tests` is finite, which every count of lines
rests on.

**Only model-checked.** Liveness, since fairness and ENABLED are beyond the prover:
`SuiteEnds`, `SuiteStopEnds`, `RoundAndStopEnd`, `CallsReturn`, `RunAndStopEnd`,
`ChannelCallsEnd` and the other half of `DrainedByStop`. So are the two findings, which
are about liveness too, and the functions over input lists of `LtpFramework` beyond
what `SuitesAreWhole` and `ExecutedIsReported` need of them.

## 5. Not modelled

Left out for good: the parsing of options, the text of the user interfaces and
the layout of the JSON reports, configuration of ssh and qemu (keys, quoting,
`build_argv`), MessagePack, `parse_tainted` and `parse_meminfo`, randomization of
the order of tests, `get_suites` (no caller in a session), the arithmetic of the
test timeouts, `redirect.rs`. Measured time: the suite timeout, the ping timeout
and the deadlines of the channels are steps that may happen whenever the code
waits under them, so how long they take is not compared; that a probe over SSH
may outlast the scheduler's ping timeout is therefore not seen. A panic in a
handler counts as its error. `SutHandle` and `Session` see the channel by what it
answers and are not composed with `Channels`: the product is out of TLC's reach.

## 6. Plan

Every safety property of the runs is proved. What would say more: the composition of
`SutHandle` with `Channels`, which TLC cannot reach but a proof could, with the callers
of `SutHandle` as the calls of one channel; and a specification of what a channel
promises (a command answered once, with its own result, or an error) that the four
channels implement, for which `QemuAnswers`, `SshLostIsNotOk` and `LtxOwnUnlessStray`
are the first parts.
