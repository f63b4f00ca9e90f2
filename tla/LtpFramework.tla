---------------------------- MODULE LtpFramework ----------------------------
(* The Linux Test Project framework (kirk-ltp) and the counters of a result *)
(* (kirk-core): pure functions of what the SUT answers. A suite is read     *)
(* with up to six channel calls, any one of which may fail; a result is     *)
(* classified from the return code of its test and from its output.         *)
EXTENDS Integers, Sequences, FiniteSets, SequencesExt, FiniteSetsExt

CONSTANTS
    Runtest,     \* the lines of the suite's runtest file
    Metadata,    \* ltp.json: test name -> [tags: set of names, runtime: Nat]
    MaxRuntime,  \* the framework's max_runtime, 0 for none
    EnvPath      \* whether PATH is in the environment kirk forwards

Err == [ok |-> FALSE]
Ok(value) == [ok |-> TRUE, value |-> value]
PARALLEL_BLACKLIST ==
    {"needs_root", "needs_device", "mount_device", "mntpoint",
     "resource_file", "format_device", "save_restore", "max_runtime"}

-----------------------------------------------------------------------------
(* A channel call either errs ("err"), answers with a return code other than *)
(* 0 or with nothing ("fails"), or reports what is there. fetch_file may also *)
(* end well with the first part of a file ("cut"): QEMU's does so when `cat`  *)
(* was killed, or with nothing when the machine is being stopped.             *)

Errs(fault, call) == fault.call = call /\ fault.how = "err"
Answers(fault, call, there) == there /\ fault.call # call

\* read_path: PATH is forwarded, or asked of the SUT.
read_path(sut, fault) == EnvPath \/ Answers(fault, "path", sut.path)

\* is_addable: tests with a max_runtime at or above the limit are left out.
is_addable(params) ==
    MaxRuntime = 0 \/ "max_runtime" \notin params.tags \/ params.runtime < MaxRuntime

\* The lines of the runtest file that fetch_file returns: all, or the first
\* fault.kept. A cut within a line leaves its test, or a name without a command,
\* which is an error like any other ("err").
fetched(fault) ==
    IF fault.call = "fetch_suite" /\ fault.how = "cut" THEN SubSeq(Runtest, 1, fault.kept) ELSE Runtest

\* Mutant: the first blank line ends the file.
read_runtestBreaking(lines, known) ==
    LET Blank(i) == \E j \in 1..i : lines[j].kind = "blank"
        Kept(i) == ~Blank(i) /\ lines[i].kind = "test"
                   /\ (lines[i].name \in DOMAIN known => is_addable(known[lines[i].name]))
    IN  Ok({[name |-> lines[i].name, parallel |-> FALSE] : i \in {j \in DOMAIN lines : Kept(j)}})

\* read_runtest: the tests of the lines, or an error when one has a name and no
\* command. Their order matters to the schedulers only.
read_runtest(lines, known) ==
    IF \E i \in DOMAIN lines : lines[i].kind = "bare" THEN Err
    ELSE LET Kept(line) == line.kind = "test"
                           /\ (line.name \in DOMAIN known => is_addable(known[line.name]))
             Test(line) == [name |-> line.name,
                            parallel |-> line.name \in DOMAIN known
                                         /\ known[line.name].tags \cap PARALLEL_BLACKLIST = {}]
         IN  Ok({Test(lines[i]) : i \in {j \in DOMAIN lines : Kept(lines[j])}})

\* find_suite: the LTP folder, the runtest file, the optional metadata, PATH. A
\* part of the metadata does not parse; a part of the runtest file does.
find_suite(name, sut, fault) ==
    LET known == Answers(fault, "metadata", sut.metadata # "absent")
        refused == \/ name = "" \/ name = "../escape"
                   \/ Errs(fault, "root") \/ ~Answers(fault, "root", sut.root)
                   \/ Errs(fault, "suite") \/ ~Answers(fault, "suite", sut.suite)
                   \/ fault.call = "fetch_suite" /\ fault.how # "cut"
                   \/ Errs(fault, "metadata")
                   \/ known /\ (fault.call = "fetch_metadata" \/ sut.metadata \in {"huge", "garbled"})
                   \/ ~read_path(sut, fault)
    IN  IF refused THEN Err ELSE read_runtest(fetched(fault), IF known THEN Metadata ELSE <<>>)

\* find_command: outside an LTP folder a command runs with no environment;
\* inside one it needs PATH.
find_command(command, sut, fault) ==
    IF \/ command = "" \/ Errs(fault, "tc_folder")
       \/ Answers(fault, "tc_folder", sut.tc_folder) /\ ~read_path(sut, fault)
    THEN Err ELSE Ok([name |-> command, parallel |-> FALSE])

-----------------------------------------------------------------------------
Counters == {"passed", "failed", "broken", "skipped", "warnings"}
NoCounts == [c \in Counters |-> 0]
One(counter) == [NoCounts EXCEPT ![counter] = 1]

(* Output of a test: its T* markers, its Summary block if any, whether it   *)
(* is coloured, and whether it is longer than MAX_STDOUT_BYTES: LTP prints   *)
(* the summary last, so the cut takes it away.                               *)
truncate_stdout(out) == IF out.long THEN [out EXCEPT !.summary = {}] ELSE out
strip_ansi(out) == [out EXCEPT !.coloured = FALSE]
parse_summary(out) == IF out.coloured THEN {} ELSE out.summary
count_markers(out) == out.markers

retcode_status(retcode) ==
    CASE retcode = 0        -> "pass"
      [] retcode \in {2, -1} -> "brok"
      [] retcode = 4        -> "warn"
      [] retcode = 32       -> "conf"
      [] OTHER              -> "fail"

\* read_result: the summary, else the markers, else the return code.
read_result(out, retcode) ==
    LET text == strip_ansi(truncate_stdout(out))
        said == IF parse_summary(text) = {} THEN count_markers(text)
                ELSE CHOOSE c \in parse_summary(text) : TRUE
        counts == IF said # NoCounts \/ retcode = -1 THEN said
                  ELSE One(CASE retcode = 0  -> "passed"
                             [] retcode = 4  -> "warnings"
                             [] retcode = 32 -> "skipped"
                             [] OTHER        -> "failed")
    IN  [status |-> retcode_status(retcode), retcode |-> retcode,
         counts |-> IF retcode = -1 THEN [counts EXCEPT !["broken"] = 1] ELSE counts]

\* SuiteResults: each counter is the sum over the rows of the suite.
Total(rows) == [c \in Counters |-> MapThenSumSet(LAMBDA t : rows[t].counts[c], DOMAIN rows)]
=============================================================================
