---------------------------- MODULE SessionFiles ----------------------------
(* What kirk keeps on the host: the rotated session folders with their      *)
(* `executed` and results.json files, the `latest` link and the report of   *)
(* --json-report. Several kirk processes of one user share the base folder  *)
(* and, when told so, the report path; nothing locks either. A process      *)
(* validates its arguments, resolves --restore, makes its TempDir, reads    *)
(* the restored session, finds and runs its suite, and exports.             *)
EXTENDS LtpFramework

CONSTANTS
    Procs,       \* kirk processes
    Old,         \* folders of earlier sessions, oldest first
    Names,       \* folder names rand_suffix can give
    MaxRotate,   \* max_rotate
    ArgSets,     \* command lines
    Suts,        \* what the SUT has on disk
    Faults,      \* which channel call fails, and how
    Outcomes     \* [out, retcode] of a test

NoFolder == "none"
NoFile == [kind |-> "none"]
Empty == [kind |-> "empty"]

VARIABLES
    folders,     \* [Places -> [state, executed, results]]
    order,       \* existing folders by mtime, oldest first
    latest,      \* target of the `latest` link
    report,      \* the file at the --json-report path
    proc         \* the processes

vars == <<folders, order, latest, report, proc>>

Folder(state, executed) == [state |-> state, executed |-> executed, results |-> NoFile]
Idle == [pc |-> "idle", args |-> NoFile, restore |-> NoFolder, doomed |-> <<>>,
         folder |-> NoFolder, skip |-> {}, cut |-> FALSE, todo |-> {}, rows |-> <<>>, targets |-> <<>>]

\* The tests of the suite, and those of them no max_runtime leaves out.
Declared == {Runtest[i].name : i \in {j \in DOMAIN Runtest : Runtest[j].kind = "test"}}
Wanted == {t \in Declared : t \in DOMAIN Metadata => is_addable(Metadata[t])}

Places == Names \cup Range(Old)

\* The folders found at the start are those that as many processes can leave
\* behind, and a test's output counts what Counts counts.
ASSUME FilesAssumption ==
    /\ IsFiniteSet(Procs) /\ Procs # {} /\ MaxRotate \in Nat \ {0}
    /\ NoFolder \notin Places
    /\ Old \in Seq(Places) /\ IsInjective(Old)
    /\ Len(Old) <= MaxRotate + Cardinality(Procs) - 1
    /\ Runtest \in Seq(Range(Runtest))
    /\ \A fault \in Faults : fault.kept \in 0..Len(Runtest)
    /\ \A args \in ArgSets : args.restore \in Places \cup {NoFolder, "latest"}
    /\ \A o \in Outcomes : /\ o.out.markers \in [Counters -> Nat]
                            /\ o.out.summary \subseteq [Counters -> Nat]

Init ==
    /\ \E done \in SUBSET Declared :
           folders = [n \in Places |->
                         IF n \in Range(Old) THEN Folder("there", done) ELSE Folder("unused", {})]
    /\ order = Old
    /\ latest = IF Old = <<>> THEN NoFolder ELSE Last(Old)
    /\ report = NoFile
    /\ proc = [p \in Procs |-> Idle]

-----------------------------------------------------------------------------
There(n) == n # NoFolder /\ folders[n].state = "there"
Touched(n) == Append(RemoveFirst(order, n), n)
Files == <<folders, order, latest, report>>

Goes(p, pc) == proc' = [proc EXCEPT ![p].pc = pc]
Exit(p) == Goes(p, "exit") /\ UNCHANGED Files

\* validate: the first check that fails ends the process.
validate(args) ==
    CASE args.comHelp                                 -> "help"
      [] args.coms >= args.maxComs \/ ~args.comsKnown -> "error"
      [] args.sutHelp                                 -> "help"
      [] ~args.sutKnown                               -> "error"
      [] args.report /\ report # NoFile               -> "error"
      [] args.pattern /\ args.suite = ""              -> "error"
      [] args.suite = "" /\ args.command = ""         -> "error"
      [] args.skipFile = "missing"                    -> "error"
      [] args.tmpDir = "missing"                      -> "error"
      [] OTHER                                        -> "proceed"

Start(p) ==
    /\ proc[p].pc = "idle"
    /\ \E args \in ArgSets :
           proc' = [proc EXCEPT ![p].args = args,
                                ![p].pc = IF validate(args) = "proceed" THEN "resolve" ELSE "exit"]
    /\ UNCHANGED Files

\* resolve_restore: a folder that exists, or the one `latest` points at.
resolve_restore(p) ==
    LET asked == proc[p].args.restore
        found == IF asked = "latest" THEN latest ELSE asked
    IN  /\ proc[p].pc = "resolve"
        /\ IF asked # NoFolder /\ ~There(found)
           THEN Goes(p, "exit")
           ELSE proc' = [proc EXCEPT ![p].restore = found,
                                     ![p].pc = IF proc[p].args.tmpDir = "" THEN "read" ELSE "list"]
        /\ UNCHANGED Files

-----------------------------------------------------------------------------
(* TempDir::new: rotate, fresh_folder, link. *)

\* rotate lists the folders by mtime: the oldest go, so that with the new one
\* there are MaxRotate.
Rotate(p) ==
    /\ proc[p].pc = "list"
    /\ proc' = [proc EXCEPT ![p].pc = "remove",
                            ![p].doomed = IF Len(order) < MaxRotate THEN <<>>
                                          ELSE SubSeq(order, 1, Len(order) - MaxRotate + 1)]
    /\ UNCHANGED Files

\* The removals, one at a time, errors ignored: the folder may be gone, or be
\* the one a running session writes to.
RemoveOld(p) ==
    LET doomed == proc[p].doomed
    IN  /\ proc[p].pc = "remove"
        /\ IF doomed = <<>>
           THEN Goes(p, "fresh") /\ UNCHANGED <<folders, order>>
           ELSE /\ proc' = [proc EXCEPT ![p].doomed = Tail(doomed)]
                /\ folders' = [folders EXCEPT ![Head(doomed)] = Folder("removed", {})]
                /\ order' = RemoveFirst(order, Head(doomed))
        /\ UNCHANGED <<latest, report>>

\* fresh_folder draws names until one does not exist; a name hashes the time,
\* so it is never that of a folder already removed.
FreshFolder(p) ==
    /\ proc[p].pc = "fresh"
    /\ \E n \in Names :
           /\ folders[n].state = "unused"
           /\ proc' = [proc EXCEPT ![p].pc = "create", ![p].folder = n]
    /\ UNCHANGED Files

\* Mutant: create_dir_all is content with a folder that is there already.
CreateAnyway(p) ==
    /\ proc[p].pc = "create"
    /\ folders' = [folders EXCEPT ![proc[p].folder].state = "there"]
    /\ order' = Touched(proc[p].folder)
    /\ Goes(p, "unlink")
    /\ UNCHANGED <<latest, report>>

\* create_dir fails when another process was faster.
CreateFolder(p) ==
    LET n == proc[p].folder
    IN  /\ proc[p].pc = "create"
        /\ IF folders[n].state # "unused"
           THEN /\ proc' = [proc EXCEPT ![p].pc = "exit", ![p].folder = NoFolder]
                /\ UNCHANGED <<folders, order>>
           ELSE /\ folders' = [folders EXCEPT ![n].state = "there"]
                /\ order' = Append(order, n)
                /\ Goes(p, "unlink")
        /\ UNCHANGED <<latest, report>>

Unlink(p) ==
    /\ proc[p].pc = "unlink"
    /\ latest' = NoFolder
    /\ Goes(p, "link")
    /\ UNCHANGED <<folders, order, report>>

\* symlink fails when another process has linked its own folder meanwhile.
Link(p) ==
    /\ proc[p].pc = "link"
    /\ IF latest # NoFolder
       THEN Goes(p, "exit") /\ UNCHANGED latest
       ELSE Goes(p, "read") /\ latest' = proc[p].folder
    /\ UNCHANGED <<folders, order, report>>

-----------------------------------------------------------------------------
(* The session. *)

\* read_restored_session: a folder that is not there any more restores nothing.
ReadRestored(p) ==
    LET from == proc[p].restore
    IN  /\ proc[p].pc = "read"
        /\ proc' = [proc EXCEPT ![p].pc = "discover",
                                ![p].skip = IF There(from) THEN folders[from].executed ELSE {}]
        /\ UNCHANGED Files

\* exec_command, then get_suites_objects and restore_tests; a suite with no test
\* left is an error. `cut` is history: part of the runtest file was fetched.
Discover(p) ==
    LET args == proc[p].args
    IN  /\ proc[p].pc = "discover"
        /\ \E sut \in Suts, fault \in Faults :
               LET suite == find_suite(args.suite, sut, fault)
                   failed == \/ args.command # "" /\ ~find_command(args.command, sut, fault).ok
                             \/ args.suite # "" /\ ~suite.ok
                   left == {test.name : test \in suite.value} \ proc[p].skip
               IN  IF failed \/ args.suite = "" \/ (~failed /\ left = {})
                   THEN Goes(p, "exit")
                   ELSE proc' = [proc EXCEPT ![p].pc = "run", ![p].todo = left,
                                     ![p].cut = fetched(fault) # Runtest]
        /\ UNCHANGED Files

\* The scheduler, by what it hands over: one list of rows for the suite, of the
\* tests that were recorded before the suite ended, was stopped or failed
\* (SuiteScheduler has the rounds). Without the SUT's information there is none.
RunSuite(p) ==
    /\ proc[p].pc = "run"
    /\ \E tests \in SUBSET proc[p].todo : \E did \in [tests -> Outcomes] :
           proc' = [proc EXCEPT ![p].pc = "append",
                                ![p].rows = [t \in tests |-> read_result(did[t].out, did[t].retcode)]]
    /\ UNCHANGED Files

\* The targets of the report: results.json in the own folder, then --json-report.
Targets(p) ==
    (IF proc[p].folder = NoFolder THEN <<>> ELSE <<"results.json">>)
        \o (IF proc[p].args.report THEN <<"report">> ELSE <<>>)

\* Mutant: the names are taken from the suite instead of from its results.
AppendPlanned(p) ==
    LET n == proc[p].folder
    IN  /\ proc[p].pc = "append"
        /\ IF There(n)
           THEN /\ folders' = [folders EXCEPT ![n].executed = @ \cup proc[p].todo]
                /\ order' = Touched(n)
           ELSE UNCHANGED <<folders, order>>
        /\ proc' = [proc EXCEPT ![p].targets = Targets(p),
                                ![p].pc = IF Targets(p) = <<>> THEN "exit" ELSE "check"]
        /\ UNCHANGED <<latest, report>>

\* append_executed opens the file and writes a line for each row. A failed open
\* is ignored, a failed write ends the lines of its suite, and the report is
\* exported all the same.
AppendExecuted(p) ==
    LET n == proc[p].folder
    IN  /\ proc[p].pc = "append"
        /\ \/ UNCHANGED <<folders, order>>
           \/ /\ There(n)
              /\ \E lines \in SUBSET DOMAIN proc[p].rows :
                     folders' = [folders EXCEPT ![n].executed = @ \cup lines]
              /\ order' = Touched(n)
        /\ proc' = [proc EXCEPT ![p].targets = Targets(p),
                                ![p].pc = IF Targets(p) = <<>> THEN "exit" ELSE "check"]
        /\ UNCHANGED <<latest, report>>

-----------------------------------------------------------------------------
(* JSONExporter::save_file for each target; the first error ends the list. *)

Target(p) == Head(proc[p].targets)
Own(p) == Target(p) = "results.json"
Reachable(p) == Own(p) => There(proc[p].folder)
File(p) == IF Own(p) THEN folders[proc[p].folder].results ELSE report

\* The file and, for results.json, the mtime of its folder.
Put(p, content) ==
    IF Own(p)
    THEN /\ folders' = [folders EXCEPT ![proc[p].folder].results = content]
         /\ order' = IF File(p) = NoFile THEN Touched(proc[p].folder) ELSE order
         /\ UNCHANGED <<latest, report>>
    ELSE /\ report' = content
         /\ UNCHANGED <<folders, order, latest>>

ExportCheck(p) ==
    /\ proc[p].pc = "check"
    /\ Goes(p, IF Reachable(p) /\ File(p) = NoFile THEN "open" ELSE "exit")
    /\ UNCHANGED Files

\* AsyncFile::open with mode "w" creates or truncates.
ExportOpen(p) ==
    /\ proc[p].pc = "open"
    /\ IF Reachable(p)
       THEN Goes(p, "write") /\ Put(p, Empty)
       ELSE Exit(p)

report_value(rows) == [kind |-> "report", rows |-> rows, stats |-> Total(rows)]

\* The write goes to the open file, also when its folder has been removed.
ExportWrite(p) ==
    LET rest == Tail(proc[p].targets)
    IN  /\ proc[p].pc = "write"
        /\ proc' = [proc EXCEPT ![p].targets = rest, ![p].pc = IF rest = <<>> THEN "exit" ELSE "check"]
        /\ IF Reachable(p) THEN Put(p, report_value(proc[p].rows)) ELSE UNCHANGED Files

\* Ctrl-C drops run() at any of its awaits, or one of its steps fails: nothing
\* more is written, and a file that was opened stays empty or unfinished.
Interrupt(p) ==
    /\ proc[p].pc \in {"read", "discover", "run", "append", "check", "open", "write"}
    /\ Exit(p)

TempDirStep(p) ==
    \/ Rotate(p) \/ RemoveOld(p) \/ FreshFolder(p) \/ CreateFolder(p) \/ Unlink(p) \/ Link(p)
SessionStep(p) ==
    \/ ReadRestored(p) \/ Discover(p) \/ RunSuite(p) \/ AppendExecuted(p)
    \/ ExportCheck(p) \/ ExportOpen(p) \/ ExportWrite(p) \/ Interrupt(p)
Next == \E p \in Procs : Start(p) \/ resolve_restore(p) \/ TempDirStep(p) \/ SessionStep(p)

Spec == Init /\ [][Next]_vars

-----------------------------------------------------------------------------
(* Properties. *)

Owns(p) == proc[p].folder # NoFolder /\ proc[p].pc # "create"

\* Concurrent TempDir::new() calls leave the base folder in order: no two
\* processes work in the same folder; at most max_rotate folders are kept, and
\* one more for each process that rotated beside another; and once a process
\* has removed the old link, `latest` is missing only while one is replacing
\* it, so that the loser of the race for the link leaves the winner's.
FoldersRotated ==
    /\ \A p, q \in Procs : p # q /\ Owns(p) /\ Owns(q) => proc[p].folder # proc[q].folder
    /\ Len(order) <= MaxRotate + Cardinality(Procs) - 1
    /\ (\E p \in Procs : Owns(p) /\ proc[p].pc # "unlink") /\ latest = NoFolder
           => \E p \in Procs : proc[p].pc = "link"

\* A session restored from a folder leaves out no test without a result: the
\* executed file beside a results.json that was written completely names only
\* tests the report has, and each test it has is counted, whatever it printed and
\* returned; whether the suite was run to its end or not, with processes making
\* and removing folders beside each other (append_executed, read_result,
\* save_file, fresh_folder). The converse is not promised: a line that could
\* not be written is ignored, and its test runs again.
ExecutedReported ==
    \A n \in Range(order) :
        LET r == folders[n].results
        IN  r.kind = "report" =>
                /\ folders[n].executed \subseteq DOMAIN r.rows
                /\ \A t \in DOMAIN r.rows : r.rows[t].counts # NoCounts

\* A session that runs a suite has found all its tests but the restored ones and
\* those max_runtime leaves out, unless fetch_file passed off a part of the
\* runtest file as the whole: no other failure of a channel call during the
\* discovery makes the suite shorter. Even then nothing else is run, reported
\* or taken for restored (find_suite, read_runtest, restore_tests).
Whole(tests) == Wanted \subseteq tests /\ tests \subseteq Declared
SuiteWhole ==
    \A p \in Procs : proc[p].pc \in {"append", "check", "open", "write"} =>
        LET found == proc[p].todo \cup proc[p].skip
        IN  /\ found \subseteq Declared
            /\ ~proc[p].cut => Whole(found)
            /\ DOMAIN proc[p].rows \subseteq proc[p].todo

\* save_file never replaces a report that is there: "the file already exists" is
\* one of its errors.
ReportNotReplaced == [][report.kind = "report" => report' = report]_vars

\* A session restores from the folder it was asked to restore from: the folder
\* is still there when its executed file is read (resolve_restore, rotate,
\* read_restored_session).
RestoreReads ==
    [][\A p \in Procs : proc[p].pc = "read" /\ proc'[p].pc = "discover" /\ proc[p].restore # NoFolder
                            => There(proc[p].restore)]_vars
=============================================================================
