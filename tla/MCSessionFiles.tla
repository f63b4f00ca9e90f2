--------------------------- MODULE MCSessionFiles ---------------------------
(* SessionFiles on a small instance. *)
EXTENDS SessionFiles, TLC

CONSTANTS p1, p2
MCSymmetry == Permutations({p1, p2})

Line(kind, name) == [kind |-> kind, name |-> name]
MCRuntest == <<Line("comment", ""), Line("test", "read"), Line("blank", ""), Line("test", "open")>>
\* The first test takes exactly max_runtime: it is left out when ltp.json is read.
MCMetadata == [t \in {"open", "read"} |->
                  IF t = "open" THEN [tags |-> {"needs_root"}, runtime |-> 0]
                  ELSE [tags |-> {"max_runtime"}, runtime |-> 30]]

Plain == [comHelp |-> FALSE, coms |-> 1, maxComs |-> 128, comsKnown |-> TRUE, sutHelp |-> FALSE,
          sutKnown |-> TRUE, report |-> FALSE, pattern |-> FALSE, suite |-> "syscalls",
          command |-> "", skipFile |-> "", tmpDir |-> "/tmp", restore |-> NoFolder]
\* A run with a report and a command; one that restores the latest session; one
\* without a temporary folder; one that validate refuses.
MCArgSets ==
    {[Plain EXCEPT !.report = TRUE, !.command = "uname"], [Plain EXCEPT !.restore = "latest"],
     [Plain EXCEPT !.tmpDir = "", !.report = TRUE], [Plain EXCEPT !.skipFile = "missing"]}
\* Every process has the report at the same path.
ReportArgs == {[Plain EXCEPT !.tmpDir = "", !.report = TRUE]}
\* The session to restore is the oldest of those kept.
OldestArgs == {[Plain EXCEPT !.restore = "o1"]}

Sut == [root |-> TRUE, suite |-> TRUE, metadata |-> "good", path |-> TRUE, tc_folder |-> TRUE]
MCSuts == {Sut, [Sut EXCEPT !.metadata = "garbled"], [Sut EXCEPT !.metadata = "absent"]}
\* Every call failing in turn, and a runtest file of which the first test, or
\* nothing, arrives.
Fault(call, how, kept) == [call |-> call, how |-> how, kept |-> kept]
MCFaults == {Fault("none", "err", 0)} \cup
            {Fault(call, how, 0) : call \in {"root", "suite", "fetch_suite", "metadata", "path"},
                                   how \in {"err", "fails"}} \cup
            {Fault("fetch_suite", "cut", kept) : kept \in {0, 2}}

Out(markers, summary) == [markers |-> markers, summary |-> summary, coloured |-> TRUE, long |-> FALSE]
Silent == Out(NoCounts, {})
Full == Out(One("failed"), {[One("passed") EXCEPT !["failed"] = 1]})
MCOutcomes ==
    {[out |-> Silent, retcode |-> -1], [out |-> Full, retcode |-> 0]}
MCOld == <<"o1", "o2">>
=============================================================================
