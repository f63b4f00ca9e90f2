------------------------ MODULE SessionFilesProofs ------------------------
(* Proofs about SessionFiles, for any number of kirk processes, any number  *)
(* of folders and any command lines.                                        *)
EXTENDS SessionFiles, FiniteSetTheorems, SequenceLemmas

-----------------------------------------------------------------------------
(* Types. *)

States == {"unused", "there", "removed"}
Rows == {read_result(o.out, o.retcode) : o \in Outcomes}
RowMaps == {<<>>} \cup UNION {[tests -> Rows] : tests \in SUBSET Declared}
Contents == {NoFile, Empty} \cup {report_value(rows) : rows \in RowMaps}
Pcs == {"idle", "resolve", "list", "remove", "fresh", "create", "unlink", "link", "read", "discover",
        "run", "append", "check", "open", "write", "exit"}

FolderRecords == [state : States, executed : SUBSET Declared, results : Contents]
ProcRecords ==
    [pc : Pcs, args : ArgSets \cup {NoFile}, restore : Places \cup {NoFolder}, doomed : Seq(Places),
     folder : Places \cup {NoFolder}, skip : SUBSET Declared, cut : BOOLEAN, todo : SUBSET Declared,
     rows : RowMaps, targets : Seq({"results.json", "report"})]

\* What a process has by the time it uses it.
Ready(r) ==
    /\ r.pc = "resolve" => r.args \in ArgSets
    /\ r.pc \in {"create", "unlink", "link"} => r.folder \in Places
    /\ r.pc \in {"check", "open", "write"} => r.targets # <<>>

\* The listing by mtime is of the folders that are there.
Listed == \A n \in Places : (\E i \in 1..Len(order) : order[i] = n) <=> folders[n].state = "there"

FilesTyped ==
    /\ folders \in [Places -> FolderRecords]
    /\ order \in Seq(Places) /\ IsInjective(order) /\ Listed
    /\ latest \in Places \cup {NoFolder}
    /\ report \in Contents
Typed == FilesTyped /\ proc \in [Procs -> ProcRecords] /\ \A p \in Procs : Ready(proc[p])

-----------------------------------------------------------------------------
(* The rotation. *)

\* A process that has made a folder made it of an unused name, for good.
Made ==
    \A p \in Procs :
        /\ Owns(p) => folders[proc[p].folder].state # "unused"
        /\ proc[p].pc \in {"idle", "resolve", "list", "remove", "fresh"} => proc[p].folder = NoFolder
OwnFolder == \A p, q \in Procs : p # q /\ Owns(p) /\ Owns(q) => proc[p].folder # proc[q].folder

Owners == {p \in Procs : Owns(p)}
\* What will be left of the listing once p has removed what it has to.
Left(p) == {n \in Range(order) : \A i \in 1..Len(proc[p].doomed) : proc[p].doomed[i] # n}
\* Beside what p keeps of the folders it has listed, there are only folders
\* made by processes that are past their own rotation.
Room ==
    /\ \A p \in Procs : proc[p].pc \in {"fresh", "create"} => proc[p].doomed = <<>>
    /\ \A p \in Procs : proc[p].pc \in {"remove", "fresh", "create"} =>
           Cardinality(Left(p)) <= MaxRotate - 1 + Cardinality(Owners)
Bounded == Len(order) <= MaxRotate + Cardinality(Procs) - 1
Linked ==
    (\E p \in Procs : Owns(p) /\ proc[p].pc # "unlink") /\ latest = NoFolder
        => \E p \in Procs : proc[p].pc = "link"

RotationInv == Made /\ OwnFolder /\ Room /\ Bounded /\ Linked

-----------------------------------------------------------------------------
(* The reports and the suites. *)

BeforeAppend == {"unlink", "link", "read", "discover", "run", "append"}
Reporting == {"check", "open", "write"}

\* Nothing is in a folder before its process has something to put there.
Bare(f) == f.executed = {} /\ f.results.kind # "report"
Fresh == \A n \in Places : folders[n].state = "unused" => Bare(folders[n])
\* Then the executed file names only tests the process has rows of.
Suits(r, f) ==
    /\ r.pc \in BeforeAppend => Bare(f)
    /\ r.pc \in Reporting => f.executed \subseteq DOMAIN r.rows
Appended == \A p \in Procs : Owns(p) /\ There(proc[p].folder) => Suits(proc[p], folders[proc[p].folder])
\* And those are the rows it exports.
Agrees(f) == f.results.kind = "report" => f.executed \subseteq DOMAIN f.results.rows
Recorded == \A n \in Places : Agrees(folders[n])
ReportInv == Fresh /\ Appended /\ Recorded

-----------------------------------------------------------------------------
(* Facts about the operators. *)

\* find_suite, when it finds a suite, finds none but its tests, and all that are
\* wanted when it was given the whole runtest file.
LEMMA FoundWhole ==
    ASSUME NEW name, NEW sut, NEW fault \in Faults, find_suite(name, sut, fault).ok
    PROVE  LET names == {test.name : test \in find_suite(name, sut, fault).value}
           IN  /\ names \subseteq Declared
               /\ fetched(fault) = Runtest => Whole(names)
<1> DEFINE known == IF Answers(fault, "metadata", sut.metadata # "absent") THEN Metadata ELSE <<>>
           lines == fetched(fault)
           kept == {j \in DOMAIN lines :
                       /\ lines[j].kind = "test"
                       /\ lines[j].name \in DOMAIN known => is_addable(known[lines[j].name])}
           tests == find_suite(name, sut, fault).value
<1>1. find_suite(name, sut, fault) = read_runtest(lines, known)
  BY DEF find_suite, Err
<1>2. read_runtest(lines, known) # Err
  BY <1>1 DEF Err
<1> DEFINE Test(line) == [name |-> line.name,
                          parallel |-> line.name \in DOMAIN known
                                       /\ known[line.name].tags \cap PARALLEL_BLACKLIST = {}]
<1>3. tests = {Test(lines[i]) : i \in kept}
  <2> HIDE DEF lines, known
  <2> QED
    BY <1>1, <1>2 DEF read_runtest, Ok
<1>4. {test.name : test \in tests} = {lines[i].name : i \in kept}
  <2>1. \A i \in kept : Test(lines[i]).name = lines[i].name
    OBVIOUS
  <2> HIDE DEF Test, kept, tests, lines, known
  <2> QED
    BY <1>3, <2>1, Zenon
<1>5. \A i \in DOMAIN lines : i \in DOMAIN Runtest /\ lines[i] = Runtest[i]
  BY FilesAssumption DEF fetched
<1>6. {lines[i].name : i \in kept} \subseteq Declared
  <2> HIDE DEF lines, known
  <2> QED
    BY <1>5 DEF Declared
<1>7. ASSUME lines = Runtest, NEW t \in Wanted
      PROVE  \E i \in kept : lines[i].name = t
  <2>1. PICK i \in DOMAIN Runtest : Runtest[i].kind = "test" /\ Runtest[i].name = t
    BY DEF Wanted, Declared
  <2>2. t \in DOMAIN known => is_addable(known[t])
    <3>1. CASE known = Metadata
      BY <3>1 DEF Wanted
    <3>2. CASE known = <<>>
      BY <3>2
    <3> QED
      BY <3>1, <3>2
  <2> HIDE DEF lines, known
  <2> QED
    BY <1>7, <2>1, <2>2
<1> QED
  BY <1>4, <1>6, <1>7 DEF Whole

\* read_result counts something for every test, whatever it printed.
LEMMA ResultCounts ==
    ASSUME NEW row \in {read_result(o.out, o.retcode) : o \in Outcomes}
    PROVE  row.counts # NoCounts
<1>1. PICK o \in Outcomes : row = read_result(o.out, o.retcode)
  OBVIOUS
<1> DEFINE text == strip_ansi(truncate_stdout(o.out))
           said == IF parse_summary(text) = {} THEN count_markers(text)
                   ELSE CHOOSE c \in parse_summary(text) : TRUE
           code == CASE o.retcode = 0  -> "passed"
                     [] o.retcode = 4  -> "warnings"
                     [] o.retcode = 32 -> "skipped"
                     [] OTHER          -> "failed"
           counts == IF said # NoCounts \/ o.retcode = -1 THEN said ELSE One(code)
<1>2. row.counts = IF o.retcode = -1 THEN [counts EXCEPT !["broken"] = 1] ELSE counts
  BY <1>1 DEF read_result
<1>3. said \in [Counters -> Nat]
  BY FilesAssumption DEF strip_ansi, truncate_stdout, parse_summary, count_markers
<1>4. One(code) # NoCounts
  <2>1. code \in Counters
    BY DEF Counters
  <2> QED
    BY <2>1 DEF One, NoCounts
<1> HIDE DEF said, code
<1>5. CASE o.retcode = -1
  <2>1. row.counts = [said EXCEPT !["broken"] = 1]
    BY <1>2, <1>5
  <2>2. row.counts["broken"] = 1 /\ NoCounts["broken"] = 0
    BY <1>3, <2>1 DEF Counters, NoCounts
  <2> QED
    BY <2>2
<1>6. CASE o.retcode # -1
  BY <1>2, <1>4, <1>6
<1> QED
  BY <1>5, <1>6

-----------------------------------------------------------------------------
(* Type correctness. *)

\* Every folder the listing names is a place, and is named once.
LEMMA OrderTyped ==
    ASSUME NEW s \in Seq(Places), IsInjective(s), NEW n \in Places
    PROVE  /\ RemoveFirst(s, n) \in Seq(Places) /\ IsInjective(RemoveFirst(s, n))
           /\ Append(RemoveFirst(s, n), n) \in Seq(Places) /\ IsInjective(Append(RemoveFirst(s, n), n))
<1> DEFINE r == RemoveFirst(s, n)
<1>1. r \in Seq(Places) /\ IsInjective(r) /\ \A i \in 1..Len(r) : r[i] # n
  BY RemoveFirstKeeps
<1> HIDE DEF r
<1>2. Append(r, n) \in Seq(Places) /\ IsInjective(Append(r, n))
  BY <1>1, AppendKeeps
<1> QED
  BY <1>1, <1>2 DEF r

\* A folder that is written to moves to the end of the listing.
LEMMA TouchedSame ==
    ASSUME FilesTyped, NEW n \in Places, \E i \in 1..Len(order) : order[i] = n
    PROVE  \A m \in Places : (\E i \in 1..Len(Touched(n)) : Touched(n)[i] = m)
                                <=> (\E i \in 1..Len(order) : order[i] = m)
<1> DEFINE r == RemoveFirst(order, n)
<1>1. r \in Seq(Places)
  BY RemoveFirstKeeps DEF FilesTyped
<1>2. \A m \in Places : (\E i \in 1..Len(r) : r[i] = m) <=> m # n /\ \E i \in 1..Len(order) : order[i] = m
  <2>1. order \in Seq(Places) /\ IsInjective(order)
    BY DEF FilesTyped
  <2>2. /\ \A j \in 1..Len(order) : order[j] # n => \E i \in 1..Len(r) : r[i] = order[j]
        /\ \A i \in 1..Len(r) : r[i] # n /\ \E j \in 1..Len(order) : r[i] = order[j]
    BY <2>1, RemoveFirstHas
  <2> HIDE DEF r
  <2>3. ASSUME NEW m \in Places, NEW i \in 1..Len(r), r[i] = m
        PROVE  m # n /\ \E j \in 1..Len(order) : order[j] = m
    <3>1. r[i] # n /\ \E j \in 1..Len(order) : r[i] = order[j]
      BY <2>2
    <3> QED
      BY <2>3, <3>1
  <2>4. ASSUME NEW m \in Places, m # n, NEW j \in 1..Len(order), order[j] = m
        PROVE  \E i \in 1..Len(r) : r[i] = m
    <3>1. \E i \in 1..Len(r) : r[i] = order[j]
      BY <2>2, <2>4
    <3> QED
      BY <2>4, <3>1
  <2> QED
    BY <2>3, <2>4
<1> HIDE DEF r
<1>3. \A m \in Places : (\E i \in 1..Len(Append(r, n)) : Append(r, n)[i] = m) <=> m = n \/ \E i \in 1..Len(r) : r[i] = m
  BY <1>1, AppendHas
<1> QED
  BY <1>2, <1>3 DEF Touched, r

\* A process changes its own record only.
LEMMA OwnRecord ==
    ASSUME Typed, NEW p \in Procs, NEW r \in ProcRecords, Ready(r), proc' = [proc EXCEPT ![p] = r]
    PROVE  /\ proc' \in [Procs -> ProcRecords]
           /\ \A q \in Procs : Ready(proc'[q])
           /\ proc'[p] = r
           /\ \A q \in Procs : q # p => proc'[q] = proc[q]
  BY DEF Typed

\* The updates of a record the steps make.
LEMMA RecordUpdates ==
    ASSUME NEW r \in ProcRecords, NEW pc \in Pcs
    PROVE  /\ [r EXCEPT !.pc = pc] \in ProcRecords
           /\ \A args \in ArgSets : [r EXCEPT !.args = args, !.pc = pc] \in ProcRecords
           /\ \A n \in Places \cup {NoFolder} : /\ [r EXCEPT !.restore = n, !.pc = pc] \in ProcRecords
                                               /\ [r EXCEPT !.pc = pc, !.folder = n] \in ProcRecords
           /\ \A doomed \in Seq(Places) : /\ [r EXCEPT !.pc = pc, !.doomed = doomed] \in ProcRecords
                                          /\ [r EXCEPT !.doomed = doomed] \in ProcRecords
           /\ \A tests \in SUBSET Declared : /\ [r EXCEPT !.pc = pc, !.skip = tests] \in ProcRecords
                                             /\ \A cut \in BOOLEAN :
                                                    [r EXCEPT !.pc = pc, !.todo = tests, !.cut = cut] \in ProcRecords
           /\ \A rows \in RowMaps : [r EXCEPT !.pc = pc, !.rows = rows] \in ProcRecords
           /\ \A targets \in Seq({"results.json", "report"}) :
                  [r EXCEPT !.targets = targets, !.pc = pc] \in ProcRecords
  BY DEF ProcRecords

\* The discovery ends the session or leaves it what it found.
LEMMA DiscoverFinds ==
    ASSUME NEW p \in Procs, Discover(p), ~Goes(p, "exit")
    PROVE  \E fault \in Faults : \E names \in SUBSET Declared :
               /\ fetched(fault) = Runtest => Whole(names)
               /\ proc' = [proc EXCEPT ![p] = [proc[p] EXCEPT !.pc = "run", !.todo = names \ proc[p].skip,
                                                              !.cut = fetched(fault) # Runtest]]
<1>1. PICK sut \in Suts, fault \in Faults :
        LET suite == find_suite(proc[p].args.suite, sut, fault)
        IN  /\ suite.ok
            /\ proc' = [proc EXCEPT ![p].pc = "run",
                                    ![p].todo = {test.name : test \in suite.value} \ proc[p].skip,
                                    ![p].cut = fetched(fault) # Runtest]
  BY DEF Discover
<1> DEFINE names == {test.name : test \in find_suite(proc[p].args.suite, sut, fault).value}
<1>2. names \subseteq Declared /\ (fetched(fault) = Runtest => Whole(names))
  BY <1>1, FoundWhole
<1>3. proc' = [proc EXCEPT ![p] = [proc[p] EXCEPT !.pc = "run", !.todo = names \ proc[p].skip,
                                                  !.cut = fetched(fault) # Runtest]]
  BY <1>1
<1> HIDE DEF names
<1> QED
  BY <1>2, <1>3

\* Initially every process is idle and the earlier sessions' folders are there.
LEMMA TypedInit == Init => Typed
<1> SUFFICES ASSUME Init PROVE Typed
  OBVIOUS
<1>1. PICK done \in SUBSET Declared :
        folders = [n \in Places |-> IF n \in Range(Old) THEN Folder("there", done) ELSE Folder("unused", {})]
  BY DEF Init
<1>2. \A done2 \in SUBSET Declared, st \in States : Folder(st, done2) \in FolderRecords
  BY DEF Folder, FolderRecords, Contents
<1>3. folders \in [Places -> FolderRecords]
  BY <1>1, <1>2 DEF States
<1>4. order \in Seq(Places) /\ IsInjective(order)
  BY FilesAssumption DEF Init
<1>5. latest \in Places \cup {NoFolder}
  <2>1. CASE Old = <<>>
    BY <2>1 DEF Init
  <2>2. CASE Old # <<>>
    <3>1. Last(Old) \in Places
      BY <2>2, FilesAssumption DEF Last
    <3> QED
      BY <2>2, <3>1 DEF Init
  <2> QED
    BY <2>1, <2>2
<1>6. report \in Contents
  BY DEF Init, Contents
<1>7. Idle \in ProcRecords
  BY DEF Idle, ProcRecords, Pcs, RowMaps
<1>8. proc \in [Procs -> ProcRecords]
  BY <1>7 DEF Init
<1>9. \A p \in Procs : proc[p].pc = "idle"
  BY DEF Init, Idle
<1>10. Listed
  BY <1>1 DEF Listed, Init, Folder, Range
<1> QED
  BY <1>3, <1>4, <1>5, <1>6, <1>8, <1>9, <1>10 DEF Typed, FilesTyped, Ready

\* Writing into a folder that is there, or making one, keeps the files in order.
LEMMA FilesKept ==
    ASSUME FilesTyped
    PROVE  /\ UNCHANGED Files => FilesTyped'
           /\ \A n \in Places, r \in FolderRecords :
                 /\ folders[n].state = "there" /\ r.state = "there" /\ folders' = [folders EXCEPT ![n] = r]
                 /\ order' \in {order, Touched(n)} /\ UNCHANGED <<latest, report>>
                 => FilesTyped'
           /\ \A n \in Places, r \in FolderRecords :
                 /\ folders[n].state # "there" /\ r.state = "there" /\ folders' = [folders EXCEPT ![n] = r]
                 /\ order' = Append(order, n) /\ UNCHANGED <<latest, report>>
                 => FilesTyped'
           /\ \A n \in Places, r \in FolderRecords :
                 /\ r.state # "there" /\ folders' = [folders EXCEPT ![n] = r]
                 /\ order' = RemoveFirst(order, n) /\ UNCHANGED <<latest, report>>
                 => FilesTyped'
<1>1. UNCHANGED Files => FilesTyped'
  BY DEF Files, FilesTyped, Listed
<1>2. ASSUME NEW n \in Places, NEW r \in FolderRecords, folders[n].state = "there", r.state = "there",
             folders' = [folders EXCEPT ![n] = r], order' \in {order, Touched(n)}, UNCHANGED <<latest, report>>
      PROVE  FilesTyped'
  <2>1. order' \in Seq(Places) /\ IsInjective(order')
    BY <1>2, OrderTyped DEF FilesTyped, Touched
  <2>2. \A m \in Places : (\E i \in 1..Len(order') : order'[i] = m) <=> (\E i \in 1..Len(order) : order[i] = m)
    <3>1. CASE order' = order
      BY <3>1
    <3>2. CASE order' = Touched(n)
      BY <1>2, <3>2, TouchedSame DEF FilesTyped, Listed
    <3> QED
      BY <1>2, <3>1, <3>2
  <2>3. folders' \in [Places -> FolderRecords] /\ \A m \in Places : folders'[m].state = "there" <=> folders[m].state = "there"
    BY <1>2 DEF FilesTyped
  <2> QED
    BY <1>2, <2>1, <2>2, <2>3 DEF FilesTyped, Listed
<1>3. ASSUME NEW n \in Places, NEW r \in FolderRecords, folders[n].state # "there", r.state = "there",
             folders' = [folders EXCEPT ![n] = r], order' = Append(order, n), UNCHANGED <<latest, report>>
      PROVE  FilesTyped'
  <2>1. \A i \in 1..Len(order) : order[i] # n
    BY <1>3 DEF FilesTyped, Listed
  <2>2. order' \in Seq(Places) /\ IsInjective(order')
    BY <1>3, <2>1, AppendKeeps DEF FilesTyped
  <2>3. \A m \in Places : (\E i \in 1..Len(order') : order'[i] = m) <=> m = n \/ \E i \in 1..Len(order) : order[i] = m
    BY <1>3, AppendHas DEF FilesTyped
  <2>4. folders' \in [Places -> FolderRecords] /\ \A m \in Places : folders'[m].state = "there" <=> m = n \/ folders[m].state = "there"
    BY <1>3 DEF FilesTyped
  <2> QED
    BY <1>3, <2>2, <2>3, <2>4 DEF FilesTyped, Listed
<1>4. ASSUME NEW n \in Places, NEW r \in FolderRecords, r.state # "there",
             folders' = [folders EXCEPT ![n] = r], order' = RemoveFirst(order, n), UNCHANGED <<latest, report>>
      PROVE  FilesTyped'
  <2>1. order' \in Seq(Places) /\ IsInjective(order')
    BY <1>4, OrderTyped DEF FilesTyped
  <2>2. \A m \in Places : (\E i \in 1..Len(order') : order'[i] = m) <=> m # n /\ \E i \in 1..Len(order) : order[i] = m
    <3>1. order \in Seq(Places) /\ IsInjective(order)
      BY DEF FilesTyped
    <3> QED
      BY <1>4, <3>1, RemoveFirstHas
  <2>3. folders' \in [Places -> FolderRecords] /\ \A m \in Places : folders'[m].state = "there" <=> m # n /\ folders[m].state = "there"
    BY <1>4 DEF FilesTyped
  <2> QED
    BY <1>4, <2>1, <2>2, <2>3 DEF FilesTyped, Listed
<1> QED
  BY <1>1, <1>2, <1>3, <1>4

\* What Put makes of the files keeps their types.
LEMMA PutTyped ==
    ASSUME Typed, NEW p \in Procs, Reachable(p), NEW content \in Contents, Put(p, content)
    PROVE  FilesTyped'
<1>1. CASE Own(p)
  <2> DEFINE n == proc[p].folder
             r == [folders[n] EXCEPT !.results = content]
  <2>1. n \in Places /\ folders[n].state = "there"
    BY <1>1 DEF Typed, Reachable, There, ProcRecords
  <2>2. folders[n] \in FolderRecords
    BY <2>1 DEF Typed, FilesTyped
  <2>3. r \in FolderRecords /\ r.state = "there"
    BY <2>1, <2>2 DEF FolderRecords
  <2>4. folders' = [folders EXCEPT ![n] = r] /\ order' \in {order, Touched(n)} /\ UNCHANGED <<latest, report>>
    BY <1>1 DEF Put
  <2> HIDE DEF n, r
  <2> QED
    BY <2>1, <2>3, <2>4, FilesKept DEF Typed
<1>2. CASE ~Own(p)
  BY <1>2 DEF Put, Typed, FilesTyped, Listed
<1> QED
  BY <1>1, <1>2

\* Every step keeps the types.
LEMMA TypedStep ==
    ASSUME Typed, [Next]_vars
    PROVE  Typed'
<1>1. CASE UNCHANGED vars
  BY <1>1 DEF Typed, FilesTyped, Listed, vars
<1>files. UNCHANGED Files => FilesTyped'
  BY FilesKept DEF Typed
<1>own. ASSUME NEW p \in Procs, NEW r \in ProcRecords, Ready(r), proc' = [proc EXCEPT ![p] = r], FilesTyped'
        PROVE  Typed'
  BY <1>own, OwnRecord DEF Typed
<1>rec. \A p \in Procs : proc[p] \in ProcRecords /\ Ready(proc[p])
  BY DEF Typed
<1>2. ASSUME NEW p \in Procs, Start(p)
      PROVE  Typed'
  <2>1. PICK args \in ArgSets :
          proc' = [proc EXCEPT ![p].args = args,
                               ![p].pc = IF validate(args) = "proceed" THEN "resolve" ELSE "exit"]
    BY <1>2 DEF Start
  <2> DEFINE pc == IF validate(args) = "proceed" THEN "resolve" ELSE "exit"
             r == [proc[p] EXCEPT !.args = args, !.pc = pc]
  <2>2. pc \in {"resolve", "exit"} /\ pc \in Pcs
    BY DEF Pcs
  <2>3. proc' = [proc EXCEPT ![p] = r]
    BY <2>1
  <2> HIDE DEF pc
  <2>4. r \in ProcRecords
    BY <1>rec, <2>2, RecordUpdates
  <2>5. Ready(r)
    BY <1>rec, <2>2 DEF ProcRecords, Ready
  <2> QED
    BY <1>2, <1>files, <1>own, <2>3, <2>4, <2>5 DEF Start
<1>3. ASSUME NEW p \in Procs, resolve_restore(p)
      PROVE  Typed'
  <2> DEFINE asked == proc[p].args.restore
             found == IF asked = "latest" THEN latest ELSE asked
             pc == IF proc[p].args.tmpDir = "" THEN "read" ELSE "list"
             r == IF asked # NoFolder /\ ~There(found) THEN [proc[p] EXCEPT !.pc = "exit"]
                  ELSE [proc[p] EXCEPT !.restore = found, !.pc = pc]
  <2>1. proc[p].args.restore \in Places \cup {NoFolder, "latest"}
    BY <1>3, <1>rec, FilesAssumption DEF resolve_restore, Ready
  <2>2. found \in Places \cup {NoFolder}
    BY <2>1 DEF Typed, FilesTyped
  <2>3. pc \in {"read", "list"} /\ pc \in Pcs /\ "exit" \in Pcs
    BY DEF Pcs
  <2>4. proc' = [proc EXCEPT ![p] = r] /\ UNCHANGED Files
    BY <1>3 DEF resolve_restore, Goes
  <2> HIDE DEF found, pc, asked
  <2>5. r \in ProcRecords
    BY <1>rec, <2>2, <2>3, RecordUpdates
  <2>6. Ready(r)
    BY <1>rec, <2>3 DEF ProcRecords, Ready
  <2> QED
    BY <1>files, <1>own, <2>4, <2>5, <2>6
<1>4. ASSUME NEW p \in Procs, Rotate(p)
      PROVE  Typed'
  <2> DEFINE doomed == IF Len(order) < MaxRotate THEN <<>>
                       ELSE SubSeq(order, 1, Len(order) - MaxRotate + 1)
             r == [proc[p] EXCEPT !.pc = "remove", !.doomed = doomed]
  <2>1. doomed \in Seq(Places) /\ "remove" \in Pcs
    BY FilesAssumption DEF Typed, FilesTyped, Pcs
  <2>2. proc' = [proc EXCEPT ![p] = r] /\ UNCHANGED Files
    BY <1>4 DEF Rotate
  <2> HIDE DEF doomed
  <2>3. r \in ProcRecords
    BY <1>rec, <2>1, RecordUpdates
  <2>4. Ready(r)
    BY <1>rec DEF ProcRecords, Ready
  <2> QED
    BY <1>files, <1>own, <2>2, <2>3, <2>4
<1>5. ASSUME NEW p \in Procs, RemoveOld(p)
      PROVE  Typed'
  <2> DEFINE doomed == proc[p].doomed
  <2>1. doomed \in Seq(Places) /\ "fresh" \in Pcs
    BY <1>rec DEF ProcRecords, Pcs
  <2>2. CASE doomed = <<>>
    <3> DEFINE r == [proc[p] EXCEPT !.pc = "fresh"]
    <3>1. proc' = [proc EXCEPT ![p] = r] /\ UNCHANGED Files
      BY <1>5, <2>2 DEF RemoveOld, Files, Goes
    <3>2. r \in ProcRecords
      BY <1>rec, <2>1, RecordUpdates
    <3>3. Ready(r)
      BY <1>rec DEF ProcRecords, Ready
    <3> QED
      BY <1>files, <1>own, <3>1, <3>2, <3>3
  <2>3. CASE doomed # <<>>
    <3> DEFINE r == [proc[p] EXCEPT !.doomed = Tail(doomed)]
               n == Head(doomed)
    <3>1. n \in Places /\ Tail(doomed) \in Seq(Places)
      BY <2>1, <2>3
    <3>2. proc' = [proc EXCEPT ![p] = r] /\ proc[p].pc = "remove"
      BY <1>5, <2>3 DEF RemoveOld
    <3>3. /\ folders' = [folders EXCEPT ![n] = Folder("removed", {})] /\ order' = RemoveFirst(order, n)
          /\ UNCHANGED <<latest, report>>
      BY <1>5, <2>3 DEF RemoveOld
    <3>4. Folder("removed", {}) \in FolderRecords /\ Folder("removed", {}).state # "there"
      BY DEF FolderRecords, Folder, States, Contents
    <3> HIDE DEF n, doomed
    <3>5. r \in ProcRecords
      BY <1>rec, <2>1, <3>1, RecordUpdates
    <3>6. Ready(r)
      BY <1>rec, <3>2 DEF ProcRecords, Ready
    <3>7. FilesTyped'
      BY <3>1, <3>3, <3>4, FilesKept DEF Typed
    <3> QED
      BY <1>own, <3>2, <3>5, <3>6, <3>7
  <2> QED
    BY <2>2, <2>3
<1>6. ASSUME NEW p \in Procs, FreshFolder(p)
      PROVE  Typed'
  <2>1. PICK n \in Names : proc' = [proc EXCEPT ![p].pc = "create", ![p].folder = n]
    BY <1>6 DEF FreshFolder
  <2> DEFINE r == [proc[p] EXCEPT !.pc = "create", !.folder = n]
  <2>2. n \in Places /\ "create" \in Pcs /\ UNCHANGED Files
    BY <1>6 DEF Places, Pcs, FreshFolder
  <2>3. r \in ProcRecords
    BY <1>rec, <2>2, RecordUpdates
  <2>4. Ready(r)
    BY <1>rec, <2>2 DEF ProcRecords, Ready
  <2> QED
    BY <1>files, <1>own, <2>1, <2>2, <2>3, <2>4
<1>7. ASSUME NEW p \in Procs, CreateFolder(p)
      PROVE  Typed'
  <2> DEFINE n == proc[p].folder
             f == [folders[n] EXCEPT !.state = "there"]
             gone == [proc[p] EXCEPT !.pc = "exit", !.folder = NoFolder]
             made == [proc[p] EXCEPT !.pc = "unlink"]
  <2>1. n \in Places /\ "unlink" \in Pcs /\ "exit" \in Pcs
    BY <1>7, <1>rec DEF CreateFolder, Ready, Pcs
  <2>2. gone \in ProcRecords /\ made \in ProcRecords
    BY <1>rec, <2>1, RecordUpdates
  <2>3. Ready(gone) /\ Ready(made)
    BY <1>rec, <2>1 DEF ProcRecords, Ready
  <2>4. CASE folders[n].state # "unused"
    <3>1. proc' = [proc EXCEPT ![p] = gone] /\ UNCHANGED Files
      BY <1>7, <2>4 DEF CreateFolder, Files
    <3> QED
      BY <1>files, <1>own, <2>2, <2>3, <3>1
  <2>5. CASE folders[n].state = "unused"
    <3>1. /\ proc' = [proc EXCEPT ![p] = made]
          /\ folders' = [folders EXCEPT ![n] = f] /\ order' = Append(order, n) /\ UNCHANGED <<latest, report>>
      BY <1>7, <2>5 DEF CreateFolder, Goes
    <3>2. folders[n] \in FolderRecords
      BY <2>1 DEF Typed, FilesTyped
    <3>3. f \in FolderRecords /\ f.state = "there"
      BY <3>2 DEF FolderRecords, States
    <3> HIDE DEF n, f, made
    <3>4. FilesTyped'
      BY <2>1, <2>5, <3>1, <3>3, FilesKept DEF Typed
    <3> QED
      BY <1>own, <2>2, <2>3, <3>1, <3>4
  <2> QED
    BY <2>4, <2>5
<1>8. ASSUME NEW p \in Procs, Unlink(p)
      PROVE  Typed'
  <2> DEFINE r == [proc[p] EXCEPT !.pc = "link"]
  <2>1. proc' = [proc EXCEPT ![p] = r] /\ proc[p].pc = "unlink" /\ "link" \in Pcs
    BY <1>8 DEF Unlink, Goes, Pcs
  <2>2. r \in ProcRecords
    BY <1>rec, <2>1, RecordUpdates
  <2>3. Ready(r)
    BY <1>rec, <2>1 DEF ProcRecords, Ready
  <2>4. FilesTyped'
    BY <1>8 DEF Unlink, Typed, FilesTyped, Listed
  <2> QED
    BY <1>own, <2>1, <2>2, <2>3, <2>4
<1>9. ASSUME NEW p \in Procs, Link(p)
      PROVE  Typed'
  <2> DEFINE pc == IF latest # NoFolder THEN "exit" ELSE "read"
             r == [proc[p] EXCEPT !.pc = pc]
  <2>1. proc' = [proc EXCEPT ![p] = r] /\ pc \in {"exit", "read"} /\ pc \in Pcs
    BY <1>9 DEF Link, Goes, Pcs
  <2>2. FilesTyped'
    BY <1>9, <1>rec DEF Link, Ready, Typed, FilesTyped, Listed
  <2> HIDE DEF pc
  <2>3. r \in ProcRecords
    BY <1>rec, <2>1, RecordUpdates
  <2>4. Ready(r)
    BY <1>rec, <2>1 DEF ProcRecords, Ready
  <2> QED
    BY <1>own, <2>1, <2>2, <2>3, <2>4
<1>10. ASSUME NEW p \in Procs, ReadRestored(p)
       PROVE  Typed'
  <2> DEFINE from == proc[p].restore
             skip == IF There(from) THEN folders[from].executed ELSE {}
             r == [proc[p] EXCEPT !.pc = "discover", !.skip = skip]
  <2>1. skip \in SUBSET Declared /\ "discover" \in Pcs
    <3>1. from \in Places \cup {NoFolder} /\ "discover" \in Pcs
      BY <1>rec DEF ProcRecords, Pcs
    <3>2. \A n \in Places : folders[n].executed \in SUBSET Declared
      BY DEF Typed, FilesTyped, FolderRecords
    <3> HIDE DEF from
    <3> QED
      BY <3>1, <3>2 DEF There
  <2>2. proc' = [proc EXCEPT ![p] = r] /\ UNCHANGED Files
    BY <1>10 DEF ReadRestored
  <2> HIDE DEF skip
  <2>3. r \in ProcRecords
    BY <1>rec, <2>1, RecordUpdates
  <2>4. Ready(r)
    BY <1>rec DEF ProcRecords, Ready
  <2> QED
    BY <1>files, <1>own, <2>2, <2>3, <2>4
<1>11. ASSUME NEW p \in Procs, Discover(p)
       PROVE  Typed'
  <2>1. CASE Goes(p, "exit")
    <3>1. "exit" \in Pcs
      BY DEF Pcs
    <3>2. [proc[p] EXCEPT !.pc = "exit"] \in ProcRecords
      BY <1>rec, <3>1, RecordUpdates
    <3>3. Ready([proc[p] EXCEPT !.pc = "exit"])
      BY <1>rec DEF ProcRecords, Ready
    <3> QED
      BY <1>11, <1>files, <1>own, <2>1, <3>2, <3>3 DEF Discover, Goes
  <2>2. CASE ~Goes(p, "exit")
    <3>1. PICK fault \in Faults, names \in SUBSET Declared :
            proc' = [proc EXCEPT ![p] = [proc[p] EXCEPT !.pc = "run", !.todo = names \ proc[p].skip,
                                                        !.cut = fetched(fault) # Runtest]]
      BY <1>11, <2>2, DiscoverFinds
    <3> DEFINE todo == names \ proc[p].skip
               cut == fetched(fault) # Runtest
               r == [proc[p] EXCEPT !.pc = "run", !.todo = todo, !.cut = cut]
    <3>2. todo \in SUBSET Declared /\ cut \in BOOLEAN /\ "run" \in Pcs /\ proc' = [proc EXCEPT ![p] = r]
      BY <3>1 DEF Pcs
    <3> HIDE DEF todo, cut
    <3>3. r \in ProcRecords
      BY <1>rec, <3>2, RecordUpdates
    <3>4. Ready(r)
      BY <1>rec DEF ProcRecords, Ready
    <3> QED
      BY <1>11, <1>files, <1>own, <3>2, <3>3, <3>4 DEF Discover
  <2> QED
    BY <2>1, <2>2
<1>12. ASSUME NEW p \in Procs, RunSuite(p)
       PROVE  Typed'
  <2>0. PICK tests \in SUBSET proc[p].todo : \E did \in [tests -> Outcomes] :
          proc' = [proc EXCEPT ![p].pc = "append",
                               ![p].rows = [t \in tests |-> read_result(did[t].out, did[t].retcode)]]
    BY <1>12 DEF RunSuite
  <2>1. PICK did \in [tests -> Outcomes] :
          proc' = [proc EXCEPT ![p].pc = "append",
                               ![p].rows = [t \in tests |-> read_result(did[t].out, did[t].retcode)]]
    BY <2>0
  <2> DEFINE rows == [t \in tests |-> read_result(did[t].out, did[t].retcode)]
             r == [proc[p] EXCEPT !.pc = "append", !.rows = rows]
  <2>2. rows \in [tests -> Rows]
    BY DEF Rows
  <2>3. rows \in RowMaps /\ "append" \in Pcs
    <3>1. tests \in SUBSET Declared
      BY <1>rec DEF ProcRecords
    <3> HIDE DEF rows
    <3> QED
      BY <2>2, <3>1 DEF RowMaps, Pcs
  <2>4. proc' = [proc EXCEPT ![p] = r] /\ UNCHANGED Files
    BY <1>12, <2>1 DEF RunSuite
  <2> HIDE DEF rows
  <2>5. r \in ProcRecords
    BY <1>rec, <2>3, RecordUpdates
  <2>6. Ready(r)
    BY <1>rec DEF ProcRecords, Ready
  <2> QED
    BY <1>files, <1>own, <2>4, <2>5, <2>6
<1>13. ASSUME NEW p \in Procs, AppendExecuted(p)
       PROVE  Typed'
  <2> DEFINE n == proc[p].folder
             targets == Targets(p)
             pc == IF targets = <<>> THEN "exit" ELSE "check"
             r == [proc[p] EXCEPT !.targets = targets, !.pc = pc]
  <2>1. targets \in Seq({"results.json", "report"})
    <3> DEFINE own == IF n = NoFolder THEN <<>> ELSE <<"results.json">>
               more == IF proc[p].args.report THEN <<"report">> ELSE <<>>
    <3>1. own \in Seq({"results.json", "report"}) /\ more \in Seq({"results.json", "report"})
      <4>1. /\ <<>> \in Seq({"results.json", "report"}) /\ <<"report">> \in Seq({"results.json", "report"})
            /\ <<"results.json">> \in Seq({"results.json", "report"})
        OBVIOUS
      <4> QED
        BY <4>1, Zenon
    <3>2. targets = own \o more
      BY DEF Targets
    <3> HIDE DEF own, more, targets
    <3> QED
      BY <3>1, <3>2
  <2>2. pc \in {"exit", "check"} /\ (pc = "check" => targets # <<>>)
    BY Zenon
  <2>3. proc' = [proc EXCEPT ![p] = r] /\ UNCHANGED <<latest, report>>
    BY <1>13 DEF AppendExecuted
  <2>4. FilesTyped'
    <3>1. CASE UNCHANGED <<folders, order>>
      BY <1>files, <2>3, <3>1 DEF Files
    <3>2. CASE ~UNCHANGED <<folders, order>>
      <4>1. PICK lines \in SUBSET DOMAIN proc[p].rows :
              folders' = [folders EXCEPT ![n].executed = folders[n].executed \cup lines]
        BY <1>13, <3>2 DEF AppendExecuted
      <4> DEFINE f == [folders[n] EXCEPT !.executed = folders[n].executed \cup lines]
      <4>2. There(n) /\ order' = Touched(n)
        BY <1>13, <3>2 DEF AppendExecuted
      <4>3. n \in Places /\ folders[n].state = "there"
        BY <1>rec, <4>2 DEF ProcRecords, There
      <4>4. folders[n] \in FolderRecords
        BY <4>3 DEF Typed, FilesTyped
      <4>5. DOMAIN proc[p].rows \subseteq Declared
        BY <1>rec DEF ProcRecords, RowMaps
      <4>6. f \in FolderRecords /\ f.state = "there"
        BY <4>3, <4>4, <4>5 DEF FolderRecords
      <4>7. folders' = [folders EXCEPT ![n] = f]
        BY <4>1
      <4> HIDE DEF n, f
      <4> QED
        BY <2>3, <4>2, <4>3, <4>6, <4>7, FilesKept DEF Typed
    <3> QED
      BY <3>1, <3>2
  <2> HIDE DEF targets, pc
  <2>5. r \in ProcRecords
    <3>1. pc \in Pcs
      BY <2>2 DEF Pcs
    <3> QED
      BY <1>rec, <2>1, <3>1, RecordUpdates
  <2>6. Ready(r)
    BY <1>rec, <2>2 DEF ProcRecords, Ready
  <2> QED
    BY <1>own, <2>3, <2>4, <2>5, <2>6
<1>goes. ASSUME NEW p \in Procs, NEW pc \in {"exit", "open", "write"}, Goes(p, pc),
                pc = "exit" \/ proc[p].pc \in {"check", "open"}, FilesTyped'
         PROVE  Typed'
  <2> DEFINE r == [proc[p] EXCEPT !.pc = pc]
  <2>1. proc' = [proc EXCEPT ![p] = r] /\ pc \in Pcs
    BY <1>goes DEF Goes, Pcs
  <2>2. r \in ProcRecords
    BY <1>rec, <2>1, RecordUpdates
  <2>3. Ready(r)
    BY <1>goes, <1>rec DEF ProcRecords, Ready
  <2> QED
    BY <1>goes, <1>own, <2>1, <2>2, <2>3
<1>14. ASSUME NEW p \in Procs, ExportCheck(p)
       PROVE  Typed'
  BY <1>14, <1>goes, <1>files DEF ExportCheck
<1>15. ASSUME NEW p \in Procs, ExportOpen(p)
       PROVE  Typed'
  <2>1. CASE Reachable(p)
    <3>1. Empty \in Contents
      BY DEF Contents
    <3> QED
      BY <1>15, <1>goes, <2>1, <3>1, PutTyped DEF ExportOpen
  <2>2. CASE ~Reachable(p)
    BY <1>15, <1>goes, <1>files, <2>2 DEF ExportOpen, Exit
  <2> QED
    BY <2>1, <2>2
<1>16. ASSUME NEW p \in Procs, ExportWrite(p)
       PROVE  Typed'
  <2> DEFINE rest == Tail(proc[p].targets)
             pc == IF rest = <<>> THEN "exit" ELSE "check"
             r == [proc[p] EXCEPT !.targets = rest, !.pc = pc]
  <2>1. rest \in Seq({"results.json", "report"})
    BY <1>16, <1>rec DEF ExportWrite, Ready, ProcRecords
  <2>2. pc \in {"exit", "check"} /\ (pc = "check" => rest # <<>>)
    BY Zenon
  <2>3. proc' = [proc EXCEPT ![p] = r]
    BY <1>16 DEF ExportWrite
  <2>4. FilesTyped'
    <3>1. report_value(proc[p].rows) \in Contents
      BY <1>rec DEF ProcRecords, Contents
    <3> QED
      BY <1>16, <1>files, <3>1, PutTyped DEF ExportWrite
  <2> HIDE DEF rest, pc
  <2>5. r \in ProcRecords
    <3>1. pc \in Pcs
      BY <2>2 DEF Pcs
    <3> QED
      BY <1>rec, <2>1, <3>1, RecordUpdates
  <2>6. Ready(r)
    BY <1>rec, <2>2 DEF ProcRecords, Ready
  <2> QED
    BY <1>own, <2>3, <2>4, <2>5, <2>6
<1>17. ASSUME NEW p \in Procs, Interrupt(p)
       PROVE  Typed'
  BY <1>17, <1>goes, <1>files DEF Interrupt, Exit
<1> QED
  BY <1>1, <1>2, <1>3, <1>4, <1>5, <1>6, <1>7, <1>8, <1>9, <1>10, <1>11, <1>12, <1>13, <1>14, <1>15,
     <1>16, <1>17 DEF Next, TempDirStep, SessionStep

\* The files and the processes keep their types, and the listing by mtime is
\* of the folders that are there.
THEOREM FilesTypeCorrect == Spec => []Typed
<1>1. Init => Typed
  BY TypedInit
<1>2. Typed /\ [Next]_vars => Typed'
  BY TypedStep
<1> QED
  BY <1>1, <1>2, PTL DEF Spec

-----------------------------------------------------------------------------
(* The rotation keeps its bound. *)

\* A listing without repetitions has as many entries as folders.
LEMMA ListingCounts ==
    ASSUME NEW S, NEW s \in Seq(S), IsInjective(s)
    PROVE  IsFiniteSet(Range(s)) /\ Cardinality(Range(s)) = Len(s)
<1>1. s \in [1..Len(s) -> Range(s)] /\ DOMAIN s = 1..Len(s) /\ Len(s) \in Nat
  BY DEF Range
<1>2. s \in Bijection(1..Len(s), Range(s))
  BY <1>1 DEF Bijection, Injection, Surjection, IsInjective, Range
<1>3. ExistsBijection(1..Len(s), Range(s))
  BY <1>2 DEF ExistsBijection
<1>4. IsFiniteSet(Range(s))
  BY <1>1, <1>3, FS_NatBijection
<1> QED
  BY <1>1, <1>3, <1>4, FS_CountingElements

\* Without its first k entries a listing names at most Len - k folders.
LEMMA RestCounts ==
    ASSUME NEW S, NEW s \in Seq(S), NEW k \in 0..Len(s), NEW T,
           \A n \in T : \E i \in (k + 1)..Len(s) : s[i] = n
    PROVE  Cardinality(T) <= Len(s) - k
<1> DEFINE rest == {s[i] : i \in (k + 1)..Len(s)}
           f == [i \in (k + 1)..Len(s) |-> s[i]]
<1>1. f \in Surjection((k + 1)..Len(s), rest)
  BY DEF Surjection
<1>2. IsFiniteSet((k + 1)..Len(s)) /\ Cardinality((k + 1)..Len(s)) = Len(s) - k
  <2>1. k + 1 \in Int /\ Len(s) \in Int
    OBVIOUS
  <2>2. /\ IsFiniteSet((k + 1)..Len(s))
        /\ Cardinality((k + 1)..Len(s)) = IF k + 1 > Len(s) THEN 0 ELSE Len(s) - (k + 1) + 1
    BY <2>1, FS_Interval
  <2> QED
    BY <2>2
<1> HIDE DEF f
<1>3. IsFiniteSet(rest) /\ Cardinality(rest) <= Cardinality((k + 1)..Len(s))
  BY <1>1, <1>2, FS_Surjection
<1>4. T \in SUBSET rest
  OBVIOUS
<1> HIDE DEF rest
<1>5. IsFiniteSet(T) /\ Cardinality(T) <= Cardinality(rest)
  BY <1>3, <1>4, FS_Subset
<1>6. Cardinality(T) \in Nat /\ Cardinality(rest) \in Nat
  BY <1>3, <1>5, FS_CardinalityType
<1> QED
  BY <1>2, <1>3, <1>5, <1>6

\* The sets that are counted are finite.
LEMMA CountedSets ==
    ASSUME Typed
    PROVE  /\ IsFiniteSet(Range(order)) /\ Cardinality(Range(order)) = Len(order)
           /\ \A p \in Procs : IsFiniteSet(Left(p)) /\ Cardinality(Left(p)) \in Nat
           /\ IsFiniteSet(Owners) /\ Cardinality(Owners) \in Nat /\ Cardinality(Procs) \in Nat
<1>1. IsFiniteSet(Range(order)) /\ Cardinality(Range(order)) = Len(order)
  BY ListingCounts DEF Typed, FilesTyped
<1>2. \A p \in Procs : Left(p) \in SUBSET Range(order)
  BY DEF Left
<1>3. Owners \in SUBSET Procs
  BY DEF Owners
<1>4. \A p \in Procs : IsFiniteSet(Left(p))
  BY <1>1, <1>2, FS_Subset
<1>5. IsFiniteSet(Owners) /\ IsFiniteSet(Procs)
  BY <1>3, FilesAssumption, FS_Subset
<1> QED
  BY <1>1, <1>4, <1>5, FS_CardinalityType

TempDirPcs == {"remove", "fresh", "create", "unlink", "link"}
\* The tests of a suite are run: the process then appends their rows, or ends.
LEMMA RunSuiteMoves ==
    ASSUME Typed, NEW p \in Procs, RunSuite(p)
    PROVE  /\ \A q \in Procs : q # p => proc'[q] = proc[q]
           /\ proc'[p].pc = "append" /\ DOMAIN proc'[p].rows \subseteq proc[p].todo
           /\ \A key \in {"folder", "skip", "todo", "cut"} : proc'[p][key] = proc[p][key]
<1>1. proc \in [Procs -> ProcRecords] /\ proc[p] \in ProcRecords
  BY DEF Typed
<1>2. PICK rows : /\ DOMAIN rows \subseteq proc[p].todo
                  /\ proc' = [proc EXCEPT ![p] = [proc[p] EXCEPT !.pc = "append", !.rows = rows]]
  <2>1. PICK tests \in SUBSET proc[p].todo : \E did \in [tests -> Outcomes] :
          proc' = [proc EXCEPT ![p].pc = "append",
                               ![p].rows = [t \in tests |-> read_result(did[t].out, did[t].retcode)]]
    BY DEF RunSuite
  <2>2. PICK did \in [tests -> Outcomes] :
          proc' = [proc EXCEPT ![p].pc = "append",
                               ![p].rows = [t \in tests |-> read_result(did[t].out, did[t].retcode)]]
    BY <2>1
  <2> DEFINE rows == [t \in tests |-> read_result(did[t].out, did[t].retcode)]
  <2>3. DOMAIN rows \subseteq proc[p].todo
    OBVIOUS
  <2>4. proc' = [proc EXCEPT ![p] = [proc[p] EXCEPT !.pc = "append", !.rows = rows]]
    <3> HIDE DEF rows
    <3> QED
      BY <1>1, <2>2 DEF rows
  <2> QED
    BY <2>3, <2>4
<1>3. proc'[p] = [proc[p] EXCEPT !.pc = "append", !.rows = rows]
  BY <1>1, <1>2
<1>4. /\ proc'[p].pc = "append" /\ proc'[p].rows = rows
      /\ \A key \in {"folder", "skip", "todo", "cut"} : proc'[p][key] = proc[p][key]
  BY <1>1, <1>3 DEF ProcRecords
<1> QED
  BY <1>1, <1>2, <1>4

\* A step outside TempDir::new: no folder comes or goes.
Quiet(p) ==
    /\ \A q \in Procs : q # p => proc'[q] = proc[q]
    /\ proc'[p].folder = proc[p].folder
    /\ proc[p].pc \notin TempDirPcs /\ proc'[p].pc \notin TempDirPcs
    /\ proc'[p].pc \in {"idle", "resolve", "list"} => proc[p].pc \in {"idle", "resolve"}
    /\ \A n \in Places : folders'[n].state = folders[n].state
    /\ Range(order') = Range(order) /\ Len(order') = Len(order) /\ latest' = latest

\* Writing into a folder changes the order of the listing only.
LEMMA TouchedQuiet ==
    ASSUME Typed, NEW n \in Places, folders[n].state = "there"
    PROVE  Range(Touched(n)) = Range(order) /\ Len(Touched(n)) = Len(order)
<1>1. order \in Seq(Places) /\ IsInjective(order) /\ \E i \in 1..Len(order) : order[i] = n
  BY DEF Typed, FilesTyped, Listed
<1>2. Touched(n) \in Seq(Places)
  BY <1>1, OrderTyped DEF Touched
<1>3. \A m \in Places : (\E i \in 1..Len(Touched(n)) : Touched(n)[i] = m)
                            <=> (\E i \in 1..Len(order) : order[i] = m)
  BY <1>1, TouchedSame DEF Typed
<1>4. Len(Touched(n)) = Len(order)
  <2> DEFINE r == RemoveFirst(order, n)
  <2>1. r \in Seq(Places) /\ Len(r) = Len(order) - 1
    BY <1>1, RemoveFirstKeeps
  <2> HIDE DEF r
  <2>2. Len(Append(r, n)) = Len(order)
    BY <1>1, <2>1
  <2> QED
    BY <2>2 DEF Touched, r
<1>5. Range(Touched(n)) = Range(order)
  <2> DEFINE t == Touched(n)
  <2> HIDE DEF t
  <2>1. \A m : m \in Range(t) <=> m \in Places /\ \E i \in 1..Len(t) : t[i] = m
    BY <1>2 DEF Range, t
  <2>2. \A m : m \in Range(order) <=> m \in Places /\ \E i \in 1..Len(order) : order[i] = m
    BY <1>1 DEF Range
  <2> QED
    BY <1>3, <2>1, <2>2 DEF t
<1> QED
  BY <1>4, <1>5

\* The steps outside TempDir::new are quiet.
LEMMA QuietSteps ==
    ASSUME Typed, Typed', NEW p \in Procs, Start(p) \/ resolve_restore(p) \/ SessionStep(p)
    PROVE  Quiet(p)
<1>rec. /\ proc \in [Procs -> ProcRecords] /\ proc' \in [Procs -> ProcRecords]
        /\ proc[p] \in ProcRecords
  BY DEF Typed
<1>same. ASSUME UNCHANGED Files
         PROVE  /\ \A n \in Places : folders'[n].state = folders[n].state
                /\ Range(order') = Range(order) /\ Len(order') = Len(order) /\ latest' = latest
  BY <1>same DEF Files
<1>touch. ASSUME NEW n \in Places, folders[n].state = "there", folders' \in [Places -> FolderRecords],
                 \A m \in Places : folders'[m].state = folders[m].state,
                 order' \in {order, Touched(n)}, latest' = latest
          PROVE  /\ \A m \in Places : folders'[m].state = folders[m].state
                 /\ Range(order') = Range(order) /\ Len(order') = Len(order) /\ latest' = latest
  BY <1>touch, TouchedQuiet
<1>put. ASSUME Reachable(p), NEW content, Put(p, content)
        PROVE  /\ \A n \in Places : folders'[n].state = folders[n].state
               /\ Range(order') = Range(order) /\ Len(order') = Len(order) /\ latest' = latest
  <2>1. CASE Own(p)
    <3>1. proc[p].folder \in Places /\ folders[proc[p].folder].state = "there"
      BY <1>put, <1>rec, <2>1 DEF Reachable, There, ProcRecords
    <3>2. \A n \in Places : folders'[n].state = folders[n].state
      BY <1>put, <2>1, <3>1 DEF Put, Typed, FilesTyped, FolderRecords
    <3> QED
      BY <1>put, <1>touch, <2>1, <3>1, <3>2 DEF Put, Typed, FilesTyped
  <2>2. CASE ~Own(p)
    BY <1>put, <2>2 DEF Put
  <2> QED
    BY <2>1, <2>2
<1>goes. ASSUME NEW pc \in Pcs, Goes(p, pc)
         PROVE  /\ \A q \in Procs : q # p => proc'[q] = proc[q]
                /\ proc'[p].folder = proc[p].folder /\ proc'[p].pc = pc
  BY <1>goes, <1>rec DEF Goes, ProcRecords
<1>1. CASE Start(p)
  <2>1. \A q \in Procs : q # p => proc'[q] = proc[q]
    BY <1>1, <1>rec DEF Start
  <2>2. proc'[p].folder = proc[p].folder /\ proc'[p].pc \in {"resolve", "exit"}
    <3>1. PICK args \in ArgSets, pc \in {"resolve", "exit"} :
             proc' = [proc EXCEPT ![p] = [proc[p] EXCEPT !.args = args, !.pc = pc]]
      BY <1>1 DEF Start
    <3>2. proc'[p] = [proc[p] EXCEPT !.args = args, !.pc = pc]
      BY <1>rec, <3>1
    <3> QED
      BY <1>rec, <3>2 DEF ProcRecords
  <2> QED
    BY <1>1, <1>same, <2>1, <2>2 DEF Start, Quiet, TempDirPcs
<1>2. CASE resolve_restore(p)
  <2>1. \A q \in Procs : q # p => proc'[q] = proc[q]
    BY <1>2, <1>rec DEF resolve_restore, Goes
  <2>2. proc'[p].folder = proc[p].folder /\ proc'[p].pc \in {"read", "list", "exit"}
    <3>1. CASE Goes(p, "exit")
      <4>1. "exit" \in Pcs
        BY DEF Pcs
      <4> QED
        BY <1>goes, <3>1, <4>1
    <3>2. CASE ~Goes(p, "exit")
      <4> DEFINE asked == proc[p].args.restore
                 found == IF asked = "latest" THEN latest ELSE asked
                 pc == IF proc[p].args.tmpDir = "" THEN "read" ELSE "list"
      <4>1. proc' = [proc EXCEPT ![p] = [proc[p] EXCEPT !.restore = found, !.pc = pc]] /\ pc \in {"read", "list"}
        BY <1>2, <3>2 DEF resolve_restore
      <4> HIDE DEF found, pc
      <4>2. proc'[p] = [proc[p] EXCEPT !.restore = found, !.pc = pc]
        BY <1>rec, <4>1
      <4> QED
        BY <1>rec, <4>1, <4>2 DEF ProcRecords
    <3> QED
      BY <3>1, <3>2
  <2> QED
    BY <1>2, <1>same, <2>1, <2>2 DEF resolve_restore, Quiet, TempDirPcs
<1>3. CASE ReadRestored(p)
  <2>1. /\ \A q \in Procs : q # p => proc'[q] = proc[q]
        /\ proc'[p].folder = proc[p].folder /\ proc'[p].pc = "discover"
    BY <1>3, <1>rec DEF ReadRestored, ProcRecords
  <2> QED
    BY <1>3, <1>same, <2>1 DEF ReadRestored, Quiet, TempDirPcs
<1>4. CASE Discover(p)
  <2>1. \A q \in Procs : q # p => proc'[q] = proc[q]
    BY <1>4, <1>rec DEF Discover, Goes
  <2>2. proc'[p].folder = proc[p].folder /\ proc'[p].pc \in {"run", "exit"}
    <3>1. CASE Goes(p, "exit")
      <4>1. "exit" \in Pcs
        BY DEF Pcs
      <4> QED
        BY <1>goes, <3>1, <4>1
    <3>2. CASE ~Goes(p, "exit")
      <4>1. PICK fault \in Faults, names \in SUBSET Declared :
              proc' = [proc EXCEPT ![p] = [proc[p] EXCEPT !.pc = "run", !.todo = names \ proc[p].skip,
                                                          !.cut = fetched(fault) # Runtest]]
        BY <1>4, <3>2, DiscoverFinds
      <4> DEFINE todo == names \ proc[p].skip
                 cut == fetched(fault) # Runtest
      <4> HIDE DEF todo, cut
      <4>2. proc'[p] = [proc[p] EXCEPT !.pc = "run", !.todo = todo, !.cut = cut]
        BY <1>rec, <4>1 DEF todo, cut
      <4> QED
        BY <1>rec, <4>2 DEF ProcRecords
    <3> QED
      BY <3>1, <3>2
  <2> QED
    BY <1>4, <1>same, <2>1, <2>2 DEF Discover, Quiet, TempDirPcs
<1>5. CASE RunSuite(p)
  <2> QED
    BY <1>5, <1>same, RunSuiteMoves DEF RunSuite, Quiet, TempDirPcs
<1>6. CASE AppendExecuted(p)
  <2>1. \A q \in Procs : q # p => proc'[q] = proc[q]
    BY <1>6, <1>rec DEF AppendExecuted
  <2>2. proc'[p].folder = proc[p].folder /\ proc'[p].pc \in {"check", "exit"}
    BY <1>6, <1>rec DEF AppendExecuted, ProcRecords
  <2>3. /\ \A n \in Places : folders'[n].state = folders[n].state
        /\ Range(order') = Range(order) /\ Len(order') = Len(order) /\ latest' = latest
    <3>1. CASE ~UNCHANGED <<folders, order>>
      <4>1. PICK lines : folders' = [folders EXCEPT ![proc[p].folder].executed
                                        = folders[proc[p].folder].executed \cup lines]
        BY <1>6, <3>1 DEF AppendExecuted
      <4>2. There(proc[p].folder) /\ order' = Touched(proc[p].folder)
        BY <1>6, <3>1 DEF AppendExecuted
      <4>3. proc[p].folder \in Places /\ folders[proc[p].folder].state = "there"
        BY <1>rec, <4>2 DEF There, ProcRecords
      <4>4. \A n \in Places : folders'[n].state = folders[n].state
        <5> DEFINE n == proc[p].folder
                   f == [folders[n] EXCEPT !.executed = folders[n].executed \cup lines]
        <5>1. folders' = [folders EXCEPT ![n] = f]
          BY <4>1
        <5>2. folders \in [Places -> FolderRecords] /\ folders[n] \in FolderRecords
          BY <4>3 DEF Typed, FilesTyped
        <5>3. f.state = folders[n].state
          BY <5>2 DEF FolderRecords
        <5> HIDE DEF n, f
        <5> QED
          BY <5>1, <5>2, <5>3
      <4> QED
        BY <1>6, <1>touch, <4>2, <4>3, <4>4 DEF AppendExecuted, Typed, FilesTyped
    <3>2. CASE UNCHANGED <<folders, order>>
      BY <1>6, <3>2 DEF AppendExecuted
    <3> QED
      BY <3>1, <3>2
  <2> QED
    BY <1>6, <2>1, <2>2, <2>3 DEF AppendExecuted, Quiet, TempDirPcs
<1>7. CASE ExportCheck(p)
  <2>1. PICK pc \in {"open", "exit"} : Goes(p, pc)
    BY <1>7 DEF ExportCheck
  <2>2. pc \in Pcs
    BY DEF Pcs
  <2> QED
    BY <1>7, <1>goes, <1>same, <2>1, <2>2 DEF ExportCheck, Quiet, TempDirPcs
<1>8. CASE ExportOpen(p)
  <2>1. "write" \in Pcs /\ "exit" \in Pcs
    BY DEF Pcs
  <2>2. CASE Reachable(p)
    BY <1>8, <1>goes, <1>put, <2>1, <2>2 DEF ExportOpen, Quiet, TempDirPcs
  <2>3. CASE ~Reachable(p)
    BY <1>8, <1>goes, <1>same, <2>1, <2>3 DEF ExportOpen, Exit, Quiet, TempDirPcs
  <2> QED
    BY <2>2, <2>3
<1>9. CASE ExportWrite(p)
  <2>1. \A q \in Procs : q # p => proc'[q] = proc[q]
    BY <1>9, <1>rec DEF ExportWrite
  <2>2. proc'[p].folder = proc[p].folder /\ proc'[p].pc \in {"check", "exit"}
    BY <1>9, <1>rec DEF ExportWrite, ProcRecords
  <2> QED
    BY <1>9, <1>put, <1>same, <2>1, <2>2 DEF ExportWrite, Quiet, TempDirPcs
<1>10. CASE Interrupt(p)
  <2>1. "exit" \in Pcs
    BY DEF Pcs
  <2> QED
    BY <1>10, <1>goes, <1>same, <2>1 DEF Interrupt, Exit, Quiet, TempDirPcs
<1> QED
  BY <1>1, <1>2, <1>3, <1>4, <1>5, <1>6, <1>7, <1>8, <1>9, <1>10 DEF SessionStep

\* Initially nobody has made a folder.
LEMMA RotationInit == Init => RotationInv
<1> SUFFICES ASSUME Init PROVE RotationInv
  OBVIOUS
<1>1. \A p \in Procs : proc[p].pc = "idle" /\ proc[p].folder = NoFolder
  BY DEF Init, Idle
<1>2. Len(order) <= MaxRotate + Cardinality(Procs) - 1
  BY FilesAssumption DEF Init
<1> QED
  BY <1>1, <1>2 DEF RotationInv, Made, OwnFolder, Room, Bounded, Linked, Owns

\* A quiet step leaves the rotation as it is.
LEMMA RotationQuiet ==
    ASSUME Typed, RotationInv, NEW p \in Procs, Quiet(p)
    PROVE  RotationInv'
<1>1. ASSUME NEW q \in Procs
      PROVE  /\ (Owns(q)' <=> Owns(q))
             /\ proc'[q].folder = proc[q].folder
             /\ proc'[q].pc \in TempDirPcs => proc'[q] = proc[q]
             /\ proc[q].pc \in TempDirPcs => proc'[q] = proc[q]
             /\ proc'[q].pc \in {"idle", "resolve", "list"} => proc[q].pc \in {"idle", "resolve", "list"}
  <2>1. CASE q = p
    BY <2>1 DEF Quiet, Owns, TempDirPcs
  <2>2. CASE q # p
    BY <2>2 DEF Quiet, Owns
  <2> QED
    BY <2>1, <2>2
<1>2. \A q \in Procs : Owns(q) => proc[q].folder \in Places
  BY DEF Owns, Typed, ProcRecords
<1>3. Made'
  BY <1>1, <1>2 DEF Made, RotationInv, Quiet, TempDirPcs
<1>4. OwnFolder'
  BY <1>1 DEF OwnFolder, RotationInv
<1>5. Owners' = Owners
  BY <1>1 DEF Owners
<1>6. Room'
  <2>1. \A q \in Procs : proc'[q].pc \in TempDirPcs => Left(q)' = Left(q)
    BY <1>1 DEF Left, Quiet
  <2> QED
    BY <1>1, <1>5, <2>1 DEF Room, RotationInv, TempDirPcs
<1>7. Bounded'
  BY DEF Bounded, RotationInv, Quiet
<1>8. Linked'
  <2> SUFFICES ASSUME NEW q \in Procs, Owns(q)', proc'[q].pc # "unlink", latest' = NoFolder
               PROVE  \E l \in Procs : proc'[l].pc = "link"
    BY DEF Linked
  <2>1. Owns(q) /\ proc[q].pc # "unlink" /\ latest = NoFolder
    BY <1>1 DEF Quiet, TempDirPcs
  <2>2. PICK l \in Procs : proc[l].pc = "link"
    BY <2>1 DEF RotationInv, Linked
  <2> QED
    BY <1>1, <2>2 DEF TempDirPcs
<1> QED
  BY <1>3, <1>4, <1>6, <1>7, <1>8 DEF RotationInv

\* rotate leaves at most max_rotate - 1 of the folders it has listed.
LEMMA RotateLeaves ==
    ASSUME Typed, Typed', NEW p \in Procs, Rotate(p)
    PROVE  Cardinality(Left(p)') <= MaxRotate - 1
<1> DEFINE doomed == IF Len(order) < MaxRotate THEN <<>>
                     ELSE SubSeq(order, 1, Len(order) - MaxRotate + 1)
<1>1. proc'[p].doomed = doomed /\ order' = order
  BY DEF Rotate, Files, Typed, ProcRecords
<1>2. order \in Seq(Places) /\ MaxRotate \in Nat \ {0}
  BY FilesAssumption DEF Typed, FilesTyped
<1> DEFINE k == IF Len(order) < MaxRotate THEN 0 ELSE Len(order) - MaxRotate + 1
<1>3. k \in 0..Len(order) /\ Len(order) - k <= MaxRotate - 1
  BY <1>2
<1>4. Len(doomed) = k /\ \A i \in 1..k : doomed[i] = order[i]
  BY <1>2
<1> HIDE DEF doomed, k
<1>5. ASSUME NEW n \in Left(p)'
      PROVE  \E i \in (k + 1)..Len(order) : order[i] = n
  <2>1. n \in Range(order) /\ \A i \in 1..Len(doomed) : doomed[i] # n
    BY <1>1, <1>5 DEF Left
  <2>2. PICK i \in 1..Len(order) : order[i] = n
    BY <1>2, <2>1 DEF Range
  <2>3. i \notin 1..k
    BY <1>4, <2>1, <2>2
  <2> QED
    BY <1>3, <2>2, <2>3
<1>6. Cardinality(Left(p)') <= Len(order) - k
  BY <1>2, <1>3, <1>5, RestCounts
<1>7. Cardinality(Left(p)') \in Nat /\ Len(order) \in Nat
  <2>1. Left(p)' \in SUBSET Range(order)
    BY <1>1 DEF Left
  <2>2. IsFiniteSet(Left(p)')
    BY <2>1, CountedSets, FS_Subset
  <2> QED
    BY <1>2, <2>2, FS_CardinalityType
<1> QED
  BY <1>2, <1>3, <1>6, <1>7

\* A step of TempDir::new that makes or removes no folder and leaves `latest`
\* alone: p lists, goes on to draw a name, draws one, or fails to create.
LEMMA RotationMoves ==
    ASSUME Typed, Typed', RotationInv, NEW p \in Procs, UNCHANGED Files,
           \A q \in Procs : q # p => proc'[q] = proc[q],
           ~Owns(p), ~Owns(p)',
           proc[p].pc # "link", proc'[p].pc \notin {"unlink", "link"},
           proc'[p].pc \in {"idle", "resolve", "list", "remove", "fresh"} => proc'[p].folder = NoFolder,
           proc'[p].pc \in {"fresh", "create"} => proc'[p].doomed = <<>>,
           proc'[p].pc \in {"remove", "fresh", "create"} =>
               Cardinality(Left(p)') <= MaxRotate - 1 + Cardinality(Owners)
    PROVE  RotationInv'
<1>1. \A q \in Procs : (Owns(q)' <=> Owns(q)) /\ (Owns(q) => q # p)
  BY DEF Owns
<1>2. Owners' = Owners
  BY <1>1 DEF Owners
<1>3. folders' = folders /\ order' = order /\ latest' = latest
  BY DEF Files
<1>4. Made'
  BY <1>1, <1>3 DEF Made, RotationInv
<1>5. OwnFolder'
  BY <1>1 DEF OwnFolder, RotationInv
<1>6. Room'
  <2>1. \A q \in Procs : q # p => Left(q)' = Left(q)
    BY <1>3 DEF Left
  <2> QED
    BY <1>2, <2>1 DEF Room, RotationInv
<1>7. Bounded'
  BY <1>3 DEF Bounded, RotationInv
<1>8. Linked'
  BY <1>1, <1>3 DEF Linked, RotationInv
<1> QED
  BY <1>4, <1>5, <1>6, <1>7, <1>8 DEF RotationInv

\* Removing a folder makes room for everyone.
LEMMA RotationRemoves ==
    ASSUME Typed, Typed', RotationInv, NEW p \in Procs, RemoveOld(p), proc[p].doomed # <<>>
    PROVE  RotationInv'
<1> DEFINE doomed == proc[p].doomed
           n == Head(doomed)
<1>1. doomed \in Seq(Places) /\ doomed # <<>>
  BY DEF Typed, ProcRecords
<1>2. n \in Places /\ Tail(doomed) \in Seq(Places)
  BY <1>1
<1>3. /\ order' = RemoveFirst(order, n) /\ folders' = [folders EXCEPT ![n] = Folder("removed", {})]
      /\ latest' = latest /\ proc[p].pc = "remove"
  BY DEF RemoveOld
<1>4. /\ \A q \in Procs : q # p => proc'[q] = proc[q]
      /\ proc'[p].pc = "remove" /\ proc'[p].folder = proc[p].folder /\ proc'[p].doomed = Tail(doomed)
  BY <1>3 DEF RemoveOld, Typed, ProcRecords
<1>5. \A i \in 1..Len(doomed) : doomed[i] = n \/ \E j \in 1..Len(Tail(doomed)) : Tail(doomed)[j] = doomed[i]
  BY <1>1, TailReaches
<1> HIDE DEF doomed, n
<1>6. Range(order') \subseteq Range(order) \ {n} /\ Len(order') <= Len(order)
  <2>1. order \in Seq(Places) /\ IsInjective(order) /\ order' \in Seq(Places)
    BY DEF Typed, FilesTyped
  <2>2. /\ \A i \in 1..Len(order') : order'[i] # n /\ \E j \in 1..Len(order) : order'[i] = order[j]
        /\ Len(order') \in {Len(order), Len(order) - 1}
    BY <1>3, <2>1, RemoveFirstKeeps
  <2>3. Range(order) = {order[j] : j \in 1..Len(order)} /\ Range(order') = {order'[i] : i \in 1..Len(order')}
    BY <2>1 DEF Range
  <2>4. Range(order') \subseteq Range(order) \ {n}
    BY <2>2, <2>3
  <2>5. Len(order) \in Nat
    BY <2>1
  <2> QED
    BY <2>2, <2>4, <2>5
<1>7. \A q \in Procs : /\ proc'[q].pc = proc[q].pc /\ proc'[q].folder = proc[q].folder
                       /\ (Owns(q)' <=> Owns(q))
  BY <1>3, <1>4 DEF Owns
<1>8. Owners' = Owners
  BY <1>7 DEF Owners
<1>9. Made'
  <2>1. \A m \in Places : folders'[m].state # "unused" \/ folders'[m].state = folders[m].state
    BY <1>2, <1>3 DEF Typed, FilesTyped, Folder
  <2>2. \A q \in Procs : Owns(q) => proc[q].folder \in Places
    BY DEF Owns, Typed, ProcRecords
  <2> QED
    BY <1>7, <2>1, <2>2 DEF Made, RotationInv
<1>10. OwnFolder'
  BY <1>7 DEF OwnFolder, RotationInv
<1>11. Room'
  <2>1. ASSUME NEW q \in Procs
        PROVE  Left(q)' \in SUBSET Left(q)
    <3>1. CASE q # p
      BY <1>4, <1>6, <3>1 DEF Left
    <3>2. CASE q = p
      <4>1. SUFFICES ASSUME NEW m \in Left(p)'
                     PROVE  m \in Left(p)
        BY <3>2
      <4>2. m \in Range(order) /\ m # n /\ \A j \in 1..Len(Tail(doomed)) : Tail(doomed)[j] # m
        BY <1>4, <1>6 DEF Left
      <4>3. \A i \in 1..Len(doomed) : doomed[i] # m
        BY <1>5, <4>2
      <4> QED
        BY <4>2, <4>3 DEF Left, doomed
    <3> QED
      BY <3>1, <3>2
  <2>2. \A q \in Procs : Cardinality(Left(q)') <= Cardinality(Left(q)) /\ Cardinality(Left(q)') \in Nat
    BY <2>1, CountedSets, FS_Subset, FS_CardinalityType
  <2>3. \A q \in Procs : proc'[q].pc \in {"fresh", "create"} => proc'[q].doomed = <<>>
    BY <1>3, <1>4 DEF Room, RotationInv
  <2>4. ASSUME NEW q \in Procs, proc'[q].pc \in {"remove", "fresh", "create"}
        PROVE  Cardinality(Left(q)') <= MaxRotate - 1 + Cardinality(Owners)
    <3>1. Cardinality(Left(q)) <= MaxRotate - 1 + Cardinality(Owners)
      BY <1>7, <2>4 DEF Room, RotationInv
    <3>2. Cardinality(Left(q)) \in Nat /\ Cardinality(Owners) \in Nat /\ MaxRotate \in Nat
      BY CountedSets, FilesAssumption
    <3> QED
      BY <2>2, <3>1, <3>2
  <2> QED
    BY <1>8, <2>3, <2>4 DEF Room
<1>12. Bounded'
  <2>1. Len(order) \in Nat /\ Len(order') \in Nat /\ Cardinality(Procs) \in Nat /\ MaxRotate \in Nat
    BY CountedSets, FilesAssumption DEF Typed, FilesTyped
  <2> QED
    BY <1>6, <2>1 DEF Bounded, RotationInv
<1>13. Linked'
  BY <1>3, <1>7 DEF Linked, RotationInv
<1> QED
  BY <1>9, <1>10, <1>11, <1>12, <1>13 DEF RotationInv

\* A folder is made while there is room for it: of the folders p has listed
\* max_rotate - 1 are left, and every other one has its own maker.
LEMMA RotationCreates ==
    ASSUME Typed, Typed', RotationInv, NEW p \in Procs, CreateFolder(p),
           folders[proc[p].folder].state = "unused"
    PROVE  RotationInv'
<1> DEFINE n == proc[p].folder
           f == [folders[n] EXCEPT !.state = "there"]
<1>1. proc[p].pc = "create" /\ n \in Places /\ n # NoFolder
  BY FilesAssumption DEF CreateFolder, Typed, Ready
<1>2. order' = Append(order, n) /\ folders' = [folders EXCEPT ![n] = f] /\ latest' = latest
  BY DEF CreateFolder
<1>3. /\ \A q \in Procs : q # p => proc'[q] = proc[q]
      /\ proc'[p].pc = "unlink" /\ proc'[p].folder = n
  BY DEF CreateFolder, Goes, Typed, ProcRecords
<1>4. f.state = "there"
  BY <1>1 DEF Typed, FilesTyped, FolderRecords
<1>5. folders[n].state = "unused"
  OBVIOUS
<1> HIDE DEF n, f
<1>6. \A m \in Places : folders'[m].state # "unused" \/ folders'[m].state = folders[m].state
  BY <1>1, <1>2, <1>4 DEF Typed, FilesTyped
<1>7. \A q \in Procs : Owns(q)' <=> (Owns(q) \/ q = p)
  BY <1>1, <1>3 DEF Owns
<1>8. ~Owns(p)
  BY <1>1 DEF Owns
<1>9. Owners' = Owners \cup {p} /\ p \notin Owners
  BY <1>7, <1>8 DEF Owners
<1>10. Cardinality(Owners') = Cardinality(Owners) + 1
  BY <1>9, CountedSets, FS_AddElement
<1>11. order \in Seq(Places) /\ Range(order') = Range(order) \cup {n} /\ Len(order') = Len(order) + 1
  <2>1. order \in Seq(Places)
    BY DEF Typed, FilesTyped
  <2>2. /\ Append(order, n) \in Seq(Places) /\ Len(Append(order, n)) = Len(order) + 1
        /\ \A i \in 1..Len(order) : Append(order, n)[i] = order[i]
        /\ Append(order, n)[Len(order) + 1] = n
    BY <1>1, <2>1
  <2> DEFINE a == Append(order, n)
  <2> HIDE DEF a
  <2>3. Range(a) = Range(order) \cup {n}
    BY <2>1, <2>2 DEF Range, a
  <2> QED
    BY <1>2, <2>1, <2>2, <2>3 DEF a
<1>12. Made'
  <2>1. \A q \in Procs : Owns(q) => proc[q].folder \in Places
    BY DEF Owns, Typed, ProcRecords
  <2>2. ASSUME NEW q \in Procs, Owns(q)'
        PROVE  folders'[proc'[q].folder].state # "unused"
    <3>1. CASE q = p
      BY <1>1, <1>2, <1>3, <1>4, <3>1 DEF Typed, FilesTyped
    <3>2. CASE q # p
      BY <1>3, <1>6, <1>7, <2>1, <2>2, <3>2 DEF Made, RotationInv
    <3> QED
      BY <3>1, <3>2
  <2>3. ASSUME NEW q \in Procs, proc'[q].pc \in {"idle", "resolve", "list", "remove", "fresh"}
        PROVE  proc'[q].folder = NoFolder
    BY <1>3, <2>3 DEF Made, RotationInv
  <2> QED
    BY <2>2, <2>3 DEF Made
<1>13. OwnFolder'
  <2>1. \A q \in Procs : Owns(q) => proc[q].folder # n
    BY <1>5 DEF Made, RotationInv
  <2> QED
    BY <1>3, <1>7, <2>1 DEF OwnFolder, RotationInv
<1>14. Room'
  <2>1. \A q \in Procs : q # p => Left(q)' \in SUBSET (Left(q) \cup {n})
    BY <1>3, <1>11 DEF Left
  <2>2. ASSUME NEW q \in Procs, q # p
        PROVE  Cardinality(Left(q)') <= Cardinality(Left(q)) + 1 /\ Cardinality(Left(q)') \in Nat
    <3>1. IsFiniteSet(Left(q)) /\ Cardinality(Left(q)) \in Nat
      BY CountedSets
    <3>2. /\ IsFiniteSet(Left(q) \cup {n})
          /\ Cardinality(Left(q) \cup {n}) \in {Cardinality(Left(q)), Cardinality(Left(q)) + 1}
      BY <3>1, FS_AddElement
    <3>3. IsFiniteSet(Left(q)') /\ Cardinality(Left(q)') <= Cardinality(Left(q) \cup {n})
      BY <2>1, <2>2, <3>2, FS_Subset
    <3>4. Cardinality(Left(q)') \in Nat
      BY <3>3, FS_CardinalityType
    <3> QED
      BY <3>1, <3>2, <3>3, <3>4
  <2>3. ASSUME NEW q \in Procs, proc'[q].pc \in {"remove", "fresh", "create"}
        PROVE  Cardinality(Left(q)') <= MaxRotate - 1 + Cardinality(Owners')
    <3>1. q # p /\ proc'[q] = proc[q]
      BY <1>3, <2>3
    <3>2. Cardinality(Left(q)) <= MaxRotate - 1 + Cardinality(Owners)
      BY <2>3, <3>1 DEF Room, RotationInv
    <3>3. Cardinality(Left(q)) \in Nat /\ Cardinality(Owners) \in Nat /\ MaxRotate \in Nat
      BY CountedSets, FilesAssumption
    <3> QED
      BY <1>10, <2>2, <3>1, <3>2, <3>3
  <2>4. \A q \in Procs : proc'[q].pc \in {"fresh", "create"} => proc'[q].doomed = <<>>
    BY <1>3 DEF Room, RotationInv
  <2> QED
    BY <2>3, <2>4 DEF Room
<1>15. Bounded'
  <2>1. Left(p) = Range(order)
    <3>1. proc[p].doomed = <<>>
      BY <1>1 DEF Room, RotationInv
    <3> QED
      BY <3>1 DEF Left
  <2>2. Len(order) <= MaxRotate - 1 + Cardinality(Owners)
    BY <1>1, <2>1, CountedSets DEF Room, RotationInv
  <2>3. Owners' \in SUBSET Procs
    BY DEF Owners
  <2>4. Cardinality(Owners') <= Cardinality(Procs)
    BY <2>3, FilesAssumption, FS_Subset
  <2>5. Cardinality(Owners) \in Nat /\ Cardinality(Procs) \in Nat /\ MaxRotate \in Nat /\ Len(order) \in Nat
    BY <1>11, CountedSets, FilesAssumption
  <2> QED
    BY <1>10, <1>11, <2>2, <2>4, <2>5 DEF Bounded
<1>16. Linked'
  <2> SUFFICES ASSUME NEW q \in Procs, Owns(q)', proc'[q].pc # "unlink", latest' = NoFolder
               PROVE  \E l \in Procs : proc'[l].pc = "link"
    BY DEF Linked
  <2>1. q # p /\ Owns(q) /\ proc[q].pc # "unlink" /\ latest = NoFolder
    BY <1>2, <1>3, <1>7
  <2>2. PICK l \in Procs : proc[l].pc = "link"
    BY <2>1 DEF RotationInv, Linked
  <2> QED
    BY <1>1, <1>3, <2>2
<1> QED
  BY <1>12, <1>13, <1>14, <1>15, <1>16 DEF RotationInv

\* Replacing the link concerns `latest` only.
LEMMA RotationLinks ==
    ASSUME Typed, Typed', RotationInv, NEW p \in Procs, Unlink(p) \/ Link(p)
    PROVE  RotationInv'
<1>1. folders' = folders /\ order' = order
  BY DEF Unlink, Link
<1>2. /\ \A q \in Procs : q # p => proc'[q] = proc[q]
      /\ proc'[p].folder = proc[p].folder /\ proc[p].pc \in {"unlink", "link"}
      /\ proc'[p].pc \in {"link", "exit", "read"}
  BY DEF Unlink, Link, Goes, Typed, ProcRecords
<1>3. \A q \in Procs : (Owns(q)' <=> Owns(q)) /\ proc'[q].folder = proc[q].folder
  BY <1>2 DEF Owns
<1>4. Owners' = Owners
  BY <1>3 DEF Owners
<1>5. Made'
  BY <1>1, <1>2, <1>3 DEF Made, RotationInv
<1>6. OwnFolder'
  BY <1>3 DEF OwnFolder, RotationInv
<1>7. Room'
  <2>1. \A q \in Procs : q # p => Left(q)' = Left(q)
    BY <1>1, <1>2 DEF Left
  <2> QED
    BY <1>2, <1>4, <2>1 DEF Room, RotationInv
<1>8. Bounded'
  BY <1>1 DEF Bounded, RotationInv
<1>9. Linked'
  <2>1. CASE Unlink(p)
    <3>1. proc'[p].pc = "link"
      BY <2>1 DEF Unlink, Goes, Typed, ProcRecords
    <3> QED
      BY <3>1 DEF Linked
  <2>2. CASE Link(p)
    <3>1. latest' # NoFolder
      BY <2>2, FilesAssumption DEF Link, Typed, Ready
    <3> QED
      BY <3>1 DEF Linked
  <2> QED
    BY <2>1, <2>2
<1> QED
  BY <1>5, <1>6, <1>7, <1>8, <1>9 DEF RotationInv

\* Every step keeps the rotation in order.
LEMMA RotationStep ==
    ASSUME Typed, Typed', RotationInv, [Next]_vars
    PROVE  RotationInv'
<1>1. CASE UNCHANGED vars
  BY <1>1 DEF vars, RotationInv, Made, OwnFolder, Room, Bounded, Linked, Owns, Owners, Left
<1>2. ASSUME NEW p \in Procs, Start(p) \/ resolve_restore(p) \/ SessionStep(p)
      PROVE  RotationInv'
  BY <1>2, QuietSteps, RotationQuiet
<1>3. ASSUME NEW p \in Procs, Rotate(p)
      PROVE  RotationInv'
  <2>1. /\ \A q \in Procs : q # p => proc'[q] = proc[q]
        /\ proc[p].pc = "list" /\ proc'[p].pc = "remove" /\ proc'[p].folder = proc[p].folder
    BY <1>3 DEF Rotate, Typed, ProcRecords
  <2>2. proc[p].folder = NoFolder
    BY <2>1 DEF RotationInv, Made
  <2>3. Cardinality(Left(p)') <= MaxRotate - 1 + Cardinality(Owners)
    <3>1. Cardinality(Left(p)') <= MaxRotate - 1
      BY <1>3, RotateLeaves
    <3>2. Cardinality(Owners) \in Nat /\ MaxRotate \in Nat
      BY CountedSets, FilesAssumption
    <3>3. Cardinality(Left(p)') \in Nat
      <4>1. Left(p)' \in SUBSET Range(order)
        BY <1>3 DEF Left, Rotate, Files
      <4>2. IsFiniteSet(Left(p)')
        BY <4>1, CountedSets, FS_Subset
      <4> QED
        BY <4>2, FS_CardinalityType
    <3> QED
      BY <3>1, <3>2, <3>3
  <2>4. UNCHANGED Files /\ ~Owns(p) /\ ~Owns(p)'
    BY <1>3, <2>1, <2>2 DEF Rotate, Owns
  <2> QED
    BY <2>1, <2>2, <2>3, <2>4, RotationMoves
<1>4. ASSUME NEW p \in Procs, RemoveOld(p)
      PROVE  RotationInv'
  <2>1. CASE proc[p].doomed = <<>>
    <3>1. Goes(p, "fresh") /\ UNCHANGED Files /\ proc[p].pc = "remove"
      BY <1>4, <2>1 DEF RemoveOld, Files
    <3>2. /\ \A q \in Procs : q # p => proc'[q] = proc[q]
          /\ proc'[p].pc = "fresh" /\ proc'[p].folder = proc[p].folder /\ proc'[p].doomed = proc[p].doomed
      BY <3>1 DEF Goes, Typed, ProcRecords
    <3>3. proc[p].folder = NoFolder
      BY <3>1 DEF RotationInv, Made
    <3>4. Left(p)' = Left(p)
      BY <3>1, <3>2 DEF Left, Files
    <3>5. Cardinality(Left(p)') <= MaxRotate - 1 + Cardinality(Owners)
      BY <3>1, <3>4 DEF RotationInv, Room
    <3>6. ~Owns(p) /\ ~Owns(p)'
      BY <3>2, <3>3 DEF Owns
    <3> QED
      BY <2>1, <3>1, <3>2, <3>3, <3>5, <3>6, RotationMoves
  <2>2. CASE proc[p].doomed # <<>>
    BY <1>4, <2>2, RotationRemoves
  <2> QED
    BY <2>1, <2>2
<1>5. ASSUME NEW p \in Procs, FreshFolder(p)
      PROVE  RotationInv'
  <2>1. /\ \A q \in Procs : q # p => proc'[q] = proc[q]
        /\ proc[p].pc = "fresh" /\ proc'[p].pc = "create" /\ proc'[p].doomed = proc[p].doomed
    BY <1>5 DEF FreshFolder, Typed, ProcRecords
  <2>2. proc[p].folder = NoFolder /\ proc[p].doomed = <<>>
    BY <2>1 DEF RotationInv, Made, Room
  <2>3. UNCHANGED Files
    BY <1>5 DEF FreshFolder
  <2>4. Left(p)' = Left(p)
    BY <2>1, <2>3 DEF Left, Files
  <2>5. Cardinality(Left(p)') <= MaxRotate - 1 + Cardinality(Owners)
    BY <2>1, <2>4 DEF RotationInv, Room
  <2>6. ~Owns(p) /\ ~Owns(p)'
    BY <2>1, <2>2 DEF Owns
  <2> QED
    BY <2>1, <2>2, <2>3, <2>5, <2>6, RotationMoves
<1>6. ASSUME NEW p \in Procs, CreateFolder(p)
      PROVE  RotationInv'
  <2>1. CASE folders[proc[p].folder].state # "unused"
    <3>1. /\ \A q \in Procs : q # p => proc'[q] = proc[q]
          /\ proc[p].pc = "create" /\ proc'[p].pc = "exit" /\ proc'[p].folder = NoFolder
      BY <1>6, <2>1 DEF CreateFolder, Typed, ProcRecords
    <3>2. UNCHANGED Files
      BY <1>6, <2>1 DEF CreateFolder, Files
    <3>3. ~Owns(p) /\ ~Owns(p)'
      BY <3>1 DEF Owns
    <3> QED
      BY <3>1, <3>2, <3>3, RotationMoves
  <2>2. CASE folders[proc[p].folder].state = "unused"
    BY <1>6, <2>2, RotationCreates
  <2> QED
    BY <2>1, <2>2
<1>7. ASSUME NEW p \in Procs, Unlink(p) \/ Link(p)
      PROVE  RotationInv'
  BY <1>7, RotationLinks
<1> QED
  BY <1>1, <1>2, <1>3, <1>4, <1>5, <1>6, <1>7 DEF Next, TempDirStep

\* The rotation is in order in every reachable state.
LEMMA RotationHolds == Spec => []RotationInv
<1>1. Init => RotationInv
  BY RotationInit
<1>2. Typed /\ Typed' /\ RotationInv /\ [Next]_vars => RotationInv'
  BY RotationStep
<1> QED
  BY <1>1, <1>2, FilesTypeCorrect, PTL DEF Spec

\* Concurrent TempDir::new() calls leave the base folder in order, for any
\* number of processes and any max_rotate: every process works in a folder of
\* its own, at most one folder more than max_rotate is kept for each process
\* beside the first, and `latest` is missing only while it is replaced.
THEOREM RotationKeepsOrder == Spec => []FoldersRotated
<1>1. RotationInv => FoldersRotated
  BY DEF RotationInv, FoldersRotated, OwnFolder, Bounded, Linked
<1> QED
  BY <1>1, RotationHolds, PTL

-----------------------------------------------------------------------------
(* The suites are whole. *)

Exporting == {"append", "check", "open", "write"}

\* Only the discovery and the run decide what is run: every later step keeps
\* the rows, what was found and the folder of its process.
LEMMA RowsKept ==
    ASSUME Typed, NEW p \in Procs,
           Start(p) \/ resolve_restore(p) \/ TempDirStep(p) \/ ReadRestored(p) \/ AppendExecuted(p)
               \/ ExportCheck(p) \/ ExportOpen(p) \/ ExportWrite(p) \/ Interrupt(p)
    PROVE  /\ \A q \in Procs : q # p => proc'[q] = proc[q]
           /\ proc'[p].pc \notin {"run", "append"}
           /\ proc'[p].pc \in Exporting =>
                  /\ proc[p].pc \in Exporting /\ proc'[p].rows = proc[p].rows
                  /\ \A key \in {"folder", "skip", "todo", "cut"} : proc'[p][key] = proc[p][key]
<1>rec. proc \in [Procs -> ProcRecords] /\ proc[p] \in ProcRecords
  BY DEF Typed
<1>goes. ASSUME NEW pc, Goes(p, pc)
         PROVE  /\ \A q \in Procs : q # p => proc'[q] = proc[q]
                /\ proc'[p].pc = pc /\ proc'[p].rows = proc[p].rows
                /\ \A key \in {"folder", "skip", "todo", "cut"} : proc'[p][key] = proc[p][key]
  BY <1>goes, <1>rec DEF Goes, ProcRecords
<1>1. CASE Start(p)
  <2>1. PICK args \in ArgSets, pc \in {"resolve", "exit"} :
          proc' = [proc EXCEPT ![p] = [proc[p] EXCEPT !.args = args, !.pc = pc]]
    BY <1>1 DEF Start
  <2>2. proc'[p] = [proc[p] EXCEPT !.args = args, !.pc = pc]
    BY <1>rec, <2>1
  <2>3. proc'[p].pc = pc
    BY <1>rec, <2>2 DEF ProcRecords
  <2> QED
    BY <1>rec, <2>1, <2>3 DEF Exporting
<1>2. CASE resolve_restore(p)
  <2>1. CASE Goes(p, "exit")
    BY <1>goes, <2>1 DEF Exporting
  <2>2. CASE ~Goes(p, "exit")
    <3> DEFINE asked == proc[p].args.restore
               found == IF asked = "latest" THEN latest ELSE asked
               pc == IF proc[p].args.tmpDir = "" THEN "read" ELSE "list"
    <3>1. proc' = [proc EXCEPT ![p] = [proc[p] EXCEPT !.restore = found, !.pc = pc]] /\ pc \in {"read", "list"}
      BY <1>2, <2>2 DEF resolve_restore
    <3> HIDE DEF found, pc
    <3>2. proc'[p] = [proc[p] EXCEPT !.restore = found, !.pc = pc]
      BY <1>rec, <3>1
    <3>3. proc'[p].pc = pc
      BY <1>rec, <3>2 DEF ProcRecords
    <3> QED
      BY <1>rec, <3>1, <3>3 DEF Exporting
  <2> QED
    BY <2>1, <2>2
<1>3. CASE TempDirStep(p)
  <2>1. CASE Rotate(p)
    <3> DEFINE doomed == IF Len(order) < MaxRotate THEN <<>> ELSE SubSeq(order, 1, Len(order) - MaxRotate + 1)
    <3>1. proc' = [proc EXCEPT ![p] = [proc[p] EXCEPT !.pc = "remove", !.doomed = doomed]]
      BY <1>rec, <2>1 DEF Rotate
    <3> HIDE DEF doomed
    <3>2. proc'[p] = [proc[p] EXCEPT !.pc = "remove", !.doomed = doomed]
      BY <1>rec, <3>1
    <3>3. proc'[p].pc = "remove"
      BY <1>rec, <3>2 DEF ProcRecords
    <3> QED
      BY <1>rec, <3>1, <3>3 DEF Exporting
  <2>2. CASE RemoveOld(p)
    <3>1. CASE Goes(p, "fresh")
      BY <1>goes, <3>1 DEF Exporting
    <3>2. CASE proc' = [proc EXCEPT ![p].doomed = Tail(proc[p].doomed)]
      <4> DEFINE rest == Tail(proc[p].doomed)
      <4>1. proc' = [proc EXCEPT ![p] = [proc[p] EXCEPT !.doomed = rest]]
        BY <1>rec, <3>2
      <4> HIDE DEF rest
      <4>2. proc'[p].pc = proc[p].pc /\ proc[p].pc = "remove"
        BY <1>rec, <2>2, <4>1 DEF RemoveOld, ProcRecords
      <4> QED
        BY <1>rec, <4>1, <4>2 DEF Exporting
    <3> QED
      BY <2>2, <3>1, <3>2 DEF RemoveOld
  <2>3. CASE FreshFolder(p)
    BY <1>rec, <2>3 DEF FreshFolder, ProcRecords, Exporting
  <2>4. CASE CreateFolder(p)
    BY <1>rec, <2>4 DEF CreateFolder, Goes, ProcRecords, Exporting
  <2>5. CASE Unlink(p) \/ Link(p)
    BY <1>goes, <2>5 DEF Unlink, Link, Exporting
  <2> QED
    BY <1>3, <2>1, <2>2, <2>3, <2>4, <2>5 DEF TempDirStep
<1>4. CASE ReadRestored(p)
  BY <1>rec, <1>4 DEF ReadRestored, ProcRecords, Exporting
<1>5. CASE AppendExecuted(p)
  <2> DEFINE targets == Targets(p)
             pc == IF targets = <<>> THEN "exit" ELSE "check"
  <2>1. proc' = [proc EXCEPT ![p] = [proc[p] EXCEPT !.targets = targets, !.pc = pc]] /\ pc \in {"exit", "check"}
    <3>1. proc' = [proc EXCEPT ![p] = [proc[p] EXCEPT !.targets = targets, !.pc = pc]]
      BY <1>5 DEF AppendExecuted
    <3> HIDE DEF targets
    <3>2. pc \in {"exit", "check"}
      BY Zenon
    <3> QED
      BY <3>1, <3>2
  <2> HIDE DEF targets, pc
  <2>2. proc'[p] = [proc[p] EXCEPT !.targets = targets, !.pc = pc]
    BY <1>rec, <2>1
  <2>3. /\ proc'[p].pc = pc /\ proc'[p].rows = proc[p].rows
        /\ \A key \in {"folder", "skip", "todo", "cut"} : proc'[p][key] = proc[p][key]
    BY <1>rec, <2>2 DEF ProcRecords
  <2> QED
    BY <1>5, <1>rec, <2>1, <2>3 DEF AppendExecuted, Exporting
<1>6. CASE ExportCheck(p)
  BY <1>goes, <1>6 DEF ExportCheck, Exporting
<1>7. CASE ExportOpen(p)
  BY <1>goes, <1>7 DEF ExportOpen, Exit, Exporting
<1>8. CASE ExportWrite(p)
  <2> DEFINE rest == Tail(proc[p].targets)
             pc == IF rest = <<>> THEN "exit" ELSE "check"
  <2>1. proc' = [proc EXCEPT ![p] = [proc[p] EXCEPT !.targets = rest, !.pc = pc]] /\ pc \in {"exit", "check"}
    BY <1>8 DEF ExportWrite
  <2> HIDE DEF rest, pc
  <2>2. proc'[p] = [proc[p] EXCEPT !.targets = rest, !.pc = pc]
    BY <1>rec, <2>1
  <2>3. /\ proc'[p].pc = pc /\ proc'[p].rows = proc[p].rows
        /\ \A key \in {"folder", "skip", "todo", "cut"} : proc'[p][key] = proc[p][key]
    BY <1>rec, <2>2 DEF ProcRecords
  <2> QED
    BY <1>8, <1>rec, <2>1, <2>3 DEF ExportWrite, Exporting
<1>9. CASE Interrupt(p)
  BY <1>goes, <1>9 DEF Interrupt, Exit, Exporting
<1> QED
  BY <1>1, <1>2, <1>3, <1>4, <1>5, <1>6, <1>7, <1>8, <1>9

\* What the discovery has found: of the suite's tests only, and all that are
\* wanted if it was given the whole runtest file.
Found(r) ==
    LET found == r.todo \cup r.skip IN found \subseteq Declared /\ (~r.cut => Whole(found))
SuiteInv ==
    \A p \in Procs : /\ proc[p].pc \in {"run"} \cup Exporting => Found(proc[p])
                     /\ proc[p].pc \in Exporting => DOMAIN proc[p].rows \subseteq proc[p].todo

\* The discovery finds the suite or ends the session.
LEMMA DiscoverWhole ==
    ASSUME Typed, NEW p \in Procs, Discover(p)
    PROVE  /\ \A q \in Procs : q # p => proc'[q] = proc[q]
           /\ proc'[p].pc \in {"run", "exit"}
           /\ proc'[p].pc = "run" => Found(proc'[p]) /\ proc'[p].folder = proc[p].folder
<1>rec. proc \in [Procs -> ProcRecords] /\ proc[p] \in ProcRecords
  BY DEF Typed
<1>1. CASE Goes(p, "exit")
  BY <1>rec, <1>1 DEF Goes, ProcRecords
<1>2. CASE ~Goes(p, "exit")
  <2>1. PICK fault \in Faults, names \in SUBSET Declared :
          /\ fetched(fault) = Runtest => Whole(names)
          /\ proc' = [proc EXCEPT ![p] = [proc[p] EXCEPT !.pc = "run", !.todo = names \ proc[p].skip,
                                                         !.cut = fetched(fault) # Runtest]]
    BY <1>2, DiscoverFinds
  <2> DEFINE todo == names \ proc[p].skip
             cut == fetched(fault) # Runtest
  <2>2. ~cut => Whole(names)
    BY <2>1
  <2> HIDE DEF cut
  <2>3. proc'[p] = [proc[p] EXCEPT !.pc = "run", !.todo = todo, !.cut = cut]
    BY <1>rec, <2>1 DEF cut
  <2>4. /\ proc'[p].pc = "run" /\ proc'[p].todo = todo /\ proc'[p].cut = cut
        /\ proc'[p].skip = proc[p].skip /\ proc'[p].folder = proc[p].folder
    BY <1>rec, <2>3 DEF ProcRecords
  <2>5. proc[p].skip \subseteq Declared
    BY <1>rec DEF ProcRecords
  <2>6. todo \cup proc[p].skip \subseteq Declared /\ (~cut => Whole(todo \cup proc[p].skip))
    BY <2>2, <2>5 DEF Whole
  <2> QED
    BY <1>rec, <2>1, <2>4, <2>6 DEF Found
<1> QED
  BY <1>1, <1>2

\* Every step keeps what was found, and runs nothing else.
LEMMA SuiteStep ==
    ASSUME Typed, SuiteInv, [Next]_vars
    PROVE  SuiteInv'
<1>1. CASE UNCHANGED vars
  BY <1>1 DEF vars, SuiteInv, Found
<1>2. ASSUME NEW p \in Procs,
             Start(p) \/ resolve_restore(p) \/ TempDirStep(p) \/ ReadRestored(p) \/ AppendExecuted(p)
                 \/ ExportCheck(p) \/ ExportOpen(p) \/ ExportWrite(p) \/ Interrupt(p)
      PROVE  SuiteInv'
  <2>1. proc'[p].pc # "run"
    BY <1>2, RowsKept
  <2>2. proc'[p].pc \in Exporting => /\ proc[p].pc \in Exporting /\ proc'[p].rows = proc[p].rows
                                     /\ proc'[p].skip = proc[p].skip
                                     /\ proc'[p].todo = proc[p].todo /\ proc'[p].cut = proc[p].cut
    BY <1>2, RowsKept
  <2>3. \A q \in Procs : q # p => proc'[q] = proc[q]
    BY <1>2, RowsKept
  <2> QED
    BY <2>1, <2>2, <2>3 DEF SuiteInv, Found
<1>3. ASSUME NEW p \in Procs, Discover(p)
      PROVE  SuiteInv'
  BY <1>3, DiscoverWhole DEF SuiteInv, Exporting
<1>4. ASSUME NEW p \in Procs, RunSuite(p)
      PROVE  SuiteInv'
  <2>1. /\ \A q \in Procs : q # p => proc'[q] = proc[q]
        /\ proc'[p].pc = "append" /\ DOMAIN proc'[p].rows \subseteq proc[p].todo
        /\ proc'[p].skip = proc[p].skip /\ proc'[p].todo = proc[p].todo /\ proc'[p].cut = proc[p].cut
    BY <1>4, RunSuiteMoves
  <2>2. Found(proc[p])
    BY <1>4 DEF RunSuite, SuiteInv
  <2> QED
    BY <2>1, <2>2 DEF SuiteInv, Found
<1> QED
  BY <1>1, <1>2, <1>3, <1>4 DEF Next, SessionStep

\* A session finds all the tests of its suite but the restored ones and those
\* max_runtime leaves out, whatever channel call fails while the suite is read,
\* or knows only of a part because fetch_file gave it one; and it runs and
\* reports nothing else: for every runtest file, metadata and max_runtime.
THEOREM SuitesAreWhole == Spec => []SuiteWhole
<1>1. Init => SuiteInv
  <2>1. Init => \A p \in Procs : proc[p].pc = "idle"
    BY DEF Init, Idle
  <2> QED
    BY <2>1 DEF SuiteInv, Exporting
<1>2. Typed /\ SuiteInv /\ [Next]_vars => SuiteInv'
  BY SuiteStep
<1>3. SuiteInv => SuiteWhole
  BY DEF SuiteInv, Found, SuiteWhole, Exporting
<1> QED
  BY <1>1, <1>2, <1>3, FilesTypeCorrect, PTL DEF Spec

-----------------------------------------------------------------------------
(* The reports count every test and name what was executed. *)

\* A step that changes no folder but its own, or removes some, keeps the reports
\* in agreement with the executed files if its own folder suits it.
LEMMA ReportKept ==
    ASSUME Typed, Typed', RotationInv', ReportInv, NEW p \in Procs,
           \A q \in Procs : q # p => proc'[q] = proc[q],
           \A m \in Places :
               \/ folders'[m] = folders[m]
               \/ folders'[m] = Folder("removed", {})
               \/ /\ Owns(p)' /\ m = proc'[p].folder
                  /\ folders'[m].state = "there" /\ Agrees(folders'[m]),
           Owns(p)' /\ There(proc[p].folder)' => Suits(proc'[p], folders'[proc'[p].folder])
    PROVE  ReportInv'
<1>1. Folder("removed", {}).state = "removed" /\ Agrees(Folder("removed", {}))
  BY DEF Folder, Agrees, NoFile
<1>2. Fresh'
  <2> SUFFICES ASSUME NEW m \in Places, folders'[m].state = "unused"
               PROVE  Bare(folders'[m])
    BY DEF Fresh, Bare
  <2>1. folders'[m] = folders[m]
    BY <1>1
  <2> QED
    BY <2>1 DEF ReportInv, Fresh
<1>3. Recorded'
  <2> SUFFICES ASSUME NEW m \in Places
               PROVE  Agrees(folders'[m])
    BY DEF Recorded, Agrees
  <2>1. Agrees(folders[m])
    BY DEF ReportInv, Recorded
  <2> QED
    BY <1>1, <2>1
<1>4. Appended'
  <2> SUFFICES ASSUME NEW q \in Procs, Owns(q)', There(proc[q].folder)'
               PROVE  Suits(proc'[q], folders'[proc'[q].folder])
    BY DEF Appended, Suits, Bare
  <2>1. CASE q = p
    BY <2>1
  <2>2. CASE q # p
    <3> DEFINE n == proc[q].folder
    <3>1. proc'[q] = proc[q] /\ Owns(q)
      BY <2>2 DEF Owns
    <3>2. n \in Places /\ folders'[n].state = "there"
      BY <3>1 DEF Owns, There, Typed, ProcRecords
    <3>3. ~(Owns(p)' /\ n = proc'[p].folder)
      BY <2>2, <3>1 DEF RotationInv, OwnFolder
    <3>4. folders'[n] = folders[n]
      BY <1>1, <3>2, <3>3
    <3>5. Suits(proc[q], folders[n])
      BY <3>1, <3>2, <3>4 DEF ReportInv, Appended, Owns, There
    <3> QED
      BY <3>1, <3>4, <3>5
  <2> QED
    BY <2>1, <2>2
<1> QED
  BY <1>2, <1>3, <1>4 DEF ReportInv

\* A step of a process that has made its folder suits it as its last did, if it
\* leaves the folder alone.
LEMMA SuitsStill ==
    ASSUME Typed, Typed', RotationInv', ReportInv, NEW p \in Procs,
           \A q \in Procs : q # p => proc'[q] = proc[q],
           \A m \in Places : folders'[m] \in {folders[m], Folder("removed", {})},
           proc'[p].folder = proc[p].folder,
           proc[p].pc # "create" \/ ~Owns(p)',
           proc'[p].pc \in BeforeAppend /\ proc[p].folder # NoFolder => proc[p].pc \in BeforeAppend,
           proc'[p].pc \in Reporting => proc[p].pc \in Reporting /\ proc'[p].rows = proc[p].rows
    PROVE  ReportInv'
<1>1. ASSUME Owns(p)', There(proc[p].folder)'
      PROVE  Suits(proc'[p], folders'[proc'[p].folder])
  <2> DEFINE n == proc[p].folder
  <2>1. proc'[p].folder = n /\ n \in Places /\ n # NoFolder /\ folders'[n].state = "there"
    BY <1>1 DEF Owns, There, Typed, ProcRecords
  <2>2. folders'[n] = folders[n]
    BY <2>1 DEF Folder
  <2>3. Suits(proc[p], folders[n])
    BY <1>1, <2>1, <2>2 DEF ReportInv, Appended, Owns, There
  <2> HIDE DEF n
  <2> QED
    BY <2>1, <2>2, <2>3 DEF Suits, n
<1> QED
  BY <1>1, ReportKept

\* Every step keeps them in agreement: what a process exports holds all it has
\* recorded before.
LEMMA ReportStep ==
    ASSUME Typed, Typed', RotationInv, RotationInv', ReportInv, [Next]_vars
    PROVE  ReportInv'
<1>1. CASE UNCHANGED vars
  BY <1>1 DEF vars, ReportInv, Fresh, Bare, Appended, Suits, Recorded, Agrees, Owns, There
<1>rec. /\ folders \in [Places -> FolderRecords] /\ folders' \in [Places -> FolderRecords]
        /\ proc \in [Procs -> ProcRecords]
  BY DEF Typed, FilesTyped
<1>goes. ASSUME NEW p \in Procs, NEW pc, Goes(p, pc)
         PROVE  /\ \A q \in Procs : q # p => proc'[q] = proc[q]
                /\ proc'[p].pc = pc /\ proc'[p].folder = proc[p].folder /\ proc'[p].rows = proc[p].rows
  BY <1>goes, <1>rec DEF Goes, ProcRecords
<1>2. ASSUME NEW p \in Procs, Start(p) \/ resolve_restore(p)
      PROVE  ReportInv'
  <2>1. Quiet(p)
    BY <1>2, QuietSteps
  <2>2. proc[p].folder = NoFolder /\ proc'[p].folder = NoFolder
    BY <1>2, <2>1 DEF Start, resolve_restore, RotationInv, Made, Quiet
  <2>3. ~Owns(p)' /\ UNCHANGED folders
    BY <1>2, <2>2 DEF Owns, Start, resolve_restore, Files
  <2> QED
    BY <2>1, <2>3, ReportKept DEF Quiet
<1>3. ASSUME NEW p \in Procs, Rotate(p) \/ RemoveOld(p) \/ FreshFolder(p)
      PROVE  ReportInv'
  <2>1. ~Owns(p)' /\ \A q \in Procs : q # p => proc'[q] = proc[q]
    <3>1. CASE Rotate(p) \/ RemoveOld(p)
      <4>1. proc[p].folder = NoFolder
        BY <3>1 DEF Rotate, RemoveOld, RotationInv, Made
      <4>2. proc'[p].folder = NoFolder
        BY <1>rec, <3>1, <4>1 DEF Rotate, RemoveOld, Goes, ProcRecords
      <4> QED
        BY <1>rec, <3>1, <4>2 DEF Rotate, RemoveOld, Goes, Owns
    <3>2. CASE FreshFolder(p)
      BY <1>rec, <3>2 DEF FreshFolder, ProcRecords, Owns
    <3> QED
      BY <1>3, <3>1, <3>2
  <2>2. \A m \in Places : folders'[m] = folders[m] \/ folders'[m] = Folder("removed", {})
    <3>1. CASE UNCHANGED folders
      BY <3>1
    <3>2. CASE folders' = [folders EXCEPT ![Head(proc[p].doomed)] = Folder("removed", {})]
      BY <1>rec, <3>2
    <3> QED
      BY <1>3, <3>1, <3>2 DEF Rotate, RemoveOld, FreshFolder, Files
  <2> QED
    BY <2>1, <2>2, ReportKept
<1>4. ASSUME NEW p \in Procs, CreateFolder(p)
      PROVE  ReportInv'
  <2> DEFINE n == proc[p].folder
  <2>1. n \in Places
    BY <1>4 DEF CreateFolder, Typed, Ready
  <2>2. CASE folders[n].state # "unused"
    <3>1. /\ UNCHANGED folders /\ proc'[p].folder = NoFolder
          /\ \A q \in Procs : q # p => proc'[q] = proc[q]
      BY <1>4, <1>rec, <2>2 DEF CreateFolder, ProcRecords
    <3>2. ~Owns(p)'
      BY <3>1 DEF Owns
    <3> QED
      BY <3>1, <3>2, ReportKept
  <2>3. CASE folders[n].state = "unused"
    <3>1. /\ folders' = [folders EXCEPT ![n] = [folders[n] EXCEPT !.state = "there"]]
          /\ Goes(p, "unlink")
      BY <1>4, <2>3 DEF CreateFolder
    <3>2. /\ \A m \in Places : m # n => folders'[m] = folders[m]
          /\ folders'[n].state = "there" /\ folders'[n].executed = folders[n].executed
          /\ folders'[n].results = folders[n].results
      <4>1. folders[n] \in FolderRecords
        BY <1>rec, <2>1
      <4> HIDE DEF n
      <4> QED
        BY <1>rec, <2>1, <3>1, <4>1 DEF FolderRecords
    <3>3. Bare(folders'[n])
      BY <2>1, <2>3, <3>2 DEF ReportInv, Fresh, Bare
    <3>4. /\ proc'[p].pc = "unlink" /\ proc'[p].folder = n
          /\ \A q \in Procs : q # p => proc'[q] = proc[q]
      BY <1>goes, <3>1
    <3>5. Owns(p)'
      BY <2>1, <3>4, FilesAssumption DEF Owns
    <3>6. Suits(proc'[p], folders'[n]) /\ Agrees(folders'[n])
      BY <3>3, <3>4 DEF Suits, Reporting, Agrees, Bare
    <3> HIDE DEF n
    <3> QED
      BY <3>2, <3>4, <3>5, <3>6, ReportKept
  <2> QED
    BY <2>2, <2>3
<1>5. ASSUME NEW p \in Procs, Unlink(p) \/ Link(p) \/ ExportCheck(p) \/ Interrupt(p)
      PROVE  ReportInv'
  <2>1. UNCHANGED folders
    BY <1>5 DEF Unlink, Link, ExportCheck, Interrupt, Exit, Files
  <2>2. PICK pc \in {"link", "read", "open", "exit"} :
          /\ Goes(p, pc) /\ proc[p].pc # "create"
          /\ pc \in {"link", "read"} => proc[p].pc \in BeforeAppend
          /\ pc = "open" => proc[p].pc \in Reporting
    BY <1>5 DEF Unlink, Link, ExportCheck, Interrupt, Exit, BeforeAppend, Reporting
  <2> QED
    BY <1>goes, <2>1, <2>2, SuitsStill DEF BeforeAppend, Reporting
<1>6. ASSUME NEW p \in Procs, ReadRestored(p) \/ Discover(p) \/ RunSuite(p)
      PROVE  ReportInv'
  <2>1. UNCHANGED folders /\ proc[p].pc \in BeforeAppend
    BY <1>6 DEF ReadRestored, Discover, RunSuite, Files, BeforeAppend
  <2>2. Quiet(p)
    BY <1>6, QuietSteps DEF SessionStep
  <2>3. proc'[p].pc \notin Reporting
    <3>1. CASE ReadRestored(p)
      BY <1>rec, <3>1 DEF ReadRestored, ProcRecords, Reporting
    <3>2. CASE Discover(p)
      BY <3>2, DiscoverWhole DEF Reporting
    <3>3. CASE RunSuite(p)
      BY <3>3, RunSuiteMoves DEF Reporting
    <3> QED
      BY <1>6, <3>1, <3>2, <3>3
  <2> QED
    BY <2>1, <2>2, <2>3, SuitsStill DEF Quiet, BeforeAppend
<1>7. ASSUME NEW p \in Procs, AppendExecuted(p)
      PROVE  ReportInv'
  <2> DEFINE n == proc[p].folder
  <2>1. /\ \A q \in Procs : q # p => proc'[q] = proc[q]
        /\ proc'[p].pc \in {"check", "exit"} /\ proc'[p].folder = n /\ proc'[p].rows = proc[p].rows
    BY <1>7, <1>rec DEF AppendExecuted, ProcRecords
  <2>2. PICK lines \in SUBSET DOMAIN proc[p].rows :
          \/ UNCHANGED folders
          \/ There(n) /\ folders' = [folders EXCEPT ![n].executed = folders[n].executed \cup lines]
    BY <1>7 DEF AppendExecuted
  <2>3. CASE ~There(n)
    <3>1. UNCHANGED folders
      BY <2>2, <2>3
    <3>2. ~There(proc[p].folder)'
      BY <2>1, <2>3, <3>1 DEF There
    <3> QED
      BY <2>1, <3>1, <3>2, ReportKept
  <2>4. CASE There(n)
    <3>1. n \in Places /\ n # NoFolder /\ folders[n].state = "there"
      BY <2>4 DEF There, Typed, ProcRecords
    <3>2. Bare(folders[n])
      BY <1>7, <2>4, <3>1 DEF AppendExecuted, ReportInv, Appended, Suits, Owns, BeforeAppend
    <3>3. /\ \A m \in Places : m # n => folders'[m] = folders[m]
          /\ folders'[n].state = "there" /\ folders'[n].executed \in {folders[n].executed, folders[n].executed \cup lines}
          /\ folders'[n].results = folders[n].results
      <4>1. folders[n] \in FolderRecords
        BY <1>rec, <3>1
      <4> HIDE DEF n
      <4> QED
        BY <1>rec, <2>2, <3>1, <4>1 DEF FolderRecords
    <3>4. folders'[n].executed \subseteq DOMAIN proc[p].rows /\ Agrees(folders'[n])
      BY <3>2, <3>3 DEF Bare, Agrees
    <3>5. Owns(p)' /\ Suits(proc'[p], folders'[n])
      BY <2>1, <3>1, <3>4 DEF Owns, Suits, BeforeAppend
    <3> HIDE DEF n
    <3> QED
      BY <2>1, <3>3, <3>4, <3>5, ReportKept
  <2> QED
    BY <2>3, <2>4
<1>put. ASSUME NEW p \in Procs, NEW content \in Contents, Reachable(p), Put(p, content),
               content.kind # "report" \/ content.rows = proc[p].rows,
               proc[p].pc \in Reporting, ExportOpen(p) \/ ExportWrite(p)
        PROVE  ReportInv'
  <2> DEFINE n == proc[p].folder
  <2>1. /\ \A q \in Procs : q # p => proc'[q] = proc[q]
        /\ proc'[p].folder = n /\ proc'[p].pc \in {"write", "check", "exit"} /\ proc'[p].rows = proc[p].rows
    <3>1. CASE ExportOpen(p)
      BY <1>goes, <1>put, <3>1 DEF ExportOpen
    <3>2. CASE ExportWrite(p)
      BY <1>rec, <3>2 DEF ExportWrite, ProcRecords
    <3> QED
      BY <1>put, <3>1, <3>2
  <2>2. CASE ~Own(p)
    <3>1. UNCHANGED folders
      BY <1>put, <2>2 DEF Put
    <3> QED
      BY <1>put, <2>1, <3>1, SuitsStill DEF BeforeAppend, Reporting
  <2>3. CASE Own(p)
    <3>1. n \in Places /\ n # NoFolder /\ folders[n].state = "there"
      BY <1>put, <2>3 DEF Reachable, There, Typed, ProcRecords
    <3>2. folders[n].executed \subseteq DOMAIN proc[p].rows
      BY <1>put, <3>1 DEF ReportInv, Appended, Suits, Owns, There, Reporting
    <3>3. /\ \A m \in Places : m # n => folders'[m] = folders[m]
          /\ folders'[n].state = "there" /\ folders'[n].executed = folders[n].executed
          /\ folders'[n].results = content
      <4>1. folders[n] \in FolderRecords /\ folders' = [folders EXCEPT ![n].results = content]
        BY <1>put, <1>rec, <2>3, <3>1 DEF Put
      <4> HIDE DEF n
      <4> QED
        BY <1>rec, <3>1, <4>1 DEF FolderRecords
    <3>4. Owns(p)' /\ Suits(proc'[p], folders'[n]) /\ Agrees(folders'[n])
      BY <1>put, <2>1, <3>1, <3>2, <3>3 DEF Owns, Suits, Agrees, BeforeAppend
    <3> HIDE DEF n
    <3> QED
      BY <2>1, <3>3, <3>4, ReportKept
  <2> QED
    BY <2>2, <2>3
<1>8. ASSUME NEW p \in Procs, ExportOpen(p)
      PROVE  ReportInv'
  <2>1. CASE Reachable(p)
    <3>1. Empty \in Contents /\ Empty.kind # "report"
      BY DEF Contents, Empty
    <3> QED
      BY <1>8, <1>put, <2>1, <3>1 DEF ExportOpen, Reporting
  <2>2. CASE ~Reachable(p)
    <3>1. UNCHANGED folders /\ Goes(p, "exit") /\ proc[p].pc = "open"
      BY <1>8, <2>2 DEF ExportOpen, Exit, Files
    <3> QED
      BY <1>goes, <3>1, SuitsStill DEF BeforeAppend, Reporting
  <2> QED
    BY <2>1, <2>2
<1>9. ASSUME NEW p \in Procs, ExportWrite(p)
      PROVE  ReportInv'
  <2>1. CASE Reachable(p)
    <3>1. proc[p].rows \in RowMaps
      BY DEF Typed, ProcRecords
    <3>2. report_value(proc[p].rows) \in Contents /\ report_value(proc[p].rows).rows = proc[p].rows
      BY <3>1 DEF Contents, report_value
    <3> QED
      BY <1>9, <1>put, <2>1, <3>2 DEF ExportWrite, Reporting
  <2>2. CASE ~Reachable(p)
    <3>1. UNCHANGED folders /\ proc[p].pc = "write"
      BY <1>9, <2>2 DEF ExportWrite, Files
    <3>2. /\ \A q \in Procs : q # p => proc'[q] = proc[q]
          /\ proc'[p].folder = proc[p].folder /\ proc'[p].pc \in {"check", "exit"}
          /\ proc'[p].rows = proc[p].rows
      BY <1>9, <1>rec DEF ExportWrite, ProcRecords
    <3> QED
      BY <3>1, <3>2, SuitsStill DEF BeforeAppend, Reporting
  <2> QED
    BY <2>1, <2>2
<1> QED
  BY <1>1, <1>2, <1>3, <1>4, <1>5, <1>6, <1>7, <1>8, <1>9 DEF Next, TempDirStep, SessionStep

\* A results.json that was written completely counts every one of its tests,
\* whatever they printed and returned.
LEMMA ReportsCount ==
    ASSUME Typed, NEW n \in Range(order), folders[n].results.kind = "report"
    PROVE  \A t \in DOMAIN folders[n].results.rows : folders[n].results.rows[t].counts # NoCounts
<1>1. n \in Places
  BY DEF Typed, FilesTyped, Range
<1>2. PICK rows \in RowMaps : folders[n].results = report_value(rows)
  <2>1. folders[n].results \in Contents
    BY <1>1 DEF Typed, FilesTyped, FolderRecords
  <2> QED
    BY <2>1 DEF Contents, NoFile, Empty
<1>3. folders[n].results.rows = rows
  BY <1>2 DEF report_value
<1>4. \A t \in DOMAIN rows : rows[t] \in Rows
  BY DEF RowMaps
<1>5. \A t \in DOMAIN rows : rows[t].counts # NoCounts
  BY <1>4, ResultCounts DEF Rows
<1> QED
  BY <1>3, <1>5

\* The executed file beside a results.json that was written completely names
\* only tests the report has and counts: for any number of processes that make
\* and remove folders beside each other, failing to write what they may fail
\* to write.
THEOREM ExecutedIsReported == Spec => []ExecutedReported
<1>1. Init => ReportInv
  <2> SUFFICES ASSUME Init PROVE ReportInv
    OBVIOUS
  <2>1. \A p \in Procs : ~Owns(p)
    BY DEF Init, Idle, Owns
  <2>2. \A n \in Places : /\ folders[n].results.kind = "none"
                          /\ folders[n].state = "unused" => folders[n].executed = {}
    BY DEF Init, Folder, NoFile
  <2> QED
    BY <2>1, <2>2 DEF ReportInv, Fresh, Bare, Appended, Recorded, Agrees
<1>2. Typed /\ Typed' /\ RotationInv /\ RotationInv' /\ ReportInv /\ [Next]_vars => ReportInv'
  BY ReportStep
<1>3. Typed /\ ReportInv => ExecutedReported
  <2> SUFFICES ASSUME Typed, ReportInv, NEW n \in Range(order), folders[n].results.kind = "report"
               PROVE  /\ folders[n].executed \subseteq DOMAIN folders[n].results.rows
                      /\ \A t \in DOMAIN folders[n].results.rows :
                            folders[n].results.rows[t].counts # NoCounts
    BY DEF ExecutedReported
  <2>1. n \in Places
    BY DEF Typed, FilesTyped, Range
  <2>2. folders[n].executed \subseteq DOMAIN folders[n].results.rows
    BY <2>1 DEF ReportInv, Recorded, Agrees
  <2> QED
    BY <2>2, ReportsCount
<1> QED
  BY <1>1, <1>2, <1>3, RotationHolds, FilesTypeCorrect, PTL DEF Spec
==============================================================================
