SPECIFICATION Spec
CONSTANTS
    p1 = p1  p2 = p2
    Procs = {p1, p2}
    Old <- MCOld
    Names = {"n1", "n2"}
    MaxRotate = 2
    ArgSets <- MCArgSets
    Suts <- MCSuts
    Faults <- MCFaults
    Outcomes <- MCOutcomes
    Runtest <- MCRuntest
    Metadata <- MCMetadata
    MaxRuntime = 30
    EnvPath = FALSE
SYMMETRY MCSymmetry
INVARIANTS FoldersRotated ExecutedReported SuiteWhole
CHECK_DEADLOCK FALSE
