SPECIFICATION Spec
CONSTANTS
    p1 = p1  p2 = p2  s1 = s1  k1 = k1  k2 = k2
    Tests = {p1, p2, s1}
    Parallel = {p1, p2}
    Stoppers = {k1, k2}
    MaxWorkers = 2
    TestTimeout = TRUE
    Cancellable = FALSE
    MayPanic = FALSE
    MayHang = TRUE
    Bounded = TRUE
    MaxTaint = 1
SYMMETRY MCSymmetry
INVARIANTS TypeOK PermitsConserved WorkersBounded OkRoundComplete KernelErrorsRaised
PROPERTIES StopDrains RefinesTestRound
