SPECIFICATION FairSpec
CONSTANTS
    p1 = p1  p2 = p2  s1 = s1  k1 = k1  k2 = k2
    Tests = {p1, p2}
    Parallel = {p1, p2}
    Stoppers = {k1}
    MaxWorkers = 2
    TestTimeout = TRUE
    Cancellable = TRUE
    MayPanic = TRUE
    MayHang = TRUE
    Bounded = TRUE
    MaxTaint = 0
INVARIANTS KernelErrorsRaised
PROPERTIES NoStartWhileStopping RoundAndStopEnd
