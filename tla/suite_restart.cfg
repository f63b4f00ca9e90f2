SPECIFICATION SuiteFairSpec
CONSTANTS
    p1 = p1  p2 = p2  s1 = s1  k1 = k1  loop = loop  Loop = loop
    Tests = {p1, p2, s1}
    Parallel = {p1, p2}
    Stoppers = {k1, loop}
    Suites <- TwoSuites
    Repeat = TRUE
    MaxWorkers = 2
    TestTimeout = TRUE
    Cancellable = FALSE
    MayPanic = FALSE
    MayHang = TRUE
    Bounded = TRUE
    MaxTaint = 1
INVARIANTS SuiteTypeOK RowsOfSuite
PROPERTIES RestartedAfterKernelError SuiteEnds SuiteStopEnds
