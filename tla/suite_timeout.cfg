SPECIFICATION SuiteSpec
CONSTANTS
    p1 = p1  p2 = p2  s1 = s1  k1 = k1  loop = loop  Loop = loop
    Tests = {p1, s1}
    Parallel = {p1}
    Stoppers = {k1, loop}
    Suites <- OneSuite
    Repeat = FALSE
    MaxWorkers = 2
    TestTimeout = TRUE
    Cancellable = TRUE
    MayPanic = TRUE
    MayHang = TRUE
    Bounded = TRUE
    MaxTaint = 1
INVARIANTS RowsOnce SuitesAccounted
