SPECIFICATION SuiteFairSpec
CONSTANTS
    p1 = p1  p2 = p2  s1 = s1  k1 = k1  loop = loop  Loop = loop
    Tests = {p1, s1}
    Parallel = {p1}
    Stoppers = {loop}
    Suites <- OneSuite
    Repeat = FALSE
    MaxWorkers = 2
    TestTimeout = TRUE
    Cancellable = FALSE
    MayPanic = TRUE
    MayHang = FALSE
    Bounded = TRUE
    MaxTaint = 1
PROPERTIES SuiteEnds
CHECK_DEADLOCK FALSE
