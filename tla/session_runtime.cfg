SPECIFICATION FairSpec
CONSTANTS
    Suites <- OneSuite
    Selected = {"open"}
    Iterate = 2
    Runtime = TRUE
    Command = TRUE
    Fault = FALSE
    DryRuns = {FALSE}
    SuiteTimeout = TRUE
    Stoppers = {"k"}
    IdleStops = FALSE
    Interrupts = TRUE
    Sessions = 1
    MaxRounds = 2
INVARIANTS ReportComplete
PROPERTIES RunAndStopEnd
CHECK_DEADLOCK FALSE
