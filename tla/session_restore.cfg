SPECIFICATION Spec
CONSTANTS
    Suites <- TwoSuites
    Selected = {"open", "read"}
    Iterate = 1
    Runtime = FALSE
    Command = TRUE
    Fault = TRUE
    DryRuns = {TRUE, FALSE}
    SuiteTimeout = FALSE
    Stoppers = {"k"}
    IdleStops = TRUE
    Interrupts = TRUE
    Sessions = 2
    MaxRounds = 1
INVARIANTS ReportComplete RestoreSkips RestoredRan FaultOff
CHECK_DEADLOCK FALSE
