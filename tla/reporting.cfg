SPECIFICATION Spec
CONSTANTS
    INTERNAL_ERROR = "internal_error"
    Tests = {t1, t2}
    ParTests = {t1, t2}
    WorkerCounts = {1, 2}
    MaxRuns = 1
    MaxQueue = 1
    MaxCalls = 5
INVARIANT HandledInOrder
INVARIANT BlameBounded
PROPERTY DrainedByStop
CHECK_DEADLOCK FALSE
