SPECIFICATION Spec
CONSTANTS
    j1 = j1
    j2 = j2
    p1 = p1
    p2 = p2
    NoJob = NoJob
    Jobs <- Job2
    Permits <- Permit2
    Priority <- Distinct
    Budgets <- Safety
SYMMETRY AnyPermit
INVARIANTS RunningHasWorker PendingIsTracked ResultUntilExpiry
INVARIANTS NoDoubleRun TokenTracksWorker
PROPERTY SettledIsFinal
\* When every job has settled and no event is left, nothing happens.
CHECK_DEADLOCK FALSE
