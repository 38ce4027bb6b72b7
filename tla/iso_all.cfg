SPECIFICATION FairSpec
CONSTANTS
    c1 = c1
    c2 = c2
    c3 = c3
    q1 = q1
    q2 = q2
    Caller = {c1, c2, c3}
    Query = {q1, q2}
    QueryOf <- ThreeQueries
    StorageOf <- ThreeModes
    SnapshotClone = FALSE
    TicketsOf <- ThreeTickets
    NoCaller = NoCaller
    Budget <- Each
INVARIANT NoAbandonedJob
PROPERTY EveryJobIsDeleted
PROPERTY SpawnReturns
CHECK_DEADLOCK FALSE
