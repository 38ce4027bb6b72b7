\* A call of the ClickHouse client with fallback hosts, a channel of two
\* places and results of up to four batches.
SPECIFICATION Spec
CONSTANTS
    h1 = h1
    h2 = h2
    Host = h1
    NoHost = NoHost
    FallbackHosts <- Fallbacks
    Capacity = 2
    MaxBatches = 4
    InteractiveLimit = 1
    BatchLimit = 2
    Estimates <- Bytes
INVARIANT StreamIsFaithful
INVARIANT StopsOnCancel
INVARIANT InsertRunsOnce
PROPERTY EveryCallEnds
