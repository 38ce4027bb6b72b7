SPECIFICATION FairSpec
CONSTANTS
    n1 = n1
    Nodes <- Node1
    Threshold = 2
    MaxBoot = 2
    MaxTicks = 1
    Budget <- AllEvents
INVARIANTS OpenIsAvoided HealthIsFresh
PROPERTY RoutingConverges
