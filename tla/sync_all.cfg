SPECIFICATION FairSpec
CONSTANTS
    n1 = n1
    n2 = n2
    r1 = r1
    Nodes = {n1, n2}
    Resources = {r1}
    MaxVersion = 3
    IsDdl <- LastRefused
    Hub = Hub
    MaxInbox = 1
    MaxAnnounced = 3
    Budgets <- Troubles
INVARIANT AppliedInOrder
INVARIANT VersionIsHonest
INVARIANT SuccessMeansCurrent
INVARIANT IndexSettles
PROPERTY NodesCatchUp
