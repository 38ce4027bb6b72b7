SPECIFICATION Spec
CONSTANTS
    c1 = c1
    c2 = c2
    k1 = k1
    b1 = b1
    b2 = b2
    NoPlan = NoPlan
    Clients <- Client2
    Keys <- Key1
    Builds <- Build1
    DurableStore = TRUE
    Budget <- NoEvents
PROPERTY ReplayReturnsReceipt
