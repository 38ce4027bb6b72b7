SPECIFICATION Spec
CONSTANTS
    c1 = c1
    c2 = c2
    s1 = s1
    s2 = s2
    g1 = g1
    r1 = r1
    Clients <- Client2
    Subjects <- Subject2
    Resources <- Resource1
    Groups <- Group1
    Operator = s1
    Inputs <- Mixed
    Budgets <- TwoOrOne
    MaxLog = 2
INVARIANTS GrantIsHonoured ErasureWasGranted ExportIsAudited
SYMMETRY ClientSymmetry
CHECK_DEADLOCK FALSE
