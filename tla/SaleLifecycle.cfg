CONSTANTS
    Customers = {c1, c2}
    k1 = k1
    k2 = k2
    k3 = k3
    Calls = {k1, k2, k3}
    Kind <- KindOf
    Total = 2
    BatchSize = 1
    MaxFaults = 1
    NoKey = NoKey
SPECIFICATION FairSpec
INVARIANTS TypeOK AdmissionsStop SoldOutHonest
PROPERTIES LifecycleRespected SaleMoves
CHECK_DEADLOCK FALSE
