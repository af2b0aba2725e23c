CONSTANTS
    Customers = {c1, c2}
    k1 = k1
    k2 = k2
    k3 = k3
    Calls = {k1}
    Kind <- KindOf
    Total = 1
    BatchSize = 1
    MaxFaults = 0
    NoKey = NoKey
SPECIFICATION FairSpec
PROPERTY ReleasedTicketIsOffered
CHECK_DEADLOCK FALSE
