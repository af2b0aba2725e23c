CONSTANTS
    r1 = r1  r2 = r2  r3 = r3
    c1 = c1  c2 = c2
    Requests = {r1}
    Customers = {c1, c2}
    Owner <- OwnerOf
    Total = 1
    MaxFaults = 3
    NoKey = NoKey
SPECIFICATION FairSpec
CHECK_DEADLOCK FALSE
PROPERTIES
    ClaimsExpire
    CounterHeals
