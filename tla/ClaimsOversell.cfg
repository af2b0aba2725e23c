CONSTANTS
    r1 = r1  r2 = r2  r3 = r3
    c1 = c1  c2 = c2
    Requests = {r1, r3}
    Customers = {c1, c2}
    Owner <- OwnerOf
    Total = 1
    MaxFaults = 0
    NoKey = NoKey
SPECIFICATION Spec
CHECK_DEADLOCK FALSE
INVARIANT NoOversell
