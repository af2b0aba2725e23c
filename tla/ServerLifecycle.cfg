CONSTANTS
    x1 = x1  x2 = x2  c1 = c1
    Workers = {"admission"}
    Requests = {r1}
    Customers = {c1}
    Conns = {x1, x2}
    Owner <- OwnerOf
    NoConn = NoConn
    MaxFaults = 1
SPECIFICATION FairSpec
INVARIANTS
    TypeOK
    NoDangling
    NewestStays
    FailedIsForgotten
PROPERTIES
    RequestsDrain
    ClosedIsForgotten
    ErrorEndsProcess
    SignalQuiesces
CHECK_DEADLOCK FALSE
