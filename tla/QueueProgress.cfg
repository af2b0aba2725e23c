CONSTANTS
    e1 = e1  e2 = e2  e3 = e3
    c1 = c1  c2 = c2
    Entries = {e1, e3}
    Customers = {c1, c2}
    Owner <- OwnerOf
    Total = 1
    BatchSize = 1
    MaxFaults = 0
SPECIFICATION FairSpec
CHECK_DEADLOCK FALSE
PROPERTIES
    FirstComeFirstServed
    QueueMoves
