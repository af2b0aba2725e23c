CONSTANTS
    e1 = e1  e2 = e2  e3 = e3
    c1 = c1  c2 = c2
    Entries = {e1, e2}
    Customers = {c1}
    Owner <- OwnerOf
    Total = 1
    BatchSize = 1
    MaxFaults = 2
SPECIFICATION TimedSpec
CHECK_DEADLOCK FALSE
CONSTRAINT RejoinOrFaults
PROPERTY EntriesSettle
