CONSTANTS
    k1 = k1  k2 = k2
    i1 = i1  i2 = i2  i3 = i3
    Claims = {k1}
    Calls = {i1, i2}
    Target <- TargetOf
    MaxHooks = 2
    MaxFaults = 2
SPECIFICATION FairSpec
CHECK_DEADLOCK FALSE
INVARIANTS
    TypeOK
    SettledTogether
    ConfirmedIsPaid
    OneInitializer
    CreditsBounded
    FailedChargeWasStale
PROPERTIES
    LedgerSpec
    SettlesUnlessReleased
