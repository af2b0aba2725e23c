CONSTANTS
    k1 = k1  k2 = k2
    i1 = i1  i2 = i2  i3 = i3
    Claims = {k1}
    Calls = {i1}
    Target <- TargetOf
    MaxHooks = 0
    MaxFaults = 0
SPECIFICATION FairSpec
CHECK_DEADLOCK FALSE
ACTION_CONSTRAINT PromptCalls
PROPERTY StalePaymentsHeal
