SPECIFICATION Spec
CONSTANTS
    Runnables = {r1}
    Delays = {0, 1}
    Tills = {0}
    MaxUUID = 2
    Horizon = 2
    TimeMod = 8
INVARIANT CancelSuccessMeansUnsent
