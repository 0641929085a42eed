SPECIFICATION FairSpec
CONSTANTS
    Runnables = {r1, r2}
    Delays = {0, 1}
    Tills = {1}
    MaxUUID = 3
    Horizon = 2
    TimeMod = 8
INVARIANTS
    TotalOrder
    OnTime
    CallbackProtocol
    CancelHonoured
    SystemInv
PROPERTIES
    ReadyRunsAtOnce
    ImplementsEventQueue
    UsesCoroutines
    DueIsProcessed
