SPECIFICATION Spec
CONSTANTS
    Ports = 2
    Sizes = {1, 2}
    Speeds = {0, 1}
    QueueSizes = {1}
    ShrinkBelow = FALSE
    MaxPackets = 3
    Horizon = 2
INVARIANT NoAbort
