SPECIFICATION FairSpec
CONSTANTS
    Ports = 2
    Sizes = {1, 2}
    Speeds = {0, 1}
    QueueSizes = {2, 3}
    ShrinkBelow = FALSE
    MaxPackets = 4
    Horizon = 1
INVARIANTS
    OneCheckEach
    Fifo
    LineRate
PROPERTIES
    HeadIsSent
    QueuesDrain
