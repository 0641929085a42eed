SPECIFICATION Spec
CONSTANTS
    Env <- TwoHostEnv
    Devices = {"Switch"}
    hostModules <- TcpAndOspf
    Flows <- TwoHostFlows
    Draws = {0, 99}
    NewRoutes <- TwoHostRoutes
    NewArps = {}
    ChangedWires = {1}
    NewDelays = {500000}
    NewSpeeds = {80}
    MaxPackets = 2
    MaxMulticasts = 1
    MaxChanges = 1
INVARIANTS
    NoAbort
    HeaderPasses
    InOrder
    DamageCaught
    WireFifo
PROPERTIES
    QuietAfterCleanUp
    RightPort
    ImplementsWire
CHECK_DEADLOCK FALSE
