SPECIFICATION FairSpec
CONSTANTS
    Env <- CongestionEnv
    Devices = {"Switch", "Hub"}
    hostModules <- TcpOnly
    Flows <- CongestionFlows
    Draws = {0, 99}
    NewRoutes = {}
    NewArps <- CongestionArps
    ChangedWires = {}
    NewDelays = {}
    NewSpeeds = {}
    MaxPackets = 2
    MaxMulticasts = 1
    MaxChanges = 1
INVARIANTS
    OnlyForMe
PROPERTIES
    Arrives
CHECK_DEADLOCK FALSE
