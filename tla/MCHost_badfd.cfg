SPECIFICATION Spec
CONSTANTS
    Apps = {a1, a2}
    None = None
    MAX_PID = 5
    MAX_FD = 5
    Sleeps = {0, 2}
    Tills = {0, 2}
    Unsupported = FALSE
    UseInvalid = TRUE
    MaxCalls = 2
    Horizon = 2
SYMMETRY AppSymmetry
PROPERTY InvalidDescriptorFails
