SPECIFICATION FairSpec
CONSTANT Runnables = {r1, r2, r3}
INVARIANTS
    OneAtATime
    HandoverInv
PROPERTIES
    ImplementsCoroutine
    ControlReturns
CHECK_DEADLOCK FALSE
