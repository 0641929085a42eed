SPECIFICATION Spec
CONSTANTS
    Trials <- AllTrials
    Rejected <- RejectedTrials
INVARIANT ExpectsHold
PROPERTY ProgramsEnd
CHECK_DEADLOCK FALSE
