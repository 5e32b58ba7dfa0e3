\* Violation run: ParentReturns.
CONSTANTS
    WithSaver = FALSE
    HasExperts = TRUE
    CheckpointDirGiven = FALSE
SPECIFICATION FairBGSpec
PROPERTY ParentReturns
CHECK_DEADLOCK FALSE
