\* Violation run: KillOnlyAfterToken.
CONSTANTS
    WithSaver = FALSE
    HasExperts = TRUE
    CheckpointDirGiven = FALSE
SPECIFICATION FairBGSpec
INVARIANT KillOnlyAfterToken
CHECK_DEADLOCK FALSE
