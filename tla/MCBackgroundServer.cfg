\* background_server around a server with experts, created without a checkpoint_dir.
CONSTANTS
    WithSaver = FALSE
    HasExperts = TRUE
    CheckpointDirGiven = FALSE
SPECIFICATION FairBGSpec
PROPERTIES NoOrphanChild
INVARIANTS OrderlyExit BGTypeOK BGInv
\* Both processes end.
CHECK_DEADLOCK FALSE
