\* Does the server's lifetime see a single shutdown() call?
CONSTANTS
    WithSaver = FALSE
    HasExperts = TRUE
SPECIFICATION ServerSpec
INVARIANT ShutdownOnce
CHECK_DEADLOCK FALSE
