\* A server with experts and a checkpoint saver, shut down by its owner.
CONSTANTS
    WithSaver = TRUE
    HasExperts = TRUE
SPECIFICATION FairServerSpec
PROPERTIES ShutdownCompletes LifecycleRefined
INVARIANTS OwnerDoneOrderly OrderlyInv
\* The process ends: every thread terminates after shutdown.
CHECK_DEADLOCK FALSE
