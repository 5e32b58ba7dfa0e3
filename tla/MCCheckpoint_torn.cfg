CONSTANTS
    e1 = e1
    e2 = e2
    Experts <- MCOneExpert
    MaxVersion = 1
    MaxStores = 2
    MaxCrashes = 1
    MaxLoads = 1
SPECIFICATION Spec
INVARIANT NoTornRead
\* Every behaviour ends: the saver exits once asked to stop, and the
\* stores, crashes and loads are bounded.
CHECK_DEADLOCK FALSE
