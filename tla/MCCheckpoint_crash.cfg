CONSTANTS
    e1 = e1
    e2 = e2
    Experts <- MCOneExpert
    MaxVersion = 1
    MaxStores = 3
    MaxCrashes = 2
    MaxLoads = 1
SPECIFICATION FairSpec
INVARIANT CommittedStableIsLatest
INVARIANT StableNotOlderThanCommitted
PROPERTY SaverStopsWhenAsked
PROPERTY SnapshotsKept
INVARIANT IInv
INVARIANT TypeOK
\* Every behaviour ends: the saver exits once asked to stop, and the
\* stores, crashes and loads are bounded.
CHECK_DEADLOCK FALSE
