\* Violation run: TestedEntryCount, the count test_save_checkpoints asserts,
\* against the 2N+2 entries store_experts writes.
CONSTANTS
    e1 = e1
    e2 = e2
    Experts <- MCExperts
    MaxVersion = 1
    MaxStores = 3
    MaxCrashes = 0
    MaxLoads = 2
SPECIFICATION Spec
INVARIANT TestedEntryCount
\* Every behaviour ends: the saver exits once asked to stop, and the
\* stores, crashes and loads are bounded.
CHECK_DEADLOCK FALSE
