SPECIFICATION ReadSpec
CONSTANTS
    Files <- MCFiles
    BlockCaps = {0, 1, 2}
INVARIANTS StoreKept FailuresAreReported
CHECK_DEADLOCK FALSE
