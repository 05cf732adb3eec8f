SPECIFICATION ReadSpec
CONSTANTS
    Files <- MCFiles
    BlockCaps = {0, 1, 2}
INVARIANT CapacityFailureKeepsStore
CHECK_DEADLOCK FALSE
