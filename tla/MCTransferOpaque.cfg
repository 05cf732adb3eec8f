SPECIFICATION Spec
CONSTANTS
    Sources <- MCSources
    Options <- MCOptions
INVARIANT DeletionSuppressesOpaque
CHECK_DEADLOCK FALSE
