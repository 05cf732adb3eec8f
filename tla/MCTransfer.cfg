SPECIFICATION Spec
CONSTANTS
    Sources <- MCSources
    Options <- MCOptions
INVARIANTS TypeOK ResultFitsPersist IptcRemovalFollowsSource ExifRemovalIsCarriedOut DeletionSuppressesOpaqueUncopied
CHECK_DEADLOCK FALSE
