SPECIFICATION Spec
CONSTANTS
    Offset <- MCOffset
    Files <- MCFiles
    Jobs <- MCJobs
    TaskCap = 3
    NestedMax = 1
INVARIANTS TypeOK OkMeansClosed DirectoriesAreDistinct
PROPERTIES WalkEnds
CHECK_DEADLOCK FALSE
