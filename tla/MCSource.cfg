SPECIFICATION Spec
CONSTANTS
    SourceSize = 3
    Garbage <- MCGarbage
    Capacity = 2
    CacheBytes = 2
    Limits <- MCLimits
    ReadAhead = {0, 3}
    MaxCount = 3
    MaxTotal = 4
    MaxDepth = 2
INVARIANTS TypeOK BudgetsHold AnswersAreTrue CachesAreTrue
PROPERTIES FailureIsFinal ReadAheadIsFree
CHECK_DEADLOCK FALSE
