SPECIFICATION PaySpec
CONSTANTS
    File <- MCFile
    MaxU64 = 7
    Scratch = 2
    Calls <- MCCalls
INVARIANTS AnswerIsPayload LimitHolds
CHECK_DEADLOCK FALSE
