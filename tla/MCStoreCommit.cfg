SPECIFICATION Spec
CONSTANTS
    Key = {k1, k2}
    Value = {v1, v2, bad}
    Malformed = bad
    MaxEntries = 2
    MaxOps = 2
SYMMETRY MCSymmetry
INVARIANTS TypeOK CandidateKeepsIds OutWellFormed
PROPERTIES IdsAreStable ImplementsLedger
CHECK_DEADLOCK FALSE
