SPECIFICATION Spec
CONSTANTS
    ExifKey = {"Make", "Model"}
    XmpKey = {"User", "UserComment"}
    TagOrder <- MCTagOrder
    Frame <- MCFrame
    NamesFrom <- MCNamesFrom
    Worker = {"w1"}
    PlanId = {1, 2}
    Span = 4
    MaxRequests = 2
    MaxBatch = 2
    MaxPlans = 2
    Stores <- MCStores
    Requests <- MCRequests
    Values <- MCValues
INVARIANTS TypeOK BatchIsWhole ForeignHandlesRefused UnmistakableIsBound
CHECK_DEADLOCK FALSE
