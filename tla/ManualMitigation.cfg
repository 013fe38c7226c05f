SPECIFICATION Spec
CONSTANTS
    Requests = {"d", "p"}
    Direct = {"d"}
    MaxRevision = 2
    MaxBundles = 3
    MaxFaults = 1
INVARIANT NothingTwice
INVARIANT RunIsItsDefinition
INVARIANT DirectRunsAttended
CHECK_DEADLOCK FALSE
