CONSTANTS
    Shapes <- MCShapes
    Conditions <- MCConditions
    Values = {0, 1}
    StaleAfter = 2
    Actions = 1
    Workers = 2
    QueueCap = 1
    MaxTime = 4
    MaxDecisions = 2
    MaxEdits = 1
    MaxFaults = 1
SPECIFICATION Spec
INVARIANT FailedOwnsNothing
 
PROPERTY WriteUnderAuthority
PROPERTY QuietKeepsOwnership
CHECK_DEADLOCK FALSE
