CONSTANTS
    Width = 1
    MAX_SEQ = 4
    APPEND_STEP = 2
    Dev <- MCDev
    Host <- MCHost
    Home <- MCHome
    Lists <- MCLists
    Routes <- MCRoutes
    V6 = TRUE
    Drafts <- MCDrafts
    Configs <- MCConfigs
    Starts <- MCStarts
    MaxEdits = 1
    MaxFaults = 1
SPECIFICATION Spec
INVARIANT AddIsReached
PROPERTY WriteReplacesPreviewed
PROPERTY NoEffectIsClean
PROPERTY UndoRestores
CHECK_DEADLOCK FALSE
