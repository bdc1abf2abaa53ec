CONSTANTS
    Departments <- MCDepartments
    Items <- MCItems
    Owner <- MCOwner
SPECIFICATION AssetFairSpec
CHECK_DEADLOCK FALSE
INVARIANTS
    ClearanceGate
    NoStrandedClearance
    NoticeDatesFollow
    ChecklistCovers
PROPERTIES
    ArchivedIsFinal
    ClearanceEnds
    CompletionSettles
