CONSTANTS
    A = A
    B = B
    Approvers = {A, B}
    NoUser = NoUser
    Settings <- MCSettings
    MaxSettings = 1
    Unreadable = {2}
    MaxFiles = 3
    MaxSignatures = 2
    Terms = {1, 2}
    Officers = {A, B}
    MaxLetters = 3
    MaxRevisions = 2
    Loans <- MCLoans
    Balloons = {3}
    Durations = {4}
    MaxMonth = 4
    MaxLines = 4
    MaxBalloons = 1
    Chains <- MCChains
    Raises = {0, 1}
    Nothing = Nothing
    LastDay = 3
    LastTime = 3
    LastCheckIn = 1
    Calendars = {{1}}
    Corrections <- MCCorrections
    RequestDays = {2}
    PunchDays = {2}
    MaxPunches = 2
    LeaveDays = 2
    MaxLeaves = 2
SPECIFICATION Spec
INVARIANTS
    LastIsMD
CHECK_DEADLOCK FALSE
