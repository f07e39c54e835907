CONSTANTS
    p1 = p1
    p2 = p2
    Process = {p1, p2}
    Cases <- MCCases
    RenameAttempts = 2
    MaxKills = 1
SPECIFICATION FairSpec
INVARIANTS ReportIsRight
PROPERTIES FailsForAReason OnlyVerified Ends
CHECK_DEADLOCK FALSE
