SPECIFICATION FairSpec
CONSTANTS
    Debits = {d1}
    Credits = {c1}
    finalizeAttempts = 3
    MaxFaults <- MCLost
    Reordering = FALSE
    Managers = {r1}
    MaxAttempts = 0
    LiveRedrive = FALSE
    StalePlans = FALSE
PROPERTIES
    Completes
