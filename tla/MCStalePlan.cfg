SPECIFICATION Spec
CONSTANTS
    Debits = {d1}
    Credits = {c1}
    finalizeAttempts = 3
    MaxFaults <- MCCrash
    Reordering = FALSE
    Managers = {r1}
    MaxAttempts = 0
    LiveRedrive = TRUE
    StalePlans = TRUE
PROPERTIES
    ResumesReversing
