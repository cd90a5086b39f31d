SPECIFICATION Spec
CONSTANTS
    Debits = {d1}
    Credits = {c1}
    finalizeAttempts = 3
    MaxFaults <- MCDupAlive
    Reordering = FALSE
    Managers = {r1}
    MaxAttempts = 1
    LiveRedrive = TRUE
    StalePlans = FALSE
INVARIANTS
    SuccessMeansApplied
    KeysPersistedFirst
PROPERTIES
    OneOutcome
