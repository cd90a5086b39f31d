SPECIFICATION FairSpec
CONSTANTS
    Debits = {d1}
    Credits = {c1}
    finalizeAttempts = 3
    MaxFaults <- MCFaults
    Reordering = FALSE
    Managers = {r1}
    MaxAttempts = 0
    LiveRedrive = FALSE
    StalePlans = FALSE
INVARIANTS
    TypeOK
    KeysPersistedFirst
    OneCopyUnderWay
    CallbacksAgree
PROPERTIES
    AtomicSpec
    Completes
    ResumesReversing
