SPECIFICATION Spec
CONSTANTS
    Activations = {a1}
    Messages <- MCMessages
    InitialRows <- MCInitialRows
    MaxInt64 = 3
    maxVersionRetries = 3
    MaxTouches = 3
INVARIANTS TypeOK AppliedOnce PendingNotApplied
PROPERTY AccountSpec
