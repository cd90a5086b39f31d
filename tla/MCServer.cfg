SPECIFICATION ServerSpec
CONSTANTS
    n1 = n1
    k1 = k1
    k2 = k2
    Replicas = {n1}
    Callbacks = {k1, k2}
    maxAttempts = 3
    maxConcurrentBuilds = 1
    MonthsAhead = 2
    DaysPerMonth = 2
    MaxOutage = 4
    MaxRequests = 1
INVARIANTS
    TypeOK
    MonthCovered
    AnsweredBeforeLeaving
    BuildsCapped
PROPERTIES
    Concludes
    Exits
