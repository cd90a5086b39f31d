SPECIFICATION Spec
CONSTANTS
    Activations = {a1, a2}
    Messages <- MCRaceMessages
    InitialRows <- MCInitialRows
    MaxInt64 = 3
    maxVersionRetries = 3
    MaxTouches = 1
INVARIANTS LedgerChains BooksBalance ChecksumMatches CopyTracksVersion
