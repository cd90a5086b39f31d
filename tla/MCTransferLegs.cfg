SPECIFICATION MSpec
CONSTANTS
    payer = payer
    payee = payee
    Debits = {d1, d2}
    Credits = {c1}
    Wallets = {payer, payee}
    WalletOf <- MCWalletOf
    Amount <- MCAmount
    Opening <- MCOpening
    finalizeAttempts = 3
    MaxFaults <- MCOneFault
    Reordering = FALSE
    Managers = {r1}
    MaxAttempts = 0
    LiveRedrive = FALSE
    StalePlans = FALSE
INVARIANTS
    CreditsAfterDebits
    SuccessMeansApplied
    FailedMeansUndone
PROPERTIES
    CallbackMatchesLedger
SYMMETRY Symmetric
