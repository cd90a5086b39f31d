SPECIFICATION Spec
CONSTANTS
    Wallets <- MCWallets
    Merchants <- MCMerchants
    Callers = {c1}
    Exponent <- MCExponent
    CurrencyOf <- MCCurrencyOf
    MerchantOf <- MCMerchantOf
    Active <- MCActive
    Opening <- MCOpening
    Requests <- MCRequests
    MaxInt64 = 31
    MaxTxns = 2
CHECK_DEADLOCK FALSE
INVARIANTS
    OrderUnused
