SPECIFICATION Spec
CONSTANTS
    pay = pay
    again = again
    ord = ord
    rev = rev
    Replicas = {n1, n2}
    Callers = {c1}
    Payments = {pay, again}
    Orders = {ord}
    OrderOf <- MCOrderOf
    Reversals = {rev}
    Wallets = {w}
    Undoes <- MCUndoes
    CompletedTxnTTL = 1
    WalletReadTTL = 1
    WalletMetaTTL = 2
    MaxLoad = 1
    MaxVersion = 2
    None = None
INVARIANTS
    TypeOK
    StaleBounded
    InvalidatedUnlessLate
    AnswersLookup
CONSTRAINT OneFamily
SYMMETRY Symmetric
VIEW View
