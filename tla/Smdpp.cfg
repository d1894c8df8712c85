CONSTANTS
    Transaction = {t1, t2}
    Euicc = {e1, e2}
    Profile <- MCProfile
    p1 = p1
    p2 = p2
    Nonce = {n1, n2, n3}
    NonceLimit = 2
    Persistent = TRUE
    MaxQueue = 2
    MaxRestarts = 1
    MaxTaken = 5
    NoTransaction = NoTransaction
    NoEuicc = NoEuicc
    NoProfile = NoProfile
    NoPackage = NoPackage

SYMMETRY Symmetry
SPECIFICATION Spec

INVARIANT PackageOpens
INVARIANT AnsweredCanGoOn
INVARIANT RepeatNeedsOverflow
PROPERTY RemovedByItsEuicc
