SPECIFICATION Spec
CONSTANTS
    User = {u1, u2}
    Nobody = Nobody
    MaxCents = 3
    Amount = {0, 1, 2}
    MaxRows = 5
INVARIANTS
    TypeOK
    LedgerReconciles
    NoWalletNoMoney
PROPERTIES
    EscrowConserved
    LockIsCovered
SYMMETRY UserSymmetry
CHECK_DEADLOCK FALSE
