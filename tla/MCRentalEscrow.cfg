SPECIFICATION EscrowSpec
CONSTANTS
    Account = {a1, a2}
    NoAccount = NoAccount
    Deployer = a1
    AdminKey = a1
    RentalId = {r1, r2}
    Value = {0, 1, 2}
    MaxDeposits = 3
    Ether = {1}
    MaxOthers = 1
    Call = {c1, c2, c3}
SYMMETRY Symmetry
INVARIANTS
    TypeOK
    EntriesReconcile
    LogMatchesChain
PROPERTIES
    PaysOnlyParties
CHECK_DEADLOCK FALSE
