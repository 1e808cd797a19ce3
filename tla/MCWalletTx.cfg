SPECIFICATION FundedSpec
CONSTANTS
    User = {u1, u2}
    Nobody = Nobody
    Free = Free
    Request = {r1, r2}
    MaxCents = 3
    Amount = {1}
    MaxRows = 8
INVARIANTS
    ReadsAreCurrent
PROPERTIES
    StepsImplementWallet
    EveryRequestEnds
CHECK_DEADLOCK FALSE
