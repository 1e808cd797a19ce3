SPECIFICATION AloneSpec
CONSTANTS
    renter = renter
    owner1 = owner1
    owner2 = owner2
    b1 = b1
    b2 = b2
    v1 = v1
    v2 = v2
    c1 = c1
    c2 = c2
    User = {renter, owner1, owner2}
    Nobody = Nobody
    MaxCents = 100000
    RenterOf <- AllRentedByOne
    Contract = {c1, c2}
    OwnerOf <- TwoOwners
    ContractOf <- TwoFleets
    Price <- Costs200
    Discount = 100
    Bill = {b1}
    Vehicle = {v1, v2}
    Worker = {w1}
    MaxUsage = 1
    PointChoice = {100}
    StartPoints = 100
    RawAmount = {0, 150}
    EthOwner = {owner1}
    Op <- OpAlone
    MaxCalls = 7
    MaxPayments = 1
INVARIANTS
    PointsCover
PROPERTIES
    OneOwner
    WorkflowInOrder
CHECK_DEADLOCK FALSE
