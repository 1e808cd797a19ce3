SPECIFICATION OrderedSpec
CONSTANTS
    renter = renter
    owner1 = owner1
    owner2 = owner2
    b1 = b1
    b2 = b2
    v1 = v1
    v2 = v2
    c1 = c1
    c2 = c2
    User = {renter, owner1}
    Nobody = Nobody
    MaxCents = 100000
    RenterOf <- AllRentedByOne
    Contract = {c1}
    OwnerOf <- OneOwned
    ContractOf <- OneFleet
    Price <- Costs200
    Discount = 100
    Bill = {b1, b2}
    Vehicle = {v1, v2}
    Worker = {w1}
    MaxUsage = 0
    PointChoice = {}
    StartPoints = 0
    RawAmount = {150}
    EthOwner = {}
    Op <- OpTwice
    MaxCalls = 8
    MaxPayments = 2
INVARIANTS
    ReleasedWasLocked
CHECK_DEADLOCK FALSE
