SPECIFICATION OrderedSpec
CONSTANTS
    renter = renter
    owner1 = owner1
    owner2 = owner2
    b1 = b1
    b2 = b2
    v1 = v1
    v2 = v2
    c1 = c1
    c2 = c2
    User = {renter, owner1}
    Nobody = Nobody
    MaxCents = 100000
    RenterOf <- AllRentedByOne
    Contract = {c1}
    OwnerOf <- OneOwned
    ContractOf <- OneFleet
    Price <- Costs200
    Discount = 0
    Bill = {b1, b2}
    Vehicle = {v1, v2}
    Worker = {w1, w2}
    MaxUsage = 0
    PointChoice = {}
    StartPoints = 0
    RawAmount = {}
    EthOwner = {}
    Op <- OpTwoBills
    MaxCalls = 5
    MaxPayments = 2
INVARIANTS
    LockedByBills
SYMMETRY WorkerSymmetry
CHECK_DEADLOCK FALSE
