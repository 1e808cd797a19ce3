SPECIFICATION BookingsSpec
CONSTANTS
    fly = fly
    jet = jet
    BillId = {1, 2}
    Partner = {fly, jet}
    Offered <- SomeOffers
    Asked <- SomeAsks
    Fare = 2
    Discount = 1
    Limit = 1
    StartPoints = 3
    MaxCalls = 4
    Same = Same
    UnitPrice = 150
    MaxRooms = 1
    Nobody = Nobody
    MaxUsed = 2
    MaxServiceCalls = 5
    MaxFails = 1
    StartLocked = 100
    ServiceDiscount = 50
    ServicePoints = 1
INVARIANTS
    NoPointsLost
    SeatsMatch
    RevenueExact
    VoucherCounted
PROPERTY
    ImplementsLifecycle
CHECK_DEADLOCK FALSE
