SPECIFICATION ListedSpec
CONSTANTS
    Contract = {deal}
    Vehicle = {car}
    Booking = {b1, b2}
    Period <- SomePeriods
    Nobody = Nobody
    MaxNow = 2
    MaxCalls = 5
    ann = ann
    bob = bob
    root = root
    home = home
    office = office
    cell = cell
    desk = desk
    first = first
    second = second
    trip = trip
    ride = ride
    User <- SomeUsers
    Admin = root
    Email <- SomeEmails
    AdminEmail = office
    Phone <- SomePhones
    Password <- SomePasswords
    AdminPassword = first
    Worker = {w1, w2}
    MaxAccountCalls = 4
    Event <- SomeEvents
    Planner <- SomePlanners
    KindOf <- SomeKinds
    OwnerOf <- SomeOwners
    Week = 1
    MonthLength <- SomeMonths
SYMMETRY Symmetry
INVARIANTS
    PlatformTypeOK
    ShownIsFree
    DisabledIsFree
    SuspendedStayOff
    VehiclesCounted
    SessionsMatch
    VerifiedWasProven
    Reminded
CHECK_DEADLOCK FALSE
