SPECIFICATION PreparedSpec
CONSTANTS
    museum = museum
    owner = owner
    RouteId = {1, 2, 3}
    User = {owner, other}
    Nobody = Nobody
    Place = {museum}
    NoPlace = NoPlace
    Hours <- MorningHours
    Dto <- AskedStops
    Trip <- AskedTrips
    Window <- AskedWindows
    MaxStops = 2
    MaxDay = 1
    MaxCalls = 2
    Overlap = FALSE
INVARIANTS
    VisitsCount
    OneCopy
PROPERTIES
    CheckInIsFinal
CHECK_DEADLOCK FALSE
