SPECIFICATION CatalogueSpec
CONSTANTS
    lake = lake
    tour = tour
    inn = inn
    Partner = {p1, p2}
    Offer = {o1, o2}
    Bill = {b1, b2}
    Member = {u1}
    Nothing = Nothing
    Time = {1, 2}
    VoucherId = {v1, v2}
    Code = {"WELCOME", "SUMMER"}
    MaxUsed = 2
    Terms <- SomeVouchers
    LastDay = 2
    ReviewId = {f1, f2}
    Destination = {lake}
    Tour = {tour}
    Cooperation = {inn}
    Asked <- SomeTargets
    NoOne = NoOne
    Star = {1, 4}
    Worker = {w1}
    Legacy <- OldWards
    Reform <- NewWards
    Clause <- SomeClauses
    LegacyHint = "an giang"
    ReformHint = "an giang"
    MaxClauses = 2
INVARIANTS
    BillsKeepTheirOffer
    NoUsableIsHidden
    RatingsFollow
    TextDecides
SYMMETRY Symmetry
CHECK_DEADLOCK FALSE
