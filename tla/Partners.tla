------------------------------ MODULE Partners ------------------------------
(***************************************************************************)
(* The catalogue: partner companies (cooperation.service.ts) and what they *)
(* offer (hotel rooms, delivery vehicles, restaurant tables, bus types,    *)
(* train routes and flights).  The tables are tied by foreign keys: the    *)
(* offers of a partner are deleted with it, the bills of flights,          *)
(* deliveries and tables keep their offer and their partner from being     *)
(* deleted, hotel bills are deleted with the partner and lose the rooms    *)
(* that are deleted.                                                       *)
(***************************************************************************)
EXTENDS Integers, Sequences, SequencesExt

CONSTANTS
    Partner,    \* cooperations.id
    Offer,      \* ids of the six offer tables
    Bill,       \* ids of bills and bookings
    User,       \* users with favourites
    Nothing,    \* no partner, no offer
    Time        \* departure and arrival times of flights

VARIABLES
    partner,    \* type of each cooperation, "none" before, "gone" after
    offer,      \* rows of the offer tables
    bill,       \* what each bill refers to
    favorite    \* users.favoriteCooperationIds

partnersVars == <<partner, offer, bill, favorite>>

Kind == {"hotel", "delivery", "restaurant", "bus", "train", "flight"}

\* departs and arrives are used by flights only.
OfferRow == [kind : Kind \cup {"none", "gone"}, partner : Partner \cup {Nothing},
             departs : Time \cup {0}, arrives : Time \cup {0}]
NoOffer == [kind |-> "none", partner |-> Nothing, departs |-> 0, arrives |-> 0]

\* A hotel bill refers to its rooms through its details, offer is Nothing
\* when they have been deleted.  No bill of a bus or a train is ever saved:
\* create loads the bus type or route without its cooperation and the column
\* cooperation_id refuses the NULL.
Sold == {"hotel", "delivery", "restaurant", "flight"}
BillRow == [kind : Sold \cup {"none"}, offer : Offer \cup {Nothing},
            partner : Partner \cup {Nothing}]
NoBill == [kind |-> "none", offer |-> Nothing, partner |-> Nothing]

TypeOK ==
    /\ partner \in [Partner -> Kind \cup {"none", "gone"}]
    /\ offer \in [Offer -> OfferRow]
    /\ bill \in [Bill -> BillRow]
    /\ favorite \in [User -> Seq(Partner)]

Init ==
    /\ partner = [p \in Partner |-> "none"]
    /\ offer = [o \in Offer |-> NoOffer]
    /\ bill = [b \in Bill |-> NoBill]
    /\ favorite = [u \in User |-> <<>>]

-----------------------------------------------------------------------------
\* cooperation.service.ts

Known(p) == partner[p] \in Kind
Listed(o) == offer[o].kind \in Kind

CreatePartner(p, kind) ==
    /\ partner[p] = "none"
    /\ partner' = [partner EXCEPT ![p] = kind]
    /\ UNCHANGED <<offer, bill, favorite>>

\* update may change the type of a partner that already has offers.
UpdatePartner(p, kind) ==
    /\ Known(p)
    /\ partner' = [partner EXCEPT ![p] = kind]
    /\ UNCHANGED <<offer, bill, favorite>>

Restricts(kind) == kind \in Sold \ {"hotel"}

\* A bill whose foreign keys forbid to delete the partner p or one of O.
Keeps(b, p, O) == Restricts(bill[b].kind) /\ (bill[b].partner = p \/ bill[b].offer \in O)

\* The bills after the partner p and the offers O are deleted: hotel bills
\* go with the partner, their details with the rooms.
BillsWithout(p, O) ==
    [b \in Bill |->
        IF bill[b].partner = p /\ p # Nothing THEN NoBill
        ELSE IF bill[b].offer \in O THEN [bill[b] EXCEPT !.offer = Nothing] ELSE bill[b]]

\* Mutant: the bills of flights, deliveries and tables restrict nothing.
RemovePartner_Always(p) ==
    LET O == {o \in Offer : offer[o].partner = p} IN
    /\ Known(p)
    /\ partner' = [partner EXCEPT ![p] = "gone"]
    /\ offer' = [o \in Offer |-> IF o \in O THEN [NoOffer EXCEPT !.kind = "gone"] ELSE offer[o]]
    /\ bill' = [b \in Bill |->
          IF bill[b].kind = "hotel" /\ bill[b].partner = p THEN NoBill ELSE bill[b]]
    /\ UNCHANGED favorite

RemovePartner(p) ==
    LET O == {o \in Offer : offer[o].partner = p} IN
    /\ Known(p)
    /\ \A b \in Bill : ~Keeps(b, p, O)
    /\ partner' = [partner EXCEPT ![p] = "gone"]
    /\ offer' = [o \in Offer |-> IF o \in O THEN [NoOffer EXCEPT !.kind = "gone"] ELSE offer[o]]
    /\ bill' = BillsWithout(p, O)
    /\ UNCHANGED favorite

\* Mutant: the id is added without looking whether it is there.
Favorite_Again(u, p) ==
    /\ Known(p)
    /\ favorite' = [favorite EXCEPT ![u] = Append(@, p)]
    /\ UNCHANGED <<partner, offer, bill>>

Favorite(u, p) ==
    /\ Known(p)
    /\ ~Contains(favorite[u], p)
    /\ favorite' = [favorite EXCEPT ![u] = Append(@, p)]
    /\ UNCHANGED <<partner, offer, bill>>

\* unfavorite does not ask for the partner.
Unfavorite(u, p) ==
    /\ Contains(favorite[u], p)
    /\ favorite' = [favorite EXCEPT ![u] = SelectSeq(@, LAMBDA q : q # p)]
    /\ UNCHANGED <<partner, offer, bill>>

\* findFavoritesByUser: the partners that still exist, in the order of the
\* ids.
FavoritesOf(u) == SelectSeq(favorite[u], Known)

-----------------------------------------------------------------------------
\* The offer tables.  The type of the partner counts when an offer is created
\* or moved, and only then.

\* ensureCooperation.
Ensured(p, kind) == Known(p) /\ partner[p] = kind

AddOffer(o, kind, p, departs, arrives) ==
    /\ offer[o].kind = "none"
    /\ Ensured(p, kind)
    /\ offer' = [offer EXCEPT ![o] = [kind |-> kind, partner |-> p,
                                      departs |-> departs, arrives |-> arrives]]
    /\ UNCHANGED <<partner, bill, favorite>>

MoveOffer(o, kind, p) ==
    /\ offer[o].kind = kind
    /\ Ensured(p, kind)
    /\ offer' = [offer EXCEPT ![o].partner = p]
    /\ UNCHANGED <<partner, bill, favorite>>

RemoveOffer(o, kind) ==
    /\ offer[o].kind = kind
    /\ \A b \in Bill : ~Keeps(b, Nothing, {o})
    /\ offer' = [offer EXCEPT ![o] = [NoOffer EXCEPT !.kind = "gone"]]
    /\ bill' = BillsWithout(Nothing, {o})
    /\ UNCHANGED <<partner, favorite>>

CreateRoom(o, p) == AddOffer(o, "hotel", p, 0, 0)
UpdateRoom(o, p) == MoveOffer(o, "hotel", p)
RemoveRoom(o) == RemoveOffer(o, "hotel")

CreateDeliveryVehicle(o, p) == AddOffer(o, "delivery", p, 0, 0)
UpdateDeliveryVehicle(o, p) == MoveOffer(o, "delivery", p)
RemoveDeliveryVehicle(o) == RemoveOffer(o, "delivery")

CreateTable(o, p) == AddOffer(o, "restaurant", p, 0, 0)
UpdateTable(o, p) == MoveOffer(o, "restaurant", p)
RemoveTable(o) == RemoveOffer(o, "restaurant")

CreateBusType(o, p) == AddOffer(o, "bus", p, 0, 0)
UpdateBusType(o, p) == MoveOffer(o, "bus", p)
RemoveBusType(o) == RemoveOffer(o, "bus")

CreateTrainRoute(o, p) == AddOffer(o, "train", p, 0, 0)
UpdateTrainRoute(o, p) == MoveOffer(o, "train", p)
RemoveTrainRoute(o) == RemoveOffer(o, "train")

CreateFlight(o, p, departs, arrives) ==
    /\ arrives > departs
    /\ AddOffer(o, "flight", p, departs, arrives)

\* update compares the times the flight will have, new or kept.
UpdateFlight(o, p, departs, arrives) ==
    \E d \in {offer[o].departs, departs}, a \in {offer[o].arrives, arrives} :
        /\ a > d
        /\ offer[o].kind = "flight"
        /\ p = offer[o].partner \/ partner[p] = "flight"
        /\ offer' = [offer EXCEPT ![o] =
              [kind |-> "flight", partner |-> p, departs |-> d, arrives |-> a]]
        /\ UNCHANGED <<partner, bill, favorite>>

RemoveFlight(o) == RemoveOffer(o, "flight")

\* A bill is saved: it takes the partner its offer has now.
Book(b, o) ==
    /\ bill[b] = NoBill
    /\ offer[o].kind \in Sold
    /\ bill' = [bill EXCEPT ![b] =
          [kind |-> offer[o].kind, offer |-> o, partner |-> offer[o].partner]]
    /\ UNCHANGED <<partner, offer, favorite>>

\* remove of a flight bill.
RemoveBill(b) ==
    /\ bill[b].kind = "flight"
    /\ bill' = [bill EXCEPT ![b] = NoBill]
    /\ UNCHANGED <<partner, offer, favorite>>

PartnerStep(p) ==
    \/ \E kind \in Kind : CreatePartner(p, kind) \/ UpdatePartner(p, kind)
    \/ RemovePartner(p)
    \/ \E u \in User : Favorite(u, p) \/ Unfavorite(u, p)

\* The requests for each table.
RoomStep(o, p) == CreateRoom(o, p) \/ UpdateRoom(o, p) \/ RemoveRoom(o)
DeliveryVehicleStep(o, p) ==
    CreateDeliveryVehicle(o, p) \/ UpdateDeliveryVehicle(o, p) \/ RemoveDeliveryVehicle(o)
TableStep(o, p) == CreateTable(o, p) \/ UpdateTable(o, p) \/ RemoveTable(o)
BusTypeStep(o, p) == CreateBusType(o, p) \/ UpdateBusType(o, p) \/ RemoveBusType(o)
TrainRouteStep(o, p) ==
    CreateTrainRoute(o, p) \/ UpdateTrainRoute(o, p) \/ RemoveTrainRoute(o)
FlightStep(o, p) ==
    \/ \E departs, arrives \in Time :
          CreateFlight(o, p, departs, arrives) \/ UpdateFlight(o, p, departs, arrives)
    \/ RemoveFlight(o)

OfferStep(o, p) ==
    \/ RoomStep(o, p) \/ DeliveryVehicleStep(o, p) \/ TableStep(o, p)
    \/ BusTypeStep(o, p) \/ TrainRouteStep(o, p) \/ FlightStep(o, p)

Next ==
    \/ \E p \in Partner : PartnerStep(p)
    \/ \E o \in Offer, p \in Partner : OfferStep(o, p)
    \/ \E b \in Bill : RemoveBill(b) \/ \E o \in Offer : Book(b, o)

Spec == Init /\ [][Next]_partnersVars

-----------------------------------------------------------------------------

\* However offers are moved between partners and both are deleted, a bill of
\* a flight, a delivery or a table can still name what was bought and from
\* whom: the partner it was bought from may no longer be the one its offer
\* belongs to, and neither can be deleted.  A hotel bill keeps its partner.
BillsKeepTheirOffer ==
    \A b \in Bill : bill[b] # NoBill =>
        /\ Known(bill[b].partner)
        /\ Restricts(bill[b].kind) => Listed(bill[b].offer)

\* The favourites a user sees are existing partners, each once, although ids
\* of deleted partners stay in the column for ever.
FavoritesListed ==
    \A u \in User :
        /\ \A p \in Partner : Contains(FavoritesOf(u), p) => Known(p)
        /\ IsInjective(favorite[u])

=============================================================================
