---------------------------- MODULE TravelProofs ----------------------------
(***************************************************************************)
(* What the catalogue keeps for every set of partners, offers, bills,      *)
(* vouchers and reviews, what the resolver maps for all data sets and      *)
(* resolutions (Catalogue.tla), and travel routes for every set of routes, *)
(* stops and users (TravelRoute.tla).  For reviews and routes the          *)
(* hypothesis is that requests do not overlap, without which their         *)
(* properties are false of the code.                                       *)
(***************************************************************************)
EXTENDS Catalogue, TravelRoute, SumTheorems, TLAPS

-----------------------------------------------------------------------------
\* Partners.  The foreign keys of the catalogue tie a bill to what was bought.
\* The inductive invariant adds that an offer that is listed belongs to a
\* partner that exists: a bill takes its partner from there.

\* The three tables that bills depend on; the favourites play no part.
KeyRows ==
    /\ partner \in [Partner -> Keys!Kind \cup {"none", "gone"}]
    /\ offer \in [Offer -> Keys!OfferRow]
    /\ bill \in [Bill -> Keys!BillRow]

\* cooperation_id of the offer tables.
OfferHasPartner(o) == Keys!Listed(o) => offer[o].partner \in Partner /\ Keys!Known(offer[o].partner)

\* The foreign keys of a saved bill.
BillHasKeys(b) ==
    bill[b] # Keys!NoBill =>
        /\ bill[b].kind \in Keys!Sold
        /\ bill[b].partner \in Partner /\ Keys!Known(bill[b].partner)
        /\ Keys!Restricts(bill[b].kind) => bill[b].offer \in Offer /\ Keys!Listed(bill[b].offer)

KeysInv ==
    /\ KeyRows
    /\ \A o \in Offer : OfferHasPartner(o)
    /\ \A b \in Bill : BillHasKeys(b)

\* What is sold, and what neither is nor ever was an offer or a partner.
LEMMA KindFacts ==
    /\ Keys!Sold \subseteq Keys!Kind
    /\ "none" \notin Keys!Kind /\ "gone" \notin Keys!Kind /\ "none" \notin Keys!Sold
    /\ {"hotel", "delivery", "restaurant", "bus", "train", "flight"} \subseteq Keys!Kind
    BY DEF Keys!Kind, Keys!Sold

-----------------------------------------------------------------------------

\* Empty tables.
LEMMA InitKeys == Keys!Init => KeysInv
    <1> SUFFICES ASSUME Keys!Init PROVE KeysInv
        OBVIOUS
    <1>1. Keys!NoOffer \in Keys!OfferRow /\ Keys!NoBill \in Keys!BillRow
        BY DEF Keys!NoOffer, Keys!OfferRow, Keys!NoBill, Keys!BillRow
    <1>2. KeyRows
        BY <1>1 DEF Keys!Init, KeyRows
    <1>3. \A o \in Offer : ~Keys!Listed(o)
        BY KindFacts DEF Keys!Init, Keys!Listed, Keys!NoOffer
    <1>4. QED
        BY <1>2, <1>3 DEF Keys!Init, KeysInv, OfferHasPartner, BillHasKeys

\* A change of partners alone that keeps those that exist.
LEMMA PartnerKeys ==
    ASSUME KeysInv, NEW p \in Partner, NEW kind \in Keys!Kind,
           partner' = [partner EXCEPT ![p] = kind], UNCHANGED <<offer, bill>>
    PROVE  KeysInv'
    <1>1. /\ partner' \in [Partner -> Keys!Kind \cup {"none", "gone"}]
          /\ \A q \in Partner : Keys!Known(q) => Keys!Known(q)'
        BY DEF KeysInv, KeyRows, Keys!Known
    <1>2. KeyRows'
        BY <1>1 DEF KeysInv, KeyRows
    <1>3. ASSUME NEW o \in Offer PROVE OfferHasPartner(o)'
        BY <1>1 DEF KeysInv, OfferHasPartner, Keys!Listed
    <1>4. ASSUME NEW b \in Bill PROVE BillHasKeys(b)'
        BY <1>1 DEF KeysInv, BillHasKeys, Keys!Listed
    <1>5. QED
        BY <1>2, <1>3, <1>4 DEF KeysInv

\* An offer that is added or changed and belongs to a partner that exists.
LEMMA OfferKeys ==
    ASSUME KeysInv, NEW o \in Offer, NEW row \in Keys!OfferRow,
           row.kind \in Keys!Kind, row.partner \in Partner, Keys!Known(row.partner),
           offer' = [offer EXCEPT ![o] = row], UNCHANGED <<partner, bill>>
    PROVE  KeysInv'
    <1>1. /\ offer' \in [Offer -> Keys!OfferRow] /\ offer'[o] = row
          /\ \A q \in Offer \ {o} : offer'[q] = offer[q]
        BY DEF KeysInv, KeyRows
    <1>2. KeyRows'
        BY <1>1 DEF KeysInv, KeyRows
    <1>3. ASSUME NEW q \in Offer PROVE OfferHasPartner(q)'
        BY <1>1 DEF KeysInv, OfferHasPartner, Keys!Listed, Keys!Known
    <1>4. ASSUME NEW b \in Bill PROVE BillHasKeys(b)'
        BY <1>1 DEF KeysInv, BillHasKeys, Keys!Listed, Keys!Known
    <1>5. QED
        BY <1>2, <1>3, <1>4 DEF KeysInv

\* A deletion the foreign keys allow takes no row a remaining bill names.
LEMMA DeletionKeys ==
    ASSUME KeysInv, NEW p \in Partner \cup {Nothing}, NEW O \in SUBSET Offer,
           \A b \in Bill : ~Keys!Keeps(b, p, O),
           p # Nothing => O = {o \in Offer : offer[o].partner = p},
           partner' = IF p = Nothing THEN partner ELSE [partner EXCEPT ![p] = "gone"],
           offer' = [o \in Offer |->
                        IF o \in O THEN [Keys!NoOffer EXCEPT !.kind = "gone"] ELSE offer[o]],
           bill' = Keys!BillsWithout(p, O)
    PROVE  KeysInv'
    <1> DEFINE goneRow == [Keys!NoOffer EXCEPT !.kind = "gone"]
    <1>1. goneRow \in Keys!OfferRow /\ goneRow.kind = "gone"
        BY DEF Keys!NoOffer, Keys!OfferRow
    <1>2. /\ partner' \in [Partner -> Keys!Kind \cup {"none", "gone"}]
          /\ \A q \in Partner : q # p /\ Keys!Known(q) => Keys!Known(q)'
        BY DEF KeysInv, KeyRows, Keys!Known
    <1>3. /\ offer' \in [Offer -> Keys!OfferRow]
          /\ \A o \in O : ~Keys!Listed(o)'
          /\ \A o \in Offer \ O : offer'[o] = offer[o]
        BY <1>1, KindFacts DEF KeysInv, KeyRows, Keys!Listed
    <1>4. ASSUME NEW b \in Bill
          PROVE  /\ bill'[b] \in Keys!BillRow
                 /\ bill'[b] # Keys!NoBill =>
                       /\ bill[b] # Keys!NoBill
                       /\ bill'[b].kind = bill[b].kind
                       /\ bill'[b].partner = bill[b].partner
                       /\ bill[b].partner # p
                       /\ Keys!Restricts(bill[b].kind) => bill'[b].offer = bill[b].offer
                                                     /\ bill[b].offer \notin O
        <2>1. bill[b] \in Keys!BillRow /\ BillHasKeys(b)
            BY DEF KeysInv, KeyRows
        <2>2. CASE bill[b].partner = p /\ p # Nothing
            <3>1. bill'[b] = Keys!NoBill
                BY <2>2 DEF Keys!BillsWithout
            <3>2. QED
                BY <3>1 DEF Keys!NoBill, Keys!BillRow
        <2>3. CASE ~(bill[b].partner = p /\ p # Nothing) /\ bill[b].offer \in O
            <3>1. bill'[b] = [bill[b] EXCEPT !.offer = Nothing]
                BY <2>3 DEF Keys!BillsWithout
            <3>2. /\ bill'[b] \in Keys!BillRow
                  /\ bill'[b].kind = bill[b].kind /\ bill'[b].partner = bill[b].partner
                BY <2>1, <3>1 DEF Keys!BillRow
            <3>3. bill[b].offer # Nothing
                BY <2>3, KeysAssumption
            <3>4. bill[b] # Keys!NoBill
                BY <3>3 DEF Keys!NoBill
            <3>5. bill[b].partner # p
                BY <2>1, <2>3, <3>4, KeysAssumption DEF BillHasKeys
            <3>6. ~Keys!Restricts(bill[b].kind)
                BY <2>3 DEF Keys!Keeps
            <3>7. QED
                BY <3>2, <3>4, <3>5, <3>6
        <2>4. CASE ~(bill[b].partner = p /\ p # Nothing) /\ bill[b].offer \notin O
            <3>1. bill'[b] = bill[b]
                BY <2>4 DEF Keys!BillsWithout
            <3>2. bill[b] # Keys!NoBill => bill[b].partner # p
                BY <2>1, <2>4, KeysAssumption DEF BillHasKeys
            <3>3. QED
                BY <2>1, <2>4, <3>1, <3>2
        <2>5. QED
            BY <2>2, <2>3, <2>4
    <1>5. KeyRows'
        <2>1. bill' \in [Bill -> Keys!BillRow]
            BY <1>4 DEF Keys!BillsWithout
        <2>2. QED
            BY <1>2, <1>3, <2>1 DEF KeyRows
    <1>6. ASSUME NEW o \in Offer PROVE OfferHasPartner(o)'
        <2>1. CASE o \in O
            BY <1>3, <2>1 DEF OfferHasPartner
        <2>2. CASE o \notin O
            BY <1>2, <1>3, <2>2, KeysAssumption
               DEF KeysInv, OfferHasPartner, Keys!Listed
        <2>3. QED
            BY <2>1, <2>2
    <1>7. ASSUME NEW b \in Bill PROVE BillHasKeys(b)'
        BY <1>2, <1>3, <1>4 DEF KeysInv, BillHasKeys, Keys!Listed
    <1>8. QED
        BY <1>5, <1>6, <1>7 DEF KeysInv

\* A bill takes an offer that is listed and the partner the offer has now.
LEMMA BookKeys ==
    ASSUME KeysInv, NEW b \in Bill, NEW o \in Offer, Keys!Book(b, o)
    PROVE  KeysInv'
    <1> DEFINE row == [kind |-> offer[o].kind, offer |-> o, partner |-> offer[o].partner]
    <1>1. /\ offer[o].kind \in Keys!Sold /\ offer[o] \in Keys!OfferRow
          /\ bill' = [bill EXCEPT ![b] = row] /\ UNCHANGED <<partner, offer>>
        BY DEF Keys!Book, KeysInv, KeyRows
    <1>2. Keys!Listed(o) /\ offer[o].partner \in Partner /\ Keys!Known(offer[o].partner)
        BY <1>1, KindFacts DEF Keys!Listed, KeysInv, OfferHasPartner
    <1>3. row \in Keys!BillRow
        BY <1>1, <1>2 DEF Keys!BillRow
    <1>4. /\ bill' \in [Bill -> Keys!BillRow] /\ bill'[b] = row
          /\ \A c \in Bill \ {b} : bill'[c] = bill[c]
        <2> HIDE DEF row
        <2>1. QED
            BY <1>1, <1>3 DEF KeysInv, KeyRows
    <1>5. KeyRows' /\ \A q \in Offer : OfferHasPartner(q)'
        BY <1>1, <1>4 DEF KeysInv, KeyRows, OfferHasPartner, Keys!Listed, Keys!Known
    <1>6. ASSUME NEW c \in Bill PROVE BillHasKeys(c)'
        BY <1>1, <1>2, <1>4 DEF KeysInv, BillHasKeys, Keys!Listed, Keys!Known
    <1>7. QED
        BY <1>5, <1>6 DEF KeysInv

\* A flight bill is removed.
LEMMA RemoveBillKeys ==
    ASSUME KeysInv, NEW b \in Bill, Keys!RemoveBill(b)
    PROVE  KeysInv'
    <1>1. Keys!NoBill \in Keys!BillRow
        BY DEF Keys!NoBill, Keys!BillRow
    <1>2. /\ bill' \in [Bill -> Keys!BillRow] /\ bill'[b] = Keys!NoBill
          /\ \A c \in Bill \ {b} : bill'[c] = bill[c]
          /\ UNCHANGED <<partner, offer>>
        BY <1>1 DEF Keys!RemoveBill, KeysInv, KeyRows
    <1>3. QED
        BY <1>2 DEF KeysInv, KeyRows, OfferHasPartner, BillHasKeys, Keys!Listed, Keys!Known

\* cooperation.service.ts keeps the keys.
LEMMA PartnerStepKeys ==
    ASSUME KeysInv, NEW p \in Partner, Keys!PartnerStep(p)
    PROVE  KeysInv'
    <1>1. ASSUME NEW kind \in Keys!Kind, Keys!CreatePartner(p, kind) \/ Keys!UpdatePartner(p, kind)
          PROVE  KeysInv'
        BY <1>1, PartnerKeys DEF Keys!CreatePartner, Keys!UpdatePartner
    <1>2. CASE Keys!RemovePartner(p)
        <2> DEFINE O == {o \in Offer : offer[o].partner = p}
        <2>1. p # Nothing
            BY KeysAssumption
        <2>2. QED
            BY <1>2, <2>1, DeletionKeys DEF Keys!RemovePartner
    <1>3. ASSUME NEW u \in Member, Keys!Favorite(u, p) \/ Keys!Unfavorite(u, p) PROVE KeysInv'
        BY <1>3 DEF Keys!Favorite, Keys!Unfavorite, KeysInv, KeyRows, OfferHasPartner, BillHasKeys,
                    Keys!Listed, Keys!Known
    <1>4. QED
        BY <1>1, <1>2, <1>3 DEF Keys!PartnerStep

\* So do the six tables of offers.
LEMMA AddOfferKeys ==
    ASSUME KeysInv, NEW o \in Offer, NEW p \in Partner, NEW kind \in Keys!Kind,
           NEW departs \in Time \cup {0}, NEW arrives \in Time \cup {0},
           Keys!AddOffer(o, kind, p, departs, arrives)
    PROVE  KeysInv'
    <1> DEFINE row == [kind |-> kind, partner |-> p, departs |-> departs, arrives |-> arrives]
    <1>1. /\ row \in Keys!OfferRow /\ row.kind \in Keys!Kind /\ row.partner \in Partner
          /\ Keys!Known(row.partner)
        BY DEF Keys!OfferRow, Keys!AddOffer, Keys!Ensured
    <1>2. offer' = [offer EXCEPT ![o] = row] /\ UNCHANGED <<partner, bill>>
        BY DEF Keys!AddOffer
    <1> HIDE DEF row
    <1>3. QED
        BY <1>1, <1>2, OfferKeys

\* An update that names another partner of the same type.
LEMMA MoveOfferKeys ==
    ASSUME KeysInv, NEW o \in Offer, NEW p \in Partner, NEW kind \in Keys!Kind,
           Keys!MoveOffer(o, kind, p)
    PROVE  KeysInv'
    <1> DEFINE row == [offer[o] EXCEPT !.partner = p]
    <1>1. offer[o] \in Keys!OfferRow /\ offer[o].kind = kind
        BY DEF KeysInv, KeyRows, Keys!MoveOffer
    <1>2. /\ row \in Keys!OfferRow /\ row.kind \in Keys!Kind /\ row.partner \in Partner
          /\ Keys!Known(row.partner)
        BY <1>1 DEF Keys!OfferRow, Keys!MoveOffer, Keys!Ensured
    <1>3. offer' = [offer EXCEPT ![o] = row] /\ UNCHANGED <<partner, bill>>
        BY DEF Keys!MoveOffer
    <1> HIDE DEF row
    <1>4. QED
        BY <1>2, <1>3, OfferKeys

\* A removal the foreign keys allow.
LEMMA RemoveOfferKeys ==
    ASSUME KeysInv, NEW o \in Offer, NEW kind \in Keys!Kind, Keys!RemoveOffer(o, kind)
    PROVE  KeysInv'
    <1>1. offer' = [q \in Offer |->
              IF q \in {o} THEN [Keys!NoOffer EXCEPT !.kind = "gone"] ELSE offer[q]]
        BY DEF Keys!RemoveOffer, KeysInv, KeyRows
    <1>2. QED
        BY <1>1, DeletionKeys DEF Keys!RemoveOffer

\* A flight keeps its partner or is given to another one of the type flight.
LEMMA UpdateFlightKeys ==
    ASSUME KeysInv, NEW o \in Offer, NEW p \in Partner,
           NEW departs \in Time, NEW arrives \in Time, Keys!UpdateFlight(o, p, departs, arrives)
    PROVE  KeysInv'
    <1> DEFINE row(d, a) == [kind |-> "flight", partner |-> p, departs |-> d, arrives |-> a]
    <1>1. PICK d \in {offer[o].departs, departs}, a \in {offer[o].arrives, arrives} :
              /\ offer[o].kind = "flight"
              /\ p = offer[o].partner \/ partner[p] = "flight"
              /\ offer' = [offer EXCEPT ![o] = row(d, a)]
              /\ UNCHANGED <<partner, bill>>
        BY DEF Keys!UpdateFlight
    <1>2. /\ offer[o] \in Keys!OfferRow /\ Keys!Listed(o) /\ Keys!Known(p)
        BY <1>1, KindFacts DEF KeysInv, KeyRows, OfferHasPartner, Keys!Listed, Keys!Known
    <1>3. /\ row(d, a) \in Keys!OfferRow /\ row(d, a).kind \in Keys!Kind
          /\ row(d, a).partner \in Partner /\ Keys!Known(row(d, a).partner)
        BY <1>2, KindFacts DEF Keys!OfferRow
    <1> HIDE DEF row
    <1>4. QED
        BY <1>1, <1>3, OfferKeys

\* Every request on an offer keeps the keys.
LEMMA OfferStepKeys ==
    ASSUME KeysInv, NEW o \in Offer, NEW p \in Partner, Keys!OfferStep(o, p)
    PROVE  KeysInv'
    <1>1. ASSUME NEW kind \in Keys!Kind, Keys!AddOffer(o, kind, p, 0, 0) PROVE KeysInv'
        BY <1>1, AddOfferKeys
    <1>2. ASSUME NEW kind \in Keys!Kind, Keys!MoveOffer(o, kind, p) PROVE KeysInv'
        BY <1>2, MoveOfferKeys
    <1>3. ASSUME NEW kind \in Keys!Kind, Keys!RemoveOffer(o, kind) PROVE KeysInv'
        BY <1>3, RemoveOfferKeys
    <1>4. CASE Keys!RoomStep(o, p) \/ Keys!DeliveryVehicleStep(o, p) \/ Keys!TableStep(o, p)
        BY <1>1, <1>2, <1>3, <1>4, KindFacts
           DEF Keys!RoomStep, Keys!CreateRoom, Keys!UpdateRoom, Keys!RemoveRoom,
               Keys!DeliveryVehicleStep, Keys!CreateDeliveryVehicle, Keys!UpdateDeliveryVehicle,
               Keys!RemoveDeliveryVehicle, Keys!TableStep, Keys!CreateTable, Keys!UpdateTable, Keys!RemoveTable
    <1>5. CASE Keys!BusTypeStep(o, p) \/ Keys!TrainRouteStep(o, p)
        BY <1>1, <1>2, <1>3, <1>5, KindFacts
           DEF Keys!BusTypeStep, Keys!CreateBusType, Keys!UpdateBusType, Keys!RemoveBusType,
               Keys!TrainRouteStep, Keys!CreateTrainRoute, Keys!UpdateTrainRoute, Keys!RemoveTrainRoute
    <1>6. CASE Keys!FlightStep(o, p)
        <2>1. ASSUME NEW departs \in Time, NEW arrives \in Time,
                     Keys!CreateFlight(o, p, departs, arrives)
              PROVE  KeysInv'
            BY <2>1, KindFacts, AddOfferKeys DEF Keys!CreateFlight
        <2>2. QED
            BY <1>3, <1>6, <2>1, KindFacts, UpdateFlightKeys DEF Keys!FlightStep, Keys!RemoveFlight
    <1>7. QED
        BY <1>4, <1>5, <1>6 DEF Keys!OfferStep

\* Every request of the catalogue keeps the keys.
LEMMA NextKeys == KeysInv /\ [Keys!Next]_partners => KeysInv'
    <1> SUFFICES ASSUME KeysInv, [Keys!Next]_partners PROVE KeysInv'
        OBVIOUS
    <1>1. CASE UNCHANGED partners
        BY <1>1 DEF partners, KeysInv, KeyRows, OfferHasPartner, BillHasKeys, Keys!Listed, Keys!Known
    <1>2. QED
        BY <1>1, PartnerStepKeys, OfferStepKeys, BookKeys, RemoveBillKeys DEF Keys!Next

\* The keys hold in every state of the catalogue.
THEOREM KeysInvariant == CatalogueSpec => []KeysInv
    <1>1. KeysInv /\ [CatalogueNext]_<<scope, partners, vouchers, reviews, mappings>> => KeysInv'
        BY NextKeys DEF CatalogueNext
    <1>2. QED
        BY InitKeys, <1>1, PTL DEF CatalogueSpec, CatalogueInit

\* Whatever is moved and deleted, a bill can name its partner, and a bill of
\* a flight, a delivery or a table also what was bought.
THEOREM BillsAlwaysKeepTheirOffer == CatalogueSpec => []BillsKeepTheirOffer
    <1>1. KeysInv => BillsKeepTheirOffer
        BY DEF KeysInv, BillHasKeys, BillsKeepTheirOffer, Keys!BillsKeepTheirOffer
    <1>2. QED
        BY <1>1, KeysInvariant, PTL

-----------------------------------------------------------------------------
\* Vouchers.  Every save computes the flag of the day it happens on, and a
\* voucher that cannot be used on one day cannot be used on a later one
\* unless it is saved.

VouchersInv ==
    /\ voucher \in [VoucherId -> Codes!Row]
    /\ today \in 0 .. LastDay
    /\ Codes!NoUsableIsHidden

\* A row with its flag computed anew.
LEMMA RefreshedFacts ==
    ASSUME NEW row \in Codes!Row
    PROVE  /\ Codes!Refreshed(row) \in Codes!Row
           /\ Codes!Usable(Codes!Refreshed(row), today) => Codes!Refreshed(row).active
           /\ Codes!Refreshed(row).code = row.code
    BY DEF Codes!Refreshed, Codes!Row, Codes!Usable

\* Rows that are saved refreshed hide nothing.
LEMMA SaveVouchers ==
    ASSUME VouchersInv, UNCHANGED today,
           NEW saved, \A v \in VoucherId : saved[v] \in Codes!Row,
           voucher' = [v \in VoucherId |->
               IF voucher'[v] = voucher[v] THEN voucher[v] ELSE Codes!Refreshed(saved[v])]
    PROVE  VouchersInv'
    <1>1. ASSUME NEW v \in VoucherId
          PROVE  /\ voucher'[v] \in Codes!Row
                 /\ \/ voucher'[v] = voucher[v]
                    \/ Codes!Usable(voucher'[v], today) => voucher'[v].active
        BY RefreshedFacts DEF VouchersInv
    <1>2. voucher' \in [VoucherId -> Codes!Row]
        BY <1>1
    <1>3. Codes!NoUsableIsHidden'
        <2> SUFFICES ASSUME NEW v \in VoucherId, Codes!Exists(v)', Codes!Usable(voucher'[v], today)
                     PROVE  voucher'[v].active
            BY DEF Codes!NoUsableIsHidden, Codes!Usable
        <2>1. CASE voucher'[v] = voucher[v]
            BY <2>1 DEF VouchersInv, Codes!NoUsableIsHidden, Codes!Exists
        <2>2. CASE voucher'[v] # voucher[v]
            BY <1>1, <2>2
        <2>3. QED
            BY <2>1, <2>2
    <1>4. QED
        BY <1>2, <1>3 DEF VouchersInv

\* One row is saved.
LEMMA SaveVoucher ==
    ASSUME VouchersInv, UNCHANGED today, NEW v \in VoucherId, NEW row \in Codes!Row,
           voucher' = [voucher EXCEPT ![v] = Codes!Refreshed(row)]
    PROVE  VouchersInv'
    <1> DEFINE saved == [u \in VoucherId |-> row]
    <1>1. \A u \in VoucherId : saved[u] \in Codes!Row
        OBVIOUS
    <1>2. voucher' = [u \in VoucherId |->
              IF voucher'[u] = voucher[u] THEN voucher[u] ELSE Codes!Refreshed(saved[u])]
        <2>1. voucher \in [VoucherId -> Codes!Row]
            BY DEF VouchersInv
        <2>2. \A u \in VoucherId : saved[u] = row
            OBVIOUS
        <2> HIDE DEF saved
        <2>3. QED
            BY <2>1, <2>2
    <1> HIDE DEF saved
    <1>3. QED
        BY <1>1, <1>2, SaveVouchers

\* A new row takes the columns of the request.
LEMMA CreateVoucherStep ==
    ASSUME VouchersInv, NEW v \in VoucherId, NEW code \in Code, NEW dto \in Terms,
           Codes!Create(v, code, dto)
    PROVE  VouchersInv'
    <1> DEFINE new == [Codes!NoVoucher EXCEPT !.code = code]
               row == Codes!Assigned(new, dto, Codes!Field)
    <1>1. new \in Codes!Row
        <2>1. Codes!NoVoucher \in Codes!Row
            BY VouchersAssumption DEF Codes!NoVoucher, Codes!Row, Codes!Day, Codes!Never
        <2>2. QED
            BY <2>1 DEF Codes!Row
    <1> HIDE DEF new
    <1>2. row \in Codes!Row
        BY <1>1, VouchersAssumption DEF Codes!Row, Codes!Assigned, Codes!Field, Codes!Day, Codes!Never
    <1>3. voucher' = [voucher EXCEPT ![v] = Codes!Refreshed(row)] /\ UNCHANGED today
        BY DEF Codes!Create, new
    <1> HIDE DEF row
    <1>4. QED
        BY <1>2, <1>3, SaveVoucher

\* One column, or the code, is overwritten.
LEMMA UpdateVoucherStep ==
    ASSUME VouchersInv, NEW v \in VoucherId,
           \/ \E dto \in Terms, f \in Codes!Field : Codes!UpdateField(v, dto, f)
           \/ \E code \in Code : Codes!UpdateCode(v, code)
           \/ Codes!FindOne(v)
    PROVE  VouchersInv'
    <1>1. voucher[v] \in Codes!Row
        BY DEF VouchersInv
    <1>2. ASSUME NEW dto \in Terms, NEW f \in Codes!Field, Codes!UpdateField(v, dto, f)
          PROVE  VouchersInv'
        <2>1. Codes!Assigned(voucher[v], dto, {f}) \in Codes!Row
            BY <1>1, VouchersAssumption
               DEF Codes!Row, Codes!Assigned, Codes!Field, Codes!Day, Codes!Never
        <2>2. QED
            BY <1>2, <2>1, SaveVoucher DEF Codes!UpdateField
    <1>3. ASSUME NEW code \in Code, Codes!UpdateCode(v, code)
          PROVE  VouchersInv'
        <2>1. [voucher[v] EXCEPT !.code = code] \in Codes!Row
            BY <1>1 DEF Codes!Row
        <2>2. QED
            BY <1>3, <2>1, SaveVoucher DEF Codes!UpdateCode
    <1>4. CASE Codes!FindOne(v)
        BY <1>1, <1>4, SaveVoucher DEF Codes!FindOne
    <1>5. QED
        BY <1>2, <1>3, <1>4

\* A use is counted, or taken back.
LEMMA CountVoucherStep ==
    ASSUME VouchersInv, NEW v \in VoucherId, UNCHANGED today,
           Codes!IncrementUsage(v) \/ Codes!DecrementUsage(v)
    PROVE  VouchersInv'
    <1> DEFINE up == voucher[v].used + 1
               down == IF voucher[v].used - 1 < 0 THEN 0 ELSE voucher[v].used - 1
    <1>1. voucher[v] \in Codes!Row /\ voucher[v].used \in 0 .. MaxUsed
        BY DEF VouchersInv, Codes!Row
    <1>2. CASE Codes!IncrementUsage(v)
        <2>0. /\ (IF voucher[v].used + 1 < 0 THEN 0 ELSE voucher[v].used + 1) = up
              /\ up \in 0 .. MaxUsed
            BY <1>1, <1>2, VouchersAssumption DEF Codes!IncrementUsage
        <2>1. voucher' = [voucher EXCEPT ![v] =
                  Codes!Refreshed([voucher[v] EXCEPT !.used = up])]
            BY <1>2, <2>0 DEF Codes!IncrementUsage, Codes!Counted
        <2>2. [voucher[v] EXCEPT !.used = up] \in Codes!Row
            BY <1>1, <2>0 DEF Codes!Row
        <2>3. QED
            BY <2>1, <2>2, SaveVoucher
    <1>3. CASE Codes!DecrementUsage(v)
        <2>0. /\ (IF voucher[v].used + (-1) < 0 THEN 0 ELSE voucher[v].used + (-1)) = down
              /\ down \in 0 .. MaxUsed
            BY <1>1, <1>3, VouchersAssumption DEF Codes!DecrementUsage
        <2>1. voucher' = [voucher EXCEPT ![v] =
                  Codes!Refreshed([voucher[v] EXCEPT !.used = down])]
            BY <1>3, <2>0 DEF Codes!DecrementUsage, Codes!Counted
        <2>2. [voucher[v] EXCEPT !.used = down] \in Codes!Row
            BY <1>1, <2>0 DEF Codes!Row
        <2>3. QED
            BY <2>1, <2>2, SaveVoucher
    <1>4. QED
        BY <1>2, <1>3

\* findAll saves the rows that its query has found.
LEMMA FindVouchersStep ==
    ASSUME VouchersInv, NEW filter \in SUBSET BOOLEAN, Codes!FindAll(filter)
    PROVE  VouchersInv'
    <1>1. \A v \in VoucherId : voucher[v] \in Codes!Row
        BY DEF VouchersInv
    <1>2. /\ voucher' = [v \in VoucherId |-> IF v \in Codes!Queried(filter)
                                             THEN Codes!Refreshed(voucher[v]) ELSE voucher[v]]
          /\ UNCHANGED today
        BY DEF Codes!FindAll
    <1>3. voucher' = [v \in VoucherId |->
              IF voucher'[v] = voucher[v] THEN voucher[v] ELSE Codes!Refreshed(voucher[v])]
        BY <1>2
    <1>4. QED
        BY <1>1, <1>2, <1>3, SaveVouchers

\* A day later fewer can be used.
LEMMA NewDayStep ==
    ASSUME VouchersInv, Codes!NewDay
    PROVE  VouchersInv'
    <1>1. today' = today + 1 /\ today' \in 0 .. LastDay /\ voucher' = voucher /\ today \in Nat
        BY VouchersAssumption DEF VouchersInv, Codes!NewDay
    <1>2. ASSUME NEW v \in VoucherId, Codes!Usable(voucher[v], today')
          PROVE  Codes!Usable(voucher[v], today)
        <2>1. voucher[v].expiresAt \in Nat
            BY VouchersAssumption DEF VouchersInv, Codes!Row, Codes!Day, Codes!Never
        <2>2. QED
            BY <1>1, <1>2, <2>1 DEF Codes!Usable
    <1>3. QED
        BY <1>1, <1>2 DEF VouchersInv, Codes!NoUsableIsHidden, Codes!Exists, Codes!Usable

\* An inactive voucher cannot be used, on whatever day it was saved last.
THEOREM NoUsableIsEverHidden == CatalogueSpec => []NoUsableIsHidden
    <1>1. Codes!Init => VouchersInv
        BY VouchersAssumption
           DEF Codes!Init, VouchersInv, Codes!NoVoucher, Codes!Row, Codes!Day, Codes!Never,
               Codes!NoUsableIsHidden, Codes!Exists
    <1>2. ASSUME VouchersInv, Codes!Next PROVE VouchersInv'
        BY <1>2, CreateVoucherStep, UpdateVoucherStep, CountVoucherStep, FindVouchersStep,
           NewDayStep DEF Codes!Next
    <1>3. ASSUME VouchersInv, UNCHANGED vouchers PROVE VouchersInv'
        BY <1>3 DEF VouchersInv, vouchers, Codes!NoUsableIsHidden, Codes!Exists, Codes!Usable
    <1>4. VouchersInv /\ [CatalogueNext]_<<scope, partners, vouchers, reviews, mappings>>
              => VouchersInv'
        BY <1>2, <1>3 DEF CatalogueNext
    <1>5. VouchersInv => NoUsableIsHidden
        BY DEF VouchersInv, NoUsableIsHidden
    <1>6. QED
        BY <1>1, <1>4, <1>5, PTL DEF CatalogueSpec, CatalogueInit

-----------------------------------------------------------------------------
\* Reviews.  Every target that exists and is not torn either has the average
\* of its reviews already or is still on the list of a request, and what a
\* request has counted and not yet saved is what its target has by then.

StarsTyped ==
    /\ review \in [ReviewId -> [author : Member \cup {NoOne}, about : SUBSET Stars!Target,
                                star : Star \cup {0}]]
    /\ rating = [t \in Stars!Target |-> rating[t]]
    /\ total = [t \in Destination |-> total[t]]
    /\ alive \subseteq Stars!Target \cup Member
    /\ request \in [Worker -> [pc : {"idle", "count", "save"}, todo : SUBSET Stars!Target,
                               target : Stars!Target \cup {NoOne}, count : Nat, sum : Int]]

\* The columns of the target t say what its reviews say.
Follows(t) ==
    /\ rating[t] = Stars!Average(Cardinality(Stars!Reviews(t)), Stars!StarsOf(Stars!Reviews(t)))
    /\ t \in Destination => total[t] = Cardinality(Stars!Reviews(t))

\* So does what the request w has counted.
CountedNow(w, t) ==
    /\ request[w].count = Cardinality(Stars!Reviews(t))
    /\ request[w].sum = Stars!StarsOf(Stars!Reviews(t))

Served(t) ==
    /\ \A w \in Worker : request[w].pc = "save" /\ request[w].target = t => CountedNow(w, t)
    /\ Follows(t) \/ \E w \in Worker : t \in request[w].todo

StarsInv ==
    /\ StarsTyped
    /\ \A t \in (alive \cap Stars!Target) \ torn : Served(t)

\* The sum of the stars of the rows g is one of SumTheorems.tla.
LEMMA SumOfStars ==
    ASSUME NEW g, NEW S
    PROVE  Stars!MapThenSumSet(LAMBDA f : g[f].star, S) = SumOver([f \in S |-> g[f].star], S)
    <1> DEFINE A(h) == h = [s \in SUBSET S |-> IF s = {} THEN 0
                  ELSE g[CHOOSE x \in s : TRUE].star + h[s \ {CHOOSE x \in s : TRUE}]]
               d == [x \in S |-> g[x].star]
    <1>1. \A h : A(h) <=> IsSums(h, d, S)
        <2>1. \A s \in SUBSET S : s # {} => d[CHOOSE x \in s : TRUE] = g[CHOOSE x \in s : TRUE].star
            BY FirstFact DEF First
        <2> HIDE DEF d
        <2>2. QED
            BY <2>1 DEF IsSums, First
    <1>2. (CHOOSE h : A(h)) = (CHOOSE h : IsSums(h, d, S))
        <2> HIDE DEF A, d
        <2>1. QED
            BY <1>1
    <1>3. Stars!MapThenSumSet(LAMBDA f : g[f].star, S) = (CHOOSE h : A(h))[S]
        BY DEF Stars!MapThenSumSet, Stars!MapThenFoldSet, MapThenFoldSet
    <1>4. QED
        BY <1>2, <1>3, SumOverIsSums

\* Numbers of reviews and of stars are numbers.
LEMMA ReviewNumbers ==
    ASSUME StarsTyped, NEW t
    PROVE  /\ Cardinality(Stars!Reviews(t)) \in Nat
           /\ Stars!StarsOf(Stars!Reviews(t)) \in Int
    <1> DEFINE S == Stars!Reviews(t)
               d == [f \in S |-> review[f].star]
    <1>1. S \subseteq ReviewId
        BY DEF Stars!Reviews
    <1>2. IsFiniteSet(S)
        BY <1>1, FeedbackAssumption, FS_Subset
    <1>3. \A f \in S : d[f] \in Int
        BY <1>1, FeedbackAssumption DEF StarsTyped
    <1>4. Stars!StarsOf(S) = SumOver(d, S)
        BY SumOfStars DEF Stars!StarsOf
    <1> HIDE DEF S, d
    <1>5. SumOver(d, S) \in Int
        BY <1>2, <1>3, SumType
    <1>6. QED
        BY <1>2, <1>4, <1>5, FS_CardinalityType DEF S

\* A step changes no review of t.
KeepsReviews(t) ==
    \A f \in ReviewId :
        /\ (review'[f].star > 0 /\ t \in review'[f].about)
               <=> (review[f].star > 0 /\ t \in review[f].about)
        /\ review[f].star > 0 /\ t \in review[f].about => review'[f].star = review[f].star

\* It leaves the numbers of t alone.
LEMMA SameReviews ==
    ASSUME NEW t, KeepsReviews(t)
    PROVE  /\ Stars!Reviews(t)' = Stars!Reviews(t)
           /\ Stars!StarsOf(Stars!Reviews(t))' = Stars!StarsOf(Stars!Reviews(t))
    <1> DEFINE S == Stars!Reviews(t)
    <1>1. Stars!Reviews(t)' = S
        BY DEF KeepsReviews, Stars!Reviews, Stars!Written
    <1>2. /\ S \subseteq ReviewId
          /\ \A f \in S : review'[f].star = review[f].star
        BY DEF KeepsReviews, Stars!Reviews, Stars!Written
    <1>3. [f \in S |-> review'[f].star] = [f \in S |-> review[f].star]
        BY <1>2
    <1>4. Stars!StarsOf(S) = SumOver([f \in S |-> review[f].star], S)
        BY SumOfStars DEF Stars!StarsOf
    <1>5. Stars!StarsOf(Stars!Reviews(t))' = Stars!MapThenSumSet(LAMBDA f : review'[f].star, Stars!Reviews(t)')
        BY DEF Stars!StarsOf, Stars!MapThenSumSet, Stars!MapThenFoldSet, MapThenFoldSet
    <1>6. Stars!MapThenSumSet(LAMBDA f : review'[f].star, S) = SumOver([f \in S |-> review'[f].star], S)
        BY SumOfStars
    <1>7. QED
        BY <1>1, <1>3, <1>4, <1>5, <1>6

\* The columns of t then still follow when they are left alone too.
LEMMA SameColumns ==
    ASSUME NEW t, KeepsReviews(t), rating'[t] = rating[t],
           t \in Destination => total'[t] = total[t]
    PROVE  Follows(t)' <=> Follows(t)
    <1> DEFINE n == Cardinality(Stars!Reviews(t))
               s == Stars!StarsOf(Stars!Reviews(t))
    <1>1. Cardinality(Stars!Reviews(t)') = n /\ (Stars!StarsOf(Stars!Reviews(t)))' = s
        BY SameReviews
    <1>2. Follows(t)' <=> /\ rating'[t] = Stars!Average(n, s)
                          /\ t \in Destination => total'[t] = n
        BY <1>1 DEF Follows, Stars!Average
    <1>3. QED
        BY <1>2 DEF Follows

\* What is done to the reviews and the columns besides the requests.
LEMMA OtherServices ==
    ASSUME StarsInv, StarsTyped', alive' \subseteq alive, UNCHANGED request,
           \A t \in (alive' \cap Stars!Target) \ torn' :
               /\ t \notin torn /\ KeepsReviews(t)
               /\ rating'[t] = rating[t] /\ (t \in Destination => total'[t] = total[t])
    PROVE  StarsInv'
    <1>1. ASSUME NEW t \in (alive' \cap Stars!Target) \ torn'
          PROVE  Served(t)'
        <2>1. Served(t) /\ KeepsReviews(t)
            BY <1>1 DEF StarsInv
        <2>2. Follows(t)' <=> Follows(t)
            BY SameColumns
        <2>3. ASSUME NEW w \in Worker, CountedNow(w, t) PROVE CountedNow(w, t)'
            BY <2>1, <2>3, SameReviews DEF CountedNow
        <2>4. QED
            BY <2>1, <2>2, <2>3 DEF Served
    <1>2. Stars!Target' = Stars!Target
        BY DEF Stars!Target
    <1>3. QED
        BY <1>1, <1>2 DEF StarsInv

\* The rows of the targets and of the users are apart.
LEMMA RowsApart ==
    /\ Destination \subseteq Stars!Target /\ Tour \subseteq Stars!Target
    /\ Cooperation \subseteq Stars!Target
    /\ Member \cap Stars!Target = {}
    BY FeedbackAssumption DEF Stars!Target

\* A removed row can be reviewed no more; the other targets of the reviews
\* that go with a route are torn.
LEMMA RemovalStars ==
    ASSUME StarsInv, NEW t \in alive,
           Stars!RemoveRoute(t) \/ Stars!RemoveTarget(t) \/ Stars!RemoveAuthor(t)
    PROVE  StarsInv'
    <1>1. CASE Stars!RemoveRoute(t)
        <2>1. /\ alive' = alive \ {t} /\ UNCHANGED <<rating, total, request>>
              /\ torn' = torn \cup UNION {review[f].about : f \in Stars!Reviews(t)}
              /\ review' = [f \in ReviewId |->
                     IF f \in Stars!Reviews(t) THEN Stars!NoReview ELSE review[f]]
            BY <1>1 DEF Stars!RemoveRoute, Stars!Without
        <2>2. Stars!NoReview \in [author : Member \cup {NoOne}, about : SUBSET Stars!Target,
                                  star : Star \cup {0}]
            BY DEF Stars!NoReview
        <2>3. StarsTyped'
            BY <2>1, <2>2 DEF StarsInv, StarsTyped, Stars!Target
        <2>4. ASSUME NEW q, q \notin torn'
              PROVE  KeepsReviews(q)
            <3>1. \A f \in Stars!Reviews(t) : f \in ReviewId /\ q \notin review[f].about
                BY <2>1, <2>4 DEF Stars!Reviews
            <3>2. ~(Stars!NoReview.star > 0)
                BY DEF Stars!NoReview
            <3>3. QED
                BY <2>1, <3>1, <3>2 DEF KeepsReviews
        <2>5. QED
            BY <2>1, <2>3, <2>4, OtherServices
    <1>2. CASE Stars!RemoveTarget(t)
        <2>1. /\ alive' = alive \ {t} /\ UNCHANGED <<rating, total, request, torn>>
              /\ review' = [f \in ReviewId |->
                     [review[f] EXCEPT !.about = review[f].about \ {t}]]
            BY <1>2 DEF Stars!RemoveTarget
        <2>2. StarsTyped'
            BY <2>1 DEF StarsInv, StarsTyped, Stars!Target
        <2>3. ASSUME NEW q \in alive' PROVE KeepsReviews(q)
            BY <2>1, <2>3 DEF KeepsReviews, StarsInv, StarsTyped
        <2>4. QED
            BY <2>1, <2>2, <2>3, OtherServices
    <1>3. CASE Stars!RemoveAuthor(t)
        <2>1. /\ alive' = alive \ {t} /\ UNCHANGED <<rating, total, request, torn>>
              /\ review' = [f \in ReviewId |->
                     IF review[f].author = t THEN [review[f] EXCEPT !.author = NoOne]
                     ELSE review[f]]
            BY <1>3 DEF Stars!RemoveAuthor
        <2>2. StarsTyped'
            BY <2>1 DEF StarsInv, StarsTyped, Stars!Target
        <2>3. ASSUME NEW q PROVE KeepsReviews(q)
            BY <2>1, <2>3 DEF KeepsReviews, StarsInv, StarsTyped
        <2>4. QED
            BY <2>1, <2>2, <2>3, OtherServices
    <1>4. QED
        BY <1>1, <1>2, <1>3

\* What an administrator writes is torn.
LEMMA AdministratorStars ==
    ASSUME StarsInv, NEW d \in Destination, Stars!UpdateDestination(d, 500, 1)
    PROVE  StarsInv'
    <1>1. /\ rating' = [rating EXCEPT ![d] = 500] /\ total' = [total EXCEPT ![d] = 1]
          /\ torn' = torn \cup {d} /\ UNCHANGED <<review, alive, request>>
        BY DEF Stars!UpdateDestination
    <1>2. StarsTyped'
        BY <1>1 DEF StarsInv, StarsTyped, Stars!Target
    <1>3. ASSUME NEW t \in (alive' \cap Stars!Target) \ torn'
          PROVE  /\ t \notin torn /\ KeepsReviews(t)
                 /\ rating'[t] = rating[t] /\ (t \in Destination => total'[t] = total[t])
        BY <1>1, <1>3 DEF StarsInv, StarsTyped, KeepsReviews
    <1>4. QED
        BY <1>1, <1>2, <1>3, OtherServices

\* One request is served at a time.
OneWorker == \A w, x \in Worker : w = x

\* The request that has the targets T left to count.
LEMMA CountingFacts ==
    ASSUME StarsTyped, NEW w \in Worker, NEW T \in SUBSET Stars!Target, Stars!Counting(w, T)
    PROVE  /\ request' \in [Worker -> [pc : {"idle", "count", "save"}, todo : SUBSET Stars!Target,
                               target : Stars!Target \cup {NoOne}, count : Nat, sum : Int]]
           /\ request'[w].todo = T /\ request'[w].pc # "save"
    <1> DEFINE R == [pc : {"idle", "count", "save"}, todo : SUBSET Stars!Target,
                     target : Stars!Target \cup {NoOne}, count : Nat, sum : Int]
               next == IF T = {} THEN Stars!Idle
                       ELSE [Stars!Idle EXCEPT !.pc = "count", !.todo = T]
    <1>1. next \in R /\ next.todo = T /\ next.pc # "save"
        <2>1. Stars!Idle \in R /\ Stars!Idle.todo = {} /\ Stars!Idle.pc = "idle"
            BY DEF Stars!Idle
        <2>2. QED
            BY <2>1
    <1>2. request' = [request EXCEPT ![w] = next]
        BY DEF Stars!Counting
    <1>3. request \in [Worker -> R]
        BY DEF StarsTyped
    <1> HIDE DEF next, R
    <1>4. request' \in [Worker -> R] /\ request'[w] = next
        BY <1>1, <1>2, <1>3
    <1>5. QED
        BY <1>1, <1>4 DEF R

\* create and remove list the targets of the review, all but the partner of
\* one that is removed.
LEMMA ReviewStars ==
    ASSUME StarsInv, OneWorker, NEW w \in Worker, NEW f \in ReviewId,
           NEW row \in [author : Member \cup {NoOne}, about : SUBSET Stars!Target,
                        star : Star \cup {0}],
           NEW T \in SUBSET Stars!Target,
           request[w] = Stars!Idle, Stars!Counting(w, T),
           review' = [review EXCEPT ![f] = row],
           UNCHANGED <<rating, total, alive>>, torn \subseteq torn',
           \A t \in Stars!Target \ (T \cup torn') :
               /\ ~(row.star > 0 /\ t \in row.about)
               /\ ~(review[f].star > 0 /\ t \in review[f].about)
    PROVE  StarsInv'
    <1>1. /\ StarsTyped' /\ request'[w].todo = T /\ request'[w].pc # "save"
          /\ review'[f] = row /\ \A g \in ReviewId \ {f} : review'[g] = review[g]
        BY CountingFacts DEF StarsInv, StarsTyped, Stars!Target
    <1>2. ASSUME NEW t \in (alive' \cap Stars!Target) \ torn'
          PROVE  Served(t)'
        <2>1. Served(t)
            BY <1>2 DEF StarsInv
        <2>2. \A x \in Worker : x = w /\ request[x].todo = {}
            BY DEF OneWorker, Stars!Idle
        <2>3. Follows(t)
            BY <2>1, <2>2 DEF Served
        <2>4. CASE t \in T
            BY <1>1, <2>2, <2>4 DEF Served
        <2>5. CASE t \notin T
            <3>1. KeepsReviews(t)
                BY <1>1, <1>2, <2>5 DEF KeepsReviews
            <3>2. Follows(t)'
                BY <2>3, <3>1, SameColumns
            <3>3. QED
                BY <1>1, <2>2, <3>2 DEF Served
        <2>6. QED
            BY <2>4, <2>5
    <1>3. Stars!Target' = Stars!Target
        BY DEF Stars!Target
    <1>4. QED
        BY <1>1, <1>2, <1>3 DEF StarsInv

\* A review is written, or goes.
LEMMA CreateStars ==
    ASSUME StarsInv, OneWorker, NEW w \in Worker, NEW f \in ReviewId, NEW u \in Member,
           NEW T \in Stars!Nameable, NEW star \in Star, Stars!Create(w, f, u, T, star)
    PROVE  StarsInv'
    <1> DEFINE row == [author |-> u, about |-> T, star |-> star]
    <1>1. T \in SUBSET Stars!Target
        BY DEF Stars!Nameable
    <1>2. row \in [author : Member \cup {NoOne}, about : SUBSET Stars!Target,
                   star : Star \cup {0}]
        BY <1>1
    <1>3. /\ request[w] = Stars!Idle /\ Stars!Counting(w, T)
          /\ review' = [review EXCEPT ![f] = row] /\ ~(review[f].star > 0)
          /\ UNCHANGED <<rating, total, alive, torn>> /\ row.about = T
        BY DEF Stars!Create, Stars!Written
    <1> HIDE DEF row
    <1>4. QED
        BY <1>1, <1>2, <1>3, ReviewStars

\* remove does not count the partner anew.
LEMMA RemoveStars ==
    ASSUME StarsInv, OneWorker, NEW w \in Worker, NEW f \in ReviewId, Stars!Remove(w, f)
    PROVE  StarsInv'
    <1> DEFINE T == review[f].about \ Cooperation
    <1>1. /\ review \in [ReviewId -> [author : Member \cup {NoOne}, about : SUBSET Stars!Target,
                                     star : Star \cup {0}]]
          /\ T \in SUBSET Stars!Target
        BY DEF StarsInv, StarsTyped
    <1>2. /\ Stars!NoReview \in [author : Member \cup {NoOne}, about : SUBSET Stars!Target,
                                 star : Star \cup {0}]
          /\ Stars!NoReview.about = {}
        BY DEF Stars!NoReview
    <1>3. /\ request[w] = Stars!Idle /\ Stars!Counting(w, T)
          /\ review' = [g \in ReviewId |-> IF g \in {f} THEN Stars!NoReview ELSE review[g]]
          /\ UNCHANGED <<rating, total, alive>>
          /\ torn' = torn \cup (review[f].about \cap Cooperation)
        BY DEF Stars!Remove, Stars!Without
    <1>4. review' = [review EXCEPT ![f] = Stars!NoReview]
        BY <1>1, <1>3
    <1>5. \A t \in Stars!Target \ (T \cup torn') : t \notin review[f].about
        BY <1>3
    <1> HIDE DEF T
    <1>6. QED
        BY <1>1, <1>2, <1>3, <1>4, <1>5, ReviewStars

\* The number of elements is the same in the instance.
LEMMA CardinalityAgrees == \A S : Stars!Cardinality(S) = Cardinality(S)
    BY DEF Stars!Cardinality, Cardinality

\* The aggregation of one target.
LEMMA CountStars ==
    ASSUME StarsInv, OneWorker, NEW w \in Worker, Stars!Count(w)
    PROVE  StarsInv'
    <1>1. PICK t \in request[w].todo :
              /\ request[w].pc = "count"
              /\ request' = [request EXCEPT ![w].pc = "save", ![w].target = t,
                                ![w].count = Cardinality(Stars!Reviews(t)),
                                ![w].sum = Stars!StarsOf(Stars!Reviews(t))]
              /\ torn' = torn \ {t} /\ UNCHANGED <<review, rating, total, alive>>
        BY CardinalityAgrees DEF Stars!Count
    <1>2. t \in Stars!Target
        BY DEF StarsInv, StarsTyped
    <1>3. /\ StarsTyped'
          /\ request'[w].todo = request[w].todo /\ request'[w].pc = "save"
          /\ request'[w].target = t
          /\ request'[w].count = Cardinality(Stars!Reviews(t))
          /\ request'[w].sum = Stars!StarsOf(Stars!Reviews(t))
        <2> DEFINE n == Cardinality(Stars!Reviews(t))
                   s == Stars!StarsOf(Stars!Reviews(t))
        <2>1. n \in Nat /\ s \in Int
            BY ReviewNumbers DEF StarsInv
        <2>2. request' = [request EXCEPT ![w].pc = "save", ![w].target = t,
                             ![w].count = n, ![w].sum = s]
            BY <1>1
        <2> HIDE DEF n, s
        <2>3. /\ request' \in [Worker -> [pc : {"idle", "count", "save"},
                                 todo : SUBSET Stars!Target, target : Stars!Target \cup {NoOne},
                                 count : Nat, sum : Int]]
              /\ request'[w].todo = request[w].todo /\ request'[w].pc = "save"
              /\ request'[w].target = t /\ request'[w].count = n /\ request'[w].sum = s
            BY <1>2, <2>1, <2>2 DEF StarsInv, StarsTyped
        <2>4. QED
            BY <1>1, <2>3 DEF StarsInv, StarsTyped, Stars!Target, n, s
    <1>4. ASSUME NEW q \in (alive' \cap Stars!Target) \ torn'
          PROVE  Served(q)'
        <2>1. KeepsReviews(q)
            BY <1>1 DEF KeepsReviews
        <2>2. Follows(q)' <=> Follows(q)
            BY <1>1, <2>1, SameColumns
        <2>3. \A x \in Worker : x = w
            BY DEF OneWorker
        <2>4. CASE q = t
            <3>1. CountedNow(w, q)'
                BY <1>3, <2>1, <2>4, SameReviews DEF CountedNow
            <3>2. QED
                BY <1>1, <1>3, <2>3, <2>4, <3>1 DEF Served
        <2>5. CASE q # t
            <3>1. Served(q)
                BY <1>1, <1>4, <2>5 DEF StarsInv
            <3>2. QED
                BY <1>3, <2>2, <2>3, <2>5, <3>1 DEF Served
        <2>6. QED
            BY <2>4, <2>5
    <1>5. Stars!Target' = Stars!Target
        BY DEF Stars!Target
    <1>6. QED
        BY <1>3, <1>4, <1>5 DEF StarsInv

\* The save of what was counted.
LEMMA SaveStars ==
    ASSUME StarsInv, OneWorker, NEW w \in Worker, Stars!SaveRating(w)
    PROVE  StarsInv'
    <1> DEFINE t == request[w].target
               stars == Stars!Average(request[w].count, request[w].sum)
    <1>1. /\ request[w].pc = "save"
          /\ rating' = IF t \in alive THEN [rating EXCEPT ![t] = stars] ELSE rating
          /\ total' = IF t \in alive \cap Destination
                      THEN [total EXCEPT ![t] = request[w].count] ELSE total
          /\ Stars!Counting(w, request[w].todo \ {t})
          /\ UNCHANGED <<review, alive, torn>>
        BY DEF Stars!SaveRating
    <1>2. request[w].todo \in SUBSET Stars!Target
        BY DEF StarsInv, StarsTyped
    <1>3. /\ request' \in [Worker -> [pc : {"idle", "count", "save"}, todo : SUBSET Stars!Target,
                              target : Stars!Target \cup {NoOne}, count : Nat, sum : Int]]
          /\ request'[w].todo = request[w].todo \ {t} /\ request'[w].pc # "save"
        <2>1. request[w].todo \ {t} \in SUBSET Stars!Target
            BY <1>2
        <2>2. QED
            BY <1>1, <2>1, CountingFacts DEF StarsInv
    <1> HIDE DEF t, stars
    <1>4. StarsTyped'
        BY <1>1, <1>3 DEF StarsInv, StarsTyped, Stars!Target
    <1>5. ASSUME NEW q \in (alive' \cap Stars!Target) \ torn'
          PROVE  Served(q)'
        <2>1. Served(q) /\ KeepsReviews(q)
            BY <1>1, <1>5 DEF StarsInv, KeepsReviews
        <2>2. \A x \in Worker : x = w
            BY DEF OneWorker
        <2>3. CASE q = t
            <3>1. CountedNow(w, q)
                BY <1>1, <2>1, <2>3 DEF Served, t
            <3>2. /\ rating'[q] = stars
                  /\ q \in Destination => total'[q] = request[w].count
                BY <1>1, <1>5, <2>3 DEF StarsInv, StarsTyped
            <3>3. Cardinality(Stars!Reviews(q)') = request[w].count
                  /\ (Stars!StarsOf(Stars!Reviews(q)))' = request[w].sum
                BY <2>1, <3>1, SameReviews DEF CountedNow
            <3>4. Follows(q)' <=>
                      /\ rating'[q] = Stars!Average(Cardinality(Stars!Reviews(q)'),
                                                    (Stars!StarsOf(Stars!Reviews(q)))')
                      /\ q \in Destination => total'[q] = Cardinality(Stars!Reviews(q)')
                BY DEF Follows, Stars!Average
            <3>5. Follows(q)'
                BY <3>2, <3>3, <3>4 DEF stars
            <3>6. QED
                BY <1>3, <2>2, <3>5 DEF Served
        <2>4. CASE q # t
            <3>1. rating'[q] = rating[q] /\ (q \in Destination => total'[q] = total[q])
                BY <1>1, <1>5, <2>4 DEF StarsInv, StarsTyped
            <3>2. Follows(q)' <=> Follows(q)
                BY <2>1, <3>1, SameColumns
            <3>3. QED
                BY <1>3, <2>1, <2>2, <2>4, <3>2 DEF Served
        <2>5. QED
            BY <2>3, <2>4
    <1>6. Stars!Target' = Stars!Target
        BY DEF Stars!Target
    <1>7. QED
        BY <1>4, <1>5, <1>6 DEF StarsInv

\* What a failing request has not counted is torn.
LEMMA FailStars ==
    ASSUME StarsInv, OneWorker, NEW w \in Worker, Stars!Fail(w)
    PROVE  StarsInv'
    <1>1. /\ request' = [request EXCEPT ![w] = Stars!Idle]
          /\ torn' = torn \cup request[w].todo /\ UNCHANGED <<review, rating, total, alive>>
        BY DEF Stars!Fail
    <1>2. StarsTyped' /\ request'[w].pc # "save"
        BY <1>1 DEF StarsInv, StarsTyped, Stars!Idle, Stars!Target
    <1>3. ASSUME NEW t \in (alive' \cap Stars!Target) \ torn'
          PROVE  Served(t)'
        <2>1. Served(t) /\ KeepsReviews(t) /\ t \notin request[w].todo
            BY <1>1, <1>3 DEF StarsInv, KeepsReviews
        <2>2. \A x \in Worker : x = w
            BY DEF OneWorker
        <2>3. Follows(t)'
            BY <1>1, <2>1, <2>2, SameColumns DEF Served
        <2>4. QED
            BY <1>2, <2>2, <2>3 DEF Served
    <1>4. Stars!Target' = Stars!Target
        BY DEF Stars!Target
    <1>5. QED
        BY <1>2, <1>3, <1>4 DEF StarsInv

\* No reviews, no stars.
LEMMA InitStars == Stars!Init => StarsInv
    <1> SUFFICES ASSUME Stars!Init PROVE StarsInv
        OBVIOUS
    <1>1. StarsTyped /\ \A w \in Worker : request[w].pc = "idle"
        BY DEF Stars!Init, StarsTyped, Stars!NoReview, Stars!Idle
    <1>2. ASSUME NEW t \in Stars!Target PROVE Follows(t)
        <2>1. Stars!Reviews(t) = {}
            BY DEF Stars!Init, Stars!Reviews, Stars!NoReview, Stars!Written
        <2>2. Cardinality(Stars!Reviews(t)) = 0
            BY <2>1, FS_EmptySet
        <2>3. Stars!Average(0, Stars!StarsOf(Stars!Reviews(t))) = 0
            BY DEF Stars!Average
        <2>4. QED
            BY <2>2, <2>3 DEF Stars!Init, Follows
    <1>3. QED
        BY <1>1, <1>2 DEF StarsInv, Served

\* Every request on reviews, one at a time, and all that others do to them.
LEMMA NextStars == OneWorker /\ StarsInv /\ [Stars!Next]_reviews => StarsInv'
    <1> SUFFICES ASSUME OneWorker, StarsInv, [Stars!Next]_reviews PROVE StarsInv'
        OBVIOUS
    <1>1. CASE UNCHANGED reviews
        <2>1. StarsTyped' /\ \A t : KeepsReviews(t)
            BY <1>1 DEF reviews, StarsInv, StarsTyped, Stars!Target, KeepsReviews
        <2>2. QED
            BY <1>1, <2>1, OtherServices DEF reviews
    <1>2. QED
        BY <1>1, CreateStars, RemoveStars, CountStars, SaveStars, FailStars, RemovalStars,
           AdministratorStars DEF Stars!Next

\* The averages follow the reviews when the requests are served one at a
\* time: with two of them, the one that counted first may save last.
THEOREM RatingsAlwaysFollow == OneWorker => (CatalogueSpec => []RatingsFollow)
    <1> SUFFICES ASSUME OneWorker PROVE CatalogueSpec => []RatingsFollow
        OBVIOUS
    <1>1. CatalogueInit => StarsInv
        BY InitStars DEF CatalogueInit
    <1>2. StarsInv /\ [CatalogueNext]_<<scope, partners, vouchers, reviews, mappings>> => StarsInv'
        BY NextStars DEF CatalogueNext
    <1>3. StarsInv => RatingsFollow
        BY CardinalityAgrees
           DEF StarsInv, Served, Follows, RatingsFollow, Stars!RatingsFollow, Stars!Idle
    <1>4. QED
        BY <1>1, <1>2, <1>3, PTL DEF CatalogueSpec

-----------------------------------------------------------------------------
\* The mapping of units.  First the filters: whatever the hint, the context and
\* the order of the names make of the candidates, a unit that the text decides
\* on is not lost among them and no other is kept.

\* The names that clauses merge.
Spoken == UNION {{c.from[i] : i \in DOMAIN c.from} : c \in Clause}

\* Filters that give way take away and never leave nothing.
LEMMA NarrowedFacts ==
    ASSUME NEW ws, NEW fitting
    PROVE  /\ Mapping!Narrowed(ws, fitting) \subseteq ws
           /\ ws # {} => Mapping!Narrowed(ws, fitting) # {}
    BY DEF Mapping!Narrowed

LEMMA ContextFacts ==
    ASSUME NEW ws, NEW context, NEW hint
    PROVE  /\ Mapping!NarrowedByContext(ws, context, hint) \subseteq ws
           /\ ws # {} => Mapping!NarrowedByContext(ws, context, hint) # {}
    BY NarrowedFacts, Zenon DEF Mapping!NarrowedByContext

LEMMA InContextFacts ==
    ASSUME NEW ws
    PROVE  /\ Mapping!InContext(ws) \subseteq ws
           /\ ws # {} => Mapping!InContext(ws) # {}
    <1> DEFINE preferred == Mapping!Narrowed(ws, {w \in ws : w.province \in recent})
               hinted == Mapping!Narrowed(preferred, {w \in preferred : w.province = LegacyHint})
               near == Mapping!NarrowedByContext(hinted,
                           {r.ward : r \in Mapping!Range(records)}, LegacyHint)
    <1>1. preferred \subseteq ws /\ (ws # {} => preferred # {})
        BY NarrowedFacts
    <1>2. hinted \subseteq preferred /\ (preferred # {} => hinted # {})
        BY NarrowedFacts
    <1>3. near \subseteq hinted /\ (hinted # {} => near # {})
        BY ContextFacts
    <1>4. Mapping!InContext(ws) = Mapping!NarrowedByContext(near, global, LegacyHint)
        BY DEF Mapping!InContext
    <1> HIDE DEF preferred, hinted, near
    <1>5. /\ Mapping!NarrowedByContext(near, global, LegacyHint) \subseteq near
          /\ near # {} => Mapping!NarrowedByContext(near, global, LegacyHint) # {}
        BY ContextFacts
    <1>. QED
        BY <1>1, <1>2, <1>3, <1>4, <1>5

\* filterCandidates prefers those whose parent matches.
LEMMA FilterFacts ==
    ASSUME NEW ws, NEW s
    PROVE  LET typed == Mapping!Typed(ws, s)
               fitting == {w \in typed : Mapping!ParentMatches(w, s)}
           IN  /\ Mapping!FilterCandidates(ws, s) \subseteq typed
               /\ typed # {} => Mapping!FilterCandidates(ws, s) # {}
               /\ fitting # {} => Mapping!FilterCandidates(ws, s) \subseteq fitting
    <1> DEFINE typed == Mapping!Typed(ws, s)
               fitting == {w \in typed : Mapping!ParentMatches(w, s)}
               kept == Mapping!Narrowed(typed, fitting)
    <1>1. Mapping!FilterCandidates(ws, s) = Mapping!InContext(kept)
        BY DEF Mapping!FilterCandidates
    <1>2. /\ kept \subseteq typed /\ (typed # {} => kept # {})
          /\ fitting # {} => kept \subseteq fitting
        <2> HIDE DEF typed
        <2>1. QED
            BY DEF Mapping!Narrowed
    <1> HIDE DEF typed, fitting, kept
    <1>3. Mapping!InContext(kept) \subseteq kept /\ (kept # {} => Mapping!InContext(kept) # {})
        BY InContextFacts
    <1>4. /\ Mapping!FilterCandidates(ws, s) \subseteq typed
          /\ typed # {} => Mapping!FilterCandidates(ws, s) # {}
          /\ fitting # {} => Mapping!FilterCandidates(ws, s) \subseteq fitting
        BY <1>1, <1>2, <1>3
    <1>. QED
        BY <1>4 DEF typed, fitting

\* A list keeps what the hint does not rule out.
LEMMA CollectedFacts ==
    ASSUME NEW ws, NEW hint
    PROVE  /\ Mapping!Collected(ws, hint) \subseteq ws
           /\ ws # {} => Mapping!Collected(ws, hint) # {}
           /\ \A w \in ws : (hint = NoOne \/ w.province = hint \/ \A x \in ws : x.province # hint)
                                => w \in Mapping!Collected(ws, hint)
    BY DEF Mapping!Collected, Mapping!Narrowed

\* Every list that is looked into has units of the name only.
LEMMA ListsFacts ==
    ASSUME NEW s, NEW W, NEW hint, \A w \in W : w.spelling = s.spelling => w.name = s.name
    PROVE  /\ Mapping!Collected(Mapping!ByExactName(W, s), hint) \subseteq Mapping!ByName(W, s)
           /\ Mapping!Direct(W, s, hint) \subseteq Mapping!ByName(W, s)
           /\ Mapping!Indirect(W, s, hint) \subseteq Mapping!ByName(W, s)
           /\ Mapping!All(W, s, hint) = Mapping!Direct(W, s, hint) \cup Mapping!Indirect(W, s, hint)
    <1>1. /\ Mapping!ByExactName(W, s) \subseteq Mapping!ByName(W, s)
          /\ Mapping!ByDistrictName(W, s) \subseteq Mapping!ByName(W, s)
          /\ Mapping!ByFullName(W, s) \subseteq Mapping!ByName(W, s)
        BY DEF Mapping!ByExactName, Mapping!ByName, Mapping!ByDistrictName, Mapping!ByFullName
    <1>2. \A ws : Mapping!Collected(ws, hint) \subseteq ws
        BY CollectedFacts
    <1>3. /\ Mapping!Collected(Mapping!ByExactName(W, s), hint) \subseteq Mapping!ByExactName(W, s)
          /\ Mapping!Collected(Mapping!ByDistrictName(W, s), hint) \subseteq Mapping!ByDistrictName(W, s)
          /\ Mapping!Collected(Mapping!ByFullName(W, s), hint) \subseteq Mapping!ByFullName(W, s)
          /\ Mapping!Collected(Mapping!ByName(W, s), hint) \subseteq Mapping!ByName(W, s)
        BY <1>2, Zenon
    <1>. QED
        BY <1>1, <1>3 DEF Mapping!Direct, Mapping!Indirect, Mapping!All

LEMMA SpokenFacts ==
    ASSUME NEW s \in Spoken
    PROVE  \A w \in Legacy : w.spelling = s.spelling => w.name = s.name
    <1>1. PICK c \in Clause : \E i \in DOMAIN c.from : s = c.from[i]
        BY DEF Spoken
    <1>. QED
        BY <1>1, MappingAssumption

LEMMA SameCount == \A S : Mapping!Cardinality(S) = Cardinality(S)
    BY DEF Mapping!Cardinality, Cardinality

\* The cardinality of candidates is one when there is one.
LEMMA OnlyOne ==
    ASSUME NEW W, IsFiniteSet(W), NEW ws, ws \subseteq W
    PROVE  Mapping!Cardinality(ws) = 1 <=> \E w : ws = {w}
    BY SameCount, FS_Subset, FS_Singleton

\* The one unit that a text with a district describes is in a list looked into
\* first, unless the hint overrules it.
LEMMA Reached ==
    ASSUME NEW s, NEW w, Mapping!Described(Legacy, s) = {w},
           s.parent # NoOne, s.parent \notin Mapping!Provinces(Legacy), ~Mapping!Overruled(s)
    PROVE  w \in Mapping!Direct(Legacy, s, LegacyHint)
    <1> DEFINE ws == Mapping!ByDistrictName(Legacy, s)
    <1>1. w \in Legacy /\ w \in Mapping!ByName(Legacy, s) /\ Mapping!ParentMatches(w, s)
        BY DEF Mapping!Described, Mapping!Typed, Mapping!ByName
    <1>2. w.districtName = s.parent
        BY <1>1 DEF Mapping!ParentMatches, Mapping!Provinces
    <1>3. w \in ws
        BY <1>1, <1>2 DEF Mapping!ByDistrictName
    <1>4. w.province = LegacyHint \/ \A x \in ws : x.province # LegacyHint
        BY DEF Mapping!Overruled
    <1> HIDE DEF ws
    <1>5. w \in Mapping!Collected(ws, LegacyHint)
        BY <1>3, <1>4, CollectedFacts
    <1>. QED
        BY <1>5 DEF Mapping!Direct, ws

\* The one unit of a name, and of the kind if the text says it, is found.
LEMMA NamedFound ==
    ASSUME NEW s, NEW w, Mapping!Named(Legacy, s) = {w}
    PROVE  w \in Mapping!All(Legacy, s, LegacyHint)
    <1>1. w \in Mapping!ByName(Legacy, s) /\ s.kind \in {NoOne, w.kind}
        BY DEF Mapping!Named, Mapping!Typed
    <1>2. CASE s.kind = NoOne
        <2>1. Mapping!ByName(Legacy, s) = {w}
            BY <1>2 DEF Mapping!Named, Mapping!Typed
        <2>2. w \in Mapping!Collected(Mapping!ByName(Legacy, s), LegacyHint)
            BY <2>1, CollectedFacts
        <2>3. QED
            BY <2>2 DEF Mapping!All, Mapping!Indirect
    <1>3. CASE s.kind = w.kind
        <2>1. Mapping!ByFullName(Legacy, s) = {w}
            BY <1>1, <1>3 DEF Mapping!Named, Mapping!Typed, Mapping!ByFullName
        <2>2. w \in Mapping!Collected(Mapping!ByFullName(Legacy, s), LegacyHint)
            BY <2>1, CollectedFacts
        <2>3. QED
            BY <2>2 DEF Mapping!All, Mapping!Indirect
    <1>. QED
        BY <1>1, <1>2, <1>3

\* The unit that the text decides on, in the two ways it may do so.
Decided(s, w) ==
    \/ /\ s.parent \notin Mapping!Provinces(Legacy) /\ ~Mapping!Overruled(s)
       /\ Mapping!Described(Legacy, s) = {w}
    \/ Mapping!Described(Legacy, s) = {} /\ Mapping!Named(Legacy, s) = {w}

LEMMA RightFacts ==
    ASSUME NEW s, NEW x \in Mapping!ByName(Legacy, s), \A w : Decided(s, w) => x = w
    PROVE  Mapping!Right(s, x)
    <1>1. x.name = s.name
        BY DEF Mapping!ByName
    <1>2. Mapping!Described(Legacy, s) \subseteq Legacy /\ Mapping!Named(Legacy, s) \subseteq Legacy
        BY DEF Mapping!Described, Mapping!Named, Mapping!Typed, Mapping!ByName
    <1>3. IsFiniteSet(Legacy)
        BY MappingAssumption
    <1>4. \A ws : ws \subseteq Legacy /\ Mapping!Cardinality(ws) = 1 => \E w : ws = {w}
        BY <1>3, OnlyOne
    <1>5. ASSUME s.parent \notin Mapping!Provinces(Legacy), ~Mapping!Overruled(s),
                 Mapping!Cardinality(Mapping!Described(Legacy, s)) = 1
          PROVE  x \in Mapping!Described(Legacy, s)
        <2>1. PICK w : Mapping!Described(Legacy, s) = {w}
            BY <1>2, <1>4, <1>5
        <2>2. x = w
            BY <1>5, <2>1 DEF Decided
        <2>3. QED
            BY <2>1, <2>2
    <1>6. ASSUME Mapping!Described(Legacy, s) = {},
                 Mapping!Cardinality(Mapping!Named(Legacy, s)) = 1
          PROVE  x \in Mapping!Named(Legacy, s)
        <2>1. PICK w : Mapping!Named(Legacy, s) = {w}
            BY <1>2, <1>4, <1>6
        <2>2. x = w
            BY <1>6, <2>1 DEF Decided
        <2>3. QED
            BY <2>1, <2>2
    <1>. QED
        BY <1>1, <1>5, <1>6 DEF Mapping!Right, Mapping!Only

\* Without a parent in the text the name and the kind describe the unit.
LEMMA DecidedFacts ==
    ASSUME NEW s, NEW w, Decided(s, w)
    PROVE  \/ Mapping!Named(Legacy, s) = {w}
           \/ Mapping!Described(Legacy, s) = {w} /\ w \in Mapping!Direct(Legacy, s, LegacyHint)
    <1>1. CASE s.parent = NoOne
        <2>1. Mapping!Described(Legacy, s) = Mapping!Named(Legacy, s)
            BY <1>1 DEF Mapping!Described, Mapping!Named, Mapping!ParentMatches, Mapping!Typed, Mapping!ByName
        <2>2. QED
            BY <2>1 DEF Decided
    <1>2. CASE s.parent # NoOne
        BY <1>2, Reached DEF Decided
    <1>. QED
        BY <1>1, <1>2

\* What is left of any candidates that include the first lists.
LEMMA FilteredIsRight ==
    ASSUME NEW s \in Spoken, NEW ws,
           Mapping!Direct(Legacy, s, LegacyHint) \subseteq ws,
           ws \subseteq Mapping!All(Legacy, s, LegacyHint),
           NEW x \in Mapping!FilterCandidates(ws, s)
    PROVE  x \in Legacy /\ Mapping!Right(s, x)
    <1> DEFINE typed == Mapping!Typed(ws, s)
               fitting == {w \in typed : Mapping!ParentMatches(w, s)}
    <1>1. ws \subseteq Mapping!ByName(Legacy, s)
        BY SpokenFacts, ListsFacts
    <1>2. /\ typed \subseteq Mapping!Named(Legacy, s) /\ typed \subseteq ws
          /\ fitting = Mapping!Described(Legacy, s) \cap ws
        BY <1>1 DEF Mapping!Typed, Mapping!Named, Mapping!Described
    <1>3. x \in typed /\ (fitting # {} => x \in fitting)
        BY FilterFacts
    <1>4. ASSUME NEW w, Decided(s, w) PROVE x = w
        <2>1. CASE Mapping!Named(Legacy, s) = {w}
            BY <1>2, <1>3, <2>1
        <2>2. CASE Mapping!Described(Legacy, s) = {w} /\ w \in Mapping!Direct(Legacy, s, LegacyHint)
            BY <1>2, <1>3, <2>2
        <2>3. QED
            BY <1>4, <2>1, <2>2, DecidedFacts
    <1>5. x \in Mapping!ByName(Legacy, s) /\ x \in Legacy
        BY <1>1, <1>2, <1>3 DEF Mapping!ByName
    <1>. QED
        BY <1>4, <1>5, RightFacts

\* findLegacySource
LEMMA FoundIsRight ==
    ASSUME NEW s \in Spoken, NEW x, Mapping!FindLegacySource(s) = {x}
    PROVE  x \in Legacy /\ Mapping!Right(s, x)
    <1> DEFINE direct == Mapping!Direct(Legacy, s, LegacyHint)
               everything == Mapping!All(Legacy, s, LegacyHint)
    <1>1. direct \subseteq everything
        BY DEF Mapping!All
    <1>2. x \in Mapping!FilterCandidates(direct, s) \/ x \in Mapping!FilterCandidates(everything, s)
        BY DEF Mapping!FindLegacySource
    <1> HIDE DEF direct, everything
    <1>. QED
        BY <1>1, <1>2, FilteredIsRight DEF direct, everything

\* collectCandidateRecordsForSource: when the hints leave nothing, the text
\* decides nothing.
LEMMA CandidatesAreRight ==
    ASSUME NEW s \in Spoken, NEW x \in Mapping!CandidatesOf(s)
    PROVE  x \in Legacy /\ Mapping!Right(s, x)
    <1> DEFINE everything == Mapping!All(Legacy, s, LegacyHint)
               filtered == Mapping!FilterCandidates(everything, s)
               plain == Mapping!All(Legacy, s, NoOne)
    <1>1. Mapping!Direct(Legacy, s, LegacyHint) \subseteq everything
        BY DEF Mapping!All
    <1>2. CASE filtered # {}
        <2>1. x \in filtered
            BY <1>2 DEF Mapping!CandidatesOf
        <2>2. QED
            BY <1>1, <2>1, FilteredIsRight
    <1>3. CASE filtered = {}
        <2>1. x \in Mapping!Narrowed(plain, Mapping!Typed(plain, s))
            BY <1>3 DEF Mapping!CandidatesOf
        <2>2. x \in plain
            BY <2>1, NarrowedFacts
        <2>3. x \in Mapping!ByName(Legacy, s)
            BY <2>2, SpokenFacts, ListsFacts
        <2>4. Mapping!Typed(everything, s) = {}
            BY <1>3, FilterFacts
        <2>5. ASSUME NEW w, Decided(s, w) PROVE FALSE
            <3>1. w \in everything
                BY <1>1, <2>5, DecidedFacts, NamedFound
            <3>2. w \in Mapping!Named(Legacy, s)
                BY <2>5 DEF Decided, Mapping!Described, Mapping!Named, Mapping!Typed
            <3>3. w \in Mapping!Typed(everything, s)
                BY <3>1, <3>2 DEF Mapping!Named, Mapping!Typed
            <3>4. QED
                BY <2>4, <3>3
        <2>6. x \in Legacy
            BY <2>3 DEF Mapping!ByName
        <2>7. QED
            BY <2>3, <2>5, <2>6, RightFacts
    <1>. QED
        BY <1>2, <1>3

\* findReformTarget
LEMMA TargetIsRight ==
    ASSUME NEW c \in Clause, NEW x, Mapping!FindReformTarget(c.to) = {x}
    PROVE  x \in Reform /\ x \in Mapping!ByName(Reform, c.to)
    <1> DEFINE t == c.to
               sources == {r.ward : r \in Mapping!Range(records)}
               Fitting(ws) == {w \in ws : Mapping!ParentMatches(w, t)}
               Hinted(ws) == Mapping!Narrowed(Fitting(ws),
                                 {w \in Fitting(ws) : w.province = ReformHint})
               Kept(ws) == Mapping!Narrowed(Hinted(ws),
                                 {w \in Hinted(ws) : w.province \in Mapping!Provinces(sources) \cup {ReformHint}})
               exact == Mapping!Collected(Mapping!ByExactName(Reform, t), ReformHint)
               fallback == exact \cup Mapping!Indirect(Reform, t, ReformHint)
    <1>1. Mapping!FindReformTarget(t) = IF Mapping!Cardinality(Kept(exact)) = 1 THEN Kept(exact) ELSE Kept(fallback)
        BY DEF Mapping!FindReformTarget
    <1>2. ASSUME NEW ws PROVE Kept(ws) \subseteq ws
        <2>1. Hinted(ws) \subseteq Fitting(ws) /\ Kept(ws) \subseteq Hinted(ws)
            BY NarrowedFacts
        <2>2. Fitting(ws) \subseteq ws
            OBVIOUS
        <2>3. QED
            BY <2>1, <2>2, Zenon
    <1>3. exact \subseteq Mapping!ByName(Reform, t) /\ fallback \subseteq Mapping!ByName(Reform, t)
        BY MappingAssumption, ListsFacts
    <1>4. Kept(exact) \subseteq exact /\ Kept(fallback) \subseteq fallback
        BY <1>2
    <1> HIDE DEF Kept, exact, fallback
    <1>5. x \in Mapping!ByName(Reform, t)
        BY <1>1, <1>3, <1>4
    <1>. QED
        BY <1>5 DEF Mapping!ByName

\* orderSourcesForResolution is an order: of two names one goes before the
\* other.
Rank(s) == Mapping!Priority(s)

LEMMA PriorityFacts ==
    ASSUME NEW s
    PROVE  /\ Rank(s) = <<Rank(s)[1], Rank(s)[2], Rank(s)[3]>>
           /\ Rank(s)[1] \in Int /\ Rank(s)[2] \in Int /\ Rank(s)[3] \in Int
    <1>1. Mapping!All(Legacy, s, NoOne) \subseteq Legacy
        BY CollectedFacts DEF Mapping!All, Mapping!Direct, Mapping!Indirect, Mapping!ByExactName,
            Mapping!ByDistrictName, Mapping!ByFullName, Mapping!ByName
    <1>2. Mapping!Cardinality(Mapping!All(Legacy, s, NoOne)) \in Int /\ Mapping!Cardinality(Legacy) \in Int
        BY <1>1, MappingAssumption, SameCount, FS_Subset, FS_CardinalityType
    <1>. QED
        BY <1>2 DEF Rank, Mapping!Priority

LEMMA BeforeFacts ==
    ASSUME NEW p, p = <<p[1], p[2], p[3]>>, NEW q, q = <<q[1], q[2], q[3]>>
    PROVE  Mapping!Before(p, q) <=> \/ p[1] < q[1]
                                    \/ p[1] = q[1] /\ p[2] < q[2]
                                    \/ p[1] = q[1] /\ p[2] = q[2] /\ p[3] < q[3]
    <1>1. DOMAIN p = {1, 2, 3}
        OBVIOUS
    <1>2. 1 .. 1 - 1 = {} /\ 1 .. 2 - 1 = {1} /\ 1 .. 3 - 1 = {1, 2}
        OBVIOUS
    <1>3. Mapping!Before(p, q) <=> \/ p[1] < q[1] /\ \A j \in 1 .. 1 - 1 : p[j] = q[j]
                                   \/ p[2] < q[2] /\ \A j \in 1 .. 2 - 1 : p[j] = q[j]
                                   \/ p[3] < q[3] /\ \A j \in 1 .. 3 - 1 : p[j] = q[j]
        BY <1>1, Zenon DEF Mapping!Before
    <1>. QED
        BY <1>2, <1>3

\* Which of two positions goes first.
LEMMA EarlierFacts ==
    ASSUME NEW from, NEW i \in Int, NEW j \in Int, NEW k \in Int
    PROVE  /\ ~Mapping!Earlier(from, i, i)
           /\ i # j => Mapping!Earlier(from, i, j) \/ Mapping!Earlier(from, j, i)
           /\ Mapping!Earlier(from, i, j) /\ Mapping!Earlier(from, j, k) => Mapping!Earlier(from, i, k)
    <1> DEFINE p == Rank(from[i])
               q == Rank(from[j])
               r == Rank(from[k])
    <1>1. /\ p = <<p[1], p[2], p[3]>> /\ p[1] \in Int /\ p[2] \in Int /\ p[3] \in Int
          /\ q = <<q[1], q[2], q[3]>> /\ q[1] \in Int /\ q[2] \in Int /\ q[3] \in Int
          /\ r = <<r[1], r[2], r[3]>> /\ r[1] \in Int /\ r[2] \in Int /\ r[3] \in Int
        BY PriorityFacts
    <1>2. /\ Mapping!Earlier(from, i, j) <=> Mapping!Before(p, q) \/ (p = q /\ i < j)
          /\ Mapping!Earlier(from, j, i) <=> Mapping!Before(q, p) \/ (q = p /\ j < i)
          /\ Mapping!Earlier(from, j, k) <=> Mapping!Before(q, r) \/ (q = r /\ j < k)
          /\ Mapping!Earlier(from, i, k) <=> Mapping!Before(p, r) \/ (p = r /\ i < k)
          /\ Mapping!Earlier(from, i, i) <=> Mapping!Before(p, p) \/ (p = p /\ i < i)
        BY DEF Mapping!Earlier, Rank
    <1> HIDE DEF p, q, r
    <1>3. p = q <=> p[1] = q[1] /\ p[2] = q[2] /\ p[3] = q[3]
        BY <1>1
    <1>4. q = r <=> q[1] = r[1] /\ q[2] = r[2] /\ q[3] = r[3]
        BY <1>1
    <1>5. p = r <=> p[1] = r[1] /\ p[2] = r[2] /\ p[3] = r[3]
        BY <1>1
    <1>6. /\ Mapping!Before(p, q) <=> \/ p[1] < q[1]
                                      \/ p[1] = q[1] /\ p[2] < q[2]
                                      \/ p[1] = q[1] /\ p[2] = q[2] /\ p[3] < q[3]
          /\ Mapping!Before(q, p) <=> \/ q[1] < p[1]
                                      \/ q[1] = p[1] /\ q[2] < p[2]
                                      \/ q[1] = p[1] /\ q[2] = p[2] /\ q[3] < p[3]
          /\ Mapping!Before(q, r) <=> \/ q[1] < r[1]
                                      \/ q[1] = r[1] /\ q[2] < r[2]
                                      \/ q[1] = r[1] /\ q[2] = r[2] /\ q[3] < r[3]
          /\ Mapping!Before(p, r) <=> \/ p[1] < r[1]
                                      \/ p[1] = r[1] /\ p[2] < r[2]
                                      \/ p[1] = r[1] /\ p[2] = r[2] /\ p[3] < r[3]
          /\ ~Mapping!Before(p, p)
        BY <1>1, BeforeFacts
    <1>. QED
        BY <1>1, <1>2, <1>3, <1>4, <1>5, <1>6

\* How many names go before one.
HowManyBefore(from, j) == Mapping!Cardinality({k \in DOMAIN from : Mapping!Earlier(from, k, j)})

\* A name has a place of its own: of two names one goes before the other, and
\* more go before that other than before the one.
LEMMA OwnPlace ==
    ASSUME NEW from, NEW n \in Nat, DOMAIN from = 1 .. n, NEW j \in 1 .. n
    PROVE  /\ HowManyBefore(from, j) \in 0 .. n - 1
           /\ \A k \in 1 .. n : HowManyBefore(from, k) = HowManyBefore(from, j) => k = j
    <1> DEFINE Ahead(k) == {l \in DOMAIN from : Mapping!Earlier(from, l, k)}
    <1>1. IsFiniteSet(1 .. n) /\ Cardinality(1 .. n) = n
        BY FS_Interval
    <1>2. ASSUME NEW k \in 1 .. n
          PROVE  IsFiniteSet(Ahead(k)) /\ Cardinality(Ahead(k)) \in 0 .. n - 1
        <2>1. IsFiniteSet(Ahead(k)) /\ Cardinality(Ahead(k)) <= n
              /\ (Cardinality(1 .. n) = Cardinality(Ahead(k)) => 1 .. n = Ahead(k))
            BY <1>1, FS_Subset
        <2>2. k \notin Ahead(k)
            BY EarlierFacts
        <2>3. Cardinality(Ahead(k)) \in Nat
            BY <2>1, FS_CardinalityType
        <2>4. QED
            BY <1>1, <2>1, <2>2, <2>3
    <1>3. ASSUME NEW k \in 1 .. n, NEW l \in 1 .. n, Mapping!Earlier(from, k, l)
          PROVE  Cardinality(Ahead(k)) < Cardinality(Ahead(l))
        <2>1. Ahead(k) \subseteq Ahead(l) /\ Ahead(l) # Ahead(k)
            BY <1>3, EarlierFacts
        <2> HIDE DEF Ahead
        <2>2. Cardinality(Ahead(k)) <= Cardinality(Ahead(l))
              /\ (Cardinality(Ahead(l)) = Cardinality(Ahead(k)) => Ahead(l) = Ahead(k))
            BY <1>2, <2>1, FS_Subset
        <2>3. QED
            BY <1>2, <2>1, <2>2
    <1>4. \A k \in 1 .. n : HowManyBefore(from, k) = Cardinality(Ahead(k))
        BY SameCount DEF HowManyBefore
    <1> HIDE DEF Ahead
    <1>5. ASSUME NEW k \in 1 .. n, Cardinality(Ahead(k)) = Cardinality(Ahead(j)) PROVE k = j
        <2>1. ~Mapping!Earlier(from, k, j) /\ ~Mapping!Earlier(from, j, k)
            BY <1>2, <1>3, <1>5
        <2>2. QED
            BY <2>1, EarlierFacts
    <1>. QED
        BY <1>2, <1>4, <1>5

\* And every place is taken: the places are one to one, and so onto.
LEMMA PlacesTaken ==
    ASSUME NEW from, NEW n \in Nat, DOMAIN from = 1 .. n, NEW i \in 1 .. n
    PROVE  \E j \in 1 .. n : HowManyBefore(from, j) = i - 1
    <1> DEFINE place == [j \in 1 .. n |-> HowManyBefore(from, j) + 1]
    <1>1. IsFiniteSet(1 .. n) /\ Cardinality(1 .. n) = n
        BY FS_Interval
    <1>2. \A j \in 1 .. n : HowManyBefore(from, j) \in 0 .. n - 1
        BY OwnPlace
    <1>3. place \in Injection(1 .. n, 1 .. n)
        <2>1. place \in [1 .. n -> 1 .. n]
            BY <1>2
        <2>2. ASSUME NEW j \in 1 .. n, NEW k \in 1 .. n, place[j] = place[k] PROVE j = k
            <3>1. HowManyBefore(from, j) = HowManyBefore(from, k)
                BY <1>2, <2>2
            <3>2. QED
                BY <3>1, OwnPlace
        <2> HIDE DEF place
        <2>3. QED
            BY <2>1, <2>2 DEF Injection, IsInjective
    <1>4. place \in Surjection(1 .. n, 1 .. n)
        BY <1>1, <1>3, FS_Injection
    <1>5. PICK j \in 1 .. n : place[j] = i
        BY <1>4 DEF Surjection
    <1>6. HowManyBefore(from, j) = i - 1
        BY <1>2, <1>5
    <1>. QED
        BY <1>6

\* So what is ordered are the same names.
LEMMA OrderedFacts ==
    ASSUME NEW from, NEW n \in Nat, DOMAIN from = 1 .. n
    PROVE  /\ DOMAIN Mapping!Ordered(from) = 1 .. n
           /\ {Mapping!Ordered(from)[i] : i \in 1 .. n} = {from[j] : j \in 1 .. n}
    <1> DEFINE At(i) == CHOOSE j \in DOMAIN from : HowManyBefore(from, j) = i - 1
    <1>1. Mapping!Ordered(from) = [i \in DOMAIN from |-> from[At(i)]]
        BY DEF Mapping!Ordered, HowManyBefore
    <1>2. ASSUME NEW i \in 1 .. n PROVE At(i) \in 1 .. n /\ HowManyBefore(from, At(i)) = i - 1
        BY PlacesTaken
    <1> HIDE DEF At
    <1>3. ASSUME NEW j \in 1 .. n PROVE \E i \in 1 .. n : At(i) = j
        <2>1. PICK i \in 1 .. n : HowManyBefore(from, j) = i - 1
            <3>1. HowManyBefore(from, j) \in 0 .. n - 1
                BY OwnPlace
            <3>2. HowManyBefore(from, j) + 1 \in 1 .. n /\ HowManyBefore(from, j) = (HowManyBefore(from, j) + 1) - 1
                BY <3>1
            <3>3. QED
                BY <3>2
        <2>2. At(i) \in 1 .. n /\ HowManyBefore(from, At(i)) = HowManyBefore(from, j)
            BY <1>2, <2>1
        <2>3. QED
            BY <2>2, OwnPlace
    <1>. QED
        BY <1>1, <1>2, <1>3

\* What the resolver keeps of a clause: every name of it is put off or has the
\* right unit, and none has two.
Said(c, recs, pend) ==
    /\ Len(recs) + Len(pend) = Len(c.from)
    /\ {r.source : r \in Mapping!Range(recs)} \cup Mapping!Range(pend) = Mapping!Range(c.from)

MapRecord == [source : Spoken, ward : Legacy]
MapRow == [clause : Clause, to : Reform, from : Seq(MapRecord)]

RightRecords(recs) == \A r \in Mapping!Range(recs) : Mapping!Right(r.source, r.ward)

RightRow(row) ==
    /\ Len(row.from) = Len(row.clause.from)
    /\ {r.source : r \in Mapping!Range(row.from)} = Mapping!Range(row.clause.from)
    /\ RightRecords(row.from)
    /\ row.to \in Mapping!ByName(Reform, row.clause.to)

MapTypes ==
    /\ clause \in Clause \cup {Mapping!NoClause}
    /\ index \in Nat \ {0}
    /\ pending \in Seq(Spoken)
    /\ records \in Seq(MapRecord)
    /\ rows \in Seq(MapRow)

MapInv ==
    /\ MapTypes
    /\ RightRecords(records)
    /\ phase \in {"pass", "target"} => clause \in Clause /\ Said(clause, records, pending)
    /\ phase = "target" => pending = <<>>
    /\ \A row \in Mapping!Range(rows) : RightRow(row)

\* Sequences of names and of records.
LEMMA RangeFacts ==
    ASSUME NEW S, NEW s \in Seq(S), NEW t \in Seq(S)
    PROVE  /\ Mapping!Range(s \o t) = Mapping!Range(s) \cup Mapping!Range(t)
           /\ s \o t \in Seq(S) /\ Len(s \o t) = Len(s) + Len(t)
           /\ Mapping!Range(s) \subseteq S
           /\ Mapping!Range(s) = {s[i] : i \in 1 .. Len(s)}
    <1>1. s \o t \in Seq(S) /\ Len(s \o t) = Len(s) + Len(t)
        OBVIOUS
    <1>2. DOMAIN s = 1 .. Len(s) /\ DOMAIN t = 1 .. Len(t) /\ DOMAIN (s \o t) = 1 .. Len(s) + Len(t)
        OBVIOUS
    <1>3. \A i \in 1 .. Len(s) + Len(t) :
              (s \o t)[i] = IF i <= Len(s) THEN s[i] ELSE t[i - Len(s)]
        OBVIOUS
    <1>4. Mapping!Range(s \o t) \subseteq Mapping!Range(s) \cup Mapping!Range(t)
        BY <1>2, <1>3 DEF Mapping!Range
    <1>5. Mapping!Range(s) \subseteq Mapping!Range(s \o t)
        BY <1>2, <1>3 DEF Mapping!Range
    <1>6. ASSUME NEW i \in 1 .. Len(t) PROVE t[i] \in Mapping!Range(s \o t)
        <2>1. Len(s) + i \in 1 .. Len(s) + Len(t) /\ (s \o t)[Len(s) + i] = t[i]
            BY <1>3
        <2>2. QED
            BY <1>2, <2>1 DEF Mapping!Range
    <1>. QED
        BY <1>1, <1>2, <1>4, <1>5, <1>6 DEF Mapping!Range

LEMMA SingleFacts ==
    ASSUME NEW S, NEW x \in S
    PROVE  <<x>> \in Seq(S) /\ Len(<<x>>) = 1 /\ Mapping!Range(<<x>>) = {x}
    BY DEF Mapping!Range

LEMMA LongerFacts ==
    ASSUME NEW S, NEW s \in Seq(S), NEW x \in S
    PROVE  /\ s \o <<x>> \in Seq(S) /\ Len(s \o <<x>>) = Len(s) + 1
           /\ Mapping!Range(s \o <<x>>) = Mapping!Range(s) \cup {x}
    <1>1. <<x>> \in Seq(S) /\ Len(<<x>>) = 1 /\ Mapping!Range(<<x>>) = {x}
        BY SingleFacts
    <1>2. /\ Mapping!Range(s \o <<x>>) = Mapping!Range(s) \cup Mapping!Range(<<x>>)
          /\ s \o <<x>> \in Seq(S) /\ Len(s \o <<x>>) = Len(s) + Len(<<x>>)
        BY <1>1, RangeFacts
    <1>. QED
        BY <1>1, <1>2, Zenon

\* A sequence is what is left of an element, the element, and the others.
LEMMA RemoveFacts ==
    ASSUME NEW S, NEW s \in Seq(S), NEW i \in 1 .. Len(s)
    PROVE  /\ Mapping!RemoveAt(s, i) \in Seq(S)
           /\ Len(Mapping!RemoveAt(s, i)) + 1 = Len(s)
           /\ Mapping!Range(Mapping!RemoveAt(s, i)) \cup {s[i]} = Mapping!Range(s)
    <1> DEFINE front == SubSeq(s, 1, i - 1)
               rest == SubSeq(s, i + 1, Len(s))
    <1>1. Mapping!RemoveAt(s, i) = front \o rest
        BY DEF Mapping!RemoveAt
    <1>2. /\ front \in Seq(S) /\ Len(front) = i - 1
          /\ \A j \in 1 .. i - 1 : front[j] = s[j]
        OBVIOUS
    <1>3. /\ rest \in Seq(S) /\ Len(rest) = Len(s) - i
          /\ \A j \in 1 .. Len(s) - i : rest[j] = s[i + j]
        OBVIOUS
    <1> HIDE DEF front, rest
    <1>4. Mapping!Range(front) \cup Mapping!Range(rest) \cup {s[i]} \subseteq Mapping!Range(s)
        <2>1. \A j \in 1 .. i - 1 : front[j] \in Mapping!Range(s)
            BY <1>2 DEF Mapping!Range
        <2>2. ASSUME NEW j \in 1 .. Len(s) - i PROVE rest[j] \in Mapping!Range(s)
            <3>1. i + j \in DOMAIN s /\ rest[j] = s[i + j]
                BY <1>3
            <3>2. QED
                BY <3>1 DEF Mapping!Range
        <2>3. DOMAIN front = 1 .. i - 1 /\ DOMAIN rest = 1 .. Len(s) - i
            BY <1>2, <1>3
        <2>4. Mapping!Range(front) \subseteq Mapping!Range(s)
            BY <2>1, <2>3 DEF Mapping!Range
        <2>5. Mapping!Range(rest) \subseteq Mapping!Range(s)
            BY <2>2, <2>3 DEF Mapping!Range
        <2>6. s[i] \in Mapping!Range(s)
            BY DEF Mapping!Range
        <2>7. QED
            BY <2>4, <2>5, <2>6
    <1>5. ASSUME NEW j \in 1 .. Len(s)
          PROVE  s[j] \in Mapping!Range(front) \cup Mapping!Range(rest) \cup {s[i]}
        <2>1. CASE j < i
            BY <1>2, <2>1 DEF Mapping!Range
        <2>2. CASE j > i
            <3>1. j - i \in 1 .. Len(s) - i /\ rest[j - i] = s[j]
                BY <1>3, <2>2
            <3>2. QED
                BY <1>3, <3>1 DEF Mapping!Range
        <2>3. QED
            BY <2>1, <2>2
    <1>6. Mapping!Range(s) \subseteq Mapping!Range(front) \cup Mapping!Range(rest) \cup {s[i]}
        BY <1>5 DEF Mapping!Range
    <1>7. /\ Mapping!Range(front \o rest) = Mapping!Range(front) \cup Mapping!Range(rest)
          /\ front \o rest \in Seq(S) /\ Len(front \o rest) = Len(front) + Len(rest)
        <2>1. front \in Seq(S) /\ rest \in Seq(S)
            BY <1>2, <1>3
        <2>2. QED
            BY <2>1, RangeFacts
    <1>8. Len(front \o rest) + 1 = Len(s)
        BY <1>2, <1>3, <1>7
    <1>9. Mapping!Range(front \o rest) \cup {s[i]} = Mapping!Range(s)
        BY <1>4, <1>6, <1>7, Zenon
    <1>. QED
        BY <1>1, <1>7, <1>8, <1>9, Zenon

\* The names of a clause.
LEMMA ClauseFacts ==
    ASSUME NEW c \in Clause
    PROVE  /\ Len(c.from) \in Nat /\ DOMAIN c.from = 1 .. Len(c.from)
           /\ Mapping!Ordered(c.from) \in Seq(Spoken)
           /\ Len(Mapping!Ordered(c.from)) = Len(c.from)
           /\ Mapping!Range(Mapping!Ordered(c.from)) = Mapping!Range(c.from)
    <1>1. c.from \in Seq({c.from[i] : i \in DOMAIN c.from})
        BY MappingAssumption
    <1>2. Len(c.from) \in Nat /\ DOMAIN c.from = 1 .. Len(c.from)
        BY <1>1
    <1> DEFINE o == Mapping!Ordered(c.from)
               n == Len(c.from)
    <1>3. /\ DOMAIN o = 1 .. n
          /\ {o[i] : i \in 1 .. n} = {c.from[j] : j \in 1 .. n}
        BY <1>2, OrderedFacts
    <1>4. {c.from[j] : j \in 1 .. n} \subseteq Spoken
        BY <1>2 DEF Spoken
    <1>5. o = [i \in 1 .. n |-> o[i]]
        BY <1>2 DEF Mapping!Ordered
    <1> HIDE DEF o, n
    <1>6. \A i \in 1 .. n : o[i] \in Spoken
        BY <1>3, <1>4
    <1>7. n \in Nat
        BY <1>2 DEF n
    <1>8. o \in Seq(Spoken) /\ Len(o) = n
        BY <1>5, <1>6, <1>7
    <1>. QED
        BY <1>2, <1>3, <1>8 DEF o, n, Mapping!Range

-----------------------------------------------------------------------------
\* The steps of the resolver.

LEMMA MapBegin == ASSUME MapInv, NEW c \in Clause, Mapping!Begin(c) PROVE MapInv'
    <1>1. /\ clause' = c /\ pending' = Mapping!Ordered(c.from) /\ index' = 1
          /\ records' = <<>> /\ rows' = rows /\ phase' = "pass"
        BY DEF Mapping!Begin
    <1>2. MapTypes'
        BY <1>1, ClauseFacts DEF MapInv, MapTypes
    <1>3. Mapping!Range(<<>>) = {} /\ Len(<<>>) = 0
        BY DEF Mapping!Range
    <1>4. RightRecords(<<>>) /\ Said(c, <<>>, pending')
        BY <1>1, <1>3, ClauseFacts DEF RightRecords, Said
    <1>. QED
        BY <1>1, <1>2, <1>4 DEF MapInv

LEMMA MapResolve == ASSUME MapInv, Mapping!Resolve PROVE MapInv'
    <1>1. PICK w : /\ Mapping!FindLegacySource(pending[index]) = {w}
                   /\ records' = Append(records, [source |-> pending[index], ward |-> w])
        BY DEF Mapping!Resolve
    <1>2. /\ phase = "pass" /\ index <= Len(pending)
          /\ pending' = Mapping!RemoveAt(pending, index)
          /\ UNCHANGED <<phase, clause, index, rows>>
        BY DEF Mapping!Resolve
    <1> DEFINE s == pending[index]
               r == [source |-> s, ward |-> w]
    <1>3. index \in 1 .. Len(pending) /\ pending \in Seq(Spoken) /\ s \in Spoken
        BY <1>2 DEF MapInv, MapTypes
    <1>4. w \in Legacy /\ Mapping!Right(s, w)
        BY <1>1, <1>3, FoundIsRight
    <1>5. r \in MapRecord /\ records \in Seq(MapRecord)
        BY <1>3, <1>4 DEF MapRecord, MapInv, MapTypes
    <1>6. records' = records \o <<r>>
        BY <1>1, <1>5
    <1>7. r.source = s /\ r.ward = w
        OBVIOUS
    <1> HIDE DEF r
    <1>8. /\ records' \in Seq(MapRecord) /\ Len(records') = Len(records) + 1
          /\ Mapping!Range(records') = Mapping!Range(records) \cup {r}
        BY <1>5, <1>6, LongerFacts, Zenon
    <1>9. /\ pending' \in Seq(Spoken) /\ Len(pending') + 1 = Len(pending)
          /\ Mapping!Range(pending') \cup {s} = Mapping!Range(pending)
        BY <1>2, <1>3, RemoveFacts
    <1>10. RightRecords(records')
        BY <1>4, <1>7, <1>8 DEF RightRecords, MapInv
    <1>11. Said(clause, records, pending) /\ clause \in Clause
        BY <1>2 DEF MapInv
    <1>12. Len(records) \in Nat /\ Len(pending') \in Nat /\ Len(pending) \in Nat
        BY <1>3, <1>5, <1>9
    <1>13. {x.source : x \in Mapping!Range(records')} = {x.source : x \in Mapping!Range(records)} \cup {s}
        BY <1>7, <1>8
    <1> HIDE DEF s
    <1>14. Said(clause, records', pending')
        <2>1. Len(records') + Len(pending') = Len(clause.from)
            BY <1>8, <1>9, <1>11, <1>12 DEF Said
        <2>2. {x.source : x \in Mapping!Range(records')} \cup Mapping!Range(pending')
                  = {x.source : x \in Mapping!Range(records)} \cup Mapping!Range(pending)
            BY <1>9, <1>13, Zenon
        <2>3. QED
            BY <1>11, <2>1, <2>2 DEF Said
    <1>. QED
        BY <1>2, <1>8, <1>9, <1>10, <1>11, <1>14 DEF MapInv, MapTypes

LEMMA MapKeep ==
    ASSUME MapInv,
           \/ Mapping!Defer \/ Mapping!NotFound \/ Mapping!EndPass \/ Mapping!Ambiguous
           \/ Mapping!NoTarget \/ UNCHANGED mappings
    PROVE  MapInv'
    <1>1. UNCHANGED <<clause, pending, records, rows>>
        BY DEF Mapping!Defer, Mapping!NotFound, Mapping!EndPass, Mapping!Ambiguous,
               Mapping!NoTarget, Mapping!Throw, mappings
    <1>2. index \in Nat \ {0}
        BY DEF MapInv, MapTypes
    <1>3. index' \in Nat \ {0}
        BY <1>2 DEF Mapping!Defer, Mapping!NotFound, Mapping!EndPass, Mapping!Ambiguous,
               Mapping!NoTarget, Mapping!Throw, mappings
    <1>4. phase' \in {"pass", "target"} => phase \in {"pass", "target"}
        BY DEF Mapping!Defer, Mapping!NotFound, Mapping!EndPass, Mapping!Ambiguous,
               Mapping!NoTarget, Mapping!Throw, mappings
    <1>5. phase' = "target" => phase = "target" \/ pending = <<>>
        BY DEF Mapping!Defer, Mapping!NotFound, Mapping!EndPass, Mapping!Ambiguous,
               Mapping!NoTarget, Mapping!Throw, mappings
    <1>. QED
        BY <1>1, <1>3, <1>4, <1>5 DEF MapInv, MapTypes

LEMMA MapCombine == ASSUME MapInv, Mapping!Combine PROVE MapInv'
    <1>1. PICK f \in Mapping!Selections :
              records' = records \o [i \in DOMAIN pending |-> [source |-> pending[i], ward |-> f[i]]]
        BY DEF Mapping!Combine
    <1>2. /\ phase = "pass" /\ phase' = "target" /\ pending' = <<>>
          /\ UNCHANGED <<clause, index, rows>>
        BY DEF Mapping!Combine
    <1> DEFINE n == Len(pending)
               found == [i \in 1 .. n |-> [source |-> pending[i], ward |-> f[i]]]
    <1>3. pending \in Seq(Spoken) /\ n \in Nat /\ DOMAIN pending = 1 .. n /\ records \in Seq(MapRecord)
        BY DEF MapInv, MapTypes
    <1>4. ASSUME NEW i \in 1 .. n
          PROVE  pending[i] \in Spoken /\ f[i] \in Legacy /\ Mapping!Right(pending[i], f[i])
        <2>1. f[i] \in Mapping!CandidatesOf(pending[i])
            BY <1>3 DEF Mapping!Selections
        <2>2. pending[i] \in Spoken
            BY <1>3
        <2>3. QED
            BY <2>1, <2>2, CandidatesAreRight
    <1>5. /\ found \in Seq(MapRecord) /\ Len(found) = n /\ DOMAIN found = 1 .. n
          /\ \A i \in 1 .. n : found[i].source = pending[i] /\ found[i].ward = f[i]
        <2>1. \A i \in 1 .. n : found[i] \in MapRecord
            BY <1>4 DEF MapRecord
        <2>2. QED
            BY <1>3, <2>1
    <1>6. records' = records \o found
        BY <1>1, <1>3
    <1> HIDE DEF found
    <1>7. /\ records' \in Seq(MapRecord) /\ Len(records') = Len(records) + n
          /\ Mapping!Range(records') = Mapping!Range(records) \cup Mapping!Range(found)
        <2>1. /\ Mapping!Range(records \o found) = Mapping!Range(records) \cup Mapping!Range(found)
              /\ records \o found \in Seq(MapRecord)
              /\ Len(records \o found) = Len(records) + Len(found)
            <3>1. records \in Seq(MapRecord) /\ found \in Seq(MapRecord)
                BY <1>3, <1>5
            <3>2. QED
                BY <3>1, RangeFacts
        <2>2. QED
            BY <1>5, <1>6, <2>1
    <1>8. RightRecords(records')
        <2>1. RightRecords(records)
            BY DEF MapInv
        <2>2. \A r \in Mapping!Range(found) : Mapping!Right(r.source, r.ward)
            BY <1>4, <1>5 DEF Mapping!Range
        <2>3. QED
            BY <1>7, <2>1, <2>2 DEF RightRecords
    <1>9. Said(clause, records, pending) /\ clause \in Clause
        BY <1>2 DEF MapInv
    <1>10. {r.source : r \in Mapping!Range(found)} = Mapping!Range(pending)
        BY <1>3, <1>5 DEF Mapping!Range
    <1>11. /\ {r.source : r \in Mapping!Range(records')}
                  = {r.source : r \in Mapping!Range(records)} \cup Mapping!Range(pending)
        BY <1>7, <1>10
    <1>12. Mapping!Range(<<>>) = {} /\ Len(<<>>) = 0
        BY DEF Mapping!Range
    <1>13. Said(clause, records', <<>>)
        BY <1>3, <1>7, <1>9, <1>11, <1>12 DEF Said
    <1>. QED
        BY <1>2, <1>7, <1>8, <1>9, <1>13 DEF MapInv, MapTypes

LEMMA MapWrite == ASSUME MapInv, Mapping!MapClause PROVE MapInv'
    <1>1. PICK w : /\ Mapping!FindReformTarget(clause.to) = {w}
                   /\ rows' = Append(rows, [clause |-> clause, to |-> w, from |-> records])
        BY DEF Mapping!MapClause
    <1>2. /\ phase = "target" /\ phase' = "clause"
          /\ records' = <<>> /\ clause' = Mapping!NoClause /\ UNCHANGED <<pending, index>>
        BY DEF Mapping!MapClause
    <1> DEFINE row == [clause |-> clause, to |-> w, from |-> records]
    <1>3. clause \in Clause /\ pending = <<>> /\ Said(clause, records, pending)
        BY <1>2 DEF MapInv
    <1>4. w \in Reform /\ w \in Mapping!ByName(Reform, clause.to)
        BY <1>1, <1>3, TargetIsRight
    <1>5. records \in Seq(MapRecord) /\ rows \in Seq(MapRow) /\ RightRecords(records)
        BY DEF MapInv, MapTypes
    <1>6. row \in MapRow /\ row.clause = clause /\ row.to = w /\ row.from = records
        BY <1>3, <1>4, <1>5 DEF MapRow
    <1>7. Mapping!Range(<<>>) = {} /\ Len(<<>>) = 0
        BY DEF Mapping!Range
    <1>8. Len(records) = Len(clause.from)
        BY <1>3, <1>5, <1>7 DEF Said
    <1>9. {r.source : r \in Mapping!Range(records)} = Mapping!Range(clause.from)
        BY <1>3, <1>7 DEF Said
    <1> HIDE DEF row
    <1>10. RightRow(row)
        BY <1>4, <1>5, <1>6, <1>8, <1>9 DEF RightRow
    <1>11. rows' = rows \o <<row>>
        BY <1>1, <1>5, <1>6 DEF row
    <1>12. rows' \in Seq(MapRow) /\ Mapping!Range(rows') = Mapping!Range(rows) \cup {row}
        BY <1>5, <1>6, <1>11, LongerFacts, Zenon
    <1>13. RightRecords(<<>>) /\ <<>> \in Seq(MapRecord)
        BY <1>7 DEF RightRecords
    <1>14. \A x \in Mapping!Range(rows') : RightRow(x)
        BY <1>10, <1>12 DEF MapInv
    <1>. QED
        BY <1>2, <1>12, <1>13, <1>14 DEF MapInv, MapTypes

\* The resolver keeps its invariant, whatever the resolutions say.
THEOREM MappingInvariant == CatalogueSpec => []MapInv
    <1>1. Mapping!Init => MapInv
        BY DEF Mapping!Init, MapInv, MapTypes, RightRecords, Mapping!Range
    <1>2. ASSUME MapInv, Mapping!Next PROVE MapInv'
        BY <1>2, MapBegin, MapResolve, MapKeep, MapCombine, MapWrite DEF Mapping!Next
    <1>3. MapInv /\ [CatalogueNext]_<<scope, partners, vouchers, reviews, mappings>> => MapInv'
        BY <1>2, MapKeep DEF CatalogueNext
    <1>. QED
        BY <1>1, <1>3, PTL DEF CatalogueSpec, CatalogueInit

\* Every name that a mapped clause merges has a unit of that name, the right
\* one whenever the text decides on it.
THEOREM TextAlwaysDecides == CatalogueSpec => []TextDecides
    <1>1. MapInv => TextDecides
        BY DEF MapInv, RightRow, RightRecords, TextDecides, Mapping!TextDecides
    <1>. QED
        BY <1>1, MappingInvariant, PTL

-----------------------------------------------------------------------------
\* Routes.  Rows are changed a column at a time, so what is said of their
\* shape is which columns they have.

Column == {"life", "owner", "start", "end", "status", "public", "edited", "visits", "from",
           "favourites", "stops"}
StopColumn == {"day", "seq", "start", "end", "place", "status"}

IsStop(x) == x = [f \in StopColumn |-> x[f]]
HasColumns(row) == row = [f \in Column |-> row[f]]
HasStops(stops) == stops = [i \in StopId |-> stops[i]] /\ \A i \in StopId : IsStop(stops[i])
IsRow(row) == HasColumns(row) /\ HasStops(row.stops)

\* The points and the status of a row fit its stops.
Counted(row) ==
    /\ row.visits = Cardinality(Visited(row))
    /\ row.status = "completed" => Stops(row) # {} /\ Visited(row) = Stops(row)

\* No visit that is still there is taken back.
KeepsVisits(old, new) == \A i \in Visited(old) : i \in Stops(new) => i \in Visited(new)

\* The columns that say whose copy of what a row is, which only deletions change.
KeepsKeys(old, new) ==
    \/ new.life = "deleted"
    \/ /\ new.life = old.life /\ new.public = old.public
       /\ new.owner = old.owner \/ new.owner = Nobody
       /\ new.from = old.from \/ new.from = Nobody

\* Sets of stops are finite.
LEMMA StopSets ==
    ASSUME NEW S \in SUBSET StopId
    PROVE  /\ IsFiniteSet(S) /\ Cardinality(S) \in Nat
           /\ Cardinality(S) = 0 <=> S = {}
    <1>1. IsFiniteSet(StopId)
        BY RoutesAssumption, FS_Interval DEF StopId
    <1>2. IsFiniteSet(S)
        BY <1>1, FS_Subset
    <1>3. QED
        BY <1>2, FS_CardinalityType, FS_EmptySet

\* The stops of a row depend on the column with the stops only.
LEMMA StopsFacts ==
    ASSUME NEW row
    PROVE  /\ Visited(row) \subseteq Stops(row) /\ Stops(row) \subseteq StopId
           /\ \A i : i \in Stops(row) <=> i \in StopId /\ row.stops[i].day > 0
           /\ \A i : i \in Visited(row) <=> i \in Stops(row) /\ row.stops[i].status = "completed"
    BY DEF Stops, Visited

\* No stop that is not visited becomes so with time.
LEMMA ScheduledFact ==
    ASSUME NEW row, NEW x, x.status # "completed"
    PROVE  Scheduled(row, x) # "completed"
    BY DEF Scheduled, StatusFor

\* A change of the status of a stop.
LEMMA StopStatus ==
    ASSUME NEW x, IsStop(x), NEW s
    PROVE  /\ IsStop([x EXCEPT !.status = s])
           /\ [x EXCEPT !.status = s].status = s /\ [x EXCEPT !.status = s].day = x.day
    BY DEF IsStop, StopColumn

\* updateRouteAggregates leaves the visits and brings the totals along.
LEMMA AggregatedFacts ==
    ASSUME NEW row, IsRow(row)
    PROVE  /\ IsRow(Aggregated(row)) /\ Counted(Aggregated(row))
           /\ Stops(Aggregated(row)) = Stops(row) /\ Visited(Aggregated(row)) = Visited(row)
           /\ \A f \in Column \ {"stops", "visits", "status"} : Aggregated(row)[f] = row[f]
           /\ \A i \in StopId \ Stops(row) : Aggregated(row).stops[i] = row.stops[i]
    <1> DEFINE stops == Rescheduled(row)
               current == [row EXCEPT !.stops = stops]
               a == Aggregated(row)
    <1>1. /\ HasStops(stops)
          /\ \A i \in StopId : stops[i].day = row.stops[i].day
          /\ \A i \in StopId : stops[i].status = "completed" /\ i \in Stops(row) => i \in Visited(row)
          /\ \A i \in Visited(row) : stops[i].status = "completed"
          /\ \A i \in StopId \ Stops(row) : stops[i] = row.stops[i]
        <2>1. stops = [i \in StopId |-> stops[i]]
            BY DEF Rescheduled
        <2>2. ASSUME NEW i \in StopId
              PROVE  /\ IsStop(stops[i]) /\ stops[i].day = row.stops[i].day
                     /\ stops[i].status = "completed" /\ i \in Stops(row) => i \in Visited(row)
                     /\ i \in Visited(row) => stops[i].status = "completed"
                     /\ i \notin Stops(row) => stops[i] = row.stops[i]
            <3>1. CASE i \in Stops(row) \ Visited(row)
                <4>1. row.stops[i].status # "completed" /\ IsStop(row.stops[i])
                    BY <3>1, StopsFacts DEF IsRow, HasStops
                <4>2. stops[i] = [row.stops[i] EXCEPT !.status = Scheduled(row, row.stops[i])]
                    BY <3>1 DEF Rescheduled
                <4>3. Scheduled(row, row.stops[i]) # "completed"
                    BY <4>1, ScheduledFact
                <4> HIDE DEF stops
                <4>4. QED
                    BY <3>1, <4>1, <4>2, <4>3, StopStatus
            <3>2. CASE i \notin Stops(row) \ Visited(row)
                <4>1. stops[i] = row.stops[i]
                    BY <3>2 DEF Rescheduled
                <4> HIDE DEF stops
                <4>2. QED
                    BY <3>2, <4>1, StopsFacts DEF IsRow, HasStops
            <3>3. QED
                BY <3>1, <3>2
        <2> HIDE DEF stops
        <2>3. QED
            BY <2>1, <2>2, StopsFacts DEF HasStops
    <1>2. a = [current EXCEPT !.visits = Cardinality(Visited(current)),
                              !.status = RouteStatus(current)]
        BY DEF Aggregated
    <1>3. /\ HasColumns(current) /\ current.stops = stops
          /\ \A f \in Column \ {"stops"} : current[f] = row[f]
        <2> HIDE DEF stops
        <2>1. QED
            BY DEF IsRow, HasColumns, Column
    <1> HIDE DEF stops, current, a
    <1>4. /\ HasColumns(a) /\ a.stops = stops
          /\ a.visits = Cardinality(Visited(current)) /\ a.status = RouteStatus(current)
          /\ \A f \in Column \ {"stops", "visits", "status"} : a[f] = row[f]
        BY <1>2, <1>3 DEF HasColumns, Column
    <1>5. /\ Stops(current) = Stops(row) /\ Visited(current) = Visited(row)
          /\ Stops(a) = Stops(row) /\ Visited(a) = Visited(row)
        BY <1>1, <1>3, <1>4, StopsFacts DEF Stops, Visited
    <1>6. Counted(a)
        BY <1>4, <1>5 DEF Counted, RouteStatus
    <1>7. QED
        BY <1>1, <1>4, <1>5, <1>6 DEF IsRow, a

\* Whose copies there are: those who have one have no other.
CopiesInv ==
    \A source \in RouteId, u \in User : \A q, r \in CopiesOf(source, u) : q = r

RoutesInv ==
    /\ route = [r \in RouteId |-> route[r]]
    /\ \A r \in RouteId :
          /\ IsRow(route[r]) /\ Counted(route[r])
          /\ route[r].life = "new" => Stops(route[r]) = {}
    /\ reading = NoRead \/ (reading.id \in RouteId /\ reading.row = route[reading.id])
    /\ CopiesInv

\* No request comes while a read recomputes a route.
OneAtATime == ~Overlap

\* What a step may make of the row old.
Evolves(old, new) ==
    /\ IsRow(new) /\ (Counted(old) => Counted(new))
    /\ new.life = "new" => Stops(new) = {}
    /\ KeepsVisits(old, new)

\* A copy is only made for someone who has none.
NoOtherCopy(new) ==
    new.public \/ (new.from \in RouteId /\ new.owner \in User => CopiesOf(new.from, new.owner) = {})

\* One row may become a copy, the others keep their keys.
LEMMA CopiesStay ==
    ASSUME CopiesInv, NEW r \in RouteId,
           \A q \in RouteId \ {r} : KeepsKeys(route[q], route'[q]),
           KeepsKeys(route[r], route'[r]) \/ NoOtherCopy(route'[r])
    PROVE  CopiesInv'
    <1> SUFFICES ASSUME NEW source \in RouteId, NEW u \in User,
                        NEW p \in CopiesOf(source, u)', NEW q \in CopiesOf(source, u)'
                 PROVE  p = q
        BY DEF CopiesInv
    <1>1. ASSUME NEW x \in CopiesOf(source, u)'
          PROVE  /\ x \in RouteId
                 /\ x # r => x \in CopiesOf(source, u)
                 /\ x = r => r \in CopiesOf(source, u) \/ CopiesOf(source, u) = {}
        <2>1. /\ x \in RouteId /\ route'[x].life = "row" /\ route'[x].owner = u
              /\ route'[x].from = source /\ ~route'[x].public
            BY <1>1 DEF CopiesOf, Known
        <2>2. KeepsKeys(route[x], route'[x]) => x \in CopiesOf(source, u)
            BY <2>1, RoutesAssumption DEF KeepsKeys, CopiesOf, Known
        <2>3. NoOtherCopy(route'[x]) => CopiesOf(source, u) = {}
            BY <2>1 DEF NoOtherCopy
        <2>4. QED
            BY <2>1, <2>2, <2>3
    <1>2. CASE p = r
        BY <1>1, <1>2 DEF CopiesInv
    <1>3. CASE p # r
        BY <1>1, <1>3 DEF CopiesInv
    <1>4. QED
        BY <1>2, <1>3

\* No step takes back a visit.
VisitsStay == \A r \in RouteId : KeepsVisits(route[r], route'[r])

\* What a step gives that changes the row of r alone.
LEMMA OneRow ==
    ASSUME OneAtATime, RoutesInv, NEW r \in RouteId, NEW new, Evolves(route[r], new),
           KeepsKeys(route[r], new) \/ NoOtherCopy(new),
           route' = [route EXCEPT ![r] = new],
           reading' = NoRead
    PROVE  RoutesInv' /\ VisitsStay
    <1>1. /\ route' = [q \in RouteId |-> route'[q]] /\ route'[r] = new
          /\ \A q \in RouteId \ {r} : route'[q] = route[q]
        BY DEF RoutesInv
    <1>2. \A q \in RouteId \ {r} : KeepsKeys(route[q], route'[q])
                                   /\ KeepsVisits(route[q], route'[q])
        BY <1>1 DEF KeepsKeys, KeepsVisits
    <1>3. CopiesInv'
        BY <1>1, <1>2, CopiesStay DEF RoutesInv
    <1>4. \A q \in RouteId : /\ IsRow(route'[q]) /\ Counted(route'[q])
                             /\ route'[q].life = "new" => Stops(route'[q]) = {}
        BY <1>1 DEF RoutesInv, Evolves
    <1>5. VisitsStay
        BY <1>1, <1>2 DEF VisitsStay, Evolves
    <1>6. QED
        BY <1>1, <1>3, <1>4, <1>5 DEF RoutesInv, NoRead

\* What a transaction gives that ends with updateRouteAggregates.
LEMMA SettlesStep ==
    ASSUME OneAtATime, RoutesInv, NEW r \in RouteId, NEW row, IsRow(row), Settles(r, row),
           Call(r), row.life # "new", KeepsVisits(route[r], row),
           KeepsKeys(route[r], row) \/ NoOtherCopy(row)
    PROVE  RoutesInv' /\ VisitsStay
    <1> DEFINE new == Aggregated(row)
    <1>1. /\ IsRow(new) /\ Counted(new) /\ Stops(new) = Stops(row) /\ Visited(new) = Visited(row)
          /\ new.life = row.life /\ new.owner = row.owner /\ new.from = row.from
          /\ new.public = row.public
        <2>1. \A f \in Column \ {"stops", "visits", "status"} : new[f] = row[f]
            BY AggregatedFacts
        <2>2. {"life", "owner", "from", "public"} \subseteq Column \ {"stops", "visits", "status"}
            BY DEF Column
        <2>3. QED
            BY <2>1, <2>2, AggregatedFacts
    <1>2. route' = [route EXCEPT ![r] = new] /\ reading' = NoRead
        BY DEF Settles, Becomes, Call, OneAtATime
    <1> HIDE DEF new
    <1>3. Evolves(route[r], new)
        BY <1>1 DEF Evolves, KeepsVisits
    <1>4. KeepsKeys(route[r], new) \/ NoOtherCopy(new)
        BY <1>1 DEF KeepsKeys, NoOtherCopy
    <1>5. QED
        BY <1>2, <1>3, <1>4, OneRow

-----------------------------------------------------------------------------
\* Requests that change the stops of a route.

\* A row with other stops and the same visits.
LEMMA EditedFacts ==
    ASSUME NEW old, IsRow(old), NEW stops, HasStops(stops), NEW edited,
           \A i \in Visited(old) : stops[i].day > 0 => stops[i].status = "completed"
    PROVE  /\ IsRow([old EXCEPT !.edited = edited, !.stops = stops])
           /\ [old EXCEPT !.edited = edited, !.stops = stops].life = old.life
           /\ KeepsKeys(old, [old EXCEPT !.edited = edited, !.stops = stops])
           /\ KeepsVisits(old, [old EXCEPT !.edited = edited, !.stops = stops])
    <1> DEFINE new == [old EXCEPT !.edited = edited, !.stops = stops]
    <1>1. /\ HasColumns(new) /\ new.stops = stops
          /\ new.life = old.life /\ new.owner = old.owner /\ new.from = old.from
          /\ new.public = old.public
        BY DEF IsRow, HasColumns, Column
    <1> HIDE DEF new
    <1>2. KeepsVisits(old, new)
        BY <1>1, StopsFacts DEF KeepsVisits
    <1>3. IsRow(new) /\ KeepsKeys(old, new)
        BY <1>1 DEF IsRow, KeepsKeys
    <1>4. QED
        BY <1>1, <1>2, <1>3 DEF new

\* A request that leaves the route with other stops and settles it.
LEMMA EditStep ==
    ASSUME OneAtATime, RoutesInv, NEW r \in RouteId, Call(r), Known(r), NEW stops, HasStops(stops),
           \A i \in Visited(route[r]) : stops[i].day > 0 => stops[i].status = "completed",
           Settles(r, [route[r] EXCEPT !.edited = TRUE, !.stops = stops])
    PROVE  RoutesInv' /\ VisitsStay
    <1> DEFINE row == [route[r] EXCEPT !.edited = TRUE, !.stops = stops]
    <1>1. IsRow(route[r]) /\ route[r].life = "row"
        BY DEF RoutesInv, Known
    <1>2. /\ IsRow(row) /\ row.life = "row"
          /\ KeepsKeys(route[r], row) /\ KeepsVisits(route[r], row)
        BY <1>1, EditedFacts
    <1> HIDE DEF row
    <1>3. Settles(r, row)
        BY DEF row
    <1>4. QED
        BY <1>2, <1>3, SettlesStep

\* One stop is changed, which keeps its status, or has not been visited.
LEMMA OneStopStep ==
    ASSUME OneAtATime, RoutesInv, NEW r \in RouteId, Call(r), Known(r), NEW i \in StopId,
           NEW x, IsStop(x),
           i \in Visited(route[r]) => x.status = "completed",
           Settles(r, WithStop(r, i, x))
    PROVE  RoutesInv' /\ VisitsStay
    <1> DEFINE stops == [route[r].stops EXCEPT ![i] = x]
    <1>1. IsRow(route[r])
        BY DEF RoutesInv
    <1>2. /\ HasStops(stops) /\ stops[i] = x
          /\ \A j \in StopId \ {i} : stops[j] = route[r].stops[j]
        BY <1>1 DEF IsRow, HasStops
    <1>3. WithStop(r, i, x) = [route[r] EXCEPT !.edited = TRUE, !.stops = stops]
        BY <1>1 DEF WithStop, IsRow, HasColumns, Column
    <1> HIDE DEF stops
    <1>4. \A j \in Visited(route[r]) : stops[j].day > 0 => stops[j].status = "completed"
        BY <1>2, StopsFacts
    <1>5. QED
        BY <1>2, <1>3, <1>4, EditStep

\* updateStopTime and updateStopDetails.
LEMMA ChangeStopStep ==
    ASSUME OneAtATime, RoutesInv, NEW r \in RouteId, NEW i \in StopId,
           \/ \E w \in Window : UpdateStopTime(r, i, w[1], w[2])
           \/ \E place \in Place : UpdateStopDetails(r, i, place)
    PROVE  RoutesInv' /\ VisitsStay
    <1> DEFINE x == route[r].stops[i]
    <1>1. IsStop(x)
        BY DEF RoutesInv, IsRow, HasStops
    <1>2. ASSUME NEW w \in Window, UpdateStopTime(r, i, w[1], w[2])
          PROVE  RoutesInv' /\ VisitsStay
        <2> DEFINE y == [x EXCEPT !.start = w[1], !.end = w[2]]
        <2>1. IsStop(y) /\ y.status = x.status
            BY <1>1 DEF IsStop, StopColumn
        <2>2. Call(r) /\ Known(r) /\ Settles(r, WithStop(r, i, y))
            BY <1>2 DEF UpdateStopTime
        <2> HIDE DEF y
        <2>3. i \in Visited(route[r]) => y.status = "completed"
            BY <2>1, StopsFacts
        <2>4. QED
            BY <2>1, <2>2, <2>3, OneStopStep
    <1>3. ASSUME NEW place \in Place, UpdateStopDetails(r, i, place)
          PROVE  RoutesInv' /\ VisitsStay
        <2> DEFINE y == [x EXCEPT !.place = place]
        <2>1. IsStop(y) /\ y.status = x.status
            BY <1>1 DEF IsStop, StopColumn
        <2>2. Call(r) /\ Known(r) /\ Settles(r, WithStop(r, i, y))
            BY <1>3 DEF UpdateStopDetails
        <2> HIDE DEF y
        <2>3. i \in Visited(route[r]) => y.status = "completed"
            BY <2>1, StopsFacts
        <2>4. QED
            BY <2>1, <2>2, <2>3, OneStopStep
    <1>4. QED
        BY <1>2, <1>3

\* checkInStop.
LEMMA CheckInStep ==
    ASSUME OneAtATime, RoutesInv, NEW r \in RouteId, NEW i \in StopId, CheckInStop(r, i)
    PROVE  RoutesInv' /\ VisitsStay
    <1> DEFINE old == route[r]
               x == [old.stops[i] EXCEPT !.status = "completed"]
               stops == [old.stops EXCEPT ![i] = x]
               row == [old EXCEPT !.edited = old.edited, !.stops = stops]
    <1>1. IsRow(old) /\ old.life = "row" /\ IsStop(old.stops[i])
        BY DEF RoutesInv, Known, CheckInStop, IsRow, HasStops
    <1>2. IsStop(x) /\ x.status = "completed"
        BY <1>1, StopStatus
    <1>3. Call(r) /\ Settles(r, row)
        <2>1. row = [route[r] EXCEPT !.stops[i].status = "completed"]
            BY <1>1 DEF IsRow, HasColumns, Column
        <2>2. QED
            BY <2>1 DEF CheckInStop
    <1> HIDE DEF x
    <1>4. /\ HasStops(stops) /\ stops[i] = x
          /\ \A j \in StopId \ {i} : stops[j] = old.stops[j]
        BY <1>1, <1>2 DEF IsRow, HasStops
    <1> HIDE DEF stops
    <1>5. \A j \in Visited(old) : stops[j].status = "completed"
        BY <1>2, <1>4, StopsFacts
    <1>6. IsRow(row) /\ row.life = "row" /\ KeepsKeys(old, row) /\ KeepsVisits(old, row)
        BY <1>1, <1>4, <1>5, EditedFacts
    <1> HIDE DEF row
    <1>7. QED
        BY <1>3, <1>6, SettlesStep

\* A stop gets another number.
LEMMA StopNumbered ==
    ASSUME NEW x, IsStop(x), NEW s
    PROVE  IsStop([x EXCEPT !.seq = s]) /\ [x EXCEPT !.seq = s].status = x.status
    BY DEF IsStop, StopColumn

\* Stops that a client asks for.
LEMMA AsRowsFacts ==
    ASSUME NEW D, NEW I, NEW i \in I
    PROVE  /\ IsStop(AsRows(D, I, "upcoming")[i])
           /\ AsRows(D, I, "upcoming")[i].status # "completed"
    <1> DEFINE x == AsRows(D, I, "upcoming")[i]
    <1>1. x = NoStop \/ \E d, s, b, e, p :
              x = [day |-> d, seq |-> s, start |-> b, end |-> e, place |-> p,
                   status |-> "upcoming"]
        BY DEF AsRows
    <1> HIDE DEF x
    <1>2. IsStop(x)
        BY <1>1 DEF IsStop, StopColumn, NoStop
    <1>3. x.status # "completed"
        BY <1>1 DEF NoStop
    <1>4. QED
        BY <1>2, <1>3 DEF x

\* addStops: new stops under free ids, all numbered anew.
LEMMA AddStopsStep ==
    ASSUME OneAtATime, RoutesInv, NEW r \in RouteId, NEW D \in Dto, AddStops(r, D)
    PROVE  RoutesInv' /\ VisitsStay
    <1> DEFINE free == StopId \ Stops(route[r])
               added == AsRows(D, free, "upcoming")
               asked == [i \in StopId |-> IF i \in free THEN added[i] ELSE route[r].stops[i]]
               stops == Resequenced(asked)
    <1>1. IsRow(route[r])
        BY DEF RoutesInv
    <1>2. Call(r) /\ Known(r) /\ Settles(r, [route[r] EXCEPT !.edited = TRUE, !.stops = stops])
        BY DEF AddStops
    <1>3. \A i \in free : IsStop(added[i])
        BY AsRowsFacts
    <1> HIDE DEF added
    <1>4. \A i \in StopId : /\ IsStop(asked[i])
                            /\ i \notin free => asked[i] = route[r].stops[i]
        BY <1>1, <1>3 DEF IsRow, HasStops
    <1> HIDE DEF asked
    <1>5. \A i \in StopId : /\ IsStop(stops[i])
                            /\ stops[i] = NoStop \/ stops[i].status = asked[i].status
        <2> SUFFICES ASSUME NEW i \in StopId
                     PROVE  /\ IsStop(stops[i])
                            /\ stops[i] = NoStop \/ stops[i].status = asked[i].status
            OBVIOUS
        <2>1. stops[i] = NoStop \/ \E n : stops[i] = [asked[i] EXCEPT !.seq = n]
            BY DEF Resequenced
        <2> HIDE DEF stops
        <2>2. IsStop(NoStop)
            BY DEF IsStop, StopColumn, NoStop
        <2>3. QED
            BY <1>4, <2>1, <2>2 DEF IsStop, StopColumn
    <1>6. stops = [i \in StopId |-> stops[i]]
        BY DEF Resequenced
    <1> HIDE DEF stops
    <1>7. HasStops(stops)
        BY <1>5, <1>6 DEF HasStops
    <1>8. \A i \in Visited(route[r]) : stops[i].day > 0 => stops[i].status = "completed"
        BY <1>4, <1>5, StopsFacts DEF NoStop
    <1>9. QED
        BY <1>2, <1>7, <1>8, EditStep

\* reorderStop: places and times move, statuses do not.
LEMMA ReorderStep ==
    ASSUME OneAtATime, RoutesInv, NEW r \in RouteId, NEW i \in StopId, NEW n \in StopId,
           ReorderStop(r, i, n)
    PROVE  RoutesInv' /\ VisitsStay
    <1>1. IsRow(route[r]) /\ \A j \in StopId : IsStop(route[r].stops[j])
        BY DEF RoutesInv, IsRow, HasStops
    <1> DEFINE row == route[r]
               day == {j \in Stops(row) : row.stops[j].day = row.stops[i].day}
               At(j) == 1 + Cardinality({k \in day : row.stops[k].seq < row.stops[j].seq})
               to == IF n > Cardinality(day) THEN Cardinality(day) ELSE n
               To(j) == IF j = i THEN to
                        ELSE IF At(j) > At(i) /\ At(j) <= to THEN At(j) - 1
                        ELSE IF At(j) < At(i) /\ At(j) >= to THEN At(j) + 1 ELSE At(j)
               t(j) == row.stops[CHOOSE k \in day : At(k) = To(j)]
               Moved(j) == [row.stops[j] EXCEPT !.seq = To(j), !.start = t(j).start,
                                                !.end = t(j).end]
               stops == [j \in StopId |-> IF j \in day THEN Moved(j) ELSE row.stops[j]]
    <1>2. Call(r) /\ Known(r) /\ Settles(r, [route[r] EXCEPT !.edited = TRUE, !.stops = stops])
        BY DEF ReorderStop
    <1> HIDE DEF day, to, To, t
    <1>3. \A j \in StopId : IsStop(stops[j]) /\ stops[j].status = row.stops[j].status
        <2> SUFFICES ASSUME NEW j \in StopId
                     PROVE  IsStop(stops[j]) /\ stops[j].status = row.stops[j].status
            OBVIOUS
        <2>1. IsStop(Moved(j)) /\ Moved(j).status = row.stops[j].status
            <3> DEFINE x == row.stops[j]
                       b == t(j).start
                       e == t(j).end
                       s == To(j)
            <3>1. IsStop(x)
                BY <1>1
            <3>2. Moved(j) = [x EXCEPT !.seq = s, !.start = b, !.end = e]
                OBVIOUS
            <3> HIDE DEF x, b, e, s, Moved
            <3>3. IsStop(Moved(j)) /\ Moved(j).status = x.status
                BY <3>1, <3>2 DEF IsStop, StopColumn
            <3>4. QED
                BY <3>3 DEF x
        <2>2. stops[j] = Moved(j) \/ stops[j] = row.stops[j]
            <3> HIDE DEF Moved
            <3>1. QED
                OBVIOUS
        <2> HIDE DEF stops, Moved
        <2>3. QED
            BY <1>1, <2>1, <2>2
    <1>4. stops = [j \in StopId |-> stops[j]]
        <2> HIDE DEF Moved
        <2>1. QED
            OBVIOUS
    <1> HIDE DEF stops
    <1>5. HasStops(stops)
        BY <1>3, <1>4 DEF HasStops
    <1>6. \A j \in Visited(route[r]) : stops[j].day > 0 => stops[j].status = "completed"
        BY <1>3, StopsFacts
    <1>7. QED
        BY <1>2, <1>5, <1>6, EditStep

\* removeStop: the other stops of the day are numbered anew.
LEMMA RemoveStopStep ==
    ASSUME OneAtATime, RoutesInv, NEW r \in RouteId, NEW i \in StopId, RemoveStop(r, i)
    PROVE  RoutesInv' /\ VisitsStay
    <1>1. IsRow(route[r]) /\ \A j \in StopId : IsStop(route[r].stops[j])
        BY DEF RoutesInv, IsRow, HasStops
    <1> DEFINE row == route[r]
               later(j) == {k \in Stops(row) \ {i, j} :
                              /\ row.stops[k].day = row.stops[j].day
                              /\ \/ row.stops[k].seq < row.stops[j].seq
                                 \/ row.stops[k].seq = row.stops[j].seq /\ k < j}
               next(j) == [row.stops[j] EXCEPT !.seq = 1 + Cardinality(later(j))]
               stops == [j \in StopId |->
                            IF j = i THEN NoStop
                            ELSE IF row.stops[j].day = row.stops[i].day THEN next(j)
                            ELSE row.stops[j]]
    <1>2. Call(r) /\ Known(r) /\ Settles(r, [route[r] EXCEPT !.edited = TRUE, !.stops = stops])
        BY DEF RemoveStop
    <1>3. IsStop(NoStop) /\ NoStop.day = 0
        BY DEF IsStop, StopColumn, NoStop
    <1>4. \A j \in StopId : /\ IsStop(stops[j])
                            /\ stops[j] = NoStop \/ stops[j].status = row.stops[j].status
        <2> SUFFICES ASSUME NEW j \in StopId
                     PROVE  /\ IsStop(stops[j])
                            /\ stops[j] = NoStop \/ stops[j].status = row.stops[j].status
            OBVIOUS
        <2>1. IsStop(next(j)) /\ next(j).status = row.stops[j].status
            BY <1>1, StopNumbered
        <2>2. stops[j] = NoStop \/ stops[j] = next(j) \/ stops[j] = row.stops[j]
            <3> HIDE DEF next
            <3>1. QED
                OBVIOUS
        <2> HIDE DEF stops, next
        <2>3. QED
            BY <1>1, <1>3, <2>1, <2>2
    <1>5. stops = [j \in StopId |-> stops[j]]
        <2> HIDE DEF next
        <2>1. QED
            OBVIOUS
    <1> HIDE DEF stops
    <1>6. HasStops(stops)
        BY <1>4, <1>5 DEF HasStops
    <1>7. \A j \in Visited(route[r]) : stops[j].day > 0 => stops[j].status = "completed"
        BY <1>3, <1>4, StopsFacts
    <1>8. QED
        BY <1>2, <1>6, <1>7, EditStep

-----------------------------------------------------------------------------
\* Requests that make a route.

\* A new route has no visits to keep.
LEMMA NewRoute ==
    ASSUME RoutesInv, NEW r \in RouteId, New(r), NEW new
    PROVE  KeepsVisits(route[r], new)
    BY StopsFacts DEF RoutesInv, New, KeepsVisits

\* The row before anything is known of it.
LEMMA NoRouteFacts ==
    /\ IsRow(NoRoute) /\ Stops(NoRoute) = {} /\ Counted(NoRoute)
    /\ NoRoute.public = FALSE /\ NoRoute.from = Nobody /\ NoRoute.visits = 0
    <1>1. IsRow(NoRoute)
        BY DEF IsRow, HasColumns, NoRoute, Column, HasStops, IsStop, NoStop, StopColumn
    <1>2. Stops(NoRoute) = {} /\ Visited(NoRoute) = {}
        BY DEF Stops, Visited, NoRoute, NoStop
    <1>3. Cardinality({}) = 0
        BY FS_EmptySet
    <1>4. QED
        BY <1>1, <1>2, <1>3 DEF Counted, NoRoute

\* create and claimSuggestedRoute make a route that is nobody's copy.
LEMMA CreateStep ==
    ASSUME OneAtATime, RoutesInv, NEW r \in RouteId, NEW u, NEW start, NEW end,
           Create(r, u, start, end)
    PROVE  RoutesInv' /\ VisitsStay
    <1> DEFINE row == [NoRoute EXCEPT !.life = "row", !.owner = u, !.start = start, !.end = end,
                                      !.status = "upcoming"]
    <1>1. Call(r) /\ New(r) /\ Settles(r, row)
        BY DEF Create
    <1>2. HasColumns(row) /\ row.stops = NoRoute.stops /\ row.life = "row" /\ row.from = Nobody
        BY NoRouteFacts DEF IsRow, HasColumns, Column
    <1> HIDE DEF row
    <1>3. IsRow(row) /\ NoOtherCopy(row)
        BY <1>2, NoRouteFacts, RoutesAssumption DEF IsRow, NoOtherCopy
    <1>4. QED
        BY <1>1, <1>2, <1>3, NewRoute, SettlesStep

\* A suggested route becomes the user's as the client sends it back.
LEMMA ClaimStep ==
    ASSUME OneAtATime, RoutesInv, NEW r \in RouteId, NEW u, NEW start, NEW end, NEW D,
           ClaimSuggestedRoute(r, u, start, end, D)
    PROVE  RoutesInv' /\ VisitsStay
    <1> DEFINE added == AsRows(D, StopId, "upcoming")
               row == [NoRoute EXCEPT !.life = "row", !.owner = u, !.start = start, !.end = end,
                                      !.status = "draft", !.edited = TRUE, !.stops = added]
    <1>1. /\ Call(r) /\ New(r) /\ route' = [route EXCEPT ![r] = row]
        BY DEF ClaimSuggestedRoute, Becomes
    <1>2. \A i \in StopId : IsStop(added[i]) /\ added[i].status # "completed"
        BY AsRowsFacts
    <1>3. added = [i \in StopId |-> added[i]]
        BY DEF AsRows
    <1> HIDE DEF added
    <1>4. /\ HasColumns(row) /\ row.stops = added /\ row.life = "row" /\ row.from = Nobody
          /\ row.visits = 0 /\ row.status = "draft"
        BY NoRouteFacts DEF IsRow, HasColumns, Column
    <1> HIDE DEF row
    <1>5. Visited(row) = {}
        BY <1>2, <1>4 DEF Visited, Stops
    <1>6. IsRow(row) /\ NoOtherCopy(row) /\ Counted(row)
        BY <1>2, <1>3, <1>4, <1>5, RoutesAssumption, FS_EmptySet
           DEF IsRow, HasStops, NoOtherCopy, Counted
    <1>7. Evolves(route[r], row)
        BY <1>1, <1>4, <1>6, NewRoute DEF Evolves
    <1>8. QED
        BY <1>1, <1>6, <1>7, OneRow DEF Call, OneAtATime

\* publicize makes a public route of the finished one.
LEMMA PublicizeStep ==
    ASSUME OneAtATime, RoutesInv, NEW r \in RouteId, NEW source \in RouteId, NEW u,
           PublicizeRoute(source, r, u)
    PROVE  RoutesInv' /\ VisitsStay
    <1> DEFINE stops == [i \in StopId |-> [route[source].stops[i] EXCEPT !.status = "none"]]
               row == [route[source] EXCEPT !.public = TRUE, !.edited = FALSE, !.visits = 0,
                          !.status = "none", !.from = source, !.favourites = 0, !.stops = stops]
    <1>1. /\ Call(r) /\ New(r) /\ Settles(r, row)
          /\ route[source].life = "row" /\ IsRow(route[source])
        BY DEF PublicizeRoute, CloneRoute, Owned, Known, RoutesInv
    <1>2. HasStops(stops)
        BY <1>1, StopStatus DEF IsRow, HasStops
    <1> HIDE DEF stops
    <1>3. HasColumns(row) /\ row.stops = stops /\ row.life = "row" /\ row.public = TRUE
        BY <1>1 DEF IsRow, HasColumns, Column
    <1> HIDE DEF row
    <1>4. IsRow(row) /\ NoOtherCopy(row)
        BY <1>2, <1>3 DEF IsRow, NoOtherCopy
    <1>5. QED
        BY <1>1, <1>3, <1>4, NewRoute, SettlesStep

\* useClone makes the copy of someone who has none.
LEMMA UseCloneStep ==
    ASSUME OneAtATime, RoutesInv, NEW r \in RouteId, NEW source \in RouteId, NEW u,
           NEW start, NEW end, UseClone(source, r, u, start, end)
    PROVE  RoutesInv' /\ VisitsStay
    <1> DEFINE stops == [i \in StopId |->
                   IF i \in Stops(route[source])
                   THEN [route[source].stops[i] EXCEPT
                            !.status = StatusFor(start, route[source].stops[i])]
                   ELSE NoStop]
               row == [route[source] EXCEPT !.owner = u, !.public = FALSE, !.edited = FALSE,
                          !.visits = 0, !.start = start, !.end = end, !.status = "upcoming",
                          !.from = source, !.favourites = 0, !.stops = stops]
    <1>1. /\ Call(r) /\ New(r) /\ Settles(r, row) /\ CopiesOf(source, u) = {}
          /\ route[source].life = "row" /\ IsRow(route[source])
        BY DEF UseClone, PersonalCopy, Known, RoutesInv, OneAtATime
    <1>2. IsStop(NoStop)
        BY DEF IsStop, StopColumn, NoStop
    <1>3. HasStops(stops)
        BY <1>1, <1>2, StopStatus DEF IsRow, HasStops
    <1> HIDE DEF stops
    <1>4. /\ HasColumns(row) /\ row.stops = stops /\ row.life = "row"
          /\ row.from = source /\ row.owner = u
        BY <1>1 DEF IsRow, HasColumns, Column
    <1> HIDE DEF row
    <1>5. IsRow(row) /\ NoOtherCopy(row)
        BY <1>1, <1>3, <1>4 DEF IsRow, NoOtherCopy
    <1>6. QED
        BY <1>1, <1>4, <1>5, NewRoute, SettlesStep

-----------------------------------------------------------------------------
\* Requests that leave the stops alone.

\* A row that only differs in who likes it or whether it was edited.
LEMMA MarkStep ==
    ASSUME OneAtATime, RoutesInv, NEW r \in RouteId, Call(r), NEW f \in {"edited", "favourites"},
           NEW v, route' = [route EXCEPT ![r] = [route[r] EXCEPT ![f] = v]]
    PROVE  RoutesInv' /\ VisitsStay
    <1> DEFINE old == route[r]
               new == [old EXCEPT ![f] = v]
    <1>1. IsRow(old) /\ Counted(old) /\ (old.life = "new" => Stops(old) = {})
        BY DEF RoutesInv
    <1>2. /\ HasColumns(new) /\ new.stops = old.stops /\ new.visits = old.visits
          /\ new.status = old.status /\ new.life = old.life /\ new.owner = old.owner
          /\ new.from = old.from /\ new.public = old.public
        BY <1>1 DEF IsRow, HasColumns, Column
    <1>3. route' = [route EXCEPT ![r] = new]
        OBVIOUS
    <1> HIDE DEF new
    <1>4. Evolves(old, new) /\ KeepsKeys(old, new)
        BY <1>1, <1>2 DEF Evolves, IsRow, Counted, KeepsVisits, KeepsKeys, Stops, Visited
    <1>5. QED
        BY <1>3, <1>4, OneRow DEF Call, OneAtATime

\* uploadStopMedia, deleteStopMedia and the favourites.
LEMMA MarksStep ==
    ASSUME OneAtATime, RoutesInv, NEW r \in RouteId,
           \/ \E i \in StopId : EditMedia(r, i)
           \/ \E u \in User : Favorite(r, u) \/ Unfavorite(r, u)
    PROVE  RoutesInv' /\ VisitsStay
    <1>1. ASSUME NEW i \in StopId, EditMedia(r, i) PROVE RoutesInv' /\ VisitsStay
        BY <1>1, MarkStep DEF EditMedia, Becomes
    <1>2. ASSUME NEW u \in User, Favorite(r, u) PROVE RoutesInv' /\ VisitsStay
        BY <1>2, MarkStep DEF Favorite, Becomes
    <1>3. ASSUME NEW u \in User, Unfavorite(r, u) PROVE RoutesInv' /\ VisitsStay
        <2>1. IsRow(route[r]) /\ Call(r)
            BY <1>3 DEF RoutesInv, Unfavorite
        <2>2. CASE Known(r)
            BY <1>3, <2>1, <2>2, MarkStep DEF Unfavorite, Becomes
        <2>3. CASE ~Known(r)
            <3>1. route[r] = [route[r] EXCEPT !.edited = route[r].edited]
                BY <2>1 DEF IsRow, HasColumns, Column
            <3>2. QED
                BY <1>3, <2>1, <2>3, <3>1, MarkStep DEF Unfavorite, Becomes
        <2>4. QED
            BY <2>2, <2>3
    <1>4. QED
        BY <1>1, <1>2, <1>3

\* Rows that lose their owner or their origin, or are deleted.
LEMMA DeletionStep ==
    ASSUME OneAtATime, RoutesInv, reading' = NoRead,
           route' = [r \in RouteId |-> route'[r]],
           \A r \in RouteId :
               \/ route'[r] = [NoRoute EXCEPT !.life = "deleted"]
               \/ route'[r] = [route[r] EXCEPT !.from = Nobody]
               \/ route'[r] = [route[r] EXCEPT !.owner = Nobody]
               \/ route'[r] = route[r]
    PROVE  RoutesInv' /\ VisitsStay
    <1>1. ASSUME NEW r \in RouteId
          PROVE  Evolves(route[r], route'[r]) /\ KeepsKeys(route[r], route'[r])
        <2> DEFINE old == route[r]
                   new == route'[r]
        <2>1. IsRow(old) /\ Counted(old) /\ (old.life = "new" => Stops(old) = {})
            BY DEF RoutesInv
        <2>2. CASE new = [NoRoute EXCEPT !.life = "deleted"]
            <3>1. /\ HasColumns(new) /\ new.stops = NoRoute.stops /\ new.visits = 0
                  /\ new.life = "deleted" /\ new.status = NoRoute.status
                BY <2>2, NoRouteFacts DEF IsRow, HasColumns, Column
            <3>2. Stops(new) = {} /\ Visited(new) = Visited(NoRoute)
                BY <3>1, NoRouteFacts DEF Stops, Visited
            <3>3. QED
                BY <3>1, <3>2, NoRouteFacts DEF Evolves, KeepsKeys, IsRow, Counted, KeepsVisits
        <2>3. CASE \/ new = [old EXCEPT !.from = Nobody]
                   \/ new = [old EXCEPT !.owner = Nobody] \/ new = old
            <3>1. /\ HasColumns(new) /\ new.stops = old.stops /\ new.visits = old.visits
                  /\ new.status = old.status /\ KeepsKeys(old, new)
                  /\ new.life = old.life
                BY <2>1, <2>3 DEF IsRow, HasColumns, Column, KeepsKeys
            <3> HIDE DEF new
            <3>2. QED
                BY <2>1, <3>1 DEF Evolves, IsRow, Counted, KeepsVisits, Stops, Visited, new
        <2>4. QED
            BY <2>2, <2>3
    <1>2. CASE RouteId = {}
        BY <1>2 DEF RoutesInv, VisitsStay, CopiesInv, NoRead
    <1>3. CASE RouteId # {}
        <2>1. PICK r \in RouteId : TRUE
            BY <1>3
        <2>2. CopiesInv'
            BY <1>1, <2>1, CopiesStay DEF RoutesInv
        <2>3. QED
            BY <1>1, <2>2 DEF RoutesInv, Evolves, VisitsStay, NoRead
    <1>4. QED
        BY <1>2, <1>3

\* remove of a route, of an account.
LEMMA RemoveStep ==
    ASSUME OneAtATime, RoutesInv,
           (\E r \in RouteId : Remove(r)) \/ (\E u \in User : RemoveUser(u))
    PROVE  RoutesInv' /\ VisitsStay
    <1>1. ASSUME NEW r \in RouteId, Remove(r) PROVE RoutesInv' /\ VisitsStay
        BY <1>1, DeletionStep DEF Remove, Call, OneAtATime
    <1>2. ASSUME NEW u \in User, RemoveUser(u) PROVE RoutesInv' /\ VisitsStay
        BY <1>2, DeletionStep DEF RemoveUser, OneAtATime
    <1>3. QED
        BY <1>1, <1>2

-----------------------------------------------------------------------------
\* update, whose findOne reads the old rows before its transaction commits.

\* What both leave: a column at a time.
LEMMA MergedFacts ==
    ASSUME NEW old, IsRow(old), NEW new, IsRow(new)
    PROVE  /\ IsRow(Merged(old, new))
           /\ \A i \in StopId : Merged(old, new).stops[i] =
                  IF new.stops[i] # old.stops[i] THEN new.stops[i] ELSE Aggregated(old).stops[i]
           /\ \A f \in Column \ {"stops"} : Merged(old, new)[f] =
                  IF new[f] # old[f] THEN new[f] ELSE Aggregated(old)[f]
    <1> DEFINE fresh == Aggregated(old)
               m == Merged(old, new)
               stops == [i \in StopId |->
                            IF new.stops[i] # old.stops[i] THEN new.stops[i] ELSE fresh.stops[i]]
    <1>1. IsRow(fresh)
        BY AggregatedFacts
    <1>2. m = [f \in DOMAIN old |-> IF f = "stops" THEN stops
                                    ELSE IF new[f] # old[f] THEN new[f] ELSE fresh[f]]
        BY DEF Merged
    <1>3. /\ \A i \in StopId : stops[i] =
                 IF new.stops[i] # old.stops[i] THEN new.stops[i] ELSE fresh.stops[i]
          /\ HasStops(stops)
        <2> HIDE DEF fresh
        <2>1. QED
            BY <1>1 DEF IsRow, HasStops
    <1> HIDE DEF fresh, stops, m
    <1>4. /\ HasColumns(m) /\ m.stops = stops
          /\ \A f \in Column \ {"stops"} : m[f] = IF new[f] # old[f] THEN new[f] ELSE fresh[f]
        BY <1>2 DEF IsRow, HasColumns, Column
    <1>5. QED
        BY <1>3, <1>4 DEF IsRow, fresh, m

\* The keys of a row that an update changes stay.
LEMMA MergedKeys ==
    ASSUME NEW old, IsRow(old), NEW new, IsRow(new),
           \A f \in {"life", "owner", "from", "public"} : new[f] = old[f]
    PROVE  KeepsKeys(old, Merged(old, new)) /\ Merged(old, new).life = old.life
    <1>1. {"life", "owner", "from", "public"} \subseteq Column \ {"stops", "visits", "status"}
        BY DEF Column
    <1>2. \A f \in {"life", "owner", "from", "public"} : Merged(old, new)[f] = old[f]
        BY <1>1, MergedFacts, AggregatedFacts
    <1>3. QED
        BY <1>2 DEF KeepsKeys

\* A date the request does not name keeps its column.
LEMMA DatedFacts ==
    ASSUME NEW row, IsRow(row), NEW start, NEW end
    PROVE  /\ HasColumns(Dated(row, start, end))
           /\ \A f \in Column \ {"start", "end", "edited"} : Dated(row, start, end)[f] = row[f]
    BY DEF IsRow, HasColumns, Column, Dated

\* What update gives when it can commit, or when it waits for itself.
LEMMA UpdatesStep ==
    ASSUME OneAtATime, RoutesInv, NEW r \in RouteId, Call(r), Known(r), NEW new, IsRow(new),
           \A f \in {"life", "owner", "from", "public"} : new[f] = route[r][f],
           ~Waits(route[r], new) => /\ Counted(Merged(route[r], new))
                                    /\ KeepsVisits(route[r], Merged(route[r], new)),
           Updates(r, new)
    PROVE  RoutesInv' /\ VisitsStay
    <1>1. reading = NoRead /\ reading' = NoRead /\ IsRow(route[r]) /\ route[r].life = "row"
        BY DEF Call, OneAtATime, RoutesInv, Known
    <1>2. CASE Waits(route[r], new)
        <2>1. route' = route
            BY <1>2 DEF Updates
        <2>2. QED
            BY <1>1, <2>1
               DEF RoutesInv, VisitsStay, KeepsVisits, CopiesInv, CopiesOf, Known
    <1>3. CASE ~Waits(route[r], new)
        <2> DEFINE m == Merged(route[r], new)
        <2>1. route' = [route EXCEPT ![r] = m]
            BY <1>3 DEF Updates, Becomes
        <2>2. IsRow(m)
            BY <1>1, MergedFacts
        <2>3. KeepsKeys(route[r], m) /\ m.life = "row"
            BY <1>1, MergedKeys
        <2>4. Evolves(route[r], m)
            BY <1>3, <2>2, <2>3 DEF Evolves
        <2> HIDE DEF m
        <2>5. QED
            BY <1>1, <2>1, <2>3, <2>4, OneRow
    <1>4. QED
        BY <1>2, <1>3

\* update without stops.
LEMMA UpdateDatesStep ==
    ASSUME OneAtATime, RoutesInv, NEW r \in RouteId, NEW u, NEW start, NEW end,
           UpdateDates(r, u, start, end)
    PROVE  RoutesInv' /\ VisitsStay
    <1> DEFINE old == route[r]
               new == Dated(old, start, end)
               fresh == Aggregated(old)
               m == Merged(old, new)
    <1>1. Call(r) /\ Known(r) /\ Updates(r, new) /\ IsRow(old)
        BY DEF UpdateDates, Owned, RoutesInv
    <1>2. /\ HasColumns(new)
          /\ \A f \in Column \ {"start", "end", "edited"} : new[f] = old[f]
        BY <1>1, DatedFacts
    <1>3. /\ new.stops = old.stops /\ new.visits = old.visits /\ new.status = old.status
          /\ \A f \in {"life", "owner", "from", "public"} : new[f] = old[f]
        BY <1>2 DEF Column
    <1> HIDE DEF new
    <1>4. IsRow(new)
        BY <1>1, <1>2, <1>3 DEF IsRow
    <1>5. /\ \A i \in StopId : m.stops[i] = fresh.stops[i]
          /\ m.visits = fresh.visits /\ m.status = fresh.status
        BY <1>1, <1>3, <1>4, MergedFacts DEF Column
    <1>6. Counted(fresh) /\ Stops(fresh) = Stops(old) /\ Visited(fresh) = Visited(old)
        BY <1>1, AggregatedFacts
    <1> HIDE DEF m, fresh
    <1>7. Stops(m) = Stops(fresh) /\ Visited(m) = Visited(fresh)
        BY <1>5 DEF Stops, Visited
    <1>8. Counted(m) /\ KeepsVisits(old, m)
        BY <1>5, <1>6, <1>7 DEF Counted, KeepsVisits
    <1>9. QED
        BY <1>1, <1>3, <1>4, <1>8, UpdatesStep DEF m

\* Rows that agree in all but the stops.
LEMMA SameColumnValues ==
    ASSUME NEW x, HasColumns(x), NEW y, HasColumns(y), NEW c,
           [x EXCEPT !.stops = c] = [y EXCEPT !.stops = c]
    PROVE  x.visits = y.visits /\ x.status = y.status
    <1>1. /\ [x EXCEPT !.stops = c].visits = x.visits /\ [x EXCEPT !.stops = c].status = x.status
          /\ [y EXCEPT !.stops = c].visits = y.visits /\ [y EXCEPT !.stops = c].status = y.status
        BY DEF HasColumns, Column
    <1>2. QED
        BY <1>1

\* update with stops: the old ones go, visited or not.  When the old status
\* is written back over the new one, the points tell that it may not be
\* COMPLETED: the two transactions would wait for each other.
LEMMA ReplaceStopsStep ==
    ASSUME OneAtATime, RoutesInv, NEW r \in RouteId, NEW u, NEW start, NEW end, NEW D,
           ReplaceStops(r, u, start, end, D)
    PROVE  RoutesInv' /\ VisitsStay
    <1> DEFINE old == route[r]
               free == StopId \ Stops(old)
               added == AsRows(D, free, "upcoming")
               asked == [i \in StopId |-> IF i \in free THEN added[i] ELSE NoStop]
               row == [Dated(old, start, end) EXCEPT !.stops = asked]
               new == Aggregated(row)
               fresh == Aggregated(old)
               m == Merged(old, new)
    <1>1. Call(r) /\ Known(r) /\ Updates(r, new) /\ IsRow(old) /\ Counted(old)
        BY DEF ReplaceStops, Owned, RoutesInv
    <1>2. /\ \A i \in StopId : IsStop(asked[i]) /\ asked[i].status # "completed"
          /\ \A i \in Stops(old) : i \in StopId /\ asked[i].day = 0
          /\ HasStops(asked)
        <2>1. \A i \in free : IsStop(added[i]) /\ added[i].status # "completed"
            BY AsRowsFacts
        <2>2. IsStop(NoStop) /\ NoStop.status # "completed" /\ NoStop.day = 0
            BY DEF IsStop, StopColumn, NoStop
        <2> HIDE DEF added
        <2>3. \A i \in StopId : asked[i] = IF i \in free THEN added[i] ELSE NoStop
            OBVIOUS
        <2>4. asked = [i \in StopId |-> asked[i]]
            OBVIOUS
        <2> HIDE DEF asked
        <2>5. QED
            BY <2>1, <2>2, <2>3, <2>4, StopsFacts DEF HasStops
    <1> HIDE DEF asked
    <1>3. /\ IsRow(row) /\ row.stops = asked
          /\ \A f \in {"life", "owner", "from", "public"} : row[f] = old[f]
        <2> DEFINE dated == Dated(old, start, end)
        <2>1. HasColumns(dated) /\ \A f \in Column \ {"start", "end", "edited"} : dated[f] = old[f]
            BY <1>1, DatedFacts
        <2> HIDE DEF dated
        <2>2. /\ HasColumns(row) /\ row.stops = asked
              /\ \A f \in Column \ {"stops"} : row[f] = dated[f]
            BY <2>1 DEF HasColumns, Column, dated
        <2> HIDE DEF row
        <2>3. QED
            BY <1>2, <2>1, <2>2 DEF IsRow, Column
    <1> HIDE DEF row
    <1>4. Visited(row) = {} /\ Stops(row) \cap Stops(old) = {}
        BY <1>2, <1>3, StopsFacts
    <1>5. /\ IsRow(new) /\ Counted(new) /\ Visited(new) = {} /\ Stops(new) = Stops(row)
          /\ \A i \in StopId \ Stops(row) : new.stops[i] = asked[i]
          /\ \A f \in {"life", "owner", "from", "public"} : new[f] = old[f]
        BY <1>3, <1>4, AggregatedFacts DEF Column
    <1>6. /\ IsRow(fresh) /\ Counted(fresh) /\ Stops(fresh) = Stops(old)
          /\ Visited(fresh) = Visited(old)
          /\ \A i \in StopId \ Stops(old) : fresh.stops[i] = old.stops[i]
        BY <1>1, AggregatedFacts
    <1>7. /\ new.visits = 0 /\ fresh.visits = old.visits
          /\ old.visits = 0 <=> Visited(old) = {}
          /\ new.status # "completed"
        <2>1. Visited(old) \in SUBSET StopId
            BY StopsFacts
        <2>2. QED
            BY <1>1, <1>5, <1>6, <2>1, StopSets, FS_EmptySet DEF Counted
    <1>8. /\ \A i \in StopId : m.stops[i] =
                IF new.stops[i] # old.stops[i] THEN new.stops[i] ELSE fresh.stops[i]
          /\ m.visits = IF new.visits # old.visits THEN new.visits ELSE fresh.visits
          /\ m.status = IF new.status # old.status THEN new.status ELSE fresh.status
        BY <1>1, <1>5, MergedFacts DEF Column
    <1>9. ASSUME ~Waits(old, new)
          PROVE  Counted(m) /\ KeepsVisits(old, m)
        <2>1. \A i \in Stops(old) : new.stops[i] = old.stops[i] \/ fresh.stops[i] = old.stops[i]
            BY <1>9 DEF Waits
        <2>2. \/ [new EXCEPT !.stops = NoRoute.stops] = [old EXCEPT !.stops = NoRoute.stops]
              \/ [fresh EXCEPT !.stops = NoRoute.stops] = [old EXCEPT !.stops = NoRoute.stops]
            BY <1>1, <1>9 DEF Waits, Updates
        <2> HIDE DEF m, new, fresh
        <2>3. \A i \in StopId : m.stops[i] = new.stops[i]
            <3>1. ASSUME NEW i \in Stops(old)
                  PROVE  new.stops[i] # old.stops[i]
                BY <1>2, <1>4, <1>5, StopsFacts
            <3>2. QED
                BY <1>6, <1>8, <2>1, <3>1
        <2>4. Stops(m) = Stops(new) /\ Visited(m) = Visited(new)
            BY <2>3 DEF Stops, Visited
        <2>5. m.visits = new.visits
            BY <1>7, <1>8
        <2>6. m.status # "completed"
            <3> SUFFICES ASSUME m.status = "completed" PROVE FALSE
                OBVIOUS
            <3>1. new.status = old.status /\ fresh.status = "completed"
                BY <1>7, <1>8
            <3>2. new.visits # old.visits
                BY <1>6, <1>7, <3>1 DEF Counted
            <3>3. fresh.status = old.status
                <4>1. HasColumns(new) /\ HasColumns(fresh) /\ HasColumns(old)
                    BY <1>1, <1>5, <1>6 DEF IsRow
                <4>2. QED
                    BY <2>2, <3>2, <4>1, SameColumnValues
            <3>4. QED
                BY <1>7, <3>1, <3>3
        <2>7. Counted(m)
            BY <1>5, <2>4, <2>5, <2>6 DEF Counted
        <2>8. KeepsVisits(old, m)
            BY <1>4, <1>5, <2>4, StopsFacts DEF KeepsVisits
        <2>9. QED
            BY <2>7, <2>8
    <1> HIDE DEF new
    <1>10. QED
        BY <1>1, <1>5, <1>9, UpdatesStep DEF m

-----------------------------------------------------------------------------
\* Reads, and time.

\* The save of a read that nothing came between.
LEMMA ReadSaveStep ==
    ASSUME OneAtATime, RoutesInv, ReadSave
    PROVE  RoutesInv' /\ VisitsStay
    <1> DEFINE r == reading.id
               row == route[r]
               new == Aggregated(row)
               stops == [i \in StopId |->
                            IF i \in Stops(row)
                            THEN IF new.stops[i] # row.stops[i] THEN new.stops[i] ELSE row.stops[i]
                            ELSE NoStop]
               saved == [row EXCEPT !.stops = stops,
                            !.visits = IF new.visits # row.visits THEN new.visits ELSE row.visits,
                            !.status = IF new.status # row.status THEN new.status ELSE row.status]
    <1>1. /\ r \in RouteId /\ reading.row = row /\ reading' = NoRead
          /\ IsRow(row) /\ Counted(row) /\ (row.life = "new" => Stops(row) = {})
        BY DEF ReadSave, RoutesInv
    <1>2. /\ route' = [route EXCEPT ![r] =
                          IF row.life # "row" \/ ~Sequential(new) THEN row ELSE saved]
        BY <1>1 DEF ReadSave, Becomes
    <1>3. IsRow(new) /\ Counted(new) /\ Stops(new) = Stops(row) /\ Visited(new) = Visited(row)
        BY <1>1, AggregatedFacts
    <1> HIDE DEF new
    <1>4. \A i \in StopId : /\ IsStop(stops[i])
                            /\ i \in Stops(row) => stops[i] = new.stops[i]
                            /\ i \notin Stops(row) => stops[i].day = 0
        <2>1. IsStop(NoStop) /\ NoStop.day = 0
            BY DEF IsStop, StopColumn, NoStop
        <2>2. \A i \in StopId : IsStop(new.stops[i])
            BY <1>3 DEF IsRow, HasStops
        <2>3. QED
            BY <2>1, <2>2
    <1>5. HasStops(stops)
        BY <1>4 DEF HasStops
    <1> HIDE DEF stops
    <1>6. /\ HasColumns(saved) /\ saved.stops = stops
          /\ saved.visits = new.visits /\ saved.status = new.status
          /\ saved.life = row.life /\ saved.owner = row.owner /\ saved.from = row.from
          /\ saved.public = row.public
        BY <1>1 DEF IsRow, HasColumns, Column
    <1> HIDE DEF saved
    <1>7. Stops(saved) = Stops(new) /\ Visited(saved) = Visited(new)
        BY <1>3, <1>4, <1>6, StopsFacts DEF Stops, Visited
    <1>8. Evolves(row, saved) /\ KeepsKeys(row, saved)
        BY <1>1, <1>3, <1>5, <1>6, <1>7
           DEF Evolves, IsRow, Counted, KeepsVisits, KeepsKeys
    <1>9. Evolves(row, row) /\ KeepsKeys(row, row)
        BY <1>1 DEF Evolves, KeepsVisits, KeepsKeys
    <1> HIDE DEF row, r
    <1>10. CASE row.life # "row" \/ ~Sequential(new)
        BY <1>1, <1>2, <1>9, <1>10, OneRow DEF row
    <1>11. CASE ~(row.life # "row" \/ ~Sequential(new))
        BY <1>1, <1>2, <1>8, <1>11, OneRow DEF row
    <1>12. QED
        BY <1>10, <1>11

\* Steps that leave the routes alone.
LEMMA IdleStep ==
    ASSUME RoutesInv, UNCHANGED route,
           UNCHANGED reading \/ \E r \in RouteId : ReadLoad(r)
    PROVE  RoutesInv' /\ VisitsStay
    BY DEF RoutesInv, VisitsStay, KeepsVisits, CopiesInv, CopiesOf, Known, ReadLoad

\* Every step.
LEMMA NextRoutes ==
    ASSUME OneAtATime, RoutesInv, [Next]_routeVars
    PROVE  RoutesInv' /\ VisitsStay
    <1>1. ASSUME NEW r \in RouteId, NEW u \in User, RouteRequest(r, u)
          PROVE  RoutesInv' /\ VisitsStay
        BY <1>1, CreateStep, UpdateDatesStep, ReplaceStopsStep, ClaimStep, UseCloneStep,
           PublicizeStep, MarksStep DEF RouteRequest
    <1>2. ASSUME NEW r \in RouteId, NEW i \in StopId, StopRequest(r, i)
          PROVE  RoutesInv' /\ VisitsStay
        BY <1>2, ChangeStopStep, ReorderStep, RemoveStopStep, MarksStep, CheckInStep
           DEF StopRequest
    <1>3. ASSUME NEW r \in RouteId, ReadLoad(r) PROVE RoutesInv' /\ VisitsStay
        BY <1>3, IdleStep DEF ReadLoad
    <1>4. CASE Tick \/ UNCHANGED routeVars
        BY <1>4, IdleStep DEF Tick, routeVars
    <1>5. QED
        BY <1>1, <1>2, <1>3, <1>4, AddStopsStep, RemoveStep, ReadSaveStep DEF Next

\* The first state.
LEMMA InitRoutes == Init => RoutesInv
    <1> SUFFICES ASSUME Init PROVE RoutesInv
        OBVIOUS
    <1>1. \A r \in RouteId : route[r] = NoRoute
        BY DEF Init
    <1>2. CopiesInv
        BY <1>1 DEF CopiesInv, CopiesOf, Known, NoRoute
    <1>3. QED
        BY <1>1, <1>2, NoRouteFacts DEF Init, RoutesInv

\* The points and the status of every route fit its stops, whatever is
\* planned, moved, copied or visited, when reads do not overlap with it.
THEOREM VisitsAlwaysCount == OneAtATime => (Spec => []VisitsCount)
    <1> SUFFICES ASSUME OneAtATime PROVE Spec => []VisitsCount
        OBVIOUS
    <1>1. RoutesInv /\ [Next]_routeVars => RoutesInv'
        BY NextRoutes
    <1>2. RoutesInv => VisitsCount
        BY DEF RoutesInv, VisitsCount, Counted
    <1>3. QED
        BY InitRoutes, <1>1, <1>2, PTL DEF Spec

\* A user who copies a public route gets the same copy again.
THEOREM CopiesAreUnique == OneAtATime => (Spec => []OneCopy)
    <1> SUFFICES ASSUME OneAtATime PROVE Spec => []OneCopy
        OBVIOUS
    <1>1. RoutesInv /\ [Next]_routeVars => RoutesInv'
        BY NextRoutes
    <1>2. RoutesInv => OneCopy
        <2> SUFFICES ASSUME CopiesInv, NEW u \in User, NEW source \in RouteId
                     PROVE  Cardinality(CopiesOf(source, u)) <= 1
            BY DEF RoutesInv, OneCopy
        <2>1. CASE CopiesOf(source, u) = {}
            BY <2>1, FS_EmptySet
        <2>2. CASE CopiesOf(source, u) # {}
            <3>1. PICK q : CopiesOf(source, u) = {q}
                BY <2>2 DEF CopiesInv
            <3>2. QED
                BY <3>1, FS_Singleton
        <2>3. QED
            BY <2>1, <2>2
    <1>3. QED
        BY InitRoutes, <1>1, <1>2, PTL DEF Spec

\* No request and no read takes a visit back as long as the stop exists.
THEOREM VisitsAreFinal == OneAtATime => (Spec => CheckInIsFinal)
    <1> SUFFICES ASSUME OneAtATime PROVE Spec => CheckInIsFinal
        OBVIOUS
    <1>1. RoutesInv /\ [Next]_routeVars => RoutesInv'
        BY NextRoutes
    <1>2. RoutesInv /\ [Next]_routeVars =>
              [\A r \in RouteId : \A i \in Visited(route[r]) :
                   i \in Stops(route'[r]) => i \in Visited(route'[r])]_routeVars
        BY NextRoutes DEF VisitsStay, KeepsVisits
    <1>3. QED
        BY InitRoutes, <1>1, <1>2, PTL DEF Spec, CheckInIsFinal

-----------------------------------------------------------------------------
\* Favourites.  The counter is a column of a row that other requests save
\* whole, so each of them has to leave it as it was; and a new row, a clone
\* or a copy included, starts with nobody who likes it.

Likers(r) == {u \in User : r \in favorite[u]}

LikesInv ==
    /\ favorite = [u \in User |-> favorite[u]]
    /\ \A r \in RouteId :
          /\ Known(r) => route[r].favourites = Cardinality(Likers(r))
          /\ route[r].life = "new" => Likers(r) = {}

\* A row that a request leaves, made of the row old.
KeepsLikes(old, new) ==
    /\ new.life = "new" => old.life = "new"
    /\ new.life = "row" =>
          \/ old.life = "row" /\ new.favourites = old.favourites
          \/ old.life = "new" /\ new.favourites = 0

LEMMA LikesKept ==
    ASSUME LikesInv, favorite' = favorite,
           \A r \in RouteId : KeepsLikes(route[r], route'[r])
    PROVE  LikesInv'
    <1>1. \A r \in RouteId : Likers(r)' = Likers(r)
        BY DEF Likers
    <1>2. Cardinality({}) = 0
        BY FS_EmptySet
    <1>3. QED
        BY <1>1, <1>2 DEF LikesInv, KeepsLikes, Known

LEMMA OneLiked ==
    ASSUME RoutesInv, LikesInv, NEW r \in RouteId, NEW new, KeepsLikes(route[r], new),
           Becomes(r, new), favorite' = favorite
    PROVE  LikesInv'
    <1>1. \A q \in RouteId : route'[q] = IF q = r THEN new ELSE route[q]
        BY DEF RoutesInv, Becomes
    <1>2. \A q \in RouteId : KeepsLikes(route[q], route'[q])
        BY <1>1 DEF KeepsLikes
    <1>3. QED
        BY <1>2, LikesKept

\* updateRouteAggregates does not touch the counter.
LEMMA AggregatedLikes ==
    ASSUME NEW row, HasColumns(row)
    PROVE  Aggregated(row).life = row.life /\ Aggregated(row).favourites = row.favourites
    BY DEF HasColumns, Column, Aggregated

LEMMA SettlesLikes ==
    ASSUME RoutesInv, LikesInv, NEW r \in RouteId, NEW row, HasColumns(row),
           KeepsLikes(route[r], row), Settles(r, row)
    PROVE  LikesInv'
    <1>1. KeepsLikes(route[r], Aggregated(row))
        BY AggregatedLikes DEF KeepsLikes
    <1>2. QED
        BY <1>1, OneLiked DEF Settles

\* A row that a request changes elsewhere, of a route that is there.
LEMMA EditedLikes ==
    ASSUME RoutesInv, NEW r \in RouteId, NEW row,
           row.life = route[r].life, row.favourites = route[r].favourites, Known(r)
    PROVE  KeepsLikes(route[r], row)
    BY DEF KeepsLikes, Known

\* Routes that are planned, claimed, published or copied.
LEMMA NewLikes ==
    ASSUME RoutesInv, LikesInv, NEW r \in RouteId, NEW source \in RouteId, NEW u, NEW start, NEW end, NEW D,
           \/ Create(r, u, start, end) \/ PublicizeRoute(source, r, u)
           \/ UseClone(source, r, u, start, end) \/ ClaimSuggestedRoute(r, u, start, end, D)
    PROVE  LikesInv'
    <1>1. HasColumns(NoRoute) /\ NoRoute.favourites = 0 /\ HasColumns(route[source])
        BY NoRouteFacts DEF IsRow, RoutesInv, NoRoute
    <1>2. CASE Create(r, u, start, end)
        <2> DEFINE row == [NoRoute EXCEPT !.life = "row", !.owner = u, !.start = start,
                              !.end = end, !.status = "upcoming"]
        <2>1. HasColumns(row) /\ row.favourites = 0 /\ row.life = "row"
            BY <1>1 DEF HasColumns, Column
        <2>2. New(r) /\ Settles(r, row)
            BY <1>2 DEF Create
        <2> HIDE DEF row
        <2>3. QED
            BY <2>1, <2>2, SettlesLikes DEF New, KeepsLikes
    <1>3. CASE PublicizeRoute(source, r, u)
        <2> DEFINE stops == [i \in StopId |-> [route[source].stops[i] EXCEPT !.status = "none"]]
                   row == [route[source] EXCEPT !.public = TRUE, !.edited = FALSE, !.visits = 0,
                              !.status = "none", !.from = source, !.favourites = 0,
                              !.stops = stops]
        <2>1. HasColumns(row) /\ row.favourites = 0 /\ row.life = route[source].life
            BY <1>1 DEF HasColumns, Column
        <2>2. New(r) /\ Settles(r, row) /\ route[source].life = "row"
            BY <1>3 DEF PublicizeRoute, CloneRoute, Owned, Known
        <2> HIDE DEF row
        <2>3. QED
            BY <2>1, <2>2, SettlesLikes DEF New, KeepsLikes
    <1>4. CASE UseClone(source, r, u, start, end)
        <2> DEFINE row == PersonalCopy(source, u, start, end)
        <2>1. HasColumns(row) /\ row.favourites = 0 /\ row.life = route[source].life
            BY <1>1 DEF HasColumns, Column, PersonalCopy
        <2>2. New(r) /\ Settles(r, row) /\ route[source].life = "row"
            BY <1>4 DEF UseClone, Known
        <2> HIDE DEF row
        <2>3. QED
            BY <2>1, <2>2, SettlesLikes DEF New, KeepsLikes
    <1>5. CASE ClaimSuggestedRoute(r, u, start, end, D)
        <2> DEFINE row == [NoRoute EXCEPT !.life = "row", !.owner = u, !.start = start,
                              !.end = end, !.status = "draft", !.edited = TRUE,
                              !.stops = AsRows(D, StopId, "upcoming")]
        <2>1. row.favourites = 0 /\ row.life = "row"
            BY <1>1 DEF HasColumns, Column
        <2>2. New(r) /\ Becomes(r, row) /\ favorite' = favorite
            BY <1>5 DEF ClaimSuggestedRoute
        <2> HIDE DEF row
        <2>3. QED
            BY <2>1, <2>2, OneLiked DEF New, KeepsLikes
    <1>6. QED
        BY <1>2, <1>3, <1>4, <1>5

\* What update leaves: a column that its transaction has not changed comes
\* from the recomputed old row, which has the same counter.
LEMMA UpdatesLikes ==
    ASSUME RoutesInv, LikesInv, NEW r \in RouteId, NEW new, Known(r), Updates(r, new),
           new.life = route[r].life, new.favourites = route[r].favourites
    PROVE  LikesInv'
    <1>1. HasColumns(route[r])
        BY DEF RoutesInv, IsRow
    <1>2. CASE Waits(route[r], new)
        <2>1. \A q \in RouteId : KeepsLikes(route[q], route'[q])
            BY <1>2 DEF Updates, KeepsLikes, RoutesInv, IsRow, HasColumns
        <2>2. QED
            BY <1>2, <2>1, LikesKept DEF Updates
    <1>3. CASE ~Waits(route[r], new)
        <2> DEFINE old == route[r]
                   fresh == Aggregated(old)
                   m == Merged(old, new)
                   stops == [i \in StopId |->
                                IF new.stops[i] # old.stops[i] THEN new.stops[i]
                                ELSE fresh.stops[i]]
        <2>1. m = [f \in DOMAIN old |-> IF f = "stops" THEN stops
                                        ELSE IF new[f] # old[f] THEN new[f] ELSE fresh[f]]
            BY DEF Merged
        <2>2. fresh.life = old.life /\ fresh.favourites = old.favourites
            BY <1>1, AggregatedLikes
        <2>3. DOMAIN old = Column
            BY <1>1 DEF HasColumns
        <2> HIDE DEF fresh, stops
        <2>4. m.life = old.life /\ m.favourites = old.favourites
            BY <2>1, <2>2, <2>3 DEF Column
        <2>5. Becomes(r, m) /\ favorite' = favorite
            BY <1>3 DEF Updates
        <2> HIDE DEF m
        <2>6. QED
            BY <2>4, <2>5, EditedLikes, OneLiked
    <1>4. QED
        BY <1>2, <1>3

LEMMA UpdateLikes ==
    ASSUME RoutesInv, LikesInv, NEW r \in RouteId, NEW u, NEW start, NEW end, NEW D,
           UpdateDates(r, u, start, end) \/ ReplaceStops(r, u, start, end, D)
    PROVE  LikesInv'
    <1>1. HasColumns(route[r])
        BY DEF RoutesInv, IsRow
    <1> DEFINE dated == Dated(route[r], start, end)
    <1>2. HasColumns(dated) /\ dated.life = route[r].life /\ dated.favourites = route[r].favourites
        BY <1>1 DEF HasColumns, Column, Dated
    <1>3. CASE UpdateDates(r, u, start, end)
        <2>1. Known(r) /\ Updates(r, dated)
            BY <1>3 DEF UpdateDates, Owned
        <2> HIDE DEF dated
        <2>2. QED
            BY <1>2, <2>1, UpdatesLikes
    <1>4. CASE ReplaceStops(r, u, start, end, D)
        <2> DEFINE free == StopId \ Stops(route[r])
                   asked == AsRows(D, free, "upcoming")
                   stops == [i \in StopId |-> IF i \in free THEN asked[i] ELSE NoStop]
                   new == [dated EXCEPT !.stops = stops]
        <2>1. Known(r) /\ Updates(r, Aggregated(new))
            BY <1>4 DEF ReplaceStops, Owned
        <2> HIDE DEF dated, stops
        <2>2. HasColumns(new) /\ new.life = dated.life /\ new.favourites = dated.favourites
            BY <1>2 DEF HasColumns, Column
        <2> HIDE DEF new
        <2>3. QED
            BY <1>2, <2>1, <2>2, AggregatedLikes, UpdatesLikes
    <1>5. QED
        BY <1>3, <1>4

\* Requests about stops.
LEMMA StopLikes ==
    ASSUME RoutesInv, LikesInv, NEW r \in RouteId, NEW i, NEW D,
           StopRequest(r, i) \/ AddStops(r, D)
    PROVE  LikesInv'
    <1>1. HasColumns(route[r])
        BY DEF RoutesInv, IsRow
    <1>2. ASSUME NEW stops, NEW row, Known(r), Settles(r, row),
                 \/ row = [route[r] EXCEPT !.edited = TRUE, !.stops = stops]
                 \/ row = [route[r] EXCEPT !.stops = stops]
          PROVE  LikesInv'
        <2>1. HasColumns(row) /\ row.life = route[r].life /\ row.favourites = route[r].favourites
            BY <1>1, <1>2 DEF HasColumns, Column
        <2>2. QED
            BY <1>2, <2>1, EditedLikes, SettlesLikes
    <1>3. ASSUME NEW x, Known(r), Settles(r, WithStop(r, i, x)) PROVE LikesInv'
        BY <1>2, <1>3 DEF WithStop
    <1>4. ASSUME NEW w \in Window, UpdateStopTime(r, i, w[1], w[2]) PROVE LikesInv'
        BY <1>3, <1>4 DEF UpdateStopTime
    <1>5. ASSUME NEW place \in Place, UpdateStopDetails(r, i, place) PROVE LikesInv'
        BY <1>3, <1>5 DEF UpdateStopDetails
    <1>6. ASSUME NEW n \in StopId, ReorderStop(r, i, n) PROVE LikesInv'
        BY <1>2, <1>6 DEF ReorderStop
    <1>7. CASE RemoveStop(r, i)
        BY <1>2, <1>7 DEF RemoveStop
    <1>8. CASE CheckInStop(r, i)
        BY <1>2, <1>8 DEF CheckInStop
    <1>9. CASE EditMedia(r, i)
        <2> DEFINE row == [route[r] EXCEPT !.edited = TRUE]
        <2>1. row.life = route[r].life /\ row.favourites = route[r].favourites
            BY <1>1 DEF HasColumns, Column
        <2>2. Known(r) /\ Becomes(r, row) /\ favorite' = favorite
            BY <1>9 DEF EditMedia
        <2> HIDE DEF row
        <2>3. QED
            BY <2>1, <2>2, EditedLikes, OneLiked
    <1>10. CASE AddStops(r, D)
        BY <1>2, <1>10 DEF AddStops
    <1>11. QED
        BY <1>4, <1>5, <1>6, <1>7, <1>8, <1>9, <1>10 DEF StopRequest

\* Who likes a route is counted, and who does so no longer is not.
LEMMA LikingLikes ==
    ASSUME RoutesInv, LikesInv, NEW r \in RouteId, NEW u \in User,
           Favorite(r, u) \/ Unfavorite(r, u)
    PROVE  LikesInv'
    <1>1. /\ HasColumns(route[r]) /\ \A q \in RouteId \ {r} : route'[q] = route[q]
          /\ \A q \in RouteId \ {r} : Likers(q)' = Likers(q)
        BY DEF RoutesInv, IsRow, Favorite, Unfavorite, Becomes, Likers, LikesInv
    <1>2. favorite' = [v \in User |-> favorite'[v]]
        BY DEF Favorite, Unfavorite, LikesInv
    <1>3. IsFiniteSet(Likers(r))
        BY RoutesAssumption, FS_Subset DEF Likers
    <1>4. CASE Favorite(r, u)
        <2>1. Likers(r)' = Likers(r) \cup {u} /\ u \notin Likers(r)
            BY <1>4 DEF Favorite, Likers, LikesInv
        <2>2. Cardinality(Likers(r)') = Cardinality(Likers(r)) + 1
            BY <1>3, <2>1, FS_AddElement
        <2>3. route'[r].life = "row" /\ route'[r].favourites = route[r].favourites + 1
            BY <1>1, <1>4 DEF Favorite, Becomes, Known, HasColumns, Column, RoutesInv
        <2>4. route[r].favourites = Cardinality(Likers(r))
            BY <1>4 DEF Favorite, LikesInv
        <2>5. QED
            BY <1>1, <1>2, <2>2, <2>3, <2>4 DEF LikesInv, Known
    <1>5. CASE Unfavorite(r, u)
        <2>1. Likers(r)' = Likers(r) \ {u} /\ u \in Likers(r)
            BY <1>5 DEF Unfavorite, Likers, LikesInv
        <2>2. Cardinality(Likers(r)') = Cardinality(Likers(r)) - 1
            BY <1>3, <2>1, FS_RemoveElement
        <2>3. /\ route'[r].life = route[r].life
              /\ Known(r) => route'[r].favourites = route[r].favourites - 1
            BY <1>1, <1>5 DEF Unfavorite, Becomes, Known, HasColumns, Column, RoutesInv
        <2>4. /\ Known(r) => route[r].favourites = Cardinality(Likers(r))
              /\ route[r].life # "new"
            BY <2>1 DEF LikesInv
        <2>5. QED
            BY <1>1, <1>2, <2>2, <2>3, <2>4 DEF LikesInv, Known
    <1>6. QED
        BY <1>4, <1>5

\* Deletions, and reads, which save stops, visits and status only.
LEMMA OtherLikes ==
    ASSUME OneAtATime, RoutesInv, LikesInv,
           \/ \E r \in RouteId : Remove(r) \/ ReadLoad(r)
           \/ ReadSave \/ Tick \/ \E u \in User : RemoveUser(u)
    PROVE  LikesInv'
    <1>1. favorite' = favorite
        BY DEF Remove, ReadLoad, ReadSave, Tick, RemoveUser
    <1>2. HasColumns(NoRoute) /\ \A r \in RouteId : HasColumns(route[r])
        BY NoRouteFacts DEF RoutesInv, IsRow
    <1>3. ASSUME NEW r \in RouteId, Remove(r) PROVE \A q \in RouteId : KeepsLikes(route[q], route'[q])
        BY <1>2, <1>3 DEF Remove, KeepsLikes, HasColumns, Column
    <1>4. ASSUME NEW u \in User, RemoveUser(u) PROVE \A q \in RouteId : KeepsLikes(route[q], route'[q])
        BY <1>2, <1>4 DEF RemoveUser, KeepsLikes, HasColumns, Column
    <1>5. CASE ReadSave
        <2> DEFINE old == reading.row
                   fresh == Aggregated(old)
                   row == route[reading.id]
                   stops == [i \in StopId |-> IF i \in Stops(row)
                                THEN IF fresh.stops[i] # old.stops[i] THEN fresh.stops[i]
                                     ELSE row.stops[i]
                                ELSE NoStop]
                   visits == IF fresh.visits # old.visits THEN fresh.visits ELSE row.visits
                   status == IF fresh.status # old.status THEN fresh.status ELSE row.status
                   saved == [row EXCEPT !.stops = stops, !.visits = visits, !.status = status]
        <2>1. reading.id \in RouteId
            BY <1>5 DEF ReadSave, RoutesInv
        <2>2. Becomes(reading.id, row) \/ Becomes(reading.id, saved)
            BY <1>5 DEF ReadSave
        <2> HIDE DEF stops, visits, status
        <2>3. saved.life = row.life /\ saved.favourites = row.favourites
            BY <1>2, <2>1 DEF HasColumns, Column
        <2>4. Becomes(reading.id, row) \/ row.life = "row"
            BY <1>5 DEF ReadSave
        <2> HIDE DEF row, saved
        <2>5. KeepsLikes(route[reading.id], row)
            BY DEF KeepsLikes, row
        <2>6. row.life = "row" => KeepsLikes(route[reading.id], saved)
            BY <2>3 DEF KeepsLikes, row
        <2>7. QED
            BY <1>1, <2>1, <2>2, <2>4, <2>5, <2>6, OneLiked
    <1>6. CASE route' = route
        <2>1. \A q \in RouteId : KeepsLikes(route[q], route'[q])
            BY <1>2, <1>6 DEF KeepsLikes, RoutesInv, IsRow, HasColumns, Column
        <2>2. QED
            BY <1>1, <2>1, LikesKept
    <1>7. QED
        BY <1>1, <1>3, <1>4, <1>5, <1>6, LikesKept DEF ReadLoad, Tick

\* The counter of a route is the number of users who like it, or liked it
\* when their account was deleted, through updates, copies and removals.
THEOREM FavouritesAreCounted == OneAtATime => (Spec => []FavouritesCounted)
    <1> SUFFICES ASSUME OneAtATime PROVE Spec => []FavouritesCounted
        OBVIOUS
    <1>1. Init => LikesInv
        <2>1. Init => \A r \in RouteId : route[r].life = "new" /\ Likers(r) = {}
            BY DEF Init, NoRoute, Likers
        <2>2. QED
            BY <2>1 DEF Init, LikesInv, Known
    <1>2. RoutesInv /\ [Next]_routeVars => RoutesInv'
        BY NextRoutes
    <1>3. RoutesInv /\ LikesInv /\ [Next]_routeVars => LikesInv'
        <2> SUFFICES ASSUME RoutesInv, LikesInv, [Next]_routeVars PROVE LikesInv'
            OBVIOUS
        <2>1. ASSUME NEW r \in RouteId, NEW u \in User, RouteRequest(r, u) PROVE LikesInv'
            <3>1. ASSUME NEW t \in Trip, Create(r, u, t[1], t[2]) \/ UpdateDates(r, u, t[1], t[2])
                  PROVE  LikesInv'
                BY <3>1, NewLikes, UpdateLikes
            <3>2. ASSUME NEW t \in Trip, NEW D \in Dto,
                         ReplaceStops(r, u, t[1], t[2], D) \/ ClaimSuggestedRoute(r, u, t[1], t[2], D)
                  PROVE  LikesInv'
                BY <3>2, NewLikes, UpdateLikes
            <3>3. ASSUME NEW t \in Trip, NEW source \in RouteId, UseClone(source, r, u, t[1], t[2])
                  PROVE  LikesInv'
                BY <3>3, NewLikes
            <3>4. ASSUME NEW source \in RouteId, PublicizeRoute(source, r, u) PROVE LikesInv'
                BY <3>4, NewLikes
            <3>5. QED
                BY <2>1, <3>1, <3>2, <3>3, <3>4, LikingLikes DEF RouteRequest
        <2>2. ASSUME NEW r \in RouteId, NEW D \in Dto, AddStops(r, D) PROVE LikesInv'
            BY <2>2, StopLikes
        <2>3. ASSUME NEW r \in RouteId, NEW i \in StopId, StopRequest(r, i) PROVE LikesInv'
            BY <2>3, StopLikes
        <2>4. CASE UNCHANGED routeVars
            BY <2>4 DEF routeVars, LikesInv, Likers, Known
        <2>5. QED
            BY <2>1, <2>2, <2>3, <2>4, OtherLikes DEF Next
    <1>4. LikesInv => FavouritesCounted
        BY DEF LikesInv, FavouritesCounted, Likers
    <1>5. QED
        BY InitRoutes, <1>1, <1>2, <1>3, <1>4, PTL DEF Spec

=============================================================================
