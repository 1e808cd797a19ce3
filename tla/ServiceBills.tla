---------------------------- MODULE ServiceBills ----------------------------
(***************************************************************************)
(* hotel-bill.service.ts, delivery-bill.service.ts and                     *)
(* restaurant-booking.service.ts: bills that are opened, confirmed, paid   *)
(* and completed, and cancelled by a job when they wait too long.          *)
(*                                                                         *)
(* Each request is a series of commits and may fail between any two.  One  *)
(* request runs at a time, the jobs included.                              *)
(***************************************************************************)
EXTENDS Integers, Sequences, FiniteSets, FiniteSetsExt, SequencesExt

CONSTANTS
    BillId,         \* numbers: rows of hotel_bills, delivery_bills, restaurant_bookings
    UnitPrice,      \* of a room, and the subtotal of a delivery
    MaxRooms,       \* rooms of a hotel bill
    Discount,       \* what the voucher takes off
    Limit,          \* how often the voucher may be used
    StartPoints,    \* the travel points the user begins with
    StartLocked,    \* what the user's rentals have locked in the wallet
    Nobody,         \* no bill
    MaxUsed,        \* bound on the uses of the voucher
    MaxCalls,       \* bound on the calls of users
    MaxFails        \* bound on the failures

VARIABLES
    bill,       \* the rows
    points,     \* the user's travelPoint
    used,       \* the voucher's usedCount
    wallet,     \* the user's balance and lockedBalance
    request,    \* the request or the job being served
    calls,      \* how many calls there were
    fails       \* how many requests and jobs failed

serviceVars == <<bill, points, used, wallet, request, calls, fails>>

Status == {"none", "PENDING", "CONFIRMED", "PAID", "IN_TRANSIT", "COMPLETED", "CANCELLED"}
OpenStatus == {"PENDING", "CONFIRMED"}
InUse == {"PAID", "IN_TRANSIT"}

Kind == {"hotel", "delivery", "restaurant"}

\* kind is the table the row is in.
Row == [kind : Kind \cup {"none"}, status : Status, rooms : 0..MaxRooms, total : Nat, points : 0..StartPoints,
        voucher : BOOLEAN, contact : BOOLEAN, late : BOOLEAN, quiet : BOOLEAN]

NoBill == [kind |-> "none", status |-> "none", rooms |-> 0, total |-> 0, points |-> 0, voucher |-> FALSE,
           contact |-> FALSE, late |-> FALSE, quiet |-> FALSE]

Idle == [bill |-> Nobody, row |-> NoBill, todo |-> <<>>]

TypeOK ==
    /\ bill \in [BillId -> Row]
    /\ points \in Nat /\ used \in 0..MaxUsed /\ calls \in 0..MaxCalls /\ fails \in 0..MaxFails
    /\ wallet \in [balance : Nat, locked : Nat]
    /\ request.bill \in BillId \cup {Nobody} /\ request.row \in Row

Init ==
    /\ bill = [b \in BillId |-> NoBill]
    /\ points = StartPoints /\ used = 0 /\ calls = 0 /\ fails = 0
    /\ wallet = [balance |-> 0, locked |-> StartLocked]
    /\ request = Idle

-----------------------------------------------------------------------------

Positive(n) == IF n > 0 THEN n ELSE 0

\* validateVoucherForBooking, for a voucher without a term or a minimum.
VoucherAllowed == used < Limit

\* calculateDiscountAmount.
Off(base, voucher) == IF ~voucher THEN 0 ELSE IF Discount > base THEN base ELSE Discount

\* calculateTotal: what the rooms or the delivery cost, less the voucher and
\* the points.
HotelTotal(row, voucher) ==
    LET base == row.rooms * UnitPrice IN Positive(base - Off(base, voucher) - row.points)
DeliveryTotal(row, voucher) == Positive(UnitPrice - Off(UnitPrice, voucher) - row.points)

Total(row, voucher) ==
    IF row.kind = "hotel" THEN HotelTotal(row, voucher) ELSE DeliveryTotal(row, voucher)

\* A save that writes anything makes updatedAt now; the age of a bill is
\* followed as long as it is pending.
Saved(b, row) ==
    bill' = [bill EXCEPT ![b] =
        [row EXCEPT !.quiet = @ /\ row = bill[b], !.late = @ /\ row.status = "PENDING"]]

Serve == request = Idle /\ calls < MaxCalls /\ calls' = calls + 1
\* Ids are handed out in order.
Fresh(b) == \A c \in BillId : bill[c].status = "none" <=> c >= b

Begin(b, todo) == request' = [bill |-> b, row |-> bill[b], todo |-> todo]
Done == request' = IF Len(request.todo) = 1 THEN Idle ELSE [request EXCEPT !.todo = Tail(@)]
At(step) == request.bill # Nobody /\ Head(request.todo) = step

-----------------------------------------------------------------------------

\* create of a hotel: the bill is saved, then each room, then the voucher
\* and a total, which is nothing: the rooms are not in memory yet.
CreateHotel(b, rooms, voucher, spent) ==
    /\ Serve
    /\ Fresh(b)
    /\ Saved(b, [NoBill EXCEPT !.kind = "hotel", !.status = "PENDING", !.points = spent])
    /\ request' = [bill |-> b, row |-> [NoBill EXCEPT !.voucher = voucher],
                   todo |-> [i \in 1..rooms |-> "room"] \o <<"voucher">>]
    /\ UNCHANGED <<points, used, wallet, fails>>

SaveRoom ==
    /\ At("room")
    /\ bill' = [bill EXCEPT ![request.bill].rooms = @ + 1]
    /\ Done
    /\ UNCHANGED <<points, used, wallet, calls, fails>>

SaveVoucher ==
    /\ At("voucher")
    /\ Saved(request.bill, [bill[request.bill] EXCEPT !.voucher = request.row.voucher])
    /\ Done
    /\ UNCHANGED <<points, used, wallet, calls, fails>>

\* create of a delivery: the bill with its voucher, then the total.
CreateDelivery(b, voucher, spent) ==
    /\ Serve
    /\ Fresh(b)
    /\ Saved(b, [NoBill EXCEPT !.kind = "delivery", !.status = "PENDING",
          !.points = spent, !.voucher = voucher])
    /\ request' = [bill |-> b, row |-> NoBill, todo |-> <<"total">>]
    /\ UNCHANGED <<points, used, wallet, fails>>

SaveTotal ==
    /\ At("total")
    /\ LET b == request.bill
       IN  Saved(b, [bill[b] EXCEPT !.total = DeliveryTotal(bill[b], bill[b].voucher)])
    /\ Done
    /\ UNCHANGED <<points, used, wallet, calls, fails>>

\* create of a restaurant booking.
CreateBooking(b) ==
    /\ Serve
    /\ Fresh(b)
    /\ Saved(b, [NoBill EXCEPT !.kind = "restaurant", !.status = "PENDING"])
    /\ UNCHANGED <<points, used, wallet, request, fails>>

\* Mutant: update does not look at the status.
Editable_Always(b) == Status \ {"none"}

\* The statuses in which update accepts a request.
Editable(b) == IF bill[b].kind = "restaurant" THEN {"PENDING"} ELSE OpenStatus

\* update of a restaurant booking: the contact and the guests.
UpdateBooking(b) ==
    /\ Serve
    /\ bill[b].kind = "restaurant" /\ bill[b].status \in Editable(b)
    /\ Saved(b, [bill[b] EXCEPT !.contact = TRUE])
    /\ UNCHANGED <<points, used, wallet, request, fails>>

\* update of the others: the contact, the voucher ("keep", "clear" or "set")
\* and the points.  A cleared voucher does not count for the total but keeps
\* its column.
Update(b, voucher, spent) ==
    /\ Serve
    /\ bill[b].status \in Editable(b)
    /\ voucher = "set" => VoucherAllowed
    /\ spent = bill[b].points \/ spent <= points
    /\ LET row == [bill[b] EXCEPT !.contact = TRUE, !.points = spent,
                      !.voucher = @ \/ voucher = "set"]
       IN  Saved(b, [row EXCEPT !.total = Total(row, row.voucher /\ voucher # "clear")])
    /\ UNCHANGED <<points, used, wallet, request, fails>>

UpdateHotel(b, voucher, spent) == bill[b].kind = "hotel" /\ Update(b, voucher, spent)
UpdateDelivery(b, voucher, spent) == bill[b].kind = "delivery" /\ Update(b, voucher, spent)

\* confirm.
Confirm(b, total) ==
    /\ Serve
    /\ bill[b].status = "PENDING" /\ bill[b].contact
    /\ Saved(b, [bill[b] EXCEPT !.status = "CONFIRMED", !.total = total])
    /\ UNCHANGED <<points, used, wallet, request, fails>>

\* The total is computed anew, with the voucher of the column.
ConfirmHotel(b) ==
    bill[b].kind = "hotel" /\ Confirm(b, HotelTotal(bill[b], bill[b].voucher))
ConfirmDelivery(b) ==
    bill[b].kind = "delivery" /\ Confirm(b, DeliveryTotal(bill[b], bill[b].voucher))
ConfirmBooking(b) == bill[b].kind = "restaurant" /\ Confirm(b, 0)

If(condition, steps) == IF condition THEN steps ELSE <<>>

\* Mutant: the voucher is counted after the status is saved.
PaySteps_RedeemsLast(row) ==
    If(row.points > 0, <<"points">>) \o If(row.rooms > 0, <<"rooms">>) \o <<"paid">>
    \o If(row.voucher, <<"redeem">>)

\* What pay writes after the checks, in its order.
PaySteps(row) ==
    If(row.points > 0, <<"points">>) \o If(row.voucher, <<"redeem">>)
    \o If(row.rooms > 0, <<"rooms">>) \o <<"paid">>

Pay(b) ==
    /\ Serve
    /\ bill[b].status = "CONFIRMED"
    /\ bill[b].voucher => used < MaxUsed
    /\ Begin(b, PaySteps(bill[b]))
    /\ UNCHANGED <<bill, points, used, wallet, fails>>

PayHotel(b) == bill[b].kind = "hotel" /\ Pay(b)
PayDelivery(b) == bill[b].kind = "delivery" /\ Pay(b)

DeductPoints ==
    /\ At("points")
    /\ points' = Positive(points - request.row.points)
    /\ Done
    /\ UNCHANGED <<bill, used, wallet, calls, fails>>

Redeem == At("redeem") /\ used' = used + 1 /\ Done
          /\ UNCHANGED <<bill, points, wallet, calls, fails>>

\* ensureRoomAvailability: its query names a column that does not exist, so
\* a bill that has rooms is never paid.
RoomsRefused == At("rooms") /\ request' = Idle
                /\ UNCHANGED <<bill, points, used, wallet, calls, fails>>

\* What processRefundOrRelease does to a bill that costs something; what it
\* does to the rental of the same number in the contract is left out.
Settling(row, reward) ==
    If(row.total > 0, <<"release">> \o If(reward /\ row.total >= 100, <<"reward">>))

Complete(b) ==
    /\ Serve
    /\ bill[b].status \in InUse
    /\ Begin(b, Settling(bill[b], TRUE) \o <<"completed">>)
    /\ UNCHANGED <<bill, points, used, wallet, fails>>

\* A hotel bill in use has no rooms left whose bookings to count.
CompleteHotel(b) == bill[b].kind = "hotel" /\ Complete(b)
CompleteDelivery(b) == bill[b].kind = "delivery" /\ Complete(b)

Cancel(b) ==
    /\ Serve
    /\ bill[b].status \in OpenStatus \cup InUse
    /\ Begin(b, If(bill[b].status \in InUse, Settling(bill[b], FALSE)) \o <<"cancelled">>)
    /\ UNCHANGED <<bill, points, used, wallet, fails>>

CancelHotel(b) == bill[b].kind = "hotel" /\ Cancel(b)
CancelDelivery(b) == bill[b].kind = "delivery" /\ Cancel(b)
CancelBooking(b) == bill[b].kind = "restaurant" /\ Cancel(b)

\* releaseFunds without an owner, whom neither service loads: the money goes
\* back to the user, out of whatever is locked.
Release ==
    /\ At("release")
    /\ IF wallet.locked < request.row.total
       THEN request' = Idle /\ UNCHANGED wallet
       ELSE /\ wallet' = [balance |-> wallet.balance + request.row.total,
                          locked |-> wallet.locked - request.row.total]
            /\ Done
    /\ UNCHANGED <<bill, points, used, calls, fails>>

Reward ==
    /\ At("reward")
    /\ points' = points + request.row.total \div 100
    /\ Done
    /\ UNCHANGED <<bill, used, wallet, calls, fails>>

\* The status is saved last.
SaveStatus ==
    /\ At("paid") \/ At("completed") \/ At("cancelled")
    /\ LET b == request.bill
           status == CASE At("completed") -> "COMPLETED"
                       [] At("cancelled") -> "CANCELLED"
                       [] OTHER -> IF bill[b].kind = "hotel" THEN "PAID" ELSE "IN_TRANSIT"
       IN  Saved(b, [bill[b] EXCEPT !.status = status])
    /\ Done
    /\ UNCHANGED <<points, used, wallet, calls, fails>>

-----------------------------------------------------------------------------

\* Mutant: pending bills are looked for with the query of the confirmed.
Overdue_Confirmed(kind) ==
    {b \in BillId : bill[b].kind = kind /\ bill[b].status = "CONFIRMED" /\ bill[b].quiet}

\* What checkTimeouts finds: pending bills that were created 30 minutes ago
\* and, but for restaurants, confirmed ones nobody touched for 10.
Overdue(kind) ==
    {b \in BillId : bill[b].kind = kind /\
        \/ bill[b].status = "PENDING" /\ bill[b].late
        \/ bill[b].status = "CONFIRMED" /\ bill[b].quiet /\ kind # "restaurant"}

CheckTimeouts(kind) ==
    /\ request = Idle
    /\ Overdue(kind) # {}
    /\ request' = [Idle EXCEPT !.todo = SetToSeq(Overdue(kind))]
    /\ UNCHANGED <<bill, points, used, wallet, calls, fails>>

CheckHotels == CheckTimeouts("hotel")
CheckDeliveries == CheckTimeouts("delivery")
CheckBookings == CheckTimeouts("restaurant")

\* One row of the job's loop.
Expire ==
    /\ request.bill = Nobody /\ request.todo # <<>>
    /\ Saved(Head(request.todo), [bill[Head(request.todo)] EXCEPT !.status = "CANCELLED"])
    /\ Done
    /\ UNCHANGED <<points, used, wallet, calls, fails>>

Late(b) ==
    /\ bill[b].status = "PENDING" /\ ~bill[b].late
    /\ bill' = [bill EXCEPT ![b].late = TRUE]
    /\ UNCHANGED <<points, used, wallet, request, calls, fails>>

Quiet(b) ==
    /\ bill[b].status = "CONFIRMED" /\ ~bill[b].quiet
    /\ bill' = [bill EXCEPT ![b].quiet = TRUE]
    /\ UNCHANGED <<points, used, wallet, request, calls, fails>>

\* A room is deleted and takes its lines on the bills with it.
RemoveRoom(b) ==
    /\ request = Idle /\ bill[b].rooms > 0
    /\ bill' = [bill EXCEPT ![b].rooms = @ - 1]
    /\ UNCHANGED <<points, used, wallet, request, calls, fails>>

Fail ==
    /\ request # Idle /\ fails < MaxFails
    /\ request' = Idle /\ fails' = fails + 1
    /\ UNCHANGED <<bill, points, used, wallet, calls>>

\* The next commit of the request or the job.
Step ==
    \/ SaveRoom \/ SaveVoucher \/ SaveTotal
    \/ DeductPoints \/ Redeem \/ RoomsRefused
    \/ Release \/ Reward \/ SaveStatus \/ Expire

HotelRequest(b) ==
    \/ \E spent \in 0..StartPoints :
          \/ \E voucher \in BOOLEAN, rooms \in 0..MaxRooms : CreateHotel(b, rooms, voucher, spent)
          \/ \E voucher \in {"keep", "clear", "set"} : UpdateHotel(b, voucher, spent)
    \/ ConfirmHotel(b) \/ PayHotel(b) \/ CompleteHotel(b) \/ CancelHotel(b)

DeliveryRequest(b) ==
    \/ \E spent \in 0..StartPoints :
          \/ \E voucher \in BOOLEAN : CreateDelivery(b, voucher, spent)
          \/ \E voucher \in {"keep", "clear", "set"} : UpdateDelivery(b, voucher, spent)
    \/ ConfirmDelivery(b) \/ PayDelivery(b) \/ CompleteDelivery(b) \/ CancelDelivery(b)

BookingRequest(b) == CreateBooking(b) \/ UpdateBooking(b) \/ ConfirmBooking(b) \/ CancelBooking(b)

Jobs == CheckHotels \/ CheckDeliveries \/ CheckBookings

Next ==
    \/ \E b \in BillId : HotelRequest(b) \/ DeliveryRequest(b) \/ BookingRequest(b)
    \/ \E b \in BillId : Late(b) \/ Quiet(b) \/ RemoveRoom(b)
    \/ Step \/ Jobs \/ Fail

\* A request goes on after each commit; time passes; the jobs run every
\* minute.
Fairness ==
    /\ WF_serviceVars(Step)
    /\ WF_serviceVars(CheckHotels) /\ WF_serviceVars(CheckDeliveries) /\ WF_serviceVars(CheckBookings)
    /\ \A b \in BillId : WF_serviceVars(Late(b))

Spec == Init /\ [][Next]_serviceVars /\ Fairness

-----------------------------------------------------------------------------

StageOf(status) ==
    CASE status = "none" -> "none"
      [] status = "PENDING" -> "pending"
      [] status = "CONFIRMED" -> "confirmed"
      [] status \in InUse -> "active"
      [] status = "COMPLETED" -> "completed"
      [] status = "CANCELLED" -> "cancelled"

Lifecycle == INSTANCE BillLifecycle WITH
    BillId <- BillId, Cost <- 0..(MaxRooms * UnitPrice + UnitPrice),
    stage <- [b \in BillId |-> StageOf(bill[b].status)],
    cost <- [b \in BillId |-> bill[b].total]

\* The three tables keep one lifecycle between them, whatever the order of
\* the calls, the job and the failures; a pending bill is decided in the end.
ImplementsLifecycle == Lifecycle!Spec

\* A bill that is in use or completed has counted its voucher, also when a
\* payment broke off and was repeated: usedCount is saved before the status.
VoucherCounted ==
    Cardinality({b \in BillId : bill[b].voucher /\ bill[b].status \in InUse \cup {"COMPLETED"}})
        <= used

=============================================================================
