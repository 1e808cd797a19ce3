---------------------------- MODULE TicketBills ----------------------------
(***************************************************************************)
(* flight-bill.service.ts, and the create of bus-bills.service.ts and      *)
(* train-bill.service.ts: tickets that are paid with travel points, a      *)
(* voucher and money, and count for a partner while they are COMPLETED.    *)
(*                                                                         *)
(* Each request is a series of commits: it may fail between any two.  One  *)
(* request runs at a time.                                                 *)
(***************************************************************************)
EXTENDS Integers, Sequences, FiniteSets, Functions, FiniteSetsExt

CONSTANTS
    BillId,         \* flight_bills.id
    Partner,        \* cooperations; a flight stands for the partner that flies it
    Offered,        \* what callers ask create for
    Asked,          \* what callers ask update for
    Fare,           \* the price of one passenger
    Discount,       \* what the voucher takes off
    Limit,          \* how often the voucher may be used
    StartPoints,    \* the travel points the user begins with
    MaxCalls,       \* bound on the requests
    Same            \* a field the request does not name

Status == {"PENDING", "CONFIRMED", "CHECKED_IN", "COMPLETED", "CANCELLED"}

\* What the DTOs let through; a partner stands for one of its flights, and
\* the tickets for the passengers.
CreateDto == [status : Status, partner : Partner, tickets : Nat, points : Nat,
              voucher : BOOLEAN, total : Nat \cup {Same}]
UpdateDto == [status : Status \cup {Same}, partner : Partner \cup {Same}, tickets : Nat \cup {Same},
              points : Nat \cup {Same}, voucher : BOOLEAN \cup {Same}, total : Nat \cup {Same}]

ASSUME TicketAssumption ==
    /\ IsFiniteSet(BillId)
    /\ Fare \in Nat /\ Discount \in Nat /\ StartPoints \in Nat /\ MaxCalls \in Nat
    /\ Offered \subseteq CreateDto /\ Asked \subseteq UpdateDto

VARIABLES
    bill,       \* flight_bills, by id
    rows,       \* how many flight_bill_passengers each bill has
    points,     \* the user's travelPoint
    metrics,    \* bookingTimes and revenue of each partner
    used,       \* the voucher's usedCount
    request,    \* the request being served
    calls,      \* how many there were
    forfeited,  \* travel points that a failure took from the user
    drifted     \* whether an amount changed after it was counted

ticketVars == <<bill, rows, points, metrics, used, request, calls, forfeited, drifted>>

NoBill == [status |-> "none", partner |-> Same, tickets |-> 0, total |-> 0,
           points |-> 0, refunded |-> FALSE, voucher |-> FALSE]

Idle == [bill |-> Same, kind |-> "flight", ask |-> NoBill, row |-> NoBill, taken |-> 0, todo |-> <<>>]

TypeOK ==
    /\ bill \in [BillId -> [status : Status \cup {"none"}, partner : Partner \cup {Same},
          tickets : Nat, total : Nat, points : Nat, refunded : BOOLEAN, voucher : BOOLEAN]]
    /\ rows \in [BillId -> Nat]
    /\ points \in Nat /\ forfeited \in Nat /\ used \in Nat /\ calls \in 0..MaxCalls
    /\ metrics \in [Partner -> [bookings : Int, revenue : Int]]
    /\ drifted \in BOOLEAN
    /\ request.bill \in BillId \cup {Same} /\ request.taken \in Nat

Init ==
    /\ bill = [b \in BillId |-> NoBill]
    /\ rows = [b \in BillId |-> 0]
    /\ points = StartPoints
    /\ metrics = [p \in Partner |-> [bookings |-> 0, revenue |-> 0]]
    /\ used = 0 /\ request = Idle /\ calls = 0 /\ forfeited = 0 /\ drifted = FALSE

-----------------------------------------------------------------------------

Live(b) == bill[b].status # "none"

\* Mutant: nothing stops at zero.
Positive_Unbounded(n) == n

Positive(n) == IF n > 0 THEN n ELSE 0

\* validateVoucherForBooking, for a voucher without a term or a minimum.
VoucherAllowed == used < Limit

\* The total of a bill, unless the caller names another one.
Price(tickets, voucher, spent) ==
    LET fares == tickets * Fare
        off == IF ~voucher THEN 0 ELSE IF Discount > fares THEN fares ELSE Discount
    IN  Positive(fares - off - spent)

Named(value, old) == IF value = Same THEN old ELSE value

\* Mutant: a completed bill that is cancelled stays counted.
Leaves_Counted(prev, next) == prev = "COMPLETED" /\ next \notin {"COMPLETED", "CANCELLED"}

\* The bill no longer counts for its partner.
Leaves(prev, next) == prev = "COMPLETED" /\ next # "COMPLETED"

\* Mutant: removing is not taken for a cancellation.
Refunds_Cancelled(next, row, removing) ==
    next = "CANCELLED" /\ ~removing /\ row.points > 0 /\ ~row.refunded

\* shouldRefund; removing is forceCancellation.
Refunds(next, row, removing) ==
    (removing \/ next = "CANCELLED") /\ row.points > 0 /\ ~row.refunded

If(condition, steps) == IF condition THEN steps ELSE <<>>

\* What applyStatusTransition has to write, in its order, for a bill that
\* comes from status prev.
Transition(prev, next, row, removing) ==
    LET enters == prev # "COMPLETED" /\ next = "COMPLETED"
    IN  If(enters, <<"count">> \o If(row.voucher, <<"redeem">>)
                   \o If(row.points > 0 /\ row.refunded, <<"retake", "unflag">>))
        \o If(Leaves(prev, next), <<"uncount">>)
        \o If(Refunds(next, row, removing), <<"refund", "flag">>)
        \o If(removing, <<"delete">>)

\* The request has done its next commit.
Goto(r, todo) == request' = IF todo = <<>> THEN Idle ELSE [r EXCEPT !.todo = todo]
Done == Goto(request, Tail(request.todo))
At(step) == request.todo # <<>> /\ Head(request.todo) = step

Serve == request = Idle /\ calls < MaxCalls /\ calls' = calls + 1

-----------------------------------------------------------------------------

\* create up to the deduction of the points.
Create(b, kind, offer) ==
    /\ Serve /\ ~Live(b)
    /\ offer.voucher => VoucherAllowed
    /\ offer.points <= points
    /\ points' = points - offer.points
    /\ LET price == Price(offer.tickets, offer.voucher, offer.points)
           row == [status |-> offer.status, partner |-> offer.partner,
                   tickets |-> offer.tickets, total |-> Named(offer.total, price),
                   points |-> offer.points, refunded |-> FALSE, voucher |-> offer.voucher]
       IN  request' = [bill |-> b, kind |-> kind, ask |-> row, row |-> row,
                       taken |-> offer.points, todo |-> <<"save">>]
    /\ UNCHANGED <<bill, rows, metrics, used, forfeited, drifted>>

CreateFlightBill(b, offer) == Create(b, "flight", offer)
CreateBusBill(b, offer) == Create(b, "bus", offer)
CreateTrainBill(b, offer) == Create(b, "train", offer)

\* update up to the deletion of the passengers it replaces.
Update(b, ask) ==
    /\ Serve /\ Live(b)
    /\ rows' = IF ask.tickets = Same THEN rows ELSE [rows EXCEPT ![b] = 0]
    /\ request' = [bill |-> b, kind |-> "flight", ask |-> ask, row |-> bill[b],
                   taken |-> 0, todo |-> <<"reprice", "save">>]
    /\ UNCHANGED <<bill, points, metrics, used, forfeited, drifted>>

\* Mutant: the count of tickets is not updated with the passengers.
Wanted_OldTickets(row, ask) ==
    LET voucher == Named(ask.voucher, row.voucher)
        spent == Named(ask.points, row.points)
    IN  [status |-> Named(ask.status, row.status), partner |-> Named(ask.partner, row.partner),
         tickets |-> row.tickets, total |-> Named(ask.total, Price(row.tickets, voucher, spent)),
         points |-> spent, refunded |-> row.refunded /\ spent <= row.points,
         voucher |-> voucher \/ row.voucher]

\* The row update wants to save.  A voucher that is cleared leaves the bill
\* in memory only: undefined does not write its column.
Wanted(row, ask) ==
    LET tickets == Named(ask.tickets, row.tickets)
        voucher == Named(ask.voucher, row.voucher)
        spent == Named(ask.points, row.points)
    IN  [status |-> Named(ask.status, row.status), partner |-> Named(ask.partner, row.partner),
         tickets |-> tickets, total |-> Named(ask.total, Price(tickets, voucher, spent)),
         points |-> spent, refunded |-> row.refunded /\ spent <= row.points,
         voucher |-> voucher \/ row.voucher]

\* update between the deletion of the passengers and the save of the bill:
\* the voucher and the points may refuse the request, and more or fewer
\* points are taken from the user.
Reprice ==
    /\ At("reprice")
    /\ LET row == request.row
           spent == Named(request.ask.points, row.points)
           more == spent - row.points
       IN  IF (Named(request.ask.voucher, row.voucher) /\ ~VoucherAllowed) \/ more > points
           THEN request' = Idle /\ UNCHANGED points
           ELSE /\ points' = points - more
                /\ request' = [request EXCEPT !.row = Wanted(row, request.ask),
                                  !.taken = Positive(more), !.todo = Tail(@)]
    /\ UNCHANGED <<bill, rows, metrics, used, calls, forfeited, drifted>>

\* The partner of a bus type or a train route is not loaded, and the bill's
\* column for it may not be NULL.
LacksPartner == {"bus", "train"}

\* The save of the bill with its passengers, in create and update.
Save ==
    /\ At("save") /\ request.kind \notin LacksPartner
    /\ LET b == request.bill
           prev == bill[b]
           row == request.row
       IN  /\ bill' = [bill EXCEPT ![b] = row]
           /\ rows' = IF request.ask.tickets = Same THEN rows
                      ELSE [rows EXCEPT ![b] = request.ask.tickets]
           /\ drifted' = (drifted \/ (prev.status = "COMPLETED" /\
                 <<prev.partner, prev.tickets, prev.total>> # <<row.partner, row.tickets, row.total>>))
           /\ Goto([request EXCEPT !.taken = 0], Transition(prev.status, row.status, row, FALSE))
    /\ UNCHANGED <<points, metrics, used, calls, forfeited>>

\* The save of a bus or train bill always throws.
SaveRefused ==
    /\ At("save") /\ request.kind \in LacksPartner
    /\ request' = Idle
    /\ forfeited' = forfeited + request.taken
    /\ UNCHANGED <<bill, rows, points, metrics, used, calls, drifted>>

\* remove: a forced transition to CANCELLED, then the row goes.
Remove(b) ==
    /\ Serve /\ Live(b)
    /\ request' = [Idle EXCEPT !.bill = b, !.row = bill[b],
                      !.todo = Transition(bill[b].status, "CANCELLED", bill[b], TRUE)]
    /\ UNCHANGED <<bill, rows, points, metrics, used, forfeited, drifted>>

\* adjustBookingMetrics.
Adjust(sign) ==
    LET row == request.row
    IN  metrics' = [metrics EXCEPT ![row.partner] =
            [bookings |-> @.bookings + sign * row.tickets, revenue |-> @.revenue + sign * row.total]]

Count == At("count") /\ Adjust(1) /\ Done
         /\ UNCHANGED <<bill, rows, points, used, calls, forfeited, drifted>>

Uncount == At("uncount") /\ Adjust(-1) /\ Done
           /\ UNCHANGED <<bill, rows, points, used, calls, forfeited, drifted>>

Redeem == At("redeem") /\ used' = used + 1 /\ Done
          /\ UNCHANGED <<bill, rows, points, metrics, calls, forfeited, drifted>>

\* Points that were refunded are taken again, as far as the user has them.
Retake ==
    /\ At("retake")
    /\ points' = Positive(points - request.row.points)
    /\ Goto([request EXCEPT !.taken = points - points'], Tail(request.todo))
    /\ UNCHANGED <<bill, rows, metrics, used, calls, forfeited, drifted>>

Refund == At("refund") /\ points' = points + request.row.points /\ Done
          /\ UNCHANGED <<bill, rows, metrics, used, calls, forfeited, drifted>>

\* travelPointsRefunded is written on its own.
Flag ==
    /\ At("flag") \/ At("unflag")
    /\ bill' = [bill EXCEPT ![request.bill].refunded = At("flag")]
    /\ Goto([request EXCEPT !.taken = 0], Tail(request.todo))
    /\ UNCHANGED <<rows, points, metrics, used, calls, forfeited, drifted>>

Delete ==
    /\ At("delete")
    /\ bill' = [bill EXCEPT ![request.bill] = NoBill]
    /\ rows' = [rows EXCEPT ![request.bill] = 0]
    /\ Done
    /\ UNCHANGED <<points, metrics, used, calls, forfeited, drifted>>

\* A failure now leaves a bill whose status and the partner's figures
\* disagree.
BreaksCount ==
    LET todo == Range(request.todo)
    IN  IF "delete" \in todo
        THEN request.row.status = "COMPLETED" /\ "uncount" \notin todo
        ELSE todo \cap {"count", "uncount"} # {}

\* The database or the process fails before the next commit.
Fail ==
    /\ request # Idle
    /\ request' = Idle
    /\ forfeited' = forfeited + request.taken
    /\ drifted' = (drifted \/ BreaksCount)
    /\ UNCHANGED <<bill, rows, points, metrics, used, calls>>

FlightRequest(b) ==
    \/ \E offer \in Offered : CreateFlightBill(b, offer)
    \/ \E ask \in Asked : Update(b, ask)
    \/ Remove(b)

\* The other requests of these two never find a bill.
BusRequest(b) == \E offer \in Offered : CreateBusBill(b, offer)
TrainRequest(b) == \E offer \in Offered : CreateTrainBill(b, offer)

Next ==
    \/ \E b \in BillId : FlightRequest(b) \/ BusRequest(b) \/ TrainRequest(b)
    \/ Reprice \/ Save \/ SaveRefused
    \/ Count \/ Uncount \/ Redeem \/ Retake \/ Refund \/ Flag \/ Delete
    \/ Fail

Spec == Init /\ [][Next]_ticketVars

-----------------------------------------------------------------------------

\* The points that bills hold for the user.
Held == MapThenSumSet(LAMBDA b : IF bill[b].refunded THEN 0 ELSE bill[b].points, BillId)

\* The user loses no travel points: what is not in the account is held by a
\* bill that will give it back when it is cancelled or removed, or is with
\* the request, or was taken by one that failed before its bill was saved.
NoPointsLost == points + Held + request.taken + forfeited >= StartPoints

\* A bill has a row for each of its tickets or, while an update replaces
\* them and after one that was refused, no row at all: never some of the
\* old and some of the new ones.
SeatsMatch == \A b \in BillId : rows[b] \in {0, bill[b].tickets}

\* As long as no bill was changed while it counted, and no request broke
\* off on its way there, the partner's figures are those of the COMPLETED
\* bills, whatever came in between.
CountedFor(p) == {b \in BillId : bill[b].status = "COMPLETED" /\ bill[b].partner = p}
RevenueExact ==
    request = Idle /\ ~drifted => \A p \in Partner :
        metrics[p] = [bookings |-> MapThenSumSet(LAMBDA b : bill[b].tickets, CountedFor(p)),
                      revenue |-> MapThenSumSet(LAMBDA b : bill[b].total, CountedFor(p))]

=============================================================================
