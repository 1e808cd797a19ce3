-------------------------- MODULE RentalBillSteps --------------------------
(***************************************************************************)
(* rental-bill.service.ts: one action per request that starts (its reads   *)
(* and its checks on them) and one per await that writes something.  The   *)
(* caller is assumed to be the renter or the owner where findOne asks for  *)
(* it; any other caller gets an exception, which changes nothing.          *)
(***************************************************************************)
EXTENDS PaymentSteps

\* A request on bill b that changes nothing before its first await.
Request(w, c) ==
    /\ Accept(w, c)
    /\ UNCHANGED <<rentalVars, vehicle, gatewayVars, usedCount, points, moneyVars,
                   chain, era, cron>>

-----------------------------------------------------------------------------
\* Booking: create, addVehicleToBill, removeVehicleFromBill, update.

\* create saves an empty bill, then adds the vehicles one by one.
Create(w) ==
    /\ \E b \in Bill, vs \in SUBSET Vehicle :
          /\ bill[b].status = "none"
          /\ vs # {}
          /\ Accept(w, [NoCall EXCEPT !.op = "create", !.bill = b, !.todo = vs,
                           !.pc = "loadForAdd"])
          /\ bill' = [bill EXCEPT ![b] = NewRow]
    /\ UNCHANGED <<details, aged, vehicle, gatewayVars, usedCount, points, moneyVars,
                   chain, era, cron>>

\* Bound: a vehicle is added to a bill that does not have it.  The code does
\* not check this; details are a set here.
AddVehicle(w) ==
    \E b \in Bill : \E v \in Vehicle \ details[b] :
        /\ bill[b].status # "none"
        /\ Request(w, [NoCall EXCEPT !.op = "addVehicle", !.bill = b, !.todo = {v},
                          !.pc = "loadForAdd"])

\* Mutant: no "All vehicles must belong to the same owner" check.
LoadForAdd_AnyOwner(w) ==
    /\ At(w, "loadForAdd")
    /\ LET b == call[w].bill IN
          \E v \in call[w].todo :
             /\ bill[b].status = "pending"
             /\ vehicle[v].approved /\ vehicle[v].available
             /\ call' = [call EXCEPT ![w] =
                   [Loaded(@.op, b) EXCEPT !.pc = "insertDetail", !.todo = call[w].todo \ {v},
                                           !.details = {v}]]
    /\ UNCHANGED <<rentalVars, gatewayVars, usedCount, points, moneyVars, elsewhere, calls>>

\* The checks of addVehicleToBill on one vehicle, whose contract is compared
\* with that of any one vehicle on the bill (findOne without an order).  A
\* check that fails throws and leaves the bill with the vehicles added so far.
LoadForAdd(w) ==
    /\ At(w, "loadForAdd")
    /\ LET b == call[w].bill IN
       \/ \E v \in call[w].todo :
             /\ bill[b].status = "pending"
             /\ vehicle[v].approved /\ vehicle[v].available
             /\ details[b] # {} => \E x \in details[b] : vehicle[x].contract = vehicle[v].contract
             /\ call' = [call EXCEPT ![w] =
                   [Loaded(@.op, b) EXCEPT !.pc = "insertDetail", !.todo = call[w].todo \ {v},
                                           !.details = {v}]]
       \/ /\ \E v \in call[w].todo :
                \/ bill[b].status # "pending"
                \/ ~(vehicle[v].approved /\ vehicle[v].available)
                \/ \E x \in details[b] : vehicle[x].contract # vehicle[v].contract
          /\ Return(w)
    /\ UNCHANGED <<rentalVars, gatewayVars, usedCount, points, moneyVars, elsewhere, calls>>

InsertDetail(w) ==
    /\ At(w, "insertDetail")
    /\ details' = [details EXCEPT ![call[w].bill] = @ \cup call[w].details]
    /\ Goto(w, "refresh")
    /\ UNCHANGED <<bill, aged, gatewayVars, usedCount, points, moneyVars, elsewhere, calls>>

RemoveVehicle(w) ==
    \E b \in Bill, v \in Vehicle :
        /\ bill[b].status = "pending"
        /\ Request(w, [Loaded("removeVehicle", b) EXCEPT !.pc = "deleteDetail", !.details = {v}])

DeleteDetail(w) ==
    /\ At(w, "deleteDetail")
    /\ details' = [details EXCEPT ![call[w].bill] = @ \ call[w].details]
    /\ Goto(w, "refresh")
    /\ UNCHANGED <<bill, aged, gatewayVars, usedCount, points, moneyVars, elsewhere, calls>>

\* Both read the details again and recalculate the total of the bill they
\* loaded before.
Refresh(w) ==
    /\ At(w, "refresh")
    /\ LET c == call[w] IN
          call' = [call EXCEPT ![w] = [c EXCEPT !.details = details[c.bill], !.pc = "save",
                                         !.row.total = Total(c.row, details[c.bill])]]
    /\ UNCHANGED <<rentalVars, gatewayVars, usedCount, points, moneyVars, elsewhere, calls>>

\* What update makes of a loaded bill; the voucher is "keep", "set" or
\* "unset", points -1 when the request does not mention them.
Edited(row, vehicles, method, voucher, pts) ==
    LET edited == [row EXCEPT
            !.method  = IF method = "none" THEN @ ELSE method,
            !.voucher = IF voucher = "keep" THEN @ ELSE voucher,
            !.points  = IF pts < 0 THEN @ ELSE pts]
    IN  [edited EXCEPT !.total = Total(edited, vehicles)]

VoucherAllowed == MaxUsage = 0 \/ usedCount < MaxUsage

Update(w) ==
    \E b \in Bill, method \in {"none", "momo", "qr_code"},
       voucher \in {"keep", "set", "unset"}, pts \in PointChoice \cup {-1} :
        /\ bill[b].status = "pending"
        /\ voucher = "set" => VoucherAllowed
        /\ pts <= points[RenterOf[b]]
        /\ Request(w, [Loaded("update", b) EXCEPT
                          !.row = Edited(bill[b], details[b], method, voucher, pts)])

-----------------------------------------------------------------------------
\* Payment: pay.

Pay(w) ==
    \E b \in Bill : \E owner \in FirstOwner(vehicle, details[b]) :
        /\ bill[b].status = "pending"
        /\ bill[b].method # "none"
        /\ bill[b].total > 0
        /\ Request(w, [Loaded("pay", b) EXCEPT
              !.seen = bill[b].total,
              !.pc = IF owner \in EthOwner THEN "flagEth" ELSE "createPayment"])

\* billRepo.update of ownerEthAddress and requiresEthDeposit only.
FlagEth(w) ==
    /\ At(w, "flagEth")
    /\ bill' = [bill EXCEPT ![call[w].bill].eth = TRUE]
    /\ aged' = AgedAfterUpdate(call[w].bill)
    /\ Goto(w, "createPayment")
    /\ UNCHANGED <<details, gatewayVars, usedCount, points, moneyVars, elsewhere, calls>>

-----------------------------------------------------------------------------
\* The workflow between payment and return.

Delivering(w) ==
    \E b \in Bill :
        /\ bill[b].status = "paid"
        /\ era >= 1
        /\ bill[b].progress = "booked"
        /\ Request(w, [Loaded("delivering", b) EXCEPT !.row.progress = "delivering"])

Delivered(w) ==
    \E b \in Bill :
        /\ bill[b].progress = "delivering"
        /\ era >= 2
        /\ Request(w, [Loaded("delivered", b) EXCEPT !.row.progress = "delivered"])

\* Mutant: userPickup does not wait for the delivery.
Pickup_Early(w) ==
    \E b \in Bill :
        /\ bill[b].progress \in {"delivering", "delivered"}
        /\ Request(w, [Loaded("pickup", b) EXCEPT !.row.progress = "in_progress"])

Pickup(w) ==
    \E b \in Bill :
        /\ bill[b].progress = "delivered"
        /\ Request(w, [Loaded("pickup", b) EXCEPT !.row.progress = "in_progress"])

\* After the end date the copy also gets an overtime fee.
ReturnRequest(w) ==
    \E b \in Bill :
        /\ bill[b].progress = "in_progress"
        /\ era >= 4
        /\ Request(w, [Loaded("returnRequest", b) EXCEPT
              !.row.progress = "return_requested",
              !.row.overtime = @ \/ (era = 5 /\ details[b] # {})])

\* What comes after processRefundOrRelease.
Finish(op) == IF op = "ownerCancel" THEN "commit" ELSE "saveVehicles"

\* Where processRefundOrRelease starts; a total of zero skips it.
Settling(op, b, row, start) ==
    [Loaded(op, b) EXCEPT !.row = row, !.todo = details[b],
                          !.pc = IF bill[b].total > 0 THEN start ELSE Finish(op)]

\* Mutant: ownerConfirmReturn does not call processRefundOrRelease.
ConfirmReturn_Unpaid(w) ==
    \E b \in Bill :
        /\ bill[b].progress = "return_requested"
        /\ Request(w, Settling("confirmReturn", b,
              [bill[b] EXCEPT !.progress = "return_confirmed", !.status = "completed"],
              "saveVehicles"))

\* ownerConfirmReturn looks at the progress, not at the status; a distance
\* of more than 50m between the parties throws.
ConfirmReturn(w) ==
    \E b \in Bill :
        /\ bill[b].progress = "return_requested"
        /\ Request(w, Settling("confirmReturn", b,
              [bill[b] EXCEPT !.progress = "return_confirmed", !.status = "completed"],
              "release"))

Complete(w) ==
    \E b \in Bill :
        /\ bill[b].status = "paid"
        /\ Request(w, Settling("complete", b, [bill[b] EXCEPT !.status = "completed"], "release"))

CancelledRow(row) == [row EXCEPT !.status = "cancelled", !.progress = "cancelled"]

Cancel(w) ==
    \E b \in Bill :
        /\ bill[b].status \in {"pending", "paid"}
        /\ Request(w, Settling("cancel", b, CancelledRow(bill[b]),
              IF bill[b].status = "paid" THEN "findRefundable" ELSE "saveVehicles"))

OwnerCancel(w) ==
    \E b \in Bill :
        /\ bill[b].status = "paid"
        /\ details[b] # {}
        /\ era <= 2
        /\ Request(w, Settling("ownerCancel", b, CancelledRow(bill[b]), "findRefundable"))

-----------------------------------------------------------------------------
\* processRefundOrRelease after the payment is refunded.

Releases(op) == op \in {"complete", "confirmReturn"}

RefundPoints(w) ==
    /\ At(w, "refundPoints")
    /\ points' = [points EXCEPT ![Renter(w)] = @ + call[w].row.points]
    /\ Goto(w, AfterPoints(call[w].op, call[w].row))
    /\ UNCHANGED <<rentalVars, gatewayVars, usedCount, moneyVars, elsewhere, calls>>

\* What follows the release and its chain transaction; a total below a
\* hundred earns no points.
AfterChain(op, row) ==
    IF Releases(op) /\ row.total >= 100 THEN "reward" ELSE Finish(op)

\* walletService.releaseFunds, to the owner on completion and back to the
\* renter on a refund; it throws when the locked balance is too small, and
\* the bill is then not saved.
Release(w) ==
    /\ At(w, "release")
    /\ \E payee \in IF Releases(call[w].op) THEN FirstOwner(call[w].fleet, call[w].details)
                   ELSE {Nobody} :
       LET c == call[w] IN
          \/ /\ ReleaseFunds(c.bill, c.row.total, payee)
             /\ Goto(w, IF c.row.eth THEN "settleChain" ELSE AfterChain(c.op, c.row))
          \/ /\ ~ReleaseAllowed(User, balance, locked, RenterOf[c.bill], c.row.total, payee)
             /\ Return(w)
             /\ UNCHANGED moneyVars
    /\ UNCHANGED <<rentalVars, gatewayVars, usedCount, points, elsewhere, calls>>

\* adminReleaseFundsForRental or adminRefundForRental when the copy asks for
\* a chain deposit; every failure on the chain is caught and logged.
SettleChain(w) ==
    /\ At(w, "settleChain")
    /\ LET c == call[w] IN
          /\ \/ /\ chain[c.bill] = "Deposited"
                /\ chain' = [chain EXCEPT
                      ![c.bill] = IF Releases(c.op) THEN "Released" ELSE "Refunded"]
             \/ UNCHANGED chain
          /\ Goto(w, AfterChain(c.op, c.row))
    /\ UNCHANGED <<rentalVars, vehicle, gatewayVars, usedCount, points, moneyVars,
                   era, cron, calls>>

\* One travel point for every hundred of the total.
Reward(w) ==
    /\ At(w, "reward")
    /\ points' = [points EXCEPT ![Renter(w)] = @ + call[w].row.total \div 100]
    /\ Goto(w, "saveVehicles")
    /\ UNCHANGED <<rentalVars, gatewayVars, usedCount, moneyVars, elsewhere, calls>>

\* The vehicles of the copy are saved one by one, each as it was loaded but
\* for availability and, on completion, totalRentals.
SaveVehicles(w) ==
    /\ At(w, "saveVehicles")
    /\ LET c == call[w] IN
       IF c.todo = {} THEN Goto(w, "save") /\ UNCHANGED vehicle
       ELSE \E v \in c.todo :
               /\ vehicle' = [vehicle EXCEPT ![v] =
                     [c.fleet[v] EXCEPT !.available = TRUE,
                                        !.totalRentals = IF Releases(c.op) THEN @ + 1 ELSE @]]
               /\ call' = [call EXCEPT ![w].todo = c.todo \ {v}]
    /\ UNCHANGED <<rentalVars, gatewayVars, usedCount, points, moneyVars, chain, era,
                   cron, calls>>

\* A detail added since the bill was loaded would lose its bill, which the
\* column forbids: the save throws.  One deleted since is inserted again.
SavedDetails(b, vehicles) == details[b] \subseteq vehicles

\* billRepo.save at the end of every request that loaded the bill.
Save(w) ==
    /\ At(w, "save")
    /\ LET c == call[w] IN
       IF SavedDetails(c.bill, c.details)
       THEN /\ bill' = [bill EXCEPT ![c.bill] = Persisted(@, c.row)]
            /\ details' = [details EXCEPT ![c.bill] = c.details]
            /\ aged' \in AgedAfter(c.bill, c.row)
            /\ IF c.todo = {} THEN Return(w) ELSE Goto(w, "loadForAdd")
       ELSE Return(w) /\ UNCHANGED rentalVars
    /\ UNCHANGED <<gatewayVars, usedCount, points, moneyVars, elsewhere, calls>>

\* The transaction of ownerCancel holds only the vehicles and the bill; what
\* processRefundOrRelease did before is committed already.
CommitOwnerCancel(w) ==
    /\ At(w, "commit")
    /\ LET c == call[w] IN
       IF SavedDetails(c.bill, c.details)
       THEN /\ vehicle' = [v \in Vehicle |-> IF v \in c.details
                            THEN [vehicle[v] EXCEPT !.available = TRUE] ELSE vehicle[v]]
            /\ bill' = [bill EXCEPT ![c.bill] = Persisted(@, c.row)]
            /\ details' = [details EXCEPT ![c.bill] = c.details]
            /\ aged' \in AgedAfter(c.bill, c.row)
       ELSE UNCHANGED <<rentalVars, vehicle>>
    /\ Return(w)
    /\ UNCHANGED <<gatewayVars, usedCount, points, moneyVars, chain, era, cron, calls>>

-----------------------------------------------------------------------------
\* disable, enable, create and approve of rental-vehicle.service.ts, which
\* compete with the above for the rows of rental_vehicles.

\* hasFutureBookings: a bill neither cancelled nor completed that has not
\* reached its end date.
FutureBooking(v) ==
    era < 5 /\ \E b \in Bill : v \in details[b] /\ bill[b].status \in {"pending", "paid"}

Disable(w) ==
    \E v \in Vehicle :
        /\ ~FutureBooking(v)
        /\ Request(w, [NoCall EXCEPT !.op = "disable", !.pc = "saveVehicle", !.todo = {v},
                          !.fleet = [vehicle EXCEPT ![v].available = FALSE]])

Enable(w) ==
    \E v \in Vehicle :
        /\ vehicle[v].approved
        /\ ~vehicle[v].available
        /\ Request(w, [NoCall EXCEPT !.op = "enable", !.pc = "saveVehicle", !.todo = {v},
                          !.fleet = [vehicle EXCEPT ![v].available = TRUE]])

\* The plate is the primary key, and nothing looks whether it is taken: the
\* row of a vehicle that is registered again is overwritten, its contract
\* included, whatever bills it is on.
Register(w) ==
    \E v \in Vehicle, c \in Contract :
        Request(w, [NoCall EXCEPT !.op = "register", !.pc = "saveVehicle", !.todo = {v},
                      !.fleet = [vehicle EXCEPT ![v] = Registered(c)]])

Approve(w) ==
    \E v \in Vehicle :
        Request(w, [NoCall EXCEPT !.op = "approve", !.pc = "saveVehicle", !.todo = {v},
                      !.fleet = [vehicle EXCEPT ![v] = Approved(@)]])

SaveVehicle(w) ==
    /\ At(w, "saveVehicle")
    /\ vehicle' = [v \in Vehicle |-> IF v \in call[w].todo THEN call[w].fleet[v] ELSE vehicle[v]]
    /\ Return(w)
    /\ UNCHANGED <<rentalVars, gatewayVars, usedCount, points, moneyVars, chain, era,
                   cron, calls>>

BillStep(w) ==
    \/ LoadForAdd(w) \/ InsertDetail(w) \/ DeleteDetail(w) \/ Refresh(w)
    \/ FlagEth(w) \/ RefundPoints(w) \/ Release(w) \/ SettleChain(w) \/ Reward(w)
    \/ SaveVehicles(w) \/ Save(w) \/ CommitOwnerCancel(w) \/ SaveVehicle(w)

-----------------------------------------------------------------------------
\* checkTimeouts, every minute: first the PENDING bills with a payment
\* method, then those without; each query loads whole rows, which are then
\* saved one after the other with status CANCELLED.

\* Mutant: the first query copied from the second one.
Matching_PureTwice(stage) ==
    {b \in aged : bill[b].status = "pending" /\ bill[b].method = "none"}

Matching(stage) ==
    {b \in aged : /\ bill[b].status = "pending"
                  /\ (bill[b].method = "none") = (stage = "pure")}

CronFind(stage) ==
    /\ cron.todo = {}
    /\ cron.stage = IF stage = "confirmed" THEN "idle" ELSE "confirmed"
    /\ cron' = [stage |-> stage, todo |-> Matching(stage),
                row |-> [b \in Bill |-> IF b \in Matching(stage) THEN bill[b] ELSE NoRow]]
    /\ UNCHANGED <<rentalVars, vehicle, gatewayVars, usedCount, points, moneyVars, chain,
                   era, call, calls>>

\* No relations were loaded, so the save leaves the details alone.
CronSave ==
    /\ \E b \in cron.todo :
          LET row == [cron.row[b] EXCEPT !.status = "cancelled"] IN
          /\ bill' = [bill EXCEPT ![b] = row]
          /\ aged' \in AgedAfter(b, row)
          /\ cron' = [cron EXCEPT !.todo = @ \ {b}, !.row[b] = NoRow]
    /\ UNCHANGED <<details, vehicle, gatewayVars, usedCount, points, moneyVars, chain,
                   era, call, calls>>

CronEnds ==
    /\ cron.stage = "pure"
    /\ cron.todo = {}
    /\ cron' = NoCron
    /\ UNCHANGED <<rentalVars, vehicle, gatewayVars, usedCount, points, moneyVars, chain,
                   era, call, calls>>

CronStep == CronFind("confirmed") \/ CronFind("pure") \/ CronSave \/ CronEnds
=============================================================================
