---------------------------- MODULE RentalState ----------------------------
(***************************************************************************)
(* The state that rental-bill.service.ts and payment.service.ts share: the *)
(* rows of rental_bills, rental_bill_details, rental_vehicles, payments,   *)
(* vouchers and user_wallets they touch, the orders at the payment         *)
(* gateway, and the requests being served.                                 *)
(*                                                                         *)
(* Node.js interleaves requests at their awaits.  A request in service is  *)
(* a record call[w]: which operation, at which await it stands (pc), and   *)
(* the rows it has loaded into memory, which may be stale by the time it   *)
(* saves them.  Reads that follow each other with no write between them    *)
(* are one step.                                                           *)
(***************************************************************************)
EXTENDS WalletRules, FiniteSets, FiniteSetsExt

CONSTANTS
    Bill, Vehicle, Worker,
    RenterOf,       \* renter of each bill
    Contract,       \* the approved contracts
    OwnerOf,        \* user of each contract
    ContractOf,     \* contract each vehicle is under at the start
    Price,          \* price of each vehicle for the bill's package
    Discount,       \* value of the voucher, a fixed amount
    MaxUsage,       \* its maxUsage, 0 for no limit
    PointChoice,    \* travelPointsUsed values that callers ask for
    StartPoints,    \* travel points of every user at the start
    RawAmount,      \* amounts of POST payments/momo/create
    EthOwner,       \* users with an ethAddress
    Op,             \* operations of this instance, by era
    MaxCalls,       \* bound on the requests served
    MaxPayments     \* bound on payments ids

ASSUME RentalAssumption ==
    /\ RenterOf \in [Bill -> User]
    /\ OwnerOf \in [Contract -> User]
    /\ ContractOf \in [Vehicle -> Contract]
    /\ Price \in [Vehicle -> Nat \ {0}]
    /\ Discount \in Nat /\ MaxUsage \in Nat /\ StartPoints \in Nat
    /\ PointChoice \subseteq Nat
    /\ RawAmount \subseteq Int
    /\ EthOwner \subseteq User
    /\ MaxCalls \in Nat /\ MaxPayments \in Nat
    /\ IsFiniteSet(Bill) /\ IsFiniteSet(Vehicle)

VARIABLES
    bill,           \* rental_bills
    details,        \* vehicles in rental_bill_details of each bill
    aged,           \* bills whose cron timeout has passed
    vehicle,        \* rental_vehicles
    payment,        \* payments
    usedCount,      \* vouchers.usedCount of the voucher
    points,         \* users.travelPoint
    balance, locked,        \* user_wallets, as in Wallet
    lockedFor, releasedFor, \* sums of the LOCK and UNLOCK rows rental:<bill>
    order,          \* what the gateway knows about a payment's order
    chain,          \* status of the rental in RentalEscrow.sol
    era,            \* where now lies between the dates of the bills
    call,           \* requests in service
    calls,          \* number of requests accepted so far
    cron            \* checkTimeouts in progress

rentalVars == <<bill, details, aged>>
moneyVars == <<balance, locked, lockedFor, releasedFor>>
gatewayVars == <<payment, order>>
vars == <<rentalVars, vehicle, gatewayVars, usedCount, points, moneyVars,
          chain, era, call, calls, cron>>

-----------------------------------------------------------------------------

Status == {"none", "pending", "paid", "cancelled", "completed"}
Progress == {"pending", "booked", "delivering", "delivered", "in_progress",
             "return_requested", "return_confirmed", "cancelled"}

\* voucher "unset" exists only in memory, see Persisted.
Row == [status : Status, progress : Progress, method : {"none", "momo", "qr_code"},
        total : Nat, points : Nat, voucher : {"none", "set", "unset"}, eth : BOOLEAN,
        overtime : BOOLEAN]

NoRow == [status |-> "none", progress |-> "pending", method |-> "none", total |-> 0,
          points |-> 0, voucher |-> "none", eth |-> FALSE, overtime |-> FALSE]

NewRow == [NoRow EXCEPT !.status = "pending"]

\* approved for status APPROVED, available for availability AVAILABLE, else
\* MAINTENANCE (an approved vehicle is never UNAVAILABLE here).
VehicleRow == [contract : Contract, approved : BOOLEAN, available : BOOLEAN,
               totalRentals : Nat]

\* The row that the registration of a plate under contract c saves, and what
\* the approval makes of a row.
Registered(c) == [contract |-> c, approved |-> FALSE, available |-> FALSE, totalRentals |-> 0]
Approved(row) == [row EXCEPT !.approved = TRUE, !.available = TRUE]
FirstFleet == [v \in Vehicle |-> Approved(Registered(ContractOf[v]))]

PaymentId == 1..MaxPayments
PaymentRow == [bill : Bill \cup {Nobody}, method : {"none", "momo", "qr_code"},
               amount : Int, transId : BOOLEAN,
               status : {"none", "PENDING", "SUCCESS", "FAILED", "REFUNDED"}]
NoPayment == [bill |-> Nobody, method |-> "none", amount |-> 0, transId |-> FALSE,
              status |-> "none"]

\* now < start-1h, < start-30m, < start, < end-30m, <= end, > end.
Era == 0..5

\* The awaits at which a request can stand, and the operations.
Pc == {"idle", "save", "commit", "saveVehicle", "saveVehicles",
       "loadForAdd", "insertDetail", "deleteDetail", "refresh", "flagEth",
       "createPayment", "askGateway", "markFailed", "markRefused", "markSuccess",
       "loadRental", "deposit", "lock", "readPoints", "deductPoints", "readVoucher",
       "saveVoucher", "book", "findRefundable", "askRefund", "markRefunded",
       "refundPoints", "release", "settleChain", "reward"}
OpName == {"none", "create", "addVehicle", "removeVehicle", "update", "pay", "momoCreate",
           "ipn", "confirmQr", "refundMomo", "delivering", "delivered", "pickup",
           "returnRequest", "confirmReturn", "complete", "cancel", "ownerCancel",
           "disable", "enable", "register", "approve"}

\* seen is the usedCount or travelPoint a read returned, todo the vehicles a
\* loop still has to visit, payment the row or order the request is about.
Call == [op : OpName, bill : Bill \cup {Nobody}, pc : Pc, row : Row,
         details : SUBSET Vehicle, fleet : [Vehicle -> VehicleRow],
         payment : 0..MaxPayments, seen : Int, todo : SUBSET Vehicle]

NoCall == [op |-> "none", bill |-> Nobody, pc |-> "idle", row |-> NoRow, details |-> {},
           fleet |-> FirstFleet, payment |-> 0, seen |-> 0, todo |-> {}]

\* stage is the query checkTimeouts has run last, todo its unsaved results.
Cron == [stage : {"idle", "confirmed", "pure"}, todo : SUBSET Bill, row : [Bill -> Row]]
NoCron == [stage |-> "idle", todo |-> {}, row |-> [b \in Bill |-> NoRow]]

TypeOK ==
    /\ bill \in [Bill -> Row] /\ \A b \in Bill : bill[b].voucher # "unset"
    /\ details \in [Bill -> SUBSET Vehicle]
    /\ aged \subseteq Bill
    /\ vehicle \in [Vehicle -> VehicleRow]
    /\ payment \in [PaymentId -> PaymentRow]
    /\ usedCount \in Nat
    /\ points \in [User -> Int]
    /\ balance \in [User -> Column] /\ locked \in [User -> Column]
    /\ lockedFor \in [Bill -> Nat] /\ releasedFor \in [Bill -> Nat]
    /\ order \in [PaymentId -> {"none", "open", "paid", "refunded"}]
    /\ chain \in [Bill -> {"None", "Deposited", "Released", "Refunded"}]
    /\ era \in Era
    /\ call \in [Worker -> Call]
    /\ calls \in 0..MaxCalls
    /\ cron \in Cron

Init ==
    /\ bill = [b \in Bill |-> NoRow]
    /\ details = [b \in Bill |-> {}]
    /\ aged = {}
    /\ vehicle = FirstFleet
    /\ payment = [p \in PaymentId |-> NoPayment]
    /\ order = [p \in PaymentId |-> "none"]
    /\ usedCount = 0
    /\ points = [u \in User |-> StartPoints]
    /\ balance = [u \in User |-> 0] /\ locked = [u \in User |-> 0]
    /\ lockedFor = [b \in Bill |-> 0] /\ releasedFor = [b \in Bill |-> 0]
    /\ chain = [b \in Bill |-> "None"]
    /\ era = 0
    /\ call = [w \in Worker |-> NoCall]
    /\ calls = 0
    /\ cron = NoCron

-----------------------------------------------------------------------------
\* How a request moves.

At(w, pc) == call[w].pc = pc

\* Worker w accepts the request c.
Accept(w, c) ==
    /\ c.op \in Op[era]
    /\ At(w, "idle")
    /\ calls < MaxCalls
    /\ calls' = calls + 1
    /\ call' = [call EXCEPT ![w] = c]

Goto(w, pc) == call' = [call EXCEPT ![w].pc = pc]

\* The request answers, with a result or with an exception.
Return(w) == call' = [call EXCEPT ![w] = NoCall]

\* findOne with its relations: the bill, its details and their vehicles.
Loaded(op, b) ==
    [NoCall EXCEPT !.op = op, !.bill = b, !.pc = "save", !.row = bill[b],
                   !.details = details[b], !.fleet = vehicle]

Renter(w) == RenterOf[call[w].bill]

\* The owner of the first vehicle, through its contract, is any of these: no
\* query orders the details.  Nobody when the bill has no vehicle.
FirstOwner(fleet, vehicles) ==
    IF vehicles = {} THEN {Nobody} ELSE {OwnerOf[fleet[v].contract] : v \in vehicles}

\* calculateDiscountAmount of a fixed voucher.
DiscountOf(amount) == IF Discount > amount THEN amount ELSE Discount

\* Mutant: calculateTotal without Math.max(0, ...).
Total_Negative(row, vehicles) ==
    LET sum == MapThenSumSet(LAMBDA v : Price[v], vehicles)
        discounted == IF row.voucher = "set" THEN sum - DiscountOf(sum) ELSE sum
    IN  discounted - row.points

\* calculateTotal.
Total(row, vehicles) ==
    LET sum == MapThenSumSet(LAMBDA v : Price[v], vehicles)
        discounted == IF row.voucher = "set" THEN sum - DiscountOf(sum) ELSE sum
    IN  IF row.points > discounted THEN 0 ELSE discounted - row.points

\* Mutant: the save writes what is in memory, undefined included.
Persisted_Whole(old, row) == row

\* repository.save of a loaded bill overwrites the whole row with what is in
\* memory, except that a property set to undefined keeps its column.
Persisted(old, row) == IF row.voucher = "unset" THEN [row EXCEPT !.voucher = old.voucher] ELSE row

\* Whether the timeout of checkTimeouts has passed for b after a save of row:
\* with a payment method it runs from updatedAt, which every UPDATE moves,
\* without one from createdAt.  A save that changes no column is no UPDATE,
\* unless it changes one of those left out here.
AgedAfter(b, row) ==
    (IF row.method = "none" \/ row = bill[b] THEN {aged} ELSE {})
    \cup (IF row.method = "none" /\ bill[b].method = "none" THEN {} ELSE {aged \ {b}})

\* The same after a repository.update of the bill, which is always an UPDATE.
AgedAfterUpdate(b) == IF bill[b].method = "none" THEN aged ELSE aged \ {b}

\* Money put into, or taken out of, the locked balance for a bill.
LockFunds(b, amount) ==
    LET u == RenterOf[b] IN
    /\ LockAllowed(User, balance, locked, u, amount)
    /\ balance' = Moved(balance, u, -amount)
    /\ locked' = Moved(locked, u, amount)
    /\ lockedFor' = Moved(lockedFor, b, amount)
    /\ UNCHANGED releasedFor

\* Mutant: releaseFunds without its "Insufficient locked balance" check.
ReleaseFunds_Unchecked(b, amount, owner) ==
    LET u == RenterOf[b] IN
    /\ amount > 0
    /\ balance' = Moved(balance, Target(u, owner), amount)
    /\ locked' = Moved(locked, u, -amount)
    /\ releasedFor' = Moved(releasedFor, b, amount)
    /\ UNCHANGED lockedFor

\* Mutant: the renter's locked column is not lowered.
ReleaseFunds_KeepsLock(b, amount, owner) ==
    LET u == RenterOf[b] IN
    /\ ReleaseAllowed(User, balance, locked, u, amount, owner)
    /\ balance' = Moved(balance, Target(u, owner), amount)
    /\ releasedFor' = Moved(releasedFor, b, amount)
    /\ UNCHANGED <<lockedFor, locked>>

ReleaseFunds(b, amount, owner) ==
    LET u == RenterOf[b] IN
    /\ ReleaseAllowed(User, balance, locked, u, amount, owner)
    /\ balance' = Moved(balance, Target(u, owner), amount)
    /\ locked' = Moved(locked, u, -amount)
    /\ releasedFor' = Moved(releasedFor, b, amount)
    /\ UNCHANGED lockedFor

=============================================================================
