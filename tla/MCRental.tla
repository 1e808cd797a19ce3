------------------------------ MODULE MCRental ------------------------------
(***************************************************************************)
(* RentalSystem.tla for TLC.  One renter and one or two owners; every      *)
(* vehicle costs 200 for the package, the voucher takes 100 off.  Runs     *)
(* that look at what follows a booking start from a booked bill.           *)
(***************************************************************************)
EXTENDS RentalSystem, TLC

CONSTANTS renter, owner1, owner2, b1, b2, v1, v2, c1, c2

AllRentedByOne == [b \in Bill |-> renter]
TwoOwners == c1 :> owner1 @@ c2 :> owner2
OneOwned == c1 :> owner1
TwoFleets == [v \in Vehicle |-> IF v = v1 THEN c1 ELSE c2]
OneFleet == [v \in Vehicle |-> c1]
Costs200 == [v \in Vehicle |-> 200]

\* The operations of each run.
Handover == {"delivering", "delivered", "pickup", "returnRequest", "confirmReturn", "tick"}
Ending == {"complete", "cancel", "ownerCancel"}
Always(ops) == [e \in Era |-> ops]
OpHandover == Always(Handover \cup Ending \cup {"ipn", "confirmQr", "fail"})
OpTwoBills == Always(Ending \cup {"ipn", "confirmQr", "fail"})
OpOverlap == Always({"ipn"})
OpLate == Always({"ipn", "cancel"})
OpCron == Always({"ipn", "cron"})
OpTwice == Always(Handover \cup {"ipn", "complete"})
OpTimeout == Always({"addVehicle", "update", "pay", "ipn", "cancel", "cron"})

\* A history of requests that do not overlap is about the booking of a bill,
\* and stays before all of its dates, or about what follows a payment.
OpAlone == [e \in Era |->
    IF e = 0
    THEN {"create", "addVehicle", "removeVehicle", "update", "pay", "ipn", "confirmQr",
          "disable", "enable", "register", "approve"}
    ELSE Handover \cup Ending \cup
         {"momoCreate", "ipn", "confirmQr", "refundMomo", "disable", "enable", "fail"}]

\* Where the bookings of these initial states are made: b1 is for v1 and has
\* order 1, b2 is for v2 and has order 2.  The start of the bills is near
\* enough for the vehicles to be delivered.
VehicleFor(b) == IF b = b1 THEN v1 ELSE v2
OrderFor(b) == IF b = b1 THEN 1 ELSE 2

\* Nobody uses the voucher where it is worth nothing.
Vouchers == IF Discount = 0 THEN {"none"} ELSE {"none", "set"}

\* A PENDING row with method momo, with or without the voucher and points.
Chosen(b, pts, voucher) ==
    LET row == [NewRow EXCEPT !.method = "momo", !.points = pts, !.voucher = voucher]
    IN  [row EXCEPT !.total = Total(row, {VehicleFor(b)})]

NothingElse ==
    /\ details = [b \in Bill |-> {VehicleFor(b)}]
    /\ aged = {}
    /\ vehicle = FirstFleet
    /\ usedCount = 0
    /\ points = [u \in User |-> StartPoints]
    /\ balance = [u \in User |-> 0] /\ locked = [u \in User |-> 0]
    /\ lockedFor = [b \in Bill |-> 0] /\ releasedFor = [b \in Bill |-> 0]
    /\ chain = [b \in Bill |-> "None"]
    /\ era = 2
    /\ call = [w \in Worker |-> NoCall]
    /\ calls = 0
    /\ cron = NoCron

\* Every bill is booked and not paid yet.
Booked ==
    /\ \E pts \in PointChoice \cup {0}, voucher \in Vouchers :
          bill = [b \in Bill |-> Chosen(b, pts, voucher)]
    /\ payment = [p \in PaymentId |-> NoPayment]
    /\ order = [p \in PaymentId |-> "none"]
    /\ NothingElse

\* The customer has paid the order of every bill and the notification is on
\* its way.  The bills ask for a chain deposit if the owner can receive it.
Ordered ==
    /\ \E pts \in PointChoice \cup {0}, voucher \in Vouchers :
          /\ bill = [b \in Bill |->
                 [Chosen(b, pts, voucher) EXCEPT !.eth = owner1 \in EthOwner]]
          /\ payment = [p \in PaymentId |->
                 IF \E b \in Bill : OrderFor(b) = p
                 THEN LET b == CHOOSE b \in Bill : OrderFor(b) = p IN
                      [bill |-> b, method |-> "momo", amount |-> bill[b].total,
                       transId |-> FALSE, status |-> "PENDING"]
                 ELSE NoPayment]
    /\ order = [p \in PaymentId |-> IF \E b \in Bill : OrderFor(b) = p THEN "paid" ELSE "none"]
    /\ NothingElse

\* The bill is booked; the gateway has refused the order that the customer
\* asked for with an amount that is not the total.
Refused ==
    /\ \E pts \in PointChoice \cup {0}, voucher \in Vouchers :
          bill = [b \in Bill |-> Chosen(b, pts, voucher)]
    /\ \E amount \in RawAmount :
          payment = [p \in PaymentId |->
              IF p = 1 THEN [bill |-> b1, method |-> "momo", amount |-> amount,
                             transId |-> FALSE, status |-> "FAILED"]
              ELSE NoPayment]
    /\ order = [p \in PaymentId |-> "none"]
    /\ NothingElse

BookedSpec == Booked /\ [][Next]_vars /\ Fairness
AloneSpec == (Init \/ Ordered) /\ [][Next]_vars /\ Fairness
HandoverSpec == (Ordered \/ Refused) /\ [][Next]_vars /\ Fairness
OrderedSpec == Ordered /\ [][Next]_vars /\ Fairness

WorkerSymmetry == Permutations(Worker)
=============================================================================
