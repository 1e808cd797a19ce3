---------------------------- MODULE RentalProofs ----------------------------
(***************************************************************************)
(* What the rental and payment services keep true of money however their   *)
(* requests interleave, fail and are repeated, for every number of bills,  *)
(* vehicles, payments and workers: the types, PaidWasEscrowed,             *)
(* CompletedWasReleased and LockedByBills.                                 *)
(*                                                                         *)
(* None of them is inductive, because a request carries a copy of a bill   *)
(* from its first await to its save.  The invariant therefore speaks of    *)
(* every copy as of the row: a copy that is paid or handed over names a    *)
(* bill that is backed, with money in escrow or a reported payment of      *)
(* nothing, and a copy that is completed and past its release names a bill *)
(* whose total has been released.  Both facts survive whatever happens     *)
(* meanwhile because the LOCK and UNLOCK rows of a bill and its payments   *)
(* are never taken back.                                                   *)
(*                                                                         *)
(* PointsCover, OneOwner and WorkflowInOrder hold of requests that do not  *)
(* overlap; their theorems have that hypothesis.                           *)
(***************************************************************************)
EXTENDS RentalSystem, SumTheorems

\* The bills whose money has reached the escrow or that paid nothing.
Backed == {b \in Bill : lockedFor[b] > 0 \/ PaidNothing(b)}

\* A row of bill b, in the table or in memory, that is paid or handed over
\* is that of a backed bill (backed is Backed, now or after a step).
Escrowed(row, b, backed) ==
    row.status = "paid" \/ row.progress \in HandedOver => b \in backed

\* A row of bill b that is completed: its total has been released.
Settled(row, b, releasedAs) ==
    row.status = "completed" => releasedAs[b] >= row.total

\* Requests that know a payment of their bill, one that was reported or
\* confirmed, have seen a natural number, hold a copy that is still PENDING,
\* are past their release, or have escrowed their payment.
AboutPayment == {"askGateway", "markFailed", "markRefused", "markSuccess", "loadRental",
                 "deposit", "lock", "askRefund", "markRefunded"}
Reported == {"loadRental", "deposit", "lock"}
HasSeen == {"saveVoucher"}
Editing == {"insertDetail", "deleteDetail", "refresh"}
PastRelease == {"settleChain", "reward", "saveVehicles", "save", "commit"}
Undoing == {"findRefundable", "askRefund", "markRefunded", "refundPoints"}
PastLock(op, pc) ==
    \/ pc \in {"readPoints", "deductPoints", "book"}
    \/ Pays(op) /\ pc \in {"readVoucher", "saveVoucher"}

\* What request c may rely on when it stands at pc.
Stands(c, pc, backed, releasedAs, payments) ==
    /\ pc \notin {"idle", "saveVehicle"} => c.bill \in Bill
    /\ pc \in AboutPayment => /\ c.payment \in PaymentId
                              /\ payments[c.payment].status # "none"
                              /\ payments[c.payment].bill = c.bill
                              /\ pc \in Reported => payments[c.payment].transId
    /\ pc \in HasSeen => c.seen \in Nat
    /\ pc \in Editing => c.row.status = "pending"
    /\ pc \in PastRelease => Settled(c.row, c.bill, releasedAs)
    /\ pc \in Undoing => ~Pays(c.op)
    /\ PastLock(c.op, pc) => c.bill \in backed

CallInv(c, backed, releasedAs, payments) ==
    /\ c \in Call
    /\ c.bill \in Bill => Escrowed(c.row, c.bill, backed)
    /\ Stands(c, c.pc, backed, releasedAs, payments)

CallsInv ==
    /\ call \in [Worker -> Call]
    /\ \A w \in Worker : CallInv(call[w], Backed, releasedFor, payment)

\* The tables, each with what its rows rely on.
RentalsInv ==
    /\ bill \in [Bill -> Row] /\ \A b \in Bill : bill[b].voucher # "unset"
    /\ details \in [Bill -> SUBSET Vehicle]
    /\ aged \subseteq Bill
    /\ \A b \in Bill : Escrowed(bill[b], b, Backed) /\ Settled(bill[b], b, releasedFor)

PaymentsInv ==
    /\ payment \in [PaymentId -> PaymentRow]
    /\ order \in [PaymentId -> {"none", "open", "paid", "refunded"}]
    /\ \A p \in PaymentId :
          IF payment[p].status = "none" THEN ~payment[p].transId ELSE payment[p].bill \in Bill

UsersInv == usedCount \in Nat /\ points \in [User -> Int]

MoneyInv ==
    /\ balance \in [User -> Column] /\ locked \in [User -> Column]
    /\ lockedFor \in [Bill -> Nat] /\ releasedFor \in [Bill -> Nat]

RestInv ==
    /\ vehicle \in [Vehicle -> VehicleRow]
    /\ chain \in [Bill -> {"None", "Deposited", "Released", "Refunded"}]
    /\ era \in Era

CronInv ==
    /\ cron \in Cron
    /\ \A b \in Bill : cron.row[b].voucher # "unset" /\ Escrowed(cron.row[b], b, Backed)

TablesInv == RentalsInv /\ PaymentsInv /\ MoneyInv /\ RestInv /\ CronInv

IInv == TablesInv /\ UsersInv /\ CallsInv /\ calls \in 0..MaxCalls

-----------------------------------------------------------------------------

\* Rows and calls, field by field.
LEMMA NoRowTyped == NoRow \in Row /\ NewRow \in Row /\ NoRow.voucher # "unset"
    <1>1. NoRow \in Row /\ NoRow.voucher # "unset"
        BY DEF NoRow, Row, Status, Progress
    <1>2. NewRow = [NoRow EXCEPT !.status = "pending"]
        BY DEF NewRow
    <1>. QED
        BY <1>1, <1>2 DEF Row, Status

\* The registration of a plate and its approval.
LEMMA RegisteredTyped ==
    /\ \A c \in Contract : Registered(c) \in VehicleRow
    /\ \A row \in VehicleRow : Approved(row) \in VehicleRow
    BY DEF Registered, Approved, VehicleRow

\* The fleet of the initial states.
LEMMA FirstFleetTyped == FirstFleet \in [Vehicle -> VehicleRow]
    BY RegisteredTyped, RentalAssumption DEF FirstFleet

\* The record of an idle worker.
LEMMA NoCallTyped == NoCall \in Call
    <1>1. FirstFleet \in [Vehicle -> VehicleRow]
        BY FirstFleetTyped
    <1>2. 0 \in 0..MaxPayments
        BY RentalAssumption
    <1>3. "none" \in OpName /\ "idle" \in Pc
        BY DEF Pc, OpName
    <1>. QED
        BY <1>1, <1>2, <1>3, NoRowTyped DEF NoCall, Call

\* Neither a missing row nor a new one counts as paid.
LEMMA NothingPaid == \A b, backed : Escrowed(NoRow, b, backed) /\ Escrowed(NewRow, b, backed)
    BY DEF Escrowed, NoRow, NewRow, HandedOver

\* A request that has ended relies on nothing.
LEMMA NoCallInv ==
    ASSUME NEW backed, NEW releasedAs, NEW payments
    PROVE  CallInv(NoCall, backed, releasedAs, payments)
    <1>1. NoCall.row = NoRow /\ NoCall.pc = "idle" /\ NoCall.op = "none"
        BY DEF NoCall
    <1>2. Stands(NoCall, "idle", backed, releasedAs, payments)
        BY <1>1 DEF Stands, AboutPayment, Reported, HasSeen, Editing, PastRelease, Undoing, PastLock, Pays
    <1>. QED
        BY <1>1, <1>2, NoCallTyped, NothingPaid DEF CallInv

\* A payment stays that of its bill, with its amount, and reported once it is.
PaymentsGrow ==
    \A p \in PaymentId : payment[p].status # "none" =>
        /\ payment'[p].status # "none"
        /\ payment'[p].bill = payment[p].bill /\ payment'[p].amount = payment[p].amount
        /\ payment[p].transId => payment'[p].transId

\* Neither escrow rows nor payments are ever taken back.
Grows ==
    /\ Backed \subseteq Backed'
    /\ \A b \in Bill : releasedFor'[b] >= releasedFor[b]
    /\ PaymentsGrow

\* What backs a bill.
LEMMA BackedGrows ==
    ASSUME MoneyInv, MoneyInv', PaymentsInv, PaymentsGrow,
           \A b \in Bill : lockedFor'[b] >= lockedFor[b] /\ releasedFor'[b] >= releasedFor[b]
    PROVE  Grows
    <1> SUFFICES ASSUME NEW b \in Bill, lockedFor[b] > 0 \/ PaidNothing(b)
                 PROVE  lockedFor'[b] > 0 \/ PaidNothing(b)'
        BY DEF Grows, Backed
    <1>1. CASE lockedFor[b] > 0
        BY <1>1 DEF MoneyInv
    <1>2. CASE PaidNothing(b)
        BY <1>2 DEF PaidNothing, PaymentsGrow, PaymentsInv
    <1>. QED
        BY <1>1, <1>2

\* The same money and payments back the same bills.
LEMMA BackedSame ==
    ASSUME UNCHANGED <<lockedFor, payment>>
    PROVE  Backed' = Backed
    BY DEF Backed, PaidNothing

\* The fields of a request.
LEMMA CallType ==
    ASSUME NEW c \in Call
    PROVE  /\ c.op \in OpName /\ c.pc \in Pc /\ c.bill \in Bill \cup {Nobody}
           /\ c.row \in Row /\ c.details \subseteq Vehicle /\ c.fleet \in [Vehicle -> VehicleRow]
           /\ c.payment \in 0..MaxPayments /\ c.seen \in Int /\ c.todo \subseteq Vehicle
    BY DEF Call

\* The fields of a bill.
LEMMA RowType ==
    ASSUME NEW row \in Row
    PROVE  /\ row.status \in Status /\ row.progress \in Progress
           /\ row.total \in Nat /\ row.points \in Nat
           /\ row.voucher \in {"none", "set", "unset"}
           /\ row.eth \in BOOLEAN /\ row.overtime \in BOOLEAN
    BY DEF Row

\* What a request relies on stays true while others work.
LEMMA StaysTrue ==
    ASSUME MoneyInv, MoneyInv', Grows, NEW c, CallInv(c, Backed, releasedFor, payment)
    PROVE  CallInv(c, Backed', releasedFor', payment')
    <1>1. c \in Call /\ c.row \in Row /\ c.row.total \in Nat
        BY CallType, RowType DEF CallInv
    <1>2. ASSUME c.bill \in Bill
          PROVE  /\ releasedFor[c.bill] \in Nat /\ releasedFor'[c.bill] \in Nat
                 /\ releasedFor'[c.bill] >= releasedFor[c.bill]
        BY <1>2 DEF MoneyInv, Grows
    <1>3. c.bill \in Bill => Escrowed(c.row, c.bill, Backed')
        BY DEF CallInv, Escrowed, Grows
    <1>4. Stands(c, c.pc, Backed', releasedFor', payment')
        <2>1. c.pc \in PastRelease => Settled(c.row, c.bill, releasedFor')
            BY <1>1, <1>2 DEF CallInv, Stands, Settled, PastRelease
        <2>2. PastLock(c.op, c.pc) => c.bill \in Backed'
            BY DEF CallInv, Stands, Grows
        <2>3. c.pc \in AboutPayment => /\ c.payment \in PaymentId
                                       /\ payment'[c.payment].status # "none"
                                       /\ payment'[c.payment].bill = c.bill
                                       /\ c.pc \in Reported => payment'[c.payment].transId
            BY DEF CallInv, Stands, Grows, PaymentsGrow
        <2>. QED
            BY <2>1, <2>2, <2>3 DEF CallInv, Stands
    <1>. QED
        BY <1>1, <1>3, <1>4 DEF CallInv

\* A step of one request, which becomes c, and of no other.
LEMMA OneCall ==
    ASSUME MoneyInv, MoneyInv', Grows, CallsInv, NEW w \in Worker, NEW c,
           call' = [call EXCEPT ![w] = c],
           CallInv(c, Backed', releasedFor', payment')
    PROVE  CallsInv'
    <1>1. c \in Call
        BY DEF CallInv
    <1>2. call' \in [Worker -> Call]
        BY <1>1 DEF CallsInv
    <1>3. \A x \in Worker : CallInv(call'[x], Backed', releasedFor', payment')
        <2> TAKE x \in Worker
        <2>1. CASE x = w
            <3>1. call'[x] = c
                BY <2>1 DEF CallsInv
            <3>. QED
                BY <3>1
        <2>2. CASE x # w
            <3>1. call'[x] = call[x] /\ CallInv(call[x], Backed, releasedFor, payment)
                BY <2>2 DEF CallsInv
            <3>. QED
                BY <3>1, StaysTrue
        <2>. QED
            BY <2>1, <2>2
    <1>. QED
        BY <1>2, <1>3 DEF CallsInv

\* A request goes on to the await pc with all it has.
LEMMA GoesOn ==
    ASSUME MoneyInv, MoneyInv', Grows, CallsInv, NEW w \in Worker, NEW pc \in Pc,
           Goto(w, pc), Stands(call[w], pc, Backed', releasedFor', payment')
    PROVE  CallsInv'
    <1> DEFINE c == [call[w] EXCEPT !.pc = pc]
    <1>1. call[w] \in Call /\ CallInv(call[w], Backed, releasedFor, payment)
        BY DEF CallsInv
    <1>2. /\ c \in Call /\ c.pc = pc /\ c.op = call[w].op /\ c.bill = call[w].bill
          /\ c.row = call[w].row /\ c.seen = call[w].seen /\ c.payment = call[w].payment
        BY <1>1 DEF Call
    <1>3. call' = [call EXCEPT ![w] = c]
        BY DEF Goto, CallsInv
    <1>4. CallInv(call[w], Backed', releasedFor', payment')
        BY <1>1, StaysTrue
    <1> HIDE DEF c
    <1>5. CallInv(c, Backed', releasedFor', payment')
        BY <1>2, <1>4 DEF CallInv, Stands
    <1>. QED
        BY <1>3, <1>5, OneCall

\* A request answers.
LEMMA Answers ==
    ASSUME MoneyInv, MoneyInv', Grows, CallsInv, NEW w \in Worker, Return(w)
    PROVE  CallsInv'
    BY NoCallInv, OneCall DEF Return
-----------------------------------------------------------------------------
\* What a step leaves alone.

\* The rows of bills, while escrow only grows.
LEMMA SameRentals ==
    ASSUME RentalsInv, MoneyInv, MoneyInv', Grows, UNCHANGED rentalVars
    PROVE  RentalsInv'
    <1>1. bill' = bill /\ details' = details /\ aged' = aged
        BY DEF rentalVars
    <1>2. ASSUME NEW b \in Bill
          PROVE  Escrowed(bill'[b], b, Backed') /\ Settled(bill'[b], b, releasedFor')
        <2>1. /\ Backed \subseteq Backed'
              /\ releasedFor[b] \in Nat /\ releasedFor'[b] \in Nat
              /\ releasedFor'[b] >= releasedFor[b]
            BY DEF MoneyInv, Grows
        <2>2. bill[b].total \in Nat
            BY RowType DEF RentalsInv
        <2>. QED
            BY <1>1, <2>1, <2>2 DEF RentalsInv, Escrowed, Settled
    <1>. QED
        BY <1>1, <1>2 DEF RentalsInv

\* The rows that the cron job has loaded.
LEMMA SameCron ==
    ASSUME CronInv, MoneyInv, MoneyInv', Grows, UNCHANGED cron
    PROVE  CronInv'
    BY DEF CronInv, Escrowed, Grows

\* The wallets.
LEMMA SameMoney ==
    ASSUME MoneyInv, PaymentsInv, UNCHANGED moneyVars, PaymentsGrow
    PROVE  MoneyInv' /\ Grows
    <1>1. MoneyInv'
        BY DEF MoneyInv, moneyVars
    <1>. QED
        BY <1>1, BackedGrows DEF MoneyInv, moneyVars

\* The payments.
LEMMA SamePayments ==
    ASSUME PaymentsInv, UNCHANGED gatewayVars
    PROVE  PaymentsInv' /\ PaymentsGrow
    BY DEF PaymentsInv, PaymentsGrow, gatewayVars

\* A step that leaves the bills, the fleet, the chain and the cron job alone.
LEMMA OthersStay ==
    ASSUME TablesInv, PaymentsInv', MoneyInv', Grows,
           UNCHANGED <<rentalVars, vehicle, chain, era, cron>>
    PROVE  TablesInv'
    <1>1. RentalsInv' /\ CronInv'
        BY SameRentals, SameCron DEF TablesInv
    <1>2. RestInv'
        BY DEF TablesInv, RestInv
    <1>. QED
        BY <1>1, <1>2 DEF TablesInv

\* A step that leaves all tables but users alone.
LEMMA TablesStay ==
    ASSUME TablesInv, UNCHANGED <<rentalVars, gatewayVars, moneyVars, vehicle, chain, era, cron>>
    PROVE  TablesInv' /\ Grows
    BY SamePayments, SameMoney, OthersStay DEF TablesInv

\* A step that leaves the tables alone.
LEMMA OnlyCalls ==
    ASSUME IInv, UNCHANGED <<rentalVars, gatewayVars, usedCount, points, moneyVars,
                             vehicle, chain, era, cron>>
    PROVE  TablesInv' /\ UsersInv' /\ Grows /\ MoneyInv /\ MoneyInv' /\ CallsInv
    BY TablesStay DEF IInv, UsersInv, TablesInv

\* What is known of a request in service.
LEMMA CallFacts ==
    ASSUME IInv, NEW w \in Worker
    PROVE  /\ call[w] \in Call /\ call[w].row \in Row
           /\ CallInv(call[w], Backed, releasedFor, payment)
           /\ Stands(call[w], call[w].pc, Backed, releasedFor, payment)
    BY CallType DEF IInv, CallsInv, CallInv

\* What is known of the payment a request is about.
LEMMA PaymentFacts ==
    ASSUME IInv, NEW w \in Worker, call[w].pc \in AboutPayment
    PROVE  LET p == call[w].payment IN
           /\ call[w].bill \in Bill /\ p \in PaymentId /\ payment[p] \in PaymentRow
           /\ payment[p].status # "none" /\ payment[p].bill = call[w].bill
           /\ call[w].pc \in Reported => payment[p].transId
    <1>1. call[w].pc \notin {"idle", "saveVehicle"}
        BY DEF AboutPayment
    <1>. QED
        BY <1>1, CallFacts DEF Stands, IInv, TablesInv, PaymentsInv

\* A request that goes on about the same payment.
LEMMA StillAboutPayment ==
    ASSUME IInv, NEW w \in Worker, call[w].pc \in AboutPayment, Grows, NEW pc \in AboutPayment,
           pc \in Reported => payment'[call[w].payment].transId,
           pc \in Undoing => ~Pays(call[w].op)
    PROVE  Stands(call[w], pc, Backed', releasedFor', payment') /\ pc \in Pc
    <1>1. LET p == call[w].payment IN
          /\ call[w].bill \in Bill /\ p \in PaymentId
          /\ payment'[p].status # "none" /\ payment'[p].bill = call[w].bill
        BY PaymentFacts DEF Grows, PaymentsGrow
    <1>. QED
        BY <1>1
        DEF Stands, AboutPayment, Reported, HasSeen, Editing, PastRelease, Undoing, PastLock, Pc

-----------------------------------------------------------------------------
\* The steps of payment.service.ts.

\* Where a request that stands at one of these goes next.
LEMMA NextPc ==
    ASSUME NEW op, NEW row
    PROVE  /\ AfterVoucher(op) \in {"book", "release"}
           /\ AfterPoints(op, row) \in {"readVoucher", "book", "release"}
           /\ AfterMoney(op, row) \in {"readPoints", "refundPoints", "readVoucher", "book", "release"}
           /\ AfterVoucher(op) = "book" <=> Pays(op)
           /\ ~Pays(op) => AfterPoints(op, row) # "book"
           /\ Pays(op) => AfterMoney(op, row) # "refundPoints"
           /\ ~Pays(op) => AfterMoney(op, row) \notin {"readPoints", "book"}
    BY DEF AfterVoucher, AfterPoints, AfterMoney

\* The bill of a payment is backed when its request is past the escrow.
LEMMA AfterMoneyStands ==
    ASSUME NEW c, c.bill \in Bill, NEW backed, NEW releasedAs, NEW payments,
           Pays(c.op) => c.bill \in backed
    PROVE  LET next == AfterMoney(c.op, c.row) IN
           Stands(c, next, backed, releasedAs, payments) /\ next \in Pc
    <1> DEFINE next == AfterMoney(c.op, c.row)
    <1>1. /\ next \in {"readPoints", "refundPoints", "readVoucher", "book", "release"}
          /\ Pays(c.op) => next # "refundPoints"
          /\ ~Pays(c.op) => next \notin {"readPoints", "book"}
        BY NextPc
    <1> HIDE DEF next
    <1>2. Stands(c, next, backed, releasedAs, payments) /\ next \in Pc
        BY <1>1
        DEF Stands, AboutPayment, Reported, HasSeen, Editing, PastRelease, Undoing, PastLock, Pc
    <1>. QED
        BY <1>2 DEF next

\* A payment row is written, for a bill.
LEMMA WritesPayment ==
    ASSUME IInv, NEW p \in PaymentId, NEW row \in PaymentRow,
           row.bill \in Bill, row.status # "none",
           payment[p].status # "none" => /\ row.bill = payment[p].bill
                                         /\ row.amount = payment[p].amount
                                         /\ payment[p].transId => row.transId,
           payment' = [payment EXCEPT ![p] = row],
           UNCHANGED <<rentalVars, order, usedCount, points, moneyVars, elsewhere>>
    PROVE  /\ TablesInv' /\ UsersInv' /\ Grows /\ MoneyInv /\ MoneyInv' /\ CallsInv
           /\ \A q \in PaymentId : payment'[q] = IF q = p THEN row ELSE payment[q]
    <1>1. /\ payment' \in [PaymentId -> PaymentRow]
          /\ \A q \in PaymentId : payment'[q] = IF q = p THEN row ELSE payment[q]
        BY DEF IInv, TablesInv, PaymentsInv
    <1>2. PaymentsInv'
        BY <1>1 DEF IInv, TablesInv, PaymentsInv
    <1>3. MoneyInv /\ MoneyInv' /\ Grows
        BY <1>1, SameMoney DEF IInv, TablesInv, PaymentsGrow
    <1>4. TablesInv'
        BY <1>2, <1>3, OthersStay DEF IInv, elsewhere
    <1>. QED
        BY <1>1, <1>3, <1>4 DEF IInv, UsersInv

\* The insertion of a payment, which names the bill of its request.
LEMMA CreatePaymentInv ==
    ASSUME IInv, NEW w \in Worker, CreatePayment(w)
    PROVE  IInv'
    <1> DEFINE c == call[w]
               row == [bill |-> c.bill, method |-> c.row.method, amount |-> c.seen,
                       transId |-> FALSE, status |-> "PENDING"]
    <1>1. PICK p \in PaymentId :
             /\ UsedIds = 1 .. p - 1
             /\ payment' = [payment EXCEPT ![p] = row]
             /\ IF c.row.method = "momo"
                THEN call' = [call EXCEPT ![w].pc = "askGateway", ![w].payment = p]
                ELSE Return(w)
        BY DEF CreatePayment
    <1>2. payment[p].status = "none"
        <2>1. p \notin UsedIds
            BY <1>1 DEF PaymentId
        <2>. QED
            BY <2>1 DEF UsedIds
    <1>3. c \in Call /\ c.bill \in Bill /\ c.seen \in Int /\ c.pc = "createPayment"
        BY CallFacts, CallType DEF Stands, CreatePayment, At
    <1>4. row \in PaymentRow /\ row.bill \in Bill /\ row.status = "PENDING"
        BY <1>3 DEF Call, Row, PaymentRow
    <1> HIDE DEF row
    <1>5. /\ TablesInv' /\ UsersInv' /\ Grows /\ MoneyInv /\ MoneyInv' /\ CallsInv
          /\ payment'[p] = row
        <2>1. UNCHANGED <<rentalVars, order, usedCount, points, moneyVars, elsewhere>>
            BY DEF CreatePayment
        <2>2. row.status # "none"
            BY <1>4
        <2>. QED
            BY <1>1, <1>2, <1>4, <2>1, <2>2, WritesPayment
    <1>6. CASE c.row.method = "momo"
        <2> DEFINE d == [c EXCEPT !.pc = "askGateway", !.payment = p]
        <2>1. call' = [call EXCEPT ![w] = d]
            BY <1>1, <1>5, <1>6 DEF CallsInv
        <2>2. /\ d \in Call /\ d.pc = "askGateway" /\ d.payment = p /\ d.op = c.op
              /\ d.bill = c.bill /\ d.row = c.row
            <3>1. "askGateway" \in Pc /\ p \in 0..MaxPayments
                BY RentalAssumption DEF Pc, PaymentId
            <3>. QED
                BY <1>3, <3>1 DEF Call
        <2>3. CallInv(c, Backed', releasedFor', payment')
            BY <1>5, StaysTrue, CallFacts
        <2>4. row.bill = c.bill
            BY DEF row
        <2> HIDE DEF d, c
        <2>5. CallInv(d, Backed', releasedFor', payment')
            BY <1>3, <1>4, <1>5, <2>2, <2>3, <2>4
            DEF CallInv, Stands, AboutPayment, Reported, HasSeen, Editing, PastRelease,
                Undoing, PastLock
        <2>. QED
            BY <1>5, <2>1, <2>5, OneCall DEF IInv, CreatePayment
    <1>7. CASE c.row.method # "momo"
        BY <1>1, <1>5, <1>7, Answers DEF IInv, CreatePayment
    <1>. QED
        BY <1>6, <1>7

\* The order of a payment changes its status.
LEMMA WritesOrder ==
    ASSUME IInv, NEW p \in PaymentId, NEW s \in {"open", "paid", "refunded"},
           order' = [order EXCEPT ![p] = s],
           UNCHANGED <<rentalVars, payment, usedCount, points, moneyVars, elsewhere>>
    PROVE  TablesInv' /\ UsersInv' /\ Grows /\ MoneyInv /\ MoneyInv' /\ CallsInv
    <1>1. PaymentsInv'
        BY DEF IInv, TablesInv, PaymentsInv
    <1>2. MoneyInv /\ MoneyInv' /\ Grows
        BY SameMoney DEF IInv, TablesInv, PaymentsGrow
    <1>3. TablesInv'
        BY <1>1, <1>2, OthersStay DEF IInv, elsewhere
    <1>. QED
        BY <1>2, <1>3 DEF IInv, UsersInv

\* The gateway opens an order or refuses it.
LEMMA AskGatewayInv ==
    ASSUME IInv, NEW w \in Worker, AskGateway(w)
    PROVE  IInv'
    <1>1. call[w].payment \in PaymentId /\ call[w].pc \in AboutPayment
        BY PaymentFacts DEF AboutPayment, AskGateway, At
    <1>2. CASE order' = [order EXCEPT ![call[w].payment] = "open"] /\ Return(w)
        <2>1. TablesInv' /\ UsersInv' /\ Grows /\ MoneyInv /\ MoneyInv' /\ CallsInv
            BY <1>1, <1>2, WritesOrder DEF AskGateway
        <2>. QED
            BY <1>2, <2>1, Answers DEF IInv, AskGateway
    <1>3. CASE Goto(w, "markFailed") /\ UNCHANGED order
        <2>1. TablesInv' /\ UsersInv' /\ Grows /\ MoneyInv /\ MoneyInv' /\ CallsInv
            BY <1>3, OnlyCalls DEF AskGateway, gatewayVars, elsewhere
        <2>2. Stands(call[w], "markFailed", Backed', releasedFor', payment') /\ "markFailed" \in Pc
            BY <1>1, <2>1, StillAboutPayment DEF AboutPayment, Reported, Undoing
        <2>3. CallsInv'
            BY <1>3, <2>1, <2>2, GoesOn
        <2>. QED
            BY <2>1, <2>3 DEF IInv, AskGateway
    <1>. QED
        BY <1>2, <1>3 DEF AskGateway

\* The payment of a request is marked with another status.
LEMMA MarksPayment ==
    ASSUME IInv, NEW w \in Worker, call[w].pc \in AboutPayment,
           NEW s \in {"SUCCESS", "FAILED", "REFUNDED"},
           LET p == call[w].payment IN
           \/ payment' = [payment EXCEPT ![p].status = s]
           \/ payment' = [payment EXCEPT ![p].status = s, ![p].transId = TRUE],
           UNCHANGED <<rentalVars, order, usedCount, points, moneyVars, elsewhere>>
    PROVE  TablesInv' /\ UsersInv' /\ Grows /\ MoneyInv /\ MoneyInv' /\ CallsInv
    <1> DEFINE p == call[w].payment
    <1>1. /\ p \in PaymentId /\ payment[p] \in PaymentRow /\ payment[p].bill \in Bill
          /\ payment \in [PaymentId -> PaymentRow]
        BY PaymentFacts DEF IInv, TablesInv, PaymentsInv
    <1>2. PICK row \in {[payment[p] EXCEPT !.status = s],
                        [payment[p] EXCEPT !.status = s, !.transId = TRUE]} :
             payment' = [payment EXCEPT ![p] = row]
        BY <1>1
    <1>3. /\ row \in PaymentRow /\ row.bill = payment[p].bill /\ row.amount = payment[p].amount
          /\ row.status # "none" /\ (payment[p].transId => row.transId)
        BY <1>1, <1>2 DEF PaymentRow
    <1> HIDE DEF p
    <1>. QED
        BY <1>1, <1>2, <1>3, WritesPayment

\* A refused order: the payment is FAILED.
LEMMA MarkFailedInv ==
    ASSUME IInv, NEW w \in Worker, MarkFailed(w) \/ MarkRefused(w)
    PROVE  IInv'
    <1>1. call[w].pc \in AboutPayment
        BY DEF AboutPayment, MarkFailed, MarkRefused, At
    <1>2. TablesInv' /\ UsersInv' /\ Grows /\ MoneyInv /\ MoneyInv' /\ CallsInv
        BY <1>1, MarksPayment DEF MarkFailed, MarkRefused
    <1>. QED
        BY <1>2, Answers DEF IInv, MarkFailed, MarkRefused

\* The notification marks its payment before anything else.
LEMMA MarkSuccessInv ==
    ASSUME IInv, NEW w \in Worker, MarkSuccess(w)
    PROVE  IInv'
    <1>1. call[w].pc \in AboutPayment
        BY DEF AboutPayment, MarkSuccess, At
    <1>2. TablesInv' /\ UsersInv' /\ Grows /\ MoneyInv /\ MoneyInv' /\ CallsInv
        BY <1>1, MarksPayment DEF MarkSuccess
    <1>3. payment'[call[w].payment].transId
        BY <1>1, PaymentFacts DEF MarkSuccess, IInv, TablesInv, PaymentsInv, PaymentRow
    <1>4. Stands(call[w], "loadRental", Backed', releasedFor', payment') /\ "loadRental" \in Pc
        BY <1>1, <1>2, <1>3, StillAboutPayment DEF AboutPayment, Undoing
    <1>5. CallsInv'
        BY <1>2, <1>4, GoesOn DEF MarkSuccess
    <1>. QED
        BY <1>2, <1>5 DEF IInv, MarkSuccess

\* The copy of the bill that the notification will save is loaded here.
LEMMA LoadRentalInv ==
    ASSUME IInv, NEW w \in Worker, LoadRental(w)
    PROVE  IInv'
    <1> DEFINE c == call[w]
               d == [c EXCEPT !.row = bill[c.bill], !.pc = "deposit"]
    <1>1. /\ c \in Call /\ c.bill \in Bill /\ c.payment \in PaymentId
          /\ payment[c.payment].status # "none" /\ payment[c.payment].bill = c.bill
          /\ payment[c.payment].transId
        BY CallFacts, PaymentFacts DEF AboutPayment, Reported, LoadRental, At
    <1>2. TablesInv' /\ UsersInv' /\ Grows /\ MoneyInv /\ MoneyInv' /\ CallsInv
        BY OnlyCalls DEF LoadRental, elsewhere
    <1>3. call' = [call EXCEPT ![w] = d]
        BY <1>2 DEF LoadRental, CallsInv
    <1>4. /\ bill[c.bill] \in Row /\ Escrowed(bill[c.bill], c.bill, Backed')
          /\ payment' = payment
        BY <1>1, <1>2 DEF TablesInv, RentalsInv, IInv, LoadRental, rentalVars, gatewayVars
    <1>5. /\ d \in Call /\ d.pc = "deposit" /\ d.payment = c.payment /\ d.op = c.op
          /\ d.bill = c.bill /\ d.row = bill[c.bill]
        <2>1. "deposit" \in Pc
            BY DEF Pc
        <2>. QED
            BY <1>1, <1>4, <2>1 DEF Call
    <1> HIDE DEF c, d
    <1>6. CallInv(d, Backed', releasedFor', payment')
        BY <1>1, <1>4, <1>5
        DEF CallInv, Stands, AboutPayment, Reported, HasSeen, Editing, PastRelease, Undoing, PastLock
    <1>. QED
        BY <1>2, <1>3, <1>6, OneCall DEF IInv, LoadRental

\* Money moves in the wallets and the tables next to them stay.
LEMMA MoneyMoves ==
    ASSUME IInv, MoneyInv', Grows,
           UNCHANGED <<rentalVars, gatewayVars, usedCount, points, elsewhere>>
    PROVE  TablesInv' /\ UsersInv' /\ MoneyInv /\ CallsInv
    <1>1. PaymentsInv'
        BY SamePayments DEF IInv, TablesInv
    <1>. QED
        BY <1>1, OthersStay DEF IInv, TablesInv, UsersInv, elsewhere

\* The credit of the wallet.  An amount that is not positive is none, and the
\* bill is backed by having paid nothing.
LEMMA DepositPaymentInv ==
    ASSUME IInv, NEW w \in Worker, DepositPayment(w)
    PROVE  IInv'
    <1> DEFINE c == call[w]
               amount == payment[call[w].payment].amount
               next == AfterMoney(c.op, c.row)
    <1>1. /\ c.pc \in AboutPayment /\ c.bill \in Bill /\ c.payment \in PaymentId /\ amount \in Int
          /\ payment[c.payment].bill = c.bill /\ payment[c.payment].transId
        BY PaymentFacts DEF AboutPayment, Reported, DepositPayment, At, PaymentRow
    <1>2. Renter(w) \in User
        BY <1>1, RentalAssumption DEF Renter
    <1>3. MoneyInv' /\ Grows
        <2>1. balance' \in [User -> Column]
            BY <1>1, <1>2
            DEF DepositPayment, AdjustAllowed, Moved, IInv, TablesInv, MoneyInv
        <2>2. UNCHANGED <<locked, lockedFor, releasedFor, payment>>
            BY DEF DepositPayment, gatewayVars
        <2>3. MoneyInv'
            BY <2>1, <2>2 DEF IInv, TablesInv, MoneyInv
        <2>. QED
            BY <2>2, <2>3, BackedGrows DEF IInv, TablesInv, MoneyInv, PaymentsGrow
    <1>4. TablesInv' /\ UsersInv' /\ MoneyInv /\ CallsInv
        BY <1>3, MoneyMoves DEF DepositPayment
    <1>5. CASE Goto(w, "lock") /\ UNCHANGED payment
        <2>1. Stands(call[w], "lock", Backed', releasedFor', payment') /\ "lock" \in Pc
            BY <1>1, <1>3, <1>5, StillAboutPayment DEF AboutPayment, Undoing
        <2>2. CallsInv'
            BY <1>3, <1>4, <1>5, <2>1, GoesOn
        <2>. QED
            BY <1>4, <2>2 DEF IInv, DepositPayment
    <1>6. CASE Return(w)
        BY <1>3, <1>4, <1>6, Answers DEF IInv, DepositPayment
    <1>7. CASE amount <= 0 /\ Goto(w, next)
        <2>1. c.bill \in Backed'
            <3>1. c.bill \in Backed
                BY <1>1, <1>7 DEF Backed, PaidNothing
            <3>. QED
                BY <1>3, <3>1 DEF Grows
        <2> HIDE DEF c, next, amount
        <2>2. Stands(c, next, Backed', releasedFor', payment') /\ next \in Pc
            BY <1>1, <2>1, AfterMoneyStands DEF next, c
        <2>3. CallsInv'
            BY <1>3, <1>4, <1>7, <2>2, GoesOn DEF c
        <2>. QED
            BY <1>4, <2>3 DEF IInv, DepositPayment
    <1>. QED
        BY <1>5, <1>6, <1>7 DEF DepositPayment, gatewayVars

\* lockFunds and releaseFunds keep the columns legal and add to the rows.
LEMMA LockFundsInv ==
    ASSUME MoneyInv, PaymentsInv, NEW b \in Bill, NEW amount \in Int, LockFunds(b, amount),
           UNCHANGED payment
    PROVE  /\ MoneyInv' /\ Grows /\ b \in Backed'
           /\ lockedFor' = [lockedFor EXCEPT ![b] = @ + amount]
    <1>1. RenterOf[b] \in User /\ MaxCents \in Nat
        BY RentalAssumption, WalletAssumption
    <1>2. balance' \in [User -> Column] /\ locked' \in [User -> Column]
        BY <1>1 DEF MoneyInv, LockFunds, LockAllowed, Moved, Column
    <1>3. /\ lockedFor' = [lockedFor EXCEPT ![b] = @ + amount]
          /\ amount > 0 /\ releasedFor' = releasedFor
        BY DEF LockFunds, LockAllowed, Moved
    <1>4. lockedFor' \in [Bill -> Nat] /\ lockedFor'[b] > 0
        BY <1>3 DEF MoneyInv
    <1>5. MoneyInv'
        BY <1>2, <1>3, <1>4 DEF MoneyInv
    <1>6. Grows
        BY <1>3, <1>5, BackedGrows DEF MoneyInv, PaymentsGrow
    <1>. QED
        BY <1>3, <1>4, <1>5, <1>6 DEF Backed

\* A release moves money and leaves what was ever locked alone.
LEMMA ReleaseFundsInv ==
    ASSUME MoneyInv, PaymentsInv, NEW b \in Bill, NEW amount \in Nat, NEW payee,
           ReleaseFunds(b, amount, payee), UNCHANGED payment
    PROVE  /\ MoneyInv' /\ Grows /\ releasedFor'[b] >= amount
           /\ releasedFor' = [releasedFor EXCEPT ![b] = @ + amount]
    <1>1. RenterOf[b] \in User /\ MaxCents \in Nat /\ Target(RenterOf[b], payee) \in User
        BY RentalAssumption, WalletAssumption DEF Target
    <1>2. balance' \in [User -> Column] /\ locked' \in [User -> Column]
        BY <1>1 DEF MoneyInv, ReleaseFunds, ReleaseAllowed, Moved, Column
    <1>3. /\ releasedFor' = [releasedFor EXCEPT ![b] = @ + amount]
          /\ lockedFor' = lockedFor
        BY DEF ReleaseFunds, Moved
    <1>4. releasedFor' \in [Bill -> Nat] /\ releasedFor'[b] >= amount
        BY <1>3 DEF MoneyInv
    <1>5. MoneyInv'
        BY <1>2, <1>3, <1>4 DEF MoneyInv
    <1>6. Grows
        BY <1>3, <1>5, BackedGrows DEF MoneyInv, PaymentsGrow
    <1>. QED
        BY <1>3, <1>4, <1>5, <1>6

\* The escrow step: afterwards lockedFor is positive for this bill.
LEMMA LockPaymentInv ==
    ASSUME IInv, NEW w \in Worker, LockPayment(w)
    PROVE  IInv'
    <1> DEFINE c == call[w]
               amount == payment[call[w].payment].amount
               next == AfterMoney(c.op, c.row)
    <1>1. c.bill \in Bill /\ amount \in Int
        BY PaymentFacts DEF AboutPayment, LockPayment, At, PaymentRow
    <1>2. CASE LockFunds(c.bill, amount) /\ Goto(w, next)
        <2>1. MoneyInv' /\ Grows /\ c.bill \in Backed'
            BY <1>1, <1>2, LockFundsInv DEF IInv, TablesInv, LockPayment, gatewayVars
        <2>2. TablesInv' /\ UsersInv' /\ MoneyInv /\ CallsInv
            BY <2>1, MoneyMoves DEF LockPayment
        <2> HIDE DEF c
        <2>3. Stands(c, next, Backed', releasedFor', payment') /\ next \in Pc
            BY <1>1, <2>1, AfterMoneyStands
        <2> HIDE DEF next
        <2>4. CallsInv'
            BY <1>2, <2>1, <2>2, <2>3, GoesOn DEF c
        <2>. QED
            BY <2>2, <2>4 DEF IInv, LockPayment
    <1>3. CASE Return(w) /\ UNCHANGED moneyVars
        <2>1. TablesInv' /\ UsersInv' /\ Grows /\ MoneyInv /\ MoneyInv' /\ CallsInv
            BY <1>3, OnlyCalls DEF LockPayment, elsewhere
        <2>. QED
            BY <1>3, <2>1, Answers DEF IInv, LockPayment
    <1>. QED
        BY <1>2, <1>3 DEF LockPayment

\* The renter's points are read.
LEMMA ReadPointsInv ==
    ASSUME IInv, NEW w \in Worker, ReadPoints(w)
    PROVE  IInv'
    <1> DEFINE c == call[w]
               d == [c EXCEPT !.pc = "deductPoints", !.seen = points[Renter(w)]]
    <1>1. c \in Call /\ c.bill \in Bill /\ c.bill \in Backed
        BY CallFacts DEF Stands, PastLock, ReadPoints, At
    <1>2. points[Renter(w)] \in Int
        BY <1>1, RentalAssumption DEF Renter, IInv, UsersInv
    <1>3. TablesInv' /\ UsersInv' /\ Grows /\ MoneyInv /\ MoneyInv' /\ CallsInv
        BY OnlyCalls DEF ReadPoints, elsewhere
    <1>4. call' = [call EXCEPT ![w] = d]
        BY <1>3 DEF ReadPoints, CallsInv
    <1>5. /\ d \in Call /\ d.pc = "deductPoints" /\ d.op = c.op
          /\ d.bill = c.bill /\ d.row = c.row
        <2>1. "deductPoints" \in Pc
            BY DEF Pc
        <2>. QED
            BY <1>1, <1>2, <2>1 DEF Call
    <1>6. CallInv(c, Backed', releasedFor', payment') /\ c.bill \in Backed'
        BY <1>1, <1>3, StaysTrue, CallFacts DEF Grows
    <1> HIDE DEF c, d
    <1>7. CallInv(d, Backed', releasedFor', payment')
        BY <1>1, <1>5, <1>6
        DEF CallInv, Stands, AboutPayment, Reported, HasSeen, Editing, PastRelease, Undoing, PastLock
    <1>. QED
        BY <1>3, <1>4, <1>7, OneCall DEF IInv, ReadPoints

\* The renter's points are written.
LEMMA DeductPointsInv ==
    ASSUME IInv, NEW w \in Worker, DeductPoints(w)
    PROVE  IInv'
    <1> DEFINE c == call[w]
               next == AfterPoints(c.op, c.row)
    <1>1. c \in Call /\ c.row \in Row /\ c.bill \in Bill /\ c.bill \in Backed
        BY CallFacts DEF Stands, PastLock, DeductPoints, At
    <1>2. TablesInv' /\ Grows /\ MoneyInv /\ MoneyInv' /\ CallsInv
        BY TablesStay DEF DeductPoints, elsewhere, IInv, TablesInv
    <1>3. UsersInv'
        <2>1. Renter(w) \in User /\ c.seen \in Int /\ c.row.points \in Int
            BY <1>1, CallType, RowType, RentalAssumption DEF Renter
        <2>. QED
            BY <2>1 DEF DeductPoints, IInv, UsersInv
    <1>4. next \in Pc
        BY NextPc DEF Pc
    <1>5. Stands(c, next, Backed', releasedFor', payment')
        <2>1. Backed \subseteq Backed'
            BY <1>2 DEF Grows
        <2>2. next \in {"readVoucher", "book", "release"}
            BY NextPc
        <2> HIDE DEF next, c
        <2>. QED
            BY <1>1, <2>1, <2>2
            DEF Stands, AboutPayment, Reported, HasSeen, Editing, PastRelease, Undoing, PastLock
    <1>6. CallsInv'
        BY <1>2, <1>4, <1>5, GoesOn DEF DeductPoints
    <1>. QED
        BY <1>2, <1>3, <1>6 DEF IInv, DeductPoints

\* The voucher's count is read.
LEMMA ReadVoucherInv ==
    ASSUME IInv, NEW w \in Worker, ReadVoucher(w)
    PROVE  IInv'
    <1> DEFINE c == call[w]
               d == [c EXCEPT !.seen = usedCount, !.pc = "saveVoucher"]
    <1>1. c \in Call /\ c.bill \in Bill /\ c.pc = "readVoucher"
        BY CallFacts DEF Stands, ReadVoucher, At
    <1>2. usedCount \in Nat /\ usedCount \in Int
        BY DEF IInv, UsersInv
    <1>3. TablesInv' /\ UsersInv' /\ Grows /\ MoneyInv /\ MoneyInv' /\ CallsInv
        BY OnlyCalls DEF ReadVoucher, elsewhere
    <1>4. call' = [call EXCEPT ![w] = d]
        BY <1>3 DEF ReadVoucher, CallsInv
    <1>5. /\ d \in Call /\ d.pc = "saveVoucher" /\ d.op = c.op
          /\ d.bill = c.bill /\ d.row = c.row /\ d.seen \in Nat
        <2>1. "saveVoucher" \in Pc
            BY DEF Pc
        <2>. QED
            BY <1>1, <1>2, <2>1 DEF Call
    <1>6. CallInv(c, Backed', releasedFor', payment')
        BY <1>3, StaysTrue, CallFacts
    <1> HIDE DEF c, d
    <1>7. CallInv(d, Backed', releasedFor', payment')
        BY <1>1, <1>5, <1>6
        DEF CallInv, Stands, AboutPayment, Reported, HasSeen, Editing, PastRelease, Undoing, PastLock
    <1>. QED
        BY <1>3, <1>4, <1>7, OneCall DEF IInv, ReadVoucher

\* The count that was read is written back one higher or lower.
LEMMA SaveVoucherInv ==
    ASSUME IInv, NEW w \in Worker, SaveVoucher(w)
    PROVE  IInv'
    <1> DEFINE c == call[w]
               next == AfterVoucher(c.op)
    <1>1. /\ c.bill \in Bill /\ c.seen \in Nat
          /\ Pays(c.op) => c.bill \in Backed
        BY CallFacts DEF Stands, PastLock, HasSeen, SaveVoucher, At
    <1>2. TablesInv' /\ Grows /\ MoneyInv /\ MoneyInv' /\ CallsInv
        BY TablesStay DEF SaveVoucher, elsewhere, IInv, TablesInv
    <1>3. UsersInv'
        BY <1>1 DEF SaveVoucher, IInv, UsersInv
    <1>4. next \in Pc
        BY NextPc DEF Pc
    <1>5. Stands(c, next, Backed', releasedFor', payment')
        <2>1. Backed \subseteq Backed'
            BY <1>2 DEF Grows
        <2>2. next \in {"book", "release"} /\ (next = "book" => Pays(c.op))
            BY NextPc
        <2> HIDE DEF next, c
        <2>. QED
            BY <1>1, <2>1, <2>2
            DEF Stands, AboutPayment, Reported, HasSeen, Editing, PastRelease, Undoing, PastLock
    <1>6. CallsInv'
        BY <1>2, <1>4, <1>5, GoesOn DEF SaveVoucher
    <1>. QED
        BY <1>2, <1>3, <1>6 DEF IInv, SaveVoucher

\* Bills change and the payments, the money and the cron job stay.
LEMMA BillsMove ==
    ASSUME IInv, RentalsInv', RestInv',
           UNCHANGED <<gatewayVars, usedCount, points, moneyVars, cron>>
    PROVE  TablesInv' /\ UsersInv' /\ Grows /\ MoneyInv /\ MoneyInv' /\ CallsInv
    <1>1. PaymentsInv' /\ MoneyInv /\ MoneyInv' /\ Grows
        BY SamePayments, SameMoney DEF IInv, TablesInv
    <1>2. CronInv'
        BY <1>1, SameCron DEF IInv, TablesInv
    <1>. QED
        BY <1>1, <1>2 DEF IInv, TablesInv, UsersInv

\* The bill becomes PAID and booked, behind the escrow step.
LEMMA BookInv ==
    ASSUME IInv, NEW w \in Worker, Book(w)
    PROVE  IInv'
    <1> DEFINE b == call[w].bill
               row == [bill[b] EXCEPT !.status = "paid", !.progress = "booked"]
    <1>1. b \in Bill /\ b \in Backed
        BY CallFacts DEF Stands, PastLock, Book, At
    <1>2. bill[b] \in Row /\ bill[b].voucher # "unset"
        BY <1>1 DEF IInv, TablesInv, RentalsInv
    <1>3. /\ row \in Row /\ row.voucher # "unset" /\ row.status = "paid"
        BY <1>2 DEF Row, Status, Progress
    <1>4. bill' = [bill EXCEPT ![b] = row]
        BY <1>1 DEF Book, IInv, TablesInv, RentalsInv
    <1>5. aged' \subseteq aged
        BY DEF Book, AgedAfterUpdate
    <1>6. details' = details /\ Backed' = Backed /\ releasedFor' = releasedFor
        BY BackedSame DEF Book, moneyVars, gatewayVars
    <1>7. RentalsInv'
        <2> HIDE DEF row, b
        <2>1. /\ bill' \in [Bill -> Row]
              /\ \A x \in Bill : bill'[x] = IF x = b THEN row ELSE bill[x]
            BY <1>1, <1>3, <1>4 DEF IInv, TablesInv, RentalsInv
        <2>. QED
            BY <1>1, <1>3, <1>5, <1>6, <2>1
            DEF IInv, TablesInv, RentalsInv, Escrowed, Settled
    <1>8. RestInv'
        BY DEF Book, elsewhere, IInv, TablesInv, RestInv
    <1>9. TablesInv' /\ UsersInv' /\ Grows /\ MoneyInv /\ MoneyInv' /\ CallsInv
        BY <1>7, <1>8, BillsMove DEF Book, elsewhere
    <1>. QED
        BY <1>9, Answers DEF IInv, Book

\* The payment to refund names a bill, if there is one.
LEMMA FindRefundableInv ==
    ASSUME IInv, NEW w \in Worker, FindRefundable(w)
    PROVE  IInv'
    <1> DEFINE c == call[w]
               found == {p \in UsedIds : payment[p].bill = call[w].bill
                                         /\ payment[p].status = "SUCCESS"}
               next == AfterMoney(c.op, c.row)
    <1>1. c \in Call /\ c.bill \in Bill /\ c.pc = "findRefundable" /\ ~Pays(c.op)
        BY CallFacts DEF Stands, Undoing, FindRefundable, At
    <1>2. TablesInv' /\ UsersInv' /\ Grows /\ MoneyInv /\ MoneyInv' /\ CallsInv
        BY OnlyCalls DEF FindRefundable, elsewhere
    <1>3. CASE found = {}
        <2>1. Goto(w, next)
            BY <1>3 DEF FindRefundable
        <2> HIDE DEF c
        <2>2. Stands(c, next, Backed', releasedFor', payment') /\ next \in Pc
            BY <1>1, AfterMoneyStands
        <2> HIDE DEF next
        <2>3. CallsInv'
            BY <1>2, <2>1, <2>2, GoesOn DEF c
        <2>. QED
            BY <1>2, <2>3 DEF IInv, FindRefundable
    <1>4. CASE found # {}
        <2> DEFINE p == Max(found)
                   pc == IF payment[p].method = "momo" THEN "askRefund" ELSE "markRefunded"
                   d == [c EXCEPT !.payment = p, !.pc = pc]
        <2>1. call' = [call EXCEPT ![w] = d]
            BY <1>2, <1>4 DEF FindRefundable, CallsInv
        <2>2. p \in found
            <3>1. found \in SUBSET PaymentId /\ found \subseteq Int
                BY DEF UsedIds, PaymentId
            <3>2. IsFiniteSet(found)
                BY <3>1, FS_Subset, FS_Interval, RentalAssumption DEF PaymentId
            <3> HIDE DEF found
            <3>. QED
                BY <1>4, <3>1, <3>2, MaxInSet
        <2>3. p \in PaymentId /\ payment[p].bill = c.bill /\ payment[p].status # "none"
            BY <2>2 DEF UsedIds
        <2> HIDE DEF p
        <2>4. /\ d \in Call /\ d.pc = pc /\ d.payment = p /\ d.op = c.op
              /\ d.bill = c.bill /\ d.row = c.row
            <3>1. "askRefund" \in Pc /\ "markRefunded" \in Pc
                BY DEF Pc
            <3>2. pc \in Pc /\ p \in 0..MaxPayments
                BY <2>3, <3>1, RentalAssumption DEF PaymentId
            <3> HIDE DEF pc, found
            <3>. QED
                BY <1>1, <3>2 DEF Call
        <2>5. CallInv(c, Backed', releasedFor', payment') /\ payment' = payment
            BY <1>2, StaysTrue, CallFacts DEF FindRefundable, gatewayVars
        <2>6. pc \in {"askRefund", "markRefunded"}
            OBVIOUS
        <2> HIDE DEF c, d, pc, found
        <2>7. CallInv(d, Backed', releasedFor', payment')
            BY <1>1, <2>3, <2>4, <2>5, <2>6
            DEF CallInv, Stands, AboutPayment, Reported, HasSeen, Editing, PastRelease, Undoing, PastLock
        <2>. QED
            BY <1>2, <2>1, <2>7, OneCall DEF IInv, FindRefundable
    <1>. QED
        BY <1>3, <1>4

\* The gateway refunds or not.
LEMMA AskRefundInv ==
    ASSUME IInv, NEW w \in Worker, AskRefund(w)
    PROVE  IInv'
    <1> DEFINE c == call[w]
    <1>1. c.payment \in PaymentId /\ c.pc = "askRefund" /\ ~Pays(c.op)
        BY CallFacts, PaymentFacts DEF Stands, AboutPayment, Undoing, AskRefund, At
    <1>2. TablesInv' /\ UsersInv' /\ Grows /\ MoneyInv /\ MoneyInv' /\ CallsInv
        <2>1. CASE order' = [order EXCEPT ![c.payment] = "refunded"]
            BY <1>1, <2>1, WritesOrder DEF AskRefund
        <2>2. CASE UNCHANGED order
            BY <2>2, OnlyCalls DEF AskRefund, gatewayVars, elsewhere
        <2>. QED
            BY <2>1, <2>2 DEF AskRefund
    <1>3. CASE Goto(w, "markRefunded")
        <2>1. Stands(c, "markRefunded", Backed', releasedFor', payment') /\ "markRefunded" \in Pc
            BY <1>1, <1>2, StillAboutPayment DEF AboutPayment, Reported
        <2>2. CallsInv'
            BY <1>2, <1>3, <2>1, GoesOn
        <2>. QED
            BY <1>2, <2>2 DEF IInv, AskRefund
    <1>4. CASE Return(w)
        BY <1>2, <1>4, Answers DEF IInv, AskRefund
    <1>. QED
        BY <1>3, <1>4 DEF AskRefund

\* The payment is REFUNDED.
LEMMA MarkRefundedInv ==
    ASSUME IInv, NEW w \in Worker, MarkRefunded(w)
    PROVE  IInv'
    <1> DEFINE c == call[w]
               next == AfterMoney(c.op, c.row)
    <1>1. c.pc \in AboutPayment /\ c.bill \in Bill /\ ~Pays(c.op)
        BY CallFacts, PaymentFacts DEF Stands, AboutPayment, Undoing, MarkRefunded, At
    <1>2. TablesInv' /\ UsersInv' /\ Grows /\ MoneyInv /\ MoneyInv' /\ CallsInv
        BY <1>1, MarksPayment DEF MarkRefunded
    <1>3. CASE Goto(w, next)
        <2> HIDE DEF c
        <2>1. Stands(c, next, Backed', releasedFor', payment') /\ next \in Pc
            BY <1>1, AfterMoneyStands
        <2> HIDE DEF next
        <2>2. CallsInv'
            BY <1>2, <1>3, <2>1, GoesOn DEF c
        <2>. QED
            BY <1>2, <2>2 DEF IInv, MarkRefunded
    <1>4. CASE Return(w)
        BY <1>2, <1>4, Answers DEF IInv, MarkRefunded
    <1>. QED
        BY <1>3, <1>4 DEF MarkRefunded

\* Every await of payment.service.ts.
LEMMA PaymentStepInv ==
    ASSUME IInv, NEW w \in Worker, PaymentStep(w)
    PROVE  IInv'
    BY CreatePaymentInv, AskGatewayInv, MarkFailedInv, MarkSuccessInv, LoadRentalInv,
       DepositPaymentInv, LockPaymentInv, ReadPointsInv, DeductPointsInv, ReadVoucherInv,
       SaveVoucherInv, BookInv, FindRefundableInv, AskRefundInv, MarkRefundedInv
    DEF PaymentStep

\* The customer pays at the gateway.
LEMMA CustomerPaysInv ==
    ASSUME IInv, NEW p \in PaymentId, CustomerPays(p)
    PROVE  IInv'
    <1>1. TablesInv' /\ UsersInv' /\ Grows /\ MoneyInv /\ MoneyInv' /\ CallsInv
        <2>1. order' = [order EXCEPT ![p] = "paid"]
            BY DEF CustomerPays
        <2>2. UNCHANGED <<rentalVars, payment, usedCount, points, moneyVars, elsewhere>>
            BY DEF CustomerPays
        <2>. QED
            BY <2>1, <2>2, WritesOrder
    <1>2. CallsInv'
        BY <1>1, BackedSame DEF CallsInv, CustomerPays, moneyVars
    <1>. QED
        BY <1>1, <1>2 DEF IInv, CustomerPays

\* A request is accepted and nothing else happens.
LEMMA AcceptsCall ==
    ASSUME IInv, NEW w \in Worker, NEW c, Accept(w, c),
           CallInv(c, Backed, releasedFor, payment),
           UNCHANGED <<rentalVars, gatewayVars, usedCount, points, moneyVars,
                       vehicle, chain, era, cron>>
    PROVE  IInv'
    <1>1. TablesInv' /\ UsersInv' /\ Grows /\ MoneyInv /\ MoneyInv' /\ CallsInv
        BY OnlyCalls
    <1>2. CallInv(c, Backed', releasedFor', payment')
        BY <1>1, StaysTrue
    <1>3. CallsInv'
        BY <1>1, <1>2, OneCall DEF Accept
    <1>4. calls' \in 0..MaxCalls
        BY RentalAssumption DEF Accept, IInv
    <1>. QED
        BY <1>1, <1>3, <1>4 DEF IInv

\* A request about a payment starts with the payment's bill.
LEMMA PaymentCallInv ==
    ASSUME IInv, NEW p \in UsedIds,
           NEW op \in {"ipn", "confirmQr", "refundMomo"},
           NEW pc \in {"markSuccess", "markRefused", "askRefund"},
           pc = "askRefund" => op = "refundMomo"
    PROVE  CallInv(PaymentCall(op, p, pc), Backed, releasedFor, payment)
    <1> DEFINE c == PaymentCall(op, p, pc)
    <1>1. p \in PaymentId /\ payment[p].bill \in Bill /\ payment[p].status # "none"
        BY DEF UsedIds, IInv, TablesInv, PaymentsInv
    <1>2. op \in OpName /\ pc \in Pc /\ p \in 0..MaxPayments
        BY <1>1, RentalAssumption DEF OpName, Pc, PaymentId
    <1>3. /\ c \in Call /\ c.op = op /\ c.pc = pc /\ c.payment = p /\ c.bill = payment[p].bill
          /\ c.row = NoRow
        <2>1. NoCall.row = NoRow
            BY DEF NoCall
        <2>. QED
            BY <1>1, <1>2, <2>1, NoCallTyped DEF PaymentCall, Call
    <1> HIDE DEF c
    <1>4. pc = "askRefund" => ~Pays(op)
        BY DEF Pays
    <1>. QED
        BY <1>1, <1>3, <1>4, NothingPaid
        DEF CallInv, Stands, AboutPayment, Reported, HasSeen, Editing, PastRelease, Undoing, PastLock, c

\* What a request about a payment starts from.
LEMMA PaymentStartInv ==
    ASSUME IInv, NEW w \in Worker,
           Ipn(w) \/ IpnFailed(w) \/ ConfirmQr(w) \/ RefundMomo(w)
    PROVE  IInv'
    <1>1. PICK p \in UsedIds, op \in {"ipn", "confirmQr", "refundMomo"},
               pc \in {"markSuccess", "markRefused", "askRefund"} :
             /\ pc = "askRefund" => op = "refundMomo"
             /\ Accept(w, PaymentCall(op, p, pc))
        BY DEF Ipn, IpnFailed, ConfirmQr, RefundMomo
    <1>2. UNCHANGED <<rentalVars, gatewayVars, usedCount, points, moneyVars,
                      vehicle, chain, era, cron>>
        BY DEF Ipn, IpnFailed, ConfirmQr, RefundMomo, elsewhere
    <1>3. CallInv(PaymentCall(op, p, pc), Backed, releasedFor, payment)
        BY <1>1, PaymentCallInv
    <1>. QED
        BY <1>1, <1>2, <1>3, AcceptsCall

\* A payment asked for directly, with an amount of the caller.
LEMMA MomoCreateInv ==
    ASSUME IInv, NEW w \in Worker, MomoCreate(w)
    PROVE  IInv'
    <1> DEFINE Asked(b, amount) ==
          [NoCall EXCEPT !.op = "momoCreate", !.bill = b, !.seen = amount,
                         !.pc = "createPayment", !.row = [NoRow EXCEPT !.method = "momo"]]
    <1>1. PICK b \in Bill, amount \in RawAmount : Accept(w, Asked(b, amount))
        BY DEF MomoCreate
    <1> DEFINE c == Asked(b, amount)
    <1>2. amount \in Int
        BY RentalAssumption
    <1>3. /\ c \in Call /\ c.op = "momoCreate" /\ c.pc = "createPayment" /\ c.bill = b
          /\ c.seen = amount /\ c.row = [NoRow EXCEPT !.method = "momo"]
        <2>1. "momoCreate" \in OpName /\ "createPayment" \in Pc
            BY DEF OpName, Pc
        <2>2. [NoRow EXCEPT !.method = "momo"] \in Row
            BY NoRowTyped DEF Row
        <2>. QED
            BY <1>2, <2>1, <2>2, NoCallTyped DEF Call
    <1>4. Escrowed(c.row, b, Backed)
        BY <1>3 DEF Escrowed, NoRow, HandedOver
    <1>5. UNCHANGED <<rentalVars, gatewayVars, usedCount, points, moneyVars,
                      vehicle, chain, era, cron>>
        BY DEF MomoCreate, elsewhere
    <1> HIDE DEF c
    <1>6. CallInv(c, Backed, releasedFor, payment)
        BY <1>2, <1>3, <1>4
        DEF CallInv, Stands, AboutPayment, Reported, HasSeen, Editing, PastRelease, Undoing, PastLock, Pays
    <1>. QED
        BY <1>1, <1>5, <1>6, AcceptsCall DEF c

-----------------------------------------------------------------------------
\* The requests of rental-bill.service.ts.

\* What a request knows that has loaded a bill.
LEMMA LoadedType ==
    ASSUME IInv, NEW op \in OpName, NEW b \in Bill
    PROVE  /\ Loaded(op, b) \in Call
           /\ Loaded(op, b).op = op /\ Loaded(op, b).bill = b /\ Loaded(op, b).pc = "save"
           /\ Loaded(op, b).row = bill[b] /\ Loaded(op, b).details = details[b]
           /\ Loaded(op, b).seen = 0 /\ Loaded(op, b).todo = {}
           /\ bill[b] \in Row /\ Escrowed(bill[b], b, Backed)
           /\ Settled(bill[b], b, releasedFor)
           /\ details[b] \in SUBSET Vehicle
    <1>1. /\ bill[b] \in Row /\ details[b] \in SUBSET Vehicle
          /\ Escrowed(bill[b], b, Backed) /\ Settled(bill[b], b, releasedFor)
        BY DEF IInv, TablesInv, RentalsInv
    <1>2. vehicle \in [Vehicle -> VehicleRow]
        BY DEF IInv, TablesInv, RestInv
    <1>3. "save" \in Pc
        BY DEF Pc
    <1>4. NoCall.seen = 0 /\ NoCall.todo = {}
        BY DEF NoCall
    <1>. QED
        BY <1>1, <1>2, <1>3, <1>4, NoCallTyped DEF Loaded, Call

\* A request that stands at pc with a row of bill b is fine if the row is
\* backed by escrow and pc asks for no more.
LEMMA RequestInv ==
    ASSUME IInv, NEW w \in Worker, NEW c \in Call, c.bill \in Bill, Request(w, c),
           Escrowed(c.row, c.bill, Backed), Stands(c, c.pc, Backed, releasedFor, payment)
    PROVE  IInv'
    BY AcceptsCall DEF Request, CallInv

\* Requests that load a bill, change some of their copy and go on at pc.
LEMMA LoadedRequestInv ==
    ASSUME IInv, NEW w \in Worker, NEW b \in Bill, NEW op \in OpName, NEW row \in Row,
           NEW c, Request(w, c), c = [Loaded(op, b) EXCEPT !.row = row],
           Escrowed(row, b, Backed), Settled(row, b, releasedFor)
    PROVE  IInv'
    <1>1. /\ c \in Call /\ c.pc = "save" /\ c.bill = b /\ c.row = row
        BY LoadedType DEF Call
    <1>2. Stands(c, c.pc, Backed, releasedFor, payment)
        BY <1>1 DEF Stands, AboutPayment, Reported, HasSeen, Editing, PastRelease, Undoing, PastLock
    <1>. QED
        BY <1>1, <1>2, RequestInv

\* The owner sets out: only a booked bill, whose money is in escrow.
LEMMA DeliveringInv ==
    ASSUME IInv, NEW w \in Worker, Delivering(w) \/ Delivered(w) \/ Pickup(w)
    PROVE  IInv'
    <1>1. PICK b \in Bill, op \in {"delivering", "delivered", "pickup"},
               progress \in {"delivering", "delivered", "in_progress"} :
             /\ Request(w, [Loaded(op, b) EXCEPT !.row.progress = progress])
             /\ bill[b].status = "paid" \/ bill[b].progress \in {"delivering", "delivered"}
        BY DEF Delivering, Delivered, Pickup
    <1> DEFINE row == [bill[b] EXCEPT !.progress = progress]
    <1>2. op \in OpName
        BY DEF OpName
    <1>3. /\ bill[b] \in Row /\ Escrowed(bill[b], b, Backed)
          /\ Settled(bill[b], b, releasedFor)
        BY <1>2, LoadedType
    <1>4. /\ row \in Row /\ Escrowed(row, b, Backed) /\ Settled(row, b, releasedFor)
        BY <1>1, <1>3 DEF Row, Progress, Escrowed, Settled, HandedOver
    <1>5. [Loaded(op, b) EXCEPT !.row.progress = progress] = [Loaded(op, b) EXCEPT !.row = row]
        BY <1>2, LoadedType
    <1> HIDE DEF row
    <1>. QED
        BY <1>1, <1>2, <1>4, <1>5, LoadedRequestInv

\* The renter asks for the return.
LEMMA ReturnRequestInv ==
    ASSUME IInv, NEW w \in Worker, ReturnRequest(w)
    PROVE  IInv'
    <1>1. PICK b \in Bill :
             /\ bill[b].progress = "in_progress"
             /\ Request(w, [Loaded("returnRequest", b) EXCEPT
                   !.row.progress = "return_requested",
                   !.row.overtime = @ \/ (era = 5 /\ details[b] # {})])
        BY DEF ReturnRequest
    <1> DEFINE l == Loaded("returnRequest", b)
               late == bill[b].overtime \/ (era = 5 /\ details[b] # {})
               row == [bill[b] EXCEPT !.progress = "return_requested", !.overtime = late]
    <1>2. "returnRequest" \in OpName
        BY DEF OpName
    <1>3. /\ bill[b] \in Row /\ Escrowed(bill[b], b, Backed)
          /\ Settled(bill[b], b, releasedFor)
        BY <1>2, LoadedType
    <1>4. late \in BOOLEAN
        BY <1>3 DEF Row
    <1>5. /\ row \in Row /\ Escrowed(row, b, Backed) /\ Settled(row, b, releasedFor)
        <2> HIDE DEF late
        <2>. QED
            BY <1>1, <1>3, <1>4 DEF Row, Progress, Escrowed, Settled, HandedOver
    <1>6. [Loaded("returnRequest", b) EXCEPT
              !.row.progress = "return_requested",
              !.row.overtime = @ \/ (era = 5 /\ details[b] # {})]
          = [Loaded("returnRequest", b) EXCEPT !.row = row]
        <2>1. l \in Call /\ l.row = bill[b]
            BY <1>2, LoadedType
        <2> HIDE DEF l
        <2>. QED
            BY <1>3, <2>1 DEF Call, Row, l
    <1> HIDE DEF row
    <1>. QED
        BY <1>1, <1>2, <1>5, <1>6, LoadedRequestInv

\* A request with another row, other vehicles to visit and another place.
Redone(l, row, todo, pc) == [l EXCEPT !.row = row, !.todo = todo, !.pc = pc]

\* A request that will save the copy edited by update.
LEMMA CallEdited ==
    ASSUME NEW l \in Call, NEW row \in Row, NEW todo \in SUBSET Vehicle, NEW pc \in Pc
    PROVE  LET c == Redone(l, row, todo, pc) IN
           /\ c \in Call /\ c.row = row /\ c.todo = todo /\ c.pc = pc
           /\ c.op = l.op /\ c.bill = l.bill /\ c.seen = l.seen /\ c.payment = l.payment
    <1> DEFINE c1 == [l EXCEPT !.row = row]
               c2 == [c1 EXCEPT !.todo = todo]
               c3 == [c2 EXCEPT !.pc = pc]
    <1>1. c1 \in Call /\ c1.row = row /\ c1.op = l.op /\ c1.bill = l.bill
          /\ c1.seen = l.seen /\ c1.payment = l.payment
        BY DEF Call
    <1> HIDE DEF c1
    <1>2. c2 \in Call /\ c2.row = row /\ c2.op = l.op /\ c2.bill = l.bill
          /\ c2.seen = l.seen /\ c2.payment = l.payment /\ c2.todo = todo
        BY <1>1 DEF Call
    <1> HIDE DEF c2
    <1>3. c3 \in Call /\ c3.row = row /\ c3.op = l.op /\ c3.bill = l.bill
          /\ c3.seen = l.seen /\ c3.payment = l.payment /\ c3.todo = todo /\ c3.pc = pc
        BY <1>2 DEF Call
    <1>. QED
        BY <1>3 DEF c3, c2, c1, Redone

\* A request that settles a bill, at its first await after the reads.
LEMMA SettlingInv ==
    ASSUME IInv, NEW w \in Worker, NEW b \in Bill, NEW op \in OpName, NEW row \in Row,
           NEW c, Request(w, c),
           NEW pc \in {"release", "findRefundable", "saveVehicles", "commit"},
           c = [Loaded(op, b) EXCEPT !.row = row, !.todo = details[b], !.pc = pc],
           Escrowed(row, b, Backed), ~Pays(op),
           pc \in PastRelease => Settled(row, b, releasedFor)
    PROVE  IInv'
    <1>1. pc \in Pc
        BY DEF Pc
    <1>2. /\ c \in Call /\ c.pc = pc /\ c.bill = b /\ c.row = row /\ c.op = op
        <2> DEFINE l == Loaded(op, b)
        <2>1. l \in Call /\ l.bill = b /\ l.op = op /\ details[b] \in SUBSET Vehicle
            BY LoadedType
        <2>2. c = Redone(l, row, details[b], pc)
            BY DEF Redone
        <2> HIDE DEF l
        <2>3. LET d == Redone(l, row, details[b], pc) IN
              d \in Call /\ d.row = row /\ d.pc = pc /\ d.op = l.op /\ d.bill = l.bill
            BY ONLY <1>1, <2>1, CallEdited
        <2>. QED
            BY <2>1, <2>2, <2>3
    <1>3. Stands(c, c.pc, Backed, releasedFor, payment)
        BY <1>2 DEF Stands, AboutPayment, Reported, HasSeen, Editing, PastRelease, Undoing, PastLock
    <1>. QED
        BY <1>2, <1>3, RequestInv

\* The owner confirms the return: the copy becomes COMPLETED and pays out.
LEMMA ConfirmReturnInv ==
    ASSUME IInv, NEW w \in Worker, ConfirmReturn(w) \/ Complete(w)
    PROVE  IInv'
    <1> DEFINE Ended(b) ==
          {[bill[b] EXCEPT !.progress = "return_confirmed", !.status = "completed"],
           [bill[b] EXCEPT !.status = "completed"]}
    <1>0. PICK b \in Bill, op \in {"confirmReturn", "complete"} : \E row \in Ended(b) :
             /\ bill[b].status = "paid" \/ bill[b].progress = "return_requested"
             /\ Request(w, Settling(op, b, row, "release"))
        BY DEF ConfirmReturn, Complete
    <1>1. PICK row \in Ended(b) :
             /\ bill[b].status = "paid" \/ bill[b].progress = "return_requested"
             /\ Request(w, Settling(op, b, row, "release"))
        BY <1>0
    <1>2. op \in OpName /\ ~Pays(op)
        BY DEF OpName, Pays
    <1>3. bill[b] \in Row /\ Escrowed(bill[b], b, Backed)
        BY <1>2, LoadedType
    <1>4. b \in Backed
        BY <1>1, <1>3 DEF Escrowed, HandedOver
    <1>5. row \in Row /\ row.total = bill[b].total /\ Escrowed(row, b, Backed)
        BY <1>3, <1>4 DEF Row, Status, Progress, Escrowed
    <1> DEFINE pc == IF bill[b].total > 0 THEN "release" ELSE "saveVehicles"
    <1>6. pc \in PastRelease => Settled(row, b, releasedFor)
        <2>1. row.total \in Nat /\ releasedFor[b] \in Nat
            BY <1>5, RowType DEF IInv, TablesInv, MoneyInv
        <2>. QED
            BY <1>5, <2>1 DEF PastRelease, Settled
    <1>7. pc \in {"release", "findRefundable", "saveVehicles", "commit"}
        OBVIOUS
    <1>8. Settling(op, b, row, "release") =
             [Loaded(op, b) EXCEPT !.row = row, !.todo = details[b], !.pc = pc]
        BY <1>2 DEF Settling, Finish
    <1> HIDE DEF pc
    <1>. QED
        BY <1>1, <1>2, <1>5, <1>6, <1>7, <1>8, SettlingInv

\* The request of a cancellation, which goes on to pc.
Cancelling(op, b, pc) ==
    [Loaded(op, b) EXCEPT !.row = CancelledRow(bill[b]), !.todo = details[b], !.pc = pc]

\* A cancellation, with or without money to give back.
LEMMA CancelInv ==
    ASSUME IInv, NEW w \in Worker, Cancel(w) \/ OwnerCancel(w)
    PROVE  IInv'
    <1>1. PICK b \in Bill, op \in {"cancel", "ownerCancel"},
               pc \in {"findRefundable", "saveVehicles", "commit"} :
             Request(w, Cancelling(op, b, pc))
        <2>1. CASE Cancel(w)
            <3>1. PICK b \in Bill : Request(w, Settling("cancel", b, CancelledRow(bill[b]),
                     IF bill[b].status = "paid" THEN "findRefundable" ELSE "saveVehicles"))
                BY <2>1 DEF Cancel
            <3> DEFINE pc == IF bill[b].total > 0 /\ bill[b].status = "paid"
                             THEN "findRefundable" ELSE "saveVehicles"
            <3>2. Settling("cancel", b, CancelledRow(bill[b]),
                     IF bill[b].status = "paid" THEN "findRefundable" ELSE "saveVehicles")
                  = Cancelling("cancel", b, pc)
                BY DEF Settling, Finish, Cancelling
            <3>3. pc \in {"findRefundable", "saveVehicles", "commit"}
                OBVIOUS
            <3> HIDE DEF pc
            <3>4. Request(w, Cancelling("cancel", b, pc))
                BY <3>1, <3>2
            <3>. QED
                BY <3>3, <3>4
        <2>2. CASE OwnerCancel(w)
            <3>1. PICK b \in Bill :
                     Request(w, Settling("ownerCancel", b, CancelledRow(bill[b]), "findRefundable"))
                BY <2>2 DEF OwnerCancel
            <3> DEFINE pc == IF bill[b].total > 0 THEN "findRefundable" ELSE "commit"
            <3>2. Settling("ownerCancel", b, CancelledRow(bill[b]), "findRefundable")
                  = Cancelling("ownerCancel", b, pc)
                BY DEF Settling, Finish, Cancelling
            <3>3. pc \in {"findRefundable", "saveVehicles", "commit"}
                OBVIOUS
            <3> HIDE DEF pc
            <3>4. Request(w, Cancelling("ownerCancel", b, pc))
                BY <3>1, <3>2
            <3>. QED
                BY <3>3, <3>4
        <2>. QED
            BY <2>1, <2>2
    <1> DEFINE row == CancelledRow(bill[b])
    <1>2. op \in OpName /\ ~Pays(op)
        BY DEF OpName, Pays
    <1>3. bill[b] \in Row
        BY <1>2, LoadedType
    <1>4. row \in Row /\ Escrowed(row, b, Backed) /\ Settled(row, b, releasedFor)
        BY <1>3 DEF CancelledRow, Row, Status, Progress, Escrowed, Settled, HandedOver
    <1> HIDE DEF row
    <1>. QED
        BY <1>1, <1>2, <1>4, SettlingInv DEF row, Cancelling

\* calculateTotal is a natural number whatever the discount and the points.
LEMMA TotalType ==
    ASSUME NEW row \in Row, NEW vehicles \in SUBSET Vehicle
    PROVE  Total(row, vehicles) \in Nat
    <1> DEFINE sum == MapThenSumSet(LAMBDA v : Price[v], vehicles)
               discounted == IF row.voucher = "set" THEN sum - DiscountOf(sum) ELSE sum
    <1>1. SumOver(Price, vehicles) \in Nat
        BY SumNat, RentalAssumption
    <1>2. sum \in Nat
        BY <1>1 DEF SumOver
    <1>3. row.points \in Nat /\ Discount \in Nat
        BY RowType, RentalAssumption
    <1>4. Total(row, vehicles) = IF row.points > discounted THEN 0 ELSE discounted - row.points
        BY DEF Total
    <1> HIDE DEF sum
    <1>5. discounted \in Nat
        BY <1>2, <1>3 DEF DiscountOf
    <1> HIDE DEF discounted
    <1>. QED
        BY <1>3, <1>4, <1>5

\* A row is written to rental_bills.
LEMMA WritesBill ==
    ASSUME IInv, NEW b \in Bill, NEW row \in Row, row.voucher # "unset",
           Escrowed(row, b, Backed), Settled(row, b, releasedFor),
           bill' = [bill EXCEPT ![b] = row], aged' \subseteq Bill,
           details' \in [Bill -> SUBSET Vehicle],
           UNCHANGED <<moneyVars, payment>>
    PROVE  RentalsInv'
    <1>1. /\ bill' \in [Bill -> Row]
          /\ \A x \in Bill : bill'[x] = IF x = b THEN row ELSE bill[x]
        BY DEF IInv, TablesInv, RentalsInv
    <1>2. Backed' = Backed /\ releasedFor' = releasedFor
        BY BackedSame DEF moneyVars
    <1>. QED
        BY <1>1, <1>2 DEF IInv, TablesInv, RentalsInv, Escrowed, Settled

\* A new bill.
LEMMA CreateInv ==
    ASSUME IInv, NEW w \in Worker, Create(w)
    PROVE  IInv'
    <1> DEFINE Asked(b, vs) ==
          [NoCall EXCEPT !.op = "create", !.bill = b, !.todo = vs, !.pc = "loadForAdd"]
    <1>1. PICK b \in Bill, vs \in SUBSET Vehicle :
             /\ Accept(w, Asked(b, vs))
             /\ bill' = [bill EXCEPT ![b] = NewRow]
        BY DEF Create
    <1> DEFINE c == Asked(b, vs)
    <1>2. /\ c \in Call /\ c.op = "create" /\ c.pc = "loadForAdd" /\ c.bill = b /\ c.row = NoRow
        <2>1. "create" \in OpName /\ "loadForAdd" \in Pc
            BY DEF OpName, Pc
        <2>2. NoCall.row = NoRow
            BY DEF NoCall
        <2>. QED
            BY <2>1, <2>2, NoCallTyped DEF Call
    <1>3. RentalsInv'
        <2>1. NewRow \in Row /\ NewRow.voucher # "unset" /\ NewRow.status = "pending"
            BY NoRowTyped DEF NewRow, NoRow
        <2>2. Escrowed(NewRow, b, Backed) /\ Settled(NewRow, b, releasedFor)
            BY <2>1, NothingPaid DEF Settled
        <2>3. aged' \subseteq Bill /\ details' \in [Bill -> SUBSET Vehicle]
            BY DEF Create, IInv, TablesInv, RentalsInv
        <2>. QED
            BY <1>1, <2>1, <2>2, <2>3, WritesBill DEF Create, gatewayVars
    <1>4. RestInv'
        BY DEF Create, IInv, TablesInv, RestInv
    <1>5. TablesInv' /\ UsersInv' /\ Grows /\ MoneyInv /\ MoneyInv' /\ CallsInv
        BY <1>3, <1>4, BillsMove DEF Create
    <1> HIDE DEF c
    <1>6. CallInv(c, Backed', releasedFor', payment')
        BY <1>2, NothingPaid
        DEF CallInv, Stands, AboutPayment, Reported, HasSeen, Editing, PastRelease, Undoing, PastLock, Pays
    <1>7. CallsInv'
        BY <1>1, <1>5, <1>6, OneCall DEF Accept, c
    <1>8. calls' \in 0..MaxCalls
        BY <1>1, RentalAssumption DEF Accept, IInv
    <1>. QED
        BY <1>5, <1>7, <1>8 DEF IInv

\* A vehicle is to be added.
LEMMA AddVehicleInv ==
    ASSUME IInv, NEW w \in Worker, AddVehicle(w)
    PROVE  IInv'
    <1> DEFINE Asked(b, v) ==
          [NoCall EXCEPT !.op = "addVehicle", !.bill = b, !.todo = {v}, !.pc = "loadForAdd"]
    <1>1. PICK b \in Bill : \E v \in Vehicle \ details[b] : Request(w, Asked(b, v))
        BY DEF AddVehicle
    <1>2. PICK v \in Vehicle : Request(w, Asked(b, v))
        BY <1>1
    <1> DEFINE c == Asked(b, v)
    <1>3. /\ c \in Call /\ c.pc = "loadForAdd" /\ c.bill = b /\ c.row = NoRow
          /\ c.op = "addVehicle"
        <2>1. "addVehicle" \in OpName /\ "loadForAdd" \in Pc
            BY DEF OpName, Pc
        <2>2. NoCall.row = NoRow
            BY DEF NoCall
        <2>. QED
            BY <2>1, <2>2, NoCallTyped DEF Call
    <1> HIDE DEF c
    <1>4. Stands(c, c.pc, Backed, releasedFor, payment)
        BY <1>3
        DEF Stands, AboutPayment, Reported, HasSeen, Editing, PastRelease, Undoing, PastLock, Pays
    <1>. QED
        BY <1>2, <1>3, <1>4, NothingPaid, RequestInv DEF c

\* A vehicle is to be removed.
LEMMA RemoveVehicleInv ==
    ASSUME IInv, NEW w \in Worker, RemoveVehicle(w)
    PROVE  IInv'
    <1> DEFINE Asked(b, v) ==
          [Loaded("removeVehicle", b) EXCEPT !.pc = "deleteDetail", !.details = {v}]
    <1>1. PICK b \in Bill, v \in Vehicle : bill[b].status = "pending" /\ Request(w, Asked(b, v))
        BY DEF RemoveVehicle
    <1> DEFINE c == Asked(b, v)
               l == Loaded("removeVehicle", b)
    <1>2. /\ l \in Call /\ l.op = "removeVehicle" /\ l.bill = b /\ l.row = bill[b]
          /\ Escrowed(bill[b], b, Backed)
        BY LoadedType DEF OpName
    <1>3. /\ c \in Call /\ c.pc = "deleteDetail" /\ c.bill = b /\ c.row = bill[b]
          /\ c.op = "removeVehicle"
        <2>1. "deleteDetail" \in Pc
            BY DEF Pc
        <2> HIDE DEF l
        <2>. QED
            BY <1>2, <2>1 DEF Call, l
    <1> HIDE DEF c, l
    <1>4. Stands(c, c.pc, Backed, releasedFor, payment)
        BY <1>1, <1>3
        DEF Stands, AboutPayment, Reported, HasSeen, Editing, PastRelease, Undoing, PastLock, Pays
    <1>. QED
        BY <1>1, <1>2, <1>3, <1>4, RequestInv DEF c

\* A payment method is chosen.
LEMMA PayInv ==
    ASSUME IInv, NEW w \in Worker, Pay(w)
    PROVE  IInv'
    <1>1. PICK b \in Bill, pc \in {"flagEth", "createPayment"} :
             Request(w, [Loaded("pay", b) EXCEPT !.seen = bill[b].total, !.pc = pc])
        BY DEF Pay
    <1> DEFINE l == Loaded("pay", b)
               c == [l EXCEPT !.seen = bill[b].total, !.pc = pc]
    <1>2. /\ l \in Call /\ l.op = "pay" /\ l.bill = b /\ l.row = bill[b]
          /\ Escrowed(bill[b], b, Backed) /\ bill[b].total \in Nat
        BY LoadedType, RowType DEF OpName
    <1> HIDE DEF l
    <1>3. /\ c \in Call /\ c.pc = pc /\ c.bill = b /\ c.row = bill[b] /\ c.op = "pay"
          /\ c.seen \in Nat
        <2>1. pc \in Pc /\ bill[b].total \in Int
            BY <1>2 DEF Pc
        <2>. QED
            BY <1>2, <2>1 DEF Call
    <1> HIDE DEF c
    <1>4. Stands(c, c.pc, Backed, releasedFor, payment)
        BY <1>3
        DEF Stands, AboutPayment, Reported, HasSeen, Editing, PastRelease, Undoing, PastLock, Pays
    <1>. QED
        BY <1>1, <1>2, <1>3, <1>4, RequestInv DEF c, l

\* An edit of a PENDING bill: what it leaves alone is still escrowed or unpaid.
LEMMA UpdateInv ==
    ASSUME IInv, NEW w \in Worker, Update(w)
    PROVE  IInv'
    <1>1. PICK b \in Bill, method \in {"none", "momo", "qr_code"},
               voucher \in {"keep", "set", "unset"}, pts \in PointChoice \cup {-1} :
             /\ bill[b].status = "pending"
             /\ Request(w, [Loaded("update", b) EXCEPT
                               !.row = Edited(bill[b], details[b], method, voucher, pts)])
        BY DEF Update
    <1> DEFINE m == IF method = "none" THEN bill[b].method ELSE method
               v == IF voucher = "keep" THEN bill[b].voucher ELSE voucher
               p == IF pts < 0 THEN bill[b].points ELSE pts
               edited == [bill[b] EXCEPT !.method = m, !.voucher = v, !.points = p]
               total == Total(edited, details[b])
               row == Edited(bill[b], details[b], method, voucher, pts)
    <1>2. /\ bill[b] \in Row /\ Escrowed(bill[b], b, Backed) /\ details[b] \in SUBSET Vehicle
          /\ "update" \in OpName
        BY LoadedType DEF OpName
    <1>3. /\ edited \in Row /\ edited.status = "pending" /\ edited.progress = bill[b].progress
        <2>1. m \in {"none", "momo", "qr_code"} /\ v \in {"none", "set", "unset"}
            BY <1>2 DEF Row
        <2>2. p \in Nat
            <3>1. pts \in Nat \/ pts = -1
                BY RentalAssumption
            <3>2. bill[b].points \in Nat
                BY <1>2, RowType
            <3>. QED
                BY <3>1, <3>2
        <2> HIDE DEF m, v, p
        <2>. QED
            BY <1>1, <1>2, <2>1, <2>2 DEF Row
    <1>4. row = [edited EXCEPT !.total = total]
        BY DEF Edited
    <1> HIDE DEF row, edited, m, v, p
    <1>5. total \in Nat
        BY <1>2, <1>3, TotalType
    <1> HIDE DEF total
    <1>6. /\ row \in Row /\ Escrowed(row, b, Backed) /\ Settled(row, b, releasedFor)
        BY <1>1, <1>2, <1>3, <1>4, <1>5 DEF Row, Escrowed, Settled
    <1>. QED
        BY <1>1, <1>2, <1>6, LoadedRequestInv DEF row

\* The requests of rental-vehicle.service.ts, which know no bill: their fleet
\* is the vehicles as they are, with another row of one of them.
LEMMA FleetStartInv ==
    ASSUME IInv, NEW w \in Worker, Disable(w) \/ Enable(w) \/ Register(w) \/ Approve(w)
    PROVE  IInv'
    <1> DEFINE Asked(op, v, fleet) ==
          [NoCall EXCEPT !.op = op, !.pc = "saveVehicle", !.todo = {v}, !.fleet = fleet]
    <1>1. PICK op \in {"disable", "enable", "register", "approve"}, v \in Vehicle,
               fleet \in [Vehicle -> VehicleRow] : Request(w, Asked(op, v, fleet))
        <2>1. vehicle \in [Vehicle -> VehicleRow]
            BY DEF IInv, TablesInv, RestInv
        <2>2. ASSUME NEW v \in Vehicle, NEW row \in VehicleRow
              PROVE  [vehicle EXCEPT ![v] = row] \in [Vehicle -> VehicleRow]
            BY <2>1
        <2>3. ASSUME NEW v \in Vehicle, NEW free \in BOOLEAN
              PROVE  /\ [vehicle EXCEPT ![v].available = free]
                          = [vehicle EXCEPT ![v] = [vehicle[v] EXCEPT !.available = free]]
                     /\ [vehicle[v] EXCEPT !.available = free] \in VehicleRow
            BY <2>1 DEF VehicleRow
        <2>4. CASE Disable(w)
            <3>1. PICK v \in Vehicle :
                     Request(w, Asked("disable", v, [vehicle EXCEPT ![v].available = FALSE]))
                BY <2>4 DEF Disable
            <3>2. [vehicle EXCEPT ![v].available = FALSE] \in [Vehicle -> VehicleRow]
                BY <2>2, <2>3
            <3>. QED
                BY <3>1, <3>2
        <2>5. CASE Enable(w)
            <3>1. PICK v \in Vehicle :
                     Request(w, Asked("enable", v, [vehicle EXCEPT ![v].available = TRUE]))
                BY <2>5 DEF Enable
            <3>2. [vehicle EXCEPT ![v].available = TRUE] \in [Vehicle -> VehicleRow]
                BY <2>2, <2>3
            <3>. QED
                BY <3>1, <3>2
        <2>6. CASE Register(w)
            <3>1. PICK v \in Vehicle, c \in Contract :
                     Request(w, Asked("register", v, [vehicle EXCEPT ![v] = Registered(c)]))
                BY <2>6 DEF Register
            <3>2. [vehicle EXCEPT ![v] = Registered(c)] \in [Vehicle -> VehicleRow]
                BY <2>2, RegisteredTyped
            <3>. QED
                BY <3>1, <3>2
        <2>7. CASE Approve(w)
            <3>1. PICK v \in Vehicle :
                     Request(w, Asked("approve", v, [vehicle EXCEPT ![v] = Approved(@)]))
                BY <2>7 DEF Approve
            <3>2. [vehicle EXCEPT ![v] = Approved(@)] \in [Vehicle -> VehicleRow]
                BY <2>1, <2>2, RegisteredTyped
            <3>. QED
                BY <3>1, <3>2
        <2>. QED
            BY <2>4, <2>5, <2>6, <2>7
    <1> DEFINE c == Asked(op, v, fleet)
    <1>2. c \in Call /\ c.op = op /\ c.pc = "saveVehicle" /\ c.bill = Nobody /\ c.row = NoRow
        <2>1. op \in OpName /\ "saveVehicle" \in Pc
            BY DEF OpName, Pc
        <2>2. NoCall.row = NoRow /\ NoCall.bill = Nobody
            BY DEF NoCall
        <2>. QED
            BY <2>1, <2>2, NoCallTyped DEF Call
    <1> HIDE DEF c
    <1>3. CallInv(c, Backed, releasedFor, payment)
        BY <1>2, NothingPaid
        DEF CallInv, Stands, AboutPayment, Reported, HasSeen, Editing, PastRelease, Undoing, PastLock, Pays
    <1>. QED
        BY <1>1, <1>3, AcceptsCall DEF Request, c

\* Every request that is accepted.
LEMMA StartInv ==
    ASSUME IInv, NEW w \in Worker, Start(w)
    PROVE  IInv'
    BY CreateInv, AddVehicleInv, RemoveVehicleInv, UpdateInv, PayInv, MomoCreateInv,
       PaymentStartInv, DeliveringInv, ReturnRequestInv, ConfirmReturnInv, CancelInv,
       FleetStartInv
    DEF Start

-----------------------------------------------------------------------------
\* The steps of rental-bill.service.ts.

\* The bill is loaded to get one more vehicle.
LEMMA LoadForAddInv ==
    ASSUME IInv, NEW w \in Worker, LoadForAdd(w)
    PROVE  IInv'
    <1> DEFINE b == call[w].bill
    <1>1. TablesInv' /\ UsersInv' /\ Grows /\ MoneyInv /\ MoneyInv' /\ CallsInv
        BY OnlyCalls DEF LoadForAdd, elsewhere
    <1>2. b \in Bill
        BY CallFacts DEF Stands, LoadForAdd, At
    <1>3. ASSUME NEW v \in call[w].todo, bill[b].status = "pending",
                 call' = [call EXCEPT ![w] =
                   [Loaded(@.op, b) EXCEPT !.pc = "insertDetail", !.todo = call[w].todo \ {v},
                                           !.details = {v}]]
          PROVE  CallsInv'
        <2> DEFINE l == Loaded(call[w].op, b)
                   todo == call[w].todo \ {v}
                   d == [l EXCEPT !.pc = "insertDetail", !.todo = todo, !.details = {v}]
        <2>1. call' = [call EXCEPT ![w] = d]
            BY <1>3
        <2>2. call[w].op \in OpName /\ call[w].todo \subseteq Vehicle
            BY CallFacts, CallType
        <2>3. /\ l \in Call /\ l.bill = b /\ l.row = bill[b] /\ Escrowed(bill[b], b, Backed)
            BY <1>2, <2>2, LoadedType
        <2> HIDE DEF l
        <2>4. /\ d \in Call /\ d.pc = "insertDetail" /\ d.bill = b /\ d.row = bill[b]
            <3>1. "insertDetail" \in Pc /\ todo \in SUBSET Vehicle /\ {v} \in SUBSET Vehicle
                BY <1>3, <2>2 DEF Pc
            <3> HIDE DEF todo
            <3>. QED
                BY <2>3, <3>1 DEF Call
        <2> HIDE DEF d
        <2>5. CallInv(d, Backed, releasedFor, payment)
            BY <1>2, <1>3, <2>3, <2>4
            DEF CallInv, Stands, AboutPayment, Reported, HasSeen, Editing, PastRelease, Undoing, PastLock
        <2>6. CallInv(d, Backed', releasedFor', payment')
            BY <1>1, <2>5, StaysTrue
        <2>. QED
            BY <1>1, <2>1, <2>6, OneCall
    <1>4. CallsInv'
        BY <1>1, <1>3, Answers DEF LoadForAdd
    <1>. QED
        BY <1>1, <1>4 DEF IInv, LoadForAdd

\* The details of a bill change.
LEMMA DetailsMove ==
    ASSUME IInv, details' \in [Bill -> SUBSET Vehicle],
           UNCHANGED <<bill, aged, gatewayVars, usedCount, points, moneyVars, elsewhere>>
    PROVE  TablesInv' /\ UsersInv' /\ Grows /\ MoneyInv /\ MoneyInv' /\ CallsInv
    <1>1. Backed' = Backed /\ releasedFor' = releasedFor
        BY BackedSame DEF moneyVars, gatewayVars
    <1>2. RentalsInv' /\ RestInv'
        BY <1>1 DEF IInv, TablesInv, RentalsInv, RestInv, elsewhere
    <1>. QED
        BY <1>2, BillsMove DEF elsewhere

\* The row of the vehicle is inserted.
LEMMA InsertDetailInv ==
    ASSUME IInv, NEW w \in Worker, InsertDetail(w) \/ DeleteDetail(w)
    PROVE  IInv'
    <1>1. /\ call[w].bill \in Bill /\ call[w].row.status = "pending"
          /\ call[w].details \subseteq Vehicle
        BY CallFacts, CallType DEF Stands, Editing, InsertDetail, DeleteDetail, At
    <1>2. details' \in [Bill -> SUBSET Vehicle]
        BY <1>1 DEF InsertDetail, DeleteDetail, IInv, TablesInv, RentalsInv
    <1>3. TablesInv' /\ UsersInv' /\ Grows /\ MoneyInv /\ MoneyInv' /\ CallsInv
        BY <1>2, DetailsMove DEF InsertDetail, DeleteDetail
    <1>4. Stands(call[w], "refresh", Backed', releasedFor', payment')
        BY <1>1 DEF Stands, AboutPayment, Reported, HasSeen, Editing, PastRelease, Undoing, PastLock
    <1>5. CallsInv'
        BY <1>3, <1>4, GoesOn DEF InsertDetail, DeleteDetail, Pc
    <1>. QED
        BY <1>3, <1>5 DEF IInv, InsertDetail, DeleteDetail

\* The bill is loaded again and its total computed.
LEMMA RefreshInv ==
    ASSUME IInv, NEW w \in Worker, Refresh(w)
    PROVE  IInv'
    <1> DEFINE c == call[w]
               total == Total(c.row, details[c.bill])
               row == [c.row EXCEPT !.total = total]
               d == [c EXCEPT !.details = details[c.bill], !.pc = "save", !.row = row]
    <1>1. /\ c \in Call /\ c.bill \in Bill /\ c.row \in Row /\ c.row.status = "pending"
          /\ Escrowed(c.row, c.bill, Backed)
        BY CallFacts DEF CallInv, Stands, Editing, Refresh, At
    <1>2. details[c.bill] \in SUBSET Vehicle
        BY <1>1 DEF IInv, TablesInv, RentalsInv
    <1>3. total \in Nat
        BY <1>1, <1>2, TotalType
    <1>4. call' = [call EXCEPT ![w] = d]
        BY <1>1 DEF Refresh, Call
    <1> HIDE DEF total
    <1>5. /\ row \in Row /\ Escrowed(row, c.bill, Backed) /\ Settled(row, c.bill, releasedFor)
        BY <1>1, <1>3 DEF Row, Escrowed, Settled
    <1> HIDE DEF row, c
    <1>6. d \in Call /\ d.pc = "save" /\ d.bill = c.bill /\ d.row = row
        <2>1. "save" \in Pc
            BY DEF Pc
        <2>. QED
            BY <1>1, <1>2, <1>5, <2>1 DEF Call
    <1> HIDE DEF d
    <1>7. TablesInv' /\ UsersInv' /\ Grows /\ MoneyInv /\ MoneyInv' /\ CallsInv
        BY OnlyCalls DEF Refresh, elsewhere
    <1>8. CallInv(d, Backed, releasedFor, payment)
        BY <1>1, <1>5, <1>6
        DEF CallInv, Stands, AboutPayment, Reported, HasSeen, Editing, PastRelease, Undoing, PastLock
    <1>9. CallInv(d, Backed', releasedFor', payment')
        BY <1>7, <1>8, StaysTrue
    <1>. QED
        BY <1>4, <1>7, <1>9, OneCall DEF IInv, Refresh

\* The bill is marked for a deposit on the chain.
LEMMA FlagEthInv ==
    ASSUME IInv, NEW w \in Worker, FlagEth(w)
    PROVE  IInv'
    <1> DEFINE b == call[w].bill
               row == [bill[b] EXCEPT !.eth = TRUE]
    <1>1. b \in Bill
        BY CallFacts DEF Stands, FlagEth, At
    <1>2. /\ bill[b] \in Row /\ bill[b].voucher # "unset"
          /\ Escrowed(bill[b], b, Backed) /\ Settled(bill[b], b, releasedFor)
        BY <1>1 DEF IInv, TablesInv, RentalsInv
    <1>3. /\ row \in Row /\ row.voucher # "unset"
          /\ Escrowed(row, b, Backed) /\ Settled(row, b, releasedFor)
        BY <1>2 DEF Row, Escrowed, Settled
    <1>4. bill' = [bill EXCEPT ![b] = row]
        BY <1>1 DEF FlagEth, IInv, TablesInv, RentalsInv
    <1>5. /\ aged' \subseteq Bill /\ details' \in [Bill -> SUBSET Vehicle]
        BY DEF FlagEth, AgedAfterUpdate, IInv, TablesInv, RentalsInv
    <1>6. RentalsInv'
        <2> HIDE DEF row, b
        <2>. QED
            BY <1>1, <1>3, <1>4, <1>5, WritesBill DEF FlagEth, gatewayVars
    <1>7. RestInv'
        BY DEF FlagEth, elsewhere, IInv, TablesInv, RestInv
    <1>8. TablesInv' /\ UsersInv' /\ Grows /\ MoneyInv /\ MoneyInv' /\ CallsInv
        BY <1>6, <1>7, BillsMove DEF FlagEth, elsewhere
    <1>9. Stands(call[w], "createPayment", Backed', releasedFor', payment')
        BY <1>1 DEF Stands, AboutPayment, Reported, HasSeen, Editing, PastRelease, Undoing, PastLock
    <1>10. CallsInv'
        BY <1>8, <1>9, GoesOn DEF FlagEth, Pc
    <1>. QED
        BY <1>8, <1>10 DEF IInv, FlagEth

\* The points of a cancelled bill go back.
LEMMA RefundPointsInv ==
    ASSUME IInv, NEW w \in Worker, RefundPoints(w)
    PROVE  IInv'
    <1> DEFINE c == call[w]
               next == AfterPoints(c.op, c.row)
    <1>1. c \in Call /\ c.row \in Row /\ c.bill \in Bill /\ ~Pays(c.op)
        BY CallFacts DEF Stands, Undoing, RefundPoints, At
    <1>2. TablesInv' /\ Grows /\ MoneyInv /\ MoneyInv' /\ CallsInv
        BY TablesStay DEF RefundPoints, elsewhere, IInv, TablesInv
    <1>3. UsersInv'
        <2>1. Renter(w) \in User /\ c.row.points \in Int
            BY <1>1, RowType, RentalAssumption DEF Renter
        <2>. QED
            BY <2>1 DEF RefundPoints, IInv, UsersInv
    <1>4. next \in {"readVoucher", "release"}
        BY <1>1, NextPc
    <1>5. next \in Pc
        BY <1>4 DEF Pc
    <1>6. Stands(c, next, Backed', releasedFor', payment')
        <2> HIDE DEF next, c
        <2>. QED
            BY <1>1, <1>4
            DEF Stands, AboutPayment, Reported, HasSeen, Editing, PastRelease, Undoing, PastLock
    <1>7. CallsInv'
        BY <1>2, <1>5, <1>6, GoesOn DEF RefundPoints
    <1>. QED
        BY <1>2, <1>3, <1>7 DEF IInv, RefundPoints

\* Where a request goes after its release, and that it may.
LEMMA PastReleaseStands ==
    ASSUME NEW c, c.bill \in Bill, NEW pc \in PastRelease, NEW releasedAs,
           Settled(c.row, c.bill, releasedAs), NEW backed, NEW payments
    PROVE  Stands(c, pc, backed, releasedAs, payments) /\ pc \in Pc
    BY DEF Stands, AboutPayment, Reported, HasSeen, Editing, PastRelease, Undoing, PastLock, Pc

\* The escrow is paid out; behind it releasedFor covers the total of the copy.
LEMMA ReleaseInv ==
    ASSUME IInv, NEW w \in Worker, Release(w)
    PROVE  IInv'
    <1> DEFINE c == call[w]
               total == c.row.total
               next == IF c.row.eth THEN "settleChain" ELSE AfterChain(c.op, c.row)
    <1>1. c \in Call /\ c.row \in Row /\ total \in Nat /\ c.bill \in Bill
        BY CallFacts, RowType DEF Stands, Release, At
    <1>2. ASSUME NEW payee, ReleaseFunds(c.bill, total, payee), Goto(w, next)
          PROVE  IInv'
        <2>1. MoneyInv' /\ Grows /\ releasedFor'[c.bill] >= total
            <3> HIDE DEF c, total
            <3>. QED
                BY <1>1, <1>2, ReleaseFundsInv DEF IInv, TablesInv, Release, gatewayVars
        <2>2. TablesInv' /\ UsersInv' /\ MoneyInv /\ CallsInv
            BY <2>1, MoneyMoves DEF Release
        <2>3. next \in PastRelease
            BY DEF PastRelease, AfterChain, Finish
        <2>4. Settled(c.row, c.bill, releasedFor')
            BY <2>1 DEF Settled
        <2> HIDE DEF next
        <2>5. CallsInv'
            BY <1>1, <1>2, <2>1, <2>2, <2>3, <2>4, PastReleaseStands, GoesOn
        <2>. QED
            BY <2>2, <2>5 DEF IInv, Release
    <1>3. CASE Return(w) /\ UNCHANGED moneyVars
        <2>1. TablesInv' /\ UsersInv' /\ Grows /\ MoneyInv /\ MoneyInv' /\ CallsInv
            BY <1>3, OnlyCalls DEF Release, elsewhere
        <2>. QED
            BY <1>3, <2>1, Answers DEF IInv, Release
    <1>. QED
        BY <1>2, <1>3 DEF Release

\* The deposit on the chain follows the wallet, or fails to.
LEMMA SettleChainInv ==
    ASSUME IInv, NEW w \in Worker, SettleChain(w)
    PROVE  IInv'
    <1> DEFINE c == call[w]
               next == AfterChain(c.op, c.row)
    <1>1. c.bill \in Bill /\ Settled(c.row, c.bill, releasedFor)
        BY CallFacts DEF Stands, SettleChain, At, PastRelease
    <1>2. RentalsInv' /\ RestInv'
        <2>1. chain' \in [Bill -> {"None", "Deposited", "Released", "Refunded"}]
            BY DEF SettleChain, IInv, TablesInv, RestInv
        <2>2. Backed' = Backed /\ releasedFor' = releasedFor
            BY BackedSame DEF SettleChain, moneyVars, gatewayVars
        <2>. QED
            BY <2>1, <2>2
            DEF SettleChain, IInv, TablesInv, RentalsInv, RestInv, rentalVars
    <1>3. TablesInv' /\ UsersInv' /\ Grows /\ MoneyInv /\ MoneyInv' /\ CallsInv
        BY <1>2, BillsMove DEF SettleChain
    <1>4. next \in PastRelease
        BY DEF PastRelease, AfterChain, Finish
    <1>5. Settled(c.row, c.bill, releasedFor')
        BY <1>1 DEF SettleChain, moneyVars
    <1> HIDE DEF next
    <1>6. CallsInv'
        BY <1>1, <1>3, <1>4, <1>5, PastReleaseStands, GoesOn DEF SettleChain, next
    <1>. QED
        BY <1>3, <1>6 DEF IInv, SettleChain

\* Points for a completed rental.
LEMMA RewardInv ==
    ASSUME IInv, NEW w \in Worker, Reward(w)
    PROVE  IInv'
    <1> DEFINE c == call[w]
    <1>1. c.row \in Row /\ c.bill \in Bill /\ Settled(c.row, c.bill, releasedFor)
        BY CallFacts DEF Stands, PastRelease, Reward, At
    <1>2. TablesInv' /\ Grows /\ MoneyInv /\ MoneyInv' /\ CallsInv
        BY TablesStay DEF Reward, elsewhere, IInv, TablesInv
    <1>3. UsersInv'
        <2>1. Renter(w) \in User /\ c.row.total \in Nat
            BY <1>1, RowType, RentalAssumption DEF Renter
        <2>2. c.row.total \div 100 \in Int
            BY <2>1
        <2>. QED
            BY <2>1, <2>2 DEF Reward, IInv, UsersInv
    <1>4. "saveVehicles" \in PastRelease /\ Settled(c.row, c.bill, releasedFor')
        BY <1>1 DEF PastRelease, Reward, moneyVars
    <1>5. CallsInv'
        BY <1>1, <1>2, <1>4, PastReleaseStands, GoesOn DEF Reward
    <1>. QED
        BY <1>2, <1>3, <1>5 DEF IInv, Reward

\* The vehicles change and nothing else but requests.
LEMMA VehiclesMove ==
    ASSUME IInv, vehicle' \in [Vehicle -> VehicleRow],
           UNCHANGED <<rentalVars, gatewayVars, usedCount, points, moneyVars, chain, era, cron>>
    PROVE  TablesInv' /\ UsersInv' /\ Grows /\ MoneyInv /\ MoneyInv' /\ CallsInv
    <1>1. Backed' = Backed /\ releasedFor' = releasedFor
        BY BackedSame DEF moneyVars, gatewayVars
    <1>2. RentalsInv' /\ RestInv'
        BY <1>1 DEF IInv, TablesInv, RentalsInv, RestInv, rentalVars
    <1>. QED
        BY <1>2, BillsMove

\* Vehicles become available again.
LEMMA SaveVehiclesInv ==
    ASSUME IInv, NEW w \in Worker, SaveVehicles(w)
    PROVE  IInv'
    <1> DEFINE c == call[w]
    <1>1. /\ c \in Call /\ c.bill \in Bill /\ Settled(c.row, c.bill, releasedFor)
          /\ CallInv(c, Backed, releasedFor, payment)
          /\ c.fleet \in [Vehicle -> VehicleRow] /\ c.todo \subseteq Vehicle
        BY CallFacts, CallType DEF Stands, PastRelease, SaveVehicles, At
    <1>2. vehicle' \in [Vehicle -> VehicleRow]
        <2>1. CASE c.todo = {}
            BY <2>1 DEF SaveVehicles, IInv, TablesInv, RestInv
        <2>2. CASE c.todo # {}
            <3>1. PICK v \in c.todo : vehicle' = [vehicle EXCEPT ![v] =
                     [c.fleet[v] EXCEPT !.available = TRUE,
                                        !.totalRentals = IF Releases(c.op) THEN @ + 1 ELSE @]]
                BY <2>2 DEF SaveVehicles
            <3> DEFINE n == IF Releases(c.op) THEN c.fleet[v].totalRentals + 1
                            ELSE c.fleet[v].totalRentals
                       row == [c.fleet[v] EXCEPT !.available = TRUE, !.totalRentals = n]
            <3>2. c.fleet[v] \in VehicleRow /\ v \in Vehicle
                BY <1>1
            <3>3. n \in Nat
                BY <3>2 DEF VehicleRow
            <3>4. vehicle' = [vehicle EXCEPT ![v] = row]
                BY <3>1, <3>2 DEF VehicleRow
            <3> HIDE DEF n
            <3>5. row \in VehicleRow
                BY <3>2, <3>3 DEF VehicleRow
            <3> HIDE DEF row
            <3>. QED
                BY <3>2, <3>4, <3>5 DEF IInv, TablesInv, RestInv
        <2>. QED
            BY <2>1, <2>2
    <1>3. TablesInv' /\ UsersInv' /\ Grows /\ MoneyInv /\ MoneyInv' /\ CallsInv
        BY <1>2, VehiclesMove DEF SaveVehicles
    <1>4. CASE Goto(w, "save")
        <2>1. "save" \in PastRelease /\ Settled(c.row, c.bill, releasedFor')
            BY <1>1 DEF PastRelease, SaveVehicles, moneyVars
        <2>2. CallsInv'
            BY <1>1, <1>3, <1>4, <2>1, PastReleaseStands, GoesOn
        <2>. QED
            BY <1>3, <2>2 DEF IInv, SaveVehicles
    <1>5. ASSUME NEW v \in c.todo, call' = [call EXCEPT ![w].todo = c.todo \ {v}]
          PROVE  CallsInv'
        <2> DEFINE todo == c.todo \ {v}
                   d == [c EXCEPT !.todo = todo]
        <2>1. call' = [call EXCEPT ![w] = d]
            BY <1>3, <1>5 DEF CallsInv
        <2>2. todo \in SUBSET Vehicle
            BY <1>1
        <2> HIDE DEF todo
        <2>3. /\ d \in Call /\ d.pc = c.pc /\ d.bill = c.bill /\ d.row = c.row /\ d.op = c.op
              /\ d.seen = c.seen /\ d.payment = c.payment
            BY <1>1, <2>2 DEF Call
        <2> HIDE DEF d, c
        <2>4. CallInv(d, Backed, releasedFor, payment)
            BY <1>1, <2>3 DEF CallInv, Stands
        <2>5. CallInv(d, Backed', releasedFor', payment')
            BY <1>3, <2>4, StaysTrue
        <2>. QED
            BY <1>3, <2>1, <2>5, OneCall
    <1>6. Goto(w, "save") \/ \E v \in c.todo : call' = [call EXCEPT ![w].todo = c.todo \ {v}]
        BY DEF SaveVehicles
    <1>. QED
        BY <1>3, <1>4, <1>5, <1>6 DEF IInv, SaveVehicles

\* What a save writes.
LEMMA PersistedRow ==
    ASSUME NEW old \in Row, old.voucher # "unset", NEW row \in Row
    PROVE  LET saved == Persisted(old, row) IN
           /\ saved \in Row /\ saved.voucher # "unset" /\ saved.status = row.status
           /\ saved.progress = row.progress /\ saved.total = row.total
    BY DEF Persisted, Row

\* A save makes no timeout pass.
LEMMA AgedShrinks ==
    ASSUME NEW b, NEW row
    PROVE  \A s \in AgedAfter(b, row) : s \subseteq aged
    BY DEF AgedAfter

\* The row of a request past its release is saved with its details.
LEMMA SavesRow ==
    ASSUME IInv, NEW w \in Worker, call[w].pc \in {"save", "commit"},
           bill' = [bill EXCEPT ![call[w].bill] = Persisted(@, call[w].row)],
           details' = [details EXCEPT ![call[w].bill] = call[w].details],
           aged' \in AgedAfter(call[w].bill, call[w].row),
           UNCHANGED <<moneyVars, payment>>
    PROVE  RentalsInv'
    <1> DEFINE c == call[w]
               saved == Persisted(bill[c.bill], c.row)
    <1>1. /\ c \in Call /\ c.bill \in Bill /\ c.row \in Row /\ c.details \subseteq Vehicle
          /\ Settled(c.row, c.bill, releasedFor) /\ Escrowed(c.row, c.bill, Backed)
        BY CallFacts, CallType DEF CallInv, Stands, PastRelease
    <1>2. bill[c.bill] \in Row /\ bill[c.bill].voucher # "unset"
        BY <1>1 DEF IInv, TablesInv, RentalsInv
    <1>3. /\ saved \in Row /\ saved.voucher # "unset" /\ saved.status = c.row.status
          /\ saved.progress = c.row.progress /\ saved.total = c.row.total
        BY <1>1, <1>2, PersistedRow
    <1>4. bill' = [bill EXCEPT ![c.bill] = saved]
        BY <1>1 DEF IInv, TablesInv, RentalsInv
    <1>5. details' \in [Bill -> SUBSET Vehicle]
        BY <1>1 DEF IInv, TablesInv, RentalsInv
    <1>6. aged' \subseteq Bill
        BY AgedShrinks DEF IInv, TablesInv, RentalsInv
    <1> HIDE DEF saved
    <1>7. Escrowed(saved, c.bill, Backed) /\ Settled(saved, c.bill, releasedFor)
        BY <1>1, <1>3 DEF Escrowed, Settled
    <1> HIDE DEF c
    <1>. QED
        BY <1>1, <1>3, <1>4, <1>5, <1>6, <1>7, WritesBill

\* The whole copy is saved: what it says is covered by escrow rows that never shrink.
LEMMA SaveInv ==
    ASSUME IInv, NEW w \in Worker, Save(w)
    PROVE  IInv'
    <1> DEFINE c == call[w]
    <1>1. c.bill \in Bill
        BY CallFacts DEF Stands, Save, At
    <1>2. RentalsInv'
        <2>1. CASE SavedDetails(c.bill, c.details)
            BY <2>1, SavesRow DEF Save, At, gatewayVars
        <2>2. CASE ~SavedDetails(c.bill, c.details)
            <3>1. Backed' = Backed /\ releasedFor' = releasedFor
                BY BackedSame DEF Save, moneyVars, gatewayVars
            <3>. QED
                BY <2>2, <3>1 DEF Save, IInv, TablesInv, RentalsInv, rentalVars
        <2>. QED
            BY <2>1, <2>2
    <1>3. RestInv'
        BY DEF Save, elsewhere, IInv, TablesInv, RestInv
    <1>4. TablesInv' /\ UsersInv' /\ Grows /\ MoneyInv /\ MoneyInv' /\ CallsInv
        BY <1>2, <1>3, BillsMove DEF Save, elsewhere
    <1>5. CASE Goto(w, "loadForAdd")
        <2>1. Stands(c, "loadForAdd", Backed', releasedFor', payment')
            BY <1>1 DEF Stands, AboutPayment, Reported, HasSeen, Editing, PastRelease, Undoing, PastLock
        <2>2. CallsInv'
            BY <1>4, <1>5, <2>1, GoesOn DEF Pc
        <2>. QED
            BY <1>4, <2>2 DEF IInv, Save
    <1>6. CASE Return(w)
        BY <1>4, <1>6, Answers DEF IInv, Save
    <1>. QED
        BY <1>5, <1>6 DEF Save

\* The transaction of ownerCancel commits.
LEMMA CommitOwnerCancelInv ==
    ASSUME IInv, NEW w \in Worker, CommitOwnerCancel(w)
    PROVE  IInv'
    <1> DEFINE c == call[w]
    <1>1. RentalsInv'
        <2>1. CASE SavedDetails(c.bill, c.details)
            BY <2>1, SavesRow DEF CommitOwnerCancel, At, gatewayVars
        <2>2. CASE ~SavedDetails(c.bill, c.details)
            <3>1. Backed' = Backed /\ releasedFor' = releasedFor
                BY BackedSame DEF CommitOwnerCancel, moneyVars, gatewayVars
            <3>. QED
                BY <2>2, <3>1 DEF CommitOwnerCancel, IInv, TablesInv, RentalsInv, rentalVars
        <2>. QED
            BY <2>1, <2>2
    <1>2. RestInv'
        <2>1. CASE vehicle' = vehicle
            BY <2>1 DEF CommitOwnerCancel, IInv, TablesInv, RestInv
        <2>2. CASE vehicle' = [v \in Vehicle |-> IF v \in c.details
                                 THEN [vehicle[v] EXCEPT !.available = TRUE] ELSE vehicle[v]]
            <3>1. \A v \in Vehicle : [vehicle[v] EXCEPT !.available = TRUE] \in VehicleRow
                BY DEF IInv, TablesInv, RestInv, VehicleRow
            <3>. QED
                BY <2>2, <3>1 DEF CommitOwnerCancel, IInv, TablesInv, RestInv
        <2>. QED
            BY <2>1, <2>2 DEF CommitOwnerCancel
    <1>3. TablesInv' /\ UsersInv' /\ Grows /\ MoneyInv /\ MoneyInv' /\ CallsInv
        BY <1>1, <1>2, BillsMove DEF CommitOwnerCancel
    <1>. QED
        BY <1>3, Answers DEF IInv, CommitOwnerCancel

\* disable and enable save their vehicle.
LEMMA SaveVehicleInv ==
    ASSUME IInv, NEW w \in Worker, SaveVehicle(w)
    PROVE  IInv'
    <1>1. call[w].fleet \in [Vehicle -> VehicleRow]
        BY CallFacts, CallType
    <1>2. vehicle' \in [Vehicle -> VehicleRow]
        BY <1>1 DEF SaveVehicle, IInv, TablesInv, RestInv
    <1>3. TablesInv' /\ UsersInv' /\ Grows /\ MoneyInv /\ MoneyInv' /\ CallsInv
        BY <1>2, VehiclesMove DEF SaveVehicle
    <1>. QED
        BY <1>3, Answers DEF IInv, SaveVehicle

\* Every await of rental-bill.service.ts.
LEMMA BillStepInv ==
    ASSUME IInv, NEW w \in Worker, BillStep(w)
    PROVE  IInv'
    BY LoadForAddInv, InsertDetailInv, RefreshInv, FlagEthInv, RefundPointsInv, ReleaseInv,
       SettleChainInv, RewardInv, SaveVehiclesInv, SaveInv, CommitOwnerCancelInv,
       SaveVehicleInv
    DEF BillStep

-----------------------------------------------------------------------------
\* The cron job, failures, time and the chain.

\* Steps that are no request's: the copies rely on what they relied on.
LEMMA CallsStay ==
    ASSUME CallsInv, MoneyInv, MoneyInv', Grows, UNCHANGED call
    PROVE  CallsInv'
    BY StaysTrue DEF CallsInv

\* The cron job: the rows it saves are those it loaded, CANCELLED.
LEMMA CronStepInv ==
    ASSUME IInv, CronStep
    PROVE  IInv'
    <1>1. /\ PaymentsInv' /\ MoneyInv /\ MoneyInv' /\ Grows
          /\ Backed' = Backed /\ releasedFor' = releasedFor
        BY SamePayments, SameMoney, BackedSame
        DEF IInv, TablesInv, CronStep, CronFind, CronSave, CronEnds, moneyVars, gatewayVars
    <1>2. RestInv' /\ UsersInv' /\ calls' \in 0..MaxCalls
        BY DEF IInv, TablesInv, RestInv, UsersInv, CronStep, CronFind, CronSave, CronEnds
    <1>3. CallsInv'
        BY <1>1, CallsStay DEF IInv, CronStep, CronFind, CronSave, CronEnds
    <1>4. RentalsInv' /\ CronInv'
        <2>1. ASSUME NEW stage \in {"confirmed", "pure"}, CronFind(stage)
              PROVE  RentalsInv' /\ CronInv'
            <3> DEFINE rows == [b \in Bill |-> IF b \in Matching(stage) THEN bill[b] ELSE NoRow]
            <3>1. cron' = [stage |-> stage, todo |-> Matching(stage), row |-> rows]
                BY <2>1 DEF CronFind
            <3>2. /\ rows \in [Bill -> Row]
                  /\ \A b \in Bill : rows[b].voucher # "unset" /\ Escrowed(rows[b], b, Backed)
                BY NoRowTyped, NothingPaid DEF IInv, TablesInv, RentalsInv
            <3>3. Matching(stage) \subseteq Bill
                BY DEF Matching, IInv, TablesInv, RentalsInv
            <3> HIDE DEF rows
            <3>4. CronInv'
                BY <1>1, <3>1, <3>2, <3>3 DEF CronInv, Cron
            <3>5. RentalsInv'
                BY <1>1, <2>1, SameRentals DEF CronFind, IInv, TablesInv
            <3>. QED
                BY <3>4, <3>5
        <2>2. ASSUME CronSave PROVE RentalsInv' /\ CronInv'
            <3>1. PICK b \in cron.todo :
                     /\ bill' = [bill EXCEPT ![b] = [cron.row[b] EXCEPT !.status = "cancelled"]]
                     /\ aged' \in AgedAfter(b, [cron.row[b] EXCEPT !.status = "cancelled"])
                     /\ cron' = [cron EXCEPT !.todo = @ \ {b}, !.row[b] = NoRow]
                BY <2>2 DEF CronSave
            <3> DEFINE row == [cron.row[b] EXCEPT !.status = "cancelled"]
                       rows == [cron.row EXCEPT ![b] = NoRow]
            <3>2. /\ b \in Bill /\ cron.row \in [Bill -> Row] /\ cron.row[b].voucher # "unset"
                  /\ Escrowed(cron.row[b], b, Backed) /\ cron.todo \subseteq Bill
                BY DEF IInv, TablesInv, CronInv, Cron
            <3>3. /\ row \in Row /\ row.voucher # "unset"
                  /\ Escrowed(row, b, Backed) /\ Settled(row, b, releasedFor)
                BY <3>2 DEF Row, Status, Escrowed, Settled
            <3>4. aged' \subseteq Bill
                BY <3>1, AgedShrinks DEF IInv, TablesInv, RentalsInv
            <3>5. details' \in [Bill -> SUBSET Vehicle] /\ UNCHANGED <<moneyVars, payment>>
                BY <2>2 DEF CronSave, IInv, TablesInv, RentalsInv, gatewayVars
            <3>6. RentalsInv'
                <4> HIDE DEF row
                <4>1. bill' = [bill EXCEPT ![b] = row]
                    BY <3>1 DEF row
                <4>. QED
                    BY <3>2, <3>3, <3>4, <3>5, <4>1, WritesBill
            <3>7. /\ rows \in [Bill -> Row]
                  /\ \A x \in Bill : rows[x].voucher # "unset" /\ Escrowed(rows[x], x, Backed)
                BY <3>2, NoRowTyped, NothingPaid DEF IInv, TablesInv, CronInv
            <3>8. cron' = [cron EXCEPT !.todo = @ \ {b}, !.row = rows]
                BY <3>1, <3>2 DEF IInv, TablesInv, CronInv, Cron
            <3> HIDE DEF rows
            <3>9. CronInv'
                BY <1>1, <3>2, <3>7, <3>8 DEF IInv, TablesInv, CronInv, Cron
            <3>. QED
                BY <3>6, <3>9
        <2>3. ASSUME CronEnds PROVE RentalsInv' /\ CronInv'
            <3>1. RentalsInv'
                BY <1>1, <2>3, SameRentals DEF CronEnds, IInv, TablesInv
            <3>2. NoCron \in Cron /\ \A b \in Bill : NoCron.row[b] = NoRow
                BY NoRowTyped DEF NoCron, Cron
            <3>3. CronInv'
                BY <2>3, <3>2, NoRowTyped, NothingPaid DEF CronEnds, CronInv
            <3>. QED
                BY <3>1, <3>3
        <2>. QED
            BY <2>1, <2>2, <2>3 DEF CronStep
    <1>. QED
        BY <1>1, <1>2, <1>3, <1>4 DEF IInv, TablesInv

\* A request dies where it stands.
LEMMA FailInv ==
    ASSUME IInv, NEW w \in Worker, Fail(w)
    PROVE  IInv'
    <1>1. TablesInv' /\ UsersInv' /\ Grows /\ MoneyInv /\ MoneyInv' /\ CallsInv
        BY OnlyCalls DEF Fail
    <1>. QED
        BY <1>1, Answers DEF IInv, Fail

\* Steps of time and of the chain.
LEMMA EnvironmentInv ==
    ASSUME IInv, Tick \/ \E b \in Bill : Age(b) \/ ChainDeposit(b)
    PROVE  IInv'
    <1>1. /\ UNCHANGED <<bill, details, gatewayVars, usedCount, points, moneyVars, call,
                         calls, cron, vehicle>>
          /\ aged' \subseteq Bill
        <2>1. CASE Tick
            BY <2>1 DEF Tick, rentalVars, IInv, TablesInv, RentalsInv
        <2>2. ASSUME NEW b \in Bill, Age(b) PROVE <1>1!1 /\ aged' \subseteq Bill
            BY <2>2 DEF Age, IInv, TablesInv, RentalsInv
        <2>3. ASSUME NEW b \in Bill, ChainDeposit(b) PROVE <1>1!1 /\ aged' \subseteq Bill
            BY <2>3 DEF ChainDeposit, rentalVars, IInv, TablesInv, RentalsInv
        <2>. QED
            BY <2>1, <2>2, <2>3
    <1>2. RentalsInv'
        <2>1. Backed' = Backed /\ releasedFor' = releasedFor
            BY <1>1, BackedSame DEF moneyVars, gatewayVars
        <2>. QED
            BY <1>1, <2>1 DEF IInv, TablesInv, RentalsInv
    <1>3. RestInv'
        <2>1. era' \in Era
            BY DEF Tick, Age, ChainDeposit, IInv, TablesInv, RestInv, Era
        <2>2. chain' \in [Bill -> {"None", "Deposited", "Released", "Refunded"}]
            BY DEF Tick, Age, ChainDeposit, IInv, TablesInv, RestInv
        <2>. QED
            BY <1>1, <2>1, <2>2 DEF IInv, TablesInv, RestInv
    <1>4. TablesInv' /\ UsersInv' /\ Grows /\ MoneyInv /\ MoneyInv' /\ CallsInv
        BY <1>1, <1>2, <1>3, BillsMove
    <1>5. CallsInv'
        BY <1>1, <1>4, CallsStay
    <1>. QED
        BY <1>1, <1>4, <1>5 DEF IInv

-----------------------------------------------------------------------------
\* The invariant and what follows from it.

\* The empty tables.
LEMMA InitIInv == Init => IInv
    <1> SUFFICES ASSUME Init PROVE IInv
        OBVIOUS
    <1>1. RentalsInv
        BY NoRowTyped, NothingPaid DEF Init, RentalsInv, Settled, NoRow
    <1>2. PaymentsInv
        <2>1. NoPayment \in PaymentRow
            BY DEF NoPayment, PaymentRow
        <2>. QED
            BY <2>1 DEF Init, PaymentsInv, NoPayment, PaymentId
    <1>3. MoneyInv
        BY WalletAssumption DEF Init, MoneyInv, Column
    <1>4. RestInv
        BY FirstFleetTyped DEF Init, RestInv, Era
    <1>5. CronInv
        <2>1. NoCron \in Cron /\ \A b \in Bill : NoCron.row[b] = NoRow
            BY NoRowTyped DEF NoCron, Cron
        <2>. QED
            BY <2>1, NoRowTyped, NothingPaid DEF Init, CronInv
    <1>6. UsersInv
        BY RentalAssumption DEF Init, UsersInv
    <1>7. CallsInv
        BY NoCallInv, NoCallTyped DEF Init, CallsInv
    <1>8. calls \in 0..MaxCalls
        BY RentalAssumption DEF Init
    <1>. QED
        BY <1>1, <1>2, <1>3, <1>4, <1>5, <1>6, <1>7, <1>8 DEF IInv, TablesInv

\* Every step.
LEMMA NextIInv == IInv /\ [Next]_vars => IInv'
    <1> SUFFICES ASSUME IInv, [Next]_vars PROVE IInv'
        OBVIOUS
    <1>1. CASE UNCHANGED vars
        <2>1. Backed' = Backed
            BY <1>1, BackedSame DEF vars, moneyVars, gatewayVars
        <2>. QED
            BY <1>1, <2>1
            DEF vars, rentalVars, gatewayVars, moneyVars, IInv, TablesInv, RentalsInv,
                PaymentsInv, UsersInv, MoneyInv, RestInv, CronInv, CallsInv
    <1>2. ASSUME NEW w \in Worker, Start(w) \/ Serve(w) \/ Fail(w)
          PROVE  IInv'
        BY <1>2, StartInv, PaymentStepInv, BillStepInv, FailInv DEF Serve
    <1>3. CASE CronStep
        BY <1>3, CronStepInv
    <1>4. ASSUME NEW p \in PaymentId, CustomerPays(p)
          PROVE  IInv'
        BY <1>4, CustomerPaysInv
    <1>5. CASE Tick \/ \E b \in Bill : Age(b) \/ ChainDeposit(b)
        BY <1>5, EnvironmentInv
    <1>. QED
        BY <1>1, <1>2, <1>3, <1>4, <1>5 DEF Next

\* Every request, however stale its copy, keeps what the others rely on.
THEOREM RentalInvariant == Spec => []IInv
    BY InitIInv, NextIInv, PTL DEF Spec

\* Rows, copies in memory, balances and counters keep their types.
THEOREM RentalTypeCorrect == Spec => []TypeOK
    <1>1. IInv => TypeOK
        BY DEF IInv, TablesInv, RentalsInv, PaymentsInv, UsersInv, MoneyInv, RestInv, CronInv,
               CallsInv, TypeOK
    <1>. QED
        BY <1>1, RentalInvariant, PTL

\* No bill counts as paid and no vehicle is handed over before the escrow.
THEOREM PaidAfterEscrow == Spec => []PaidWasEscrowed
    <1>1. IInv => PaidWasEscrowed
        BY DEF IInv, TablesInv, RentalsInv, Escrowed, Backed, PaidWasEscrowed
    <1>. QED
        BY <1>1, RentalInvariant, PTL

\* No bill is COMPLETED before its total has left the renter's escrow.
THEOREM CompletedAfterRelease == Spec => []CompletedWasReleased
    <1>1. IInv => CompletedWasReleased
        BY DEF IInv, TablesInv, RentalsInv, Settled, CompletedWasReleased
    <1>. QED
        BY <1>1, RentalInvariant, PTL

-----------------------------------------------------------------------------
\* Every step moves the locked column of a renter by what it adds to the LOCK
\* or UNLOCK rows of a bill of this renter, so the column is their difference.

\* The bills of a user, what they still have in escrow, and the invariant
\* with a sum over a function.
BillsOf(u) == {b \in Bill : RenterOf[b] = u}
InEscrow(u) == [b \in BillsOf(u) |-> lockedFor[b] - releasedFor[b]]
LockedSums == \A u \in User : locked[u] = SumOver(InEscrow(u), BillsOf(u))

\* The money of bill b grows by d in the locked column and in the rows alike.
LockedMoves(b, d) ==
    /\ locked' = [locked EXCEPT ![RenterOf[b]] = @ + d]
    /\ \A x \in Bill : lockedFor'[x] - releasedFor'[x] =
          IF x = b THEN lockedFor[x] - releasedFor[x] + d ELSE lockedFor[x] - releasedFor[x]

\* LockedByBills in the form the sums' lemmas speak of.
LEMMA SumsAreBills == LockedSums <=> LockedByBills
    <1>1. ASSUME NEW u \in User
          PROVE  MapThenSumSet(LAMBDA b : lockedFor[b] - releasedFor[b], BillsOf(u)) =
                 SumOver(InEscrow(u), BillsOf(u))
        BY SumOfDifferences DEF InEscrow
    <1>. QED
        BY <1>1 DEF LockedSums, LockedByBills, BillsOf

\* Only LockPayment and Release move locked money.
LEMMA WhoMovesLocked ==
    ASSUME IInv, Next
    PROVE  \/ UNCHANGED <<locked, lockedFor, releasedFor>>
           \/ \E b \in Bill, d \in Int : LockedMoves(b, d)
    <1> DEFINE Same == UNCHANGED <<locked, lockedFor, releasedFor>>
               Moves == \E b \in Bill, d \in Int : LockedMoves(b, d)
    <1>1. ASSUME NEW w \in Worker, Start(w)
          PROVE  Same
        BY <1>1
        DEF Start, Create, AddVehicle, RemoveVehicle, Update, Pay, MomoCreate, Ipn, IpnFailed,
            ConfirmQr, RefundMomo, Delivering, Delivered, Pickup, ReturnRequest, ConfirmReturn,
            Complete, Cancel, OwnerCancel, Disable, Enable, Register, Approve, Request,
            moneyVars
    <1>2. ASSUME NEW w \in Worker, LockPayment(w)
          PROVE  Same \/ Moves
        <2> DEFINE c == call[w]
                   amount == payment[call[w].payment].amount
        <2>1. CASE LockFunds(c.bill, amount)
            <3>1. c.bill \in Bill /\ amount \in Int
                BY <1>2, PaymentFacts DEF AboutPayment, LockPayment, At, PaymentRow
            <3> HIDE DEF c, amount
            <3>2. LockedMoves(c.bill, amount)
                BY <2>1, <3>1 DEF LockFunds, Moved, LockedMoves, IInv, TablesInv, MoneyInv
            <3>. QED
                BY <3>1, <3>2
        <2>2. CASE UNCHANGED moneyVars
            BY <2>2 DEF moneyVars
        <2>. QED
            BY <1>2, <2>1, <2>2 DEF LockPayment
    <1>3. ASSUME NEW w \in Worker, Release(w)
          PROVE  Same \/ Moves
        <2> DEFINE c == call[w]
                   amount == c.row.total
        <2>1. ASSUME NEW payee, ReleaseFunds(c.bill, amount, payee)
              PROVE  Same \/ Moves
            <3>1. c.bill \in Bill /\ amount \in Nat
                BY <1>3, CallFacts, RowType DEF Stands, Release, At
            <3> HIDE DEF c, amount
            <3>2. LockedMoves(c.bill, -amount)
                BY <2>1, <3>1 DEF ReleaseFunds, Moved, LockedMoves, IInv, TablesInv, MoneyInv
            <3>3. -amount \in Int
                BY <3>1
            <3>. QED
                BY <3>1, <3>2, <3>3
        <2>2. CASE UNCHANGED moneyVars
            BY <2>2 DEF moneyVars
        <2>. QED
            BY <1>3, <2>1, <2>2 DEF Release
    <1>4. ASSUME NEW w \in Worker, PaymentStep(w), ~LockPayment(w)
          PROVE  Same
        BY <1>4
        DEF PaymentStep, CreatePayment, AskGateway, MarkFailed, MarkRefused, MarkSuccess,
            LoadRental, DepositPayment, ReadPoints, DeductPoints, ReadVoucher, SaveVoucher,
            Book, FindRefundable, AskRefund, MarkRefunded, moneyVars
    <1>5. ASSUME NEW w \in Worker, BillStep(w), ~Release(w)
          PROVE  Same
        BY <1>5
        DEF BillStep, LoadForAdd, InsertDetail, DeleteDetail, Refresh, FlagEth, RefundPoints,
            SettleChain, Reward, SaveVehicles, Save, CommitOwnerCancel, SaveVehicle, moneyVars
    <1>6. ASSUME NEW w \in Worker, Fail(w)
          PROVE  Same
        BY <1>6 DEF Fail, moneyVars
    <1>7. CASE CronStep
        BY <1>7 DEF CronStep, CronFind, CronSave, CronEnds, moneyVars
    <1>8. CASE Tick \/ (\E b \in Bill : Age(b) \/ ChainDeposit(b))
               \/ \E p \in PaymentId : CustomerPays(p)
        BY <1>8 DEF Tick, Age, ChainDeposit, CustomerPays, moneyVars
    <1>. QED
        BY <1>1, <1>2, <1>3, <1>4, <1>5, <1>6, <1>7, <1>8 DEF Next, Serve

\* The sum over the bills of a user follows the locked column.
LEMMA LockedFollows ==
    ASSUME IInv, LockedSums, IInv', NEW b \in Bill, NEW d \in Int, LockedMoves(b, d)
    PROVE  LockedSums'
    <1> SUFFICES ASSUME NEW u \in User
                 PROVE  locked'[u] = SumOver(InEscrow(u)', BillsOf(u))
        BY DEF LockedSums, BillsOf
    <1> DEFINE S == BillsOf(u)
               f == InEscrow(u)
               g == [x \in S |-> lockedFor'[x] - releasedFor'[x]]
    <1>1. S \subseteq Bill /\ IsFiniteSet(S)
        BY FS_Subset, RentalAssumption DEF BillsOf
    <1>2. InEscrow(u)' = g
        BY DEF InEscrow, BillsOf
    <1>3. \A x \in S : f[x] \in Int /\ g[x] = IF x = b THEN f[x] + d ELSE f[x]
        BY <1>1 DEF LockedMoves, IInv, TablesInv, MoneyInv, InEscrow
    <1>4. locked[u] = SumOver(f, S)
        BY DEF LockedSums
    <1> HIDE DEF f, g
    <1>5. SumOver(g, S) = IF b \in S THEN SumOver(f, S) + d ELSE SumOver(f, S)
        <2> HIDE DEF S
        <2>. QED
            BY <1>1, <1>3, SumMoved
    <1>6. b \in S <=> RenterOf[b] = u
        BY DEF BillsOf
    <1>7. locked'[u] = IF RenterOf[b] = u THEN locked[u] + d ELSE locked[u]
        BY RentalAssumption DEF LockedMoves, IInv, TablesInv, MoneyInv
    <1>. QED
        BY <1>2, <1>4, <1>5, <1>6, <1>7

\* Nothing is locked at first.
LEMMA InitLocked == Init => LockedSums
    <1> SUFFICES ASSUME Init, NEW u \in User
                 PROVE  locked[u] = SumOver(InEscrow(u), BillsOf(u))
        BY DEF LockedSums
    <1> DEFINE S == BillsOf(u)
               f == InEscrow(u)
    <1>1. IsFiniteSet(S) /\ S \subseteq Bill
        BY FS_Subset, RentalAssumption DEF BillsOf
    <1>2. \A x \in S : f[x] = 0
        BY <1>1 DEF Init, InEscrow
    <1> HIDE DEF f
    <1>3. SumOver(f, S) = 0
        <2> HIDE DEF S
        <2>. QED
            BY <1>1, <1>2, SumZero
    <1>. QED
        BY <1>3 DEF Init, f

\* The locked balance of a renter is what the renter's bills have put into
\* escrow and not taken out, through every interleaving and failure.
THEOREM LockedIsByBills == Spec => []LockedByBills
    <1>1. IInv /\ IInv' /\ LockedSums /\ [Next]_vars => LockedSums'
        <2> SUFFICES ASSUME IInv, IInv', LockedSums, [Next]_vars PROVE LockedSums'
            OBVIOUS
        <2>1. CASE UNCHANGED <<locked, lockedFor, releasedFor>>
            BY <2>1 DEF LockedSums, InEscrow, BillsOf
        <2>2. CASE \E b \in Bill, d \in Int : LockedMoves(b, d)
            BY <2>2, LockedFollows
        <2>3. CASE UNCHANGED vars
            BY <2>1, <2>3 DEF vars, moneyVars
        <2>. QED
            BY <2>1, <2>2, <2>3, WhoMovesLocked
    <1>2. Spec => []LockedSums
        BY <1>1, InitLocked, RentalInvariant, PTL DEF Spec
    <1>. QED
        BY <1>2, SumsAreBills, PTL

-----------------------------------------------------------------------------
\* While requests do not overlap, what one of them has read is still so when
\* it acts on it: the points of the renter, the details and the progress of
\* its bill.

OneClient == \A w, x \in Worker : w = x

\* A request that goes on holds what it held.
Holds(new, old) == new.bill = old.bill /\ new.row = old.row /\ new.details = old.details

\* A step of w after which its request is over or stands, with all it held,
\* where nothing is said of what it has seen.
Quiet(w) ==
    \/ call'[w] = NoCall
    \/ /\ Holds(call'[w], call[w])
       /\ call'[w].pc \notin {"deductPoints", "insertDetail"}

\* A request goes on to pc.
LEMMA GoesTo ==
    ASSUME IInv, NEW w \in Worker, NEW pc, Goto(w, pc)
    PROVE  Holds(call'[w], call[w]) /\ call'[w].pc = pc
    <1> DEFINE c == [call[w] EXCEPT !.pc = pc]
    <1>1. call[w] \in Call /\ call \in [Worker -> Call]
        BY DEF IInv, CallsInv
    <1>2. c.pc = pc /\ c.bill = call[w].bill /\ c.row = call[w].row /\ c.details = call[w].details
        BY <1>1 DEF Call
    <1>3. call' = [call EXCEPT ![w] = c]
        BY <1>1 DEF Goto
    <1> HIDE DEF c
    <1>. QED
        BY <1>1, <1>2, <1>3 DEF Holds

\* A request ends, or another is accepted.
LEMMA Ends ==
    ASSUME IInv, NEW w \in Worker
    PROVE  /\ Return(w) => call'[w] = NoCall
           /\ \A c : Accept(w, c) => call'[w] = c
           /\ \A c : call' = [call EXCEPT ![w] = c] => call'[w] = c
    BY DEF IInv, CallsInv, Return, Accept

\* A request that goes on to an await which is none of the two.
LEMMA GoesQuietly ==
    ASSUME IInv, NEW w \in Worker
    PROVE  /\ Return(w) => Quiet(w)
           /\ \A pc : Goto(w, pc) /\ pc \notin {"deductPoints", "insertDetail"} => Quiet(w)
           /\ \A op, row : /\ AfterVoucher(op) \notin {"deductPoints", "insertDetail"}
                           /\ AfterPoints(op, row) \notin {"deductPoints", "insertDetail"}
                           /\ AfterMoney(op, row) \notin {"deductPoints", "insertDetail"}
                           /\ AfterChain(op, row) \notin {"deductPoints", "insertDetail"}
    <1>1. /\ Return(w) => Quiet(w)
          /\ \A pc : Goto(w, pc) /\ pc \notin {"deductPoints", "insertDetail"} => Quiet(w)
        BY GoesTo, Ends DEF Quiet
    <1>2. ASSUME NEW op, NEW row
          PROVE  /\ AfterVoucher(op) \notin {"deductPoints", "insertDetail"}
                 /\ AfterPoints(op, row) \notin {"deductPoints", "insertDetail"}
                 /\ AfterMoney(op, row) \notin {"deductPoints", "insertDetail"}
                 /\ AfterChain(op, row) \notin {"deductPoints", "insertDetail"}
        BY NextPc DEF AfterChain, Finish
    <1>. QED
        BY <1>1, <1>2

\* Awaits that touch neither points nor details nor what the bill says.
LEMMA PaymentQuiet ==
    ASSUME IInv, NEW w \in Worker,
           PaymentStep(w), ~LoadRental(w), ~ReadPoints(w), ~DeductPoints(w), ~Book(w)
    PROVE  Quiet(w) /\ UNCHANGED <<points, details, bill>>
    <1>1. UNCHANGED <<points, details, bill>>
        BY
        DEF PaymentStep, CreatePayment, AskGateway, MarkFailed, MarkRefused, MarkSuccess,
            DepositPayment, LockPayment, ReadVoucher, SaveVoucher, FindRefundable, AskRefund,
            MarkRefunded, rentalVars
    <1> SUFFICES Quiet(w)
        BY <1>1
    <1>2. CASE CreatePayment(w)
        <2>1. CASE Return(w)
            BY <2>1, GoesQuietly
        <2>2. ASSUME NEW p, call' = [call EXCEPT ![w].pc = "askGateway", ![w].payment = p]
              PROVE  Quiet(w)
            <3> DEFINE c == [call[w] EXCEPT !.pc = "askGateway", !.payment = p]
            <3>1. call[w] \in Call /\ call' = [call EXCEPT ![w] = c]
                BY <2>2 DEF IInv, CallsInv
            <3>2. Holds(c, call[w]) /\ c.pc = "askGateway"
                BY <3>1 DEF Call, Holds
            <3> HIDE DEF c
            <3>. QED
                BY <3>1, <3>2, Ends DEF Quiet
        <2>. QED
            BY <1>2, <2>1, <2>2 DEF CreatePayment
    <1>3. CASE AskGateway(w) \/ MarkFailed(w) \/ MarkRefused(w) \/ MarkSuccess(w)
        BY <1>3, GoesQuietly DEF AskGateway, MarkFailed, MarkRefused, MarkSuccess
    <1>4. CASE DepositPayment(w) \/ LockPayment(w) \/ SaveVoucher(w)
        BY <1>4, GoesQuietly DEF DepositPayment, LockPayment, SaveVoucher
    <1>5. CASE ReadVoucher(w)
        <2> DEFINE c == [call[w] EXCEPT !.seen = usedCount, !.pc = "saveVoucher"]
        <2>1. call[w] \in Call /\ call' = [call EXCEPT ![w] = c]
            BY <1>5 DEF ReadVoucher, IInv, CallsInv
        <2>2. Holds(c, call[w]) /\ c.pc = "saveVoucher"
            BY <2>1 DEF Call, Holds
        <2> HIDE DEF c
        <2>. QED
            BY <2>1, <2>2, Ends DEF Quiet
    <1>6. CASE FindRefundable(w)
        <2>1. ASSUME NEW p, NEW pc \in {"askRefund", "markRefunded"},
                     call' = [call EXCEPT ![w].payment = p, ![w].pc = pc]
              PROVE  Quiet(w)
            <3> DEFINE c == [call[w] EXCEPT !.payment = p, !.pc = pc]
            <3>1. call[w] \in Call /\ call' = [call EXCEPT ![w] = c]
                BY <2>1 DEF IInv, CallsInv
            <3>2. Holds(c, call[w]) /\ c.pc = pc
                BY <3>1 DEF Call, Holds
            <3> HIDE DEF c
            <3>. QED
                BY <3>1, <3>2, Ends DEF Quiet
        <2>. QED
            BY <1>6, <2>1, GoesQuietly DEF FindRefundable
    <1>7. CASE AskRefund(w) \/ MarkRefunded(w)
        BY <1>7, GoesQuietly DEF AskRefund, MarkRefunded
    <1>. QED
        BY <1>2, <1>3, <1>4, <1>5, <1>6, <1>7 DEF PaymentStep

\* The same of rental-bill.service.ts, and of failures.
LEMMA BillQuiet ==
    ASSUME IInv, NEW w \in Worker,
           Release(w) \/ SettleChain(w) \/ SaveVehicles(w) \/ SaveVehicle(w) \/ Fail(w)
    PROVE  Quiet(w) /\ UNCHANGED <<points, details, bill>>
    <1>1. UNCHANGED <<points, details, bill>>
        BY DEF Release, SettleChain, SaveVehicles, SaveVehicle, Fail, rentalVars
    <1> SUFFICES Quiet(w)
        BY <1>1
    <1>2. CASE Release(w) \/ SettleChain(w)
        BY <1>2, GoesQuietly DEF Release, SettleChain
    <1>3. CASE SaveVehicles(w)
        <2>1. ASSUME NEW S, call' = [call EXCEPT ![w].todo = S]
              PROVE  Quiet(w)
            <3> DEFINE c == [call[w] EXCEPT !.todo = S]
            <3>1. call[w] \in Call /\ call' = [call EXCEPT ![w] = c] /\ call[w].pc = "saveVehicles"
                BY <1>3, <2>1 DEF IInv, CallsInv, SaveVehicles, At
            <3>2. Holds(c, call[w]) /\ c.pc = "saveVehicles"
                BY <3>1 DEF Call, Holds
            <3> HIDE DEF c
            <3>. QED
                BY <3>1, <3>2, Ends DEF Quiet
        <2>. QED
            BY <1>3, <2>1, GoesQuietly DEF SaveVehicles
    <1>4. CASE SaveVehicle(w) \/ Fail(w)
        BY <1>4, GoesQuietly DEF SaveVehicle, Fail
    <1>. QED
        BY <1>2, <1>3, <1>4

\* Steps that are no request's leave points, details and requests alone.
LEMMA NoRequest ==
    ASSUME Next, ~ \E w \in Worker : Start(w) \/ Serve(w) \/ Fail(w)
    PROVE  UNCHANGED <<points, details, call, vehicle>>
    <1>1. CASE CronStep
        BY <1>1 DEF CronStep, CronFind, CronSave, CronEnds, rentalVars
    <1>2. CASE Tick \/ (\E b \in Bill : Age(b) \/ ChainDeposit(b))
               \/ \E p \in PaymentId : CustomerPays(p)
        BY <1>2 DEF Tick, Age, ChainDeposit, CustomerPays, rentalVars, elsewhere
    <1>. QED
        BY <1>1, <1>2 DEF Next

\* Progress by one step of the handover or to no step of it.
Advances(old, new) == new # old /\ new \in HandedOver => old \in Follows[new]

\* A request that has done nothing but read: its details are on the bill, but
\* for the one to delete, and its row is one step ahead of the bill at most.
Fresh(c) ==
    /\ c.pc \notin {"deductPoints", "insertDetail"}
    /\ c.bill \in Bill /\ c.pc # "deleteDetail" => c.details \subseteq details[c.bill]
    /\ c.bill \in Bill => Advances(bill[c.bill].progress, c.row.progress)

\* No step of the handover is the first one.
LEMMA NoAdvance ==
    ASSUME NEW p
    PROVE  Advances(p, p) /\ Advances(p, "pending") /\ Advances(p, "cancelled")
    BY DEF Advances, HandedOver

\* The handover itself.
LEMMA HandoverAdvances ==
    /\ Advances("booked", "delivering") /\ Advances("delivering", "delivered")
    /\ Advances("delivered", "in_progress") /\ Advances("in_progress", "return_requested")
    /\ Advances("return_requested", "return_confirmed")
    BY DEF Advances, Follows

\* A request that loads nothing when it starts.
LEMMA FreshCall ==
    ASSUME NEW c, c.pc \notin {"deductPoints", "insertDetail"}, c.details = {},
           c.row.progress = "pending"
    PROVE  Fresh(c)
    BY NoAdvance DEF Fresh

\* A request that loads bill b and means to make row of it.
LEMMA FreshLoaded ==
    ASSUME IInv, NEW b \in Bill, NEW c, c.bill = b,
           c.pc \notin {"deductPoints", "insertDetail"},
           c.details = details[b] \/ c.pc = "deleteDetail",
           Advances(bill[b].progress, c.row.progress)
    PROVE  Fresh(c)
    BY DEF Fresh

\* Requests that load nothing.
LEMMA StartsEmpty ==
    ASSUME IInv, NEW w \in Worker,
           \/ MomoCreate(w) \/ Create(w) \/ AddVehicle(w)
           \/ Disable(w) \/ Enable(w) \/ Register(w) \/ Approve(w)
           \/ Ipn(w) \/ IpnFailed(w) \/ ConfirmQr(w) \/ RefundMomo(w)
    PROVE  Fresh(call'[w]) /\ call'[w].row.progress = "pending"
    <1> SUFFICES /\ call'[w].pc \notin {"deductPoints", "insertDetail"} /\ call'[w].details = {}
                 /\ call'[w].row.progress = "pending"
        BY FreshCall
    <1>1. /\ NoCall.details = {} /\ NoCall.row = NoRow /\ NoCall \in Call
          /\ NoRow.progress = "pending" /\ NoRow \in Row
        BY NoCallTyped, NoRowTyped DEF NoCall, NoRow
    <1>2. CASE MomoCreate(w)
        <2>1. PICK b \in Bill, amount \in RawAmount : call'[w] =
                [NoCall EXCEPT !.op = "momoCreate", !.bill = b, !.seen = amount,
                               !.pc = "createPayment", !.row = [NoRow EXCEPT !.method = "momo"]]
            BY <1>2, Ends DEF MomoCreate
        <2>2. [NoRow EXCEPT !.method = "momo"].progress = "pending"
            BY <1>1 DEF Row
        <2>. QED
            BY <1>1, <2>1, <2>2 DEF Call
    <1>3. CASE Create(w) \/ AddVehicle(w)
        <2>1. PICK b \in Bill, op \in {"create", "addVehicle"}, S \in SUBSET Vehicle :
                Accept(w, [NoCall EXCEPT !.op = op, !.bill = b, !.todo = S, !.pc = "loadForAdd"])
            BY <1>3 DEF Create, AddVehicle, Request
        <2>. QED
            BY <1>1, <2>1, Ends DEF Call
    <1>4. CASE Disable(w) \/ Enable(w) \/ Register(w) \/ Approve(w)
        <2>1. \E op, S, fleet : Accept(w, [NoCall EXCEPT !.op = op, !.pc = "saveVehicle",
                                                        !.todo = S, !.fleet = fleet])
            BY <1>4 DEF Disable, Enable, Register, Approve, Request
        <2>2. PICK op, S, fleet : call'[w] =
                [NoCall EXCEPT !.op = op, !.pc = "saveVehicle", !.todo = S, !.fleet = fleet]
            BY <2>1, Ends
        <2>. QED
            BY <1>1, <2>2 DEF Call
    <1>5. CASE Ipn(w) \/ IpnFailed(w) \/ ConfirmQr(w) \/ RefundMomo(w)
        <2>1. PICK op \in {"ipn", "confirmQr", "refundMomo"}, p \in UsedIds,
                   pc \in {"markSuccess", "markRefused", "askRefund"} :
                call'[w] = [NoCall EXCEPT !.op = op, !.bill = payment[p].bill, !.payment = p,
                                          !.pc = pc]
            BY <1>5, Ends DEF Ipn, IpnFailed, ConfirmQr, RefundMomo, PaymentCall
        <2>. QED
            BY <1>1, <2>1 DEF Call
    <1>. QED
        BY <1>2, <1>3, <1>4, <1>5

\* Booking, and payment of what is booked.
LEMMA StartsBooking ==
    ASSUME IInv, NEW w \in Worker, RemoveVehicle(w) \/ Update(w) \/ Pay(w)
    PROVE  Fresh(call'[w])
    <1>1. CASE RemoveVehicle(w)
        <2>1. PICK b \in Bill, v \in Vehicle :
                call'[w] = [Loaded("removeVehicle", b) EXCEPT !.pc = "deleteDetail", !.details = {v}]
            BY <1>1, Ends DEF RemoveVehicle, Request
        <2> DEFINE c == [Loaded("removeVehicle", b) EXCEPT !.pc = "deleteDetail", !.details = {v}]
        <2>2. c.bill = b /\ c.pc = "deleteDetail" /\ c.details = {v} /\ c.row = bill[b]
            BY LoadedType DEF Call, OpName
        <2> HIDE DEF c
        <2>. QED
            BY <2>1, <2>2, FreshLoaded, NoAdvance DEF c
    <1>2. CASE Update(w)
        <2>1. PICK b \in Bill, method \in {"none", "momo", "qr_code"},
                   voucher \in {"keep", "set", "unset"}, pts \in PointChoice \cup {-1} :
                call'[w] = [Loaded("update", b) EXCEPT
                               !.row = Edited(bill[b], details[b], method, voucher, pts)]
            <3>1. PICK b \in Bill, method \in {"none", "momo", "qr_code"},
                       voucher \in {"keep", "set", "unset"}, pts \in PointChoice \cup {-1} :
                    Accept(w, [Loaded("update", b) EXCEPT
                                 !.row = Edited(bill[b], details[b], method, voucher, pts)])
                BY <1>2 DEF Update, Request
            <3>. QED
                BY <3>1, Ends
        <2> DEFINE row == Edited(bill[b], details[b], method, voucher, pts)
                   c == [Loaded("update", b) EXCEPT !.row = row]
        <2>2. row.progress = bill[b].progress
            BY LoadedType DEF Edited, Row, OpName
        <2> HIDE DEF row
        <2>3. c.bill = b /\ c.pc = "save" /\ c.details = details[b] /\ c.row = row
            BY LoadedType DEF Call, OpName
        <2> HIDE DEF c
        <2>. QED
            BY <2>1, <2>2, <2>3, FreshLoaded, NoAdvance DEF c, row
    <1>3. CASE Pay(w)
        <2>1. PICK b \in Bill, pc \in {"flagEth", "createPayment"} :
                call'[w] = [Loaded("pay", b) EXCEPT !.seen = bill[b].total, !.pc = pc]
            BY <1>3, Ends DEF Pay, Request
        <2> DEFINE c == [Loaded("pay", b) EXCEPT !.seen = bill[b].total, !.pc = pc]
        <2>2. c.bill = b /\ c.pc = pc /\ c.details = details[b] /\ c.row = bill[b]
            BY LoadedType DEF Call, OpName
        <2> HIDE DEF c
        <2>. QED
            BY <2>1, <2>2, FreshLoaded, NoAdvance DEF c
    <1>. QED
        BY <1>1, <1>2, <1>3

\* Handover and return.
LEMMA StartsHandover ==
    ASSUME IInv, NEW w \in Worker,
           Delivering(w) \/ Delivered(w) \/ Pickup(w) \/ ReturnRequest(w)
    PROVE  Fresh(call'[w])
    <1>1. CASE Delivering(w) \/ Delivered(w) \/ Pickup(w)
        <2>1. PICK b \in Bill, op \in OpName, p \in HandedOver :
                /\ call'[w] = [Loaded(op, b) EXCEPT !.row.progress = p]
                /\ Advances(bill[b].progress, p)
            BY <1>1, Ends, HandoverAdvances
            DEF Delivering, Delivered, Pickup, Request, OpName, HandedOver
        <2> DEFINE c == [Loaded(op, b) EXCEPT !.row.progress = p]
        <2>2. c.bill = b /\ c.pc = "save" /\ c.details = details[b] /\ c.row.progress = p
            BY LoadedType DEF Call, Row
        <2> HIDE DEF c
        <2>. QED
            BY <2>1, <2>2, FreshLoaded DEF c
    <1>2. CASE ReturnRequest(w)
        <2>1. PICK b \in Bill :
                /\ call'[w] = [Loaded("returnRequest", b) EXCEPT
                       !.row.progress = "return_requested",
                       !.row.overtime = @ \/ (era = 5 /\ details[b] # {})]
                /\ bill[b].progress = "in_progress"
            <3>1. PICK b \in Bill :
                    /\ Accept(w, [Loaded("returnRequest", b) EXCEPT
                           !.row.progress = "return_requested",
                           !.row.overtime = @ \/ (era = 5 /\ details[b] # {})])
                    /\ bill[b].progress = "in_progress"
                BY <1>2 DEF ReturnRequest, Request
            <3>. QED
                BY <3>1, Ends
        <2> DEFINE l == Loaded("returnRequest", b)
                   late == l.row.overtime \/ (era = 5 /\ details[b] # {})
                   c == [l EXCEPT !.row.progress = "return_requested", !.row.overtime = late]
        <2>2. /\ c.bill = b /\ c.pc = "save" /\ c.details = details[b]
              /\ c.row.progress = "return_requested"
            <3>1. /\ l \in Call /\ l.row \in Row
                  /\ l.bill = b /\ l.pc = "save" /\ l.details = details[b]
                BY LoadedType DEF OpName
            <3> HIDE DEF l, late
            <3>. QED
                BY <3>1 DEF Call, Row
        <2> HIDE DEF c
        <2>. QED
            BY <2>1, <2>2, FreshLoaded, HandoverAdvances DEF c
    <1>. QED
        BY <1>1, <1>2

\* A request that settles bill b and means to make row of it.
LEMMA FreshSettling ==
    ASSUME IInv, NEW w \in Worker, NEW b \in Bill, NEW op \in OpName, NEW row,
           NEW start \in {"release", "findRefundable", "saveVehicles"},
           Accept(w, Settling(op, b, row, start)), Advances(bill[b].progress, row.progress)
    PROVE  Fresh(call'[w])
    <1> DEFINE pc == IF bill[b].total > 0 THEN start ELSE Finish(op)
               c == [Loaded(op, b) EXCEPT !.row = row, !.todo = details[b], !.pc = pc]
    <1>1. call'[w] = c
        BY Ends DEF Settling
    <1>2. pc \notin {"deductPoints", "insertDetail"}
        BY DEF Finish
    <1> HIDE DEF pc
    <1>3. c.bill = b /\ c.pc = pc /\ c.details = details[b] /\ c.row = row
        BY LoadedType DEF Call
    <1> HIDE DEF c
    <1>. QED
        BY <1>1, <1>2, <1>3, FreshLoaded

\* Completion and cancellation.
LEMMA StartsSettling ==
    ASSUME IInv, NEW w \in Worker,
           ConfirmReturn(w) \/ Complete(w) \/ Cancel(w) \/ OwnerCancel(w)
    PROVE  Fresh(call'[w])
    <1>1. /\ bill \in [Bill -> Row]
          /\ {"confirmReturn", "complete", "cancel", "ownerCancel"} \subseteq OpName
        BY DEF IInv, TablesInv, RentalsInv, OpName
    <1>2. CASE ConfirmReturn(w)
        <2>1. PICK b \in Bill :
                /\ bill[b].progress = "return_requested"
                /\ Accept(w, Settling("confirmReturn", b,
                      [bill[b] EXCEPT !.progress = "return_confirmed", !.status = "completed"],
                      "release"))
            BY <1>2 DEF ConfirmReturn, Request
        <2> DEFINE row == [bill[b] EXCEPT !.progress = "return_confirmed", !.status = "completed"]
        <2>2. row.progress = "return_confirmed"
            BY <1>1 DEF Row
        <2> HIDE DEF row
        <2>. QED
            BY <1>1, <2>1, <2>2, HandoverAdvances, FreshSettling DEF row
    <1>3. CASE Complete(w)
        <2>1. PICK b \in Bill :
                Accept(w, Settling("complete", b, [bill[b] EXCEPT !.status = "completed"], "release"))
            BY <1>3 DEF Complete, Request
        <2> DEFINE row == [bill[b] EXCEPT !.status = "completed"]
        <2>2. row.progress = bill[b].progress
            BY <1>1 DEF Row
        <2> HIDE DEF row
        <2>. QED
            BY <1>1, <2>1, <2>2, NoAdvance, FreshSettling DEF row
    <1>4. CASE Cancel(w) \/ OwnerCancel(w)
        <2>1. PICK b \in Bill, op \in {"cancel", "ownerCancel"},
                   start \in {"findRefundable", "saveVehicles"} :
                Accept(w, Settling(op, b, CancelledRow(bill[b]), start))
            BY <1>4 DEF Cancel, OwnerCancel, Request
        <2>2. CancelledRow(bill[b]).progress = "cancelled"
            BY <1>1 DEF CancelledRow, Row
        <2>. QED
            BY <1>1, <2>1, <2>2, NoAdvance, FreshSettling
    <1>. QED
        BY <1>2, <1>3, <1>4

\* Whatever is accepted has only read, but for the new row of create.
LEMMA StartsFresh ==
    ASSUME IInv, NEW w \in Worker, Start(w)
    PROVE  /\ Fresh(call'[w]) /\ UNCHANGED <<points, details, vehicle>>
           /\ \/ UNCHANGED bill
              \/ /\ call'[w].row.progress = "pending"
                 /\ \E b \in Bill : bill' = [bill EXCEPT ![b] = NewRow]
    <1>1. Fresh(call'[w])
        BY StartsEmpty, StartsBooking, StartsHandover, StartsSettling DEF Start
    <1>2. /\ UNCHANGED <<points, details, vehicle>>
          /\ ~Create(w) => UNCHANGED bill
        BY
        DEF Start, Create, AddVehicle, RemoveVehicle, Update, Pay, MomoCreate, Ipn, IpnFailed,
            ConfirmQr, RefundMomo, Delivering, Delivered, Pickup, ReturnRequest, ConfirmReturn,
            Complete, Cancel, OwnerCancel, Disable, Enable, Register, Approve, Request,
            elsewhere, rentalVars
    <1>3. CASE Create(w)
        BY <1>1, <1>2, <1>3, StartsEmpty DEF Create
    <1>. QED
        BY <1>1, <1>2, <1>3

\* Awaits that change points, bills or details, and where they lead: all but
\* ReadPoints and LoadForAdd go on quietly or end.
LEMMA WritesQuietly ==
    ASSUME IInv, NEW w \in Worker,
           \/ DeductPoints(w) \/ RefundPoints(w) \/ Reward(w)
           \/ Book(w) \/ FlagEth(w) \/ Save(w) \/ CommitOwnerCancel(w)
           \/ InsertDetail(w) \/ DeleteDetail(w)
    PROVE  Quiet(w)
    <1>1. CASE DeductPoints(w) \/ RefundPoints(w) \/ Reward(w)
        BY <1>1, GoesQuietly DEF DeductPoints, RefundPoints, Reward
    <1>2. CASE Book(w) \/ FlagEth(w) \/ InsertDetail(w) \/ DeleteDetail(w)
        BY <1>2, GoesQuietly DEF Book, FlagEth, InsertDetail, DeleteDetail
    <1>3. CASE Save(w) \/ CommitOwnerCancel(w)
        BY <1>3, GoesQuietly DEF Save, CommitOwnerCancel
    <1>. QED
        BY <1>1, <1>2, <1>3

\* Two awaits read the bill or its details again.
LEMMA ReadsAgain ==
    ASSUME IInv, NEW w \in Worker, LoadRental(w) \/ Refresh(w)
    PROVE  /\ UNCHANGED <<points, details, bill>>
           /\ call'[w].pc \notin {"deductPoints", "insertDetail"}
           /\ call[w].bill \in Bill /\ call'[w].bill = call[w].bill
           /\ call'[w].details \in {call[w].details, details[call[w].bill]}
           /\ Refresh(w) => call'[w].details = details[call[w].bill]
           /\ call'[w].row.progress \in {call[w].row.progress, bill[call[w].bill].progress}
    <1>1. call[w] \in Call /\ call[w].row \in Row /\ call \in [Worker -> Call]
        BY CallFacts DEF IInv, CallsInv
    <1>2. /\ UNCHANGED <<points, details, bill>> /\ call[w].bill \in Bill
        BY CallFacts DEF LoadRental, Refresh, rentalVars, Stands, At
    <1>3. CASE LoadRental(w)
        <2> DEFINE c == [call[w] EXCEPT !.row = bill[call[w].bill], !.pc = "deposit"]
        <2>1. call' = [call EXCEPT ![w] = c]
            BY <1>1, <1>3 DEF LoadRental
        <2>2. /\ c.pc = "deposit" /\ c.bill = call[w].bill /\ c.details = call[w].details
              /\ c.row = bill[call[w].bill]
            BY <1>1 DEF Call
        <2> HIDE DEF c
        <2>. QED
            BY <1>2, <1>3, <2>1, <2>2, Ends DEF LoadRental, Refresh, At
    <1>4. CASE Refresh(w)
        <2> DEFINE b == call[w].bill
                   c == [call[w] EXCEPT !.details = details[b], !.pc = "save",
                                        !.row.total = Total(call[w].row, details[b])]
        <2>1. call' = [call EXCEPT ![w] = c]
            BY <1>4 DEF Refresh
        <2>2. /\ c.pc = "save" /\ c.bill = b /\ c.details = details[b]
              /\ c.row.progress = call[w].row.progress
            BY <1>1 DEF Call, Row
        <2> HIDE DEF c
        <2>. QED
            BY <1>2, <2>1, <2>2, Ends
    <1>. QED
        BY <1>3, <1>4

\* The read before a deduction.
LEMMA ReadPointsHolds ==
    ASSUME IInv, NEW w \in Worker, ReadPoints(w)
    PROVE  /\ UNCHANGED <<points, details, bill>> /\ Holds(call'[w], call[w])
           /\ call[w].bill \in Bill
           /\ call'[w].pc = "deductPoints" /\ call'[w].seen = points[RenterOf[call[w].bill]]
    <1> DEFINE seen == points[RenterOf[call[w].bill]]
               c == [call[w] EXCEPT !.pc = "deductPoints", !.seen = seen]
    <1>1. call[w] \in Call /\ call \in [Worker -> Call]
        BY DEF IInv, CallsInv
    <1>2. UNCHANGED <<points, details, bill>> /\ call[w].bill \in Bill
        BY CallFacts DEF ReadPoints, rentalVars, Stands, At
    <1>3. call' = [call EXCEPT ![w] = c]
        BY <1>1 DEF ReadPoints, Renter
    <1> HIDE DEF seen
    <1>4. Holds(c, call[w]) /\ c.pc = "deductPoints" /\ c.seen = seen
        BY <1>1 DEF Call, Holds
    <1> HIDE DEF c
    <1>. QED
        BY <1>2, <1>3, <1>4, Ends DEF seen

\* addVehicleToBill found the vehicle v fit for the bill, or threw.
LEMMA LoadsForAdd ==
    ASSUME IInv, NEW w \in Worker, LoadForAdd(w)
    PROVE  /\ UNCHANGED <<points, details, bill, vehicle>>
           /\ \/ Quiet(w)
              \/ \E v \in Vehicle :
                    /\ call[w].bill \in Bill
                    /\ call'[w].bill = call[w].bill /\ call'[w].pc = "insertDetail"
                    /\ call'[w].details = {v} /\ call'[w].row = bill[call[w].bill]
                    /\ \/ details[call[w].bill] = {}
                       \/ \E x \in details[call[w].bill] : vehicle[x].contract = vehicle[v].contract
    <1>1. call[w] \in Call /\ call[w].bill \in Bill /\ call[w].todo \subseteq Vehicle
        BY CallFacts, CallType DEF Stands, LoadForAdd, At
    <1>2. UNCHANGED <<points, details, bill, vehicle>>
        BY DEF LoadForAdd, rentalVars, elsewhere
    <1>3. ASSUME NEW v \in call[w].todo,
                 call' = [call EXCEPT ![w] =
                   [Loaded(call[w].op, call[w].bill) EXCEPT !.pc = "insertDetail",
                       !.todo = call[w].todo \ {v}, !.details = {v}]]
          PROVE  /\ call'[w].bill = call[w].bill /\ call'[w].pc = "insertDetail"
                 /\ call'[w].details = {v} /\ call'[w].row = bill[call[w].bill]
        <2> DEFINE l == Loaded(call[w].op, call[w].bill)
                   c == [l EXCEPT !.pc = "insertDetail", !.todo = call[w].todo \ {v},
                                  !.details = {v}]
        <2>1. l \in Call /\ l.bill = call[w].bill /\ l.row = bill[call[w].bill]
            BY <1>1, LoadedType, CallType
        <2> HIDE DEF l
        <2>2. /\ c.bill = call[w].bill /\ c.pc = "insertDetail" /\ c.details = {v}
              /\ c.row = bill[call[w].bill]
            BY <2>1 DEF Call
        <2>3. call' = [call EXCEPT ![w] = c]
            BY <1>3 DEF l
        <2> HIDE DEF c
        <2>. QED
            BY <2>2, <2>3, Ends
    <1>. QED
        BY <1>1, <1>2, <1>3, GoesQuietly DEF LoadForAdd

-----------------------------------------------------------------------------
\* Travel points: what a payment is about to deduct the user still has.

PointsInv ==
    /\ PointsCover
    /\ \A w \in Worker : At(w, "deductPoints") => call[w].seen <= points[Renter(w)]

\* The awaits that write points.
LEMMA PointsMove ==
    ASSUME OneClient, IInv, PointsInv, NEW w \in Worker,
           DeductPoints(w) \/ RefundPoints(w) \/ Reward(w)
    PROVE  PointsCover'
    <1> DEFINE c == call[w]
               u == RenterOf[c.bill]
    <1>1. /\ c \in Call /\ points \in [User -> Int] /\ c.bill \in Bill /\ u \in User
          /\ c.seen \in Int /\ c.row.points \in Nat /\ c.row.total \in Nat
        BY CallFacts, CallType, RowType, RentalAssumption
        DEF Stands, At, DeductPoints, RefundPoints, Reward, IInv, UsersInv
    <1>2. CASE DeductPoints(w)
        <2>1. c.seen <= points[u] /\ points[u] >= 0
            BY <1>1, <1>2 DEF PointsInv, PointsCover, DeductPoints, Renter
        <2> DEFINE wanted == IF c.seen < c.row.points THEN c.seen ELSE c.row.points
        <2>2. wanted \in Int /\ wanted <= c.seen
            BY <1>1
        <2>3. points' = [points EXCEPT ![u] = IF wanted > 0 THEN @ - wanted ELSE @]
            BY <1>2 DEF DeductPoints, Renter
        <2> HIDE DEF wanted
        <2>. QED
            BY <1>1, <2>1, <2>2, <2>3 DEF PointsInv, PointsCover
    <1>3. CASE RefundPoints(w) \/ Reward(w)
        <2>1. PICK d \in Nat : points' = [points EXCEPT ![u] = @ + d]
            <3>1. c.row.total \div 100 \in Nat
                BY <1>1
            <3>. QED
                BY <1>1, <1>3, <3>1 DEF RefundPoints, Reward, Renter
        <2>. QED
            BY <1>1, <2>1 DEF PointsInv, PointsCover
    <1>. QED
        BY <1>2, <1>3

\* Every step of a system with one worker.
LEMMA NextPoints == OneClient /\ IInv /\ PointsInv /\ [Next]_vars => PointsInv'
    <1> SUFFICES ASSUME OneClient, IInv, PointsInv, [Next]_vars PROVE PointsInv'
        OBVIOUS
    <1>1. CASE UNCHANGED <<points, call>>
        BY <1>1 DEF PointsInv, PointsCover, At, Renter
    <1>2. ASSUME NEW w \in Worker, call'[w].pc # "deductPoints", PointsCover' PROVE PointsInv'
        BY <1>2 DEF OneClient, PointsInv, At
    <1>3. ASSUME UNCHANGED points PROVE PointsCover'
        BY <1>3 DEF PointsInv, PointsCover
    <1>4. ASSUME NEW w \in Worker, Start(w) PROVE PointsInv'
        BY <1>2, <1>3, <1>4, StartsFresh DEF Fresh
    <1>5. NoCall.pc = "idle"
        BY DEF NoCall
    <1>6. ASSUME NEW w \in Worker, Quiet(w), PointsCover' PROVE PointsInv'
        BY <1>2, <1>5, <1>6 DEF Quiet
    <1>7. ASSUME NEW w \in Worker, ReadPoints(w) PROVE PointsInv'
        <2>1. points \in [User -> Int] /\ RenterOf[call[w].bill] \in User
            BY <1>7, ReadPointsHolds, RentalAssumption DEF IInv, UsersInv
        <2>. QED
            BY <1>3, <1>7, <2>1, ReadPointsHolds DEF Holds, PointsInv, OneClient, Renter, At
    <1>8. ASSUME NEW w \in Worker, LoadForAdd(w) PROVE PointsInv'
        BY <1>2, <1>3, <1>6, <1>8, LoadsForAdd
    <1>9. ASSUME NEW w \in Worker, LoadRental(w) \/ Refresh(w) PROVE PointsInv'
        BY <1>2, <1>3, <1>9, ReadsAgain
    <1>10. ASSUME NEW w \in Worker, DeductPoints(w) \/ RefundPoints(w) \/ Reward(w)
           PROVE  PointsInv'
        BY <1>6, <1>10, WritesQuietly, PointsMove
    <1>11. ASSUME NEW w \in Worker,
                  \/ Book(w) \/ FlagEth(w) \/ Save(w) \/ CommitOwnerCancel(w)
                  \/ InsertDetail(w) \/ DeleteDetail(w)
           PROVE  PointsInv'
        <2>1. UNCHANGED points
            BY <1>11 DEF Book, FlagEth, Save, CommitOwnerCancel, InsertDetail, DeleteDetail
        <2>. QED
            BY <1>3, <1>6, <1>11, <2>1, WritesQuietly
    <1>12. ASSUME NEW w \in Worker, Serve(w) \/ Fail(w) PROVE PointsInv'
        BY <1>3, <1>6, <1>7, <1>8, <1>9, <1>10, <1>11, <1>12, PaymentQuiet, BillQuiet
        DEF Serve, BillStep
    <1>13. CASE UNCHANGED vars
        BY <1>1, <1>13 DEF vars
    <1>. QED
        BY <1>1, <1>4, <1>12, <1>13, NoRequest

\* The points of a user never become negative while requests do not overlap,
\* whatever fails: what a payment deducts is limited by what it has read.
THEOREM PointsAlwaysCover == OneClient => (Spec => []PointsCover)
    <1> SUFFICES ASSUME OneClient PROVE Spec => []PointsCover
        OBVIOUS
    <1>1. Init => PointsInv
        BY RentalAssumption DEF Init, PointsInv, PointsCover, At, NoCall
    <1>2. PointsInv => PointsCover
        BY DEF PointsInv
    <1>3. IInv /\ PointsInv /\ [Next]_vars => PointsInv'
        BY NextPoints
    <1>. QED
        BY <1>1, <1>2, <1>3, RentalInvariant, PTL DEF Spec

-----------------------------------------------------------------------------
\* Owners: the details a request will save are on its bill, and the vehicle
\* it is about to insert belongs to the owner of those that are there.

OwnedBy(v, x) == OwnerOf[vehicle[v].contract] = OwnerOf[vehicle[x].contract]

OwnersInv ==
    \A w \in Worker : LET c == call[w] IN c.bill \in Bill =>
       /\ c.pc \notin Editing => c.details \subseteq details[c.bill]
       /\ c.pc = "insertDetail" => \E v \in Vehicle :
             /\ c.details = {v}
             /\ SameOwner(c.bill) => \A x \in details[c.bill] : OwnedBy(v, x)

\* A step that inserts or deletes no detail ends no bill's one owner but by a
\* change of contract.
LEMMA SameDetails ==
    ASSUME UNCHANGED details
    PROVE  OwnersKept
    BY DEF OwnersKept, SameOwner

\* A step of the one worker.
LEMMA OwnersStep ==
    ASSUME OneClient, NEW w \in Worker, call'[w].pc # "insertDetail",
           call'[w].bill \in Bill /\ call'[w].pc \notin Editing =>
               call'[w].details \subseteq details'[call'[w].bill]
    PROVE  OwnersInv'
    BY DEF OneClient, OwnersInv

\* A request that goes on with the details it had, which are still on the bill.
LEMMA OwnersQuiet ==
    ASSUME OneClient, NEW w \in Worker, Quiet(w),
           call[w].bill \in Bill /\ call'[w].pc \notin Editing =>
               call[w].details \subseteq details'[call[w].bill]
    PROVE  OwnersInv'
    <1>1. NoCall.pc = "idle" /\ NoCall.details = {}
        BY DEF NoCall
    <1>. QED
        BY <1>1, OwnersStep DEF Quiet, Holds

\* The details of bill b become S, which has one owner if they had.
LEMMA OwnersWritten ==
    ASSUME IInv, NEW b \in Bill, NEW S, details' = [details EXCEPT ![b] = S],
           \A v \in S \cap details[b] : vehicle'[v].contract = vehicle[v].contract,
           SameOwner(b) => \A v, x \in S :
               OwnerOf[vehicle'[v].contract] = OwnerOf[vehicle'[x].contract]
    PROVE  OwnersKept
    <1>1. details'[b] = S /\ \A x \in Bill : x # b => details'[x] = details[x]
        BY DEF IInv, TablesInv, RentalsInv
    <1>. QED
        BY <1>1 DEF OwnersKept, SameOwner

\* The awaits that write details.
LEMMA DetailsOfOneOwner ==
    ASSUME OneClient, IInv, OwnersInv, NEW w \in Worker,
           InsertDetail(w) \/ DeleteDetail(w) \/ Save(w) \/ CommitOwnerCancel(w)
    PROVE  OwnersInv' /\ OwnersKept
    <1> DEFINE b == call[w].bill
               S == call[w].details
    <1>1. /\ b \in Bill /\ details \in [Bill -> SUBSET Vehicle]
          /\ call[w].pc \in {"insertDetail", "deleteDetail", "save", "commit"}
        BY CallFacts
        DEF Stands, InsertDetail, DeleteDetail, Save, CommitOwnerCancel, At, IInv, TablesInv,
            RentalsInv
    <1>2. Quiet(w)
        BY WritesQuietly
    <1>3. CASE InsertDetail(w)
        <2>1. PICK v \in Vehicle :
                 S = {v} /\ (SameOwner(b) => \A x \in details[b] : OwnedBy(v, x))
            BY <1>1, <1>3 DEF OwnersInv, InsertDetail, At
        <2>2. /\ details' = [details EXCEPT ![b] = details[b] \cup {v}]
              /\ vehicle' = vehicle
            BY <1>3, <2>1 DEF InsertDetail, elsewhere
        <2>3. OwnersKept
            <3>1. SameOwner(b) => \A y, x \in details[b] \cup {v} :
                      OwnerOf[vehicle'[y].contract] = OwnerOf[vehicle'[x].contract]
                BY <2>1, <2>2 DEF OwnedBy, SameOwner
            <3>. QED
                BY <1>1, <2>2, <3>1, OwnersWritten
        <2>4. call'[w].pc \in Editing
            BY <1>3, GoesTo DEF InsertDetail, Editing
        <2>. QED
            BY <1>2, <2>3, <2>4, OwnersQuiet
    <1>4. CASE DeleteDetail(w)
        <2>1. details' = [details EXCEPT ![b] = details[b] \ S] /\ vehicle' = vehicle
            BY <1>4 DEF DeleteDetail, elsewhere
        <2>2. OwnersKept
            BY <1>1, <2>1, OwnersWritten DEF SameOwner
        <2>3. call'[w].pc \in Editing
            BY <1>4, GoesTo DEF DeleteDetail, Editing
        <2>. QED
            BY <1>2, <2>2, <2>3, OwnersQuiet
    <1>5. CASE Save(w) \/ CommitOwnerCancel(w)
        <2>1. S \subseteq details[b] /\ call[w].pc \in {"save", "commit"}
            BY <1>1, <1>5 DEF OwnersInv, Save, CommitOwnerCancel, At, Editing
        <2>2. CASE UNCHANGED details
            BY <1>2, <2>1, <2>2, SameDetails, OwnersQuiet
        <2>3. CASE details' = [details EXCEPT ![b] = S]
            <3>1. \A v \in Vehicle : vehicle'[v].contract = vehicle[v].contract
                BY <1>5 DEF Save, CommitOwnerCancel, elsewhere, IInv, TablesInv, RestInv, VehicleRow
            <3>2. details'[b] = S /\ S \subseteq Vehicle
                BY <1>1, <2>1, <2>3
            <3>3. SameOwner(b) => \A v, x \in S :
                     OwnerOf[vehicle'[v].contract] = OwnerOf[vehicle'[x].contract]
                BY <2>1, <3>1, <3>2 DEF SameOwner
            <3>4. \A v \in S \cap details[b] : vehicle'[v].contract = vehicle[v].contract
                BY <3>1, <3>2
            <3> HIDE DEF b, S
            <3>5. OwnersKept
                BY <1>1, <2>3, <3>3, <3>4, OwnersWritten
            <3>. QED
                BY <1>2, <3>2, <3>5, OwnersQuiet DEF b, S
        <2>. QED
            BY <1>5, <2>2, <2>3 DEF Save, CommitOwnerCancel, rentalVars
    <1>. QED
        BY <1>3, <1>4, <1>5

\* Every step of a system with one worker.
LEMMA NextOwners ==
    OneClient /\ IInv /\ OwnersInv /\ [Next]_vars => OwnersInv' /\ [OwnersKept]_vars
    <1> SUFFICES ASSUME OneClient, IInv, OwnersInv, [Next]_vars
                 PROVE  OwnersInv' /\ [OwnersKept]_vars
        OBVIOUS
    <1>1. CASE UNCHANGED <<details, call, vehicle>>
        BY <1>1, SameDetails DEF OwnersInv, SameOwner, OwnedBy
    <1>2. ASSUME NEW w \in Worker, Start(w) PROVE OwnersInv' /\ OwnersKept
        BY <1>2, StartsFresh, SameDetails, OwnersStep DEF Fresh, Editing
    <1>3. ASSUME NEW w \in Worker, Quiet(w), UNCHANGED details,
                 call[w].pc \notin Editing \/ call'[w] = NoCall
          PROVE  OwnersInv' /\ OwnersKept
        <2>1. NoCall.pc = "idle" /\ NoCall.details = {}
            BY DEF NoCall
        <2>. QED
            BY <1>3, <2>1, SameDetails, OwnersQuiet, OwnersStep DEF OwnersInv
    <1>4. ASSUME NEW w \in Worker, ReadPoints(w) PROVE OwnersInv' /\ OwnersKept
        <2>1. call[w].pc \notin Editing
            BY <1>4 DEF ReadPoints, At, Editing
        <2>. QED
            BY <1>4, <2>1, ReadPointsHolds, SameDetails, OwnersStep DEF Holds, OwnersInv
    <1>5. ASSUME NEW w \in Worker, LoadForAdd(w) PROVE OwnersInv' /\ OwnersKept
        <2>1. call[w].pc \notin Editing /\ UNCHANGED <<details, vehicle>>
            BY <1>5, LoadsForAdd DEF LoadForAdd, At, Editing
        <2>2. CASE Quiet(w)
            BY <1>3, <2>1, <2>2
        <2>3. ASSUME NEW v \in Vehicle, NEW b \in Bill, call'[w].bill = b,
                     call'[w].pc = "insertDetail", call'[w].details = {v},
                     \/ details[b] = {}
                     \/ \E x \in details[b] : vehicle[x].contract = vehicle[v].contract
              PROVE  OwnersInv'
            <3>1. SameOwner(b) => \A x \in details[b] : OwnedBy(v, x)
                BY <2>3 DEF SameOwner, OwnedBy
            <3>2. SameOwner(b)' => \A x \in details'[b] : OwnedBy(v, x)'
                BY <2>1, <3>1 DEF SameOwner, OwnedBy
            <3>. QED
                BY <2>3, <3>2 DEF OneClient, OwnersInv, Editing
        <2>. QED
            BY <1>5, <2>1, <2>2, <2>3, LoadsForAdd, SameDetails
    <1>6. ASSUME NEW w \in Worker, LoadRental(w) \/ Refresh(w) PROVE OwnersInv' /\ OwnersKept
        <2>1. /\ call'[w].details \subseteq details[call[w].bill] /\ UNCHANGED details
              /\ call'[w].pc # "insertDetail" /\ call'[w].bill = call[w].bill
            <3>1. call[w].pc \notin Editing \/ call'[w].details = details[call[w].bill]
                <4>1. LoadRental(w) => call[w].pc \notin Editing
                    BY DEF LoadRental, At, Editing
                <4>. QED
                    BY <1>6, <4>1, ReadsAgain
            <3>. QED
                BY <1>6, <3>1, ReadsAgain DEF OwnersInv
        <2>. QED
            BY <2>1, SameDetails, OwnersStep
    <1>7. ASSUME NEW w \in Worker,
                 \/ DeductPoints(w) \/ RefundPoints(w) \/ Reward(w) \/ Book(w) \/ FlagEth(w)
          PROVE  OwnersInv' /\ OwnersKept
        <2>1. UNCHANGED details /\ call[w].pc \notin Editing
            BY <1>7
            DEF DeductPoints, RefundPoints, Reward, Book, FlagEth, rentalVars, At, Editing
        <2>. QED
            BY <1>3, <1>7, <2>1, WritesQuietly
    <1>8. ASSUME NEW w \in Worker,
                 InsertDetail(w) \/ DeleteDetail(w) \/ Save(w) \/ CommitOwnerCancel(w)
          PROVE  OwnersInv' /\ OwnersKept
        BY <1>8, DetailsOfOneOwner
    <1>9. ASSUME NEW w \in Worker,
                 PaymentStep(w), ~LoadRental(w), ~ReadPoints(w), ~DeductPoints(w), ~Book(w)
          PROVE  OwnersInv' /\ OwnersKept
        <2>1. call[w].pc \notin Editing
            BY <1>9
            DEF PaymentStep, CreatePayment, AskGateway, MarkFailed, MarkRefused, MarkSuccess,
                DepositPayment, LockPayment, ReadVoucher, SaveVoucher, FindRefundable,
                AskRefund, MarkRefunded, At, Editing
        <2>. QED
            BY <1>3, <1>9, <2>1, PaymentQuiet
    <1>10. ASSUME NEW w \in Worker,
                  Release(w) \/ SettleChain(w) \/ SaveVehicles(w) \/ SaveVehicle(w) \/ Fail(w)
           PROVE  OwnersInv' /\ OwnersKept
        <2>1. call[w].pc \notin Editing \/ call'[w] = NoCall
            BY <1>10, Ends
            DEF Release, SettleChain, SaveVehicles, SaveVehicle, Fail, At, Editing
        <2>. QED
            BY <1>3, <1>10, <2>1, BillQuiet
    <1>11. ASSUME NEW w \in Worker, Serve(w) \/ Fail(w) PROVE OwnersInv' /\ OwnersKept
        BY <1>4, <1>5, <1>6, <1>7, <1>8, <1>9, <1>10, <1>11 DEF Serve, BillStep
    <1>12. CASE UNCHANGED vars
        BY <1>1, <1>12 DEF vars, rentalVars
    <1>. QED
        BY <1>1, <1>2, <1>11, <1>12, NoRequest

\* All vehicles of a bill have one owner while requests do not overlap, so the
\* owner of any one, who is paid, is the owner of all, until a plate on the
\* bill is registered again under another contract.
THEOREM VehiclesOfOneOwner == OneClient => (Spec => OneOwner)
    <1> SUFFICES ASSUME OneClient PROVE Spec => OneOwner
        OBVIOUS
    <1>1. Init => OwnersInv
        BY DEF Init, OwnersInv, NoCall
    <1>2. IInv /\ OwnersInv /\ [Next]_vars => OwnersInv' /\ [OwnersKept]_vars
        BY NextOwners
    <1>. QED
        BY <1>1, <1>2, RentalInvariant, PTL DEF Spec, OneOwner

-----------------------------------------------------------------------------
\* The handover: the row a request means to save is one step ahead of its
\* bill, or makes no step.  The cron job saves rows it read before, so it
\* counts as a request that overlaps.

CronRests == \A e \in Era : "cron" \notin Op[e]

FlowInv ==
    \A w \in Worker :
        call[w].bill \in Bill => Advances(bill[call[w].bill].progress, call[w].row.progress)

\* A step of the one worker.
LEMMA FlowStep ==
    ASSUME OneClient, NEW w \in Worker,
           call'[w].bill \in Bill => Advances(bill'[call'[w].bill].progress, call'[w].row.progress)
    PROVE  FlowInv'
    BY DEF OneClient, FlowInv

\* A step that changes the progress of no bill.
LEMMA SameProgress ==
    ASSUME \A b \in Bill : bill'[b].progress = bill[b].progress
    PROVE  StepByStep
    BY DEF StepByStep

\* A bill b is given a row that is a step ahead, or none.
LEMMA BillAdvances ==
    ASSUME IInv, NEW b \in Bill, NEW row, bill' = [bill EXCEPT ![b] = row],
           Advances(bill[b].progress, row.progress)
    PROVE  StepByStep /\ bill'[b] = row
    BY DEF StepByStep, Advances, IInv, TablesInv, RentalsInv

\* The awaits that write bills, and the state of their request after them.
LEMMA BillsAdvance ==
    ASSUME OneClient, IInv, FlowInv, NEW w \in Worker,
           Book(w) \/ FlagEth(w) \/ Save(w) \/ CommitOwnerCancel(w)
    PROVE  StepByStep /\ FlowInv'
    <1> DEFINE b == call[w].bill
               row == call[w].row
    <1>1. /\ b \in Bill /\ bill[b] \in Row /\ row \in Row /\ bill \in [Bill -> Row]
          /\ Advances(bill[b].progress, row.progress)
        BY CallFacts
        DEF Stands, Book, FlagEth, Save, CommitOwnerCancel, At, FlowInv, IInv, TablesInv,
            RentalsInv
    <1>2. Quiet(w)
        BY WritesQuietly
    <1>3. NoCall.row.progress = "pending"
        BY DEF NoCall, NoRow
    <1>4. ASSUME Holds(call'[w], call[w]) => Advances(bill'[b].progress, row.progress)
          PROVE  FlowInv'
        BY <1>2, <1>3, <1>4, NoAdvance, FlowStep DEF Quiet, Holds
    <1>5. CASE Book(w)
        <2> DEFINE new == [bill[b] EXCEPT !.status = "paid", !.progress = "booked"]
        <2>1. bill' = [bill EXCEPT ![b] = new]
            BY <1>1, <1>5 DEF Book
        <2>2. new.progress = "booked"
            BY <1>1 DEF Row
        <2> HIDE DEF new
        <2>3. Advances(bill[b].progress, new.progress)
            BY <2>2 DEF Advances, HandedOver
        <2>4. call'[w] = NoCall
            BY <1>5, Ends DEF Book
        <2>5. FlowInv'
            BY <1>3, <2>4, NoAdvance, FlowStep
        <2>. QED
            BY <1>1, <2>1, <2>3, <2>5, BillAdvances
    <1>6. CASE FlagEth(w)
        <2> DEFINE new == [bill[b] EXCEPT !.eth = TRUE]
        <2>1. bill' = [bill EXCEPT ![b] = new]
            BY <1>1, <1>6 DEF FlagEth
        <2>2. new.progress = bill[b].progress
            BY <1>1 DEF Row
        <2> HIDE DEF new
        <2>3. StepByStep /\ bill'[b] = new
            BY <1>1, <2>1, <2>2, NoAdvance, BillAdvances
        <2>. QED
            BY <1>1, <1>4, <2>2, <2>3
    <1>7. CASE Save(w) \/ CommitOwnerCancel(w)
        <2>1. CASE UNCHANGED bill
            BY <1>1, <1>4, <2>1, SameProgress
        <2>2. CASE bill' = [bill EXCEPT ![b] = Persisted(bill[b], row)]
            <3>1. Persisted(bill[b], row).progress = row.progress
                BY <1>1 DEF Persisted, Row
            <3>2. StepByStep /\ bill'[b] = Persisted(bill[b], row)
                BY <1>1, <2>2, <3>1, BillAdvances
            <3>. QED
                BY <1>4, <3>1, <3>2, NoAdvance
        <2>. QED
            BY <1>7, <2>1, <2>2 DEF Save, CommitOwnerCancel, rentalVars
    <1>. QED
        BY <1>5, <1>6, <1>7

\* Every step of a system with one worker whose cron job does not run.
LEMMA NextFlow ==
    OneClient /\ CronRests /\ IInv /\ FlowInv /\ [Next]_vars => FlowInv' /\ [StepByStep]_vars
    <1> SUFFICES ASSUME OneClient, CronRests, IInv, FlowInv, [Next]_vars
                 PROVE  FlowInv' /\ [StepByStep]_vars
        OBVIOUS
    <1>1. CASE UNCHANGED <<bill, call>>
        BY <1>1, SameProgress DEF FlowInv
    <1>2. NoCall.row.progress = "pending" /\ NewRow.progress = "pending"
        BY DEF NoCall, NoRow, NewRow
    <1>3. ASSUME NEW w \in Worker, Start(w) PROVE FlowInv' /\ StepByStep
        <2>1. CASE UNCHANGED bill
            BY <1>3, <2>1, StartsFresh, FlowStep, SameProgress DEF Fresh
        <2>2. ASSUME NEW b \in Bill, bill' = [bill EXCEPT ![b] = NewRow],
                     call'[w].row.progress = "pending"
              PROVE  FlowInv' /\ StepByStep
            <3>1. FlowInv'
                BY <2>2, NoAdvance, FlowStep
            <3>2. Advances(bill[b].progress, NewRow.progress)
                BY <1>2, NoAdvance
            <3>. QED
                BY <2>2, <3>1, <3>2, BillAdvances
        <2>. QED
            BY <1>3, <2>1, <2>2, StartsFresh
    <1>4. ASSUME NEW w \in Worker, Quiet(w), UNCHANGED bill PROVE FlowInv' /\ StepByStep
        BY <1>2, <1>4, NoAdvance, FlowStep, SameProgress DEF Quiet, Holds, FlowInv
    <1>5. ASSUME NEW w \in Worker, ReadPoints(w) PROVE FlowInv' /\ StepByStep
        BY <1>5, ReadPointsHolds, FlowStep, SameProgress DEF Holds, FlowInv
    <1>6. ASSUME NEW w \in Worker, LoadForAdd(w) PROVE FlowInv' /\ StepByStep
        <2>1. CASE Quiet(w)
            BY <1>4, <1>6, <2>1, LoadsForAdd
        <2>2. CASE call'[w].bill = call[w].bill /\ call'[w].row = bill[call[w].bill]
            BY <1>6, <2>2, LoadsForAdd, NoAdvance, FlowStep, SameProgress
        <2>. QED
            BY <1>6, <2>1, <2>2, LoadsForAdd
    <1>7. ASSUME NEW w \in Worker, LoadRental(w) \/ Refresh(w) PROVE FlowInv' /\ StepByStep
        BY <1>7, ReadsAgain, NoAdvance, FlowStep, SameProgress DEF FlowInv
    <1>8. ASSUME NEW w \in Worker,
                 \/ DeductPoints(w) \/ RefundPoints(w) \/ Reward(w)
                 \/ InsertDetail(w) \/ DeleteDetail(w)
          PROVE  FlowInv' /\ StepByStep
        <2>1. UNCHANGED bill
            BY <1>8 DEF DeductPoints, RefundPoints, Reward, InsertDetail, DeleteDetail, rentalVars
        <2>. QED
            BY <1>4, <1>8, <2>1, WritesQuietly
    <1>9. ASSUME NEW w \in Worker, Serve(w) \/ Fail(w) PROVE FlowInv' /\ StepByStep
        BY <1>4, <1>5, <1>6, <1>7, <1>8, <1>9, PaymentQuiet, BillQuiet, BillsAdvance
        DEF Serve, BillStep
    <1>10. CASE Next /\ ~ \E w \in Worker : Start(w) \/ Serve(w) \/ Fail(w)
        <2>1. UNCHANGED bill
            <3>1. ~("cron" \in Op[era])
                BY DEF CronRests, IInv, TablesInv, RestInv
            <3>. QED
                BY <1>10, <3>1 DEF Next, Tick, Age, ChainDeposit, CustomerPays, rentalVars
        <2>. QED
            BY <1>1, <1>10, <2>1, NoRequest
    <1>11. CASE UNCHANGED vars
        BY <1>1, <1>11 DEF vars, rentalVars
    <1>. QED
        BY <1>3, <1>9, <1>10, <1>11

\* The handover advances one step at a time while requests do not overlap,
\* with each other or with the cron job, whatever fails.
THEOREM WorkflowStaysInOrder == OneClient /\ CronRests => (Spec => WorkflowInOrder)
    <1> SUFFICES ASSUME OneClient, CronRests PROVE Spec => WorkflowInOrder
        OBVIOUS
    <1>1. Init => FlowInv
        BY DEF Init, FlowInv, Advances, HandedOver, NoCall, NoRow
    <1>2. IInv /\ FlowInv /\ [Next]_vars => FlowInv' /\ [StepByStep]_vars
        BY NextFlow
    <1>. QED
        BY <1>1, <1>2, RentalInvariant, PTL DEF Spec, WorkflowInOrder

=============================================================================
