---------------------------- MODULE PaymentSteps ----------------------------
(***************************************************************************)
(* payment.service.ts: one action per await that writes something.  MoMo,  *)
(* the gateway, is external: it opens an order when createMomoPayment      *)
(* asks, the customer pays it, and then MoMo may deliver the payment       *)
(* notification (IPN) any number of times.                                 *)
(***************************************************************************)
EXTENDS RentalState

\* Where a request goes after an await; what the code skips because of an if
\* is no step.
Pays(op) == op \in {"ipn", "confirmQr"}
AfterVoucher(op) == IF Pays(op) THEN "book" ELSE "release"
AfterPoints(op, row) == IF row.voucher = "set" THEN "readVoucher" ELSE AfterVoucher(op)
AfterMoney(op, row) ==
    IF row.points = 0 THEN AfterPoints(op, row)
    ELSE IF Pays(op) THEN "readPoints" ELSE "refundPoints"

\* Everything a payment step leaves alone, but for what it names itself.
elsewhere == <<vehicle, chain, era, cron>>

UsedIds == {p \in PaymentId : payment[p].status # "none"}

-----------------------------------------------------------------------------
\* createMomoPayment and createQrPayment, called by pay or, for MoMo, by
\* POST payments/momo/create with an amount of the caller's, of which the
\* controller checks that it is a number: it may be zero or negative.

MomoCreate(w) ==
    /\ \E b \in Bill, amount \in RawAmount :
          /\ bill[b].status # "none"
          /\ Accept(w, [NoCall EXCEPT !.op = "momoCreate", !.bill = b, !.seen = amount,
                           !.pc = "createPayment", !.row = [NoRow EXCEPT !.method = "momo"]])
    /\ UNCHANGED <<rentalVars, gatewayVars, usedCount, points, moneyVars, elsewhere>>

\* The next payment gets the next id; seen is the amount to pay.
CreatePayment(w) ==
    /\ At(w, "createPayment")
    /\ \E p \in PaymentId :
       LET c == call[w] IN
       /\ UsedIds = 1 .. p - 1
       /\ payment' = [payment EXCEPT ![p] =
             [bill |-> c.bill, method |-> c.row.method, amount |-> c.seen,
              transId |-> FALSE, status |-> "PENDING"]]
       /\ IF c.row.method = "momo"
          THEN call' = [call EXCEPT ![w].pc = "askGateway", ![w].payment = p]
          ELSE Return(w)
    /\ UNCHANGED <<rentalVars, order, usedCount, points, moneyVars, elsewhere, calls>>

\* The call to MoMo: the customer gets a payUrl, or the request fails.
AskGateway(w) ==
    /\ At(w, "askGateway")
    /\ \/ /\ order' = [order EXCEPT ![call[w].payment] = "open"]
          /\ Return(w)
       \/ /\ Goto(w, "markFailed")
          /\ UNCHANGED order
    /\ UNCHANGED <<rentalVars, payment, usedCount, points, moneyVars, elsewhere, calls>>

MarkFailed(w) ==
    /\ At(w, "markFailed")
    /\ payment' = [payment EXCEPT ![call[w].payment].status = "FAILED"]
    /\ Return(w)
    /\ UNCHANGED <<rentalVars, order, usedCount, points, moneyVars, elsewhere, calls>>

\* The customer pays at MoMo.
CustomerPays(p) ==
    /\ order[p] = "open"
    /\ order' = [order EXCEPT ![p] = "paid"]
    /\ UNCHANGED <<rentalVars, payment, usedCount, points, moneyVars, elsewhere, call, calls>>

-----------------------------------------------------------------------------
\* handleMomoIpn and confirmQrPayment differ only in how they find the
\* payment; both escrow its amount and mark the bill paid.

PaymentCall(op, p, pc) ==
    [NoCall EXCEPT !.op = op, !.bill = payment[p].bill, !.payment = p, !.pc = pc]

\* MoMo reports a paid order, once or again.
Ipn(w) ==
    /\ \E p \in UsedIds :
          /\ order[p] \in {"paid", "refunded"}
          /\ payment[p].status # "SUCCESS"
          /\ Accept(w, PaymentCall("ipn", p, "markSuccess"))
    /\ UNCHANGED <<rentalVars, gatewayVars, usedCount, points, moneyVars, elsewhere>>

\* MoMo reports an attempt that failed; the order stays open.
IpnFailed(w) ==
    /\ \E p \in UsedIds :
          /\ order[p] = "open"
          /\ payment[p].status # "SUCCESS"
          /\ Accept(w, PaymentCall("ipn", p, "markRefused"))
    /\ UNCHANGED <<rentalVars, gatewayVars, usedCount, points, moneyVars, elsewhere>>

MarkRefused(w) ==
    /\ At(w, "markRefused")
    /\ payment' = [payment EXCEPT ![call[w].payment].status = "FAILED",
                                  ![call[w].payment].transId = TRUE]
    /\ Return(w)
    /\ UNCHANGED <<rentalVars, order, usedCount, points, moneyVars, elsewhere, calls>>

\* POST payments/qr/confirm, for any payment of the bill.
ConfirmQr(w) ==
    /\ \E p \in UsedIds :
          /\ payment[p].status # "SUCCESS"
          /\ Accept(w, PaymentCall("confirmQr", p, "markSuccess"))
    /\ UNCHANGED <<rentalVars, gatewayVars, usedCount, points, moneyVars, elsewhere>>

MarkSuccess(w) ==
    /\ At(w, "markSuccess")
    /\ payment' = [payment EXCEPT ![call[w].payment].status = "SUCCESS",
                                  ![call[w].payment].transId = TRUE]
    /\ Goto(w, "loadRental")
    /\ UNCHANGED <<rentalVars, order, usedCount, points, moneyVars, elsewhere, calls>>

\* The bill is read after the payment is marked; voucher and points are
\* settled by this copy.
LoadRental(w) ==
    /\ At(w, "loadRental")
    /\ call' = [call EXCEPT ![w].row = bill[call[w].bill], ![w].pc = "deposit"]
    /\ UNCHANGED <<rentalVars, gatewayVars, usedCount, points, moneyVars, elsewhere, calls>>

\* Mutant: the call of lockFunds is missing.
DepositPayment_NoLock(w) ==
    /\ At(w, "deposit")
    /\ LET c == call[w]
           amount == payment[c.payment].amount IN
          IF AdjustAllowed(User, balance, Renter(w), amount)
          THEN /\ balance' = Moved(balance, Renter(w), amount)
               /\ Goto(w, AfterMoney(c.op, c.row))
          ELSE Return(w) /\ UNCHANGED balance
    /\ UNCHANGED <<rentalVars, gatewayVars, usedCount, points, locked, lockedFor,
                   releasedFor, elsewhere, calls>>

\* walletService.deposit, its own transaction.  An amount that is not
\* positive skips deposit and lock, and the bill is marked paid all the same.
DepositPayment(w) ==
    /\ At(w, "deposit")
    /\ LET c == call[w]
           amount == payment[c.payment].amount
           allowed == AdjustAllowed(User, balance, Renter(w), amount) IN
          \/ /\ amount <= 0
             /\ Goto(w, AfterMoney(c.op, c.row)) /\ UNCHANGED balance
          \/ /\ amount > 0 /\ allowed
             /\ balance' = Moved(balance, Renter(w), amount) /\ Goto(w, "lock")
          \/ /\ amount > 0 /\ ~allowed
             /\ Return(w) /\ UNCHANGED balance
    /\ UNCHANGED <<rentalVars, gatewayVars, usedCount, points, locked, lockedFor,
                   releasedFor, elsewhere, calls>>

\* walletService.lockFunds, another transaction; it throws when something
\* else has spent the deposit in between.
LockPayment(w) ==
    /\ At(w, "lock")
    /\ LET c == call[w]
           amount == payment[c.payment].amount IN
          IF LockAllowed(User, balance, locked, Renter(w), amount)
          THEN LockFunds(c.bill, amount) /\ Goto(w, AfterMoney(c.op, c.row))
          ELSE Return(w) /\ UNCHANGED moneyVars
    /\ UNCHANGED <<rentalVars, gatewayVars, usedCount, points, elsewhere, calls>>

\* The points to deduct are limited by a read, then deducted by an UPDATE.
ReadPoints(w) ==
    /\ At(w, "readPoints")
    /\ call' = [call EXCEPT ![w].pc = "deductPoints", ![w].seen = points[Renter(w)]]
    /\ UNCHANGED <<rentalVars, gatewayVars, usedCount, points, moneyVars, elsewhere, calls>>

\* Mutant: the deduction ignores how many points the user has.
DeductPoints_All(w) ==
    /\ At(w, "deductPoints")
    /\ points' = [points EXCEPT ![Renter(w)] = @ - call[w].row.points]
    /\ Goto(w, AfterPoints(call[w].op, call[w].row))
    /\ UNCHANGED <<rentalVars, gatewayVars, usedCount, moneyVars, elsewhere, calls>>

DeductPoints(w) ==
    /\ At(w, "deductPoints")
    /\ LET c == call[w]
           wanted == IF c.seen < c.row.points THEN c.seen ELSE c.row.points IN
          points' = [points EXCEPT ![Renter(w)] = IF wanted > 0 THEN @ - wanted ELSE @]
    /\ Goto(w, AfterPoints(call[w].op, call[w].row))
    /\ UNCHANGED <<rentalVars, gatewayVars, usedCount, moneyVars, elsewhere, calls>>

-----------------------------------------------------------------------------
\* incrementUsage after a payment and decrementUsage on a refund: findOne,
\* then save of the entity.  active is computed from usedCount on every read.

ReadVoucher(w) ==
    /\ At(w, "readVoucher")
    /\ call' = [call EXCEPT ![w].seen = usedCount, ![w].pc = "saveVoucher"]
    /\ UNCHANGED <<rentalVars, gatewayVars, usedCount, points, moneyVars, elsewhere, calls>>

SaveVoucher(w) ==
    /\ At(w, "saveVoucher")
    /\ LET seen == call[w].seen IN
          usedCount' = IF Pays(call[w].op) THEN seen + 1
                       ELSE IF seen > 0 THEN seen - 1 ELSE 0
    /\ Goto(w, AfterVoucher(call[w].op))
    /\ UNCHANGED <<rentalVars, gatewayVars, points, moneyVars, elsewhere, calls>>

\* rentalRepo.update: the two status columns only, whatever the bill is now.
Book(w) ==
    /\ At(w, "book")
    /\ LET b == call[w].bill IN
          /\ bill' = [bill EXCEPT ![b].status = "paid", ![b].progress = "booked"]
          /\ aged' = AgedAfterUpdate(b)
    /\ Return(w)
    /\ UNCHANGED <<details, gatewayVars, usedCount, points, moneyVars, elsewhere, calls>>

-----------------------------------------------------------------------------
\* refundMomo, by an administrator or as the first step of a refund, and the
\* rest of refundLatestByRental.

RefundMomo(w) ==
    /\ \E p \in UsedIds :
          /\ payment[p].method = "momo"
          /\ payment[p].transId
          /\ Accept(w, PaymentCall("refundMomo", p, "askRefund"))
    /\ UNCHANGED <<rentalVars, gatewayVars, usedCount, points, moneyVars, elsewhere>>

\* The latest SUCCESS payment of the bill, if there is one.
FindRefundable(w) ==
    /\ At(w, "findRefundable")
    /\ LET found == {p \in UsedIds : payment[p].bill = call[w].bill
                                     /\ payment[p].status = "SUCCESS"} IN
          IF found = {} THEN Goto(w, AfterMoney(call[w].op, call[w].row))
          ELSE call' = [call EXCEPT
                  ![w].payment = Max(found),
                  ![w].pc = IF payment[Max(found)].method = "momo"
                            THEN "askRefund" ELSE "markRefunded"]
    /\ UNCHANGED <<rentalVars, gatewayVars, usedCount, points, moneyVars, elsewhere, calls>>

\* MoMo refunds a paid order once.  The answer may be lost, and a refusal or
\* a timeout throws: nothing after this await happens.
AskRefund(w) ==
    /\ At(w, "askRefund")
    /\ LET p == call[w].payment IN
          \/ /\ order[p] = "paid"
             /\ order' = [order EXCEPT ![p] = "refunded"]
             /\ Goto(w, "markRefunded") \/ Return(w)
          \/ /\ Return(w)
             /\ UNCHANGED order
    /\ UNCHANGED <<rentalVars, payment, usedCount, points, moneyVars, elsewhere, calls>>

MarkRefunded(w) ==
    /\ At(w, "markRefunded")
    /\ payment' = [payment EXCEPT ![call[w].payment].status = "REFUNDED"]
    /\ IF call[w].op = "refundMomo" THEN Return(w)
       ELSE Goto(w, AfterMoney(call[w].op, call[w].row))
    /\ UNCHANGED <<rentalVars, order, usedCount, points, moneyVars, elsewhere, calls>>

PaymentStep(w) ==
    \/ CreatePayment(w) \/ AskGateway(w) \/ MarkFailed(w)
    \/ MarkRefused(w) \/ MarkSuccess(w) \/ LoadRental(w)
    \/ DepositPayment(w) \/ LockPayment(w)
    \/ ReadPoints(w) \/ DeductPoints(w)
    \/ ReadVoucher(w) \/ SaveVoucher(w) \/ Book(w)
    \/ FindRefundable(w) \/ AskRefund(w) \/ MarkRefunded(w)

=============================================================================
