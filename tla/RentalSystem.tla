---------------------------- MODULE RentalSystem ----------------------------
(***************************************************************************)
(* The rental and payment services at work: requests of several clients,   *)
(* notifications of the gateway, the cron job and the passing of time in   *)
(* any order, with requests that fail at any await.  Op selects the        *)
(* operations of an instance.                                              *)
(***************************************************************************)
EXTENDS RentalBillSteps

\* A request that is accepted now.
Start(w) ==
    \/ Create(w) \/ AddVehicle(w) \/ RemoveVehicle(w) \/ Update(w)
    \/ Pay(w) \/ MomoCreate(w)
    \/ Ipn(w) \/ IpnFailed(w) \/ ConfirmQr(w) \/ RefundMomo(w)
    \/ Delivering(w) \/ Delivered(w) \/ Pickup(w) \/ ReturnRequest(w)
    \/ ConfirmReturn(w) \/ Complete(w) \/ Cancel(w) \/ OwnerCancel(w)
    \/ Disable(w) \/ Enable(w) \/ Register(w) \/ Approve(w)

Serve(w) == PaymentStep(w) \/ BillStep(w)

\* A query fails or the server restarts: the request ends where it stands
\* and nothing rolls back what it has written.
Fail(w) ==
    /\ "fail" \in Op[era]
    /\ ~At(w, "idle")
    /\ Return(w)
    /\ UNCHANGED <<rentalVars, vehicle, gatewayVars, usedCount, points, moneyVars, chain,
                   era, calls, cron>>

\* The cron timeout of a PENDING bill passes.
Age(b) ==
    /\ "cron" \in Op[era]
    /\ bill[b].status = "pending"
    /\ b \notin aged
    /\ aged' = aged \cup {b}
    /\ UNCHANGED <<bill, details, vehicle, gatewayVars, usedCount, points, moneyVars, chain,
                   era, call, calls, cron>>

\* The next date of the bills is reached.
Tick ==
    /\ "tick" \in Op[era]
    /\ era < 5
    /\ era' = era + 1
    /\ UNCHANGED <<rentalVars, vehicle, gatewayVars, usedCount, points, moneyVars, chain,
                   call, calls, cron>>

\* The renter puts the deposit of a bill into RentalEscrow.sol.
ChainDeposit(b) ==
    /\ bill[b].eth
    /\ chain[b] # "Deposited"
    /\ chain' = [chain EXCEPT ![b] = "Deposited"]
    /\ UNCHANGED <<rentalVars, vehicle, gatewayVars, usedCount, points, moneyVars,
                   era, call, calls, cron>>

Next ==
    \/ \E w \in Worker : Start(w) \/ Serve(w) \/ Fail(w)
    \/ "cron" \in Op[era] /\ CronStep
    \/ \E p \in PaymentId : CustomerPays(p)
    \/ \E b \in Bill : Age(b) \/ ChainDeposit(b)
    \/ Tick

\* Node.js gets to every pending await, and the scheduler runs checkTimeouts
\* every minute; when clients call, customers pay or time reaches a date is
\* nobody's promise, but a PENDING bill does get older.
Fairness ==
    /\ \A w \in Worker : WF_vars(Serve(w))
    /\ WF_vars("cron" \in Op[era] /\ CronStep)
    /\ \A b \in Bill : WF_vars(Age(b))

Spec == Init /\ [][Next]_vars /\ Fairness

-----------------------------------------------------------------------------
\* What holds however requests interleave, fail and are repeated.

HandedOver == {"delivering", "delivered", "in_progress", "return_requested", "return_confirmed"}

\* A payment of nothing, or of less, has been reported or confirmed for the
\* bill: POST payments/momo/create takes any amount, and the escrow of one
\* that is not positive is skipped.
PaidNothing(b) ==
    \E p \in PaymentId : payment[p].bill = b /\ payment[p].transId /\ payment[p].amount <= 0

\* No vehicle is handed over, and no bill counts as paid, whose money never
\* reached the escrow of this bill, unless what was paid was nothing: the
\* escrow of a positive amount comes before the status, and a stale copy that
\* is saved later cannot skip it.
PaidWasEscrowed ==
    \A b \in Bill :
        bill[b].status = "paid" \/ bill[b].progress \in HandedOver =>
            lockedFor[b] > 0 \/ PaidNothing(b)

\* A bill is COMPLETED only after at least its total has left the renter's
\* escrow, although release and save are two steps that can be torn apart.
CompletedWasReleased ==
    \A b \in Bill : bill[b].status = "completed" => releasedFor[b] >= bill[b].total

\* The locked balance of a renter is what the bills of the renter have put
\* into escrow and not taken out: no step moves one without the other.
LockedByBills ==
    \A u \in User :
        locked[u] = MapThenSumSet(LAMBDA b : lockedFor[b] - releasedFor[b],
                                  {b \in Bill : RenterOf[b] = u})

\* A bill does not stay PENDING: it is paid or the cron job cancels it, for
\* good, even if a stale save makes it PENDING again in between.  Clients
\* make finitely many requests here (MaxCalls); one that keeps updating its
\* bill in time postpones the timeout for ever.
PendingEnds ==
    \A b \in Bill : bill[b].status = "pending" ~> [](bill[b].status # "pending")

-----------------------------------------------------------------------------
\* What holds while requests do not overlap (one worker).

SameOwner(b) ==
    \A v, x \in details[b] : OwnerOf[vehicle[v].contract] = OwnerOf[vehicle[x].contract]

\* The owner of any one vehicle of a bill, who gets the money, is the owner of
\* all: addVehicleToBill compares each vehicle with one that is there, several
\* awaits before it inserts it.  Only a plate on the bill that is registered
\* again under another contract ends this.  Two requests that overlap break it.
OwnersKept ==
    \A b \in Bill : SameOwner(b) /\ ~SameOwner(b)' =>
        \E v \in details[b] : vehicle'[v].contract # vehicle[v].contract

OneOwner == [][OwnersKept]_vars

\* Travel points never become negative: the deduction is limited to what the
\* user has.
PointsCover == \A u \in User : points[u] >= 0

Follows == [delivering |-> {"booked"}, delivered |-> {"delivering"},
            in_progress |-> {"delivered"}, return_requested |-> {"in_progress"},
            return_confirmed |-> {"return_requested"}]

\* The handover advances one confirmed step at a time: no request makes a
\* bill skip the delivery, the pickup or the return.  The cron job, which saves
\* rows it has read before, counts as a request that overlaps here.
StepByStep ==
    \A b \in Bill : bill'[b].progress # bill[b].progress
                    /\ bill'[b].progress \in HandedOver =>
        bill[b].progress \in Follows[bill'[b].progress]

WorkflowInOrder == [][StepByStep]_vars

-----------------------------------------------------------------------------
\* What the repository says of the program and the runs refute.

\* "Only PENDING bills can be paid": a bill becomes PAID out of PENDING.
\* A notification that comes after the bill was cancelled makes it PAID.
OnlyPendingIsPaid ==
    [][\A b \in Bill : bill'[b].status = "paid" => bill[b].status \in {"pending", "paid"}]_vars

\* "Payment already processed": the payments of a bill that the customer
\* made are escrowed at most once each.
EachPaymentOnce ==
    \A b \in Bill : lockedFor[b] <=
        MapThenSumSet(LAMBDA p : payment[p].amount,
                      {p \in PaymentId : payment[p].bill = b /\ payment[p].amount > 0})

\* "Cron job to handle bill timeouts: PENDING": the cron job cancels only
\* bills that are PENDING.
CronCancelsPending ==
    [][\A b \in Bill : CronSave /\ bill'[b] # bill[b] => bill[b].status = "pending"]_vars

\* "Only PAID bills can be completed": what a completion pays the owner of a
\* bill was escrowed for this bill, not for another one.
ReleasedWasLocked == \A b \in Bill : releasedFor[b] <= lockedFor[b]

=============================================================================
