------------------------------- MODULE Fleet -------------------------------
(***************************************************************************)
(* The fleet behind rentals: rental-contract.service.ts (an owner's        *)
(* contract, which an administrator approves) and                          *)
(* rental-vehicle.service.ts (the vehicles registered under it, their      *)
(* maintenance, and the search renters book from).  Of a rental bill only  *)
(* the vehicle, the period and whether it still counts are here; the money *)
(* is in RentalSystem.tla.                                                 *)
(*                                                                         *)
(* Requests on contracts, registrations and removals run one at a time in  *)
(* `request', one commit per step.  What has read a vehicle, a bill or a   *)
(* calendar and saves later is in `work': these requests overlap each      *)
(* other and the one in `request'.  Each may break off before a commit.    *)
(***************************************************************************)
EXTENDS Integers, FiniteSets, Sequences

CONSTANTS
    Contract, Vehicle, Booking,
    Worker,         \* requests under way at the same time
    Period,         \* pairs of a first moment and the moment after the last
    Nobody,         \* no contract, no vehicle, no request
    MaxNow,         \* bound: the clock stops here
    MaxCalls        \* bound: requests

ASSUME PeriodAssumption == Period \subseteq {p \in Nat \X Nat : p[1] < p[2]}
ASSUME RowsAssumption ==
    IsFiniteSet(Vehicle) /\ Nobody \notin Contract \cup Vehicle \cup Booking
ASSUME BoundsAssumption == MaxNow \in Nat /\ MaxCalls \in Nat

VARIABLES
    contract,       \* the status of each row, "none" before and "removed" after
    listed,         \* totalVehicles of each contract
    vehicle,        \* contract (Nobody without a row), status, availability
    maintenance,    \* the maintenance periods of each vehicle
    booking,        \* vehicle, period, state; shown: search listed it then
    request,        \* the requests's op and subject and the commits left
    work,           \* what each worker has read or computed and will save
    now, calls,
    \* History.
    readmitted,     \* vehicles that someone put back in after a suspension
    strayed,        \* bookings whose request overlapped another on the vehicle,
                    \* or that counted again after they had ended
    torn            \* contracts whose count a request left wrong

fleetVars == <<contract, listed, vehicle, maintenance, booking, request, work,
               now, calls, readmitted, strayed, torn>>

-----------------------------------------------------------------------------
\* Rows.

NoVehicle == [contract |-> Nobody, status |-> "none", availability |-> "unavailable"]
NoBooking == [vehicle |-> Nobody, period |-> <<0, 0>>, state |-> "none", shown |-> FALSE]
Gone == [NoBooking EXCEPT !.state = "gone"]
NoWork == [op |-> "none", on |-> Nobody, row |-> NoVehicle, booking |-> Nobody, bill |-> NoBooking]
Idle == [op |-> "none", on |-> Nobody, todo |-> <<>>]

Of(c) == {v \in Vehicle : vehicle[v].contract = c}
Bookable(v) == vehicle[v].status = "approved" /\ vehicle[v].availability = "available"

\* Bills that are neither COMPLETED nor CANCELLED.
Live == {"pending", "paid"}
Active(b) == booking[b].state \in Live
ActiveOf(v) == {b \in Booking : Active(b) /\ booking[b].vehicle = v}

\* Mutant: only a period that starts within the other overlaps it.
Overlap_StartsInside(p, q) == p[1] < q[2] /\ p[1] >= q[1]

Overlap(p, q) == p[1] < q[2] /\ p[2] > q[1]

\* search, for the dates p.
Search(p) ==
    {v \in Vehicle :
        /\ Bookable(v)
        /\ contract[vehicle[v].contract] = "approved"
        /\ \A b \in ActiveOf(v) : ~Overlap(booking[b].period, p)
        /\ \A m \in maintenance[v] : ~Overlap(m, p)}

\* Mutant: only the bookings that have not started count.
FutureBookings_NotStarted(v) == {b \in ActiveOf(v) : booking[b].period[1] > now}

\* hasFutureBookings.
FutureBookings(v) == {b \in ActiveOf(v) : booking[b].period[2] > now}

ContractStatus == {"none", "pending", "approved", "rejected", "suspended", "removed"}
Availability == {"available", "unavailable", "maintenance"}
VehicleRow ==
    [contract: Contract \cup {Nobody}, availability: Availability,
     status: {"none", "pending", "approved", "rejected", "inactive"}]
BillRow == [vehicle: Vehicle, period: Period, shown: BOOLEAN,
            state: {"pending", "paid", "completed", "cancelled"}]
BookingRow == BillRow \cup {NoBooking, Gone}
WorkRow ==
    [op: {"none", "vehicle", "maintenance", "book", "return", "refund", "bill", "expire"},
     on: Vehicle \cup {Nobody}, row: VehicleRow, booking: Booking \cup {Nobody},
     bill: BookingRow]

TypeOK ==
    /\ contract \in [Contract -> ContractStatus]
    /\ listed \in [Contract -> -MaxCalls .. MaxCalls]
    /\ vehicle \in [Vehicle -> VehicleRow]
    /\ maintenance \in [Vehicle -> SUBSET Period]
    /\ booking \in [Booking -> BookingRow]
    /\ work \in [Worker -> WorkRow]
    /\ now \in 0 .. MaxNow /\ calls \in 0 .. MaxCalls
    /\ readmitted \subseteq Vehicle /\ strayed \subseteq Booking /\ torn \subseteq Contract

Init ==
    /\ contract = [c \in Contract |-> "none"]
    /\ listed = [c \in Contract |-> 0]
    /\ vehicle = [v \in Vehicle |-> NoVehicle]
    /\ maintenance = [v \in Vehicle |-> {}]
    /\ booking = [b \in Booking |-> NoBooking]
    /\ request = Idle /\ work = [w \in Worker |-> NoWork]
    /\ now = 0 /\ calls = 0
    /\ readmitted = {} /\ strayed = {} /\ torn = {}

history == <<readmitted, strayed, torn>>
rows == <<contract, listed, vehicle, maintenance, booking>>

-----------------------------------------------------------------------------
\* The request that runs.

Call == calls < MaxCalls /\ calls' = calls + 1 /\ UNCHANGED now

\* A request of one commit, while none of several runs.
Alone == request = Idle /\ Call /\ UNCHANGED <<request, work>>

Start(op, on, todo) ==
    /\ request = Idle
    /\ request' = [op |-> op, on |-> on, todo |-> todo]

At(op) == request # Idle /\ Head(request.todo) = op

Advance ==
    /\ request' = IF Len(request.todo) = 1 THEN Idle ELSE [request EXCEPT !.todo = Tail(@)]
    /\ UNCHANGED <<work, now, calls>>

\* A commit fails, or the process stops: the rest is never done.
BreaksOff ==
    /\ request # Idle
    /\ request' = Idle
    /\ torn' = torn \cup (IF At("count") THEN {request.on} ELSE {})
    /\ UNCHANGED <<rows, work, now, calls, readmitted, strayed>>

\* The requests that overlap: w takes one up, and leaves it when it is done
\* or a statement fails, as it does when the row it refers to is gone.
Take(w, op, on, row, b, bill) ==
    /\ work[w] = NoWork
    /\ Call
    /\ work' = [work EXCEPT ![w] =
          [op |-> op, on |-> on, row |-> row, booking |-> b, bill |-> bill]]
    /\ UNCHANGED <<rows, request, history>>

Leave(w) == work' = [work EXCEPT ![w] = NoWork] /\ UNCHANGED <<request, now, calls>>

GiveUp(w) == work[w] # NoWork /\ Leave(w) /\ UNCHANGED <<rows, history>>

\* Booking requests under way on v.
Inserts(v) == {w \in Worker : work[w].op = "book" /\ work[w].on = v}

\* w will save v as out of service, or add to its maintenance.
TakesOut(w, v) ==
    /\ work[w].on = v
    /\ work[w].op = "maintenance" \/ work[w].row.availability = "maintenance"

-----------------------------------------------------------------------------
\* rental-contract.service.ts

CreateContract(c) ==
    /\ contract[c] = "none"
    /\ Alone
    /\ contract' = [contract EXCEPT ![c] = "pending"]
    /\ UNCHANGED <<listed, vehicle, maintenance, booking, history>>

\* approve and reject look at nothing but the row's existence and touch no
\* vehicle.
DecideContract(c) ==
    /\ contract[c] \notin {"none", "removed"}
    /\ Alone
    /\ \E s \in {"approved", "rejected"} : contract' = [contract EXCEPT ![c] = s]
    /\ UNCHANGED <<listed, vehicle, maintenance, booking, history>>

\* Mutant: the contract is saved before its vehicles.
SuspendSteps_ContractFirst == <<"contract", "vehicles">>

\* suspend: setVehiclesInactive, then the contract.
SuspendSteps == <<"vehicles", "contract">>

Suspend(c) ==
    /\ contract[c] = "approved"
    /\ Call
    /\ Start("suspend", c, SuspendSteps)
    /\ readmitted' = readmitted \ Of(c)
    /\ UNCHANGED <<rows, work, strayed, torn>>

SetVehiclesInactive ==
    /\ At("vehicles")
    /\ vehicle' = [v \in Vehicle |->
          IF v \in Of(request.on)
          THEN [vehicle[v] EXCEPT !.status = "inactive", !.availability = "unavailable"]
          ELSE vehicle[v]]
    /\ readmitted' = readmitted \ Of(request.on)
    /\ Advance
    /\ UNCHANGED <<contract, listed, maintenance, booking, strayed, torn>>

SaveSuspended ==
    /\ At("contract")
    /\ contract' = [contract EXCEPT ![request.on] = "suspended"]
    /\ Advance
    /\ UNCHANGED <<listed, vehicle, maintenance, booking, history>>

\* A vehicle's row takes its maintenance and its bill details along: what
\* is left of such a bill is no booking.
Drop(vs) ==
    /\ vehicle' = [v \in Vehicle |-> IF v \in vs THEN NoVehicle ELSE vehicle[v]]
    /\ maintenance' = [v \in Vehicle |-> IF v \in vs THEN {} ELSE maintenance[v]]
    /\ booking' = [b \in Booking |->
          IF booking[b].vehicle \in vs THEN Gone ELSE booking[b]]
    /\ readmitted' = readmitted \ vs
    /\ UNCHANGED strayed

RemoveContract(c) ==
    /\ contract[c] \notin {"none", "removed"}
    /\ Alone
    /\ contract' = [contract EXCEPT ![c] = "removed"]
    /\ Drop(Of(c))
    /\ UNCHANGED <<listed, torn>>

-----------------------------------------------------------------------------
\* rental-vehicle.service.ts

\* create: the plate is the primary key, so the save overwrites a row that
\* is already there.  The counter follows in a commit of its own.
Register(v, c) ==
    /\ contract[c] = "approved"
    /\ Call
    /\ Start("register", c, <<"count">>)
    /\ vehicle' = [vehicle EXCEPT ![v] =
          [contract |-> c, status |-> "pending", availability |-> "unavailable"]]
    /\ readmitted' = readmitted \ {v}
    /\ torn' = torn \cup ({vehicle[v].contract} \ {Nobody})
    /\ UNCHANGED <<contract, listed, maintenance, booking, work, strayed>>

\* remove: the row, then the counter.
RemoveVehicle(v) ==
    /\ vehicle[v].contract # Nobody
    /\ Call
    /\ Start("unregister", vehicle[v].contract, <<"count">>)
    /\ Drop({v})
    /\ UNCHANGED <<contract, listed, work, torn>>

\* Mutant: only registrations count.
Count_Registrations ==
    /\ At("count")
    /\ listed' = [listed EXCEPT ![request.on] = IF request.op = "register" THEN @ + 1 ELSE @]
    /\ Advance
    /\ UNCHANGED <<contract, vehicle, maintenance, booking, history>>

Count ==
    /\ At("count")
    /\ listed' = [listed EXCEPT ![request.on] = IF request.op = "register" THEN @ + 1 ELSE @ - 1]
    /\ Advance
    /\ UNCHANGED <<contract, vehicle, maintenance, booking, history>>

\* approve and reject, which look at neither the contract nor the status.
DecideVehicle(v) ==
    /\ vehicle[v].contract # Nobody
    /\ Alone
    /\ \/ /\ vehicle' = [vehicle EXCEPT ![v] =
                [@ EXCEPT !.status = "approved", !.availability = "available"]]
          /\ readmitted' = readmitted \cup {v}
       \/ /\ vehicle' = [vehicle EXCEPT ![v] =
                [@ EXCEPT !.status = "rejected", !.availability = "unavailable"]]
          /\ UNCHANGED readmitted
    /\ UNCHANGED <<contract, listed, maintenance, booking, strayed, torn>>

\* update, disable and enable read the row, check it, and save all of it.
Edit(w, v, availability) ==
    /\ vehicle[v].contract # Nobody
    /\ Take(w, "vehicle", v, [vehicle[v] EXCEPT !.availability = availability], Nobody, NoBooking)

Update(w, v) == Edit(w, v, vehicle[v].availability)
Disable(w, v) == FutureBookings(v) = {} /\ Edit(w, v, "maintenance")
Enable(w, v) ==
    /\ vehicle[v].status = "approved" /\ vehicle[v].availability = "maintenance"
    /\ Edit(w, v, "available")

\* The save of a whole row brings back what it was when it was read, the
\* row itself included; a contract that is gone refuses it.  The end of a
\* rental goes on to its bill.
SaveVehicle(w) ==
    /\ work[w].op \in {"vehicle", "return"}
    /\ LET v == work[w].on
           row == work[w].row
           same == vehicle[v].contract = row.contract
       IN /\ contract[row.contract] # "removed"
          /\ vehicle' = [vehicle EXCEPT ![v] = row]
          /\ readmitted' = readmitted \cup
                (IF row.status = "approved" /\ ~(same /\ vehicle[v].status = "approved")
                 THEN {v} ELSE {})
          /\ torn' = torn \cup (IF same THEN {} ELSE {row.contract, vehicle[v].contract} \ {Nobody})
          /\ strayed' = strayed \cup
                (IF TakesOut(w, v) THEN {work[x].booking : x \in Inserts(v)} ELSE {})
    /\ IF work[w].op = "vehicle" THEN Leave(w)
       ELSE work' = [work EXCEPT ![w].op = "bill"] /\ UNCHANGED <<request, now, calls>>
    /\ UNCHANGED <<contract, listed, maintenance, booking>>

\* addMaintenance looks at both calendars and inserts its row afterwards.
AddMaintenance(w, v, p) ==
    /\ vehicle[v].contract # Nobody
    /\ \A m \in maintenance[v] : ~Overlap(m, p)
    /\ \A b \in ActiveOf(v) : ~Overlap(booking[b].period, p)
    /\ Take(w, "maintenance", v, NoVehicle, Nobody,
            [vehicle |-> v, period |-> p, state |-> "pending", shown |-> FALSE])

InsertMaintenance(w) ==
    /\ work[w].op = "maintenance"
    /\ LET v == work[w].on IN
          /\ vehicle[v].contract # Nobody
          /\ maintenance' = [maintenance EXCEPT ![v] = @ \cup {work[w].bill.period}]
          /\ strayed' = strayed \cup {work[x].booking : x \in Inserts(v)}
    /\ Leave(w)
    /\ UNCHANGED <<contract, listed, vehicle, booking, readmitted, torn>>

-----------------------------------------------------------------------------
\* rental-bill.service.ts, as far as it touches the fleet.  A bill has one
\* vehicle, and takes it once.

\* create and addVehicleToBill read the vehicle: its status and its
\* availability, not its contract, its dates or its maintenance.
Book(w, b, v, p) ==
    /\ booking[b].state = "none" /\ \A x \in Worker : work[x].booking # b
    /\ Bookable(v)
    /\ Take(w, "book", v, NoVehicle, b,
            [vehicle |-> v, period |-> p, state |-> "pending", shown |-> v \in Search(p)])

\* The detail, then the bill as it was read.  It may have been cancelled.
InsertDetail(w) ==
    /\ work[w].op = "book"
    /\ LET v == work[w].on
           b == work[w].booking
           met == {x \in Worker \ {w} : x \in Inserts(v) \/ TakesOut(x, v)}
       IN /\ vehicle[v].contract # Nobody
          /\ \E s \in {"pending", "cancelled"} :
                booking' = [booking EXCEPT ![b] = [work[w].bill EXCEPT !.state = s]]
          /\ strayed' = strayed \cup {work[x].booking : x \in Inserts(v) \ {w}}
                        \cup (IF met = {} THEN {} ELSE {b})
    /\ work' = [work EXCEPT ![w].op = "bill"]
    /\ UNCHANGED <<contract, listed, vehicle, maintenance, request, now, calls, readmitted, torn>>

\* The payment's notification or confirmation looks at no status.
Pay(b) ==
    /\ booking[b].vehicle # Nobody
    /\ booking' = [booking EXCEPT ![b].state = "paid"]
    /\ strayed' = IF Active(b) THEN strayed ELSE strayed \cup {b}
    /\ UNCHANGED <<contract, listed, vehicle, maintenance, request, work, now, calls,
                   readmitted, torn>>

\* complete, cancel and ownerConfirmReturn, which looks at the handover
\* only and may follow complete: the vehicle is saved as it was read,
\* available, and then the bill.
End(w, b) ==
    /\ booking[b].vehicle # Nobody
    /\ \E s \in {"completed", "cancelled"} :
          /\ IF s = "cancelled" THEN Active(b) ELSE booking[b].state \in {"paid", "completed"}
          /\ Take(w, "return", booking[b].vehicle,
                  [vehicle[booking[b].vehicle] EXCEPT !.availability = "available"],
                  b, [booking[b] EXCEPT !.state = s])

\* ownerCancel, before the rental begins.
OwnerCancel(w, b) ==
    /\ booking[b].state = "paid" /\ now < booking[b].period[1]
    /\ Take(w, "refund", booking[b].vehicle, NoVehicle, b, [booking[b] EXCEPT !.state = "cancelled"])

\* update and the steps of the handover save the bill as they read it.
Keep(w, b) ==
    /\ booking[b].state \in {"pending", "paid", "completed"}
    /\ Take(w, "bill", booking[b].vehicle, NoVehicle, b, booking[b])

\* checkTimeouts saves the bill without its vehicle.
Expire(w, b) ==
    /\ booking[b].state = "pending"
    /\ Take(w, "expire", booking[b].vehicle, NoVehicle, b, [booking[b] EXCEPT !.state = "cancelled"])

\* The save of a bill brings its detail back, whose vehicle must exist.
\* ownerCancel frees the vehicle in the same transaction.
SaveBill(w) ==
    /\ work[w].op \in {"bill", "refund"}
    /\ LET v == work[w].on
           b == work[w].booking
           bill == work[w].bill
       IN /\ vehicle[v].contract # Nobody
          /\ booking' = [booking EXCEPT ![b] = bill]
          /\ vehicle' = IF work[w].op = "refund"
                        THEN [vehicle EXCEPT ![v].availability = "available"] ELSE vehicle
          /\ strayed' = strayed \cup
                (IF bill.state \in Live /\ ~(Active(b) /\ bill = [booking[b] EXCEPT !.state = bill.state])
                 THEN {b} ELSE {})
    /\ Leave(w)
    /\ UNCHANGED <<contract, listed, maintenance, readmitted, torn>>

SaveExpired(w) ==
    /\ work[w].op = "expire" /\ booking[work[w].booking].vehicle # Nobody
    /\ booking' = [booking EXCEPT ![work[w].booking].state = "cancelled"]
    /\ Leave(w)
    /\ UNCHANGED <<contract, listed, vehicle, maintenance, history>>

Tick ==
    /\ now < MaxNow
    /\ now' = now + 1
    /\ UNCHANGED <<rows, request, work, calls, history>>

\* The controllers.
ContractRequest(c) == CreateContract(c) \/ DecideContract(c) \/ Suspend(c) \/ RemoveContract(c)

VehicleRequest(v) ==
    \/ \E c \in Contract : Register(v, c)
    \/ RemoveVehicle(v) \/ DecideVehicle(v)

OwnerRequest(w, v) ==
    \/ Update(w, v) \/ Disable(w, v) \/ Enable(w, v)
    \/ \E p \in Period : AddMaintenance(w, v, p)

BillRequest(w, b) ==
    \/ \E v \in Vehicle, p \in Period : Book(w, b, v, p)
    \/ End(w, b) \/ OwnerCancel(w, b) \/ Keep(w, b) \/ Expire(w, b)

Next ==
    \/ \E c \in Contract : ContractRequest(c)
    \/ \E v \in Vehicle : VehicleRequest(v)
    \/ SetVehiclesInactive \/ SaveSuspended \/ Count
    \/ \E w \in Worker :
          \/ \E v \in Vehicle : OwnerRequest(w, v)
          \/ \E b \in Booking : BillRequest(w, b)
          \/ SaveVehicle(w) \/ InsertMaintenance(w) \/ InsertDetail(w)
          \/ SaveBill(w) \/ SaveExpired(w) \/ GiveUp(w)
    \/ \E b \in Booking : Pay(b)
    \/ BreaksOff
    \/ Tick

Spec == Init /\ [][Next]_fleetVars

-----------------------------------------------------------------------------
\* Properties.

\* The moments of a period.
Moments(p) == p[1] .. (p[2] - 1)

\* A renter who booked what search showed shares no moment with another
\* booking of the vehicle or with its maintenance, unless the other booking
\* was made without being shown, or one of them overlapped another request
\* on the vehicle or came back after it had ended.  Booking checks no dates,
\* so this rests on search and addMaintenance alone.
ShownIsFree ==
    \A b \in Booking \ strayed : Active(b) /\ booking[b].shown =>
        /\ \A m \in maintenance[booking[b].vehicle] :
              Moments(m) \cap Moments(booking[b].period) = {}
        /\ \A a \in ActiveOf(booking[b].vehicle) \ (strayed \cup {b}) :
              booking[a].shown => Moments(booking[a].period) \cap Moments(booking[b].period) = {}

\* A vehicle its owner took out of service has no booking still to be served,
\* except one whose request overlapped another on the vehicle, the owner's
\* for one, or that came back after it had ended.
DisabledIsFree ==
    \A v \in Vehicle :
        vehicle[v].availability = "maintenance" =>
            \A b \in ActiveOf(v) \ strayed : booking[b].period[2] <= now

\* The vehicles of a suspended contract stay out of search and of new bills
\* until an administrator approves one again, or a request that had read the
\* row of before the suspension saves it: an owner's, or the end of a rental.
SuspendedStayOff ==
    \A c \in Contract : contract[c] = "suspended" =>
        \A v \in Of(c) : Bookable(v) => v \in readmitted

\* totalVehicles counts the contract's vehicles, except while a request is
\* between the row and the counter, and for a contract on which one broke
\* off there or a plate was registered again.
VehiclesCounted ==
    \A c \in Contract \ torn :
        contract[c] \notin {"none", "removed"} /\ ~(At("count") /\ request.on = c) =>
            listed[c] = Cardinality(Of(c))

=============================================================================
