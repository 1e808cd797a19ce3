-------------------------- MODULE PlatformProofs --------------------------
(***************************************************************************)
(* What the fleet services guarantee for every set of contracts, vehicles, *)
(* bookings and periods, although their requests overlap and break off;    *)
(* what the account services guarantee for every set of accounts and       *)
(* requests served at the same time; and what the two cron jobs guarantee  *)
(* for every calendar and set of events.                                   *)
(*                                                                         *)
(* Each part of an inductive invariant extends one property to what is     *)
(* under way: the row a request will save, the suspension between its two  *)
(* commits, the booking and the maintenance that are not inserted yet; the *)
(* requests that have checked a password and not opened a session; the     *)
(* check that has read some of its rows.                                   *)
(***************************************************************************)
EXTENDS Platform, SumTheorems, FiniteSetTheorems, SequenceTheorems, TLAPS

-----------------------------------------------------------------------------
\* The fleet.

Advancing == {"vehicles", "contract", "count"}
RequestRow ==
    {Idle}
    \cup [op: {"suspend"}, on: Contract, todo: {<<"vehicles", "contract">>, <<"contract">>}]
    \cup [op: {"register", "unregister"}, on: Contract, todo: {<<"count">>}]

BillOps == {"book", "return", "refund", "bill", "expire"}

\* What k, the work of some request, is about.
WorkOK(k) ==
    /\ k \in WorkRow
    /\ k.op # "none" => k.on \in Vehicle
    /\ k.op \in BillOps => k.booking \in Booking
    /\ k.op \in BillOps \cup {"maintenance"} => k.bill \in BillRow
    /\ k.op = "book" => k.bill.vehicle = k.on
    /\ k.row.availability = "maintenance" => k.op = "vehicle"

RowsOK ==
    /\ contract \in [Contract -> ContractStatus]
    /\ vehicle \in [Vehicle -> VehicleRow]
    /\ maintenance \in [Vehicle -> SUBSET Period]
    /\ booking \in [Booking -> BookingRow]
    /\ request \in RequestRow
    /\ work \in [Worker -> WorkRow]
    /\ \A w \in Worker : WorkOK(work[w])
    /\ now \in Nat

\* The bookings of v that no other request met.
Sound(v) == ActiveOf(v) \ strayed

\* Nothing is left to be served with v.
Unserved(v) == \A b \in Sound(v) : booking[b].period[2] <= now

DisabledInv ==
    /\ \A v \in Vehicle : vehicle[v].availability = "maintenance" => Unserved(v)
    /\ \A w \in Worker : work[w].row.availability = "maintenance" => Unserved(work[w].on)
    /\ \A w \in Worker : work[w].op = "book" /\ work[w].booking \notin strayed =>
          vehicle[work[w].on].availability # "maintenance"

\* c is suspended, or its vehicles have been and its own row comes next.
Suspending(c) == contract[c] = "suspended" \/ (At("contract") /\ request.on = c)

\* The availability of an approved vehicle may come back at any time: the
\* end of a bill, or its owner, sees to it.
SuspendedInv ==
    \A c \in Contract : Suspending(c) =>
        \A v \in Of(c) : vehicle[v].status = "approved" => v \in readmitted

\* v has no maintenance and no other shown booking in p.
FreeFor(v, p, b) ==
    /\ \A m \in maintenance[v] : ~Overlap(m, p)
    /\ \A a \in Sound(v) \ {b} : booking[a].shown => ~Overlap(booking[a].period, p)

\* No shown booking of v is in p.
NoneShown(v, p) == \A b \in Sound(v) : booking[b].shown => ~Overlap(booking[b].period, p)

ShownInv ==
    /\ \A b \in Booking \ strayed : Active(b) /\ booking[b].shown =>
          FreeFor(booking[b].vehicle, booking[b].period, b)
    /\ \A w \in Worker :
          work[w].op = "book" /\ work[w].booking \notin strayed /\ work[w].bill.shown =>
              FreeFor(work[w].on, work[w].bill.period, work[w].booking)
    /\ \A w \in Worker : work[w].op = "maintenance" => NoneShown(work[w].on, work[w].bill.period)

FleetInv == RowsOK /\ DisabledInv /\ SuspendedInv /\ ShownInv

-----------------------------------------------------------------------------
\* Rows and requests.

\* A booking that counts, or has a vehicle, is a bill with its period.
LEMMA ActiveFacts ==
    ASSUME RowsOK, NEW b \in Booking,
           booking[b].state \notin {"none", "gone"} \/ booking[b].vehicle # Nobody
    PROVE  /\ booking[b] \in BillRow
           /\ booking[b].vehicle \in Vehicle /\ booking[b].period \in Period
           /\ booking[b].period[1] \in Nat /\ booking[b].period[2] \in Nat
    <1>1. booking[b] # NoBooking /\ booking[b] # Gone
        BY DEF NoBooking, Gone
    <1>2. booking[b] \in BillRow
        BY <1>1 DEF RowsOK, BookingRow
    <1>3. booking[b].vehicle \in Vehicle /\ booking[b].period \in Period
        BY <1>2 DEF BillRow
    <1>4. QED
        BY <1>2, <1>3, PeriodAssumption

\* The same of a booking that still counts.
LEMMA SoundFacts ==
    ASSUME RowsOK, NEW v, NEW b \in Sound(v)
    PROVE  /\ b \in Booking /\ Active(b) /\ b \notin strayed /\ booking[b].vehicle = v
           /\ booking[b].period \in Period
           /\ booking[b].period[1] \in Nat /\ booking[b].period[2] \in Nat
    <1>1. b \in Booking /\ Active(b) /\ b \notin strayed /\ booking[b].vehicle = v
        BY DEF Sound, ActiveOf
    <1>2. booking[b].state \notin {"none", "gone"}
        BY <1>1 DEF Active, Live
    <1>3. QED
        BY <1>1, <1>2, ActiveFacts

\* What the request at a step is.
LEMMA RequestFacts ==
    ASSUME RowsOK
    PROVE  /\ At("vehicles") =>
                 /\ request.op = "suspend" /\ request.on \in Contract
                 /\ request.todo = <<"vehicles", "contract">>
           /\ At("contract") =>
                 request.on \in Contract /\ request.todo = <<"contract">>
           /\ At("count") => request.on \in Contract /\ request.todo = <<"count">>
    BY DEF RowsOK, RequestRow, At, Idle

\* After a step the request is done, or a suspension goes on to its contract.
LEMMA AdvanceFacts ==
    ASSUME RowsOK, Advance, request # Idle
    PROVE  /\ request' \in RequestRow
           /\ work' = work /\ now' = now
           /\ At("contract")' => At("vehicles") /\ request'.on = request.on
    <1>1. CASE request.todo = <<"vehicles", "contract">>
        <2>1. /\ request.op = "suspend" /\ request.on \in Contract
              /\ request \in [op: {"suspend"}, on: Contract,
                              todo: {<<"vehicles", "contract">>, <<"contract">>}]
            BY <1>1 DEF RowsOK, RequestRow, Idle
        <2>2. /\ request' \in [op: {"suspend"}, on: Contract, todo: {<<"contract">>}]
              /\ request'.on = request.on
            BY <1>1, <2>1 DEF Advance
        <2>3. request' \in RequestRow
            BY <2>2 DEF RequestRow
        <2>4. At("vehicles") /\ Head(request'.todo) = "contract"
            BY <1>1, <2>2 DEF At
        <2>5. QED
            BY <2>2, <2>3, <2>4 DEF At, Advance
    <1>2. CASE request.todo # <<"vehicles", "contract">>
        <2>1. Len(request.todo) = 1
            BY <1>2 DEF RowsOK, RequestRow, Idle
        <2>2. request' = Idle
            BY <2>1 DEF Advance
        <2>3. QED
            BY <2>2 DEF RequestRow, At, Advance
    <1>3. QED
        BY <1>1, <1>2

\* Rows that come into being or go away are rows.
LEMMA RowFacts ==
    /\ NoVehicle \in VehicleRow /\ NoVehicle.availability = "unavailable"
    /\ NoVehicle.status = "none" /\ NoVehicle.contract = Nobody
    /\ NoBooking \in BookingRow /\ Gone \in BookingRow
    /\ NoBooking.state = "none" /\ Gone.state = "gone"
    /\ WorkOK(NoWork) /\ NoWork.op = "none" /\ NoWork.row = NoVehicle
    /\ Idle \in RequestRow
    /\ \A w \in Advancing : request' = Idle => ~At(w)'
    <1>1. NoVehicle \in VehicleRow /\ NoVehicle.availability = "unavailable"
          /\ NoVehicle.status = "none" /\ NoVehicle.contract = Nobody
        BY DEF NoVehicle, VehicleRow, Availability
    <1>2. NoBooking \in BookingRow /\ Gone \in BookingRow
          /\ NoBooking.state = "none" /\ Gone.state = "gone"
        BY DEF BookingRow, NoBooking, Gone
    <1>3. /\ NoWork.op = "none" /\ NoWork.row = NoVehicle
          /\ NoWork \in WorkRow
        BY <1>1, <1>2 DEF NoWork, WorkRow
    <1>4. WorkOK(NoWork)
        BY <1>1, <1>3 DEF WorkOK, BillOps
    <1>5. QED
        BY <1>1, <1>2, <1>3, <1>4 DEF RequestRow, Idle, At

\* A bill that only changed its state is still the bill.
LEMMA StateFacts ==
    ASSUME NEW r \in BillRow, NEW s \in {"pending", "paid", "completed", "cancelled"}
    PROVE  /\ [r EXCEPT !.state = s] \in BillRow
           /\ [r EXCEPT !.state = s].state = s
           /\ [r EXCEPT !.state = s].vehicle = r.vehicle
           /\ [r EXCEPT !.state = s].period = r.period
           /\ [r EXCEPT !.state = s].shown = r.shown
    BY DEF BillRow

\* And a vehicle that was put in or out of service is still the vehicle.
LEMMA ServiceFacts ==
    ASSUME NEW r \in VehicleRow, NEW a \in Availability
    PROVE  /\ [r EXCEPT !.availability = a] \in VehicleRow
           /\ [r EXCEPT !.availability = a].availability = a
           /\ [r EXCEPT !.availability = a].status = r.status
           /\ [r EXCEPT !.availability = a].contract = r.contract
    BY DEF VehicleRow

\* The periods of bills are periods.
LEMMA BillFacts ==
    ASSUME NEW r \in BillRow
    PROVE  r.vehicle \in Vehicle /\ r.period \in Period /\ r.shown \in BOOLEAN
    BY DEF BillRow

-----------------------------------------------------------------------------
\* Steps that leave a part of the invariant alone.

\* No contract becomes suspended, and no vehicle approved unless the step
\* says so.
LEMMA SuspendedKept ==
    ASSUME SuspendedInv,
           \A c \in Contract : Suspending(c)' => Suspending(c),
           \A v \in Vehicle : vehicle'[v].status = "approved" =>
               \/ v \in readmitted'
               \/ /\ vehicle[v].status = "approved"
                  /\ vehicle'[v].contract = vehicle[v].contract
                  /\ v \in readmitted => v \in readmitted'
    PROVE  SuspendedInv'
    BY DEF SuspendedInv, Of

\* The bookings that counted and that no other request met are as they were.
SameBookings ==
    \A b \in Booking : Active(b)' /\ b \notin strayed' =>
        /\ Active(b) /\ b \notin strayed
        /\ booking'[b].vehicle = booking[b].vehicle
        /\ booking'[b].period = booking[b].period
        /\ booking'[b].shown = booking[b].shown

\* Such a step adds none to a vehicle's bookings.
LEMMA SoundKept ==
    ASSUME SameBookings, NEW v, NEW b \in Sound(v)'
    PROVE  /\ b \in Sound(v) /\ booking'[b].period = booking[b].period
           /\ booking'[b].shown = booking[b].shown
    BY DEF SameBookings, Sound, ActiveOf

\* Nor does it take the freedom of a vehicle.
LEMMA FreedomKept ==
    ASSUME RowsOK, now' \in Nat, now <= now', SameBookings, NEW v \in Vehicle
    PROVE  /\ Unserved(v) => Unserved(v)'
           /\ \A p, b : /\ \A m \in maintenance'[v] : m \in maintenance[v] \/ ~Overlap(m, p)
                        /\ FreeFor(v, p, b)
                        => FreeFor(v, p, b)'
           /\ \A p : NoneShown(v, p) => NoneShown(v, p)'
    <1>1. ASSUME NEW b \in Sound(v)'
          PROVE  /\ b \in Sound(v) /\ booking'[b].period = booking[b].period
                 /\ booking'[b].shown = booking[b].shown
        BY SoundKept
    <1>2. Unserved(v) => Unserved(v)'
        <2> SUFFICES ASSUME Unserved(v), NEW b \in Sound(v)'
                     PROVE  booking'[b].period[2] <= now'
            BY DEF Unserved
        <2>1. b \in Sound(v) /\ booking'[b].period = booking[b].period
            BY <1>1
        <2>2. booking[b].period[2] <= now /\ booking[b].period[2] \in Nat
            BY <2>1, SoundFacts DEF Unserved
        <2>3. QED
            BY <2>1, <2>2 DEF RowsOK
    <1>3. ASSUME NEW p, NEW b, FreeFor(v, p, b),
                 \A m \in maintenance'[v] : m \in maintenance[v] \/ ~Overlap(m, p)
          PROVE  FreeFor(v, p, b)'
        BY <1>1, <1>3 DEF FreeFor, Overlap
    <1>4. ASSUME NEW p, NoneShown(v, p) PROVE NoneShown(v, p)'
        BY <1>1, <1>4 DEF NoneShown, Overlap
    <1>5. QED
        BY <1>2, <1>3, <1>4

\* No vehicle is taken out of service, and nobody takes up a booking.
LEMMA DisabledKept ==
    ASSUME FleetInv, now' \in Nat, now <= now', SameBookings,
           \A v \in Vehicle : vehicle'[v].availability = "maintenance" =>
               vehicle[v].availability = "maintenance",
           strayed \subseteq strayed',
           \A w \in Worker : \/ work'[w] = work[w]
                             \/ /\ work'[w].op # "book"
                                /\ work'[w].row.availability # "maintenance"
    PROVE  DisabledInv'
    <1> USE DEF FleetInv
    <1>1. ASSUME NEW w \in Worker
          PROVE  /\ WorkOK(work[w])
                 /\ work[w].op # "none" => work[w].on \in Vehicle
                 /\ work[w].row.availability = "maintenance" => work[w].op # "none"
        BY DEF RowsOK, WorkOK
    <1>2. ASSUME NEW v \in Vehicle, vehicle'[v].availability = "maintenance"
          PROVE  Unserved(v)'
        BY <1>2, FreedomKept DEF DisabledInv
    <1>3. ASSUME NEW w \in Worker, work'[w].row.availability = "maintenance"
          PROVE  Unserved(work[w].on)'
        <2>1. work'[w] = work[w]
            BY <1>3
        <2>2. work[w].on \in Vehicle /\ Unserved(work[w].on)
            BY <1>1, <1>3, <2>1 DEF DisabledInv
        <2>3. ASSUME NEW u \in Vehicle, Unserved(u)
              PROVE  Unserved(u)'
            BY <2>3, FreedomKept
        <2>4. QED
            BY <2>1, <2>2, <2>3 DEF Unserved, Sound, ActiveOf
    <1>4. ASSUME NEW w \in Worker, work'[w].op = "book", work'[w].booking \notin strayed'
          PROVE  vehicle'[work'[w].on].availability # "maintenance"
        <2>1. work'[w] = work[w]
            BY <1>4
        <2>2. work[w].on \in Vehicle /\ work[w].booking \notin strayed
            BY <1>1, <1>4, <2>1
        <2>3. QED
            BY <1>4, <2>1, <2>2 DEF DisabledInv
    <1>5. QED
        BY <1>2, <1>3, <1>4 DEF DisabledInv

\* No booking and no maintenance appears, and nobody takes one up.
LEMMA ShownKept ==
    ASSUME FleetInv, now' \in Nat, now <= now', SameBookings,
           \A v \in Vehicle : maintenance'[v] \subseteq maintenance[v],
           strayed \subseteq strayed',
           \A w \in Worker : work'[w] = work[w] \/ work'[w].op \notin {"book", "maintenance"}
    PROVE  ShownInv'
    <1> USE DEF FleetInv
    <1>1. ASSUME NEW w \in Worker
          PROVE  /\ WorkOK(work[w])
                 /\ work[w].op # "none" => work[w].on \in Vehicle
                 /\ work[w].row.availability = "maintenance" => work[w].op # "none"
        BY DEF RowsOK, WorkOK
    <1>2. ASSUME NEW b \in Booking, b \notin strayed', Active(b)', booking'[b].shown
          PROVE  FreeFor(booking[b].vehicle, booking[b].period, b)'
        <2>1. /\ Active(b) /\ b \notin strayed /\ booking[b].shown
              /\ booking'[b].vehicle = booking[b].vehicle
              /\ booking'[b].period = booking[b].period
            BY <1>2 DEF SameBookings
        <2>2. booking[b].vehicle \in Vehicle
            BY <2>1, ActiveFacts DEF Active, Live
        <2>3. FreeFor(booking[b].vehicle, booking[b].period, b)
            BY <2>1 DEF ShownInv
        <2>4. ASSUME NEW u \in Vehicle, NEW q, FreeFor(u, q, b)
              PROVE  FreeFor(u, q, b)'
            BY <2>4, FreedomKept
        <2>5. QED
            BY <2>1, <2>2, <2>3, <2>4 DEF FreeFor, Sound, ActiveOf, Overlap
    <1>3. ASSUME NEW w \in Worker, work'[w].op = "book", work'[w].booking \notin strayed',
                 work'[w].bill.shown
          PROVE  FreeFor(work[w].on, work[w].bill.period, work[w].booking)'
        <2>1. work'[w] = work[w]
            BY <1>3
        <2>2. /\ work[w].on \in Vehicle
              /\ FreeFor(work[w].on, work[w].bill.period, work[w].booking)
            BY <1>1, <1>3, <2>1 DEF ShownInv
        <2>3. ASSUME NEW u \in Vehicle, NEW q, NEW b, FreeFor(u, q, b)
              PROVE  FreeFor(u, q, b)'
            BY <2>3, FreedomKept
        <2>4. QED
            BY <2>1, <2>2, <2>3 DEF FreeFor, Sound, ActiveOf, Overlap
    <1>4. ASSUME NEW w \in Worker, work'[w].op = "maintenance"
          PROVE  NoneShown(work[w].on, work[w].bill.period)'
        <2>1. work'[w] = work[w]
            BY <1>4
        <2>2. work[w].on \in Vehicle /\ NoneShown(work[w].on, work[w].bill.period)
            BY <1>1, <1>4, <2>1 DEF ShownInv
        <2>3. ASSUME NEW u \in Vehicle, NEW q, NoneShown(u, q)
              PROVE  NoneShown(u, q)'
            BY <2>3, FreedomKept
        <2>4. QED
            BY <2>1, <2>2, <2>3 DEF NoneShown, Sound, ActiveOf, Overlap
    <1>5. QED
        BY <1>2, <1>3, <1>4 DEF ShownInv

\* Neither of the two.
LEMMA Kept ==
    ASSUME FleetInv, RowsOK', SuspendedInv', now <= now', SameBookings,
           \A v \in Vehicle : vehicle'[v].availability = "maintenance" =>
               vehicle[v].availability = "maintenance",
           \A v \in Vehicle : maintenance'[v] \subseteq maintenance[v],
           strayed \subseteq strayed',
           \A w \in Worker : \/ work'[w] = work[w]
                             \/ /\ work'[w].op \notin {"book", "maintenance"}
                                /\ work'[w].row.availability # "maintenance"
    PROVE  FleetInv'
    <1>1. now' \in Nat
        BY DEF RowsOK
    <1>2. DisabledInv'
        BY <1>1, DisabledKept
    <1>3. ShownInv'
        BY <1>1, ShownKept
    <1>4. QED
        BY <1>2, <1>3 DEF FleetInv

\* The rows of the bookings and of the requests under way stay.
LEMMA BookingsKept ==
    ASSUME booking' = booking, strayed \subseteq strayed'
    PROVE  SameBookings
    BY DEF SameBookings, Active

\* A request on rows of contracts and vehicles that takes none out of service.
LEMMA RowsRequest ==
    ASSUME FleetInv, SuspendedInv',
           contract' \in [Contract -> ContractStatus], vehicle' \in [Vehicle -> VehicleRow],
           request' \in RequestRow, now' \in Nat, now <= now',
           \A v \in Vehicle : vehicle'[v].availability = "maintenance" =>
               vehicle[v].availability = "maintenance",
           UNCHANGED <<maintenance, booking, strayed, work>>
    PROVE  FleetInv'
    <1>1. RowsOK'
        BY DEF FleetInv, RowsOK
    <1>2. SameBookings
        BY BookingsKept
    <1>3. QED
        BY <1>1, <1>2, Kept

-----------------------------------------------------------------------------
\* The requests on contracts.

\* A contract is created, approved or rejected.
LEMMA DecideContractInv ==
    ASSUME FleetInv, NEW c \in Contract, NEW s \in {"pending", "approved", "rejected"},
           contract' = [contract EXCEPT ![c] = s], request' = request, work' = work,
           now' = now, UNCHANGED <<vehicle, maintenance, booking, readmitted, strayed>>
    PROVE  FleetInv'
    <1>1. /\ contract' \in [Contract -> ContractStatus] /\ vehicle' \in [Vehicle -> VehicleRow]
          /\ request' \in RequestRow /\ now' \in Nat /\ now <= now'
        BY DEF FleetInv, RowsOK, ContractStatus
    <1>2. \A d \in Contract : Suspending(d)' => Suspending(d)
        BY DEF FleetInv, RowsOK, Suspending, At
    <1>3. SuspendedInv'
        BY <1>2, SuspendedKept DEF FleetInv
    <1>4. QED
        BY <1>1, <1>3, RowsRequest

\* suspend begins with an approved contract; nothing is suspended yet.
LEMMA SuspendInv ==
    ASSUME FleetInv, NEW c \in Contract, Suspend(c)
    PROVE  FleetInv'
    <1>1. /\ contract[c] = "approved" /\ request = Idle
          /\ request' = [op |-> "suspend", on |-> c, todo |-> <<"vehicles", "contract">>]
          /\ readmitted' = readmitted \ Of(c)
          /\ UNCHANGED <<contract, vehicle, maintenance, booking, work, now, strayed>>
        BY DEF Suspend, Start, SuspendSteps, Call, rows
    <1>2. /\ contract' \in [Contract -> ContractStatus] /\ vehicle' \in [Vehicle -> VehicleRow]
          /\ request' \in RequestRow /\ now' \in Nat /\ now <= now'
        BY <1>1 DEF FleetInv, RowsOK, RequestRow
    <1>3. ~At("contract")' /\ ~At("contract")
        BY <1>1 DEF At, Idle
    <1>4. SuspendedInv'
        <2> SUFFICES ASSUME NEW d \in Contract, Suspending(d)', NEW v \in Of(d)',
                            vehicle'[v].status = "approved"
                     PROVE  v \in readmitted'
            BY DEF SuspendedInv
        <2>1. Suspending(d) /\ v \in Of(d) /\ vehicle[v].status = "approved" /\ d # c
            BY <1>1, <1>3 DEF Suspending, Of
        <2>2. v \in readmitted /\ v \notin Of(c)
            BY <2>1 DEF FleetInv, SuspendedInv, Of
        <2>3. QED
            BY <1>1, <2>2
    <1>5. QED
        BY <1>1, <1>2, <1>4, RowsRequest

\* Its first commit takes every vehicle of the contract out.
LEMMA SetVehiclesInactiveInv ==
    ASSUME FleetInv, SetVehiclesInactive
    PROVE  FleetInv'
    <1> DEFINE out(v) == [vehicle[v] EXCEPT !.status = "inactive",
                                            !.availability = "unavailable"]
    <1>1. /\ At("vehicles") /\ Advance /\ request # Idle
          /\ vehicle' = [v \in Vehicle |-> IF v \in Of(request.on) THEN out(v) ELSE vehicle[v]]
          /\ readmitted' = readmitted \ Of(request.on)
          /\ UNCHANGED <<contract, maintenance, booking, strayed>>
        BY DEF SetVehiclesInactive, At
    <1>2. /\ request' \in RequestRow /\ work' = work /\ now' = now
          /\ At("contract")' => request'.on = request.on
        BY <1>1, AdvanceFacts DEF FleetInv
    <1>3. ASSUME NEW v \in Vehicle
          PROVE  /\ vehicle'[v] \in VehicleRow
                 /\ vehicle'[v].contract = vehicle[v].contract
                 /\ v \in Of(request.on) => /\ vehicle'[v].status = "inactive"
                                            /\ vehicle'[v].availability = "unavailable"
                 /\ v \notin Of(request.on) => vehicle'[v] = vehicle[v]
        <2>1. vehicle[v] \in VehicleRow
            BY DEF FleetInv, RowsOK
        <2>2. /\ out(v) \in VehicleRow /\ out(v).contract = vehicle[v].contract
              /\ out(v).status = "inactive" /\ out(v).availability = "unavailable"
            BY <2>1 DEF VehicleRow, Availability
        <2> HIDE DEF out
        <2>3. QED
            BY <1>1, <2>1, <2>2
    <1>4. /\ vehicle' \in [Vehicle -> VehicleRow]
          /\ \A v \in Vehicle : vehicle'[v].availability = "maintenance" =>
                 vehicle[v].availability = "maintenance"
        BY <1>1, <1>3
    <1> HIDE DEF out
    <1>5. contract' \in [Contract -> ContractStatus] /\ now' \in Nat /\ now <= now'
        BY <1>1, <1>2 DEF FleetInv, RowsOK
    <1>6. SuspendedInv'
        <2> SUFFICES ASSUME NEW d \in Contract, Suspending(d)', NEW v \in Of(d)',
                            vehicle'[v].status = "approved"
                     PROVE  v \in readmitted'
            BY DEF SuspendedInv
        <2>1. v \in Vehicle /\ v \notin Of(request.on) /\ vehicle'[v] = vehicle[v]
            BY <1>3 DEF Of
        <2>2. v \in Of(d) /\ d # request.on
            BY <2>1 DEF Of
        <2>3. Suspending(d)
            BY <1>1, <1>2, <2>2 DEF Suspending
        <2>4. QED
            BY <1>1, <2>1, <2>2, <2>3 DEF FleetInv, SuspendedInv
    <1>7. QED
        BY <1>1, <1>2, <1>4, <1>5, <1>6, RowsRequest

\* Its second commit suspends the contract.
LEMMA SaveSuspendedInv ==
    ASSUME FleetInv, SaveSuspended
    PROVE  FleetInv'
    <1>1. /\ At("contract") /\ Advance /\ request # Idle
          /\ contract' = [contract EXCEPT ![request.on] = "suspended"]
          /\ UNCHANGED <<vehicle, maintenance, booking, readmitted, strayed>>
        BY DEF SaveSuspended, At, history
    <1>2. /\ request' \in RequestRow /\ work' = work /\ now' = now
          /\ request.on \in Contract /\ request.todo = <<"contract">>
        BY <1>1, AdvanceFacts, RequestFacts DEF FleetInv
    <1>3. ~At("contract")'
        BY <1>1, <1>2, AdvanceFacts DEF At, FleetInv
    <1>4. /\ contract' \in [Contract -> ContractStatus] /\ vehicle' \in [Vehicle -> VehicleRow]
          /\ now' \in Nat /\ now <= now'
        BY <1>1, <1>2 DEF FleetInv, RowsOK, ContractStatus
    <1>5. \A d \in Contract : Suspending(d)' => Suspending(d)
        BY <1>1, <1>3 DEF FleetInv, RowsOK, Suspending
    <1>6. SuspendedInv'
        BY <1>1, <1>5, SuspendedKept DEF FleetInv
    <1>7. QED
        BY <1>1, <1>2, <1>4, <1>6, RowsRequest

\* Rows of vehicles are deleted, with the maintenance and the bookings that
\* hang on them.
LEMMA DropInv ==
    ASSUME FleetInv, NEW vs \in SUBSET Vehicle, Drop(vs),
           contract' \in [Contract -> ContractStatus],
           \A c \in Contract : contract'[c] = "suspended" => contract[c] = "suspended",
           request' \in RequestRow, ~At("contract")', work' = work, now' = now
    PROVE  FleetInv'
    <1> USE DEF FleetInv
    <1>1. /\ vehicle' = [v \in Vehicle |-> IF v \in vs THEN NoVehicle ELSE vehicle[v]]
          /\ maintenance' = [v \in Vehicle |-> IF v \in vs THEN {} ELSE maintenance[v]]
          /\ booking' = [b \in Booking |-> IF booking[b].vehicle \in vs THEN Gone ELSE booking[b]]
          /\ readmitted' = readmitted \ vs /\ strayed' = strayed
        BY DEF Drop
    <1>2. RowsOK'
        BY <1>1, RowFacts DEF RowsOK
    <1>3. SameBookings
        <2> SUFFICES ASSUME NEW b \in Booking, Active(b)'
                     PROVE  Active(b) /\ booking'[b] = booking[b]
            BY <1>1 DEF SameBookings
        <2>1. booking'[b].state \in Live
            BY DEF Active
        <2>2. booking'[b] # Gone
            BY <2>1, RowFacts DEF Live
        <2>3. QED
            BY <1>1, <2>1, <2>2 DEF Active
    <1>4. SuspendedInv'
        <2>1. \A c \in Contract : Suspending(c)' => Suspending(c)
            BY DEF Suspending
        <2>2. \A v \in Vehicle : vehicle'[v].status = "approved" =>
                  v \notin vs /\ vehicle'[v] = vehicle[v]
            BY <1>1, RowFacts
        <2>3. QED
            BY <1>1, <2>1, <2>2, SuspendedKept
    <1>5. /\ \A v \in Vehicle : vehicle'[v].availability = "maintenance" =>
                 vehicle[v].availability = "maintenance"
          /\ \A v \in Vehicle : maintenance'[v] \subseteq maintenance[v]
          /\ now <= now'
        BY <1>1, RowFacts DEF RowsOK
    <1>6. QED
        BY <1>1, <1>2, <1>3, <1>4, <1>5, Kept

\* A contract is removed with its vehicles.
LEMMA RemoveContractInv ==
    ASSUME FleetInv, NEW c \in Contract, RemoveContract(c)
    PROVE  FleetInv'
    <1>1. /\ contract' = [contract EXCEPT ![c] = "removed"] /\ Drop(Of(c))
          /\ request = Idle /\ request' = Idle /\ work' = work /\ now' = now
        BY DEF RemoveContract, Alone, Call
    <1>2. /\ contract' \in [Contract -> ContractStatus]
          /\ \A d \in Contract : contract'[d] = "suspended" => contract[d] = "suspended"
        BY <1>1 DEF FleetInv, RowsOK, ContractStatus
    <1>3. request' \in RequestRow /\ ~At("contract")'
        BY <1>1, RowFacts DEF Advancing
    <1>4. Of(c) \in SUBSET Vehicle
        BY DEF Of
    <1>5. QED
        BY <1>1, <1>2, <1>3, <1>4, DropInv

\* A request that counts is no suspension.
LEMMA CountingFacts ==
    ASSUME NEW op \in {"register", "unregister"}, NEW c \in Contract,
           request' = [op |-> op, on |-> c, todo |-> <<"count">>]
    PROVE  request' \in RequestRow /\ ~At("contract")'
    BY DEF RequestRow, At

-----------------------------------------------------------------------------
\* The requests on vehicles.

\* A vehicle is removed; the counter follows.
LEMMA RemoveVehicleInv ==
    ASSUME FleetInv, NEW v \in Vehicle, RemoveVehicle(v)
    PROVE  FleetInv'
    <1>1. /\ vehicle[v].contract # Nobody /\ Drop({v}) /\ contract' = contract
          /\ work' = work /\ now' = now
          /\ request' = [op |-> "unregister", on |-> vehicle[v].contract,
                         todo |-> <<"count">>]
        BY DEF RemoveVehicle, Start, Call
    <1>2. vehicle[v].contract \in Contract
        BY <1>1 DEF FleetInv, RowsOK, VehicleRow
    <1>3. request' \in RequestRow /\ ~At("contract")'
        BY <1>1, <1>2, CountingFacts
    <1>4. contract' \in [Contract -> ContractStatus]
        BY <1>1 DEF FleetInv, RowsOK
    <1>5. QED
        BY <1>1, <1>3, <1>4, DropInv

\* One vehicle's row changes to row, which is not out of service; if it is
\* approved, an administrator did it.
LEMMA VehicleInv ==
    ASSUME FleetInv, NEW v \in Vehicle, NEW row \in VehicleRow,
           row.availability # "maintenance",
           row.status = "approved" => v \in readmitted',
           readmitted \subseteq readmitted' \cup {v},
           vehicle' = [vehicle EXCEPT ![v] = row],
           request' \in RequestRow, At("contract")' => At("contract") /\ request' = request,
           UNCHANGED <<contract, maintenance, booking, strayed, work, now>>
    PROVE  FleetInv'
    <1>1. /\ vehicle' \in [Vehicle -> VehicleRow] /\ vehicle'[v] = row
          /\ \A u \in Vehicle \ {v} : vehicle'[u] = vehicle[u]
        BY DEF FleetInv, RowsOK
    <1>2. /\ contract' \in [Contract -> ContractStatus] /\ now' \in Nat /\ now <= now'
          /\ \A u \in Vehicle : vehicle'[u].availability = "maintenance" =>
                 vehicle[u].availability = "maintenance"
        BY <1>1 DEF FleetInv, RowsOK
    <1>3. \A c \in Contract : Suspending(c)' => Suspending(c)
        BY DEF Suspending
    <1>4. \A u \in Vehicle : vehicle'[u].status = "approved" =>
              \/ u \in readmitted'
              \/ vehicle'[u] = vehicle[u] /\ (u \in readmitted => u \in readmitted')
        BY <1>1
    <1>5. SuspendedInv'
        BY <1>3, <1>4, SuspendedKept DEF FleetInv
    <1>6. QED
        BY <1>1, <1>2, <1>5, RowsRequest

\* A vehicle is registered; an administrator has not seen it yet.
LEMMA RegisterInv ==
    ASSUME FleetInv, NEW v \in Vehicle, NEW c \in Contract, Register(v, c)
    PROVE  FleetInv'
    <1> DEFINE row == [contract |-> c, status |-> "pending", availability |-> "unavailable"]
    <1>1. /\ vehicle' = [vehicle EXCEPT ![v] = row]
          /\ request' = [op |-> "register", on |-> c, todo |-> <<"count">>]
          /\ readmitted' = readmitted \ {v}
          /\ UNCHANGED <<contract, maintenance, booking, strayed, work, now>>
        BY DEF Register, Start, Call
    <1>2. /\ row \in VehicleRow /\ row.status = "pending"
          /\ row.availability = "unavailable"
        BY DEF VehicleRow, Availability
    <1>3. request' \in RequestRow /\ ~At("contract")'
        BY <1>1, CountingFacts
    <1> HIDE DEF row
    <1>4. QED
        BY <1>1, <1>2, <1>3, VehicleInv

\* approve and reject.
LEMMA DecideVehicleInv ==
    ASSUME FleetInv, NEW v \in Vehicle, DecideVehicle(v)
    PROVE  FleetInv'
    <1> DEFINE row(s, a) == [vehicle[v] EXCEPT !.status = s, !.availability = a]
    <1>1. \/ /\ vehicle' = [vehicle EXCEPT ![v] = row("approved", "available")]
             /\ readmitted' = readmitted \cup {v}
          \/ /\ vehicle' = [vehicle EXCEPT ![v] = row("rejected", "unavailable")]
             /\ readmitted' = readmitted
        BY DEF DecideVehicle, FleetInv, RowsOK
    <1>2. request' = request /\ UNCHANGED <<contract, maintenance, booking, strayed, work, now>>
        BY DEF DecideVehicle, Alone, Call
    <1>3. ASSUME NEW s \in {"approved", "rejected"}, NEW a \in {"available", "unavailable"}
          PROVE  /\ row(s, a) \in VehicleRow
                 /\ row(s, a).status = s /\ row(s, a).availability = a
        <2>1. vehicle[v] \in VehicleRow
            BY DEF FleetInv, RowsOK
        <2>2. QED
            BY <2>1 DEF VehicleRow, Availability
    <1>4. request' \in RequestRow
        BY <1>2 DEF FleetInv, RowsOK
    <1>5. At("contract")' => At("contract") /\ request' = request
        BY <1>2 DEF At
    <1> HIDE DEF row
    <1>6. CASE vehicle' = [vehicle EXCEPT ![v] = row("approved", "available")]
               /\ readmitted' = readmitted \cup {v}
        BY <1>2, <1>3, <1>4, <1>5, <1>6, VehicleInv
    <1>7. CASE vehicle' = [vehicle EXCEPT ![v] = row("rejected", "unavailable")]
               /\ readmitted' = readmitted
        BY <1>2, <1>3, <1>4, <1>5, <1>7, VehicleInv
    <1>8. QED
        BY <1>1, <1>6, <1>7

\* The counter, the clock, a request that breaks off, and stuttering.
LEMMA QuietInv ==
    ASSUME FleetInv, Count \/ BreaksOff \/ Tick \/ UNCHANGED fleetVars
    PROVE  FleetInv'
    <1>1. UNCHANGED <<contract, vehicle, maintenance, booking, readmitted, strayed, work>>
        BY DEF Count, BreaksOff, Tick, fleetVars, rows, history, Advance
    <1>2. /\ request' \in RequestRow
          /\ At("contract")' => At("contract") /\ request' = request
        <2>1. CASE Count
            <3>1. request.todo = <<"count">> /\ request' = Idle
                BY <2>1, RequestFacts DEF FleetInv, Count, Advance
            <3>2. QED
                BY <3>1, RowFacts DEF Advancing
        <2>2. CASE BreaksOff
            BY <2>2, RowFacts DEF BreaksOff, Advancing
        <2>3. CASE Tick \/ UNCHANGED fleetVars
            <3>1. request' = request
                BY <2>3 DEF Tick, fleetVars
            <3>2. QED
                BY <3>1 DEF FleetInv, RowsOK, At
        <2>4. QED
            BY <2>1, <2>2, <2>3
    <1>3. /\ contract' \in [Contract -> ContractStatus] /\ vehicle' \in [Vehicle -> VehicleRow]
          /\ \A v \in Vehicle : vehicle'[v].availability = "maintenance" =>
                 vehicle[v].availability = "maintenance"
        BY <1>1 DEF FleetInv, RowsOK
    <1>4. now' \in Nat /\ now <= now'
        <2>1. now' = now \/ now' = now + 1
            BY DEF Count, BreaksOff, Tick, fleetVars, Advance
        <2>2. QED
            BY <2>1 DEF FleetInv, RowsOK
    <1>5. SuspendedInv'
        <2>1. \A c \in Contract : Suspending(c)' => Suspending(c)
            BY <1>1, <1>2 DEF Suspending
        <2>2. QED
            BY <1>1, <2>1, SuspendedKept DEF FleetInv
    <1>6. QED
        BY <1>1, <1>2, <1>3, <1>4, <1>5, RowsRequest

-----------------------------------------------------------------------------
\* The requests that overlap.

\* The work of one request changes to k; contracts and their requests stay.
LEMMA WorkRows ==
    ASSUME RowsOK, NEW w \in Worker, NEW k, WorkOK(k), work' = [work EXCEPT ![w] = k],
           vehicle' \in [Vehicle -> VehicleRow], maintenance' \in [Vehicle -> SUBSET Period],
           booking' \in [Booking -> BookingRow],
           UNCHANGED <<contract, request, now>>
    PROVE  /\ RowsOK' /\ now' \in Nat /\ now <= now'
           /\ work'[w] = k /\ \A x \in Worker \ {w} : work'[x] = work[x]
           /\ \A c \in Contract : Suspending(c)' => Suspending(c)
    <1>1. k \in WorkRow
        BY DEF WorkOK
    <1>2. /\ work' \in [Worker -> WorkRow] /\ work'[w] = k
          /\ \A x \in Worker \ {w} : work'[x] = work[x]
        BY <1>1 DEF RowsOK
    <1>3. \A x \in Worker : WorkOK(work'[x])
        BY <1>2 DEF RowsOK
    <1>4. RowsOK'
        BY <1>2, <1>3 DEF RowsOK
    <1>5. QED
        BY <1>2, <1>4 DEF RowsOK, Suspending, At

\* A request is taken up that may put its vehicle out of service, book it or
\* plan its maintenance only while what it read allows that.
LEMMA TakeInv ==
    ASSUME FleetInv, NEW w \in Worker, NEW k, WorkOK(k), work' = [work EXCEPT ![w] = k],
           UNCHANGED <<rows, request, now, history>>,
           k.row.availability = "maintenance" => Unserved(k.on),
           k.op = "book" => /\ vehicle[k.on].availability # "maintenance"
                            /\ k.bill.shown => FreeFor(k.on, k.bill.period, k.booking),
           k.op = "maintenance" => NoneShown(k.on, k.bill.period)
    PROVE  FleetInv'
    <1> USE DEF FleetInv
    <1>1. UNCHANGED <<contract, vehicle, maintenance, booking, readmitted, strayed>>
        BY DEF rows, history
    <1>2. /\ vehicle' \in [Vehicle -> VehicleRow] /\ maintenance' \in [Vehicle -> SUBSET Period]
          /\ booking' \in [Booking -> BookingRow]
        BY <1>1 DEF RowsOK
    <1>3. /\ RowsOK' /\ work'[w] = k /\ \A x \in Worker \ {w} : work'[x] = work[x]
          /\ \A c \in Contract : Suspending(c)' => Suspending(c)
        BY <1>1, <1>2, WorkRows
    <1>4. SuspendedInv'
        BY <1>1, <1>3, SuspendedKept
    <1>5. /\ \A u : Unserved(u)' <=> Unserved(u)
          /\ \A u, p, b : FreeFor(u, p, b)' <=> FreeFor(u, p, b)
          /\ \A u, p : NoneShown(u, p)' <=> NoneShown(u, p)
        BY <1>1 DEF Unserved, FreeFor, NoneShown, Sound, ActiveOf, Active
    <1>6. DisabledInv'
        <2>1. \A v \in Vehicle : vehicle'[v].availability = "maintenance" => Unserved(v)
            BY <1>1 DEF DisabledInv
        <2>2. \A x \in Worker : work'[x].row.availability = "maintenance" => Unserved(work'[x].on)
            BY <1>3 DEF DisabledInv
        <2>3. \A x \in Worker : work'[x].op = "book" /\ work'[x].booking \notin strayed =>
                  vehicle[work'[x].on].availability # "maintenance"
            BY <1>3 DEF DisabledInv
        <2>4. \A x \in Worker : work'[x].row.availability = "maintenance" => Unserved(work[x].on)'
            BY <1>5, <2>2
        <2>5. QED
            BY <1>1, <1>5, <2>1, <2>3, <2>4 DEF DisabledInv
    <1>7. ShownInv'
        <2>1. ASSUME NEW b \in Booking, b \notin strayed', Active(b)', booking'[b].shown
              PROVE  FreeFor(booking[b].vehicle, booking[b].period, b)'
            <3>1. FreeFor(booking[b].vehicle, booking[b].period, b)
                BY <1>1, <2>1 DEF ShownInv, Active
            <3>2. QED
                BY <1>1, <3>1 DEF FreeFor, Sound, ActiveOf, Active
        <2>2. ASSUME NEW x \in Worker, work'[x].op = "book", work'[x].booking \notin strayed',
                     work'[x].bill.shown
              PROVE  FreeFor(work[x].on, work[x].bill.period, work[x].booking)'
            <3>1. FreeFor(work'[x].on, work'[x].bill.period, work'[x].booking)
                BY <1>1, <1>3, <2>2 DEF ShownInv
            <3>2. QED
                BY <1>5, <3>1
        <2>3. ASSUME NEW x \in Worker, work'[x].op = "maintenance"
              PROVE  NoneShown(work[x].on, work[x].bill.period)'
            <3>1. NoneShown(work'[x].on, work'[x].bill.period)
                BY <1>3, <2>3 DEF ShownInv
            <3>2. QED
                BY <1>5, <3>1
        <2>4. QED
            BY <2>1, <2>2, <2>3 DEF ShownInv
    <1>8. QED
        BY <1>3, <1>4, <1>6, <1>7

\* What Take puts down.
LEMMA TakeFacts ==
    ASSUME NEW w \in Worker, NEW op, NEW on, NEW row, NEW b, NEW bill,
           Take(w, op, on, row, b, bill)
    PROVE  /\ work' = [work EXCEPT ![w] =
                  [op |-> op, on |-> on, row |-> row, booking |-> b, bill |-> bill]]
           /\ UNCHANGED <<rows, request, now, history>>
    BY DEF Take, Call

\* update, disable and enable: what has future bookings is not disabled.
LEMMA EditInv ==
    ASSUME FleetInv, NEW w \in Worker, NEW v \in Vehicle, NEW a \in Availability,
           Edit(w, v, a), a = "maintenance" => Unserved(v)
    PROVE  FleetInv'
    <1> DEFINE row == [vehicle[v] EXCEPT !.availability = a]
               k == [op |-> "vehicle", on |-> v, row |-> row, booking |-> Nobody,
                     bill |-> NoBooking]
    <1>1. work' = [work EXCEPT ![w] = k] /\ UNCHANGED <<rows, request, now, history>>
        BY TakeFacts DEF Edit
    <1>2. row \in VehicleRow /\ row.availability = a
        BY ServiceFacts DEF FleetInv, RowsOK
    <1> HIDE DEF row
    <1>3. k \in WorkRow
        BY <1>2, RowFacts DEF WorkRow
    <1>4. k.op = "vehicle" /\ k.on = v /\ k.row.availability = a
        BY <1>2
    <1> HIDE DEF k
    <1>5. WorkOK(k)
        BY <1>3, <1>4 DEF WorkOK, BillOps
    <1>6. QED
        BY <1>1, <1>4, <1>5, TakeInv

\* The requests of an owner that read a vehicle's row.
LEMMA EditsInv ==
    ASSUME FleetInv, NEW w \in Worker, NEW v \in Vehicle,
           Update(w, v) \/ Disable(w, v) \/ Enable(w, v)
    PROVE  FleetInv'
    <1>1. vehicle[v] \in VehicleRow
        BY DEF FleetInv, RowsOK
    <1>2. CASE Update(w, v)
        <2>1. vehicle[v].availability \in Availability
            BY <1>1 DEF VehicleRow
        <2>2. vehicle[v].availability = "maintenance" => Unserved(v)
            BY DEF FleetInv, DisabledInv
        <2>3. QED
            BY <1>2, <2>1, <2>2, EditInv DEF Update
    <1>3. CASE Disable(w, v)
        <2>1. Unserved(v)
            <3> SUFFICES ASSUME NEW b \in Sound(v) PROVE booking[b].period[2] <= now
                BY DEF Unserved
            <3>1. /\ b \in ActiveOf(v) /\ booking[b].period[2] \in Nat
                BY SoundFacts DEF Sound, FleetInv
            <3>2. QED
                BY <1>3, <3>1 DEF Disable, FutureBookings, FleetInv, RowsOK
        <2>2. QED
            BY <1>3, <2>1, EditInv DEF Disable, Availability
    <1>4. CASE Enable(w, v)
        BY <1>4, EditInv DEF Enable, Availability
    <1>5. QED
        BY <1>2, <1>3, <1>4

\* addMaintenance finds no booking in the period, shown or not.
LEMMA AddMaintenanceInv ==
    ASSUME FleetInv, NEW w \in Worker, NEW v \in Vehicle, NEW p \in Period,
           AddMaintenance(w, v, p)
    PROVE  FleetInv'
    <1> DEFINE bill == [vehicle |-> v, period |-> p, state |-> "pending", shown |-> FALSE]
               k == [op |-> "maintenance", on |-> v, row |-> NoVehicle, booking |-> Nobody,
                     bill |-> bill]
    <1>1. work' = [work EXCEPT ![w] = k] /\ UNCHANGED <<rows, request, now, history>>
        BY TakeFacts DEF AddMaintenance
    <1>2. bill \in BillRow /\ bill.period = p
        BY DEF BillRow
    <1>3. NoneShown(v, p)
        BY DEF AddMaintenance, NoneShown, Sound
    <1> HIDE DEF bill
    <1>4. k \in WorkRow
        BY <1>2, RowFacts DEF WorkRow, BookingRow
    <1>5. /\ k.op = "maintenance" /\ k.on = v /\ k.row = NoVehicle /\ k.bill = bill
        OBVIOUS
    <1> HIDE DEF k
    <1>6. WorkOK(k) /\ k.row.availability # "maintenance"
        BY <1>2, <1>4, <1>5, RowFacts DEF WorkOK, BillOps
    <1>7. QED
        BY <1>1, <1>2, <1>3, <1>5, <1>6, TakeInv

\* A bill is created: what search showed is free.
LEMMA BookInv ==
    ASSUME FleetInv, NEW w \in Worker, NEW b \in Booking, NEW v \in Vehicle, NEW p \in Period,
           Book(w, b, v, p)
    PROVE  FleetInv'
    <1> DEFINE bill == [vehicle |-> v, period |-> p, state |-> "pending",
                        shown |-> v \in Search(p)]
               k == [op |-> "book", on |-> v, row |-> NoVehicle, booking |-> b, bill |-> bill]
    <1>1. /\ work' = [work EXCEPT ![w] = k] /\ UNCHANGED <<rows, request, now, history>>
          /\ vehicle[v].availability # "maintenance"
        BY TakeFacts DEF Book, Bookable
    <1>2. /\ bill \in BillRow /\ bill.vehicle = v /\ bill.period = p
          /\ bill.shown = (v \in Search(p))
        BY DEF BillRow
    <1>3. v \in Search(p) => FreeFor(v, p, b)
        BY DEF Search, FreeFor, Sound
    <1> HIDE DEF bill
    <1>4. k \in WorkRow
        BY <1>2, RowFacts DEF WorkRow, BookingRow
    <1>5. /\ k.op = "book" /\ k.on = v /\ k.row = NoVehicle /\ k.bill = bill /\ k.booking = b
        OBVIOUS
    <1> HIDE DEF k
    <1>6. WorkOK(k) /\ k.row.availability # "maintenance"
        BY <1>2, <1>4, <1>5, RowFacts DEF WorkOK, BillOps
    <1>7. QED
        BY <1>1, <1>2, <1>3, <1>5, <1>6, TakeInv

\* Work on a bill that exists already: no booking, and no vehicle out of service.
LEMMA BillWorkInv ==
    ASSUME FleetInv, NEW w \in Worker, NEW op \in {"return", "refund", "bill", "expire"},
           NEW v \in Vehicle, NEW row \in VehicleRow, row.availability # "maintenance",
           NEW b \in Booking, NEW bill \in BillRow, Take(w, op, v, row, b, bill)
    PROVE  FleetInv'
    <1> DEFINE k == [op |-> op, on |-> v, row |-> row, booking |-> b, bill |-> bill]
    <1>1. work' = [work EXCEPT ![w] = k] /\ UNCHANGED <<rows, request, now, history>>
        BY TakeFacts
    <1>2. k \in WorkRow
        BY DEF WorkRow, BookingRow
    <1>3. /\ k.op = op /\ k.on = v /\ k.row = row /\ k.bill = bill /\ k.booking = b
        OBVIOUS
    <1> HIDE DEF k
    <1>4. WorkOK(k) /\ k.row.availability # "maintenance"
        BY <1>2, <1>3 DEF WorkOK, BillOps
    <1>5. QED
        BY <1>1, <1>3, <1>4, TakeInv

\* complete, cancel, ownerConfirmReturn, ownerCancel, checkTimeouts, and the
\* saves of a bill as it was.
LEMMA BillRequestInv ==
    ASSUME FleetInv, NEW w \in Worker, NEW b \in Booking,
           End(w, b) \/ OwnerCancel(w, b) \/ Keep(w, b) \/ Expire(w, b)
    PROVE  FleetInv'
    <1>1. booking[b].vehicle # Nobody \/ booking[b].state \notin {"none", "gone"}
        BY DEF End, OwnerCancel, Keep, Expire
    <1>2. booking[b] \in BillRow /\ booking[b].vehicle \in Vehicle
        BY <1>1, ActiveFacts DEF FleetInv
    <1>3. /\ [booking[b] EXCEPT !.state = "completed"] \in BillRow
          /\ [booking[b] EXCEPT !.state = "cancelled"] \in BillRow
        BY <1>2, StateFacts
    <1> DEFINE row == [vehicle[booking[b].vehicle] EXCEPT !.availability = "available"]
    <1>4. row \in VehicleRow /\ row.availability = "available"
        BY <1>2, ServiceFacts DEF FleetInv, RowsOK, Availability
    <1>5. CASE End(w, b)
        <2>1. PICK s \in {"completed", "cancelled"} :
                  Take(w, "return", booking[b].vehicle, row, b, [booking[b] EXCEPT !.state = s])
            BY <1>5 DEF End
        <2> HIDE DEF row
        <2>2. QED
            BY <1>2, <1>3, <1>4, <2>1, BillWorkInv
    <1>6. NoVehicle \in VehicleRow /\ NoVehicle.availability # "maintenance"
        BY RowFacts
    <1>7. CASE OwnerCancel(w, b)
        BY <1>2, <1>3, <1>6, <1>7, BillWorkInv DEF OwnerCancel
    <1>8. CASE Keep(w, b)
        BY <1>2, <1>6, <1>8, BillWorkInv DEF Keep
    <1>9. CASE Expire(w, b)
        BY <1>2, <1>3, <1>6, <1>9, BillWorkInv DEF Expire
    <1>10. QED
        BY <1>5, <1>7, <1>8, <1>9

-----------------------------------------------------------------------------
\* Their saves.

\* A request gives up, or a bill that was read pending is saved cancelled.
LEMMA GiveUpInv ==
    ASSUME FleetInv, NEW w \in Worker, GiveUp(w)
    PROVE  FleetInv'
    <1>1. /\ work' = [work EXCEPT ![w] = NoWork] /\ UNCHANGED <<request, now>>
          /\ UNCHANGED <<contract, vehicle, maintenance, booking, readmitted, strayed>>
        BY DEF GiveUp, Leave, rows, history
    <1>2. /\ vehicle' \in [Vehicle -> VehicleRow] /\ maintenance' \in [Vehicle -> SUBSET Period]
          /\ booking' \in [Booking -> BookingRow]
        BY <1>1 DEF FleetInv, RowsOK
    <1>3. /\ RowsOK' /\ now <= now'
          /\ work'[w] = NoWork /\ \A x \in Worker \ {w} : work'[x] = work[x]
          /\ \A c \in Contract : Suspending(c)' => Suspending(c)
        BY <1>1, <1>2, RowFacts, WorkRows DEF FleetInv
    <1>4. SuspendedInv'
        BY <1>1, <1>3, SuspendedKept DEF FleetInv
    <1>5. SameBookings
        BY <1>1, BookingsKept
    <1>6. \A x \in Worker : \/ work'[x] = work[x]
                            \/ /\ work'[x].op \notin {"book", "maintenance"}
                               /\ work'[x].row.availability # "maintenance"
        BY <1>3, RowFacts
    <1>7. QED
        BY <1>1, <1>3, <1>4, <1>5, <1>6, Kept

\* One bill changes to row.  If it counts then and is not marked, it did
\* before, for the same vehicle and period.
LEMMA SameButOne ==
    ASSUME RowsOK, NEW b \in Booking, NEW row \in BillRow,
           booking' = [booking EXCEPT ![b] = row], strayed \subseteq strayed',
           row.state \in Live /\ b \notin strayed' =>
               /\ Active(b) /\ row.vehicle = booking[b].vehicle
               /\ row.period = booking[b].period /\ row.shown = booking[b].shown
    PROVE  SameBookings /\ booking' \in [Booking -> BookingRow]
    <1>1. row \in BookingRow
        BY DEF BookingRow
    <1>2. /\ booking' \in [Booking -> BookingRow] /\ booking'[b] = row
          /\ \A a \in Booking \ {b} : booking'[a] = booking[a]
        BY <1>1 DEF RowsOK
    <1>3. QED
        BY <1>2 DEF SameBookings, Active

\* A payment, whatever the bill's status: what it brings back is marked.
LEMMA PayInv ==
    ASSUME FleetInv, NEW b \in Booking, Pay(b)
    PROVE  FleetInv'
    <1> DEFINE row == [booking[b] EXCEPT !.state = "paid"]
    <1>1. booking[b] \in BillRow
        BY ActiveFacts DEF Pay, FleetInv
    <1>2. /\ row \in BillRow /\ row.vehicle = booking[b].vehicle
          /\ row.period = booking[b].period /\ row.shown = booking[b].shown
        BY <1>1, StateFacts
    <1>3. booking' = [booking EXCEPT ![b] = row]
        BY DEF Pay, FleetInv, RowsOK
    <1> HIDE DEF row
    <1>4. /\ strayed' = IF Active(b) THEN strayed ELSE strayed \cup {b}
          /\ UNCHANGED <<contract, vehicle, maintenance, request, work, now, readmitted>>
        BY DEF Pay
    <1>5. SameBookings /\ booking' \in [Booking -> BookingRow]
        BY <1>2, <1>3, <1>4, SameButOne DEF FleetInv
    <1>6. RowsOK' /\ now <= now'
        BY <1>4, <1>5 DEF FleetInv, RowsOK
    <1>7. SuspendedInv'
        <2>1. \A c \in Contract : Suspending(c)' => Suspending(c)
            BY <1>4 DEF Suspending, At
        <2>2. QED
            BY <1>4, <2>1, SuspendedKept DEF FleetInv
    <1>8. QED
        BY <1>4, <1>5, <1>6, <1>7, Kept

\* The save of a bill as it was read.
LEMMA SaveBillInv ==
    ASSUME FleetInv, NEW w \in Worker, SaveBill(w)
    PROVE  FleetInv'
    <1> DEFINE v == work[w].on
               b == work[w].booking
               bill == work[w].bill
    <1>1. /\ work[w].op \in {"bill", "refund"}
          /\ booking' = [booking EXCEPT ![b] = bill]
          /\ vehicle' = IF work[w].op = "refund"
                        THEN [vehicle EXCEPT ![v].availability = "available"] ELSE vehicle
          /\ strayed' = strayed \cup
                (IF bill.state \in Live /\ ~(Active(b) /\ bill = [booking[b] EXCEPT !.state = bill.state])
                 THEN {b} ELSE {})
          /\ work' = [work EXCEPT ![w] = NoWork]
          /\ UNCHANGED <<contract, maintenance, request, now, readmitted>>
        BY DEF SaveBill, Leave
    <1>2. v \in Vehicle /\ b \in Booking /\ bill \in BillRow
        BY <1>1 DEF FleetInv, RowsOK, WorkOK, BillOps
    <1>3. /\ vehicle' \in [Vehicle -> VehicleRow]
          /\ \A u \in Vehicle : /\ vehicle'[u].status = vehicle[u].status
                                /\ vehicle'[u].contract = vehicle[u].contract
                                /\ vehicle'[u].availability \in {vehicle[u].availability, "available"}
        <2>1. CASE vehicle' = vehicle
            BY <2>1 DEF FleetInv, RowsOK
        <2>2. CASE vehicle' # vehicle
            <3> DEFINE row == [vehicle[v] EXCEPT !.availability = "available"]
            <3>1. vehicle' = [vehicle EXCEPT ![v] = row]
                BY <1>1, <1>2, <2>2 DEF FleetInv, RowsOK
            <3>2. vehicle[v] \in VehicleRow /\ "available" \in Availability
                BY <1>2 DEF FleetInv, RowsOK, Availability
            <3>3. /\ row \in VehicleRow /\ row.status = vehicle[v].status
                  /\ row.contract = vehicle[v].contract /\ row.availability = "available"
                BY <3>2, ServiceFacts
            <3> HIDE DEF row
            <3>4. QED
                BY <1>2, <3>1, <3>3 DEF FleetInv, RowsOK
        <2>3. QED
            BY <2>1, <2>2
    <1>4. SameBookings /\ booking' \in [Booking -> BookingRow]
        <2>1. bill.state \in Live /\ b \notin strayed' =>
                  /\ Active(b) /\ bill.vehicle = booking[b].vehicle
                  /\ bill.period = booking[b].period /\ bill.shown = booking[b].shown
            <3> SUFFICES ASSUME bill.state \in Live, b \notin strayed'
                         PROVE  /\ Active(b) /\ bill.vehicle = booking[b].vehicle
                                /\ bill.period = booking[b].period
                                /\ bill.shown = booking[b].shown
                OBVIOUS
            <3>1. Active(b) /\ bill = [booking[b] EXCEPT !.state = bill.state]
                BY <1>1
            <3>2. booking[b] \in BillRow /\ bill.state \in {"pending", "paid", "completed", "cancelled"}
                BY <1>2, <3>1, ActiveFacts DEF FleetInv, Active, Live, BillRow
            <3> DEFINE r == [booking[b] EXCEPT !.state = bill.state]
            <3>3. /\ r.vehicle = booking[b].vehicle /\ r.period = booking[b].period
                  /\ r.shown = booking[b].shown
                BY <3>2, StateFacts
            <3>4. QED
                BY <3>1, <3>3
        <2>2. QED
            BY <1>1, <1>2, <2>1, SameButOne DEF FleetInv
    <1>5. /\ RowsOK' /\ now <= now'
          /\ work'[w] = NoWork /\ \A x \in Worker \ {w} : work'[x] = work[x]
          /\ \A c \in Contract : Suspending(c)' => Suspending(c)
        <2>1. maintenance' \in [Vehicle -> SUBSET Period]
            BY <1>1 DEF FleetInv, RowsOK
        <2>2. QED
            BY <1>1, <1>3, <1>4, <2>1, RowFacts, WorkRows DEF FleetInv
    <1>6. SuspendedInv'
        BY <1>1, <1>3, <1>5, SuspendedKept DEF FleetInv
    <1>7. /\ \A x \in Worker : \/ work'[x] = work[x]
                               \/ /\ work'[x].op \notin {"book", "maintenance"}
                                  /\ work'[x].row.availability # "maintenance"
          /\ \A u \in Vehicle : vehicle'[u].availability = "maintenance" =>
                 vehicle[u].availability = "maintenance"
          /\ strayed \subseteq strayed'
        BY <1>1, <1>3, <1>5, RowFacts
    <1>8. QED
        BY <1>1, <1>4, <1>5, <1>6, <1>7, Kept

\* The save of a bill whose time to pay is over.
LEMMA SaveExpiredInv ==
    ASSUME FleetInv, NEW w \in Worker, SaveExpired(w)
    PROVE  FleetInv'
    <1> DEFINE b == work[w].booking
               row == [booking[b] EXCEPT !.state = "cancelled"]
    <1>1. /\ work[w].op = "expire" /\ booking[b].vehicle # Nobody
          /\ work' = [work EXCEPT ![w] = NoWork]
          /\ UNCHANGED <<contract, vehicle, maintenance, request, now, readmitted, strayed>>
        BY DEF SaveExpired, Leave, history
    <1>2. b \in Booking
        BY <1>1 DEF FleetInv, RowsOK, WorkOK, BillOps
    <1>3. booking' = [booking EXCEPT ![b] = row]
        BY <1>2 DEF SaveExpired, FleetInv, RowsOK
    <1>4. row \in BillRow /\ row.state \notin Live
        <2>1. booking[b] \in BillRow
            BY <1>1, <1>2, ActiveFacts DEF FleetInv
        <2>2. QED
            BY <2>1, StateFacts DEF Live
    <1> HIDE DEF row
    <1>5. SameBookings /\ booking' \in [Booking -> BookingRow]
        BY <1>1, <1>2, <1>3, <1>4, SameButOne DEF FleetInv
    <1>6. /\ RowsOK' /\ now <= now'
          /\ work'[w] = NoWork /\ \A x \in Worker \ {w} : work'[x] = work[x]
          /\ \A c \in Contract : Suspending(c)' => Suspending(c)
        <2>1. vehicle' \in [Vehicle -> VehicleRow] /\ maintenance' \in [Vehicle -> SUBSET Period]
            BY <1>1 DEF FleetInv, RowsOK
        <2>2. QED
            BY <1>1, <1>5, <2>1, RowFacts, WorkRows DEF FleetInv
    <1>7. SuspendedInv'
        BY <1>1, <1>6, SuspendedKept DEF FleetInv
    <1>8. \A x \in Worker : \/ work'[x] = work[x]
                            \/ /\ work'[x].op \notin {"book", "maintenance"}
                               /\ work'[x].row.availability # "maintenance"
        BY <1>6, RowFacts
    <1>9. QED
        BY <1>1, <1>5, <1>6, <1>7, <1>8, Kept

\* The save of a whole vehicle.  It puts back out of service only what still
\* has nothing to serve, and marks the bookings that are on their way; it
\* brings back an approval only as something that is named.
LEMMA SaveVehicleInv ==
    ASSUME FleetInv, NEW w \in Worker, SaveVehicle(w)
    PROVE  FleetInv'
    <1> USE DEF FleetInv
    <1> DEFINE v == work[w].on
               row == work[w].row
    <1>1. /\ work[w].op \in {"vehicle", "return"}
          /\ vehicle' = [vehicle EXCEPT ![v] = row]
          /\ readmitted' = readmitted \cup
                (IF row.status = "approved"
                    /\ ~(vehicle[v].contract = row.contract /\ vehicle[v].status = "approved")
                 THEN {v} ELSE {})
          /\ strayed' = strayed \cup
                (IF TakesOut(w, v) THEN {work[x].booking : x \in Inserts(v)} ELSE {})
          /\ work' = IF work[w].op = "vehicle" THEN [work EXCEPT ![w] = NoWork]
                     ELSE [work EXCEPT ![w].op = "bill"]
          /\ UNCHANGED <<contract, maintenance, booking, request, now>>
        BY DEF SaveVehicle, Leave
    <1>2. WorkOK(work[w])
        BY DEF RowsOK
    <1>3. /\ v \in Vehicle /\ row \in VehicleRow
          /\ work[w].op = "return" => row.availability # "maintenance"
        BY <1>1, <1>2 DEF WorkOK, WorkRow
    <1>4. /\ vehicle' \in [Vehicle -> VehicleRow] /\ vehicle'[v] = row
          /\ \A u \in Vehicle \ {v} : vehicle'[u] = vehicle[u]
        BY <1>1, <1>3 DEF RowsOK
    <1>5. PICK k : /\ WorkOK(k) /\ work' = [work EXCEPT ![w] = k]
                   /\ k.op \notin {"book", "maintenance"} /\ k.row.availability # "maintenance"
        <2>1. CASE work[w].op = "vehicle"
            BY <1>1, <2>1, RowFacts
        <2>2. CASE work[w].op = "return"
            <3> DEFINE k == [work[w] EXCEPT !.op = "bill"]
            <3>1. work[w] \in WorkRow
                BY <1>2 DEF WorkOK
            <3>2. /\ k \in WorkRow /\ k.op = "bill" /\ k.on = v /\ k.row = row
                  /\ k.booking = work[w].booking /\ k.bill = work[w].bill
                BY <3>1 DEF WorkRow
            <3>3. work' = [work EXCEPT ![w] = k]
                BY <1>1, <2>2 DEF RowsOK
            <3> HIDE DEF k
            <3>4. WorkOK(k) /\ k.row.availability # "maintenance"
                BY <1>2, <1>3, <2>2, <3>2 DEF WorkOK, BillOps
            <3>5. QED
                BY <3>2, <3>3, <3>4
        <2>3. QED
            BY <1>1, <2>1, <2>2
    <1>6. /\ RowsOK' /\ now' \in Nat /\ now <= now'
          /\ work'[w] = k /\ \A x \in Worker \ {w} : work'[x] = work[x]
          /\ \A c \in Contract : Suspending(c)' => Suspending(c)
        <2>1. maintenance' \in [Vehicle -> SUBSET Period] /\ booking' \in [Booking -> BookingRow]
            BY <1>1 DEF RowsOK
        <2>2. QED
            BY <1>1, <1>4, <1>5, <2>1, WorkRows
    <1>7. SuspendedInv'
        <2>1. \A u \in Vehicle : vehicle'[u].status = "approved" =>
                  \/ u \in readmitted'
                  \/ /\ vehicle[u].status = "approved"
                     /\ vehicle'[u].contract = vehicle[u].contract
                     /\ u \in readmitted => u \in readmitted'
            BY <1>1, <1>4
        <2>2. QED
            BY <1>6, <2>1, SuspendedKept
    <1>8. SameBookings /\ strayed \subseteq strayed'
        BY <1>1, BookingsKept
    <1>9. DisabledInv'
        <2>1. CASE row.availability # "maintenance"
            <3>1. \A u \in Vehicle : vehicle'[u].availability = "maintenance" =>
                      vehicle[u].availability = "maintenance"
                BY <1>4, <2>1
            <3>2. \A x \in Worker : work'[x] = work[x] \/
                      (work'[x].op # "book" /\ work'[x].row.availability # "maintenance")
                BY <1>5, <1>6
            <3>3. QED
                BY <1>6, <1>8, <3>1, <3>2, DisabledKept
        <2>2. CASE row.availability = "maintenance"
            <3>1. \A u \in Vehicle : Unserved(u) => Unserved(u)'
                BY <1>6, <1>8, FreedomKept
            <3>2. ASSUME NEW u \in Vehicle, vehicle'[u].availability = "maintenance"
                  PROVE  Unserved(u)'
                <4>1. Unserved(u)
                    BY <1>4, <2>2, <3>2 DEF DisabledInv
                <4>2. QED
                    BY <3>1, <4>1
            <3>3. ASSUME NEW x \in Worker, work'[x].row.availability = "maintenance"
                  PROVE  Unserved(work[x].on)'
                <4>1. work'[x] = work[x]
                    BY <1>5, <1>6, <3>3
                <4>2. work[x].on \in Vehicle /\ Unserved(work[x].on)
                    BY <3>3, <4>1 DEF DisabledInv, RowsOK, WorkOK
                <4>3. ASSUME NEW u \in Vehicle, Unserved(u) PROVE Unserved(u)'
                    BY <3>1, <4>3
                <4>4. QED
                    BY <4>1, <4>2, <4>3 DEF Unserved, Sound, ActiveOf
            <3>4. ASSUME NEW x \in Worker, work'[x].op = "book", work'[x].booking \notin strayed'
                  PROVE  vehicle'[work'[x].on].availability # "maintenance"
                <4>1. work'[x] = work[x] /\ work[x].on \in Vehicle
                    BY <1>5, <1>6, <3>4 DEF RowsOK, WorkOK
                <4>2. work[x].on # v
                    BY <1>1, <2>2, <3>4, <4>1 DEF TakesOut, Inserts
                <4>3. QED
                    BY <1>1, <1>4, <3>4, <4>1, <4>2 DEF DisabledInv
            <3>5. QED
                BY <3>2, <3>3, <3>4 DEF DisabledInv
        <2>3. QED
            BY <2>1, <2>2
    <1>10. ShownInv'
        <2>1. \A x \in Worker : work'[x] = work[x] \/ work'[x].op \notin {"book", "maintenance"}
            BY <1>5, <1>6
        <2>2. \A u \in Vehicle : maintenance'[u] \subseteq maintenance[u]
            BY <1>1
        <2>3. QED
            BY <1>6, <1>8, <2>1, <2>2, ShownKept
    <1>11. QED
        BY <1>6, <1>7, <1>9, <1>10

\* Overlapping is mutual.
LEMMA OverlapIsMutual ==
    \A p, q \in Period : Overlap(p, q) <=> Overlap(q, p)
    <1> SUFFICES ASSUME NEW p \in Period, NEW q \in Period
                 PROVE  Overlap(p, q) <=> Overlap(q, p)
        OBVIOUS
    <1>1. p[1] \in Nat /\ p[2] \in Nat /\ q[1] \in Nat /\ q[2] \in Nat
        BY PeriodAssumption
    <1>2. QED
        BY <1>1 DEF Overlap

\* Maintenance is inserted where no shown booking is, and marks those on
\* their way.
LEMMA InsertMaintenanceInv ==
    ASSUME FleetInv, NEW w \in Worker, InsertMaintenance(w)
    PROVE  FleetInv'
    <1> USE DEF FleetInv
    <1> DEFINE v == work[w].on
               q == work[w].bill.period
    <1>1. /\ work[w].op = "maintenance"
          /\ maintenance' = [maintenance EXCEPT ![v] = @ \cup {q}]
          /\ strayed' = strayed \cup {work[x].booking : x \in Inserts(v)}
          /\ work' = [work EXCEPT ![w] = NoWork]
          /\ UNCHANGED <<contract, vehicle, booking, request, now, readmitted>>
        BY DEF InsertMaintenance, Leave
    <1>2. v \in Vehicle /\ q \in Period /\ NoneShown(v, q)
        <2>1. WorkOK(work[w])
            BY DEF RowsOK
        <2>2. v \in Vehicle /\ work[w].bill \in BillRow
            BY <1>1, <2>1 DEF WorkOK
        <2>3. QED
            BY <1>1, <2>2, BillFacts DEF ShownInv
    <1>3. /\ maintenance' \in [Vehicle -> SUBSET Period]
          /\ maintenance'[v] = maintenance[v] \cup {q}
          /\ \A u \in Vehicle \ {v} : maintenance'[u] = maintenance[u]
        BY <1>1, <1>2 DEF RowsOK
    <1>4. /\ RowsOK' /\ now' \in Nat /\ now <= now'
          /\ work'[w] = NoWork /\ \A x \in Worker \ {w} : work'[x] = work[x]
          /\ \A c \in Contract : Suspending(c)' => Suspending(c)
        <2>1. vehicle' \in [Vehicle -> VehicleRow] /\ booking' \in [Booking -> BookingRow]
            BY <1>1 DEF RowsOK
        <2>2. QED
            BY <1>1, <1>3, <2>1, RowFacts, WorkRows
    <1>5. SuspendedInv'
        BY <1>1, <1>4, SuspendedKept
    <1>6. SameBookings /\ strayed \subseteq strayed'
        BY <1>1, BookingsKept
    <1>7. DisabledInv'
        <2>1. \A x \in Worker : \/ work'[x] = work[x]
                                \/ /\ work'[x].op # "book"
                                   /\ work'[x].row.availability # "maintenance"
            BY <1>4, RowFacts
        <2>2. QED
            BY <1>1, <1>4, <1>6, <2>1, DisabledKept
    <1>8. ShownInv'
        <2>1. ASSUME NEW u \in Vehicle, NEW p, NEW b, FreeFor(u, p, b),
                     u = v => ~Overlap(q, p)
              PROVE  FreeFor(u, p, b)'
            <3>1. \A m \in maintenance'[u] : m \in maintenance[u] \/ ~Overlap(m, p)
                BY <1>3, <2>1
            <3>2. QED
                BY <1>4, <1>6, <2>1, <3>1, FreedomKept
        <2>2. ASSUME NEW b \in Booking, b \notin strayed', Active(b)', booking'[b].shown
              PROVE  FreeFor(booking[b].vehicle, booking[b].period, b)'
            <3> DEFINE u == booking[b].vehicle
                       p == booking[b].period
            <3>1. b \in Sound(u) /\ booking[b].shown
                BY <1>1, <2>2 DEF Sound, ActiveOf, Active
            <3>2. FreeFor(u, p, b)
                BY <3>1 DEF ShownInv, Sound, ActiveOf
            <3>3. u \in Vehicle /\ p \in Period
                BY <3>1, ActiveFacts, SoundFacts DEF Active, Live, Sound, ActiveOf
            <3>4. u = v => ~Overlap(q, p)
                BY <1>2, <3>1, <3>3, OverlapIsMutual DEF NoneShown
            <3>5. ASSUME NEW x \in Vehicle, NEW y, FreeFor(x, y, b), x = v => ~Overlap(q, y)
                  PROVE  FreeFor(x, y, b)'
                BY <2>1, <3>5
            <3>6. QED
                BY <1>1, <3>2, <3>3, <3>4, <3>5 DEF FreeFor, Sound, ActiveOf, Overlap
        <2>3. ASSUME NEW x \in Worker, work'[x].op = "book", work'[x].booking \notin strayed',
                     work'[x].bill.shown
              PROVE  FreeFor(work[x].on, work[x].bill.period, work[x].booking)'
            <3>1. work'[x] = work[x]
                BY <1>4, <2>3, RowFacts
            <3>2. /\ work[x].on \in Vehicle /\ work[x].on # v
                  /\ FreeFor(work[x].on, work[x].bill.period, work[x].booking)
                <4>1. work[x].booking \notin strayed /\ x \notin Inserts(v)
                    BY <1>1, <2>3, <3>1
                <4>2. QED
                    BY <2>3, <3>1, <4>1 DEF ShownInv, Inserts, RowsOK, WorkOK
            <3>3. ASSUME NEW u \in Vehicle, u # v, NEW p, NEW b, FreeFor(u, p, b)
                  PROVE  FreeFor(u, p, b)'
                BY <2>1, <3>3
            <3>4. QED
                BY <3>1, <3>2, <3>3 DEF FreeFor, Sound, ActiveOf, Overlap
        <2>4. ASSUME NEW x \in Worker, work'[x].op = "maintenance"
              PROVE  NoneShown(work[x].on, work[x].bill.period)'
            <3>1. work'[x] = work[x]
                BY <1>4, <2>4, RowFacts
            <3>2. work[x].on \in Vehicle /\ NoneShown(work[x].on, work[x].bill.period)
                BY <2>4, <3>1 DEF ShownInv, RowsOK, WorkOK
            <3>3. ASSUME NEW u \in Vehicle, NEW p, NoneShown(u, p)
                  PROVE  NoneShown(u, p)'
                BY <1>4, <1>6, <3>3, FreedomKept
            <3>4. QED
                BY <3>1, <3>2, <3>3 DEF NoneShown, Sound, ActiveOf, Overlap
        <2>5. QED
            BY <2>2, <2>3, <2>4 DEF ShownInv
    <1>9. QED
        BY <1>4, <1>5, <1>7, <1>8

\* A bill's detail is inserted.  Unless another request met it, its vehicle
\* is not being taken out and is as free as search found it.
LEMMA InsertDetailInv ==
    ASSUME FleetInv, NEW w \in Worker, InsertDetail(w)
    PROVE  FleetInv'
    <1> USE DEF FleetInv
    <1> DEFINE v == work[w].on
               b == work[w].booking
               bill == work[w].bill
               p == bill.period
               met == {x \in Worker \ {w} : x \in Inserts(v) \/ TakesOut(x, v)}
    <1>1. /\ work[w].op = "book"
          /\ \E s \in {"pending", "cancelled"} :
                booking' = [booking EXCEPT ![b] = [bill EXCEPT !.state = s]]
          /\ strayed' = strayed \cup {work[x].booking : x \in Inserts(v) \ {w}}
                        \cup (IF met = {} THEN {} ELSE {b})
          /\ work' = [work EXCEPT ![w].op = "bill"]
          /\ UNCHANGED <<contract, vehicle, maintenance, request, now, readmitted>>
        BY DEF InsertDetail
    <1>2. WorkOK(work[w])
        BY DEF RowsOK
    <1>3. /\ v \in Vehicle /\ b \in Booking /\ bill \in BillRow /\ bill.vehicle = v
          /\ p \in Period /\ work[w].row.availability # "maintenance"
        BY <1>1, <1>2, BillFacts DEF WorkOK, BillOps
    <1>4. PICK row \in BillRow :
              /\ booking' = [booking EXCEPT ![b] = row]
              /\ row.vehicle = v /\ row.period = p /\ row.shown = bill.shown
        <2>1. PICK s \in {"pending", "cancelled"} :
                  booking' = [booking EXCEPT ![b] = [bill EXCEPT !.state = s]]
            BY <1>1
        <2> DEFINE row == [bill EXCEPT !.state = s]
        <2>2. s \in {"pending", "paid", "completed", "cancelled"}
            OBVIOUS
        <2>3. /\ row \in BillRow /\ row.vehicle = bill.vehicle /\ row.period = bill.period
              /\ row.shown = bill.shown
            BY <1>3, <2>2, StateFacts
        <2>4. QED
            BY <1>3, <2>1, <2>3
    <1>5. /\ booking' \in [Booking -> BookingRow] /\ booking'[b] = row
          /\ \A a \in Booking \ {b} : booking'[a] = booking[a]
        BY <1>3, <1>4 DEF RowsOK, BookingRow
    <1>6. PICK k : /\ WorkOK(k) /\ work' = [work EXCEPT ![w] = k]
                   /\ k.op = "bill" /\ k.row.availability # "maintenance"
        <2> DEFINE k == [work[w] EXCEPT !.op = "bill"]
        <2>1. work[w] \in WorkRow
            BY <1>2 DEF WorkOK
        <2>2. /\ k \in WorkRow /\ k.op = "bill" /\ k.on = v /\ k.row = work[w].row
              /\ k.booking = b /\ k.bill = bill
            BY <2>1 DEF WorkRow
        <2>3. work' = [work EXCEPT ![w] = k]
            BY <1>1 DEF RowsOK
        <2> HIDE DEF k
        <2>4. WorkOK(k) /\ k.row.availability # "maintenance"
            BY <1>3, <2>2 DEF WorkOK, BillOps
        <2>5. QED
            BY <2>2, <2>3, <2>4
    <1>7. /\ RowsOK' /\ now' \in Nat /\ now <= now'
          /\ work'[w] = k /\ \A x \in Worker \ {w} : work'[x] = work[x]
          /\ \A c \in Contract : Suspending(c)' => Suspending(c)
        <2>1. vehicle' \in [Vehicle -> VehicleRow] /\ maintenance' \in [Vehicle -> SUBSET Period]
            BY <1>1 DEF RowsOK
        <2>2. QED
            BY <1>1, <1>5, <1>6, <2>1, WorkRows
    <1>8. SuspendedInv'
        BY <1>1, <1>7, SuspendedKept
    <1>9. ASSUME NEW x \in Worker, x # w
          PROVE  /\ x \in Inserts(v) => work[x].booking \in strayed'
                 /\ TakesOut(x, v) => b \in strayed'
        <2>1. x \in Inserts(v) => work[x].booking \in strayed'
            BY <1>1, <1>9
        <2>2. TakesOut(x, v) => b \in strayed'
            BY <1>1, <1>9
        <2>3. QED
            BY <2>1, <2>2
    <1>10. strayed \subseteq strayed'
        BY <1>1
    <1>11. ASSUME NEW u, NEW a \in Sound(u)'
           PROVE  /\ a # b => a \in Sound(u) /\ booking'[a] = booking[a]
                  /\ a = b => u = v /\ b \notin strayed'
        <2>1. a \in Booking /\ Active(a)' /\ booking'[a].vehicle = u /\ a \notin strayed'
            BY DEF Sound, ActiveOf
        <2>2. a # b => a \in Sound(u) /\ booking'[a] = booking[a]
            BY <1>5, <1>10, <2>1 DEF Sound, ActiveOf, Active
        <2>3. a = b => u = v /\ b \notin strayed'
            BY <1>4, <1>5, <2>1
        <2>4. QED
            BY <2>2, <2>3
    <1>12. DisabledInv'
        <2>1. ASSUME NEW u \in Vehicle, Unserved(u), u = v => b \in strayed'
              PROVE  Unserved(u)'
            <3> SUFFICES ASSUME NEW a \in Sound(u)' PROVE booking'[a].period[2] <= now'
                BY DEF Unserved
            <3>1. a # b
                BY <1>11, <2>1
            <3>2. a \in Sound(u) /\ booking'[a] = booking[a]
                BY <1>11, <3>1
            <3>3. QED
                BY <1>1, <2>1, <3>2 DEF Unserved
        <2>2. ASSUME NEW u \in Vehicle, vehicle'[u].availability = "maintenance"
              PROVE  Unserved(u)'
            <3>1. Unserved(u) /\ (u = v => b \in strayed)
                BY <1>1, <2>2 DEF DisabledInv
            <3>2. QED
                BY <1>10, <2>1, <3>1
        <2>3. ASSUME NEW x \in Worker, work'[x].row.availability = "maintenance"
              PROVE  Unserved(work[x].on)'
            <3>1. x # w /\ work'[x] = work[x]
                BY <1>6, <1>7, <2>3
            <3>2. work[x].on \in Vehicle /\ Unserved(work[x].on)
                BY <2>3, <3>1 DEF DisabledInv, RowsOK, WorkOK
            <3>3. work[x].on = v => b \in strayed'
                BY <1>9, <2>3, <3>1 DEF TakesOut
            <3>4. ASSUME NEW u \in Vehicle, Unserved(u), u = v => b \in strayed'
                  PROVE  Unserved(u)'
                BY <2>1, <3>4
            <3>5. QED
                BY <3>1, <3>2, <3>3, <3>4 DEF Unserved, Sound, ActiveOf
        <2>4. ASSUME NEW x \in Worker, work'[x].op = "book", work'[x].booking \notin strayed'
              PROVE  vehicle'[work'[x].on].availability # "maintenance"
            <3>1. work'[x] = work[x]
                BY <1>6, <1>7, <2>4
            <3>2. QED
                BY <1>1, <1>10, <2>4, <3>1 DEF DisabledInv
        <2>5. QED
            BY <2>2, <2>3, <2>4 DEF DisabledInv
    <1>13. ShownInv'
        <2>1. ASSUME NEW u, NEW q, NEW c, FreeFor(u, q, c),
                     u = v /\ b # c /\ b \notin strayed' /\ bill.shown => ~Overlap(p, q)
              PROVE  FreeFor(u, q, c)'
            <3>1. ASSUME NEW a \in Sound(u)', a # c, booking'[a].shown
                  PROVE  ~Overlap(booking'[a].period, q)
                <4>1. CASE a = b
                    <5>1. u = v /\ b \notin strayed' /\ bill.shown /\ booking'[a].period = p
                        BY <1>4, <1>5, <1>11, <3>1, <4>1
                    <5>2. QED
                        BY <2>1, <3>1, <4>1, <5>1
                <4>2. CASE a # b
                    <5>1. a \in Sound(u) /\ booking'[a] = booking[a]
                        BY <1>11, <4>2
                    <5>2. QED
                        BY <2>1, <3>1, <5>1 DEF FreeFor
                <4>3. QED
                    BY <4>1, <4>2
            <3>2. \A m \in maintenance'[u] : ~Overlap(m, q)
                BY <1>1, <2>1 DEF FreeFor
            <3>3. QED
                BY <3>1, <3>2 DEF FreeFor, Overlap
        <2>2. bill.shown /\ b \notin strayed => FreeFor(v, p, b)
            BY <1>1 DEF ShownInv
        <2>3. ASSUME NEW a \in Booking, a \notin strayed', Active(a)', booking'[a].shown
              PROVE  FreeFor(booking[a].vehicle, booking[a].period, a)'
            <3>1. CASE a = b
                <4>1. /\ FreeFor(v, p, a) /\ booking'[a].vehicle = v /\ booking'[a].period = p
                    BY <1>4, <1>5, <1>10, <2>2, <2>3, <3>1
                <4>2. ASSUME NEW u, NEW q, FreeFor(u, q, a)
                      PROVE  FreeFor(u, q, a)'
                    BY <2>1, <3>1, <4>2
                <4>3. QED
                    BY <4>1, <4>2 DEF FreeFor, Sound, ActiveOf, Overlap
            <3>2. CASE a # b
                <4> DEFINE u == booking[a].vehicle
                           q == booking[a].period
                <4>1. booking'[a] = booking[a] /\ a \in Sound(u) /\ booking[a].shown
                    BY <1>5, <1>10, <2>3, <3>2 DEF Sound, ActiveOf, Active
                <4>2. FreeFor(u, q, a) /\ q \in Period
                    BY <4>1, SoundFacts DEF ShownInv, Sound, ActiveOf
                <4>3. u = v /\ b \notin strayed' /\ bill.shown => ~Overlap(p, q)
                    <5> SUFFICES ASSUME u = v, b \notin strayed', bill.shown
                                 PROVE  ~Overlap(p, q)
                        OBVIOUS
                    <5>1. FreeFor(v, p, b)
                        BY <1>10, <2>2
                    <5>2. ~Overlap(q, p)
                        BY <3>2, <4>1, <5>1 DEF FreeFor
                    <5>3. QED
                        BY <1>3, <4>2, <5>2, OverlapIsMutual
                <4>4. ASSUME NEW x, NEW y, FreeFor(x, y, a),
                             x = v /\ b \notin strayed' /\ bill.shown => ~Overlap(p, y)
                      PROVE  FreeFor(x, y, a)'
                    BY <2>1, <4>4
                <4>5. QED
                    BY <4>1, <4>2, <4>3, <4>4 DEF FreeFor, Sound, ActiveOf, Overlap
            <3>3. QED
                BY <3>1, <3>2
        <2>4. ASSUME NEW x \in Worker, work'[x].op = "book", work'[x].booking \notin strayed',
                     work'[x].bill.shown
              PROVE  FreeFor(work[x].on, work[x].bill.period, work[x].booking)'
            <3>1. x # w /\ work'[x] = work[x]
                BY <1>6, <1>7, <2>4
            <3>2. /\ work[x].on \in Vehicle /\ work[x].on # v
                  /\ FreeFor(work[x].on, work[x].bill.period, work[x].booking)
                BY <1>9, <1>10, <2>4, <3>1 DEF ShownInv, Inserts, RowsOK, WorkOK
            <3>3. ASSUME NEW u \in Vehicle, u # v, NEW q, NEW c, FreeFor(u, q, c)
                  PROVE  FreeFor(u, q, c)'
                BY <2>1, <3>3
            <3>4. QED
                BY <3>1, <3>2, <3>3 DEF FreeFor, Sound, ActiveOf, Overlap
        <2>5. ASSUME NEW x \in Worker, work'[x].op = "maintenance"
              PROVE  NoneShown(work[x].on, work[x].bill.period)'
            <3>1. x # w /\ work'[x] = work[x]
                BY <1>6, <1>7, <2>5
            <3>2. /\ NoneShown(work[x].on, work[x].bill.period)
                  /\ work[x].on = v => b \in strayed'
                BY <1>9, <2>5, <3>1 DEF ShownInv, TakesOut
            <3>3. ASSUME NEW u, NEW q, NoneShown(u, q), u = v => b \in strayed'
                  PROVE  NoneShown(u, q)'
                <4> SUFFICES ASSUME NEW a \in Sound(u)', booking'[a].shown
                             PROVE  ~Overlap(booking'[a].period, q)
                    BY DEF NoneShown, Overlap
                <4>1. a \in Sound(u) /\ booking'[a] = booking[a]
                    BY <1>11, <3>3
                <4>2. QED
                    BY <3>3, <4>1 DEF NoneShown
            <3>4. QED
                BY <3>1, <3>2, <3>3 DEF NoneShown, Sound, ActiveOf, Overlap
        <2>6. QED
            BY <2>3, <2>4, <2>5 DEF ShownInv
    <1>14. QED
        BY <1>7, <1>8, <1>12, <1>13

-----------------------------------------------------------------------------
\* Every behaviour.

\* The invariant holds in the beginning, when nothing is listed.
LEMMA InitFleet == Init => FleetInv
    <1> SUFFICES ASSUME Init PROVE FleetInv
        OBVIOUS
    <1>1. /\ contract = [c \in Contract |-> "none"] /\ vehicle = [v \in Vehicle |-> NoVehicle]
          /\ maintenance = [v \in Vehicle |-> {}] /\ booking = [b \in Booking |-> NoBooking]
          /\ request = Idle /\ work = [w \in Worker |-> NoWork] /\ now = 0
        BY DEF Init
    <1>2. /\ \A v \in Vehicle : vehicle[v].availability # "maintenance"
          /\ \A w \in Worker : work[w].op = "none" /\ work[w].row.availability # "maintenance"
          /\ \A b \in Booking : ~Active(b)
          /\ \A w : ~At(w)
        BY <1>1, RowFacts DEF Active, Live, At
    <1>3. RowsOK
        <2>1. NoWork \in WorkRow
            BY RowFacts DEF WorkOK
        <2>2. QED
            BY <1>1, <2>1, RowFacts DEF RowsOK, ContractStatus
    <1>4. DisabledInv
        BY <1>2 DEF DisabledInv
    <1>5. SuspendedInv
        BY <1>1, <1>2 DEF SuspendedInv, Suspending
    <1>6. ShownInv
        BY <1>2 DEF ShownInv
    <1>7. QED
        BY <1>3, <1>4, <1>5, <1>6 DEF FleetInv

\* Every step preserves the invariant: one lemma per action.
LEMMA NextFleet == FleetInv /\ [Next]_fleetVars => FleetInv'
    <1> SUFFICES ASSUME FleetInv, [Next]_fleetVars PROVE FleetInv'
        OBVIOUS
    <1>1. CASE \E c \in Contract : ContractRequest(c)
        <2>1. PICK c \in Contract : ContractRequest(c)
            BY <1>1
        <2>2. CASE CreateContract(c) \/ DecideContract(c)
            <3>1. /\ \E s \in {"pending", "approved", "rejected"} :
                        contract' = [contract EXCEPT ![c] = s]
                  /\ request' = request /\ work' = work /\ now' = now
                  /\ UNCHANGED <<vehicle, maintenance, booking, readmitted, strayed>>
                BY <2>2 DEF CreateContract, DecideContract, Alone, Call, history
            <3>2. QED
                BY <3>1, DecideContractInv
        <2>3. QED
            BY <2>1, <2>2, SuspendInv, RemoveContractInv DEF ContractRequest
    <1>2. CASE \E v \in Vehicle : VehicleRequest(v)
        BY <1>2, RegisterInv, RemoveVehicleInv, DecideVehicleInv DEF VehicleRequest
    <1>3. CASE \E w \in Worker, v \in Vehicle : OwnerRequest(w, v)
        BY <1>3, EditsInv, AddMaintenanceInv DEF OwnerRequest
    <1>4. CASE \E w \in Worker, b \in Booking : BillRequest(w, b)
        BY <1>4, BookInv, BillRequestInv DEF BillRequest
    <1>5. CASE \E w \in Worker : SaveVehicle(w) \/ InsertMaintenance(w) \/ InsertDetail(w)
        BY <1>5, SaveVehicleInv, InsertMaintenanceInv, InsertDetailInv
    <1>6. CASE \E w \in Worker : SaveBill(w) \/ SaveExpired(w) \/ GiveUp(w)
        BY <1>6, SaveBillInv, SaveExpiredInv, GiveUpInv
    <1>7. CASE \E b \in Booking : Pay(b)
        BY <1>7, PayInv
    <1>8. CASE SetVehiclesInactive \/ SaveSuspended
        BY <1>8, SetVehiclesInactiveInv, SaveSuspendedInv
    <1>9. CASE Count \/ BreaksOff \/ Tick \/ UNCHANGED fleetVars
        BY <1>9, QuietInv
    <1>10. QED
        BY <1>1, <1>2, <1>3, <1>4, <1>5, <1>6, <1>7, <1>8, <1>9 DEF Next

\* Whatever requests overlap, payments come late and rows are saved stale:
\* types, what is out of service has nothing to serve, what is suspended is
\* off, what was shown is free, each with what is under way.
THEOREM FleetInvariant == Spec => []FleetInv
    <1>1. QED
        BY InitFleet, NextFleet, PTL DEF Spec

\* A vehicle its owner took out of service has nothing left to be served,
\* except bookings whose request overlapped another on the vehicle, or that
\* a late payment or a stale save brought back.
THEOREM DisabledAlwaysFree == Spec => []DisabledIsFree
    <1>1. FleetInv => DisabledIsFree
        BY DEF FleetInv, DisabledInv, DisabledIsFree, Unserved, Sound
    <1>2. QED
        BY <1>1, FleetInvariant, PTL

\* The vehicles of a suspended contract stay off until an administrator
\* approves one, or a request that had read it before saves it.
THEOREM SuspendedAlwaysOff == Spec => []SuspendedStayOff
    <1>1. FleetInv => SuspendedStayOff
        BY DEF FleetInv, SuspendedInv, SuspendedStayOff, Suspending, Bookable
    <1>2. QED
        BY <1>1, FleetInvariant, PTL

\* Periods that do not overlap share no moment.
LEMMA MomentsApart ==
    ASSUME NEW p \in Period, NEW q \in Period, ~Overlap(p, q)
    PROVE  Moments(p) \cap Moments(q) = {}
    <1>1. p[1] \in Nat /\ p[2] \in Nat /\ q[1] \in Nat /\ q[2] \in Nat
        BY PeriodAssumption
    <1>2. QED
        BY <1>1 DEF Moments, Overlap

\* A booking that search listed shares no moment with the vehicle's
\* maintenance or with another such booking, neither of which overlapped
\* another request on the vehicle or came back after its end.
THEOREM ShownAlwaysFree == Spec => []ShownIsFree
    <1>1. FleetInv => ShownIsFree
        <2> SUFFICES ASSUME FleetInv, NEW b \in Booking \ strayed, Active(b), booking[b].shown
                     PROVE  /\ \A m \in maintenance[booking[b].vehicle] :
                                  Moments(m) \cap Moments(booking[b].period) = {}
                            /\ \A a \in ActiveOf(booking[b].vehicle) \ (strayed \cup {b}) :
                                  booking[a].shown =>
                                      Moments(booking[a].period) \cap Moments(booking[b].period) = {}
            BY DEF ShownIsFree
        <2> USE DEF FleetInv
        <2>1. /\ booking[b].vehicle \in Vehicle /\ booking[b].period \in Period
              /\ FreeFor(booking[b].vehicle, booking[b].period, b)
            BY ActiveFacts DEF ShownInv, Active, Live
        <2>2. ASSUME NEW m \in maintenance[booking[b].vehicle]
              PROVE  Moments(m) \cap Moments(booking[b].period) = {}
            BY <2>1, MomentsApart DEF FreeFor, RowsOK
        <2>3. ASSUME NEW a \in ActiveOf(booking[b].vehicle) \ (strayed \cup {b}), booking[a].shown
              PROVE  Moments(booking[a].period) \cap Moments(booking[b].period) = {}
            <3>1. a \in Sound(booking[b].vehicle) \ {b}
                BY DEF Sound
            <3>2. booking[a].period \in Period
                BY <3>1, SoundFacts
            <3>3. QED
                BY <2>1, <2>3, <3>1, <3>2, MomentsApart DEF FreeFor
        <2>4. QED
            BY <2>2, <2>3
    <1>2. QED
        BY <1>1, FleetInvariant, PTL

-----------------------------------------------------------------------------
\* The counter of a contract and its vehicles.

\* What the counter of c still has to gain: a request is between the row and
\* the counter.
Behind(c) ==
    IF At("count") /\ request.on = c THEN IF request.op = "register" THEN 1 ELSE -1 ELSE 0

CountedInv ==
    /\ listed \in [Contract -> Int]
    /\ torn \subseteq Contract
    /\ \A c \in Contract \ torn :
          contract[c] # "removed" => listed[c] + Behind(c) = Cardinality(Of(c))
    /\ request.op = "suspend" => contract[request.on] # "removed"

\* The vehicles of a contract can be counted.
LEMMA OfFinite == ASSUME NEW c PROVE IsFiniteSet(Of(c)) /\ Cardinality(Of(c)) \in Nat
    BY RowsAssumption, FS_Subset, FS_CardinalityType DEF Of

\* No vehicle goes to or from a contract that is there and still counted, and
\* no request is before, or gets before, a counter.
LEMMA CountedKept ==
    ASSUME CountedInv, listed' = listed, torn \subseteq torn', torn' \subseteq Contract,
           \A c \in Contract \ torn' : contract'[c] # "removed" =>
               contract[c] # "removed" /\ Of(c)' = Of(c),
           \/ request' = request
           \/ ~At("count") /\ ~At("count")',
           request'.op = "suspend" => contract'[request'.on] # "removed"
    PROVE  CountedInv'
    <1>1. ASSUME NEW c PROVE Behind(c)' = Behind(c)
        BY DEF Behind, At
    <1>2. QED
        BY <1>1 DEF CountedInv

\* No vehicle changes hands.
LEMMA OwnersCounted ==
    ASSUME CountedInv, listed' = listed, torn' = torn, contract' = contract,
           \A v \in Vehicle : vehicle'[v].contract = vehicle[v].contract,
           \/ request' = request
           \/ /\ ~At("count") /\ ~At("count")'
              /\ request'.op = "suspend" => contract[request'.on] # "removed"
    PROVE  CountedInv'
    <1>1. \A c : Of(c)' = Of(c)
        BY DEF Of
    <1>2. torn' \subseteq Contract /\ (request'.op = "suspend" => contract'[request'.on] # "removed")
        BY DEF CountedInv
    <1>3. QED
        BY <1>1, <1>2, CountedKept

\* Between two requests nothing is behind.
LEMMA NothingBehind ==
    ASSUME request = Idle, CountedInv
    PROVE  \A c \in Contract \ torn : contract[c] # "removed" => listed[c] = Cardinality(Of(c))
    <1>1. \A c : Behind(c) = 0
        BY DEF Behind, At
    <1>2. QED
        BY <1>1 DEF CountedInv

\* A counter comes last in its request, and no other commit leads to one.
LEMMA NoCountNext ==
    ASSUME RowsOK, Advance, request # Idle
    PROVE  ~At("count")'
    <1>1. At("contract")' => At("vehicles")
        BY AdvanceFacts
    <1>2. CASE request.todo = <<"vehicles", "contract">>
        <2>1. request' = [request EXCEPT !.todo = <<"contract">>]
            BY <1>2 DEF Advance
        <2>2. request \in [op: {"suspend"}, on: Contract,
                           todo: {<<"vehicles", "contract">>, <<"contract">>}]
            BY <1>2 DEF RowsOK, RequestRow, Idle
        <2>3. Head(request'.todo) = "contract"
            BY <2>1, <2>2
        <2>4. QED
            BY <2>3 DEF At
    <1>3. CASE request.todo # <<"vehicles", "contract">>
        <2>1. Len(request.todo) = 1
            BY <1>3 DEF RowsOK, RequestRow, Idle
        <2>2. QED
            BY <2>1 DEF Advance, At
    <1>4. QED
        BY <1>2, <1>3

\* A plate is registered: one more for its contract, unless it was there.
LEMMA RegisterCounted ==
    ASSUME RowsOK, CountedInv, NEW v \in Vehicle, NEW c \in Contract, Register(v, c)
    PROVE  CountedInv'
    <1>1. /\ request = Idle
          /\ request' = [op |-> "register", on |-> c, todo |-> <<"count">>]
          /\ vehicle' = [vehicle EXCEPT ![v] =
                [contract |-> c, status |-> "pending", availability |-> "unavailable"]]
          /\ torn' = torn \cup ({vehicle[v].contract} \ {Nobody})
          /\ UNCHANGED <<listed, contract>> /\ contract[c] = "approved"
        BY DEF Register, Start
    <1>2. vehicle[v].contract \in Contract \cup {Nobody}
        BY DEF RowsOK, VehicleRow
    <1>3. /\ vehicle'[v].contract = c
          /\ \A u \in Vehicle \ {v} : vehicle'[u].contract = vehicle[u].contract
        BY <1>1 DEF RowsOK
    <1>4. Behind(c)' = 1 /\ \A d \in Contract \ {c} : Behind(d)' = 0
        BY <1>1 DEF Behind, At, Idle
    <1>5. ASSUME NEW d \in Contract \ torn', d # c, contract'[d] # "removed"
          PROVE  listed'[d] + Behind(d)' = Cardinality(Of(d))'
        <2>1. d \in Contract \ torn /\ vehicle[v].contract # d
            BY <1>1, RowsAssumption
        <2>2. Of(d)' = Of(d)
            BY <1>3, <1>5, <2>1 DEF Of
        <2>3. listed[d] = Cardinality(Of(d)) /\ listed[d] \in Int
            BY <1>1, <1>5, <2>1, NothingBehind DEF CountedInv
        <2>4. QED
            BY <1>1, <1>4, <1>5, <2>2, <2>3
    <1>6. ASSUME c \notin torn'
          PROVE  listed'[c] + Behind(c)' = Cardinality(Of(c))'
        <2>1. c \in Contract \ torn /\ vehicle[v].contract # c
            BY <1>1, <1>6, RowsAssumption
        <2>2. Of(c)' = Of(c) \cup {v} /\ v \notin Of(c)
            BY <1>3, <2>1 DEF Of
        <2>3. Cardinality(Of(c) \cup {v}) = Cardinality(Of(c)) + 1
            BY <2>2, OfFinite, FS_AddElement
        <2>4. listed[c] = Cardinality(Of(c))
            BY <1>1, <2>1, NothingBehind
        <2>5. QED
            BY <1>1, <1>4, <2>2, <2>3, <2>4
    <1>7. QED
        BY <1>1, <1>2, <1>5, <1>6 DEF CountedInv

\* A vehicle is removed: one less for the contract it was of.
LEMMA RemoveVehicleCounted ==
    ASSUME RowsOK, CountedInv, NEW v \in Vehicle, RemoveVehicle(v)
    PROVE  CountedInv'
    <1>1. PICK c \in Contract : c = vehicle[v].contract
        BY DEF RemoveVehicle, RowsOK, VehicleRow
    <1>2. /\ request = Idle
          /\ request' = [op |-> "unregister", on |-> c, todo |-> <<"count">>]
          /\ vehicle' = [u \in Vehicle |-> IF u \in {v} THEN NoVehicle ELSE vehicle[u]]
          /\ torn' = torn /\ listed' = listed /\ contract' = contract
        BY <1>1 DEF RemoveVehicle, Start, Drop
    <1>3. /\ vehicle'[v].contract = Nobody
          /\ \A u \in Vehicle \ {v} : vehicle'[u].contract = vehicle[u].contract
        BY <1>2 DEF NoVehicle
    <1>4. Behind(c)' = -1 /\ \A d \in Contract \ {c} : Behind(d)' = 0
        BY <1>2 DEF Behind, At, Idle
    <1>5. ASSUME NEW d \in Contract \ torn, d # c, contract'[d] # "removed"
          PROVE  listed'[d] + Behind(d)' = Cardinality(Of(d))'
        <2>1. Of(d)' = Of(d)
            BY <1>1, <1>3, <1>5, RowsAssumption DEF Of
        <2>2. listed[d] = Cardinality(Of(d)) /\ listed[d] \in Int
            BY <1>2, <1>5, NothingBehind DEF CountedInv
        <2>3. QED
            BY <1>2, <1>4, <1>5, <2>1, <2>2
    <1>6. ASSUME c \notin torn, contract'[c] # "removed"
          PROVE  listed'[c] + Behind(c)' = Cardinality(Of(c))'
        <2>1. Of(c)' = Of(c) \ {v} /\ v \in Of(c)
            BY <1>1, <1>3, RowsAssumption DEF Of
        <2>2. Cardinality(Of(c) \ {v}) = Cardinality(Of(c)) - 1
            BY <2>1, OfFinite, FS_RemoveElement
        <2>3. listed[c] = Cardinality(Of(c)) /\ listed[c] \in Int
            BY <1>2, <1>1, <1>6, NothingBehind DEF CountedInv
        <2>4. QED
            BY <1>2, <1>4, <2>1, <2>2, <2>3
    <1>7. QED
        BY <1>2, <1>1, <1>5, <1>6 DEF CountedInv

\* The counter follows.
LEMMA CountCounted ==
    ASSUME RowsOK, CountedInv, Count
    PROVE  CountedInv'
    <1> DEFINE c == request.on
               n == IF request.op = "register" THEN listed[c] + 1 ELSE listed[c] - 1
    <1>1. /\ At("count") /\ Advance /\ request # Idle
          /\ listed' = [listed EXCEPT ![c] = n]
          /\ torn' = torn /\ vehicle' = vehicle /\ contract' = contract
        BY DEF Count, At, history
    <1>2. c \in Contract /\ listed[c] \in Int
        BY <1>1, RequestFacts DEF CountedInv
    <1>3. \A d \in Contract : Behind(d)' = 0
        BY <1>1, NoCountNext DEF Behind
    <1>4. /\ n = listed[c] + Behind(c) /\ n \in Int
          /\ \A d \in Contract \ {c} : Behind(d) = 0
        BY <1>1, <1>2 DEF Behind
    <1> HIDE DEF n
    <1>5. listed' \in [Contract -> Int] /\ listed'[c] = n
        BY <1>1, <1>2, <1>4 DEF CountedInv
    <1>6. ASSUME NEW d \in Contract \ torn, contract'[d] # "removed"
          PROVE  listed'[d] + Behind(d)' = Cardinality(Of(d))'
        <2>1. Of(d)' = Of(d)
            BY <1>1 DEF Of
        <2>2. listed'[d] = listed[d] + Behind(d)
            BY <1>1, <1>2, <1>4, <1>5 DEF CountedInv
        <2>3. listed[d] + Behind(d) = Cardinality(Of(d))
            BY <1>1, <1>6 DEF CountedInv
        <2>4. QED
            BY <1>3, <2>1, <2>2, <2>3, <1>5
    <1>7. request' = Idle
        BY <1>1, RequestFacts DEF Advance
    <1>8. QED
        BY <1>1, <1>5, <1>6, <1>7 DEF CountedInv, Idle

\* A request that breaks off before the counter leaves it wrong for good.
LEMMA BreaksOffCounted ==
    ASSUME RowsOK, CountedInv, BreaksOff
    PROVE  CountedInv'
    <1>1. /\ request' = Idle /\ UNCHANGED <<listed, vehicle, contract>>
          /\ torn' = torn \cup (IF At("count") THEN {request.on} ELSE {})
        BY DEF BreaksOff, rows
    <1>2. torn' \subseteq Contract
        BY <1>1, RequestFacts DEF CountedInv
    <1>3. ASSUME NEW d \in Contract \ torn', contract'[d] # "removed"
          PROVE  listed'[d] + Behind(d)' = Cardinality(Of(d))'
        <2>1. d \in Contract \ torn /\ Behind(d) = 0
            BY <1>1 DEF Behind
        <2>2. Behind(d)' = 0
            BY <1>1 DEF Behind, At
        <2>3. Of(d)' = Of(d)
            BY <1>1 DEF Of
        <2>4. QED
            BY <1>1, <1>3, <2>1, <2>2, <2>3 DEF CountedInv
    <1>4. QED
        BY <1>1, <1>2, <1>3 DEF CountedInv, Idle

\* A contract goes, and its vehicles with it; it is counted no more.
LEMMA RemoveContractCounted ==
    ASSUME RowsOK, CountedInv, NEW c \in Contract, RemoveContract(c)
    PROVE  CountedInv'
    <1>1. /\ request = Idle /\ request' = Idle /\ listed' = listed /\ torn' = torn
          /\ contract' = [contract EXCEPT ![c] = "removed"]
          /\ vehicle' = [u \in Vehicle |-> IF u \in Of(c) THEN NoVehicle ELSE vehicle[u]]
        BY DEF RemoveContract, Alone, Drop
    <1>2. ASSUME NEW d \in Contract, contract'[d] # "removed"
          PROVE  contract[d] # "removed" /\ Of(d)' = Of(d)
        <2>1. d # c /\ contract'[d] = contract[d]
            BY <1>1, <1>2 DEF RowsOK
        <2>2. Of(d)' = Of(d)
            BY <1>1, <2>1, RowsAssumption DEF Of, NoVehicle
        <2>3. QED
            BY <1>2, <2>1, <2>2
    <1>3. torn' \subseteq Contract /\ request'.op # "suspend"
        BY <1>1 DEF CountedInv, Idle
    <1>4. QED
        BY <1>1, <1>2, <1>3, CountedKept

\* Decisions, suspensions and saves of a bill leave a vehicle its contract.
LEMMA SameContract ==
    ASSUME RowsOK,
           \/ \E v \in Vehicle : DecideVehicle(v)
           \/ \E w \in Worker : SaveBill(w)
           \/ SetVehiclesInactive
    PROVE  \A u \in Vehicle : vehicle'[u].contract = vehicle[u].contract
    <1> SUFFICES ASSUME NEW u \in Vehicle PROVE vehicle'[u].contract = vehicle[u].contract
        OBVIOUS
    <1>1. vehicle[u] \in VehicleRow
        BY DEF RowsOK
    <1>2. \A s, a : [vehicle[u] EXCEPT !.status = s, !.availability = a].contract
                       = vehicle[u].contract
        BY <1>1 DEF VehicleRow
    <1>3. CASE \E v \in Vehicle : DecideVehicle(v)
        <2>1. PICK v \in Vehicle, s \in {"approved", "rejected"},
                   a \in {"available", "unavailable"} :
                  vehicle' = [vehicle EXCEPT ![v] =
                      [vehicle[v] EXCEPT !.status = s, !.availability = a]]
            BY <1>3 DEF DecideVehicle
        <2>2. CASE u = v
            BY <1>2, <2>1, <2>2 DEF RowsOK
        <2>3. CASE u # v
            BY <2>1, <2>3 DEF RowsOK
        <2>4. QED
            BY <2>2, <2>3
    <1>4. CASE \E w \in Worker : SaveBill(w)
        <2>1. \A a : [vehicle[u] EXCEPT !.availability = a].contract = vehicle[u].contract
            BY <1>1 DEF VehicleRow
        <2>2. QED
            BY <1>4, <2>1 DEF SaveBill, RowsOK
    <1>5. CASE SetVehiclesInactive
        BY <1>2, <1>5 DEF SetVehiclesInactive
    <1>6. QED
        BY <1>3, <1>4, <1>5

\* The save of a whole vehicle: if it moves the vehicle, neither contract is
\* counted on any more.
LEMMA SaveVehicleCounted ==
    ASSUME RowsOK, CountedInv, NEW w \in Worker, SaveVehicle(w)
    PROVE  CountedInv'
    <1> DEFINE v == work[w].on
               row == work[w].row
    <1>1. /\ UNCHANGED <<listed, contract, request>>
          /\ vehicle' = [vehicle EXCEPT ![v] = row]
          /\ torn' = torn \cup (IF vehicle[v].contract = row.contract THEN {}
                                ELSE {row.contract, vehicle[v].contract} \ {Nobody})
        BY DEF SaveVehicle, Leave
    <1>2. v \in Vehicle /\ row \in VehicleRow
        BY DEF SaveVehicle, RowsOK, WorkOK, WorkRow
    <1>3. row.contract \in Contract \cup {Nobody} /\ vehicle[v].contract \in Contract \cup {Nobody}
        BY <1>2 DEF RowsOK, VehicleRow
    <1>4. vehicle'[v] = row /\ \A u \in Vehicle \ {v} : vehicle'[u] = vehicle[u]
        BY <1>1, <1>2 DEF RowsOK
    <1> HIDE DEF v, row
    <1>5. torn \subseteq torn' /\ torn' \subseteq Contract
        BY <1>1, <1>3 DEF CountedInv
    <1>6. ASSUME NEW c \in Contract \ torn'
          PROVE  Of(c)' = Of(c)
        <2>1. row.contract = c <=> vehicle[v].contract = c
            BY <1>1, RowsAssumption
        <2>2. QED
            BY <1>4, <2>1 DEF Of
    <1>7. request'.op = "suspend" => contract'[request'.on] # "removed"
        BY <1>1 DEF CountedInv
    <1>8. QED
        BY <1>1, <1>5, <1>6, <1>7, CountedKept

\* Nobody has vehicles in the beginning.
LEMMA InitCounted == Init => CountedInv
    <1> SUFFICES ASSUME Init PROVE CountedInv
        OBVIOUS
    <1>1. /\ listed = [c \in Contract |-> 0] /\ torn = {} /\ request = Idle
          /\ vehicle = [v \in Vehicle |-> NoVehicle]
        BY DEF Init
    <1>2. \A c \in Contract : Of(c) = {} /\ Behind(c) = 0
        BY <1>1, RowsAssumption DEF Of, NoVehicle, Behind, At
    <1>3. request.op # "suspend"
        BY <1>1 DEF Idle
    <1>4. QED
        BY <1>1, <1>2, <1>3, FS_EmptySet DEF CountedInv

\* Every step keeps the counters.
LEMMA NextCounted == FleetInv /\ CountedInv /\ [Next]_fleetVars => CountedInv'
    <1> SUFFICES ASSUME FleetInv, CountedInv, [Next]_fleetVars PROVE CountedInv'
        OBVIOUS
    <1>1. RowsOK
        BY DEF FleetInv
    <1>2. CASE \E c \in Contract : ContractRequest(c)
        <2>1. PICK c \in Contract : ContractRequest(c)
            BY <1>2
        <2>2. CASE CreateContract(c) \/ DecideContract(c)
            <3>1. /\ UNCHANGED <<listed, vehicle, torn, request>> /\ request = Idle
                  /\ contract[c] # "removed"
                  /\ \E s \in {"pending", "approved", "rejected"} :
                        contract' = [contract EXCEPT ![c] = s]
                BY <2>2 DEF CreateContract, DecideContract, Alone, history
            <3>2. \A d \in Contract : contract'[d] # "removed" =>
                      contract[d] # "removed" /\ Of(d)' = Of(d)
                BY <1>1, <3>1 DEF RowsOK, Of
            <3>3. torn' \subseteq Contract /\ request'.op # "suspend"
                BY <3>1 DEF CountedInv, Idle
            <3>4. QED
                BY <3>1, <3>2, <3>3, CountedKept
        <2>3. CASE Suspend(c)
            <3>1. /\ UNCHANGED <<listed, vehicle, torn, contract>> /\ ~At("count") /\ ~At("count")'
                  /\ request'.on = c /\ contract[c] # "removed"
                BY <2>3 DEF Suspend, Start, SuspendSteps, At, Idle, rows
            <3>2. QED
                BY <3>1, OwnersCounted
        <2>4. QED
            BY <1>1, <2>1, <2>2, <2>3, RemoveContractCounted DEF ContractRequest
    <1>3. CASE \E v \in Vehicle : VehicleRequest(v)
        <2>1. PICK v \in Vehicle : VehicleRequest(v)
            BY <1>3
        <2>2. CASE DecideVehicle(v)
            <3>1. UNCHANGED <<listed, torn, request, contract>>
                BY <2>2 DEF DecideVehicle, Alone
            <3>2. QED
                BY <1>1, <2>2, <3>1, SameContract, OwnersCounted
        <2>3. QED
            BY <1>1, <2>1, <2>2, RegisterCounted, RemoveVehicleCounted DEF VehicleRequest
    <1>4. CASE SetVehiclesInactive
        <2>1. /\ UNCHANGED <<listed, torn, contract>> /\ Advance /\ request # Idle
              /\ At("vehicles") /\ ~At("count")
            BY <1>4 DEF SetVehiclesInactive, At
        <2>2. request'.op = "suspend" => request'.on = request.on
            BY <1>1, <2>1, RequestFacts DEF Advance, Idle, RowsOK, RequestRow
        <2>3. contract[request.on] # "removed"
            BY <1>1, <2>1, RequestFacts DEF CountedInv
        <2>4. QED
            BY <1>1, <1>4, <2>1, <2>2, <2>3, NoCountNext, SameContract, OwnersCounted
    <1>5. CASE SaveSuspended
        <2>1. /\ UNCHANGED <<listed, torn, vehicle>> /\ Advance /\ At("contract") /\ ~At("count")
              /\ contract' = [contract EXCEPT ![request.on] = "suspended"]
            BY <1>5 DEF SaveSuspended, At, history
        <2>2. request' = Idle /\ request.on \in Contract
            BY <1>1, <2>1, RequestFacts DEF Advance
        <2>3. contract[request.on] # "removed"
            <3>1. request.op = "suspend"
                BY <1>1, <2>1 DEF RowsOK, RequestRow, At, Idle
            <3>2. QED
                BY <3>1 DEF CountedInv
        <2>4. \A d \in Contract : contract'[d] # "removed" =>
                  contract[d] # "removed" /\ Of(d)' = Of(d)
            BY <1>1, <2>1, <2>2, <2>3 DEF RowsOK, Of
        <2>5. torn' \subseteq Contract /\ request'.op # "suspend" /\ ~At("count")'
            BY <2>1, <2>2 DEF CountedInv, Idle, At
        <2>6. QED
            BY <2>1, <2>4, <2>5, CountedKept
    <1>6. CASE \E w \in Worker, v \in Vehicle : OwnerRequest(w, v)
        <2>1. UNCHANGED <<listed, vehicle, torn, request, contract>>
            BY <1>6 DEF OwnerRequest, Update, Disable, Enable, Edit, AddMaintenance, Take,
                        rows, history
        <2>2. QED
            BY <2>1, OwnersCounted
    <1>7. CASE \E w \in Worker, b \in Booking : BillRequest(w, b)
        <2>1. UNCHANGED <<listed, vehicle, torn, request, contract>>
            BY <1>7 DEF BillRequest, Book, End, OwnerCancel, Keep, Expire, Take, rows, history
        <2>2. QED
            BY <2>1, OwnersCounted
    <1>8. CASE \E w \in Worker : SaveVehicle(w)
        BY <1>1, <1>8, SaveVehicleCounted
    <1>9. CASE \E w \in Worker : SaveBill(w)
        <2>1. UNCHANGED <<listed, torn, request, contract>>
            BY <1>9 DEF SaveBill, Leave
        <2>2. QED
            BY <1>1, <1>9, <2>1, SameContract, OwnersCounted
    <1>10. CASE \/ \E w \in Worker : \/ InsertMaintenance(w) \/ InsertDetail(w)
                                    \/ SaveExpired(w) \/ GiveUp(w)
                \/ \E b \in Booking : Pay(b)
                \/ Tick \/ UNCHANGED fleetVars
        <2>1. UNCHANGED <<listed, vehicle, torn, request, contract>>
            BY <1>10 DEF InsertMaintenance, InsertDetail, SaveExpired, GiveUp, Leave, Pay, Tick,
                         rows, history, fleetVars
        <2>2. QED
            BY <2>1, OwnersCounted
    <1>11. CASE Count \/ BreaksOff
        BY <1>1, <1>11, CountCounted, BreaksOffCounted
    <1>12. QED
        BY <1>2, <1>3, <1>4, <1>5, <1>6, <1>7, <1>8, <1>9, <1>10, <1>11 DEF Next

\* totalVehicles counts the contract's vehicles, however registrations,
\* removals and suspensions break off, except where a request broke off
\* before the counter or moved a vehicle between contracts.
THEOREM VehiclesAlwaysCounted == Spec => []VehiclesCounted
    <1>1. CountedInv => VehiclesCounted
        BY DEF CountedInv, Behind, VehiclesCounted
    <1>2. Spec => []CountedInv
        BY InitCounted, NextCounted, FleetInvariant, PTL DEF Spec
    <1>3. QED
        BY <1>1, <1>2, PTL

-----------------------------------------------------------------------------
\* Types of the fleet: a counter is at most as far from zero as there have
\* been requests, and a request that is to change one has been counted.

Slack == IF At("count") THEN 1 ELSE 0

CallsInv ==
    /\ now \in 0 .. MaxNow /\ calls \in 0 .. MaxCalls
    /\ listed \in [Contract -> Int]
    /\ \A c \in Contract : Slack - calls <= listed[c] /\ listed[c] <= calls - Slack
    /\ readmitted \subseteq Vehicle /\ strayed \subseteq Booking /\ torn \subseteq Contract

\* A step that leaves the counters alone.
LEMMA CallsKept ==
    ASSUME CallsInv, UNCHANGED listed, calls' \in {calls, calls + 1}, calls' <= MaxCalls,
           At("count")' => At("count") \/ calls' = calls + 1,
           now' \in 0 .. MaxNow,
           readmitted' \subseteq Vehicle, strayed' \subseteq Booking, torn' \subseteq Contract
    PROVE  CallsInv'
    <1>1. calls \in Nat /\ calls' \in 0 .. MaxCalls
        BY BoundsAssumption DEF CallsInv
    <1>2. \A c \in Contract : listed'[c] = listed[c] /\ listed[c] \in Int
        BY DEF CallsInv
    <1>3. Slack \in {0, 1} /\ Slack' \in {0, 1} /\ (Slack' = 1 => Slack = 1 \/ calls' = calls + 1)
        <2>1. At("count") => Slack = 1
            BY DEF Slack
        <2>2. ~At("count")' => Slack' = 0
            BY DEF Slack
        <2>3. Slack \in {0, 1} /\ Slack' \in {0, 1}
            BY DEF Slack
        <2>4. QED
            BY <2>1, <2>2, <2>3
    <1>4. ASSUME NEW c \in Contract
          PROVE  Slack' - calls' <= listed'[c] /\ listed'[c] <= calls' - Slack'
        <2>1. /\ listed'[c] = listed[c] /\ listed[c] \in Int
              /\ Slack - calls <= listed[c] /\ listed[c] <= calls - Slack
            BY <1>2 DEF CallsInv
        <2>2. calls \in Nat /\ calls' \in {calls, calls + 1}
            BY <1>1
        <2>3. QED
            BY <1>3, <2>1, <2>2
    <1>5. listed' \in [Contract -> Int]
        BY DEF CallsInv
    <1>6. QED
        BY <1>1, <1>4, <1>5 DEF CallsInv

\* The counter moves by one, and the request that was counted is done.
LEMMA CountCalls ==
    ASSUME RowsOK, CallsInv, Count
    PROVE  CallsInv'
    <1> DEFINE n == IF request.op = "register" THEN listed[request.on] + 1
                    ELSE listed[request.on] - 1
    <1>1. /\ At("count") /\ Advance /\ request # Idle
          /\ listed' = [listed EXCEPT ![request.on] = n]
          /\ UNCHANGED <<readmitted, strayed, torn, now, calls>>
        BY DEF Count, At, history, Advance
    <1>2. ~At("count")'
        BY <1>1, NoCountNext
    <1>3. Slack = 1 /\ Slack' = 0 /\ calls \in Nat
        BY <1>1, <1>2, BoundsAssumption DEF Slack, CallsInv
    <1>4. request.on \in Contract /\ listed[request.on] \in Int
        BY <1>1, RequestFacts DEF CallsInv
    <1>5. /\ n \in Int /\ listed[request.on] - 1 <= n /\ n <= listed[request.on] + 1
        BY <1>4
    <1> HIDE DEF n
    <1>6. listed' \in [Contract -> Int]
        BY <1>1, <1>5 DEF CallsInv
    <1>7. ASSUME NEW c \in Contract
          PROVE  0 - calls <= listed'[c] /\ listed'[c] <= calls
        <2>1. listed[c] \in Int /\ 1 - calls <= listed[c] /\ listed[c] <= calls - 1
            BY <1>3 DEF CallsInv
        <2>2. listed'[c] \in {listed[c], n} /\ (c # request.on => listed'[c] = listed[c])
            BY <1>1 DEF CallsInv
        <2>3. QED
            BY <1>3, <1>5, <2>1, <2>2
    <1>8. QED
        BY <1>1, <1>3, <1>6, <1>7 DEF CallsInv

\* A booking that a request is about is one of the bookings.
LEMMA MarkedFacts ==
    ASSUME RowsOK, NEW v
    PROVE  {work[x].booking : x \in Inserts(v)} \subseteq Booking
    BY DEF RowsOK, WorkOK, BillOps, Inserts

\* The saves of requests that overlap leave the counters and the calls alone.
LEMMA SavesCalls ==
    ASSUME RowsOK, CallsInv, NEW w \in Worker,
           \/ SaveVehicle(w) \/ InsertMaintenance(w) \/ InsertDetail(w)
           \/ SaveBill(w) \/ SaveExpired(w) \/ GiveUp(w)
    PROVE  CallsInv'
    <1>1. UNCHANGED <<listed, request, now, calls>>
        BY DEF SaveVehicle, InsertMaintenance, InsertDetail, SaveBill, SaveExpired, GiveUp,
               Leave, rows
    <1>2. WorkOK(work[w])
        BY DEF RowsOK
    <1>3. /\ calls \in Nat /\ calls <= MaxCalls /\ now \in 0 .. MaxNow
          /\ readmitted \subseteq Vehicle /\ strayed \subseteq Booking /\ torn \subseteq Contract
        BY BoundsAssumption DEF CallsInv
    <1>4. readmitted' \subseteq Vehicle /\ strayed' \subseteq Booking /\ torn' \subseteq Contract
        <2>1. CASE SaveVehicle(w)
            <3>1. work[w].on \in Vehicle /\ work[w].row \in VehicleRow
                BY <1>2, <2>1 DEF SaveVehicle, WorkOK, WorkRow
            <3>2. /\ work[w].row.contract \in Contract \cup {Nobody}
                  /\ vehicle[work[w].on].contract \in Contract \cup {Nobody}
                BY <3>1 DEF RowsOK, VehicleRow
            <3>3. readmitted' \subseteq readmitted \cup {work[w].on}
                BY <2>1 DEF SaveVehicle
            <3>4. torn' \subseteq torn \cup
                      ({work[w].row.contract, vehicle[work[w].on].contract} \ {Nobody})
                BY <2>1 DEF SaveVehicle
            <3>5. strayed' \subseteq strayed \cup {work[x].booking : x \in Inserts(work[w].on)}
                BY <2>1 DEF SaveVehicle
            <3>6. QED
                BY <1>3, <3>1, <3>2, <3>3, <3>4, <3>5, MarkedFacts
        <2>2. CASE InsertMaintenance(w)
            BY <1>3, <2>2, MarkedFacts DEF InsertMaintenance
        <2>3. CASE InsertDetail(w)
            <3>1. work[w].booking \in Booking
                BY <1>2, <2>3 DEF InsertDetail, WorkOK, BillOps
            <3>2. /\ UNCHANGED <<readmitted, torn>>
                  /\ strayed' \subseteq strayed \cup {work[x].booking : x \in Inserts(work[w].on)}
                                    \cup {work[w].booking}
                BY <2>3 DEF InsertDetail
            <3>3. QED
                BY <1>3, <3>1, <3>2, MarkedFacts
        <2>4. CASE SaveBill(w)
            <3>1. work[w].booking \in Booking
                BY <1>2, <2>4 DEF SaveBill, WorkOK, BillOps
            <3>2. QED
                BY <1>3, <2>4, <3>1 DEF SaveBill
        <2>5. CASE SaveExpired(w) \/ GiveUp(w)
            BY <1>3, <2>5 DEF SaveExpired, GiveUp, history
        <2>6. QED
            BY <2>1, <2>2, <2>3, <2>4, <2>5
    <1>5. QED
        BY <1>1, <1>3, <1>4, CallsKept DEF At

\* Every step keeps the counters within the calls.
LEMMA NextCalls == FleetInv /\ CallsInv /\ [Next]_fleetVars => CallsInv'
    <1> SUFFICES ASSUME FleetInv, CallsInv, [Next]_fleetVars PROVE CallsInv'
        OBVIOUS
    <1>1. RowsOK
        BY DEF FleetInv
    <1>2. /\ calls \in Nat /\ calls <= MaxCalls /\ now \in 0 .. MaxNow
          /\ readmitted \subseteq Vehicle /\ strayed \subseteq Booking /\ torn \subseteq Contract
        BY BoundsAssumption DEF CallsInv
    <1>3. CASE \E c \in Contract : ContractRequest(c)
        <2>1. PICK c \in Contract : ContractRequest(c)
            BY <1>3
        <2>2. /\ UNCHANGED <<listed, now, strayed, torn>> /\ readmitted' \subseteq readmitted
              /\ calls' = calls + 1 /\ calls < MaxCalls
            BY <2>1 DEF ContractRequest, CreateContract, DecideContract, Suspend, RemoveContract,
                        Drop, Alone, Call, history, rows
        <2>3. QED
            BY <1>2, <2>2, CallsKept, BoundsAssumption
    <1>4. CASE \E v \in Vehicle : VehicleRequest(v)
        <2>1. PICK v \in Vehicle : VehicleRequest(v)
            BY <1>4
        <2>2. CASE \E c \in Contract : Register(v, c)
            <3>1. /\ UNCHANGED <<listed, now, strayed>> /\ calls' = calls + 1 /\ calls < MaxCalls
                  /\ readmitted' \subseteq readmitted
                  /\ torn' = torn \cup ({vehicle[v].contract} \ {Nobody})
                BY <2>2 DEF Register, Call
            <3>2. vehicle[v].contract \in Contract \cup {Nobody}
                BY <1>1 DEF RowsOK, VehicleRow
            <3>3. QED
                BY <1>2, <3>1, <3>2, CallsKept, BoundsAssumption
        <2>3. CASE RemoveVehicle(v)
            <3>1. /\ UNCHANGED <<listed, now, torn, strayed>> /\ calls' = calls + 1
                  /\ calls < MaxCalls /\ readmitted' \subseteq readmitted
                BY <2>3 DEF RemoveVehicle, Call, Drop
            <3>2. QED
                BY <1>2, <3>1, CallsKept, BoundsAssumption
        <2>4. CASE DecideVehicle(v)
            <3>1. /\ UNCHANGED <<listed, request, now, strayed, torn>>
                  /\ calls' = calls + 1 /\ calls < MaxCalls
                  /\ readmitted' \subseteq readmitted \cup {v}
                BY <2>4 DEF DecideVehicle, Alone, Call
            <3>2. QED
                BY <1>2, <3>1, CallsKept, BoundsAssumption
        <2>5. QED
            BY <2>1, <2>2, <2>3, <2>4 DEF VehicleRequest
    <1>5. CASE \E w \in Worker : \/ \E v \in Vehicle : OwnerRequest(w, v)
                                \/ \E b \in Booking : BillRequest(w, b)
        <2>1. /\ UNCHANGED <<listed, request, now, readmitted, strayed, torn>>
              /\ calls' = calls + 1 /\ calls < MaxCalls
            BY <1>5 DEF OwnerRequest, Update, Disable, Enable, Edit, AddMaintenance, BillRequest,
                        Book, End, OwnerCancel, Keep, Expire, Take, Call, rows, history
        <2>2. QED
            BY <1>2, <2>1, CallsKept, BoundsAssumption
    <1>6. CASE \E w \in Worker : \/ SaveVehicle(w) \/ InsertMaintenance(w) \/ InsertDetail(w)
                                \/ SaveBill(w) \/ SaveExpired(w) \/ GiveUp(w)
        BY <1>1, <1>6, SavesCalls
    <1>7. CASE SetVehiclesInactive \/ SaveSuspended
        <2>1. /\ UNCHANGED <<listed, torn, strayed, now, calls>> /\ Advance /\ request # Idle
              /\ readmitted' \subseteq readmitted
            BY <1>7 DEF SetVehiclesInactive, SaveSuspended, At, Advance, history
        <2>2. QED
            BY <1>1, <1>2, <2>1, NoCountNext, CallsKept
    <1>8. CASE BreaksOff
        <2>1. /\ UNCHANGED <<listed, now, calls, readmitted, strayed>> /\ ~At("count")'
              /\ torn' = torn \cup (IF At("count") THEN {request.on} ELSE {})
            BY <1>8 DEF BreaksOff, At, rows
        <2>2. torn' \subseteq Contract
            BY <1>1, <1>2, <2>1, RequestFacts
        <2>3. QED
            BY <1>2, <2>1, <2>2, CallsKept
    <1>9. CASE (\E b \in Booking : Pay(b)) \/ UNCHANGED fleetVars
        <2>1. /\ UNCHANGED <<listed, request, now, calls, readmitted, torn>>
              /\ strayed' \subseteq Booking
            BY <1>2, <1>9 DEF Pay, fleetVars
        <2>2. QED
            BY <1>2, <2>1, CallsKept DEF At
    <1>10. CASE Tick
        <2>1. /\ UNCHANGED <<listed, request, calls, readmitted, strayed, torn>>
              /\ now' \in 0 .. MaxNow
            BY <1>2, <1>10, BoundsAssumption DEF Tick, rows, history
        <2>2. QED
            BY <1>2, <2>1, CallsKept DEF At
    <1>11. QED
        BY <1>1, <1>3, <1>4, <1>5, <1>6, <1>7, <1>8, <1>9, <1>10, CountCalls DEF Next

\* The types of the fleet, for any bounds of the model.
THEOREM FleetTypes == Spec => []TypeOK
    <1>1. Init => CallsInv
        BY BoundsAssumption DEF Init, CallsInv, Slack, At
    <1>2. ASSUME FleetInv, CallsInv PROVE TypeOK
        <2>1. listed \in [Contract -> -MaxCalls .. MaxCalls]
            <3>1. ASSUME NEW c \in Contract PROVE listed[c] \in -MaxCalls .. MaxCalls
                BY <1>2, BoundsAssumption DEF CallsInv, Slack
            <3>2. QED
                BY <1>2, <3>1 DEF CallsInv
        <2>2. QED
            BY <1>2, <2>1 DEF FleetInv, RowsOK, CallsInv, TypeOK
    <1>3. QED
        BY <1>1, <1>2, NextCalls, FleetInvariant, PTL DEF Spec

-----------------------------------------------------------------------------
\* Accounts.

Rows == Auth!AccountRow
Word == {"email", "flag", "wallet", "clear", "open", "password", "save",
         "markEmail", "used", "markPhone"}
Operation == {"bootstrap", "signup", "login", "change", "reset", "edit", "verify"}

\* What a request may be, with the commits it has left.
Boots(r) ==
    /\ r.op = "bootstrap" /\ r.user = Admin
    /\ r.todo \in {<<"email", "flag", "wallet">>, <<"flag", "wallet">>, <<"wallet">>}
SignsUp(r) == r.op = "signup" /\ r.user \in User /\ r.todo = <<"wallet">>
LogsIn(r) ==
    /\ r.op = "login" /\ r.user \in User /\ r.arg \in Password
    /\ r.todo \in {<<"clear", "open">>, <<"open">>}
Changes(r) ==
    /\ r.op \in {"change", "reset"} /\ r.user \in User /\ r.arg \in Password
    /\ r.todo \in {<<"password", "clear">>, <<"clear">>}
Edits(r) == r.op = "edit" /\ r.user \in User /\ r.arg \in Rows /\ r.todo = <<"save">>
Verifies(r) ==
    /\ r.op = "verify"
    /\ \/ r.user \in User /\ r.arg \in Email /\ r.todo = <<"markEmail">>
       \/ r.user = Nobody /\ r.arg \in Phone /\ r.todo = <<"used">>
       \/ r.user \in User /\ r.arg \in Phone /\ r.todo = <<"markPhone">>
Asks(r) ==
    r \in Request /\ (Boots(r) \/ SignsUp(r) \/ LogsIn(r) \/ Changes(r) \/ Edits(r) \/ Verifies(r))

\* The tables.
AccountTables ==
    /\ account \in [User -> Rows \cup {Nobody}]
    /\ wallet \subseteq User
    /\ sessions \in [User -> Seq(Password)]
    /\ \A u \in User : account[u] = Nobody => sessions[u] = <<>>
    /\ mailed \subseteq {"verify", "reset"} \X Email /\ otp \subseteq Phone
    /\ accountCalls \in 0 .. MaxAccountCalls
    /\ proven \subseteq Email \cup Phone /\ AdminEmail \in proven
    /\ loose \subseteq User /\ swapped \subseteq User

\* The requests; bootstrap runs alone.
ServedInv ==
    /\ served \in [Worker -> Request \cup {Nobody}]
    /\ \A w \in Worker : served[w] # Nobody =>
          /\ Asks(served[w])
          /\ served[w].op # "bootstrap" => up
          /\ served[w].op = "bootstrap" =>
                /\ ~up /\ account[Admin] # Nobody
                /\ \A x \in Worker : served[x] # Nobody => x = w
                /\ served[w].todo = <<"flag", "wallet">> => account[Admin].email = AdminEmail

\* A row of u, in the table or in memory, whose flags are those of codes that
\* came back.
Shown(row, u, codes, exceptions) ==
    /\ row.emailOk => row.email \in codes
    /\ row.phoneOk /\ u \notin exceptions => row.phone \in codes

ProvenInv ==
    /\ \A u \in User : account[u] # Nobody => Shown(account[u], u, proven, swapped)
    /\ \A w \in Worker : served[w] # Nobody =>
          /\ served[w].op = "edit" => Shown(served[w].arg, served[w].user, proven, swapped)
          /\ served[w].todo \in {<<"markEmail">>, <<"markPhone">>} => served[w].arg \in proven

\* What a login or a save of an account's only request knows of its password.
Current(r, row, tokens) ==
    /\ r.op = "login" /\ row # Nobody => row.password = r.arg
    /\ r.op = "edit" /\ row # Nobody => row.password = r.arg.password
    /\ r.todo = <<"open">> => tokens = <<>>

Matches(tokens, row) == tokens = <<>> \/ (row # Nobody /\ tokens = <<row.password>>)

\* An account whose requests did not overlap: at most one is at work on it,
\* those apart that write the flag of a number.
WorksOn(w, u) == served[w] # Nobody /\ served[w].user = u
AtClear(r) == r.op \in {"change", "reset"} /\ r.todo = <<"clear">>
SessionOK(u) ==
    /\ \A w, x \in Worker : WorksOn(w, u) /\ WorksOn(x, u)
          /\ served[w].todo # <<"markPhone">> /\ served[x].todo # <<"markPhone">> => w = x
    /\ \A w \in Worker : WorksOn(w, u) => Current(served[w], account[u], sessions[u])
    /\ (\A w \in Worker : WorksOn(w, u) => ~AtClear(served[w])) => Matches(sessions[u], account[u])

SessionsInv == \A u \in User : u \notin loose => SessionOK(u)

AccountsInv == AccountTables /\ ServedInv /\ ProvenInv /\ SessionsInv

-----------------------------------------------------------------------------
\* The first of the commits left, and those after it.
LEMMA Commits ==
    /\ Head(<<"email", "flag", "wallet">>) = "email" /\ Tail(<<"email", "flag", "wallet">>) = <<"flag", "wallet">>
    /\ Len(<<"email", "flag", "wallet">>) = 3
    /\ Head(<<"flag", "wallet">>) = "flag" /\ Tail(<<"flag", "wallet">>) = <<"wallet">> /\ Len(<<"flag", "wallet">>) = 2
    /\ Head(<<"clear", "open">>) = "clear" /\ Tail(<<"clear", "open">>) = <<"open">> /\ Len(<<"clear", "open">>) = 2
    /\ Head(<<"password", "clear">>) = "password" /\ Tail(<<"password", "clear">>) = <<"clear">>
    /\ Len(<<"password", "clear">>) = 2
    /\ \A x : Head(<<x>>) = x /\ Len(<<x>>) = 1
    OBVIOUS

\* What the next commit tells of a request.
LEMMA NextCommit ==
    ASSUME NEW r, Asks(r), NEW x, Head(r.todo) = x
    PROVE  /\ r.user \in User \/ x = "used"
           /\ x = "email" => Boots(r) /\ r.todo = <<"email", "flag", "wallet">>
           /\ x = "flag" => Boots(r) /\ r.todo = <<"flag", "wallet">>
           /\ x = "wallet" => (Boots(r) \/ SignsUp(r)) /\ r.todo = <<"wallet">>
           /\ x = "clear" => \/ LogsIn(r) /\ r.todo = <<"clear", "open">>
                             \/ Changes(r) /\ r.todo = <<"clear">>
           /\ x = "open" => LogsIn(r) /\ r.todo = <<"open">>
           /\ x = "password" => Changes(r) /\ r.todo = <<"password", "clear">>
           /\ x = "save" => Edits(r)
           /\ x \in {"markEmail", "used", "markPhone"} => Verifies(r) /\ r.todo = <<x>>
    BY Commits, AccountsAssumption DEF Asks, Boots, SignsUp, LogsIn, Changes, Edits, Verifies

\* The instance's words for requests.
LEMMA Words ==
    /\ \A w : Auth!Running(w) <=> served[w] # Nobody
    /\ \A u : Auth!Exists(u) <=> account[u] # Nobody
    /\ \A u, w : w \in Auth!On(u) <=> w \in Worker /\ WorksOn(w, u)
    /\ \A w \in Worker : ServedInv => (served[w] # Nobody => (Auth!Halfway(w) <=> AtClear(served[w])))
    <1>1. ASSUME NEW w \in Worker, ServedInv, served[w] # Nobody
          PROVE  Auth!Halfway(w) <=> AtClear(served[w])
        <2>1. Asks(served[w])
            BY <1>1 DEF ServedInv
        <2>2. AtClear(served[w]) => Auth!Halfway(w)
            BY <1>1, Commits DEF AtClear, Auth!Halfway, Auth!Runs, Auth!Running
        <2>3. Auth!Halfway(w) => AtClear(served[w])
            BY <2>1, NextCommit DEF AtClear, Auth!Halfway, Auth!Runs, LogsIn
        <2>4. QED
            BY <2>2, <2>3
    <1>2. QED
        BY <1>1 DEF Auth!Running, Auth!Exists, Auth!On, WorksOn

\* Requests when the server listens.
LEMMA NoBoot ==
    ASSUME ServedInv, up, NEW w \in Worker, served[w] # Nobody
    PROVE  Asks(served[w]) /\ served[w].op # "bootstrap"
    BY DEF ServedInv

LEMMA ServedUp ==
    ASSUME served' \in [Worker -> Request \cup {Nobody}], up',
           \A w \in Worker : served'[w] # Nobody => Asks(served'[w]) /\ served'[w].op # "bootstrap"
    PROVE  ServedInv'
    BY DEF ServedInv

\* An account whose requests are what they were, or fewer, or go on with what
\* does not concern its tokens.
Beside(r) ==
    r # Nobody /\ r.op \in {"bootstrap", "verify"} /\ r.todo # <<"open">>

LEMMA SessionKept ==
    ASSUME NEW u \in User, SessionOK(u), sessions'[u] = sessions[u],
           \A w \in Worker : WorksOn(w, u)' =>
               \/ served'[w] = served[w]
               \/ /\ Beside(served'[w])
                  /\ \/ served'[w].todo = <<"markPhone">>
                     \/ WorksOn(w, u) /\ served[w].todo # <<"markPhone">>,
           \A w \in Worker : WorksOn(w, u) /\ AtClear(served[w]) => served'[w] = served[w],
           account'[u] # Nobody => account[u] # Nobody /\ account'[u].password = account[u].password,
           account'[u] = Nobody => sessions[u] = <<>>
    PROVE  SessionOK(u)'
    <1>1. \A w \in Worker : WorksOn(w, u)' => WorksOn(w, u) \/ served'[w].todo = <<"markPhone">>
        BY DEF WorksOn
    <1>2. ASSUME NEW w \in Worker, NEW x \in Worker, WorksOn(w, u)', WorksOn(x, u)',
                 served'[w].todo # <<"markPhone">>, served'[x].todo # <<"markPhone">>
          PROVE  w = x
        BY <1>1, <1>2 DEF SessionOK
    <1>3. ASSUME NEW w \in Worker, WorksOn(w, u)'
          PROVE  Current(served'[w], account'[u], sessions'[u])
        <2>1. CASE Beside(served'[w])
            BY <2>1 DEF Beside, Current
        <2>2. CASE served'[w] = served[w]
            <3>1. Current(served[w], account[u], sessions[u])
                BY <1>3, <2>2 DEF SessionOK, WorksOn
            <3>2. QED
                BY <2>2, <3>1 DEF Current
        <2>3. QED
            BY <1>3, <2>1, <2>2
    <1>4. ASSUME \A w \in Worker : WorksOn(w, u)' => ~AtClear(served'[w])
          PROVE  Matches(sessions'[u], account'[u])
        <2>1. \A w \in Worker : WorksOn(w, u) => ~AtClear(served[w])
            BY <1>4 DEF WorksOn
        <2>2. Matches(sessions[u], account[u])
            BY <2>1 DEF SessionOK
        <2>3. QED
            BY <2>2 DEF Matches
    <1>5. QED
        BY <1>2, <1>3, <1>4 DEF SessionOK

\* Nothing that sessions depend on changes, for any account.
LEMMA SessionsKept ==
    ASSUME AccountTables, SessionsInv, loose \subseteq loose', sessions' = sessions, served' = served,
           \A u \in User : (account'[u] # Nobody <=> account[u] # Nobody)
                           /\ (account[u] # Nobody => account'[u].password = account[u].password)
    PROVE  SessionsInv'
    <1> SUFFICES ASSUME NEW u \in User, u \notin loose' PROVE SessionOK(u)'
        BY DEF SessionsInv
    <1>1. SessionOK(u) /\ (account[u] = Nobody => sessions[u] = <<>>)
        BY DEF SessionsInv, AccountTables
    <1>2. QED
        BY <1>1, SessionKept

\* A request that begins.
LEMMA StartInv ==
    ASSUME AccountsInv, NEW w \in Worker, NEW op, NEW u \in User \cup {Nobody}, NEW todo, NEW arg,
           Auth!Start(w, op, u, todo, arg),
           Asks([op |-> op, user |-> u, todo |-> todo, arg |-> arg]), op # "bootstrap", up, up' = up,
           \A v \in User : v # u => account'[v] = account[v],
           u \in User => \/ account'[u] = account[u]
                        \/ /\ sessions[u] = <<>>
                           /\ Shown(account'[u], u, proven, swapped),
           sessions' = sessions, swapped' = swapped, proven \subseteq proven',
           op = "edit" => Shown(arg, u, proven, swapped),
           todo \in {<<"markEmail">>, <<"markPhone">>} => arg \in proven',
           u \in User => Current([op |-> op, user |-> u, todo |-> todo, arg |-> arg], account'[u], sessions[u])
    PROVE  ServedInv' /\ ProvenInv' /\ SessionsInv' /\ loose' \subseteq User
    <1> DEFINE r == [op |-> op, user |-> u, todo |-> todo, arg |-> arg]
    <1>1. r \in Request /\ r # Nobody /\ Asks(r) /\ r.op = op /\ r.user = u /\ r.todo = todo /\ r.arg = arg
        BY AccountsAssumption DEF Asks, Request, Rows
    <1>2. /\ served \in [Worker -> Request \cup {Nobody}] /\ served' = [served EXCEPT ![w] = r]
          /\ served[w] = Nobody
          /\ loose' = IF \A x \in Worker : ~WorksOn(x, u) THEN loose ELSE loose \cup ({u} \ {Nobody})
        <2>1. Auth!On(u) = {} <=> \A x \in Worker : ~WorksOn(x, u)
            BY Words
        <2>2. QED
            BY <2>1, Words DEF AccountsInv, ServedInv, Auth!Start
    <1> HIDE DEF r
    <1>3. /\ served'[w] = r /\ \A x \in Worker : x # w => served'[x] = served[x]
          /\ served' \in [Worker -> Request \cup {Nobody}]
        BY <1>1, <1>2
    <1>4. ServedInv'
        <2>1. \A x \in Worker : served'[x] # Nobody => Asks(served'[x]) /\ served'[x].op # "bootstrap"
            BY <1>1, <1>3, NoBoot DEF AccountsInv
        <2>2. QED
            BY <1>3, <2>1, ServedUp
    <1>5. ProvenInv'
        <2>1. \A v \in User : account'[v] # Nobody => Shown(account'[v], v, proven', swapped')
            BY DEF AccountsInv, ProvenInv, Shown
        <2>2. ASSUME NEW x \in Worker, served'[x] # Nobody
              PROVE  /\ served'[x].op = "edit" => Shown(served'[x].arg, served'[x].user, proven', swapped')
                     /\ served'[x].todo \in {<<"markEmail">>, <<"markPhone">>} => served'[x].arg \in proven'
            <3>1. CASE x = w
                BY <1>1, <1>3, <3>1 DEF Shown
            <3>2. CASE x # w
                BY <1>3, <2>2, <3>2 DEF AccountsInv, ProvenInv, Shown
            <3>3. QED
                BY <3>1, <3>2
        <2>3. QED
            BY <2>1, <2>2 DEF ProvenInv
    <1>6. SessionsInv'
        <2> SUFFICES ASSUME NEW v \in User, v \notin loose' PROVE SessionOK(v)'
            BY DEF SessionsInv
        <2>1. v \notin loose /\ SessionOK(v) /\ (account[v] = Nobody => sessions[v] = <<>>)
            BY <1>2 DEF AccountsInv, SessionsInv, AccountTables
        <2>2. CASE v # u
            <3>1. \A x \in Worker : WorksOn(x, v)' => served'[x] = served[x]
                BY <1>1, <1>3, <2>2 DEF WorksOn
            <3>2. \A x \in Worker : WorksOn(x, v) /\ AtClear(served[x]) => served'[x] = served[x]
                BY <1>2, <1>3 DEF WorksOn
            <3>3. account'[v] = account[v] /\ sessions'[v] = sessions[v]
                BY <2>2
            <3>4. QED
                BY <2>1, <3>1, <3>2, <3>3, SessionKept
        <2>3. CASE v = u
            <3>1. \A x \in Worker : ~WorksOn(x, u)
                BY <1>2, <2>1, <2>3, AccountsAssumption
            <3>2. \A x \in Worker : WorksOn(x, u)' <=> x = w
                BY <1>1, <1>3, <3>1 DEF WorksOn
            <3>3. Matches(sessions'[u], account'[u])
                BY <2>1, <2>3, <3>1 DEF SessionOK, Matches
            <3>4. Current(served'[w], account'[u], sessions'[u])
                BY <1>3, <2>3 DEF r
            <3>5. QED
                BY <1>3, <2>3, <3>2, <3>3, <3>4 DEF SessionOK
        <2>4. QED
            BY <2>2, <2>3
    <1>7. loose' \subseteq User
        BY <1>2 DEF AccountsInv, AccountTables
    <1>8. QED
        BY <1>4, <1>5, <1>6, <1>7

\* A request that has done a commit.
LEMMA Stepped ==
    ASSUME ServedInv, NEW w \in Worker, NEW x, Auth!Runs(w, x), Auth!Advance(w)
    PROVE  /\ served[w] # Nobody /\ Asks(served[w]) /\ Head(served[w].todo) = x
           /\ up' = up /\ accountCalls' = accountCalls
           /\ \A y \in Worker : y # w => served'[y] = served[y]
           /\ served' \in [Worker -> Request \cup {Nobody}]
           /\ Len(served[w].todo) = 1 => served'[w] = Nobody
           /\ Len(served[w].todo) # 1 =>
                 /\ served'[w] # Nobody /\ served'[w] \in Request
                 /\ served'[w].op = served[w].op /\ served'[w].user = served[w].user
                 /\ served'[w].arg = served[w].arg /\ served'[w].todo = Tail(served[w].todo)
    <1>1. served[w] # Nobody /\ Asks(served[w]) /\ Head(served[w].todo) = x
        BY DEF Auth!Runs, Auth!Running, ServedInv
    <1> DEFINE r == served[w]
               t == [r EXCEPT !.todo = Tail(@)]
    <1>2. r \in Request /\ r.todo # <<>>
        BY <1>1, Commits DEF Asks, Boots, SignsUp, LogsIn, Changes, Edits, Verifies
    <1>3. /\ t \in Request /\ t # Nobody
          /\ t.op = r.op /\ t.user = r.user /\ t.arg = r.arg /\ t.todo = Tail(r.todo)
        <2>1. Tail(r.todo) \in Seq(Word)
            BY <1>2, HeadTailProperties DEF Request, Word
        <2>2. t \in Request
            BY <1>2, <2>1 DEF Request, Word
        <2>3. QED
            BY <1>2, <2>2, AccountsAssumption DEF Request, Rows
    <1>4. served' = [served EXCEPT ![w] = IF Len(r.todo) = 1 THEN Nobody ELSE t]
        BY DEF Auth!Advance
    <1>6. up' = up /\ accountCalls' = accountCalls /\ served \in [Worker -> Request \cup {Nobody}]
        BY DEF Auth!Advance, ServedInv
    <1> HIDE DEF t
    <1>5. QED
        BY <1>1, <1>3, <1>4, <1>6

\* Nothing is left after the last commit, and what is left is a request.
LEMMA SteppedWhere ==
    ASSUME ServedInv, NEW w \in Worker, NEW x, Auth!Runs(w, x), Auth!Advance(w)
    PROVE  /\ x \in {"open", "save", "markEmail", "markPhone"} => served'[w] = Nobody
           /\ x = "clear" => \/ /\ LogsIn(served[w]) /\ LogsIn(served'[w])
                                /\ served'[w].todo = <<"open">>
                             \/ Changes(served[w]) /\ AtClear(served[w]) /\ served'[w] = Nobody
           /\ x = "password" => Changes(served'[w]) /\ AtClear(served'[w]) /\ served'[w] # Nobody
           /\ x = "email" => Boots(served'[w]) /\ served'[w].todo = <<"flag", "wallet">>
           /\ x \in {"email", "flag"} => served'[w] # Nobody
           /\ x = "flag" => Boots(served'[w]) /\ served'[w].todo = <<"wallet">>
           /\ served'[w] # Nobody => Asks(served'[w])
    <1> DEFINE r == served[w]
               t == served'[w]
    <1>1. Asks(r) /\ Head(r.todo) = x
        BY Stepped
    <1>2. /\ Len(r.todo) = 1 => t = Nobody
          /\ Len(r.todo) # 1 => t # Nobody /\ t \in Request /\ t.op = r.op /\ t.user = r.user
                                /\ t.arg = r.arg /\ t.todo = Tail(r.todo)
        BY Stepped
    <1> HIDE DEF r, t
    <1>9. /\ x \in {"open", "save", "markEmail", "markPhone"} => r.todo \in {<<"open">>, <<"save">>, <<"markEmail">>, <<"markPhone">>}
          /\ x = "clear" => \/ LogsIn(r) /\ r.todo = <<"clear", "open">>
                            \/ Changes(r) /\ r.todo = <<"clear">>
          /\ x = "password" => Changes(r) /\ r.todo = <<"password", "clear">>
          /\ x = "email" => Boots(r) /\ r.todo = <<"email", "flag", "wallet">>
          /\ x = "flag" => Boots(r) /\ r.todo = <<"flag", "wallet">>
        BY <1>1, NextCommit DEF Edits
    <1>3. x \in {"open", "save", "markEmail", "markPhone"} => t = Nobody
        BY <1>2, <1>9, Commits
    <1>4. x = "clear" => \/ LogsIn(r) /\ LogsIn(t) /\ t.todo = <<"open">>
                         \/ Changes(r) /\ AtClear(r) /\ t = Nobody
        <2>1. CASE LogsIn(r) /\ r.todo = <<"clear", "open">>
            <3>1. Len(r.todo) # 1 /\ Tail(r.todo) = <<"open">>
                BY <2>1, Commits
            <3>2. QED
                BY <1>2, <2>1, <3>1 DEF LogsIn
        <2>2. CASE Changes(r) /\ r.todo = <<"clear">>
            BY <1>2, <2>2, Commits DEF AtClear, Changes
        <2>3. QED
            BY <1>9, <2>1, <2>2
    <1>5. ASSUME x = "password" PROVE Changes(t) /\ AtClear(t) /\ t # Nobody
        <2>1. Changes(r) /\ r.todo = <<"password", "clear">>
            BY <1>5, <1>9
        <2>2. Len(r.todo) # 1 /\ Tail(r.todo) = <<"clear">>
            BY <2>1, Commits
        <2>3. QED
            BY <1>2, <2>1, <2>2 DEF Changes, AtClear
    <1>6. /\ x = "email" => Boots(t) /\ t.todo = <<"flag", "wallet">>
          /\ x = "flag" => Boots(t) /\ t.todo = <<"wallet">>
          /\ x \in {"email", "flag"} => t # Nobody
        <2>1. ASSUME r.todo = <<"email", "flag", "wallet">>
              PROVE  Len(r.todo) # 1 /\ Tail(r.todo) = <<"flag", "wallet">>
            BY <2>1, Commits
        <2>2. ASSUME r.todo = <<"flag", "wallet">>
              PROVE  Len(r.todo) # 1 /\ Tail(r.todo) = <<"wallet">>
            BY <2>2, Commits
        <2>3. QED
            BY <1>2, <1>9, <2>1, <2>2 DEF Boots
    <1>7. t # Nobody => Asks(t)
        <2>1. CASE Len(r.todo) = 1
            BY <1>2, <2>1
        <2>2. CASE Len(r.todo) # 1 /\ Boots(r)
            BY <1>2, <2>2, Commits DEF Asks, Boots
        <2>3. CASE Len(r.todo) # 1 /\ LogsIn(r)
            BY <1>2, <2>3, Commits DEF Asks, LogsIn
        <2>4. CASE Len(r.todo) # 1 /\ Changes(r)
            BY <1>2, <2>4, Commits DEF Asks, Changes
        <2>5. CASE SignsUp(r) \/ Edits(r) \/ Verifies(r)
            BY <1>2, <2>5, Commits DEF SignsUp, Edits, Verifies
        <2>6. QED
            BY <1>1, <2>1, <2>2, <2>3, <2>4, <2>5 DEF Asks
    <1>8. QED
        BY <1>3, <1>4, <1>5, <1>6, <1>7 DEF r, t

\* A step of one request on one account leaves the other accounts alone.
LEMMA StepSessions ==
    ASSUME AccountTables, SessionsInv, NEW w \in Worker, NEW u, served[w] # Nobody,
           served[w].user = u, served'[w] # Nobody => served'[w].user = u,
           \A x \in Worker : x # w => served'[x] = served[x],
           \A v \in User : v # u => sessions'[v] = sessions[v] /\ account'[v] = account[v],
           loose \ {u} \subseteq loose',
           u \in User /\ u \notin loose' => SessionOK(u)'
    PROVE  SessionsInv'
    <1> SUFFICES ASSUME NEW v \in User, v \notin loose', v # u PROVE SessionOK(v)'
        BY DEF SessionsInv
    <1>1. SessionOK(v) /\ (account[v] = Nobody => sessions[v] = <<>>)
        BY DEF SessionsInv, AccountTables
    <1>2. \A x \in Worker : WorksOn(x, v)' => served'[x] = served[x]
        BY DEF WorksOn
    <1>3. \A x \in Worker : WorksOn(x, v) /\ AtClear(served[x]) => served'[x] = served[x]
        BY DEF WorksOn
    <1>4. QED
        BY <1>1, <1>2, <1>3, SessionKept

\* Rows, flags and the codes behind them.
LEMMA ProvenKept ==
    ASSUME ProvenInv, proven \subseteq proven', swapped \subseteq swapped',
           \A u \in User : account'[u] # Nobody => Shown(account'[u], u, proven', swapped')
                                                  \/ account'[u] = account[u],
           \A w \in Worker : served'[w] # Nobody =>
               \/ served'[w].op # "edit" /\ served'[w].todo \notin {<<"markEmail">>, <<"markPhone">>}
               \/ /\ served[w] # Nobody /\ served'[w].op = served[w].op /\ served'[w].user = served[w].user
                  /\ served'[w].arg = served[w].arg /\ served'[w].todo = served[w].todo
    PROVE  ProvenInv'
    <1>1. \A u \in User : account'[u] # Nobody => Shown(account'[u], u, proven', swapped')
        BY DEF ProvenInv, Shown
    <1>2. ASSUME NEW w \in Worker, served'[w] # Nobody
          PROVE  /\ served'[w].op = "edit" => Shown(served'[w].arg, served'[w].user, proven', swapped')
                 /\ served'[w].todo \in {<<"markEmail">>, <<"markPhone">>} => served'[w].arg \in proven'
        BY <1>2 DEF ProvenInv, Shown
    <1>3. QED
        BY <1>1, <1>2 DEF ProvenInv

-----------------------------------------------------------------------------
\* The requests that only send codes, and codes that expire.
LEMMA CodesStep ==
    ASSUME AccountsInv,
           \/ Auth!Expire
           \/ \E u \in User : \/ Auth!StartEmailVerification(u) \/ Auth!RequestPasswordReset(u)
                              \/ Auth!StartPhoneVerification(u)
    PROVE  AccountsInv'
    <1>1. UNCHANGED <<account, wallet, sessions, served, up, proven, loose, swapped>>
        BY DEF Auth!Expire, Auth!StartEmailVerification, Auth!RequestPasswordReset,
               Auth!StartPhoneVerification, Auth!Once, Auth!Call, Auth!history
    <1>2. accountCalls' \in 0 .. MaxAccountCalls
        BY AccountsAssumption DEF AccountsInv, AccountTables, Auth!Expire,
           Auth!StartEmailVerification, Auth!RequestPasswordReset,
           Auth!StartPhoneVerification, Auth!Once, Auth!Call
    <1>3. mailed' \subseteq {"verify", "reset"} \X Email /\ otp' \subseteq Phone
        <2>1. CASE Auth!Expire
            BY <2>1 DEF Auth!Expire, AccountsInv, AccountTables
        <2>2. ASSUME NEW u \in User, Auth!Exists(u),
                     \/ Auth!StartEmailVerification(u) \/ Auth!RequestPasswordReset(u)
                     \/ Auth!StartPhoneVerification(u)
              PROVE  mailed' \subseteq {"verify", "reset"} \X Email /\ otp' \subseteq Phone
            <3>1. account[u] \in Rows
                BY <2>2, Words DEF AccountsInv, AccountTables
            <3>2. account[u].email \in Email \cup {Nobody} /\ account[u].phone \in Phone \cup {Nobody}
                BY <3>1 DEF Rows, Auth!AccountRow
            <3>3. QED
                BY <2>2, <3>2 DEF AccountsInv, AccountTables, Auth!StartEmailVerification,
                   Auth!RequestPasswordReset, Auth!StartPhoneVerification
        <2>3. QED
            BY <2>1, <2>2 DEF Auth!StartEmailVerification, Auth!RequestPasswordReset,
               Auth!StartPhoneVerification
    <1>4. AccountTables'
        BY <1>1, <1>2, <1>3 DEF AccountsInv, AccountTables
    <1>5. ServedInv' /\ ProvenInv'
        BY <1>1 DEF AccountsInv, ServedInv, ProvenInv, Shown
    <1>6. SessionsInv'
        BY <1>1, SessionsKept DEF AccountsInv
    <1>7. QED
        BY <1>4, <1>5, <1>6 DEF AccountsInv

\* A logout deletes the tokens; the account is as if nothing had overlapped.
LEMMA LogoutStep ==
    ASSUME AccountsInv, NEW u \in User, Auth!Logout(u)
    PROVE  AccountsInv'
    <1>1. /\ UNCHANGED <<account, wallet, mailed, otp, served, up, proven, swapped>>
          /\ sessions' = [sessions EXCEPT ![u] = <<>>]
          /\ accountCalls' = accountCalls + 1 /\ accountCalls < MaxAccountCalls
          /\ loose' = IF Auth!On(u) = {} THEN loose \ {u} ELSE loose
        BY DEF Auth!Logout, Auth!Once, Auth!Call, Auth!codes
    <1>2. AccountTables'
        BY <1>1, AccountsAssumption DEF AccountsInv, AccountTables
    <1>3. ServedInv' /\ ProvenInv'
        BY <1>1 DEF AccountsInv, ServedInv, ProvenInv, Shown
    <1>4. SessionsInv'
        <2> SUFFICES ASSUME NEW v \in User, v \notin loose' PROVE SessionOK(v)'
            BY DEF SessionsInv
        <2>1. account[v] = Nobody => sessions[v] = <<>>
            BY DEF AccountsInv, AccountTables
        <2>2. CASE v # u
            <3>1. SessionOK(v) /\ sessions'[v] = sessions[v]
                BY <1>1, <2>2 DEF AccountsInv, SessionsInv, AccountTables
            <3>2. QED
                BY <1>1, <2>1, <3>1, SessionKept DEF WorksOn
        <2>3. CASE v = u
            <3>1. sessions'[v] = <<>>
                BY <1>1, <2>3 DEF AccountsInv, AccountTables
            <3>2. SessionOK(v) \/ \A w \in Worker : ~WorksOn(w, v)
                BY <1>1, <2>3, Words DEF AccountsInv, SessionsInv
            <3>3. QED
                BY <1>1, <3>1, <3>2 DEF SessionOK, WorksOn, Matches, Current
        <2>4. QED
            BY <2>2, <2>3
    <1>5. QED
        BY <1>2, <1>3, <1>4 DEF AccountsInv

\* The row of an account, its wallet and its tokens go together.
LEMMA RemoveUserStep ==
    ASSUME AccountsInv, NEW u \in User, Auth!RemoveUser(u)
    PROVE  AccountsInv'
    <1>1. /\ UNCHANGED <<mailed, otp, served, up, proven, loose, swapped>> /\ up
          /\ account' = [account EXCEPT ![u] = Nobody] /\ wallet' = wallet \ {u}
          /\ sessions' = [sessions EXCEPT ![u] = <<>>]
          /\ accountCalls' = accountCalls + 1 /\ accountCalls < MaxAccountCalls
        BY DEF Auth!RemoveUser, Auth!Once, Auth!Call, Auth!codes, Auth!history
    <1>2. AccountTables'
        BY <1>1, AccountsAssumption DEF AccountsInv, AccountTables
    <1>3. ServedInv'
        <2>1. \A w \in Worker : served[w] # Nobody => Asks(served[w]) /\ served[w].op # "bootstrap"
            BY <1>1, NoBoot DEF AccountsInv
        <2>2. QED
            BY <1>1, <2>1, ServedUp DEF AccountsInv, ServedInv
    <1>4. ProvenInv'
        BY <1>1, ProvenKept DEF AccountsInv, AccountTables
    <1>5. SessionsInv'
        <2> SUFFICES ASSUME NEW v \in User, v \notin loose' PROVE SessionOK(v)'
            BY DEF SessionsInv
        <2>1. SessionOK(v) /\ (account[v] = Nobody => sessions[v] = <<>>)
            BY <1>1 DEF AccountsInv, SessionsInv, AccountTables
        <2>2. CASE v # u
            <3>1. sessions'[v] = sessions[v] /\ account'[v] = account[v]
                BY <1>1, <2>2 DEF AccountsInv, AccountTables
            <3>2. QED
                BY <1>1, <2>1, <3>1, SessionKept DEF WorksOn
        <2>3. CASE v = u
            <3>1. sessions'[v] = <<>> /\ account'[v] = Nobody
                BY <1>1, <2>3 DEF AccountsInv, AccountTables
            <3>2. QED
                BY <1>1, <2>1, <3>1 DEF SessionOK, WorksOn, Matches, Current
        <2>4. QED
            BY <2>2, <2>3
    <1>6. QED
        BY <1>2, <1>3, <1>4, <1>5 DEF AccountsInv

\* Fewer requests than there were.
LEMMA FewerRequests ==
    ASSUME ServedInv, ProvenInv, UNCHANGED <<account, proven, swapped>>,
           served' \in [Worker -> Request \cup {Nobody}],
           \A w \in Worker : served'[w] # Nobody => served'[w] = served[w],
           \A w \in Worker : served'[w] # Nobody => up' = up
    PROVE  ServedInv' /\ ProvenInv'
    <1>1. ServedInv'
        BY DEF ServedInv
    <1>2. ProvenInv'
        BY ProvenKept
    <1>3. QED
        BY <1>1, <1>2

\* A request that breaks off.
LEMMA BreaksOffStep ==
    ASSUME AccountsInv, NEW w \in Worker, Auth!BreaksOff(w)
    PROVE  AccountsInv'
    <1>0. PICK u : u = served[w].user
        OBVIOUS
    <1>1. /\ UNCHANGED <<account, wallet, sessions, mailed, otp, up, accountCalls, proven, swapped>>
          /\ served[w] # Nobody /\ served' = [served EXCEPT ![w] = Nobody]
          /\ loose' = loose \cup {x \in {u} : AtClear(served[w])}
        BY <1>0, Words DEF AccountsInv, Auth!BreaksOff, Auth!codes
    <1>2. Asks(served[w]) /\ served \in [Worker -> Request \cup {Nobody}]
        BY <1>1 DEF AccountsInv, ServedInv
    <1>3. loose' \subseteq User
        <2>1. AtClear(served[w]) => u \in User
            BY <1>0, <1>2, NextCommit, Commits DEF AtClear
        <2>2. QED
            BY <1>1, <2>1 DEF AccountsInv, AccountTables
    <1>4. AccountTables'
        BY <1>1, <1>3 DEF AccountsInv, AccountTables
    <1>5. ServedInv' /\ ProvenInv'
        BY <1>1, <1>2, FewerRequests DEF AccountsInv
    <1>6. ASSUME u \in User, u \notin loose' PROVE SessionOK(u)'
        <2>1. SessionOK(u) /\ (account[u] = Nobody => sessions[u] = <<>>) /\ ~AtClear(served[w])
            BY <1>1, <1>6 DEF AccountsInv, SessionsInv, AccountTables
        <2>2. \A x \in Worker : WorksOn(x, u)' => served'[x] = served[x]
            BY <1>1, <1>2 DEF WorksOn
        <2>3. \A x \in Worker : WorksOn(x, u) /\ AtClear(served[x]) => served'[x] = served[x]
            BY <1>1, <1>2, <2>1
        <2>4. QED
            BY <1>1, <1>6, <2>1, <2>2, <2>3, SessionKept
    <1>7. SessionsInv'
        BY <1>0, <1>1, <1>2, <1>6, StepSessions DEF AccountsInv
    <1>8. QED
        BY <1>4, <1>5, <1>7 DEF AccountsInv

\* The process stops, and with it every request.
LEMMA CrashStep ==
    ASSUME AccountsInv, Auth!Crash
    PROVE  AccountsInv'
    <1>1. /\ UNCHANGED <<account, wallet, sessions, mailed, otp, accountCalls, proven, swapped>>
          /\ served' = [w \in Worker |-> Nobody]
          /\ loose' = loose \cup {served[w].user : w \in {x \in Worker : Auth!Running(x) /\ Auth!Halfway(x)}}
        BY DEF Auth!Crash, Auth!codes
    <1>2. ASSUME NEW w \in Worker, served[w] # Nobody, AtClear(served[w])
          PROVE  served[w].user \in loose' /\ served[w].user \in User
        <2>1. Auth!Running(w) /\ Auth!Halfway(w)
            BY <1>2, Words DEF AccountsInv
        <2>2. served[w].user \in User
            BY <1>2, NextCommit, Commits DEF AccountsInv, ServedInv, AtClear
        <2>3. QED
            BY <1>1, <2>1, <2>2
    <1>3. loose' \subseteq User
        <2>1. ASSUME NEW w \in Worker, Auth!Running(w) /\ Auth!Halfway(w)
              PROVE  served[w].user \in User
            BY <1>2, <2>1, Words DEF AccountsInv
        <2>2. QED
            BY <1>1, <2>1 DEF AccountsInv, AccountTables
    <1>4. AccountTables'
        BY <1>1, <1>3 DEF AccountsInv, AccountTables
    <1>5. ServedInv' /\ ProvenInv'
        BY <1>1, FewerRequests DEF AccountsInv
    <1>6. SessionsInv'
        <2> SUFFICES ASSUME NEW v \in User, v \notin loose' PROVE SessionOK(v)'
            BY DEF SessionsInv
        <2>1. SessionOK(v) /\ (account[v] = Nobody => sessions[v] = <<>>)
            BY <1>1 DEF AccountsInv, SessionsInv, AccountTables
        <2>2. \A w \in Worker : WorksOn(w, v) => ~AtClear(served[w])
            BY <1>2 DEF WorksOn
        <2>3. \A w \in Worker : ~WorksOn(w, v)'
            BY <1>1 DEF WorksOn
        <2>4. QED
            BY <1>1, <2>1, <2>2, <2>3, SessionKept
    <1>7. QED
        BY <1>4, <1>5, <1>6 DEF AccountsInv

\* The last commit of a signup and of bootstrap; then the server listens.
LEMMA CreateWalletStep ==
    ASSUME AccountsInv, NEW w \in Worker, Auth!CreateWallet(w)
    PROVE  AccountsInv'
    <1>0. PICK u : u = served[w].user
        OBVIOUS
    <1>1. /\ UNCHANGED <<account, sessions, mailed, otp, accountCalls, proven, loose, swapped>>
          /\ served[w] # Nobody /\ Head(served[w].todo) = "wallet"
          /\ served' = [served EXCEPT ![w] = Nobody] /\ up'
          /\ wallet' = wallet \cup {u}
        BY <1>0 DEF Auth!CreateWallet, Auth!Runs, Auth!Running, Auth!codes, Auth!history
    <1>2. /\ Asks(served[w]) /\ served \in [Worker -> Request \cup {Nobody}] /\ u \in User
          /\ (Boots(served[w]) \/ SignsUp(served[w])) /\ served[w].todo = <<"wallet">>
        BY <1>0, <1>1, NextCommit DEF AccountsInv, ServedInv
    <1>3. ~AtClear(served[w])
        BY <1>2 DEF Boots, SignsUp, AtClear
    <1>4. AccountTables'
        BY <1>1, <1>2 DEF AccountsInv, AccountTables
    <1>5. \A x \in Worker : x # w => served'[x] = served[x]
        BY <1>1, <1>2
    <1>6. served'[w] = Nobody /\ served' \in [Worker -> Request \cup {Nobody}]
        BY <1>1, <1>2
    <1>7. \A x \in Worker : served'[x] # Nobody => up
        BY <1>2, <1>1, <1>5, <1>6 DEF AccountsInv, ServedInv, Boots, SignsUp
    <1>8. ServedInv' /\ ProvenInv'
        BY <1>1, <1>5, <1>6, <1>7, FewerRequests DEF AccountsInv
    <1>9. ASSUME u \notin loose' PROVE SessionOK(u)'
        <2>1. SessionOK(u) /\ (account[u] = Nobody => sessions[u] = <<>>)
            BY <1>1, <1>2, <1>9 DEF AccountsInv, SessionsInv, AccountTables
        <2>2. \A x \in Worker : WorksOn(x, u)' => served'[x] = served[x]
            BY <1>5, <1>6 DEF WorksOn
        <2>3. \A x \in Worker : WorksOn(x, u) /\ AtClear(served[x]) => served'[x] = served[x]
            BY <1>3, <1>5
        <2>4. QED
            BY <1>1, <1>2, <2>1, <2>2, <2>3, SessionKept
    <1>10. SessionsInv'
        BY <1>0, <1>1, <1>5, <1>6, <1>9, StepSessions DEF AccountsInv
    <1>11. QED
        BY <1>4, <1>8, <1>10 DEF AccountsInv

\* A step of a request that is not bootstrap: the requests after it.
LEMMA SteppedUp ==
    ASSUME AccountsInv, NEW w \in Worker, NEW x, Auth!Runs(w, x), Auth!Advance(w),
           x \notin {"email", "flag", "wallet"}
    PROVE  up /\ up' /\ ServedInv'
    <1>1. served[w] # Nobody /\ Asks(served[w]) /\ Head(served[w].todo) = x
        BY Stepped DEF AccountsInv
    <1>2. served[w].op # "bootstrap"
        BY <1>1, Commits DEF Asks, Boots, SignsUp, LogsIn, Changes, Edits, Verifies
    <1>3. up /\ up' = up
        BY <1>1, <1>2, Stepped DEF AccountsInv, ServedInv
    <1>4. served'[w] # Nobody => Asks(served'[w]) /\ served'[w].op # "bootstrap"
        BY <1>2, Stepped, SteppedWhere DEF AccountsInv
    <1>5. \A y \in Worker : served'[y] # Nobody => Asks(served'[y]) /\ served'[y].op # "bootstrap"
        BY <1>3, <1>4, Stepped, NoBoot DEF AccountsInv
    <1>6. QED
        BY <1>3, <1>5, Stepped, ServedUp DEF AccountsInv

\* The tokens are deleted.
LEMMA ClearStep ==
    ASSUME AccountsInv, NEW w \in Worker, Auth!Clear(w)
    PROVE  AccountsInv'
    <1>0. PICK u : u = served[w].user
        OBVIOUS
    <1>1. /\ Auth!Runs(w, "clear") /\ Auth!Advance(w)
          /\ UNCHANGED <<account, wallet, mailed, otp, proven, swapped>>
          /\ sessions' = [sessions EXCEPT ![u] = <<>>]
          /\ loose' = IF Auth!On(u) = {w} /\ served[w].op # "login" THEN loose \ {u} ELSE loose
        BY <1>0 DEF Auth!Clear, Auth!codes
    <1>2. /\ served[w] # Nobody /\ Asks(served[w]) /\ Head(served[w].todo) = "clear"
          /\ accountCalls' = accountCalls
          /\ \A y \in Worker : y # w => served'[y] = served[y]
          /\ served'[w] # Nobody => served'[w].user = u /\ served'[w].op = served[w].op
                                    /\ served'[w].arg = served[w].arg
        BY <1>0, <1>1, Stepped DEF AccountsInv
    <1>3. \/ LogsIn(served[w]) /\ LogsIn(served'[w]) /\ served'[w].todo = <<"open">>
          \/ Changes(served[w]) /\ AtClear(served[w]) /\ served'[w] = Nobody
        BY <1>1, SteppedWhere DEF AccountsInv
    <1>4. u \in User /\ sessions'[u] = <<>>
        BY <1>0, <1>1, <1>3 DEF LogsIn, Changes, AccountsInv, AccountTables
    <1>5. AccountTables'
        BY <1>1, <1>2, <1>4 DEF AccountsInv, AccountTables
    <1>6. ServedInv'
        BY <1>1, SteppedUp
    <1>7. ProvenInv'
        <2>1. served'[w] # Nobody =>
                  served'[w].op # "edit" /\ served'[w].todo \notin {<<"markEmail">>, <<"markPhone">>}
            BY <1>3 DEF LogsIn
        <2>2. QED
            BY <1>1, <1>2, <2>1, ProvenKept DEF AccountsInv
    <1>8. ASSUME u \notin loose' PROVE SessionOK(u)'
        <2>1. CASE u \in loose
            <3>1. Auth!On(u) = {w} /\ served[w].op # "login"
                BY <1>1, <1>8, <2>1
            <3>2. \A x \in Worker : WorksOn(x, u) => x = w
                BY <3>1, Words
            <3>3. served'[w] = Nobody
                BY <1>3, <3>1 DEF LogsIn
            <3>4. \A x \in Worker : ~WorksOn(x, u)'
                BY <1>2, <3>2, <3>3 DEF WorksOn
            <3>5. QED
                BY <1>4, <3>4 DEF SessionOK, Matches
        <2>2. CASE u \notin loose
            <3>1. SessionOK(u)
                BY <1>4, <2>2 DEF AccountsInv, SessionsInv
            <3>2. served[w].todo # <<"markPhone">> /\ WorksOn(w, u)
                BY <1>0, <1>2, <1>3 DEF LogsIn, Changes, WorksOn
            <3>3. \A x \in Worker : WorksOn(x, u)' => WorksOn(x, u)
                BY <1>2, <3>2 DEF WorksOn
            <3>4. \A x, y \in Worker : WorksOn(x, u)' /\ WorksOn(y, u)'
                     /\ served'[x].todo # <<"markPhone">> /\ served'[y].todo # <<"markPhone">> => x = y
                BY <1>2, <3>1, <3>2, <3>3 DEF SessionOK
            <3>5. ASSUME NEW x \in Worker, WorksOn(x, u)'
                  PROVE  Current(served'[x], account'[u], sessions'[u])
                <4>1. Current(served[x], account[u], sessions[u])
                    BY <3>1, <3>3, <3>5 DEF SessionOK
                <4>2. served'[x].op = served[x].op /\ served'[x].arg = served[x].arg
                    BY <1>2, <3>5 DEF WorksOn
                <4>3. QED
                    BY <1>1, <1>4, <4>1, <4>2 DEF Current
            <3>6. QED
                BY <1>4, <3>4, <3>5 DEF SessionOK, Matches
        <2>3. QED
            BY <2>1, <2>2
    <1>9. SessionsInv'
        <2>1. /\ \A v \in User : v # u => sessions'[v] = sessions[v] /\ account'[v] = account[v]
              /\ loose \ {u} \subseteq loose'
            BY <1>1 DEF AccountsInv, AccountTables
        <2>2. QED
            BY <1>0, <1>2, <1>8, <2>1, StepSessions DEF AccountsInv
    <1>10. QED
        BY <1>5, <1>6, <1>7, <1>9 DEF AccountsInv

\* The last commit of a request that is the only one of an account, but for
\* those that write the flag of a number.
LEMMA OnlyRequest ==
    ASSUME NEW w \in Worker, NEW u \in User, SessionOK(u), ServedInv, WorksOn(w, u),
           served[w].todo # <<"markPhone">>, served'[w] = Nobody,
           \A x \in Worker : x # w => served'[x] = served[x],
           Matches(sessions'[u], account'[u])
    PROVE  SessionOK(u)'
    <1>1. \A x \in Worker : WorksOn(x, u)' => WorksOn(x, u) /\ served'[x] = served[x] /\ x # w
        BY DEF WorksOn
    <1>2. ASSUME NEW x \in Worker, WorksOn(x, u)'
          PROVE  served'[x].todo = <<"markPhone">> /\ served'[x].op = "verify"
        <2>1. served'[x].todo = <<"markPhone">> /\ Asks(served'[x])
            BY <1>1, <1>2 DEF SessionOK, ServedInv, WorksOn
        <2>2. QED
            BY <2>1 DEF Asks, Boots, SignsUp, LogsIn, Changes, Edits, Verifies
    <1>3. \A x \in Worker : WorksOn(x, u)' => Current(served'[x], account'[u], sessions'[u])
        BY <1>2 DEF Current
    <1>4. QED
        BY <1>2, <1>3 DEF SessionOK

\* The token of a login.
LEMMA OpenStep ==
    ASSUME AccountsInv, NEW w \in Worker, Auth!Open(w)
    PROVE  AccountsInv'
    <1>0. PICK u : u = served[w].user
        OBVIOUS
    <1>1. /\ Auth!Runs(w, "open") /\ Auth!Advance(w) /\ account[u] # Nobody
          /\ UNCHANGED <<account, wallet, mailed, otp, proven, loose, swapped>>
          /\ sessions' = [sessions EXCEPT ![u] = Append(@, served[w].arg)]
        BY <1>0 DEF Auth!Open, Auth!codes, Auth!history, Auth!Exists
    <1>2. /\ served[w] # Nobody /\ Asks(served[w]) /\ Head(served[w].todo) = "open"
          /\ accountCalls' = accountCalls
          /\ \A y \in Worker : y # w => served'[y] = served[y]
        BY <1>1, Stepped DEF AccountsInv
    <1>3. LogsIn(served[w]) /\ served[w].todo = <<"open">> /\ served'[w] = Nobody
        BY <1>1, <1>2, SteppedWhere, NextCommit DEF AccountsInv
    <1>4. u \in User /\ sessions'[u] = Append(sessions[u], served[w].arg) /\ served[w].arg \in Password
        BY <1>0, <1>1, <1>3 DEF LogsIn, AccountsInv, AccountTables
    <1>5. AccountTables'
        <2>1. sessions' \in [User -> Seq(Password)]
            BY <1>1, <1>4, AppendProperties DEF AccountsInv, AccountTables
        <2>2. QED
            BY <1>1, <1>2, <1>4, <2>1 DEF AccountsInv, AccountTables
    <1>6. ServedInv'
        BY <1>1, SteppedUp
    <1>7. ProvenInv'
        BY <1>1, <1>2, <1>3, ProvenKept DEF AccountsInv
    <1>8. ASSUME u \notin loose' PROVE SessionOK(u)'
        <2>1. SessionOK(u) /\ WorksOn(w, u)
            BY <1>0, <1>1, <1>2, <1>4, <1>8 DEF AccountsInv, SessionsInv, WorksOn
        <2>2. Current(served[w], account[u], sessions[u])
            BY <2>1 DEF SessionOK
        <2>3. sessions[u] = <<>> /\ account[u].password = served[w].arg
            BY <1>1, <1>3, <2>2 DEF Current, LogsIn
        <2>4. sessions'[u] = <<account'[u].password>>
            BY <1>1, <1>4, <2>3
        <2>5. QED
            BY <1>1, <1>2, <1>3, <1>4, <2>1, <2>4, OnlyRequest DEF Matches, AccountsInv
    <1>9. SessionsInv'
        <2>1. /\ \A v \in User : v # u => sessions'[v] = sessions[v] /\ account'[v] = account[v]
              /\ loose \ {u} \subseteq loose'
            BY <1>1 DEF AccountsInv, AccountTables
        <2>2. QED
            BY <1>0, <1>2, <1>3, <1>8, <2>1, StepSessions DEF AccountsInv
    <1>10. QED
        BY <1>5, <1>6, <1>7, <1>9 DEF AccountsInv

\* The new password; the tokens of the old one are still there.
LEMMA UpdatePasswordStep ==
    ASSUME AccountsInv, NEW w \in Worker, Auth!UpdatePassword(w)
    PROVE  AccountsInv'
    <1>0. PICK u : u = served[w].user
        OBVIOUS
    <1>1. /\ Auth!Runs(w, "password") /\ Auth!Advance(w)
          /\ UNCHANGED <<wallet, sessions, mailed, otp, proven, loose, swapped>>
          /\ account' = [account EXCEPT ![u] =
                IF account[u] # Nobody THEN [account[u] EXCEPT !.password = served[w].arg] ELSE Nobody]
        BY <1>0 DEF Auth!UpdatePassword, Auth!codes, Auth!history, Auth!Exists
    <1>2. /\ served[w] # Nobody /\ Asks(served[w]) /\ Head(served[w].todo) = "password"
          /\ accountCalls' = accountCalls
          /\ \A y \in Worker : y # w => served'[y] = served[y]
          /\ served'[w] # Nobody => served'[w].user = u
        BY <1>0, <1>1, Stepped DEF AccountsInv
    <1>3. /\ Changes(served[w]) /\ served[w].todo = <<"password", "clear">>
          /\ Changes(served'[w]) /\ AtClear(served'[w])
        BY <1>1, <1>2, SteppedWhere, NextCommit DEF AccountsInv
    <1>4. u \in User /\ served[w].arg \in Password
        BY <1>0, <1>3 DEF Changes
    <1>5. /\ account' \in [User -> Rows \cup {Nobody}]
          /\ account'[u] # Nobody => account[u] # Nobody
                /\ account'[u] = [account[u] EXCEPT !.password = served[w].arg]
          /\ account'[u] = Nobody => account[u] = Nobody
        BY <1>1, <1>4, AccountsAssumption DEF AccountsInv, AccountTables, Rows, Auth!AccountRow
    <1>6. AccountTables'
        BY <1>1, <1>2, <1>5 DEF AccountsInv, AccountTables
    <1>7. ServedInv'
        BY <1>1, SteppedUp
    <1>8. ProvenInv'
        <2>1. account'[u] # Nobody => Shown(account'[u], u, proven', swapped')
            BY <1>1, <1>4, <1>5 DEF AccountsInv, AccountTables, ProvenInv, Shown, Rows, Auth!AccountRow
        <2>2. \A v \in User : v # u => account'[v] = account[v]
            BY <1>1 DEF AccountsInv, AccountTables
        <2>3. served'[w].op # "edit" /\ served'[w].todo \notin {<<"markEmail">>, <<"markPhone">>}
            BY <1>3 DEF AtClear
        <2>4. QED
            BY <1>1, <1>2, <2>1, <2>2, <2>3, ProvenKept DEF AccountsInv
    <1>9. ASSUME u \notin loose' PROVE SessionOK(u)'
        <2>1. SessionOK(u) /\ WorksOn(w, u) /\ served[w].todo # <<"markPhone">>
            BY <1>0, <1>1, <1>2, <1>3, <1>4, <1>9 DEF AccountsInv, SessionsInv, WorksOn
        <2>2. \A x \in Worker : WorksOn(x, u)' => WorksOn(x, u)
            BY <1>2, <2>1 DEF WorksOn
        <2>3. \A x, y \in Worker : WorksOn(x, u)' /\ WorksOn(y, u)'
                 /\ served'[x].todo # <<"markPhone">> /\ served'[y].todo # <<"markPhone">> => x = y
            BY <1>2, <2>1, <2>2 DEF SessionOK
        <2>4. ASSUME NEW x \in Worker, WorksOn(x, u)'
              PROVE  Current(served'[x], account'[u], sessions'[u])
            <3>1. CASE x = w
                BY <1>3, <3>1 DEF Current, Changes, AtClear
            <3>2. CASE x # w
                <4>1. served'[x].todo = <<"markPhone">> /\ Asks(served'[x])
                    BY <1>2, <2>1, <2>2, <2>4, <3>2 DEF SessionOK, AccountsInv, ServedInv, WorksOn
                <4>2. QED
                    BY <4>1 DEF Current, Asks, Boots, SignsUp, LogsIn, Changes, Edits, Verifies
            <3>3. QED
                BY <3>1, <3>2
        <2>5. WorksOn(w, u)'
            BY <1>1, <1>2, SteppedWhere DEF WorksOn, AccountsInv
        <2>6. QED
            BY <1>3, <2>3, <2>4, <2>5 DEF SessionOK
    <1>10. SessionsInv'
        <2>1. /\ \A v \in User : v # u => sessions'[v] = sessions[v] /\ account'[v] = account[v]
              /\ loose \ {u} \subseteq loose'
            BY <1>1 DEF AccountsInv, AccountTables
        <2>2. QED
            BY <1>0, <1>2, <1>9, <2>1, StepSessions DEF AccountsInv
    <1>11. QED
        BY <1>6, <1>7, <1>8, <1>10 DEF AccountsInv

\* The whole row as it was read, with what the edit changed.
LEMMA SaveStep ==
    ASSUME AccountsInv, NEW w \in Worker, Auth!Save(w)
    PROVE  AccountsInv'
    <1>0. PICK u : u = served[w].user
        OBVIOUS
    <1>1. /\ Auth!Runs(w, "save") /\ Auth!Advance(w)
          /\ UNCHANGED <<wallet, sessions, mailed, otp, proven, loose, swapped>>
          /\ account' = [account EXCEPT ![u] = served[w].arg]
        BY <1>0 DEF Auth!Save, Auth!codes, Auth!history
    <1>2. /\ served[w] # Nobody /\ Asks(served[w]) /\ Head(served[w].todo) = "save"
          /\ accountCalls' = accountCalls
          /\ \A y \in Worker : y # w => served'[y] = served[y]
        BY <1>1, Stepped DEF AccountsInv
    <1>3. Edits(served[w]) /\ served'[w] = Nobody
        BY <1>1, <1>2, SteppedWhere, NextCommit DEF AccountsInv
    <1>4. u \in User /\ served[w].arg \in Rows /\ served[w].op = "edit"
        BY <1>0, <1>3 DEF Edits
    <1>5. account' \in [User -> Rows \cup {Nobody}] /\ account'[u] = served[w].arg /\ account'[u] # Nobody
        BY <1>1, <1>4, AccountsAssumption DEF AccountsInv, AccountTables, Rows
    <1>6. AccountTables'
        BY <1>1, <1>2, <1>5 DEF AccountsInv, AccountTables
    <1>7. ServedInv'
        BY <1>1, SteppedUp
    <1>8. ProvenInv'
        <2>1. Shown(account'[u], u, proven', swapped')
            BY <1>0, <1>1, <1>2, <1>4, <1>5 DEF AccountsInv, ProvenInv, Shown
        <2>2. \A v \in User : v # u => account'[v] = account[v]
            BY <1>1 DEF AccountsInv, AccountTables
        <2>3. QED
            BY <1>1, <1>2, <1>3, <2>1, <2>2, ProvenKept DEF AccountsInv
    <1>9. ASSUME u \notin loose' PROVE SessionOK(u)'
        <2>1. SessionOK(u) /\ WorksOn(w, u) /\ served[w].todo = <<"save">>
            BY <1>0, <1>1, <1>2, <1>3, <1>4, <1>9 DEF AccountsInv, SessionsInv, WorksOn, Edits
        <2>2. Current(served[w], account[u], sessions[u])
            BY <2>1 DEF SessionOK
        <2>3. ASSUME NEW x \in Worker, WorksOn(x, u) PROVE ~AtClear(served[x])
            BY <2>1, <2>3 DEF SessionOK, AtClear
        <2>4. Matches(sessions[u], account[u]) /\ (account[u] = Nobody => sessions[u] = <<>>)
            BY <1>4, <2>1, <2>3 DEF SessionOK, AccountsInv, AccountTables
        <2>5. Matches(sessions'[u], account'[u])
            BY <1>1, <1>4, <1>5, <2>2, <2>4 DEF Matches, Current
        <2>6. QED
            BY <1>2, <1>3, <1>4, <2>1, <2>5, OnlyRequest DEF AccountsInv
    <1>10. SessionsInv'
        <2>1. /\ \A v \in User : v # u => sessions'[v] = sessions[v] /\ account'[v] = account[v]
              /\ loose \ {u} \subseteq loose'
            BY <1>1 DEF AccountsInv, AccountTables
        <2>2. QED
            BY <1>0, <1>2, <1>3, <1>9, <2>1, StepSessions DEF AccountsInv
    <1>11. QED
        BY <1>6, <1>7, <1>8, <1>10 DEF AccountsInv

\* A last commit that writes a flag, and the address it is for, leaves the
\* password and the tokens alone.
LEMMA FlagSessions ==
    ASSUME AccountTables, SessionsInv, NEW w \in Worker, NEW u \in User, served[w] # Nobody,
           served[w].user = u, served'[w] = Nobody, ~AtClear(served[w]),
           \A x \in Worker : x # w => served'[x] = served[x],
           sessions' = sessions, loose' = loose, \A v \in User : v # u => account'[v] = account[v],
           account'[u] # Nobody => account[u] # Nobody /\ account'[u].password = account[u].password,
           account'[u] = Nobody => account[u] = Nobody
    PROVE  SessionsInv'
    <1>1. ASSUME u \notin loose' PROVE SessionOK(u)'
        <2>1. SessionOK(u) /\ (account[u] = Nobody => sessions[u] = <<>>)
            BY <1>1 DEF SessionsInv, AccountTables
        <2>2. \A x \in Worker : WorksOn(x, u)' => served'[x] = served[x]
            BY DEF WorksOn
        <2>3. \A x \in Worker : WorksOn(x, u) /\ AtClear(served[x]) => served'[x] = served[x]
            OBVIOUS
        <2>4. QED
            BY <2>1, <2>2, <2>3, SessionKept
    <1>2. QED
        BY <1>1, StepSessions

\* The flag of an address, with the address that was proven.
LEMMA MarkEmailStep ==
    ASSUME AccountsInv, NEW w \in Worker, Auth!MarkEmailVerified(w)
    PROVE  AccountsInv'
    <1>0. PICK u : u = served[w].user
        OBVIOUS
    <1>1. /\ Auth!Runs(w, "markEmail") /\ Auth!Advance(w)
          /\ UNCHANGED <<wallet, sessions, mailed, otp, proven, loose, swapped>>
          /\ account' = [account EXCEPT ![u] =
                IF account[u] # Nobody
                THEN [account[u] EXCEPT !.email = served[w].arg, !.emailOk = TRUE] ELSE Nobody]
        BY <1>0 DEF Auth!MarkEmailVerified, Auth!codes, Auth!history, Auth!Exists
    <1>2. /\ served[w] # Nobody /\ Asks(served[w]) /\ Head(served[w].todo) = "markEmail"
          /\ accountCalls' = accountCalls
          /\ \A y \in Worker : y # w => served'[y] = served[y]
        BY <1>1, Stepped DEF AccountsInv
    <1>3. Verifies(served[w]) /\ served[w].todo = <<"markEmail">> /\ served'[w] = Nobody
        BY <1>1, <1>2, SteppedWhere, NextCommit DEF AccountsInv
    <1>4. u \in User /\ served[w].arg \in Email /\ served[w].arg \in proven
        BY <1>0, <1>2, <1>3, Commits DEF Verifies, AccountsInv, ProvenInv
    <1>5. /\ account' \in [User -> Rows \cup {Nobody}]
          /\ account'[u] # Nobody => account[u] # Nobody
                /\ account'[u] = [account[u] EXCEPT !.email = served[w].arg, !.emailOk = TRUE]
          /\ account'[u] = Nobody => account[u] = Nobody
        BY <1>1, <1>4, AccountsAssumption DEF AccountsInv, AccountTables, Rows, Auth!AccountRow
    <1>6. AccountTables'
        BY <1>1, <1>2, <1>5 DEF AccountsInv, AccountTables
    <1>7. ServedInv'
        BY <1>1, SteppedUp
    <1>8. \A v \in User : v # u => account'[v] = account[v]
        BY <1>1 DEF AccountsInv, AccountTables
    <1>9. account'[u] # Nobody => /\ Shown(account'[u], u, proven', swapped')
                                  /\ account'[u].password = account[u].password
        BY <1>1, <1>4, <1>5 DEF AccountsInv, AccountTables, ProvenInv, Shown, Rows, Auth!AccountRow
    <1>10. ProvenInv'
        BY <1>1, <1>2, <1>3, <1>8, <1>9, ProvenKept DEF AccountsInv
    <1>11. SessionsInv'
        BY <1>0, <1>1, <1>2, <1>3, <1>4, <1>5, <1>8, <1>9, FlagSessions DEF AccountsInv, AtClear
    <1>12. QED
        BY <1>6, <1>7, <1>10, <1>11 DEF AccountsInv

\* The flag of a number, whatever number the row has.
LEMMA MarkPhoneStep ==
    ASSUME AccountsInv, NEW w \in Worker, Auth!MarkPhoneVerified(w)
    PROVE  AccountsInv'
    <1>0. PICK u : u = served[w].user
        OBVIOUS
    <1>1. /\ Auth!Runs(w, "markPhone") /\ Auth!Advance(w)
          /\ UNCHANGED <<wallet, sessions, mailed, otp, proven, loose>>
          /\ account' = [account EXCEPT ![u] =
                IF account[u] # Nobody THEN [account[u] EXCEPT !.phoneOk = TRUE] ELSE Nobody]
          /\ swapped' = IF account[u] # Nobody /\ account[u].phone # served[w].arg
                        THEN swapped \cup {u} ELSE swapped
        BY <1>0 DEF Auth!MarkPhoneVerified, Auth!codes, Auth!Exists
    <1>2. /\ served[w] # Nobody /\ Asks(served[w]) /\ Head(served[w].todo) = "markPhone"
          /\ accountCalls' = accountCalls
          /\ \A y \in Worker : y # w => served'[y] = served[y]
        BY <1>1, Stepped DEF AccountsInv
    <1>3. Verifies(served[w]) /\ served[w].todo = <<"markPhone">> /\ served'[w] = Nobody
        BY <1>1, <1>2, SteppedWhere, NextCommit DEF AccountsInv
    <1>4. u \in User /\ served[w].arg \in proven
        BY <1>0, <1>2, <1>3, Commits DEF Verifies, AccountsInv, ProvenInv
    <1>5. /\ account' \in [User -> Rows \cup {Nobody}]
          /\ account'[u] # Nobody => account[u] # Nobody
                /\ account'[u] = [account[u] EXCEPT !.phoneOk = TRUE]
          /\ account'[u] = Nobody => account[u] = Nobody
        BY <1>1, <1>4, AccountsAssumption DEF AccountsInv, AccountTables, Rows, Auth!AccountRow
    <1>6. AccountTables'
        BY <1>1, <1>2, <1>4, <1>5 DEF AccountsInv, AccountTables
    <1>7. ServedInv'
        BY <1>1, SteppedUp
    <1>8. \A v \in User : v # u => account'[v] = account[v]
        BY <1>1 DEF AccountsInv, AccountTables
    <1>9. account'[u] # Nobody => /\ Shown(account'[u], u, proven', swapped')
                                  /\ account'[u].password = account[u].password
        BY <1>1, <1>4, <1>5 DEF AccountsInv, AccountTables, ProvenInv, Shown, Rows, Auth!AccountRow
    <1>10. swapped \subseteq swapped'
        BY <1>1
    <1>11. ProvenInv'
        BY <1>1, <1>2, <1>3, <1>8, <1>9, <1>10, ProvenKept DEF AccountsInv
    <1>12. SessionsInv'
        BY <1>0, <1>1, <1>2, <1>3, <1>4, <1>5, <1>8, <1>9, FlagSessions DEF AccountsInv, AtClear
    <1>13. QED
        BY <1>6, <1>7, <1>11, <1>12 DEF AccountsInv

\* The commits of a request are a sequence of words.
LEMMA ShortSequences ==
    ASSUME NEW S, NEW x \in S, NEW y \in S, NEW z \in S
    PROVE  <<x>> \in Seq(S) /\ <<x, y>> \in Seq(S) /\ <<x, y, z>> \in Seq(S)
    OBVIOUS

LEMMA TodoWords ==
    /\ <<"wallet">> \in Seq(Word) /\ <<"save">> \in Seq(Word) /\ <<"used">> \in Seq(Word)
    /\ <<"markEmail">> \in Seq(Word) /\ <<"markPhone">> \in Seq(Word)
    /\ <<"clear", "open">> \in Seq(Word) /\ <<"password", "clear">> \in Seq(Word)
    /\ <<"email", "flag", "wallet">> \in Seq(Word)
    <1>1. \A x, y, z \in Word :
              <<x>> \in Seq(Word) /\ <<x, y>> \in Seq(Word) /\ <<x, y, z>> \in Seq(Word)
        BY ShortSequences
    <1>2. {"email", "flag", "wallet", "clear", "open", "password", "save",
           "markEmail", "used", "markPhone"} \subseteq Word
        BY DEF Word
    <1>3. QED
        BY <1>1, <1>2

\* A request as it begins.
LEMMA NewRequest ==
    ASSUME NEW op \in Operation, NEW u \in User \cup {Nobody}, NEW todo \in Seq(Word),
           NEW arg \in Rows \cup Password \cup Email \cup Phone \cup {Nobody}
    PROVE  LET r == [op |-> op, user |-> u, todo |-> todo, arg |-> arg]
           IN  r \in Request /\ r.op = op /\ r.user = u /\ r.todo = todo /\ r.arg = arg
    BY DEF Request, Rows, Word, Operation

\* A number's code is used up, and an account is looked up to flag it.
LEMMA UseOtpStep ==
    ASSUME AccountsInv, NEW w \in Worker, Auth!UseOtp(w)
    PROVE  AccountsInv'
    <1> DEFINE r == served[w]
    <1>1. /\ r # Nobody /\ Head(r.todo) = "used"
          /\ UNCHANGED <<account, wallet, sessions, mailed, up, accountCalls, loose, swapped>>
          /\ otp' = otp \ {r.arg} /\ proven' = proven \cup {r.arg}
          /\ \/ served' = [served EXCEPT ![w] = Nobody]
             \/ \E u \in User : served' = [served EXCEPT ![w] =
                                   [r EXCEPT !.user = u, !.todo = <<"markPhone">>]]
        BY DEF Auth!UseOtp, Auth!Runs, Auth!Running
    <1>2. served \in [Worker -> Request \cup {Nobody}] /\ Asks(r) /\ r \in Request
        BY <1>1 DEF AccountsInv, ServedInv, Asks
    <1>3. Verifies(r) /\ r.todo = <<"used">> /\ r.arg \in Phone
        <2>1. Verifies(r) /\ r.todo = <<"used">>
            BY <1>1, <1>2, NextCommit
        <2>2. <<"used">> # <<"markEmail">> /\ <<"used">> # <<"markPhone">>
            BY Commits
        <2>3. QED
            BY <2>1, <2>2 DEF Verifies
    <1>4. up
        BY <1>1, <1>3 DEF AccountsInv, ServedInv, Verifies
    <1>5. AccountTables'
        BY <1>1, <1>3 DEF AccountsInv, AccountTables
    <1> DEFINE q == served'[w]
    <1>6. \A x \in Worker : x # w => served'[x] = served[x]
        BY <1>1, <1>2
    <1>7. q # Nobody => /\ q \in Request /\ q.op = r.op /\ q.arg = r.arg /\ q.user \in User
                        /\ q.todo = <<"markPhone">>
        <2>1. CASE served' = [served EXCEPT ![w] = Nobody]
            BY <1>2, <2>1
        <2>2. ASSUME NEW u \in User,
                     served' = [served EXCEPT ![w] = [r EXCEPT !.user = u, !.todo = <<"markPhone">>]]
              PROVE  /\ q \in Request /\ q.op = r.op /\ q.arg = r.arg /\ q.user \in User
                     /\ q.todo = <<"markPhone">>
            <3>1. q = [r EXCEPT !.user = u, !.todo = <<"markPhone">>]
                BY <1>2, <2>2
            <3>2. QED
                BY <1>2, <3>1, TodoWords DEF Request, Word
        <2>3. QED
            BY <1>1, <2>1, <2>2
    <1>8. q # Nobody => Asks(q) /\ Verifies(q) /\ q.op # "bootstrap"
        BY <1>3, <1>7 DEF Asks, Verifies
    <1>9. served' \in [Worker -> Request \cup {Nobody}]
        BY <1>1, <1>2, <1>7
    <1> HIDE DEF q
    <1>10. ServedInv'
        <2>1. \A x \in Worker : served'[x] # Nobody => Asks(served'[x]) /\ served'[x].op # "bootstrap"
            BY <1>4, <1>6, <1>8, NoBoot DEF AccountsInv, q
        <2>2. QED
            BY <1>1, <1>4, <1>9, <2>1, ServedUp
    <1>11. ProvenInv'
        <2>1. \A u \in User : account'[u] # Nobody => Shown(account'[u], u, proven', swapped')
            BY <1>1 DEF AccountsInv, ProvenInv, Shown
        <2>2. ASSUME NEW x \in Worker, served'[x] # Nobody
              PROVE  /\ served'[x].op = "edit" => Shown(served'[x].arg, served'[x].user, proven', swapped')
                     /\ served'[x].todo \in {<<"markEmail">>, <<"markPhone">>} => served'[x].arg \in proven'
            <3>1. CASE x = w
                BY <1>1, <1>7, <1>8, <2>2, <3>1 DEF q, Verifies
            <3>2. CASE x # w
                BY <1>1, <1>6, <2>2, <3>2 DEF AccountsInv, ProvenInv, Shown
            <3>3. QED
                BY <3>1, <3>2
        <2>3. QED
            BY <2>1, <2>2 DEF ProvenInv
    <1>12. SessionsInv'
        <2> SUFFICES ASSUME NEW v \in User, v \notin loose' PROVE SessionOK(v)'
            BY DEF SessionsInv
        <2>1. SessionOK(v) /\ (account[v] = Nobody => sessions[v] = <<>>)
            BY <1>1 DEF AccountsInv, SessionsInv, AccountTables
        <2>2. ASSUME NEW x \in Worker, WorksOn(x, v)'
              PROVE  \/ served'[x] = served[x]
                     \/ Beside(served'[x]) /\ served'[x].todo = <<"markPhone">>
            <3>1. CASE x = w
                <4>1. q # Nobody
                    BY <2>2, <3>1 DEF WorksOn, q
                <4>2. q.todo = <<"markPhone">> /\ q.op = "verify"
                    BY <1>7, <1>8, <4>1 DEF Verifies
                <4>3. q.todo # <<"open">>
                    BY <4>2, Commits
                <4>4. QED
                    BY <3>1, <4>1, <4>2, <4>3 DEF Beside, q
            <3>2. QED
                BY <1>6, <3>1
        <2>3. \A x \in Worker : WorksOn(x, v) /\ AtClear(served[x]) => served'[x] = served[x]
            BY <1>3, <1>6, Commits DEF AtClear, Verifies
        <2>4. QED
            BY <1>1, <2>1, <2>2, <2>3, SessionKept
    <1>13. QED
        BY <1>5, <1>10, <1>11, <1>12 DEF AccountsInv

\* The requests that begin: what each has to show for it.
LEMMA StartedStep ==
    ASSUME AccountsInv, NEW w \in Worker, NEW op, NEW u \in User \cup {Nobody}, NEW todo, NEW arg,
           Auth!Start(w, op, u, todo, arg), Auth!Call,
           Asks([op |-> op, user |-> u, todo |-> todo, arg |-> arg]), op # "bootstrap",
           UNCHANGED <<wallet, sessions, mailed, otp, swapped>>,
           proven \subseteq proven', proven' \subseteq Email \cup Phone,
           account' \in [User -> Rows \cup {Nobody}],
           \A v \in User : v # u => account'[v] = account[v],
           u \in User => \/ account'[u] = account[u]
                         \/ /\ sessions[u] = <<>>
                            /\ Shown(account'[u], u, proven, swapped),
           op = "edit" => Shown(arg, u, proven, swapped),
           todo \in {<<"markEmail">>, <<"markPhone">>} => arg \in proven',
           u \in User => Current([op |-> op, user |-> u, todo |-> todo, arg |-> arg], account'[u], sessions[u])
    PROVE  AccountsInv'
    <1>1. up /\ up' = up /\ accountCalls' = accountCalls + 1 /\ accountCalls < MaxAccountCalls
        BY DEF Auth!Call
    <1>2. ServedInv' /\ ProvenInv' /\ SessionsInv' /\ loose' \subseteq User
        BY <1>1, StartInv
    <1>3. AccountTables'
        BY <1>1, <1>2, AccountsAssumption DEF AccountsInv, AccountTables
    <1>4. QED
        BY <1>2, <1>3 DEF AccountsInv

LEMMA LoginStep ==
    ASSUME AccountsInv, NEW w \in Worker, NEW u \in User, Auth!Login(w, u)
    PROVE  AccountsInv'
    <1>1. PICK p : p = account[u].password
        OBVIOUS
    <1>2. /\ Auth!Start(w, "login", u, <<"clear", "open">>, p) /\ Auth!Call
          /\ UNCHANGED <<account, wallet, sessions, mailed, otp, proven, swapped>>
          /\ account[u] # Nobody
        BY <1>1, Words DEF Auth!Login, Auth!codes
    <1>3. p \in Password
        BY <1>1, <1>2 DEF AccountsInv, AccountTables, Rows, Auth!AccountRow
    <1> DEFINE r == [op |-> "login", user |-> u, todo |-> <<"clear", "open">>, arg |-> p]
    <1>4. Asks(r)
        BY <1>3, NewRequest, TodoWords DEF Operation, Asks, LogsIn
    <1>5. Current(r, account'[u], sessions[u])
        BY <1>1, <1>2, Commits DEF Current
    <1>6. <<"clear", "open">> \notin {<<"markEmail">>, <<"markPhone">>}
        BY Commits
    <1>7. account' \in [User -> Rows \cup {Nobody}] /\ proven' \subseteq Email \cup Phone
        BY <1>2 DEF AccountsInv, AccountTables
    <1>8. QED
        BY <1>2, <1>4, <1>5, <1>6, <1>7, StartedStep

LEMMA ChangeStep ==
    ASSUME AccountsInv, NEW w \in Worker, NEW u \in User, NEW p \in Password,
           Auth!ChangePassword(w, u, p) \/ Auth!ResetPassword(w, u, p)
    PROVE  AccountsInv'
    <1>1. PICK op \in {"change", "reset"} : Auth!Start(w, op, u, <<"password", "clear">>, p)
        BY DEF Auth!ChangePassword, Auth!ResetPassword, Auth!ChangeSteps
    <1>2. UNCHANGED <<account, wallet, sessions, mailed, otp, proven, swapped>> /\ Auth!Call
        BY DEF Auth!ChangePassword, Auth!ResetPassword, Auth!codes
    <1> DEFINE r == [op |-> op, user |-> u, todo |-> <<"password", "clear">>, arg |-> p]
    <1>3. Asks(r)
        BY NewRequest, TodoWords DEF Operation, Asks, Changes
    <1>4. Current(r, account'[u], sessions[u])
        BY Commits DEF Current
    <1>5. <<"password", "clear">> \notin {<<"markEmail">>, <<"markPhone">>}
        BY Commits
    <1>6. account' \in [User -> Rows \cup {Nobody}] /\ proven' \subseteq Email \cup Phone
        BY <1>2 DEF AccountsInv, AccountTables
    <1>7. QED
        BY <1>1, <1>2, <1>3, <1>4, <1>5, <1>6, StartedStep

LEMMA EditStep ==
    ASSUME AccountsInv, NEW w \in Worker, NEW u \in User, Auth!Edit(w, u)
    PROVE  AccountsInv'
    <1>1. account[u] \in Rows /\ account[u] # Nobody
        BY Words DEF Auth!Edit, AccountsInv, AccountTables
    <1>2. PICK row \in {account[u]}
             \cup {[account[u] EXCEPT !.email = e, !.emailOk = FALSE] : e \in Email \ {account[u].email}}
             \cup {[account[u] EXCEPT !.phone = p, !.phoneOk = FALSE] : p \in Phone \ {account[u].phone}} :
             Auth!Start(w, "edit", u, <<"save">>, row)
        BY DEF Auth!Edit
    <1>3. UNCHANGED <<account, wallet, sessions, mailed, otp, proven, swapped>> /\ Auth!Call
        BY DEF Auth!Edit, Auth!codes
    <1>4. row \in Rows /\ row.password = account[u].password /\ Shown(row, u, proven, swapped)
        <2>1. Shown(account[u], u, proven, swapped)
            BY <1>1 DEF AccountsInv, ProvenInv
        <2>2. ASSUME NEW e \in Email, row = [account[u] EXCEPT !.email = e, !.emailOk = FALSE]
              PROVE  row \in Rows /\ row.password = account[u].password /\ Shown(row, u, proven, swapped)
            BY <1>1, <2>1, <2>2 DEF Rows, Auth!AccountRow, Shown
        <2>3. ASSUME NEW p \in Phone, row = [account[u] EXCEPT !.phone = p, !.phoneOk = FALSE]
              PROVE  row \in Rows /\ row.password = account[u].password /\ Shown(row, u, proven, swapped)
            BY <1>1, <2>1, <2>3 DEF Rows, Auth!AccountRow, Shown
        <2>4. QED
            BY <1>1, <1>2, <2>1, <2>2, <2>3
    <1> DEFINE r == [op |-> "edit", user |-> u, todo |-> <<"save">>, arg |-> row]
    <1>5. Asks(r)
        BY <1>4, NewRequest, TodoWords DEF Operation, Asks, Edits
    <1>6. Current(r, account'[u], sessions[u])
        BY <1>3, <1>4, Commits DEF Current
    <1>7. <<"save">> \notin {<<"markEmail">>, <<"markPhone">>}
        BY Commits
    <1>8. account' \in [User -> Rows \cup {Nobody}] /\ proven' \subseteq Email \cup Phone
        BY <1>3 DEF AccountsInv, AccountTables
    <1>9. QED
        BY <1>2, <1>3, <1>4, <1>5, <1>6, <1>7, <1>8, StartedStep

LEMMA VerifyEmailStep ==
    ASSUME AccountsInv, NEW w \in Worker, NEW u \in User, Auth!VerifyEmailCode(w, u)
    PROVE  AccountsInv'
    <1>1. PICK e : e = account[u].email
        OBVIOUS
    <1>2. /\ Auth!Start(w, "verify", u, <<"markEmail">>, e) /\ Auth!Call
          /\ UNCHANGED <<account, wallet, sessions, mailed, otp, swapped>>
          /\ proven' = proven \cup {e} /\ e \in {c[2] : c \in mailed}
        BY <1>1 DEF Auth!VerifyEmailCode, Auth!codes
    <1>3. e \in Email
        BY <1>2 DEF AccountsInv, AccountTables
    <1> DEFINE r == [op |-> "verify", user |-> u, todo |-> <<"markEmail">>, arg |-> e]
    <1>4. Asks(r)
        BY <1>3, NewRequest, TodoWords DEF Operation, Asks, Verifies
    <1>5. Current(r, account'[u], sessions[u])
        BY Commits DEF Current
    <1>6. account' \in [User -> Rows \cup {Nobody}] /\ proven' \subseteq Email \cup Phone
        BY <1>2, <1>3 DEF AccountsInv, AccountTables
    <1>7. QED
        BY <1>2, <1>4, <1>5, <1>6, StartedStep

LEMMA VerifyPhoneStep ==
    ASSUME AccountsInv, NEW w \in Worker, NEW p \in Phone, Auth!VerifyPhoneCode(w, p)
    PROVE  AccountsInv'
    <1>1. /\ Auth!Start(w, "verify", Nobody, <<"used">>, p) /\ Auth!Call
          /\ UNCHANGED <<account, wallet, sessions, mailed, otp, proven, swapped>>
        BY DEF Auth!VerifyPhoneCode, Auth!codes
    <1> DEFINE r == [op |-> "verify", user |-> Nobody, todo |-> <<"used">>, arg |-> p]
    <1>2. Asks(r)
        BY NewRequest, TodoWords DEF Operation, Asks, Verifies
    <1>3. <<"used">> \notin {<<"markEmail">>, <<"markPhone">>} /\ Nobody \notin User
        BY Commits, AccountsAssumption
    <1>4. account' \in [User -> Rows \cup {Nobody}] /\ proven' \subseteq Email \cup Phone
        BY <1>1 DEF AccountsInv, AccountTables
    <1>5. QED
        BY <1>1, <1>2, <1>3, <1>4, StartedStep

LEMMA SignupStep ==
    ASSUME AccountsInv, NEW w \in Worker, NEW u \in User, NEW p \in Password, Auth!Signup(w, u, p)
    PROVE  AccountsInv'
    <1>1. /\ Auth!Start(w, "signup", u, <<"wallet">>, Nobody) /\ Auth!Call
          /\ UNCHANGED <<wallet, sessions, mailed, otp, proven, swapped>>
          /\ account[u] = Nobody
          /\ account' = [account EXCEPT ![u] = Auth!NewAccount(p)]
        BY Words DEF Auth!Signup, Auth!codes
    <1>2. Auth!NewAccount(p) \in Rows /\ ~Auth!NewAccount(p).emailOk /\ ~Auth!NewAccount(p).phoneOk
        BY DEF Auth!NewAccount, Rows, Auth!AccountRow
    <1>3. /\ account' \in [User -> Rows \cup {Nobody}] /\ account'[u] = Auth!NewAccount(p)
          /\ \A v \in User : v # u => account'[v] = account[v]
          /\ sessions[u] = <<>> /\ proven' \subseteq Email \cup Phone
        BY <1>1, <1>2 DEF AccountsInv, AccountTables
    <1> DEFINE r == [op |-> "signup", user |-> u, todo |-> <<"wallet">>, arg |-> Nobody]
    <1>4. Asks(r)
        BY NewRequest, TodoWords DEF Operation, Asks, SignsUp
    <1>5. Current(r, account'[u], sessions[u])
        BY Commits DEF Current
    <1>6. <<"wallet">> \notin {<<"markEmail">>, <<"markPhone">>}
        BY Commits
    <1>7. Shown(account'[u], u, proven, swapped)
        BY <1>2, <1>3 DEF Shown
    <1>8. QED
        BY <1>1, <1>3, <1>4, <1>5, <1>6, <1>7, StartedStep

-----------------------------------------------------------------------------
\* Bootstrap provides the administrator's account, or gives it the configured
\* password.
LEMMA BootstrapStep ==
    ASSUME AccountsInv, NEW w \in Worker, Auth!Bootstrap(w)
    PROVE  AccountsInv'
    <1>1. /\ UNCHANGED <<wallet, sessions, mailed, otp, accountCalls, proven, swapped>>
          /\ ~up /\ \A x \in Worker : served[x] = Nobody
        BY DEF Auth!Bootstrap, Auth!codes, Auth!Running
    <1>2. \A x \in Worker, v \in User : ~WorksOn(x, v)
        BY <1>1 DEF WorksOn
    <1>3. served \in [Worker -> Request \cup {Nobody}] /\ Admin \in User /\ AdminPassword \in Password
        BY AccountsAssumption DEF AccountsInv, ServedInv
    <1>4. CASE account[Admin] = Nobody
        <2> DEFINE r == [op |-> "bootstrap", user |-> Admin,
                         todo |-> <<"email", "flag", "wallet">>, arg |-> Nobody]
        <2>1. /\ account' = [account EXCEPT ![Admin] = Auth!NewAccount(AdminPassword)]
              /\ served' = [served EXCEPT ![w] = r]
              /\ up' = up /\ loose' = loose
            <3>1. Auth!On(Admin) = {}
                BY <1>2, <1>3, Words
            <3>2. QED
                BY <1>4, <3>1, Words DEF Auth!Bootstrap, Auth!Start
        <2>2. r \in Request /\ Asks(r) /\ r.op = "bootstrap" /\ r.user = Admin
              /\ r.todo = <<"email", "flag", "wallet">>
            BY <1>3, NewRequest, TodoWords DEF Operation, Asks, Boots
        <2> HIDE DEF r
        <2>3. Auth!NewAccount(AdminPassword) \in Rows
              /\ ~Auth!NewAccount(AdminPassword).emailOk /\ ~Auth!NewAccount(AdminPassword).phoneOk
            BY <1>3 DEF Auth!NewAccount, Rows, Auth!AccountRow
        <2>4. /\ account' \in [User -> Rows \cup {Nobody}]
              /\ account'[Admin] = Auth!NewAccount(AdminPassword) /\ account'[Admin] # Nobody
              /\ \A v \in User : v # Admin => account'[v] = account[v]
            BY <1>3, <2>1, <2>3, AccountsAssumption DEF AccountsInv, AccountTables, Rows
        <2>5. AccountTables'
            BY <1>1, <2>1, <2>4 DEF AccountsInv, AccountTables
        <2>6. /\ served' \in [Worker -> Request \cup {Nobody}]
              /\ served'[w] = r /\ \A x \in Worker : x # w => served'[x] = Nobody
            BY <1>1, <1>3, <2>1, <2>2
        <2>7. <<"email", "flag", "wallet">> # <<"flag", "wallet">>
              /\ <<"email", "flag", "wallet">> \notin {<<"markEmail">>, <<"markPhone">>, <<"open">>}
            BY Commits
        <2>8. ServedInv'
            BY <1>1, <2>1, <2>2, <2>4, <2>6, <2>7 DEF ServedInv
        <2>9. ProvenInv'
            <3>1. Shown(account'[Admin], Admin, proven', swapped')
                BY <2>3, <2>4 DEF Shown
            <3>2. QED
                BY <1>1, <2>2, <2>4, <2>6, <2>7, <3>1, ProvenKept DEF AccountsInv
        <2>10. SessionsInv'
            <3> SUFFICES ASSUME NEW v \in User, v \notin loose' PROVE SessionOK(v)'
                BY DEF SessionsInv
            <3>1. SessionOK(v)
                BY <2>1 DEF AccountsInv, SessionsInv
            <3>2. \A x \in Worker : WorksOn(x, v)' => x = w /\ v = Admin
                BY <2>2, <2>6 DEF WorksOn
            <3>3. Matches(sessions[v], account[v]) /\ (account[v] = Nobody => sessions[v] = <<>>)
                BY <1>2, <3>1 DEF SessionOK, AccountsInv, AccountTables
            <3>4. Matches(sessions'[v], account'[v])
                BY <1>1, <1>4, <2>4, <3>3 DEF Matches
            <3>5. Current(served'[w], account'[v], sessions'[v])
                BY <2>2, <2>6, <2>7 DEF Current
            <3>6. QED
                BY <3>2, <3>4, <3>5 DEF SessionOK
        <2>11. QED
            BY <2>5, <2>8, <2>9, <2>10 DEF AccountsInv
    <1>5. CASE account[Admin] # Nobody
        <2>1. /\ served' = served /\ up'
              /\ \/ account' = account /\ loose' = loose
                 \/ /\ account' = [account EXCEPT ![Admin].password = AdminPassword]
                    /\ loose' = loose \cup {Admin}
            BY <1>5, Words DEF Auth!Bootstrap
        <2>2. account[Admin] \in Rows
            BY <1>3, <1>5 DEF AccountsInv, AccountTables
        <2>3. /\ account' \in [User -> Rows \cup {Nobody}]
              /\ \A v \in User : /\ v \notin loose' => v \notin loose /\ account'[v] = account[v]
                                 /\ account'[v] # Nobody =>
                                       /\ account[v] # Nobody
                                       /\ account'[v].email = account[v].email
                                       /\ account'[v].emailOk = account[v].emailOk
                                       /\ account'[v].phone = account[v].phone
                                       /\ account'[v].phoneOk = account[v].phoneOk
                                 /\ account'[v] = Nobody => account[v] = Nobody
              /\ loose' \subseteq User
            <3>1. CASE account' = account /\ loose' = loose
                BY <3>1 DEF AccountsInv, AccountTables
            <3>2. CASE /\ account' = [account EXCEPT ![Admin].password = AdminPassword]
                       /\ loose' = loose \cup {Admin}
                <4>1. account' = [account EXCEPT ![Admin] = [account[Admin] EXCEPT !.password = AdminPassword]]
                    BY <3>2
                <4>2. [account[Admin] EXCEPT !.password = AdminPassword] \in Rows
                    BY <1>3, <2>2 DEF Rows, Auth!AccountRow
                <4>3. /\ account' \in [User -> Rows \cup {Nobody}]
                      /\ account'[Admin] = [account[Admin] EXCEPT !.password = AdminPassword]
                      /\ \A v \in User : v # Admin => account'[v] = account[v]
                    BY <1>3, <4>1, <4>2 DEF AccountsInv, AccountTables
                <4>4. /\ account'[Admin].email = account[Admin].email
                      /\ account'[Admin].emailOk = account[Admin].emailOk
                      /\ account'[Admin].phone = account[Admin].phone
                      /\ account'[Admin].phoneOk = account[Admin].phoneOk
                    BY <2>2, <4>3 DEF Rows, Auth!AccountRow
                <4>5. account'[Admin] # Nobody
                    BY <4>2, <4>3, AccountsAssumption DEF Rows
                <4>6. loose' \subseteq User
                    BY <1>3, <3>2 DEF AccountsInv, AccountTables
                <4>7. QED
                    BY <1>5, <3>2, <4>3, <4>4, <4>5, <4>6
            <3>3. QED
                BY <2>1, <3>1, <3>2
        <2>4. AccountTables'
            BY <1>1, <2>1, <2>3 DEF AccountsInv, AccountTables
        <2>5. ServedInv'
            BY <1>1, <1>3, <2>1 DEF ServedInv
        <2>6. ProvenInv'
            BY <1>1, <2>1, <2>3 DEF AccountsInv, ProvenInv, Shown
        <2>7. SessionsInv'
            <3> SUFFICES ASSUME NEW v \in User, v \notin loose' PROVE SessionOK(v)'
                BY DEF SessionsInv
            <3>1. SessionOK(v) /\ account'[v] = account[v]
                BY <2>3 DEF AccountsInv, SessionsInv
            <3>2. QED
                BY <1>1, <2>1, <3>1 DEF SessionOK, WorksOn, Matches, Current
        <2>8. QED
            BY <2>4, <2>5, <2>6, <2>7 DEF AccountsInv
    <1>6. QED
        BY <1>4, <1>5

\* The administrator's address is written, then flagged without a code: it is
\* the configured one.
LEMMA AdminEmailStep ==
    ASSUME AccountsInv, NEW w \in Worker, Auth!AdminEmailSaved(w) \/ Auth!AdminEmailFlagged(w)
    PROVE  AccountsInv'
    <1>1. PICK x \in {"email", "flag"} : Auth!Runs(w, x)
        BY DEF Auth!AdminEmailSaved, Auth!AdminEmailFlagged
    <1>2. /\ Auth!Advance(w)
          /\ UNCHANGED <<wallet, sessions, mailed, otp, proven, loose, swapped>>
        BY DEF Auth!AdminEmailSaved, Auth!AdminEmailFlagged, Auth!codes, Auth!history
    <1>3. /\ served[w] # Nobody /\ Asks(served[w]) /\ Head(served[w].todo) = x
          /\ up' = up /\ accountCalls' = accountCalls
          /\ \A y \in Worker : y # w => served'[y] = served[y]
          /\ served' \in [Worker -> Request \cup {Nobody}]
        BY <1>1, <1>2, Stepped DEF AccountsInv
    <1>4. /\ Boots(served[w])
          /\ x = "email" => served[w].todo = <<"email", "flag", "wallet">>
          /\ x = "flag" => served[w].todo = <<"flag", "wallet">>
        BY <1>1, <1>3, NextCommit
    <1>5. /\ Boots(served'[w]) /\ served'[w] # Nobody /\ Asks(served'[w])
          /\ x = "email" => served'[w].todo = <<"flag", "wallet">>
          /\ x = "flag" => served'[w].todo = <<"wallet">>
        BY <1>1, <1>2, SteppedWhere DEF AccountsInv
    <1>6. /\ served[w].op = "bootstrap" /\ served[w].user = Admin
          /\ served'[w].op = "bootstrap" /\ served'[w].user = Admin
          /\ served'[w].todo \notin {<<"markEmail">>, <<"markPhone">>, <<"open">>}
          /\ served[w].todo \notin {<<"markPhone">>, <<"clear">>}
        <2>1. /\ <<"wallet">> \notin {<<"markEmail">>, <<"markPhone">>, <<"open">>, <<"clear">>}
              /\ <<"flag", "wallet">> \notin {<<"markEmail">>, <<"markPhone">>, <<"open">>, <<"clear">>}
              /\ <<"email", "flag", "wallet">> \notin {<<"markPhone">>, <<"clear">>}
            BY Commits
        <2>2. QED
            BY <1>1, <1>4, <1>5, <2>1 DEF Boots
    <1>7. /\ ~up /\ account[Admin] # Nobody /\ account[Admin] \in Rows /\ Admin \in User
          /\ \A y \in Worker : served[y] # Nobody => y = w
          /\ x = "flag" => account[Admin].email = AdminEmail
        BY <1>1, <1>3, <1>4, <1>6, AccountsAssumption DEF AccountsInv, ServedInv, AccountTables
    <1>8. /\ x = "email" => account' = [account EXCEPT ![Admin].email = AdminEmail, ![Admin].emailOk = FALSE]
          /\ x = "flag" => account' = [account EXCEPT ![Admin].emailOk = TRUE]
        <2>1. "email" # "flag"
            OBVIOUS
        <2>2. QED
            BY <1>1, <1>3, <2>1 DEF Auth!AdminEmailSaved, Auth!AdminEmailFlagged, Auth!Runs
    <1>9. account \in [User -> Rows \cup {Nobody}] /\ AdminEmail \in proven /\ AdminEmail \in Email
        BY AccountsAssumption DEF AccountsInv, AccountTables
    <1>10. /\ account' \in [User -> Rows \cup {Nobody}] /\ account'[Admin] # Nobody
           /\ account'[Admin].password = account[Admin].password
           /\ account'[Admin].email = AdminEmail
           /\ account'[Admin].phone = account[Admin].phone /\ account'[Admin].phoneOk = account[Admin].phoneOk
           /\ \A v \in User : v # Admin => account'[v] = account[v]
        <2>1. CASE x = "email"
            <3>1. account' = [account EXCEPT ![Admin] = [account[Admin] EXCEPT !.email = AdminEmail, !.emailOk = FALSE]]
                BY <1>7, <1>8, <1>9, <2>1
            <3>2. [account[Admin] EXCEPT !.email = AdminEmail, !.emailOk = FALSE] \in Rows
                BY <1>7, <1>9 DEF Rows, Auth!AccountRow
            <3>3. QED
                BY <1>7, <1>9, <3>1, <3>2, AccountsAssumption DEF Rows, Auth!AccountRow
        <2>2. CASE x = "flag"
            <3>1. account' = [account EXCEPT ![Admin] = [account[Admin] EXCEPT !.emailOk = TRUE]]
                BY <1>7, <1>8, <1>9, <2>2
            <3>2. [account[Admin] EXCEPT !.emailOk = TRUE] \in Rows
                BY <1>7, <1>9 DEF Rows, Auth!AccountRow
            <3>3. QED
                BY <1>7, <1>9, <2>2, <3>1, <3>2, AccountsAssumption DEF Rows, Auth!AccountRow
        <2>3. QED
            BY <1>1, <2>1, <2>2
    <1>11. AccountTables'
        BY <1>2, <1>3, <1>7, <1>10 DEF AccountsInv, AccountTables
    <1>12. ServedInv'
        BY <1>3, <1>5, <1>6, <1>7, <1>10 DEF ServedInv
    <1>13. ProvenInv'
        <2>1. Shown(account'[Admin], Admin, proven', swapped')
            BY <1>2, <1>7, <1>9, <1>10 DEF Shown, AccountsInv, ProvenInv
        <2>2. QED
            BY <1>2, <1>3, <1>6, <1>7, <1>10, <2>1, ProvenKept DEF AccountsInv
    <1>14. ASSUME Admin \notin loose' PROVE SessionOK(Admin)'
        <2>1. SessionOK(Admin)
            BY <1>2, <1>7, <1>14 DEF AccountsInv, SessionsInv
        <2>2. \A y \in Worker : WorksOn(y, Admin)' => y = w
            BY <1>3, <1>7 DEF WorksOn
        <2>3. Current(served'[w], account'[Admin], sessions'[Admin])
            BY <1>6 DEF Current
        <2>4. \A y \in Worker : WorksOn(y, Admin) => ~AtClear(served[y])
            BY <1>6, <1>7 DEF AtClear, WorksOn
        <2>5. Matches(sessions'[Admin], account'[Admin])
            BY <1>2, <1>10, <2>1, <2>4 DEF Matches, SessionOK
        <2>6. QED
            BY <2>2, <2>3, <2>5 DEF SessionOK
    <1>15. SessionsInv'
        BY <1>2, <1>3, <1>6, <1>10, <1>14, StepSessions DEF AccountsInv
    <1>16. QED
        BY <1>11, <1>12, <1>13, <1>15 DEF AccountsInv

-----------------------------------------------------------------------------
LEMMA AccountsStart ==
    ASSUME Auth!Init
    PROVE  AccountsInv
    <1>1. AccountTables
        BY AccountsAssumption DEF Auth!Init, AccountTables
    <1>2. ServedInv /\ ProvenInv
        BY DEF Auth!Init, ServedInv, ProvenInv
    <1>3. SessionsInv
        BY DEF Auth!Init, SessionsInv, SessionOK, WorksOn, Matches
    <1>4. QED
        BY <1>1, <1>2, <1>3 DEF AccountsInv

LEMMA AccountsStep ==
    ASSUME AccountsInv, Auth!Next
    PROVE  AccountsInv'
    <1>1. ASSUME NEW w \in Worker, Auth!AuthRequest(w)
          PROVE  AccountsInv'
        <2>1. ASSUME NEW u \in User,
                     \/ Auth!Login(w, u) \/ Auth!VerifyEmailCode(w, u) \/ Auth!Logout(u)
                     \/ Auth!StartEmailVerification(u) \/ Auth!RequestPasswordReset(u)
                     \/ Auth!StartPhoneVerification(u)
                     \/ \E p \in Password : \/ Auth!Signup(w, u, p) \/ Auth!ChangePassword(w, u, p)
                                            \/ Auth!ResetPassword(w, u, p)
              PROVE  AccountsInv'
            BY <2>1, LoginStep, VerifyEmailStep, LogoutStep, CodesStep, SignupStep, ChangeStep
        <2>2. QED
            BY <1>1, <2>1, VerifyPhoneStep DEF Auth!AuthRequest
    <1>2. ASSUME NEW w \in Worker, Auth!UserRequest(w)
          PROVE  AccountsInv'
        BY <1>2, EditStep, RemoveUserStep DEF Auth!UserRequest
    <1>3. ASSUME NEW w \in Worker,
                 \/ Auth!Bootstrap(w) \/ Auth!AdminEmailSaved(w) \/ Auth!AdminEmailFlagged(w)
                 \/ Auth!CreateWallet(w) \/ Auth!Clear(w) \/ Auth!Open(w) \/ Auth!UpdatePassword(w)
          PROVE  AccountsInv'
        BY <1>3, BootstrapStep, AdminEmailStep, CreateWalletStep, ClearStep, OpenStep, UpdatePasswordStep
    <1>4. ASSUME NEW w \in Worker,
                 \/ Auth!Save(w) \/ Auth!MarkEmailVerified(w) \/ Auth!UseOtp(w)
                 \/ Auth!MarkPhoneVerified(w) \/ Auth!BreaksOff(w)
          PROVE  AccountsInv'
        BY <1>4, SaveStep, MarkEmailStep, UseOtpStep, MarkPhoneStep, BreaksOffStep
    <1>5. QED
        BY <1>1, <1>2, <1>3, <1>4, CodesStep, CrashStep DEF Auth!Next

LEMMA AccountsUnchanged ==
    ASSUME AccountsInv, UNCHANGED accounts
    PROVE  AccountsInv'
    <1>1. AccountTables' /\ ServedInv' /\ ProvenInv'
        BY DEF AccountsInv, accounts, AccountTables, ServedInv, ProvenInv, Shown
    <1>2. SessionsInv'
        BY SessionsKept DEF AccountsInv, accounts
    <1>3. QED
        BY <1>1, <1>2 DEF AccountsInv

\* The inductive invariant of the accounts: tables, requests under way, codes
\* that came back, and the accounts whose requests did not overlap.
THEOREM AccountsInvariant == PlatformSpec => []AccountsInv
    <1>1. PlatformInit => AccountsInv
        BY AccountsStart DEF PlatformInit
    <1>2. AccountsInv /\ [PlatformNext]_<<scope, fleetVars, accounts, reminders>> => AccountsInv'
        BY AccountsStep, AccountsUnchanged DEF PlatformNext
    <1>3. QED
        BY <1>1, <1>2, PTL DEF PlatformSpec

\* An account that no request is at work on has at most one refresh token,
\* opened under the password it has now.
THEOREM SessionsAlwaysMatch == PlatformSpec => []SessionsMatch
    <1>1. ASSUME AccountsInv PROVE SessionsMatch
        <2> SUFFICES ASSUME NEW u \in User \ loose, Auth!On(u) = {}
                     PROVE  sessions[u] = <<>> \/ sessions[u] = <<account[u].password>>
            BY DEF SessionsMatch, Auth!SessionsMatch
        <2>1. SessionOK(u)
            BY <1>1 DEF AccountsInv, SessionsInv
        <2>2. \A w \in Worker : ~WorksOn(w, u)
            BY Words
        <2>3. Matches(sessions[u], account[u])
            BY <2>1, <2>2 DEF SessionOK
        <2>4. QED
            BY <2>3 DEF Matches
    <1>2. QED
        BY <1>1, AccountsInvariant, PTL

\* An address or a number that is marked verified is one whose code came back.
THEOREM VerifiedIsProven == PlatformSpec => []VerifiedWasProven
    <1>1. ASSUME AccountsInv PROVE VerifiedWasProven
        BY <1>1, Words DEF AccountsInv, ProvenInv, Shown, VerifiedWasProven, Auth!VerifiedWasProven
    <1>2. QED
        BY <1>1, AccountsInvariant, PTL

-----------------------------------------------------------------------------
\* Reminders.

Months == 1 .. Len(MonthLength)

LEMMA MonthLengths ==
    /\ Len(MonthLength) \in Nat /\ Len(MonthLength) >= 1 /\ Week \in Nat
    /\ \A m \in Months : MonthLength[m] \in Nat /\ MonthLength[m] > Week
    BY RemindersAssumption, EmptySeq, LenProperties DEF Months

\* A month begins when the ones before are over.
LEMMA MonthStarts ==
    /\ Daily!MonthStart(1) = 0
    /\ \A m \in Months : /\ Daily!MonthStart(m) \in Nat
                         /\ Daily!MonthStart(m + 1) = Daily!MonthStart(m) + MonthLength[m]
    <1> DEFINE L == Len(MonthLength)
    <1>1. ASSUME NEW m PROVE Daily!MonthStart(m) = SumOver(MonthLength, 1 .. m - 1)
        BY DEF Daily!MonthStart, SumOver, MapThenSumSet, MapThenFoldSet,
               Daily!MapThenSumSet, Daily!MapThenFoldSet
    <1>2. IsFiniteSet(1 .. L) /\ \A k \in 1 .. L : MonthLength[k] \in Nat
        <2>1. IsFiniteSet(Months)
            BY MonthLengths, FS_Interval DEF Months
        <2>2. QED
            BY <2>1, MonthLengths DEF Months
    <1>3. SumOver(MonthLength, {}) = 0
        BY SumEmpty
    <1>4. Daily!MonthStart(1) = 0
        <2>1. 1 .. 1 - 1 = {}
            OBVIOUS
        <2>2. QED
            BY <1>1, <1>3, <2>1
    <1>5. ASSUME NEW m \in Months
          PROVE  /\ Daily!MonthStart(m) \in Nat
                 /\ Daily!MonthStart(m + 1) = Daily!MonthStart(m) + MonthLength[m]
        <2>1. /\ 1 .. m - 1 \in SUBSET (1 .. L) /\ 1 .. m + 1 - 1 \in SUBSET (1 .. L)
              /\ m \in 1 .. m + 1 - 1 /\ (1 .. m + 1 - 1) \ {m} = 1 .. m - 1
            BY <1>5, MonthLengths DEF Months
        <2>2. SumOver(MonthLength, 1 .. m - 1) \in Nat
            BY <1>2, <2>1, SumNat
        <2>3. SumOver(MonthLength, 1 .. m + 1 - 1) = MonthLength[m] + SumOver(MonthLength, 1 .. m - 1)
            BY <1>2, <2>1, SumTakeOut
        <2>4. QED
            BY <1>1, <1>2, <1>5, <2>2, <2>3 DEF Months
    <1>6. QED
        BY <1>4, <1>5

\* Every day of the calendar is in a month.
LEMMA DayInMonth ==
    ASSUME NEW d \in 0 .. Daily!LastDay
    PROVE  \E m \in Months : /\ Daily!MonthStart(m) <= d
                             /\ d < Daily!MonthStart(m) + MonthLength[m]
    <1> DEFINE F == {m \in Months : Daily!MonthStart(m) <= d}
    <1>1. IsFiniteSet(F) /\ F \subseteq Int
        <2>1. IsFiniteSet(Months) /\ Months \subseteq Int
            BY MonthLengths, FS_Interval DEF Months
        <2>2. QED
            BY <2>1, FS_Subset
    <1>2. 1 \in F
        BY MonthLengths, MonthStarts DEF Months
    <1>3. PICK m \in F : \A k \in F : m >= k
        <2>1. \E m \in F : \A k \in F : m >= k
            <3> HIDE DEF F
            <3>1. F # {}
                BY <1>2
            <3>2. QED
                BY <1>1, <3>1, MaxInSet
        <2>2. QED
            BY <2>1
    <1>4. m \in Months /\ Daily!MonthStart(m) <= d /\ Daily!MonthStart(m) \in Nat
        BY MonthStarts
    <1>5. d < Daily!MonthStart(m) + MonthLength[m]
        <2>1. CASE m = Len(MonthLength)
            BY <1>4, <2>1, MonthLengths DEF Daily!LastDay
        <2>2. CASE m # Len(MonthLength)
            <3>1. m + 1 \in Months /\ m + 1 > m
                BY <1>4, <2>2, MonthLengths DEF Months
            <3>2. ~(Daily!MonthStart(m + 1) <= d)
                BY <1>3, <3>1 DEF Months
            <3>3. Daily!MonthStart(m + 1) \in Nat
                BY <3>1, MonthStarts
            <3>4. QED
                BY <1>4, <3>2, <3>3, MonthStarts
        <2>3. QED
            BY <2>1, <2>2
    <1>6. QED
        BY <1>4, <1>5

LEMMA MonthOfDay ==
    ASSUME NEW d \in 0 .. Daily!LastDay
    PROVE  /\ Daily!MonthOf(d) \in Months
           /\ Daily!MonthStart(Daily!MonthOf(d)) <= d
           /\ d < Daily!MonthStart(Daily!MonthOf(d)) + MonthLength[Daily!MonthOf(d)]
    BY DayInMonth DEF Daily!MonthOf, Months

\* What is due a week or a month after a completed day is what the check
\* looks for that day: the two anniversaries do not fall together, since
\* months are longer than a week, and MonthAgo leads back to the day.
LEMMA AnniversaryFound ==
    ASSUME NEW e, NEW end \in 0 .. Daily!LastDay, start[e] \div 2 = end, day \in 0 .. Daily!LastDay
    PROVE  /\ end = day - Week => Daily!Anniversary(e) = "week"
           /\ day \in Daily!AMonthAfter(end) => Daily!Anniversary(e) = "month"
    <1>1. end = day - Week => Daily!Anniversary(e) = "week"
        BY MonthLengths DEF Daily!Anniversary
    <1>2. ASSUME day \in Daily!AMonthAfter(end)
          PROVE  Daily!Anniversary(e) = "month"
        <2>1. PICK m : m = Daily!MonthOf(end)
            OBVIOUS
        <2>2. /\ m \in Months /\ Daily!MonthStart(m) <= end
              /\ end < Daily!MonthStart(m) + MonthLength[m]
            BY <2>1, MonthOfDay
        <2>3. Daily!MonthOf(day) = m + 1 /\ Daily!DayOfMonth(day) = Daily!DayOfMonth(end)
            BY <1>2, <2>1 DEF Daily!AMonthAfter
        <2>4. /\ Daily!MonthStart(m) \in Nat
              /\ Daily!MonthStart(m + 1) = Daily!MonthStart(m) + MonthLength[m]
              /\ MonthLength[m] \in Nat /\ MonthLength[m] > Week /\ m \in Nat /\ m >= 1
            BY <2>2, MonthStarts, MonthLengths DEF Months
        <2>5. /\ Daily!DayOfMonth(end) = end - Daily!MonthStart(m)
              /\ Daily!DayOfMonth(day) = day - Daily!MonthStart(m + 1)
            BY <2>1, <2>3 DEF Daily!DayOfMonth
        <2>6. day = end + MonthLength[m]
            BY <2>3, <2>4, <2>5
        <2>7. Daily!MonthAgo(day) = end
            <3>1. Daily!MonthOf(day) - 1 = m
                BY <2>3, <2>4
            <3>2. Daily!Lesser(Daily!DayOfMonth(day), MonthLength[m] - 1) = end - Daily!MonthStart(m)
                BY <2>2, <2>3, <2>4, <2>5 DEF Daily!Lesser
            <3>3. QED
                BY <2>4, <3>1, <3>2 DEF Daily!MonthAgo
        <2>8. end + Week # day /\ Daily!MonthOf(day) > 1
            BY <2>3, <2>4, <2>6, MonthLengths
        <2>9. QED
            BY <2>7, <2>8 DEF Daily!Anniversary
    <1>3. QED
        BY <1>1, <1>2

\* The kinds an upcoming check has still to query, in their order.
Left == {Daily!Kinds, <<"rental", "hotel", "restaurant">>, <<"hotel", "restaurant">>,
         <<"restaurant">>, <<>>}
Looks(j) ==
    \/ j.name = "upcoming" /\ j.kinds \in Left /\ day < Daily!LastDay
    \/ j.name = "anniversary" /\ j.kinds \in {<<"completed">>, <<>>}

\* The rows: what starts has an owner, and what is completed has started.
PlansInv ==
    /\ start \in [Event -> Daily!Moment \cup {Daily!Never}]
    /\ planners \subseteq Planner /\ completed \subseteq Event
    /\ \A e \in Event : start[e] # Daily!Never => OwnerOf[e] \in planners
    /\ \A e \in completed : start[e] # Daily!Never
    /\ day \in 0 .. Daily!LastDay /\ broke \in BOOLEAN
    /\ sent \subseteq Event \X {"tomorrow", "week", "month"} \X (0 .. Daily!LastDay)

\* The check that runs has read rows of owners who are gone or that it is to
\* remind of.
JobInv ==
    /\ job \in [name : {Daily!None, "upcoming", "anniversary"}, kinds : Left \cup {<<"completed">>},
                rows : SUBSET Event]
    /\ job # Daily!NoJob => Looks(job)
    /\ job.name = "anniversary" =>
          \A e \in job.rows : OwnerOf[e] \in planners =>
              e \in completed /\ Daily!Anniversary(e) # Daily!None

\* What is due stays due while nobody changes it.
Stays(n) ==
    /\ n[1] \in Event /\ n[2] \in {"tomorrow", "week", "month"} /\ n = <<n[1], n[2]>>
    /\ start[n[1]] # Daily!Never
    /\ n[2] = "tomorrow" => start[n[1]] \div 2 = day + 1
    /\ n[2] # "tomorrow" => n[1] \in completed /\ Daily!Anniversary(n[1]) = n[2]

\* The check has reminded of it, or has the row, or will query its kind.
Comes(n) ==
    \/ <<n[1], n[2], day>> \in sent
    \/ /\ job # Daily!NoJob
       /\ n[2] = "tomorrow" <=> job.name = "upcoming"
       /\ \/ n[1] \in job.rows
          \/ job.name = "anniversary" /\ job.kinds = <<"completed">>
          \/ \E i \in 1 .. Len(job.kinds) : job.kinds[i] = KindOf[n[1]]

DueInv == \A n \in due : Stays(n) /\ (~broke => Comes(n))

RemindersInv == PlansInv /\ JobInv /\ DueInv

LEMMA AnniversarySame ==
    ASSUME NEW e, start'[e] = start[e], day' = day
    PROVE  Daily!Anniversary(e)' = Daily!Anniversary(e)
    BY DEF Daily!Anniversary, Daily!MonthAgo, Daily!MonthOf, Daily!DayOfMonth, Daily!Lesser

\* Moments and days.
LEMMA DayOfMoment ==
    /\ Daily!LastDay \in Nat
    /\ \A m \in Daily!Moment : m \div 2 \in 0 .. Daily!LastDay /\ m # Daily!Never
    <1>1. Len(MonthLength) \in Months
        BY MonthLengths DEF Months
    <1>2. Daily!LastDay \in Nat
        BY <1>1, MonthStarts, MonthLengths DEF Daily!LastDay
    <1>3. QED
        BY <1>2 DEF Daily!Moment, Daily!Never

\* Steps that change neither what is sent nor the check, and no row that
\* something is due for.
LEMMA RowsStep ==
    ASSUME RemindersInv, PlansInv', UNCHANGED <<job, sent, day, broke>>, due' \subseteq due,
           planners' \subseteq planners,
           \A e \in completed : OwnerOf[e] \in planners' =>
               e \in completed' /\ start'[e] = start[e],
           \A n \in due' : n[1] \in completed => OwnerOf[n[1]] \in planners',
           \A n \in due' : start'[n[1]] = start[n[1]]
    PROVE  RemindersInv'
    <1>1. JobInv'
        <2>1. ASSUME job.name = "anniversary", NEW e \in job.rows, OwnerOf[e] \in planners'
              PROVE  e \in completed' /\ Daily!Anniversary(e)' # Daily!None
            <3>1. e \in completed /\ Daily!Anniversary(e) # Daily!None
                BY <2>1 DEF RemindersInv, JobInv
            <3>2. QED
                BY <2>1, <3>1, AnniversarySame
        <2>2. QED
            BY <2>1 DEF RemindersInv, JobInv, Looks
    <1>2. ASSUME NEW n \in due'
          PROVE  Stays(n)' /\ (~broke' => Comes(n)')
        <2>1. n \in due /\ Stays(n) /\ start'[n[1]] = start[n[1]]
            BY DEF RemindersInv, DueInv
        <2>2. Daily!Anniversary(n[1])' = Daily!Anniversary(n[1])
            BY <2>1, AnniversarySame
        <2>3. Stays(n)'
            BY <2>1, <2>2 DEF Stays
        <2>4. ~broke' => Comes(n)'
            BY <2>1 DEF RemindersInv, DueInv, Comes
        <2>5. QED
            BY <2>3, <2>4
    <1>3. QED
        BY <1>1, <1>2 DEF RemindersInv, DueInv

LEMMA PlanStep ==
    ASSUME RemindersInv, NEW e \in Event, Daily!Plan(e)
    PROVE  RemindersInv'
    <1>1. /\ start[e] = Daily!Never /\ OwnerOf[e] \in planners
          /\ UNCHANGED <<completed, planners, job, sent, day, due, broke>>
        BY DEF Daily!Plan
    <1>2. PICK m \in Daily!Moment : start' = [start EXCEPT ![e] = m]
        BY DEF Daily!Plan
    <1>3. /\ start' \in [Event -> Daily!Moment \cup {Daily!Never}]
          /\ \A x \in Event : x # e => start'[x] = start[x]
        BY <1>2 DEF RemindersInv, PlansInv
    <1>4. PlansInv'
        BY <1>1, <1>2, <1>3, DayOfMoment DEF RemindersInv, PlansInv
    <1>5. \A n \in due : n[1] \in Event /\ n[1] # e /\ (n[1] \in completed => OwnerOf[n[1]] \in planners)
        BY <1>1 DEF RemindersInv, PlansInv, DueInv, Stays
    <1>6. \A x \in completed : x \in Event /\ x # e
        BY <1>1 DEF RemindersInv, PlansInv
    <1>7. QED
        BY <1>1, <1>3, <1>4, <1>5, <1>6, RowsStep

LEMMA RescheduleStep ==
    ASSUME RemindersInv, NEW e \in Event, Daily!Reschedule(e)
    PROVE  RemindersInv'
    <1>1. /\ start[e] # Daily!Never /\ e \notin completed /\ due' = {n \in due : n[1] # e}
          /\ UNCHANGED <<completed, planners, job, sent, day, broke>>
        BY DEF Daily!Reschedule
    <1>2. PICK m \in Daily!Moment : start' = [start EXCEPT ![e] = m]
        BY DEF Daily!Reschedule
    <1>3. /\ start' \in [Event -> Daily!Moment \cup {Daily!Never}]
          /\ \A x \in Event : x # e => start'[x] = start[x]
        BY <1>2 DEF RemindersInv, PlansInv
    <1>4. PlansInv'
        BY <1>1, <1>2, <1>3, DayOfMoment DEF RemindersInv, PlansInv
    <1>5. \A n \in due' : n \in due /\ n[1] \in Event /\ n[1] # e
                          /\ (n[1] \in completed => OwnerOf[n[1]] \in planners)
        BY <1>1 DEF RemindersInv, PlansInv, DueInv, Stays
    <1>6. \A x \in completed : x \in Event /\ x # e
        BY <1>1 DEF RemindersInv, PlansInv
    <1>7. QED
        BY <1>1, <1>3, <1>4, <1>5, <1>6, RowsStep

LEMMA CompleteStep ==
    ASSUME RemindersInv, NEW e \in Event, Daily!Complete(e)
    PROVE  RemindersInv'
    <1>1. /\ start[e] # Daily!Never /\ completed' = completed \cup {e}
          /\ UNCHANGED <<start, planners, job, sent, day, due, broke>>
        BY DEF Daily!Complete
    <1>2. PlansInv'
        BY <1>1 DEF RemindersInv, PlansInv
    <1>3. \A n \in due : n[1] \in completed => OwnerOf[n[1]] \in planners
        BY DEF RemindersInv, PlansInv
    <1>4. QED
        BY <1>1, <1>2, <1>3, RowsStep

LEMMA RemoveOwnerStep ==
    ASSUME RemindersInv, NEW u \in Planner, Daily!RemoveUser(u)
    PROVE  RemindersInv'
    <1>1. /\ planners' = planners \ {u}
          /\ start' = [e \in Event |-> IF OwnerOf[e] = u THEN Daily!Never ELSE start[e]]
          /\ completed' = {e \in completed : OwnerOf[e] # u}
          /\ sent' = {n \in sent : OwnerOf[n[1]] # u}
          /\ due' = {n \in due : OwnerOf[n[1]] # u}
          /\ UNCHANGED <<job, day, broke>>
        BY DEF Daily!RemoveUser
    <1>2. PlansInv'
        BY <1>1 DEF RemindersInv, PlansInv
    <1>3. JobInv'
        <2>1. ASSUME job.name = "anniversary", NEW e \in job.rows, OwnerOf[e] \in planners'
              PROVE  e \in completed' /\ Daily!Anniversary(e)' # Daily!None
            <3>1. e \in completed /\ Daily!Anniversary(e) # Daily!None /\ OwnerOf[e] # u
                BY <1>1, <2>1 DEF RemindersInv, JobInv
            <3>2. start'[e] = start[e] /\ e \in completed'
                BY <1>1, <3>1 DEF RemindersInv, PlansInv
            <3>3. QED
                BY <1>1, <3>1, <3>2, AnniversarySame
        <2>2. QED
            BY <1>1, <2>1 DEF RemindersInv, JobInv, Looks
    <1>4. ASSUME NEW n \in due'
          PROVE  Stays(n)' /\ (~broke' => Comes(n)')
        <2>1. n \in due /\ Stays(n) /\ OwnerOf[n[1]] # u /\ n[1] \in Event
            BY <1>1 DEF RemindersInv, DueInv, Stays
        <2>2. start'[n[1]] = start[n[1]] /\ (n[1] \in completed => n[1] \in completed')
            BY <1>1, <2>1
        <2>3. Daily!Anniversary(n[1])' = Daily!Anniversary(n[1])
            BY <1>1, <2>2, AnniversarySame
        <2>4. Stays(n)'
            BY <1>1, <2>1, <2>2, <2>3 DEF Stays
        <2>5. <<n[1], n[2], day>>[1] = n[1]
            OBVIOUS
        <2>6. ~broke' => Comes(n)'
            BY <1>1, <2>1, <2>5 DEF RemindersInv, DueInv, Comes
        <2>7. QED
            BY <2>4, <2>6
    <1>5. QED
        BY <1>2, <1>3, <1>4 DEF RemindersInv, DueInv

\* A check begins: everything that is due is still to come.
LEMMA BeginStep ==
    ASSUME RemindersInv, Daily!TriggerReminderCheck \/ Daily!TriggerAnniversaryCheck
    PROVE  RemindersInv'
    <1>1. /\ UNCHANGED <<start, completed, planners, sent, day>> /\ broke' = FALSE
        BY DEF Daily!TriggerReminderCheck, Daily!TriggerAnniversaryCheck, Daily!Begin
    <1>2. PlansInv'
        BY <1>1 DEF RemindersInv, PlansInv
    <1>3. /\ start \in [Event -> Daily!Moment \cup {Daily!Never}] /\ day \in 0 .. Daily!LastDay
          /\ completed \subseteq Event /\ \A e \in completed : start[e] # Daily!Never
        BY DEF RemindersInv, PlansInv
    <1>4. CASE Daily!TriggerReminderCheck
        <2>1. /\ job' = [name |-> "upcoming", kinds |-> Daily!Kinds, rows |-> {}]
              /\ due' = {<<e, "tomorrow">> : e \in {x \in Event : start[x] # Daily!Never /\ start[x] \div 2 = day + 1}}
              /\ day < Daily!LastDay
            BY <1>4 DEF Daily!TriggerReminderCheck, Daily!Begin, Daily!DueNow
        <2>2. JobInv'
            BY <1>1, <2>1 DEF JobInv, Looks, Left, Daily!NoJob, Daily!None
        <2>3. ASSUME NEW n \in due'
              PROVE  Stays(n)' /\ Comes(n)'
            <3>1. PICK e \in Event : n = <<e, "tomorrow">> /\ start[e] # Daily!Never /\ start[e] \div 2 = day + 1
                BY <2>1
            <3>2. n[1] = e /\ n[2] = "tomorrow"
                BY <3>1
            <3>3. Stays(n)'
                BY <1>1, <3>1, <3>2 DEF Stays
            <3>4. \E i \in 1 .. Len(job'.kinds) : job'.kinds[i] = KindOf[e]
                <4>1. KindOf[e] \in {"route", "rental", "hotel", "restaurant"}
                    BY RemindersAssumption
                <4>2. QED
                    BY <2>1, <4>1 DEF Daily!Kinds
            <3>5. Comes(n)'
                BY <2>1, <3>2, <3>4 DEF Comes, Daily!NoJob, Daily!None
            <3>6. QED
                BY <3>3, <3>5
        <2>4. QED
            BY <1>2, <2>2, <2>3 DEF RemindersInv, DueInv
    <1>5. CASE Daily!TriggerAnniversaryCheck
        <2>1. /\ job' = [name |-> "anniversary", kinds |-> <<"completed">>, rows |-> {}]
              /\ due' = {<<e, "week">> : e \in {x \in completed : start[x] \div 2 = day - Week}}
                     \cup {<<e, "month">> : e \in {x \in completed : day \in Daily!AMonthAfter(start[x] \div 2)}}
            <3>1. "anniversary" # "upcoming"
                OBVIOUS
            <3>2. QED
                BY <1>5, <3>1 DEF Daily!TriggerAnniversaryCheck, Daily!Begin, Daily!DueNow
        <2>2. JobInv'
            BY <1>1, <2>1 DEF JobInv, Looks, Left, Daily!NoJob, Daily!None
        <2>3. ASSUME NEW n \in due'
              PROVE  Stays(n)' /\ Comes(n)'
            <3>1. PICK e \in completed :
                      \/ n = <<e, "week">> /\ start[e] \div 2 = day - Week
                      \/ n = <<e, "month">> /\ day \in Daily!AMonthAfter(start[e] \div 2)
                BY <2>1
            <3>2. e \in Event /\ start[e] # Daily!Never /\ start[e] \div 2 \in 0 .. Daily!LastDay
                BY <1>3, DayOfMoment
            <3>3. n = <<n[1], n[2]>> /\ n[1] = e /\ n[2] = Daily!Anniversary(e) /\ n[2] \in {"week", "month"}
                <4>1. PICK end \in 0 .. Daily!LastDay : start[e] \div 2 = end
                    BY <3>2
                <4>2. CASE n = <<e, "week">> /\ start[e] \div 2 = day - Week
                    BY <1>3, <4>1, <4>2, AnniversaryFound
                <4>3. CASE n = <<e, "month">> /\ day \in Daily!AMonthAfter(start[e] \div 2)
                    BY <1>3, <4>1, <4>3, AnniversaryFound
                <4>4. QED
                    BY <3>1, <4>2, <4>3
            <3>4. Daily!Anniversary(e)' = Daily!Anniversary(e)
                BY <1>1, AnniversarySame
            <3>5. Stays(n)'
                BY <1>1, <3>1, <3>2, <3>3, <3>4 DEF Stays
            <3>6. Comes(n)'
                BY <2>1, <3>3 DEF Comes, Daily!NoJob, Daily!None
            <3>7. QED
                BY <3>5, <3>6
        <2>4. QED
            BY <1>2, <2>2, <2>3 DEF RemindersInv, DueInv
    <1>6. QED
        BY <1>4, <1>5

\* A check that ends, whether it was through or broke off.
LEMMA EndStep ==
    ASSUME RemindersInv, job' = Daily!NoJob, broke' \in BOOLEAN,
           UNCHANGED <<start, completed, planners, sent, day, due>>,
           ~broke' => ~broke /\ \A n \in due : Comes(n) => <<n[1], n[2], day>> \in sent
    PROVE  RemindersInv'
    <1>1. PlansInv'
        BY DEF RemindersInv, PlansInv
    <1>2. JobInv'
        BY DEF JobInv, Daily!NoJob, Daily!None, Left
    <1>3. ASSUME NEW n \in due'
          PROVE  Stays(n)' /\ (~broke' => Comes(n)')
        <2>1. n \in due /\ Stays(n) /\ (~broke => Comes(n))
            BY DEF RemindersInv, DueInv
        <2>2. Daily!Anniversary(n[1])' = Daily!Anniversary(n[1])
            BY AnniversarySame
        <2>3. Stays(n)'
            BY <2>1, <2>2 DEF Stays
        <2>4. ~broke' => Comes(n)'
            BY <2>1 DEF Comes
        <2>5. QED
            BY <2>3, <2>4
    <1>4. QED
        BY <1>1, <1>2, <1>3 DEF RemindersInv, DueInv

LEMMA DoneStep ==
    ASSUME RemindersInv, Daily!Done \/ Daily!BreaksOff
    PROVE  RemindersInv'
    <1>1. job' = Daily!NoJob /\ UNCHANGED <<start, completed, planners, sent, day, due>>
        BY DEF Daily!Done, Daily!BreaksOff
    <1>2. CASE Daily!BreaksOff
        <2>1. broke' = TRUE
            BY <1>2 DEF Daily!BreaksOff
        <2>2. QED
            BY <1>1, <2>1, EndStep
    <1>3. CASE Daily!Done
        <2>1. job.kinds = <<>> /\ job.rows = {} /\ broke' = broke
            BY <1>3 DEF Daily!Done
        <2>2. job.kinds # <<"completed">> /\ Len(job.kinds) = 0
            BY <2>1
        <2>3. \A n \in due : Comes(n) => <<n[1], n[2], day>> \in sent
            BY <2>1, <2>2 DEF Comes
        <2>4. broke \in BOOLEAN
            BY DEF RemindersInv, PlansInv
        <2>5. QED
            BY <1>1, <2>1, <2>3, <2>4, EndStep
    <1>4. QED
        BY <1>2, <1>3

\* The kinds left after the next one.
LEMMA KindsLeft ==
    /\ \A k \in Left : k # <<>> => /\ Head(k) = k[1] /\ Tail(k) \in Left
                                   /\ \A i \in 1 .. Len(k) : i = 1 \/ (i - 1 \in 1 .. Len(Tail(k)) /\ Tail(k)[i - 1] = k[i])
    /\ <<"completed">> # <<>> /\ Head(<<"completed">>) = "completed" /\ Tail(<<"completed">>) = <<>>
    /\ <<"completed">> \notin Left
    BY DEF Left, Daily!Kinds

\* The rows of the next kind are read: those that are due are among them.
LEMMA QueryStep ==
    ASSUME RemindersInv, Daily!Query
    PROVE  RemindersInv'
    <1>1. /\ job.kinds # <<>> /\ job.rows = {}
          /\ UNCHANGED <<start, completed, planners, sent, day, due, broke>>
        BY DEF Daily!Query
    <1> DEFINE found == IF job.name = "upcoming" THEN Daily!Upcoming(Head(job.kinds))
                        ELSE {e \in completed : Daily!Anniversary(e) # Daily!None}
    <1>2. job' = [job EXCEPT !.kinds = Tail(job.kinds), !.rows = found]
        BY DEF Daily!Query
    <1>3. job \in [name : {Daily!None, "upcoming", "anniversary"}, kinds : Left \cup {<<"completed">>},
                   rows : SUBSET Event] /\ job # Daily!NoJob /\ Looks(job)
        BY <1>1 DEF RemindersInv, JobInv, Daily!NoJob
    <1>4. completed \subseteq Event /\ start \in [Event -> Daily!Moment \cup {Daily!Never}]
          /\ day \in 0 .. Daily!LastDay
        BY DEF RemindersInv, PlansInv
    <1>5. found \subseteq Event
        BY <1>4 DEF Daily!Upcoming
    <1> HIDE DEF found
    <1>6. /\ job'.name = job.name /\ job'.kinds = Tail(job.kinds) /\ job'.rows = found
          /\ job' \in [name : {Daily!None, "upcoming", "anniversary"}, kinds : Left \cup {<<"completed">>},
                       rows : SUBSET Event]
        <2>1. Tail(job.kinds) \in Left
            BY <1>1, <1>3, KindsLeft DEF Left
        <2>2. QED
            BY <1>2, <1>3, <1>5, <2>1
    <1>7. job' # Daily!NoJob /\ Looks(job)'
        <2>1. "upcoming" # "none" /\ "anniversary" # "none"
            OBVIOUS
        <2>2. job'.name \in {"upcoming", "anniversary"} /\ job'.name # Daily!NoJob.name
            BY <1>3, <1>6, <2>1 DEF Looks, Daily!NoJob, Daily!None
        <2>3. CASE job.name = "upcoming" /\ job.kinds \in Left /\ day < Daily!LastDay
            <3>1. Tail(job.kinds) \in Left
                BY <1>1, <2>3, KindsLeft
            <3>2. QED
                BY <1>1, <1>6, <2>2, <2>3, <3>1 DEF Looks
        <2>4. CASE job.name = "anniversary" /\ job.kinds \in {<<"completed">>, <<>>}
            <3>1. Tail(job.kinds) = <<>>
                BY <1>1, <2>4, KindsLeft
            <3>2. QED
                BY <1>6, <2>2, <2>4, <3>1 DEF Looks
        <2>5. QED
            BY <1>3, <2>3, <2>4 DEF Looks
    <1>8. PlansInv'
        BY <1>1 DEF RemindersInv, PlansInv
    <1>9. JobInv'
        <2>1. ASSUME job.name = "anniversary", NEW e \in found
              PROVE  e \in completed /\ Daily!Anniversary(e) # Daily!None
            BY <2>1 DEF found
        <2>2. \A e : Daily!Anniversary(e)' = Daily!Anniversary(e)
            BY <1>1, AnniversarySame
        <2>3. QED
            BY <1>1, <1>6, <1>7, <2>1, <2>2 DEF JobInv
    <1>10. ASSUME NEW n \in due'
           PROVE  Stays(n)' /\ (~broke' => Comes(n)')
        <2>1. n \in due /\ Stays(n) /\ (~broke => Comes(n)) /\ n[1] \in Event
            BY <1>1 DEF RemindersInv, DueInv, Stays
        <2>2. Daily!Anniversary(n[1])' = Daily!Anniversary(n[1])
            BY <1>1, AnniversarySame
        <2>3. Stays(n)'
            BY <1>1, <2>1, <2>2 DEF Stays
        <2>4. ASSUME ~broke, <<n[1], n[2], day>> \notin sent
              PROVE  Comes(n)'
            <3>1. n[2] = "tomorrow" <=> job.name = "upcoming"
                BY <2>1, <2>4 DEF Comes
            <3>2. CASE job.name = "upcoming"
                <4>1. PICK i \in 1 .. Len(job.kinds) : job.kinds[i] = KindOf[n[1]]
                    <5>1. "upcoming" # "anniversary"
                        OBVIOUS
                    <5>2. QED
                        BY <1>1, <2>1, <2>4, <3>2, <5>1 DEF Comes
                <4>2. job.kinds \in Left
                    <5>1. "upcoming" # "anniversary"
                        OBVIOUS
                    <5>2. QED
                        BY <1>3, <3>2, <5>1 DEF Looks
                <4>3. CASE i = 1
                    <5>1. Head(job.kinds) = KindOf[n[1]]
                        BY <1>1, <4>1, <4>2, <4>3, KindsLeft
                    <5>2. start[n[1]] \div 2 = day + 1 /\ start[n[1]] # Daily!Never
                        BY <2>1, <3>1, <3>2 DEF Stays
                    <5>3. start[n[1]] \in Nat /\ day \in Nat
                        <6>1. start[n[1]] \in Daily!Moment
                            BY <1>4, <2>1, <5>2
                        <6>2. QED
                            BY <1>4, <6>1 DEF Daily!Moment
                    <5>4. Daily!WithinDay(start[n[1]], day + 1)
                        BY <5>2, <5>3 DEF Daily!WithinDay
                    <5>5. n[1] \in Daily!Upcoming(Head(job.kinds))
                        BY <2>1, <5>1, <5>2, <5>4 DEF Daily!Upcoming
                    <5>6. n[1] \in found
                        BY <3>2, <5>5 DEF found
                    <5>7. QED
                        BY <1>1, <1>6, <1>7, <3>1, <5>6 DEF Comes
                <4>4. CASE i # 1
                    <5>1. i - 1 \in 1 .. Len(Tail(job.kinds)) /\ Tail(job.kinds)[i - 1] = KindOf[n[1]]
                        BY <1>1, <4>1, <4>2, <4>4, KindsLeft
                    <5>2. QED
                        BY <1>1, <1>6, <1>7, <3>1, <5>1 DEF Comes
                <4>5. QED
                    BY <4>3, <4>4
            <3>3. CASE job.name # "upcoming"
                <4>1. n[1] \in completed /\ Daily!Anniversary(n[1]) = n[2] /\ n[2] \in {"week", "month"}
                    BY <2>1, <3>1, <3>3 DEF Stays
                <4>2. n[1] \in found
                    BY <3>3, <4>1 DEF found, Daily!None
                <4>3. QED
                    BY <1>1, <1>6, <1>7, <3>1, <4>2 DEF Comes
            <3>4. QED
                BY <3>2, <3>3
        <2>5. <<n[1], n[2], day>> \in sent => Comes(n)'
            BY <1>1 DEF Comes
        <2>6. QED
            BY <1>1, <2>3, <2>4, <2>5
    <1>11. QED
        BY <1>8, <1>9, <1>10 DEF RemindersInv, DueInv

\* One row is reminded of, or its owner is gone and the check with it.
LEMMA NotifyStep ==
    ASSUME RemindersInv, NEW e \in Event, Daily!Notify(e)
    PROVE  RemindersInv'
    <1>1. /\ e \in job.rows /\ UNCHANGED <<start, completed, planners, day, due>>
        BY DEF Daily!Notify
    <1>2. job \in [name : {Daily!None, "upcoming", "anniversary"}, kinds : Left \cup {<<"completed">>},
                   rows : SUBSET Event] /\ job # Daily!NoJob /\ Looks(job)
        BY <1>1 DEF RemindersInv, JobInv, Daily!NoJob
    <1>3. CASE OwnerOf[e] \notin planners
        <2>1. job' = Daily!NoJob /\ broke' = TRUE /\ sent' = sent
            BY <1>3 DEF Daily!Notify
        <2>2. QED
            BY <1>1, <2>1, EndStep
    <1>4. CASE OwnerOf[e] \in planners
        <2> DEFINE what == IF job.name = "upcoming" THEN "tomorrow" ELSE Daily!Anniversary(e)
        <2>1. /\ sent' = sent \cup {<<e, what, day>>}
              /\ job' = [job EXCEPT !.rows = job.rows \ {e}] /\ broke' = broke
            BY <1>4 DEF Daily!Notify
        <2>2. what \in {"tomorrow", "week", "month"}
            <3>1. CASE job.name = "upcoming"
                BY <3>1
            <3>2. CASE job.name = "anniversary"
                <4>1. Daily!Anniversary(e) # Daily!None
                    BY <1>1, <1>4, <3>2 DEF RemindersInv, JobInv
                <4>2. Daily!Anniversary(e) \in {"week", "month", Daily!None}
                    BY DEF Daily!Anniversary
                <4>3. QED
                    BY <3>2, <4>1, <4>2
            <3>3. QED
                BY <1>2, <3>1, <3>2 DEF Looks
        <2> HIDE DEF what
        <2>3. /\ job'.name = job.name /\ job'.kinds = job.kinds /\ job'.rows = job.rows \ {e}
              /\ job' \in [name : {Daily!None, "upcoming", "anniversary"},
                           kinds : Left \cup {<<"completed">>}, rows : SUBSET Event]
            BY <1>2, <2>1
        <2>4. PlansInv'
            BY <1>1, <2>1, <2>2 DEF RemindersInv, PlansInv
        <2>5. job' # Daily!NoJob /\ Looks(job)'
            BY <1>1, <1>2, <2>3 DEF Looks, Daily!NoJob, Daily!None
        <2>6. \A x : Daily!Anniversary(x)' = Daily!Anniversary(x)
            BY <1>1, AnniversarySame
        <2>7. JobInv'
            BY <1>1, <2>3, <2>5, <2>6 DEF RemindersInv, JobInv
        <2>8. ASSUME NEW n \in due'
              PROVE  Stays(n)' /\ (~broke' => Comes(n)')
            <3>1. n \in due /\ Stays(n) /\ (~broke => Comes(n))
                BY <1>1 DEF RemindersInv, DueInv
            <3>2. Stays(n)'
                BY <1>1, <2>6, <3>1 DEF Stays
            <3>3. ASSUME n[1] = e, n[2] = "tomorrow" <=> job.name = "upcoming"
                  PROVE  n[2] = what
                BY <3>1, <3>3 DEF what, Stays
            <3>4. ~broke => Comes(n)'
                BY <1>1, <2>1, <2>3, <2>5, <3>1, <3>3 DEF Comes
            <3>5. QED
                BY <2>1, <3>2, <3>4
        <2>9. QED
            BY <2>4, <2>7, <2>8 DEF RemindersInv, DueInv
    <1>5. QED
        BY <1>3, <1>4

LEMMA NextDayStep ==
    ASSUME RemindersInv, Daily!NextDay
    PROVE  RemindersInv'
    <1>1. /\ job = Daily!NoJob /\ day < Daily!LastDay /\ day' = day + 1
          /\ due' = {} /\ broke' = FALSE
          /\ UNCHANGED <<start, completed, planners, job, sent>>
        BY DEF Daily!NextDay
    <1>2. PlansInv'
        <2>1. PlansInv
            BY DEF RemindersInv
        <2>2. day' \in 0 .. Daily!LastDay
            BY <1>1, <2>1, DayOfMoment DEF PlansInv
        <2>3. start' = start /\ planners' = planners /\ completed' = completed /\ sent' = sent
            BY <1>1
        <2>4. broke' \in BOOLEAN
            BY <1>1
        <2>5. QED
            BY <2>1, <2>2, <2>3, <2>4 DEF PlansInv
    <1>3. JobInv'
        BY <1>1 DEF JobInv, Daily!NoJob, Daily!None, Left
    <1>4. QED
        BY <1>1, <1>2, <1>3 DEF RemindersInv, DueInv

-----------------------------------------------------------------------------
LEMMA RemindersStart ==
    ASSUME Daily!Init
    PROVE  RemindersInv
    <1>1. PlansInv
        <2>1. start \in [Event -> Daily!Moment \cup {Daily!Never}] /\ \A e \in Event : start[e] = Daily!Never
            BY DEF Daily!Init
        <2>2. planners \subseteq Planner /\ completed = {} /\ sent = {}
            BY DEF Daily!Init
        <2>3. day \in 0 .. Daily!LastDay
            BY DayOfMoment DEF Daily!Init
        <2>4. broke \in BOOLEAN
            BY DEF Daily!Init
        <2>5. QED
            BY <2>1, <2>2, <2>3, <2>4 DEF PlansInv
    <1>2. JobInv
        BY DEF Daily!Init, JobInv, Daily!NoJob, Daily!None, Left
    <1>3. QED
        BY <1>1, <1>2 DEF Daily!Init, RemindersInv, DueInv

LEMMA RemindersStep ==
    ASSUME RemindersInv, Daily!Next
    PROVE  RemindersInv'
    BY PlanStep, RescheduleStep, CompleteStep, NotifyStep, RemoveOwnerStep, BeginStep, QueryStep,
       DoneStep, NextDayStep DEF Daily!Next

LEMMA RemindersUnchanged ==
    ASSUME RemindersInv, UNCHANGED reminders
    PROVE  RemindersInv'
    <1>1. PlansInv' /\ UNCHANGED <<start, completed, planners, job, sent, day, due, broke>>
        BY DEF RemindersInv, PlansInv, reminders
    <1>2. \A e \in completed : e \in completed' /\ start'[e] = start[e]
        BY <1>1
    <1>3. \A n \in due : n[1] \in completed => OwnerOf[n[1]] \in planners
        BY DEF RemindersInv, PlansInv
    <1>4. QED
        BY <1>1, <1>2, <1>3, RowsStep

\* The inductive invariant of the reminders: what is due has been sent, or
\* the check that runs has read it or will.
THEOREM RemindersInvariant == PlatformSpec => []RemindersInv
    <1>1. PlatformInit => RemindersInv
        BY RemindersStart DEF PlatformInit
    <1>2. RemindersInv /\ [PlatformNext]_<<scope, fleetVars, accounts, reminders>> => RemindersInv'
        BY RemindersStep, RemindersUnchanged DEF PlatformNext
    <1>3. QED
        BY <1>1, <1>2, PTL DEF PlatformSpec

\* A check that did not break off has sent what was due when it began, for any
\* calendar whose months are longer than a week.
THEOREM DueIsReminded == PlatformSpec => []Reminded
    <1>1. ASSUME RemindersInv PROVE Reminded
        BY <1>1 DEF RemindersInv, DueInv, Comes, Reminded, Daily!Reminded
    <1>2. QED
        BY <1>1, RemindersInvariant, PTL

-----------------------------------------------------------------------------
\* The modules side by side.

\* The fleet of the platform is the fleet of Fleet.tla, so what is proved of
\* one holds of the other.
LEMMA FleetOfPlatform == PlatformSpec => Spec
    <1>1. PlatformInit => Init
        BY DEF PlatformInit
    <1>2. [PlatformNext]_<<scope, fleetVars, accounts, reminders>> => [Next]_fleetVars
        BY DEF PlatformNext
    <1>3. QED
        BY <1>1, <1>2, PTL DEF PlatformSpec, Spec

\* The types of the three modules, for all their constants.
THEOREM PlatformTypes == PlatformSpec => []PlatformTypeOK
    <1>1. PlatformSpec => []TypeOK
        BY FleetOfPlatform, FleetTypes, PTL
    <1>2. ASSUME AccountsInv PROVE Auth!TypeOK
        <2>1. \A w \in Worker : served[w] # Nobody => served[w].user \in User \cup {Nobody}
            BY <1>2 DEF AccountsInv, ServedInv, Request
        <2>2. QED
            BY <1>2, <2>1 DEF AccountsInv, AccountTables, Auth!TypeOK, Auth!Exists, Auth!Running, Rows
    <1>3. ASSUME RemindersInv PROVE Daily!TypeOK
        <2>1. PlansInv /\ JobInv
            BY <1>3 DEF RemindersInv
        <2>2. /\ job.name \in {Daily!None, "upcoming", "anniversary"}
              /\ job.rows \subseteq Event
            BY <2>1 DEF JobInv
        <2>3. ASSUME NEW n \in due PROVE n \in Event \X {"tomorrow", "week", "month"}
            BY <1>3 DEF RemindersInv, DueInv, Stays
        <2>4. due \subseteq Event \X {"tomorrow", "week", "month"}
            BY <2>3
        <2>5. QED
            BY <2>1, <2>2, <2>4 DEF PlansInv, Daily!TypeOK
    <1>4. QED
        BY <1>1, <1>2, <1>3, AccountsInvariant, RemindersInvariant, PTL DEF PlatformTypeOK

=============================================================================
