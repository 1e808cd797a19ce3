# Traveline server: specifications, model checking and proofs

The repository is the NestJS server of a travel application: catalogues of
places, bookings of vehicles, rooms, tickets and tables, a wallet with escrow, a
payment gateway (MoMo), an escrow contract on a chain, vouchers and travel
points. This directory holds TLA+ modules for the parts of it where money and
state can go wrong, the TLC configurations that check them on small instances,
and theorems that TLAPS proves for all instances. Paths below are relative to
`src/src/modules/` of the source tree unless they say otherwise.

## 1. The system

### How it runs

One Node.js process serves all HTTP requests. A request runs without
interruption from one `await` to the next; at an `await` any other request, the
payment notification of the gateway or a cron job may run. Two requests that
read a row before either saves it therefore overwrite each other, and a request
that throws half-way keeps every row it saved before, unless a database
transaction surrounds them. `wallet.service.ts` (all operations), `ownerCancel`
of the rental bills and the travel routes open transactions; the wallet locks
its rows.
A process can be restarted at any time, which ends all requests where they
stand.

### Components

| Component (source) | State | Operations | Hard behaviour | What makes it correct |
|---|---|---|---|---|
| Wallet (`wallet/`) | `user_wallets.balance`, `locked_balance`; `wallet_transactions` | createWallet, deposit, pay, refund, reward, simulateMomoDeposit, lockFunds, releaseFunds | concurrent transactions, row locks taken in two orders, a failing second wallet | no lost update; the statement explains the balances; escrow is paid out whole and once per release |
| Escrow contract (`blockchain/contracts/RentalEscrow.sol`) | `rentals` mapping, operators, owner, ether held | deposit, releaseFunds, refund, setAuthorizedOperator, Ownable | re-use of an id, change of operators between deposit and settlement | every deposit leaves once, whole, to the party the status names; always solvent |
| Blockchain service (`blockchain/blockchain.service.ts`) | `blockchain_transactions` log | adminRelease/adminRefund, quotes | the chain fails while the database goes on | failures do not stop the bill (caught and logged) |
| Rental bill (`rental-bill/`) | `rental_bills`, `rental_bill_details` | create, addVehicleToBill, removeVehicleFromBill, update, pay, ownerDelivering, ownerDelivered, userPickup, userReturnRequest, ownerConfirmReturn, complete, cancel, ownerCancel, checkTimeouts | everything is read - several awaits - save of the whole row; cron against requests | the status agrees with the money in escrow; the handover goes step by step; PENDING bills end |
| Payment (`payment/`) | `payments` | createMomoPayment, createQrPayment, handleMomoIpn, confirmQrPayment, refundMomo, refundLatestByRental, payouts | repeated and late notifications, lost answers of the gateway | a payment is escrowed once, for a bill that can be paid |
| Voucher (`voucher/`) | `vouchers.usedCount`, limits, dates | CRUD, validateVoucherForBooking, calculateDiscountAmount, increment/decrementUsage | limit checked at booking, consumed at payment | not used more often than allowed |
| Rental vehicle, contract (`rental-vehicle/`, `rental-contract/`) | status, availability of vehicles; status of contracts | approve, reject, disable, enable, suspend, search by dates | bookings and administration write the same rows | a suspended vehicle stays so; no double booking |
| Hotel, delivery, restaurant bills (`hotel/bill/`, `delivery/bill/`, `restaurant/booking/`) | bills, details with rooms or a table | create, update, confirm, pay, the service steps, complete, cancel, and a cron job each | several commits per request without a transaction; the job beside the user; wallet and chain shared with rentals | one lifecycle for the three; a decided bill; a voucher counted for every bill in use |
| Flight, train, bus bills (`flight/bill/`, `train/bill/`, `bus/bill/`) | bills with one row per ticket, points taken, partner figures | create, update, remove | points, bill, figures, voucher and refund are separate commits; a status may be entered and left repeatedly | no points lost; tickets match; figures are those of the COMPLETED bills |
| Offers and partners (`cooperation/`, `hotel/room/`, `flight/flight/`, `train/train/`, `bus/bus/`, `delivery/delivery-vehicle/`, `restaurant/table/`) | partners and six tables of offers | CRUD, favourites, adjustBookingMetrics | three kinds of foreign keys | a bill can still name what was bought and from whom |
| Travel route (`travel-route/`) | routes, stops, clones, favourites | planning, check-in, statuses by calendar, publishing, copying | every read recomputes and saves; statuses derived from stops | derived totals and statuses agree with stops; a visit is final |
| Feedback (`feedback/`) | feedbacks, averages stored in three tables | create, remove | averages recomputed target by target after the review is saved | the stored average is the average |
| Auth, user (`auth/`, `user/`) | accounts, refresh tokens, codes, rate limits in memory | bootstrap, signup, login, logout, verification, reset, change, removal | whole-row saves of overlapping requests; several commits | no session of an old password; verified means proven |
| Notification (`notification/`, `travel-route.cron.ts`) | notifications | two daily jobs | rows that move and owners who leave while a job runs; midnights and month ends | whoever is due is reminded |
| Mapping of administrative units (`scripts/admin-unit-mapping/` at the root of the source) | records of merged units | resolve clauses in order | equal names; names put off until others are known | hints and order never overrule the text |
| Chatbot, catalogues, vn-administrative | independent tables | CRUD, look-ups | little | - |

Interactions: a bill calls `payment` to create a payment; the gateway notifies
`payment`, which moves money with `wallet`, points of `user`, the count of
`voucher` and the status of the bill; refunds and completions go from the bill
to `payment`, `wallet`, `user`, `voucher`, `blockchain` and back to the bill and
its vehicles. Hotel and delivery bills call the same wallet and chain; tickets
take points and count for a partner. All share the database; nothing but the
transactions named above orders them.

`PROJECT.json` lists every component with what is modelled, and every hazard
of the code with its line and the properties that look at it.

## 2. Modules

| Module | Models |
|---|---|
| `WalletRules` | when a wallet operation may happen (`AdjustAllowed`, `LockAllowed`, `ReleaseAllowed`) and where a release pays (`Target`), used by all others |
| `Wallet` | the wallet with atomic operations: what the service promises |
| `WalletTx` | the same operations as PostgreSQL transactions: begin, lock the first row, check, lock the second row, commit or roll back; connection loss, lock waits, deadlock detection |
| `RentalEscrow` | the contract; one transaction on the chain is one step |
| `ChainLog` | `blockchain.service.ts` over `RentalEscrow`: sending, the PENDING row, the receipt, crashes, failed writes, replaced transactions, other callers |
| `RentalState` | tables and requests shared by the rental and payment services |
| `PaymentSteps` | `payment.service.ts` and the voucher count, one action per await that writes |
| `RentalBillSteps` | `rental-bill.service.ts` with its cron job, and registering, approving, disabling and enabling the vehicles |
| `RentalSystem` | the composition: clients, gateway, cron, failures and time; fairness and properties |
| `Fleet` | `rental-contract.service.ts`, `rental-vehicle.service.ts` and the bookings as far as they touch vehicles: approval, suspension, maintenance, search by dates |
| `BillLifecycle` | what hotel, delivery and restaurant bills promise together, liveness included |
| `ServiceBills` | those three services, one commit per step, their jobs, voucher, points, wallet; implements `BillLifecycle` |
| `TicketBills` | flight bills, and the creation of bus and train bills, one commit per step |
| `Voucher` | `voucher.service.ts`: terms, limits, the stored flag and its refresh |
| `Partners` | `cooperation.service.ts` and the six services of offers, with the foreign keys of their bills |
| `TravelRoute` | `travel-route.service.ts` |
| `Feedback` | `feedback.service.ts`: create, remove and the averages |
| `Accounts` | `auth.service.ts`, `user.service.ts` |
| `Reminders` | `reminder.cron.ts`, `travel-route.cron.ts` and the notifications they write |
| `MappingResolver` | `mapping-resolver.ts` |
| `MCWallet`, `MCWalletTx`, `MCRentalEscrow`, `MCRental`, `MCRoutes`, `MCCatalogue`, `MCBookings`, `MCPlatform` | values for TLC, initial states of the runs |
| `Catalogue` | the composition of `Partners`, `Voucher`, `Feedback` and `MappingResolver`, side by side |
| `Bookings` | the composition of `TicketBills` and `ServiceBills`, side by side |
| `Platform` | the composition of `Fleet`, `Accounts` and `Reminders`, side by side |
| `WalletProofs`, `WalletTxProofs`, `RentalEscrowProofs`, `RentalProofs`, `BookingsProofs`, `PlatformProofs` | theorems about the modules they are named after |
| `TravelProofs` | theorems about `Catalogue` and `TravelRoute` |
| `SumTheorems` | sums over finite sets: the lemmas those proofs share |

`WalletTx` instantiates `Wallet` with its committed rows, `RentalState` uses the
wallet rules for the balances of renters and owners, `RentalSystem` composes
payments and bills, `ChainLog` extends the contract it talks to, `ServiceBills`
instantiates `BillLifecycle` with the union of its three tables. `Catalogue`
(`Partners`, `Voucher`, `Feedback`, `MappingResolver`), `Bookings`
(`TicketBills`, `ServiceBills`) and `Platform` (`Fleet`, `Accounts`,
`Reminders`) put modules into one run that share no state: the variable `scope`
gives every history to one of them. The service that runs behind several
components (wallet, voucher count, points) appears in each module as its rows
and rules, not as an instance: its operations are single commits there, which
`WalletTx` justifies for the wallet.

### How state and actions correspond to the code

*Wallet.* `balance`, `locked` are the two numeric(18,2) columns in cents
(`MaxCents` is the largest value of the column); `holders` are the users that
have a row. `ledger[u][t]` is the sum of `wallet_transactions.amount` of type
`t`; the code never reads single rows back. A call that throws is a stutter in
`Wallet` and an explicit rollback in `WalletTx`. Conversions between decimals
and cents are left out: amounts are whole cents.

*WalletTx.* A transaction of a client is a record with its phase; the row lock
of `setLock('pessimistic_write')` is `rowLock[u]`, taken before the row is read
and given back at commit or rollback. The lookup joins the user of the wallet;
that the lock on such a query is granted and covers the wallet row is assumed,
`src/` does not decide it. A release to another wallet locks the renter's row
first and the owner's second; two opposite releases deadlock, and the database
then aborts one of them.

*RentalEscrow.* A failed `require` reverts: a stutter. `nonReentrant` and the
order of effects make a settlement one step. Ghosts `paidIn`, `paidOut`,
`received` add up the transfers.

*Rental bills and payments.* `call[w]` is a request in service: operation, the
await it stands at (`pc`), and the rows in its memory, which are stale when
another request has saved in between. The reads at the start of a request,
which follow each other with nothing written in between, are one step with the
request's checks; after that every await that writes is an action. `Save`
writes the *whole* loaded row (TypeORM saves the entity; a property that was
set to `undefined` keeps its column: `Persisted`). `processRefundOrRelease` is
the chain of awaits `findRefundable`, `askRefund`, `markRefunded`,
`refundPoints`, `readVoucher`, `saveVoucher`, `release`, `settleChain`, `reward`.
`Fail(w)` ends a request at any await: a failed query or a restart; what it has
written stays. `order[p]` is what the gateway knows of an order. `era` is where
the present lies between the dates of the bills; `aged` holds the bills whose
cron timeout (10 or 5 minutes) has passed, counted from `updatedAt` or
`createdAt` as the two queries do. Fields that no property distinguishes are left
out: names, pictures, notes, positions, overtime amounts, uploads,
notifications. Amounts of payments are integers (`RawAmount`): `POST
payments/momo/create` checks only that the amount is a number, and deposit and
lock are skipped for one that is not positive. The owner of a vehicle is the user of
the contract in its row, and `Register` saves a row by its plate whether or not
the plate is taken, so that a vehicle may change contract while bills hold it.

*Chain log.* `call[c]` is one call of `blockchain.service.ts` at one of its
awaits: send, write the row, wait for the receipt, mark the row. `tx[c]` is the
transaction in the mempool, mined when the chain decides, against the state of
the contract at that moment. `row[c]` is the status in the table. Calls of other
keys and a replaced transaction are steps of the environment.

*Fleet.* `request` is a request on contracts, a registration or a removal, with
the commits it has still to make (`suspend`: vehicles, then contract; `create` and
`remove` of a vehicle: row, then `totalVehicles`); these run one at a time. What has
read a row and saves it later runs beside them and beside each other in `work[w]`,
with the whole rows it has read: an owner's update, disable or enable
(`SaveVehicle`), a maintenance period (`InsertMaintenance`), a booking
(`InsertDetail`, then `SaveBill`), the end of a rental (`End`: the vehicle's row as it
was before the release, its status included, and then the bill's), `ownerCancel`,
the cron job (`Expire`), and every other save of a bill (`Keep`). `Pay` marks a bill
PAID at any time and whatever its status, as the notification and the confirmation
do. A save inserts again what was removed meanwhile, unless a foreign key
refuses it. `readmitted`, `strayed`, `torn` are history: vehicles that were put back
after a suspension, by an administrator or by a save of a row read before it;
bookings whose request overlapped another one on the vehicle or that counted again
after they had ended; contracts whose counter a request left wrong.
A bill takes one vehicle, once, and keeps it (`removeVehicleFromBill` is in
`RentalBillSteps`); the checks and the save of `create`, `approve` and `reject` are one
step.

*Service and ticket bills.* A request is a sequence of commits (`request.todo` in
the modules, named after the statement that commits: points, bill, voucher,
figures, wallet, chain); any suffix may be lost. Requests do not overlap there:
what overlapping does to read-modify-save rows is the subject of the rental
modules, and failures in the middle are what these services add. Totals are
computed from rooms, passengers, voucher and points as the code does; prices are
constants.

*Travel routes.* `route[r]` is the row with its stops (day, order, times, place,
status); `now` counts thirds of a day; `reading` is a read that has loaded a route
and will save it recomputed. `stuck` holds the requests of `update` that wait for
themselves (section 5). Points are counted in visits.

*Accounts.* Each of `Worker` runs one request, one commit per step, with the rows
in its memory; codes are mailed or texted and come back later or never. Hashes,
tokens and codes are abstract values that cannot be guessed.

*Reminders.* Half days. A job reads the rows of one kind, then notifies owner by
owner; rows and users change in between.

*Mapping.* A clause names legacy units (spelling, normalized form, kind, parent)
and one new unit; `FilterCandidates` is the chain of filters, in the order of the
code; `pending` holds the names put off.

## 3. Runs

All amounts are cents; every bound is a constant of the configuration.

| Run | Shows |
|---|---|
| `wallet` | two users, amounts 0 to 2 in a column of 3, five statement rows: the statement reconciles, escrow is conserved, locks are covered, nobody without wallet owns money |
| `wallet_tx` | two clients of two users with all operations: the row locks make reads current (`ReadsAreCurrent`), every step implements one of `Wallet` (`StepsImplementWallet`), and every request ends, crossing releases included |
| `rental_escrow` | two accounts, two rentals, three deposits (so one id is used again), three calls of the service: entries reconcile with transfers, the contract pays only the parties, and CONFIRMED rows of the log never claim more than the chain did |
| `rental_handover` | two overlapping requests out of payment notification, handover, completion and cancellations, each of which may fail at any await, from an order that was paid and from one of nothing that the gateway refused, which `confirmQrPayment` can still mark paid: a paid or handed over bill has money in escrow or was paid with nothing, a COMPLETED one has paid its total out |
| `rental_two_bills` | payments, completions and cancellations of two bills of one renter, overlapping and failing: the one locked balance stays the sum over the bills |
| `rental_alone` | one request at a time, longer histories: bookings over vehicles of two owners, which are disabled, registered again and approved in between, and what follows a payment with points, voucher, chain deposit, refunds, QR confirmation and failures: one owner per bill, points never negative, handover in order |
| `rental_timeout` | the cron job with two overlapping requests: a PENDING bill ends for good although stale saves revive it |
| `routes` | two users, three routes, a place that opens in the morning, two days of three times each: totals and statuses follow the stops, one personal copy per public route, and check-ins are final |
| `catalogue` | two partners, offers and bills; two vouchers over three days; two reviews of three targets; two clauses over units with equal names: what is stored twice agrees |
| `bookings` | two ticket bills with four requests; two numbers for each of the three other services with five calls and a failure: points, tickets, figures, vouchers, and the lifecycle |
| `platform` | a contract and a vehicle, two bookings over two overlapping periods, three moments, two requests that overlap a third and payments at any time, from an empty database and from a listed vehicle; two accounts with two overlapping requests and four calls; two events over a calendar of two months |
| `other_escrow` | a violation, see section 5 |

*Why the bounds are enough.* The wallet needs two users, since every operation
touches at most two rows, and amounts that can exhaust and overflow the column.
In `WalletTx` two clients make every conflict: each waits for at most one row.
The contract needs an id that is used again (`MaxDeposits` above the number of
ids) and parties that differ. For the bills, hazards come from two requests that
overlap (two workers), from two bills in one wallet (their escrow is one
number), and from histories (`MaxCalls`): the longest legal one, payment to
confirmed return, has 6 requests from the ordered state on and fits the
sequential run; the handover run has one more, for a second completion, return
or cancellation beside them. The runs of `MCRental` start from different points: from
nothing (`Init`), from booked bills (`Booked`), from orders that were paid at
the gateway (`Ordered`); the latter two are states the first reaches, and
`rental_alone` has both the first and the last. `Op` names the operations of a
run by era: `rental_alone` takes bookings before the dates of the bills and the
rest after. For tickets and services, two bills are what vouchers with one use
and partner figures need, and a failure between any two commits is the hazard.
For the fleet, two overlapping periods and two bookings are what a double booking
takes, and every request works on one vehicle. `MaxCalls` is 5 and counts every
request but payments: creating and approving a contract, registering and approving
a vehicle and one more from nothing; from `Listed` (the contract and the vehicle
approved, with one request counted) four, enough for a booking that is cancelled, the
vehicle booked again or disabled, and the late payment of the first; or for
a booking, its end under way, and the suspension between its two saves. `Listed` is a
state the first reaches with more requests. For accounts, a request
overlaps one other: two workers. Routes need the time before, during and after a
stop and a second user who copies; histories start before the first route or
from a planned, a begun or a public one, so that two requests reach what four
would.

*Deadlock.* `CHECK_DEADLOCK FALSE` is given where a system may stop: when the
bounds on rows, calls or deposits are used up nothing is left to do.

*Fairness.* `RentalSystem!Fairness`: the event loop resumes every pending await,
the scheduler runs `checkTimeouts` every minute, and a PENDING bill gets older.
`WalletTx`: the database executes the statements of a started transaction, grants
a free lock, and resolves a deadlock. `ServiceBills!Fairness`: a request that
runs takes its next commit (`Step`), each of the three jobs runs, and time passes
for a waiting bill (`Late`); the number of failures is bounded. Nothing is
assumed of clients, of the customer at the gateway, or of dates. `PendingEnds`
also rests on finitely many requests: a client that updates its bill every few
minutes keeps it PENDING.

*Refinement.* `WalletTx` implements `Wallet`: checked step by step
(`StepsImplementWallet`) and proved as a whole. `ServiceBills` implements
`BillLifecycle` (`ImplementsLifecycle`): a room bill, a delivery and a table are
each `none`, `pending`, `confirmed`, `active`, `completed` or `cancelled`, in the
order the abstract actions allow, and no bill stays pending. The run checks both, the
second under fairness; the first is also proved.

Each property of a passing run is shown to depend on the code by a mutant: an
operator `<Definition>_<What>` beside the definition, a plausible slip of the
same code, under which TLC finds the property violated.

## 4. Proofs

`WalletProofs` (any set of users, any integer amounts, any column size):

* `WalletInvariant` : `Spec => []IInv`. `IInv` adds to the type invariant that
  the ledger reconciles and that users without a wallet have nothing; the
  reconciliation is needed together with the types (a saved value is in its
  column by the check the code makes, the ledger only by induction).
* `TypeCorrect`, `LedgerAlwaysReconciles`, `MoneyNeedsWallet` follow from it.
* `EscrowIsConserved`, `LockIsAlwaysCovered` are action properties: one step
  per operation, from the guards of `WalletRules` and lemmas on `Moved` and
  `Recorded`.

`RentalEscrowProofs` (any accounts, rental ids, values): `EscrowInvariant`
(`TypeOK` and `EntriesReconcile`), and from it `TypeCorrect`,
`EntriesAlwaysReconcile` and the action property `OnlyPartiesArePaid`.

`WalletTxProofs` (any users, requests and amounts): `TxInvariant`. A request that
has read a row holds the lock of the row (`HoldsItsRows`) and what it read is
still there; the property alone is not inductive, since without the lock another
commit could change the row. From it `ReadsStayCurrent`; then every commit
computes what one action of `Wallet` computes (`TransactionsAreAtomic`, one lemma
per kind of commit) and `TransactionsImplementWallet : Spec => Atomic!Spec`.
`ConcurrentLedgerReconciles` is the theorem of the atomic wallet carried over by
that refinement. Rollbacks, deadlock victims and lost connections are steps that
leave the committed rows alone, whichever victim is taken.

`TravelProofs`, partners (any partners, offers, bills): `KeysInvariant` says that
listed offers belong to partners that exist and bills name what the foreign keys
protect; it needs both, for deleting a partner deletes its offers.
`BillsAlwaysKeepTheirOffer` follows.

`TravelProofs`, vouchers (any vouchers, codes and terms, any number of days): with the
types of the rows `NoUsableIsHidden` is inductive. Whatever saves a row, a use
included, computes the flag of that day; and between two saves only the date
changes, by which a voucher whose flag is off cannot become usable, since
`Refreshed` does not look at the first day of its term. `NoUsableIsEverHidden`.

`TravelProofs`, reviews (any reviews, stars and targets, any request broken off):
`StarsInv` says of every target that exists and is not `torn` that its columns
follow its reviews or that it is still on the list of the request under way, and
that what this request has counted and not saved is what there is. The last
needs that nobody adds a review between count and save: `RatingsAlwaysFollow` has
the hypothesis `OneWorker`, which the run makes as well; two overlapping requests
can store the older average (section 5). A sum of stars that loses or gains a review changes
by its stars (`SumTheorems`).

`TravelProofs`, mapping (finite data sets, any resolutions and hints; assumption:
what is spelled alike is normalized alike): the filters of candidates give way
rather than leave nothing, so none of them loses the unit that the text decides on
(`FilteredIsRight`), and that unit is among the candidates unless a hint kept it
out of a list (`Reached`, `NamedFound`, `CandidatesAreRight`). The names of a clause
are sorted before they are resolved: the sorted ones are the same names, because the
number of names that go before one is different for each and every place is taken
(`OwnPlace`, `PlacesTaken`, `OrderedFacts`). `MapInv` adds that every name of a
clause is put off or recorded, as many as there are and with the right unit;
`MappingInvariant`, then `TextAlwaysDecides`.

`TravelProofs`, routes (any routes, stops, users, places): `RoutesInv` is the shape of
the rows, `Counted` (points and status fit the stops), `CopiesInv`, and that a
read which will save its recomputation holds what is stored. `AggregatedFacts` is
about `updateRouteAggregates` for any set of stops; every request that touches
stops ends with it, and there is one lemma per request which also shows that no
visit is taken back. Replacing stops is the delicate one: the `findOne` at the
end of `update` recomputes the old stops and could save their COMPLETED over the new
ones. It is the points that exclude it: a COMPLETED route had some, its new stops
have none, so the transaction has written the row and `findOne` waits for it.
`VisitsAlwaysCount`, `CopiesAreUnique` and
`VisitsAreFinal` have the hypothesis `OneAtATime` (`~Overlap`), under which the run
checks them and without which they are false of the code. `FavouritesAreCounted`
(`LikesInv`) is proved only, no run checks `FavouritesCounted`: other requests save the row
that holds the counter, and new rows, copies included, start with nobody who likes
them.

`PlatformProofs`, fleet (any contracts, vehicles, bookings, workers and periods;
assumption: a period is a pair of naturals in order): `FleetInvariant`. Each of the
three properties speaks of rows only and is not inductive, for a request that has
read a row writes it back later. The invariant extends each to the rows under way.
`DisabledInv`: what is out of service, and what a request will save as out of
service, has no booking left to serve among those that are not `strayed`
(`Unserved`), and a booking on its way whose vehicle goes out of service is marked.
`SuspendedInv`: the suspension whose vehicles are out and whose contract is not
saved yet counts as one, and the statement is about the status alone, since the end
of any bill makes a vehicle available again. `ShownInv`: a booking that search has
shown is free of maintenance and of other shown ones (`FreeFor`) from the search on,
while it waits for its insert too, and a maintenance period on its way meets no
shown booking (`NoneShown`). `WorkOK` says what each request holds in memory. There
is one lemma per action; `SuspendedKept`, `SoundKept`, `FreedomKept`, `DisabledKept`,
`ShownKept` and `Kept` say once what leaves a part alone, `SameButOne` what a bill
that changes its state only may do. What makes late payments and stale saves harmless
to the rest is that they are marked as they come back: `PayInv` and `SaveBillInv` add
no booking to those that are not `strayed`. `DisabledAlwaysFree`,
`SuspendedAlwaysOff`, `ShownAlwaysFree` follow, the last with the lemma that periods
that do not overlap share no moment.

`VehiclesAlwaysCounted` needs to know how far a counter is behind its rows while
a request stands between its two commits (`Behind`, in `CountedInv`, for contracts
that are neither `torn` nor removed); cardinalities change by one element at a time,
and a save that inserts a removed vehicle again, or moves one back to its former
contract, marks both. `FleetTypes` bounds the counters by the requests there have
been (`CallsInv`).

`PlatformProofs`, accounts (any accounts, addresses, numbers and passwords, any
number of requests served at the same time): `AccountsInvariant`. `AccountsInv` is
`AccountTables`; `ServedInv`, which commits a request of each kind may have left,
and that `bootstrap` runs alone; `ProvenInv`, that a flag stands for a code that
came back, in the table and in every row that a request has loaded and will save
whole; and `SessionsInv`. The last is about accounts on which requests did not
overlap (`loose` names the others): at most one request works on such an account,
besides those that only flag a number; a login or an edit under way knows the
password that is stored; and the tokens are those of the password unless a change
has saved it and not yet deleted them (`AtClear`). `SessionsAlwaysMatch` and
`VerifiedIsProven` follow.

`PlatformProofs`, reminders (any events, users and calendar): `RemindersInvariant`.
What was due when the check began stays due (`Stays`: whoever moves or removes a
row takes it out of `due`, and what is removed cannot come back as due), and it
has been sent, or its row has been read, or its kind is still to be queried
(`Comes`). When the check ends nothing is left to read, so `DueIsReminded`. That
what is a month old today is found by `subMonths` from today (`AnniversaryFound`)
rests on the lemmas on the starts of months, which are sums over their lengths,
and on months that are longer than a week: otherwise both anniversaries could
fall on one day, and the code sends only the first.

`PlatformTypes` puts the types of the three together; `FleetOfPlatform` carries
what is proved of `Fleet!Spec` over to `PlatformSpec`.

`SumTheorems` (any finite set, any function into the integers). `SumOver` is the
sum the models use; `SumMoved` says what a change of one summand does to it,
`SumAgree` that it depends on the values only, `SumWithin` that a sum of naturals
bounds each summand. Induction over finite sets is done with a smallest
counterexample, since the library's induction theorem takes an operator.

`RentalEscrowProofs`, log (finitely many calls): `LogInvariant`, whose `LogInv` is
`LogTypeOK`, `RowsInv` (the row of a call agrees with its transaction and the await
it stands at: a CONFIRMED row has a mined one) and `CountsInv` (the contract received
at least what the mined deposits sent and settled at least as often as the mined
settlements, and exactly that unless others acted, a transaction was replaced or a
call broke off). `LogAlwaysMatchesChain` follows: the CONFIRMED rows are a subset of
the mined transactions, and the same set once no call runs.

`RentalProofs` (any renters, bills, vehicles, workers, any overlap, failures at
any await): `RentalInvariant`. `IInv` is `TablesInv`, `UsersInv` and
`CallsInv`. The tables' part is what the properties say of stored rows; it is not
inductive, because a request saves, several awaits later, a whole row it has read
before. `CallsInv` therefore demands of every row in the memory of a request, and
of the rows the cron job has read, what is demanded of a stored one: a paid or
handed over copy has money in escrow (`Escrowed`), a completed one has paid out
(`Settled`); and at each await what the next writes rely on (`Stands`). It is
inductive although others write in between because `lockedFor` and `releasedFor`,
the history of escrow per bill, only grow, and what was reported of a payment stays:
so do the `Backed` bills, those with something in escrow or for which a payment of
zero or less was reported, and what a copy said stays true of the bill even when
the copy is stale. There is one lemma per action. From it
`RentalTypeCorrect`, `PaidAfterEscrow`, `CompletedAfterRelease`, and, with the sums
over the bills of a renter, `LockedIsByBills`: the one locked balance is what the
bills have locked less what they have released.

`RentalProofs`, requests that do not overlap (the hypothesis is `OneClient`, one
worker, as in the run `rental_alone`; awaits still fail). What a request has read is then
still so when it acts on it, and each invariant says so at the awaits that matter:
`PointsInv`, what a payment is about to deduct the user still has; `OwnersInv`,
the details a request will save are among those of the bill, and a vehicle about to
be inserted is of the owner of those that are there if they have one owner (a
registration may have ended that before, which `OneOwner` names); `FlowInv`, the row a request will
save is the stored one or one step of the handover ahead of it. All other
steps leave both sides alone or end the request (`Quiet`). `PointsAlwaysCover`,
`VehiclesOfOneOwner` and `WorkflowStaysInOrder` follow. The last also supposes
`CronRests`, no cron job in the operations that clients and timers ask for: the
job saves rows it read before and so overlaps with the request of the one client
(section 5).

`BookingsProofs`, tickets (finitely many bills): `TicketInvariant`. A request is a
sequence of commits of which any suffix may be lost; `TicketInv` lists the
sequences a request may still owe and says for each what the rows lack (`RowsOK`,
`Repricing`, `Saving`, `SettlingRow`, and `SeatsMatch` for the passengers).
`PointsAreNotLost` adds `PointsInv` (the user will not have less than there was, whether
the request under way goes on or stops where it is, but for what was `forfeited`), `RevenueIsExact` adds `RevenueInv` (the
partner's figures are ahead of the bills by what the request has still to write,
or the partner is `drifted`). `TicketTypeCorrect` and `SeatsAlwaysMatch` are parts.

`BookingsProofs`, services (bill ids are numbers): `ServiceInvariant` says in
which status a bill waits until the last commit of the request under way (`Waits`,
`Ends`). `VouchersAreCounted`: the count of a voucher covers the bills in use that
hold it, with one to spare while a payment has counted and not saved (`Owes`).
`BillsKeepLifecycle` is the safety part of the refinement `ImplementsLifecycle`: each
commit of any of the three services is one action of `BillLifecycle` on one bill,
or leaves all statuses alone (`Lives`).

Assumptions on constants are types and finiteness: `RentalAssumption`,
`ChainLogAssumption`, `RowsAssumption` (vehicles are a finite set,
`Nobody` is no contract), `BoundsAssumption`, `TicketAssumption`,
`ServiceAssumption`, `AccountsAssumption` (the mark of a missing row is no row),
`RemindersAssumption` (every month is longer than a week), `KeysAssumption`,
`VouchersAssumption`, `FeedbackAssumption` (tables have different rows, a review has
a star at least, terms are what the columns take), `RoutesAssumption` (finitely many
users and stops; nobody is no user), `MappingAssumption` (finite data sets; equal
spellings are normalized alike). They are in the
modules that declare the constants or compose them, and TLC evaluates each in a run.

Only model-checked is liveness (`EveryRequestEnds`, `PendingEnds`, and `Decided` in
`ImplementsLifecycle`), which TLAPS does not do.

## 5. What the code does not keep

One run refutes a comment of the code: `other_escrow` (`ReleasedWasLocked`).
`complete` and then `ownerConfirmReturn` both release the total, the second time
out of what another bill of the same renter has locked.

Three more statements are defined in `RentalSystem` and are false of the code;
`MCRental` has the operations that show it in a few steps (a configuration like
`MCRentalOtherEscrow.cfg` with the `Op` named here and the property):

* `OnlyPendingIsPaid` (`OpLate`): a notification that arrives after a
  cancellation makes the CANCELLED bill PAID; `handleMomoIpn` never looks at
  the status.
* `EachPaymentOnce` (`OpOverlap`): two deliveries of one notification that
  overlap both pass the check of `Payment already processed` and escrow the
  amount twice.
* `CronCancelsPending` (`OpCron`): `checkTimeouts` saves rows that it read
  before; one that was paid in between becomes CANCELLED.

What follows was seen while modelling. It is in the models, as an exception that
the property names or as behaviour no property forbids.

*Rental.* A vehicle added while an order is open makes the PAID bill dearer than
its escrow (`payment.service.ts:316`). A payment of zero or less skips deposit and lock and still marks the bill PAID
(`payment.service.ts:202`, `:314`; `payment.controller.ts:20` checks only that the
amount is a number), so the vehicle may be handed over with nothing in escrow
(`PaidNothing`). Only SUCCESS is refused as processed (`payment.service.ts:283`): a
notification repeated after a refund escrows the amount again. A plate that is
registered again moves to the new contract although bills hold the vehicle
(`rental-vehicle.service.ts:185`): its bill may then have vehicles of two owners, and
the completion pays whichever owner is first. Clearing the voucher with `update` leaves
`voucherId` in the row (`rental-bill.service.ts:267`). Two bills that hold a
voucher with one use left both consume it (`voucher.service.ts:172`). A cancelled
MoMo payment is paid back by the gateway and also credited to the wallet
(`rental-bill.service.ts:880`). Two overlapping `addVehicleToBill` on an empty
bill pass the one-owner check both (`rental-bill.service.ts:710`).
`PointsCover`, `WorkflowInOrder` and `OneOwner` are for this reason stated for
requests that do not overlap; `WorkflowInOrder` needs the cron job to rest as well,
for `checkTimeouts` (`rental-bill.service.ts:164`) saves rows that it read
before a payment: under a request that has read the bill since, the bill falls
back, and what the request saves skips steps.

*Fleet.* Booking looks at the vehicle's own status and availability, not at its
contract, its dates or its maintenance, and nothing keeps two bookings of one vehicle
and period that overlap apart (`strayed`); `approve`, `enable` and the end of a bill
look at none of them. A notification or confirmation that comes after the
cancellation, or the stale save of a bill, brings the booking back over whatever was
booked or planned since (`payment.service.ts:229`, `:343`; `strayed`).
The end or the cancellation of a bill makes a vehicle available that its owner
disabled, and saves the whole row as it was read: one that was read before a suspension
brings the vehicle back into new bills, as an owner's edit does
(`rental-bill.service.ts:379`, `:401`, `:642`; `readmitted`), and one that was read
before a removal inserts the vehicle again. Row and counter are separate commits and
can drift; registering a plate again counts it once more (`torn`).

*Accounts.* A whole-row save that was loaded earlier reverts a password or a flag,
or inserts a removed account again. Two overlapping logins leave two tokens;
`bootstrap` may rotate the administrator's password and keeps the tokens; both
are in `loose`. A signup or `bootstrap` that breaks off leaves an account without
a wallet. `markPhoneVerified` writes only the flag, also when the number has
changed (`crossed`).

*Reminders.* `createNotification` throws for a removed owner and the rest of the job
is lost (`broke`). No flag says that a reminder was sent. Cancelled bills are
reminded of as well.
`subMonths` stops at the end of a shorter month: what was completed on the 30th of
June is remembered on the 30th and the 31st of July, what was completed on the
31st of May never.

*Tickets.* An update that lowers the points of a CANCELLED bill, whose points have been
given back, credits the difference once more; one that raises them takes the
difference and makes the whole sum refundable again. An update that fails after deleting the
passengers leaves none. Any update drops `totalOverride`. A COMPLETED bill with a
used-up voucher cannot be updated. Editing a COMPLETED bill makes the partner's
figures drift (`drifted`). Creating a bus or a train bill takes the points and then
always throws (`forfeited`).

*Services.* The total of a hotel bill is 0 until it is updated or confirmed, and its
voucher is not validated when it is created. A hotel bill with rooms cannot be
paid: the query of `ensureRoomAvailability` names a column that does not exist,
and each attempt takes the points and the voucher again. `complete` and `cancel`
of delivery bills release to owner or renter whatever is locked in the wallet,
though `pay` locks nothing, and settle the rental on the chain that has the same
number (`delivery-bill.service.ts:290`); hotel bills have the same lines. An update
of a restaurant booking does not check the capacity again.

*Routes.* Requests that overlap lose writes: a read saves its recomputed stops over a
check-in, two uses of one public route make two copies (both with
`Overlap = TRUE`). `update` waits for itself when its `findOne` must recompute the
row that its own transaction has locked (`travel-route.service.ts:509`, `stuck`).
`updateRouteAggregates` never loads the user, so the travel points of a visit are
not credited. A suggested route may have stops that overlap in time.

*Feedback.* Removing a review recounts destinations and routes, not partners; two
overlapping requests can store the older average (`torn`).

*Chain log.* A PENDING row whose process has stopped is never looked at again; a
lost answer marks a mined transaction FAILED; a transaction may have no row.

*Mapping.* A province that the text names is overruled by the province of the file
name when the filter by parent leaves nothing, which `TextDecides` excludes. So is a
district: where the province of the file name has a unit of that name in another
district of the same name, but of another kind, the list of that name and district
only takes those (`collectCandidates`, `mapping-resolver.ts:203`), the unit that the
text describes is no candidate, and the name is mapped to a unit of another district.
The proof of `TextDecides` found it; the property excludes it by `Overruled`, and the
data of the run contain such a unit. Names that stay ambiguous are resolved to the first best combination, ties included,
although the script's README says that it stops when a name cannot be matched
uniquely.

## 6. Plan

The order was: money first (wallet, contract, rental bills with payments), then
the chain log, the fleet, the services that share the wallet, tickets,
vouchers, partners, routes, reviews, accounts, reminders, and the mapping of
units. All of these are on disk. What is left:

1. The rental modules with three overlapping requests.
2. Moderation, reactions and replies of feedback; suggestions of routes.

## 7. Not modelled

Chatbot (prompts and answers of a language model, and a log of messages);
catalogues of places (CRUD of independent tables); `vn-administrative` (read-only
look-ups); uploads, mails and pushes; the helpers, seeds and migrations: no state
whose order matters, or pure I/O. Reads (`findAll`, `getBalance`,
`generatePaymentQR`). Within modelled components: payout rows of `payment`, which
only an administrator writes and nothing reads; `adjustRentalMetrics` and
`adminDepositForRental`, which have no caller; `deployContract`, whose new address
lives in the process only; `update` and `remove` of bus and train bills, for no
row ever exists; moderation and reactions of feedback; rate limits (counters in
memory with windows), the lifetime of tokens and `refresh`, which only reads; and
`PATCH users/:id`, which writes the columns it is given. Prices, images, names,
texts. Conversion between decimals and cents. Gas and the fields of receipts.
