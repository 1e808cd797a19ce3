------------------------------ MODULE Voucher ------------------------------
(***************************************************************************)
(* voucher.service.ts: discount codes with a term and a usage limit.  The  *)
(* column active caches whether a voucher can be used and is refreshed     *)
(* when the service touches the row, so it lags behind the calendar.       *)
(* TicketBills.tla and ServiceBills.tla redeem the vouchers.               *)
(***************************************************************************)
EXTENDS Integers

CONSTANTS
    VoucherId,      \* vouchers.id
    Code,           \* voucher codes, in upper case, none of them "none"
    Dto,            \* what callers ask create and update for, without the code
    MaxUsed,        \* bound on usedCount
    MaxDay          \* bound on the calendar

VARIABLES
    voucher,    \* vouchers, by id
    today       \* now, in days

voucherVars == <<voucher, today>>

Day == 0..MaxDay
Never == MaxDay + 1     \* no expiresAt, or one out of reach

\* code "none" marks an id that is not used yet; dates are days and prices
\* cents.
Row == [code : Code \cup {"none"}, type : {"fixed", "percentage"}, value : Nat,
        maxDiscount : Nat, minOrder : Nat, maxUsage : Nat, used : 0..MaxUsed,
        startsAt : Day, expiresAt : Day \cup {Never}, active : BOOLEAN]

NoVoucher == [code |-> "none", type |-> "fixed", value |-> 0, maxDiscount |-> 0,
              minOrder |-> 0, maxUsage |-> 0, used |-> 0, startsAt |-> 0,
              expiresAt |-> Never, active |-> FALSE]

TypeOK ==
    /\ voucher \in [VoucherId -> Row]
    /\ today \in Day

Init ==
    /\ voucher = [v \in VoucherId |-> NoVoucher]
    /\ today = 0

-----------------------------------------------------------------------------

Exists(v) == voucher[v].code # "none"

\* computeActive.
Usable(row, day) ==
    /\ day <= row.expiresAt
    /\ row.maxUsage > 0 => row.used < row.maxUsage

\* refreshActive.
Refreshed(row) == [row EXCEPT !.active = Usable(row, today)]

\* findByCode.
HasCode(code) == {v \in VoucherId : voucher[v].code = code}

\* validateVoucherForBooking returns without an exception.
Valid(row, amount) ==
    /\ Usable(row, today)
    /\ row.startsAt <= today
    /\ row.minOrder > 0 => amount >= row.minOrder

\* calculateDiscountAmount, in cents.
DiscountOf(row, amount) ==
    LET share == (amount * row.value) \div 100
        raw == IF row.type = "fixed" THEN row.value
               ELSE IF row.maxDiscount > 0 /\ share > row.maxDiscount
                    THEN row.maxDiscount ELSE share
    IN  IF raw > amount THEN amount ELSE raw

\* The columns a request may name besides the code.
Field == {"type", "value", "maxDiscount", "minOrder", "maxUsage", "startsAt", "expiresAt"}

\* row with the columns F taken from dto.
Assigned(row, dto, F) == [f \in DOMAIN row |-> IF f \in F THEN dto[f] ELSE row[f]]

\* Codes are compared and stored in upper case; the unique column refuses
\* what the comparison misses.
Create(v, code, dto) ==
    /\ ~Exists(v)
    /\ HasCode(code) = {}
    /\ voucher' = [voucher EXCEPT ![v] =
          Refreshed(Assigned([NoVoucher EXCEPT !.code = code], dto, Field))]
    /\ UNCHANGED today

\* update with one column: findOne refreshes the row, the named column is
\* overwritten and the flag computed anew.  A request that names several
\* columns ends like one request for each.
UpdateField(v, dto, f) ==
    /\ Exists(v)
    /\ voucher' = [voucher EXCEPT ![v] = Refreshed(Assigned(voucher[v], dto, {f}))]
    /\ UNCHANGED today

\* update with another code, which must be free.
UpdateCode(v, code) ==
    /\ Exists(v)
    /\ HasCode(code) \subseteq {v}
    /\ voucher' = [voucher EXCEPT ![v] = Refreshed([voucher[v] EXCEPT !.code = code])]
    /\ UNCHANGED today

\* findOne saves the row when its flag has changed.
FindOne(v) ==
    /\ Exists(v)
    /\ voucher' = [voucher EXCEPT ![v] = Refreshed(voucher[v])]
    /\ UNCHANGED today

\* The rows the query of findAll returns: with a filter it compares the
\* stored flag, before any refresh.
Queried(filter) == {v \in VoucherId : Exists(v) /\ voucher[v].active \in filter}

\* findAll refreshes and saves what its query has found.
FindAll(filter) ==
    /\ voucher' = [v \in VoucherId |->
          IF v \in Queried(filter) THEN Refreshed(voucher[v]) ELSE voucher[v]]
    /\ UNCHANGED today

\* Mutant: the refresh after the count is forgotten.
Counted_Stale(v, n) == [voucher EXCEPT ![v].used = IF @ + n < 0 THEN 0 ELSE @ + n]

\* Mutant: a count below zero is stored.
Counted_BelowZero(v, n) ==
    [voucher EXCEPT ![v] = Refreshed([@ EXCEPT !.used = @ + n])]

\* incrementUsage and decrementUsage, for n = 1 and n = -1.
Counted(v, n) ==
    LET row == voucher[v]
        used == IF row.used + n < 0 THEN 0 ELSE row.used + n
    IN  [voucher EXCEPT ![v] = Refreshed([row EXCEPT !.used = used])]

IncrementUsage(v) ==
    /\ Exists(v)
    /\ voucher[v].used < MaxUsed
    /\ voucher' = Counted(v, 1)

DecrementUsage(v) == Exists(v) /\ voucher' = Counted(v, -1)

NewDay == today < MaxDay /\ today' = today + 1 /\ UNCHANGED voucher

Next ==
    \/ \E v \in VoucherId, code \in Code :
          UpdateCode(v, code) \/ \E dto \in Dto : Create(v, code, dto)
    \/ \E v \in VoucherId, dto \in Dto, f \in Field : UpdateField(v, dto, f)
    \/ \E v \in VoucherId : FindOne(v)
    \/ \E v \in VoucherId : (IncrementUsage(v) \/ DecrementUsage(v)) /\ UNCHANGED today
    \/ \E filter \in SUBSET BOOLEAN : FindAll(filter)
    \/ NewDay

Spec == Init /\ [][Next]_voucherVars

-----------------------------------------------------------------------------

\* The stored flag lags in one direction only: a row that says inactive is
\* unusable, so the filter of findAll on active vouchers, which compares the
\* stored flag, cannot hide one that could still be used.
NoUsableIsHidden ==
    \A v \in VoucherId : Exists(v) /\ Usable(voucher[v], today) => voucher[v].active

=============================================================================
