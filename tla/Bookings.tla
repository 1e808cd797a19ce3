------------------------------ MODULE Bookings ------------------------------
(***************************************************************************)
(* TicketBills.tla and ServiceBills.tla side by side.  They share no state *)
(* that their properties are about, so every history belongs to one of     *)
(* them.                                                                   *)
(***************************************************************************)
EXTENDS TicketBills

CONSTANTS
    UnitPrice, MaxRooms, ServiceDiscount, ServicePoints, StartLocked,
    Nobody,             \* no bill
    MaxUsed, MaxServiceCalls, MaxFails

\* Numbers of rows and of everything that is counted.
ASSUME ServiceAssumption ==
    /\ BillId \subseteq Nat /\ Nobody \notin BillId
    /\ UnitPrice \in Nat /\ MaxRooms \in Nat /\ ServiceDiscount \in Nat /\ ServicePoints \in Nat

VARIABLES
    scope,              \* the module this history is of
    service, balance, redeemed, wallet, served, serviceCalls, fails

Services == INSTANCE ServiceBills WITH
    BillId <- BillId, UnitPrice <- UnitPrice, MaxRooms <- MaxRooms, Discount <- ServiceDiscount,
    Limit <- Limit, StartPoints <- ServicePoints, StartLocked <- StartLocked, Nobody <- Nobody,
    MaxUsed <- MaxUsed, MaxCalls <- MaxServiceCalls, MaxFails <- MaxFails,
    bill <- service, points <- balance, used <- redeemed, wallet <- wallet,
    request <- served, calls <- serviceCalls, fails <- fails

servicesVars == <<service, balance, redeemed, wallet, served, serviceCalls, fails>>

BookingsInit == scope \in {"tickets", "services"} /\ Init /\ Services!Init

BookingsNext ==
    /\ UNCHANGED scope
    /\ \/ scope = "tickets" /\ Next /\ UNCHANGED servicesVars
       \/ scope = "services" /\ Services!Next /\ UNCHANGED ticketVars

BookingsSpec ==
    BookingsInit /\ [][BookingsNext]_<<scope, ticketVars, servicesVars>> /\ Services!Fairness

-----------------------------------------------------------------------------
\* The types of both modules.
BookingsTypeOK == TypeOK /\ Services!TypeOK

\* A bill in use has counted its voucher: see ServiceBills.tla.
VoucherCounted == Services!VoucherCounted

\* Hotels, deliveries and restaurants keep the lifecycle: see ServiceBills.tla.
ImplementsLifecycle == Services!ImplementsLifecycle

=============================================================================
