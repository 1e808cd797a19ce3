----------------------------- MODULE MCPlatform -----------------------------
(***************************************************************************)
(* Values of Platform.tla for TLC: a user and the administrator, and two   *)
(* events over a calendar of two months.                                   *)
(***************************************************************************)
EXTENDS Platform, TLC

CONSTANTS ann, bob, root, home, office, cell, desk, first, second, trip, ride

Symmetry == Permutations(Vehicle) \cup Permutations(Booking) \cup Permutations(Worker)

SomePeriods == {<<0, 2>>, <<1, 3>>}

\* Later: every contract is approved, and one of them has all the vehicles,
\* which have been approved too.
Listed ==
    /\ scope = "fleet" /\ Auth!Init /\ Daily!Init
    /\ \E c \in Contract :
          /\ contract = [d \in Contract |-> "approved"]
          /\ listed = [d \in Contract |-> IF d = c THEN Cardinality(Vehicle) ELSE 0]
          /\ vehicle = [v \in Vehicle |->
                [contract |-> c, status |-> "approved", availability |-> "available"]]
    /\ maintenance = [v \in Vehicle |-> {}]
    /\ booking = [b \in Booking |-> NoBooking]
    /\ request = Idle /\ work = [w \in Worker |-> NoWork]
    /\ now = 0 /\ calls = Cardinality(Vehicle)
    /\ readmitted = {} /\ strayed = {} /\ torn = {}

ListedSpec ==
    (PlatformInit \/ Listed) /\ [][PlatformNext]_<<scope, fleetVars, accounts, reminders>>

SomeUsers == {ann, root}
SomeEmails == {home, office}
SomePhones == {cell, desk}
SomePasswords == {first, second}

SomeEvents == {trip, ride}
SomePlanners == {ann, bob}
SomeKinds == trip :> "route" @@ ride :> "restaurant"
SomeOwners == trip :> ann @@ ride :> bob
SomeMonths == <<3, 2>>

=============================================================================
