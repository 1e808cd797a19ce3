------------------------------ MODULE MCRoutes ------------------------------
(***************************************************************************)
(* TravelRoute.tla for TLC: two users and a museum that opens in the       *)
(* morning and closes at noon.  Histories start before the first route or, *)
(* to be longer, the day before a planned route, one whose first stop has been   *)
(* visited or the public version of one.                                   *)
(***************************************************************************)
EXTENDS TravelRoute, TLC

CONSTANTS museum, owner

MorningHours == [p \in Place |-> <<0, 1>>]

Morning == [day |-> 1, seq |-> 1, start |-> 0, end |-> 1, place |-> museum]
Noon == [day |-> 1, seq |-> 2, start |-> 1, end |-> NoEnd, place |-> museum]
Stroll == [day |-> 1, seq |-> 1, start |-> 0, end |-> 2, place |-> NoPlace]
AskedStops == {{}, {Stroll}, {Noon}, {Morning, Noon}}
AskedTrips == {<<NoDate, NoDate>>, <<1, 1>>}
AskedWindows == {<<0, 2>>, <<0, NoEnd>>}

WithStops(row, D, status) ==
    [row EXCEPT !.stops = AsRows(D, StopId, status)]
Planned ==
    WithStops([NoRoute EXCEPT !.life = "row", !.owner = owner, !.start = 1, !.end = 1,
                              !.status = "upcoming", !.edited = TRUE],
              {Morning, Noon}, "upcoming")
Begun ==
    LET x == CHOOSE i \in Stops(Planned) : Planned.stops[i].seq = 1 IN
    [Planned EXCEPT !.stops[x].status = "completed", !.visits = 1]
\* A clone whose source has been removed.
Public == [Planned EXCEPT !.public = TRUE, !.edited = FALSE]

Prepared ==
    /\ favorite = [u \in User |-> {}]
    /\ now = 0 /\ calls = 0
    /\ reading = NoRead
    /\ stuck = {} /\ gone = {}
    /\ \E first \in {NoRoute, Planned, Begun, Public} :
          route = [r \in RouteId |-> IF r = 1 THEN first ELSE NoRoute]

PreparedSpec == Prepared /\ [][Next]_routeVars
=============================================================================
