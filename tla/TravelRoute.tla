---------------------------- MODULE TravelRoute ----------------------------
(***************************************************************************)
(* travel-route.service.ts: routes of users with their stops, the public   *)
(* clones of finished ones and the copies others make of those.  The       *)
(* statuses follow the calendar: every request that reads a route first    *)
(* recomputes them in a transaction (updateRouteAggregates) and a request  *)
(* that changes a route ends with the same.                                *)
(*                                                                         *)
(* A day has three times of day, now counts them from day 0.  Points are   *)
(* counted in visits of 5000.                                              *)
(***************************************************************************)
EXTENDS Integers, FiniteSets

CONSTANTS
    RouteId,        \* travel_routes.id, given in ascending order
    User, Nobody,   \* owners; Nobody when the account is deleted
    Place, NoPlace, \* destinations
    Hours,          \* opening and closing time of each place
    Dto,            \* sets of stops that clients ask for
    Trip,           \* pairs of a first and a last date that clients ask for
    Window,         \* pairs of a start and an end that they ask for a stop
    MaxStops,       \* bound on the stops of a route
    MaxDay,         \* bound on the calendar
    MaxCalls,       \* bound on the requests that change routes
    Overlap         \* whether requests come while a read recomputes a route

\* Nobody owns no route and is no route; there are finitely many users, and a
\* route has finitely many stops.
ASSUME RoutesAssumption ==
    /\ Nobody \notin RouteId \cup User
    /\ IsFiniteSet(User) /\ MaxStops \in Nat

VARIABLES
    route,      \* travel_routes with their route_stops
    favorite,   \* users.favoriteTravelRouteIds
    now,
    reading,    \* a read between its query and its save
    stuck,      \* routes whose row stays locked for ever
    gone,       \* deleted accounts
    calls

routeVars == <<route, favorite, now, reading, stuck, gone, calls>>

Slot == 0..2
NoEnd == 3      \* a stop without endTime lasts until 23:59
Day == 0..MaxDay
NoDate == MaxDay + 1
StopId == 1..MaxStops
Status == {"none", "draft", "upcoming", "in_progress", "completed", "missed"}

\* RouteStop; day 0 marks an unused id, status "none" is NULL.
StopRow == [day : 0..MaxDay + 1, seq : Nat, start : Slot, end : Slot \cup {NoEnd},
            place : Place \cup {NoPlace}, status : Status \ {"draft"}]
NoStop == [day |-> 0, seq |-> 0, start |-> 0, end |-> NoEnd, place |-> NoPlace,
           status |-> "none"]

\* TravelRoute; life tells unused ids, rows and deleted rows apart, from is
\* the route it was cloned from.
RouteRow == [life : {"new", "row", "deleted"}, owner : User \cup {Nobody}, start : Day \cup {NoDate},
             end : Day \cup {NoDate}, status : Status, public : BOOLEAN,
             edited : BOOLEAN, visits : 0..MaxStops, from : RouteId \cup {Nobody},
             favourites : 0..Cardinality(User), stops : [StopId -> StopRow]]
NoRoute == [life |-> "new", owner |-> Nobody, start |-> NoDate, end |-> NoDate,
            status |-> "none", public |-> FALSE, edited |-> FALSE, visits |-> 0,
            from |-> Nobody, favourites |-> 0, stops |-> [i \in StopId |-> NoStop]]

NoRead == [id |-> Nobody, row |-> NoRoute]

TypeOK ==
    /\ route \in [RouteId -> RouteRow]
    /\ favorite \in [User -> SUBSET RouteId]
    /\ now \in 0..3 * MaxDay + 2
    /\ reading.id \in RouteId \cup {Nobody} /\ reading.row \in RouteRow
    /\ stuck \subseteq RouteId /\ gone \subseteq User
    /\ calls \in 0..MaxCalls

Init ==
    /\ route = [r \in RouteId |-> NoRoute]
    /\ favorite = [u \in User |-> {}]
    /\ now = 0
    /\ reading = NoRead
    /\ stuck = {} /\ gone = {}
    /\ calls = 0

-----------------------------------------------------------------------------
\* Statuses.

Today == now \div 3
Stops(row) == {i \in StopId : row.stops[i].day > 0}
Visited(row) == {i \in Stops(row) : row.stops[i].status = "completed"}

\* computeStopBaseDate, buildDateWithTime.
Begins(start, x) == 3 * (start + x.day - 1) + x.start
Ends(start, x) == 3 * (start + x.day - 1) + IF x.end = NoEnd THEN 2 ELSE x.end

\* determineStopStatus for a route that starts on day start.
StatusFor(start, x) ==
    IF start = NoDate \/ now < Begins(start, x) THEN "upcoming"
    ELSE IF now <= Ends(start, x) THEN "in_progress" ELSE "missed"

\* resolveStopStatusBySchedule: without a date only NULL is replaced.
Scheduled(row, x) ==
    IF row.start = NoDate /\ x.status # "none" THEN x.status ELSE StatusFor(row.start, x)

\* Mutant: a visit is rescheduled as well.
Rescheduled_Visits(row) ==
    [i \in StopId |->
        IF i \in Stops(row)
        THEN [row.stops[i] EXCEPT !.status = Scheduled(row, row.stops[i])] ELSE NoStop]

\* The stops after the loop of updateRouteAggregates: a completed stop stays
\* completed.
Rescheduled(row) ==
    [i \in StopId |->
        IF i \in Stops(row) \ Visited(row)
        THEN [row.stops[i] EXCEPT !.status = Scheduled(row, row.stops[i])] ELSE row.stops[i]]

\* calculateDurationDays; 0 stands for undefined.
Days(start, end) ==
    IF start = NoDate \/ end = NoDate \/ end < start THEN 0 ELSE end - start + 1

Before(x, y) == x.start < y.start \/ (x.start = y.start /\ x.seq < y.seq)

\* ensureSequentialStopCoverage throws unless the stops of each day of the
\* route follow one another.
Sequential(row) ==
    \A i, j \in Stops(row) :
        /\ row.stops[i].day = row.stops[j].day
        /\ row.stops[i].day <= Days(row.start, row.end)
        /\ Before(row.stops[i], row.stops[j])
        => (IF row.stops[i].end = NoEnd THEN row.stops[i].start ELSE row.stops[i].end)
              <= row.stops[j].start

\* The status updateRouteAggregates gives a route whose stops are current.
RouteStatus(row) ==
    IF row.from # Nobody /\ row.start = NoDate THEN "draft"
    ELSE IF Stops(row) # {} /\ Visited(row) = Stops(row) THEN "completed"
    ELSE IF (row.end # NoDate /\ Today > row.end)
            \/ \E i \in Stops(row) : row.stops[i].status = "missed" THEN "missed"
    ELSE IF row.start = NoDate THEN "draft"
    ELSE IF Today < row.start THEN "upcoming" ELSE "in_progress"

\* updateRouteAggregates: the row it leaves.  The points are never added to
\* the balance of the user, because the query does not load the user.
Aggregated(row) ==
    LET current == [row EXCEPT !.stops = Rescheduled(row)]
    IN  [current EXCEPT !.visits = Cardinality(Visited(current)),
                        !.status = RouteStatus(current)]

-----------------------------------------------------------------------------
\* Requests.

Known(r) == route[r].life = "row"
New(r) == route[r].life = "new" /\ \A q \in RouteId : q < r => route[q].life # "new"

\* A request that changes the route r, or creates it.
Call(r) ==
    /\ Overlap \/ reading = NoRead
    /\ calls < MaxCalls /\ calls' = calls + 1
    /\ r \notin stuck
    /\ UNCHANGED <<now, reading, gone>>

Becomes(r, row) == route' = [route EXCEPT ![r] = row]

\* The transaction ends with updateRouteAggregates, which may refuse it.
Settles(r, row) ==
    /\ Sequential([row EXCEPT !.stops = Rescheduled(row)])
    /\ Becomes(r, Aggregated(row))
    /\ UNCHANGED <<favorite, stuck>>

\* assignRouteFields accepts the dates it is given; NoDate is none.
DatesAllowed(start, end) ==
    /\ start # NoDate => start >= Today
    /\ start # NoDate /\ end # NoDate => start <= end

Create(r, u, start, end) ==
    /\ Call(r) /\ New(r)
    /\ DatesAllowed(start, end)
    /\ Settles(r, [NoRoute EXCEPT !.life = "row", !.owner = u, !.start = start, !.end = end,
                                  !.status = "upcoming"])

\* validateStopTimeWindow.
InHours(place, start, end) ==
    /\ end # NoEnd => start < end
    /\ place # NoPlace =>
          /\ Hours[place][1] <= start /\ start <= Hours[place][2]
          /\ end # NoEnd => end <= Hours[place][2]

\* prepareStops accepts D for a route of the days start to end: every stop
\* lies in the future, within the route and the opening hours, and on each
\* day they follow one another and only the last one has no end.
Prepares(D, start, end) ==
    /\ Days(start, end) > 0
    /\ \A x \in D :
          /\ x.day <= Days(start, end)
          /\ Begins(start, x) > now
          /\ InHours(x.place, x.start, x.end)
    /\ \A x, y \in D : x.day = y.day /\ Before(x, y) => x.end <= y.start

\* The rows of D under the ids I.
AsRows(D, I, status) ==
    LET id == CHOOSE f \in [D -> I] : \A x, y \in D : f[x] = f[y] => x = y
    IN  [i \in I |-> IF \E x \in D : id[x] = i
                     THEN LET x == CHOOSE x \in D : id[x] = i IN
                          [day |-> x.day, seq |-> x.seq, start |-> x.start, end |-> x.end,
                           place |-> x.place, status |-> status]
                     ELSE NoStop]

\* resequenceStops numbers the stops of each day by their start.
Resequenced(stops) ==
    [i \in StopId |->
        IF stops[i].day = 0 THEN NoStop
        ELSE [stops[i] EXCEPT !.seq = 1 + Cardinality({j \in StopId \ {i} :
                 /\ stops[j].day = stops[i].day
                 /\ Before(stops[j], stops[i])
                    \/ (~Before(stops[i], stops[j]) /\ j < i)})]]

AddStops(r, D) ==
    LET free == StopId \ Stops(route[r])
        rows == AsRows(D, free, "upcoming") IN
    /\ Call(r) /\ Known(r)
    /\ D # {} /\ Cardinality(D) <= Cardinality(free)
    /\ Prepares(D, route[r].start, route[r].end)
    /\ Settles(r, [route[r] EXCEPT !.edited = TRUE,
                      !.stops = Resequenced([i \in StopId |->
                          IF i \in free THEN rows[i] ELSE route[r].stops[i]])])

\* update ends with findOne before its transaction commits: findOne works
\* on another connection and on the old rows.  When it has something to
\* save in a row that the transaction has written, it waits for the
\* transaction that waits for it.
Waits(old, new) ==
    LET fresh == Aggregated(old)
        Columns(x) == [x EXCEPT !.stops = NoRoute.stops] IN
    \/ \E i \in Stops(old) : new.stops[i] # old.stops[i] /\ fresh.stops[i] # old.stops[i]
    \/ Sequential(fresh) /\ Columns(new) # Columns(old) /\ Columns(fresh) # Columns(old)

\* What both leave when neither waits for the other.
Merged(old, new) ==
    LET fresh == Aggregated(old) IN
    [f \in DOMAIN old |->
        IF f = "stops"
        THEN [i \in StopId |->
                 IF new.stops[i] # old.stops[i] THEN new.stops[i] ELSE fresh.stops[i]]
        ELSE IF new[f] # old[f] THEN new[f] ELSE fresh[f]]

\* update is about to commit the row new.
Updates(r, new) ==
    IF Waits(route[r], new)
    THEN stuck' = stuck \cup {r} /\ UNCHANGED <<route, favorite>>
    ELSE /\ Sequential(Aggregated(route[r]))
         /\ Becomes(r, Merged(route[r], new))
         /\ UNCHANGED <<favorite, stuck>>

Owned(r, u) == Known(r) /\ route[r].owner = u

\* A date the request does not name keeps its column.
Dated(row, start, end) ==
    [row EXCEPT !.start = IF start = NoDate THEN @ ELSE start,
                !.end = IF end = NoDate THEN @ ELSE end,
                !.edited = TRUE]

UpdateDates(r, u, start, end) ==
    /\ Call(r) /\ Owned(r, u)
    /\ start # NoDate \/ end # NoDate => route[r].status = "upcoming"
    /\ DatesAllowed(start, end)
    /\ Updates(r, Dated(route[r], start, end))

\* update with stops: none, or new ones together with both dates, because
\* prepareStops sees the dates of the request only.  New rows get new ids.
ReplaceStops(r, u, start, end, D) ==
    LET free == StopId \ Stops(route[r])
        rows == AsRows(D, free, "upcoming")
        new == [Dated(route[r], start, end) EXCEPT
                   !.stops = [i \in StopId |-> IF i \in free THEN rows[i] ELSE NoStop]] IN
    /\ Call(r) /\ Owned(r, u)
    /\ Cardinality(D) <= Cardinality(free)
    /\ start # NoDate \/ end # NoDate => route[r].status = "upcoming"
    /\ DatesAllowed(start, end)
    /\ D # {} => Prepares(D, start, end)
    /\ Sequential([new EXCEPT !.stops = Rescheduled(new)])
    /\ Updates(r, Aggregated(new))

\* Clones of the route lose their origin.
Remove(r) ==
    /\ Call(r) /\ Known(r)
    /\ route' = [x \in RouteId |->
          IF x = r THEN [NoRoute EXCEPT !.life = "deleted"]
          ELSE IF route[x].from = r THEN [route[x] EXCEPT !.from = Nobody] ELSE route[x]]
    /\ UNCHANGED <<favorite, stuck>>

WithStop(r, i, x) == [route[r] EXCEPT !.edited = TRUE, !.stops[i] = x]

UpdateStopTime(r, i, start, end) ==
    LET x == route[r].stops[i] IN
    /\ Call(r) /\ Known(r) /\ i \in Stops(route[r])
    /\ x.status \in {"none", "upcoming"}
    /\ end = NoEnd => x.end = NoEnd
    /\ InHours(x.place, start, end)
    /\ Settles(r, WithStop(r, i, [x EXCEPT !.start = start, !.end = end]))

UpdateStopDetails(r, i, place) ==
    LET x == route[r].stops[i] IN
    /\ Call(r) /\ Known(r) /\ i \in Stops(route[r])
    /\ x.status # "completed"
    /\ InHours(place, x.start, x.end)
    /\ Settles(r, WithStop(r, i, [x EXCEPT !.place = place]))

\* reorderStop: the stop i moves to place n of its day; the times stay with
\* the places.
ReorderStop(r, i, n) ==
    LET row == route[r]
        day == {j \in Stops(row) : row.stops[j].day = row.stops[i].day}
        At(j) == 1 + Cardinality({k \in day : row.stops[k].seq < row.stops[j].seq})
        to == IF n > Cardinality(day) THEN Cardinality(day) ELSE n
        To(j) == IF j = i THEN to
                  ELSE IF At(j) > At(i) /\ At(j) <= to THEN At(j) - 1
                  ELSE IF At(j) < At(i) /\ At(j) >= to THEN At(j) + 1 ELSE At(j)
        Moved(j) == LET t == row.stops[CHOOSE k \in day : At(k) = To(j)] IN
                    [row.stops[j] EXCEPT !.seq = To(j), !.start = t.start, !.end = t.end] IN
    /\ Call(r) /\ Known(r) /\ i \in Stops(row)
    /\ row.status \notin {"in_progress", "completed", "missed"}
    /\ \A j, k \in day : row.stops[j].seq = row.stops[k].seq => j = k
    /\ Settles(r, [row EXCEPT !.edited = TRUE,
                      !.stops = [j \in StopId |-> IF j \in day THEN Moved(j) ELSE row.stops[j]]])

RemoveStop(r, i) ==
    LET row == route[r] IN
    /\ Call(r) /\ Known(r) /\ i \in Stops(row)
    /\ Settles(r, [row EXCEPT !.edited = TRUE,
          !.stops = [j \in StopId |->
              IF j = i THEN NoStop
              ELSE IF row.stops[j].day = row.stops[i].day
              THEN [row.stops[j] EXCEPT !.seq = 1 + Cardinality({k \in Stops(row) \ {i, j} :
                       /\ row.stops[k].day = row.stops[j].day
                       /\ \/ row.stops[k].seq < row.stops[j].seq
                          \/ row.stops[k].seq = row.stops[j].seq /\ k < j})]
              ELSE row.stops[j]]])

\* uploadStopMedia and deleteStopMedia change files, which are left out, and
\* mark the route as edited.
EditMedia(r, i) ==
    /\ Call(r) /\ Known(r) /\ i \in Stops(route[r])
    /\ Becomes(r, [route[r] EXCEPT !.edited = TRUE])
    /\ UNCHANGED <<favorite, stuck>>

\* Mutant: the aggregates are left to the next read.
CheckInStop_NoAggregates(r, i) ==
    /\ Call(r) /\ Known(r) /\ i \in Stops(route[r])
    /\ route[r].stops[i].place # NoPlace
    /\ Becomes(r, [route[r] EXCEPT !.stops[i].status = "completed"])
    /\ UNCHANGED <<favorite, stuck>>

\* checkInStop: a client whose position is close enough to the destination,
\* at any time, for a missed stop as well.
CheckInStop(r, i) ==
    /\ Call(r) /\ Known(r) /\ i \in Stops(route[r])
    /\ route[r].stops[i].place # NoPlace
    /\ Settles(r, [route[r] EXCEPT !.stops[i].status = "completed"])

\* cloneRoute: the public version.  The statuses start as NULL and are
\* computed like those of any route before the transaction ends.
CloneRoute(source, r) ==
    /\ New(r)
    /\ Settles(r, [route[source] EXCEPT !.public = TRUE, !.edited = FALSE, !.visits = 0,
                      !.status = "none", !.from = source, !.favourites = 0,
                      !.stops = [i \in StopId |->
                          [route[source].stops[i] EXCEPT !.status = "none"]]])

PublicizeRoute(source, r, u) ==
    /\ Call(r) /\ Owned(source, u)
    /\ route[source].status = "completed" /\ route[source].edited
    /\ CloneRoute(source, r)

CopiesOf(source, u) ==
    {r \in RouteId : Known(r) /\ route[r].owner = u /\ route[r].from = source
                     /\ ~route[r].public}

\* The personal copy: the dates are taken as they come.
PersonalCopy(source, u, start, end) ==
    [route[source] EXCEPT !.owner = u, !.public = FALSE, !.edited = FALSE, !.visits = 0,
                          !.start = start, !.end = end, !.status = "upcoming",
                          !.from = source, !.favourites = 0,
                          !.stops = [i \in StopId |->
                              IF i \in Stops(route[source])
                              THEN [route[source].stops[i] EXCEPT
                                       !.status = StatusFor(start, route[source].stops[i])]
                              ELSE NoStop]]

\* Mutant: every use makes a new copy.
UseClone_Again(source, r, u, start, end) ==
    /\ Call(r) /\ Known(source) /\ route[source].public
    /\ New(r)
    /\ Settles(r, PersonalCopy(source, u, start, end))

\* useClone; who has a copy gets that one back, unless it is saved by a
\* request that overlaps, after this one has looked for it.
UseClone(source, r, u, start, end) ==
    /\ Call(r) /\ Known(source) /\ route[source].public
    /\ Overlap \/ CopiesOf(source, u) = {}
    /\ New(r)
    /\ Settles(r, PersonalCopy(source, u, start, end))

\* claimSuggestedRoute saves what the client sends without any of the checks
\* of addStops and leaves the statuses to the next read.
ClaimSuggestedRoute(r, u, start, end, D) ==
    /\ Call(r) /\ New(r)
    /\ Cardinality(D) <= MaxStops
    /\ Becomes(r, [NoRoute EXCEPT !.life = "row", !.owner = u, !.start = start, !.end = end,
                      !.status = "draft", !.edited = TRUE,
                      !.stops = AsRows(D, StopId, "upcoming")])
    /\ UNCHANGED <<favorite, stuck>>

Favorite(r, u) ==
    /\ Call(r) /\ Known(r) /\ route[r].public
    /\ r \notin favorite[u]
    /\ favorite' = [favorite EXCEPT ![u] = @ \cup {r}]
    /\ Becomes(r, [route[r] EXCEPT !.favourites = @ + 1])
    /\ UNCHANGED stuck

\* The route may be gone by then.
Unfavorite(r, u) ==
    /\ Call(r) /\ r \in favorite[u]
    /\ favorite' = [favorite EXCEPT ![u] = @ \ {r}]
    /\ Becomes(r, IF Known(r) THEN [route[r] EXCEPT !.favourites = @ - 1] ELSE route[r])
    /\ UNCHANGED stuck

-----------------------------------------------------------------------------
\* findOne, getStopDetail, findRouteDatesByUser: a read queries the route
\* with its stops, computes, and saves what has changed.

ReadLoad(r) ==
    /\ reading = NoRead /\ Known(r)
    /\ Aggregated(route[r]) # route[r]
    /\ reading' = [id |-> r, row |-> route[r]]
    /\ UNCHANGED <<route, favorite, now, stuck, gone, calls>>

\* Each stop that the computation has changed is saved whole, over whatever
\* the row holds by then; an exception undoes the transaction.
ReadSave ==
    LET old == reading.row
        new == Aggregated(old)
        row == route[reading.id]
        Written(i) == IF new.stops[i] # old.stops[i] THEN new.stops[i] ELSE row.stops[i] IN
    /\ reading # NoRead
    /\ reading.id \notin stuck
    /\ Becomes(reading.id,
          IF row.life # "row" \/ ~Sequential(new) THEN row
          ELSE [row EXCEPT !.stops = [i \in StopId |->
                               IF i \in Stops(row) THEN Written(i) ELSE NoStop],
                           !.visits = IF new.visits # old.visits THEN new.visits ELSE @,
                           !.status = IF new.status # old.status THEN new.status ELSE @])
    /\ reading' = NoRead
    /\ UNCHANGED <<favorite, now, stuck, gone, calls>>

\* remove of user.service.ts: the routes stay without an owner.  The
\* favourites go with the account, the counters of the routes do not hear of
\* it: favorite keeps them here, to count with.
RemoveUser(u) ==
    /\ Overlap \/ reading = NoRead
    /\ calls < MaxCalls /\ calls' = calls + 1
    /\ u \notin gone
    /\ gone' = gone \cup {u}
    /\ route' = [r \in RouteId |->
          IF route[r].owner = u THEN [route[r] EXCEPT !.owner = Nobody] ELSE route[r]]
    /\ UNCHANGED <<favorite, now, reading, stuck>>

Tick ==
    /\ Overlap \/ reading = NoRead
    /\ now < 3 * MaxDay + 2
    /\ now' = now + 1
    /\ UNCHANGED <<route, favorite, reading, stuck, gone, calls>>

StopRequest(r, i) ==
    \/ \E w \in Window : UpdateStopTime(r, i, w[1], w[2])
    \/ \E place \in Place : UpdateStopDetails(r, i, place)
    \/ \E n \in StopId : ReorderStop(r, i, n)
    \/ RemoveStop(r, i) \/ EditMedia(r, i) \/ CheckInStop(r, i)

RouteRequest(r, u) ==
    \/ \E t \in Trip :
          \/ Create(r, u, t[1], t[2]) \/ UpdateDates(r, u, t[1], t[2])
          \/ \E D \in Dto : ReplaceStops(r, u, t[1], t[2], D)
                            \/ ClaimSuggestedRoute(r, u, t[1], t[2], D)
          \/ \E source \in RouteId : UseClone(source, r, u, t[1], t[2])
    \/ \E source \in RouteId : PublicizeRoute(source, r, u)
    \/ Favorite(r, u) \/ Unfavorite(r, u)

Next ==
    \/ \E r \in RouteId, u \in User \ gone : RouteRequest(r, u)
    \/ \E r \in RouteId, D \in Dto : AddStops(r, D)
    \/ \E r \in RouteId, i \in StopId : StopRequest(r, i)
    \/ \E r \in RouteId : Remove(r) \/ ReadLoad(r)
    \/ ReadSave
    \/ \E u \in User : RemoveUser(u)
    \/ Tick

Spec == Init /\ [][Next]_routeVars

-----------------------------------------------------------------------------
\* What holds while requests do not overlap (Overlap = FALSE).

\* The points of a route are those of its visited stops, and a route is
\* COMPLETED only when it has stops and all of them are visited: every
\* request that touches stops, whichever way, brings the totals along, also
\* when stops are replaced, removed, added to a finished route or cloned.
VisitsCount ==
    \A r \in RouteId :
        /\ route[r].visits = Cardinality(Visited(route[r]))
        /\ route[r].status = "completed" =>
              Stops(route[r]) # {} /\ Visited(route[r]) = Stops(route[r])

\* "completed is final via check-in": no change of dates, order, times or
\* details and no later read takes a visit back, as long as the stop exists.
CheckInIsFinal ==
    [][\A r \in RouteId : \A i \in Visited(route[r]) :
          i \in Stops(route'[r]) => i \in Visited(route'[r])]_routeVars

\* The counter of a route is the number of users who have it among their
\* favourites, or had when their account was deleted, although both are saved
\* apart and routes are removed.
FavouritesCounted ==
    \A r \in RouteId :
        Known(r) => route[r].favourites = Cardinality({u \in User : r \in favorite[u]})

\* A user has at most one personal copy of a public route.
OneCopy ==
    \A u \in User, source \in RouteId : Cardinality(CopiesOf(source, u)) <= 1

=============================================================================
