------------------------------ MODULE Feedback ------------------------------
(***************************************************************************)
(* feedback.service.ts: reviews of destinations, routes and partners, and  *)
(* the averages the reviewed rows store.  create and remove write the      *)
(* review first and then, one await after the other, count the reviews of  *)
(* each target and save its row.                                           *)
(***************************************************************************)
EXTENDS Integers, FiniteSets, FiniteSetsExt

CONSTANTS
    ReviewId,       \* feedbacks.id
    User,
    Destination, Route, Cooperation,    \* what can be reviewed
    Asked,          \* sets of targets that clients name
    Nobody,         \* author whose account is deleted, no review or target
    Star,           \* 1..5, or fewer
    Worker          \* requests served at a time

VARIABLES
    review,     \* feedbacks
    rating,     \* the rating column of each target, in hundredths
    total,      \* destinations.user_ratings_total
    alive,      \* the targets and users that exist
    request,    \* what each request has still to do
    torn        \* history: targets that lost or got a review, or whose columns
                \* were written, with no count of theirs since

feedbackVars == <<review, rating, total, alive, request, torn>>

Target == Destination \cup Route \cup Cooperation

NoReview == [author |-> Nobody, about |-> {}, star |-> 0]
Idle == [pc |-> "idle", todo |-> {}, target |-> Nobody, count |-> 0, sum |-> 0]

TypeOK ==
    /\ review \in [ReviewId -> [author : User \cup {Nobody}, about : SUBSET Target,
                                star : Star \cup {0}]]
    /\ rating \in [Target -> 0..500]
    /\ total \in [Destination -> Nat]
    /\ alive \subseteq Target \cup User
    /\ \A w \in Worker :
          /\ request[w].pc \in {"idle", "count", "save"}
          /\ request[w].todo \subseteq Target
          /\ request[w].pc = "save" => request[w].target \in Target
    /\ torn \subseteq Target

Init ==
    /\ review = [f \in ReviewId |-> NoReview]
    /\ rating = [t \in Target |-> 0]
    /\ total = [d \in Destination |-> 0]
    /\ alive = Target \cup User
    /\ request = [w \in Worker |-> Idle]
    /\ torn = {}

-----------------------------------------------------------------------------

Written(f) == review[f].star > 0
Reviews(t) == {f \in ReviewId : Written(f) /\ t \in review[f].about}

\* (sum / count).toFixed(2) in hundredths, 0 without reviews.
Average(count, sum) == IF count = 0 THEN 0 ELSE (200 * sum + count) \div (2 * count)

StarsOf(F) == MapThenSumSet(LAMBDA f : review[f].star, F)

\* assignFeedbackFields looks up what the review names: at most one target
\* of each kind, or none at all.
Nameable == {T \in Asked :
    /\ T \subseteq alive \cap Target
    /\ \A K \in {Destination, Route, Cooperation} : Cardinality(T \cap K) <= 1}

\* The rest of a request: counts of the targets T.
Counting(w, T) ==
    request' = [request EXCEPT ![w] = IF T = {} THEN Idle ELSE [Idle EXCEPT !.pc = "count",
                                                                         !.todo = T]]

Create(w, f, u, T, star) ==
    /\ request[w] = Idle /\ ~Written(f)
    /\ u \in alive /\ T \in Nameable
    /\ review' = [review EXCEPT ![f] = [author |-> u, about |-> T, star |-> star]]
    /\ Counting(w, T)
    /\ UNCHANGED <<rating, total, alive, torn>>

Without(F) == review' = [f \in ReviewId |-> IF f \in F THEN NoReview ELSE review[f]]

\* Mutant: only destinations are counted again.
Remove_DestinationsOnly(w, f) ==
    /\ request[w] = Idle /\ Written(f)
    /\ Without({f})
    /\ Counting(w, review[f].about \cap Destination)
    /\ torn' = torn \cup (review[f].about \cap Cooperation)
    /\ UNCHANGED <<rating, total, alive>>

\* remove loads the review without its partner, whose average is therefore
\* never computed anew.
Remove(w, f) ==
    /\ request[w] = Idle /\ Written(f)
    /\ Without({f})
    /\ Counting(w, review[f].about \ Cooperation)
    /\ torn' = torn \cup (review[f].about \cap Cooperation)
    /\ UNCHANGED <<rating, total, alive>>

\* The aggregation of the recalculation.
Count(w) ==
    \E t \in request[w].todo :
        /\ request[w].pc = "count"
        /\ request' = [request EXCEPT ![w].pc = "save", ![w].target = t,
                          ![w].count = Cardinality(Reviews(t)),
                          ![w].sum = StarsOf(Reviews(t))]
        /\ torn' = torn \ {t}
        /\ UNCHANGED <<review, rating, total, alive>>

\* recalculateDestinationRating, recalculateTravelRouteRating and
\* recalculateCooperationRating load the row of the target, which may be gone
\* by then, and save it.
SaveRating(w) ==
    LET r == request[w]
        t == r.target IN
    /\ r.pc = "save"
    /\ rating' = IF t \in alive THEN [rating EXCEPT ![t] = Average(r.count, r.sum)] ELSE rating
    /\ total' = IF t \in alive \cap Destination THEN [total EXCEPT ![t] = r.count] ELSE total
    /\ Counting(w, r.todo \ {t})
    /\ UNCHANGED <<review, alive, torn>>

\* A failed query or a restart: the review stays, the counts are left out.
Fail(w) ==
    /\ request[w] # Idle
    /\ request' = [request EXCEPT ![w] = Idle]
    /\ torn' = torn \cup request[w].todo
    /\ UNCHANGED <<review, rating, total, alive>>

-----------------------------------------------------------------------------
\* What other services do to the same rows.

\* remove of travel-route.service.ts: the reviews of the route go with it.
RemoveRoute(t) ==
    /\ t \in Route \cap alive
    /\ alive' = alive \ {t}
    /\ Without(Reviews(t))
    /\ torn' = torn \cup UNION {review[f].about : f \in Reviews(t)}
    /\ UNCHANGED <<rating, total, request>>

\* remove of destination.service.ts and cooperation.service.ts: the reviews
\* stay without that target.
RemoveTarget(t) ==
    /\ t \in (Destination \cup Cooperation) \cap alive
    /\ alive' = alive \ {t}
    /\ review' = [f \in ReviewId |-> [review[f] EXCEPT !.about = @ \ {t}]]
    /\ UNCHANGED <<rating, total, request, torn>>

\* remove of user.service.ts.
RemoveAuthor(u) ==
    /\ u \in User \cap alive
    /\ alive' = alive \ {u}
    /\ review' = [f \in ReviewId |->
          IF review[f].author = u THEN [review[f] EXCEPT !.author = Nobody] ELSE review[f]]
    /\ UNCHANGED <<rating, total, request, torn>>

\* update of destination.service.ts takes both columns from the request.
UpdateDestination(d, hundredths, count) ==
    /\ d \in Destination \cap alive
    /\ rating' = [rating EXCEPT ![d] = hundredths]
    /\ total' = [total EXCEPT ![d] = count]
    /\ torn' = torn \cup {d}
    /\ UNCHANGED <<review, alive, request>>

Next ==
    \/ \E w \in Worker, f \in ReviewId :
          \/ Remove(w, f)
          \/ \E u \in User, T \in Nameable, star \in Star : Create(w, f, u, T, star)
    \/ \E w \in Worker : Count(w) \/ SaveRating(w) \/ Fail(w)
    \/ \E t \in alive : RemoveRoute(t) \/ RemoveTarget(t) \/ RemoveAuthor(t)
    \/ \E d \in Destination : UpdateDestination(d, 500, 1)

Spec == Init /\ [][Next]_feedbackVars

-----------------------------------------------------------------------------

\* Served one at a time, create and remove leave every target they touch with
\* the average of its reviews, 0 when the last one went, and destinations with
\* their number; other targets keep theirs.  torn names the exceptions: a
\* partner whose review is removed, the other targets of the reviews that go
\* with a route, what a failing request had not counted yet, and columns an
\* administrator wrote.  The next count of such a target repairs it.
RatingsFollow ==
    \A t \in alive \cap Target :
        (\A w \in Worker : request[w] = Idle) /\ t \notin torn =>
            /\ rating[t] = Average(Cardinality(Reviews(t)), StarsOf(Reviews(t)))
            /\ t \in Destination => total[t] = Cardinality(Reviews(t))

=============================================================================
