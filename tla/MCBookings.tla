----------------------------- MODULE MCBookings -----------------------------
(***************************************************************************)
(* Bookings.tla for TLC.                                                   *)
(***************************************************************************)
EXTENDS Bookings

CONSTANTS fly, jet

\* What callers ask create for: enough that points, the voucher and the
\* status meet.
Offer(s, p, v) ==
    [status |-> s, partner |-> fly, tickets |-> 1, points |-> p, voucher |-> v, total |-> Same]
SomeOffers == {Offer("PENDING", 2, TRUE), Offer("PENDING", 0, FALSE), Offer("COMPLETED", 2, FALSE)}

\* What callers ask update for: each field of a bill on its own, and the
\* pairs that one request can half fail on.
Nothing == [status |-> Same, partner |-> Same, tickets |-> Same, points |-> Same,
            voucher |-> Same, total |-> Same]
SomeAsks ==
    {[Nothing EXCEPT !.status = s] : s \in {"CONFIRMED", "COMPLETED", "CANCELLED"}}
    \cup {[Nothing EXCEPT !.tickets = 2, !.voucher = v] : v \in {Same, TRUE}}
    \cup {[Nothing EXCEPT !.points = p, !.tickets = 1] : p \in {1, 3}}
    \cup {[Nothing EXCEPT !.partner = jet, !.total = 0], [Nothing EXCEPT !.voucher = FALSE]}

=============================================================================
