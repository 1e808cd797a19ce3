--------------------------- MODULE BookingsProofs ---------------------------
(***************************************************************************)
(* Theorems of TicketBills.tla and ServiceBills.tla, for every number of   *)
(* bills and partners and every series of requests that may stop between   *)
(* any two commits.                                                        *)
(*                                                                         *)
(* SeatsMatch, NoPointsLost and RevenueExact look at what the tables hold; *)
(* none of them is inductive, because a request under way owes the tables  *)
(* what it has still to write.  TicketInv says what a request may owe at   *)
(* each of its commits (the sequences below are all there are), PointsInv  *)
(* what the user will have when it is through, RevenueInv by how much a    *)
(* partner's figures are behind or ahead meanwhile.                        *)
(*                                                                         *)
(* The requests of hotels, deliveries and restaurants save a status they   *)
(* decided on before: ServiceInv says that the bill is still where they    *)
(* found it, which is what makes every save a step of BillLifecycle.tla,   *)
(* and VoucherInv that a payment has counted its voucher by then.          *)
(***************************************************************************)
EXTENDS Bookings, SumTheorems, SequenceTheorems, TLAPS

BillRow ==
    [status : Status, partner : Partner, tickets : Nat, total : Nat, points : Nat,
     refunded : BOOLEAN, voucher : BOOLEAN]

-----------------------------------------------------------------------------
\* Where a request stands after the save, by what it has still to write:
\* the bill counts from now on, or no longer, or is going to be removed.
Entering ==
    {<<"count">>, <<"count", "redeem">>, <<"count", "retake", "unflag">>,
     <<"count", "redeem", "retake", "unflag">>}
Entered == {<<"redeem">>, <<"redeem", "retake", "unflag">>, <<"retake", "unflag">>, <<"unflag">>}
Left == {<<"uncount">>, <<"uncount", "refund", "flag">>}
Refunding == {<<"refund", "flag">>, <<"flag">>}
Removing == {<<"uncount", "refund", "flag", "delete">>, <<"uncount", "delete">>}
Removed == {<<"refund", "flag", "delete">>, <<"flag", "delete">>, <<"delete">>}

Settling == Entering \cup Entered \cup Left \cup Refunding \cup Removing \cup Removed

\* Those in which points go back to the user, or are taken again.
GivesBack ==
    {<<"uncount", "refund", "flag">>, <<"refund", "flag">>, <<"flag">>,
     <<"uncount", "refund", "flag", "delete">>, <<"refund", "flag", "delete">>, <<"flag", "delete">>}
TakesAgain ==
    {<<"count", "retake", "unflag">>, <<"count", "redeem", "retake", "unflag">>,
     <<"redeem", "retake", "unflag">>, <<"retake", "unflag">>, <<"unflag">>}

\* The points are back, and the row does not say so yet.
Flagging == {<<"flag">>, <<"flag", "delete">>}

\* Short sequences put together.
LEMMA Join11 ==
    ASSUME NEW a, NEW b
    PROVE  <<a>> \o <<b>> = <<a, b>>
    <1> DEFINE S == {a, b}
    <1>1. <<a>> \in Seq(S) /\ <<b>> \in Seq(S) /\ <<a, b>> \in Seq(S)
        OBVIOUS
    <1>2. Len(<<a>>) = 1 /\ Len(<<b>>) = 1 /\ Len(<<a, b>>) = 2
        OBVIOUS
    <1>3. /\ <<a>> \o <<b>> \in Seq(S) /\ Len(<<a>> \o <<b>>) = 2
          /\ \A i \in 1 .. 2 : (<<a>> \o <<b>>)[i] = <<a, b>>[i]
        BY <1>1, <1>2, ConcatProperties
    <1>4. QED
        BY <1>1, <1>2, <1>3, SeqEqual

\* One element before two.
LEMMA Join12 ==
    ASSUME NEW a, NEW b, NEW c
    PROVE  <<a>> \o <<b, c>> = <<a, b, c>>
    <1> DEFINE S == {a, b, c}
    <1>1. <<a>> \in Seq(S) /\ <<b, c>> \in Seq(S) /\ <<a, b, c>> \in Seq(S)
        OBVIOUS
    <1>2. Len(<<a>>) = 1 /\ Len(<<b, c>>) = 2 /\ Len(<<a, b, c>>) = 3
        OBVIOUS
    <1>3. /\ <<a>> \o <<b, c>> \in Seq(S) /\ Len(<<a>> \o <<b, c>>) = 3
          /\ \A i \in 1 .. 3 : (<<a>> \o <<b, c>>)[i] = <<a, b, c>>[i]
        BY <1>1, <1>2, ConcatProperties
    <1>4. QED
        BY <1>1, <1>2, <1>3, SeqEqual

\* Two elements before one.
LEMMA Join21 ==
    ASSUME NEW a, NEW b, NEW c
    PROVE  <<a, b>> \o <<c>> = <<a, b, c>>
    <1> DEFINE S == {a, b, c}
    <1>1. <<a, b>> \in Seq(S) /\ <<c>> \in Seq(S) /\ <<a, b, c>> \in Seq(S)
        OBVIOUS
    <1>2. Len(<<a, b>>) = 2 /\ Len(<<c>>) = 1 /\ Len(<<a, b, c>>) = 3
        OBVIOUS
    <1>3. /\ <<a, b>> \o <<c>> \in Seq(S) /\ Len(<<a, b>> \o <<c>>) = 3
          /\ \A i \in 1 .. 3 : (<<a, b>> \o <<c>>)[i] = <<a, b, c>>[i]
        BY <1>1, <1>2, ConcatProperties
    <1>4. QED
        BY <1>1, <1>2, <1>3, SeqEqual

\* Two elements before two.
LEMMA Join22 ==
    ASSUME NEW a, NEW b, NEW c, NEW d
    PROVE  <<a, b>> \o <<c, d>> = <<a, b, c, d>>
    <1> DEFINE S == {a, b, c, d}
    <1>1. <<a, b>> \in Seq(S) /\ <<c, d>> \in Seq(S) /\ <<a, b, c, d>> \in Seq(S)
        OBVIOUS
    <1>2. Len(<<a, b>>) = 2 /\ Len(<<c, d>>) = 2 /\ Len(<<a, b, c, d>>) = 4
        OBVIOUS
    <1>3. /\ <<a, b>> \o <<c, d>> \in Seq(S) /\ Len(<<a, b>> \o <<c, d>>) = 4
          /\ \A i \in 1 .. 4 : (<<a, b>> \o <<c, d>>)[i] = <<a, b, c, d>>[i]
        BY <1>1, <1>2, ConcatProperties
    <1>4. QED
        BY <1>1, <1>2, <1>3, SeqEqual

\* Three elements before one.
LEMMA Join31 ==
    ASSUME NEW a, NEW b, NEW c, NEW d
    PROVE  <<a, b, c>> \o <<d>> = <<a, b, c, d>>
    <1> DEFINE S == {a, b, c, d}
    <1>1. <<a, b, c>> \in Seq(S) /\ <<d>> \in Seq(S) /\ <<a, b, c, d>> \in Seq(S)
        OBVIOUS
    <1>2. Len(<<a, b, c>>) = 3 /\ Len(<<d>>) = 1 /\ Len(<<a, b, c, d>>) = 4
        OBVIOUS
    <1>3. /\ <<a, b, c>> \o <<d>> \in Seq(S) /\ Len(<<a, b, c>> \o <<d>>) = 4
          /\ \A i \in 1 .. 4 : (<<a, b, c>> \o <<d>>)[i] = <<a, b, c, d>>[i]
        BY <1>1, <1>2, ConcatProperties
    <1>4. QED
        BY <1>1, <1>2, <1>3, SeqEqual

\* What each step of a settling request leaves to be done.
TodoSteps(todo) ==
    /\ Head(todo) = "count" =>
          /\ todo \in Entering /\ Tail(todo) \in {<<>>} \cup Entered /\ Tail(todo) # <<"unflag">>
          /\ Tail(todo) \in TakesAgain => todo \in TakesAgain
    /\ Head(todo) = "redeem" =>
          /\ todo \in Entered /\ todo # <<"unflag">> /\ Tail(todo) \in {<<>>, <<"retake", "unflag">>}
          /\ Tail(todo) \in TakesAgain => todo \in TakesAgain
    /\ Head(todo) = "retake" => todo = <<"retake", "unflag">> /\ Tail(todo) = <<"unflag">>
    /\ Head(todo) = "unflag" => todo = <<"unflag">> /\ Tail(todo) = <<>>
    /\ Head(todo) = "uncount" =>
          \/ todo \in Left /\ Tail(todo) = <<>>
          \/ todo \in Left /\ todo \in GivesBack /\ Tail(todo) = <<"refund", "flag">>
          \/ todo = <<"uncount", "delete">> /\ Tail(todo) = <<"delete">>
          \/ todo \in Removing /\ todo \in GivesBack /\ Tail(todo) = <<"refund", "flag", "delete">>
    /\ Head(todo) = "refund" =>
          \/ todo = <<"refund", "flag">> /\ Tail(todo) = <<"flag">>
          \/ todo = <<"refund", "flag", "delete">> /\ Tail(todo) = <<"flag", "delete">>
    /\ Head(todo) = "flag" =>
          \/ todo = <<"flag">> /\ Tail(todo) = <<>>
          \/ todo = <<"flag", "delete">> /\ Tail(todo) = <<"delete">>
    /\ Head(todo) = "delete" => todo = <<"delete">> /\ Tail(todo) = <<>>
    /\ Head(todo) \notin {"save", "reprice"}

\* What remains of a todo after each of its commits.
LEMMA NextTodo == \A todo \in Settling : todo # <<>> /\ TodoSteps(todo)
    <1> SUFFICES ASSUME NEW todo \in Settling PROVE todo # <<>> /\ TodoSteps(todo)
        OBVIOUS
    <1>1. CASE todo = <<"count">>
        <2>1. Head(todo) = "count" /\ Tail(todo) = <<>>
            BY <1>1
        <2>2. QED
            BY <1>1, <2>1 DEF TodoSteps, Entering, Entered, TakesAgain
    <1>2. CASE todo = <<"count", "redeem">>
        <2>1. Head(todo) = "count" /\ Tail(todo) = <<"redeem">>
            BY <1>2
        <2>2. QED
            BY <1>2, <2>1 DEF TodoSteps, Entering, Entered, TakesAgain
    <1>3. CASE todo = <<"count", "retake", "unflag">>
        <2>1. Head(todo) = "count" /\ Tail(todo) = <<"retake", "unflag">>
            BY <1>3
        <2>2. QED
            BY <1>3, <2>1 DEF TodoSteps, Entering, Entered, TakesAgain
    <1>4. CASE todo = <<"count", "redeem", "retake", "unflag">>
        <2>1. Head(todo) = "count" /\ Tail(todo) = <<"redeem", "retake", "unflag">>
            BY <1>4
        <2>2. QED
            BY <1>4, <2>1 DEF TodoSteps, Entering, Entered, TakesAgain
    <1>5. CASE todo = <<"redeem">>
        <2>1. Head(todo) = "redeem" /\ Tail(todo) = <<>>
            BY <1>5
        <2>2. QED
            BY <1>5, <2>1 DEF TodoSteps, Entered, TakesAgain
    <1>6. CASE todo = <<"redeem", "retake", "unflag">>
        <2>1. Head(todo) = "redeem" /\ Tail(todo) = <<"retake", "unflag">>
            BY <1>6
        <2>2. QED
            BY <1>6, <2>1 DEF TodoSteps, Entered, TakesAgain
    <1>7. CASE todo = <<"retake", "unflag">>
        <2>1. Head(todo) = "retake" /\ Tail(todo) = <<"unflag">>
            BY <1>7
        <2>2. QED
            BY <1>7, <2>1 DEF TodoSteps, Entered
    <1>8. CASE todo = <<"unflag">>
        <2>1. Head(todo) = "unflag" /\ Tail(todo) = <<>>
            BY <1>8
        <2>2. QED
            BY <1>8, <2>1 DEF TodoSteps, Entered
    <1>9. CASE todo = <<"uncount">>
        <2>1. Head(todo) = "uncount" /\ Tail(todo) = <<>>
            BY <1>9
        <2>2. QED
            BY <1>9, <2>1 DEF TodoSteps, Left, GivesBack
    <1>10. CASE todo = <<"uncount", "refund", "flag">>
        <2>1. Head(todo) = "uncount" /\ Tail(todo) = <<"refund", "flag">>
            BY <1>10
        <2>2. QED
            BY <1>10, <2>1 DEF TodoSteps, Left, GivesBack
    <1>11. CASE todo = <<"refund", "flag">>
        <2>1. Head(todo) = "refund" /\ Tail(todo) = <<"flag">>
            BY <1>11
        <2>2. QED
            BY <1>11, <2>1 DEF TodoSteps
    <1>12. CASE todo = <<"flag">>
        <2>1. Head(todo) = "flag" /\ Tail(todo) = <<>>
            BY <1>12
        <2>2. QED
            BY <1>12, <2>1 DEF TodoSteps
    <1>13. CASE todo = <<"uncount", "refund", "flag", "delete">>
        <2>1. Head(todo) = "uncount" /\ Tail(todo) = <<"refund", "flag", "delete">>
            BY <1>13
        <2>2. QED
            BY <1>13, <2>1 DEF TodoSteps, Removing, GivesBack
    <1>14. CASE todo = <<"uncount", "delete">>
        <2>1. Head(todo) = "uncount" /\ Tail(todo) = <<"delete">>
            BY <1>14
        <2>2. QED
            BY <1>14, <2>1 DEF TodoSteps, Removing, GivesBack
    <1>15. CASE todo = <<"refund", "flag", "delete">>
        <2>1. Head(todo) = "refund" /\ Tail(todo) = <<"flag", "delete">>
            BY <1>15
        <2>2. QED
            BY <1>15, <2>1 DEF TodoSteps
    <1>16. CASE todo = <<"flag", "delete">>
        <2>1. Head(todo) = "flag" /\ Tail(todo) = <<"delete">>
            BY <1>16
        <2>2. QED
            BY <1>16, <2>1 DEF TodoSteps
    <1>17. CASE todo = <<"delete">>
        <2>1. Head(todo) = "delete" /\ Tail(todo) = <<>>
            BY <1>17
        <2>2. QED
            BY <1>17, <2>1 DEF TodoSteps
    <1>18. QED
        BY <1>1, <1>2, <1>3, <1>4, <1>5, <1>6, <1>7, <1>8, <1>9, <1>10, <1>11, <1>12, <1>13, <1>14, <1>15, <1>16, <1>17
        DEF Settling, Entering, Entered, Left, Refunding, Removing, Removed

\* What Transition puts together.
LEMMA Joined ==
    /\ <<"count">> \o <<"redeem">> = <<"count", "redeem">>
    /\ <<"count">> \o <<"retake", "unflag">> = <<"count", "retake", "unflag">>
    /\ <<"count", "redeem">> \o <<"retake", "unflag">> = <<"count", "redeem", "retake", "unflag">>
    /\ <<"uncount">> \o <<"refund", "flag">> = <<"uncount", "refund", "flag">>
    /\ <<"uncount">> \o <<"delete">> = <<"uncount", "delete">>
    /\ <<"refund", "flag">> \o <<"delete">> = <<"refund", "flag", "delete">>
    /\ <<"uncount", "refund", "flag">> \o <<"delete">> = <<"uncount", "refund", "flag", "delete">>
    BY Join11, Join12, Join21, Join22, Join31

\* The commits that a transition without refund appends nothing to.
LEMMA JoinedEmpty ==
    /\ <<>> \o <<>> = <<>>
    /\ <<"count">> \o <<>> = <<"count">>
    /\ <<"count", "redeem">> \o <<>> = <<"count", "redeem">>
    /\ <<"count", "retake", "unflag">> \o <<>> = <<"count", "retake", "unflag">>
    /\ <<"count", "redeem", "retake", "unflag">> \o <<>> = <<"count", "redeem", "retake", "unflag">>
    /\ <<"uncount">> \o <<>> = <<"uncount">>
    /\ <<"uncount", "refund", "flag">> \o <<>> = <<"uncount", "refund", "flag">>
    /\ <<"refund", "flag">> \o <<>> = <<"refund", "flag">>
    /\ <<>> \o <<"uncount">> = <<"uncount">>
    /\ <<>> \o <<"refund", "flag">> = <<"refund", "flag">>
    /\ <<>> \o <<"delete">> = <<"delete">>
    OBVIOUS

\* What Transition gives, by what it is for.
LEMMA Classes ==
    /\ <<>> \notin Entering
       /\ <<>> \notin Left
       /\ <<>> \notin Removing
       /\ <<>> \notin TakesAgain
       /\ <<>> \notin GivesBack
    /\ <<"count">> \in Entering
       /\ <<"count">> \notin Left
       /\ <<"count">> \notin Removing
       /\ <<"count">> \notin TakesAgain
       /\ <<"count">> \notin GivesBack
    /\ <<"count", "redeem">> \in Entering
       /\ <<"count", "redeem">> \notin Left
       /\ <<"count", "redeem">> \notin Removing
       /\ <<"count", "redeem">> \notin TakesAgain
       /\ <<"count", "redeem">> \notin GivesBack
    /\ <<"count", "retake", "unflag">> \in Entering
       /\ <<"count", "retake", "unflag">> \notin Left
       /\ <<"count", "retake", "unflag">> \notin Removing
       /\ <<"count", "retake", "unflag">> \in TakesAgain
       /\ <<"count", "retake", "unflag">> \notin GivesBack
    /\ <<"count", "redeem", "retake", "unflag">> \in Entering
       /\ <<"count", "redeem", "retake", "unflag">> \notin Left
       /\ <<"count", "redeem", "retake", "unflag">> \notin Removing
       /\ <<"count", "redeem", "retake", "unflag">> \in TakesAgain
       /\ <<"count", "redeem", "retake", "unflag">> \notin GivesBack
    /\ <<"uncount">> \notin Entering
       /\ <<"uncount">> \in Left
       /\ <<"uncount">> \notin Removing
       /\ <<"uncount">> \notin TakesAgain
       /\ <<"uncount">> \notin GivesBack
    /\ <<"uncount", "refund", "flag">> \notin Entering
       /\ <<"uncount", "refund", "flag">> \in Left
       /\ <<"uncount", "refund", "flag">> \notin Removing
       /\ <<"uncount", "refund", "flag">> \notin TakesAgain
       /\ <<"uncount", "refund", "flag">> \in GivesBack
    /\ <<"refund", "flag">> \notin Entering
       /\ <<"refund", "flag">> \notin Left
       /\ <<"refund", "flag">> \notin Removing
       /\ <<"refund", "flag">> \notin TakesAgain
       /\ <<"refund", "flag">> \in GivesBack
    /\ <<"uncount", "refund", "flag", "delete">> \notin Entering
       /\ <<"uncount", "refund", "flag", "delete">> \notin Left
       /\ <<"uncount", "refund", "flag", "delete">> \in Removing
       /\ <<"uncount", "refund", "flag", "delete">> \notin TakesAgain
       /\ <<"uncount", "refund", "flag", "delete">> \in GivesBack
    /\ <<"uncount", "delete">> \notin Entering
       /\ <<"uncount", "delete">> \notin Left
       /\ <<"uncount", "delete">> \in Removing
       /\ <<"uncount", "delete">> \notin TakesAgain
       /\ <<"uncount", "delete">> \notin GivesBack
    /\ <<"refund", "flag", "delete">> \notin Entering
       /\ <<"refund", "flag", "delete">> \notin Left
       /\ <<"refund", "flag", "delete">> \notin Removing
       /\ <<"refund", "flag", "delete">> \notin TakesAgain
       /\ <<"refund", "flag", "delete">> \in GivesBack
    /\ <<"delete">> \notin Entering
       /\ <<"delete">> \notin Left
       /\ <<"delete">> \notin Removing
       /\ <<"delete">> \notin TakesAgain
       /\ <<"delete">> \notin GivesBack
    BY DEF Entering, Left, Removing, TakesAgain, GivesBack

\* What is left to be written when a bill has been saved.
AfterSave(prev, row) == Transition(prev, row.status, row, FALSE)

\* The commits that applyStatusTransition puts behind a save.
LEMMA SaveTransition ==
    ASSUME NEW prev, NEW row \in BillRow
    PROVE  LET todo == AfterSave(prev, row) IN
           /\ todo \in {<<>>, <<"refund", "flag">>} \cup Entering \cup Left
           /\ todo \in Entering <=> prev # "COMPLETED" /\ row.status = "COMPLETED"
           /\ todo \in Left <=> prev = "COMPLETED" /\ row.status # "COMPLETED"
           /\ todo \in TakesAgain => row.refunded
           /\ todo \in GivesBack => ~row.refunded
    <1> DEFINE todo == AfterSave(prev, row)
               enters == prev # "COMPLETED" /\ row.status = "COMPLETED"
               again == row.points > 0 /\ row.refunded
               x == If(row.voucher, <<"redeem">>)
               y == If(again, <<"retake", "unflag">>)
               a == If(enters, <<"count">> \o x \o y)
               b == If(Leaves(prev, row.status), <<"uncount">>)
               c == If(Refunds(row.status, row, FALSE), <<"refund", "flag">>)
               refunds == Refunds(row.status, row, FALSE)
    <1> SUFFICES /\ todo \in {<<>>, <<"refund", "flag">>} \cup Entering \cup Left
                 /\ todo \in Entering <=> prev # "COMPLETED" /\ row.status = "COMPLETED"
                 /\ todo \in Left <=> prev = "COMPLETED" /\ row.status # "COMPLETED"
                 /\ todo \in TakesAgain => row.refunded
                 /\ todo \in GivesBack => ~row.refunded
        OBVIOUS
    <1>1. todo = ((a \o b) \o c) \o <<>>
        BY DEF AfterSave, Transition, If
    <1>a. IF enters THEN a = (<<"count">> \o x) \o y ELSE a = <<>>
        BY DEF If
    <1>b. IF prev = "COMPLETED" /\ row.status # "COMPLETED" THEN b = <<"uncount">> ELSE b = <<>>
        BY DEF If, Leaves
    <1>c. /\ IF refunds THEN c = <<"refund", "flag">> ELSE c = <<>>
          /\ refunds => row.status # "COMPLETED" /\ ~row.refunded
        BY DEF If, Refunds
    <1>x. IF row.voucher THEN x = <<"redeem">> ELSE x = <<>>
        BY DEF If
    <1>y. IF again THEN y = <<"retake", "unflag">> ELSE y = <<>>
        BY DEF If
    <1> HIDE DEF todo, a, b, c, x, y, refunds
    <1>2. row.refunded \in BOOLEAN /\ row.voucher \in BOOLEAN
        BY DEF BillRow
    <1>3. CASE enters
        <2>1. b = <<>> /\ c = <<>>
            BY <1>3, <1>b, <1>c
        <2>2. /\ a \in Entering /\ a \o <<>> = a
              /\ a \in TakesAgain => row.refunded
              /\ a \notin GivesBack /\ a \notin Left
            <3>1. CASE row.voucher /\ again
                <4>1. a = <<"count", "redeem", "retake", "unflag">>
                    BY <1>3, <3>1, <1>a, <1>x, <1>y, Joined
                <4>2. QED
                    BY <3>1, <4>1, JoinedEmpty, Classes
            <3>2. CASE row.voucher /\ ~again
                <4>1. a = <<"count", "redeem">>
                    BY <1>3, <3>2, <1>a, <1>x, <1>y, Joined, JoinedEmpty
                <4>2. QED
                    BY <3>2, <4>1, JoinedEmpty, Classes
            <3>3. CASE ~row.voucher /\ again
                <4>1. a = <<"count", "retake", "unflag">>
                    BY <1>3, <3>3, <1>a, <1>x, <1>y, Joined, JoinedEmpty
                <4>2. QED
                    BY <3>3, <4>1, JoinedEmpty, Classes
            <3>4. CASE ~row.voucher /\ ~again
                <4>1. a = <<"count">>
                    BY <1>3, <3>4, <1>a, <1>x, <1>y, JoinedEmpty
                <4>2. QED
                    BY <3>4, <4>1, JoinedEmpty, Classes
            <3>5. QED
                BY <1>2, <3>1, <3>2, <3>3, <3>4
        <2>3. todo = a
            BY <1>1, <2>1, <2>2
        <2>4. todo \notin Left /\ todo \notin GivesBack
            BY <2>2, <2>3
        <2>5. QED
            BY <1>3, <2>2, <2>3, <2>4
    <1>4. CASE prev = "COMPLETED" /\ row.status # "COMPLETED"
        <2>1. a = <<>> /\ b = <<"uncount">>
            BY <1>4, <1>a, <1>b
        <2>2. CASE refunds
            <3>1. todo = <<"uncount", "refund", "flag">> /\ ~row.refunded
                BY <1>1, <2>1, <2>2, <1>c, Joined, JoinedEmpty
            <3>2. QED
                BY <1>4, <3>1, Classes
        <2>3. CASE ~refunds
            <3>1. todo = <<"uncount">>
                BY <1>1, <2>1, <2>3, <1>c, JoinedEmpty
            <3>2. QED
                BY <1>4, <3>1, Classes
        <2>4. QED
            BY <2>2, <2>3
    <1>5. CASE ~enters /\ ~(prev = "COMPLETED" /\ row.status # "COMPLETED")
        <2>1. a = <<>> /\ b = <<>>
            BY <1>5, <1>a, <1>b
        <2>2. CASE refunds
            <3>1. todo = <<"refund", "flag">> /\ ~row.refunded
                BY <1>1, <2>1, <2>2, <1>c, JoinedEmpty
            <3>2. QED
                BY <1>5, <3>1, Classes
        <2>3. CASE ~refunds
            <3>1. todo = <<>>
                BY <1>1, <2>1, <2>3, <1>c, JoinedEmpty
            <3>2. QED
                BY <1>5, <3>1, Classes
        <2>4. QED
            BY <2>2, <2>3
    <1>6. QED
        BY <1>3, <1>4, <1>5

\* None of it is the end of another request.
LEMMA SavedTodo ==
    ASSUME NEW todo \in {<<>>, <<"refund", "flag">>} \cup Entering \cup Left
    PROVE  /\ todo \in {<<>>} \cup Settling /\ todo \notin Removing /\ todo \notin Removed
           /\ todo \notin Flagging /\ todo # <<"unflag">> /\ todo # <<"delete">> /\ todo # <<"uncount", "delete">>
    <1>1. CASE todo \in Entering
        <2>1. Head(todo) = "count"
            BY <1>1 DEF Entering
        <2>2. QED
            BY <1>1, <2>1 DEF Settling, Removing, Removed, Flagging
    <1>2. CASE todo \in Left
        <2>1. CASE todo = <<"uncount">>
            BY <1>2, <2>1 DEF Settling, Removing, Removed, Flagging
        <2>2. CASE todo = <<"uncount", "refund", "flag">>
            BY <1>2, <2>2 DEF Settling, Removing, Removed, Flagging
        <2>3. QED
            BY <1>2, <2>1, <2>2 DEF Left
    <1>3. CASE todo \in {<<>>, <<"refund", "flag">>}
        <2>1. CASE todo = <<>>
            BY <2>1 DEF Removing, Removed, Flagging
        <2>2. CASE todo = <<"refund", "flag">>
            <3>1. todo \in Settling
                BY <2>2 DEF Settling, Refunding
            <3>2. QED
                BY <2>2, <3>1 DEF Removing, Removed, Flagging
        <2>3. QED
            BY <1>3, <2>1, <2>2
    <1>4. QED
        BY <1>1, <1>2, <1>3

\* The points that a bill holds for the user.
Kept(row) == IF row.refunded THEN 0 ELSE row.points

\* What is left to be written when a bill is to be removed.
AfterRemove(row) == Transition(row.status, "CANCELLED", row, TRUE)

\* The commits of remove, with those of the transition to CANCELLED before the deletion.
LEMMA RemoveTransition ==
    ASSUME NEW row \in BillRow
    PROVE  LET todo == AfterRemove(row) IN
           /\ todo \in Removing \cup {<<"refund", "flag", "delete">>, <<"delete">>}
           /\ todo \in Removing <=> row.status = "COMPLETED"
           /\ todo \in GivesBack => ~row.refunded
           /\ todo \notin GivesBack => Kept(row) = 0
           /\ todo \notin TakesAgain
    <1> DEFINE todo == AfterRemove(row)
               b == If(Leaves(row.status, "CANCELLED"), <<"uncount">>)
               c == If(Refunds("CANCELLED", row, TRUE), <<"refund", "flag">>)
               refunds == Refunds("CANCELLED", row, TRUE)
    <1> SUFFICES /\ todo \in Removing \cup {<<"refund", "flag", "delete">>, <<"delete">>}
                 /\ todo \in Removing <=> row.status = "COMPLETED"
                 /\ todo \in GivesBack => ~row.refunded
                 /\ todo \notin GivesBack => Kept(row) = 0
                 /\ todo \notin TakesAgain
        OBVIOUS
    <1>1. todo = ((<<>> \o b) \o c) \o <<"delete">>
        BY DEF AfterRemove, Transition, If
    <1>b. IF row.status = "COMPLETED" THEN b = <<"uncount">> ELSE b = <<>>
        BY DEF If, Leaves
    <1>c. /\ IF refunds THEN c = <<"refund", "flag">> ELSE c = <<>>
          /\ refunds <=> row.points > 0 /\ ~row.refunded
        BY DEF If, Refunds
    <1> HIDE DEF todo, b, c, refunds
    <1>2. row.refunded \in BOOLEAN /\ row.points \in Nat
        BY DEF BillRow
    <1>3. CASE refunds
        <2>1. CASE row.status = "COMPLETED"
            <3>1. todo = <<"uncount", "refund", "flag", "delete">>
                BY <1>1, <1>3, <2>1, <1>b, <1>c, Joined, JoinedEmpty
            <3>2. QED
                BY <1>3, <1>c, <2>1, <3>1, Classes
        <2>2. CASE row.status # "COMPLETED"
            <3>1. todo = <<"refund", "flag", "delete">>
                BY <1>1, <1>3, <2>2, <1>b, <1>c, Joined, JoinedEmpty
            <3>2. QED
                BY <1>3, <1>c, <2>2, <3>1, Classes
        <2>3. QED
            BY <2>1, <2>2
    <1>4. CASE ~refunds
        <2>0. Kept(row) = 0
            BY <1>2, <1>4, <1>c DEF Kept
        <2>1. CASE row.status = "COMPLETED"
            <3>1. todo = <<"uncount", "delete">>
                BY <1>1, <1>4, <2>1, <1>b, <1>c, Joined, JoinedEmpty
            <3>2. QED
                BY <2>0, <2>1, <3>1, Classes
        <2>2. CASE row.status # "COMPLETED"
            <3>1. todo = <<"delete">>
                BY <1>1, <1>4, <2>2, <1>b, <1>c, JoinedEmpty
            <3>2. QED
                BY <2>0, <2>2, <3>1, Classes
        <2>3. QED
            BY <2>1, <2>2
    <1>5. QED
        BY <1>3, <1>4


\* What is left after a step belongs to no class that a request begins in.
LEMMA Leftovers ==
    /\ <<>> \in {<<>>} \cup Settling
       /\ <<>> \notin Entering
       /\ <<>> \notin Left
       /\ <<>> \notin Removing
       /\ <<>> \notin TakesAgain
       /\ <<>> \notin GivesBack
    /\ <<"redeem">> \in {<<>>} \cup Settling
       /\ <<"redeem">> \notin Entering
       /\ <<"redeem">> \notin Left
       /\ <<"redeem">> \notin Removing
       /\ <<"redeem">> \notin TakesAgain
       /\ <<"redeem">> \notin GivesBack
    /\ <<"retake", "unflag">> \in {<<>>} \cup Settling
       /\ <<"retake", "unflag">> \notin Entering
       /\ <<"retake", "unflag">> \notin Left
       /\ <<"retake", "unflag">> \notin Removing
       /\ <<"retake", "unflag">> \in TakesAgain
       /\ <<"retake", "unflag">> \notin GivesBack
    /\ <<"redeem", "retake", "unflag">> \in {<<>>} \cup Settling
       /\ <<"redeem", "retake", "unflag">> \notin Entering
       /\ <<"redeem", "retake", "unflag">> \notin Left
       /\ <<"redeem", "retake", "unflag">> \notin Removing
       /\ <<"redeem", "retake", "unflag">> \in TakesAgain
       /\ <<"redeem", "retake", "unflag">> \notin GivesBack
    /\ <<"unflag">> \in {<<>>} \cup Settling
       /\ <<"unflag">> \notin Entering
       /\ <<"unflag">> \notin Left
       /\ <<"unflag">> \notin Removing
       /\ <<"unflag">> \in TakesAgain
       /\ <<"unflag">> \notin GivesBack
    /\ <<"refund", "flag">> \in {<<>>} \cup Settling
       /\ <<"refund", "flag">> \notin Entering
       /\ <<"refund", "flag">> \notin Left
       /\ <<"refund", "flag">> \notin Removing
       /\ <<"refund", "flag">> \notin TakesAgain
       /\ <<"refund", "flag">> \in GivesBack
    /\ <<"flag">> \in {<<>>} \cup Settling
       /\ <<"flag">> \notin Entering
       /\ <<"flag">> \notin Left
       /\ <<"flag">> \notin Removing
       /\ <<"flag">> \notin TakesAgain
       /\ <<"flag">> \in GivesBack
    /\ <<"refund", "flag", "delete">> \in {<<>>} \cup Settling
       /\ <<"refund", "flag", "delete">> \notin Entering
       /\ <<"refund", "flag", "delete">> \notin Left
       /\ <<"refund", "flag", "delete">> \notin Removing
       /\ <<"refund", "flag", "delete">> \notin TakesAgain
       /\ <<"refund", "flag", "delete">> \in GivesBack
    /\ <<"delete">> \in {<<>>} \cup Settling
       /\ <<"delete">> \notin Entering
       /\ <<"delete">> \notin Left
       /\ <<"delete">> \notin Removing
       /\ <<"delete">> \notin TakesAgain
       /\ <<"delete">> \notin GivesBack
    /\ <<"flag", "delete">> \in {<<>>} \cup Settling
       /\ <<"flag", "delete">> \notin Entering
       /\ <<"flag", "delete">> \notin Left
       /\ <<"flag", "delete">> \notin Removing
       /\ <<"flag", "delete">> \notin TakesAgain
       /\ <<"flag", "delete">> \in GivesBack
    <1>1. /\ <<>> \in {<<>>} \cup Settling
          /\ <<>> \notin Entering /\ <<>> \notin Left /\ <<>> \notin Removing
          /\ <<>> \notin TakesAgain /\ <<>> \notin GivesBack
        BY DEF Entering, Left, Removing, TakesAgain, GivesBack
    <1>2. /\ <<"redeem">> \in {<<>>} \cup Settling
          /\ <<"redeem">> \notin Entering /\ <<"redeem">> \notin Left /\ <<"redeem">> \notin Removing
          /\ <<"redeem">> \notin TakesAgain /\ <<"redeem">> \notin GivesBack
        <2>1. <<"redeem">> \in Settling
            BY DEF Settling, Entered
        <2>2. QED
            BY <2>1 DEF Entering, Left, Removing, TakesAgain, GivesBack
    <1>3. /\ <<"retake", "unflag">> \in {<<>>} \cup Settling
          /\ <<"retake", "unflag">> \notin Entering /\ <<"retake", "unflag">> \notin Left /\ <<"retake", "unflag">> \notin Removing
          /\ <<"retake", "unflag">> \in TakesAgain /\ <<"retake", "unflag">> \notin GivesBack
        <2>1. <<"retake", "unflag">> \in Settling
            BY DEF Settling, Entered
        <2>2. QED
            BY <2>1 DEF Entering, Left, Removing, TakesAgain, GivesBack
    <1>4. /\ <<"redeem", "retake", "unflag">> \in {<<>>} \cup Settling
          /\ <<"redeem", "retake", "unflag">> \notin Entering /\ <<"redeem", "retake", "unflag">> \notin Left /\ <<"redeem", "retake", "unflag">> \notin Removing
          /\ <<"redeem", "retake", "unflag">> \in TakesAgain /\ <<"redeem", "retake", "unflag">> \notin GivesBack
        <2>1. <<"redeem", "retake", "unflag">> \in Settling
            BY DEF Settling, Entered
        <2>2. QED
            BY <2>1 DEF Entering, Left, Removing, TakesAgain, GivesBack
    <1>5. /\ <<"unflag">> \in {<<>>} \cup Settling
          /\ <<"unflag">> \notin Entering /\ <<"unflag">> \notin Left /\ <<"unflag">> \notin Removing
          /\ <<"unflag">> \in TakesAgain /\ <<"unflag">> \notin GivesBack
        <2>1. <<"unflag">> \in Settling
            BY DEF Settling, Entered
        <2>2. QED
            BY <2>1 DEF Entering, Left, Removing, TakesAgain, GivesBack
    <1>6. /\ <<"refund", "flag">> \in {<<>>} \cup Settling
          /\ <<"refund", "flag">> \notin Entering /\ <<"refund", "flag">> \notin Left /\ <<"refund", "flag">> \notin Removing
          /\ <<"refund", "flag">> \notin TakesAgain /\ <<"refund", "flag">> \in GivesBack
        <2>1. <<"refund", "flag">> \in Settling
            BY DEF Settling, Refunding
        <2>2. QED
            BY <2>1 DEF Entering, Left, Removing, TakesAgain, GivesBack
    <1>7. /\ <<"flag">> \in {<<>>} \cup Settling
          /\ <<"flag">> \notin Entering /\ <<"flag">> \notin Left /\ <<"flag">> \notin Removing
          /\ <<"flag">> \notin TakesAgain /\ <<"flag">> \in GivesBack
        <2>1. <<"flag">> \in Settling
            BY DEF Settling, Refunding
        <2>2. QED
            BY <2>1 DEF Entering, Left, Removing, TakesAgain, GivesBack
    <1>8. /\ <<"refund", "flag", "delete">> \in {<<>>} \cup Settling
          /\ <<"refund", "flag", "delete">> \notin Entering /\ <<"refund", "flag", "delete">> \notin Left /\ <<"refund", "flag", "delete">> \notin Removing
          /\ <<"refund", "flag", "delete">> \notin TakesAgain /\ <<"refund", "flag", "delete">> \in GivesBack
        <2>1. <<"refund", "flag", "delete">> \in Settling
            BY DEF Settling, Removed
        <2>2. QED
            BY <2>1 DEF Entering, Left, Removing, TakesAgain, GivesBack
    <1>9. /\ <<"delete">> \in {<<>>} \cup Settling
          /\ <<"delete">> \notin Entering /\ <<"delete">> \notin Left /\ <<"delete">> \notin Removing
          /\ <<"delete">> \notin TakesAgain /\ <<"delete">> \notin GivesBack
        <2>1. <<"delete">> \in Settling
            BY DEF Settling, Removed
        <2>2. QED
            BY <2>1 DEF Entering, Left, Removing, TakesAgain, GivesBack
    <1>10. /\ <<"flag", "delete">> \in {<<>>} \cup Settling
          /\ <<"flag", "delete">> \notin Entering /\ <<"flag", "delete">> \notin Left /\ <<"flag", "delete">> \notin Removing
          /\ <<"flag", "delete">> \notin TakesAgain /\ <<"flag", "delete">> \in GivesBack
        <2>1. <<"flag", "delete">> \in Settling
            BY DEF Settling, Removed
        <2>2. QED
            BY <2>1 DEF Entering, Left, Removing, TakesAgain, GivesBack
    <1>11. QED
        BY <1>1, <1>2, <1>3, <1>4, <1>5, <1>6, <1>7, <1>8, <1>9, <1>10

\* A request that has made one of these steps still is what it was.
StillOn(todo, t) ==
    /\ t \in {<<>>} \cup Settling
    /\ t \notin Entering /\ t \notin Left /\ t \notin Removing
    /\ t \in TakesAgain => todo \in TakesAgain
    /\ t \in GivesBack => todo \in GivesBack
    /\ t = <<"delete">> => todo = <<"uncount", "delete">>
    /\ t = <<"unflag">> => Head(todo) = "retake"
    /\ t \in Flagging => Head(todo) = "refund"
    /\ t \in Removed <=> todo \in Removed \/ todo \in Removing
    /\ todo # <<"delete">> /\ todo # <<"unflag">>

\* A commit that writes no bill leaves a todo of the same kind.
LEMMA NextClasses ==
    ASSUME NEW todo \in Settling, Head(todo) \in {"count", "redeem", "uncount", "retake", "refund"}
    PROVE  StillOn(todo, Tail(todo))
    <1>1. CASE todo = <<"count">>
        <2>1. Head(todo) = "count" /\ Tail(todo) = <<>>
            BY <1>1
        <2>2. QED
            BY <1>1, <2>1, Leftovers DEF StillOn, Flagging, Removing, Removed
    <1>2. CASE todo = <<"count", "redeem">>
        <2>1. Head(todo) = "count" /\ Tail(todo) = <<"redeem">>
            BY <1>2
        <2>2. QED
            BY <1>2, <2>1, Leftovers DEF StillOn, Flagging, Removing, Removed
    <1>3. CASE todo = <<"count", "retake", "unflag">>
        <2>1. Head(todo) = "count" /\ Tail(todo) = <<"retake", "unflag">>
            BY <1>3
        <2>2. QED
            BY <1>3, <2>1, Leftovers DEF StillOn, Flagging, Removing, Removed, TakesAgain
    <1>4. CASE todo = <<"count", "redeem", "retake", "unflag">>
        <2>1. Head(todo) = "count" /\ Tail(todo) = <<"redeem", "retake", "unflag">>
            BY <1>4
        <2>2. QED
            BY <1>4, <2>1, Leftovers DEF StillOn, Flagging, Removing, Removed, TakesAgain
    <1>5. CASE todo = <<"redeem">>
        <2>1. Head(todo) = "redeem" /\ Tail(todo) = <<>>
            BY <1>5
        <2>2. QED
            BY <1>5, <2>1, Leftovers DEF StillOn, Flagging, Removing, Removed
    <1>6. CASE todo = <<"redeem", "retake", "unflag">>
        <2>1. Head(todo) = "redeem" /\ Tail(todo) = <<"retake", "unflag">>
            BY <1>6
        <2>2. QED
            BY <1>6, <2>1, Leftovers DEF StillOn, Flagging, Removing, Removed, TakesAgain
    <1>7. CASE todo = <<"retake", "unflag">>
        <2>1. Head(todo) = "retake" /\ Tail(todo) = <<"unflag">>
            BY <1>7
        <2>2. QED
            BY <1>7, <2>1, Leftovers DEF StillOn, Flagging, Removing, Removed, TakesAgain
    <1>8. CASE todo = <<"unflag">>
        BY <1>8
    <1>9. CASE todo = <<"uncount">>
        <2>1. Head(todo) = "uncount" /\ Tail(todo) = <<>>
            BY <1>9
        <2>2. QED
            BY <1>9, <2>1, Leftovers DEF StillOn, Flagging, Removing, Removed
    <1>10. CASE todo = <<"uncount", "refund", "flag">>
        <2>1. Head(todo) = "uncount" /\ Tail(todo) = <<"refund", "flag">>
            BY <1>10
        <2>2. QED
            BY <1>10, <2>1, Leftovers DEF StillOn, Flagging, Removing, Removed, GivesBack
    <1>11. CASE todo = <<"refund", "flag">>
        <2>1. Head(todo) = "refund" /\ Tail(todo) = <<"flag">>
            BY <1>11
        <2>2. QED
            BY <1>11, <2>1, Leftovers DEF StillOn, Flagging, Removing, Removed, GivesBack
    <1>12. CASE todo = <<"flag">>
        BY <1>12
    <1>13. CASE todo = <<"uncount", "refund", "flag", "delete">>
        <2>1. Head(todo) = "uncount" /\ Tail(todo) = <<"refund", "flag", "delete">>
            BY <1>13
        <2>2. QED
            BY <1>13, <2>1, Leftovers DEF StillOn, Flagging, Removing, Removed, GivesBack
    <1>14. CASE todo = <<"uncount", "delete">>
        <2>1. Head(todo) = "uncount" /\ Tail(todo) = <<"delete">>
            BY <1>14
        <2>2. QED
            BY <1>14, <2>1, Leftovers DEF StillOn, Flagging, Removing, Removed
    <1>15. CASE todo = <<"refund", "flag", "delete">>
        <2>1. Head(todo) = "refund" /\ Tail(todo) = <<"flag", "delete">>
            BY <1>15
        <2>2. QED
            BY <1>15, <2>1, Leftovers DEF StillOn, Flagging, Removing, Removed, GivesBack
    <1>16. CASE todo = <<"flag", "delete">>
        BY <1>16
    <1>17. CASE todo = <<"delete">>
        BY <1>17
    <1>18. QED
        BY <1>1, <1>2, <1>3, <1>4, <1>5, <1>6, <1>7, <1>8, <1>9, <1>10, <1>11, <1>12, <1>13, <1>14, <1>15, <1>16, <1>17
        DEF Settling, Entering, Entered, Left, Refunding, Removing, Removed

\* What a request still has to write tells what the partner's figures lack.
WrittenBy(todo) ==
    /\ todo \in Entering <=> Head(todo) = "count"
    /\ todo \in Left \/ todo \in Removing <=> Head(todo) = "uncount"
    /\ todo \in Removed <=> Head(todo) \in {"refund", "flag", "delete"} /\ "delete" \in Range(todo)
    /\ todo \in Left => todo \notin Removing
    /\ todo \in Entering => "count" \in Range(todo) /\ "delete" \notin Range(todo)
    /\ todo \in Left => "uncount" \in Range(todo) /\ "delete" \notin Range(todo)
    /\ todo \in Removed => "uncount" \notin Range(todo)

\* Which todos can begin with which commit.
LEMMA HeadClasses == \A todo \in Settling : WrittenBy(todo)
    <1> SUFFICES ASSUME NEW todo \in Settling PROVE WrittenBy(todo)
        OBVIOUS
    <1>1. CASE todo = <<"count">>
        <2>1. Head(todo) = "count" /\ Range(todo) = {"count"}
            BY <1>1 DEF Range
        <2>2. QED
            BY <1>1, <2>1 DEF WrittenBy, Entering, Left, Removing, Removed
    <1>2. CASE todo = <<"count", "redeem">>
        <2>1. Head(todo) = "count" /\ Range(todo) = {"count", "redeem"}
            BY <1>2 DEF Range
        <2>2. QED
            BY <1>2, <2>1 DEF WrittenBy, Entering, Left, Removing, Removed
    <1>3. CASE todo = <<"count", "retake", "unflag">>
        <2>1. Head(todo) = "count" /\ Range(todo) = {"count", "retake", "unflag"}
            BY <1>3 DEF Range
        <2>2. QED
            BY <1>3, <2>1 DEF WrittenBy, Entering, Left, Removing, Removed
    <1>4. CASE todo = <<"count", "redeem", "retake", "unflag">>
        <2>1. Head(todo) = "count" /\ Range(todo) = {"count", "redeem", "retake", "unflag"}
            BY <1>4 DEF Range
        <2>2. QED
            BY <1>4, <2>1 DEF WrittenBy, Entering, Left, Removing, Removed
    <1>5. CASE todo = <<"redeem">>
        <2>1. Head(todo) = "redeem" /\ Range(todo) = {"redeem"}
            BY <1>5 DEF Range
        <2>2. QED
            BY <1>5, <2>1 DEF WrittenBy, Entering, Left, Removing, Removed
    <1>6. CASE todo = <<"redeem", "retake", "unflag">>
        <2>1. Head(todo) = "redeem" /\ Range(todo) = {"redeem", "retake", "unflag"}
            BY <1>6 DEF Range
        <2>2. QED
            BY <1>6, <2>1 DEF WrittenBy, Entering, Left, Removing, Removed
    <1>7. CASE todo = <<"retake", "unflag">>
        <2>1. Head(todo) = "retake" /\ Range(todo) = {"retake", "unflag"}
            BY <1>7 DEF Range
        <2>2. QED
            BY <1>7, <2>1 DEF WrittenBy, Entering, Left, Removing, Removed
    <1>8. CASE todo = <<"unflag">>
        <2>1. Head(todo) = "unflag" /\ Range(todo) = {"unflag"}
            BY <1>8 DEF Range
        <2>2. QED
            BY <1>8, <2>1 DEF WrittenBy, Entering, Left, Removing, Removed
    <1>9. CASE todo = <<"uncount">>
        <2>1. Head(todo) = "uncount" /\ Range(todo) = {"uncount"}
            BY <1>9 DEF Range
        <2>2. QED
            BY <1>9, <2>1 DEF WrittenBy, Entering, Left, Removing, Removed
    <1>10. CASE todo = <<"uncount", "refund", "flag">>
        <2>1. Head(todo) = "uncount" /\ Range(todo) = {"uncount", "refund", "flag"}
            BY <1>10 DEF Range
        <2>2. QED
            BY <1>10, <2>1 DEF WrittenBy, Entering, Left, Removing, Removed
    <1>11. CASE todo = <<"refund", "flag">>
        <2>1. Head(todo) = "refund" /\ Range(todo) = {"refund", "flag"}
            BY <1>11 DEF Range
        <2>2. QED
            BY <1>11, <2>1 DEF WrittenBy, Entering, Left, Removing, Removed
    <1>12. CASE todo = <<"flag">>
        <2>1. Head(todo) = "flag" /\ Range(todo) = {"flag"}
            BY <1>12 DEF Range
        <2>2. QED
            BY <1>12, <2>1 DEF WrittenBy, Entering, Left, Removing, Removed
    <1>13. CASE todo = <<"uncount", "refund", "flag", "delete">>
        <2>1. Head(todo) = "uncount" /\ Range(todo) = {"uncount", "refund", "flag", "delete"}
            BY <1>13 DEF Range
        <2>2. QED
            BY <1>13, <2>1 DEF WrittenBy, Entering, Left, Removing, Removed
    <1>14. CASE todo = <<"uncount", "delete">>
        <2>1. Head(todo) = "uncount" /\ Range(todo) = {"uncount", "delete"}
            BY <1>14 DEF Range
        <2>2. QED
            BY <1>14, <2>1 DEF WrittenBy, Entering, Left, Removing, Removed
    <1>15. CASE todo = <<"refund", "flag", "delete">>
        <2>1. Head(todo) = "refund" /\ Range(todo) = {"refund", "flag", "delete"}
            BY <1>15 DEF Range
        <2>2. QED
            BY <1>15, <2>1 DEF WrittenBy, Entering, Left, Removing, Removed
    <1>16. CASE todo = <<"flag", "delete">>
        <2>1. Head(todo) = "flag" /\ Range(todo) = {"flag", "delete"}
            BY <1>16 DEF Range
        <2>2. QED
            BY <1>16, <2>1 DEF WrittenBy, Entering, Left, Removing, Removed
    <1>17. CASE todo = <<"delete">>
        <2>1. Head(todo) = "delete" /\ Range(todo) = {"delete"}
            BY <1>17 DEF Range
        <2>2. QED
            BY <1>17, <2>1 DEF WrittenBy, Entering, Left, Removing, Removed
    <1>18. QED
        BY <1>1, <1>2, <1>3, <1>4, <1>5, <1>6, <1>7, <1>8, <1>9, <1>10, <1>11, <1>12, <1>13, <1>14, <1>15, <1>16, <1>17
        DEF Settling, Entering, Entered, Left, Refunding, Removing, Removed
-----------------------------------------------------------------------------
\* The rows, the request and the tickets of a flight bill.

AnyAsk == BillRow \cup UpdateDto \cup {NoBill}
RequestRow ==
    [bill : BillId \cup {Same}, kind : {"flight", "bus", "train"}, ask : AnyAsk,
     row : BillRow \cup {NoBill}, taken : Nat,
     todo : {<<>>, <<"save">>, <<"reprice", "save">>} \cup Settling]

RowsOK ==
    /\ bill \in [BillId -> BillRow \cup {NoBill}]
    /\ rows \in [BillId -> Nat]
    /\ points \in Nat /\ forfeited \in Nat /\ used \in Nat
    /\ calls \in 0 .. MaxCalls /\ drifted \in BOOLEAN
    /\ metrics \in [Partner -> [bookings : Int, revenue : Int]]
    /\ request \in RequestRow
    /\ request.todo = <<>> => request = Idle

\* An update that has deleted the passengers it replaces.
Repricing ==
    At("reprice") =>
        /\ request.todo = <<"reprice", "save">> /\ request.bill \in BillId
        /\ request.row \in BillRow /\ request.row = bill[request.bill]
        /\ request.ask \in UpdateDto /\ request.taken = 0
        /\ request.ask.tickets # Same => rows[request.bill] = 0

\* A bill that is about to be saved has taken what it will hold, and its
\* tickets are those of the passengers saved with it.
Saving ==
    At("save") =>
        /\ request.todo = <<"save">> /\ request.bill \in BillId /\ request.row \in BillRow
        /\ request.row.refunded <=>
              bill[request.bill].refunded /\ request.row.points <= bill[request.bill].points
        /\ request.taken = Positive(request.row.points - bill[request.bill].points)
        /\ IF request.ask.tickets = Same
           THEN rows[request.bill] \in {0, request.row.tickets}
           ELSE request.ask.tickets = request.row.tickets

\* A row that is the same but for the flag, as far as figures go.
SameFigures(r, s) ==
    r.status = s.status /\ r.partner = s.partner /\ r.tickets = s.tickets /\ r.total = s.total

\* The row in memory is the one in the table until the row is to go, and
\* what is left to be written agrees with it.
SettlingRow ==
    request.todo \in Settling =>
        /\ request.bill \in BillId /\ request.row \in BillRow
        /\ request.taken <= IF request.todo = <<"unflag">> THEN request.row.points ELSE 0
        /\ request.todo \in TakesAgain => request.row.refunded
        /\ request.todo \in GivesBack => ~request.row.refunded
        /\ request.todo \in Entering \cup Removing => request.row.status = "COMPLETED"
        /\ request.todo \in Left => request.row.status # "COMPLETED"
        /\ request.todo = <<"uncount", "delete">> => Kept(request.row) = 0
        /\ request.todo # <<"delete">> => bill[request.bill] = request.row
        /\ request.todo = <<"delete">> =>
              /\ bill[request.bill] \in BillRow /\ Kept(bill[request.bill]) = 0
              /\ SameFigures(bill[request.bill], request.row)

TicketInv == RowsOK /\ Repricing /\ Saving /\ SettlingRow /\ SeatsMatch

\* Rows that come into being or go away are rows.
LEMMA BlankRows ==
    /\ NoBill.tickets = 0 /\ NoBill.points = 0 /\ NoBill.refunded = FALSE /\ NoBill.status = "none"
    /\ NoBill.total = 0 /\ NoBill \notin BillRow
    /\ Idle \in RequestRow /\ Idle.todo = <<>> /\ Idle.taken = 0 /\ Idle.row = NoBill
    /\ <<>> \notin Settling
    <1>1. <<>> \notin Settling
        BY NextTodo
    <1>2. /\ NoBill.tickets = 0 /\ NoBill.points = 0 /\ NoBill.refunded = FALSE
          /\ NoBill.status = "none" /\ NoBill.total = 0
        BY DEF NoBill
    <1>3. NoBill \notin BillRow
        BY <1>2 DEF BillRow, Status
    <1>4. NoBill \in AnyAsk
        BY DEF AnyAsk
    <1>5. Idle \in RequestRow /\ Idle.todo = <<>> /\ Idle.taken = 0 /\ Idle.row = NoBill
        BY <1>4 DEF Idle, RequestRow
    <1>6. QED
        BY <1>1, <1>2, <1>3, <1>5

\* Nobody is at a step when there is no request.
LEMMA AtFacts ==
    /\ request = Idle => \A s : ~At(s)
    /\ request.todo \in Settling => ~At("save") /\ ~At("reprice")
    /\ request.todo = <<"save">> => At("save") /\ ~At("reprice")
    /\ request.todo = <<"reprice", "save">> => At("reprice") /\ ~At("save")
    <1>1. request = Idle => \A s : ~At(s)
        BY BlankRows DEF At
    <1>2. request.todo \in Settling => ~At("save") /\ ~At("reprice")
        BY NextTodo DEF At, TodoSteps
    <1>3. /\ request.todo = <<"save">> => At("save") /\ ~At("reprice")
          /\ request.todo = <<"reprice", "save">> => At("reprice") /\ ~At("save")
        BY DEF At
    <1>4. QED
        BY <1>1, <1>2, <1>3

\* What create and update still have to save is no settlement.
LEMMA NotSettling ==
    <<>> \notin Settling /\ <<"save">> \notin Settling /\ <<"reprice", "save">> \notin Settling
    <1>1. Head(<<"save">>) = "save" /\ Head(<<"reprice", "save">>) = "reprice"
        OBVIOUS
    <1>2. QED
        BY <1>1, NextTodo DEF TodoSteps

\* A request that is over leaves the invariant to the rows.
LEMMA OverInv ==
    ASSUME RowsOK', SeatsMatch', request' = Idle
    PROVE  TicketInv'
    <1>1. ~At("reprice")' /\ ~At("save")' /\ request'.todo \notin Settling
        BY BlankRows DEF At
    <1>2. QED
        BY <1>1 DEF TicketInv, Repricing, Saving, SettlingRow

\* A step that is not one of the settling ones.
LEMMA WhereAt ==
    ASSUME RowsOK, NEW s, At(s)
    PROVE  /\ s = "save" => request.todo = <<"save">>
           /\ s = "reprice" => request.todo = <<"reprice", "save">>
           /\ s \notin {"save", "reprice"} => request.todo \in Settling
    <1>1. request.todo \in {<<"save">>, <<"reprice", "save">>} \cup Settling
        BY DEF RowsOK, RequestRow, At
    <1>2. /\ request.todo = <<"save">> => s = "save"
          /\ request.todo = <<"reprice", "save">> => s = "reprice"
          /\ request.todo \in Settling => s \notin {"save", "reprice"}
        BY NextTodo DEF At, TodoSteps
    <1>3. QED
        BY <1>1, <1>2

\* The request after a step of r.
LEMMA GotoFacts ==
    ASSUME NEW r \in RequestRow, NEW t \in {<<>>} \cup Settling, Goto(r, t)
    PROVE  /\ request' \in RequestRow
           /\ t = <<>> => request' = Idle
           /\ t # <<>> =>
                 /\ request'.bill = r.bill /\ request'.row = r.row /\ request'.taken = r.taken
                 /\ request'.todo = t
    <1>1. CASE t = <<>>
        BY <1>1, BlankRows DEF Goto
    <1>2. CASE t # <<>>
        <2>1. request' = [r EXCEPT !.todo = t] /\ t \in Settling
            BY <1>2 DEF Goto
        <2>2. QED
            BY <1>2, <2>1 DEF RequestRow
    <1>3. QED
        BY <1>1, <1>2

\* A request with other points taken is the same request.
LEMMA TakenFacts ==
    ASSUME NEW r \in RequestRow, NEW n \in Nat
    PROVE  LET s == [r EXCEPT !.taken = n] IN
           /\ s \in RequestRow /\ s.taken = n /\ s.bill = r.bill /\ s.row = r.row /\ s.todo = r.todo
    BY DEF RequestRow

-----------------------------------------------------------------------------
\* The requests, step by step.

\* A price is never negative: the code cuts it at 0.
LEMMA PriceFact ==
    ASSUME NEW n \in Nat, NEW v, NEW p \in Nat
    PROVE  Price(n, v, p) \in Nat
    <1>1. n * Fare \in Nat
        BY TicketAssumption
    <1>2. QED
        BY <1>1, TicketAssumption DEF Price, Positive

\* Where there is no bill, all is blank.
LEMMA NoRow ==
    ASSUME RowsOK, SeatsMatch, NEW b \in BillId
    PROVE  /\ bill[b] \in BillRow \/ bill[b] = NoBill
           /\ Live(b) <=> bill[b] \in BillRow
           /\ ~Live(b) => bill[b] = NoBill /\ rows[b] = 0
           /\ bill[b].points \in Nat /\ bill[b].tickets \in Nat /\ bill[b].refunded \in BOOLEAN
    BY BlankRows DEF RowsOK, Live, BillRow, Status, SeatsMatch

\* create takes the points and has its row to save.
LEMMA CreateInv ==
    ASSUME TicketInv, NEW b \in BillId, NEW kind \in {"flight", "bus", "train"},
           NEW offer \in Offered, Create(b, kind, offer)
    PROVE  TicketInv'
    <1> DEFINE row == [status |-> offer.status, partner |-> offer.partner,
                       tickets |-> offer.tickets,
                       total |-> Named(offer.total, Price(offer.tickets, offer.voucher, offer.points)),
                       points |-> offer.points, refunded |-> FALSE, voucher |-> offer.voucher]
    <1>1. /\ ~Live(b) /\ offer.points <= points /\ points' = points - offer.points
          /\ request' = [bill |-> b, kind |-> kind, ask |-> row, row |-> row,
                         taken |-> offer.points, todo |-> <<"save">>]
          /\ calls < MaxCalls /\ calls' = calls + 1
          /\ UNCHANGED <<bill, rows, metrics, used, forfeited, drifted>>
        BY DEF Create, Serve
    <1>2. /\ offer.status \in Status /\ offer.partner \in Partner /\ offer.tickets \in Nat
          /\ offer.points \in Nat /\ offer.voucher \in BOOLEAN /\ offer.total \in Nat \cup {Same}
        BY TicketAssumption DEF CreateDto
    <1>3. Named(offer.total, Price(offer.tickets, offer.voucher, offer.points)) \in Nat
        BY <1>2, PriceFact DEF Named
    <1>4. /\ row \in BillRow /\ row.points = offer.points /\ ~row.refunded
          /\ row.tickets = offer.tickets
        BY <1>2, <1>3 DEF BillRow
    <1> HIDE DEF row
    <1>5. /\ request'.bill = b /\ request'.ask = row /\ request'.row = row
          /\ request'.taken = offer.points /\ request'.todo = <<"save">>
          /\ request' \in RequestRow
        <2>1. row \in AnyAsk
            BY <1>4 DEF AnyAsk
        <2>2. QED
            BY <1>1, <1>2, <1>4, <2>1 DEF RequestRow
    <1>6. RowsOK'
        BY <1>1, <1>2, <1>5, TicketAssumption DEF TicketInv, RowsOK
    <1>7. ~At("reprice")' /\ request'.todo \notin Settling
        BY <1>5, NotSettling DEF At
    <1>8. bill'[b] = NoBill /\ rows'[b] = 0
        BY <1>1, NoRow DEF TicketInv
    <1>9. Saving'
        <2>1. /\ bill'[request'.bill].refunded = FALSE /\ bill'[request'.bill].points = 0
              /\ rows'[request'.bill] = 0
            BY <1>5, <1>8, BlankRows
        <2>2. request'.taken = Positive(request'.row.points - 0)
            BY <1>2, <1>4, <1>5 DEF Positive
        <2>3. IF request'.ask.tickets = Same THEN rows'[request'.bill] \in {0, request'.row.tickets}
              ELSE request'.ask.tickets = request'.row.tickets
            BY <1>5, <2>1
        <2>4. QED
            BY <1>4, <1>5, <2>1, <2>2, <2>3 DEF Saving
    <1>10. SeatsMatch'
        BY <1>1 DEF TicketInv, SeatsMatch
    <1>11. QED
        BY <1>6, <1>7, <1>9, <1>10 DEF TicketInv, Repricing, SettlingRow

\* The passengers that an update replaces are deleted before anything else.
LEMMA UpdateInv ==
    ASSUME TicketInv, NEW b \in BillId, NEW ask \in Asked, Update(b, ask)
    PROVE  TicketInv'
    <1>1. /\ Live(b) /\ calls < MaxCalls /\ calls' = calls + 1
          /\ rows' = IF ask.tickets = Same THEN rows ELSE [rows EXCEPT ![b] = 0]
          /\ request' = [bill |-> b, kind |-> "flight", ask |-> ask, row |-> bill[b],
                         taken |-> 0, todo |-> <<"reprice", "save">>]
          /\ UNCHANGED <<bill, points, metrics, used, forfeited, drifted>>
        BY DEF Update, Serve
    <1>2. bill[b] \in BillRow /\ ask \in UpdateDto
        BY <1>1, NoRow, TicketAssumption DEF TicketInv
    <1>3. /\ request'.bill = b /\ request'.ask = ask /\ request'.row = bill[b]
          /\ request'.taken = 0 /\ request'.todo = <<"reprice", "save">>
          /\ request' \in RequestRow
        <2>1. ask \in AnyAsk
            BY <1>2 DEF AnyAsk
        <2>2. QED
            BY <1>1, <1>2, <2>1 DEF RequestRow
    <1>4. rows' \in [BillId -> Nat] /\ (ask.tickets # Same => rows'[b] = 0)
        BY <1>1 DEF TicketInv, RowsOK
    <1>5. RowsOK'
        BY <1>1, <1>3, <1>4, TicketAssumption DEF TicketInv, RowsOK
    <1>6. ~At("save")' /\ request'.todo \notin Settling
        BY <1>3, NotSettling DEF At
    <1>7. Repricing'
        BY <1>1, <1>2, <1>3, <1>4 DEF Repricing
    <1>8. SeatsMatch'
        BY <1>1 DEF TicketInv, SeatsMatch, RowsOK
    <1>9. QED
        BY <1>5, <1>6, <1>7, <1>8 DEF TicketInv, Saving, SettlingRow

\* The row that an update wants to save.
LEMMA WantedFacts ==
    ASSUME NEW row \in BillRow, NEW ask \in UpdateDto
    PROVE  /\ Wanted(row, ask) \in BillRow
           /\ Wanted(row, ask).points = Named(ask.points, row.points)
           /\ Wanted(row, ask).tickets = Named(ask.tickets, row.tickets)
           /\ Wanted(row, ask).refunded <=> row.refunded /\ Named(ask.points, row.points) <= row.points
           /\ Named(ask.points, row.points) \in Nat /\ row.points \in Nat
    <1> DEFINE voucher == Named(ask.voucher, row.voucher)
               spent == Named(ask.points, row.points)
               tickets == Named(ask.tickets, row.tickets)
               total == Named(ask.total, Price(tickets, voucher, spent))
               status == Named(ask.status, row.status)
               partner == Named(ask.partner, row.partner)
    <1>1. /\ spent \in Nat /\ tickets \in Nat /\ voucher \in BOOLEAN
          /\ status \in Status /\ partner \in Partner
        BY DEF BillRow, UpdateDto, Named
    <1>2. total \in Nat
        <2>1. ask.total \in Nat \cup {Same}
            BY DEF UpdateDto
        <2>2. Price(tickets, voucher, spent) \in Nat
            <3> HIDE DEF tickets, voucher, spent
            <3>1. QED
                BY <1>1, PriceFact
        <2>3. QED
            BY <2>1, <2>2 DEF Named
    <1>3. row.refunded \in BOOLEAN /\ row.points \in Nat /\ row.voucher \in BOOLEAN
        BY DEF BillRow
    <1>4. Wanted(row, ask) = [status |-> status, partner |-> partner, tickets |-> tickets,
              total |-> total, points |-> spent,
              refunded |-> row.refunded /\ spent <= row.points, voucher |-> voucher \/ row.voucher]
        BY DEF Wanted
    <1> HIDE DEF voucher, spent, tickets, total, status, partner
    <1>5. (row.refunded /\ spent <= row.points) \in BOOLEAN /\ (voucher \/ row.voucher) \in BOOLEAN
        OBVIOUS
    <1>6. /\ Wanted(row, ask) \in BillRow /\ Wanted(row, ask).points = spent
          /\ Wanted(row, ask).tickets = tickets
          /\ Wanted(row, ask).refunded = (row.refunded /\ spent <= row.points)
        BY <1>1, <1>2, <1>4, <1>5 DEF BillRow
    <1>7. QED
        BY <1>1, <1>3, <1>6 DEF spent, tickets

\* The voucher or the points may refuse the update, which has deleted the
\* passengers by then.
LEMMA RepriceInv ==
    ASSUME TicketInv, Reprice
    PROVE  TicketInv'
    <1> DEFINE b == request.bill
               row == request.row
               ask == request.ask
               spent == Named(ask.points, row.points)
               more == spent - row.points
    <1>1. /\ At("reprice") /\ UNCHANGED <<bill, rows, metrics, used, calls, forfeited, drifted>>
          /\ request.todo = <<"reprice", "save">> /\ b \in BillId /\ row \in BillRow
          /\ row = bill[b] /\ ask \in UpdateDto /\ request \in RequestRow
          /\ ask.tickets # Same => rows[b] = 0
        BY DEF Reprice, TicketInv, Repricing, RowsOK
    <1>2. SeatsMatch'
        BY <1>1 DEF TicketInv, SeatsMatch
    <1>3. spent \in Nat /\ row.points \in Nat
        BY <1>1, WantedFacts
    <1>4. CASE request' = Idle /\ points' = points
        <2>1. RowsOK'
            BY <1>1, <1>4, BlankRows DEF TicketInv, RowsOK
        <2>2. QED
            BY <1>2, <1>4, <2>1, OverInv
    <1>5. CASE /\ ~(more > points) /\ points' = points - more
               /\ request' = [request EXCEPT !.row = Wanted(row, ask), !.taken = Positive(more),
                                             !.todo = Tail(request.todo)]
        <2> DEFINE wanted == Wanted(row, ask)
        <2>1. /\ wanted \in BillRow /\ wanted.points = spent
              /\ wanted.tickets = Named(ask.tickets, row.tickets)
              /\ wanted.refunded <=> row.refunded /\ spent <= row.points
            BY <1>1, WantedFacts
        <2>2. Positive(more) \in Nat
            BY <1>3 DEF Positive
        <2> HIDE DEF wanted
        <2>3. /\ request' \in RequestRow /\ request'.bill = b /\ request'.row = wanted
              /\ request'.ask = ask /\ request'.taken = Positive(more) /\ request'.todo = <<"save">>
            <3>1. Tail(request.todo) = <<"save">>
                BY <1>1
            <3>2. request' = [request EXCEPT !.row = wanted, !.taken = Positive(more), !.todo = <<"save">>]
                BY <1>5, <3>1 DEF wanted
            <3>3. QED
                BY <1>1, <2>1, <2>2, <3>2 DEF RequestRow
        <2>4. RowsOK'
            <3>1. points' \in Nat
                BY <1>3, <1>5 DEF TicketInv, RowsOK
            <3>2. QED
                BY <1>1, <2>3, <3>1 DEF TicketInv, RowsOK
        <2>5. ~At("reprice")' /\ request'.todo \notin Settling
            BY <2>3, NotSettling DEF At
        <2>6. IF ask.tickets = Same THEN rows[b] \in {0, wanted.tickets} ELSE ask.tickets = wanted.tickets
            BY <1>1, <2>1 DEF TicketInv, SeatsMatch, Named
        <2>7. Saving'
            <3>1. bill'[request'.bill] = row /\ rows'[request'.bill] = rows[b]
                BY <1>1, <2>3
            <3>2. QED
                BY <1>1, <2>1, <2>3, <2>6, <3>1 DEF Saving
        <2>8. QED
            BY <1>2, <2>4, <2>5, <2>7 DEF TicketInv, Repricing, SettlingRow
    <1>6. QED
        BY <1>4, <1>5, Zenon DEF Reprice

\* The bill and its passengers are saved together.
LEMMA SaveInv ==
    ASSUME TicketInv, Save
    PROVE  TicketInv'
    <1> DEFINE b == request.bill
               row == request.row
               todo == AfterSave(bill[b].status, row)
               tickets == IF request.ask.tickets = Same THEN rows[b] ELSE request.ask.tickets
    <1>1. /\ At("save") /\ request.todo = <<"save">> /\ b \in BillId /\ row \in BillRow
          /\ request \in RequestRow
          /\ bill' = [bill EXCEPT ![b] = row]
          /\ rows' = IF request.ask.tickets = Same THEN rows
                     ELSE [rows EXCEPT ![b] = request.ask.tickets]
          /\ Goto([request EXCEPT !.taken = 0], todo)
          /\ UNCHANGED <<points, metrics, used, calls, forfeited>>
          /\ drifted' \in BOOLEAN
        BY DEF Save, AfterSave, TicketInv, Saving, RowsOK
    <1>2. /\ bill' \in [BillId -> BillRow \cup {NoBill}] /\ bill'[b] = row
          /\ \A c \in BillId \ {b} : bill'[c] = bill[c]
        BY <1>1 DEF TicketInv, RowsOK
    <1>3. /\ tickets \in {0, row.tickets} /\ row.tickets \in Nat
          /\ rows' \in [BillId -> Nat] /\ rows'[b] = tickets
          /\ \A c \in BillId \ {b} : rows'[c] = rows[c]
        BY <1>1 DEF TicketInv, Saving, RowsOK, BillRow
    <1>4. SeatsMatch'
        BY <1>2, <1>3 DEF TicketInv, SeatsMatch
    <1>5. /\ todo \in {<<>>, <<"refund", "flag">>} \cup Entering \cup Left
          /\ todo \in Entering => row.status = "COMPLETED"
          /\ todo \in Left => row.status # "COMPLETED"
          /\ todo \in TakesAgain => row.refunded
          /\ todo \in GivesBack => ~row.refunded
        BY <1>1, SaveTransition
    <1> HIDE DEF todo, tickets
    <1>6. todo \in {<<>>} \cup Settling /\ todo \notin Removing /\ todo # <<"unflag">>
          /\ todo # <<"delete">> /\ todo # <<"uncount", "delete">>
        BY <1>5, SavedTodo
    <1>7. /\ request' \in RequestRow
          /\ todo = <<>> => request' = Idle
          /\ todo # <<>> => /\ request'.bill = b /\ request'.row = row /\ request'.taken = 0
                            /\ request'.todo = todo
        <2> DEFINE r == [request EXCEPT !.taken = 0]
        <2>1. r \in RequestRow /\ r.taken = 0 /\ r.bill = b /\ r.row = row
            BY <1>1, TakenFacts
        <2> HIDE DEF r
        <2>2. Goto(r, todo)
            BY <1>1 DEF r
        <2>3. QED
            BY <1>6, <2>1, <2>2, GotoFacts
    <1>8. RowsOK'
        BY <1>1, <1>2, <1>3, <1>7 DEF TicketInv, RowsOK
    <1>9. CASE todo = <<>>
        BY <1>4, <1>7, <1>8, <1>9, OverInv
    <1>10. CASE todo # <<>>
        <2>1. ~At("reprice")' /\ ~At("save")'
            BY <1>6, <1>7, <1>10, NextTodo DEF At, TodoSteps
        <2>2. /\ request'.bill = b /\ request'.row = row /\ request'.taken = 0
              /\ request'.todo = todo /\ bill'[request'.bill] = row
            BY <1>2, <1>7, <1>10
        <2>3. b \in BillId /\ row \in BillRow
            BY <1>1
        <2>4. SettlingRow'
            <3> HIDE DEF b, row
            <3>1. QED
                BY <1>5, <1>6, <2>2, <2>3 DEF SettlingRow
        <2>5. QED
            BY <1>4, <1>8, <2>1, <2>4 DEF TicketInv, Repricing, Saving
    <1>11. QED
        BY <1>9, <1>10

\* A step that only writes what Transition has left to be written: the
\* bill and its passengers stay as they are.
LEMMA OnwardInv ==
    ASSUME TicketInv, NEW s \in {"count", "redeem", "uncount", "retake", "refund"}, At(s),
           NEW r \in RequestRow, r.bill = request.bill, r.row = request.row,
           r.taken <= IF s = "retake" THEN request.row.points ELSE 0,
           Goto(r, Tail(request.todo)),
           UNCHANGED <<bill, rows>>
    PROVE  /\ request' \in RequestRow /\ (request'.todo = <<>> => request' = Idle)
           /\ Repricing' /\ Saving' /\ SettlingRow' /\ SeatsMatch'
    <1> DEFINE b == request.bill
               row == request.row
               todo == request.todo
               t == Tail(request.todo)
    <1>1. todo \in Settling /\ Head(todo) = s
        BY WhereAt DEF TicketInv, At
    <1>2. StillOn(todo, t)
        BY <1>1, NextClasses
    <1>3. /\ b \in BillId /\ row \in BillRow
          /\ todo \in TakesAgain => row.refunded
          /\ todo \in GivesBack => ~row.refunded
          /\ todo = <<"uncount", "delete">> => Kept(row) = 0
          /\ bill[b] = row
        BY <1>1, <1>2 DEF TicketInv, SettlingRow, StillOn
    <1>4. SeatsMatch'
        BY DEF TicketInv, SeatsMatch
    <1> HIDE DEF b, row, todo, t
    <1>5. t \in {<<>>} \cup Settling
        BY <1>2 DEF StillOn
    <1>6. /\ request' \in RequestRow
          /\ t = <<>> => request' = Idle
          /\ t # <<>> => request'.bill = b /\ request'.row = row /\ request'.taken = r.taken
                         /\ request'.todo = t
        BY <1>5, GotoFacts DEF b, row, t
    <1>7. CASE t = <<>>
        <2>1. ~At("reprice")' /\ ~At("save")' /\ request'.todo \notin Settling
            BY <1>6, <1>7, BlankRows DEF At
        <2>2. QED
            BY <1>4, <1>6, <1>7, <2>1 DEF Repricing, Saving, SettlingRow
    <1>8. CASE t # <<>>
        <2>1. ~At("reprice")' /\ ~At("save")'
            BY <1>5, <1>6, <1>8, NextTodo DEF At, TodoSteps
        <2>2. r.taken <= IF t = <<"unflag">> THEN row.points ELSE 0
            <3>1. row.points \in Nat /\ r.taken \in Nat
                BY <1>3 DEF BillRow, RequestRow
            <3>2. t = <<"unflag">> => s = "retake"
                BY <1>1, <1>2 DEF StillOn
            <3>3. r.taken <= IF s = "retake" THEN row.points ELSE 0
                BY DEF row
            <3>4. s # "retake" => r.taken = 0
                BY <3>1, <3>3
            <3>5. CASE s = "retake"
                <4>1. t = <<"unflag">>
                    <5>1. todo \in Settling /\ Head(todo) = "retake"
                        BY <1>1, <3>5 DEF todo
                    <5>2. QED
                        BY <5>1, NextTodo DEF TodoSteps, t, todo
                <4>2. QED
                    BY <3>3, <3>5, <4>1
            <3>6. CASE s # "retake"
                <4>1. t # <<"unflag">> /\ r.taken = 0
                    BY <3>2, <3>4, <3>6
                <4>2. QED
                    BY <4>1
            <3>7. QED
                BY <3>5, <3>6
        <2>3. bill'[request'.bill] = row
            BY <1>3, <1>6, <1>8
        <2>4. t = <<"delete">> => Kept(row) = 0 /\ SameFigures(row, row)
            BY <1>2, <1>3 DEF StillOn, SameFigures
        <2>5. t # <<"uncount", "delete">>
            <3>1. <<"uncount", "delete">> \in Removing
                BY DEF Removing
            <3>2. QED
                BY <1>2, <3>1 DEF StillOn
        <2>6. SettlingRow'
            <3>1. /\ request'.bill = b /\ request'.row = row /\ request'.taken = r.taken
                  /\ request'.todo = t
                BY <1>6, <1>8
            <3>2. /\ t \notin Entering /\ t \notin Left /\ t \notin Removing
                  /\ t \in TakesAgain => row.refunded
                  /\ t \in GivesBack => ~row.refunded
                BY <1>2, <1>3 DEF StillOn
            <3>3. QED
                BY <1>3, <2>2, <2>3, <2>4, <2>5, <3>1, <3>2 DEF SettlingRow
        <2>7. QED
            BY <1>4, <1>6, <1>8, <2>1, <2>6 DEF Repricing, Saving
    <1>9. QED
        BY <1>7, <1>8

\* Only a request that has taken points again still has something to give up.
LEMMA NothingTaken ==
    ASSUME TicketInv, NEW s \in {"count", "redeem", "uncount", "retake", "refund", "flag", "delete"}, At(s)
    PROVE  /\ request \in RequestRow /\ request.todo \in Settling /\ request.taken = 0
           /\ request.bill \in BillId /\ request.row \in BillRow
    <1>1. request.todo \in Settling /\ Head(request.todo) = s /\ request \in RequestRow
        BY WhereAt DEF TicketInv, At, RowsOK
    <1>2. request.todo # <<"unflag">>
        BY <1>1
    <1>3. request.taken \in Nat /\ request.taken <= 0
        BY <1>1, <1>2 DEF TicketInv, SettlingRow, RequestRow
    <1>4. QED
        BY <1>1, <1>3 DEF TicketInv, SettlingRow

\* The partner's figures are moved by what the row says.
LEMMA AdjustType ==
    ASSUME RowsOK, request.row \in BillRow, NEW sign \in {1, -1}, Adjust(sign)
    PROVE  metrics' \in [Partner -> [bookings : Int, revenue : Int]]
    <1> DEFINE row == request.row
               p == row.partner
               new == [bookings |-> metrics[p].bookings + sign * row.tickets,
                       revenue |-> metrics[p].revenue + sign * row.total]
    <1>1. row.tickets \in Nat /\ row.total \in Nat /\ p \in Partner
        BY DEF BillRow
    <1>2. /\ metrics[p].bookings \in Int /\ metrics[p].revenue \in Int
          /\ metrics \in [Partner -> [bookings : Int, revenue : Int]]
        BY <1>1 DEF RowsOK
    <1>3. new \in [bookings : Int, revenue : Int]
        BY <1>1, <1>2
    <1>4. metrics' = [metrics EXCEPT ![p] = new]
        BY DEF Adjust
    <1> HIDE DEF new, p
    <1>5. QED
        BY <1>1, <1>2, <1>3, <1>4

\* adjustBookingMetrics writes the partner's figures only.
LEMMA CountInv ==
    ASSUME TicketInv, Count \/ Uncount
    PROVE  TicketInv'
    <1>1. /\ (At("count") /\ Adjust(1)) \/ (At("uncount") /\ Adjust(-1))
          /\ Goto(request, Tail(request.todo))
          /\ UNCHANGED <<bill, rows, points, used, calls, forfeited, drifted>>
        <2>1. CASE Count
            BY <2>1 DEF Count, Done
        <2>2. CASE Uncount
            BY <2>2 DEF Uncount, Done
        <2>3. QED
            BY <2>1, <2>2
    <1>2. PICK s \in {"count", "uncount"} : At(s)
        BY <1>1
    <1>3. request \in RequestRow /\ request.row \in BillRow /\ request.taken = 0
        BY <1>2, NothingTaken
    <1>4. metrics' \in [Partner -> [bookings : Int, revenue : Int]]
        BY <1>1, <1>3, AdjustType DEF TicketInv
    <1>5. /\ request' \in RequestRow /\ (request'.todo = <<>> => request' = Idle)
          /\ Repricing' /\ Saving' /\ SettlingRow' /\ SeatsMatch'
        BY <1>1, <1>2, <1>3, OnwardInv
    <1>6. RowsOK'
        BY <1>1, <1>4, <1>5 DEF TicketInv, RowsOK
    <1>7. QED
        BY <1>5, <1>6 DEF TicketInv

\* The voucher's count goes up.
LEMMA RedeemInv ==
    ASSUME TicketInv, Redeem
    PROVE  TicketInv'
    <1>1. /\ At("redeem") /\ used' = used + 1 /\ Goto(request, Tail(request.todo))
          /\ UNCHANGED <<bill, rows, points, metrics, calls, forfeited, drifted>>
        BY DEF Redeem, Done
    <1>2. request \in RequestRow /\ request.taken = 0
        BY <1>1, NothingTaken
    <1>3. /\ request' \in RequestRow /\ (request'.todo = <<>> => request' = Idle)
          /\ Repricing' /\ Saving' /\ SettlingRow' /\ SeatsMatch'
        BY <1>1, <1>2, OnwardInv
    <1>4. used' \in Nat
        BY <1>1 DEF TicketInv, RowsOK
    <1>5. RowsOK'
        BY <1>1, <1>3, <1>4 DEF TicketInv, RowsOK
    <1>6. QED
        BY <1>3, <1>5 DEF TicketInv

\* The points of the bill go back, which the row does not say yet.
LEMMA RefundInv ==
    ASSUME TicketInv, Refund
    PROVE  TicketInv'
    <1>1. /\ At("refund") /\ points' = points + request.row.points /\ Goto(request, Tail(request.todo))
          /\ UNCHANGED <<bill, rows, metrics, used, calls, forfeited, drifted>>
        BY DEF Refund, Done
    <1>2. request \in RequestRow /\ request.taken = 0 /\ request.row \in BillRow
        BY <1>1, NothingTaken
    <1>3. /\ request' \in RequestRow /\ (request'.todo = <<>> => request' = Idle)
          /\ Repricing' /\ Saving' /\ SettlingRow' /\ SeatsMatch'
        BY <1>1, <1>2, OnwardInv
    <1>4. request.row.points \in Nat
        BY <1>2 DEF BillRow
    <1>5. points' \in Nat
        BY <1>1, <1>4 DEF TicketInv, RowsOK
    <1>6. RowsOK'
        BY <1>1, <1>3, <1>5 DEF TicketInv, RowsOK
    <1>7. QED
        BY <1>3, <1>6 DEF TicketInv

\* The request keeps in mind what it could take.
LEMMA RetakeInv ==
    ASSUME TicketInv, Retake
    PROVE  TicketInv'
    <1> DEFINE n == points - points'
               r == [request EXCEPT !.taken = n]
    <1>1. /\ At("retake") /\ points' = Positive(points - request.row.points)
          /\ Goto(r, Tail(request.todo))
          /\ UNCHANGED <<bill, rows, metrics, used, calls, forfeited, drifted>>
        BY DEF Retake
    <1>2. request \in RequestRow /\ request.taken = 0 /\ request.row \in BillRow
        BY <1>1, NothingTaken
    <1>3. request.row.points \in Nat /\ points \in Nat
        BY <1>2 DEF BillRow, TicketInv, RowsOK
    <1>4. points' \in Nat /\ n \in Nat /\ n <= request.row.points
        BY <1>1, <1>3 DEF Positive
    <1>5. r \in RequestRow /\ r.taken = n /\ r.bill = request.bill /\ r.row = request.row
        BY <1>2, <1>4, TakenFacts
    <1> HIDE DEF r, n
    <1>6. /\ request' \in RequestRow /\ (request'.todo = <<>> => request' = Idle)
          /\ Repricing' /\ Saving' /\ SettlingRow' /\ SeatsMatch'
        BY <1>1, <1>4, <1>5, OnwardInv
    <1>7. RowsOK'
        BY <1>1, <1>4, <1>6 DEF TicketInv, RowsOK
    <1>8. QED
        BY <1>6, <1>7 DEF TicketInv

\* The flag of the row is written on its own.
LEMMA FlagInv ==
    ASSUME TicketInv, Flag
    PROVE  TicketInv'
    <1> DEFINE b == request.bill
               t == Tail(request.todo)
               r == [request EXCEPT !.taken = 0]
               flag == At("flag")
               new == [bill[b] EXCEPT !.refunded = flag]
    <1>1. /\ At("flag") \/ At("unflag")
          /\ bill' = [bill EXCEPT ![b] = new]
          /\ Goto(r, t)
          /\ UNCHANGED <<rows, points, metrics, used, calls, forfeited, drifted>>
        BY DEF Flag
    <1>2. request.todo \in Settling /\ request \in RequestRow
        BY <1>1, WhereAt DEF TicketInv, RowsOK
    <1>3. \/ flag /\ request.todo = <<"flag">> /\ t = <<>>
          \/ flag /\ request.todo = <<"flag", "delete">> /\ t = <<"delete">>
          \/ ~flag /\ request.todo = <<"unflag">> /\ t = <<>>
        <2>1. Head(request.todo) \in {"flag", "unflag"} /\ (flag <=> Head(request.todo) = "flag")
            BY <1>1 DEF At
        <2>2. TodoSteps(request.todo)
            BY <1>2, NextTodo
        <2>3. QED
            BY <2>1, <2>2 DEF TodoSteps
    <1>4. b \in BillId /\ request.row \in BillRow /\ bill[b] = request.row
        <2>1. request.todo # <<"delete">>
            BY <1>3
        <2>2. QED
            BY <1>2, <2>1 DEF TicketInv, SettlingRow
    <1>5. flag \in BOOLEAN
        BY DEF At
    <1>6. /\ new \in BillRow /\ SameFigures(new, request.row) /\ new.refunded = flag
          /\ new.tickets = bill[b].tickets
        <2> HIDE DEF flag
        <2>1. QED
            BY <1>4, <1>5 DEF BillRow, SameFigures
    <1>7. r \in RequestRow /\ r.taken = 0 /\ r.bill = b /\ r.row = request.row
        BY <1>2, TakenFacts
    <1>8. t \in {<<>>} \cup Settling
        BY <1>3 DEF Settling, Removed
    <1> HIDE DEF r, new, t, flag
    <1>9. /\ request' \in RequestRow
          /\ t = <<>> => request' = Idle
          /\ t # <<>> => request'.bill = b /\ request'.row = request.row /\ request'.taken = 0
                         /\ request'.todo = t
        BY <1>1, <1>7, <1>8, GotoFacts
    <1>10. /\ bill' \in [BillId -> BillRow \cup {NoBill}] /\ bill'[b] = new
           /\ \A c \in BillId \ {b} : bill'[c] = bill[c]
        <2> HIDE DEF b
        <2>1. QED
            BY <1>1, <1>4, <1>6 DEF TicketInv, RowsOK
    <1>11. SeatsMatch'
        <2>1. \A c \in BillId : bill'[c].tickets = bill[c].tickets
            BY <1>6, <1>10
        <2>2. QED
            BY <1>1, <2>1 DEF TicketInv, SeatsMatch
    <1>12. RowsOK'
        <2>1. request'.todo = <<>> => request' = Idle
            BY <1>9
        <2>2. QED
            BY <1>1, <1>9, <1>10, <2>1 DEF TicketInv, RowsOK
    <1>13. CASE t = <<>>
        BY <1>9, <1>11, <1>12, <1>13, OverInv
    <1>14. CASE t # <<>>
        <2>1. t = <<"delete">> /\ flag
            BY <1>3, <1>14
        <2>2. ~At("reprice")' /\ ~At("save")'
            BY <1>9, <2>1 DEF At
        <2>3. Kept(new) = 0
            BY <1>6, <2>1 DEF Kept
        <2>4. SettlingRow'
            <3>1. /\ request'.bill = b /\ request'.row = request.row /\ request'.taken = 0
                  /\ request'.todo = <<"delete">> /\ bill'[request'.bill] = new
                BY <1>9, <1>10, <1>14, <2>1
            <3>2. <<"delete">> # <<"unflag">> /\ <<"delete">> # <<"uncount", "delete">>
                OBVIOUS
            <3> DEFINE row == request.row
            <3>3. row \in BillRow /\ b \in BillId /\ SameFigures(new, row)
                BY <1>4, <1>6
            <3>4. request'.row = row
                BY <3>1
            <3> HIDE DEF b, row
            <3>5. QED
                BY <1>6, <2>3, <3>1, <3>2, <3>3, <3>4, Classes DEF SettlingRow
        <2>5. QED
            BY <1>11, <1>12, <2>2, <2>4 DEF TicketInv, Repricing, Saving
    <1>15. QED
        BY <1>13, <1>14

\* The bill and its passengers are gone.
LEMMA DeleteInv ==
    ASSUME TicketInv, Delete
    PROVE  TicketInv'
    <1>1. /\ At("delete") /\ bill' = [bill EXCEPT ![request.bill] = NoBill]
          /\ rows' = [rows EXCEPT ![request.bill] = 0]
          /\ Goto(request, Tail(request.todo))
          /\ UNCHANGED <<points, metrics, used, calls, forfeited, drifted>>
        BY DEF Delete, Done
    <1>2. request.todo \in Settling /\ request \in RequestRow /\ request.bill \in BillId
        BY <1>1, NothingTaken
    <1>3. Tail(request.todo) = <<>>
        BY <1>1, <1>2, NextTodo DEF At, TodoSteps
    <1>4. request' = Idle
        BY <1>1, <1>3 DEF Goto
    <1>5. bill' \in [BillId -> BillRow \cup {NoBill}] /\ rows' \in [BillId -> Nat]
        BY <1>1, <1>2 DEF TicketInv, RowsOK
    <1>6. RowsOK'
        BY <1>1, <1>4, <1>5, BlankRows DEF TicketInv, RowsOK
    <1>7. SeatsMatch'
        BY <1>1, <1>2, BlankRows DEF TicketInv, RowsOK, SeatsMatch
    <1>8. QED
        BY <1>4, <1>6, <1>7, OverInv

\* A request that breaks off leaves the rows as they are.
LEMMA BrokenOffInv ==
    ASSUME TicketInv, SaveRefused \/ Fail
    PROVE  TicketInv'
    <1>1. /\ request' = Idle /\ forfeited' = forfeited + request.taken
          /\ UNCHANGED <<bill, rows, points, metrics, used, calls>>
        BY DEF SaveRefused, Fail
    <1>2. drifted' \in BOOLEAN
        BY DEF SaveRefused, Fail, TicketInv, RowsOK
    <1>3. request.taken \in Nat /\ forfeited \in Nat
        BY DEF TicketInv, RowsOK, RequestRow
    <1>4. RowsOK'
        BY <1>1, <1>2, <1>3, BlankRows DEF TicketInv, RowsOK
    <1>5. SeatsMatch'
        BY <1>1 DEF TicketInv, SeatsMatch
    <1>6. QED
        BY <1>1, <1>4, <1>5, OverInv

\* A bill that is to be removed stays until everything else is written.
LEMMA RemoveInv ==
    ASSUME TicketInv, NEW b \in BillId, Remove(b)
    PROVE  TicketInv'
    <1> DEFINE row == bill[b]
               todo == AfterRemove(row)
    <1>1. /\ Live(b) /\ calls < MaxCalls /\ calls' = calls + 1
          /\ request' = [Idle EXCEPT !.bill = b, !.row = row, !.todo = todo]
          /\ UNCHANGED <<bill, rows, points, metrics, used, forfeited, drifted>>
        BY DEF Remove, Serve, AfterRemove
    <1>2. row \in BillRow
        BY <1>1, NoRow DEF TicketInv
    <1>3. /\ todo \in Removing \cup {<<"refund", "flag", "delete">>, <<"delete">>}
          /\ todo \in Removing <=> row.status = "COMPLETED"
          /\ todo \in GivesBack => ~row.refunded
          /\ todo \notin GivesBack => Kept(row) = 0
          /\ todo \notin TakesAgain
        BY <1>2, RemoveTransition
    <1> HIDE DEF row, todo
    <1>4. /\ todo \in Settling /\ todo \notin Entering /\ todo \notin Left /\ todo # <<"unflag">>
          /\ <<"delete">> \notin GivesBack /\ <<"uncount", "delete">> \notin GivesBack
        <2>1. CASE todo = <<"uncount", "refund", "flag", "delete">>
            BY <2>1, Classes DEF Settling, Removing
        <2>2. CASE todo = <<"uncount", "delete">>
            BY <2>2, Classes DEF Settling, Removing
        <2>3. CASE todo \in {<<"refund", "flag", "delete">>, <<"delete">>}
            BY <2>3, Classes DEF Settling, Removed
        <2>4. QED
            BY <1>3, <2>1, <2>2, <2>3 DEF Removing
    <1>5. /\ request' \in RequestRow /\ request'.bill = b /\ request'.row = row
          /\ request'.todo = todo /\ request'.taken = 0
        <2>1. request' = [bill |-> b, kind |-> "flight", ask |-> NoBill, row |-> row,
                          taken |-> 0, todo |-> todo]
            BY <1>1 DEF Idle
        <2>2. NoBill \in AnyAsk
            BY DEF AnyAsk
        <2>3. QED
            BY <1>2, <1>4, <2>1, <2>2 DEF RequestRow
    <1>6. todo # <<>>
        BY <1>4, BlankRows
    <1>7. RowsOK'
        BY <1>1, <1>5, <1>6, TicketAssumption DEF TicketInv, RowsOK
    <1>8. ~At("reprice")' /\ ~At("save")'
        BY <1>4, <1>5, NextTodo DEF At, TodoSteps
    <1>9. SeatsMatch'
        BY <1>1 DEF TicketInv, SeatsMatch
    <1>10. bill'[request'.bill] = row
        BY <1>1, <1>5 DEF row
    <1>11. row.points \in Nat
        BY <1>2 DEF BillRow
    <1>12. SettlingRow'
        BY <1>2, <1>3, <1>4, <1>5, <1>10, <1>11 DEF SettlingRow, SameFigures
    <1>13. QED
        BY <1>7, <1>8, <1>9, <1>12 DEF TicketInv, Repricing, Saving

\* A step that is not one of a ticket.
LEMMA TicketStutter ==
    ASSUME TicketInv, UNCHANGED ticketVars
    PROVE  TicketInv'
    <1>1. RowsOK' /\ SeatsMatch'
        BY DEF ticketVars, TicketInv, RowsOK, SeatsMatch
    <1>2. Repricing' /\ Saving'
        BY DEF ticketVars, TicketInv, Repricing, Saving, At
    <1>3. SettlingRow'
        BY DEF ticketVars, TicketInv, SettlingRow
    <1>4. QED
        BY <1>1, <1>2, <1>3 DEF TicketInv

\* What a caller can ask for.
LEMMA Requests ==
    ASSUME NEW b \in BillId, FlightRequest(b) \/ BusRequest(b) \/ TrainRequest(b)
    PROVE  \/ \E kind \in {"flight", "bus", "train"}, offer \in Offered : Create(b, kind, offer)
           \/ \E ask \in Asked : Update(b, ask)
           \/ Remove(b)
    BY DEF FlightRequest, BusRequest, TrainRequest, CreateFlightBill, CreateBusBill, CreateTrainBill

\* No bills and no request.
LEMMA InitTicket ==
    ASSUME Init
    PROVE  TicketInv
    <1>1. RowsOK
        <2>1. bill \in [BillId -> BillRow \cup {NoBill}] /\ rows \in [BillId -> Nat]
            BY DEF Init
        <2>2. metrics \in [Partner -> [bookings : Int, revenue : Int]]
            BY DEF Init
        <2>3. points \in Nat /\ calls \in 0 .. MaxCalls
            BY TicketAssumption DEF Init
        <2>0. drifted \in BOOLEAN
            BY Zenon DEF Init
        <2>4. request \in RequestRow /\ request = Idle /\ forfeited \in Nat /\ used \in Nat
            BY BlankRows DEF Init
        <2>5. QED
            BY <2>0, <2>1, <2>2, <2>3, <2>4 DEF RowsOK
    <1>2. SeatsMatch
        BY BlankRows DEF Init, SeatsMatch
    <1>3. Repricing /\ Saving /\ SettlingRow
        BY AtFacts, BlankRows DEF Init, Repricing, Saving, SettlingRow
    <1>4. QED
        BY <1>1, <1>2, <1>3 DEF TicketInv

\* Every step preserves the ticket invariant: one lemma per action.
LEMMA NextTicket ==
    ASSUME TicketInv, [Next]_ticketVars
    PROVE  TicketInv'
    <1>1. ASSUME NEW b \in BillId, FlightRequest(b) \/ BusRequest(b) \/ TrainRequest(b)
          PROVE  TicketInv'
        <2>1. CASE \E kind \in {"flight", "bus", "train"}, offer \in Offered : Create(b, kind, offer)
            BY <2>1, CreateInv
        <2>2. CASE \E ask \in Asked : Update(b, ask)
            BY <2>2, UpdateInv
        <2>3. CASE Remove(b)
            BY <2>3, RemoveInv
        <2>4. QED
            BY <1>1, <2>1, <2>2, <2>3, Requests
    <1>2. QED
        BY <1>1, RepriceInv, SaveInv, CountInv, RedeemInv, RetakeInv, RefundInv, FlagInv, DeleteInv,
           BrokenOffInv, TicketStutter DEF Next

\* Requests that stop between any two commits leave every bill with a row
\* for each of its tickets or with none, and a request with what it still
\* has to write.
THEOREM TicketInvariant == Spec => []TicketInv
    BY InitTicket, NextTicket, PTL DEF Spec

\* Every bill, count and request has its type.
THEOREM TicketTypeCorrect == Spec => []TypeOK
    <1>1. TicketInv => TypeOK
        <2> DEFINE Row == [status : Status \cup {"none"}, partner : Partner \cup {Same},
                tickets : Nat, total : Nat, points : Nat, refunded : BOOLEAN, voucher : BOOLEAN]
        <2>1. NoBill \in Row
            BY DEF NoBill
        <2>2. \A r \in BillRow : r \in Row
            BY DEF BillRow
        <2>3. RowsOK => bill \in [BillId -> Row]
            <3> HIDE DEF Row
            <3>1. QED
                BY <2>1, <2>2 DEF RowsOK
        <2>4. RowsOK => request.bill \in BillId \cup {Same} /\ request.taken \in Nat
            BY DEF RowsOK, RequestRow
        <2>5. QED
            BY <2>3, <2>4 DEF TicketInv, RowsOK, TypeOK
    <1>2. QED
        BY <1>1, TicketInvariant, PTL

\* A bill never has some of its old passengers and some of its new ones
\* (delete of the passengers and save of the bill in flight-bill.service.ts).
THEOREM SeatsAlwaysMatch == Spec => []SeatsMatch
    <1>1. TicketInv => SeatsMatch
        BY DEF TicketInv
    <1>2. QED
        BY <1>1, TicketInvariant, PTL

-----------------------------------------------------------------------------
\* The user's travel points.

KeptPoints == [b \in BillId |-> Kept(bill[b])]
KeptSum == SumOver(KeptPoints, BillId)

\* The points that the user will have when the request is through, or if it
\* stops now: none of the two is less than what there was.
PointsInv ==
    /\ points + KeptSum + request.taken + forfeited >= StartPoints
    /\ At("save") => points + KeptSum + forfeited
                     + (Kept(request.row) - Kept(bill[request.bill])) >= StartPoints
    /\ request.todo \in Flagging =>
           points + KeptSum + forfeited - request.row.points >= StartPoints

\* The points of the bills in the form the sums' lemmas speak of.
LEMMA HeldIsKept == Held = KeptSum
    <1> DEFINE A(h) == h = [s \in SUBSET BillId |-> IF s = {} THEN 0
                  ELSE (IF bill[CHOOSE x \in s : TRUE].refunded THEN 0 ELSE bill[CHOOSE x \in s : TRUE].points)
                       + h[s \ {CHOOSE x \in s : TRUE}]]
               d == KeptPoints
    <1>1. \A h : A(h) <=> IsSums(h, d, BillId)
        <2>1. \A s \in SUBSET BillId : s # {} =>
                 d[CHOOSE x \in s : TRUE] =
                     IF bill[CHOOSE x \in s : TRUE].refunded THEN 0 ELSE bill[CHOOSE x \in s : TRUE].points
            BY FirstFact DEF First, KeptPoints, Kept
        <2> HIDE DEF d
        <2>. QED
            BY <2>1 DEF IsSums, First
    <1>2. (CHOOSE h : A(h)) = (CHOOSE h : IsSums(h, d, BillId))
        <2> HIDE DEF A, d
        <2>. QED
            BY <1>1
    <1>3. Held = (CHOOSE h : A(h))[BillId]
        BY DEF Held, MapThenSumSet, MapThenFoldSet
    <1>. QED
        BY <1>2, <1>3, SumOverIsSums DEF KeptSum

\* What bills hold is a natural number, bill by bill and in sum.
LEMMA KeptTypes ==
    ASSUME RowsOK
    PROVE  KeptSum \in Nat /\ \A b \in BillId : Kept(bill[b]) \in Nat
    <1>1. \A b \in BillId : Kept(bill[b]) \in Nat
        BY BlankRows DEF RowsOK, BillRow, Kept
    <1>2. \A b \in BillId : KeptPoints[b] \in Nat
        BY <1>1 DEF KeptPoints
    <1>3. SumOver(KeptPoints, BillId) \in Nat
        BY <1>2, TicketAssumption, SumNat
    <1>4. QED
        BY <1>1, <1>3 DEF KeptSum

\* A row that is written moves the points of the bills by its own.
LEMMA KeptMoves ==
    ASSUME RowsOK, NEW b \in BillId, NEW row, Kept(row) \in Nat, bill' = [bill EXCEPT ![b] = row]
    PROVE  KeptSum' = KeptSum + (Kept(row) - Kept(bill[b]))
    <1> DEFINE f == KeptPoints
               g == KeptPoints'
               d == Kept(row) - Kept(bill[b])
    <1>1. d \in Int /\ \A c \in BillId : Kept(bill[c]) \in Nat
        BY KeptTypes
    <1>2. \A c \in BillId : bill'[c] = IF c = b THEN row ELSE bill[c]
        BY DEF RowsOK
    <1>3. \A c \in BillId : f[c] \in Int /\ g[c] = IF c = b THEN f[c] + d ELSE f[c]
        <2> SUFFICES ASSUME NEW c \in BillId
                     PROVE  f[c] \in Int /\ g[c] = IF c = b THEN f[c] + d ELSE f[c]
            OBVIOUS
        <2>1. f[c] = Kept(bill[c]) /\ g[c] = Kept(bill'[c]) /\ Kept(bill[c]) \in Nat
            BY <1>1 DEF KeptPoints, Kept
        <2>2. Kept(bill'[c]) = IF c = b THEN Kept(row) ELSE Kept(bill[c])
            BY <1>2
        <2> HIDE DEF f, g
        <2>3. QED
            BY <1>1, <2>1, <2>2
    <1> HIDE DEF f, g, d
    <1>4. IsFiniteSet(BillId) /\ d \in Int
        BY <1>1, TicketAssumption
    <1>5. SumOver(g, BillId) = IF b \in BillId THEN SumOver(f, BillId) + d ELSE SumOver(f, BillId)
        BY ONLY <1>3, <1>4, SumMoved
    <1>6. QED
        BY <1>5 DEF KeptSum, f, g, d

\* A request that is over has nothing of the user's.
LEMMA PointsOver ==
    ASSUME request' = Idle, points' \in Int, KeptSum' \in Int, forfeited' \in Int,
           points' + KeptSum' + forfeited' >= StartPoints
    PROVE  PointsInv'
    <1>1. ~At("save")' /\ request'.todo \notin Flagging /\ request'.taken = 0
        BY BlankRows DEF At, Flagging
    <1>2. points' + KeptSum' + request'.taken + forfeited' >= StartPoints
        BY <1>1
    <1>3. QED
        BY <1>1, <1>2 DEF PointsInv

\* The user has not lost points, when n are to be added.
OwedAfter(n) == points' + KeptSum' + n + forfeited' >= StartPoints

\* A request that goes on with t keeps what the user is owed.
LEMMA PointsOnward ==
    ASSUME RowsOK', NEW r \in RequestRow, NEW t \in {<<>>} \cup Settling, Goto(r, t),
           KeptSum' \in Int,
           OwedAfter(r.taken), t = <<>> => r.taken = 0, t \notin Flagging \/ OwedAfter(-r.row.points),
           r.row.points \in Int
    PROVE  PointsInv'
    <1>1. points' \in Int /\ forfeited' \in Int
        BY DEF RowsOK
    <1>o. /\ points' + KeptSum' + r.taken + forfeited' >= StartPoints
          /\ t \in Flagging => points' + KeptSum' + forfeited' - r.row.points >= StartPoints
        BY <1>1 DEF OwedAfter
    <1>2. CASE t = <<>>
        <2>1. request' = Idle
            BY <1>2, GotoFacts
        <2>2. points' + KeptSum' + forfeited' >= StartPoints
            BY <1>1, <1>2, <1>o
        <2>3. QED
            BY <1>1, <2>1, <2>2, PointsOver
    <1>3. CASE t # <<>>
        <2>1. request'.row = r.row /\ request'.taken = r.taken /\ request'.todo = t
            BY <1>3, GotoFacts
        <2>2. ~At("save")'
            BY <1>3, <2>1, NextTodo DEF At, TodoSteps
        <2>3. QED
            BY <2>1, <2>2, <1>o DEF PointsInv
    <1>4. QED
        BY <1>2, <1>3

\* A step that leaves the rows alone leaves their points alone.
LEMMA KeptStays ==
    ASSUME UNCHANGED bill
    PROVE  KeptSum' = KeptSum
    BY DEF KeptSum, KeptPoints

\* create moves points from the account to the request.
LEMMA CreatePoints ==
    ASSUME TicketInv, PointsInv, NEW b \in BillId, NEW kind \in {"flight", "bus", "train"},
           NEW offer \in Offered, Create(b, kind, offer)
    PROVE  PointsInv'
    <1>1. /\ request = Idle /\ ~Live(b) /\ offer.points <= points /\ points' = points - offer.points
          /\ UNCHANGED <<bill, forfeited>>
          /\ request'.bill = b /\ request'.row.points = offer.points /\ request'.row.refunded = FALSE
          /\ request'.taken = offer.points /\ request'.todo = <<"save">>
        BY DEF Create, Serve
    <1>2. offer.points \in Nat /\ points \in Nat /\ forfeited \in Nat /\ KeptSum \in Nat
          /\ StartPoints \in Nat
        BY TicketAssumption, KeptTypes DEF CreateDto, TicketInv, RowsOK
    <1>3. KeptSum' = KeptSum
        BY <1>1, KeptStays
    <1>4. points + KeptSum + forfeited >= StartPoints
        BY <1>1, <1>2, BlankRows DEF PointsInv
    <1>5. Kept(request'.row) = offer.points /\ Kept(bill'[request'.bill]) = 0
        <2>1. bill'[request'.bill] = NoBill
            BY <1>1, NoRow DEF TicketInv
        <2>2. QED
            BY <1>1, <2>1, BlankRows DEF Kept
    <1>6. request'.todo \notin Flagging
        BY <1>1 DEF Flagging
    <1>7. points' + KeptSum' + forfeited' + (Kept(request'.row) - Kept(bill'[request'.bill])) >= StartPoints
        BY <1>1, <1>2, <1>3, <1>4, <1>5
    <1>8. points' + KeptSum' + request'.taken + forfeited' >= StartPoints
        BY <1>1, <1>2, <1>3, <1>4
    <1>9. QED
        <2> HIDE DEF KeptSum, Kept
        <2>1. QED
            BY <1>6, <1>7, <1>8 DEF PointsInv

\* update takes or gives back the difference of the points.
LEMMA UpdatePoints ==
    ASSUME TicketInv, PointsInv, NEW b \in BillId, NEW ask \in Asked, Update(b, ask)
    PROVE  PointsInv'
    <1>1. /\ request = Idle /\ UNCHANGED <<bill, points, forfeited>>
          /\ request'.taken = 0 /\ request'.todo = <<"reprice", "save">>
        BY DEF Update, Serve
    <1>2. ~At("save")' /\ request'.todo \notin Flagging
        BY <1>1 DEF At, Flagging
    <1>3. KeptSum' = KeptSum
        BY <1>1, KeptStays
    <1>4. request.taken = 0
        BY <1>1, BlankRows
    <1>5. QED
        BY <1>1, <1>2, <1>3, <1>4 DEF PointsInv

\* More points are taken for a bill that holds more, and given back for one
\* that holds less; a bill that was refunded holds none.
LEMMA RepricePoints ==
    ASSUME TicketInv, TicketInv', PointsInv, Reprice
    PROVE  PointsInv'
    <1> DEFINE b == request.bill
               row == request.row
               ask == request.ask
               spent == Named(ask.points, row.points)
               more == spent - row.points
    <1>1. /\ At("reprice") /\ UNCHANGED <<bill, forfeited>>
          /\ request.todo = <<"reprice", "save">> /\ b \in BillId /\ row \in BillRow
          /\ row = bill[b] /\ ask \in UpdateDto /\ request.taken = 0
        BY DEF Reprice, TicketInv, Repricing
    <1>2. spent \in Nat /\ row.points \in Nat /\ row.refunded \in BOOLEAN
        BY <1>1, WantedFacts DEF BillRow
    <1>3. points \in Nat /\ forfeited \in Nat /\ KeptSum \in Nat /\ KeptSum' = KeptSum
          /\ StartPoints \in Nat
        BY <1>1, KeptTypes, KeptStays, TicketAssumption DEF TicketInv, RowsOK
    <1>4. points + KeptSum + forfeited >= StartPoints
        BY <1>1, <1>3 DEF PointsInv
    <1>5. CASE request' = Idle /\ points' = points
        BY <1>1, <1>3, <1>4, <1>5, PointsOver
    <1>6. CASE /\ ~(more > points) /\ points' = points - more
               /\ request' = [request EXCEPT !.row = Wanted(row, ask), !.taken = Positive(more),
                                             !.todo = Tail(request.todo)]
        <2> DEFINE wanted == Wanted(row, ask)
        <2>1. /\ wanted.points = spent
              /\ wanted.refunded <=> row.refunded /\ spent <= row.points
              /\ wanted.refunded \in BOOLEAN
            BY <1>1, WantedFacts DEF BillRow
        <2>2. /\ request'.bill = b /\ request'.row = wanted
              /\ request'.taken = Positive(more) /\ request'.todo = <<"save">>
            <3>1. request \in RequestRow /\ Tail(request.todo) = <<"save">>
                BY <1>1 DEF TicketInv, RowsOK
            <3> HIDE DEF wanted
            <3>2. request' = [request EXCEPT !.row = wanted, !.taken = Positive(more), !.todo = <<"save">>]
                BY <1>6, <3>1 DEF wanted
            <3>3. QED
                BY <3>1, <3>2 DEF RequestRow
        <2>3. request'.todo \notin Flagging
            BY <2>2 DEF Flagging
        <2>4. Positive(more) \in Nat /\ Positive(more) >= more
            BY <1>2 DEF Positive
        <2>5. points' + KeptSum' + request'.taken + forfeited' >= StartPoints
            <3> HIDE DEF more
            <3>1. more \in Int
                BY <1>2 DEF more
            <3>2. QED
                BY <1>1, <1>3, <1>4, <1>6, <2>2, <2>4, <3>1
        <2>6. Kept(wanted) - Kept(row) >= more \/ (Kept(wanted) >= spent /\ Kept(row) = 0)
            BY <1>2, <2>1 DEF Kept
        <2>7. Kept(wanted) \in Nat /\ Kept(row) \in Nat
            BY <1>2, <2>1 DEF Kept
        <2>8. Kept(wanted) - Kept(row) >= more
            BY <1>2, <2>6, <2>7
        <2>9. points' + KeptSum' + forfeited' + (Kept(request'.row) - Kept(bill'[request'.bill]))
                  >= StartPoints
            <3>1. bill'[request'.bill] = row /\ request'.row = wanted
                BY <1>1, <2>2
            <3>2. more \in Int
                BY <1>2
            <3> HIDE DEF more, wanted, row
            <3>3. QED
                BY <1>1, <1>3, <1>4, <1>6, <2>7, <2>8, <3>1, <3>2
        <2>10. QED
            BY <2>3, <2>5, <2>9 DEF PointsInv
    <1>7. QED
        BY <1>5, <1>6, Zenon DEF Reprice

\* The saved row holds what the request had taken.
LEMMA SavePoints ==
    ASSUME TicketInv, TicketInv', PointsInv, Save
    PROVE  PointsInv'
    <1> DEFINE b == request.bill
               row == request.row
               todo == AfterSave(bill[b].status, row)
               r == [request EXCEPT !.taken = 0]
    <1>1. /\ At("save") /\ request.todo = <<"save">> /\ b \in BillId /\ row \in BillRow
          /\ request \in RequestRow /\ bill' = [bill EXCEPT ![b] = row]
          /\ Goto(r, todo) /\ UNCHANGED <<points, forfeited>>
        BY DEF Save, AfterSave, TicketInv, Saving, RowsOK
    <1>2. r \in RequestRow /\ r.taken = 0
        BY <1>1, TakenFacts
    <1>3. Kept(row) \in Nat /\ Kept(bill[b]) \in Nat /\ KeptSum \in Nat
        BY <1>1, KeptTypes DEF BillRow, Kept, TicketInv
    <1>4. KeptSum' = KeptSum + (Kept(row) - Kept(bill[b]))
        BY <1>1, <1>3, KeptMoves DEF TicketInv
    <1>5. points + KeptSum + forfeited + (Kept(row) - Kept(bill[b])) >= StartPoints
        BY <1>1 DEF PointsInv
    <1>6. points \in Nat /\ forfeited \in Nat
        BY DEF TicketInv, RowsOK
    <1>7. OwedAfter(r.taken) /\ KeptSum' \in Int /\ r.row.points \in Int
        <2>1. r.row.points \in Int
            BY <1>1 DEF BillRow
        <2> HIDE DEF r, b, row
        <2>2. QED
            BY <1>1, <1>2, <1>3, <1>4, <1>5, <1>6, <2>1 DEF OwedAfter
    <1>8. todo \in {<<>>} \cup Settling /\ todo \notin Flagging
        <2>1. todo \in {<<>>, <<"refund", "flag">>} \cup Entering \cup Left
            BY <1>1, SaveTransition
        <2> HIDE DEF todo
        <2>2. QED
            BY <2>1, SavedTodo
    <1> HIDE DEF todo, r
    <1>9. RowsOK'
        BY DEF TicketInv
    <1>10. QED
        BY <1>1, <1>2, <1>7, <1>8, <1>9, PointsOnward

\* Removing a bill takes nothing from anybody yet.
LEMMA RemovePoints ==
    ASSUME TicketInv, PointsInv, NEW b \in BillId, Remove(b)
    PROVE  PointsInv'
    <1> DEFINE todo == AfterRemove(bill[b])
    <1>1. /\ request = Idle /\ Live(b) /\ UNCHANGED <<bill, points, forfeited>>
          /\ request'.taken = 0 /\ request'.todo = todo
        BY BlankRows DEF Remove, Serve, AfterRemove, Idle
    <1>2. todo \in Removing \cup {<<"refund", "flag", "delete">>, <<"delete">>}
        BY <1>1, RemoveTransition, NoRow DEF TicketInv
    <1> HIDE DEF todo
    <1>3. todo \notin Flagging
        BY <1>2 DEF Removing, Flagging
    <1>4. ~At("save")'
        <2>1. Head(todo) # "save"
            BY <1>2 DEF Removing
        <2>2. QED
            BY <1>1, <2>1 DEF At
    <1>5. KeptSum' = KeptSum /\ request.taken = 0
        BY <1>1, KeptStays, BlankRows
    <1>6. QED
        BY <1>1, <1>3, <1>4, <1>5 DEF PointsInv

\* Steps that have nothing to do with points.
LEMMA OtherPoints ==
    ASSUME TicketInv, TicketInv', PointsInv, Count \/ Uncount \/ Redeem
    PROVE  PointsInv'
    <1>1. /\ At("count") \/ At("uncount") \/ At("redeem")
          /\ Goto(request, Tail(request.todo)) /\ UNCHANGED <<bill, points, forfeited>>
        BY Zenon DEF Count, Uncount, Redeem, Done
    <1>2. PICK s \in {"count", "uncount", "redeem"} : At(s)
        BY <1>1
    <1>3. request \in RequestRow /\ request.todo \in Settling /\ request.taken = 0
        BY <1>2, NothingTaken
    <1>4. /\ Tail(request.todo) \in {<<>>} \cup Settling
          /\ Tail(request.todo) \notin Flagging
        BY <1>2, <1>3, NextClasses DEF At, StillOn
    <1>5. KeptSum' = KeptSum /\ KeptSum \in Nat
        BY <1>1, KeptStays, KeptTypes DEF TicketInv
    <1>6. OwedAfter(request.taken)
        BY <1>1, <1>5 DEF PointsInv, OwedAfter
    <1>7. RowsOK' /\ request.row.points \in Int
        BY <1>2, NothingTaken DEF TicketInv, BillRow
    <1> DEFINE t == Tail(request.todo)
    <1>8. /\ t \in {<<>>} \cup Settling /\ t \notin Flagging /\ Goto(request, t)
          /\ KeptSum' \in Int
        BY <1>1, <1>4, <1>5
    <1> HIDE DEF t
    <1>9. QED
        BY <1>3, <1>6, <1>7, <1>8, PointsOnward

\* Points go back before the row says so.
LEMMA RefundPoints ==
    ASSUME TicketInv, TicketInv', PointsInv, Refund
    PROVE  PointsInv'
    <1>1. /\ At("refund") /\ points' = points + request.row.points /\ Goto(request, Tail(request.todo))
          /\ UNCHANGED <<bill, forfeited>>
        BY DEF Refund, Done
    <1>2. request \in RequestRow /\ request.todo \in Settling /\ request.taken = 0 /\ request.row \in BillRow
        BY <1>1, NothingTaken
    <1>3. Tail(request.todo) \in {<<>>} \cup Settling
        BY <1>1, <1>2, NextClasses DEF At, StillOn
    <1>4. /\ KeptSum' = KeptSum /\ KeptSum \in Nat /\ request.row.points \in Nat
          /\ points \in Nat /\ forfeited \in Nat /\ StartPoints \in Nat
        BY <1>1, <1>2, KeptStays, KeptTypes, TicketAssumption DEF TicketInv, BillRow, RowsOK
    <1>5. points + KeptSum + forfeited >= StartPoints
        BY <1>2, <1>4 DEF PointsInv
    <1>6. OwedAfter(request.taken) /\ OwedAfter(-request.row.points)
        BY <1>1, <1>2, <1>4, <1>5 DEF OwedAfter
    <1>7. RowsOK'
        BY DEF TicketInv
    <1> DEFINE t == Tail(request.todo)
    <1>8. /\ t \in {<<>>} \cup Settling /\ Goto(request, t)
          /\ KeptSum' \in Int /\ request.row.points \in Int
        BY <1>1, <1>3, <1>4
    <1> HIDE DEF t
    <1>9. QED
        BY <1>2, <1>6, <1>7, <1>8, PointsOnward

\* What the request has taken again it still holds.
LEMMA RetakePoints ==
    ASSUME TicketInv, TicketInv', PointsInv, Retake
    PROVE  PointsInv'
    <1> DEFINE n == points - points'
               r == [request EXCEPT !.taken = n]
    <1>1. /\ At("retake") /\ points' = Positive(points - request.row.points)
          /\ Goto(r, Tail(request.todo)) /\ UNCHANGED <<bill, forfeited>>
        BY DEF Retake
    <1>2. request \in RequestRow /\ request.todo \in Settling /\ request.taken = 0 /\ request.row \in BillRow
        BY <1>1, NothingTaken
    <1>3. Tail(request.todo) = <<"unflag">> /\ Tail(request.todo) \in {<<>>} \cup Settling
        BY <1>1, <1>2, NextTodo DEF At, TodoSteps, Settling, Entered
    <1>4. Tail(request.todo) # <<>> /\ Tail(request.todo) \notin Flagging
        BY <1>3 DEF Flagging
    <1>5. /\ KeptSum' = KeptSum /\ KeptSum \in Nat /\ request.row.points \in Nat
          /\ points \in Nat /\ forfeited \in Nat /\ StartPoints \in Nat
        BY <1>1, <1>2, KeptStays, KeptTypes, TicketAssumption DEF TicketInv, BillRow, RowsOK
    <1>6. points' \in Nat /\ n \in Nat
        BY <1>1, <1>5 DEF Positive
    <1>7. r \in RequestRow /\ r.taken = n
        BY <1>2, <1>6, TakenFacts
    <1>8. points + KeptSum + forfeited >= StartPoints
        BY <1>2, <1>5 DEF PointsInv
    <1>9. OwedAfter(r.taken) /\ r.row.points \in Int
        <2>1. r.row.points \in Int
            BY <1>2, <1>5
        <2> HIDE DEF r
        <2>2. QED
            BY <1>1, <1>5, <1>6, <1>7, <1>8, <2>1 DEF OwedAfter
    <1>10. RowsOK'
        BY DEF TicketInv
    <1> DEFINE t == Tail(request.todo)
    <1> HIDE DEF r
    <1>11. /\ t \in {<<>>} \cup Settling /\ t # <<>> /\ t \notin Flagging /\ Goto(r, t)
           /\ KeptSum' \in Int
        BY <1>1, <1>3, <1>4, <1>5
    <1> HIDE DEF t
    <1>12. QED
        BY <1>7, <1>9, <1>10, <1>11, PointsOnward

\* The flag makes the bill hold its points again, or no longer.
LEMMA FlagPoints ==
    ASSUME TicketInv, TicketInv', PointsInv, Flag
    PROVE  PointsInv'
    <1> DEFINE b == request.bill
               row == request.row
               t == Tail(request.todo)
               r == [request EXCEPT !.taken = 0]
               flag == At("flag")
               new == [bill[b] EXCEPT !.refunded = flag]
    <1>1. /\ At("flag") \/ At("unflag")
          /\ bill' = [bill EXCEPT ![b] = new]
          /\ Goto(r, t) /\ UNCHANGED <<points, forfeited>>
        BY DEF Flag
    <1>2. /\ request.todo \in Settling /\ request \in RequestRow
          /\ r \in RequestRow /\ r.taken = 0 /\ r.row = row
        <2>1. request \in RequestRow
            BY DEF TicketInv, RowsOK
        <2>2. request.todo \in Settling
            BY <1>1, WhereAt DEF TicketInv
        <2>3. QED
            BY <2>1, <2>2, TakenFacts
    <1>3. \/ flag /\ request.todo \in Flagging /\ t \in {<<>>, <<"delete">>}
          \/ ~flag /\ request.todo = <<"unflag">> /\ t = <<>>
        <2>1. Head(request.todo) \in {"flag", "unflag"} /\ (flag <=> Head(request.todo) = "flag")
            BY <1>1 DEF At
        <2>2. TodoSteps(request.todo)
            BY <1>2, NextTodo
        <2>3. QED
            BY <2>1, <2>2 DEF TodoSteps, Flagging
    <1>4. request.todo # <<"delete">> /\ (request.todo \in Flagging => request.todo \in GivesBack
              /\ request.todo # <<"unflag">>)
          /\ <<"unflag">> \in TakesAgain
        BY <1>3 DEF Flagging, GivesBack, TakesAgain
    <1>5. /\ b \in BillId /\ row \in BillRow /\ bill[b] = row
          /\ request.todo \in TakesAgain => row.refunded
          /\ request.todo \in GivesBack => ~row.refunded
          /\ request.taken <= IF request.todo = <<"unflag">> THEN row.points ELSE 0
        BY <1>2, <1>4 DEF TicketInv, SettlingRow
    <1>6. flag \in BOOLEAN /\ row.points \in Nat /\ row.refunded \in BOOLEAN /\ request.taken \in Nat
        BY <1>2, <1>5 DEF At, BillRow, RequestRow
    <1>7. new.refunded = flag /\ new.points = row.points
        <2> HIDE DEF flag
        <2>1. QED
            BY <1>5, <1>6 DEF BillRow
    <1>8. /\ Kept(new) = IF flag THEN 0 ELSE row.points
          /\ Kept(bill[b]) = IF flag THEN row.points ELSE 0
        <2>1. row.refunded <=> ~flag
            BY <1>3, <1>4, <1>5
        <2> HIDE DEF flag, new
        <2>2. QED
            BY <1>5, <1>6, <1>7, <2>1 DEF Kept
    <1>9. points \in Nat /\ forfeited \in Nat /\ KeptSum \in Nat /\ StartPoints \in Nat
        BY KeptTypes, TicketAssumption DEF TicketInv, RowsOK
    <1>10. t \in {<<>>} \cup Settling /\ t \notin Flagging
        BY <1>3 DEF Settling, Removed, Flagging
    <1>11. RowsOK'
        BY DEF TicketInv
    <1> HIDE DEF r, new, t, flag
    <1>12. KeptSum' = KeptSum + (Kept(new) - Kept(bill[b]))
        <2>1. Kept(new) \in Nat
            BY <1>6, <1>8
        <2> HIDE DEF b
        <2>2. QED
            BY <1>1, <1>5, <2>1, KeptMoves DEF TicketInv
    <1>13. points + KeptSum' + forfeited >= StartPoints /\ KeptSum' \in Int
        <2>1. CASE flag
            <3>1. points + KeptSum + forfeited - row.points >= StartPoints
                BY <1>3, <2>1 DEF PointsInv
            <3>2. KeptSum' = KeptSum - row.points
                BY <1>6, <1>8, <1>9, <1>12, <2>1
            <3> HIDE DEF row
            <3>3. QED
                BY <1>6, <1>9, <3>1, <3>2
        <2>2. CASE ~flag
            <3>1. points + KeptSum + request.taken + forfeited >= StartPoints
                BY DEF PointsInv
            <3>2. request.taken <= row.points
                BY <1>3, <1>5, <2>2
            <3>3. KeptSum' = KeptSum + row.points
                BY <1>6, <1>8, <1>9, <1>12, <2>2
            <3> HIDE DEF row
            <3>4. QED
                BY <1>6, <1>9, <3>1, <3>2, <3>3
        <2>3. QED
            BY <2>1, <2>2
    <1>14. OwedAfter(r.taken)
        <2>1. points' = points /\ forfeited' = forfeited /\ r.taken = 0
            BY <1>1, <1>2
        <2>2. points + KeptSum' + 0 + forfeited >= StartPoints
            <3>1. points \in Int /\ KeptSum' \in Int
                BY <1>9, <1>13
            <3>2. points + KeptSum' + 0 = points + KeptSum'
                BY <3>1
            <3>3. QED
                BY <1>13, <3>2, Zenon
        <2>3. QED
            BY <2>1, <2>2, Zenon DEF OwedAfter
    <1>15. r.row.points \in Int
        BY <1>2, <1>6
    <1>16. QED
        BY <1>1, <1>2, <1>10, <1>11, <1>13, <1>14, <1>15, PointsOnward

\* A bill that goes holds nothing any more.
LEMMA DeletePoints ==
    ASSUME TicketInv, TicketInv', PointsInv, Delete
    PROVE  PointsInv'
    <1>1. /\ At("delete") /\ bill' = [bill EXCEPT ![request.bill] = NoBill]
          /\ Goto(request, Tail(request.todo)) /\ UNCHANGED <<points, forfeited>>
        BY DEF Delete, Done
    <1>2. request.todo \in Settling /\ request.bill \in BillId /\ request.taken = 0
        BY <1>1, NothingTaken
    <1>3. request.todo = <<"delete">> /\ Tail(request.todo) = <<>>
        BY <1>1, <1>2, NextTodo DEF At, TodoSteps
    <1>4. request' = Idle
        BY <1>1, <1>3 DEF Goto
    <1>5. Kept(bill[request.bill]) = 0 /\ Kept(NoBill) = 0
        BY <1>2, <1>3, BlankRows DEF TicketInv, SettlingRow, Kept
    <1>6. KeptSum \in Nat /\ points \in Nat /\ forfeited \in Nat
        BY KeptTypes DEF TicketInv, RowsOK
    <1>7. KeptSum' = KeptSum
        <2>1. KeptSum' = KeptSum + (Kept(NoBill) - Kept(bill[request.bill]))
            <3>1. RowsOK /\ Kept(NoBill) \in Nat
                BY <1>5 DEF TicketInv
            <3>2. QED
                BY <1>1, <1>2, <3>1, KeptMoves
        <2>2. QED
            BY <1>5, <1>6, <2>1
    <1>8. points' + KeptSum' + forfeited' >= StartPoints
        BY <1>1, <1>2, <1>6, <1>7 DEF PointsInv
    <1>9. QED
        BY <1>1, <1>4, <1>6, <1>7, <1>8, PointsOver

\* What a request that breaks off had taken is forfeited.
LEMMA BrokenOffPoints ==
    ASSUME TicketInv, PointsInv, SaveRefused \/ Fail
    PROVE  PointsInv'
    <1>1. /\ request' = Idle /\ forfeited' = forfeited + request.taken /\ UNCHANGED <<bill, points>>
        BY DEF SaveRefused, Fail
    <1>2. /\ request.taken \in Nat /\ forfeited \in Nat /\ points \in Nat
          /\ KeptSum' = KeptSum /\ KeptSum \in Nat
        BY <1>1, KeptTypes, KeptStays DEF TicketInv, RowsOK, RequestRow
    <1>3. points' + KeptSum' + forfeited' >= StartPoints
        BY <1>1, <1>2 DEF PointsInv
    <1>4. QED
        BY <1>1, <1>2, <1>3, PointsOver

\* The user has all points in the beginning.
LEMMA InitPoints ==
    ASSUME Init
    PROVE  PointsInv
    <1>1. points = StartPoints /\ request = Idle /\ forfeited = 0
        BY DEF Init
    <1>2. KeptSum \in Nat /\ StartPoints \in Nat
        BY InitTicket, KeptTypes, TicketAssumption DEF TicketInv
    <1>3. ~At("save") /\ request.todo \notin Flagging /\ request.taken = 0
        BY <1>1, BlankRows DEF At, Flagging
    <1>4. QED
        BY <1>1, <1>2, <1>3 DEF PointsInv

\* Every step preserves the account of the points.
LEMMA NextPoints ==
    ASSUME TicketInv, TicketInv', PointsInv, [Next]_ticketVars
    PROVE  PointsInv'
    <1>1. ASSUME NEW b \in BillId, FlightRequest(b) \/ BusRequest(b) \/ TrainRequest(b)
          PROVE  PointsInv'
        <2>1. CASE \E kind \in {"flight", "bus", "train"}, offer \in Offered : Create(b, kind, offer)
            BY <2>1, CreatePoints
        <2>2. CASE \E ask \in Asked : Update(b, ask)
            BY <2>2, UpdatePoints
        <2>3. CASE Remove(b)
            BY <2>3, RemovePoints
        <2>4. QED
            BY <1>1, <2>1, <2>2, <2>3, Requests
    <1>2. CASE UNCHANGED ticketVars
        <2>1. KeptSum' = KeptSum
            BY <1>2, KeptStays DEF ticketVars
        <2>2. QED
            BY <1>2, <2>1 DEF ticketVars, PointsInv, At
    <1>3. QED
        BY <1>1, <1>2, RepricePoints, SavePoints, OtherPoints, RefundPoints, RetakePoints, FlagPoints,
           DeletePoints, BrokenOffPoints DEF Next

\* Whatever a request does and wherever it stops, the points that the user
\* began with are in the account, held by a bill that gives them back, with
\* the request, or forfeited by one that failed before its save.
THEOREM PointsAreNotLost == Spec => []NoPointsLost
    <1>1. Spec => []PointsInv
        BY InitPoints, NextPoints, TicketInvariant, PTL DEF Spec
    <1>2. PointsInv => NoPointsLost
        BY HeldIsKept DEF PointsInv, NoPointsLost
    <1>3. QED
        BY <1>1, <1>2, PTL

-----------------------------------------------------------------------------
\* The partners' figures.

Figures == {"bookings", "revenue"}
Amount(row, k) == IF k = "bookings" THEN row.tickets ELSE row.total
Entry(m, p, k) == IF k = "bookings" THEN m[p].bookings ELSE m[p].revenue

\* What a row counts for partner p.
Counted(row, p, k) ==
    IF row.status = "COMPLETED" /\ row.partner = p THEN Amount(row, k) ELSE 0

CountedBills(p, k) == [b \in BillId |-> Counted(bill[b], p, k)]
Figure(p, k) == SumOver(CountedBills(p, k), BillId)

\* A bill that has become COMPLETED is still to be counted, one that is being
\* removed is no longer counted and still there, and one that has left
\* COMPLETED is counted until that is written.
Lacks(r) == r.todo \in Entering \/ (r.todo \in Removed /\ r.row.status = "COMPLETED")
Ahead(r, p, k) ==
    IF r.row.partner # p THEN 0
    ELSE IF Lacks(r) THEN -Amount(r.row, k)
    ELSE IF r.todo \in Left THEN Amount(r.row, k) ELSE 0

Exact(p, k) == Entry(metrics, p, k) = Figure(p, k) + Ahead(request, p, k)
RevenueInv == ~drifted => \A p \in Partner, k \in Figures : Exact(p, k)

\* A request that is not settling owes no figure.
LEMMA QuietAhead ==
    ASSUME NEW r, r.todo \notin Settling
    PROVE  \A p, k : Ahead(r, p, k) = 0
    BY DEF Ahead, Lacks, Settling

\* What a bill counts for a figure is a natural number.
LEMMA AmountType ==
    \A row \in BillRow : \A p, k : Amount(row, k) \in Nat /\ Counted(row, p, k) \in Nat
    BY DEF BillRow, Amount, Counted

\* A missing bill counts for nothing.
LEMMA BlankCounts == \A p, k : Counted(NoBill, p, k) = 0
    BY BlankRows DEF Counted

\* Figures are natural numbers, bill by bill and in sum.
LEMMA FigureTypes ==
    ASSUME RowsOK, NEW p, NEW k
    PROVE  Figure(p, k) \in Nat /\ \A b \in BillId : Counted(bill[b], p, k) \in Nat
    <1>1. \A b \in BillId : Counted(bill[b], p, k) \in Nat
        BY AmountType, BlankCounts DEF RowsOK
    <1>2. \A b \in BillId : CountedBills(p, k)[b] \in Nat
        BY <1>1 DEF CountedBills
    <1>3. SumOver(CountedBills(p, k), BillId) \in Nat
        BY <1>2, TicketAssumption, SumNat
    <1>4. QED
        BY <1>1, <1>3 DEF Figure

\* A row that is written moves the figures by what it counts.
LEMMA FigureMoves ==
    ASSUME RowsOK, NEW p, NEW k, NEW b \in BillId, NEW row, Counted(row, p, k) \in Nat,
           bill' = [bill EXCEPT ![b] = row]
    PROVE  Figure(p, k)' = Figure(p, k) + (Counted(row, p, k) - Counted(bill[b], p, k))
    <1> DEFINE f == CountedBills(p, k)
               g == CountedBills(p, k)'
               d == Counted(row, p, k) - Counted(bill[b], p, k)
    <1>1. d \in Int /\ \A c \in BillId : Counted(bill[c], p, k) \in Nat
        BY FigureTypes
    <1>2. \A c \in BillId : bill'[c] = IF c = b THEN row ELSE bill[c]
        BY DEF RowsOK
    <1>3. \A c \in BillId : f[c] \in Int /\ g[c] = IF c = b THEN f[c] + d ELSE f[c]
        <2> SUFFICES ASSUME NEW c \in BillId
                     PROVE  f[c] \in Int /\ g[c] = IF c = b THEN f[c] + d ELSE f[c]
            OBVIOUS
        <2>1. /\ f[c] = Counted(bill[c], p, k) /\ g[c] = Counted(bill'[c], p, k)
              /\ Counted(bill[c], p, k) \in Nat
            BY <1>1 DEF CountedBills, Counted, Amount
        <2>2. Counted(bill'[c], p, k) = IF c = b THEN Counted(row, p, k) ELSE Counted(bill[c], p, k)
            BY <1>2
        <2> HIDE DEF f, g
        <2>3. QED
            BY <1>1, <2>1, <2>2
    <1> HIDE DEF f, g, d
    <1>4. IsFiniteSet(BillId) /\ d \in Int
        BY <1>1, TicketAssumption
    <1>5. SumOver(g, BillId) = IF b \in BillId THEN SumOver(f, BillId) + d ELSE SumOver(f, BillId)
        BY ONLY <1>3, <1>4, SumMoved
    <1>6. QED
        BY <1>5 DEF Figure, f, g, d

\* Figures of the bills change only with the bills.
LEMMA FigureStays ==
    ASSUME UNCHANGED bill, NEW p, NEW k
    PROVE  Figure(p, k)' = Figure(p, k)
    BY DEF Figure, CountedBills

\* A request that has not come to its save, or is over, is not ahead.
LEMMA QuietExact ==
    ASSUME request.todo \notin Settling, request'.todo \notin Settling,
           UNCHANGED <<bill, metrics>>, NEW p, NEW k, Exact(p, k)
    PROVE  Exact(p, k)'
    <1>1. Ahead(request, p, k) = 0 /\ Ahead(request', p, k) = 0
        BY QuietAhead
    <1>2. Figure(p, k)' = Figure(p, k) /\ metrics' = metrics
        BY FigureStays
    <1>3. Entry(metrics, p, k) = Figure(p, k) + Ahead(request', p, k)
        BY <1>1 DEF Exact
    <1>4. QED
        BY <1>2, <1>3 DEF Exact

\* create and update begin with a save to come and owe no figure before it.
LEMMA StartsQuiet ==
    ASSUME \/ \E b \in BillId, kind \in {"flight", "bus", "train"}, offer \in Offered : Create(b, kind, offer)
           \/ \E b \in BillId, ask \in Asked : Update(b, ask)
    PROVE  /\ request.todo \notin Settling /\ request'.todo \notin Settling
           /\ UNCHANGED <<bill, metrics, drifted>>
    <1>1. ASSUME NEW b, NEW kind, NEW offer, Create(b, kind, offer)
          PROVE  /\ request = Idle /\ request'.todo = <<"save">> /\ UNCHANGED <<bill, metrics, drifted>>
        BY <1>1 DEF Create, Serve
    <1>2. ASSUME NEW b, NEW ask, Update(b, ask)
          PROVE  /\ request = Idle /\ request'.todo = <<"reprice", "save">>
                 /\ UNCHANGED <<bill, metrics, drifted>>
        BY <1>2 DEF Update, Serve
    <1>3. QED
        BY <1>1, <1>2, NotSettling, BlankRows

\* The passengers are saved before the bill: no figure moves.
LEMMA RepriceQuiet ==
    ASSUME TicketInv, Reprice
    PROVE  /\ request.todo \notin Settling /\ request'.todo \notin Settling
           /\ UNCHANGED <<bill, metrics, drifted>>
    <1>1. /\ request.todo = <<"reprice", "save">> /\ request \in RequestRow
          /\ UNCHANGED <<bill, metrics, drifted>>
        BY DEF Reprice, TicketInv, Repricing, RowsOK
    <1>2. CASE request' = Idle
        BY <1>1, <1>2, NotSettling, BlankRows
    <1>3. CASE request'.todo = <<"save">>
        BY <1>1, <1>3, NotSettling
    <1>4. request' = Idle \/ request'.todo = <<"save">>
        <2>1. ASSUME NEW row, NEW n,
                     request' = [request EXCEPT !.row = row, !.taken = n, !.todo = Tail(request.todo)]
              PROVE  request'.todo = <<"save">>
            BY <1>1, <2>1 DEF RequestRow
        <2>2. QED
            BY <2>1, Zenon DEF Reprice
    <1>5. QED
        BY <1>2, <1>3, <1>4

\* A bill that comes to COMPLETED or leaves it is ahead of its partner's
\* figures; one that was COMPLETED and stays so has not changed.
LEMMA SaveExact ==
    ASSUME TicketInv, Save, ~drifted', NEW p \in Partner, NEW k \in Figures, Exact(p, k)
    PROVE  Exact(p, k)'
    <1> DEFINE b == request.bill
               row == request.row
               prev == bill[b]
               todo == AfterSave(prev.status, row)
               r == [request EXCEPT !.taken = 0]
               n == Amount(row, k)
    <1>1. /\ At("save") /\ request.todo = <<"save">> /\ b \in BillId /\ row \in BillRow
          /\ request \in RequestRow /\ bill' = [bill EXCEPT ![b] = row]
          /\ Goto(r, todo) /\ UNCHANGED metrics
        BY DEF Save, AfterSave, TicketInv, Saving, RowsOK
    <1>2. prev.status = "COMPLETED" =>
              prev.partner = row.partner /\ prev.tickets = row.tickets /\ prev.total = row.total
        BY DEF Save
    <1>3. r \in RequestRow /\ r.row = row
        BY <1>1, TakenFacts
    <1>4. /\ todo \in {<<>>, <<"refund", "flag">>} \cup Entering \cup Left
          /\ todo \in Entering <=> prev.status # "COMPLETED" /\ row.status = "COMPLETED"
          /\ todo \in Left <=> prev.status = "COMPLETED" /\ row.status # "COMPLETED"
        BY <1>1, SaveTransition
    <1>5. n \in Nat /\ Counted(row, p, k) \in Nat /\ Counted(prev, p, k) \in Nat /\ Figure(p, k) \in Nat
        BY <1>1, AmountType, FigureTypes DEF TicketInv
    <1>6. Figure(p, k)' = Figure(p, k) + (Counted(row, p, k) - Counted(prev, p, k))
        BY <1>1, <1>5, FigureMoves DEF TicketInv
    <1>7. Entry(metrics, p, k) = Figure(p, k)
        <2>1. Ahead(request, p, k) = 0
            BY <1>1, NotSettling, QuietAhead
        <2>2. QED
            BY <1>5, <2>1 DEF Exact
    <1>8. /\ Counted(row, p, k) = IF row.status = "COMPLETED" /\ row.partner = p THEN n ELSE 0
          /\ Counted(prev, p, k) = IF prev.status = "COMPLETED" /\ row.partner = p THEN n ELSE 0
        BY <1>2 DEF Counted, Amount
    <1> HIDE DEF todo, r, n
    <1>9. todo \in {<<>>} \cup Settling /\ todo \notin Removed
        BY <1>4, SavedTodo
    <1>10. Ahead(request', p, k) = IF row.partner # p THEN 0
                ELSE IF todo \in Entering THEN -n ELSE IF todo \in Left THEN n ELSE 0
        <2>1. CASE todo = <<>>
            <3>1. request' = Idle
                BY <1>1, <1>3, <2>1, GotoFacts
            <3>2. Ahead(request', p, k) = 0
                BY <3>1, QuietAhead, BlankRows
            <3>3. todo \notin Entering /\ todo \notin Left
                BY <2>1, Classes
            <3>4. QED
                BY <3>2, <3>3
        <2>2. CASE todo # <<>>
            <3>1. request'.row = row /\ request'.todo = todo
                BY <1>1, <1>3, <1>9, <2>2, GotoFacts
            <3>2. QED
                BY <1>9, <3>1 DEF Ahead, Lacks, n
        <2>3. QED
            BY <2>1, <2>2
    <1>11. Figure(p, k)' + Ahead(request', p, k) = Figure(p, k)
        <2> HIDE DEF row, prev
        <2>1. CASE row.partner # p
            BY <1>5, <1>6, <1>8, <1>10, <2>1
        <2>2. CASE row.partner = p /\ todo \in Entering
            BY <1>4, <1>5, <1>6, <1>8, <1>10, <2>2
        <2>3. CASE row.partner = p /\ todo \in Left
            <3>1. todo \notin Entering
                BY <1>4, <2>3
            <3>2. QED
                BY <1>4, <1>5, <1>6, <1>8, <1>10, <2>3, <3>1
        <2>4. CASE row.partner = p /\ todo \notin Entering /\ todo \notin Left
            BY <1>4, <1>5, <1>6, <1>8, <1>10, <2>4
        <2>5. QED
            BY <2>1, <2>2, <2>3, <2>4
    <1>12. QED
        BY <1>1, <1>7, <1>11 DEF Exact

\* A bill that is counted is removed from its partner's figures first.
LEMMA RemoveExact ==
    ASSUME TicketInv, NEW b \in BillId, Remove(b), NEW p \in Partner, NEW k \in Figures, Exact(p, k)
    PROVE  Exact(p, k)'
    <1> DEFINE row == bill[b]
               todo == AfterRemove(row)
    <1>1. /\ request = Idle /\ Live(b) /\ UNCHANGED <<bill, metrics>>
          /\ request'.todo = todo /\ request'.row = row
        BY DEF Remove, Serve, AfterRemove, Idle
    <1>2. row \in BillRow
        BY <1>1, NoRow DEF TicketInv
    <1>3. /\ todo \in Removing \cup {<<"refund", "flag", "delete">>, <<"delete">>}
          /\ todo \in Removing <=> row.status = "COMPLETED"
        BY <1>2, RemoveTransition
    <1> HIDE DEF todo, row
    <1>4. todo \notin Left /\ todo \notin Entering /\ (todo \in Removing => todo \notin Removed)
        <2>1. CASE todo \in Removing
            <3>1. todo \in Settling
                BY <2>1 DEF Settling
            <3>2. QED
                BY <2>1, <3>1, HeadClasses DEF WrittenBy
        <2>2. CASE todo \in {<<"refund", "flag", "delete">>, <<"delete">>}
            BY <2>2, Classes
        <2>3. QED
            BY <1>3, <2>1, <2>2
    <1>5. Ahead(request', p, k) = 0 /\ Ahead(request, p, k) = 0
        <2>1. Ahead(request', p, k) = 0
            BY <1>1, <1>3, <1>4 DEF Ahead, Lacks
        <2>2. QED
            BY <1>1, <2>1, QuietAhead, BlankRows
    <1>6. Figure(p, k)' = Figure(p, k) /\ metrics' = metrics
        BY <1>1, FigureStays
    <1>7. QED
        BY <1>5, <1>6 DEF Exact

\* adjustBookingMetrics moves both figures of the row's partner.
LEMMA AdjustEntry ==
    ASSUME RowsOK, request.row \in BillRow, NEW sign \in {1, -1}, Adjust(sign),
           NEW p \in Partner, NEW k \in Figures
    PROVE  /\ Entry(metrics, p, k) \in Int
           /\ Entry(metrics', p, k) = IF request.row.partner = p
                                      THEN Entry(metrics, p, k) + sign * Amount(request.row, k)
                                      ELSE Entry(metrics, p, k)
    <1> DEFINE row == request.row
               q == row.partner
               new == [bookings |-> metrics[q].bookings + sign * row.tickets,
                       revenue |-> metrics[q].revenue + sign * row.total]
    <1>1. q \in Partner
        BY DEF BillRow
    <1>2. metrics' = [metrics EXCEPT ![q] = new] /\ metrics \in [Partner -> [bookings : Int, revenue : Int]]
        BY DEF Adjust, RowsOK
    <1>3. Entry(metrics, p, k) \in Int
        BY <1>2 DEF Entry
    <1>4. new.bookings = metrics[q].bookings + sign * row.tickets
          /\ new.revenue = metrics[q].revenue + sign * row.total
        OBVIOUS
    <1> HIDE DEF new, q
    <1>5. metrics'[p] = IF q = p THEN new ELSE metrics[p]
        BY <1>1, <1>2
    <1>6. Entry(metrics', p, k) = IF q = p THEN Entry(metrics, p, k) + sign * Amount(row, k)
                                  ELSE Entry(metrics, p, k)
        BY <1>4, <1>5 DEF Entry, Amount
    <1>7. QED
        BY <1>3, <1>6 DEF q

\* The request after a step whose rest is t.
LEMMA OnTheWay ==
    ASSUME NEW r \in RequestRow, NEW t \in {<<>>} \cup Settling, Goto(r, t), NEW p, NEW k
    PROVE  Ahead(request', p, k) =
               IF t = <<>> \/ r.row.partner # p THEN 0
               ELSE IF t \in Entering \/ (t \in Removed /\ r.row.status = "COMPLETED") THEN -Amount(r.row, k)
               ELSE IF t \in Left THEN Amount(r.row, k) ELSE 0
    <1>1. CASE t = <<>>
        BY <1>1, GotoFacts, QuietAhead, BlankRows
    <1>2. CASE t # <<>>
        BY <1>2, GotoFacts DEF Ahead, Lacks
    <1>3. QED
        BY <1>1, <1>2

\* Where a request stands before and after a step of what it has to write.
LEMMA OnTheWayExact ==
    ASSUME TicketInv, NEW s \in {"count", "redeem", "uncount", "retake", "refund"}, At(s),
           NEW r \in RequestRow, r.row = request.row,
           Goto(r, Tail(request.todo)), NEW p, NEW k
    PROVE  LET n == IF request.row.partner # p THEN 0 ELSE Amount(request.row, k) IN
           /\ n \in Nat /\ request.row \in BillRow
           /\ s = "count" => Ahead(request, p, k) = -n /\ Ahead(request', p, k) = 0
           /\ s = "uncount" => \/ Ahead(request, p, k) = n /\ Ahead(request', p, k) = 0
                               \/ Ahead(request, p, k) = 0 /\ Ahead(request', p, k) = -n
           /\ s \in {"redeem", "retake", "refund"} => Ahead(request', p, k) = Ahead(request, p, k)
    <1> DEFINE row == request.row
               todo == request.todo
               t == Tail(request.todo)
               m == Amount(row, k)
    <1>1. todo \in Settling /\ Head(todo) = s /\ request \in RequestRow /\ row \in BillRow
        BY WhereAt DEF TicketInv, At, RowsOK, SettlingRow
    <1>2. StillOn(todo, t) /\ WrittenBy(todo)
        BY <1>1, NextClasses, HeadClasses
    <1>3. m \in Nat
        BY <1>1, AmountType
    <1>4. todo \in Removing => row.status = "COMPLETED"
        BY <1>1 DEF TicketInv, SettlingRow
    <1> HIDE DEF m, t
    <1>5. t \in {<<>>} \cup Settling /\ Goto(r, t)
        BY <1>2 DEF StillOn, t
    <1>6. Ahead(request', p, k) = IF t \in Removed /\ row.status = "COMPLETED" /\ row.partner = p THEN -m ELSE 0
        <2>1. t \notin Entering /\ t \notin Left /\ (t = <<>> => t \notin Removed)
            BY <1>2, BlankRows DEF StillOn, Settling
        <2>2. Ahead(request', p, k) =
               IF t = <<>> \/ r.row.partner # p THEN 0
               ELSE IF t \in Entering \/ (t \in Removed /\ r.row.status = "COMPLETED") THEN -Amount(r.row, k)
               ELSE IF t \in Left THEN Amount(r.row, k) ELSE 0
            BY <1>5, OnTheWay
        <2>3. QED
            BY <2>1, <2>2 DEF m
    <1>7. Ahead(request, p, k) =
              IF row.partner # p THEN 0
              ELSE IF todo \in Entering \/ (todo \in Removed /\ row.status = "COMPLETED") THEN -m
              ELSE IF todo \in Left THEN m ELSE 0
        BY DEF Ahead, Lacks, m
    <1>8. CASE s = "count"
        <2>1. todo \in Entering /\ t \notin Removed
            <3>1. todo \in Entering /\ todo \notin Removed /\ todo \notin Removing
                BY <1>1, <1>2, <1>8 DEF WrittenBy
            <3>2. QED
                BY <1>2, <3>1 DEF StillOn, t
        <2>2. QED
            BY <1>1, <1>3, <1>6, <1>7, <1>8, <2>1 DEF m
    <1>9. CASE s = "uncount"
        <2>1. todo \notin Entering /\ todo \notin Removed /\ (todo \in Left \/ todo \in Removing)
              /\ (todo \in Left => todo \notin Removing)
            BY <1>1, <1>2, <1>9 DEF WrittenBy
        <2>2. t \in Removed <=> todo \in Removing
            BY <1>2, <2>1 DEF StillOn, t
        <2>3. QED
            BY <1>1, <1>3, <1>4, <1>6, <1>7, <1>9, <2>1, <2>2 DEF m
    <1>10. CASE s \in {"redeem", "retake", "refund"}
        <2>1. todo \notin Entering /\ todo \notin Left /\ todo \notin Removing
            BY <1>1, <1>2, <1>10 DEF WrittenBy
        <2>2. t \in Removed <=> todo \in Removed
            BY <1>2, <2>1 DEF StillOn, t
        <2>3. QED
            BY <1>1, <1>3, <1>6, <1>7, <1>10, <2>1, <2>2 DEF m
    <1>11. QED
        BY <1>8, <1>9, <1>10

\* adjustBookingMetrics pays exactly what the request owes the partner.
LEMMA CountExact ==
    ASSUME TicketInv, Count \/ Uncount, NEW p \in Partner, NEW k \in Figures, Exact(p, k)
    PROVE  Exact(p, k)'
    <1> DEFINE n == IF request.row.partner # p THEN 0 ELSE Amount(request.row, k)
    <1>1. /\ Count => At("count") /\ Adjust(1) /\ Goto(request, Tail(request.todo)) /\ UNCHANGED bill
          /\ Uncount => At("uncount") /\ Adjust(-1) /\ Goto(request, Tail(request.todo)) /\ UNCHANGED bill
        BY DEF Count, Uncount, Done
    <1>2. RowsOK /\ request \in RequestRow
        BY DEF TicketInv, RowsOK
    <1>3. Figure(p, k)' = Figure(p, k) /\ Figure(p, k) \in Nat
        BY <1>1, <1>2, FigureStays, FigureTypes
    <1>4. CASE Count
        <2>1. /\ n \in Nat /\ request.row \in BillRow
              /\ Ahead(request, p, k) = -n /\ Ahead(request', p, k) = 0
            BY <1>1, <1>2, <1>4, OnTheWayExact
        <2>2. /\ Entry(metrics, p, k) \in Int
              /\ Entry(metrics', p, k) = IF request.row.partner = p
                                         THEN Entry(metrics, p, k) + 1 * Amount(request.row, k)
                                         ELSE Entry(metrics, p, k)
            BY <1>1, <1>2, <1>4, <2>1, AdjustEntry
        <2>3. Entry(metrics', p, k) = Entry(metrics, p, k) + n
            BY <2>1, <2>2
        <2> HIDE DEF n
        <2>4. Entry(metrics', p, k) = Figure(p, k)' + Ahead(request', p, k)
            BY <1>3, <2>1, <2>2, <2>3 DEF Exact
        <2>5. QED
            BY <2>4 DEF Exact
    <1>5. CASE Uncount
        <2>1. /\ n \in Nat /\ request.row \in BillRow
              /\ \/ Ahead(request, p, k) = n /\ Ahead(request', p, k) = 0
                 \/ Ahead(request, p, k) = 0 /\ Ahead(request', p, k) = -n
            BY <1>1, <1>2, <1>5, OnTheWayExact
        <2>2. /\ Entry(metrics, p, k) \in Int
              /\ Entry(metrics', p, k) = IF request.row.partner = p
                                         THEN Entry(metrics, p, k) + (-1) * Amount(request.row, k)
                                         ELSE Entry(metrics, p, k)
            BY <1>1, <1>2, <1>5, <2>1, AdjustEntry
        <2>3. Entry(metrics', p, k) = Entry(metrics, p, k) - n
            BY <2>1, <2>2
        <2> HIDE DEF n
        <2>4. Entry(metrics', p, k) = Figure(p, k)' + Ahead(request', p, k)
            BY <1>3, <2>1, <2>2, <2>3 DEF Exact
        <2>5. QED
            BY <2>4 DEF Exact
    <1>6. QED
        BY <1>4, <1>5

\* Voucher and points do not touch what is owed.
LEMMA OtherExact ==
    ASSUME TicketInv, TicketInv', Redeem \/ Retake \/ Refund, NEW p \in Partner, NEW k \in Figures, Exact(p, k)
    PROVE  Exact(p, k)'
    <1> DEFINE n == points - points'
    <1>1. /\ UNCHANGED <<bill, metrics>>
          /\ Redeem => At("redeem") /\ Goto(request, Tail(request.todo))
          /\ Refund => At("refund") /\ Goto(request, Tail(request.todo))
          /\ Retake => /\ At("retake") /\ Goto([request EXCEPT !.taken = n], Tail(request.todo))
                       /\ points' = Positive(points - request.row.points)
        BY Zenon DEF Redeem, Retake, Refund, Done
    <1>2. request \in RequestRow
        BY DEF TicketInv, RowsOK
    <1>3. Ahead(request', p, k) = Ahead(request, p, k)
        <2>1. CASE Redeem
            BY <1>1, <1>2, <2>1, OnTheWayExact
        <2>2. CASE Refund
            BY <1>1, <1>2, <2>2, OnTheWayExact
        <2>3. CASE Retake
            <3> DEFINE r == [request EXCEPT !.taken = n]
            <3>1. At("retake") /\ Goto(r, Tail(request.todo))
                BY <1>1, <2>3
            <3>2. n \in Nat
                <4>1. request.row \in BillRow
                    BY <3>1, NothingTaken
                <4>2. request.row.points \in Nat /\ points \in Nat
                    BY <4>1 DEF BillRow, TicketInv, RowsOK
                <4>3. QED
                    BY <1>1, <2>3, <4>2 DEF Positive
            <3> HIDE DEF n
            <3>3. r \in RequestRow /\ r.row = request.row
                BY <1>2, <3>2, TakenFacts
            <3> HIDE DEF r
            <3>4. QED
                BY <3>1, <3>3, OnTheWayExact
        <2>4. QED
            BY <2>1, <2>2, <2>3
    <1>4. Figure(p, k)' = Figure(p, k) /\ metrics' = metrics
        BY <1>1, FigureStays
    <1>5. QED
        BY <1>3, <1>4 DEF Exact

\* The flag is no part of what a bill counts for.
LEMMA FlagExact ==
    ASSUME TicketInv, Flag, NEW p \in Partner, NEW k \in Figures, Exact(p, k)
    PROVE  Exact(p, k)'
    <1> DEFINE b == request.bill
               row == request.row
               todo == request.todo
               t == Tail(request.todo)
               r == [request EXCEPT !.taken = 0]
               new == [bill[b] EXCEPT !.refunded = At("flag")]
    <1>1. /\ At("flag") \/ At("unflag")
          /\ bill' = [bill EXCEPT ![b] = new]
          /\ Goto(r, t) /\ UNCHANGED metrics
        BY DEF Flag
    <1>2. request \in RequestRow /\ todo \in Settling
        <2>1. request \in RequestRow
            BY DEF TicketInv, RowsOK
        <2>2. QED
            BY <1>1, <2>1, WhereAt DEF TicketInv
    <1>3. \/ todo \in {<<"flag">>, <<"unflag">>} /\ t = <<>>
          \/ todo = <<"flag", "delete">> /\ t = <<"delete">>
        <2>1. Head(todo) \in {"flag", "unflag"}
            BY <1>1 DEF At
        <2>2. TodoSteps(todo)
            BY <1>2, NextTodo
        <2>3. QED
            BY <2>1, <2>2 DEF TodoSteps
    <1>4. b \in BillId /\ row \in BillRow /\ bill[b] = row
        <2>1. todo # <<"delete">>
            BY <1>3
        <2>2. QED
            BY <1>2, <2>1 DEF TicketInv, SettlingRow
    <1>5. Counted(new, p, k) = Counted(bill[b], p, k) /\ Counted(bill[b], p, k) \in Nat
        <2>1. SameFigures(new, bill[b])
            BY <1>4 DEF BillRow, SameFigures
        <2> HIDE DEF new
        <2>2. QED
            BY <1>4, <2>1, AmountType DEF SameFigures, Counted, Amount
    <1>6. r \in RequestRow /\ r.row = row
        BY <1>2, TakenFacts
    <1> HIDE DEF new, r, t
    <1>7. Figure(p, k)' = Figure(p, k)
        <2>1. Figure(p, k)' = Figure(p, k) + (Counted(new, p, k) - Counted(bill[b], p, k))
            BY <1>1, <1>4, <1>5, FigureMoves DEF TicketInv
        <2>2. Figure(p, k) \in Nat
            BY FigureTypes DEF TicketInv
        <2>3. QED
            BY <1>5, <2>1, <2>2
    <1>8. /\ todo \notin Entering /\ todo \notin Left /\ t \notin Entering /\ t \notin Left
          /\ t \in {<<>>} \cup Settling
          /\ todo \in Removed <=> t \in Removed
        <2>1. CASE todo \in {<<"flag">>, <<"unflag">>} /\ t = <<>>
            BY <2>1 DEF Entering, Left, Removed
        <2>2. CASE todo = <<"flag", "delete">> /\ t = <<"delete">>
            BY <2>2 DEF Entering, Left, Removed, Settling
        <2>3. QED
            BY <1>3, <2>1, <2>2
    <1>9. Ahead(request', p, k) = Ahead(request, p, k)
        <2>1. Ahead(request', p, k) =
               IF t = <<>> \/ r.row.partner # p THEN 0
               ELSE IF t \in Entering \/ (t \in Removed /\ r.row.status = "COMPLETED") THEN -Amount(r.row, k)
               ELSE IF t \in Left THEN Amount(r.row, k) ELSE 0
            BY <1>1, <1>6, <1>8, OnTheWay
        <2>2. t = <<>> => t \notin Removed
            BY DEF Removed
        <2>3. QED
            BY <1>6, <1>8, <2>1, <2>2 DEF Ahead, Lacks
    <1>10. QED
        BY <1>1, <1>7, <1>9 DEF Exact

\* The bill goes after its partner's figures have been put right.
LEMMA DeleteExact ==
    ASSUME TicketInv, Delete, NEW p \in Partner, NEW k \in Figures, Exact(p, k)
    PROVE  Exact(p, k)'
    <1> DEFINE b == request.bill
               row == request.row
    <1>1. /\ At("delete") /\ bill' = [bill EXCEPT ![b] = NoBill]
          /\ Goto(request, Tail(request.todo)) /\ UNCHANGED metrics
        BY DEF Delete, Done
    <1>2. request.todo \in Settling /\ b \in BillId /\ row \in BillRow
        BY <1>1, NothingTaken
    <1>3. request.todo = <<"delete">> /\ Tail(request.todo) = <<>>
        BY <1>1, <1>2, NextTodo DEF At, TodoSteps
    <1>4. request' = Idle
        BY <1>1, <1>3 DEF Goto
    <1>5. SameFigures(bill[b], row)
        BY <1>2, <1>3 DEF TicketInv, SettlingRow
    <1> HIDE DEF b, row
    <1>6. Counted(bill[b], p, k) = Counted(row, p, k) /\ Counted(row, p, k) \in Nat
        BY <1>2, <1>5, AmountType DEF SameFigures, Counted, Amount
    <1>7. Figure(p, k)' = Figure(p, k) - Counted(row, p, k) /\ Figure(p, k) \in Nat
        <2>1. RowsOK /\ Counted(NoBill, p, k) = 0
            BY BlankCounts DEF TicketInv
        <2>2. Figure(p, k)' = Figure(p, k) + (Counted(NoBill, p, k) - Counted(bill[b], p, k))
            <3>1. b \in BillId /\ Counted(NoBill, p, k) \in Nat
                  /\ bill' = [bill EXCEPT ![b] = NoBill]
                BY <1>1, <1>2, <2>1
            <3>2. QED
                BY <2>1, <3>1, FigureMoves
        <2>3. Figure(p, k) \in Nat
            BY <2>1, FigureTypes
        <2>4. QED
            BY <1>6, <2>1, <2>2, <2>3
    <1>8. Ahead(request, p, k) = -Counted(row, p, k)
        <2>1. request.todo \in Removed /\ request.todo \notin Entering /\ request.todo \notin Left
            BY <1>3 DEF Removed, Entering, Left
        <2>2. Amount(row, k) \in Nat
            BY <1>2, AmountType
        <2>3. QED
            BY <2>1, <2>2 DEF Ahead, Lacks, Counted, row
    <1>9. Ahead(request', p, k) = 0
        BY <1>4, QuietAhead, BlankRows
    <1>10. Entry(metrics, p, k) = Figure(p, k)' + Ahead(request', p, k)
        BY <1>6, <1>7, <1>8, <1>9 DEF Exact
    <1>11. QED
        BY <1>1, <1>10 DEF Exact

\* A request that breaks off is not ahead, or BreaksCount says so.
LEMMA BrokenOffExact ==
    ASSUME TicketInv, SaveRefused \/ Fail, ~drifted', NEW p \in Partner, NEW k \in Figures, Exact(p, k)
    PROVE  Exact(p, k)'
    <1>1. request' = Idle /\ UNCHANGED <<bill, metrics>>
        BY DEF SaveRefused, Fail
    <1>2. Ahead(request, p, k) = 0
        <2>1. CASE request.todo \notin Settling
            BY <2>1, QuietAhead
        <2>2. CASE request.todo \in Settling
            <3>1. WrittenBy(request.todo)
                BY <2>2, HeadClasses
            <3>2. ~SaveRefused
                BY <2>2, AtFacts DEF SaveRefused
            <3>3. ~BreaksCount
                BY <3>2 DEF Fail
            <3>4. ~Lacks(request) /\ request.todo \notin Left
                BY <3>1, <3>3 DEF BreaksCount, Lacks, WrittenBy
            <3>5. QED
                BY <3>4 DEF Ahead
        <2>3. QED
            BY <2>1, <2>2
    <1>3. Ahead(request', p, k) = 0
        BY <1>1, QuietAhead, BlankRows
    <1>4. Figure(p, k)' = Figure(p, k) /\ metrics' = metrics
        BY <1>1, FigureStays
    <1>5. QED
        BY <1>2, <1>3, <1>4 DEF Exact

\* All figures are 0 in the beginning.
LEMMA InitRevenue ==
    ASSUME Init
    PROVE  RevenueInv
    <1> SUFFICES ASSUME NEW p \in Partner, NEW k \in Figures PROVE Exact(p, k)
        BY DEF RevenueInv
    <1>1. \A b \in BillId : CountedBills(p, k)[b] = 0
        BY BlankCounts DEF Init, CountedBills
    <1>2. Figure(p, k) = 0
        BY <1>1, TicketAssumption, SumZero DEF Figure
    <1>3. Ahead(request, p, k) = 0
        BY QuietAhead, BlankRows DEF Init
    <1>4. Entry(metrics, p, k) = 0
        BY DEF Init, Entry
    <1>5. QED
        BY <1>2, <1>3, <1>4 DEF Exact

\* Every step keeps each figure equal to the COMPLETED bills and what the request is ahead or behind.
LEMMA NextRevenue ==
    ASSUME TicketInv, TicketInv', RevenueInv, [Next]_ticketVars
    PROVE  RevenueInv'
    <1> SUFFICES ASSUME ~drifted', NEW p \in Partner, NEW k \in Figures PROVE Exact(p, k)'
        BY DEF RevenueInv
    <1>1. ~drifted
        <2>1. CASE UNCHANGED ticketVars
            BY <2>1 DEF ticketVars
        <2>2. CASE Next
            BY <2>2 DEF Next, FlightRequest, BusRequest, TrainRequest, CreateFlightBill, CreateBusBill,
                CreateTrainBill, Create, Update, Remove, Reprice, Save, SaveRefused, Count, Uncount,
                Redeem, Retake, Refund, Flag, Delete, Fail
        <2>3. QED
            BY <2>1, <2>2
    <1>2. Exact(p, k)
        BY <1>1 DEF RevenueInv
    <1>3. ASSUME NEW b \in BillId, FlightRequest(b) \/ BusRequest(b) \/ TrainRequest(b)
          PROVE  Exact(p, k)'
        <2>1. CASE \E kind \in {"flight", "bus", "train"}, offer \in Offered : Create(b, kind, offer)
            BY <1>2, <2>1, StartsQuiet, QuietExact
        <2>2. CASE \E ask \in Asked : Update(b, ask)
            BY <1>2, <2>2, StartsQuiet, QuietExact
        <2>3. CASE Remove(b)
            BY <1>2, <2>3, RemoveExact
        <2>4. QED
            BY <1>3, <2>1, <2>2, <2>3, Requests
    <1>4. CASE Reprice
        BY <1>2, <1>4, RepriceQuiet, QuietExact
    <1>5. CASE Save
        BY <1>2, <1>5, SaveExact
    <1>6. CASE SaveRefused \/ Fail
        BY <1>2, <1>6, BrokenOffExact
    <1>7. CASE Count \/ Uncount
        BY <1>2, <1>7, CountExact
    <1>8. CASE Redeem \/ Retake \/ Refund
        BY <1>2, <1>8, OtherExact
    <1>9. CASE Flag
        BY <1>2, <1>9, FlagExact
    <1>10. CASE Delete
        BY <1>2, <1>10, DeleteExact
    <1>11. CASE UNCHANGED ticketVars
        <2>1. Figure(p, k)' = Figure(p, k) /\ metrics' = metrics /\ request' = request
            BY <1>11, FigureStays DEF ticketVars
        <2>2. QED
            BY <1>2, <2>1 DEF Exact
    <1>12. QED
        BY <1>3, <1>4, <1>5, <1>6, <1>7, <1>8, <1>9, <1>10, <1>11 DEF Next

\* What RevenueExact adds up, in the form the sums' lemmas speak of.
LEMMA SumOfTickets ==
    ASSUME NEW f, NEW S
    PROVE  MapThenSumSet(LAMBDA x : f[x].tickets, S) = SumOver([x \in S |-> f[x].tickets], S)
    <1> DEFINE A(h) == h = [s \in SUBSET S |-> IF s = {} THEN 0
                  ELSE f[CHOOSE x \in s : TRUE].tickets + h[s \ {CHOOSE x \in s : TRUE}]]
               d == [x \in S |-> f[x].tickets]
    <1>1. \A h : A(h) <=> IsSums(h, d, S)
        <2>1. \A s \in SUBSET S : s # {} => d[CHOOSE x \in s : TRUE] = f[CHOOSE x \in s : TRUE].tickets
            BY FirstFact DEF First
        <2> HIDE DEF d
        <2>. QED
            BY <2>1 DEF IsSums, First
    <1>2. (CHOOSE h : A(h)) = (CHOOSE h : IsSums(h, d, S))
        <2> HIDE DEF A, d
        <2>. QED
            BY <1>1
    <1>3. MapThenSumSet(LAMBDA x : f[x].tickets, S) = (CHOOSE h : A(h))[S]
        BY DEF MapThenSumSet, MapThenFoldSet
    <1>. QED
        BY <1>2, <1>3, SumOverIsSums

\* The revenue that RevenueExact adds up, as a sum of this development.
LEMMA SumOfTotals ==
    ASSUME NEW f, NEW S
    PROVE  MapThenSumSet(LAMBDA x : f[x].total, S) = SumOver([x \in S |-> f[x].total], S)
    <1> DEFINE A(h) == h = [s \in SUBSET S |-> IF s = {} THEN 0
                  ELSE f[CHOOSE x \in s : TRUE].total + h[s \ {CHOOSE x \in s : TRUE}]]
               d == [x \in S |-> f[x].total]
    <1>1. \A h : A(h) <=> IsSums(h, d, S)
        <2>1. \A s \in SUBSET S : s # {} => d[CHOOSE x \in s : TRUE] = f[CHOOSE x \in s : TRUE].total
            BY FirstFact DEF First
        <2> HIDE DEF d
        <2>. QED
            BY <2>1 DEF IsSums, First
    <1>2. (CHOOSE h : A(h)) = (CHOOSE h : IsSums(h, d, S))
        <2> HIDE DEF A, d
        <2>. QED
            BY <1>1
    <1>3. MapThenSumSet(LAMBDA x : f[x].total, S) = (CHOOSE h : A(h))[S]
        BY DEF MapThenSumSet, MapThenFoldSet
    <1>. QED
        BY <1>2, <1>3, SumOverIsSums

\* The sum over the bills that count is the partner's figure.
LEMMA FigureIsSum ==
    ASSUME RowsOK, NEW p \in Partner, NEW k \in Figures
    PROVE  SumOver([b \in CountedFor(p) |-> Amount(bill[b], k)], CountedFor(p)) = Figure(p, k)
    <1> DEFINE S == CountedFor(p)
               f == [b \in BillId |-> Amount(bill[b], k)]
               g == [b \in S |-> Amount(bill[b], k)]
               h == [b \in BillId |-> IF b \in S THEN f[b] ELSE 0]
    <1>1. S \in SUBSET BillId /\ \A b \in BillId : b \in S <=> bill[b].status = "COMPLETED" /\ bill[b].partner = p
        BY DEF CountedFor
    <1>2. IsFiniteSet(S) /\ IsFiniteSet(BillId)
        <2>1. IsFiniteSet(BillId) /\ S \in SUBSET BillId
            BY <1>1, TicketAssumption
        <2> HIDE DEF S
        <2>2. QED
            BY <2>1, FS_Subset
    <1>3. \A b \in BillId : f[b] = Amount(bill[b], k) /\ f[b] \in Int
        <2>1. Amount(NoBill, k) = 0
            BY BlankRows DEF Amount
        <2>2. \A b \in BillId : bill[b] \in BillRow \cup {NoBill}
            BY DEF RowsOK
        <2>3. \A b \in BillId : Amount(bill[b], k) \in Nat
            BY <2>1, <2>2, AmountType
        <2>4. QED
            BY <2>3
    <1>4. \A b \in S : g[b] = f[b]
        BY <1>1
    <1>5. h = CountedBills(p, k)
        BY <1>1 DEF CountedBills, Counted
    <1> HIDE DEF S, f, g
    <1>6. SumOver(g, S) = SumOver(f, S)
        BY <1>2, <1>4, SumAgree
    <1>7. SumOver(f, S) = SumOver(h, BillId)
        BY <1>1, <1>2, <1>3, SumWithin
    <1>8. QED
        BY <1>5, <1>6, <1>7 DEF Figure, S, g

\* With no request under way nothing is ahead: the figures are exact.
LEMMA FiguresAreExact == RowsOK /\ RevenueInv => RevenueExact
    <1> SUFFICES ASSUME RowsOK, RevenueInv, request = Idle, ~drifted, NEW p \in Partner
                 PROVE  metrics[p] = [bookings |-> MapThenSumSet(LAMBDA b : bill[b].tickets, CountedFor(p)),
                                      revenue |-> MapThenSumSet(LAMBDA b : bill[b].total, CountedFor(p))]
        BY DEF RevenueExact
    <1> DEFINE S == CountedFor(p)
    <1>1. \A k \in Figures : Entry(metrics, p, k) = Figure(p, k)
        <2> SUFFICES ASSUME NEW k \in Figures PROVE Entry(metrics, p, k) = Figure(p, k)
            OBVIOUS
        <2>1. Exact(p, k) /\ Ahead(request, p, k) = 0
            BY QuietAhead, BlankRows DEF RevenueInv
        <2>2. Figure(p, k) \in Nat
            BY FigureTypes
        <2>3. QED
            BY <2>1, <2>2 DEF Exact
    <1>2. metrics[p].bookings = MapThenSumSet(LAMBDA b : bill[b].tickets, CountedFor(p))
        <2>1. MapThenSumSet(LAMBDA b : bill[b].tickets, S) = SumOver([b \in S |-> bill[b].tickets], S)
            BY SumOfTickets
        <2>2. "bookings" \in Figures /\ \A b : Amount(bill[b], "bookings") = bill[b].tickets
            BY DEF Figures, Amount
        <2>3. [b \in S |-> Amount(bill[b], "bookings")] = [b \in S |-> bill[b].tickets]
            BY <2>2
        <2>4. SumOver([b \in S |-> Amount(bill[b], "bookings")], S) = Figure(p, "bookings")
            BY <2>2, FigureIsSum
        <2>5. metrics[p].bookings = Figure(p, "bookings")
            BY <1>1, <2>2 DEF Entry
        <2>6. QED
            BY <2>1, <2>3, <2>4, <2>5
    <1>3. metrics[p].revenue = MapThenSumSet(LAMBDA b : bill[b].total, CountedFor(p))
        <2>1. MapThenSumSet(LAMBDA b : bill[b].total, S) = SumOver([b \in S |-> bill[b].total], S)
            BY SumOfTotals
        <2>2. "revenue" \in Figures /\ \A b : Amount(bill[b], "revenue") = bill[b].total
            BY DEF Figures, Amount
        <2>3. [b \in S |-> Amount(bill[b], "revenue")] = [b \in S |-> bill[b].total]
            BY <2>2
        <2>4. SumOver([b \in S |-> Amount(bill[b], "revenue")], S) = Figure(p, "revenue")
            BY <2>2, FigureIsSum
        <2>5. metrics[p].revenue = Figure(p, "revenue")
            BY <1>1, <2>2 DEF Entry
        <2>6. QED
            BY <2>1, <2>3, <2>4, <2>5
    <1>4. metrics[p] \in [bookings : Int, revenue : Int]
        BY DEF RowsOK
    <1> DEFINE x == MapThenSumSet(LAMBDA b : bill[b].tickets, CountedFor(p))
               y == MapThenSumSet(LAMBDA b : bill[b].total, CountedFor(p))
    <1>5. metrics[p].bookings = x /\ metrics[p].revenue = y
        BY <1>2, <1>3
    <1> HIDE DEF x, y
    <1>6. metrics[p] = [bookings |-> x, revenue |-> y]
        BY <1>4, <1>5
    <1>7. QED
        BY <1>6 DEF x, y

\* As long as no bill was changed while it counted and no request broke off
\* on its way there, a partner's bookings and revenue are those of its
\* COMPLETED bills (applyStatusTransition and adjustBookingMetrics).
THEOREM RevenueIsExact == Spec => []RevenueExact
    <1>1. Spec => []RevenueInv
        BY InitRevenue, NextRevenue, TicketInvariant, PTL DEF Spec
    <1>2. TicketInv => RowsOK
        BY DEF TicketInv
    <1>3. QED
        BY <1>1, <1>2, FiguresAreExact, TicketInvariant, PTL

\* The histories of all bookings are histories of the tickets.
LEMMA BookingsAreTickets == BookingsSpec => Spec
    <1>1. BookingsInit => Init
        BY DEF BookingsInit
    <1>2. [BookingsNext]_<<scope, ticketVars, servicesVars>> => [Next]_ticketVars
        BY DEF BookingsNext
    <1>3. QED
        BY <1>1, <1>2, PTL DEF BookingsSpec, Spec

\* The tickets keep all this next to the other bookings.
THEOREM TicketsOfBookings == BookingsSpec => [](SeatsMatch /\ NoPointsLost /\ RevenueExact)
    BY BookingsAreTickets, SeatsAlwaysMatch, PointsAreNotLost, RevenueIsExact, PTL


-----------------------------------------------------------------------------
\* Hotel, delivery and restaurant bills.

\* The commits of a request, by what it does; those of Closing end one.
PayWork == {"points", "redeem", "rooms", "paid"}
CompleteWork == {"release", "reward", "completed"}
CancelWork == {"release", "reward", "cancelled"}
Work == {"room", "voucher", "total"} \cup PayWork \cup CompleteWork \cup CancelWork
Closing == {"voucher", "total", "paid", "completed", "cancelled"}

Ends(todo) ==
    /\ todo # <<>>
    /\ \A i \in 1 .. Len(todo) : todo[i] \in Closing <=> i = Len(todo)

\* The status in which row waits for the commits of todo: no other request
\* changes it, and time passing does not.
Waits(row, todo) ==
    \/ /\ todo \in Seq({"room", "voucher"}) /\ row.status = "PENDING"
       /\ row.rooms + Len(todo) <= MaxRooms + 1
    \/ todo \in Seq({"total"}) /\ row.status = "PENDING"
    \/ todo \in Seq(PayWork) /\ row.status = "CONFIRMED"
    \/ todo \in Seq(CompleteWork) /\ row.status \in Services!InUse
    \/ todo \in Seq(CancelWork) /\ row.status \in Services!OpenStatus \cup Services!InUse

ServedOK ==
    /\ served \in [bill : BillId \cup {Nobody}, row : Services!Row, todo : Seq(Work) \cup Seq(BillId)]
    /\ served.bill # Nobody => Ends(served.todo) /\ Waits(service[served.bill], served.todo)
    /\ served.bill = Nobody =>
          /\ served.todo \in Seq(BillId)
          /\ \A i \in 1 .. Len(served.todo) :
                service[served.todo[i]].status \in Services!OpenStatus \cup {"CANCELLED"}

ServiceRows ==
    /\ service \in [BillId -> Services!Row]
    /\ \A b \in BillId : service[b].status = "none" => service[b].total = 0

ServiceInv == ServiceRows /\ ServedOK

-----------------------------------------------------------------------------
\* What is left of a request after a commit.
LEMMA TailEnds ==
    ASSUME NEW S, NEW todo \in Seq(S), Ends(todo)
    PROVE  /\ Head(todo) \in S /\ Tail(todo) \in Seq(S)
           /\ Len(todo) = 1 <=> Head(todo) \in Closing
           /\ Len(todo) # 1 => Ends(Tail(todo)) /\ Len(Tail(todo)) = Len(todo) - 1
           /\ \A i \in 1 .. Len(Tail(todo)) : Tail(todo)[i] = todo[i + 1]
    <1>1. todo # <<>> /\ \A i \in 1 .. Len(todo) : todo[i] \in Closing <=> i = Len(todo)
        BY DEF Ends
    <1>2. Len(todo) \in Nat /\ Len(todo) >= 1 /\ Head(todo) = todo[1]
        <2>1. Len(todo) \in Nat \ {0}
            BY <1>1, EmptySeq
        <2>2. QED
            BY <2>1
    <1>3. /\ Head(todo) \in S /\ Tail(todo) \in Seq(S) /\ Len(Tail(todo)) = Len(todo) - 1
          /\ \A i \in 1 .. Len(Tail(todo)) : Tail(todo)[i] = todo[i + 1]
        BY <1>1, HeadTailProperties
    <1>4. Len(todo) = 1 <=> Head(todo) \in Closing
        BY <1>1, <1>2
    <1>5. ASSUME Len(todo) # 1
          PROVE  Ends(Tail(todo))
        <2> DEFINE n == Len(todo)
                   t == Tail(todo)
        <2>1. Len(t) = n - 1 /\ n \in Nat /\ n > 1
            BY <1>2, <1>3, <1>5
        <2> HIDE DEF n, t
        <2>2. t # <<>>
            BY <2>1, EmptySeq
        <2>3. \A i \in 1 .. Len(t) : i + 1 \in 1 .. n /\ t[i] = todo[i + 1]
            BY <1>3, <2>1 DEF n, t
        <2>4. \A i \in 1 .. Len(t) : t[i] \in Closing <=> i + 1 = n
            BY <1>1, <2>3 DEF n
        <2>5. \A i \in 1 .. Len(t) : t[i] \in Closing <=> i = Len(t)
            BY <2>1, <2>4
        <2>6. QED
            BY <2>2, <2>5 DEF Ends, t
    <1>6. QED
        BY <1>2, <1>3, <1>4, <1>5

\* Statuses, and what a bill's life makes of them.
LEMMA Stages ==
    /\ Services!StageOf("none") = "none"
    /\ Services!StageOf("PENDING") = "pending"
    /\ Services!StageOf("CONFIRMED") = "confirmed"
    /\ \A s \in Services!InUse : Services!StageOf(s) = "active"
    /\ Services!StageOf("COMPLETED") = "completed"
    /\ Services!StageOf("CANCELLED") = "cancelled"
    BY DEF Services!StageOf, Services!InUse

\* How one bill may change: what BillLifecycle.tla says of its stage and cost.
Costs == 0 .. (MaxRooms * UnitPrice + UnitPrice)
Lives(old, new) ==
    \/ new.status = old.status /\ new.total = old.total
    \/ new.status = old.status /\ old.status \in Services!OpenStatus /\ new.total \in Costs
    \/ old.status = "none" /\ new.status = "PENDING" /\ new.total = old.total
    \/ old.status = "PENDING" /\ new.status = "CONFIRMED" /\ new.total \in Costs
    \/ old.status = "CONFIRMED" /\ new.status \in Services!InUse /\ new.total = old.total
    \/ old.status \in Services!InUse /\ new.status = "COMPLETED" /\ new.total = old.total
    \/ /\ old.status \in Services!OpenStatus \cup Services!InUse
       /\ new.status = "CANCELLED" /\ new.total = old.total

LifeStep == [Services!Lifecycle!Next]_(Services!Lifecycle!lifecycleVars)

\* Tables with the same statuses and totals are the same to BillLifecycle.tla.
LEMMA SameLife ==
    ASSUME \A b \in BillId : service'[b].status = service[b].status /\ service'[b].total = service[b].total
    PROVE  LifeStep
    BY DEF LifeStep, Services!Lifecycle!lifecycleVars

\* A function that differs in one place is the other with that place changed.
LEMMA OneChange ==
    ASSUME NEW A, NEW f, NEW g, NEW b \in A, NEW v, f = [c \in A |-> f[c]], g = [c \in A |-> g[c]],
           \A c \in A : g[c] = IF c = b THEN v ELSE f[c]
    PROVE  g = [f EXCEPT ![b] = v]
    OBVIOUS

\* A change of one bill is a step of BillLifecycle.tla.
LEMMA OneLife ==
    ASSUME ServiceRows, NEW b \in BillId, NEW new \in Services!Row,
           service' = [service EXCEPT ![b] = new], Lives(service[b], new)
    PROVE  LifeStep
    <1> DEFINE old == service[b]
               stage == [c \in BillId |-> Services!StageOf(service[c].status)]
               cost == [c \in BillId |-> service[c].total]
    <1>1. \A c \in BillId : service'[c] = IF c = b THEN new ELSE service[c]
        BY DEF ServiceRows
    <1>2. stage' = [stage EXCEPT ![b] = Services!StageOf(new.status)]
        <2>1. /\ stage = [c \in BillId |-> stage[c]] /\ stage' = [c \in BillId |-> stage'[c]]
              /\ \A c \in BillId : stage'[c] = IF c = b THEN Services!StageOf(new.status) ELSE stage[c]
            BY <1>1
        <2> HIDE DEF stage
        <2>2. QED
            BY <2>1, OneChange
    <1>3. cost' = [cost EXCEPT ![b] = new.total]
        <2>1. /\ cost = [c \in BillId |-> cost[c]] /\ cost' = [c \in BillId |-> cost'[c]]
              /\ \A c \in BillId : cost'[c] = IF c = b THEN new.total ELSE cost[c]
            BY <1>1
        <2> HIDE DEF cost
        <2>2. QED
            BY <2>1, OneChange
    <1>4. /\ stage[b] = Services!StageOf(old.status) /\ cost[b] = old.total /\ cost'[b] = new.total
          /\ new.total = old.total => cost' = cost
          /\ Services!StageOf(new.status) = Services!StageOf(old.status) => stage' = stage
        BY <1>1
    <1>5. CASE new.status = old.status /\ new.total = old.total
        BY <1>1, <1>5, SameLife
    <1>6. CASE new.status = old.status /\ old.status \in Services!OpenStatus /\ new.total \in Costs
        <2>1. Services!Lifecycle!Reprice(b)
            BY <1>2, <1>3, <1>4, <1>6, Stages DEF Services!Lifecycle!Reprice, Services!Lifecycle!NewCost, Costs, Services!OpenStatus
        <2>2. QED
            BY <2>1 DEF LifeStep, Services!Lifecycle!Next
    <1>7. CASE old.status = "none" /\ new.status = "PENDING" /\ new.total = old.total
        <2>1. Services!Lifecycle!Open(b)
            BY <1>2, <1>3, <1>4, <1>7, Stages DEF Services!Lifecycle!Open, Services!Lifecycle!Move
        <2>2. QED
            BY <2>1 DEF LifeStep, Services!Lifecycle!Next
    <1>8. CASE old.status = "PENDING" /\ new.status = "CONFIRMED" /\ new.total \in Costs
        <2>1. Services!Lifecycle!Confirm(b)
            BY <1>2, <1>3, <1>4, <1>8, Stages DEF Services!Lifecycle!Confirm, Services!Lifecycle!Move, Services!Lifecycle!NewCost, Costs
        <2>2. QED
            BY <2>1 DEF LifeStep, Services!Lifecycle!Next
    <1>9. CASE old.status = "CONFIRMED" /\ new.status \in Services!InUse /\ new.total = old.total
        <2>1. Services!Lifecycle!Begin(b)
            BY <1>2, <1>3, <1>4, <1>9, Stages DEF Services!Lifecycle!Begin, Services!Lifecycle!Move
        <2>2. QED
            BY <2>1 DEF LifeStep, Services!Lifecycle!Next
    <1>10. CASE old.status \in Services!InUse /\ new.status = "COMPLETED" /\ new.total = old.total
        <2>1. Services!Lifecycle!Complete(b)
            BY <1>2, <1>3, <1>4, <1>10, Stages DEF Services!Lifecycle!Complete, Services!Lifecycle!Move
        <2>2. QED
            BY <2>1 DEF LifeStep, Services!Lifecycle!Next
    <1>11. CASE /\ old.status \in Services!OpenStatus \cup Services!InUse
               /\ new.status = "CANCELLED" /\ new.total = old.total
        <2>1. Services!Lifecycle!Cancel(b)
            BY <1>2, <1>3, <1>4, <1>11, Stages DEF Services!Lifecycle!Cancel, Services!Lifecycle!Move, Services!OpenStatus
        <2>2. QED
            BY <2>1 DEF LifeStep, Services!Lifecycle!Next
    <1>12. QED
        BY <1>5, <1>6, <1>7, <1>8, <1>9, <1>10, <1>11 DEF Lives

-----------------------------------------------------------------------------
\* What a bill may cost.
LEMMA TotalType ==
    ASSUME NEW row \in Services!Row, NEW voucher \in BOOLEAN
    PROVE  /\ Services!HotelTotal(row, voucher) \in Costs
           /\ Services!DeliveryTotal(row, voucher) \in Costs
           /\ Services!Total(row, voucher) \in Costs
           /\ Costs \subseteq Nat
    <1> DEFINE n == row.rooms
               most == MaxRooms * UnitPrice
    <1>1. UnitPrice \in Nat /\ MaxRooms \in Nat /\ ServiceDiscount \in Nat /\ row.points \in Nat /\ n \in 0 .. MaxRooms
        BY ServiceAssumption DEF Services!Row
    <1>2. n * UnitPrice \in Nat /\ most \in Nat /\ n * UnitPrice <= most
        <2>1. PICK k \in Nat : MaxRooms = n + k
            <3>1. MaxRooms - n \in Nat /\ MaxRooms = n + (MaxRooms - n)
                BY <1>1
            <3>2. QED
                BY <3>1
        <2> HIDE DEF n
        <2>2. n * UnitPrice \in Nat /\ k * UnitPrice \in Nat
            BY <1>1
        <2>3. (n + k) * UnitPrice = n * UnitPrice + k * UnitPrice
            BY <1>1
        <2>4. QED
            BY <2>1, <2>2, <2>3
    <1>3. \A base \in Nat :
              Services!Positive(base - Services!Off(base, voucher) - row.points) \in 0 .. base
        BY <1>1 DEF Services!Positive, Services!Off
    <1>4. Services!HotelTotal(row, voucher) \in 0 .. n * UnitPrice
        BY <1>2, <1>3 DEF Services!HotelTotal
    <1>5. Services!DeliveryTotal(row, voucher) \in 0 .. UnitPrice
        BY <1>1, <1>3 DEF Services!DeliveryTotal
    <1> HIDE DEF n, most
    <1>6. Costs = 0 .. (most + UnitPrice)
        BY DEF Costs, most
    <1>7. QED
        BY <1>1, <1>2, <1>4, <1>5, <1>6 DEF Services!Total

\* A row that is written is in the table, but for the ages of the bill.
LEMMA SavedFacts ==
    ASSUME ServiceRows, NEW b \in BillId, NEW row \in Services!Row, Services!Saved(b, row)
    PROVE  \E new \in Services!Row :
              /\ service' = [service EXCEPT ![b] = new]
              /\ new.status = row.status /\ new.total = row.total
              /\ new.voucher = row.voucher /\ new.rooms = row.rooms
    <1> DEFINE new == [row EXCEPT !.quiet = @ /\ row = service[b], !.late = @ /\ row.status = "PENDING"]
    <1>1. service' = [service EXCEPT ![b] = new]
        BY DEF Services!Saved
    <1>2. new \in Services!Row
        BY DEF Services!Row
    <1>3. /\ new.status = row.status /\ new.total = row.total
          /\ new.voucher = row.voucher /\ new.rooms = row.rooms
        BY DEF Services!Row
    <1>4. QED
        BY <1>1, <1>2, <1>3

\* The rows after one of them is written.
LEMMA WrittenRows ==
    ASSUME ServiceRows, NEW b \in BillId, NEW new \in Services!Row,
           service' = [service EXCEPT ![b] = new], new.status # "none"
    PROVE  /\ ServiceRows'
           /\ \A c \in BillId : service'[c] = IF c = b THEN new ELSE service[c]
    BY DEF ServiceRows

\* A request that is over.
LEMMA IdleServed == ASSUME served' = Services!Idle PROVE ServedOK'
    <1>1. Services!NoBill \in Services!Row
        BY ServiceAssumption DEF Services!NoBill, Services!Row, Services!Status, Services!Kind
    <1>2. /\ Services!Idle.bill = Nobody /\ Services!Idle.todo = <<>> /\ Services!Idle.row = Services!NoBill
          /\ Services!Idle = [bill |-> Nobody, row |-> Services!NoBill, todo |-> <<>>]
        BY DEF Services!Idle
    <1>3. <<>> \in Seq(BillId) /\ Len(<<>>) = 0
        BY EmptySeq
    <1>4. Services!Idle \in [bill : BillId \cup {Nobody}, row : Services!Row, todo : Seq(Work) \cup Seq(BillId)]
        BY <1>1, <1>2, <1>3
    <1>5. QED
        BY <1>2, <1>3, <1>4 DEF ServedOK

-----------------------------------------------------------------------------
\* The commits of a request, put together.

\* Commits with the one that ends the request behind them.
LEMMA EndsWith ==
    ASSUME NEW S, S \cap Closing = {}, NEW todo \in Seq(S), NEW x \in Closing, NEW A, S \cup {x} \subseteq A
    PROVE  /\ todo \o <<x>> \in Seq(A) /\ Ends(todo \o <<x>>)
           /\ Len(todo \o <<x>>) = Len(todo) + 1
           /\ \A i \in 1 .. Len(todo) : (todo \o <<x>>)[i] = todo[i]
    <1> DEFINE s == todo \o <<x>>
               n == Len(todo)
    <1>1. /\ todo \in Seq(A) /\ <<x>> \in Seq(A) /\ Len(<<x>>) = 1 /\ <<x>>[1] = x
          /\ n \in Nat /\ \A i \in 1 .. n : todo[i] \in S
        <2>1. n \in Nat /\ \A i \in 1 .. n : todo[i] \in S
            BY LenProperties
        <2>2. QED
            BY <2>1
    <1>2. /\ s \in Seq(A) /\ Len(s) = n + 1
          /\ \A i \in 1 .. n : s[i] = todo[i]
          /\ s[n + 1] = x
        BY <1>1, ConcatProperties
    <1> HIDE DEF s, n
    <1>3. s # <<>>
        <2>1. Len(s) # 0
            BY <1>1, <1>2
        <2>2. QED
            BY <2>1, EmptySeq
    <1>4. \A i \in 1 .. Len(s) : s[i] \in Closing <=> i = Len(s)
        <2> SUFFICES ASSUME NEW i \in 1 .. Len(s) PROVE s[i] \in Closing <=> i = Len(s)
            OBVIOUS
        <2>1. CASE i = n + 1
            BY <1>1, <1>2, <2>1
        <2>2. CASE i \in 1 .. n
            BY <1>1, <1>2, <2>2
        <2>3. QED
            BY <1>1, <1>2, <2>1, <2>2
    <1>5. QED
        BY <1>2, <1>3, <1>4 DEF Ends, s, n

\* Commits that are made on a condition.
LEMMA IfSteps ==
    ASSUME NEW S, NEW condition \in BOOLEAN, NEW todo \in Seq(S)
    PROVE  Services!If(condition, todo) \in Seq(S)
    BY EmptySeq DEF Services!If

\* An element of a sequence.
Has(s, x) == \E i \in 1 .. Len(s) : s[i] = x

\* Sequences put together have the elements of both.
LEMMA JoinHas ==
    ASSUME NEW S, NEW s \in Seq(S), NEW t \in Seq(S), NEW x
    PROVE  /\ s \o t \in Seq(S)
           /\ Has(s, x) \/ Has(t, x) => Has(s \o t, x)
    <1> DEFINE st == s \o t
               m == Len(s)
               n == Len(t)
    <1>1. m \in Nat /\ n \in Nat
        BY LenProperties
    <1>2. /\ st \in Seq(S) /\ Len(st) = m + n
          /\ \A i \in 1 .. (m + n) : st[i] = IF i <= m THEN s[i] ELSE t[i - m]
        BY ConcatProperties
    <1> HIDE DEF st, m, n
    <1>3. ASSUME NEW i \in 1 .. m, s[i] = x
          PROVE  i \in 1 .. Len(st) /\ st[i] = x
        BY <1>1, <1>2, <1>3
    <1>4. ASSUME NEW i \in 1 .. n, t[i] = x
          PROVE  m + i \in 1 .. Len(st) /\ st[m + i] = x
        <2>1. m + i \in 1 .. (m + n) /\ ~(m + i <= m) /\ (m + i) - m = i
            BY <1>1
        <2>2. st[m + i] = t[(m + i) - m]
            BY <1>2, <2>1
        <2>3. QED
            BY <1>2, <1>4, <2>1, <2>2
    <1>5. QED
        BY <1>2, <1>3, <1>4 DEF Has, st, m, n

\* pay counts the voucher of its bill before it saves the status.
LEMMA PayTodo ==
    ASSUME NEW row \in Services!Row
    PROVE  LET todo == Services!PaySteps(row) IN
           todo \in Seq(PayWork) /\ Ends(todo) /\ (row.voucher => Has(todo, "redeem"))
    <1> DEFINE S == {"points", "redeem", "rooms"}
               a == Services!If(row.points > 0, <<"points">>)
               b == Services!If(row.voucher, <<"redeem">>)
               c == Services!If(row.rooms > 0, <<"rooms">>)
    <1>1. <<"points">> \in Seq(S) /\ <<"redeem">> \in Seq(S) /\ <<"rooms">> \in Seq(S)
        OBVIOUS
    <1>2. (row.points > 0) \in BOOLEAN /\ (row.rooms > 0) \in BOOLEAN /\ row.voucher \in BOOLEAN
        BY DEF Services!Row
    <1>3. a \in Seq(S) /\ b \in Seq(S) /\ c \in Seq(S)
        BY <1>1, <1>2, IfSteps
    <1>4. row.voucher => Has(b, "redeem")
        BY DEF Services!If, Has
    <1>5. Services!PaySteps(row) = ((a \o b) \o c) \o <<"paid">>
        BY DEF Services!PaySteps
    <1> HIDE DEF S, a, b, c
    <1> DEFINE ab == a \o b
               abc == ab \o c
               todo == abc \o <<"paid">>
    <1>6. ab \in Seq(S) /\ (row.voucher => Has(ab, "redeem"))
        BY <1>3, <1>4, JoinHas
    <1> HIDE DEF ab
    <1>7. abc \in Seq(S) /\ (row.voucher => Has(abc, "redeem"))
        BY <1>3, <1>6, JoinHas
    <1> HIDE DEF abc
    <1>8. /\ todo \in Seq(PayWork) /\ Ends(todo)
        <2>1. S \cap Closing = {} /\ "paid" \in Closing /\ S \cup {"paid"} \subseteq PayWork
            BY DEF Closing, PayWork, S
        <2>2. QED
            BY <1>7, <2>1, EndsWith
    <1>9. row.voucher => Has(todo, "redeem")
        <2>1. abc \in Seq(PayWork) /\ <<"paid">> \in Seq(PayWork)
            <3>1. S \subseteq PayWork /\ "paid" \in PayWork
                BY DEF PayWork, S
            <3>2. QED
                BY <1>7, <3>1
        <2>2. QED
            BY <1>7, <2>1, JoinHas
    <1>10. Services!PaySteps(row) = todo
        BY <1>5 DEF abc, ab
    <1> HIDE DEF todo
    <1>11. QED
        BY <1>8, <1>9, <1>10

\* complete and cancel settle before they save the status.
LEMMA SettleTodo ==
    ASSUME NEW row \in Services!Row, NEW reward \in BOOLEAN
    PROVE  Services!Settling(row, reward) \in Seq({"release", "reward"})
    <1> DEFINE S == {"release", "reward"}
               a == Services!If(reward /\ row.total >= 100, <<"reward">>)
    <1>1. <<"release">> \in Seq(S) /\ <<"reward">> \in Seq(S)
        OBVIOUS
    <1>2. (reward /\ row.total >= 100) \in BOOLEAN /\ (row.total > 0) \in BOOLEAN
        BY DEF Services!Row
    <1>3. a \in Seq(S)
        BY <1>1, <1>2, IfSteps
    <1> HIDE DEF a
    <1>4. <<"release">> \o a \in Seq(S)
        BY <1>1, <1>3, ConcatProperties
    <1>5. Services!Settling(row, reward) = Services!If(row.total > 0, <<"release">> \o a)
        BY DEF Services!Settling, a
    <1>6. QED
        BY <1>2, <1>4, <1>5, IfSteps

\* What complete commits.
LEMMA CompleteTodo ==
    ASSUME NEW row \in Services!Row
    PROVE  LET todo == Services!Settling(row, TRUE) \o <<"completed">> IN
           todo \in Seq(CompleteWork) /\ Ends(todo)
    <1>1. Services!Settling(row, TRUE) \in Seq({"release", "reward"})
        BY SettleTodo
    <1>2. /\ {"release", "reward"} \cap Closing = {} /\ "completed" \in Closing
          /\ {"release", "reward"} \cup {"completed"} \subseteq CompleteWork
        BY DEF Closing, CompleteWork
    <1>3. QED
        BY <1>1, <1>2, EndsWith

\* What cancel commits: only a bill in use has anything to settle.
LEMMA CancelTodo ==
    ASSUME NEW row \in Services!Row
    PROVE  LET todo == Services!If(row.status \in Services!InUse, Services!Settling(row, FALSE))
                       \o <<"cancelled">> IN
           todo \in Seq(CancelWork) /\ Ends(todo)
    <1> DEFINE s == Services!If(row.status \in Services!InUse, Services!Settling(row, FALSE))
    <1>1. s \in Seq({"release", "reward"})
        <2>1. Services!Settling(row, FALSE) \in Seq({"release", "reward"})
            BY SettleTodo
        <2>2. QED
            BY <2>1, EmptySeq DEF Services!If
    <1>2. /\ {"release", "reward"} \cap Closing = {} /\ "cancelled" \in Closing
          /\ {"release", "reward"} \cup {"cancelled"} \subseteq CancelWork
        BY DEF Closing, CancelWork
    <1> HIDE DEF s
    <1>3. s \o <<"cancelled">> \in Seq(CancelWork) /\ Ends(s \o <<"cancelled">>)
        BY <1>1, <1>2, EndsWith
    <1>4. QED
        BY <1>3 DEF s

\* create of a hotel bill saves its rooms and then its voucher.
LEMMA RoomTodo ==
    ASSUME NEW rooms \in 0 .. MaxRooms
    PROVE  LET todo == [i \in 1 .. rooms |-> "room"] \o <<"voucher">> IN
           todo \in Seq({"room", "voucher"}) /\ Ends(todo) /\ Len(todo) = rooms + 1
    <1> DEFINE s == [i \in 1 .. rooms |-> "room"]
    <1>1. s \in Seq({"room"}) /\ Len(s) = rooms
        BY ServiceAssumption
    <1>2. {"room"} \cap Closing = {} /\ "voucher" \in Closing /\ {"room"} \cup {"voucher"} \subseteq {"room", "voucher"}
        BY DEF Closing
    <1> HIDE DEF s
    <1>3. /\ s \o <<"voucher">> \in Seq({"room", "voucher"}) /\ Ends(s \o <<"voucher">>)
          /\ Len(s \o <<"voucher">>) = Len(s) + 1
        BY <1>1, <1>2, EndsWith
    <1>4. QED
        BY <1>1, <1>3 DEF s

-----------------------------------------------------------------------------
\* A save: what BillLifecycle.tla allows of the row it allows of the table.
LEMMA Writes ==
    ASSUME ServiceRows, NEW b \in BillId, NEW row \in Services!Row, Services!Saved(b, row),
           row.status # "none", Lives(service[b], row)
    PROVE  /\ ServiceRows' /\ LifeStep
           /\ service'[b].status = row.status /\ service'[b].rooms = row.rooms
           /\ service'[b].voucher = row.voucher
           /\ \A c \in BillId : c # b => service'[c] = service[c]
    <1>1. PICK new \in Services!Row :
              /\ service' = [service EXCEPT ![b] = new]
              /\ new.status = row.status /\ new.total = row.total
              /\ new.voucher = row.voucher /\ new.rooms = row.rooms
        BY SavedFacts
    <1>2. ServiceRows' /\ \A c \in BillId : service'[c] = IF c = b THEN new ELSE service[c]
        BY <1>1, WrittenRows
    <1>3. Lives(service[b], new)
        BY <1>1 DEF Lives
    <1>4. LifeStep
        BY <1>1, <1>3, OneLife
    <1>5. QED
        BY <1>1, <1>2, <1>4

\* A request that begins.
LEMMA Begins ==
    ASSUME NEW b \in BillId, NEW row \in Services!Row, NEW todo \in Seq(Work),
           Ends(todo), Waits(service'[b], todo), served' = [bill |-> b, row |-> row, todo |-> todo]
    PROVE  ServedOK'
    <1>1. b # Nobody
        BY ServiceAssumption
    <1>2. served'.bill = b /\ served'.todo = todo
        OBVIOUS
    <1>3. served' \in [bill : BillId \cup {Nobody}, row : Services!Row, todo : Seq(Work) \cup Seq(BillId)]
        OBVIOUS
    <1>4. QED
        BY <1>1, <1>2, <1>3 DEF ServedOK

\* The fields of a new bill.
LEMMA BlankBill ==
    /\ Services!NoBill \in Services!Row
    /\ Services!NoBill.status = "none" /\ Services!NoBill.total = 0 /\ Services!NoBill.rooms = 0
    /\ Services!NoBill.voucher = FALSE
    BY ServiceAssumption DEF Services!NoBill, Services!Row, Services!Status, Services!Kind

\* The row that create fills was empty.
LEMMA FreshBill ==
    ASSUME ServiceRows, NEW b \in BillId, Services!Fresh(b)
    PROVE  service[b].status = "none" /\ service[b].total = 0
    <1>1. b >= b
        BY ServiceAssumption
    <1>2. QED
        BY <1>1 DEF Services!Fresh, ServiceRows

\* create of a hotel bill: its rooms and its voucher are still to be saved.
LEMMA CreateHotelInv ==
    ASSUME ServiceInv, NEW b \in BillId, NEW rooms \in 0 .. MaxRooms, NEW voucher \in BOOLEAN,
           NEW spent \in 0 .. ServicePoints, Services!CreateHotel(b, rooms, voucher, spent)
    PROVE  ServiceInv' /\ LifeStep
    <1> DEFINE row == [Services!NoBill EXCEPT !.kind = "hotel", !.status = "PENDING", !.points = spent]
               mem == [Services!NoBill EXCEPT !.voucher = voucher]
               todo == [i \in 1 .. rooms |-> "room"] \o <<"voucher">>
    <1>1. Services!Fresh(b) /\ Services!Saved(b, row) /\ served' = [bill |-> b, row |-> mem, todo |-> todo]
        BY DEF Services!CreateHotel
    <1>2. /\ row \in Services!Row /\ row.status = "PENDING" /\ row.total = 0 /\ row.rooms = 0
          /\ mem \in Services!Row
        BY BlankBill DEF Services!Row, Services!Status, Services!Kind
    <1>3. todo \in Seq({"room", "voucher"}) /\ Ends(todo) /\ Len(todo) = rooms + 1
        BY RoomTodo
    <1> HIDE DEF row, mem, todo
    <1>4. Lives(service[b], row)
        BY <1>1, <1>2, FreshBill DEF Lives, ServiceInv
    <1>5. /\ ServiceRows' /\ LifeStep
          /\ service'[b].status = "PENDING" /\ service'[b].rooms = 0
        BY <1>1, <1>2, <1>4, Writes DEF ServiceInv
    <1>6. Waits(service'[b], todo)
        <2>1. service'[b].rooms + Len(todo) <= MaxRooms + 1
            BY <1>3, <1>5, ServiceAssumption
        <2>2. QED
            BY <1>3, <1>5, <2>1 DEF Waits
    <1>7. todo \in Seq(Work)
        <2>1. {"room", "voucher"} \subseteq Work
            BY DEF Work
        <2>2. QED
            BY <1>3, <2>1
    <1>8. ServedOK'
        BY <1>1, <1>2, <1>3, <1>6, <1>7, Begins
    <1>9. QED
        BY <1>5, <1>8 DEF ServiceInv

\* create of a delivery: its total is still to be saved.
LEMMA CreateDeliveryInv ==
    ASSUME ServiceInv, NEW b \in BillId, NEW voucher \in BOOLEAN,
           NEW spent \in 0 .. ServicePoints, Services!CreateDelivery(b, voucher, spent)
    PROVE  ServiceInv' /\ LifeStep
    <1> DEFINE row == [Services!NoBill EXCEPT !.kind = "delivery", !.status = "PENDING",
                          !.points = spent, !.voucher = voucher]
               todo == <<"total">>
    <1>1. Services!Fresh(b) /\ Services!Saved(b, row) /\ served' = [bill |-> b, row |-> Services!NoBill, todo |-> todo]
        BY DEF Services!CreateDelivery
    <1>2. row \in Services!Row /\ row.status = "PENDING" /\ row.total = 0 /\ row.rooms = 0
        BY BlankBill DEF Services!Row, Services!Status, Services!Kind
    <1>3. todo \in Seq({"total"}) /\ todo \in Seq(Work)
        BY DEF Work
    <1>4. Ends(todo)
        BY DEF Ends, Closing
    <1> HIDE DEF row, todo
    <1>5. Lives(service[b], row)
        BY <1>1, <1>2, FreshBill DEF Lives, ServiceInv
    <1>6. /\ ServiceRows' /\ LifeStep
          /\ service'[b].status = "PENDING"
        BY <1>1, <1>2, <1>5, Writes DEF ServiceInv
    <1>7. Waits(service'[b], todo)
        BY <1>3, <1>6 DEF Waits
    <1>8. ServedOK'
        BY <1>1, <1>3, <1>4, <1>7, BlankBill, Begins
    <1>9. QED
        BY <1>6, <1>8 DEF ServiceInv

\* The requests that are one save.
LEMMA OneSaveInv ==
    ASSUME ServiceInv, NEW b \in BillId, NEW row \in Services!Row, Services!Serve, served' = served,
           Services!Saved(b, row), row.status # "none", Lives(service[b], row)
    PROVE  ServiceInv' /\ LifeStep
    <1>1. served' = Services!Idle
        BY DEF Services!Serve
    <1>2. ServiceRows' /\ LifeStep
        BY Writes DEF ServiceInv
    <1>3. QED
        BY <1>1, <1>2, IdleServed DEF ServiceInv

\* create of a restaurant booking.
LEMMA CreateBookingInv ==
    ASSUME ServiceInv, NEW b \in BillId, Services!CreateBooking(b)
    PROVE  ServiceInv' /\ LifeStep
    <1> DEFINE row == [Services!NoBill EXCEPT !.kind = "restaurant", !.status = "PENDING"]
    <1>1. Services!Serve /\ Services!Fresh(b) /\ Services!Saved(b, row) /\ served' = served
        BY DEF Services!CreateBooking
    <1>2. row \in Services!Row /\ row.status = "PENDING" /\ row.total = 0
        BY BlankBill DEF Services!Row, Services!Status, Services!Kind
    <1> HIDE DEF row
    <1>3. Lives(service[b], row)
        BY <1>1, <1>2, FreshBill DEF Lives, ServiceInv
    <1>4. QED
        BY <1>1, <1>2, <1>3, OneSaveInv

\* update of a restaurant booking.
LEMMA UpdateBookingInv ==
    ASSUME ServiceInv, NEW b \in BillId, Services!UpdateBooking(b)
    PROVE  ServiceInv' /\ LifeStep
    <1> DEFINE row == [service[b] EXCEPT !.contact = TRUE]
    <1>1. /\ Services!Serve /\ Services!Saved(b, row) /\ served' = served
          /\ service[b].status = "PENDING"
        BY DEF Services!UpdateBooking, Services!Editable
    <1>2. /\ row \in Services!Row /\ row.status = "PENDING" /\ row.total = service[b].total
        BY <1>1 DEF ServiceInv, ServiceRows, Services!Row
    <1> HIDE DEF row
    <1>3. Lives(service[b], row)
        BY <1>1, <1>2 DEF Lives
    <1>4. QED
        BY <1>1, <1>2, <1>3, OneSaveInv

\* update of the others: an open bill gets another total.
LEMMA UpdateServiceInv ==
    ASSUME ServiceInv, NEW b \in BillId, NEW voucher \in {"keep", "clear", "set"},
           NEW spent \in 0 .. ServicePoints, service[b].kind # "restaurant", Services!Update(b, voucher, spent)
    PROVE  ServiceInv' /\ LifeStep
    <1> DEFINE edited == [service[b] EXCEPT !.contact = TRUE, !.points = spent,
                             !.voucher = @ \/ voucher = "set"]
               row == [edited EXCEPT !.total = Services!Total(edited, edited.voucher /\ voucher # "clear")]
    <1>1. Services!Serve /\ Services!Saved(b, row) /\ served' = served
        BY DEF Services!Update
    <1>2. service[b].status \in Services!OpenStatus
        BY DEF Services!Update, Services!Editable
    <1>3. edited \in Services!Row /\ edited.status = service[b].status
        BY DEF ServiceInv, ServiceRows, Services!Row
    <1>4. (edited.voucher /\ voucher # "clear") \in BOOLEAN
        OBVIOUS
    <1> HIDE DEF edited
    <1>5. Services!Total(edited, edited.voucher /\ voucher # "clear") \in Costs /\ Costs \subseteq Nat
        BY <1>3, <1>4, TotalType
    <1>6. row \in Services!Row /\ row.status = service[b].status /\ row.total \in Costs
        BY <1>3, <1>5 DEF Services!Row
    <1> HIDE DEF row
    <1>7. Lives(service[b], row) /\ row.status # "none"
        BY <1>2, <1>6 DEF Lives, Services!OpenStatus
    <1>8. QED
        BY <1>1, <1>6, <1>7, OneSaveInv

\* confirm.
LEMMA ConfirmInv ==
    ASSUME ServiceInv, NEW b \in BillId, NEW total \in Costs, Services!Confirm(b, total)
    PROVE  ServiceInv' /\ LifeStep
    <1> DEFINE row == [service[b] EXCEPT !.status = "CONFIRMED", !.total = total]
    <1>1. /\ Services!Serve /\ Services!Saved(b, row) /\ served' = served /\ service[b].status = "PENDING"
        BY DEF Services!Confirm
    <1>2. total \in Nat
        BY ServiceAssumption DEF Costs
    <1>3. row \in Services!Row /\ row.status = "CONFIRMED" /\ row.total = total
        BY <1>2 DEF ServiceInv, ServiceRows, Services!Row, Services!Status
    <1> HIDE DEF row
    <1>4. Lives(service[b], row)
        BY <1>1, <1>3 DEF Lives
    <1>5. QED
        BY <1>1, <1>3, <1>4, OneSaveInv

-----------------------------------------------------------------------------
\* Requests that first decide what they will commit.
LEMMA DecidedInv ==
    ASSUME ServiceInv, NEW b \in BillId, NEW todo, Services!Begin(b, todo), service' = service,
           todo \in Seq(Work), Ends(todo), Waits(service[b], todo)
    PROVE  ServiceInv' /\ LifeStep
    <1>1. ServiceRows' /\ LifeStep
        BY SameLife DEF ServiceInv, ServiceRows
    <1>2. /\ served' = [bill |-> b, row |-> service[b], todo |-> todo]
          /\ service[b] \in Services!Row /\ Waits(service'[b], todo)
        BY DEF Services!Begin, ServiceInv, ServiceRows
    <1>3. ServedOK'
        BY <1>2, Begins
    <1>4. QED
        BY <1>1, <1>3 DEF ServiceInv

\* pay starts from a confirmed bill.
LEMMA PayInv ==
    ASSUME ServiceInv, NEW b \in BillId, Services!Pay(b)
    PROVE  ServiceInv' /\ LifeStep
    <1> DEFINE todo == Services!PaySteps(service[b])
    <1>1. /\ service[b].status = "CONFIRMED" /\ Services!Begin(b, todo) /\ service' = service
          /\ service[b] \in Services!Row
        BY DEF Services!Pay, ServiceInv, ServiceRows
    <1>2. todo \in Seq(PayWork) /\ Ends(todo)
        BY <1>1, PayTodo
    <1> HIDE DEF todo
    <1>3. todo \in Seq(Work)
        <2>1. PayWork \subseteq Work
            BY DEF Work
        <2>2. QED
            BY <1>2, <2>1
    <1>4. Waits(service[b], todo)
        BY <1>1, <1>2 DEF Waits
    <1>5. QED
        BY <1>1, <1>2, <1>3, <1>4, DecidedInv

\* complete starts from a bill in use.
LEMMA CompleteBillInv ==
    ASSUME ServiceInv, NEW b \in BillId, Services!Complete(b)
    PROVE  ServiceInv' /\ LifeStep
    <1> DEFINE todo == Services!Settling(service[b], TRUE) \o <<"completed">>
    <1>1. /\ service[b].status \in Services!InUse /\ Services!Begin(b, todo) /\ service' = service
          /\ service[b] \in Services!Row
        BY DEF Services!Complete, ServiceInv, ServiceRows
    <1>2. todo \in Seq(CompleteWork) /\ Ends(todo)
        BY <1>1, CompleteTodo
    <1> HIDE DEF todo
    <1>3. todo \in Seq(Work)
        <2>1. CompleteWork \subseteq Work
            BY DEF Work
        <2>2. QED
            BY <1>2, <2>1
    <1>4. Waits(service[b], todo)
        BY <1>1, <1>2 DEF Waits
    <1>5. QED
        BY <1>1, <1>2, <1>3, <1>4, DecidedInv

\* cancel starts from a bill that is not yet over.
LEMMA CancelBillInv ==
    ASSUME ServiceInv, NEW b \in BillId, Services!Cancel(b)
    PROVE  ServiceInv' /\ LifeStep
    <1> DEFINE todo == Services!If(service[b].status \in Services!InUse, Services!Settling(service[b], FALSE))
                       \o <<"cancelled">>
    <1>1. /\ service[b].status \in Services!OpenStatus \cup Services!InUse
          /\ Services!Begin(b, todo) /\ service' = service
          /\ service[b] \in Services!Row
        BY DEF Services!Cancel, ServiceInv, ServiceRows
    <1>2. todo \in Seq(CancelWork) /\ Ends(todo)
        BY <1>1, CancelTodo
    <1> HIDE DEF todo
    <1>3. todo \in Seq(Work)
        <2>1. CancelWork \subseteq Work
            BY DEF Work
        <2>2. QED
            BY <1>2, <2>1
    <1>4. Waits(service[b], todo)
        BY <1>1, <1>2 DEF Waits
    <1>5. QED
        BY <1>1, <1>2, <1>3, <1>4, DecidedInv

-----------------------------------------------------------------------------
\* A request that has commits to make, and how its first one limits them.
LEMMA AtStep ==
    ASSUME ServedOK, NEW step, Services!At(step)
    PROVE  /\ served.bill \in BillId /\ served.bill # Nobody
           /\ Ends(served.todo) /\ Head(served.todo) = step
           /\ Waits(service[served.bill], served.todo)
           /\ served \in [bill : BillId \cup {Nobody}, row : Services!Row, todo : Seq(Work) \cup Seq(BillId)]
    BY DEF ServedOK, Services!At

\* The status of the bill, by the commit that is next.
LEMMA HeadWork ==
    ASSUME NEW row, NEW todo, Ends(todo), Waits(row, todo)
    PROVE  /\ todo \in Seq(Work)
           /\ Head(todo) = "room" =>
                 todo \in Seq({"room", "voucher"}) /\ row.status = "PENDING" /\ row.rooms + Len(todo) <= MaxRooms + 1
           /\ Head(todo) \in {"voucher", "total"} => row.status = "PENDING"
           /\ Head(todo) \in {"points", "redeem", "rooms", "paid"} =>
                 todo \in Seq(PayWork) /\ row.status = "CONFIRMED"
           /\ Head(todo) = "completed" => row.status \in Services!InUse
           /\ Head(todo) = "cancelled" => row.status \in Services!OpenStatus \cup Services!InUse
           /\ Head(todo) \in {"release", "reward"} =>
                 \/ todo \in Seq(CompleteWork) /\ row.status \in Services!InUse
                 \/ todo \in Seq(CancelWork) /\ row.status \in Services!OpenStatus \cup Services!InUse
    <1>1. CASE /\ todo \in Seq({"room", "voucher"}) /\ row.status = "PENDING"
               /\ row.rooms + Len(todo) <= MaxRooms + 1
        <2>1. Head(todo) \in {"room", "voucher"}
            BY <1>1, TailEnds
        <2>2. {"room", "voucher"} \subseteq Work
            BY DEF Work
        <2>3. QED
            BY <1>1, <2>1, <2>2
    <1>2. CASE todo \in Seq({"total"}) /\ row.status = "PENDING"
        <2>1. Head(todo) = "total"
            BY <1>2, TailEnds
        <2>2. {"total"} \subseteq Work
            BY DEF Work
        <2>3. QED
            BY <1>2, <2>1, <2>2
    <1>3. CASE todo \in Seq(PayWork) /\ row.status = "CONFIRMED"
        <2>1. Head(todo) \in {"points", "redeem", "rooms", "paid"}
            BY <1>3, TailEnds DEF PayWork
        <2>2. PayWork \subseteq Work
            BY DEF Work
        <2>3. QED
            BY <1>3, <2>1, <2>2
    <1>4. CASE todo \in Seq(CompleteWork) /\ row.status \in Services!InUse
        <2>1. Head(todo) \in {"release", "reward", "completed"}
            BY <1>4, TailEnds DEF CompleteWork
        <2>2. CompleteWork \subseteq Work
            BY DEF Work
        <2>3. QED
            BY <1>4, <2>1, <2>2
    <1>5. CASE todo \in Seq(CancelWork) /\ row.status \in Services!OpenStatus \cup Services!InUse
        <2>1. Head(todo) \in {"release", "reward", "cancelled"}
            BY <1>5, TailEnds DEF CancelWork
        <2>2. CancelWork \subseteq Work
            BY DEF Work
        <2>3. QED
            BY <1>5, <2>1, <2>2
    <1>6. QED
        BY <1>1, <1>2, <1>3, <1>4, <1>5 DEF Waits

\* A commit with others behind it, and the last one.
LEMMA Continues ==
    ASSUME ServedOK, Services!Done, served.bill # Nobody, Head(served.todo) \notin Closing,
           Waits(service'[served.bill], Tail(served.todo))
    PROVE  ServedOK'
    <1>1. /\ served \in [bill : BillId \cup {Nobody}, row : Services!Row, todo : Seq(Work) \cup Seq(BillId)]
          /\ served.bill \in BillId /\ Ends(served.todo) /\ Waits(service[served.bill], served.todo)
        BY DEF ServedOK
    <1>2. served.todo \in Seq(Work)
        BY <1>1, HeadWork
    <1>3. Tail(served.todo) \in Seq(Work) /\ Ends(Tail(served.todo)) /\ Len(served.todo) # 1
        BY <1>1, <1>2, TailEnds
    <1>4. served' = [bill |-> served.bill, row |-> served.row, todo |-> Tail(served.todo)]
        BY <1>1, <1>3 DEF Services!Done
    <1>5. QED
        BY <1>1, <1>3, <1>4, Begins

\* The last commit ends the request.
LEMMA Finishes ==
    ASSUME ServedOK, Services!Done, served.bill # Nobody, Head(served.todo) \in Closing
    PROVE  served' = Services!Idle /\ ServedOK'
    <1>1. /\ served.bill \in BillId /\ Ends(served.todo) /\ Waits(service[served.bill], served.todo)
        BY DEF ServedOK
    <1>2. served.todo \in Seq(Work)
        BY <1>1, HeadWork
    <1>3. Len(served.todo) = 1
        BY <1>1, <1>2, TailEnds
    <1>4. served' = Services!Idle
        BY <1>3 DEF Services!Done
    <1>5. QED
        BY <1>4, IdleServed

\* What waited for a commit of pay, complete or cancel waits for the next.
LEMMA WaitsOn ==
    ASSUME NEW row, NEW todo, Ends(todo), Waits(row, todo),
           Head(todo) \in {"points", "redeem", "release", "reward"}
    PROVE  Waits(row, Tail(todo)) /\ Head(todo) \notin Closing
    <1>1. Head(todo) \notin Closing
        BY DEF Closing
    <1>2. \A S : todo \in Seq(S) => Tail(todo) \in Seq(S)
        BY TailEnds
    <1>3. QED
        BY <1>1, <1>2, HeadWork DEF Waits

\* The commits that leave the bill alone.
LEMMA ElsewhereInv ==
    ASSUME ServiceInv, Services!DeductPoints \/ Services!Redeem \/ Services!Reward
    PROVE  ServiceInv' /\ LifeStep
    <1>1. /\ Services!At("points") \/ Services!At("redeem") \/ Services!At("reward")
          /\ Services!Done /\ service' = service
        BY DEF Services!DeductPoints, Services!Redeem, Services!Reward
    <1>2. PICK step \in {"points", "redeem", "reward"} : Services!At(step)
        BY <1>1
    <1>3. /\ served.bill # Nobody /\ Ends(served.todo) /\ Head(served.todo) = step
          /\ Waits(service[served.bill], served.todo) /\ ServedOK /\ ServiceRows
        BY <1>2, AtStep DEF ServiceInv
    <1>4. Waits(service[served.bill], Tail(served.todo)) /\ Head(served.todo) \notin Closing
        BY <1>3, WaitsOn
    <1>5. ServedOK'
        BY <1>1, <1>3, <1>4, Continues
    <1>6. ServiceRows' /\ LifeStep
        BY <1>1, <1>3, SameLife DEF ServiceRows
    <1>7. QED
        BY <1>5, <1>6 DEF ServiceInv

\* Requests that end without another commit.
LEMMA GivesUpInv ==
    ASSUME ServiceInv, service' = service, served' = Services!Idle
    PROVE  ServiceInv' /\ LifeStep
    BY IdleServed, SameLife DEF ServiceInv, ServiceRows

\* releaseFunds: refused or done.
LEMMA ReleaseInv ==
    ASSUME ServiceInv, Services!Release
    PROVE  ServiceInv' /\ LifeStep
    <1>1. CASE served' = Services!Idle
        BY <1>1, GivesUpInv DEF Services!Release
    <1>2. CASE served' # Services!Idle
        <2>1. Services!At("release") /\ Services!Done /\ service' = service
            BY <1>2 DEF Services!Release
        <2>2. /\ served.bill # Nobody /\ Ends(served.todo) /\ Head(served.todo) = "release"
              /\ Waits(service[served.bill], served.todo) /\ ServedOK /\ ServiceRows
            BY <2>1, AtStep DEF ServiceInv
        <2>3. Waits(service[served.bill], Tail(served.todo)) /\ Head(served.todo) \notin Closing
            BY <2>2, WaitsOn
        <2>4. ServedOK'
            BY <2>1, <2>2, <2>3, Continues
        <2>5. ServiceRows' /\ LifeStep
            BY <2>1, <2>2, SameLife DEF ServiceRows
        <2>6. QED
            BY <2>4, <2>5 DEF ServiceInv
    <1>3. QED
        BY <1>1, <1>2

\* The room that is saved is one that create has counted.
LEMMA SaveRoomInv ==
    ASSUME ServiceInv, Services!SaveRoom
    PROVE  ServiceInv' /\ LifeStep
    <1> DEFINE b == served.bill
               n == Len(served.todo)
               new == [service[b] EXCEPT !.rooms = @ + 1]
    <1>1. /\ Services!At("room") /\ Services!Done /\ service' = [service EXCEPT ![b].rooms = @ + 1]
          /\ ServedOK /\ ServiceRows
        BY DEF Services!SaveRoom, ServiceInv
    <1>2. /\ b \in BillId /\ b # Nobody /\ Ends(served.todo) /\ Head(served.todo) = "room"
          /\ Waits(service[b], served.todo)
        BY <1>1, AtStep
    <1>3. /\ served.todo \in Seq({"room", "voucher"})
          /\ service[b].status = "PENDING" /\ service[b].rooms + n <= MaxRooms + 1
        BY <1>2, HeadWork
    <1>4. /\ Tail(served.todo) \in Seq({"room", "voucher"}) /\ Len(Tail(served.todo)) = n - 1
          /\ n \in Nat /\ n > 1 /\ Head(served.todo) \notin Closing
        <2>1. Head(served.todo) \notin Closing
            BY <1>2 DEF Closing
        <2>2. n \in Nat \ {0}
            BY <1>2, <1>3, EmptySeq DEF Ends
        <2>3. /\ Tail(served.todo) \in Seq({"room", "voucher"}) /\ n # 1
              /\ Len(Tail(served.todo)) = n - 1
            BY <1>2, <1>3, <2>1, TailEnds
        <2> HIDE DEF n
        <2>4. QED
            BY <2>1, <2>2, <2>3
    <1>5. service[b] \in Services!Row /\ service[b].rooms \in 0 .. MaxRooms
        BY <1>1, <1>2 DEF ServiceRows, Services!Row
    <1>6. service[b].rooms + 1 \in 0 .. MaxRooms /\ service[b].rooms + 1 + (n - 1) <= MaxRooms + 1
        BY <1>3, <1>4, <1>5, ServiceAssumption
    <1>7. /\ service' = [service EXCEPT ![b] = new]
          /\ new \in Services!Row /\ new.status = "PENDING" /\ new.total = service[b].total
          /\ new.rooms = service[b].rooms + 1
        BY <1>1, <1>2, <1>3, <1>5, <1>6 DEF ServiceRows, Services!Row
    <1> HIDE DEF new, n
    <1>8. Lives(service[b], new)
        BY <1>3, <1>7 DEF Lives
    <1>9. ServiceRows' /\ service'[b] = new
        BY <1>1, <1>2, <1>7, WrittenRows
    <1>10. LifeStep
        BY <1>1, <1>2, <1>7, <1>8, OneLife
    <1>11. Waits(service'[b], Tail(served.todo))
        <2>1. service'[b].rooms + Len(Tail(served.todo)) <= MaxRooms + 1
            BY <1>4, <1>6, <1>7, <1>9
        <2>2. QED
            BY <1>4, <1>7, <1>9, <2>1 DEF Waits
    <1>12. ServedOK'
        BY <1>1, <1>2, <1>4, <1>11, Continues
    <1>13. QED
        BY <1>9, <1>10, <1>12 DEF ServiceInv

\* The commits that are the last of their requests.
LEMMA LastSaveInv ==
    ASSUME ServiceInv, served.bill \in BillId, Services!Done, Head(served.todo) \in Closing,
           NEW row \in Services!Row, Services!Saved(served.bill, row), row.status # "none",
           Lives(service[served.bill], row)
    PROVE  ServiceInv' /\ LifeStep
    <1>1. ServiceRows' /\ LifeStep
        BY Writes DEF ServiceInv
    <1>2. served.bill # Nobody
        BY ServiceAssumption
    <1>3. ServedOK'
        BY <1>2, Finishes DEF ServiceInv
    <1>4. QED
        BY <1>1, <1>3 DEF ServiceInv

\* The voucher of a hotel bill.
LEMMA SaveVoucherInv ==
    ASSUME ServiceInv, Services!SaveVoucher
    PROVE  ServiceInv' /\ LifeStep
    <1> DEFINE b == served.bill
               row == [service[b] EXCEPT !.voucher = served.row.voucher]
    <1>1. Services!At("voucher") /\ Services!Done /\ Services!Saved(b, row)
        BY DEF Services!SaveVoucher
    <1>2. /\ b \in BillId /\ Head(served.todo) = "voucher" /\ served.row \in Services!Row
          /\ Ends(served.todo) /\ Waits(service[b], served.todo)
        BY <1>1, AtStep DEF ServiceInv
    <1>3. service[b].status = "PENDING"
        BY <1>2, HeadWork
    <1>4. row \in Services!Row /\ row.status = "PENDING" /\ row.total = service[b].total
        BY <1>2, <1>3 DEF ServiceInv, ServiceRows, Services!Row
    <1> HIDE DEF row
    <1>5. Lives(service[b], row) /\ Head(served.todo) \in Closing
        BY <1>2, <1>3, <1>4 DEF Lives, Closing
    <1>6. QED
        BY <1>1, <1>2, <1>4, <1>5, LastSaveInv

\* The total of a delivery.
LEMMA SaveTotalInv ==
    ASSUME ServiceInv, Services!SaveTotal
    PROVE  ServiceInv' /\ LifeStep
    <1> DEFINE b == served.bill
               total == Services!DeliveryTotal(service[b], service[b].voucher)
               row == [service[b] EXCEPT !.total = total]
    <1>1. Services!At("total") /\ Services!Done /\ Services!Saved(b, row)
        BY DEF Services!SaveTotal
    <1>2. /\ b \in BillId /\ Head(served.todo) = "total"
          /\ Ends(served.todo) /\ Waits(service[b], served.todo)
        BY <1>1, AtStep DEF ServiceInv
    <1>3. service[b].status = "PENDING"
        BY <1>2, HeadWork
    <1>4. service[b] \in Services!Row /\ service[b].voucher \in BOOLEAN
        BY <1>2 DEF ServiceInv, ServiceRows, Services!Row
    <1>5. total \in Costs /\ total \in Nat
        BY <1>4, TotalType
    <1> HIDE DEF total
    <1>6. row \in Services!Row /\ row.status = "PENDING" /\ row.total \in Costs
        BY <1>3, <1>4, <1>5 DEF Services!Row
    <1> HIDE DEF row
    <1>7. Lives(service[b], row) /\ Head(served.todo) \in Closing
        BY <1>2, <1>3, <1>6 DEF Lives, Closing, Services!OpenStatus
    <1>8. QED
        BY <1>1, <1>2, <1>6, <1>7, LastSaveInv

\* The status is saved when the bill is still where the request found it.
LEMMA SaveStatusInv ==
    ASSUME ServiceInv, Services!SaveStatus
    PROVE  ServiceInv' /\ LifeStep
    <1> DEFINE b == served.bill
               status == CASE Services!At("completed") -> "COMPLETED"
                           [] Services!At("cancelled") -> "CANCELLED"
                           [] OTHER -> IF service[b].kind = "hotel" THEN "PAID" ELSE "IN_TRANSIT"
               row == [service[b] EXCEPT !.status = status]
    <1>1. /\ Services!At("paid") \/ Services!At("completed") \/ Services!At("cancelled")
          /\ Services!Done /\ Services!Saved(b, row)
        BY DEF Services!SaveStatus
    <1>2. PICK step \in {"paid", "completed", "cancelled"} : Services!At(step)
        BY <1>1
    <1>3. /\ b \in BillId /\ Head(served.todo) = step
          /\ Ends(served.todo) /\ Waits(service[b], served.todo)
        BY <1>2, AtStep DEF ServiceInv
    <1>4. /\ Services!At("completed") <=> step = "completed"
          /\ Services!At("cancelled") <=> step = "cancelled"
        BY <1>2, <1>3 DEF Services!At
    <1>5. /\ step = "completed" => status = "COMPLETED"
          /\ step = "cancelled" => status = "CANCELLED"
          /\ step = "paid" => status \in Services!InUse
        BY <1>4 DEF Services!InUse
    <1> HIDE DEF status
    <1>6. status \in Services!InUse \cup {"COMPLETED", "CANCELLED"}
        BY <1>5
    <1>7. row \in Services!Row /\ row.status = status /\ row.total = service[b].total
        BY <1>3, <1>6 DEF ServiceInv, ServiceRows, Services!Row, Services!Status, Services!InUse
    <1> HIDE DEF row
    <1>8. /\ step = "paid" => service[b].status = "CONFIRMED"
          /\ step = "completed" => service[b].status \in Services!InUse
          /\ step = "cancelled" => service[b].status \in Services!OpenStatus \cup Services!InUse
        BY <1>3, HeadWork
    <1>9. Lives(service[b], row) /\ Head(served.todo) \in Closing
        BY <1>3, <1>5, <1>7, <1>8 DEF Lives, Closing
    <1>10. row.status # "none"
        BY <1>6, <1>7 DEF Services!InUse
    <1>11. QED
        BY <1>1, <1>3, <1>7, <1>9, <1>10, LastSaveInv

-----------------------------------------------------------------------------
\* The jobs.

\* The instance counts as this module does.
LEMMA SameCardinality == \A S : Services!Cardinality(S) = Cardinality(S)
    BY DEF Services!Cardinality, Cardinality, Services!IsFiniteSet, IsFiniteSet

\* SetToSeq lists the elements of a finite set.
LEMMA Listed ==
    ASSUME NEW S, IsFiniteSet(S)
    PROVE  /\ Services!SetToSeq(S) \in Seq(S)
           /\ Len(Services!SetToSeq(S)) = Cardinality(S)
    <1> DEFINE n == Cardinality(S)
    <1>1. n \in Nat /\ ExistsBijection(1 .. n, S)
        BY FS_CardinalityType
    <1>2. PICK f \in Bijection(1 .. n, S) : TRUE
        BY <1>1 DEF ExistsBijection
    <1>3. f \in [1 .. n -> S] /\ IsInjective(f)
        BY <1>2 DEF Bijection, Injection
    <1>4. Services!IsInjective(f)
        BY <1>3 DEF IsInjective, Services!IsInjective
    <1>5. Services!SetToSeq(S) \in [1 .. n -> S]
        BY <1>3, <1>4, SameCardinality DEF Services!SetToSeq
    <1>6. QED
        BY <1>1, <1>5

\* checkTimeouts finds bills that are still open.
LEMMA CheckInv ==
    ASSUME ServiceInv, NEW kind, Services!CheckTimeouts(kind)
    PROVE  ServiceInv' /\ LifeStep
    <1> DEFINE due == Services!Overdue(kind)
               todo == Services!SetToSeq(due)
    <1>1. /\ served = Services!Idle /\ served' = [Services!Idle EXCEPT !.todo = todo] /\ service' = service
        BY DEF Services!CheckTimeouts
    <1>2. /\ due \subseteq BillId
          /\ \A b \in due : service[b].status \in Services!OpenStatus
        BY DEF Services!Overdue, Services!OpenStatus
    <1>3. IsFiniteSet(due)
        BY <1>2, TicketAssumption, FS_Subset
    <1> HIDE DEF due
    <1>4. todo \in Seq(due)
        BY <1>3, Listed
    <1> HIDE DEF todo
    <1>5. todo \in Seq(BillId) /\ \A i \in 1 .. Len(todo) : todo[i] \in due
        <2>1. \A i \in 1 .. Len(todo) : todo[i] \in due
            BY <1>4, LenProperties
        <2>2. QED
            BY <1>2, <1>4, <2>1
    <1>6. /\ served'.bill = Nobody /\ served'.todo = todo
          /\ served' \in [bill : BillId \cup {Nobody}, row : Services!Row, todo : Seq(Work) \cup Seq(BillId)]
        BY <1>1, <1>5, BlankBill DEF Services!Idle
    <1>7. ServedOK'
        BY <1>1, <1>2, <1>5, <1>6 DEF ServedOK
    <1>8. ServiceRows' /\ LifeStep
        BY <1>1, SameLife DEF ServiceInv, ServiceRows
    <1>9. QED
        BY <1>7, <1>8 DEF ServiceInv

\* The job's loop cancels a bill that was open when it looked, and is so
\* still, or has been cancelled by the loop itself.
LEMMA ExpireInv ==
    ASSUME ServiceInv, Services!Expire
    PROVE  ServiceInv' /\ LifeStep
    <1> DEFINE todo == served.todo
               b == Head(todo)
               row == [service[b] EXCEPT !.status = "CANCELLED"]
    <1>1. /\ served.bill = Nobody /\ todo # <<>> /\ Services!Saved(b, row) /\ Services!Done
          /\ ServedOK /\ ServiceRows
        BY DEF Services!Expire, ServiceInv
    <1>2. /\ todo \in Seq(BillId)
          /\ \A i \in 1 .. Len(todo) : service[todo[i]].status \in Services!OpenStatus \cup {"CANCELLED"}
          /\ served \in [bill : BillId \cup {Nobody}, row : Services!Row, todo : Seq(Work) \cup Seq(BillId)]
        BY <1>1 DEF ServedOK
    <1>3. /\ b \in BillId /\ b = todo[1] /\ Len(todo) \in Nat \ {0}
          /\ Tail(todo) \in Seq(BillId) /\ Len(Tail(todo)) = Len(todo) - 1
          /\ \A i \in 1 .. Len(Tail(todo)) : Tail(todo)[i] = todo[i + 1]
        <2>1. Len(todo) \in Nat \ {0}
            BY <1>1, <1>2, EmptySeq
        <2>2. /\ b \in BillId /\ Tail(todo) \in Seq(BillId) /\ Len(Tail(todo)) = Len(todo) - 1
              /\ \A i \in 1 .. Len(Tail(todo)) : Tail(todo)[i] = todo[i + 1]
            BY <1>1, <1>2, HeadTailProperties
        <2>3. b = todo[1]
            OBVIOUS
        <2>4. QED
            BY <2>1, <2>2, <2>3
    <1>4. service[b].status \in Services!OpenStatus \cup {"CANCELLED"} /\ service[b] \in Services!Row
        <2>1. 1 \in 1 .. Len(todo)
            BY <1>3
        <2>2. QED
            BY <1>1, <1>2, <1>3, <2>1 DEF ServiceRows
    <1>5. row \in Services!Row /\ row.status = "CANCELLED" /\ row.total = service[b].total
        BY <1>4 DEF Services!Row, Services!Status
    <1> HIDE DEF row, b, todo
    <1>6. Lives(service[b], row)
        BY <1>4, <1>5 DEF Lives
    <1>7. /\ ServiceRows' /\ LifeStep /\ service'[b].status = "CANCELLED"
          /\ \A c \in BillId : c # b => service'[c] = service[c]
        BY <1>1, <1>3, <1>5, <1>6, Writes
    <1>8. ServedOK'
        <2>1. CASE Len(todo) = 1
            <3>1. served' = Services!Idle
                BY <1>1, <2>1 DEF Services!Done, todo
            <3>2. QED
                BY <3>1, IdleServed
        <2>2. CASE Len(todo) # 1
            <3> DEFINE t == Tail(todo)
            <3>1. served' = [served EXCEPT !.todo = t]
                BY <1>1, <2>2 DEF Services!Done, todo
            <3>2. \A i \in 1 .. Len(t) : i + 1 \in 1 .. Len(todo) /\ t[i] \in BillId /\ t[i] = todo[i + 1]
                <4>1. \A i \in 1 .. Len(t) : t[i] \in BillId
                    BY <1>3, LenProperties
                <4>2. \A i \in 1 .. Len(t) : i + 1 \in 1 .. Len(todo)
                    BY <1>3
                <4>3. QED
                    BY <1>3, <4>1, <4>2
            <3> HIDE DEF t
            <3>3. \A i \in 1 .. Len(t) : service'[t[i]].status \in Services!OpenStatus \cup {"CANCELLED"}
                BY <1>2, <1>7, <3>2 DEF todo
            <3>4. t \in Seq(BillId)
                BY <1>3 DEF t
            <3>5. /\ served'.bill = Nobody /\ served'.todo = t
                  /\ served' \in [bill : BillId \cup {Nobody}, row : Services!Row, todo : Seq(Work) \cup Seq(BillId)]
                BY <1>1, <1>2, <3>1, <3>4
            <3>6. QED
                BY <3>3, <3>4, <3>5 DEF ServedOK
        <2>3. QED
            BY <2>1, <2>2
    <1>9. QED
        BY <1>7, <1>8 DEF ServiceInv

\* Time and rooms that are deleted.
LEMMA AroundInv ==
    ASSUME ServiceInv, NEW b \in BillId, Services!Late(b) \/ Services!Quiet(b) \/ Services!RemoveRoom(b)
    PROVE  ServiceInv' /\ LifeStep
    <1>1. PICK new : /\ service' = [service EXCEPT ![b] = new]
                     /\ new \in Services!Row /\ new.status = service[b].status /\ new.total = service[b].total
                     /\ new.voucher = service[b].voucher
                     /\ new.rooms = service[b].rooms \/ served = Services!Idle
                     /\ served' = served
        <2>1. service[b] \in Services!Row /\ service \in [BillId -> Services!Row]
            BY DEF ServiceInv, ServiceRows
        <2>2. CASE Services!Late(b)
            <3> DEFINE new == [service[b] EXCEPT !.late = TRUE]
            <3>1. /\ service' = [service EXCEPT ![b] = new] /\ served' = served
                BY <2>1, <2>2 DEF Services!Late
            <3>2. /\ new \in Services!Row /\ new.status = service[b].status /\ new.total = service[b].total
                  /\ new.voucher = service[b].voucher /\ new.rooms = service[b].rooms
                BY <2>1 DEF Services!Row
            <3>3. QED
                BY <3>1, <3>2
        <2>3. CASE Services!Quiet(b)
            <3> DEFINE new == [service[b] EXCEPT !.quiet = TRUE]
            <3>1. /\ service' = [service EXCEPT ![b] = new] /\ served' = served
                BY <2>1, <2>3 DEF Services!Quiet
            <3>2. /\ new \in Services!Row /\ new.status = service[b].status /\ new.total = service[b].total
                  /\ new.voucher = service[b].voucher /\ new.rooms = service[b].rooms
                BY <2>1 DEF Services!Row
            <3>3. QED
                BY <3>1, <3>2
        <2>4. CASE Services!RemoveRoom(b)
            <3> DEFINE new == [service[b] EXCEPT !.rooms = @ - 1]
            <3>1. /\ service' = [service EXCEPT ![b] = new] /\ served' = served
                  /\ served = Services!Idle /\ service[b].rooms > 0
                BY <2>1, <2>4 DEF Services!RemoveRoom
            <3>2. service[b].rooms - 1 \in 0 .. MaxRooms
                BY <2>1, <3>1, ServiceAssumption DEF Services!Row
            <3>3. /\ new \in Services!Row /\ new.status = service[b].status /\ new.total = service[b].total
                  /\ new.voucher = service[b].voucher
                BY <2>1, <3>2 DEF Services!Row
            <3>4. QED
                BY <3>1, <3>3
        <2>5. QED
            BY <2>2, <2>3, <2>4
    <1>2. \A c \in BillId : service'[c] = IF c = b THEN new ELSE service[c]
        BY <1>1 DEF ServiceInv, ServiceRows
    <1>3. ServiceRows'
        BY <1>1, <1>2 DEF ServiceInv, ServiceRows
    <1>4. LifeStep
        BY <1>1, <1>2, SameLife
    <1>5. ServedOK'
        <2>1. CASE served = Services!Idle
            BY <1>1, <2>1, IdleServed
        <2>2. CASE served # Services!Idle
            <3>1. \A c \in BillId : service'[c].status = service[c].status /\ service'[c].rooms = service[c].rooms
                BY <1>1, <1>2, <2>2
            <3>2. ASSUME served.bill # Nobody
                  PROVE  Waits(service'[served.bill], served.todo)
                <4>1. served.bill \in BillId /\ Waits(service[served.bill], served.todo)
                    BY <3>2 DEF ServiceInv, ServedOK
                <4>2. QED
                    BY <3>1, <4>1 DEF Waits
            <3>3. ASSUME served.bill = Nobody, NEW i \in 1 .. Len(served.todo)
                  PROVE  service'[served.todo[i]].status \in Services!OpenStatus \cup {"CANCELLED"}
                <4>1. /\ served.todo \in Seq(BillId)
                      /\ service[served.todo[i]].status \in Services!OpenStatus \cup {"CANCELLED"}
                    BY <3>3 DEF ServiceInv, ServedOK
                <4>2. served.todo[i] \in BillId
                    BY <4>1, LenProperties
                <4>3. QED
                    BY <3>1, <4>1, <4>2
            <3>4. QED
                BY <1>1, <3>2, <3>3 DEF ServiceInv, ServedOK
        <2>3. QED
            BY <2>1, <2>2
    <1>6. QED
        BY <1>3, <1>4, <1>5 DEF ServiceInv

-----------------------------------------------------------------------------
\* Every step of the three services.
LEMMA RequestInv ==
    ASSUME ServiceInv, NEW b \in BillId,
           Services!HotelRequest(b) \/ Services!DeliveryRequest(b) \/ Services!BookingRequest(b)
    PROVE  ServiceInv' /\ LifeStep
    <1>1. service[b] \in Services!Row /\ service[b].voucher \in BOOLEAN
        BY DEF ServiceInv, ServiceRows, Services!Row
    <1>2. /\ Services!HotelTotal(service[b], service[b].voucher) \in Costs
          /\ Services!DeliveryTotal(service[b], service[b].voucher) \in Costs
          /\ 0 \in Costs
        BY <1>1, TotalType, ServiceAssumption DEF Costs
    <1>3. CASE Services!HotelRequest(b)
        <2>1. ASSUME NEW spent \in 0 .. ServicePoints, NEW voucher \in BOOLEAN, NEW rooms \in 0 .. MaxRooms,
                     Services!CreateHotel(b, rooms, voucher, spent)
              PROVE  ServiceInv' /\ LifeStep
            BY <2>1, CreateHotelInv
        <2>2. ASSUME NEW spent \in 0 .. ServicePoints, NEW voucher \in {"keep", "clear", "set"},
                     Services!UpdateHotel(b, voucher, spent)
              PROVE  ServiceInv' /\ LifeStep
            BY <2>2, UpdateServiceInv DEF Services!UpdateHotel
        <2>3. CASE Services!ConfirmHotel(b)
            BY <1>2, <2>3, ConfirmInv DEF Services!ConfirmHotel
        <2>4. CASE Services!PayHotel(b)
            BY <2>4, PayInv DEF Services!PayHotel
        <2>5. CASE Services!CompleteHotel(b)
            BY <2>5, CompleteBillInv DEF Services!CompleteHotel
        <2>6. CASE Services!CancelHotel(b)
            BY <2>6, CancelBillInv DEF Services!CancelHotel
        <2>7. QED
            BY <1>3, <2>1, <2>2, <2>3, <2>4, <2>5, <2>6 DEF Services!HotelRequest
    <1>4. CASE Services!DeliveryRequest(b)
        <2>1. ASSUME NEW spent \in 0 .. ServicePoints, NEW voucher \in BOOLEAN,
                     Services!CreateDelivery(b, voucher, spent)
              PROVE  ServiceInv' /\ LifeStep
            BY <2>1, CreateDeliveryInv
        <2>2. ASSUME NEW spent \in 0 .. ServicePoints, NEW voucher \in {"keep", "clear", "set"},
                     Services!UpdateDelivery(b, voucher, spent)
              PROVE  ServiceInv' /\ LifeStep
            BY <2>2, UpdateServiceInv DEF Services!UpdateDelivery
        <2>3. CASE Services!ConfirmDelivery(b)
            BY <1>2, <2>3, ConfirmInv DEF Services!ConfirmDelivery
        <2>4. CASE Services!PayDelivery(b)
            BY <2>4, PayInv DEF Services!PayDelivery
        <2>5. CASE Services!CompleteDelivery(b)
            BY <2>5, CompleteBillInv DEF Services!CompleteDelivery
        <2>6. CASE Services!CancelDelivery(b)
            BY <2>6, CancelBillInv DEF Services!CancelDelivery
        <2>7. QED
            BY <1>4, <2>1, <2>2, <2>3, <2>4, <2>5, <2>6 DEF Services!DeliveryRequest
    <1>5. CASE Services!BookingRequest(b)
        <2>1. CASE Services!CreateBooking(b)
            BY <2>1, CreateBookingInv
        <2>2. CASE Services!UpdateBooking(b)
            BY <2>2, UpdateBookingInv
        <2>3. CASE Services!ConfirmBooking(b)
            BY <1>2, <2>3, ConfirmInv DEF Services!ConfirmBooking
        <2>4. CASE Services!CancelBooking(b)
            BY <2>4, CancelBillInv DEF Services!CancelBooking
        <2>5. QED
            BY <1>5, <2>1, <2>2, <2>3, <2>4 DEF Services!BookingRequest
    <1>6. QED
        BY <1>3, <1>4, <1>5

\* The first state.
LEMMA InitService == Services!Init => ServiceInv /\ Services!Lifecycle!Init
    <1> SUFFICES ASSUME Services!Init PROVE ServiceInv /\ Services!Lifecycle!Init
        OBVIOUS
    <1>1. service = [b \in BillId |-> Services!NoBill] /\ served = Services!Idle
        BY DEF Services!Init
    <1>2. ServiceRows
        BY <1>1, BlankBill DEF ServiceRows
    <1>3. ServedOK
        <2>1. /\ Services!Idle.bill = Nobody /\ Services!Idle.todo = <<>>
              /\ Services!Idle = [bill |-> Nobody, row |-> Services!NoBill, todo |-> <<>>]
            BY DEF Services!Idle
        <2>2. <<>> \in Seq(BillId) /\ Len(<<>>) = 0
            BY EmptySeq
        <2>3. Services!Idle \in [bill : BillId \cup {Nobody}, row : Services!Row, todo : Seq(Work) \cup Seq(BillId)]
            BY <2>1, <2>2, BlankBill
        <2>4. QED
            BY <1>1, <2>1, <2>2, <2>3 DEF ServedOK
    <1>4. \A b \in BillId : Services!StageOf(service[b].status) = "none" /\ service[b].total = 0
        BY <1>1, BlankBill, Stages
    <1>5. Services!Lifecycle!Init
        BY <1>4 DEF Services!Lifecycle!Init
    <1>6. QED
        BY <1>2, <1>3, <1>5 DEF ServiceInv

\* The invariant, and the life of the bills, after every step.
LEMMA NextService == ServiceInv /\ [Services!Next]_servicesVars => ServiceInv' /\ LifeStep
    <1> SUFFICES ASSUME ServiceInv, [Services!Next]_servicesVars PROVE ServiceInv' /\ LifeStep
        OBVIOUS
    <1>1. CASE UNCHANGED servicesVars
        <2>1. service' = service /\ served' = served
            BY <1>1 DEF servicesVars
        <2>2. LifeStep
            BY <2>1, SameLife
        <2>3. QED
            BY <2>1, <2>2 DEF ServiceInv, ServiceRows, ServedOK
    <1>2. CASE Services!Next
        <2>1. ASSUME NEW b \in BillId,
                     Services!HotelRequest(b) \/ Services!DeliveryRequest(b) \/ Services!BookingRequest(b)
              PROVE  ServiceInv' /\ LifeStep
            BY <2>1, RequestInv
        <2>2. ASSUME NEW b \in BillId, Services!Late(b) \/ Services!Quiet(b) \/ Services!RemoveRoom(b)
              PROVE  ServiceInv' /\ LifeStep
            BY <2>2, AroundInv
        <2>3. CASE Services!Step
            <3>1. CASE Services!DeductPoints \/ Services!Redeem \/ Services!Reward
                BY <3>1, ElsewhereInv
            <3>2. CASE Services!RoomsRefused
                BY <3>2, GivesUpInv DEF Services!RoomsRefused
            <3>3. QED
                BY <2>3, <3>1, <3>2, SaveRoomInv, SaveVoucherInv, SaveTotalInv, ReleaseInv, SaveStatusInv, ExpireInv
                DEF Services!Step
        <2>4. CASE Services!Jobs
            BY <2>4, CheckInv DEF Services!Jobs, Services!CheckHotels, Services!CheckDeliveries, Services!CheckBookings
        <2>5. CASE Services!Fail
            BY <2>5, GivesUpInv DEF Services!Fail
        <2>6. QED
            BY <1>2, <2>1, <2>2, <2>3, <2>4, <2>5 DEF Services!Next
    <1>3. QED
        BY <1>1, <1>2

-----------------------------------------------------------------------------
\* The uses of the voucher.
Redeemed == Services!InUse \cup {"COMPLETED"}
Vouchered == {b \in BillId : service[b].voucher /\ service[b].status \in Redeemed}

\* A payment that has counted its voucher and not yet saved its status.
Owes ==
    /\ served.bill # Nobody /\ served.todo \in Seq(PayWork)
    /\ service[served.bill].voucher /\ ~Has(served.todo, "redeem")

\* usedCount is ahead of the bills by the payment that is under way.
VoucherInv ==
    /\ redeemed \in Nat
    /\ Cardinality(Vouchered) <= redeemed
    /\ Owes => Cardinality(Vouchered) < redeemed

\* Vouchered is a set of rows of the tables, so it is finite.
LEMMA VoucheredFinite == IsFiniteSet(Vouchered) /\ Cardinality(Vouchered) \in Nat
    <1>1. Vouchered \subseteq BillId
        BY DEF Vouchered
    <1>2. IsFiniteSet(Vouchered)
        BY <1>1, TicketAssumption, FS_Subset
    <1>3. QED
        BY <1>2, FS_CardinalityType

\* A step after which no bill is counted that was not.
LEMMA NoneMore ==
    ASSUME VoucherInv, Vouchered' \subseteq Vouchered, redeemed' = redeemed, Owes' => Owes
    PROVE  VoucherInv'
    <1> DEFINE now == Vouchered
               next == Vouchered'
    <1>1. IsFiniteSet(now) /\ Cardinality(now) \in Nat
        BY VoucheredFinite
    <1>2. IsFiniteSet(next) /\ Cardinality(next) <= Cardinality(now) /\ Cardinality(next) \in Nat
        <2> HIDE DEF now, next
        <2>1. next \subseteq now
            BY DEF now, next
        <2>2. QED
            BY <1>1, <2>1, FS_Subset, FS_CardinalityType
    <1>3. redeemed \in Nat /\ Cardinality(now) <= redeemed /\ (Owes => Cardinality(now) < redeemed)
        BY DEF VoucherInv
    <1>4. Cardinality(next) <= redeemed' /\ (Owes' => Cardinality(next) < redeemed')
        <2> HIDE DEF now, next
        <2>1. QED
            BY <1>1, <1>2, <1>3
    <1>5. QED
        BY <1>3, <1>4 DEF VoucherInv

\* One bill changes, and is not in use afterwards.
LEMMA SaveAside ==
    ASSUME VoucherInv, NEW b \in BillId, \A c \in BillId : c # b => service'[c] = service[c],
           service'[b].status \notin Redeemed, redeemed' = redeemed, ~Owes'
    PROVE  VoucherInv'
    <1>1. Vouchered' \subseteq Vouchered
        BY DEF Vouchered
    <1>2. QED
        BY <1>1, NoneMore

\* A request that is over, one that is no payment, and the jobs owe nothing.
LEMMA NotPaying ==
    /\ served'.bill = Nobody => ~Owes'
    /\ served' = Services!Idle => ~Owes'
    /\ \A S : S \cap PayWork = {} /\ served'.todo \in Seq(S) /\ served'.todo # <<>> => ~Owes'
    <1>1. served'.bill = Nobody => ~Owes'
        BY DEF Owes
    <1>2. served' = Services!Idle => ~Owes'
        BY <1>1 DEF Services!Idle
    <1>3. ASSUME NEW S, S \cap PayWork = {}, served'.todo \in Seq(S), served'.todo # <<>>, Owes'
          PROVE  FALSE
        <2> DEFINE todo == served'.todo
        <2>1. todo \in Seq(S) /\ todo \in Seq(PayWork) /\ todo # <<>>
            BY <1>3 DEF Owes
        <2> HIDE DEF todo
        <2>2. Head(todo) \in S
            BY <2>1, HeadTailProperties
        <2>3. Head(todo) \in PayWork
            BY <2>1, HeadTailProperties
        <2>4. QED
            BY <1>3, <2>2, <2>3
    <1>4. QED
        BY <1>1, <1>2, <1>3

\* What a save makes of a row's status and voucher.
LEMMA SavedStatus ==
    ASSUME ServiceRows, NEW b \in BillId, NEW row \in Services!Row, Services!Saved(b, row)
    PROVE  /\ service'[b].status = row.status /\ service'[b].voucher = row.voucher
           /\ \A c \in BillId : c # b => service'[c] = service[c]
    <1>1. PICK new \in Services!Row :
              /\ service' = [service EXCEPT ![b] = new]
              /\ new.status = row.status /\ new.total = row.total
              /\ new.voucher = row.voucher /\ new.rooms = row.rooms
        BY SavedFacts
    <1>2. QED
        BY <1>1 DEF ServiceRows

\* A save of a bill that is not in use, by a request that is over with it.
LEMMA SavedAside ==
    ASSUME ServiceInv, VoucherInv, NEW b \in BillId, NEW row \in Services!Row, Services!Saved(b, row),
           row.status \notin Redeemed, redeemed' = redeemed, ~Owes'
    PROVE  VoucherInv'
    BY SavedStatus, SaveAside DEF ServiceInv

\* create.
LEMMA CreateVouchers ==
    ASSUME ServiceInv, VoucherInv, NEW b \in BillId,
           \/ \E rooms \in 0 .. MaxRooms, voucher \in BOOLEAN, spent \in 0 .. ServicePoints :
                 Services!CreateHotel(b, rooms, voucher, spent)
           \/ \E voucher \in BOOLEAN, spent \in 0 .. ServicePoints : Services!CreateDelivery(b, voucher, spent)
           \/ Services!CreateBooking(b)
    PROVE  VoucherInv'
    <1>1. "PENDING" \notin Redeemed
        BY DEF Redeemed, Services!InUse
    <1>2. ASSUME NEW rooms \in 0 .. MaxRooms, NEW voucher \in BOOLEAN, NEW spent \in 0 .. ServicePoints,
                 Services!CreateHotel(b, rooms, voucher, spent)
          PROVE  VoucherInv'
        <2> DEFINE row == [Services!NoBill EXCEPT !.kind = "hotel", !.status = "PENDING", !.points = spent]
                   todo == [i \in 1 .. rooms |-> "room"] \o <<"voucher">>
        <2>1. Services!Saved(b, row) /\ served'.todo = todo /\ redeemed' = redeemed
            BY <1>2 DEF Services!CreateHotel
        <2>2. row \in Services!Row /\ row.status = "PENDING"
            BY BlankBill DEF Services!Row, Services!Status, Services!Kind
        <2>3. todo \in Seq({"room", "voucher"}) /\ todo # <<>>
            BY RoomTodo DEF Ends
        <2> HIDE DEF row, todo
        <2>4. {"room", "voucher"} \cap PayWork = {}
            BY DEF PayWork
        <2>5. ~Owes'
            BY <2>1, <2>3, <2>4, NotPaying
        <2>6. QED
            BY <1>1, <2>1, <2>2, <2>5, SavedAside
    <1>3. ASSUME NEW voucher \in BOOLEAN, NEW spent \in 0 .. ServicePoints,
                 Services!CreateDelivery(b, voucher, spent)
          PROVE  VoucherInv'
        <2> DEFINE row == [Services!NoBill EXCEPT !.kind = "delivery", !.status = "PENDING",
                              !.points = spent, !.voucher = voucher]
        <2>1. Services!Saved(b, row) /\ served'.todo = <<"total">> /\ redeemed' = redeemed
            BY <1>3 DEF Services!CreateDelivery
        <2>2. row \in Services!Row /\ row.status = "PENDING"
            BY BlankBill DEF Services!Row, Services!Status, Services!Kind
        <2> HIDE DEF row
        <2>3. <<"total">> \in Seq({"total"}) /\ <<"total">> # <<>> /\ {"total"} \cap PayWork = {}
            BY DEF PayWork
        <2>4. ~Owes'
            BY <2>1, <2>3, NotPaying
        <2>5. QED
            BY <1>1, <2>1, <2>2, <2>4, SavedAside
    <1>4. CASE Services!CreateBooking(b)
        <2> DEFINE row == [Services!NoBill EXCEPT !.kind = "restaurant", !.status = "PENDING"]
        <2>1. Services!Saved(b, row) /\ served' = Services!Idle /\ redeemed' = redeemed
            BY <1>4 DEF Services!CreateBooking, Services!Serve
        <2>2. row \in Services!Row /\ row.status = "PENDING"
            BY BlankBill DEF Services!Row, Services!Status, Services!Kind
        <2> HIDE DEF row
        <2>3. QED
            BY <1>1, <2>1, <2>2, SavedAside, NotPaying
    <1>5. QED
        BY <1>2, <1>3, <1>4

\* update and confirm: no bill that is in use is edited.
LEMMA EditVouchers ==
    ASSUME ServiceInv, VoucherInv, NEW b \in BillId,
           \/ Services!UpdateBooking(b)
           \/ \E voucher \in {"keep", "clear", "set"}, spent \in 0 .. ServicePoints :
                 service[b].kind # "restaurant" /\ Services!Update(b, voucher, spent)
           \/ \E total \in Costs : Services!Confirm(b, total)
    PROVE  VoucherInv'
    <1>1. service[b] \in Services!Row
        BY DEF ServiceInv, ServiceRows
    <1>2. CASE Services!UpdateBooking(b)
        <2> DEFINE row == [service[b] EXCEPT !.contact = TRUE]
        <2>1. /\ Services!Saved(b, row) /\ served' = Services!Idle /\ redeemed' = redeemed
              /\ service[b].status = "PENDING"
            BY <1>2 DEF Services!UpdateBooking, Services!Editable, Services!Serve
        <2>2. row \in Services!Row /\ row.status \notin Redeemed
            BY <1>1, <2>1 DEF Services!Row, Redeemed, Services!InUse
        <2> HIDE DEF row
        <2>3. QED
            BY <2>1, <2>2, SavedAside, NotPaying
    <1>3. ASSUME NEW voucher \in {"keep", "clear", "set"}, NEW spent \in 0 .. ServicePoints,
                 service[b].kind # "restaurant", Services!Update(b, voucher, spent)
          PROVE  VoucherInv'
        <2> DEFINE edited == [service[b] EXCEPT !.contact = TRUE, !.points = spent,
                                 !.voucher = @ \/ voucher = "set"]
                   row == [edited EXCEPT !.total = Services!Total(edited, edited.voucher /\ voucher # "clear")]
        <2>1. Services!Saved(b, row) /\ served' = Services!Idle /\ redeemed' = redeemed
            BY <1>3 DEF Services!Update, Services!Serve
        <2>2. service[b].status \in Services!OpenStatus
            BY <1>3 DEF Services!Update, Services!Editable
        <2>3. edited \in Services!Row /\ edited.status = service[b].status
            BY <1>1, <1>3 DEF Services!Row
        <2>4. (edited.voucher /\ voucher # "clear") \in BOOLEAN
            OBVIOUS
        <2> HIDE DEF edited
        <2>5. Services!Total(edited, edited.voucher /\ voucher # "clear") \in Costs /\ Costs \subseteq Nat
            BY <2>3, <2>4, TotalType
        <2>6. row \in Services!Row /\ row.status = service[b].status
            BY <2>3, <2>5 DEF Services!Row
        <2> HIDE DEF row
        <2>7. row.status \notin Redeemed
            BY <2>2, <2>6 DEF Redeemed, Services!InUse, Services!OpenStatus
        <2>8. QED
            BY <2>1, <2>6, <2>7, SavedAside, NotPaying
    <1>4. ASSUME NEW total \in Costs, Services!Confirm(b, total)
          PROVE  VoucherInv'
        <2> DEFINE row == [service[b] EXCEPT !.status = "CONFIRMED", !.total = total]
        <2>1. Services!Saved(b, row) /\ served' = Services!Idle /\ redeemed' = redeemed
            BY <1>4 DEF Services!Confirm, Services!Serve
        <2>2. total \in Nat
            BY ServiceAssumption DEF Costs
        <2>3. row \in Services!Row /\ row.status \notin Redeemed
            BY <1>1, <2>2 DEF Services!Row, Services!Status, Redeemed, Services!InUse
        <2> HIDE DEF row
        <2>4. QED
            BY <2>1, <2>3, SavedAside, NotPaying
    <1>5. QED
        BY <1>2, <1>3, <1>4

\* pay owes nothing before it has counted the voucher; complete and cancel
\* are no payments.
LEMMA DecideVouchers ==
    ASSUME ServiceInv, VoucherInv, NEW b \in BillId,
           Services!Pay(b) \/ Services!Complete(b) \/ Services!Cancel(b)
    PROVE  VoucherInv'
    <1>1. service' = service /\ redeemed' = redeemed /\ service[b] \in Services!Row
        BY DEF Services!Pay, Services!Complete, Services!Cancel, ServiceInv, ServiceRows
    <1>2. Vouchered' \subseteq Vouchered
        BY <1>1 DEF Vouchered
    <1>3. CASE Services!Pay(b)
        <2> DEFINE todo == Services!PaySteps(service[b])
        <2>1. served'.bill = b /\ served'.todo = todo
            BY <1>3 DEF Services!Pay, Services!Begin
        <2>2. service[b].voucher => Has(todo, "redeem")
            BY <1>1, PayTodo
        <2> HIDE DEF todo
        <2>3. ~Owes'
            BY <1>1, <2>1, <2>2 DEF Owes, Has
        <2>4. QED
            BY <1>1, <1>2, <2>3, NoneMore
    <1>4. CASE Services!Complete(b)
        <2> DEFINE todo == Services!Settling(service[b], TRUE) \o <<"completed">>
        <2>1. served'.todo = todo
            BY <1>4 DEF Services!Complete, Services!Begin
        <2>2. todo \in Seq(CompleteWork) /\ todo # <<>>
            BY <1>1, CompleteTodo DEF Ends
        <2> HIDE DEF todo
        <2>3. CompleteWork \cap PayWork = {}
            BY DEF CompleteWork, PayWork
        <2>4. ~Owes'
            BY <2>1, <2>2, <2>3, NotPaying
        <2>5. QED
            BY <1>1, <1>2, <2>4, NoneMore
    <1>5. CASE Services!Cancel(b)
        <2> DEFINE todo == Services!If(service[b].status \in Services!InUse, Services!Settling(service[b], FALSE))
                           \o <<"cancelled">>
        <2>1. served'.todo = todo
            BY <1>5 DEF Services!Cancel, Services!Begin
        <2>2. todo \in Seq(CancelWork) /\ todo # <<>>
            BY <1>1, CancelTodo DEF Ends
        <2> HIDE DEF todo
        <2>3. CancelWork \cap PayWork = {}
            BY DEF CancelWork, PayWork
        <2>4. ~Owes'
            BY <2>1, <2>2, <2>3, NotPaying
        <2>5. QED
            BY <1>1, <1>2, <2>4, NoneMore
    <1>6. QED
        BY <1>3, <1>4, <1>5

\* The commits that leave every bill where it is.
LEMMA SameVouchers ==
    ASSUME VoucherInv, redeemed' = redeemed, Owes' => Owes,
           \A b \in BillId : service'[b].status = service[b].status /\ service'[b].voucher = service[b].voucher
    PROVE  VoucherInv'
    <1>1. Vouchered' = Vouchered
        BY DEF Vouchered
    <1>2. QED
        BY <1>1, NoneMore

\* A commit that is not the last one leaves the others to do.
LEMMA GoesOn ==
    ASSUME ServedOK, NEW step, step \notin Closing, Services!At(step), Services!Done
    PROVE  /\ served' = [served EXCEPT !.todo = Tail(served.todo)]
           /\ served'.bill = served.bill /\ served'.todo = Tail(served.todo)
           /\ Ends(served'.todo) /\ served'.todo # <<>>
           /\ \A S : served.todo \in Seq(S) => served'.todo \in Seq(S)
           /\ served.todo \in Seq(Work) /\ Waits(service[served.bill], served.todo) /\ Head(served.todo) = step
    <1>1. /\ served \in [bill : BillId \cup {Nobody}, row : Services!Row, todo : Seq(Work) \cup Seq(BillId)]
          /\ served.bill \in BillId /\ Ends(served.todo) /\ Waits(service[served.bill], served.todo)
          /\ Head(served.todo) = step
        BY AtStep
    <1>2. served.todo \in Seq(Work)
        BY <1>1, HeadWork
    <1>3. Ends(Tail(served.todo)) /\ Len(served.todo) # 1
        BY <1>1, <1>2, TailEnds
    <1>4. served' = [served EXCEPT !.todo = Tail(served.todo)]
        BY <1>3 DEF Services!Done
    <1>5. \A S : served.todo \in Seq(S) => Tail(served.todo) \in Seq(S)
        BY <1>1, TailEnds
    <1>6. served'.bill = served.bill /\ served'.todo = Tail(served.todo)
        BY <1>1, <1>4
    <1>7. QED
        BY <1>1, <1>2, <1>3, <1>4, <1>5, <1>6 DEF Ends

\* The rooms of a bill that is created.
LEMMA RoomVouchers ==
    ASSUME ServiceInv, VoucherInv, Services!SaveRoom
    PROVE  VoucherInv'
    <1>1. /\ Services!At("room") /\ Services!Done /\ redeemed' = redeemed
          /\ service' = [service EXCEPT ![served.bill].rooms = @ + 1]
          /\ ServedOK /\ service \in [BillId -> Services!Row]
        BY DEF Services!SaveRoom, ServiceInv, ServiceRows
    <1>2. \A b \in BillId : service'[b].status = service[b].status /\ service'[b].voucher = service[b].voucher
        BY <1>1 DEF Services!Row
    <1>3. "room" \notin Closing
        BY DEF Closing
    <1>4. /\ served'.todo # <<>> /\ \A S : served.todo \in Seq(S) => served'.todo \in Seq(S)
          /\ Waits(service[served.bill], served.todo) /\ Head(served.todo) = "room"
        BY <1>1, <1>3, GoesOn
    <1>5. Ends(served.todo)
        BY <1>1, AtStep
    <1>6. served'.todo \in Seq({"room", "voucher"})
        BY <1>4, <1>5, HeadWork
    <1>7. {"room", "voucher"} \cap PayWork = {}
        BY DEF PayWork
    <1>8. ~Owes'
        BY <1>4, <1>6, <1>7, NotPaying
    <1>9. QED
        BY <1>1, <1>2, <1>8, SameVouchers

\* The other saves of create.
LEMMA CreatedVouchers ==
    ASSUME ServiceInv, VoucherInv, Services!SaveVoucher \/ Services!SaveTotal
    PROVE  VoucherInv'
    <1> DEFINE b == served.bill
               total == Services!DeliveryTotal(service[b], service[b].voucher)
               named == [service[b] EXCEPT !.voucher = served.row.voucher]
               priced == [service[b] EXCEPT !.total = total]
    <1>1. PICK step \in {"voucher", "total"} : Services!At(step)
        BY DEF Services!SaveVoucher, Services!SaveTotal
    <1>2. Services!Done /\ redeemed' = redeemed /\ (Services!Saved(b, named) \/ Services!Saved(b, priced))
        BY DEF Services!SaveVoucher, Services!SaveTotal
    <1>3. /\ b \in BillId /\ b # Nobody /\ Head(served.todo) = step /\ served.row \in Services!Row
          /\ Ends(served.todo) /\ Waits(service[b], served.todo) /\ ServedOK
        BY <1>1, AtStep DEF ServiceInv
    <1>4. service[b].status = "PENDING"
        BY <1>3, HeadWork
    <1>5. service[b] \in Services!Row /\ service[b].voucher \in BOOLEAN
        BY <1>3 DEF ServiceInv, ServiceRows, Services!Row
    <1>6. total \in Nat
        BY <1>5, TotalType
    <1> HIDE DEF total
    <1>7. /\ named \in Services!Row /\ named.status = "PENDING"
          /\ priced \in Services!Row /\ priced.status = "PENDING"
        BY <1>3, <1>4, <1>5, <1>6 DEF Services!Row
    <1> HIDE DEF named, priced
    <1>8. ~Owes'
        <2>1. Head(served.todo) \in Closing
            BY <1>3 DEF Closing
        <2>2. served' = Services!Idle
            BY <1>2, <1>3, <2>1, Finishes
        <2>3. QED
            BY <2>2, NotPaying
    <1>9. "PENDING" \notin Redeemed
        BY DEF Redeemed, Services!InUse
    <1>10. QED
        BY <1>2, <1>3, <1>7, <1>8, <1>9, SavedAside

\* The points of a payment are deducted.
LEMMA DeductVouchers ==
    ASSUME ServiceInv, VoucherInv, Services!DeductPoints
    PROVE  VoucherInv'
    <1> DEFINE todo == served.todo
    <1>1. /\ Services!At("points") /\ Services!Done /\ service' = service /\ redeemed' = redeemed /\ ServedOK
        BY DEF Services!DeductPoints, ServiceInv
    <1>2. "points" \notin Closing
        BY DEF Closing
    <1>3. /\ served'.bill = served.bill /\ served'.todo = Tail(todo)
          /\ todo \in Seq(Work) /\ Waits(service[served.bill], todo) /\ Head(todo) = "points"
          /\ \A S : todo \in Seq(S) => Tail(todo) \in Seq(S)
        BY <1>1, <1>2, GoesOn
    <1>4. Ends(todo)
        BY <1>1, AtStep
    <1>5. todo \in Seq(PayWork)
        BY <1>3, <1>4, HeadWork
    <1>6. Has(todo, "redeem") => Has(Tail(todo), "redeem")
        <2>1. /\ todo # <<>> /\ Len(todo) \in Nat /\ Len(Tail(todo)) = Len(todo) - 1 /\ Head(todo) = todo[1]
              /\ \A i \in 1 .. Len(Tail(todo)) : Tail(todo)[i] = todo[i + 1]
            BY <1>4, <1>5, HeadTailProperties DEF Ends
        <2>2. ASSUME NEW i \in 1 .. Len(todo), todo[i] = "redeem"
              PROVE  i - 1 \in 1 .. Len(Tail(todo)) /\ Tail(todo)[i - 1] = "redeem"
            <3>1. i # 1
                BY <1>3, <2>1, <2>2
            <3>2. i - 1 \in 1 .. Len(Tail(todo)) /\ (i - 1) + 1 = i
                BY <2>1, <3>1
            <3>3. QED
                BY <2>1, <2>2, <3>2
        <2>3. QED
            BY <2>2 DEF Has
    <1>7. Owes' => Owes
        <2>1. ASSUME Owes' PROVE Owes
            <3>1. /\ served'.bill # Nobody /\ service'[served'.bill].voucher /\ ~Has(served'.todo, "redeem")
                BY <2>1 DEF Owes, Has
            <3>2. QED
                BY <1>1, <1>3, <1>5, <1>6, <3>1 DEF Owes
        <2>2. QED
            BY <2>1
    <1>8. QED
        BY <1>1, <1>7, SameVouchers

\* The voucher is counted.
LEMMA RedeemVouchers ==
    ASSUME VoucherInv, Services!Redeem
    PROVE  VoucherInv'
    <1>1. redeemed' = redeemed + 1 /\ service' = service
        BY DEF Services!Redeem
    <1>2. Vouchered' = Vouchered
        BY <1>1 DEF Vouchered
    <1>3. Cardinality(Vouchered) \in Nat /\ redeemed \in Nat /\ Cardinality(Vouchered) <= redeemed
        BY VoucheredFinite DEF VoucherInv
    <1>4. redeemed' \in Nat /\ Cardinality(Vouchered) < redeemed'
        BY <1>1, <1>3
    <1>5. Cardinality(Vouchered') < redeemed' /\ Cardinality(Vouchered') <= redeemed'
        BY <1>2, <1>3, <1>4
    <1>6. QED
        BY <1>4, <1>5 DEF VoucherInv

\* The wallet and the points of complete and cancel.
LEMMA SettleVouchers ==
    ASSUME ServiceInv, VoucherInv, Services!Release \/ Services!Reward
    PROVE  VoucherInv'
    <1>1. PICK step \in {"release", "reward"} : Services!At(step)
        BY DEF Services!Release, Services!Reward
    <1>2. /\ service' = service /\ redeemed' = redeemed /\ ServedOK
          /\ served' = Services!Idle \/ Services!Done
        BY DEF Services!Release, Services!Reward, ServiceInv
    <1>3. CASE served' = Services!Idle
        BY <1>2, <1>3, NotPaying, SameVouchers
    <1>4. CASE Services!Done
        <2>1. step \notin Closing
            BY DEF Closing
        <2>2. /\ served'.todo # <<>> /\ \A S : served.todo \in Seq(S) => served'.todo \in Seq(S)
              /\ Waits(service[served.bill], served.todo) /\ Head(served.todo) = step
            BY <1>1, <1>2, <1>4, <2>1, GoesOn
        <2>3. Ends(served.todo)
            BY <1>1, <1>2, AtStep
        <2>4. served.todo \in Seq(CompleteWork) \/ served.todo \in Seq(CancelWork)
            BY <2>2, <2>3, HeadWork
        <2>5. CompleteWork \cap PayWork = {} /\ CancelWork \cap PayWork = {}
            BY DEF CompleteWork, CancelWork, PayWork
        <2>6. ~Owes'
            BY <2>2, <2>4, <2>5, NotPaying
        <2>7. QED
            BY <1>2, <2>6, SameVouchers
    <1>5. QED
        BY <1>2, <1>3, <1>4

\* The status of a payment is saved when its voucher has been counted.
LEMMA StatusVouchers ==
    ASSUME ServiceInv, VoucherInv, Services!SaveStatus
    PROVE  VoucherInv'
    <1> DEFINE b == served.bill
               status == CASE Services!At("completed") -> "COMPLETED"
                           [] Services!At("cancelled") -> "CANCELLED"
                           [] OTHER -> IF service[b].kind = "hotel" THEN "PAID" ELSE "IN_TRANSIT"
               row == [service[b] EXCEPT !.status = status]
               now == Vouchered
               next == Vouchered'
    <1>1. /\ Services!At("paid") \/ Services!At("completed") \/ Services!At("cancelled")
          /\ Services!Done /\ Services!Saved(b, row) /\ redeemed' = redeemed
        BY DEF Services!SaveStatus
    <1>2. PICK step \in {"paid", "completed", "cancelled"} : Services!At(step)
        BY <1>1
    <1>3. /\ b \in BillId /\ b # Nobody /\ Head(served.todo) = step
          /\ Ends(served.todo) /\ Waits(service[b], served.todo) /\ ServedOK /\ ServiceRows
        BY <1>2, AtStep DEF ServiceInv
    <1>4. /\ Services!At("completed") <=> step = "completed"
          /\ Services!At("cancelled") <=> step = "cancelled"
        BY <1>2, <1>3 DEF Services!At
    <1>5. /\ step = "completed" => status = "COMPLETED"
          /\ step = "cancelled" => status = "CANCELLED"
          /\ step = "paid" => status \in Services!InUse
        BY <1>4 DEF Services!InUse
    <1> HIDE DEF status
    <1>6. status \in Redeemed \cup {"CANCELLED"}
        BY <1>5 DEF Redeemed
    <1>7. row \in Services!Row /\ row.status = status /\ row.voucher = service[b].voucher
        BY <1>3, <1>6 DEF ServiceRows, Services!Row, Services!Status, Services!InUse, Redeemed
    <1> HIDE DEF row
    <1>8. /\ service'[b].status = status /\ service'[b].voucher = service[b].voucher
          /\ \A c \in BillId : c # b => service'[c] = service[c]
        BY <1>1, <1>3, <1>7, SavedStatus
    <1>9. ~Owes'
        <2>1. Head(served.todo) \in Closing
            BY <1>3 DEF Closing
        <2>2. served' = Services!Idle
            BY <1>1, <1>3, <2>1, Finishes
        <2>3. QED
            BY <2>2, NotPaying
    <1>10. CASE step = "cancelled"
        <2>1. service'[b].status \notin Redeemed
            BY <1>5, <1>8, <1>10 DEF Redeemed, Services!InUse
        <2>2. QED
            BY <1>1, <1>3, <1>8, <1>9, <2>1, SaveAside
    <1>11. CASE step = "completed"
        <2>1. service[b].status \in Redeemed
            BY <1>3, <1>11, HeadWork DEF Redeemed
        <2>2. Vouchered' \subseteq Vouchered
            BY <1>3, <1>8, <2>1 DEF Vouchered
        <2>3. QED
            BY <1>1, <1>9, <2>2, NoneMore
    <1>12. CASE step = "paid"
        <2>1. service[b].voucher => Owes
            <3>1. served.todo \in Seq(PayWork)
                BY <1>3, <1>12, HeadWork
            <3>2. ~Has(served.todo, "redeem")
                <4>1. Len(served.todo) = 1 /\ Head(served.todo) = served.todo[1]
                    BY <1>3, <1>12, <3>1, TailEnds DEF Closing
                <4>2. QED
                    BY <1>3, <1>12, <4>1 DEF Has
            <3>3. QED
                BY <1>3, <3>1, <3>2 DEF Owes
        <2>2. /\ IsFiniteSet(now) /\ Cardinality(now) \in Nat /\ redeemed \in Nat /\ Cardinality(now) <= redeemed
              /\ service[b].voucher => Cardinality(now) < redeemed
            BY <2>1, VoucheredFinite DEF VoucherInv
        <2>3. next \subseteq (IF service[b].voucher THEN now \cup {b} ELSE now)
            BY <1>8 DEF Vouchered
        <2> HIDE DEF now, next
        <2>4. /\ IsFiniteSet(now \cup {b})
              /\ Cardinality(now \cup {b}) = IF b \in now THEN Cardinality(now) ELSE Cardinality(now) + 1
            BY <2>2, FS_AddElement
        <2>5. Cardinality(next) \in Nat /\ Cardinality(next) <= redeemed
            <3>1. CASE service[b].voucher
                <4>1. next \subseteq now \cup {b}
                    BY <2>3, <3>1
                <4>2. Cardinality(next) <= Cardinality(now \cup {b}) /\ Cardinality(next) \in Nat
                    BY <2>4, <4>1, FS_Subset, FS_CardinalityType
                <4>3. QED
                    BY <2>2, <2>4, <3>1, <4>2
            <3>2. CASE ~service[b].voucher
                <4>1. next \subseteq now
                    BY <2>3, <3>2
                <4>2. Cardinality(next) <= Cardinality(now) /\ Cardinality(next) \in Nat
                    BY <2>2, <4>1, FS_Subset, FS_CardinalityType
                <4>3. QED
                    BY <2>2, <4>2
            <3>3. QED
                BY <3>1, <3>2
        <2>6. Cardinality(next) <= redeemed'
            BY <1>1, <2>5
        <2>7. QED
            BY <1>1, <1>9, <2>2, <2>6 DEF VoucherInv, next
    <1>13. QED
        BY <1>10, <1>11, <1>12

\* The jobs cancel bills that were never in use.
LEMMA JobVouchers ==
    ASSUME ServiceInv, VoucherInv, Services!Jobs \/ Services!Expire
    PROVE  VoucherInv'
    <1>1. CASE Services!Jobs
        <2>1. /\ service' = service /\ redeemed' = redeemed
              /\ \E todo : served' = [Services!Idle EXCEPT !.todo = todo]
            BY <1>1 DEF Services!Jobs, Services!CheckHotels, Services!CheckDeliveries, Services!CheckBookings,
                        Services!CheckTimeouts
        <2>2. served'.bill = Nobody
            BY <2>1 DEF Services!Idle
        <2>3. QED
            BY <2>1, <2>2, NotPaying, SameVouchers
    <1>2. CASE Services!Expire
        <2> DEFINE todo == served.todo
                   b == Head(todo)
                   row == [service[b] EXCEPT !.status = "CANCELLED"]
        <2>1. /\ served.bill = Nobody /\ todo # <<>> /\ Services!Saved(b, row) /\ Services!Done
              /\ redeemed' = redeemed
            BY <1>2 DEF Services!Expire
        <2>2. /\ todo \in Seq(BillId)
              /\ served \in [bill : BillId \cup {Nobody}, row : Services!Row, todo : Seq(Work) \cup Seq(BillId)]
            BY <2>1 DEF ServiceInv, ServedOK
        <2>3. b \in BillId
            BY <2>1, <2>2, HeadTailProperties
        <2>4. served'.bill = Nobody
            BY <2>1, <2>2 DEF Services!Done, Services!Idle
        <2>5. row \in Services!Row /\ row.status \notin Redeemed
            BY <2>3 DEF ServiceInv, ServiceRows, Services!Row, Services!Status, Redeemed, Services!InUse
        <2> HIDE DEF row, b, todo
        <2>6. QED
            BY <2>1, <2>3, <2>4, <2>5, NotPaying, SavedAside
    <1>3. QED
        BY <1>1, <1>2

\* Time, and rooms that are deleted.
LEMMA AroundVouchers ==
    ASSUME ServiceInv, VoucherInv, NEW b \in BillId, Services!Late(b) \/ Services!Quiet(b) \/ Services!RemoveRoom(b)
    PROVE  VoucherInv'
    <1>1. service \in [BillId -> Services!Row] /\ served' = served /\ redeemed' = redeemed
        BY DEF ServiceInv, ServiceRows, Services!Late, Services!Quiet, Services!RemoveRoom
    <1>2. \A c \in BillId : service'[c].status = service[c].status /\ service'[c].voucher = service[c].voucher
        BY <1>1 DEF Services!Late, Services!Quiet, Services!RemoveRoom, Services!Row
    <1>3. Owes' => Owes
        <2>1. served.bill # Nobody => service'[served.bill].voucher = service[served.bill].voucher
            BY <1>2 DEF ServiceInv, ServedOK
        <2>2. Owes' <=> /\ served'.bill # Nobody /\ served'.todo \in Seq(PayWork)
                        /\ service'[served'.bill].voucher /\ ~Has(served'.todo, "redeem")
            BY DEF Owes, Has
        <2>3. QED
            BY <1>1, <2>1, <2>2 DEF Owes
    <1>4. QED
        BY <1>1, <1>2, <1>3, SameVouchers

\* The count of the voucher in the first state and after every step.
LEMMA InitVouchers == Services!Init => VoucherInv
    <1> SUFFICES ASSUME Services!Init PROVE VoucherInv
        OBVIOUS
    <1>1. service = [b \in BillId |-> Services!NoBill] /\ served = Services!Idle /\ redeemed = 0
        BY DEF Services!Init
    <1>2. Vouchered = {}
        BY <1>1, BlankBill DEF Vouchered
    <1>3. Cardinality(Vouchered) = 0
        BY <1>2, FS_EmptySet
    <1>4. ~Owes
        BY <1>1 DEF Owes, Services!Idle
    <1>5. QED
        BY <1>1, <1>3, <1>4 DEF VoucherInv

\* The count of the voucher after every step.
LEMMA NextVouchers == ServiceInv /\ VoucherInv /\ [Services!Next]_servicesVars => VoucherInv'
    <1> SUFFICES ASSUME ServiceInv, VoucherInv, [Services!Next]_servicesVars PROVE VoucherInv'
        OBVIOUS
    <1>1. CASE UNCHANGED servicesVars
        BY <1>1 DEF servicesVars, VoucherInv, Vouchered, Owes, Has
    <1>2. CASE Services!Next
        <2>1. ASSUME NEW b \in BillId,
                     Services!HotelRequest(b) \/ Services!DeliveryRequest(b) \/ Services!BookingRequest(b)
              PROVE  VoucherInv'
            <3>1. /\ Services!HotelTotal(service[b], service[b].voucher) \in Costs
                  /\ Services!DeliveryTotal(service[b], service[b].voucher) \in Costs
                  /\ 0 \in Costs
                <4>1. service[b] \in Services!Row /\ service[b].voucher \in BOOLEAN
                    BY DEF ServiceInv, ServiceRows, Services!Row
                <4>2. QED
                    BY <4>1, TotalType, ServiceAssumption DEF Costs
            <3>2. CASE Services!HotelRequest(b)
                BY <3>1, <3>2, CreateVouchers, EditVouchers, DecideVouchers
                DEF Services!HotelRequest, Services!UpdateHotel, Services!ConfirmHotel, Services!PayHotel,
                    Services!CompleteHotel, Services!CancelHotel
            <3>3. CASE Services!DeliveryRequest(b)
                BY <3>1, <3>3, CreateVouchers, EditVouchers, DecideVouchers
                DEF Services!DeliveryRequest, Services!UpdateDelivery, Services!ConfirmDelivery, Services!PayDelivery,
                    Services!CompleteDelivery, Services!CancelDelivery
            <3>4. CASE Services!BookingRequest(b)
                BY <3>1, <3>4, CreateVouchers, EditVouchers, DecideVouchers
                DEF Services!BookingRequest, Services!ConfirmBooking, Services!CancelBooking
            <3>5. QED
                BY <2>1, <3>2, <3>3, <3>4
        <2>2. ASSUME NEW b \in BillId, Services!Late(b) \/ Services!Quiet(b) \/ Services!RemoveRoom(b)
              PROVE  VoucherInv'
            BY <2>2, AroundVouchers
        <2>3. CASE Services!Step
            <3>1. CASE Services!RoomsRefused
                <4>1. service' = service /\ redeemed' = redeemed /\ served' = Services!Idle
                    BY <3>1 DEF Services!RoomsRefused
                <4>2. QED
                    BY <4>1, NotPaying, SameVouchers
            <3>2. QED
                BY <2>3, <3>1, RoomVouchers, CreatedVouchers, DeductVouchers, RedeemVouchers, SettleVouchers,
                   StatusVouchers, JobVouchers
                DEF Services!Step
        <2>4. CASE Services!Jobs
            BY <2>4, JobVouchers
        <2>5. CASE Services!Fail
            <3>1. service' = service /\ redeemed' = redeemed /\ served' = Services!Idle
                BY <2>5 DEF Services!Fail
            <3>2. QED
                BY <3>1, NotPaying, SameVouchers
        <2>6. QED
            BY <1>2, <2>1, <2>2, <2>3, <2>4, <2>5 DEF Services!Next
    <1>3. QED
        BY <1>1, <1>2

-----------------------------------------------------------------------------
\* A history of Bookings.tla takes the steps of the three services, or none.
LEMMA ServicesStep == [BookingsNext]_<<scope, ticketVars, servicesVars>> => [Services!Next]_servicesVars
    BY DEF BookingsNext

\* What a request of the hotels, deliveries and restaurants found of its bill
\* holds until it saves the status: its rows, its status, and that the job
\* cancels only what is still open.
THEOREM ServiceInvariant == BookingsSpec => []ServiceInv
    <1>1. BookingsInit => ServiceInv
        BY InitService DEF BookingsInit
    <1>2. ServiceInv /\ [BookingsNext]_<<scope, ticketVars, servicesVars>> => ServiceInv'
        BY ServicesStep, NextService
    <1>3. QED
        BY <1>1, <1>2, PTL DEF BookingsSpec

\* However often a payment breaks off and is repeated, the voucher has been
\* counted for every bill that is in use or completed: pay saves usedCount
\* before the status.
THEOREM VouchersAreCounted == BookingsSpec => []VoucherCounted
    <1>1. BookingsInit => VoucherInv
        BY InitVouchers DEF BookingsInit
    <1>2. ServiceInv /\ VoucherInv /\ [BookingsNext]_<<scope, ticketVars, servicesVars>> => VoucherInv'
        BY ServicesStep, NextVouchers
    <1>3. VoucherInv => VoucherCounted
        <2>1. Services!VoucherCounted <=> Services!Cardinality(Vouchered) <= redeemed
            BY DEF Services!VoucherCounted, Vouchered, Redeemed
        <2>2. QED
            BY <2>1, SameCardinality DEF VoucherInv, VoucherCounted
    <1>4. QED
        BY <1>1, <1>2, <1>3, ServiceInvariant, PTL DEF BookingsSpec

\* The three tables go through the life of BillLifecycle.tla, step by step:
\* whatever is created, edited, confirmed, paid, completed or cancelled, by
\* requests and jobs that break off anywhere.
THEOREM BillsKeepLifecycle ==
    BookingsSpec => Services!Lifecycle!Init /\ [][Services!Lifecycle!Next]_(Services!Lifecycle!lifecycleVars)
    <1>1. BookingsInit => Services!Lifecycle!Init
        BY InitService DEF BookingsInit
    <1>2. ServiceInv /\ [BookingsNext]_<<scope, ticketVars, servicesVars>>
          => [Services!Lifecycle!Next]_(Services!Lifecycle!lifecycleVars)
        BY ServicesStep, NextService DEF LifeStep
    <1>3. QED
        BY <1>1, <1>2, ServiceInvariant, PTL DEF BookingsSpec

=============================================================================
