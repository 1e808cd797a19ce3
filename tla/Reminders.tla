----------------------------- MODULE Reminders -----------------------------
(***************************************************************************)
(* reminder.cron.ts and travel-route.cron.ts: at 8 every morning the       *)
(* owners of what starts tomorrow are reminded, at 9 the owners of routes  *)
(* completed a week, a month or a year ago.  createNotification of         *)
(* notification.service.ts throws for an owner who is gone, and the rest   *)
(* of the job is lost.                                                     *)
(*                                                                         *)
(* A moment is half a day: 2 * d is the midnight on which day d begins.    *)
(* The calendar is shorter than the real one, MonthLength its months; the  *)
(* year's anniversary, the push, the mail and the read flag are left out.  *)
(***************************************************************************)
EXTENDS Naturals, Sequences, FiniteSets, FiniteSetsExt

CONSTANTS
    Event, User,
    KindOf, OwnerOf,        \* one of Kinds and a user for each event
    Week,                   \* the days of a week
    MonthLength             \* the days of each month, at least one; the
                            \* calendar ends with the last

Kinds == <<"route", "rental", "hotel", "restaurant">>

\* The first day of the month m.
MonthStart(m) == MapThenSumSet(LAMBDA k : MonthLength[k], 1 .. m - 1)

LastDay == MonthStart(Len(MonthLength)) + MonthLength[Len(MonthLength)] - 1
Moment == 0 .. 2 * LastDay + 1
Never == 2 * LastDay + 2

VARIABLES
    start,      \* the moment each event starts, Never without a row
    completed,  \* routes that are completed
    users,      \* those with an account
    job,        \* the check that runs: what it looks for, rows it has read
    sent,       \* notifications: event, what, day
    day,
    \* History.
    due,        \* what the last check of each name had to send when it began
    broke       \* a check broke off

None == "none"
NoJob == [name |-> None, kinds |-> <<>>, rows |-> {}]

remindersVars == <<start, completed, users, job, sent, day, due, broke>>

TypeOK ==
    /\ start \in [Event -> Moment \cup {Never}]
    /\ completed \subseteq Event /\ users \subseteq User
    /\ job.name \in {None, "upcoming", "anniversary"} /\ job.rows \subseteq Event
    /\ sent \subseteq Event \X {"tomorrow", "week", "month"} \X (0 .. LastDay)
    /\ day \in 0 .. LastDay
    /\ due \subseteq Event \X {"tomorrow", "week", "month"}
    /\ broke \in BOOLEAN

Init ==
    /\ start = [e \in Event |-> Never]
    /\ completed = {} /\ users = User
    /\ job = NoJob /\ sent = {} /\ day = 0
    /\ due = {} /\ broke = FALSE

-----------------------------------------------------------------------------
\* Dates.

MonthOf(d) == CHOOSE m \in 1 .. Len(MonthLength) :
                  MonthStart(m) <= d /\ d < MonthStart(m) + MonthLength[m]
DayOfMonth(d) == d - MonthStart(MonthOf(d))

Lesser(a, b) == IF a <= b THEN a ELSE b

\* subMonths(d, 1): the last day of the month before, if that is shorter.
MonthAgo(d) ==
    LET m == MonthOf(d) - 1
    IN  MonthStart(m) + Lesser(DayOfMonth(d), MonthLength[m] - 1)

\* Mutant: midnight does not belong to the day.
WithinDay_AfterMidnight(moment, d) == 2 * d < moment /\ moment <= 2 * d + 1

\* isWithinDay, from startOfDay to endOfDay.
WithinDay(moment, d) == 2 * d <= moment /\ moment <= 2 * d + 1

\* What a check looks for among the rows of one kind.
Upcoming(kind) ==
    {e \in Event : KindOf[e] = kind /\ start[e] # Never /\ WithinDay(start[e], day + 1)}

\* The anniversary of a completed route today; the week's goes first.
Anniversary(e) ==
    LET end == start[e] \div 2 IN
       IF end + Week = day THEN "week"
       ELSE IF MonthOf(day) > 1 /\ end = MonthAgo(day) THEN "month" ELSE None

-----------------------------------------------------------------------------
\* Owners and their events.

Plan(e) ==
    /\ start[e] = Never /\ OwnerOf[e] \in users
    /\ \E m \in Moment : m > 2 * day /\ start' = [start EXCEPT ![e] = m]
    /\ UNCHANGED <<completed, users, job, sent, day, due, broke>>

\* A new date; what was due before the change is no longer.
Reschedule(e) ==
    /\ start[e] # Never /\ e \notin completed
    /\ \E m \in Moment : m > 2 * day /\ start' = [start EXCEPT ![e] = m]
    /\ due' = {n \in due : n[1] # e}
    /\ UNCHANGED <<completed, users, job, sent, day, broke>>

\* Routes take a day here.
Complete(e) ==
    /\ KindOf[e] = "route" /\ start[e] # Never /\ start[e] \div 2 <= day
    /\ completed' = completed \cup {e}
    /\ UNCHANGED <<start, users, job, sent, day, due, broke>>

\* The rows of a user go with the account.
RemoveUser(u) ==
    /\ u \in users
    /\ users' = users \ {u}
    /\ start' = [e \in Event |-> IF OwnerOf[e] = u THEN Never ELSE start[e]]
    /\ completed' = {e \in completed : OwnerOf[e] # u}
    /\ sent' = {n \in sent : OwnerOf[n[1]] # u}
    /\ due' = {n \in due : OwnerOf[n[1]] # u}
    /\ UNCHANGED <<job, day, broke>>

-----------------------------------------------------------------------------
\* The checks.

\* The day after which a month has passed, for ends of months too short for
\* it there is none.
AMonthAfter(end) ==
    {d \in 0 .. LastDay : MonthOf(d) = MonthOf(end) + 1 /\ DayOfMonth(d) = DayOfMonth(end)}

DueNow(name) ==
    IF name = "upcoming"
    THEN {<<e, "tomorrow">> : e \in {x \in Event : start[x] # Never /\ start[x] \div 2 = day + 1}}
    ELSE {<<e, "week">> : e \in {x \in completed : start[x] \div 2 = day - Week}}
         \cup {<<e, "month">> : e \in {x \in completed : day \in AMonthAfter(start[x] \div 2)}}

\* The cron job, or a request that asks for the same check.
Begin(name, kinds) ==
    /\ job = NoJob
    /\ job' = [name |-> name, kinds |-> kinds, rows |-> {}]
    /\ due' = DueNow(name)
    /\ broke' = FALSE
    /\ UNCHANGED <<start, completed, users, sent, day>>

TriggerReminderCheck == day < LastDay /\ Begin("upcoming", Kinds)
TriggerAnniversaryCheck == Begin("anniversary", <<"completed">>)

\* The rows of the next kind, read once the ones before are done with.
Query ==
    /\ job.kinds # <<>> /\ job.rows = {}
    /\ job' = [job EXCEPT !.kinds = Tail(@),
                          !.rows = IF job.name = "upcoming" THEN Upcoming(Head(job.kinds))
                                   ELSE {e \in completed : Anniversary(e) # None}]
    /\ UNCHANGED <<start, completed, users, sent, day, due, broke>>

\* createNotification for one of them.  A row read before its owner was
\* removed makes it throw.
Notify(e) ==
    /\ e \in job.rows
    /\ IF OwnerOf[e] \in users
       THEN /\ sent' = sent \cup {<<e, IF job.name = "upcoming" THEN "tomorrow" ELSE Anniversary(e), day>>}
            /\ job' = [job EXCEPT !.rows = @ \ {e}]
            /\ UNCHANGED broke
       ELSE job' = NoJob /\ broke' = TRUE /\ UNCHANGED sent
    /\ UNCHANGED <<start, completed, users, day, due>>

Done ==
    /\ job # NoJob /\ job.kinds = <<>> /\ job.rows = {}
    /\ job' = NoJob
    /\ UNCHANGED <<start, completed, users, sent, day, due, broke>>

\* A failing query or save, or a restart.
BreaksOff ==
    /\ job # NoJob
    /\ job' = NoJob /\ broke' = TRUE
    /\ UNCHANGED <<start, completed, users, sent, day, due>>

\* A check that runs is over before midnight.
NextDay ==
    /\ job = NoJob /\ day < LastDay
    /\ day' = day + 1
    /\ due' = {} /\ broke' = FALSE
    /\ UNCHANGED <<start, completed, users, job, sent>>

Next ==
    \/ \E e \in Event : Plan(e) \/ Reschedule(e) \/ Complete(e) \/ Notify(e)
    \/ \E u \in User : RemoveUser(u)
    \/ TriggerReminderCheck \/ TriggerAnniversaryCheck
    \/ Query \/ Done \/ BreaksOff \/ NextDay

Spec == Init /\ [][Next]_remindersVars

-----------------------------------------------------------------------------
\* Properties.

\* A check that did not break off has sent, by its end, what was due when it
\* began: everything that starts at any moment of tomorrow, every route
\* completed a week ago or a month ago to the day - of whatever kind, and
\* whatever was planned, moved or removed while it ran.
Reminded ==
    job = NoJob /\ ~broke => \A n \in due : <<n[1], n[2], day>> \in sent

=============================================================================
