------------------------------ MODULE Platform ------------------------------
(***************************************************************************)
(* Fleet.tla, Accounts.tla and Reminders.tla side by side.  They share no  *)
(* state that their properties are about, so every history belongs to one  *)
(* of them.                                                                *)
(***************************************************************************)
EXTENDS Fleet

CONSTANTS
    User, Admin, Email, AdminEmail, Phone, Password, AdminPassword,
    MaxAccountCalls,
    Event, Planner,             \* what is reminded of, and the users who planned it
    KindOf, OwnerOf, Week, MonthLength

VARIABLES
    scope,                      \* the module this history is of
    account, wallet, sessions, mailed, otp, served, up, accountCalls, proven, loose, swapped,
    start, completed, planners, job, sent, day, due, broke

Auth == INSTANCE Accounts WITH
    User <- User, Admin <- Admin, Email <- Email, AdminEmail <- AdminEmail, Phone <- Phone,
    Password <- Password, AdminPassword <- AdminPassword, Worker <- Worker, None <- Nobody,
    MaxCalls <- MaxAccountCalls,
    account <- account, wallet <- wallet, sessions <- sessions, mailed <- mailed, otp <- otp,
    request <- served, up <- up, calls <- accountCalls, proven <- proven, loose <- loose,
    crossed <- swapped

Daily == INSTANCE Reminders WITH
    Event <- Event, User <- Planner, KindOf <- KindOf, OwnerOf <- OwnerOf, Week <- Week,
    MonthLength <- MonthLength,
    start <- start, completed <- completed, users <- planners, job <- job, sent <- sent,
    day <- day, due <- due, broke <- broke

\* A request of Accounts.tla: what was asked, for whom, and the commits left.
Request == [op : {"bootstrap", "signup", "login", "change", "reset", "edit", "verify"},
            user : User \cup {Nobody},
            todo : Seq({"email", "flag", "wallet", "clear", "open", "password", "save",
                        "markEmail", "used", "markPhone"}),
            arg : Auth!AccountRow \cup Password \cup Email \cup Phone \cup {Nobody}]

\* Nothing that a row holds is the mark of what is missing, and the
\* configured account is one of those there can be.
ASSUME AccountsAssumption ==
    /\ Nobody \notin User \cup Email \cup Phone \cup Auth!AccountRow \cup Request
    /\ Admin \in User /\ AdminEmail \in Email /\ AdminPassword \in Password
    /\ MaxAccountCalls \in Nat

\* Every month is longer than a week.
ASSUME RemindersAssumption ==
    /\ KindOf \in [Event -> {"route", "rental", "hotel", "restaurant"}]
    /\ OwnerOf \in [Event -> Planner]
    /\ Week \in Nat /\ MonthLength \in Seq(Nat) /\ MonthLength # <<>>
    /\ \A m \in 1 .. Len(MonthLength) : MonthLength[m] > Week

accounts == <<account, wallet, sessions, mailed, otp, served, up, accountCalls, proven, loose,
              swapped>>
reminders == <<start, completed, planners, job, sent, day, due, broke>>

PlatformInit == scope \in {"fleet", "accounts", "reminders"} /\ Init /\ Auth!Init /\ Daily!Init

PlatformNext ==
    /\ UNCHANGED scope
    /\ \/ scope = "fleet" /\ Next /\ UNCHANGED <<accounts, reminders>>
       \/ scope = "accounts" /\ Auth!Next /\ UNCHANGED <<fleetVars, reminders>>
       \/ scope = "reminders" /\ Daily!Next /\ UNCHANGED <<fleetVars, accounts>>

PlatformSpec == PlatformInit /\ [][PlatformNext]_<<scope, fleetVars, accounts, reminders>>

-----------------------------------------------------------------------------
\* The types of the three modules.
PlatformTypeOK == TypeOK /\ Auth!TypeOK /\ Daily!TypeOK

\* Sessions follow the password: see Accounts.tla.
SessionsMatch == Auth!SessionsMatch

\* Verified addresses and numbers were proven: see Accounts.tla.
VerifiedWasProven == Auth!VerifiedWasProven

\* Whoever was to be reminded has been: see Reminders.tla.
Reminded == Daily!Reminded

=============================================================================
