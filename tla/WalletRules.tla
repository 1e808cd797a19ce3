---------------------------- MODULE WalletRules ----------------------------
(***************************************************************************)
(* The arithmetic and the guards of wallet.service.ts, without state.  The *)
(* wallet table is seen as three functions of the user: who has a row, the *)
(* available balance and the locked balance, both in cents.  Wallet.tla    *)
(* turns the rules into atomic actions, WalletTx.tla into database         *)
(* transactions that take row locks, RentalState.tla calls them from the   *)
(* rental and payment services.                                            *)
(***************************************************************************)
EXTENDS Integers

CONSTANTS
    User,       \* users.id
    Nobody,     \* the absent toOwnerUserId of releaseFunds
    MaxCents    \* largest amount a decimal(18,2) column holds, in cents

ASSUME WalletAssumption ==
    /\ Nobody \notin User
    /\ MaxCents \in Nat

\* A value the balance columns accept.  The service rejects what is below
\* zero, the database rejects what overflows the column.
Column == 0..MaxCents

\* The wallet a release pays into.
Target(renter, owner) == IF owner \in User THEN owner ELSE renter

\* Mutant: adjustBalance without its "Insufficient wallet balance" check.
AdjustAllowed_Overdraft(holders, balance, u, delta) ==
    /\ u \in holders
    /\ balance[u] + delta <= MaxCents

\* adjustBalance commits: the wallet exists and the new balance is legal.
AdjustAllowed(holders, balance, u, delta) ==
    /\ u \in holders
    /\ balance[u] + delta \in Column

\* lockFunds commits.
LockAllowed(holders, balance, locked, u, cents) ==
    /\ cents > 0
    /\ u \in holders
    /\ balance[u] >= cents
    /\ locked[u] + cents \in Column

\* Mutant: releaseFunds does not look whether the owner has a wallet.
ReleaseAllowed_AnyOwner(holders, balance, locked, renter, cents, owner) ==
    /\ cents > 0
    /\ renter \in holders
    /\ locked[renter] >= cents
    /\ balance[Target(renter, owner)] + cents \in Column

\* releaseFunds commits.
ReleaseAllowed(holders, balance, locked, renter, cents, owner) ==
    /\ cents > 0
    /\ {renter, Target(renter, owner)} \subseteq holders
    /\ locked[renter] >= cents
    /\ balance[Target(renter, owner)] + cents \in Column

\* One column of one user's row moved by delta.
Moved(column, u, delta) == [column EXCEPT ![u] = @ + delta]

=============================================================================
