------------------------------- MODULE Wallet -------------------------------
(***************************************************************************)
(* wallet.service.ts with every operation as one atomic step: what the     *)
(* service promises to its callers.  A call that throws changes nothing    *)
(* and is a stuttering step here.  The table wallet_transactions is seen   *)
(* through its sums: ledger[u][t] adds up the amounts of the rows of type  *)
(* t on the wallet of u.                                                   *)
(***************************************************************************)
EXTENDS WalletRules

CONSTANTS
    Amount,     \* amounts callers ask for, in cents; any integer
    MaxRows     \* bound on the wallet_transactions ids handed out

ASSUME AmountAssumption ==
    /\ Amount \subseteq Int
    /\ MaxRows \in Nat

VARIABLES
    holders,    \* users that own a row of user_wallets
    balance,    \* user_wallets.balance
    locked,     \* user_wallets.locked_balance
    ledger,     \* sums of wallet_transactions.amount by user and type
    rows        \* number of rows of wallet_transactions

vars == <<holders, balance, locked, ledger, rows>>

Type == {"DEPOSIT", "MOMO_DEPOSIT", "PAYMENT", "REFUND", "REWARD", "LOCK", "UNLOCK"}

TypeOK ==
    /\ holders \subseteq User
    /\ balance \in [User -> Column]
    /\ locked \in [User -> Column]
    /\ ledger \in [User -> [Type -> Int]]
    /\ rows \in 0..MaxRows

Init ==
    /\ holders = {}
    /\ balance = [u \in User |-> 0]
    /\ locked = [u \in User |-> 0]
    /\ ledger = [u \in User |-> [t \in Type |-> 0]]
    /\ rows = 0

-----------------------------------------------------------------------------

\* createWallet: a user that already has a wallet keeps it.
CreateWallet(u) ==
    /\ u \notin holders
    /\ holders' = holders \cup {u}
    /\ UNCHANGED <<balance, locked, ledger, rows>>

\* One row of type t and amount a added to the wallet of u.
Recorded(book, u, t, a) == [book EXCEPT ![u][t] = @ + a]

\* adjustBalance, shared by every operation on the available balance.
AdjustBalance(u, delta, type) ==
    /\ AdjustAllowed(holders, balance, u, delta)
    /\ rows + 1 <= MaxRows
    /\ balance' = Moved(balance, u, delta)
    /\ ledger' = Recorded(ledger, u, type, delta)
    /\ rows' = rows + 1
    /\ UNCHANGED <<holders, locked>>

Deposit(u, cents) == cents > 0 /\ AdjustBalance(u, cents, "DEPOSIT")

Pay(u, cents) == cents > 0 /\ AdjustBalance(u, -cents, "PAYMENT")

Refund(u, cents) == cents > 0 /\ AdjustBalance(u, cents, "REFUND")

Reward(u, cents) == cents > 0 /\ AdjustBalance(u, cents, "REWARD")

SimulateMomoDeposit(u, cents) == cents > 0 /\ AdjustBalance(u, cents, "MOMO_DEPOSIT")

\* Mutant: lockFunds raises the locked column and forgets the balance.
LockFunds_KeepsBalance(u, cents) ==
    /\ LockAllowed(holders, balance, locked, u, cents)
    /\ rows + 1 <= MaxRows
    /\ locked' = Moved(locked, u, cents)
    /\ ledger' = Recorded(ledger, u, "LOCK", -cents)
    /\ rows' = rows + 1
    /\ UNCHANGED <<holders, balance>>

LockFunds(u, cents) ==
    /\ LockAllowed(holders, balance, locked, u, cents)
    /\ rows + 1 <= MaxRows
    /\ balance' = Moved(balance, u, -cents)
    /\ locked' = Moved(locked, u, cents)
    /\ ledger' = Recorded(ledger, u, "LOCK", -cents)
    /\ rows' = rows + 1
    /\ UNCHANGED holders

\* A release into the renter's own wallet is a REFUND, into another one a
\* PAYMENT; the UNLOCK row always goes to the renter.
ReleaseType(renter, owner) == IF Target(renter, owner) = renter THEN "REFUND" ELSE "PAYMENT"

\* Mutant: no UNLOCK row, as if the REFUND or PAYMENT row told the story.
ReleaseFunds_NoUnlockRow(renter, cents, owner) ==
    /\ ReleaseAllowed(holders, balance, locked, renter, cents, owner)
    /\ rows + 1 <= MaxRows
    /\ locked' = Moved(locked, renter, -cents)
    /\ balance' = Moved(balance, Target(renter, owner), cents)
    /\ ledger' = Recorded(ledger, Target(renter, owner), ReleaseType(renter, owner), cents)
    /\ rows' = rows + 1
    /\ UNCHANGED holders

\* Mutant: the else of the refund branch is lost, the renter is always paid.
ReleaseFunds_PaysBoth(renter, cents, owner) ==
    /\ ReleaseAllowed(holders, balance, locked, renter, cents, owner)
    /\ balance[renter] + cents \in Column
    /\ rows + 2 <= MaxRows
    /\ locked' = Moved(locked, renter, -cents)
    /\ balance' = [u \in User |-> IF u \in {renter, Target(renter, owner)}
                                   THEN balance[u] + cents ELSE balance[u]]
    /\ ledger' = Recorded(Recorded(ledger, renter, "UNLOCK", cents),
                          Target(renter, owner), ReleaseType(renter, owner), cents)
    /\ rows' = rows + 2
    /\ UNCHANGED holders

ReleaseFunds(renter, cents, owner) ==
    /\ ReleaseAllowed(holders, balance, locked, renter, cents, owner)
    /\ rows + 2 <= MaxRows
    /\ locked' = Moved(locked, renter, -cents)
    /\ balance' = Moved(balance, Target(renter, owner), cents)
    /\ ledger' = Recorded(Recorded(ledger, renter, "UNLOCK", cents),
                          Target(renter, owner), ReleaseType(renter, owner), cents)
    /\ rows' = rows + 2
    /\ UNCHANGED holders

Next ==
    \E u \in User :
        \/ CreateWallet(u)
        \/ \E cents \in Amount :
              \/ Deposit(u, cents)
              \/ Pay(u, cents)
              \/ Refund(u, cents)
              \/ Reward(u, cents)
              \/ SimulateMomoDeposit(u, cents)
              \/ LockFunds(u, cents)
              \/ \E owner \in User \cup {Nobody} : ReleaseFunds(u, cents, owner)

Spec == Init /\ [][Next]_vars

-----------------------------------------------------------------------------

\* Every row moves the available balance but UNLOCK, which moves only the
\* locked one; LOCK moves both.
AvailableSum(book) ==
    book["DEPOSIT"] + book["MOMO_DEPOSIT"] + book["PAYMENT"]
        + book["REFUND"] + book["REWARD"] + book["LOCK"]

LockedSum(book) == -(book["LOCK"] + book["UNLOCK"])

\* The statement of a wallet explains its row: at every moment the available
\* balance is the sum of all rows but the UNLOCK ones, and the locked balance
\* is what LOCK rows took and UNLOCK rows have not given back.  An operation
\* that writes the row but a wrong or missing wallet_transactions entry, or
\* counts the UNLOCK row of a refund twice, breaks it.
LedgerReconciles ==
    \A u \in User :
        /\ balance[u] = AvailableSum(ledger[u])
        /\ locked[u] = LockedSum(ledger[u])

\* A step that lowers a locked balance pays the same amount to one wallet and
\* touches no other locked balance.
PaysOut ==
    \A u \in User : locked'[u] < locked[u] =>
        \E v \in User :
            /\ balance' = Moved(balance, v, locked[u] - locked'[u])
            /\ \A w \in User \ {u} : locked'[w] = locked[w]

\* A step that raises a locked balance takes the same amount from the same
\* user's available balance and touches nobody else.
TakesIn ==
    \A u \in User : locked'[u] > locked[u] =>
        /\ balance'[u] = balance[u] - (locked'[u] - locked[u])
        /\ \A w \in User \ {u} : balance'[w] = balance[w] /\ locked'[w] = locked[w]

\* Money leaves escrow only into exactly one available balance, and whole:
\* releaseFunds neither pays renter and owner both nor loses a part.
EscrowConserved == [][PaysOut]_vars

\* Money enters escrow only out of the same user's available balance: nobody
\* pays for somebody else's rental and lockFunds creates no money.
LockIsCovered == [][TakesIn]_vars

\* A user without a wallet owns nothing: no operation creates money for a
\* user whose createWallet has not happened (signup makes the two apart).
NoWalletNoMoney ==
    \A u \in User \ holders : balance[u] = 0 /\ locked[u] = 0

=============================================================================
