---------------------------- MODULE WalletProofs ----------------------------
(***************************************************************************)
(* What wallet.service.ts guarantees for every set of users, every set of  *)
(* amounts and every column width.  The inductive invariant is the type    *)
(* invariant with the two facts it needs to be useful: the statement of a  *)
(* wallet explains its row, and a user without a wallet owns nothing.      *)
(***************************************************************************)
EXTENDS Wallet, TLAPS

USE DEF Column

\* Moving one user's column by a legal amount keeps the column legal.
LEMMA MovedType ==
    ASSUME NEW column \in [User -> Column], NEW u \in User, NEW delta \in Int,
           column[u] + delta \in Column
    PROVE  /\ Moved(column, u, delta) \in [User -> Column]
           /\ Moved(column, u, delta)[u] = column[u] + delta
           /\ \A w \in User \ {u} : Moved(column, u, delta)[w] = column[w]
    BY DEF Moved

\* A recorded row changes one sum of one user.
LEMMA RecordedType ==
    ASSUME NEW book \in [User -> [Type -> Int]], NEW u \in User, NEW t \in Type,
           NEW a \in Int
    PROVE  /\ Recorded(book, u, t, a) \in [User -> [Type -> Int]]
           /\ Recorded(book, u, t, a)[u][t] = book[u][t] + a
           /\ \A w \in User \ {u} : Recorded(book, u, t, a)[w] = book[w]
           /\ \A s \in Type \ {t} : Recorded(book, u, t, a)[u][s] = book[u][s]
    BY DEF Recorded

\* The two row types that move the locked balance are row types.
LEMMA LockIsType == "LOCK" \in Type /\ "UNLOCK" \in Type
    BY DEF Type

\* What every operation on the available balance does to the sums: a row of
\* any type but LOCK and UNLOCK moves the available sum by its amount.
LEMMA AvailableRow ==
    ASSUME NEW book \in [User -> [Type -> Int]], NEW u \in User, NEW a \in Int,
           NEW t \in Type \ {"LOCK", "UNLOCK"}
    PROVE  /\ Recorded(book, u, t, a) \in [User -> [Type -> Int]]
           /\ \A w \in User \ {u} : Recorded(book, u, t, a)[w] = book[w]
           /\ AvailableSum(Recorded(book, u, t, a)[u]) = AvailableSum(book[u]) + a
           /\ LockedSum(Recorded(book, u, t, a)[u]) = LockedSum(book[u])
    <1>1. t \in {"DEPOSIT", "MOMO_DEPOSIT", "PAYMENT", "REFUND", "REWARD"}
        BY DEF Type
    <1>2. /\ Recorded(book, u, t, a)[u][t] = book[u][t] + a
          /\ \A s \in Type \ {t} : Recorded(book, u, t, a)[u][s] = book[u][s]
          /\ \A s \in Type : book[u][s] \in Int
        BY RecordedType
    <1>3. /\ AvailableSum(Recorded(book, u, t, a)[u]) = AvailableSum(book[u]) + a
          /\ LockedSum(Recorded(book, u, t, a)[u]) = LockedSum(book[u])
        BY <1>1, <1>2 DEF AvailableSum, LockedSum, Type
    <1>4. QED
        BY <1>3, RecordedType

\* A LOCK row of -a moves a from the available to the locked sum.
LEMMA LockRow ==
    ASSUME NEW book \in [User -> [Type -> Int]], NEW u \in User, NEW a \in Int
    PROVE  /\ Recorded(book, u, "LOCK", -a) \in [User -> [Type -> Int]]
           /\ \A w \in User \ {u} : Recorded(book, u, "LOCK", -a)[w] = book[w]
           /\ AvailableSum(Recorded(book, u, "LOCK", -a)[u]) = AvailableSum(book[u]) - a
           /\ LockedSum(Recorded(book, u, "LOCK", -a)[u]) = LockedSum(book[u]) + a
    <1>1. /\ Recorded(book, u, "LOCK", -a)[u]["LOCK"] = book[u]["LOCK"] - a
          /\ \A s \in Type \ {"LOCK"} : Recorded(book, u, "LOCK", -a)[u][s] = book[u][s]
          /\ \A s \in Type : book[u][s] \in Int
        BY LockIsType, RecordedType, -a \in Int
    <1>2. /\ Recorded(book, u, "LOCK", -a) \in [User -> [Type -> Int]]
          /\ \A w \in User \ {u} : Recorded(book, u, "LOCK", -a)[w] = book[w]
        BY LockIsType, -a \in Int DEF Recorded
    <1>3. QED
        BY <1>1, <1>2 DEF AvailableSum, LockedSum, Type

\* An UNLOCK row of a takes a from the locked sum and nothing else.
LEMMA UnlockRow ==
    ASSUME NEW book \in [User -> [Type -> Int]], NEW u \in User, NEW a \in Int
    PROVE  /\ Recorded(book, u, "UNLOCK", a) \in [User -> [Type -> Int]]
           /\ \A w \in User \ {u} : Recorded(book, u, "UNLOCK", a)[w] = book[w]
           /\ AvailableSum(Recorded(book, u, "UNLOCK", a)[u]) = AvailableSum(book[u])
           /\ LockedSum(Recorded(book, u, "UNLOCK", a)[u]) = LockedSum(book[u]) - a
    <1>1. /\ Recorded(book, u, "UNLOCK", a)[u]["UNLOCK"] = book[u]["UNLOCK"] + a
          /\ \A s \in Type \ {"UNLOCK"} : Recorded(book, u, "UNLOCK", a)[u][s] = book[u][s]
          /\ \A s \in Type : book[u][s] \in Int
        BY LockIsType, RecordedType
    <1>2. /\ Recorded(book, u, "UNLOCK", a) \in [User -> [Type -> Int]]
          /\ \A w \in User \ {u} : Recorded(book, u, "UNLOCK", a)[w] = book[w]
        BY LockIsType, RecordedType
    <1>3. QED
        BY <1>1, <1>2 DEF AvailableSum, LockedSum, Type

-----------------------------------------------------------------------------

\* What every step of the service needs and keeps.  LedgerReconciles is not
\* needed for the types; it is here because the theorems are about it.
IInv == TypeOK /\ LedgerReconciles /\ NoWalletNoMoney

\* An empty user_wallets table satisfies the invariant.
LEMMA InitIInv == Init => IInv
    <1> SUFFICES ASSUME Init PROVE IInv
        OBVIOUS
    <1>1. TypeOK
        BY WalletAssumption, AmountAssumption DEF Init, TypeOK
    <1>2. \A u \in User : AvailableSum(ledger[u]) = 0 /\ LockedSum(ledger[u]) = 0
        <2> SUFFICES ASSUME NEW u \in User
                     PROVE  AvailableSum(ledger[u]) = 0 /\ LockedSum(ledger[u]) = 0
            OBVIOUS
        <2>1. \A t \in Type : ledger[u][t] = 0
            BY DEF Init
        <2>2. QED
            BY <2>1 DEF AvailableSum, LockedSum, Type
    <1>3. LedgerReconciles
        BY <1>2 DEF Init, LedgerReconciles
    <1>4. NoWalletNoMoney
        BY DEF Init, NoWalletNoMoney
    <1>5. QED
        BY <1>1, <1>3, <1>4 DEF IInv

\* deposit, pay, refund, reward and simulateMomoDeposit keep the invariant:
\* they all end in adjustBalance, with a row that is neither LOCK nor UNLOCK.
LEMMA AdjustIInv ==
    ASSUME IInv, NEW u \in User, NEW delta \in Int, NEW t \in Type \ {"LOCK", "UNLOCK"},
           AdjustBalance(u, delta, t)
    PROVE  IInv'
    <1> USE DEF IInv, TypeOK
    <1>1. /\ u \in holders
          /\ balance[u] + delta \in Column
          /\ balance' = Moved(balance, u, delta)
          /\ ledger' = Recorded(ledger, u, t, delta)
          /\ rows' = rows + 1 /\ rows + 1 <= MaxRows
          /\ holders' = holders /\ locked' = locked
        BY DEF AdjustBalance, AdjustAllowed
    <1>2. /\ balance' \in [User -> Column]
          /\ balance'[u] = balance[u] + delta
          /\ \A w \in User \ {u} : balance'[w] = balance[w]
        BY <1>1, MovedType
    <1>3. /\ ledger' \in [User -> [Type -> Int]]
          /\ \A w \in User \ {u} : ledger'[w] = ledger[w]
          /\ AvailableSum(ledger'[u]) = AvailableSum(ledger[u]) + delta
          /\ LockedSum(ledger'[u]) = LockedSum(ledger[u])
        BY <1>1, AvailableRow
    <1>4. TypeOK'
        BY <1>1, <1>2, <1>3, AmountAssumption
    <1>5. LedgerReconciles'
        BY <1>1, <1>2, <1>3 DEF LedgerReconciles
    <1>6. NoWalletNoMoney'
        BY <1>1, <1>2 DEF NoWalletNoMoney
    <1>7. QED
        BY <1>4, <1>5, <1>6

\* lockFunds keeps the invariant: one LOCK row explains both columns.
LEMMA LockIInv ==
    ASSUME IInv, NEW u \in User, NEW cents \in Int, LockFunds(u, cents)
    PROVE  IInv'
    <1> USE DEF IInv, TypeOK
    <1>1. /\ u \in holders /\ cents > 0
          /\ locked[u] + cents \in Column
          /\ balance' = Moved(balance, u, -cents)
          /\ locked' = Moved(locked, u, cents)
          /\ ledger' = Recorded(ledger, u, "LOCK", -cents)
          /\ rows' = rows + 1 /\ rows + 1 <= MaxRows
          /\ holders' = holders
        BY DEF LockFunds, LockAllowed
    <1>2. -cents \in Int /\ balance[u] + (-cents) \in Column
        BY WalletAssumption DEF LockFunds, LockAllowed
    <1>3. /\ balance' \in [User -> Column]
          /\ balance'[u] = balance[u] - cents
          /\ \A w \in User \ {u} : balance'[w] = balance[w]
        BY <1>1, <1>2, MovedType
    <1>4. /\ locked' \in [User -> Column]
          /\ locked'[u] = locked[u] + cents
          /\ \A w \in User \ {u} : locked'[w] = locked[w]
        BY <1>1, MovedType
    <1>5. /\ ledger' \in [User -> [Type -> Int]]
          /\ \A w \in User \ {u} : ledger'[w] = ledger[w]
        BY <1>1, LockRow
    <1>6. /\ AvailableSum(ledger'[u]) = AvailableSum(ledger[u]) - cents
          /\ LockedSum(ledger'[u]) = LockedSum(ledger[u]) + cents
        BY <1>1, LockRow
    <1>7. TypeOK'
        BY <1>1, <1>3, <1>4, <1>5, AmountAssumption
    <1>8. LedgerReconciles'
        BY <1>3, <1>4, <1>5, <1>6 DEF LedgerReconciles
    <1>9. NoWalletNoMoney'
        BY <1>1, <1>3, <1>4 DEF NoWalletNoMoney
    <1>10. QED
        BY <1>7, <1>8, <1>9

\* releaseFunds keeps the invariant whether the owner is the renter, another
\* user or absent: its UNLOCK row explains the locked column, its REFUND or
\* PAYMENT row the balance.
LEMMA ReleaseIInv ==
    ASSUME IInv, NEW r \in User, NEW cents \in Int, NEW o \in User \cup {Nobody},
           ReleaseFunds(r, cents, o)
    PROVE  IInv'
    <1> DEFINE v == Target(r, o)
               unlocked == Recorded(ledger, r, "UNLOCK", cents)
    <1> USE DEF IInv, TypeOK
    <1>1. /\ v \in User
          /\ -cents \in Int
          /\ locked[r] + (-cents) \in Column
          /\ balance[v] + cents \in Column
          /\ {r, v} \subseteq holders
        <2>1. v \in User
            BY DEF Target
        <2>2. QED
            BY <2>1, WalletAssumption DEF ReleaseFunds, ReleaseAllowed
    <1>2. /\ locked' = Moved(locked, r, -cents)
          /\ balance' = Moved(balance, v, cents)
          /\ ledger' = Recorded(unlocked, v, ReleaseType(r, o), cents)
          /\ rows' = rows + 2 /\ rows + 2 <= MaxRows
          /\ holders' = holders
        BY DEF ReleaseFunds
    <1>3. ReleaseType(r, o) \in Type \ {"LOCK", "UNLOCK"}
        BY DEF ReleaseType, Type
    <1>4. /\ unlocked \in [User -> [Type -> Int]]
          /\ \A w \in User \ {r} : unlocked[w] = ledger[w]
          /\ AvailableSum(unlocked[r]) = AvailableSum(ledger[r])
          /\ LockedSum(unlocked[r]) = LockedSum(ledger[r]) - cents
        BY UnlockRow
    <1>5. /\ ledger' \in [User -> [Type -> Int]]
          /\ \A w \in User \ {v} : ledger'[w] = unlocked[w]
          /\ AvailableSum(ledger'[v]) = AvailableSum(unlocked[v]) + cents
          /\ LockedSum(ledger'[v]) = LockedSum(unlocked[v])
        <2> HIDE DEF unlocked
        <2>1. v \in User /\ unlocked \in [User -> [Type -> Int]]
            BY <1>1, <1>4
        <2>2. QED
            BY <1>2, <1>3, <2>1, AvailableRow
    <1>6. /\ balance' \in [User -> Column]
          /\ balance'[v] = balance[v] + cents
          /\ \A w \in User \ {v} : balance'[w] = balance[w]
        BY <1>1, <1>2, MovedType
    <1>7. /\ locked' \in [User -> Column]
          /\ locked'[r] = locked[r] - cents
          /\ \A w \in User \ {r} : locked'[w] = locked[w]
        BY <1>1, <1>2, MovedType
    <1>8. TypeOK'
        BY <1>2, <1>5, <1>6, <1>7, AmountAssumption
    <1>9. LedgerReconciles'
        <2> SUFFICES ASSUME NEW w \in User
                     PROVE  /\ balance'[w] = AvailableSum(ledger'[w])
                            /\ locked'[w] = LockedSum(ledger'[w])
            BY DEF LedgerReconciles
        <2>1. balance[w] = AvailableSum(ledger[w]) /\ locked[w] = LockedSum(ledger[w])
            BY DEF LedgerReconciles
        <2>2. balance'[w] = AvailableSum(ledger'[w])
            <3>1. AvailableSum(unlocked[w]) = AvailableSum(ledger[w])
                BY <1>4
            <3>2. QED
                BY <1>5, <1>6, <2>1, <3>1
        <2>3. locked'[w] = LockedSum(ledger'[w])
            <3>1. LockedSum(ledger'[w]) = LockedSum(unlocked[w])
                BY <1>5
            <3>2. QED
                BY <1>4, <1>7, <2>1, <3>1
        <2>4. QED
            BY <2>2, <2>3
    <1>10. NoWalletNoMoney'
        BY <1>1, <1>2, <1>6, <1>7 DEF NoWalletNoMoney
    <1>11. QED
        BY <1>8, <1>9, <1>10

\* createWallet keeps the invariant.
LEMMA CreateIInv ==
    ASSUME IInv, NEW u \in User, CreateWallet(u)
    PROVE  IInv'
    BY DEF CreateWallet, IInv, TypeOK, LedgerReconciles, NoWalletNoMoney

\* Every operation of wallet.service.ts keeps the invariant.
LEMMA NextIInv == IInv /\ [Next]_vars => IInv'
    <1> SUFFICES ASSUME IInv, [Next]_vars PROVE IInv'
        OBVIOUS
    <1>1. ASSUME NEW u \in User, CreateWallet(u) PROVE IInv'
        BY <1>1, CreateIInv
    <1>2. ASSUME NEW u \in User, NEW cents \in Amount,
                 \/ Deposit(u, cents)
                 \/ Pay(u, cents)
                 \/ Refund(u, cents)
                 \/ Reward(u, cents)
                 \/ SimulateMomoDeposit(u, cents)
          PROVE IInv'
        <2>1. cents \in Int /\ -cents \in Int
            BY AmountAssumption
        <2>2. {"DEPOSIT", "PAYMENT", "REFUND", "REWARD", "MOMO_DEPOSIT"}
                 \subseteq Type \ {"LOCK", "UNLOCK"}
            BY DEF Type
        <2>3. QED
            BY <1>2, <2>1, <2>2, AdjustIInv
               DEF Deposit, Pay, Refund, Reward, SimulateMomoDeposit
    <1>3. ASSUME NEW u \in User, NEW cents \in Amount, LockFunds(u, cents) PROVE IInv'
        BY <1>3, AmountAssumption, LockIInv
    <1>4. ASSUME NEW u \in User, NEW cents \in Amount, NEW owner \in User \cup {Nobody},
                 ReleaseFunds(u, cents, owner)
          PROVE IInv'
        BY <1>4, AmountAssumption, ReleaseIInv
    <1>5. CASE UNCHANGED vars
        BY <1>5 DEF vars, IInv, TypeOK, LedgerReconciles, NoWalletNoMoney
    <1>6. QED
        BY <1>1, <1>2, <1>3, <1>4, <1>5 DEF Next

\* The invariant holds in every reachable state of the service.
THEOREM WalletInvariant == Spec => []IInv
    BY InitIInv, NextIInv, PTL DEF Spec

-----------------------------------------------------------------------------

\* No balance and no escrow of wallet.service.ts ever goes below zero or
\* beyond its column, whatever callers ask for.
THEOREM TypeCorrect == Spec => []TypeOK
    BY WalletInvariant, PTL DEF IInv

\* The wallet_transactions rows always explain both columns of user_wallets.
THEOREM LedgerAlwaysReconciles == Spec => []LedgerReconciles
    BY WalletInvariant, PTL DEF IInv

\* No operation of wallet.service.ts makes money for a user without a wallet.
THEOREM MoneyNeedsWallet == Spec => []NoWalletNoMoney
    BY WalletInvariant, PTL DEF IInv

-----------------------------------------------------------------------------

\* One step of the service, by what it does to the locked column.
LEMMA StepShape ==
    ASSUME IInv, Next
    PROVE  \/ locked' = locked
           \/ \E u \in User, cents \in Int :
                 LockFunds(u, cents)
           \/ \E u \in User, cents \in Int, owner \in User \cup {Nobody} :
                 ReleaseFunds(u, cents, owner)
    BY AmountAssumption
       DEF Next, CreateWallet, Deposit, Pay, Refund, Reward, SimulateMomoDeposit, AdjustBalance

\* What a lock and a release do to the two columns, in arithmetic.
LEMMA LockStep ==
    ASSUME IInv, NEW u \in User, NEW cents \in Int, LockFunds(u, cents)
    PROVE  /\ cents > 0 /\ locked[u] \in Int /\ balance[u] \in Int
           /\ locked'[u] = locked[u] + cents /\ balance'[u] = balance[u] - cents
           /\ \A w \in User \ {u} : locked'[w] = locked[w] /\ balance'[w] = balance[w]
    BY DEF LockFunds, LockAllowed, Moved, IInv, TypeOK

\* The same for releaseFunds.
LEMMA ReleaseStep ==
    ASSUME IInv, NEW u \in User, NEW cents \in Int, NEW owner \in User \cup {Nobody},
           ReleaseFunds(u, cents, owner)
    PROVE  /\ cents > 0 /\ locked[u] \in Int
           /\ locked'[u] = locked[u] - cents
           /\ \A w \in User \ {u} : locked'[w] = locked[w]
           /\ Target(u, owner) \in User
           /\ balance' = Moved(balance, Target(u, owner), cents)
    BY DEF ReleaseFunds, ReleaseAllowed, Moved, Target, IInv, TypeOK

\* No operation takes from escrow without paying one wallet the same amount.
LEMMA StepPaysOut == IInv /\ [Next]_vars => [PaysOut]_vars
    <1> SUFFICES ASSUME IInv, Next, NEW u \in User, locked'[u] < locked[u]
                 PROVE  \E v \in User :
                           /\ balance' = Moved(balance, v, locked[u] - locked'[u])
                           /\ \A w \in User \ {u} : locked'[w] = locked[w]
        BY DEF PaysOut
    <1>1. locked[u] \in Int
        BY DEF IInv, TypeOK
    <1>2. locked' # locked
        BY <1>1
    <1>3. ASSUME NEW r \in User, NEW cents \in Int, LockFunds(r, cents)
          PROVE  FALSE
        BY <1>1, <1>3, LockStep
    <1>4. PICK r \in User, cents \in Int, owner \in User \cup {Nobody} :
              ReleaseFunds(r, cents, owner)
        BY <1>2, <1>3, StepShape
    <1>5. /\ cents > 0
          /\ locked'[r] = locked[r] - cents
          /\ \A w \in User \ {r} : locked'[w] = locked[w]
          /\ Target(r, owner) \in User
          /\ balance' = Moved(balance, Target(r, owner), cents)
        BY <1>4, ReleaseStep
    <1>6. r = u
        BY <1>1, <1>5
    <1>7. locked[u] - locked'[u] = cents
        BY <1>1, <1>5, <1>6
    <1>8. QED
        BY <1>5, <1>6, <1>7

\* No operation puts into escrow what it did not take from the same wallet.
LEMMA StepTakesIn == IInv /\ [Next]_vars => [TakesIn]_vars
    <1> SUFFICES ASSUME IInv, Next, NEW u \in User, locked'[u] > locked[u]
                 PROVE  /\ balance'[u] = balance[u] - (locked'[u] - locked[u])
                        /\ \A w \in User \ {u} :
                              balance'[w] = balance[w] /\ locked'[w] = locked[w]
        BY DEF TakesIn
    <1>1. locked[u] \in Int
        BY DEF IInv, TypeOK
    <1>2. locked' # locked
        BY <1>1
    <1>3. ASSUME NEW r \in User, NEW cents \in Int, NEW owner \in User \cup {Nobody},
                 ReleaseFunds(r, cents, owner)
          PROVE  FALSE
        BY <1>1, <1>3, ReleaseStep
    <1>4. PICK r \in User, cents \in Int : LockFunds(r, cents)
        BY <1>2, <1>3, StepShape
    <1>5. /\ cents > 0 /\ balance[r] \in Int
          /\ locked'[r] = locked[r] + cents /\ balance'[r] = balance[r] - cents
          /\ \A w \in User \ {r} : locked'[w] = locked[w] /\ balance'[w] = balance[w]
        BY <1>4, LockStep
    <1>6. r = u
        BY <1>1, <1>5
    <1>7. QED
        BY <1>1, <1>5, <1>6

\* Escrow pays out whole and once, whatever rental and owner are named.
THEOREM EscrowIsConserved == Spec => EscrowConserved
    BY WalletInvariant, StepPaysOut, PTL DEF Spec, EscrowConserved

\* What enters escrow was the same renter's own money.
THEOREM LockIsAlwaysCovered == Spec => LockIsCovered
    BY WalletInvariant, StepTakesIn, PTL DEF Spec, LockIsCovered

=============================================================================
