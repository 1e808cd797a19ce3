--------------------------- MODULE WalletTxProofs ---------------------------
(***************************************************************************)
(* The row locks of wallet.service.ts make its transactions atomic, for    *)
(* every set of users, requests and amounts.  The inductive invariant says *)
(* of a request that has read a row that it holds the lock of that row and *)
(* that what it read is still there; a commit is then one step of Wallet.  *)
(***************************************************************************)
EXTENDS WalletTx, TLAPS

USE DEF Column

\* What a transaction that is at work knows about its own request.
JobIsReal(r) ==
    tx[r].phase \in {"first", "second", "commit"} =>
        tx[r].job \in Job /\ tx[r].job.cents > 0

\* It holds the lock of every row it has read.
HoldsItsRows(r) ==
    /\ tx[r].phase \in {"second", "commit"} =>
          tx[r].job.u \in holders /\ rowLock[tx[r].job.u] = r
    /\ tx[r].phase = "commit" =>
          Payee(tx[r].job) \in holders /\ rowLock[Payee(tx[r].job)] = r

\* Only a release of enough locked money goes on to a second row.
NeedsSecond(r) ==
    tx[r].phase = "second" =>
        tx[r].job.op = "release" /\ tx[r].locked >= tx[r].job.cents

\* What it has read is still in the table.
Current(r) ==
    /\ tx[r].phase \in {"second", "commit"} =>
          tx[r].balance = balance[tx[r].job.u] /\ tx[r].locked = locked[tx[r].job.u]
    /\ tx[r].phase = "commit" => tx[r].payee = balance[Payee(tx[r].job)]

\* The checks of the service passed on what was read.
Checked(r) ==
    tx[r].phase = "commit" =>
        /\ tx[r].job.op = "adjust" => tx[r].balance + Delta(tx[r].job) \in Column
        /\ tx[r].job.op = "lock" =>
              /\ tx[r].balance >= tx[r].job.cents
              /\ tx[r].locked + tx[r].job.cents \in Column
        /\ tx[r].job.op = "release" =>
              /\ tx[r].locked >= tx[r].job.cents
              /\ tx[r].payee + tx[r].job.cents \in Column

RequestInv(r) ==
    JobIsReal(r) /\ HoldsItsRows(r) /\ NeedsSecond(r) /\ Current(r) /\ Checked(r)

TxInv == TypeOK /\ \A r \in Request : RequestInv(r)

-----------------------------------------------------------------------------

\* What the operations of the service have in common, and how they differ.
LEMMA JobFacts ==
    ASSUME NEW job \in Job
    PROVE  /\ job.u \in User /\ job.cents \in Amount /\ job.cents \in Int
           /\ job.op \in {"adjust", "lock", "release"}
           /\ job.owner \in User \cup {Nobody}
           /\ Delta(job) \in Int
           /\ Payee(job) \in User
           /\ job.op # "release" => Payee(job) = job.u
           /\ job.op = "release" => Payee(job) = Target(job.u, job.owner)
           /\ job.op = "adjust" =>
                 job.type \in {"DEPOSIT", "MOMO_DEPOSIT", "REFUND", "REWARD", "PAYMENT"}
    <1>1. job.u \in User /\ job.cents \in Amount /\ job.owner \in User \cup {Nobody}
        BY DEF Job
    <1>2. /\ job.op \in {"adjust", "lock", "release"}
          /\ job.op = "adjust" =>
                job.type \in {"DEPOSIT", "MOMO_DEPOSIT", "REFUND", "REWARD", "PAYMENT"}
        BY DEF Job
    <1>3. job.cents \in Int /\ Delta(job) \in Int
        <2>1. job.cents \in Int
            BY <1>1, WalletTxAssumption
        <2>2. \A c \in Int : -c \in Int
            OBVIOUS
        <2>3. -job.cents \in Int
            BY <2>1, <2>2, Zenon
        <2>4. QED
            BY <2>1, <2>3, Zenon DEF Delta
    <1>4. /\ Payee(job) \in User
          /\ job.op # "release" => Payee(job) = job.u
          /\ job.op = "release" => Payee(job) = Target(job.u, job.owner)
        BY <1>1 DEF Payee, Target
    <1>5. QED
        BY <1>1, <1>2, <1>3, <1>4

\* A request is not disturbed by a step that leaves its memory, its locks and
\* the rows under its locks alone.
LEMMA Undisturbed ==
    ASSUME NEW s \in Request, RequestInv(s), tx'[s] = tx[s], holders \subseteq holders',
           \A u \in User : rowLock[u] = s =>
              rowLock'[u] = s /\ balance'[u] = balance[u] /\ locked'[u] = locked[u]
    PROVE  RequestInv(s)'
    <1>1. JobIsReal(s)' /\ NeedsSecond(s)' /\ Checked(s)'
        BY DEF RequestInv, JobIsReal, NeedsSecond, Checked
    <1>2. tx[s].phase \in {"second", "commit"} =>
              tx[s].job.u \in User /\ Payee(tx[s].job) \in User
        BY JobFacts DEF RequestInv, JobIsReal
    <1>3. HoldsItsRows(s)'
        BY <1>2 DEF RequestInv, HoldsItsRows
    <1>4. Current(s)'
        BY <1>2 DEF RequestInv, HoldsItsRows, Current
    <1>5. QED
        BY <1>1, <1>3, <1>4 DEF RequestInv

\* A transaction that ends, however it ends, gives back its locks and nothing
\* else.
LEMMA EndTxInv ==
    ASSUME TxInv, NEW r \in Request, NEW phase \in {"rollback", "done"},
           rowLock' \in {rowLock, Unlocked(r)}, Goto(r, phase), UNCHANGED walletVars
    PROVE  TxInv'
    <1> USE DEF TxInv
    <1>1. /\ tx' \in [Request -> Memory] /\ tx'[r].phase = phase
          /\ \A s \in Request \ {r} : tx'[s] = tx[s]
        BY DEF TypeOK, Goto, Memory, Phase
    <1>2. /\ rowLock' \in [User -> Request \cup {Free}]
          /\ \A s \in Request \ {r}, u \in User : rowLock[u] = s => rowLock'[u] = s
        BY DEF TypeOK, Unlocked
    <1>3. TypeOK'
        BY <1>1, <1>2 DEF TypeOK, Atomic!TypeOK, walletVars
    <1>4. RequestInv(r)'
        BY <1>1 DEF RequestInv, JobIsReal, HoldsItsRows, NeedsSecond, Current, Checked
    <1>5. ASSUME NEW s \in Request \ {r} PROVE RequestInv(s)'
        BY <1>1, <1>2, Undisturbed DEF walletVars
    <1>6. QED
        BY <1>3, <1>4, <1>5

\* createWallet takes no lock and moves no money.
LEMMA CreateTxInv ==
    ASSUME TxInv, NEW u \in User, CreateWallet(u)
    PROVE  TxInv'
    <1>1. TypeOK'
        BY DEF TxInv, TypeOK, Atomic!TypeOK, CreateWallet, Atomic!CreateWallet
    <1>2. ASSUME NEW s \in Request PROVE RequestInv(s)'
        BY Undisturbed DEF TxInv, CreateWallet, Atomic!CreateWallet
    <1>3. QED
        BY <1>1, <1>2 DEF TxInv

\* A request that arrives knows its job and has read nothing.
LEMMA BeginTxInv ==
    ASSUME TxInv, NEW r \in Request, Begin(r)
    PROVE  TxInv'
    <1>1. PICK job \in Job :
              job.cents > 0 /\ tx' = [tx EXCEPT ![r].phase = "first", ![r].job = job]
        BY DEF Begin
    <1>2. /\ tx' \in [Request -> Memory] /\ tx'[r].phase = "first" /\ tx'[r].job = job
          /\ \A s \in Request \ {r} : tx'[s] = tx[s]
        BY <1>1 DEF TxInv, TypeOK, Memory, Phase
    <1>3. TypeOK'
        BY <1>2 DEF TxInv, TypeOK, Atomic!TypeOK, Begin, walletVars
    <1>4. RequestInv(r)'
        BY <1>1, <1>2
           DEF RequestInv, JobIsReal, HoldsItsRows, NeedsSecond, Current, Checked
    <1>5. ASSUME NEW s \in Request \ {r} PROVE RequestInv(s)'
        BY <1>2, Undisturbed DEF TxInv, Begin, walletVars
    <1>6. QED
        BY <1>3, <1>4, <1>5 DEF TxInv

\* The phase after the first read, and what it says about what was read.
LEMMA AfterFirstFacts ==
    ASSUME NEW job \in Job, NEW bal \in Column, NEW lck \in Column
    PROVE  /\ AfterFirst(job, bal, lck) \in {"commit", "rollback", "second"}
           /\ AfterFirst(job, bal, lck) = "second" =>
                 job.op = "release" /\ lck >= job.cents
           /\ AfterFirst(job, bal, lck) = "commit" =>
                 /\ Payee(job) = job.u
                 /\ job.op = "adjust" => bal + Delta(job) \in Column
                 /\ job.op = "lock" => bal >= job.cents /\ lck + job.cents \in Column
                 /\ job.op = "release" => lck >= job.cents /\ bal + job.cents \in Column
    <1>1. job.op \in {"adjust", "lock", "release"} /\ job.cents \in Int
        BY JobFacts
    <1>2. job.op # "release" => Payee(job) = job.u
        BY JobFacts
    <1>3. CASE job.op = "adjust"
        BY <1>2, <1>3 DEF AfterFirst
    <1>4. CASE job.op = "lock"
        BY <1>2, <1>4 DEF AfterFirst
    <1>5. CASE job.op = "release"
        BY <1>1, <1>5, WalletAssumption DEF AfterFirst
    <1>6. QED
        BY <1>1, <1>3, <1>4, <1>5

\* What a request remembers after a read.
LEMMA Remembered ==
    ASSUME NEW r \in Request, NEW phase \in Phase, tx \in [Request -> Memory],
           NEW bal \in Column, NEW lck \in Column, NEW payee \in Column,
           Remember(r, phase, bal, lck, payee)
    PROVE  /\ tx' \in [Request -> Memory]
           /\ tx'[r].phase = phase /\ tx'[r].job = tx[r].job
           /\ tx'[r].balance = bal /\ tx'[r].locked = lck /\ tx'[r].payee = payee
           /\ \A s \in Request \ {r} : tx'[s] = tx[s]
    <1> DEFINE m == [phase |-> phase, job |-> tx[r].job,
                     balance |-> bal, locked |-> lck, payee |-> payee]
    <1>1. m \in Memory
        <2>1. tx[r].job \in Job \cup {Nobody}
            BY DEF Memory
        <2>2. QED
            BY <2>1 DEF Memory
    <1>2. tx' = [tx EXCEPT ![r] = m]
        BY DEF Remember
    <1>3. tx' \in [Request -> Memory] /\ tx'[r] = m /\ \A s \in Request \ {r} : tx'[s] = tx[s]
        <2> HIDE DEF m
        <2>1. QED
            BY <1>1, <1>2
    <1>4. QED
        BY <1>3

\* The first read takes the lock of the caller's row, and what it read is
\* current because nobody else may write the row.
LEMMA LockFirstTxInv ==
    ASSUME TxInv, NEW r \in Request, LockFirst(r)
    PROVE  TxInv'
    <1> DEFINE job == tx[r].job
               next == AfterFirst(job, balance[job.u], locked[job.u])
    <1> USE DEF TxInv
    <1>1. /\ job \in Job /\ job.cents > 0 /\ job.u \in User /\ job.u \in holders
          /\ rowLock[job.u] = Free
          /\ balance[job.u] \in Column /\ locked[job.u] \in Column
        <2>1. job \in Job /\ job.cents > 0
            BY DEF LockFirst, RequestInv, JobIsReal
        <2>2. job.u \in User
            BY <2>1, JobFacts
        <2>3. QED
            BY <2>1, <2>2 DEF LockFirst, TypeOK, Atomic!TypeOK, Atomic!Column
    <1>2. /\ next \in {"commit", "rollback", "second"}
          /\ next = "second" => job.op = "release" /\ locked[job.u] >= job.cents
          /\ next = "commit" =>
                /\ Payee(job) = job.u
                /\ job.op = "adjust" => balance[job.u] + Delta(job) \in Column
                /\ job.op = "lock" =>
                      balance[job.u] >= job.cents /\ locked[job.u] + job.cents \in Column
                /\ job.op = "release" =>
                      locked[job.u] >= job.cents /\ balance[job.u] + job.cents \in Column
        BY <1>1, AfterFirstFacts
    <1>3. /\ Remember(r, next, balance[job.u], locked[job.u], balance[job.u])
          /\ rowLock' = [rowLock EXCEPT ![job.u] = r]
          /\ UNCHANGED <<holders, balance, locked, ledger, rows>>
        BY DEF LockFirst, walletVars
    <1> HIDE DEF next
    <1>4. /\ tx' \in [Request -> Memory]
          /\ tx'[r].phase = next /\ tx'[r].job = job
          /\ tx'[r].balance = balance[job.u] /\ tx'[r].locked = locked[job.u]
          /\ tx'[r].payee = balance[job.u]
          /\ \A s \in Request \ {r} : tx'[s] = tx[s]
        <2>1. next \in Phase
            BY <1>2 DEF Phase
        <2>2. QED
            BY <1>1, <1>3, <2>1, Remembered DEF TypeOK
    <1>5. /\ rowLock' \in [User -> Request \cup {Free}] /\ rowLock'[job.u] = r
          /\ \A s \in Request \ {r}, u \in User : rowLock[u] = s => rowLock'[u] = s
        BY <1>1, <1>3, WalletTxAssumption DEF TypeOK
    <1>6. TypeOK'
        BY <1>3, <1>4, <1>5 DEF TypeOK, Atomic!TypeOK
    <1>7. RequestInv(r)'
        <2>1. JobIsReal(r)' /\ NeedsSecond(r)'
            BY <1>1, <1>2, <1>4 DEF JobIsReal, NeedsSecond
        <2>2. HoldsItsRows(r)'
            BY <1>1, <1>2, <1>3, <1>4, <1>5 DEF HoldsItsRows
        <2>3. Current(r)'
            BY <1>2, <1>3, <1>4 DEF Current
        <2>4. Checked(r)'
            BY <1>2, <1>4 DEF Checked
        <2>5. QED
            BY <2>1, <2>2, <2>3, <2>4 DEF RequestInv
    <1>8. ASSUME NEW s \in Request \ {r} PROVE RequestInv(s)'
        BY <1>3, <1>4, <1>5, Undisturbed
    <1>9. QED
        BY <1>6, <1>7, <1>8

\* releaseFunds reads the owner's row under its lock and keeps the renter's.
LEMMA LockSecondTxInv ==
    ASSUME TxInv, NEW r \in Request, LockSecond(r)
    PROVE  TxInv'
    <1> DEFINE job == tx[r].job
               owner == Payee(job)
               next == IF balance[owner] + job.cents \in Column THEN "commit" ELSE "rollback"
    <1> USE DEF TxInv
    <1>1. /\ job \in Job /\ job.cents > 0 /\ job.u \in User /\ owner \in User
          /\ owner \in holders /\ job.u \in holders
          /\ rowLock[job.u] = r /\ rowLock[owner] = Free
          /\ job.op = "release" /\ tx[r].locked >= job.cents
          /\ tx[r].balance = balance[job.u] /\ tx[r].locked = locked[job.u]
          /\ balance[owner] \in Column
        <2>1. job \in Job /\ job.cents > 0
            BY DEF LockSecond, RequestInv, JobIsReal
        <2>2. job.u \in User /\ owner \in User
            BY <2>1, JobFacts
        <2>3. balance[owner] \in Column
            BY <2>2 DEF TypeOK, Atomic!TypeOK, Atomic!Column
        <2>4. QED
            BY <2>1, <2>2, <2>3
               DEF LockSecond, RequestInv, HoldsItsRows, NeedsSecond, Current
    <1>2. /\ Remember(r, next, tx[r].balance, tx[r].locked, balance[owner])
          /\ rowLock' = [rowLock EXCEPT ![owner] = r]
          /\ UNCHANGED <<holders, balance, locked, ledger, rows>>
        BY DEF LockSecond, walletVars
    <1>3. /\ next \in {"commit", "rollback"}
          /\ next = "commit" => balance[owner] + job.cents \in Column
        OBVIOUS
    <1> HIDE DEF next, owner
    <1>4. /\ tx' \in [Request -> Memory]
          /\ tx'[r].phase = next /\ tx'[r].job = job
          /\ tx'[r].balance = tx[r].balance /\ tx'[r].locked = tx[r].locked
          /\ tx'[r].payee = balance[owner]
          /\ \A s \in Request \ {r} : tx'[s] = tx[s]
        <2>1. next \in Phase /\ tx[r].balance \in Column /\ tx[r].locked \in Column
            BY <1>3 DEF TypeOK, Memory, Phase
        <2>2. QED
            BY <1>1, <1>2, <2>1, Remembered DEF TypeOK
    <1>5. /\ rowLock' \in [User -> Request \cup {Free}]
          /\ rowLock'[owner] = r /\ rowLock'[job.u] = r
          /\ \A s \in Request \ {r}, u \in User : rowLock[u] = s => rowLock'[u] = s
        BY <1>1, <1>2, WalletTxAssumption DEF TypeOK
    <1>6. TypeOK'
        BY <1>2, <1>4, <1>5 DEF TypeOK, Atomic!TypeOK
    <1>7. RequestInv(r)'
        <2>1. Payee(tx'[r].job) = owner
            BY <1>4 DEF owner
        <2>2. JobIsReal(r)' /\ HoldsItsRows(r)' /\ NeedsSecond(r)'
            BY <1>1, <1>2, <1>3, <1>4, <1>5, <2>1 DEF JobIsReal, HoldsItsRows, NeedsSecond
        <2>3. Current(r)' /\ Checked(r)'
            BY <1>1, <1>2, <1>3, <1>4, <2>1 DEF Current, Checked
        <2>4. QED
            BY <2>2, <2>3 DEF RequestInv
    <1>8. ASSUME NEW s \in Request \ {r} PROVE RequestInv(s)'
        BY <1>2, <1>4, <1>5, Undisturbed
    <1>9. QED
        BY <1>6, <1>7, <1>8

-----------------------------------------------------------------------------

\* What a request knows at its commit, about the committed rows.
LEMMA CommitReady ==
    ASSUME TxInv, NEW r \in Request, Commit(r)
    PROVE  LET job == tx[r].job IN
           /\ job \in Job /\ job.cents > 0
           /\ job.u \in holders /\ rowLock[job.u] = r
           /\ Payee(job) \in holders /\ rowLock[Payee(job)] = r
           /\ tx[r].balance = balance[job.u] /\ tx[r].locked = locked[job.u]
           /\ tx[r].payee = balance[Payee(job)]
           /\ job.op = "adjust" => balance[job.u] + Delta(job) \in Column
           /\ job.op = "lock" =>
                 balance[job.u] >= job.cents /\ locked[job.u] + job.cents \in Column
           /\ job.op = "release" =>
                 locked[job.u] >= job.cents /\ balance[Payee(job)] + job.cents \in Column
    BY DEF TxInv, RequestInv, JobIsReal, HoldsItsRows, Current, Checked, Commit

\* deposit, pay, refund, reward and simulateMomoDeposit commit as one step.
LEMMA CommitAdjust ==
    ASSUME TxInv, NEW r \in Request, Commit(r), tx[r].job.op = "adjust"
    PROVE  Atomic!Next
    <1> DEFINE job == tx[r].job
    <1>1. /\ job \in Job /\ job.cents > 0 /\ job.u \in holders
          /\ tx[r].balance = balance[job.u]
          /\ balance[job.u] + Delta(job) \in Column
        BY CommitReady
    <1>2. /\ job.u \in User /\ job.cents \in Amount /\ job.cents \in Int
          /\ job.type \in {"DEPOSIT", "MOMO_DEPOSIT", "REFUND", "REWARD", "PAYMENT"}
        BY <1>1, JobFacts
    <1>3. /\ rows + 1 <= MaxRows /\ rows' = rows + 1
          /\ balance' = [balance EXCEPT ![job.u] = tx[r].balance + Delta(job)]
          /\ ledger' = Atomic!Recorded(ledger, job.u, job.type, Delta(job))
          /\ UNCHANGED <<holders, locked>>
        BY DEF Commit, RowsOf, SavedBalance, SavedLocked, SavedLedger
    <1>4. balance' = Atomic!Moved(balance, job.u, Delta(job))
        BY <1>1, <1>2, <1>3 DEF Atomic!Moved, TxInv, TypeOK, Atomic!TypeOK
    <1>5. Atomic!AdjustBalance(job.u, Delta(job), job.type)
        BY <1>1, <1>3, <1>4 DEF Atomic!AdjustBalance, Atomic!AdjustAllowed, Atomic!Column
    <1>6. \/ Atomic!Deposit(job.u, job.cents)
          \/ Atomic!Pay(job.u, job.cents)
          \/ Atomic!Refund(job.u, job.cents)
          \/ Atomic!Reward(job.u, job.cents)
          \/ Atomic!SimulateMomoDeposit(job.u, job.cents)
        BY <1>1, <1>2, <1>5
           DEF Delta, Atomic!Deposit, Atomic!Pay, Atomic!Refund, Atomic!Reward,
               Atomic!SimulateMomoDeposit
    <1>7. QED
        BY <1>2, <1>6 DEF Atomic!Next

\* lockFunds commits as one step.
LEMMA CommitLock ==
    ASSUME TxInv, NEW r \in Request, Commit(r), tx[r].job.op = "lock"
    PROVE  Atomic!Next
    <1> DEFINE job == tx[r].job
    <1>1. /\ job \in Job /\ job.cents > 0 /\ job.u \in holders
          /\ tx[r].balance = balance[job.u] /\ tx[r].locked = locked[job.u]
          /\ balance[job.u] >= job.cents /\ locked[job.u] + job.cents \in Column
        BY CommitReady
    <1>2. job.u \in User /\ job.cents \in Amount /\ job.cents \in Int
        BY <1>1, JobFacts
    <1>3. /\ rows + 1 <= MaxRows /\ rows' = rows + 1
          /\ balance' = [balance EXCEPT ![job.u] = tx[r].balance - job.cents]
          /\ locked' = [locked EXCEPT ![job.u] = tx[r].locked + job.cents]
          /\ ledger' = Atomic!Recorded(ledger, job.u, "LOCK", -job.cents)
          /\ UNCHANGED holders
        BY DEF Commit, RowsOf, SavedBalance, SavedLocked, SavedLedger
    <1>4. /\ balance \in [User -> Column] /\ locked \in [User -> Column]
          /\ balance[job.u] \in Int
        BY <1>2, WalletAssumption DEF TxInv, TypeOK, Atomic!TypeOK, Atomic!Column
    <1>5. /\ balance' = Atomic!Moved(balance, job.u, -job.cents)
          /\ locked' = Atomic!Moved(locked, job.u, job.cents)
        BY <1>1, <1>2, <1>3, <1>4 DEF Atomic!Moved
    <1>6. Atomic!LockFunds(job.u, job.cents)
        BY <1>1, <1>3, <1>5 DEF Atomic!LockFunds, Atomic!LockAllowed, Atomic!Column
    <1>7. QED
        BY <1>2, <1>6 DEF Atomic!Next

\* releaseFunds commits as one step, whoever is paid.
LEMMA CommitRelease ==
    ASSUME TxInv, NEW r \in Request, Commit(r), tx[r].job.op = "release"
    PROVE  Atomic!Next
    <1> DEFINE job == tx[r].job
               paid == Atomic!Target(job.u, job.owner)
    <1>1. Payee(job) = paid
        BY CommitReady, JobFacts DEF Target, Atomic!Target
    <1>2. /\ job \in Job /\ job.cents > 0 /\ job.u \in holders /\ paid \in holders
          /\ tx[r].locked = locked[job.u] /\ tx[r].payee = balance[paid]
          /\ locked[job.u] >= job.cents /\ balance[paid] + job.cents \in Column
        BY <1>1, CommitReady
    <1>3. /\ job.u \in User /\ job.cents \in Amount /\ job.cents \in Int
          /\ job.owner \in User \cup {Nobody} /\ paid \in User
        BY <1>1, <1>2, JobFacts
    <1>4. /\ rows + 2 <= MaxRows /\ rows' = rows + 2
          /\ balance' = [balance EXCEPT ![paid] = tx[r].payee + job.cents]
          /\ locked' = [locked EXCEPT ![job.u] = tx[r].locked - job.cents]
          /\ ledger' = Atomic!Recorded(Atomic!Recorded(ledger, job.u, "UNLOCK", job.cents),
                           paid, Atomic!ReleaseType(job.u, job.owner), job.cents)
          /\ UNCHANGED holders
        BY <1>1 DEF Commit, RowsOf, SavedBalance, SavedLocked, SavedLedger
    <1>5. /\ balance \in [User -> Column] /\ locked \in [User -> Column]
          /\ locked[job.u] \in Int
        BY <1>3, WalletAssumption DEF TxInv, TypeOK, Atomic!TypeOK, Atomic!Column
    <1>6. /\ balance' = Atomic!Moved(balance, paid, job.cents)
          /\ locked' = Atomic!Moved(locked, job.u, -job.cents)
        BY <1>2, <1>3, <1>4, <1>5 DEF Atomic!Moved
    <1>7. Atomic!ReleaseFunds(job.u, job.cents, job.owner)
        BY <1>2, <1>4, <1>6 DEF Atomic!ReleaseFunds, Atomic!ReleaseAllowed, Atomic!Column
    <1>8. QED
        BY <1>3, <1>7 DEF Atomic!Next

\* Every commit is one operation of Wallet on the committed rows.
LEMMA CommitIsAtomic ==
    ASSUME TxInv, NEW r \in Request, Commit(r)
    PROVE  Atomic!Next
    <1>1. tx[r].job.op \in {"adjust", "lock", "release"}
        BY CommitReady, JobFacts
    <1>2. QED
        BY <1>1, CommitAdjust, CommitLock, CommitRelease

\* One step of Wallet keeps the types of the committed rows.
LEMMA AtomicType ==
    ASSUME Atomic!TypeOK, Atomic!Next
    PROVE  Atomic!TypeOK'
    <1> USE DEF Atomic!TypeOK, Atomic!Column
    <1>1. ASSUME NEW book \in [User -> [Atomic!Type -> Int]], NEW u \in User,
                 NEW t \in Atomic!Type, NEW a \in Int
          PROVE  Atomic!Recorded(book, u, t, a) \in [User -> [Atomic!Type -> Int]]
        BY DEF Atomic!Recorded
    <1>2. ASSUME NEW column \in [User -> Column], NEW u \in User, NEW a \in Int,
                 column[u] + a \in Column
          PROVE  Atomic!Moved(column, u, a) \in [User -> Column]
        BY <1>2 DEF Atomic!Moved
    <1>3. {"DEPOSIT", "MOMO_DEPOSIT", "PAYMENT", "REFUND", "REWARD", "LOCK", "UNLOCK"}
             \subseteq Atomic!Type
        BY DEF Atomic!Type
    <1>4. ASSUME NEW u \in User, Atomic!CreateWallet(u) PROVE Atomic!TypeOK'
        BY <1>4 DEF Atomic!CreateWallet
    <1>5. ASSUME NEW u \in User, NEW delta \in Int, NEW t \in Atomic!Type,
                 Atomic!AdjustBalance(u, delta, t)
          PROVE  Atomic!TypeOK'
        <2>1. /\ balance[u] + delta \in Column
              /\ balance' = Atomic!Moved(balance, u, delta)
              /\ ledger' = Atomic!Recorded(ledger, u, t, delta)
              /\ rows + 1 <= MaxRows /\ rows' = rows + 1
              /\ holders' = holders /\ locked' = locked
            BY <1>5 DEF Atomic!AdjustBalance, Atomic!AdjustAllowed
        <2>2. balance' \in [User -> Column]
            BY <1>2, <2>1
        <2>3. ledger' \in [User -> [Atomic!Type -> Int]]
            BY <1>1, <2>1
        <2>4. QED
            BY <2>1, <2>2, <2>3, WalletTxAssumption
    <1>6. ASSUME NEW u \in User, NEW cents \in Amount,
                 \/ Atomic!Deposit(u, cents) \/ Atomic!Pay(u, cents)
                 \/ Atomic!Refund(u, cents) \/ Atomic!Reward(u, cents)
                 \/ Atomic!SimulateMomoDeposit(u, cents)
          PROVE  Atomic!TypeOK'
        <2>1. cents \in Int /\ -cents \in Int
            BY WalletTxAssumption
        <2>2. QED
            BY <1>3, <1>5, <1>6, <2>1
               DEF Atomic!Deposit, Atomic!Pay, Atomic!Refund, Atomic!Reward,
                   Atomic!SimulateMomoDeposit
    <1>7. ASSUME NEW u \in User, NEW cents \in Amount, Atomic!LockFunds(u, cents)
          PROVE  Atomic!TypeOK'
        <2>1. /\ cents \in Int /\ -cents \in Int /\ cents > 0
              /\ balance[u] >= cents /\ locked[u] + cents \in Column
              /\ balance' = Atomic!Moved(balance, u, -cents)
              /\ locked' = Atomic!Moved(locked, u, cents)
              /\ ledger' = Atomic!Recorded(ledger, u, "LOCK", -cents)
              /\ rows + 1 <= MaxRows /\ rows' = rows + 1 /\ holders' = holders
            BY <1>7, WalletTxAssumption DEF Atomic!LockFunds, Atomic!LockAllowed
        <2>2. balance[u] + (-cents) \in Column
            BY <2>1, WalletAssumption
        <2>3. balance' \in [User -> Column] /\ locked' \in [User -> Column]
            BY <1>2, <2>1, <2>2
        <2>4. ledger' \in [User -> [Atomic!Type -> Int]]
            BY <1>1, <1>3, <2>1
        <2>5. QED
            BY <2>1, <2>3, <2>4, WalletTxAssumption
    <1>8. ASSUME NEW u \in User, NEW cents \in Amount, NEW owner \in User \cup {Nobody},
                 Atomic!ReleaseFunds(u, cents, owner)
          PROVE  Atomic!TypeOK'
        <2> DEFINE v == Atomic!Target(u, owner)
                   unlocked == Atomic!Recorded(ledger, u, "UNLOCK", cents)
        <2>1. v \in User /\ Atomic!ReleaseType(u, owner) \in Atomic!Type
            BY <1>3 DEF Atomic!Target, Atomic!ReleaseType
        <2>2. /\ cents \in Int /\ -cents \in Int /\ cents > 0
              /\ locked[u] >= cents /\ balance[v] + cents \in Column
              /\ locked' = Atomic!Moved(locked, u, -cents)
              /\ balance' = Atomic!Moved(balance, v, cents)
              /\ ledger' = Atomic!Recorded(unlocked, v, Atomic!ReleaseType(u, owner), cents)
              /\ rows + 2 <= MaxRows /\ rows' = rows + 2 /\ holders' = holders
            BY <1>8, WalletTxAssumption DEF Atomic!ReleaseFunds, Atomic!ReleaseAllowed
        <2>3. locked[u] + (-cents) \in Column
            BY <2>2, WalletAssumption
        <2>4. unlocked \in [User -> [Atomic!Type -> Int]]
            BY <1>1, <1>3, <2>2
        <2> HIDE DEF v, unlocked
        <2>5. balance' \in [User -> Column] /\ locked' \in [User -> Column]
            BY <1>2, <2>1, <2>2, <2>3
        <2>6. ledger' \in [User -> [Atomic!Type -> Int]]
            BY <1>1, <2>1, <2>2, <2>4
        <2>7. QED
            BY <2>2, <2>5, <2>6, WalletTxAssumption
    <1>9. QED
        BY <1>4, <1>6, <1>7, <1>8 DEF Atomic!Next

\* A commit writes only rows under its own locks, and then gives them back.
LEMMA CommitTxInv ==
    ASSUME TxInv, NEW r \in Request, Commit(r)
    PROVE  TxInv'
    <1> DEFINE job == tx[r].job
    <1> USE DEF TxInv
    <1>1. /\ job \in Job /\ rowLock[job.u] = r /\ rowLock[Payee(job)] = r
          /\ job.op \in {"adjust", "lock", "release"}
          /\ job.op # "release" => Payee(job) = job.u
        BY CommitReady, JobFacts
    <1>2. /\ tx' \in [Request -> Memory] /\ tx'[r].phase = "done"
          /\ \A s \in Request \ {r} : tx'[s] = tx[s]
        BY DEF Commit, Goto, TypeOK, Memory, Phase
    <1>3. /\ rowLock' \in [User -> Request \cup {Free}]
          /\ \A s \in Request \ {r}, u \in User : rowLock[u] = s => rowLock'[u] = s
        BY DEF Commit, Unlocked, TypeOK
    <1>4. TypeOK'
        BY <1>2, <1>3, CommitIsAtomic, AtomicType DEF TypeOK
    <1>5. ASSUME NEW u \in User, rowLock[u] # r
          PROVE  balance'[u] = balance[u] /\ locked'[u] = locked[u]
        BY <1>1, <1>5
           DEF Commit, SavedBalance, SavedLocked, TypeOK, Atomic!TypeOK
    <1>6. RequestInv(r)'
        BY <1>2 DEF RequestInv, JobIsReal, HoldsItsRows, NeedsSecond, Current, Checked
    <1>7. ASSUME NEW s \in Request \ {r} PROVE RequestInv(s)'
        BY <1>2, <1>3, <1>5, Undisturbed DEF Commit
    <1>8. QED
        BY <1>4, <1>6, <1>7

-----------------------------------------------------------------------------

\* Every step of the service and the database keeps the invariant.
LEMMA NextTxInv == TxInv /\ [Next]_vars => TxInv'
    <1> SUFFICES ASSUME TxInv, [Next]_vars PROVE TxInv'
        OBVIOUS
    <1>1. ASSUME NEW u \in User, CreateWallet(u) PROVE TxInv'
        BY <1>1, CreateTxInv
    <1>2. ASSUME NEW r \in Request, Begin(r) PROVE TxInv'
        BY <1>2, BeginTxInv
    <1>3. ASSUME NEW r \in Request, LockFirst(r) PROVE TxInv'
        BY <1>3, LockFirstTxInv
    <1>4. ASSUME NEW r \in Request, LockSecond(r) PROVE TxInv'
        BY <1>4, LockSecondTxInv
    <1>5. ASSUME NEW r \in Request, Commit(r) PROVE TxInv'
        BY <1>5, CommitTxInv
    <1>6. ASSUME NEW r \in Request,
                 \/ FirstMissing(r) \/ SecondMissing(r) \/ Rollback(r)
                 \/ DeadlockVictim(r) \/ Abort(r)
          PROVE TxInv'
        BY <1>6, EndTxInv
           DEF FirstMissing, SecondMissing, Rollback, DeadlockVictim, Abort
    <1>7. CASE UNCHANGED vars
        <2>1. TypeOK'
            BY <1>7 DEF vars, walletVars, TxInv, TypeOK, Atomic!TypeOK
        <2>2. ASSUME NEW s \in Request PROVE RequestInv(s)'
            BY <1>7, Undisturbed DEF vars, walletVars, TxInv
        <2>3. QED
            BY <2>1, <2>2 DEF TxInv
    <1>8. QED
        BY <1>1, <1>2, <1>3, <1>4, <1>5, <1>6, <1>7 DEF Next, Serve

\* Nobody has asked for anything yet.
LEMMA InitTxInv == Init => TxInv
    <1> SUFFICES ASSUME Init PROVE TxInv
        OBVIOUS
    <1>1. Atomic!TypeOK
        BY WalletAssumption, WalletTxAssumption
           DEF Init, Atomic!Init, Atomic!TypeOK, Atomic!Column
    <1>2. tx \in [Request -> Memory] /\ \A r \in Request : tx[r].phase = "idle"
        BY WalletAssumption DEF Init, Blank, Memory, Phase
    <1>3. TypeOK
        BY <1>1, <1>2 DEF Init, TypeOK
    <1>4. ASSUME NEW r \in Request PROVE RequestInv(r)
        BY <1>2 DEF RequestInv, JobIsReal, HoldsItsRows, NeedsSecond, Current, Checked
    <1>5. QED
        BY <1>3, <1>4 DEF TxInv

\* The invariant holds in every state the interleaved transactions reach.
THEOREM TxInvariant == Spec => []TxInv
    BY InitTxInv, NextTxInv, PTL DEF Spec

\* No transaction of wallet.service.ts commits values computed from a row
\* that another one has changed in between.
THEOREM ReadsStayCurrent == Spec => []ReadsAreCurrent
    <1>1. TxInv => ReadsAreCurrent
        BY DEF TxInv, RequestInv, Current, ReadsAreCurrent
    <1>2. QED
        BY <1>1, TxInvariant, PTL

\* A step of the transactions is a step of Wallet or leaves its rows alone.
LEMMA StepIsAtomic == TxInv /\ [Next]_vars => [Atomic!Next]_walletVars
    <1> SUFFICES ASSUME TxInv, [Next]_vars PROVE [Atomic!Next]_walletVars
        OBVIOUS
    <1>1. ASSUME NEW u \in User, CreateWallet(u) PROVE Atomic!Next
        BY <1>1 DEF CreateWallet, Atomic!Next
    <1>2. ASSUME NEW r \in Request, Commit(r) PROVE Atomic!Next
        BY <1>2, CommitIsAtomic
    <1>3. ASSUME NEW r \in Request,
                 \/ Begin(r) \/ LockFirst(r) \/ FirstMissing(r) \/ LockSecond(r)
                 \/ SecondMissing(r) \/ Rollback(r) \/ DeadlockVictim(r) \/ Abort(r)
          PROVE UNCHANGED walletVars
        BY <1>3 DEF Begin, LockFirst, FirstMissing, LockSecond, SecondMissing, Rollback,
                    DeadlockVictim, Abort
    <1>4. CASE UNCHANGED vars
        BY <1>4 DEF vars
    <1>5. QED
        BY <1>1, <1>2, <1>3, <1>4 DEF Next, Serve

\* Concurrent wallet requests behave as if each ran alone.
THEOREM TransactionsAreAtomic == Spec => StepsImplementWallet
    BY TxInvariant, StepIsAtomic, PTL DEF Spec, StepsImplementWallet

\* From the empty tables on, WalletTx implements the specification of Wallet.
THEOREM TransactionsImplementWallet == Spec => Atomic!Spec
    <1>1. Init => Atomic!Init
        BY DEF Init
    <1>2. TxInv /\ [Next]_vars => [Atomic!Next]_(Atomic!vars)
        BY StepIsAtomic DEF walletVars, Atomic!vars
    <1>3. QED
        BY <1>1, <1>2, TxInvariant, PTL DEF Spec, Atomic!Spec

Proved == INSTANCE WalletProofs WITH
    User <- User, Nobody <- Nobody, MaxCents <- MaxCents, Amount <- Amount, MaxRows <- MaxRows,
    holders <- holders, balance <- balance, locked <- locked, ledger <- ledger, rows <- rows

\* What WalletProofs shows of Wallet holds of the interleaved transactions:
\* the wallet_transactions rows always explain both columns of user_wallets.
THEOREM ConcurrentLedgerReconciles == Spec => []Atomic!LedgerReconciles
    <1>1. Proved!Spec => []Proved!LedgerReconciles
        BY Proved!LedgerAlwaysReconciles, WalletAssumption, WalletTxAssumption
           DEF Proved!AmountAssumption, Proved!WalletAssumption
    <1>2. Proved!Init <=> Atomic!Init
        BY DEF Proved!Init, Atomic!Init, Proved!Type, Atomic!Type
    <1>3. [Proved!Next]_(Proved!vars) <=> [Atomic!Next]_(Atomic!vars)
        BY DEF Proved!Next, Atomic!Next, Proved!vars, Atomic!vars,
               Proved!CreateWallet, Atomic!CreateWallet, Proved!Deposit, Atomic!Deposit,
               Proved!Pay, Atomic!Pay, Proved!Refund, Atomic!Refund,
               Proved!Reward, Atomic!Reward,
               Proved!SimulateMomoDeposit, Atomic!SimulateMomoDeposit,
               Proved!LockFunds, Atomic!LockFunds, Proved!ReleaseFunds, Atomic!ReleaseFunds,
               Proved!AdjustBalance, Atomic!AdjustBalance, Proved!Column, Atomic!Column,
               Proved!AdjustAllowed, Atomic!AdjustAllowed,
               Proved!LockAllowed, Atomic!LockAllowed,
               Proved!ReleaseAllowed, Atomic!ReleaseAllowed,
               Proved!ReleaseType, Atomic!ReleaseType, Proved!Target, Atomic!Target,
               Proved!Moved, Atomic!Moved, Proved!Recorded, Atomic!Recorded
    <1>4. Proved!LedgerReconciles <=> Atomic!LedgerReconciles
        BY DEF Proved!LedgerReconciles, Atomic!LedgerReconciles,
               Proved!AvailableSum, Atomic!AvailableSum, Proved!LockedSum, Atomic!LockedSum
    <1>5. QED
        BY <1>1, <1>2, <1>3, <1>4, TransactionsImplementWallet, PTL
           DEF Proved!Spec, Atomic!Spec

=============================================================================
