------------------------------ MODULE WalletTx ------------------------------
(***************************************************************************)
(* wallet.service.ts as the database runs it.  Every operation is one      *)
(* dataSource.transaction that reads user_wallets rows with                *)
(* pessimistic_write, computes in memory and saves, so the transactions of *)
(* concurrent requests interleave at the row locks.  A release locks the   *)
(* renter's row, then the owner's: two releases that cross wait for each   *)
(* other until PostgreSQL aborts one.  Reads return committed values;      *)
(* writes become visible at commit.                                        *)
(***************************************************************************)
EXTENDS WalletRules

CONSTANTS
    Amount,     \* amounts of the requests, in cents
    MaxRows,    \* bound on wallet_transactions ids, as in Wallet
    Request,    \* requests, each served by one transaction
    Free        \* no transaction holds the row lock

ASSUME WalletTxAssumption ==
    /\ Amount \subseteq Int
    /\ MaxRows \in Nat
    /\ Free \notin Request

VARIABLES
    holders, balance, locked, ledger, rows,   \* committed state, as in Wallet
    rowLock,    \* who holds FOR UPDATE on the wallet row of a user
    tx          \* progress and memory of the transaction of each request

walletVars == <<holders, balance, locked, ledger, rows>>
vars == <<walletVars, rowLock, tx>>

\* The refinement mapping: a transaction that has not committed is invisible.
Atomic == INSTANCE Wallet WITH
    User <- User, Nobody <- Nobody, MaxCents <- MaxCents, Amount <- Amount, MaxRows <- MaxRows,
    holders <- holders, balance <- balance, locked <- locked, ledger <- ledger, rows <- rows

\* What a request asks for.  deposit, refund, reward and simulateMomoDeposit
\* differ only in the row type; pay has the opposite sign.
Job ==
    [op : {"adjust"}, u : User, cents : Amount, owner : {Nobody},
     type : {"DEPOSIT", "MOMO_DEPOSIT", "REFUND", "REWARD", "PAYMENT"}]
    \cup [op : {"lock"}, u : User, cents : Amount, owner : {Nobody}, type : {"LOCK"}]
    \cup [op : {"release"}, u : User, cents : Amount, owner : User \cup {Nobody},
          type : {"UNLOCK"}]

Delta(job) == IF job.type = "PAYMENT" THEN -job.cents ELSE job.cents

\* The second row a job locks, or the first one again.
Payee(job) == IF job.op = "release" THEN Target(job.u, job.owner) ELSE job.u

Phase == {"idle", "first", "second", "commit", "rollback", "done"}

\* seen.balance and seen.locked were read from the row of job.u,
\* seen.payee from the row of Payee(job).
Memory == [phase : Phase, job : Job \cup {Nobody},
           balance : Column, locked : Column, payee : Column]

Blank == [phase |-> "idle", job |-> Nobody, balance |-> 0, locked |-> 0, payee |-> 0]

TypeOK ==
    /\ Atomic!TypeOK
    /\ rowLock \in [User -> Request \cup {Free}]
    /\ tx \in [Request -> Memory]

Init ==
    /\ Atomic!Init
    /\ rowLock = [u \in User |-> Free]
    /\ tx = [r \in Request |-> Blank]

-----------------------------------------------------------------------------

Goto(r, phase) == tx' = [tx EXCEPT ![r].phase = phase]

\* What r goes on with, and what it has read so far.
Remember(r, phase, bal, lck, payee) ==
    tx' = [tx EXCEPT ![r] = [phase |-> phase, job |-> tx[r].job,
                             balance |-> bal, locked |-> lck, payee |-> payee]]

\* Every row lock of r given back, as COMMIT and ROLLBACK do.
Unlocked(r) == [u \in User |-> IF rowLock[u] = r THEN Free ELSE rowLock[u]]

\* createWallet; the unique user_id of user_wallets makes it one step.
CreateWallet(u) ==
    /\ Atomic!CreateWallet(u)
    /\ UNCHANGED <<rowLock, tx>>

\* An operation is called; an amount that is not positive is rejected before
\* the transaction starts.
Begin(r) ==
    /\ tx[r].phase = "idle"
    /\ \E job \in Job :
          /\ job.cents > 0
          /\ tx' = [tx EXCEPT ![r].phase = "first", ![r].job = job]
    /\ UNCHANGED <<walletVars, rowLock>>

\* Mutant: lockFunds without its "Insufficient wallet balance" check.
AfterFirst_Overdraft(job, bal, lck) ==
    CASE job.op = "adjust" ->
            IF bal + Delta(job) \in Column THEN "commit" ELSE "rollback"
      [] job.op = "lock" -> IF lck + job.cents \in Column THEN "commit" ELSE "rollback"
      [] OTHER ->
            IF lck < job.cents THEN "rollback"
            ELSE IF Payee(job) # job.u THEN "second"
            ELSE IF bal + job.cents \in Column THEN "commit" ELSE "rollback"

\* What the service decides once it has read the first row: the balance must
\* cover a debit or a lock, the locked balance a release.  A value that
\* overflows its column makes the save throw.
AfterFirst(job, bal, lck) ==
    CASE job.op = "adjust" ->
            IF bal + Delta(job) \in Column THEN "commit" ELSE "rollback"
      [] job.op = "lock" ->
            IF bal >= job.cents /\ lck + job.cents \in Column THEN "commit" ELSE "rollback"
      [] OTHER ->
            IF lck < job.cents THEN "rollback"
            ELSE IF Payee(job) # job.u THEN "second"
            ELSE IF bal + job.cents \in Column THEN "commit" ELSE "rollback"

\* Mutant: findOne without pessimistic_write.
LockFirst_NoLock(r) ==
    /\ tx[r].phase = "first"
    /\ LET job == tx[r].job IN
          /\ job.u \in holders
          /\ Remember(r, AfterFirst(job, balance[job.u], locked[job.u]),
                      balance[job.u], locked[job.u], balance[job.u])
    /\ UNCHANGED <<walletVars, rowLock>>

\* findOne with pessimistic_write on the caller's (or renter's) row.
LockFirst(r) ==
    /\ tx[r].phase = "first"
    /\ LET job == tx[r].job IN
          /\ job.u \in holders
          /\ rowLock[job.u] = Free
          /\ rowLock' = [rowLock EXCEPT ![job.u] = r]
          /\ Remember(r, AfterFirst(job, balance[job.u], locked[job.u]),
                      balance[job.u], locked[job.u], balance[job.u])
    /\ UNCHANGED walletVars

\* "Wallet not found", "Renter wallet not found".
FirstMissing(r) ==
    /\ tx[r].phase = "first"
    /\ tx[r].job.u \notin holders
    /\ Goto(r, "rollback")
    /\ UNCHANGED <<walletVars, rowLock>>

\* Mutant: only the renter's row is read with a lock.
LockSecond_NoLock(r) ==
    /\ tx[r].phase = "second"
    /\ LET owner == Payee(tx[r].job) IN
          /\ owner \in holders
          /\ Remember(r, IF balance[owner] + tx[r].job.cents \in Column
                         THEN "commit" ELSE "rollback",
                      tx[r].balance, tx[r].locked, balance[owner])
    /\ UNCHANGED <<walletVars, rowLock>>

\* releaseFunds only: findOne with pessimistic_write on the owner's row.
LockSecond(r) ==
    /\ tx[r].phase = "second"
    /\ LET owner == Payee(tx[r].job) IN
          /\ owner \in holders
          /\ rowLock[owner] = Free
          /\ rowLock' = [rowLock EXCEPT ![owner] = r]
          /\ Remember(r, IF balance[owner] + tx[r].job.cents \in Column
                         THEN "commit" ELSE "rollback",
                      tx[r].balance, tx[r].locked, balance[owner])
    /\ UNCHANGED walletVars

\* "Owner wallet not found".
SecondMissing(r) ==
    /\ tx[r].phase = "second"
    /\ Payee(tx[r].job) \notin holders
    /\ Goto(r, "rollback")
    /\ UNCHANGED <<walletVars, rowLock>>

-----------------------------------------------------------------------------

\* The rows a job writes: the values come from memory, not from the table.
SavedBalance(job, m) ==
    CASE job.op = "adjust"  -> [balance EXCEPT ![job.u] = m.balance + Delta(job)]
      [] job.op = "lock"    -> [balance EXCEPT ![job.u] = m.balance - job.cents]
      [] OTHER -> [balance EXCEPT ![Payee(job)] = m.payee + job.cents]

SavedLocked(job, m) ==
    CASE job.op = "adjust"  -> locked
      [] job.op = "lock"    -> [locked EXCEPT ![job.u] = m.locked + job.cents]
      [] OTHER -> [locked EXCEPT ![job.u] = m.locked - job.cents]

SavedLedger(job) ==
    CASE job.op = "adjust"  -> Atomic!Recorded(ledger, job.u, job.type, Delta(job))
      [] job.op = "lock"    -> Atomic!Recorded(ledger, job.u, "LOCK", -job.cents)
      [] OTHER ->
            Atomic!Recorded(Atomic!Recorded(ledger, job.u, "UNLOCK", job.cents),
                            Payee(job), Atomic!ReleaseType(job.u, job.owner), job.cents)

RowsOf(job) == IF job.op = "release" THEN 2 ELSE 1

Commit(r) ==
    /\ tx[r].phase = "commit"
    /\ LET job == tx[r].job IN
          /\ rows + RowsOf(job) <= MaxRows
          /\ balance' = SavedBalance(job, tx[r])
          /\ locked' = SavedLocked(job, tx[r])
          /\ ledger' = SavedLedger(job)
          /\ rows' = rows + RowsOf(job)
    /\ rowLock' = Unlocked(r)
    /\ Goto(r, "done")
    /\ UNCHANGED holders

\* Mutant: a query runner of its own that is not rolled back when it throws.
Rollback_KeepsLocks(r) ==
    /\ tx[r].phase = "rollback"
    /\ Goto(r, "done")
    /\ UNCHANGED <<walletVars, rowLock>>

\* The callback threw: nothing it saved survives.
Rollback(r) ==
    /\ tx[r].phase = "rollback"
    /\ rowLock' = Unlocked(r)
    /\ Goto(r, "done")
    /\ UNCHANGED walletVars

\* The connection or the process dies in the middle of the transaction.
Abort(r) ==
    /\ tx[r].phase \in {"first", "second", "commit"}
    /\ rowLock' = Unlocked(r)
    /\ Goto(r, "done")
    /\ UNCHANGED walletVars

\* The row a transaction is waiting for, when another one holds it.
Wanted(r) == IF tx[r].phase = "first" THEN tx[r].job.u ELSE Payee(tx[r].job)
Waiting(r) == tx[r].phase \in {"first", "second"} /\ rowLock[Wanted(r)] # Free

\* r is part of a circle of transactions that wait for each other.
Deadlocked(r) ==
    \E circle \in SUBSET Request :
        /\ r \in circle
        /\ \A s \in circle : Waiting(s) /\ rowLock[Wanted(s)] \in circle

\* PostgreSQL's deadlock detector aborts one transaction of the circle.
DeadlockVictim(r) ==
    /\ Deadlocked(r)
    /\ rowLock' = Unlocked(r)
    /\ Goto(r, "done")
    /\ UNCHANGED walletVars

Serve(r) ==
    \/ LockFirst(r)
    \/ FirstMissing(r)
    \/ LockSecond(r)
    \/ SecondMissing(r)
    \/ Commit(r)
    \/ Rollback(r)
    \/ DeadlockVictim(r)

Next ==
    \/ \E u \in User : CreateWallet(u)
    \/ \E r \in Request : Begin(r) \/ Serve(r) \/ Abort(r)

\* A started transaction is driven by the server and the database until it
\* ends; when a request arrives or a connection dies is nobody's promise.
Fairness == \A r \in Request : WF_vars(Serve(r))

Spec == Init /\ [][Next]_vars /\ Fairness

-----------------------------------------------------------------------------

\* Concurrent wallet requests behave as if each ran alone: with the row locks
\* of wallet.service.ts every commit is one operation of Wallet applied to
\* the committed rows, no credit or debit of another request is overwritten.
StepsImplementWallet == [][Atomic!Next]_walletVars

\* What a transaction has read is still what the table says when it commits,
\* although the values it writes were computed from its own memory.
ReadsAreCurrent ==
    \A r \in Request : tx[r].phase \in {"second", "commit"} =>
        /\ tx[r].balance = balance[tx[r].job.u]
        /\ tx[r].locked = locked[tx[r].job.u]
        /\ tx[r].phase = "commit" => tx[r].payee = balance[Payee(tx[r].job)]

\* Every wallet request ends, crossing releases included, because the
\* database breaks the circles the lock order of releaseFunds allows.
EveryRequestEnds == \A r \in Request : tx[r].phase # "idle" ~> tx[r].phase = "done"

=============================================================================
