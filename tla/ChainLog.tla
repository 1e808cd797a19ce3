------------------------------ MODULE ChainLog ------------------------------
(***************************************************************************)
(* blockchain.service.ts over RentalEscrow.tla: every call estimates and   *)
(* sends a transaction, writes a PENDING row about it, waits until it is   *)
(* mined and marks the row.  Nothing ties these steps together: the row    *)
(* may not be written, the answer may be lost and the process may stop in  *)
(* between, and the chain decides again when it mines the transaction.     *)
(* Others call the contract as well.                                       *)
(***************************************************************************)
EXTENDS RentalEscrow, FiniteSetsExt

CONSTANTS
    Call,       \* calls of the service
    Ether,      \* amounts that its deposits ask for
    AdminKey    \* account of BLOCKCHAIN_ADMIN_PRIVATE_KEY

ASSUME ChainLogAssumption ==
    /\ AdminKey \in Account
    /\ Ether \subseteq Value
    /\ IsFiniteSet(Call)

VARIABLES
    call,   \* the running calls
    row,    \* status of the row each call has written
    tx,     \* the transaction each call has sent
    apart   \* something has happened that no row can tell of

logVars == <<call, row, tx, apart>>
chainVars == <<vars, logVars>>

Type == {"deposit", "release", "refund"}
Status == {"none", "pending", "confirmed", "failed"}

NoCall == [at |-> "new", type |-> "none", admin |-> FALSE, id |-> 0, sender |-> NoAccount,
           payee |-> NoAccount, value |-> 0]

LogInit ==
    /\ Init
    /\ call = [c \in Call |-> NoCall]
    /\ row = [c \in Call |-> "none"]
    /\ tx = [c \in Call |-> "none"]
    /\ apart = FALSE

\* What the contract requires, now and again when the transaction is mined.
Requires(t) ==
    IF t.type = "deposit"
    THEN t.payee # NoAccount /\ t.value > 0 /\ rentals[t.id].status # "Deposited"
    ELSE IsAuthorized(t.sender) /\ rentals[t.id].status = "Deposited"

Executes(t) ==
    CASE t.type = "deposit" -> Deposit(t.sender, t.id, t.payee, t.value)
      [] t.type = "release" -> ReleaseFunds(t.sender, t.id)
      [] t.type = "refund" -> Refund(t.sender, t.id)

\* estimateGas throws when the contract would refuse, before anything is sent.
Send(c, t) ==
    /\ call[c].at = "new"
    /\ Requires(t)
    /\ call' = [call EXCEPT ![c] = t]
    /\ tx' = [tx EXCEPT ![c] = "sent"]
    /\ UNCHANGED <<vars, row, apart>>

\* deposit, with the key of the renter.
SendDeposit(c, renter, id, payee, value) ==
    Send(c, [at |-> "sent", type |-> "deposit", admin |-> FALSE, id |-> id, sender |-> renter,
             payee |-> payee, value |-> value])

\* adminDepositForRental, which nothing in the service calls yet.
AdminDepositForRental(c, id, payee, value) ==
    Send(c, [at |-> "sent", type |-> "deposit", admin |-> TRUE, id |-> id, sender |-> AdminKey,
             payee |-> payee, value |-> value])

\* releaseFunds and refund with the key of a request.
SendSettle(c, type, key, id) ==
    Send(c, [at |-> "sent", type |-> type, admin |-> FALSE, id |-> id, sender |-> key,
             payee |-> NoAccount, value |-> 0])

\* The bills settle with the configured key and swallow what is thrown.
AdminReleaseFundsForRental(c, id) == SendSettle(c, "release", AdminKey, id)
AdminRefundForRental(c, id) == SendSettle(c, "refund", AdminKey, id)

Marks(c, status) ==
    /\ row' = [row EXCEPT ![c] = status]
    /\ call' = [call EXCEPT ![c].at = "over"]

\* Mutant: the row is CONFIRMED as soon as the transaction is sent.
RecordPendingTransaction_Confirmed(c) ==
    /\ call[c].at = "sent"
    /\ Marks(c, "confirmed")
    /\ UNCHANGED <<vars, tx, apart>>

RecordPendingTransaction(c) ==
    /\ call[c].at = "sent"
    /\ row' = [row EXCEPT ![c] = "pending"]
    /\ call' = [call EXCEPT ![c].at = "waiting"]
    /\ UNCHANGED <<vars, tx, apart>>

\* The insert fails: the call throws, its transaction will be mined anyway.
RecordFails(c) ==
    /\ call[c].at = "sent"
    /\ call' = [call EXCEPT ![c].at = "over"]
    /\ apart' = TRUE
    /\ UNCHANGED <<vars, row, tx>>

\* The chain mines a transaction: it takes place, or it reverts because the
\* contract refuses by now or because the receiver refuses the transfer.
Mine(c) ==
    /\ tx[c] = "sent"
    /\ \/ Executes(call[c]) /\ tx' = [tx EXCEPT ![c] = "executed"]
       \/ /\ ~Requires(call[c]) \/ call[c].type # "deposit"
          /\ tx' = [tx EXCEPT ![c] = "reverted"]
          /\ UNCHANGED vars
    /\ UNCHANGED <<call, row, apart>>

\* Two transactions of one key may get the same nonce: one is replaced.
Replace(c) ==
    /\ tx[c] = "sent"
    /\ \E d \in Call \ {c} : tx[d] = "sent" /\ call[d].sender = call[c].sender
    /\ tx' = [tx EXCEPT ![c] = "reverted"]
    /\ UNCHANGED <<vars, call, row, apart>>

\* wait returns the receipt.
MarkConfirmed(c) ==
    /\ call[c].at = "waiting"
    /\ tx[c] = "executed"
    /\ Marks(c, "confirmed")
    /\ UNCHANGED <<vars, tx, apart>>

\* wait throws for a transaction that reverted or was replaced; after
\* adminDepositForRental the row stays PENDING.
MarkFailed(c) ==
    /\ call[c].at = "waiting"
    /\ tx[c] = "reverted"
    /\ Marks(c, IF call[c].admin THEN "pending" ELSE "failed")
    /\ UNCHANGED <<vars, tx, apart>>

\* The provider or the database answers with an error: the row says FAILED,
\* or stays PENDING when that cannot be written either, whatever the chain does.
LoseAnswer(c) ==
    /\ call[c].at = "waiting"
    /\ \E status \in {"pending", IF call[c].admin THEN "pending" ELSE "failed"} :
          Marks(c, status)
    /\ apart' = TRUE
    /\ UNCHANGED <<vars, tx>>

\* The process stops: its calls are never resumed.
Restart ==
    /\ \E c \in Call : call[c].at \in {"sent", "waiting"}
    /\ call' = [c \in Call |-> IF call[c].at = "new" THEN NoCall
                                                     ELSE [call[c] EXCEPT !.at = "over"]]
    /\ apart' = TRUE
    /\ UNCHANGED <<vars, row, tx>>

\* Somebody calls the contract with another client.
Others ==
    /\ Next
    /\ apart' = TRUE
    /\ UNCHANGED <<call, row, tx>>

Request(c, id) ==
    \/ \E key \in Account :
          \/ \E payee \in Account, value \in Ether : SendDeposit(c, key, id, payee, value)
          \/ \E type \in {"release", "refund"} : SendSettle(c, type, key, id)
    \/ \E payee \in Account, value \in Ether : AdminDepositForRental(c, id, payee, value)
    \/ AdminReleaseFundsForRental(c, id)
    \/ AdminRefundForRental(c, id)

Service ==
    \/ \E c \in Call :
          \/ \E id \in RentalId : Request(c, id)
          \/ RecordPendingTransaction(c) \/ RecordFails(c)
          \/ Mine(c) \/ Replace(c)
          \/ MarkConfirmed(c) \/ MarkFailed(c) \/ LoseAnswer(c)
    \/ Restart

LogNext == Service \/ Others

LogSpec == LogInit /\ [][LogNext]_chainVars

-----------------------------------------------------------------------------

Confirmed(id, types) ==
    {c \in Call : row[c] = "confirmed" /\ call[c].id = id /\ call[c].type \in types}
DepositsOf(id) == Confirmed(id, {"deposit"})
SettlementsOf(id) == Confirmed(id, {"release", "refund"})
Claimed(id) == MapThenSumSet(LAMBDA c : call[c].value, DepositsOf(id))

Idle == \A c \in Call : call[c].at \in {"new", "over"}

\* The log of blockchain transactions can be trusted: CONFIRMED rows never
\* claim a deposit that did not reach the contract nor more settlements of a
\* rental than it paid out, although calls overlap and the chain decides
\* anew; and unless something happened that no row can tell of, they tell the
\* whole story of every rental once no call is running.
LogMatchesChain ==
    \A id \in RentalId :
        /\ Claimed(id) <= paidIn[id]
        /\ Cardinality(SettlementsOf(id)) <= paidOut[id]
        /\ Idle /\ ~apart =>
              /\ Claimed(id) = paidIn[id]
              /\ rentals[id].status = "Deposited" <=>
                    Cardinality(DepositsOf(id)) > Cardinality(SettlementsOf(id))

=============================================================================
