---------------------------- MODULE RentalEscrow ----------------------------
(***************************************************************************)
(* contracts/RentalEscrow.sol: the on-chain escrow of a rental deposit.    *)
(* Every external function is one transaction and nonReentrant, so one     *)
(* step; a failed require, and a receiver that refuses the transfer,       *)
(* revert the transaction, which is a stuttering step.  The ghost maps     *)
(* paidIn, paidOut and received add up what the value transfers moved.     *)
(***************************************************************************)
EXTENDS Integers

CONSTANTS
    Account,        \* addresses other than address(0)
    RentalId,       \* keys of the rentals mapping
    Value,          \* values of msg.value, in wei
    NoAccount,      \* address(0)
    Deployer,       \* initialOwner of the constructor
    MaxDeposits     \* bound on the number of deposits

ASSUME EscrowAssumption ==
    /\ NoAccount \notin Account
    /\ Deployer \in Account
    /\ Value \subseteq Nat
    /\ MaxDeposits \in Nat

VARIABLES
    rentals,                \* rentals mapping
    authorizedOperators,    \* accounts mapped to true
    owner,                  \* owner() of Ownable
    funds,                  \* address(this).balance
    paidIn, paidOut,        \* wei that entered and left for each rental
    received,               \* wei the contract sent to each account
    deposits                \* number of deposits made

ledger == <<paidIn, paidOut, received, funds>>
vars == <<rentals, authorizedOperators, owner, ledger, deposits>>

DepositStatus == {"None", "Deposited", "Released", "Refunded"}

\* An entry never written, and one that names both parties.
NoRental == [renter |-> NoAccount, owner |-> NoAccount, amount |-> 0, status |-> "None"]

Rental == {NoRental} \cup
    [renter : Account, owner : Account, amount : Nat, status : DepositStatus \ {"None"}]

TypeOK ==
    /\ rentals \in [RentalId -> Rental]
    /\ authorizedOperators \subseteq Account
    /\ owner \in Account \cup {NoAccount}
    /\ funds \in Int
    /\ paidIn \in [RentalId -> Nat]
    /\ paidOut \in [RentalId -> Nat]
    /\ received \in [Account -> Nat]
    /\ deposits \in 0..MaxDeposits

Init ==
    /\ rentals = [id \in RentalId |-> NoRental]
    /\ authorizedOperators = {}
    /\ owner = Deployer
    /\ funds = 0
    /\ paidIn = [id \in RentalId |-> 0]
    /\ paidOut = [id \in RentalId |-> 0]
    /\ received = [a \in Account |-> 0]
    /\ deposits = 0

-----------------------------------------------------------------------------

IsAuthorized(account) == account = owner \/ account \in authorizedOperators

SetAuthorizedOperator(sender, operator, allowed) ==
    /\ sender = owner
    /\ authorizedOperators' = IF allowed THEN authorizedOperators \cup {operator}
                                         ELSE authorizedOperators \ {operator}
    /\ UNCHANGED <<rentals, owner, ledger, deposits>>

\* transferOwnership and, to address(0), renounceOwnership of Ownable.
TransferOwnership(sender, newOwner) ==
    /\ sender = owner
    /\ owner' = newOwner
    /\ UNCHANGED <<rentals, authorizedOperators, ledger, deposits>>

\* Mutant: no "Active deposit exists" check.
Deposit_Overwrites(sender, id, payee, value) ==
    /\ payee # NoAccount
    /\ value > 0
    /\ deposits < MaxDeposits
    /\ rentals' = [rentals EXCEPT ![id] =
          [renter |-> sender, owner |-> payee, amount |-> value, status |-> "Deposited"]]
    /\ funds' = funds + value
    /\ paidIn' = [paidIn EXCEPT ![id] = @ + value]
    /\ deposits' = deposits + 1
    /\ UNCHANGED <<authorizedOperators, owner, paidOut, received>>

\* Mutant: no "Owner required" check.
Deposit_NoOwner(sender, id, payee, value) ==
    /\ value > 0
    /\ rentals[id].status # "Deposited"
    /\ deposits < MaxDeposits
    /\ rentals' = [rentals EXCEPT ![id] =
          [renter |-> sender, owner |-> payee, amount |-> value, status |-> "Deposited"]]
    /\ funds' = funds + value
    /\ paidIn' = [paidIn EXCEPT ![id] = @ + value]
    /\ deposits' = deposits + 1
    /\ UNCHANGED <<authorizedOperators, owner, paidOut, received>>

\* A rental whose deposit was released or refunded may be deposited again.
Deposit(sender, id, payee, value) ==
    /\ payee # NoAccount
    /\ value > 0
    /\ rentals[id].status # "Deposited"
    /\ deposits < MaxDeposits
    /\ rentals' = [rentals EXCEPT ![id] =
          [renter |-> sender, owner |-> payee, amount |-> value, status |-> "Deposited"]]
    /\ funds' = funds + value
    /\ paidIn' = [paidIn EXCEPT ![id] = @ + value]
    /\ deposits' = deposits + 1
    /\ UNCHANGED <<authorizedOperators, owner, paidOut, received>>

\* The amount of the rental sent to one account; the entry remembers how.
Settle(id, payee, status) ==
    /\ rentals' = [rentals EXCEPT ![id] =
          [renter |-> rentals[id].renter, owner |-> rentals[id].owner,
           amount |-> 0, status |-> status]]
    /\ funds' = funds - rentals[id].amount
    /\ paidOut' = [paidOut EXCEPT ![id] = @ + rentals[id].amount]
    /\ received' = [received EXCEPT ![payee] = @ + rentals[id].amount]
    /\ UNCHANGED <<authorizedOperators, owner, paidIn, deposits>>

ReleaseFunds(sender, id) ==
    /\ IsAuthorized(sender)
    /\ rentals[id].status = "Deposited"
    /\ Settle(id, rentals[id].owner, "Released")

\* Mutant: refund copied from releaseFunds with its payee.
Refund_ToOwner(sender, id) ==
    /\ IsAuthorized(sender)
    /\ rentals[id].status = "Deposited"
    /\ Settle(id, rentals[id].owner, "Refunded")

\* Mutant: the amount survives the refund.
Refund_KeepsAmount(sender, id) ==
    /\ IsAuthorized(sender)
    /\ rentals[id].status = "Deposited"
    /\ rentals' = [rentals EXCEPT ![id].status = "Refunded"]
    /\ funds' = funds - rentals[id].amount
    /\ paidOut' = [paidOut EXCEPT ![id] = @ + rentals[id].amount]
    /\ received' = [received EXCEPT ![rentals[id].renter] = @ + rentals[id].amount]
    /\ UNCHANGED <<authorizedOperators, owner, paidIn, deposits>>

Refund(sender, id) ==
    /\ IsAuthorized(sender)
    /\ rentals[id].status = "Deposited"
    /\ Settle(id, rentals[id].renter, "Refunded")

Next ==
    \E sender \in Account :
        \/ \E a \in Account, allowed \in BOOLEAN : SetAuthorizedOperator(sender, a, allowed)
        \/ \E a \in Account \cup {NoAccount} : TransferOwnership(sender, a)
        \/ \E id \in RentalId :
              \/ \E payee \in Account \cup {NoAccount}, value \in Value :
                    Deposit(sender, id, payee, value)
              \/ ReleaseFunds(sender, id)
              \/ Refund(sender, id)

Spec == Init /\ [][Next]_vars

-----------------------------------------------------------------------------

\* What a rental still has in escrow.
Held(id) == paidIn[id] - paidOut[id]

\* Each deposit is paid out once and whole: at every moment the amount the
\* contract shows for a rental is exactly what came in for it and has not
\* gone out, through any number of deposits, releases and refunds of the
\* same id, and only an active deposit shows one.
EntriesReconcile ==
    \A id \in RentalId :
        /\ rentals[id].amount = Held(id)
        /\ rentals[id].amount > 0 <=> rentals[id].status = "Deposited"

\* Money leaves only to the party the final status names: to the owner given
\* at the deposit when it is released, to the depositor when it is refunded,
\* whatever else operators, owners and later deposits have changed meanwhile.
PaysTheParty ==
    \A a \in Account : received'[a] # received[a] =>
        \E id \in RentalId :
            /\ rentals[id].status = "Deposited"
            /\ received'[a] = received[a] + rentals[id].amount
            /\ \/ rentals'[id].status = "Released" /\ a = rentals[id].owner
               \/ rentals'[id].status = "Refunded" /\ a = rentals[id].renter

PaysOnlyParties == [][PaysTheParty]_vars

=============================================================================
