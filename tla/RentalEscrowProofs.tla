------------------------- MODULE RentalEscrowProofs -------------------------
(***************************************************************************)
(* What contracts/RentalEscrow.sol guarantees for every set of accounts,   *)
(* rentals and deposits; and what the log that blockchain.service.ts keeps *)
(* of its transactions is worth, for any number of overlapping calls.      *)
(***************************************************************************)
EXTENDS ChainLog, SumTheorems

\* A step that settles a rental needs the entry to be what is held for it;
\* without EntriesReconcile a release could pay more than was deposited.
IInv == TypeOK /\ EntriesReconcile

\* A fresh contract satisfies the invariant.
LEMMA InitIInv == Init => IInv
    BY EscrowAssumption
       DEF Init, IInv, TypeOK, EntriesReconcile, Held, NoRental, Rental, DepositStatus

\* The functions that move no money keep the invariant.
LEMMA AdministrationIInv ==
    ASSUME IInv, NEW sender \in Account, NEW a \in Account \cup {NoAccount},
           \/ a \in Account /\ \E allowed \in BOOLEAN :
                 SetAuthorizedOperator(sender, a, allowed)
           \/ TransferOwnership(sender, a)
    PROVE  IInv'
    BY DEF SetAuthorizedOperator, TransferOwnership, IInv, TypeOK, EntriesReconcile,
           Held, ledger

\* deposit keeps the invariant: it replaces an entry that holds nothing.
LEMMA DepositIInv ==
    ASSUME IInv, NEW sender \in Account, NEW id \in RentalId,
           NEW payee \in Account \cup {NoAccount}, NEW value \in Value, Deposit(sender, id, payee, value)
    PROVE  IInv'
    <1> DEFINE entry == [renter |-> sender, owner |-> payee, amount |-> value,
                         status |-> "Deposited"]
    <1> USE DEF IInv
    <1>1. value \in Nat /\ value > 0 /\ entry \in Rental
        BY EscrowAssumption DEF Deposit, Rental, DepositStatus
    <1>2. /\ rentals' = [rentals EXCEPT ![id] = entry]
          /\ paidIn' = [paidIn EXCEPT ![id] = @ + value]
          /\ paidOut' = paidOut /\ received' = received
          /\ authorizedOperators' = authorizedOperators /\ owner' = owner
          /\ funds' = funds + value
          /\ deposits' = deposits + 1 /\ deposits < MaxDeposits
          /\ rentals[id].status # "Deposited"
        BY DEF Deposit
    <1>3. TypeOK'
        <2> HIDE DEF entry
        <2>1. funds' \in Int /\ deposits' \in 0..MaxDeposits
            BY <1>1, <1>2, EscrowAssumption DEF TypeOK
        <2>2. rentals' \in [RentalId -> Rental] /\ paidIn' \in [RentalId -> Nat]
            BY <1>1, <1>2 DEF TypeOK
        <2>3. QED
            BY <1>2, <2>1, <2>2 DEF TypeOK
    <1>4. rentals[id].amount = 0 /\ paidIn[id] = paidOut[id]
        <2>1. rentals[id].amount \in Nat /\ paidIn[id] \in Nat /\ paidOut[id] \in Nat
            BY DEF TypeOK, Rental, NoRental
        <2>2. QED
            BY <1>2, <2>1 DEF EntriesReconcile, Held
    <1>5. EntriesReconcile'
        <2> SUFFICES ASSUME NEW r \in RentalId
                     PROVE  /\ rentals'[r].amount = paidIn'[r] - paidOut'[r]
                            /\ rentals'[r].amount > 0 <=> rentals'[r].status = "Deposited"
            BY DEF EntriesReconcile, Held
        <2>1. CASE r = id
            BY <1>1, <1>2, <1>4, <2>1 DEF TypeOK
        <2>2. CASE r # id
            BY <1>2, <2>2 DEF TypeOK, EntriesReconcile, Held
        <2>3. QED
            BY <2>1, <2>2
    <1>6. QED
        BY <1>3, <1>5

\* Paying a rental out, to whichever party, keeps the invariant.
LEMMA SettleIInv ==
    ASSUME IInv, NEW id \in RentalId, NEW payee \in Account,
           NEW status \in {"Released", "Refunded"},
           rentals[id].status = "Deposited", Settle(id, payee, status)
    PROVE  IInv'
    <1> DEFINE amount == rentals[id].amount
               settled == [renter |-> rentals[id].renter, owner |-> rentals[id].owner,
                           amount |-> 0, status |-> status]
    <1> USE DEF IInv
    <1>1. amount \in Nat /\ rentals[id] \in Rental /\ settled \in Rental
        BY DEF TypeOK, Rental, NoRental, DepositStatus
    <1>2. /\ rentals' = [rentals EXCEPT ![id] = settled]
          /\ paidOut' = [paidOut EXCEPT ![id] = @ + amount]
          /\ received' = [received EXCEPT ![payee] = @ + amount]
          /\ funds' = funds - amount
          /\ UNCHANGED <<paidIn, authorizedOperators, owner, deposits>>
        BY DEF Settle
    <1>3. /\ rentals' \in [RentalId -> Rental]
          /\ rentals'[id].amount = 0 /\ rentals'[id].status = status
          /\ \A r \in RentalId \ {id} : rentals'[r] = rentals[r]
        BY <1>1, <1>2 DEF TypeOK, Rental
    <1>4. TypeOK'
        <2>1. paidOut' \in [RentalId -> Nat] /\ received' \in [Account -> Nat]
              /\ funds' \in Int
            BY <1>1, <1>2 DEF TypeOK
        <2>2. QED
            BY <1>2, <1>3, <2>1 DEF TypeOK
    <1>5. EntriesReconcile'
        <2> SUFFICES ASSUME NEW r \in RentalId
                     PROVE  /\ rentals'[r].amount = paidIn'[r] - paidOut'[r]
                            /\ rentals'[r].amount > 0 <=> rentals'[r].status = "Deposited"
            BY DEF EntriesReconcile, Held
        <2>1. paidIn[r] \in Nat /\ paidOut[r] \in Nat
            BY DEF TypeOK
        <2>2. CASE r = id
            BY <1>1, <1>2, <1>3, <2>1, <2>2 DEF TypeOK, EntriesReconcile, Held
        <2>3. CASE r # id
            BY <1>2, <1>3, <2>3 DEF TypeOK, EntriesReconcile, Held
        <2>4. QED
            BY <2>2, <2>3
    <1>6. QED
        BY <1>4, <1>5

\* Every external function of the contract keeps the invariant.
LEMMA NextIInv == IInv /\ [Next]_vars => IInv'
    <1> SUFFICES ASSUME IInv, [Next]_vars PROVE IInv'
        OBVIOUS
    <1>1. ASSUME NEW sender \in Account, NEW a \in Account, NEW allowed \in BOOLEAN,
                 SetAuthorizedOperator(sender, a, allowed)
          PROVE  IInv'
        BY <1>1, AdministrationIInv
    <1>2. ASSUME NEW sender \in Account, NEW a \in Account \cup {NoAccount},
                 TransferOwnership(sender, a)
          PROVE  IInv'
        BY <1>2, AdministrationIInv
    <1>3. ASSUME NEW sender \in Account, NEW id \in RentalId,
                 NEW payee \in Account \cup {NoAccount}, NEW value \in Value, Deposit(sender, id, payee, value)
          PROVE  IInv'
        BY <1>3, DepositIInv
    <1>4. ASSUME NEW sender \in Account, NEW id \in RentalId,
                 ReleaseFunds(sender, id) \/ Refund(sender, id)
          PROVE  IInv'
        <2>1. rentals[id].owner \in Account /\ rentals[id].renter \in Account
            BY <1>4 DEF ReleaseFunds, Refund, IInv, TypeOK, Rental, NoRental
        <2>2. QED
            BY <1>4, <2>1, SettleIInv DEF ReleaseFunds, Refund
    <1>5. CASE UNCHANGED vars
        BY <1>5 DEF vars, ledger, IInv, TypeOK, EntriesReconcile, Held
    <1>6. QED
        BY <1>1, <1>2, <1>3, <1>4, <1>5 DEF Next

\* The invariant holds in every reachable state of the contract.
THEOREM EscrowInvariant == Spec => []IInv
    BY InitIInv, NextIInv, PTL DEF Spec

-----------------------------------------------------------------------------

\* Statuses, parties and amounts keep their types through every transaction.
THEOREM TypeCorrect == Spec => []TypeOK
    BY EscrowInvariant, PTL DEF IInv

\* What the contract shows for a rental is what it still holds for it.
THEOREM EntriesAlwaysReconcile == Spec => []EntriesReconcile
    BY EscrowInvariant, PTL DEF IInv

\* A step that pays an account settles one deposited rental in its favour.
LEMMA StepPaysTheParty == IInv /\ [Next]_vars => [PaysTheParty]_vars
    <1> SUFFICES ASSUME IInv, Next, NEW a \in Account,
                        received'[a] # received[a]
                 PROVE  \E id \in RentalId :
                           /\ rentals[id].status = "Deposited"
                           /\ received'[a] = received[a] + rentals[id].amount
                           /\ \/ rentals'[id].status = "Released" /\ a = rentals[id].owner
                              \/ rentals'[id].status = "Refunded" /\ a = rentals[id].renter
        BY DEF PaysTheParty
    <1>1. PICK sender \in Account, id \in RentalId :
              ReleaseFunds(sender, id) \/ Refund(sender, id)
        BY DEF Next, SetAuthorizedOperator, TransferOwnership, Deposit, ledger
    <1>2. PICK payee \in Account, status \in {"Released", "Refunded"} :
              /\ Settle(id, payee, status)
              /\ rentals[id].status = "Deposited"
              /\ status = "Released" => payee = rentals[id].owner
              /\ status = "Refunded" => payee = rentals[id].renter
        BY <1>1 DEF ReleaseFunds, Refund, IInv, TypeOK, Rental, NoRental
    <1>3. /\ received' = [received EXCEPT ![payee] = @ + rentals[id].amount]
          /\ received \in [Account -> Nat]
          /\ rentals'[id].status = status
        BY <1>2 DEF Settle, IInv, TypeOK
    <1>4. a = payee /\ received'[a] = received[a] + rentals[id].amount
        BY <1>3
    <1>5. QED
        BY <1>2, <1>3, <1>4

\* The contract never pays an account that is not the party of a deposit.
THEOREM OnlyPartiesArePaid == Spec => PaysOnlyParties
    BY EscrowInvariant, StepPaysTheParty, PTL DEF Spec, PaysOnlyParties

-----------------------------------------------------------------------------
\* The log of blockchain.service.ts.

Settling == {"release", "refund"}

\* A call that has sent its transaction.
DepositCall ==
    [at : {"sent", "waiting", "over"}, type : {"deposit"}, admin : BOOLEAN, id : RentalId,
     sender : Account, payee : Account, value : Value]
SettleCall ==
    [at : {"sent", "waiting", "over"}, type : Settling, admin : BOOLEAN, id : RentalId,
     sender : Account, payee : {NoAccount}, value : {0}]
SentCall == DepositCall \cup SettleCall

LogTypeOK ==
    /\ call \in [Call -> SentCall \cup {NoCall}]
    /\ row \in [Call -> Status]
    /\ tx \in [Call -> {"none", "sent", "executed", "reverted"}]
    /\ apart \in BOOLEAN

\* The calls for rental id whose transaction took place, and what they sent.
Executed(id, types) ==
    {c \in Call : tx[c] = "executed" /\ call[c].id = id /\ call[c].type \in types}
Amounts == [c \in Call |-> call[c].value]
Sent(id) == SumOver(Amounts, Executed(id, {"deposit"}))

\* Only what took place is confirmed; and unless something happened that no
\* row can tell of, a call that is over has told what became of it.
RowsInv ==
    \A c \in Call :
        /\ call[c].at = "new" <=> tx[c] = "none"
        /\ row[c] = "confirmed" => tx[c] = "executed"
        /\ ~apart /\ call[c].at = "over" =>
              tx[c] # "sent" /\ (tx[c] = "executed" => row[c] = "confirmed")

\* The contract received what the service's deposits sent, and more only
\* from others; it paid out at least as often as the service settled; and a
\* rental is deposited while the service's deposits are one ahead.
CountsInv ==
    \A id \in RentalId :
        /\ Sent(id) <= paidIn[id]
        /\ Cardinality(Executed(id, Settling)) <= paidOut[id]
        /\ ~apart =>
              /\ Sent(id) = paidIn[id]
              /\ Cardinality(Executed(id, {"deposit"})) =
                    IF rentals[id].status = "Deposited"
                    THEN Cardinality(Executed(id, Settling)) + 1
                    ELSE Cardinality(Executed(id, Settling))

LogInv == LogTypeOK /\ RowsInv /\ CountsInv

\* The fields of calls.
LEMMA SentCallType ==
    /\ \A c \in SentCall :
          /\ c.at \in {"sent", "waiting", "over"} /\ c.type \in Type /\ c.id \in RentalId
          /\ c.sender \in Account /\ c.payee \in Account \cup {NoAccount} /\ c.value \in Nat
          /\ c.type = "deposit" => c.value \in Value
    /\ NoCall.at = "new" /\ NoCall.type = "none" /\ NoCall.value = 0
    <1>1. Value \subseteq Nat
        BY EscrowAssumption
    <1>2. ASSUME NEW c \in DepositCall
          PROVE  /\ c.at \in {"sent", "waiting", "over"} /\ c.type = "deposit" /\ c.id \in RentalId
                 /\ c.sender \in Account /\ c.payee \in Account /\ c.value \in Value
        BY <1>2 DEF DepositCall
    <1>3. ASSUME NEW c \in SettleCall
          PROVE  /\ c.at \in {"sent", "waiting", "over"} /\ c.type \in {"release", "refund"}
                 /\ c.id \in RentalId /\ c.sender \in Account /\ c.payee = NoAccount /\ c.value = 0
        BY <1>3 DEF SettleCall, Settling
    <1>4. NoCall.at = "new" /\ NoCall.type = "none" /\ NoCall.value = 0
        BY DEF NoCall
    <1>5. ASSUME NEW c \in SentCall
          PROVE  /\ c.at \in {"sent", "waiting", "over"} /\ c.type \in Type /\ c.id \in RentalId
                 /\ c.sender \in Account /\ c.payee \in Account \cup {NoAccount} /\ c.value \in Nat
                 /\ c.type = "deposit" => c.value \in Value
        <2>1. CASE c \in DepositCall
            BY <1>1, <1>2, <2>1 DEF Type
        <2>2. CASE c \in SettleCall
            <3>1. c.type \in {"release", "refund"} /\ c.payee = NoAccount /\ c.value = 0
                BY <1>3, <2>2
            <3>2. c.at \in {"sent", "waiting", "over"} /\ c.id \in RentalId /\ c.sender \in Account
                BY <1>3, <2>2
            <3>. QED
                BY <3>1, <3>2 DEF Type
        <2>. QED
            BY <2>1, <2>2 DEF SentCall
    <1>. QED
        BY <1>4, <1>5

\* Moving a call on changes nothing but where it stands.
LEMMA CallMoves ==
    ASSUME NEW c \in SentCall, NEW at \in {"sent", "waiting", "over"}
    PROVE  /\ [c EXCEPT !.at = at] \in SentCall
           /\ [c EXCEPT !.at = at].at = at
           /\ [c EXCEPT !.at = at].id = c.id
           /\ [c EXCEPT !.at = at].type = c.type
           /\ [c EXCEPT !.at = at].value = c.value
    <1>1. CASE c \in DepositCall
        BY <1>1 DEF SentCall, DepositCall
    <1>2. CASE c \in SettleCall
        BY <1>2 DEF SentCall, SettleCall
    <1>. QED
        BY <1>1, <1>2 DEF SentCall

\* Sets of calls are finite, so they have sizes and sums.
LEMMA ExecutedType ==
    ASSUME LogTypeOK, NEW id, NEW types
    PROVE  /\ Executed(id, types) \subseteq Call /\ IsFiniteSet(Executed(id, types))
           /\ Cardinality(Executed(id, types)) \in Nat
           /\ \A c \in Call : Amounts[c] \in Nat
           /\ Sent(id) \in Nat
    <1>1. /\ \A S \in SUBSET Call : IsFiniteSet(S) /\ Cardinality(S) \in Nat
          /\ \A t : Executed(id, t) \in SUBSET Call
        BY FS_Subset, FS_CardinalityType, ChainLogAssumption DEF Executed
    <1>2. \A c \in Call : Amounts[c] \in Nat
        BY SentCallType DEF LogTypeOK, Amounts
    <1>3. Sent(id) \in Nat
        <2>1. SumOver(Amounts, Executed(id, {"deposit"})) \in Nat
            BY <1>1, <1>2, ChainLogAssumption, SumNat
        <2>. QED
            BY <2>1 DEF Sent
    <1>. QED
        BY <1>1, <1>2, <1>3

\* A step in which no transaction takes place leaves the sets and sums.
LEMMA NothingExecuted ==
    ASSUME LogTypeOK, LogTypeOK',
           \A c \in Call : /\ tx'[c] = "executed" <=> tx[c] = "executed"
                           /\ tx[c] = "executed" => /\ call'[c].id = call[c].id
                                                    /\ call'[c].type = call[c].type
                                                    /\ call'[c].value = call[c].value
    PROVE  \A id \in RentalId :
              /\ \A types : Executed(id, types)' = Executed(id, types)
              /\ Sent(id)' = Sent(id)
    <1> TAKE id \in RentalId
    <1>1. \A types : Executed(id, types)' = Executed(id, types)
        BY DEF Executed
    <1> DEFINE E == Executed(id, {"deposit"})
    <1>2. \A c \in E : Amounts[c] = Amounts'[c]
        BY DEF Executed, Amounts
    <1>3. IsFiniteSet(E)
        BY ExecutedType
    <1>4. SumOver(Amounts, E) = SumOver(Amounts', E)
        <2> HIDE DEF E
        <2>. QED
            BY <1>2, <1>3, SumAgree
    <1>. QED
        BY <1>1, <1>4 DEF Sent

\* The sums and sizes that stay the same keep what is said of them.
LEMMA SameCounts ==
    ASSUME LogTypeOK, LogTypeOK', CountsInv, UNCHANGED <<rentals, paidIn, paidOut>>,
           apart => apart',
           \A c \in Call : /\ tx'[c] = "executed" <=> tx[c] = "executed"
                           /\ tx[c] = "executed" => /\ call'[c].id = call[c].id
                                                    /\ call'[c].type = call[c].type
                                                    /\ call'[c].value = call[c].value
    PROVE  CountsInv'
    <1>1. \A id \in RentalId : Sent(id)' = Sent(id) /\ \A types : Executed(id, types)' = Executed(id, types)
        BY NothingExecuted
    <1> SUFFICES ASSUME NEW id \in RentalId
                 PROVE  /\ Sent(id)' <= paidIn'[id]
                        /\ Cardinality(Executed(id, Settling)') <= paidOut'[id]
                        /\ ~apart' =>
                              /\ Sent(id)' = paidIn'[id]
                              /\ Cardinality(Executed(id, {"deposit"})') =
                                    IF rentals'[id].status = "Deposited"
                                    THEN Cardinality(Executed(id, Settling)') + 1
                                    ELSE Cardinality(Executed(id, Settling)')
        BY DEF CountsInv
    <1>2. /\ Sent(id)' = Sent(id)
          /\ Executed(id, Settling)' = Executed(id, Settling)
          /\ Executed(id, {"deposit"})' = Executed(id, {"deposit"})
        BY <1>1
    <1>. QED
        BY <1>2 DEF CountsInv

\* A call sends its transaction.
LEMMA SendInv ==
    ASSUME LogInv, NEW c \in Call, NEW t \in SentCall, t.at = "sent", Send(c, t)
    PROVE  LogInv'
    <1>1. /\ call[c].at = "new" /\ tx[c] = "none" /\ row[c] # "confirmed"
          /\ call' = [call EXCEPT ![c] = t] /\ tx' = [tx EXCEPT ![c] = "sent"]
          /\ row' = row /\ apart' = apart
        BY DEF Send, LogInv, RowsInv
    <1>2. UNCHANGED <<rentals, paidIn, paidOut>>
        BY DEF Send, vars, ledger
    <1>3. LogTypeOK'
        BY <1>1 DEF LogInv, LogTypeOK
    <1>4. \A d \in Call : d # c => call'[d] = call[d] /\ tx'[d] = tx[d]
        BY <1>1 DEF LogInv, LogTypeOK
    <1>5. call'[c] = t /\ tx'[c] = "sent"
        BY <1>1 DEF LogInv, LogTypeOK
    <1>6. RowsInv'
        BY <1>1, <1>4, <1>5 DEF LogInv, RowsInv
    <1>7. CountsInv'
        BY <1>1, <1>2, <1>3, <1>4, <1>5, SameCounts DEF LogInv
    <1>. QED
        BY <1>3, <1>6, <1>7 DEF LogInv

\* Every request of the service sends a well-typed transaction.
LEMMA RequestInv ==
    ASSUME LogInv, NEW c \in Call, NEW id \in RentalId, Request(c, id)
    PROVE  LogInv'
    <1> DEFINE Asks(type, admin, sender, payee, value) ==
            [at |-> "sent", type |-> type, admin |-> admin, id |-> id, sender |-> sender,
             payee |-> payee, value |-> value]
    <1>1. ASSUME NEW key \in Account, NEW payee \in Account, NEW value \in Ether, NEW admin \in BOOLEAN
          PROVE  Asks("deposit", admin, key, payee, value) \in SentCall
        BY ChainLogAssumption DEF SentCall, DepositCall
    <1>2. ASSUME NEW key \in Account, NEW type \in Settling
          PROVE  Asks(type, FALSE, key, NoAccount, 0) \in SentCall
        BY DEF SentCall, SettleCall
    <1>3. AdminKey \in Account
        BY ChainLogAssumption
    <1>4. \E t \in SentCall : t.at = "sent" /\ Send(c, t)
        <2>1. ASSUME NEW key \in Account, NEW payee \in Account, NEW value \in Ether,
                     SendDeposit(c, key, id, payee, value)
              PROVE  \E t \in SentCall : t.at = "sent" /\ Send(c, t)
            <3>1. Asks("deposit", FALSE, key, payee, value) \in SentCall
                BY <1>1, <1>2, <1>3
            <3>2. Send(c, Asks("deposit", FALSE, key, payee, value))
                BY <2>1 DEF SendDeposit
            <3>. QED
                BY <3>1, <3>2
        <2>2. ASSUME NEW key \in Account, NEW type \in Settling, SendSettle(c, type, key, id)
              PROVE  \E t \in SentCall : t.at = "sent" /\ Send(c, t)
            <3>1. Asks(type, FALSE, key, NoAccount, 0) \in SentCall
                BY <1>1, <1>2, <1>3
            <3>2. Send(c, Asks(type, FALSE, key, NoAccount, 0))
                BY <2>2 DEF SendSettle
            <3>. QED
                BY <3>1, <3>2
        <2>3. ASSUME NEW payee \in Account, NEW value \in Ether,
                     AdminDepositForRental(c, id, payee, value)
              PROVE  \E t \in SentCall : t.at = "sent" /\ Send(c, t)
            <3>1. Asks("deposit", TRUE, AdminKey, payee, value) \in SentCall
                BY <1>1, <1>2, <1>3
            <3>2. Send(c, Asks("deposit", TRUE, AdminKey, payee, value))
                BY <2>3 DEF AdminDepositForRental
            <3>. QED
                BY <3>1, <3>2
        <2>4. CASE AdminReleaseFundsForRental(c, id) \/ AdminRefundForRental(c, id)
            BY <1>3, <2>2, <2>4
            DEF AdminReleaseFundsForRental, AdminRefundForRental, Settling
        <2>. QED
            BY <2>1, <2>2, <2>3, <2>4 DEF Request, Settling
    <1>. QED
        BY <1>4, SendInv

\* A call moves on and says so in its row, while the chain stands still.
LEMMA TellsInv ==
    ASSUME LogInv, NEW c \in Call, call[c].at # "new", UNCHANGED <<vars, tx>>,
           NEW at \in {"sent", "waiting", "over"}, NEW status \in Status,
           call' = [call EXCEPT ![c].at = at], row' = [row EXCEPT ![c] = status],
           apart' \in BOOLEAN, apart => apart', status = "confirmed" => tx[c] = "executed",
           ~apart' /\ at = "over" => tx[c] # "sent" /\ (tx[c] = "executed" => status = "confirmed")
    PROVE  LogInv'
    <1>1. call[c] \in SentCall
        BY SentCallType DEF LogInv, LogTypeOK
    <1> DEFINE moved == [call[c] EXCEPT !.at = at]
    <1>2. /\ moved \in SentCall /\ moved.at = at /\ moved.id = call[c].id
          /\ moved.type = call[c].type /\ moved.value = call[c].value
        BY <1>1, CallMoves
    <1>3. call' = [call EXCEPT ![c] = moved]
        BY DEF LogInv, LogTypeOK
    <1> HIDE DEF moved
    <1>4. LogTypeOK'
        BY <1>2, <1>3 DEF LogInv, LogTypeOK
    <1>5. /\ call'[c] = moved /\ row'[c] = status
          /\ \A d \in Call : d # c => call'[d] = call[d] /\ row'[d] = row[d]
        BY <1>3 DEF LogInv, LogTypeOK
    <1>6. RowsInv'
        <2> SUFFICES ASSUME NEW d \in Call
                     PROVE  /\ call'[d].at = "new" <=> tx[d] = "none"
                            /\ row'[d] = "confirmed" => tx[d] = "executed"
                            /\ ~apart' /\ call'[d].at = "over" =>
                                  tx[d] # "sent" /\ (tx[d] = "executed" => row'[d] = "confirmed")
            BY DEF RowsInv
        <2>1. CASE d = c
            BY <1>2, <1>5, <2>1 DEF LogInv, RowsInv
        <2>2. CASE d # c
            BY <1>5, <2>2 DEF LogInv, RowsInv, LogTypeOK
        <2>. QED
            BY <2>1, <2>2
    <1>7. UNCHANGED <<rentals, paidIn, paidOut>>
        BY DEF vars, ledger
    <1>8. CountsInv'
        BY <1>2, <1>4, <1>5, <1>7, SameCounts DEF LogInv
    <1>. QED
        BY <1>4, <1>6, <1>8 DEF LogInv

\* The service's calls, up to what the chain decides.
LEMMA CallStepInv ==
    ASSUME LogInv, NEW c \in Call,
           \/ RecordPendingTransaction(c) \/ RecordFails(c)
           \/ MarkConfirmed(c) \/ MarkFailed(c) \/ LoseAnswer(c)
    PROVE  LogInv'
    <1> USE DEF LogInv, LogTypeOK
    <1>2. CASE RecordPendingTransaction(c)
        <2>1. call[c].at # "new" /\ UNCHANGED <<vars, tx, apart>>
              /\ call' = [call EXCEPT ![c].at = "waiting"] /\ row' = [row EXCEPT ![c] = "pending"]
            BY <1>2 DEF RecordPendingTransaction
        <2>2. "pending" \in Status
            BY DEF Status
        <2>. QED
            BY <2>1, <2>2, TellsInv
    <1>3. CASE RecordFails(c)
        <2>1. call[c].at # "new" /\ call[c].at # "over" /\ UNCHANGED <<vars, tx>> /\ apart' = TRUE
              /\ call' = [call EXCEPT ![c].at = "over"] /\ row' = [row EXCEPT ![c] = row[c]]
            BY <1>3 DEF RecordFails
        <2>2. row[c] \in Status /\ (row[c] = "confirmed" => tx[c] = "executed")
            BY DEF RowsInv
        <2>. QED
            BY <2>1, <2>2, TellsInv
    <1>4. CASE MarkConfirmed(c)
        <2>1. call[c].at # "new" /\ UNCHANGED <<vars, tx, apart>> /\ tx[c] = "executed"
              /\ call' = [call EXCEPT ![c].at = "over"] /\ row' = [row EXCEPT ![c] = "confirmed"]
            BY <1>4 DEF MarkConfirmed, Marks
        <2>2. "confirmed" \in Status
            BY DEF Status
        <2>. QED
            BY <2>1, <2>2, TellsInv
    <1>5. CASE MarkFailed(c)
        <2>1. PICK status \in {"pending", "failed"} :
                 /\ call[c].at # "new" /\ UNCHANGED <<vars, tx, apart>> /\ tx[c] = "reverted"
                 /\ call' = [call EXCEPT ![c].at = "over"] /\ row' = [row EXCEPT ![c] = status]
            BY <1>5 DEF MarkFailed, Marks
        <2>2. status \in Status /\ status # "confirmed"
            BY DEF Status
        <2>. QED
            BY <2>1, <2>2, TellsInv
    <1>6. CASE LoseAnswer(c)
        <2>1. PICK status \in {"pending", "failed"} :
                 /\ call[c].at # "new" /\ UNCHANGED <<vars, tx>> /\ apart' = TRUE
                 /\ call' = [call EXCEPT ![c].at = "over"] /\ row' = [row EXCEPT ![c] = status]
            BY <1>6 DEF LoseAnswer, Marks
        <2>2. status \in Status /\ status # "confirmed"
            BY DEF Status
        <2>. QED
            BY <2>1, <2>2, TellsInv
    <1>. QED
        BY <1>2, <1>3, <1>4, <1>5, <1>6

\* The process stops: no transaction takes place, and nobody will tell.
LEMMA RestartInv ==
    ASSUME LogInv, Restart
    PROVE  LogInv'
    <1> DEFINE over(c) == [call[c] EXCEPT !.at = "over"]
    <1>1. /\ call' = [c \in Call |-> IF call[c].at = "new" THEN NoCall ELSE over(c)]
          /\ row' = row /\ tx' = tx /\ apart' = TRUE /\ UNCHANGED <<rentals, paidIn, paidOut>>
        BY DEF Restart, vars, ledger
    <1>2. ASSUME NEW c \in Call, call[c].at # "new"
          PROVE  /\ over(c) \in SentCall /\ over(c).at = "over" /\ over(c).id = call[c].id
                 /\ over(c).type = call[c].type /\ over(c).value = call[c].value
        <2>1. call[c] \in SentCall
            BY <1>2, SentCallType DEF LogInv, LogTypeOK
        <2>. QED
            BY <2>1, CallMoves
    <1> HIDE DEF over
    <1>3. \A c \in Call : call'[c] = IF call[c].at = "new" THEN NoCall ELSE over(c)
        BY <1>1
    <1>4. LogTypeOK'
        BY <1>1, <1>2 DEF LogInv, LogTypeOK
    <1>5. RowsInv'
        BY <1>1, <1>2, <1>3, SentCallType DEF LogInv, RowsInv
    <1>6. \A c \in Call : tx[c] = "executed" => call[c].at # "new"
        BY DEF LogInv, RowsInv
    <1>7. CountsInv'
        BY <1>1, <1>2, <1>3, <1>4, <1>6, SameCounts DEF LogInv
    <1>. QED
        BY <1>4, <1>5, <1>7 DEF LogInv

\* A transaction reverts or is replaced.
LEMMA RevertsInv ==
    ASSUME LogInv, NEW c \in Call, tx[c] = "sent", tx' = [tx EXCEPT ![c] = "reverted"],
           UNCHANGED <<vars, call, row, apart>>
    PROVE  LogInv'
    <1>1. UNCHANGED <<rentals, paidIn, paidOut>>
        BY DEF vars, ledger
    <1>2. tx'[c] = "reverted" /\ \A d \in Call : d # c => tx'[d] = tx[d]
        BY DEF LogInv, LogTypeOK
    <1>3. LogTypeOK'
        BY DEF LogInv, LogTypeOK
    <1>4. RowsInv'
        BY <1>2 DEF LogInv, RowsInv
    <1>5. CountsInv'
        BY <1>1, <1>2, <1>3, SameCounts DEF LogInv
    <1>. QED
        BY <1>3, <1>4, <1>5 DEF LogInv

\* What a deposit does to the tables of the contract.
LEMMA DepositEffect ==
    ASSUME IInv, NEW sender, NEW id \in RentalId, NEW payee, NEW value \in Nat,
           Deposit(sender, id, payee, value)
    PROVE  /\ rentals[id].status # "Deposited" /\ UNCHANGED paidOut
           /\ \A r \in RentalId :
                 /\ paidIn'[r] = IF r = id THEN paidIn[r] + value ELSE paidIn[r]
                 /\ rentals'[r].status = IF r = id THEN "Deposited" ELSE rentals[r].status
    <1> DEFINE entry == [renter |-> sender, owner |-> payee, amount |-> value, status |-> "Deposited"]
    <1>1. /\ rentals' = [rentals EXCEPT ![id] = entry] /\ entry.status = "Deposited"
          /\ paidIn' = [paidIn EXCEPT ![id] = @ + value] /\ paidOut' = paidOut
          /\ rentals[id].status # "Deposited"
        BY DEF Deposit
    <1> HIDE DEF entry
    <1>. QED
        BY <1>1 DEF IInv, TypeOK

\* What a release or a refund does: something is paid out.
LEMMA SettleEffect ==
    ASSUME IInv, NEW sender, NEW id \in RentalId, ReleaseFunds(sender, id) \/ Refund(sender, id)
    PROVE  /\ rentals[id].status = "Deposited" /\ UNCHANGED paidIn
           /\ \A r \in RentalId :
                 /\ paidOut'[r] \in Nat /\ paidOut'[r] >= IF r = id THEN paidOut[r] + 1 ELSE paidOut[r]
                 /\ rentals'[r].status = "Deposited" <=> r # id /\ rentals[r].status = "Deposited"
    <1>1. PICK payee, status : /\ status \in {"Released", "Refunded"}
                              /\ rentals[id].status = "Deposited" /\ Settle(id, payee, status)
        <2>1. CASE ReleaseFunds(sender, id)
            BY <2>1 DEF ReleaseFunds
        <2>2. CASE Refund(sender, id)
            BY <2>2 DEF Refund
        <2>. QED
            BY <2>1, <2>2
    <1> DEFINE amount == rentals[id].amount
               entry == [renter |-> rentals[id].renter, owner |-> rentals[id].owner,
                         amount |-> 0, status |-> status]
    <1>2. /\ rentals' = [rentals EXCEPT ![id] = entry] /\ entry.status = status
          /\ paidOut' = [paidOut EXCEPT ![id] = @ + amount] /\ paidIn' = paidIn
        BY <1>1 DEF Settle
    <1>3. amount \in Nat /\ amount > 0
        BY <1>1 DEF IInv, TypeOK, EntriesReconcile, Rental, NoRental
    <1> HIDE DEF entry, amount
    <1>4. /\ rentals'[id] = entry /\ \A r \in RentalId : r # id => rentals'[r] = rentals[r]
          /\ \A r \in RentalId : paidOut[r] \in Nat
          /\ \A r \in RentalId : paidOut'[r] = IF r = id THEN paidOut[r] + amount ELSE paidOut[r]
        BY <1>2 DEF IInv, TypeOK
    <1>5. \A r \in RentalId : rentals'[r].status = "Deposited" <=> r # id /\ rentals[r].status = "Deposited"
        BY <1>1, <1>2, <1>4
    <1>. QED
        BY <1>1, <1>2, <1>3, <1>4, <1>5

\* Whoever calls the contract, what came in and went out only grows.
LEMMA ChainGrows ==
    ASSUME IInv, Next, NEW r \in RentalId
    PROVE  paidIn'[r] >= paidIn[r] /\ paidOut'[r] >= paidOut[r]
    <1>1. paidIn[r] \in Nat /\ paidOut[r] \in Nat
        BY DEF IInv, TypeOK
    <1>2. ASSUME NEW sender \in Account, NEW id \in RentalId, NEW payee, NEW value \in Value,
                 Deposit(sender, id, payee, value)
          PROVE  paidIn'[r] >= paidIn[r] /\ paidOut'[r] >= paidOut[r]
        <2>1. value \in Nat
            BY EscrowAssumption
        <2>2. /\ paidOut' = paidOut
              /\ paidIn'[r] = IF r = id THEN paidIn[r] + value ELSE paidIn[r]
            BY <1>2, <2>1, DepositEffect
        <2>. QED
            BY <1>1, <2>1, <2>2
    <1>3. ASSUME NEW sender \in Account, NEW id \in RentalId,
                 ReleaseFunds(sender, id) \/ Refund(sender, id)
          PROVE  paidIn'[r] >= paidIn[r] /\ paidOut'[r] >= paidOut[r]
        <2>1. paidOut'[r] \in Nat /\ paidOut'[r] >= (IF r = id THEN paidOut[r] + 1 ELSE paidOut[r])
              /\ paidIn' = paidIn
            BY <1>3, SettleEffect
        <2>. QED
            BY <1>1, <2>1
    <1>4. ASSUME NEW sender \in Account, NEW a, NEW allowed,
                 SetAuthorizedOperator(sender, a, allowed) \/ TransferOwnership(sender, a)
          PROVE  paidIn'[r] >= paidIn[r] /\ paidOut'[r] >= paidOut[r]
        BY <1>1, <1>4 DEF SetAuthorizedOperator, TransferOwnership, ledger
    <1>. QED
        BY <1>2, <1>3, <1>4 DEF Next

\* Other clients call the contract: it has at least what it had.
LEMMA OthersInv ==
    ASSUME IInv, IInv', LogInv, Others
    PROVE  LogInv'
    <1>1. Next /\ apart' = TRUE /\ UNCHANGED <<call, row, tx>>
        BY DEF Others
    <1>2. LogTypeOK' /\ RowsInv'
        BY <1>1 DEF LogInv, LogTypeOK, RowsInv
    <1>3. ASSUME NEW id \in RentalId
          PROVE  /\ Sent(id)' <= paidIn'[id]
                 /\ Cardinality(Executed(id, Settling)') <= paidOut'[id]
        <2>1. /\ Sent(id)' = Sent(id)
              /\ Executed(id, Settling)' = Executed(id, Settling)
            BY <1>1, <1>2, NothingExecuted DEF LogInv
        <2>2. paidIn'[id] >= paidIn[id] /\ paidOut'[id] >= paidOut[id]
            BY <1>1, ChainGrows
        <2>3. /\ paidIn[id] \in Nat /\ paidOut[id] \in Nat
              /\ paidIn'[id] \in Nat /\ paidOut'[id] \in Nat
              /\ Sent(id) \in Nat /\ Cardinality(Executed(id, Settling)) \in Nat
            BY ExecutedType DEF IInv, TypeOK, LogInv
        <2>4. Sent(id) <= paidIn[id] /\ Cardinality(Executed(id, Settling)) <= paidOut[id]
            BY DEF LogInv, CountsInv
        <2>. QED
            BY <2>1, <2>2, <2>3, <2>4
    <1>4. CountsInv'
        BY <1>1, <1>3 DEF CountsInv
    <1>. QED
        BY <1>2, <1>4 DEF LogInv

\* One more transaction has taken place.
LEMMA OneMore ==
    ASSUME LogInv, LogTypeOK', NEW c \in Call, tx[c] = "sent", tx' = [tx EXCEPT ![c] = "executed"],
           UNCHANGED call, NEW id \in RentalId
    PROVE  /\ \A types : Cardinality(Executed(id, types)') =
                 IF call[c].id = id /\ call[c].type \in types
                 THEN Cardinality(Executed(id, types)) + 1 ELSE Cardinality(Executed(id, types))
           /\ Sent(id)' = IF call[c].id = id /\ call[c].type = "deposit"
                          THEN Sent(id) + call[c].value ELSE Sent(id)
    <1>1. tx'[c] = "executed" /\ \A d \in Call : d # c => tx'[d] = tx[d]
        BY DEF LogInv, LogTypeOK
    <1>2. ASSUME NEW types
          PROVE  /\ c \notin Executed(id, types)
                 /\ Executed(id, types)' = IF call[c].id = id /\ call[c].type \in types
                        THEN Executed(id, types) \cup {c} ELSE Executed(id, types)
        <2>1. CASE call[c].id = id /\ call[c].type \in types
            BY <1>1, <2>1 DEF Executed
        <2>2. CASE ~(call[c].id = id /\ call[c].type \in types)
            BY <1>1, <2>2 DEF Executed
        <2>. QED
            BY <2>1, <2>2
    <1>3. ASSUME NEW types
          PROVE  Cardinality(Executed(id, types)') =
                 IF call[c].id = id /\ call[c].type \in types
                 THEN Cardinality(Executed(id, types)) + 1 ELSE Cardinality(Executed(id, types))
        <2>1. IsFiniteSet(Executed(id, types))
            BY ExecutedType DEF LogInv
        <2>2. CASE call[c].id = id /\ call[c].type \in types
            <3>1. Executed(id, types)' = Executed(id, types) \cup {c} /\ c \notin Executed(id, types)
                BY <1>2, <2>2
            <3>2. Cardinality(Executed(id, types) \cup {c}) = Cardinality(Executed(id, types)) + 1
                BY <2>1, <3>1, FS_AddElement
            <3>. QED
                BY <2>2, <3>1, <3>2
        <2>3. CASE ~(call[c].id = id /\ call[c].type \in types)
            BY <1>2, <2>3
        <2>. QED
            BY <2>2, <2>3
    <1> DEFINE E == Executed(id, {"deposit"})
    <1>4. Sent(id) = SumOver(Amounts, E) /\ Sent(id)' = SumOver(Amounts, Executed(id, {"deposit"})')
        BY DEF Sent, Amounts
    <1>5. ASSUME call[c].id = id, call[c].type = "deposit"
          PROVE  Sent(id)' = Sent(id) + call[c].value
        <2>1. Executed(id, {"deposit"})' = E \cup {c} /\ c \notin E
            BY <1>2, <1>5
        <2>2. /\ IsFiniteSet(E \cup {c}) /\ E \subseteq Call
              /\ \A d \in E \cup {c} : Amounts[d] \in Int
            BY ExecutedType, FS_AddElement DEF LogInv
        <2>3. SumOver(Amounts, E) \in Int
            BY <1>4, ExecutedType DEF LogInv
        <2> HIDE DEF E
        <2>4. SumOver(Amounts, E \cup {c}) = Amounts[c] + SumOver(Amounts, (E \cup {c}) \ {c})
            BY <2>2, SumTakeOut
        <2>5. (E \cup {c}) \ {c} = E
            BY <2>1
        <2>6. Amounts[c] = call[c].value /\ Amounts[c] \in Int
            BY <2>2 DEF Amounts
        <2>7. SumOver(Amounts, E \cup {c}) = Amounts[c] + SumOver(Amounts, E)
            BY <2>4, <2>5
        <2>8. SumOver(Amounts, E \cup {c}) = SumOver(Amounts, E) + call[c].value
            BY <2>3, <2>6, <2>7
        <2>9. Sent(id)' = SumOver(Amounts, E \cup {c})
            BY <1>4, <2>1
        <2>. QED
            BY <1>4, <2>8, <2>9
    <1>6. ASSUME ~(call[c].id = id /\ call[c].type = "deposit")
          PROVE  Sent(id)' = Sent(id)
        <2>1. Executed(id, {"deposit"})' = E
            BY <1>2, <1>6
        <2> HIDE DEF E
        <2>. QED
            BY <1>4, <2>1
    <1>. QED
        BY <1>3, <1>5, <1>6

\* The chain executes a transaction of the service.
LEMMA ExecutesInv ==
    ASSUME IInv, IInv', LogInv, NEW c \in Call, tx[c] = "sent", Executes(call[c]),
           tx' = [tx EXCEPT ![c] = "executed"], UNCHANGED <<call, row, apart>>
    PROVE  LogInv'
    <1> DEFINE t == call[c]
    <1>1. t \in SentCall /\ t.type \in Type /\ t.id \in RentalId /\ t.value \in Nat
        BY SentCallType DEF LogInv, LogTypeOK, RowsInv
    <1>2. LogTypeOK'
        BY DEF LogInv, LogTypeOK
    <1>3. RowsInv'
        <2>1. tx'[c] = "executed" /\ \A d \in Call : d # c => tx'[d] = tx[d]
            BY DEF LogInv, LogTypeOK
        <2>. QED
            BY <2>1 DEF LogInv, RowsInv
    <1>4. ASSUME NEW id \in RentalId
          PROVE  /\ Cardinality(Executed(id, {"deposit"})') =
                       IF t.id = id /\ t.type = "deposit"
                       THEN Cardinality(Executed(id, {"deposit"})) + 1
                       ELSE Cardinality(Executed(id, {"deposit"}))
                 /\ Cardinality(Executed(id, Settling)') =
                       IF t.id = id /\ t.type \in Settling
                       THEN Cardinality(Executed(id, Settling)) + 1
                       ELSE Cardinality(Executed(id, Settling))
                 /\ Sent(id)' = IF t.id = id /\ t.type = "deposit" THEN Sent(id) + t.value ELSE Sent(id)
        <2>1. \A types : Cardinality(Executed(id, types)') =
                 IF t.id = id /\ t.type \in types
                 THEN Cardinality(Executed(id, types)) + 1 ELSE Cardinality(Executed(id, types))
            BY <1>2, OneMore
        <2>2. Sent(id)' = IF t.id = id /\ t.type = "deposit" THEN Sent(id) + t.value ELSE Sent(id)
            BY <1>2, OneMore
        <2>. QED
            BY <2>1, <2>2
    <1> DEFINE In(id) == Cardinality(Executed(id, {"deposit"}))
               Out(id) == Cardinality(Executed(id, Settling))
    <1>5. ASSUME NEW id \in RentalId
          PROVE  /\ In(id) \in Nat /\ Out(id) \in Nat /\ Sent(id) \in Nat
                 /\ paidIn[id] \in Nat /\ paidOut[id] \in Nat
                 /\ Sent(id) <= paidIn[id] /\ Out(id) <= paidOut[id]
                 /\ ~apart => /\ Sent(id) = paidIn[id]
                              /\ In(id) = IF rentals[id].status = "Deposited" THEN Out(id) + 1 ELSE Out(id)
        BY ExecutedType DEF IInv, TypeOK, LogInv, CountsInv
    <1> HIDE DEF t
    <1>6. CASE t.type = "deposit"
        <2>1. /\ rentals[t.id].status # "Deposited" /\ paidOut' = paidOut
              /\ \A r \in RentalId :
                    /\ paidIn'[r] = IF r = t.id THEN paidIn[r] + t.value ELSE paidIn[r]
                    /\ rentals'[r].status = IF r = t.id THEN "Deposited" ELSE rentals[r].status
            BY <1>1, <1>6, DepositEffect DEF Executes, t
        <2>2. ASSUME NEW id \in RentalId
              PROVE  /\ Sent(id)' <= paidIn'[id] /\ Out(id)' <= paidOut'[id]
                     /\ ~apart => /\ Sent(id)' = paidIn'[id]
                                  /\ In(id)' = IF rentals'[id].status = "Deposited"
                                               THEN Out(id)' + 1 ELSE Out(id)'
            <3>1. Out(id)' = Out(id)
                BY <1>4, <1>6 DEF Settling
            <3>2. CASE id = t.id
                <4>1. Sent(id)' = Sent(id) + t.value /\ In(id)' = In(id) + 1
                    BY <1>4, <1>6, <3>2
                <4> HIDE DEF In, Out
                <4>. QED
                    BY <1>1, <1>5, <2>1, <3>1, <3>2, <4>1
            <3>3. CASE id # t.id
                <4>1. Sent(id)' = Sent(id) /\ In(id)' = In(id)
                    BY <1>4, <3>3
                <4> HIDE DEF In, Out
                <4>. QED
                    BY <1>1, <1>5, <2>1, <3>1, <3>3, <4>1
            <3>. QED
                BY <3>2, <3>3
        <2>. QED
            BY <1>2, <1>3, <2>2 DEF LogInv, CountsInv
    <1>7. CASE t.type \in Settling
        <2>1. /\ rentals[t.id].status = "Deposited" /\ paidIn' = paidIn
              /\ \A r \in RentalId :
                    /\ paidOut'[r] \in Nat
                    /\ paidOut'[r] >= IF r = t.id THEN paidOut[r] + 1 ELSE paidOut[r]
                    /\ rentals'[r].status = "Deposited" <=> r # t.id /\ rentals[r].status = "Deposited"
            BY <1>1, <1>7, SettleEffect DEF Executes, Settling, t
        <2>2. ASSUME NEW id \in RentalId
              PROVE  /\ Sent(id)' <= paidIn'[id] /\ Out(id)' <= paidOut'[id]
                     /\ ~apart => /\ Sent(id)' = paidIn'[id]
                                  /\ In(id)' = IF rentals'[id].status = "Deposited"
                                               THEN Out(id)' + 1 ELSE Out(id)'
            <3>1. Sent(id)' = Sent(id) /\ In(id)' = In(id)
                BY <1>4, <1>7 DEF Settling
            <3>2. CASE id = t.id
                <4>1. Out(id)' = Out(id) + 1
                    BY <1>4, <1>7, <3>2
                <4> HIDE DEF In, Out
                <4>. QED
                    BY <1>1, <1>5, <2>1, <3>1, <3>2, <4>1
            <3>3. CASE id # t.id
                <4>1. Out(id)' = Out(id)
                    BY <1>4, <3>3
                <4> HIDE DEF In, Out
                <4>. QED
                    BY <1>1, <1>5, <2>1, <3>1, <3>3, <4>1
            <3>. QED
                BY <3>2, <3>3
        <2>. QED
            BY <1>2, <1>3, <2>2 DEF LogInv, CountsInv
    <1>. QED
        BY <1>1, <1>6, <1>7 DEF Type, Settling

\* At first there is no call and no money.
LEMMA InitLogInv == LogInit => IInv /\ LogInv
    <1> SUFFICES ASSUME LogInit PROVE IInv /\ LogInv
        OBVIOUS
    <1>1. IInv
        BY InitIInv DEF LogInit
    <1>2. LogTypeOK /\ RowsInv
        BY SentCallType DEF LogInit, LogTypeOK, RowsInv, Status
    <1>3. ASSUME NEW id \in RentalId
          PROVE  /\ Sent(id) = 0 /\ paidIn[id] = 0 /\ paidOut[id] = 0
                 /\ Cardinality(Executed(id, Settling)) = 0
                 /\ Cardinality(Executed(id, {"deposit"})) = 0
                 /\ rentals[id].status # "Deposited"
        <2>1. \A types : Executed(id, types) = {}
            BY DEF LogInit, Executed
        <2>2. Sent(id) = 0
            BY <2>1, SumEmpty DEF Sent
        <2>3. Cardinality(Executed(id, Settling)) = 0 /\ Cardinality(Executed(id, {"deposit"})) = 0
            BY <2>1, FS_EmptySet
        <2>. QED
            BY <2>2, <2>3 DEF LogInit, Init, NoRental
    <1>4. CountsInv
        BY <1>3 DEF CountsInv
    <1>. QED
        BY <1>1, <1>2, <1>4 DEF LogInv

\* Every step of the service keeps both invariants.
LEMMA ServiceInv ==
    ASSUME IInv, LogInv, Service
    PROVE  IInv' /\ LogInv'
    <1>1. ASSUME NEW c \in Call, NEW id \in RentalId, Request(c, id)
          PROVE  UNCHANGED vars
        BY <1>1 DEF Request, SendDeposit, SendSettle, AdminDepositForRental,
                    AdminReleaseFundsForRental, AdminRefundForRental, Send
    <1>2. ASSUME NEW c \in Call, tx[c] = "sent", Executes(call[c])
          PROVE  Next
        <2> DEFINE t == call[c]
        <2>1. /\ t.type \in Type /\ t.id \in RentalId /\ t.sender \in Account
              /\ t.payee \in Account \cup {NoAccount} /\ (t.type = "deposit" => t.value \in Value)
            BY <1>2, SentCallType DEF LogInv, LogTypeOK, RowsInv
        <2> HIDE DEF t
        <2>2. CASE t.type = "deposit"
            BY <1>2, <2>1, <2>2 DEF Executes, Next, t
        <2>3. CASE t.type = "release"
            BY <1>2, <2>1, <2>3 DEF Executes, Next, t
        <2>4. CASE t.type = "refund"
            BY <1>2, <2>1, <2>4 DEF Executes, Next, t
        <2>. QED
            BY <2>1, <2>2, <2>3, <2>4 DEF Type
    <1>3. ASSUME NEW c \in Call, NEW id \in RentalId, Request(c, id)
          PROVE  IInv' /\ LogInv'
        BY <1>1, <1>3, RequestInv, NextIInv
    <1>4. ASSUME NEW c \in Call,
                 \/ RecordPendingTransaction(c) \/ RecordFails(c)
                 \/ MarkConfirmed(c) \/ MarkFailed(c) \/ LoseAnswer(c)
          PROVE  IInv' /\ LogInv'
        <2>1. UNCHANGED vars
            BY <1>4 DEF RecordPendingTransaction, RecordFails, MarkConfirmed, MarkFailed, LoseAnswer
        <2>. QED
            BY <1>4, <2>1, CallStepInv, NextIInv
    <1>5. ASSUME NEW c \in Call, Mine(c)
          PROVE  IInv' /\ LogInv'
        <2>1. CASE Executes(call[c]) /\ tx' = [tx EXCEPT ![c] = "executed"]
            <3>1. tx[c] = "sent" /\ UNCHANGED <<call, row, apart>>
                BY <1>5 DEF Mine
            <3>2. Next
                BY <1>2, <2>1, <3>1
            <3>3. IInv'
                BY <3>2, NextIInv
            <3>. QED
                BY <2>1, <3>1, <3>3, ExecutesInv
        <2>2. CASE tx' = [tx EXCEPT ![c] = "reverted"] /\ UNCHANGED vars
            BY <1>5, <2>2, RevertsInv, NextIInv DEF Mine
        <2>. QED
            BY <1>5, <2>1, <2>2 DEF Mine
    <1>6. ASSUME NEW c \in Call, Replace(c)
          PROVE  IInv' /\ LogInv'
        BY <1>6, RevertsInv, NextIInv DEF Replace
    <1>7. CASE Restart
        BY <1>7, RestartInv, NextIInv DEF Restart
    <1>. QED
        BY <1>3, <1>4, <1>5, <1>6, <1>7 DEF Service

\* Every step, those of others included.
LEMMA LogNextInv == IInv /\ LogInv /\ [LogNext]_chainVars => IInv' /\ LogInv'
    <1> SUFFICES ASSUME IInv, LogInv, [LogNext]_chainVars PROVE IInv' /\ LogInv'
        OBVIOUS
    <1>1. CASE Service
        BY <1>1, ServiceInv
    <1>2. CASE Others
        BY <1>2, OthersInv, NextIInv DEF Others
    <1>3. CASE UNCHANGED chainVars
        <2>1. UNCHANGED <<vars, call, row, tx, apart>> /\ UNCHANGED <<rentals, paidIn, paidOut>>
            BY <1>3 DEF chainVars, logVars, vars, ledger
        <2>2. IInv'
            BY <2>1, NextIInv
        <2>3. LogTypeOK' /\ RowsInv'
            BY <2>1 DEF LogInv, LogTypeOK, RowsInv
        <2>4. CountsInv'
            BY <2>1, <2>3, SameCounts DEF LogInv
        <2>. QED
            BY <2>2, <2>3, <2>4 DEF LogInv
    <1>. QED
        BY <1>1, <1>2, <1>3 DEF LogNext

\* The invariant of the contract and the service together.
THEOREM LogInvariant == LogSpec => [](IInv /\ LogInv)
    BY InitLogInv, LogNextInv, PTL DEF LogSpec

\* The sum in Claimed, in the form the lemmas on sums speak of.
LEMMA ClaimedIsSum ==
    ASSUME NEW id
    PROVE  Claimed(id) = SumOver(Amounts, DepositsOf(id))
    <1> DEFINE S == DepositsOf(id)
               g == [c \in S |-> call[c].value]
               A(h) == h = [s \in SUBSET S |-> IF s = {} THEN 0
                  ELSE call[CHOOSE x \in s : TRUE].value + h[s \ {CHOOSE x \in s : TRUE}]]
    <1>1. \A h : A(h) <=> IsSums(h, Amounts, S)
        <2>1. \A s \in SUBSET S : s # {} =>
                 Amounts[CHOOSE x \in s : TRUE] = call[CHOOSE x \in s : TRUE].value
            BY FirstFact DEF First, Amounts, DepositsOf, Confirmed
        <2> HIDE DEF S
        <2>. QED
            BY <2>1 DEF IsSums, First
    <1>2. (CHOOSE h : A(h)) = (CHOOSE h : IsSums(h, Amounts, S))
        <2> HIDE DEF A
        <2>. QED
            BY <1>1
    <1>3. Claimed(id) = (CHOOSE h : A(h))[S]
        BY DEF Claimed, MapThenSumSet, MapThenFoldSet
    <1>. QED
        BY <1>2, <1>3, SumOverIsSums

\* What is confirmed is part of what took place, and all of it once no call
\* runs and nothing happened that no row can tell of.
LEMMA LogTells == IInv /\ LogInv => LogMatchesChain
    <1> SUFFICES ASSUME IInv, LogInv, NEW id \in RentalId
                 PROVE  /\ Claimed(id) <= paidIn[id]
                        /\ Cardinality(SettlementsOf(id)) <= paidOut[id]
                        /\ Idle /\ ~apart =>
                              /\ Claimed(id) = paidIn[id]
                              /\ rentals[id].status = "Deposited" <=>
                                    Cardinality(DepositsOf(id)) > Cardinality(SettlementsOf(id))
        BY DEF LogMatchesChain
    <1> DEFINE D == Executed(id, {"deposit"})
               E == Executed(id, Settling)
    <1>1. DepositsOf(id) \subseteq D /\ SettlementsOf(id) \subseteq E
        BY DEF DepositsOf, SettlementsOf, Confirmed, Executed, LogInv, RowsInv, Settling
    <1>2. ASSUME Idle, ~apart
          PROVE  DepositsOf(id) = D /\ SettlementsOf(id) = E
        BY <1>2 DEF DepositsOf, SettlementsOf, Confirmed, Executed, LogInv, RowsInv, Settling, Idle
    <1>3. /\ IsFiniteSet(D) /\ D \subseteq Call /\ IsFiniteSet(E)
          /\ Cardinality(D) \in Nat /\ Cardinality(E) \in Nat
          /\ \A c \in D : Amounts[c] \in Nat
        BY ExecutedType DEF LogInv
    <1>4. Claimed(id) = SumOver(Amounts, DepositsOf(id))
        BY ClaimedIsSum
    <1>5. Sent(id) = SumOver(Amounts, D)
        BY DEF Sent
    <1>6. /\ Sent(id) <= paidIn[id] /\ Cardinality(E) <= paidOut[id]
          /\ ~apart => /\ Sent(id) = paidIn[id]
                       /\ Cardinality(D) = IF rentals[id].status = "Deposited"
                                           THEN Cardinality(E) + 1 ELSE Cardinality(E)
        BY DEF LogInv, CountsInv
    <1>7. paidIn[id] \in Nat /\ paidOut[id] \in Nat
        BY DEF IInv, TypeOK
    <1> HIDE DEF D, E
    <1>8. SumOver(Amounts, DepositsOf(id)) <= SumOver(Amounts, D)
        BY <1>1, <1>3, SumGrows
    <1>9. /\ SumOver(Amounts, DepositsOf(id)) \in Nat /\ SumOver(Amounts, D) \in Nat
        BY <1>1, <1>3, SumNat
    <1>10. Cardinality(SettlementsOf(id)) <= Cardinality(E) /\ Cardinality(SettlementsOf(id)) \in Nat
        BY <1>1, <1>3, FS_Subset, FS_CardinalityType
    <1>11. Claimed(id) <= paidIn[id] /\ Cardinality(SettlementsOf(id)) <= paidOut[id]
        BY <1>3, <1>4, <1>5, <1>6, <1>7, <1>8, <1>9, <1>10
    <1>12. ASSUME Idle, ~apart
           PROVE  /\ Claimed(id) = paidIn[id]
                  /\ rentals[id].status = "Deposited" <=>
                        Cardinality(DepositsOf(id)) > Cardinality(SettlementsOf(id))
        BY <1>2, <1>3, <1>4, <1>5, <1>6, <1>12
    <1>. QED
        BY <1>11, <1>12

\* CONFIRMED rows never claim more than the contract received and paid out;
\* and unless something happened that no row can tell of, they tell the whole
\* story of every rental once no call is running: for any number of calls,
\* however they overlap and whatever the chain decides.
THEOREM LogAlwaysMatchesChain == LogSpec => []LogMatchesChain
    BY LogInvariant, LogTells, PTL

=============================================================================
