----------------------------- MODULE MCWalletTx -----------------------------
(* WalletTx.tla for TLC.  The wallets start funded, so that locks and      *)
(* crossing releases happen within the few requests of the instance.       *)
EXTENDS WalletTx, FiniteSets

\* Some users hold a wallet with one cent available and one locked, reached
\* by a deposit of two and a lock of one each; the others have none yet.
Funded ==
    /\ holders \in SUBSET User
    /\ balance = [u \in User |-> IF u \in holders THEN 1 ELSE 0]
    /\ locked = balance
    /\ ledger = [u \in User |-> [t \in Atomic!Type |->
                    CASE t = "DEPOSIT" -> 2 * balance[u]
                      [] t = "LOCK" -> -balance[u]
                      [] OTHER -> 0]]
    /\ rows = 2 * Cardinality(holders)
    /\ rowLock = [u \in User |-> Free]
    /\ tx = [r \in Request |-> Blank]

FundedSpec == Funded /\ [][Next]_vars /\ Fairness

=============================================================================
