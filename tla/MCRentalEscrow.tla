--------------------------- MODULE MCRentalEscrow ---------------------------
(***************************************************************************)
(* RentalEscrow.tla and ChainLog.tla for TLC.  Histories of the contract   *)
(* alone, and histories of the service with a few calls by others.         *)
(***************************************************************************)
EXTENDS ChainLog, TLC

CONSTANT MaxOthers  \* bound on the calls by others beside the service, which
                    \* take the place of calls of the service

VARIABLES
    alone,  \* the service makes no calls
    others  \* calls by others beside those of the service

Started == Cardinality({c \in Call : call[c].at # "new"})

EscrowInit == LogInit /\ alone \in BOOLEAN /\ others = 0

EscrowNext ==
    /\ UNCHANGED alone
    /\ \/ alone /\ Others /\ UNCHANGED others
       \/ ~alone /\ Service /\ Started' + others <= Cardinality(Call) /\ UNCHANGED others
       \/ /\ ~alone /\ others < MaxOthers /\ Started + others < Cardinality(Call)
          /\ Others /\ others' = others + 1

EscrowSpec == EscrowInit /\ [][EscrowNext]_<<chainVars, alone, others>>

Symmetry == Permutations(Call) \cup Permutations(RentalId)

\* The contract can always pay every active deposit: its balance is the sum
\* of the amounts it shows, so no release or refund fails for lack of funds.
Solvent == funds = MapThenSumSet(LAMBDA id : rentals[id].amount, RentalId)
=============================================================================
