--------------------------- MODULE BillLifecycle ---------------------------
(***************************************************************************)
(* What the bills of hotels, deliveries and restaurants promise together:  *)
(* a bill is opened, confirmed, in use and completed, in that order, or it *)
(* is cancelled on the way; what it costs may change as long as it is open *)
(* and not afterwards; and no bill waits for its confirmation for ever.    *)
(* ServiceBills.tla implements it.                                         *)
(***************************************************************************)
EXTENDS Naturals

CONSTANTS BillId, Cost

VARIABLES stage, cost

lifecycleVars == <<stage, cost>>

Init ==
    /\ stage = [b \in BillId |-> "none"]
    /\ cost = [b \in BillId |-> 0]

Move(b, from, to) == stage[b] \in from /\ stage' = [stage EXCEPT ![b] = to]

Open(b) == Move(b, {"none"}, "pending") /\ UNCHANGED cost

NewCost(b) == cost'[b] \in Cost /\ cost' = [cost EXCEPT ![b] = cost'[b]]

Reprice(b) == stage[b] \in {"pending", "confirmed"} /\ NewCost(b) /\ UNCHANGED stage

Confirm(b) == Move(b, {"pending"}, "confirmed") /\ NewCost(b)

Begin(b) == Move(b, {"confirmed"}, "active") /\ UNCHANGED cost

Complete(b) == Move(b, {"active"}, "completed") /\ UNCHANGED cost

Cancel(b) == Move(b, {"pending", "confirmed", "active"}, "cancelled") /\ UNCHANGED cost

Next == \E b \in BillId :
    Open(b) \/ Reprice(b) \/ Confirm(b) \/ Begin(b) \/ Complete(b) \/ Cancel(b)

\* A pending bill is confirmed or given up in the end.
Decided(b) == stage[b] = "pending" ~> stage[b] # "pending"

Spec == Init /\ [][Next]_lifecycleVars /\ \A b \in BillId : Decided(b)

=============================================================================
