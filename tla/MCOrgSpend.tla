----------------------------- MODULE MCOrgSpend -----------------------------
(* Small instances of OrgSpend for TLC. *)
EXTENDS OrgSpend

CONSTANTS w1, w2

MCWorkers == {w1, w2}
MCDispatchers == MCWorkers \X (1 .. Concurrency)

Bound(p, e, f) == [polls |-> p, edits |-> e, faults |-> f]
MCBudgets == {<<Bound(3, 0, 1), 0>>, <<Bound(1, 3, 0), 0>>, <<Bound(1, 1, 0), 1>>,
              <<Bound(0, 0, 0), 3>>}
MCApifyBudgets == {b[1] : b \in MCBudgets}
=============================================================================
