--------------------------- MODULE MCAnalystRuns ---------------------------
(* Small instances of AnalystRuns for TLC. *)
EXTENDS AnalystRuns

CONSTANTS api, tick, p1

MCCallers == {api, tick}
MCTicks == {tick}
MCPosts == {p1}

(* A week starts between the first two times. *)
MCWeekAt == [t \in 0 .. MaxClock |-> IF t = 0 THEN 1 ELSE 2]

(* Two runs where nothing fails, and one with two faults. *)
MCBudgets == {[runs |-> 2, faults |-> 0], [runs |-> 1, faults |-> 2]}
=============================================================================
