----------------------------- MODULE MCOutcomes -----------------------------
(* Small instances of Outcomes for TLC. *)
EXTENDS Outcomes

CONSTANTS d1, d2, l1, p1, p2

MCDrafts == {d1, d2, l1}
MCReddit == {d1, d2}
MCPollers == {p1, p2}
=============================================================================
