----------------------------- MODULE MCTenancy -----------------------------
(* Small instances of Tenancy for TLC. *)
EXTENDS Tenancy, TLC

CONSTANTS h1, h2, s1

MCHandlers == {h1, h2}
MCSessions == {s1}
MCSymmetry == Permutations(MCHandlers)
=============================================================================
