---------------------------- MODULE MCScheduler ----------------------------
(* Small instances of Scheduler for TLC. *)
EXTENDS Scheduler, TLC

MCSymmetry == Permutations(Campaigns) \cup Permutations(Requests) \cup Permutations(Ticks)

=============================================================================
