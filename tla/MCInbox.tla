------------------------------ MODULE MCInbox ------------------------------
(* Small instances of Inbox for TLC. *)
EXTENDS Inbox, TLC

CONSTANTS d1, d2, p1, u1, u2

MCOneDraft  == {d1}
MCTwoDrafts == {d1, d2}
MCPosts     == {p1}
MCUsers     == {u1, u2}

(* Both drafts, of two campaigns, answer the same post. *)
MCPostOf == [d \in Drafts |-> p1]

MCSymmetry == Permutations(MCUsers) \cup Permutations(Requests)

=============================================================================
