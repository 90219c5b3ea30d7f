----------------------------- MODULE DailyQuota -----------------------------
(***************************************************************************)
(* What the daily draft caps promise (backend/pipeline/prefilter.py): the  *)
(* draft rows of a day only grow, by whole transactions, and never past    *)
(* the cap of a counter they are charged to.                               *)
(***************************************************************************)
EXTENDS Integers, FiniteSets

CONSTANTS Rows,      \* the draft rows that may be written today
          Keys,      \* the counters: one per campaign, one per subreddit
          Charged,   \* Charged[k]: the rows that are charged to counter k
          Cap        \* Cap[k]: the daily cap of counter k

VARIABLE persisted   \* the committed rows of today

Within(S) == \A k \in Keys : Cardinality(S \cap Charged[k]) <= Cap[k] \/ S \cap Charged[k] = {}

QuotaInit == persisted = {}

Persist == \E S \in SUBSET Rows :
              /\ persisted' = persisted \cup S
              /\ Within(persisted')

QuotaSpec == QuotaInit /\ [][Persist]_persisted

=============================================================================
