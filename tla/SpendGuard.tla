----------------------------- MODULE SpendGuard -----------------------------
(***************************************************************************)
(* What a guard promises that reads a counter, compares it with a limit,   *)
(* lets a run go ahead and adds its cost to the counter later: check_budget*)
(* and record_spend_usd for the Apify runs (backend/ingestion/service.py), *)
(* check_and_record_llm_usage for the LLM calls (backend/utils/            *)
(* cost_guard.py).  ApifySpend and LlmGuard implement it.                  *)
(*                                                                         *)
(* It is not that granted stays within Limit: runs that are admitted at    *)
(* the same time do not see each other.                                    *)
(***************************************************************************)
EXTENDS Integers, FiniteSets

CONSTANTS Runs,      \* who can spend at the same time
          Limit,
          MaxCost    \* the largest cost of one of them

VARIABLES spent,     \* the counter of the period
          granted,   \* the part of it that runs were let to spend
          pending,   \* admitted runs that have not added their cost
          blind      \* runs admitted without a look at the counter

vars == <<spent, granted, pending, blind>>

Init == spent = 0 /\ granted = 0 /\ pending = {} /\ blind = 0

(* Some cost still fits; what r spends in the end may be another.          *)
Admit(r) ==
    /\ r \in Runs \ pending
    /\ \E cost \in 1 .. MaxCost : spent + cost <= Limit
    /\ pending' = pending \cup {r}
    /\ UNCHANGED <<spent, granted, blind>>

(* The counter cannot be read. *)
AdmitBlindly(r) ==
    /\ r \in Runs \ pending
    /\ pending' = pending \cup {r} /\ blind' = blind + 1
    /\ UNCHANGED <<spent, granted>>

Settle(r) ==
    /\ r \in pending
    /\ \E cost \in 1 .. MaxCost : spent' = spent + cost /\ granted' = granted + cost
    /\ pending' = pending \ {r}
    /\ UNCHANGED blind

(* The run fails, or its cost is not recorded. *)
Drop(r) ==
    /\ r \in pending /\ pending' = pending \ {r}
    /\ UNCHANGED <<spent, granted, blind>>

(* Cost that nobody was asked about, or that was refused, is counted too. *)
Meter ==
    /\ \E cost \in 1 .. MaxCost : spent' = spent + cost
    /\ UNCHANGED <<granted, pending, blind>>

(* A new period: runs under way may count in it or not. *)
Reset ==
    /\ spent' = 0 /\ granted' = 0 /\ blind' = 0
    /\ pending' \subseteq pending

Next ==
    \/ \E r \in Runs : Admit(r) \/ AdmitBlindly(r) \/ Settle(r) \/ Drop(r)
    \/ Meter \/ Reset

Spec == Init /\ [][Next]_vars

(* What has been granted exceeds the limit by less than what the runs that *)
(* can be under way at once cost, and what was admitted blindly.           *)
OvershootIsBounded ==
    granted <= Limit + (Cardinality(Runs) + blind) * MaxCost
=============================================================================
