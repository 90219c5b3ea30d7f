------------------------------ MODULE OrgSpend ------------------------------
(***************************************************************************)
(* The money an organization spends: its Apify runs and its LLM calls.  A  *)
(* worker asks Apify in an ingest node or the LLM in a later one, never in *)
(* both at a time; an Analyst node has up to CONCURRENCY of its checks and *)
(* calls in flight at once (analyst_nodes.py), every other node has one.   *)
(* A new month is one for both counters.                                   *)
(***************************************************************************)
EXTENDS ApifySpend, LlmGuard

CONSTANTS Concurrency,   \* CONCURRENCY: places in the semaphore of a node
          Budgets        \* bounds of ingests and calls together

ASSUME OrgSpendAssumption ==
    /\ Concurrency \in Nat \ {0}
    /\ Dispatchers = Workers \X (1 .. Concurrency)

(* The calls that the node a worker is in may have in flight.              *)
Slots(w) == {w} \X (1 .. Concurrency)

Init == ApifyInit /\ LlmInit /\ <<bounds, calls>> \in Budgets

Next ==
    \/ \E w \in Workers :
         (\A d \in Slots(w) : call[d] = NoCall) /\ Ingest(w) /\ UNCHANGED llmVars
    \/ \E t \in Tokens : Vault(t) /\ UNCHANGED llmVars
    \/ \E w \in Workers : \E d \in Slots(w) :
         ingest[w] = NoRun /\ MakeCall(d) /\ UNCHANGED apifyVars
    \/ NewDay /\ UNCHANGED apifyVars
    \/ NewMonth /\ FirstOfMonth

vars == <<apifyVars, llmVars>>
Spec == Init /\ [][Next]_vars

(* Every variable has its type. *)
TypeOK == ApifyTypeOK /\ LlmTypeOK

(* Both guards, of the month's Apify budget and of the day's LLM tokens,   *)
(* are guards as SpendGuard describes them: who can see the counter is     *)
(* admitted only while the limit leaves room for some cost, what was       *)
(* admitted is added once at most, and a refusal grants nothing            *)
(* (check_budget, check_and_record_llm_usage).                             *)
ImplementsGuards == Monthly!Spec /\ Daily!Spec
=============================================================================
