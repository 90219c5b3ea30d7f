------------------------------ MODULE LlmGuard ------------------------------
(***************************************************************************)
(* The LLM counters of one organization in Redis and the calls that change *)
(* them (backend/utils/cost_guard.py): the check before a dispatch         *)
(* (Analyst) or before a draft is kept (persist_gate), and the usage that  *)
(* the scout and the strategist add without being asked.                   *)
(*                                                                         *)
(* A check reads the two counters one after the other and adds to both in  *)
(* a transaction of Redis; the keys carry the dates of the reads.  A cost  *)
(* is counted in the unit of the tokens it buys; a model without a known   *)
(* price costs nothing.                                                    *)
(***************************************************************************)
EXTENDS Integers, FiniteSets

CONSTANTS Dispatchers,   \* who can make a call at the same time
          Sizes,         \* tokens of a call
          DailyLimit,    \* max_daily_llm_tokens
          MonthlyLimit,  \* max_monthly_llm_cost_usd
          MaxCalls,      \* bound on the calls
          MaxDays        \* bound on the days

ASSUME LlmAssumption ==
    /\ IsFiniteSet(Dispatchers)
    /\ Sizes \subseteq Nat \ {0} /\ \E n \in Sizes : \A k \in Sizes : k <= n
    /\ DailyLimit \in Nat /\ MonthlyLimit \in Nat
    /\ MaxCalls \in Nat /\ MaxDays \in Nat \ {0}

VARIABLES day, month,    \* today
          tokens,        \* llm_daily_tokens of today
          cost,          \* llm_monthly_cost of this month
          call,          \* the check each of them is in
          calls,         \* checks and metered calls still to come
          llmGranted     \* tokens of today that a check has let pass

llmVars == <<day, month, tokens, cost, call, calls, llmGranted>>

NoCall == [at |-> "idle"]
Calls == [at : {"monthly", "record"}, n : Sizes, price : {0, 1},
         day : 1 .. MaxDays, month : 0 .. MaxDays, refused : BOOLEAN]

(* A limit of 0 is falsy: it limits nothing. *)
Breaches(used, n, limit) == limit # 0 /\ used + n > limit

LlmInit ==
    /\ day = 1 /\ month = 1
    /\ tokens = 0 /\ cost = 0
    /\ call = [w \in Dispatchers |-> NoCall]
    /\ calls \in 0 .. MaxCalls /\ llmGranted = 0

Count == calls > 0 /\ calls' = calls - 1

ReadDaily(w) ==
    /\ call[w] = NoCall /\ Count
    /\ \E n \in Sizes, price \in {0, 1} :
         call' = [call EXCEPT ![w] =
                    [at |-> "monthly", n |-> n, price |-> price, day |-> day,
                     month |-> 0, refused |-> Breaches(tokens, n, DailyLimit)]]
    /\ UNCHANGED <<day, month, tokens, cost, llmGranted>>

ReadMonthly(w) ==
    /\ call[w].at = "monthly"
    /\ call' = [call EXCEPT ![w].at = "record", ![w].month = month,
                            ![w].refused = @ \/ Breaches(cost, call[w].n * call[w].price,
                                                         MonthlyLimit)]
    /\ UNCHANGED <<day, month, tokens, cost, calls, llmGranted>>

(* Usage is recorded before a breach is raised. *)
Record(w) ==
    /\ call[w].at = "record"
    /\ tokens' = tokens + IF call[w].day = day THEN call[w].n ELSE 0
    /\ cost' = cost + IF call[w].month = month THEN call[w].n * call[w].price ELSE 0
    /\ llmGranted' = llmGranted
         + IF call[w].day = day /\ ~call[w].refused THEN call[w].n ELSE 0
    /\ call' = [call EXCEPT ![w] = NoCall]
    /\ UNCHANGED <<day, month, calls>>

(* record_llm_usage, after a call of the scout or the strategist. *)
Meter(w) ==
    /\ call[w] = NoCall /\ Count
    /\ \E n \in Sizes, price \in {0, 1} : tokens' = tokens + n /\ cost' = cost + n * price
    /\ UNCHANGED <<day, month, call, llmGranted>>

(* Redis fails, or the worker dies: the exception ends the run. *)
CallFails(w) ==
    /\ call[w] # NoCall
    /\ call' = [call EXCEPT ![w] = NoCall]
    /\ UNCHANGED <<day, month, tokens, cost, calls, llmGranted>>

(* Midnight: the keys of the new date do not exist. *)
Midnight == day < MaxDays /\ day' = day + 1 /\ tokens' = 0 /\ llmGranted' = 0
NewDay == Midnight /\ UNCHANGED <<month, cost, call, calls>>
FirstOfMonth == Midnight /\ month' = month + 1 /\ cost' = 0 /\ UNCHANGED <<call, calls>>

MakeCall(w) ==
    \/ ReadDaily(w) \/ ReadMonthly(w) \/ Record(w) \/ Meter(w) \/ CallFails(w)

LlmTypeOK ==
    /\ day \in 1 .. MaxDays /\ month \in 1 .. MaxDays
    /\ tokens \in Nat /\ cost \in Nat
    /\ call \in [Dispatchers -> Calls \cup {NoCall}]
    /\ calls \in 0 .. MaxCalls /\ llmGranted \in 0 .. tokens

(* The calls of today that have passed the check of the daily limit. *)
Passed == {w \in Dispatchers : call[w] # NoCall /\ call[w].day = day /\ ~call[w].refused}

MaxSize == CHOOSE n \in Sizes : \A k \in Sizes : k <= n
Daily == INSTANCE SpendGuard WITH
    Runs <- Dispatchers, Limit <- DailyLimit, MaxCost <- MaxSize,
    spent <- tokens, granted <- llmGranted, pending <- Passed, blind <- 0
=============================================================================
