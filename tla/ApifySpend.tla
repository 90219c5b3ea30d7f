----------------------------- MODULE ApifySpend -----------------------------
(***************************************************************************)
(* The Apify runs of one organization (backend/ingestion/service.py,       *)
(* tokens.py, runner.py) and its token vault (backend/api/apify.py): a     *)
(* worker loads the active tokens, checks the month's budget, ranks the    *)
(* tokens by the credit they have left, starts the actor, polls it and     *)
(* adds the estimate to the month's counter.                               *)
(*                                                                         *)
(* The counter and the cached usage of each token are in Redis, the vault  *)
(* in Postgres, what a token has really used at Apify; nothing ties them   *)
(* together.  Money is counted in units; an actor costs what was estimated.*)
(***************************************************************************)
EXTENDS Integers, FiniteSets

CONSTANTS Workers,
          MaxTokens,   \* tokens 1, 2, ...: by their id
          Estimates,   \* estimate_run_cost_usd of the campaigns
          Budget,      \* apify_monthly_budget_usd
          Caps,        \* plan_cap_usd a token may be given
          DefaultCap,  \* DEFAULT_PLAN_CAP_USD
          ApifyBudgets \* bounds, one of which holds in a behaviour: polls that
                       \* pass the budget check; edits of the vault, the
                       \* accounts and the month; faults, which are deaths,
                       \* Redis errors and lost answers

ASSUME ApifyAssumption ==
    /\ IsFiniteSet(Workers) /\ MaxTokens \in Nat
    /\ Estimates \subseteq Nat \ {0} /\ \E e \in Estimates : \A k \in Estimates : k <= e
    /\ Budget \in Nat /\ Caps \subseteq Nat /\ DefaultCap \in Nat
    /\ ApifyBudgets \subseteq [polls : Nat, edits : Nat, faults : Nat]

VARIABLES spent,      \* apify_spend of this month
          vault,      \* org_apify_tokens
          account,    \* Apify's side of each token
          cache,      \* apify:credits of each token
          ingest,     \* what each worker is doing
          deleting,   \* tokens whose row is gone and whose cache is not yet,
                      \* or never is, if the request dies or Redis is down
          bill,       \* totals: started, recorded, not recorded
          apifyGranted, blind,   \* recorded this month, and runs that were
                                 \* admitted this month unseen
          bounds      \* what is left of the bounds

apifyVars == <<spent, vault, account, cache, ingest, deleting, bill,
               apifyGranted, blind, bounds>>
ledger == <<spent, apifyGranted, blind>>

Tokens == 1 .. MaxTokens
MaxEstimate == CHOOSE e \in Estimates : \A k \in Estimates : k <= e
None == 0 - 1

(* plan_cap_usd or DEFAULT_PLAN_CAP_USD: a cap of 0 is the default cap. *)
EffectiveCap(cap) == IF cap = 0 THEN DefaultCap ELSE cap

NoRun == [at |-> "idle"]
NoUsage == [used |-> None, gen |-> 0]

ApifyInit ==
    /\ spent = 0
    /\ vault \in [Tokens -> [state : {"active"}, cap : Caps, gen : {1}]]
    /\ account = [t \in Tokens |-> [used |-> 0, valid |-> TRUE]]
    /\ cache = [t \in Tokens |-> NoUsage]
    /\ ingest = [w \in Workers |-> NoRun]
    /\ deleting = {}
    /\ bill = [started |-> 0, recorded |-> 0, slips |-> 0]
    /\ apifyGranted = 0 /\ blind = 0
    /\ bounds \in ApifyBudgets

Fault == bounds.faults > 0 /\ bounds' = [bounds EXCEPT !.faults = @ - 1]
Poll == bounds.polls > 0 /\ bounds' = [bounds EXCEPT !.polls = @ - 1]
At(w, pc) == ingest[w].at = pc
Move(w, run) == ingest' = [ingest EXCEPT ![w] = run]

----------------------------------------------------------------------------
(* One ingest.                                                             *)

(* get_active_apify_vault_tokens, then check_budget.  A run that would     *)
(* exceed the budget ends as SKIPPED_BUDGET.  remaining is None until the  *)
(* token has been looked at and 0 if it is not usable.                     *)
Loaded(t) == vault[t].state = "active"
Admitted(est) == [at |-> "credits", est |-> est, left |-> {t \in Tokens : Loaded(t)},
                  cap |-> [t \in Tokens |-> EffectiveCap(vault[t].cap)],
                  remaining |-> [t \in Tokens |-> 0], got |-> NoUsage]

(* Mutant: the budget is compared with what is spent, without the estimate. *)
CheckBudgetLate(w) ==
    /\ At(w, "idle") /\ Poll
    /\ \E est \in Estimates : spent <= Budget /\ Move(w, Admitted(est))
    /\ UNCHANGED <<ledger, vault, account, cache, deleting, bill>>

CheckBudget(w) ==
    /\ At(w, "idle") /\ Poll
    /\ \E est \in Estimates : spent + est <= Budget /\ Move(w, Admitted(est))
    /\ UNCHANGED <<ledger, vault, account, cache, deleting, bill>>

(* Redis cannot be read: get_month_spend_usd answers 0.0. *)
CheckBudgetBlindly(w) ==
    /\ At(w, "idle") /\ bounds.polls > 0 /\ bounds.faults > 0
    /\ bounds' = [bounds EXCEPT !.polls = @ - 1, !.faults = @ - 1]
    /\ \E est \in Estimates : est <= Budget /\ Move(w, Admitted(est))
    /\ blind' = blind + 1
    /\ UNCHANGED <<spent, apifyGranted, vault, account, cache, deleting, bill>>

(* fetch_credit_summaries looks at the tokens one after the other.  usage  *)
(* answers from the cache; otherwise Apify does, and its answer is stored. *)
NextToken(w) == CHOOSE t \in ingest[w].left : \A k \in ingest[w].left : t <= k

(* Mutant: used more than the cap leaves a negative credit. *)
LeftBelowZero(w, used) == ingest[w].cap[NextToken(w)] - used
Left(w, used) == IF used > ingest[w].cap[NextToken(w)] THEN 0
                 ELSE ingest[w].cap[NextToken(w)] - used
Looked(w, remaining) ==
    [ingest[w] EXCEPT !.left = @ \ {NextToken(w)}, !.got = NoUsage,
                      !.remaining[NextToken(w)] = remaining]
Looking(w) == At(w, "credits") /\ ingest[w].left # {} /\ ingest[w].got = NoUsage

UseCache(w) ==
    /\ Looking(w) /\ cache[NextToken(w)] # NoUsage
    /\ Move(w, Looked(w, Left(w, cache[NextToken(w)].used)))
    /\ UNCHANGED <<ledger, vault, account, cache, deleting, bill, bounds>>
AskApify(w) ==
    /\ Looking(w) /\ cache[NextToken(w)] = NoUsage
    /\ LET t == NextToken(w) IN
       /\ account[t].valid
       /\ Move(w, [ingest[w] EXCEPT !.got = [used |-> account[t].used, gen |-> vault[t].gen]])
    /\ UNCHANGED <<ledger, vault, account, cache, deleting, bill, bounds>>

(* A generation of a token's row starts when it is deleted.  gen is that   *)
(* in which the usage was stored.                                          *)
StoreUsage(w) ==
    /\ At(w, "credits") /\ ingest[w].got # NoUsage
    /\ LET t == NextToken(w) IN
       /\ cache' = [cache EXCEPT ![t] = [used |-> ingest[w].got.used, gen |-> vault[t].gen]]
       /\ Move(w, Looked(w, Left(w, ingest[w].got.used)))
    /\ UNCHANGED <<ledger, vault, account, deleting, bill, bounds>>

(* A refused token is invalidated, one that cannot be asked about is not;  *)
(* neither is usable.                                                      *)
TokenRefused(w) ==
    /\ Looking(w) /\ cache[NextToken(w)] = NoUsage /\ ~account[NextToken(w)].valid
    /\ cache' = [cache EXCEPT ![NextToken(w)] = NoUsage]
    /\ Move(w, Looked(w, 0))
    /\ UNCHANGED <<ledger, vault, account, deleting, bill, bounds>>
ApifySilent(w) ==
    /\ Looking(w) /\ cache[NextToken(w)] = NoUsage /\ Fault
    /\ Move(w, Looked(w, 0))
    /\ UNCHANGED <<ledger, vault, account, cache, deleting, bill>>

(* select_best_token: the most credit, the first of equals.                *)
Usable(w) == {t \in Tokens : ingest[w].remaining[t] > 0}
Best(w) == CHOOSE t \in Usable(w) :
              \A k \in Usable(w) : LET rem == ingest[w].remaining IN
                  rem[t] > rem[k] \/ (rem[t] = rem[k] /\ t <= k)
Selected(w) == At(w, "credits") /\ ingest[w].left = {}

NoToken(w) ==
    /\ Selected(w) /\ Usable(w) = {}
    /\ Move(w, NoRun)
    /\ UNCHANGED <<ledger, vault, account, cache, deleting, bill, bounds>>

(* _post_with_retry.  The answer to a first POST that did start a run can  *)
(* be lost: the second starts another.                                     *)
Charge(w, times) ==
    /\ account' = [account EXCEPT ![Best(w)].used = @ + times * ingest[w].est]
    /\ bill' = [bill EXCEPT !.started = @ + times * ingest[w].est,
                            !.slips = @ + times - 1]
StartActor(w) ==
    /\ Selected(w) /\ Usable(w) # {} /\ account[Best(w)].valid
    /\ \/ Charge(w, 1) /\ UNCHANGED bounds
       \/ Charge(w, 2) /\ Fault
    /\ Move(w, [at |-> "running", est |-> ingest[w].est])
    /\ UNCHANGED <<ledger, vault, cache, deleting>>
StartRefused(w) ==
    /\ Selected(w) /\ Usable(w) # {} /\ ~account[Best(w)].valid
    /\ Move(w, NoRun)
    /\ UNCHANGED <<ledger, vault, account, cache, deleting, bill, bounds>>

Succeed(w) ==
    /\ At(w, "running")
    /\ Move(w, [ingest[w] EXCEPT !.at = "record"])
    /\ UNCHANGED <<ledger, vault, account, cache, deleting, bill, bounds>>

(* A run that fails, is not finished after timeout_seconds, or whose items *)
(* cannot be read raises: it has cost money that is never recorded.        *)
RunFails(w) ==
    /\ At(w, "running") /\ Move(w, NoRun)
    /\ bill' = [bill EXCEPT !.slips = @ + 1]
    /\ UNCHANGED <<ledger, vault, account, cache, deleting, bounds>>

(* Mutant: the estimate is added once more when the posts are normalized. *)
RecordSpendTwice(w) ==
    /\ At(w, "record") /\ Move(w, NoRun)
    /\ spent' = spent + 2 * ingest[w].est
    /\ apifyGranted' = apifyGranted + 2 * ingest[w].est
    /\ bill' = [bill EXCEPT !.recorded = @ + 2 * ingest[w].est]
    /\ UNCHANGED <<blind, vault, account, cache, deleting, bounds>>

RecordSpend(w) ==
    /\ At(w, "record") /\ Move(w, NoRun)
    /\ spent' = spent + ingest[w].est
    /\ apifyGranted' = apifyGranted + ingest[w].est
    /\ bill' = [bill EXCEPT !.recorded = @ + ingest[w].est]
    /\ UNCHANGED <<blind, vault, account, cache, deleting, bounds>>

(* record_spend_usd only logs that Redis cannot be written to. *)
RecordFails(w) ==
    /\ At(w, "record") /\ Fault /\ Move(w, NoRun)
    /\ bill' = [bill EXCEPT !.slips = @ + 1]
    /\ UNCHANGED <<ledger, vault, account, cache, deleting>>
Die(w) ==
    /\ ingest[w] # NoRun /\ Fault /\ Move(w, NoRun)
    /\ bill' = [bill EXCEPT !.slips = @ + IF At(w, "credits") THEN 0 ELSE 1]
    /\ UNCHANGED <<ledger, vault, account, cache, deleting>>

----------------------------------------------------------------------------
(* The vault.                                                              *)

Edit == bounds.edits > 0 /\ bounds' = [bounds EXCEPT !.edits = @ - 1]
SetToken(t, row) == vault' = [vault EXCEPT ![t] = row]
VaultOnly == UNCHANGED <<ledger, account, ingest, bill>>

(* The same secret is put back: create_token makes a row with the default  *)
(* cap.                                                                    *)
CreateToken(t) ==
    /\ vault[t].state = "absent" /\ Edit
    /\ SetToken(t, [vault[t] EXCEPT !.state = "active", !.cap = DefaultCap])
    /\ UNCHANGED <<cache, deleting>> /\ VaultOnly
UpdateToken(t) ==
    /\ vault[t].state # "absent" /\ Edit
    /\ \E cap \in Caps, state \in {"active", "inactive"} :
         SetToken(t, [vault[t] EXCEPT !.cap = cap, !.state = state])
    /\ UNCHANGED <<cache, deleting>> /\ VaultOnly

(* Mutant: the cached usage is dropped before the row is. *)
DeleteTokenLast(t) ==
    /\ vault[t].state # "absent" /\ Edit
    /\ \/ /\ t \notin deleting /\ deleting' = deleting \cup {t}
          /\ cache' = [cache EXCEPT ![t] = NoUsage] /\ UNCHANGED vault
       \/ /\ t \in deleting /\ deleting' = deleting \ {t}
          /\ SetToken(t, [vault[t] EXCEPT !.state = "absent", !.gen = @ + 1])
          /\ UNCHANGED cache
    /\ VaultOnly

(* delete_token commits, then drops the cached usage. *)
DeleteToken(t) ==
    /\ vault[t].state # "absent" /\ Edit
    /\ SetToken(t, [vault[t] EXCEPT !.state = "absent", !.gen = @ + 1])
    /\ deleting' = deleting \cup {t}
    /\ UNCHANGED cache /\ VaultOnly
Invalidate(t) ==
    /\ t \in deleting
    /\ deleting' = deleting \ {t} /\ cache' = [cache EXCEPT ![t] = NoUsage]
    /\ UNCHANGED <<vault, bounds>> /\ VaultOnly

(* The token is revoked at Apify. *)
Revoke(t) ==
    /\ account[t].valid /\ Edit
    /\ account' = [account EXCEPT ![t].valid = FALSE]
    /\ UNCHANGED <<ledger, vault, cache, ingest, deleting, bill>>

(* CREDIT_CACHE_TTL_SECONDS *)
Expire(t) ==
    /\ cache[t] # NoUsage /\ cache' = [cache EXCEPT ![t] = NoUsage]
    /\ UNCHANGED <<ledger, vault, account, ingest, deleting, bill, bounds>>

(* spend_key: the counter of the new month does not exist. *)
NewMonth ==
    /\ Edit /\ spent' = 0 /\ apifyGranted' = 0 /\ blind' = 0
    /\ UNCHANGED <<vault, account, cache, ingest, deleting, bill>>

Ingest(w) ==
    \/ CheckBudget(w) \/ CheckBudgetBlindly(w)
    \/ UseCache(w) \/ AskApify(w) \/ StoreUsage(w) \/ TokenRefused(w) \/ ApifySilent(w)
    \/ NoToken(w) \/ StartActor(w) \/ StartRefused(w)
    \/ Succeed(w) \/ RunFails(w) \/ RecordSpend(w) \/ RecordFails(w) \/ Die(w)
Vault(t) ==
    \/ CreateToken(t) \/ UpdateToken(t) \/ DeleteToken(t) \/ Invalidate(t)
    \/ Revoke(t) \/ Expire(t)

Usage == [used : Nat \cup {None}, gen : Nat]
Credits == {c \in [at : {"credits"}, est : Estimates, left : SUBSET Tokens,
                   cap : [Tokens -> Nat], remaining : [Tokens -> Nat], got : Usage] :
              c.got # NoUsage => c.left # {}}
Actors == [at : {"running", "record"}, est : Estimates]
ApifyTypeOK ==
    /\ spent \in Nat /\ apifyGranted \in 0 .. spent /\ blind \in Nat
    /\ vault \in [Tokens -> [state : {"absent", "inactive", "active"},
                             cap : Caps \cup {DefaultCap}, gen : Nat]]
    /\ account \in [Tokens -> [used : Nat, valid : BOOLEAN]]
    /\ cache \in [Tokens -> Usage]
    /\ ingest \in [Workers -> {NoRun} \cup Credits \cup Actors]
    /\ deleting \in SUBSET Tokens
    /\ bill \in [started : Nat, recorded : Nat, slips : Nat]
    /\ bounds \in [polls : Nat, edits : Nat, faults : Nat]

Monthly == INSTANCE SpendGuard WITH
    Runs <- Workers, Limit <- Budget, MaxCost <- MaxEstimate,
    granted <- apifyGranted, pending <- {w \in Workers : ingest[w] # NoRun}

(* What Apify bills and the counter misses is at most one estimate for     *)
(* each run that failed, was started twice, whose worker died or whose     *)
(* record was lost, and for each that is under way; nothing is recorded    *)
(* that was not billed.                                                    *)
UnderWay == {w \in Workers : ingest[w].at \in {"running", "record"}}
BilledIsRecordedOrSlipped ==
    /\ bill.recorded <= bill.started
    /\ bill.started <= bill.recorded + (bill.slips + Cardinality(UnderWay)) * MaxEstimate

(* "Drop the cached credit summary so a re-added token is re-checked"      *)
(* (delete_token): a usage stored before the token was deleted is not      *)
(* there any more when the delete has dropped it, whatever polls see it.   *)
DeletedTokenIsForgotten ==
    \A t \in Tokens :
        cache[t] # NoUsage /\ t \notin deleting => cache[t].gen = vault[t].gen
=============================================================================
