--------------------------- MODULE ReplyPipeline ---------------------------
(***************************************************************************)
(* The reply pipeline of one organization: LangGraph graph #1              *)
(* (backend/pipeline/graph.py, nodes.py) as Celery runs it                 *)
(* (backend/tasks/workers.py, langgen_task).                               *)
(*                                                                         *)
(* A run is one poll of a campaign, (campaign_id, scheduled_ts).  A worker *)
(* takes its task, resumes from the checkpoint of that thread_id and       *)
(* executes node after node on the state it holds in memory.  LangGraph    *)
(* writes the checkpoint of a node in the background while the next node   *)
(* runs: a worker that dies leaves the last one or the one before.  Its    *)
(* task is then delivered again.  A delivery that outlives the broker's    *)
(* visibility timeout is given to a second worker while the first runs.    *)
(*                                                                         *)
(* A node is atomic here, except ingest, which waits for Apify, and        *)
(* persist_gate, the one node that writes drafts: it claims slots of the   *)
(* daily counters in Redis, which do not roll back, before it commits its  *)
(* rows.  DraftCaps models its inside; here there is the campaign's        *)
(* counter, and a slot that is given back at once is never claimed.  What  *)
(* the LLM and Apify answer is any value.                                  *)
(***************************************************************************)
EXTENDS Integers, Sequences, FiniteSets

CONSTANTS Runs, Campaigns, Posts, Workers,
          CampaignOf,      \* the campaign each run polls
          Feed,            \* the posts a run's actor returns
          Relevant,        \* the posts that pass a campaign's keyword filters
          DailyCap,        \* daily_draft_cap of each campaign
          BatchSize,       \* BATCH_SIZE of the strategist
          HookIsSet,       \* OrgSettings.reply_hook is not blank
          MaxSelections,   \* bound on the length of a scout's answer
          MaxFaults,       \* bound on worker deaths and exceptions
          MaxRedeliveries  \* bound on deliveries past the visibility timeout

ASSUME PipelineAssumption ==
    /\ IsFiniteSet(Posts)
    /\ CampaignOf \in [Runs -> Campaigns]
    /\ Feed \in [Runs -> SUBSET Posts]
    /\ Relevant \in [Campaigns -> SUBSET Posts]
    /\ DailyCap \in [Campaigns -> Nat]
    /\ HookIsSet \in BOOLEAN
    /\ BatchSize \in Nat \ {0}
    /\ MaxSelections \in Nat /\ MaxFaults \in Nat /\ MaxRedeliveries \in Nat

VARIABLES campaign,      \* campaigns.status, or DELETED
          task,          \* the langgen task of each run
          ckpt,          \* the last checkpoint of each thread_id, or the one before
          at,            \* what each worker is doing
          rows,          \* draft_replies
          posted,        \* posted_history of the organization
          used,          \* the campaigns' daily counters
          billed,        \* actor runs Apify has started for each run
          fresh,         \* deliveries of a run that found no ingest checkpoint
          before,        \* rows and posted_history when a run was dispatched
          faults, redeliveries

db == <<campaign, rows, posted>>
vars == <<campaign, task, ckpt, at, rows, posted, used, billed, fresh, before,
          faults, redeliveries>>

Nodes == {"ingest", "prefilter", "scout", "token_budget", "strategist",
          "finalize", "persist_gate", "end"}
Texts == {"reply", "hook_only", "empty"}
SeqsUpTo(S, n) == UNION {[1 .. m -> S] : m \in 0 .. n}

(* PipelineState.  A field that no later node decides by is left out once  *)
(* it has been used.                                                       *)
States == [posts : SUBSET Posts, selections : SeqsUpTo(Posts, MaxSelections),
           drafts : SeqsUpTo(Posts \X Texts, MaxSelections)]
Initial == [posts |-> {}, selections |-> <<>>, drafts |-> <<>>]
WithPosts(S) == [Initial EXCEPT !.posts = S]
WithSelections(s) == [Initial EXCEPT !.selections = s]
WithDrafts(s) == [Initial EXCEPT !.drafts = s]

Checkpoints == [next : Nodes, state : States]
Idle == [run |-> "none"]
Stages == {"start", "admitted", "retrying", "polling"}   \* of ingest_node
Busy == [run : Runs, next : Nodes, state : States, stage : Stages,
         tried : 0 .. MaxSelections,            \* drafts persist_gate has tried
         slots : SUBSET (1 .. MaxSelections)]   \* those of them with a slot
Rows == [campaign : Campaigns, post : Posts, run : Runs,
         status : {"PENDING", "FAILED", "FAILED_COST_LIMIT"}]

RunAt(w) == at[w].run
StateAt(w) == at[w].state
CampaignAt(w) == CampaignOf[RunAt(w)]
IsAt(w, node) == at[w] # Idle /\ at[w].next = node
AtStage(w, stage) == IsAt(w, "ingest") /\ at[w].stage = stage
RowsOf(c) == {x \in rows : x.campaign = c}

----------------------------------------------------------------------------
Init ==
    /\ campaign = [c \in Campaigns |-> "ACTIVE"]
    /\ task = [r \in Runs |-> "none"]
    /\ ckpt = [r \in Runs |-> [next |-> "ingest", state |-> Initial]]
    /\ at = [w \in Workers |-> Idle]
    /\ rows = {} /\ posted = {}
    /\ used = [c \in Campaigns |-> 0]
    /\ billed = [r \in Runs |-> 0]
    /\ fresh = [r \in Runs |-> 0]
    /\ before = [r \in Runs |-> [rows |-> {}, posted |-> {}]]
    /\ faults = 0 /\ redeliveries = 0

(* scheduler_tick sends langgen_task for a campaign it reads as ACTIVE. *)
Dispatch(r) ==
    /\ task[r] = "none" /\ campaign[CampaignOf[r]] = "ACTIVE"
    /\ task' = [task EXCEPT ![r] = "queued"]
    /\ before' = [before EXCEPT ![r] = [rows |-> rows, posted |-> posted]]
    /\ UNCHANGED <<db, ckpt, at, used, billed, fresh, faults, redeliveries>>

(* Mutant: a redelivered task starts from new_initial_state. *)
ResumeAfresh(r, c) == [run |-> r, next |-> "ingest", state |-> Initial, stage |-> "start",
                      tried |-> 0, slots |-> {}]

(* run_pipeline: a thread_id with a checkpoint is resumed after its last   *)
(* completed node; one without starts from new_initial_state.              *)
Resume(r, c) == [run |-> r, next |-> c.next, state |-> c.state, stage |-> "start",
                 tried |-> 0, slots |-> {}]

(* ckpt is the checkpoint that has been written for sure; that of the node *)
(* a worker has just left may have been written too.                       *)
Position(w) == [next |-> at[w].next, state |-> StateAt(w)]
Written(r) == {ckpt[r]} \cup {Position(w) : w \in {v \in Workers : at[v] # Idle /\ RunAt(v) = r}}
StartWorker(w, r) ==
    /\ at[w] = Idle
    /\ \E c \in Written(r) :
         /\ ckpt' = [ckpt EXCEPT ![r] = c]
         /\ at' = [at EXCEPT ![w] = Resume(r, c)]
         /\ fresh' = [fresh EXCEPT ![r] = @ + IF c.next = "ingest" THEN 1 ELSE 0]
    /\ UNCHANGED <<db, used, billed, before, faults>>

Deliver(w, r) ==
    /\ task[r] = "queued"
    /\ task' = [task EXCEPT ![r] = "taken"]
    /\ StartWorker(w, r)
    /\ UNCHANGED redeliveries

(* The broker gives an unacknowledged task to a second worker. *)
Redeliver(w, r) ==
    /\ task[r] = "taken" /\ redeliveries < MaxRedeliveries
    /\ redeliveries' = redeliveries + 1
    /\ StartWorker(w, r)
    /\ UNCHANGED task

(* A node returns: its update is merged into the state and the edge is     *)
(* taken.  The checkpoint of the node before it is written by now.         *)
Return(w, state, next) ==
    /\ at' = [at EXCEPT ![w] = [@ EXCEPT !.state = state, !.next = next,
                                         !.stage = "start", !.tried = 0, !.slots = {}]]
    /\ ckpt' = [ckpt EXCEPT ![RunAt(w)] = Position(w)]

(* Mutant: the status of the campaign is not looked at. *)
AdmitAlways(w) ==
    /\ AtStage(w, "start")
    /\ at' = [at EXCEPT ![w].stage = "admitted"]
    /\ UNCHANGED <<db, task, ckpt, used, billed, fresh, before, faults, redeliveries>>

(* ingest_node reads the campaign's status, once. *)
Admit(w) ==
    /\ AtStage(w, "start") /\ campaign[CampaignAt(w)] = "ACTIVE"
    /\ at' = [at EXCEPT ![w].stage = "admitted"]
    /\ UNCHANGED <<db, task, ckpt, used, billed, fresh, before, faults, redeliveries>>

(* A campaign that is not ACTIVE ends the run; so do, later, a budget that *)
(* is used up, a vault without a usable token and any error on the way.    *)
IngestSkips(w) ==
    /\ \/ AtStage(w, "start") /\ campaign[CampaignAt(w)] # "ACTIVE"
       \/ AtStage(w, "admitted")
    /\ Return(w, Initial, "end")
    /\ UNCHANGED <<db, task, used, billed, fresh, before, faults, redeliveries>>

(* The POST that starts an actor run, which Apify bills. *)
PostActor(w) ==
    /\ AtStage(w, "admitted") \/ AtStage(w, "retrying")
    /\ billed' = [billed EXCEPT ![RunAt(w)] = @ + 1]
    /\ at' = [at EXCEPT ![w].stage = "polling"]
    /\ UNCHANGED <<db, task, ckpt, used, fresh, before, faults, redeliveries>>

(* The POST fails, or its answer is lost: it is repeated five seconds      *)
(* later, once; the second failure ends the run.                           *)
PostFails(w) ==
    /\ \/ /\ AtStage(w, "admitted")
          /\ at' = [at EXCEPT ![w].stage = "retrying"]
          /\ UNCHANGED ckpt
       \/ AtStage(w, "retrying") /\ Return(w, Initial, "end")
    /\ \E n \in {0, 1} : billed' = [billed EXCEPT ![RunAt(w)] = @ + n]
    /\ UNCHANGED <<db, task, used, fresh, before, faults, redeliveries>>

(* The actor run succeeds, or it fails or times out and the run ends. *)
ActorReturns(w) ==
    /\ AtStage(w, "polling")
    /\ \/ Return(w, WithPosts(Feed[RunAt(w)]), "prefilter")
       \/ Return(w, Initial, "end")
    /\ UNCHANGED <<db, task, used, billed, fresh, before, faults, redeliveries>>

(* Mutants: the first dedup query is missing; the second one is scoped to  *)
(* the campaign.                                                           *)
PassesAnswered(w) == {p \in StateAt(w).posts :
                        /\ p \notin {x.post : x \in rows}
                        /\ p \in Relevant[CampaignAt(w)]}
PassesOtherCampaigns(w) == {p \in StateAt(w).posts :
                              /\ p \notin posted
                              /\ p \notin {x.post : x \in RowsOf(CampaignAt(w))}
                              /\ p \in Relevant[CampaignAt(w)]}

(* prefilter_node: posts the organization answered or has a draft for, and *)
(* posts no keyword matches, are dropped; of the others as many are kept   *)
(* as the daily cap has room for.  While another worker claims slots of    *)
(* the campaign it may hold one more for a moment, so that less is seen.   *)
Passes(w) == {p \in StateAt(w).posts :
                /\ p \notin posted
                /\ p \notin {x.post : x \in rows}
                /\ p \in Relevant[CampaignAt(w)]}
Room(c) == IF used[c] < DailyCap[c] THEN DailyCap[c] - used[c] ELSE 0
Contended(w) == \E v \in Workers \ {w} : IsAt(v, "persist_gate") /\ CampaignAt(v) = CampaignAt(w)
Prefilter(w) ==
    /\ IsAt(w, "prefilter")
    /\ campaign[CampaignAt(w)] # "DELETED" \/ StateAt(w).posts = {}
    /\ \E S \in SUBSET Passes(w) :
         /\ Cardinality(S) <= Room(CampaignAt(w))
         /\ Cardinality(S) = Room(CampaignAt(w)) \/ S = Passes(w) \/ Contended(w)
         /\ Return(w, WithPosts(S), IF S = {} THEN "end" ELSE "scout")
    /\ UNCHANGED <<db, task, used, billed, fresh, before, faults, redeliveries>>

(* Mutant: selections of unknown posts are kept. *)
ScoutTrusts(w) ==
    /\ IsAt(w, "scout")
    /\ \E answer \in SeqsUpTo(Posts, MaxSelections) :
         Return(w, WithSelections(answer), IF answer = <<>> THEN "end" ELSE "token_budget")
    /\ UNCHANGED <<db, task, used, billed, fresh, before, faults, redeliveries>>

(* scout_node: the LLM may name any posts, also unknown ones and the same  *)
(* one twice; selections of posts that were not sent are dropped, so that  *)
(* any sequence of posts that were sent may be left.  No LLM, a failed     *)
(* call or an answer that does not parse selects nothing.                  *)
Scout(w) ==
    /\ IsAt(w, "scout")
    /\ \E valid \in SeqsUpTo(StateAt(w).posts, MaxSelections) :
         Return(w, WithSelections(valid), IF valid = <<>> THEN "end" ELSE "token_budget")
    /\ UNCHANGED <<db, task, used, billed, fresh, before, faults, redeliveries>>

(* token_budget_node shortens posts; it drops no selection. *)
TokenBudget(w) ==
    /\ IsAt(w, "token_budget")
    /\ Return(w, StateAt(w), "strategist")
    /\ UNCHANGED <<db, task, used, billed, fresh, before, faults, redeliveries>>

(* strategist_node: every selected post gets one draft.  Batches are       *)
(* drafted concurrently and their drafts follow each other as the batches  *)
(* finish.  A text is empty when the batch call and the fallback call have *)
(* both failed; a batch has one text per post.  Without an LLM there are   *)
(* no drafts.                                                              *)
Batch(i) == (i - 1) \div BatchSize
BatchOrders(n) ==
    {f \in [1 .. n -> 1 .. n] :
        /\ \A i, j \in 1 .. n : (i < j /\ Batch(f[i]) = Batch(f[j])) => f[i] < f[j]
        /\ \A i, j, k \in 1 .. n :
              (i < j /\ j < k /\ Batch(f[i]) = Batch(f[k])) => Batch(f[j]) = Batch(f[i])}
Strategist(w) ==
    /\ IsAt(w, "strategist")
    /\ LET sel == StateAt(w).selections IN
       \/ \E f \in BatchOrders(Len(sel)), text \in [DOMAIN sel -> {"reply", "empty"}] :
            /\ \A i, j \in DOMAIN sel :
                  (Batch(i) = Batch(j) /\ sel[i] = sel[j]) => text[i] = text[j]
            /\ Return(w, WithDrafts([i \in DOMAIN sel |-> <<sel[f[i]], text[f[i]]>>]),
                      "finalize")
       \/ Return(w, Initial, "finalize")
    /\ UNCHANGED <<db, task, used, billed, fresh, before, faults, redeliveries>>

(* finalize_draft: the hook is appended, and stands alone when the draft   *)
(* is empty.                                                               *)
Finalized(text) == IF text = "empty" /\ HookIsSet THEN "hook_only" ELSE text
Finalize(w) ==
    /\ IsAt(w, "finalize")
    /\ LET d == StateAt(w).drafts IN
       Return(w, WithDrafts([i \in DOMAIN d |-> <<d[i][1], Finalized(d[i][2])>>]),
              "persist_gate")
    /\ UNCHANGED <<db, task, used, billed, fresh, before, faults, redeliveries>>

(* persist_gate_node.  The unique constraint (campaign_id, post_id) takes  *)
(* the first draft of a post the campaign has no row for; it takes none    *)
(* once the campaign is deleted.                                           *)
NewDrafts(w) ==
    LET d == StateAt(w).drafts IN
    {i \in DOMAIN d : /\ campaign[CampaignAt(w)] # "DELETED"
                      /\ d[i][1] \notin {x.post : x \in RowsOf(CampaignAt(w))}
                      /\ \A j \in 1 .. i - 1 : d[j][1] # d[i][1]}

(* The drafts are tried in order.  One that is refused a slot, for want of *)
(* room or because another worker holds one for a moment, is dropped.      *)
Refused(w, i) == i \notin NewDrafts(w) \/ Room(CampaignAt(w)) = 0 \/ Contended(w)
Tried(w, slots) == [at EXCEPT ![w].tried = @ + 1, ![w].slots = slots]
TryDraft(w) ==
    LET i == at[w].tried + 1 IN
    /\ IsAt(w, "persist_gate") /\ i \in DOMAIN StateAt(w).drafts
    /\ campaign[CampaignAt(w)] # "DELETED" \/ i > 1
    /\ at[w].slots \subseteq NewDrafts(w)
    /\ \/ /\ i \in NewDrafts(w) /\ Room(CampaignAt(w)) > 0
          /\ used' = [used EXCEPT ![CampaignAt(w)] = @ + 1]
          /\ at' = Tried(w, at[w].slots \cup {i})
       \/ /\ Refused(w, i)
          /\ at' = Tried(w, at[w].slots)
          /\ UNCHANGED used
    /\ UNCHANGED <<db, task, ckpt, billed, fresh, before, faults, redeliveries>>

(* Mutant: a draft the constraint refuses keeps its slot. *)
KeepSlot(w) ==
    /\ IsAt(w, "persist_gate")
    /\ \E i \in at[w].slots \ NewDrafts(w) : at' = [at EXCEPT ![w].slots = @ \ {i}]
    /\ UNCHANGED <<db, task, ckpt, used, billed, fresh, before, faults, redeliveries>>

(* The constraint refuses a draft: the row of another worker has been      *)
(* committed, or the campaign deleted, after the slot was claimed.         *)
GiveSlotBack(w) ==
    /\ IsAt(w, "persist_gate")
    /\ \E i \in at[w].slots \ NewDrafts(w) : at' = [at EXCEPT ![w].slots = @ \ {i}]
    /\ used' = [used EXCEPT ![CampaignAt(w)] = @ - 1]
    /\ UNCHANGED <<db, task, ckpt, billed, fresh, before, faults, redeliveries>>

(* The commit.  The status says whether there is a text and whether the    *)
(* cost guard (cost) raised.                                               *)
RowFor(w, i, cost) ==
    LET d == StateAt(w).drafts[i] IN
    [campaign |-> CampaignAt(w), post |-> d[1], run |-> RunAt(w),
     status |-> IF d[2] = "empty" THEN "FAILED"
                ELSE IF i \in cost THEN "FAILED_COST_LIMIT" ELSE "PENDING"]
PersistGate(w) ==
    /\ IsAt(w, "persist_gate") /\ at[w].tried = Len(StateAt(w).drafts)
    /\ at[w].slots \subseteq NewDrafts(w)
    /\ \E cost \in SUBSET at[w].slots :
         rows' = rows \cup {RowFor(w, i, cost) : i \in at[w].slots}
    /\ Return(w, Initial, "end")
    /\ UNCHANGED <<campaign, posted, used, task, billed, fresh, before, faults,
                   redeliveries>>

(* The graph has ended and its checkpoints are written: the task is        *)
(* acknowledged.                                                           *)
Finish(w) ==
    /\ IsAt(w, "end")
    /\ ckpt' = [ckpt EXCEPT ![RunAt(w)] = [next |-> "end", state |-> Initial]]
    /\ task' = [task EXCEPT ![RunAt(w)] = "acked"]
    /\ at' = [at EXCEPT ![w] = Idle]
    /\ UNCHANGED <<db, used, billed, fresh, before, faults, redeliveries>>

(* Mutant: the task is acknowledged when it is taken. *)
CrashLosesTask(w) ==
    /\ at[w] # Idle /\ faults < MaxFaults
    /\ faults' = faults + 1
    /\ at' = [at EXCEPT ![w] = Idle]
    /\ UNCHANGED <<db, task, ckpt, used, billed, fresh, before, redeliveries>>

(* The worker process dies, before or after the checkpoint of its last     *)
(* node is written: the task goes back to the queue.                       *)
Crash(w) ==
    /\ at[w] # Idle /\ faults < MaxFaults
    /\ faults' = faults + 1
    /\ task' = [task EXCEPT ![RunAt(w)] = IF @ = "acked" THEN "acked" ELSE "queued"]
    /\ at' = [at EXCEPT ![w] = Idle]
    /\ ckpt' \in {ckpt, [ckpt EXCEPT ![RunAt(w)] = Position(w)]}
    /\ UNCHANGED <<db, used, billed, fresh, before, redeliveries>>

(* An exception leaves a node: the task has failed and is acknowledged. *)
Fail(w) ==
    /\ task' = [task EXCEPT ![RunAt(w)] = "acked"]
    /\ at' = [at EXCEPT ![w] = Idle]
    /\ UNCHANGED <<db, ckpt, used, billed, fresh, before, redeliveries>>
Raise(w) ==
    /\ at[w] # Idle /\ faults < MaxFaults
    /\ faults' = faults + 1
    /\ Fail(w)

(* The campaign a node reads is gone: None has no keywords, no subreddit   *)
(* (strategist_node looks for one on Reddit only) and no cap.  A           *)
(* persist_gate that has read it before does not notice.                   *)
CampaignGone(w) ==
    /\ at[w] # Idle
    /\ campaign[CampaignAt(w)] = "DELETED"
    /\ \/ IsAt(w, "prefilter") /\ StateAt(w).posts # {}
       \/ IsAt(w, "strategist")
       \/ IsAt(w, "persist_gate") /\ StateAt(w).drafts # <<>> /\ at[w].tried = 0
    /\ Fail(w)
    /\ UNCHANGED faults

Step(w) ==
    \/ Admit(w) \/ IngestSkips(w) \/ PostActor(w) \/ PostFails(w) \/ ActorReturns(w)
    \/ Prefilter(w) \/ Scout(w) \/ TokenBudget(w) \/ Strategist(w) \/ Finalize(w)
    \/ TryDraft(w) \/ GiveSlotBack(w) \/ PersistGate(w)
    \/ Finish(w) \/ CampaignGone(w)

(* The API: the kill switch pauses every campaign, a campaign is resumed   *)
(* or deleted with its drafts, a reviewer confirms a post.                 *)
KillSwitch ==
    /\ \E c \in Campaigns : campaign[c] = "ACTIVE"
    /\ campaign' = [c \in Campaigns |-> IF campaign[c] = "ACTIVE" THEN "PAUSED"
                                        ELSE campaign[c]]
    /\ UNCHANGED <<task, ckpt, at, rows, posted, used, billed, fresh, before,
                   faults, redeliveries>>

ResumeCampaign(c) ==
    /\ campaign[c] = "PAUSED"
    /\ campaign' = [campaign EXCEPT ![c] = "ACTIVE"]
    /\ UNCHANGED <<task, ckpt, at, rows, posted, used, billed, fresh, before,
                   faults, redeliveries>>

DeleteCampaign(c) ==
    /\ campaign[c] # "DELETED"
    /\ campaign' = [campaign EXCEPT ![c] = "DELETED"]
    /\ rows' = rows \ RowsOf(c)
    /\ UNCHANGED <<task, ckpt, at, posted, used, billed, fresh, before, faults,
                   redeliveries>>

ConfirmPosted(x) ==
    /\ x.status = "PENDING" /\ x.post \notin posted
    /\ posted' = posted \cup {x.post}
    /\ UNCHANGED <<campaign, rows, task, ckpt, at, used, billed, fresh, before,
                   faults, redeliveries>>

Next ==
    \/ \E r \in Runs : Dispatch(r)
    \/ \E w \in Workers, r \in Runs : Deliver(w, r) \/ Redeliver(w, r)
    \/ \E w \in Workers : Step(w) \/ Crash(w) \/ Raise(w)
    \/ KillSwitch
    \/ \E c \in Campaigns : ResumeCampaign(c) \/ DeleteCampaign(c)
    \/ \E x \in rows : ConfirmPosted(x)

Spec == Init /\ [][Next]_vars

(* A worker that is up takes tasks and goes on with the one it has. *)
Fairness ==
    /\ \A w \in Workers : WF_vars(Step(w))
    /\ \A r \in Runs : WF_vars(\E w \in Workers : Deliver(w, r))
FairSpec == Spec /\ Fairness

----------------------------------------------------------------------------
(* Every variable has its type. *)
TypeOK ==
    /\ campaign \in [Campaigns -> {"ACTIVE", "PAUSED", "DELETED"}]
    /\ task \in [Runs -> {"none", "queued", "taken", "acked"}]
    /\ ckpt \in [Runs -> Checkpoints]
    /\ \A w \in Workers : at[w] \in Busy \cup {Idle}
    /\ rows \in SUBSET Rows
    /\ posted \in SUBSET Posts
    /\ used \in [Campaigns -> Nat] /\ billed \in [Runs -> Nat] /\ fresh \in [Runs -> Nat]
    /\ before \in [Runs -> [rows : SUBSET Rows, posted : SUBSET Posts]]
    /\ faults \in Nat /\ redeliveries \in Nat

(* A post the organization has answered is left alone by every poll that   *)
(* is dispatched later, whatever crashes, resumes from an old checkpoint   *)
(* or runs twice, and also when the campaign of the answer is deleted.     *)
PostedIsLeftAlone == \A x \in rows : x.post \notin before[x.run].posted

(* Dedup is scoped to the organization (prefilter_node): a poll that is    *)
(* dispatched while a post has a draft, of any campaign, does not draft it *)
(* again as long as that draft exists.                                     *)
DedupAcrossPolls ==
    \A x, y \in rows :
        (x.post = y.post /\ x # y) => x \notin before[y.run].rows

(* What is drafted was returned by the run's own poll and passed the       *)
(* campaign's filters, whatever post ids the scout made up.                *)
OnlyPolledPostsAreDrafted ==
    \A x \in rows : x.post \in Feed[x.run] \cap Relevant[x.campaign]

(* No re-billing (run_pipeline): a delivery that finds ingest in the       *)
(* checkpoint starts no actor run, however often it is repeated; one that  *)
(* does not starts one, or the two of a repeated POST.                     *)
BilledOnlyWhenFresh == \A r \in Runs : billed[r] <= 2 * fresh[r]

(* A drafted post has one row in a campaign, and a slot is counted for     *)
(* each row and each draft that is being persisted, no more: drafts that a *)
(* concurrent or repeated execution of persist_gate finds in the table     *)
(* give theirs back.  What a worker held when it died, or an exception     *)
(* ended it, stays claimed for the day.                                    *)
HeldSlots(c) == {h \in Workers \X (1 .. MaxSelections) :
                   at[h[1]] # Idle /\ CampaignAt(h[1]) = c /\ h[2] \in at[h[1]].slots}
OneSlotPerRow ==
    \A c \in Campaigns :
        LET claimed == Cardinality(RowsOf(c)) + Cardinality(HeldSlots(c)) IN
        /\ Cardinality({x.post : x \in RowsOf(c)}) = Cardinality(RowsOf(c))
        /\ claimed <= used[c]
        /\ campaign[c] # "DELETED" => used[c] <= claimed + faults * MaxSelections

(* The kill switch, a pause and a delete stop a poll that has not been     *)
(* admitted yet: while its campaign is not ACTIVE none is admitted, and    *)
(* none is billed or, unless it was billed before, inserts a draft but one *)
(* that was past the status check when the campaign stopped.               *)
DraftsOf(r) == {x \in rows : x.run = r}
Admitted(r) == \E w \in Workers : IsAt(w, "ingest") /\ RunAt(w) = r /\ at[w].stage # "start"
PauseStopsPolls ==
    [][\A r \in Runs : (campaign[CampaignOf[r]] # "ACTIVE" /\ ~Admitted(r)) =>
          /\ ~Admitted(r)'
          /\ billed'[r] = billed[r]
          /\ billed[r] = 0 => DraftsOf(r)' \subseteq DraftsOf(r)]_vars

(* A task that is delivered again "resumes from the last completed node"   *)
(* (langgen_task): as long as none is while it runs, the checkpoints of a  *)
(* run go forward through the graph whatever dies, and a run that has been *)
(* acknowledged is never taken up again and inserts nothing.               *)
Rank(node) ==
    CASE node = "ingest" -> 1 [] node = "prefilter" -> 2 [] node = "scout" -> 3
      [] node = "token_budget" -> 4 [] node = "strategist" -> 5
      [] node = "finalize" -> 6 [] node = "persist_gate" -> 7 [] node = "end" -> 8
RunsGoForward ==
    [][redeliveries' = 0 => \A r \in Runs :
          /\ Rank(ckpt[r].next) <= Rank(ckpt'[r].next)
          /\ task[r] = "acked" =>
                /\ task'[r] = "acked" /\ ckpt'[r] = ckpt[r]
                /\ DraftsOf(r)' \subseteq DraftsOf(r)]_vars

(* acks_late, reject_on_worker_lost (langgen_task): a task that has been   *)
(* taken and is neither acknowledged nor back in the queue is being worked *)
(* on, however many workers had it and whichever of them died.             *)
NoTaskIsLost ==
    \A r \in Runs : task[r] = "taken" => \E w \in Workers : at[w] # Idle /\ RunAt(w) = r

(* A dispatched run comes to an end: its task is acknowledged in spite of  *)
(* worker deaths, early ends and deleted campaigns.                        *)
RunsFinish == \A r \in Runs : task[r] = "queued" ~> task[r] = "acked"
=============================================================================
