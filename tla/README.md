# Sentinel: TLA+ models, checks and proofs

Sentinel (`src/backend`, FastAPI, Celery, Redis, Postgres, LangGraph) polls
Reddit, X and LinkedIn through Apify for posts about an organization's topics,
drafts replies with an LLM and puts them into an inbox, where people edit them,
copy them out and confirm that they were posted. This directory holds TLA+
models of the parts of it that run concurrently or survive failures, TLC runs
of small instances, and proofs for all sizes.

Line numbers are those of the files under `src/backend/` unless a path says
otherwise. `PROJECT.json` maps every definition to the lines it stands for and
lists the hazards, one by one, at the line where each bites.

## 1. The system

### Processes

| Process | What it runs | Failure behaviour |
|---|---|---|
| API (uvicorn, async) | every request in its own Postgres session (`database.py:25-31`); no row locks | a request that dies is rolled back; what it did to Redis stays |
| langgen worker, concurrency 8 (`docker-compose.yml:49`) | `langgen_task`, `analyst_task` | `acks_late`, `reject_on_worker_lost`: redelivered after a death; an exception acknowledges the task and nothing retries it |
| maintenance worker, concurrency 1 | `scheduler_tick`, lock sweep, reaper, outcomes, purges | acknowledged when started: a death loses the rest |
| Celery beat | sends the periodic tasks | |
| `docker-compose.lite.yml` | one worker with concurrency 2 for all queues | as above; two ticks may overlap |

Shared state: Postgres (rows, LangGraph checkpoints), Redis (daily counters, the
sorted set of the scheduler, spend counters, the broker's queues). No
transaction spans both.

### Components

**Inbox** (`api/inbox.py`). State: `draft_replies.status`, `locked_by`,
`locked_at`, `posted_history`, the audit log. Operations: lock, edit,
open-copy, confirm-posted, unconfirm, reject, ignore, and the sweep of old locks
(`workers.py:103-135`). Hard: every handler reads, checks in memory and commits,
without a row lock. Correct when: a POSTED draft is recorded for deduplication
and was handed to a reviewer, locks keep later requests out, status changes
follow the status machine.

**Daily draft caps** (`pipeline/prefilter.py`, `persist_gate_node` in
`pipeline/nodes.py:704-884`). State: Redis counters `draftcap:...` per campaign
and per subreddit, the rows of the day. Operations: claim (INCR, compare, DECR),
release, insert in a savepoint, commit. Hard: eight runs interleave Redis
commands, Redis does not roll back with Postgres, a node is run again after a
crash. Correct when: no counter admits more rows than its cap, and slots are
neither leaked nor given back twice.

**Reply pipeline** (`pipeline/graph.py`, `nodes.py`, `tasks/workers.py:39-100`).
State: the checkpoint of each thread, the state a worker holds, draft rows,
posted history. Operations: dispatch, deliver, seven nodes. Hard: resume from an
older checkpoint, two deliveries at once, decisions on data read minutes before,
an LLM that may answer anything, a status that is read long before the actor is
started. Correct when: no post is answered twice, only polled posts are drafted,
every slot has an owner, Apify is not billed again for what is checkpointed, a
pause stops the polls that have not been admitted, a run ends.

**Poll scheduler** (`tasks/scheduler.py`, `api/campaigns.py`, the kill switch in
`api/org.py:89-124`). State: campaign status, the sorted set, what a tick has
popped. Operations: tick; create, update and delete a campaign; kill switch;
deactivation of an organization. Hard: Postgres and Redis are updated in turn,
by handlers that overlap with the tick and each other. Correct when: an active
campaign stays scheduled and is polled again and again, never twice for one
period, and a deleted one leaves the set.

**Analyst runs** (`pipeline/analyst_*.py`, `api/analyst.py`,
`workers.py:138-360`). State: `analyst_runs.status`, the checkpoint of each run,
classifications and clusters, the week's brief. Operations: trigger, weekly
tick, delivery, the nodes, the reaper. Hard: check-then-insert triggers, a
reaper that races the run it reaps, four writers of one status that each read
it first, nodes that are not idempotent. Correct when: a run in flight blocks
new ones and a wedged one does not, every run ends, a final status and the brief
agree, the forecast does not count twice.

**Apify ingestion** (`ingestion/service.py`, `runner.py`, `tokens.py`,
`api/apify.py`). State: the month's spend in Redis, the token vault in Postgres,
the usage of each token cached in Redis. Operations: budget check, credit
lookup, token choice, actor run, spend record; create, update and delete a
token. Hard: check and record are an actor run apart; three stores that nothing
ties together; a POST whose answer is lost. Correct when: the overshoot is
bounded by the runs in flight, billed money is recorded or accounted for, a
deleted token's usage is forgotten.

**LLM cost guard** (`utils/cost_guard.py`). State: Redis counters of tokens per
day and cost per month. Operations: check and record, record only. Hard: read,
compare and increment are separate, an Analyst node has five checks and calls in
flight at once (`analyst_nodes.py:65`), the date may change in between. Correct
when: the overshoot is bounded by the calls in flight.

**Webhooks and provisioning** (`api/webhooks.py`, `utils/auth.py`,
`scheduler.py:107-130`). State: organizations, users, memberships, processed
svix ids. Operations: seven Clerk events, the purge of ids, the start of a
session. Hard: events out of order, twice, at the same time, or racing a
session that provisions from a token; statements that do not see what another
transaction has inserted. Correct when: each event has its effect once, and the
database ends up as Clerk is; what goes wrong before is put right by the next
event.

**Outcomes** (`pipeline/outcomes.py`). State: `engagement_outcomes`. Operations:
a poll every six hours, one commit for all drafts. Hard: two polls that overlap,
no unique constraint, a commit that is lost. Correct when: every hour of a
posted reply is measured, once.

**Strategist batching** (`pipeline/strategist.py`) and the **drafting
algorithms** (hook, token budget, signal tier) decide texts and their order; to
the models, any answer will do.

The remaining parts (prompts, personas, settings, analytics, admin, encryption,
LLM transport, normalization, seed, migrations, frontend) keep no state over
which actors compete; `PROJECT.json` says for each why it is left out.

### How they interact

```
 beat -> Scheduler --send_task--> ReplyPipeline --claims slots--> DraftCaps
   |         ^                     |  |  ^    |
   |   API: campaigns, kill switch |  |  |    +--inserts rows--> Inbox --POSTED--> Outcomes
   |                               |  |  +---- deduplication ------+
   |                               |  +--- LLM calls ---> LlmGuard <---+
   |                               +--- actor runs ---> ApifySpend <---+
   +-> weekly tick, API: trigger --> AnalystRuns ----------------------+
 Clerk -> webhooks, sessions (Tenancy): organizations that the others look up
```

## 2. The modules

### Inbox

A request is two steps: `Load` (the SELECT, the status check and the lock
check, all on the loaded object) and `Commit` (the UPDATE of the columns that
differ from what was loaded, `posted_history`, the audit rows). `Abort` is a
rollback. SQLAlchemy writes only changed columns; `WriteRow` follows that, which
is why an owner may survive a commit that did not mean to keep it. Time is the
age of a lock in units of which `LockTicks` make the 15 minutes.

### DraftCaps and DailyQuota

`DraftCaps` is `persist_gate_node` one Redis command at a time: `Claim`,
`Overshoot` and `Revert` are the three outcomes of `reserve_daily_slot`;
`GiveBack` is `release_daily_slot` and the unwinding of `reserve_daily_slots`;
`Insert`, `Duplicate` and `Commit` are the savepoint and the transaction. A row
in another open transaction blocks an insert; `DeadlockVictim` is what Postgres
does when runs wait for each other in a circle, of whatever length. `Crash` requeues the run, `Raise` does not,
and both roll back rows but not counters. `LoseCounters` is a restart of Redis
without its data.

`DailyQuota` is what all this promises: a set of persisted rows that grows by
any rows for which every counter charged has room, nothing else.
`DraftCaps!ImplementsQuota` maps the committed rows to it, with caps that make
room for what each loss of Redis lets through (`DayCap`); without losses they are
the caps themselves.

### ReplyPipeline

One action per node, on the state a worker holds (`at`), between `Deliver` and
`Finish`; two nodes are not atomic. `ingest_node` is `Admit` (the status check)
or `IngestSkips`, then, after the awaits for settings, tokens, budget and
credits, `PostActor` or `PostFails` (a POST that fails or whose answer is lost is
repeated, once) and `ActorReturns`; `stage` says how far a worker is, and a pause,
a kill switch, a delete or a death may come in between. `persist_gate_node` is a
`TryDraft` for each draft, which claims a slot of the campaign's counter,
`GiveSlotBack` when the unique constraint refuses the row, and `PersistGate`, the
commit. A worker that dies before it leaves what it has claimed counted. Of the
inside of `reserve_daily_slots`, which is DraftCaps, what is left is that a slot
may be refused while another worker holds one for a moment (`Contended`).

LangGraph runs with its default durability, in which a checkpoint is written
while the next node runs; so `ckpt` is the last one written for sure and a
crash, or a second delivery, may find that one or the next (`Written`). The
LLM's and Apify's answers are any value: a scout may name unknown posts, or one
twice. `KillSwitch`, `ResumeCampaign`, `DeleteCampaign` and `ConfirmPosted` are
the API as far as the pipeline sees it. `before`, `billed` and `fresh` are
history variables: what was there when a run was dispatched, the actor runs
started, the deliveries that found no checkpoint of ingest.

### Scheduler

The tick is `Scan` (ZRANGEBYSCORE), `Pop` (ZREM of all that was read), then per
campaign `Read`, `Send`, `Reschedule`, or `Drop` for a member without a row, and
`TickError` for the except branch. Each API handler is its database half and its
Redis half; the kill switch is four steps because it changes Redis before it
commits and holds row locks in between. A score is the time until a member is
due, so the state space is finite although time goes on. `rest` is a history
variable: how long until a campaign may rightly be sent again.

### AnalystRuns

A run is a row (`runs`), a Celery task (`task`), a checkpoint thread (`ckpt`)
and up to two workers (`at`): the second stands for a redelivery while the first
still works. `Check` and `Insert` are the two halves of
`trigger_analyst_run` and of one organization's turn in `analyst_weekly_tick`;
the row remembers which rows the check looked at (`knew`). A node either returns
(`Return`: the edge, and the checkpoint of the node before) or opens a
transaction on the row; `Begin` reads the status and `Commit...` writes it, if
it differs from what was read, so that two writers, or a writer and the reaper,
overlap as they do in Postgres. `classify` is four nodes in one (triage,
cluster, stance, quotes), which share nothing but the cost guard's refusal.
`ReapSelect` and `ReapCommit` are the two halves of the reaper. `tries` and
`early` are history variables: deliveries, and those that found aggregate not
yet checkpointed.

### SpendGuard, ApifySpend, LlmGuard, OrgSpend

`SpendGuard` is the abstract guard: runs are admitted while the counter leaves
room for some cost (the code compares with what the run asks for; what it costs
in the end may be another), and add theirs later. It does not promise the limit,
but `OvershootIsBounded`: the limit, one cost for each run that can be under way,
and one for each check that could not read the counter.

`ApifySpend` is `run_ingest` with its callees: `CheckBudget`, one step per token
for the credit (`UseCache`, `AskApify` and `StoreUsage`, `TokenRefused`,
`ApifySilent`), the choice, the start with its retry (`StartActor`: a lost
answer starts a second run), and the record. `Vault(t)` is `api/apify.py`;
`deleting` is the time between the commit of `delete_token` and the removal of
the cached usage, `gen` numbers the lives of a token's row. `bill` is a history
variable: what Apify bills, what was recorded, how often the two came apart.

`LlmGuard` is `check_and_record_llm_usage` one Redis command at a time, and
`record_llm_usage`. `OrgSpend` composes the two. A worker is in an ingest or in a
later node, never in both; that node may have up to `Concurrency` checks and
calls in flight (`Slots`), which is CONCURRENCY, 5, in the semaphores of triage,
cluster, stance and quotes (`analyst_nodes.py:317`, `402`, `471`, `556`). All other
nodes have fewer. A new month is one for both counters. `ImplementsGuards`
instantiates `SpendGuard` twice: with the month's spend, where pending runs are
those that passed the check, and with the tokens of the day, where they are the
calls of today that were not refused. The month's LLM cost is compared and
counted in LlmGuard, but has no instance of `SpendGuard`.

### Tenancy

Clerk's side of one organization, user and membership (`clerk`, external), the
events it has sent, what Svix still delivers, and the database. Postgres runs at
READ COMMITTED: `uncommitted` has what each open transaction has written.
`Executes` lets a statement wait for the row another one has written, but what
it writes is decided by what is committed, so that a DELETE or an UPDATE does
nothing about a row that is only being inserted.

A webhook is `Claim` (the INSERT of the svix id, with the lookups; a second
handler of the same id waits, as it does for Postgres' unique index), `Execute`
(the statement of the event), and `Commit`, or `Fail` at any point. A session,
`get_current_session`, is `OpenSession`, `Provision` (the rows that are missing),
`CommitSession` or `DropSession`.

`excused` has the rows that may differ from Clerk. A row gets into it when the
last event on it is executed before an earlier one is committed (`Early`), or finds
no organization or user (`Skipped`), and when a session commits a role that is not
Clerk's. It leaves it as soon as an event that is the newest is executed in its
order. So an error about a row that a later event should have put right is not
excused: `MirrorsClerk` depends on what the last event does, not on whether
anything ever went wrong.

### Outcomes

`Start` selects the posted drafts, `Measure` and `FetchFails` are one draft of
the loop, `Commit` the one commit, `Abort` an exception or a death. POSTED is
final here; what Inbox says about overlapping requests that undo it is left
aside.

## 3. The runs

| Run | Instance | What it shows |
|---|---|---|
| `inbox` | 1 draft, 2 users, 2 requests | the guarantees that survive overlapping requests |
| `caps` | 3 runs, one with four drafts, 2 campaigns sharing a subreddit counter, caps 2, 1, 2, one fault, one loss | caps, counters and slots under every interleaving; what a loss of the counters lets through |
| `caps_end` | 4 runs, 3 of which insert first what the next inserts last; a zero cap, one fault | whoever waits, some run can go on or is aborted; each step leaves a run less work; every run ends; the quota is implemented |
| `pipeline` | 2 campaigns, 2 runs, 2 posts, 2 workers, one fault | deduplication, provenance of drafts |
| `pipeline_redelivery` | 1 run, 1 post that may be selected twice, 2 workers, one fault, one early redelivery | billing; slots, with two workers in persist_gate and a death there; no task is lost; a pause stops polls that are not admitted; a run goes forward, and ends |
| `scheduler` | 2 campaigns, one tick process, one request at a time, 3 requests, one error, one death | campaigns stay scheduled, are lost only by deaths, are polled, are forgotten |
| `scheduler_race` | two requests at a time | **violated**: active campaigns stay scheduled |
| `analyst` | 2 runs without faults or 1 with two, a request and a tick, a change of week, everything stale an hour later | which runs see each other; status, brief and forecast; every run ends |
| `analyst_unconfigured` | the same | **violated**: render_brief does not crash a run |
| `spend` | 2 workers with 2 calls each in flight, 2 tokens, estimates 1 and 2, budget 2; calls of 1 and 2, limits 2 and 3, 2 days | the Apify month and the LLM day implement SpendGuard; billed money; deleted tokens |
| `tenancy` | 4 events, 2 handlers, 1 session, one fault | one effect per event; agreement with Clerk after the last event on a row |
| `outcomes` | 2 polls, 3 drafts (2 on Reddit), hours 1 and 2, one fault | every measure is taken, and how often |

### Bounds, and why they are enough

- *Inbox*: every property is about one draft, and a draft shares nothing with
  others but `posted_history`, which only grows. A race needs two requests; a
  third can only repeat what one of the two does. `LockTicks = 1` gives the four
  cases fresh, at the limit, past it, older. The proofs have no bounds.
- *Caps*: two runs of one campaign begin with the same post, and the caps have
  room for both to claim its slots, so that the duplicate row comes up; the
  third, of another campaign, contends for the shared counter and has four
  drafts, one more than its own counter of cap 1 may grant when it is lost once
  (2 * 1 + 1), so that the bound of `LossIsBounded` can be passed: it is when a
  claim fails open. A zero cap and deadlocks are in `caps_end`: the three runs can
  wait in a circle, which ends only if each, by its commit or its end, lets the
  others go on. One fault is enough for a phantom slot, one loss for a negative
  counter. The quota is checked without losses; the proofs are without bounds
  and with losses.
- *Pipeline*: two campaigns that see one post, with two workers, one of which may
  stop and leave the other to take its task. The caps, 2 and 1, are reached.
  Without a hook a draft may be FAILED. `pipeline_redelivery` has a hook, and a
  scout that may name its one post twice (`MaxSelections = 2`, with
  `BatchSize = 1`, so that the two drafts are in different batches and come in
  either order); the cap leaves room for both. One fault and one redelivery give
  two workers on one thread, every lag of the checkpoint, and a death in every
  place of ingest and persist_gate.
- *Scheduler*: `Period = 2` and `Retry = 1` tell due, retry and next poll apart.
  Three requests are enough for create, pause, resume, or create, pause, delete.
  With `Requests = {q1}` requests follow each other, though a tick may be
  anywhere in between: overlapping ones break the property (see
  `scheduler_race`). The proofs hold for any period and retry.
- *Analyst runs*: a race is between two runs, or between two workers and the
  reaper on one; both at once would repeat what each shows. `Budgets` gives two
  runs, or one run and two faults: a death and a second delivery, or an
  exception after either. With `StaleAfter = 0` and two times, a row is fresh or
  stale; the week changes with the time, so that a run of one week can classify
  while one of the next is in flight. One post is classified or not. The proofs
  have no bounds.
- *Spend*: two workers pass the check together, and so do two calls of one worker
  (`Concurrency = 2`; a third in the same place would repeat what the second shows,
  and there are three calls). The budget, 2, has room for
  one run of either estimate or two of the smaller; the caps, 0 (which means the
  default, 2) and 1, make the two tokens run out at different times. `ApifyBudgets` trades
  polls, edits of the vault and faults against each other. Three calls on two
  days, one of which may be the first of a month, reach both limits.
- *Tenancy*: four changes in Clerk are enough for create, join, leave and
  join again, from nothing or from an organization that exists; two handlers
  reorder or duplicate them, and one may execute its statement while the other's
  is not committed. Ids are interchangeable only for handlers, hence the
  symmetry.
- *Outcomes*: two polls overlap in every way; of the three drafts one is not on
  Reddit. A time reaches both hours, in one poll or in two.

Deadlock is checked wherever the system may not stop (Inbox, Scheduler). The
other models end: their runs, polls, events or times are finitely many, so those
configurations switch it off; `RunsEnd`, `RunsFinish`, `EveryRunEnds` and
`OutcomesAreRecorded` state that they end properly.

### Fairness

- `DraftCaps!FairSpec`: weak fairness of each run's `Step`: a worker that is
  not dead goes on. Crashes, exceptions and losses are never forced.
- `ReplyPipeline!FairSpec`: weak fairness of each worker's `Step`, and of the
  delivery of each queued task to some worker: the broker keeps handing out
  tasks. Early redelivery, crashes and API calls have none.
- `Scheduler!FairSpec`: time passes, beat sends a tick every minute, and a tick
  or request that started goes on. `ActiveIsPolled` assumes that nothing dies,
  because a tick that dies loses campaigns for good (below).
- `AnalystRuns!FairSpec`: time passes, and the reaper, which beat starts every
  15 minutes, goes on. Workers have no fairness at all: `EveryRunEnds` holds
  even if every one of them dies, which is what the reaper is for. It speaks of
  rows that can become stale before `MaxClock`.
- `Outcomes!FairSpec`: time passes, and each process goes on polling, as beat
  starts a poll every six hours. Deaths and failing fetches are bounded.

## 4. The proofs

`tlapm M_proofs.tla` for M one of Inbox, DraftCaps, ReplyPipeline, Scheduler,
AnalystRuns, OrgSpend, Tenancy, Outcomes. Every invariant and action property of
the passing runs is a theorem; the invariants below were first checked by TLC on
the instances of the runs. The type invariant of each module is proved
(`TypeCorrect`), and as a rule no run repeats it. `DeletedStaysForgotten` of
Scheduler, which speaks of requests that overlap, is a theorem only: the
instance of `scheduler` has one request at a time.

**Inbox_proofs**, for any sets of drafts, posts, users and requests and any lock
duration:

- `TypeCorrect`.
- `PostedRecorded` and `PostedHandedOff`. The second is not inductive: a request
  that loaded AWAITING_CONFIRM commits POSTED later, whatever happened to the
  draft meanwhile. `InboxInv` adds what a request has loaded (`Loaded`): a
  status its operation may start from, and, if that is AWAITING_CONFIRM, a draft
  whose open-copy is in the audit log, which only grows.
- `LockIsAFence`: a request that could still commit over somebody's live lock
  holds an owner and an age that differ from the row's. It follows from the
  third part of `Loaded`: the copy a request holds was free for its user when
  it was read and, as ages only grow, stays so.
- `SweepSpares` and `StatusMachine`, two action properties. The second is the
  first part of `Loaded` once more: what a commit writes is allowed from the
  status its request has read, so a step that is not allowed from the status of
  the row has read another one.

**DraftCaps_proofs**, for any runs, drafts, campaigns, counters, caps and number
of faults:

- `TypeCorrect`, together with the shape of a run at each program counter
  (which slots it may hold, that an insertion is charged to all its counters).
- `CountersCover`, `CapsHold` and `LossBounded`, by the inductive `Good(k)` of a
  single counter: it is at least rows + slots held + increments about to be
  reverted, and rows + slots fit its cap, both up to a `Slack` of one cap and one
  draft per run of the counter for each loss of Redis. The first half is what
  makes the second inductive: an INCR whose result is within the cap proves that
  there is room, because concurrent, not yet reverted increments only make it
  larger.
- `NoPhantoms`: the same sum, exactly (`Exact(k)`), as long as nothing has
  failed. Every step of a run other than its end by a fault, and every loss of
  Redis aside, shifts counter and sum by the same amount (`Balanced`), one lemma
  for each step that touches the counter; both invariants follow from that.
- `QuotaRefined`: every step maps to a step of `DailyQuota` or to a stutter;
  only `Commit` adds rows to the committed ones, and `Good(k)`, with its slack,
  says that they fit.
- `WaitingResolved`: of the runs that wait and have rows, each waits for another
  one of them, unless some run with rows can go on. Of the non-empty sets in which
  each run waits for one of the set take a minimal one (`WFMin`, as there are
  finitely many runs): those that are waited for in it are such a set too, hence
  all of it, so it is a circle, and each of its runs can be aborted.
- `WorkRunsOut`: `WorkLeft(r)` is a natural number that every step of r makes
  smaller and no step of another run touches; one lemma for each part of the
  loop. Together with `WaitingResolved` this is all that `RunsEnd` asks of the
  code; what is left of it is fairness.

**ReplyPipeline_proofs**, for any campaigns, runs, workers, posts, feeds and
filters, any number of deaths, exceptions and early redeliveries. The actions
are reduced to a few kinds (lemma `Kinds`: by what they do to a worker, its
checkpoint, slots and rows), and `PipelineInv` is shown for each (a second
reduction, `WalkKinds`, is by how a step moves a worker and a run's checkpoint:
takes a run up, goes on, leaves, or neither):

- `DispatchInv`: what has not been dispatched has left no trace.
- `HistoryInv`: what was there when a run was dispatched is still there, or its
  campaign was deleted.
- `PositionsInv` is the strengthening that `PostedLeftAlone`, `DedupHolds` and
  `OnlyPolled` need. None of the three is inductive: the rows are written by
  persist_gate, from a state that was filtered three nodes and perhaps two
  deaths before. `Clean` says of every checkpoint, and of every worker's
  memory, that past the prefilter its posts, selections and drafts are of the
  run's feed, relevant, and neither answered nor drafted at dispatch. It is
  kept because a node only passes on what it has, whatever the LLM answers, and
  a redelivery resumes from a checkpoint that is clean itself.
- `SlotInv`: no two rows of a campaign have one post; only a worker in
  persist_gate holds slots, for drafts it has tried; the counter is at least
  rows plus held slots, and at most `MaxSelections` more for each fault, which
  is what a worker can have held when it died. `OneSlotEach` follows, by the
  cardinality of an injective image.
- `BillInv`: actor runs started, and those that the workers at ingest may still
  start (two before the first POST, one before the second), are at most two for
  each fresh delivery. `BilledWhenFresh`.
- `WalkInv` is `NoTaskIsLost` (`TasksKept`), which is inductive, and two more:
  `AloneInv`, that before the first early redelivery a run has one worker, is
  taken, and its checkpoint is not ahead of that worker; `FetchedInv`, that a run
  which has started no actor has nothing in hand, in its checkpoint or with any
  worker. `ForwardOnly` needs the first: a checkpoint goes back only where a
  second worker writes one. `PauseStops` needs the second: a run of a paused
  campaign none of whose workers is past the status check starts no actor, and
  if none was started before it inserts no draft. It says nothing of a run that
  is past the check, which the code does not stop.

**Scheduler_proofs**, for any campaigns, periods and bounds:

- `TypeCorrect`; an update that waits for its commit has one of three
  operations (`TypeInv`).
- `StaysScheduled`, for any number of ticks that overlap, if the API handles one
  request at a time. What `ActiveStaysScheduled` says of requests, that one has
  the campaign in hand, is too weak to be kept: `KeptInv` names the requests
  that will deal with it, by where they are (`DealsWith`), and `RemovesInv` says
  that a request which is about to remove a member has a campaign that is not
  ACTIVE, or is a kill switch with the row locked. The hypothesis cannot be
  dropped: `scheduler_race` refutes the property for two requests.
- `LossesAreDeaths`, under the same hypothesis and with deaths, from the same
  two invariants: `RemovesInv` does not depend on deaths, and every other step of
  a tick keeps what it has (`TicksKeep`).
- `StaysForgotten`, without hypotheses. A request that will put the campaign in
  the set got there when it found it ACTIVE, and a row that is DELETED stays so
  unless a kill switch holds its lock; `LockInv` says that what is locked is
  ACTIVE, and by one kill switch only. `AtInv` says that a tick puts back only
  what it has in hand. `RequestMove` describes the ten actions of a request by
  what they do to locks, row and set.
- `FiresOnce`, with one maintenance process, and either nothing that dies and any
  number of requests, or deaths and one request at a time. `Paced`: while a
  tick has a campaign, it is not resting, or the tick has just sent it and it
  rests no longer than until the score the tick will give it; any other rests no
  longer than its score in the sorted set. A tick that may die leaves its
  campaigns without that last step, so `Paced` then bounds the score of what it
  has in hand as well. None of the hypotheses can be dropped (section 5).

**AnalystRuns_proofs**, for any number of rows, requests, ticks, posts and
faults and any `StaleAfter`. All five theorems rest on one inductive invariant,
`AnalystInv`, and on a reduction of the worker's fifteen actions to four kinds
(`Moves`, `Begins`, `Writes`, `Leaves`; lemma `StepKinds`), so that an invariant
is shown against four cases:

- `RowsInv`: rows are numbered 1 to n, n within the budget; so the row that
  `Insert` writes is new.
- `KnewInv`: a row that a check looked at, or that a run remembers, is not in
  flight. That is kept since a status never becomes RUNNING again and a row only
  gets older (lemma `KeptFacts`). `FreshRunsApart` follows.
- `TaskInv`: tasks and workers have a row, and the second worker comes with the
  second delivery. So a run with `tries <= 1` has one worker (`OneWorker`).
- `StatusInv`: such a run, while it has nodes to do, is RUNNING or was failed
  by the reaper (`Undisturbed`), and a transaction that has read RUNNING may rely
  on that. This is what makes both `RegressionsRaced` and the first half of
  `BriefMatches` inductive: whoever writes the status writes over nothing but
  RUNNING and the reaper's FAILED.
- `ClassInv`: nothing is classified ahead of aggregate, so that a run COMPLETED
  for want of posts has no classifications: the second half of `BriefMatches`.
- `CountInv`: classifications of a post, and workers that have aggregate ahead
  of them, are together at most `early`. `ForecastCounts` follows for the row
  that the forecast picks; `LatestRow` shows that there is one.

**OrgSpend_proofs**, for any workers, tokens, estimates, caps, limits, days and
budgets:

- `TypeCorrect`; among others, no token's remaining credit is negative.
- `SpendRecorded`: the bound of `BilledIsRecordedOrSlipped` says `MaxEstimate`
  for each run under way, which is not inductive, as runs differ. `OwedInv` has
  the exact debt: the cardinality of the set of pairs of a run under way and a
  unit of its estimate.
- `TokenForgotten`, as it stands.
- `GuardsImplemented`: every step maps to a step of `SpendGuard` or a stutter,
  for the month and for the day. It assumes `DailyLimit # 0`: with 0 the code
  has no limit and the guard promises nothing.
- `MonthlyOvershoot` and `DailyOvershoot`: `OvershootIsBounded` of both
  instances, the second again if there is a daily limit, and with the number
  written out: `Concurrency` calls for each worker. The invariant `Within`
  is one of any guard: what was granted, and one cost for each pending run, is
  within the limit plus one cost for each run and each blind admission. It is
  stated on values (`GuardStep`, `GuardStays`), so that it serves both.

**Tenancy_proofs**, for any number of events, handlers, sessions and faults:

- `TypeCorrect`.
- `EffectsOnce`, from `DeliveryInv` (no two handlers hold one id, nor one that is
  processed) and `AppliedInv` (an id that took effect is processed, or purged and
  not delivered any more). The second half needs the purge to come after Svix
  has given up, as its 30 days do.
- `DatabaseMirrors`. `MirrorsClerk` speaks of states with nothing pending; the
  invariant, `MirrorInv`, says what the pending events and the open transactions
  are worth. `LockInv`: a row is written by one transaction at a time, and what an
  open one is about to write still makes sense when it commits (an organization
  it inserts is not there yet). `HistoryInv`: the last event on a row tells
  Clerk's state of it. `KnownInv` and `GoneInv`: an organization that Clerk has,
  or has deleted, is in the database like that, or an event that has it so is
  pending and, if its statement was executed, has written it. `RoleInv`, the
  heart of it: unless the row is excused, the database has Clerk's role and no
  role event is pending, or the last one is, and once it is executed it leaves
  Clerk's role behind and no other is pending. It is kept because a last event
  that is executed earlier than that is excused itself (`Early`), and because a
  session that inserts a role either finds it agrees with Clerk's when it commits
  or is excused.

**Outcomes_proofs**: `TypeCorrect`, and `DuplicatesBounded` from `OutcomesInv`:
once an hour has a row, its rows and the polls that will add one are together at
most the processes, since no poll starts to hold what has a row.

Assumptions: `CapsAssumption` (types), `SameCountersAssumption` (runs of one
campaign charge the same counters, which holds as `key_caps` is computed from
the campaign, `nodes.py:744-776`, while it is not edited). `CountersCover` and
`CapsHold` speak of executions in which Redis keeps its data (`losses = 0` in
the properties), `NoPhantoms` of those in which nothing fails either;
`LossBounded` and `QuotaRefined` say what losses let through. `SchedulerAssumption` bounds no
period (the API accepts any `poll_frequency_minutes`, so a poll may be due before
a retry, or at once) and has an id that is no campaign's.
`PipelineAssumption`, `AnalystAssumption`, `ApifyAssumption`, `LlmAssumption`, `OrgSpendAssumption`, `TenancyAssumption` and
`OutcomesAssumption` give the constants their types; some set has to be finite
where something is counted, and a largest estimate has to exist. TLC evaluates
the assumptions in each run.

Out of reach of the prover and left to TLC: the liveness properties `RunsEnd`,
`RunsFinish`, `ActiveIsPolled`, `DeletedIsForgotten`, `EveryRunEnds`,
`OutcomesAreRecorded`. Of `RunsEnd` and `RunsFinish` the safety half is proved:
work runs out and no circle of waiting lasts (`WorkRunsOut`, `WaitingResolved`),
tasks are not lost and go forward (`TasksKept`, `ForwardOnly`). What the runs with a
violated property refute is not proved, of course.

## 5. Where code and documents disagree

Two runs have a property that TLC refutes.

1. `scheduler_race`, `ActiveStaysScheduled` with overlapping requests: a pause's
   ZREM after a resume's ZADD (`campaigns.py:119` against `:110`).
2. `analyst_unconfigured`, `RenderNeverCrashes`: for an organization without an
   `OrgLLMConfig` row `render_brief_node` calls the cost guard with no
   configuration and no session; the query for one raises AttributeError, and
   the run ends as FAILED (`analyst_nodes.py:851`, `cost_guard.py:113`), although
   `analyst_nodes.py:860` says that a failed brief "must not crash the run" and
   `llm_transport.py:23` provides for such organizations.

The models show the following as well, where a passing run states what is left
of a stronger claim.

- *Inbox*. A second, overlapping request commits a status on top of one from
  which it is not allowed (`inbox.py:22` against `:34`): what holds is
  `StatusChangesAreLegalOrRaced`. Two overlapping lock requests can both be
  granted (`inbox.py:133` against `:52`). A handler refreshes `locked_at` but
  writes `locked_by` only if it differs from what it loaded, so a sweep between
  load and commit leaves a fresh lock without an owner (`inbox.py:43-57`).
- *Daily caps*. Slots claimed before a crash are lost for the day, although
  `prefilter.py:154` ties them to persisted drafts: `CapRespected` is on the safe
  side, and `NoPhantomSlot` says when slots can be lost. A run can be refused a
  slot because of another run's INCR that is about to be reverted, so a cap may
  be left short by a draft (`prefilter.py:194-199`). A FAILED draft, which has no
  text, consumes a slot.
- *Reply pipeline*. `docs/PRD_V7_Sentinel.md:180` wants zero new drafts after the
  kill switch. The status is read once, at the start of `ingest_node`
  (`nodes.py:109-110`): a run that is past it when the kill switch comes is still
  billed by Apify (`runner.py:107`), and goes on to insert its drafts.
  `PauseStopsPolls` says which runs are stopped. A worker that dies in
  `persist_gate_node` between a claim and the commit (`nodes.py:858-882`) leaves
  the counter above the rows for the day, by `MaxSelections` at most
  (`OneSlotPerRow`). Two campaigns polled at the
  same time both draft a post (`nodes.py:210`): what holds is `DedupAcrossPolls`.
  With a hook configured, an empty draft becomes a PENDING one that consists of
  the hook (`draft_format.py:109-110`), and `finalize_draft` adds a hook of
  several lines, or a call to action, once more when it is applied to its own
  result (`draft_format.py:92-113`). A worker that dies inside `ingest_node`
  after Apify started bills the actor again on redelivery; `BilledOnlyWhenFresh`
  says exactly this much.
- *Scheduler*. With two maintenance processes (`docker-compose.lite.yml`) two
  ticks may read the same due members before either pops them, and poll a
  campaign twice; the comment at `scheduler.py:40` rules that out. `NoDoubleFire`
  is checked for the one process of `docker-compose.yml`. With one process a
  death and overlapping requests together break it too: a create that commits
  and enqueues only after another request has enqueued the campaign, and a tick
  has popped it, makes due what the tick then sends; if the tick dies before it
  puts the campaign back, the next one sends it again. `FiresOnce` has its
  hypotheses from these two. A tick that dies after
  `Pop` loses the campaigns it popped (`scheduler.py:42`), and, as
  `LostOnlyByDeath` says, no others; a restart of
  Redis without its data loses all of them: nothing rebuilds the sorted set from the campaigns,
  although `docs/PRD_V7_Sentinel.md:204` says that "schedules re-enqueue on next
  tick". `is_active` of an organization is read once per session of a tick; a
  deactivation in between is seen by the next tick only.
- *Analyst runs*. Two triggers, or a trigger and the tick, that overlap both
  insert a run: `FreshRunsNeverSawEachOther` is what holds. A run that the reaper
  has failed may still end as COMPLETED, and one that COMPLETED just before the
  reaper's commit as FAILED: `StatusRegressionsAreRaced`. A run of an
  organization that is not active ends without touching its row, which only the
  reaper closes (`analyst_nodes.py:239`). aggregate, executed again after a
  death, doubles its rows: `ForecastCountsExecutions`.
- *Apify*. `service.py:5-8` lets the budget stop runs; runs that overlap do not
  see each other, an unreadable counter counts as 0, and a run that fails has
  cost money that is never recorded. A `plan_cap_usd` of 0 is taken for the
  default. `tokens.py:10-11` says that 401 and 403 invalidate the cache: an actor
  POST that is refused does not, nor is a cached token asked at all. A usage that
  was fetched before a delete and stored after the token was put back is used.
- *LLM guard*. A limit of 0 limits nothing. A call that is refused is counted
  all the same, though Analyst asks before it makes the call.
- *Webhooks*. An event that comes before the rows it needs is skipped for good
  (`webhooks.py:129`, `:150`). Svix does not keep the order, and nothing compares times: of
  two events on a row the one that is handled last stays. A session with an older token undoes a removal
  (`auth.py:173`). The DELETE of a membership, or of all of a deleted user's, does
  not see a row that a handler has inserted and not committed, and does nothing
  (`webhooks.py:151-155` against `:131-139`), even if the two were delivered in
  order. In each case the database keeps what Clerk has taken back until another
  event about that membership comes: nothing else looks for it. `MirrorsClerk`
  says that this is all.
- *Outcomes*. A row for 24 hours that is taken late has the metrics of the same
  moment as the one for 72 hours.

## 6. Plan

Each module is written so that it can be proved about (constants with
assumptions, one action per operation, no RECURSIVE operator).

| Module | State | Left |
|---|---|---|
| Inbox, Inbox_proofs | done | |
| DraftCaps, DailyQuota, DraftCaps_proofs | done | |
| ReplyPipeline, ReplyPipeline_proofs | done | |
| Scheduler, Scheduler_proofs | done | what is left of `ActiveStaysScheduled` when requests overlap |
| AnalystRuns, AnalystRuns_proofs | done | |
| SpendGuard, ApifySpend, LlmGuard, OrgSpend, OrgSpend_proofs | done | |
| Tenancy, Tenancy_proofs | done | |
| Outcomes, Outcomes_proofs | done | |

Compositions: `TryDraft`, `GiveSlotBack` and `PersistGate` of ReplyPipeline are a
coarser form of DraftCaps, with one counter for each campaign, and DraftCaps
implements DailyQuota; OrgSpend composes the two guards, which
implement SpendGuard. AnalystRuns and ReplyPipeline share the delivery rules of
Celery and take what Apify and the LLM answer as any value, a refusal of the
guards among them.

## 7. Not modelled

- *Strategist batching*: the semaphore, the fallback to single calls and missing
  items decide which drafts a batch returns and in which order; ReplyPipeline
  takes any of them in any order.
- *Drafting algorithms, normalization and actor input, LLM transport*: functions
  on strings and JSON without state.
- *Prompts, personas, settings, safety profiles, target authors, competitors,
  analytics, admin*: requests on single rows, the last of which wins, and
  queries.
- *Retention of checkpoints*: deletes threads of runs that ended long ago.
- *GET /credits*, which fills the credit cache as an ingest does, and the
  APIFY_TOKEN fallback of an organization without a vault.
- *Encryption and its key rotation, seed, migrations*: a library, and scripts
  that run offline.
- *Frontend*: a client; any sequence of its requests is one of the models'.
