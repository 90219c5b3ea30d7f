---------------------------- MODULE AnalystRuns ----------------------------
(***************************************************************************)
(* The Analyst pipeline of one organization: LangGraph graph #2            *)
(* (backend/pipeline/analyst_graph.py, analyst_nodes.py), the request and  *)
(* the beat task that start its runs (backend/api/analyst.py,              *)
(* analyst_weekly_tick), the Celery task that executes them and the reaper *)
(* of the ones that never end (backend/tasks/workers.py).                  *)
(*                                                                         *)
(* A run is a row of analyst_runs and a checkpoint thread of its own.      *)
(* Several run at once: the row is inserted after a check that sees only   *)
(* committed rows, a row that is RUNNING for more than StaleAfter no       *)
(* longer counts, and a task can be delivered twice.  The nodes, the       *)
(* task's exception handler and the reaper all write the row's status, in  *)
(* transactions that read it first; Begin and Commit are the two halves.   *)
(*                                                                         *)
(* The node classify stands for triage, cluster, stance and quotes, which  *)
(* follow each other, call the LLM once per post and touch nothing that is *)
(* shared but the run's status, when the cost guard stops them.            *)
(*                                                                         *)
(* What Apify and the LLM answer is any value.  The clock counts in any    *)
(* unit; StaleAfter is in that unit.                                       *)
(***************************************************************************)
EXTENDS Integers, FiniteSets

CONSTANTS MaxRuns,         \* bound on the rows of analyst_runs
          Callers,         \* requests and ticks that start runs
          Ticks,           \* those of them that are analyst_weekly_tick
          Posts,
          StaleAfter,      \* STALE_RUN_AFTER_HOURS
          MaxClock,        \* bound on the clock
          WeekAt,          \* the week of each time
          Budgets          \* bounds, one of which holds in a behaviour: rows,
                           \* and deaths, exceptions and deliveries past the
                           \* visibility timeout together

ASSUME AnalystAssumption ==
    /\ MaxRuns \in Nat /\ Ticks \subseteq Callers
    /\ StaleAfter \in Nat /\ MaxClock \in Nat
    /\ Budgets \subseteq [runs : 0 .. MaxRuns, faults : Nat]
    /\ WeekAt \in [0 .. MaxClock -> Nat \ {0}]

VARIABLES clock,         \* now
          active,        \* organizations.is_active
          llm,           \* the organization has an OrgLLMConfig with a model
          runs,          \* analyst_runs
          caller,        \* what each request or tick is doing
          task,          \* the analyst_task of each run
          ckpt,          \* the last checkpoint of each thread, or the one before
          at,            \* what the workers that have a run's task are doing
          classified,    \* post_classifications (and topic_clusters) per run
          brief,         \* intel_briefs: the run that wrote the week's brief
          reaping,       \* rows the reaper has selected
          tries,         \* deliveries of each run
          early,         \* those that found aggregate not yet checkpointed
          budget         \* what is left of it

db == <<active, llm, runs, classified, brief>>
env == <<clock, caller, reaping>>
vars == <<clock, active, llm, runs, caller, task, ckpt, at, classified,
          brief, reaping, tries, early, budget>>

Runs == 1 .. MaxRuns
Weeks == {WeekAt[t] : t \in 0 .. MaxClock}
week == WeekAt[clock]    \* current_week_of()

(* The worker that takes a task, and the second one it may be given to. *)
Workers == Runs \X {"first", "second"}
Nodes == {"ingest", "classify", "aggregate", "render_brief", "end"}
Status == {"RUNNING", "COMPLETED", "FAILED"}
Transactions == {"none", "no_posts", "cost_limit", "llm_error", "brief", "except"}

(* AnalystState: the posts to classify (none of a run that goes on because *)
(* competitors have posted).  terminal is the node end: the nodes that     *)
(* still follow return {}.                                                 *)
States == SUBSET Posts
Initial == {}

Idle == [next |-> "none"]
Busy == [next : Nodes, state : States, tx : Transactions,
         seen : Status, found : BOOLEAN]
NoRow == [status |-> "none", started |-> 0, week |-> 0, knew |-> {}]
Row == [status : Status, started : 0 .. MaxClock, week : Weeks, knew : SUBSET Runs]

Rows == {r \in Runs : runs[r].status # "none"}
IsTerminal(status) == status \in {"COMPLETED", "FAILED"}
Old(r) == runs[r].started < clock - StaleAfter

(* Mutant: every row that is not terminal yet counts, the wedged ones too, *)
(* and those of the last StaleAfter hours do not.                          *)
InFlightReversed(r) == runs[r].status = "RUNNING" /\ Old(r)

(* non_stale_non_terminal_filter *)
InFlight(r) == runs[r].status = "RUNNING" /\ ~Old(r)

RunAt(w) == w[1]
StateAt(w) == at[w].state
IsAt(w, node) == at[w] # Idle /\ at[w].next = node /\ at[w].tx = "none"

----------------------------------------------------------------------------
Init ==
    /\ clock = 0
    /\ active = TRUE /\ llm \in BOOLEAN
    /\ runs = [r \in Runs |-> NoRow]
    /\ caller = [c \in Callers |-> [at |-> "idle"]]
    /\ task = [r \in Runs |-> "none"]
    /\ ckpt = [r \in Runs |-> [next |-> "ingest", state |-> Initial]]
    /\ at = [w \in Workers |-> Idle]
    /\ classified = [r \in Runs |-> [p \in Posts |-> 0]]
    /\ brief = [k \in Weeks |-> 0]
    /\ reaping = {}
    /\ tries = [r \in Runs |-> 0] /\ early = [r \in Runs |-> 0]
    /\ budget \in Budgets

(* A fault happens. *)
Fault == budget.faults > 0 /\ budget' = [budget EXCEPT !.faults = @ - 1]

Hour ==
    /\ clock < MaxClock /\ clock' = clock + 1
    /\ UNCHANGED <<caller, reaping, db, task, ckpt, at, tries, early, budget>>

(* organization.deleted (webhooks.py) *)
Deactivate ==
    /\ active /\ active' = FALSE
    /\ UNCHANGED <<env, llm, runs, classified, brief, task, ckpt, at, tries,
                   early, budget>>

----------------------------------------------------------------------------
(* Starting a run: check, insert and commit, send the task.                *)

(* trigger_analyst_run looks at the runs of all weeks, the weekly tick at  *)
(* those of the week it has computed.  A run in flight is answered 409, or *)
(* skipped.                                                                *)
LookedAt(c) == {r \in Rows : c \in Ticks => runs[r].week = week}
Check(c) ==
    /\ caller[c].at = "idle" /\ active /\ budget.runs > 0
    /\ \A r \in LookedAt(c) : ~InFlight(r)
    /\ caller' = [caller EXCEPT ![c] = [at |-> "insert", week |-> week, knew |-> LookedAt(c)]]
    /\ UNCHANGED <<clock, reaping, db, task, ckpt, at, tries, early,
                   budget>>

Insert(c) ==
    /\ caller[c].at = "insert" /\ budget.runs > 0
    /\ budget' = [budget EXCEPT !.runs = @ - 1]
    /\ LET r == Cardinality(Rows) + 1 IN
       /\ runs' = [runs EXCEPT ![r] =
                     [status |-> "RUNNING", started |-> clock,
                      week |-> IF c \in Ticks THEN caller[c].week ELSE week,
                      knew |-> caller[c].knew]]
       /\ caller' = [caller EXCEPT ![c] = [at |-> "send", run |-> r]]
    /\ UNCHANGED <<clock, reaping, active, llm, classified, brief, task,
                   ckpt, at, tries, early>>

Send(c) ==
    /\ caller[c].at = "send"
    /\ task' = [task EXCEPT ![caller[c].run] = "queued"]
    /\ caller' = [caller EXCEPT ![c] = [at |-> "idle"]]
    /\ UNCHANGED <<clock, reaping, db, ckpt, at, tries, early, budget>>

(* The process dies or an exception ends the request or the tick's loop    *)
(* body: what is committed stays, a row without a task too.                *)
LoseCall(c) ==
    /\ caller[c].at # "idle" /\ Fault
    /\ caller' = [caller EXCEPT ![c] = [at |-> "idle"]]
    /\ UNCHANGED <<clock, reaping, db, task, ckpt, at, tries, early>>

----------------------------------------------------------------------------
(* Delivering the task: run_analyst_pipeline resumes the run's own thread. *)

Position(w) == [next |-> at[w].next, state |-> StateAt(w)]
Written(r) == {ckpt[r]} \cup {Position(w) : w \in {v \in Workers : at[v] # Idle /\ RunAt(v) = r}}

(* Mutant: the thread is looked up by organization and week only, so that  *)
(* every delivery starts from new_initial_analyst_state.                   *)
ResumeAfresh(c) == [next |-> "ingest", state |-> Initial, tx |-> "none",
                       seen |-> "RUNNING", found |-> FALSE]
Resume(c) == [next |-> c.next, state |-> c.state, tx |-> "none",
                 seen |-> "RUNNING", found |-> FALSE]
StartWorker(w) ==
    /\ at[w] = Idle
    /\ \E c \in Written(RunAt(w)) :
         /\ ckpt' = [ckpt EXCEPT ![RunAt(w)] = c]
         /\ at' = [at EXCEPT ![w] = Resume(c)]
         /\ early' = [early EXCEPT ![RunAt(w)] =
                        @ + IF c.next \in {"render_brief", "end"} THEN 0 ELSE 1]
    /\ tries' = [tries EXCEPT ![RunAt(w)] = @ + 1]
    /\ UNCHANGED <<env, db>>
Deliver(r) ==
    /\ task[r] = "queued"
    /\ task' = [task EXCEPT ![r] = "taken"]
    /\ StartWorker(<<r, "first">>)
    /\ UNCHANGED budget
Redeliver(r) ==
    /\ task[r] = "taken" /\ Fault
    /\ StartWorker(<<r, "second">>)
    /\ UNCHANGED task

(* A node returns: the edge is taken, and the checkpoint of the node       *)
(* before it is written by now.                                            *)
Return(w, state, next) ==
    /\ at' = [at EXCEPT ![w] = [@ EXCEPT !.state = state, !.next = next,
                                         !.tx = "none", !.seen = "RUNNING",
                                         !.found = FALSE]]
    /\ ckpt' = [ckpt EXCEPT ![RunAt(w)] = Position(w)]

(* A transaction that writes the status begins: db.get reads the row, and  *)
(* render_brief looks for the week's brief.                                *)
Begin(w, tx) ==
    /\ at' = [at EXCEPT ![w] = [@ EXCEPT !.tx = tx, !.seen = runs[RunAt(w)].status,
                                         !.found = tx = "brief" /\ brief[runs[RunAt(w)].week] # 0]]
    /\ UNCHANGED ckpt

WorkerOnly == UNCHANGED <<env, db, task, tries, early, budget>>

----------------------------------------------------------------------------
(* The nodes.                                                              *)

(* Posts of this organization that have a classification of another week.  *)
(* All weeks of the model lie within _DEDUP_LOOKBACK_WEEKS.                *)
PreviouslyClassified(wk) ==
    {p \in Posts : \E r \in Rows : runs[r].week # wk /\ classified[r][p] > 0}

(* gather_analyst_posts: the posts, and whether competitors have any.  A   *)
(* source that fails counts as empty.                                      *)
Gathered == (SUBSET Posts) \X BOOLEAN

(* ingest_node: a run of an organization that is not active ends at once,  *)
(* its row stays RUNNING; so does one whose sources have nothing new, but  *)
(* its row is COMPLETED.                                                   *)
IngestOrgGone(w) ==
    /\ IsAt(w, "ingest") /\ ~active
    /\ Return(w, Initial, "end")
    /\ WorkerOnly
Ingest(w) ==
    /\ IsAt(w, "ingest") /\ active
    /\ \E got \in Gathered :
         LET new == got[1] \ PreviouslyClassified(runs[RunAt(w)].week) IN
         IF new = {} /\ ~got[2]
         THEN Begin(w, "no_posts")
         ELSE Return(w, new, "classify")
    /\ WorkerOnly

(* triage, cluster, stance, quotes: every post gets a classification.  A   *)
(* call that fails, or is not made since no LLM is configured, leaves the  *)
(* defaults.                                                               *)
Classify(w) ==
    /\ IsAt(w, "classify")
    /\ Return(w, StateAt(w), "aggregate")
    /\ WorkerOnly

(* The cost guard refuses one of the calls of a node: the others are       *)
(* skipped, and when all have returned the run is failed.  render_brief    *)
(* asks the guard before its own call.                                     *)
CostLimit(w) ==
    /\ llm
    /\ \/ IsAt(w, "classify") /\ StateAt(w) # {}
       \/ IsAt(w, "render_brief")
    /\ Begin(w, "cost_limit")
    /\ WorkerOnly

(* aggregate_node: one row per classified post, one cluster per pillar. *)
Aggregate(w) ==
    /\ IsAt(w, "aggregate")
    /\ classified' = [classified EXCEPT ![RunAt(w)] =
                        [p \in Posts |-> @[p] + IF p \in StateAt(w) THEN 1 ELSE 0]]
    /\ Return(w, Initial, "render_brief")
    /\ UNCHANGED <<env, active, llm, runs, brief, task, tries, early, budget>>

(* The LLM writes the brief, or the call fails. *)
RenderBrief(w) ==
    /\ IsAt(w, "render_brief") /\ llm
    /\ Begin(w, "brief") \/ Begin(w, "llm_error")
    /\ WorkerOnly

(* Without an OrgLLMConfig the cost check queries for one, on the session  *)
(* None that _check_cost_cap passes, and raises AttributeError.            *)
RenderWithoutConfig(w) ==
    /\ IsAt(w, "render_brief") /\ ~llm
    /\ Begin(w, "except")
    /\ WorkerOnly

(* The transaction commits; an UPDATE is issued only if the status differs *)
(* from the one that was read.                                             *)
SetStatus(w, status) ==
    runs' = IF at[w].seen = status THEN runs
            ELSE [runs EXCEPT ![RunAt(w)].status = status]

(* Mutant: a run that has ended is failed as well. *)
FailEvenTerminal(w) == SetStatus(w, "FAILED")

FailUnlessTerminal(w) == IF IsTerminal(at[w].seen) THEN UNCHANGED runs
                         ELSE SetStatus(w, "FAILED")

CommitNoPosts(w) ==
    /\ at[w] # Idle /\ at[w].tx = "no_posts"
    /\ SetStatus(w, "COMPLETED")
    /\ Return(w, Initial, "end")
    /\ UNCHANGED <<env, active, llm, classified, brief, task, tries, early,
                   budget>>

(* _fail_run_cost_limit *)
CommitCostLimit(w) ==
    /\ at[w] # Idle /\ at[w].tx = "cost_limit"
    /\ FailUnlessTerminal(w)
    /\ Return(w, Initial, "end")
    /\ UNCHANGED <<env, active, llm, classified, brief, task, tries, early,
                   budget>>

(* Mutant: an error text is stored as the week's brief. *)
CommitLlmErrorAsBrief(w) ==
    /\ at[w] # Idle /\ at[w].tx = "llm_error"
    /\ SetStatus(w, "FAILED")
    /\ brief' = [brief EXCEPT ![runs[RunAt(w)].week] = RunAt(w)]
    /\ Return(w, Initial, "end")
    /\ UNCHANGED <<env, active, llm, classified, task, tries, early, budget>>

CommitLlmError(w) ==
    /\ at[w] # Idle /\ at[w].tx = "llm_error"
    /\ SetStatus(w, "FAILED")
    /\ Return(w, Initial, "end")
    /\ UNCHANGED <<env, active, llm, classified, brief, task, tries, early,
                   budget>>

(* The brief that was found is updated; a new one is inserted, unless      *)
(* another run has inserted the week's brief meanwhile: then the unique    *)
(* constraint uq_intel_brief_org_week raises.                              *)
CommitBrief(w) ==
    /\ at[w] # Idle /\ at[w].tx = "brief"
    /\ at[w].found \/ brief[runs[RunAt(w)].week] = 0
    /\ brief' = [brief EXCEPT ![runs[RunAt(w)].week] = RunAt(w)]
    /\ SetStatus(w, "COMPLETED")
    /\ Return(w, Initial, "end")
    /\ UNCHANGED <<env, active, llm, classified, task, tries, early, budget>>
BriefConflict(w) ==
    /\ at[w] # Idle /\ at[w].tx = "brief"
    /\ ~at[w].found /\ brief[runs[RunAt(w)].week] # 0
    /\ Begin(w, "except")
    /\ WorkerOnly

(* An exception leaves the graph, and rolls back what a transaction of the *)
(* node has done: analyst_task fails the run unless it has ended, and      *)
(* raises; the failed task is acknowledged.                                *)
Raise(w) ==
    /\ at[w] # Idle /\ at[w].tx = "none" /\ Fault
    /\ Begin(w, "except")
    /\ UNCHANGED <<env, db, task, tries, early>>
CommitExcept(w) ==
    /\ at[w] # Idle /\ at[w].tx = "except"
    /\ FailUnlessTerminal(w)
    /\ task' = [task EXCEPT ![RunAt(w)] = "acked"]
    /\ at' = [at EXCEPT ![w] = Idle]
    /\ UNCHANGED <<env, active, llm, classified, brief, ckpt, tries, early, budget>>

Finish(w) ==
    /\ IsAt(w, "end")
    /\ ckpt' = [ckpt EXCEPT ![RunAt(w)] = Position(w)]
    /\ task' = [task EXCEPT ![RunAt(w)] = "acked"]
    /\ at' = [at EXCEPT ![w] = Idle]
    /\ UNCHANGED <<env, db, tries, early, budget>>

(* The worker dies.  What it does in a transaction is lost with it: that   *)
(* death is the one before Begin.                                          *)
Crash(w) ==
    /\ at[w] # Idle /\ at[w].tx = "none" /\ Fault
    /\ task' = [task EXCEPT ![RunAt(w)] = IF @ = "acked" THEN "acked" ELSE "queued"]
    /\ at' = [at EXCEPT ![w] = Idle]
    /\ ckpt' \in {ckpt, [ckpt EXCEPT ![RunAt(w)] = Position(w)]}
    /\ UNCHANGED <<env, db, tries, early>>

Step(w) ==
    \/ IngestOrgGone(w) \/ Ingest(w) \/ Classify(w)
    \/ CostLimit(w) \/ Aggregate(w) \/ RenderBrief(w) \/ RenderWithoutConfig(w)
    \/ CommitNoPosts(w) \/ CommitCostLimit(w) \/ CommitLlmError(w)
    \/ CommitBrief(w) \/ BriefConflict(w) \/ CommitExcept(w) \/ Finish(w)

----------------------------------------------------------------------------
(* reap_stale_analyst_runs: select the stale rows, fail them, commit.      *)

(* Mutant: rows are selected only while they still count as in flight. *)
NeverStale(r) == runs[r].status = "RUNNING" /\ InFlight(r) /\ Old(r)

Stale(r) == runs[r].status = "RUNNING" /\ Old(r)
ReapSelect ==
    /\ reaping = {} /\ \E r \in Rows : Stale(r)
    /\ reaping' = {r \in Rows : Stale(r)}
    /\ UNCHANGED <<clock, caller, db, task, ckpt, at, tries, early, budget>>
ReapCommit ==
    /\ reaping # {}
    /\ runs' = [r \in Runs |-> IF r \in reaping THEN [runs[r] EXCEPT !.status = "FAILED"]
                               ELSE runs[r]]
    /\ reaping' = {}
    /\ UNCHANGED <<clock, caller, active, llm, classified, brief, task, ckpt,
                   at, tries, early, budget>>

Next ==
    \/ Hour \/ Deactivate
    \/ \E c \in Callers : Check(c) \/ Insert(c) \/ Send(c) \/ LoseCall(c)
    \/ \E r \in Runs : Deliver(r) \/ Redeliver(r)
    \/ \E w \in Workers : Step(w) \/ Raise(w) \/ Crash(w)
    \/ ReapSelect \/ ReapCommit

Spec == Init /\ [][Next]_vars

(* Time passes, and beat starts the reaper every 15 minutes. *)
Fairness == WF_vars(Hour) /\ WF_vars(ReapSelect) /\ WF_vars(ReapCommit)
FairSpec == Spec /\ Fairness

----------------------------------------------------------------------------
(* Every variable has its type. *)
TypeOK ==
    /\ clock \in 0 .. MaxClock
    /\ active \in BOOLEAN /\ llm \in BOOLEAN
    /\ runs \in [Runs -> Row \cup {NoRow}]
    /\ caller \in [Callers -> [at : {"idle"}]
                       \cup [at : {"insert"}, week : Weeks, knew : SUBSET Runs]
                       \cup [at : {"send"}, run : Rows]]
    /\ task \in [Runs -> {"none", "queued", "taken", "acked"}]
    /\ ckpt \in [Runs -> [next : Nodes, state : States]]
    /\ at \in [Workers -> Busy \cup {Idle}]
    /\ classified \in [Runs -> [Posts -> Nat]]
    /\ brief \in [Weeks -> Runs \cup {0}]
    /\ reaping \in SUBSET Rows
    /\ tries \in [Runs -> Nat] /\ early \in [Runs -> Nat]
    /\ budget \in [runs : 0 .. MaxRuns, faults : Nat]

(* Two runs are in flight at the same time only if neither was among the   *)
(* rows that the check for the other looked at: a wedged run stops         *)
(* blocking for good, without letting a live one slip by.                  *)
FreshRunsNeverSawEachOther ==
    \A r, s \in Rows :
        ~(InFlight(r) /\ InFlight(s) /\ r \in runs[s].knew)

(* A run that has ended changes its status again only where two writers    *)
(* can meet: COMPLETED turns to FAILED when the reaper had selected it or  *)
(* it was delivered twice, FAILED to COMPLETED when it was old enough to   *)
(* be reaped or delivered twice.  It never runs again.                     *)
StatusRegressionsAreRaced ==
    [][\A r \in Runs :
         (IsTerminal(runs[r].status) /\ runs'[r].status # runs[r].status)
             => CASE runs'[r].status = "FAILED" -> r \in reaping \/ tries[r] > 1
                  [] runs'[r].status = "COMPLETED" -> Old(r) \/ tries[r] > 1
                  [] OTHER -> FALSE]_vars

(* The status and the brief agree (render_brief_node): a FAILED run has    *)
(* left no brief, and a COMPLETED one that classified posts has one for    *)
(* its week, as long as the run is young and was delivered once.           *)
BriefMatchesStatus ==
    \A r \in Rows :
        tries[r] <= 1 =>
            /\ (brief[runs[r].week] = r /\ ~Old(r)) => runs[r].status = "COMPLETED"
            /\ (runs[r].status = "COMPLETED" /\ \E p \in Posts : classified[r][p] > 0)
                  => brief[runs[r].week] # 0

(* get_pillar_forecast counts the rows of the latest COMPLETED run of a    *)
(* week, so that several runs do not double it.                            *)
ForecastRuns(wk) == {r \in Rows : runs[r].status = "COMPLETED" /\ runs[r].week = wk}
ForecastRun(wk) == CHOOSE r \in ForecastRuns(wk) : \A s \in ForecastRuns(wk) : s <= r
ForecastCount(wk, p) == IF ForecastRuns(wk) = {} THEN 0 ELSE classified[ForecastRun(wk)][p]

(* A post counts once in the forecast for each delivery of the run that    *)
(* found its aggregate node not yet checkpointed, so once when no worker   *)
(* died there and no task was delivered twice.                             *)
ForecastCountsExecutions ==
    \A wk \in Weeks, p \in Posts :
        ForecastRuns(wk) # {} => ForecastCount(wk, p) <= early[ForecastRun(wk)]

(* No row stays RUNNING: whatever is lost (the task was never sent, the    *)
(* organization is gone, every worker died), the reaper ends it, if it was *)
(* inserted early enough to become stale before MaxClock.                  *)
CanTurnOld(r) == runs[r].started + StaleAfter < MaxClock
EveryRunEnds ==
    \A r \in Runs : (runs[r].status = "RUNNING" /\ CanTurnOld(r))
                       ~> runs[r].status # "RUNNING"

(* "a brief that failed to generate must not crash the run"                *)
(* (render_brief_node): without a fault no exception leaves render_brief   *)
(* before its last transaction.                                            *)
RenderNeverCrashes ==
    [][\A w \in Workers :
         (IsAt(w, "render_brief") /\ at'[w] # Idle /\ at'[w].tx = "except")
             => budget' # budget]_vars
=============================================================================
