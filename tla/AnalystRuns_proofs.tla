------------------------- MODULE AnalystRuns_proofs -------------------------
(***************************************************************************)
(* Proofs about AnalystRuns, for any number of rows, callers, posts,       *)
(* faults and any StaleAfter:                                              *)
(*   TypeCorrect         the type invariant                                *)
(*   FreshRunsApart      a live run that was looked at is never joined     *)
(*   RegressionsRaced    a run that has ended changes its status only      *)
(*                       where two writers can meet                        *)
(*   BriefMatches        the status of a young run delivered once and the  *)
(*                       brief agree                                       *)
(*   ForecastCounts      the forecast counts a post once per delivery that *)
(*                       found its aggregate node not done                 *)
(***************************************************************************)
EXTENDS AnalystRuns, FiniteSetTheorems, WellFoundedInduction, TLAPS

Early == {"ingest", "classify", "aggregate"}
Becomes(w, b) == at' = [at EXCEPT ![w] = b]
Others == UNCHANGED <<clock, active, llm, caller, reaping>>

-----------------------------------------------------------------------------
(* The kinds of steps of a worker.                                         *)

(* A node returns without a transaction on the run.                        *)
Moves(w) ==
    /\ at[w] # Idle
    /\ \E b \in Busy :
         /\ Becomes(w, b) /\ b.tx = "none"
         /\ \/ at[w].next \in {"ingest", "classify"} /\ classified' = classified
            \/ /\ at[w].next = "aggregate" /\ b.next = "render_brief"
               /\ classified' = [classified EXCEPT ![RunAt(w)] =
                        [p \in Posts |-> @[p] + IF p \in StateAt(w) THEN 1 ELSE 0]]
    /\ ckpt' \in [Runs -> [next : Nodes, state : States]]
    /\ Others /\ UNCHANGED <<runs, brief, task, tries, early, budget>>

(* A transaction on the run's row begins, in the node that may have it.    *)
TxAt(b) ==
    /\ b.tx = "no_posts" => b.next = "ingest"
    /\ b.tx \in {"cost_limit", "llm_error", "brief"} => b.next # "end"
Begins(w) ==
    /\ at[w] # Idle
    /\ \E b \in Busy :
         /\ Becomes(w, b) /\ b.tx # "none" /\ TxAt(b)
         /\ b.next = at[w].next /\ b.seen = runs[RunAt(w)].status
    /\ budget' \in [runs : {budget.runs}, faults : Nat]
    /\ ckpt' = ckpt
    /\ Others /\ UNCHANGED <<runs, classified, brief, task, tries, early>>

(* It commits: the run ends.                                               *)
Ended(w, status) == runs' = [runs EXCEPT ![RunAt(w)].status = status]
Writes(w) ==
    /\ at[w] # Idle
    /\ \E b \in Busy : Becomes(w, b) /\ b.tx = "none" /\ b.next = "end"
    /\ \/ /\ at[w].tx \in {"cost_limit", "llm_error"} /\ brief' = brief
          /\ runs' = runs \/ Ended(w, "FAILED")
       \/ /\ at[w].tx = "no_posts" /\ brief' = brief
          /\ runs' = runs \/ Ended(w, "COMPLETED")
       \/ /\ at[w].tx = "brief"
          /\ brief' = [brief EXCEPT ![runs[RunAt(w)].week] = RunAt(w)]
          /\ (runs' = runs /\ at[w].seen = "COMPLETED") \/ Ended(w, "COMPLETED")
    /\ ckpt' \in [Runs -> [next : Nodes, state : States]]
    /\ Others /\ UNCHANGED <<classified, task, tries, early, budget>>

(* The worker is done with the task, or dies.                              *)
Leaves(w) ==
    /\ at[w] # Idle /\ Becomes(w, Idle)
    /\ \E x \in {"acked", "queued"} : task' = [task EXCEPT ![RunAt(w)] = x]
    /\ \/ runs' = runs
       \/ at[w].tx = "except" /\ ~IsTerminal(at[w].seen) /\ Ended(w, "FAILED")
    /\ ckpt' \in [Runs -> [next : Nodes, state : States]]
    /\ budget' \in [runs : {budget.runs}, faults : Nat]
    /\ Others /\ UNCHANGED <<classified, brief, tries, early>>

Kinds(w) == Moves(w) \/ Begins(w) \/ Writes(w) \/ Leaves(w)

LEMMA BusyType ==
  ASSUME TypeOK, NEW w \in Workers, at[w] # Idle
  PROVE  at[w] \in Busy /\ RunAt(w) \in Runs /\ Position(w) \in [next : Nodes, state : States]
  BY DEF TypeOK, Workers, RunAt, Position, Busy, StateAt

(* What Return does to a worker and its thread.                            *)
LEMMA ReturnType ==
  ASSUME TypeOK, NEW w \in Workers, at[w] # Idle, NEW state \in States, NEW next \in Nodes,
         Return(w, state, next)
  PROVE  /\ \E b \in Busy : Becomes(w, b) /\ b.tx = "none" /\ b.next = next
         /\ ckpt' \in [Runs -> [next : Nodes, state : States]]
<1> DEFINE b == [at[w] EXCEPT !.state = state, !.next = next, !.tx = "none",
                              !.seen = "RUNNING", !.found = FALSE]
<1>1. at[w] \in Busy
  BY BusyType
<1>2. b \in Busy /\ b.tx = "none" /\ b.next = next
  BY <1>1 DEF Busy, Transactions, Status
<1>3. Becomes(w, b)
  BY DEF Return, Becomes
<1>4. ckpt' \in [Runs -> [next : Nodes, state : States]]
  BY BusyType DEF Return, TypeOK
<1>5. QED
  BY <1>2, <1>3, <1>4

(* What Begin does.                                                        *)
LEMMA BeginType ==
  ASSUME TypeOK, NEW w \in Workers, at[w] # Idle, RunAt(w) \in Rows,
         NEW tx \in Transactions, Begin(w, tx)
  PROVE  /\ \E b \in Busy : /\ Becomes(w, b) /\ b.tx = tx
                            /\ b.next = at[w].next /\ b.seen = runs[RunAt(w)].status
         /\ ckpt' = ckpt
<1> DEFINE found == tx = "brief" /\ brief[runs[RunAt(w)].week] # 0
           b == [at[w] EXCEPT !.tx = tx, !.seen = runs[RunAt(w)].status, !.found = found]
<1>1. at[w] \in Busy
  BY BusyType
<1>2. runs[RunAt(w)].status \in Status
  BY DEF TypeOK, Rows, NoRow, Row
<1>3. found \in BOOLEAN
  OBVIOUS
<1>4. Becomes(w, b) /\ ckpt' = ckpt
  BY DEF Begin, Becomes
<1> HIDE DEF found
<1>5. b \in Busy /\ b.tx = tx /\ b.next = at[w].next /\ b.seen = runs[RunAt(w)].status
  BY <1>1, <1>2, <1>3 DEF Busy
<1>6. QED
  BY <1>4, <1>5

LEMMA NodeNames ==
  /\ {"ingest", "classify", "aggregate", "render_brief", "end"} = Nodes
  /\ Initial \in States
  /\ {"none", "no_posts", "cost_limit", "llm_error", "brief", "except"} = Transactions
  BY DEF Nodes, Initial, States, Transactions

(* Every action of a worker that is at work is of one of the kinds.        *)
LEMMA StepKinds ==
  ASSUME TypeOK, NEW w \in Workers, Step(w) \/ Raise(w) \/ Crash(w),
         at[w] # Idle => RunAt(w) \in Rows /\ TxAt(at[w])
  PROVE  Kinds(w)
<1> USE DEF Kinds, Others, env, db, WorkerOnly
<1>1. at[w] # Idle
  BY DEF Step, IngestOrgGone, Ingest, Classify, CostLimit, Aggregate, RenderBrief,
         RenderWithoutConfig, CommitNoPosts, CommitCostLimit, CommitLlmError, CommitBrief,
         BriefConflict, CommitExcept, Finish, Raise, Crash, IsAt
<1>2. /\ RunAt(w) \in Rows /\ at[w] \in Busy /\ RunAt(w) \in Runs /\ TxAt(at[w])
      /\ Position(w) \in [next : Nodes, state : States]
  BY <1>1, BusyType
<1>3. budget \in [runs : {budget.runs}, faults : Nat]
      /\ (Fault => budget' \in [runs : {budget.runs}, faults : Nat])
  BY DEF TypeOK, Fault
<1>4. CASE IngestOrgGone(w)
  <2>1. Return(w, Initial, "end") /\ at[w].next = "ingest"
    BY <1>4 DEF IngestOrgGone, IsAt
  <2>2. Moves(w)
    BY <1>1, <1>4, <2>1, ReturnType, NodeNames DEF IngestOrgGone, Moves
  <2>3. QED
    BY <2>2
<1>5. CASE Ingest(w)
  <2>1. at[w].next = "ingest"
    BY <1>5 DEF Ingest, IsAt
  <2>2. PICK got \in Gathered :
          LET new == got[1] \ PreviouslyClassified(runs[RunAt(w)].week) IN
          IF new = {} /\ ~got[2] THEN Begin(w, "no_posts") ELSE Return(w, new, "classify")
    BY <1>5 DEF Ingest
  <2>3. CASE Begin(w, "no_posts")
    <3>1. Begins(w)
      BY <1>1, <1>2, <1>3, <1>5, <2>1, <2>3, BeginType, NodeNames DEF Ingest, Begins, TxAt
    <3>2. QED
      BY <3>1
  <2>4. CASE Return(w, got[1] \ PreviouslyClassified(runs[RunAt(w)].week), "classify")
    <3>1. got[1] \ PreviouslyClassified(runs[RunAt(w)].week) \in States
      BY DEF Gathered, States
    <3>2. Moves(w)
      BY <1>1, <1>5, <2>1, <2>4, <3>1, ReturnType, NodeNames DEF Ingest, Moves
    <3>3. QED
      BY <3>2
  <2>5. QED
    BY <2>2, <2>3, <2>4
<1>6. CASE Classify(w)
  <2>1. Return(w, StateAt(w), "aggregate") /\ at[w].next = "classify" /\ StateAt(w) \in States
    BY <1>2, <1>6 DEF Classify, IsAt, StateAt, Busy
  <2>2. Moves(w)
    BY <1>1, <1>6, <2>1, ReturnType, NodeNames DEF Classify, Moves
  <2>3. QED
    BY <2>2
<1>7. CASE CostLimit(w)
  <2>1. Begin(w, "cost_limit") /\ at[w].next # "end"
    BY <1>7 DEF CostLimit, IsAt
  <2>2. Begins(w)
    BY <1>1, <1>2, <1>3, <1>7, <2>1, BeginType, NodeNames DEF CostLimit, Begins, TxAt
  <2>3. QED
    BY <2>2
<1>8. CASE Aggregate(w)
  <2>1. Return(w, Initial, "render_brief") /\ at[w].next = "aggregate"
    BY <1>8 DEF Aggregate, IsAt
  <2>2. Moves(w)
    BY <1>1, <1>8, <2>1, ReturnType, NodeNames DEF Aggregate, Moves
  <2>3. QED
    BY <2>2
<1>9. CASE RenderBrief(w)
  <2>1. (Begin(w, "brief") \/ Begin(w, "llm_error")) /\ at[w].next # "end"
    BY <1>9 DEF RenderBrief, IsAt
  <2>2. Begins(w)
    BY <1>1, <1>2, <1>3, <1>9, <2>1, BeginType, NodeNames DEF RenderBrief, Begins, TxAt
  <2>3. QED
    BY <2>2
<1>10. CASE RenderWithoutConfig(w) \/ BriefConflict(w)
  <2>1. Begin(w, "except")
    BY <1>10 DEF RenderWithoutConfig, BriefConflict
  <2>2. Begins(w)
    BY <1>1, <1>2, <1>3, <1>10, <2>1, BeginType, NodeNames
    DEF RenderWithoutConfig, BriefConflict, Begins, TxAt
  <2>3. QED
    BY <2>2
<1>11. CASE CommitNoPosts(w)
  <2>1. Return(w, Initial, "end") /\ (runs' = runs \/ Ended(w, "COMPLETED"))
    BY <1>11 DEF CommitNoPosts, SetStatus, Ended
  <2>2. Writes(w)
    BY <1>1, <1>11, <2>1, ReturnType, NodeNames DEF CommitNoPosts, Writes
  <2>3. QED
    BY <2>2
<1>12. CASE CommitCostLimit(w)
  <2>1. Return(w, Initial, "end") /\ (runs' = runs \/ Ended(w, "FAILED"))
    BY <1>12 DEF CommitCostLimit, FailUnlessTerminal, SetStatus, Ended
  <2>2. Writes(w)
    BY <1>1, <1>12, <2>1, ReturnType, NodeNames DEF CommitCostLimit, Writes
  <2>3. QED
    BY <2>2
<1>13. CASE CommitLlmError(w)
  <2>1. Return(w, Initial, "end") /\ (runs' = runs \/ Ended(w, "FAILED"))
    BY <1>13 DEF CommitLlmError, SetStatus, Ended
  <2>2. Writes(w)
    BY <1>1, <1>13, <2>1, ReturnType, NodeNames DEF CommitLlmError, Writes
  <2>3. QED
    BY <2>2
<1>14. CASE CommitBrief(w)
  <2>1. /\ Return(w, Initial, "end")
        /\ (runs' = runs /\ at[w].seen = "COMPLETED") \/ Ended(w, "COMPLETED")
    BY <1>14 DEF CommitBrief, SetStatus, Ended
  <2>2. Writes(w)
    BY <1>1, <1>14, <2>1, ReturnType, NodeNames DEF CommitBrief, Writes
  <2>3. QED
    BY <2>2
<1>15. CASE CommitExcept(w)
  <2>1. runs' = runs \/ (~IsTerminal(at[w].seen) /\ Ended(w, "FAILED"))
    BY <1>15 DEF CommitExcept, FailUnlessTerminal, SetStatus, Ended
  <2>2. Leaves(w)
    BY <1>1, <1>3, <1>15, <2>1 DEF CommitExcept, Leaves, Becomes, TypeOK
  <2>3. QED
    BY <2>2
<1>16. CASE Finish(w)
  <2>1. ckpt' \in [Runs -> [next : Nodes, state : States]]
    BY <1>2, <1>16 DEF Finish, TypeOK
  <2>2. Leaves(w)
    BY <1>1, <1>3, <1>16, <2>1 DEF Finish, Leaves, Becomes
  <2>3. QED
    BY <2>2
<1>17. CASE Raise(w)
  <2>1. Begins(w)
    BY <1>1, <1>2, <1>3, <1>17, BeginType, NodeNames DEF Raise, Begins, TxAt
  <2>2. QED
    BY <2>1
<1>18. CASE Crash(w)
  <2>1. ckpt' \in [Runs -> [next : Nodes, state : States]]
    BY <1>2, <1>18 DEF Crash, TypeOK
  <2>2. \E x \in {"acked", "queued"} : task' = [task EXCEPT ![RunAt(w)] = x]
    BY <1>18 DEF Crash
  <2>3. Leaves(w)
    BY <1>1, <1>3, <1>18, <2>1, <2>2 DEF Crash, Leaves, Becomes
  <2>4. QED
    BY <2>3
<1>19. QED
  BY <1>4, <1>5, <1>6, <1>7, <1>8, <1>9, <1>10, <1>11, <1>12, <1>13, <1>14, <1>15,
     <1>16, <1>17, <1>18 DEF Step
-----------------------------------------------------------------------------
(* The inductive invariant.                                                *)

(* Rows are numbered as they are inserted, within the budget.              *)
RowsInv == \E n \in 0 .. MaxRuns : Rows = 1 .. n /\ n + budget.runs <= MaxRuns

(* A row that a check has looked at is not in flight, and never will be.   *)
Settled(r) == r \in Rows /\ ~InFlight(r)
KnewInv ==
    /\ \A s \in Rows : \A r \in runs[s].knew : Settled(r)
    /\ \A c \in Callers : caller[c].at = "insert" => \A r \in caller[c].knew : Settled(r)

(* Tasks and workers have a row; the second worker comes with the second   *)
(* delivery.                                                               *)
TaskInv ==
    /\ \A r \in Runs : /\ task[r] # "none" => r \in Rows
                       /\ task[r] = "taken" => tries[r] >= 1
                       /\ tries[r] = 0 => at[<<r, "first">>] = Idle
                       /\ tries[r] <= 1 => at[<<r, "second">>] = Idle
    /\ \A w \in Workers : at[w] # Idle => RunAt(w) \in Rows /\ TxAt(at[w])
    /\ \A r \in reaping : Old(r)

(* A run that was delivered at most once and has not come to its end is    *)
(* running, or was failed by the reaper; a transaction that found it       *)
(* running still finds it so.                                              *)
Undisturbed(r) == \/ runs[r].status = "RUNNING"
                  \/ runs[r].status = "FAILED" /\ Old(r)
StatusInv ==
    /\ \A r \in Rows : tries[r] = 0 => Undisturbed(r)
    /\ \A w \in Workers : (at[w] # Idle /\ tries[RunAt(w)] <= 1) =>
         /\ at[w].next # "end" => Undisturbed(RunAt(w))
         /\ (at[w].tx # "none" /\ at[w].next # "end") => at[w].seen # "COMPLETED"
         /\ (at[w].tx # "none" /\ at[w].seen = "RUNNING") => Undisturbed(RunAt(w))

(* Nothing is classified before aggregate.                                 *)
Unclassified(r) == \A p \in Posts : classified[r][p] = 0
ClassInv ==
    /\ \A r \in Runs : tries[r] = 0 => Unclassified(r)
    /\ \A w \in Workers : (at[w] # Idle /\ tries[RunAt(w)] <= 1 /\ at[w].next \in Early) =>
         Unclassified(RunAt(w))

BriefInv == BriefMatchesStatus /\ \A k \in Weeks : brief[k] \in Rows \cup {0}

(* The workers that have aggregate ahead of them may add a row each.       *)
Ahead(w) == IF at[w] # Idle /\ at[w].next \in Early THEN 1 ELSE 0
CountInv ==
    \A r \in Runs, p \in Posts :
        classified[r][p] + Ahead(<<r, "first">>) + Ahead(<<r, "second">>) <= early[r]

AnalystInv == TypeOK /\ RowsInv /\ KnewInv /\ TaskInv /\ StatusInv /\ ClassInv
              /\ BriefInv /\ CountInv

-----------------------------------------------------------------------------
(* The kinds of the other steps.                                           *)

Threads == [next : Nodes, state : States]

(* A delivery.                                                             *)
Starts(w) ==
    /\ at[w] = Idle
    /\ w = <<RunAt(w), "second">> => task[RunAt(w)] = "taken"
    /\ task[RunAt(w)] # "none"
    /\ \E c \in Threads :
         /\ Becomes(w, Resume(c))
         /\ early' = [early EXCEPT ![RunAt(w)] =
                        @ + IF c.next \in {"render_brief", "end"} THEN 0 ELSE 1]
    /\ tries' = [tries EXCEPT ![RunAt(w)] = @ + 1]
    /\ task' = [task EXCEPT ![RunAt(w)] = "taken"]
    /\ ckpt' \in [Runs -> Threads]
    /\ budget' \in [runs : {budget.runs}, faults : Nat]
    /\ Others /\ UNCHANGED <<runs, classified, brief>>

(* A step that touches neither rows nor workers.                           *)
Still ==
    /\ clock' \in 0 .. MaxClock /\ clock' >= clock
    /\ active' \in BOOLEAN /\ llm' = llm
    /\ budget' \in [runs : {budget.runs}, faults : Nat]
    /\ \/ caller' = caller
       \/ \E c \in Callers : Check(c) \/ Send(c) \/ LoseCall(c)
    /\ task' = task \/ \E c \in Callers : Send(c)
    /\ reaping' \in {reaping, {r \in Rows : Stale(r)}}
    /\ UNCHANGED <<runs, ckpt, at, classified, brief, tries, early>>

(* Rows stay, but for their status, which may become a final one.          *)
Keeps ==
    /\ clock' \in 0 .. MaxClock /\ clock' >= clock
    /\ runs' \in [Runs -> Row \cup {NoRow}]
    /\ \A r \in Runs :
         /\ runs'[r].started = runs[r].started
         /\ runs'[r].week = runs[r].week
         /\ runs'[r].knew = runs[r].knew
         /\ \/ runs'[r].status = runs[r].status
            \/ r \in Rows /\ IsTerminal(runs'[r].status)

LEMMA StartKinds ==
  ASSUME TypeOK, NEW r \in Runs, Deliver(r) \/ Redeliver(r)
  PROVE  \E w \in Workers : RunAt(w) = r /\ Starts(w)
<1> USE DEF Others, env, db, Threads
<1>1. \A w \in Workers : (RunAt(w) = r /\ StartWorker(w)) =>
         \E c \in Threads :
           /\ Becomes(w, Resume(c))
           /\ ckpt' \in [Runs -> Threads]
           /\ early' = [early EXCEPT ![RunAt(w)] =
                          @ + IF c.next \in {"render_brief", "end"} THEN 0 ELSE 1]
  <2> SUFFICES ASSUME NEW w \in Workers, RunAt(w) = r, StartWorker(w)
               PROVE  \E c \in Threads :
                        /\ Becomes(w, Resume(c))
                        /\ ckpt' \in [Runs -> Threads]
                        /\ early' = [early EXCEPT ![RunAt(w)] =
                                       @ + IF c.next \in {"render_brief", "end"} THEN 0 ELSE 1]
    OBVIOUS
  <2>1. PICK c \in Written(RunAt(w)) :
           /\ ckpt' = [ckpt EXCEPT ![RunAt(w)] = c]
           /\ at' = [at EXCEPT ![w] = Resume(c)]
           /\ early' = [early EXCEPT ![RunAt(w)] =
                          @ + IF c.next \in {"render_brief", "end"} THEN 0 ELSE 1]
    BY DEF StartWorker
  <2>2. \A v \in Workers : at[v] # Idle => Position(v) \in Threads
    BY BusyType
  <2>3. ckpt \in [Runs -> Threads]
    BY DEF TypeOK
  <2>4. c \in Threads
    BY <2>2, <2>3 DEF Written
  <2>5. QED
    BY <2>1, <2>3, <2>4 DEF Becomes
<1>2. CASE Deliver(r)
  <2> DEFINE w == <<r, "first">>
  <2>1. w \in Workers /\ RunAt(w) = r /\ w # <<r, "second">>
    BY DEF Workers, RunAt
  <2>2. Starts(w)
    BY <1>1, <1>2, <2>1 DEF Deliver, StartWorker, Starts, TypeOK
  <2>3. QED
    BY <2>1, <2>2
<1>3. CASE Redeliver(r)
  <2> DEFINE w == <<r, "second">>
  <2>1. w \in Workers /\ RunAt(w) = r
    BY DEF Workers, RunAt
  <2>2. task' = [task EXCEPT ![r] = "taken"] /\ budget' \in [runs : {budget.runs}, faults : Nat]
    BY <1>3 DEF Redeliver, TypeOK, Fault
  <2>3. Starts(w)
    BY <1>1, <1>3, <2>1, <2>2 DEF Redeliver, StartWorker, Starts
  <2>4. QED
    BY <2>1, <2>3
<1>4. QED
  BY <1>2, <1>3

(* Every step is of one of these kinds.                                    *)
LEMMA StepCases ==
  ASSUME TypeOK, TaskInv, [Next]_vars
  PROVE  \/ Still
         \/ \E c \in Callers : Insert(c)
         \/ \E w \in Workers : Starts(w)
         \/ \E w \in Workers : Kinds(w)
         \/ ReapCommit
<1> USE DEF env, db, Still
<1>1. budget \in [runs : {budget.runs}, faults : Nat]
      /\ (Fault => budget' \in [runs : {budget.runs}, faults : Nat])
      /\ clock \in 0 .. MaxClock /\ clock \in Int /\ MaxClock \in Int /\ active \in BOOLEAN
  BY AnalystAssumption DEF AnalystAssumption, TypeOK, Fault
<1>2. CASE UNCHANGED vars
  BY <1>1, <1>2 DEF vars
<1>3. CASE Hour
  BY <1>1, <1>3 DEF Hour
<1>4. CASE Deactivate
  <2>1. active' \in BOOLEAN
    BY <1>4 DEF Deactivate
  <2>2. UNCHANGED <<env, llm, runs, classified, brief, task, ckpt, at, tries, early, budget>>
    BY <1>4 DEF Deactivate
  <2>3. Still
    BY <1>1, <2>1, <2>2
  <2>4. QED
    BY <2>3
<1>9. CASE ReapSelect
  BY <1>1, <1>9 DEF ReapSelect
<1>5. ASSUME NEW c \in Callers, Check(c) \/ Insert(c) \/ Send(c) \/ LoseCall(c)
      PROVE  Still \/ Insert(c)
  BY <1>1, <1>5 DEF Check, Send, LoseCall
<1>6. ASSUME NEW r \in Runs, Deliver(r) \/ Redeliver(r)
      PROVE  \E w \in Workers : Starts(w)
  BY <1>6, StartKinds
<1>7. ASSUME NEW w \in Workers, Step(w) \/ Raise(w) \/ Crash(w)
      PROVE  Kinds(w)
  BY <1>7, StepKinds DEF TaskInv
<1> HIDE DEF Still
<1>10. QED
  BY <1>2, <1>3, <1>4, <1>9, <1>5, <1>6, <1>7 DEF Next

LEMMA WriteRuns ==
  ASSUME TypeOK, TaskInv, NEW w \in Workers, Kinds(w)
  PROVE  /\ at[w] # Idle /\ RunAt(w) \in Rows /\ RunAt(w) \in Runs /\ at[w] \in Busy
         /\ runs' \in [Runs -> Row \cup {NoRow}]
         /\ \/ runs' = runs
            \/ Ended(w, "FAILED") /\ runs'[RunAt(w)].status = "FAILED"
            \/ Ended(w, "COMPLETED") /\ runs'[RunAt(w)].status = "COMPLETED"
         /\ \A r \in Runs : r # RunAt(w) => runs'[r] = runs[r]
<1>1. at[w] # Idle
  BY DEF Kinds, Moves, Begins, Writes, Leaves
<1>2. RunAt(w) \in Rows /\ RunAt(w) \in Runs /\ at[w] \in Busy
  BY <1>1, BusyType DEF TaskInv
<1>3. runs' = runs \/ Ended(w, "FAILED") \/ Ended(w, "COMPLETED")
  BY DEF Kinds, Moves, Begins, Writes, Leaves
<1>4. runs \in [Runs -> Row \cup {NoRow}]
  BY DEF TypeOK
<1>5. runs[RunAt(w)] \in Row
  BY <1>2, <1>4 DEF Rows, NoRow
<1>6. ASSUME NEW status \in {"FAILED", "COMPLETED"}, Ended(w, status)
      PROVE  /\ runs' \in [Runs -> Row \cup {NoRow}]
             /\ runs'[RunAt(w)].status = status
             /\ \A r \in Runs : r # RunAt(w) => runs'[r] = runs[r]
  <2>1. [runs[RunAt(w)] EXCEPT !.status = status] \in Row
    BY <1>5 DEF Row, Status
  <2>2. runs'[RunAt(w)].status = status
    BY <1>2, <1>4, <1>5, <1>6 DEF Ended, Row
  <2>3. QED
    BY <1>2, <1>4, <1>6, <2>1, <2>2 DEF Ended
<1>7. QED
  BY <1>1, <1>2, <1>3, <1>4, <1>6

(* All steps but Insert keep the rows.                                     *)
LEMMA RowsKept ==
  ASSUME TypeOK, TaskInv, [Next]_vars, \A c \in Callers : ~Insert(c)
  PROVE  Keeps
<1>1. clock \in 0 .. MaxClock /\ clock \in Int /\ runs \in [Runs -> Row \cup {NoRow}]
  BY AnalystAssumption DEF AnalystAssumption, TypeOK
<1>2. CASE Still
  BY <1>1, <1>2 DEF Still, Keeps
<1>3. ASSUME NEW w \in Workers, Starts(w)
      PROVE  Keeps
  BY <1>1, <1>3 DEF Starts, Others, Keeps
<1>4. ASSUME NEW w \in Workers, Kinds(w)
      PROVE  Keeps
  <2>1. clock' = clock
    BY <1>4 DEF Kinds, Moves, Begins, Writes, Leaves, Others
  <2>2. runs[RunAt(w)] \in Row
    BY <1>1, <1>4, WriteRuns DEF Rows, NoRow
  <2>3. ASSUME NEW status \in {"FAILED", "COMPLETED"}, Ended(w, status)
        PROVE  /\ runs'[RunAt(w)].started = runs[RunAt(w)].started
               /\ runs'[RunAt(w)].week = runs[RunAt(w)].week
               /\ runs'[RunAt(w)].knew = runs[RunAt(w)].knew
    BY <1>1, <1>4, <2>2, <2>3, WriteRuns DEF Ended, Row
  <2>4. QED
    BY <1>1, <1>4, <2>1, <2>3, WriteRuns DEF Keeps, IsTerminal
<1>5. CASE ReapCommit
  <2>1. clock' = clock /\ reaping \subseteq Rows
    BY <1>5 DEF ReapCommit, TypeOK
  <2>2. ASSUME NEW r \in Runs
        PROVE  /\ runs'[r] \in Row \cup {NoRow}
               /\ runs'[r].started = runs[r].started
               /\ runs'[r].week = runs[r].week
               /\ runs'[r].knew = runs[r].knew
               /\ runs'[r].status = runs[r].status \/ (r \in Rows /\ IsTerminal(runs'[r].status))
    <3>1. CASE r \in reaping
      <4>1. runs[r] \in Row /\ r \in Rows
        BY <1>1, <2>1, <3>1 DEF Rows, NoRow
      <4>2. runs'[r] = [runs[r] EXCEPT !.status = "FAILED"]
        BY <1>5, <3>1 DEF ReapCommit
      <4>3. QED
        BY <4>1, <4>2 DEF Row, Status, IsTerminal
    <3>2. CASE r \notin reaping
      BY <1>1, <1>5, <3>2 DEF ReapCommit
    <3>3. QED
      BY <3>1, <3>2
  <2>3. runs' \in [Runs -> Row \cup {NoRow}]
    BY <1>5, <2>2 DEF ReapCommit
  <2>4. QED
    BY <1>1, <2>1, <2>2, <2>3 DEF Keeps
<1>6. QED
  BY <1>2, <1>3, <1>4, <1>5, StepCases

LEMMA KeptFacts ==
  ASSUME TypeOK, Keeps
  PROVE  /\ Rows' = Rows
         /\ \A r \in Runs : /\ Old(r) => Old(r)'
                            /\ InFlight(r)' => InFlight(r)
                            /\ Settled(r) => Settled(r)'
<1>1. /\ clock \in Int /\ clock' \in Int /\ clock' >= clock /\ StaleAfter \in Int
      /\ runs \in [Runs -> Row \cup {NoRow}] /\ runs' \in [Runs -> Row \cup {NoRow}]
  BY AnalystAssumption DEF AnalystAssumption, TypeOK, Keeps
<1>2. \A r \in Runs : runs[r].started \in Int
  BY <1>1 DEF Row, NoRow
<1>3. \A r \in Runs : r \in Rows' <=> r \in Rows
  BY DEF Keeps, Rows, IsTerminal
<1>4. Rows' = Rows
  BY <1>3 DEF Rows
<1>5. ASSUME NEW r \in Runs
      PROVE  Old(r) => Old(r)'
  <2>1. runs'[r].started = runs[r].started
    BY DEF Keeps
  <2>2. QED
    BY <1>1, <1>2, <2>1 DEF Old
<1>6. ASSUME NEW r \in Runs
      PROVE  InFlight(r)' => InFlight(r)
  BY <1>5 DEF InFlight, Keeps, IsTerminal
<1>7. QED
  BY <1>4, <1>5, <1>6 DEF Settled

(* What Insert does.                                                       *)
LEMMA InsertFacts ==
  ASSUME TypeOK, RowsInv, NEW c \in Callers, Insert(c)
  PROVE  /\ RowsInv'
         /\ budget' \in [runs : 0 .. MaxRuns, faults : Nat]
         /\ clock' = clock /\ runs' \in [Runs -> Row \cup {NoRow}]
         /\ caller[c] \in [at : {"insert"}, week : Weeks, knew : SUBSET Runs]
         /\ \E r \in Runs :
              /\ r \notin Rows /\ Rows' = Rows \cup {r}
              /\ runs'[r].status = "RUNNING" /\ runs'[r].knew = caller[c].knew
              /\ \A s \in Runs : s # r => runs'[s] = runs[s]
              /\ caller' = [caller EXCEPT ![c] = [at |-> "send", run |-> r]]
<1> USE AnalystAssumption DEF AnalystAssumption
<1>1. PICK n \in 0 .. MaxRuns : Rows = 1 .. n /\ n + budget.runs <= MaxRuns
  BY DEF RowsInv
<1>2. budget.runs \in 0 .. MaxRuns /\ budget.runs > 0
      /\ budget' = [budget EXCEPT !.runs = @ - 1]
      /\ budget \in [runs : 0 .. MaxRuns, faults : Nat]
  BY DEF Insert, TypeOK
<1>3. Cardinality(Rows) = n
  BY <1>1, FS_Interval
<1> DEFINE r == n + 1
           row == [status |-> "RUNNING", started |-> clock,
                   week |-> IF c \in Ticks THEN caller[c].week ELSE week,
                   knew |-> caller[c].knew]
<1>4. r \in Runs /\ r \notin Rows
  BY <1>1, <1>2 DEF Runs
<1>5. runs' = [runs EXCEPT ![r] = row]
      /\ caller' = [caller EXCEPT ![c] = [at |-> "send", run |-> r]]
      /\ clock' = clock /\ caller[c].at = "insert"
  BY <1>3 DEF Insert
<1>6. caller[c] \in [at : {"insert"}, week : Weeks, knew : SUBSET Runs]
  <2>1. caller[c] \in [at : {"idle"}]
                      \cup [at : {"insert"}, week : Weeks, knew : SUBSET Runs]
                      \cup [at : {"send"}, run : Rows]
    BY DEF TypeOK
  <2>2. QED
    BY <1>5, <2>1
<1>7. week \in Weeks
  BY DEF week, Weeks, TypeOK
<1>8. row \in Row
  BY <1>6, <1>7 DEF Row, Status, TypeOK
<1>9. runs \in [Runs -> Row \cup {NoRow}]
  BY DEF TypeOK
<1>10. /\ runs' \in [Runs -> Row \cup {NoRow}]
       /\ runs'[r].status = "RUNNING" /\ runs'[r].knew = caller[c].knew
       /\ \A s \in Runs : s # r => runs'[s] = runs[s]
  BY <1>4, <1>5, <1>8, <1>9
<1>11. Rows' = Rows \cup {r}
  BY <1>4, <1>10 DEF Rows
<1>12. RowsInv'
  <2>1. Rows' = 1 .. n + 1 /\ n + 1 \in 0 .. MaxRuns
    BY <1>1, <1>2, <1>11
  <2>2. n + 1 + budget'.runs <= MaxRuns
    BY <1>1, <1>2
  <2>3. QED
    BY <2>1, <2>2 DEF RowsInv
<1>13. budget' \in [runs : 0 .. MaxRuns, faults : Nat]
  BY <1>2
<1> HIDE DEF r, row
<1>14. QED
  BY <1>4, <1>5, <1>6, <1>10, <1>11, <1>12, <1>13

LEMMA RowsStep ==
  ASSUME AnalystInv, [Next]_vars
  PROVE  RowsInv' /\ Rows \subseteq Rows' /\ runs' \in [Runs -> Row \cup {NoRow}]
         /\ clock' \in 0 .. MaxClock /\ budget' \in [runs : 0 .. MaxRuns, faults : Nat]
<1> USE DEF AnalystInv
<1>1. CASE \E c \in Callers : Insert(c)
  BY <1>1, InsertFacts DEF TypeOK
<1>2. CASE \A c \in Callers : ~Insert(c)
  <2>1. Keeps /\ Rows' = Rows
    BY <1>2, RowsKept, KeptFacts
  <2>2. budget' \in [runs : {budget.runs}, faults : Nat] /\ budget \in [runs : 0 .. MaxRuns, faults : Nat]
    <3>1. budget \in [runs : 0 .. MaxRuns, faults : Nat] /\ budget \in [runs : {budget.runs}, faults : Nat]
      BY DEF TypeOK
    <3>2. (\E w \in Workers : Kinds(w)) => budget' \in [runs : {budget.runs}, faults : Nat]
      BY <3>1 DEF Kinds, Moves, Begins, Writes, Leaves
    <3>3. QED
      BY <1>2, <3>1, <3>2, StepCases DEF Still, Starts, ReapCommit
  <2>3. budget'.runs = budget.runs
    BY <2>2
  <2>4. RowsInv'
    BY <2>1, <2>3 DEF RowsInv
  <2>5. QED
    BY <2>1, <2>2, <2>4 DEF Keeps
<1>3. QED
  BY <1>1, <1>2

-----------------------------------------------------------------------------
(* The type invariant.                                                     *)

Calls(rows) == [at : {"idle"}] \cup [at : {"insert"}, week : Weeks, knew : SUBSET Runs]
               \cup [at : {"send"}, run : rows]

LEMMA CallerType ==
  ASSUME AnalystInv, [Next]_vars
  PROVE  caller' \in [Callers -> Calls(Rows')]
<1>1. caller \in [Callers -> Calls(Rows)] /\ Rows \subseteq Rows'
  BY RowsStep DEF TypeOK, AnalystInv, Calls
<1>2. Calls(Rows) \subseteq Calls(Rows')
  BY <1>1 DEF Calls
<1>3. caller \in [Callers -> Calls(Rows')]
  BY <1>1, <1>2
<1>4. ASSUME NEW c \in Callers, Check(c)
      PROVE  caller' \in [Callers -> Calls(Rows')]
  <2>1. week \in Weeks /\ LookedAt(c) \in SUBSET Runs
    BY DEF week, Weeks, AnalystInv, TypeOK, LookedAt, Rows
  <2>2. [at |-> "insert", week |-> week, knew |-> LookedAt(c)] \in Calls(Rows')
    BY <2>1 DEF Calls
  <2>3. QED
    BY <1>3, <1>4, <2>2 DEF Check
<1>5. ASSUME NEW c \in Callers, Insert(c)
      PROVE  caller' \in [Callers -> Calls(Rows')]
  <2>1. PICK r \in Rows' : caller' = [caller EXCEPT ![c] = [at |-> "send", run |-> r]]
    BY <1>5, InsertFacts DEF AnalystInv
  <2>2. [at |-> "send", run |-> r] \in Calls(Rows')
    BY DEF Calls
  <2>3. QED
    BY <1>3, <2>1, <2>2
<1>6. ASSUME NEW c \in Callers, Send(c) \/ LoseCall(c)
      PROVE  caller' \in [Callers -> Calls(Rows')]
  <2>1. [at |-> "idle"] \in Calls(Rows')
    BY DEF Calls
  <2>2. QED
    BY <1>3, <1>6, <2>1 DEF Send, LoseCall
<1>7. QED
  BY <1>3, <1>4, <1>5, <1>6, StepCases
  DEF AnalystInv, Still, Starts, Kinds, Moves, Begins, Writes, Leaves, Others, ReapCommit

LEMMA TypePreserved ==
  ASSUME AnalystInv, [Next]_vars
  PROVE  TypeOK'
<1>1. /\ active \in BOOLEAN /\ llm \in BOOLEAN
      /\ task \in [Runs -> {"none", "queued", "taken", "acked"}]
      /\ ckpt \in [Runs -> Threads]
      /\ at \in [Workers -> Busy \cup {Idle}]
      /\ classified \in [Runs -> [Posts -> Nat]]
      /\ brief \in [Weeks -> Runs \cup {0}]
      /\ reaping \in SUBSET Rows /\ Rows \subseteq Rows'
      /\ tries \in [Runs -> Nat] /\ early \in [Runs -> Nat]
  BY RowsStep DEF AnalystInv, TypeOK, Threads
<1> DEFINE Rest ==
      /\ active' \in BOOLEAN /\ llm' \in BOOLEAN
      /\ task' \in [Runs -> {"none", "queued", "taken", "acked"}]
      /\ ckpt' \in [Runs -> Threads]
      /\ at' \in [Workers -> Busy \cup {Idle}]
      /\ classified' \in [Runs -> [Posts -> Nat]]
      /\ brief' \in [Weeks -> Runs \cup {0}]
      /\ reaping' \in SUBSET Rows'
      /\ tries' \in [Runs -> Nat] /\ early' \in [Runs -> Nat]
<1>2. ASSUME Still
      PROVE  Rest
  <2>1. active' \in BOOLEAN /\ llm' = llm
    BY <1>2 DEF Still
  <2>2. task' \in [Runs -> {"none", "queued", "taken", "acked"}]
    <3>1. ASSUME NEW c \in Callers, Send(c)
          PROVE  task' \in [Runs -> {"none", "queued", "taken", "acked"}]
      BY <1>1, <3>1 DEF Send
    <3>2. QED
      BY <1>1, <1>2, <3>1 DEF Still
  <2>3. reaping' \in SUBSET Rows'
    BY <1>1, <1>2 DEF Still
  <2>4. UNCHANGED <<ckpt, at, classified, brief, tries, early>>
    BY <1>2 DEF Still
  <2>5. QED
    BY <1>1, <2>1, <2>2, <2>3, <2>4
<1>3. ASSUME NEW c \in Callers, Insert(c)
      PROVE  Rest
  BY <1>1, <1>3 DEF Insert
<1>4. ASSUME NEW w \in Workers, Starts(w)
      PROVE  Rest
  <2>1. RunAt(w) \in Runs
    BY DEF Workers, RunAt
  <2>2. PICK c \in Threads :
         /\ Becomes(w, Resume(c))
         /\ early' = [early EXCEPT ![RunAt(w)] =
                        @ + IF c.next \in {"render_brief", "end"} THEN 0 ELSE 1]
    BY <1>4 DEF Starts
  <2>3. Resume(c) \in Busy
    BY DEF Resume, Busy, Threads, Transactions, Status
  <2>4. at' \in [Workers -> Busy \cup {Idle}] /\ early' \in [Runs -> Nat]
    BY <1>1, <2>1, <2>2, <2>3 DEF Becomes
  <2>5. tries' \in [Runs -> Nat] /\ task' \in [Runs -> {"none", "queued", "taken", "acked"}]
    BY <1>1, <1>4, <2>1 DEF Starts
  <2>6. QED
    BY <1>1, <1>4, <2>4, <2>5 DEF Starts, Others
<1>5. ASSUME NEW w \in Workers, Kinds(w)
      PROVE  Rest
  <2>1. RunAt(w) \in Runs /\ UNCHANGED <<active, llm, reaping, tries, early>>
    BY <1>5 DEF Workers, RunAt, Kinds, Moves, Begins, Writes, Leaves, Others
  <2>2. at' \in [Workers -> Busy \cup {Idle}]
    BY <1>1, <1>5 DEF Kinds, Moves, Begins, Writes, Leaves, Becomes
  <2>3. ckpt' \in [Runs -> Threads]
    BY <1>1, <1>5 DEF Kinds, Moves, Begins, Writes, Leaves, Threads
  <2>4. task' \in [Runs -> {"none", "queued", "taken", "acked"}]
    BY <1>1, <1>5 DEF Kinds, Moves, Begins, Writes, Leaves
  <2>5. classified' \in [Runs -> [Posts -> Nat]]
    <3>1. [p \in Posts |-> classified[RunAt(w)][p] + IF p \in StateAt(w) THEN 1 ELSE 0]
             \in [Posts -> Nat]
      BY <1>1, <2>1
    <3>2. \/ classified' = classified
          \/ classified' = [classified EXCEPT ![RunAt(w)] =
                 [p \in Posts |-> classified[RunAt(w)][p] + IF p \in StateAt(w) THEN 1 ELSE 0]]
      BY <1>5 DEF Kinds, Moves, Begins, Writes, Leaves
    <3>3. QED
      BY <1>1, <2>1, <3>1, <3>2
  <2>6. brief' \in [Weeks -> Runs \cup {0}]
    BY <1>1, <1>5, <2>1 DEF Kinds, Moves, Begins, Writes, Leaves
  <2>7. QED
    BY <1>1, <2>1, <2>2, <2>3, <2>4, <2>5, <2>6
<1>6. ASSUME ReapCommit
      PROVE  Rest
  BY <1>1, <1>6 DEF ReapCommit
<1> HIDE DEF Rest
<1>7. Rest
  BY <1>2, <1>3, <1>4, <1>5, <1>6, StepCases DEF AnalystInv
<1>8. QED
  BY <1>7, RowsStep, CallerType DEF Rest, TypeOK, Threads, Calls

-----------------------------------------------------------------------------
(* The other parts of the invariant.                                       *)

LEMMA KnewPreserved ==
  ASSUME AnalystInv, [Next]_vars
  PROVE  KnewInv'
<1> USE DEF AnalystInv
<1>1. \A s \in Rows : runs[s].knew \subseteq Runs
  BY DEF TypeOK, Rows, NoRow, Row
<1>2. ASSUME NEW c \in Callers, Insert(c)
      PROVE  KnewInv'
  <2>1. PICK r \in Runs :
              /\ r \notin Rows /\ Rows' = Rows \cup {r} /\ clock' = clock
              /\ runs'[r].knew = caller[c].knew
              /\ \A s \in Runs : s # r => runs'[s] = runs[s]
              /\ caller' = [caller EXCEPT ![c] = [at |-> "send", run |-> r]]
              /\ caller[c] \in [at : {"insert"}, week : Weeks, knew : SUBSET Runs]
    BY <1>2, InsertFacts
  <2>2. \A s \in Runs : Settled(s) => Settled(s)'
    BY <2>1 DEF Settled, InFlight, Old, Rows
  <2>3. ASSUME NEW s \in Rows'
        PROVE  \A q \in runs'[s].knew : Settled(q)'
    <3>1. CASE s = r
      BY <1>2, <2>1, <2>2, <3>1 DEF KnewInv, Rows
    <3>2. CASE s # r
      BY <1>1, <2>1, <2>2, <3>2 DEF KnewInv, Rows
    <3>3. QED
      BY <3>1, <3>2
  <2>4. ASSUME NEW d \in Callers, caller'[d].at = "insert"
        PROVE  \A q \in caller'[d].knew : Settled(q)'
    <3>1. caller \in [Callers -> Calls(Rows)]
      BY DEF TypeOK, Calls
    <3>2. d # c /\ caller'[d] = caller[d]
      BY <2>1, <2>4, <3>1
    <3>3. QED
      BY <2>2, <2>4, <3>2 DEF KnewInv, Settled, Rows
  <2>5. QED
    BY <2>3, <2>4 DEF KnewInv
<1>3. CASE \A c \in Callers : ~Insert(c)
  <2>1. Keeps /\ Rows' = Rows /\ \A r \in Runs : Settled(r) => Settled(r)'
    BY <1>3, RowsKept, KeptFacts
  <2>2. \A r \in Runs : Settled(r)' <=> (r \in Rows /\ ~InFlight(r)')
    BY <2>1 DEF Settled
  <2>3. \A s \in Rows' : \A r \in runs'[s].knew : Settled(r)'
    BY <1>1, <2>1 DEF KnewInv, Keeps, Rows
  <2>4. ASSUME NEW d \in Callers, caller'[d].at = "insert"
        PROVE  \A q \in caller'[d].knew : Settled(q)'
    <3>1. caller \in [Callers -> Calls(Rows)]
      BY DEF TypeOK, Calls
    <3>2. CASE caller'[d] = caller[d]
      BY <2>1, <2>4, <3>2 DEF KnewInv, Settled, Rows
    <3>3. CASE Check(d) /\ caller'[d].knew = LookedAt(d)
      <4>1. \A q \in LookedAt(d) : Settled(q) /\ q \in Runs
        BY <3>3 DEF Check, LookedAt, Settled, Rows
      <4>2. QED
        BY <2>1, <3>3, <4>1
    <3>4. (caller'[d] = caller[d]) \/ (Check(d) /\ caller'[d].knew = LookedAt(d))
      <4>1. CASE caller' = caller
        BY <4>1
      <4>2. ASSUME NEW c \in Callers, Check(c)
            PROVE  (caller'[d] = caller[d]) \/ (Check(d) /\ caller'[d].knew = LookedAt(d))
        BY <3>1, <4>2 DEF Check
      <4>3. ASSUME NEW c \in Callers, Send(c) \/ LoseCall(c)
            PROVE  caller'[d] = caller[d]
        BY <2>4, <3>1, <4>3 DEF Send, LoseCall
      <4>4. QED
        BY <1>3, <4>1, <4>2, <4>3, StepCases
        DEF Still, Starts, Kinds, Moves, Begins, Writes, Leaves, Others, ReapCommit
    <3>5. QED
      BY <3>2, <3>3, <3>4
  <2>5. QED
    BY <2>3, <2>4 DEF KnewInv
<1>4. QED
  BY <1>2, <1>3

LEMMA WorkerNames ==
  ASSUME NEW w \in Workers
  PROVE  /\ RunAt(w) \in Runs
         /\ w = <<RunAt(w), "first">> \/ w = <<RunAt(w), "second">>
         /\ \A r \in Runs : /\ <<r, "first">> \in Workers /\ <<r, "second">> \in Workers
                            /\ <<r, "first">> # <<r, "second">>
                            /\ RunAt(<<r, "first">>) = r /\ RunAt(<<r, "second">>) = r
  BY DEF Workers, RunAt

(* A run that was delivered at most once has at most one worker.           *)
LEMMA OneWorker ==
  ASSUME TypeOK, TaskInv, NEW w \in Workers, NEW v \in Workers,
         at[w] # Idle, at[v] # Idle, RunAt(v) = RunAt(w), tries[RunAt(w)] <= 1
  PROVE  v = w /\ tries[RunAt(w)] # 0
<1> DEFINE r == RunAt(w)
<1>1. /\ r \in Runs
      /\ w = <<r, "first">> \/ w = <<r, "second">>
      /\ v = <<r, "first">> \/ v = <<r, "second">>
  BY WorkerNames
<1>2. at[<<r, "second">>] = Idle /\ (tries[r] = 0 => at[<<r, "first">>] = Idle)
  BY <1>1 DEF TaskInv
<1> HIDE DEF r
<1>3. w = <<r, "first">> /\ v = <<r, "first">> /\ tries[r] # 0
  BY <1>1, <1>2
<1>4. QED
  BY <1>3 DEF r

LEMMA TaskPreserved ==
  ASSUME AnalystInv, [Next]_vars
  PROVE  TaskInv'
<1> USE DEF AnalystInv
<1>1. /\ at \in [Workers -> Busy \cup {Idle}] /\ tries \in [Runs -> Nat]
      /\ task \in [Runs -> {"none", "queued", "taken", "acked"}]
      /\ Rows \subseteq Rows' /\ Rows \subseteq Runs
  BY RowsStep DEF TypeOK, Rows
<1> DEFINE TaskOf(r) == /\ task[r] # "none" => r \in Rows
                        /\ task[r] = "taken" => tries[r] >= 1
                        /\ tries[r] = 0 => at[<<r, "first">>] = Idle
                        /\ tries[r] <= 1 => at[<<r, "second">>] = Idle
           BusyAt(w) == at[w] # Idle => RunAt(w) \in Rows /\ TxAt(at[w])
<1>2. (\A r \in Runs : TaskOf(r)) /\ (\A w \in Workers : BusyAt(w))
  BY DEF TaskInv
<1>3. ASSUME NEW r \in reaping'
      PROVE  Old(r)'
  <2>1. \A q \in Rows : Old(q) => Old(q)'
    <3>1. CASE \E c \in Callers : Insert(c)
      <4>1. PICK c \in Callers : Insert(c)
        BY <3>1
      <4>2. QED
        BY <4>1, InsertFacts DEF Old, Rows
    <3>2. QED
      BY <1>1, <3>1, RowsKept, KeptFacts
  <2>2. r \in reaping \/ r \in {q \in Rows : Stale(q)}
    BY <1>3, StepCases
    DEF Still, Insert, Starts, Kinds, Moves, Begins, Writes, Leaves, Others, ReapCommit
  <2>3. r \in Rows /\ Old(r)
    BY <1>1, <2>2 DEF TaskInv, Stale, TypeOK
  <2>4. QED
    BY <2>1, <2>3
<1>4. ASSUME Still
      PROVE  (\A r \in Runs : TaskOf(r)') /\ (\A w \in Workers : BusyAt(w)')
  <2>1. UNCHANGED <<at, tries>> /\ (task' = task \/ \E c \in Callers : Send(c))
    BY <1>4 DEF Still
  <2>2. ASSUME NEW c \in Callers, Send(c)
        PROVE  \A r \in Runs : TaskOf(r)'
    <3>1. caller[c].run \in Rows
      BY <2>2 DEF Send, TypeOK
    <3>2. task' = [task EXCEPT ![caller[c].run] = "queued"]
      BY <2>2 DEF Send
    <3>3. QED
      BY <1>1, <1>2, <2>1, <3>1, <3>2
  <2>3. QED
    BY <1>1, <1>2, <2>1, <2>2
<1>5. ASSUME NEW c \in Callers, Insert(c)
      PROVE  (\A r \in Runs : TaskOf(r)') /\ (\A w \in Workers : BusyAt(w)')
  BY <1>1, <1>2, <1>5 DEF Insert
<1>6. ASSUME NEW w \in Workers, Starts(w)
      PROVE  (\A r \in Runs : TaskOf(r)') /\ (\A v \in Workers : BusyAt(v)')
  <2>1. PICK c \in Threads : at' = [at EXCEPT ![w] = Resume(c)]
    BY <1>6 DEF Starts, Becomes
  <2>2. /\ tries' = [tries EXCEPT ![RunAt(w)] = @ + 1]
        /\ task' = [task EXCEPT ![RunAt(w)] = "taken"]
        /\ RunAt(w) \in Rows /\ RunAt(w) \in Runs
        /\ w = <<RunAt(w), "second">> => tries[RunAt(w)] >= 1
    BY <1>2, <1>6, WorkerNames DEF Starts
  <2>3. TxAt(Resume(c))
    BY DEF TxAt, Resume
  <2>4. \A v \in Workers : BusyAt(v)'
    BY <1>1, <1>2, <2>1, <2>2, <2>3 DEF TxAt
  <2>5. ASSUME NEW r \in Runs
        PROVE  TaskOf(r)'
    <3>1. CASE r = RunAt(w)
      <4>1. tries'[r] = tries[r] + 1 /\ tries[r] \in Nat
        BY <1>1, <2>2, <3>1
      <4>2. tries'[r] <= 1 => w = <<r, "first">>
        BY <2>2, <3>1, <4>1, WorkerNames
      <4>3. tries'[r] <= 1 => at'[<<r, "second">>] = Idle
        BY <1>1, <1>2, <2>1, <3>1, <4>1, <4>2, WorkerNames
      <4>4. QED
        BY <1>1, <2>2, <3>1, <4>1, <4>3
    <3>2. CASE r # RunAt(w)
      <4>1. at'[<<r, "first">>] = at[<<r, "first">>] /\ at'[<<r, "second">>] = at[<<r, "second">>]
        BY <1>1, <2>1, <3>2, WorkerNames
      <4>2. QED
        BY <1>1, <1>2, <2>2, <3>2, <4>1
    <3>3. QED
      BY <3>1, <3>2
  <2>6. QED
    BY <2>4, <2>5
<1>7. ASSUME NEW w \in Workers, Kinds(w)
      PROVE  (\A r \in Runs : TaskOf(r)') /\ (\A v \in Workers : BusyAt(v)')
  <2>1. at[w] # Idle /\ RunAt(w) \in Rows /\ RunAt(w) \in Runs /\ tries' = tries
    BY <1>7, WriteRuns DEF Kinds, Moves, Begins, Writes, Leaves
  <2>2. PICK b \in Busy \cup {Idle} :
           at' = [at EXCEPT ![w] = b] /\ (b # Idle => TxAt(b))
    BY <1>7 DEF Kinds, Moves, Begins, Writes, Leaves, Becomes, TxAt
  <2>3. \A v \in Workers : BusyAt(v)'
    BY <1>1, <1>2, <2>1, <2>2 DEF TxAt
  <2>4. task' = task \/ \E x \in {"acked", "queued"} : task' = [task EXCEPT ![RunAt(w)] = x]
    BY <1>7 DEF Kinds, Moves, Begins, Writes, Leaves
  <2>5. ASSUME NEW r \in Runs
        PROVE  TaskOf(r)'
    <3>1. tries[r] = 0 => at'[<<r, "first">>] = Idle
      BY <1>1, <1>2, <2>1, <2>2, WorkerNames
    <3>2. tries[r] <= 1 => at'[<<r, "second">>] = Idle
      BY <1>1, <1>2, <2>1, <2>2, WorkerNames
    <3>3. (task'[r] # "none" => r \in Rows) /\ (task'[r] = "taken" => tries[r] >= 1)
      BY <1>1, <1>2, <2>1, <2>4
    <3>4. QED
      BY <1>1, <2>1, <3>1, <3>2, <3>3
  <2>6. QED
    BY <2>3, <2>5
<1>8. ASSUME ReapCommit
      PROVE  (\A r \in Runs : TaskOf(r)') /\ (\A w \in Workers : BusyAt(w)')
  BY <1>1, <1>2, <1>8 DEF ReapCommit
<1> HIDE DEF TaskOf, BusyAt
<1>9. (\A r \in Runs : TaskOf(r)') /\ (\A w \in Workers : BusyAt(w)')
  BY <1>4, <1>5, <1>6, <1>7, <1>8, StepCases
<1>10. QED
  BY <1>3, <1>9 DEF TaskInv, TaskOf, BusyAt

(* Who writes the status of a run that was delivered at most once writes   *)
(* over RUNNING, or over the reaper's FAILED.                              *)
LEMMA WritesUndisturbed ==
  ASSUME TypeOK, TaskInv, StatusInv, NEW w \in Workers, tries[RunAt(w)] <= 1,
         Writes(w) \/ (Leaves(w) /\ runs' # runs)
  PROVE  /\ Undisturbed(RunAt(w)) /\ runs[RunAt(w)].status # "COMPLETED"
         /\ Writes(w) => at[w].next # "end" /\ at[w].seen # "COMPLETED"
<1>1. at[w] # Idle /\ TxAt(at[w]) /\ at[w].seen \in Status
  BY WriteRuns DEF Kinds, TaskInv, Busy
<1>2. Undisturbed(RunAt(w)) => runs[RunAt(w)].status # "COMPLETED"
  BY DEF Undisturbed
<1>3. CASE Writes(w)
  <2>1. at[w].next # "end" /\ at[w].tx # "none"
    BY <1>1, <1>3 DEF Writes, TxAt
  <2>2. QED
    BY <1>1, <1>2, <2>1 DEF StatusInv
<1>4. CASE Leaves(w) /\ runs' # runs /\ ~Writes(w)
  <2>1. at[w].tx = "except" /\ at[w].seen = "RUNNING"
    BY <1>1, <1>4 DEF Leaves, IsTerminal, Status
  <2>2. QED
    BY <1>1, <1>2, <1>4, <2>1 DEF StatusInv
<1>5. QED
  BY <1>3, <1>4

LEMMA StatusPreserved ==
  ASSUME AnalystInv, [Next]_vars
  PROVE  StatusInv'
<1> USE DEF AnalystInv
<1>1. /\ at \in [Workers -> Busy \cup {Idle}] /\ tries \in [Runs -> Nat]
      /\ Rows \subseteq Rows' /\ Rows \subseteq Runs
  BY RowsStep DEF TypeOK, Rows
<1> DEFINE Worker(w) == (at[w] # Idle /\ tries[RunAt(w)] <= 1) =>
         /\ at[w].next # "end" => Undisturbed(RunAt(w))
         /\ (at[w].tx # "none" /\ at[w].next # "end") => at[w].seen # "COMPLETED"
         /\ (at[w].tx # "none" /\ at[w].seen = "RUNNING") => Undisturbed(RunAt(w))
           Fresh(r) == tries[r] = 0 => Undisturbed(r)
           Kept(r) == Undisturbed(r) => Undisturbed(r)'
<1>2. (\A r \in Rows : Fresh(r)) /\ (\A w \in Workers : Worker(w))
  BY DEF StatusInv
<1>3. \A r \in Runs : ((\A c \in Callers : ~Insert(c)) /\ runs'[r] = runs[r]) => Kept(r)
  BY RowsKept, KeptFacts DEF Undisturbed
<1>4. ASSUME NEW c \in Callers, Insert(c)
      PROVE  (\A r \in Rows' : Fresh(r)') /\ (\A w \in Workers : Worker(w)')
  <2>1. PICK r \in Runs :
              /\ r \notin Rows /\ Rows' = Rows \cup {r} /\ clock' = clock
              /\ runs'[r].status = "RUNNING"
              /\ \A s \in Runs : s # r => runs'[s] = runs[s]
    BY <1>4, InsertFacts
  <2>2. UNCHANGED <<at, tries>>
    BY <1>4 DEF Insert
  <2>3. Undisturbed(r)' /\ \A s \in Rows : Kept(s)
    BY <1>1, <2>1 DEF Undisturbed, Old
  <2>4. \A w \in Workers : at[w] # Idle => RunAt(w) \in Rows
    BY DEF TaskInv
  <2>5. ASSUME NEW s \in Rows'
        PROVE  Fresh(s)'
    BY <1>2, <2>1, <2>2, <2>3
  <2>6. ASSUME NEW w \in Workers
        PROVE  Worker(w)'
    BY <1>2, <2>2, <2>3, <2>4
  <2>7. QED
    BY <2>5, <2>6
<1>5. ASSUME Still
      PROVE  (\A r \in Rows' : Fresh(r)') /\ (\A w \in Workers : Worker(w)')
  <2>1. UNCHANGED <<at, tries, runs>>
    BY <1>5 DEF Still
  <2>2. Rows' = Rows /\ \A r \in Runs : Kept(r)
    <3>1. CASE \E c \in Callers : Insert(c)
      <4>1. PICK c \in Callers : Insert(c)
        BY <3>1
      <4>2. runs' # runs
        BY <4>1, InsertFacts DEF Rows
      <4>3. QED
        BY <2>1, <4>2
    <3>2. QED
      BY <1>3, <2>1, <3>1 DEF Rows
  <2>3. \A w \in Workers : RunAt(w) \in Runs
    BY WorkerNames
  <2>4. QED
    BY <1>1, <1>2, <2>1, <2>2, <2>3
<1>6. ASSUME NEW w \in Workers, Starts(w)
      PROVE  (\A r \in Rows' : Fresh(r)') /\ (\A v \in Workers : Worker(v)')
  <2>1. PICK c \in Threads : at' = [at EXCEPT ![w] = Resume(c)]
    BY <1>6 DEF Starts, Becomes
  <2>2. /\ tries' = [tries EXCEPT ![RunAt(w)] = @ + 1]
        /\ RunAt(w) \in Rows /\ RunAt(w) \in Runs /\ Rows' = Rows
        /\ \A r \in Runs : Kept(r)
    <3>1. runs' = runs /\ clock' = clock
      BY <1>6 DEF Starts, Others
    <3>2. QED
      BY <1>6, <3>1, WorkerNames DEF Starts, TaskInv, Undisturbed, Old, Rows
  <2>3. ASSUME NEW r \in Rows'
        PROVE  Fresh(r)'
    BY <1>1, <1>2, <2>2
  <2>4. ASSUME NEW v \in Workers
        PROVE  Worker(v)'
    <3>1. CASE v = w
      <4>1. at'[v] = Resume(c) /\ Resume(c).tx = "none"
        BY <1>1, <2>1, <3>1 DEF Resume
      <4>2. tries'[RunAt(w)] = tries[RunAt(w)] + 1 /\ tries[RunAt(w)] \in Nat
        BY <1>1, <2>2
      <4>3. tries'[RunAt(w)] <= 1 => Undisturbed(RunAt(w))'
        BY <1>2, <2>2, <4>2
      <4>4. QED
        BY <3>1, <4>1, <4>3
    <3>2. CASE v # w /\ RunAt(v) = RunAt(w)
      <4>1. tries'[RunAt(w)] = tries[RunAt(w)] + 1 /\ tries[RunAt(w)] \in Nat
            /\ at'[v] = at[v]
        BY <1>1, <2>1, <2>2, <3>2
      <4>2. at[v] # Idle => tries[RunAt(v)] # 0
        BY <3>2, <4>1, OneWorker
      <4>3. QED
        BY <3>2, <4>1, <4>2
    <3>3. CASE v # w /\ RunAt(v) # RunAt(w)
      <4>1. at'[v] = at[v] /\ tries'[RunAt(v)] = tries[RunAt(v)] /\ RunAt(v) \in Runs
        BY <1>1, <2>1, <2>2, <3>3, WorkerNames
      <4>2. QED
        BY <1>2, <2>2, <4>1
    <3>4. QED
      BY <3>1, <3>2, <3>3
  <2>5. QED
    BY <2>3, <2>4
<1>7. ASSUME NEW w \in Workers, Kinds(w)
      PROVE  (\A r \in Rows' : Fresh(r)') /\ (\A v \in Workers : Worker(v)')
  <2>1. /\ at[w] # Idle /\ RunAt(w) \in Rows /\ RunAt(w) \in Runs /\ tries' = tries
        /\ clock' = clock /\ \A r \in Runs : r # RunAt(w) => runs'[r] = runs[r]
    BY <1>7, WriteRuns DEF Kinds, Moves, Begins, Writes, Leaves, Others
  <2>2. /\ Rows' = Rows
        /\ \A r \in Runs : runs'[r] = runs[r] => Kept(r)
    <3>1. \A r \in Runs : runs'[r] = runs[r] => Kept(r)
      BY <2>1 DEF Undisturbed, Old
    <3>2. runs' \in [Runs -> Row \cup {NoRow}] /\ RunAt(w) \in Rows'
      BY <1>7, <2>1, WriteRuns DEF Rows
    <3>3. QED
      BY <2>1, <3>1, <3>2 DEF Rows
  <2>3. \A v \in Workers : (at[v] # Idle /\ tries[RunAt(v)] <= 1 /\ RunAt(v) = RunAt(w)) => v = w
    BY <2>1, OneWorker
  <2>4. tries[RunAt(w)] <= 1 => tries[RunAt(w)] # 0
    BY <2>1, OneWorker
  <2>5. ASSUME NEW r \in Rows'
        PROVE  Fresh(r)'
    <3>1. CASE r = RunAt(w)
      BY <1>1, <2>1, <2>4, <3>1
    <3>2. CASE r # RunAt(w)
      BY <1>1, <1>2, <2>1, <2>2, <3>2
    <3>3. QED
      BY <3>1, <3>2
  <2>6. ASSUME NEW v \in Workers
        PROVE  Worker(v)'
    <3>1. CASE v = w
      <4>1. SUFFICES ASSUME tries[RunAt(w)] <= 1
                     PROVE  Worker(w)'
        BY <2>1, <3>1
      <4>2. CASE Moves(w)
        <5>1. PICK b \in Busy : at' = [at EXCEPT ![w] = b] /\ b.tx = "none"
          BY <4>2 DEF Moves, Becomes
        <5>2. at[w].next # "end" /\ runs' = runs /\ at'[w] = b
          BY <1>1, <4>2, <5>1 DEF Moves
        <5>3. Undisturbed(RunAt(w))'
          BY <1>2, <2>1, <2>2, <4>1, <5>2
        <5>4. QED
          BY <5>1, <5>2, <5>3
      <4>3. CASE Begins(w)
        <5>1. PICK b \in Busy : /\ at' = [at EXCEPT ![w] = b]
                                /\ b.next = at[w].next /\ b.seen = runs[RunAt(w)].status
          BY <4>3 DEF Begins, Becomes
        <5>2. runs' = runs /\ at'[w] = b
          BY <1>1, <4>3, <5>1 DEF Begins
        <5>3. at[w].next # "end" => Undisturbed(RunAt(w))
          BY <1>2, <2>1, <4>1
        <5>4. runs[RunAt(w)].status = "RUNNING" => Undisturbed(RunAt(w))
          BY DEF Undisturbed
        <5>5. Undisturbed(RunAt(w)) => runs[RunAt(w)].status # "COMPLETED"
          BY DEF Undisturbed
        <5>6. QED
          BY <2>1, <2>2, <5>1, <5>2, <5>3, <5>4, <5>5
      <4>4. CASE Writes(w)
        <5>1. PICK b \in Busy : at' = [at EXCEPT ![w] = b] /\ b.tx = "none" /\ b.next = "end"
          BY <4>4 DEF Writes, Becomes
        <5>2. QED
          BY <1>1, <5>1
      <4>5. CASE Leaves(w)
        <5>1. at'[w] = Idle
          BY <1>1, <4>5 DEF Leaves, Becomes
        <5>2. QED
          BY <5>1
      <4>6. QED
        BY <1>7, <4>2, <4>3, <4>4, <4>5 DEF Kinds
    <3>2. CASE v # w
      <4>1. at'[v] = at[v] /\ RunAt(v) \in Runs
        BY <1>1, <1>7, <3>2, WorkerNames DEF Kinds, Moves, Begins, Writes, Leaves, Becomes
      <4>2. CASE RunAt(v) = RunAt(w)
        BY <2>1, <2>3, <3>2, <4>1, <4>2
      <4>3. CASE RunAt(v) # RunAt(w)
        BY <1>2, <2>1, <2>2, <4>1, <4>3
      <4>4. QED
        BY <4>2, <4>3
    <3>3. QED
      BY <3>1, <3>2
  <2>7. QED
    BY <2>5, <2>6
<1>8. ASSUME ReapCommit
      PROVE  (\A r \in Rows' : Fresh(r)') /\ (\A w \in Workers : Worker(w)')
  <2>1. UNCHANGED <<at, tries, clock>> /\ Rows' = Rows
    <3>1. \A c \in Callers : ~Insert(c) \/ budget' # budget
      BY DEF Insert, TypeOK
    <3>2. budget' = budget /\ UNCHANGED <<at, tries, clock>>
      BY <1>8 DEF ReapCommit
    <3>3. QED
      BY <3>1, <3>2, RowsKept, KeptFacts
  <2>2. \A r \in Runs : Kept(r)
    <3>1. \A r \in reaping : Old(r) /\ runs[r] \in Row
      BY DEF TaskInv, TypeOK, Rows, NoRow
    <3>2. ASSUME NEW r \in Runs, r \in reaping
          PROVE  runs'[r].status = "FAILED" /\ Old(r)'
      <4>1. runs'[r] = [runs[r] EXCEPT !.status = "FAILED"]
        BY <1>8, <3>2 DEF ReapCommit
      <4>2. QED
        BY <2>1, <3>1, <3>2, <4>1 DEF Row, Old
    <3>3. ASSUME NEW r \in Runs, r \notin reaping
          PROVE  runs'[r] = runs[r]
      BY <1>8, <3>3 DEF ReapCommit
    <3>4. QED
      BY <2>1, <3>2, <3>3 DEF Undisturbed, Old
  <2>3. \A w \in Workers : RunAt(w) \in Runs
    BY WorkerNames
  <2>4. QED
    BY <1>1, <1>2, <2>1, <2>2, <2>3
<1> HIDE DEF Fresh, Worker, Kept
<1>9. (\A r \in Rows' : Fresh(r)') /\ (\A w \in Workers : Worker(w)')
  BY <1>4, <1>5, <1>6, <1>7, <1>8, StepCases
<1>10. QED
  BY <1>9 DEF StatusInv, Fresh, Worker

(* What a step of a worker leaves to the others: those of the run that was *)
(* delivered at most once are none.                                        *)
LEMMA OtherWorkers ==
  ASSUME AnalystInv, NEW w \in Workers, Starts(w) \/ Kinds(w),
         NEW v \in Workers, v # w, at'[v] # Idle, tries'[RunAt(v)] <= 1
  PROVE  /\ at'[v] = at[v] /\ RunAt(v) # RunAt(w) /\ RunAt(v) \in Runs
         /\ tries'[RunAt(v)] = tries[RunAt(v)]
<1>1. /\ at \in [Workers -> Busy \cup {Idle}] /\ tries \in [Runs -> Nat]
      /\ RunAt(v) \in Runs /\ RunAt(w) \in Runs
  BY WorkerNames DEF AnalystInv, TypeOK
<1>2. at'[v] = at[v]
  BY <1>1 DEF Starts, Kinds, Moves, Begins, Writes, Leaves, Becomes
<1>3. CASE Starts(w)
  <2>1. tries' = [tries EXCEPT ![RunAt(w)] = @ + 1]
    BY <1>3 DEF Starts
  <2>2. ASSUME RunAt(v) = RunAt(w)
        PROVE  FALSE
    <3>1. tries[RunAt(v)] = 0
      BY <1>1, <2>1, <2>2
    <3>2. tries[RunAt(v)] # 0
      BY <1>2, <3>1, OneWorker DEF AnalystInv
    <3>3. QED
      BY <3>1, <3>2
  <2>3. QED
    BY <1>1, <1>2, <2>1, <2>2
<1>4. CASE Kinds(w)
  <2>1. tries' = tries /\ at[w] # Idle
    BY <1>4 DEF Kinds, Moves, Begins, Writes, Leaves
  <2>2. QED
    BY <1>1, <1>2, <2>1, OneWorker DEF AnalystInv
<1>5. QED
  BY <1>3, <1>4

(* A worker adds classifications to its own run, in aggregate.             *)
LEMMA OwnRunClassified ==
  ASSUME TypeOK, NEW w \in Workers, Kinds(w)
  PROVE  /\ \A r \in Runs : r # RunAt(w) => classified'[r] = classified[r]
         /\ \/ classified' = classified
            \/ Moves(w) /\ at[w].next = "aggregate"
<1>1. classified \in [Runs -> [Posts -> Nat]] /\ RunAt(w) \in Runs
  BY WorkerNames DEF TypeOK
<1>2. CASE Moves(w)
  BY <1>1, <1>2 DEF Moves
<1>3. CASE Begins(w) \/ Writes(w) \/ Leaves(w)
  BY <1>3 DEF Begins, Writes, Leaves
<1>4. QED
  BY <1>2, <1>3 DEF Kinds

LEMMA ClassPreserved ==
  ASSUME AnalystInv, [Next]_vars
  PROVE  ClassInv'
<1> USE DEF AnalystInv
<1>1. at \in [Workers -> Busy \cup {Idle}] /\ tries \in [Runs -> Nat]
  BY DEF TypeOK
<1>2. CASE Still \/ ReapCommit \/ \E c \in Callers : Insert(c)
  <2>1. UNCHANGED <<at, tries, classified>>
    BY <1>2 DEF Still, ReapCommit, Insert
  <2>2. QED
    BY <2>1 DEF ClassInv, Unclassified
<1>3. ASSUME NEW w \in Workers, Starts(w)
      PROVE  ClassInv'
  <2>1. PICK c \in Threads : at' = [at EXCEPT ![w] = Resume(c)]
    BY <1>3 DEF Starts, Becomes
  <2>2. classified' = classified /\ tries' = [tries EXCEPT ![RunAt(w)] = @ + 1]
    BY <1>3 DEF Starts
  <2>3. \A r \in Runs : tries'[r] <= 1 /\ r = RunAt(w) => Unclassified(r)'
    BY <1>1, <2>2, WorkerNames DEF ClassInv, Unclassified
  <2>4. \A r \in Runs : tries'[r] = 0 => Unclassified(r)'
    BY <1>1, <2>2, WorkerNames DEF ClassInv, Unclassified
  <2>5. ASSUME NEW v \in Workers, at'[v] # Idle, tries'[RunAt(v)] <= 1, at'[v].next \in Early
        PROVE  Unclassified(RunAt(v))'
    <3>1. CASE v = w
      BY <2>3, <2>5, <3>1, WorkerNames
    <3>2. CASE v # w
      <4>1. at'[v] = at[v] /\ tries'[RunAt(v)] = tries[RunAt(v)]
        BY <1>3, <2>5, <3>2, OtherWorkers
      <4>2. QED
        BY <2>2, <2>5, <4>1 DEF ClassInv, Unclassified
    <3>3. QED
      BY <3>1, <3>2
  <2>6. QED
    BY <2>4, <2>5 DEF ClassInv
<1>4. ASSUME NEW w \in Workers, Kinds(w)
      PROVE  ClassInv'
  <2>1. tries' = tries /\ at[w] # Idle /\ RunAt(w) \in Runs
    BY <1>4, WorkerNames DEF Kinds, Moves, Begins, Writes, Leaves
  <2>2. tries[RunAt(w)] <= 1 => tries[RunAt(w)] # 0
    BY <2>1, OneWorker
  <2>3. \A r \in Runs : r # RunAt(w) => (Unclassified(r) => Unclassified(r)')
    BY <1>4, OwnRunClassified DEF Unclassified
  <2>4. ASSUME NEW r \in Runs, tries'[r] = 0
        PROVE  Unclassified(r)'
    BY <2>1, <2>2, <2>3, <2>4 DEF ClassInv
  <2>5. ASSUME NEW v \in Workers, at'[v] # Idle, tries'[RunAt(v)] <= 1, at'[v].next \in Early
        PROVE  Unclassified(RunAt(v))'
    <3>1. CASE v = w
      <4>1. CASE Moves(w)
        <5>1. PICK b \in Busy :
                /\ at' = [at EXCEPT ![w] = b]
                /\ \/ at[w].next \in {"ingest", "classify"} /\ classified' = classified
                   \/ b.next = "render_brief"
          BY <4>1 DEF Moves, Becomes
        <5>2. at[w].next \in Early /\ classified' = classified
          BY <1>1, <2>5, <3>1, <5>1 DEF Early
        <5>3. QED
          BY <2>1, <2>5, <3>1, <5>2 DEF ClassInv, Unclassified
      <4>2. CASE Begins(w)
        <5>1. at'[w].next = at[w].next /\ classified' = classified
          BY <1>1, <4>2 DEF Begins, Becomes
        <5>2. QED
          BY <2>1, <2>5, <3>1, <5>1 DEF ClassInv, Unclassified
      <4>3. CASE Writes(w) \/ Leaves(w)
        BY <1>1, <2>5, <3>1, <4>3 DEF Writes, Leaves, Becomes, Early
      <4>4. QED
        BY <1>4, <4>1, <4>2, <4>3 DEF Kinds
    <3>2. CASE v # w
      <4>1. /\ at'[v] = at[v] /\ tries'[RunAt(v)] = tries[RunAt(v)]
            /\ RunAt(v) # RunAt(w) /\ RunAt(v) \in Runs
        BY <1>4, <2>5, <3>2, OtherWorkers
      <4>2. QED
        BY <2>3, <2>5, <4>1 DEF ClassInv
    <3>3. QED
      BY <3>1, <3>2
  <2>6. QED
    BY <2>4, <2>5 DEF ClassInv
<1>5. QED
  BY <1>2, <1>3, <1>4, StepCases

(* A worker that aggregates has one step less to come.                     *)
LEMMA CountStep ==
  ASSUME TypeOK, NEW w \in Workers, Kinds(w), NEW p \in Posts
  PROVE  classified'[RunAt(w)][p] + Ahead(w)' <= classified[RunAt(w)][p] + Ahead(w)
<1>1. /\ at \in [Workers -> Busy \cup {Idle}] /\ classified \in [Runs -> [Posts -> Nat]]
      /\ RunAt(w) \in Runs /\ classified[RunAt(w)][p] \in Nat
      /\ Ahead(w) \in {0, 1} /\ Ahead(w)' \in {0, 1}
  BY WorkerNames DEF TypeOK, Ahead
<1>2. CASE Moves(w)
  <2>1. PICK b \in Busy :
          /\ at' = [at EXCEPT ![w] = b]
          /\ \/ at[w].next \in {"ingest", "classify"} /\ classified' = classified
             \/ /\ at[w].next = "aggregate" /\ b.next = "render_brief"
                /\ classified' = [classified EXCEPT ![RunAt(w)] =
                      [q \in Posts |-> @[q] + IF q \in StateAt(w) THEN 1 ELSE 0]]
    BY <1>2 DEF Moves, Becomes
  <2>2. at[w] # Idle /\ Ahead(w) = 1
    BY <1>2, <2>1 DEF Moves, Ahead, Early
  <2>3. CASE classified' = classified
    BY <1>1, <2>2, <2>3
  <2>4. CASE classified' # classified
    <3>1. at'[w] = b /\ b.next = "render_brief"
      BY <1>1, <2>1, <2>4
    <3>2. Ahead(w)' = 0
      BY <3>1 DEF Ahead, Early
    <3>3. /\ classified'[RunAt(w)][p] <= classified[RunAt(w)][p] + 1
          /\ classified'[RunAt(w)][p] \in Nat
      BY <1>1, <2>1
    <3>4. QED
      BY <1>1, <2>2, <3>2, <3>3
  <2>5. QED
    BY <2>3, <2>4
<1>3. CASE Begins(w)
  <2>1. at[w] # Idle /\ at'[w] \in Busy /\ at'[w].next = at[w].next /\ classified' = classified
    BY <1>1, <1>3 DEF Begins, Becomes
  <2>2. Ahead(w)' <= Ahead(w)
    BY <2>1 DEF Ahead
  <2>3. QED
    BY <1>1, <2>1, <2>2
<1>4. CASE Writes(w) \/ Leaves(w)
  <2>1. (at'[w] = Idle \/ at'[w].next = "end") /\ classified' = classified
    BY <1>1, <1>4 DEF Writes, Leaves, Becomes
  <2>2. Ahead(w)' = 0
    BY <2>1 DEF Ahead, Early
  <2>3. QED
    BY <1>1, <2>1, <2>2
<1>5. QED
  BY <1>2, <1>3, <1>4 DEF Kinds

LEMMA CountPreserved ==
  ASSUME AnalystInv, [Next]_vars
  PROVE  CountInv'
<1> USE DEF AnalystInv
<1>1. /\ at \in [Workers -> Busy \cup {Idle}] /\ early \in [Runs -> Nat]
      /\ classified \in [Runs -> [Posts -> Nat]] /\ classified' \in [Runs -> [Posts -> Nat]]
      /\ \A w : Ahead(w) \in {0, 1} /\ Ahead(w)' \in {0, 1}
  BY TypePreserved DEF TypeOK, Ahead
<1>2. CASE Still \/ ReapCommit \/ \E c \in Callers : Insert(c)
  <2>1. UNCHANGED <<at, early, classified>>
    BY <1>2 DEF Still, ReapCommit, Insert
  <2>2. QED
    BY <2>1 DEF CountInv, Ahead
<1>3. ASSUME NEW w \in Workers, Starts(w) \/ Kinds(w), NEW r \in Runs, r # RunAt(w), NEW p \in Posts
      PROVE  /\ classified'[r] = classified[r] /\ early'[r] = early[r]
             /\ Ahead(<<r, "first">>)' = Ahead(<<r, "first">>)
             /\ Ahead(<<r, "second">>)' = Ahead(<<r, "second">>)
  <2>1. classified'[r] = classified[r]
    BY <1>3, OwnRunClassified DEF Starts
  <2>2. early'[r] = early[r]
    BY <1>1, <1>3, WorkerNames DEF Starts, Kinds, Moves, Begins, Writes, Leaves
  <2>3. ASSUME NEW v \in Workers, RunAt(v) = r
        PROVE  Ahead(v)' = Ahead(v)
    <3>1. at'[v] = at[v]
      BY <1>1, <1>3, <2>3 DEF Starts, Kinds, Moves, Begins, Writes, Leaves, Becomes
    <3>2. QED
      BY <3>1 DEF Ahead
  <2>4. QED
    BY <2>1, <2>2, <2>3, WorkerNames
<1>4. ASSUME NEW w \in Workers, Starts(w) \/ Kinds(w), NEW v \in Workers, v # w
      PROVE  Ahead(v)' = Ahead(v)
  <2>1. at'[v] = at[v]
    BY <1>1, <1>4 DEF Starts, Kinds, Moves, Begins, Writes, Leaves, Becomes
  <2>2. QED
    BY <2>1 DEF Ahead
<1>5. ASSUME NEW w \in Workers, Starts(w) \/ Kinds(w), NEW p \in Posts
      PROVE  classified'[RunAt(w)][p] + Ahead(w)' - early'[RunAt(w)]
                <= classified[RunAt(w)][p] + Ahead(w) - early[RunAt(w)]
             /\ early'[RunAt(w)] \in Nat
  <2>1. RunAt(w) \in Runs
    BY WorkerNames
  <2>2. CASE Kinds(w)
    <3>1. early' = early
      BY <2>2 DEF Kinds, Moves, Begins, Writes, Leaves
    <3>2. QED
      BY <1>1, <2>1, <2>2, <3>1, CountStep
  <2>3. CASE Starts(w)
    <3>1. PICK c \in Threads :
            /\ at' = [at EXCEPT ![w] = Resume(c)]
            /\ early' = [early EXCEPT ![RunAt(w)] =
                           @ + IF c.next \in {"render_brief", "end"} THEN 0 ELSE 1]
      BY <2>3 DEF Starts, Becomes
    <3>2. classified' = classified /\ at[w] = Idle
      BY <2>3 DEF Starts
    <3>3. at'[w] = Resume(c) /\ Resume(c).next = c.next
      BY <1>1, <3>1 DEF Resume
    <3>4. Ahead(w) = 0
      BY <3>2 DEF Ahead
    <3>5. Ahead(w)' <= IF c.next \in {"render_brief", "end"} THEN 0 ELSE 1
      BY <3>3 DEF Ahead, Early
    <3>6. QED
      BY <1>1, <2>1, <3>1, <3>2, <3>4, <3>5
  <2>4. QED
    BY <1>5, <2>2, <2>3
<1>6. ASSUME NEW w \in Workers, Starts(w) \/ Kinds(w), NEW r \in Runs, NEW p \in Posts
      PROVE  classified'[r][p] + Ahead(<<r, "first">>)' + Ahead(<<r, "second">>)' <= early'[r]
  <2>1. classified[r][p] + Ahead(<<r, "first">>) + Ahead(<<r, "second">>) <= early[r]
    BY DEF CountInv
  <2>2. CASE r # RunAt(w)
    <3>1. /\ classified'[r] = classified[r] /\ early'[r] = early[r]
          /\ Ahead(<<r, "first">>)' = Ahead(<<r, "first">>)
          /\ Ahead(<<r, "second">>)' = Ahead(<<r, "second">>)
      BY <1>3, <1>6, <2>2
    <3>2. QED
      BY <2>1, <3>1
  <2>3. CASE r = RunAt(w)
    <3> DEFINE f == <<r, "first">>
               s == <<r, "second">>
    <3>1. f \in Workers /\ s \in Workers /\ f # s /\ (w = f \/ w = s)
      BY <2>3, WorkerNames
    <3>2. /\ classified'[r][p] + Ahead(w)' - early'[r] <= classified[r][p] + Ahead(w) - early[r]
          /\ early'[r] \in Nat
      BY <1>5, <1>6, <2>3
    <3>3. /\ classified'[r][p] \in Nat /\ classified[r][p] \in Nat /\ early[r] \in Nat
          /\ Ahead(f) \in {0, 1} /\ Ahead(s) \in {0, 1} /\ Ahead(f)' \in {0, 1} /\ Ahead(s)' \in {0, 1}
      BY <1>1
    <3>4. w = f => Ahead(s)' = Ahead(s)
      BY <1>4, <1>6, <3>1
    <3>5. w = s => Ahead(f)' = Ahead(f)
      BY <1>4, <1>6, <3>1
    <3> HIDE DEF f, s
    <3>6. classified'[r][p] + Ahead(f)' + Ahead(s)' <= early'[r]
      <4>1. classified[r][p] + Ahead(f) + Ahead(s) <= early[r]
        BY <2>1 DEF f, s
      <4>2. CASE w = f
        BY <3>2, <3>3, <3>4, <4>1, <4>2
      <4>3. CASE w = s
        BY <3>2, <3>3, <3>5, <4>1, <4>3
      <4>4. QED
        BY <3>1, <4>2, <4>3
    <3>7. QED
      BY <3>6 DEF f, s
  <2>4. QED
    BY <2>2, <2>3
<1>7. QED
  BY <1>2, <1>6, StepCases DEF CountInv

LEMMA BriefPreserved ==
  ASSUME AnalystInv, [Next]_vars
  PROVE  BriefInv'
<1> USE DEF AnalystInv
<1>1. /\ tries \in [Runs -> Nat] /\ brief \in [Weeks -> Runs \cup {0}]
      /\ Rows \subseteq Rows' /\ Rows \subseteq Runs
      /\ \A r \in Rows : runs[r].week \in Weeks
  <2>1. \A r \in Rows : runs[r] \in Row
    BY DEF TypeOK, Rows, NoRow
  <2>2. QED
    BY <2>1, RowsStep DEF TypeOK, Rows, Row
<1> DEFINE Agrees(r) ==
      tries[r] <= 1 =>
        /\ (brief[runs[r].week] = r /\ ~Old(r)) => runs[r].status = "COMPLETED"
        /\ (runs[r].status = "COMPLETED" /\ ~Unclassified(r)) => brief[runs[r].week] # 0
           Named == \A k \in Weeks : brief[k] \in Rows \cup {0}
<1>2. (\A r \in Rows : Agrees(r)) /\ Named
  <2>1. \A r \in Runs : ~Unclassified(r) => \E p \in Posts : classified[r][p] > 0
    BY DEF Unclassified, TypeOK
  <2>2. QED
    BY <1>1, <2>1 DEF BriefInv, BriefMatchesStatus
<1>3. \A r \in Runs : tries'[r] <= 1 => tries[r] <= 1
  <2>1. ASSUME NEW w \in Workers, Starts(w)
        PROVE  \A r \in Runs : tries'[r] <= 1 => tries[r] <= 1
    BY <1>1, <2>1, WorkerNames DEF Starts
  <2>2. tries' = tries \/ \E w \in Workers : Starts(w)
    BY StepCases DEF Still, Insert, Kinds, Moves, Begins, Writes, Leaves, ReapCommit
  <2>3. QED
    BY <2>1, <2>2
<1>4. ASSUME NEW c \in Callers, Insert(c)
      PROVE  (\A r \in Rows' : Agrees(r)') /\ Named'
  <2>1. PICK r \in Runs :
              /\ r \notin Rows /\ Rows' = Rows \cup {r} /\ clock' = clock
              /\ runs'[r].status = "RUNNING"
              /\ \A s \in Runs : s # r => runs'[s] = runs[s]
              /\ runs' \in [Runs -> Row \cup {NoRow}]
    BY <1>4, InsertFacts
  <2>2. UNCHANGED <<brief, tries, classified>>
    BY <1>4 DEF Insert
  <2>3. runs'[r].week \in Weeks /\ r # 0
    BY <2>1 DEF Row, NoRow, Runs
  <2>4. brief[runs'[r].week] # r
    BY <1>2, <2>1, <2>3
  <2>5. Agrees(r)'
    BY <2>1, <2>2, <2>4
  <2>6. ASSUME NEW s \in Rows
        PROVE  Agrees(s)'
    <3>1. runs'[s] = runs[s]
      BY <1>1, <2>1
    <3>2. QED
      BY <1>2, <2>1, <2>2, <3>1 DEF Old, Unclassified
  <2>7. QED
    BY <1>2, <2>1, <2>2, <2>5, <2>6
<1>5. CASE \A c \in Callers : ~Insert(c)
  <2>1. Rows' = Rows /\ Keeps /\ \A r \in Runs : Old(r) => Old(r)'
    BY <1>5, RowsKept, KeptFacts
  <2>2. \A r \in Runs : runs'[r].week = runs[r].week
    BY <2>1 DEF Keeps
  (* Where neither status nor brief changes, and nothing is classified.    *)
  <2>3. ASSUME NEW r \in Rows, runs'[r].status = runs[r].status,
               brief' = brief \/ (brief'[runs[r].week] # r /\ brief'[runs[r].week] # 0),
               classified'[r] = classified[r] \/ (tries[r] <= 1 => runs[r].status # "COMPLETED")
        PROVE  Agrees(r)'
    BY <1>1, <1>2, <1>3, <2>1, <2>2, <2>3 DEF Unclassified
  <2>4. ASSUME Still \/ \E w \in Workers : Starts(w)
        PROVE  (\A r \in Rows' : Agrees(r)') /\ Named'
    <3>1. UNCHANGED <<runs, brief, classified>>
      BY <2>4 DEF Still, Starts
    <3>2. QED
      BY <1>2, <2>1, <2>3, <3>1
  <2>5. ASSUME NEW w \in Workers, Kinds(w)
        PROVE  (\A r \in Rows' : Agrees(r)') /\ Named'
    <3>1. /\ at[w] # Idle /\ RunAt(w) \in Rows /\ RunAt(w) \in Runs /\ at[w] \in Busy
          /\ \A r \in Runs : r # RunAt(w) => runs'[r] = runs[r] /\ classified'[r] = classified[r]
          /\ TxAt(at[w])
      BY <2>5, WriteRuns, OwnRunClassified DEF TaskInv
    <3>2. RunAt(w) # 0 /\ \/ brief' = brief
                          \/ brief' = [brief EXCEPT ![runs[RunAt(w)].week] = RunAt(w)]
      BY <2>5, <3>1 DEF Kinds, Moves, Begins, Writes, Leaves, Runs
    <3>3. Named'
      BY <1>1, <1>2, <2>1, <3>1, <3>2
    <3>4. ASSUME NEW r \in Rows, r # RunAt(w)
          PROVE  Agrees(r)'
      <4>1. runs'[r] = runs[r] /\ classified'[r] = classified[r]
        BY <1>1, <3>1, <3>4
      <4>2. CASE brief'[runs[r].week] = brief[runs[r].week]
        BY <1>1, <1>2, <1>3, <2>1, <4>1, <4>2 DEF Unclassified
      <4>3. CASE brief'[runs[r].week] = RunAt(w)
        BY <2>3, <3>2, <3>4, <4>1, <4>3
      <4>4. QED
        BY <1>1, <3>1, <3>2, <4>2, <4>3
    <3>5. Agrees(RunAt(w))'
      <4> DEFINE r == RunAt(w)
      <4>1. SUFFICES ASSUME tries[r] <= 1
                     PROVE  Agrees(r)'
        BY <1>3, <3>1
      <4>2. CASE Moves(w) \/ Begins(w) \/ (Leaves(w) /\ runs' = runs)
        <5>1. runs' = runs /\ brief' = brief
          BY <4>2 DEF Moves, Begins, Leaves
        <5>2. (classified' # classified) => runs[r].status # "COMPLETED"
          <6>1. (classified' # classified) => at[w].next # "end"
            BY <2>5, OwnRunClassified
          <6>2. at[w].next # "end" => Undisturbed(r)
            BY <3>1, <4>1 DEF StatusInv
          <6>3. QED
            BY <6>1, <6>2 DEF Undisturbed
        <5>3. QED
          BY <2>3, <3>1, <5>1, <5>2
      <4>3. CASE Writes(w) \/ (Leaves(w) /\ runs' # runs)
        <5>1. /\ Undisturbed(r) /\ runs[r].status # "COMPLETED"
              /\ Writes(w) => at[w].next # "end" /\ at[w].seen # "COMPLETED"
          BY <4>1, <4>3, WritesUndisturbed
        <5>2. classified' = classified
          BY <4>3 DEF Writes, Leaves
        <5>3. brief[runs[r].week] = r => Old(r)'
          BY <1>2, <2>1, <3>1, <4>1, <5>1
        <5>4. CASE runs'[r].status # "COMPLETED" /\ brief' = brief
          BY <2>2, <3>1, <5>3, <5>4
        <5>5. CASE Writes(w) /\ at[w].tx = "no_posts"
          <6>1. Unclassified(r)
            BY <3>1, <4>1, <5>5 DEF ClassInv, TxAt, Early
          <6>2. Unclassified(r)'
            BY <5>2, <6>1 DEF Unclassified
          <6>3. brief' = brief
            BY <5>5 DEF Writes
          <6>4. QED
            BY <2>2, <3>1, <5>3, <6>2, <6>3
        <5>6. CASE Writes(w) /\ at[w].tx = "brief"
          <6>1. Ended(w, "COMPLETED") /\ brief' = [brief EXCEPT ![runs[r].week] = r]
            BY <5>1, <5>6 DEF Writes
          <6>2. runs'[r].status = "COMPLETED"
            <7>1. runs \in [Runs -> Row \cup {NoRow}]
              BY DEF TypeOK
            <7>2. runs[r] \in Row
              BY <3>1, <7>1 DEF Rows, NoRow
            <7>3. QED
              BY <3>1, <6>1, <7>1, <7>2 DEF Ended, Row
          <6>3. brief'[runs'[r].week] = r
            BY <1>1, <2>2, <3>1, <6>1
          <6>4. QED
            BY <3>2, <6>2, <6>3
        <5>7. CASE (Writes(w) /\ at[w].tx \in {"cost_limit", "llm_error"}) \/ Leaves(w)
          <6>1. brief' = brief /\ (runs' = runs \/ Ended(w, "FAILED"))
            BY <5>7 DEF Writes, Leaves
          <6>2. CASE runs' = runs
            BY <5>1, <5>4, <6>1, <6>2
          <6>3. CASE Ended(w, "FAILED")
            <7>1. runs \in [Runs -> Row \cup {NoRow}]
              BY DEF TypeOK
            <7>2. runs[r] \in Row
              BY <3>1, <7>1 DEF Rows, NoRow
            <7>3. runs'[r].status = "FAILED"
              BY <3>1, <6>3, <7>1, <7>2 DEF Ended, Row
            <7>4. QED
              BY <5>4, <6>1, <7>3
          <6>4. QED
            BY <6>1, <6>2, <6>3
        <5>8. QED
          BY <4>3, <5>5, <5>6, <5>7 DEF Writes
      <4>4. QED
        BY <2>5, <4>2, <4>3 DEF Kinds
    <3>6. QED
      BY <2>1, <3>3, <3>4, <3>5
  <2>6. ASSUME ReapCommit
        PROVE  (\A r \in Rows' : Agrees(r)') /\ Named'
    <3>1. UNCHANGED <<brief, classified>>
      BY <2>6 DEF ReapCommit
    <3>2. ASSUME NEW r \in Rows
          PROVE  Agrees(r)'
      <4>1. CASE r \in reaping
        <5>1. Old(r) /\ runs[r] \in Row
          BY <4>1 DEF TaskInv, TypeOK, Rows, NoRow
        <5>2. runs'[r] = [runs[r] EXCEPT !.status = "FAILED"]
          BY <1>1, <2>6, <4>1 DEF ReapCommit
        <5>3. Old(r)' /\ runs'[r].status = "FAILED"
          BY <1>1, <2>1, <5>1, <5>2 DEF Row
        <5>4. QED
          BY <5>3
      <4>2. CASE r \notin reaping
        <5>1. runs'[r] = runs[r]
          BY <1>1, <2>6, <4>2 DEF ReapCommit
        <5>2. QED
          BY <2>3, <3>1, <5>1
      <4>3. QED
        BY <4>1, <4>2
    <3>3. QED
      BY <1>2, <2>1, <3>1, <3>2
  <2> HIDE DEF Agrees, Named
  <2>7. (\A r \in Rows' : Agrees(r)') /\ Named'
    BY <1>5, <2>4, <2>5, <2>6, StepCases
  <2>8. QED
    BY <2>7, TypePreserved DEF BriefInv, BriefMatchesStatus, Agrees, Named, Unclassified, TypeOK, Rows
<1> HIDE DEF Agrees, Named
<1>6. ASSUME NEW c \in Callers, Insert(c)
      PROVE  BriefInv'
  BY <1>4, <1>6, TypePreserved
  DEF BriefInv, BriefMatchesStatus, Agrees, Named, Unclassified, TypeOK, Rows
<1>7. QED
  BY <1>5, <1>6

LEMMA InitInv == Init => AnalystInv
<1> SUFFICES ASSUME Init
             PROVE  AnalystInv
  OBVIOUS
<1> USE AnalystAssumption DEF AnalystAssumption, Init
<1>1. Rows = {} /\ \A r \in Runs : runs[r] = NoRow /\ task[r] = "none" /\ tries[r] = 0
  BY DEF Rows, NoRow
<1>2. /\ \A w \in Workers : at[w] = Idle /\ Ahead(w) = 0
      /\ \A r \in Runs : <<r, "first">> \in Workers /\ <<r, "second">> \in Workers
  BY DEF Ahead, Workers
<1>3. TypeOK
  <2>1. caller \in [Callers -> [at : {"idle"}]
                       \cup [at : {"insert"}, week : Weeks, knew : SUBSET Runs]
                       \cup [at : {"send"}, run : Rows]]
    OBVIOUS
  <2>2. ckpt \in [Runs -> [next : Nodes, state : States]]
    BY DEF Nodes, States, Initial
  <2>3. budget \in [runs : 0 .. MaxRuns, faults : Nat]
    OBVIOUS
  <2>4. clock \in 0 .. MaxClock /\ active \in BOOLEAN /\ llm \in BOOLEAN
    OBVIOUS
  <2>5. runs \in [Runs -> Row \cup {NoRow}] /\ at \in [Workers -> Busy \cup {Idle}]
    OBVIOUS
  <2>6. QED
    BY <2>1, <2>2, <2>3, <2>4, <2>5 DEF TypeOK
<1>4. RowsInv
  <2>1. Rows = 1 .. 0 /\ 0 \in 0 .. MaxRuns
    BY <1>1
  <2>2. budget.runs <= MaxRuns
    BY <1>3 DEF TypeOK
  <2>3. QED
    BY <2>1, <2>2, <1>3 DEF RowsInv, TypeOK
<1>5. KnewInv
  BY <1>1 DEF KnewInv
<1>6. TaskInv /\ StatusInv
  BY <1>1, <1>2 DEF TaskInv, StatusInv
<1>7. ClassInv
  BY <1>2 DEF ClassInv, Unclassified
<1>8. BriefInv
  BY <1>1 DEF BriefInv, BriefMatchesStatus
<1>9. CountInv
  BY <1>2 DEF CountInv
<1>10. QED
  BY <1>3, <1>4, <1>5, <1>6, <1>7, <1>8, <1>9 DEF AnalystInv

LEMMA Inductive == AnalystInv /\ [Next]_vars => AnalystInv'
<1> SUFFICES ASSUME AnalystInv, [Next]_vars
             PROVE  AnalystInv'
  OBVIOUS
<1>1. TypeOK' /\ RowsInv' /\ KnewInv' /\ TaskInv' /\ StatusInv' /\ ClassInv' /\ BriefInv' /\ CountInv'
  BY TypePreserved, RowsStep, KnewPreserved, TaskPreserved, StatusPreserved, ClassPreserved,
     BriefPreserved, CountPreserved
<1>2. QED
  BY <1>1 DEF AnalystInv

LEMMA Invariance == Spec => []AnalystInv
  BY InitInv, Inductive, PTL DEF Spec

-----------------------------------------------------------------------------
(* The theorems.                                                           *)

(* Every variable has its type: in particular no status is invented by the *)
(* four writers of analyst_runs.status, and no row is overwritten.         *)
THEOREM TypeCorrect == Spec => []TypeOK
<1>1. AnalystInv => TypeOK
  BY DEF AnalystInv
<1>2. QED
  BY <1>1, Invariance, PTL

(* Of two runs in flight neither was looked at by the check for the other  *)
(* (non_stale_non_terminal_filter in trigger_analyst_run and the weekly    *)
(* tick).                                                                  *)
THEOREM FreshRunsApart == Spec => []FreshRunsNeverSawEachOther
<1>1. AnalystInv => FreshRunsNeverSawEachOther
  BY DEF AnalystInv, KnewInv, Settled, FreshRunsNeverSawEachOther
<1>2. QED
  BY <1>1, Invariance, PTL

(* The status of a young run delivered once agrees with the week's brief   *)
(* (render_brief_node).                                                    *)
THEOREM BriefMatches == Spec => []BriefMatchesStatus
<1>1. AnalystInv => BriefMatchesStatus
  BY DEF AnalystInv, BriefInv
<1>2. QED
  BY <1>1, Invariance, PTL

(* A set of rows that is not empty has a latest one.                       *)
LEMMA LatestRow ==
  ASSUME NEW S \in SUBSET Runs, S # {}
  PROVE  \E r \in S : \A s \in S : s <= r
<1> DEFINE Less == {p \in Nat \X Nat : p[1] < p[2]}
           Back == {MaxRuns - r : r \in S}
<1>1. MaxRuns \in Nat /\ S \subseteq 1 .. MaxRuns
  BY AnalystAssumption DEF AnalystAssumption, Runs
<1>2. Back \subseteq Nat /\ Back # {}
  <2>1. \A r \in S : MaxRuns - r \in Nat
    BY <1>1
  <2>2. PICK r \in S : TRUE
    OBVIOUS
  <2>3. MaxRuns - r \in Back
    OBVIOUS
  <2>4. QED
    BY <2>1, <2>3
<1>3. IsWellFoundedOn(Less, Nat)
  BY NatLessThanWellFounded DEF OpToRel
<1>4. \A x, y \in Nat : <<x, y>> \in Less <=> x < y
  OBVIOUS
<1> HIDE DEF Less
<1>5. PICK x \in Back : \A y \in Back : ~(<<y, x>> \in Less)
  <2> HIDE DEF Back
  <2>1. QED
    BY <1>2, <1>3, WFMin
<1>6. PICK r \in S : x = MaxRuns - r
  OBVIOUS
<1>7. ASSUME NEW s \in S
      PROVE  s <= r
  <2>1. MaxRuns - s \in Back /\ MaxRuns - s \in Nat /\ x \in Nat
    BY <1>1, <1>2
  <2>2. ~(MaxRuns - s < x)
    BY <1>4, <1>5, <2>1
  <2>3. QED
    BY <1>1, <1>6, <2>2
<1>8. QED
  BY <1>7

(* The forecast counts a post at most once per delivery that found its     *)
(* aggregate node not checkpointed (get_pillar_forecast).                  *)
THEOREM ForecastCounts == Spec => []ForecastCountsExecutions
<1>1. ASSUME AnalystInv
      PROVE  ForecastCountsExecutions
  <2>1. SUFFICES ASSUME NEW wk \in Weeks, NEW p \in Posts, ForecastRuns(wk) # {}
                 PROVE  ForecastCount(wk, p) <= early[ForecastRun(wk)]
    BY DEF ForecastCountsExecutions
  <2>2. ForecastRuns(wk) \in SUBSET Runs
    BY DEF ForecastRuns, Rows
  <2>3. \E r \in ForecastRuns(wk) : \A s \in ForecastRuns(wk) : s <= r
    BY <2>1, <2>2, LatestRow
  <2> DEFINE r == ForecastRun(wk)
  <2>4. r \in Runs
    BY <2>2, <2>3 DEF ForecastRun
  <2>5. ForecastCount(wk, p) = classified[r][p]
    BY <2>1 DEF ForecastCount
  <2> HIDE DEF r
  <2>6. classified[r][p] + Ahead(<<r, "first">>) + Ahead(<<r, "second">>) <= early[r]
    BY <1>1, <2>4 DEF AnalystInv, CountInv
  <2>7. /\ classified[r][p] \in Nat /\ early[r] \in Nat
        /\ Ahead(<<r, "first">>) \in {0, 1} /\ Ahead(<<r, "second">>) \in {0, 1}
    BY <1>1, <2>4 DEF AnalystInv, TypeOK, Ahead
  <2>8. classified[r][p] <= early[r]
    BY <2>6, <2>7
  <2>9. QED
    BY <2>5, <2>8 DEF r
<1>2. QED
  BY <1>1, Invariance, PTL

(* A run that has ended changes its status again only where the reaper or  *)
(* a second delivery races with it.                                        *)
THEOREM RegressionsRaced == Spec => StatusRegressionsAreRaced
<1> DEFINE Raced ==
      \A r \in Runs :
        (IsTerminal(runs[r].status) /\ runs'[r].status # runs[r].status)
          => CASE runs'[r].status = "FAILED" -> r \in reaping \/ tries[r] > 1
               [] runs'[r].status = "COMPLETED" -> Old(r) \/ tries[r] > 1
               [] OTHER -> FALSE
<1>1. ASSUME AnalystInv, [Next]_vars
      PROVE  Raced
  <2> USE <1>1 DEF AnalystInv
  <2> SUFFICES ASSUME NEW r \in Runs, IsTerminal(runs[r].status), runs'[r].status # runs[r].status
               PROVE  \/ runs'[r].status = "FAILED" /\ (r \in reaping \/ tries[r] > 1)
                      \/ runs'[r].status = "COMPLETED" /\ (Old(r) \/ tries[r] > 1)
    OBVIOUS
  <2>1. ~Still /\ \A w \in Workers : ~Starts(w)
    BY DEF Still, Starts
  <2>2. ASSUME NEW c \in Callers, Insert(c)
        PROVE  FALSE
    <3>1. PICK s \in Runs : s \notin Rows /\ \A q \in Runs : q # s => runs'[q] = runs[q]
      BY <2>2, InsertFacts
    <3>2. QED
      BY <3>1 DEF Rows, IsTerminal
  <2>3. CASE ReapCommit
    <3>1. r \in reaping /\ runs'[r] = [runs[r] EXCEPT !.status = "FAILED"]
      BY <2>3 DEF ReapCommit
    <3>2. runs[r] \in Row
      BY <3>1 DEF TypeOK, Rows, NoRow
    <3>3. QED
      BY <3>1, <3>2 DEF Row
  <2>4. ASSUME NEW w \in Workers, Kinds(w)
        PROVE  \/ runs'[r].status = "FAILED" /\ (r \in reaping \/ tries[r] > 1)
               \/ runs'[r].status = "COMPLETED" /\ (Old(r) \/ tries[r] > 1)
    <3>1. r = RunAt(w) /\ runs' # runs /\ runs'[r].status \in {"FAILED", "COMPLETED"}
      BY <2>4, WriteRuns
    <3>2. Writes(w) \/ Leaves(w)
      BY <2>4, <3>1 DEF Kinds, Moves, Begins
    <3>3. tries[r] \in Nat
      BY DEF TypeOK
    <3>4. tries[r] <= 1 => Undisturbed(r) /\ runs[r].status # "COMPLETED"
      BY <3>1, <3>2, WritesUndisturbed
    <3>5. tries[r] <= 1 => Old(r) /\ runs[r].status = "FAILED"
      BY <3>4 DEF IsTerminal, Undisturbed
    <3>6. QED
      BY <3>1, <3>3, <3>5
  <2>5. QED
    BY <2>1, <2>2, <2>3, <2>4, StepCases
<1> HIDE DEF Raced
<1>2. Spec => [][Raced]_vars
  BY <1>1, Invariance, PTL DEF Spec
<1>3. QED
  BY <1>2 DEF Raced, StatusRegressionsAreRaced
=============================================================================
