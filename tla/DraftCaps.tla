----------------------------- MODULE DraftCaps -----------------------------
(***************************************************************************)
(* The daily draft caps: the Redis counters of backend/pipeline/prefilter  *)
(* and their use by persist_gate_node (backend/pipeline/nodes.py).         *)
(*                                                                         *)
(* A run of persist_gate walks over its drafts.  For each it claims a slot *)
(* in every counter the draft is charged to (INCR, and DECR when the       *)
(* result is past the cap), inserts the row in a savepoint of one long     *)
(* transaction, gives the slots back when the unique constraint            *)
(* (campaign_id, post_id) refuses the row, and commits at the end.  Redis  *)
(* commands of different runs interleave; Redis does not roll back with    *)
(* Postgres.  The checkpoint is written after the node, so a worker that   *)
(* dies before it runs the whole node again.                               *)
(*                                                                         *)
(* One day and one organization; a cap of a counter does not change during *)
(* the day.                                                                *)
(***************************************************************************)
EXTENDS Integers, Sequences, FiniteSets

CONSTANTS Runs,        \* executions of persist_gate_node
          Posts,       \* post ids
          Campaigns,
          Keys,        \* names of the counters, draftcap:...
          NoKey,
          CampaignOf,  \* the campaign a run polls
          DraftsOf,    \* the post ids of the drafts in a run's state
          KeysOf,      \* key_caps of a run: campaign first, then subreddit
          Cap,         \* the cap of each counter
          MaxFaults,   \* bound on crashes and exceptions
          MaxLosses    \* bound on restarts of Redis without its data

ASSUME CapsAssumption ==
    /\ IsFiniteSet(Runs) /\ IsFiniteSet(Posts) /\ IsFiniteSet(Campaigns)
    /\ NoKey \notin Keys
    /\ CampaignOf \in [Runs -> Campaigns]
    /\ DraftsOf \in [Runs -> Seq(Posts)]
    /\ KeysOf \in [Runs -> Seq(Keys)]
    /\ Cap \in [Keys -> Int]
    /\ MaxFaults \in Nat /\ MaxLosses \in Nat

(* Two runs of a campaign charge their drafts to the same counters. *)
ASSUME SameCountersAssumption ==
    \A r, s \in Runs : CampaignOf[r] = CampaignOf[s] => KeysOf[r] = KeysOf[s]

VARIABLES counter,   \* the Redis counters
          rows,      \* draft rows, a pair of campaign and post each
          txn,       \* rows a run has inserted and not committed
          pc,        \* where each run is
          pos,       \* the draft a run is at
          held,      \* counters where the run holds a slot for this draft
          over,      \* counter a run has pushed past its cap, or NoKey
          faults, losses

vars == <<counter, rows, txn, pc, pos, held, over, faults, losses>>

AllRows == Campaigns \X Posts
PCs == {"queued", "reserve", "release", "insert", "commit", "committed",
        "done", "failed"}
Running == {r \in Runs : pc[r] \notin {"queued", "done", "failed"}}

RowAt(r) == <<CampaignOf[r], DraftsOf[r][pos[r]]>>
KeySet(r) == {KeysOf[r][i] : i \in 1 .. Len(KeysOf[r])}
Charged == [k \in Keys |-> {row \in AllRows : \E r \in Runs :
                               row[1] = CampaignOf[r] /\ k \in KeySet(r)}]
Holders(k) == {r \in Runs : k \in held[r]}
Overs(k) == {r \in Runs : over[r] = k}

(* Counters are claimed, and given back, in the order of key_caps. *)
IsFirst(r, k, S) ==
    \E i \in 1 .. Len(KeysOf[r]) :
        /\ k = KeysOf[r][i] /\ k \in S
        /\ \A j \in 1 .. i - 1 : KeysOf[r][j] \notin S
Unclaimed(r) == KeySet(r) \ held[r]
IsNext(r, k) == IsFirst(r, k, Unclaimed(r))

----------------------------------------------------------------------------
Init ==
    /\ counter = [k \in Keys |-> 0]
    /\ rows = {}
    /\ txn = [r \in Runs |-> {}]
    /\ pc = [r \in Runs |-> "queued"]
    /\ pos = [r \in Runs |-> 1]
    /\ held = [r \in Runs |-> {}]
    /\ over = [r \in Runs |-> NoKey]
    /\ faults = 0 /\ losses = 0

(* The loop goes on to the draft at position n, or ends. *)
AtDraft(r, n) ==
    /\ pos' = [pos EXCEPT ![r] = n]
    /\ pc' = [pc EXCEPT ![r] = IF n <= Len(DraftsOf[r]) THEN "reserve" ELSE "commit"]

(* A worker takes the task: persist_gate_node starts from the checkpoint   *)
(* that finalize left.  Without drafts it returns at once.                 *)
Start(r) ==
    /\ pc[r] = "queued"
    /\ IF DraftsOf[r] = <<>>
       THEN pc' = [pc EXCEPT ![r] = "committed"] /\ UNCHANGED pos
       ELSE AtDraft(r, 1)
    /\ UNCHANGED <<counter, rows, txn, held, over, faults, losses>>

(* Mutant: the campaign's last slot is granted once too often. *)
ClaimOffByOne(r) ==
    /\ pc[r] = "reserve" /\ over[r] = NoKey
    /\ \E k \in Keys :
         /\ IsNext(r, k) /\ Cap[k] > 0
         /\ counter[k] <= Cap[k]
         /\ counter' = [counter EXCEPT ![k] = @ + 1]
         /\ held' = [held EXCEPT ![r] = @ \cup {k}]
    /\ UNCHANGED <<rows, txn, pc, pos, over, faults, losses>>

(* Mutant: once Redis has lost the counters, a slot is granted whatever    *)
(* they say.                                                               *)
ClaimFailsOpen(r) ==
    /\ pc[r] = "reserve" /\ over[r] = NoKey
    /\ \E k \in Keys :
         /\ IsNext(r, k) /\ Cap[k] > 0
         /\ counter[k] + 1 <= Cap[k] \/ losses > 0
         /\ counter' = [counter EXCEPT ![k] = @ + 1]
         /\ held' = [held EXCEPT ![r] = @ \cup {k}]
    /\ UNCHANGED <<rows, txn, pc, pos, over, faults, losses>>

(* reserve_daily_slot on the next counter: INCR, and keep the slot. *)
Claim(r) ==
    /\ pc[r] = "reserve" /\ over[r] = NoKey
    /\ \E k \in Keys :
         /\ IsNext(r, k) /\ Cap[k] > 0
         /\ counter[k] + 1 <= Cap[k]
         /\ counter' = [counter EXCEPT ![k] = @ + 1]
         /\ held' = [held EXCEPT ![r] = @ \cup {k}]
    /\ UNCHANGED <<rows, txn, pc, pos, over, faults, losses>>

(* INCR, and the result is past the cap. *)
Overshoot(r) ==
    /\ pc[r] = "reserve" /\ over[r] = NoKey
    /\ \E k \in Keys :
         /\ IsNext(r, k) /\ Cap[k] > 0
         /\ counter[k] + 1 > Cap[k]
         /\ counter' = [counter EXCEPT ![k] = @ + 1]
         /\ over' = [over EXCEPT ![r] = k]
    /\ UNCHANGED <<rows, txn, pc, pos, held, faults, losses>>

(* DECR of the counter that went past its cap: reserve_daily_slot is False.*)
Revert(r) ==
    /\ pc[r] = "reserve" /\ over[r] # NoKey
    /\ counter' = [counter EXCEPT ![over[r]] = @ - 1]
    /\ over' = [over EXCEPT ![r] = NoKey]
    /\ pc' = [pc EXCEPT ![r] = "release"]
    /\ UNCHANGED <<rows, txn, pos, held, faults, losses>>

(* Mutant: a cap of zero counts as no cap. *)
RefuseAdmits(r) ==
    /\ pc[r] = "reserve" /\ over[r] = NoKey
    /\ \E k \in Keys : IsNext(r, k) /\ Cap[k] <= 0
    /\ pc' = [pc EXCEPT ![r] = "insert"]
    /\ UNCHANGED <<counter, rows, txn, pos, held, over, faults, losses>>

(* A cap of zero refuses without touching Redis. *)
Refuse(r) ==
    /\ pc[r] = "reserve" /\ over[r] = NoKey
    /\ \E k \in Keys : IsNext(r, k) /\ Cap[k] <= 0
    /\ pc' = [pc EXCEPT ![r] = "release"]
    /\ UNCHANGED <<counter, rows, txn, pos, held, over, faults, losses>>

(* Every counter is claimed: reserve_daily_slots is True. *)
Reserved(r) ==
    /\ pc[r] = "reserve" /\ over[r] = NoKey /\ Unclaimed(r) = {}
    /\ pc' = [pc EXCEPT ![r] = "insert"]
    /\ UNCHANGED <<counter, rows, txn, pos, held, over, faults, losses>>

(* Slots of a draft that gets no row are given back, one DECR at a time;   *)
(* then the loop continues.                                                *)
GiveBack(r) ==
    /\ pc[r] = "release"
    /\ \E k \in Keys :
         /\ IsFirst(r, k, held[r])
         /\ counter' = [counter EXCEPT ![k] = @ - 1]
         /\ held' = [held EXCEPT ![r] = @ \ {k}]
    /\ UNCHANGED <<rows, txn, pc, pos, over, faults, losses>>

(* Mutant: the loop keeps its position after a draft that got no row. *)
SkipToSame(r) ==
    /\ pc[r] = "release" /\ held[r] = {}
    /\ AtDraft(r, pos[r])
    /\ UNCHANGED <<counter, rows, txn, held, over, faults, losses>>

Skip(r) ==
    /\ pc[r] = "release" /\ held[r] = {}
    /\ AtDraft(r, pos[r] + 1)
    /\ UNCHANGED <<counter, rows, txn, held, over, faults, losses>>

(* Mutant: the slots of a persisted draft are kept for the next one. *)
InsertKeepsSlots(r) ==
    /\ pc[r] = "insert"
    /\ RowAt(r) \notin rows
    /\ rows' = rows \cup {RowAt(r)}
    /\ txn' = [txn EXCEPT ![r] = @ \cup {RowAt(r)}]
    /\ AtDraft(r, pos[r] + 1)
    /\ UNCHANGED <<counter, held, over, faults, losses>>

(* The savepoint INSERT succeeds: the row takes over the slots.  It waits  *)
(* while the row is in another open transaction.                           *)
Insert(r) ==
    /\ pc[r] = "insert"
    /\ RowAt(r) \notin rows
    /\ rows' = rows \cup {RowAt(r)}
    /\ txn' = [txn EXCEPT ![r] = @ \cup {RowAt(r)}]
    /\ held' = [held EXCEPT ![r] = {}]
    /\ AtDraft(r, pos[r] + 1)
    /\ UNCHANGED <<counter, over, faults, losses>>

(* An INSERT waits while the row is in another open transaction. *)
Waits(r, s) == pc[r] = "insert" /\ r # s /\ RowAt(r) \in txn[s]
Blocked(r) == \E s \in Runs : Waits(r, s)
(* Mutant: a refused INSERT does not give its slots back. *)
DuplicateKeepsSlots(r) ==
    /\ pc[r] = "insert"
    /\ RowAt(r) \in rows /\ ~Blocked(r)
    /\ held' = [held EXCEPT ![r] = {}]
    /\ AtDraft(r, pos[r] + 1)
    /\ UNCHANGED <<counter, rows, txn, over, faults, losses>>

(* IntegrityError: the row is there, committed or in this transaction. *)
Duplicate(r) ==
    /\ pc[r] = "insert"
    /\ RowAt(r) \in rows /\ ~Blocked(r)
    /\ pc' = [pc EXCEPT ![r] = "release"]
    /\ UNCHANGED <<counter, rows, txn, pos, held, over, faults, losses>>

(* Mutant: the transaction is left open. *)
CommitNothing(r) ==
    /\ pc[r] = "commit"
    /\ pc' = [pc EXCEPT ![r] = "committed"]
    /\ UNCHANGED <<counter, rows, txn, pos, held, over, faults, losses>>

Commit(r) ==
    /\ pc[r] = "commit"
    /\ txn' = [txn EXCEPT ![r] = {}]
    /\ pc' = [pc EXCEPT ![r] = "committed"]
    /\ UNCHANGED <<counter, rows, pos, held, over, faults, losses>>

(* LangGraph stores the checkpoint of the node; the task is acknowledged. *)
Checkpoint(r) ==
    /\ pc[r] = "committed"
    /\ pc' = [pc EXCEPT ![r] = "done"]
    /\ UNCHANGED <<counter, rows, txn, pos, held, over, faults, losses>>

(* The transaction rolls back; what the run added to Redis stays. *)
Stop(r, next) ==
    /\ rows' = rows \ txn[r]
    /\ txn' = [txn EXCEPT ![r] = {}]
    /\ held' = [held EXCEPT ![r] = {}]
    /\ over' = [over EXCEPT ![r] = NoKey]
    /\ pc' = [pc EXCEPT ![r] = next]
    /\ pos' = [pos EXCEPT ![r] = 1]
    /\ faults' = faults + 1
    /\ UNCHANGED <<counter, losses>>

(* The worker process dies: acks_late and reject_on_worker_lost put the    *)
(* task back on the queue.                                                 *)
Crash(r) == r \in Running /\ faults < MaxFaults /\ Stop(r, "queued")

(* An exception (Redis, Postgres, the cost guard) leaves the node: the     *)
(* task fails and is acknowledged; nothing retries it.                     *)
Raise(r) == r \in Running /\ faults < MaxFaults /\ Stop(r, "failed")

(* Transactions wait for each other's rows in a circle: Postgres aborts one.*)
(* A row is in one transaction, so nobody waits for two.                   *)
Circle(S) == \A r \in S : (\E s \in S : Waits(r, s)) /\ (\E s \in S : Waits(s, r))
Deadlocked(r) == \E S \in SUBSET Runs : r \in S /\ Circle(S)
DeadlockVictim(r) == Deadlocked(r) /\ Stop(r, "failed")

(* Redis comes back without its data: every counter reads as 0. *)
LoseCounters ==
    /\ losses < MaxLosses
    /\ counter' = [k \in Keys |-> 0]
    /\ losses' = losses + 1
    /\ UNCHANGED <<rows, txn, pc, pos, held, over, faults>>

Step(r) ==
    \/ Start(r) \/ Claim(r) \/ Overshoot(r) \/ Revert(r) \/ Refuse(r)
    \/ Reserved(r) \/ GiveBack(r) \/ Skip(r) \/ Insert(r) \/ Duplicate(r)
    \/ Commit(r) \/ Checkpoint(r) \/ DeadlockVictim(r)

Next ==
    \/ \E r \in Runs : Step(r) \/ Crash(r) \/ Raise(r)
    \/ LoseCounters

Spec == Init /\ [][Next]_vars
FairSpec == Spec /\ \A r \in Runs : WF_vars(Step(r))

----------------------------------------------------------------------------
(* Every variable has its type. *)
TypeOK ==
    /\ counter \in [Keys -> Int]
    /\ rows \in SUBSET AllRows
    /\ txn \in [Runs -> SUBSET AllRows]
    /\ pc \in [Runs -> PCs]
    /\ pos \in [Runs -> Nat]
    /\ held \in [Runs -> SUBSET Keys]
    /\ over \in [Runs -> Keys \cup {NoKey}]
    /\ faults \in Nat /\ losses \in Nat

(* A counter never loses a slot: it is at least the rows charged to it and *)
(* the slots runs hold or are about to revert, whatever crashed, unless    *)
(* Redis lost its data.                                                    *)
CountersCoverRows ==
    losses = 0 =>
        \A k \in Keys :
            counter[k] >= Cardinality(rows \cap Charged[k])
                          + Cardinality(Holders(k)) + Cardinality(Overs(k))

(* The caps hold under every interleaving of concurrent runs, crashes and  *)
(* redeliveries: rows charged to a counter and slots held for it are never *)
(* more than its cap.                                                      *)
CapRespected ==
    losses = 0 =>
        \A k \in Keys :
            \/ Cardinality(rows \cap Charged[k]) + Cardinality(Holders(k)) <= Cap[k]
            \/ rows \cap Charged[k] = {} /\ Holders(k) = {}

(* Without a crash or an exception no slot is a phantom: each unit of a    *)
(* counter is a row, or a slot some run still holds or is about to revert. *)
NoPhantomSlot ==
    (faults = 0 /\ losses = 0) =>
        \A k \in Keys :
            counter[k] = Cardinality(rows \cap Charged[k])
                         + Cardinality(Holders(k)) + Cardinality(Overs(k))

(* A lost counter does not make the cap unlimited: each loss of Redis      *)
(* allows one more cap of rows, and one row more for each run of the       *)
(* counter: a run between an INCR past the cap and its DECR takes the new  *)
(* counter below zero.  Without a loss the cap itself is the bound         *)
(* (CapRespected).                                                         *)
Users(k) == {r \in Runs : k \in KeySet(r)}
LossIsBounded ==
    losses > 0 =>
        \A k \in Keys :
            \/ rows \cap Charged[k] = {}
            \/ Cardinality(rows \cap Charged[k])
                  <= (losses + 1) * Cap[k] + losses * Cardinality(Users(k))

(* Waiting for rows comes to an end: as long as a run waits, some run that *)
(* has rows in its transaction can go on, or is in a circle that Postgres  *)
(* breaks; nobody waits for a run that has ended or has yet to start.      *)
WaitingIsResolved ==
    (\E r \in Runs : Blocked(r)) =>
        \E s \in Running : txn[s] # {} /\ (~Blocked(s) \/ Deadlocked(s))

(* The work a run has left, at most: for each draft the counters to claim, *)
(* a revert, the insertion and the slots to give back.                     *)
PerDraft(r) == 2 * Cardinality(KeySet(r)) + 5
OfDraft(r) ==
    CASE pc[r] = "reserve" /\ over[r] = NoKey ->
              Cardinality(KeySet(r)) + 4 + Cardinality(Unclaimed(r))
      [] pc[r] = "reserve" /\ over[r] # NoKey -> Cardinality(KeySet(r)) + 3
      [] pc[r] = "insert"  -> Cardinality(KeySet(r)) + 2
      [] pc[r] = "release" -> Cardinality(held[r]) + 1
WorkLeft(r) ==
    CASE pc[r] = "queued"           -> Len(DraftsOf[r]) * PerDraft(r) + 4
      [] pc[r] \in {"done", "failed"} -> 0
      [] pc[r] = "committed"        -> 2
      [] pc[r] = "commit"           -> 3
      [] OTHER -> (Len(DraftsOf[r]) - pos[r]) * PerDraft(r) + OfDraft(r) + 3

(* No loop of persist_gate goes round again and again, whatever the        *)
(* counters say and whoever interferes: each step of a run leaves it less  *)
(* work, and no run makes work for another.                                *)
StepsUseUpWork ==
    [][\A r \in Runs : Step(r) => /\ WorkLeft(r)' < WorkLeft(r)
                                  /\ \A s \in Runs \ {r} : WorkLeft(s)' = WorkLeft(s)]_vars

(* The committed rows of the day behave as the abstract quota, with room   *)
(* for what each loss of Redis lets through.                               *)
Committed == rows \ UNION {txn[r] : r \in Runs}
DayCap == [k \in Keys |-> IF Cap[k] <= 0 THEN 0
                          ELSE (MaxLosses + 1) * Cap[k] + MaxLosses * Cardinality(Users(k))]
Quota == INSTANCE DailyQuota WITH Rows <- AllRows, persisted <- Committed, Cap <- DayCap
ImplementsQuota == Quota!QuotaSpec

(* A run that starts comes to an end: runs that wait for each other's rows *)
(* do not wait forever, and none goes round the loop again and again.      *)
RunsEnd == \A r \in Runs : <>(pc[r] \in {"done", "failed"})

=============================================================================
