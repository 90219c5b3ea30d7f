------------------------ MODULE ReplyPipeline_proofs ------------------------
(***************************************************************************)
(* Proofs about ReplyPipeline, for any campaigns, runs, posts and feeds,   *)
(* any number of workers, and any number of deaths, exceptions and early   *)
(* redeliveries:                                                           *)
(*   TypeCorrect      the type invariant                                   *)
(*   PostedLeftAlone  an answered post is left alone by later polls        *)
(*   DedupHolds       so is one that has a draft                           *)
(*   OnlyPolled       only polled posts that passed the filters are drafted*)
(*   OneSlotEach      a drafted post has one row, and the counter counts   *)
(*                    rows, held slots and what died with a worker         *)
(*   BilledWhenFresh  no actor run is started for what is checkpointed     *)
(*   TasksKept        a task that has been taken is being worked on        *)
(*   ForwardOnly      the checkpoints of a run go forward                  *)
(*   PauseStops       a paused campaign admits no poll                     *)
(***************************************************************************)
EXTENDS ReplyPipeline, FiniteSetTheorems, FunctionTheorems, TLAPS

(* The posts a pipeline state speaks of.                                   *)
Content(s) ==
    s.posts \cup {s.selections[i] : i \in DOMAIN s.selections}
            \cup {s.drafts[i][1] : i \in DOMAIN s.drafts}

TypeInv == TypeOK /\ at \in [Workers -> Busy \cup {Idle}]

(* A run that has not been dispatched has left no trace.                   *)
DispatchInv ==
    /\ \A r \in Runs : task[r] = "none" => ckpt[r].next = "ingest"
    /\ \A w \in Workers : at[w] # Idle => task[RunAt(w)] # "none"
    /\ \A x \in rows : task[x.run] # "none"

(* The drafts of a campaign go with it, for good; what was there when a    *)
(* run was dispatched is still there, unless its campaign is gone.         *)
HistoryInv ==
    /\ \A x \in rows : campaign[x.campaign] # "DELETED" /\ x.campaign = CampaignOf[x.run]
    /\ \A r \in Runs : before[r].posted \subseteq posted
    /\ \A r \in Runs : \A x \in before[r].rows :
          x \in rows \/ campaign[x.campaign] = "DELETED"

(* What a run has in hand, in a checkpoint or in a worker's memory, may be *)
(* drafted: past the prefilter all of it passed the keyword filters, and   *)
(* nothing of it was answered or drafted when the run was dispatched.      *)
Clean(r, c) ==
    /\ Content(c.state) \subseteq Feed[r]
    /\ c.next = "ingest" => Content(c.state) = {}
    /\ c.next # "prefilter" =>
         /\ Content(c.state) \subseteq Relevant[CampaignOf[r]]
         /\ Content(c.state) \cap before[r].posted = {}
         /\ \A x \in rows \cap before[r].rows : x.post \notin Content(c.state)
PositionsInv ==
    /\ \A r \in Runs : Clean(r, ckpt[r])
    /\ \A w \in Workers : at[w] # Idle => Clean(RunAt(w), Position(w))

(* The three properties of the rows.                                       *)
RowsInv == OnlyPolledPostsAreDrafted /\ PostedIsLeftAlone /\ DedupAcrossPolls

(* A post has one row in a campaign.  Only persist_gate holds slots, each  *)
(* for a draft it has tried, and the counter counts rows and held slots;   *)
(* what it counts besides died with a worker.                              *)
Claimed(c) == Cardinality(RowsOf(c)) + Cardinality(HeldSlots(c))
Holds(w) ==
    at[w] # Idle => /\ at[w].slots \subseteq 1 .. at[w].tried
                    /\ at[w].tried # 0 => at[w].next = "persist_gate"
SlotInv ==
    /\ IsFiniteSet(rows)
    /\ \A x, y \in rows : x.campaign = y.campaign /\ x.post = y.post => x = y
    /\ \A w \in Workers : Holds(w)
    /\ \A c \in Campaigns :
          /\ IsFiniteSet(HeldSlots(c))
          /\ Claimed(c) <= used[c]
          /\ campaign[c] # "DELETED" => used[c] <= Claimed(c) + faults * MaxSelections

(* A worker that is at ingest may still POST: twice, and once after the    *)
(* first POST failed.  It came from a fresh delivery.                      *)
AtIngest(r, S) == {w \in Workers : /\ at[w] # Idle /\ RunAt(w) = r
                                   /\ at[w].next = "ingest" /\ at[w].stage \in S}
MayPost(r) == AtIngest(r, {"start", "admitted", "retrying"})
MayRepeat(r) == AtIngest(r, {"start", "admitted"})
BillInv ==
    \A r \in Runs :
        /\ IsFiniteSet(MayPost(r)) /\ IsFiniteSet(MayRepeat(r))
        /\ billed[r] + Cardinality(MayPost(r)) + Cardinality(MayRepeat(r)) <= 2 * fresh[r]

PipelineInv ==
    TypeInv /\ DispatchInv /\ HistoryInv /\ PositionsInv /\ RowsInv /\ SlotInv /\ BillInv

-----------------------------------------------------------------------------
(* Bounded sequences.                                                      *)
LEMMA SeqsUpToFacts ==
  ASSUME NEW S, NEW n \in Nat, NEW s \in SeqsUpTo(S, n)
  PROVE  /\ s \in Seq(S) /\ Len(s) \in 0 .. n
         /\ DOMAIN s = 1 .. Len(s) /\ \A i \in DOMAIN s : s[i] \in S
<1>1. PICK m \in 0 .. n : s \in [1 .. m -> S]
  BY DEF SeqsUpTo
<1>2. m \in Nat /\ s \in Seq(S)
  BY <1>1
<1>3. Len(s) = m
  BY <1>1, <1>2
<1>4. QED
  BY <1>1, <1>2, <1>3

LEMMA SeqsUpToIntro ==
  ASSUME NEW S, NEW n \in Nat, NEW m \in 0 .. n, NEW s \in [1 .. m -> S]
  PROVE  s \in SeqsUpTo(S, n)
  BY DEF SeqsUpTo

LEMMA NoSequence ==
  ASSUME NEW S, NEW n \in Nat
  PROVE  <<>> \in SeqsUpTo(S, n)
<1>1. <<>> \in [1 .. 0 -> S]
  OBVIOUS
<1>2. QED
  BY <1>1 DEF SeqsUpTo

LEMMA StateTypes ==
  /\ Initial \in States
  /\ \A S \in SUBSET Posts : WithPosts(S) \in States
  /\ \A s \in SeqsUpTo(Posts, MaxSelections) : WithSelections(s) \in States
  /\ \A d \in SeqsUpTo(Posts \X Texts, MaxSelections) : WithDrafts(d) \in States
  BY NoSequence, PipelineAssumption DEF Initial, States, WithPosts, WithSelections, WithDrafts

LEMMA Contents ==
  /\ Content(Initial) = {}
  /\ \A S : Content(WithPosts(S)) = S
  /\ \A s : Content(WithSelections(s)) = {s[i] : i \in DOMAIN s}
  /\ \A d : Content(WithDrafts(d)) = {d[i][1] : i \in DOMAIN d}
<1>1. DOMAIN <<>> = {}
  OBVIOUS
<1>2. QED
  BY <1>1 DEF Content, Initial, WithPosts, WithSelections, WithDrafts

(* What a worker holds.                                                    *)
LEMMA WorkerTypes ==
  ASSUME TypeInv, NEW w \in Workers, at[w] # Idle
  PROVE  /\ at[w] \in Busy /\ RunAt(w) \in Runs /\ CampaignAt(w) \in Campaigns
         /\ StateAt(w) \in States /\ at[w].next \in Nodes /\ at[w].stage \in Stages
         /\ at[w].tried \in 0 .. MaxSelections /\ at[w].slots \subseteq 1 .. MaxSelections
         /\ Position(w) \in Checkpoints
         /\ Position(w).next = at[w].next /\ Position(w).state = StateAt(w)
<1>1. at[w] \in Busy
  BY DEF TypeInv, TypeOK
<1>2. QED
  BY <1>1, PipelineAssumption
  DEF Busy, RunAt, CampaignAt, StateAt, Position, Checkpoints

(* Every post in a worker's state is in what the worker holds.             *)
LEMMA HeldTypes ==
  ASSUME TypeInv, NEW w \in Workers, at[w] # Idle
  PROVE  /\ StateAt(w).posts \subseteq Posts
         /\ StateAt(w).selections \in SeqsUpTo(Posts, MaxSelections)
         /\ StateAt(w).drafts \in SeqsUpTo(Posts \X Texts, MaxSelections)
         /\ StateAt(w).posts \subseteq Content(StateAt(w))
         /\ \A i \in DOMAIN StateAt(w).selections :
               StateAt(w).selections[i] \in Content(StateAt(w))
         /\ \A i \in DOMAIN StateAt(w).drafts :
               StateAt(w).drafts[i][1] \in Content(StateAt(w))
  BY WorkerTypes DEF States, Content

LEMMA CleanEmpty ==
  ASSUME NEW r, NEW c, Content(c.state) = {}
  PROVE  Clean(r, c)
  BY DEF Clean

(* Past the prefilter a part of what is clean is clean.                    *)
LEMMA CleanPart ==
  ASSUME NEW r, NEW c, Clean(r, c), c.next # "prefilter",
         NEW d, Content(d.state) \subseteq Content(c.state), d.next # "ingest"
  PROVE  Clean(r, d)
  BY DEF Clean

(* What is clean stays so while the run is under way, unless a row it had  *)
(* before comes back.                                                      *)
LEMMA CleanKept ==
  ASSUME NEW r, NEW c, Clean(r, c), before'[r] = before[r],
         \A x \in before[r].rows : x \in rows' => x \in rows
  PROVE  Clean(r, c)'
  BY DEF Clean

-----------------------------------------------------------------------------
(* The kinds of steps.  A worker takes a task, ...                         *)
Begins(w, r) ==
  /\ at[w] = Idle
  /\ task[r] \in {"queued", "taken"} /\ task' = [task EXCEPT ![r] = "taken"]
  /\ \E c \in Written(r) :
       /\ ckpt' = [ckpt EXCEPT ![r] = c]
       /\ at' = [at EXCEPT ![w] = Resume(r, c)]
       /\ fresh' = [fresh EXCEPT ![r] = @ + IF c.next = "ingest" THEN 1 ELSE 0]
  /\ UNCHANGED <<db, used, billed, before>>

(* ... does something inside of ingest or persist_gate, ...                *)
Calls(w) ==
  \/ Admit(w) \/ PostActor(w)
  \/ PostFails(w) /\ at[w].stage = "admitted"
Counts(w) == TryDraft(w) \/ GiveSlotBack(w)

(* ... goes on to the next node with something clean, ...                  *)
Returns(w) ==
  /\ at[w] # Idle
  /\ \E c \in Checkpoints :
       c.next # "ingest" /\ Clean(RunAt(w), c) /\ Return(w, c.state, c.next)
  /\ UNCHANGED <<task, fresh, before>>
Moves(w) ==
  /\ Returns(w) /\ at[w].next # "persist_gate"
  /\ billed' = billed \/ (PostFails(w) /\ at[w].stage = "retrying")
  /\ UNCHANGED <<db, used>>
Persists(w) == Returns(w) /\ PersistGate(w)

(* ... or leaves its task, with something clean in the checkpoint.  Slots  *)
(* are left behind by a fault only.                                        *)
Leaves(w) ==
  /\ at[w] # Idle
  /\ at' = [at EXCEPT ![w] = Idle]
  /\ \E t \in {"queued", "acked"} : task' = [task EXCEPT ![RunAt(w)] = t]
  /\ \E c \in Checkpoints :
       Clean(RunAt(w), c) /\ ckpt' = [ckpt EXCEPT ![RunAt(w)] = c]
  /\ at[w].slots = {} \/ faults' = faults + 1
  /\ UNCHANGED <<db, used, billed, fresh, before>>

(* The API pauses and resumes campaigns and confirms posts, or deletes a   *)
(* campaign.                                                               *)
Manages ==
  /\ campaign' \in [Campaigns -> {"ACTIVE", "PAUSED", "DELETED"}]
  /\ \A c \in Campaigns : campaign'[c] = "DELETED" <=> campaign[c] = "DELETED"
  /\ posted \subseteq posted' /\ posted' \subseteq Posts
  /\ UNCHANGED <<rows, task, ckpt, at, used, billed, fresh, before>>

StepKind ==
  /\ faults' \in Nat /\ redeliveries' \in Nat /\ faults' \in {faults, faults + 1}
  /\ \/ \E r \in Runs : Dispatch(r)
     \/ \E w \in Workers, r \in Runs : Begins(w, r)
     \/ \E w \in Workers : Calls(w) \/ Counts(w) \/ Moves(w) \/ Persists(w) \/ Leaves(w)
     \/ Manages
     \/ \E c \in Campaigns : DeleteCampaign(c)

LEMMA HeldClean ==
  ASSUME TypeInv, PositionsInv, NEW w \in Workers, at[w] # Idle
  PROVE  /\ Clean(RunAt(w), Position(w))
         /\ Clean(RunAt(w), ckpt[RunAt(w)]) /\ ckpt[RunAt(w)] \in Checkpoints
         /\ \A s, n : Content(s) = {} => Clean(RunAt(w), [next |-> n, state |-> s])
<1>1. RunAt(w) \in Runs /\ ckpt \in [Runs -> Checkpoints]
  BY WorkerTypes DEF TypeInv, TypeOK
<1>2. \A s, n : Content(s) = {} => Clean(RunAt(w), [next |-> n, state |-> s])
  BY CleanEmpty
<1>3. QED
  BY <1>1, <1>2 DEF PositionsInv

(* Only a persist_gate that has tried a draft holds slots.                 *)
LEMMA HoldsNothing ==
  ASSUME TypeInv, SlotInv, NEW w \in Workers, at[w] # Idle,
         at[w].next # "persist_gate" \/ at[w].tried = 0
  PROVE  at[w].slots = {} /\ at[w].tried = 0
<1>1. at[w].tried = 0 /\ at[w].slots \subseteq 1 .. at[w].tried
  BY DEF SlotInv, Holds
<1>2. QED
  BY <1>1

LEMMA IngestReturns ==
  ASSUME TypeInv, HistoryInv, PositionsInv, NEW w \in Workers,
         \/ IngestSkips(w) \/ ActorReturns(w)
         \/ PostFails(w) /\ at[w].stage = "retrying"
  PROVE  Moves(w)
<1>1. at[w] # Idle /\ RunAt(w) \in Runs /\ at[w].next = "ingest"
  BY WorkerTypes DEF IngestSkips, ActorReturns, PostFails, AtStage, IsAt
<1>2. ASSUME Return(w, Initial, "end"), UNCHANGED <<db, task, used, fresh, before>>,
             billed' = billed \/ (PostFails(w) /\ at[w].stage = "retrying")
      PROVE  Moves(w)
  <2> DEFINE c == [next |-> "end", state |-> Initial]
  <2>1. c \in Checkpoints /\ c.next = "end" /\ c.state = Initial
    BY StateTypes DEF Checkpoints, Nodes
  <2>2. Clean(RunAt(w), c)
    BY <1>1, Contents, HeldClean
  <2>3. QED
    BY <1>1, <1>2, <2>1, <2>2 DEF Moves, Returns
<1>3. ASSUME Return(w, WithPosts(Feed[RunAt(w)]), "prefilter"),
             UNCHANGED <<db, task, used, billed, fresh, before>>
      PROVE  Moves(w)
  <2> DEFINE c == [next |-> "prefilter", state |-> WithPosts(Feed[RunAt(w)])]
  <2>1. /\ c \in Checkpoints /\ c.next = "prefilter"
        /\ c.state = WithPosts(Feed[RunAt(w)])
    BY <1>1, StateTypes, PipelineAssumption DEF Checkpoints, Nodes
  <2>2. Content(c.state) = Feed[RunAt(w)]
    BY <2>1, Contents
  <2>3. Clean(RunAt(w), c)
    BY <2>1, <2>2 DEF Clean
  <2>4. QED
    BY <1>1, <1>3, <2>1, <2>3 DEF Moves, Returns
<1>4. CASE PostFails(w) /\ at[w].stage = "retrying"
  BY <1>2, <1>4 DEF PostFails, AtStage
<1>5. QED
  BY <1>2, <1>3, <1>4 DEF IngestSkips, ActorReturns

LEMMA PrefilterReturns ==
  ASSUME TypeInv, HistoryInv, PositionsInv, NEW w \in Workers, Prefilter(w)
  PROVE  Moves(w)
<1>1. at[w] # Idle /\ RunAt(w) \in Runs /\ at[w].next = "prefilter"
  BY WorkerTypes DEF Prefilter, IsAt
<1>2. PICK S \in SUBSET Passes(w) :
        Return(w, WithPosts(S), IF S = {} THEN "end" ELSE "scout")
  BY DEF Prefilter
<1> DEFINE c == [next |-> IF S = {} THEN "end" ELSE "scout", state |-> WithPosts(S)]
<1>3. /\ S \subseteq StateAt(w).posts /\ S \subseteq Relevant[CampaignOf[RunAt(w)]]
      /\ S \cap posted = {} /\ \A x \in rows : x.post \notin S
  BY DEF Passes, CampaignAt
<1>4. StateAt(w).posts \subseteq Feed[RunAt(w)] /\ StateAt(w).posts \subseteq Posts
  BY <1>1, WorkerTypes, HeldTypes, HeldClean DEF Clean
<1>5. /\ c \in Checkpoints /\ c.next \in {"end", "scout"}
      /\ c.state = WithPosts(S) /\ c.next = IF S = {} THEN "end" ELSE "scout"
  BY <1>3, <1>4, StateTypes DEF Checkpoints, Nodes
<1>6. Content(c.state) = S
  BY <1>5, Contents
<1>7. before[RunAt(w)].posted \subseteq posted
  BY <1>1 DEF HistoryInv
<1>8. Clean(RunAt(w), c)
  BY <1>3, <1>4, <1>5, <1>6, <1>7 DEF Clean
<1>9. QED
  BY <1>1, <1>2, <1>5, <1>8 DEF Prefilter, Moves, Returns

(* The nodes after it hold back nothing that they did not have.            *)
LEMMA LaterReturn ==
  ASSUME TypeInv, PositionsInv, NEW w \in Workers, at[w] # Idle,
         at[w].next \notin {"prefilter", "persist_gate"}, NEW state \in States, NEW next \in Nodes,
         Content(state) \subseteq Content(StateAt(w)), next # "ingest",
         Return(w, state, next), UNCHANGED <<db, task, used, billed, fresh, before>>
  PROVE  Moves(w)
<1> DEFINE c == [next |-> next, state |-> state]
<1>1. c \in Checkpoints /\ c.next = next /\ c.state = state
  BY DEF Checkpoints
<1>2. Clean(RunAt(w), c)
  BY <1>1, WorkerTypes, HeldClean, CleanPart
<1>3. QED
  BY <1>1, <1>2 DEF Moves, Returns

LEMMA ScoutReturns ==
  ASSUME TypeInv, PositionsInv, NEW w \in Workers, Scout(w) \/ TokenBudget(w)
  PROVE  Moves(w)
<1>1. at[w] # Idle /\ at[w].next \in {"scout", "token_budget"}
  BY DEF Scout, TokenBudget, IsAt
<1>2. CASE Scout(w)
  <2>1. PICK valid \in SeqsUpTo(StateAt(w).posts, MaxSelections) :
          Return(w, WithSelections(valid), IF valid = <<>> THEN "end" ELSE "token_budget")
    BY <1>2 DEF Scout
  <2>2. DOMAIN valid = 1 .. Len(valid) /\ Len(valid) \in 0 .. MaxSelections
        /\ valid \in Seq(StateAt(w).posts) /\ \A i \in DOMAIN valid : valid[i] \in StateAt(w).posts
    BY SeqsUpToFacts, PipelineAssumption
  <2>3. valid \in [1 .. Len(valid) -> Posts]
    BY <1>1, <2>2, HeldTypes
  <2>4. valid \in SeqsUpTo(Posts, MaxSelections)
    BY <2>2, <2>3, SeqsUpToIntro, PipelineAssumption
  <2>5. WithSelections(valid) \in States
    BY <2>4, StateTypes
  <2>6. Content(WithSelections(valid)) \subseteq Content(StateAt(w))
    BY <1>1, <2>2, HeldTypes, Contents
  <2>7. QED
    BY <1>1, <1>2, <2>1, <2>5, <2>6, LaterReturn DEF Scout, Nodes
<1>3. CASE TokenBudget(w)
  BY <1>1, <1>3, WorkerTypes, LaterReturn DEF TokenBudget, Nodes
<1>4. QED
  BY <1>2, <1>3

LEMMA StrategistReturns ==
  ASSUME TypeInv, PositionsInv, NEW w \in Workers, Strategist(w)
  PROVE  Moves(w)
<1> DEFINE sel == StateAt(w).selections
<1>1. at[w] # Idle /\ at[w].next = "strategist"
  BY DEF Strategist, IsAt
<1>2. CASE Return(w, Initial, "finalize")
  <2>1. Content(Initial) \subseteq Content(StateAt(w))
    BY Contents
  <2>2. QED
    BY <1>1, <1>2, <2>1, StateTypes, LaterReturn DEF Strategist, Nodes
<1>3. ASSUME NEW f \in BatchOrders(Len(sel)), NEW text \in [DOMAIN sel -> {"reply", "empty"}],
             Return(w, WithDrafts([i \in DOMAIN sel |-> <<sel[f[i]], text[f[i]]>>]), "finalize")
      PROVE  Moves(w)
  <2> DEFINE d == [i \in DOMAIN sel |-> <<sel[f[i]], text[f[i]]>>]
  <2>1. /\ sel \in SeqsUpTo(Posts, MaxSelections)
        /\ \A i \in DOMAIN sel : sel[i] \in Content(StateAt(w))
    BY <1>1, HeldTypes
  <2>2. /\ DOMAIN sel = 1 .. Len(sel) /\ Len(sel) \in 0 .. MaxSelections
        /\ \A i \in DOMAIN sel : sel[i] \in Posts
    BY <2>1, SeqsUpToFacts, PipelineAssumption
  <2>3. f \in [DOMAIN sel -> DOMAIN sel]
    BY <2>2 DEF BatchOrders
  <2>4. \A i \in DOMAIN sel : sel[f[i]] \in Posts /\ text[f[i]] \in Texts
    BY <2>2, <2>3 DEF Texts
  <2>5. d \in [1 .. Len(sel) -> Posts \X Texts]
    BY <2>2, <2>4
  <2>6. d \in SeqsUpTo(Posts \X Texts, MaxSelections)
    BY <2>2, <2>5, SeqsUpToIntro, PipelineAssumption
  <2>7. \A i \in DOMAIN d : d[i][1] \in Content(StateAt(w))
    BY <2>1, <2>3
  <2>8. Content(WithDrafts(d)) \subseteq Content(StateAt(w))
    <3> HIDE DEF d
    <3>1. QED
      BY <2>7, Contents
  <2>9. WithDrafts(d) \in States
    <3> HIDE DEF d
    <3>1. QED
      BY <2>6, StateTypes
  <2>10. QED
    BY <1>1, <1>3, <2>8, <2>9, LaterReturn DEF Strategist, Nodes
<1>4. QED
  BY <1>2, <1>3 DEF Strategist

LEMMA FinalizeReturns ==
  ASSUME TypeInv, PositionsInv, NEW w \in Workers, Finalize(w)
  PROVE  Moves(w)
<1> DEFINE d == StateAt(w).drafts
           e == [i \in DOMAIN d |-> <<d[i][1], Finalized(d[i][2])>>]
<1>1. at[w] # Idle /\ at[w].next = "finalize"
  BY DEF Finalize, IsAt
<1>2. /\ d \in SeqsUpTo(Posts \X Texts, MaxSelections)
      /\ \A i \in DOMAIN d : d[i][1] \in Content(StateAt(w))
  BY <1>1, HeldTypes
<1>3. /\ DOMAIN d = 1 .. Len(d) /\ Len(d) \in 0 .. MaxSelections
      /\ \A i \in DOMAIN d : d[i] \in Posts \X Texts
  BY <1>2, SeqsUpToFacts, PipelineAssumption
<1>4. \A i \in DOMAIN d : d[i][1] \in Posts /\ Finalized(d[i][2]) \in Texts
  BY <1>3 DEF Finalized, Texts
<1>5. e \in [1 .. Len(d) -> Posts \X Texts]
  BY <1>3, <1>4
<1>6. e \in SeqsUpTo(Posts \X Texts, MaxSelections)
  BY <1>3, <1>5, SeqsUpToIntro, PipelineAssumption
<1>7. \A i \in DOMAIN e : e[i][1] \in Content(StateAt(w))
  BY <1>2
<1>8. Content(WithDrafts(e)) \subseteq Content(StateAt(w)) /\ WithDrafts(e) \in States
  <2> HIDE DEF d, e
  <2>1. Content(WithDrafts(e)) \subseteq Content(StateAt(w))
    BY <1>7, Contents
  <2>2. WithDrafts(e) \in States
    BY <1>6, StateTypes
  <2>3. QED
    BY <2>1, <2>2
<1>9. /\ Return(w, WithDrafts(e), "persist_gate")
      /\ UNCHANGED <<db, task, used, billed, fresh, before>>
  BY DEF Finalize
<1>10. QED
  <2> HIDE DEF e
  <2>1. QED
    BY <1>1, <1>8, <1>9, LaterReturn DEF Nodes

LEMMA Kinds ==
  ASSUME PipelineInv, [Next]_vars
  PROVE  StepKind
<1> USE DEF PipelineInv
<1>1. faults \in Nat /\ redeliveries \in Nat /\ task \in [Runs -> {"none", "queued", "taken", "acked"}]
      /\ ckpt \in [Runs -> Checkpoints]
  BY DEF TypeInv, TypeOK
<1>2. CASE \E r \in Runs : Dispatch(r)
  BY <1>1, <1>2 DEF StepKind, Dispatch
<1>3. CASE \E w \in Workers, r \in Runs : Deliver(w, r) \/ Redeliver(w, r)
  <2>1. PICK w \in Workers, r \in Runs : Deliver(w, r) \/ Redeliver(w, r)
    BY <1>3
  <2>2. task[r] = "taken" => task = [task EXCEPT ![r] = "taken"]
    BY <1>1
  <2>3. Begins(w, r)
    BY <2>1, <2>2 DEF Deliver, Redeliver, StartWorker, Begins
  <2>4. faults' \in Nat /\ redeliveries' \in Nat /\ faults' \in {faults, faults + 1}
    BY <1>1, <2>1 DEF Deliver, Redeliver, StartWorker
  <2>5. QED
    BY <2>3, <2>4 DEF StepKind
<1>4. ASSUME NEW w \in Workers, Step(w)
      PROVE  StepKind
  <2>1. CASE IngestSkips(w) \/ ActorReturns(w) \/ (PostFails(w) /\ at[w].stage = "retrying")
    BY <1>1, <2>1, IngestReturns DEF StepKind, IngestSkips, ActorReturns, PostFails
  <2>2. CASE Calls(w) \/ Counts(w)
    BY <1>1, <2>2
    DEF StepKind, Calls, Counts, Admit, PostActor, PostFails, TryDraft, GiveSlotBack
  <2>3. CASE Prefilter(w)
    BY <1>1, <2>3, PrefilterReturns DEF StepKind, Prefilter
  <2>4. CASE Scout(w) \/ TokenBudget(w)
    BY <1>1, <2>4, ScoutReturns DEF StepKind, Scout, TokenBudget
  <2>5. CASE Strategist(w)
    BY <1>1, <2>5, StrategistReturns DEF StepKind, Strategist
  <2>6. CASE Finalize(w)
    BY <1>1, <2>6, FinalizeReturns DEF StepKind, Finalize
  <2>7. CASE PersistGate(w)
    <3> DEFINE c == [next |-> "end", state |-> Initial]
    <3>1. c \in Checkpoints /\ c.next = "end" /\ c.state = Initial
      BY StateTypes DEF Checkpoints, Nodes
    <3>2. at[w] # Idle
      BY <2>7 DEF PersistGate, IsAt
    <3>3. Clean(RunAt(w), c)
      BY <3>2, Contents, HeldClean
    <3>4. Persists(w)
      BY <2>7, <3>1, <3>2, <3>3 DEF PersistGate, Persists, Returns
    <3>5. QED
      BY <1>1, <2>7, <3>4 DEF StepKind, PersistGate
  <2>8. CASE Finish(w)
    <3> DEFINE c == [next |-> "end", state |-> Initial]
    <3>1. c \in Checkpoints
      BY StateTypes DEF Checkpoints, Nodes
    <3>2. at[w] # Idle /\ at[w].slots = {}
      BY <2>8, HoldsNothing DEF Finish, IsAt
    <3>3. Clean(RunAt(w), c)
      BY <3>2, Contents, HeldClean
    <3>4. Leaves(w)
      BY <2>8, <3>1, <3>2, <3>3 DEF Finish, Leaves
    <3>5. QED
      BY <1>1, <2>8, <3>4 DEF StepKind, Finish
  <2>9. CASE CampaignGone(w)
    <3>1. at[w] # Idle /\ Fail(w) /\ UNCHANGED faults /\ at[w].slots = {}
      BY <2>9, HoldsNothing DEF CampaignGone, IsAt
    <3>2. Clean(RunAt(w), ckpt[RunAt(w)]) /\ ckpt[RunAt(w)] \in Checkpoints
      BY <3>1, HeldClean
    <3>3. ckpt = [ckpt EXCEPT ![RunAt(w)] = ckpt[RunAt(w)]]
      BY <1>1
    <3>4. Leaves(w)
      BY <3>1, <3>2, <3>3 DEF Fail, Leaves
    <3>5. QED
      BY <1>1, <3>1, <3>4 DEF StepKind, Fail
  <2>10. PostFails(w) => at[w].stage \in {"admitted", "retrying"}
    BY DEF PostFails, AtStage
  <2>11. QED
    BY <1>4, <2>1, <2>2, <2>3, <2>4, <2>5, <2>6, <2>7, <2>8, <2>9, <2>10
    DEF Step, Calls, Counts
<1>5. ASSUME NEW w \in Workers, Crash(w) \/ Raise(w)
      PROVE  StepKind
  <2>1. at[w] # Idle /\ faults' = faults + 1 /\ UNCHANGED redeliveries
    BY <1>5 DEF Crash, Raise, Fail
  <2>2. /\ Clean(RunAt(w), ckpt[RunAt(w)]) /\ ckpt[RunAt(w)] \in Checkpoints
        /\ Clean(RunAt(w), Position(w)) /\ Position(w) \in Checkpoints
    BY <2>1, HeldClean, WorkerTypes
  <2>3. ckpt = [ckpt EXCEPT ![RunAt(w)] = ckpt[RunAt(w)]]
    BY <1>1
  <2>4. \E c \in Checkpoints : Clean(RunAt(w), c) /\ ckpt' = [ckpt EXCEPT ![RunAt(w)] = c]
    BY <1>5, <2>2, <2>3 DEF Crash, Raise, Fail
  <2>5. \E t \in {"queued", "acked"} : task' = [task EXCEPT ![RunAt(w)] = t]
    BY <1>5 DEF Crash, Raise, Fail
  <2>6. at' = [at EXCEPT ![w] = Idle] /\ UNCHANGED <<db, used, billed, fresh, before>>
    BY <1>5 DEF Crash, Raise, Fail
  <2>7. Leaves(w)
    BY <2>1, <2>4, <2>5, <2>6 DEF Leaves
  <2>8. QED
    BY <1>1, <2>1, <2>7 DEF StepKind
<1>6. CASE KillSwitch \/ (\E c \in Campaigns : ResumeCampaign(c)) \/ UNCHANGED vars
  <2>1. /\ campaign \in [Campaigns -> {"ACTIVE", "PAUSED", "DELETED"}]
        /\ posted \subseteq Posts
    BY DEF TypeInv, TypeOK
  <2>2. Manages
    BY <1>6, <2>1 DEF KillSwitch, ResumeCampaign, Manages, vars
  <2>3. QED
    BY <1>1, <1>6, <2>2 DEF StepKind, KillSwitch, ResumeCampaign, vars
<1>7. CASE \E x \in rows : ConfirmPosted(x)
  <2>1. PICK x \in rows : ConfirmPosted(x)
    BY <1>7
  <2>2. /\ campaign \in [Campaigns -> {"ACTIVE", "PAUSED", "DELETED"}]
        /\ posted \subseteq Posts /\ x.post \in Posts
    BY DEF TypeInv, TypeOK, Rows
  <2>3. Manages
    BY <2>1, <2>2 DEF ConfirmPosted, Manages
  <2>4. QED
    BY <1>1, <2>1, <2>3 DEF StepKind, ConfirmPosted
<1>8. CASE \E c \in Campaigns : DeleteCampaign(c)
  BY <1>1, <1>8 DEF StepKind, DeleteCampaign
<1>9. QED
  BY <1>2, <1>3, <1>4, <1>5, <1>6, <1>7, <1>8 DEF Next

-----------------------------------------------------------------------------
(* A set that is listed without repetition has as many members as the      *)
(* list has places.                                                        *)
LEMMA SameSize ==
  ASSUME NEW S, IsFiniteSet(S), NEW T, NEW f \in [S -> T],
         \A a, b \in S : f[a] = f[b] => a = b,
         \A t \in T : \E a \in S : f[a] = t
  PROVE  IsFiniteSet(T) /\ Cardinality(T) = Cardinality(S)
<1>1. f \in Bijection(S, T)
  BY Fun_IsBij
<1>2. ExistsBijection(S, T)
  BY <1>1 DEF ExistsBijection
<1>3. QED
  BY <1>2, FS_Bijection

LEMMA DisjointUnion ==
  ASSUME NEW S, NEW T, IsFiniteSet(S), IsFiniteSet(T), S \cap T = {}
  PROVE  Cardinality(S \cup T) = Cardinality(S) + Cardinality(T)
<1>1. Cardinality(S \cap T) = 0
  BY FS_EmptySet
<1>2. Cardinality(S) \in Nat /\ Cardinality(T) \in Nat
  BY FS_CardinalityType
<1>3. Cardinality(S \cup T) = Cardinality(S) + Cardinality(T) - Cardinality(S \cap T)
  BY FS_Union
<1>4. QED
  BY <1>1, <1>2, <1>3

LEMMA OneMore ==
  ASSUME NEW S, IsFiniteSet(S), NEW x, NEW T \in SUBSET (S \cup {x})
  PROVE  /\ IsFiniteSet(T) /\ Cardinality(T) \in Nat
         /\ Cardinality(T) <= Cardinality(S) + 1
<1>1. /\ IsFiniteSet(S \cup {x}) /\ Cardinality(S) \in Nat
      /\ Cardinality(S \cup {x}) = IF x \in S THEN Cardinality(S) ELSE Cardinality(S) + 1
  BY FS_AddElement, FS_CardinalityType
<1>2. /\ IsFiniteSet(T) /\ Cardinality(T) <= Cardinality(S \cup {x})
  BY <1>1, FS_Subset
<1>3. Cardinality(T) \in Nat /\ Cardinality(S \cup {x}) \in Nat
  BY <1>1, <1>2, FS_CardinalityType
<1>4. QED
  BY <1>1, <1>2, <1>3

(* What may be written for a run is clean.                                 *)
LEMMA WrittenFacts ==
  ASSUME TypeInv, PositionsInv, NEW r \in Runs, NEW c \in Written(r)
  PROVE  c \in Checkpoints /\ Clean(r, c)
<1>1. CASE c = ckpt[r]
  BY <1>1 DEF TypeInv, TypeOK, PositionsInv
<1>2. CASE \E w \in Workers : at[w] # Idle /\ RunAt(w) = r /\ c = Position(w)
  BY <1>2, WorkerTypes DEF PositionsInv
<1>3. QED
  BY <1>1, <1>2 DEF Written

(* The drafts that persist_gate turns into rows.                           *)
LEMMA NewFacts ==
  ASSUME TypeInv, NEW w \in Workers, at[w] # Idle
  PROVE  /\ NewDrafts(w) \subseteq DOMAIN StateAt(w).drafts
         /\ DOMAIN StateAt(w).drafts \subseteq 1 .. MaxSelections
         /\ \A i \in NewDrafts(w) :
              /\ campaign[CampaignAt(w)] # "DELETED"
              /\ StateAt(w).drafts[i][1] \in Posts \cap Content(StateAt(w))
              /\ StateAt(w).drafts[i][1] \notin {x.post : x \in RowsOf(CampaignAt(w))}
              /\ \A j \in 1 .. i - 1 : StateAt(w).drafts[j][1] # StateAt(w).drafts[i][1]
<1> DEFINE d == StateAt(w).drafts
<1>1. d \in SeqsUpTo(Posts \X Texts, MaxSelections)
      /\ \A i \in DOMAIN d : d[i][1] \in Content(StateAt(w))
  BY HeldTypes
<1>2. /\ DOMAIN d \subseteq 1 .. MaxSelections
      /\ \A i \in DOMAIN d : d[i][1] \in Posts
  BY <1>1, SeqsUpToFacts, PipelineAssumption
<1>3. NewDrafts(w) \subseteq DOMAIN d
  BY DEF NewDrafts
<1>4. \A i \in NewDrafts(w) :
        /\ campaign[CampaignAt(w)] # "DELETED"
        /\ d[i][1] \notin {x.post : x \in RowsOf(CampaignAt(w))}
        /\ \A j \in 1 .. i - 1 : d[j][1] # d[i][1]
  BY DEF NewDrafts
<1>5. QED
  BY <1>1, <1>2, <1>3, <1>4

(* What persist_gate adds: rows of the worker's run, for posts it holds,   *)
(* none of which the campaign has a row for, one for each slot it holds.   *)
Adds(w, new) ==
  /\ rows' = rows \cup new /\ new \subseteq Rows /\ IsFiniteSet(new)
  /\ Cardinality(new) = Cardinality(at[w].slots)
  /\ \A x \in new :
        /\ x.run = RunAt(w) /\ x.campaign = CampaignAt(w)
        /\ campaign[x.campaign] # "DELETED"
        /\ x.post \in Content(StateAt(w))
        /\ \A y \in rows : y.campaign = x.campaign => y.post # x.post
  /\ \A x, y \in new : x.post = y.post => x = y

LEMMA PersistFacts ==
  ASSUME TypeInv, NEW w \in Workers, at[w] # Idle, PersistGate(w)
  PROVE  \E new : Adds(w, new)
<1> DEFINE d == StateAt(w).drafts
           slots == at[w].slots
<1>1. PICK cost \in SUBSET slots : rows' = rows \cup {RowFor(w, i, cost) : i \in slots}
  BY DEF PersistGate
<1> DEFINE new == {RowFor(w, i, cost) : i \in slots}
           f == [i \in slots |-> RowFor(w, i, cost)]
<1>2. /\ RunAt(w) \in Runs /\ CampaignAt(w) \in Campaigns
      /\ slots \subseteq 1 .. MaxSelections /\ slots \subseteq DOMAIN d
      /\ \A i \in slots :
           /\ campaign[CampaignAt(w)] # "DELETED"
           /\ d[i][1] \in Posts \cap Content(StateAt(w))
           /\ d[i][1] \notin {x.post : x \in RowsOf(CampaignAt(w))}
           /\ \A j \in 1 .. i - 1 : d[j][1] # d[i][1]
  BY WorkerTypes, NewFacts DEF PersistGate
<1>3. \A i \in slots :
        /\ RowFor(w, i, cost) \in Rows
        /\ RowFor(w, i, cost).run = RunAt(w) /\ RowFor(w, i, cost).campaign = CampaignAt(w)
        /\ RowFor(w, i, cost).post = d[i][1]
  BY <1>2 DEF RowFor, Rows
<1>4. \A i \in slots : \A y \in rows : y.campaign = CampaignAt(w) => y.post # d[i][1]
  BY <1>2 DEF RowsOf
<1>5. \A i, j \in slots : d[i][1] = d[j][1] => i = j
  <2>1. SUFFICES ASSUME NEW i \in slots, NEW j \in slots, i < j
                 PROVE  d[i][1] # d[j][1]
    BY <1>2
  <2>2. i \in 1 .. j - 1
    BY <1>2, <2>1
  <2>3. QED
    BY <1>2, <2>2
<1>6. IsFiniteSet(new) /\ Cardinality(new) = Cardinality(slots)
  <2>1. f \in [slots -> new]
    OBVIOUS
  <2>2. \A a, b \in slots : f[a] = f[b] => a = b
    BY <1>3, <1>5
  <2>3. \A t \in new : \E a \in slots : f[a] = t
    OBVIOUS
  <2>4. IsFiniteSet(slots)
    <3>1. IsFiniteSet(1 .. MaxSelections)
      <4>1. 1 \in Int /\ MaxSelections \in Int
        BY PipelineAssumption
      <4>2. QED
        BY <4>1, FS_Interval
    <3>2. QED
      BY <1>2, <3>1, FS_Subset
  <2>5. QED
    <3> HIDE DEF new, f
    <3>1. QED
      BY <2>1, <2>2, <2>3, <2>4, SameSize
<1>7. \A x, y \in new : x.post = y.post => x = y
  BY <1>3, <1>5
<1>8. \A x \in new :
        /\ x \in Rows /\ x.run = RunAt(w) /\ x.campaign = CampaignAt(w)
        /\ campaign[x.campaign] # "DELETED"
        /\ x.post \in Content(StateAt(w))
        /\ \A y \in rows : y.campaign = x.campaign => y.post # x.post
  BY <1>2, <1>3, <1>4
<1>9. Adds(w, new)
  <2> HIDE DEF new
  <2>1. QED
    BY <1>1, <1>6, <1>7, <1>8 DEF Adds, new
<1>10. QED
  BY <1>9

(* What a worker does inside of a node.                                    *)
LEMMA InsideFacts ==
  ASSUME TypeInv, NEW w \in Workers, Calls(w) \/ Counts(w)
  PROVE  /\ at[w] # Idle /\ RunAt(w) \in Runs /\ CampaignAt(w) \in Campaigns
         /\ \A v \in Workers \ {w} : at'[v] = at[v] /\ RunAt(v)' = RunAt(v)
         /\ at' \in [Workers -> Busy \cup {Idle}] /\ at'[w] # Idle
         /\ RunAt(w)' = RunAt(w) /\ at'[w].next = at[w].next /\ at'[w].state = at[w].state
         /\ UNCHANGED <<db, task, ckpt, fresh, before, faults, redeliveries>>
<1> DEFINE Same(b) == /\ b \in Busy /\ b.run = at[w].run /\ b.next = at[w].next
                      /\ b.state = at[w].state
<1>1. at[w] # Idle
  BY DEF Calls, Counts, Admit, PostActor, PostFails, TryDraft, GiveSlotBack, AtStage, IsAt
<1>2. /\ at[w] \in Busy /\ RunAt(w) \in Runs /\ CampaignAt(w) \in Campaigns
      /\ at \in [Workers -> Busy \cup {Idle}]
  BY <1>1, WorkerTypes DEF TypeInv
<1>3. \E b : at' = [at EXCEPT ![w] = b] /\ Same(b)
  <2>1. CASE Calls(w)
    <3>1. PICK stage \in Stages : at' = [at EXCEPT ![w] = [at[w] EXCEPT !.stage = stage]]
      BY <2>1 DEF Calls, Admit, PostActor, PostFails, AtStage, Stages
    <3>2. Same([at[w] EXCEPT !.stage = stage])
      BY <1>2 DEF Busy
    <3>3. QED
      BY <3>1, <3>2
  <2>2. CASE TryDraft(w)
    <3>1. PICK slots \in SUBSET (1 .. MaxSelections) :
            at' = [at EXCEPT ![w] = [at[w] EXCEPT !.tried = @ + 1, !.slots = slots]]
      <4>1. /\ at[w].tried + 1 \in 1 .. MaxSelections
            /\ at[w].slots \subseteq 1 .. MaxSelections
        BY <1>1, <2>2, NewFacts, WorkerTypes DEF TryDraft
      <4>2. PICK slots \in SUBSET (1 .. MaxSelections) : at' = Tried(w, slots)
        BY <2>2, <4>1 DEF TryDraft
      <4>3. QED
        BY <4>2 DEF Tried
    <3>2. at[w].tried + 1 \in 0 .. MaxSelections
      BY <1>1, <2>2, NewFacts, WorkerTypes DEF TryDraft
    <3>3. Same([at[w] EXCEPT !.tried = @ + 1, !.slots = slots])
      BY <1>2, <3>2 DEF Busy
    <3>4. QED
      BY <3>1, <3>3
  <2>3. CASE GiveSlotBack(w)
    <3>1. PICK slots \in SUBSET (1 .. MaxSelections) :
            at' = [at EXCEPT ![w] = [at[w] EXCEPT !.slots = slots]]
      BY <1>1, <2>3, WorkerTypes DEF GiveSlotBack
    <3>2. Same([at[w] EXCEPT !.slots = slots])
      BY <1>2 DEF Busy
    <3>3. QED
      BY <3>1, <3>2
  <2>4. QED
    BY <2>1, <2>2, <2>3 DEF Counts
<1>4. PICK b : at' = [at EXCEPT ![w] = b] /\ Same(b)
  BY <1>3
<1>5. b # Idle
  BY <1>4 DEF Busy, Idle
<1>6. at'[w] = b /\ \A v \in Workers \ {w} : at'[v] = at[v]
  BY <1>2, <1>4
<1>7. UNCHANGED <<db, task, ckpt, fresh, before, faults, redeliveries>>
  BY DEF Calls, Counts, Admit, PostActor, PostFails, TryDraft, GiveSlotBack, AtStage
<1>8. QED
  BY <1>1, <1>2, <1>4, <1>5, <1>6, <1>7 DEF RunAt

(* The calls: who POSTs, how often, and what is left to do.                *)
LEMMA CallFacts ==
  ASSUME TypeInv, NEW w \in Workers, Calls(w)
  PROVE  /\ used' = used /\ at'[w].tried = at[w].tried /\ at'[w].slots = at[w].slots
         /\ \E n \in {0, 1} : billed' = [billed EXCEPT ![RunAt(w)] = @ + n]
         /\ \A q \in Runs \ {RunAt(w)} : billed'[q] = billed[q]
         /\ at[w].next = "ingest"
         /\ \/ /\ at[w].stage = "start" /\ at'[w].stage = "admitted"
               /\ billed' = billed /\ campaign[CampaignAt(w)] = "ACTIVE"
            \/ /\ at[w].stage \in {"admitted", "retrying"} /\ at'[w].stage = "polling"
               /\ billed'[RunAt(w)] = billed[RunAt(w)] + 1
            \/ /\ at[w].stage = "admitted" /\ at'[w].stage = "retrying"
               /\ billed'[RunAt(w)] \in {billed[RunAt(w)], billed[RunAt(w)] + 1}
<1>1. at[w] # Idle /\ at[w].next = "ingest" /\ used' = used
  BY DEF Calls, Admit, PostActor, PostFails, AtStage, IsAt
<1>2. /\ at[w] \in Busy /\ RunAt(w) \in Runs /\ at \in [Workers -> Busy \cup {Idle}]
      /\ billed \in [Runs -> Nat]
  BY <1>1, WorkerTypes DEF TypeInv, TypeOK
<1>3. ASSUME NEW stage, at' = [at EXCEPT ![w].stage = stage]
      PROVE  at'[w].tried = at[w].tried /\ at'[w].slots = at[w].slots /\ at'[w].stage = stage
  <2>1. at'[w] = [at[w] EXCEPT !.stage = stage]
    BY <1>2, <1>3
  <2>2. QED
    BY <1>2, <2>1 DEF Busy
<1>4. CASE Admit(w)
  <2>1. billed' = [billed EXCEPT ![RunAt(w)] = @ + 0]
    BY <1>2, <1>4 DEF Admit
  <2>2. QED
    BY <1>1, <1>3, <1>4, <2>1 DEF Admit, AtStage
<1>5. CASE PostActor(w)
  BY <1>1, <1>2, <1>3, <1>5 DEF PostActor, AtStage
<1>6. CASE PostFails(w) /\ at[w].stage = "admitted"
  <2>1. PICK n \in {0, 1} : billed' = [billed EXCEPT ![RunAt(w)] = @ + n]
    BY <1>6 DEF PostFails
  <2>2. at' = [at EXCEPT ![w].stage = "retrying"]
    BY <1>6 DEF PostFails, AtStage
  <2>3. at'[w].stage = "retrying" /\ at'[w].tried = at[w].tried /\ at'[w].slots = at[w].slots
    BY <1>3, <2>2
  <2>4. /\ billed'[RunAt(w)] \in {billed[RunAt(w)], billed[RunAt(w)] + 1}
        /\ \A q \in Runs \ {RunAt(w)} : billed'[q] = billed[q]
    BY <1>2, <2>1
  <2>5. QED
    BY <1>1, <1>6, <2>1, <2>3, <2>4
<1>7. QED
  BY <1>4, <1>5, <1>6 DEF Calls

(* Slots of the campaigns change by those of the worker that does a step.  *)
LEMMA HeldSame ==
  ASSUME NEW w \in Workers, \A v \in Workers \ {w} : at'[v] = at[v],
         at[w] = Idle \/ at[w].slots = {}, at'[w] = Idle \/ at'[w].slots = {},
         NEW c \in Campaigns
  PROVE  HeldSlots(c)' = HeldSlots(c)
<1>1. \A h \in Workers \X (1 .. MaxSelections) :
         h \in HeldSlots(c) \/ h \in HeldSlots(c)' => h[1] # w
  BY DEF HeldSlots
<1>2. \A h \in Workers \X (1 .. MaxSelections) : h[1] # w =>
         (h \in HeldSlots(c)' <=> h \in HeldSlots(c))
  BY DEF HeldSlots, CampaignAt, RunAt
<1>3. QED
  BY <1>1, <1>2 DEF HeldSlots

LEMMA HeldDropped ==
  ASSUME TypeInv, SlotInv, NEW w \in Workers, at[w] # Idle,
         \A v \in Workers \ {w} : at'[v] = at[v], at'[w] = Idle \/ at'[w].slots = {}
  PROVE  /\ Cardinality(at[w].slots) \in 0 .. MaxSelections
         /\ \A c \in Campaigns :
              /\ IsFiniteSet(HeldSlots(c)')
              /\ c # CampaignAt(w) => HeldSlots(c)' = HeldSlots(c)
              /\ c = CampaignAt(w) => Cardinality(HeldSlots(c)) =
                                        Cardinality(HeldSlots(c)') + Cardinality(at[w].slots)
<1> DEFINE slots == at[w].slots
           own == {w} \X slots
           f == [i \in slots |-> <<w, i>>]
<1>1. CampaignAt(w) \in Campaigns /\ slots \subseteq 1 .. MaxSelections
  BY WorkerTypes
<1>2. IsFiniteSet(slots) /\ Cardinality(slots) \in 0 .. MaxSelections
  <2>1. 1 \in Int /\ MaxSelections \in Int /\ MaxSelections >= 0
    BY PipelineAssumption
  <2>2. IsFiniteSet(1 .. MaxSelections) /\ Cardinality(1 .. MaxSelections) = MaxSelections
    BY <2>1, FS_Interval
  <2>3. IsFiniteSet(slots) /\ Cardinality(slots) <= MaxSelections
    BY <1>1, <2>2, FS_Subset
  <2>4. Cardinality(slots) \in Nat
    BY <2>3, FS_CardinalityType
  <2>5. QED
    BY <2>1, <2>3, <2>4
<1>3. IsFiniteSet(own) /\ Cardinality(own) = Cardinality(slots)
  <2>1. f \in [slots -> own] /\ \A a, b \in slots : f[a] = f[b] => a = b
    OBVIOUS
  <2>2. \A t \in own : \E a \in slots : f[a] = t
    OBVIOUS
  <2>3. QED
    <3> HIDE DEF own, f
    <3>1. QED
      BY <1>2, <2>1, <2>2, SameSize
<1>4. ASSUME NEW c \in Campaigns
      PROVE  /\ IsFiniteSet(HeldSlots(c)')
             /\ c # CampaignAt(w) => HeldSlots(c)' = HeldSlots(c)
             /\ c = CampaignAt(w) => Cardinality(HeldSlots(c)) =
                                       Cardinality(HeldSlots(c)') + Cardinality(slots)
  <2>1. HeldSlots(c)' = {h \in HeldSlots(c) : h[1] # w}
    <3>1. \A h \in Workers \X (1 .. MaxSelections) : h \in HeldSlots(c)' => h[1] # w
      BY DEF HeldSlots
    <3>2. \A h \in Workers \X (1 .. MaxSelections) : h[1] # w =>
             (h \in HeldSlots(c)' <=> h \in HeldSlots(c))
      BY DEF HeldSlots, CampaignAt, RunAt
    <3>3. QED
      BY <3>1, <3>2 DEF HeldSlots
  <2>2. IsFiniteSet(HeldSlots(c)')
    BY <2>1, FS_Subset DEF SlotInv
  <2>3. CASE c # CampaignAt(w)
    <3>1. \A h \in HeldSlots(c) : h[1] # w
      BY <2>3 DEF HeldSlots
    <3>2. QED
      BY <2>1, <2>2, <2>3, <3>1
  <2>4. CASE c = CampaignAt(w)
    <3>1. \A h \in HeldSlots(c) : h[1] = w => h \in own
      BY DEF HeldSlots
    <3>2. own \subseteq HeldSlots(c) /\ \A h \in own : h[1] = w
      BY <1>1, <2>4 DEF HeldSlots
    <3>3. HeldSlots(c) = HeldSlots(c)' \cup own /\ HeldSlots(c)' \cap own = {}
      BY <2>1, <3>1, <3>2
    <3>4. Cardinality(HeldSlots(c)' \cup own) = Cardinality(HeldSlots(c)') + Cardinality(own)
      BY <1>3, <2>2, <3>3, DisjointUnion
    <3>5. QED
      BY <1>3, <2>2, <2>4, <3>3, <3>4
  <2>5. QED
    BY <2>3, <2>4
<1>5. QED
  BY <1>2, <1>4

(* What persist_gate claims or gives back is counted at once.              *)
LEMMA CountFacts ==
  ASSUME TypeInv, SlotInv, NEW w \in Workers, Counts(w)
  PROVE  /\ at[w].next = "persist_gate" /\ billed' = billed
         /\ used' \in [Campaigns -> Nat] /\ Holds(w)'
         /\ \A c \in Campaigns :
              /\ IsFiniteSet(HeldSlots(c)')
              /\ used'[c] - Cardinality(HeldSlots(c)') = used[c] - Cardinality(HeldSlots(c))
<1>1. /\ at[w] # Idle /\ at[w].next = "persist_gate" /\ billed' = billed
      /\ at[w] \in Busy /\ at \in [Workers -> Busy \cup {Idle}]
      /\ used \in [Campaigns -> Nat] /\ at[w].slots \subseteq 1 .. at[w].tried
      /\ at[w].tried \in 0 .. MaxSelections
  <2>1. at[w] # Idle /\ at[w].next = "persist_gate" /\ billed' = billed
    BY DEF Counts, TryDraft, GiveSlotBack, IsAt
  <2>2. QED
    BY <2>1, WorkerTypes DEF TypeInv, TypeOK, SlotInv, Holds
<1>2. PICK k \in Campaigns : k = CampaignAt(w)
  BY <1>1, WorkerTypes
<1>3. /\ at'[w] # Idle /\ at'[w].next = at[w].next /\ RunAt(w)' = RunAt(w)
      /\ \A v \in Workers \ {w} : at'[v] = at[v]
  BY InsideFacts
<1>4. \A c \in Campaigns : IsFiniteSet(HeldSlots(c)) /\ Cardinality(HeldSlots(c)) \in Nat
  BY FS_CardinalityType DEF SlotInv
<1>5. \A c \in Campaigns : \A h \in Workers \X (1 .. MaxSelections) :
         h[1] # w => (h \in HeldSlots(c)' <=> h \in HeldSlots(c))
  BY <1>3 DEF HeldSlots, CampaignAt, RunAt
<1>6. \A h \in Workers \X (1 .. MaxSelections) : h[1] = w =>
         /\ \A c \in Campaigns \ {k} : h \notin HeldSlots(c) /\ h \notin HeldSlots(c)'
         /\ h \in HeldSlots(k) <=> h[2] \in at[w].slots
         /\ h \in HeldSlots(k)' <=> h[2] \in at'[w].slots
  BY <1>1, <1>2, <1>3 DEF HeldSlots, CampaignAt
<1>7. \A c \in Campaigns \ {k} : HeldSlots(c)' = HeldSlots(c)
  BY <1>5, <1>6 DEF HeldSlots
<1>8. CASE used' = used /\ at'[w].slots = at[w].slots /\ at'[w].tried = at[w].tried + 1
  <2>1. HeldSlots(k)' = HeldSlots(k)
    BY <1>5, <1>6, <1>8 DEF HeldSlots
  <2>2. Holds(w)'
    BY <1>1, <1>3, <1>8 DEF Holds
  <2>3. QED
    BY <1>1, <1>4, <1>7, <1>8, <2>1, <2>2
<1>9. ASSUME NEW i \in 1 .. MaxSelections, i = at[w].tried + 1,
             used' = [used EXCEPT ![k] = @ + 1],
             at'[w].slots = at[w].slots \cup {i}, at'[w].tried = i
      PROVE  /\ used' \in [Campaigns -> Nat] /\ Holds(w)'
             /\ \A c \in Campaigns :
                  /\ IsFiniteSet(HeldSlots(c)')
                  /\ used'[c] - Cardinality(HeldSlots(c)') = used[c] - Cardinality(HeldSlots(c))
  <2>1. i \notin at[w].slots
    BY <1>1, <1>9
  <2>2. HeldSlots(k)' = HeldSlots(k) \cup {<<w, i>>} /\ <<w, i>> \notin HeldSlots(k)
    BY <1>5, <1>6, <1>9, <2>1 DEF HeldSlots
  <2>3. /\ IsFiniteSet(HeldSlots(k)')
        /\ Cardinality(HeldSlots(k)') = Cardinality(HeldSlots(k)) + 1
    BY <1>4, <2>2, FS_AddElement
  <2>4. Holds(w)'
    BY <1>1, <1>3, <1>9 DEF Holds
  <2>5. used' \in [Campaigns -> Nat] /\ used'[k] = used[k] + 1
        /\ \A c \in Campaigns \ {k} : used'[c] = used[c]
    BY <1>1, <1>9
  <2>6. QED
    BY <1>1, <1>4, <1>7, <2>3, <2>4, <2>5
<1>10. ASSUME NEW i \in at[w].slots, used' = [used EXCEPT ![k] = @ - 1],
              at'[w].slots = at[w].slots \ {i}, at'[w].tried = at[w].tried
       PROVE  /\ used' \in [Campaigns -> Nat] /\ Holds(w)'
              /\ \A c \in Campaigns :
                   /\ IsFiniteSet(HeldSlots(c)')
                   /\ used'[c] - Cardinality(HeldSlots(c)') = used[c] - Cardinality(HeldSlots(c))
  <2>1. i \in 1 .. MaxSelections
    BY <1>1, <1>10, PipelineAssumption
  <2>2. HeldSlots(k)' = HeldSlots(k) \ {<<w, i>>} /\ <<w, i>> \in HeldSlots(k)
    BY <1>5, <1>6, <1>10, <2>1 DEF HeldSlots
  <2>3. /\ IsFiniteSet(HeldSlots(k)')
        /\ Cardinality(HeldSlots(k)') = Cardinality(HeldSlots(k)) - 1
    BY <1>4, <2>2, FS_RemoveElement
  <2>4. used[k] >= 1
    <3>1. IsFiniteSet(RowsOf(k)) /\ Cardinality(RowsOf(k)) \in Nat
      BY FS_Subset, FS_CardinalityType DEF SlotInv, RowsOf
    <3>2. Cardinality(HeldSlots(k)') \in Nat
      BY <2>3, FS_CardinalityType
    <3>3. Cardinality(RowsOf(k)) + Cardinality(HeldSlots(k)) <= used[k]
      BY DEF SlotInv, Claimed
    <3>4. QED
      BY <1>1, <1>4, <2>3, <3>1, <3>2, <3>3
  <2>5. Holds(w)'
    BY <1>1, <1>3, <1>10 DEF Holds
  <2>6. used' \in [Campaigns -> Nat] /\ used'[k] = used[k] - 1
        /\ \A c \in Campaigns \ {k} : used'[c] = used[c]
    BY <1>1, <1>10, <2>4
  <2>7. QED
    BY <1>1, <1>4, <1>7, <2>3, <2>5, <2>6
<1>11. CASE TryDraft(w)
  <2> DEFINE i == at[w].tried + 1
  <2>1. i \in 1 .. MaxSelections
    BY <1>1, <1>11, NewFacts DEF TryDraft
  <2>2. ASSUME NEW slots, at' = Tried(w, slots)
        PROVE  at'[w].slots = slots /\ at'[w].tried = i
    <3>1. at'[w] = [at[w] EXCEPT !.tried = @ + 1, !.slots = slots]
      BY <1>1, <2>2 DEF Tried
    <3>2. QED
      BY <1>1, <3>1 DEF Busy
  <2>3. CASE used' = [used EXCEPT ![k] = @ + 1] /\ at' = Tried(w, at[w].slots \cup {i})
    <3>1. at'[w].slots = at[w].slots \cup {i} /\ at'[w].tried = i
      BY <2>2, <2>3
    <3>2. QED
      BY <1>1, <1>9, <2>1, <2>3, <3>1
  <2>4. CASE used' = used /\ at' = Tried(w, at[w].slots)
    <3>1. at'[w].slots = at[w].slots /\ at'[w].tried = i
      BY <2>2, <2>4
    <3>2. QED
      BY <1>8, <2>4, <3>1
  <2>5. QED
    BY <1>2, <1>11, <2>3, <2>4 DEF TryDraft
<1>12. CASE GiveSlotBack(w)
  <2>1. PICK i \in at[w].slots : at' = [at EXCEPT ![w].slots = @ \ {i}]
    BY <1>12 DEF GiveSlotBack
  <2>2. at'[w] = [at[w] EXCEPT !.slots = @ \ {i}]
    BY <1>1, <2>1
  <2>3. at'[w].slots = at[w].slots \ {i} /\ at'[w].tried = at[w].tried
    BY <1>1, <2>2 DEF Busy
  <2>4. used' = [used EXCEPT ![k] = @ - 1]
    BY <1>2, <1>12 DEF GiveSlotBack
  <2>5. QED
    BY <1>1, <1>10, <2>3, <2>4
<1>13. QED
  BY <1>11, <1>12 DEF Counts

-----------------------------------------------------------------------------
(* Each part of the invariant is kept by every kind of step.               *)
LEMMA TypeStep == ASSUME PipelineInv, StepKind PROVE TypeInv'
<1> USE DEF PipelineInv
<1>1. /\ campaign \in [Campaigns -> {"ACTIVE", "PAUSED", "DELETED"}]
      /\ task \in [Runs -> {"none", "queued", "taken", "acked"}]
      /\ ckpt \in [Runs -> Checkpoints]
      /\ at \in [Workers -> Busy \cup {Idle}]
      /\ rows \in SUBSET Rows /\ posted \in SUBSET Posts
      /\ used \in [Campaigns -> Nat] /\ billed \in [Runs -> Nat] /\ fresh \in [Runs -> Nat]
      /\ before \in [Runs -> [rows : SUBSET Rows, posted : SUBSET Posts]]
  BY DEF TypeInv, TypeOK
<1> DEFINE Types ==
      /\ campaign' \in [Campaigns -> {"ACTIVE", "PAUSED", "DELETED"}]
      /\ task' \in [Runs -> {"none", "queued", "taken", "acked"}]
      /\ ckpt' \in [Runs -> Checkpoints]
      /\ at' \in [Workers -> Busy \cup {Idle}]
      /\ rows' \in SUBSET Rows /\ posted' \in SUBSET Posts
      /\ used' \in [Campaigns -> Nat] /\ billed' \in [Runs -> Nat] /\ fresh' \in [Runs -> Nat]
      /\ before' \in [Runs -> [rows : SUBSET Rows, posted : SUBSET Posts]]
<1>2. ASSUME NEW r \in Runs, Dispatch(r)
      PROVE  Types
  BY <1>1, <1>2 DEF Dispatch, db
<1>3. ASSUME NEW w \in Workers, NEW r \in Runs, Begins(w, r)
      PROVE  Types
  <2>1. PICK c \in Written(r) :
          /\ ckpt' = [ckpt EXCEPT ![r] = c]
          /\ at' = [at EXCEPT ![w] = Resume(r, c)]
          /\ fresh' = [fresh EXCEPT ![r] = @ + IF c.next = "ingest" THEN 1 ELSE 0]
    BY <1>3 DEF Begins
  <2>2. c \in Checkpoints
    BY WrittenFacts
  <2>3. Resume(r, c) \in Busy
    <3>1. 0 \in 0 .. MaxSelections
      BY PipelineAssumption
    <3>2. QED
      BY <2>2, <3>1 DEF Resume, Busy, Checkpoints, Stages
  <2>4. task' \in [Runs -> {"none", "queued", "taken", "acked"}]
    BY <1>1, <1>3 DEF Begins
  <2>5. fresh' \in [Runs -> Nat]
    BY <1>1, <2>1
  <2>6. ckpt' \in [Runs -> Checkpoints] /\ at' \in [Workers -> Busy \cup {Idle}]
    BY <1>1, <2>1, <2>2, <2>3
  <2>7. QED
    BY <1>1, <1>3, <2>4, <2>5, <2>6 DEF Begins, db
<1>4. ASSUME NEW w \in Workers, Calls(w) \/ Counts(w)
      PROVE  Types
  <2>1. /\ at' \in [Workers -> Busy \cup {Idle}] /\ RunAt(w) \in Runs
        /\ UNCHANGED <<db, task, ckpt, fresh, before>>
    BY <1>4, InsideFacts
  <2>2. CASE Calls(w)
    <3>1. PICK n \in {0, 1} : billed' = [billed EXCEPT ![RunAt(w)] = @ + n]
      BY <2>2, CallFacts
    <3>2. billed' \in [Runs -> Nat]
      BY <1>1, <2>1, <3>1
    <3>3. QED
      BY <1>1, <2>1, <2>2, <3>2, CallFacts DEF db
  <2>3. CASE Counts(w)
    BY <1>1, <2>1, <2>3, CountFacts DEF db
  <2>4. QED
    BY <1>4, <2>2, <2>3
<1>5. ASSUME NEW w \in Workers, Returns(w)
      PROVE  at' \in [Workers -> Busy \cup {Idle}] /\ ckpt' \in [Runs -> Checkpoints]
  <2>1. PICK c \in Checkpoints : Return(w, c.state, c.next)
    BY <1>5 DEF Returns
  <2>2. at[w] \in Busy /\ RunAt(w) \in Runs /\ Position(w) \in Checkpoints
    BY <1>5, WorkerTypes DEF Returns
  <2>3. [at[w] EXCEPT !.state = c.state, !.next = c.next, !.stage = "start",
                      !.tried = 0, !.slots = {}] \in Busy
    <3>1. 0 \in 0 .. MaxSelections
      BY PipelineAssumption
    <3>2. QED
      BY <2>2, <3>1 DEF Busy, Checkpoints, Stages
  <2>4. QED
    BY <1>1, <2>1, <2>2, <2>3 DEF Return
<1>6. ASSUME NEW w \in Workers, Moves(w)
      PROVE  Types
  <2>1. billed' \in [Runs -> Nat]
    <3>1. CASE billed' = billed
      BY <1>1, <3>1
    <3>2. CASE PostFails(w)
      <4>1. RunAt(w) \in Runs
        BY <1>6, WorkerTypes DEF Moves, Returns
      <4>2. PICK n \in {0, 1} : billed' = [billed EXCEPT ![RunAt(w)] = @ + n]
        BY <3>2 DEF PostFails
      <4>3. QED
        BY <1>1, <4>1, <4>2
    <3>3. QED
      BY <1>6, <3>1, <3>2 DEF Moves
  <2>2. QED
    BY <1>1, <1>5, <1>6, <2>1 DEF Moves, Returns, db
<1>7. ASSUME NEW w \in Workers, Persists(w)
      PROVE  Types
  <2>1. at[w] # Idle
    BY <1>7 DEF Persists, Returns
  <2>2. PICK new : Adds(w, new)
    BY <1>7, <2>1, PersistFacts DEF Persists
  <2>3. rows' \in SUBSET Rows
    BY <1>1, <2>2 DEF Adds
  <2>4. QED
    BY <1>1, <1>5, <1>7, <2>3 DEF Persists, PersistGate
<1>8. ASSUME NEW w \in Workers, Leaves(w)
      PROVE  Types
  <2>1. at' \in [Workers -> Busy \cup {Idle}]
    BY <1>1, <1>8 DEF Leaves
  <2>2. task' \in [Runs -> {"none", "queued", "taken", "acked"}]
    BY <1>1, <1>8 DEF Leaves
  <2>3. ckpt' \in [Runs -> Checkpoints]
    BY <1>1, <1>8 DEF Leaves
  <2>4. QED
    BY <1>1, <1>8, <2>1, <2>2, <2>3 DEF Leaves, db
<1>9. ASSUME Manages
      PROVE  Types
  BY <1>1, <1>9 DEF Manages
<1>10. ASSUME NEW c \in Campaigns, DeleteCampaign(c)
       PROVE  Types
  BY <1>1, <1>10 DEF DeleteCampaign
<1>11. Types
  BY <1>2, <1>3, <1>4, <1>6, <1>7, <1>8, <1>9, <1>10 DEF StepKind
<1>12. QED
  BY <1>11 DEF StepKind, TypeInv, TypeOK

(* A step of a worker: what the others are doing does not change.          *)
LEMMA Elsewhere ==
  ASSUME TypeInv, NEW w \in Workers,
         \/ \E r \in Runs : Begins(w, r)
         \/ Calls(w) \/ Counts(w) \/ Returns(w) \/ Leaves(w)
  PROVE  \A v \in Workers \ {w} : at'[v] = at[v]
<1>1. CASE Calls(w) \/ Counts(w)
  BY <1>1, InsideFacts
<1>2. CASE (\E r \in Runs : Begins(w, r)) \/ Returns(w) \/ Leaves(w)
  BY <1>2 DEF TypeInv, Begins, Returns, Return, Leaves
<1>3. QED
  BY <1>1, <1>2

(* What a worker that returns from a node is doing then.                   *)
LEMMA ReturnFacts ==
  ASSUME TypeInv, PositionsInv, NEW w \in Workers, Returns(w)
  PROVE  /\ at[w] # Idle /\ RunAt(w) \in Runs /\ CampaignAt(w) \in Campaigns
         /\ ckpt' = [ckpt EXCEPT ![RunAt(w)] = Position(w)]
         /\ at'[w].tried = 0 /\ at'[w].slots = {}
         /\ \E c \in Checkpoints :
              /\ c.next # "ingest" /\ Clean(RunAt(w), c)
              /\ RunAt(w)' = RunAt(w) /\ at'[w].next = c.next /\ at'[w].state = c.state
<1>1. PICK c \in Checkpoints : /\ c.next # "ingest" /\ Clean(RunAt(w), c)
                               /\ Return(w, c.state, c.next)
  BY DEF Returns
<1>2. at[w] # Idle /\ at[w] \in Busy /\ RunAt(w) \in Runs /\ CampaignAt(w) \in Campaigns
  BY WorkerTypes DEF Returns
<1>3. at'[w] = [at[w] EXCEPT !.state = c.state, !.next = c.next, !.stage = "start",
                             !.tried = 0, !.slots = {}]
  BY <1>1 DEF Return, TypeInv
<1>4. /\ at'[w].run = at[w].run /\ at'[w].next = c.next /\ at'[w].state = c.state
      /\ at'[w].tried = 0 /\ at'[w].slots = {}
  BY <1>2, <1>3 DEF Busy
<1>5. QED
  BY <1>1, <1>2, <1>4 DEF RunAt, Return

LEMMA DispatchStep == ASSUME PipelineInv, StepKind PROVE DispatchInv'
<1> USE DEF PipelineInv
<1>1. /\ task \in [Runs -> {"none", "queued", "taken", "acked"}]
      /\ ckpt \in [Runs -> Checkpoints] /\ at \in [Workers -> Busy \cup {Idle}]
      /\ rows \subseteq Rows
  BY DEF TypeInv, TypeOK
<1>2. /\ \A r \in Runs : task[r] = "none" => ckpt[r].next = "ingest"
      /\ \A w \in Workers : at[w] # Idle => task[RunAt(w)] # "none" /\ RunAt(w) \in Runs
      /\ \A x \in rows : task[x.run] # "none" /\ x.run \in Runs
  BY <1>1, WorkerTypes DEF DispatchInv, Rows
<1>3. ASSUME NEW r \in Runs, Dispatch(r)
      PROVE  DispatchInv'
  BY <1>1, <1>2, <1>3 DEF Dispatch, DispatchInv, RunAt, db
<1>4. ASSUME NEW w \in Workers, NEW r \in Runs, Begins(w, r)
      PROVE  DispatchInv'
  <2>1. PICK c \in Written(r) : /\ ckpt' = [ckpt EXCEPT ![r] = c]
                                /\ at' = [at EXCEPT ![w] = Resume(r, c)]
    BY <1>4 DEF Begins
  <2>2. task[r] # "none" /\ task' = [task EXCEPT ![r] = "taken"] /\ rows' = rows
    BY <1>4 DEF Begins, db
  <2>3. \A q \in Runs : task'[q] = "none" => q # r /\ task[q] = "none" /\ ckpt'[q] = ckpt[q]
    BY <1>1, <2>1, <2>2
  <2>4. \A v \in Workers : at'[v] # Idle => task'[RunAt(v)'] # "none"
    <3>1. RunAt(w)' = r
      BY <1>1, <2>1 DEF RunAt, Resume
    <3>2. \A v \in Workers \ {w} : at'[v] = at[v] /\ RunAt(v)' = RunAt(v)
      BY <1>1, <2>1 DEF RunAt
    <3>3. QED
      BY <1>1, <1>2, <2>2, <3>1, <3>2
  <2>5. QED
    BY <1>1, <1>2, <2>2, <2>3, <2>4 DEF DispatchInv
<1>5. ASSUME NEW w \in Workers, Returns(w)
      PROVE  /\ \A q \in Runs : task'[q] = "none" => ckpt'[q].next = "ingest"
             /\ \A v \in Workers : at'[v] # Idle => task'[RunAt(v)'] # "none"
  <2>1. /\ at[w] # Idle /\ RunAt(w) \in Runs /\ RunAt(w)' = RunAt(w)
        /\ ckpt' = [ckpt EXCEPT ![RunAt(w)] = Position(w)]
    BY <1>5, ReturnFacts
  <2>2. task' = task /\ \A v \in Workers \ {w} : at'[v] = at[v] /\ RunAt(v)' = RunAt(v)
    BY <1>5, Elsewhere DEF Returns, RunAt
  <2>3. QED
    BY <1>1, <1>2, <2>1, <2>2
<1>6. ASSUME NEW w \in Workers, Moves(w)
      PROVE  DispatchInv'
  BY <1>2, <1>5, <1>6 DEF Moves, Returns, db, DispatchInv
<1>7. ASSUME NEW w \in Workers, Persists(w)
      PROVE  DispatchInv'
  <2>1. at[w] # Idle /\ task' = task
    BY <1>7 DEF Persists, Returns
  <2>2. PICK new : Adds(w, new)
    BY <1>7, <2>1, PersistFacts DEF Persists
  <2>3. \A x \in rows' : task'[x.run] # "none"
    BY <1>2, <2>1, <2>2 DEF Adds
  <2>4. QED
    BY <1>5, <1>7, <2>3 DEF Persists, DispatchInv
<1>8. ASSUME NEW w \in Workers, Calls(w) \/ Counts(w)
      PROVE  DispatchInv'
  <2>1. /\ at[w] # Idle /\ RunAt(w)' = RunAt(w)
        /\ \A v \in Workers \ {w} : at'[v] = at[v] /\ RunAt(v)' = RunAt(v)
        /\ UNCHANGED <<db, task, ckpt>>
    BY <1>8, InsideFacts
  <2>2. QED
    BY <1>2, <2>1 DEF DispatchInv, db
<1>9. ASSUME NEW w \in Workers, Leaves(w)
      PROVE  DispatchInv'
  <2>1. PICK t \in {"queued", "acked"} : task' = [task EXCEPT ![RunAt(w)] = t]
    BY <1>9 DEF Leaves
  <2>2. PICK c \in Checkpoints : ckpt' = [ckpt EXCEPT ![RunAt(w)] = c]
    BY <1>9 DEF Leaves
  <2>3. RunAt(w) \in Runs /\ rows' = rows
    BY <1>2, <1>9 DEF Leaves, db
  <2>4. \A q \in Runs : task'[q] = "none" => task[q] = "none" /\ ckpt'[q] = ckpt[q]
    BY <1>1, <2>1, <2>2
  <2>5. \A q \in Runs : task[q] # "none" => task'[q] # "none"
    BY <1>1, <2>1
  <2>6. \A v \in Workers : at'[v] # Idle => at[v] # Idle /\ RunAt(v)' = RunAt(v)
    BY <1>1, <1>9 DEF Leaves, RunAt
  <2>7. QED
    BY <1>2, <2>3, <2>4, <2>5, <2>6 DEF DispatchInv
<1>10. ASSUME Manages \/ \E c \in Campaigns : DeleteCampaign(c)
       PROVE  DispatchInv'
  BY <1>2, <1>10 DEF Manages, DeleteCampaign, DispatchInv, RunAt
<1>11. QED
  BY <1>3, <1>4, <1>6, <1>7, <1>8, <1>9, <1>10 DEF StepKind

LEMMA HistoryStep == ASSUME PipelineInv, StepKind PROVE HistoryInv'
<1> USE DEF PipelineInv
<1>1. /\ campaign \in [Campaigns -> {"ACTIVE", "PAUSED", "DELETED"}]
      /\ rows \subseteq Rows
      /\ before \in [Runs -> [rows : SUBSET Rows, posted : SUBSET Posts]]
      /\ \A r \in Runs : \A x \in before[r].rows : x.campaign \in Campaigns
  BY DEF TypeInv, TypeOK, Rows
<1>2. ASSUME NEW r \in Runs, Dispatch(r)
      PROVE  HistoryInv'
  <2>1. \A q \in Runs \ {r} : before'[q] = before[q]
    BY <1>1, <1>2 DEF Dispatch
  <2>2. before'[r] = [rows |-> rows, posted |-> posted]
    BY <1>1, <1>2 DEF Dispatch
  <2>3. QED
    BY <1>2, <2>1, <2>2 DEF Dispatch, db, HistoryInv
<1>3. ASSUME UNCHANGED <<db, before>>
      PROVE  HistoryInv'
  BY <1>3 DEF db, HistoryInv
<1>4. ASSUME NEW w \in Workers, Persists(w)
      PROVE  HistoryInv'
  <2>1. at[w] # Idle /\ UNCHANGED <<campaign, posted, before>>
    BY <1>4 DEF Persists, Returns, PersistGate
  <2>2. PICK new : Adds(w, new)
    BY <1>4, <2>1, PersistFacts DEF Persists
  <2>3. \A x \in rows' : campaign[x.campaign] # "DELETED" /\ x.campaign = CampaignOf[x.run]
    BY <2>2 DEF Adds, HistoryInv, CampaignAt
  <2>4. rows \subseteq rows'
    BY <2>2 DEF Adds
  <2>5. QED
    BY <2>1, <2>3, <2>4 DEF HistoryInv
<1>5. ASSUME Manages
      PROVE  HistoryInv'
  <2>1. \A x \in rows : x.campaign \in Campaigns
    BY <1>1 DEF Rows
  <2>2. QED
    BY <1>1, <1>5, <2>1 DEF Manages, HistoryInv
<1>6. ASSUME NEW c \in Campaigns, DeleteCampaign(c)
      PROVE  HistoryInv'
  <2>1. /\ rows' = rows \ RowsOf(c) /\ campaign' = [campaign EXCEPT ![c] = "DELETED"]
        /\ posted' = posted /\ before' = before
    BY <1>6 DEF DeleteCampaign
  <2>2. \A x \in rows' : x \in rows /\ x.campaign # c
    BY <2>1 DEF RowsOf
  <2>3. \A x \in rows : x \in rows' \/ x.campaign = c
    BY <2>1 DEF RowsOf
  <2>4. campaign'[c] = "DELETED" /\ \A e \in Campaigns \ {c} : campaign'[e] = campaign[e]
    BY <1>1, <2>1
  <2>5. \A x \in rows : x.campaign \in Campaigns
    BY <1>1 DEF Rows
  <2>6. \A x \in rows' : campaign'[x.campaign] # "DELETED" /\ x.campaign = CampaignOf[x.run]
    BY <2>2, <2>4, <2>5 DEF HistoryInv
  <2>7. \A r \in Runs : \A x \in before[r].rows :
           x \in rows' \/ campaign'[x.campaign] = "DELETED"
    BY <1>1, <2>3, <2>4 DEF HistoryInv
  <2>8. QED
    BY <2>1, <2>6, <2>7 DEF HistoryInv
<1>7. ASSUME NEW w \in Workers, Calls(w) \/ Counts(w)
      PROVE  HistoryInv'
  BY <1>3, <1>7, InsideFacts
<1>8. QED
  BY <1>2, <1>3, <1>4, <1>5, <1>6, <1>7 DEF StepKind, Begins, Moves, Returns, Leaves

(* No step brings a row back that was there when a run was dispatched.     *)
LEMMA NothingComesBack ==
  ASSUME PipelineInv, StepKind, NEW r \in Runs
  PROVE  \A x \in before[r].rows : x \in rows' => x \in rows
<1> USE DEF PipelineInv
<1>1. ASSUME NEW w \in Workers, Persists(w), NEW x \in before[r].rows, x \in rows'
      PROVE  x \in rows
  <2>1. at[w] # Idle
    BY <1>1 DEF Persists, Returns
  <2>2. PICK new : Adds(w, new)
    BY <1>1, <2>1, PersistFacts DEF Persists
  <2>3. x \in rows \/ campaign[x.campaign] = "DELETED"
    BY <1>1 DEF HistoryInv
  <2>4. QED
    BY <1>1, <2>2, <2>3 DEF Adds
<1>2. ASSUME NEW w \in Workers, Persists(w)
      PROVE  \A x \in before[r].rows : x \in rows' => x \in rows
  BY <1>1, <1>2
<1>3. \A w \in Workers : Calls(w) \/ Counts(w) => rows' = rows
  BY InsideFacts DEF db
<1>4. (\E w \in Workers : Persists(w)) \/ rows' \subseteq rows
  BY <1>3 DEF StepKind, Dispatch, Begins, Moves, Returns, Leaves, Manages, DeleteCampaign, db
<1>5. QED
  BY <1>2, <1>4

LEMMA PositionsStep == ASSUME PipelineInv, StepKind PROVE PositionsInv'
<1> USE DEF PipelineInv
<1>1. /\ task \in [Runs -> {"none", "queued", "taken", "acked"}]
      /\ ckpt \in [Runs -> Checkpoints] /\ at \in [Workers -> Busy \cup {Idle}]
      /\ before \in [Runs -> [rows : SUBSET Rows, posted : SUBSET Posts]]
  BY DEF TypeInv, TypeOK
<1>2. ASSUME NEW r \in Runs, NEW c, Clean(r, c), before'[r] = before[r]
      PROVE  Clean(r, c)'
  BY <1>2, CleanKept, NothingComesBack
<1>3. ASSUME NEW v \in Workers, at[v] # Idle, at'[v] = at[v],
             before'[RunAt(v)] = before[RunAt(v)]
      PROVE  Clean(RunAt(v), Position(v))'
  <2>1. PICK r \in Runs : r = RunAt(v)
    BY <1>3, WorkerTypes
  <2>2. PICK c \in Checkpoints : c = Position(v)
    BY <1>3, WorkerTypes
  <2>3. Clean(r, c)
    BY <1>3, <2>1, <2>2 DEF PositionsInv
  <2>4. Clean(r, c)'
    BY <1>2, <1>3, <2>1, <2>3
  <2>5. RunAt(v)' = r /\ Position(v)' = c
    BY <1>3, <2>1, <2>2 DEF RunAt, Position, StateAt
  <2>6. QED
    BY <2>4, <2>5 DEF Clean
<1>4. ASSUME NEW q \in Runs, before'[q] = before[q], ckpt'[q] = ckpt[q]
      PROVE  Clean(q, ckpt[q])'
  <2>1. PICK c \in Checkpoints : c = ckpt[q]
    BY <1>1
  <2>2. Clean(q, c)'
    BY <1>2, <1>4, <2>1 DEF PositionsInv
  <2>3. QED
    BY <1>4, <2>1, <2>2 DEF Clean
<1>5. ASSUME NEW q \in Runs, NEW c, Clean(q, c), before'[q] = before[q], ckpt'[q] = c
      PROVE  Clean(q, ckpt[q])'
  <2>1. Clean(q, c)'
    BY <1>2, <1>5
  <2>2. QED
    BY <1>5, <2>1 DEF Clean
<1>6. ASSUME NEW v \in Workers, NEW r \in Runs, NEW c, Clean(r, c), before'[r] = before[r],
             RunAt(v)' = r, at'[v].next = c.next, at'[v].state = c.state
      PROVE  Clean(RunAt(v), Position(v))'
  <2>1. Clean(r, c)'
    BY <1>2, <1>6
  <2>2. Position(v)'.next = c.next /\ Position(v)'.state = c.state
    BY <1>6 DEF Position, StateAt
  <2>3. QED
    BY <1>6, <2>1, <2>2 DEF Clean
<1>7. ASSUME NEW r \in Runs, Dispatch(r)
      PROVE  PositionsInv'
  <2>1. /\ task[r] = "none" /\ ckpt' = ckpt /\ at' = at
        /\ \A q \in Runs \ {r} : before'[q] = before[q]
    BY <1>1, <1>7 DEF Dispatch
  <2>2. Clean(r, ckpt[r])'
    <3>1. Content(ckpt[r].state) = {}
      BY <2>1 DEF DispatchInv, PositionsInv, Clean
    <3>2. QED
      BY <2>1, <3>1 DEF Clean
  <2>3. \A q \in Runs : Clean(q, ckpt[q])'
    BY <1>4, <2>1, <2>2
  <2>4. \A v \in Workers : at'[v] # Idle => Clean(RunAt(v), Position(v))'
    <3>1. SUFFICES ASSUME NEW v \in Workers, at[v] # Idle
                   PROVE  Clean(RunAt(v), Position(v))'
      BY <2>1
    <3>2. RunAt(v) \in Runs \ {r}
      BY <2>1, <3>1, WorkerTypes DEF DispatchInv
    <3>3. QED
      BY <1>3, <2>1, <3>1, <3>2
  <2>5. QED
    BY <2>3, <2>4 DEF PositionsInv
<1>8. ASSUME NEW w \in Workers, NEW r \in Runs, Begins(w, r)
      PROVE  PositionsInv'
  <2>1. PICK c \in Written(r) : /\ ckpt' = [ckpt EXCEPT ![r] = c]
                                /\ at' = [at EXCEPT ![w] = Resume(r, c)]
    BY <1>8 DEF Begins
  <2>2. Clean(r, c) /\ before' = before
    BY <1>8, WrittenFacts DEF Begins
  <2>3. ckpt'[r] = c /\ \A q \in Runs \ {r} : ckpt'[q] = ckpt[q]
    BY <1>1, <2>1
  <2>4. \A q \in Runs : Clean(q, ckpt[q])'
    BY <1>4, <1>5, <2>2, <2>3
  <2>5. at'[w] = Resume(r, c) /\ \A v \in Workers \ {w} : at'[v] = at[v]
    BY <1>1, <2>1
  <2>6. Clean(RunAt(w), Position(w))'
    BY <1>6, <2>2, <2>5 DEF Resume, RunAt
  <2>7. \A v \in Workers \ {w} : at'[v] # Idle => Clean(RunAt(v), Position(v))'
    BY <1>3, <2>2, <2>5
  <2>8. QED
    BY <2>4, <2>6, <2>7 DEF PositionsInv
<1>9. ASSUME NEW w \in Workers, Returns(w)
      PROVE  PositionsInv'
  <2>1. PICK c \in Checkpoints :
          /\ Clean(RunAt(w), c)
          /\ RunAt(w)' = RunAt(w) /\ at'[w].next = c.next /\ at'[w].state = c.state
    BY <1>9, ReturnFacts
  <2>2. /\ at[w] # Idle /\ RunAt(w) \in Runs /\ Clean(RunAt(w), Position(w))
        /\ ckpt' = [ckpt EXCEPT ![RunAt(w)] = Position(w)] /\ before' = before
    BY <1>9, ReturnFacts, HeldClean DEF Returns
  <2>3. ckpt'[RunAt(w)] = Position(w) /\ \A q \in Runs \ {RunAt(w)} : ckpt'[q] = ckpt[q]
    BY <1>1, <2>2
  <2>4. PICK r \in Runs, p \in Checkpoints : r = RunAt(w) /\ p = Position(w)
    BY <2>2, WorkerTypes
  <2>5. \A q \in Runs : Clean(q, ckpt[q])'
    BY <1>4, <1>5, <2>2, <2>3, <2>4
  <2>6. Clean(RunAt(w), Position(w))'
    BY <1>6, <2>1, <2>2, <2>4
  <2>7. \A v \in Workers \ {w} : at'[v] # Idle => Clean(RunAt(v), Position(v))'
    BY <1>3, <1>9, <2>2, Elsewhere
  <2>8. QED
    BY <2>5, <2>6, <2>7 DEF PositionsInv
<1>10. ASSUME NEW w \in Workers, Calls(w) \/ Counts(w)
       PROVE  PositionsInv'
  <2>1. /\ at[w] # Idle /\ UNCHANGED <<ckpt, before>> /\ RunAt(w)' = RunAt(w)
        /\ at'[w].next = at[w].next /\ at'[w].state = at[w].state
    BY <1>10, InsideFacts
  <2>2. PICK r \in Runs, p \in Checkpoints : r = RunAt(w) /\ p = Position(w)
    BY <2>1, WorkerTypes
  <2>3. p.next = at[w].next /\ p.state = at[w].state
    BY <2>1, <2>2, WorkerTypes DEF StateAt
  <2>4. Clean(r, p) /\ before' = before
    BY <2>1, <2>2, HeldClean
  <2>5. Clean(RunAt(w), Position(w))'
    BY <1>6, <2>1, <2>2, <2>3, <2>4
  <2>6. \A v \in Workers \ {w} : at'[v] # Idle => Clean(RunAt(v), Position(v))'
    BY <1>3, <1>10, <2>1, Elsewhere
  <2>7. QED
    BY <1>4, <2>1, <2>5, <2>6 DEF PositionsInv
<1>11. ASSUME NEW w \in Workers, Leaves(w)
       PROVE  PositionsInv'
  <2>1. PICK c \in Checkpoints : Clean(RunAt(w), c) /\ ckpt' = [ckpt EXCEPT ![RunAt(w)] = c]
    BY <1>11 DEF Leaves
  <2>2. at[w] # Idle /\ RunAt(w) \in Runs /\ before' = before
    BY <1>11, WorkerTypes DEF Leaves
  <2>3. ckpt'[RunAt(w)] = c /\ \A q \in Runs \ {RunAt(w)} : ckpt'[q] = ckpt[q]
    BY <1>1, <2>1, <2>2
  <2>4. PICK r \in Runs : r = RunAt(w)
    BY <2>2
  <2>5. \A q \in Runs : Clean(q, ckpt[q])'
    BY <1>4, <1>5, <2>1, <2>2, <2>3, <2>4
  <2>6. at'[w] = Idle
    BY <1>1, <1>11 DEF Leaves
  <2>7. \A v \in Workers \ {w} : at'[v] # Idle => Clean(RunAt(v), Position(v))'
    BY <1>3, <1>11, <2>2, Elsewhere
  <2>8. QED
    BY <2>5, <2>6, <2>7 DEF PositionsInv
<1>12. ASSUME UNCHANGED <<ckpt, at, before>>
       PROVE  PositionsInv'
  BY <1>3, <1>4, <1>12 DEF PositionsInv
<1>13. QED
  BY <1>7, <1>8, <1>9, <1>10, <1>11, <1>12
  DEF StepKind, Moves, Persists, Manages, DeleteCampaign

LEMMA RowsStep == ASSUME PipelineInv, StepKind PROVE RowsInv'
<1> USE DEF PipelineInv
<1>1. /\ rows \subseteq Rows /\ \A x \in rows : x.run \in Runs
      /\ before \in [Runs -> [rows : SUBSET Rows, posted : SUBSET Posts]]
  BY DEF TypeInv, TypeOK, Rows
<1>2. /\ \A x \in rows : x.post \in Feed[x.run] \cap Relevant[x.campaign]
      /\ \A x \in rows : x.post \notin before[x.run].posted
      /\ \A x, y \in rows : (x.post = y.post /\ x # y) => x \notin before[y.run].rows
  BY DEF RowsInv, OnlyPolledPostsAreDrafted, PostedIsLeftAlone, DedupAcrossPolls
<1>3. ASSUME rows' \subseteq rows, \A x \in rows : before'[x.run] = before[x.run]
      PROVE  RowsInv'
  BY <1>2, <1>3 DEF RowsInv, OnlyPolledPostsAreDrafted, PostedIsLeftAlone, DedupAcrossPolls
<1>4. ASSUME NEW r \in Runs, Dispatch(r)
      PROVE  RowsInv'
  <2>1. \A x \in rows : x.run # r
    BY <1>4 DEF Dispatch, DispatchInv
  <2>2. \A q \in Runs \ {r} : before'[q] = before[q]
    BY <1>1, <1>4 DEF Dispatch
  <2>3. QED
    BY <1>1, <1>3, <1>4, <2>1, <2>2 DEF Dispatch, db
<1>5. ASSUME NEW w \in Workers, Persists(w)
      PROVE  RowsInv'
  <2>1. /\ at[w] # Idle /\ at[w].next = "persist_gate" /\ before' = before
        /\ RunAt(w) \in Runs
    BY <1>5, WorkerTypes DEF Persists, Returns, PersistGate, IsAt
  <2>2. PICK new : Adds(w, new)
    BY <1>5, <2>1, PersistFacts DEF Persists
  <2>3. Clean(RunAt(w), Position(w)) /\ Position(w).next # "prefilter"
        /\ Position(w).state = StateAt(w)
    BY <2>1, HeldClean, WorkerTypes
  <2>4. \A x \in new :
          /\ x.run = RunAt(w) /\ x.campaign = CampaignOf[x.run]
          /\ x.post \in Content(StateAt(w)) /\ x \notin rows
          /\ campaign[x.campaign] # "DELETED"
    BY <2>2 DEF Adds, CampaignAt
  <2>5. \A x \in new : /\ x.post \in Feed[x.run] \cap Relevant[x.campaign]
                        /\ x.post \notin before[x.run].posted
    BY <2>3, <2>4 DEF Clean
  <2>6. \A x \in rows, y \in new : x.post = y.post => x \notin before[y.run].rows
    BY <2>3, <2>4 DEF Clean
  <2>7. \A x \in new : \A r \in Runs : x \notin before[r].rows
    BY <2>4 DEF HistoryInv
  <2>8. \A y \in rows' : y.run \in Runs
    BY <1>1, <2>1, <2>2, <2>4 DEF Adds
  <2>9. \A x, y \in rows' : (x.post = y.post /\ x # y) => x \notin before[y.run].rows
    BY <1>2, <2>2, <2>6, <2>7, <2>8 DEF Adds
  <2>10. \A x \in rows' : /\ x.post \in Feed[x.run] \cap Relevant[x.campaign]
                          /\ x.post \notin before[x.run].posted
    BY <1>2, <2>2, <2>5 DEF Adds
  <2>11. QED
    BY <2>1, <2>9, <2>10
    DEF RowsInv, OnlyPolledPostsAreDrafted, PostedIsLeftAlone, DedupAcrossPolls
<1>6. ASSUME NEW w \in Workers, Calls(w) \/ Counts(w)
      PROVE  RowsInv'
  BY <1>3, <1>6, InsideFacts DEF db
<1>7. QED
  BY <1>3, <1>4, <1>5, <1>6
  DEF StepKind, Begins, Moves, Returns, Leaves, Manages, DeleteCampaign, db

LEMMA SlotStep == ASSUME PipelineInv, StepKind PROVE SlotInv'
<1> USE DEF PipelineInv
<1>1. /\ IsFiniteSet(rows) /\ rows \subseteq Rows
      /\ \A x, y \in rows : x.campaign = y.campaign /\ x.post = y.post => x = y
      /\ \A v \in Workers : Holds(v)
      /\ \A c \in Campaigns :
            /\ IsFiniteSet(HeldSlots(c)) /\ Cardinality(HeldSlots(c)) \in Nat
            /\ IsFiniteSet(RowsOf(c)) /\ Cardinality(RowsOf(c)) \in Nat
            /\ Cardinality(RowsOf(c)) + Cardinality(HeldSlots(c)) <= used[c]
            /\ campaign[c] # "DELETED" =>
                  used[c] <= Cardinality(RowsOf(c)) + Cardinality(HeldSlots(c))
                               + faults * MaxSelections
      /\ used \in [Campaigns -> Nat] /\ at \in [Workers -> Busy \cup {Idle}]
      /\ campaign \in [Campaigns -> {"ACTIVE", "PAUSED", "DELETED"}]
  <2>1. \A c \in Campaigns : IsFiniteSet(RowsOf(c))
    BY FS_Subset DEF SlotInv, RowsOf
  <2>2. QED
    BY <2>1, FS_CardinalityType DEF SlotInv, Claimed, TypeInv, TypeOK
<1> DEFINE Fits(c) ==
             /\ IsFiniteSet(HeldSlots(c)')
             /\ Cardinality(RowsOf(c)') + Cardinality(HeldSlots(c)') <= used'[c]
             /\ campaign'[c] # "DELETED" =>
                   used'[c] <= Cardinality(RowsOf(c)') + Cardinality(HeldSlots(c)')
                                 + faults' * MaxSelections
<1>2. /\ faults * MaxSelections \in Nat /\ MaxSelections \in Nat
      /\ faults' * MaxSelections \in
            {faults * MaxSelections, faults * MaxSelections + MaxSelections}
      /\ faults' = faults + 1 =>
            faults' * MaxSelections = faults * MaxSelections + MaxSelections
  <2>1. faults \in Nat /\ MaxSelections \in Nat /\ faults' \in {faults, faults + 1}
    BY PipelineAssumption DEF TypeInv, TypeOK, StepKind
  <2>2. /\ faults * MaxSelections \in Nat
        /\ (faults + 1) * MaxSelections = faults * MaxSelections + MaxSelections
    BY <2>1
  <2>3. QED
    BY <2>1, <2>2
<1>3. ASSUME rows' = rows, \A v \in Workers : Holds(v)', \A c \in Campaigns : Fits(c)
      PROVE  SlotInv'
  BY <1>1, <1>3 DEF SlotInv, Claimed
<1>4. ASSUME NEW c \in Campaigns, RowsOf(c)' = RowsOf(c),
             campaign'[c] # "DELETED" => campaign[c] # "DELETED", IsFiniteSet(HeldSlots(c)'),
             used'[c] - Cardinality(HeldSlots(c)') = used[c] - Cardinality(HeldSlots(c)),
             used'[c] \in Nat
      PROVE  Fits(c)
  <2>1. Cardinality(HeldSlots(c)') \in Nat
    BY <1>4, FS_CardinalityType
  <2>2. QED
    BY <1>1, <1>2, <1>4, <2>1
<1>5. ASSUME NEW w \in Workers, \A v \in Workers \ {w} : at'[v] = at[v], Holds(w)'
      PROVE  \A v \in Workers : Holds(v)'
  BY <1>1, <1>5 DEF Holds
<1>6. ASSUME NEW w \in Workers, \A v \in Workers \ {w} : at'[v] = at[v],
             at[w] = Idle \/ at[w].slots = {},
             at'[w] = Idle \/ at'[w].slots = {}, Holds(w)', UNCHANGED <<rows, campaign, used>>
      PROVE  SlotInv'
  <2>1. \A c \in Campaigns : HeldSlots(c)' = HeldSlots(c) /\ RowsOf(c)' = RowsOf(c)
    BY <1>6, HeldSame DEF RowsOf
  <2>2. \A c \in Campaigns : Fits(c)
    BY <1>1, <1>4, <1>6, <2>1
  <2>3. QED
    BY <1>3, <1>5, <1>6, <2>2
<1>7. ASSUME NEW w \in Workers, NEW r \in Runs, Begins(w, r)
      PROVE  SlotInv'
  <2>1. PICK c \in Written(r) : at' = [at EXCEPT ![w] = Resume(r, c)]
    BY <1>7 DEF Begins
  <2>2. at'[w] = Resume(r, c) /\ \A v \in Workers \ {w} : at'[v] = at[v]
    BY <1>1, <2>1
  <2>3. at'[w].slots = {} /\ Holds(w)'
    BY <2>2 DEF Resume, Holds
  <2>4. at[w] = Idle /\ UNCHANGED <<rows, campaign, used>>
    BY <1>7 DEF Begins, db
  <2>5. QED
    BY <1>6, <2>2, <2>3, <2>4
<1>8. ASSUME NEW w \in Workers, Calls(w)
      PROVE  SlotInv'
  <2>1. /\ at[w] # Idle /\ UNCHANGED <<rows, campaign>> /\ at'[w].next = at[w].next
        /\ \A v \in Workers \ {w} : at'[v] = at[v]
    BY <1>8, InsideFacts DEF db
  <2>2. used' = used /\ at'[w].tried = at[w].tried /\ at'[w].slots = at[w].slots
        /\ at[w].next = "ingest"
    BY <1>8, CallFacts
  <2>3. at[w].slots = {} /\ at[w].tried = 0
    BY <2>1, <2>2, HoldsNothing
  <2>4. Holds(w)'
    BY <2>2, <2>3 DEF Holds
  <2>5. QED
    BY <1>6, <2>1, <2>2, <2>3, <2>4
<1>9. ASSUME NEW w \in Workers, Moves(w)
      PROVE  SlotInv'
  <2>1. at'[w].tried = 0 /\ at'[w].slots = {}
    BY <1>9, ReturnFacts DEF Moves
  <2>2. \A v \in Workers \ {w} : at'[v] = at[v]
    BY <1>9, Elsewhere DEF Moves
  <2>3. at[w].slots = {}
    BY <1>9, HoldsNothing DEF Moves, Returns
  <2>4. QED
    BY <1>6, <1>9, <2>1, <2>2, <2>3 DEF Moves, db, Holds
<1>10. ASSUME NEW w \in Workers, Counts(w)
       PROVE  SlotInv'
  <2>1. /\ UNCHANGED <<rows, campaign>> /\ \A v \in Workers \ {w} : at'[v] = at[v]
    BY <1>10, InsideFacts DEF db
  <2>2. \A c \in Campaigns : Fits(c)
    BY <1>4, <1>10, <2>1, CountFacts DEF RowsOf
  <2>3. Holds(w)'
    BY <1>10, CountFacts
  <2>4. QED
    BY <1>3, <1>5, <2>1, <2>2, <2>3
<1>11. ASSUME NEW w \in Workers, Leaves(w)
       PROVE  SlotInv'
  <2>1. /\ at[w] # Idle /\ at'[w] = Idle /\ UNCHANGED <<rows, campaign, used>>
        /\ at[w].slots = {} \/ faults' = faults + 1
    BY <1>1, <1>11 DEF Leaves, db
  <2>2. \A v \in Workers \ {w} : at'[v] = at[v]
    BY <1>11, Elsewhere
  <2>3. Holds(w)'
    BY <2>1 DEF Holds
  <2>4. CASE at[w].slots = {}
    BY <1>6, <2>1, <2>2, <2>3, <2>4
  <2>5. CASE faults' = faults + 1
    <3>1. ASSUME NEW c \in Campaigns
          PROVE  Fits(c)
      <4>1. RowsOf(c)' = RowsOf(c)
        BY <2>1 DEF RowsOf
      <4>2. CASE c # CampaignAt(w)
        <5>1. HeldSlots(c)' = HeldSlots(c)
          BY <2>1, <2>2, <4>2, HeldDropped
        <5>2. QED
          BY <1>1, <1>4, <2>1, <4>1, <5>1
      <4>3. CASE c = CampaignAt(w)
        <5>1. /\ IsFiniteSet(HeldSlots(c)') /\ Cardinality(at[w].slots) \in 0 .. MaxSelections
              /\ Cardinality(HeldSlots(c)) =
                    Cardinality(HeldSlots(c)') + Cardinality(at[w].slots)
          BY <2>1, <2>2, <4>3, HeldDropped
        <5>2. Cardinality(HeldSlots(c)') \in Nat
          BY <5>1, FS_CardinalityType
        <5>3. QED
          BY <1>1, <1>2, <2>1, <2>5, <4>1, <5>1, <5>2
      <4>4. QED
        BY <4>2, <4>3
    <3>2. QED
      BY <1>3, <1>5, <2>1, <2>2, <2>3, <3>1
  <2>6. QED
    BY <2>1, <2>4, <2>5
<1>12. ASSUME NEW w \in Workers, Persists(w)
       PROVE  SlotInv'
  <2>1. /\ at[w] # Idle /\ UNCHANGED <<campaign, used>>
        /\ at'[w].slots = {} /\ at'[w].tried = 0
    BY <1>12, ReturnFacts DEF Persists, Returns, PersistGate
  <2>2. PICK new : Adds(w, new)
    BY <1>12, <2>1, PersistFacts DEF Persists
  <2>3. /\ rows' = rows \cup new /\ IsFiniteSet(new)
        /\ Cardinality(new) = Cardinality(at[w].slots)
        /\ \A x \in new : /\ x.campaign = CampaignAt(w)
                           /\ \A y \in rows : y.campaign = x.campaign => y.post # x.post
        /\ \A x, y \in new : x.post = y.post => x = y
    BY <2>2 DEF Adds
  <2>4. IsFiniteSet(rows')
    BY <1>1, <2>3, FS_Union
  <2>5. \A x, y \in rows' : x.campaign = y.campaign /\ x.post = y.post => x = y
    BY <1>1, <2>3
  <2>6. \A v \in Workers \ {w} : at'[v] = at[v]
    BY <1>12, Elsewhere DEF Persists
  <2>7. ASSUME NEW c \in Campaigns
        PROVE  Fits(c)
    <3>1. CASE c # CampaignAt(w)
      <4>1. HeldSlots(c)' = HeldSlots(c)
        BY <2>1, <2>6, <3>1, HeldDropped
      <4>2. RowsOf(c)' = RowsOf(c)
        BY <2>3, <3>1 DEF RowsOf
      <4>3. QED
        BY <1>1, <1>4, <2>1, <4>1, <4>2
    <3>2. CASE c = CampaignAt(w)
      <4>1. /\ IsFiniteSet(HeldSlots(c)')
            /\ Cardinality(HeldSlots(c)) =
                  Cardinality(HeldSlots(c)') + Cardinality(at[w].slots)
        BY <2>1, <2>6, <3>2, HeldDropped
      <4>2. RowsOf(c)' = RowsOf(c) \cup new /\ RowsOf(c) \cap new = {}
        BY <2>3, <3>2 DEF RowsOf
      <4>3. Cardinality(RowsOf(c) \cup new) = Cardinality(RowsOf(c)) + Cardinality(new)
        BY <1>1, <2>3, <4>2, DisjointUnion
      <4>4. Cardinality(HeldSlots(c)') \in Nat /\ Cardinality(new) \in Nat
        BY <2>3, <4>1, FS_CardinalityType
      <4>5. QED
        BY <1>1, <1>2, <2>1, <2>3, <4>1, <4>2, <4>3, <4>4
    <3>3. QED
      BY <3>1, <3>2
  <2>8. \A v \in Workers : Holds(v)'
    BY <1>5, <2>1, <2>6 DEF Holds
  <2>9. QED
    BY <2>4, <2>5, <2>7, <2>8 DEF SlotInv, Claimed
<1>13. ASSUME UNCHANGED <<rows, used, at>>,
              \A c \in Campaigns : campaign'[c] # "DELETED" => campaign[c] # "DELETED"
       PROVE  SlotInv'
  <2>1. \A c \in Campaigns : HeldSlots(c)' = HeldSlots(c) /\ RowsOf(c)' = RowsOf(c)
    BY <1>13 DEF HeldSlots, CampaignAt, RunAt, RowsOf
  <2>2. \A c \in Campaigns : Fits(c)
    BY <1>1, <1>4, <1>13, <2>1
  <2>3. \A v \in Workers : Holds(v)'
    BY <1>1, <1>13 DEF Holds
  <2>4. QED
    BY <1>3, <1>13, <2>2, <2>3
<1>14. ASSUME NEW d \in Campaigns, DeleteCampaign(d)
       PROVE  SlotInv'
  <2>1. /\ rows' = rows \ RowsOf(d) /\ UNCHANGED <<used, at>> /\ campaign'[d] = "DELETED"
        /\ \A c \in Campaigns \ {d} : campaign'[c] = campaign[c]
    BY <1>1, <1>14 DEF DeleteCampaign
  <2>2. IsFiniteSet(rows')
    BY <1>1, <2>1, FS_Subset
  <2>3. \A c \in Campaigns : HeldSlots(c)' = HeldSlots(c)
    BY <2>1 DEF HeldSlots, CampaignAt, RunAt
  <2>4. ASSUME NEW c \in Campaigns \ {d}
        PROVE  Fits(c)
    <3>1. RowsOf(c)' = RowsOf(c)
      BY <2>1 DEF RowsOf
    <3>2. QED
      BY <1>1, <1>4, <2>1, <2>3, <3>1
  <2>5. Fits(d)
    <3>1. RowsOf(d)' = {}
      BY <2>1 DEF RowsOf
    <3>2. Cardinality(RowsOf(d)') = 0
      BY <3>1, FS_EmptySet
    <3>3. QED
      BY <1>1, <2>1, <2>3, <3>2
  <2>6. \A v \in Workers : Holds(v)'
    BY <1>1, <2>1 DEF Holds
  <2>7. QED
    BY <1>1, <2>1, <2>2, <2>4, <2>5, <2>6 DEF SlotInv, Claimed
<1>15. QED
  BY <1>7, <1>8, <1>9, <1>10, <1>11, <1>12, <1>13, <1>14
  DEF StepKind, Dispatch, Manages, db

LEMMA BillStep == ASSUME PipelineInv, StepKind PROVE BillInv'
<1> USE DEF PipelineInv
<1>1. /\ at \in [Workers -> Busy \cup {Idle}]
      /\ billed \in [Runs -> Nat] /\ fresh \in [Runs -> Nat]
      /\ \A r \in Runs :
            /\ IsFiniteSet(MayPost(r)) /\ Cardinality(MayPost(r)) \in Nat
            /\ IsFiniteSet(MayRepeat(r)) /\ Cardinality(MayRepeat(r)) \in Nat
            /\ billed[r] + Cardinality(MayPost(r)) + Cardinality(MayRepeat(r)) <= 2 * fresh[r]
  BY FS_CardinalityType DEF TypeInv, TypeOK, BillInv
<1> DEFINE Paid(r) ==
      /\ IsFiniteSet(MayPost(r)') /\ IsFiniteSet(MayRepeat(r)')
      /\ billed'[r] + Cardinality(MayPost(r)') + Cardinality(MayRepeat(r)') <= 2 * fresh'[r]
<1>2. ASSUME NEW S, IsFiniteSet(S), NEW T \in SUBSET S
      PROVE  /\ IsFiniteSet(T) /\ Cardinality(T) \in Nat
             /\ Cardinality(T) <= Cardinality(S)
  BY <1>2, FS_Subset, FS_CardinalityType
<1>3. ASSUME NEW S, IsFiniteSet(S), NEW w \in S, NEW T \in SUBSET (S \ {w})
      PROVE  /\ IsFiniteSet(T) /\ Cardinality(T) \in Nat
             /\ Cardinality(T) + 1 <= Cardinality(S)
  <2>1. IsFiniteSet(S \ {w}) /\ Cardinality(S \ {w}) = Cardinality(S) - 1
    BY <1>3, FS_RemoveElement
  <2>2. IsFiniteSet(T) /\ Cardinality(T) \in Nat /\ Cardinality(T) <= Cardinality(S \ {w})
    BY <1>2, <2>1
  <2>3. Cardinality(S) \in Nat
    BY <1>3, FS_CardinalityType
  <2>4. QED
    BY <2>1, <2>2, <2>3
<1>4. ASSUME NEW r \in Runs, MayPost(r)' \subseteq MayPost(r),
             MayRepeat(r)' \subseteq MayRepeat(r),
             billed'[r] = billed[r], fresh'[r] = fresh[r]
      PROVE  Paid(r)
  <2>1. /\ IsFiniteSet(MayPost(r)') /\ Cardinality(MayPost(r)') \in Nat
        /\ Cardinality(MayPost(r)') <= Cardinality(MayPost(r))
    BY <1>1, <1>2, <1>4
  <2>2. /\ IsFiniteSet(MayRepeat(r)') /\ Cardinality(MayRepeat(r)') \in Nat
        /\ Cardinality(MayRepeat(r)') <= Cardinality(MayRepeat(r))
    BY <1>1, <1>2, <1>4
  <2>3. QED
    BY <1>1, <1>4, <2>1, <2>2
<1>5. ASSUME NEW w \in Workers, \A v \in Workers \ {w} : at'[v] = at[v],
             NEW q \in Runs, NEW S
      PROVE  \A v \in Workers \ {w} : v \in AtIngest(q, S)' <=> v \in AtIngest(q, S)
  BY <1>5 DEF AtIngest, RunAt
<1>6. ASSUME NEW w \in Workers, \A v \in Workers \ {w} : at'[v] = at[v],
             at'[w] = Idle \/ at'[w].next # "ingest", NEW q \in Runs, NEW S
      PROVE  AtIngest(q, S)' \subseteq AtIngest(q, S) \ {w}
  <2>1. w \notin AtIngest(q, S)'
    BY <1>6 DEF AtIngest
  <2>2. \A v \in Workers \ {w} : v \in AtIngest(q, S)' <=> v \in AtIngest(q, S)
    BY <1>5, <1>6
  <2>3. \A v \in AtIngest(q, S)' : v \in Workers
    BY DEF AtIngest
  <2>4. QED
    BY <2>1, <2>2, <2>3
<1>7. ASSUME NEW w \in Workers, NEW r \in Runs, Begins(w, r), NEW q \in Runs
      PROVE  Paid(q)
  <2>1. PICK c \in Written(r) :
          /\ at' = [at EXCEPT ![w] = Resume(r, c)]
          /\ fresh' = [fresh EXCEPT ![r] = @ + IF c.next = "ingest" THEN 1 ELSE 0]
    BY <1>7 DEF Begins
  <2>2. billed' = billed /\ at'[w] = Resume(r, c) /\ \A v \in Workers \ {w} : at'[v] = at[v]
    BY <1>1, <1>7, <2>1 DEF Begins
  <2>3. ASSUME NEW S
        PROVE  AtIngest(q, S)' \subseteq AtIngest(q, S) \cup
                 (IF q = r /\ c.next = "ingest" THEN {w} ELSE {})
    <3>1. w \in AtIngest(q, S)' => q = r /\ c.next = "ingest"
      BY <2>2 DEF AtIngest, RunAt, Resume
    <3>2. \A v \in Workers \ {w} : v \in AtIngest(q, S)' <=> v \in AtIngest(q, S)
      BY <1>5, <2>2
    <3>3. \A v \in AtIngest(q, S)' : v \in Workers
      BY DEF AtIngest
    <3>4. QED
      BY <3>1, <3>2, <3>3
  <2>4. CASE q = r /\ c.next = "ingest"
    <3>1. fresh'[q] = fresh[q] + 1
      BY <1>1, <2>1, <2>4
    <3>2. MayPost(q)' \subseteq MayPost(q) \cup {w} /\ MayRepeat(q)' \subseteq MayRepeat(q) \cup {w}
      BY <2>3, <2>4 DEF MayPost, MayRepeat
    <3>3. /\ IsFiniteSet(MayPost(q)') /\ Cardinality(MayPost(q)') \in Nat
          /\ Cardinality(MayPost(q)') <= Cardinality(MayPost(q)) + 1
      BY <1>1, <3>2, OneMore
    <3>4. /\ IsFiniteSet(MayRepeat(q)') /\ Cardinality(MayRepeat(q)') \in Nat
          /\ Cardinality(MayRepeat(q)') <= Cardinality(MayRepeat(q)) + 1
      BY <1>1, <3>2, OneMore
    <3>5. QED
      BY <1>1, <2>2, <3>1, <3>3, <3>4
  <2>5. CASE ~(q = r /\ c.next = "ingest")
    <3>1. fresh'[q] = fresh[q]
      BY <1>1, <2>1, <2>5
    <3>2. MayPost(q)' \subseteq MayPost(q) /\ MayRepeat(q)' \subseteq MayRepeat(q)
      BY <2>3, <2>5 DEF MayPost, MayRepeat
    <3>3. QED
      BY <1>4, <2>2, <3>1, <3>2
  <2>6. QED
    BY <2>4, <2>5
<1>8. ASSUME NEW w \in Workers, Calls(w), NEW q \in Runs
      PROVE  Paid(q)
  <2>1. /\ at[w] # Idle /\ RunAt(w) \in Runs /\ RunAt(w)' = RunAt(w)
        /\ at[w].next = "ingest" /\ at'[w].next = "ingest" /\ at'[w] # Idle
        /\ fresh' = fresh /\ \A v \in Workers \ {w} : at'[v] = at[v]
    BY <1>8, InsideFacts, CallFacts
  <2>2. ASSUME NEW S
        PROVE  /\ w \in AtIngest(q, S)  <=> RunAt(w) = q /\ at[w].stage \in S
               /\ w \in AtIngest(q, S)' <=> RunAt(w) = q /\ at'[w].stage \in S
    BY <2>1 DEF AtIngest
  <2>3. ASSUME NEW S
        PROVE  /\ AtIngest(q, S)' \subseteq AtIngest(q, S) \cup {w}
               /\ AtIngest(q, S)' \subseteq Workers
    <3>1. \A v \in Workers \ {w} : v \in AtIngest(q, S)' <=> v \in AtIngest(q, S)
      BY <1>5, <2>1
    <3>2. AtIngest(q, S)' \subseteq Workers
      BY DEF AtIngest
    <3>3. QED
      BY <3>1, <3>2
  <2>4. CASE q # RunAt(w)
    <3>1. MayPost(q)' \subseteq MayPost(q) /\ MayRepeat(q)' \subseteq MayRepeat(q)
      BY <2>2, <2>3, <2>4 DEF MayPost, MayRepeat
    <3>2. billed'[q] = billed[q]
      BY <1>8, <2>4, CallFacts
    <3>3. QED
      BY <1>4, <2>1, <3>1, <3>2
  <2>5. CASE q = RunAt(w) /\ at[w].stage = "start" /\ at'[w].stage = "admitted" /\ billed' = billed
    <3>1. MayPost(q)' \subseteq MayPost(q) /\ MayRepeat(q)' \subseteq MayRepeat(q)
      BY <2>2, <2>3, <2>5 DEF MayPost, MayRepeat
    <3>2. QED
      BY <1>4, <2>1, <2>5, <3>1
  <2>6. CASE /\ q = RunAt(w) /\ at[w].stage \in {"admitted", "retrying"}
             /\ at'[w].stage = "polling" /\ billed'[q] = billed[q] + 1
    <3>1. w \in MayPost(q) /\ MayPost(q)' \subseteq MayPost(q) \ {w}
      BY <2>2, <2>3, <2>6 DEF MayPost
    <3>2. MayRepeat(q)' \subseteq MayRepeat(q)
      BY <2>2, <2>3, <2>6 DEF MayRepeat
    <3>3. /\ IsFiniteSet(MayPost(q)') /\ Cardinality(MayPost(q)') \in Nat
          /\ Cardinality(MayPost(q)') + 1 <= Cardinality(MayPost(q))
      BY <1>1, <1>3, <3>1
    <3>4. /\ IsFiniteSet(MayRepeat(q)') /\ Cardinality(MayRepeat(q)') \in Nat
          /\ Cardinality(MayRepeat(q)') <= Cardinality(MayRepeat(q))
      BY <1>1, <1>2, <3>2
    <3>5. QED
      BY <1>1, <2>1, <2>6, <3>3, <3>4
  <2>7. CASE /\ q = RunAt(w) /\ at[w].stage = "admitted" /\ at'[w].stage = "retrying"
             /\ billed'[q] \in {billed[q], billed[q] + 1}
    <3>1. w \in MayRepeat(q) /\ MayRepeat(q)' \subseteq MayRepeat(q) \ {w}
      BY <2>2, <2>3, <2>7 DEF MayRepeat
    <3>2. MayPost(q)' \subseteq MayPost(q)
      BY <2>2, <2>3, <2>7 DEF MayPost
    <3>3. /\ IsFiniteSet(MayRepeat(q)') /\ Cardinality(MayRepeat(q)') \in Nat
          /\ Cardinality(MayRepeat(q)') + 1 <= Cardinality(MayRepeat(q))
      BY <1>1, <1>3, <3>1
    <3>4. /\ IsFiniteSet(MayPost(q)') /\ Cardinality(MayPost(q)') \in Nat
          /\ Cardinality(MayPost(q)') <= Cardinality(MayPost(q))
      BY <1>1, <1>2, <3>2
    <3>5. QED
      BY <1>1, <2>1, <2>7, <3>3, <3>4
  <2>8. QED
    BY <1>8, <2>4, <2>5, <2>6, <2>7, CallFacts
<1>9. ASSUME NEW w \in Workers, Returns(w) \/ Leaves(w), NEW q \in Runs
      PROVE  /\ MayPost(q)' \subseteq MayPost(q) \ {w}
             /\ MayRepeat(q)' \subseteq MayRepeat(q) \ {w}
             /\ fresh' = fresh
  <2>1. at'[w] = Idle \/ at'[w].next # "ingest"
    <3>1. CASE Returns(w)
      BY <3>1, ReturnFacts
    <3>2. CASE Leaves(w)
      BY <1>1, <3>2 DEF Leaves
    <3>3. QED
      BY <1>9, <3>1, <3>2
  <2>2. \A v \in Workers \ {w} : at'[v] = at[v]
    BY <1>9, Elsewhere
  <2>3. QED
    BY <1>6, <1>9, <2>1, <2>2 DEF MayPost, MayRepeat, Returns, Leaves
<1>10. ASSUME NEW w \in Workers, Moves(w) \/ Persists(w) \/ Leaves(w), NEW q \in Runs
       PROVE  Paid(q)
  <2>1. /\ MayPost(q)' \subseteq MayPost(q) \ {w}
        /\ MayRepeat(q)' \subseteq MayRepeat(q) \ {w} /\ fresh' = fresh
    BY <1>9, <1>10 DEF Moves, Persists
  <2>2. CASE billed'[q] = billed[q]
    BY <1>4, <2>1, <2>2
  <2>3. CASE PostFails(w) /\ at[w].stage = "retrying" /\ billed'[q] # billed[q]
    <3>1. at[w] # Idle /\ at[w].next = "ingest"
      BY <2>3 DEF PostFails, AtStage, IsAt
    <3>2. RunAt(w) \in Runs
      BY <3>1, WorkerTypes
    <3>3. PICK n \in {0, 1} : billed' = [billed EXCEPT ![RunAt(w)] = @ + n]
      BY <2>3 DEF PostFails
    <3>4. q = RunAt(w) /\ billed'[q] = billed[q] + 1
      BY <1>1, <2>3, <3>2, <3>3
    <3>5. w \in MayPost(q)
      BY <2>3, <3>1, <3>4 DEF MayPost, AtIngest
    <3>6. /\ IsFiniteSet(MayPost(q)') /\ Cardinality(MayPost(q)') \in Nat
          /\ Cardinality(MayPost(q)') + 1 <= Cardinality(MayPost(q))
      BY <1>1, <1>3, <2>1, <3>5
    <3>7. /\ IsFiniteSet(MayRepeat(q)') /\ Cardinality(MayRepeat(q)') \in Nat
          /\ Cardinality(MayRepeat(q)') <= Cardinality(MayRepeat(q))
      BY <1>1, <1>2, <2>1
    <3>8. QED
      BY <1>1, <2>1, <3>4, <3>6, <3>7
  <2>4. QED
    BY <1>10, <2>2, <2>3 DEF Moves, Persists, PersistGate, Leaves
<1>11. ASSUME NEW w \in Workers, Counts(w), NEW q \in Runs
       PROVE  Paid(q)
  <2>1. /\ at'[w].next = "persist_gate" /\ billed' = billed /\ fresh' = fresh
        /\ \A v \in Workers \ {w} : at'[v] = at[v]
    BY <1>11, InsideFacts, CountFacts
  <2>2. MayPost(q)' \subseteq MayPost(q) /\ MayRepeat(q)' \subseteq MayRepeat(q)
    BY <1>6, <2>1 DEF MayPost, MayRepeat
  <2>3. QED
    BY <1>4, <2>1, <2>2
<1>12. ASSUME UNCHANGED <<at, billed, fresh>>, NEW q \in Runs
       PROVE  Paid(q)
  BY <1>4, <1>12 DEF MayPost, MayRepeat, AtIngest, RunAt
<1>13. \A q \in Runs : Paid(q)
  BY <1>7, <1>8, <1>10, <1>11, <1>12 DEF StepKind, Dispatch, Manages, DeleteCampaign
<1>14. QED
  BY <1>13 DEF BillInv

-----------------------------------------------------------------------------
LEMMA InitInv == Init => PipelineInv
<1> SUFFICES ASSUME Init PROVE PipelineInv
  OBVIOUS
<1> USE DEF Init
<1>1. [next |-> "ingest", state |-> Initial] \in Checkpoints
  BY StateTypes DEF Checkpoints, Nodes
<1>2. ckpt \in [Runs -> Checkpoints]
  BY <1>1
<1>3. TypeInv
  BY <1>2 DEF TypeInv, TypeOK
<1>4. \A r \in Runs : ckpt[r].next = "ingest" /\ Content(ckpt[r].state) = {}
  BY Contents
<1>5. \A w \in Workers : at[w] = Idle
  OBVIOUS
<1>6. DispatchInv /\ PositionsInv
  BY <1>4, <1>5, CleanEmpty DEF DispatchInv, PositionsInv
<1>7. HistoryInv /\ RowsInv
  BY DEF HistoryInv, RowsInv, OnlyPolledPostsAreDrafted, PostedIsLeftAlone, DedupAcrossPolls
<1>8. SlotInv
  <2>1. \A c \in Campaigns : RowsOf(c) = {} /\ HeldSlots(c) = {}
    BY <1>5 DEF RowsOf, HeldSlots
  <2>2. \A w \in Workers : Holds(w)
    BY <1>5 DEF Holds
  <2>3. \A c \in Campaigns : used[c] = 0 /\ faults * MaxSelections = 0
    BY PipelineAssumption
  <2>4. rows = {} /\ IsFiniteSet({}) /\ Cardinality({}) = 0
    BY FS_EmptySet
  <2> HIDE DEF Init
  <2>5. QED
    BY <2>1, <2>2, <2>3, <2>4 DEF SlotInv, Claimed
<1>9. BillInv
  <2>1. \A r \in Runs : MayPost(r) = {} /\ MayRepeat(r) = {}
    BY <1>5 DEF MayPost, MayRepeat, AtIngest
  <2>2. \A r \in Runs : billed[r] = 0 /\ fresh[r] = 0
    OBVIOUS
  <2>3. IsFiniteSet({}) /\ Cardinality({}) = 0
    BY FS_EmptySet
  <2> HIDE DEF Init
  <2>4. ASSUME NEW r \in Runs
        PROVE  /\ IsFiniteSet(MayPost(r)) /\ IsFiniteSet(MayRepeat(r))
               /\ billed[r] + Cardinality(MayPost(r)) + Cardinality(MayRepeat(r)) <= 2 * fresh[r]
    BY <2>1, <2>2, <2>3
  <2>5. QED
    BY <2>4 DEF BillInv
<1>10. QED
  BY <1>3, <1>6, <1>7, <1>8, <1>9 DEF PipelineInv

LEMMA InvStep == PipelineInv /\ [Next]_vars => PipelineInv'
<1> SUFFICES ASSUME PipelineInv, [Next]_vars PROVE PipelineInv'
  OBVIOUS
<1>1. StepKind
  BY Kinds
<1>2. QED
  BY <1>1, TypeStep, DispatchStep, HistoryStep, PositionsStep, RowsStep, SlotStep, BillStep
  DEF PipelineInv

LEMMA InvHolds == Spec => []PipelineInv
  BY InitInv, InvStep, PTL DEF Spec

(* Every variable has its type.                                            *)
THEOREM TypeCorrect == Spec => []TypeOK
<1>1. PipelineInv => TypeOK
  BY DEF PipelineInv, TypeInv
<1>2. QED
  BY <1>1, InvHolds, PTL

(* No poll drafts a post that the organization had answered when the poll  *)
(* was dispatched, whatever is delivered again, resumed from an older      *)
(* checkpoint or executed twice (langgen_task, prefilter_node).            *)
THEOREM PostedLeftAlone == Spec => []PostedIsLeftAlone
<1>1. PipelineInv => PostedIsLeftAlone
  BY DEF PipelineInv, RowsInv
<1>2. QED
  BY <1>1, InvHolds, PTL

(* Nor one that had a draft then which still exists, in whatever campaign  *)
(* (prefilter_node's organization-wide dedup).                             *)
THEOREM DedupHolds == Spec => []DedupAcrossPolls
<1>1. PipelineInv => DedupAcrossPolls
  BY DEF PipelineInv, RowsInv
<1>2. QED
  BY <1>1, InvHolds, PTL

(* A draft is of a post that the run's own poll returned and that passed   *)
(* the campaign's filters, whatever the scout answered.                    *)
THEOREM OnlyPolled == Spec => []OnlyPolledPostsAreDrafted
<1>1. PipelineInv => OnlyPolledPostsAreDrafted
  BY DEF PipelineInv, RowsInv
<1>2. QED
  BY <1>1, InvHolds, PTL

(* A drafted post has one row in a campaign, and the campaign's counter    *)
(* counts its rows, the slots of drafts that are being persisted and, at   *)
(* most, those of workers that died or raised (persist_gate_node).         *)
THEOREM OneSlotEach == Spec => []OneSlotPerRow
<1>1. PipelineInv => OneSlotPerRow
  <2> SUFFICES ASSUME PipelineInv, NEW c \in Campaigns
               PROVE  /\ Cardinality({x.post : x \in RowsOf(c)}) = Cardinality(RowsOf(c))
                      /\ Claimed(c) <= used[c]
                      /\ campaign[c] # "DELETED" =>
                            used[c] <= Claimed(c) + faults * MaxSelections
    BY DEF OneSlotPerRow, Claimed
  <2> DEFINE f == [x \in RowsOf(c) |-> x.post]
             T == {x.post : x \in RowsOf(c)}
  <2>1. RowsOf(c) \in SUBSET rows /\ \A x \in RowsOf(c) : x.campaign = c
    BY DEF RowsOf
  <2>2. IsFiniteSet(RowsOf(c))
    BY <2>1, FS_Subset DEF PipelineInv, SlotInv
  <2>3. \A a, b \in RowsOf(c) : f[a] = f[b] => a = b
    BY <2>1 DEF PipelineInv, SlotInv
  <2>4. f \in [RowsOf(c) -> T] /\ \A t \in T : \E a \in RowsOf(c) : f[a] = t
    OBVIOUS
  <2>5. Cardinality(T) = Cardinality(RowsOf(c))
    <3> HIDE DEF f, T
    <3>1. QED
      BY <2>2, <2>3, <2>4, SameSize
  <2>6. QED
    BY <2>5 DEF PipelineInv, SlotInv
<1>2. QED
  BY <1>1, InvHolds, PTL

(* A delivery that finds ingest in the checkpoint starts no actor run      *)
(* (run_pipeline's "no re-billing").                                       *)
THEOREM BilledWhenFresh == Spec => []BilledOnlyWhenFresh
<1>1. PipelineInv => BilledOnlyWhenFresh
  <2> SUFFICES ASSUME PipelineInv, NEW r \in Runs
               PROVE  billed[r] <= 2 * fresh[r]
    BY DEF BilledOnlyWhenFresh
  <2>1. /\ IsFiniteSet(MayPost(r)) /\ IsFiniteSet(MayRepeat(r))
        /\ billed[r] + Cardinality(MayPost(r)) + Cardinality(MayRepeat(r)) <= 2 * fresh[r]
    BY DEF PipelineInv, BillInv
  <2>2. /\ Cardinality(MayPost(r)) \in Nat /\ Cardinality(MayRepeat(r)) \in Nat
        /\ billed[r] \in Nat /\ fresh[r] \in Nat
    BY <2>1, FS_CardinalityType DEF PipelineInv, TypeInv, TypeOK
  <2>3. QED
    BY <2>1, <2>2
<1>2. QED
  BY <1>1, InvHolds, PTL

-----------------------------------------------------------------------------
(* How the steps move the workers and the checkpoints of the runs.         *)

(* As long as no task is delivered to a second worker, a run that is being *)
(* executed is taken, has one worker, and its checkpoint is not ahead of   *)
(* that worker.                                                            *)
AloneInv ==
    redeliveries = 0 =>
        /\ \A w \in Workers : at[w] # Idle =>
              task[RunAt(w)] = "taken" /\ Rank(ckpt[RunAt(w)].next) <= Rank(at[w].next)
        /\ \A v, w \in Workers :
              at[v] # Idle /\ at[w] # Idle /\ RunAt(v) = RunAt(w) => v = w

(* A run without an actor run has nothing in hand: it is at ingest, or it  *)
(* was skipped there.                                                      *)
Nothing(c) == c.state = Initial /\ c.next \in {"ingest", "end"}
FetchedInv ==
    \A r \in Runs : billed[r] = 0 =>
        /\ Nothing(ckpt[r])
        /\ \A w \in Workers :
              at[w] # Idle /\ RunAt(w) = r =>
                Nothing(Position(w)) /\ at[w].stage # "polling"

WalkInv == NoTaskIsLost /\ AloneInv /\ FetchedInv

(* A worker takes a run up, ...                                            *)
TakesUp(w, r) ==
    /\ at[w] = Idle
    /\ task' = [task EXCEPT ![r] = "taken"]
    /\ redeliveries' = 0 => task[r] = "queued"
    /\ \E c \in Written(r) :
          ckpt' = [ckpt EXCEPT ![r] = c] /\ at' = [at EXCEPT ![w] = Resume(r, c)]
    /\ UNCHANGED <<rows, billed>>

(* ... goes on to a later node, drafting in persist_gate only, unless it   *)
(* does something inside of a node, ...                                    *)
Onward(w) ==
    /\ at[w] # Idle
    /\ \E state, next :
          /\ Return(w, state, next) /\ Rank(at[w].next) <= Rank(next)
          /\ at[w].next \in {"ingest", "end"} /\ at[w].stage # "polling" =>
                state = Initial /\ next = "end"
    /\ \/ rows' = rows
       \/ at[w].next = "persist_gate" /\ \A x \in rows' \ rows : x.run = RunAt(w)
    /\ \/ billed' = billed
       \/ /\ AtStage(w, "retrying")
          /\ \E n \in {0, 1} : billed' = [billed EXCEPT ![RunAt(w)] = @ + n]
    /\ UNCHANGED task

(* ... or leaves it.                                                       *)
Quits(w) ==
    /\ at[w] # Idle
    /\ at' = [at EXCEPT ![w] = Idle]
    /\ \E t \in {"queued", "acked"} : task' = [task EXCEPT ![RunAt(w)] = t]
    /\ \/ ckpt' = ckpt
       \/ ckpt' = [ckpt EXCEPT ![RunAt(w)] = Position(w)]
       \/ /\ at[w].next = "end"
          /\ ckpt' = [ckpt EXCEPT ![RunAt(w)] = [next |-> "end", state |-> Initial]]
    /\ UNCHANGED <<rows, billed>>

(* The scheduler and the API leave workers and checkpoints alone.          *)
Outside ==
    /\ \A r \in Runs : task'[r] = task[r] \/ (task[r] = "none" /\ task'[r] = "queued")
    /\ rows' \subseteq rows
    /\ UNCHANGED <<ckpt, at, billed>>

WalkKind ==
    /\ redeliveries' = 0 => redeliveries = 0
    /\ \/ \E w \in Workers, r \in Runs : TakesUp(w, r)
       \/ \E w \in Workers : Calls(w) \/ Counts(w) \/ Onward(w) \/ Quits(w)
       \/ Outside

LEMMA OnwardSteps ==
  ASSUME TypeInv, NEW w \in Workers,
         \/ IngestSkips(w) \/ (PostFails(w) /\ at[w].stage = "retrying")
         \/ ActorReturns(w) \/ Prefilter(w) \/ Scout(w) \/ TokenBudget(w)
         \/ Strategist(w) \/ Finalize(w) \/ PersistGate(w)
  PROVE  Onward(w)
<1>1. CASE IngestSkips(w) \/ (PostFails(w) /\ at[w].stage = "retrying")
  <2>1. at[w] # Idle /\ at[w].next = "ingest" /\ Return(w, Initial, "end")
    BY <1>1 DEF IngestSkips, PostFails, AtStage, IsAt
  <2>2. Rank("ingest") <= Rank("end")
    BY DEF Rank
  <2>3. /\ UNCHANGED <<rows, task>>
        /\ \/ billed' = billed
           \/ /\ AtStage(w, "retrying")
              /\ \E n \in {0, 1} : billed' = [billed EXCEPT ![RunAt(w)] = @ + n]
    BY <1>1 DEF IngestSkips, PostFails, AtStage, db
  <2>4. QED
    BY <2>1, <2>2, <2>3 DEF Onward
<1>2. CASE ActorReturns(w)
  BY <1>2 DEF ActorReturns, AtStage, IsAt, Onward, Rank, db
<1>3. CASE Prefilter(w)
  BY <1>3 DEF Prefilter, IsAt, Onward, Rank, db
<1>4. CASE Scout(w)
  BY <1>4 DEF Scout, IsAt, Onward, Rank, db
<1>5. CASE TokenBudget(w)
  BY <1>5 DEF TokenBudget, IsAt, Onward, Rank, db
<1>6. CASE Strategist(w)
  <2>1. /\ at[w] # Idle /\ at[w].next = "strategist"
        /\ \E state : Return(w, state, "finalize")
    BY <1>6 DEF Strategist, IsAt
  <2>2. Rank("strategist") <= Rank("finalize")
    BY DEF Rank
  <2>3. UNCHANGED <<rows, task, billed>>
    BY <1>6 DEF Strategist, db
  <2>4. QED
    BY <2>1, <2>2, <2>3 DEF Onward
<1>7. CASE Finalize(w)
  BY <1>7 DEF Finalize, IsAt, Onward, Rank, db
<1>8. CASE PersistGate(w)
  <2>1. \A x \in rows' \ rows : x.run = RunAt(w)
    BY <1>8 DEF PersistGate, RowFor
  <2>2. QED
    BY <1>8, <2>1 DEF PersistGate, IsAt, Onward, Rank
<1>9. QED
  BY <1>1, <1>2, <1>3, <1>4, <1>5, <1>6, <1>7, <1>8

LEMMA WalkKinds ==
  ASSUME TypeInv, [Next]_vars
  PROVE  WalkKind
<1>1. redeliveries \in Nat /\ task \in [Runs -> {"none", "queued", "taken", "acked"}]
  BY DEF TypeInv, TypeOK
<1>2. CASE \E r \in Runs : Dispatch(r)
  BY <1>1, <1>2 DEF Dispatch, Outside, WalkKind, db
<1>3. ASSUME NEW w \in Workers, NEW r \in Runs, Deliver(w, r)
      PROVE  TakesUp(w, r) /\ redeliveries' = redeliveries
  BY <1>3 DEF Deliver, StartWorker, TakesUp, db
<1>4. ASSUME NEW w \in Workers, NEW r \in Runs, Redeliver(w, r)
      PROVE  TakesUp(w, r) /\ redeliveries' # 0
  <2>1. task = [task EXCEPT ![r] = "taken"]
    BY <1>1, <1>4 DEF Redeliver
  <2>2. redeliveries' # 0
    BY <1>1, <1>4 DEF Redeliver
  <2>3. QED
    BY <1>4, <2>1, <2>2 DEF Redeliver, StartWorker, TakesUp, db
<1>5. ASSUME NEW w \in Workers, Step(w)
      PROVE  /\ Calls(w) \/ Counts(w) \/ Onward(w) \/ Quits(w)
             /\ redeliveries' = redeliveries
  <2>1. CASE Calls(w) \/ Counts(w)
    BY <2>1, InsideFacts
  <2>2. CASE Finish(w)
    BY <2>2 DEF Finish, IsAt, Quits, db
  <2>3. CASE CampaignGone(w)
    BY <2>3 DEF CampaignGone, Fail, Quits, db
  <2>4. CASE \/ IngestSkips(w) \/ (PostFails(w) /\ at[w].stage = "retrying")
             \/ ActorReturns(w) \/ Prefilter(w) \/ Scout(w) \/ TokenBudget(w)
             \/ Strategist(w) \/ Finalize(w) \/ PersistGate(w)
    <3>1. Onward(w)
      BY <2>4, OnwardSteps
    <3>2. redeliveries' = redeliveries
      BY <2>4 DEF IngestSkips, PostFails, ActorReturns, Prefilter, Scout, TokenBudget,
                  Strategist, Finalize, PersistGate
    <3>3. QED
      BY <3>1, <3>2
  <2>5. PostFails(w) => at[w].stage \in {"admitted", "retrying"}
    BY DEF PostFails, AtStage
  <2>6. QED
    BY <1>5, <2>1, <2>2, <2>3, <2>4, <2>5 DEF Step, Calls, Counts
<1>6. ASSUME NEW w \in Workers, Crash(w) \/ Raise(w)
      PROVE  Quits(w) /\ redeliveries' = redeliveries
  <2>1. CASE Crash(w)
    <3>1. \E t \in {"queued", "acked"} : task' = [task EXCEPT ![RunAt(w)] = t]
      BY <2>1 DEF Crash
    <3>2. QED
      BY <2>1, <3>1 DEF Crash, Quits, db
  <2>2. CASE Raise(w)
    BY <2>2 DEF Raise, Fail, Quits, db
  <2>3. QED
    BY <1>6, <2>1, <2>2
<1>7. CASE \/ KillSwitch \/ \E c \in Campaigns : ResumeCampaign(c) \/ DeleteCampaign(c)
           \/ \E x \in rows : ConfirmPosted(x)
  BY <1>7 DEF KillSwitch, ResumeCampaign, DeleteCampaign, ConfirmPosted, Outside, WalkKind
<1>8. CASE UNCHANGED vars
  BY <1>8 DEF vars, db, Outside, WalkKind
<1>9. QED
  BY <1>2, <1>3, <1>4, <1>5, <1>6, <1>7, <1>8 DEF Next, WalkKind

(* Where the workers are after each kind of step.                          *)
LEMMA TakesUpFacts ==
  ASSUME TypeInv, NEW w \in Workers, NEW r \in Runs, TakesUp(w, r)
  PROVE  /\ \A v \in Workers \ {w} : at'[v] = at[v] /\ RunAt(v)' = RunAt(v)
         /\ \A q \in Runs \ {r} : task'[q] = task[q] /\ ckpt'[q] = ckpt[q]
         /\ task'[r] = "taken" /\ RunAt(w)' = r
         /\ ckpt'[r] \in Written(r)
         /\ at'[w] # Idle /\ at'[w].stage = "start"
         /\ at'[w].next = ckpt'[r].next /\ at'[w].state = ckpt'[r].state
<1>1. PICK c \in Written(r) : /\ ckpt' = [ckpt EXCEPT ![r] = c]
                              /\ at' = [at EXCEPT ![w] = Resume(r, c)]
  BY DEF TakesUp
<1>2. /\ task \in [Runs -> {"none", "queued", "taken", "acked"}]
      /\ ckpt \in [Runs -> Checkpoints] /\ at \in [Workers -> Busy \cup {Idle}]
  BY DEF TypeInv, TypeOK
<1>3. ckpt'[r] = c /\ at'[w] = Resume(r, c) /\ \A v \in Workers \ {w} : at'[v] = at[v]
  BY <1>1, <1>2
<1>4. \A q \in Runs \ {r} : task'[q] = task[q] /\ ckpt'[q] = ckpt[q]
  BY <1>1, <1>2 DEF TakesUp
<1>5. task'[r] = "taken"
  BY <1>2 DEF TakesUp
<1>6. at'[w] = [run |-> r, next |-> c.next, state |-> c.state, stage |-> "start",
               tried |-> 0, slots |-> {}]
  BY <1>3 DEF Resume
<1>7. /\ at'[w].run = r /\ at'[w].next = ckpt'[r].next
      /\ at'[w].state = ckpt'[r].state /\ at'[w].stage = "start"
  BY <1>3, <1>6
<1>8. at'[w] # Idle
  BY <1>6 DEF Idle
<1>9. RunAt(w)' = r /\ \A v \in Workers \ {w} : RunAt(v)' = RunAt(v)
  BY <1>3, <1>7 DEF RunAt
<1>10. QED
  BY <1>1, <1>3, <1>4, <1>5, <1>7, <1>8, <1>9

LEMMA OnwardFacts ==
  ASSUME TypeInv, NEW w \in Workers, Onward(w)
  PROVE  /\ at[w] # Idle /\ RunAt(w) \in Runs
         /\ \A v \in Workers \ {w} : at'[v] = at[v] /\ RunAt(v)' = RunAt(v)
         /\ RunAt(w)' = RunAt(w) /\ at'[w] # Idle /\ at'[w].stage = "start"
         /\ ckpt' = [ckpt EXCEPT ![RunAt(w)] = Position(w)]
         /\ Rank(at[w].next) <= Rank(at'[w].next)
         /\ (at[w].next \in {"ingest", "end"} /\ at[w].stage # "polling") =>
               Nothing(Position(w)')
         /\ \A q \in Runs : \/ billed'[q] = billed[q]
                             \/ /\ q = RunAt(w) /\ AtStage(w, "retrying")
                                /\ billed'[q] = billed[q] + 1
<1>1. PICK state, next :
        /\ Return(w, state, next) /\ Rank(at[w].next) <= Rank(next)
        /\ (at[w].next \in {"ingest", "end"} /\ at[w].stage # "polling") =>
              state = Initial /\ next = "end"
  BY DEF Onward
<1>2. /\ at[w] # Idle /\ at[w] \in Busy /\ RunAt(w) \in Runs
      /\ billed \in [Runs -> Nat]
  BY WorkerTypes DEF Onward, TypeInv, TypeOK
<1>3. at' = [at EXCEPT ![w] = [at[w] EXCEPT !.state = state, !.next = next,
                                            !.stage = "start", !.tried = 0, !.slots = {}]]
  BY <1>1 DEF Return
<1>4. at'[w] = [at[w] EXCEPT !.state = state, !.next = next, !.stage = "start",
                             !.tried = 0, !.slots = {}]
  BY <1>3 DEF TypeInv
<1>5. at'[w] = [run |-> at[w].run, next |-> next, state |-> state, stage |-> "start",
               tried |-> 0, slots |-> {}]
  BY <1>2, <1>4 DEF Busy
<1>6. /\ at'[w].run = at[w].run /\ at'[w].next = next /\ at'[w].state = state
      /\ at'[w].stage = "start"
  BY <1>5
<1>7. at'[w] # Idle
  BY <1>5 DEF Idle
<1>8. \A v \in Workers \ {w} : at'[v] = at[v]
  BY <1>3 DEF TypeInv
<1>9. \A q \in Runs : \/ billed'[q] = billed[q]
                      \/ /\ q = RunAt(w) /\ AtStage(w, "retrying")
                         /\ billed'[q] = billed[q] + 1
  <2>1. CASE billed' = billed
    BY <2>1
  <2>2. CASE AtStage(w, "retrying") /\ \E n \in {0, 1} : billed' = [billed EXCEPT ![RunAt(w)] = @ + n]
    <3>1. PICK n \in {0, 1} : billed' = [billed EXCEPT ![RunAt(w)] = @ + n]
      BY <2>2
    <3>2. QED
      BY <1>2, <2>2, <3>1
  <2>3. QED
    BY <2>1, <2>2 DEF Onward
<1>10. QED
  BY <1>1, <1>2, <1>6, <1>7, <1>8, <1>9 DEF RunAt, Return, Nothing, Position, StateAt

LEMMA QuitsFacts ==
  ASSUME TypeInv, NEW w \in Workers, Quits(w)
  PROVE  /\ at[w] # Idle /\ RunAt(w) \in Runs /\ at'[w] = Idle
         /\ \A v \in Workers \ {w} : at'[v] = at[v] /\ RunAt(v)' = RunAt(v)
         /\ task'[RunAt(w)] \in {"queued", "acked"}
         /\ \A q \in Runs \ {RunAt(w)} : task'[q] = task[q] /\ ckpt'[q] = ckpt[q]
         /\ \/ ckpt'[RunAt(w)] \in {ckpt[RunAt(w)], Position(w)}
            \/ /\ at[w].next = "end"
               /\ ckpt'[RunAt(w)] = [next |-> "end", state |-> Initial]
<1>1. at[w] # Idle /\ RunAt(w) \in Runs
  BY WorkerTypes DEF Quits
<1>2. /\ task \in [Runs -> {"none", "queued", "taken", "acked"}]
      /\ ckpt \in [Runs -> Checkpoints] /\ at \in [Workers -> Busy \cup {Idle}]
  BY DEF TypeInv, TypeOK
<1>3. at'[w] = Idle /\ \A v \in Workers \ {w} : at'[v] = at[v] /\ RunAt(v)' = RunAt(v)
  BY <1>2 DEF Quits, RunAt
<1>4. PICK t \in {"queued", "acked"} : task' = [task EXCEPT ![RunAt(w)] = t]
  BY DEF Quits
<1>5. /\ task'[RunAt(w)] \in {"queued", "acked"}
      /\ \A q \in Runs \ {RunAt(w)} : task'[q] = task[q]
  BY <1>1, <1>2, <1>4
<1>6. /\ \A q \in Runs \ {RunAt(w)} : ckpt'[q] = ckpt[q]
      /\ \/ ckpt'[RunAt(w)] \in {ckpt[RunAt(w)], Position(w)}
         \/ /\ at[w].next = "end"
            /\ ckpt'[RunAt(w)] = [next |-> "end", state |-> Initial]
  BY <1>1, <1>2 DEF Quits
<1>7. QED
  BY <1>1, <1>3, <1>5, <1>6

(* A taken task has a worker: whoever leaves it gives it back.             *)
LEMMA NoTaskStep == ASSUME TypeInv, NoTaskIsLost, WalkKind PROVE NoTaskIsLost'
<1>1. ASSUME NEW w \in Workers, NEW r \in Runs, TakesUp(w, r)
      PROVE  NoTaskIsLost'
  <2>1. /\ at'[w] # Idle /\ RunAt(w)' = r /\ at[w] = Idle
        /\ \A q \in Runs \ {r} : task'[q] = task[q]
        /\ \A v \in Workers \ {w} : at'[v] = at[v] /\ RunAt(v)' = RunAt(v)
    BY <1>1, TakesUpFacts DEF TakesUp
  <2>2. ASSUME NEW q \in Runs \ {r}, task'[q] = "taken"
        PROVE  \E v \in Workers : at'[v] # Idle /\ RunAt(v)' = q
    <3>1. task[q] = "taken"
      BY <2>1, <2>2
    <3>2. PICK v \in Workers : at[v] # Idle /\ RunAt(v) = q
      BY <3>1 DEF NoTaskIsLost
    <3>3. at'[v] = at[v] /\ RunAt(v)' = RunAt(v)
      BY <2>1, <3>2
    <3>4. QED
      BY <3>2, <3>3
  <2>3. QED
    BY <2>1, <2>2 DEF NoTaskIsLost
<1>2. ASSUME NEW w \in Workers, Calls(w) \/ Counts(w) \/ Onward(w)
      PROVE  NoTaskIsLost'
  <2>1. /\ RunAt(w)' = RunAt(w) /\ at'[w] # Idle /\ task' = task
        /\ \A v \in Workers \ {w} : at'[v] = at[v] /\ RunAt(v)' = RunAt(v)
    BY <1>2, InsideFacts, OnwardFacts DEF Onward
  <2>2. QED
    BY <2>1 DEF NoTaskIsLost
<1>3. ASSUME NEW w \in Workers, Quits(w)
      PROVE  NoTaskIsLost'
  <2>1. ASSUME NEW q \in Runs, task'[q] = "taken"
        PROVE  \E v \in Workers : at'[v] # Idle /\ RunAt(v)' = q
    <3>1. q # RunAt(w) /\ task[q] = "taken"
      BY <1>3, <2>1, QuitsFacts
    <3>2. PICK v \in Workers : at[v] # Idle /\ RunAt(v) = q
      BY <3>1 DEF NoTaskIsLost
    <3>3. at'[v] = at[v] /\ RunAt(v)' = RunAt(v)
      BY <1>3, <3>1, <3>2, QuitsFacts
    <3>4. QED
      BY <3>2, <3>3
  <2>2. QED
    BY <2>1 DEF NoTaskIsLost
<1>4. CASE Outside
  BY <1>4 DEF Outside, NoTaskIsLost, RunAt
<1>5. QED
  BY <1>1, <1>2, <1>3, <1>4 DEF WalkKind

LEMMA Ranks == \A n \in Nodes : Rank(n) \in 1 .. 8 /\ (n # "end" => Rank(n) < Rank("end"))
  BY DEF Nodes, Rank

(* What RunsGoForward says of a step.                                      *)
Forward(r) ==
    /\ Rank(ckpt[r].next) <= Rank(ckpt'[r].next)
    /\ task[r] = "acked" =>
          /\ task'[r] = "acked" /\ ckpt'[r] = ckpt[r]
          /\ DraftsOf(r)' \subseteq DraftsOf(r)

(* One worker for each run, whose position is not behind the checkpoint.   *)
LEMMA AloneStep ==
  ASSUME TypeInv, TypeInv', AloneInv, WalkKind
  PROVE  AloneInv' /\ (redeliveries' = 0 => \A r \in Runs : Forward(r))
<1> SUFFICES ASSUME redeliveries' = 0
             PROVE  /\ \A w \in Workers : at'[w] # Idle =>
                         /\ task'[RunAt(w)'] = "taken"
                         /\ Rank(ckpt'[RunAt(w)'].next) <= Rank(at'[w].next)
                    /\ \A v, w \in Workers :
                         at'[v] # Idle /\ at'[w] # Idle /\ RunAt(v)' = RunAt(w)' => v = w
                    /\ \A r \in Runs : Forward(r)
  BY DEF AloneInv
<1>1. /\ \A w \in Workers : at[w] # Idle =>
            task[RunAt(w)] = "taken" /\ Rank(ckpt[RunAt(w)].next) <= Rank(at[w].next)
      /\ \A v, w \in Workers :
            at[v] # Idle /\ at[w] # Idle /\ RunAt(v) = RunAt(w) => v = w
  BY DEF AloneInv, WalkKind
<1>2. /\ \A r \in Runs : ckpt[r].next \in Nodes /\ ckpt'[r].next \in Nodes
      /\ \A w \in Workers : at[w] # Idle => at[w].next \in Nodes /\ RunAt(w) \in Runs
  BY WorkerTypes DEF TypeInv, TypeOK, Checkpoints
<1>3. /\ \A r \in Runs : Rank(ckpt[r].next) \in Int /\ Rank(ckpt[r].next) <= Rank("end")
      /\ \A w \in Workers : at[w] # Idle => Rank(at[w].next) \in Int
  BY <1>2, Ranks DEF Nodes
<1>4. ASSUME NEW r \in Runs, task'[r] = task[r], ckpt'[r] = ckpt[r],
             \A x \in rows' \ rows : x.run # r
      PROVE  Forward(r)
  BY <1>3, <1>4 DEF Forward, DraftsOf
<1>5. ASSUME NEW v \in Workers, at'[v] # Idle, at'[v] = at[v], RunAt(v)' = RunAt(v),
             task'[RunAt(v)] = task[RunAt(v)], ckpt'[RunAt(v)] = ckpt[RunAt(v)]
      PROVE  /\ task'[RunAt(v)'] = "taken"
             /\ Rank(ckpt'[RunAt(v)'].next) <= Rank(at'[v].next)
  BY <1>1, <1>5
<1>6. ASSUME NEW w \in Workers, NEW r \in Runs, TakesUp(w, r)
      PROVE  /\ \A v \in Workers : at'[v] # Idle =>
                  /\ task'[RunAt(v)'] = "taken"
                  /\ Rank(ckpt'[RunAt(v)'].next) <= Rank(at'[v].next)
             /\ \A u, v \in Workers :
                  at'[u] # Idle /\ at'[v] # Idle /\ RunAt(u)' = RunAt(v)' => u = v
             /\ \A q \in Runs : Forward(q)
  <2>1. task[r] = "queued" /\ rows' = rows
    BY <1>6 DEF TakesUp
  <2>2. \A v \in Workers : at[v] # Idle => RunAt(v) # r
    BY <1>1, <2>1
  <2>3. ckpt'[r] = ckpt[r]
    BY <1>6, <2>2, TakesUpFacts DEF Written
  <2>4. /\ \A v \in Workers \ {w} : at'[v] = at[v] /\ RunAt(v)' = RunAt(v)
        /\ \A q \in Runs \ {r} : task'[q] = task[q] /\ ckpt'[q] = ckpt[q]
        /\ task'[r] = "taken" /\ RunAt(w)' = r /\ at'[w].next = ckpt'[r].next
    BY <1>6, TakesUpFacts
  <2>5. ASSUME NEW v \in Workers, at'[v] # Idle
        PROVE  /\ task'[RunAt(v)'] = "taken"
               /\ Rank(ckpt'[RunAt(v)'].next) <= Rank(at'[v].next)
    <3>1. CASE v = w
      BY <1>3, <2>3, <2>4, <3>1
    <3>2. CASE v # w
      BY <1>2, <1>5, <2>2, <2>4, <2>5, <3>2
    <3>3. QED
      BY <3>1, <3>2
  <2>6. ASSUME NEW u \in Workers, NEW v \in Workers,
               at'[u] # Idle, at'[v] # Idle, RunAt(u)' = RunAt(v)'
        PROVE  u = v
    BY <1>1, <2>2, <2>4, <2>6
  <2>7. ASSUME NEW q \in Runs
        PROVE  Forward(q)
    <3>1. CASE q = r
      BY <1>3, <2>1, <2>3, <3>1 DEF Forward
    <3>2. CASE q # r
      BY <1>4, <2>1, <2>4, <3>2
    <3>3. QED
      BY <3>1, <3>2
  <2>8. QED
    BY <2>5, <2>6, <2>7
<1>7. ASSUME NEW w \in Workers, Calls(w) \/ Counts(w) \/ Onward(w)
      PROVE  /\ \A v \in Workers : at'[v] # Idle =>
                  /\ task'[RunAt(v)'] = "taken"
                  /\ Rank(ckpt'[RunAt(v)'].next) <= Rank(at'[v].next)
             /\ \A u, v \in Workers :
                  at'[u] # Idle /\ at'[v] # Idle /\ RunAt(u)' = RunAt(v)' => u = v
             /\ \A q \in Runs : Forward(q)
  <2>1. /\ at[w] # Idle /\ RunAt(w) \in Runs /\ RunAt(w)' = RunAt(w) /\ task' = task
        /\ \A v \in Workers \ {w} : at'[v] = at[v] /\ RunAt(v)' = RunAt(v)
    BY <1>7, InsideFacts, OnwardFacts DEF Onward
  <2>2. \A v \in Workers \ {w} : at'[v] # Idle => RunAt(v) # RunAt(w)
    BY <1>1, <2>1
  <2>3. \A q \in Runs \ {RunAt(w)} : ckpt'[q] = ckpt[q]
    <3>1. CASE Calls(w) \/ Counts(w)
      BY <3>1, InsideFacts
    <3>2. CASE Onward(w)
      BY <3>2, OnwardFacts DEF TypeInv, TypeOK
    <3>3. QED
      BY <1>7, <3>1, <3>2
  <2>4. /\ Rank(ckpt[RunAt(w)].next) <= Rank(ckpt'[RunAt(w)].next)
        /\ Rank(ckpt'[RunAt(w)].next) <= Rank(at'[w].next)
    <3>1. CASE Calls(w) \/ Counts(w)
      <4>1. ckpt' = ckpt /\ at'[w].next = at[w].next
        BY <3>1, InsideFacts
      <4>2. QED
        BY <1>1, <1>3, <2>1, <4>1
    <3>2. CASE Onward(w)
      <4>1. ckpt'[RunAt(w)] = Position(w) /\ Rank(at[w].next) <= Rank(at'[w].next)
        BY <2>1, <3>2, OnwardFacts DEF TypeInv, TypeOK
      <4>2. Position(w).next = at[w].next
        BY DEF Position
      <4>3. QED
        BY <1>1, <2>1, <4>1, <4>2
    <3>3. QED
      BY <1>7, <3>1, <3>2
  <2>5. \A x \in rows' \ rows : x.run = RunAt(w)
    BY <1>7, InsideFacts DEF Onward, db
  <2>6. ASSUME NEW v \in Workers, at'[v] # Idle
        PROVE  /\ task'[RunAt(v)'] = "taken"
               /\ Rank(ckpt'[RunAt(v)'].next) <= Rank(at'[v].next)
    <3>1. CASE v = w
      BY <1>1, <2>1, <2>4, <3>1
    <3>2. CASE v # w
      BY <1>2, <1>5, <2>1, <2>2, <2>3, <2>6, <3>2
    <3>3. QED
      BY <3>1, <3>2
  <2>7. ASSUME NEW u \in Workers, NEW v \in Workers,
               at'[u] # Idle, at'[v] # Idle, RunAt(u)' = RunAt(v)'
        PROVE  u = v
    BY <1>1, <2>1, <2>2, <2>7
  <2>8. ASSUME NEW q \in Runs
        PROVE  Forward(q)
    <3>1. CASE q = RunAt(w)
      BY <1>1, <2>1, <2>4, <3>1 DEF Forward
    <3>2. CASE q # RunAt(w)
      BY <1>4, <2>1, <2>3, <2>5, <3>2
    <3>3. QED
      BY <3>1, <3>2
  <2>9. QED
    BY <2>6, <2>7, <2>8
<1>8. ASSUME NEW w \in Workers, Quits(w)
      PROVE  /\ \A v \in Workers : at'[v] # Idle =>
                  /\ task'[RunAt(v)'] = "taken"
                  /\ Rank(ckpt'[RunAt(v)'].next) <= Rank(at'[v].next)
             /\ \A u, v \in Workers :
                  at'[u] # Idle /\ at'[v] # Idle /\ RunAt(u)' = RunAt(v)' => u = v
             /\ \A q \in Runs : Forward(q)
  <2>1. /\ at[w] # Idle /\ RunAt(w) \in Runs /\ at'[w] = Idle /\ rows' = rows
        /\ \A v \in Workers \ {w} : at'[v] = at[v] /\ RunAt(v)' = RunAt(v)
        /\ \A q \in Runs \ {RunAt(w)} : task'[q] = task[q] /\ ckpt'[q] = ckpt[q]
    BY <1>8, QuitsFacts DEF Quits
  <2>2. \A v \in Workers \ {w} : at'[v] # Idle => RunAt(v) # RunAt(w)
    BY <1>1, <2>1
  <2>3. Rank(ckpt[RunAt(w)].next) <= Rank(ckpt'[RunAt(w)].next)
    <3>1. CASE ckpt'[RunAt(w)] = ckpt[RunAt(w)]
      BY <1>3, <2>1, <3>1
    <3>2. CASE ckpt'[RunAt(w)] = Position(w)
      BY <1>1, <2>1, <3>2 DEF Position
    <3>3. CASE ckpt'[RunAt(w)] = [next |-> "end", state |-> Initial]
      BY <1>3, <2>1, <3>3
    <3>4. QED
      BY <1>8, <3>1, <3>2, <3>3, QuitsFacts
  <2>4. ASSUME NEW v \in Workers, at'[v] # Idle
        PROVE  /\ task'[RunAt(v)'] = "taken"
               /\ Rank(ckpt'[RunAt(v)'].next) <= Rank(at'[v].next)
    BY <1>2, <1>5, <2>1, <2>2, <2>4
  <2>5. ASSUME NEW u \in Workers, NEW v \in Workers,
               at'[u] # Idle, at'[v] # Idle, RunAt(u)' = RunAt(v)'
        PROVE  u = v
    BY <1>1, <2>1, <2>5
  <2>6. ASSUME NEW q \in Runs
        PROVE  Forward(q)
    <3>1. CASE q = RunAt(w)
      BY <1>1, <2>1, <2>3, <3>1 DEF Forward
    <3>2. CASE q # RunAt(w)
      BY <1>4, <2>1, <3>2
    <3>3. QED
      BY <3>1, <3>2
  <2>7. QED
    BY <2>4, <2>5, <2>6
<1>9. CASE Outside
  <2>1. /\ UNCHANGED <<ckpt, at>> /\ rows' \subseteq rows
        /\ \A r \in Runs : task[r] \in {"taken", "acked"} => task'[r] = task[r]
    BY <1>9 DEF Outside
  <2>2. \A v \in Workers : at'[v] = at[v] /\ RunAt(v)' = RunAt(v)
    BY <2>1 DEF RunAt
  <2>3. \A r \in Runs : Forward(r)
    BY <1>3, <2>1 DEF Forward, DraftsOf
  <2>4. QED
    BY <1>1, <1>2, <2>1, <2>2, <2>3
<1>10. QED
  BY <1>6, <1>7, <1>8, <1>9 DEF WalkKind

(* A stopped campaign admits no run, and Apify is called for those only    *)
(* that were admitted.                                                     *)
LEMMA AdmitStep ==
  ASSUME TypeInv, WalkKind, NEW r \in Runs,
         campaign[CampaignOf[r]] # "ACTIVE", ~Admitted(r)
  PROVE  ~Admitted(r)' /\ billed'[r] = billed[r]
<1>1. \A v \in Workers : at[v] # Idle /\ at[v].next = "ingest" /\ RunAt(v) = r =>
                          at[v].stage = "start"
  BY DEF Admitted, IsAt
<1>2. ASSUME NEW w \in Workers,
             \A v \in Workers \ {w} : at'[v] = at[v] /\ RunAt(v)' = RunAt(v),
             \/ at'[w] = Idle \/ at'[w].next # "ingest"
             \/ RunAt(w)' # r \/ at'[w].stage = "start"
      PROVE  ~Admitted(r)'
  BY <1>1, <1>2 DEF Admitted, IsAt
<1>3. ASSUME NEW w \in Workers, NEW q \in Runs, TakesUp(w, q)
      PROVE  ~Admitted(r)' /\ billed'[r] = billed[r]
  BY <1>2, <1>3, TakesUpFacts DEF TakesUp
<1>4. ASSUME NEW w \in Workers, Calls(w)
      PROVE  ~Admitted(r)' /\ billed'[r] = billed[r]
  <2>1. RunAt(w) # r
    <3>1. at[w] # Idle /\ at[w].next = "ingest"
      BY <1>4, InsideFacts, CallFacts
    <3>2. at[w].stage # "start" \/ campaign[CampaignAt(w)] = "ACTIVE"
      BY <1>4, CallFacts
    <3>3. QED
      BY <1>1, <3>1, <3>2 DEF CampaignAt
  <2>2. QED
    BY <1>2, <1>4, <2>1, InsideFacts, CallFacts
<1>5. ASSUME NEW w \in Workers, Counts(w)
      PROVE  ~Admitted(r)' /\ billed'[r] = billed[r]
  <2>1. at[w].next = "persist_gate" /\ billed' = billed
    BY <1>5 DEF Counts, TryDraft, GiveSlotBack, IsAt
  <2>2. QED
    BY <1>2, <1>5, <2>1, InsideFacts
<1>6. ASSUME NEW w \in Workers, Onward(w)
      PROVE  ~Admitted(r)' /\ billed'[r] = billed[r]
  <2>1. ~(RunAt(w) = r /\ AtStage(w, "retrying"))
    BY <1>1 DEF AtStage, IsAt
  <2>2. QED
    BY <1>2, <1>6, <2>1, OnwardFacts
<1>7. ASSUME NEW w \in Workers, Quits(w)
      PROVE  ~Admitted(r)' /\ billed'[r] = billed[r]
  BY <1>2, <1>7, QuitsFacts DEF Quits
<1>8. CASE Outside
  BY <1>8 DEF Outside, Admitted, IsAt, RunAt
<1>9. QED
  BY <1>3, <1>4, <1>5, <1>6, <1>7, <1>8 DEF WalkKind

(* What a run that was not billed must not do.                             *)
Undrafted(r) == billed[r] = 0 => DraftsOf(r)' \subseteq DraftsOf(r)

(* A run without an actor run carries nothing, so that it drafts nothing.  *)
LEMMA FetchedStep ==
  ASSUME TypeInv, FetchedInv, WalkKind
  PROVE  FetchedInv' /\ \A r \in Runs : Undrafted(r)
<1> DEFINE Empty(r) == /\ Nothing(ckpt[r])
                       /\ \A w \in Workers :
                            at[w] # Idle /\ RunAt(w) = r => Nothing(Position(w)) /\ at[w].stage # "polling"
<1>1. \A r \in Runs : billed[r] = 0 => Empty(r)
  BY DEF FetchedInv
<1>2. /\ ckpt \in [Runs -> Checkpoints] /\ at \in [Workers -> Busy \cup {Idle}]
      /\ billed \in [Runs -> Nat]
  BY DEF TypeInv, TypeOK
<1>3. ASSUME NEW r \in Runs, NEW v \in Workers, billed[r] = 0,
             at'[v] # Idle, at'[v] = at[v], RunAt(v)' = RunAt(v), RunAt(v)' = r
      PROVE  Nothing(Position(v)') /\ at'[v].stage # "polling"
  BY <1>1, <1>3 DEF Position, StateAt
<1>4. ASSUME NEW w \in Workers, NEW q \in Runs, TakesUp(w, q), NEW r \in Runs
      PROVE  (billed'[r] = 0 => Empty(r)') /\ Undrafted(r)
  <2>1. billed' = billed /\ rows' = rows
    BY <1>4 DEF TakesUp
  <2>2. ASSUME billed[r] = 0
        PROVE  Nothing(ckpt'[r])
    <3>1. CASE r = q
      <4>1. ckpt'[r] \in Written(r)
        BY <1>4, <3>1, TakesUpFacts
      <4>2. \A c \in Written(r) : Nothing(c)
        BY <1>1, <2>2 DEF Written
      <4>3. QED
        BY <4>1, <4>2
    <3>2. CASE r # q
      BY <1>1, <1>4, <2>2, <3>2, TakesUpFacts
    <3>3. QED
      BY <3>1, <3>2
  <2>3. ASSUME billed[r] = 0, NEW v \in Workers, at'[v] # Idle, RunAt(v)' = r
        PROVE  Nothing(Position(v)') /\ at'[v].stage # "polling"
    <3>1. CASE v = w
      <4>1. r = q
        BY <1>4, <2>3, <3>1, TakesUpFacts
      <4>2. at'[w].next = ckpt'[r].next /\ at'[w].state = ckpt'[r].state /\ at'[w].stage # "polling"
        BY <1>4, <4>1, TakesUpFacts
      <4>3. Nothing(ckpt'[r])
        BY <2>2, <2>3
      <4>4. QED
        BY <3>1, <4>2, <4>3 DEF Nothing, Position, StateAt
    <3>2. CASE v # w
      <4>1. at'[v] = at[v] /\ RunAt(v)' = RunAt(v)
        BY <1>4, <3>2, TakesUpFacts
      <4>2. QED
        BY <1>3, <2>3, <4>1
    <3>3. QED
      BY <3>1, <3>2
  <2>4. QED
    BY <2>1, <2>2, <2>3 DEF Undrafted, DraftsOf
<1>5. ASSUME NEW w \in Workers, Calls(w) \/ Counts(w), NEW r \in Runs
      PROVE  (billed'[r] = 0 => Empty(r)') /\ Undrafted(r)
  <2>1. /\ UNCHANGED <<ckpt, rows>> /\ at[w] # Idle /\ RunAt(w) \in Runs
        /\ \A v \in Workers \ {w} : at'[v] = at[v] /\ RunAt(v)' = RunAt(v)
        /\ RunAt(w)' = RunAt(w) /\ at'[w].next = at[w].next /\ at'[w].state = at[w].state
    BY <1>5, InsideFacts DEF db
  <2>2. ASSUME billed'[r] = 0
        PROVE  billed[r] = 0 /\ (RunAt(w) = r => at'[w].stage # "polling")
    <3>1. CASE Calls(w)
      BY <1>2, <2>1, <2>2, <3>1, CallFacts
    <3>2. CASE Counts(w)
      <4>1. billed' = billed /\ at[w].next = "persist_gate"
        BY <3>2 DEF Counts, TryDraft, GiveSlotBack, IsAt
      <4>2. RunAt(w) # r
        BY <1>1, <2>1, <2>2, <4>1 DEF Nothing, Position
      <4>3. QED
        BY <2>2, <4>1, <4>2
    <3>3. QED
      BY <1>5, <3>1, <3>2
  <2>3. ASSUME billed'[r] = 0, NEW v \in Workers, at'[v] # Idle, RunAt(v)' = r
        PROVE  Nothing(Position(v)') /\ at'[v].stage # "polling"
    <3>1. CASE v = w
      <4>1. Nothing(Position(w))
        BY <1>1, <2>1, <2>2, <2>3, <3>1
      <4>2. QED
        BY <2>1, <2>2, <2>3, <3>1, <4>1 DEF Nothing, Position, StateAt
    <3>2. CASE v # w
      BY <1>3, <2>1, <2>2, <2>3, <3>2
    <3>3. QED
      BY <3>1, <3>2
  <2>4. QED
    BY <1>1, <2>1, <2>2, <2>3 DEF Undrafted, DraftsOf
<1>6. ASSUME NEW w \in Workers, Onward(w), NEW r \in Runs
      PROVE  (billed'[r] = 0 => Empty(r)') /\ Undrafted(r)
  <2>1. RunAt(w) \in Runs /\ at[w] # Idle /\ (billed'[r] = 0 => billed[r] = 0)
    BY <1>2, <1>6, OnwardFacts
  <2>2. CASE r = RunAt(w)
    <3>1. ASSUME billed[r] = 0
          PROVE  Empty(r)' /\ rows' = rows
      <4>1. Nothing(Position(w)) /\ at[w].stage # "polling"
        BY <1>1, <2>1, <2>2, <3>1
      <4>2. at[w].next \in {"ingest", "end"}
        BY <4>1 DEF Nothing, Position
      <4>3. Nothing(Position(w)') /\ at'[w].stage # "polling"
        BY <1>6, <4>1, <4>2, OnwardFacts
      <4>4. ckpt'[r] = Position(w)
        BY <1>2, <1>6, <2>2, OnwardFacts
      <4>5. ASSUME NEW v \in Workers, at'[v] # Idle, RunAt(v)' = r
            PROVE  Nothing(Position(v)') /\ at'[v].stage # "polling"
        BY <1>3, <1>6, <3>1, <4>3, <4>5, OnwardFacts
      <4>6. rows' = rows
        BY <1>6, <4>2 DEF Onward
      <4>7. QED
        BY <4>1, <4>4, <4>5, <4>6
    <3>2. QED
      BY <2>1, <3>1 DEF Undrafted, DraftsOf
  <2>3. CASE r # RunAt(w)
    <3>1. ckpt'[r] = ckpt[r]
      BY <1>2, <1>6, <2>3, OnwardFacts
    <3>2. ASSUME billed[r] = 0, NEW v \in Workers, at'[v] # Idle, RunAt(v)' = r
          PROVE  Nothing(Position(v)') /\ at'[v].stage # "polling"
      BY <1>3, <1>6, <2>3, <3>2, OnwardFacts
    <3>3. \A x \in rows' \ rows : x.run # r
      BY <1>6, <2>3 DEF Onward
    <3>4. QED
      BY <1>1, <2>1, <3>1, <3>2, <3>3 DEF Undrafted, DraftsOf
  <2>4. QED
    BY <2>2, <2>3
<1>7. ASSUME NEW w \in Workers, Quits(w), NEW r \in Runs
      PROVE  (billed'[r] = 0 => Empty(r)') /\ Undrafted(r)
  <2>1. billed' = billed /\ rows' = rows
    BY <1>7 DEF Quits
  <2>2. ASSUME billed[r] = 0
        PROVE  Nothing(ckpt'[r])
    <3>1. CASE r = RunAt(w)
      <4>1. Nothing(ckpt[r]) /\ Nothing(Position(w))
        BY <1>1, <1>7, <2>2, <3>1, QuitsFacts
      <4>2. Nothing([next |-> "end", state |-> Initial])
        BY DEF Nothing
      <4>3. QED
        BY <1>7, <3>1, <4>1, <4>2, QuitsFacts
    <3>2. CASE r # RunAt(w)
      BY <1>1, <1>7, <2>2, <3>2, QuitsFacts
    <3>3. QED
      BY <3>1, <3>2
  <2>3. ASSUME billed[r] = 0, NEW v \in Workers, at'[v] # Idle, RunAt(v)' = r
        PROVE  Nothing(Position(v)') /\ at'[v].stage # "polling"
    BY <1>3, <1>7, <2>3, QuitsFacts
  <2>4. QED
    BY <2>1, <2>2, <2>3 DEF Undrafted, DraftsOf
<1>8. ASSUME Outside, NEW r \in Runs
      PROVE  (billed'[r] = 0 => Empty(r)') /\ Undrafted(r)
  <2>1. UNCHANGED <<ckpt, at, billed>> /\ rows' \subseteq rows
    BY <1>8 DEF Outside
  <2>2. ASSUME billed[r] = 0, NEW v \in Workers, at'[v] # Idle, RunAt(v)' = r
        PROVE  Nothing(Position(v)') /\ at'[v].stage # "polling"
    BY <1>3, <2>1, <2>2 DEF RunAt
  <2>3. QED
    BY <1>1, <2>1, <2>2 DEF Undrafted, DraftsOf
<1>9. \A r \in Runs : (billed'[r] = 0 => Empty(r)') /\ Undrafted(r)
  BY <1>4, <1>5, <1>6, <1>7, <1>8 DEF WalkKind
<1>10. QED
  BY <1>9 DEF FetchedInv

LEMMA WalkHolds == Spec => [](PipelineInv /\ WalkInv)
<1>1. Init => WalkInv
  BY DEF Init, WalkInv, NoTaskIsLost, AloneInv, FetchedInv, Nothing
<1>2. TypeInv /\ TypeInv' /\ WalkInv /\ [Next]_vars => WalkInv'
  BY WalkKinds, NoTaskStep, AloneStep, FetchedStep DEF WalkInv
<1>3. PipelineInv => TypeInv
  BY DEF PipelineInv
<1>4. QED
  BY <1>1, <1>2, <1>3, InvHolds, PTL DEF Spec

(* A task that is neither acknowledged nor in the queue is being executed  *)
(* by a worker, for any number of deaths and redeliveries (langgen_task's  *)
(* acks_late and reject_on_worker_lost).                                   *)
THEOREM TasksKept == Spec => []NoTaskIsLost
<1>1. WalkInv => NoTaskIsLost
  BY DEF WalkInv
<1>2. QED
  BY <1>1, WalkHolds, PTL

(* Without early redeliveries the checkpoints of a run go forward through  *)
(* the graph, and an acknowledged run is over (run_pipeline).              *)
THEOREM ForwardOnly == Spec => RunsGoForward
<1>1. PipelineInv /\ WalkInv /\ PipelineInv' /\ [Next]_vars =>
        (redeliveries' = 0 => \A r \in Runs :
          /\ Rank(ckpt[r].next) <= Rank(ckpt'[r].next)
          /\ task[r] = "acked" =>
                /\ task'[r] = "acked" /\ ckpt'[r] = ckpt[r]
                /\ DraftsOf(r)' \subseteq DraftsOf(r))
  BY WalkKinds, AloneStep DEF PipelineInv, WalkInv, Forward
<1>2. QED
  BY <1>1, WalkHolds, PTL DEF Spec, RunsGoForward

(* While a campaign is paused or gone no poll of it is admitted, Apify is  *)
(* called for those only that were past the status check when it stopped,  *)
(* and a poll that Apify was never called for inserts no draft             *)
(* (ingest_node).                                                          *)
THEOREM PauseStops == Spec => PauseStopsPolls
<1>1. PipelineInv /\ WalkInv /\ [Next]_vars =>
        \A r \in Runs : (campaign[CampaignOf[r]] # "ACTIVE" /\ ~Admitted(r)) =>
          /\ ~Admitted(r)'
          /\ billed'[r] = billed[r]
          /\ billed[r] = 0 => DraftsOf(r)' \subseteq DraftsOf(r)
  BY WalkKinds, AdmitStep, FetchedStep DEF PipelineInv, WalkInv, Undrafted
<1>2. QED
  BY <1>1, WalkHolds, PTL DEF Spec, PauseStopsPolls

=============================================================================
