------------------------------ MODULE Outcomes ------------------------------
(***************************************************************************)
(* The engagement outcomes poller (backend/pipeline/outcomes.py): beat     *)
(* starts it every six hours, it fetches the metrics of every posted reply *)
(* that an hour of OUTCOME_HOURS has come for, and commits the rows of all *)
(* of them in one transaction.                                             *)
(*                                                                         *)
(* Nothing in the schema makes (draft_id, hours_after) unique; more than   *)
(* one poll runs at a time when the maintenance queue has more than one    *)
(* process (docker-compose.lite.yml).  What Reddit answers is left out but *)
(* for whether it answers.  Drafts are those with a live_url; times are in *)
(* any unit.                                                               *)
(***************************************************************************)
EXTENDS Integers, FiniteSets

CONSTANTS Drafts,
          Reddit,      \* those of them that are on Reddit
          Hours,       \* OUTCOME_HOURS
          Pollers,     \* processes that take the maintenance queue
          MaxClock,    \* bound on the clock
          MaxFaults    \* bound on polls that die and fetches that fail

ASSUME OutcomesAssumption ==
    /\ Reddit \subseteq Drafts /\ Hours \subseteq Nat
    /\ IsFiniteSet(Pollers) /\ Pollers # {}
    /\ MaxClock \in Nat /\ MaxFaults \in Nat

VARIABLES clock,
          posted,    \* when each draft was posted, Never before
          rows,      \* committed engagement_outcomes of each draft and hour
          poll,      \* what each process is doing
          faults

vars == <<clock, posted, rows, poll, faults>>

Never == 0 - 1
NoPoll == [at |-> "idle"]
Keys == Drafts \X Hours

Init ==
    /\ clock = 0
    /\ posted = [d \in Drafts |-> Never]
    /\ rows = [k \in Keys |-> 0]
    /\ poll = [p \in Pollers |-> NoPoll]
    /\ faults = 0

Tick == clock < MaxClock /\ clock' = clock + 1 /\ UNCHANGED <<posted, rows, poll, faults>>

(* confirm_posted_draft with a live_url: POSTED is final. *)
ConfirmPosted(d) ==
    /\ posted[d] = Never
    /\ posted' = [posted EXCEPT ![d] = clock]
    /\ UNCHANGED <<clock, rows, poll, faults>>

(* Mutant: drafts that have an outcome are not selected again. *)
StartUnmeasured(p) ==
    /\ poll[p] = NoPoll
    /\ poll' = [poll EXCEPT ![p] = [at |-> "polling", now |-> clock, found |-> {},
                                    left |-> {d \in Drafts : posted[d] # Never
                                                /\ \A h \in Hours : rows[<<d, h>>] = 0}]]
    /\ UNCHANGED <<clock, posted, rows, faults>>

(* now is taken before the drafts are selected. *)
Start(p) ==
    /\ poll[p] = NoPoll
    /\ poll' = [poll EXCEPT ![p] = [at |-> "polling", now |-> clock, found |-> {},
                                    left |-> {d \in Drafts : posted[d] # Never}]]
    /\ UNCHANGED <<clock, posted, rows, faults>>

(* Mutant: hours that have a row are not left out. *)
DueAlways(p, d) == {k \in {d} \X Hours : poll[p].now >= posted[d] + k[2]}

(* _due_hours: the session sees what other polls have committed. *)
Due(p, d) == {k \in {d} \X Hours : rows[k] = 0 /\ poll[p].now >= posted[d] + k[2]}

(* One draft: its rows are added to the session.  Those of another         *)
(* platform are skipped.                                                   *)
Polling(p) == poll[p] # NoPoll
Measure(p) ==
    /\ Polling(p)
    /\ \E d \in poll[p].left :
         poll' = [poll EXCEPT ![p].left = @ \ {d},
                              ![p].found = @ \cup IF d \in Reddit THEN Due(p, d) ELSE {}]
    /\ UNCHANGED <<clock, posted, rows, faults>>

(* The metrics cannot be fetched: the next poll will try again. *)
FetchFails(p) ==
    /\ Polling(p) /\ faults < MaxFaults /\ faults' = faults + 1
    /\ \E d \in poll[p].left \cap Reddit : poll' = [poll EXCEPT ![p].left = @ \ {d}]
    /\ UNCHANGED <<clock, posted, rows>>

Commit(p) ==
    /\ Polling(p) /\ poll[p].left = {}
    /\ rows' = [k \in Keys |-> rows[k] + IF k \in poll[p].found THEN 1 ELSE 0]
    /\ poll' = [poll EXCEPT ![p] = NoPoll]
    /\ UNCHANGED <<clock, posted, faults>>

(* An exception, or the process dies: the whole poll is rolled back. *)
Abort(p) ==
    /\ Polling(p) /\ faults < MaxFaults /\ faults' = faults + 1
    /\ poll' = [poll EXCEPT ![p] = NoPoll]
    /\ UNCHANGED <<clock, posted, rows>>

Step(p) == Start(p) \/ Measure(p) \/ Commit(p)
Next ==
    \/ Tick \/ \E d \in Drafts : ConfirmPosted(d)
    \/ \E p \in Pollers : Step(p) \/ FetchFails(p) \/ Abort(p)

Spec == Init /\ [][Next]_vars

(* Time passes, beat starts a poll again and again, and a poll goes on. *)
Fairness == WF_vars(Tick) /\ \A p \in Pollers : WF_vars(Step(p))
FairSpec == Spec /\ Fairness

----------------------------------------------------------------------------
(* Every variable has its type. *)
Poll == [at : {"polling"}, now : Nat, left : SUBSET Drafts, found : SUBSET Keys]
TypeOK ==
    /\ clock \in Nat /\ faults \in Nat
    /\ posted \in [Drafts -> Nat \cup {Never}]
    /\ rows \in [Keys -> Nat]
    /\ poll \in [Pollers -> Poll \cup {NoPoll}]

(* However polls overlap, die and are repeated, an hour of a draft is      *)
(* measured at most once by each process: with one, as docker-compose.yml  *)
(* has it, no outcome is doubled.                                          *)
DuplicatesAreBounded == \A k \in Keys : rows[k] <= Cardinality(Pollers)

(* A posted reply on Reddit gets the row of every hour, whatever was       *)
(* committed, lost or not fetched before, if the hour comes before         *)
(* MaxClock.                                                               *)
Reached(k) == posted[k[1]] # Never /\ posted[k[1]] + k[2] <= MaxClock
OutcomesAreRecorded == \A k \in Reddit \X Hours : Reached(k) ~> rows[k] > 0
=============================================================================
