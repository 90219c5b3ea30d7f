--------------------------- MODULE Outcomes_proofs ---------------------------
(***************************************************************************)
(* Proofs about Outcomes, for any drafts and hours and any finite number   *)
(* of processes:                                                           *)
(*   TypeCorrect          the type invariant                               *)
(*   DuplicatesBounded    an hour of a draft has at most one row for each  *)
(*                        process                                          *)
(***************************************************************************)
EXTENDS Outcomes, FiniteSetTheorems, TLAPS

(* The polls that will add a row to k when they commit.                    *)
Holders(k) == {p \in Pollers : Polling(p) /\ k \in poll[p].found}

(* A key without rows can be found by every process; from its first row on *)
(* no poll finds it any more, so that only the holders are left to commit. *)
OutcomesInv ==
    /\ TypeOK
    /\ \A k \in Keys :
         rows[k] = 0 \/ rows[k] + Cardinality(Holders(k)) <= Cardinality(Pollers)

(* The holders of a key are as many as there are processes, at most.       *)
LEMMA HoldersAreFinite ==
  ASSUME NEW k
  PROVE  /\ IsFiniteSet(Holders(k)) /\ Cardinality(Holders(k)) \in Nat
         /\ Cardinality(Holders(k)) <= Cardinality(Pollers)
         /\ Cardinality(Pollers) \in Nat
  BY OutcomesAssumption, FS_Subset, FS_CardinalityType DEF Holders

(* The poll of a process that is not idle.                                 *)
LEMMA PollingType ==
  ASSUME TypeOK, NEW p \in Pollers, Polling(p)
  PROVE  poll[p] \in Poll
  BY DEF TypeOK, Polling

-----------------------------------------------------------------------------
LEMMA InitInv == Init => OutcomesInv
  BY OutcomesAssumption DEF Init, OutcomesInv, TypeOK, Never

LEMMA StartType ==
  ASSUME TypeOK, NEW p \in Pollers, Start(p)
  PROVE  TypeOK'
<1> DEFINE new == [at |-> "polling", now |-> clock, found |-> {},
                   left |-> {d \in Drafts : posted[d] # Never}]
<1>1. new \in Poll
  BY DEF TypeOK, Poll
<1>2. poll' = [poll EXCEPT ![p] = new]
  BY DEF Start
<1> HIDE DEF new
<1>3. poll' \in [Pollers -> Poll \cup {NoPoll}]
  BY <1>1, <1>2 DEF TypeOK
<1>4. QED
  BY <1>3 DEF TypeOK, Start

LEMMA MeasureType ==
  ASSUME TypeOK, NEW p \in Pollers, Measure(p)
  PROVE  TypeOK'
<1>1. PICK d \in poll[p].left :
        poll' = [poll EXCEPT ![p].left = @ \ {d},
                             ![p].found = @ \cup IF d \in Reddit THEN Due(p, d) ELSE {}]
  BY DEF Measure
<1>2. poll[p] \in Poll /\ d \in Drafts
  BY <1>1, PollingType DEF Measure, Poll
<1>3. Due(p, d) \subseteq Keys
  BY <1>2 DEF Due, Keys
<1>4. poll' \in [Pollers -> Poll \cup {NoPoll}]
  BY <1>1, <1>2, <1>3 DEF TypeOK, Poll
<1>5. QED
  BY <1>4 DEF TypeOK, Measure

LEMMA FetchFailsType ==
  ASSUME TypeOK, NEW p \in Pollers, FetchFails(p)
  PROVE  TypeOK'
<1>1. PICK d \in poll[p].left : poll' = [poll EXCEPT ![p].left = @ \ {d}]
  BY DEF FetchFails
<1>2. poll[p] \in Poll
  BY PollingType DEF FetchFails
<1>3. poll' \in [Pollers -> Poll \cup {NoPoll}]
  BY <1>1, <1>2 DEF TypeOK, Poll
<1>4. QED
  BY <1>3 DEF TypeOK, FetchFails

LEMMA StepType == TypeOK /\ [Next]_vars => TypeOK'
<1> SUFFICES ASSUME TypeOK, [Next]_vars PROVE TypeOK'
  OBVIOUS
<1>1. CASE Tick
  BY <1>1 DEF Tick, TypeOK
<1>2. ASSUME NEW d \in Drafts, ConfirmPosted(d) PROVE TypeOK'
  BY <1>2 DEF ConfirmPosted, TypeOK
<1>3. ASSUME NEW p \in Pollers, Start(p) PROVE TypeOK'
  BY <1>3, StartType
<1>4. ASSUME NEW p \in Pollers, Measure(p) PROVE TypeOK'
  BY <1>4, MeasureType
<1>5. ASSUME NEW p \in Pollers, Commit(p) PROVE TypeOK'
  BY <1>5 DEF Commit, TypeOK
<1>6. ASSUME NEW p \in Pollers, FetchFails(p) PROVE TypeOK'
  BY <1>6, FetchFailsType
<1>7. ASSUME NEW p \in Pollers, Abort(p) PROVE TypeOK'
  BY <1>7 DEF Abort, TypeOK
<1>8. CASE UNCHANGED vars
  BY <1>8 DEF vars, TypeOK
<1>9. QED
  BY <1>1, <1>2, <1>3, <1>4, <1>5, <1>6, <1>7, <1>8 DEF Next, Step

-----------------------------------------------------------------------------
(* A step that commits nothing keeps the bound of a key that nobody starts *)
(* to hold.                                                                *)
LEMMA NoNewHolder ==
  ASSUME OutcomesInv, NEW k \in Keys, rows' = rows,
         rows[k] # 0 => Holders(k)' \subseteq Holders(k)
  PROVE  rows'[k] = 0 \/ rows'[k] + Cardinality(Holders(k)') <= Cardinality(Pollers)
<1>1. CASE rows[k] = 0
  BY <1>1
<1>2. CASE rows[k] # 0
  <2>1. Holders(k)' \in SUBSET Holders(k)
    BY <1>2
  <2>2. Cardinality(Holders(k)') <= Cardinality(Holders(k)) /\ Cardinality(Holders(k)') \in Nat
    BY <2>1, HoldersAreFinite, FS_Subset, FS_CardinalityType
  <2>3. rows[k] + Cardinality(Holders(k)) <= Cardinality(Pollers) /\ rows[k] \in Nat
    BY <1>2 DEF OutcomesInv, TypeOK
  <2>4. QED
    BY <2>2, <2>3, HoldersAreFinite
<1>3. QED
  BY <1>1, <1>2

LEMMA CommitBound ==
  ASSUME OutcomesInv, NEW k \in Keys, NEW p \in Pollers, Commit(p)
  PROVE  rows'[k] = 0 \/ rows'[k] + Cardinality(Holders(k)') <= Cardinality(Pollers)
<1>1. /\ rows[k] \in Nat
      /\ rows'[k] = rows[k] + IF k \in poll[p].found THEN 1 ELSE 0
      /\ rows[k] = 0 \/ rows[k] + Cardinality(Holders(k)) <= Cardinality(Pollers)
  BY DEF OutcomesInv, TypeOK, Commit
<1>2. poll' = [poll EXCEPT ![p] = NoPoll] /\ Polling(p) /\ poll \in [Pollers -> Poll \cup {NoPoll}]
  BY DEF Commit, OutcomesInv, TypeOK
<1>3. Holders(k)' = Holders(k) \ {p}
  BY <1>2 DEF Holders, Polling
<1>4. CASE k \in poll[p].found
  <2>1. p \in Holders(k)
    BY <1>2, <1>4 DEF Holders
  <2>2. Cardinality(Holders(k)') = Cardinality(Holders(k)) - 1
    BY <1>3, <2>1, HoldersAreFinite, FS_RemoveElement
  <2>3. QED
    BY <1>1, <1>4, <2>2, HoldersAreFinite
<1>5. CASE k \notin poll[p].found
  <2>1. p \notin Holders(k)
    BY <1>5 DEF Holders
  <2>2. Holders(k)' = Holders(k)
    BY <1>3, <2>1
  <2>3. QED
    BY <1>1, <1>5, <2>2
<1>6. QED
  BY <1>4, <1>5

LEMMA StepInv == OutcomesInv /\ [Next]_vars => OutcomesInv'
<1> SUFFICES ASSUME OutcomesInv, [Next]_vars, NEW k \in Keys
             PROVE  rows'[k] = 0 \/ rows'[k] + Cardinality(Holders(k)') <= Cardinality(Pollers)
  BY StepType DEF OutcomesInv, Keys
<1>1. poll \in [Pollers -> Poll \cup {NoPoll}]
  BY DEF OutcomesInv, TypeOK
<1>2. CASE Tick \/ (\E d \in Drafts : ConfirmPosted(d)) \/ UNCHANGED vars
  <2>1. rows' = rows /\ poll' = poll
    BY <1>2 DEF Tick, ConfirmPosted, vars
  <2>2. Holders(k)' = Holders(k)
    BY <2>1 DEF Holders, Polling
  <2>3. QED
    BY <2>1, <2>2, NoNewHolder
<1>3. ASSUME NEW p \in Pollers, Start(p) \/ FetchFails(p) \/ Abort(p)
      PROVE  rows'[k] = 0 \/ rows'[k] + Cardinality(Holders(k)') <= Cardinality(Pollers)
  <2>1. rows' = rows
    BY <1>3 DEF Start, FetchFails, Abort
  <2>2. ASSUME NEW q \in Holders(k)' PROVE q \in Holders(k)
    <3>1. q \in Pollers /\ poll'[q] # NoPoll /\ k \in poll'[q].found
      BY <2>2 DEF Holders, Polling
    <3>2. CASE Start(p)
      <4>1. poll' = [poll EXCEPT ![p] = [at |-> "polling", now |-> clock, found |-> {},
                                         left |-> {d \in Drafts : posted[d] # Never}]]
        BY <3>2 DEF Start
      <4>2. q # p
        BY <1>1, <3>1, <4>1
      <4>3. QED
        BY <1>1, <3>1, <4>1, <4>2 DEF Holders, Polling
    <3>3. CASE FetchFails(p)
      <4>1. PICK d \in poll[p].left : poll' = [poll EXCEPT ![p].left = @ \ {d}]
        BY <3>3 DEF FetchFails
      <4>2. poll[p] \in Poll
        BY <3>3, PollingType DEF FetchFails, OutcomesInv
      <4>3. poll'[q].found = poll[q].found
        BY <1>1, <3>1, <4>1, <4>2 DEF Poll
      <4>4. poll[q] # NoPoll
        BY <1>1, <3>1, <3>3, <4>1 DEF FetchFails, Polling
      <4>5. QED
        BY <3>1, <4>3, <4>4 DEF Holders, Polling
    <3>4. CASE Abort(p)
      BY <1>1, <3>1, <3>4 DEF Abort, Holders, Polling
    <3>5. QED
      BY <1>3, <3>2, <3>3, <3>4
  <2>3. QED
    BY <2>1, <2>2, NoNewHolder
<1>4. ASSUME NEW p \in Pollers, Measure(p)
      PROVE  rows'[k] = 0 \/ rows'[k] + Cardinality(Holders(k)') <= Cardinality(Pollers)
  <2>1. PICK d \in poll[p].left :
          poll' = [poll EXCEPT ![p].left = @ \ {d},
                               ![p].found = @ \cup IF d \in Reddit THEN Due(p, d) ELSE {}]
    BY <1>4 DEF Measure
  <2>2. rows' = rows /\ poll[p] \in Poll /\ Polling(p)
    BY <1>4, PollingType DEF Measure, OutcomesInv
  <2>3. ASSUME rows[k] # 0, NEW q \in Holders(k)' PROVE q \in Holders(k)
    <3>1. q \in Pollers /\ k \in poll'[q].found /\ poll'[q] # NoPoll
      BY <2>3 DEF Holders, Polling
    <3>2. k \notin Due(p, d)
      BY <2>3 DEF Due
    <3>3. CASE q = p
      <4>1. poll'[p].found = poll[p].found \cup IF d \in Reddit THEN Due(p, d) ELSE {}
        BY <1>1, <2>1, <2>2 DEF Poll
      <4>2. QED
        BY <2>2, <3>1, <3>2, <3>3, <4>1 DEF Holders
    <3>4. CASE q # p
      BY <1>1, <2>1, <3>1, <3>4 DEF Holders, Polling
    <3>5. QED
      BY <3>3, <3>4
  <2>4. QED
    BY <2>2, <2>3, NoNewHolder
<1>5. QED
  BY <1>2, <1>3, <1>4, CommitBound DEF Next, Step

-----------------------------------------------------------------------------
(* Every variable of the poller has its type in every reachable state.     *)
THEOREM TypeCorrect == Spec => []TypeOK
<1>1. Init => TypeOK
  BY InitInv DEF OutcomesInv
<1>2. QED
  BY <1>1, StepType, PTL DEF Spec

(* However many polls overlap, die and are repeated (_run_async of         *)
(* pipeline/outcomes.py), an hour of a draft has at most one row for each  *)
(* process: one process records each outcome once.                         *)
THEOREM DuplicatesBounded == Spec => []DuplicatesAreBounded
<1>1. OutcomesInv => DuplicatesAreBounded
  <2>1. SUFFICES ASSUME OutcomesInv, NEW k \in Keys
                 PROVE  rows[k] <= Cardinality(Pollers)
    BY DEF DuplicatesAreBounded
  <2>2. rows[k] \in Nat
    BY <2>1 DEF OutcomesInv, TypeOK
  <2>3. rows[k] = 0 \/ rows[k] + Cardinality(Holders(k)) <= Cardinality(Pollers)
    BY <2>1 DEF OutcomesInv
  <2>4. Cardinality(Holders(k)) \in Nat /\ Cardinality(Pollers) \in Nat
    BY HoldersAreFinite
  <2>5. QED
    BY <2>2, <2>3, <2>4
<1>2. QED
  BY <1>1, InitInv, StepInv, PTL DEF Spec
=============================================================================
