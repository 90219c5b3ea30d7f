-------------------------- MODULE DraftCaps_proofs --------------------------
(***************************************************************************)
(* Proofs about DraftCaps, for any number of runs, campaigns, counters and *)
(* caps, and any number of crashes:                                        *)
(*   TypeCorrect     the type invariant, with the shape of a run's state   *)
(*   CountersCover   a counter is never less than what it accounts for     *)
(*   CapsHold        the caps are respected                                *)
(*   NoPhantoms      nor is it more, while nothing fails                   *)
(*   LossBounded     what a loss of Redis lets through                     *)
(*   QuotaRefined    the committed rows implement DailyQuota               *)
(*   WaitingResolved  whoever waits for a row, some run can go on          *)
(*   WorkRunsOut     each step of a run leaves it less work                *)
(* CountersCover and CapsHold speak of executions in which Redis keeps its *)
(* data.                                                                   *)
(***************************************************************************)
EXTENDS DraftCaps, FiniteSetTheorems, TLAPS

(* What holds of a run at each program counter: where it may hold slots,   *)
(* that an insertion is charged to every counter it should be, and that    *)
(* the current draft exists.                                               *)
Shape ==
    /\ \A r \in Runs :
        /\ held[r] \subseteq KeySet(r)
        /\ pc[r] \notin {"reserve", "release", "insert"} => held[r] = {}
        /\ pc[r] = "insert" => held[r] = KeySet(r)
        /\ pc[r] # "reserve" => over[r] = NoKey
        /\ over[r] # NoKey => over[r] \in KeySet(r)
        /\ pc[r] \in {"reserve", "release", "insert"} => pos[r] \in 1 .. Len(DraftsOf[r])
    /\ losses \in 0 .. MaxLosses

TypeInv == TypeOK /\ Shape

LEMMA InitTypeInv == Init => TypeInv
  BY CapsAssumption DEF Init, TypeInv, TypeOK, Shape, PCs, KeySet

LEMMA TypeInvStep ==
  ASSUME TypeInv, [Next]_vars
  PROVE  TypeInv'
<1> USE DEF TypeInv, TypeOK, Shape, PCs
<1>1. ASSUME NEW r \in Runs, Start(r) PROVE TypeInv'
  <2>1. Len(DraftsOf[r]) \in Nat
    BY CapsAssumption
  <2>2. DraftsOf[r] # <<>> => Len(DraftsOf[r]) >= 1
    BY CapsAssumption
  <2>3. CASE DraftsOf[r] = <<>>
    <3>1. /\ pc[r] = "queued" /\ pc' = [pc EXCEPT ![r] = "committed"]
          /\ UNCHANGED <<counter, rows, txn, pos, held, over, faults, losses>>
      BY <1>1, <2>3 DEF Start
    <3>2. TypeOK'
      BY <3>1
    <3>3. Shape'
      BY <3>1 DEF KeySet
    <3>4. QED
      BY <3>2, <3>3
  <2>4. CASE DraftsOf[r] # <<>>
    <3>1. /\ pc[r] = "queued" /\ pc' = [pc EXCEPT ![r] = "reserve"]
          /\ pos' = [pos EXCEPT ![r] = 1]
          /\ UNCHANGED <<counter, rows, txn, held, over, faults, losses>>
      BY <1>1, <2>1, <2>2, <2>4 DEF Start, AtDraft
    <3>2. TypeOK'
      BY <3>1
    <3>3. Shape'
      BY <2>1, <2>2, <2>4, <3>1 DEF KeySet
    <3>4. QED
      BY <3>2, <3>3
  <2>5. QED
    BY <2>3, <2>4
<1>2. ASSUME NEW r \in Runs, Claim(r) PROVE TypeInv'
  <2>1. PICK k \in Keys : /\ k \in KeySet(r)
                          /\ counter' = [counter EXCEPT ![k] = @ + 1]
                          /\ held' = [held EXCEPT ![r] = @ \cup {k}]
    BY <1>2 DEF Claim, IsNext, IsFirst, Unclaimed
  <2>2. pc[r] = "reserve" /\ UNCHANGED <<rows, txn, pc, pos, over, faults, losses>>
    BY <1>2 DEF Claim
  <2>3. TypeOK'
    BY <2>1, <2>2
  <2>4. Shape'
    BY <2>1, <2>2 DEF KeySet
  <2>5. QED
    BY <2>3, <2>4
<1>3. ASSUME NEW r \in Runs, Overshoot(r) PROVE TypeInv'
  <2>1. PICK k \in Keys : /\ k \in KeySet(r)
                          /\ counter' = [counter EXCEPT ![k] = @ + 1]
                          /\ over' = [over EXCEPT ![r] = k]
    BY <1>3 DEF Overshoot, IsNext, IsFirst, Unclaimed
  <2>2. pc[r] = "reserve" /\ UNCHANGED <<rows, txn, pc, pos, held, faults, losses>>
    BY <1>3 DEF Overshoot
  <2>3. TypeOK'
    BY <2>1, <2>2
  <2>4. Shape'
    BY <2>1, <2>2, CapsAssumption DEF KeySet
  <2>5. QED
    BY <2>3, <2>4
<1>4. ASSUME NEW r \in Runs, Revert(r) PROVE TypeInv'
  BY <1>4, CapsAssumption DEF Revert
<1>5. ASSUME NEW r \in Runs, Refuse(r) PROVE TypeInv'
  BY <1>5 DEF Refuse
<1>6. ASSUME NEW r \in Runs, Reserved(r) PROVE TypeInv'
  BY <1>6 DEF Reserved, Unclaimed
<1>7. ASSUME NEW r \in Runs, GiveBack(r) PROVE TypeInv'
  BY <1>7 DEF GiveBack, IsFirst
<1>8. ASSUME NEW r \in Runs, Skip(r) PROVE TypeInv'
  <2>1. Len(DraftsOf[r]) \in Nat
    BY CapsAssumption
  <2>2. QED
    BY <1>8, <2>1 DEF Skip, AtDraft
<1>9. ASSUME NEW r \in Runs, Insert(r) PROVE TypeInv'
  <2>1. Len(DraftsOf[r]) \in Nat
    BY CapsAssumption
  <2>2. RowAt(r) \in AllRows
    <3>1. pos[r] \in 1 .. Len(DraftsOf[r]) /\ DraftsOf[r] \in Seq(Posts)
      BY <1>9, CapsAssumption DEF Insert
    <3>2. DraftsOf[r][pos[r]] \in Posts /\ CampaignOf[r] \in Campaigns
      BY <3>1, CapsAssumption
    <3>3. QED
      BY <3>2 DEF RowAt, AllRows
  <2>3. QED
    BY <1>9, <2>1, <2>2 DEF Insert, AtDraft
<1>10. ASSUME NEW r \in Runs, Duplicate(r) PROVE TypeInv'
  BY <1>10 DEF Duplicate
<1>11. ASSUME NEW r \in Runs, Commit(r) PROVE TypeInv'
  BY <1>11 DEF Commit
<1>12. ASSUME NEW r \in Runs, Checkpoint(r) PROVE TypeInv'
  BY <1>12 DEF Checkpoint
<1>13. ASSUME NEW r \in Runs, Crash(r) \/ Raise(r) \/ DeadlockVictim(r) PROVE TypeInv'
  <2>1. PICK next \in {"queued", "failed"} : Stop(r, next)
    BY <1>13 DEF Crash, Raise, DeadlockVictim
  <2>2. QED
    BY <2>1 DEF Stop
<1>14. CASE LoseCounters
  BY <1>14, CapsAssumption DEF LoseCounters
<1>15. CASE UNCHANGED vars
  BY <1>15 DEF vars, KeySet
<1>16. QED
  BY <1>1, <1>2, <1>3, <1>4, <1>5, <1>6, <1>7, <1>8, <1>9, <1>10, <1>11, <1>12,
     <1>13, <1>14, <1>15 DEF Next, Step

(* Type correctness: every variable of the cap protocol has its type. *)
THEOREM TypeCorrect == Spec => []TypeOK
<1>1. Spec => []TypeInv
  BY InitTypeInv, TypeInvStep, PTL DEF Spec
<1>2. QED
  BY <1>1, PTL DEF TypeInv

-----------------------------------------------------------------------------
(* The sets whose sizes are compared are finite. *)
LEMMA FiniteParts ==
  ASSUME TypeInv, NEW k \in Keys
  PROVE  /\ IsFiniteSet(rows \cap Charged[k])
         /\ IsFiniteSet(Holders(k)) /\ IsFiniteSet(Overs(k))
         /\ Cardinality(rows \cap Charged[k]) \in Nat
         /\ Cardinality(Holders(k)) \in Nat /\ Cardinality(Overs(k)) \in Nat
<1>1. IsFiniteSet(AllRows)
  BY CapsAssumption, FS_Product DEF AllRows
<1>2. IsFiniteSet(rows \cap Charged[k])
  BY <1>1, FS_Subset DEF TypeInv, TypeOK
<1>3. IsFiniteSet(Holders(k)) /\ IsFiniteSet(Overs(k))
  BY CapsAssumption, FS_Subset DEF Holders, Overs
<1>4. QED
  BY <1>2, <1>3, FS_CardinalityType

(* A row is charged to the counters of the run that writes it. *)
LEMMA ChargedTo ==
  ASSUME TypeInv, NEW r \in Runs, RowAt(r) \in AllRows, NEW k \in Keys
  PROVE  RowAt(r) \in Charged[k] <=> k \in KeySet(r)
<1>1. RowAt(r)[1] = CampaignOf[r]
  BY DEF RowAt
<1>2. Charged[k] = {row \in AllRows : \E s \in Runs :
                      row[1] = CampaignOf[s] /\ k \in KeySet(s)}
  BY DEF Charged
<1>3. ASSUME NEW s \in Runs, CampaignOf[r] = CampaignOf[s]
      PROVE  KeySet(s) = KeySet(r)
  BY <1>3, SameCountersAssumption DEF KeySet
<1>4. QED
  BY <1>1, <1>2, <1>3

(* What one counter accounts for, in numbers.                              *)
RowCount(k) == Cardinality(rows \cap Charged[k])
HolderCount(k) == Cardinality(Holders(k))
OverCount(k) == Cardinality(Overs(k))

(* What the losses of Redis may have let through: a cap of rows, and one   *)
(* row for each run that takes the new counter below zero, per loss.       *)
Slack(k) == IF Cap[k] <= 0 THEN 0 ELSE losses * (Cap[k] + Cardinality(Users(k)))

(* The inductive form of CountersCoverRows, CapRespected and LossIsBounded *)
(* for one counter, and that of NoPhantomSlot.  A counter with a cap of    *)
(* zero is never touched.                                                  *)
Covers(k) == RowCount(k) + HolderCount(k) + OverCount(k) <= counter[k] + Slack(k)
Fits(k) == IF Cap[k] <= 0
           THEN counter[k] = 0 /\ RowCount(k) = 0 /\ HolderCount(k) = 0 /\ OverCount(k) = 0
           ELSE RowCount(k) + HolderCount(k) <= Cap[k] + Slack(k)
Good(k) == Covers(k) /\ Fits(k)
Exact(k) == counter[k] = RowCount(k) + HolderCount(k) + OverCount(k)

LEMMA CountTypes ==
  ASSUME TypeInv, NEW k \in Keys
  PROVE  /\ RowCount(k) \in Nat /\ HolderCount(k) \in Nat /\ OverCount(k) \in Nat
         /\ counter[k] \in Int /\ Cap[k] \in Int /\ losses \in Nat
  BY FiniteParts, CapsAssumption DEF RowCount, HolderCount, OverCount, TypeInv, TypeOK

(* A run that is past the cap of a counter uses that counter.              *)
LEMMA OversUse ==
  ASSUME TypeInv, NEW k \in Keys
  PROVE  Cardinality(Users(k)) \in Nat /\ OverCount(k) <= Cardinality(Users(k))
<1>1. IsFiniteSet(Users(k)) /\ Overs(k) \in SUBSET Users(k)
  BY CapsAssumption, FS_Subset DEF Users, Overs, TypeInv, Shape
<1>2. QED
  BY <1>1, FS_Subset, FS_CardinalityType DEF OverCount

LEMMA SlackType ==
  ASSUME TypeInv, NEW k \in Keys
  PROVE  /\ Slack(k) \in Nat
         /\ losses = 0 => Slack(k) = 0
         /\ Cap[k] > 0 => Slack(k) = losses * (Cap[k] + Cardinality(Users(k)))
<1>1. Cap[k] \in Int /\ losses \in Nat /\ Cardinality(Users(k)) \in Nat
  BY CountTypes, OversUse
<1>2. CASE Cap[k] <= 0
  BY <1>1, <1>2 DEF Slack
<1>3. CASE Cap[k] > 0
  <2>1. Cap[k] + Cardinality(Users(k)) \in Nat
    BY <1>1, <1>3
  <2>2. losses * (Cap[k] + Cardinality(Users(k))) \in Nat
    BY <1>1, <2>1
  <2>3. QED
    BY <1>1, <1>3, <2>2 DEF Slack
<1>4. QED
  BY <1>1, <1>2, <1>3

-----------------------------------------------------------------------------
(* How a step changes what is in a counter and what it accounts for.       *)
Shift(k, inCounter, inRows, inHolders, inOvers) ==
    /\ counter'[k] = counter[k] + inCounter
    /\ RowCount(k)' = RowCount(k) + inRows
    /\ HolderCount(k)' = HolderCount(k) + inHolders
    /\ OverCount(k)' = OverCount(k) + inOvers

(* Every step but a loss of Redis or the end of a transaction: a unit of   *)
(* the counter comes with a slot, goes with it, or passes to another kind. *)
Balanced(k) ==
    \/ Shift(k, 0, 0, 0, 0)
    \/ Shift(k, 1, 0, 1, 0) /\ 0 < Cap[k] /\ counter[k] + 1 <= Cap[k]
    \/ Shift(k, 1, 0, 0, 1) /\ 0 < Cap[k]
    \/ Shift(k, -1, 0, 0, -1)
    \/ Shift(k, -1, 0, -1, 0)
    \/ Shift(k, 0, 1, -1, 0)

LEMMA BalancedGood ==
  ASSUME TypeInv, TypeInv', NEW k \in Keys, Balanced(k), losses' = losses
  PROVE  (Good(k) => Good(k)') /\ (Exact(k) => Exact(k)')
<1>1. /\ RowCount(k) \in Nat /\ HolderCount(k) \in Nat /\ OverCount(k) \in Nat
      /\ counter[k] \in Int /\ Cap[k] \in Int /\ Slack(k) \in Nat
  BY CountTypes, SlackType
<1>2. /\ RowCount(k)' \in Nat /\ HolderCount(k)' \in Nat /\ OverCount(k)' \in Nat
  <2>1. (RowCount(k) \in Nat /\ HolderCount(k) \in Nat /\ OverCount(k) \in Nat)'
    BY CountTypes, PTL
  <2>2. QED
    BY <2>1
<1>3. Slack(k)' = Slack(k)
  BY DEF Slack, Users
<1>4. Exact(k) => Exact(k)'
  BY <1>1, <1>2 DEF Exact, Balanced, Shift
<1>5. Covers(k) => Covers(k)'
  BY <1>1, <1>2, <1>3 DEF Covers, Balanced, Shift
<1>6. Covers(k) /\ Fits(k) => Fits(k)'
  <2>1. CASE Cap[k] <= 0
    BY <1>1, <1>2, <2>1 DEF Fits, Balanced, Shift
  <2>2. CASE Cap[k] > 0
    BY <1>1, <1>2, <1>3, <2>2 DEF Covers, Fits, Balanced, Shift
  <2>3. QED
    BY <1>1, <2>1, <2>2
<1>7. QED
  BY <1>4, <1>5, <1>6 DEF Good

(* Steps that leave the counter and what it accounts for alone. *)
LEMMA SameBalanced ==
  ASSUME TypeInv, NEW k \in Keys, counter'[k] = counter[k],
         rows' \cap Charged[k] = rows \cap Charged[k],
         Holders(k)' = Holders(k), Overs(k)' = Overs(k)
  PROVE  Balanced(k)
<1>1. RowCount(k)' = RowCount(k) /\ HolderCount(k)' = HolderCount(k) /\ OverCount(k)' = OverCount(k)
  BY DEF RowCount, HolderCount, OverCount
<1>2. QED
  BY <1>1, CountTypes DEF Balanced, Shift

(* One counter through each step that touches it. *)
LEMMA ClaimBalanced ==
  ASSUME TypeInv, NEW r \in Runs, Claim(r), NEW k \in Keys
  PROVE  Balanced(k)
<1>1. PICK c \in Keys : /\ c \notin held[r] /\ Cap[c] > 0
                        /\ counter[c] + 1 <= Cap[c]
                        /\ counter' = [counter EXCEPT ![c] = @ + 1]
                        /\ held' = [held EXCEPT ![r] = @ \cup {c}]
  BY DEF Claim, IsNext, IsFirst, Unclaimed
<1>2. rows' = rows /\ Overs(k)' = Overs(k)
  BY DEF Claim, Overs
<1>3. CASE k # c
  <2>1. counter'[k] = counter[k] /\ Holders(k)' = Holders(k)
    BY <1>1, <1>3 DEF Holders, TypeInv, TypeOK
  <2>2. QED
    BY <1>2, <2>1, SameBalanced
<1>4. CASE k = c
  <2>1. Holders(k)' = Holders(k) \cup {r} /\ r \notin Holders(k)
    BY <1>1, <1>4 DEF Holders, TypeInv, TypeOK
  <2>2. HolderCount(k)' = HolderCount(k) + 1
    BY <2>1, FiniteParts, FS_AddElement DEF HolderCount
  <2>3. counter'[k] = counter[k] + 1 /\ counter[k] + 1 <= Cap[k] /\ 0 < Cap[k]
    BY <1>1, <1>4, CapsAssumption DEF TypeInv, TypeOK
  <2>4. RowCount(k)' = RowCount(k) /\ OverCount(k)' = OverCount(k)
    BY <1>2 DEF RowCount, OverCount
  <2>5. Shift(k, 1, 0, 1, 0)
    BY <2>2, <2>3, <2>4, CountTypes DEF Shift
  <2>6. QED
    BY <2>3, <2>5 DEF Balanced
<1>5. QED
  BY <1>3, <1>4

LEMMA OvershootBalanced ==
  ASSUME TypeInv, NEW r \in Runs, Overshoot(r), NEW k \in Keys
  PROVE  Balanced(k)
<1>1. PICK c \in Keys : /\ Cap[c] > 0
                        /\ counter' = [counter EXCEPT ![c] = @ + 1]
                        /\ over' = [over EXCEPT ![r] = c]
  BY DEF Overshoot
<1>2. rows' = rows /\ Holders(k)' = Holders(k) /\ over[r] = NoKey
  BY DEF Overshoot, Holders
<1>3. CASE k # c
  <2>1. counter'[k] = counter[k] /\ Overs(k)' = Overs(k)
    BY <1>1, <1>2, <1>3, CapsAssumption DEF Overs, TypeInv, TypeOK
  <2>2. QED
    BY <1>2, <2>1, SameBalanced
<1>4. CASE k = c
  <2>1. Overs(k)' = Overs(k) \cup {r} /\ r \notin Overs(k)
    BY <1>1, <1>2, <1>4, CapsAssumption DEF Overs, TypeInv, TypeOK
  <2>2. OverCount(k)' = OverCount(k) + 1
    BY <2>1, FiniteParts, FS_AddElement DEF OverCount
  <2>3. counter'[k] = counter[k] + 1 /\ 0 < Cap[k]
    BY <1>1, <1>4, CapsAssumption DEF TypeInv, TypeOK
  <2>4. RowCount(k)' = RowCount(k) /\ HolderCount(k)' = HolderCount(k)
    BY <1>2 DEF RowCount, HolderCount
  <2>5. Shift(k, 1, 0, 0, 1)
    BY <2>2, <2>3, <2>4, CountTypes DEF Shift
  <2>6. QED
    BY <2>3, <2>5 DEF Balanced
<1>5. QED
  BY <1>3, <1>4

LEMMA RevertBalanced ==
  ASSUME TypeInv, NEW r \in Runs, Revert(r), NEW k \in Keys
  PROVE  Balanced(k)
<1>1. rows' = rows /\ Holders(k)' = Holders(k)
  BY DEF Revert, Holders
<1>2. CASE k # over[r]
  <2>1. counter'[k] = counter[k] /\ Overs(k)' = Overs(k)
    BY <1>2, CapsAssumption DEF Revert, Overs, TypeInv, TypeOK
  <2>2. QED
    BY <1>1, <2>1, SameBalanced
<1>3. CASE k = over[r]
  <2>1. Overs(k)' = Overs(k) \ {r} /\ r \in Overs(k)
    BY <1>3, CapsAssumption DEF Revert, Overs, TypeInv, TypeOK
  <2>2. OverCount(k)' = OverCount(k) - 1
    BY <2>1, FiniteParts, FS_RemoveElement DEF OverCount
  <2>3. counter'[k] = counter[k] - 1
    BY <1>3 DEF Revert, TypeInv, TypeOK
  <2>4. RowCount(k)' = RowCount(k) /\ HolderCount(k)' = HolderCount(k)
    BY <1>1 DEF RowCount, HolderCount
  <2>5. Shift(k, -1, 0, 0, -1)
    BY <2>2, <2>3, <2>4, CountTypes DEF Shift
  <2>6. QED
    BY <2>5 DEF Balanced
<1>4. QED
  BY <1>2, <1>3

LEMMA GiveBackBalanced ==
  ASSUME TypeInv, NEW r \in Runs, GiveBack(r), NEW k \in Keys
  PROVE  Balanced(k)
<1>1. PICK c \in Keys : /\ c \in held[r]
                        /\ counter' = [counter EXCEPT ![c] = @ - 1]
                        /\ held' = [held EXCEPT ![r] = @ \ {c}]
  BY DEF GiveBack, IsFirst
<1>2. rows' = rows /\ Overs(k)' = Overs(k)
  BY DEF GiveBack, Overs
<1>3. CASE k # c
  <2>1. counter'[k] = counter[k] /\ Holders(k)' = Holders(k)
    BY <1>1, <1>3 DEF Holders, TypeInv, TypeOK
  <2>2. QED
    BY <1>2, <2>1, SameBalanced
<1>4. CASE k = c
  <2>1. Holders(k)' = Holders(k) \ {r} /\ r \in Holders(k)
    BY <1>1, <1>4 DEF Holders, TypeInv, TypeOK
  <2>2. HolderCount(k)' = HolderCount(k) - 1
    BY <2>1, FiniteParts, FS_RemoveElement DEF HolderCount
  <2>3. counter'[k] = counter[k] - 1
    BY <1>1, <1>4 DEF TypeInv, TypeOK
  <2>4. RowCount(k)' = RowCount(k) /\ OverCount(k)' = OverCount(k)
    BY <1>2 DEF RowCount, OverCount
  <2>5. Shift(k, -1, 0, -1, 0)
    BY <2>2, <2>3, <2>4, CountTypes DEF Shift
  <2>6. QED
    BY <2>5 DEF Balanced
<1>5. QED
  BY <1>3, <1>4

(* The row takes over the slots: for every counter of the run one holder   *)
(* becomes one row.                                                        *)
LEMMA InsertBalanced ==
  ASSUME TypeInv, TypeInv', NEW r \in Runs, Insert(r), NEW k \in Keys
  PROVE  Balanced(k)
<1>1. /\ counter'[k] = counter[k] /\ Overs(k)' = Overs(k)
      /\ rows' = rows \cup {RowAt(r)} /\ RowAt(r) \notin rows
      /\ held' = [held EXCEPT ![r] = {}] /\ held[r] = KeySet(r)
  BY DEF Insert, Overs, TypeInv, Shape
<1>2. RowAt(r) \in Charged[k] <=> k \in KeySet(r)
  <2>1. RowAt(r) \in AllRows
    BY <1>1 DEF TypeInv, TypeOK
  <2>2. QED
    BY <2>1, ChargedTo
<1>3. CASE k \notin KeySet(r)
  <2>1. rows' \cap Charged[k] = rows \cap Charged[k]
    BY <1>1, <1>2, <1>3
  <2>2. Holders(k)' = Holders(k)
    BY <1>1, <1>3 DEF Holders, TypeInv, TypeOK
  <2>3. QED
    BY <1>1, <2>1, <2>2, SameBalanced
<1>4. CASE k \in KeySet(r)
  <2>1. /\ rows' \cap Charged[k] = (rows \cap Charged[k]) \cup {RowAt(r)}
        /\ RowAt(r) \notin rows \cap Charged[k]
    BY <1>1, <1>2, <1>4
  <2>2. Holders(k)' = Holders(k) \ {r} /\ r \in Holders(k)
    BY <1>1, <1>4 DEF Holders, TypeInv, TypeOK
  <2>3. Cardinality(rows' \cap Charged[k]) = Cardinality(rows \cap Charged[k]) + 1
    BY <2>1, FiniteParts, FS_AddElement
  <2>4. HolderCount(k)' = HolderCount(k) - 1
    BY <2>2, FiniteParts, FS_RemoveElement DEF HolderCount
  <2>5. RowCount(k)' = RowCount(k) + 1 /\ OverCount(k)' = OverCount(k)
    BY <1>1, <2>3 DEF RowCount, OverCount
  <2>6. Shift(k, 0, 1, -1, 0)
    BY <1>1, <2>4, <2>5, CountTypes DEF Shift
  <2>7. QED
    BY <2>6 DEF Balanced
<1>5. QED
  BY <1>3, <1>4

(* The transaction rolls back: the counter stays, what it accounts for can *)
(* only become less.                                                       *)
LEMMA StopGood ==
  ASSUME TypeInv, NEW r \in Runs, NEW next, Stop(r, next), NEW k \in Keys, Good(k)
  PROVE  Good(k)'
<1> DEFINE R == rows \cap Charged[k]
<1>1. /\ counter' = counter /\ losses' = losses /\ R' \in SUBSET R
      /\ Holders(k)' \in SUBSET Holders(k) /\ Overs(k)' \in SUBSET Overs(k)
  BY CapsAssumption DEF Stop, Holders, Overs, TypeInv, TypeOK
<1>2. /\ RowCount(k)' <= RowCount(k) /\ RowCount(k)' \in Nat
      /\ HolderCount(k)' <= HolderCount(k) /\ HolderCount(k)' \in Nat
      /\ OverCount(k)' <= OverCount(k) /\ OverCount(k)' \in Nat
  BY <1>1, FiniteParts, FS_Subset, FS_CardinalityType DEF RowCount, HolderCount, OverCount
<1>3. Slack(k)' = Slack(k)
  BY <1>1 DEF Slack, Users
<1>4. Covers(k)'
  BY <1>1, <1>2, <1>3, CountTypes, SlackType DEF Good, Covers
<1>5. Fits(k)'
  BY <1>1, <1>2, <1>3, CountTypes, SlackType DEF Good, Fits
<1>6. QED
  BY <1>4, <1>5 DEF Good

LEMMA OneMore ==
  ASSUME NEW n \in Int, NEW c \in Int
  PROVE  (n + 1) * c = n * c + c
  OBVIOUS

(* Redis forgets: what the lost counter accounted for becomes slack.       *)
LEMMA LossGood ==
  ASSUME TypeInv, LoseCounters, NEW k \in Keys, Good(k)
  PROVE  Good(k)'
<1> DEFINE U == Cardinality(Users(k))
<1>1. counter'[k] = 0 /\ losses' = losses + 1 /\ UNCHANGED <<rows, held, over>>
  BY DEF LoseCounters
<1>2. RowCount(k)' = RowCount(k) /\ HolderCount(k)' = HolderCount(k) /\ OverCount(k)' = OverCount(k)
  BY <1>1 DEF RowCount, HolderCount, OverCount, Holders, Overs
<1>3. /\ U \in Nat /\ OverCount(k) <= U /\ Slack(k) \in Nat
      /\ Cap[k] \in Int /\ losses \in Nat
  BY OversUse, SlackType, CountTypes
<1>4. CASE Cap[k] <= 0
  BY <1>1, <1>2, <1>3, <1>4 DEF Good, Covers, Fits, Slack
<1>5. CASE Cap[k] > 0
  <2>1. Slack(k) = losses * (Cap[k] + U) /\ Slack(k)' = (losses + 1) * (Cap[k] + U)
    BY <1>1, <1>3, <1>5 DEF Slack, Users
  <2>2. Slack(k)' = Slack(k) + Cap[k] + U
    <3>1. Cap[k] + U \in Int /\ losses \in Int
      BY <1>3
    <3>2. (losses + 1) * (Cap[k] + U) = losses * (Cap[k] + U) + (Cap[k] + U)
      BY <3>1, OneMore
    <3>3. QED
      BY <1>3, <2>1, <3>2
  <2>3. RowCount(k) + HolderCount(k) <= Cap[k] + Slack(k)
    BY <1>3, <1>5 DEF Good, Fits
  <2>4. Covers(k)'
    BY <1>1, <1>2, <1>3, <1>5, <2>2, <2>3, CountTypes DEF Covers
  <2>5. Fits(k)'
    BY <1>1, <1>2, <1>3, <1>5, <2>2, <2>3, CountTypes DEF Fits
  <2>6. QED
    BY <2>4, <2>5 DEF Good
<1>6. QED
  BY <1>3, <1>4, <1>5

-----------------------------------------------------------------------------
CapInv ==
    /\ TypeInv
    /\ \A k \in Keys : Good(k)
    /\ faults = 0 /\ losses = 0 => \A k \in Keys : Exact(k)

LEMMA InitCapInv == Init => CapInv
<1> SUFFICES ASSUME Init PROVE CapInv
  OBVIOUS
<1>1. TypeInv
  BY InitTypeInv
<1>2. ASSUME NEW k \in Keys PROVE Good(k) /\ Exact(k)
  <2>1. rows \cap Charged[k] = {} /\ Holders(k) = {} /\ Overs(k) = {}
    BY CapsAssumption DEF Init, Holders, Overs
  <2>2. RowCount(k) = 0 /\ HolderCount(k) = 0 /\ OverCount(k) = 0
    BY <2>1, FS_EmptySet DEF RowCount, HolderCount, OverCount
  <2>3. counter[k] = 0 /\ Slack(k) \in Nat /\ Cap[k] \in Int
    BY <1>1, CountTypes, SlackType DEF Init
  <2>4. QED
    BY <2>2, <2>3 DEF Good, Covers, Fits, Exact
<1>3. QED
  BY <1>1, <1>2 DEF CapInv

(* A step is a loss of Redis, the end of a transaction, or balanced.       *)
LEMMA StepKinds ==
  ASSUME TypeInv, TypeInv', [Next]_vars
  PROVE  \/ LoseCounters
         \/ \E r \in Runs : Stop(r, "queued") \/ Stop(r, "failed")
         \/ /\ losses' = losses /\ faults' = faults
            /\ \A k \in Keys : Balanced(k)
<1>1. CASE \E r \in Runs : Crash(r) \/ Raise(r) \/ DeadlockVictim(r)
  BY <1>1 DEF Crash, Raise, DeadlockVictim
<1>2. CASE \E r \in Runs : Claim(r)
  BY <1>2, ClaimBalanced DEF Claim
<1>3. CASE \E r \in Runs : Overshoot(r)
  BY <1>3, OvershootBalanced DEF Overshoot
<1>4. CASE \E r \in Runs : Revert(r)
  BY <1>4, RevertBalanced DEF Revert
<1>5. CASE \E r \in Runs : GiveBack(r)
  BY <1>5, GiveBackBalanced DEF GiveBack
<1>6. CASE \E r \in Runs : Insert(r)
  BY <1>6, InsertBalanced DEF Insert
<1>7. CASE UNCHANGED <<counter, rows, held, over, losses, faults>>
  BY <1>7, SameBalanced DEF Holders, Overs
<1>8. QED
  BY <1>1, <1>2, <1>3, <1>4, <1>5, <1>6, <1>7
     DEF Next, Step, Start, Refuse, Reserved, Skip, Duplicate, Commit, Checkpoint, vars

LEMMA CapInvStep ==
  ASSUME CapInv, [Next]_vars
  PROVE  CapInv'
<1>1. TypeInv /\ TypeInv'
  BY TypeInvStep DEF CapInv
<1>2. CASE LoseCounters
  <2>1. \A k \in Keys : Good(k)'
    BY <1>1, <1>2, LossGood DEF CapInv
  <2>2. losses' # 0
    BY <1>1, <1>2 DEF LoseCounters, TypeInv, TypeOK
  <2>3. QED
    BY <1>1, <2>1, <2>2 DEF CapInv
<1>3. ASSUME NEW r \in Runs, NEW next, Stop(r, next) PROVE CapInv'
  <2>1. \A k \in Keys : Good(k)'
    BY <1>1, <1>3, StopGood DEF CapInv
  <2>2. faults' # 0
    BY <1>1, <1>3 DEF Stop, TypeInv, TypeOK
  <2>3. QED
    BY <1>1, <2>1, <2>2 DEF CapInv
<1>4. CASE losses' = losses /\ faults' = faults /\ \A k \in Keys : Balanced(k)
  BY <1>1, <1>4, BalancedGood DEF CapInv
<1>5. QED
  BY <1>1, <1>2, <1>3, <1>4, StepKinds

LEMMA CapInvHolds == Spec => []CapInv
  BY InitCapInv, CapInvStep, PTL DEF Spec

(* The three properties of one counter that CapInv is made for.            *)
LEMMA CapFacts ==
  ASSUME CapInv, NEW k \in Keys
  PROVE  /\ losses = 0 => counter[k] >= Cardinality(rows \cap Charged[k])
                                       + Cardinality(Holders(k)) + Cardinality(Overs(k))
         /\ losses = 0 =>
              \/ Cardinality(rows \cap Charged[k]) + Cardinality(Holders(k)) <= Cap[k]
              \/ rows \cap Charged[k] = {} /\ Holders(k) = {}
         /\ \/ rows \cap Charged[k] = {}
            \/ Cardinality(rows \cap Charged[k])
                  <= (losses + 1) * Cap[k] + losses * Cardinality(Users(k))
<1> DEFINE R == Cardinality(rows \cap Charged[k])
           H == Cardinality(Holders(k))
           O == Cardinality(Overs(k))
           U == Cardinality(Users(k))
<1>1. /\ R \in Nat /\ H \in Nat /\ O \in Nat /\ U \in Nat
      /\ counter[k] \in Int /\ Cap[k] \in Int /\ losses \in Nat /\ Slack(k) \in Nat
      /\ losses = 0 => Slack(k) = 0
      /\ Cap[k] > 0 => Slack(k) = losses * (Cap[k] + U)
  BY CountTypes, SlackType, OversUse DEF CapInv, RowCount, HolderCount, OverCount
<1>2. /\ R + H + O <= counter[k] + Slack(k)
      /\ IF Cap[k] <= 0 THEN R = 0 /\ H = 0 ELSE R + H <= Cap[k] + Slack(k)
  BY DEF CapInv, Good, Covers, Fits, RowCount, HolderCount, OverCount
<1>3. /\ R = 0 => rows \cap Charged[k] = {}
      /\ H = 0 => Holders(k) = {}
  BY FiniteParts, FS_EmptySet DEF CapInv
<1> HIDE DEF R, H, O, U
<1>4. losses = 0 => counter[k] >= R + H + O
  BY <1>1, <1>2
<1>5. losses = 0 => R + H <= Cap[k] \/ (rows \cap Charged[k] = {} /\ Holders(k) = {})
  BY <1>1, <1>2, <1>3
<1>6. rows \cap Charged[k] = {} \/ R <= (losses + 1) * Cap[k] + losses * U
  <2>1. CASE Cap[k] <= 0
    BY <1>2, <1>3, <2>1
  <2>2. CASE Cap[k] > 0
    <3>1. R <= Cap[k] + losses * (Cap[k] + U)
      BY <1>1, <1>2, <2>2
    <3>2. /\ losses * (Cap[k] + U) = losses * Cap[k] + losses * U
          /\ (losses + 1) * Cap[k] = losses * Cap[k] + Cap[k]
          /\ losses * Cap[k] \in Int /\ losses * U \in Int
      BY <1>1
    <3>3. QED
      BY <1>1, <3>1, <3>2
  <2>3. QED
    BY <1>1, <2>1, <2>2
<1>7. QED
  BY <1>4, <1>5, <1>6 DEF R, H, O, U

(* A daily-cap counter never accounts for less than the rows charged to it *)
(* and the slots in flight, under every interleaving and any crash.        *)
THEOREM CountersCover == Spec => []CountersCoverRows
<1>1. CapInv => CountersCoverRows
  BY CapFacts DEF CountersCoverRows
<1>2. QED
  BY <1>1, CapInvHolds, PTL

LEMMA CapInvRespects == CapInv => TypeInv /\ CapRespected
  BY CapFacts DEF CapInv, CapRespected

(* No interleaving of polls, crashes and redeliveries drafts past a cap.   *)
THEOREM CapsHold == Spec => []CapRespected
  BY CapInvRespects, CapInvHolds, PTL

(* Claims, reverts, releases and insertions of any number of runs leave no *)
(* slot behind and give none back twice, while nothing fails.              *)
THEOREM NoPhantoms == Spec => []NoPhantomSlot
<1>1. CapInv => NoPhantomSlot
  BY DEF CapInv, Exact, RowCount, HolderCount, OverCount, NoPhantomSlot
<1>2. QED
  BY <1>1, CapInvHolds, PTL

(* Each restart of Redis without its data costs at most one more cap of    *)
(* drafts and one draft for each run of the counter.                       *)
THEOREM LossBounded == Spec => []LossIsBounded
<1>1. CapInv => LossIsBounded
  BY CapFacts DEF LossIsBounded
<1>2. QED
  BY <1>1, CapInvHolds, PTL

-----------------------------------------------------------------------------
(* The committed rows only grow. *)
LEMMA CommittedGrows ==
  ASSUME TypeInv, [Next]_vars
  PROVE  Committed \subseteq Committed'
<1> USE DEF TypeInv, TypeOK, Committed
<1>1. ASSUME NEW r \in Runs, Insert(r) PROVE Committed \subseteq Committed'
  BY <1>1 DEF Insert
<1>2. ASSUME NEW r \in Runs, Commit(r) PROVE Committed \subseteq Committed'
  BY <1>2 DEF Commit
<1>3. ASSUME NEW r \in Runs, NEW next, Stop(r, next) PROVE Committed \subseteq Committed'
  BY <1>3 DEF Stop
<1>4. CASE UNCHANGED <<rows, txn>>
  BY <1>4
<1>5. QED
  BY <1>1, <1>2, <1>3, <1>4
     DEF Next, Step, Start, Claim, Overshoot, Revert, Refuse, Reserved, GiveBack, Skip,
         Duplicate, Checkpoint, DeadlockVictim, Crash, Raise, LoseCounters, vars

(* A factor can be taken in or out of a product of naturals.               *)
LEMMA Products ==
  ASSUME NEW m \in Nat, NEW n \in Nat, NEW c \in Nat
  PROVE  /\ m * c \in Nat /\ (m + 1) * c = m * c + c
         /\ (m + n) * c = m * c + n * c
         /\ m <= n => m * c <= n * c
<1>1. m * c \in Nat /\ n * c \in Nat /\ (m + n) * c = m * c + n * c
  BY SMT
<1>2. (m + 1) * c = m * c + c
  BY SMT
<1>3. ASSUME m <= n PROVE m * c <= n * c
  <2>1. PICK k \in Nat : n = m + k
    <3>1. n - m \in Nat /\ n = m + (n - m)
      BY <1>3
    <3>2. QED
      BY <3>1
  <2>2. n * c = m * c + k * c /\ k * c \in Nat
    BY <2>1, SMT
  <2>3. QED
    BY <1>1, <2>2
<1>4. QED
  BY <1>1, <1>2, <1>3

(* What a loss of Redis lets through grows with the losses. *)
LEMMA DayCapBounds ==
  ASSUME CapInv, NEW k \in Keys
  PROVE  \/ Cardinality(rows \cap Charged[k]) <= DayCap[k]
         \/ rows \cap Charged[k] = {}
<1> DEFINE R == Cardinality(rows \cap Charged[k])
           U == Cardinality(Users(k))
<1>1. /\ R \in Nat /\ U \in Nat /\ Cap[k] \in Int
      /\ losses \in Nat /\ MaxLosses \in Nat /\ losses <= MaxLosses
  <2>1. TypeInv /\ losses \in 0 .. MaxLosses /\ MaxLosses \in Nat
    BY CapsAssumption DEF CapInv, TypeInv, Shape
  <2>2. QED
    BY <2>1, CountTypes, OversUse DEF RowCount
<1>2. rows \cap Charged[k] = {} \/ R <= (losses + 1) * Cap[k] + losses * U
  BY CapFacts
<1>3. Cap[k] <= 0 => R = 0
  BY FiniteParts DEF CapInv, Good, Fits, RowCount
<1> HIDE DEF R, U
<1>4. CASE Cap[k] <= 0
  BY <1>1, <1>3, <1>4, FiniteParts, FS_EmptySet DEF R, CapInv
<1>5. CASE Cap[k] > 0
  <2>1. (losses + 1) * Cap[k] <= (MaxLosses + 1) * Cap[k]
    BY <1>1, <1>5, Products
  <2>2. losses * U <= MaxLosses * U
    BY <1>1, Products
  <2>3. /\ (losses + 1) * Cap[k] \in Nat /\ (MaxLosses + 1) * Cap[k] \in Nat
        /\ losses * U \in Nat /\ MaxLosses * U \in Nat
    BY <1>1, <1>5, Products
  <2>4. DayCap[k] = (MaxLosses + 1) * Cap[k] + MaxLosses * U
    BY <1>1, <1>5 DEF DayCap, U
  <2>5. QED
    BY <1>1, <1>2, <2>1, <2>2, <2>3, <2>4 DEF R
<1>6. QED
  BY <1>1, <1>4, <1>5

(* The committed rows implement the daily quota: they only grow, a whole   *)
(* transaction at a time, and fit the caps of the day after any number of  *)
(* crashes, deadlocks and losses of Redis.                                 *)
THEOREM QuotaRefined == Spec => ImplementsQuota
<1>1. Init => Quota!QuotaInit
  BY DEF Init, Quota!QuotaInit, Committed
<1>2. ASSUME CapInv, CapInv', [Next]_vars
      PROVE  [Quota!Persist]_Committed
  <2>1. Committed \subseteq Committed' /\ Committed' \subseteq rows'
    BY <1>2, CommittedGrows DEF CapInv, Committed
  <2>2. rows' \subseteq AllRows
    BY <1>2 DEF CapInv, TypeInv, TypeOK
  <2>3. ASSUME NEW k \in Keys
        PROVE  \/ Cardinality(Committed' \cap Charged[k]) <= DayCap[k]
               \/ Committed' \cap Charged[k] = {}
    <3>1. \/ Cardinality(rows' \cap Charged[k]) <= DayCap[k]
          \/ rows' \cap Charged[k] = {}
      <4>1. (\/ Cardinality(rows \cap Charged[k]) <= DayCap[k]
             \/ rows \cap Charged[k] = {})'
        BY <1>2, DayCapBounds, PTL
      <4>2. QED
        BY <4>1
    <3>2. CASE rows' \cap Charged[k] = {}
      BY <2>1, <3>2
    <3>3. CASE Cardinality(rows' \cap Charged[k]) <= DayCap[k]
      <4>1. /\ IsFiniteSet(rows' \cap Charged[k])
            /\ Cardinality(rows' \cap Charged[k]) \in Nat
        <5>1. (IsFiniteSet(rows \cap Charged[k]) /\ Cardinality(rows \cap Charged[k]) \in Nat)'
          BY <1>2, FiniteParts, PTL DEF CapInv
        <5>2. QED
          BY <5>1
      <4>2. /\ Cardinality(Committed' \cap Charged[k]) <= Cardinality(rows' \cap Charged[k])
            /\ Cardinality(Committed' \cap Charged[k]) \in Nat
        BY <2>1, <4>1, FS_Subset, FS_CardinalityType
      <4>3. DayCap[k] \in Int
        <5>1. Cardinality(Users(k)) \in Int
          BY <1>2, OversUse DEF CapInv
        <5>2. QED
          BY <5>1, CapsAssumption DEF DayCap
      <4>4. QED
        BY <3>3, <4>1, <4>2, <4>3
    <3>4. QED
      BY <3>1, <3>2, <3>3
  <2>4. Quota!Within(Committed')
    BY <2>3, Zenon DEF Quota!Within, Quota!Cardinality, Cardinality, Quota!IsFiniteSet, IsFiniteSet
  <2>5. \E S \in SUBSET AllRows : Committed' = Committed \cup S
    <3>1. /\ Committed' \ Committed \in SUBSET AllRows
          /\ Committed' = Committed \cup (Committed' \ Committed)
      BY <2>1, <2>2
    <3>2. QED
      BY <3>1
  <2>6. QED
    BY <2>4, <2>5 DEF Quota!Persist
<1>3. QED
  BY <1>1, <1>2, CapInvHolds, PTL DEF Spec, ImplementsQuota, Quota!QuotaSpec

-----------------------------------------------------------------------------
(* What is in a transaction: uncommitted rows, each of one run, which is   *)
(* in the middle of it.                                                    *)
TxnInv ==
    /\ \A r \in Runs : /\ txn[r] \subseteq rows
                       /\ txn[r] # {} => pc[r] \in {"reserve", "release", "insert", "commit"}
    /\ \A r, s \in Runs : r # s => txn[r] \cap txn[s] = {}

LEMMA TxnStep ==
  ASSUME TypeInv, TxnInv, [Next]_vars
  PROVE  TxnInv'
<1> USE DEF TypeInv, TypeOK, Shape, PCs, TxnInv
<1>1. ASSUME NEW r \in Runs, Insert(r) PROVE TxnInv'
  <2>1. /\ RowAt(r) \notin rows /\ rows' = rows \cup {RowAt(r)}
        /\ txn' = [txn EXCEPT ![r] = @ \cup {RowAt(r)}]
        /\ \E next \in {"reserve", "commit"} : pc' = [pc EXCEPT ![r] = next]
    BY <1>1 DEF Insert, AtDraft
  <2>2. QED
    BY <2>1
<1>2. ASSUME NEW r \in Runs, Commit(r) PROVE TxnInv'
  BY <1>2 DEF Commit
<1>3. ASSUME NEW r \in Runs, NEW next \in {"queued", "failed"}, Stop(r, next) PROVE TxnInv'
  BY <1>3 DEF Stop
<1>4. ASSUME NEW r \in Runs, Start(r) \/ Refuse(r) \/ Reserved(r) \/ Skip(r) \/ Duplicate(r)
                             \/ Revert(r)
      PROVE  TxnInv'
  <2>1. /\ UNCHANGED <<rows, txn>>
        /\ \E next \in PCs : /\ pc' = [pc EXCEPT ![r] = next]
                             /\ \/ next \in {"reserve", "release", "insert", "commit"}
                                \/ pc[r] = "queued" /\ next = "committed"
    BY <1>4 DEF Start, Refuse, Reserved, Skip, Duplicate, Revert, AtDraft
  <2>2. QED
    BY <2>1
<1>5. ASSUME NEW r \in Runs, Checkpoint(r) PROVE TxnInv'
  <2>1. pc[r] = "committed" /\ pc' = [pc EXCEPT ![r] = "done"] /\ UNCHANGED <<rows, txn>>
    BY <1>5 DEF Checkpoint
  <2>2. QED
    BY <2>1
<1>6. CASE UNCHANGED <<rows, txn, pc>>
  BY <1>6
<1>7. QED
  BY <1>1, <1>2, <1>3, <1>4, <1>5, <1>6
     DEF Next, Step, Claim, Overshoot, GiveBack, DeadlockVictim, Crash, Raise,
         LoseCounters, vars

LEMMA TxnInvHolds == Spec => [](TypeInv /\ TxnInv)
<1>1. Init => TypeInv /\ TxnInv
  BY InitTypeInv DEF Init, TxnInv
<1>2. QED
  BY <1>1, TypeInvStep, TxnStep, PTL DEF Spec

(* Nobody waits for two transactions, so a circle is all a run can wait in.*)
LEMMA OneHolder ==
  ASSUME TxnInv, NEW r \in Runs, NEW s \in Runs, NEW t \in Runs, Waits(r, s), Waits(r, t)
  PROVE  s = t
  BY DEF TxnInv, Waits

(* Runs that wait only for one another have a circle among them: the       *)
(* smallest such group.                                                    *)
LEMMA CircleAmong ==
  ASSUME NEW S \in SUBSET Runs, S # {}, \A r \in S : \E s \in S : Waits(r, s)
  PROVE  \E C \in SUBSET S : C # {} /\ Circle(C)
<1> DEFINE Closed == {C \in SUBSET S : C # {} /\ \A r \in C : \E s \in C : Waits(r, s)}
           Order == StrictSubsetOrdering(S)
<1>1. IsWellFoundedOn(Order, SUBSET S)
  <2>1. IsFiniteSet(S)
    BY CapsAssumption, FS_Subset
  <2>2. QED
    BY <2>1, FS_FiniteSubsetsOfFinite, FS_StrictSubsetOrderingWellFounded
<1>2. \A C, D \in SUBSET S : <<D, C>> \in Order <=> D \subseteq C /\ D # C
  BY DEF StrictSubsetOrdering
<1> HIDE DEF Order
<1>3. PICK C \in Closed : \A D \in Closed : ~(<<D, C>> \in Order)
  <2>1. Closed \subseteq SUBSET S /\ Closed # {}
    OBVIOUS
  <2> HIDE DEF Closed
  <2>2. QED
    BY <1>1, <2>1, WFMin
<1>4. C \in SUBSET S /\ C # {} /\ \A r \in C : \E s \in C : Waits(r, s)
  BY <1>3
<1> DEFINE D == {s \in C : \E r \in C : Waits(r, s)}
<1>5. D \in Closed
  BY <1>4
<1>6. D = C
  <2>1. ~(<<D, C>> \in Order) /\ D \in SUBSET S /\ D \subseteq C
    BY <1>3, <1>4, <1>5
  <2> HIDE DEF D
  <2>2. QED
    BY <1>2, <1>4, <2>1
<1>7. \A s \in C : \E r \in C : Waits(r, s)
  BY <1>6
<1>8. QED
  BY <1>4, <1>7 DEF Circle

(* Of any number of runs that wait for each other's rows, in whatever      *)
(* order they insert them, one can go on or is aborted by Postgres.        *)
THEOREM WaitingResolved == Spec => []WaitingIsResolved
<1>1. ASSUME TypeInv, TxnInv, NEW r \in Runs, Blocked(r)
      PROVE  \E s \in Running : txn[s] # {} /\ (~Blocked(s) \/ Deadlocked(s))
  <2> DEFINE S == {s \in Runs : txn[s] # {} /\ Blocked(s)}
  <2>1. PICK h \in Runs : txn[h] # {} /\ h \in Running
    BY <1>1 DEF Blocked, Waits, TxnInv, Running
  <2>2. CASE \E s \in Running : txn[s] # {} /\ ~Blocked(s)
    BY <2>2
  <2>3. CASE \A s \in Running : txn[s] # {} => Blocked(s)
    <3>1. h \in S
      BY <2>1, <2>3 DEF Running
    <3>2. ASSUME NEW s \in S PROVE \E t \in S : Waits(s, t)
      <4>1. PICK t \in Runs : Waits(s, t)
        BY DEF Blocked
      <4>2. txn[t] # {} /\ t \in Running
        BY <1>1, <4>1 DEF Waits, TxnInv, Running
      <4>3. QED
        BY <2>3, <4>1, <4>2
    <3> HIDE DEF S
    <3>3. PICK C \in SUBSET S : C # {} /\ Circle(C)
      <4>1. S \in SUBSET Runs
        BY DEF S
      <4>2. QED
        BY <3>1, <3>2, <4>1, CircleAmong
    <3>4. PICK s \in C : TRUE
      BY <3>3
    <3>5. s \in Runs /\ txn[s] # {} /\ C \in SUBSET Runs
      BY <3>3, <3>4 DEF S
    <3>6. Deadlocked(s) /\ s \in Running
      BY <1>1, <3>3, <3>4, <3>5 DEF Deadlocked, TxnInv, Running
    <3>7. QED
      BY <3>5, <3>6
  <2>4. QED
    BY <2>2, <2>3
<1>2. TypeInv /\ TxnInv => WaitingIsResolved
  BY <1>1 DEF WaitingIsResolved
<1>3. QED
  BY <1>2, TxnInvHolds, PTL

-----------------------------------------------------------------------------
LEMMA KeyCounts ==
  ASSUME TypeInv, NEW r \in Runs
  PROVE  /\ IsFiniteSet(KeySet(r)) /\ Cardinality(KeySet(r)) \in Nat
         /\ Cardinality(held[r]) \in 0 .. Cardinality(KeySet(r))
         /\ Cardinality(Unclaimed(r)) \in 0 .. Cardinality(KeySet(r))
         /\ IsFiniteSet(held[r]) /\ IsFiniteSet(Unclaimed(r))
<1>1. IsFiniteSet(KeySet(r))
  <2>1. KeysOf[r] \in Seq(Keys) /\ Len(KeysOf[r]) \in Nat
    BY CapsAssumption
  <2> DEFINE f == [i \in 1 .. Len(KeysOf[r]) |-> KeysOf[r][i]]
  <2>2. f \in Surjection(1 .. Len(KeysOf[r]), KeySet(r))
    BY DEF Surjection, KeySet
  <2>3. IsFiniteSet(1 .. Len(KeysOf[r]))
    BY <2>1, FS_Interval
  <2>4. QED
    BY <2>2, <2>3, FS_Surjection
<1>2. held[r] \in SUBSET KeySet(r) /\ Unclaimed(r) \in SUBSET KeySet(r)
  BY DEF TypeInv, Shape, Unclaimed
<1>3. QED
  BY <1>1, <1>2, FS_Subset, FS_CardinalityType

(* What a run in the loop has left: its drafts, and the rest of this one.  *)
LEMMA WorkInLoop ==
  ASSUME TypeInv, NEW r \in Runs, pc[r] \in {"reserve", "release", "insert"}
  PROVE  /\ WorkLeft(r) = (Len(DraftsOf[r]) - pos[r]) * PerDraft(r) + OfDraft(r) + 3
         /\ Len(DraftsOf[r]) - pos[r] \in Nat /\ PerDraft(r) \in Nat
         /\ (Len(DraftsOf[r]) - pos[r]) * PerDraft(r) \in Nat
         /\ OfDraft(r) \in Nat /\ 1 <= OfDraft(r) /\ OfDraft(r) < PerDraft(r)
<1>1. WorkLeft(r) = (Len(DraftsOf[r]) - pos[r]) * PerDraft(r) + OfDraft(r) + 3
  BY DEF WorkLeft
<1>2. Len(DraftsOf[r]) - pos[r] \in Nat
  <2>1. Len(DraftsOf[r]) \in Nat /\ pos[r] \in 1 .. Len(DraftsOf[r])
    BY CapsAssumption DEF TypeInv, Shape
  <2>2. QED
    BY <2>1
<1>3. PerDraft(r) \in Nat /\ OfDraft(r) \in Nat /\ 1 <= OfDraft(r) /\ OfDraft(r) < PerDraft(r)
  BY KeyCounts DEF PerDraft, OfDraft
<1>4. (Len(DraftsOf[r]) - pos[r]) * PerDraft(r) \in Nat
  BY <1>2, <1>3, Products
<1>5. QED
  BY <1>1, <1>2, <1>3, <1>4

LEMMA SameWork ==
  ASSUME NEW r \in Runs, pc'[r] = pc[r], pos'[r] = pos[r], held'[r] = held[r],
         over'[r] = over[r]
  PROVE  WorkLeft(r)' = WorkLeft(r)
  BY DEF WorkLeft, PerDraft, OfDraft, Unclaimed, KeySet

(* A step within a draft, and one to the next draft or out of the loop.    *)
LEMMA WithinDraft ==
  ASSUME TypeInv, TypeInv', NEW r \in Runs, pc[r] \in {"reserve", "release", "insert"},
         pc'[r] \in {"reserve", "release", "insert"}, pos'[r] = pos[r],
         OfDraft(r)' < OfDraft(r)
  PROVE  WorkLeft(r)' < WorkLeft(r)
<1>1. /\ WorkLeft(r) = (Len(DraftsOf[r]) - pos[r]) * PerDraft(r) + OfDraft(r) + 3
      /\ (Len(DraftsOf[r]) - pos[r]) * PerDraft(r) \in Nat /\ OfDraft(r) \in Nat
  BY WorkInLoop
<1>2. /\ WorkLeft(r)' = (Len(DraftsOf[r]) - pos'[r]) * PerDraft(r)' + OfDraft(r)' + 3
      /\ OfDraft(r)' \in Nat
  <2>1. (pc[r] \in {"reserve", "release", "insert"})'
    OBVIOUS
  <2>2. (/\ WorkLeft(r) = (Len(DraftsOf[r]) - pos[r]) * PerDraft(r) + OfDraft(r) + 3
         /\ OfDraft(r) \in Nat)'
    BY <2>1, WorkInLoop, PTL
  <2>3. QED
    BY <2>2
<1>3. PerDraft(r)' = PerDraft(r)
  BY DEF PerDraft, KeySet
<1>4. QED
  BY <1>1, <1>2, <1>3

LEMMA NextDraft ==
  ASSUME TypeInv, TypeInv', NEW r \in Runs, pc[r] \in {"reserve", "release", "insert"},
         AtDraft(r, pos[r] + 1)
  PROVE  WorkLeft(r)' < WorkLeft(r)
<1>1. /\ WorkLeft(r) = (Len(DraftsOf[r]) - pos[r]) * PerDraft(r) + OfDraft(r) + 3
      /\ Len(DraftsOf[r]) - pos[r] \in Nat /\ PerDraft(r) \in Nat
      /\ (Len(DraftsOf[r]) - pos[r]) * PerDraft(r) \in Nat
      /\ OfDraft(r) \in Nat /\ 1 <= OfDraft(r)
  BY WorkInLoop
<1>2. /\ pos'[r] = pos[r] + 1
      /\ pc'[r] = IF pos[r] + 1 <= Len(DraftsOf[r]) THEN "reserve" ELSE "commit"
  BY DEF AtDraft, TypeInv, TypeOK
<1>3. CASE pc'[r] = "commit"
  <2>1. WorkLeft(r)' = 3
    BY <1>3 DEF WorkLeft
  <2>2. QED
    BY <1>1, <2>1
<1>4. CASE pc'[r] = "reserve"
  <2>1. /\ WorkLeft(r)' = (Len(DraftsOf[r]) - pos'[r]) * PerDraft(r)' + OfDraft(r)' + 3
        /\ Len(DraftsOf[r]) - pos'[r] \in Nat
        /\ OfDraft(r)' \in Nat /\ OfDraft(r)' < PerDraft(r)'
    <3>1. (pc[r] \in {"reserve", "release", "insert"})'
      BY <1>4
    <3>2. (/\ WorkLeft(r) = (Len(DraftsOf[r]) - pos[r]) * PerDraft(r) + OfDraft(r) + 3
           /\ Len(DraftsOf[r]) - pos[r] \in Nat
           /\ OfDraft(r) \in Nat /\ OfDraft(r) < PerDraft(r))'
      BY <3>1, WorkInLoop, PTL
    <3>3. QED
      BY <3>2
  <2>2. PerDraft(r)' = PerDraft(r)
    BY DEF PerDraft, KeySet
  <2> DEFINE n == Len(DraftsOf[r]) - pos'[r]
  <2>3. n \in Nat /\ Len(DraftsOf[r]) - pos[r] = n + 1
    <3>1. Len(DraftsOf[r]) \in Nat /\ pos[r] \in Nat
      BY CapsAssumption DEF TypeInv, TypeOK
    <3>2. QED
      BY <1>2, <2>1, <3>1
  <2> HIDE DEF n
  <2>4. (n + 1) * PerDraft(r) = n * PerDraft(r) + PerDraft(r) /\ n * PerDraft(r) \in Nat
    BY <1>1, <2>3, Products
  <2>5. WorkLeft(r)' = n * PerDraft(r) + OfDraft(r)' + 3
    BY <2>1, <2>2 DEF n
  <2>6. WorkLeft(r) = n * PerDraft(r) + PerDraft(r) + OfDraft(r) + 3
    BY <1>1, <2>3, <2>4
  <2> DEFINE a == n * PerDraft(r)
             o == OfDraft(r)'
  <2>7. a \in Nat /\ o \in Nat /\ PerDraft(r) \in Nat /\ o < PerDraft(r)
    BY <1>1, <2>1, <2>2, <2>4
  <2>8. WorkLeft(r)' = a + o + 3 /\ WorkLeft(r) = a + PerDraft(r) + OfDraft(r) + 3
    BY <2>5, <2>6
  <2> HIDE DEF a, o
  <2>9. QED
    BY <1>1, <2>7, <2>8
<1>5. QED
  BY <1>2, <1>3, <1>4

LEMMA StartWork ==
  ASSUME TypeInv, TypeInv', NEW r \in Runs, Start(r)
  PROVE  WorkLeft(r)' < WorkLeft(r)
<1> DEFINE L == Len(DraftsOf[r])
           P == PerDraft(r)
<1>1. pc[r] = "queued" /\ WorkLeft(r) = L * P + 4
  BY DEF Start, WorkLeft
<1>2. /\ L \in Nat /\ P \in Nat /\ L * P \in Nat
      /\ DraftsOf[r] # <<>> => L >= 1
  <2>1. L \in Nat /\ P \in Nat /\ (DraftsOf[r] # <<>> => L >= 1)
    BY KeyCounts, CapsAssumption DEF PerDraft
  <2> HIDE DEF L, P
  <2>2. QED
    BY <2>1, Products
<1>3. CASE DraftsOf[r] = <<>>
  <2>1. pc'[r] = "committed"
    BY <1>3 DEF Start, TypeInv, TypeOK
  <2>2. WorkLeft(r)' = 2
    BY <2>1 DEF WorkLeft
  <2> HIDE DEF L, P
  <2>3. QED
    BY <1>1, <1>2, <2>2
<1>4. CASE DraftsOf[r] # <<>>
  <2>1. pc'[r] = "reserve" /\ pos'[r] = 1
    BY <1>2, <1>4 DEF Start, AtDraft, TypeInv, TypeOK
  <2>2. WorkLeft(r)' = (L - pos'[r]) * P' + OfDraft(r)' + 3 /\ OfDraft(r)' \in Nat /\ OfDraft(r)' < P'
    <3>1. (pc[r] \in {"reserve", "release", "insert"})'
      BY <2>1
    <3>2. (/\ WorkLeft(r) = (Len(DraftsOf[r]) - pos[r]) * PerDraft(r) + OfDraft(r) + 3
           /\ OfDraft(r) \in Nat /\ OfDraft(r) < PerDraft(r))'
      BY <3>1, WorkInLoop, PTL
    <3>3. QED
      BY <3>2
  <2>3. P' = P
    BY DEF PerDraft, KeySet
  <2>4. WorkLeft(r)' = (L - 1) * P + OfDraft(r)' + 3 /\ OfDraft(r)' < P
    BY <2>1, <2>2, <2>3
  <2> HIDE DEF L, P
  <2>5. PICK n \in Nat : L = n + 1 /\ n = L - 1
    <3>1. L - 1 \in Nat /\ L = (L - 1) + 1
      BY <1>2, <1>4
    <3>2. QED
      BY <3>1
  <2>6. (n + 1) * P = n * P + P /\ n * P \in Nat
    BY <1>2, <2>5, Products
  <2>7. WorkLeft(r)' = n * P + OfDraft(r)' + 3
    BY <2>4, <2>5
  <2>8. WorkLeft(r) = n * P + P + 4
    BY <1>1, <2>5, <2>6
  <2> DEFINE a == n * P
             o == OfDraft(r)'
  <2>9. a \in Nat /\ o \in Nat /\ P \in Nat /\ o < P
    BY <1>2, <2>2, <2>4, <2>6
  <2>10. WorkLeft(r)' = a + o + 3 /\ WorkLeft(r) = a + P + 4
    BY <2>7, <2>8
  <2> HIDE DEF a, o
  <2>11. QED
    BY <2>9, <2>10
<1>5. QED
  BY <1>3, <1>4

(* Each step within the loop over the drafts.                              *)
LEMMA LoopWork ==
  ASSUME TypeInv, TypeInv', NEW r \in Runs,
         Claim(r) \/ Overshoot(r) \/ Revert(r) \/ Refuse(r) \/ Reserved(r) \/ GiveBack(r)
           \/ Skip(r) \/ Insert(r) \/ Duplicate(r)
  PROVE  WorkLeft(r)' < WorkLeft(r)
<1> DEFINE K == Cardinality(KeySet(r))
           InLoop == {"reserve", "release", "insert"}
<1>1. /\ K \in Nat /\ Cardinality(held[r]) \in 0 .. K /\ Cardinality(Unclaimed(r)) \in 0 .. K
      /\ IsFiniteSet(held[r]) /\ IsFiniteSet(Unclaimed(r))
  BY KeyCounts
<1>2. /\ pc \in [Runs -> PCs] /\ held \in [Runs -> SUBSET Keys]
      /\ over \in [Runs -> Keys \cup {NoKey}] /\ NoKey \notin Keys
      /\ pc[r] # "reserve" => over[r] = NoKey
  BY CapsAssumption DEF TypeInv, TypeOK, Shape
<1>3. KeySet(r)' = KeySet(r)
  BY DEF KeySet
<1>4. CASE Claim(r)
  <2>1. PICK k \in Keys : k \in Unclaimed(r) /\ held' = [held EXCEPT ![r] = @ \cup {k}]
    BY <1>4 DEF Claim, IsNext, IsFirst
  <2>2. pc[r] = "reserve" /\ over[r] = NoKey /\ UNCHANGED <<pc, pos, over>>
    BY <1>4 DEF Claim
  <2>3. Unclaimed(r)' = Unclaimed(r) \ {k}
    BY <1>2, <1>3, <2>1 DEF Unclaimed
  <2>4. Cardinality(Unclaimed(r)') = Cardinality(Unclaimed(r)) - 1
    BY <1>1, <2>1, <2>3, FS_RemoveElement
  <2>5. OfDraft(r) = K + 4 + Cardinality(Unclaimed(r))
    BY <2>2 DEF OfDraft
  <2>6. OfDraft(r)' = K + 4 + Cardinality(Unclaimed(r)')
    BY <1>3, <2>2 DEF OfDraft
  <2> HIDE DEF K
  <2>7. OfDraft(r)' < OfDraft(r)
    BY <1>1, <2>4, <2>5, <2>6
  <2>8. QED
    BY <2>2, <2>7, WithinDraft
<1>5. CASE Overshoot(r)
  <2>1. /\ pc[r] = "reserve" /\ over[r] = NoKey /\ UNCHANGED <<pc, pos, held>>
        /\ over'[r] # NoKey
    BY <1>2, <1>5 DEF Overshoot
  <2>2. OfDraft(r) = K + 4 + Cardinality(Unclaimed(r)) /\ OfDraft(r)' = K + 3
    BY <1>3, <2>1 DEF OfDraft
  <2>3. OfDraft(r)' < OfDraft(r)
    BY <1>1, <2>2
  <2>4. QED
    BY <2>1, <2>3, WithinDraft
<1>6. CASE Revert(r) \/ Refuse(r) \/ Reserved(r) \/ Duplicate(r)
  <2>1. /\ pc[r] \in InLoop /\ pc'[r] \in InLoop /\ UNCHANGED <<pos, held>>
        /\ \/ pc[r] = "reserve" /\ pc'[r] \in {"release", "insert"}
           \/ pc[r] = "insert" /\ pc'[r] = "release"
    BY <1>2, <1>6 DEF Revert, Refuse, Reserved, Duplicate
  <2>2. pc[r] = "reserve" => OfDraft(r) >= K + 3
    BY <1>1 DEF OfDraft
  <2>3. pc[r] = "insert" => OfDraft(r) = K + 2
    BY DEF OfDraft
  <2>4. pc'[r] = "insert" => OfDraft(r)' = K + 2
    BY <1>3 DEF OfDraft
  <2>5. pc'[r] = "release" => OfDraft(r)' = Cardinality(held[r]) + 1
    BY <2>1 DEF OfDraft
  <2>6. OfDraft(r) \in Nat
    BY <2>1, WorkInLoop
  <2> HIDE DEF K
  <2>7. OfDraft(r)' < OfDraft(r)
    BY <1>1, <2>1, <2>2, <2>3, <2>4, <2>5, <2>6
  <2>8. QED
    BY <2>1, <2>7, WithinDraft
<1>7. CASE GiveBack(r)
  <2>1. PICK k \in Keys : k \in held[r] /\ held' = [held EXCEPT ![r] = @ \ {k}]
    BY <1>7 DEF GiveBack, IsFirst
  <2>2. pc[r] = "release" /\ UNCHANGED <<pc, pos>> /\ held'[r] = held[r] \ {k}
    BY <1>2, <1>7, <2>1 DEF GiveBack
  <2>3. Cardinality(held'[r]) = Cardinality(held[r]) - 1
    BY <1>1, <2>1, <2>2, FS_RemoveElement
  <2>4. OfDraft(r) = Cardinality(held[r]) + 1 /\ OfDraft(r)' = Cardinality(held'[r]) + 1
    BY <2>2 DEF OfDraft
  <2>5. OfDraft(r)' < OfDraft(r)
    BY <1>1, <2>3, <2>4
  <2>6. QED
    BY <2>2, <2>5, WithinDraft
<1>8. CASE Skip(r) \/ Insert(r)
  BY <1>8, NextDraft DEF Skip, Insert
<1>9. QED
  BY <1>4, <1>5, <1>6, <1>7, <1>8

LEMMA LastWork ==
  ASSUME TypeInv, TypeInv', NEW r \in Runs, Commit(r) \/ Checkpoint(r) \/ DeadlockVictim(r)
  PROVE  WorkLeft(r)' < WorkLeft(r)
<1>1. pc \in [Runs -> PCs]
  BY DEF TypeInv, TypeOK
<1>2. CASE Commit(r)
  <2>1. pc[r] = "commit" /\ pc'[r] = "committed"
    BY <1>1, <1>2 DEF Commit
  <2>2. WorkLeft(r) = 3 /\ WorkLeft(r)' = 2
    BY <2>1 DEF WorkLeft
  <2>3. QED
    BY <2>2
<1>3. CASE Checkpoint(r)
  <2>1. pc[r] = "committed" /\ pc'[r] = "done"
    BY <1>1, <1>3 DEF Checkpoint
  <2>2. WorkLeft(r) = 2 /\ WorkLeft(r)' = 0
    BY <2>1 DEF WorkLeft
  <2>3. QED
    BY <2>2
<1>4. CASE DeadlockVictim(r)
  <2>1. pc[r] = "insert" /\ pc'[r] = "failed"
    BY <1>1, <1>4 DEF DeadlockVictim, Deadlocked, Circle, Waits, Stop
  <2>2. WorkLeft(r)' = 0
    BY <2>1 DEF WorkLeft
  <2>3. QED
    BY <2>1, <2>2, WorkInLoop
<1>5. QED
  BY <1>2, <1>3, <1>4

(* Every step of a run brings it nearer to its end, and takes nothing back *)
(* for another run: with WaitingResolved, what RunsEnd needs of the code.  *)
THEOREM WorkRunsOut == Spec => StepsUseUpWork
<1> DEFINE Less == \A r \in Runs :
             Step(r) => /\ WorkLeft(r)' < WorkLeft(r)
                        /\ \A s \in Runs \ {r} : WorkLeft(s)' = WorkLeft(s)
<1>1. ASSUME TypeInv, TypeInv' PROVE Less
  <2>1. ASSUME NEW r \in Runs, Step(r) PROVE WorkLeft(r)' < WorkLeft(r)
    BY <1>1, <2>1, StartWork, LoopWork, LastWork DEF Step
  <2>2. ASSUME NEW r \in Runs, Step(r), NEW s \in Runs \ {r}
        PROVE  WorkLeft(s)' = WorkLeft(s)
    <3>1. pc'[s] = pc[s] /\ pos'[s] = pos[s] /\ held'[s] = held[s] /\ over'[s] = over[s]
      BY <1>1, <2>2 DEF TypeInv, TypeOK, Step, Start, Claim, Overshoot, Revert, Refuse, Reserved,
         GiveBack, Skip, Insert, Duplicate, Commit, Checkpoint, DeadlockVictim, Stop, AtDraft
    <3>2. QED
      BY <3>1, SameWork
  <2>3. QED
    BY <2>1, <2>2
<1>2. Spec => []TypeInv
  BY InitTypeInv, TypeInvStep, PTL DEF Spec
<1>3. TypeInv /\ TypeInv' => [Less]_vars
  BY <1>1
<1> HIDE DEF Less
<1>4. Spec => [][Less]_vars
  BY <1>2, <1>3, PTL
<1>5. QED
  BY <1>4 DEF StepsUseUpWork, Less

=============================================================================
