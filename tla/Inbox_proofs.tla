---------------------------- MODULE Inbox_proofs ----------------------------
(***************************************************************************)
(* Proofs about Inbox, for any number of drafts, users and overlapping     *)
(* requests and any lock duration:                                         *)
(*   TypeCorrect      the type invariant                                   *)
(*   PostedRecorded   a POSTED draft has its posted_history row            *)
(*   PostedHandedOff  a POSTED draft was handed to a reviewer before       *)
(*   LockIsAFence     only requests that read the row before a lock was    *)
(*                    taken can still commit against it                    *)
(*   SweepSpares      the sweep leaves a lock in force alone               *)
(*   StatusMachine    the status machine is only passed by by a race       *)
(***************************************************************************)
EXTENDS Inbox, TLAPS

(* What a request holds in memory is what it was allowed to load, and what *)
(* its draft has on record already.                                        *)
Loaded(r) ==
    LET q == req[r] IN
    /\ q.status \in AllowedFrom(q.op)
    /\ LockIsFree(q.by, q.byAge, q.user)
    /\ q.status = "AWAITING_CONFIRM" => "open_copy" \in audit[q.draft]

InboxInv ==
    /\ TypeOK
    /\ \A r \in Requests : req[r] # Idle => Loaded(r)
    /\ PostedIsRecorded
    /\ \A d \in Drafts :
         status[d] \in {"AWAITING_CONFIRM", "POSTED"} => "open_copy" \in audit[d]

LEMMA InitInv == Init => InboxInv
  BY InboxAssumption
  DEF Init, InboxInv, TypeOK, Idle, PostedIsRecorded, DraftStatus, Ages, Stale

LEMMA InFlightReq ==
  ASSUME TypeOK, NEW r \in Requests, req[r] # Idle
  PROVE  req[r] \in InFlight
  BY DEF TypeOK

LEMMA TargetType ==
  ASSUME NEW op \in Ops, NEW s \in DraftStatus
  PROVE  /\ Target(op, s) \in DraftStatus
         /\ Target(op, s) = "POSTED" /\ s # "POSTED" => op = "confirm_posted"
         /\ Target(op, s) = "AWAITING_CONFIRM" /\ s # "AWAITING_CONFIRM" => op = "open_copy"
  BY DEF Target, DraftStatus, Ops

LEMMA OlderType ==
  ASSUME NEW a \in Ages
  PROVE  Older(a) \in Ages /\ (~(a < LockTicks) => ~(Older(a) < LockTicks))
  BY InboxAssumption DEF Older, Ages, Stale

-----------------------------------------------------------------------------
LEMMA LoadStep ==
  ASSUME InboxInv, NEW r \in Requests, NEW u \in Users, NEW op \in Ops,
         NEW d \in Drafts, Load(r, u, op, d)
  PROVE  InboxInv'
<1> DEFINE q == [op |-> op, user |-> u, draft |-> d, status |-> status[d],
                 by |-> lockedBy[d], byAge |-> lockAge[d], age |-> 0]
<1>1. q \in InFlight
  BY InboxAssumption DEF InboxInv, TypeOK, InFlight, Ages
<1>2. req' = [req EXCEPT ![r] = q]
  BY DEF Load
<1>3. UNCHANGED <<status, lockedBy, lockAge, postedHistory, audit>>
  BY DEF Load, rows
<1>4. TypeOK'
  BY <1>1, <1>2, <1>3 DEF InboxInv, TypeOK
<1>5. ASSUME NEW s \in Requests, req'[s] # Idle PROVE Loaded(s)'
  <2>1. CASE s = r
    <3>1. req'[s] = q
      BY <1>2, <2>1 DEF InboxInv, TypeOK
    <3>2. /\ status[d] \in AllowedFrom(op)
          /\ LockIsFree(lockedBy[d], lockAge[d], u)
          /\ status[d] = "AWAITING_CONFIRM" => "open_copy" \in audit[d]
      BY DEF Load, InboxInv
    <3>3. QED
      BY <1>3, <3>1, <3>2 DEF Loaded
  <2>2. CASE s # r
    <3>1. req'[s] = req[s]
      BY <1>2, <2>2 DEF InboxInv, TypeOK
    <3>2. Loaded(s)
      BY <1>5, <3>1 DEF InboxInv
    <3>3. QED
      BY <1>3, <3>1, <3>2 DEF Loaded
  <2>3. QED
    BY <2>1, <2>2
<1>6. QED
  BY <1>3, <1>4, <1>5 DEF InboxInv, PostedIsRecorded

LEMMA CommitStep ==
  ASSUME InboxInv, NEW r \in Requests, Commit(r)
  PROVE  InboxInv'
<1> DEFINE q == req[r]
<1>1. q \in InFlight /\ Loaded(r)
  BY InFlightReq DEF Commit, InboxInv
<1>2. /\ q.op \in Ops /\ q.user \in Users /\ q.draft \in Drafts
      /\ q.status \in DraftStatus /\ q.age \in Ages
  BY <1>1 DEF InFlight
<1>3. /\ status' = IF Target(q.op, q.status) = q.status THEN status
                   ELSE [status EXCEPT ![q.draft] = Target(q.op, q.status)]
      /\ lockedBy' = IF q.by = q.user THEN lockedBy
                     ELSE [lockedBy EXCEPT ![q.draft] = q.user]
      /\ lockAge' = [lockAge EXCEPT ![q.draft] = q.age]
      /\ postedHistory' = IF q.op = "confirm_posted"
                          THEN postedHistory \cup {PostOf[q.draft]} ELSE postedHistory
      /\ audit' = IF q.op = "lock" THEN audit
                  ELSE [audit EXCEPT ![q.draft] = @ \cup {q.op}]
      /\ req' = [req EXCEPT ![r] = Idle]
  BY DEF Commit, WriteRow, RecordPosted, WriteAudit
<1>4. Target(q.op, q.status) \in DraftStatus
  BY <1>2, TargetType
<1> HIDE DEF q
<1>5. TypeOK'
  <2>1. TypeOK
    BY DEF InboxInv
  <2>2. status' \in [Drafts -> DraftStatus] /\ lockedBy' \in [Drafts -> Users \cup {NoUser}]
    BY <1>2, <1>3, <1>4, <2>1 DEF TypeOK
  <2>3. lockAge' \in [Drafts -> Ages] /\ audit' \in [Drafts -> SUBSET Ops]
    BY <1>2, <1>3, <2>1 DEF TypeOK
  <2>4. postedHistory' \in SUBSET Posts
    BY <1>2, <1>3, <2>1, InboxAssumption DEF TypeOK
  <2>5. req' \in [Requests -> InFlight \cup {Idle}]
    BY <1>3, <2>1 DEF TypeOK
  <2>6. QED
    BY <2>2, <2>3, <2>4, <2>5 DEF TypeOK
<1>6. \A d \in Drafts : audit[d] \subseteq audit'[d]
  BY <1>2, <1>3 DEF InboxInv, TypeOK
<1>7. ASSUME NEW s \in Requests, req'[s] # Idle PROVE Loaded(s)'
  <2>1. req'[s] = req[s] /\ req[s] # Idle
    BY <1>3, <1>7 DEF InboxInv, TypeOK
  <2>2. Loaded(s) /\ req[s].draft \in Drafts
    BY <2>1, InFlightReq DEF InboxInv, InFlight
  <2>3. QED
    BY <1>6, <2>1, <2>2 DEF Loaded
<1>8. ASSUME NEW d \in Drafts, status'[d] = "POSTED" PROVE PostOf[d] \in postedHistory'
  <2>1. CASE status[d] = "POSTED"
    BY <1>3, <2>1 DEF InboxInv, PostedIsRecorded
  <2>2. CASE status[d] # "POSTED"
    <3>1. d = q.draft /\ Target(q.op, q.status) = "POSTED" /\ q.status # "POSTED"
      BY <1>2, <1>3, <1>8, <2>2 DEF InboxInv, TypeOK
    <3>2. q.op = "confirm_posted"
      BY <1>2, <3>1, TargetType
    <3>3. QED
      BY <1>3, <3>1, <3>2
  <2>3. QED
    BY <2>1, <2>2
<1>9. ASSUME NEW d \in Drafts, status'[d] \in {"AWAITING_CONFIRM", "POSTED"}
      PROVE  "open_copy" \in audit'[d]
  <2>1. CASE status'[d] = status[d]
    BY <1>6, <1>9, <2>1 DEF InboxInv
  <2>2. CASE status'[d] # status[d]
    <3>1. /\ d = q.draft /\ Target(q.op, q.status) # q.status
          /\ status'[d] = Target(q.op, q.status)
      BY <1>2, <1>3, <2>2 DEF InboxInv, TypeOK
    <3>2. CASE q.op = "confirm_posted"
      <4>1. q.status = "AWAITING_CONFIRM"
        BY <1>1, <3>2 DEF Loaded, AllowedFrom, q
      <4>2. "open_copy" \in audit[d]
        BY <1>1, <3>1, <4>1 DEF Loaded, q
      <4>3. QED
        BY <1>6, <4>2
    <3>3. CASE q.op # "confirm_posted"
      <4>1. q.op = "open_copy"
        BY <1>2, <1>9, <3>1, <3>3, TargetType
      <4>2. QED
        BY <1>2, <1>3, <3>1, <4>1 DEF InboxInv, TypeOK
    <3>4. QED
      BY <3>2, <3>3
  <2>3. QED
    BY <2>1, <2>2
<1>10. QED
  BY <1>5, <1>7, <1>8, <1>9 DEF InboxInv, PostedIsRecorded

LEMMA AbortStep ==
  ASSUME InboxInv, NEW r \in Requests, Abort(r)
  PROVE  InboxInv'
<1>1. req' = [req EXCEPT ![r] = Idle]
  BY DEF Abort
<1>2. UNCHANGED <<status, lockedBy, lockAge, postedHistory, audit>>
  BY DEF Abort, rows
<1>3. TypeOK'
  BY <1>1, <1>2 DEF InboxInv, TypeOK
<1>4. ASSUME NEW s \in Requests, req'[s] # Idle PROVE Loaded(s)'
  <2>1. req'[s] = req[s] /\ req[s] # Idle
    BY <1>1, <1>4 DEF InboxInv, TypeOK
  <2>2. QED
    BY <1>2, <2>1 DEF InboxInv, Loaded
<1>5. QED
  BY <1>2, <1>3, <1>4 DEF InboxInv, PostedIsRecorded

LEMMA SweepStep ==
  ASSUME InboxInv, ClearExpiredLocks
  PROVE  InboxInv'
<1>1. UNCHANGED <<status, lockAge, postedHistory, audit, req>>
  BY DEF ClearExpiredLocks
<1>2. TypeOK'
  BY DEF ClearExpiredLocks, InboxInv, TypeOK
<1>3. \A s \in Requests : req'[s] # Idle => Loaded(s)'
  BY <1>1 DEF InboxInv, Loaded
<1>4. QED
  BY <1>1, <1>2, <1>3 DEF InboxInv, PostedIsRecorded

(* While time passes a lock that was free for a request stays free for it. *)
LEMMA TickStep ==
  ASSUME InboxInv, Tick
  PROVE  InboxInv'
<1>1. UNCHANGED <<status, lockedBy, postedHistory, audit>>
  BY DEF Tick
<1>2. ASSUME NEW s \in Requests, req[s] # Idle
      PROVE  /\ req'[s] \in InFlight
             /\ req'[s].op = req[s].op /\ req'[s].user = req[s].user
             /\ req'[s].draft = req[s].draft /\ req'[s].status = req[s].status
             /\ req'[s].by = req[s].by /\ req'[s].byAge = Older(req[s].byAge)
  <2>1. req[s] \in InFlight
    BY <1>2, InFlightReq DEF InboxInv
  <2>2. req'[s] = [req[s] EXCEPT !.byAge = Older(@), !.age = Older(@)]
    BY <1>2 DEF Tick
  <2>3. Older(req[s].byAge) \in Ages /\ Older(req[s].age) \in Ages
    BY <2>1, OlderType DEF InFlight
  <2>4. QED
    BY <2>1, <2>2, <2>3 DEF InFlight
<1>3. TypeOK'
  <2>1. req' \in [Requests -> InFlight \cup {Idle}]
    BY <1>2 DEF Tick
  <2>2. lockAge' \in [Drafts -> Ages]
    BY OlderType DEF Tick, InboxInv, TypeOK
  <2>3. QED
    BY <1>1, <2>1, <2>2 DEF InboxInv, TypeOK
<1>4. ASSUME NEW s \in Requests, req'[s] # Idle PROVE Loaded(s)'
  <2>1. req[s] # Idle
    BY <1>4 DEF Tick
  <2>2. Loaded(s) /\ req[s] \in InFlight
    BY <2>1, InFlightReq DEF InboxInv
  <2>3. LockIsFree(req[s].by, Older(req[s].byAge), req[s].user)
    BY <2>2, OlderType DEF Loaded, LockIsFree, InFlight
  <2>4. QED
    BY <1>1, <1>2, <2>1, <2>2, <2>3 DEF Loaded
<1>5. QED
  BY <1>1, <1>3, <1>4 DEF InboxInv, PostedIsRecorded

LEMMA InvStep ==
  ASSUME InboxInv, [Next]_vars
  PROVE  InboxInv'
<1>1. CASE UNCHANGED vars
  BY <1>1 DEF vars, InboxInv, TypeOK, PostedIsRecorded, Loaded
<1>2. QED
  BY <1>1, LoadStep, CommitStep, AbortStep, SweepStep, TickStep DEF Next

LEMMA InvHolds == Spec => []InboxInv
  BY InitInv, InvStep, PTL DEF Spec

-----------------------------------------------------------------------------
(* Type correctness: every variable of the inbox has its type. *)
THEOREM TypeCorrect == Spec => []TypeOK
<1>1. InboxInv => TypeOK
  BY DEF InboxInv
<1>2. QED
  BY <1>1, InvHolds, PTL

(* Whatever requests overlap, a draft that shows as POSTED is in           *)
(* posted_history, which later polls use to leave the post alone.          *)
THEOREM PostedRecorded == Spec => []PostedIsRecorded
<1>1. InboxInv => PostedIsRecorded
  BY DEF InboxInv
<1>2. QED
  BY <1>1, InvHolds, PTL

(* Whatever requests overlap, no draft is POSTED that was not opened and   *)
(* copied by a reviewer before.                                            *)
THEOREM PostedHandedOff == Spec => []PostedWasHandedOff
<1>1. InboxInv => PostedWasHandedOff
  BY DEF InboxInv, PostedWasHandedOff
<1>2. QED
  BY <1>1, InvHolds, PTL

(* A lock in force can be overridden only by a request that read the draft *)
(* before the lock was taken.                                              *)
THEOREM LockIsAFence == Spec => []OnlyStaleRequestsCanOverrideALock
<1>1. InboxInv => OnlyStaleRequestsCanOverrideALock
  BY DEF InboxInv, OnlyStaleRequestsCanOverrideALock, Working, Loaded, LockIsFree
<1>2. QED
  BY <1>1, InvHolds, PTL

(* clear_expired_locks takes away no lock that a handler would still       *)
(* enforce.                                                                *)
THEOREM SweepSpares == Spec => SweepSparesLiveLocks
<1> DEFINE Spared ==
      \A d \in Drafts :
        (ClearExpiredLocks /\ lockAge[d] < LockTicks) => lockedBy'[d] = lockedBy[d]
<1>1. InboxInv => [Spared]_vars
  <2>1. SUFFICES ASSUME InboxInv, NEW d \in Drafts, ClearExpiredLocks, lockAge[d] < LockTicks
                 PROVE  lockedBy'[d] = lockedBy[d]
    OBVIOUS
  <2>2. ~Expired(d)
    BY <2>1, InboxAssumption DEF Expired, InboxInv, TypeOK, Ages
  <2>3. QED
    BY <2>1, <2>2 DEF ClearExpiredLocks
<1>2. QED
  BY <1>1, InvHolds, PTL DEF SweepSparesLiveLocks

(* A status change that its status does not allow is the commit of a       *)
(* request that read another one before: _require_status passed, and the   *)
(* row changed between the SELECT and the UPDATE.                          *)
THEOREM StatusMachine == Spec => StatusChangesAreLegalOrRaced
<1> DEFINE LegalOrRaced ==
      \A d \in Drafts :
         status'[d] # status[d] =>
            \/ Legal(status[d], status'[d])
            \/ \E r \in Requests : /\ Commit(r) /\ req[r].draft = d
                                   /\ req[r].status # status[d]
                                   /\ Legal(req[r].status, status'[d])
<1>1. InboxInv /\ [Next]_vars => [LegalOrRaced]_vars
  <2>1. SUFFICES ASSUME InboxInv, Next, NEW d \in Drafts, status'[d] # status[d]
                 PROVE  \/ Legal(status[d], status'[d])
                        \/ \E r \in Requests : /\ Commit(r) /\ req[r].draft = d
                                               /\ req[r].status # status[d]
                                               /\ Legal(req[r].status, status'[d])
    OBVIOUS
  <2>2. PICK r \in Requests : Commit(r)
    BY <2>1 DEF Next, Load, Abort, ClearExpiredLocks, Tick, rows
  <2>3. req[r] \in InFlight /\ Loaded(r)
    BY <2>1, <2>2, InFlightReq DEF Commit, InboxInv
  <2>4. req[r].draft = d /\ status'[d] = Target(req[r].op, req[r].status)
    BY <2>1, <2>2, <2>3 DEF Commit, WriteRow, InFlight, InboxInv, TypeOK
  <2>5. Legal(req[r].status, status'[d])
    BY <2>3, <2>4 DEF Loaded, Legal, InFlight
  <2>6. QED
    BY <2>2, <2>4, <2>5
<1>2. QED
  BY <1>1, InvHolds, PTL DEF Spec, StatusChangesAreLegalOrRaced

=============================================================================
