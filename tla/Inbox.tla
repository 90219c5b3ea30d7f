------------------------------- MODULE Inbox -------------------------------
(***************************************************************************)
(* The human-in-the-loop inbox (backend/api/inbox.py) and the maintenance  *)
(* task that clears expired draft locks (backend/tasks/workers.py).        *)
(*                                                                         *)
(* Every mutating handler is the same transaction: SELECT the draft with   *)
(* no row lock, check its status, check and take over its 15-minute lock   *)
(* on the object in memory, then flush and COMMIT.  Other requests and the *)
(* sweep run between the SELECT and the COMMIT, so a handler is two steps  *)
(* here, Load and Commit, and the row in between may change.               *)
(*                                                                         *)
(* The ORM's UPDATE names only the columns whose new value differs from    *)
(* the value that was loaded; Commit writes exactly these.                 *)
(*                                                                         *)
(* Time is relative: a timestamp is the number of ticks since it was       *)
(* taken, saturated at LockTicks + 1.  A saturated locked_at and a NULL    *)
(* one are the same value: both guards treat them alike, because           *)
(* locked_at is NULL only where locked_by_user_id is NULL.                 *)
(***************************************************************************)
EXTENDS Integers, FiniteSets

CONSTANTS Drafts,      \* draft_replies rows of one organization
          Posts,       \* (platform, post_id) pairs
          PostOf,      \* the post each draft replies to
          Users,       \* reviewers of the organization
          NoUser,      \* NULL in locked_by_user_id
          Requests,    \* slots of requests that may be in flight together
          LockTicks    \* LOCK_DURATION, in ticks

ASSUME InboxAssumption ==
    /\ PostOf \in [Drafts -> Posts]
    /\ NoUser \notin Users
    /\ LockTicks \in Nat \ {0}

VARIABLES status,         \* draft_replies.status
          lockedBy,       \* draft_replies.locked_by_user_id
          lockAge,        \* ticks since draft_replies.locked_at
          postedHistory,  \* posts that have a posted_history row
          audit,          \* audit_log actions written for each draft
          req             \* what each request in flight holds in memory

rows == <<status, lockedBy, lockAge>>
vars == <<status, lockedBy, lockAge, postedHistory, audit, req>>

DraftStatus == {"PENDING", "AWAITING_CONFIRM", "POSTED", "REJECTED",
                "IGNORED", "FAILED", "FAILED_COST_LIMIT"}
Open  == {"PENDING", "AWAITING_CONFIRM"}
Ops   == {"lock", "edit", "open_copy", "confirm_posted", "unconfirm",
          "reject", "ignore"}
Ages  == 0 .. LockTicks + 1
Stale == LockTicks + 1

(* Mutant: confirm-posted is accepted from PENDING as well. *)
AllowedFromAnyOpen(op) == IF op = "unconfirm" THEN {"AWAITING_CONFIRM"} ELSE Open

(* The _..._FROM sets: the statuses from which a handler may be called. *)
AllowedFrom(op) ==
    IF op \in {"confirm_posted", "unconfirm"} THEN {"AWAITING_CONFIRM"} ELSE Open

(* The status a handler assigns to the object it loaded with status s. *)
Target(op, s) ==
    CASE op = "open_copy"      -> "AWAITING_CONFIRM"
      [] op = "confirm_posted" -> "POSTED"
      [] op = "unconfirm"      -> "PENDING"
      [] op = "reject"         -> "REJECTED"
      [] op = "ignore"         -> "IGNORED"
      [] OTHER                 -> s

Idle == [op |-> "none"]
InFlight == [op : Ops, user : Users, draft : Drafts, status : DraftStatus,
             by : Users \cup {NoUser}, byAge : Ages, age : Ages]
Working == {r \in Requests : req[r] # Idle}

(* Mutant: the lock's age is compared the wrong way round. *)
LockIsFreeReversed(by, age, u) == by \in {NoUser, u} \/ age < LockTicks

(* _enforce_and_take_over_lock does not raise for user u. *)
LockIsFree(by, age, u) == by \in {NoUser, u} \/ ~(age < LockTicks)

----------------------------------------------------------------------------
Init ==
    /\ status \in [Drafts -> {"PENDING", "FAILED", "FAILED_COST_LIMIT"}]
    /\ lockedBy = [d \in Drafts |-> NoUser]
    /\ lockAge = [d \in Drafts |-> Stale]
    /\ postedHistory = {}
    /\ audit = [d \in Drafts |-> {}]
    /\ req = [r \in Requests |-> Idle]

(* Mutant: a handler does not call _require_status. *)
LoadAnyStatus(r, u, op, d) ==
    /\ req[r] = Idle
    /\ LockIsFree(lockedBy[d], lockAge[d], u)
    /\ req' = [req EXCEPT ![r] =
                 [op |-> op, user |-> u, draft |-> d, status |-> status[d],
                  by |-> lockedBy[d], byAge |-> lockAge[d], age |-> 0]]
    /\ UNCHANGED <<rows, postedHistory, audit>>

(* The handler up to its first write: db.get, _require_status and the lock *)
(* check, all on the loaded object, with `now` taken here.  A 409 leaves   *)
(* no trace, so a refused request is not a step.                           *)
Load(r, u, op, d) ==
    /\ req[r] = Idle
    /\ status[d] \in AllowedFrom(op)
    /\ LockIsFree(lockedBy[d], lockAge[d], u)
    /\ req' = [req EXCEPT ![r] =
                 [op |-> op, user |-> u, draft |-> d, status |-> status[d],
                  by |-> lockedBy[d], byAge |-> lockAge[d], age |-> 0]]
    /\ UNCHANGED <<rows, postedHistory, audit>>

(* The columns an UPDATE writes are those that differ from the loaded      *)
(* object; locked_at always does.                                          *)
WriteRow(q) ==
    /\ status' = IF Target(q.op, q.status) = q.status THEN status
                 ELSE [status EXCEPT ![q.draft] = Target(q.op, q.status)]
    /\ lockedBy' = IF q.by = q.user THEN lockedBy
                   ELSE [lockedBy EXCEPT ![q.draft] = q.user]
    /\ lockAge' = [lockAge EXCEPT ![q.draft] = q.age]

(* Mutant: confirm-posted forgets the history row. *)
RecordNothing(q) == postedHistory' = postedHistory

(* INSERT ... ON CONFLICT DO NOTHING, in confirm_posted_draft only. *)
RecordPosted(q) ==
    postedHistory' = IF q.op = "confirm_posted"
                     THEN postedHistory \cup {PostOf[q.draft]}
                     ELSE postedHistory

(* write_audit_log, in every handler but lock_draft. *)
WriteAudit(q) ==
    audit' = IF q.op = "lock" THEN audit
             ELSE [audit EXCEPT ![q.draft] = @ \cup {q.op}]

(* The transaction commits: all of its writes become visible at once. *)
Commit(r) ==
    /\ req[r] # Idle
    /\ WriteRow(req[r])
    /\ RecordPosted(req[r])
    /\ WriteAudit(req[r])
    /\ req' = [req EXCEPT ![r] = Idle]

(* The client goes away, the database errors or the server stops: get_db   *)
(* closes the session and the transaction rolls back.                      *)
Abort(r) ==
    /\ req[r] # Idle
    /\ req' = [req EXCEPT ![r] = Idle]
    /\ UNCHANGED <<rows, postedHistory, audit>>

(* Mutant: the sweep clears a lock before it has run out. *)
ExpiredEarly(d) == lockAge[d] >= LockTicks - 1

(* clear_expired_locks: one UPDATE of every row with locked_at < now - 15. *)
Expired(d) == lockAge[d] > LockTicks
ClearExpiredLocks ==
    /\ \E d \in Drafts : Expired(d) /\ lockedBy[d] # NoUser
    /\ lockedBy' = [d \in Drafts |-> IF Expired(d) THEN NoUser ELSE lockedBy[d]]
    /\ UNCHANGED <<status, lockAge, postedHistory, audit, req>>

Older(a) == IF a < Stale THEN a + 1 ELSE Stale
Tick ==
    /\ lockAge' = [d \in Drafts |-> Older(lockAge[d])]
    /\ req' = [r \in Requests |->
                 IF req[r] = Idle THEN Idle
                 ELSE [req[r] EXCEPT !.byAge = Older(@), !.age = Older(@)]]
    /\ UNCHANGED <<status, lockedBy, postedHistory, audit>>

Next ==
    \/ \E r \in Requests, u \in Users, op \in Ops, d \in Drafts : Load(r, u, op, d)
    \/ \E r \in Requests : Commit(r) \/ Abort(r)
    \/ ClearExpiredLocks
    \/ Tick

Spec == Init /\ [][Next]_vars

----------------------------------------------------------------------------
(* Every variable has its type. *)
TypeOK ==
    /\ status \in [Drafts -> DraftStatus]
    /\ lockedBy \in [Drafts -> Users \cup {NoUser}]
    /\ lockAge \in [Drafts -> Ages]
    /\ postedHistory \in SUBSET Posts
    /\ audit \in [Drafts -> SUBSET Ops]
    /\ req \in [Requests -> InFlight \cup {Idle}]

(* A draft that shows as POSTED has its post in posted_history, whatever   *)
(* requests overlapped: confirm_posted_draft writes both in one            *)
(* transaction, and the deduplication of later polls reads only            *)
(* posted_history.                                                         *)
PostedIsRecorded ==
    \A d \in Drafts : status[d] = "POSTED" => PostOf[d] \in postedHistory

(* No draft is POSTED whose text was never handed to a reviewer: however   *)
(* requests overlap, an open-copy on it was committed before.              *)
PostedWasHandedOff ==
    \A d \in Drafts : status[d] = "POSTED" => "open_copy" \in audit[d]

(* The lock is a fence against requests that start later: while a user's   *)
(* lock is in force, a request of somebody else that can still commit on   *)
(* this draft is one that read the row before it had this lock.            *)
OnlyStaleRequestsCanOverrideALock ==
    \A r \in Working :
        LET q == req[r] IN
        (lockedBy[q.draft] \notin {NoUser, q.user} /\ lockAge[q.draft] < LockTicks)
            => <<q.by, q.byAge>> # <<lockedBy[q.draft], lockAge[q.draft]>>

(* The sweep never takes away a lock that the handlers would still enforce *)
(* (its threshold and the one of _enforce_and_take_over_lock agree).       *)
SweepSparesLiveLocks ==
    [][\A d \in Drafts :
         (ClearExpiredLocks /\ lockAge[d] < LockTicks) => lockedBy'[d] = lockedBy[d]]_vars

(* Two concurrent requests for different statuses are the only way past    *)
(* the status machine: a commit whose draft still has the status the       *)
(* request read makes a change that status allows, and leaves POSTED,      *)
(* REJECTED, IGNORED and the failed statuses alone.                        *)
Legal(s, t) == \E op \in Ops : s \in AllowedFrom(op) /\ t = Target(op, s)
StatusChangesAreLegalOrRaced ==
    [][\A d \in Drafts :
         status'[d] # status[d] =>
            \/ Legal(status[d], status'[d])
            \/ \E r \in Requests : /\ Commit(r) /\ req[r].draft = d
                                   /\ req[r].status # status[d]
                                   /\ Legal(req[r].status, status'[d])]_vars

=============================================================================
