------------------------------ MODULE Tenancy ------------------------------
(***************************************************************************)
(* One organization, one user and the membership between them, as Clerk    *)
(* has them and as the database has them: the Clerk webhook                *)
(* (backend/api/webhooks.py), just-in-time provisioning by a session token *)
(* (get_current_session, backend/utils/auth.py) and the purge of old       *)
(* webhook ids (backend/tasks/scheduler.py).                               *)
(*                                                                         *)
(* Clerk sends an event, numbered here, for every change; Svix delivers    *)
(* each in any order, and again until it has an answer.  A handler is one  *)
(* transaction: it inserts the event's id, reads, executes the statement   *)
(* of the event and commits.  So is the start of a session.                *)
(*                                                                         *)
(* Transactions are READ COMMITTED.  What one has written the others do    *)
(* not see before it commits; a statement that would write a row waits     *)
(* while another transaction has it written, but a DELETE or an UPDATE     *)
(* does not see a row that another has only inserted, and does nothing.    *)
(*                                                                         *)
(* The in-process caches of ids are left out: rows of organizations and    *)
(* users are never deleted, so that a cached id is what a query would find.*)
(***************************************************************************)
EXTENDS Integers, FiniteSets

CONSTANTS Handlers,    \* webhook requests at the same time
          Sessions,    \* authenticated requests at the same time
          MaxEvents,   \* bound on the changes in Clerk
          MaxFaults    \* bound on handlers that fail and answers that are lost

ASSUME TenancyAssumption ==
    /\ MaxEvents \in Nat /\ MaxFaults \in Nat
    /\ Handlers # {} /\ Sessions \cap Handlers = {}

VARIABLES clerk,      \* Clerk's side (external)
          tokens,     \* roles in the session tokens that have not expired
          events,     \* the event of each number
          svix,       \* numbers still to be delivered
          db,         \* organizations, users, org_memberships
          processed,  \* processed_webhook_events
          handler, session,
          uncommitted,  \* what each transaction has written
          applied,    \* how often each event was committed
          excused,    \* rows that may differ from Clerk
          faults

handling == <<handler, applied, processed>>
vars == <<clerk, tokens, events, svix, db, processed, handler, session,
          uncommitted, applied, excused, faults>>

ClerkRoles == {"org:admin", "org:member"}
Roles == {"ADMIN", "MEMBER"}
Ids == 1 .. MaxEvents
Emitted == {id \in Ids : events[id] # "none"}
Pending == svix \ processed
MembershipEvents == {"membership.admin", "membership.member", "membership.deleted"}
RoleEvents == MembershipEvents \cup {"user.deleted"}
OrgEvents == {"organization.created", "organization.deleted"}
EventTypes == {"user.created"} \cup OrgEvents \cup RoleEvents

(* The row that an event is about. *)
Rows == {"org", "user", "role"}
Row(type) == IF type \in RoleEvents THEN "role"
             ELSE IF type \in OrgEvents THEN "org" ELSE "user"

(* _map_clerk_role, and the same in the webhook. *)
MapClerkRole(role) == IF role = "org:admin" THEN "ADMIN" ELSE "MEMBER"

Stored(role) == IF role = "none" THEN "none" ELSE MapClerkRole(role)

Free == [at |-> "free"]
Closed == [at |-> "closed"]

Transactions == Handlers \cup Sessions
NoWrite == [org |-> "same", user |-> "same", role |-> "same"]

(* Nothing exists, or the organization and the user do on both sides. *)
Init ==
    /\ \/ /\ clerk = [org |-> "none", user |-> "none", role |-> "none"]
          /\ db = [org |-> "none", user |-> "none", role |-> "none"]
       \/ /\ clerk = [org |-> "active", user |-> "active", role |-> "none"]
          /\ db = [org |-> "active", user |-> "active", role |-> "none"]
    /\ tokens = {} /\ events = [id \in Ids |-> "none"] /\ svix = {}
    /\ processed = {}
    /\ handler = [h \in Handlers |-> Free]
    /\ session = [s \in Sessions |-> Closed]
    /\ applied = [id \in Ids |-> 0]
    /\ uncommitted = [t \in Transactions |-> NoWrite]
    /\ excused = {} /\ faults = 0

Fault == faults < MaxFaults /\ faults' = faults + 1

----------------------------------------------------------------------------
(* Transactions.                                                           *)

(* The row as the transaction leaves it when it commits. *)
After(t, row) == IF uncommitted[t][row] = "same" THEN db[row] ELSE uncommitted[t][row]

Executes(t, write) ==
    /\ \A row \in Rows : write[row] # "same" =>
         \A u \in Transactions \ {t} : uncommitted[u][row] = "same"
    /\ uncommitted' = [uncommitted EXCEPT ![t] = write]
Commits(t) ==
    /\ db' = [org |-> After(t, "org"), user |-> After(t, "user"), role |-> After(t, "role")]
    /\ uncommitted' = [uncommitted EXCEPT ![t] = NoWrite]
RollsBack(t) == uncommitted' = [uncommitted EXCEPT ![t] = NoWrite] /\ UNCHANGED db

----------------------------------------------------------------------------
(* Clerk and Svix.                                                         *)

Emit(type, after) ==
    LET id == Cardinality(Emitted) + 1 IN
    /\ id <= MaxEvents
    /\ clerk' = after
    /\ events' = [events EXCEPT ![id] = type]
    /\ svix' = svix \cup {id}
    /\ UNCHANGED <<tokens, db, handling, session, uncommitted, excused, faults>>

CreateUser ==
    /\ clerk.user = "none"
    /\ Emit("user.created", [clerk EXCEPT !.user = "active"])
CreateOrg ==
    /\ clerk.org = "none"
    /\ Emit("organization.created", [clerk EXCEPT !.org = "active"])
SetRole(role) ==
    /\ clerk.org = "active" /\ clerk.user = "active" /\ clerk.role # role
    /\ Emit(IF role = "org:admin" THEN "membership.admin" ELSE "membership.member",
            [clerk EXCEPT !.role = role])
RemoveMember ==
    /\ clerk.role # "none"
    /\ Emit("membership.deleted", [clerk EXCEPT !.role = "none"])
DeleteUser ==
    /\ clerk.user = "active"
    /\ Emit("user.deleted", [clerk EXCEPT !.user = "deleted", !.role = "none"])
DeleteOrg ==
    /\ clerk.org = "active"
    /\ Emit("organization.deleted", [clerk EXCEPT !.org = "deleted"])

IssueToken ==
    /\ clerk.org = "active" /\ clerk.role # "none" /\ clerk.role \notin tokens
    /\ tokens' = tokens \cup {clerk.role}
    /\ UNCHANGED <<clerk, events, svix, db, handling, session, uncommitted, excused,
                   faults>>
TokenExpires ==
    /\ tokens # {} /\ tokens' = {}
    /\ UNCHANGED <<clerk, events, svix, db, handling, session, uncommitted, excused,
                   faults>>

----------------------------------------------------------------------------
(* The webhook.                                                            *)

Handling(h) == handler[h] # Free
Event(h) == events[handler[h].id]

(* Mutant: the id is not looked for, only written. *)
ClaimAlways(h) ==
    /\ ~Handling(h)
    /\ \E id \in svix :
         handler' = [handler EXCEPT ![h] = [at |-> "claimed", id |-> id, org |-> db.org,
                                            user |-> db.user]]
    /\ UNCHANGED <<clerk, tokens, events, svix, db, processed, session, uncommitted,
                   applied, excused, faults>>

(* The INSERT ... ON CONFLICT DO NOTHING waits while another transaction   *)
(* has inserted the same id.  The rows that the event needs are looked up. *)
Claim(h) ==
    /\ ~Handling(h)
    /\ \E id \in Pending :
         /\ \A k \in Handlers : Handling(k) => handler[k].id # id
         /\ handler' = [handler EXCEPT ![h] = [at |-> "claimed", id |-> id,
                                               org |-> db.org, user |-> db.user]]
    /\ UNCHANGED <<clerk, tokens, events, svix, db, processed, session, uncommitted,
                   applied, excused, faults>>

(* An id that is there: "skipped", and Svix has its answer. *)
Duplicate ==
    \E id \in svix \cap processed :
        /\ svix' = svix \ {id}
        /\ UNCHANGED <<clerk, tokens, events, db, handling, session, uncommitted, excused,
                       faults>>

(* A membership event that finds no organization or no user is skipped. *)
Found(h) == handler[h].org # "none" /\ handler[h].user # "none"

(* Mutant: a membership that exists keeps its role. *)
UpsertRoleOnce(h, role) ==
    IF Found(h) /\ db.role = "none" THEN [NoWrite EXCEPT !.role = role] ELSE NoWrite

UpsertRole(h, role) == IF Found(h) THEN [NoWrite EXCEPT !.role = role] ELSE NoWrite

DeleteRole == IF db.role = "none" THEN NoWrite ELSE [NoWrite EXCEPT !.role = "none"]

(* What the event's statement writes, given the rows that are committed. *)
Statement(h) ==
    CASE Event(h) = "user.created" -> [NoWrite EXCEPT !.user = "active"]
      [] Event(h) = "user.deleted" -> IF handler[h].user # "none" THEN DeleteRole ELSE NoWrite
      [] Event(h) = "organization.created" ->
           IF db.org = "none" THEN [NoWrite EXCEPT !.org = "active"] ELSE NoWrite
      [] Event(h) = "organization.deleted" ->
           IF db.org = "none" THEN NoWrite ELSE [NoWrite EXCEPT !.org = "inactive"]
      [] Event(h) = "membership.admin" -> UpsertRole(h, MapClerkRole("org:admin"))
      [] Event(h) = "membership.member" -> UpsertRole(h, MapClerkRole("org:member"))
      [] Event(h) = "membership.deleted" -> IF Found(h) THEN DeleteRole ELSE NoWrite

(* The last word of Clerk on the row; a word that came before an earlier   *)
(* one was committed; a word that was not heard.                           *)
Newest(h) == \A id \in Emitted : id > handler[h].id => Row(events[id]) # Row(Event(h))
Early(h) == \E id \in Pending : id < handler[h].id /\ Row(events[id]) = Row(Event(h))
Skipped(h) ==
    \/ Event(h) \in RoleEvents /\ handler[h].user = "none"
    \/ Event(h) \in MembershipEvents /\ handler[h].org = "none"

Execute(h) ==
    /\ handler[h].at = "claimed"
    /\ Executes(h, Statement(h))
    /\ handler' = [handler EXCEPT ![h].at = "executed"]
    /\ excused' = IF ~Newest(h) THEN excused
                  ELSE IF Early(h) \/ Skipped(h) THEN excused \cup {Row(Event(h))}
                  ELSE excused \ {Row(Event(h))}
    /\ UNCHANGED <<clerk, tokens, events, svix, db, processed, session, applied, faults>>

(* The id and the effect.  The answer reaches Svix, or not. *)
Commit(h) ==
    /\ handler[h].at = "executed"
    /\ Commits(h)
    /\ processed' = processed \cup {handler[h].id}
    /\ applied' = [applied EXCEPT ![handler[h].id] = @ + 1]
    /\ handler' = [handler EXCEPT ![h] = Free]
    /\ \/ svix' = svix \ {handler[h].id} /\ UNCHANGED faults
       \/ UNCHANGED svix /\ Fault
    /\ UNCHANGED <<clerk, tokens, events, session, excused>>

(* An exception, or the process dies: everything is rolled back. *)
Fail(h) ==
    /\ Handling(h) /\ Fault
    /\ handler' = [handler EXCEPT ![h] = Free]
    /\ RollsBack(h)
    /\ UNCHANGED <<clerk, tokens, events, svix, processed, session, applied, excused>>

(* purge_old_webhook_events, 30 days after: Svix has given up long before, *)
(* and no handler is left.                                                 *)
Purge ==
    \E id \in processed \ svix :
        /\ processed' = processed \ {id}
        /\ UNCHANGED <<clerk, tokens, events, svix, db, handler, session, uncommitted,
                       applied, excused, faults>>

----------------------------------------------------------------------------
(* get_current_session.                                                    *)

(* The token's organization is looked for; an inactive one is answered 403. *)
OpenSession(s) ==
    /\ session[s] = Closed /\ db.org # "inactive"
    /\ \E role \in tokens :
         session' = [session EXCEPT ![s] = [at |-> "open", role |-> role, org |-> db.org]]
    /\ UNCHANGED <<clerk, tokens, events, svix, db, handling, uncommitted, excused, faults>>

(* Organization, user and membership are each looked for and, when the row *)
(* is missing, inserted, unless somebody else has by then; a membership    *)
(* that exists is left alone.  One step for the three: nobody sees a row   *)
(* of the session before it commits.  An organization that was missing and *)
(* has been inserted meanwhile is checked as well.                         *)
Missing(s) ==
    [org  |-> IF db.org = "none" THEN "active" ELSE "same",
     user |-> IF db.user = "none" THEN "active" ELSE "same",
     role |-> IF db.role = "none" THEN MapClerkRole(session[s].role) ELSE "same"]
Provision(s) ==
    /\ session[s].at = "open"
    /\ session[s].org = "none" => db.org # "inactive"
    /\ Executes(s, Missing(s))
    /\ session' = [session EXCEPT ![s].at = "provisioned"]
    /\ UNCHANGED <<clerk, tokens, events, svix, db, handling, excused, faults>>

(* The membership that it has inserted may no longer be Clerk's. *)
CommitSession(s) ==
    /\ session[s].at = "provisioned"
    /\ Commits(s)
    /\ session' = [session EXCEPT ![s] = Closed]
    /\ excused' = IF uncommitted[s].role \in {"same", Stored(clerk.role)} THEN excused
                  ELSE excused \cup {"role"}
    /\ UNCHANGED <<clerk, tokens, events, svix, handling, faults>>

(* 403, an exception (a row that the INSERT met is gone when it is read    *)
(* again), or the process dies.                                            *)
DropSession(s) ==
    /\ session[s] # Closed
    /\ session' = [session EXCEPT ![s] = Closed]
    /\ RollsBack(s)
    /\ UNCHANGED <<clerk, tokens, events, svix, handling, excused, faults>>

Next ==
    \/ CreateUser \/ CreateOrg \/ RemoveMember \/ DeleteUser \/ DeleteOrg
    \/ \E role \in ClerkRoles : SetRole(role)
    \/ IssueToken \/ TokenExpires
    \/ \E h \in Handlers : Claim(h) \/ Execute(h) \/ Commit(h) \/ Fail(h)
    \/ Duplicate \/ Purge
    \/ \E s \in Sessions :
         OpenSession(s) \/ Provision(s) \/ CommitSession(s) \/ DropSession(s)

Spec == Init /\ [][Next]_vars

----------------------------------------------------------------------------
(* Every variable has its type. *)
OrgStates == {"none", "active", "inactive"}
TypeOK ==
    /\ clerk \in [org : {"none", "active", "deleted"},
                  user : {"none", "active", "deleted"}, role : ClerkRoles \cup {"none"}]
    /\ tokens \subseteq ClerkRoles
    /\ events \in [Ids -> EventTypes \cup {"none"}]
    /\ svix \subseteq Emitted /\ processed \subseteq Emitted
    /\ db \in [org : OrgStates, user : {"none", "active"}, role : Roles \cup {"none"}]
    /\ handler \in [Handlers -> {Free} \cup
                       [at : {"claimed", "executed"}, id : Emitted,
                        org : OrgStates, user : {"none", "active"}]]
    /\ session \in [Sessions -> {Closed} \cup
                       [at : {"open", "provisioned"}, role : ClerkRoles,
                        org : {"none", "active"}]]
    /\ uncommitted \in [Transactions ->
                           [org : {"same", "active", "inactive"}, user : {"same", "active"},
                            role : Roles \cup {"same", "none"}]]
    /\ applied \in [Ids -> Nat]
    /\ excused \subseteq Rows
    /\ faults \in 0 .. MaxFaults

(* However often Svix delivers an event, and to however many processes at  *)
(* once, it takes effect once.                                             *)
AppliedOnce == \A id \in Ids : applied[id] <= 1

(* When nothing is under way, the database agrees with Clerk about the     *)
(* organization and about the membership, whatever happened to the events  *)
(* before the last one on the row.  It may differ only when the statement  *)
(* of that last event was executed before an earlier one was committed, or *)
(* found no row to work on, or when a session has since inserted the role  *)
(* of a token that Clerk had outdated.                                     *)
Quiet ==
    /\ svix = {} /\ \A h \in Handlers : ~Handling(h)
    /\ \A s \in Sessions : session[s] = Closed
MirrorsClerk ==
    Quiet => /\ "org" \in excused \/ (clerk.org = "active") = (db.org = "active")
             /\ "role" \in excused \/ db.role = Stored(clerk.role)
=============================================================================
