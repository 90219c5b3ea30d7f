--------------------------- MODULE Tenancy_proofs ---------------------------
(***************************************************************************)
(* Proofs about Tenancy, for any number of events, handlers, sessions and  *)
(* faults:                                                                 *)
(*   TypeCorrect        the type invariant                                 *)
(*   EffectsOnce        an event takes effect at most once, however often  *)
(*                      Svix delivers it                                   *)
(*   DatabaseMirrors    a quiet database agrees with Clerk about every row *)
(*                      that is not excused, whatever happened to the      *)
(*                      events before the last one on the row              *)
(***************************************************************************)
EXTENDS Tenancy, FiniteSetTheorems, TLAPS

(* Events are numbered in the order they are emitted; what a handler holds *)
(* is still to be delivered and not on record, and no other one holds it.  *)
DeliveryInv ==
    /\ \E n \in 0 .. MaxEvents : Emitted = 1 .. n
    /\ \A h \in Handlers : Handling(h) => handler[h].id \in Pending
    /\ \A h, k \in Handlers :
         (Handling(h) /\ Handling(k) /\ handler[h].id = handler[k].id) => h = k

(* An event that was applied will not be claimed again: its id is on       *)
(* record or Svix has given it up.                                         *)
AppliedInv ==
    \A id \in Ids : \/ applied[id] = 0
                    \/ applied[id] = 1 /\ id \in Emitted /\ id \notin Pending

TenancyInv == TypeOK /\ DeliveryInv /\ AppliedInv

ClerkType == [org : {"none", "active", "deleted"},
              user : {"none", "active", "deleted"}, role : ClerkRoles \cup {"none"}]
DbType == [org : OrgStates, user : {"none", "active"}, role : Roles \cup {"none"}]
HandlerType == [at : {"claimed", "executed"}, id : Emitted,
                org : OrgStates, user : {"none", "active"}]
SessionType == [at : {"open", "provisioned"}, role : ClerkRoles, org : {"none", "active"}]
WriteType == [org : {"same", "active", "inactive"}, user : {"same", "active"},
              role : Roles \cup {"same", "none"}]

(* What a handler holds while it is at work.                               *)
LEMMA HandlingType ==
  ASSUME TypeOK, NEW h \in Handlers, Handling(h)
  PROVE  handler[h] \in HandlerType
  BY DEF TypeOK, Handling, HandlerType

LEMMA AtWork ==
  ASSUME TypeOK, NEW h \in Handlers
  PROVE  handler[h].at \in {"claimed", "executed"} <=> Handling(h)
  BY DEF TypeOK, Handling, Free

LEMMA SessionAtWork ==
  ASSUME TypeOK, NEW s \in Sessions, session[s] # Closed
  PROVE  session[s] \in SessionType
  BY DEF TypeOK, SessionType

LEMMA RoleType == ASSUME NEW role PROVE MapClerkRole(role) \in Roles
  BY DEF MapClerkRole, Roles

LEMMA NoWriteType == NoWrite \in WriteType
  BY DEF NoWrite, WriteType

(* The end of a transaction keeps the types.                               *)
LEMMA EndType ==
  ASSUME TypeOK, NEW t \in Transactions, Commits(t) \/ RollsBack(t)
  PROVE  /\ db' \in DbType
         /\ uncommitted' \in [Transactions -> WriteType]
         /\ uncommitted' = [uncommitted EXCEPT ![t] = NoWrite]
<1>1. db \in DbType /\ uncommitted \in [Transactions -> WriteType]
  BY DEF TypeOK, DbType, WriteType
<1>2. uncommitted' = [uncommitted EXCEPT ![t] = NoWrite]
  BY DEF Commits, RollsBack
<1>3. CASE Commits(t)
  <2>1. uncommitted[t] \in WriteType
    BY <1>1
  <2>2. /\ After(t, "org") \in OrgStates /\ After(t, "user") \in {"none", "active"}
        /\ After(t, "role") \in Roles \cup {"none"}
    BY <1>1, <2>1 DEF After, WriteType, DbType, OrgStates
  <2>3. QED
    BY <1>1, <1>2, <1>3, <2>2, NoWriteType DEF Commits, DbType
<1>4. CASE RollsBack(t)
  BY <1>1, <1>2, <1>4, NoWriteType DEF RollsBack
<1>5. QED
  BY <1>2, <1>3, <1>4

LEMMA ExecutesType ==
  ASSUME TypeOK, NEW t \in Transactions, NEW write \in WriteType, Executes(t, write)
  PROVE  /\ uncommitted' = [uncommitted EXCEPT ![t] = write]
         /\ uncommitted' \in [Transactions -> WriteType]
<1>1. uncommitted \in [Transactions -> WriteType]
  BY DEF TypeOK, WriteType
<1>2. QED
  BY <1>1 DEF Executes

-----------------------------------------------------------------------------
LEMMA InitInv == Init => TenancyInv
<1> SUFFICES ASSUME Init PROVE TenancyInv
  OBVIOUS
<1>1. Emitted = {} /\ 1 .. 0 = {} /\ 0 \in 0 .. MaxEvents /\ Pending = {}
  BY TenancyAssumption DEF Init, Emitted, Pending
<1>2. TypeOK
  <2>1. clerk \in ClerkType /\ db \in DbType
    <3>1. CASE /\ clerk = [org |-> "none", user |-> "none", role |-> "none"]
               /\ db = [org |-> "none", user |-> "none", role |-> "none"]
      BY <3>1 DEF ClerkType, DbType, OrgStates
    <3>2. CASE /\ clerk = [org |-> "active", user |-> "active", role |-> "none"]
               /\ db = [org |-> "active", user |-> "active", role |-> "none"]
      BY <3>2 DEF ClerkType, DbType, OrgStates
    <3>3. QED
      BY <3>1, <3>2 DEF Init
  <2>2. /\ events \in [Ids -> EventTypes \cup {"none"}] /\ applied \in [Ids -> Nat]
        /\ uncommitted \in [Transactions -> WriteType]
    BY NoWriteType DEF Init
  <2>3. /\ svix \subseteq Emitted /\ processed \subseteq Emitted /\ tokens \subseteq ClerkRoles
        /\ excused \subseteq Rows /\ faults \in 0 .. MaxFaults
    BY TenancyAssumption DEF Init
  <2>4. /\ handler \in [Handlers -> {Free} \cup HandlerType]
        /\ session \in [Sessions -> {Closed} \cup SessionType]
    BY DEF Init
  <2>5. QED
    BY <2>1, <2>2, <2>3, <2>4
    DEF TypeOK, ClerkType, DbType, HandlerType, SessionType, WriteType
<1>3. DeliveryInv
  BY <1>1 DEF Init, DeliveryInv, Handling
<1>4. AppliedInv
  BY DEF Init, AppliedInv
<1>5. QED
  BY <1>2, <1>3, <1>4 DEF TenancyInv

(* The number of a new event is a new one.                                 *)
LEMMA NextNumber ==
  ASSUME TenancyInv, Cardinality(Emitted) + 1 <= MaxEvents
  PROVE  \E n \in 0 .. MaxEvents :
           /\ Emitted = 1 .. n /\ Cardinality(Emitted) + 1 = n + 1
           /\ n + 1 \in Ids /\ n + 1 \notin Emitted /\ 1 .. (n + 1) = Emitted \cup {n + 1}
<1>1. PICK n \in 0 .. MaxEvents : Emitted = 1 .. n
  BY DEF TenancyInv, DeliveryInv
<1>2. n \in Nat /\ Cardinality(1 .. n) = n
  BY <1>1, FS_Interval
<1>3. n + 1 \in Ids
  BY <1>1, <1>2, TenancyAssumption DEF Ids
<1>4. QED
  BY <1>1, <1>2, <1>3

(* What an event changes: its number is the highest, and Svix has it.      *)
LEMMA Emission ==
  ASSUME TenancyInv, NEW type \in EventTypes, NEW after, Emit(type, after)
  PROVE  \E id \in Ids :
           /\ id \notin Emitted /\ \A i \in Emitted : i < id
           /\ \E n \in 0 .. MaxEvents : Emitted' = 1 .. n
           /\ events' = [events EXCEPT ![id] = type] /\ svix' = svix \cup {id}
           /\ events'[id] = type /\ \A i \in Ids : i # id => events'[i] = events[i]
           /\ Emitted' = Emitted \cup {id} /\ Pending' = Pending \cup {id}
           /\ clerk' = after
           /\ UNCHANGED <<tokens, db, handler, applied, processed, session, uncommitted,
                          excused, faults>>
<1> DEFINE id == Cardinality(Emitted) + 1
<1>1. PICK n \in 0 .. MaxEvents :
           /\ Emitted = 1 .. n /\ id = n + 1
           /\ n + 1 \in Ids /\ n + 1 \notin Emitted /\ 1 .. (n + 1) = Emitted \cup {n + 1}
  BY NextNumber DEF Emit
<1>2. /\ clerk' = after /\ events' = [events EXCEPT ![id] = type] /\ svix' = svix \cup {id}
      /\ UNCHANGED <<tokens, db, handler, applied, processed, session, uncommitted,
                     excused, faults>>
  BY DEF Emit, handling
<1>3. id \in Ids /\ id \notin Emitted /\ \A i \in Emitted : i < id
  BY <1>1
<1>4. n + 1 \in 0 .. MaxEvents /\ 1 .. (n + 1) = Emitted \cup {id}
  BY <1>1, TenancyAssumption DEF Ids
<1> HIDE DEF id
<1>5. TypeOK /\ type # "none"
  BY DEF TenancyInv, EventTypes, OrgEvents, RoleEvents, MembershipEvents
<1>6. events'[id] = type /\ \A i \in Ids : i # id => events'[i] = events[i]
  BY <1>2, <1>3, <1>5 DEF TypeOK
<1>7. Emitted' = Emitted \cup {id}
  BY <1>3, <1>5, <1>6 DEF Emitted
<1>8. Pending' = Pending \cup {id}
  BY <1>2, <1>3, <1>5 DEF Pending, TypeOK
<1>9. QED
  BY <1>2, <1>3, <1>4, <1>6, <1>7, <1>8

LEMMA EmitStep ==
  ASSUME TenancyInv, NEW type \in EventTypes, NEW after \in ClerkType, Emit(type, after)
  PROVE  TenancyInv'
<1>1. PICK id \in Ids :
           /\ id \notin Emitted /\ \A i \in Emitted : i < id
           /\ \E n \in 0 .. MaxEvents : Emitted' = 1 .. n
           /\ events' = [events EXCEPT ![id] = type] /\ svix' = svix \cup {id}
           /\ Emitted' = Emitted \cup {id} /\ Pending' = Pending \cup {id}
           /\ clerk' = after
           /\ UNCHANGED <<tokens, db, handler, applied, processed, session, uncommitted,
                          excused, faults>>
  BY Emission
<1>2. TypeOK
  BY DEF TenancyInv
<1>3. TypeOK'
  <2>1. events' \in [Ids -> EventTypes \cup {"none"}]
    BY <1>1, <1>2 DEF TypeOK
  <2>2. svix' \subseteq Emitted' /\ processed' \subseteq Emitted'
    BY <1>1, <1>2 DEF TypeOK
  <2>3. handler' \in [Handlers -> {Free} \cup HandlerType']
    BY <1>1, <1>2 DEF TypeOK, HandlerType
  <2>4. QED
    BY <1>1, <1>2, <2>1, <2>2, <2>3 DEF TypeOK, ClerkType, HandlerType
<1>4. DeliveryInv'
  BY <1>1 DEF TenancyInv, DeliveryInv, Handling
<1>5. AppliedInv'
  BY <1>1 DEF TenancyInv, AppliedInv
<1>6. QED
  BY <1>3, <1>4, <1>5 DEF TenancyInv

LEMMA ClerkStep ==
  ASSUME TenancyInv,
         \/ CreateUser \/ CreateOrg \/ RemoveMember \/ DeleteUser \/ DeleteOrg
         \/ \E role \in ClerkRoles : SetRole(role)
  PROVE  TenancyInv'
<1>1. clerk \in ClerkType
  BY DEF TenancyInv, TypeOK, ClerkType
<1> USE DEF EventTypes, OrgEvents, RoleEvents, MembershipEvents
<1>2. CASE CreateUser
  BY <1>1, <1>2, EmitStep DEF CreateUser, ClerkType
<1>3. CASE CreateOrg
  BY <1>1, <1>3, EmitStep DEF CreateOrg, ClerkType
<1>4. CASE RemoveMember
  BY <1>1, <1>4, EmitStep DEF RemoveMember, ClerkType
<1>5. CASE DeleteUser
  BY <1>1, <1>5, EmitStep DEF DeleteUser, ClerkType
<1>6. CASE DeleteOrg
  BY <1>1, <1>6, EmitStep DEF DeleteOrg, ClerkType
<1>7. ASSUME NEW role \in ClerkRoles, SetRole(role) PROVE TenancyInv'
  <2>1. (IF role = "org:admin" THEN "membership.admin" ELSE "membership.member") \in EventTypes
    OBVIOUS
  <2>2. [clerk EXCEPT !.role = role] \in ClerkType
    BY <1>1 DEF ClerkType
  <2>3. Emit(IF role = "org:admin" THEN "membership.admin" ELSE "membership.member",
             [clerk EXCEPT !.role = role])
    BY <1>7 DEF SetRole
  <2>4. QED
    BY <2>1, <2>2, <2>3, EmitStep
<1>8. QED
  BY <1>2, <1>3, <1>4, <1>5, <1>6, <1>7

-----------------------------------------------------------------------------
(* Steps that leave the events, what is pending, what the handlers hold    *)
(* and what was applied alone.                                             *)
LEMMA OtherStep ==
  ASSUME TenancyInv, TypeOK', UNCHANGED <<events, applied>>, Pending' = Pending,
         \A h \in Handlers : Handling(h)' => Handling(h) /\ handler'[h].id = handler[h].id
  PROVE  TenancyInv'
<1>1. Emitted' = Emitted
  BY DEF Emitted
<1>2. DeliveryInv'
  <2>1. \E n \in 0 .. MaxEvents : Emitted' = 1 .. n
    BY <1>1 DEF TenancyInv, DeliveryInv
  <2>2. \A h \in Handlers : Handling(h)' => handler'[h].id \in Pending'
    BY DEF TenancyInv, DeliveryInv
  <2>3. \A h, k \in Handlers :
          (Handling(h)' /\ Handling(k)' /\ handler'[h].id = handler'[k].id) => h = k
    BY DEF TenancyInv, DeliveryInv
  <2>4. QED
    BY <2>1, <2>2, <2>3 DEF DeliveryInv
<1>3. AppliedInv'
  BY <1>1 DEF TenancyInv, AppliedInv
<1>4. QED
  BY <1>2, <1>3 DEF TenancyInv

LEMMA ClaimStep ==
  ASSUME TenancyInv, NEW h \in Handlers, Claim(h)
  PROVE  TenancyInv'
<1> DEFINE new(id) == [at |-> "claimed", id |-> id, org |-> db.org, user |-> db.user]
<1>1. PICK id \in Pending :
        /\ \A k \in Handlers : Handling(k) => handler[k].id # id
        /\ handler' = [handler EXCEPT ![h] = new(id)]
  BY DEF Claim
<1>2. /\ UNCHANGED <<clerk, tokens, events, svix, db, processed, session, uncommitted,
                     applied, excused, faults>>
      /\ TypeOK
  BY DEF Claim, TenancyInv
<1>3. new(id) \in HandlerType /\ new(id).id = id
  BY <1>1, <1>2 DEF TypeOK, HandlerType, Pending
<1> HIDE DEF new
<1>4. Emitted' = Emitted /\ Pending' = Pending
  BY <1>2 DEF Emitted, Pending
<1>5. \A k \in Handlers : handler'[k] = IF k = h THEN new(id) ELSE handler[k]
  BY <1>1, <1>2 DEF TypeOK
<1>6. TypeOK'
  <2>1. handler' \in [Handlers -> {Free} \cup HandlerType']
    BY <1>1, <1>2, <1>3, <1>4 DEF TypeOK, HandlerType
  <2>2. QED
    BY <1>2, <1>4, <2>1 DEF TypeOK, HandlerType
<1>7. DeliveryInv'
  <2>1. \E n \in 0 .. MaxEvents : Emitted' = 1 .. n
    BY <1>4 DEF TenancyInv, DeliveryInv
  <2>2. \A k \in Handlers : Handling(k)' => handler'[k].id \in Pending'
    BY <1>3, <1>4, <1>5 DEF TenancyInv, DeliveryInv, Handling
  <2>3. \A j, k \in Handlers :
          (Handling(j)' /\ Handling(k)' /\ handler'[j].id = handler'[k].id) => j = k
    BY <1>1, <1>3, <1>5 DEF TenancyInv, DeliveryInv, Handling
  <2>4. QED
    BY <2>1, <2>2, <2>3 DEF DeliveryInv
<1>8. AppliedInv'
  BY <1>2, <1>4 DEF TenancyInv, AppliedInv
<1>9. QED
  BY <1>6, <1>7, <1>8 DEF TenancyInv

(* Every event has one of the statements.                                  *)
LEMMA StatementType ==
  ASSUME TypeOK, NEW h \in Handlers, Handling(h)
  PROVE  Statement(h) \in WriteType /\ Event(h) \in EventTypes
<1>1. Event(h) \in {"user.created", "user.deleted", "organization.created",
                    "organization.deleted", "membership.admin", "membership.member",
                    "membership.deleted"}
  <2>1. handler[h].id \in Emitted
    BY HandlingType DEF HandlerType
  <2>2. QED
    BY <2>1 DEF Event, TypeOK, Emitted, EventTypes, OrgEvents, RoleEvents, MembershipEvents
<1>2. Statement(h) \in {NoWrite, [NoWrite EXCEPT !.user = "active"],
                        [NoWrite EXCEPT !.org = "active"], [NoWrite EXCEPT !.org = "inactive"],
                        [NoWrite EXCEPT !.role = "none"],
                        [NoWrite EXCEPT !.role = MapClerkRole("org:admin")],
                        [NoWrite EXCEPT !.role = MapClerkRole("org:member")]}
  BY <1>1, Zenon DEF Statement, UpsertRole, DeleteRole
<1>3. MapClerkRole("org:admin") \in Roles /\ MapClerkRole("org:member") \in Roles
  BY RoleType
<1>4. QED
  BY <1>1, <1>2, <1>3
  DEF WriteType, NoWrite, EventTypes, OrgEvents, RoleEvents, MembershipEvents

LEMMA RowType == ASSUME NEW type PROVE Row(type) \in Rows
  BY DEF Row, Rows

(* The statement runs: the handler keeps its event.                        *)
LEMMA Executed ==
  ASSUME TenancyInv, NEW h \in Handlers, Execute(h)
  PROVE  /\ Handling(h) /\ h \in Transactions
         /\ uncommitted' = [uncommitted EXCEPT ![h] = Statement(h)]
         /\ \A k \in Handlers : Handling(k)' <=> Handling(k)
         /\ \A k \in Handlers : Handling(k) => /\ handler'[k].id = handler[k].id
                                               /\ handler'[k].org = handler[k].org
                                               /\ handler'[k].user = handler[k].user
         /\ handler'[h].at = "executed" /\ handler[h].at = "claimed"
         /\ \A k \in Handlers : k # h => handler'[k] = handler[k]
         /\ handler' \in [Handlers -> {Free} \cup HandlerType]
<1>1. TypeOK
  BY DEF TenancyInv
<1>2. Handling(h) /\ h \in Transactions
  BY <1>1, AtWork DEF Execute, Transactions
<1>3. handler[h] \in HandlerType /\ Statement(h) \in WriteType
  BY <1>1, <1>2, HandlingType, StatementType
<1>4. uncommitted' = [uncommitted EXCEPT ![h] = Statement(h)]
  BY <1>1, <1>2, <1>3, ExecutesType DEF Execute
<1>5. handler' = [handler EXCEPT ![h].at = "executed"] /\ handler[h].at = "claimed"
  BY DEF Execute
<1>6. /\ handler'[h] = [handler[h] EXCEPT !.at = "executed"]
      /\ \A k \in Handlers : k # h => handler'[k] = handler[k]
  BY <1>1, <1>5 DEF TypeOK
<1>7. /\ handler'[h] \in HandlerType /\ handler'[h].at = "executed"
      /\ handler'[h].id = handler[h].id /\ handler'[h].org = handler[h].org
      /\ handler'[h].user = handler[h].user
  BY <1>3, <1>6 DEF HandlerType
<1>8. handler'[h] # Free
  BY <1>7 DEF Free
<1>9. handler' \in [Handlers -> {Free} \cup HandlerType]
  BY <1>1, <1>5, <1>7 DEF TypeOK, HandlerType
<1>10. QED
  BY <1>2, <1>4, <1>5, <1>6, <1>7, <1>8, <1>9 DEF Handling

LEMMA ExecuteStep ==
  ASSUME TenancyInv, NEW h \in Handlers, Execute(h)
  PROVE  TenancyInv'
<1>1. /\ UNCHANGED <<clerk, tokens, events, svix, db, processed, session, applied, faults>>
      /\ excused' \subseteq excused \cup {Row(Event(h))}
  BY DEF Execute
<1>2. TypeOK /\ Emitted' = Emitted /\ Pending' = Pending
  BY <1>1 DEF TenancyInv, Emitted, Pending
<1>3. Handling(h) /\ h \in Transactions
  BY Executed
<1>4. uncommitted' \in [Transactions -> WriteType]
  BY <1>2, <1>3, ExecutesType, StatementType DEF Execute
<1>5. handler' \in [Handlers -> {Free} \cup HandlerType]
  BY Executed
<1>6. TypeOK'
  <2>1. excused' \subseteq Rows
    BY <1>1, <1>2, RowType DEF TypeOK
  <2>2. QED
    BY <1>1, <1>2, <1>4, <1>5, <2>1 DEF TypeOK, WriteType, HandlerType
<1>7. \A k \in Handlers : Handling(k)' => Handling(k) /\ handler'[k].id = handler[k].id
  BY Executed
<1>8. QED
  BY <1>1, <1>2, <1>6, <1>7, OtherStep

(* The same handlers but one, which is free.                               *)
LEMMA FreedHandler ==
  ASSUME TypeOK, NEW h \in Handlers, handler' = [handler EXCEPT ![h] = Free]
  PROVE  /\ \A k \in Handlers :
              Handling(k)' => k # h /\ handler'[k] = handler[k] /\ Handling(k)
         /\ \A k \in Handlers : k # h => handler'[k] = handler[k]
         /\ handler'[h] = Free
         /\ handler' \in [Handlers -> {Free} \cup HandlerType]
  BY DEF TypeOK, Handling, HandlerType

(* What a commit changes: the event is not pending any more.               *)
LEMMA Committed ==
  ASSUME TenancyInv, NEW h \in Handlers, Commit(h)
  PROVE  /\ Handling(h) /\ h \in Transactions /\ handler[h].at = "executed"
         /\ handler[h].id \in Pending /\ handler[h].id \in Emitted /\ handler[h].id \in Ids
         /\ Commits(h) /\ handler' = [handler EXCEPT ![h] = Free]
         /\ processed' = processed \cup {handler[h].id}
         /\ svix' = svix \ {handler[h].id} \/ svix' = svix
         /\ Pending' = Pending \ {handler[h].id} /\ Emitted' = Emitted
         /\ applied' = [applied EXCEPT ![handler[h].id] = @ + 1]
         /\ faults' = faults \/ (faults < MaxFaults /\ faults' = faults + 1)
         /\ UNCHANGED <<clerk, tokens, events, session, excused>>
<1>1. TypeOK /\ Handling(h) /\ h \in Transactions
  BY AtWork DEF TenancyInv, Commit, Transactions
<1>2. handler[h].id \in Pending /\ handler[h].id \in Emitted /\ handler[h].id \in Ids
  BY <1>1, HandlingType DEF TenancyInv, DeliveryInv, HandlerType, Emitted
<1>3. /\ Commits(h) /\ handler' = [handler EXCEPT ![h] = Free] /\ handler[h].at = "executed"
      /\ processed' = processed \cup {handler[h].id}
      /\ svix' = svix \ {handler[h].id} \/ svix' = svix
      /\ applied' = [applied EXCEPT ![handler[h].id] = @ + 1]
      /\ faults' = faults \/ (faults < MaxFaults /\ faults' = faults + 1)
      /\ UNCHANGED <<clerk, tokens, events, session, excused>>
  BY DEF Commit, Fault
<1>4. Pending' = Pending \ {handler[h].id} /\ Emitted' = Emitted
  BY <1>3 DEF Pending, Emitted
<1>5. QED
  BY <1>1, <1>2, <1>3, <1>4

LEMMA CommitStep ==
  ASSUME TenancyInv, NEW h \in Handlers, Commit(h)
  PROVE  TenancyInv'
<1> DEFINE id == handler[h].id
<1>1. /\ Handling(h) /\ h \in Transactions
      /\ id \in Pending /\ id \in Emitted /\ id \in Ids
      /\ Commits(h) /\ handler' = [handler EXCEPT ![h] = Free]
      /\ processed' = processed \cup {id}
      /\ svix' = svix \ {id} \/ svix' = svix
      /\ Pending' = Pending \ {id} /\ Emitted' = Emitted
      /\ applied' = [applied EXCEPT ![id] = @ + 1]
      /\ faults' = faults \/ (faults < MaxFaults /\ faults' = faults + 1)
      /\ UNCHANGED <<clerk, tokens, events, session, excused>>
  BY Committed
<1>2. TypeOK
  BY DEF TenancyInv
<1> HIDE DEF id
<1>3. /\ \A k \in Handlers :
           Handling(k)' => k # h /\ handler'[k] = handler[k] /\ Handling(k)
      /\ handler' \in [Handlers -> {Free} \cup HandlerType]
  BY <1>1, <1>2, FreedHandler
<1>4. TypeOK'
  <2>1. db' \in DbType /\ uncommitted' \in [Transactions -> WriteType]
    BY <1>1, <1>2, EndType
  <2>2. svix' \subseteq Emitted' /\ processed' \subseteq Emitted'
    BY <1>1, <1>2 DEF TypeOK
  <2>3. applied' \in [Ids -> Nat]
    BY <1>1, <1>2 DEF TypeOK
  <2>4. faults' \in 0 .. MaxFaults
    BY <1>1, <1>2, TenancyAssumption DEF TypeOK
  <2>5. QED
    BY <1>1, <1>2, <1>3, <2>1, <2>2, <2>3, <2>4 DEF TypeOK, DbType, WriteType, HandlerType
<1>5. DeliveryInv'
  <2>1. \E n \in 0 .. MaxEvents : Emitted' = 1 .. n
    BY <1>1 DEF TenancyInv, DeliveryInv
  <2>2. \A k \in Handlers : Handling(k)' => handler'[k].id \in Pending'
    BY <1>1, <1>3 DEF TenancyInv, DeliveryInv, id
  <2>3. \A j, k \in Handlers :
          (Handling(j)' /\ Handling(k)' /\ handler'[j].id = handler'[k].id) => j = k
    BY <1>3 DEF TenancyInv, DeliveryInv
  <2>4. QED
    BY <2>1, <2>2, <2>3 DEF DeliveryInv
<1>6. AppliedInv'
  <2>1. SUFFICES ASSUME NEW i \in Ids, applied'[i] # 0
                 PROVE  applied'[i] = 1 /\ i \in Emitted' /\ i \notin Pending'
    BY DEF AppliedInv
  <2>2. CASE i = id
    <3>1. applied[id] = 0
      BY <1>1 DEF TenancyInv, AppliedInv
    <3>2. applied'[id] = 1
      BY <1>1, <1>2, <3>1 DEF TypeOK
    <3>3. QED
      BY <1>1, <2>2, <3>2
  <2>3. CASE i # id
    <3>1. applied'[i] = applied[i]
      BY <1>1, <1>2, <2>3 DEF TypeOK
    <3>2. applied[i] = 1 /\ i \in Emitted /\ i \notin Pending
      BY <2>1, <3>1 DEF TenancyInv, AppliedInv
    <3>3. QED
      BY <1>1, <3>1, <3>2
  <2>4. QED
    BY <2>2, <2>3
<1>7. QED
  BY <1>4, <1>5, <1>6 DEF TenancyInv

LEMMA FailStep ==
  ASSUME TenancyInv, NEW h \in Handlers, Fail(h)
  PROVE  TenancyInv'
<1>1. /\ handler' = [handler EXCEPT ![h] = Free] /\ RollsBack(h)
      /\ faults < MaxFaults /\ faults' = faults + 1
      /\ UNCHANGED <<clerk, tokens, events, svix, processed, session, applied, excused>>
  BY DEF Fail, Fault
<1>2. TypeOK /\ Emitted' = Emitted /\ Pending' = Pending /\ h \in Transactions
  BY <1>1 DEF TenancyInv, Emitted, Pending, Transactions
<1>3. /\ \A k \in Handlers :
           Handling(k)' => k # h /\ handler'[k] = handler[k] /\ Handling(k)
      /\ handler' \in [Handlers -> {Free} \cup HandlerType]
  BY <1>1, <1>2, FreedHandler
<1>4. TypeOK'
  <2>1. db' \in DbType /\ uncommitted' \in [Transactions -> WriteType]
    BY <1>1, <1>2, EndType
  <2>2. faults' \in 0 .. MaxFaults
    BY <1>1, <1>2, TenancyAssumption DEF TypeOK
  <2>3. QED
    BY <1>1, <1>2, <1>3, <2>1, <2>2 DEF TypeOK, DbType, WriteType, HandlerType
<1>5. QED
  BY <1>1, <1>2, <1>3, <1>4, OtherStep

LEMMA DuplicateStep == ASSUME TenancyInv, Duplicate PROVE TenancyInv' /\ Pending' = Pending
<1>1. PICK id \in svix \cap processed : svix' = svix \ {id}
  BY DEF Duplicate
<1>2. UNCHANGED <<clerk, tokens, events, db, handler, applied, processed, session,
                  uncommitted, excused, faults>>
  BY DEF Duplicate, handling
<1>3. TypeOK /\ Emitted' = Emitted /\ Pending' = Pending
  BY <1>1, <1>2 DEF TenancyInv, Emitted, Pending
<1>4. TypeOK'
  BY <1>1, <1>2, <1>3 DEF TypeOK
<1>5. QED
  BY <1>2, <1>3, <1>4, OtherStep DEF Handling

LEMMA PurgeStep == ASSUME TenancyInv, Purge PROVE TenancyInv' /\ Pending' = Pending
<1>1. PICK id \in processed \ svix :
        /\ processed' = processed \ {id}
        /\ UNCHANGED <<clerk, tokens, events, svix, db, handler, session, uncommitted,
                       applied, excused, faults>>
  BY DEF Purge
<1>2. TypeOK /\ Emitted' = Emitted /\ Pending' = Pending
  BY <1>1 DEF TenancyInv, Emitted, Pending
<1>3. TypeOK'
  BY <1>1, <1>2 DEF TypeOK
<1>4. QED
  BY <1>1, <1>2, <1>3, OtherStep DEF Handling

-----------------------------------------------------------------------------
LEMMA MissingType ==
  ASSUME TypeOK, NEW s \in Sessions PROVE Missing(s) \in WriteType
  BY RoleType DEF Missing, WriteType

LEMMA SessionStep ==
  ASSUME TenancyInv, NEW s \in Sessions,
         OpenSession(s) \/ Provision(s) \/ CommitSession(s) \/ DropSession(s)
  PROVE  TenancyInv' /\ Pending' = Pending /\ UNCHANGED <<clerk, tokens, events, handler>>
<1>1. UNCHANGED <<clerk, tokens, events, svix, handler, applied, processed, faults>>
  BY DEF OpenSession, Provision, CommitSession, DropSession, handling
<1>2. TypeOK /\ Emitted' = Emitted /\ Pending' = Pending /\ s \in Transactions
  BY <1>1 DEF TenancyInv, Emitted, Pending, Transactions
<1>3. session' \in [Sessions -> {Closed} \cup SessionType]
  <2>1. session \in [Sessions -> {Closed} \cup SessionType]
    BY <1>2 DEF TypeOK, SessionType
  <2>2. CASE OpenSession(s)
    <3>1. PICK role \in tokens :
            session' = [session EXCEPT ![s] = [at |-> "open", role |-> role, org |-> db.org]]
      BY <2>2 DEF OpenSession
    <3>2. [at |-> "open", role |-> role, org |-> db.org] \in SessionType
      BY <1>2, <2>2 DEF TypeOK, OpenSession, OrgStates, SessionType
    <3>3. QED
      BY <2>1, <3>1, <3>2
  <2>3. CASE Provision(s)
    <3>1. session[s] # Closed
      BY <2>3 DEF Provision, Closed
    <3>2. session[s] \in SessionType
      BY <1>2, <3>1, SessionAtWork
    <3>3. [session[s] EXCEPT !.at = "provisioned"] \in SessionType
      BY <3>2 DEF SessionType
    <3>4. session' = [session EXCEPT ![s] = [session[s] EXCEPT !.at = "provisioned"]]
      BY <2>3 DEF Provision
    <3>5. QED
      BY <2>1, <3>3, <3>4
  <2>4. CASE CommitSession(s) \/ DropSession(s)
    BY <2>1, <2>4 DEF CommitSession, DropSession
  <2>5. QED
    BY <2>2, <2>3, <2>4
<1>4. db' \in DbType /\ uncommitted' \in [Transactions -> WriteType]
  <2>1. db \in DbType /\ uncommitted \in [Transactions -> WriteType]
    BY <1>2 DEF TypeOK, DbType, WriteType
  <2>2. CASE OpenSession(s)
    BY <2>1, <2>2 DEF OpenSession
  <2>3. CASE Provision(s)
    BY <1>2, <2>1, <2>3, ExecutesType, MissingType DEF Provision
  <2>4. CASE CommitSession(s) \/ DropSession(s)
    BY <1>2, <2>4, EndType DEF CommitSession, DropSession
  <2>5. QED
    BY <2>2, <2>3, <2>4
<1>5. excused' \subseteq Rows
  BY <1>2 DEF OpenSession, Provision, CommitSession, DropSession, TypeOK, Rows
<1>6. TypeOK'
  BY <1>1, <1>2, <1>3, <1>4, <1>5 DEF TypeOK, SessionType, DbType, WriteType
<1>7. QED
  BY <1>1, <1>2, <1>6, OtherStep DEF Handling

LEMMA StepInv == TenancyInv /\ [Next]_vars => TenancyInv'
<1> SUFFICES ASSUME TenancyInv, [Next]_vars PROVE TenancyInv'
  OBVIOUS
<1>1. CASE \/ CreateUser \/ CreateOrg \/ RemoveMember \/ DeleteUser \/ DeleteOrg
           \/ \E role \in ClerkRoles : SetRole(role)
  BY <1>1, ClerkStep
<1>2. CASE IssueToken \/ TokenExpires \/ UNCHANGED vars
  <2>1. tokens' \subseteq ClerkRoles
    BY <1>2 DEF IssueToken, TokenExpires, vars, TenancyInv, TypeOK
  <2>2. UNCHANGED <<clerk, events, svix, db, handler, applied, processed, session,
                    uncommitted, excused, faults>>
    BY <1>2 DEF IssueToken, TokenExpires, vars, handling
  <2>3. Emitted' = Emitted /\ Pending' = Pending
    BY <2>2 DEF Emitted, Pending
  <2>4. TypeOK'
    BY <2>1, <2>2, <2>3 DEF TenancyInv, TypeOK
  <2>5. QED
    BY <2>2, <2>3, <2>4, OtherStep DEF Handling
<1>3. ASSUME NEW h \in Handlers, Claim(h) \/ Execute(h) \/ Commit(h) \/ Fail(h)
      PROVE  TenancyInv'
  BY <1>3, ClaimStep, ExecuteStep, CommitStep, FailStep
<1>4. CASE Duplicate \/ Purge
  BY <1>4, DuplicateStep, PurgeStep
<1>5. ASSUME NEW s \in Sessions,
             OpenSession(s) \/ Provision(s) \/ CommitSession(s) \/ DropSession(s)
      PROVE  TenancyInv'
  BY <1>5, SessionStep
<1>6. QED
  BY <1>1, <1>2, <1>3, <1>4, <1>5 DEF Next

-----------------------------------------------------------------------------
(* The database and Clerk.                                                 *)
(*                                                                         *)
(* A row is written by one transaction at a time.  Until it commits, what  *)
(* it is about to write holds: an organization or a session's membership   *)
(* that it inserts is not there, and a handler writes the row of its event *)
(* only.                                                                   *)
LockInv ==
    /\ \A t, u \in Transactions : \A row \in Rows :
         uncommitted[t][row] # "same" /\ uncommitted[u][row] # "same" => t = u
    /\ \A t \in Transactions : uncommitted[t].org = "active" => db.org = "none"
    /\ \A s \in Sessions :
         /\ uncommitted[s].role # "same" => db.role = "none" /\ uncommitted[s].role # "none"
         /\ uncommitted[s].org # "inactive"
    /\ \A h \in Handlers :
         /\ uncommitted[h].role # "same" => handler[h].at = "executed" /\ Event(h) \in RoleEvents
         /\ uncommitted[h].org # "same" => handler[h].at = "executed" /\ Event(h) \in OrgEvents
         /\ uncommitted[h].org = "inactive" => Event(h) = "organization.deleted"

(* The role that Clerk has after a role event.                             *)
RoleAfter(type) == IF type = "membership.admin" THEN "org:admin"
                   ELSE IF type = "membership.member" THEN "org:member" ELSE "none"
LastRole(id) ==
    /\ id \in Emitted /\ events[id] \in RoleEvents
    /\ \A j \in Emitted : events[j] \in RoleEvents => j <= id

(* Clerk creates an organization once and then deletes it once; its last   *)
(* role event tells the role.  There is nothing before Clerk creates it.   *)
HistoryInv ==
    /\ \A id \in Ids : events[id] = "organization.created" => clerk.org # "none"
    /\ \A id \in Ids : events[id] = "organization.deleted" => clerk.org = "deleted"
    /\ \A i, j \in Ids :
         (events[i] = "organization.created" /\ events[j] = "organization.deleted") => i < j
    /\ \A i, j \in Ids :
         (events[i] = "organization.deleted" /\ events[j] = "organization.deleted") => i = j
    /\ clerk.org = "deleted" => \E id \in Ids : events[id] = "organization.deleted"
    /\ \A id \in Ids : LastRole(id) => RoleAfter(events[id]) = clerk.role
    /\ (tokens # {} \/ \E s \in Sessions : session[s] # Closed) => clerk.org # "none"
    /\ \A t \in Transactions : uncommitted[t].org # "same" => clerk.org # "none"
    /\ clerk.org = "none" => db.org = "none"
    /\ clerk.org # "deleted" => db.org # "inactive"

Done(h, id) == handler[h].at = "executed" /\ handler[h].id = id

(* An organization that Clerk has is in the database, or will be when its  *)
(* creation commits.                                                       *)
KnownInv ==
    clerk.org # "none" =>
        \/ db.org # "none"
        \/ \E id \in Pending :
             /\ events[id] = "organization.created"
             /\ \A h \in Handlers : Done(h, id) => uncommitted[h].org = "active"

(* One that Clerk has deleted is inactive, or will be.                     *)
GoneInv ==
    (clerk.org = "deleted" /\ "org" \notin excused) =>
        \/ db.org = "inactive"
        \/ \E id \in Pending :
             /\ events[id] = "organization.deleted"
             /\ \A h \in Handlers : Done(h, id) => uncommitted[h].org = "inactive"

(* The role is Clerk's, or will be when the last role event commits: once  *)
(* that is executed no other is pending.                                   *)
RoleInv ==
    "role" \notin excused =>
        \/ /\ db.role = Stored(clerk.role)
           /\ \A id \in Pending : events[id] \notin RoleEvents
        \/ \E id \in Pending :
             /\ LastRole(id)
             /\ \A h \in Handlers : Done(h, id) =>
                  /\ After(h, "role") = Stored(clerk.role)
                  /\ \A j \in Pending : events[j] \in RoleEvents => j = id

MirrorInv == LockInv /\ HistoryInv /\ KnownInv /\ GoneInv /\ RoleInv

(* What an event tells of Clerk's state after it.                          *)
Tells(type, after) ==
    /\ after.role = IF type \in RoleEvents THEN RoleAfter(type) ELSE clerk.role
    /\ after.org = IF type = "organization.created" THEN "active"
                   ELSE IF type = "organization.deleted" THEN "deleted" ELSE clerk.org
    /\ type = "organization.created" => clerk.org = "none"
    /\ type = "organization.deleted" => clerk.org = "active"

LEMMA MirrorInit == Init => MirrorInv
<1> SUFFICES ASSUME Init PROVE MirrorInv
  OBVIOUS
<1>1. Pending = {} /\ Emitted = {} /\ \A id \in Ids : events[id] = "none"
  BY DEF Init, Pending, Emitted
<1>2. \A t \in Transactions : uncommitted[t] = NoWrite /\ \A row \in Rows : uncommitted[t][row] = "same"
  BY DEF Init, NoWrite, Rows
<1>3. LockInv
  BY <1>2 DEF LockInv, NoWrite, Transactions
<1>4. HistoryInv
  BY <1>1, <1>2 DEF Init, HistoryInv, LastRole, NoWrite
<1>5. KnownInv /\ GoneInv
  BY DEF Init, KnownInv, GoneInv
<1>6. RoleInv
  BY <1>1 DEF Init, RoleInv, Stored
<1>7. QED
  BY <1>3, <1>4, <1>5, <1>6 DEF MirrorInv

(* A step that changes neither side nor what is pending: transactions may  *)
(* start, go on reading, and roll back.                                    *)
LEMMA MirrorStays ==
  ASSUME MirrorInv, UNCHANGED <<clerk, db, events, excused>>, Pending' = Pending,
         \A t \in Transactions : uncommitted'[t] \in {uncommitted[t], NoWrite},
         \A h \in Handlers :
           handler'[h].at = "executed" => /\ handler'[h] = handler[h]
                                          /\ uncommitted'[h] = uncommitted[h],
         \A h \in Handlers :
           (uncommitted'[h].role # "same" \/ uncommitted'[h].org # "same") =>
               handler'[h] = handler[h],
         (tokens' # {} \/ \E s \in Sessions : session'[s] # Closed) => clerk.org # "none"
  PROVE  MirrorInv'
<1>1. Emitted' = Emitted /\ \A id : LastRole(id)' <=> LastRole(id)
  BY DEF Emitted, LastRole
<1>2. NoWrite.org = "same" /\ NoWrite.role = "same" /\ \A row \in Rows : NoWrite[row] = "same"
  BY DEF NoWrite, Rows
<1>3. LockInv'
  <2>1. \A t, u \in Transactions : \A row \in Rows :
          uncommitted'[t][row] # "same" /\ uncommitted'[u][row] # "same" => t = u
    BY <1>2 DEF MirrorInv, LockInv
  <2>2. /\ \A t \in Transactions : uncommitted'[t].org = "active" => db'.org = "none"
        /\ \A s \in Sessions :
             /\ uncommitted'[s].role # "same" => db'.role = "none" /\ uncommitted'[s].role # "none"
             /\ uncommitted'[s].org # "inactive"
    BY <1>2 DEF MirrorInv, LockInv, Transactions
  <2>3. ASSUME NEW h \in Handlers,
               uncommitted'[h].role # "same" \/ uncommitted'[h].org # "same"
        PROVE  uncommitted'[h] = uncommitted[h] /\ handler'[h] = handler[h] /\ Event(h)' = Event(h)
    BY <1>2, <2>3 DEF Transactions, Event
  <2>4. ASSUME NEW h \in Handlers
        PROVE /\ uncommitted'[h].role # "same" =>
                    handler'[h].at = "executed" /\ Event(h)' \in RoleEvents
              /\ uncommitted'[h].org # "same" =>
                    handler'[h].at = "executed" /\ Event(h)' \in OrgEvents
              /\ uncommitted'[h].org = "inactive" => Event(h)' = "organization.deleted"
    BY <2>3 DEF MirrorInv, LockInv
  <2>5. QED
    BY <2>1, <2>2, <2>4 DEF LockInv
<1>4. HistoryInv'
  <2>1. \A t \in Transactions : uncommitted'[t].org # "same" => clerk.org # "none"
    BY <1>2 DEF MirrorInv, HistoryInv
  <2>2. QED
    BY <1>1, <2>1 DEF MirrorInv, HistoryInv
<1>5. ASSUME NEW h \in Handlers, NEW id, Done(h, id)'
      PROVE  Done(h, id) /\ uncommitted'[h] = uncommitted[h] /\ After(h, "role")' = After(h, "role")
  BY <1>5 DEF Done, After
<1>6. KnownInv' /\ GoneInv'
  BY <1>5 DEF MirrorInv, KnownInv, GoneInv
<1>7. RoleInv'
  BY <1>1, <1>5 DEF MirrorInv, RoleInv
<1>8. QED
  BY <1>3, <1>4, <1>6, <1>7 DEF MirrorInv

LEMMA MirrorEmit ==
  ASSUME TenancyInv, MirrorInv, NEW type \in EventTypes, NEW after, Emit(type, after),
         Tells(type, after)
  PROVE  MirrorInv'
<1>1. PICK id \in Ids :
           /\ id \notin Emitted /\ \A i \in Emitted : i < id
           /\ events'[id] = type /\ \A i \in Ids : i # id => events'[i] = events[i]
           /\ Emitted' = Emitted \cup {id} /\ Pending' = Pending \cup {id}
           /\ clerk' = after
           /\ UNCHANGED <<tokens, db, handler, session, uncommitted, excused>>
  BY Emission
<1>2. /\ Pending \subseteq Emitted /\ Emitted \subseteq Ids /\ id \notin Pending /\ TypeOK
      /\ \A i \in Ids : i \notin Emitted => events[i] = "none"
  BY <1>1 DEF TenancyInv, TypeOK, Pending, Emitted
<1>3. \A h \in Handlers : Handling(h) => handler[h].id \in Pending /\ Event(h)' = Event(h)
  BY <1>1, <1>2 DEF TenancyInv, DeliveryInv, Event
<1>4. \A h \in Handlers : ~Done(h, id)'
  <2>1. ASSUME NEW h \in Handlers, Done(h, id)' PROVE FALSE
    <3>1. handler[h].id = id /\ handler[h].at = "executed"
      BY <1>1, <2>1 DEF Done
    <3>2. Handling(h)
      BY <1>2, <3>1, AtWork
    <3>3. QED
      BY <1>2, <1>3, <3>1, <3>2
  <2>2. QED
    BY <2>1
<1>5. LockInv'
  <2>1. \A h \in Handlers :
         /\ uncommitted'[h].role # "same" => handler'[h].at = "executed" /\ Event(h)' \in RoleEvents
         /\ uncommitted'[h].org # "same" => handler'[h].at = "executed" /\ Event(h)' \in OrgEvents
         /\ uncommitted'[h].org = "inactive" => Event(h)' = "organization.deleted"
    <3>1. ASSUME NEW h \in Handlers, uncommitted[h].role # "same" \/ uncommitted[h].org # "same"
          PROVE  Event(h)' = Event(h)
      BY <1>2, <1>3, <3>1, AtWork DEF MirrorInv, LockInv
    <3>2. QED
      BY <1>1, <3>1 DEF MirrorInv, LockInv
  <2>2. QED
    BY <1>1, <2>1 DEF MirrorInv, LockInv
<1>6. type # "none"
  BY DEF EventTypes, OrgEvents, RoleEvents, MembershipEvents
<1>7. \A i \in Ids : LastRole(i)' =>
        \/ i = id /\ type \in RoleEvents
        \/ LastRole(i) /\ i # id /\ type \notin RoleEvents
  <2>1. SUFFICES ASSUME NEW i \in Ids, LastRole(i)', i # id
                 PROVE  LastRole(i) /\ type \notin RoleEvents
    BY <1>1 DEF LastRole
  <2>2. i \in Emitted /\ i < id /\ events[i] \in RoleEvents
    BY <1>1, <2>1 DEF LastRole
  <2>3. type \notin RoleEvents
    BY <1>1, <2>1, <2>2 DEF LastRole, Ids
  <2>4. \A j \in Emitted : events[j] \in RoleEvents => j <= i
    BY <1>1, <1>2, <2>1 DEF LastRole
  <2>5. QED
    BY <2>2, <2>3, <2>4 DEF LastRole
<1>8. HistoryInv'
  <2>1. \A i \in Ids : events'[i] = "organization.created" => clerk'.org # "none"
    BY <1>1 DEF MirrorInv, HistoryInv, Tells
  <2>2. \A i \in Ids : events'[i] = "organization.deleted" => clerk'.org = "deleted"
    BY <1>1 DEF MirrorInv, HistoryInv, Tells
  <2>3. ASSUME NEW i \in Ids, NEW j \in Ids,
               events'[i] = "organization.created", events'[j] = "organization.deleted"
        PROVE  i < j
    <3>1. CASE j = id
      <4>1. i # id /\ events[i] = "organization.created"
        BY <1>1, <2>3, <3>1
      <4>2. i \in Emitted
        BY <1>2, <4>1
      <4>3. QED
        BY <1>1, <3>1, <4>2
    <3>2. CASE j # id
      <4>1. clerk.org = "deleted"
        BY <1>1, <2>3, <3>2 DEF MirrorInv, HistoryInv
      <4>2. i # id
        BY <1>1, <2>3, <4>1 DEF Tells
      <4>3. QED
        BY <1>1, <2>3, <3>2, <4>2 DEF MirrorInv, HistoryInv
    <3>3. QED
      BY <3>1, <3>2
  <2>4. ASSUME NEW i \in Ids, NEW j \in Ids,
               events'[i] = "organization.deleted", events'[j] = "organization.deleted"
        PROVE  i = j
    BY <1>1, <2>4 DEF MirrorInv, HistoryInv, Tells
  <2>5. \A i \in Ids : LastRole(i)' => RoleAfter(events'[i]) = clerk'.role
    BY <1>1, <1>7 DEF MirrorInv, HistoryInv, Tells
  <2>8. clerk'.org = "deleted" => \E i \in Ids : events'[i] = "organization.deleted"
    <3>1. CASE type = "organization.deleted"
      BY <1>1, <3>1
    <3>2. CASE type # "organization.deleted"
      <4>1. clerk'.org = "deleted" => clerk.org = "deleted"
        BY <1>1, <3>2 DEF Tells
      <4>2. \A i \in Ids : events[i] = "organization.deleted" => i # id
        BY <1>2, <1>1 DEF Emitted
      <4>3. QED
        BY <1>1, <4>1, <4>2 DEF MirrorInv, HistoryInv
    <3>3. QED
      BY <3>1, <3>2
  <2>6. /\ (tokens' # {} \/ \E s \in Sessions : session'[s] # Closed) => clerk'.org # "none"
        /\ \A t \in Transactions : uncommitted'[t].org # "same" => clerk'.org # "none"
        /\ clerk'.org = "none" => db'.org = "none"
        /\ clerk'.org # "deleted" => db'.org # "inactive"
    BY <1>1 DEF MirrorInv, HistoryInv, Tells
  <2>7. QED
    BY <2>1, <2>2, <2>3, <2>4, <2>5, <2>6, <2>8 DEF HistoryInv
<1>9. \A i \in Pending : i \in Pending' /\ i # id /\ events'[i] = events[i]
  BY <1>1, <1>2
<1>10. \A h \in Handlers : \A i \in Pending : Done(h, i)' <=> Done(h, i)
  BY <1>1 DEF Done
<1>11. KnownInv'
  <2>1. CASE type = "organization.created"
    BY <1>1, <1>4, <2>1 DEF KnownInv
  <2>2. CASE type # "organization.created"
    <3>1. clerk'.org # "none" => clerk.org # "none"
      BY <1>1, <2>2 DEF Tells
    <3>2. QED
      BY <1>1, <1>9, <1>10, <3>1 DEF MirrorInv, KnownInv
  <2>3. QED
    BY <2>1, <2>2
<1>12. GoneInv'
  <2>1. CASE type = "organization.deleted"
    BY <1>1, <1>4, <2>1 DEF GoneInv
  <2>2. CASE type # "organization.deleted"
    <3>1. clerk'.org = "deleted" => clerk.org = "deleted"
      BY <1>1, <2>2 DEF Tells
    <3>2. QED
      BY <1>1, <1>9, <1>10, <3>1 DEF MirrorInv, GoneInv
  <2>3. QED
    BY <2>1, <2>2
<1>13. RoleInv'
  <2>1. CASE type \in RoleEvents
    <3>1. LastRole(id)'
      BY <1>1, <1>2, <2>1 DEF LastRole, Ids
    <3>2. QED
      BY <1>1, <1>4, <3>1 DEF RoleInv
  <2>2. CASE type \notin RoleEvents
    <3>1. clerk'.role = clerk.role
      BY <1>1, <2>2 DEF Tells
    <3>2. \A i \in Pending : LastRole(i) => LastRole(i)'
      BY <1>1, <1>2, <2>2 DEF LastRole
    <3>3. \A h \in Handlers : After(h, "role")' = After(h, "role")
      BY <1>1 DEF After
    <3>4. \A j \in Pending' : events'[j] \in RoleEvents => j \in Pending /\ events[j] \in RoleEvents
      BY <1>1, <1>9, <2>2
    <3>5. QED
      BY <1>1, <1>9, <1>10, <3>1, <3>2, <3>3, <3>4 DEF MirrorInv, RoleInv
  <2>3. QED
    BY <2>1, <2>2
<1>14. QED
  BY <1>5, <1>8, <1>11, <1>12, <1>13 DEF MirrorInv

LEMMA MirrorClerk ==
  ASSUME TenancyInv, MirrorInv,
         \/ CreateUser \/ CreateOrg \/ RemoveMember \/ DeleteUser \/ DeleteOrg
         \/ \E role \in ClerkRoles : SetRole(role)
  PROVE  MirrorInv'
<1>1. clerk \in ClerkType
  BY DEF TenancyInv, TypeOK, ClerkType
<1> USE DEF EventTypes, OrgEvents, MembershipEvents, RoleEvents, RoleAfter, Tells, ClerkType
<1>2. CASE CreateUser
  BY <1>1, <1>2, MirrorEmit DEF CreateUser
<1>3. CASE CreateOrg
  BY <1>1, <1>3, MirrorEmit DEF CreateOrg
<1>4. CASE RemoveMember
  BY <1>1, <1>4, MirrorEmit DEF RemoveMember
<1>5. CASE DeleteUser
  <2> DEFINE after == [clerk EXCEPT !.user = "deleted", !.role = "none"]
  <2>1. after.role = "none" /\ after.org = clerk.org
    BY <1>1
  <2>2. Tells("user.deleted", after)
    BY <2>1
  <2>3. Emit("user.deleted", after) /\ "user.deleted" \in EventTypes
    BY <1>5 DEF DeleteUser
  <2>4. QED
    <3> HIDE DEF after, EventTypes, OrgEvents, MembershipEvents, RoleEvents, RoleAfter, Tells,
                 ClerkType
    <3>1. QED
      BY <2>2, <2>3, MirrorEmit
<1>6. CASE DeleteOrg
  BY <1>1, <1>6, MirrorEmit DEF DeleteOrg
<1>7. ASSUME NEW role \in ClerkRoles, SetRole(role) PROVE MirrorInv'
  <2> DEFINE type == IF role = "org:admin" THEN "membership.admin" ELSE "membership.member"
             after == [clerk EXCEPT !.role = role]
  <2>1. type \in EventTypes /\ Emit(type, after)
    BY <1>7 DEF SetRole
  <2>2. RoleAfter(type) = role /\ type \in RoleEvents
    BY DEF ClerkRoles
  <2>3. after.role = role /\ after.org = clerk.org
    BY <1>1
  <2>4. Tells(type, after)
    BY <2>2, <2>3
  <2>5. QED
    <3> HIDE DEF type, after, EventTypes, OrgEvents, MembershipEvents, RoleEvents, RoleAfter,
                 Tells, ClerkType
    <3>1. QED
      BY <2>1, <2>4, MirrorEmit
<1>8. QED
  BY <1>2, <1>3, <1>4, <1>5, <1>6, <1>7

-----------------------------------------------------------------------------
(* What a statement writes.                                                *)
LEMMA StatementFacts ==
  ASSUME TypeOK, NEW h \in Handlers, Handling(h)
  PROVE  /\ Statement(h).role # "same" => Event(h) \in RoleEvents
         /\ Statement(h).org # "same" => Event(h) \in OrgEvents
         /\ Statement(h).org = "active" => Event(h) = "organization.created" /\ db.org = "none"
         /\ Statement(h).org = "inactive" => Event(h) = "organization.deleted"
         /\ Event(h) = "organization.created" => db.org # "none" \/ Statement(h).org = "active"
         /\ Event(h) = "organization.deleted" => db.org = "none" \/ Statement(h).org = "inactive"
         /\ (Event(h) \in RoleEvents /\ ~Skipped(h)) =>
              (IF Statement(h).role = "same" THEN db.role ELSE Statement(h).role)
                 = Stored(RoleAfter(Event(h)))
<1>1. Event(h) \in {"user.created", "user.deleted", "organization.created",
                    "organization.deleted", "membership.admin", "membership.member",
                    "membership.deleted"}
  BY StatementType DEF EventTypes, OrgEvents, RoleEvents, MembershipEvents
<1>2. /\ NoWrite.org = "same" /\ NoWrite.role = "same"
      /\ \A x : /\ [NoWrite EXCEPT !.role = x].role = x /\ [NoWrite EXCEPT !.role = x].org = "same"
                /\ [NoWrite EXCEPT !.org = x].org = x /\ [NoWrite EXCEPT !.org = x].role = "same"
                /\ [NoWrite EXCEPT !.user = x].org = "same"
                /\ [NoWrite EXCEPT !.user = x].role = "same"
  BY DEF NoWrite
<1>3. (Event(h) \in MembershipEvents /\ ~Skipped(h)) => Found(h)
  BY DEF Skipped, Found, RoleEvents
<1>4. (Event(h) = "user.deleted" /\ ~Skipped(h)) => handler[h].user # "none"
  BY DEF Skipped, RoleEvents
<1>5. MapClerkRole("org:admin") = "ADMIN" /\ MapClerkRole("org:member") = "MEMBER"
  BY DEF MapClerkRole
<1> USE DEF RoleEvents, OrgEvents, MembershipEvents
<1>6. CASE Event(h) = "user.created"
  BY <1>2, <1>6 DEF Statement
<1>7. CASE Event(h) = "user.deleted"
  BY <1>2, <1>4, <1>7 DEF Statement, DeleteRole, RoleAfter, Stored
<1>8. CASE Event(h) = "organization.created"
  BY <1>2, <1>8 DEF Statement
<1>9. CASE Event(h) = "organization.deleted"
  BY <1>2, <1>9 DEF Statement
<1>10. CASE Event(h) = "membership.admin"
  BY <1>2, <1>3, <1>5, <1>10 DEF Statement, UpsertRole, RoleAfter, Stored
<1>11. CASE Event(h) = "membership.member"
  BY <1>2, <1>3, <1>5, <1>11 DEF Statement, UpsertRole, RoleAfter, Stored
<1>12. CASE Event(h) = "membership.deleted"
  BY <1>2, <1>3, <1>12 DEF Statement, DeleteRole, RoleAfter, Stored
<1>13. QED
  BY <1>1, <1>6, <1>7, <1>8, <1>9, <1>10, <1>11, <1>12

(* What a transaction writes, nobody else has written.                     *)
LEMMA LockStep ==
  ASSUME TypeOK, LockInv, NEW t \in Transactions, NEW write \in WriteType, Executes(t, write)
  PROVE  \A v, u \in Transactions : \A row \in Rows :
           uncommitted'[v][row] # "same" /\ uncommitted'[u][row] # "same" => v = u
<1>1. uncommitted' = [uncommitted EXCEPT ![t] = write]
  BY ExecutesType
<1>2. /\ uncommitted'[t] = write
      /\ \A u \in Transactions : u # t => uncommitted'[u] = uncommitted[u]
  BY <1>1 DEF TypeOK
<1>3. \A row \in Rows : write[row] # "same" =>
        \A u \in Transactions \ {t} : uncommitted[u][row] = "same"
  BY DEF Executes
<1>4. QED
  BY <1>2, <1>3 DEF LockInv

LEMMA MirrorExecute ==
  ASSUME TenancyInv, MirrorInv, NEW h \in Handlers, Execute(h)
  PROVE  MirrorInv'
<1>1. /\ Handling(h) /\ h \in Transactions
      /\ \A k \in Handlers : Handling(k)' <=> Handling(k)
      /\ \A k \in Handlers : Handling(k) => handler'[k].id = handler[k].id
      /\ handler'[h].at = "executed" /\ handler[h].at = "claimed"
      /\ \A k \in Handlers : k # h => handler'[k] = handler[k]
      /\ uncommitted' = [uncommitted EXCEPT ![h] = Statement(h)]
  BY Executed
<1>2. /\ UNCHANGED <<clerk, tokens, events, svix, db, processed, session>>
      /\ Executes(h, Statement(h))
      /\ excused' = IF ~Newest(h) THEN excused
                    ELSE IF Early(h) \/ Skipped(h) THEN excused \cup {Row(Event(h))}
                    ELSE excused \ {Row(Event(h))}
  BY DEF Execute
<1>3. TypeOK /\ Emitted' = Emitted /\ Pending' = Pending /\ Pending \subseteq Emitted
  BY <1>2 DEF TenancyInv, Emitted, Pending, TypeOK
<1>4. Statement(h) \in WriteType /\ handler[h].id \in Pending
  BY <1>1, <1>3, StatementType DEF TenancyInv, DeliveryInv
<1>5. /\ uncommitted'[h] = Statement(h)
      /\ \A u \in Transactions : u # h => uncommitted'[u] = uncommitted[u]
  BY <1>1, <1>3 DEF TypeOK
<1>6. /\ Statement(h).role # "same" => Event(h) \in RoleEvents
      /\ Statement(h).org # "same" => Event(h) \in OrgEvents
      /\ Statement(h).org = "active" => Event(h) = "organization.created" /\ db.org = "none"
      /\ Statement(h).org = "inactive" => Event(h) = "organization.deleted"
      /\ Event(h) = "organization.created" => db.org # "none" \/ Statement(h).org = "active"
      /\ Event(h) = "organization.deleted" => db.org = "none" \/ Statement(h).org = "inactive"
      /\ (Event(h) \in RoleEvents /\ ~Skipped(h)) =>
           (IF Statement(h).role = "same" THEN db.role ELSE Statement(h).role)
              = Stored(RoleAfter(Event(h)))
  BY <1>1, <1>3, StatementFacts
<1>7. /\ \A s \in Sessions : s # h /\ s \in Transactions
      /\ \A k \in Handlers : k \in Transactions
      /\ Event(h)' = Event(h) /\ \A k \in Handlers : k # h => Event(k)' = Event(k)
  BY <1>1, <1>2, TenancyAssumption DEF Transactions, Event
<1>8. LockInv'
  <2>1. \A t, u \in Transactions : \A row \in Rows :
          uncommitted'[t][row] # "same" /\ uncommitted'[u][row] # "same" => t = u
    BY <1>1, <1>2, <1>3, <1>4, LockStep DEF MirrorInv
  <2>2. \A t \in Transactions : uncommitted'[t].org = "active" => db'.org = "none"
    BY <1>2, <1>5, <1>6 DEF MirrorInv, LockInv
  <2>3. \A s \in Sessions :
          /\ uncommitted'[s].role # "same" => db'.role = "none" /\ uncommitted'[s].role # "none"
          /\ uncommitted'[s].org # "inactive"
    BY <1>2, <1>5, <1>7 DEF MirrorInv, LockInv
  <2>4. ASSUME NEW k \in Handlers
        PROVE /\ uncommitted'[k].role # "same" =>
                    handler'[k].at = "executed" /\ Event(k)' \in RoleEvents
              /\ uncommitted'[k].org # "same" =>
                    handler'[k].at = "executed" /\ Event(k)' \in OrgEvents
              /\ uncommitted'[k].org = "inactive" => Event(k)' = "organization.deleted"
    <3>1. CASE k = h
      BY <1>1, <1>5, <1>6, <1>7, <3>1
    <3>2. CASE k # h
      BY <1>1, <1>5, <1>7, <3>2 DEF MirrorInv, LockInv
    <3>3. QED
      BY <3>1, <3>2
  <2>5. QED
    BY <2>1, <2>2, <2>3, <2>4 DEF LockInv
<1>9. Event(h) = events[handler[h].id] /\ handler[h].id \in Ids
  BY <1>3, <1>4 DEF Event, Emitted
<1>10. HistoryInv'
  <2>1. \A id : LastRole(id)' <=> LastRole(id)
    BY <1>2, <1>3 DEF LastRole
  <2>2. Statement(h).org # "same" => clerk.org # "none"
    <3>1. Statement(h).org # "same" => clerk.org \in {"active", "deleted"}
      BY <1>3, <1>6, <1>9 DEF MirrorInv, HistoryInv, OrgEvents, TypeOK
    <3>2. QED
      BY <3>1
  <2>3. \A t \in Transactions : uncommitted'[t].org # "same" => clerk'.org # "none"
    BY <1>2, <1>5, <2>2 DEF MirrorInv, HistoryInv
  <2>4. QED
    BY <1>2, <2>1, <2>3 DEF MirrorInv, HistoryInv
<1>11. \A k \in Handlers : \A id : k # h => (Done(k, id)' <=> Done(k, id))
  BY <1>1 DEF Done
<1>12. \A id : Done(h, id)' => id = handler[h].id
  BY <1>1 DEF Done
<1>13. KnownInv'
  <2>1. SUFFICES ASSUME clerk.org # "none", db.org = "none" PROVE KnownInv'
    BY <1>2 DEF KnownInv
  <2>2. PICK id \in Pending :
          /\ events[id] = "organization.created"
          /\ \A k \in Handlers : Done(k, id) => uncommitted[k].org = "active"
    BY <2>1 DEF MirrorInv, KnownInv
  <2>3. ASSUME NEW k \in Handlers, Done(k, id)' PROVE uncommitted'[k].org = "active"
    <3>1. CASE k = h
      BY <1>5, <1>6, <1>9, <1>12, <2>1, <2>2, <2>3, <3>1
    <3>2. CASE k # h
      BY <1>5, <1>7, <1>11, <2>2, <2>3, <3>2
    <3>3. QED
      BY <3>1, <3>2
  <2>4. QED
    BY <1>2, <1>3, <2>2, <2>3 DEF KnownInv
<1>14. Row(Event(h)) = "org" <=> Event(h) \in OrgEvents
  BY DEF Row, OrgEvents, RoleEvents, MembershipEvents
<1>15. GoneInv'
  <2>1. SUFFICES ASSUME clerk.org = "deleted", "org" \notin excused' PROVE GoneInv'
    BY <1>2 DEF GoneInv
  <2>2. CASE Event(h) = "organization.deleted"
    <3>1. Newest(h)
      <4>1. ASSUME NEW id \in Emitted, id > handler[h].id, Row(events[id]) = Row(Event(h))
            PROVE  FALSE
        <5>1. events[id] \in OrgEvents /\ id \in Ids
          BY <2>2, <4>1 DEF Row, OrgEvents, RoleEvents, MembershipEvents, Emitted
        <5>2. events[handler[h].id] = "organization.deleted"
          BY <1>9, <2>2
        <5>3. id < handler[h].id \/ id = handler[h].id
          BY <1>9, <5>1, <5>2 DEF MirrorInv, HistoryInv, OrgEvents
        <5>4. QED
          BY <1>9, <4>1, <5>1, <5>3 DEF Ids
      <4>2. QED
        BY <4>1 DEF Newest
    <3>2. ~Early(h)
      BY <1>2, <1>14, <2>1, <2>2, <3>1 DEF OrgEvents
    <3>3. \A id \in Pending : events[id] # "organization.created"
      <4>1. ASSUME NEW id \in Pending, events[id] = "organization.created" PROVE FALSE
        <5>1. id \in Ids /\ id < handler[h].id
          BY <1>3, <1>9, <2>2, <4>1 DEF MirrorInv, HistoryInv, Emitted
        <5>2. Row(events[id]) = Row(Event(h))
          BY <2>2, <4>1 DEF Row, OrgEvents, RoleEvents, MembershipEvents
        <5>3. QED
          BY <3>2, <5>1, <5>2 DEF Early
      <4>2. QED
        BY <4>1
    <3>4. db.org # "none"
      BY <2>1, <3>3 DEF MirrorInv, KnownInv
    <3>5. Statement(h).org = "inactive"
      BY <1>6, <2>2, <3>4
    <3>6. PICK id \in Pending : id = handler[h].id
      BY <1>4
    <3>7. ASSUME NEW k \in Handlers, Done(k, id)' PROVE uncommitted'[k].org = "inactive"
      <4>1. handler'[k].at = "executed" /\ handler'[k].id = id
        BY <3>7 DEF Done
      <4>2. Handling(k)'
        BY <4>1 DEF Handling, Free
      <4>3. k = h
        BY <1>1, <3>6, <4>1, <4>2 DEF TenancyInv, DeliveryInv
      <4>4. QED
        BY <1>5, <3>5, <4>3
    <3>8. QED
      BY <1>2, <1>3, <1>9, <2>2, <3>6, <3>7 DEF GoneInv
  <2>3. CASE Event(h) # "organization.deleted"
    <3>1. "org" \notin excused
      <4>1. CASE Row(Event(h)) # "org"
        BY <1>2, <2>1, <4>1
      <4>2. CASE Row(Event(h)) = "org"
        <5>1. Event(h) = "organization.created"
          BY <1>14, <2>3, <4>2 DEF OrgEvents
        <5>2. PICK id \in Ids : events[id] = "organization.deleted"
          BY <2>1 DEF MirrorInv, HistoryInv
        <5>3. id \in Emitted /\ handler[h].id < id
          BY <1>9, <5>1, <5>2 DEF MirrorInv, HistoryInv, Emitted
        <5>4. Row(events[id]) = Row(Event(h))
          BY <5>1, <5>2 DEF Row, OrgEvents, RoleEvents, MembershipEvents
        <5>5. ~Newest(h)
          BY <1>9, <5>3, <5>4 DEF Newest, Ids, Emitted
        <5>6. QED
          BY <1>2, <2>1, <5>5
      <4>3. QED
        BY <4>1, <4>2
    <3>2. CASE db.org = "inactive"
      BY <1>2, <3>2 DEF GoneInv
    <3>3. ASSUME NEW id \in Pending, events[id] = "organization.deleted",
                 \A k \in Handlers : Done(k, id) => uncommitted[k].org = "inactive"
          PROVE  GoneInv'
      <4>1. id # handler[h].id
        BY <1>9, <2>3, <3>3
      <4>2. \A k \in Handlers : Done(k, id)' => uncommitted'[k].org = "inactive"
        BY <1>5, <1>7, <1>11, <1>12, <3>3, <4>1
      <4>3. QED
        BY <1>2, <1>3, <3>3, <4>2 DEF GoneInv
    <3>4. QED
      BY <2>1, <3>1, <3>2, <3>3 DEF MirrorInv, GoneInv
  <2>4. QED
    BY <2>2, <2>3
<1>16. Row(Event(h)) = "role" <=> Event(h) \in RoleEvents
  BY DEF Row, OrgEvents, RoleEvents, MembershipEvents
<1>17. \A id : LastRole(id)' <=> LastRole(id)
  BY <1>2, <1>3 DEF LastRole
<1>18. RoleInv'
  <2>1. SUFFICES ASSUME "role" \notin excused' PROVE RoleInv'
    BY DEF RoleInv
  <2>2. CASE Event(h) \in RoleEvents /\ Newest(h)
    <3>1. ~Early(h) /\ ~Skipped(h)
      BY <1>2, <1>16, <2>1, <2>2
    <3>2. PICK id \in Pending : id = handler[h].id
      BY <1>4
    <3>3. LastRole(id)
      <4>1. \A j \in Emitted : events[j] \in RoleEvents => ~(j > id)
        BY <1>16, <2>2, <3>2 DEF Newest, Row
      <4>2. QED
        BY <1>3, <1>9, <2>2, <3>2, <4>1 DEF LastRole, Ids, Emitted
    <3>4. \A j \in Pending : events[j] \in RoleEvents => j = id
      <4>1. \A j \in Pending : events[j] \in RoleEvents => ~(j < id) /\ j <= id
        BY <1>3, <1>16, <2>2, <3>1, <3>2, <3>3 DEF Early, LastRole, Row
      <4>2. QED
        BY <1>3, <1>9, <3>2, <4>1 DEF Ids, Emitted
    <3>5. RoleAfter(events[id]) = clerk.role
      BY <1>9, <3>2, <3>3 DEF MirrorInv, HistoryInv
    <3>6. After(h, "role")' = Stored(clerk.role)
      BY <1>2, <1>5, <1>6, <1>9, <2>2, <3>1, <3>2, <3>5 DEF After
    <3>7. ASSUME NEW k \in Handlers, Done(k, id)' PROVE After(k, "role")' = Stored(clerk'.role)
      <4>1. handler'[k].at = "executed" /\ handler'[k].id = id
        BY <3>7 DEF Done
      <4>2. Handling(k)'
        BY <4>1 DEF Handling, Free
      <4>3. k = h
        BY <1>1, <3>2, <4>1, <4>2 DEF TenancyInv, DeliveryInv
      <4>4. QED
        BY <1>2, <3>6, <4>3
    <3>8. QED
      BY <1>2, <1>3, <1>17, <3>2, <3>3, <3>4, <3>7 DEF RoleInv
  <2>3. CASE ~(Event(h) \in RoleEvents /\ Newest(h))
    <3>1. "role" \notin excused
      BY <1>2, <1>16, <2>1, <2>3
    <3>2. CASE /\ db.role = Stored(clerk.role)
               /\ \A id \in Pending : events[id] \notin RoleEvents
      BY <1>2, <1>3, <3>2 DEF RoleInv
    <3>3. ASSUME NEW id \in Pending, LastRole(id),
                 \A k \in Handlers : Done(k, id) =>
                  /\ After(k, "role") = Stored(clerk.role)
                  /\ \A j \in Pending : events[j] \in RoleEvents => j = id
          PROVE  RoleInv'
      <4>1. id # handler[h].id
        <5>1. SUFFICES ASSUME id = handler[h].id PROVE FALSE
          OBVIOUS
        <5>2. Event(h) \in RoleEvents
          BY <1>9, <3>3, <5>1 DEF LastRole
        <5>3. \A j \in Emitted : Row(events[j]) = "role" => j <= id
          BY <3>3 DEF LastRole, Row
        <5>4. Newest(h)
          BY <1>9, <1>16, <5>1, <5>2, <5>3 DEF Newest, Emitted, Ids
        <5>5. QED
          BY <2>3, <5>2, <5>4
      <4>2. ASSUME NEW k \in Handlers, Done(k, id)'
            PROVE  Done(k, id) /\ After(k, "role")' = After(k, "role")
        <5>1. k # h
          BY <1>12, <4>1, <4>2
        <5>2. QED
          BY <1>2, <1>5, <1>7, <1>11, <4>2, <5>1 DEF After
      <4>3. QED
        BY <1>2, <1>3, <1>17, <3>3, <4>2 DEF RoleInv
    <3>4. QED
      BY <3>1, <3>2, <3>3 DEF MirrorInv, RoleInv
  <2>4. QED
    BY <2>2, <2>3
<1>19. QED
  BY <1>8, <1>10, <1>13, <1>15, <1>18 DEF MirrorInv

(* The end of a transaction: its rows are in the database, and free.       *)
LEMMA Ended ==
  ASSUME TenancyInv, LockInv, NEW t \in Transactions, Commits(t)
  PROVE  /\ db'.org = IF uncommitted[t].org = "same" THEN db.org ELSE uncommitted[t].org
         /\ db'.role = IF uncommitted[t].role = "same" THEN db.role ELSE uncommitted[t].role
         /\ db'.org = "none" => db.org = "none"
         /\ db.org = "inactive" => db'.org = "inactive"
         /\ uncommitted'[t] = NoWrite
         /\ \A u \in Transactions : u # t => uncommitted'[u] = uncommitted[u]
         /\ \A v, u \in Transactions : \A row \in Rows :
              uncommitted'[v][row] # "same" /\ uncommitted'[u][row] # "same" => v = u
         /\ \A u \in Transactions : uncommitted'[u].org = "active" => db'.org = "none"
         /\ \A s \in Sessions : uncommitted'[s].role # "same" => db'.role = "none"
<1>1. db \in DbType /\ uncommitted \in [Transactions -> WriteType]
  BY DEF TenancyInv, TypeOK, DbType, WriteType
<1>2. /\ db'.org = IF uncommitted[t].org = "same" THEN db.org ELSE uncommitted[t].org
      /\ db'.role = IF uncommitted[t].role = "same" THEN db.role ELSE uncommitted[t].role
      /\ uncommitted' = [uncommitted EXCEPT ![t] = NoWrite]
  BY DEF Commits, After
<1>3. /\ uncommitted'[t] = NoWrite
      /\ \A u \in Transactions : u # t => uncommitted'[u] = uncommitted[u]
  BY <1>1, <1>2
<1>4. NoWrite.org = "same" /\ NoWrite.role = "same" /\ \A row \in Rows : NoWrite[row] = "same"
  BY DEF NoWrite, Rows
<1>5. uncommitted[t] \in WriteType
  BY <1>1
<1>6. db'.org = "none" => db.org = "none"
  BY <1>2, <1>5 DEF WriteType
<1>7. db.org = "inactive" => db'.org = "inactive"
  BY <1>2, <1>5 DEF WriteType, LockInv
<1>8. \A v, u \in Transactions : \A row \in Rows :
        uncommitted'[v][row] # "same" /\ uncommitted'[u][row] # "same" => v = u
  BY <1>3, <1>4 DEF LockInv
<1>9. ASSUME NEW u \in Transactions, uncommitted'[u].org = "active" PROVE db'.org = "none"
  <2>1. u # t /\ uncommitted[u].org = "active"
    BY <1>3, <1>4, <1>9
  <2>2. uncommitted[t].org = "same"
    BY <2>1 DEF LockInv, Rows
  <2>3. QED
    BY <1>2, <2>1, <2>2 DEF LockInv
<1>10. ASSUME NEW s \in Sessions, uncommitted'[s].role # "same" PROVE db'.role = "none"
  <2>1. s \in Transactions /\ s # t /\ uncommitted[s].role # "same"
    BY <1>3, <1>4, <1>10 DEF Transactions
  <2>2. uncommitted[t].role = "same"
    BY <2>1 DEF LockInv, Rows
  <2>3. QED
    BY <1>2, <2>1, <2>2 DEF LockInv
<1>11. QED
  BY <1>2, <1>3, <1>6, <1>7, <1>8, <1>9, <1>10

LEMMA MirrorCommit ==
  ASSUME TenancyInv, MirrorInv, NEW h \in Handlers, Commit(h)
  PROVE  MirrorInv'
<1>1. /\ Handling(h) /\ h \in Transactions /\ handler[h].at = "executed"
      /\ handler[h].id \in Pending /\ handler[h].id \in Emitted /\ handler[h].id \in Ids
      /\ Commits(h) /\ handler' = [handler EXCEPT ![h] = Free]
      /\ Pending' = Pending \ {handler[h].id} /\ Emitted' = Emitted
      /\ UNCHANGED <<clerk, tokens, events, session, excused>>
  BY Committed
<1>2. TypeOK /\ LockInv
  BY DEF TenancyInv, MirrorInv
<1>3. /\ db'.org = IF uncommitted[h].org = "same" THEN db.org ELSE uncommitted[h].org
      /\ db'.role = IF uncommitted[h].role = "same" THEN db.role ELSE uncommitted[h].role
      /\ db'.org = "none" => db.org = "none"
      /\ db.org = "inactive" => db'.org = "inactive"
      /\ uncommitted'[h] = NoWrite
      /\ \A u \in Transactions : u # h => uncommitted'[u] = uncommitted[u]
      /\ \A v, u \in Transactions : \A row \in Rows :
           uncommitted'[v][row] # "same" /\ uncommitted'[u][row] # "same" => v = u
      /\ \A u \in Transactions : uncommitted'[u].org = "active" => db'.org = "none"
      /\ \A s \in Sessions : uncommitted'[s].role # "same" => db'.role = "none"
  BY <1>1, <1>2, Ended
<1>4. /\ \A k \in Handlers :
           Handling(k)' => k # h /\ handler'[k] = handler[k] /\ Handling(k)
      /\ \A k \in Handlers : k # h => handler'[k] = handler[k]
      /\ handler'[h] = Free
  BY <1>1, <1>2, FreedHandler
<1>5. /\ \A s \in Sessions : s # h /\ s \in Transactions
      /\ \A k \in Handlers : k \in Transactions
  BY TenancyAssumption DEF Transactions
<1>6. NoWrite.org = "same" /\ NoWrite.role = "same"
  BY DEF NoWrite
<1>7. LockInv'
  <2>1. \A s \in Sessions : uncommitted'[s].role # "none" /\ uncommitted'[s].org # "inactive"
    BY <1>2, <1>3, <1>5 DEF LockInv
  <2>2. ASSUME NEW k \in Handlers
        PROVE /\ uncommitted'[k].role # "same" =>
                    handler'[k].at = "executed" /\ Event(k)' \in RoleEvents
              /\ uncommitted'[k].org # "same" =>
                    handler'[k].at = "executed" /\ Event(k)' \in OrgEvents
              /\ uncommitted'[k].org = "inactive" => Event(k)' = "organization.deleted"
    <3>1. CASE k = h
      BY <1>3, <1>6, <3>1
    <3>2. CASE k # h
      <4>1. Event(k)' = Event(k)
        BY <1>1, <1>4, <3>2 DEF Event
      <4>2. QED
        BY <1>2, <1>3, <1>4, <1>5, <3>2, <4>1 DEF LockInv
    <3>3. QED
      BY <3>1, <3>2
  <2>3. QED
    BY <1>3, <2>1, <2>2 DEF LockInv
<1>8. Event(h) = events[handler[h].id]
  BY DEF Event
<1>9. HistoryInv'
  <2>1. \A id : LastRole(id)' <=> LastRole(id)
    BY <1>1 DEF LastRole
  <2>2. clerk.org = "none" => db'.org = "none"
    BY <1>1, <1>3 DEF MirrorInv, HistoryInv
  <2>3. clerk.org # "deleted" => db'.org # "inactive"
    <3>1. uncommitted[h].org = "inactive" => clerk.org = "deleted"
      BY <1>1, <1>2, <1>8 DEF LockInv, MirrorInv, HistoryInv
    <3>2. QED
      BY <1>3, <3>1 DEF MirrorInv, HistoryInv
  <2>4. \A t \in Transactions : uncommitted'[t].org # "same" => clerk.org # "none"
    BY <1>3, <1>6 DEF MirrorInv, HistoryInv
  <2>5. QED
    BY <1>1, <2>1, <2>2, <2>3, <2>4 DEF MirrorInv, HistoryInv
<1>10. ASSUME NEW k \in Handlers, NEW id, Done(k, id)'
       PROVE  k # h /\ Done(k, id) /\ uncommitted'[k] = uncommitted[k] /\ id \in Pending'
  <2>1. k # h
    BY <1>4, <1>10 DEF Done, Free
  <2>2. handler'[k] = handler[k] /\ handler[k].at = "executed" /\ handler[k].id = id
    BY <1>4, <1>10, <2>1 DEF Done
  <2>3. Handling(k)
    BY <1>2, <2>2, AtWork
  <2>4. id \in Pending /\ id # handler[h].id
    BY <1>1, <2>1, <2>2, <2>3 DEF TenancyInv, DeliveryInv
  <2>5. QED
    BY <1>1, <1>3, <1>5, <2>1, <2>2, <2>4 DEF Done
<1>11. KnownInv'
  <2>1. SUFFICES ASSUME clerk.org # "none", db'.org = "none" PROVE KnownInv'
    BY <1>1 DEF KnownInv
  <2>2. PICK id \in Pending :
          /\ events[id] = "organization.created"
          /\ \A k \in Handlers : Done(k, id) => uncommitted[k].org = "active"
    BY <1>3, <2>1 DEF MirrorInv, KnownInv
  <2>3. id # handler[h].id
    <3>1. SUFFICES ASSUME id = handler[h].id PROVE FALSE
      OBVIOUS
    <3>2. uncommitted[h].org = "active"
      BY <1>1, <2>2, <3>1 DEF Done
    <3>3. QED
      BY <1>3, <2>1, <3>2
  <2>4. QED
    BY <1>1, <1>10, <2>2, <2>3 DEF KnownInv
<1>12. GoneInv'
  <2>1. SUFFICES ASSUME clerk.org = "deleted", "org" \notin excused, db'.org # "inactive"
                 PROVE  GoneInv'
    BY <1>1 DEF GoneInv
  <2>2. PICK id \in Pending :
          /\ events[id] = "organization.deleted"
          /\ \A k \in Handlers : Done(k, id) => uncommitted[k].org = "inactive"
    BY <1>3, <2>1 DEF MirrorInv, GoneInv
  <2>3. id # handler[h].id
    <3>1. SUFFICES ASSUME id = handler[h].id PROVE FALSE
      OBVIOUS
    <3>2. uncommitted[h].org = "inactive"
      BY <1>1, <2>2, <3>1 DEF Done
    <3>3. QED
      BY <1>3, <2>1, <3>2
  <2>4. QED
    BY <1>1, <1>10, <2>2, <2>3 DEF GoneInv
<1>13. RoleInv'
  <2>1. SUFFICES ASSUME "role" \notin excused PROVE RoleInv'
    BY <1>1 DEF RoleInv
  <2>2. CASE /\ db.role = Stored(clerk.role)
             /\ \A id \in Pending : events[id] \notin RoleEvents
    <3>1. uncommitted[h].role = "same"
      BY <1>1, <1>2, <1>8, <2>2 DEF LockInv
    <3>2. QED
      BY <1>1, <1>3, <2>2, <3>1 DEF RoleInv
  <2>3. ASSUME NEW id \in Pending, LastRole(id),
               \A k \in Handlers : Done(k, id) =>
                  /\ After(k, "role") = Stored(clerk.role)
                  /\ \A j \in Pending : events[j] \in RoleEvents => j = id
        PROVE  RoleInv'
    <3>1. CASE id = handler[h].id
      <4>1. /\ After(h, "role") = Stored(clerk.role)
            /\ \A j \in Pending : events[j] \in RoleEvents => j = id
        BY <1>1, <2>3, <3>1 DEF Done
      <4>2. db'.role = Stored(clerk.role)
        BY <1>3, <4>1 DEF After
      <4>3. QED
        BY <1>1, <3>1, <4>1, <4>2 DEF RoleInv
    <3>2. CASE id # handler[h].id
      <4>1. LastRole(id)'
        BY <1>1, <2>3 DEF LastRole
      <4>2. ASSUME NEW k \in Handlers, Done(k, id)'
            PROVE  /\ After(k, "role")' = Stored(clerk'.role)
                   /\ \A j \in Pending' : events'[j] \in RoleEvents => j = id
        <5>1. k # h /\ Done(k, id) /\ uncommitted'[k] = uncommitted[k]
          BY <1>10, <4>2
        <5>2. /\ After(k, "role") = Stored(clerk.role)
              /\ \A j \in Pending : events[j] \in RoleEvents => j = id
          BY <2>3, <5>1
        <5>3. events[handler[h].id] \notin RoleEvents
          BY <1>1, <3>2, <5>2
        <5>4. uncommitted[h].role = "same"
          BY <1>2, <1>8, <5>3 DEF LockInv
        <5>5. After(k, "role")' = After(k, "role")
          BY <1>3, <5>1, <5>4 DEF After
        <5>6. QED
          BY <1>1, <5>2, <5>5
      <4>3. QED
        BY <1>1, <2>3, <3>2, <4>1, <4>2 DEF RoleInv
    <3>3. QED
      BY <3>1, <3>2
  <2>4. QED
    BY <2>1, <2>2, <2>3 DEF MirrorInv, RoleInv
<1>14. QED
  BY <1>7, <1>9, <1>11, <1>12, <1>13 DEF MirrorInv

-----------------------------------------------------------------------------
LEMMA MirrorProvision ==
  ASSUME TenancyInv, MirrorInv, NEW s \in Sessions, Provision(s)
  PROVE  MirrorInv'
<1>1. /\ UNCHANGED <<clerk, tokens, events, svix, db, processed, handler, excused>>
      /\ session' = [session EXCEPT ![s].at = "provisioned"]
      /\ session[s].at = "open" /\ Executes(s, Missing(s))
  BY DEF Provision, handling
<1>2. TypeOK /\ s \in Transactions /\ Missing(s) \in WriteType
  BY MissingType DEF TenancyInv, Transactions
<1>3. /\ uncommitted' = [uncommitted EXCEPT ![s] = Missing(s)]
      /\ uncommitted \in [Transactions -> WriteType]
  BY <1>1, <1>2, ExecutesType DEF TypeOK, WriteType
<1>4. /\ uncommitted'[s] = Missing(s)
      /\ \A u \in Transactions : u # s => uncommitted'[u] = uncommitted[u]
  BY <1>2, <1>3
<1>5. /\ \A h \in Handlers : h # s /\ h \in Transactions
      /\ \A u \in Sessions : u \in Transactions
  BY TenancyAssumption DEF Transactions
<1>6. /\ Missing(s).org = IF db.org = "none" THEN "active" ELSE "same"
      /\ Missing(s).role = IF db.role = "none" THEN MapClerkRole(session[s].role) ELSE "same"
      /\ MapClerkRole(session[s].role) # "none"
  BY DEF Missing, MapClerkRole
<1>7. Emitted' = Emitted /\ Pending' = Pending /\ \A id : LastRole(id)' <=> LastRole(id)
  BY <1>1 DEF Emitted, Pending, LastRole
<1>8. LockInv'
  <2>1. \A v, u \in Transactions : \A row \in Rows :
          uncommitted'[v][row] # "same" /\ uncommitted'[u][row] # "same" => v = u
    BY <1>1, <1>2, LockStep DEF MirrorInv
  <2>2. \A t \in Transactions : uncommitted'[t].org = "active" => db'.org = "none"
    BY <1>1, <1>4, <1>6 DEF MirrorInv, LockInv
  <2>3. \A u \in Sessions :
          /\ uncommitted'[u].role # "same" => db'.role = "none" /\ uncommitted'[u].role # "none"
          /\ uncommitted'[u].org # "inactive"
    BY <1>1, <1>4, <1>5, <1>6 DEF MirrorInv, LockInv
  <2>4. \A h \in Handlers :
         /\ uncommitted'[h].role # "same" => handler'[h].at = "executed" /\ Event(h)' \in RoleEvents
         /\ uncommitted'[h].org # "same" => handler'[h].at = "executed" /\ Event(h)' \in OrgEvents
         /\ uncommitted'[h].org = "inactive" => Event(h)' = "organization.deleted"
    BY <1>1, <1>4, <1>5 DEF MirrorInv, LockInv, Event
  <2>5. QED
    BY <2>1, <2>2, <2>3, <2>4 DEF LockInv
<1>9. HistoryInv'
  <2>1. session[s] # Closed
    BY <1>1 DEF Closed
  <2>2. clerk.org # "none"
    BY <2>1 DEF MirrorInv, HistoryInv
  <2>3. QED
    BY <1>1, <1>7, <2>2 DEF MirrorInv, HistoryInv
<1>10. ASSUME NEW h \in Handlers, NEW id, Done(h, id)'
       PROVE  Done(h, id) /\ uncommitted'[h] = uncommitted[h] /\ After(h, "role")' = After(h, "role")
  BY <1>1, <1>4, <1>5, <1>10 DEF Done, After
<1>11. KnownInv' /\ GoneInv'
  BY <1>1, <1>7, <1>10 DEF MirrorInv, KnownInv, GoneInv
<1>12. RoleInv'
  BY <1>1, <1>7, <1>10 DEF MirrorInv, RoleInv
<1>13. QED
  BY <1>8, <1>9, <1>11, <1>12 DEF MirrorInv

LEMMA MirrorSession ==
  ASSUME TenancyInv, MirrorInv, NEW s \in Sessions, CommitSession(s)
  PROVE  MirrorInv'
<1>1. /\ UNCHANGED <<clerk, tokens, events, svix, processed, handler>>
      /\ session' = [session EXCEPT ![s] = Closed] /\ session[s].at = "provisioned"
      /\ Commits(s)
      /\ excused' = IF uncommitted[s].role \in {"same", Stored(clerk.role)} THEN excused
                    ELSE excused \cup {"role"}
  BY DEF CommitSession, handling
<1>2. TypeOK /\ LockInv /\ s \in Transactions
  BY DEF TenancyInv, MirrorInv, Transactions
<1>3. /\ db'.org = IF uncommitted[s].org = "same" THEN db.org ELSE uncommitted[s].org
      /\ db'.role = IF uncommitted[s].role = "same" THEN db.role ELSE uncommitted[s].role
      /\ db'.org = "none" => db.org = "none"
      /\ db.org = "inactive" => db'.org = "inactive"
      /\ uncommitted'[s] = NoWrite
      /\ \A u \in Transactions : u # s => uncommitted'[u] = uncommitted[u]
      /\ \A v, u \in Transactions : \A row \in Rows :
           uncommitted'[v][row] # "same" /\ uncommitted'[u][row] # "same" => v = u
      /\ \A u \in Transactions : uncommitted'[u].org = "active" => db'.org = "none"
      /\ \A u \in Sessions : uncommitted'[u].role # "same" => db'.role = "none"
  BY <1>1, <1>2, Ended
<1>4. /\ \A h \in Handlers : h # s /\ h \in Transactions
      /\ \A u \in Sessions : u \in Transactions
      /\ NoWrite.org = "same" /\ NoWrite.role = "same"
  BY TenancyAssumption DEF Transactions, NoWrite
<1>5. Emitted' = Emitted /\ Pending' = Pending /\ \A id : LastRole(id)' <=> LastRole(id)
  BY <1>1 DEF Emitted, Pending, LastRole
<1>6. LockInv'
  <2>1. \A u \in Sessions : uncommitted'[u].role # "none" /\ uncommitted'[u].org # "inactive"
    BY <1>2, <1>3, <1>4 DEF LockInv
  <2>2. \A h \in Handlers :
         /\ uncommitted'[h].role # "same" => handler'[h].at = "executed" /\ Event(h)' \in RoleEvents
         /\ uncommitted'[h].org # "same" => handler'[h].at = "executed" /\ Event(h)' \in OrgEvents
         /\ uncommitted'[h].org = "inactive" => Event(h)' = "organization.deleted"
    BY <1>1, <1>2, <1>3, <1>4 DEF LockInv, Event
  <2>3. QED
    BY <1>3, <2>1, <2>2 DEF LockInv
<1>7. HistoryInv'
  <2>1. session[s] # Closed
    BY <1>1 DEF Closed
  <2>2. clerk.org # "none"
    BY <2>1 DEF MirrorInv, HistoryInv
  <2>3. clerk.org # "deleted" => db'.org # "inactive"
    BY <1>2, <1>3 DEF LockInv, MirrorInv, HistoryInv
  <2>4. QED
    BY <1>1, <1>5, <2>2, <2>3 DEF MirrorInv, HistoryInv
<1>8. ASSUME NEW h \in Handlers, NEW id, Done(h, id)'
      PROVE  Done(h, id) /\ uncommitted'[h] = uncommitted[h]
  BY <1>1, <1>3, <1>4, <1>8 DEF Done
<1>9. KnownInv'
  BY <1>1, <1>3, <1>5, <1>8 DEF MirrorInv, KnownInv
<1>10. "org" \notin excused' => "org" \notin excused
  BY <1>1
<1>11. GoneInv'
  BY <1>1, <1>3, <1>5, <1>8, <1>10 DEF MirrorInv, GoneInv
<1>12. RoleInv'
  <2>1. SUFFICES ASSUME "role" \notin excused' PROVE RoleInv'
    BY DEF RoleInv
  <2>2. "role" \notin excused /\ uncommitted[s].role \in {"same", Stored(clerk.role)}
    BY <1>1, <2>1
  <2>3. CASE /\ db.role = Stored(clerk.role)
             /\ \A id \in Pending : events[id] \notin RoleEvents
    BY <1>1, <1>3, <1>5, <2>2, <2>3 DEF RoleInv
  <2>4. ASSUME NEW id \in Pending, LastRole(id),
               \A h \in Handlers : Done(h, id) =>
                  /\ After(h, "role") = Stored(clerk.role)
                  /\ \A j \in Pending : events[j] \in RoleEvents => j = id
        PROVE  RoleInv'
    <3>1. ASSUME NEW h \in Handlers, Done(h, id)'
          PROVE  /\ After(h, "role")' = Stored(clerk'.role)
                 /\ \A j \in Pending' : events'[j] \in RoleEvents => j = id
      <4>1. Done(h, id) /\ uncommitted'[h] = uncommitted[h]
        BY <1>8, <3>1
      <4>2. /\ After(h, "role") = Stored(clerk.role)
            /\ \A j \in Pending : events[j] \in RoleEvents => j = id
        BY <2>4, <4>1
      <4>3. After(h, "role")' = Stored(clerk.role)
        BY <1>3, <2>2, <4>1, <4>2 DEF After
      <4>4. QED
        BY <1>1, <1>5, <4>2, <4>3
    <3>2. QED
      BY <1>5, <2>4, <3>1 DEF RoleInv
  <2>5. QED
    BY <2>2, <2>3, <2>4 DEF MirrorInv, RoleInv
<1>13. QED
  BY <1>6, <1>7, <1>9, <1>11, <1>12 DEF MirrorInv

LEMMA MirrorStep ==
  TenancyInv /\ MirrorInv /\ [Next]_vars => MirrorInv'
<1> SUFFICES ASSUME TenancyInv, MirrorInv, [Next]_vars PROVE MirrorInv'
  OBVIOUS
<1>1. CASE \/ CreateUser \/ CreateOrg \/ RemoveMember \/ DeleteUser \/ DeleteOrg
           \/ \E role \in ClerkRoles : SetRole(role)
  BY <1>1, MirrorClerk
<1>2. ASSUME UNCHANGED <<clerk, db, events, excused, handler, uncommitted>>, Pending' = Pending,
             (tokens' # {} \/ \E s \in Sessions : session'[s] # Closed) => clerk.org # "none"
      PROVE  MirrorInv'
  BY <1>2, MirrorStays
<1>3. /\ (tokens # {} \/ \E s \in Sessions : session[s] # Closed) => clerk.org # "none"
      /\ session \in [Sessions -> {Closed} \cup SessionType] /\ TypeOK
      /\ uncommitted \in [Transactions -> WriteType]
  BY DEF MirrorInv, HistoryInv, TenancyInv, TypeOK, SessionType, WriteType
<1>4. CASE IssueToken \/ TokenExpires \/ UNCHANGED vars
  <2>1. Pending' = Pending /\ UNCHANGED <<clerk, db, events, excused, handler, uncommitted, session>>
    BY <1>4 DEF IssueToken, TokenExpires, vars, handling, Pending
  <2>2. tokens' # {} => tokens # {} \/ clerk.org = "active"
    BY <1>4 DEF IssueToken, TokenExpires, vars
  <2>3. QED
    BY <1>2, <1>3, <2>1, <2>2
<1>5. ASSUME NEW h \in Handlers, Claim(h) PROVE MirrorInv'
  <2>1. PICK id \in Pending :
          handler' = [handler EXCEPT ![h] = [at |-> "claimed", id |-> id, org |-> db.org,
                                             user |-> db.user]]
    BY <1>5 DEF Claim
  <2>2. /\ ~Handling(h) /\ Pending' = Pending
        /\ UNCHANGED <<clerk, db, events, excused, uncommitted, tokens, session>>
    BY <1>5 DEF Claim, Pending
  <2>3. /\ handler'[h].at = "claimed"
        /\ \A k \in Handlers : k # h => handler'[k] = handler[k]
    BY <1>3, <2>1 DEF TypeOK
  <2>4. uncommitted[h].role = "same" /\ uncommitted[h].org = "same"
    BY <1>3, <2>2, AtWork DEF MirrorInv, LockInv
  <2>5. QED
    BY <1>3, <2>2, <2>3, <2>4, MirrorStays
<1>6. ASSUME NEW t \in Transactions, RollsBack(t)
      PROVE  /\ \A u \in Transactions : uncommitted'[u] \in {uncommitted[u], NoWrite}
             /\ \A u \in Transactions : u # t => uncommitted'[u] = uncommitted[u]
             /\ uncommitted'[t].role = "same" /\ uncommitted'[t].org = "same" /\ UNCHANGED db
  <2>1. uncommitted' = [uncommitted EXCEPT ![t] = NoWrite] /\ UNCHANGED db
    BY <1>6 DEF RollsBack
  <2>2. uncommitted'[t] = NoWrite /\ \A u \in Transactions : u # t => uncommitted'[u] = uncommitted[u]
    BY <1>3, <2>1
  <2>3. QED
    BY <2>1, <2>2 DEF NoWrite
<1>7. ASSUME NEW h \in Handlers, Fail(h) PROVE MirrorInv'
  <2>1. /\ handler' = [handler EXCEPT ![h] = Free] /\ RollsBack(h) /\ h \in Transactions
        /\ UNCHANGED <<clerk, tokens, events, svix, processed, session, excused>>
    BY <1>7 DEF Fail, Transactions
  <2>2. /\ \A u \in Transactions : uncommitted'[u] \in {uncommitted[u], NoWrite}
        /\ \A u \in Transactions : u # h => uncommitted'[u] = uncommitted[u]
        /\ uncommitted'[h].role = "same" /\ uncommitted'[h].org = "same" /\ UNCHANGED db
    BY <1>6, <2>1
  <2>3. handler'[h] = Free /\ \A k \in Handlers : k # h => handler'[k] = handler[k]
    BY <1>3, <2>1, FreedHandler
  <2>4. \A k \in Handlers : k \in Transactions
    BY DEF Transactions
  <2>5. \A k \in Handlers : handler'[k].at = "executed" =>
                /\ handler'[k] = handler[k] /\ uncommitted'[k] = uncommitted[k]
    BY <2>2, <2>3, <2>4 DEF Free
  <2>6. Pending' = Pending
    BY <2>1 DEF Pending
  <2>7. \A k \in Handlers : (uncommitted'[k].role # "same" \/ uncommitted'[k].org # "same") =>
                               handler'[k] = handler[k]
    BY <2>2, <2>3
  <2>8. QED
    BY <1>3, <2>1, <2>2, <2>5, <2>6, <2>7, MirrorStays
<1>8. CASE Duplicate \/ Purge
  <2>1. Pending' = Pending
    BY <1>8, DuplicateStep, PurgeStep
  <2>2. UNCHANGED <<clerk, db, events, excused, handler, uncommitted, tokens, session>>
    BY <1>8 DEF Duplicate, Purge, handling
  <2>3. QED
    BY <1>2, <1>3, <2>1, <2>2
<1>9. ASSUME NEW s \in Sessions, OpenSession(s) PROVE MirrorInv'
  <2>1. PICK role \in tokens :
          session' = [session EXCEPT ![s] = [at |-> "open", role |-> role, org |-> db.org]]
    BY <1>9 DEF OpenSession
  <2>2. UNCHANGED <<clerk, db, events, excused, handler, uncommitted, tokens, svix, processed>>
    BY <1>9 DEF OpenSession, handling
  <2>3. clerk.org # "none" /\ Pending' = Pending
    BY <1>3, <2>1, <2>2 DEF Pending
  <2>4. QED
    BY <1>2, <2>2, <2>3
<1>10. ASSUME NEW s \in Sessions, DropSession(s) PROVE MirrorInv'
  <2>1. /\ session[s] # Closed /\ RollsBack(s) /\ s \in Transactions
        /\ UNCHANGED <<clerk, tokens, events, svix, processed, handler, excused>>
    BY <1>10 DEF DropSession, handling, Transactions
  <2>2. /\ \A u \in Transactions : uncommitted'[u] \in {uncommitted[u], NoWrite}
        /\ \A u \in Transactions : u # s => uncommitted'[u] = uncommitted[u]
        /\ UNCHANGED db
    BY <1>6, <2>1
  <2>3. \A k \in Handlers : k # s /\ k \in Transactions
    BY TenancyAssumption DEF Transactions
  <2>4. clerk.org # "none" /\ Pending' = Pending
    BY <1>3, <2>1 DEF Pending
  <2>5. \A k \in Handlers : handler'[k] = handler[k] /\ uncommitted'[k] = uncommitted[k]
    BY <2>1, <2>2, <2>3
  <2>6. QED
    BY <2>1, <2>2, <2>4, <2>5, MirrorStays
<1>11. QED
  BY <1>1, <1>4, <1>5, <1>7, <1>8, <1>9, <1>10, MirrorExecute, MirrorCommit, MirrorProvision,
     MirrorSession DEF Next

-----------------------------------------------------------------------------
(* Every variable has its type in every reachable state: the database only *)
(* holds roles that UserRole has, whatever Clerk sends (_map_clerk_role).  *)
THEOREM TypeCorrect == Spec => []TypeOK
<1>1. TenancyInv => TypeOK
  BY DEF TenancyInv
<1>2. QED
  BY <1>1, InitInv, StepInv, PTL DEF Spec

(* An event takes effect at most once (clerk_webhook: INSERT ... ON        *)
(* CONFLICT DO NOTHING on the id, in the transaction of the effect), with  *)
(* any number of handlers, redeliveries, failures and purges.              *)
THEOREM EffectsOnce == Spec => []AppliedOnce
<1>1. TenancyInv => AppliedOnce
  BY DEF TenancyInv, AppliedInv, AppliedOnce
<1>2. QED
  BY <1>1, InitInv, StepInv, PTL DEF Spec

(* When nothing is under way, the database has the organization and the    *)
(* role that Clerk has.  A row may differ only if the statement of the     *)
(* last event on it ran before an earlier one was committed (the DELETE of *)
(* a membership sees nothing of an INSERT under way) or was skipped for    *)
(* want of a row, or if a session has since inserted the role of an        *)
(* outdated token: nothing else (a retry, a lost answer, a rollback, a     *)
(* purge, events before the last, a session that provisions first) makes   *)
(* them differ.                                                            *)
THEOREM DatabaseMirrors == Spec => []MirrorsClerk
<1>1. TenancyInv /\ MirrorInv => MirrorsClerk
  <2> SUFFICES ASSUME TenancyInv, MirrorInv, Quiet
               PROVE  /\ "org" \in excused \/ (clerk.org = "active") = (db.org = "active")
                      /\ "role" \in excused \/ db.role = Stored(clerk.role)
    BY DEF MirrorsClerk
  <2>1. Pending = {}
    BY DEF Quiet, Pending
  <2>2. /\ clerk.org \in {"none", "active", "deleted"} /\ db.org \in {"none", "active", "inactive"}
        /\ clerk.org = "none" => db.org = "none"
        /\ clerk.org # "deleted" => db.org # "inactive"
    BY DEF TenancyInv, TypeOK, OrgStates, MirrorInv, HistoryInv
  <2>3. /\ clerk.org # "none" => db.org # "none"
        /\ (clerk.org = "deleted" /\ "org" \notin excused) => db.org = "inactive"
    BY <2>1 DEF MirrorInv, KnownInv, GoneInv
  <2>4. "role" \in excused \/ db.role = Stored(clerk.role)
    BY <2>1 DEF MirrorInv, RoleInv
  <2>5. QED
    BY <2>2, <2>3, <2>4
<1>2. Init => TenancyInv /\ MirrorInv
  BY InitInv, MirrorInit
<1>3. TenancyInv /\ MirrorInv /\ [Next]_vars => (TenancyInv /\ MirrorInv)'
  BY StepInv, MirrorStep
<1>4. QED
  BY <1>1, <1>2, <1>3, PTL DEF Spec
=============================================================================
