----------------------------- MODULE Scheduler -----------------------------
(***************************************************************************)
(* The poll scheduler: the Redis sorted set campaign:scheduler, the        *)
(* scheduler_tick task that works through it (backend/tasks/scheduler.py)  *)
(* and the API handlers that keep it in step with the campaigns            *)
(* (backend/api/campaigns.py, the kill switch of backend/api/org.py).      *)
(*                                                                         *)
(* Redis and Postgres are updated one after the other, with no transaction *)
(* over both: every handler and the tick are several steps here, and all   *)
(* of them interleave.  The tick is acknowledged when it starts, so a      *)
(* worker that dies loses the rest of it.                                  *)
(*                                                                         *)
(* Time is relative: a score is the number of clock steps until the        *)
(* campaign is due.                                                        *)
(***************************************************************************)
EXTENDS Integers, FiniteSets

CONSTANTS Campaigns,    \* the campaigns of one organization
          Ticks,        \* processes that serve the maintenance queue
          Requests,     \* API requests that may be in flight together
          Period,       \* poll_frequency_minutes, in clock steps
          Retry,        \* 300 seconds, in clock steps
          MaxRequests,  \* bound on API requests
          MaxErrors,    \* bound on exceptions inside the loop of a tick
          MaxCrashes    \* bound on ticks that die and kill switches that fail

NoCampaign == "none"

(* No id of a campaign, an integer, is the value that stands for none.     *)
(* Nothing checks poll_frequency_minutes: a poll may be due before a       *)
(* retry, or at once.                                                      *)
ASSUME SchedulerAssumption ==
    /\ NoCampaign \notin Campaigns
    /\ Period \in Nat /\ Retry \in Nat
    /\ MaxRequests \in Nat /\ MaxErrors \in Nat /\ MaxCrashes \in Nat

VARIABLES row,        \* campaigns.status; NEW before, DELETED after
          orgActive,  \* organizations.is_active
          zset,       \* clock steps until each member is due
          tick,       \* what each scheduler_tick has in hand
          req,        \* what each request has in hand
          rest,       \* clock steps until a campaign may be polled again
          requests, errors, crashes

vars == <<row, orgActive, zset, tick, req, rest, requests, errors, crashes>>

Longest == IF Retry > Period THEN Retry ELSE Period
Unscheduled == Longest + 1
Status == {"NEW", "ACTIVE", "PAUSED", "DELETED"}
NoTick == [phase |-> "idle"]
NoReq == [op |-> "none"]

(* The due members a tick has read, whether it has popped them, the        *)
(* campaign it is at, whether that was found active, is_active as its      *)
(* session has cached it (or nothing), and the time since `now` was taken. *)
TickStates == [phase : {"found", "popped"}, todo : SUBSET Campaigns,
               at : Campaigns \cup {NoCampaign}, active : BOOLEAN, sent : BOOLEAN,
               org : SUBSET BOOLEAN, elapsed : 0 .. Longest]
(* A handler: what it changes, what it loaded, what is left to do.  PAUSED *)
(* stands for ARCHIVED too.                                                *)
ReqStates ==
    [op : {"create", "frequency", "delete"} \cup {"ACTIVE", "PAUSED"}, campaign : Campaigns,
     prev : Status, phase : {"commit", "refresh", "add_now", "add", "remove"}]
    \cup [op : {"kill"}, ids : SUBSET Campaigns, locked : SUBSET Campaigns,
          phase : {"update", "remove"}]

Less(a, b) == IF a > b THEN a - b ELSE 0
Earlier(a, b) == IF a < b THEN a ELSE b
Has(t) == tick[t] # NoTick
Locked(c) == \E q \in Requests : req[q].op = "kill" /\ c \in req[q].locked
IsReq(q, phase) == req[q].op \notin {"none", "kill"} /\ req[q].phase = phase

----------------------------------------------------------------------------
Init ==
    /\ row = [c \in Campaigns |-> "NEW"]
    /\ orgActive = TRUE
    /\ zset = [c \in Campaigns |-> Unscheduled]
    /\ tick = [t \in Ticks |-> NoTick]
    /\ req = [q \in Requests |-> NoReq]
    /\ rest = [c \in Campaigns |-> 0]
    /\ requests = 0 /\ errors = 0 /\ crashes = 0

(* ZRANGEBYSCORE 0 now. *)
Due == {c \in Campaigns : zset[c] = 0}
Scan(t) ==
    /\ tick[t] = NoTick /\ Due # {}
    /\ tick' = [tick EXCEPT ![t] = [phase |-> "found", todo |-> Due, at |-> NoCampaign,
                                    active |-> FALSE, sent |-> FALSE, org |-> {},
                                    elapsed |-> 0]]
    /\ UNCHANGED <<row, orgActive, zset, req, rest, requests, errors, crashes>>

(* ZREM of the members that were read, before any of them is processed. *)
Pop(t) ==
    /\ Has(t) /\ tick[t].phase = "found"
    /\ zset' = [c \in Campaigns |-> IF c \in tick[t].todo THEN Unscheduled ELSE zset[c]]
    /\ tick' = [tick EXCEPT ![t].phase = "popped"]
    /\ UNCHANGED <<row, orgActive, req, rest, requests, errors, crashes>>

Between(t) == Has(t) /\ tick[t].phase = "popped" /\ tick[t].at = NoCampaign
Leave(t, c) == IF tick[t].todo = {c} THEN NoTick
               ELSE [tick[t] EXCEPT !.todo = @ \ {c}, !.at = NoCampaign,
                                    !.active = FALSE, !.sent = FALSE]

(* The SELECT of the next campaign; session.get takes the organization     *)
(* from the session when an earlier campaign has loaded it.                *)
OrgRead(t) == IF tick[t].org = {} THEN {orgActive} ELSE tick[t].org
Read(t, c) ==
    /\ Between(t) /\ c \in tick[t].todo
    /\ row[c] \in {"ACTIVE", "PAUSED"}
    /\ tick' = [tick EXCEPT ![t].at = c, ![t].org = OrgRead(t),
                            ![t].active = (row[c] = "ACTIVE" /\ TRUE \in OrgRead(t))]
    /\ UNCHANGED <<row, orgActive, zset, req, rest, requests, errors, crashes>>

(* Mutant: a member without a campaign is put back. *)
DropPutsBack(t, c) ==
    /\ Between(t) /\ c \in tick[t].todo
    /\ row[c] \in {"NEW", "DELETED"}
    /\ zset' = [zset EXCEPT ![c] = Period]
    /\ tick' = [tick EXCEPT ![t] = Leave(t, c)]
    /\ UNCHANGED <<row, orgActive, req, rest, requests, errors, crashes>>

(* A member without a campaign is not put back. *)
Drop(t, c) ==
    /\ Between(t) /\ c \in tick[t].todo
    /\ row[c] \in {"NEW", "DELETED"}
    /\ tick' = [tick EXCEPT ![t] = Leave(t, c)]
    /\ UNCHANGED <<row, orgActive, zset, req, rest, requests, errors, crashes>>

(* send_task(langgen_task, [campaign_id, now]). *)
Send(t, c) ==
    /\ Has(t) /\ tick[t].at = c /\ tick[t].active /\ ~tick[t].sent
    /\ tick' = [tick EXCEPT ![t].sent = TRUE]
    /\ rest' = [rest EXCEPT ![c] = Less(Period, tick[t].elapsed)]
    /\ UNCHANGED <<row, orgActive, zset, req, requests, errors, crashes>>

(* Mutant: the score is the poll that was just sent. *)
RescheduleNow(t, c) ==
    /\ Has(t) /\ tick[t].at = c /\ tick[t].active = tick[t].sent
    /\ zset' = [zset EXCEPT ![c] = 0]
    /\ tick' = [tick EXCEPT ![t] = Leave(t, c)]
    /\ UNCHANGED <<row, orgActive, req, rest, requests, errors, crashes>>

(* ZADD next_poll, for a campaign that was skipped as well. *)
Reschedule(t, c) ==
    /\ Has(t) /\ tick[t].at = c /\ tick[t].active = tick[t].sent
    /\ zset' = [zset EXCEPT ![c] = Less(Period, tick[t].elapsed)]
    /\ tick' = [tick EXCEPT ![t] = Leave(t, c)]
    /\ UNCHANGED <<row, orgActive, req, rest, requests, errors, crashes>>

(* Mutant: the except branch does not put the campaign back. *)
TickErrorDrops(t, c) ==
    /\ Has(t) /\ tick[t].phase = "popped" /\ errors < MaxErrors
    /\ c = tick[t].at \/ (tick[t].at = NoCampaign /\ c \in tick[t].todo)
    /\ errors' = errors + 1
    /\ tick' = [tick EXCEPT ![t] = Leave(t, c)]
    /\ UNCHANGED <<row, orgActive, zset, req, rest, requests, crashes>>

(* Mutant: the exception ends the tick. *)
TickErrorEnds(t, c) ==
    /\ Has(t) /\ tick[t].phase = "popped" /\ errors < MaxErrors
    /\ c = tick[t].at \/ (tick[t].at = NoCampaign /\ c \in tick[t].todo)
    /\ errors' = errors + 1
    /\ zset' = [zset EXCEPT ![c] = Less(Retry, tick[t].elapsed)]
    /\ tick' = [tick EXCEPT ![t] = NoTick]
    /\ UNCHANGED <<row, orgActive, req, rest, requests, crashes>>

(* An exception while a campaign is read, sent or put back: the session is *)
(* rolled back, which empties it, and the campaign is put back for now +   *)
(* 300.                                                                    *)
TickError(t, c) ==
    /\ Has(t) /\ tick[t].phase = "popped" /\ errors < MaxErrors
    /\ c = tick[t].at \/ (tick[t].at = NoCampaign /\ c \in tick[t].todo)
    /\ errors' = errors + 1
    /\ zset' = [zset EXCEPT ![c] = Less(Retry, tick[t].elapsed)]
    /\ rest' = [rest EXCEPT ![c] = Earlier(@, Less(Retry, tick[t].elapsed))]
    /\ tick' = [tick EXCEPT ![t] = IF Leave(t, c) = NoTick THEN NoTick
                                   ELSE [Leave(t, c) EXCEPT !.org = {}]]
    /\ UNCHANGED <<row, orgActive, req, requests, crashes>>

(* The worker dies, or Redis fails in the except branch too. *)
TickDies(t) ==
    /\ Has(t) /\ crashes < MaxCrashes
    /\ crashes' = crashes + 1
    /\ tick' = [tick EXCEPT ![t] = NoTick]
    /\ UNCHANGED <<row, orgActive, zset, req, rest, requests, errors>>

----------------------------------------------------------------------------
(* get_current_session admits no request of an inactive organization.      *)
Begin(q, r) ==
    /\ orgActive
    /\ req[q] = NoReq /\ requests < MaxRequests
    /\ requests' = requests + 1
    /\ req' = [req EXCEPT ![q] = r]

(* create_campaign commits the row and then enqueues it as due now. *)
Create(q, c) ==
    /\ row[c] = "NEW"
    /\ Begin(q, [op |-> "create", campaign |-> c, prev |-> "NEW", phase |-> "add_now"])
    /\ row' = [row EXCEPT ![c] = "ACTIVE"]
    /\ UNCHANGED <<orgActive, zset, tick, rest, errors, crashes>>

(* update_campaign loads the campaign: previous_status. *)
LoadUpdate(q, c, op) ==
    /\ row[c] \in {"ACTIVE", "PAUSED"} /\ op \in {"ACTIVE", "PAUSED", "frequency"}
    /\ Begin(q, [op |-> op, campaign |-> c, prev |-> row[c], phase |-> "commit"])
    /\ UNCHANGED <<row, orgActive, zset, tick, rest, errors, crashes>>

(* Its UPDATE names the status only when it differs from the loaded one.   *)
(* It waits for the row lock of a kill switch, and fails when the row is   *)
(* gone.                                                                   *)
CommitUpdate(q) ==
    /\ IsReq(q, "commit")
    /\ req[q].op = req[q].prev \/ ~Locked(req[q].campaign)
    /\ IF row[req[q].campaign] = "DELETED"
       THEN req' = [req EXCEPT ![q] = NoReq] /\ UNCHANGED row
       ELSE /\ req' = [req EXCEPT ![q].phase = "refresh"]
            /\ row' = IF req[q].op \in {"frequency", req[q].prev} THEN row
                      ELSE [row EXCEPT ![req[q].campaign] = req[q].op]
    /\ UNCHANGED <<orgActive, zset, tick, rest, requests, errors, crashes>>

(* Mutant: only a new frequency enqueues the campaign. *)
RefreshFrequencyOnly(q) ==
    /\ IsReq(q, "refresh")
    /\ LET now == row[req[q].campaign] IN
       req' = [req EXCEPT ![q] =
                 IF now = "ACTIVE" /\ req[q].op = "frequency" THEN [@ EXCEPT !.phase = "add"]
                 ELSE IF req[q].prev = "ACTIVE" /\ now = "PAUSED"
                 THEN [@ EXCEPT !.phase = "remove"]
                 ELSE NoReq]
    /\ UNCHANGED <<row, orgActive, zset, tick, rest, requests, errors, crashes>>

(* After the commit the campaign is read again; its status and the one     *)
(* loaded before decide what becomes of the sorted set.                    *)
Refresh(q) ==
    /\ IsReq(q, "refresh")
    /\ LET now == row[req[q].campaign]
           changed == now # req[q].prev \/ req[q].op = "frequency"
       IN  req' = [req EXCEPT ![q] =
                     IF now = "ACTIVE" /\ changed THEN [@ EXCEPT !.phase = "add"]
                     ELSE IF req[q].prev = "ACTIVE" /\ now = "PAUSED"
                     THEN [@ EXCEPT !.phase = "remove"]
                     ELSE NoReq]
    /\ UNCHANGED <<row, orgActive, zset, tick, rest, requests, errors, crashes>>

(* delete_campaign commits and then removes the member. *)
Delete(q, c) ==
    /\ row[c] \in {"ACTIVE", "PAUSED"} /\ ~Locked(c)
    /\ Begin(q, [op |-> "delete", campaign |-> c, prev |-> row[c], phase |-> "remove"])
    /\ row' = [row EXCEPT ![c] = "DELETED"]
    /\ UNCHANGED <<orgActive, zset, tick, rest, errors, crashes>>

(* enqueue_campaign_now and enqueue_campaign. *)
Enqueue(q, phase, score) ==
    /\ IsReq(q, phase)
    /\ zset' = [zset EXCEPT ![req[q].campaign] = score]
    /\ rest' = [rest EXCEPT ![req[q].campaign] = Earlier(@, score)]
    /\ req' = [req EXCEPT ![q] = NoReq]
    /\ UNCHANGED <<row, orgActive, tick, requests, errors, crashes>>

(* remove_campaign. *)
Remove(q) ==
    /\ IsReq(q, "remove")
    /\ zset' = [zset EXCEPT ![req[q].campaign] = Unscheduled]
    /\ req' = [req EXCEPT ![q] = NoReq]
    /\ UNCHANGED <<row, orgActive, tick, rest, requests, errors, crashes>>

(* activate_kill_switch: SELECT the ids of the active campaigns, UPDATE    *)
(* the active campaigns, ZREM the ids one by one, COMMIT.                  *)
KillSelect(q) ==
    /\ Begin(q, [op |-> "kill", ids |-> {c \in Campaigns : row[c] = "ACTIVE"},
                 locked |-> {}, phase |-> "update"])
    /\ UNCHANGED <<row, orgActive, zset, tick, rest, errors, crashes>>

KillUpdate(q) ==
    /\ req[q].op = "kill" /\ req[q].phase = "update"
    /\ \A c \in Campaigns : row[c] = "ACTIVE" => ~Locked(c)
    /\ req' = [req EXCEPT ![q].phase = "remove",
                          ![q].locked = {c \in Campaigns : row[c] = "ACTIVE"}]
    /\ UNCHANGED <<row, orgActive, zset, tick, rest, requests, errors, crashes>>

KillRemove(q) ==
    /\ req[q].op = "kill" /\ req[q].phase = "remove"
    /\ \E c \in req[q].ids :
         /\ zset' = [zset EXCEPT ![c] = Unscheduled]
         /\ req' = [req EXCEPT ![q].ids = @ \ {c}]
    /\ UNCHANGED <<row, orgActive, tick, rest, requests, errors, crashes>>

KillCommit(q) ==
    /\ req[q].op = "kill" /\ req[q].phase = "remove" /\ req[q].ids = {}
    /\ row' = [c \in Campaigns |-> IF c \in req[q].locked THEN "PAUSED" ELSE row[c]]
    /\ req' = [req EXCEPT ![q] = NoReq]
    /\ UNCHANGED <<orgActive, zset, tick, rest, requests, errors, crashes>>

(* A handler dies between its steps: its transaction, if one is open, is   *)
(* rolled back; Redis is not.                                              *)
RequestDies(q) ==
    /\ req[q] # NoReq /\ crashes < MaxCrashes
    /\ crashes' = crashes + 1
    /\ req' = [req EXCEPT ![q] = NoReq]
    /\ UNCHANGED <<row, orgActive, zset, tick, rest, requests, errors>>

(* The webhook organization.deleted switches the organization off; nothing *)
(* switches it on again.                                                   *)
DeactivateOrg ==
    /\ orgActive /\ requests < MaxRequests
    /\ requests' = requests + 1
    /\ orgActive' = FALSE
    /\ UNCHANGED <<row, zset, tick, req, rest, errors, crashes>>

Advance ==
    /\ zset' = [c \in Campaigns |-> IF zset[c] = Unscheduled THEN Unscheduled
                                    ELSE Less(zset[c], 1)]
    /\ rest' = [c \in Campaigns |-> Less(rest[c], 1)]
    /\ tick' = [t \in Ticks |-> IF Has(t) THEN [tick[t] EXCEPT !.elapsed = Earlier(@ + 1, Longest)]
                                ELSE NoTick]
    /\ UNCHANGED <<row, orgActive, req, requests, errors, crashes>>

TickStep(t) ==
    \/ Scan(t) \/ Pop(t)
    \/ \E c \in Campaigns : Read(t, c) \/ Drop(t, c) \/ Send(t, c) \/ Reschedule(t, c)
RequestStep(q) ==
    \/ CommitUpdate(q) \/ Refresh(q) \/ Remove(q)
    \/ Enqueue(q, "add_now", 0) \/ Enqueue(q, "add", Period)
    \/ KillUpdate(q) \/ KillRemove(q) \/ KillCommit(q)
Call(q) ==
    \/ KillSelect(q)
    \/ \E c \in Campaigns :
         \/ Create(q, c) \/ Delete(q, c)
         \/ \E op \in {"ACTIVE", "PAUSED", "frequency"} : LoadUpdate(q, c, op)

Next ==
    \/ \E t \in Ticks : TickStep(t) \/ TickDies(t) \/ \E c \in Campaigns : TickError(t, c)
    \/ \E q \in Requests : Call(q) \/ RequestStep(q) \/ RequestDies(q)
    \/ DeactivateOrg
    \/ Advance

Spec == Init /\ [][Next]_vars

(* Time passes, Celery beat sends a tick every minute, and a tick or a     *)
(* request that has started goes on.                                       *)
Fairness ==
    /\ WF_vars(Advance)
    /\ \A t \in Ticks : WF_vars(TickStep(t))
    /\ \A q \in Requests : WF_vars(RequestStep(q))
FairSpec == Spec /\ Fairness

----------------------------------------------------------------------------
(* Every variable has its type. *)
TypeOK ==
    /\ row \in [Campaigns -> Status]
    /\ orgActive \in BOOLEAN
    /\ zset \in [Campaigns -> 0 .. Unscheduled]
    /\ tick \in [Ticks -> TickStates \cup {NoTick}]
    /\ req \in [Requests -> ReqStates \cup {NoReq}]
    /\ rest \in [Campaigns -> 0 .. Period]
    /\ requests \in Nat /\ errors \in Nat /\ crashes \in Nat

InHandOfTick(c) == \E t \in Ticks : Has(t) /\ c \in tick[t].todo
InHandOfRequest(c) ==
    \E q \in Requests :
        \/ req[q].op = "kill"
        \/ req[q].op \notin {"none", "kill"} /\ req[q].campaign = c

(* "Reschedule to keep the loop alive" (scheduler_tick): as long as        *)
(* nothing dies, an ACTIVE campaign is in the sorted set, or in the hands  *)
(* of a tick or of a request that has still to deal with it.               *)
ActiveStaysScheduled ==
    crashes = 0 =>
        \A c \in Campaigns :
            row[c] = "ACTIVE" =>
                zset[c] # Unscheduled \/ InHandOfTick(c) \/ InHandOfRequest(c)

(* A death costs no more than what was popped: an ACTIVE campaign drops    *)
(* out of the loop when a tick dies that has it in hand, or when the kill  *)
(* switch removes a member whose row it is about to pause.                 *)
Scheduled(c) == zset[c] # Unscheduled \/ InHandOfTick(c)
LostOnlyByDeath ==
    [][\A c \in Campaigns :
          row[c] = "ACTIVE" /\ Scheduled(c) /\ ~Scheduled(c)' =>
             \/ \E t \in Ticks : TickDies(t) /\ c \in tick[t].todo
             \/ \E q \in Requests : KillRemove(q) /\ c \in req[q].locked]_vars

(* A deleted campaign that has left the sorted set, and that no tick and   *)
(* no request is about to put there, is gone for good, whatever requests   *)
(* that loaded it earlier, kill switches and deaths still do.              *)
Gone(c) ==
    /\ row[c] = "DELETED" /\ ~Scheduled(c)
    /\ \A q \in Requests : (IsReq(q, "add_now") \/ IsReq(q, "add")) => req[q].campaign # c
DeletedStaysForgotten == [][\A c \in Campaigns : Gone(c) => Gone(c)']_vars

(* "so a slow/crashed tick can't cause the next tick to double-fire the    *)
(* same campaigns" (scheduler_tick): a campaign is sent again only when    *)
(* the poll after its last one is due, its error retry is, or the API has  *)
(* enqueued it.                                                            *)
NoDoubleFire ==
    [][\A t \in Ticks, c \in Campaigns : Send(t, c) => rest[c] = 0]_vars

(* A campaign that stays ACTIVE in an organization that is active is       *)
(* polled again and again, if no process dies.                             *)
ActiveIsPolled ==
    \A c \in Campaigns :
        (<>[](row[c] = "ACTIVE" /\ orgActive) /\ [](crashes = 0))
            => []<><<\E t \in Ticks : Send(t, c)>>_vars

(* A campaign that is deleted leaves the sorted set for good, also when a  *)
(* tick that had it in hand puts it back after the API removed it.         *)
DeletedIsForgotten ==
    \A c \in Campaigns :
        [](row[c] = "DELETED" => <>[](zset[c] = Unscheduled))

=============================================================================
