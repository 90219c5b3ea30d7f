-------------------------- MODULE Scheduler_proofs --------------------------
(***************************************************************************)
(* Proofs about Scheduler, for any campaigns, periods and bounds:          *)
(*   TypeCorrect   the type invariant                                      *)
(*   StaysScheduled  an ACTIVE campaign is not lost, whatever the number of*)
(*                 maintenance processes, when the API handles one request *)
(*                 at a time                                               *)
(*   LossesAreDeaths  a death costs the campaigns a tick had popped and no *)
(*                 other, when the API handles one request at a time       *)
(*   StaysForgotten  a deleted campaign that nothing is about to put in    *)
(*                 the sorted set never comes back to it                   *)
(*   FiresOnce     a campaign is not sent before it is due, with one       *)
(*                 maintenance process, when nothing dies or the API       *)
(*                 handles one request at a time                           *)
(***************************************************************************)
EXTENDS Scheduler, TLAPS

(* An update that waits to commit has no other operation.                  *)
TypeInv ==
    /\ TypeOK
    /\ \A q \in Requests :
          IsReq(q, "commit") => req[q].op \in {"ACTIVE", "PAUSED", "frequency"}

(* The sorted set or a tick has the campaign.                              *)
Kept(c) == zset[c] # Unscheduled \/ InHandOfTick(c)

(* A request will put the campaign in the sorted set, or make it PAUSED.   *)
DealsWith(q, c) ==
    \/ (IsReq(q, "add_now") \/ IsReq(q, "add")) /\ req[q].campaign = c
    \/ IsReq(q, "refresh") /\ req[q].campaign = c /\ req[q].prev # "ACTIVE"
    \/ req[q].op = "kill" /\ req[q].phase = "remove" /\ c \in req[q].locked

KeptInv ==
    crashes = 0 =>
        \A c \in Campaigns :
            row[c] = "ACTIVE" => Kept(c) \/ \E q \in Requests : DealsWith(q, c)

(* What a request removes from the sorted set is not ACTIVE, or will be    *)
(* PAUSED when the kill switch commits.                                    *)
Removes(q) ==
    /\ IsReq(q, "remove") => row[req[q].campaign] # "ACTIVE"
    /\ req[q].op = "kill" /\ req[q].phase = "update" =>
          \A c \in req[q].ids : row[c] = "ACTIVE"
    /\ req[q].op = "kill" /\ req[q].phase = "remove" =>
          /\ req[q].ids \subseteq req[q].locked
          /\ \A c \in Campaigns : row[c] = "ACTIVE" => c \in req[q].locked
RemovesInv == \A q \in Requests : Removes(q)

(* A tick has each campaign until it has rescheduled it, and no campaign   *)
(* it has not sent is resting.                                             *)
SentBy(t, c) == Has(t) /\ tick[t].at = c /\ tick[t].sent
Fresh(t) ==
    /\ tick[t].at \in tick[t].todo \cup {NoCampaign}
    /\ tick[t].at # NoCampaign => tick[t].phase = "popped"
    /\ tick[t].sent => tick[t].at # NoCampaign
    /\ \A c \in tick[t].todo :
          rest[c] = 0 \/ (SentBy(t, c) /\ rest[c] <= Less(Period, tick[t].elapsed))

(* A request has its campaign loaded.                                      *)
KnownInv ==
    \A q \in Requests :
        req[q].op \notin {"none", "kill"} => row[req[q].campaign] # "NEW"

(* The campaign has not been enqueued for the first time.                  *)
Awaited(c) ==
    row[c] = "NEW" \/ \E q \in Requests : IsReq(q, "add_now") /\ req[q].campaign = c

(* Where t is the only tick, a campaign it has not just sent rests no      *)
(* longer than the sorted set says.  Where it may die, neither does one it *)
(* has sent: only a new campaign is enqueued as due, and no tick has it.   *)
Paced(t) ==
    /\ Has(t) => Fresh(t)
    /\ \A c \in Campaigns : ~SentBy(t, c) => rest[c] <= zset[c]
    /\ MaxCrashes # 0 =>
         /\ \A c \in Campaigns : rest[c] <= zset[c]
         /\ Has(t) /\ tick[t].phase = "popped" =>
               \A c \in tick[t].todo : Less(Period, tick[t].elapsed) <= zset[c]
         /\ \A c \in Campaigns :
               Awaited(c) => zset[c] = Unscheduled /\ ~(Has(t) /\ c \in tick[t].todo)
FireInv == KnownInv /\ \A t \in Ticks : Paced(t)

----------------------------------------------------------------------------
LEMMA Scores ==
  /\ Period \in Nat /\ Retry \in Nat /\ Longest \in Nat
  /\ Retry <= Longest /\ Period <= Longest /\ Unscheduled = Longest + 1
  /\ NoCampaign \notin Campaigns
  BY SchedulerAssumption DEF Unscheduled, Longest

LEMMA LessIs ==
  ASSUME NEW a \in Nat, NEW b \in Nat
  PROVE  Less(a, b) \in Nat /\ Less(a, b) <= a
  BY DEF Less

LEMMA TickHas ==
  ASSUME TypeOK, NEW t \in Ticks, Has(t)
  PROVE  tick[t] \in TickStates
  BY DEF TypeOK, Has

LEMMA LeaveType ==
  ASSUME TypeOK, NEW t \in Ticks, NEW c, Has(t)
  PROVE  /\ Leave(t, c) \in TickStates \cup {NoTick}
         /\ Leave(t, c) # NoTick =>
              /\ Leave(t, c) = [tick[t] EXCEPT !.todo = @ \ {c}, !.at = NoCampaign,
                                               !.active = FALSE, !.sent = FALSE]
              /\ [Leave(t, c) EXCEPT !.org = {}] \in TickStates
  BY TickHas DEF Leave, TickStates

----------------------------------------------------------------------------
(* Every variable has its type.                                            *)
LEMMA TickTypes ==
  ASSUME TypeInv, NEW t \in Ticks, TickStep(t) \/ TickDies(t) \/ \E c \in Campaigns : TickError(t, c)
  PROVE  TypeInv'
<1>1. UNCHANGED <<row, orgActive, req, requests>>
  BY DEF TickStep, Scan, Pop, Read, Drop, Send, Reschedule, TickDies, TickError
<1> DEFINE Typed ==
      /\ zset' \in [Campaigns -> 0 .. Unscheduled] /\ rest' \in [Campaigns -> 0 .. Period]
      /\ tick' \in [Ticks -> TickStates \cup {NoTick}]
      /\ errors' \in Nat /\ crashes' \in Nat
<1> SUFFICES Typed
  BY <1>1 DEF TypeInv, TypeOK, IsReq
<1>2. /\ zset \in [Campaigns -> 0 .. Unscheduled] /\ rest \in [Campaigns -> 0 .. Period]
      /\ tick \in [Ticks -> TickStates \cup {NoTick}]
      /\ errors \in Nat /\ crashes \in Nat
  BY DEF TypeInv, TypeOK
<1>3. ASSUME NEW x \in TickStates \cup {NoTick}, tick' = [tick EXCEPT ![t] = x],
             UNCHANGED <<zset, rest, errors, crashes>>
      PROVE  Typed
  BY <1>2, <1>3
<1>4. CASE Scan(t)
  <2>1. [phase |-> "found", todo |-> Due, at |-> NoCampaign, active |-> FALSE,
         sent |-> FALSE, org |-> {}, elapsed |-> 0] \in TickStates
    BY Scores DEF TickStates, Due
  <2>2. QED
    BY <1>3, <1>4, <2>1 DEF Scan
<1>5. CASE Pop(t)
  <2>1. [tick[t] EXCEPT !.phase = "popped"] \in TickStates
    BY <1>5, TickHas DEF Pop, TickStates, TypeInv
  <2>2. zset' \in [Campaigns -> 0 .. Unscheduled]
    BY <1>2, <1>5, Scores DEF Pop
  <2>3. QED
    BY <1>2, <1>5, <2>1, <2>2 DEF Pop
<1>6. ASSUME NEW c \in Campaigns, Read(t, c) PROVE Typed
  <2> DEFINE active == row[c] = "ACTIVE" /\ TRUE \in OrgRead(t)
  <2>1. OrgRead(t) \in SUBSET BOOLEAN
    <3>1. tick[t].org \in SUBSET BOOLEAN
      BY <1>6, TickHas DEF Read, Between, TickStates, TypeInv
    <3>2. {orgActive} \in SUBSET BOOLEAN
      BY Zenon DEF TypeInv, TypeOK
    <3>3. QED
      BY <3>1, <3>2 DEF OrgRead
  <2>2. active \in BOOLEAN
    BY Zenon
  <2>3. [[[tick[t] EXCEPT !.at = c] EXCEPT !.org = OrgRead(t)] EXCEPT !.active = active] \in TickStates
    <3> HIDE DEF active
    <3>1. QED
      BY <1>6, <2>1, <2>2, TickHas DEF Read, Between, TickStates, TypeInv
  <2>4. tick' = [tick EXCEPT ![t] =
                 [[[tick[t] EXCEPT !.at = c] EXCEPT !.org = OrgRead(t)] EXCEPT !.active = active]]
    BY <1>6, <1>2 DEF Read
  <2>5. QED
    BY <1>3, <1>6, <2>3, <2>4 DEF Read
<1>7. ASSUME NEW c \in Campaigns, Drop(t, c) PROVE Typed
  BY <1>3, <1>7, LeaveType DEF Drop, Between, TypeInv
<1>8. ASSUME NEW c \in Campaigns, Send(t, c) PROVE Typed
  <2>1. [tick[t] EXCEPT !.sent = TRUE] \in TickStates /\ tick[t].elapsed \in Nat
    <3>1. Has(t)
      BY <1>8 DEF Send
    <3>2. tick[t] \in TickStates
      BY <3>1, TickHas DEF TypeInv
    <3>3. tick[t].elapsed \in 0 .. Longest
      BY <3>2 DEF TickStates
    <3>4. [tick[t] EXCEPT !.sent = TRUE] \in TickStates
      BY <3>2 DEF TickStates
    <3>5. QED
      BY <3>3, <3>4, Scores
  <2>2. Less(Period, tick[t].elapsed) \in 0 .. Period
    BY <2>1, Scores DEF Less
  <2>3. QED
    BY <1>2, <1>8, <2>1, <2>2 DEF Send
<1>9. ASSUME NEW c \in Campaigns, Has(t),
             Reschedule(t, c) \/ TickError(t, c)
      PROVE  Typed
  <2>1. tick[t].elapsed \in Nat
    BY <1>9, TickHas, Scores DEF TickStates, TypeInv
  <2>2. /\ Less(Period, tick[t].elapsed) \in 0 .. Unscheduled
        /\ Less(Retry, tick[t].elapsed) \in Nat
        /\ Less(Retry, tick[t].elapsed) \in 0 .. Unscheduled
    BY <2>1, Scores DEF Less
  <2>3. Earlier(rest[c], Less(Retry, tick[t].elapsed)) \in 0 .. Period
    <3>1. rest[c] \in 0 .. Period
      BY <1>2
    <3>2. QED
      BY <2>2, <3>1, Scores DEF Earlier
  <2>4. \E x \in TickStates \cup {NoTick} : tick' = [tick EXCEPT ![t] = x]
    BY <1>9, LeaveType DEF Reschedule, TickError, TypeInv
  <2>5. tick' \in [Ticks -> TickStates \cup {NoTick}]
    BY <1>2, <2>4
  <2>6. zset' \in [Campaigns -> 0 .. Unscheduled]
    BY <1>2, <1>9, <2>2 DEF Reschedule, TickError
  <2>7. rest' \in [Campaigns -> 0 .. Period]
    BY <1>2, <1>9, <2>3 DEF Reschedule, TickError
  <2>8. errors' \in Nat /\ crashes' \in Nat
    BY <1>2, <1>9 DEF Reschedule, TickError
  <2>9. QED
    BY <2>5, <2>6, <2>7, <2>8
<1>10. CASE TickDies(t)
  BY <1>2, <1>10 DEF TickDies
<1>11. \A c \in Campaigns : Reschedule(t, c) \/ TickError(t, c) => Has(t)
  BY DEF Reschedule, TickError
<1>12. QED
  BY <1>4, <1>5, <1>6, <1>7, <1>8, <1>9, <1>10, <1>11 DEF TickStep

LEMMA ReqTypes ==
  ASSUME TypeInv, NEW q \in Requests, Call(q) \/ RequestStep(q) \/ RequestDies(q)
  PROVE  TypeInv'
<1>1. UNCHANGED <<orgActive, tick, errors>>
  BY DEF Call, RequestStep, KillSelect, Create, Delete, LoadUpdate, CommitUpdate, Refresh,
         Remove, Enqueue, KillUpdate, KillRemove, KillCommit, RequestDies
<1>2. ASSUME NEW c \in Campaigns, Create(q, c) PROVE TypeInv'
  BY <1>1, <1>2 DEF TypeInv, TypeOK, Create, Begin, IsReq, ReqStates, Status
<1>3. ASSUME NEW c \in Campaigns, Delete(q, c) PROVE TypeInv'
  BY <1>1, <1>3 DEF TypeInv, TypeOK, Delete, Begin, IsReq, ReqStates, Status
<1>4. ASSUME NEW c \in Campaigns, NEW op \in {"ACTIVE", "PAUSED", "frequency"},
             LoadUpdate(q, c, op)
      PROVE  TypeInv'
  BY <1>1, <1>4 DEF TypeInv, TypeOK, LoadUpdate, Begin, IsReq, ReqStates, Status
<1>5. CASE KillSelect(q)
  BY <1>1, <1>5 DEF TypeInv, TypeOK, KillSelect, Begin, IsReq, ReqStates
<1>6. CASE CommitUpdate(q)
  BY <1>1, <1>6 DEF TypeInv, TypeOK, CommitUpdate, IsReq, ReqStates, Status, NoReq
<1>7. CASE Refresh(q)
  BY <1>1, <1>7 DEF TypeInv, TypeOK, Refresh, IsReq, ReqStates, NoReq
<1>8. CASE Remove(q)
  BY <1>1, <1>8, Scores DEF TypeInv, TypeOK, Remove, IsReq, ReqStates, NoReq
<1>9. ASSUME NEW score \in 0 .. Period, NEW phase, Enqueue(q, phase, score) PROVE TypeInv'
  <2>1. req[q].campaign \in Campaigns
    BY <1>9 DEF TypeInv, TypeOK, Enqueue, IsReq, ReqStates, NoReq
  <2>2. zset' \in [Campaigns -> 0 .. Unscheduled] /\ rest' \in [Campaigns -> 0 .. Period]
    BY <1>9, <2>1, Scores DEF TypeInv, TypeOK, Enqueue, Earlier
  <2>3. QED
    BY <1>1, <1>9, <2>2 DEF TypeInv, TypeOK, Enqueue, IsReq, NoReq
<1>10. CASE KillUpdate(q)
  <2> DEFINE S == {c \in Campaigns : row[c] = "ACTIVE"}
  <2>1. req' = [req EXCEPT ![q] = [[@ EXCEPT !.phase = "remove"] EXCEPT !.locked = S]]
    BY <1>10 DEF KillUpdate, TypeInv, TypeOK
  <2>2. S \in SUBSET Campaigns
    OBVIOUS
  <2> HIDE DEF S
  <2>3. req' \in [Requests -> ReqStates \cup {NoReq}] /\ ~IsReq(q, "commit")'
    <3>1. req \in [Requests -> ReqStates \cup {NoReq}] /\ req[q].op = "kill"
      BY <1>10 DEF TypeInv, TypeOK, KillUpdate
    <3>2. req[q] \in ReqStates
      BY <3>1 DEF NoReq
    <3>3. [[req[q] EXCEPT !.phase = "remove"] EXCEPT !.locked = S] \in ReqStates
      BY <2>2, <3>1, <3>2 DEF ReqStates
    <3>4. QED
      BY <2>1, <3>1, <3>3, <3>2 DEF IsReq, ReqStates
  <2>4. QED
    BY <1>1, <1>10, <2>1, <2>3 DEF TypeInv, TypeOK, KillUpdate, IsReq
<1>11. CASE KillRemove(q)
  BY <1>1, <1>11, Scores DEF TypeInv, TypeOK, KillRemove, IsReq, ReqStates, NoReq
<1>12. CASE KillCommit(q)
  BY <1>1, <1>12 DEF TypeInv, TypeOK, KillCommit, IsReq, Status, NoReq
<1>13. CASE RequestDies(q)
  BY <1>1, <1>13 DEF TypeInv, TypeOK, RequestDies, IsReq, NoReq
<1>14. 0 \in 0 .. Period /\ Period \in 0 .. Period
  BY Scores
<1>15. QED
  BY <1>2, <1>3, <1>4, <1>5, <1>6, <1>7, <1>8, <1>9, <1>10, <1>11, <1>12, <1>13, <1>14
  DEF Call, RequestStep

LEMMA AdvanceTypes ==
  ASSUME TypeInv, Advance
  PROVE  TypeInv'
<1>1. zset' \in [Campaigns -> 0 .. Unscheduled] /\ rest' \in [Campaigns -> 0 .. Period]
  BY Scores, LessIs DEF Advance, TypeInv, TypeOK, Less
<1>2. tick' \in [Ticks -> TickStates \cup {NoTick}]
  <2>1. ASSUME NEW t \in Ticks, Has(t)
        PROVE  [tick[t] EXCEPT !.elapsed = Earlier(@ + 1, Longest)] \in TickStates
    BY <2>1, TickHas, Scores DEF TypeInv, TickStates, Earlier
  <2>2. QED
    BY <2>1 DEF Advance
<1>3. QED
  BY <1>1, <1>2 DEF Advance, TypeInv, TypeOK, IsReq

LEMMA InitType == Init => TypeInv
  BY Scores DEF Init, TypeInv, TypeOK, Status, NoReq, IsReq

LEMMA StepType == TypeInv /\ [Next]_vars => TypeInv'
<1>1. ASSUME TypeInv, DeactivateOrg PROVE TypeInv'
  <2>1. orgActive' \in BOOLEAN
    BY <1>1, Zenon DEF DeactivateOrg
  <2>2. UNCHANGED <<row, zset, tick, req, rest, errors, crashes>>
    BY <1>1 DEF DeactivateOrg
  <2>3. requests' = requests + 1
    BY <1>1, Zenon DEF DeactivateOrg
  <2>4. QED
    BY <1>1, <2>1, <2>2, <2>3 DEF TypeInv, TypeOK, IsReq
<1>2. TypeInv /\ UNCHANGED vars => TypeInv'
  BY DEF TypeInv, TypeOK, vars, IsReq
<1>3. QED
  BY <1>1, <1>2, TickTypes, ReqTypes, AdvanceTypes DEF Next

(* Every variable has its type.                                            *)
THEOREM TypeCorrect == Spec => []TypeOK
<1>1. TypeInv => TypeOK
  BY DEF TypeInv
<1>2. QED
  BY <1>1, InitType, StepType, PTL DEF Spec

----------------------------------------------------------------------------
(* An ACTIVE campaign is not lost.                                         *)
LEMMA LeaveKeeps ==
  ASSUME TypeOK, NEW t \in Ticks, NEW c, NEW d, Has(t), d \in tick[t].todo, d # c
  PROVE  /\ Leave(t, c) # NoTick /\ d \in Leave(t, c).todo
         /\ [Leave(t, c) EXCEPT !.org = {}] # NoTick
         /\ d \in [Leave(t, c) EXCEPT !.org = {}].todo
<1>1. tick[t] \in TickStates
  BY TickHas
<1>2. Leave(t, c) = [tick[t] EXCEPT !.todo = @ \ {c}, !.at = NoCampaign,
                                    !.active = FALSE, !.sent = FALSE]
  BY DEF Leave
<1>3. Leave(t, c).phase = tick[t].phase
  BY <1>1, <1>2 DEF TickStates
<1>4. Leave(t, c).todo = tick[t].todo \ {c}
  BY <1>1, <1>2 DEF TickStates
<1>5. Leave(t, c) # NoTick
  BY <1>1, <1>3 DEF TickStates, NoTick
<1>6. [Leave(t, c) EXCEPT !.org = {}] \in TickStates
  BY <1>5, LeaveType
<1>7. [Leave(t, c) EXCEPT !.org = {}].todo = Leave(t, c).todo
  BY <1>1, <1>2 DEF TickStates
<1>8. \A x \in TickStates : x # NoTick
  BY DEF TickStates, NoTick
<1>9. QED
  BY <1>4, <1>5, <1>6, <1>7, <1>8

(* A tick that leaves one campaign has the others still in hand.           *)
LEMMA LeaveHolds ==
  ASSUME TypeOK, NEW t \in Ticks, NEW c, NEW d, Has(t), d # c, InHandOfTick(d),
         \/ tick' = [tick EXCEPT ![t] = Leave(t, c)]
         \/ tick' = [tick EXCEPT ![t] = IF Leave(t, c) = NoTick THEN NoTick
                                        ELSE [Leave(t, c) EXCEPT !.org = {}]]
  PROVE  InHandOfTick(d)'
<1>1. PICK u \in Ticks : Has(u) /\ d \in tick[u].todo
  BY DEF InHandOfTick
<1>2. CASE u = t
  <2>1. /\ Leave(t, c) # NoTick /\ d \in Leave(t, c).todo
        /\ [Leave(t, c) EXCEPT !.org = {}] # NoTick
        /\ d \in [Leave(t, c) EXCEPT !.org = {}].todo
    BY <1>1, <1>2, LeaveKeeps
  <2>2. tick'[t] # NoTick /\ d \in tick'[t].todo
    BY <2>1 DEF TypeOK
  <2>3. QED
    BY <2>2 DEF InHandOfTick, Has
<1>3. CASE u # t
  BY <1>1, <1>3 DEF InHandOfTick, Has, TypeOK
<1>4. QED
  BY <1>2, <1>3

LEMMA TicksKeep ==
  ASSUME TypeInv, NEW t \in Ticks, TickStep(t) \/ \E c \in Campaigns : TickError(t, c),
         NEW d \in Campaigns, row[d] = "ACTIVE", Kept(d)
  PROVE  Kept(d)'
<1>1. TypeOK /\ zset \in [Campaigns -> 0 .. Unscheduled]
      /\ tick \in [Ticks -> TickStates \cup {NoTick}]
  BY DEF TypeInv, TypeOK
<1>2. ASSUME UNCHANGED zset,
             \A u \in Ticks : Has(u) /\ d \in tick[u].todo => Has(u)' /\ d \in tick'[u].todo
      PROVE  Kept(d)'
  BY <1>2 DEF Kept, InHandOfTick
<1>3. CASE Scan(t)
  <2>1. UNCHANGED zset /\ \A u \in Ticks : Has(u) => tick'[u] = tick[u]
    BY <1>1, <1>3 DEF Scan, Has
  <2>2. QED
    BY <1>2, <2>1 DEF Has
<1>4. ASSUME NEW x, tick' = [tick EXCEPT ![t] = x],
             Has(t) => x \in TickStates /\ x.todo = tick[t].todo, UNCHANGED zset
      PROVE  Kept(d)'
  <2>1. \A u \in Ticks : Has(u) /\ d \in tick[u].todo => Has(u)' /\ d \in tick'[u].todo
    BY <1>1, <1>4 DEF Has, TickStates, NoTick
  <2>2. QED
    BY <1>2, <1>4, <2>1
<1>5. CASE Pop(t)
  <2>1. tick[t] \in TickStates /\ Has(t)
    BY <1>1, <1>5, TickHas DEF Pop
  <2>2. /\ tick'[t] # NoTick /\ tick'[t].todo = tick[t].todo
        /\ \A u \in Ticks \ {t} : tick'[u] = tick[u]
    BY <1>1, <1>5, <2>1 DEF Pop, TickStates, NoTick
  <2>3. InHandOfTick(d) => InHandOfTick(d)'
    BY <2>2 DEF InHandOfTick, Has
  <2>4. CASE d \in tick[t].todo
    BY <2>1, <2>3, <2>4 DEF Kept, InHandOfTick
  <2>5. CASE d \notin tick[t].todo
    <3>1. zset'[d] = zset[d]
      BY <1>5, <2>5 DEF Pop
    <3>2. QED
      BY <2>3, <3>1 DEF Kept
  <2>6. QED
    BY <2>4, <2>5
<1>6. ASSUME NEW c \in Campaigns, Read(t, c) PROVE Kept(d)'
  <2> DEFINE x == [tick[t] EXCEPT !.at = c, !.org = OrgRead(t),
                     !.active = (row[c] = "ACTIVE" /\ TRUE \in OrgRead(t))]
  <2>1. tick[t] \in TickStates /\ Has(t)
    BY <1>1, <1>6, TickHas DEF Read, Between
  <2>2. x.phase = tick[t].phase /\ x.todo = tick[t].todo
    BY <2>1 DEF TickStates
  <2>3. tick' = [tick EXCEPT ![t] = x] /\ UNCHANGED zset
    BY <1>6 DEF Read
  <2> HIDE DEF x
  <2>4. \A u \in Ticks : Has(u) /\ d \in tick[u].todo => Has(u)' /\ d \in tick'[u].todo
    BY <1>1, <2>1, <2>2, <2>3 DEF Has, TickStates, NoTick
  <2>5. QED
    BY <1>2, <2>3, <2>4
<1>7. ASSUME NEW c \in Campaigns, Drop(t, c) PROVE Kept(d)'
  <2>1. d # c /\ Has(t) /\ UNCHANGED zset /\ tick' = [tick EXCEPT ![t] = Leave(t, c)]
    BY <1>7 DEF Drop, Between
  <2>2. InHandOfTick(d) => InHandOfTick(d)'
    BY <1>1, <2>1, LeaveHolds
  <2>3. QED
    BY <2>1, <2>2 DEF Kept
<1>8. ASSUME NEW c \in Campaigns, Send(t, c) PROVE Kept(d)'
  <2>1. tick[t] \in TickStates /\ Has(t)
    BY <1>1, <1>8, TickHas DEF Send
  <2>2. [tick[t] EXCEPT !.sent = TRUE] \in TickStates
        /\ [tick[t] EXCEPT !.sent = TRUE].todo = tick[t].todo
    BY <2>1 DEF TickStates
  <2>3. QED
    BY <1>4, <1>8, <2>1, <2>2 DEF Send
<1>9. ASSUME NEW c \in Campaigns, Reschedule(t, c) \/ TickError(t, c) PROVE Kept(d)'
  <2>1. Has(t)
    BY <1>9 DEF Reschedule, TickError
  <2>2. tick[t].elapsed \in Nat
    BY <1>1, <2>1, TickHas, Scores DEF TickStates
  <2>3. CASE c = d
    <3>1. /\ Less(Period, tick[t].elapsed) # Unscheduled
          /\ Less(Retry, tick[t].elapsed) # Unscheduled
      BY <2>2, Scores DEF Less
    <3>2. zset'[d] # Unscheduled
      BY <1>1, <1>9, <2>3, <3>1 DEF Reschedule, TickError
    <3>3. QED
      BY <3>2 DEF Kept
  <2>4. CASE c # d
    <3>1. zset'[d] = zset[d]
      BY <1>1, <1>9, <2>4 DEF Reschedule, TickError
    <3>2. InHandOfTick(d) => InHandOfTick(d)'
      BY <1>1, <1>9, <2>1, <2>4, LeaveHolds DEF Reschedule, TickError
    <3>3. QED
      BY <3>1, <3>2 DEF Kept
  <2>5. QED
    BY <2>3, <2>4
<1>10. QED
  BY <1>3, <1>5, <1>6, <1>7, <1>8, <1>9 DEF TickStep

(* What a request deals with and removes does not depend on ticks.         *)
LEMMA RequestFrame ==
  ASSUME UNCHANGED <<row, req>>
  PROVE  /\ \A q \in Requests, c \in Campaigns : DealsWith(q, c) => DealsWith(q, c)'
         /\ RemovesInv => RemovesInv'
  BY DEF DealsWith, IsReq, RemovesInv, Removes

(* Time passes, and nothing leaves the sorted set or a tick.               *)
LEMMA AdvanceKeeps ==
  ASSUME TypeInv, Advance, NEW d \in Campaigns, Kept(d)
  PROVE  Kept(d)'
<1>1. zset[d] # Unscheduled => zset'[d] # Unscheduled
  BY Scores DEF Advance, TypeInv, TypeOK, Less
<1>2. ASSUME NEW u \in Ticks, Has(u)
      PROVE  Has(u)' /\ tick'[u].todo = tick[u].todo
  <2>1. tick[u] \in TickStates
    BY <1>2, TickHas DEF TypeInv
  <2>2. tick'[u] = [tick[u] EXCEPT !.elapsed = Earlier(@ + 1, Longest)]
    BY <1>2 DEF Advance
  <2>3. tick'[u].todo = tick[u].todo /\ tick'[u].phase = tick[u].phase
    BY <2>1, <2>2 DEF TickStates
  <2>4. QED
    BY <2>1, <2>3 DEF Has, TickStates, NoTick
<1>3. QED
  BY <1>1, <1>2 DEF Kept, InHandOfTick

LEMMA ElseKeeps ==
  ASSUME TypeInv, KeptInv, RemovesInv,
         \/ \E t \in Ticks : \/ TickStep(t) \/ TickDies(t)
                             \/ \E c \in Campaigns : TickError(t, c)
         \/ DeactivateOrg \/ Advance \/ UNCHANGED vars
  PROVE  KeptInv' /\ RemovesInv'
<1>1. UNCHANGED <<row, req>> /\ crashes' \in {crashes, crashes + 1}
  <2>1. ASSUME NEW t \in Ticks, TickStep(t) \/ TickDies(t)
        PROVE  UNCHANGED <<row, req>> /\ crashes' \in {crashes, crashes + 1}
    BY <2>1 DEF TickStep, Scan, Pop, Read, Drop, Send, Reschedule, TickDies
  <2>2. ASSUME NEW t \in Ticks, NEW c \in Campaigns, TickError(t, c)
        PROVE  UNCHANGED <<row, req>> /\ crashes' \in {crashes, crashes + 1}
    BY <2>2 DEF TickError
  <2>3. CASE DeactivateOrg
    BY <2>3 DEF DeactivateOrg
  <2>4. CASE Advance
    BY <2>4 DEF Advance
  <2>5. CASE UNCHANGED vars
    BY <2>5 DEF vars
  <2>6. QED
    BY <2>1, <2>2, <2>3, <2>4, <2>5
<1>2. crashes \in Nat
  BY DEF TypeInv, TypeOK
<1>3. ASSUME crashes' = 0, NEW d \in Campaigns, row[d] = "ACTIVE", Kept(d)
      PROVE  Kept(d)'
  <2>1. CASE \E t \in Ticks : TickStep(t) \/ \E c \in Campaigns : TickError(t, c)
    BY <1>3, <2>1, TicksKeep
  <2>2. CASE \E t \in Ticks : TickDies(t)
    BY <1>2, <1>3, <2>2 DEF TickDies
  <2>3. CASE DeactivateOrg \/ UNCHANGED vars
    BY <1>3, <2>3 DEF Kept, InHandOfTick, Has, DeactivateOrg, vars
  <2>4. CASE Advance
    BY <1>3, <2>4, AdvanceKeeps
  <2>5. QED
    BY <2>1, <2>2, <2>3, <2>4
<1>4. crashes' = 0 => crashes = 0
  BY <1>1, <1>2
<1>5. QED
  BY <1>1, <1>3, <1>4, RequestFrame DEF KeptInv

(* With one request at a time, what it makes ACTIVE it enqueues, and what  *)
(* it removes is not ACTIVE by then.                                       *)
LEMMA RequestKeeps ==
  ASSUME TypeInv, KeptInv, RemovesInv, NEW q \in Requests, \A p \in Requests : p = q,
         Call(q) \/ RequestStep(q) \/ RequestDies(q)
  PROVE  KeptInv' /\ RemovesInv'
<1> DEFINE Safe(c) == row[c] = "ACTIVE" => Kept(c) \/ DealsWith(q, c)
           Good == crashes = 0 => \A c \in Campaigns : Safe(c)
           Now == crashes' = 0 => \A c \in Campaigns : Safe(c)'
<1>1. Good /\ Removes(q)
  BY DEF KeptInv, RemovesInv
<1>2. SUFFICES Now /\ Removes(q)'
  BY DEF KeptInv, RemovesInv
<1>3. UNCHANGED <<orgActive, tick, errors>>
  BY DEF Call, RequestStep, KillSelect, Create, Delete, LoadUpdate, CommitUpdate, Refresh,
         Remove, Enqueue, KillUpdate, KillRemove, KillCommit, RequestDies
<1>4. ASSUME NEW c \in Campaigns PROVE InHandOfTick(c)' = InHandOfTick(c)
  BY <1>3 DEF InHandOfTick, Has
<1>5. /\ row \in [Campaigns -> Status] /\ zset \in [Campaigns -> 0 .. Unscheduled]
      /\ req \in [Requests -> ReqStates \cup {NoReq}] /\ crashes \in Nat
  BY DEF TypeInv, TypeOK
<1>6. ASSUME NEW c \in Campaigns, Create(q, c) PROVE Now /\ Removes(q)'
  <2>1. /\ req[q] = NoReq /\ row' = [row EXCEPT ![c] = "ACTIVE"]
        /\ req'[q] = [op |-> "create", campaign |-> c, prev |-> "NEW", phase |-> "add_now"]
        /\ UNCHANGED <<zset, crashes>>
    BY <1>5, <1>6 DEF Create, Begin
  <2>2. QED
    BY <1>1, <1>4, <1>5, <2>1 DEF Kept, DealsWith, IsReq, Removes, NoReq
<1>7. ASSUME NEW c \in Campaigns, Delete(q, c) PROVE Now /\ Removes(q)'
  <2>1. /\ req[q] = NoReq /\ row' = [row EXCEPT ![c] = "DELETED"]
        /\ req'[q] = [op |-> "delete", campaign |-> c, prev |-> row[c], phase |-> "remove"]
        /\ UNCHANGED <<zset, crashes>>
    BY <1>5, <1>7 DEF Delete, Begin
  <2>2. QED
    BY <1>1, <1>4, <1>5, <2>1 DEF Kept, DealsWith, IsReq, Removes, NoReq
<1>8. ASSUME NEW c \in Campaigns, NEW op \in {"ACTIVE", "PAUSED", "frequency"},
             LoadUpdate(q, c, op)
      PROVE  Now /\ Removes(q)'
  <2>1. /\ req[q] = NoReq
        /\ req'[q] = [op |-> op, campaign |-> c, prev |-> row[c], phase |-> "commit"]
        /\ UNCHANGED <<row, zset, crashes>>
    BY <1>5, <1>8 DEF LoadUpdate, Begin
  <2>2. QED
    BY <1>1, <1>4, <1>5, <2>1 DEF Kept, DealsWith, IsReq, Removes, NoReq
<1>9. CASE KillSelect(q)
  <2>1. /\ req[q] = NoReq
        /\ req'[q] = [op |-> "kill", ids |-> {c \in Campaigns : row[c] = "ACTIVE"},
                      locked |-> {}, phase |-> "update"]
        /\ UNCHANGED <<row, zset, crashes>>
    BY <1>5, <1>9 DEF KillSelect, Begin
  <2>2. QED
    BY <1>1, <1>4, <1>5, <2>1 DEF Kept, DealsWith, IsReq, Removes, NoReq
<1>10. CASE CommitUpdate(q)
  <2>1. /\ req[q].op \notin {"none", "kill"} /\ req[q].phase = "commit"
        /\ req[q].campaign \in Campaigns /\ req[q] \in ReqStates
    BY <1>5, <1>10 DEF CommitUpdate, IsReq, ReqStates, NoReq
  <2>2. UNCHANGED <<zset, crashes>>
    BY <1>10 DEF CommitUpdate
  <2>3. CASE row[req[q].campaign] = "DELETED"
    <3>1. req'[q] = NoReq /\ UNCHANGED row
      BY <1>5, <1>10, <2>3 DEF CommitUpdate
    <3>2. QED
      BY <1>1, <1>4, <2>1, <2>2, <3>1 DEF Kept, DealsWith, IsReq, Removes, NoReq
  <2>4. CASE row[req[q].campaign] # "DELETED"
    <3>1. /\ req'[q] = [req[q] EXCEPT !.phase = "refresh"]
          /\ row' = IF req[q].op \in {"frequency", req[q].prev} THEN row
                    ELSE [row EXCEPT ![req[q].campaign] = req[q].op]
      BY <1>5, <1>10, <2>4 DEF CommitUpdate
    <3>2. /\ req'[q].op = req[q].op /\ req'[q].phase = "refresh"
          /\ req'[q].campaign = req[q].campaign /\ req'[q].prev = req[q].prev
      BY <2>1, <3>1 DEF ReqStates
    <3>3. QED
      BY <1>1, <1>4, <1>5, <2>1, <2>2, <3>1, <3>2 DEF Kept, DealsWith, IsReq, Removes
  <2>5. QED
    BY <2>3, <2>4
<1>11. CASE Refresh(q)
  BY <1>1, <1>4, <1>5, <1>11 DEF Refresh, Kept, DealsWith, IsReq, Removes, NoReq
<1>12. CASE Remove(q)
  BY <1>1, <1>4, <1>5, <1>12 DEF Remove, Kept, DealsWith, IsReq, Removes, NoReq
<1>13. ASSUME NEW score \in 0 .. Period, NEW phase \in {"add_now", "add"},
              Enqueue(q, phase, score)
       PROVE  Now /\ Removes(q)'
  BY <1>1, <1>4, <1>5, <1>13, Scores DEF Enqueue, Kept, DealsWith, IsReq, Removes, NoReq
<1>14. CASE KillUpdate(q)
  <2> DEFINE S == {c \in Campaigns : row[c] = "ACTIVE"}
  <2>1. /\ req' = [req EXCEPT ![q] = [[@ EXCEPT !.phase = "remove"] EXCEPT !.locked = S]]
        /\ UNCHANGED <<row, zset, crashes>>
    BY <1>5, <1>14 DEF KillUpdate
  <2>2. /\ req[q] \in ReqStates /\ req[q].op = "kill" /\ req[q].phase = "update"
        /\ req[q].ids \subseteq Campaigns
    BY <1>5, <1>14 DEF KillUpdate, ReqStates, NoReq
  <2>3. req[q].ids \subseteq S /\ \A c \in Campaigns : row[c] = "ACTIVE" => c \in S
    BY <1>1, <2>2 DEF Removes
  <2> HIDE DEF S
  <2>4. /\ req'[q].op = "kill" /\ req'[q].phase = "remove"
        /\ req'[q].ids = req[q].ids /\ req'[q].locked = S
    BY <1>5, <2>1, <2>2 DEF ReqStates
  <2>5. QED
    BY <1>1, <1>4, <2>1, <2>2, <2>3, <2>4 DEF Kept, DealsWith, IsReq, Removes
<1>15. CASE KillRemove(q)
  BY <1>1, <1>4, <1>5, <1>15 DEF KillRemove, Kept, DealsWith, IsReq, Removes, NoReq
<1>16. CASE KillCommit(q)
  BY <1>1, <1>4, <1>5, <1>16 DEF KillCommit, Kept, DealsWith, IsReq, Removes, NoReq
<1>17. CASE RequestDies(q)
  BY <1>1, <1>5, <1>17 DEF RequestDies, Removes, IsReq, NoReq
<1>18. 0 \in 0 .. Period /\ Period \in 0 .. Period
  BY Scores
<1>19. QED
  BY <1>6, <1>7, <1>8, <1>9, <1>10, <1>11, <1>12, <1>13, <1>14, <1>15, <1>16, <1>17, <1>18
  DEF Call, RequestStep

(* "Reschedule to keep the loop alive": with one request of the API at a   *)
(* time, and as long as nothing dies, an ACTIVE campaign is in the sorted  *)
(* set or in hand (scheduler_tick, backend/api/campaigns.py).              *)
THEOREM StaysScheduled ==
  ASSUME \A p, q \in Requests : p = q
  PROVE  Spec => []ActiveStaysScheduled
<1>1. Init => KeptInv /\ RemovesInv
  BY DEF Init, KeptInv, RemovesInv, Removes, IsReq, NoReq
<1>2. TypeInv /\ KeptInv /\ RemovesInv /\ [Next]_vars => KeptInv' /\ RemovesInv'
  BY ElseKeeps, RequestKeeps DEF Next
<1>3. KeptInv => ActiveStaysScheduled
  BY DEF KeptInv, ActiveStaysScheduled, Kept, DealsWith, InHandOfRequest, IsReq
<1>4. QED
  BY <1>1, <1>2, <1>3, InitType, StepType, PTL DEF Spec

(* A step that leaves an ACTIVE campaign to nobody is a death, or the kill *)
(* switch on its way to pause the campaign.                                *)
LEMMA LossStep ==
  ASSUME TypeInv, RemovesInv, [Next]_vars, NEW c \in Campaigns,
         row[c] = "ACTIVE", Kept(c), ~Kept(c)'
  PROVE  \/ \E t \in Ticks : TickDies(t) /\ c \in tick[t].todo
         \/ \E q \in Requests : KillRemove(q) /\ c \in req[q].locked
<1>1. /\ zset \in [Campaigns -> 0 .. Unscheduled] /\ TypeOK
      /\ tick \in [Ticks -> TickStates \cup {NoTick}]
      /\ req \in [Requests -> ReqStates \cup {NoReq}]
  BY DEF TypeInv, TypeOK
<1>2. ASSUME UNCHANGED tick, zset'[c] = zset[c]
      PROVE  FALSE
  BY <1>2 DEF Kept, InHandOfTick, Has
<1>3. ASSUME UNCHANGED tick, zset'[c] # Unscheduled
      PROVE  FALSE
  BY <1>3 DEF Kept
<1>4. ASSUME NEW t \in Ticks, TickStep(t) \/ \E d \in Campaigns : TickError(t, d)
      PROVE  FALSE
  BY <1>4, TicksKeep
<1>5. ASSUME NEW t \in Ticks, TickDies(t)
      PROVE  c \in tick[t].todo
  <2>1. zset' = zset /\ tick' = [tick EXCEPT ![t] = NoTick]
    BY <1>5 DEF TickDies
  <2>2. PICK u \in Ticks : Has(u) /\ c \in tick[u].todo
    BY <2>1 DEF Kept, InHandOfTick
  <2>3. u = t
    <3>1. ASSUME u # t PROVE FALSE
      BY <1>1, <2>1, <2>2, <3>1 DEF Kept, InHandOfTick, Has
    <3>2. QED
      BY <3>1
  <2>4. QED
    BY <2>2, <2>3
<1>6. ASSUME NEW q \in Requests, Call(q) \/ RequestDies(q)
      PROVE  FALSE
  BY <1>2, <1>6 DEF Call, KillSelect, Create, Delete, LoadUpdate, RequestDies
<1>7. ASSUME NEW q \in Requests,
             CommitUpdate(q) \/ Refresh(q) \/ KillUpdate(q) \/ KillCommit(q)
      PROVE  FALSE
  BY <1>2, <1>7 DEF CommitUpdate, Refresh, KillUpdate, KillCommit
<1>8. ASSUME NEW q \in Requests, Remove(q)
      PROVE  FALSE
  <2>1. req[q].campaign # c
    BY <1>8 DEF Remove, RemovesInv, Removes
  <2>2. QED
    BY <1>1, <1>2, <1>8, <2>1 DEF Remove
<1>9. ASSUME NEW q \in Requests, NEW phase \in {"add_now", "add"}, NEW score \in 0 .. Period,
             Enqueue(q, phase, score)
      PROVE  FALSE
  <2>1. score # Unscheduled
    BY Scores
  <2>2. UNCHANGED tick /\ zset' = [zset EXCEPT ![req[q].campaign] = score]
    BY <1>9 DEF Enqueue
  <2>3. QED
    BY <1>1, <1>2, <1>3, <2>1, <2>2
<1>10. ASSUME NEW q \in Requests, KillRemove(q)
       PROVE  c \in req[q].locked
  <2>1. PICK d \in req[q].ids : zset' = [zset EXCEPT ![d] = Unscheduled]
    BY <1>10 DEF KillRemove
  <2>2. UNCHANGED tick /\ req[q].ids \subseteq req[q].locked
    BY <1>10 DEF KillRemove, RemovesInv, Removes
  <2>3. c = d
    BY <1>1, <1>2, <2>1, <2>2
  <2>4. QED
    BY <2>2, <2>3
<1>11. ASSUME DeactivateOrg \/ UNCHANGED vars
       PROVE  FALSE
  BY <1>2, <1>11 DEF DeactivateOrg, vars
<1>12. ASSUME Advance
       PROVE  FALSE
  BY <1>12, AdvanceKeeps
<1>13. 0 \in 0 .. Period /\ Period \in 0 .. Period
  BY Scores
<1>14. ASSUME NEW q \in Requests, RequestStep(q)
       PROVE  KillRemove(q) /\ c \in req[q].locked
  BY <1>7, <1>8, <1>9, <1>10, <1>13, <1>14 DEF RequestStep
<1>15. QED
  BY <1>4, <1>5, <1>6, <1>11, <1>12, <1>14 DEF Next

(* With one request of the API at a time, a death costs the campaigns that *)
(* the tick had popped and no other, and nothing else but the kill switch  *)
(* takes an ACTIVE campaign out of the loop (scheduler_tick,               *)
(* backend/api/campaigns.py), also after earlier deaths.                   *)
THEOREM LossesAreDeaths ==
  ASSUME \A p, q \in Requests : p = q
  PROVE  Spec => LostOnlyByDeath
<1>1. Init => KeptInv /\ RemovesInv
  BY DEF Init, KeptInv, RemovesInv, Removes, IsReq, NoReq
<1>2. TypeInv /\ KeptInv /\ RemovesInv /\ [Next]_vars => KeptInv' /\ RemovesInv'
  BY ElseKeeps, RequestKeeps DEF Next
<1>3. TypeInv /\ RemovesInv /\ [Next]_vars =>
        \A c \in Campaigns :
          row[c] = "ACTIVE" /\ Scheduled(c) /\ ~Scheduled(c)' =>
             \/ \E t \in Ticks : TickDies(t) /\ c \in tick[t].todo
             \/ \E q \in Requests : KillRemove(q) /\ c \in req[q].locked
  <2>1. \A c \in Campaigns : Scheduled(c) = Kept(c)
    BY DEF Scheduled, Kept
  <2>2. \A c \in Campaigns : Scheduled(c)' = Kept(c)'
    BY DEF Scheduled, Kept
  <2>3. QED
    BY <2>1, <2>2, LossStep
<1>4. QED
  BY <1>1, <1>2, <1>3, InitType, StepType, PTL DEF Spec, LostOnlyByDeath

----------------------------------------------------------------------------
(* A deleted campaign does not come back.                                  *)

(* What a kill switch has updated is ACTIVE until it commits, and locked   *)
(* against every other request.                                            *)
Locks(q, c) == req[q].op = "kill" /\ c \in req[q].locked
LockInv ==
    /\ \A q \in Requests, c \in Campaigns : Locks(q, c) => row[c] = "ACTIVE"
    /\ \A p, q \in Requests, c \in Campaigns : Locks(p, c) /\ Locks(q, c) => p = q

(* A request is going to put the campaign in the sorted set.               *)
Adds(q, c) == (IsReq(q, "add_now") \/ IsReq(q, "add")) /\ req[q].campaign = c

LEMMA GoneIs ==
  ASSUME NEW c \in Campaigns
  PROVE  /\ Gone(c) <=> row[c] = "DELETED" /\ ~Kept(c) /\ \A q \in Requests : ~Adds(q, c)
         /\ Gone(c)' <=> row'[c] = "DELETED" /\ ~Kept(c)' /\ \A q \in Requests : ~Adds(q, c)'
  BY DEF Gone, Scheduled, Kept, Adds, IsReq

(* A step of one request, by what it does to the locks and the set.        *)
RequestMove(q) ==
    /\ UNCHANGED tick
    /\ \A p \in Requests \ {q} : req'[p] = req[p]
    /\ \A c \in Campaigns :
         /\ row'[c] # row[c] =>
               \/ \A p \in Requests : ~Locks(p, c)
               \/ Locks(q, c)
         /\ Locks(q, c)' =>
               \/ Locks(q, c) /\ row'[c] = row[c]
               \/ row[c] = "ACTIVE" /\ row'[c] = row[c] /\ \A p \in Requests : ~Locks(p, c)
         /\ row[c] = "DELETED" /\ row'[c] # "DELETED" => Locks(q, c)
         /\ Adds(q, c)' => row'[c] = "ACTIVE" \/ Adds(q, c)
         /\ zset'[c] # Unscheduled => zset[c] # Unscheduled \/ Adds(q, c)

LEMMA RequestMoves ==
  ASSUME TypeInv, LockInv, NEW q \in Requests, Call(q) \/ RequestStep(q) \/ RequestDies(q)
  PROVE  RequestMove(q)
<1>1. /\ row \in [Campaigns -> Status] /\ zset \in [Campaigns -> 0 .. Unscheduled]
      /\ req \in [Requests -> ReqStates \cup {NoReq}]
  BY DEF TypeInv, TypeOK
<1>2. \A p \in Requests, c \in Campaigns : Locks(p, c) => Locked(c) /\ row[c] = "ACTIVE"
  BY DEF Locks, Locked, LockInv
<1>3. ASSUME NEW c \in Campaigns, Create(q, c) PROVE RequestMove(q)
  <2>1. /\ row[c] = "NEW" /\ row' = [row EXCEPT ![c] = "ACTIVE"] /\ UNCHANGED <<zset, tick>>
        /\ req' = [req EXCEPT ![q] = [op |-> "create", campaign |-> c, prev |-> "NEW",
                                      phase |-> "add_now"]]
    BY <1>3 DEF Create, Begin
  <2>2. req'[q].op = "create" /\ req'[q].campaign = c
    BY <1>1, <2>1
  <2>3. QED
    BY <1>1, <1>2, <2>1, <2>2 DEF RequestMove, Locks, Adds, IsReq
<1>4. ASSUME NEW c \in Campaigns, Delete(q, c) PROVE RequestMove(q)
  <2>1. /\ ~Locked(c) /\ row' = [row EXCEPT ![c] = "DELETED"] /\ UNCHANGED <<zset, tick>>
        /\ req' = [req EXCEPT ![q] = [op |-> "delete", campaign |-> c, prev |-> row[c],
                                      phase |-> "remove"]]
    BY <1>4 DEF Delete, Begin
  <2>2. req'[q].op = "delete" /\ req'[q].phase = "remove"
    BY <1>1, <2>1
  <2>3. QED
    BY <1>1, <1>2, <2>1, <2>2 DEF RequestMove, Locks, Adds, IsReq
<1>5. ASSUME NEW c \in Campaigns, NEW op \in {"ACTIVE", "PAUSED", "frequency"},
             LoadUpdate(q, c, op)
      PROVE  RequestMove(q)
  <2>1. /\ UNCHANGED <<row, zset, tick>>
        /\ req' = [req EXCEPT ![q] = [op |-> op, campaign |-> c, prev |-> row[c],
                                      phase |-> "commit"]]
    BY <1>5 DEF LoadUpdate, Begin
  <2>2. req'[q].op # "kill" /\ req'[q].phase = "commit"
    BY <1>1, <2>1
  <2>3. QED
    BY <1>1, <2>1, <2>2 DEF RequestMove, Locks, Adds, IsReq
<1>6. CASE KillSelect(q)
  <2>1. /\ UNCHANGED <<row, zset, tick>>
        /\ req' = [req EXCEPT ![q] = [op |-> "kill", ids |-> {c \in Campaigns : row[c] = "ACTIVE"},
                                      locked |-> {}, phase |-> "update"]]
    BY <1>6 DEF KillSelect, Begin
  <2>2. req'[q].op = "kill" /\ req'[q].locked = {}
    BY <1>1, <2>1
  <2>3. QED
    BY <1>1, <2>1, <2>2 DEF RequestMove, Locks, Adds, IsReq
<1>7. ASSUME CommitUpdate(q) \/ Refresh(q) PROVE req[q].op \notin {"none", "kill"} /\ req[q] \in ReqStates
  BY <1>1, <1>7 DEF CommitUpdate, Refresh, IsReq, NoReq
<1>8. CASE CommitUpdate(q)
  <2>1. /\ UNCHANGED <<zset, tick>> /\ req[q].campaign \in Campaigns
        /\ req[q].op = req[q].prev \/ ~Locked(req[q].campaign)
    BY <1>7, <1>8 DEF CommitUpdate, ReqStates
  <2>2. CASE row[req[q].campaign] = "DELETED"
    <3>1. req' = [req EXCEPT ![q] = NoReq] /\ UNCHANGED row
      BY <1>8, <2>2 DEF CommitUpdate
    <3>2. QED
      BY <1>1, <2>1, <3>1 DEF RequestMove, Locks, Adds, IsReq, NoReq
  <2>3. CASE row[req[q].campaign] # "DELETED"
    <3>1. /\ req' = [req EXCEPT ![q].phase = "refresh"]
          /\ row' = IF req[q].op \in {"frequency", req[q].prev} THEN row
                    ELSE [row EXCEPT ![req[q].campaign] = req[q].op]
      BY <1>8, <2>3 DEF CommitUpdate
    <3>2. req'[q].op = req[q].op /\ req'[q].phase = "refresh"
      BY <1>1, <1>7, <1>8, <3>1 DEF ReqStates
    <3>3. \A c \in Campaigns : row'[c] # row[c] => c = req[q].campaign /\ ~Locked(c)
      BY <1>1, <2>1, <3>1
    <3>4. \A p \in Requests \ {q} : req'[p] = req[p]
      BY <1>1, <3>1
    <3>5. QED
      BY <1>2, <1>7, <1>8, <2>1, <2>3, <3>2, <3>3, <3>4 DEF RequestMove, Locks, Adds, IsReq
  <2>4. QED
    BY <2>2, <2>3
<1>9. CASE Refresh(q)
  <2>1. UNCHANGED <<row, zset, tick>> /\ \A p \in Requests \ {q} : req'[p] = req[p]
    BY <1>1, <1>9 DEF Refresh
  <2>2. \/ req'[q] = NoReq
        \/ req'[q] = [req[q] EXCEPT !.phase = "remove"]
        \/ req'[q] = [req[q] EXCEPT !.phase = "add"] /\ row[req[q].campaign] = "ACTIVE"
    BY <1>1, <1>9 DEF Refresh
  <2>3. ~Locks(q, req[q].campaign) /\ \A c \in Campaigns : ~Locks(q, c)'
    BY <1>7, <1>9, <2>2 DEF Locks, NoReq, ReqStates
  <2>4. \A c \in Campaigns : Adds(q, c)' => row[c] = "ACTIVE"
    BY <1>7, <1>9, <2>2 DEF Adds, IsReq, NoReq, ReqStates
  <2>5. QED
    BY <2>1, <2>3, <2>4 DEF RequestMove
<1>10. CASE Remove(q)
  BY <1>1, <1>10 DEF Remove, RequestMove, Locks, Adds, IsReq, NoReq
<1>11. ASSUME NEW phase \in {"add_now", "add"}, NEW score, Enqueue(q, phase, score)
       PROVE  RequestMove(q)
  <2>1. /\ IsReq(q, phase) /\ UNCHANGED <<row, tick>>
        /\ zset' = [zset EXCEPT ![req[q].campaign] = score]
        /\ req' = [req EXCEPT ![q] = NoReq]
    BY <1>11 DEF Enqueue
  <2>2. \A c \in Campaigns : zset'[c] = zset[c] \/ Adds(q, c)
    BY <1>1, <2>1 DEF Adds
  <2>3. QED
    BY <1>1, <2>1, <2>2 DEF RequestMove, Locks, Adds, IsReq, NoReq
<1>12. CASE KillUpdate(q)
  <2> DEFINE S == {c \in Campaigns : row[c] = "ACTIVE"}
  <2>1. /\ req' = [req EXCEPT ![q] = [[@ EXCEPT !.phase = "remove"] EXCEPT !.locked = S]]
        /\ UNCHANGED <<row, zset, tick>>
    BY <1>1, <1>12 DEF KillUpdate
  <2>2. /\ req[q] \in ReqStates /\ req[q].op = "kill"
        /\ \A c \in S : ~Locked(c) /\ row[c] = "ACTIVE"
    BY <1>1, <1>12 DEF KillUpdate, NoReq
  <2> HIDE DEF S
  <2>3. req'[q].op = "kill" /\ req'[q].locked = S
    BY <1>1, <2>1, <2>2 DEF ReqStates
  <2>4. \A p \in Requests \ {q} : req'[p] = req[p]
    BY <1>1, <2>1
  <2>5. \A c \in S, p \in Requests : ~Locks(p, c)
    BY <2>2 DEF Locks, Locked
  <2>6. QED
    BY <2>1, <2>2, <2>3, <2>4, <2>5 DEF RequestMove, Locks, Adds, IsReq
<1>13. CASE KillRemove(q)
  <2>1. PICK d \in req[q].ids : /\ zset' = [zset EXCEPT ![d] = Unscheduled]
                                /\ req' = [req EXCEPT ![q].ids = @ \ {d}]
    BY <1>13 DEF KillRemove
  <2>2. UNCHANGED <<row, tick>> /\ req[q] \in ReqStates /\ req[q].op = "kill"
    BY <1>1, <1>13 DEF KillRemove, NoReq
  <2>3. /\ req'[q].op = "kill" /\ req'[q].locked = req[q].locked
        /\ \A p \in Requests \ {q} : req'[p] = req[p]
    BY <1>1, <2>1, <2>2 DEF ReqStates
  <2>4. \A c \in Campaigns : zset'[c] = zset[c] \/ zset'[c] = Unscheduled
    BY <1>1, <2>1
  <2>5. QED
    BY <2>2, <2>3, <2>4 DEF RequestMove, Locks, Adds, IsReq
<1>14. CASE KillCommit(q)
  <2>1. /\ UNCHANGED <<zset, tick>> /\ req[q].op = "kill"
        /\ row' = [c \in Campaigns |-> IF c \in req[q].locked THEN "PAUSED" ELSE row[c]]
        /\ req' = [req EXCEPT ![q] = NoReq]
    BY <1>14 DEF KillCommit
  <2>2. QED
    BY <1>1, <2>1 DEF RequestMove, Locks, Adds, IsReq, NoReq
<1>15. CASE RequestDies(q)
  BY <1>1, <1>15 DEF RequestDies, RequestMove, Locks, Adds, IsReq, NoReq
<1>16. QED
  BY <1>3, <1>4, <1>5, <1>6, <1>8, <1>9, <1>10, <1>11, <1>12, <1>13, <1>14, <1>15
  DEF Call, RequestStep

(* What is left of a tick after it has left a campaign.                    *)
LEMMA LeaveIs ==
  ASSUME TypeOK, NEW t \in Ticks, NEW c, Has(t),
         \/ tick' = [tick EXCEPT ![t] = Leave(t, c)]
         \/ tick' = [tick EXCEPT ![t] = IF Leave(t, c) = NoTick THEN NoTick
                                        ELSE [Leave(t, c) EXCEPT !.org = {}]],
         Has(t)'
  PROVE  /\ tick'[t].todo = tick[t].todo \ {c} /\ tick'[t].at = NoCampaign
         /\ tick'[t].sent = FALSE /\ tick'[t].phase = tick[t].phase
         /\ tick'[t].elapsed = tick[t].elapsed
<1>1. tick[t] \in TickStates /\ tick'[t] # NoTick
  BY TickHas DEF Has
<1> DEFINE left == [tick[t] EXCEPT !.todo = @ \ {c}, !.at = NoCampaign,
                                   !.active = FALSE, !.sent = FALSE]
<1>2. tick'[t] = left \/ tick'[t] = [left EXCEPT !.org = {}]
  BY <1>1 DEF TypeOK, Leave
<1>3. /\ left.todo = tick[t].todo \ {c} /\ left.at = NoCampaign
      /\ left.phase = tick[t].phase /\ left.elapsed = tick[t].elapsed
      /\ left.sent = FALSE
  BY <1>1 DEF TickStates
<1>4. [left EXCEPT !.org = {}].todo = left.todo /\ [left EXCEPT !.org = {}].at = left.at
      /\ [left EXCEPT !.org = {}].phase = left.phase
      /\ [left EXCEPT !.org = {}].elapsed = left.elapsed
      /\ [left EXCEPT !.org = {}].sent = left.sent
  BY <1>1 DEF TickStates
<1> HIDE DEF left
<1>5. QED
  BY <1>2, <1>3, <1>4

(* A tick is at a campaign that it has in hand.                            *)
AtInv == \A t \in Ticks : Has(t) => tick[t].at \in tick[t].todo \cup {NoCampaign}

LEMMA TickForgets ==
  ASSUME TypeInv, AtInv, NEW t \in Ticks,
         TickStep(t) \/ TickDies(t) \/ \E c \in Campaigns : TickError(t, c)
  PROVE  AtInv' /\ \A d \in Campaigns : Kept(d)' => Kept(d)
<1>1. /\ TypeOK /\ zset \in [Campaigns -> 0 .. Unscheduled]
      /\ tick \in [Ticks -> TickStates \cup {NoTick}]
  BY DEF TypeInv, TypeOK
<1>2. Has(t) => /\ tick[t] \in TickStates /\ tick[t].todo \subseteq Campaigns
                /\ tick[t].at \in tick[t].todo \cup {NoCampaign}
  BY <1>1, TickHas DEF AtInv, TickStates
<1>3. \A d \in Campaigns : (Has(t) /\ d \in tick[t].todo) \/ zset[d] # Unscheduled => Kept(d)
  BY DEF Kept, InHandOfTick
<1>4. ASSUME \A u \in Ticks \ {t} : tick'[u] = tick[u],
             Has(t)' => /\ tick'[t].at \in tick'[t].todo \cup {NoCampaign}
                        /\ \A d \in tick'[t].todo : Kept(d),
             \A d \in Campaigns : zset'[d] # Unscheduled => Kept(d)
      PROVE  AtInv' /\ \A d \in Campaigns : Kept(d)' => Kept(d)
  <2>1. AtInv'
    <3>1. ASSUME NEW u \in Ticks, Has(u)' PROVE tick'[u].at \in tick'[u].todo \cup {NoCampaign}
      <4>1. CASE u = t
        BY <1>4, <3>1, <4>1
      <4>2. CASE u # t
        BY <1>4, <3>1, <4>2 DEF AtInv, Has
      <4>3. QED
        BY <4>1, <4>2
    <3>2. QED
      BY <3>1 DEF AtInv
  <2>2. ASSUME NEW d \in Campaigns, InHandOfTick(d)' PROVE Kept(d)
    <3>1. PICK u \in Ticks : Has(u)' /\ d \in tick'[u].todo
      BY <2>2 DEF InHandOfTick
    <3>2. CASE u = t
      BY <1>4, <3>1, <3>2
    <3>3. CASE u # t
      BY <1>4, <3>1, <3>3 DEF Kept, InHandOfTick, Has
    <3>4. QED
      BY <3>2, <3>3
  <2>3. \A d \in Campaigns : Kept(d)' => zset'[d] # Unscheduled \/ InHandOfTick(d)'
    BY DEF Kept
  <2>4. QED
    BY <1>4, <2>1, <2>2, <2>3
<1>5. CASE Scan(t)
  <2> DEFINE x == [phase |-> "found", todo |-> Due, at |-> NoCampaign, active |-> FALSE,
                   sent |-> FALSE, org |-> {}, elapsed |-> 0]
  <2>1. tick' = [tick EXCEPT ![t] = x] /\ zset' = zset
    BY <1>5 DEF Scan
  <2>2. x.todo = Due /\ x.at = NoCampaign
    OBVIOUS
  <2> HIDE DEF x
  <2>3. \A d \in Due : Kept(d)
    BY <1>3, Scores DEF Due
  <2>4. QED
    BY <1>1, <1>3, <1>4, <2>1, <2>2, <2>3
<1>6. CASE Pop(t)
  <2>1. /\ Has(t) /\ tick' = [tick EXCEPT ![t] = [tick[t] EXCEPT !.phase = "popped"]]
        /\ \A d \in Campaigns : zset'[d] # Unscheduled => zset[d] # Unscheduled
    BY <1>6 DEF Pop
  <2>2. tick'[t].todo = tick[t].todo /\ tick'[t].at = tick[t].at
    BY <1>1, <1>2, <2>1 DEF TickStates
  <2>3. \A u \in Ticks \ {t} : tick'[u] = tick[u]
    BY <1>1, <2>1
  <2>4. QED
    BY <1>2, <1>3, <1>4, <2>1, <2>2, <2>3
<1>7. ASSUME NEW c \in Campaigns, Read(t, c)
      PROVE  AtInv' /\ \A d \in Campaigns : Kept(d)' => Kept(d)
  <2>1. /\ Has(t) /\ c \in tick[t].todo /\ zset' = zset
        /\ \A u \in Ticks \ {t} : tick'[u] = tick[u]
    BY <1>1, <1>7 DEF Read, Between
  <2>2. tick'[t].todo = tick[t].todo /\ tick'[t].at = c
    BY <1>1, <1>2, <1>7, <2>1 DEF Read, TickStates
  <2>3. QED
    BY <1>2, <1>3, <1>4, <2>1, <2>2
<1>8. ASSUME NEW c \in Campaigns, Send(t, c)
      PROVE  AtInv' /\ \A d \in Campaigns : Kept(d)' => Kept(d)
  <2>1. /\ Has(t) /\ zset' = zset /\ tick' = [tick EXCEPT ![t] = [tick[t] EXCEPT !.sent = TRUE]]
    BY <1>8 DEF Send
  <2>2. tick'[t].todo = tick[t].todo /\ tick'[t].at = tick[t].at
    BY <1>1, <1>2, <2>1 DEF TickStates
  <2>3. \A u \in Ticks \ {t} : tick'[u] = tick[u]
    BY <1>1, <2>1
  <2>4. QED
    BY <1>2, <1>3, <1>4, <2>1, <2>2, <2>3
<1>9. ASSUME NEW c \in Campaigns, Drop(t, c) \/ Reschedule(t, c) \/ TickError(t, c)
      PROVE  AtInv' /\ \A d \in Campaigns : Kept(d)' => Kept(d)
  <2>1. /\ Has(t) /\ c \in tick[t].todo
        /\ \/ tick' = [tick EXCEPT ![t] = Leave(t, c)]
           \/ tick' = [tick EXCEPT ![t] = IF Leave(t, c) = NoTick THEN NoTick
                                          ELSE [Leave(t, c) EXCEPT !.org = {}]]
    BY <1>2, <1>9, Scores DEF Drop, Between, Reschedule, TickError
  <2>2. \A u \in Ticks \ {t} : tick'[u] = tick[u]
    BY <1>1, <2>1
  <2>3. Has(t)' => tick'[t].todo = tick[t].todo \ {c} /\ tick'[t].at = NoCampaign
    BY <1>1, <2>1, LeaveIs
  <2>4. \A d \in Campaigns : zset'[d] = zset[d] \/ d = c
    BY <1>1, <1>9 DEF Drop, Reschedule, TickError
  <2>5. QED
    BY <1>2, <1>3, <1>4, <2>1, <2>2, <2>3, <2>4
<1>10. CASE TickDies(t)
  <2>1. zset' = zset /\ tick' = [tick EXCEPT ![t] = NoTick]
    BY <1>10 DEF TickDies
  <2>2. ~Has(t)' /\ \A u \in Ticks \ {t} : tick'[u] = tick[u]
    BY <1>1, <2>1 DEF Has
  <2>3. QED
    BY <1>3, <1>4, <2>1, <2>2
<1>11. QED
  BY <1>5, <1>6, <1>7, <1>8, <1>9, <1>10 DEF TickStep

LEMMA TimeForgets ==
  ASSUME TypeInv, AtInv, Advance
  PROVE  AtInv' /\ \A d \in Campaigns : Kept(d)' => Kept(d)
<1>1. tick \in [Ticks -> TickStates \cup {NoTick}]
  BY DEF TypeInv, TypeOK
<1>2. \A d \in Campaigns : zset'[d] # Unscheduled => zset[d] # Unscheduled
  BY DEF Advance
<1>3. ASSUME NEW t \in Ticks, Has(t)'
      PROVE  Has(t) /\ tick'[t].todo = tick[t].todo /\ tick'[t].at = tick[t].at
  <2>1. Has(t)
    BY <1>3 DEF Advance, Has
  <2>2. tick'[t] = [tick[t] EXCEPT !.elapsed = Earlier(@ + 1, Longest)]
    BY <2>1 DEF Advance
  <2>3. QED
    BY <1>1, <2>1, <2>2 DEF Has, TickStates
<1>4. QED
  BY <1>2, <1>3 DEF AtInv, Kept, InHandOfTick

LEMMA RequestForgets ==
  ASSUME LockInv, NEW q \in Requests, RequestMove(q)
  PROVE  LockInv' /\ \A c \in Campaigns : Gone(c) => Gone(c)'
<1>1. \A p \in Requests \ {q}, c \in Campaigns :
         (Locks(p, c)' <=> Locks(p, c)) /\ (Adds(p, c)' <=> Adds(p, c))
  BY DEF RequestMove, Locks, Adds, IsReq
<1>2. ASSUME NEW p \in Requests, NEW c \in Campaigns, Locks(p, c)'
      PROVE  row'[c] = "ACTIVE"
  BY <1>1, <1>2 DEF RequestMove, LockInv
<1>3. ASSUME NEW p \in Requests, NEW r \in Requests, NEW c \in Campaigns,
             Locks(p, c)', Locks(r, c)'
      PROVE  p = r
  BY <1>1, <1>3 DEF RequestMove, LockInv
<1>4. ASSUME NEW c \in Campaigns, Gone(c)
      PROVE  Gone(c)'
  <2>1. row[c] = "DELETED" /\ ~Kept(c) /\ \A p \in Requests : ~Adds(p, c) /\ ~Locks(p, c)
    BY <1>4, GoneIs DEF LockInv
  <2>2. row'[c] = "DELETED"
    BY <2>1 DEF RequestMove
  <2>3. \A p \in Requests : ~Adds(p, c)'
    BY <1>1, <2>1, <2>2 DEF RequestMove
  <2>4. ~Kept(c)'
    BY <2>1 DEF RequestMove, Kept, InHandOfTick, Has
  <2>5. QED
    BY <2>2, <2>3, <2>4, GoneIs
<1>5. QED
  BY <1>2, <1>3, <1>4 DEF LockInv

(* A deleted campaign that nothing is about to put in the sorted set never *)
(* comes back to it (delete_campaign and update_campaign of                *)
(* backend/api/campaigns.py, the kill switch of backend/api/org.py,        *)
(* scheduler_tick), whatever the number of ticks, requests and deaths.     *)
THEOREM StaysForgotten == Spec => DeletedStaysForgotten
<1> DEFINE Inv == TypeInv /\ LockInv /\ AtInv
<1>1. Init => LockInv /\ AtInv
  BY DEF Init, LockInv, Locks, NoReq, AtInv, Has
<1>2. ASSUME Inv, [Next]_vars
      PROVE  LockInv' /\ AtInv' /\ \A c \in Campaigns : Gone(c) => Gone(c)'
  <2>1. ASSUME UNCHANGED <<row, req>>, AtInv', \A c \in Campaigns : Kept(c)' => Kept(c)
        PROVE  LockInv' /\ AtInv' /\ \A c \in Campaigns : Gone(c) => Gone(c)'
    <3>1. \A q \in Requests, c \in Campaigns :
             (Locks(q, c)' <=> Locks(q, c)) /\ (Adds(q, c)' <=> Adds(q, c))
      BY <2>1 DEF Locks, Adds, IsReq
    <3>2. LockInv'
      BY <1>2, <2>1, <3>1 DEF LockInv
    <3>3. QED
      BY <2>1, <3>1, <3>2, GoneIs
  <2>2. ASSUME NEW t \in Ticks, TickStep(t) \/ TickDies(t) \/ \E c \in Campaigns : TickError(t, c)
        PROVE  LockInv' /\ AtInv' /\ \A c \in Campaigns : Gone(c) => Gone(c)'
    <3>1. UNCHANGED <<row, req>>
      BY <2>2 DEF TickStep, Scan, Pop, Read, Drop, Send, Reschedule, TickDies, TickError
    <3>2. QED
      BY <1>2, <2>1, <2>2, <3>1, TickForgets
  <2>3. ASSUME NEW q \in Requests, Call(q) \/ RequestStep(q) \/ RequestDies(q)
        PROVE  LockInv' /\ AtInv' /\ \A c \in Campaigns : Gone(c) => Gone(c)'
    <3>1. RequestMove(q)
      BY <1>2, <2>3, RequestMoves
    <3>2. AtInv'
      BY <1>2, <3>1 DEF RequestMove, AtInv, Has
    <3>3. QED
      BY <1>2, <3>1, <3>2, RequestForgets
  <2>4. ASSUME DeactivateOrg \/ UNCHANGED vars
        PROVE  LockInv' /\ AtInv' /\ \A c \in Campaigns : Gone(c) => Gone(c)'
    <3>1. UNCHANGED <<row, zset, tick, req>>
      BY <2>4 DEF DeactivateOrg, vars
    <3>2. AtInv' /\ \A c \in Campaigns : Kept(c)' => Kept(c)
      BY <1>2, <3>1 DEF AtInv, Kept, InHandOfTick, Has
    <3>3. QED
      BY <2>1, <3>1, <3>2
  <2>5. ASSUME Advance
        PROVE  LockInv' /\ AtInv' /\ \A c \in Campaigns : Gone(c) => Gone(c)'
    <3>1. UNCHANGED <<row, req>>
      BY <2>5 DEF Advance
    <3>2. QED
      BY <1>2, <2>1, <2>5, <3>1, TimeForgets
  <2>6. QED
    BY <1>2, <2>2, <2>3, <2>4, <2>5 DEF Next
<1>3. QED
  BY <1>1, <1>2, InitType, StepType, PTL DEF Spec, DeletedStaysForgotten

----------------------------------------------------------------------------
(* A campaign is not sent before it is due.                                *)

LEMMA TickFires ==
  ASSUME TypeInv, NEW t \in Ticks, Paced(t),
         TickStep(t) \/ TickDies(t) \/ \E c \in Campaigns : TickError(t, c)
  PROVE  Paced(t)'
<1>1. UNCHANGED <<row, req>>
  BY DEF TickStep, Scan, Pop, Read, Drop, Send, Reschedule, TickDies, TickError
<1>2. \A c \in Campaigns : Awaited(c)' = Awaited(c)
  BY <1>1 DEF Awaited, IsReq
<1>3. /\ TypeOK /\ zset \in [Campaigns -> 0 .. Unscheduled]
      /\ rest \in [Campaigns -> 0 .. Period] /\ tick \in [Ticks -> TickStates \cup {NoTick}]
  BY DEF TypeInv, TypeOK
<1>4. Has(t) => /\ tick[t] \in TickStates /\ tick[t].elapsed \in 0 .. Longest
                /\ tick[t].todo \subseteq Campaigns
  <2>1. Has(t) => tick[t] \in TickStates
    BY <1>3, TickHas
  <2>2. QED
    BY <2>1 DEF TickStates
<1>5. CASE Scan(t)
  <2>1. /\ ~Has(t) /\ Has(t)' /\ tick'[t].todo = Due /\ tick'[t].at = NoCampaign
        /\ tick'[t].phase = "found" /\ UNCHANGED <<zset, rest>>
    BY <1>3, <1>5 DEF Scan, Has, NoTick
  <2>2. ~tick'[t].sent
    BY <1>3, <1>5 DEF Scan
  <2>3. \A c \in Campaigns : rest[c] <= zset[c]
    BY <2>1 DEF Paced, SentBy
  <2>4. Fresh(t)'
    BY <1>3, <2>1, <2>2, <2>3, Scores DEF Fresh, Due
  <2>5. QED
    BY <1>2, <2>1, <2>3, <2>4, Scores DEF Paced, Due
<1>6. CASE Pop(t)
  <2>1. /\ Has(t) /\ tick[t].phase = "found" /\ UNCHANGED rest
        /\ zset' = [c \in Campaigns |-> IF c \in tick[t].todo THEN Unscheduled ELSE zset[c]]
    BY <1>6 DEF Pop
  <2>2. tick'[t] = [tick[t] EXCEPT !.phase = "popped"]
    BY <1>3, <1>6 DEF Pop
  <2>3. /\ tick'[t].todo = tick[t].todo /\ tick'[t].at = tick[t].at
        /\ tick'[t].phase = "popped" /\ tick'[t].elapsed = tick[t].elapsed
        /\ tick'[t].sent = tick[t].sent
    BY <1>4, <2>1, <2>2 DEF TickStates
  <2>4. Has(t)'
    BY <2>3 DEF Has, NoTick
  <2>5. Fresh(t) /\ tick[t].at = NoCampaign
    BY <2>1 DEF Paced, Fresh
  <2>6. Fresh(t)'
    BY <2>1, <2>3, <2>5, Scores, <1>4 DEF Fresh, SentBy
  <2>7. \A c \in Campaigns : rest'[c] <= zset'[c]
    BY <1>3, <1>4, <2>1, <2>5, Scores DEF Paced, SentBy
  <2>8. \A c \in tick[t].todo : Less(Period, tick[t].elapsed) <= zset'[c]
    BY <1>4, <2>1, Scores DEF Less
  <2>9. QED
    BY <1>2, <2>1, <2>3, <2>4, <2>6, <2>7, <2>8, Scores DEF Paced
<1>7. ASSUME NEW c \in Campaigns, Read(t, c) PROVE Paced(t)'
  <2> DEFINE x == [tick[t] EXCEPT !.at = c, !.org = OrgRead(t),
                     !.active = (row[c] = "ACTIVE" /\ TRUE \in OrgRead(t))]
  <2>1. /\ Has(t) /\ tick[t].phase = "popped" /\ tick[t].at = NoCampaign
        /\ c \in tick[t].todo /\ UNCHANGED <<zset, rest>>
    BY <1>7 DEF Read, Between
  <2>2. tick'[t] = x
    BY <1>3, <1>7 DEF Read
  <2>3. /\ x.todo = tick[t].todo /\ x.at = c
        /\ x.phase = "popped" /\ x.elapsed = tick[t].elapsed
        /\ x.sent = tick[t].sent
    BY <1>4, <2>1 DEF TickStates
  <2> HIDE DEF x
  <2>4. Has(t)'
    BY <2>2, <2>3 DEF Has, NoTick
  <2>5. Fresh(t) /\ ~tick[t].sent
    BY <2>1 DEF Paced, Fresh
  <2>6. Fresh(t)'
    BY <1>4, <2>1, <2>2, <2>3, <2>5 DEF Fresh, SentBy
  <2>7. \A d \in Campaigns : rest[d] <= zset[d]
    BY <2>5 DEF Paced, SentBy
  <2>8. QED
    BY <1>2, <2>1, <2>2, <2>3, <2>4, <2>6, <2>7 DEF Paced
<1>8. ASSUME NEW c \in Campaigns, Drop(t, c) PROVE Paced(t)'
  <2>1. /\ Has(t) /\ tick[t].at = NoCampaign /\ UNCHANGED <<zset, rest>>
        /\ tick' = [tick EXCEPT ![t] = Leave(t, c)]
    BY <1>8 DEF Drop, Between
  <2>2. Fresh(t)
    BY <2>1 DEF Paced
  <2>3. \A d \in Campaigns : rest[d] <= zset[d]
    BY <2>1, Scores DEF Paced, SentBy
  <2>4. CASE ~Has(t)'
    BY <1>2, <2>1, <2>3, <2>4 DEF Paced
  <2>5. CASE Has(t)'
    <3>1. /\ tick'[t].todo = tick[t].todo \ {c} /\ tick'[t].at = NoCampaign
          /\ tick'[t].sent = FALSE /\ tick'[t].phase = tick[t].phase
          /\ tick'[t].elapsed = tick[t].elapsed
      BY <1>3, <2>1, <2>5, LeaveIs
    <3>2. Fresh(t)'
      BY <1>4, <2>1, <2>2, <3>1, Scores DEF Fresh, SentBy
    <3>3. QED
      BY <1>2, <2>1, <2>3, <2>5, <3>1, <3>2 DEF Paced
  <2>6. QED
    BY <2>4, <2>5
<1>9. ASSUME NEW c \in Campaigns, Send(t, c) PROVE Paced(t)'
  <2>1. /\ Has(t) /\ tick[t].at = c /\ UNCHANGED zset
        /\ rest' = [rest EXCEPT ![c] = Less(Period, tick[t].elapsed)]
    BY <1>9 DEF Send
  <2>2. tick'[t] = [tick[t] EXCEPT !.sent = TRUE]
    BY <1>3, <1>9 DEF Send
  <2>3. /\ tick'[t].todo = tick[t].todo /\ tick'[t].at = c
        /\ tick'[t].phase = tick[t].phase /\ tick'[t].elapsed = tick[t].elapsed
        /\ tick'[t].sent = TRUE
    BY <1>4, <2>1, <2>2 DEF TickStates
  <2>4. Fresh(t) /\ c # NoCampaign /\ c \in tick[t].todo /\ tick[t].phase = "popped"
    BY <2>1, Scores DEF Paced, Fresh
  <2>5. Has(t)'
    BY <2>3, <2>4 DEF Has, NoTick
  <2>6. Less(Period, tick[t].elapsed) \in Nat
    BY <1>4, <2>1, Scores DEF Less
  <2>7. Fresh(t)'
    <3>1. \A d \in tick[t].todo \ {c} : rest[d] = 0 /\ rest'[d] = rest[d]
      BY <1>3, <1>4, <2>1, <2>4 DEF Fresh, SentBy
    <3>2. rest'[c] = Less(Period, tick[t].elapsed)
      BY <1>3, <2>1
    <3>3. QED
      BY <2>1, <2>3, <2>4, <2>5, <2>6, <3>1, <3>2 DEF Fresh, SentBy
  <2>8. \A d \in Campaigns \ {c} : rest'[d] = rest[d] /\ ~SentBy(t, d)
    BY <1>3, <2>1 DEF SentBy
  <2>9. rest'[c] = Less(Period, tick[t].elapsed) /\ SentBy(t, c)'
    BY <1>3, <2>1, <2>3, <2>5 DEF SentBy
  <2>10. QED
    BY <1>2, <2>1, <2>3, <2>4, <2>5, <2>7, <2>8, <2>9 DEF Paced
<1>10. ASSUME NEW c \in Campaigns, Reschedule(t, c) \/ TickError(t, c) PROVE Paced(t)'
  <2> DEFINE score == zset'[c]
  <2>1. /\ Has(t) /\ \A d \in Campaigns \ {c} : zset'[d] = zset[d] /\ rest'[d] = rest[d]
        /\ tick[t].at \in {c, NoCampaign}
    BY <1>3, <1>10 DEF Reschedule, TickError
  <2>2. Fresh(t)
    BY <2>1 DEF Paced
  <2>3. rest'[c] <= zset'[c]
    <3>1. CASE Reschedule(t, c)
      <4>1. tick[t].at = c /\ rest' = rest /\ zset'[c] = Less(Period, tick[t].elapsed)
        BY <1>3, <3>1 DEF Reschedule
      <4>2. c \in tick[t].todo
        BY <2>2, <4>1, Scores DEF Fresh
      <4>3. rest[c] <= Less(Period, tick[t].elapsed)
        BY <1>4, <2>1, <2>2, <4>2, Scores DEF Fresh, Less
      <4>4. QED
        BY <4>1, <4>3
    <3>2. CASE TickError(t, c)
      <4>1. /\ zset'[c] = Less(Retry, tick[t].elapsed)
            /\ rest'[c] = Earlier(rest[c], Less(Retry, tick[t].elapsed))
        BY <1>3, <3>2 DEF TickError
      <4>2. Less(Retry, tick[t].elapsed) \in Nat /\ rest[c] \in Nat
        BY <1>3, <1>4, <2>1, Scores DEF Less
      <4>3. QED
        BY <4>1, <4>2 DEF Earlier
    <3>3. QED
      BY <1>10, <3>1, <3>2
  <2>4. \A d \in Campaigns : rest'[d] <= zset'[d]
    BY <2>1, <2>3, Scores DEF Paced, SentBy
  <2>5. MaxCrashes # 0 => ~Awaited(c)
    <3>1. c \in tick[t].todo
      BY <1>10, <2>1, <2>2, Scores DEF Fresh, Reschedule, TickError
    <3>2. QED
      BY <2>1, <3>1 DEF Paced
  <2>6. CASE ~Has(t)'
    BY <1>2, <2>1, <2>4, <2>5, <2>6 DEF Paced
  <2>7. CASE Has(t)'
    <3>1. /\ tick'[t].todo = tick[t].todo \ {c} /\ tick'[t].at = NoCampaign
          /\ tick'[t].sent = FALSE /\ tick'[t].phase = tick[t].phase
          /\ tick'[t].elapsed = tick[t].elapsed
      BY <1>3, <1>10, <2>1, <2>7, LeaveIs DEF Reschedule, TickError
    <3>2. \A d \in tick[t].todo \ {c} : rest'[d] = 0
      BY <1>4, <2>1, <2>2, Scores DEF Fresh, SentBy
    <3>3. Fresh(t)'
      BY <3>1, <3>2 DEF Fresh
    <3>4. QED
      BY <1>2, <1>4, <2>1, <2>4, <2>5, <2>7, <3>1, <3>3 DEF Paced
  <2>8. QED
    BY <2>6, <2>7
<1>11. CASE TickDies(t)
  <2>1. MaxCrashes # 0
    BY <1>11 DEF TickDies, TypeInv, TypeOK
  <2>2. ~Has(t)' /\ UNCHANGED <<zset, rest>>
    BY <1>3, <1>11 DEF TickDies, Has
  <2>3. QED
    BY <1>2, <2>1, <2>2 DEF Paced
<1>12. QED
  BY <1>5, <1>6, <1>7, <1>8, <1>9, <1>10, <1>11 DEF TickStep

(* A request loads a campaign that has been created; only a campaign that  *)
(* has not been created is enqueued as due.                                *)
LEMMA RequestLoads ==
  ASSUME TypeInv, KnownInv, NEW q \in Requests,
         Call(q) \/ RequestStep(q) \/ RequestDies(q)
  PROVE  KnownInv' /\ \A c \in Campaigns : Awaited(c)' => Awaited(c)
<1>1. /\ row \in [Campaigns -> Status] /\ req \in [Requests -> ReqStates \cup {NoReq}]
      /\ \A p \in Requests : IsReq(p, "commit") => req[p].op \in {"ACTIVE", "PAUSED", "frequency"}
  BY DEF TypeInv, TypeOK
<1>2. \A p \in Requests \ {q} : req'[p] = req[p]
  BY <1>1 DEF Call, RequestStep, KillSelect, Create, Delete, LoadUpdate, CommitUpdate, Refresh,
         Remove, Enqueue, KillUpdate, KillRemove, KillCommit, RequestDies, Begin
<1>3. \A p \in Requests : req[p].op \notin {"none", "kill"} => req[p].campaign \in Campaigns
  BY <1>1 DEF ReqStates, NoReq
<1>4. ASSUME \A c \in Campaigns : row'[c] = "NEW" => row[c] = "NEW",
             req'[q].op \notin {"none", "kill"} =>
               /\ req'[q].campaign \in Campaigns /\ row'[req'[q].campaign] # "NEW"
               /\ req'[q].phase = "add_now" => row[req'[q].campaign] = "NEW"
      PROVE  KnownInv' /\ \A c \in Campaigns : Awaited(c)' => Awaited(c)
  BY <1>2, <1>3, <1>4 DEF KnownInv, Awaited, IsReq
<1>5. ASSUME NEW c \in Campaigns,
             Create(q, c) \/ Delete(q, c)
               \/ \E op \in {"ACTIVE", "PAUSED", "frequency"} : LoadUpdate(q, c, op)
      PROVE  KnownInv' /\ \A d \in Campaigns : Awaited(d)' => Awaited(d)
  <2>1. /\ \/ row' = [row EXCEPT ![c] = "ACTIVE"] \/ row' = [row EXCEPT ![c] = "DELETED"]
           \/ row' = row /\ row[c] # "NEW"
        /\ req'[q].campaign = c /\ req'[q].phase = "add_now" => row[c] = "NEW"
    BY <1>1, <1>5 DEF Create, Delete, LoadUpdate, Begin
  <2>2. req'[q].campaign = c
    BY <1>1, <1>5 DEF Create, Delete, LoadUpdate, Begin
  <2>3. QED
    BY <1>1, <1>4, <2>1, <2>2
<1>6. CASE KillSelect(q) \/ KillUpdate(q) \/ KillRemove(q) \/ KillCommit(q)
  <2>1. req'[q].op \in {"none", "kill"}
    <3>1. CASE KillSelect(q)
      BY <1>1, <3>1 DEF KillSelect, Begin
    <3>2. CASE KillUpdate(q) \/ KillRemove(q)
      <4>1. req[q] \in ReqStates /\ req[q].op = "kill"
        BY <1>1, <3>2 DEF KillUpdate, KillRemove, NoReq
      <4>2. CASE KillUpdate(q)
        <5> DEFINE S == {c \in Campaigns : row[c] = "ACTIVE"}
        <5>1. req' = [req EXCEPT ![q] = [[@ EXCEPT !.phase = "remove"] EXCEPT !.locked = S]]
          BY <1>1, <4>2 DEF KillUpdate
        <5> HIDE DEF S
        <5>2. QED
          BY <1>1, <4>1, <5>1 DEF ReqStates
      <4>3. CASE KillRemove(q)
        BY <1>1, <4>1, <4>3 DEF KillRemove, ReqStates
      <4>4. QED
        BY <3>2, <4>2, <4>3
    <3>3. CASE KillCommit(q)
      BY <1>1, <3>3 DEF KillCommit, NoReq
    <3>4. QED
      BY <1>6, <3>1, <3>2, <3>3
  <2>2. \A c \in Campaigns : row'[c] = "NEW" => row[c] = "NEW"
    BY <1>6 DEF KillSelect, KillUpdate, KillRemove, KillCommit
  <2>3. QED
    BY <1>4, <2>1, <2>2
<1>7. CASE CommitUpdate(q)
  <2>1. /\ req[q].op \in {"ACTIVE", "PAUSED", "frequency"} /\ req[q].campaign \in Campaigns
        /\ row[req[q].campaign] # "NEW" /\ req[q] \in ReqStates
    BY <1>1, <1>3, <1>7 DEF CommitUpdate, IsReq, KnownInv, NoReq
  <2>2. \/ req'[q] = NoReq
        \/ req'[q] = [req[q] EXCEPT !.phase = "refresh"]
    BY <1>1, <1>7 DEF CommitUpdate
  <2>3. \/ req'[q].op = "none"
        \/ req'[q].campaign = req[q].campaign /\ req'[q].phase = "refresh"
    BY <2>1, <2>2 DEF ReqStates, NoReq
  <2>4. row' = row \/ row' = [row EXCEPT ![req[q].campaign] = req[q].op]
    BY <1>7 DEF CommitUpdate
  <2>5. \A c \in Campaigns : row'[c] = "NEW" => row[c] = "NEW"
    BY <1>1, <2>1, <2>4
  <2>6. row'[req[q].campaign] # "NEW"
    BY <2>1, <2>5
  <2>7. QED
    BY <1>4, <2>1, <2>3, <2>5, <2>6
<1>8. CASE Refresh(q)
  <2>1. /\ req[q].campaign \in Campaigns /\ row[req[q].campaign] # "NEW"
        /\ req[q] \in ReqStates /\ UNCHANGED row
    BY <1>1, <1>3, <1>8 DEF Refresh, IsReq, KnownInv, NoReq
  <2>2. \/ req'[q] = NoReq
        \/ \E phase \in {"add", "remove"} : req'[q] = [req[q] EXCEPT !.phase = phase]
    BY <1>1, <1>8 DEF Refresh
  <2>3. \/ req'[q].op = "none"
        \/ req'[q].campaign = req[q].campaign /\ req'[q].phase # "add_now"
    <3>1. ASSUME NEW phase \in {"add", "remove"}, req'[q] = [req[q] EXCEPT !.phase = phase]
          PROVE  req'[q].campaign = req[q].campaign /\ req'[q].phase = phase
      <4>1. req[q] \in [op : {"create", "frequency", "delete"} \cup {"ACTIVE", "PAUSED"},
                        campaign : Campaigns, prev : Status,
                        phase : {"commit", "refresh", "add_now", "add", "remove"}]
        BY <1>8, <2>1 DEF Refresh, IsReq, ReqStates
      <4>2. QED
        BY <3>1, <4>1
    <3>2. QED
      BY <2>2, <3>1 DEF NoReq
  <2>4. QED
    BY <1>4, <2>1, <2>3
<1>9. CASE \/ Remove(q) \/ RequestDies(q)
           \/ \E phase \in {"add_now", "add"}, score \in {0, Period} : Enqueue(q, phase, score)
  <2>1. req'[q].op = "none" /\ UNCHANGED row
    BY <1>1, <1>9 DEF Remove, RequestDies, Enqueue, NoReq
  <2>2. QED
    BY <1>4, <2>1
<1>10. QED
  BY <1>5, <1>6, <1>7, <1>8, <1>9 DEF Call, RequestStep

LEMMA RequestFires ==
  ASSUME TypeInv, KnownInv, NEW t \in Ticks, Paced(t), NEW q \in Requests,
         MaxCrashes = 0 \/ \A p \in Requests : p = q,
         Call(q) \/ RequestStep(q) \/ RequestDies(q)
  PROVE  Paced(t)'
<1>1. UNCHANGED tick
  BY DEF Call, RequestStep, KillSelect, Create, Delete, LoadUpdate, CommitUpdate, Refresh,
         Remove, Enqueue, KillUpdate, KillRemove, KillCommit, RequestDies
<1>2. \A c \in Campaigns : Awaited(c)' => Awaited(c)
  BY RequestLoads
<1>3. /\ TypeOK /\ zset \in [Campaigns -> 0 .. Unscheduled]
      /\ rest \in [Campaigns -> 0 .. Period] /\ req \in [Requests -> ReqStates \cup {NoReq}]
  BY DEF TypeInv, TypeOK
<1>4. Has(t) => tick[t].todo \subseteq Campaigns /\ tick[t].elapsed \in 0 .. Longest
  BY <1>3, TickHas DEF TickStates
<1>5. ASSUME NEW c \in Campaigns, NEW score \in 0 .. Unscheduled,
             zset' = [zset EXCEPT ![c] = score],
             \/ score = Unscheduled /\ rest' = rest
             \/ rest' = [rest EXCEPT ![c] = Earlier(@, score)],
             MaxCrashes # 0 =>
                \/ Period <= score /\ ~Awaited(c)'
                \/ ~(Has(t) /\ c \in tick[t].todo) /\ ~Awaited(c)'
                \/ score = Unscheduled
      PROVE  Paced(t)'
  <2>1. /\ \A d \in Campaigns : rest'[d] <= rest[d] /\ rest'[d] \in Nat
        /\ rest'[c] <= zset'[c] /\ zset'[c] = score
        /\ \A d \in Campaigns \ {c} : rest'[d] = rest[d] /\ zset'[d] = zset[d]
    BY <1>3, <1>5, Scores DEF Earlier
  <2>2. (Has(t) => Fresh(t)) => (Has(t) => Fresh(t))'
    <3>1. ASSUME Has(t), Fresh(t), NEW d \in tick[t].todo
          PROVE  rest'[d] = 0 \/ (SentBy(t, d) /\ rest'[d] <= Less(Period, tick[t].elapsed))
      <4>1. Less(Period, tick[t].elapsed) \in Nat /\ d \in Campaigns /\ rest[d] \in Nat
        BY <1>3, <1>4, <3>1, Scores DEF Less
      <4>2. rest[d] = 0 \/ (SentBy(t, d) /\ rest[d] <= Less(Period, tick[t].elapsed))
        BY <3>1 DEF Fresh
      <4>3. QED
        BY <2>1, <4>1, <4>2
    <3>2. QED
      BY <1>1, <3>1 DEF Fresh, SentBy, Has
  <2>3. \A d \in Campaigns : (~SentBy(t, d) => rest[d] <= zset[d])
                             => (~SentBy(t, d) => rest'[d] <= zset'[d])
    BY <2>1
  <2>4. Has(t) => Less(Period, tick[t].elapsed) <= Period
    BY <1>4, Scores DEF Less
  <2>5. ASSUME MaxCrashes # 0
        PROVE  /\ \A d \in Campaigns : rest'[d] <= zset'[d]
               /\ Has(t) /\ tick[t].phase = "popped" =>
                    \A d \in tick[t].todo : Less(Period, tick[t].elapsed) <= zset'[d]
               /\ \A d \in Campaigns :
                    Awaited(d)' => zset'[d] = Unscheduled /\ ~(Has(t) /\ d \in tick[t].todo)
    <3>1. \A d \in Campaigns : rest'[d] <= zset'[d]
      BY <2>1, <2>5 DEF Paced
    <3>2. ASSUME Has(t), tick[t].phase = "popped", NEW d \in tick[t].todo
          PROVE  Less(Period, tick[t].elapsed) <= zset'[d]
      <4>1. Less(Period, tick[t].elapsed) <= zset[d] /\ d \in Campaigns
        BY <1>4, <2>5, <3>2 DEF Paced
      <4>2. Less(Period, tick[t].elapsed) \in 0 .. Period
        BY <1>4, <3>2, Scores DEF Less
      <4>3. CASE d = c
        BY <1>5, <2>1, <2>5, <3>2, <4>2, <4>3, Scores
      <4>4. CASE d # c
        BY <2>1, <4>1, <4>4
      <4>5. QED
        BY <4>3, <4>4
    <3>3. ASSUME NEW d \in Campaigns, Awaited(d)'
          PROVE  zset'[d] = Unscheduled /\ ~(Has(t) /\ d \in tick[t].todo)
      BY <1>2, <1>5, <2>1, <2>5, <3>3 DEF Paced
    <3>4. QED
      BY <3>1, <3>2, <3>3
  <2>6. QED
    BY <1>1, <2>2, <2>3, <2>5 DEF Paced, SentBy, Has
<1>6. CASE UNCHANGED <<zset, rest>>
  BY <1>1, <1>2, <1>6 DEF Paced, SentBy, Has, Fresh
<1>7. \A p \in Requests : req[p].op \notin {"none", "kill"} => req[p].campaign \in Campaigns
  BY <1>3 DEF ReqStates, NoReq
<1>8. CASE Remove(q)
  <2>1. req[q].campaign \in Campaigns /\ Unscheduled \in 0 .. Unscheduled
    BY <1>7, <1>8, Scores DEF Remove, IsReq
  <2>2. QED
    BY <1>5, <1>8, <2>1 DEF Remove
<1>9. CASE KillRemove(q)
  <2>1. req[q].ids \subseteq Campaigns /\ Unscheduled \in 0 .. Unscheduled
    BY <1>3, <1>9, Scores DEF KillRemove, ReqStates, NoReq
  <2>2. QED
    BY <1>5, <1>9, <2>1 DEF KillRemove
<1>10. ASSUME NEW score \in 0 .. Period, NEW phase \in {"add_now", "add"},
              Enqueue(q, phase, score), phase = "add" => score = Period
       PROVE  Paced(t)'
  <2>0. PICK c \in Campaigns : c = req[q].campaign
    BY <1>7, <1>10 DEF Enqueue, IsReq
  <2>1. row[c] # "NEW" /\ UNCHANGED row /\ req'[q].op = "none"
    BY <1>3, <1>10, <2>0 DEF Enqueue, IsReq, KnownInv, NoReq
  <2>2. MaxCrashes # 0 => ~Awaited(c)'
    BY <2>1 DEF Awaited, IsReq
  <2>3. phase = "add_now" => Awaited(c)
    BY <1>10, <2>0 DEF Enqueue, Awaited
  <2>4. /\ zset' = [zset EXCEPT ![c] = score]
        /\ rest' = [rest EXCEPT ![c] = Earlier(@, score)]
    BY <1>10, <2>0 DEF Enqueue
  <2>5. score \in 0 .. Unscheduled
    BY Scores
  <2>6. MaxCrashes # 0 /\ phase = "add_now" => ~(Has(t) /\ c \in tick[t].todo)
    BY <2>1, <2>3 DEF Paced
  <2>7. phase = "add" => Period <= score
    BY <1>10, Scores
  <2>8. QED
    BY <1>5, <1>10, <2>2, <2>4, <2>5, <2>6, <2>7
<1>11. CASE \/ Call(q) \/ CommitUpdate(q) \/ Refresh(q) \/ KillUpdate(q) \/ KillCommit(q)
            \/ RequestDies(q)
  BY <1>6, <1>11 DEF Call, KillSelect, Create, Delete, LoadUpdate, CommitUpdate, Refresh,
         KillUpdate, KillCommit, RequestDies
<1>12. 0 \in 0 .. Period /\ Period \in 0 .. Period
  BY Scores
<1>13. QED
  BY <1>8, <1>9, <1>10, <1>11, <1>12 DEF RequestStep

LEMMA TimeFires ==
  ASSUME TypeInv, NEW t \in Ticks, Paced(t), Advance
  PROVE  Paced(t)'
<1>1. /\ TypeOK /\ zset \in [Campaigns -> 0 .. Unscheduled]
      /\ rest \in [Campaigns -> 0 .. Period] /\ tick \in [Ticks -> TickStates \cup {NoTick}]
  BY DEF TypeInv, TypeOK
<1>2. \A c \in Campaigns : Awaited(c)' = Awaited(c)
  BY DEF Advance, Awaited, IsReq
<1>3. Has(t) => /\ tick[t] \in TickStates /\ tick[t].elapsed \in 0 .. Longest
                /\ tick[t].todo \subseteq Campaigns
  <2>1. Has(t) => tick[t] \in TickStates
    BY <1>1, TickHas
  <2>2. QED
    BY <2>1 DEF TickStates
<1>4. \A c \in Campaigns : /\ rest'[c] = Less(rest[c], 1)
                           /\ zset'[c] = IF zset[c] = Unscheduled THEN Unscheduled
                                         ELSE Less(zset[c], 1)
  BY DEF Advance
<1>5. ASSUME NEW c \in Campaigns, rest[c] <= zset[c] PROVE rest'[c] <= zset'[c]
  <2>1. rest[c] \in 0 .. Period /\ zset[c] \in 0 .. Unscheduled
    BY <1>1
  <2>2. QED
    BY <1>4, <1>5, <2>1, Scores DEF Less
<1>6. CASE ~Has(t)
  <2>1. ~Has(t)'
    BY <1>6 DEF Advance, Has
  <2>2. QED
    BY <1>2, <1>4, <1>5, <1>6, <2>1 DEF Paced, SentBy
<1>7. CASE Has(t)
  <2> DEFINE e == Earlier(tick[t].elapsed + 1, Longest)
  <2>1. tick'[t] = [tick[t] EXCEPT !.elapsed = e]
    BY <1>7 DEF Advance
  <2>2. /\ tick'[t].todo = tick[t].todo /\ tick'[t].at = tick[t].at
        /\ tick'[t].phase = tick[t].phase /\ tick'[t].elapsed = e
        /\ tick'[t].sent = tick[t].sent /\ tick[t].phase # "idle"
    BY <1>3, <1>7, <2>1 DEF TickStates
  <2>3. Has(t)'
    BY <2>2 DEF Has, NoTick
  <2>4. ASSUME NEW n \in Nat, n <= Less(Period, tick[t].elapsed)
        PROVE  Less(n, 1) <= Less(Period, e)
    BY <1>3, <1>7, <2>4, Scores DEF Less, Earlier
  <2>5. ASSUME NEW n \in Nat, Less(Period, tick[t].elapsed) <= n
        PROVE  Less(Period, e) <= Less(n, 1)
    BY <1>3, <1>7, <2>5, Scores DEF Less, Earlier
  <2>6. Less(Period, e) <= Unscheduled
    BY <1>3, <1>7, Scores DEF Less, Earlier
  <2>7. \A c \in Campaigns : SentBy(t, c)' <=> SentBy(t, c)
    BY <1>7, <2>2, <2>3 DEF SentBy
  <2> HIDE DEF e
  <2>8. Fresh(t)'
    <3>1. ASSUME NEW c \in tick[t].todo
          PROVE  rest'[c] = 0 \/ (SentBy(t, c) /\ rest'[c] <= Less(Period, e))
      <4>1. rest[c] \in Nat /\ c \in Campaigns
        BY <1>1, <1>3, <1>7
      <4>2. rest[c] = 0 \/ (SentBy(t, c) /\ rest[c] <= Less(Period, tick[t].elapsed))
        BY <1>7 DEF Paced, Fresh
      <4>3. rest[c] = 0 => Less(rest[c], 1) = 0
        BY DEF Less
      <4>4. QED
        BY <1>4, <2>4, <4>1, <4>2, <4>3
    <3>2. Fresh(t)
      BY <1>7 DEF Paced
    <3>3. QED
      BY <1>3, <1>7, <2>2, <2>7, <3>1, <3>2 DEF Fresh
  <2>9. ASSUME NEW c \in Campaigns, Less(Period, tick[t].elapsed) <= zset[c]
        PROVE  Less(Period, e) <= zset'[c]
    <3>1. zset[c] \in Nat
      BY <1>1, Scores
    <3>2. QED
      BY <1>4, <2>5, <2>6, <2>9, <3>1
  <2>10. QED
    BY <1>2, <1>3, <1>4, <1>5, <1>7, <2>2, <2>3, <2>7, <2>8, <2>9 DEF Paced
<1>8. QED
  BY <1>6, <1>7

(* "so a slow/crashed tick can't cause the next tick to double-fire the    *)
(* same campaigns": with one maintenance process, when nothing dies or the *)
(* API handles one request at a time, a campaign is sent again only when   *)
(* it is due, whatever order the steps of the tick and of the requests     *)
(* come in (scheduler_tick).                                               *)
THEOREM FiresOnce ==
  ASSUME \A s, t \in Ticks : s = t,
         MaxCrashes = 0 \/ \A p, q \in Requests : p = q
  PROVE  Spec => NoDoubleFire
<1>1. Init => FireInv
  BY Scores DEF Init, FireInv, Paced, KnownInv, Has, SentBy, NoReq
<1>2. ASSUME TypeInv, FireInv, [Next]_vars PROVE FireInv'
  <2>1. CASE \E t \in Ticks :
               TickStep(t) \/ TickDies(t) \/ \E c \in Campaigns : TickError(t, c)
    <3>1. PICK t \in Ticks :
            TickStep(t) \/ TickDies(t) \/ \E c \in Campaigns : TickError(t, c)
      BY <2>1
    <3>2. KnownInv'
      BY <1>2, <3>1 DEF FireInv, KnownInv, TickStep, Scan, Pop, Read, Drop, Send, Reschedule,
                        TickDies, TickError
    <3>3. Paced(t)'
      BY <1>2, <3>1, TickFires DEF FireInv
    <3>4. QED
      BY <3>2, <3>3 DEF FireInv
  <2>2. ASSUME NEW q \in Requests, Call(q) \/ RequestStep(q) \/ RequestDies(q)
        PROVE  FireInv'
    <3>1. KnownInv'
      BY <1>2, <2>2, RequestLoads DEF FireInv
    <3>2. ASSUME NEW t \in Ticks PROVE Paced(t)'
      <4>1. KnownInv /\ Paced(t)
        BY <1>2 DEF FireInv
      <4>2. MaxCrashes = 0 \/ \A p \in Requests : p = q
        OBVIOUS
      <4>3. QED
        BY <1>2, <2>2, <4>1, <4>2, RequestFires
    <3>3. QED
      BY <3>1, <3>2 DEF FireInv
  <2>3. CASE Advance
    BY <1>2, <2>3, TimeFires DEF FireInv, KnownInv, Advance
  <2>4. CASE DeactivateOrg \/ UNCHANGED vars
    <3>1. UNCHANGED <<row, zset, tick, req, rest>>
      BY <2>4 DEF DeactivateOrg, vars
    <3>2. QED
      BY <1>2, <3>1 DEF FireInv, KnownInv, Paced, Fresh, SentBy, Has, Awaited, IsReq
  <2>5. QED
    BY <1>2, <2>1, <2>2, <2>3, <2>4 DEF Next
<1>3. ASSUME FireInv PROVE [\A t \in Ticks, c \in Campaigns : Send(t, c) => rest[c] = 0]_vars
  <2>1. ASSUME NEW t \in Ticks, NEW c \in Campaigns, Send(t, c) PROVE rest[c] = 0
    <3>1. Has(t) /\ tick[t].at = c /\ ~tick[t].sent /\ Fresh(t)
      BY <1>3, <2>1 DEF Send, FireInv, Paced
    <3>2. QED
      BY <3>1, Scores DEF Fresh, SentBy
  <2>2. QED
    BY <2>1
<1>4. QED
  BY <1>1, <1>2, <1>3, InitType, StepType, PTL DEF Spec, NoDoubleFire
=============================================================================
