--------------------------- MODULE OrgSpend_proofs ---------------------------
(***************************************************************************)
(* Proofs about OrgSpend, for any finite set of workers, any tokens, caps, *)
(* budgets and estimates with a largest one:                               *)
(*   TypeCorrect       the type invariant                                  *)
(*   TokenForgotten    what was cached for a deleted token is gone         *)
(*   SpendRecorded     the counter misses one estimate per slip, at most   *)
(*   GuardsImplemented both guards implement SpendGuard, if the daily      *)
(*                     limit is not 0                                      *)
(*   MonthlyOvershoot  so that the month's budget is exceeded by no more   *)
(*                     than one estimate for each worker and blind run,    *)
(*   DailyOvershoot    and the daily limit by no more than CONCURRENCY     *)
(*                     calls for each worker                               *)
(***************************************************************************)
EXTENDS OrgSpend, FiniteSetTheorems, WellFoundedInduction, TLAPS

Assumptions == ApifyAssumption /\ LlmAssumption /\ OrgSpendAssumption

(* The largest of the estimates, and of the sizes of a call.               *)
LEMMA Largest ==
  /\ MaxEstimate \in Estimates /\ MaxEstimate \in Nat /\ MaxEstimate >= 1
  /\ \A e \in Estimates : e \in Nat /\ e >= 1 /\ e \in 1 .. MaxEstimate
  /\ MaxSize \in Sizes /\ MaxSize \in Nat /\ MaxSize >= 1
  /\ \A n \in Sizes : n \in Nat /\ n >= 1 /\ n \in 1 .. MaxSize
<1>1. MaxEstimate \in Estimates /\ \A k \in Estimates : k <= MaxEstimate
  BY ApifyAssumption DEF MaxEstimate
<1>2. MaxSize \in Sizes /\ \A k \in Sizes : k <= MaxSize
  BY LlmAssumption DEF MaxSize
<1>3. Estimates \subseteq Nat \ {0} /\ Sizes \subseteq Nat \ {0}
  BY ApifyAssumption, LlmAssumption
<1>4. QED
  BY <1>1, <1>2, <1>3

(* A set of tokens that is not empty has a first one.                      *)
LEMMA FirstToken ==
  ASSUME NEW S \in SUBSET Tokens, S # {}
  PROVE  (CHOOSE t \in S : \A k \in S : t <= k) \in S
<1>1. S \subseteq Nat
  BY ApifyAssumption DEF Tokens
<1> DEFINE Less == {ss \in Nat \X Nat : ss[1] < ss[2]}
<1>2. IsWellFoundedOn(Less, Nat)
  BY NatLessThanWellFounded DEF OpToRel
<1>3. PICK t \in S : \A k \in S : ~ (<<k, t>> \in Less)
  <2> HIDE DEF Less
  <2>1. QED
    BY <1>1, <1>2, WFMin
<1>4. ASSUME NEW k \in S PROVE t <= k
  <2>1. k \in Nat /\ t \in Nat /\ <<k, t>> \notin Less
    BY <1>1, <1>3
  <2>2. ~ (k < t)
    BY <2>1
  <2>3. QED
    BY <2>1, <2>2
<1>5. QED
  BY <1>4

-----------------------------------------------------------------------------
(* Types.                                                                  *)

(* Where a worker of the type is.                                          *)
LEMMA Places ==
  ASSUME ApifyTypeOK, NEW w \in Workers
  PROVE  /\ At(w, "idle") => ingest[w] = NoRun
         /\ At(w, "credits") => ingest[w] \in Credits
         /\ At(w, "running") \/ At(w, "record") => ingest[w] \in Actors
         /\ ingest[w] # NoRun /\ ~At(w, "credits") => ingest[w] \in Actors
         /\ ingest[w] \in Credits => At(w, "credits")
  BY DEF ApifyTypeOK, At, NoRun, Actors, Credits

LEMMA AdmittedType ==
  ASSUME ApifyTypeOK, NEW est \in Estimates
  PROVE  Admitted(est) \in Credits
<1>1. [t \in Tokens |-> EffectiveCap(vault[t].cap)] \in [Tokens -> Nat]
  BY ApifyAssumption DEF ApifyTypeOK, EffectiveCap
<1>2. NoUsage \in Usage
  BY DEF NoUsage, Usage, None
<1>3. QED
  BY <1>1, <1>2 DEF Admitted, Credits, Loaded

LEMMA LookedType ==
  ASSUME ApifyTypeOK, NEW w \in Workers, At(w, "credits"), NEW remaining \in Nat
  PROVE  Looked(w, remaining) \in Credits
<1>1. ingest[w] \in Credits
  BY Places
<1>2. NoUsage \in Usage
  BY DEF NoUsage, Usage, None
<1>3. QED
  BY <1>1, <1>2 DEF Looked, Credits

LEMMA LeftType ==
  ASSUME ApifyTypeOK, NEW w \in Workers, At(w, "credits"), ingest[w].left # {},
         NEW used \in Nat \cup {None}
  PROVE  Left(w, used) \in Nat /\ NextToken(w) \in Tokens
<1>1. ingest[w] \in Credits
  BY Places
<1>2. NextToken(w) \in Tokens
  BY <1>1, FirstToken DEF NextToken, Credits
<1>3. ingest[w].cap[NextToken(w)] \in Nat
  BY <1>1, <1>2 DEF Credits
<1>4. QED
  BY <1>2, <1>3 DEF Left, None

-----------------------------------------------------------------------------
(* What an ingest does, seen from the counters: eight kinds of steps.      *)

Becomes(w, x) == ingest' = [ingest EXCEPT ![w] = x]
SameBill == UNCHANGED bill
SameLedger == UNCHANGED <<spent, apifyGranted, blind>>

Admits(w) ==
    /\ ingest[w] = NoRun /\ SameBill
    /\ \E x \in Credits : Becomes(w, x) /\ spent + x.est <= Budget
    /\ SameLedger
AdmitsBlindly(w) ==
    /\ ingest[w] = NoRun /\ SameBill
    /\ \E x \in Credits : Becomes(w, x)
    /\ spent' = spent /\ apifyGranted' = apifyGranted /\ blind' = blind + 1
Looks(w) ==
    /\ ingest[w] \in Credits /\ SameBill /\ SameLedger
    /\ \E x \in Credits : Becomes(w, x)
GivesUp(w) ==
    /\ ingest[w] \in Credits /\ SameBill /\ SameLedger
    /\ Becomes(w, NoRun)
Starts(w) ==
    /\ ingest[w] \in Credits /\ SameLedger
    /\ \E times \in {1, 2} :
         bill' = [bill EXCEPT !.started = @ + times * ingest[w].est,
                              !.slips = @ + times - 1]
    /\ \E x \in Actors : Becomes(w, x) /\ x.est = ingest[w].est
Succeeds(w) ==
    /\ ingest[w] \in Actors /\ SameBill /\ SameLedger
    /\ \E x \in Actors : Becomes(w, x) /\ x.est = ingest[w].est
Records(w) ==
    /\ ingest[w] \in Actors /\ Becomes(w, NoRun)
    /\ spent' = spent + ingest[w].est /\ apifyGranted' = apifyGranted + ingest[w].est
    /\ blind' = blind
    /\ bill' = [bill EXCEPT !.recorded = @ + ingest[w].est]
Slips(w) ==
    /\ ingest[w] \in Actors /\ Becomes(w, NoRun) /\ SameLedger
    /\ bill' = [bill EXCEPT !.slips = @ + 1]

Kinds(w) ==
    \/ Admits(w) \/ AdmitsBlindly(w) \/ Looks(w) \/ GivesUp(w)
    \/ Starts(w) \/ Succeeds(w) \/ Records(w) \/ Slips(w)

LEMMA IngestKinds ==
  ASSUME ApifyTypeOK, NEW w \in Workers, Ingest(w)
  PROVE  Kinds(w)
<1> USE DEF Kinds, Becomes, SameBill, SameLedger, ledger, Move
<1>1. CASE CheckBudget(w)
  <2>1. PICK est \in Estimates : spent + est <= Budget /\ Move(w, Admitted(est))
    BY <1>1 DEF CheckBudget
  <2>2. Admitted(est) \in Credits /\ Admitted(est).est = est
    BY AdmittedType DEF Admitted
  <2>3. Admits(w)
    BY <1>1, <2>1, <2>2, Places DEF CheckBudget, Admits
  <2>4. QED
    BY <2>3
<1>2. CASE CheckBudgetBlindly(w)
  <2>1. PICK est \in Estimates : Move(w, Admitted(est))
    BY <1>2 DEF CheckBudgetBlindly
  <2>2. Admitted(est) \in Credits
    BY AdmittedType
  <2>3. AdmitsBlindly(w)
    BY <1>2, <2>1, <2>2, Places DEF CheckBudgetBlindly, AdmitsBlindly
  <2>4. QED
    BY <2>3
<1>3. CASE UseCache(w)
  <2>1. /\ At(w, "credits") /\ ingest[w].left # {}
        /\ Move(w, Looked(w, Left(w, cache[NextToken(w)].used)))
    BY <1>3 DEF UseCache, Looking
  <2>2. NextToken(w) \in Tokens
    BY <2>1, LeftType DEF None
  <2>3. cache[NextToken(w)].used \in Nat \cup {None}
    BY <2>2 DEF ApifyTypeOK, Usage
  <2>4. Looked(w, Left(w, cache[NextToken(w)].used)) \in Credits
    BY <2>1, <2>3, LeftType, LookedType
  <2>5. Looks(w)
    BY <1>3, <2>1, <2>4, Places DEF UseCache, Looks
  <2>6. QED
    BY <2>5
<1>4. CASE AskApify(w)
  <2> DEFINE got == [used |-> account[NextToken(w)].used, gen |-> vault[NextToken(w)].gen]
  <2>1. /\ At(w, "credits") /\ ingest[w].left # {}
        /\ Move(w, [ingest[w] EXCEPT !.got = got])
    BY <1>4 DEF AskApify, Looking
  <2>2. NextToken(w) \in Tokens
    BY <2>1, LeftType DEF None
  <2>3. got \in Usage
    BY <2>2 DEF ApifyTypeOK, Usage
  <2> HIDE DEF got
  <2>4. ingest[w] \in Credits /\ [ingest[w] EXCEPT !.got = got] \in Credits
    BY <2>1, <2>3, Places DEF Credits
  <2>5. Looks(w)
    BY <1>4, <2>1, <2>4 DEF AskApify, Looks
  <2>6. QED
    BY <2>5
<1>5. CASE StoreUsage(w)
  <2>1. /\ At(w, "credits") /\ Move(w, Looked(w, Left(w, ingest[w].got.used)))
    BY <1>5 DEF StoreUsage
  <2>2. ingest[w] \in Credits /\ ingest[w].got.used \in Nat \cup {None}
    BY <2>1, Places DEF Credits, Usage
  <2>3. ingest[w].left # {}
    BY <1>5, <2>2 DEF StoreUsage, Credits
  <2>4. Looked(w, Left(w, ingest[w].got.used)) \in Credits
    BY <2>1, <2>2, <2>3, LeftType, LookedType
  <2>5. Looks(w)
    BY <1>5, <2>1, <2>2, <2>4 DEF StoreUsage, Looks
  <2>6. QED
    BY <2>5
<1>6. CASE TokenRefused(w) \/ ApifySilent(w)
  <2>1. At(w, "credits") /\ Move(w, Looked(w, 0))
    BY <1>6 DEF TokenRefused, ApifySilent, Looking
  <2>2. Looked(w, 0) \in Credits
    BY <2>1, LookedType
  <2>3. Looks(w)
    BY <1>6, <2>1, <2>2, Places DEF TokenRefused, ApifySilent, Looks
  <2>4. QED
    BY <2>3
<1>7. CASE NoToken(w) \/ StartRefused(w)
  <2>1. GivesUp(w)
    BY <1>7, Places DEF NoToken, StartRefused, Selected, GivesUp
  <2>2. QED
    BY <2>1
<1>8. CASE StartActor(w)
  <2> DEFINE x == [at |-> "running", est |-> ingest[w].est]
  <2>1. ingest[w] \in Credits
    BY <1>8, Places DEF StartActor, Selected
  <2>2. x \in Actors /\ x.est = ingest[w].est
    BY <2>1 DEF Credits, Actors
  <2>3. Becomes(w, x) /\ SameLedger
    BY <1>8 DEF StartActor
  <2>4. \E times \in {1, 2} :
          bill' = [bill EXCEPT !.started = @ + times * ingest[w].est, !.slips = @ + times - 1]
    BY <1>8 DEF StartActor, Charge
  <2>5. Starts(w)
    BY <2>1, <2>2, <2>3, <2>4 DEF Starts
  <2>6. QED
    BY <2>5
<1>9. CASE Succeed(w)
  <2>1. ingest[w] \in Actors
    BY <1>9, Places DEF Succeed
  <2>2. [ingest[w] EXCEPT !.at = "record"] \in Actors
        /\ [ingest[w] EXCEPT !.at = "record"].est = ingest[w].est
    BY <2>1 DEF Actors
  <2>3. Succeeds(w)
    BY <1>9, <2>1, <2>2 DEF Succeed, Succeeds
  <2>4. QED
    BY <2>3
<1>10. CASE RecordSpend(w)
  <2>1. Records(w)
    BY <1>10, Places DEF RecordSpend, Records
  <2>2. QED
    BY <2>1
<1>11. CASE RunFails(w) \/ RecordFails(w)
  <2>1. Slips(w)
    BY <1>11, Places DEF RunFails, RecordFails, Slips
  <2>2. QED
    BY <2>1
<1>12. CASE Die(w)
  <2>1. CASE At(w, "credits")
    <3>1. bill' = bill
      <4>1. bill' = [bill EXCEPT !.slips = @ + 0]
        BY <1>12, <2>1 DEF Die
      <4>2. QED
        BY <4>1 DEF ApifyTypeOK
    <3>2. GivesUp(w)
      BY <1>12, <2>1, <3>1, Places DEF Die, GivesUp
    <3>3. QED
      BY <3>2
  <2>2. CASE ~At(w, "credits")
    <3>1. Slips(w)
      BY <1>12, <2>2, Places DEF Die, Slips
    <3>2. QED
      BY <3>1
  <2>3. QED
    BY <2>1, <2>2
<1>13. QED
  BY <1>1, <1>2, <1>3, <1>4, <1>5, <1>6, <1>7, <1>8, <1>9, <1>10, <1>11, <1>12 DEF Ingest

-----------------------------------------------------------------------------
(* The type invariant.                                                     *)

LEMMA LedgerType ==
  ASSUME ApifyTypeOK, NEW w \in Workers, Kinds(w)
  PROVE  /\ ingest' \in [Workers -> {NoRun} \cup Credits \cup Actors]
         /\ spent' \in Nat /\ apifyGranted' \in 0 .. spent' /\ blind' \in Nat
         /\ bill' \in [started : Nat, recorded : Nat, slips : Nat]
<1>1. \E x \in {NoRun} \cup Credits \cup Actors : Becomes(w, x)
  BY DEF Kinds, Admits, AdmitsBlindly, Looks, GivesUp, Starts, Succeeds, Records, Slips
<1>2. ingest' \in [Workers -> {NoRun} \cup Credits \cup Actors]
  BY <1>1 DEF Becomes, ApifyTypeOK
<1>3. ingest[w] \in Credits \cup Actors => ingest[w].est \in Nat
  BY Largest DEF Credits, Actors
<1>4. /\ spent \in Nat /\ apifyGranted \in Nat /\ apifyGranted <= spent /\ blind \in Nat
      /\ bill \in [started : Nat, recorded : Nat, slips : Nat]
  BY DEF ApifyTypeOK
<1>5. spent' \in Nat /\ apifyGranted' \in 0 .. spent' /\ blind' \in Nat
  <2>1. CASE Records(w)
    BY <1>3, <1>4, <2>1 DEF Records
  <2>2. CASE AdmitsBlindly(w)
    BY <1>4, <2>2 DEF AdmitsBlindly
  <2>3. CASE SameLedger
    BY <1>4, <2>3 DEF SameLedger
  <2>4. QED
    BY <2>1, <2>2, <2>3 DEF Kinds, Admits, Looks, GivesUp, Starts, Succeeds, Slips
<1>6. bill' \in [started : Nat, recorded : Nat, slips : Nat]
  <2>1. CASE Records(w)
    BY <1>3, <1>4, <2>1 DEF Records
  <2>2. CASE Slips(w)
    BY <1>4, <2>2 DEF Slips
  <2>3. CASE Starts(w)
    <3>1. PICK times \in {1, 2} :
            bill' = [bill EXCEPT !.started = @ + times * ingest[w].est, !.slips = @ + times - 1]
      BY <2>3 DEF Starts
    <3>2. times * ingest[w].est \in Nat
      BY <1>3, <2>3 DEF Starts
    <3> DEFINE charge == times * ingest[w].est
    <3>3. bill' = [bill EXCEPT !.started = @ + charge, !.slips = @ + times - 1] /\ charge \in Nat
      BY <3>1, <3>2
    <3> HIDE DEF charge
    <3>4. bill.started + charge \in Nat /\ bill.slips + times - 1 \in Nat
      BY <1>4, <3>3
    <3>5. QED
      BY <1>4, <3>3, <3>4
  <2>4. CASE SameBill
    BY <1>4, <2>4 DEF SameBill
  <2>5. QED
    BY <2>1, <2>2, <2>3, <2>4 DEF Kinds, Admits, AdmitsBlindly, Looks, GivesUp, Succeeds
<1>7. QED
  BY <1>2, <1>5, <1>6

LEMMA BoundsType ==
  ASSUME ApifyTypeOK
  PROVE  /\ Fault => bounds' \in [polls : Nat, edits : Nat, faults : Nat]
         /\ Poll => bounds' \in [polls : Nat, edits : Nat, faults : Nat]
         /\ Edit => bounds' \in [polls : Nat, edits : Nat, faults : Nat]
  BY DEF ApifyTypeOK, Fault, Poll, Edit

(* What an ingest does to the vault and the accounts.                      *)
LEMMA IngestOutside ==
  ASSUME ApifyTypeOK, NEW w \in Workers, Ingest(w)
  PROVE  /\ vault' = vault /\ deleting' = deleting
         /\ account' \in [Tokens -> [used : Nat, valid : BOOLEAN]]
         /\ bounds' \in [polls : Nat, edits : Nat, faults : Nat]
         /\ \/ cache' = cache
            \/ \E t \in Tokens : cache' = [cache EXCEPT ![t] = NoUsage]
            \/ \E t \in Tokens, used \in Nat \cup {None} :
                  cache' = [cache EXCEPT ![t] = [used |-> used, gen |-> vault[t].gen]]
<1>1. vault' = vault /\ deleting' = deleting
  BY DEF Ingest, CheckBudget, CheckBudgetBlindly, UseCache, AskApify, StoreUsage,
         TokenRefused, ApifySilent, NoToken, StartActor, StartRefused, Succeed,
         RunFails, RecordSpend, RecordFails, Die
<1>2. account' \in [Tokens -> [used : Nat, valid : BOOLEAN]]
  <2>1. CASE StartActor(w)
    <3>1. PICK times \in {1, 2} :
            account' = [account EXCEPT ![Best(w)].used = @ + times * ingest[w].est]
      BY <2>1 DEF StartActor, Charge
    <3>2. ingest[w].est \in Nat
      BY <2>1, Places, Largest DEF StartActor, Selected, Credits
    <3>3. account \in [Tokens -> [used : Nat, valid : BOOLEAN]]
      BY DEF ApifyTypeOK
    <3>4. times * ingest[w].est \in Nat
      BY <3>2
    <3> DEFINE charge == times * ingest[w].est
    <3>5. account' = [account EXCEPT ![Best(w)].used = @ + charge] /\ charge \in Nat
      BY <3>1, <3>4
    <3> HIDE DEF charge
    <3>6. CASE Best(w) \in Tokens
      <4>1. account[Best(w)].used + charge \in Nat
        BY <3>3, <3>5, <3>6
      <4>2. [account[Best(w)] EXCEPT !.used = @ + charge] \in [used : Nat, valid : BOOLEAN]
        BY <3>3, <3>6, <4>1
      <4>3. QED
        BY <3>3, <3>5, <3>6, <4>2
    <3>7. CASE Best(w) \notin Tokens
      <4>1. account' = account
        BY <3>3, <3>5, <3>7
      <4>2. QED
        BY <3>3, <4>1
    <3>8. QED
      BY <3>6, <3>7
  <2>2. CASE ~StartActor(w)
    <3>1. account' = account
      BY <2>2 DEF Ingest, CheckBudget, CheckBudgetBlindly, UseCache, AskApify, StoreUsage,
         TokenRefused, ApifySilent, NoToken, StartRefused, Succeed,
         RunFails, RecordSpend, RecordFails, Die
    <3>2. QED
      BY <3>1 DEF ApifyTypeOK
  <2>3. QED
    BY <2>1, <2>2
<1>3. bounds' \in [polls : Nat, edits : Nat, faults : Nat]
  <2>1. CASE CheckBudget(w) \/ ApifySilent(w) \/ RecordFails(w) \/ Die(w)
    BY <2>1, BoundsType DEF CheckBudget, ApifySilent, RecordFails, Die
  <2>2. CASE StartActor(w)
    BY <2>2, BoundsType DEF StartActor, ApifyTypeOK
  <2>3. CASE CheckBudgetBlindly(w)
    <3>1. /\ bounds \in [polls : Nat, edits : Nat, faults : Nat]
          /\ bounds.polls > 0 /\ bounds.faults > 0
          /\ bounds' = [bounds EXCEPT !.polls = @ - 1, !.faults = @ - 1]
      BY <2>3 DEF CheckBudgetBlindly, ApifyTypeOK
    <3>2. bounds.polls - 1 \in Nat /\ bounds.faults - 1 \in Nat
      BY <3>1
    <3>3. QED
      BY <3>1, <3>2
  <2>4. CASE UNCHANGED bounds
    BY <2>4 DEF ApifyTypeOK
  <2>5. QED
    BY <2>1, <2>2, <2>3, <2>4
    DEF Ingest, UseCache, AskApify, StoreUsage,
        TokenRefused, NoToken, StartRefused, Succeed, RunFails, RecordSpend
<1>4. \/ cache' = cache
      \/ \E t \in Tokens : cache' = [cache EXCEPT ![t] = NoUsage]
      \/ \E t \in Tokens, used \in Nat \cup {None} :
            cache' = [cache EXCEPT ![t] = [used |-> used, gen |-> vault[t].gen]]
  <2>1. CASE StoreUsage(w)
    <3>1. At(w, "credits") /\ ingest[w] \in Credits /\ ingest[w].left # {}
      BY <2>1, Places DEF StoreUsage, Credits
    <3>2. NextToken(w) \in Tokens /\ ingest[w].got.used \in Nat \cup {None}
      BY <3>1, LeftType DEF Credits, Usage, None
    <3>3. QED
      BY <2>1, <3>2 DEF StoreUsage
  <2>2. CASE TokenRefused(w)
    <3>1. NextToken(w) \in Tokens
      BY <2>2, LeftType DEF TokenRefused, Looking, None
    <3>2. QED
      BY <2>2, <3>1 DEF TokenRefused
  <2>3. CASE UNCHANGED cache
    BY <2>3
  <2>4. QED
    BY <2>1, <2>2, <2>3
    DEF Ingest, CheckBudget, CheckBudgetBlindly, UseCache, AskApify,
        ApifySilent, NoToken, StartActor, StartRefused, Succeed,
        RunFails, RecordSpend, RecordFails, Die
<1>5. QED
  BY <1>1, <1>2, <1>3, <1>4

LEMMA IngestType ==
  ASSUME ApifyTypeOK, NEW w \in Workers, Ingest(w)
  PROVE  ApifyTypeOK'
<1>1. cache' \in [Tokens -> Usage]
  <2>1. cache \in [Tokens -> Usage] /\ NoUsage \in Usage
    BY DEF ApifyTypeOK, NoUsage, Usage, None
  <2>2. \A t \in Tokens, used \in Nat \cup {None} : [used |-> used, gen |-> vault[t].gen] \in Usage
    BY DEF ApifyTypeOK, Usage
  <2>3. QED
    BY <2>1, <2>2, IngestOutside
<1>2. QED
  BY <1>1, IngestKinds, LedgerType, IngestOutside DEF ApifyTypeOK

LEMMA VaultType ==
  ASSUME ApifyTypeOK, NEW t \in Tokens, Vault(t)
  PROVE  ApifyTypeOK'
<1>1. NoUsage \in Usage /\ DefaultCap \in Caps \cup {DefaultCap}
  BY DEF NoUsage, Usage, None
<1>2. CASE CreateToken(t)
  <2>1. vault' \in [Tokens -> [state : {"absent", "inactive", "active"},
                              cap : Caps \cup {DefaultCap}, gen : Nat]]
    <3>1. vault' = [vault EXCEPT ![t] = [vault[t] EXCEPT !.state = "active", !.cap = DefaultCap]]
      BY <1>2 DEF CreateToken, SetToken
    <3>2. vault \in [Tokens -> [state : {"absent", "inactive", "active"},
                                cap : Caps \cup {DefaultCap}, gen : Nat]]
      BY DEF ApifyTypeOK
    <3>3. vault[t] \in [state : {"absent", "inactive", "active"},
                        cap : Caps \cup {DefaultCap}, gen : Nat]
      BY <3>2
    <3>4. [vault[t] EXCEPT !.state = "active", !.cap = DefaultCap]
            \in [state : {"absent", "inactive", "active"}, cap : Caps \cup {DefaultCap}, gen : Nat]
      BY <3>3
    <3>5. QED
      BY <3>1, <3>2, <3>4
  <2>2. QED
    BY <1>2, <2>1, BoundsType DEF CreateToken, VaultOnly, ledger, ApifyTypeOK
<1>3. CASE UpdateToken(t)
  <2>1. PICK cap \in Caps, state \in {"active", "inactive"} :
          vault' = [vault EXCEPT ![t] = [vault[t] EXCEPT !.cap = cap, !.state = state]]
    BY <1>3 DEF UpdateToken, SetToken
  <2>2. vault' \in [Tokens -> [state : {"absent", "inactive", "active"},
                              cap : Caps \cup {DefaultCap}, gen : Nat]]
    <3>1. vault \in [Tokens -> [state : {"absent", "inactive", "active"},
                                cap : Caps \cup {DefaultCap}, gen : Nat]]
      BY DEF ApifyTypeOK
    <3>2. vault[t] \in [state : {"absent", "inactive", "active"},
                        cap : Caps \cup {DefaultCap}, gen : Nat]
      BY <3>1
    <3>3. [vault[t] EXCEPT !.cap = cap, !.state = state]
            \in [state : {"absent", "inactive", "active"}, cap : Caps \cup {DefaultCap}, gen : Nat]
      BY <3>2
    <3>4. QED
      BY <2>1, <3>1, <3>3
  <2>3. QED
    BY <1>3, <2>2, BoundsType DEF UpdateToken, VaultOnly, ledger, ApifyTypeOK
<1>4. CASE DeleteToken(t)
  <2>1. vault' \in [Tokens -> [state : {"absent", "inactive", "active"},
                              cap : Caps \cup {DefaultCap}, gen : Nat]]
    <3>1. vault' = [vault EXCEPT ![t] = [vault[t] EXCEPT !.state = "absent", !.gen = @ + 1]]
      BY <1>4 DEF DeleteToken, SetToken
    <3>2. /\ vault[t] \in [state : {"absent", "inactive", "active"},
                          cap : Caps \cup {DefaultCap}, gen : Nat]
          /\ vault[t].gen + 1 \in Nat
      BY DEF ApifyTypeOK
    <3>3. [vault[t] EXCEPT !.state = "absent", !.gen = @ + 1]
            \in [state : {"absent", "inactive", "active"}, cap : Caps \cup {DefaultCap}, gen : Nat]
      BY <3>2
    <3>4. QED
      BY <3>1, <3>3 DEF ApifyTypeOK
  <2>2. QED
    BY <1>4, <2>1, BoundsType DEF DeleteToken, VaultOnly, ledger, ApifyTypeOK
<1>5. CASE Invalidate(t)
  BY <1>1, <1>5 DEF Invalidate, VaultOnly, ledger, ApifyTypeOK
<1>6. CASE Revoke(t)
  <2>1. account' \in [Tokens -> [used : Nat, valid : BOOLEAN]]
    BY <1>6 DEF Revoke, ApifyTypeOK
  <2>2. QED
    BY <1>6, <2>1, BoundsType DEF Revoke, ledger, ApifyTypeOK
<1>7. CASE Expire(t)
  BY <1>1, <1>7 DEF Expire, ledger, ApifyTypeOK
<1>8. QED
  BY <1>2, <1>3, <1>4, <1>5, <1>6, <1>7 DEF Vault

LEMMA MonthType == ASSUME ApifyTypeOK, NewMonth PROVE ApifyTypeOK'
  BY BoundsType DEF NewMonth, ApifyTypeOK

(* The call of a worker of the LLM side.                                   *)
LEMMA CallType ==
  ASSUME LlmTypeOK, NEW w \in Dispatchers, call[w] # NoCall
  PROVE  /\ call[w] \in Calls /\ call[w].n \in Nat /\ call[w].price \in {0, 1}
         /\ call[w].n * call[w].price \in Nat
<1>1. call[w] \in Calls /\ call[w].n \in Nat /\ call[w].price \in {0, 1}
  BY Largest DEF LlmTypeOK, Calls
<1>2. QED
  BY <1>1

LEMMA MakeCallType ==
  ASSUME LlmTypeOK, NEW w \in Dispatchers, MakeCall(w)
  PROVE  LlmTypeOK'
<1>1. tokens \in Nat /\ cost \in Nat /\ llmGranted \in 0 .. tokens
  BY DEF LlmTypeOK
<1>2. Count => calls' \in 0 .. MaxCalls
  BY LlmAssumption DEF Count, LlmTypeOK
<1>3. CASE ReadDaily(w)
  <2>1. PICK n \in Sizes, price \in {0, 1} :
          call' = [call EXCEPT ![w] =
                    [at |-> "monthly", n |-> n, price |-> price, day |-> day,
                     month |-> 0, refused |-> Breaches(tokens, n, DailyLimit)]]
    BY <1>3 DEF ReadDaily
  <2>2. [at |-> "monthly", n |-> n, price |-> price, day |-> day,
         month |-> 0, refused |-> Breaches(tokens, n, DailyLimit)] \in Calls
    BY LlmAssumption DEF LlmTypeOK, Calls, Breaches
  <2>3. call' \in [Dispatchers -> Calls \cup {NoCall}]
    BY <2>1, <2>2 DEF LlmTypeOK
  <2>4. QED
    BY <1>2, <1>3, <2>3 DEF ReadDaily, LlmTypeOK
<1>4. CASE ReadMonthly(w)
  <2> DEFINE refused == call[w].refused \/ Breaches(cost, call[w].n * call[w].price, MonthlyLimit)
             new == [call[w] EXCEPT !.at = "record", !.month = month, !.refused = refused]
  <2>1. call[w] \in Calls
    BY <1>4, CallType DEF ReadMonthly, NoCall
  <2>2. refused \in BOOLEAN
    BY <2>1 DEF Calls, Breaches
  <2> HIDE DEF refused
  <2>3. new \in Calls
    <3>1. month \in 0 .. MaxDays
      BY LlmAssumption DEF LlmTypeOK
    <3>2. QED
      BY <2>1, <2>2, <3>1 DEF Calls
  <2>4. call' = [call EXCEPT ![w] = new]
    BY <1>4 DEF ReadMonthly, LlmTypeOK, refused
  <2> HIDE DEF new
  <2>5. call' \in [Dispatchers -> Calls \cup {NoCall}]
    BY <2>3, <2>4 DEF LlmTypeOK
  <2>6. QED
    BY <1>4, <2>5 DEF ReadMonthly, LlmTypeOK
<1>5. CASE Record(w)
  <2>1. call[w].n \in Nat /\ call[w].n * call[w].price \in Nat
    BY <1>5, CallType DEF Record, NoCall
  <2>2. tokens' \in Nat /\ cost' \in Nat /\ llmGranted' \in 0 .. tokens'
    BY <1>1, <1>5, <2>1 DEF Record
  <2>3. QED
    BY <1>5, <2>2 DEF Record, LlmTypeOK
<1>6. CASE Meter(w)
  <2>1. PICK n \in Sizes, price \in {0, 1} : tokens' = tokens + n /\ cost' = cost + n * price
    BY <1>6 DEF Meter
  <2>2. n \in Nat /\ n * price \in Nat
    BY Largest
  <2>3. tokens' \in Nat /\ cost' \in Nat /\ llmGranted' \in 0 .. tokens'
    BY <1>1, <1>6, <2>1, <2>2 DEF Meter
  <2>4. QED
    BY <1>2, <1>6, <2>3 DEF Meter, LlmTypeOK
<1>7. CASE CallFails(w)
  BY <1>7 DEF CallFails, LlmTypeOK
<1>8. QED
  BY <1>3, <1>4, <1>5, <1>6, <1>7 DEF MakeCall

LEMMA DayType ==
  ASSUME LlmTypeOK, NewDay \/ FirstOfMonth, day \in 1 .. MaxDays, month <= day
  PROVE  LlmTypeOK'
  BY LlmAssumption DEF NewDay, FirstOfMonth, Midnight, LlmTypeOK

(* A call is never of a day to come.                                       *)
DayInv ==
    /\ month <= day
    /\ \A w \in Dispatchers : call[w] # NoCall => call[w].day <= day

LEMMA MakeCallDay ==
  ASSUME LlmTypeOK, DayInv, NEW w \in Dispatchers, MakeCall(w)
  PROVE  DayInv'
<1>1. day' = day /\ month' = month /\ day \in Nat
  BY LlmAssumption
  DEF MakeCall, ReadDaily, ReadMonthly, Record, Meter, CallFails, LlmTypeOK
<1>2. ASSUME NEW v \in Dispatchers, call'[v] # NoCall PROVE call'[v].day <= day
  <2>1. CASE v # w \/ call' = call
    <3>1. call'[v] = call[v]
      BY <2>1 DEF MakeCall, ReadDaily, ReadMonthly, Record, Meter, CallFails, LlmTypeOK
    <3>2. QED
      BY <1>2, <3>1 DEF DayInv
  <2>2. CASE v = w /\ ReadDaily(w)
    BY <1>1, <2>2 DEF ReadDaily, LlmTypeOK
  <2>3. CASE v = w /\ ReadMonthly(w)
    <3>1. call[w] # NoCall
      BY <2>3 DEF ReadMonthly, NoCall
    <3>2. call[w] \in Calls
      BY <3>1, CallType
    <3>3. call'[w].day = call[w].day
      BY <2>3, <3>2 DEF ReadMonthly, LlmTypeOK, Calls
    <3>4. QED
      BY <2>3, <3>1, <3>3 DEF DayInv
  <2>4. CASE v = w /\ (Record(w) \/ CallFails(w))
    BY <1>2, <2>4 DEF Record, CallFails, LlmTypeOK
  <2>5. QED
    BY <2>1, <2>2, <2>3, <2>4 DEF MakeCall, Meter
<1>3. QED
  BY <1>1, <1>2 DEF DayInv

-----------------------------------------------------------------------------
(* What is owed: the units of every estimate whose actor has been started  *)
(* and whose cost is not recorded.                                         *)
Owed == {u \in UnderWay \X (1 .. MaxEstimate) : u[2] <= ingest[u[1]].est}
Share(w) == {w} \X (1 .. ingest[w].est)

(* What Apify has billed is what was recorded, what is owed, and what has  *)
(* slipped away, at most one estimate each time.                           *)
OwedInv ==
    /\ bill.recorded + Cardinality(Owed) <= bill.started
    /\ bill.started <= bill.recorded + Cardinality(Owed) + bill.slips * MaxEstimate

LEMMA UnderWayIsActors ==
  ASSUME ApifyTypeOK
  PROVE  UnderWay = {w \in Workers : ingest[w] \in Actors}
  BY DEF ApifyTypeOK, UnderWay, NoRun, Credits, Actors

LEMMA OwedIsFinite ==
  /\ IsFiniteSet(UnderWay) /\ Cardinality(UnderWay) \in Nat
  /\ IsFiniteSet(Owed) /\ Cardinality(Owed) \in Nat
  /\ Cardinality(Owed) <= Cardinality(UnderWay) * MaxEstimate
<1>1. IsFiniteSet(UnderWay)
  BY ApifyAssumption, FS_Subset DEF UnderWay
<1>2. IsFiniteSet(1 .. MaxEstimate) /\ Cardinality(1 .. MaxEstimate) = MaxEstimate
  BY Largest, FS_Interval
<1>3. /\ IsFiniteSet(UnderWay \X (1 .. MaxEstimate))
      /\ Cardinality(UnderWay \X (1 .. MaxEstimate)) = Cardinality(UnderWay) * MaxEstimate
  BY <1>1, <1>2, FS_Product
<1>4. Owed \in SUBSET (UnderWay \X (1 .. MaxEstimate))
  BY DEF Owed
<1>5. QED
  BY <1>1, <1>3, <1>4, FS_Subset, FS_CardinalityType

LEMMA ShareSize ==
  ASSUME ApifyTypeOK, NEW w \in Workers, ingest[w] \in Credits \cup Actors
  PROVE  /\ IsFiniteSet(Share(w)) /\ Cardinality(Share(w)) = ingest[w].est
         /\ ingest[w].est \in Nat /\ ingest[w].est \in 1 .. MaxEstimate
<1>1. ingest[w].est \in Nat /\ ingest[w].est \in 1 .. MaxEstimate
  BY Largest DEF Credits, Actors
<1> DEFINE e == ingest[w].est
<1>2. IsFiniteSet(1 .. e) /\ Cardinality(1 .. e) = e
  <2>1. e \in Nat /\ e >= 1 /\ 1 \in Int /\ e \in Int
    BY <1>1, Largest
  <2> HIDE DEF e
  <2>2. Cardinality(1 .. e) = IF 1 > e THEN 0 ELSE e - 1 + 1
    BY <2>1, FS_Interval
  <2>3. QED
    BY <2>1, <2>2, FS_Interval
<1>3. IsFiniteSet({w}) /\ Cardinality({w}) = 1
  BY FS_Singleton
<1>4. QED
  BY <1>1, <1>2, <1>3, FS_Product DEF Share

(* An actor that starts makes its worker owe the estimate.                 *)
LEMMA OwedGrows ==
  ASSUME ApifyTypeOK, NEW w \in Workers, ingest[w] \notin Actors,
         NEW x \in Actors, Becomes(w, x), ingest[w] \in Credits, x.est = ingest[w].est,
         ApifyTypeOK'
  PROVE  Cardinality(Owed') = Cardinality(Owed) + ingest[w].est
<1>1. w \notin UnderWay /\ UnderWay' = UnderWay \cup {w}
  BY UnderWayIsActors DEF Becomes, ApifyTypeOK, UnderWay, Credits, Actors, NoRun
<1>2. \A v \in UnderWay : ingest'[v] = ingest[v]
  BY <1>1 DEF Becomes, ApifyTypeOK, UnderWay
<1>3. ingest'[w] = x
  BY DEF Becomes, ApifyTypeOK
<1>4. ingest[w].est \in 1 .. MaxEstimate /\ MaxEstimate \in Nat
  BY ShareSize, Largest
<1>5. Owed' = Owed \cup Share(w)
  <2>1. ASSUME NEW u PROVE u \in Owed' <=> u \in Owed \cup Share(w)
    <3>1. CASE u \in {w} \X Nat
      BY <1>1, <1>3, <1>4, <3>1 DEF Owed, Share
    <3>2. CASE u \notin {w} \X Nat
      BY <1>1, <1>2, <1>4, <3>2 DEF Owed, Share
    <3>3. QED
      BY <3>1, <3>2
  <2>2. QED
    BY <2>1
<1>6. Owed \cap Share(w) = {}
  BY <1>1 DEF Owed, Share
<1>7. /\ IsFiniteSet(Owed) /\ IsFiniteSet(Share(w)) /\ Cardinality(Owed) \in Nat
      /\ Cardinality(Share(w)) = ingest[w].est /\ ingest[w].est \in Nat
  BY OwedIsFinite, ShareSize
<1>8. Cardinality(Owed \cup Share(w)) = Cardinality(Owed) + Cardinality(Share(w)) - Cardinality({})
  <2> DEFINE A == Owed
             B == Share(w)
  <2>1. IsFiniteSet(A) /\ IsFiniteSet(B) /\ A \cap B = {}
    BY <1>6, <1>7
  <2> HIDE DEF A, B
  <2>2. Cardinality(A \cup B) = Cardinality(A) + Cardinality(B) - Cardinality({})
    BY <2>1, FS_Union
  <2>3. QED
    BY <2>2 DEF A, B
<1>9. QED
  BY <1>5, <1>7, <1>8, FS_EmptySet

(* A worker whose actor is over does not owe any more.                     *)
LEMMA OwedShrinks ==
  ASSUME ApifyTypeOK, NEW w \in Workers, ingest[w] \in Actors, Becomes(w, NoRun)
  PROVE  Cardinality(Owed') = Cardinality(Owed) - ingest[w].est
<1>1. w \in UnderWay /\ UnderWay' = UnderWay \ {w}
  BY DEF Becomes, ApifyTypeOK, UnderWay, Actors, NoRun
<1>2. \A v \in UnderWay : v # w => ingest'[v] = ingest[v]
  BY <1>1 DEF Becomes, ApifyTypeOK, UnderWay
<1>3. ingest[w].est \in 1 .. MaxEstimate /\ MaxEstimate \in Nat
  BY ShareSize, Largest
<1>4. Share(w) \subseteq Owed
  BY <1>1, <1>3 DEF Owed, Share
<1>5. Owed' = Owed \ Share(w)
  <2>1. ASSUME NEW u PROVE u \in Owed' <=> u \in Owed \ Share(w)
    <3>1. CASE u \in {w} \X Nat
      BY <1>1, <1>3, <3>1 DEF Owed, Share
    <3>2. CASE u \notin {w} \X Nat
      BY <1>1, <1>2, <1>3, <3>2 DEF Owed, Share
    <3>3. QED
      BY <3>1, <3>2
  <2>2. QED
    BY <2>1
<1>6. Owed \cap Share(w) = Share(w)
  BY <1>4
<1>7. /\ IsFiniteSet(Owed) /\ Cardinality(Owed) \in Nat
      /\ Cardinality(Share(w)) = ingest[w].est /\ ingest[w].est \in Nat
  BY OwedIsFinite, ShareSize
<1>8. Cardinality(Owed \ Share(w)) = Cardinality(Owed) - Cardinality(Share(w))
  <2> DEFINE A == Owed
             B == Share(w)
  <2>1. IsFiniteSet(A) /\ A \cap B = B
    BY <1>6, <1>7
  <2> HIDE DEF A, B
  <2>2. Cardinality(A \ B) = Cardinality(A) - Cardinality(B)
    BY <2>1, FS_Difference
  <2>3. QED
    BY <2>2 DEF A, B
<1>9. QED
  BY <1>5, <1>7, <1>8

(* The estimates of the actors that are under way decide.                  *)
LEMMA OwedStays ==
  ASSUME ApifyTypeOK, NEW w \in Workers, NEW x, Becomes(w, x),
         \/ ingest[w] \notin Actors /\ x \notin Actors
         \/ ingest[w] \in Actors /\ x \in Actors /\ x.est = ingest[w].est,
         x \in {NoRun} \cup Credits \cup Actors
  PROVE  Owed' = Owed
<1>1. UnderWay' = UnderWay
  BY DEF Becomes, ApifyTypeOK, UnderWay, Credits, Actors, NoRun
<1>2. \A v \in UnderWay : ingest'[v].est = ingest[v].est
  BY <1>1 DEF Becomes, ApifyTypeOK, UnderWay, Credits, Actors, NoRun
<1>3. QED
  BY <1>1, <1>2 DEF Owed

LEMMA OwedStep ==
  ASSUME ApifyTypeOK, OwedInv, NEW w \in Workers, Kinds(w), ApifyTypeOK'
  PROVE  OwedInv'
<1>1. /\ bill.started \in Nat /\ bill.recorded \in Nat /\ bill.slips \in Nat
      /\ bill \in [started : Nat, recorded : Nat, slips : Nat]
      /\ Cardinality(Owed) \in Nat /\ MaxEstimate \in Nat /\ bill.slips * MaxEstimate \in Nat
  BY Largest, OwedIsFinite DEF ApifyTypeOK
<1>2. ingest[w] \in Credits \cup Actors =>
        ingest[w].est \in Nat /\ ingest[w].est >= 1 /\ ingest[w].est <= MaxEstimate
  BY ShareSize, Largest
<1>3. Credits \cap Actors = {} /\ NoRun \notin Credits \cup Actors
  BY DEF Credits, Actors, NoRun
<1>4. CASE Admits(w) \/ AdmitsBlindly(w) \/ Looks(w) \/ GivesUp(w) \/ Succeeds(w)
  <2>1. Owed' = Owed
    BY <1>3, <1>4, OwedStays DEF Admits, AdmitsBlindly, Looks, GivesUp, Succeeds
  <2>2. bill' = bill
    BY <1>4 DEF Admits, AdmitsBlindly, Looks, GivesUp, Succeeds, SameBill
  <2>3. QED
    BY <2>1, <2>2 DEF OwedInv
<1>5. CASE Starts(w)
  <2> DEFINE e == ingest[w].est
  <2>1. PICK times \in {1, 2} :
          bill' = [bill EXCEPT !.started = @ + times * e, !.slips = @ + times - 1]
    BY <1>5 DEF Starts
  <2>2. Cardinality(Owed') = Cardinality(Owed) + e
    BY <1>3, <1>5, OwedGrows DEF Starts
  <2>3. e \in Nat /\ e <= MaxEstimate
    BY <1>2, <1>5 DEF Starts
  <2> HIDE DEF e
  <2>4. CASE times = 1
    <3>1. bill'.recorded = bill.recorded /\ bill'.started = bill.started + e /\ bill'.slips = bill.slips
      BY <1>1, <2>1, <2>3, <2>4
    <3>2. QED
      BY <1>1, <2>2, <2>3, <3>1 DEF OwedInv
  <2>5. CASE times = 2
    <3>1. bill'.recorded = bill.recorded /\ bill'.started = bill.started + 2 * e
          /\ bill'.slips = bill.slips + 1
      BY <1>1, <2>1, <2>3, <2>5
    <3>2. bill'.slips * MaxEstimate = bill.slips * MaxEstimate + MaxEstimate
      BY <1>1, <3>1
    <3>3. QED
      BY <1>1, <2>2, <2>3, <3>1, <3>2 DEF OwedInv
  <2>6. QED
    BY <2>4, <2>5
<1>6. CASE Records(w)
  <2>1. Cardinality(Owed') = Cardinality(Owed) - ingest[w].est
    BY <1>6, OwedShrinks DEF Records
  <2>2. bill'.recorded = bill.recorded + ingest[w].est /\ bill'.started = bill.started
        /\ bill'.slips = bill.slips
    BY <1>1, <1>6 DEF Records
  <2>3. QED
    BY <1>1, <1>2, <1>6, <2>1, <2>2 DEF OwedInv, Records
<1>7. CASE Slips(w)
  <2>1. Cardinality(Owed') = Cardinality(Owed) - ingest[w].est
    BY <1>7, OwedShrinks DEF Slips
  <2>2. bill'.recorded = bill.recorded /\ bill'.started = bill.started
        /\ bill'.slips = bill.slips + 1
    BY <1>1, <1>7 DEF Slips
  <2>3. bill'.slips * MaxEstimate = bill.slips * MaxEstimate + MaxEstimate
    BY <1>1, <2>2
  <2>4. QED
    BY <1>1, <1>2, <1>7, <2>1, <2>2, <2>3 DEF OwedInv, Slips
<1>8. QED
  BY <1>4, <1>5, <1>6, <1>7 DEF Kinds

-----------------------------------------------------------------------------
(* The guards.                                                             *)

Pending == {w \in Workers : ingest[w] # NoRun}

LEMMA PendingStep ==
  ASSUME ApifyTypeOK, NEW w \in Workers, NEW x, Becomes(w, x)
  PROVE  /\ ingest[w] = NoRun /\ x # NoRun => w \notin Pending /\ Pending' = Pending \cup {w}
         /\ ingest[w] # NoRun /\ x = NoRun => w \in Pending /\ Pending' = Pending \ {w}
         /\ ingest[w] # NoRun /\ x # NoRun => Pending' = Pending
  BY DEF ApifyTypeOK, Becomes, Pending

LEMMA NoRunIsNone == NoRun \notin Credits \cup Actors
  BY DEF NoRun, Credits, Actors

(* Every kind of step is one of the guard, or does not concern it.         *)
LEMMA MonthlyStep ==
  ASSUME ApifyTypeOK, NEW w \in Workers, Kinds(w)
  PROVE  [Monthly!Next]_(Monthly!vars)
<1> USE NoRunIsNone
<1>1. CASE Admits(w)
  <2>1. PICK x \in Credits : Becomes(w, x) /\ spent + x.est <= Budget
    BY <1>1 DEF Admits
  <2>2. w \notin Pending /\ Pending' = Pending \cup {w}
    BY <1>1, <2>1, PendingStep DEF Admits
  <2>3. x.est \in 1 .. MaxEstimate
    BY Largest DEF Credits
  <2>4. Monthly!Admit(w)
    BY <1>1, <2>1, <2>2, <2>3 DEF Admits, SameLedger, Monthly!Admit, Pending
  <2>5. QED
    BY <2>4 DEF Monthly!Next
<1>2. CASE AdmitsBlindly(w)
  <2>1. w \notin Pending /\ Pending' = Pending \cup {w}
    BY <1>2, PendingStep DEF AdmitsBlindly
  <2>2. Monthly!AdmitBlindly(w)
    BY <1>2, <2>1 DEF AdmitsBlindly, Monthly!AdmitBlindly, Pending
  <2>3. QED
    BY <2>2 DEF Monthly!Next
<1>3. CASE Looks(w) \/ Starts(w) \/ Succeeds(w)
  <2>1. Pending' = Pending
    BY <1>3, PendingStep DEF Looks, Starts, Succeeds
  <2>2. UNCHANGED <<spent, apifyGranted, blind>>
    BY <1>3 DEF Looks, Starts, Succeeds, SameLedger
  <2>3. QED
    BY <2>1, <2>2 DEF Monthly!vars, Pending
<1>4. CASE GivesUp(w) \/ Slips(w)
  <2>1. w \in Pending /\ Pending' = Pending \ {w}
    BY <1>4, PendingStep DEF GivesUp, Slips
  <2>2. UNCHANGED <<spent, apifyGranted, blind>>
    BY <1>4 DEF GivesUp, Slips, SameLedger
  <2>3. Monthly!Drop(w)
    BY <2>1, <2>2 DEF Monthly!Drop, Pending
  <2>4. QED
    BY <2>3 DEF Monthly!Next
<1>5. CASE Records(w)
  <2>1. w \in Pending /\ Pending' = Pending \ {w}
    BY <1>5, PendingStep DEF Records
  <2>2. ingest[w].est \in 1 .. MaxEstimate
    BY <1>5, ShareSize DEF Records
  <2>3. Monthly!Settle(w)
    BY <1>5, <2>1, <2>2 DEF Records, Monthly!Settle, Pending
  <2>4. QED
    BY <2>3 DEF Monthly!Next
<1>6. QED
  BY <1>1, <1>2, <1>3, <1>4, <1>5 DEF Kinds

LEMMA MonthlyReset ==
  ASSUME NewMonth
  PROVE  Monthly!Next
<1>1. Monthly!Reset
  BY DEF NewMonth, Monthly!Reset
<1>2. QED
  BY <1>1 DEF Monthly!Next

LEMMA PassedStep ==
  ASSUME LlmTypeOK, NEW w \in Dispatchers, NEW c, call' = [call EXCEPT ![w] = c], day' = day
  PROVE  Passed' = IF c # NoCall /\ c.day = day /\ ~c.refused
                   THEN Passed \cup {w} ELSE Passed \ {w}
  BY DEF LlmTypeOK, Passed

(* A call that is checked against a limit other than 0 is one that the     *)
(* daily guard admits, or one that it refuses and counts.                  *)
LEMMA DailyStep ==
  ASSUME LlmTypeOK, NEW w \in Dispatchers, MakeCall(w), DailyLimit # 0
  PROVE  [Daily!Next]_(Daily!vars)
<1>1. CASE ReadDaily(w)
  <2>1. PICK n \in Sizes, price \in {0, 1} :
          call' = [call EXCEPT ![w] =
                    [at |-> "monthly", n |-> n, price |-> price, day |-> day,
                     month |-> 0, refused |-> Breaches(tokens, n, DailyLimit)]]
    BY <1>1 DEF ReadDaily
  <2> DEFINE c == [at |-> "monthly", n |-> n, price |-> price, day |-> day,
                   month |-> 0, refused |-> Breaches(tokens, n, DailyLimit)]
  <2>2. c # NoCall /\ c.day = day /\ c.refused = Breaches(tokens, n, DailyLimit)
    BY DEF NoCall
  <2>3. w \notin Passed /\ UNCHANGED <<tokens, llmGranted, day>>
    BY <1>1 DEF ReadDaily, Passed
  <2>4. call' = [call EXCEPT ![w] = c] /\ day' = day
    BY <2>1, <2>3
  <2> HIDE DEF c
  <2>5. CASE Breaches(tokens, n, DailyLimit)
    <3>1. Passed' = Passed \ {w}
      BY <2>2, <2>3, <2>4, <2>5, PassedStep
    <3>2. Passed \ {w} = Passed
      BY <2>3
    <3>3. QED
      BY <2>3, <3>1, <3>2 DEF Daily!vars
  <2>6. CASE ~Breaches(tokens, n, DailyLimit)
    <3>1. Passed' = Passed \cup {w}
      BY <2>2, <2>3, <2>4, <2>6, PassedStep
    <3>2. tokens + n <= DailyLimit /\ n \in 1 .. MaxSize
      <4>1. tokens \in Nat
        BY DEF LlmTypeOK
      <4>2. DailyLimit \in Int
        BY LlmAssumption
      <4>3. n \in 1 .. MaxSize /\ MaxSize \in Nat
        BY Largest
      <4>4. QED
        BY <2>6, <4>1, <4>2, <4>3 DEF Breaches
    <3>3. Daily!Admit(w)
      BY <2>3, <3>1, <3>2 DEF Daily!Admit
    <3>4. QED
      BY <3>3 DEF Daily!Next
  <2>7. QED
    BY <2>5, <2>6
<1>2. CASE ReadMonthly(w)
  <2> DEFINE c == [call[w] EXCEPT !.at = "record", !.month = month,
                     !.refused = @ \/ Breaches(cost, call[w].n * call[w].price, MonthlyLimit)]
  <2>1. call[w] \in Calls /\ call[w] # NoCall
    BY <1>2, CallType DEF ReadMonthly, NoCall
  <2>2. /\ c # NoCall /\ c.day = call[w].day
        /\ c.refused = (call[w].refused \/ Breaches(cost, call[w].n * call[w].price, MonthlyLimit))
    BY <2>1 DEF NoCall, Calls
  <2>3. call' = [call EXCEPT ![w] = c] /\ UNCHANGED <<tokens, llmGranted, day>>
    BY <1>2 DEF ReadMonthly, LlmTypeOK
  <2> HIDE DEF c
  <2>4. Passed' = Passed \/ (w \in Passed /\ Passed' = Passed \ {w})
    BY <2>1, <2>2, <2>3, PassedStep DEF Passed
  <2>5. CASE Passed' = Passed
    BY <2>3, <2>5 DEF Daily!vars
  <2>6. CASE w \in Passed /\ Passed' = Passed \ {w}
    <3>1. Daily!Drop(w)
      BY <2>3, <2>6 DEF Daily!Drop
    <3>2. QED
      BY <3>1 DEF Daily!Next, Passed
  <2>7. QED
    BY <2>4, <2>5, <2>6
<1>3. CASE Record(w)
  <2>1. call[w] \in Calls /\ call[w] # NoCall /\ call[w].n \in 1 .. MaxSize
    BY <1>3, CallType, Largest DEF Record, NoCall, Calls
  <2>2. Passed' = Passed \ {w}
    BY <1>3, PassedStep DEF Record
  <2>3. CASE call[w].day = day /\ ~call[w].refused
    <3>1. w \in Passed
      BY <2>1, <2>3 DEF Passed
    <3>2. tokens' = tokens + call[w].n /\ llmGranted' = llmGranted + call[w].n
      BY <1>3, <2>3 DEF Record
    <3>3. Daily!Settle(w)
      BY <2>1, <2>2, <3>1, <3>2 DEF Daily!Settle
    <3>4. QED
      BY <3>3 DEF Daily!Next
  <2>4. CASE call[w].day = day /\ call[w].refused
    <3>1. Passed' = Passed
      BY <2>2, <2>4 DEF Passed
    <3>2. tokens' = tokens + call[w].n /\ llmGranted' = llmGranted
      BY <1>3, <2>4 DEF Record, LlmTypeOK
    <3>3. Daily!Meter
      BY <2>1, <3>1, <3>2 DEF Daily!Meter
    <3>4. QED
      BY <3>3 DEF Daily!Next
  <2>5. CASE call[w].day # day
    <3>1. Passed' = Passed
      BY <2>2, <2>5 DEF Passed
    <3>2. tokens' = tokens /\ llmGranted' = llmGranted
      BY <1>3, <2>5 DEF Record, LlmTypeOK
    <3>3. QED
      BY <3>1, <3>2 DEF Daily!vars
  <2>6. QED
    BY <2>3, <2>4, <2>5
<1>4. CASE Meter(w)
  <2>1. \E n \in 1 .. MaxSize : tokens' = tokens + n
    BY <1>4, Largest DEF Meter
  <2>2. Passed' = Passed /\ llmGranted' = llmGranted
    BY <1>4 DEF Meter, Passed
  <2>3. Daily!Meter
    BY <2>1, <2>2 DEF Daily!Meter
  <2>4. QED
    BY <2>3 DEF Daily!Next
<1>5. CASE CallFails(w)
  <2>1. Passed' = Passed \ {w} /\ UNCHANGED <<tokens, llmGranted>>
    BY <1>5, PassedStep DEF CallFails
  <2>2. CASE w \in Passed
    <3>1. Daily!Drop(w)
      BY <2>1, <2>2 DEF Daily!Drop
    <3>2. QED
      BY <3>1 DEF Daily!Next, Passed
  <2>3. CASE w \notin Passed
    <3>1. Passed' = Passed
      BY <2>1, <2>3
    <3>2. QED
      BY <2>1, <3>1 DEF Daily!vars
  <2>4. QED
    BY <2>2, <2>3
<1>6. QED
  BY <1>1, <1>2, <1>3, <1>4, <1>5 DEF MakeCall

(* At midnight no call is of the new day.                                  *)
LEMMA DailyReset ==
  ASSUME LlmTypeOK, DayInv, NewDay \/ FirstOfMonth
  PROVE  Daily!Next
<1>1. day \in Nat /\ day' = day + 1 /\ call' = call /\ tokens' = 0 /\ llmGranted' = 0
  BY LlmAssumption DEF NewDay, FirstOfMonth, Midnight, LlmTypeOK
<1>2. ASSUME NEW v \in Dispatchers, call[v] # NoCall PROVE call[v].day # day + 1
  <2>1. call[v].day \in Nat /\ call[v].day <= day
    BY <1>2, CallType, LlmAssumption DEF DayInv, Calls
  <2>2. QED
    BY <1>1, <2>1
<1>3. Passed' \subseteq Passed
  BY <1>1, <1>2 DEF Passed
<1>4. Daily!Reset
  BY <1>1, <1>3 DEF Daily!Reset
<1>5. QED
  BY <1>4 DEF Daily!Next

-----------------------------------------------------------------------------
(* The inductive invariant of both sides together.                         *)
SpendInv == TypeOK /\ DayInv /\ OwedInv /\ DeletedTokenIsForgotten

LEMMA InitInv == Init => SpendInv
<1> SUFFICES ASSUME Init PROVE SpendInv
  OBVIOUS
<1>1. ApifyTypeOK
  <2>1. NoUsage \in Usage
    BY DEF NoUsage, Usage, None
  <2>2. vault \in [Tokens -> [state : {"absent", "inactive", "active"},
                             cap : Caps \cup {DefaultCap}, gen : Nat]]
    BY DEF Init, ApifyInit
  <2>3. bounds \in [polls : Nat, edits : Nat, faults : Nat]
    BY ApifyAssumption DEF Init, ApifyInit
  <2>4. QED
    BY <2>1, <2>2, <2>3 DEF Init, ApifyInit, ApifyTypeOK
<1>2. LlmTypeOK /\ DayInv
  <2>1. 1 \in 1 .. MaxDays /\ calls \in 0 .. MaxCalls
    BY LlmAssumption DEF Init, LlmInit
  <2>2. QED
    BY <2>1 DEF Init, LlmInit, LlmTypeOK, DayInv
<1>3. OwedInv
  <2>1. UnderWay = {}
    BY DEF Init, ApifyInit, UnderWay, NoRun
  <2>2. Cardinality(Owed) = 0
    BY <2>1, FS_EmptySet DEF Owed
  <2>3. 0 * MaxEstimate = 0
    BY Largest
  <2>4. QED
    BY <2>2, <2>3 DEF Init, ApifyInit, OwedInv
<1>4. DeletedTokenIsForgotten
  BY DEF Init, ApifyInit, DeletedTokenIsForgotten
<1>5. QED
  BY <1>1, <1>2, <1>3, <1>4 DEF SpendInv, TypeOK

(* A usage is stored with the generation that the token's row has then,    *)
(* and a delete announces that it will be dropped.                         *)
LEMMA TokenStep ==
  ASSUME ApifyTypeOK, DeletedTokenIsForgotten,
         \/ \E w \in Workers : Ingest(w)
         \/ \E t \in Tokens : Vault(t)
         \/ NewMonth
  PROVE  DeletedTokenIsForgotten'
<1>1. cache \in [Tokens -> Usage] /\ deleting \in SUBSET Tokens
  BY DEF ApifyTypeOK
<1>2. /\ vault \in [Tokens -> [state : {"absent", "inactive", "active"},
                            cap : Caps \cup {DefaultCap}, gen : Nat]]
  BY DEF ApifyTypeOK
<1>3. ASSUME NEW w \in Workers, Ingest(w) PROVE DeletedTokenIsForgotten'
  BY <1>1, <1>2, <1>3, IngestOutside DEF DeletedTokenIsForgotten
<1>4. ASSUME NEW t \in Tokens, Vault(t) PROVE DeletedTokenIsForgotten'
  <2>1. CASE CreateToken(t)
    BY <1>1, <1>2, <2>1 DEF CreateToken, SetToken, DeletedTokenIsForgotten
  <2>2. CASE UpdateToken(t)
    BY <1>1, <1>2, <2>2 DEF UpdateToken, SetToken, DeletedTokenIsForgotten
  <2>3. CASE DeleteToken(t)
    BY <1>1, <1>2, <2>3 DEF DeleteToken, SetToken, DeletedTokenIsForgotten
  <2>4. CASE Invalidate(t)
    BY <1>1, <1>2, <2>4 DEF Invalidate, DeletedTokenIsForgotten
  <2>5. CASE Revoke(t)
    BY <2>5 DEF Revoke, DeletedTokenIsForgotten
  <2>6. CASE Expire(t)
    BY <1>1, <2>6 DEF Expire, DeletedTokenIsForgotten
  <2>7. QED
    BY <1>4, <2>1, <2>2, <2>3, <2>4, <2>5, <2>6 DEF Vault
<1>5. CASE NewMonth
  BY <1>5 DEF NewMonth, DeletedTokenIsForgotten
<1>6. QED
  BY <1>3, <1>4, <1>5

(* Steps that leave the Apify side alone, and steps that leave the LLM     *)
(* side alone.                                                             *)
LEMMA ApifyUnchanged ==
  ASSUME UNCHANGED apifyVars, ApifyTypeOK, OwedInv, DeletedTokenIsForgotten
  PROVE  ApifyTypeOK' /\ OwedInv' /\ DeletedTokenIsForgotten'
  BY DEF apifyVars, ApifyTypeOK, OwedInv, Owed, UnderWay, DeletedTokenIsForgotten

LEMMA LlmUnchanged ==
  ASSUME UNCHANGED llmVars, LlmTypeOK, DayInv
  PROVE  LlmTypeOK' /\ DayInv'
  BY DEF llmVars, LlmTypeOK, DayInv

(* Steps of the vault and of the calendar do not touch what is owed.       *)
LEMMA OwedUnchanged ==
  ASSUME OwedInv, \/ \E t \in Tokens : Vault(t)
                  \/ NewMonth
  PROVE  OwedInv'
<1>1. bill' = bill /\ ingest' = ingest
  BY DEF Vault, CreateToken, UpdateToken, DeleteToken, Invalidate, Revoke, Expire,
         VaultOnly, NewMonth
<1>2. Owed' = Owed
  BY <1>1 DEF Owed, UnderWay
<1>3. QED
  BY <1>1, <1>2 DEF OwedInv

LEMMA CalendarStep ==
  ASSUME LlmTypeOK, DayInv, NewDay \/ FirstOfMonth
  PROVE  LlmTypeOK' /\ DayInv'
<1>1. day \in 1 .. MaxDays /\ month \in Nat /\ day \in Nat /\ day' = day + 1 /\ call' = call
  BY LlmAssumption DEF NewDay, FirstOfMonth, Midnight, LlmTypeOK
<1>2. month' <= day'
  BY <1>1 DEF NewDay, FirstOfMonth, DayInv
<1>3. ASSUME NEW v \in Dispatchers, call'[v] # NoCall PROVE call'[v].day <= day'
  <2>1. call[v].day \in Nat /\ call[v].day <= day
    BY <1>1, <1>3, CallType, LlmAssumption DEF DayInv, Calls
  <2>2. QED
    BY <1>1, <2>1
<1>4. QED
  BY <1>1, <1>2, <1>3, DayType DEF DayInv

(* A step keeps the invariant, and is one of both guards.                  *)
LEMMA StepInv ==
  ASSUME SpendInv, [Next]_vars
  PROVE  /\ SpendInv'
         /\ [Monthly!Next]_(Monthly!vars)
         /\ DailyLimit # 0 => [Daily!Next]_(Daily!vars)
<1>1. ApifyTypeOK /\ LlmTypeOK /\ DayInv /\ OwedInv /\ DeletedTokenIsForgotten
  BY DEF SpendInv, TypeOK
<1>2. UNCHANGED apifyVars => UNCHANGED Monthly!vars
  BY DEF apifyVars, Monthly!vars
<1>3. UNCHANGED llmVars => UNCHANGED Daily!vars
  BY DEF llmVars, Daily!vars, Passed
<1>4. ASSUME NEW w \in Workers, Ingest(w), UNCHANGED llmVars
      PROVE  SpendInv' /\ [Monthly!Next]_(Monthly!vars) /\ UNCHANGED Daily!vars
  <2>1. Kinds(w) /\ ApifyTypeOK'
    BY <1>1, <1>4, IngestKinds, IngestType
  <2>2. OwedInv' /\ DeletedTokenIsForgotten' /\ LlmTypeOK' /\ DayInv'
    BY <1>1, <1>4, <2>1, OwedStep, TokenStep, LlmUnchanged
  <2>3. QED
    BY <1>1, <1>3, <1>4, <2>1, <2>2, MonthlyStep DEF SpendInv, TypeOK
<1>5. ASSUME NEW t \in Tokens, Vault(t), UNCHANGED llmVars
      PROVE  SpendInv' /\ UNCHANGED Monthly!vars /\ UNCHANGED Daily!vars
  <2>1. ApifyTypeOK' /\ OwedInv' /\ DeletedTokenIsForgotten' /\ LlmTypeOK' /\ DayInv'
    BY <1>1, <1>5, VaultType, OwedUnchanged, TokenStep, LlmUnchanged
  <2>2. UNCHANGED <<spent, apifyGranted, blind, ingest>>
    BY <1>5 DEF Vault, CreateToken, UpdateToken, DeleteToken, Invalidate, Revoke, Expire,
                VaultOnly, ledger
  <2>3. UNCHANGED Monthly!vars
    BY <2>2 DEF Monthly!vars
  <2>4. QED
    BY <1>3, <1>5, <2>1, <2>3 DEF SpendInv, TypeOK
<1>6. ASSUME NEW w \in Workers, NEW d \in Slots(w), MakeCall(d), UNCHANGED apifyVars
      PROVE  SpendInv' /\ UNCHANGED Monthly!vars
             /\ (DailyLimit # 0 => [Daily!Next]_(Daily!vars))
  <2>1. d \in Dispatchers
    BY OrgSpendAssumption DEF Slots
  <2>2. ApifyTypeOK' /\ OwedInv' /\ DeletedTokenIsForgotten' /\ LlmTypeOK' /\ DayInv'
    BY <1>1, <1>6, <2>1, ApifyUnchanged, MakeCallType, MakeCallDay
  <2>3. DailyLimit # 0 => [Daily!Next]_(Daily!vars)
    BY <1>1, <1>6, <2>1, DailyStep
  <2>4. QED
    BY <1>2, <1>6, <2>2, <2>3 DEF SpendInv, TypeOK
<1>7. ASSUME NewDay, UNCHANGED apifyVars
      PROVE  SpendInv' /\ UNCHANGED Monthly!vars /\ Daily!Next
  <2>1. ApifyTypeOK' /\ OwedInv' /\ DeletedTokenIsForgotten' /\ LlmTypeOK' /\ DayInv'
    BY <1>1, <1>7, ApifyUnchanged, CalendarStep
  <2>2. QED
    BY <1>1, <1>2, <1>7, <2>1, DailyReset DEF SpendInv, TypeOK
<1>8. ASSUME NewMonth, FirstOfMonth
      PROVE  SpendInv' /\ Monthly!Next /\ Daily!Next
  <2>1. ApifyTypeOK' /\ OwedInv' /\ DeletedTokenIsForgotten' /\ LlmTypeOK' /\ DayInv'
    BY <1>1, <1>8, MonthType, OwedUnchanged, TokenStep, CalendarStep
  <2>2. QED
    BY <1>1, <1>8, <2>1, MonthlyReset, DailyReset DEF SpendInv, TypeOK
<1>9. ASSUME UNCHANGED vars
      PROVE  SpendInv' /\ UNCHANGED Monthly!vars /\ UNCHANGED Daily!vars
  <2>1. UNCHANGED apifyVars /\ UNCHANGED llmVars
    BY <1>9 DEF vars
  <2>2. QED
    BY <1>1, <1>2, <1>3, <2>1, ApifyUnchanged, LlmUnchanged DEF SpendInv, TypeOK
<1>10. QED
  BY <1>4, <1>5, <1>6, <1>7, <1>8, <1>9 DEF Next

-----------------------------------------------------------------------------
(* Every variable of the spending model has its type in every reachable    *)
(* state: no token's remaining credit is ever below 0                      *)
(* (fetch_credit_summary).                                                 *)
THEOREM TypeCorrect == Spec => []TypeOK
<1>1. SpendInv => TypeOK
  BY DEF SpendInv
<1>2. QED
  BY <1>1, InitInv, StepInv, PTL DEF Spec

(* What Apify bills is what record_spend_usd has recorded, up to one       *)
(* estimate for each run that is under way, failed, was started twice or   *)
(* was lost.                                                               *)
THEOREM SpendRecorded == Spec => []BilledIsRecordedOrSlipped
<1>1. SpendInv => BilledIsRecordedOrSlipped
  <2> SUFFICES ASSUME SpendInv PROVE BilledIsRecordedOrSlipped
    OBVIOUS
  <2> DEFINE U == Cardinality(UnderWay)
  <2>1. /\ bill.started \in Nat /\ bill.recorded \in Nat /\ bill.slips \in Nat
        /\ MaxEstimate \in Nat
    BY Largest DEF SpendInv, TypeOK, ApifyTypeOK
  <2>2. U \in Nat /\ Cardinality(Owed) \in Nat /\ Cardinality(Owed) <= U * MaxEstimate
    BY OwedIsFinite
  <2> HIDE DEF U
  <2>3. (bill.slips + U) * MaxEstimate = bill.slips * MaxEstimate + U * MaxEstimate
    BY <2>1, <2>2
  <2>4. U * MaxEstimate \in Nat /\ bill.slips * MaxEstimate \in Nat
    BY <2>1, <2>2
  <2>5. /\ bill.recorded + Cardinality(Owed) <= bill.started
        /\ bill.started <= bill.recorded + Cardinality(Owed) + bill.slips * MaxEstimate
    BY DEF SpendInv, OwedInv
  <2>6. bill.started <= bill.recorded + (bill.slips + U) * MaxEstimate
    BY <2>1, <2>2, <2>3, <2>4, <2>5
  <2>7. bill.recorded <= bill.started
    BY <2>1, <2>2, <2>5
  <2>8. QED
    BY <2>6, <2>7 DEF BilledIsRecordedOrSlipped, U
<1>2. QED
  BY <1>1, InitInv, StepInv, PTL DEF Spec

(* delete_token forgets: the usage of an earlier generation of a token's   *)
(* row is not in the cache once the delete has dropped it.                 *)
THEOREM TokenForgotten == Spec => []DeletedTokenIsForgotten
<1>1. SpendInv => DeletedTokenIsForgotten
  BY DEF SpendInv
<1>2. QED
  BY <1>1, InitInv, StepInv, PTL DEF Spec

(* check_budget with record_spend_usd, and check_and_record_llm_usage with *)
(* a daily limit that is not 0, implement SpendGuard.                      *)
THEOREM GuardsImplemented == ASSUME DailyLimit # 0 PROVE Spec => ImplementsGuards
<1>1. Init => Monthly!Init /\ Daily!Init
  BY DEF Init, ApifyInit, LlmInit, Monthly!Init, Daily!Init, Passed
<1>2. SpendInv /\ [Next]_vars => [Monthly!Next]_(Monthly!vars) /\ [Daily!Next]_(Daily!vars)
  BY StepInv
<1>3. QED
  BY <1>1, <1>2, InitInv, StepInv, PTL DEF Spec, ImplementsGuards, Monthly!Spec, Daily!Spec

-----------------------------------------------------------------------------
(* What SpendGuard's counters can come to, whatever its steps add to them. *)

(* A factor can be taken in or out of a product of naturals.               *)
LEMMA Products ==
  ASSUME NEW m \in Nat, NEW n \in Nat, NEW c \in Nat
  PROVE  /\ m * c \in Nat /\ (m + 1) * c = m * c + c
         /\ (m + n) * c = m * c + n * c
         /\ m <= n => m * c <= n * c
<1>1. m * c \in Nat /\ n * c \in Nat /\ (m + n) * c = m * c + n * c
  BY SMT
<1>2. (m + 1) * c = m * c + c
  BY SMT
<1>3. ASSUME m <= n PROVE m * c <= n * c
  <2>1. PICK k \in Nat : n = m + k
    <3>1. n - m \in Nat /\ n = m + (n - m)
      BY <1>3
    <3>2. QED
      BY <3>1
  <2>2. n * c = m * c + k * c /\ k * c \in Nat
    BY <2>1, SMT
  <2>3. QED
    BY <1>1, <2>2
<1>4. QED
  BY <1>1, <1>2, <1>3

(* Every pending run may still add its cost: what has been granted and     *)
(* what the pending runs can add stay below the bound together.            *)
Within(runs, limit, max, sp, gr, pend, bl) ==
  /\ sp \in Nat /\ gr \in Nat /\ bl \in Nat /\ gr <= sp /\ pend \subseteq runs
  /\ gr + Cardinality(pend) * max <= limit + (Cardinality(runs) * max + bl * max)

(* A step of the guard, from the counters sp, gr, pend and bl to sp1, gr1, *)
(* pend1 and bl1.                                                          *)
GuardStep(runs, limit, max, sp, gr, pend, bl, sp1, gr1, pend1, bl1) ==
  \/ /\ \E r \in runs \ pend : pend1 = pend \cup {r}
     /\ sp1 = sp /\ gr1 = gr
     /\ (sp <= limit /\ bl1 = bl) \/ bl1 = bl + 1
  \/ /\ \E r \in pend : pend1 = pend \ {r}
     /\ \/ \E amount \in 1 .. max : sp1 = sp + amount /\ gr1 = gr + amount
        \/ sp1 = sp /\ gr1 = gr
     /\ bl1 = bl
  \/ /\ \E amount \in 1 .. max : sp1 = sp + amount
     /\ gr1 = gr /\ pend1 = pend /\ bl1 = bl
  \/ sp1 = 0 /\ gr1 = 0 /\ bl1 = 0 /\ pend1 \subseteq pend
  \/ sp1 = sp /\ gr1 = gr /\ pend1 = pend /\ bl1 = bl

LEMMA GuardStays ==
  ASSUME NEW runs, IsFiniteSet(runs), NEW limit \in Nat, NEW max \in Nat,
         NEW sp, NEW gr, NEW pend, NEW bl, NEW sp1, NEW gr1, NEW pend1, NEW bl1,
         Within(runs, limit, max, sp, gr, pend, bl),
         GuardStep(runs, limit, max, sp, gr, pend, bl, sp1, gr1, pend1, bl1)
  PROVE  Within(runs, limit, max, sp1, gr1, pend1, bl1)
<1> DEFINE N == Cardinality(runs)
           K == Cardinality(pend)
<1>1. /\ sp \in Nat /\ gr \in Nat /\ bl \in Nat /\ gr <= sp /\ pend \subseteq runs
      /\ gr + K * max <= limit + (N * max + bl * max)
  BY DEF Within
<1>2. \A P \in SUBSET runs : /\ IsFiniteSet(P) /\ Cardinality(P) \in Nat
                              /\ Cardinality(P) <= N
  BY FS_Subset, FS_CardinalityType
<1>3. N \in Nat /\ K \in Nat /\ K <= N /\ IsFiniteSet(pend)
  BY <1>1, <1>2, FS_CardinalityType
<1> HIDE DEF N, K
<1>4. /\ K * max \in Nat /\ N * max \in Nat /\ bl * max \in Nat
      /\ (K + 1) * max = K * max + max /\ (bl + 1) * max = bl * max + max
  BY <1>1, <1>3, Products
<1>5. CASE /\ \E r \in runs \ pend : pend1 = pend \cup {r}
           /\ sp1 = sp /\ gr1 = gr
           /\ (sp <= limit /\ bl1 = bl) \/ bl1 = bl + 1
  <2>1. pend1 \in SUBSET runs /\ Cardinality(pend1) = K + 1
    BY <1>1, <1>3, <1>5, FS_AddElement DEF K
  <2>2. K + 1 <= N
    BY <1>2, <2>1
  <2>3. (K + 1) * max <= N * max
    BY <1>3, <2>2, Products
  <2>4. bl1 = bl \/ bl1 * max = bl * max + max
    BY <1>4, <1>5
  <2>5. gr1 + Cardinality(pend1) * max <= limit + (N * max + bl1 * max)
    BY <1>1, <1>4, <1>5, <2>1, <2>3, <2>4
  <2>6. QED
    BY <1>1, <1>5, <2>1, <2>5 DEF Within, N
<1>6. CASE /\ \E r \in pend : pend1 = pend \ {r}
           /\ \/ \E amount \in 1 .. max : sp1 = sp + amount /\ gr1 = gr + amount
              \/ sp1 = sp /\ gr1 = gr
           /\ bl1 = bl
  <2>1. pend1 \in SUBSET runs /\ Cardinality(pend1) = K - 1
    BY <1>1, <1>3, <1>6, FS_RemoveElement DEF K
  <2>2. K - 1 \in Nat
    BY <1>2, <2>1
  <2>3. ((K - 1) + 1) * max = (K - 1) * max + max /\ (K - 1) * max \in Nat
    BY <2>2, Products
  <2>4. (K - 1) * max + max = K * max
    BY <1>3, <2>3
  <2>5. sp1 \in Nat /\ gr1 \in Nat /\ gr1 <= sp1 /\ gr1 <= gr + max
    BY <1>1, <1>6
  <2>6. gr1 + Cardinality(pend1) * max <= limit + (N * max + bl1 * max)
    BY <1>1, <1>4, <1>6, <2>1, <2>3, <2>4, <2>5
  <2>7. QED
    BY <1>1, <1>6, <2>1, <2>5, <2>6 DEF Within, N
<1>7. CASE /\ \E amount \in 1 .. max : sp1 = sp + amount
           /\ gr1 = gr /\ pend1 = pend /\ bl1 = bl
  <2>1. sp1 \in Nat /\ gr1 <= sp1
    BY <1>1, <1>7
  <2>2. QED
    BY <1>1, <1>7, <2>1 DEF Within, N, K
<1>8. CASE sp1 = 0 /\ gr1 = 0 /\ bl1 = 0 /\ pend1 \subseteq pend
  <2>1. pend1 \in SUBSET runs
    BY <1>1, <1>8
  <2>2. Cardinality(pend1) \in Nat /\ Cardinality(pend1) <= N
    BY <1>2, <2>1
  <2>3. Cardinality(pend1) * max \in Nat /\ Cardinality(pend1) * max <= N * max
    BY <1>3, <2>2, Products
  <2>4. gr1 + Cardinality(pend1) * max <= limit + (N * max + bl1 * max)
    BY <1>4, <1>8, <2>3
  <2>5. QED
    BY <1>8, <2>1, <2>4 DEF Within, N
<1>9. QED
  BY <1>5, <1>6, <1>7, <1>8 DEF GuardStep

LEMMA WithinBounds ==
  ASSUME NEW runs, IsFiniteSet(runs), NEW limit \in Nat, NEW max \in Nat,
         NEW sp, NEW gr, NEW pend, NEW bl, Within(runs, limit, max, sp, gr, pend, bl)
  PROVE  gr <= limit + (Cardinality(runs) + bl) * max
<1>1. Cardinality(pend) \in Nat /\ Cardinality(runs) \in Nat /\ bl \in Nat /\ gr \in Nat
  BY FS_Subset, FS_CardinalityType DEF Within
<1>2. /\ Cardinality(pend) * max \in Nat
      /\ (Cardinality(runs) + bl) * max = Cardinality(runs) * max + bl * max
      /\ Cardinality(runs) * max \in Nat /\ bl * max \in Nat
  BY <1>1, Products
<1>3. QED
  BY <1>1, <1>2 DEF Within

LEMMA WithinFirst ==
  ASSUME NEW runs, IsFiniteSet(runs), NEW limit \in Nat, NEW max \in Nat
  PROVE  Within(runs, limit, max, 0, 0, {}, 0)
<1>1. Cardinality({}) = 0 /\ Cardinality(runs) \in Nat
  BY FS_EmptySet, FS_CardinalityType
<1>2. Cardinality(runs) * max \in Nat /\ 0 * max = 0
  BY <1>1, Products, SMT
<1>3. QED
  BY <1>1, <1>2 DEF Within

(* The month's Apify budget, and the day's LLM tokens.                     *)
Ingesting == {w \in Workers : ingest[w] # NoRun}
MonthlyInv == Within(Workers, Budget, MaxEstimate, spent, apifyGranted, Ingesting, blind)
DailyInv == Within(Dispatchers, DailyLimit, MaxSize, tokens, llmGranted, Passed, 0)

LEMMA GuardTypes ==
  /\ IsFiniteSet(Workers) /\ Budget \in Nat /\ MaxEstimate \in Nat
  /\ IsFiniteSet(Dispatchers) /\ DailyLimit \in Nat /\ MaxSize \in Nat
  BY ApifyAssumption, LlmAssumption, OrgSpendAssumption, Largest

LEMMA MonthlyKept ==
  ASSUME MonthlyInv, [Monthly!Next]_(Monthly!vars)
  PROVE  MonthlyInv'
<1>1. spent \in Nat
  BY DEF MonthlyInv, Within
<1>2. ASSUME NEW r \in Workers \ Ingesting, Monthly!Admit(r)
      PROVE  spent <= Budget
  <2>1. PICK n \in 1 .. MaxEstimate : spent + n <= Budget
    BY <1>2 DEF Monthly!Admit
  <2>2. QED
    BY <1>1, <2>1, GuardTypes
<1>3. GuardStep(Workers, Budget, MaxEstimate, spent, apifyGranted, Ingesting, blind,
                spent', apifyGranted', Ingesting', blind')
  BY <1>2
  DEF GuardStep, Ingesting, Monthly!Next, Monthly!vars, Monthly!Admit, Monthly!AdmitBlindly,
      Monthly!Settle, Monthly!Drop, Monthly!Meter, Monthly!Reset
<1>4. QED
  BY <1>3, GuardTypes, GuardStays DEF MonthlyInv

LEMMA DailyKept ==
  ASSUME DailyInv, [Daily!Next]_(Daily!vars)
  PROVE  DailyInv'
<1>1. tokens \in Nat
  BY DEF DailyInv, Within
<1>2. ASSUME NEW r \in Dispatchers \ Passed, Daily!Admit(r)
      PROVE  tokens <= DailyLimit
  <2>1. PICK n \in 1 .. MaxSize : tokens + n <= DailyLimit
    BY <1>2 DEF Daily!Admit
  <2>2. QED
    BY <1>1, <2>1, GuardTypes
<1>3. GuardStep(Dispatchers, DailyLimit, MaxSize, tokens, llmGranted, Passed, 0,
                tokens', llmGranted', Passed', 0)
  BY <1>2
  DEF GuardStep, Daily!Next, Daily!vars, Daily!Admit, Daily!AdmitBlindly,
      Daily!Settle, Daily!Drop, Daily!Meter, Daily!Reset
<1>4. QED
  BY <1>3, GuardTypes, GuardStays DEF DailyInv

(* apify_monthly_budget_usd can be exceeded, but by no more than one       *)
(* estimate for each worker, and for each check that could not read the    *)
(* counter (check_budget, record_spend_usd).                               *)
THEOREM MonthlyOvershoot == Spec => []Monthly!OvershootIsBounded
<1>1. MonthlyInv => Monthly!OvershootIsBounded
  <2>1. Monthly!Cardinality(Workers) = Cardinality(Workers)
    BY DEF Monthly!Cardinality, Cardinality
  <2>2. MonthlyInv => apifyGranted <= Budget + (Cardinality(Workers) + blind) * MaxEstimate
    BY GuardTypes, WithinBounds DEF MonthlyInv
  <2>3. QED
    BY <2>1, <2>2 DEF Monthly!OvershootIsBounded
<1>2. Init => MonthlyInv
  <2>1. Init => spent = 0 /\ apifyGranted = 0 /\ blind = 0 /\ Ingesting = {}
    BY DEF Init, ApifyInit, Ingesting
  <2>2. QED
    BY <2>1, GuardTypes, WithinFirst DEF MonthlyInv
<1>3. SpendInv /\ MonthlyInv /\ [Next]_vars => SpendInv' /\ MonthlyInv'
  BY StepInv, MonthlyKept
<1>4. QED
  BY <1>1, <1>2, <1>3, InitInv, PTL DEF Spec

(* The calls that can be in flight at once.                                *)
LEMMA InFlight ==
  /\ Cardinality(Dispatchers) = Cardinality(Workers) * Concurrency
  /\ Cardinality(Dispatchers) \in Nat
<1>1. IsFiniteSet(Workers) /\ Concurrency \in Nat
  BY ApifyAssumption, OrgSpendAssumption
<1>2. IsFiniteSet(1 .. Concurrency) /\ Cardinality(1 .. Concurrency) = Concurrency
  BY <1>1, FS_Interval
<1>3. Cardinality(Workers \X (1 .. Concurrency)) = Cardinality(Workers) * Concurrency
  BY <1>1, <1>2, FS_Product
<1>4. QED
  BY <1>3, GuardTypes, FS_CardinalityType, OrgSpendAssumption

(* A daily limit that is not 0 can be exceeded by calls that were let go,  *)
(* but by no more than the CONCURRENCY calls that each worker can have in  *)
(* flight (check_and_record_llm_usage, the semaphores of analyst_nodes.py).*)
THEOREM DailyOvershoot ==
  ASSUME DailyLimit # 0
  PROVE  Spec => /\ []Daily!OvershootIsBounded
                 /\ [](llmGranted <= DailyLimit
                                       + Cardinality(Workers) * Concurrency * MaxSize)
<1>1. DailyInv => /\ Daily!OvershootIsBounded
                  /\ llmGranted <= DailyLimit + Cardinality(Workers) * Concurrency * MaxSize
  <2>1. Daily!Cardinality(Dispatchers) = Cardinality(Dispatchers)
    BY DEF Daily!Cardinality, Cardinality
  <2>2. DailyInv => llmGranted <= DailyLimit + (Cardinality(Dispatchers) + 0) * MaxSize
    BY GuardTypes, WithinBounds DEF DailyInv
  <2>3. Cardinality(Dispatchers) + 0 = Cardinality(Workers) * Concurrency
    BY InFlight
  <2>4. QED
    BY <2>1, <2>2, <2>3 DEF Daily!OvershootIsBounded
<1>2. Init => DailyInv
  <2>1. Init => tokens = 0 /\ llmGranted = 0 /\ Passed = {}
    BY DEF Init, LlmInit, Passed
  <2>2. QED
    BY <2>1, GuardTypes, WithinFirst DEF DailyInv
<1>3. SpendInv /\ DailyInv /\ [Next]_vars => SpendInv' /\ DailyInv'
  BY StepInv, DailyKept
<1>4. QED
  BY <1>1, <1>2, <1>3, InitInv, PTL DEF Spec
=============================================================================
