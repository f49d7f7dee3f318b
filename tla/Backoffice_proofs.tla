-------------------------- MODULE Backoffice_proofs --------------------------
(***************************************************************************)
(* The theorems of the parts, carried over to the system that the run      *)
(* checks: a behaviour of the back office is, seen through the variables   *)
(* of one part, a behaviour of that part.                                  *)
(***************************************************************************)
EXTENDS MCBackoffice, FiniteSetTheorems, TLAPS

\* A behaviour of the back office is one of the campaigns.
LEMMA CrmSpec == Spec => Crm!Spec
<1>1. Init => Crm!Init
  BY DEF Init
<1>2. [Next]_allVars => [Crm!Next]_crmVars
  BY DEF Next, CacheNext, CrmNext, HooksNext, PushNext, HealthNext, DeskNext, IdsNext, MenuNext,
     TalkNext, ConfigNext, AudienceNext, ScheduleNext, AlertsNext, ErrorsNext, allVars, workerVars, crmVars
<1>. QED
  BY <1>1, <1>2, PTL DEF Spec, Crm!Spec, Crm!vars, crmVars

\* A behaviour of the back office is one of the webhook rules.
LEMMA HooksSpec == Spec => Hooks!Spec
<1>1. Init => Hooks!Init
  BY DEF Init
<1>2. [Next]_allVars => [Hooks!Next]_hookVars
  BY DEF Next, CacheNext, CrmNext, HooksNext, PushNext, HealthNext, DeskNext, IdsNext, MenuNext,
     TalkNext, ConfigNext, AudienceNext, ScheduleNext, AlertsNext, ErrorsNext, allVars, workerVars, hookVars
<1>. QED
  BY <1>1, <1>2, PTL DEF Spec, Hooks!Spec, Hooks!hookVars, hookVars

\* A behaviour of the back office is one of the panel cache.
LEMMA CacheSpec == Spec => Cache!Spec
<1>1. Init => Cache!Init
  BY DEF Init
<1>2. [Next]_allVars => [Cache!Next]_cacheVars
  BY DEF Next, CacheNext, CrmNext, HooksNext, PushNext, HealthNext, DeskNext, IdsNext, MenuNext,
     TalkNext, ConfigNext, AudienceNext, ScheduleNext, AlertsNext, ErrorsNext, allVars, workerVars, cacheVars
<1>. QED
  BY <1>1, <1>2, PTL DEF Spec, Cache!Spec, Cache!vars, cacheVars

\* For any number of users, campaigns, handlers and workers, whatever overlaps or dies,
\* execute_crm_campaign takes a user through credits and perks at most once per launch.
THEOREM CampaignsGrantOnce == Spec => []GrantedOncePerLaunch
BY CrmSpec, CampaignSizes, Crm!NeverGrantedTwice, PTL DEF GrantedOncePerLaunch

\* A campaign that refuses to be executed again has a job, is about to get one, or has
\* lost it to a crash.
THEOREM CampaignsNotForgotten == Spec => []NotForgotten
BY CrmSpec, CampaignSizes, Crm!NoneForgotten, PTL DEF NotForgotten

\* A campaign shown as completed has reached every user it was for, and an event reaches
\* nobody more often than its repeat policy allows.
THEOREM CampaignsAreSound == Spec => []CampaignsSound
BY CrmSpec, CampaignSizes, Crm!AlwaysSound, PTL DEF CampaignsSound

\* However webhooks, jobs, deadlocks, crashes and the admin interleave, a webhook rule
\* reaches a user once per cooldown, but for the runs whose row was lost with its
\* transaction.
THEOREM RulesKeepTheirCooldown == Spec => []CooldownKept
BY HooksSpec, HookSizes, Hooks!OncePerCooldown, PTL DEF CooldownKept

(***************************************************************************)
(* The panel cache.  Whoever is answered is done, and a future that may be *)
(* joined belongs to a caller who computes; for any number of callers and  *)
(* cancellations.                                                          *)
(***************************************************************************)
\* What the proof needs of the types: which caller waits for which.
CacheTyped ==
    /\ future \in [Callers -> Cache!Futures]
    /\ caller \in [Callers -> Cache!Caller]

\* The future that may be joined belongs to a caller who computes.
JoinsLeader ==
    \A c \in inflight : c \in Callers /\ caller[c].step = "computing"

\* Whoever is cancelled or answered is done, and stays so.
AnsweredIsDone ==
    \A c \in Callers : caller[c].answer # "none" => caller[c].step = "done"

\* The futures of leaders and of those who wait for them exist.
FutureExists ==
    \A c \in Callers :
        /\ caller[c].step = "computing" => future[c] # "none"
        /\ caller[c].step = "waiting" => future[caller[c].joined] # "none"

CacheInductive == CacheTyped /\ JoinsLeader /\ AnsweredIsDone /\ FutureExists /\ WaitersAnswered

\* A caller who is answered keeps its record otherwise, and nobody else's changes.
LEMMA AnsweredLeaves ==
    ASSUME NEW c \in Callers, NEW a \in Cache!Answers, CacheTyped, caller' = Cache!Answered(c, a)
    PROVE  /\ caller' \in [Callers -> Cache!Caller]
           /\ caller'[c].step = "done" /\ caller'[c].answer = a
           /\ \A d \in Callers : d # c => caller'[d] = caller[d]
<1>. DEFINE r == [caller[c] EXCEPT !.step = "done", !.answer = a]
<1>1. caller[c] \in Cache!Caller
  BY DEF CacheTyped
<1>2. r \in Cache!Caller /\ r.step = "done" /\ r.answer = a
  BY <1>1 DEF Cache!Caller, Cache!Steps
<1>3. caller' = [caller EXCEPT ![c] = r]
  BY DEF Cache!Answered
<1>. QED
  BY <1>2, <1>3 DEF CacheTyped

\* The first step: nobody has asked.
LEMMA CacheInductiveInit == Cache!Init => CacheInductive
BY DEF Cache!Init, CacheInductive, CacheTyped, JoinsLeader, AnsweredIsDone, FutureExists, WaitersAnswered, Cache!WaitersAnswered,
       Cache!Caller, Cache!Futures, Cache!Steps, Cache!Answers

\* Whoever is answered leaves nobody behind who waits for a pending future, unless it
\* was cancelled while it computed.
LEMMA AnsweringKeeps ==
    ASSUME NEW c \in Callers, NEW a \in Cache!Answers, CacheInductive,
           caller[c].step # "done", caller' = Cache!Answered(c, a),
           inflight' \subseteq inflight \ {c},
           future' \in [Callers -> Cache!Futures],
           \A d \in Callers : future'[d] \notin {"none", "pending"} \/ future'[d] = future[d],
           caller[c].step = "computing" => future'[c] # "pending" \/ a = "cancelled"
    PROVE  CacheInductive'
<1>1. /\ caller' \in [Callers -> Cache!Caller]
      /\ caller'[c].step = "done" /\ caller'[c].answer = a
      /\ \A d \in Callers : d # c => caller'[d] = caller[d]
  BY AnsweredLeaves DEF CacheInductive
<1>2. \A d \in Callers : caller[d].joined \in Callers
  BY DEF CacheInductive, CacheTyped, Cache!Caller
<1>3. CacheTyped' /\ JoinsLeader' /\ AnsweredIsDone'
  BY <1>1 DEF CacheInductive, CacheTyped, JoinsLeader, AnsweredIsDone
<1>4. WaitersAnswered' /\ FutureExists'
  BY <1>1, <1>2 DEF CacheInductive, WaitersAnswered, Cache!WaitersAnswered, AnsweredIsDone, FutureExists
<1>. QED
  BY <1>3, <1>4 DEF CacheInductive

\* A caller outside the computation under way is not the leader.
LEMMA IsNoLeader ==
    ASSUME NEW c \in Callers, CacheInductive, caller[c].step # "computing"
    PROVE  c \notin inflight
BY DEF CacheInductive, JoinsLeader

\* Asking: the stored value, a seat with the leader, or the lead.
LEMMA LookupKeeps ==
    ASSUME NEW c \in Callers, CacheInductive, Cache!Hit(c) \/ Cache!Join(c) \/ Cache!Lead(c)
    PROVE  CacheInductive'
<1>0. /\ \A d \in Callers : caller[d] \in Cache!Caller
      /\ caller[c] \in Cache!Caller
      /\ future \in [Callers -> Cache!Futures]
  BY DEF CacheInductive, CacheTyped
<1>1. CASE Cache!Hit(c)
  <2>1. /\ caller[c].step = "idle" /\ caller' = Cache!Answered(c, "value")
        /\ inflight' = inflight /\ future' = future
    BY <1>1 DEF Cache!Hit
  <2>. QED
    BY <2>1, <1>0, IsNoLeader, AnsweringKeeps DEF Cache!Answers
<1>2. CASE Cache!Join(c)
  <2>1. PICK leader \in inflight : caller' = [caller EXCEPT ![c].step = "waiting",
                                                           ![c].joined = leader]
    BY <1>2 DEF Cache!Join
  <2>. DEFINE r == [caller[c] EXCEPT !.step = "waiting", !.joined = leader]
  <2>2. leader \in Callers /\ caller[leader].step = "computing"
    BY <2>1 DEF CacheInductive, JoinsLeader
  <2>3. /\ r \in Cache!Caller /\ r.step = "waiting" /\ r.joined = leader
        /\ r.answer = caller[c].answer
    BY <1>0, <2>2 DEF Cache!Caller, Cache!Steps
  <2>4. /\ caller' = [caller EXCEPT ![c] = r]
        /\ caller[c].step = "idle" /\ inflight' = inflight /\ future' = future
    BY <1>2, <2>1 DEF Cache!Join
  <2>5. /\ caller' \in [Callers -> Cache!Caller] /\ caller'[c] = r
        /\ \A d \in Callers : d # c => caller'[d] = caller[d]
    BY <2>3, <2>4 DEF CacheInductive, CacheTyped
  <2>6. leader # c
    BY <2>2, <2>4
  <2>7. \A d \in Callers : caller[d].joined \in Callers
    BY <1>0 DEF Cache!Caller
  <2>8. CacheTyped' /\ JoinsLeader' /\ AnsweredIsDone'
    BY <2>3, <2>4, <2>5 DEF CacheInductive, CacheTyped, JoinsLeader, AnsweredIsDone
  <2>9. WaitersAnswered' /\ FutureExists'
    BY <2>2, <2>3, <2>4, <2>5, <2>6, <2>7
       DEF CacheInductive, WaitersAnswered, Cache!WaitersAnswered, AnsweredIsDone, FutureExists
  <2>. QED
    BY <2>8, <2>9 DEF CacheInductive
<1>3. CASE Cache!Lead(c)
  <2>. DEFINE r == [caller[c] EXCEPT !.step = "computing"]
  <2>1. /\ r \in Cache!Caller /\ r.step = "computing" /\ r.answer = caller[c].answer
        /\ r.joined = caller[c].joined
    BY <1>0 DEF Cache!Caller, Cache!Steps
  <2>2. /\ caller' = [caller EXCEPT ![c] = r]
        /\ caller[c].step = "idle" /\ inflight' = {c}
        /\ future' = [future EXCEPT ![c] = "pending"]
    BY <1>3 DEF Cache!Lead
  <2>3. /\ caller' \in [Callers -> Cache!Caller] /\ caller'[c] = r
        /\ \A d \in Callers : d # c => caller'[d] = caller[d]
        /\ future' \in [Callers -> Cache!Futures]
        /\ \A d \in Callers : d # c => future'[d] = future[d]
    BY <2>1, <2>2 DEF CacheInductive, CacheTyped, Cache!Futures
  <2>4. \A d \in Callers : caller[d].joined \in Callers
    BY <1>0 DEF Cache!Caller
  <2>5. CacheTyped' /\ JoinsLeader' /\ AnsweredIsDone'
    BY <2>1, <2>2, <2>3 DEF CacheInductive, CacheTyped, JoinsLeader, AnsweredIsDone
  <2>6. WaitersAnswered' /\ FutureExists'
    BY <2>1, <2>2, <2>3, <2>4
       DEF CacheInductive, WaitersAnswered, Cache!WaitersAnswered, AnsweredIsDone, FutureExists
  <2>. QED
    BY <2>5, <2>6 DEF CacheInductive
<1>. QED
  BY <1>1, <1>2, <1>3

\* The computation ends, and the leader's future with it; a follower resumes.
LEMMA EndingKeeps ==
    ASSUME NEW c \in Callers, CacheInductive, Cache!Computed(c) \/ Cache!Failed(c) \/ Cache!Resume(c)
    PROVE  CacheInductive'
<1>0. /\ future \in [Callers -> Cache!Futures]
      /\ caller[c].joined \in Callers
  BY DEF CacheInductive, CacheTyped, Cache!Caller
<1>1. CASE Cache!Computed(c)
  <2>1. /\ caller[c].step = "computing" /\ inflight' = inflight \ {c}
        /\ \/ /\ future' = [future EXCEPT ![c] = "result"]
              /\ caller' = Cache!Answered(c, "value")
           \/ future' = future /\ future[c] # "pending" /\ caller' = Cache!Answered(c, "error")
    BY <1>1 DEF Cache!Computed
  <2>2. /\ future' \in [Callers -> Cache!Futures] /\ future'[c] # "pending"
        /\ \A d \in Callers : future'[d] \notin {"none", "pending"} \/ future'[d] = future[d]
    BY <1>0, <2>1 DEF Cache!Futures
  <2>. QED
    BY <2>1, <2>2, AnsweringKeeps DEF Cache!Answers
<1>2. CASE Cache!Failed(c)
  <2>1. /\ caller[c].step = "computing" /\ inflight' = inflight \ {c}
        /\ future' = [future EXCEPT ![c] = Cache!AfterException(c)]
        /\ caller' = Cache!Answered(c, "error")
    BY <1>2 DEF Cache!Failed
  <2>2. /\ future' \in [Callers -> Cache!Futures] /\ future'[c] # "pending"
        /\ \A d \in Callers : future'[d] \notin {"none", "pending"} \/ future'[d] = future[d]
    BY <1>0, <2>1 DEF Cache!Futures, Cache!AfterException
  <2>. QED
    BY <2>1, <2>2, AnsweringKeeps DEF Cache!Answers
<1>3. CASE Cache!Resume(c)
  <2>1. /\ caller[c].step = "waiting" /\ inflight' = inflight /\ future' = future
        /\ future[caller[c].joined] # "pending"
    BY <1>3 DEF Cache!Resume
  <2>2. future[caller[c].joined] \in Cache!Futures \ {"none", "pending"}
    BY <1>0, <2>1 DEF CacheInductive, FutureExists
  <2>3. \E a \in Cache!Answers : caller' = Cache!Answered(c, a)
    BY <1>3, <2>2 DEF Cache!Resume, Cache!Futures, Cache!Answers
  <2>. QED
    BY <1>0, <2>1, <2>3, IsNoLeader, AnsweringKeeps
<1>. QED
  BY <1>1, <1>2, <1>3

\* Cancellation: the one way to leave a future pending behind.
LEMMA CancellingKeeps ==
    ASSUME NEW c \in Callers, CacheInductive, Cache!CancelLeader(c) \/ Cache!CancelFollower(c)
    PROVE  CacheInductive'
<1>0. /\ future \in [Callers -> Cache!Futures]
      /\ caller[c].joined \in Callers
  BY DEF CacheInductive, CacheTyped, Cache!Caller
<1>1. CASE Cache!CancelLeader(c)
  <2>1. /\ caller[c].step = "computing" /\ inflight' = inflight \ {c} /\ future' = future
        /\ caller' = Cache!Answered(c, "cancelled")
    BY <1>1 DEF Cache!CancelLeader
  <2>. QED
    BY <1>0, <2>1, AnsweringKeeps DEF Cache!Answers
<1>2. CASE Cache!CancelFollower(c)
  <2>1. /\ caller[c].step = "waiting" /\ inflight' = inflight
        /\ future' = [future EXCEPT ![caller[c].joined] = "cancelled"]
        /\ caller' = Cache!Answered(c, "cancelled")
    BY <1>2 DEF Cache!CancelFollower
  <2>2. /\ future' \in [Callers -> Cache!Futures]
        /\ \A d \in Callers : future'[d] \notin {"none", "pending"} \/ future'[d] = future[d]
    BY <1>0, <2>1 DEF Cache!Futures
  <2>. QED
    BY <2>1, <2>2, IsNoLeader, AnsweringKeeps DEF Cache!Answers
<1>. QED
  BY <1>1, <1>2

\* Failures of the panel never strand a waiting request: in every reachable state the
\* computation it waits for is running, is over, or was cancelled.
THEOREM CacheWaitersAnswered == Spec => []WaitersAnswered
<1>1. CacheInductive /\ [Cache!Next]_cacheVars => CacheInductive'
  <2>. SUFFICES ASSUME CacheInductive, [Cache!Next]_cacheVars PROVE CacheInductive'
    OBVIOUS
  <2>1. CASE Cache!Expire
    BY <2>1 DEF Cache!Expire, CacheInductive, CacheTyped, JoinsLeader, AnsweredIsDone, FutureExists,
               WaitersAnswered, Cache!WaitersAnswered
  <2>2. CASE UNCHANGED cacheVars
    BY <2>2 DEF cacheVars, CacheInductive, CacheTyped, JoinsLeader, AnsweredIsDone, FutureExists,
               WaitersAnswered, Cache!WaitersAnswered
  <2>. QED
    BY <2>1, <2>2, LookupKeeps, EndingKeeps, CancellingKeeps DEF Cache!Next
<1>2. CacheInductive => WaitersAnswered
  BY DEF CacheInductive
<1>. QED
  BY <1>1, <1>2, CacheInductiveInit, CacheSpec, PTL DEF Cache!Spec, Cache!vars, cacheVars

-----------------------------------------------------------------------------
(***************************************************************************)
(* Push notifications.                                                     *)
(***************************************************************************)

RunRecord ==
    [pc : {"none", "enqueue", "queued", "sending", "raised", "over"},
     targets : SUBSET Devices, todo : SUBSET Devices,
     flying : SUBSET (Devices \X Push!Answers), sent : Nat, failed : Nat]

PushTyped ==
    /\ push \in [status : {"draft", "queued", "running", "completed", "failed"},
                 sent : Nat, failed : Nat, total : Nat]
    /\ tokens \subseteq Devices
    /\ run \in [Runs -> RunRecord]
    /\ pushes \in [Devices -> Nat]

Flying(x, t) == \E a \in Push!Answers : <<t, a>> \in x.flying

\* The ledger of job k: whoever it is for is still to be sent to, is being sent to, or has
\* his row; nobody is in two of these, and those who left are counted.
RunRight(k, x) ==
    /\ IsFiniteSet(x.flying)
    /\ x.pc \in {"none", "enqueue", "queued"} => x.todo = {} /\ x.flying = {}
    /\ x.pc = "sending" =>
         /\ \A t \in x.targets : t \in x.todo \/ Flying(x, t) \/ <<k, t>> \in rows
         /\ \A t \in x.todo : ~Flying(x, t)
         /\ push.total = Cardinality(x.targets)
         /\ x.sent + x.failed + Cardinality(x.todo) + Cardinality(x.flying)
              = Cardinality(x.targets)

AtWork(x) == x.pc \in {"enqueue", "queued", "sending", "raised"}
Began(x) == x.pc \in {"sending", "raised", "over"}

\* The jobs that have sent to t, or can no longer do so.
Used(t) == {k \in Runs : Began(run[k]) /\ t \notin run[k].todo}

\* Job k is over, and everybody it was for has his row.
ReachedAll(k) ==
    /\ run[k].pc = "over" /\ run[k].todo = {} /\ run[k].flying = {}
    /\ \A t \in run[k].targets : <<k, t>> \in rows
    /\ (\A j \in Runs : j # k => run[j].pc = "none") => push.sent + push.failed = push.total

PushInductive ==
    /\ PushTyped
    /\ \A k \in Runs : RunRight(k, run[k])
    /\ \A i, j \in Runs : AtWork(run[i]) /\ AtWork(run[j]) => i = j
    /\ (\E k \in Runs : AtWork(run[k])) => push.status \in {"queued", "running"}
    /\ push.status = "completed" => \E k \in Runs : ReachedAll(k)
    /\ \A t \in Devices : pushes[t] <= Cardinality(Used(t))

\* Nobody has launched it.
LEMMA PushBegins == PushSizes /\ Push!Init => PushInductive
<1>. SUFFICES ASSUME PushSizes, Push!Init PROVE PushInductive
  OBVIOUS
<1>1. Push!NotQueued \in RunRecord /\ Push!NotQueued.pc = "none"
      /\ Push!NotQueued.todo = {} /\ Push!NotQueued.flying = {}
  BY DEF Push!NotQueued, RunRecord
<1>2. PushTyped
  BY <1>1 DEF Push!Init, PushTyped
<1>3. \A k \in Runs : run[k] = Push!NotQueued
  BY DEF Push!Init
<1>4. \A t \in Devices : pushes[t] = 0 /\ IsFiniteSet(Used(t))
  <2>. TAKE t \in Devices
  <2>1. Used(t) \subseteq Runs
    BY DEF Used
  <2>. QED
    BY <2>1, FS_Subset DEF PushSizes, Push!Init
<1>5. \A t \in Devices : pushes[t] <= Cardinality(Used(t))
  BY <1>4, FS_CardinalityType
<1>6. push.status = "draft"
  BY DEF Push!Init
<1>. QED
  BY <1>1, <1>2, <1>3, <1>5, <1>6, FS_EmptySet
     DEF PushInductive, RunRight, AtWork

\* The instance counts like everybody else.
LEMMA PushCounts == ASSUME NEW S PROVE Push!Cardinality(S) = Cardinality(S)
BY DEF Push!Cardinality, Cardinality

\* Job k goes on as n.
Turns(k, n) ==
    /\ run' = [run EXCEPT ![k] = n]
    /\ Began(run[k]) => Began(n) /\ n.todo \subseteq run[k].todo

\* What such a step leaves of the jobs.
LEMMA TurnsEffect ==
    ASSUME PushInductive, NEW k \in Runs, NEW n \in RunRecord, Turns(k, n)
    PROVE  /\ run' \in [Runs -> RunRecord]
           /\ run'[k] = n
           /\ \A j \in Runs : j # k => run'[j] = run[j]
BY DEF Turns, PushInductive, PushTyped

\* Whoever was sent to, or cannot be sent to any more, stays so.
LEMMA UsedGrows ==
    ASSUME PushSizes, PushInductive, NEW k \in Runs, NEW n \in RunRecord, Turns(k, n),
           NEW t \in Devices
    PROVE  /\ Used(t) \subseteq Used(t)'
           /\ IsFiniteSet(Used(t)')
           /\ Cardinality(Used(t)) \in Nat /\ Cardinality(Used(t)') \in Nat
           /\ Cardinality(Used(t)) <= Cardinality(Used(t)')
<1>1. Used(t) \subseteq Used(t)'
  BY TurnsEffect DEF Used, Turns, Began
<1>2. Used(t)' \subseteq Runs
  BY DEF Used
<1>3. IsFiniteSet(Used(t)')
  BY <1>2, FS_Subset DEF PushSizes
<1>. QED
  BY <1>1, <1>3, FS_Subset, FS_CardinalityType

\* A step of job k by which nobody is notified.
LEMMA QuietTurn ==
    ASSUME PushSizes, PushInductive, NEW k \in Runs, NEW n \in RunRecord, Turns(k, n),
           pushes' = pushes
    PROVE  /\ pushes' \in [Devices -> Nat]
           /\ \A t \in Devices : pushes'[t] <= Cardinality(Used(t)')
<1>1. pushes \in [Devices -> Nat]
  BY DEF PushInductive, PushTyped
<1>2. ASSUME NEW t \in Devices PROVE pushes'[t] <= Cardinality(Used(t)')
  <2>1. pushes[t] \in Nat /\ pushes[t] <= Cardinality(Used(t))
    BY <1>1 DEF PushInductive
  <2>2. /\ Cardinality(Used(t)) \in Nat /\ Cardinality(Used(t)') \in Nat
        /\ Cardinality(Used(t)) <= Cardinality(Used(t)')
    BY UsedGrows
  <2>. QED
    BY <2>1, <2>2
<1>. QED
  BY <1>1, <1>2

\* What is over, or not yet begun, has nothing to account for.
LEMMA IdleRunRight ==
    ASSUME NEW k, NEW x, x.todo = {}, x.flying = {}, x.pc # "sending"
    PROVE  RunRight(k, x)'
BY FS_EmptySet DEF RunRight

\* Someone launches, and the job is queued or lost.
LEMMA LaunchKeeps ==
    ASSUME PushSizes, PushInductive, NEW k \in Runs, Push!Launch(k)
    PROVE  PushInductive'
<1>. DEFINE n == [run[k] EXCEPT !.pc = "enqueue"]
<1>0. run[k] \in RunRecord /\ push.status \in {"draft", "failed"}
  BY DEF PushInductive, PushTyped, Push!Launch, Push!Launchable
<1>1. n \in RunRecord /\ n.pc = "enqueue" /\ n.todo = {} /\ n.flying = {}
  BY <1>0 DEF RunRecord, Push!Launch, PushInductive, RunRight
<1>2. run' = [run EXCEPT ![k] = n] /\ run[k].pc = "none" /\ ~Began(run[k])
  BY DEF Push!Launch, Began
<1>3. Turns(k, n)
  BY <1>2 DEF Turns
<1>4. /\ run' \in [Runs -> RunRecord] /\ run'[k] = n
      /\ \A j \in Runs : j # k => run'[j] = run[j]
  BY <1>1, <1>3, TurnsEffect
<1>5. Cardinality(tokens) \in Nat
  BY FS_Subset, FS_CardinalityType DEF PushSizes, PushInductive, PushTyped
<1>6. /\ push' = [push EXCEPT !.status = "queued", !.total = Cardinality(tokens)]
      /\ UNCHANGED <<tokens, rows, pushes>>
  BY PushCounts DEF Push!Launch
<1>7. PushTyped' /\ push'.status = "queued"
  BY <1>4, <1>5, <1>6, QuietTurn, <1>3, <1>1 DEF PushTyped, PushInductive
<1>8. \A j \in Runs : ~AtWork(run[j])
  BY <1>0 DEF PushInductive
<1>9. ASSUME NEW j \in Runs PROVE RunRight(j, run[j])'
  <2>1. CASE j = k
    BY <1>1, <1>4, <2>1, IdleRunRight
  <2>2. CASE j # k
    BY <1>4, <1>6, <1>8, <2>2 DEF PushInductive, RunRight, AtWork
  <2>. QED
    BY <2>1, <2>2
<1>10. \A t \in Devices : pushes'[t] <= Cardinality(Used(t)')
  BY <1>1, <1>3, <1>6, QuietTurn
<1>. QED
  BY <1>4, <1>7, <1>8, <1>9, <1>10 DEF PushInductive

\* A job that is not at its sends, nor becomes so, goes on: what is left to show is who is
\* at work and what the row says.
LEMMA OffSends ==
    ASSUME PushSizes, PushInductive, NEW k \in Runs, NEW n \in RunRecord, Turns(k, n),
           n.pc # "none", n.pc # "sending", IsFiniteSet(n.flying),
           n.pc \in {"enqueue", "queued"} => n.todo = {} /\ n.flying = {},
           AtWork(n) => AtWork(run[k]),
           tokens' \subseteq Devices, pushes' = pushes, rows \subseteq rows',
           push' \in [status : {"draft", "queued", "running", "completed", "failed"},
                      sent : Nat, failed : Nat, total : Nat],
           push'.total = push.total,
           \/ push'.status = push.status
           \/ AtWork(run[k]) /\ ~AtWork(n) /\ push'.status = "failed",
           run[k].pc = "none" => FALSE,
           push'.status = "completed" => \E j \in Runs : ReachedAll(j)'
    PROVE  PushInductive'
<1>1. /\ run' \in [Runs -> RunRecord] /\ run'[k] = n
      /\ \A j \in Runs : j # k => run'[j] = run[j]
  BY TurnsEffect
<1>2. PushTyped'
  BY <1>1 DEF PushTyped, PushInductive
<1>3. ASSUME NEW j \in Runs PROVE RunRight(j, run[j])'
  <2>1. CASE j = k
    BY <1>1, <2>1 DEF RunRight
  <2>2. CASE j # k
    BY <1>1, <2>2 DEF PushInductive, RunRight
  <2>. QED
    BY <2>1, <2>2
<1>4. \A i, j \in Runs : AtWork(run'[i]) /\ AtWork(run'[j]) => i = j
  BY <1>1 DEF PushInductive
<1>5. (\E j \in Runs : AtWork(run'[j])) => push'.status \in {"queued", "running"}
  BY <1>1 DEF PushInductive
<1>6. \A t \in Devices : pushes'[t] <= Cardinality(Used(t)')
  BY QuietTurn
<1>. QED
  BY <1>2, <1>3, <1>4, <1>5, <1>6 DEF PushInductive, AtWork

\* What was reached stays reached while the others stay where they are or go on.
LEMMA ReachedStays ==
    ASSUME PushInductive, NEW k \in Runs, NEW n \in RunRecord, Turns(k, n),
           n.pc # "none", run[k].pc # "none", rows \subseteq rows',
           NEW j \in Runs, j # k, ReachedAll(j)
    PROVE  ReachedAll(j)'
BY TurnsEffect DEF ReachedAll

\* The broker takes the job, or cannot be reached.
LEMMA EnqueueKeeps ==
    ASSUME PushSizes, PushInductive, NEW k \in Runs, Push!Enqueue(k)
    PROVE  PushInductive'
<1>0. run[k] \in RunRecord /\ run[k].pc = "enqueue" /\ run[k].todo = {} /\ run[k].flying = {}
  BY DEF PushInductive, PushTyped, Push!Enqueue, RunRight
<1>1. PICK pc \in {"queued", "over"} : run' = [run EXCEPT ![k].pc = pc]
  BY DEF Push!Enqueue
<1>. DEFINE n == [run[k] EXCEPT !.pc = pc]
<1>2. n \in RunRecord /\ n.pc = pc /\ n.todo = {} /\ n.flying = {}
  BY <1>0 DEF RunRecord
<1>3. Turns(k, n)
  BY <1>0, <1>1 DEF Turns, Began
<1>4. UNCHANGED <<push, tokens, rows, pushes>>
  BY DEF Push!Enqueue
<1>5. push.status \in {"queued", "running"}
  BY <1>0 DEF PushInductive, AtWork
<1>6. AtWork(run[k])
  BY <1>0 DEF AtWork
<1>7. push' = push /\ tokens' = tokens /\ rows' = rows /\ pushes' = pushes
  BY <1>4
<1>. QED
  BY <1>0, <1>2, <1>3, <1>5, <1>6, <1>7, OffSends, FS_EmptySet DEF PushInductive, PushTyped

\* The settings are gone.
LEMMA NotConfiguredKeeps ==
    ASSUME PushSizes, PushInductive, NEW k \in Runs, Push!NotConfigured(k)
    PROVE  PushInductive'
<1>. DEFINE n == [run[k] EXCEPT !.pc = "over"]
<1>0. run[k] \in RunRecord /\ run[k].pc = "queued" /\ run[k].todo = {} /\ run[k].flying = {}
  BY DEF PushInductive, PushTyped, Push!NotConfigured, RunRight
<1>1. run' = [run EXCEPT ![k] = n]
  BY DEF Push!NotConfigured
<1>2. n \in RunRecord /\ n.pc = "over" /\ n.todo = {} /\ n.flying = {}
  BY <1>0 DEF RunRecord
<1>3. Turns(k, n)
  BY <1>0, <1>1 DEF Turns, Began
<1>4. tokens' = tokens /\ rows' = rows /\ pushes' = pushes
      /\ push' = [push EXCEPT !.status = "failed"]
  BY DEF Push!NotConfigured
<1>5. /\ push' \in [status : {"draft", "queued", "running", "completed", "failed"},
                    sent : Nat, failed : Nat, total : Nat]
      /\ push'.total = push.total /\ push'.status = "failed"
  BY <1>4 DEF PushInductive, PushTyped
<1>6. AtWork(run[k]) /\ ~AtWork(n)
  BY <1>0, <1>2 DEF AtWork
<1>7. tokens' \subseteq Devices
  BY <1>4 DEF PushInductive, PushTyped
<1>. QED
  BY <1>0, <1>2, <1>3, <1>4, <1>5, <1>6, <1>7, OffSends, FS_EmptySet

\* The worker stops.
LEMMA JobStopsKeeps ==
    ASSUME PushSizes, PushInductive, NEW k \in Runs, Push!JobStops(k)
    PROVE  PushInductive'
<1>. DEFINE n == [Push!NotQueued EXCEPT !.pc = "over"]
<1>0. /\ run[k] \in RunRecord /\ run[k].pc # "none"
      /\ run[k].pc = "over" => run[k].todo # {} \/ run[k].flying # {}
  BY DEF PushInductive, PushTyped, Push!JobStops
<1>1. run' = [run EXCEPT ![k] = n]
  BY DEF Push!JobStops, Push!Stopped
<1>2. n \in RunRecord /\ n.pc = "over" /\ n.todo = {} /\ n.flying = {}
  BY DEF RunRecord, Push!NotQueued
<1>3. Turns(k, n)
  BY <1>1, <1>2 DEF Turns, Began
<1>4. tokens' = tokens /\ rows' = rows /\ pushes' = pushes /\ push' = push
  BY DEF Push!JobStops
<1>5. ~AtWork(n)
  BY <1>2 DEF AtWork
<1>6. push'.status = "completed" => \E j \in Runs : ReachedAll(j)'
  <2>. SUFFICES ASSUME push.status = "completed" PROVE \E j \in Runs : ReachedAll(j)'
    BY <1>4
  <2>1. PICK j \in Runs : ReachedAll(j)
    BY DEF PushInductive
  <2>2. j # k
    BY <1>0, <2>1, <1>2 DEF ReachedAll
  <2>3. ReachedAll(j)'
    BY <1>0, <1>2, <1>3, <1>4, <2>1, <2>2, ReachedStays
  <2>. QED
    BY <2>3
<1>. QED
  BY <1>0, <1>2, <1>3, <1>4, <1>5, <1>6, OffSends, FS_EmptySet DEF PushInductive, PushTyped

\* The job starts with the tokens of this moment.
LEMMA StartKeeps ==
    ASSUME PushSizes, PushInductive, NEW k \in Runs, Push!Start(k)
    PROVE  PushInductive'
<1>. DEFINE n == [Push!NotQueued EXCEPT !.pc = "sending", !.targets = tokens, !.todo = tokens]
<1>0. run[k] \in RunRecord /\ run[k].pc = "queued" /\ tokens \subseteq Devices
  BY DEF PushInductive, PushTyped, Push!Start
<1>1. /\ n \in RunRecord /\ n.pc = "sending" /\ n.targets = tokens /\ n.todo = tokens
      /\ n.flying = {} /\ n.sent = 0 /\ n.failed = 0
  BY <1>0 DEF RunRecord, Push!NotQueued
<1>2. Turns(k, n)
  BY <1>0 DEF Turns, Began, Push!Start
<1>3. /\ run' \in [Runs -> RunRecord] /\ run'[k] = n
      /\ \A j \in Runs : j # k => run'[j] = run[j]
  BY <1>1, <1>2, TurnsEffect
<1>4. Cardinality(tokens) \in Nat
  BY <1>0, FS_Subset, FS_CardinalityType DEF PushSizes
<1>5. /\ push' = [push EXCEPT !.status = "running", !.total = Cardinality(tokens)]
      /\ UNCHANGED <<tokens, rows, pushes>>
  BY PushCounts DEF Push!Start
<1>6. /\ PushTyped' /\ push'.status = "running" /\ push'.total = Cardinality(tokens)
  BY <1>3, <1>4, <1>5 DEF PushTyped, PushInductive
<1>7. AtWork(run[k]) /\ \A j \in Runs : j # k => ~AtWork(run[j])
  BY <1>0 DEF PushInductive, AtWork
<1>8. ASSUME NEW j \in Runs PROVE RunRight(j, run[j])'
  <2>1. CASE j = k
    <3>1. Cardinality({}) = 0 /\ IsFiniteSet({})
      BY FS_EmptySet
    <3>2. /\ \A t \in n.targets : t \in n.todo
          /\ \A t \in n.todo : \A a \in Push!Answers : <<t, a>> \notin n.flying
          /\ n.sent + n.failed + Cardinality(n.todo) + Cardinality(n.flying)
               = Cardinality(n.targets)
      <4>1. Cardinality(n.todo) = Cardinality(tokens) /\ Cardinality(n.flying) = 0
            /\ Cardinality(n.targets) = Cardinality(tokens)
        BY <1>1, <3>1
      <4>2. n.sent + n.failed + Cardinality(n.todo) + Cardinality(n.flying)
              = Cardinality(n.targets)
        BY <1>1, <1>4, <4>1
      <4>. QED
        BY <1>1, <4>2
    <3>. QED
      BY <1>1, <1>3, <1>6, <2>1, <3>1, <3>2 DEF RunRight, Flying
  <2>2. CASE j # k
    BY <1>3, <1>5, <1>7, <2>2 DEF PushInductive, RunRight, AtWork
  <2>. QED
    BY <2>1, <2>2
<1>9. \A t \in Devices : pushes'[t] <= Cardinality(Used(t)')
  BY <1>1, <1>2, <1>5, QuietTurn
<1>10. \A i, j \in Runs : AtWork(run'[i]) /\ AtWork(run'[j]) => i = j
  BY <1>3, <1>7
<1>. QED
  BY <1>6, <1>8, <1>9, <1>10 DEF PushInductive

\* One token is taken from those to do and is under way.
Taken(x, t, a) == [x EXCEPT !.todo = @ \ {t}, !.flying = @ \cup {<<t, a>>}]

\* The job begins one of its sends.
LEMMA SendKeeps ==
    ASSUME PushSizes, PushInductive, NEW k \in Runs, NEW t \in Devices, Push!Send(k, t)
    PROVE  PushInductive'
<1>1. PICK a \in Push!Answers :
        /\ run' = [run EXCEPT ![k].todo = @ \ {t}, ![k].flying = @ \cup {<<t, a>>}]
        /\ pushes' = pushes \/ pushes' = [pushes EXCEPT ![t] = @ + 1]
  BY DEF Push!Send, Push!Answers
<1>. DEFINE n == Taken(run[k], t, a)
<1>2. /\ run[k] \in RunRecord /\ t \in run[k].todo /\ RunRight(k, run[k])
      /\ UNCHANGED <<push, tokens, rows>>
  BY DEF Push!Send, PushInductive, PushTyped
<1>3. /\ n \in RunRecord /\ n.pc = run[k].pc /\ n.todo = run[k].todo \ {t}
      /\ n.flying = run[k].flying \cup {<<t, a>>} /\ n.targets = run[k].targets
      /\ n.sent = run[k].sent /\ n.failed = run[k].failed
  <2>1. <<t, a>> \in Devices \X Push!Answers
    OBVIOUS
  <2>2. run[k].flying \cup {<<t, a>>} \in SUBSET (Devices \X Push!Answers)
    BY <1>2, <2>1 DEF RunRecord
  <2>3. run[k].todo \ {t} \in SUBSET Devices
    BY <1>2 DEF RunRecord
  <2>. QED
    BY <1>2, <2>2, <2>3 DEF RunRecord, Taken
<1>4. Began(run[k])
  BY <1>2 DEF RunRight, Began, RunRecord
<1>5. run' = [run EXCEPT ![k] = n] /\ Turns(k, n)
  BY <1>1, <1>3, <1>4 DEF Turns, Taken, Began
<1>6. /\ run' \in [Runs -> RunRecord] /\ run'[k] = n
      /\ \A j \in Runs : j # k => run'[j] = run[j]
  BY <1>3, <1>5, TurnsEffect
<1>7. pushes' \in [Devices -> Nat]
  BY <1>1 DEF PushInductive, PushTyped
<1>8. PushTyped'
  BY <1>2, <1>6, <1>7 DEF PushTyped, PushInductive
<1>9. RunRight(k, n)
  <2>1. IsFiniteSet(run[k].flying) /\ IsFiniteSet(run[k].todo) /\ IsFiniteSet(run[k].targets)
    <3>1. run[k].todo \in SUBSET Devices /\ run[k].targets \in SUBSET Devices
      BY <1>2 DEF RunRecord
    <3>. QED
      BY <1>2, <3>1, FS_Subset DEF RunRight, PushSizes
  <2>2. IsFiniteSet(n.flying)
    <3>1. IsFiniteSet(run[k].flying \cup {<<t, a>>})
      BY <2>1, FS_AddElement
    <3>. QED
      BY <1>3, <3>1
  <2>3. CASE run[k].pc = "sending"
    <3>1. ~Flying(run[k], t) /\ <<t, a>> \notin run[k].flying
      BY <1>2, <2>3 DEF RunRight, Flying
    <3>2. /\ Cardinality(n.flying) = Cardinality(run[k].flying) + 1
          /\ Cardinality(n.todo) = Cardinality(run[k].todo) - 1
          /\ Cardinality(run[k].todo) \in Nat /\ Cardinality(run[k].flying) \in Nat
      <4>1. Cardinality(n.flying) = Cardinality(run[k].flying) + 1
        <5>1. Cardinality(run[k].flying \cup {<<t, a>>}) = Cardinality(run[k].flying) + 1
          BY <2>1, <3>1, FS_AddElement
        <5>. QED
          BY <1>3, <5>1
      <4>2. IsFiniteSet(run[k].todo \ {t})
        BY <2>1, FS_Subset
      <4>3. Cardinality((run[k].todo \ {t}) \cup {t}) = Cardinality(run[k].todo \ {t}) + 1
        BY <4>2, FS_AddElement
      <4>4. (run[k].todo \ {t}) \cup {t} = run[k].todo
        BY <1>2
      <4>5. Cardinality(run[k].todo) = Cardinality(n.todo) + 1
        BY <1>3, <4>3, <4>4
      <4>6. /\ Cardinality(run[k].todo) \in Nat /\ Cardinality(run[k].flying) \in Nat
            /\ Cardinality(n.todo) \in Nat
        BY <1>3, <2>1, <4>2, FS_CardinalityType
      <4>. QED
        BY <4>1, <4>5, <4>6
    <3>3. \A s : Flying(n, s) <=> Flying(run[k], s) \/ s = t
      BY <1>3 DEF Flying
    <3>4. run[k].sent \in Nat /\ run[k].failed \in Nat
      BY <1>2 DEF RunRecord
    <3>5. n.sent + n.failed + Cardinality(n.todo) + Cardinality(n.flying)
            = Cardinality(n.targets)
      BY <1>2, <1>3, <2>3, <3>2, <3>4 DEF RunRight
    <3>6. /\ \A s \in n.targets : s \in n.todo \/ Flying(n, s) \/ <<k, s>> \in rows
          /\ \A s \in n.todo : ~Flying(n, s)
      BY <1>2, <1>3, <2>3, <3>3 DEF RunRight
    <3>. QED
      BY <1>2, <1>3, <2>2, <2>3, <3>5, <3>6 DEF RunRight
  <2>4. CASE run[k].pc # "sending"
    BY <1>2, <1>3, <1>4, <2>2, <2>4 DEF RunRight, Began
  <2>. QED
    BY <2>3, <2>4
<1>10. ASSUME NEW j \in Runs PROVE RunRight(j, run[j])'
  BY <1>2, <1>6, <1>9 DEF PushInductive, RunRight, Flying
<1>11. ASSUME NEW s \in Devices PROVE pushes'[s] <= Cardinality(Used(s)')
  <2>1. /\ Used(s) \subseteq Used(s)' /\ IsFiniteSet(Used(s)')
        /\ Cardinality(Used(s)) \in Nat /\ Cardinality(Used(s)') \in Nat
        /\ Cardinality(Used(s)) <= Cardinality(Used(s)')
    BY <1>3, <1>5, UsedGrows
  <2>2. pushes[s] \in Nat /\ pushes[s] <= Cardinality(Used(s))
    BY DEF PushInductive, PushTyped
  <2>3. CASE pushes'[s] = pushes[s]
    BY <2>1, <2>2, <2>3
  <2>4. CASE s = t
    <3>1. k \notin Used(t) /\ k \in Used(t)'
      BY <1>2, <1>3, <1>4, <1>6 DEF Used, Began
    <3>2. Used(t) \cup {k} \subseteq Used(t)' /\ IsFiniteSet(Used(t))
      BY <2>1, <2>4, <3>1, FS_Subset
    <3>3. Cardinality(Used(t) \cup {k}) = Cardinality(Used(t)) + 1
      BY <3>1, <3>2, FS_AddElement
    <3>4. Cardinality(Used(t)) + 1 <= Cardinality(Used(t)')
      BY <2>1, <2>4, <3>2, <3>3, FS_Subset
    <3>5. pushes'[t] <= pushes[t] + 1
      BY <1>1, <2>2, <2>4 DEF PushInductive, PushTyped
    <3>. QED
      BY <2>1, <2>2, <2>4, <3>4, <3>5, <1>7
  <2>. QED
    BY <1>1, <2>3, <2>4 DEF PushInductive, PushTyped
<1>12. /\ \A i, j \in Runs : AtWork(run'[i]) /\ AtWork(run'[j]) => i = j
       /\ (\E j \in Runs : AtWork(run'[j])) => push'.status \in {"queued", "running"}
  BY <1>2, <1>3, <1>6 DEF PushInductive, AtWork
<1>13. push'.status = "completed" => \E j \in Runs : ReachedAll(j)'
  <2>. SUFFICES ASSUME push.status = "completed" PROVE \E j \in Runs : ReachedAll(j)'
    BY <1>2
  <2>1. PICK j \in Runs : ReachedAll(j)
    BY DEF PushInductive
  <2>2. j # k
    BY <1>2, <2>1 DEF ReachedAll
  <2>3. n.pc # "none" /\ run[k].pc # "none"
    BY <1>3, <1>4 DEF Began
  <2>4. ReachedAll(j)'
    BY <1>2, <1>3, <1>5, <2>1, <2>2, <2>3, ReachedStays
  <2>. QED
    BY <2>4
<1>. QED
  BY <1>8, <1>10, <1>11, <1>12, <1>13 DEF PushInductive

\* The row of one send is written, and the send counted.
LEMMA CountIs ==
    ASSUME NEW x \in RunRecord, NEW f, IsFiniteSet(x.flying), f \in x.flying
    PROVE  LET n == Push!Count(x, f)
           IN  /\ n \in RunRecord /\ n.pc = x.pc /\ n.todo = x.todo /\ n.targets = x.targets
               /\ n.flying = x.flying \ {f} /\ IsFiniteSet(n.flying)
               /\ n.sent + n.failed = x.sent + x.failed + 1
               /\ Cardinality(x.flying) = Cardinality(n.flying) + 1
               /\ Cardinality(n.flying) \in Nat
<1>. DEFINE n == Push!Count(x, f)
<1>1. x.sent \in Nat /\ x.failed \in Nat /\ x.flying \in SUBSET (Devices \X Push!Answers)
  BY DEF RunRecord
<1>2. /\ n \in RunRecord /\ n.pc = x.pc /\ n.todo = x.todo /\ n.targets = x.targets
      /\ n.flying = x.flying \ {f}
  <2>1. x.flying \ {f} \in SUBSET (Devices \X Push!Answers)
    BY <1>1
  <2>2. /\ x.sent + (IF f[2] = "sent" THEN 1 ELSE 0) \in Nat
        /\ x.failed + (IF f[2] = "sent" THEN 0 ELSE 1) \in Nat
    BY <1>1
  <2>. QED
    BY <2>1, <2>2 DEF RunRecord, Push!Count
<1>3. n.sent + n.failed = x.sent + x.failed + 1
  BY <1>1 DEF RunRecord, Push!Count
<1>4. IsFiniteSet(x.flying \ {f})
  BY FS_Subset
<1>5. Cardinality((x.flying \ {f}) \cup {f}) = Cardinality(x.flying \ {f}) + 1
  BY <1>4, FS_AddElement
<1>6. (x.flying \ {f}) \cup {f} = x.flying
  OBVIOUS
<1>7. Cardinality(x.flying \ {f}) \in Nat
  BY <1>4, FS_CardinalityType
<1>. QED
  BY <1>2, <1>3, <1>4, <1>5, <1>6, <1>7

\* The row of a send, with the counters of the campaign at intervals.
LEMMA RecordKeeps ==
    ASSUME PushSizes, PushInductive, NEW k \in Runs, NEW f, Push!Record(k, f)
    PROVE  PushInductive'
<1>0. PICK n : n = Push!Count(run[k], f)
  OBVIOUS
<1>1. /\ run[k] \in RunRecord /\ f \in run[k].flying /\ RunRight(k, run[k])
      /\ run' = [run EXCEPT ![k] = n] /\ pushes' = pushes
      /\ rows' = rows \cup {<<k, f[1]>>}
      /\ tokens' \subseteq Devices
      /\ push' = push \/ push' = [push EXCEPT !.sent = n.sent, !.failed = n.failed]
  BY <1>0 DEF Push!Record, PushInductive, PushTyped
<1>2. /\ n \in RunRecord /\ n.pc = run[k].pc /\ n.todo = run[k].todo
      /\ n.targets = run[k].targets
      /\ n.flying = run[k].flying \ {f} /\ IsFiniteSet(n.flying)
      /\ n.sent + n.failed = run[k].sent + run[k].failed + 1
      /\ Cardinality(run[k].flying) = Cardinality(n.flying) + 1
      /\ Cardinality(n.flying) \in Nat
  BY <1>0, <1>1, CountIs DEF RunRight
<1>3. Began(run[k])
  BY <1>1 DEF RunRight, Began, RunRecord
<1>4. Turns(k, n)
  BY <1>1, <1>2, <1>3 DEF Turns, Began
<1>5. /\ run' \in [Runs -> RunRecord] /\ run'[k] = n
      /\ \A j \in Runs : j # k => run'[j] = run[j]
  BY <1>2, <1>4, TurnsEffect
<1>6. /\ push' \in [status : {"draft", "queued", "running", "completed", "failed"},
                    sent : Nat, failed : Nat, total : Nat]
      /\ push'.status = push.status /\ push'.total = push.total
  <2>1. n.sent \in Nat /\ n.failed \in Nat
    BY <1>2 DEF RunRecord
  <2>. QED
    BY <1>1, <2>1 DEF PushInductive, PushTyped
<1>7. PushTyped'
  BY <1>1, <1>5, <1>6 DEF PushTyped, PushInductive
<1>8. RunRight(k, n)'
  <2>1. CASE run[k].pc = "sending"
    <3>1. f = <<f[1], f[2]>> /\ f[1] \in Devices /\ f[2] \in Push!Answers
      BY <1>1 DEF RunRecord
    <3>2. \A s : Flying(run[k], s) => Flying(n, s) \/ s = f[1]
      BY <1>2, <3>1 DEF Flying
    <3>3. \A s : Flying(n, s) => Flying(run[k], s)
      BY <1>2 DEF Flying
    <3>4. \A s \in n.targets : s \in n.todo \/ Flying(n, s) \/ <<k, s>> \in rows'
      BY <1>1, <1>2, <2>1, <3>2 DEF RunRight
    <3>5. \A s \in n.todo : ~Flying(n, s)
      BY <1>1, <1>2, <2>1, <3>3 DEF RunRight
    <3>6. IsFiniteSet(run[k].todo)
      <4>1. run[k].todo \in SUBSET Devices
        BY <1>1 DEF RunRecord
      <4>. QED
        BY <4>1, FS_Subset DEF PushSizes
    <3>7. n.sent + n.failed + Cardinality(n.todo) + Cardinality(n.flying)
            = Cardinality(n.targets)
      <4>1. Cardinality(run[k].todo) \in Nat /\ run[k].sent \in Nat /\ run[k].failed \in Nat
            /\ n.sent \in Nat /\ n.failed \in Nat
        BY <1>1, <1>2, <3>6, FS_CardinalityType DEF RunRecord
      <4>2. run[k].sent + run[k].failed + Cardinality(run[k].todo) + Cardinality(run[k].flying)
              = Cardinality(run[k].targets)
        BY <1>1, <2>1 DEF RunRight
      <4>. QED
        BY <1>2, <4>1, <4>2
    <3>8. push'.total = Cardinality(n.targets)
      BY <1>1, <1>2, <1>6, <2>1 DEF RunRight
    <3>. QED
      BY <1>2, <2>1, <3>4, <3>5, <3>7, <3>8 DEF RunRight, Flying
  <2>2. CASE run[k].pc # "sending"
    BY <1>2, <1>3, <2>2 DEF RunRight, Began
  <2>. QED
    BY <2>1, <2>2
<1>9. ASSUME NEW j \in Runs PROVE RunRight(j, run[j])'
  <2>1. CASE j = k
    BY <1>5, <1>8, <2>1
  <2>2. CASE j # k
    BY <1>1, <1>5, <1>6, <2>2 DEF PushInductive, RunRight, Flying
  <2>. QED
    BY <2>1, <2>2
<1>10. \A t \in Devices : pushes'[t] <= Cardinality(Used(t)')
  BY <1>1, <1>2, <1>4, QuietTurn
<1>11. /\ \A i, j \in Runs : AtWork(run'[i]) /\ AtWork(run'[j]) => i = j
       /\ (\E j \in Runs : AtWork(run'[j])) => push'.status \in {"queued", "running"}
  BY <1>2, <1>5, <1>6 DEF PushInductive, AtWork
<1>12. push'.status = "completed" => \E j \in Runs : ReachedAll(j)'
  <2>. SUFFICES ASSUME push.status = "completed" PROVE \E j \in Runs : ReachedAll(j)'
    BY <1>6
  <2>1. PICK j \in Runs : ReachedAll(j)
    BY DEF PushInductive
  <2>2. j # k
    BY <1>1, <2>1 DEF ReachedAll
  <2>3. n.pc # "none" /\ run[k].pc # "none"
    BY <1>2, <1>3 DEF Began
  <2>4. ReachedAll(j)'
    BY <1>1, <1>2, <1>4, <2>1, <2>2, <2>3, ReachedStays
  <2>. QED
    BY <2>4
<1>. QED
  BY <1>7, <1>9, <1>10, <1>11, <1>12 DEF PushInductive

\* A row that cannot be written ends the job and leaves its other sends.
LEMMA RecordRaisesKeeps ==
    ASSUME PushSizes, PushInductive, NEW k \in Runs, NEW f, Push!RecordRaises(k, f)
    PROVE  PushInductive'
<1>. DEFINE n == [run[k] EXCEPT !.flying = @ \ {f},
                                !.pc = IF @ = "sending" THEN "raised" ELSE @]
<1>1. /\ run[k] \in RunRecord /\ f \in run[k].flying /\ RunRight(k, run[k])
      /\ run' = [run EXCEPT ![k] = n]
      /\ pushes' = pushes /\ rows' = rows /\ tokens' = tokens /\ push' = push
  BY DEF Push!RecordRaises, PushInductive, PushTyped
<1>2. Began(run[k])
  BY <1>1 DEF RunRight, Began, RunRecord
<1>3. n \in RunRecord /\ n.pc \in {"raised", "over"} /\ n.todo = run[k].todo
      /\ n.flying = run[k].flying \ {f} /\ (n.pc = "raised" => AtWork(run[k]))
  <2>1. run[k].flying \ {f} \in SUBSET (Devices \X Push!Answers)
    BY <1>1 DEF RunRecord
  <2>. QED
    BY <1>1, <1>2, <2>1 DEF RunRecord, Began, AtWork
<1>4. Turns(k, n)
  BY <1>1, <1>2, <1>3 DEF Turns, Began
<1>5. IsFiniteSet(n.flying)
  <2>1. IsFiniteSet(run[k].flying \ {f})
    BY <1>1, FS_Subset DEF RunRight
  <2>. QED
    BY <1>3, <2>1
<1>6. AtWork(n) => AtWork(run[k])
  BY <1>3 DEF AtWork
<1>7. push'.status = "completed" => \E j \in Runs : ReachedAll(j)'
  <2>. SUFFICES ASSUME push.status = "completed" PROVE \E j \in Runs : ReachedAll(j)'
    BY <1>1
  <2>1. PICK j \in Runs : ReachedAll(j)
    BY DEF PushInductive
  <2>2. j # k /\ n.pc # "none" /\ run[k].pc # "none"
    BY <1>1, <1>2, <1>3, <2>1 DEF ReachedAll, Began
  <2>3. ReachedAll(j)'
    BY <1>1, <1>3, <1>4, <2>1, <2>2, ReachedStays
  <2>. QED
    BY <2>3
<1>8. run[k].pc # "none"
  BY <1>2 DEF Began
<1>. QED
  BY <1>1, <1>3, <1>4, <1>5, <1>6, <1>7, <1>8, OffSends DEF PushInductive, PushTyped

\* gather returns.
LEMMA FinishKeeps ==
    ASSUME PushSizes, PushInductive, NEW k \in Runs, Push!Finish(k)
    PROVE  PushInductive'
<1>. DEFINE n == [run[k] EXCEPT !.pc = "over"]
<1>1. /\ run[k] \in RunRecord /\ RunRight(k, run[k])
      /\ \/ run[k].pc = "sending" /\ run[k].todo = {} /\ run[k].flying = {}
         \/ run[k].pc = "raised"
      /\ run' = [run EXCEPT ![k] = n]
      /\ push' = [push EXCEPT !.status = Push!FinalStatus(k), !.sent = run[k].sent,
                              !.failed = run[k].failed]
      /\ pushes' = pushes /\ rows' = rows /\ tokens' = tokens
  BY DEF Push!Finish, PushInductive, PushTyped
<1>2. /\ n \in RunRecord /\ n.pc = "over" /\ n.todo = run[k].todo
      /\ n.flying = run[k].flying /\ n.targets = run[k].targets
  BY <1>1 DEF RunRecord
<1>3. Began(run[k]) /\ AtWork(run[k]) /\ ~AtWork(n)
  BY <1>1, <1>2 DEF Began, AtWork
<1>4. Turns(k, n)
  BY <1>1, <1>2 DEF Turns, Began
<1>5. /\ run' \in [Runs -> RunRecord] /\ run'[k] = n
      /\ \A j \in Runs : j # k => run'[j] = run[j]
  BY <1>2, <1>4, TurnsEffect
<1>6. /\ push' \in [status : {"draft", "queued", "running", "completed", "failed"},
                    sent : Nat, failed : Nat, total : Nat]
      /\ push'.sent = run[k].sent /\ push'.failed = run[k].failed /\ push'.total = push.total
      /\ push'.status = Push!FinalStatus(k)
  BY <1>1 DEF RunRecord, PushInductive, PushTyped, Push!FinalStatus
<1>7. PushTyped'
  BY <1>1, <1>5, <1>6 DEF PushTyped, PushInductive
<1>8. \A j \in Runs : j # k => ~AtWork(run[j])
  BY <1>3 DEF PushInductive
<1>9. ASSUME NEW j \in Runs PROVE RunRight(j, run[j])'
  <2>1. CASE j = k
    BY <1>1, <1>2, <1>5, <2>1 DEF RunRight
  <2>2. CASE j # k
    BY <1>1, <1>5, <1>8, <2>2 DEF PushInductive, RunRight, AtWork
  <2>. QED
    BY <2>1, <2>2
<1>10. \A t \in Devices : pushes'[t] <= Cardinality(Used(t)')
  BY <1>1, <1>2, <1>4, QuietTurn
<1>11. \A j \in Runs : ~AtWork(run'[j])
  BY <1>3, <1>5, <1>8
<1>12. push'.status = "completed" => ReachedAll(k)'
  <2>. SUFFICES ASSUME run[k].pc = "sending" PROVE ReachedAll(k)'
    BY <1>1, <1>6 DEF Push!FinalStatus
  <2>1. Cardinality(run[k].todo) = 0 /\ Cardinality(run[k].flying) = 0
    BY <1>1, FS_EmptySet
  <2>2. push'.sent + push'.failed = push'.total
    BY <1>1, <1>6, <2>1 DEF RunRight, RunRecord
  <2>3. \A t \in run[k].targets : <<k, t>> \in rows'
    BY <1>1 DEF RunRight, Flying
  <2>. QED
    BY <1>1, <1>2, <1>5, <2>2, <2>3 DEF ReachedAll
<1>. QED
  BY <1>7, <1>9, <1>10, <1>11, <1>12 DEF PushInductive

\* The phones.
LEMMA PhonesKeep ==
    ASSUME PushInductive, NEW t \in Devices, Push!Register(t) \/ Push!Unregister(t)
    PROVE  PushInductive'
<1>1. /\ tokens' \subseteq Devices
      /\ push' = push /\ run' = run /\ rows' = rows /\ pushes' = pushes
  BY DEF Push!Register, Push!Unregister, PushInductive, PushTyped
<1>. QED
  BY <1>1 DEF PushInductive, PushTyped, RunRight, ReachedAll, Used

\* Every step of the push campaign.
LEMMA PushNextKeeps == PushSizes /\ PushInductive /\ [Push!Next]_pushVars => PushInductive'
<1>. SUFFICES ASSUME PushSizes, PushInductive, [Push!Next]_pushVars PROVE PushInductive'
  OBVIOUS
<1>1. CASE Push!Next
  BY <1>1, LaunchKeeps, EnqueueKeeps, NotConfiguredKeeps, StartKeeps, FinishKeeps, JobStopsKeeps,
     SendKeeps, RecordKeeps, RecordRaisesKeeps, PhonesKeep DEF Push!Next
<1>2. CASE UNCHANGED pushVars
  BY <1>2 DEF pushVars, PushInductive, PushTyped, RunRight, ReachedAll, Used
<1>. QED
  BY <1>1, <1>2

\* What the ledgers are for.
LEMMA PushConcludes == PushSizes /\ PushInductive => Push!PushLaunchesSound
<1>. SUFFICES ASSUME PushSizes, PushInductive PROVE Push!PushLaunchesSound
  OBVIOUS
<1>1. Push!Launched \subseteq Runs /\ IsFiniteSet(Push!Launched)
      /\ Cardinality(Push!Launched) \in Nat
  BY FS_Subset, FS_CardinalityType DEF Push!Launched, PushSizes
<1>2. ASSUME NEW t \in Devices PROVE pushes[t] <= Cardinality(Push!Launched)
  <2>1. Used(t) \subseteq Push!Launched
    BY DEF Used, Push!Launched, Began
  <2>2. /\ Cardinality(Used(t)) <= Cardinality(Push!Launched)
        /\ Cardinality(Used(t)) \in Nat
    BY <1>1, <2>1, FS_Subset, FS_CardinalityType
  <2>3. pushes[t] \in Nat /\ pushes[t] <= Cardinality(Used(t))
    BY DEF PushInductive, PushTyped
  <2>. QED
    BY <1>1, <2>2, <2>3
<1>3. ASSUME push.status = "completed"
      PROVE  \E k \in Push!Launched :
                /\ \A t \in run[k].targets : <<k, t>> \in rows
                /\ Cardinality(Push!Launched) = 1 => push.sent + push.failed = push.total
  <2>1. PICK k \in Runs : ReachedAll(k)
    BY <1>3 DEF PushInductive
  <2>2. k \in Push!Launched
    BY <2>1 DEF Push!Launched, ReachedAll
  <2>3. ASSUME Cardinality(Push!Launched) = 1 PROVE push.sent + push.failed = push.total
    <3>1. PICK x : Push!Launched = {x}
      BY <1>1, <2>3, FS_Singleton
    <3>2. \A j \in Runs : j # k => run[j].pc = "none"
      BY <2>2, <3>1 DEF Push!Launched
    <3>. QED
      BY <2>1, <3>2 DEF ReachedAll
  <2>. QED
    BY <2>1, <2>2, <2>3 DEF ReachedAll
<1>. QED
  BY <1>2, <1>3, PushCounts
     DEF Push!PushLaunchesSound, Push!PushedOncePerLaunch, Push!PushCompletedReachedAll

-----------------------------------------------------------------------------
(***************************************************************************)
(* Support tickets.                                                        *)
(***************************************************************************)

\* A request takes one path.
DeskRecord ==
    [step : Desk!Steps, kind : {"none", "create", "user", "admin", "delete"},
     on : Tickets \cup {"none"}, seen : Desk!Statuses,
     left : Nat, written : SUBSET (Posts \X Nat), posted : BOOLEAN]

DeskTyped ==
    /\ ticket \in [Tickets -> Desk!Statuses]
    /\ message \in [Posts -> [in : Tickets \cup {"none"}, images : SUBSET (Posts \X Nat)]]
    /\ deskRequest \in [Posts -> DeskRecord]

\* What request r keeps on disk is its own, and is there.
OwnImages(r, x) ==
    /\ x.step = "files" => x.written \subseteq file /\ \A i \in x.written : i[1] = r
    /\ x.step = "idle" => x.written = {}
    /\ x.posted => x.step = "done"

\* What is unlinked was posted, and its row is gone.
RowsGone(x) ==
    x.step = "unlink" =>
        \A i \in x.written : deskRequest[i[1]].posted /\ i \notin message[i[1]].images

DeskInductive ==
    /\ DeskTyped
    /\ \A r \in Posts : OwnImages(r, deskRequest[r]) /\ RowsGone(deskRequest[r])
    /\ \A r \in Posts : \A i \in message[r].images : i[1] = r /\ i \in file

\* No ticket has been opened.
LEMMA DeskBegins == Desk!Init => DeskInductive
BY DEF Desk!Init, DeskInductive, DeskTyped, DeskRecord, OwnImages, RowsGone, Desk!NoMessage, Desk!Steps,
       Desk!Statuses

\* Request r goes on as n, and nothing else that counts changes but what is posted.
LEMMA DeskMoves ==
    ASSUME DeskInductive, NEW r \in Posts, NEW n \in DeskRecord,
           deskRequest' = [deskRequest EXCEPT ![r] = n],
           ticket' \in [Tickets -> Desk!Statuses],
           message' \in [Posts -> [in : Tickets \cup {"none"}, images : SUBSET (Posts \X Nat)]],
           deskRequest[r].posted => n.posted,
           OwnImages(r, n)', RowsGone(n)',
           \A q \in Posts : q # r => message'[q].images \subseteq message[q].images,
           \A i \in message'[r].images : i[1] = r /\ i \in file',
           deskRequest[r].posted => message'[r].images \subseteq message[r].images,
           \A i \in file \ file' : deskRequest[i[1]].posted /\ i \notin message'[i[1]].images
    PROVE  DeskInductive'
<1>1. /\ deskRequest' \in [Posts -> DeskRecord] /\ deskRequest'[r] = n
      /\ \A q \in Posts : q # r => deskRequest'[q] = deskRequest[q]
  BY DEF DeskInductive, DeskTyped
<1>2. DeskTyped'
  BY <1>1 DEF DeskTyped
<1>3. \A q \in Posts : deskRequest[q].posted => deskRequest'[q].posted
  BY <1>1
<1>4. ASSUME NEW q \in Posts, q # r PROVE OwnImages(q, deskRequest[q])'
  BY <1>1, <1>4 DEF DeskInductive, DeskTyped, DeskRecord, OwnImages
<1>5. ASSUME NEW q \in Posts, q # r PROVE RowsGone(deskRequest[q])'
  <2>1. deskRequest'[q] = deskRequest[q] /\ deskRequest[q].written \subseteq Posts \X Nat
    BY <1>1, <1>5 DEF DeskInductive, DeskTyped, DeskRecord
  <2>. SUFFICES ASSUME deskRequest[q].step = "unlink", NEW i \in deskRequest[q].written
                PROVE  deskRequest'[i[1]].posted /\ i \notin message'[i[1]].images
    BY <2>1 DEF RowsGone
  <2>2. i[1] \in Posts /\ deskRequest[i[1]].posted /\ i \notin message[i[1]].images
    BY <2>1 DEF DeskInductive, RowsGone
  <2>. QED
    BY <1>3, <2>2
<1>6. ASSUME NEW q \in Posts, NEW i \in message'[q].images PROVE i[1] = q /\ i \in file'
  <2>1. CASE q = r
    BY <1>6, <2>1
  <2>2. CASE q # r
    <3>1. i \in message[q].images
      BY <1>6, <2>2
    <3>2. i[1] = q /\ i \in file
      BY <3>1 DEF DeskInductive
    <3>. QED
      BY <1>6, <3>2
  <2>. QED
    BY <2>1, <2>2
<1>7. OwnImages(r, deskRequest[r])' /\ RowsGone(deskRequest[r])'
  BY <1>1 DEF OwnImages, RowsGone
<1>. QED
  BY <1>2, <1>4, <1>5, <1>6, <1>7 DEF DeskInductive

\* A request that touches neither rows nor files.
LEMMA DeskReads ==
    ASSUME DeskInductive, NEW r \in Posts, NEW n \in DeskRecord,
           deskRequest' = [deskRequest EXCEPT ![r] = n],
           ticket' \in [Tickets -> Desk!Statuses], message' = message, file' = file,
           n.posted = deskRequest[r].posted,
           n.posted => n.step = "done",
           n.step # "idle", n.step # "unlink",
           n.step = "files" => n.written = {}
    PROVE  DeskInductive'
BY DeskMoves DEF DeskInductive, DeskTyped, OwnImages, RowsGone

\* Tickets are counted, opened and read, and get another status.
LEMMA TicketKeeps ==
    ASSUME DeskInductive, NEW r \in Posts,
           \/ Desk!CountOpen(r)
           \/ \E kind \in {"user", "admin"}, n \in 0..MaxImages : Desk!ReadTicket(r, kind, n)
           \/ \E s \in Desk!Statuses \ {"absent"} : Desk!SetStatus(r, s)
    PROVE  DeskInductive'
<1>1. deskRequest[r] \in DeskRecord /\ OwnImages(r, deskRequest[r])
  BY DEF DeskInductive, DeskTyped
<1>2. deskRequest[r].step = "idle" /\ message' = message /\ file' = file
  BY DEF Desk!CountOpen, Desk!ReadTicket, Desk!SetStatus, Desk!MayStart
<1>3. ~deskRequest[r].posted /\ deskRequest[r].written = {}
  BY <1>1, <1>2 DEF OwnImages
<1>4. CASE Desk!CountOpen(r)
  <2>1. PICK t \in Tickets :
           deskRequest' = IF Desk!Cardinality(Desk!Open) >= MaxOpen THEN Desk!Ends(r)
                          ELSE [deskRequest EXCEPT ![r].step = "create",
                                                   ![r].kind = "create", ![r].on = t]
    BY <1>4 DEF Desk!CountOpen
  <2>2. ticket' = ticket
    BY <1>4 DEF Desk!CountOpen
  <2>3. PICK n : n = IF Desk!Cardinality(Desk!Open) >= MaxOpen
                     THEN [deskRequest[r] EXCEPT !.step = "done"]
                     ELSE [deskRequest[r] EXCEPT !.step = "create", !.kind = "create", !.on = t]
    OBVIOUS
  <2>4. /\ n \in DeskRecord /\ n.step \in {"done", "create"}
        /\ n.posted = deskRequest[r].posted
    BY <1>1, <2>3 DEF DeskRecord, Desk!Steps
  <2>5. deskRequest' = [deskRequest EXCEPT ![r] = n]
    BY <2>1, <2>3 DEF Desk!Ends
  <2>. QED
    BY <1>2, <1>3, <2>2, <2>4, <2>5, DeskReads DEF DeskInductive, DeskTyped
<1>5. CASE \E kind \in {"user", "admin"}, n \in 0..MaxImages : Desk!ReadTicket(r, kind, n)
  <2>1. PICK kind \in {"user", "admin"}, m \in 0..MaxImages, t \in Tickets :
           /\ deskRequest' = [deskRequest EXCEPT
                                ![r].step = "files", ![r].kind = kind, ![r].on = t,
                                ![r].seen = ticket[t], ![r].left = m]
           /\ ticket' = ticket
    BY <1>5 DEF Desk!ReadTicket
  <2>2. PICK n : n = [deskRequest[r] EXCEPT !.step = "files", !.kind = kind, !.on = t,
                                            !.seen = ticket[t], !.left = m]
    OBVIOUS
  <2>3. ticket[t] \in Desk!Statuses /\ m \in Nat
    BY DEF DeskInductive, DeskTyped
  <2>4. /\ n \in DeskRecord /\ n.step = "files" /\ n.posted = deskRequest[r].posted
        /\ n.written = deskRequest[r].written
    BY <1>1, <2>2, <2>3 DEF DeskRecord, Desk!Steps
  <2>5. deskRequest' = [deskRequest EXCEPT ![r] = n]
    BY <2>1, <2>2
  <2>6. ticket' \in [Tickets -> Desk!Statuses]
    BY <2>1 DEF DeskInductive, DeskTyped
  <2>7. ~n.posted /\ n.written = {}
    BY <1>3, <2>4
  <2>. QED
    BY <1>2, <1>3, <2>4, <2>5, <2>6, <2>7, DeskReads
<1>6. CASE \E s \in Desk!Statuses \ {"absent"} : Desk!SetStatus(r, s)
  <2>1. ticket' \in [Tickets -> Desk!Statuses] /\ deskRequest' = Desk!Ends(r)
    BY <1>6 DEF Desk!SetStatus, DeskInductive, DeskTyped
  <2>2. PICK n : n = [deskRequest[r] EXCEPT !.step = "done"]
    OBVIOUS
  <2>3. n \in DeskRecord /\ n.step = "done" /\ n.posted = deskRequest[r].posted
    BY <1>1, <2>2 DEF DeskRecord, Desk!Steps
  <2>4. deskRequest' = [deskRequest EXCEPT ![r] = n]
    BY <2>1, <2>2 DEF Desk!Ends
  <2>. QED
    BY <1>2, <2>1, <2>3, <2>4, DeskReads
<1>. QED
  BY <1>4, <1>5, <1>6

\* A ticket is inserted with its first message, which has no images.
LEMMA InsertKeeps ==
    ASSUME DeskInductive, NEW r \in Posts, Desk!InsertTicket(r)
    PROVE  DeskInductive'
<1>1. deskRequest[r] \in DeskRecord /\ OwnImages(r, deskRequest[r])
  BY DEF DeskInductive, DeskTyped
<1>2. /\ deskRequest[r].step = "create" /\ file' = file /\ deskRequest' = Desk!Ends(r)
      /\ message' = [message EXCEPT ![r].in = deskRequest[r].on]
      /\ ticket' = [ticket EXCEPT ![deskRequest[r].on] = "open"]
  BY DEF Desk!InsertTicket
<1>3. PICK n : n = [deskRequest[r] EXCEPT !.step = "done"]
  OBVIOUS
<1>4. n \in DeskRecord /\ n.step = "done" /\ n.posted = deskRequest[r].posted
  BY <1>1, <1>3 DEF DeskRecord, Desk!Steps
<1>5. deskRequest' = [deskRequest EXCEPT ![r] = n]
  BY <1>2, <1>3 DEF Desk!Ends
<1>6. ticket' \in [Tickets -> Desk!Statuses]
  BY <1>2 DEF DeskInductive, DeskTyped, Desk!Statuses
<1>7. deskRequest[r].on \in Tickets \cup {"none"}
  BY <1>1 DEF DeskRecord
<1>8. /\ message' \in [Posts -> [in : Tickets \cup {"none"}, images : SUBSET (Posts \X Nat)]]
      /\ \A q \in Posts : message'[q].images = message[q].images
  BY <1>2, <1>7 DEF DeskInductive, DeskTyped
<1>9. OwnImages(r, n)' /\ RowsGone(n)'
  BY <1>4 DEF OwnImages, RowsGone
<1>10. \A i \in message'[r].images : i[1] = r /\ i \in file'
  BY <1>2, <1>8 DEF DeskInductive
<1>. QED
  BY <1>2, <1>4, <1>5, <1>6, <1>8, <1>9, <1>10, DeskMoves

\* An image is checked, and written if it is one.
LEMMA ImageKeeps ==
    ASSUME DeskInductive, NEW r \in Posts, NEW valid \in BOOLEAN, Desk!SaveImage(r, valid)
    PROVE  DeskInductive'
<1>1. deskRequest[r] \in DeskRecord /\ OwnImages(r, deskRequest[r])
  BY DEF DeskInductive, DeskTyped
<1>2. /\ deskRequest[r].step = "files" /\ deskRequest[r].left > 0
      /\ message' = message /\ ticket' = ticket
  BY DEF Desk!SaveImage
<1>3. ticket' \in [Tickets -> Desk!Statuses] /\ ~deskRequest[r].posted
  BY <1>1, <1>2 DEF DeskInductive, DeskTyped, OwnImages
<1>4. CASE valid
  <2>1. PICK i : i = <<r, deskRequest[r].left>>
    OBVIOUS
  <2>2. PICK n : n = [deskRequest[r] EXCEPT !.left = @ - 1, !.written = @ \cup {i}]
    OBVIOUS
  <2>3. file' = file \cup {i} /\ deskRequest' = [deskRequest EXCEPT ![r] = n]
    BY <1>4, <2>1, <2>2 DEF Desk!SaveImage
  <2>4. /\ deskRequest[r].left \in Nat /\ deskRequest[r].left - 1 \in Nat
        /\ deskRequest[r].written \cup {i} \in SUBSET (Posts \X Nat)
    BY <1>1, <1>2, <2>1 DEF DeskRecord
  <2>5. /\ n \in DeskRecord /\ n.step = "files" /\ n.posted = deskRequest[r].posted
        /\ n.written = deskRequest[r].written \cup {i}
    BY <1>1, <1>2, <2>2, <2>4 DEF DeskRecord
  <2>6. OwnImages(r, n)' /\ RowsGone(n)'
    BY <1>1, <1>2, <1>3, <2>1, <2>3, <2>5 DEF OwnImages, RowsGone
  <2>7. \A j \in message'[r].images : j[1] = r /\ j \in file'
    BY <1>2, <2>3 DEF DeskInductive
  <2>. QED
    BY <1>2, <1>3, <2>3, <2>5, <2>6, <2>7, DeskMoves DEF DeskInductive, DeskTyped
<1>5. CASE ~valid
  <2>1. file' = file /\ deskRequest' = Desk!Ends(r)
    BY <1>5 DEF Desk!SaveImage
  <2>2. PICK n : n = [deskRequest[r] EXCEPT !.step = "done"]
    OBVIOUS
  <2>3. n \in DeskRecord /\ n.step = "done" /\ n.posted = deskRequest[r].posted
    BY <1>1, <2>2 DEF DeskRecord, Desk!Steps
  <2>4. deskRequest' = [deskRequest EXCEPT ![r] = n]
    BY <2>1, <2>2 DEF Desk!Ends
  <2>. QED
    BY <1>2, <1>3, <2>1, <2>3, <2>4, DeskReads
<1>. QED
  BY <1>4, <1>5

\* Message, attachment rows and status are committed.
LEMMA StoreMessageKeeps ==
    ASSUME DeskInductive, NEW r \in Posts, Desk!StoreMessage(r)
    PROVE  DeskInductive'
<1>1. deskRequest[r] \in DeskRecord /\ OwnImages(r, deskRequest[r])
  BY DEF DeskInductive, DeskTyped
<1>2. /\ deskRequest[r].step = "files" /\ file' = file
      /\ message' = [message EXCEPT ![r] = [in |-> deskRequest[r].on,
                                            images |-> deskRequest[r].written]]
      /\ ticket' = [ticket EXCEPT ![deskRequest[r].on] = Desk!StatusAfter(r)]
      /\ deskRequest' = [deskRequest EXCEPT ![r].step = "done", ![r].posted = TRUE]
  BY DEF Desk!StoreMessage
<1>3. PICK n : n = [deskRequest[r] EXCEPT !.step = "done", !.posted = TRUE]
  OBVIOUS
<1>4. n \in DeskRecord /\ n.step = "done" /\ n.posted
  BY <1>1, <1>3 DEF DeskRecord, Desk!Steps
<1>5. deskRequest' = [deskRequest EXCEPT ![r] = n]
  BY <1>2, <1>3
<1>6. ticket' \in [Tickets -> Desk!Statuses]
  <2>1. \/ deskRequest[r].on \notin Tickets
        \/ ticket[deskRequest[r].on] \in Desk!Statuses
    BY DEF DeskInductive, DeskTyped
  <2>2. \/ deskRequest[r].on \notin Tickets
        \/ Desk!StatusAfter(r) \in Desk!Statuses
    BY <2>1 DEF Desk!StatusAfter, Desk!Statuses
  <2>. QED
    BY <1>2, <2>2 DEF DeskInductive, DeskTyped
<1>7. deskRequest[r].on \in Tickets \cup {"none"} /\ deskRequest[r].written \in SUBSET (Posts \X Nat)
  BY <1>1 DEF DeskRecord
<1>8. /\ message' \in [Posts -> [in : Tickets \cup {"none"}, images : SUBSET (Posts \X Nat)]]
      /\ message'[r].images = deskRequest[r].written
      /\ \A q \in Posts : q # r => message'[q] = message[q]
  BY <1>2, <1>7 DEF DeskInductive, DeskTyped
<1>9. OwnImages(r, n)' /\ RowsGone(n)'
  BY <1>4 DEF OwnImages, RowsGone
<1>10. \A i \in message'[r].images : i[1] = r /\ i \in file'
  BY <1>1, <1>2, <1>8 DEF OwnImages
<1>11. ~deskRequest[r].posted
  BY <1>1, <1>2 DEF OwnImages
<1>. QED
  BY <1>2, <1>4, <1>5, <1>6, <1>8, <1>9, <1>10, <1>11, DeskMoves

\* The admin deletes a message of his: rows first,
LEMMA DeleteKeeps ==
    ASSUME DeskInductive, NEW r \in Posts, Desk!DeleteAdminMessage(r)
    PROVE  DeskInductive'
<1>1. deskRequest[r] \in DeskRecord /\ OwnImages(r, deskRequest[r])
  BY DEF DeskInductive, DeskTyped
<1>2. PICK q \in Posts :
        /\ deskRequest[q].posted
        /\ message' = [message EXCEPT ![q] = Desk!NoMessage]
        /\ deskRequest' = [deskRequest EXCEPT ![r].step = "unlink", ![r].kind = "delete",
                                              ![r].written = message[q].images]
        /\ file' = file
  BY DEF Desk!DeleteAdminMessage, Desk!DeleteRows
<1>3. deskRequest[r].step = "idle" /\ ticket' = ticket
  BY DEF Desk!DeleteAdminMessage, Desk!MayStart
<1>4. PICK n : n = [deskRequest[r] EXCEPT !.step = "unlink", !.kind = "delete",
                                          !.written = message[q].images]
  OBVIOUS
<1>5. ~deskRequest[r].posted /\ r # q
  BY <1>1, <1>2, <1>3 DEF OwnImages
<1>6. message[q].images \in SUBSET (Posts \X Nat) /\ \A i \in message[q].images : i[1] = q
  BY DEF DeskInductive, DeskTyped
<1>7. /\ n \in DeskRecord /\ n.step = "unlink" /\ n.posted = deskRequest[r].posted
      /\ n.written = message[q].images
  BY <1>1, <1>4, <1>6 DEF DeskRecord, Desk!Steps
<1>8. deskRequest' = [deskRequest EXCEPT ![r] = n]
  BY <1>2, <1>4
<1>9. /\ message' \in [Posts -> [in : Tickets \cup {"none"}, images : SUBSET (Posts \X Nat)]]
      /\ message'[q].images = {}
      /\ \A p \in Posts : p # q => message'[p] = message[p]
  BY <1>2 DEF DeskInductive, DeskTyped, Desk!NoMessage
<1>10. deskRequest'[q].posted
  BY <1>2, <1>5, <1>8 DEF DeskInductive, DeskTyped
<1>11. OwnImages(r, n)' /\ RowsGone(n)'
  BY <1>5, <1>6, <1>7, <1>9, <1>10 DEF OwnImages, RowsGone
<1>12. \A i \in message'[r].images : i[1] = r /\ i \in file'
  BY <1>2, <1>5, <1>9 DEF DeskInductive
<1>13. ticket' \in [Tickets -> Desk!Statuses]
  BY <1>3 DEF DeskInductive, DeskTyped
<1>14. \A p \in Posts : message'[p].images \subseteq message[p].images
  BY <1>9
<1>. QED
  BY <1>2, <1>5, <1>7, <1>8, <1>9, <1>11, <1>12, <1>13, <1>14, DeskMoves

\* then the files.
LEMMA UnlinkKeeps ==
    ASSUME DeskInductive, NEW r \in Posts, NEW works \in BOOLEAN, Desk!Unlink(r, works)
    PROVE  DeskInductive'
<1>1. deskRequest[r] \in DeskRecord /\ OwnImages(r, deskRequest[r]) /\ RowsGone(deskRequest[r])
  BY DEF DeskInductive, DeskTyped
<1>2. /\ deskRequest[r].step = "unlink" /\ ticket' = ticket /\ message' = message
      /\ file \ deskRequest[r].written \subseteq file' /\ file' \subseteq file
      /\ deskRequest' = Desk!Ends(r)
  BY DEF Desk!Unlink
<1>3. PICK n : n = [deskRequest[r] EXCEPT !.step = "done"]
  OBVIOUS
<1>4. n \in DeskRecord /\ n.step = "done" /\ n.posted = deskRequest[r].posted
  BY <1>1, <1>3 DEF DeskRecord, Desk!Steps
<1>5. deskRequest' = [deskRequest EXCEPT ![r] = n]
  BY <1>2, <1>3 DEF Desk!Ends
<1>6. ~deskRequest[r].posted
  BY <1>1, <1>2 DEF OwnImages
<1>7. \A i \in file \ file' : deskRequest[i[1]].posted /\ i \notin message'[i[1]].images
  BY <1>1, <1>2 DEF RowsGone
<1>8. \A i \in message'[r].images : i[1] = r /\ i \in file'
  BY <1>2, <1>7 DEF DeskInductive
<1>9. OwnImages(r, n)' /\ RowsGone(n)'
  BY <1>4 DEF OwnImages, RowsGone
<1>. QED
  BY <1>2, <1>4, <1>5, <1>6, <1>7, <1>8, <1>9, DeskMoves DEF DeskInductive, DeskTyped

\* A crash leaves rows and files as they are.
LEMMA BreakKeeps ==
    ASSUME DeskInductive, NEW r \in Posts, Desk!Breaks(r)
    PROVE  DeskInductive'
<1>1. deskRequest[r] \in DeskRecord /\ OwnImages(r, deskRequest[r])
  BY DEF DeskInductive, DeskTyped
<1>2. /\ ticket' = ticket /\ message' = message /\ file' = file
      /\ deskRequest' = Desk!Ends(r)
  BY DEF Desk!Breaks
<1>3. PICK n : n = [deskRequest[r] EXCEPT !.step = "done"]
  OBVIOUS
<1>4. n \in DeskRecord /\ n.step = "done" /\ n.posted = deskRequest[r].posted
  BY <1>1, <1>3 DEF DeskRecord, Desk!Steps
<1>5. deskRequest' = [deskRequest EXCEPT ![r] = n]
  BY <1>2, <1>3 DEF Desk!Ends
<1>6. ticket' \in [Tickets -> Desk!Statuses]
  BY <1>2 DEF DeskInductive, DeskTyped
<1>. QED
  BY <1>2, <1>4, <1>5, <1>6, DeskReads

\* Whatever fails, and in whatever order requests run, a row's files are on disk.
LEMMA DeskNextKeeps == DeskInductive /\ [Desk!Next]_deskVars => DeskInductive'
<1>. SUFFICES ASSUME DeskInductive, [Desk!Next]_deskVars PROVE DeskInductive'
  OBVIOUS
<1>1. CASE Desk!Next
  BY <1>1, TicketKeeps, InsertKeeps, ImageKeeps, StoreMessageKeeps, DeleteKeeps, UnlinkKeeps,
     BreakKeeps DEF Desk!Next
<1>2. CASE UNCHANGED deskVars
  BY <1>2 DEF deskVars, DeskInductive, DeskTyped, OwnImages, RowsGone
<1>. QED
  BY <1>1, <1>2

\* What the desk is to promise is part of its invariant.
LEMMA DeskConcludes == DeskInductive => Desk!RowsHaveFiles
BY DEF DeskInductive, Desk!RowsHaveFiles

-----------------------------------------------------------------------------
(***************************************************************************)
(* The support bot.                                                        *)
(***************************************************************************)

Someone == Users \cup {NoUser}

TaskRecord ==
    [pc : {"free", "forward", "reply", "prompt", "answer", "confirm"},
     user : Someone, update : Nat]

TalkTyped ==
    /\ target \in Someone /\ prompt \in Someone
    /\ task \in [Requests -> TaskRecord]
    /\ knownUsers \subseteq Users
    /\ log \subseteq [user : Someone, from : {"user", "admin"}, update : Nat]
    /\ forwarded \subseteq [user : Someone, update : Nat]
    /\ delivered \subseteq [user : Someone, update : Nat]
    /\ typed \subseteq [update : Nat, prompt : Someone]
    /\ updates \in Nat /\ failures \in Nat

\* Updates are numbered, and each is handled by one task.
Numbered ==
    /\ \A d \in delivered : d.update <= updates
    /\ \A w \in typed : w.update <= updates
    /\ \A t \in Requests : task[t].update <= updates
    /\ \A v, w \in typed : v.update = w.update => v = w
    /\ \A i, j \in Requests :
          i # j /\ task[i].pc # "free" /\ task[j].pc # "free" => task[i].update # task[j].update

\* Buttons are those of users the bot has stored.
ButtonsKnown ==
    /\ \A f \in forwarded : f.user \in knownUsers
    /\ \A t \in Requests : task[t].pc \in {"forward", "reply", "prompt"} =>
                             task[t].user \in knownUsers

Logged ==
    /\ \A r \in log : r.from = "admin" => [user |-> r.user, update |-> r.update] \in delivered
    /\ failures = 0 =>
         \A d \in delivered : \E r \in log : r.from = "admin" /\ r.user = d.user
                                                              /\ r.update = d.update

AtAdmin(x) == x.pc \in {"reply", "prompt", "answer", "confirm"}

Got(n) == \E d \in delivered : d.update = n

\* The state of the admin's chat is what his last prompt says, but for the step between
\* the two; an answer under way is for the prompt it was typed at.
StageRight(x) ==
    /\ x.pc = "reply" => target = prompt
    /\ x.pc = "prompt" => target = x.user
    /\ x.pc \in {"answer", "confirm"} => prompt = NoUser
    /\ x.pc = "answer" => \A w \in typed : w.update = x.update => w.prompt = x.user

Undisturbed == ~sideBySide /\ failures = 0

Prompted ==
    /\ \A i, j \in Requests : AtAdmin(task[i]) /\ AtAdmin(task[j]) => i = j
    /\ (\A t \in Requests : ~AtAdmin(task[t])) => target = prompt
    /\ \A t \in Requests : StageRight(task[t])
    /\ \A w \in typed, d \in delivered : w.update = d.update => d.user = w.prompt
    /\ \A w \in typed :
         w.prompt # NoUser =>
             \/ Got(w.update)
             \/ \E t \in Requests : task[t].pc = "answer" /\ task[t].update = w.update

TalkInductive ==
    TalkTyped /\ Numbered /\ ButtonsKnown /\ Logged /\ (Undisturbed => Prompted)

\* A task that does nothing.
LEMMA FreeIs == Talk!Free \in TaskRecord /\ Talk!Free.pc = "free" /\ Talk!Free.update = 0
BY DEF Talk!Free, TaskRecord, Someone

\* Nobody has written.
LEMMA TalkBegins == Talk!Init => TalkInductive
<1>. SUFFICES ASSUME Talk!Init PROVE TalkInductive
  OBVIOUS
<1>1. TalkTyped
  BY FreeIs DEF Talk!Init, TalkTyped, Someone
<1>2. \A t \in Requests : task[t].pc = "free" /\ task[t].update = 0
  BY FreeIs DEF Talk!Init
<1>. QED
  BY <1>1, <1>2 DEF Talk!Init, TalkInductive, Numbered, ButtonsKnown, Logged, Prompted, StageRight,
     AtAdmin

\* Task t goes on as n.
TaskMoves(t, n) == task' = [task EXCEPT ![t] = n]

\* What the step of a task leaves of the others.
LEMMA TaskMovesEffect ==
    ASSUME TalkTyped, NEW t \in Requests, NEW n \in TaskRecord, TaskMoves(t, n)
    PROVE  /\ task' \in [Requests -> TaskRecord] /\ task'[t] = n
           /\ \A j \in Requests : j # t => task'[j] = task[j]
BY DEF TalkTyped, TaskMoves

\* A handler takes up an update.
LEMMA StartsEffect ==
    ASSUME TalkInductive, NEW t \in Requests, NEW pc \in {"forward", "reply", "answer"},
           NEW u \in Someone, Talk!Starts(t, pc, u)
    PROVE  \E n \in TaskRecord :
             /\ n = [pc |-> pc, user |-> u, update |-> updates + 1]
             /\ updates' = updates + 1 /\ updates + 1 \in Nat
             /\ task[t].pc = "free" /\ TaskMoves(t, n)
<1>1. PICK n : n = [pc |-> pc, user |-> u, update |-> updates + 1]
  OBVIOUS
<1>2. updates' = updates + 1 /\ updates + 1 \in Nat
  BY DEF Talk!Starts, TalkInductive, TalkTyped
<1>3. n \in TaskRecord
  BY <1>1, <1>2 DEF TaskRecord
<1>4. task[t].pc = "free" /\ TaskMoves(t, n)
  BY <1>1, <1>2, FreeIs DEF Talk!Starts, TaskMoves
<1>. QED
  BY <1>1, <1>2, <1>3, <1>4

\* A handler goes on or ends.
LEMMA GoesEffect ==
    ASSUME TalkInductive, NEW t \in Requests,
           NEW pc \in {"prompt", "confirm"}, Talk!Goes(t, pc)
    PROVE  \E n \in TaskRecord :
             /\ n.pc = pc /\ n.user = task[t].user /\ n.update = task[t].update
             /\ updates' = updates /\ TaskMoves(t, n)
<1>1. PICK n : n = [task[t] EXCEPT !.pc = pc]
  OBVIOUS
<1>2. task[t] \in TaskRecord
  BY DEF TalkInductive, TalkTyped
<1>3. n \in TaskRecord /\ n.pc = pc /\ n.user = task[t].user /\ n.update = task[t].update
  BY <1>1, <1>2 DEF TaskRecord
<1>. QED
  BY <1>1, <1>3 DEF Talk!Goes, TaskMoves

\* A task that ends is free; its update keeps its number.
LEMMA TaskEndsEffect ==
    ASSUME TalkInductive, NEW t \in Requests, Talk!Ends(t)
    PROVE  \E n \in TaskRecord :
             n.pc = "free" /\ n.update = 0 /\ updates' = updates /\ TaskMoves(t, n)
BY FreeIs DEF Talk!Ends, TaskMoves

\* The numbers stay right when a handler starts with a new one, goes on with its own or ends.
LEMMA NumbersKeep ==
    ASSUME TalkInductive, NEW t \in Requests, NEW n \in TaskRecord, TaskMoves(t, n),
           \/ updates' = updates + 1 /\ n.update = updates + 1
           \/ updates' = updates /\ n.pc = "free" /\ n.update = 0
           \/ updates' = updates /\ n.update = task[t].update /\ task[t].pc # "free",
           \A d \in delivered' : d.update <= updates',
           \/ typed' = typed
           \/ updates' = updates + 1 /\ \E p : typed' = typed \cup {[update |-> updates + 1, prompt |-> p]}
    PROVE  Numbered'
<1>1. /\ task' \in [Requests -> TaskRecord] /\ task'[t] = n
      /\ \A j \in Requests : j # t => task'[j] = task[j]
  BY TaskMovesEffect DEF TalkInductive
<1>2. \A j \in Requests : task[j].update \in Nat /\ task[j].update <= updates
  BY DEF TalkInductive, TalkTyped, TaskRecord, Numbered
<1>3. updates \in Nat
  BY DEF TalkInductive, TalkTyped
<1>4. \A w \in typed : w.update \in Nat /\ w.update <= updates
  BY DEF TalkInductive, TalkTyped, Numbered
<1>5. \A j \in Requests : task'[j].update <= updates'
  BY <1>1, <1>2, <1>3
<1>6. \A i, j \in Requests :
          i # j /\ task'[i].pc # "free" /\ task'[j].pc # "free" => task'[i].update # task'[j].update
  BY <1>1, <1>2, <1>3 DEF TalkInductive, Numbered
<1>7. /\ \A w \in typed' : w.update <= updates'
      /\ \A v, w \in typed' : v.update = w.update => v = w
  <2>1. CASE typed' = typed
    BY <1>3, <1>4, <2>1 DEF TalkInductive, Numbered
  <2>2. CASE \E p : updates' = updates + 1
                    /\ typed' = typed \cup {[update |-> updates + 1, prompt |-> p]}
    <3>1. PICK p : updates' = updates + 1
                   /\ typed' = typed \cup {[update |-> updates + 1, prompt |-> p]}
      BY <2>2
    <3>2. \A w \in typed' : w \in typed \/ w = [update |-> updates + 1, prompt |-> p]
      BY <3>1
    <3>3. \A w \in typed : w.update # updates + 1 /\ w.update <= updates + 1
      BY <1>3, <1>4
    <3>. QED
      BY <1>3, <3>1, <3>2, <3>3 DEF TalkInductive, Numbered
  <2>. QED
    BY <2>1, <2>2
<1>. QED
  BY <1>5, <1>6, <1>7 DEF Numbered

-----------------------------------------------------------------------------

\* A user writes: row and message are stored.
LEMMA UserWritesKeeps ==
    ASSUME TalkInductive, NEW t \in Requests, NEW u \in Users, Talk!UserWrites(t, u)
    PROVE  TalkInductive'
<1>1. PICK n \in TaskRecord :
        /\ n = [pc |-> "forward", user |-> u, update |-> updates + 1]
        /\ updates' = updates + 1 /\ updates + 1 \in Nat
        /\ task[t].pc = "free" /\ TaskMoves(t, n)
  BY StartsEffect DEF Talk!UserWrites, Someone
<1>2. /\ task' \in [Requests -> TaskRecord] /\ task'[t] = n
      /\ \A j \in Requests : j # t => task'[j] = task[j]
  BY <1>1, TaskMovesEffect DEF TalkInductive
<1>3. /\ knownUsers' = knownUsers \cup {u}
      /\ log' = log \cup {[user |-> u, from |-> "user", update |-> updates + 1]}
      /\ target' = target /\ forwarded' = forwarded /\ delivered' = delivered
      /\ prompt' = prompt /\ typed' = typed /\ sideBySide' = sideBySide /\ failures' = failures
  BY <1>1 DEF Talk!UserWrites
<1>4. [user |-> u, from |-> "user", update |-> updates + 1]
        \in [user : Someone, from : {"user", "admin"}, update : Nat]
  BY <1>1 DEF Someone
<1>5. TalkTyped'
  BY <1>1, <1>2, <1>3, <1>4 DEF TalkInductive, TalkTyped
<1>6. \A d \in delivered' : d.update <= updates'
  BY <1>1, <1>3 DEF TalkInductive, TalkTyped, Numbered
<1>7. Numbered'
  BY <1>1, <1>3, <1>6, NumbersKeep
<1>8. ButtonsKnown' /\ Logged'
  BY <1>1, <1>2, <1>3 DEF TalkInductive, ButtonsKnown, Logged
<1>9. Prompted => Prompted'
  BY <1>1, <1>2, <1>3 DEF Prompted, StageRight, AtAdmin, Got
<1>. QED
  BY <1>3, <1>5, <1>7, <1>8, <1>9 DEF TalkInductive, Undisturbed

\* The message reaches the admin.
LEMMA ForwardKeeps ==
    ASSUME TalkInductive, NEW t \in Requests, Talk!Forward(t)
    PROVE  TalkInductive'
<1>1. PICK n \in TaskRecord :
        n.pc = "free" /\ n.update = 0 /\ updates' = updates /\ TaskMoves(t, n)
  BY TaskEndsEffect DEF Talk!Forward
<1>2. /\ task' \in [Requests -> TaskRecord] /\ task'[t] = n
      /\ \A j \in Requests : j # t => task'[j] = task[j]
  BY <1>1, TaskMovesEffect DEF TalkInductive
<1>3. /\ forwarded' = forwarded \cup {[user |-> task[t].user, update |-> task[t].update]}
      /\ knownUsers' = knownUsers /\ log' = log
      /\ target' = target /\ delivered' = delivered /\ task[t].pc = "forward"
      /\ prompt' = prompt /\ typed' = typed /\ sideBySide' = sideBySide /\ failures' = failures
  BY DEF Talk!Forward
<1>4. task[t] \in TaskRecord
  BY DEF TalkInductive, TalkTyped
<1>5. [user |-> task[t].user, update |-> task[t].update] \in [user : Someone, update : Nat]
  BY <1>4 DEF TaskRecord
<1>6. TalkTyped'
  BY <1>1, <1>2, <1>3, <1>5 DEF TalkInductive, TalkTyped
<1>7. Numbered'
  BY <1>1, <1>3, NumbersKeep DEF TalkInductive, Numbered
<1>8. ButtonsKnown' /\ Logged'
  BY <1>1, <1>2, <1>3 DEF TalkInductive, ButtonsKnown, Logged
<1>9. Prompted => Prompted'
  BY <1>1, <1>2, <1>3 DEF Prompted, StageRight, AtAdmin, Got
<1>. QED
  BY <1>3, <1>6, <1>7, <1>8, <1>9 DEF TalkInductive, Undisturbed

\* The admin presses the button,
LEMMA PressKeeps ==
    ASSUME TalkInductive, NEW t \in Requests, NEW u \in Users, Talk!PressReply(t, u)
    PROVE  TalkInductive'
<1>1. PICK n \in TaskRecord :
        /\ n = [pc |-> "reply", user |-> u, update |-> updates + 1]
        /\ updates' = updates + 1 /\ updates + 1 \in Nat
        /\ task[t].pc = "free" /\ TaskMoves(t, n)
  BY StartsEffect DEF Talk!PressReply, Someone
<1>2. /\ task' \in [Requests -> TaskRecord] /\ task'[t] = n
      /\ \A j \in Requests : j # t => task'[j] = task[j]
  BY <1>1, TaskMovesEffect DEF TalkInductive
<1>3. /\ knownUsers' = knownUsers /\ log' = log
      /\ target' = target /\ forwarded' = forwarded /\ delivered' = delivered
      /\ prompt' = prompt /\ typed' = typed /\ failures' = failures
      /\ \E f \in forwarded : f.user = u
      /\ ~sideBySide' => ~sideBySide /\ \A j \in Requests : ~AtAdmin(task[j])
  BY DEF Talk!PressReply, Talk!Crosses, AtAdmin
<1>4. TalkTyped'
  BY <1>1, <1>2, <1>3 DEF TalkInductive, TalkTyped
<1>5. \A d \in delivered' : d.update <= updates'
  BY <1>1, <1>3 DEF TalkInductive, TalkTyped, Numbered
<1>6. Numbered'
  BY <1>1, <1>3, <1>5, NumbersKeep
<1>7. u \in knownUsers
  BY <1>3 DEF TalkInductive, ButtonsKnown
<1>8. ButtonsKnown' /\ Logged'
  BY <1>1, <1>2, <1>3, <1>7 DEF TalkInductive, ButtonsKnown, Logged
<1>9. ASSUME Undisturbed' PROVE Prompted'
  <2>1. Prompted /\ \A j \in Requests : ~AtAdmin(task[j])
    BY <1>3, <1>9 DEF Undisturbed, TalkInductive
  <2>2. target = prompt
    BY <2>1 DEF Prompted
  <2>. QED
    BY <1>1, <1>2, <1>3, <2>1, <2>2 DEF Prompted, StageRight, AtAdmin, Got
<1>. QED
  BY <1>4, <1>6, <1>8, <1>9 DEF TalkInductive

\* the state is set,
LEMMA SetTargetKeeps ==
    ASSUME TalkInductive, NEW t \in Requests, Talk!SetTarget(t)
    PROVE  TalkInductive'
<1>1. task[t].pc = "reply" /\ task[t].user \in knownUsers /\ task[t] \in TaskRecord
  BY DEF Talk!SetTarget, TalkInductive, TalkTyped, ButtonsKnown
<1>2. /\ target' = task[t].user /\ Talk!Goes(t, "prompt")
      /\ knownUsers' = knownUsers /\ log' = log
      /\ forwarded' = forwarded /\ delivered' = delivered
      /\ prompt' = prompt /\ typed' = typed /\ failures' = failures /\ sideBySide' = sideBySide
  BY <1>1 DEF Talk!SetTarget
<1>3. PICK n \in TaskRecord :
        /\ n.pc = "prompt" /\ n.user = task[t].user /\ n.update = task[t].update
        /\ updates' = updates /\ TaskMoves(t, n)
  BY <1>2, GoesEffect
<1>4. /\ task' \in [Requests -> TaskRecord] /\ task'[t] = n
      /\ \A j \in Requests : j # t => task'[j] = task[j]
  BY <1>3, TaskMovesEffect DEF TalkInductive
<1>5. task[t].user \in Someone
  BY <1>1 DEF TaskRecord
<1>6. TalkTyped'
  BY <1>2, <1>3, <1>4, <1>5 DEF TalkInductive, TalkTyped
<1>7. \A d \in delivered' : d.update <= updates'
  BY <1>2, <1>3 DEF TalkInductive, Numbered
<1>8. Numbered'
  BY <1>1, <1>2, <1>3, <1>7, NumbersKeep
<1>9. ButtonsKnown' /\ Logged'
  BY <1>1, <1>2, <1>3, <1>4 DEF TalkInductive, ButtonsKnown, Logged
<1>10. ASSUME Prompted PROVE Prompted'
  <2>1. \A j \in Requests : AtAdmin(task[j]) => j = t
    BY <1>1, <1>10 DEF Prompted, AtAdmin
  <2>2. /\ \A i, j \in Requests : AtAdmin(task'[i]) /\ AtAdmin(task'[j]) => i = j
        /\ AtAdmin(task'[t])
    BY <1>3, <1>4, <2>1 DEF AtAdmin
  <2>3. \A j \in Requests : StageRight(task[j])'
    BY <1>2, <1>3, <1>4, <2>1 DEF StageRight, AtAdmin
  <2>4. \A w \in typed' :
          w.prompt # NoUser =>
             \/ Got(w.update)'
             \/ \E j \in Requests : task'[j].pc = "answer" /\ task'[j].update = w.update
    BY <1>1, <1>2, <1>4, <1>10 DEF Prompted, Got
  <2>. QED
    BY <1>2, <1>10, <2>2, <2>3, <2>4 DEF Prompted
<1>. QED
  BY <1>2, <1>6, <1>8, <1>9, <1>10 DEF TalkInductive, Undisturbed

\* and he is prompted.
LEMMA PromptKeeps ==
    ASSUME TalkInductive, NEW t \in Requests, Talk!Prompt(t)
    PROVE  TalkInductive'
<1>1. PICK n \in TaskRecord :
        n.pc = "free" /\ n.update = 0 /\ updates' = updates /\ TaskMoves(t, n)
  BY TaskEndsEffect DEF Talk!Prompt
<1>2. /\ task' \in [Requests -> TaskRecord] /\ task'[t] = n
      /\ \A j \in Requests : j # t => task'[j] = task[j]
  BY <1>1, TaskMovesEffect DEF TalkInductive
<1>3. /\ prompt' = task[t].user /\ task[t].pc = "prompt" /\ task[t] \in TaskRecord
      /\ forwarded' = forwarded /\ knownUsers' = knownUsers /\ log' = log
      /\ target' = target /\ delivered' = delivered
      /\ typed' = typed /\ sideBySide' = sideBySide /\ failures' = failures
  BY DEF Talk!Prompt, TalkInductive, TalkTyped
<1>4. task[t].user \in Someone
  BY <1>3 DEF TaskRecord
<1>5. TalkTyped'
  BY <1>1, <1>2, <1>3, <1>4 DEF TalkInductive, TalkTyped
<1>6. Numbered'
  BY <1>1, <1>3, NumbersKeep DEF TalkInductive, Numbered
<1>7. ButtonsKnown' /\ Logged'
  BY <1>1, <1>2, <1>3 DEF TalkInductive, ButtonsKnown, Logged
<1>8. ASSUME Prompted PROVE Prompted'
  <2>1. \A j \in Requests : AtAdmin(task[j]) => j = t
    BY <1>3, <1>8 DEF Prompted, AtAdmin
  <2>2. \A j \in Requests : ~AtAdmin(task'[j])
    BY <1>1, <1>2, <2>1 DEF AtAdmin
  <2>3. target' = prompt'
    BY <1>3, <1>8 DEF Prompted, StageRight
  <2>4. \A j \in Requests : StageRight(task[j])'
    BY <2>2 DEF StageRight, AtAdmin
  <2>5. \A w \in typed' :
          w.prompt # NoUser =>
             \/ Got(w.update)'
             \/ \E j \in Requests : task'[j].pc = "answer" /\ task'[j].update = w.update
    BY <1>2, <1>3, <1>8 DEF Prompted, Got
  <2>. QED
    BY <1>3, <1>8, <2>2, <2>3, <2>4, <2>5 DEF Prompted
<1>. QED
  BY <1>3, <1>5, <1>6, <1>7, <1>8 DEF TalkInductive, Undisturbed

\* What the admin writes is taken for the user of the state.
LEMMA AdminWritesKeeps ==
    ASSUME TalkSizes, TalkInductive, NEW t \in Requests, Talk!AdminWrites(t)
    PROVE  TalkInductive'
<1>0. updates \in Nat /\ target \in Someone /\ prompt \in Someone
  BY DEF TalkInductive, TalkTyped
<1>1. /\ typed' = typed \cup {[update |-> updates', prompt |-> prompt]} /\ prompt' = NoUser
      /\ target' = target /\ knownUsers' = knownUsers /\ log' = log
      /\ forwarded' = forwarded /\ delivered' = delivered /\ failures' = failures
      /\ ~sideBySide' => ~sideBySide /\ \A j \in Requests : ~AtAdmin(task[j])
  BY DEF Talk!AdminWrites, Talk!Crosses, AtAdmin
<1>2. PICK w : w = [update |-> updates + 1, prompt |-> prompt]
  OBVIOUS
<1>3. /\ updates' = updates + 1 /\ updates + 1 \in Nat
      /\ \/ target = NoUser /\ task' = task
         \/ /\ target # NoUser
            /\ \E n \in TaskRecord :
                 /\ n = [pc |-> "answer", user |-> target, update |-> updates + 1]
                 /\ task[t].pc = "free" /\ TaskMoves(t, n)
  <2>1. CASE target = NoUser
    BY <1>0, <2>1 DEF Talk!AdminWrites
  <2>2. CASE target # NoUser
    <3>1. Talk!Starts(t, "answer", target)
      BY <2>2 DEF Talk!AdminWrites
    <3>. QED
      BY <1>0, <2>2, <3>1, StartsEffect
  <2>. QED
    BY <2>1, <2>2
<1>4. w \in [update : Nat, prompt : Someone] /\ typed' = typed \cup {w}
      /\ w.update = updates + 1 /\ w.prompt = prompt
  BY <1>0, <1>1, <1>2, <1>3
<1>5. task' \in [Requests -> TaskRecord]
  BY <1>3, TaskMovesEffect DEF TalkInductive, TalkTyped
<1>6. TalkTyped'
  BY <1>1, <1>3, <1>4, <1>5 DEF TalkInductive, TalkTyped, Someone
<1>7. \A d \in delivered : d.update \in Nat /\ d.update <= updates
  BY DEF TalkInductive, TalkTyped, Numbered
<1>8. Numbered'
  <2>1. CASE target = NoUser
    <3>1. \A v \in typed : v.update \in Nat /\ v.update <= updates
      BY DEF TalkInductive, TalkTyped, Numbered
    <3>2. \A j \in Requests : task[j].update \in Nat /\ task[j].update <= updates
      BY DEF TalkInductive, TalkTyped, TaskRecord, Numbered
    <3>3. task' = task /\ updates' = updates + 1
      BY <1>3, <2>1
    <3>4. \A u, v \in typed' : u.update = v.update => u = v
      BY <1>0, <1>4, <3>1 DEF TalkInductive, Numbered
    <3>5. /\ \A v \in typed' : v.update <= updates'
          /\ \A d \in delivered' : d.update <= updates'
          /\ \A j \in Requests : task'[j].update <= updates'
      BY <1>0, <1>1, <1>4, <1>7, <3>1, <3>2, <3>3
    <3>. QED
      BY <3>3, <3>4, <3>5 DEF TalkInductive, Numbered
  <2>2. CASE target # NoUser
    <3>1. PICK n \in TaskRecord :
             /\ n = [pc |-> "answer", user |-> target, update |-> updates + 1]
             /\ task[t].pc = "free" /\ TaskMoves(t, n)
      BY <1>3, <2>2
    <3>2. \A d \in delivered' : d.update <= updates'
      BY <1>0, <1>1, <1>3, <1>7
    <3>3. n.update = updates + 1
      BY <3>1
    <3>. QED
      BY <1>2, <1>3, <1>4, <3>1, <3>2, <3>3, NumbersKeep
  <2>. QED
    BY <2>1, <2>2
<1>9. ButtonsKnown' /\ Logged'
  BY <1>1, <1>3, TaskMovesEffect DEF TalkInductive, TalkTyped, ButtonsKnown, Logged
<1>10. ASSUME Undisturbed' PROVE Prompted'
  <2>1. Prompted /\ target = prompt /\ \A j \in Requests : ~AtAdmin(task[j])
    BY <1>1, <1>10 DEF Undisturbed, TalkInductive, Prompted
  <2>2. \A d \in delivered' : d.update # w.update
    BY <1>0, <1>1, <1>4, <1>7
  <2>3. \A v \in typed', d \in delivered' : v.update = d.update => d.user = v.prompt
    BY <1>1, <1>4, <2>1, <2>2 DEF Prompted
  <2>4. CASE target = NoUser
    <3>1. task' = task
      BY <1>3, <2>4
    <3>2. \A j \in Requests : StageRight(task[j])'
      BY <2>1, <3>1 DEF StageRight, AtAdmin
    <3>3. \A v \in typed' :
            v.prompt # NoUser =>
               \/ Got(v.update)'
               \/ \E j \in Requests : task'[j].pc = "answer" /\ task'[j].update = v.update
      BY <1>1, <1>4, <2>1, <2>4, <3>1 DEF Prompted, Got
    <3>. QED
      BY <1>1, <2>1, <2>3, <2>4, <3>1, <3>2, <3>3 DEF Prompted, AtAdmin
  <2>5. CASE target # NoUser
    <3>1. PICK n \in TaskRecord :
             /\ n = [pc |-> "answer", user |-> target, update |-> updates + 1]
             /\ task[t].pc = "free" /\ TaskMoves(t, n)
      BY <1>3, <2>5
    <3>2. /\ task' \in [Requests -> TaskRecord] /\ task'[t] = n
          /\ \A j \in Requests : j # t => task'[j] = task[j]
      BY <3>1, TaskMovesEffect DEF TalkInductive
    <3>3. n.pc = "answer" /\ n.user = target /\ n.update = updates + 1
      BY <3>1
    <3>4. \A v \in typed' : v.update = updates + 1 => v = w
      BY <1>3, <1>4, <1>8 DEF Numbered
    <3>5. StageRight(n)'
      BY <1>1, <1>4, <2>1, <3>3, <3>4 DEF StageRight
    <3>6. \A j \in Requests : StageRight(task[j])'
      BY <2>1, <3>2, <3>5 DEF StageRight, AtAdmin
    <3>7. \A v \in typed' :
            v.prompt # NoUser =>
               \/ Got(v.update)'
               \/ \E j \in Requests : task'[j].pc = "answer" /\ task'[j].update = v.update
      <4>. TAKE v \in typed'
      <4>1. CASE v = w
        BY <1>4, <3>2, <3>3, <4>1
      <4>2. CASE v \in typed
        BY <1>1, <2>1, <3>1, <3>2, <4>2 DEF Prompted, Got
      <4>. QED
        BY <1>4, <4>1, <4>2
    <3>8. /\ \A i, j \in Requests : AtAdmin(task'[i]) /\ AtAdmin(task'[j]) => i = j
          /\ AtAdmin(task'[t])
      BY <2>1, <3>2, <3>3 DEF AtAdmin
    <3>. QED
      BY <2>3, <3>6, <3>7, <3>8 DEF Prompted
  <2>. QED
    BY <2>4, <2>5
<1>. QED
  BY <1>6, <1>8, <1>9, <1>10 DEF TalkInductive

\* The answer goes out and is stored.
LEMMA DeliverKeeps ==
    ASSUME TalkInductive, NEW t \in Requests, Talk!Deliver(t)
    PROVE  TalkInductive'
<1>1. task[t].pc = "answer" /\ task[t] \in TaskRecord /\ Talk!Goes(t, "confirm")
  BY DEF Talk!Deliver, TalkInductive, TalkTyped
<1>2. PICK d : d = [user |-> task[t].user, update |-> task[t].update]
  OBVIOUS
<1>3. PICK e : e = [user |-> task[t].user, from |-> "admin", update |-> task[t].update]
  OBVIOUS
<1>4. /\ delivered' = delivered \cup {d} /\ log' = log \cup {e}
      /\ target' = target /\ knownUsers' = knownUsers
      /\ forwarded' = forwarded
      /\ prompt' = prompt /\ typed' = typed /\ failures' = failures /\ sideBySide' = sideBySide
  BY <1>2, <1>3 DEF Talk!Deliver
<1>5. PICK n \in TaskRecord :
        /\ n.pc = "confirm" /\ n.user = task[t].user /\ n.update = task[t].update
        /\ updates' = updates /\ TaskMoves(t, n)
  BY <1>1, GoesEffect
<1>6. /\ task' \in [Requests -> TaskRecord] /\ task'[t] = n
      /\ \A j \in Requests : j # t => task'[j] = task[j]
  BY <1>5, TaskMovesEffect DEF TalkInductive
<1>7. /\ d \in [user : Someone, update : Nat]
      /\ e \in [user : Someone, from : {"user", "admin"}, update : Nat]
      /\ d.user = task[t].user /\ d.update = task[t].update
      /\ e.user = task[t].user /\ e.update = task[t].update /\ e.from = "admin"
      /\ d = [user |-> e.user, update |-> e.update]
  BY <1>1, <1>2, <1>3 DEF TaskRecord
<1>8. TalkTyped'
  BY <1>4, <1>5, <1>6, <1>7 DEF TalkInductive, TalkTyped
<1>9. \A g \in delivered' : g.update <= updates'
  BY <1>4, <1>5, <1>7 DEF TalkInductive, Numbered
<1>10. Numbered'
  BY <1>1, <1>4, <1>5, <1>9, NumbersKeep
<1>11. ButtonsKnown'
  BY <1>4, <1>5, <1>6 DEF TalkInductive, ButtonsKnown
<1>12. Logged'
  BY <1>4, <1>7 DEF TalkInductive, Logged
<1>13. ASSUME Prompted PROVE Prompted'
  <2>1. \A j \in Requests : AtAdmin(task[j]) => j = t
    BY <1>1, <1>13 DEF Prompted, AtAdmin
  <2>2. /\ \A i, j \in Requests : AtAdmin(task'[i]) /\ AtAdmin(task'[j]) => i = j
        /\ AtAdmin(task'[t])
    BY <1>5, <1>6, <2>1 DEF AtAdmin
  <2>3. prompt = NoUser /\ \A w \in typed : w.update = task[t].update => w.prompt = task[t].user
    BY <1>1, <1>13 DEF Prompted, StageRight
  <2>4. \A j \in Requests : StageRight(task[j])'
    BY <1>4, <1>5, <1>6, <2>1, <2>3 DEF StageRight, AtAdmin
  <2>5. \A w \in typed', g \in delivered' : w.update = g.update => g.user = w.prompt
    BY <1>4, <1>7, <1>13, <2>3 DEF Prompted
  <2>6. \A w \in typed' :
          w.prompt # NoUser =>
             \/ Got(w.update)'
             \/ \E j \in Requests : task'[j].pc = "answer" /\ task'[j].update = w.update
    <3>. TAKE w \in typed'
    <3>1. CASE w.update = task[t].update
      BY <1>4, <1>7, <3>1 DEF Got
    <3>2. CASE w.update # task[t].update
      BY <1>4, <1>6, <1>13, <3>2 DEF Prompted, Got
    <3>. QED
      BY <3>1, <3>2
  <2>. QED
    BY <2>2, <2>4, <2>5, <2>6 DEF Prompted
<1>. QED
  BY <1>4, <1>8, <1>10, <1>11, <1>12, <1>13 DEF TalkInductive, Undisturbed

\* The confirmation clears the state.
LEMMA ConfirmKeeps ==
    ASSUME TalkInductive, NEW t \in Requests, Talk!Confirm(t)
    PROVE  TalkInductive'
<1>1. PICK n \in TaskRecord :
        n.pc = "free" /\ n.update = 0 /\ updates' = updates /\ TaskMoves(t, n)
  BY TaskEndsEffect DEF Talk!Confirm
<1>2. /\ task' \in [Requests -> TaskRecord] /\ task'[t] = n
      /\ \A j \in Requests : j # t => task'[j] = task[j]
  BY <1>1, TaskMovesEffect DEF TalkInductive
<1>3. /\ target' = NoUser /\ task[t].pc = "confirm"
      /\ forwarded' = forwarded /\ knownUsers' = knownUsers /\ log' = log
      /\ prompt' = prompt /\ delivered' = delivered
      /\ typed' = typed /\ sideBySide' = sideBySide /\ failures' = failures
  BY DEF Talk!Confirm, Talk!AfterAnswer
<1>4. TalkTyped'
  BY <1>1, <1>2, <1>3 DEF TalkInductive, TalkTyped, Someone
<1>5. Numbered'
  BY <1>1, <1>3, NumbersKeep DEF TalkInductive, Numbered
<1>6. ButtonsKnown' /\ Logged'
  BY <1>1, <1>2, <1>3 DEF TalkInductive, ButtonsKnown, Logged
<1>7. ASSUME Prompted PROVE Prompted'
  <2>1. \A j \in Requests : AtAdmin(task[j]) => j = t
    BY <1>3, <1>7 DEF Prompted, AtAdmin
  <2>2. \A j \in Requests : ~AtAdmin(task'[j])
    BY <1>1, <1>2, <2>1 DEF AtAdmin
  <2>3. target' = prompt'
    BY <1>3, <1>7 DEF Prompted, StageRight
  <2>4. \A j \in Requests : StageRight(task[j])'
    BY <2>2 DEF StageRight, AtAdmin
  <2>5. \A w \in typed' :
          w.prompt # NoUser =>
             \/ Got(w.update)'
             \/ \E j \in Requests : task'[j].pc = "answer" /\ task'[j].update = w.update
    BY <1>2, <1>3, <1>7 DEF Prompted, Got
  <2>. QED
    BY <1>3, <1>7, <2>2, <2>3, <2>4, <2>5 DEF Prompted
<1>. QED
  BY <1>3, <1>4, <1>5, <1>6, <1>7 DEF TalkInductive, Undisturbed

\* Failures: what the admin may rely on then is the log.
LEMMA FailuresKeep ==
    ASSUME TalkInductive,
           \/ \E t \in Requests : Talk!CallFails(t) \/ Talk!AnswerFails(t)
           \/ Talk!Restart
    PROVE  TalkInductive'
<1>0. failures \in Nat
  BY DEF TalkInductive, TalkTyped
<1>1. failures' = failures + 1 /\ failures + 1 \in Nat /\ ~Undisturbed' /\ failures' # 0
  BY <1>0 DEF Talk!CallFails, Talk!AnswerFails, Talk!Restart, Talk!Fails, Undisturbed
<1>2. ASSUME NEW t \in Requests, Talk!CallFails(t) PROVE TalkInductive'
  <2>1. PICK n \in TaskRecord :
          n.pc = "free" /\ n.update = 0 /\ updates' = updates /\ TaskMoves(t, n)
    BY <1>2, TaskEndsEffect DEF Talk!CallFails
  <2>2. /\ task' \in [Requests -> TaskRecord] /\ task'[t] = n
        /\ \A j \in Requests : j # t => task'[j] = task[j]
    BY <2>1, TaskMovesEffect DEF TalkInductive
  <2>3. /\ target' = target /\ forwarded' = forwarded /\ knownUsers' = knownUsers
        /\ log' = log /\ prompt' = prompt /\ delivered' = delivered /\ typed' = typed
    BY <1>2 DEF Talk!CallFails
  <2>4. TalkTyped'
    BY <1>1, <2>1, <2>2, <2>3 DEF TalkInductive, TalkTyped
  <2>5. Numbered'
    BY <2>1, <2>3, NumbersKeep DEF TalkInductive, Numbered
  <2>6. ButtonsKnown' /\ Logged'
    BY <1>1, <2>1, <2>2, <2>3 DEF TalkInductive, ButtonsKnown, Logged
  <2>. QED
    BY <1>1, <2>4, <2>5, <2>6 DEF TalkInductive
<1>3. ASSUME NEW t \in Requests, Talk!AnswerFails(t) PROVE TalkInductive'
  <2>1. task[t].pc = "answer" /\ task[t] \in TaskRecord /\ Talk!Goes(t, "confirm")
    BY <1>3 DEF Talk!AnswerFails, TalkInductive, TalkTyped
  <2>2. PICK d : d = [user |-> task[t].user, update |-> task[t].update]
    OBVIOUS
  <2>3. PICK n \in TaskRecord :
          /\ n.pc = "confirm" /\ n.user = task[t].user /\ n.update = task[t].update
          /\ updates' = updates /\ TaskMoves(t, n)
    BY <2>1, GoesEffect
  <2>4. /\ task' \in [Requests -> TaskRecord] /\ task'[t] = n
        /\ \A j \in Requests : j # t => task'[j] = task[j]
    BY <2>3, TaskMovesEffect DEF TalkInductive
  <2>5. /\ delivered' \in {delivered, delivered \cup {d}}
        /\ target' = target /\ forwarded' = forwarded /\ knownUsers' = knownUsers
        /\ log' = log /\ prompt' = prompt /\ typed' = typed
    BY <1>3, <2>2 DEF Talk!AnswerFails
  <2>6. d \in [user : Someone, update : Nat] /\ d.update = task[t].update
    BY <2>1, <2>2 DEF TaskRecord
  <2>7. TalkTyped'
    BY <1>1, <2>3, <2>4, <2>5, <2>6 DEF TalkInductive, TalkTyped
  <2>8. \A g \in delivered' : g.update <= updates'
    BY <2>3, <2>5, <2>6 DEF TalkInductive, Numbered
  <2>9. Numbered'
    BY <2>1, <2>3, <2>5, <2>8, NumbersKeep
  <2>10. ButtonsKnown' /\ Logged'
    BY <1>1, <2>3, <2>4, <2>5 DEF TalkInductive, ButtonsKnown, Logged
  <2>. QED
    BY <1>1, <2>7, <2>9, <2>10 DEF TalkInductive
<1>4. ASSUME Talk!Restart PROVE TalkInductive'
  <2>1. /\ target' = NoUser /\ task' = [t \in Requests |-> Talk!Free]
        /\ forwarded' = forwarded /\ knownUsers' = knownUsers /\ updates' = updates
        /\ log' = log /\ prompt' = prompt /\ delivered' = delivered /\ typed' = typed
    BY <1>4 DEF Talk!Restart
  <2>2. TalkTyped'
    BY <1>1, <2>1, FreeIs DEF TalkInductive, TalkTyped, Someone
  <2>3. \A t \in Requests : task'[t].pc = "free" /\ task'[t].update = 0
    BY <2>1, FreeIs
  <2>4. updates \in Nat
    BY DEF TalkInductive, TalkTyped
  <2>5. Numbered' /\ ButtonsKnown' /\ Logged'
    BY <1>1, <2>1, <2>3, <2>4 DEF TalkInductive, Numbered, ButtonsKnown, Logged
  <2>. QED
    BY <1>1, <2>2, <2>5 DEF TalkInductive
<1>. QED
  BY <1>2, <1>3, <1>4

\* Every step of the support bot.
LEMMA TalkNextKeeps == TalkSizes /\ TalkInductive /\ [Talk!Next]_botVars => TalkInductive'
<1>. SUFFICES ASSUME TalkSizes, TalkInductive, [Talk!Next]_botVars PROVE TalkInductive'
  OBVIOUS
<1>1. CASE Talk!Next
  BY <1>1, UserWritesKeeps, ForwardKeeps, PressKeeps, SetTargetKeeps, PromptKeeps,
     AdminWritesKeeps, DeliverKeeps, ConfirmKeeps, FailuresKeep DEF Talk!Next
<1>2. CASE UNCHANGED botVars
  BY <1>2 DEF botVars, TalkInductive, TalkTyped, Numbered, ButtonsKnown, Logged, Undisturbed,
     Prompted, StageRight, Got
<1>. QED
  BY <1>1, <1>2

\* What the log and the prompts are to promise follows.
LEMMA TalkConcludes == TalkInductive => Talk!AnswersArrive
<1>. SUFFICES ASSUME TalkInductive PROVE Talk!AnswersArrive
  OBVIOUS
<1>1. Talk!Answers \subseteq delivered
  BY DEF TalkInductive, Logged, Talk!Answers
<1>2. ASSUME failures = 0, NEW d \in delivered PROVE d \in Talk!Answers
  <2>1. PICK r \in log : r.from = "admin" /\ r.user = d.user /\ r.update = d.update
    BY <1>2 DEF TalkInductive, Logged
  <2>2. d = [user |-> r.user, update |-> r.update]
    BY <2>1 DEF TalkInductive, TalkTyped
  <2>. QED
    BY <2>1, <2>2 DEF Talk!Answers
<1>3. ASSUME ~sideBySide, failures = 0, NEW w \in typed
      PROVE  /\ {d.user : d \in {d \in delivered : d.update = w.update}} \subseteq {w.prompt}
             /\ w.prompt # NoUser /\ (\A t \in Requests : task[t].update # w.update) =>
                  {d.user : d \in {d \in delivered : d.update = w.update}} # {}
  <2>1. Prompted
    BY <1>3 DEF TalkInductive, Undisturbed
  <2>. QED
    BY <2>1 DEF Prompted, Got
<1>. QED
  BY <1>1, <1>2, <1>3 DEF Talk!AnswersArrive, Talk!LogTrue, Talk!AnswersAsPrompted

-----------------------------------------------------------------------------
(***************************************************************************)
(* Push notifications and support, in the system the run checks.           *)
(***************************************************************************)

\* However launches, jobs, sends, answers of the phones' service, crashes and outages
\* interleave, execute_push_campaign notifies a phone once per launch, and a push shown as
\* completed has a row for every phone it was for.
THEOREM PushesAreSound == Spec => []PushLaunchesSound
<1>1. Init => Push!Init
  BY DEF Init
<1>2. [Next]_allVars => [Push!Next]_pushVars
  BY DEF Next, CacheNext, CrmNext, HooksNext, PushNext, HealthNext, DeskNext, IdsNext, MenuNext,
     TalkNext, ConfigNext, AudienceNext, ScheduleNext, AlertsNext, ErrorsNext, allVars, workerVars, pushVars
<1>3. Spec => []PushInductive
  BY <1>1, <1>2, PushConstants, PushBegins, PushNextKeeps, PTL DEF Spec
<1>4. PushInductive => PushLaunchesSound
  BY PushConstants, PushConcludes DEF PushLaunchesSound
<1>. QED
  BY <1>3, <1>4, PTL

\* Whatever requests on tickets and messages of the support chat overlap, and whichever of
\* them fail half way, a row of an attachment has its file; what the admin types reaches
\* the user of the last prompt while nobody disturbs it, and the log says what was said.
THEOREM SupportIsSound == Spec => []SupportSound
<1>1. Init => Desk!Init /\ Talk!Init
  BY DEF Init
<1>2. [Next]_allVars => [Desk!Next]_deskVars
  BY DEF Next, CacheNext, CrmNext, HooksNext, PushNext, HealthNext, DeskNext, IdsNext, MenuNext,
     TalkNext, ConfigNext, AudienceNext, ScheduleNext, AlertsNext, ErrorsNext, allVars, workerVars, deskVars
<1>3. [Next]_allVars => [Talk!Next]_botVars
  BY DEF Next, CacheNext, CrmNext, HooksNext, PushNext, HealthNext, DeskNext, IdsNext, MenuNext,
     TalkNext, ConfigNext, AudienceNext, ScheduleNext, AlertsNext, ErrorsNext, allVars, workerVars, adminVars,
     botVars
<1>4. Spec => []DeskInductive
  BY <1>1, <1>2, DeskBegins, DeskNextKeeps, PTL DEF Spec
<1>5. Spec => []TalkInductive
  BY <1>1, <1>3, TalkConstants, TalkBegins, TalkNextKeeps, PTL DEF Spec
<1>6. DeskInductive /\ TalkInductive => SupportSound
  BY DeskConcludes, TalkConcludes DEF SupportSound
<1>. QED
  BY <1>4, <1>5, <1>6, PTL

-----------------------------------------------------------------------------
(***************************************************************************)
(* The configuration.  A process that knows the latest version has         *)
(* published what the database holds because it reads the version first    *)
(* and every change of the rows advances it; nothing a process imports is  *)
(* over what was saved, because a document only gains keys while no two    *)
(* requests overlap.  For any number of services, requests of the          *)
(* dashboard, saves, restarts and failed queries.                          *)
(***************************************************************************)

SettingNames == {"logo", "url"}
Settled == {"", "a", "b"}
Accepted == {"good", "new"}
Document == [SettingNames -> Settled \cup {"none"}]
Snapshot == [settings : Document, gateway : Config!Rows, android : Config!Rows]

ServiceRecord ==
    [pc : {"down", "import", "version", "settings", "gateway", "android", "up"},
     booted : BOOLEAN, read : Document, seen : Nat, next : Snapshot, overlay : Snapshot,
     known : Nat]

\* What the pages send.
PageIs(e) ==
    /\ e.kind \in {"settings", "branding", "gateway", "android"}
    /\ e.kind = "settings" => e.set \in UNION {[K -> Settled] : K \in SUBSET SettingNames \ {{}}}
    /\ e.kind = "branding" => e.set \in [{"logo"} -> Settled]
    /\ e.kind \in {"gateway", "android"} =>
         e.enabled \in BOOLEAN /\ e.field \in {"blank", "masked"} \cup Config!Secrets

FormIs(f) == f.pc = "read" => PageIs(f.edit) /\ f.read \in Document /\ f.row \in Config!Rows

StoreTyped ==
    /\ yaml.settings \in Document /\ yaml.secret \in Config!Secrets
    /\ yaml.gateway \in Config!Secrets
    /\ settings \in Document
    /\ gateway \in Config!Rows /\ android \in Config!Rows
    /\ version \in Nat /\ version > 0
    /\ meant \in [settings : Document, secret : Config!Secrets \cup {"none", "", "a", "b"}]

ConfigTyped ==
    /\ StoreTyped
    /\ proc \in [Services -> ServiceRecord]
    /\ DOMAIN form = Requests
    /\ \A a \in Requests : FormIs(form[a])

\* Process x has not read a version that is to come; while its version is the latest, what
\* it has read since and what it has published are what is stored.
InStep(x) ==
    /\ x.known <= version /\ x.seen <= version
    /\ x.pc \in {"gateway", "android"} /\ x.seen = version => x.next.settings = settings
    /\ x.pc = "android" /\ x.seen = version => x.next.gateway = gateway
    /\ x.known = version =>
         /\ x.overlay.settings = settings /\ x.overlay.gateway = gateway
         /\ x.overlay.android = Config!Usable(android, x.overlay.android)

\* An enabled row is only published with a secret that is accepted.
SecretUsable(x) ==
    x.overlay.android.managed /\ x.overlay.android.enabled =>
        x.overlay.android.secret \in Accepted

\* What a process that imports has read is still there.
ImportsRight(x) ==
    "settings" \notin strayed /\ x.pc = "import" =>
        \A k \in SettingNames : x.read[k] # "none" => settings[k] # "none"

ServiceRight(x) == InStep(x) /\ SecretUsable(x) /\ ImportsRight(x)

ConfigInductive ==
    /\ ConfigTyped
    /\ \A p \in Services : ServiceRight(proc[p])
    /\ Config!SavesKept /\ Config!LogoMatches


\* A process that is down has nothing.
LEMMA DownIs ==
    /\ Config!Down \in ServiceRecord /\ Config!Down.pc = "down"
    /\ Config!Down.known = 0 /\ Config!Down.seen = 0
    /\ Config!Down.overlay = Config!NoOverlay
    /\ ~Config!NoOverlay.android.managed
    /\ Config!NoRow \in Config!Rows /\ Config!NoOverlay \in Snapshot
<1>1. [k \in SettingNames |-> "none"] \in Document
  BY DEF Document
<1>2. Config!NoRow \in Config!Rows /\ ~Config!NoRow.managed
  BY DEF Config!NoRow, Config!Rows
<1>3. Config!NoOverlay \in Snapshot /\ ~Config!NoOverlay.android.managed
  BY <1>1, <1>2 DEF Config!NoOverlay, Snapshot, SettingNames
<1>. QED
  BY <1>1, <1>2, <1>3 DEF Config!Down, ServiceRecord, SettingNames

\* At first nothing is stored and no process is up.
LEMMA ConfigBegins == Config!Init => ConfigInductive
<1>. SUFFICES ASSUME Config!Init PROVE ConfigInductive
  OBVIOUS
<1>1. yaml.settings \in Document /\ yaml.secret \in Config!Secrets /\ yaml.gateway \in Config!Secrets
  <2>1. yaml = [settings |-> Setting("none", "b"), gateway |-> "good", secret |-> "good"]
    BY DEF Config!Init
  <2>2. Setting("none", "b") \in Document
    BY DEF Setting, Document, SettingNames, Settled
  <2>. QED
    BY <2>1, <2>2 DEF Config!Secrets
<1>2. settings \in Document /\ gateway \in Config!Rows /\ android \in Config!Rows
  <2>1. settings = [k \in SettingNames |-> "none"] /\ gateway = Config!NoRow
    BY DEF Config!Init, SettingNames
  <2>2. android = Config!NoRow \/ android = [exists |-> TRUE, managed |-> TRUE, enabled |-> TRUE,
                                             secret |-> "bad"]
    BY DEF Config!Init
  <2>3. [exists |-> TRUE, managed |-> TRUE, enabled |-> TRUE, secret |-> "bad"] \in Config!Rows
    BY DEF Config!Rows, Config!Secrets
  <2>4. android \in Config!Rows
    BY <2>2, <2>3, DownIs
  <2>. QED
    BY <2>1, <2>4, DownIs DEF Document
<1>3. meant \in [settings : Document, secret : Config!Secrets \cup {"none", "", "a", "b"}]
  BY <1>2 DEF Config!Init, Config!Rows
<1>4. ConfigTyped
  <2>1. form = [a \in Requests |-> Config!Closed] /\ Config!Closed.pc = "closed"
    BY DEF Config!Init, Config!Closed
  <2>2. version = 1 /\ proc = [p \in Services |-> Config!Down]
    BY DEF Config!Init
  <2>3. version \in Nat /\ version > 0
    BY <2>2
  <2>4. StoreTyped
    BY <1>1, <1>2, <1>3, <2>3, Zenon DEF StoreTyped
  <2>. QED
    BY <2>1, <2>2, <2>4, DownIs DEF ConfigTyped, FormIs
<1>5. ASSUME NEW p \in Services PROVE ServiceRight(proc[p])
  BY DownIs DEF Config!Init, ServiceRight, InStep, SecretUsable, ImportsRight
<1>6. Config!SavesKept
  BY DEF Config!Init, Config!SavesKept
<1>7. Config!LogoMatches
  BY DEF Config!Init, Config!LogoMatches
<1>. QED
  BY <1>4, <1>5, <1>6, <1>7 DEF ConfigInductive

\* A step of one process leaves the rest as it is.
LEMMA ServiceMoves ==
    ASSUME ConfigInductive, NEW p \in Services, NEW x \in ServiceRecord, ServiceRight(x),
           proc' = [proc EXCEPT ![p] = x],
           UNCHANGED <<yaml, settings, asset, gateway, android, version, form, meant, strayed>>
    PROVE  ConfigInductive'
<1>1. proc' \in [Services -> ServiceRecord] /\ \A q \in Services : proc'[q] = IF q = p THEN x ELSE proc[q]
  BY DEF ConfigInductive, ConfigTyped
<1>2. ConfigTyped'
  BY <1>1 DEF ConfigInductive, ConfigTyped, StoreTyped, FormIs
<1>3. ASSUME NEW q \in Services PROVE ServiceRight(proc[q])'
  BY <1>1, Zenon DEF ConfigInductive, ServiceRight, InStep, SecretUsable, ImportsRight, Config!Usable
<1>4. Config!SavesKept' /\ Config!LogoMatches'
  BY DEF ConfigInductive, Config!SavesKept, Config!LogoMatches
<1>. QED
  BY <1>2, <1>3, <1>4 DEF ConfigInductive

\* The rows change and the version advances, after which no process is in step, or neither
\* does; what is imported is right while the document only gains keys.
LEMMA StoreAdvances ==
    ASSUME ConfigInductive, StoreTyped',
           version' > version \/ UNCHANGED <<settings, gateway, android, version>>,
           proc' \in [Services -> ServiceRecord],
           \A a \in Requests : FormIs(form'[a]), DOMAIN form' = Requests,
           \A p \in Services :
               \/ proc'[p] = proc[p]
               \/ proc'[p] = [proc[p] EXCEPT !.known = 0]
               \/ proc'[p] = [Config!Down EXCEPT !.pc = "version"],
           strayed \subseteq strayed',
           "settings" \notin strayed' =>
               \A k \in SettingNames : settings[k] # "none" => settings'[k] # "none",
           Config!SavesKept', Config!LogoMatches'
    PROVE  ConfigInductive'
<1>1. ConfigTyped'
  BY DEF ConfigTyped, FormIs
<1>2. ASSUME NEW p \in Services PROVE ServiceRight(proc[p])'
  <2>1. /\ proc[p] \in ServiceRecord /\ ServiceRight(proc[p])
        /\ version \in Nat /\ version' \in Nat /\ version > 0
    BY DEF ConfigInductive, ConfigTyped, StoreTyped
  <2>2. /\ proc'[p].known <= version /\ proc'[p].seen <= version
        /\ InStep(proc'[p]) /\ SecretUsable(proc'[p])
        /\ "settings" \notin strayed' => ImportsRight(proc'[p])
    <3>1. CASE proc'[p] \in {proc[p], [proc[p] EXCEPT !.known = 0]}
      BY <2>1, <3>1 DEF ServiceRecord, ServiceRight, InStep, SecretUsable, ImportsRight
    <3>2. CASE proc'[p] = [Config!Down EXCEPT !.pc = "version"]
      <4>1. /\ proc'[p].known = 0 /\ proc'[p].seen = 0 /\ proc'[p].pc = "version"
            /\ proc'[p].overlay = Config!NoOverlay
        BY <3>2, DownIs DEF ServiceRecord
      <4>. QED
        BY <2>1, <4>1, DownIs DEF InStep, SecretUsable, ImportsRight
    <3>. QED
      BY <3>1, <3>2
  <2>3. InStep(proc[p])'
    <3>1. proc'[p] \in ServiceRecord
      OBVIOUS
    <3>2. CASE version' > version
      BY <2>1, <2>2, <3>1, <3>2 DEF InStep, ServiceRecord
    <3>3. CASE UNCHANGED <<settings, gateway, android, version>>
      <4>1. InStep(proc'[p])
        BY <2>2
      <4>. QED
        BY <3>3, <4>1 DEF InStep, Config!Usable
    <3>. QED
      BY <3>2, <3>3
  <2>4. SecretUsable(proc[p])'
    BY <2>2 DEF SecretUsable
  <2>5. ImportsRight(proc[p])'
    BY <2>2 DEF ImportsRight
  <2>. QED
    BY <2>3, <2>4, <2>5 DEF ServiceRight
<1>. QED
  BY <1>1, <1>2 DEF ConfigInductive

\* Reading and publishing, boots, failures and restarts.
LEMMA RefreshKeeps ==
    ASSUME ConfigInductive, NEW p \in Services,
           Config!ReadVersion(p) \/ Config!QuerySettings(p) \/ Config!QueryGateway(p)
    PROVE  ConfigInductive'
<1>0. /\ proc[p] \in ServiceRecord /\ ServiceRight(proc[p]) /\ version \in Nat
      /\ settings \in Document /\ gateway \in Config!Rows
  BY DEF ConfigInductive, ConfigTyped, StoreTyped
<1>1. CASE Config!ReadVersion(p)
  <2>. DEFINE x == [proc[p] EXCEPT !.pc = "settings", !.seen = version]
  <2>1. proc' = [proc EXCEPT ![p] = x]
    BY <1>1 DEF Config!ReadVersion
  <2>2. /\ x \in ServiceRecord /\ x.pc = "settings" /\ x.seen = version
        /\ x.known = proc[p].known /\ x.overlay = proc[p].overlay
    BY <1>0 DEF ServiceRecord
  <2>. HIDE DEF x
  <2>3. ServiceRight(x)
    BY <1>0, <2>2 DEF ServiceRight, InStep, SecretUsable, ImportsRight
  <2>. QED
    BY <1>1, <2>1, <2>2, <2>3, ServiceMoves DEF Config!ReadVersion, Config!database, Config!history
<1>2. CASE Config!QuerySettings(p)
  <2>. DEFINE x == [proc[p] EXCEPT !.pc = "gateway", !.next.settings = settings]
  <2>1. proc' = [proc EXCEPT ![p] = x]
    BY <1>2 DEF Config!QuerySettings
  <2>2. x \in ServiceRecord /\ ServiceRight(x)
    BY <1>0 DEF ServiceRecord, Snapshot, ServiceRight, InStep, SecretUsable, ImportsRight
  <2>. QED
    BY <1>2, <2>1, <2>2, ServiceMoves DEF Config!QuerySettings, Config!database, Config!history
<1>3. CASE Config!QueryGateway(p)
  <2>. DEFINE x == [proc[p] EXCEPT !.pc = "android", !.next.gateway = gateway]
  <2>1. proc' = [proc EXCEPT ![p] = x] /\ proc[p].pc = "gateway"
    BY <1>3 DEF Config!QueryGateway
  <2>2. x \in ServiceRecord /\ ServiceRight(x)
    BY <1>0, <2>1 DEF ServiceRecord, Snapshot, ServiceRight, InStep, SecretUsable, ImportsRight
  <2>. QED
    BY <1>3, <2>1, <2>2, ServiceMoves DEF Config!QueryGateway, Config!database, Config!history
<1>. QED
  BY <1>1, <1>2, <1>3

\* A process publishes what it has read, under the version it read first.
LEMMA PublishKeeps ==
    ASSUME ConfigInductive, NEW p \in Services, Config!Publish(p)
    PROVE  ConfigInductive'
<1>0. /\ proc[p] \in ServiceRecord /\ ServiceRight(proc[p]) /\ version \in Nat
      /\ android \in Config!Rows
  BY DEF ConfigInductive, ConfigTyped, StoreTyped
<1>. DEFINE row == Config!Usable(android, proc[p].overlay.android)
            next == [proc[p].next EXCEPT !.android = row]
            x == [Config!Down EXCEPT !.pc = "up", !.booted = TRUE, !.overlay = next,
                                     !.known = proc[p].seen]
<1>1. proc' = [proc EXCEPT ![p] = x] /\ proc[p].pc = "android"
  BY DEF Config!Publish, Config!KnownAfter
<1>2. /\ row \in Config!Rows /\ row = Config!Usable(android, row)
      /\ row.managed /\ row.enabled => row.secret \in Accepted
  BY <1>0 DEF Config!Usable, ServiceRecord, Snapshot, ServiceRight, SecretUsable, Accepted
<1>. HIDE DEF row
<1>3. next \in Snapshot /\ next.android = row
      /\ next.settings = proc[p].next.settings /\ next.gateway = proc[p].next.gateway
  BY <1>0, <1>2 DEF ServiceRecord, Snapshot
<1>. HIDE DEF next
<1>4. /\ x \in ServiceRecord /\ x.pc = "up" /\ x.seen = 0 /\ x.overlay = next
      /\ x.known = proc[p].seen
  BY <1>0, <1>3, DownIs DEF ServiceRecord
<1>. HIDE DEF x
<1>5. ServiceRight(x)
  BY <1>0, <1>1, <1>2, <1>3, <1>4 DEF ServiceRight, InStep, SecretUsable, ImportsRight, ServiceRecord
<1>6. UNCHANGED <<yaml, settings, asset, gateway, android, version, form, meant, strayed>>
  BY DEF Config!Publish, Config!database, Config!history
<1>. QED
  BY <1>1, <1>4, <1>5, <1>6, ServiceMoves

LEMMA BootsKeep ==
    ASSUME ConfigInductive, NEW p \in Services,
           \/ Config!Boot(p) \/ Config!ImportCollides(p) \/ Config!RefreshFails(p)
           \/ Config!Restart(p)
    PROVE  ConfigInductive'
<1>0. /\ proc[p] \in ServiceRecord /\ ServiceRight(proc[p]) /\ version \in Nat /\ version > 0
      /\ settings \in Document /\ gateway \in Config!Rows /\ android \in Config!Rows
  BY DEF ConfigInductive, ConfigTyped, StoreTyped
<1>1. UNCHANGED <<yaml, settings, asset, gateway, android, version, form, meant, strayed>>
  BY DEF Config!Boot, Config!ImportCollides, Config!RefreshFails, Config!Restart, Config!database,
         Config!history
<1>2. CASE proc' = [proc EXCEPT ![p] = Config!Down]
  <2>1. ServiceRight(Config!Down)
    BY <1>0, DownIs DEF ServiceRight, InStep, SecretUsable, ImportsRight
  <2>. QED
    BY <1>1, <1>2, <2>1, DownIs, ServiceMoves
<1>3. CASE Config!Boot(p)
  <2>. DEFINE next == [Config!NoOverlay EXCEPT !.gateway = gateway, !.android = android]
              x == [Config!Down EXCEPT !.pc = "import", !.read = settings, !.next = next]
  <2>1. proc' = [proc EXCEPT ![p] = x]
    BY <1>3 DEF Config!Boot
  <2>2. next \in Snapshot
    BY <1>0, DownIs DEF Snapshot
  <2>. HIDE DEF next
  <2>3. /\ x \in ServiceRecord /\ x.pc = "import" /\ x.seen = 0 /\ x.known = 0
        /\ x.overlay = Config!NoOverlay /\ x.read = settings
    BY <1>0, <2>2, DownIs DEF ServiceRecord
  <2>. HIDE DEF x
  <2>4. ServiceRight(x)
    BY <1>0, <2>3, DownIs DEF ServiceRight, InStep, SecretUsable, ImportsRight
  <2>. QED
    BY <1>1, <2>1, <2>3, <2>4, ServiceMoves
<1>4. CASE proc' = [proc EXCEPT ![p] = [Config!Down EXCEPT !.pc = "up", !.booted = TRUE,
                                            !.overlay = proc[p].overlay,
                                            !.known = proc[p].known]]
  <2>. DEFINE x == [Config!Down EXCEPT !.pc = "up", !.booted = TRUE, !.overlay = proc[p].overlay,
                                       !.known = proc[p].known]
  <2>1. /\ x \in ServiceRecord /\ x.pc = "up" /\ x.seen = 0 /\ x.known = proc[p].known
        /\ x.overlay = proc[p].overlay
    BY <1>0, DownIs DEF ServiceRecord
  <2>2. proc' = [proc EXCEPT ![p] = x]
    BY <1>4
  <2>. HIDE DEF x
  <2>3. ServiceRight(x)
    BY <1>0, <2>1 DEF ServiceRight, InStep, SecretUsable, ImportsRight, ServiceRecord
  <2>. QED
    BY <1>1, <2>1, <2>2, <2>3, ServiceMoves
<1>. QED
  BY <1>2, <1>3, <1>4 DEF Config!ImportCollides, Config!RefreshFails, Config!Restart

\* A commit of the dashboard: its own process forgets the version it knows.
LEMMA CommittedIs ==
    ASSUME ConfigInductive, Config!Committed
    PROVE  /\ version' = version + 1 /\ version' > version /\ version' \in Nat /\ version' > 0
           /\ proc' \in [Services -> ServiceRecord]
           /\ \A p \in Services : proc'[p] = proc[p] \/ proc'[p] = [proc[p] EXCEPT !.known = 0]
<1>1. /\ version \in Nat /\ version > 0 /\ version' = version + 1
      /\ proc' = [p \in Services |-> Config!Invalidated(p)]
  BY DEF ConfigInductive, ConfigTyped, StoreTyped, Config!Committed
<1>2. ASSUME NEW p \in Services
      PROVE  /\ Config!Invalidated(p) \in ServiceRecord
             /\ \/ Config!Invalidated(p) = proc[p]
                \/ Config!Invalidated(p) = [proc[p] EXCEPT !.known = 0]
  BY DEF ConfigInductive, ConfigTyped, Config!Invalidated, ServiceRecord
<1>. QED
  BY <1>1, <1>2

\* A request is over.
LEMMA ShutIs ==
    ASSUME ConfigInductive, NEW a, Config!Shut(a)
    PROVE  DOMAIN form' = Requests /\ \A b \in Requests : FormIs(form'[b])
<1>1. form' = [form EXCEPT ![a] = Config!Closed] /\ Config!Closed.pc = "closed"
  BY DEF Config!Shut, Config!Closed
<1>. QED
  BY <1>1 DEF ConfigInductive, ConfigTyped, FormIs

\* What a save makes of a document is a document, and no key is lost on the way.
LEMMA MergedIs ==
    ASSUME NEW d \in Document, NEW S \in SUBSET SettingNames, NEW set \in [S -> Settled]
    PROVE  /\ Config!Merged(d, set) \in Document
           /\ \A k \in SettingNames : /\ d[k] # "none" => Config!Merged(d, set)[k] # "none"
                                      /\ k \in S => Config!Merged(d, set)[k] = set[k]
                                      /\ k \notin S => Config!Merged(d, set)[k] = d[k]
BY DEF Config!Merged, Document, SettingNames, Settled

\* The settings pages and the logo's page.
LEMMA SaveSettingsKeeps ==
    ASSUME ConfigInductive, NEW a \in Requests, Config!SaveSettings(a)
    PROVE  ConfigInductive'
<1>. DEFINE f == form[a]
            set == f.edit.set
            merged == Config!Merged(f.read, set)
<1>1. /\ f.pc = "read" /\ f.edit.kind \in {"settings", "branding"}
      /\ settings' = IF merged = f.read THEN settings ELSE merged
      /\ asset' = IF f.edit.kind # "branding" THEN asset
                  ELSE IF set["logo"] = "" THEN "none" ELSE set["logo"]
      /\ Config!Committed /\ Config!Shut(a)
      /\ meant' = [meant EXCEPT !.settings = Config!Merged(meant.settings, set)]
      /\ strayed' = strayed \cup (IF f.read # settings THEN {"settings"} ELSE {})
                            \cup (IF f.edit.kind = "settings" /\ "logo" \in DOMAIN set
                                  THEN {"logo"} ELSE {})
      /\ UNCHANGED <<yaml, gateway, android, events>>
  BY DEF Config!SaveSettings, Config!Rewritten
<1>2. /\ PageIs(f.edit) /\ f.read \in Document /\ StoreTyped
      /\ Config!SavesKept /\ Config!LogoMatches
  BY <1>1 DEF ConfigInductive, ConfigTyped, FormIs
<1>3. PICK S \in SUBSET SettingNames :
         set \in [S -> Settled] /\ (f.edit.kind = "branding" => S = {"logo"})
  BY <1>1, <1>2 DEF PageIs, SettingNames
<1>. HIDE DEF set, f
<1>4. /\ merged \in Document /\ Config!Merged(meant.settings, set) \in Document
      /\ \A k \in SettingNames : /\ f.read[k] # "none" => merged[k] # "none"
                                 /\ k \in S => merged[k] = set[k]
                                 /\ k \notin S => merged[k] = f.read[k]
  <2>1. f.read \in Document /\ meant.settings \in Document
    BY <1>2 DEF StoreTyped
  <2>. QED
    BY <1>3, <2>1, MergedIs
<1>5. "settings" \notin strayed' => f.read = settings /\ settings' = merged /\ "settings" \notin strayed
  BY <1>1
<1>. HIDE DEF merged
<1>6. StoreTyped'
  BY <1>1, <1>2, <1>4, CommittedIs DEF StoreTyped
<1>7. Config!SavesKept'
  <2>1. "settings" \notin strayed' => settings' = meant'.settings
    BY <1>1, <1>2, <1>5 DEF Config!SavesKept, StoreTyped, merged
  <2>2. "secret" \notin strayed' => android'.secret = meant'.secret
    BY <1>1, <1>2 DEF Config!SavesKept, StoreTyped
  <2>. QED
    BY <2>1, <2>2 DEF Config!SavesKept
<1>8. Config!LogoMatches'
  <2>. SUFFICES ASSUME strayed' \cap {"settings", "logo"} = {}
                PROVE  asset' = IF settings'["logo"] \in {"", "none"} THEN "none" ELSE settings'["logo"]
    BY DEF Config!LogoMatches
  <2>1. /\ asset = IF settings["logo"] \in {"", "none"} THEN "none" ELSE settings["logo"]
        /\ settings' = merged /\ f.read = settings
    BY <1>1, <1>2, <1>5 DEF Config!LogoMatches
  <2>2. CASE f.edit.kind = "branding"
    <3>1. settings'["logo"] = set["logo"] /\ set["logo"] \in Settled
      BY <1>3, <1>4, <2>1, <2>2 DEF SettingNames
    <3>. QED
      BY <1>1, <2>2, <3>1 DEF Settled
  <2>3. CASE f.edit.kind # "branding"
    <3>1. "logo" \notin S /\ asset' = asset
      BY <1>1, <1>3, <2>3
    <3>2. settings'["logo"] = settings["logo"]
      BY <1>4, <2>1, <3>1 DEF SettingNames
    <3>. QED
      BY <2>1, <3>1, <3>2
  <2>. QED
    BY <2>2, <2>3
<1>9. "settings" \notin strayed' => \A k \in SettingNames : settings[k] # "none" => settings'[k] # "none"
  BY <1>4, <1>5
<1>10. strayed \subseteq strayed'
  BY <1>1
<1>. QED
  BY <1>1, <1>6, <1>7, <1>8, <1>9, <1>10, CommittedIs, ShutIs, StoreAdvances

\* A provider's row is written as a row.
LEMMA WrittenIs ==
    ASSUME NEW f, NEW row \in Config!Rows, PageIs(f.edit), f.edit.kind \in {"gateway", "android"},
           NEW secret \in Settled \cup Config!Secrets \cup {"none"}
    PROVE  /\ Config!Written(row, f, secret) \in Config!Rows
           /\ Config!Written(row, f, secret).secret = secret
BY DEF Config!Written, Config!Rows, PageIs, Settled

\* A gateway's page: the secret it writes is no part of what is promised.
LEMMA SaveGatewayKeeps ==
    ASSUME ConfigInductive, NEW a \in Requests, Config!SaveGateway(a)
    PROVE  ConfigInductive'
<1>. DEFINE f == form[a]
            secret == CASE f.edit.field = "blank" -> f.row.secret
                        [] f.edit.field = "masked" -> "none"
                        [] OTHER -> f.edit.field
<1>1. /\ f.pc = "read" /\ f.edit.kind = "gateway" /\ Config!Shut(a)
      /\ \/ UNCHANGED <<gateway, version, proc>>
         \/ gateway' = Config!Written(gateway, f, secret) /\ Config!Committed
      /\ UNCHANGED <<yaml, settings, asset, android, events, meant, strayed>>
  BY DEF Config!SaveGateway, Config!history
<1>2. /\ PageIs(f.edit) /\ f.row \in Config!Rows /\ StoreTyped
      /\ Config!SavesKept /\ Config!LogoMatches
  BY <1>1 DEF ConfigInductive, ConfigTyped, FormIs
<1>3. Config!SavesKept' /\ Config!LogoMatches'
  BY <1>1, <1>2 DEF Config!SavesKept, Config!LogoMatches
<1>4. CASE UNCHANGED <<gateway, version, proc>>
  <2>1. ConfigTyped'
    BY <1>1, <1>4, ShutIs DEF ConfigInductive, ConfigTyped, StoreTyped, FormIs
  <2>2. ASSUME NEW p \in Services PROVE ServiceRight(proc[p])'
    BY <1>1, <1>4 DEF ConfigInductive, ServiceRight, InStep, SecretUsable, ImportsRight, Config!Usable
  <2>. QED
    BY <1>3, <2>1, <2>2 DEF ConfigInductive
<1>5. CASE gateway' = Config!Written(gateway, f, secret) /\ Config!Committed
  <2>1. secret \in Settled \cup Config!Secrets \cup {"none"}
    BY <1>1, <1>2 DEF PageIs, Config!Rows, Settled
  <2>. HIDE DEF secret, f
  <2>2. gateway' \in Config!Rows
    BY <1>1, <1>2, <1>5, <2>1, WrittenIs DEF StoreTyped
  <2>3. StoreTyped'
    BY <1>1, <1>2, <1>5, <2>2, CommittedIs DEF StoreTyped
  <2>. QED
    BY <1>1, <1>3, <1>5, <2>3, CommittedIs, ShutIs, StoreAdvances
<1>. QED
  BY <1>1, <1>4, <1>5

\* Android's page: the secret that is accepted is the one that is stored.
LEMMA SaveAndroidKeeps ==
    ASSUME ConfigInductive, NEW a \in Requests, Config!SaveAndroid(a)
    PROVE  ConfigInductive'
<1>. DEFINE f == form[a]
            secret == IF f.edit.enabled THEN Config!Resolved(f)
                      ELSE IF f.edit.field \in Config!Secrets THEN f.edit.field ELSE f.row.secret
            saved == /\ android' = Config!Written(android, f, secret)
                     /\ Config!Committed
                     /\ meant' = [meant EXCEPT !.secret =
                                    IF f.edit.enabled \/ f.edit.field \in Config!Secrets
                                    THEN secret ELSE @]
                     /\ strayed' = strayed \cup (IF f.row # android THEN {"secret"} ELSE {})
<1>1. /\ f.pc = "read" /\ f.edit.kind = "android" /\ Config!Shut(a)
      /\ UNCHANGED <<android, version, proc, meant, strayed>> \/ saved
      /\ UNCHANGED <<yaml, settings, asset, gateway, events>>
  BY DEF Config!SaveAndroid
<1>2. /\ PageIs(f.edit) /\ f.row \in Config!Rows /\ StoreTyped
      /\ Config!SavesKept /\ Config!LogoMatches
  BY <1>1 DEF ConfigInductive, ConfigTyped, FormIs
<1>4. CASE UNCHANGED <<android, version, proc, meant, strayed>>
  <2>1. ConfigTyped'
    BY <1>1, <1>4, ShutIs DEF ConfigInductive, ConfigTyped, StoreTyped, FormIs
  <2>2. ASSUME NEW p \in Services PROVE ServiceRight(proc[p])'
    BY <1>1, <1>4 DEF ConfigInductive, ServiceRight, InStep, SecretUsable, ImportsRight, Config!Usable
  <2>3. Config!SavesKept' /\ Config!LogoMatches'
    BY <1>1, <1>2, <1>4 DEF Config!SavesKept, Config!LogoMatches
  <2>. QED
    BY <2>1, <2>2, <2>3 DEF ConfigInductive
<1>5. CASE saved
  <2>1. secret \in Settled \cup Config!Secrets \cup {"none"}
    BY <1>1, <1>2 DEF PageIs, Config!Rows, Settled, StoreTyped, Config!Resolved, Config!Secrets
  <2>2. ~f.edit.enabled /\ f.edit.field \notin Config!Secrets => secret = f.row.secret
    OBVIOUS
  <2>. HIDE DEF secret, f
  <2>3. android' \in Config!Rows /\ android'.secret = secret
    <3>1. android' = Config!Written(android, f, secret) /\ android \in Config!Rows
      BY <1>2, <1>5 DEF StoreTyped
    <3>. QED
      BY <1>1, <1>2, <2>1, <3>1, WrittenIs
  <2>4. meant' \in [settings : Document, secret : Config!Secrets \cup {"none", "", "a", "b"}]
        /\ meant'.settings = meant.settings
        /\ meant'.secret = IF f.edit.enabled \/ f.edit.field \in Config!Secrets
                           THEN secret ELSE meant.secret
    BY <1>2, <1>5, <2>1 DEF StoreTyped, Settled
  <2>5. StoreTyped'
    BY <1>1, <1>2, <1>5, <2>3, <2>4, CommittedIs DEF StoreTyped
  <2>6. Config!SavesKept' /\ Config!LogoMatches'
    <3>1. "secret" \notin strayed' => android'.secret = meant'.secret
      BY <1>2, <1>5, <2>2, <2>3, <2>4 DEF Config!SavesKept
    <3>2. /\ "settings" \in strayed <=> "settings" \in strayed'
          /\ strayed' \cap {"settings", "logo"} = strayed \cap {"settings", "logo"}
      BY <1>5
    <3>3. Config!SavesKept'
      BY <1>1, <1>2, <2>4, <3>1, <3>2 DEF Config!SavesKept
    <3>4. Config!LogoMatches'
      BY <1>1, <1>2, <3>2 DEF Config!LogoMatches
    <3>. QED
      BY <3>3, <3>4
  <2>7. strayed \subseteq strayed'
    BY <1>5
  <2>. QED
    BY <1>1, <1>5, <2>5, <2>6, <2>7, CommittedIs, ShutIs, StoreAdvances
<1>. QED
  BY <1>1, <1>4, <1>5

\* The instance counts like everybody else.
LEMMA ConfigCounts == ASSUME NEW S PROVE Config!Cardinality(S) = Cardinality(S)
BY DEF Config!Cardinality, Cardinality

\* The version advances if one of the three imports writes.
LEMMA BumpsIs ==
    ASSUME NEW one \in BOOLEAN, NEW two \in BOOLEAN, NEW three \in BOOLEAN
    PROVE  LET S == {i \in 1..3 : \/ i = 1 /\ one
                                  \/ i = 2 /\ two
                                  \/ i = 3 /\ three}
           IN  Config!Cardinality(S) \in Nat /\ (one \/ two \/ three => Config!Cardinality(S) > 0)
<1>. DEFINE S == {i \in 1..3 : \/ i = 1 /\ one
                               \/ i = 2 /\ two
                               \/ i = 3 /\ three}
<1>1. IsFiniteSet(S)
  <2>1. IsFiniteSet(1..3)
    <3>1. PICK n \in Nat : n = 3
      OBVIOUS
    <3>2. IsFiniteSet(1..n)
      BY FS_Interval
    <3>. QED
      BY <3>1, <3>2
  <2>2. S \subseteq 1..3
    OBVIOUS
  <2>. HIDE DEF S
  <2>. QED
    BY <2>1, <2>2, FS_Subset
<1>2. Cardinality(S) \in Nat /\ (Cardinality(S) = 0 <=> S = {})
  BY <1>1, FS_CardinalityType, FS_EmptySet
<1>3. one \/ two \/ three => S # {}
  <2>1. one => 1 \in S
    OBVIOUS
  <2>2. two => 2 \in S
    OBVIOUS
  <2>3. three => 3 \in S
    OBVIOUS
  <2>. QED
    BY <2>1, <2>2, <2>3
<1>. HIDE DEF S
<1>4. Config!Cardinality(S) \in Nat /\ (one \/ two \/ three => Config!Cardinality(S) > 0)
  BY <1>2, <1>3, ConfigCounts
<1>. QED
  BY <1>4 DEF S

\* A document with what only the file has.
LEMMA FromYamlIs ==
    ASSUME ConfigInductive, NEW d \in Document
    PROVE  /\ Config!FromYaml(d) \in Document
           /\ Config!FromYaml(d) = [k \in SettingNames |-> IF d[k] = "none" THEN yaml.settings[k] ELSE d[k]]
BY DEF Config!FromYaml, ConfigInductive, ConfigTyped, StoreTyped, Document, SettingNames

\* An import writes what it has read and what is missing; whoever saved in between is
\* excused, and no other key is touched.
LEMMA ImportKeeps ==
    ASSUME ConfigInductive, NEW p \in Services, Config!Import(p)
    PROVE  ConfigInductive'
<1>. DEFINE r == proc[p].read
            document == Config!FromYaml(r)
            newGateway == ~gateway.exists /\ yaml.gateway # "none"
            newAndroid == ~android.exists /\ yaml.secret \in Accepted
            bumps == Config!Cardinality({i \in 1..3 : \/ i = 1 /\ document # r
                                                      \/ i = 2 /\ newGateway
                                                      \/ i = 3 /\ newAndroid})
<1>1. /\ proc[p].pc = "import"
      /\ settings' = IF document = r THEN settings ELSE document
      /\ gateway' = IF newGateway THEN Config!Imported(yaml.gateway) ELSE gateway
      /\ android' = IF newAndroid THEN Config!Imported(yaml.secret) ELSE android
      /\ version' = version + bumps
      /\ meant' = [settings |-> [k \in SettingNames |-> IF meant.settings[k] = "none"
                                                        THEN yaml.settings[k]
                                                        ELSE meant.settings[k]],
                   secret |-> IF newAndroid THEN yaml.secret ELSE meant.secret]
      /\ strayed' = strayed \cup (IF document # r /\ r # settings THEN {"settings"} ELSE {})
                            \cup (IF document["logo"] # r["logo"] THEN {"logo"} ELSE {})
      /\ proc' = [proc EXCEPT ![p] = [Config!Down EXCEPT !.pc = "version"]]
      /\ UNCHANGED <<yaml, asset, form, events>>
  BY DEF Config!Import, Config!Rewritten, SettingNames, Accepted
<1>2. /\ StoreTyped /\ Config!SavesKept /\ Config!LogoMatches
      /\ r \in Document /\ ImportsRight(proc[p])
      /\ proc \in [Services -> ServiceRecord]
  BY DEF ConfigInductive, ConfigTyped, ServiceRecord, ServiceRight
<1>3. /\ document \in Document
      /\ document = [k \in SettingNames |-> IF r[k] = "none" THEN yaml.settings[k] ELSE r[k]]
  BY <1>2, FromYamlIs
<1>4. bumps \in Nat /\ (document # r \/ newGateway \/ newAndroid => bumps > 0)
  <2>1. /\ (document # r) \in BOOLEAN /\ newGateway \in BOOLEAN /\ newAndroid \in BOOLEAN
    OBVIOUS
  <2>. HIDE DEF document, newGateway, newAndroid
  <2>. QED
    BY <2>1, BumpsIs
<1>5. Config!Imported(yaml.gateway) \in Config!Rows /\ Config!Imported(yaml.secret) \in Config!Rows
      /\ Config!Imported(yaml.secret).secret = yaml.secret
  BY <1>2 DEF Config!Imported, Config!Rows, StoreTyped
<1>. HIDE DEF bumps, document, r, newGateway, newAndroid
<1>6. meant' \in [settings : Document, secret : Config!Secrets \cup {"none", "", "a", "b"}]
  BY <1>1, <1>2 DEF StoreTyped, Document
<1>7. StoreTyped'
  <2>0. version' = version + bumps /\ version \in Nat /\ version > 0
    BY <1>1, <1>2, Zenon DEF StoreTyped
  <2>1. version' \in Nat /\ version' > 0
    BY <1>4, <2>0
  <2>2. settings' \in Document /\ gateway' \in Config!Rows /\ android' \in Config!Rows /\ yaml' = yaml
    BY <1>1, <1>2, <1>3, <1>5, Zenon DEF StoreTyped
  <2>. QED
    BY <1>2, <1>6, <2>1, <2>2, Zenon DEF StoreTyped
<1>8. version' > version \/ UNCHANGED <<settings, gateway, android, version>>
  <2>0. version' = version + bumps /\ version \in Nat
    BY <1>1, <1>2, Zenon DEF StoreTyped
  <2>1. CASE bumps > 0
    BY <1>4, <2>0, <2>1
  <2>2. CASE bumps = 0
    <3>1. version' = version /\ ~(document # r \/ newGateway \/ newAndroid)
      BY <1>4, <2>0, <2>2
    <3>. QED
      BY <1>1, <3>1, Zenon
  <2>. QED
    BY <1>4, <2>1, <2>2
<1>9. "settings" \notin strayed' => "settings" \notin strayed /\ (document = r \/ r = settings)
  BY <1>1
<1>10. "settings" \notin strayed' =>
         \A k \in SettingNames : settings[k] # "none" => settings'[k] # "none"
  BY <1>1, <1>3, <1>9
<1>11. Config!SavesKept'
  <2>1. ASSUME "settings" \notin strayed' PROVE settings' = meant'.settings
    <3>1. settings = meant.settings
      BY <1>2, <1>9, <2>1 DEF Config!SavesKept
    <3>2. meant'.settings = [k \in SettingNames |-> IF settings[k] = "none"
                                                    THEN yaml.settings[k] ELSE settings[k]]
      BY <1>1, <3>1
    <3>3. CASE document = r
      <4>1. ASSUME NEW k \in SettingNames, settings[k] = "none" PROVE yaml.settings[k] = "none"
        <5>1. r[k] = "none"
          BY <1>1, <1>2, <1>9, <2>1, <4>1 DEF ImportsRight, r
        <5>. QED
          BY <1>3, <3>3, <5>1
      <4>2. settings = [k \in SettingNames |-> settings[k]]
        BY <1>2 DEF StoreTyped, Document
      <4>. QED
        BY <1>1, <3>2, <3>3, <4>1, <4>2
    <3>4. CASE document # r
      BY <1>1, <1>3, <1>9, <2>1, <3>2, <3>4
    <3>. QED
      BY <3>3, <3>4
  <2>2. "secret" \notin strayed' => android'.secret = meant'.secret
    BY <1>1, <1>2, <1>5 DEF Config!SavesKept
  <2>. QED
    BY <2>1, <2>2 DEF Config!SavesKept
<1>12. Config!LogoMatches'
  <2>. SUFFICES ASSUME strayed' \cap {"settings", "logo"} = {}
                PROVE  asset' = IF settings'["logo"] \in {"", "none"} THEN "none" ELSE settings'["logo"]
    BY DEF Config!LogoMatches
  <2>1. /\ asset = IF settings["logo"] \in {"", "none"} THEN "none" ELSE settings["logo"]
        /\ document["logo"] = r["logo"]
    BY <1>1, <1>2 DEF Config!LogoMatches
  <2>2. settings'["logo"] = settings["logo"]
    BY <1>1, <1>9, <2>1
  <2>. QED
    BY <1>1, <2>1, <2>2
<1>13. proc' \in [Services -> ServiceRecord] /\ \A q \in Services :
          proc'[q] = proc[q] \/ proc'[q] = [Config!Down EXCEPT !.pc = "version"]
  <2>1. [Config!Down EXCEPT !.pc = "version"] \in ServiceRecord
    BY DownIs DEF ServiceRecord
  <2>. QED
    BY <1>1, <1>2, <2>1
<1>14. DOMAIN form' = Requests /\ \A a \in Requests : FormIs(form'[a])
  BY <1>1 DEF ConfigInductive, ConfigTyped
<1>15. strayed \subseteq strayed'
  BY <1>1
<1>. QED
  BY <1>7, <1>8, <1>10, <1>11, <1>12, <1>13, <1>14, <1>15, StoreAdvances

\* A page of the dashboard is opened.
LEMMA OpenKeeps ==
    ASSUME ConfigInductive, NEW a \in Requests, Config!Open(a)
    PROVE  ConfigInductive'
<1>1. \E x : form' = [form EXCEPT ![a] = x] /\ FormIs(x)
  <2>. DEFINE Sent(e) ==
         \/ e.kind = "settings" /\ e.set \in UNION {[K -> {"", "a", "b"}] : K \in SUBSET {"logo", "url"} \ {{}}}
         \/ e.kind = "branding" /\ e.set \in [{"logo"} -> {"", "a", "b"}]
         \/ /\ e.kind \in {"gateway", "android"}
            /\ e.enabled \in BOOLEAN /\ e.field \in {"blank", "masked"} \cup {"good", "new"} \cup {"bad"}
              Opened(e) == form' = [form EXCEPT ![a] =
                      [pc |-> "read", edit |-> e,
                       read |-> IF e.kind \in {"settings", "branding"} THEN settings
                                ELSE Config!Closed.read,
                       row |-> CASE e.kind = "gateway" -> gateway
                                 [] e.kind = "android" -> android
                                 [] OTHER -> Config!NoRow]]
  <2>0. PICK e : Sent(e) /\ Opened(e)
    BY ConfigEdits, Zenon DEF Config!Open, Config!EditsAre
  <2>1. PageIs(e) /\ Opened(e)
    BY <2>0 DEF PageIs, SettingNames, Settled, Config!Secrets
  <2>2. Config!Closed.read \in Document
    BY DEF Config!Closed, Document, SettingNames
  <2>3. settings \in Document /\ gateway \in Config!Rows /\ android \in Config!Rows
    BY DEF ConfigInductive, ConfigTyped, StoreTyped
  <2>. DEFINE x == [pc |-> "read", edit |-> e,
                    read |-> IF e.kind \in {"settings", "branding"} THEN settings
                             ELSE Config!Closed.read,
                    row |-> CASE e.kind = "gateway" -> gateway
                              [] e.kind = "android" -> android
                              [] OTHER -> Config!NoRow]
  <2>4. FormIs(x)
    BY <2>1, <2>2, <2>3, DownIs DEF FormIs
  <2>. QED
    BY <2>1, <2>4
<1>2. ConfigTyped'
  BY <1>1 DEF Config!Open, Config!database, Config!history, ConfigInductive, ConfigTyped, StoreTyped
<1>3. Config!SavesKept' /\ Config!LogoMatches'
  BY DEF Config!Open, Config!database, Config!history, ConfigInductive, Config!SavesKept,
         Config!LogoMatches
<1>4. ASSUME NEW p \in Services PROVE ServiceRight(proc[p])'
  BY DEF Config!Open, Config!database, Config!history, ConfigInductive, ServiceRight, InStep,
         SecretUsable, ImportsRight, Config!Usable
<1>. QED
  BY <1>2, <1>3, <1>4 DEF ConfigInductive

\* Every step of the configuration.
LEMMA ConfigNextKeeps == ConfigInductive /\ [Config!Next]_configVars => ConfigInductive'
<1>. SUFFICES ASSUME ConfigInductive, [Config!Next]_configVars PROVE ConfigInductive'
  OBVIOUS
<1>1. CASE Config!Next
  BY <1>1, OpenKeeps, SaveSettingsKeeps, SaveGatewayKeeps, SaveAndroidKeeps, RefreshKeeps,
     PublishKeeps, BootsKeep, ImportKeeps DEF Config!Next
<1>2. CASE UNCHANGED configVars
  BY <1>2 DEF configVars, ConfigInductive, ConfigTyped, StoreTyped, FormIs, ServiceRight, InStep,
     SecretUsable, ImportsRight, Config!Usable, Config!SavesKept, Config!LogoMatches
<1>. QED
  BY <1>1, <1>2

\* What the saves and the overlays are to promise follows.
LEMMA ConfigConcludes == ConfigInductive => Config!ConfigSound
<1>. SUFFICES ASSUME ConfigInductive PROVE Config!ConfigSound
  OBVIOUS
<1>1. Config!Synced
  BY DEF ConfigInductive, ServiceRight, InStep, Config!Synced
<1>2. Config!AndroidStaysUp
  BY DEF ConfigInductive, ServiceRight, SecretUsable, Accepted, Config!AndroidStaysUp,
         Config!AndroidSecret, Config!Field
<1>. QED
  BY <1>1, <1>2 DEF ConfigInductive, Config!ConfigSound

\* However saves, imports, polls, failed queries and restarts interleave, a process that
\* knows the latest version has published what is stored, a save is overwritten only by a
\* request that read before it, and no row takes Android down that the admin left on.
THEOREM ConfigIsSound == Spec => []ConfigSound
<1>1. Init => Config!Init
  BY DEF Init
<1>2. [Next]_allVars => [Config!Next]_configVars
  BY DEF Next, CacheNext, CrmNext, HooksNext, PushNext, HealthNext, DeskNext, IdsNext, MenuNext,
     TalkNext, ConfigNext, AudienceNext, ScheduleNext, AlertsNext, ErrorsNext, allVars, workerVars, adminVars,
     configVars
<1>3. Spec => []ConfigInductive
  BY <1>1, <1>2, ConfigBegins, ConfigNextKeeps, PTL DEF Spec
<1>4. ConfigInductive => ConfigSound
  BY ConfigConcludes DEF ConfigSound
<1>. QED
  BY <1>3, <1>4, PTL
=============================================================================
