--------------------------- MODULE Campaign_proofs ---------------------------
(***************************************************************************)
(* Proofs about Campaign, for any number of users, events, campaigns,      *)
(* dashboard handlers and workers, and any repeat policy.                  *)
(***************************************************************************)
EXTENDS Campaign, FiniteSetTheorems, TLAPS

\* What the proofs assume of the constants: there are finitely many of everything.
Sizes ==
    /\ MaxCampaigns \in Nat /\ ProgressEvery \in Nat \ {0}
    /\ IsFiniteSet(Users) /\ IsFiniteSet(Workers) /\ IsFiniteSet(Requests)
    /\ Known \subseteq Users /\ Segment \subseteq Users
    /\ NoEvent \notin Events

\* Handlers that are about to queue or to enqueue a campaign.
Asking(c) == {r \in Requests : request[r].pc = "enqueue" /\ request[r].campaign = c}

\* Jobs that have still to handle a user.
Holding(c, u) == {w \in Workers : worker[w].campaign = c /\ u \in worker[w].todo}

Rows == campaign \in [Campaigns -> Row]

Desk ==
    /\ request \in [Requests -> Handler]
    /\ \A r \in Requests :
         request[r].pc \in {"queue", "enqueue"} => request[r].campaign \in Campaigns

Fit(job) == job.pc # "idle" <=> job.campaign \in Campaigns

JobRows ==
    /\ worker \in [Workers -> Job]
    /\ \A w \in Workers : Fit(worker[w])

Counters ==
    /\ queue \in [Campaigns -> Nat]
    /\ launches \in [Campaigns -> Nat]
    /\ handled \in [Campaigns -> [Users -> Nat]]

Fresh == \A c \in Campaigns : campaign[c].status = "none" => launches[c] = 0

\* A user has been handled, and may still be by jobs that run, wait, or are about to be
\* put into the queue, as often as the campaign was launched.
Budget ==
    \A c \in Campaigns, u \in Users :
        handled[c][u] + queue[c] + Cardinality(Asking(c)) + Cardinality(Holding(c, u))
            <= launches[c]

Typed == Rows /\ Desk /\ JobRows /\ Counters
Consistent == Typed /\ Fresh /\ Budget /\ NotForgotten

-----------------------------------------------------------------------------
(* Counting *)

\* An audience is finite.
LEMMA Audience ==
    ASSUME Sizes, NEW S \in SUBSET Users
    PROVE  Cardinality(S) \in Nat
BY FS_Subset, FS_CardinalityType DEF Sizes

\* The sets of the budget are finite.
LEMMA Counts ==
    ASSUME Sizes, NEW c, NEW u
    PROVE  /\ IsFiniteSet(Asking(c)) /\ Cardinality(Asking(c)) \in Nat
           /\ IsFiniteSet(Holding(c, u)) /\ Cardinality(Holding(c, u)) \in Nat
<1>1. Asking(c) \in SUBSET Requests /\ Holding(c, u) \in SUBSET Workers
  BY DEF Asking, Holding
<1>. QED
  BY <1>1, FS_Subset, FS_CardinalityType DEF Sizes

\* The same of the next state.
LEMMA CountsNext ==
    ASSUME Sizes, NEW c, NEW u
    PROVE  /\ IsFiniteSet(Asking(c)') /\ Cardinality(Asking(c)') \in Nat
           /\ IsFiniteSet(Holding(c, u)') /\ Cardinality(Holding(c, u)') \in Nat
<1>1. Asking(c)' \in SUBSET Requests /\ Holding(c, u)' \in SUBSET Workers
  BY DEF Asking, Holding
<1>. QED
  BY <1>1, FS_Subset, FS_CardinalityType DEF Sizes

\* A campaign whose numbers do not grow keeps its budget.
LEMMA BudgetKept ==
    ASSUME Sizes, Typed, Counters', NEW c \in Campaigns, NEW u \in Users,
           handled'[c][u] = handled[c][u], queue'[c] = queue[c],
           launches'[c] = launches[c],
           Asking(c)' \subseteq Asking(c), Holding(c, u)' \subseteq Holding(c, u),
           Budget
    PROVE  handled'[c][u] + queue'[c] + Cardinality(Asking(c)') + Cardinality(Holding(c, u)')
               <= launches'[c]
<1>1. /\ Cardinality(Asking(c)') <= Cardinality(Asking(c))
      /\ Cardinality(Holding(c, u)') <= Cardinality(Holding(c, u))
  BY Counts, FS_Subset
<1>2. /\ Cardinality(Asking(c)') \in Nat /\ Cardinality(Holding(c, u)') \in Nat
      /\ Cardinality(Asking(c)) \in Nat /\ Cardinality(Holding(c, u)) \in Nat
  BY Counts, CountsNext
<1>3. handled[c][u] \in Nat /\ queue[c] \in Nat /\ launches[c] \in Nat
  BY DEF Typed, Counters
<1>. QED
  BY <1>1, <1>2, <1>3 DEF Budget

-----------------------------------------------------------------------------
(* Kinds of steps *)

\* Handlers start, read and give up; campaigns are created; rows of events change.
LEMMA DeskStep ==
    ASSUME Sizes, Consistent, Rows', Desk',
           UNCHANGED <<queue, worker, handled, launches>>,
           stranded \subseteq stranded',
           \A r \in Requests :
              /\ request'[r].pc = "enqueue" <=> request[r].pc = "enqueue"
              /\ request[r].pc = "enqueue" => request'[r].campaign = request[r].campaign,
           \A c \in Campaigns :
              campaign'[c].status = campaign[c].status \/ campaign'[c].status = "draft"
    PROVE  Consistent'
<1>1. Typed' /\ Counters'
  BY DEF Consistent, Typed, JobRows, Counters
<1>2. Fresh'
  BY DEF Consistent, Fresh
<1>3. \A c : Asking(c)' = Asking(c) /\ \A u : Holding(c, u)' = Holding(c, u)
  BY DEF Asking, Holding
<1>4. Budget'
  BY <1>1, <1>3, BudgetKept DEF Budget, Consistent
<1>5. NotForgotten'
  BY DEF Consistent, NotForgotten, Busy, Typed, Rows
<1>. QED
  BY <1>1, <1>2, <1>4, <1>5 DEF Consistent

\* A job goes on with its campaign and has no more users to handle than before.
LEMMA JobGoesOn ==
    ASSUME Sizes, Consistent, Rows', NEW w \in Workers, NEW job \in Job,
           worker' = [worker EXCEPT ![w] = job],
           worker[w].pc # "idle", job.pc # "idle", job.campaign = worker[w].campaign,
           job.todo \subseteq worker[w].todo,
           UNCHANGED <<queue, request, handled, launches, stranded>>,
           \A c \in Campaigns :
              \/ campaign'[c].status = campaign[c].status
              \/ c = worker[w].campaign /\ campaign'[c].status = "running"
    PROVE  Consistent'
<1>1. /\ worker'[w] = job
      /\ \A v \in Workers : v # w => worker'[v] = worker[v]
      /\ worker' \in [Workers -> Job]
  BY DEF Consistent, Typed, JobRows
<1>2. Typed' /\ Counters'
  BY <1>1 DEF Consistent, Typed, Desk, JobRows, Fit, Counters
<1>3. Fresh'
  BY DEF Consistent, Fresh
<1>4. \A c : Asking(c)' = Asking(c) /\ \A u : Holding(c, u)' \subseteq Holding(c, u)
  BY <1>1 DEF Asking, Holding
<1>5. Budget'
  BY <1>2, <1>4, BudgetKept DEF Budget, Consistent
<1>6. \A c \in Campaigns : Busy(c) => Busy(c)'
  BY <1>1 DEF Busy
<1>7. worker[w].campaign \in Campaigns /\ Busy(worker[w].campaign)'
  BY <1>1 DEF Busy, Consistent, Typed, JobRows, Fit
<1>8. NotForgotten'
  BY <1>6, <1>7 DEF Consistent, NotForgotten
<1>. QED
  BY <1>2, <1>3, <1>5, <1>8 DEF Consistent

\* A job is over: its campaign has a final status, or is known to be stranded.
LEMMA JobOver ==
    ASSUME Sizes, Consistent, Rows', NEW w \in Workers,
           worker[w].pc # "idle", worker' = [worker EXCEPT ![w] = NoJob],
           UNCHANGED <<queue, request, handled, launches>>,
           stranded \subseteq stranded',
           \A c \in Campaigns :
              IF c = worker[w].campaign
              THEN /\ campaign'[c].status \in {"queued", "running"} => c \in stranded'
                   /\ campaign'[c].status = "none" => campaign[c].status = "none"
              ELSE campaign'[c].status = campaign[c].status
    PROVE  Consistent'
<1>1. NoJob \in Job /\ NoJob.pc = "idle" /\ NoJob.campaign \notin Campaigns /\ NoJob.todo = {}
  BY DEF NoJob, Job, NoCampaign, Campaigns, Statuses
<1>2. /\ worker'[w] = NoJob
      /\ \A v \in Workers : v # w => worker'[v] = worker[v]
      /\ worker' \in [Workers -> Job]
  BY <1>1 DEF Consistent, Typed, JobRows
<1>3. Typed' /\ Counters'
  BY <1>1, <1>2 DEF Consistent, Typed, Desk, JobRows, Fit, Counters
<1>4. Fresh'
  BY DEF Consistent, Fresh
<1>5. \A c : Asking(c)' = Asking(c) /\ \A u : Holding(c, u)' \subseteq Holding(c, u)
  BY <1>1, <1>2 DEF Asking, Holding
<1>6. Budget'
  BY <1>3, <1>5, BudgetKept DEF Budget, Consistent
<1>7. \A c \in Campaigns : c # worker[w].campaign /\ Busy(c) => Busy(c)'
  BY <1>2 DEF Busy
<1>8. NotForgotten'
  BY <1>7 DEF Consistent, NotForgotten
<1>. QED
  BY <1>3, <1>4, <1>6, <1>8 DEF Consistent

-----------------------------------------------------------------------------
(* The dashboard *)

\* A row of crm_campaigns.
LEMMA RowOf == ASSUME Rows, NEW c \in Campaigns PROVE campaign[c] \in Row
BY DEF Rows

\* A handler of the dashboard.
LEMMA RequestOf == ASSUME Desk, NEW r \in Requests PROVE request[r] \in Handler
BY DEF Desk

\* A row that is replaced by another well-typed one.
LEMMA RowChanged ==
    ASSUME Rows, NEW c \in Campaigns, NEW x \in Row, campaign' = [campaign EXCEPT ![c] = x]
    PROVE  Rows' /\ campaign'[c] = x /\ \A d \in Campaigns : d # c => campaign'[d] = campaign[d]
BY DEF Rows

\* A handler that moves on.
LEMMA HandlerChanged ==
    ASSUME Desk, NEW r \in Requests, NEW x \in Handler, request' = [request EXCEPT ![r] = x],
           x.pc \in {"queue", "enqueue"} => x.campaign \in Campaigns
    PROVE  Desk' /\ request'[r] = x /\ \A q \in Requests : q # r => request'[q] = request[q]
BY DEF Desk

\* A handler that is done.
LEMMA IdleHandler == NoRequest \in Handler /\ NoRequest.pc = "idle"
BY DEF NoRequest, Handler

\* A draft is created.
LEMMA CreateKeeps ==
    ASSUME Sizes, Consistent, NEW c \in Campaigns, NEW chosen \in {{}, Known},
           CreateCampaign(c, chosen)
    PROVE  Consistent'
<1>. DEFINE x == [campaign[c] EXCEPT !.status = "draft", !.targets = chosen,
                                     !.total = Cardinality(chosen)]
<1>1. Cardinality(chosen) \in Nat /\ chosen \subseteq Users
  BY Audience DEF Sizes
<1>2. campaign[c] \in Row
  BY RowOf DEF Consistent, Typed
<1>3. x \in Row /\ x.status = "draft"
  BY <1>1, <1>2 DEF Row, Statuses
<1>4. campaign' = [campaign EXCEPT ![c] = x]
  BY DEF CreateCampaign
<1>5. Rows' /\ campaign'[c] = x /\ \A d \in Campaigns : d # c => campaign'[d] = campaign[d]
  BY <1>3, <1>4, RowChanged DEF Consistent, Typed
<1>6. UNCHANGED <<queue, request, worker, handled, launches, stranded>>
  BY DEF CreateCampaign, history
<1>7. Desk'
  BY <1>6 DEF Consistent, Typed, Desk
<1>. QED
  BY <1>3, <1>5, <1>6, <1>7, DeskStep

\* Handlers that are not about to enqueue anything, before or after.
LEMMA QuietHandler ==
    ASSUME Sizes, Consistent, NEW r \in Requests, NEW x \in Handler,
           request' = [request EXCEPT ![r] = x],
           request[r].pc # "enqueue", x.pc # "enqueue",
           x.pc = "queue" => x.campaign \in Campaigns,
           UNCHANGED <<campaign, queue, worker, handled, launches, stranded>>
    PROVE  Consistent'
<1>1. Desk' /\ request'[r] = x /\ \A q \in Requests : q # r => request'[q] = request[q]
  BY HandlerChanged DEF Consistent, Typed
<1>2. Rows'
  BY DEF Consistent, Typed, Rows
<1>. QED
  BY <1>1, <1>2, DeskStep

\* A handler reads a campaign or an event.
LEMMA BeginKeeps ==
    ASSUME Sizes, Consistent, NEW r \in Requests,
           \/ \E c \in Campaigns : BeginExecute(r, c)
           \/ \E e \in Events : BeginEvent(r, e)
    PROVE  Consistent'
<1>1. CASE \E c \in Campaigns : BeginExecute(r, c)
  <2>. PICK c \in Campaigns : BeginExecute(r, c)
    BY <1>1
  <2>. DEFINE x == [NoRequest EXCEPT !.pc = "queue", !.campaign = c]
  <2>1. x \in Handler /\ x.pc = "queue" /\ x.campaign = c
    BY DEF NoRequest, Handler
  <2>2. /\ request' = [request EXCEPT ![r] = x] /\ request[r].pc = "idle"
        /\ UNCHANGED <<campaign, queue, worker, handled, launches, stranded>>
    BY DEF BeginExecute, history
  <2>. QED
    BY <2>1, <2>2, QuietHandler
<1>2. CASE \E e \in Events : BeginEvent(r, e)
  <2>. PICK e \in Events : BeginEvent(r, e)
    BY <1>2
  <2>. DEFINE x == [NoRequest EXCEPT !.pc = "event", !.event = e]
  <2>1. x \in Handler /\ x.pc = "event"
    BY DEF NoRequest, Handler
  <2>2. /\ request' = [request EXCEPT ![r] = x] /\ request[r].pc = "idle"
        /\ UNCHANGED <<campaign, queue, worker, handled, launches, stranded>>
    BY DEF BeginEvent, history
  <2>. QED
    BY <2>1, <2>2, QuietHandler
<1>. QED
  BY <1>1, <1>2

\* A handler finds nobody, or its event is gone.
LEMMA GiveUpKeeps ==
    ASSUME Sizes, Consistent, NEW r \in Requests, NoTargets(r) \/ EmptyEvent(r)
    PROVE  Consistent'
<1>1. /\ request' = [request EXCEPT ![r] = NoRequest] /\ request[r].pc # "enqueue"
      /\ UNCHANGED <<campaign, queue, worker, handled, launches, stranded>>
  BY DEF NoTargets, EmptyEvent, history
<1>. QED
  BY <1>1, IdleHandler, QuietHandler

\* A handler reads the recipients of an event.
LEMMA ScanKeeps ==
    ASSUME Sizes, Consistent, NEW r \in Requests, ScanEvent(r)
    PROVE  Consistent'
<1>. DEFINE T == Allowed(request[r].event)
            x == [request[r] EXCEPT !.pc = "create", !.targets = T]
<1>1. T \subseteq Users
  BY DEF Allowed, Sizes
<1>2. request[r] \in Handler
  BY RequestOf DEF Consistent, Typed
<1>3. x \in Handler /\ x.pc = "create"
  BY <1>1, <1>2 DEF Handler
<1>4. /\ request' = [request EXCEPT ![r] = x] /\ request[r].pc = "event"
      /\ UNCHANGED <<campaign, queue, worker, handled, launches, stranded>>
  BY DEF ScanEvent
<1>. QED
  BY <1>3, <1>4, QuietHandler

\* The admin deletes an event; time passes.
LEMMA EventKeeps ==
    ASSUME Sizes, Consistent, NEW e \in Events,
           FallDue(e) \/ CooldownElapses(e) \/ DeleteEvent(e)
    PROVE  Consistent'
<1>1. CASE FallDue(e) \/ CooldownElapses(e)
  <2>1. UNCHANGED <<campaign, queue, request, worker, handled, launches, stranded>>
    BY <1>1 DEF FallDue, CooldownElapses, history
  <2>2. Rows' /\ Desk'
    BY <2>1 DEF Consistent, Typed, Rows, Desk
  <2>. QED
    BY <2>1, <2>2, DeskStep
<1>2. CASE DeleteEvent(e)
  <2>. DEFINE x(c) == IF campaign[c].event = e THEN [campaign[c] EXCEPT !.event = NoEvent]
                      ELSE campaign[c]
              y(r) == IF request[r].pc = "event" /\ request[r].event = e THEN NoRequest
                      ELSE request[r]
  <2>1. /\ campaign' = [c \in Campaigns |-> x(c)] /\ request' = [r \in Requests |-> y(r)]
        /\ UNCHANGED <<queue, worker, handled, launches, stranded>>
    BY <1>2 DEF DeleteEvent, history
  <2>2. ASSUME NEW c \in Campaigns PROVE x(c) \in Row /\ x(c).status = campaign[c].status
    <3>1. campaign[c] \in Row
      BY RowOf DEF Consistent, Typed
    <3>. QED
      BY <3>1 DEF Row
  <2>3. ASSUME NEW r \in Requests
        PROVE  y(r) \in Handler /\ (y(r) = request[r] \/ (request[r].pc = "event" /\ y(r).pc = "idle"))
    <3>1. request[r] \in Handler
      BY RequestOf DEF Consistent, Typed
    <3>. QED
      BY <3>1, IdleHandler
  <2>. HIDE DEF x, y
  <2>4. Rows' /\ Desk'
    BY <2>1, <2>2, <2>3 DEF Consistent, Typed, Rows, Desk
  <2>. QED
    BY <2>1, <2>2, <2>3, <2>4, DeskStep
<1>. QED
  BY <1>1, <1>2

\* A launch is counted when the campaign is queued, before its job is.
LEMMA LaunchStep ==
    ASSUME Sizes, Consistent, Rows', NEW r \in Requests, NEW c \in Campaigns,
           NEW x \in Handler, request' = [request EXCEPT ![r] = x],
           request[r].pc # "enqueue", x.pc = "enqueue", x.campaign = c,
           launches' = [launches EXCEPT ![c] = launches[c] + 1],
           campaign'[c].status = "queued",
           \A d \in Campaigns : d # c => campaign'[d].status = campaign[d].status,
           UNCHANGED <<queue, worker, handled, stranded>>
    PROVE  Consistent'
<1>1. Desk' /\ request'[r] = x /\ \A q \in Requests : q # r => request'[q] = request[q]
  BY HandlerChanged DEF Consistent, Typed
<1>2. Typed' /\ Counters'
  BY <1>1 DEF Consistent, Typed, JobRows, Counters
<1>3. Fresh'
  BY DEF Consistent, Fresh, Typed, Counters
<1>4. \A d, u : Holding(d, u)' = Holding(d, u)
  BY DEF Holding
<1>5. \A d \in Campaigns : d # c => Asking(d)' = Asking(d)
  BY <1>1 DEF Asking
<1>6. Asking(c)' = Asking(c) \cup {r} /\ r \notin Asking(c)
  BY <1>1 DEF Asking
<1>7. Cardinality(Asking(c)') = Cardinality(Asking(c)) + 1
  BY <1>6, Counts, FS_AddElement
<1>8. ASSUME NEW d \in Campaigns, NEW u \in Users
      PROVE  handled'[d][u] + queue'[d] + Cardinality(Asking(d)') + Cardinality(Holding(d, u)')
                 <= launches'[d]
  <2>1. d # c => launches'[d] = launches[d]
    BY DEF Consistent, Typed, Counters
  <2>2. CASE d # c
    BY <1>2, <1>4, <1>5, <2>1, <2>2, BudgetKept DEF Consistent
  <2>3. CASE d = c
    <3>1. /\ handled[c][u] \in Nat /\ queue[c] \in Nat /\ launches[c] \in Nat
          /\ Cardinality(Asking(c)) \in Nat /\ Cardinality(Holding(c, u)) \in Nat
          /\ launches'[c] = launches[c] + 1
      BY Counts DEF Consistent, Typed, Counters
    <3>2. handled[c][u] + queue[c] + Cardinality(Asking(c)) + Cardinality(Holding(c, u))
              <= launches[c]
      BY DEF Consistent, Budget
    <3>3. Holding(c, u)' = Holding(c, u) /\ handled' = handled /\ queue' = queue
      BY <1>4
    <3>. QED
      BY <1>7, <2>3, <3>1, <3>2, <3>3
  <2>. QED
    BY <2>2, <2>3
<1>9. NotForgotten'
  <2>1. \A d \in Campaigns : d # c /\ Busy(d) => Busy(d)'
    BY <1>1 DEF Busy
  <2>2. Busy(c)'
    BY <1>1 DEF Busy
  <2>. QED
    BY <2>1, <2>2 DEF Consistent, NotForgotten
<1>. QED
  BY <1>2, <1>3, <1>8, <1>9 DEF Consistent, Budget

\* A campaign is queued; its job comes later.
LEMMA QueueKeeps ==
    ASSUME Sizes, Consistent, NEW r \in Requests, QueueCampaign(r)
    PROVE  Consistent'
<1>. DEFINE c == request[r].campaign
            x == [request[r] EXCEPT !.pc = "enqueue"]
            y == [campaign[c] EXCEPT !.status = "queued"]
<1>1. request[r] \in Handler /\ request[r].pc = "queue" /\ c \in Campaigns
  BY RequestOf DEF Consistent, Typed, Desk, QueueCampaign
<1>2. campaign[c] \in Row
  BY <1>1, RowOf DEF Consistent, Typed
<1>3. /\ x \in Handler /\ x.pc = "enqueue" /\ x.campaign = c
      /\ y \in Row /\ y.status = "queued"
  BY <1>1, <1>2 DEF Handler, Row, Statuses
<1>4. /\ request' = [request EXCEPT ![r] = x] /\ campaign' = [campaign EXCEPT ![c] = y]
      /\ launches' = [launches EXCEPT ![c] = launches[c] + 1]
      /\ UNCHANGED <<queue, worker, handled, stranded>>
  BY DEF QueueCampaign, history
<1>5. Rows' /\ campaign'[c] = y /\ \A d \in Campaigns : d # c => campaign'[d] = campaign[d]
  BY <1>1, <1>3, <1>4, RowChanged DEF Consistent, Typed
<1>. HIDE DEF c, x, y
<1>. QED
  BY <1>1, <1>3, <1>4, <1>5, LaunchStep

\* A new campaign has not been launched.
LEMMA NewIsFresh ==
    ASSUME Consistent, NEW c \in Campaigns, New(c)
    PROVE  launches[c] = 0
BY DEF Consistent, Fresh, New

\* A campaign is created and queued at once.
LEMMA LaunchKeeps ==
    ASSUME Sizes, Consistent, NEW r \in Requests, NEW c \in Campaigns,
           LaunchCampaign(r, c, Segment)
    PROVE  Consistent'
<1>. DEFINE x == [NoRequest EXCEPT !.pc = "enqueue", !.campaign = c]
            y == [campaign[c] EXCEPT !.status = "queued", !.targets = Segment,
                                     !.total = Cardinality(Segment)]
<1>1. Cardinality(Segment) \in Nat /\ Segment \subseteq Users
  BY Audience DEF Sizes
<1>2. campaign[c] \in Row
  BY RowOf DEF Consistent, Typed
<1>3. /\ x \in Handler /\ x.pc = "enqueue" /\ x.campaign = c
      /\ y \in Row /\ y.status = "queued"
  BY <1>1, <1>2 DEF NoRequest, Handler, Row, Statuses
<1>4. launches[c] + 1 = 1
  BY NewIsFresh DEF LaunchCampaign
<1>5. /\ request' = [request EXCEPT ![r] = x] /\ campaign' = [campaign EXCEPT ![c] = y]
      /\ launches' = [launches EXCEPT ![c] = launches[c] + 1] /\ request[r].pc = "idle"
      /\ UNCHANGED <<queue, worker, handled, stranded>>
  BY <1>4 DEF LaunchCampaign, history
<1>6. Rows' /\ campaign'[c] = y /\ \A d \in Campaigns : d # c => campaign'[d] = campaign[d]
  BY <1>3, <1>5, RowChanged DEF Consistent, Typed
<1>. HIDE DEF x, y
<1>. QED
  BY <1>3, <1>5, <1>6, LaunchStep

\* An event becomes a queued campaign.
LEMMA CreateEventKeeps ==
    ASSUME Sizes, Consistent, NEW r \in Requests, NEW c \in Campaigns,
           CreateEventCampaign(r, c)
    PROVE  Consistent'
<1>. DEFINE e == request[r].event
            T == request[r].targets
            x == [NoRequest EXCEPT !.pc = "enqueue", !.campaign = c]
            y == [Blank EXCEPT !.status = "queued", !.event = e, !.targets = T,
                               !.total = Cardinality(T)]
<1>1. request[r] \in Handler /\ request[r].pc = "create"
  BY RequestOf DEF Consistent, Typed, CreateEventCampaign
<1>2. e \in Events \cup {NoEvent} /\ T \subseteq Users
  BY <1>1 DEF Handler
<1>3. Cardinality(T) \in Nat
  BY <1>2, Audience
<1>4. /\ x \in Handler /\ x.pc = "enqueue" /\ x.campaign = c
      /\ y \in Row /\ y.status = "queued"
  BY <1>2, <1>3 DEF NoRequest, Handler, Blank, Row, Statuses
<1>5. launches[c] + 1 = 1
  BY NewIsFresh DEF CreateEventCampaign
<1>6. /\ request' = [request EXCEPT ![r] = x] /\ campaign' = [campaign EXCEPT ![c] = y]
      /\ launches' = [launches EXCEPT ![c] = launches[c] + 1]
      /\ UNCHANGED <<queue, worker, handled, stranded>>
  BY <1>5 DEF CreateEventCampaign, history
<1>7. Rows' /\ campaign'[c] = y /\ \A d \in Campaigns : d # c => campaign'[d] = campaign[d]
  BY <1>4, <1>6, RowChanged DEF Consistent, Typed
<1>. HIDE DEF x, y
<1>. QED
  BY <1>1, <1>4, <1>6, <1>7, LaunchStep

\* A job is put into the queue by a handler that is done with it, or gets lost.
LEMMA EnqueueKeeps ==
    ASSUME Sizes, Consistent, NEW r \in Requests, Enqueue(r)
    PROVE  Consistent'
<1>0. request[r].pc = "enqueue" /\ request[r].campaign \in Campaigns
  BY DEF Consistent, Typed, Desk, Enqueue
<1>. PICK c \in Campaigns : c = request[r].campaign
  BY <1>0
<1>1. request[r].pc = "enqueue" /\ request[r].campaign = c
  BY <1>0
<1>2. /\ request' = [request EXCEPT ![r] = NoRequest]
      /\ UNCHANGED <<campaign, worker, handled, launches>>
      /\ \/ queue' = [queue EXCEPT ![c] = queue[c] + 1] /\ stranded' = stranded
         \/ queue' = queue /\ stranded' = stranded \cup {c}
  BY <1>1 DEF Enqueue, history
<1>3. /\ Desk' /\ request'[r] = NoRequest
      /\ \A q \in Requests : q # r => request'[q] = request[q]
  BY <1>2, IdleHandler, HandlerChanged DEF Consistent, Typed
<1>4. Typed' /\ Counters'
  <2>1. queue \in [Campaigns -> Nat]
    BY DEF Consistent, Typed, Counters
  <2>2. queue' \in [Campaigns -> Nat]
    BY <1>2, <2>1
  <2>3. Rows' /\ JobRows' /\ Counters'
    BY <1>2, <2>2 DEF Consistent, Typed, Rows, JobRows, Counters
  <2>. QED
    BY <1>3, <2>3 DEF Typed
<1>5. Fresh'
  BY <1>2 DEF Consistent, Fresh
<1>6. \A d, u : Holding(d, u)' = Holding(d, u)
  BY <1>2 DEF Holding
<1>7. \A d \in Campaigns : d # c => Asking(d)' = Asking(d)
  BY <1>3, IdleHandler DEF Asking
<1>8. Asking(c)' = Asking(c) \ {r} /\ r \in Asking(c)
  BY <1>1, <1>3, IdleHandler DEF Asking
<1>9. Cardinality(Asking(c)') = Cardinality(Asking(c)) - 1
  BY <1>8, Counts, FS_RemoveElement
<1>10. ASSUME NEW d \in Campaigns, NEW u \in Users
       PROVE  handled'[d][u] + queue'[d] + Cardinality(Asking(d)')
                  + Cardinality(Holding(d, u)') <= launches'[d]
  <2>1. CASE d # c
    <3>1. queue'[d] = queue[d]
      BY <1>2, <2>1 DEF Consistent, Typed, Counters
    <3>. QED
      BY <1>2, <1>4, <1>6, <1>7, <2>1, <3>1, BudgetKept DEF Consistent
  <2>2. CASE d = c
    <3>1. /\ handled[c][u] \in Nat /\ queue[c] \in Nat /\ launches[c] \in Nat
          /\ Cardinality(Asking(c)) \in Nat /\ Cardinality(Holding(c, u)) \in Nat
      BY <1>1, Counts DEF Consistent, Typed, Counters
    <3>2. handled[c][u] + queue[c] + Cardinality(Asking(c)) + Cardinality(Holding(c, u))
              <= launches[c]
      BY <1>1 DEF Consistent, Budget
    <3>3. queue'[c] = queue[c] + 1 \/ queue'[c] = queue[c]
      BY <1>1, <1>2 DEF Consistent, Typed, Counters
    <3>4. Holding(c, u)' = Holding(c, u) /\ handled' = handled /\ launches' = launches
      BY <1>2, <1>6
    <3>. QED
      BY <1>9, <2>2, <3>1, <3>2, <3>3, <3>4
  <2>. QED
    BY <2>1, <2>2
<1>11. NotForgotten'
  <2>1. \A d \in Campaigns : d # c /\ Busy(d) => Busy(d)'
    BY <1>2, <1>3 DEF Busy, Consistent, Typed, Counters
  <2>2. Busy(c)' \/ c \in stranded'
    <3>1. queue'[c] > 0 \/ c \in stranded'
      BY <1>1, <1>2 DEF Consistent, Typed, Counters
    <3>. QED
      BY <3>1 DEF Busy
  <2>3. campaign' = campaign /\ stranded \subseteq stranded'
    BY <1>2
  <2>. QED
    BY <2>1, <2>2, <2>3 DEF Consistent, NotForgotten
<1>. QED
  BY <1>4, <1>5, <1>10, <1>11 DEF Consistent, Budget

-----------------------------------------------------------------------------
(* The job *)

\* A job has a campaign unless it is idle.
LEMMA JobOf ==
    ASSUME JobRows, NEW w \in Workers
    PROVE  /\ worker[w] \in Job
           /\ worker[w].pc # "idle" => worker[w].campaign \in Campaigns
           /\ worker[w].pc = "idle" => worker[w].campaign \notin Campaigns
BY DEF JobRows, Fit

\* A job leaves the queue; it works on the campaign if that is still meant to run.
LEMMA StartKeeps ==
    ASSUME Sizes, Consistent, NEW w \in Workers, NEW c \in Campaigns, StartJob(w, c)
    PROVE  Consistent'
<1>1. /\ worker[w].pc = "idle" /\ queue[c] > 0
      /\ queue' = [queue EXCEPT ![c] = queue[c] - 1]
      /\ UNCHANGED <<campaign, request, handled, launches, stranded>>
  BY DEF StartJob, history
<1>2. /\ queue \in [Campaigns -> Nat] /\ launches \in [Campaigns -> Nat]
      /\ handled \in [Campaigns -> [Users -> Nat]]
  BY DEF Consistent, Typed, Counters
<1>3. /\ queue' \in [Campaigns -> Nat] /\ queue'[c] = queue[c] - 1
      /\ \A d \in Campaigns : d # c => queue'[d] = queue[d]
  BY <1>1, <1>2
<1>4. worker[w].campaign \notin Campaigns /\ worker \in [Workers -> Job]
  BY <1>1, JobOf DEF Consistent, Typed, JobRows
<1>5. /\ \A v \in Workers : v # w => worker'[v] = worker[v]
      /\ worker' \in [Workers -> Job] /\ Fit(worker'[w])
      /\ \/ worker'[w].campaign = c
         \/ worker' = worker /\ campaign[c].status \notin {"queued", "running"}
  <2>1. CASE campaign[c].status \in {"queued", "running"}
    <3>1. PICK T : /\ T \in IF campaign[c].targets # {} THEN {campaign[c].targets}
                                                      ELSE {Segment, {}}
                   /\ worker' = [worker EXCEPT ![w] =
                        [NoJob EXCEPT !.pc = "mark", !.campaign = c, !.todo = T,
                                      !.seen = campaign[c].status]]
      BY <2>1 DEF StartJob
    <3>. DEFINE x == [NoJob EXCEPT !.pc = "mark", !.campaign = c, !.todo = T,
                                   !.seen = campaign[c].status]
    <3>2. campaign[c] \in Row
      BY RowOf DEF Consistent, Typed
    <3>3. T \subseteq Users /\ campaign[c].status \in Statuses
      BY <3>1, <3>2 DEF Row, Sizes
    <3>4. x \in Job /\ x.pc = "mark" /\ x.campaign = c
      BY <3>3 DEF NoJob, Job
    <3>5. worker' = [worker EXCEPT ![w] = x]
      BY <3>1
    <3>. HIDE DEF x
    <3>. QED
      BY <1>4, <3>4, <3>5 DEF Fit
  <2>2. CASE campaign[c].status \notin {"queued", "running"}
    <3>1. worker' = worker
      BY <2>2 DEF StartJob
    <3>. QED
      BY <1>4, <2>2, <3>1 DEF Consistent, Typed, JobRows
  <2>. QED
    BY <2>1, <2>2
<1>6. Typed' /\ Counters'
  <2>1. Rows' /\ Desk' /\ Counters'
    BY <1>1, <1>2, <1>3 DEF Consistent, Typed, Rows, Desk, Counters
  <2>2. JobRows'
    BY <1>5 DEF Consistent, Typed, JobRows
  <2>. QED
    BY <2>1, <2>2 DEF Typed
<1>7. Fresh'
  BY <1>1 DEF Consistent, Fresh
<1>8. \A d : Asking(d)' = Asking(d)
  BY <1>1 DEF Asking
<1>9. \A d \in Campaigns, u \in Users : d # c => Holding(d, u)' = Holding(d, u)
  BY <1>4, <1>5 DEF Holding
<1>10. \A u \in Users : Holding(c, u)' \subseteq Holding(c, u) \cup {w}
  BY <1>5 DEF Holding
<1>11. ASSUME NEW d \in Campaigns, NEW u \in Users
       PROVE  handled'[d][u] + queue'[d] + Cardinality(Asking(d)')
                  + Cardinality(Holding(d, u)') <= launches'[d]
  <2>1. CASE d # c
    BY <1>1, <1>3, <1>6, <1>8, <1>9, <2>1, BudgetKept DEF Consistent
  <2>2. CASE d = c
    <3>1. /\ handled[c][u] \in Nat /\ queue[c] \in Nat /\ launches[c] \in Nat
          /\ Cardinality(Asking(c)) \in Nat /\ Cardinality(Holding(c, u)) \in Nat
          /\ Cardinality(Holding(c, u)') \in Nat
      BY <1>2, Counts, CountsNext
    <3>2. handled[c][u] + queue[c] + Cardinality(Asking(c)) + Cardinality(Holding(c, u))
              <= launches[c]
      BY DEF Consistent, Budget
    <3>3. Cardinality(Holding(c, u)') <= Cardinality(Holding(c, u)) + 1
      <4>1. /\ IsFiniteSet(Holding(c, u) \cup {w})
            /\ Cardinality(Holding(c, u) \cup {w}) <= Cardinality(Holding(c, u)) + 1
        <5>1. IsFiniteSet(Holding(c, u))
          BY Counts
        <5>2. /\ IsFiniteSet(Holding(c, u) \cup {w})
              /\ \/ Cardinality(Holding(c, u) \cup {w}) = Cardinality(Holding(c, u))
                 \/ Cardinality(Holding(c, u) \cup {w}) = Cardinality(Holding(c, u)) + 1
          BY <5>1, FS_AddElement
        <5>. QED
          BY <3>1, <5>2
      <4>2. Cardinality(Holding(c, u)') <= Cardinality(Holding(c, u) \cup {w})
        BY <1>10, <4>1, FS_Subset
      <4>3. Cardinality(Holding(c, u) \cup {w}) \in Nat
        BY <4>1, FS_CardinalityType
      <4>. QED
        BY <3>1, <4>1, <4>2, <4>3
    <3>4. Asking(c)' = Asking(c) /\ handled' = handled /\ launches' = launches
      BY <1>1, <1>8
    <3>. QED
      BY <1>1, <1>3, <2>2, <3>1, <3>2, <3>3, <3>4
  <2>. QED
    BY <2>1, <2>2
<1>12. NotForgotten'
  <2>1. \A d \in Campaigns : d # c /\ Busy(d) => Busy(d)'
    BY <1>1, <1>3, <1>4, <1>5 DEF Busy
  <2>2. campaign[c].status \in {"queued", "running"} => Busy(c)'
    BY <1>5 DEF Busy
  <2>. QED
    BY <1>1, <2>1, <2>2 DEF Consistent, NotForgotten
<1>. QED
  BY <1>6, <1>7, <1>11, <1>12 DEF Consistent, Budget

\* The recipients are known, or there are none and the campaign has failed.
LEMMA MarkKeeps ==
    ASSUME Sizes, Consistent, NEW w \in Workers, MarkRunning(w)
    PROVE  Consistent'
<1>1. worker[w] \in Job /\ worker[w].pc = "mark" /\ worker[w].campaign \in Campaigns
  BY JobOf DEF Consistent, Typed, MarkRunning
<1>. PICK c \in Campaigns : c = worker[w].campaign
  BY <1>1
<1>2. campaign[c] \in Row /\ UNCHANGED <<queue, request, handled, launches, stranded>>
  BY RowOf DEF Consistent, Typed, MarkRunning, history
<1>3. CASE worker[w].todo # {}
  <2>. DEFINE x == [worker[w] EXCEPT !.pc = "next", !.event = campaign[c].event]
              y == [campaign[c] EXCEPT
                      !.status = IF worker[w].seen = "running" THEN @ ELSE "running",
                      !.total = Cardinality(worker[w].todo)]
  <2>1. /\ worker' = [worker EXCEPT ![w] = x]
        /\ campaign' = [campaign EXCEPT ![c] = y]
    BY ZenonT(30), <1>3 DEF MarkRunning
  <2>2. worker[w].todo \in SUBSET Users
    BY <1>1 DEF Job
  <2>3. Cardinality(worker[w].todo) \in Nat
    BY <2>2, Audience
  <2>4. /\ x \in Job /\ x.pc = "next" /\ x.campaign = worker[w].campaign
        /\ x.todo = worker[w].todo
    BY <1>1, <1>2 DEF Job, Row
  <2>5. y \in Row /\ (y.status = campaign[c].status \/ y.status = "running")
    BY <1>2, <2>3 DEF Row, Statuses
  <2>. HIDE DEF x, y
  <2>6. Rows' /\ campaign'[c] = y /\ \A d \in Campaigns : d # c => campaign'[d] = campaign[d]
    BY <2>1, <2>5, RowChanged DEF Consistent, Typed
  <2>. QED
    BY <1>1, <1>2, <2>1, <2>4, <2>5, <2>6, JobGoesOn
<1>4. CASE worker[w].todo = {}
  <2>. DEFINE y == [campaign[c] EXCEPT !.status = "failed"]
  <2>1. /\ worker' = [worker EXCEPT ![w] = NoJob]
        /\ campaign' = [campaign EXCEPT ![c] = y]
    BY <1>4 DEF MarkRunning
  <2>2. y \in Row /\ y.status = "failed"
    BY <1>2 DEF Row, Statuses
  <2>. HIDE DEF y
  <2>3. Rows' /\ campaign'[c] = y /\ \A d \in Campaigns : d # c => campaign'[d] = campaign[d]
    BY <2>1, <2>2, RowChanged DEF Consistent, Typed
  <2>. QED
    BY <1>1, <1>2, <2>1, <2>2, <2>3, JobOver
<1>. QED
  BY <1>3, <1>4

\* A user on the list goes through the actions, and is off the list.
LEMMA NextKeeps ==
    ASSUME Sizes, Consistent, NEW w \in Workers, NEW u \in Users, NextUser(w, u)
    PROVE  Consistent'
<1>1. /\ worker[w] \in Job /\ worker[w].pc = "next" /\ u \in worker[w].todo
      /\ worker[w].campaign \in Campaigns
  BY JobOf DEF Consistent, Typed, NextUser
<1>. PICK c \in Campaigns : c = worker[w].campaign
  BY <1>1
<1>2. /\ UNCHANGED <<campaign, queue, request, launches, stranded>>
      /\ worker \in [Workers -> Job]
  BY DEF NextUser, Consistent, Typed, JobRows
<1>3. Rows'
  BY <1>2 DEF Consistent, Typed, Rows
<1>4. CASE u \notin Known
  <2>. DEFINE x == [worker[w] EXCEPT !.todo = @ \ {u}, !.failed = @ + 1]
  <2>1. worker' = [worker EXCEPT ![w] = x] /\ handled' = handled
    BY <1>4 DEF NextUser
  <2>2. x \in Job /\ x.pc = "next" /\ x.campaign = c /\ x.todo \subseteq worker[w].todo
    <3>1. worker[w].failed + 1 \in Nat /\ worker[w].todo \ {u} \in SUBSET Users
      BY <1>1 DEF Job
    <3>. QED
      BY <1>1, <3>1 DEF Job
  <2>. HIDE DEF x
  <2>. QED
    BY <1>1, <1>2, <1>3, <2>1, <2>2, JobGoesOn
<1>5. CASE u \in Known
  <2>. DEFINE x == [worker[w] EXCEPT !.pc = "send", !.user = u, !.todo = @ \ {u}]
  <2>1. /\ worker' = [worker EXCEPT ![w] = x]
        /\ handled' = [handled EXCEPT ![c][u] = handled[c][u] + 1]
    BY <1>5 DEF NextUser
  <2>2. x \in Job /\ x.pc = "send" /\ x.campaign = c /\ x.todo = worker[w].todo \ {u}
    BY <1>1 DEF Job
  <2>. HIDE DEF x
  <2>3. /\ queue \in [Campaigns -> Nat] /\ launches \in [Campaigns -> Nat]
        /\ handled \in [Campaigns -> [Users -> Nat]]
    BY DEF Consistent, Typed, Counters
  <2>4. /\ handled' \in [Campaigns -> [Users -> Nat]]
        /\ handled'[c][u] = handled[c][u] + 1
        /\ \A d \in Campaigns, v \in Users :
              d # c \/ v # u => handled'[d][v] = handled[d][v]
    <3>1. handled[c] \in [Users -> Nat] /\ handled[c][u] \in Nat
      BY <2>3
    <3>. PICK g : g = [handled[c] EXCEPT ![u] = handled[c][u] + 1]
      OBVIOUS
    <3>2. g \in [Users -> Nat] /\ g[u] = handled[c][u] + 1 /\ \A v \in Users : v # u => g[v] = handled[c][v]
      BY <3>1
    <3>3. handled' = [handled EXCEPT ![c] = g]
      BY <2>1
    <3>. QED
      BY <2>3, <3>2, <3>3
  <2>5. /\ worker' \in [Workers -> Job] /\ worker'[w] = x
        /\ \A v \in Workers : v # w => worker'[v] = worker[v]
    BY <1>2, <2>1, <2>2
  <2>6. Typed' /\ Counters'
    <3>1. Desk' /\ Counters'
      BY <1>2, <2>3, <2>4 DEF Consistent, Typed, Desk, Counters
    <3>2. JobRows'
      BY <2>2, <2>5 DEF Consistent, Typed, JobRows, Fit
    <3>. QED
      BY <1>3, <3>1, <3>2 DEF Typed
  <2>7. Fresh'
    BY <1>2 DEF Consistent, Fresh
  <2>8. \A d : Asking(d)' = Asking(d) /\ \A v : Holding(d, v)' \subseteq Holding(d, v)
    BY <1>2, <2>2, <2>5, <1>1 DEF Asking, Holding
  <2>9. Holding(c, u)' = Holding(c, u) \ {w} /\ w \in Holding(c, u)
    BY <1>1, <2>2, <2>5 DEF Holding
  <2>10. Cardinality(Holding(c, u)') = Cardinality(Holding(c, u)) - 1
    BY ZenonT(30), <2>9, Counts, FS_RemoveElement
  <2>11. ASSUME NEW d \in Campaigns, NEW v \in Users
         PROVE  handled'[d][v] + queue'[d] + Cardinality(Asking(d)')
                    + Cardinality(Holding(d, v)') <= launches'[d]
    <3>1. CASE d # c \/ v # u
      BY <1>2, <2>4, <2>6, <2>8, <3>1, BudgetKept DEF Consistent
    <3>2. CASE d = c /\ v = u
      <4>1. /\ handled[c][u] \in Nat /\ queue[c] \in Nat /\ launches[c] \in Nat
            /\ Cardinality(Asking(c)) \in Nat /\ Cardinality(Holding(c, u)) \in Nat
        BY <2>3, Counts
      <4>2. handled[c][u] + queue[c] + Cardinality(Asking(c)) + Cardinality(Holding(c, u))
                <= launches[c]
        BY DEF Consistent, Budget
      <4>3. Asking(c)' = Asking(c) /\ queue' = queue /\ launches' = launches
        BY <1>2, <2>8
      <4>. QED
        BY <2>4, <2>10, <3>2, <4>1, <4>2, <4>3
    <3>. QED
      BY <3>1, <3>2
  <2>12. NotForgotten'
    <3>1. \A d \in Campaigns : Busy(d) => Busy(d)'
      BY <1>2, <2>2, <2>5 DEF Busy
    <3>. QED
      BY <1>2, <3>1 DEF Consistent, NotForgotten
  <2>. QED
    BY <2>6, <2>7, <2>11, <2>12 DEF Consistent, Budget
<1>. QED
  BY <1>4, <1>5

\* The message is sent and logged.
LEMMA MessageKeeps ==
    ASSUME Sizes, Consistent, NEW w \in Workers, Send(w) \/ LogEvent(w)
    PROVE  Consistent'
<1>1. /\ worker[w] \in Job /\ worker[w].pc \in {"send", "log"}
      /\ worker[w].campaign \in Campaigns
      /\ UNCHANGED <<campaign, queue, request, handled, launches, stranded>>
  BY JobOf DEF Consistent, Typed, Send, LogEvent, history
<1>2. Rows'
  BY <1>1 DEF Consistent, Typed, Rows
<1>3. \E x \in Job :
         /\ worker' = [worker EXCEPT ![w] = x] /\ x.pc # "idle"
         /\ x.campaign = worker[w].campaign /\ x.todo = worker[w].todo
  <2>. DEFINE told == [worker[w] EXCEPT !.pc = IF worker[w].event = NoEvent THEN "row" ELSE "log",
                                        !.outcome = "sent"]
              refused == [worker[w] EXCEPT !.pc = "row", !.outcome = "failed"]
              written == [worker[w] EXCEPT !.pc = "row"]
  <2>1. \/ worker' = [worker EXCEPT ![w] = told]
        \/ worker' = [worker EXCEPT ![w] = refused]
        \/ worker' = [worker EXCEPT ![w] = written]
    BY DEF Send, LogEvent
  <2>2. \A x \in {told, refused, written} :
          x \in Job /\ x.pc # "idle" /\ x.campaign = worker[w].campaign /\ x.todo = worker[w].todo
    BY ZenonT(30), <1>1 DEF Job
  <2>. HIDE DEF told, refused, written
  <2>. QED
    BY <2>1, <2>2
<1>. QED
  BY <1>1, <1>2, <1>3, JobGoesOn

\* The totals of a job are numbers, and so are those it saves.
LEMMA SavedRow ==
    ASSUME NEW job \in Job, NEW row \in Row
    PROVE  Saved(row, job) \in Row /\ Saved(row, job).status = row.status
BY DEF Saved, Job, Row

\* The delivery row is written.
LEMMA AddKeeps ==
    ASSUME Sizes, Consistent, NEW w \in Workers, AddDelivery(w)
    PROVE  Consistent'
<1>1. worker[w] \in Job /\ worker[w].pc = "row" /\ worker[w].campaign \in Campaigns
  BY JobOf DEF Consistent, Typed, AddDelivery
<1>. PICK c \in Campaigns : c = worker[w].campaign
  BY <1>1
<1>. PICK x : x = Counted(worker[w])
  OBVIOUS
<1>2. x \in Job /\ x.pc = "next" /\ x.campaign = c /\ x.todo = worker[w].todo
  <2>. DEFINE one(outcome) == IF worker[w].outcome = outcome THEN 1 ELSE 0
  <2>1. worker[w].sent + one("sent") \in Nat /\ worker[w].failed + one("failed") \in Nat
    BY <1>1 DEF Job
  <2>2. x = [worker[w] EXCEPT !.pc = "next", !.user = NoUser, !.outcome = "none",
                              !.sent = worker[w].sent + one("sent"),
                              !.failed = worker[w].failed + one("failed")]
    BY DEF Counted
  <2>. HIDE DEF one
  <2>. QED
    BY <1>1, <2>1, <2>2 DEF Job
<1>3. /\ worker' = [worker EXCEPT ![w] = x]
      /\ UNCHANGED <<queue, request, handled, launches, stranded>>
      /\ \/ campaign' = campaign
         \/ campaign' = [campaign EXCEPT ![c] = Saved(campaign[c], x)]
  BY DEF AddDelivery, history
<1>4. Saved(campaign[c], x) \in Row /\ Saved(campaign[c], x).status = campaign[c].status
  BY <1>2, RowOf, SavedRow DEF Consistent, Typed
<1>5. Rows' /\ \A d \in Campaigns : campaign'[d].status = campaign[d].status
  BY <1>3, <1>4, RowChanged DEF Consistent, Typed, Rows
<1>. QED
  BY <1>1, <1>2, <1>3, <1>5, JobGoesOn

\* The job is over, with the last user or by an exception or a stop.
LEMMA EndKeeps ==
    ASSUME Sizes, Consistent, NEW w \in Workers, FinishJob(w) \/ JobRaises(w) \/ JobStops(w)
    PROVE  Consistent'
<1>1. worker[w] \in Job /\ worker[w].pc # "idle" /\ worker[w].campaign \in Campaigns
  BY JobOf DEF Consistent, Typed, FinishJob, JobRaises, JobStops
<1>. PICK c \in Campaigns : c = worker[w].campaign
  BY <1>1
<1>2. /\ worker' = [worker EXCEPT ![w] = NoJob] /\ campaign[c] \in Row
      /\ UNCHANGED <<queue, request, handled, launches>>
  BY RowOf DEF Consistent, Typed, FinishJob, JobRaises, JobStops, Requeued, history
<1>3. CASE FinishJob(w)
  <2>. PICK y : y = [Saved(campaign[c], worker[w]) EXCEPT !.status = "completed"]
    OBVIOUS
  <2>1. y \in Row /\ y.status = "completed"
    <3>1. Saved(campaign[c], worker[w]) \in Row
      BY <1>1, <1>2, SavedRow
    <3>. QED
      BY <3>1 DEF Row, Statuses
  <2>2. campaign' = [campaign EXCEPT ![c] = y] /\ stranded' = stranded
    BY <1>3 DEF FinishJob
  <2>3. Rows' /\ campaign'[c] = y /\ \A d \in Campaigns : d # c => campaign'[d] = campaign[d]
    BY <2>1, <2>2, RowChanged DEF Consistent, Typed
  <2>. QED
    BY ZenonT(30), <1>1, <1>2, <2>1, <2>2, <2>3, JobOver
<1>4. CASE JobRaises(w)
  <2>. PICK y : y = [campaign[c] EXCEPT !.status = AfterException(campaign[c].status)]
    OBVIOUS
  <2>1. y \in Row /\ y.status = AfterException(campaign[c].status)
    BY <1>2 DEF Row, Statuses, AfterException
  <2>2. /\ campaign' = [campaign EXCEPT ![c] = y]
        /\ stranded' = IF campaign[c].status = "queued" THEN stranded \cup {c} ELSE stranded
    BY <1>4 DEF JobRaises
  <2>3. Rows' /\ campaign'[c] = y /\ \A d \in Campaigns : d # c => campaign'[d] = campaign[d]
    BY <2>1, <2>2, RowChanged DEF Consistent, Typed
  <2>4. stranded \subseteq stranded'
    BY <2>2
  <2>5. /\ y.status \in {"queued", "running"} => c \in stranded'
        /\ y.status = "none" => campaign[c].status = "none"
    BY <2>1, <2>2 DEF AfterException
  <2>6. \A d \in Campaigns :
          IF d = worker[w].campaign
          THEN /\ campaign'[d].status \in {"queued", "running"} => d \in stranded'
               /\ campaign'[d].status = "none" => campaign[d].status = "none"
          ELSE campaign'[d].status = campaign[d].status
    BY <2>3, <2>5
  <2>. QED
    BY <1>1, <1>2, <2>3, <2>4, <2>6, JobOver
<1>5. CASE JobStops(w)
  <2>1. campaign' = campaign /\ stranded' = stranded \cup {c}
    BY <1>5 DEF JobStops
  <2>2. Rows'
    BY <2>1 DEF Consistent, Typed, Rows
  <2>. QED
    BY <1>1, <1>2, <2>1, <2>2, JobOver
<1>. QED
  BY <1>3, <1>4, <1>5

-----------------------------------------------------------------------------
(* The theorems *)

\* Nothing has been launched at the start.
LEMMA InitConsistent == ASSUME Sizes, Init PROVE Consistent
<1>1. \A c, u : Asking(c) = {} /\ (c \in Campaigns => Holding(c, u) = {})
  BY DEF Init, Asking, Holding, NoRequest, NoJob, NoCampaign, Campaigns
<1>2. Typed
  <2>1. Blank \in Row
    BY DEF Blank, Row, Statuses
  <2>2. NoRequest \in Handler /\ NoRequest.pc = "idle"
    BY IdleHandler
  <2>3. NoJob \in Job /\ Fit(NoJob)
    BY DEF NoJob, Job, Statuses, Fit, NoCampaign, Campaigns
  <2>. QED
    BY <2>1, <2>2, <2>3 DEF Init, Typed, Rows, Desk, JobRows, Counters, Zero
<1>3. Fresh /\ NotForgotten
  BY DEF Init, Fresh, NotForgotten, Blank
<1>4. Budget
  <2>1. ASSUME NEW c \in Campaigns, NEW u \in Users
        PROVE  /\ handled[c][u] = 0 /\ queue[c] = 0 /\ launches[c] = 0
               /\ Cardinality(Asking(c)) = 0 /\ Cardinality(Holding(c, u)) = 0
    BY <1>1, FS_EmptySet DEF Init, Zero
  <2>. QED
    BY <2>1 DEF Budget
<1>. QED
  BY <1>2, <1>3, <1>4 DEF Consistent

\* No step of anybody breaks the bookkeeping.
LEMMA StepConsistent == ASSUME Sizes, Consistent, [Next]_vars PROVE Consistent'
<1>1. CASE UNCHANGED vars
  BY <1>1 DEF vars, events, history, Consistent, Typed, Rows, Desk, JobRows, Counters, Fresh, Budget,
              NotForgotten, Busy, Asking, Holding
<1>2. ASSUME NEW c \in Campaigns, NEW chosen \in {{}, Known}, CreateCampaign(c, chosen)
      PROVE  Consistent'
  BY <1>2, CreateKeeps
<1>3. ASSUME NEW r \in Requests,
             \/ \E c \in Campaigns : BeginExecute(r, c) \/ LaunchCampaign(r, c, Segment)
             \/ \E e \in Events : TickEvent(r, e) \/ RunEventNow(r, e)
      PROVE  Consistent'
  BY <1>3, BeginKeeps, LaunchKeeps DEF TickEvent, RunEventNow
<1>4. ASSUME NEW r \in Requests, Handle(r)
      PROVE  Consistent'
  BY <1>4, QueueKeeps, GiveUpKeeps, EnqueueKeeps, ScanKeeps, CreateEventKeeps DEF Handle
<1>5. ASSUME NEW e \in Events, FallDue(e) \/ CooldownElapses(e) \/ DeleteEvent(e)
      PROVE  Consistent'
  BY <1>5, EventKeeps
<1>6. ASSUME NEW w \in Workers, Work(w) \/ JobRaises(w) \/ JobStops(w)
      PROVE  Consistent'
  BY <1>6, StartKeeps, MarkKeeps, NextKeeps, MessageKeeps, AddKeeps, EndKeeps DEF Work
<1>. QED
  BY <1>1, <1>2, <1>3, <1>4, <1>5, <1>6 DEF Next

\* The bookkeeping of campaigns is always in order.
THEOREM AlwaysConsistent == ASSUME Sizes PROVE Spec => []Consistent
<1>. QED
  BY InitConsistent, StepConsistent, PTL DEF Spec

\* Nobody goes through the credits and perks of a campaign more often than it was
\* launched (GrantedOncePerLaunch).
THEOREM NeverGrantedTwice == ASSUME Sizes PROVE Spec => []GrantedOncePerLaunch
<1>1. ASSUME Consistent PROVE GrantedOncePerLaunch
  <2>1. ASSUME NEW c \in Campaigns, NEW u \in Users PROVE handled[c][u] <= launches[c]
    <3>1. /\ handled[c][u] \in Nat /\ queue[c] \in Nat /\ launches[c] \in Nat
          /\ Cardinality(Asking(c)) \in Nat /\ Cardinality(Holding(c, u)) \in Nat
      BY <1>1, Counts DEF Consistent, Typed, Counters
    <3>2. handled[c][u] + queue[c] + Cardinality(Asking(c)) + Cardinality(Holding(c, u))
              <= launches[c]
      BY <1>1 DEF Consistent, Budget
    <3>. QED
      BY <3>1, <3>2
  <2>. QED
    BY <2>1 DEF GrantedOncePerLaunch
<1>. QED
  BY <1>1, AlwaysConsistent, PTL

\* A campaign that waits or runs has a job, or is known to have lost it (NotForgotten).
THEOREM NoneForgotten == ASSUME Sizes PROVE Spec => []NotForgotten
<1>1. Consistent => NotForgotten
  BY DEF Consistent
<1>. QED
  BY <1>1, AlwaysConsistent, PTL

-----------------------------------------------------------------------------
(* One launch, one job, one report *)

\* Jobs that work on a campaign.
Runners(c) == {w \in Workers : worker[w].campaign = c}

\* A job of the campaign waits, or is about to.
Waiting(c) == queue[c] > 0 \/ Asking(c) # {}

\* The totals add up and everybody who exists has been through the actions.
Reported(c) ==
    /\ campaign[c].sent + campaign[c].failed = campaign[c].total
    /\ \A u \in Known \cap campaign[c].targets : handled[c][u] = 1

\* There is one handler, one job in the queue or one that runs, and no two of them.
Alone(c) ==
    /\ queue[c] <= 1
    /\ queue[c] = 1 => Asking(c) = {}
    /\ \A q, r \in Asking(c) : q = r
    /\ \A v, w \in Runners(c) : v = w
    /\ Waiting(c) => Runners(c) = {} /\ campaign[c].status = "queued"

\* A job counts what it has done against the total it saved at its start.
OnTrack(task, c) ==
    IF task.pc = "mark"
    THEN /\ campaign[c].status = "queued" /\ task.seen = "queued"
         /\ task.sent = 0 /\ task.failed = 0
         /\ campaign[c].targets # {} => task.todo = campaign[c].targets
    ELSE /\ campaign[c].status = "running"
         /\ campaign[c].total = task.sent + task.failed + Cardinality(task.todo)
                                    + (IF task.pc = "next" THEN 0 ELSE 1)
         /\ \A u \in Known \cap campaign[c].targets : u \in task.todo \/ handled[c][u] = 1

\* What holds of a campaign that was launched once.
Steady(c) ==
    /\ launches[c] = 0 => ~Waiting(c) /\ Runners(c) = {}
    /\ launches[c] = 1 =>
         /\ Alone(c)
         /\ \A w \in Runners(c) : OnTrack(worker[w], c)
         /\ campaign[c].status = "completed" => Reported(c)

\* What a job holds at each of its steps.
Shape(task) ==
    /\ task.pc \in {"send", "log", "row"} => task.user \in Users \ task.todo
    /\ task.pc \in {"log", "row"} => task.outcome \in {"sent", "failed"}
    /\ task.pc = "log" => task.event \in Events

AllSteady == (\A c \in Campaigns : Steady(c)) /\ \A w \in Workers : Shape(worker[w])

\* A campaign that nobody works on stays as it was.
LEMMA Untouched ==
    ASSUME NEW c \in Campaigns, Steady(c),
           queue'[c] = queue[c], launches'[c] = launches[c], handled'[c] = handled[c],
           Asking(c)' = Asking(c), Runners(c)' = Runners(c),
           \A w \in Runners(c) : worker'[w] = worker[w],
           campaign'[c].status = campaign[c].status,
           campaign'[c].targets = campaign[c].targets,
           campaign'[c].total = campaign[c].total,
           campaign'[c].sent = campaign[c].sent, campaign'[c].failed = campaign[c].failed
    PROVE  Steady(c)'
<1>1. Waiting(c)' <=> Waiting(c)
  BY DEF Waiting
<1>2. Reported(c) => Reported(c)'
  BY DEF Reported
<1>3. Alone(c) => Alone(c)'
  BY <1>1 DEF Alone
<1>4. \A w \in Runners(c)' : OnTrack(worker[w], c) => OnTrack(worker[w], c)'
  BY DEF OnTrack
<1>. QED
  BY <1>1, <1>2, <1>3, <1>4 DEF Steady

\* A campaign that is launched again promises nothing.
LEMMA LaunchedAgain ==
    ASSUME NEW c \in Campaigns, launches'[c] \notin {0, 1} PROVE Steady(c)'
BY DEF Steady

\* A handler works on c and on nothing else.
LEMMA DeskSteady ==
    ASSUME Consistent, AllSteady, NEW r \in Requests, NEW x \in Handler,
           request' = [request EXCEPT ![r] = x], NEW c \in Campaigns,
           request[r].pc = "enqueue" => request[r].campaign = c,
           x.pc = "enqueue" => x.campaign = c,
           UNCHANGED <<worker, handled>>,
           \A d \in Campaigns : d # c => /\ queue'[d] = queue[d] /\ launches'[d] = launches[d]
                                         /\ campaign'[d] = campaign[d],
           Steady(c)'
    PROVE  AllSteady'
<1>1. request'[r] = x /\ \A q \in Requests : q # r => request'[q] = request[q]
  BY DEF Consistent, Typed, Desk
<1>2. \A d \in Campaigns : Runners(d)' = Runners(d)
  BY DEF Runners
<1>3. \A d \in Campaigns : d # c => Asking(d)' = Asking(d)
  BY <1>1 DEF Asking
<1>4. \A d \in Campaigns : d # c => Steady(d)'
  BY <1>2, <1>3, Untouched DEF AllSteady
<1>. QED
  BY <1>4 DEF AllSteady

\* A job works on c and on nothing else.
LEMMA JobSteady ==
    ASSUME Consistent, AllSteady, NEW w \in Workers, NEW x \in Job, Shape(x),
           worker' = [worker EXCEPT ![w] = x], NEW c \in Campaigns,
           worker[w].campaign \in {c, NoCampaign}, x.campaign \in {c, NoCampaign},
           UNCHANGED <<request, launches>>,
           \A d \in Campaigns : d # c => /\ queue'[d] = queue[d] /\ handled'[d] = handled[d]
                                         /\ campaign'[d] = campaign[d],
           Steady(c)'
    PROVE  AllSteady'
<1>1. worker'[w] = x /\ \A v \in Workers : v # w => worker'[v] = worker[v]
  BY DEF Consistent, Typed, JobRows
<1>2. \A d \in Campaigns : Asking(d)' = Asking(d)
  BY DEF Asking
<1>3. NoCampaign \notin Campaigns
  BY DEF NoCampaign, Campaigns
<1>4. \A d \in Campaigns : d # c => Runners(d)' = Runners(d) /\ w \notin Runners(d)
  BY <1>1, <1>3 DEF Runners
<1>5. \A d \in Campaigns : \A v \in Runners(d) : v \in Workers
  BY DEF Runners
<1>6. \A d \in Campaigns : d # c => Steady(d)'
  BY <1>1, <1>2, <1>4, <1>5, Untouched DEF AllSteady
<1>7. \A v \in Workers : Shape(worker[v])'
  BY <1>1 DEF AllSteady
<1>. QED
  BY <1>6, <1>7 DEF AllSteady

\* Rows of events, handlers that only read, time.
LEMMA QuietSteady ==
    ASSUME AllSteady, UNCHANGED <<queue, worker, handled, launches>>,
           \A c \in Campaigns :
              /\ Asking(c)' = Asking(c)
              /\ campaign'[c].status = campaign[c].status
              /\ campaign'[c].targets = campaign[c].targets
              /\ campaign'[c].total = campaign[c].total
              /\ campaign'[c].sent = campaign[c].sent
              /\ campaign'[c].failed = campaign[c].failed
    PROVE  AllSteady'
<1>1. \A c \in Campaigns : Runners(c)' = Runners(c)
  BY DEF Runners
<1>2. \A c \in Campaigns : Steady(c)'
  BY <1>1, Untouched DEF AllSteady
<1>. QED
  BY <1>2 DEF AllSteady

\* A campaign that was never launched has no job, and nobody has been through it.
LEMMA NotLaunched ==
    ASSUME Consistent, AllSteady, NEW c \in Campaigns, launches[c] = 0
    PROVE  queue[c] = 0 /\ Asking(c) = {} /\ Runners(c) = {}
BY DEF Consistent, Typed, Counters, AllSteady, Steady, Waiting

\* A draft is created.
LEMMA CreateSteady ==
    ASSUME Consistent, AllSteady, NEW c \in Campaigns, NEW chosen, CreateCampaign(c, chosen)
    PROVE  AllSteady'
<1>1. launches[c] = 0 /\ campaign \in [Campaigns -> Row]
  BY DEF Consistent, Typed, Rows, Fresh, CreateCampaign, New
<1>2. \A d \in Campaigns : d # c => campaign'[d] = campaign[d]
  BY <1>1 DEF CreateCampaign
<1>3. UNCHANGED <<queue, request, worker, handled, launches>>
  BY DEF CreateCampaign, history
<1>4. \A d : Asking(d)' = Asking(d) /\ Runners(d)' = Runners(d)
  BY <1>3 DEF Asking, Runners
<1>5. Steady(c)'
  BY <1>1, <1>3, <1>4 DEF AllSteady, Steady, Waiting
<1>6. \A d \in Campaigns : d # c => Steady(d)'
  BY <1>2, <1>3, <1>4, Untouched DEF AllSteady
<1>. QED
  BY <1>3, <1>5, <1>6 DEF AllSteady

\* Handlers that read or give up are not about to enqueue or to create anything.
LEMMA ReadRequests ==
    ASSUME Consistent,
           \/ \E r \in Requests, c \in Campaigns : BeginExecute(r, c)
           \/ \E r \in Requests, e \in Events : BeginEvent(r, e)
           \/ \E r \in Requests : NoTargets(r) \/ EmptyEvent(r)
           \/ \E e \in Events : FallDue(e) \/ CooldownElapses(e) \/ DeleteEvent(e),
           NEW q \in Requests
    PROVE  \/ request'[q] = request[q]
           \/ request[q].pc # "enqueue" /\ request'[q].pc \notin {"enqueue", "create"}
<1>1. request \in [Requests -> Handler]
  BY DEF Consistent, Typed, Desk
<1>2. CASE \E r \in Requests, c \in Campaigns : BeginExecute(r, c)
  BY ZenonT(30), <1>1, <1>2 DEF BeginExecute, NoRequest
<1>3. CASE \E r \in Requests, e \in Events : BeginEvent(r, e)
  BY <1>1, <1>3 DEF BeginEvent, NoRequest
<1>4. CASE \E r \in Requests : NoTargets(r) \/ EmptyEvent(r)
  BY <1>1, <1>4 DEF NoTargets, EmptyEvent, NoRequest
<1>5. CASE \E e \in Events : FallDue(e) \/ CooldownElapses(e) \/ DeleteEvent(e)
  BY <1>1, <1>5 DEF FallDue, CooldownElapses, DeleteEvent, NoRequest
<1>. QED
  BY <1>2, <1>3, <1>4, <1>5

\* Handlers read, give up, or find the event gone; the admin deletes one; time passes.
LEMMA ReadSteady ==
    ASSUME Consistent, AllSteady,
           \/ \E r \in Requests, c \in Campaigns : BeginExecute(r, c)
           \/ \E r \in Requests, e \in Events : BeginEvent(r, e)
           \/ \E r \in Requests : NoTargets(r) \/ EmptyEvent(r) \/ ScanEvent(r)
           \/ \E e \in Events : FallDue(e) \/ CooldownElapses(e) \/ DeleteEvent(e)
    PROVE  AllSteady'
<1>1. UNCHANGED <<queue, worker, handled, launches>>
  BY DEF BeginExecute, BeginEvent, NoTargets, EmptyEvent, ScanEvent, FallDue, CooldownElapses,
         DeleteEvent, history
<1>2. \A r \in Requests :
        \/ request'[r] = request[r]
        \/ request[r].pc # "enqueue" /\ request'[r].pc # "enqueue"
  <2>1. CASE \E r \in Requests : ScanEvent(r)
    <3>. PICK r \in Requests : ScanEvent(r)
      BY <2>1
    <3>. PICK x : x = [request[r] EXCEPT !.pc = "create", !.targets = Allowed(request[r].event)]
      OBVIOUS
    <3>1. request \in [Requests -> Handler]
      BY DEF Consistent, Typed, Desk
    <3>2. x.pc = "create"
      BY <3>1 DEF Handler
    <3>3. request' = [request EXCEPT ![r] = x] /\ request[r].pc = "event"
      BY DEF ScanEvent
    <3>. QED
      BY <3>1, <3>2, <3>3
  <2>2. CASE ~\E r \in Requests : ScanEvent(r)
    BY <2>2, ReadRequests
  <2>. QED
    BY <2>1, <2>2
<1>3. \A c \in Campaigns :
        /\ campaign'[c].status = campaign[c].status
        /\ campaign'[c].targets = campaign[c].targets
        /\ campaign'[c].total = campaign[c].total
        /\ campaign'[c].sent = campaign[c].sent /\ campaign'[c].failed = campaign[c].failed
  <2>1. CASE \E e \in Events : DeleteEvent(e)
    <3>1. campaign \in [Campaigns -> Row]
      BY DEF Consistent, Typed, Rows
    <3>. QED
      BY <2>1, <3>1 DEF DeleteEvent, Row
  <2>2. CASE ~\E e \in Events : DeleteEvent(e)
    BY <2>2 DEF BeginExecute, BeginEvent, NoTargets, EmptyEvent, ScanEvent, FallDue,
                CooldownElapses
  <2>. QED
    BY <2>1, <2>2
<1>4. \A c \in Campaigns : Asking(c)' = Asking(c)
  BY <1>2 DEF Asking
<1>. QED
  BY <1>1, <1>3, <1>4, QuietSteady

\* The first launch of a campaign: its handler is the only one at work on it.
LEMMA LaunchSteady ==
    ASSUME Consistent, AllSteady, NEW r \in Requests, NEW c \in Campaigns,
           NEW x \in Handler, request' = [request EXCEPT ![r] = x],
           request[r].pc # "enqueue", x.pc = "enqueue", x.campaign = c,
           launches' = [launches EXCEPT ![c] = launches[c] + 1],
           campaign'[c].status = "queued",
           \A d \in Campaigns : d # c => campaign'[d] = campaign[d],
           UNCHANGED <<queue, worker, handled>>
    PROVE  AllSteady'
<1>1. request'[r] = x /\ \A q \in Requests : q # r => request'[q] = request[q]
  BY DEF Consistent, Typed, Desk
<1>2. /\ launches[c] \in Nat /\ launches'[c] = launches[c] + 1
      /\ \A d \in Campaigns : d # c => launches'[d] = launches[d]
  BY DEF Consistent, Typed, Counters
<1>3. Steady(c)'
  <2>1. CASE launches[c] = 0
    <3>1. queue[c] = 0 /\ Asking(c) = {} /\ Runners(c) = {}
      BY <2>1, NotLaunched
    <3>2. Asking(c)' = {r}
      BY <1>1, <3>1 DEF Asking
    <3>3. Runners(c)' = {} /\ queue'[c] = 0
      BY <3>1 DEF Runners
    <3>. QED
      BY <1>2, <2>1, <3>2, <3>3 DEF Steady, Alone, Waiting
  <2>2. CASE launches[c] # 0
    BY <1>2, <2>2, LaunchedAgain
  <2>. QED
    BY <2>1, <2>2
<1>. QED
  BY <1>2, <1>3, DeskSteady

\* A campaign is queued by one of the three handlers.
LEMMA QueueSteady ==
    ASSUME Sizes, Consistent, AllSteady, NEW r \in Requests,
           \/ QueueCampaign(r)
           \/ \E c \in Campaigns : LaunchCampaign(r, c, Segment) \/ CreateEventCampaign(r, c)
    PROVE  AllSteady'
<1>1. CASE QueueCampaign(r)
  <2>. PICK c : c = request[r].campaign
    OBVIOUS
  <2>. DEFINE x == [request[r] EXCEPT !.pc = "enqueue"]
              y == [campaign[c] EXCEPT !.status = "queued"]
  <2>1. request[r] \in Handler /\ request[r].pc = "queue" /\ c \in Campaigns
    BY <1>1, RequestOf DEF Consistent, Typed, Desk, QueueCampaign
  <2>2. x \in Handler /\ x.pc = "enqueue" /\ x.campaign = c
    BY <2>1 DEF Handler
  <2>3. campaign[c] \in Row
    BY <2>1, RowOf DEF Consistent, Typed
  <2>4. y \in Row /\ y.status = "queued"
    BY <2>3 DEF Row, Statuses
  <2>5. /\ request' = [request EXCEPT ![r] = x] /\ campaign' = [campaign EXCEPT ![c] = y]
        /\ launches' = [launches EXCEPT ![c] = launches[c] + 1]
        /\ UNCHANGED <<queue, worker, handled>>
    BY <1>1 DEF QueueCampaign, history
  <2>. HIDE DEF x, y
  <2>6. campaign'[c] = y /\ \A d \in Campaigns : d # c => campaign'[d] = campaign[d]
    BY ZenonT(30), <2>1, <2>4, <2>5, RowChanged DEF Consistent, Typed
  <2>. QED
    BY <2>1, <2>2, <2>4, <2>5, <2>6, LaunchSteady
<1>2. ASSUME NEW c \in Campaigns, LaunchCampaign(r, c, Segment) \/ CreateEventCampaign(r, c)
      PROVE  AllSteady'
  <2>. DEFINE x == [NoRequest EXCEPT !.pc = "enqueue", !.campaign = c]
              y == [campaign[c] EXCEPT !.status = "queued", !.targets = Segment,
                                       !.total = Cardinality(Segment)]
              z == [Blank EXCEPT !.status = "queued", !.event = request[r].event,
                                 !.targets = request[r].targets,
                                 !.total = Cardinality(request[r].targets)]
  <2>1. x \in Handler /\ x.pc = "enqueue" /\ x.campaign = c
    BY DEF NoRequest, Handler
  <2>2. request[r] \in Handler /\ campaign[c] \in Row
    BY RequestOf, RowOf DEF Consistent, Typed
  <2>3. y \in Row /\ y.status = "queued"
    <3>1. Cardinality(Segment) \in Nat /\ Segment \subseteq Users
      BY Audience DEF Sizes
    <3>. QED
      BY <2>2, <3>1 DEF Row, Statuses
  <2>4. z \in Row /\ z.status = "queued"
    <3>1. request[r].targets \in SUBSET Users /\ request[r].event \in Events \cup {NoEvent}
      BY <2>2 DEF Handler
    <3>2. Cardinality(request[r].targets) \in Nat
      BY <3>1, Audience
    <3>. QED
      BY <3>1, <3>2 DEF Blank, Row, Statuses
  <2>5. /\ request' = [request EXCEPT ![r] = x] /\ request[r].pc # "enqueue"
        /\ campaign' = [campaign EXCEPT ![c] = y] \/ campaign' = [campaign EXCEPT ![c] = z]
        /\ launches' = [launches EXCEPT ![c] = 1] /\ launches[c] = 0
        /\ UNCHANGED <<queue, worker, handled>>
    <3>1. CASE LaunchCampaign(r, c, Segment)
      BY <3>1 DEF LaunchCampaign, New, Consistent, Fresh, history
    <3>2. CASE CreateEventCampaign(r, c)
      BY <3>2 DEF CreateEventCampaign, New, Consistent, Fresh, history
    <3>. QED
      BY <1>2, <3>1, <3>2
  <2>. HIDE DEF x, y, z
  <2>6. /\ campaign'[c].status = "queued"
        /\ \A d \in Campaigns : d # c => campaign'[d] = campaign[d]
    BY <2>3, <2>4, <2>5, RowChanged DEF Consistent, Typed
  <2>7. launches' = [launches EXCEPT ![c] = launches[c] + 1]
    BY <2>5
  <2>. QED
    BY <2>1, <2>5, <2>6, <2>7, LaunchSteady
<1>. QED
  BY <1>1, <1>2

\* The job is put into the queue, or lost.
LEMMA EnqueueSteady ==
    ASSUME Consistent, AllSteady, NEW r \in Requests, Enqueue(r) PROVE AllSteady'
<1>. PICK c : c = request[r].campaign
  OBVIOUS
<1>1. c \in Campaigns /\ request[r].pc = "enqueue"
  BY DEF Consistent, Typed, Desk, Enqueue
<1>2. /\ request' = [request EXCEPT ![r] = NoRequest]
      /\ queue' = [queue EXCEPT ![c] = queue[c] + 1] \/ queue' = queue
      /\ UNCHANGED <<campaign, worker, handled, launches>>
  BY DEF Enqueue, history
<1>3. /\ queue \in [Campaigns -> Nat] /\ launches[c] \in Nat
      /\ queue'[c] \in {queue[c], queue[c] + 1}
      /\ \A d \in Campaigns : d # c => queue'[d] = queue[d]
  BY <1>1, <1>2 DEF Consistent, Typed, Counters
<1>4. /\ request'[r] = NoRequest
      /\ \A q \in Requests : q # r => request'[q] = request[q]
  BY <1>2 DEF Consistent, Typed, Desk
<1>5. r \in Asking(c) /\ Asking(c)' = Asking(c) \ {r}
  BY <1>1, <1>4, IdleHandler DEF Asking
<1>6. Steady(c)'
  <2>1. launches[c] # 0
    BY <1>1, <1>5 DEF AllSteady, Steady, Waiting
  <2>2. CASE launches[c] = 1
    <3>1. Alone(c) /\ Waiting(c)
      BY <1>1, <1>5, <2>2 DEF AllSteady, Steady, Waiting
    <3>2. queue[c] = 0 /\ Asking(c)' = {} /\ Runners(c) = {} /\ campaign[c].status = "queued"
      BY <1>1, <1>3, <1>5, <3>1 DEF Alone
    <3>3. Runners(c)' = {} /\ campaign' = campaign /\ launches' = launches
      BY <1>2, <3>2 DEF Runners
    <3>4. queue'[c] \in {0, 1}
      BY <1>3, <3>2
    <3>. QED
      BY <2>2, <3>2, <3>3, <3>4 DEF Steady, Alone
  <2>3. CASE launches[c] # 1
    BY <1>1, <1>2, <2>1, <2>3, LaunchedAgain
  <2>. QED
    BY <2>2, <2>3
<1>. QED
  BY <1>1, <1>2, <1>3, <1>6, IdleHandler, DeskSteady

\* The job of a campaign that was launched once is the only one, and on track.
LEMMA RunnerOf ==
    ASSUME Consistent, AllSteady, NEW w \in Workers, worker[w].pc # "idle",
           NEW c \in Campaigns, c = worker[w].campaign
    PROVE  /\ launches[c] # 0
           /\ launches[c] = 1 => /\ Runners(c) = {w} /\ queue[c] = 0 /\ Asking(c) = {}
                                 /\ OnTrack(worker[w], c)
<1>1. w \in Runners(c)
  BY DEF Runners
<1>2. Steady(c) /\ queue[c] \in Nat
  BY DEF AllSteady, Consistent, Typed, Counters
<1>3. launches[c] # 0
  BY <1>1, <1>2 DEF Steady
<1>4. ASSUME launches[c] = 1
      PROVE  /\ Runners(c) = {w} /\ queue[c] = 0 /\ Asking(c) = {} /\ OnTrack(worker[w], c)
  <2>1. Alone(c) /\ ~Waiting(c)
    BY <1>1, <1>2, <1>4 DEF Steady, Alone
  <2>2. Runners(c) = {w}
    BY <1>1, <2>1 DEF Alone, Runners
  <2>. QED
    BY <1>1, <1>2, <1>4, <2>1, <2>2 DEF Steady, Waiting
<1>. QED
  BY <1>3, <1>4

\* A job takes another step of the same campaign.
LEMMA RunnerSteady ==
    ASSUME Consistent, AllSteady, NEW w \in Workers, worker[w].pc # "idle",
           NEW c \in Campaigns, c = worker[w].campaign,
           NEW x \in Job, Shape(x), x.pc # "idle", x.campaign = c,
           worker' = [worker EXCEPT ![w] = x], UNCHANGED <<request, queue, launches>>,
           \A d \in Campaigns : d # c => handled'[d] = handled[d] /\ campaign'[d] = campaign[d],
           OnTrack(worker[w], c) => OnTrack(x, c)'
    PROVE  AllSteady'
<1>1. worker'[w] = x /\ \A v \in Workers : v # w => worker'[v] = worker[v]
  BY DEF Consistent, Typed, JobRows
<1>2. Runners(c)' = Runners(c)
  BY <1>1 DEF Runners
<1>3. Asking(c)' = Asking(c)
  BY DEF Asking
<1>4. Steady(c)'
  <2>1. launches'[c] = launches[c] /\ launches[c] # 0
    BY RunnerOf
  <2>2. CASE launches[c] = 1
    <3>1. Runners(c)' = {w} /\ queue'[c] = 0 /\ Asking(c)' = {} /\ OnTrack(x, c)'
      BY <1>2, <1>3, <2>2, RunnerOf
    <3>2. Alone(c)'
      BY <3>1 DEF Alone, Waiting
    <3>3. OnTrack(worker[w], c)' /\ campaign'[c].status # "completed"
      BY <1>1, <3>1 DEF OnTrack
    <3>. QED
      BY <2>1, <2>2, <3>1, <3>2, <3>3 DEF Steady
  <2>3. CASE launches[c] # 1
    BY <2>1, <2>3, LaunchedAgain
  <2>. QED
    BY <2>2, <2>3
<1>. QED
  BY <1>4, JobSteady

\* A job is over: a campaign it reports as completed is what the report says.
LEMMA OverSteady ==
    ASSUME Consistent, AllSteady, NEW w \in Workers, worker[w].pc # "idle",
           NEW c \in Campaigns, c = worker[w].campaign,
           worker' = [worker EXCEPT ![w] = NoJob],
           UNCHANGED <<request, queue, launches, handled>>,
           \A d \in Campaigns : d # c => campaign'[d] = campaign[d],
           OnTrack(worker[w], c) /\ campaign'[c].status = "completed" => Reported(c)'
    PROVE  AllSteady'
<1>1. NoJob \in Job /\ Shape(NoJob) /\ NoJob.campaign = NoCampaign /\ NoCampaign \notin Campaigns
  BY DEF NoJob, Job, Shape, NoCampaign, Campaigns, Statuses
<1>2. worker'[w] = NoJob /\ \A v \in Workers : v # w => worker'[v] = worker[v]
  BY DEF Consistent, Typed, JobRows
<1>3. Runners(c)' = Runners(c) \ {w} /\ Asking(c)' = Asking(c)
  BY <1>1, <1>2 DEF Runners, Asking
<1>4. Steady(c)'
  <2>1. launches'[c] = launches[c] /\ launches[c] # 0
    BY RunnerOf
  <2>2. CASE launches[c] = 1
    <3>1. Runners(c)' = {} /\ queue'[c] = 0 /\ Asking(c)' = {} /\ OnTrack(worker[w], c)
      BY <1>3, <2>2, RunnerOf
    <3>2. Alone(c)'
      BY <3>1 DEF Alone, Waiting
    <3>. QED
      BY <2>1, <2>2, <3>1, <3>2 DEF Steady
  <2>3. CASE launches[c] # 1
    BY <2>1, <2>3, LaunchedAgain
  <2>. QED
    BY <2>2, <2>3
<1>. QED
  BY <1>1, <1>4, JobSteady

\* A job leaves the queue: the only one of a campaign that was launched once.
LEMMA StartSteady ==
    ASSUME Sizes, Consistent, AllSteady, NEW w \in Workers, NEW c \in Campaigns, StartJob(w, c)
    PROVE  AllSteady'
<1>1. /\ worker[w].pc = "idle" /\ queue[c] > 0
      /\ queue' = [queue EXCEPT ![c] = queue[c] - 1]
      /\ UNCHANGED <<campaign, request, handled, launches>>
  BY DEF StartJob, history
<1>2. /\ queue \in [Campaigns -> Nat] /\ queue'[c] = queue[c] - 1
      /\ \A d \in Campaigns : d # c => queue'[d] = queue[d]
  BY <1>1 DEF Consistent, Typed, Counters
<1>3. worker[w].campaign = NoCampaign /\ worker \in [Workers -> Job] /\ worker[w] \in Job
  BY <1>1, JobOf DEF Consistent, Typed, JobRows, Job
<1>4. campaign[c] \in Row /\ NoCampaign \notin Campaigns
  BY RowOf DEF Consistent, Typed, NoCampaign, Campaigns
<1>5. PICK x \in Job :
        /\ worker' = [worker EXCEPT ![w] = x] /\ Shape(x) /\ x.campaign \in {c, NoCampaign}
        /\ campaign[c].status = "queued" =>
             /\ x.campaign = c /\ x.pc = "mark" /\ x.seen = "queued" /\ x.sent = 0 /\ x.failed = 0
             /\ campaign[c].targets # {} => x.todo = campaign[c].targets
  <2>1. CASE campaign[c].status \in {"queued", "running"}
    <3>1. PICK T : /\ T \in IF campaign[c].targets # {} THEN {campaign[c].targets}
                                                      ELSE {Segment, {}}
                   /\ worker' = [worker EXCEPT ![w] =
                        [NoJob EXCEPT !.pc = "mark", !.campaign = c, !.todo = T,
                                      !.seen = campaign[c].status]]
      BY <2>1 DEF StartJob
    <3>. DEFINE x == [NoJob EXCEPT !.pc = "mark", !.campaign = c, !.todo = T,
                                   !.seen = campaign[c].status]
    <3>2. T \subseteq Users /\ campaign[c].status \in Statuses
      BY <1>4, <3>1 DEF Row, Sizes
    <3>3. /\ x \in Job /\ x.pc = "mark" /\ x.campaign = c /\ x.todo = T
          /\ x.seen = campaign[c].status /\ x.sent = 0 /\ x.failed = 0
      BY <3>2 DEF NoJob, Job
    <3>4. worker' = [worker EXCEPT ![w] = x]
      BY <3>1
    <3>5. campaign[c].targets # {} => T = campaign[c].targets
      BY <3>1
    <3>. HIDE DEF x
    <3>6. Shape(x)
      BY <3>3 DEF Shape
    <3>. QED
      BY <3>3, <3>4, <3>5, <3>6
  <2>2. CASE campaign[c].status \notin {"queued", "running"}
    <3>1. worker' = worker
      BY <2>2 DEF StartJob
    <3>2. worker' = [worker EXCEPT ![w] = worker[w]] /\ Shape(worker[w])
      BY <1>3, <3>1 DEF AllSteady
    <3>. QED
      BY <1>3, <2>2, <3>2
  <2>. QED
    BY <2>1, <2>2
<1>6. worker'[w] = x /\ \A v \in Workers : v # w => worker'[v] = worker[v]
  BY <1>3, <1>5
<1>7. Steady(c)'
  <2>1. launches'[c] = launches[c] /\ launches[c] # 0 /\ Waiting(c)
    BY <1>1 DEF AllSteady, Steady, Waiting
  <2>2. CASE launches[c] = 1
    <3>1. Alone(c) /\ Waiting(c)
      BY <2>1, <2>2 DEF AllSteady, Steady
    <3>2. queue[c] = 1 /\ Asking(c) = {} /\ Runners(c) = {} /\ campaign[c].status = "queued"
      BY <1>1, <1>2, <3>1 DEF Alone
    <3>3. Asking(c)' = {} /\ queue'[c] = 0 /\ Runners(c)' = {w}
      BY <1>1, <1>2, <1>5, <1>6, <3>2 DEF Asking, Runners
    <3>4. Alone(c)'
      BY <3>3 DEF Alone, Waiting
    <3>5. OnTrack(worker[w], c)'
      BY <1>1, <1>5, <1>6, <3>2 DEF OnTrack
    <3>. QED
      BY <1>1, <2>1, <2>2, <3>2, <3>3, <3>4, <3>5 DEF Steady
  <2>3. CASE launches[c] # 1
    BY <2>1, <2>3, LaunchedAgain
  <2>. QED
    BY <2>2, <2>3
<1>. QED
  BY <1>1, <1>2, <1>3, <1>5, <1>7, JobSteady

\* The total is saved, or there is nobody and the campaign has failed.
LEMMA MarkSteady ==
    ASSUME Sizes, Consistent, AllSteady, NEW w \in Workers, MarkRunning(w) PROVE AllSteady'
<1>1. worker[w] \in Job /\ worker[w].pc = "mark" /\ worker[w].campaign \in Campaigns
  BY JobOf DEF Consistent, Typed, MarkRunning
<1>. PICK c \in Campaigns : c = worker[w].campaign
  BY <1>1
<1>2. campaign[c] \in Row /\ UNCHANGED <<queue, request, handled, launches>>
  BY RowOf DEF Consistent, Typed, MarkRunning, history
<1>3. CASE worker[w].todo # {}
  <2>. PICK x : x = [worker[w] EXCEPT !.pc = "next", !.event = campaign[c].event]
    OBVIOUS
  <2>. DEFINE y == [campaign[c] EXCEPT
                !.status = IF worker[w].seen = "running" THEN @ ELSE "running",
                !.total = Cardinality(worker[w].todo)]
  <2>1. worker' = [worker EXCEPT ![w] = x] /\ campaign' = [campaign EXCEPT ![c] = y]
    BY ZenonT(30), <1>3 DEF MarkRunning
  <2>2. worker[w].todo \in SUBSET Users /\ Cardinality(worker[w].todo) \in Nat
    BY <1>1, Audience DEF Job
  <2>3. /\ x \in Job /\ x.pc = "next" /\ x.campaign = c /\ x.todo = worker[w].todo
        /\ x.sent = worker[w].sent /\ x.failed = worker[w].failed
    BY <1>1, <1>2 DEF Job, Row
  <2>4. /\ y \in Row /\ y.total = Cardinality(worker[w].todo) /\ y.targets = campaign[c].targets
        /\ worker[w].seen = "queued" => y.status = "running"
    BY <1>2, <2>2 DEF Row, Statuses
  <2>. HIDE DEF y
  <2>5. campaign'[c] = y /\ \A d \in Campaigns : d # c => campaign'[d] = campaign[d]
    BY <2>1, <2>4, RowChanged DEF Consistent, Typed
  <2>6. Shape(x)
    BY <2>3 DEF Shape
  <2>7. ASSUME OnTrack(worker[w], c) PROVE OnTrack(x, c)'
    <3>1. /\ worker[w].seen = "queued" /\ worker[w].sent = 0 /\ worker[w].failed = 0
          /\ campaign[c].targets # {} => worker[w].todo = campaign[c].targets
      BY <1>1, <2>7 DEF OnTrack
    <3>2. y.total = x.sent + x.failed + Cardinality(x.todo)
      BY <2>2, <2>3, <2>4, <3>1
    <3>3. \A u \in Known \cap y.targets : u \in x.todo
      BY <2>3, <2>4, <3>1
    <3>4. y.total = x.sent + x.failed + Cardinality(x.todo) + 0
      BY <2>2, <2>3, <2>4, <3>1
    <3>. QED
      BY <2>3, <2>4, <2>5, <3>1, <3>3, <3>4 DEF OnTrack
  <2>. QED
    BY <1>1, <1>2, <2>1, <2>3, <2>5, <2>6, <2>7, RunnerSteady
<1>4. CASE worker[w].todo = {}
  <2>. DEFINE y == [campaign[c] EXCEPT !.status = "failed"]
  <2>1. worker' = [worker EXCEPT ![w] = NoJob] /\ campaign' = [campaign EXCEPT ![c] = y]
    BY <1>4 DEF MarkRunning
  <2>2. y \in Row /\ y.status = "failed"
    BY <1>2 DEF Row, Statuses
  <2>. HIDE DEF y
  <2>3. campaign'[c] = y /\ \A d \in Campaigns : d # c => campaign'[d] = campaign[d]
    BY <2>1, <2>2, RowChanged DEF Consistent, Typed
  <2>. QED
    BY <1>1, <1>2, <2>1, <2>2, <2>3, OverSteady
<1>. QED
  BY <1>3, <1>4

\* A user leaves the list for the row that counts him.
LEMMA NextSteady ==
    ASSUME Sizes, Consistent, AllSteady, NEW w \in Workers, NEW u \in Users, NextUser(w, u)
    PROVE  AllSteady'
<1>1. /\ worker[w] \in Job /\ worker[w].pc = "next" /\ u \in worker[w].todo
      /\ worker[w].campaign \in Campaigns
  BY JobOf DEF Consistent, Typed, NextUser
<1>. PICK c \in Campaigns : c = worker[w].campaign
  BY <1>1
<1>2. UNCHANGED <<campaign, queue, request, launches>>
  BY DEF NextUser
<1>3. /\ worker[w].todo \in SUBSET Users /\ IsFiniteSet(worker[w].todo)
      /\ Cardinality(worker[w].todo) \in Nat
      /\ worker[w].sent \in Nat /\ worker[w].failed \in Nat
  BY <1>1, Audience, FS_Subset DEF Job, Sizes
<1>4. Cardinality(worker[w].todo \ {u}) = Cardinality(worker[w].todo) - 1
  BY <1>1, <1>3, FS_RemoveElement
<1>5. CASE u \notin Known
  <2>. PICK x : x = [worker[w] EXCEPT !.todo = @ \ {u}, !.failed = @ + 1]
    OBVIOUS
  <2>1. worker' = [worker EXCEPT ![w] = x] /\ handled' = handled
    BY <1>5 DEF NextUser
  <2>2. worker[w].failed + 1 \in Nat /\ worker[w].todo \ {u} \in SUBSET Users
    BY <1>3
  <2>3. /\ x \in Job /\ x.pc = "next" /\ x.campaign = c /\ x.todo = worker[w].todo \ {u}
        /\ x.sent = worker[w].sent /\ x.failed = worker[w].failed + 1
    BY <1>1, <2>2 DEF Job
  <2>4. ASSUME OnTrack(worker[w], c) PROVE OnTrack(x, c)'
    <3>1. worker[w].sent + worker[w].failed + Cardinality(worker[w].todo) + 0
              = x.sent + x.failed + Cardinality(x.todo) + 0
      BY <1>3, <1>4, <2>3
    <3>. QED
      BY <1>1, <1>2, <1>5, <2>1, <2>3, <2>4, <3>1 DEF OnTrack
  <2>5. Shape(x)
    BY <2>3 DEF Shape
  <2>. QED
    BY <1>1, <1>2, <2>1, <2>3, <2>4, <2>5, RunnerSteady
<1>6. CASE u \in Known
  <2>. PICK x : x = [worker[w] EXCEPT !.pc = "send", !.user = u, !.todo = @ \ {u}]
    OBVIOUS
  <2>1. /\ worker' = [worker EXCEPT ![w] = x]
        /\ handled' = [handled EXCEPT ![c][u] = handled[c][u] + 1]
    BY <1>6 DEF NextUser
  <2>2. /\ x \in Job /\ x.pc = "send" /\ x.user = u /\ x.campaign = c
        /\ x.todo = worker[w].todo \ {u}
        /\ x.sent = worker[w].sent /\ x.failed = worker[w].failed
    BY <1>1 DEF Job
  <2>3. /\ handled \in [Campaigns -> [Users -> Nat]]
        /\ queue[c] \in Nat /\ launches[c] \in Nat
    BY DEF Consistent, Typed, Counters
  <2>4. /\ handled'[c][u] = handled[c][u] + 1
        /\ \A v \in Users : v # u => handled'[c][v] = handled[c][v]
        /\ \A d \in Campaigns : d # c => handled'[d] = handled[d]
    <3>. PICK g : g = [handled[c] EXCEPT ![u] = handled[c][u] + 1]
      OBVIOUS
    <3>1. handled[c] \in [Users -> Nat]
      BY <2>3
    <3>2. g[u] = handled[c][u] + 1 /\ \A v \in Users : v # u => g[v] = handled[c][v]
      BY <3>1
    <3>3. handled' = [handled EXCEPT ![c] = g]
      BY <2>1
    <3>. QED
      BY <2>3, <3>2, <3>3
  <2>5. launches[c] = 1 => handled[c][u] = 0
    <3>1. w \in Holding(c, u)
      BY <1>1 DEF Holding
    <3>2. Cardinality(Holding(c, u)) >= 1
      BY <3>1, Counts, FS_EmptySet
    <3>3. /\ handled[c][u] \in Nat /\ Cardinality(Asking(c)) \in Nat
          /\ Cardinality(Holding(c, u)) \in Nat
      BY <2>3, Counts
    <3>4. handled[c][u] + queue[c] + Cardinality(Asking(c)) + Cardinality(Holding(c, u))
              <= launches[c]
      BY DEF Consistent, Budget
    <3>. QED
      BY <2>3, <3>2, <3>3, <3>4
  <2>6. Shape(x)
    BY <1>1, <2>2 DEF Shape
  <2>7. CASE launches[c] = 1
    <3>1. ASSUME OnTrack(worker[w], c) PROVE OnTrack(x, c)'
      <4>1. worker[w].sent + worker[w].failed + Cardinality(worker[w].todo) + 0
                = x.sent + x.failed + Cardinality(x.todo) + 1
        BY <1>3, <1>4, <2>2
      <4>2. ASSUME NEW v \in Known \cap campaign[c].targets
            PROVE  v \in x.todo \/ handled'[c][v] = 1
        <5>1. v \in Users /\ (v \in worker[w].todo \/ handled[c][v] = 1)
          BY <1>1, <3>1 DEF OnTrack, Sizes
        <5>. QED
          BY <2>2, <2>4, <2>5, <2>7, <5>1
      <4>. QED
        BY <1>1, <1>2, <2>2, <3>1, <4>1, <4>2 DEF OnTrack
    <3>. QED
      BY ZenonT(30), <1>1, <1>2, <2>1, <2>2, <2>4, <2>6, <3>1, RunnerSteady
  <2>8. CASE launches[c] # 1
    <3>1. launches[c] # 0
      BY <1>1, RunnerOf
    <3>2. Steady(c)'
      BY <1>2, <2>8, <3>1, LaunchedAgain
    <3>3. UNCHANGED <<request, launches>> /\ worker[w].campaign \in {c, NoCampaign}
      BY <1>2
    <3>4. \A d \in Campaigns : d # c => /\ queue'[d] = queue[d] /\ handled'[d] = handled[d]
                                        /\ campaign'[d] = campaign[d]
      BY <1>2, <2>4
    <3>. QED
      BY <2>1, <2>2, <2>6, <3>2, <3>3, <3>4, JobSteady
  <2>. QED
    BY <2>7, <2>8
<1>. QED
  BY <1>5, <1>6

\* The message is sent and logged.
LEMMA MessageSteady ==
    ASSUME Sizes, Consistent, AllSteady, NEW w \in Workers, Send(w) \/ LogEvent(w)
    PROVE  AllSteady'
<1>1. /\ worker[w] \in Job /\ worker[w].pc \in {"send", "log"} /\ Shape(worker[w])
      /\ worker[w].campaign \in Campaigns
      /\ UNCHANGED <<campaign, queue, request, handled, launches>>
  BY JobOf DEF Consistent, Typed, AllSteady, Send, LogEvent, history
<1>. PICK c \in Campaigns : c = worker[w].campaign
  BY <1>1
<1>2. PICK x \in Job :
        /\ worker' = [worker EXCEPT ![w] = x] /\ x.pc \in {"log", "row"} /\ Shape(x)
        /\ x.campaign = c /\ x.todo = worker[w].todo
        /\ x.sent = worker[w].sent /\ x.failed = worker[w].failed
  <2>. DEFINE told == [worker[w] EXCEPT !.pc = IF worker[w].event = NoEvent THEN "row" ELSE "log",
                                        !.outcome = "sent"]
              refused == [worker[w] EXCEPT !.pc = "row", !.outcome = "failed"]
              written == [worker[w] EXCEPT !.pc = "row"]
  <2>1. \A x \in {told, refused, written} :
          /\ x \in Job /\ x.campaign = c /\ x.todo = worker[w].todo /\ x.user = worker[w].user
          /\ x.sent = worker[w].sent /\ x.failed = worker[w].failed /\ x.pc \in {"log", "row"}
          /\ x.event = worker[w].event
    BY ZenonT(30), <1>1 DEF Job
  <2>2. /\ told.outcome = "sent" /\ refused.outcome = "failed"
        /\ told.pc = "log" => worker[w].event \in Events
        /\ refused.pc = "row" /\ written.pc = "row" /\ written.outcome = worker[w].outcome
    BY <1>1 DEF Job
  <2>3. \/ worker' = [worker EXCEPT ![w] = told]
        \/ worker' = [worker EXCEPT ![w] = refused]
        \/ worker' = [worker EXCEPT ![w] = written] /\ worker[w].pc = "log"
    BY DEF Send, LogEvent
  <2>. HIDE DEF told, refused, written
  <2>4. worker[w].user \in Users \ worker[w].todo
    BY <1>1 DEF Shape
  <2>5. Shape(told) /\ Shape(refused)
    BY <2>1, <2>2, <2>4 DEF Shape
  <2>6. worker[w].pc = "log" => Shape(written)
    BY <1>1, <2>1, <2>2, <2>4 DEF Shape
  <2>. QED
    BY <2>1, <2>3, <2>5, <2>6
<1>3. OnTrack(worker[w], c) => OnTrack(x, c)'
  BY <1>1, <1>2 DEF OnTrack
<1>. QED
  BY <1>1, <1>2, <1>3, RunnerSteady

\* A user is counted.
LEMMA CountedJob ==
    ASSUME NEW task \in Job, task.pc = "row", Shape(task)
    PROVE  /\ Counted(task) \in Job /\ Counted(task).pc = "next" /\ Shape(Counted(task))
           /\ Counted(task).campaign = task.campaign /\ Counted(task).todo = task.todo
           /\ Counted(task).user = NoUser /\ Counted(task).event = task.event
           /\ Counted(task).sent + Counted(task).failed = task.sent + task.failed + 1
<1>. DEFINE one(outcome) == IF task.outcome = outcome THEN 1 ELSE 0
<1>. PICK x : x = Counted(task)
  OBVIOUS
<1>1. task.sent \in Nat /\ task.failed \in Nat /\ one("sent") \in {0, 1} /\ one("failed") \in {0, 1}
  BY DEF Job
<1>2. one("sent") + one("failed") = 1
  BY DEF Shape
<1>3. x = [task EXCEPT !.pc = "next", !.user = NoUser, !.outcome = "none",
                       !.sent = task.sent + one("sent"),
                       !.failed = task.failed + one("failed")]
  BY DEF Counted
<1>. HIDE DEF one
<1>4. task.sent + one("sent") \in Nat /\ task.failed + one("failed") \in Nat
  BY <1>1
<1>5. /\ x \in Job /\ x.pc = "next" /\ x.campaign = task.campaign /\ x.todo = task.todo
      /\ x.user = NoUser /\ x.event = task.event
      /\ x.sent = task.sent + one("sent") /\ x.failed = task.failed + one("failed")
  BY <1>3, <1>4 DEF Job
<1>6. x.sent + x.failed = task.sent + task.failed + 1
  BY <1>1, <1>2, <1>5
<1>. QED
  BY <1>5, <1>6 DEF Shape

\* The delivery row is written and now and then the totals.
LEMMA AddSteady ==
    ASSUME Sizes, Consistent, AllSteady, NEW w \in Workers, AddDelivery(w) PROVE AllSteady'
<1>1. /\ worker[w] \in Job /\ worker[w].pc = "row" /\ worker[w].campaign \in Campaigns
      /\ Shape(worker[w])
  BY JobOf DEF Consistent, Typed, AllSteady, AddDelivery
<1>. PICK c \in Campaigns : c = worker[w].campaign
  BY <1>1
<1>. PICK x : x = Counted(worker[w])
  OBVIOUS
<1>2. /\ x \in Job /\ x.pc = "next" /\ x.campaign = c /\ x.todo = worker[w].todo /\ Shape(x)
      /\ x.sent + x.failed = worker[w].sent + worker[w].failed + 1
  BY <1>1, CountedJob
<1>3. /\ worker' = [worker EXCEPT ![w] = x]
      /\ UNCHANGED <<queue, request, handled, launches>>
      /\ \/ campaign' = campaign
         \/ campaign' = [campaign EXCEPT ![c] = Saved(campaign[c], x)]
  BY DEF AddDelivery, history
<1>4. campaign[c] \in Row
  BY RowOf DEF Consistent, Typed
<1>5. /\ \A d \in Campaigns : d # c => campaign'[d] = campaign[d]
      /\ campaign'[c].status = campaign[c].status /\ campaign'[c].total = campaign[c].total
      /\ campaign'[c].targets = campaign[c].targets
  <2>1. /\ Saved(campaign[c], x) \in Row
        /\ Saved(campaign[c], x).status = campaign[c].status
        /\ Saved(campaign[c], x).total = campaign[c].total
        /\ Saved(campaign[c], x).targets = campaign[c].targets
    BY <1>2, <1>4 DEF Saved, Job, Row
  <2>. QED
    BY <1>3, <2>1, RowChanged DEF Consistent, Typed
<1>6. ASSUME OnTrack(worker[w], c) PROVE OnTrack(x, c)'
  <2>1. Cardinality(worker[w].todo) \in Nat /\ worker[w].sent \in Nat /\ worker[w].failed \in Nat
    BY <1>1, Audience DEF Job
  <2>2. /\ x.sent \in Nat /\ x.failed \in Nat
        /\ worker[w].sent + worker[w].failed + Cardinality(worker[w].todo) + 1
             = x.sent + x.failed + Cardinality(x.todo) + 0
    BY <1>2, <2>1 DEF Job
  <2>. QED
    BY <1>1, <1>2, <1>3, <1>5, <1>6, <2>2 DEF OnTrack
<1>. QED
  BY <1>1, <1>2, <1>3, <1>5, <1>6, RunnerSteady

\* The job is over: with the last user, by an exception or a stop.
LEMMA EndSteady ==
    ASSUME Sizes, Consistent, AllSteady, NEW w \in Workers,
           FinishJob(w) \/ JobRaises(w) \/ JobStops(w)
    PROVE  AllSteady'
<1>1. worker[w] \in Job /\ worker[w].pc # "idle" /\ worker[w].campaign \in Campaigns
  BY JobOf DEF Consistent, Typed, FinishJob, JobRaises, JobStops
<1>. PICK c \in Campaigns : c = worker[w].campaign
  BY <1>1
<1>2. /\ worker' = [worker EXCEPT ![w] = NoJob] /\ campaign[c] \in Row
      /\ UNCHANGED <<queue, request, handled, launches>>
  BY RowOf DEF Consistent, Typed, FinishJob, JobRaises, JobStops, Requeued, history
<1>3. CASE FinishJob(w)
  <2>. PICK y : y = [Saved(campaign[c], worker[w]) EXCEPT !.status = "completed"]
    OBVIOUS
  <2>1. /\ y \in Row /\ y.sent = worker[w].sent /\ y.failed = worker[w].failed
        /\ y.total = campaign[c].total /\ y.targets = campaign[c].targets
    BY <1>1, <1>2 DEF Saved, Job, Row, Statuses
  <2>2. /\ campaign' = [campaign EXCEPT ![c] = y]
        /\ worker[w].pc = "next" /\ worker[w].todo = {}
    BY <1>3 DEF FinishJob
  <2>3. campaign'[c] = y /\ \A d \in Campaigns : d # c => campaign'[d] = campaign[d]
    BY <2>1, <2>2, RowChanged DEF Consistent, Typed
  <2>4. ASSUME OnTrack(worker[w], c) PROVE Reported(c)'
    <3>1. /\ campaign[c].total = worker[w].sent + worker[w].failed + Cardinality(worker[w].todo) + 0
          /\ \A u \in Known \cap campaign[c].targets : handled[c][u] = 1
      BY <2>2, <2>4 DEF OnTrack
    <3>2. campaign[c].total = worker[w].sent + worker[w].failed
      BY <1>1, <2>2, <3>1, FS_EmptySet DEF Job
    <3>. QED
      BY <1>2, <2>1, <2>3, <3>1, <3>2 DEF Reported
  <2>. QED
    BY <1>1, <1>2, <2>3, <2>4, OverSteady
<1>4. CASE JobRaises(w) \/ JobStops(w)
  <2>. PICK y : y = [campaign[c] EXCEPT !.status = AfterException(campaign[c].status)]
    OBVIOUS
  <2>1. y \in Row /\ (y.status = "completed" => campaign[c].status = "completed")
    BY <1>2 DEF Row, Statuses, AfterException
  <2>2. campaign' = campaign \/ campaign' = [campaign EXCEPT ![c] = y]
    BY <1>4 DEF JobRaises, JobStops
  <2>3. /\ \A d \in Campaigns : d # c => campaign'[d] = campaign[d]
        /\ campaign'[c].status = "completed" => campaign[c].status = "completed"
    BY <2>1, <2>2, RowChanged DEF Consistent, Typed
  <2>4. OnTrack(worker[w], c) => campaign[c].status # "completed"
    BY DEF OnTrack
  <2>. QED
    BY <1>1, <1>2, <2>3, <2>4, OverSteady
<1>. QED
  BY <1>3, <1>4

\* At the start nobody has launched anything.
LEMMA InitSteady == ASSUME Init PROVE AllSteady
<1>1. \A c \in Campaigns :
        /\ launches[c] = 0 /\ queue[c] = 0 /\ Asking(c) = {} /\ Runners(c) = {}
  BY DEF Init, Asking, Runners, NoRequest, NoJob, NoCampaign, Campaigns
<1>2. \A w \in Workers : Shape(worker[w])
  BY DEF Init, NoJob, Shape
<1>. QED
  BY <1>1, <1>2 DEF AllSteady, Steady, Waiting

\* No step of anybody breaks it.
LEMMA StepSteady == ASSUME Sizes, Consistent, AllSteady, [Next]_vars PROVE AllSteady'
<1>1. CASE UNCHANGED vars
  <2>1. \A c : Asking(c)' = Asking(c)
    BY <1>1 DEF vars, Asking
  <2>. QED
    BY <1>1, <2>1, QuietSteady DEF vars, events, history
<1>2. ASSUME NEW c \in Campaigns, NEW chosen \in {{}, Known}, CreateCampaign(c, chosen)
      PROVE  AllSteady'
  BY <1>2, CreateSteady
<1>3. ASSUME NEW r \in Requests,
             \/ \E c \in Campaigns : BeginExecute(r, c) \/ LaunchCampaign(r, c, Segment)
             \/ \E e \in Events : TickEvent(r, e) \/ RunEventNow(r, e)
             \/ Handle(r)
      PROVE  AllSteady'
  BY <1>3, ReadSteady, QueueSteady, EnqueueSteady DEF TickEvent, RunEventNow, Handle
<1>4. ASSUME NEW e \in Events, FallDue(e) \/ CooldownElapses(e) \/ DeleteEvent(e)
      PROVE  AllSteady'
  BY <1>4, ReadSteady
<1>5. ASSUME NEW w \in Workers, Work(w) \/ JobRaises(w) \/ JobStops(w)
      PROVE  AllSteady'
  BY <1>5, StartSteady, MarkSteady, NextSteady, MessageSteady, AddSteady, EndSteady DEF Work
<1>. QED
  BY <1>1, <1>2, <1>3, <1>4, <1>5 DEF Next

\* A campaign that is reported as completed has counted everybody, and whoever exists
\* has been through its actions once (CompletedReachedAll).
THEOREM ReportsAreTrue == ASSUME Sizes PROVE Spec => []CompletedReachedAll
<1>1. AllSteady => CompletedReachedAll
  BY DEF AllSteady, Steady, Reported, CompletedReachedAll
<1>. QED
  BY <1>1, InitSteady, StepSteady, AlwaysConsistent, PTL DEF Spec

-----------------------------------------------------------------------------
(* The repeat policy *)

\* A campaign of an event was launched with the recipients it froze.
EventRow(c) == campaign[c].event \in Events => launches[c] >= 1 /\ campaign[c].targets # {}

\* A job that sends for an event works on a campaign of that event, while there is one.
OwnEvent(task) ==
    task.pc \notin {"idle", "mark"} =>
        \A e \in Events \ removed : task.event = e <=> campaign[task.campaign].event = e

AllKnown == (\A c \in Campaigns : EventRow(c)) /\ \A w \in Workers : OwnEvent(worker[w])

Voices ==
    /\ heard \in [Events -> [Users -> Nat]] /\ excused \in [Events -> [Users -> Nat]]
    /\ logged \in [Events -> SUBSET Users]

\* Handlers that are about to freeze a list with the user on it.
Frozen(e, u) ==
    {r \in Requests : /\ request[r].pc = "create" /\ request[r].event = e
                      /\ u \in request[r].targets}

\* The campaign has still to message the user.
Reaching(c, u) ==
    \/ Waiting(c) /\ u \in campaign[c].targets
    \/ \E w \in Runners(c) :
         u \in worker[w].todo \/ (worker[w].pc = "send" /\ worker[w].user = u)

Open(e, u) == {c \in Campaigns : campaign[c].event = e /\ Reaching(c, u)}

\* The user has heard from the event, as its rows say or are about to.
Told(e, u) ==
    \/ u \in logged[e]
    \/ \E w \in Workers : worker[w].pc = "log" /\ worker[w].event = e /\ worker[w].user = u

Slack(e, u) == IF Told(e, u) \/ Frozen(e, u) # {} \/ Open(e, u) # {} THEN 1 ELSE 0

\* Messages that were sent and those that may still be, against the repeats the code
\* cannot exclude and the one message the policy allows.
SpokenOf(e, u) ==
    heard[e][u] + Cardinality(Frozen(e, u)) + Cardinality(Open(e, u))
        <= excused[e][u] + Slack(e, u)

Once(e) == \A c \in Campaigns : campaign[c].event = e => launches[c] = 1

Spoken ==
    \A e \in Events \ removed, u \in Users :
        Policy[e] # "always" /\ Once(e) => SpokenOf(e, u)

PolicyKept == Voices /\ AllKnown /\ Spoken

\* The sets of the bound are finite.
LEMMA SpokenCounts ==
    ASSUME Sizes, NEW e, NEW u
    PROVE  /\ IsFiniteSet(Frozen(e, u)) /\ Cardinality(Frozen(e, u)) \in Nat
           /\ IsFiniteSet(Open(e, u)) /\ Cardinality(Open(e, u)) \in Nat
           /\ IsFiniteSet(Frozen(e, u)') /\ Cardinality(Frozen(e, u)') \in Nat
           /\ IsFiniteSet(Open(e, u)') /\ Cardinality(Open(e, u)') \in Nat
<1>1. /\ Frozen(e, u) \in SUBSET Requests /\ Open(e, u) \in SUBSET Campaigns
      /\ Frozen(e, u)' \in SUBSET Requests /\ Open(e, u)' \in SUBSET Campaigns
  BY DEF Frozen, Open
<1>2. IsFiniteSet(Campaigns) /\ IsFiniteSet(Requests)
  BY FS_Interval DEF Campaigns, Sizes
<1>. QED
  BY <1>1, <1>2, FS_Subset, FS_CardinalityType

\* Nobody is about to hear more, and what is known of the user is not forgotten.
LEMMA SpokenKept ==
    ASSUME Sizes, Voices, Voices', NEW e \in Events, NEW u \in Users, SpokenOf(e, u),
           Frozen(e, u)' \subseteq Frozen(e, u), Open(e, u)' \subseteq Open(e, u),
           heard'[e][u] <= heard[e][u], excused[e][u] <= excused'[e][u],
           Told(e, u) => \/ Told(e, u)'
                         \/ excused'[e][u] = excused[e][u] + 1 \/ heard'[e][u] = 0
    PROVE  SpokenOf(e, u)'
<1>1. /\ heard[e][u] \in Nat /\ heard'[e][u] \in Nat
      /\ excused[e][u] \in Nat /\ excused'[e][u] \in Nat
  BY DEF Voices
<1>. PICK f, g, o, p : /\ f = Cardinality(Frozen(e, u)) /\ g = Cardinality(Frozen(e, u)')
                       /\ o = Cardinality(Open(e, u)) /\ p = Cardinality(Open(e, u)')
  OBVIOUS
<1>2. f \in Nat /\ g \in Nat /\ o \in Nat /\ p \in Nat /\ g <= f /\ p <= o
  BY SpokenCounts, FS_Subset
<1>3. /\ f = 0 <=> Frozen(e, u) = {}
      /\ g = 0 <=> Frozen(e, u)' = {}
      /\ o = 0 <=> Open(e, u) = {}
      /\ p = 0 <=> Open(e, u)' = {}
  BY SpokenCounts, FS_EmptySet
<1>4. heard[e][u] + f + o <= excused[e][u] + Slack(e, u)
  BY DEF SpokenOf
<1>5. Slack(e, u) \in {0, 1} /\ Slack(e, u)' \in {0, 1}
  BY DEF Slack
<1>6. CASE Slack(e, u) = 0 \/ Slack(e, u)' = 1
  <2>1. heard'[e][u] + g + p <= excused'[e][u] + Slack(e, u)'
    BY <1>1, <1>2, <1>4, <1>5, <1>6
  <2>. QED
    BY <2>1 DEF SpokenOf
<1>7. CASE Slack(e, u) = 1 /\ Slack(e, u)' = 0
  <2>1. g = 0 /\ p = 0 /\ ~Told(e, u)'
    BY <1>3, <1>7 DEF Slack
  <2>2. f + o > 0 \/ excused'[e][u] = excused[e][u] + 1 \/ heard'[e][u] = 0
    <3>1. CASE Told(e, u)
      BY <2>1, <3>1
    <3>2. CASE ~Told(e, u)
      <4>1. f # 0 \/ o # 0
        BY <1>3, <1>7, <3>2 DEF Slack
      <4>. QED
        BY <1>2, <4>1
    <3>. QED
      BY <3>1, <3>2
  <2>3. heard'[e][u] + g + p <= excused'[e][u] + Slack(e, u)'
    BY <1>1, <1>2, <1>4, <1>7, <2>1, <2>2
  <2>. QED
    BY <2>3 DEF SpokenOf
<1>. QED
  BY <1>5, <1>6, <1>7

\* Rows keep their events, unless the event is deleted, and their recipients.
RowsKept ==
    \A c \in Campaigns :
        /\ launches[c] <= launches'[c]
        /\ \A e \in Events \ removed' : campaign'[c].event = e <=> campaign[c].event = e
        /\ campaign'[c].event \in Events =>
             /\ campaign'[c].event = campaign[c].event
             /\ campaign'[c].targets = campaign[c].targets

\* A job that sends goes on with the event it began with.
JobKept(w) ==
    worker'[w].pc \notin {"idle", "mark"} =>
        /\ worker[w].pc \notin {"idle", "mark"}
        /\ worker'[w].event = worker[w].event /\ worker'[w].campaign = worker[w].campaign

\* Such a step keeps what is known of rows and jobs.
LEMMA KnownKept ==
    ASSUME Consistent, AllKnown, removed \subseteq removed', RowsKept, Counters',
           \A w \in Workers : JobKept(w) \/ OwnEvent(worker[w])'
    PROVE  /\ AllKnown'
           /\ \A e \in Events \ removed' : Once(e)' => Once(e)
<1>1. \A c \in Campaigns : launches[c] \in Nat /\ launches'[c] \in Nat
  BY DEF Consistent, Typed, Counters
<1>2. \A c \in Campaigns : EventRow(c)'
  BY <1>1 DEF EventRow, AllKnown, RowsKept
<1>3. ASSUME NEW w \in Workers, JobKept(w) PROVE OwnEvent(worker[w])'
  <2>1. worker[w].pc # "idle" => worker[w].campaign \in Campaigns
    BY JobOf DEF Consistent, Typed
  <2>2. OwnEvent(worker[w])
    BY DEF AllKnown
  <2>3. ASSUME worker'[w].pc \notin {"idle", "mark"}, NEW e \in Events \ removed'
        PROVE  worker'[w].event = e <=> campaign'[worker'[w].campaign].event = e
    BY <1>3, <2>1, <2>2, <2>3 DEF OwnEvent, RowsKept, JobKept
  <2>. QED
    BY <2>3 DEF OwnEvent
<1>4. ASSUME NEW e \in Events \ removed', Once(e)' PROVE Once(e)
  <2>1. ASSUME NEW c \in Campaigns, campaign[c].event = e PROVE launches[c] = 1
    <3>1. campaign'[c].event = e /\ launches[c] <= launches'[c] /\ launches[c] >= 1
      BY <2>1 DEF RowsKept, AllKnown, EventRow
    <3>. QED
      BY <1>1, <1>4, <3>1 DEF Once
  <2>. QED
    BY <2>1 DEF Once
<1>. QED
  BY <1>2, <1>3, <1>4 DEF AllKnown

\* A step of the dashboard that starts nothing for the event.
LEMMA DeskSpoken ==
    ASSUME Sizes, Voices, Voices', RowsKept, UNCHANGED worker,
           NEW e \in Events \ removed', NEW u \in Users, SpokenOf(e, u),
           Frozen(e, u)' \subseteq Frozen(e, u),
           \A c \in Campaigns : campaign'[c].event = e /\ Waiting(c)' => Waiting(c),
           excused' = excused,
           (heard'[e] = heard[e] /\ logged'[e] = logged[e]) \/ heard'[e][u] = 0
    PROVE  SpokenOf(e, u)'
<1>1. \A c : Runners(c)' = Runners(c)
  BY DEF Runners
<1>2. ASSUME NEW c \in Campaigns, c \in Open(e, u)' PROVE c \in Open(e, u)
  <2>1. /\ campaign'[c].event = e /\ campaign[c].event = e
        /\ campaign'[c].targets = campaign[c].targets /\ Reaching(c, u)'
    BY <1>2 DEF Open, RowsKept
  <2>2. Reaching(c, u)
    BY <1>1, <2>1 DEF Reaching
  <2>. QED
    BY <2>1, <2>2 DEF Open
<1>3. Open(e, u)' \subseteq Open(e, u)
  BY <1>2 DEF Open
<1>4. Told(e, u) => Told(e, u)' \/ heard'[e][u] = 0
  BY DEF Told
<1>5. heard'[e][u] <= heard[e][u] /\ excused[e][u] <= excused'[e][u]
  BY DEF Voices
<1>. QED
  BY <1>3, <1>4, <1>5, SpokenKept

\* Such a step keeps the policy.
LEMMA DeskPolicy ==
    ASSUME Sizes, Consistent, Consistent', PolicyKept, Voices', RowsKept,
           UNCHANGED <<worker, excused>>, removed \subseteq removed',
           \A r \in Requests : request'[r].pc = "create" => request'[r] = request[r],
           \A e \in Events \ removed', c \in Campaigns :
              Once(e)' /\ campaign'[c].event = e /\ Waiting(c)' => Waiting(c),
           \A e \in Events \ removed' :
              \/ heard'[e] = heard[e] /\ logged'[e] = logged[e]
              \/ \A u \in Users : heard'[e][u] = 0
    PROVE  PolicyKept'
<1>1. \A w \in Workers : JobKept(w)
  BY DEF JobKept
<1>2. AllKnown' /\ \A e \in Events \ removed' : Once(e)' => Once(e)
  BY <1>1, KnownKept DEF PolicyKept, Consistent, Typed
<1>3. ASSUME NEW e \in Events \ removed', NEW u \in Users, Policy[e] # "always", Once(e)'
      PROVE  SpokenOf(e, u)'
  <2>1. SpokenOf(e, u)
    BY <1>2, <1>3 DEF PolicyKept, Spoken
  <2>2. Frozen(e, u)' \subseteq Frozen(e, u)
    BY DEF Frozen
  <2>. QED
    BY <1>3, <2>1, <2>2, DeskSpoken DEF PolicyKept
<1>. QED
  BY <1>2, <1>3 DEF PolicyKept, Spoken

\* What a policy step starts from.
LEMMA PolicyTypes ==
    ASSUME Consistent, PolicyKept
    PROVE  /\ campaign \in [Campaigns -> Row] /\ request \in [Requests -> Handler]
           /\ worker \in [Workers -> Job]
           /\ queue \in [Campaigns -> Nat] /\ launches \in [Campaigns -> Nat]
           /\ \A c \in Campaigns : launches[c] = 0 => campaign[c].event \notin Events
           /\ heard \in [Events -> [Users -> Nat]] /\ excused \in [Events -> [Users -> Nat]]
           /\ logged \in [Events -> SUBSET Users]
BY DEF Consistent, Typed, Rows, Desk, JobRows, Counters, PolicyKept, AllKnown, EventRow, Voices

\* Handlers that read or give up, drafts, time and deletions start nothing.
LEMMA QuietPolicy ==
    ASSUME Sizes, Consistent, Consistent', PolicyKept,
           \/ \E c \in Campaigns, chosen \in {{}, Known} : CreateCampaign(c, chosen)
           \/ \E r \in Requests, c \in Campaigns : BeginExecute(r, c)
           \/ \E r \in Requests, e \in Events : BeginEvent(r, e)
           \/ \E r \in Requests : NoTargets(r) \/ EmptyEvent(r)
           \/ \E e \in Events : FallDue(e) \/ CooldownElapses(e) \/ DeleteEvent(e)
    PROVE  PolicyKept'
<1>1. /\ UNCHANGED <<worker, excused, queue, launches>> /\ removed \subseteq removed'
  BY DEF CreateCampaign, BeginExecute, BeginEvent, NoTargets, EmptyEvent,
         FallDue, CooldownElapses, DeleteEvent, events, history
<1>2. \A r \in Requests :
        \/ request'[r] = request[r]
        \/ request[r].pc # "enqueue" /\ request'[r].pc \notin {"enqueue", "create"}
  BY ReadRequests DEF CreateCampaign
<1>3. \A c \in Campaigns : Waiting(c)' => Waiting(c)
  BY <1>1, <1>2 DEF Waiting, Asking
<1>4. RowsKept
  <2>1. CASE \E c \in Campaigns, chosen \in {{}, Known} : CreateCampaign(c, chosen)
    <3>. PICK c \in Campaigns, chosen \in {{}, Known} : CreateCampaign(c, chosen)
      BY <2>1
    <3>1. /\ campaign'[c].event = campaign[c].event
          /\ \A d \in Campaigns : d # c => campaign'[d] = campaign[d]
      BY PolicyTypes DEF CreateCampaign, Row
    <3>2. campaign[c].event \notin Events
      BY PolicyTypes DEF CreateCampaign, New, Consistent, Fresh
    <3>. QED
      BY SMTT(30), <1>1, <3>1, <3>2, PolicyTypes DEF RowsKept
  <2>2. CASE \E e \in Events : DeleteEvent(e)
    <3>. PICK e \in Events : DeleteEvent(e)
      BY <2>2
    <3>1. removed' = removed \cup {e}
      BY DEF DeleteEvent
    <3>2. ASSUME NEW c \in Campaigns
          PROVE  \/ campaign'[c] = campaign[c]
                 \/ campaign[c].event = e /\ campaign'[c].event = NoEvent
      <4>1. campaign'[c] = IF campaign[c].event = e
                           THEN [campaign[c] EXCEPT !.event = NoEvent] ELSE campaign[c]
        BY DEF DeleteEvent
      <4>. QED
        BY <4>1, PolicyTypes DEF Row
    <3>. QED
      BY <1>1, <3>1, <3>2, PolicyTypes DEF RowsKept, Sizes
  <2>3. CASE UNCHANGED campaign
    BY <1>1, <2>3, PolicyTypes DEF RowsKept
  <2>4. \/ \E c \in Campaigns, chosen \in {{}, Known} : CreateCampaign(c, chosen)
        \/ \E e \in Events : DeleteEvent(e)
        \/ UNCHANGED campaign
    BY DEF BeginExecute, BeginEvent, NoTargets, EmptyEvent, FallDue, CooldownElapses
  <2>. QED
    BY <2>1, <2>2, <2>3, <2>4
<1>5. /\ Voices'
      /\ \A e \in Events \ removed' :
           \/ heard'[e] = heard[e] /\ logged'[e] = logged[e]
           \/ \A u \in Users : heard'[e][u] = 0
  <2>1. CASE \E e \in Events : CooldownElapses(e)
    <3>. PICK e \in Events : CooldownElapses(e)
      BY <2>1
    <3>. PICK z : z = [u \in Users |-> 0]
      OBVIOUS
    <3>1. z \in [Users -> Nat] /\ \A u \in Users : z[u] = 0
      OBVIOUS
    <3>2. heard' = [heard EXCEPT ![e] = z] /\ logged' = [logged EXCEPT ![e] = {}]
      BY DEF CooldownElapses
    <3>. QED
      BY <1>1, <3>1, <3>2, PolicyTypes DEF Voices
  <2>2. CASE \E e \in Events : DeleteEvent(e)
    <3>. PICK e \in Events : DeleteEvent(e)
      BY <2>2
    <3>1. /\ removed' = removed \cup {e} /\ logged' = [logged EXCEPT ![e] = {}]
          /\ heard' = heard
      BY DEF DeleteEvent, history
    <3>. QED
      BY <1>1, <3>1, PolicyTypes DEF Voices
  <2>3. CASE UNCHANGED <<heard, logged>>
    BY <1>1, <2>3, PolicyTypes DEF Voices
  <2>4. \/ \E e \in Events : CooldownElapses(e) \/ DeleteEvent(e)
        \/ UNCHANGED <<heard, logged>>
    BY DEF CreateCampaign, BeginExecute, BeginEvent, NoTargets, EmptyEvent, FallDue, events, history
  <2>. QED
    BY <2>1, <2>2, <2>3, <2>4
<1>. QED
  BY <1>1, <1>2, <1>3, <1>4, <1>5, DeskPolicy

\* A campaign of an event that is launched again is beyond the promise; any other is not
\* one of an event.
LEMMA LaunchPolicy ==
    ASSUME Sizes, Consistent, Consistent', PolicyKept, NEW r \in Requests,
           \/ QueueCampaign(r)
           \/ \E c \in Campaigns : LaunchCampaign(r, c, Segment)
    PROVE  PolicyKept'
<1>1. /\ UNCHANGED <<worker, queue, excused, heard, logged, removed>>
  BY DEF QueueCampaign, LaunchCampaign, events, history
<1>2. PICK c \in Campaigns :
        /\ launches' = [launches EXCEPT ![c] = launches[c] + 1]
        /\ campaign'[c].event = campaign[c].event
        /\ launches[c] = 0 \/ campaign'[c].targets = campaign[c].targets
        /\ \A d \in Campaigns : d # c => campaign'[d] = campaign[d]
        /\ request'[r].pc = "enqueue" /\ request'[r].campaign = c
        /\ \A q \in Requests : q # r => request'[q] = request[q]
  <2>1. CASE QueueCampaign(r)
    <3>. PICK c : c = request[r].campaign
      OBVIOUS
    <3>1. request[r] \in Handler /\ request[r].pc = "queue" /\ c \in Campaigns
      BY <2>1, RequestOf DEF Consistent, Typed, Desk, QueueCampaign
    <3>. PICK y : y = [campaign[c] EXCEPT !.status = "queued"]
      OBVIOUS
    <3>. PICK x : x = [request[r] EXCEPT !.pc = "enqueue"]
      OBVIOUS
    <3>2. /\ y.event = campaign[c].event /\ y.targets = campaign[c].targets
          /\ x.pc = "enqueue" /\ x.campaign = c
      BY <3>1, PolicyTypes DEF Row, Handler
    <3>3. /\ campaign' = [campaign EXCEPT ![c] = y] /\ request' = [request EXCEPT ![r] = x]
          /\ launches' = [launches EXCEPT ![c] = launches[c] + 1]
      BY <2>1 DEF QueueCampaign
    <3>. QED
      BY <3>1, <3>2, <3>3, PolicyTypes
  <2>2. CASE \E c \in Campaigns : LaunchCampaign(r, c, Segment)
    <3>. PICK c \in Campaigns : LaunchCampaign(r, c, Segment)
      BY <2>2
    <3>. DEFINE y == [campaign[c] EXCEPT !.status = "queued", !.targets = Segment,
                                         !.total = Cardinality(Segment)]
                x == [NoRequest EXCEPT !.pc = "enqueue", !.campaign = c]
    <3>1. y.event = campaign[c].event /\ x.pc = "enqueue" /\ x.campaign = c
      BY PolicyTypes DEF Row, NoRequest
    <3>2. campaign' = [campaign EXCEPT ![c] = y] /\ request' = [request EXCEPT ![r] = x]
      BY ZenonT(30) DEF LaunchCampaign
    <3>3. launches' = [launches EXCEPT ![c] = 1] /\ launches[c] = 0
      BY DEF LaunchCampaign, New, Consistent, Fresh
    <3>. HIDE DEF x, y
    <3>4. /\ campaign'[c] = y /\ request'[r] = x
          /\ \A d \in Campaigns : d # c => campaign'[d] = campaign[d]
          /\ \A q \in Requests : q # r => request'[q] = request[q]
      BY <3>2, PolicyTypes
    <3>5. launches' = [launches EXCEPT ![c] = launches[c] + 1]
      BY <3>3
    <3>. QED
      BY <3>1, <3>3, <3>4, <3>5
  <2>. QED
    BY <2>1, <2>2
<1>3. /\ launches[c] \in Nat /\ launches'[c] = launches[c] + 1
      /\ \A d \in Campaigns : d # c => launches'[d] = launches[d]
  BY <1>2, PolicyTypes
<1>4. RowsKept
  BY <1>2, <1>3, PolicyTypes DEF RowsKept
<1>5. \A d \in Campaigns : d # c /\ Waiting(d)' => Waiting(d)
  BY <1>1, <1>2 DEF Waiting, Asking
<1>6. \A e \in Events : Once(e)' => campaign'[c].event # e
  <2>1. SUFFICES ASSUME NEW e \in Events, Once(e)', campaign'[c].event = e PROVE FALSE
    OBVIOUS
  <2>2. launches'[c] = 1
    BY <2>1 DEF Once
  <2>3. launches[c] = 0
    BY <1>3, <2>2
  <2>. QED
    BY <1>2, <2>1, <2>3, PolicyTypes
<1>7. Voices'
  BY <1>1 DEF Voices, PolicyKept
<1>. QED
  BY <1>1, <1>2, <1>4, <1>5, <1>6, <1>7, DeskPolicy

\* The job is put into the queue, or lost.
LEMMA EnqueuePolicy ==
    ASSUME Sizes, Consistent, Consistent', PolicyKept, NEW r \in Requests, Enqueue(r)
    PROVE  PolicyKept'
<1>1. /\ UNCHANGED <<campaign, worker, launches, excused, heard, logged, removed>>
      /\ request[r].pc = "enqueue" /\ request' = [request EXCEPT ![r] = NoRequest]
      /\ \/ queue' = [queue EXCEPT ![request[r].campaign] = @ + 1]
         \/ queue' = queue
  BY DEF Enqueue, events, history
<1>2. request'[r].pc = "idle" /\ \A q \in Requests : q # r => request'[q] = request[q]
  BY <1>1, PolicyTypes DEF NoRequest
<1>3. \A c \in Campaigns : c # request[r].campaign => queue'[c] = queue[c]
  BY <1>1, PolicyTypes
<1>4. ASSUME NEW c \in Campaigns, Waiting(c)' PROVE Waiting(c)
  <2>1. CASE c = request[r].campaign
    BY <1>1, <2>1 DEF Waiting, Asking
  <2>2. CASE c # request[r].campaign
    BY <1>2, <1>3, <1>4, <2>2 DEF Waiting, Asking
  <2>. QED
    BY <2>1, <2>2
<1>5. RowsKept
  BY <1>1, PolicyTypes DEF RowsKept
<1>6. Voices'
  BY <1>1 DEF Voices, PolicyKept
<1>. QED
  BY <1>1, <1>2, <1>4, <1>5, <1>6, DeskPolicy

\* Whom no unfinished campaign of the event still has to reach has heard as often as the
\* rows of the event say.
LEMMA NotPending ==
    ASSUME Consistent, PolicyKept, NEW e \in Events \ removed, NEW u \in Users,
           u \notin logged[e], u \notin Pending(e)
    PROVE  Frozen(e, u) = {} /\ Open(e, u) = {} /\ ~Told(e, u)
<1>1. Frozen(e, u) = {}
  BY DEF Frozen, Pending
<1>2. Open(e, u) = {}
  <2>1. SUFFICES ASSUME NEW c \in Open(e, u) PROVE FALSE
    OBVIOUS
  <2>2. c \in Campaigns /\ campaign[c].event = e /\ Reaching(c, u)
    BY DEF Open
  <2>. QED
    BY <2>2 DEF Reaching, Waiting, Asking, Runners, Pending
<1>3. ~Told(e, u)
  <2>1. SUFFICES ASSUME NEW w \in Workers, worker[w].pc = "log", worker[w].event = e,
                        worker[w].user = u
                 PROVE  FALSE
    BY DEF Told
  <2>2. worker[w].campaign \in Campaigns
    BY <2>1, JobOf DEF Consistent, Typed
  <2>3. campaign[worker[w].campaign].event = e
    BY <2>1 DEF PolicyKept, AllKnown, OwnEvent
  <2>. QED
    BY <2>1, <2>2, <2>3 DEF Pending
<1>. QED
  BY <1>1, <1>2, <1>3

\* The recipients of an event are read: a second message to somebody is excused if the
\* first is still to come.
LEMMA ScanPolicy ==
    ASSUME Sizes, Consistent, Consistent', PolicyKept, NEW r \in Requests, ScanEvent(r)
    PROVE  PolicyKept'
<1>. PICK e0 : e0 = request[r].event
  OBVIOUS
<1>. PICK x : x = [request[r] EXCEPT !.pc = "create", !.targets = Allowed(e0)]
  OBVIOUS
<1>. PICK z : z = [u \in Users |-> excused[e0][u]
                      + (IF u \in Allowed(e0) \cap Pending(e0) THEN 1 ELSE 0)]
  OBVIOUS
<1>1. /\ UNCHANGED <<campaign, queue, worker, logged, removed, heard, launches>>
      /\ request[r].pc = "event" /\ request' = [request EXCEPT ![r] = x]
      /\ excused' = [excused EXCEPT ![e0] = z]
  BY DEF ScanEvent, events
<1>2. x.pc = "create" /\ x.event = e0 /\ x.targets = Allowed(e0)
  BY PolicyTypes DEF Handler
<1>3. request'[r] = x /\ \A q \in Requests : q # r => request'[q] = request[q]
  BY <1>1, PolicyTypes
<1>4. ASSUME NEW e \in Events, NEW u \in Users
      PROVE  /\ excused'[e][u] =
                  IF e = e0 /\ u \in Allowed(e0) \cap Pending(e0)
                  THEN excused[e][u] + 1 ELSE excused[e][u]
             /\ excused[e][u] \in Nat /\ excused'[e][u] \in Nat
  <2>1. excused[e][u] \in Nat
    BY PolicyTypes
  <2>2. CASE e = e0
    <3>1. excused'[e][u] = z[u]
      BY <1>1, <2>2, PolicyTypes
    <3>2. z[u] = IF u \in Allowed(e0) \cap Pending(e0) THEN excused[e][u] + 1 ELSE excused[e][u]
      BY <2>1, <2>2
    <3>. QED
      BY <2>1, <2>2, <3>1, <3>2
  <2>3. CASE e # e0
    BY <1>1, <2>1, <2>3, PolicyTypes
  <2>. QED
    BY <2>2, <2>3
<1>5. Voices'
  <2>1. e0 \in Events => z \in [Users -> Nat]
    BY PolicyTypes
  <2>. QED
    BY <1>1, <2>1, PolicyTypes DEF Voices
<1>6. AllKnown' /\ \A e \in Events \ removed' : Once(e)' => Once(e)
  <2>1. RowsKept /\ \A w \in Workers : JobKept(w)
    BY <1>1, PolicyTypes DEF RowsKept, JobKept
  <2>. QED
    BY <1>1, <2>1, KnownKept DEF PolicyKept, Consistent, Typed
<1>7. \A c : Asking(c)' = Asking(c) /\ Runners(c)' = Runners(c)
  BY <1>1, <1>2, <1>3 DEF Asking, Runners
<1>8. ASSUME NEW e \in Events \ removed', NEW u \in Users, Policy[e] # "always", Once(e)'
      PROVE  SpokenOf(e, u)'
  <2>1. SpokenOf(e, u) /\ e \in Events \ removed
    BY <1>1, <1>6, <1>8 DEF PolicyKept, Spoken
  <2>2. Open(e, u)' = Open(e, u)
    BY <1>1, <1>7 DEF Open, Reaching, Waiting
  <2>3. Told(e, u)' <=> Told(e, u)
    BY <1>1 DEF Told
  <2>4. CASE ~(e = e0 /\ u \in Allowed(e0))
    <3>1. Frozen(e, u)' \subseteq Frozen(e, u)
      BY <1>2, <1>3, <2>4 DEF Frozen
    <3>2. heard'[e][u] <= heard[e][u] /\ excused[e][u] <= excused'[e][u]
      BY <1>1, <1>4, <2>4, PolicyTypes
    <3>. QED
      BY <1>5, <2>1, <2>2, <2>3, <3>1, <3>2, SpokenKept DEF PolicyKept
  <2>5. CASE e = e0 /\ u \in Allowed(e0)
    <3>1. Frozen(e, u)' = Frozen(e, u) \cup {r} /\ r \notin Frozen(e, u)
      <4>1. u \in x.targets /\ x.event = e
        BY <1>2, <2>5
      <4>2. \A q \in Requests :
              q \in Frozen(e, u)' <=> q = r \/ q \in Frozen(e, u)
        BY <1>1, <1>2, <1>3, <4>1 DEF Frozen
      <4>3. Frozen(e, u)' \subseteq Requests /\ Frozen(e, u) \subseteq Requests
        BY DEF Frozen
      <4>4. r \notin Frozen(e, u)
        BY <1>1 DEF Frozen
      <4>. QED
        BY <4>2, <4>3, <4>4
    <3>2. Cardinality(Frozen(e, u)') = Cardinality(Frozen(e, u)) + 1
      BY <3>1, SpokenCounts, FS_AddElement
    <3>3. /\ Cardinality(Frozen(e, u)) \in Nat /\ Cardinality(Open(e, u)) \in Nat
          /\ heard[e][u] \in Nat /\ heard' = heard
      BY <1>1, SpokenCounts, PolicyTypes
    <3>4. Slack(e, u)' = 1 /\ Slack(e, u) \in {0, 1}
      BY <3>1 DEF Slack
    <3>5. heard[e][u] + Cardinality(Frozen(e, u)) + Cardinality(Open(e, u))
              <= excused[e][u] + Slack(e, u)
      BY <2>1 DEF SpokenOf
    <3>6. excused[e][u] + Slack(e, u) + 1 <= excused'[e][u] + 1
      <4>1. CASE u \in Pending(e)
        BY <1>4, <2>5, <3>4, <4>1
      <4>2. CASE u \notin Pending(e)
        <5>1. u \notin logged[e]
          BY <1>8, <2>5 DEF Allowed
        <5>2. Slack(e, u) = 0
          BY <2>1, <4>2, <5>1, NotPending DEF Slack
        <5>. QED
          BY <1>4, <2>5, <4>2, <5>2
      <4>. QED
        BY <4>1, <4>2
    <3>7. heard'[e][u] + Cardinality(Frozen(e, u)') + Cardinality(Open(e, u)')
              <= excused'[e][u] + Slack(e, u)'
      BY <1>4, <2>2, <3>2, <3>3, <3>4, <3>5, <3>6
    <3>. QED
      BY <3>7 DEF SpokenOf
  <2>. QED
    BY <2>4, <2>5
<1>. QED
  BY <1>5, <1>6, <1>8 DEF PolicyKept, Spoken

\* An event becomes a campaign: whoever was about to be frozen now is.
LEMMA CreateEventPolicy ==
    ASSUME Sizes, Consistent, Consistent', AllSteady, PolicyKept, NEW r \in Requests,
           NEW c \in Campaigns, CreateEventCampaign(r, c)
    PROVE  PolicyKept'
<1>. PICK e0 : e0 = request[r].event
  OBVIOUS
<1>. PICK x : x = [NoRequest EXCEPT !.pc = "enqueue", !.campaign = c]
  OBVIOUS
<1>. PICK y : y = [Blank EXCEPT !.status = "queued", !.event = e0, !.targets = request[r].targets,
                                !.total = Cardinality(request[r].targets)]
  OBVIOUS
<1>1. /\ UNCHANGED <<queue, worker, logged, removed, heard, excused>>
      /\ request[r].pc = "create" /\ request[r].targets # {} /\ e0 \notin removed
      /\ request' = [request EXCEPT ![r] = x] /\ campaign' = [campaign EXCEPT ![c] = y]
      /\ launches' = [launches EXCEPT ![c] = 1] /\ launches[c] = 0
  BY DEF CreateEventCampaign, New, Consistent, Fresh, history
<1>2. /\ x.pc = "enqueue" /\ x.campaign = c
      /\ y.event = e0 /\ y.targets = request[r].targets
  BY DEF NoRequest, Blank
<1>3. /\ request'[r] = x /\ \A q \in Requests : q # r => request'[q] = request[q]
      /\ campaign'[c] = y /\ \A d \in Campaigns : d # c => campaign'[d] = campaign[d]
      /\ launches'[c] = 1 /\ \A d \in Campaigns : d # c => launches'[d] = launches[d]
  BY <1>1, PolicyTypes
<1>4. /\ campaign[c].event \notin Events /\ Runners(c) = {} /\ Asking(c) = {} /\ queue[c] = 0
      /\ \A d : Runners(d)' = Runners(d)
      /\ \A d : d # c => Asking(d)' = Asking(d)
      /\ r \in Asking(c)'
  BY <1>1, <1>2, <1>3, PolicyTypes, NotLaunched DEF Runners, Asking
<1>5. Voices'
  BY <1>1 DEF PolicyKept, Voices
<1>6. AllKnown'
  <2>1. ASSUME NEW d \in Campaigns PROVE EventRow(d)'
    BY <1>1, <1>2, <1>3 DEF EventRow, PolicyKept, AllKnown
  <2>2. ASSUME NEW w \in Workers PROVE OwnEvent(worker[w])'
    <3>1. worker[w].campaign # c
      BY <1>4 DEF Runners
    <3>2. worker[w].pc # "idle" => worker[w].campaign \in Campaigns
      BY JobOf DEF Consistent, Typed
    <3>. QED
      BY <1>1, <1>3, <3>1, <3>2 DEF OwnEvent, PolicyKept, AllKnown
  <2>. QED
    BY <2>1, <2>2 DEF AllKnown
<1>7. ASSUME NEW e \in Events \ removed', NEW u \in Users, Policy[e] # "always", Once(e)'
      PROVE  SpokenOf(e, u)'
  <2>1. Once(e)
    BY <1>3, <1>4, <1>7 DEF Once
  <2>2. SpokenOf(e, u)
    BY <1>1, <1>7, <2>1 DEF PolicyKept, Spoken
  <2>3. Told(e, u)' <=> Told(e, u)
    BY <1>1 DEF Told
  <2>4. \A d \in Campaigns : d # c => (d \in Open(e, u)' <=> d \in Open(e, u))
    BY <1>1, <1>3, <1>4 DEF Open, Reaching, Waiting
  <2>5. c \notin Open(e, u)
    BY <1>4 DEF Open
  <2>6. c \in Open(e, u)' <=> e = e0 /\ u \in request[r].targets
    BY <1>2, <1>3, <1>4 DEF Open, Reaching, Waiting
  <2>7. /\ Open(e, u) \subseteq Campaigns /\ Open(e, u)' \subseteq Campaigns
        /\ Frozen(e, u) \subseteq Requests /\ Frozen(e, u)' \subseteq Requests
    BY DEF Open, Frozen
  <2>8. \A q \in Requests : q \in Frozen(e, u)' <=> q # r /\ q \in Frozen(e, u)
    BY <1>2, <1>3 DEF Frozen
  <2>9. CASE ~(e = e0 /\ u \in request[r].targets)
    <3>1. Open(e, u)' \subseteq Open(e, u) /\ Frozen(e, u)' \subseteq Frozen(e, u)
      BY <2>4, <2>6, <2>7, <2>8, <2>9
    <3>2. heard'[e][u] <= heard[e][u] /\ excused[e][u] <= excused'[e][u]
      BY <1>1, PolicyTypes
    <3>. QED
      BY <1>5, <2>2, <2>3, <3>1, <3>2, SpokenKept DEF PolicyKept
  <2>10. CASE e = e0 /\ u \in request[r].targets
    <3>1. r \in Frozen(e, u) /\ Frozen(e, u)' = Frozen(e, u) \ {r}
      <4>1. r \in Frozen(e, u)
        BY <1>1, <2>10 DEF Frozen
      <4>. QED
        BY <2>7, <2>8, <4>1
    <3>2. Open(e, u)' = Open(e, u) \cup {c}
      BY <2>4, <2>6, <2>7, <2>10
    <3>3. /\ Cardinality(Frozen(e, u)') = Cardinality(Frozen(e, u)) - 1
          /\ Cardinality(Open(e, u)') = Cardinality(Open(e, u)) + 1
      <4>1. Cardinality(Frozen(e, u)') = Cardinality(Frozen(e, u)) - 1
        BY <3>1, SpokenCounts, FS_RemoveElement
      <4>2. Cardinality(Open(e, u)') = Cardinality(Open(e, u)) + 1
        BY <2>5, <3>2, SpokenCounts, FS_AddElement
      <4>. QED
        BY <4>1, <4>2
    <3>4. Slack(e, u) = 1 /\ Slack(e, u)' = 1
      BY <3>1, <3>2 DEF Slack
    <3>5. /\ Cardinality(Frozen(e, u)) \in Nat /\ Cardinality(Open(e, u)) \in Nat
          /\ heard[e][u] \in Nat /\ excused[e][u] \in Nat /\ heard' = heard /\ excused' = excused
      BY <1>1, SpokenCounts, PolicyTypes
    <3>6. heard[e][u] + Cardinality(Frozen(e, u)) + Cardinality(Open(e, u))
              <= excused[e][u] + Slack(e, u)
      BY <2>2 DEF SpokenOf
    <3>7. heard'[e][u] + Cardinality(Frozen(e, u)') + Cardinality(Open(e, u)')
              <= excused'[e][u] + Slack(e, u)'
      BY <3>3, <3>4, <3>5, <3>6
    <3>. QED
      BY <3>7 DEF SpokenOf
  <2>. QED
    BY <2>9, <2>10
<1>. QED
  BY <1>5, <1>6, <1>7 DEF PolicyKept, Spoken

\* A step of a job that tells nobody anything, or of one that stops, keeps the policy.
LEMMA JobPolicy ==
    ASSUME Sizes, Consistent, Consistent', PolicyKept, Voices', RowsKept,
           UNCHANGED <<request, removed, heard>>,
           NEW w \in Workers, NEW x \in Job, worker' = [worker EXCEPT ![w] = x],
           JobKept(w) \/ OwnEvent(x)',
           \A c \in Campaigns : queue'[c] = queue[c] \/ queue[c] > 0,
           \A c \in Campaigns, u \in Users :
              /\ x.campaign = c /\ campaign'[c].event \in Events
              /\ u \in x.todo \/ (x.pc = "send" /\ x.user = u)
              => Reaching(c, u),
           \A e \in Events, u \in Users :
              /\ excused[e][u] <= excused'[e][u] /\ logged[e] \subseteq logged'[e]
              /\ worker[w].pc = "log" /\ worker[w].event = e /\ worker[w].user = u
                   => u \in logged'[e] \/ excused'[e][u] = excused[e][u] + 1
    PROVE  PolicyKept'
<1>1. worker'[w] = x /\ \A v \in Workers : v # w => worker'[v] = worker[v]
  BY PolicyTypes
<1>2. \A v \in Workers : JobKept(v) \/ OwnEvent(worker[v])'
  <2>1. \A v \in Workers : v # w => JobKept(v)
    BY <1>1 DEF JobKept
  <2>2. OwnEvent(x)' => OwnEvent(worker[w])'
    BY <1>1 DEF OwnEvent
  <2>. QED
    BY <2>1, <2>2
<1>3. AllKnown' /\ \A e \in Events \ removed' : Once(e)' => Once(e)
  BY <1>2, KnownKept DEF PolicyKept, Consistent, Typed
<1>4. ASSUME NEW e \in Events \ removed', NEW u \in Users, Policy[e] # "always", Once(e)'
      PROVE  SpokenOf(e, u)'
  <2>1. SpokenOf(e, u)
    BY <1>3, <1>4 DEF PolicyKept, Spoken
  <2>2. Frozen(e, u)' = Frozen(e, u) /\ \A c : Asking(c)' = Asking(c)
    BY DEF Frozen, Asking
  <2>3. ASSUME NEW c \in Campaigns, c \in Open(e, u)' PROVE c \in Open(e, u)
    <3>1. /\ campaign'[c].event = e /\ campaign[c].event = e
          /\ campaign'[c].targets = campaign[c].targets /\ Reaching(c, u)'
      BY <2>3 DEF Open, RowsKept
    <3>2. Waiting(c)' => Waiting(c)
      BY <2>2 DEF Waiting
    <3>3. ASSUME NEW v \in Runners(c)',
                 u \in worker'[v].todo \/ (worker'[v].pc = "send" /\ worker'[v].user = u)
          PROVE  Reaching(c, u)
      <4>1. v \in Workers /\ worker'[v].campaign = c
        BY DEF Runners
      <4>2. CASE v = w
        BY <1>1, <3>1, <3>3, <4>1, <4>2
      <4>3. CASE v # w
        BY <1>1, <3>3, <4>1, <4>3 DEF Reaching, Runners
      <4>. QED
        BY <4>2, <4>3
    <3>4. Reaching(c, u)
      BY <3>1, <3>2, <3>3 DEF Reaching
    <3>. QED
      BY <3>1, <3>4 DEF Open
  <2>4. Open(e, u)' \subseteq Open(e, u)
    BY <2>3 DEF Open
  <2>5. Told(e, u) => Told(e, u)' \/ excused'[e][u] = excused[e][u] + 1
    BY <1>1 DEF Told
  <2>6. heard'[e][u] <= heard[e][u] /\ excused[e][u] <= excused'[e][u]
    BY PolicyTypes
  <2>. QED
    BY <2>1, <2>2, <2>4, <2>5, <2>6, SpokenKept DEF PolicyKept
<1>. QED
  BY <1>3, <1>4 DEF PolicyKept, Spoken

\* A job leaves events and recipients of the campaigns alone.
LEMMA RowsSame ==
    ASSUME UNCHANGED launches, Consistent,
           \A c \in Campaigns : /\ campaign'[c].event = campaign[c].event
                                /\ campaign'[c].targets = campaign[c].targets
    PROVE  RowsKept
BY DEF RowsKept, Consistent, Typed, Counters

\* A job leaves the queue with the list its campaign has frozen.
LEMMA StartPolicy ==
    ASSUME Sizes, Consistent, Consistent', PolicyKept, NEW w \in Workers, NEW c \in Campaigns,
           StartJob(w, c)
    PROVE  PolicyKept'
<1>1. /\ worker[w].pc = "idle" /\ queue[c] > 0
      /\ queue' = [queue EXCEPT ![c] = queue[c] - 1]
      /\ UNCHANGED <<campaign, request, launches, removed, logged, heard, excused>>
  BY DEF StartJob, events, history
<1>2. \A d \in Campaigns : queue'[d] = queue[d] \/ queue[d] > 0
  BY <1>1, PolicyTypes
<1>3. PICK x \in Job :
        /\ worker' = [worker EXCEPT ![w] = x] /\ x.pc \in {"idle", "mark"}
        /\ \A d \in Campaigns : x.campaign = d /\ campaign[d].event \in Events =>
             d = c /\ x.todo = campaign[c].targets
  <2>1. CASE campaign[c].status \in {"queued", "running"}
    <3>1. PICK T : /\ T \in IF campaign[c].targets # {} THEN {campaign[c].targets}
                                                      ELSE {Segment, {}}
                   /\ worker' = [worker EXCEPT ![w] =
                        [NoJob EXCEPT !.pc = "mark", !.campaign = c, !.todo = T,
                                      !.seen = campaign[c].status]]
      BY <2>1 DEF StartJob
    <3>. DEFINE x == [NoJob EXCEPT !.pc = "mark", !.campaign = c, !.todo = T,
                                   !.seen = campaign[c].status]
    <3>2. T \subseteq Users /\ campaign[c].status \in Statuses
      BY <3>1, PolicyTypes DEF Row, Sizes
    <3>3. x \in Job /\ x.pc = "mark" /\ x.campaign = c /\ x.todo = T
      BY <3>2 DEF NoJob, Job
    <3>4. worker' = [worker EXCEPT ![w] = x]
      BY <3>1
    <3>5. campaign[c].event \in Events => T = campaign[c].targets
      BY <3>1 DEF PolicyKept, AllKnown, EventRow
    <3>. HIDE DEF x
    <3>. QED
      BY <3>3, <3>4, <3>5
  <2>2. CASE campaign[c].status \notin {"queued", "running"}
    <3>1. worker' = worker
      BY <2>2 DEF StartJob
    <3>2. worker' = [worker EXCEPT ![w] = worker[w]] /\ worker[w] \in Job
      BY <3>1, PolicyTypes
    <3>3. worker[w].campaign \notin Campaigns
      BY <1>1, JobOf DEF Consistent, Typed
    <3>. QED
      BY <1>1, <3>2, <3>3
  <2>. QED
    BY <2>1, <2>2
<1>4. Waiting(c)
  BY <1>1 DEF Waiting
<1>5. \A d \in Campaigns, u \in Users :
        /\ x.campaign = d /\ campaign'[d].event \in Events
        /\ u \in x.todo \/ (x.pc = "send" /\ x.user = u)
        => Reaching(d, u)
  BY <1>1, <1>3, <1>4 DEF Reaching
<1>6. OwnEvent(x)'
  BY <1>3 DEF OwnEvent
<1>7. RowsKept
  BY <1>1, RowsSame
<1>8. Voices'
  BY <1>1 DEF PolicyKept, Voices
<1>9. \A e \in Events, u \in Users :
        excused[e][u] <= excused'[e][u] /\ logged[e] \subseteq logged'[e]
  BY <1>1, PolicyTypes
<1>. QED
  BY <1>1, <1>2, <1>3, <1>5, <1>6, <1>7, <1>8, <1>9, JobPolicy

\* The list is the job's own from the start; it takes the event from the row.
LEMMA MarkPolicy ==
    ASSUME Sizes, Consistent, Consistent', PolicyKept, NEW w \in Workers, MarkRunning(w)
    PROVE  PolicyKept'
<1>1. worker[w] \in Job /\ worker[w].pc = "mark" /\ worker[w].campaign \in Campaigns
  BY JobOf DEF Consistent, Typed, MarkRunning
<1>. PICK c \in Campaigns : c = worker[w].campaign
  BY <1>1
<1>2. UNCHANGED <<queue, request, launches, removed, logged, heard, excused>>
  BY DEF MarkRunning, events, history
<1>3. PICK x \in Job :
        /\ worker' = [worker EXCEPT ![w] = x]
        /\ \/ x.pc = "next" /\ x.campaign = c /\ x.todo = worker[w].todo
              /\ x.event = campaign[c].event
           \/ x = NoJob
  <2>. DEFINE x == [worker[w] EXCEPT !.pc = "next", !.event = campaign[c].event]
  <2>1. /\ x \in Job /\ x.pc = "next" /\ x.campaign = c /\ x.todo = worker[w].todo
        /\ x.event = campaign[c].event
    BY <1>1, PolicyTypes DEF Job, Row
  <2>2. worker' = [worker EXCEPT ![w] = x] \/ worker' = [worker EXCEPT ![w] = NoJob]
    BY DEF MarkRunning
  <2>3. NoJob \in Job
    BY DEF NoJob, Job, Statuses
  <2>. HIDE DEF x
  <2>. QED
    BY <2>1, <2>2, <2>3
<1>4. \A d \in Campaigns : /\ campaign'[d].event = campaign[d].event
                           /\ campaign'[d].targets = campaign[d].targets
  <2>. DEFINE y == [campaign[c] EXCEPT
                      !.status = IF worker[w].seen = "running" THEN @ ELSE "running",
                      !.total = Cardinality(worker[w].todo)]
              z == [campaign[c] EXCEPT !.status = "failed"]
  <2>1. /\ y.event = campaign[c].event /\ y.targets = campaign[c].targets
        /\ z.event = campaign[c].event /\ z.targets = campaign[c].targets
    BY PolicyTypes DEF Row
  <2>2. campaign' = [campaign EXCEPT ![c] = y] \/ campaign' = [campaign EXCEPT ![c] = z]
    BY DEF MarkRunning
  <2>. HIDE DEF y, z
  <2>. QED
    BY <2>1, <2>2, PolicyTypes
<1>5. RowsKept
  BY <1>2, <1>4, RowsSame
<1>6. OwnEvent(x)'
  BY <1>3, <1>4 DEF OwnEvent, NoJob
<1>7. \A d \in Campaigns, u \in Users :
        /\ x.campaign = d /\ campaign'[d].event \in Events
        /\ u \in x.todo \/ (x.pc = "send" /\ x.user = u)
        => Reaching(d, u)
  <2>1. w \in Runners(c)
    BY DEF Runners
  <2>. QED
    BY <1>3, <2>1 DEF Reaching, NoJob
<1>8. Voices'
  BY <1>2 DEF PolicyKept, Voices
<1>9. \A e \in Events, u \in Users :
        excused[e][u] <= excused'[e][u] /\ logged[e] \subseteq logged'[e]
  BY <1>2, PolicyTypes
<1>. QED
  BY <1>1, <1>2, <1>3, <1>5, <1>6, <1>7, <1>8, <1>9, JobPolicy

\* A job goes on with its event and its list, and tells nobody.
LEMMA GoesOnPolicy ==
    ASSUME Sizes, Consistent, Consistent', PolicyKept, NEW w \in Workers, NEW x \in Job,
           worker[w].pc \notin {"idle", "mark"}, worker' = [worker EXCEPT ![w] = x],
           x.event = worker[w].event, x.campaign = worker[w].campaign,
           \A u \in Users : u \in x.todo \/ (x.pc = "send" /\ x.user = u)
              => u \in worker[w].todo \/ (worker[w].pc = "send" /\ worker[w].user = u),
           UNCHANGED <<queue, request, launches, removed, heard, excused>>,
           \A c \in Campaigns : /\ campaign'[c].event = campaign[c].event
                                /\ campaign'[c].targets = campaign[c].targets,
           logged' \in [Events -> SUBSET Users],
           \A e \in Events : logged[e] \subseteq logged'[e],
           worker[w].pc = "log" /\ worker[w].event \in Events
              => worker[w].user \in logged'[worker[w].event]
    PROVE  PolicyKept'
<1>1. worker'[w] = x
  BY PolicyTypes
<1>2. JobKept(w)
  BY <1>1 DEF JobKept
<1>3. \A c \in Campaigns, u \in Users :
        /\ x.campaign = c /\ campaign'[c].event \in Events
        /\ u \in x.todo \/ (x.pc = "send" /\ x.user = u)
        => Reaching(c, u)
  BY DEF Reaching, Runners
<1>4. RowsKept
  BY RowsSame
<1>5. Voices'
  BY DEF PolicyKept, Voices
<1>6. \A e \in Events, u \in Users :
        /\ excused[e][u] <= excused'[e][u] /\ logged[e] \subseteq logged'[e]
        /\ worker[w].pc = "log" /\ worker[w].event = e /\ worker[w].user = u
             => u \in logged'[e] \/ excused'[e][u] = excused[e][u] + 1
  BY PolicyTypes
<1>. QED
  BY <1>2, <1>3, <1>4, <1>5, <1>6, JobPolicy

\* A user is taken from the list, his row is written.
LEMMA ListPolicy ==
    ASSUME Sizes, Consistent, Consistent', AllSteady, PolicyKept, NEW w \in Workers,
           (\E u \in Users : NextUser(w, u)) \/ LogEvent(w) \/ AddDelivery(w)
    PROVE  PolicyKept'
<1>1. worker[w] \in Job /\ worker[w].pc \notin {"idle", "mark"} /\ worker[w].campaign \in Campaigns
  BY JobOf DEF Consistent, Typed, NextUser, LogEvent, AddDelivery
<1>2. UNCHANGED <<queue, request, launches, removed, heard, excused>>
  BY DEF NextUser, LogEvent, AddDelivery, events, history
<1>3. CASE \E u \in Users : NextUser(w, u)
  <2>. PICK u \in Users : NextUser(w, u)
    BY <1>3
  <2>. DEFINE x == [worker[w] EXCEPT !.todo = @ \ {u}, !.failed = @ + 1]
              y == [worker[w] EXCEPT !.pc = "send", !.user = u, !.todo = @ \ {u}]
  <2>1. /\ worker[w].pc = "next" /\ u \in worker[w].todo
        /\ UNCHANGED <<campaign, logged>>
        /\ worker' = [worker EXCEPT ![w] = x] \/ worker' = [worker EXCEPT ![w] = y]
    BY DEF NextUser, events
  <2>2. worker[w].failed + 1 \in Nat /\ worker[w].todo \ {u} \in SUBSET Users
    BY <1>1 DEF Job
  <2>3. /\ x \in Job /\ x.event = worker[w].event /\ x.campaign = worker[w].campaign
        /\ x.todo = worker[w].todo \ {u} /\ x.pc = worker[w].pc
        /\ y \in Job /\ y.event = worker[w].event /\ y.campaign = worker[w].campaign
        /\ y.todo = worker[w].todo \ {u} /\ y.user = u
    BY <1>1, <2>2 DEF Job
  <2>. HIDE DEF x, y
  <2>4. logged' \in [Events -> SUBSET Users] /\ \A e \in Events : logged[e] \subseteq logged'[e]
    BY <2>1, PolicyTypes
  <2>5. PICK z \in {x, y} : worker' = [worker EXCEPT ![w] = z]
    BY <2>1
  <2>6. /\ z \in Job /\ z.event = worker[w].event /\ z.campaign = worker[w].campaign
        /\ \A v \in Users : v \in z.todo \/ (z.pc = "send" /\ z.user = v)
              => v \in worker[w].todo \/ (worker[w].pc = "send" /\ worker[w].user = v)
    BY <2>1, <2>3
  <2>. QED
    BY <1>1, <1>2, <2>1, <2>4, <2>5, <2>6, GoesOnPolicy
<1>4. CASE LogEvent(w)
  <2>. DEFINE x == [worker[w] EXCEPT !.pc = "row"]
  <2>1. /\ worker[w].pc = "log" /\ campaign' = campaign
        /\ logged' = [logged EXCEPT ![worker[w].event] = @ \cup {worker[w].user}]
        /\ worker' = [worker EXCEPT ![w] = x]
    BY <1>4 DEF LogEvent
  <2>2. /\ x \in Job /\ x.event = worker[w].event /\ x.campaign = worker[w].campaign
        /\ x.todo = worker[w].todo /\ x.pc = "row"
    BY <1>1 DEF Job
  <2>. HIDE DEF x
  <2>3. worker[w].event \in Events /\ worker[w].user \in Users
    BY <2>1 DEF AllSteady, Shape
  <2>4. /\ logged' \in [Events -> SUBSET Users]
        /\ \A e \in Events : logged[e] \subseteq logged'[e]
        /\ worker[w].user \in logged'[worker[w].event]
    BY <2>1, <2>3, PolicyTypes
  <2>5. \A u \in Users : u \in x.todo \/ (x.pc = "send" /\ x.user = u)
          => u \in worker[w].todo \/ (worker[w].pc = "send" /\ worker[w].user = u)
    BY <2>2
  <2>. QED
    BY <1>1, <1>2, <2>1, <2>2, <2>4, <2>5, GoesOnPolicy
<1>5. CASE AddDelivery(w)
  <2>. DEFINE x == Counted(worker[w])
              c == worker[w].campaign
  <2>1. /\ worker[w].pc = "row" /\ Shape(worker[w]) /\ logged' = logged
        /\ worker' = [worker EXCEPT ![w] = x]
        /\ campaign' = campaign \/ campaign' = [campaign EXCEPT ![c] = Saved(campaign[c], x)]
    BY <1>5 DEF AddDelivery, AllSteady, events
  <2>2. /\ x \in Job /\ x.event = worker[w].event /\ x.campaign = worker[w].campaign
        /\ x.todo = worker[w].todo /\ x.pc = "next"
    BY <1>1, <2>1, CountedJob
  <2>. HIDE DEF x, c
  <2>3. \A d \in Campaigns : /\ Saved(campaign[d], x).event = campaign[d].event
                             /\ Saved(campaign[d], x).targets = campaign[d].targets
    BY PolicyTypes DEF Saved, Row
  <2>4. \A d \in Campaigns : /\ campaign'[d].event = campaign[d].event
                             /\ campaign'[d].targets = campaign[d].targets
    BY <2>1, <2>3, PolicyTypes
  <2>5. \A u \in Users : u \in x.todo \/ (x.pc = "send" /\ x.user = u)
          => u \in worker[w].todo \/ (worker[w].pc = "send" /\ worker[w].user = u)
    BY <2>2
  <2>6. logged' \in [Events -> SUBSET Users] /\ \A e \in Events : logged[e] \subseteq logged'[e]
    BY <2>1, PolicyTypes
  <2>. QED
    BY <1>1, <1>2, <2>1, <2>2, <2>4, <2>5, <2>6, GoesOnPolicy
<1>. QED
  BY <1>3, <1>4, <1>5

\* A user hears from the event: the campaign had still to reach him, and has now.
LEMMA HeardPolicy ==
    ASSUME Sizes, Consistent, Consistent', AllSteady, PolicyKept, NEW w \in Workers,
           NEW x \in Job, NEW c \in Campaigns, NEW e0 \in Events, NEW u0 \in Users,
           worker[w].pc = "send", worker[w].campaign = c, worker[w].event = e0,
           worker[w].user = u0, worker' = [worker EXCEPT ![w] = x],
           x.pc = "log", x.campaign = c, x.event = e0, x.user = u0, x.todo = worker[w].todo,
           heard' = [heard EXCEPT ![e0][u0] = heard[e0][u0] + 1],
           UNCHANGED <<campaign, queue, request, launches, removed, logged, excused>>
    PROVE  PolicyKept'
<1>1. worker'[w] = x /\ \A v \in Workers : v # w => worker'[v] = worker[v]
  BY PolicyTypes
<1>2. /\ heard' \in [Events -> [Users -> Nat]] /\ heard[e0][u0] \in Nat
      /\ heard'[e0][u0] = heard[e0][u0] + 1
      /\ \A e \in Events, u \in Users : e # e0 \/ u # u0 => heard'[e][u] = heard[e][u]
  <2>1. heard[e0] \in [Users -> Nat] /\ heard[e0][u0] \in Nat
    BY PolicyTypes
  <2>. PICK g : g = [heard[e0] EXCEPT ![u0] = heard[e0][u0] + 1]
    OBVIOUS
  <2>2. /\ g \in [Users -> Nat] /\ g[u0] = heard[e0][u0] + 1
        /\ \A u \in Users : u # u0 => g[u] = heard[e0][u]
    BY <2>1
  <2>3. heard' = [heard EXCEPT ![e0] = g]
    OBVIOUS
  <2>. QED
    BY <2>1, <2>2, <2>3, PolicyTypes
<1>3. Voices'
  BY <1>2 DEF PolicyKept, Voices
<1>4. AllKnown' /\ \A e \in Events \ removed' : Once(e)' => Once(e)
  <2>1. RowsKept
    BY RowsSame
  <2>2. \A v \in Workers : JobKept(v)
    BY <1>1 DEF JobKept
  <2>. QED
    BY <2>1, <2>2, KnownKept DEF PolicyKept, Consistent, Typed
<1>5. ASSUME NEW e \in Events \ removed', NEW u \in Users, Policy[e] # "always", Once(e)'
      PROVE  SpokenOf(e, u)'
  <2>1. SpokenOf(e, u) /\ Once(e)
    BY <1>4, <1>5 DEF PolicyKept, Spoken
  <2>2. Frozen(e, u)' = Frozen(e, u)
    BY DEF Frozen
  <2>3. Told(e, u) => Told(e, u)'
    BY <1>1 DEF Told
  <2>4. \A d \in Campaigns : Waiting(d)' = Waiting(d)
    BY DEF Waiting, Asking
  <2>5. \A d \in Campaigns : Runners(d)' = Runners(d)
    BY <1>1 DEF Runners
  <2>6. ASSUME NEW d \in Campaigns, d \in Open(e, u)' PROVE d \in Open(e, u)
    <3>1. campaign[d].event = e /\ Reaching(d, u)'
      BY <2>6 DEF Open
    <3>2. \A v \in Runners(d) :
             u \in worker'[v].todo \/ (worker'[v].pc = "send" /\ worker'[v].user = u)
             => u \in worker[v].todo \/ (worker[v].pc = "send" /\ worker[v].user = u)
      BY <1>1 DEF Runners
    <3>3. Reaching(d, u)
      BY <2>4, <2>5, <3>1, <3>2 DEF Reaching
    <3>. QED
      BY <3>1, <3>3 DEF Open
  <2>7. Open(e, u)' \subseteq Open(e, u)
    BY <2>6 DEF Open
  <2>8. CASE e # e0 \/ u # u0
    <3>1. heard'[e][u] <= heard[e][u] /\ excused[e][u] <= excused'[e][u]
      BY <1>2, <2>8, PolicyTypes
    <3>. QED
      BY <1>3, <2>1, <2>2, <2>3, <2>7, <3>1, SpokenKept DEF PolicyKept
  <2>9. CASE e = e0 /\ u = u0
    <3>1. campaign[c].event = e
      BY <1>5, <2>9 DEF PolicyKept, AllKnown, OwnEvent
    <3>2. c \in Open(e, u)
      BY <2>9, <3>1 DEF Open, Reaching, Runners
    <3>3. Runners(c) = {w} /\ ~Waiting(c)
      <4>1. launches[c] = 1 /\ worker[w].pc # "idle"
        BY <2>1, <3>1 DEF Once
      <4>. QED
        BY <4>1, RunnerOf DEF Waiting
    <3>4. u \notin worker[w].todo
      BY <2>9 DEF AllSteady, Shape
    <3>5. c \notin Open(e, u)'
      BY <1>1, <2>4, <2>5, <3>3, <3>4 DEF Open, Reaching
    <3>6. Cardinality(Open(e, u)') <= Cardinality(Open(e, u)) - 1
      <4>1. /\ Cardinality(Open(e, u) \ {c}) = Cardinality(Open(e, u)) - 1
            /\ IsFiniteSet(Open(e, u) \ {c})
        BY <3>2, SpokenCounts, FS_RemoveElement
      <4>2. Open(e, u)' \subseteq Open(e, u) \ {c}
        BY <2>7, <3>5
      <4>3. Cardinality(Open(e, u)') <= Cardinality(Open(e, u) \ {c})
        BY <4>1, <4>2, FS_Subset
      <4>. QED
        BY <4>1, <4>3
    <3>7. Slack(e, u)' = 1 /\ Slack(e, u) \in {0, 1}
      BY <1>1, <2>9 DEF Slack, Told
    <3>8. /\ Cardinality(Frozen(e, u)) \in Nat /\ Cardinality(Open(e, u)) \in Nat
          /\ Cardinality(Open(e, u)') \in Nat
          /\ heard[e][u] \in Nat /\ heard'[e][u] = heard[e][u] + 1
          /\ excused[e][u] \in Nat /\ excused' = excused
      BY <1>2, <2>9, SpokenCounts, PolicyTypes
    <3>9. heard[e][u] + Cardinality(Frozen(e, u)) + Cardinality(Open(e, u))
              <= excused[e][u] + Slack(e, u)
      BY <2>1 DEF SpokenOf
    <3>10. heard'[e][u] + Cardinality(Frozen(e, u)') + Cardinality(Open(e, u)')
              <= excused'[e][u] + Slack(e, u)'
      BY <2>2, <3>6, <3>7, <3>8, <3>9
    <3>. QED
      BY <3>10 DEF SpokenOf
  <2>. QED
    BY <2>8, <2>9
<1>. QED
  BY <1>3, <1>4, <1>5 DEF PolicyKept, Spoken

\* tg_send reaches the user or does not.
LEMMA SendPolicy ==
    ASSUME Sizes, Consistent, Consistent', AllSteady, PolicyKept, NEW w \in Workers, Send(w)
    PROVE  PolicyKept'
<1>. PICK e0 : e0 = worker[w].event
  OBVIOUS
<1>. PICK u0 : u0 = worker[w].user
  OBVIOUS
<1>1. /\ worker[w] \in Job /\ worker[w].pc = "send" /\ u0 \in Users
      /\ worker[w].campaign \in Campaigns /\ e0 \in Events \cup {NoEvent}
      /\ UNCHANGED <<campaign, queue, request, launches, removed, logged, excused>>
  BY JobOf DEF Consistent, Typed, Send, AllSteady, Shape, events, Job
<1>. DEFINE told == [worker[w] EXCEPT !.pc = IF e0 = NoEvent THEN "row" ELSE "log",
                                      !.outcome = "sent"]
            refused == [worker[w] EXCEPT !.pc = "row", !.outcome = "failed"]
<1>2. \A x \in {told, refused} :
        /\ x \in Job /\ x.campaign = worker[w].campaign /\ x.todo = worker[w].todo
        /\ x.user = u0 /\ x.event = e0
  BY ZenonT(30), <1>1 DEF Job
<1>3. told.pc = (IF e0 = NoEvent THEN "row" ELSE "log") /\ refused.pc = "row"
  BY <1>1 DEF Job
<1>4. \/ /\ worker' = [worker EXCEPT ![w] = told]
         /\ heard' = IF e0 = NoEvent THEN heard
                     ELSE [heard EXCEPT ![e0][u0] = heard[e0][u0] + 1]
      \/ worker' = [worker EXCEPT ![w] = refused] /\ heard' = heard
  BY DEF Send
<1>. HIDE DEF told, refused
<1>5. CASE heard' = heard /\ \E x \in {told, refused} :
             worker' = [worker EXCEPT ![w] = x] /\ x.pc = "row"
  <2>. PICK x \in {told, refused} : worker' = [worker EXCEPT ![w] = x] /\ x.pc = "row"
    BY <1>5
  <2>1. logged' \in [Events -> SUBSET Users] /\ \A e \in Events : logged[e] \subseteq logged'[e]
    BY <1>1, PolicyTypes
  <2>2. \A u \in Users : u \in x.todo \/ (x.pc = "send" /\ x.user = u)
          => u \in worker[w].todo \/ (worker[w].pc = "send" /\ worker[w].user = u)
    BY <1>2
  <2>3. x \in Job /\ x.event = worker[w].event /\ x.campaign = worker[w].campaign
    BY <1>2
  <2>. QED
    BY <1>1, <1>5, <2>1, <2>2, <2>3, GoesOnPolicy
<1>6. CASE /\ e0 # NoEvent /\ worker' = [worker EXCEPT ![w] = told]
           /\ heard' = [heard EXCEPT ![e0][u0] = heard[e0][u0] + 1]
  <2>1. told.pc = "log" /\ e0 \in Events
    BY <1>1, <1>3, <1>6
  <2>. QED
    BY <1>1, <1>2, <1>6, <2>1, HeardPolicy
<1>. QED
  BY <1>3, <1>4, <1>5, <1>6

\* A job that ends between message and row excuses one repeat.
LEMMA EndPolicy ==
    ASSUME Sizes, Consistent, Consistent', AllSteady, PolicyKept, NEW w \in Workers,
           FinishJob(w) \/ JobRaises(w) \/ JobStops(w)
    PROVE  PolicyKept'
<1>1. worker[w] \in Job /\ worker[w].pc # "idle" /\ worker[w].campaign \in Campaigns
  BY JobOf DEF Consistent, Typed, FinishJob, JobRaises, JobStops
<1>. PICK c \in Campaigns : c = worker[w].campaign
  BY <1>1
<1>2. /\ worker' = [worker EXCEPT ![w] = NoJob]
      /\ UNCHANGED <<queue, request, launches, removed, logged, heard>>
      /\ excused' = Excuse(w) \/ (excused' = excused /\ worker[w].pc = "next")
  BY DEF FinishJob, JobRaises, JobStops, Requeued, events, history
<1>3. NoJob \in Job /\ NoJob.pc = "idle" /\ NoJob.campaign \notin Campaigns
  BY DEF NoJob, Job, Statuses, NoCampaign, Campaigns
<1>4. \A d \in Campaigns : /\ campaign'[d].event = campaign[d].event
                           /\ campaign'[d].targets = campaign[d].targets
  <2>. PICK y : y = [Saved(campaign[c], worker[w]) EXCEPT !.status = "completed"]
    OBVIOUS
  <2>. PICK z : z = [campaign[c] EXCEPT !.status = AfterException(campaign[c].status)]
    OBVIOUS
  <2>1. /\ y.event = campaign[c].event /\ y.targets = campaign[c].targets
        /\ z.event = campaign[c].event /\ z.targets = campaign[c].targets
    <3>1. Saved(campaign[c], worker[w]) \in Row
      BY <1>1, PolicyTypes, SavedRow
    <3>2. /\ Saved(campaign[c], worker[w]).event = campaign[c].event
          /\ Saved(campaign[c], worker[w]).targets = campaign[c].targets
      BY PolicyTypes DEF Saved, Row
    <3>. QED
      BY <3>1, <3>2, PolicyTypes DEF Row
  <2>2. \/ campaign' = campaign \/ campaign' = [campaign EXCEPT ![c] = y]
        \/ campaign' = [campaign EXCEPT ![c] = z]
    BY DEF FinishJob, JobRaises, JobStops
  <2>. QED
    BY <2>1, <2>2, PolicyTypes
<1>5. /\ excused' \in [Events -> [Users -> Nat]]
      /\ \A e \in Events, u \in Users :
           /\ excused[e][u] <= excused'[e][u]
           /\ worker[w].pc = "log" /\ worker[w].event = e /\ worker[w].user = u
                => excused'[e][u] = excused[e][u] + 1
  <2>1. CASE worker[w].pc # "log"
    <3>1. excused' = excused
      BY <1>2, <2>1 DEF Excuse
    <3>. QED
      BY <2>1, <3>1, PolicyTypes
  <2>2. CASE worker[w].pc = "log"
    <3>. PICK e0 \in Events : e0 = worker[w].event
      BY <2>2 DEF AllSteady, Shape
    <3>. PICK u0 \in Users : u0 = worker[w].user
      BY <2>2 DEF AllSteady, Shape
    <3>1. excused[e0] \in [Users -> Nat] /\ excused[e0][u0] \in Nat
      BY PolicyTypes
    <3>. PICK g : g = [excused[e0] EXCEPT ![u0] = excused[e0][u0] + 1]
      OBVIOUS
    <3>2. /\ g \in [Users -> Nat] /\ g[u0] = excused[e0][u0] + 1
          /\ \A u \in Users : u # u0 => g[u] = excused[e0][u]
      BY <3>1
    <3>3. excused' = [excused EXCEPT ![e0] = g]
      BY <1>2, <2>2 DEF Excuse
    <3>4. excused' \in [Events -> [Users -> Nat]]
      BY <3>2, <3>3, PolicyTypes
    <3>5. ASSUME NEW e \in Events, NEW u \in Users
          PROVE  /\ excused[e][u] <= excused'[e][u]
                 /\ e = e0 /\ u = u0 => excused'[e][u] = excused[e][u] + 1
      <4>1. excused[e][u] \in Nat
        BY PolicyTypes
      <4>2. CASE e = e0
        <5>1. excused'[e][u] = g[u]
          BY <3>3, <4>2, PolicyTypes
        <5>. QED
          BY <3>1, <3>2, <4>1, <4>2, <5>1
      <4>3. CASE e # e0
        BY <3>3, <4>1, <4>3, PolicyTypes
      <4>. QED
        BY <4>2, <4>3
    <3>. QED
      BY <3>4, <3>5
  <2>. QED
    BY <2>1, <2>2
<1>6. RowsKept
  BY <1>2, <1>4, RowsSame
<1>7. Voices'
  BY <1>2, <1>5 DEF PolicyKept, Voices
<1>8. OwnEvent(NoJob)'
  BY <1>3 DEF OwnEvent
<1>9. \A e \in Events : logged[e] \subseteq logged'[e]
  BY <1>2
<1>. QED
  BY ZenonT(30), <1>2, <1>3, <1>5, <1>6, <1>7, <1>8, <1>9, JobPolicy

\* Nobody has heard of any event at the start.
LEMMA InitPolicy == ASSUME Sizes, Init PROVE PolicyKept
<1>1. \A c \in Campaigns : Asking(c) = {} /\ Runners(c) = {} /\ queue[c] = 0
  BY DEF Init, Asking, Runners, NoRequest, NoJob, NoCampaign, Campaigns
<1>2. Voices
  BY DEF Init, Voices, Zero
<1>3. AllKnown
  BY DEF Init, AllKnown, EventRow, OwnEvent, Blank, NoJob, Sizes
<1>4. ASSUME NEW e \in Events, NEW u \in Users PROVE SpokenOf(e, u)
  <2>1. Frozen(e, u) = {}
    BY DEF Init, Frozen, NoRequest
  <2>2. Open(e, u) = {}
    BY <1>1 DEF Open, Reaching, Waiting
  <2>3. heard[e][u] = 0 /\ excused[e][u] = 0 /\ Slack(e, u) \in {0, 1}
    BY DEF Init, Zero, Slack
  <2>4. heard[e][u] + Cardinality(Frozen(e, u)) + Cardinality(Open(e, u))
            <= excused[e][u] + Slack(e, u)
    BY <2>1, <2>2, <2>3, FS_EmptySet
  <2>. QED
    BY <2>4 DEF SpokenOf
<1>. QED
  BY <1>2, <1>3, <1>4 DEF PolicyKept, Spoken

\* No step of anybody breaks the policy.
LEMMA StepPolicy ==
    ASSUME Sizes, Consistent, Consistent', AllSteady, PolicyKept, [Next]_vars PROVE PolicyKept'
<1>1. CASE UNCHANGED vars
  <2>1. \A e, u : /\ Frozen(e, u)' = Frozen(e, u) /\ (Told(e, u)' <=> Told(e, u))
                  /\ Open(e, u)' = Open(e, u)
    BY <1>1 DEF vars, events, history, Frozen, Told, Open, Reaching, Waiting, Asking, Runners
  <2>2. \A e, u : SpokenOf(e, u) => SpokenOf(e, u)'
    BY <1>1, <2>1 DEF vars, events, history, SpokenOf, Slack
  <2>. QED
    BY <1>1, <2>2 DEF vars, events, history, PolicyKept, Voices, AllKnown, EventRow, OwnEvent,
                      Spoken, Once
<1>2. ASSUME NEW c \in Campaigns, NEW chosen \in {{}, Known}, CreateCampaign(c, chosen)
      PROVE  PolicyKept'
  BY <1>2, QuietPolicy
<1>3. ASSUME NEW r \in Requests,
             \/ \E c \in Campaigns : BeginExecute(r, c) \/ LaunchCampaign(r, c, Segment)
             \/ \E e \in Events : TickEvent(r, e) \/ RunEventNow(r, e)
             \/ Handle(r)
      PROVE  PolicyKept'
  BY <1>3, QuietPolicy, LaunchPolicy, EnqueuePolicy, ScanPolicy, CreateEventPolicy
     DEF TickEvent, RunEventNow, Handle
<1>4. ASSUME NEW e \in Events, FallDue(e) \/ CooldownElapses(e) \/ DeleteEvent(e)
      PROVE  PolicyKept'
  BY <1>4, QuietPolicy
<1>5. ASSUME NEW w \in Workers, Work(w) \/ JobRaises(w) \/ JobStops(w)
      PROVE  PolicyKept'
  BY <1>5, StartPolicy, MarkPolicy, ListPolicy, SendPolicy, EndPolicy DEF Work
<1>. QED
  BY <1>1, <1>2, <1>3, <1>4, <1>5 DEF Next

\* Nobody hears more often from an event than its repeat policy allows (RepeatPolicy).
THEOREM PolicyIsKept == ASSUME Sizes PROVE Spec => []RepeatPolicy
<1>1. ASSUME PolicyKept PROVE RepeatPolicy
  <2>1. ASSUME NEW e \in Events \ removed, NEW u \in Users, Policy[e] # "always",
               \A c \in Campaigns : campaign[c].event = e => launches[c] = 1
        PROVE  heard[e][u] <= 1 + excused[e][u]
    <3>1. SpokenOf(e, u)
      BY <1>1, <2>1 DEF PolicyKept, Spoken, Once
    <3>2. Slack(e, u) \in {0, 1} /\ heard[e][u] \in Nat /\ excused[e][u] \in Nat
      BY <1>1 DEF Slack, PolicyKept, Voices
    <3>. QED
      BY <3>1, <3>2, SpokenCounts DEF SpokenOf
  <2>. QED
    BY <2>1 DEF RepeatPolicy
<1>2. Init => PolicyKept /\ AllSteady
  BY InitPolicy, InitSteady
<1>3. Consistent /\ Consistent' /\ AllSteady /\ PolicyKept /\ [Next]_vars
      => PolicyKept' /\ AllSteady'
  BY StepPolicy, StepSteady
<1>. QED
  BY <1>1, <1>2, <1>3, AlwaysConsistent, PTL DEF Spec

\* What a campaign is reported to have done it has done, and events keep their policy.
THEOREM AlwaysSound == ASSUME Sizes PROVE Spec => []CampaignsSound
BY ReportsAreTrue, PolicyIsKept, PTL DEF CampaignsSound
===============================================================================
