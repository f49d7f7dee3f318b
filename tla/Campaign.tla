------------------------------- MODULE Campaign -------------------------------
(***************************************************************************)
(* CRM campaigns: from the dashboard request or the scheduled event that   *)
(* queues one, over the arq job that runs it, to the last delivery row.    *)
(*                                                                         *)
(* Sources: services/dashboard/backend (routers/crm.py, crm_runner.py,     *)
(* crm_event_runner.py, crm_actions.py, worker.py), packages/common_db/    *)
(* common_db/repo (crm, crm_events).                                       *)
(*                                                                         *)
(* A campaign is queued by a committed row and run by a job that is put    *)
(* into redis afterwards.  arq runs a job at most once (max_tries = 1) and *)
(* several jobs at a time; whoever was stopped half-way is not resumed.    *)
(***************************************************************************)
EXTENDS Naturals, FiniteSets

CONSTANTS
    Users, Events,
    MaxCampaigns,    \* bound: rows of crm_campaigns
    Requests,        \* dashboard requests and cron ticks that may be at work at once
    Workers,         \* jobs that arq runs at once
    NoEvent, NoUser,
    Known,           \* users with a row in users
    Policy,          \* repeat_policy of an event
    Segment,         \* the users a scan of the conditions finds
    ProgressEvery,   \* totals are saved after so many users: 25
    MaxExtras        \* bound: faults, repeated launches and passages of time, together

Campaigns == 1..MaxCampaigns
NoCampaign == 0

VARIABLES
    campaign,   \* crm_campaigns
    queue,      \* queue[c]: jobs of c waiting in redis
    request,    \* request[r]: a handler in the dashboard, or the cron job
    worker,     \* worker[w]: a job that runs
    due,        \* events whose next_run_at has passed
    logged,     \* logged[e]: users with a crm_event_deliveries row that counts
    removed,    \* events deleted by the admin
    handled,    \* history: handled[c][u], runs of the actions: credits, perks, a message
    launches,   \* history: launches[c], times c was queued
    heard,      \* history: heard[e][u], messages since the policy last allowed one
    excused,    \* history: excused[e][u], repeats the code cannot exclude
    stranded,   \* history: campaigns whose job was lost
    extras      \* bounded: faults, repeated launches, passages of time

vars == <<campaign, queue, request, worker, due, logged, removed, handled, launches, heard,
          excused, stranded, extras>>

events == <<due, logged, removed>>
history == <<handled, heard, excused>>

Blank == [status |-> "none", event |-> NoEvent, targets |-> {}, total |-> 0,
          sent |-> 0, failed |-> 0]
NoRequest == [pc |-> "idle", campaign |-> NoCampaign, event |-> NoEvent, targets |-> {}]
NoJob == [pc |-> "idle", campaign |-> NoCampaign, event |-> NoEvent, seen |-> "none",
          todo |-> {}, user |-> NoUser, outcome |-> "none", sent |-> 0, failed |-> 0]

Zero(S) == [x \in S |-> [u \in Users |-> 0]]

Init ==
    /\ campaign = [c \in Campaigns |-> Blank]
    /\ queue = [c \in Campaigns |-> 0]
    /\ request = [r \in Requests |-> NoRequest]
    /\ worker = [w \in Workers |-> NoJob]
    /\ due = {}
    /\ logged = [e \in Events |-> {}]
    /\ removed = {}
    /\ handled = Zero(Campaigns)
    /\ launches = [c \in Campaigns |-> 0]
    /\ heard = Zero(Events)
    /\ excused = Zero(Events)
    /\ stranded = {}
    /\ extras = 0

Extra == extras < MaxExtras /\ extras' = extras + 1

Busy(c) ==
    \/ queue[c] > 0
    \/ \E w \in Workers : worker[w].campaign = c
    \/ \E r \in Requests : request[r].pc = "enqueue" /\ request[r].campaign = c

\* Ids are handed out in order.
New(c) ==
    /\ campaign[c].status = "none"
    /\ \A d \in 1..(c - 1) : campaign[d].status # "none"

-----------------------------------------------------------------------------
(* The dashboard *)

\* POST /campaigns: a draft, with recipients of its own or a segment to scan.
CreateCampaign(c, chosen) ==
    /\ New(c)
    /\ campaign' = [campaign EXCEPT ![c].status = "draft", ![c].targets = chosen,
                                    ![c].total = Cardinality(chosen)]
    /\ UNCHANGED <<queue, request, worker, events, history, launches, stranded, extras>>

\* POST /campaigns/{id}/execute reads the row and refuses a campaign at work ...
Executable(c) == campaign[c].status \in {"draft", "completed", "failed"}

BeginExecute(r, c) ==
    /\ request[r].pc = "idle"
    /\ Executable(c)
    /\ IF launches[c] = 0 /\ \A q \in Requests : request[q].campaign # c
       THEN UNCHANGED extras ELSE Extra
    /\ request' = [request EXCEPT ![r] =
         [NoRequest EXCEPT !.pc = "queue", !.campaign = c]]
    /\ UNCHANGED <<campaign, queue, worker, events, history, launches, stranded>>

\* ... looks for recipients, and queues it, whatever its status is by now.
QueueCampaign(r) ==
    LET c == request[r].campaign IN
    /\ request[r].pc = "queue"
    /\ campaign' = [campaign EXCEPT ![c].status = "queued"]
    /\ launches' = [launches EXCEPT ![c] = @ + 1]
    /\ request' = [request EXCEPT ![r].pc = "enqueue"]
    /\ UNCHANGED <<queue, worker, events, history, stranded, extras>>

\* Nobody in the segment (400): the campaign stays as it is.
NoTargets(r) ==
    /\ request[r].pc = "queue"
    /\ campaign[request[r].campaign].targets = {}
    /\ request' = [request EXCEPT ![r] = NoRequest]
    /\ UNCHANGED <<campaign, queue, worker, events, history, launches, stranded, extras>>

\* POST /campaigns/launch: created and queued in one transaction.
LaunchCampaign(r, c, chosen) ==
    /\ request[r].pc = "idle"
    /\ New(c)
    /\ campaign' = [campaign EXCEPT ![c].status = "queued", ![c].targets = chosen,
                                    ![c].total = Cardinality(chosen)]
    /\ launches' = [launches EXCEPT ![c] = 1]
    /\ request' = [request EXCEPT ![r] =
         [NoRequest EXCEPT !.pc = "enqueue", !.campaign = c]]
    /\ UNCHANGED <<queue, worker, events, history, stranded, extras>>

\* The job follows the commit.  Redis may be down (503): the row stays queued.
Enqueue(r) ==
    LET c == request[r].campaign IN
    /\ request[r].pc = "enqueue"
    /\ \/ /\ queue' = [queue EXCEPT ![c] = @ + 1]
          /\ UNCHANGED <<stranded, extras>>
       \/ /\ Extra
          /\ stranded' = stranded \cup {c}
          /\ UNCHANGED queue
    /\ request' = [request EXCEPT ![r] = NoRequest]
    /\ UNCHANGED <<campaign, worker, events, history, launches>>

-----------------------------------------------------------------------------
(* Scheduled events *)

FallDue(e) ==
    /\ e \notin due
    /\ Extra
    /\ due' = due \cup {e}
    /\ UNCHANGED <<campaign, queue, request, worker, logged, removed, history, launches, stranded>>

\* The days of a cooldown have passed: older rows no longer count.
CooldownElapses(e) ==
    /\ Policy[e] = "cooldown"
    /\ logged[e] # {}
    /\ Extra
    /\ logged' = [logged EXCEPT ![e] = {}]
    /\ heard' = [heard EXCEPT ![e] = [u \in Users |-> 0]]
    /\ UNCHANGED <<campaign, queue, request, worker, due, removed, handled, launches,
                   excused, stranded>>

\* The cron job takes an event from the list of those that are due, the admin any.
BeginEvent(r, e) ==
    /\ request[r].pc = "idle"
    /\ e \notin removed
    /\ \E c \in Campaigns : campaign[c].status = "none"
    /\ request' = [request EXCEPT ![r] = [NoRequest EXCEPT !.pc = "event", !.event = e]]
    /\ UNCHANGED <<campaign, queue, worker, events, history, launches, stranded, extras>>

TickEvent(r, e) == e \in due /\ BeginEvent(r, e)

RunEventNow(r, e) == BeginEvent(r, e)

\* Faulty variant: the policy looks at no delivery.
AllowedAlways(e) == Segment

\* filter_tg_ids_by_repeat_policy
Allowed(e) == IF Policy[e] = "always" THEN Segment ELSE Segment \ logged[e]

\* Users whom an unfinished campaign of e has frozen and still has to message.
Pending(e) ==
    {u \in Users : \E c \in Campaigns :
        /\ campaign[c].event = e
        /\ \/ queue[c] > 0 /\ u \in campaign[c].targets
           \/ \E r \in Requests : request[r].pc = "enqueue" /\ request[r].campaign = c
                                  /\ u \in campaign[c].targets
           \/ \E w \in Workers : worker[w].campaign = c
                                 /\ (u \in worker[w].todo \/ u = worker[w].user)}
    \cup UNION {request[r].targets : r \in {q \in Requests : request[q].event = e}}

ScanEvent(r) ==
    LET e == request[r].event IN
    /\ request[r].pc = "event"
    /\ request' = [request EXCEPT ![r].pc = "create", ![r].targets = Allowed(e)]
    /\ excused' = [excused EXCEPT ![e] =
         [u \in Users |-> excused[e][u] + (IF u \in Allowed(e) \cap Pending(e) THEN 1 ELSE 0)]]
    /\ UNCHANGED <<campaign, queue, worker, events, handled, heard, launches,
                   stranded, extras>>

\* An event with recipients, if it still exists, becomes a queued campaign with a frozen list.
CreateEventCampaign(r, c) ==
    LET e == request[r].event IN
    /\ request[r].pc = "create"
    /\ request[r].targets # {}
    /\ e \notin removed
    /\ New(c)
    /\ campaign' = [campaign EXCEPT ![c] =
         [Blank EXCEPT !.status = "queued", !.event = e, !.targets = request[r].targets,
                       !.total = Cardinality(request[r].targets)]]
    /\ launches' = [launches EXCEPT ![c] = 1]
    /\ due' = due \ {e}
    /\ request' = [request EXCEPT ![r] =
         [NoRequest EXCEPT !.pc = "enqueue", !.campaign = c]]
    /\ UNCHANGED <<queue, worker, logged, removed, history, stranded, extras>>

EmptyEvent(r) ==
    /\ request[r].pc = "create"
    /\ request[r].targets = {} \/ request[r].event \in removed
    /\ due' = due \ {request[r].event}
    /\ request' = [request EXCEPT ![r] = NoRequest]
    /\ UNCHANGED <<campaign, queue, worker, logged, removed, history, launches, stranded, extras>>

\* DELETE /events/{id}: the delivery rows go with the event, its campaigns lose
\* the reference, a handler that has not read it finds nothing.
DeleteEvent(e) ==
    /\ e \notin removed
    /\ removed' = removed \cup {e}
    /\ due' = due \ {e}
    /\ logged' = [logged EXCEPT ![e] = {}]
    /\ campaign' = [c \in Campaigns |->
         IF campaign[c].event = e THEN [campaign[c] EXCEPT !.event = NoEvent] ELSE campaign[c]]
    /\ request' = [r \in Requests |->
         IF request[r].pc = "event" /\ request[r].event = e THEN NoRequest ELSE request[r]]
    /\ UNCHANGED <<queue, worker, history, launches, stranded, extras>>

-----------------------------------------------------------------------------
(* The job *)

\* The job looks at the status and resolves its recipients; a segment is scanned
\* again and may be empty by now.
StartJob(w, c) ==
    /\ worker[w].pc = "idle"
    /\ queue[c] > 0
    /\ queue' = [queue EXCEPT ![c] = @ - 1]
    /\ \/ /\ campaign[c].status \in {"queued", "running"}
          /\ \E T \in IF campaign[c].targets # {} THEN {campaign[c].targets}
                                                 ELSE {Segment, {}} :
               worker' = [worker EXCEPT ![w] =
                 [NoJob EXCEPT !.pc = "mark", !.campaign = c, !.todo = T,
                               !.seen = campaign[c].status]]
       \/ /\ campaign[c].status \notin {"queued", "running"}
          /\ UNCHANGED worker
    /\ UNCHANGED <<campaign, request, events, history, launches, stranded, extras>>

\* An ORM update writes what has changed since the read: a status found "running"
\* is not written again.
MarkRunning(w) ==
    LET c == worker[w].campaign IN
    /\ worker[w].pc = "mark"
    /\ \/ /\ worker[w].todo # {}
          /\ campaign' = [campaign EXCEPT
               ![c].status = IF worker[w].seen = "running" THEN @ ELSE "running",
               ![c].total = Cardinality(worker[w].todo)]
          /\ worker' = [worker EXCEPT ![w].pc = "next", ![w].event = campaign[c].event]
       \/ /\ worker[w].todo = {}
          /\ campaign' = [campaign EXCEPT ![c].status = "failed"]
          /\ worker' = [worker EXCEPT ![w] = NoJob]
    /\ UNCHANGED <<queue, request, events, history, launches, stranded, extras>>

\* A user of the list: perks and credits first, each committed on its own.  One
\* that is not in users any more gets a failed row.
NextUser(w, u) ==
    LET c == worker[w].campaign IN
    /\ worker[w].pc = "next"
    /\ u \in worker[w].todo
    /\ \/ /\ u \in Known
          /\ handled' = [handled EXCEPT ![c][u] = @ + 1]
          /\ worker' = [worker EXCEPT ![w].pc = "send", ![w].user = u,
                                      ![w].todo = @ \ {u}]
       \/ /\ u \notin Known
          /\ worker' = [worker EXCEPT ![w].todo = @ \ {u}, ![w].failed = @ + 1]
          /\ UNCHANGED handled
    /\ UNCHANGED <<campaign, queue, request, events, heard, excused, launches,
                   stranded, extras>>

\* tg_send: 200 or not.
Send(w) ==
    LET u == worker[w].user
        e == worker[w].event
    IN
    /\ worker[w].pc = "send"
    /\ \/ /\ heard' = IF e = NoEvent THEN heard ELSE [heard EXCEPT ![e][u] = @ + 1]
          /\ worker' = [worker EXCEPT ![w].pc = IF e = NoEvent THEN "row" ELSE "log",
                                      ![w].outcome = "sent"]
       \/ /\ worker' = [worker EXCEPT ![w].pc = "row", ![w].outcome = "failed"]
          /\ UNCHANGED heard
    /\ UNCHANGED <<campaign, queue, request, events, handled, excused, launches,
                   stranded, extras>>

\* on_message_sent: record_event_delivery in a session of its own.
LogEvent(w) ==
    LET e == worker[w].event IN
    /\ worker[w].pc = "log"
    /\ e \notin removed
    /\ logged' = [logged EXCEPT ![e] = @ \cup {worker[w].user}]
    /\ worker' = [worker EXCEPT ![w].pc = "row"]
    /\ UNCHANGED <<campaign, queue, request, due, removed, history, launches, stranded, extras>>

Counted(job) ==
    [job EXCEPT !.pc = "next", !.user = NoUser, !.outcome = "none",
                !.sent = @ + (IF job.outcome = "sent" THEN 1 ELSE 0),
                !.failed = @ + (IF job.outcome = "failed" THEN 1 ELSE 0)]

\* Faulty variant: the totals of the last users are not written.
SavedBefore(row, job) == row

Saved(row, job) == [row EXCEPT !.sent = job.sent, !.failed = job.failed]

\* The delivery row is committed; now and then so are the totals.
AddDelivery(w) ==
    LET c == worker[w].campaign
        job == Counted(worker[w])
    IN
    /\ worker[w].pc = "row"
    /\ worker' = [worker EXCEPT ![w] = job]
    /\ campaign' = IF (job.sent + job.failed) % ProgressEvery = 0
                   THEN [campaign EXCEPT ![c] = Saved(@, job)]
                   ELSE campaign
    /\ UNCHANGED <<queue, request, events, history, launches, stranded, extras>>

FinishJob(w) ==
    LET c == worker[w].campaign IN
    /\ worker[w].pc = "next"
    /\ worker[w].todo = {}
    /\ campaign' = [campaign EXCEPT ![c] = [Saved(@, worker[w]) EXCEPT !.status = "completed"]]
    /\ worker' = [worker EXCEPT ![w] = NoJob]
    /\ UNCHANGED <<queue, request, events, history, launches, stranded, extras>>

Excuse(w) ==
    IF worker[w].pc = "log"
    THEN [excused EXCEPT ![worker[w].event][worker[w].user] = @ + 1]
    ELSE excused

\* Faulty variant: the status is left for the next job.
StatusKept(status) == status

\* except Exception: a campaign found running becomes failed, one found queued
\* stays queued.
AfterException(status) == IF status = "running" THEN "failed" ELSE status

\* The row of an event that is gone cannot be written: foreign key.
Orphan(w) == worker[w].pc = "log" /\ worker[w].event \in removed

JobRaises(w) ==
    LET c == worker[w].campaign IN
    /\ worker[w].pc # "idle"
    /\ Extra \/ (Orphan(w) /\ UNCHANGED extras)
    /\ campaign' = [campaign EXCEPT ![c].status = AfterException(@)]
    /\ stranded' = IF campaign[c].status = "queued" THEN stranded \cup {c} ELSE stranded
    /\ excused' = Excuse(w)
    /\ worker' = [worker EXCEPT ![w] = NoJob]
    /\ UNCHANGED <<queue, request, events, handled, heard, launches>>

\* Faulty variant: arq tries a stopped job again.
TriedAgain(c) == [queue EXCEPT ![c] = @ + 1]

\* Jobs left for another attempt when a worker stops: none, max_tries is 1.
Requeued(c) == queue

\* The worker is stopped or the job times out: CancelledError is no Exception.
JobStops(w) ==
    LET c == worker[w].campaign IN
    /\ worker[w].pc # "idle"
    /\ Extra
    /\ queue' = Requeued(c)
    /\ stranded' = stranded \cup {c}
    /\ excused' = Excuse(w)
    /\ worker' = [worker EXCEPT ![w] = NoJob]
    /\ UNCHANGED <<campaign, request, events, handled, heard, launches>>

-----------------------------------------------------------------------------

Handle(r) ==
    \/ QueueCampaign(r) \/ NoTargets(r) \/ Enqueue(r)
    \/ ScanEvent(r) \/ EmptyEvent(r)
    \/ \E c \in Campaigns : CreateEventCampaign(r, c)

Work(w) ==
    \/ \E c \in Campaigns : StartJob(w, c)
    \/ MarkRunning(w)
    \/ \E u \in Users : NextUser(w, u)
    \/ Send(w) \/ LogEvent(w) \/ AddDelivery(w) \/ FinishJob(w)
    \/ Orphan(w) /\ JobRaises(w)

Next ==
    \/ \E c \in Campaigns, chosen \in {{}, Known} : CreateCampaign(c, chosen)
    \/ \E r \in Requests, c \in Campaigns : BeginExecute(r, c)
    \/ \E r \in Requests, c \in Campaigns : LaunchCampaign(r, c, Segment)
    \/ \E r \in Requests, e \in Events : TickEvent(r, e) \/ RunEventNow(r, e)
    \/ \E r \in Requests : Handle(r)
    \/ \E e \in Events : FallDue(e) \/ CooldownElapses(e) \/ DeleteEvent(e)
    \/ \E w \in Workers : Work(w) \/ JobRaises(w) \/ JobStops(w)

Spec == Init /\ [][Next]_vars

-----------------------------------------------------------------------------
(* Properties *)

Statuses == {"none", "draft", "queued", "running", "completed", "failed"}

Row == [status : Statuses, event : Events \cup {NoEvent}, targets : SUBSET Users,
        total : Nat, sent : Nat, failed : Nat]
Handler == [pc : {"idle", "queue", "enqueue", "event", "create"},
            campaign : Campaigns \cup {NoCampaign}, event : Events \cup {NoEvent},
            targets : SUBSET Users]
Job == [pc : {"idle", "mark", "next", "send", "log", "row"},
        campaign : Campaigns \cup {NoCampaign}, event : Events \cup {NoEvent}, seen : Statuses,
        todo : SUBSET Users, user : Users \cup {NoUser},
        outcome : {"none", "sent", "failed"}, sent : Nat, failed : Nat]

\* Types of all variables.
TypeOK ==
    /\ campaign \in [Campaigns -> Row]
    /\ queue \in [Campaigns -> Nat]
    /\ request \in [Requests -> Handler]
    /\ worker \in [Workers -> Job]
    /\ due \subseteq Events /\ removed \subseteq Events
    /\ logged \in [Events -> SUBSET Users]
    /\ handled \in [Campaigns -> [Users -> Nat]]
    /\ launches \in [Campaigns -> Nat]
    /\ heard \in [Events -> [Users -> Nat]] /\ excused \in [Events -> [Users -> Nat]]
    /\ stranded \subseteq Campaigns
    /\ extras \in Nat

\* Credits and perks are not idempotent: whatever requests overlap and however
\* jobs die, a user goes through the actions of a campaign at most as often as the
\* campaign was queued (max_tries of worker.py, one job per commit).
GrantedOncePerLaunch ==
    \A c \in Campaigns, u \in Users : handled[c][u] <= launches[c]

\* "completed" in the history tab is the truth: everybody has been counted as sent
\* or failed, and those who exist have been through the actions once.
CompletedReachedAll ==
    \A c \in Campaigns :
        campaign[c].status = "completed" /\ launches[c] = 1 =>
            /\ campaign[c].sent + campaign[c].failed = campaign[c].total
            /\ \A u \in Known \cap campaign[c].targets : handled[c][u] = 1

\* A campaign that refuses to be executed again is waiting for a job or in the hands
\* of one, unless its job was lost (execute_crm_campaign, routers/crm.py 409).
NotForgotten ==
    \A c \in Campaigns :
        campaign[c].status \in {"queued", "running"} => Busy(c) \/ c \in stranded

\* The repeat policy of an event: nobody hears from it twice, or twice within the
\* cooldown, unless a crash came between message and row, or the second campaign
\* was frozen while the first had still to reach that user, or the admin executed
\* a campaign of the event again.
RepeatPolicy ==
    \A e \in Events \ removed, u \in Users :
        /\ Policy[e] # "always"
        /\ \A c \in Campaigns : campaign[c].event = e => launches[c] = 1
        => heard[e][u] <= 1 + excused[e][u]

\* What a campaign is reported to have done it has done, and the event it runs for keeps
\* its policy.
CampaignsSound == CompletedReachedAll /\ RepeatPolicy
===============================================================================
