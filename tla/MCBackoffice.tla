---------------------------- MODULE MCBackoffice ----------------------------
(***************************************************************************)
(* The machines of the back office, checked side by side in one run: CRM   *)
(* campaigns, inbound webhook rules, push campaigns, request telemetry,    *)
(* the panel cache, support tickets and the support bot, the tariff menu,  *)
(* the configuration, the script that gives users their panel ids, the     *)
(* audiences of campaigns, the schedule of events, the alerts of the       *)
(* health worker and the error events of an API service.                   *)
(* They share no state; part names the one that moves in a behaviour, the  *)
(* others rest in one of their initial states.                             *)
(***************************************************************************)
EXTENDS Naturals, Sequences, FiniteSets, TLC

CONSTANTS Users, NoUser, Requests, Apart, MaxMishaps,
          Events, NoEvent, MaxCampaigns, Workers, Known, Segment,
          ProgressEvery, MaxExtras,
          Rules, Jobs, NoHolder, Reachable, MaxWebhooks, MaxTrouble,
          Devices, Runs, MaxOutages,
          LastMinute, MaxRequests, MaxServed, SafeAfter, KeyTtl, RollUpAfter, MaxQuiet,
          Callers, MaxCancels,
          Tickets, Posts, MaxOpen, MaxImages, MaxUpdates, MaxFailures,
          Profiles, NoProfile, Nodes, NoNode,
          Services, Polled, MaxSaves

\* Every event repeats after its cooldown.
Policy == [e \in Events |-> "cooldown"]

VARIABLES part,
          campaign, queue, request, worker, due, logged, removed, handled,
          launches, heard, excused, stranded, extras,
          rule, holder, ruleLogged, job, ruleHeard, ruleExcused, matched,
          webhooks, trouble,
          push, tokens, run, rows, pushes, lost, outages,
          now, served, counts, flush, redis, written, minuteRow, hourRow, tick,
          stored, inflight, future, caller, cancels,
          ticket, message, file, deskRequest, mishaps,
          items, keyOf, address, paid, repairs, rwId, rowOwner, primaryRow, script,
          disturbed, started,
          node, edit, edits, editedTogether,
          target, task, knownUsers, log, forwarded, delivered, prompt, typed, sideBySide,
          updates, failures,
          yaml, settings, asset, gateway, android, version, form, proc, events, meant,
          strayed,
          contact, conditions, draft, preview, evaluations,
          schedule, runner, moment, reschedules, computedAt, cutAcross,
          minute, thresholds, failedProbes, alertRow, chat, badProbes, unlucky, rolledBack,
          retunes, setbacks,
          errorMinute, meter, dump, recorded, samples, errorQueue, writer, tally, kept, crowded,
          breakdowns

\* Two parts are taken through the modules of their proofs, so that Backoffice_proofs
\* can carry the theorems over to the properties below.
Crm == INSTANCE Campaign_proofs

ASSUME CampaignSizes == Crm!Sizes

Hooks == INSTANCE WebhookRules_proofs
         WITH NoJob <- NoHolder, logged <- ruleLogged, heard <- ruleHeard, excused <- ruleExcused

ASSUME HookSizes == Hooks!Sizes

Push == INSTANCE PushCampaign WITH Tokens <- Devices

PushSizes == IsFiniteSet(Devices) /\ IsFiniteSet(Runs)

ASSUME PushConstants == PushSizes

Health == INSTANCE ApiHealth

Cache == INSTANCE PanelCache

Desk == INSTANCE Support WITH Requests <- Posts, request <- deskRequest

\* An element of a set.
OneOf(S) == CHOOSE x \in S : TRUE

\* What the panel lists: two profiles that share a mailbox, cross their identifiers or
\* have one of them only; the second may be gone.
Item(legacy, protocol, mail) == [legacy |-> legacy, protocol |-> protocol, email |-> mail]
Listed(one, two) == [p \in Profiles |-> IF p = OneOf(Profiles) THEN one ELSE two]

Ids == INSTANCE IdBackfill
       WITH Keys <- {"k1", "k2"}, NoKey <- "none", Junk <- "junk",
            Mails <- {"m1"}, NoMail <- "none",
            Panels <- {Listed(Item("k1", "none", "m1"), Item("k2", "none", "none")),
                       Listed(Item("k1", "k2", "none"), Item("k2", "k1", "m1")),
                       Listed(Item("none", "k1", "m1"), Item("none", "k2", "m1")),
                       [p \in {OneOf(Profiles)} |-> Item("k2", "k1", "m1")]},
            Stored <- {[u \in Users |-> IF u = OneOf(Users) THEN a ELSE b] :
                          a \in {"k1", "junk"}, b \in {"k1", "k2"}},
            Addresses <- {[u \in Users |-> IF u = OneOf(Users) THEN "none" ELSE "m1"]},
            Repairs <- {{}, {<<OneOf(Users), OneOf(Profiles)>>}},
            MaxRuns <- 1, MaxDisturbances <- 1,
            panel <- items, stored <- keyOf, runs <- started

\* A provider of every surface and Stars; Stars in whole numbers or in fractions.
Price(provider, currency, whole) ==
    [provider |-> provider, currency |-> currency, method |-> "default", complete |-> TRUE,
     whole |-> whole]

Tariffs == INSTANCE TariffMenu
           WITH Editors <- Requests, MaxEdits <- 2,
                Terms <- {Price("apay", "RUB", TRUE), Price("stars", "XTR", TRUE),
                          Price("stars", "XTR", FALSE)},
                Providers <- [p \in {"apay", "stars"} |->
                    IF p = "apay"
                    THEN [surfaces |-> {"bot", "miniapp", "web", "android"},
                          currencies |-> {"RUB"}, methods |-> {"default"}]
                    ELSE [surfaces |-> {"bot", "miniapp"},
                          currencies |-> {"XTR"}, methods |-> {"default"}]],
                AndroidProviders <- {"apay"}, overlapped <- editedTogether

Talk == INSTANCE SupportBot
        WITH Writers <- Users, NoWriter <- NoUser, Tasks <- Requests, crossed <- sideBySide

TalkSizes == NoUser \notin Users

ASSUME TalkConstants == TalkSizes

\* A file of the configuration, and what the pages of the dashboard send: keys of the
\* settings, the logo, a gateway whose secret comes back masked, and Android.
Setting(logo, url) == [k \in {"logo", "url"} |-> IF k = "logo" THEN logo ELSE url]
Page(kind, set, enabled, field) ==
    [kind |-> kind, set |-> set, enabled |-> enabled, field |-> field]
Picture(url) == [k \in {"logo"} |-> url]

Config == INSTANCE RuntimeConfig
          WITH Keys <- {"logo", "url"}, Logo <- "logo", Values <- {"", "a", "b"},
               NoValue <- "none", Good <- {"good", "new"}, Bad <- {"bad"},
               Files <- {[settings |-> Setting("none", "b"), gateway |-> "good",
                          secret |-> "good"]},
               Edits <- {Page("settings", [k \in {"url"} |-> "a"], TRUE, "blank"),
                         Page("settings", Picture("a"), TRUE, "blank"),
                         Page("branding", Picture("a"), TRUE, "blank"),
                         Page("branding", Picture(""), TRUE, "blank"),
                         Page("gateway", Picture(""), TRUE, "masked"),
                         Page("android", Picture(""), TRUE, "blank"),
                         Page("android", Picture(""), FALSE, "masked")},
               Admins <- Requests, Processes <- Services, Followed <- Polled,
               MaxEvents <- MaxSaves

ASSUME ConfigEdits == Config!EditsAre

\* One user is as Base; the other differs from it in one respect and may be banned later.
Base == [tg |-> TRUE, banned |-> FALSE, remnawave |-> TRUE, paid |-> TRUE, vip |-> FALSE,
         invoice |-> TRUE, listed |-> TRUE, status |-> "limited", expires |-> "soon",
         used |-> 4, limit |-> 5, connected |-> FALSE, devices |-> 2, counted |-> TRUE,
         deviceLimit |-> 2, squad |-> "s1", tag |-> "A", torrent |-> TRUE]

Except(changed) == {[Base EXCEPT ![c[1]] = c[2]] : c \in changed}

Condition(type, value) == [type |-> type, value |-> value]
SegmentIs(name, param) == [type |-> "segment", value |-> name, param |-> param]

\* What follows a segment in a list of conditions.
Further == {<<Condition("user_type", "paid_vip")>>, <<Condition("user_type", "free")>>,
            <<Condition("tg_allowlist", {"u"})>>,
            <<Condition("tg_allowlist", {"v"}), Condition("tg_allowlist", {})>>,
            <<Condition("rw_tag", "A"), Condition("rw_internal_squad", "s1")>>,
            <<Condition("rw_tag", "A"), Condition("rw_tag", "B")>>,
            <<Condition("rw_traffic_limit", 2)>>,
            <<Condition("rw_traffic_limit", 0), Condition("tg_allowlist", {"u"})>>, <<>>}

\* Every segment alone, two of them with what follows, and a list without a segment.
Lists ==
    {<<SegmentIs(s, "none")>> \o more : s \in {"expiring_soon", "all_users"}, more \in Further}
    \cup {<<SegmentIs(s, t)>> :
             s \in {"never_connected", "expired", "limited", "traffic_low", "expiring_soon",
                    "device_limit", "torrent", "unpaid_invoice", "all_users"},
             t \in {"none", "paid_vip"}}
    \cup {<<Condition("user_type", "free")>>}

Crowd == INSTANCE Audience
         WITH Users <- {"u", "v"},
              People <- Except({<<"tg", TRUE>>, <<"tg", FALSE>>, <<"banned", TRUE>>,
                                <<"remnawave", FALSE>>, <<"paid", TRUE>>, <<"vip", TRUE>>,
                                <<"invoice", FALSE>>, <<"listed", FALSE>>,
                                <<"status", "active">>, <<"status", "expired">>,
                                <<"status", "disabled">>, <<"expires", "later">>,
                                <<"expires", "never">>, <<"used", 3>>, <<"limit", 0>>,
                                <<"limit", 1>>, <<"limit", 4>>, <<"connected", TRUE>>,
                                <<"devices", 1>>, <<"counted", FALSE>>, <<"deviceLimit", 99>>,
                                <<"deviceLimit", 0>>, <<"deviceLimit", 3>>,
                                <<"squad", "none">>, <<"tag", "B">>, <<"torrent", FALSE>>}),
              Changes <- Except({<<"banned", TRUE>>}), Picks <- {{}, {"u"}}, MaxSteps <- 2,
              person <- contact, asked <- conditions, campaign <- draft, answer <- preview,
              steps <- evaluations

\* The event's form sends another time or day, weekly or not, on or off.
Timetable == INSTANCE EventSchedule
             WITH Slots <- 2, Week <- 2, Runs <- {"a", "b"}, LastMoment <- 6, MaxEdits <- 2,
                  Edits <- {[runAt |-> 1], [weekday |-> 0], [weekly |-> TRUE, weekday |-> 1],
                            [weekly |-> TRUE], [weekly |-> FALSE], [enabled |-> FALSE],
                            [enabled |-> TRUE]},
                  event <- schedule, run <- runner, now <- moment, edits <- reschedules,
                  since <- computedAt, crossed <- cutAcross

Alerts == INSTANCE HealthAlerts
          WITH Kinds <- <<"errors", "availability">>, Thresholds <- {2}, Cooldown <- 2,
               Keep <- 1, LastMinute <- 5, MaxEdits <- 2, MaxMishaps <- 1,
               now <- minute, settings <- thresholds, failures <- failedProbes,
               row <- alertRow, talk <- chat, run <- badProbes, edits <- retunes,
               mishaps <- setbacks

Errors == INSTANCE ErrorEvents
          WITH Routes <- {"x"}, SampleMax <- 1, SampleKeys <- 1, Window <- 1,
               QueueSize <- 1, BatchSize <- 2, MetricLimit <- 1, LastMinute <- 1,
               MaxRequests <- 3, MaxMishaps <- 1,
               now <- errorMinute, flush <- dump, queue <- errorQueue, mishaps <- breakdowns

\* Where a part that does not move rests.
AtRest ==
    /\ part # "ids" =>
         /\ items = Listed(Item("k1", "none", "m1"), Item("k2", "none", "none"))
         /\ keyOf = [u \in Users |-> "k1"]
         /\ paid = {} /\ repairs = {}
         /\ rwId = [u \in Users |-> NoProfile]
         /\ rowOwner = [p \in Profiles |-> NoUser]
         /\ primaryRow = [u \in Users |-> NoProfile]
    /\ part # "menu" => node = [n \in Nodes |-> Tariffs!Absent]
    /\ part # "config" => android = Config!NoRow
    /\ part # "audience" =>
         /\ contact = [u \in {"u", "v"} |-> Base] /\ conditions = <<SegmentIs("expired", "none")>>
    /\ part # "schedule" =>
         schedule = [exists |-> TRUE, enabled |-> TRUE, runAt |-> 0, weekly |-> FALSE,
                     weekday |-> Timetable!NoDay, next |-> 2]

\* The second person is as Base.
SecondAsBase == contact["v"] = Base

\* The nodes a menu starts with have these names, whatever the names of the others.
TopFirst ==
    LET first == OneOf(Nodes)
        second == OneOf(Nodes \ {first})
    IN node[first].exists =>
         node[first].parent = NoNode /\ node[second].exists /\ node[second].parent = first

Init ==
    /\ part \in {"crm", "hooks", "push", "health", "cache", "desk", "ids", "menu", "talk",
                 "config", "audience", "schedule", "alerts", "errors"}
    /\ AtRest
    /\ Crm!Init /\ Hooks!Init /\ Push!Init
    /\ Health!Init /\ Cache!Init /\ Desk!Init
    /\ Ids!Init /\ Tariffs!Init /\ TopFirst /\ Talk!Init /\ Config!Init
    /\ Crowd!Init /\ SecondAsBase /\ Timetable!Init
    /\ Alerts!Init /\ Errors!Init

crmVars == <<campaign, queue, request, worker, due, logged, removed, handled, launches,
             heard, excused, stranded, extras>>
hookVars == <<rule, holder, ruleLogged, job, ruleHeard, ruleExcused, matched, webhooks, trouble>>
pushVars == <<push, tokens, run, rows, pushes, lost, outages>>
cacheVars == <<stored, inflight, future, caller, cancels>>
deskVars == <<ticket, message, file, deskRequest>>
healthVars == <<now, served, counts, flush, redis, written, minuteRow, hourRow, tick>>
idVars == <<items, keyOf, address, paid, repairs, rwId, rowOwner, primaryRow, script,
            disturbed, started>>
menuVars == <<node, edit, edits, editedTogether>>
botVars == <<target, task, knownUsers, log, forwarded, delivered, prompt, typed, sideBySide,
             updates, failures>>

configVars == <<yaml, settings, asset, gateway, android, version, form, proc, events, meant,
                strayed>>
audienceVars == <<contact, conditions, draft, preview, evaluations>>
scheduleVars == <<schedule, runner, moment, reschedules, computedAt, cutAcross>>

alertVars == <<minute, thresholds, failedProbes, alertRow, chat, badProbes, unlucky,
               rolledBack, retunes, setbacks>>
errorVars == <<errorMinute, meter, dump, recorded, samples, errorQueue, writer, tally, kept,
               crowded, breakdowns>>

watchVars == <<alertVars, errorVars>>

\* The variables of the last eight parts.
adminVars == <<idVars, menuVars, botVars, configVars, audienceVars, scheduleVars, watchVars>>

CrmNext ==
    /\ part = "crm"
    /\ Crm!Next
    /\ UNCHANGED <<part, hookVars, pushVars, healthVars, cacheVars, deskVars, mishaps,
                   adminVars>>

HooksNext ==
    /\ part = "hooks"
    /\ Hooks!Next
    /\ UNCHANGED <<part, crmVars, pushVars, healthVars, cacheVars, deskVars, mishaps,
                   adminVars>>

PushNext ==
    /\ part = "push"
    /\ Push!Next
    /\ UNCHANGED <<part, crmVars, hookVars, healthVars, cacheVars, deskVars, mishaps,
                   adminVars>>

HealthNext ==
    /\ part = "health"
    /\ Health!Next
    /\ UNCHANGED <<part, crmVars, hookVars, pushVars, cacheVars, deskVars,
                   adminVars>>

CacheNext ==
    /\ part = "cache"
    /\ Cache!Next
    /\ UNCHANGED <<part, crmVars, hookVars, pushVars, healthVars, deskVars, mishaps,
                   adminVars>>

DeskNext ==
    /\ part = "desk"
    /\ Desk!Next
    /\ UNCHANGED <<part, crmVars, hookVars, pushVars, healthVars, cacheVars,
                   adminVars>>

\* The variables of the first six.
workerVars == <<crmVars, hookVars, pushVars, healthVars, cacheVars, deskVars, mishaps>>

IdsNext ==
    /\ part = "ids"
    /\ Ids!Next
    /\ UNCHANGED <<part, workerVars, menuVars, botVars, configVars, audienceVars, scheduleVars,
                   watchVars>>

MenuNext ==
    /\ part = "menu"
    /\ Tariffs!Next
    /\ UNCHANGED <<part, workerVars, idVars, botVars, configVars, audienceVars, scheduleVars,
                   watchVars>>

TalkNext ==
    /\ part = "talk"
    /\ Talk!Next
    /\ UNCHANGED <<part, workerVars, idVars, menuVars, configVars, audienceVars, scheduleVars,
                   watchVars>>

ConfigNext ==
    /\ part = "config"
    /\ Config!Next
    /\ UNCHANGED <<part, workerVars, idVars, menuVars, botVars, audienceVars, scheduleVars,
                   watchVars>>

AudienceNext ==
    /\ part = "audience"
    /\ Crowd!Next
    /\ UNCHANGED <<part, workerVars, idVars, menuVars, botVars, configVars, scheduleVars,
                   watchVars>>

ScheduleNext ==
    /\ part = "schedule"
    /\ Timetable!Next
    /\ UNCHANGED <<part, workerVars, idVars, menuVars, botVars, configVars, audienceVars,
                   watchVars>>

AlertsNext ==
    /\ part = "alerts"
    /\ Alerts!Next
    /\ UNCHANGED <<part, workerVars, idVars, menuVars, botVars, configVars, audienceVars,
                   scheduleVars, errorVars>>

ErrorsNext ==
    /\ part = "errors"
    /\ Errors!Next
    /\ UNCHANGED <<part, workerVars, idVars, menuVars, botVars, configVars, audienceVars,
                   scheduleVars, alertVars>>

Next ==
    \/ CrmNext \/ HooksNext \/ PushNext \/ HealthNext \/ CacheNext \/ DeskNext
    \/ IdsNext \/ MenuNext \/ TalkNext \/ ConfigNext \/ AudienceNext \/ ScheduleNext
    \/ AlertsNext \/ ErrorsNext

allVars == <<part, workerVars, adminVars>>

Spec == Init /\ [][Next]_allVars

\* Dashboard handlers and workers are interchangeable.
Slots == Permutations(Workers) \cup Permutations(Requests)

(***************************************************************************)
(* The properties of the parts, named as in their modules.                 *)
(***************************************************************************)

\* The variables of the part that moves keep their types; the others do not change.
TypeOK ==
    CASE part = "crm" -> Crm!TypeOK
      [] part = "hooks" -> Hooks!TypeOK
      [] part = "push" -> Push!TypeOK
      [] part = "health" -> Health!TypeOK
      [] part = "cache" -> Cache!TypeOK
      [] part = "desk" -> Desk!TypeOK
      [] part = "ids" -> Ids!TypeOK
      [] part = "menu" -> Tariffs!TypeOK
      [] part = "talk" -> Talk!TypeOK
      [] part = "config" -> Config!TypeOK
      [] part = "audience" -> Crowd!TypeOK
      [] part = "schedule" -> Timetable!TypeOK
      [] part = "alerts" -> Alerts!TypeOK
      [] part = "errors" -> Errors!TypeOK

\* execute_crm_campaign handles a user at most once for each launch.
GrantedOncePerLaunch == Crm!GrantedOncePerLaunch

\* A campaign shown as completed has reached every user it was for, and the repeat policy
\* of an event holds for every user.
CampaignsSound == part = "crm" => Crm!CampaignsSound

\* A queued campaign has a job, or somebody who will enqueue it.
NotForgotten == Crm!NotForgotten

\* A webhook rule does not reach a user twice within its cooldown.
CooldownKept == part = "hooks" => Hooks!CooldownKept

\* A phone is notified once per launch, and a completed push accounts for all of them.
PushLaunchesSound == part = "push" => Push!PushLaunchesSound

\* No request is counted twice in minute rows and hours together; the chat knows the alerts
\* that are on, once; every failed request is stored, sampled out or counted as dropped.
TelemetrySound ==
    /\ part = "health" => Health!CountedOnce
    /\ part = "alerts" => Alerts!AlertsSound
    /\ part = "errors" => Errors!ErrorsSound

\* A request that waits for another's panel lookup is answered.
WaitersAnswered == Cache!WaitersAnswered

\* The script moves no profile and no primary row, and alone it finishes what it planned.
BackfillIsSafe == Ids!BackfillIsSafe

\* Every surface shows the tariffs it sells and sells the tariffs it shows.
MenuSells == part = "menu" => Tariffs!MenuSells

\* Every attachment row of a ticket has its file on disk; what the admin writes in the
\* support chat reaches the user of the last prompt, and the log is true.
SupportSound ==
    /\ part = "desk" => Desk!RowsHaveFiles
    /\ part = "talk" => Talk!AnswersArrive

\* What is saved stays saved and reaches the processes, and never takes Android down.
ConfigSound == part = "config" => Config!ConfigSound

\* Preview and worker find exactly those for whom the conditions hold, and no failing
\* request lets anybody else in; the next run of an event is the first moment its schedule
\* names.
EventsSound ==
    /\ part = "audience" => Crowd!AudienceSound
    /\ part = "schedule" => Timetable!ScheduleKept
=============================================================================
