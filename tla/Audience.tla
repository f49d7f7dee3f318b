------------------------------- MODULE Audience -------------------------------
(***************************************************************************)
(* Whom a CRM campaign reaches: the conditions an admin puts together, the *)
(* preview of their audience, a campaign created or launched with them and *)
(* the worker that resolves its targets once more, the scheduled event     *)
(* that freezes an audience.  A condition is a segment, a type of user, a  *)
(* manual selection or a filter on the panel's data.                       *)
(*                                                                         *)
(* One evaluation is one step: it reads the rows once and then asks the    *)
(* panel; the requests to the panel fail independently (trouble).  Traffic *)
(* is counted in halves of a gigabyte.  Segments are named as in the code. *)
(***************************************************************************)
EXTENDS Naturals, Sequences, FiniteSets, SequencesExt

CONSTANTS Users,      \* the people in the table of users
          People,     \* what may be known of one of them
          Changes,    \* what may become known of them later
          Lists,      \* the lists of conditions admins send
          Picks,      \* the lists of Telegram ids sent with a request
          MaxSteps    \* bound: requests and changes

VARIABLES person,     \* user -> the row and what the panel says
          asked,      \* the conditions an admin has put together
          campaign,   \* the campaign's row
          answer,     \* whom the last preview or the worker found, while nobody has changed
          steps

audienceVars == <<person, asked, campaign, answer, steps>>

RwTypes == {"rw_tag", "rw_internal_squad", "rw_traffic_limit"}

\* The requests an evaluation makes: the reports of torrents, the list of users, devices
\* that the list lacks, the users of a tag, the list once more.
PanelRequests == {"torrents", "list", "devices", "tags", "listAgain"}

Unknown == 99

None == [by |-> "none", whole |-> TRUE, users |-> {}]

NoCampaign == [state |-> "none", conditions |-> <<>>, targets |-> {}]

(***************************************************************************)
(* Segments                                                                *)
(***************************************************************************)

\* A user without a date of expiration has no days left.
DaysLeft(p) == CASE p.expires = "soon" -> 1 [] p.expires = "later" -> 30 [] OTHER -> 0

MatchesRwSegment(p, segment) ==
    \/ segment = "never_connected" /\ ~p.connected
    \/ segment = "expired" /\ p.status = "expired"
    \/ segment = "limited" /\ p.status = "limited"
    \* The default threshold: 80 per cent.
    \/ segment = "traffic_low" /\ p.limit > 0 /\ 10 * p.used >= 8 * p.limit
    \/ segment = "expiring_soon" /\ p.status \in {"active", "limited"} /\ DaysLeft(p) <= 3
    \/ /\ segment = "device_limit"
       /\ p.deviceLimit # Unknown /\ p.deviceLimit > 0
       /\ p.devices # Unknown /\ p.devices >= p.deviceLimit

\* The count of devices is asked for where the list of users has none.
Enriched(p, trouble) ==
    IF p.counted \/ "devices" \notin trouble THEN p ELSE [p EXCEPT !.devices = Unknown]

PaidOrVip(p) == p.paid \/ p.vip

FilterUsersByType(S, type) ==
    CASE type = "free" -> {u \in S : ~PaidOrVip(person[u])}
      [] type = "paid_vip" -> {u \in S : PaidOrVip(person[u])}
      [] OTHER -> S

BroadcastEligible == {u \in Users : person[u].tg /\ ~person[u].banned}

RemnawaveBroadcast == {u \in BroadcastEligible : person[u].remnawave}

\* The users of the panel's list that have a row, where the list could be read.
Joined(type, trouble) ==
    {u \in FilterUsersByType(RemnawaveBroadcast, type) :
        "list" \notin trouble /\ person[u].listed}

Reported(p, trouble) == "torrents" \notin trouble /\ p.torrent

ScanSegment(segment, type, trouble) ==
    CASE segment = "unpaid_invoice" ->
           FilterUsersByType({u \in BroadcastEligible : person[u].invoice}, type)
      [] segment = "all_users" -> FilterUsersByType(BroadcastEligible, type)
      [] segment = "torrent" ->
           {u \in Joined(type, trouble) : Reported(person[u], trouble)}
      [] OTHER ->
           {u \in Joined(type, trouble) :
               MatchesRwSegment(Enriched(person[u], trouble), segment)}

(***************************************************************************)
(* Conditions                                                              *)
(***************************************************************************)

OfType(conditions, type) == SelectSeq(conditions, LAMBDA c : c.type = type)

\* Of several segments, types and tags the last one counts.
SegmentId(conditions) ==
    LET s == OfType(conditions, "segment") IN IF s = <<>> THEN "none" ELSE Last(s).value

\* A type among the segment's parameters comes before a condition on the type.
UserType(conditions) ==
    LET s == OfType(conditions, "segment")
        t == OfType(conditions, "user_type")
    IN  CASE s # <<>> /\ Last(s).param # "none" -> Last(s).param
          [] t # <<>> -> Last(t).value
          [] OTHER -> "all"

\* The selections together; one without anybody restricts nothing.
Allowlist(conditions) ==
    UNION {conditions[i].value : i \in {j \in DOMAIN conditions :
                                            conditions[j].type = "tg_allowlist"}}

MatchesTrafficLimit(p, gb) ==
    IF gb = 0 THEN p.limit = 0 ELSE p.limit \div 2 = gb

MatchesFilter(p, c) ==
    CASE c.type = "rw_internal_squad" -> p.squad = c.value
      [] c.type = "rw_traffic_limit" -> MatchesTrafficLimit(p, c.value)
      [] OTHER -> TRUE

WithTag(S, tag) == {u \in S : person[u].remnawave /\ person[u].tag = tag}

\* A faulty variant: a request for the tag's users that fails leaves everybody in.
TaggedOpen(S, tags, trouble) ==
    IF tags = <<>> \/ "tags" \in trouble THEN S ELSE WithTag(S, Last(tags).value)

\* The users of the last tag; nobody when tags cannot be read or the panel has none with one.
Tagged(S, tags, trouble) ==
    CASE tags = <<>> -> S
      [] "tags" \in trouble \/ \E i \in DOMAIN tags : WithTag(Users, tags[i].value) = {} -> {}
      [] OTHER -> WithTag(S, Last(tags).value)

\* The other filters go by the panel's list, read once more.
ApplyRwFilters(S, conditions, trouble) ==
    LET filters == SelectSeq(conditions, LAMBDA c : c.type \in RwTypes)
        tags == OfType(filters, "rw_tag")
        tagged == Tagged(S, tags, trouble)
    IN  IF Len(tags) = Len(filters) THEN tagged
        ELSE {u \in tagged : /\ person[u].remnawave
                             /\ person[u].listed /\ "listAgain" \notin trouble
                             /\ \A i \in DOMAIN filters : MatchesFilter(person[u], filters[i])}

EvaluateConditions(conditions, trouble) ==
    LET scanned == ScanSegment(SegmentId(conditions), UserType(conditions), trouble)
        filtered == ApplyRwFilters(scanned, conditions, trouble)
        allow == Allowlist(conditions)
    IN  CASE SegmentId(conditions) = "none" -> {}
          [] allow # {} -> filtered \cap allow
          [] OTHER -> filtered

ValidateConditions(conditions) ==
    /\ Len(OfType(conditions, "segment")) = 1
    /\ \A i \in DOMAIN conditions :
          conditions[i].type \in {"rw_tag", "rw_internal_squad"} => conditions[i].value # ""

\* The flat fields of the time before conditions; of several selections the last.
SyncFlat(conditions) ==
    LET a == OfType(conditions, "tg_allowlist")
    IN  [segment |-> SegmentId(conditions),
         type |-> IF OfType(conditions, "user_type") = <<>> THEN UserType(conditions)
                  ELSE Last(OfType(conditions, "user_type")).value,
         targets |-> IF a = <<>> THEN {} ELSE Last(a).value]

FlatToConditions(flat) ==
    IF flat.segment = "none" THEN <<>>
    ELSE <<[type |-> "segment", value |-> flat.segment, param |-> "none"]>>
         \o (IF flat.type = "all" THEN <<>>
             ELSE <<[type |-> "user_type", value |-> flat.type]>>)
         \o (IF flat.targets = {} THEN <<>>
             ELSE <<[type |-> "tg_allowlist", value |-> flat.targets]>>)

(***************************************************************************)
(* Requests                                                                *)
(***************************************************************************)

Init ==
    /\ person \in [Users -> People]
    /\ asked \in Lists
    /\ campaign = NoCampaign /\ answer = None /\ steps = 0

Step == steps < MaxSteps /\ steps' = steps + 1

EvaluateConditionsPreview(trouble) ==
    /\ Step
    /\ answer' = [by |-> "preview", whole |-> trouble = {},
                  users |-> EvaluateConditions(asked, trouble)]
    /\ UNCHANGED <<person, asked, campaign>>

\* A stored selection is taken as it is; nothing else is evaluated then.
ResolveTargets(c, override, trouble) ==
    CASE override # {} -> override
      [] c.targets # {} -> c.targets
      [] OTHER -> EvaluateConditions(c.conditions, trouble)

\* The targets of the row are those of the request, else those the conditions name.
NewCampaign(state, conditions, pick) ==
    [state |-> state, conditions |-> conditions,
     targets |-> IF pick # {} THEN pick ELSE SyncFlat(conditions).targets]

\* A campaign of the earlier form: its conditions are made from the flat fields.
Legacy(pick) ==
    FlatToConditions([segment |-> SegmentId(asked), type |-> UserType(asked),
                      targets |-> pick])

CreateCampaign(conditions, pick) ==
    /\ Step
    /\ campaign.state = "none"
    /\ ValidateConditions(conditions)
    /\ campaign' = NewCampaign("draft", conditions, pick)
    /\ answer' = None
    /\ UNCHANGED <<person, asked>>

\* Launching puts the selection of the request in the place of the conditions' own.
LaunchCampaign(conditions, pick, trouble) ==
    LET kept == IF pick = {} THEN conditions
                ELSE Append(SelectSeq(conditions, LAMBDA c : c.type # "tg_allowlist"),
                            [type |-> "tg_allowlist", value |-> pick])
        new == [NewCampaign("queued", conditions, pick) EXCEPT !.conditions = kept]
    IN  /\ Step
        /\ campaign.state = "none"
        /\ ValidateConditions(conditions)
        /\ ResolveTargets(new, {}, trouble) # {}
        /\ campaign' = new
        /\ answer' = None
        /\ UNCHANGED <<person, asked>>

\* The override decides whether there is anybody to reach; the job does not hear of it.
ExecuteCampaign(override, trouble) ==
    /\ Step
    /\ campaign.state \in {"draft", "done"}
    /\ ResolveTargets(campaign, override, trouble) # {}
    /\ campaign' = [campaign EXCEPT !.state = "queued"]
    /\ answer' = None
    /\ UNCHANGED <<person, asked>>

\* The worker resolves the targets once more.
ExecuteCrmCampaign(trouble) ==
    /\ campaign.state = "queued"
    /\ campaign' = [campaign EXCEPT !.state = "done"]
    /\ answer' = [by |-> "worker", whole |-> trouble = {},
                  users |-> ResolveTargets(campaign, {}, trouble)]
    /\ UNCHANGED <<person, asked, steps>>

\* A scheduled event evaluates its conditions and freezes the answer as a selection.
RunCrmEvent(trouble) ==
    LET found == EvaluateConditions(asked, trouble)
    IN  /\ Step
        /\ campaign.state = "none"
        /\ ValidateConditions(asked)
        /\ found # {}
        /\ campaign' = NewCampaign("queued",
                           Append(SelectSeq(asked, LAMBDA c : c.type # "tg_allowlist"),
                                  [type |-> "tg_allowlist", value |-> found]), found)
        /\ answer' = None
        /\ UNCHANGED <<person, asked>>

\* People pay, are banned, and the panel learns more of them.
PersonChanges(u) ==
    /\ Step
    /\ person' \in {[person EXCEPT ![u] = p] : p \in Changes \ {person[u]}}
    /\ answer' = None
    /\ UNCHANGED <<asked, campaign>>

\* One request fails, or none.
Troubles == {{}} \cup {{r} : r \in PanelRequests}

Next ==
    \/ \E trouble \in Troubles :
        \/ EvaluateConditionsPreview(trouble) \/ RunCrmEvent(trouble)
        \/ ExecuteCrmCampaign(trouble)
        \/ \E pick \in Picks :
            \/ LaunchCampaign(asked, pick, trouble) \/ LaunchCampaign(Legacy(pick), pick, trouble)
            \/ ExecuteCampaign(pick, trouble)
    \/ \E pick \in Picks : CreateCampaign(asked, pick) \/ CreateCampaign(Legacy(pick), pick)
    \/ \E u \in Users : PersonChanges(u)

Spec == Init /\ [][Next]_audienceVars

TypeOK ==
    /\ person \in [Users -> People \cup Changes] /\ asked \in Lists
    /\ answer.by \in {"none", "preview", "worker"} /\ answer.whole \in BOOLEAN
    /\ answer.users \subseteq Users
    /\ campaign.state \in {"none", "draft", "queued", "done"} /\ campaign.targets \subseteq Users
    /\ steps \in 0..MaxSteps

(***************************************************************************)
(* What the conditions mean, one by one                                    *)
(***************************************************************************)

Holds(p, u, c) ==
    CASE c.type = "segment" ->
           /\ p.tg /\ ~p.banned
           /\ c.value \notin {"all_users", "unpaid_invoice"} => p.remnawave /\ p.listed
           /\ CASE c.value = "all_users" -> TRUE
                [] c.value = "unpaid_invoice" -> p.invoice
                [] c.value = "torrent" -> p.torrent
                [] OTHER -> MatchesRwSegment(p, c.value)
           /\ c.param = "free" => ~(p.paid \/ p.vip)
           /\ c.param = "paid_vip" => p.paid \/ p.vip
      [] c.type = "user_type" ->
           (c.value = "free" => ~(p.paid \/ p.vip)) /\ (c.value = "paid_vip" => p.paid \/ p.vip)
      [] c.type = "tg_allowlist" -> u \in c.value
      [] c.type = "rw_tag" -> p.remnawave /\ p.tag = c.value
      [] c.type = "rw_internal_squad" -> p.remnawave /\ p.listed /\ p.squad = c.value
      [] OTHER -> /\ p.remnawave /\ p.listed
                  /\ p.limit \in (IF c.value = 0 THEN {0} ELSE {2 * c.value, 2 * c.value + 1})

Meant(conditions) ==
    {u \in Users : \A i \in DOMAIN conditions : Holds(person[u], u, conditions[i])}

\* Lists whose conditions the code takes one by one: one segment, one type, one tag, and a
\* selection of somebody.
Plain(conditions) ==
    /\ Len(OfType(conditions, "segment")) = 1
    /\ Len(OfType(conditions, "user_type")) <= 1 /\ Len(OfType(conditions, "rw_tag")) <= 1
    /\ Len(OfType(conditions, "tg_allowlist")) <= 1
    /\ OfType(conditions, "tg_allowlist") # <<>> => Allowlist(conditions) # {}
    /\ OfType(conditions, "user_type") # <<>> => Last(OfType(conditions, "segment")).param = "none"

Exactly(conditions) ==
    Plain(conditions) => IF answer.whole THEN answer.users = Meant(conditions)
                         ELSE answer.users \subseteq Meant(conditions)

\* The preview shows exactly those for whom each condition holds; a request that fails
\* hides some of them and never lets anybody else in.
PreviewExact == answer.by = "preview" => Exactly(asked)

\* The worker reaches the selection if there is one, and otherwise those for whom the
\* campaign's conditions hold at that time, whoever was shown when it was launched.
ReachesMeant ==
    answer.by = "worker" =>
        IF campaign.targets # {} THEN answer.users = campaign.targets
        ELSE Exactly(campaign.conditions)

\* Nobody who is banned is reached unless somebody selected him before.
BannedSpared == \A u \in answer.users : person[u].banned => u \in campaign.targets

AudienceSound == PreviewExact /\ ReachesMeant /\ BannedSpared
=============================================================================
