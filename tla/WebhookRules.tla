---------------------------- MODULE WebhookRules ----------------------------
(***************************************************************************)
(* CRM webhook rules: a webhook of the panel becomes an arq job that runs  *)
(* the actions of every enabled rule for the user it names.                *)
(*                                                                         *)
(* Sources: bot/app/api (remnawave_webhook.py, crm_webhook_queue.py),      *)
(* services/dashboard/backend/crm_webhook_runner.py and                    *)
(* packages/common_db/common_db/repo/crm_webhooks.py.                      *)
(*                                                                         *)
(* The job is one database transaction.  It counts the webhook on every    *)
(* rule first, and the row locks of these updates are all that stands      *)
(* between two jobs of one user and the cooldown check.                    *)
(***************************************************************************)
EXTENDS Naturals, Sequences, FiniteSets

CONSTANTS
    Rules, Users, Jobs,
    NoUser, NoJob,
    Reachable,      \* users with a row, not banned, with a Telegram id
    MaxWebhooks,    \* bound: webhooks that arrive
    MaxTrouble      \* bound: crashes, admin changes, passings of a cooldown, together

VARIABLES
    rule,       \* crm_webhook_rules: exists, enabled, webhooks_received
    holder,     \* holder[r]: the job that has the lock of the rule's row
    logged,     \* logged[r]: users with a delivery within the cooldown
    job,        \* job[j]: an arq job
    heard,      \* history: heard[r][u], actions run since the cooldown last allowed them
    excused,    \* history: excused[r][u], runs whose delivery row was rolled back
    matched,    \* history: matched[r], webhooks counted and committed
    webhooks, trouble

hookVars == <<rule, holder, logged, job, heard, excused, matched, webhooks, trouble>>

Idle == [pc |-> "idle", user |-> NoUser, rules |-> <<>>, at |-> 1, seen |-> [r \in Rules |-> 0],
         rows |-> {}]

Init ==
    /\ rule = [r \in Rules |-> [exists |-> TRUE, enabled |-> TRUE, received |-> 0]]
    /\ holder = [r \in Rules |-> NoJob]
    /\ logged = [r \in Rules |-> {}]
    /\ job = [j \in Jobs |-> Idle]
    /\ heard = [r \in Rules |-> [u \in Users |-> 0]]
    /\ excused = [r \in Rules |-> [u \in Users |-> 0]]
    /\ matched = [r \in Rules |-> 0]
    /\ webhooks = 0 /\ trouble = 0

Trouble == trouble < MaxTrouble /\ trouble' = trouble + 1

\* The orders in which a query without ORDER BY may return the rows of S.
Listings(S) ==
    {s \in [1..Cardinality(S) -> S] : {s[i] : i \in DOMAIN s} = S}

Current(j) == job[j].rules[job[j].at]

-----------------------------------------------------------------------------
(* The job *)

\* The webhook is acknowledged, queued and taken by a worker; a webhook that finds
\* no redis is only logged.
Receive(j, u) ==
    /\ job[j].pc = "idle"
    /\ webhooks < MaxWebhooks
    /\ webhooks' = webhooks + 1
    /\ job' = [job EXCEPT ![j] = [Idle EXCEPT !.pc = "list", !.user = u]]
    /\ UNCHANGED <<rule, holder, logged, heard, excused, matched, trouble>>

\* list_enabled_matching
ListRules(j) ==
    LET S == {r \in Rules : rule[r].exists /\ rule[r].enabled} IN
    /\ job[j].pc = "list"
    /\ \E s \in Listings(S) :
         job' = [job EXCEPT ![j].pc = IF S = {} THEN "commit" ELSE "bump", ![j].rules = s,
                            ![j].seen = [r \in Rules |-> rule[r].received]]
    /\ UNCHANGED <<rule, holder, logged, heard, excused, matched, webhooks, trouble>>

\* Faulty variant: an update that waits for nobody.
NoWait(r) == TRUE

\* The row can be written: nobody else has written it and not yet committed.
Free(r) == holder[r] = NoJob

\* bump_stats writes the rule's row.
Bump(j) ==
    LET r == Current(j)
        last == job[j].at = Len(job[j].rules)
    IN
    /\ job[j].pc = "bump"
    /\ Free(r)
    /\ rule[r].exists
    /\ holder' = [holder EXCEPT ![r] = j]
    /\ job' = [job EXCEPT
         ![j].at = IF last THEN 1 ELSE @ + 1,
         ![j].pc = IF ~last THEN "bump"
                   ELSE IF job[j].user \in Reachable THEN "check" ELSE "commit"]
    /\ UNCHANGED <<rule, logged, heard, excused, matched, webhooks, trouble>>

Advance(t) ==
    IF t.at = Len(t.rules) THEN [t EXCEPT !.pc = "commit"]
    ELSE [t EXCEPT !.at = @ + 1, !.pc = "check"]

\* has_recent_delivery: what was committed before, and the job's own rows.
Recent(j, r) == job[j].user \in logged[r] \/ r \in job[j].rows

SkipRule(j) ==
    /\ job[j].pc = "check"
    /\ Recent(j, Current(j))
    /\ job' = [job EXCEPT ![j] = Advance(@)]
    /\ UNCHANGED <<rule, holder, logged, heard, excused, matched, webhooks, trouble>>

\* A delivery row, added to the job's transaction.
Noted(t, r) == [t EXCEPT !.rows = @ \cup {r}]

\* execute_user_actions: perks and message take effect at once, the delivery row is
\* added when one of them did.
RunActions(j) ==
    LET r == Current(j) IN
    /\ job[j].pc = "check"
    /\ ~Recent(j, r)
    /\ \/ /\ heard' = [heard EXCEPT ![r][job[j].user] = @ + 1]
          /\ job' = [job EXCEPT ![j] = Advance(Noted(@, r))]
       \/ /\ job' = [job EXCEPT ![j] = Advance(@)]
          /\ UNCHANGED heard
    /\ UNCHANGED <<rule, holder, logged, excused, matched, webhooks, trouble>>

Released(j) == [r \in Rules |-> IF holder[r] = j THEN NoJob ELSE holder[r]]

\* The counter that was read before the lock goes up by one.
Commit(j) ==
    /\ job[j].pc = "commit"
    /\ rule' = [r \in Rules |->
         IF holder[r] = j THEN [rule[r] EXCEPT !.received = job[j].seen[r] + 1] ELSE rule[r]]
    /\ matched' = [r \in Rules |-> matched[r] + (IF holder[r] = j THEN 1 ELSE 0)]
    /\ logged' = [r \in Rules |->
         IF r \in job[j].rows THEN logged[r] \cup {job[j].user} ELSE logged[r]]
    /\ holder' = Released(j)
    /\ job' = [job EXCEPT ![j] = Idle]
    /\ UNCHANGED <<heard, excused, webhooks, trouble>>

Rollback(j) ==
    /\ excused' = [r \in Rules |->
         IF r \in job[j].rows THEN [excused[r] EXCEPT ![job[j].user] = @ + 1] ELSE excused[r]]
    /\ holder' = Released(j)
    /\ job' = [job EXCEPT ![j] = Idle]
    /\ UNCHANGED <<rule, logged, heard, matched, webhooks>>

\* A rule deleted since it was listed: the update matches no row and the job raises.
RuleGone(j) ==
    /\ job[j].pc = "bump"
    /\ ~rule[Current(j)].exists
    /\ Rollback(j)
    /\ UNCHANGED trouble

\* Jobs that wait for one another.
Waits(i, j) == job[i].pc = "bump" /\ rule[Current(i)].exists /\ holder[Current(i)] = j

Deadlocked(j) == \E i \in Jobs : i # j /\ Waits(i, j) /\ Waits(j, i)

\* PostgreSQL fails one of them.
DeadlockVictim(j) ==
    /\ Deadlocked(j)
    /\ Rollback(j)
    /\ UNCHANGED trouble

\* The worker stops, or an exception leaves the transaction.
JobDies(j) ==
    /\ job[j].pc # "idle"
    /\ Trouble
    /\ Rollback(j)

-----------------------------------------------------------------------------
(* The admin, and time *)

\* PATCH: the update waits for the lock of the row.
ToggleRule(r) ==
    /\ Trouble
    /\ rule[r].exists /\ Free(r)
    /\ rule' = [rule EXCEPT ![r].enabled = ~@]
    /\ UNCHANGED <<holder, logged, job, heard, excused, matched, webhooks>>

\* DELETE: the deliveries go with the rule.
DeleteRule(r) ==
    /\ Trouble
    /\ rule[r].exists /\ Free(r)
    /\ rule' = [rule EXCEPT ![r].exists = FALSE]
    /\ logged' = [logged EXCEPT ![r] = {}]
    /\ UNCHANGED <<holder, job, heard, excused, matched, webhooks>>

\* cooldown_hours have passed since the last delivery.
CooldownPasses(r) ==
    /\ logged[r] # {}
    /\ Trouble
    /\ logged' = [logged EXCEPT ![r] = {}]
    /\ heard' = [heard EXCEPT ![r] = [u \in Users |-> IF u \in logged[r] THEN 0 ELSE heard[r][u]]]
    /\ UNCHANGED <<rule, holder, job, excused, matched, webhooks>>

Step(j) ==
    \/ ListRules(j) \/ Bump(j) \/ SkipRule(j) \/ RunActions(j) \/ Commit(j)
    \/ RuleGone(j) \/ DeadlockVictim(j)

Next ==
    \/ \E j \in Jobs, u \in Users : Receive(j, u)
    \/ \E j \in Jobs : Step(j) \/ JobDies(j)
    \/ \E r \in Rules : ToggleRule(r) \/ DeleteRule(r) \/ CooldownPasses(r)

Spec == Init /\ [][Next]_hookVars

-----------------------------------------------------------------------------
(* Properties *)

\* Types of all variables.
TypeOK ==
    /\ rule \in [Rules -> [exists : BOOLEAN, enabled : BOOLEAN, received : Nat]]
    /\ holder \in [Rules -> Jobs \cup {NoJob}]
    /\ logged \in [Rules -> SUBSET Users]
    /\ \A j \in Jobs :
         /\ job[j].pc \in {"idle", "list", "bump", "check", "commit"}
         /\ job[j].user \in Users \cup {NoUser}
         /\ job[j].rules \in Seq(Rules)
         /\ job[j].at \in Nat \ {0}
         /\ job[j].rows \subseteq Rules
    /\ heard \in [Rules -> [Users -> Nat]]
    /\ excused \in [Rules -> [Users -> Nat]]
    /\ webhooks \in Nat /\ trouble \in Nat

\* However webhooks of one user overlap, a rule acts on a user once per cooldown,
\* but for a run whose delivery row was lost with its transaction (the cooldown
\* check of execute_crm_webhook, which sees committed rows because the counters
\* are written first).
CooldownKept ==
    \A r \in Rules, u \in Users : heard[r][u] <= 1 + excused[r][u]

\* The counter of a rule is the number of webhooks counted on it ("Atomically bump
\* per-rule counters", bump_stats of crm_webhooks.py).
CountersAtomic ==
    \A r \in Rules : rule[r].received = matched[r]
=============================================================================
