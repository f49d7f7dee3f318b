---------------------------- MODULE HealthAlerts ----------------------------
(***************************************************************************)
(* The alerts of the API health worker, for one watched service.  Every    *)
(* minute api_health_tick probes the service, compares the last minutes    *)
(* and the probe with the thresholds, and tells the admin's chat what has  *)
(* begun or ended.  What it has told is kept in rows (ApiAlertState) that  *)
(* are committed at the end of the tick, after the messages are sent.      *)
(*                                                                         *)
(* One tick is one action: nobody else writes these rows.  A tick that     *)
(* fails has sent the messages of the alerts it came to.  The clock counts *)
(* minutes.                                                                *)
(***************************************************************************)
EXTENDS Naturals, Sequences

CONSTANTS Kinds,        \* alerts of the service in the order a tick looks at them:
                        \* "errors", "latency", "availability" or some of them
          Thresholds,   \* values of the setting health_failures
          Cooldown,     \* minutes between two reminders
          Keep,         \* minutes a row may go without an update (90 days)
          LastMinute,   \* bound: the clock stops here
          MaxEdits,     \* bound: edits of the settings
          MaxMishaps    \* bound: failed ticks and lost messages

\* talk, run, unlucky and rolledBack are history: the last two messages of an alert that
\* reached the chat, how many probes in a row have failed, which alerts had a mishap, and
\* whether a tick was rolled back.
VARIABLES now, settings, failures, row, talk, run, unlucky, rolledBack, edits, mishaps

vars == <<now, settings, failures, row, talk, run, unlucky, rolledBack, edits, mishaps>>

Never == LastMinute + 1

KindSet == {Kinds[i] : i \in DOMAIN Kinds}

\* A row that does not exist behaves as this one.
NewRow == [active |-> FALSE, sent |-> Never, updated |-> Never]

Silence == [says |-> "nothing", at |-> Never]

Init ==
    /\ now = 0
    /\ settings \in [enabled : {TRUE}, failures : Thresholds]
    /\ failures = 0
    /\ row = [k \in KindSet |-> NewRow]
    /\ talk = [k \in KindSet |-> <<Silence, Silence>>]
    /\ run = 0
    /\ unlucky = {}
    /\ rolledBack = FALSE
    /\ edits = 0
    /\ mishaps = 0

\* Faulty variant: a reminder's pause also holds back the news of another episode.
OnlyAfterPause(k, triggered) ==
    IF triggered
    THEN row[k].sent = Never \/ now - row[k].sent >= Cooldown
    ELSE row[k].active

\* _transition_alert sends a message: something begins or goes on for long, or it ends.
Sends(k, triggered) ==
    IF triggered
    THEN ~row[k].active \/ row[k].sent = Never \/ now - row[k].sent >= Cooldown
    ELSE row[k].active

Transition(k, triggered) ==
    [active |-> triggered,
     sent |-> IF Sends(k, triggered) THEN now ELSE row[k].sent,
     updated |-> now]

\* Faulty variant: a good probe does not start the count again.
Accumulated(healthy) == IF healthy THEN failures ELSE failures + 1

\* consecutive_failures after a probe.
Probed(healthy) == IF healthy THEN 0 ELSE failures + 1

\* _evaluate_alerts: the two alerts about the last minutes are over their threshold or
\* not, as the traffic has it; the third goes by the probes.
Triggered(k, over, healthy) ==
    IF k = "availability"
    THEN ~healthy /\ Probed(healthy) >= settings.failures
    ELSE k \in over

\* The first n alerts are looked at, the messages of those in lost do not arrive.
Looked(n) == {Kinds[i] : i \in 1..(IF settings.enabled THEN n ELSE 0)}

Talked(n, over, healthy, lost) ==
    [k \in KindSet |->
        IF k \in Looked(n) \ lost /\ Sends(k, Triggered(k, over, healthy))
        THEN <<talk[k][2],
               [says |-> IF Triggered(k, over, healthy) THEN "alert" ELSE "recovery",
                at |-> now]>>
        ELSE talk[k]]

\* The messages among them that were to be sent.
Spoken(n, over, healthy) ==
    {k \in Looked(n) : Sends(k, Triggered(k, over, healthy))}

\* apply_retention, once a day; the rows this tick has updated are young.
Retained(rows, retains) ==
    [k \in KindSet |->
        IF retains /\ rows[k].updated # Never /\ rows[k].updated + Keep < now
        THEN NewRow ELSE rows[k]]

\* A tick that commits.
Tick(over, healthy, lost, retains) ==
    /\ now < LastMinute
    /\ lost \subseteq Spoken(Len(Kinds), over, healthy)
    /\ IF lost = {} THEN UNCHANGED mishaps
       ELSE mishaps < MaxMishaps /\ mishaps' = mishaps + 1
    /\ failures' = Probed(healthy)
    /\ LET rows == [k \in KindSet |->
                       IF k \in Looked(Len(Kinds)) THEN Transition(k, Triggered(k, over, healthy))
                       ELSE row[k]]
       IN  /\ row' = Retained(rows, retains)
           /\ unlucky' = unlucky \cup lost
                         \cup {k \in KindSet : rows[k].active /\ ~row'[k].active}
    /\ talk' = Talked(Len(Kinds), over, healthy, lost)
    /\ run' = IF healthy THEN 0 ELSE run + 1
    /\ now' = now + 1
    /\ UNCHANGED <<settings, rolledBack, edits>>

\* A tick that fails after the first n alerts: its rows are rolled back, its messages sent.
TickFails(over, healthy, n) ==
    /\ now < LastMinute
    /\ mishaps < MaxMishaps /\ mishaps' = mishaps + 1
    /\ talk' = Talked(n, over, healthy, {})
    /\ unlucky' = unlucky \cup Spoken(n, over, healthy)
    /\ run' = IF healthy THEN 0 ELSE run + 1
    /\ rolledBack' = TRUE
    /\ now' = now + 1
    /\ UNCHANGED <<settings, failures, row, edits>>

\* A minute without a tick: no worker runs.
NoTick ==
    /\ now < LastMinute
    /\ now' = now + 1
    /\ UNCHANGED <<settings, failures, row, talk, run, unlucky, rolledBack, edits, mishaps>>

\* put_settings replaces the settings as a whole.
PutSettings(s) ==
    /\ edits < MaxEdits
    /\ settings' = s
    /\ edits' = edits + 1
    /\ UNCHANGED <<now, failures, row, talk, run, unlucky, rolledBack, mishaps>>

Next ==
    \/ \E over \in SUBSET (KindSet \ {"availability"}), healthy \in BOOLEAN :
         \/ \E lost \in SUBSET KindSet, retains \in BOOLEAN : Tick(over, healthy, lost, retains)
         \/ \E n \in 0..Len(Kinds) : TickFails(over, healthy, n)
    \/ NoTick
    \/ \E s \in [enabled : BOOLEAN, failures : Thresholds] : PutSettings(s)

Spec == Init /\ [][Next]_vars

Message == [says : {"nothing", "alert", "recovery"}, at : 0..Never]

TypeOK ==
    /\ now \in 0..LastMinute
    /\ settings \in [enabled : BOOLEAN, failures : Thresholds]
    /\ failures \in 0..LastMinute
    /\ row \in [KindSet -> [active : BOOLEAN, sent : 0..Never, updated : 0..Never]]
    /\ talk \in [KindSet -> Message \X Message]
    /\ run \in 0..LastMinute
    /\ unlucky \subseteq KindSet
    /\ rolledBack \in BOOLEAN
    /\ edits \in 0..MaxEdits
    /\ mishaps \in 0..MaxMishaps

(***************************************************************************)
(* What the chat knows.  An alert whose messages all arrived, and whose    *)
(* row was neither rolled back nor cleaned away, is active if and only if  *)
(* the last message about it says so: a trouble that begins is told even   *)
(* within the pause of the one before, one that ends is told to be over,   *)
(* also across a time in which alerts were switched off.                   *)
(***************************************************************************)
ChatInStep ==
    \A k \in KindSet \ unlucky : row[k].active <=> talk[k][2].says = "alert"

\* The messages about one alert are deduplicated: reminders of one trouble are Cooldown
\* apart, and it ends at most once.
Deduplicated ==
    \A k \in KindSet \ unlucky :
        LET before == talk[k][1]
            last == talk[k][2]
        IN  /\ before.says = "alert" /\ last.says = "alert" => before.at + Cooldown <= last.at
            /\ last.says = "recovery" => before.says = "alert"

\* The failures that are counted have followed one another, unless a tick was rolled back:
\* then a good probe may be forgotten between two bad ones.
FailuresInARow == ~rolledBack => failures = run

AlertsSound == ChatInStep /\ Deduplicated /\ FailuresInARow
=============================================================================
