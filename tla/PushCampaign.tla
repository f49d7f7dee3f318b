---------------------------- MODULE PushCampaign ----------------------------
(***************************************************************************)
(* A push campaign: launched from the dashboard, run by an arq job that    *)
(* sends to all tokens of the audience in parallel.                        *)
(*                                                                         *)
(* Sources: services/dashboard/backend (routers/push.py, push_runner.py,   *)
(* fcm_sender.py), packages/common_db/common_db/repo (push.py, fcm.py).    *)
(*                                                                         *)
(* The sends share two counters.  asyncio.gather reports the first         *)
(* exception and leaves the other sends running: they go on beside the     *)
(* next launch, which a failed campaign allows.                            *)
(***************************************************************************)
EXTENDS Naturals, FiniteSets

CONSTANTS
    Tokens,
    Devices,         \* tokens registered at the start
    Runs,            \* jobs, in the order in which they are queued: 1..n
    ProgressEvery,   \* 25
    MaxOutages       \* bound: database errors, crashes, lost jobs

VARIABLES
    push,        \* push_campaigns: status, sent, failed, total
    tokens,      \* android_fcm_tokens
    run,         \* run[k]: the k-th job of the campaign
    rows,        \* push_campaign_deliveries, as <<run, token>>
    pushes,      \* history: pushes[t], notifications accepted for t
    lost,        \* history: runs whose job never started or died
    outages

pushVars == <<push, tokens, run, rows, pushes, lost, outages>>

NotQueued == [pc |-> "none", targets |-> {}, todo |-> {}, flying |-> {}, sent |-> 0, failed |-> 0]

Init ==
    /\ push = [status |-> "draft", sent |-> 0, failed |-> 0, total |-> 0]
    /\ tokens = Devices
    /\ run = [k \in Runs |-> NotQueued]
    /\ rows = {}
    /\ pushes = [t \in Tokens |-> 0]
    /\ lost = {}
    /\ outages = 0

Outage == outages < MaxOutages /\ outages' = outages + 1

-----------------------------------------------------------------------------
(* The dashboard and the phones *)

\* POST /campaigns/{id}/launch: a draft or a failed campaign with an audience.
Launchable == push.status \in {"draft", "failed"}

Launch(k) ==
    /\ run[k].pc = "none" /\ \A i \in Runs : i < k => run[i].pc # "none"
    /\ Launchable
    /\ tokens # {}
    /\ push' = [push EXCEPT !.status = "queued", !.total = Cardinality(tokens)]
    /\ run' = [run EXCEPT ![k].pc = "enqueue"]
    /\ UNCHANGED <<tokens, rows, pushes, lost, outages>>

\* The job follows the commit, unless redis is down (503).
Enqueue(k) ==
    /\ run[k].pc = "enqueue"
    /\ \/ run' = [run EXCEPT ![k].pc = "queued"] /\ UNCHANGED <<lost, outages>>
       \/ Outage /\ run' = [run EXCEPT ![k].pc = "over"] /\ lost' = lost \cup {k}
    /\ UNCHANGED <<push, tokens, rows, pushes>>

\* The app registers a token.
Register(t) ==
    /\ t \notin tokens
    /\ tokens' = tokens \cup {t}
    /\ UNCHANGED <<push, run, rows, pushes, lost, outages>>

\* Logging out removes it.
Unregister(t) ==
    /\ t \in tokens
    /\ tokens' = tokens \ {t}
    /\ UNCHANGED <<push, run, rows, pushes, lost, outages>>

-----------------------------------------------------------------------------
(* The job *)

\* The settings of FCM were removed meanwhile: failed, whatever the status was.
NotConfigured(k) ==
    /\ run[k].pc = "queued"
    /\ Outage
    /\ push' = [push EXCEPT !.status = "failed"]
    /\ run' = [run EXCEPT ![k].pc = "over"]
    /\ UNCHANGED <<tokens, rows, pushes, lost>>

\* The tokens of this moment, in one transaction with the status.
Start(k) ==
    /\ run[k].pc = "queued"
    /\ push.status \in {"queued", "running"}
    /\ push' = [push EXCEPT !.status = "running", !.total = Cardinality(tokens)]
    /\ run' = [run EXCEPT ![k] = [NotQueued EXCEPT !.pc = "sending", !.targets = tokens,
                                                   !.todo = tokens]]
    /\ UNCHANGED <<tokens, rows, pushes, lost, outages>>

\* send_notification: accepted, refused, or refused because the token is dead, which
\* the commit of the delivery row removes.
Send(k, t) ==
    /\ t \in run[k].todo
    /\ \/ /\ pushes' = [pushes EXCEPT ![t] = @ + 1]
          /\ run' = [run EXCEPT ![k].todo = @ \ {t}, ![k].flying = @ \cup {<<t, "sent">>}]
       \/ /\ \E answer \in {"failed", "dead"} :
               run' = [run EXCEPT ![k].todo = @ \ {t}, ![k].flying = @ \cup {<<t, answer>>}]
          /\ UNCHANGED pushes
    /\ UNCHANGED <<push, tokens, rows, lost, outages>>

\* Faulty variant: refused sends are not counted.
CountSent(r, f) ==
    [r EXCEPT !.flying = @ \ {f}, !.sent = @ + (IF f[2] = "sent" THEN 1 ELSE 0)]

Count(r, f) ==
    [r EXCEPT !.flying = @ \ {f},
              !.sent = @ + (IF f[2] = "sent" THEN 1 ELSE 0),
              !.failed = @ + (IF f[2] = "sent" THEN 0 ELSE 1)]

\* Delivery row, dead token, counters, and now and then the progress.
Record(k, f) ==
    LET r == Count(run[k], f)
        done == r.sent + r.failed
    IN
    /\ f \in run[k].flying
    /\ rows' = rows \cup {<<k, f[1]>>}
    /\ tokens' = IF f[2] = "dead" THEN tokens \ {f[1]} ELSE tokens
    /\ run' = [run EXCEPT ![k] = r]
    /\ push' = IF done % ProgressEvery = 0 \/ done = Cardinality(r.targets)
               THEN [push EXCEPT !.sent = r.sent, !.failed = r.failed] ELSE push
    /\ UNCHANGED <<pushes, lost, outages>>

\* gather returns when all sends are done, or with the first exception.
FinalStatus(k) == IF run[k].pc = "raised" THEN "failed" ELSE "completed"

Finish(k) ==
    /\ \/ run[k].pc = "sending" /\ run[k].todo = {} /\ run[k].flying = {}
       \/ run[k].pc = "raised"
    /\ push' = [push EXCEPT !.status = FinalStatus(k), !.sent = run[k].sent,
                            !.failed = run[k].failed]
    /\ run' = [run EXCEPT ![k].pc = "over"]
    /\ UNCHANGED <<tokens, rows, pushes, lost, outages>>

\* The row of one send cannot be written: that send is over and not counted.
RecordRaises(k, f) ==
    /\ f \in run[k].flying
    /\ Outage
    /\ run' = [run EXCEPT ![k].flying = @ \ {f},
                          ![k].pc = IF @ = "sending" THEN "raised" ELSE @]
    /\ UNCHANGED <<push, tokens, rows, pushes, lost>>

\* Faulty variant: a job that is stopped is tried again by arq.
TriedAgain(k) == [run EXCEPT ![k] = [NotQueued EXCEPT !.pc = "queued"]]

\* The worker stops: job and sends are gone, max_tries is 1.
Stopped(k) == [run EXCEPT ![k] = [NotQueued EXCEPT !.pc = "over"]]

JobStops(k) ==
    /\ run[k].pc \in {"queued", "sending", "raised", "over"}
    /\ run[k].pc = "over" => run[k].todo \cup run[k].flying # {}
    /\ Outage
    /\ run' = Stopped(k)
    /\ lost' = lost \cup {k}
    /\ UNCHANGED <<push, tokens, rows, pushes>>

Next ==
    \/ \E k \in Runs :
         \/ Launch(k) \/ Enqueue(k) \/ NotConfigured(k) \/ Start(k) \/ Finish(k) \/ JobStops(k)
         \/ \E t \in Tokens : Send(k, t)
         \/ \E f \in run[k].flying : Record(k, f) \/ RecordRaises(k, f)
    \/ \E t \in Tokens : Register(t) \/ Unregister(t)

Spec == Init /\ [][Next]_pushVars

-----------------------------------------------------------------------------
(* Properties *)

Answers == {"sent", "failed", "dead"}

\* Types of all variables.
TypeOK ==
    /\ push \in [status : {"draft", "queued", "running", "completed", "failed"},
                 sent : Nat, failed : Nat, total : Nat]
    /\ tokens \subseteq Tokens
    /\ run \in [Runs -> [pc : {"none", "enqueue", "queued", "sending", "raised", "over"},
                         targets : SUBSET Tokens, todo : SUBSET Tokens,
                         flying : SUBSET (Tokens \X Answers), sent : Nat, failed : Nat]]
    /\ rows \subseteq Runs \X Tokens
    /\ pushes \in [Tokens -> Nat]
    /\ lost \subseteq Runs
    /\ outages \in Nat

Launched == {k \in Runs : run[k].pc # "none"}

\* A phone is notified at most once per launch, also while the leftovers of a failed
\* run go on beside the next one.
PushedOncePerLaunch ==
    \A t \in Tokens : pushes[t] <= Cardinality(Launched)

\* "completed" means that every token of the audience has its delivery row, and,
\* when there was one launch, that the two counters account for all of them.
PushCompletedReachedAll ==
    push.status = "completed" =>
        \E k \in Launched :
            /\ \A t \in run[k].targets : <<k, t>> \in rows
            /\ Cardinality(Launched) = 1 => push.sent + push.failed = push.total

\* Both hold however the sends of several launches lie.
PushLaunchesSound == PushedOncePerLaunch /\ PushCompletedReachedAll
=============================================================================
