---------------------------- MODULE EventSchedule ----------------------------
(***************************************************************************)
(* When a scheduled CRM event runs: the schedule an admin writes and edits,*)
(* the next run computed from it, the cron tick that runs what is due and  *)
(* the run itself, which reads the event, evaluates its audience and, much *)
(* later, writes the next run from the schedule it read.  What a run sends *)
(* is module Campaign's.  A day has Slots times, a week Week days; UTC.    *)
(***************************************************************************)
EXTENDS Naturals, FiniteSets, FiniteSetsExt

CONSTANTS Slots,     \* times of day at which an event may run
          Week,      \* days of a week
          Runs,      \* runs that may be under way together
          Edits,     \* the fields an admin's request may set
          LastMoment, MaxEdits   \* bounds

VARIABLES event,     \* the row
          run,       \* run -> the schedule it read
          now, edits,
          since,     \* ghost: the moment the next run was computed from
          crossed    \* ghost: an edit fell into a run that then wrote its own answer

scheduleVars == <<event, run, now, edits, since, crossed>>

Day(t) == (t \div Slots) % Week

NoDay == Week

Idle == [at |-> "idle", runAt |-> 0, weekly |-> FALSE, weekday |-> NoDay]

\* A day that was never given counts as the first of the week.
Target(weekday) == IF weekday = NoDay THEN 0 ELSE weekday

\* Today at the given time, or tomorrow.
Today(runAt, from) ==
    LET today == (from \div Slots) * Slots + runAt
    IN  IF today <= from THEN today + Slots ELSE today

\* Day after day until the weekday is right.
ComputeNextRunAt(s, from) ==
    LET candidate == Today(s.runAt, from)
    IN  IF s.weekly
        THEN candidate + Slots * Min({k \in 0..(Week - 1) :
                                         Day(candidate + k * Slots) = Target(s.weekday)})
        ELSE candidate

Init ==
    /\ event \in {[exists |-> TRUE, enabled |-> TRUE, runAt |-> r, weekly |-> w, weekday |-> d,
                   next |-> ComputeNextRunAt([runAt |-> r, weekly |-> w, weekday |-> d], 0)] :
                     r \in 0..(Slots - 1), w \in BOOLEAN, d \in 0..Week}
    /\ event.weekly => event.weekday # NoDay
    /\ run = [r \in Runs |-> Idle]
    /\ now = 0 /\ edits = 0 /\ since = 0 /\ crossed = FALSE

\* A weekly schedule has to come with its day.
ValidateEventSchedule(edit) ==
    "weekly" \in DOMAIN edit /\ edit.weekly => "weekday" \in DOMAIN edit

\* A faulty variant: another day alone leaves the next run.
MovesByTime(edit) == "runAt" \in DOMAIN edit

Moves(edit) == DOMAIN edit \cap {"runAt", "weekly", "weekday"} # {}

\* Fields that are absent stay; the next run is computed when the schedule is among them.
UpdateEvent(edit) ==
    LET row == [f \in DOMAIN event |-> IF f \in DOMAIN edit THEN edit[f] ELSE event[f]]
        moved == Moves(edit)
    IN  /\ edits < MaxEdits /\ edits' = edits + 1
        /\ event.exists
        /\ ValidateEventSchedule(edit)
        /\ event' = IF moved THEN [row EXCEPT !.next = ComputeNextRunAt(row, now)] ELSE row
        /\ since' = IF moved THEN now ELSE since
        /\ UNCHANGED <<run, now, crossed>>

DeleteEvent ==
    /\ edits < MaxEdits /\ edits' = edits + 1
    /\ event.exists
    /\ event' = [event EXCEPT !.exists = FALSE]
    /\ UNCHANGED <<run, now, since, crossed>>

Read(r) ==
    run' = [run EXCEPT ![r] = [at |-> "evaluating", runAt |-> event.runAt,
                               weekly |-> event.weekly, weekday |-> event.weekday]]

\* The tick lists what is due and runs it; a disabled event is not run.
TickEvent(r) ==
    /\ run[r].at = "idle"
    /\ event.exists /\ event.enabled /\ event.next <= now
    /\ Read(r)
    /\ UNCHANGED <<event, now, edits, since, crossed>>

\* The admin's button runs it whenever he wants, disabled or not.
RunEventNow(r) ==
    /\ edits < MaxEdits /\ edits' = edits + 1
    /\ run[r].at = "idle"
    /\ event.exists
    /\ Read(r)
    /\ UNCHANGED <<event, now, since, crossed>>

\* The run's transaction ends, with or without recipients.
MarkEventRun(r) ==
    LET stale == \E f \in {"runAt", "weekly", "weekday"} : run[r][f] # event[f]
    IN  /\ run[r].at = "evaluating"
        /\ event.exists
        /\ event' = [event EXCEPT !.next = ComputeNextRunAt(run[r], now)]
        /\ since' = now
        /\ crossed' = stale
        /\ run' = [run EXCEPT ![r] = Idle]
        /\ UNCHANGED <<now, edits>>

\* The worker stops, the panel's answer is an exception or the row is gone: nothing of the
\* run is committed.
RunFails(r) ==
    /\ run[r].at = "evaluating"
    /\ ~event.exists \/ edits < MaxEdits
    /\ edits' = IF event.exists THEN edits + 1 ELSE edits
    /\ run' = [run EXCEPT ![r] = Idle]
    /\ UNCHANGED <<event, now, since, crossed>>

Tick ==
    /\ now < LastMoment
    /\ now' = now + 1
    /\ UNCHANGED <<event, run, edits, since, crossed>>

Next ==
    \/ \E edit \in Edits : UpdateEvent(edit)
    \/ \E r \in Runs : TickEvent(r) \/ RunEventNow(r) \/ MarkEventRun(r) \/ RunFails(r)
    \/ DeleteEvent
    \/ Tick

Spec == Init /\ [][Next]_scheduleVars

TypeOK ==
    /\ event.exists \in BOOLEAN /\ event.enabled \in BOOLEAN /\ event.runAt \in 0..(Slots - 1)
    /\ event.weekly \in BOOLEAN /\ event.weekday \in 0..Week /\ event.next \in Nat
    /\ \A r \in Runs : run[r].at \in {"idle", "evaluating"}
    /\ now \in 0..LastMoment /\ edits \in 0..MaxEdits
    /\ since \in 0..now /\ crossed \in BOOLEAN

Fits(t) ==
    /\ t % Slots = event.runAt
    /\ event.weekly => Day(t) = Target(event.weekday)

\* The next run is the first moment the schedule names after the last run or edit: none is
\* left out and none comes twice.  A run that read the schedule before an edit and ends
\* after it puts the old schedule's moment there, until the next run.
NextIsFirst ==
    event.exists /\ ~crossed =>
        /\ since < event.next /\ Fits(event.next)
        /\ \A t \in (since + 1)..(event.next - 1) : ~Fits(t)

\* Even then the event is not lost: it runs within a week of the last run or edit.
NotPutOff == event.exists => event.next <= since + Slots * Week

ScheduleKept == NextIsFirst /\ NotPutOff
=============================================================================
