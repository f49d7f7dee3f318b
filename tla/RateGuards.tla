------------------------------ MODULE RateGuards ------------------------------
(***************************************************************************)
(* The in-memory guards against guessing and flooding, for one key (an     *)
(* address of the network or of a mailbox):                                *)
(*   "fails"    failed logins and invite codes: login_guard.py of the      *)
(*              dashboard, web/brute_force.py of the portal;               *)
(*   "register" registrations: android/register_ip_guard.py;               *)
(*   "send"     mailed codes: android/email_send_guard.py.                 *)
(*                                                                         *)
(* A guard is asked when a request begins; what it counts is recorded when *)
(* the request ends, after hashing, queries or mail.  Requests overlap.    *)
(* The lists in memory start empty and are pruned when the guard is asked. *)
(***************************************************************************)
EXTENDS Naturals, Sequences, FiniteSets

CONSTANTS
    Slots,                          \* requests under way
    Window, MaxFails, Block,        \* "fails"
    HourWindow, HourMax, DayWindow, DayMax,     \* "register"
    StreakMax, StreakBlock, SendMax, SendBlock, \* "send", in the DayWindow
    LastMoment,                     \* bound: the clock
    MaxEvents                       \* bound: what is recorded

VARIABLES
    guard,          \* which of the three it is
    clock,
    events,         \* _fails, _fail_ts, _success_ts, send_ts: times, oldest first
    blockedUntil,   \* _blocked_until, blocked_until
    streak,         \* consecutive
    admitted,       \* requests that passed and have not ended
    past,           \* history: times of all that was recorded since the last reset
    streakPast      \* history: times of the mails sent since a code was used

guardVars == <<guard, clock, events, blockedUntil, streak, admitted, past, streakPast>>

Init ==
    /\ guard \in {"fails", "register", "send"}
    /\ clock = 0
    /\ events = <<>> /\ past = <<>> /\ streakPast = <<>>
    /\ blockedUntil = 0 /\ streak = 0
    /\ admitted = {}

Tick ==
    /\ clock < LastMoment
    /\ clock' = clock + 1
    /\ UNCHANGED <<guard, events, blockedUntil, streak, admitted, past, streakPast>>

\* The times younger than the window: the lists are oldest first, so that their first
\* elements go.
Within(list, window) ==
    LET old == {i \in 1..Len(list) : clock - list[i] >= window}
    IN SubSeq(list, Cardinality(old) + 1, Len(list))

Span == IF guard = "fails" THEN Window ELSE DayWindow

\* The block that asking brings about, or 0.
Punished(list) ==
    IF guard = "fails" /\ Len(list) >= MaxFails THEN clock + Block
    ELSE IF guard = "send" /\ Len(list) >= SendMax THEN clock + SendBlock
    ELSE 0

\* register_ip_guard keeps no block: both windows have to have room.
Full(list) ==
    /\ guard = "register"
    /\ Len(Within(list, HourWindow)) >= HourMax \/ Len(list) >= DayMax

\* check
Ask(s) ==
    /\ s \notin admitted
    /\ IF blockedUntil > clock
       THEN UNCHANGED <<events, blockedUntil, admitted>>
       ELSE LET kept == Within(events, Span) IN
            /\ events' = kept
            /\ IF Punished(kept) > 0
               THEN /\ blockedUntil' = Punished(kept)
                    /\ UNCHANGED admitted
               ELSE /\ admitted' = IF Full(kept) THEN admitted ELSE admitted \cup {s}
                    /\ UNCHANGED blockedUntil
    /\ UNCHANGED <<guard, clock, streak, past, streakPast>>

\* record_fail and record of the registrations
Record(s) ==
    /\ s \in admitted /\ guard # "send" /\ Len(past) < MaxEvents
    /\ events' = Append(events, clock)
    /\ past' = Append(past, clock)
    /\ admitted' = admitted \ {s}
    /\ UNCHANGED <<guard, clock, blockedUntil, streak, streakPast>>

\* record of the mails: the tenth of a day blocks for long, the third in a row for a
\* short while.
LongBlock(list) == Len(list) >= SendMax
\* A faulty variant of ShortBlock, which a property refutes.
FullNextTime == streak >= StreakMax

ShortBlock == streak + 1 >= StreakMax

Latest(a, b) == IF a > b THEN a ELSE b

RecordMail(s) ==
    LET list == Append(Within(events, Span), clock) IN
    /\ s \in admitted /\ guard = "send" /\ Len(past) < MaxEvents
    /\ events' = list
    /\ blockedUntil' = IF LongBlock(list) THEN Latest(blockedUntil, clock + SendBlock)
                       ELSE IF ShortBlock THEN Latest(blockedUntil, clock + StreakBlock)
                       ELSE blockedUntil
    /\ streak' = IF LongBlock(list) \/ ShortBlock THEN 0 ELSE streak + 1
    /\ past' = Append(past, clock)
    /\ streakPast' = Append(streakPast, clock)
    /\ admitted' = admitted \ {s}
    /\ UNCHANGED <<guard, clock>>

\* The request had another end: a login that succeeds clears the failures, not a block;
\* a registration or a mail that fails counts for nothing.
Leave(s) ==
    /\ s \in admitted
    /\ admitted' = admitted \ {s}
    /\ IF guard = "fails" THEN events' = <<>> /\ past' = <<>>
       ELSE UNCHANGED <<events, past>>
    /\ UNCHANGED <<guard, clock, blockedUntil, streak, streakPast>>

\* clear_consecutive: a mailed code was used.
UseCode ==
    /\ guard = "send" /\ streakPast # <<>>
    /\ streak' = 0 /\ streakPast' = <<>>
    /\ UNCHANGED <<guard, clock, events, blockedUntil, admitted, past>>

Next ==
    \/ Tick \/ UseCode
    \/ \E s \in Slots : Ask(s) \/ Record(s) \/ RecordMail(s) \/ Leave(s)

Spec == Init /\ [][Next]_guardVars

-----------------------------------------------------------------------------
(* Properties *)

TypeOK ==
    /\ clock \in 0..LastMoment
    /\ \A i \in 1..Len(events) : events[i] \in 0..clock
    /\ streak \in 0..StreakMax
    /\ admitted \subseteq Slots

\* Of limit + slots successive times the first and the last lie a window apart: requests
\* that were admitted together may exceed the limit by one less than their number.
Spread(times, limit, window) ==
    LET k == limit + Cardinality(Slots) - 1
    IN \A i \in 1..Len(times) : i + k <= Len(times) => times[i + k] - times[i] >= window

\* However requests overlap with the window, the block and each other: no more failures
\* (since the last success), registrations and mails than the limits say.
Throttled ==
    /\ guard = "fails" => Spread(past, MaxFails, Window)
    /\ guard = "register" => Spread(past, HourMax, HourWindow) /\ Spread(past, DayMax, DayWindow)
    /\ guard = "send" => Spread(past, SendMax, DayWindow) /\ Spread(streakPast, StreakMax, StreakBlock)
=============================================================================
