----------------------------- MODULE ApiHealth ------------------------------
(***************************************************************************)
(* Request telemetry of one API service, for one series (method, route and *)
(* status).  The service counts in memory per minute (ApiHealthCollector); *)
(* a flush, started by a request, copies the counts to Redis as absolute   *)
(* values and then forgets the minutes that are over.  The worker's tick   *)
(* (api_health_tick) upserts the Redis values into minute rows, adds the   *)
(* minutes older than a day to the row of their hour and deletes them, all *)
(* in one transaction, and then deletes the Redis keys it has read that    *)
(* are older than two minutes.                                             *)
(*                                                                         *)
(* The clock counts minutes; the spans of the code (two minutes, two       *)
(* hours, a day) are constants in the same order of size.                  *)
(***************************************************************************)
EXTENDS Naturals

LOCAL INSTANCE Folds

CONSTANTS LastMinute,    \* bound: the clock stops here
          MaxRequests,   \* bound: requests per minute
          MaxServed,     \* bound: requests in all
          SafeAfter,     \* age at which a Redis key is deleted (2 minutes)
          KeyTtl,        \* life of a Redis key after its last write (2 hours)
          RollUpAfter,   \* age at which a minute joins its hour (24 hours)
          MaxQuiet,      \* bound: how long counts wait for a request that
                         \* starts the next flush
          MaxMishaps     \* bound: failures and restarts

\* served is what really happened, for the properties.
VARIABLES now, served, counts, flush, redis, written, minuteRow, hourRow,
          tick, mishaps

vars == <<now, served, counts, flush, redis, written, minuteRow, hourRow,
          tick, mishaps>>

Minutes == 0..LastMinute

Nothing == [m \in Minutes |-> 0]

(***************************************************************************)
(* counts, flush.dump and redis hold a count per minute, 0 where there is  *)
(* none.  hourRow[m] is what minute m has contributed to its hour.         *)
(***************************************************************************)
Counts == [Minutes -> 0..MaxRequests]

Total(count) == MapThenFoldSet(+, 0, LAMBDA m : count[m], LAMBDA S : CHOOSE m \in S : TRUE,
                               Minutes)

Init ==
    /\ now = 0
    /\ served = Nothing
    /\ counts = Nothing
    /\ flush = [busy |-> FALSE, dump |-> Nothing]
    /\ redis = Nothing
    /\ written = Nothing
    /\ minuteRow = Nothing
    /\ hourRow = Nothing
    /\ tick = [step |-> "idle", at |-> 0, read |-> Nothing]
    /\ mishaps = 0

Mishap == mishaps < MaxMishaps /\ mishaps' = mishaps + 1

(***************************************************************************)
(* A request ends: it is counted in the current minute, and starts a flush *)
(* if none runs and the last is a second old (a free choice).  The flush   *)
(* dumps all counts before its first await.                                *)
(***************************************************************************)
Serve(flushes) ==
    /\ served[now] < MaxRequests /\ Total(served) < MaxServed
    /\ served' = [served EXCEPT ![now] = @ + 1]
    /\ counts' = [counts EXCEPT ![now] = @ + 1]
    /\ flushes => ~flush.busy
    /\ flush' = IF flushes THEN [busy |-> TRUE, dump |-> counts'] ELSE flush
    /\ UNCHANGED <<now, redis, written, minuteRow, hourRow, tick, mishaps>>

\* The pipeline of HSET and EXPIRE, on the keys of all dumped minutes.
Pipeline ==
    LET touched == {m \in Minutes : flush.dump[m] > 0}
    IN  /\ redis' = [m \in Minutes |->
                        IF m \in touched THEN flush.dump[m] ELSE redis[m]]
        /\ written' = [m \in Minutes |->
                          IF m \in touched THEN now ELSE written[m]]

\* The pipeline is executed; only the current minute's counts are kept, also
\* those that came in since the dump.
FlushDone ==
    /\ flush.busy
    /\ Pipeline
    /\ counts' = [m \in Minutes |-> IF m = now THEN counts[m] ELSE 0]
    /\ flush' = [busy |-> FALSE, dump |-> Nothing]
    /\ UNCHANGED <<now, served, minuteRow, hourRow, tick, mishaps>>

\* Redis raises, before or after it has executed the pipeline.
FlushFails(executed) ==
    /\ flush.busy
    /\ Mishap
    /\ IF executed THEN Pipeline ELSE UNCHANGED <<redis, written>>
    /\ flush' = [busy |-> FALSE, dump |-> Nothing]
    /\ UNCHANGED <<now, served, counts, minuteRow, hourRow, tick>>

\* The service restarts: what is only in memory is gone.
Restart ==
    /\ Mishap
    /\ counts' = Nothing
    /\ flush' = [busy |-> FALSE, dump |-> Nothing]
    /\ UNCHANGED <<now, served, redis, written, minuteRow, hourRow, tick>>

(***************************************************************************)
(* The next minute; Redis drops the keys whose time is over.  Counts that  *)
(* no flush has taken may only wait for MaxQuiet minutes.                  *)
(***************************************************************************)
NextMinute ==
    /\ now < LastMinute
    /\ \A m \in Minutes : counts[m] > 0 => now < m + MaxQuiet
    /\ now' = now + 1
    /\ redis' = [m \in Minutes |->
                    IF written[m] + KeyTtl <= now' THEN 0 ELSE redis[m]]
    /\ UNCHANGED <<served, counts, flush, written, minuteRow, hourRow,
                   tick, mishaps>>

\* The tick begins and reads every key; if Redis fails it goes on without.
TickReads(answers) ==
    /\ tick.step = "idle"
    /\ IF answers THEN UNCHANGED mishaps ELSE Mishap
    /\ tick' = [step |-> "read", at |-> now,
                read |-> IF answers THEN redis ELSE Nothing]
    /\ UNCHANGED <<now, served, counts, flush, redis, written, minuteRow, hourRow>>

\* Faulty variant: a snapshot is added to the row.
Added(m) == minuteRow[m] + tick.read[m]

\* upsert_minute_payload: the row takes the value of the snapshot.
Upserted(m) == IF tick.read[m] > 0 THEN tick.read[m] ELSE minuteRow[m]

\* compact_minutes.
Old(m) == m + RollUpAfter < tick.at

(***************************************************************************)
(* The transaction of the tick commits: rows are upserted, and old minutes *)
(* are added to their hour and deleted.                                    *)
(***************************************************************************)
TickCommits ==
    /\ tick.step = "read"
    /\ minuteRow' = [m \in Minutes |-> IF Old(m) THEN 0 ELSE Upserted(m)]
    /\ hourRow' = [m \in Minutes |->
                      hourRow[m] + IF Old(m) THEN Upserted(m) ELSE 0]
    /\ tick' = [tick EXCEPT !.step = "committed"]
    /\ UNCHANGED <<now, served, counts, flush, redis, written, mishaps>>

\* The tick fails or its worker dies: the transaction is rolled back.
TickFails ==
    /\ tick.step # "idle"
    /\ Mishap
    /\ tick' = [step |-> "idle", at |-> 0, read |-> Nothing]
    /\ UNCHANGED <<now, served, counts, flush, redis, written, minuteRow, hourRow>>

\* The keys that were read and are old enough are deleted.
TickCleans ==
    /\ tick.step = "committed"
    /\ redis' = [m \in Minutes |->
                    IF tick.read[m] > 0 /\ m + SafeAfter < tick.at
                    THEN 0 ELSE redis[m]]
    /\ tick' = [step |-> "idle", at |-> 0, read |-> Nothing]
    /\ UNCHANGED <<now, served, counts, flush, written, minuteRow, hourRow, mishaps>>

Next ==
    \/ \E b \in BOOLEAN : Serve(b) \/ FlushFails(b) \/ TickReads(b)
    \/ FlushDone
    \/ Restart
    \/ NextMinute
    \/ TickCommits \/ TickFails \/ TickCleans

Spec == Init /\ [][Next]_vars

TypeOK ==
    /\ now \in Minutes
    /\ served \in Counts
    /\ counts \in Counts
    /\ flush \in [busy : BOOLEAN, dump : Counts]
    /\ redis \in Counts
    /\ written \in [Minutes -> Minutes]
    /\ minuteRow \in Counts
    /\ hourRow \in [Minutes -> Nat]
    /\ tick \in [step : {"idle", "read", "committed"}, at : Minutes,
                 read : Counts]
    /\ mishaps \in 0..MaxMishaps

(***************************************************************************)
(* No request is counted twice, in minute rows and hours together: ticks   *)
(* may re-read the same snapshots, and flushes be repeated, at will.  It   *)
(* needs counts and keys to reach the rows before their minute is rolled   *)
(* up; with MaxQuiet beyond RollUpAfter it is false.                       *)
(***************************************************************************)
CountedOnce == \A m \in Minutes : minuteRow[m] + hourRow[m] <= served[m]
=============================================================================
