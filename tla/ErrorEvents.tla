----------------------------- MODULE ErrorEvents -----------------------------
(***************************************************************************)
(* The failed requests of one API service (ApiHealthCollector): how an     *)
(* error becomes a row, is sampled away, or is counted as dropped.  A      *)
(* finished request is added to the series of its minute and route; an     *)
(* error goes to a bounded queue, of the same client error at most         *)
(* SampleMax in a window; a writer task takes batches from the queue and   *)
(* stores each in one transaction.  What cannot be queued, stored or       *)
(* counted is dropped, and the drop is written down with the series of the *)
(* last request, so that it travels to Redis with that series.             *)
(***************************************************************************)
EXTENDS Naturals, FiniteSets

LOCAL INSTANCE FiniteSetsExt

CONSTANTS Routes,         \* each with one client error of its own
          SampleMax,      \* rows of one client error in a window (5)
          SampleKeys,     \* client errors remembered (2000)
          Window,         \* minutes of a window (5)
          QueueSize,      \* capacity of the queue
          BatchSize,      \* rows stored at once (100)
          MetricLimit,    \* series in memory (metric_limit)
          LastMinute,     \* bound: the clock stops here
          MaxRequests,    \* bound: requests in all
          MaxMishaps      \* bound: failures and restarts

\* tally, kept and crowded are history: what became of the errors and how many requests
\* found no series; how many errors of a key passed the sampling; whether sample counts were
\* thrown away.
VARIABLES now, meter, flush, recorded, samples, queue, writer, tally, kept, crowded, mishaps

vars == <<now, meter, flush, recorded, samples, queue, writer, tally, kept, crowded, mishaps>>

Minutes == 0..LastMinute
Series == Minutes \X Routes
NoSeries == <<LastMinute + 1, "none">>

None == [s \in Series |-> 0]

(***************************************************************************)
(* meter.live are the series in memory, with the drops written down in     *)
(* drops; meter.last is the series of the last request.                    *)
(***************************************************************************)
NoMeter == [live |-> {}, drops |-> None, last |-> NoSeries]
NoFlush == [busy |-> FALSE, dump |-> None, live |-> {}]
NoSamples == [k \in {} |-> 0]

Init ==
    /\ now = 0
    /\ meter = NoMeter
    /\ flush = NoFlush
    /\ recorded = None
    /\ samples = NoSamples
    /\ queue = 0
    /\ writer = [step |-> "idle", batch |-> 0]
    /\ tally = [served |-> 0, heard |-> 0, sampledOut |-> 0, stored |-> 0, dropped |-> 0,
                lost |-> 0, refused |-> 0]
    /\ kept = None
    /\ crowded = FALSE
    /\ mishaps = 0

Mishap == mishaps < MaxMishaps /\ mishaps' = mishaps + 1

\* _record_dropped: the drops go to the last request's series, if it is still in memory.
Recorded(m, n) == IF m.last \in m.live THEN [m EXCEPT !.drops[m.last] = @ + n] ELSE m

\* add_metric: a series that is one too many is dropped.
Refused(s) == s \notin meter.live /\ Cardinality(meter.live) >= MetricLimit

Measured(s) ==
    IF Refused(s) THEN Recorded(meter, 1)
    ELSE [meter EXCEPT !.live = @ \cup {s}, !.last = s]

\* The tally with one more request, an error or not.
Heard(s, errors) ==
    [tally EXCEPT !.served = @ + 1, !.heard = @ + errors,
                  !.refused = @ + IF Refused(s) THEN 1 ELSE 0]

\* A request ends well.
Serve(r) ==
    /\ tally.served < MaxRequests
    /\ meter' = Measured(<<now, r>>)
    /\ tally' = Heard(<<now, r>>, 0)
    /\ UNCHANGED <<now, flush, recorded, samples, queue, writer, kept, crowded, mishaps>>

\* put_nowait, or the drop of an error that finds the queue full.
Enqueue(s) ==
    IF queue < QueueSize
    THEN /\ queue' = queue + 1
         /\ meter' = Measured(s)
         /\ tally' = Heard(s, 1)
    ELSE /\ meter' = Recorded(Measured(s), 1)
         /\ tally' = [Heard(s, 1) EXCEPT !.dropped = @ + 1]
         /\ UNCHANGED queue

\* A request ends with a status of 500 or more.
ServerError(r) ==
    /\ tally.served < MaxRequests
    /\ Enqueue(<<now, r>>)
    /\ UNCHANGED <<now, flush, recorded, samples, writer, kept, crowded, mishaps>>

\* The window of a minute, and the key under which a client error is sampled.
Key(r) == <<now - (now % Window), r>>

\* Faulty variant: the count is not found again.
NeverFound(k) == 0

Count(k) == IF k \in DOMAIN samples THEN samples[k] ELSE 0

\* A request ends with a client error that has been kept often enough.
SampledOut(r) ==
    /\ tally.served < MaxRequests
    /\ Count(Key(r)) >= SampleMax
    /\ meter' = Measured(<<now, r>>)
    /\ tally' = [Heard(<<now, r>>, 1) EXCEPT !.sampledOut = @ + 1]
    /\ UNCHANGED <<now, flush, recorded, samples, queue, writer, kept, crowded, mishaps>>

\* A request ends with a client error that is kept.
ClientError(r) ==
    LET k == Key(r)
        keys == DOMAIN samples \cup {k}
        many == Cardinality(keys) > SampleKeys
    IN  /\ tally.served < MaxRequests
        /\ Count(k) < SampleMax
        /\ samples' = [j \in (IF many THEN {k} ELSE keys) |->
                          IF j = k THEN Count(k) + 1 ELSE samples[j]]
        /\ kept' = [kept EXCEPT ![k] = @ + 1]
        /\ crowded' = (crowded \/ many)
        /\ Enqueue(<<now, r>>)
        /\ UNCHANGED <<now, flush, recorded, writer, mishaps>>

\* flush_metrics dumps every series before its first await.
FlushBegins ==
    /\ ~flush.busy
    /\ meter.live # {}
    /\ flush' = [busy |-> TRUE, dump |-> meter.drops, live |-> meter.live]
    /\ UNCHANGED <<now, meter, recorded, samples, queue, writer, tally, kept, crowded, mishaps>>

\* What is forgotten with the minutes that are over.
Kept(m) ==
    LET live == {s \in m.live : s[1] = now}
    IN  [m EXCEPT !.live = live, !.drops = [s \in Series |-> IF s \in live THEN @[s] ELSE 0]]

\* The dump is in Redis as absolute values; only the current minute's series are kept.
FlushDone ==
    /\ flush.busy
    /\ recorded' = [s \in Series |-> IF s \in flush.live THEN flush.dump[s] ELSE recorded[s]]
    /\ meter' = Kept(meter)
    /\ flush' = NoFlush
    /\ UNCHANGED <<now, samples, queue, writer, tally, kept, crowded, mishaps>>

\* Redis raises: every series stays.
FlushFails ==
    /\ flush.busy
    /\ Mishap
    /\ flush' = NoFlush
    /\ UNCHANGED <<now, meter, recorded, samples, queue, writer, tally, kept, crowded>>

\* _error_writer wakes up with a first error and waits for company.
WriterWakes ==
    /\ writer.step = "idle" /\ queue > 0
    /\ queue' = queue - 1
    /\ writer' = [step |-> "waits", batch |-> 1]
    /\ UNCHANGED <<now, meter, flush, recorded, samples, tally, kept, crowded, mishaps>>

\* It takes what the queue holds, up to a full batch.
WriterGathers ==
    /\ writer.step = "waits"
    /\ LET more == Min({queue, BatchSize - writer.batch})
       IN  /\ queue' = queue - more
           /\ writer' = [step |-> "saves", batch |-> writer.batch + more]
    /\ UNCHANGED <<now, meter, flush, recorded, samples, tally, kept, crowded, mishaps>>

WriterSaves ==
    /\ writer.step = "saves"
    /\ tally' = [tally EXCEPT !.stored = @ + writer.batch]
    /\ writer' = [step |-> "idle", batch |-> 0]
    /\ UNCHANGED <<now, meter, flush, recorded, samples, queue, kept, crowded, mishaps>>

\* The transaction fails: the whole batch is dropped.
WriterFails ==
    /\ writer.step = "saves"
    /\ Mishap
    /\ tally' = [tally EXCEPT !.dropped = @ + writer.batch]
    /\ meter' = Recorded(meter, writer.batch)
    /\ writer' = [step |-> "idle", batch |-> 0]
    /\ UNCHANGED <<now, flush, recorded, samples, queue, kept, crowded>>

\* The service restarts: what is only in memory is gone.
Restart ==
    /\ Mishap
    /\ tally' = [tally EXCEPT !.lost = @ + queue + writer.batch]
    /\ crowded' = (crowded \/ samples # NoSamples)
    /\ meter' = NoMeter
    /\ flush' = NoFlush
    /\ samples' = NoSamples
    /\ queue' = 0
    /\ writer' = [step |-> "idle", batch |-> 0]
    /\ UNCHANGED <<now, recorded, kept>>

NextMinute ==
    /\ now < LastMinute
    /\ now' = now + 1
    /\ UNCHANGED <<meter, flush, recorded, samples, queue, writer, tally, kept, crowded, mishaps>>

Next ==
    \/ \E r \in Routes : Serve(r) \/ ServerError(r) \/ SampledOut(r) \/ ClientError(r)
    \/ FlushBegins \/ FlushDone \/ FlushFails
    \/ WriterWakes \/ WriterGathers \/ WriterSaves \/ WriterFails
    \/ Restart \/ NextMinute

Spec == Init /\ [][Next]_vars

Drops == [Series -> Nat]

TypeOK ==
    /\ now \in Minutes
    /\ meter \in [live : SUBSET Series, drops : Drops, last : Series \cup {NoSeries}]
    /\ flush \in [busy : BOOLEAN, dump : Drops, live : SUBSET Series]
    /\ recorded \in Drops
    /\ DOMAIN samples \subseteq Series /\ \A k \in DOMAIN samples : samples[k] \in 1..SampleMax
    /\ queue \in 0..QueueSize
    /\ writer \in [step : {"idle", "waits", "saves"}, batch : 0..BatchSize]
    /\ tally \in [{"served", "heard", "sampledOut", "stored", "dropped", "lost", "refused"}
                  -> 0..MaxRequests]
    /\ kept \in Drops
    /\ crowded \in BOOLEAN
    /\ mishaps \in 0..MaxMishaps

Sum(f) == MapThenSumSet(LAMBDA s : f[s], Series)

(***************************************************************************)
(* No error disappears: each is sampled out, waits, is being written, is   *)
(* stored, is counted as dropped, or was in memory at a restart.           *)
(***************************************************************************)
EveryErrorAccounted ==
    tally.heard = tally.sampledOut + queue + writer.batch + tally.stored + tally.dropped
                  + tally.lost

\* One client error cannot flood the table, unless so many kinds of errors come that the
\* counts are thrown away.
FloodHeld == crowded \/ \A k \in Series : kept[k] <= SampleMax

\* What the series say was dropped, in memory or in Redis, has been dropped: no drop is
\* counted with two series, and none twice by a flush that is repeated.
DropsReal ==
    Sum([s \in Series |-> IF s \in meter.live THEN meter.drops[s] ELSE recorded[s]])
        <= tally.dropped + tally.refused

ErrorsSound == EveryErrorAccounted /\ FloodHeld /\ DropsReal
=============================================================================
