------------------------------- MODULE RubRates -------------------------------
(***************************************************************************)
(* The rate at which prices in dollars become bonus points: a cached value *)
(* that one request at a time renews, kept for a shorter time when the     *)
(* central bank did not answer.                                            *)
(*                                                                         *)
(* Sources: payments/rub_pricing.py; services/miniapp/backend/             *)
(* bonus_points.py and the menus that call it.                             *)
(*                                                                         *)
(* One unit of the clock is the time a failure is kept for; rates are the  *)
(* clock at which the bank quoted them, so that the older of two rates can *)
(* be told.  Rate 0 is the constant that stands in before any answer.      *)
(***************************************************************************)
EXTENDS Naturals, Sequences

CONSTANTS
    Askers,         \* requests that price a menu or a purchase
    FailureTtl, LiveTtl,
    LastMoment,     \* bound: the clock
    MaxAsks         \* bound: requests

VARIABLES
    clock,
    quote,      \* _usd_cache: rate, the time before the fetch that set it, live
    known,      \* anything is cached (rate > 0)
    bank,       \* the bank answers
    asker,      \* asker[a]: where fetch_usd_rub_rate is
    held,       \* who holds _usd_fetch_lock
    fetches,    \* history: [at, live] of every fetch that ended, in order
    got,        \* history: [at, rate] of the rates handed out
    asks

rateVars == <<clock, quote, known, bank, asker, held, fetches, got, asks>>

Nobody == "nobody"
Idle == [pc |-> "idle", since |-> 0]

Init ==
    /\ clock = 0 /\ bank \in BOOLEAN
    /\ quote = [rate |-> 0, ts |-> 0, live |-> FALSE]
    /\ known = FALSE
    /\ asker = [a \in Askers |-> Idle]
    /\ held = Nobody
    /\ fetches = <<>> /\ got = {}
    /\ asks = 0

\* Time passes, and the bank goes up or down.
Tick ==
    /\ clock < LastMoment
    /\ clock' = clock + 1
    /\ bank' \in BOOLEAN
    /\ UNCHANGED <<quote, known, asker, held, fetches, got, asks>>

Ttl == IF quote.live THEN LiveTtl ELSE FailureTtl

\* _cached_usd
Fresh == known /\ clock - quote.ts < Ttl

HandOut(rate) == got' = got \cup {[at |-> clock, rate |-> rate]}

\* fetch_usd_rub_rate: a fresh value is taken at once, else the lock is asked for.
Ask(a) ==
    /\ asker[a] = Idle /\ asks < MaxAsks
    /\ asks' = asks + 1
    /\ IF Fresh
       THEN HandOut(quote.rate) /\ UNCHANGED asker
       ELSE asker' = [asker EXCEPT ![a].pc = "waits"] /\ UNCHANGED got
    /\ UNCHANGED <<clock, quote, known, bank, held, fetches>>

\* A faulty variant of LooksAgain, which a property refutes.
NeverLooks == FALSE

\* Under the lock it looks again: another request may have renewed the value.
LooksAgain == Fresh

Enter(a) ==
    /\ asker[a].pc = "waits" /\ held = Nobody
    /\ IF LooksAgain
       THEN /\ HandOut(quote.rate)
            /\ asker' = [asker EXCEPT ![a] = Idle]
            /\ UNCHANGED held
       ELSE /\ held' = a
            /\ asker' = [asker EXCEPT ![a] = [pc |-> "fetches", since |-> clock]]
            /\ UNCHANGED got
    /\ UNCHANGED <<clock, quote, known, bank, fetches, asks>>

Store(a, rate, live) ==
    /\ quote' = [rate |-> rate, ts |-> asker[a].since, live |-> live]
    /\ known' = TRUE
    /\ fetches' = Append(fetches, [at |-> asker[a].since, live |-> live])
    /\ HandOut(rate)
    /\ asker' = [asker EXCEPT ![a] = Idle]
    /\ held' = Nobody
    /\ UNCHANGED <<clock, bank, asks>>

\* _fetch_usd_rub_uncached; a failure keeps the last rate, or the constant.
Answered(a) == asker[a].pc = "fetches" /\ bank /\ Store(a, clock + 1, TRUE)
Failed(a) == asker[a].pc = "fetches" /\ ~bank /\ Store(a, quote.rate, FALSE)

\* A request that is cancelled gives the lock back.
Cancelled(a) ==
    /\ asker[a].pc # "idle"
    /\ asker' = [asker EXCEPT ![a] = Idle]
    /\ held' = IF held = a THEN Nobody ELSE held
    /\ UNCHANGED <<clock, quote, known, bank, fetches, got, asks>>

Next ==
    \/ Tick
    \/ \E a \in Askers : Ask(a) \/ Enter(a) \/ Answered(a) \/ Failed(a) \/ Cancelled(a)

Spec == Init /\ [][Next]_rateVars

-----------------------------------------------------------------------------
(* Properties *)

TypeOK ==
    /\ clock \in 0..LastMoment
    /\ quote \in [rate : 0..(LastMoment + 1), ts : 0..LastMoment, live : BOOLEAN]
    /\ held \in Askers \cup {Nobody}

\* "don't hammer CBR": after a fetch that failed the bank is left alone for a while, after
\* one that succeeded for longer, whoever asks meanwhile.
Spares ==
    \A j \in DOMAIN fetches : \A i \in 1..(j - 1) :
        fetches[j].at - fetches[i].at >= IF fetches[i].live THEN LiveTtl ELSE FailureTtl

\* A rate once quoted is never given up for the constant or for an older one.
NeverBack ==
    \A f, g \in got : f.at < g.at => f.rate <= g.rate

RatesSound == Spares /\ NeverBack
=============================================================================
