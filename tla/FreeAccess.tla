----------------------------- MODULE FreeAccess -----------------------------
(***************************************************************************)
(* The free subscription of one account, claimed from three places: the    *)
(* bot (deliver_subscription with type FREE), the Mini App (free_claim)    *)
(* and the e-mail verification of the Android app                          *)
(* (ensure_free_subscription).  Each looks for the account's panel         *)
(* profile, refreshes it or leaves it alone, or creates one under the      *)
(* first free name.  The description of a created profile carries a        *)
(* marker, by which a later claim recognises it: the bot and the Mini App  *)
(* share one, Android has its own.                                         *)
(*                                                                         *)
(* The lookup goes through a cache of 15 seconds in each process; a paid   *)
(* delivery (module OrderDelivery, one step here) does not touch it.       *)
(***************************************************************************)
EXTENDS Naturals, FiniteSets

CONSTANTS Claims,        \* claims, each made once
          MaxNames,      \* names the search tries (100 in the code)
          Apart,         \* claims and purchases do not overlap, and a
                         \* purchase finds the caches expired
          MaxPurchases,  \* bound: paid deliveries
          MaxLapses,     \* bound: periods or traffic that run out
          MaxMishaps     \* bound: failed panel calls and restarts

VARIABLES panel, links, primary, cache, claim, verified, made,
          purchases, lapses, mishaps

vars == <<panel, links, primary, cache, claim, verified, made,
          purchases, lapses, mishaps>>

counters == <<purchases, lapses, mishaps>>

Names == 0..(MaxNames - 1)

None == MaxNames    \* no profile

Entries == {"bot", "miniapp", "android"}

Processes == {"bot", "miniapp"}

Process(entry) == IF entry = "bot" THEN "bot" ELSE "miniapp"

Marker(entry) == IF entry = "android" THEN "android" ELSE "free"

(***************************************************************************)
(* A panel profile: its squad and limit (plan), its status, the marker in  *)
(* its description, and whether it carries the account's own e-mail, by    *)
(* which the lookup finds it (only Android creates it so).                 *)
(***************************************************************************)
Profile == [plan : {"none", "free", "pro"},
            status : {"active", "limited", "expired"},
            mark : {"none", "free", "android", "paid"},
            mail : BOOLEAN]

NoProfile ==
    [plan |-> "none", status |-> "expired", mark |-> "none", mail |-> FALSE]

\* What a lookup returns: a name, None if nothing was found, and the snapshot.
Snapshot == [name : Names \cup {None},
             plan : {"none", "free", "pro"},
             status : {"active", "limited", "expired"}]

NoSnapshot == [name |-> None, plan |-> "none", status |-> "expired"]

Claim == [step : {"idle", "resolve", "found", "refresh", "count", "search",
                  "create", "readback", "attach", "done"},
          entry : Entries,
          key : Names \cup {None},
          info : Snapshot,
          next : 0..MaxNames,
          result : {"none", "granted", "already", "limited", "failed"}]

\* External: the panel may hold an older profile with the account's e-mail
\* that the account never attached; it is given the last of the names.
Legacy == [plan : {"free", "pro"}, status : {"active", "limited", "expired"},
           mark : {"none"}, mail : {TRUE}]

Init ==
    /\ \E older \in Legacy \cup {NoProfile} :
         panel = [n \in Names |-> IF n = MaxNames - 1 THEN older ELSE NoProfile]
    /\ links = {}
    /\ primary = None
    /\ cache = [p \in Processes |-> [k \in Names \cup {None} |-> {}]]
    /\ claim = [c \in Claims |->
                   [step |-> "idle", entry |-> "bot", key |-> None,
                    info |-> NoSnapshot, next |-> 0, result |-> "none"]]
    /\ verified = FALSE
    /\ made = {}
    /\ purchases = 0
    /\ lapses = 0
    /\ mishaps = 0

Working == {c \in Claims : claim[c].step \notin {"idle", "done"}}

\* Faulty variant: the account's rw_id is set and no row is added.
MirrorOnly(n) ==
    /\ UNCHANGED links
    /\ primary' = IF links = {} THEN n ELSE primary

\* The first subscription attached becomes the primary one.
Attach(n) ==
    /\ links' = links \cup {n}
    /\ primary' = IF links = {} THEN n ELSE primary

Finished(c, result) ==
    [claim EXCEPT ![c].step = "done", ![c].result = result]

(***************************************************************************)
(* A claim reads the account: its primary subscription, and for Android    *)
(* also the number of subscriptions.  Android claims once, when the e-mail *)
(* is verified by an account that has no subscription.                     *)
(***************************************************************************)
Start(c, entry) ==
    /\ claim[c].step = "idle"
    /\ Apart => Working = {}
    /\ entry = "android" => ~verified /\ links = {}
    /\ verified' = (verified \/ entry = "android")
    /\ claim' = [claim EXCEPT ![c] =
                    [step |-> "resolve", entry |-> entry, key |-> primary,
                     info |-> NoSnapshot, next |-> Cardinality(links),
                     result |-> "none"]]
    /\ UNCHANGED <<panel, links, primary, cache, made, counters>>

(***************************************************************************)
(* resolve_remnawave_user: by the profile id, else by e-mail; the answer,  *)
(* also that there is none, is cached under the identifiers asked for.     *)
(***************************************************************************)
Lookup(k) ==
    LET found == IF k # None THEN {k} ELSE {n \in Names : panel[n].mail}
        snapshots == {[name |-> n, plan |-> panel[n].plan,
                       status |-> panel[n].status] : n \in found}
    IN  IF found = {} THEN {NoSnapshot} ELSE snapshots

Resolve(c) ==
    LET k == claim[c].key
        p == Process(claim[c].entry)
        answers == IF cache[p][k] = {} THEN Lookup(k) ELSE cache[p][k]
    IN  /\ claim[c].step = "resolve"
        /\ \E s \in answers :
             /\ cache' = [cache EXCEPT ![p][k] = {s}]
             /\ claim' =
                  [claim EXCEPT
                     ![c].info = s,
                     ![c].step = IF s.name # None THEN "found"
                                 ELSE IF claim[c].entry = "android"
                                 THEN "search" ELSE "count"]
        /\ UNCHANGED <<panel, links, primary, verified, made, counters>>

\* The lookup raises: the claim ends with an error.
ResolveFails(c) ==
    /\ claim[c].step = "resolve"
    /\ mishaps < MaxMishaps
    /\ mishaps' = mishaps + 1
    /\ claim' = Finished(c, "failed")
    /\ UNCHANGED <<panel, links, primary, cache, verified, made, purchases, lapses>>

(***************************************************************************)
(* A profile was found.  The bot attaches it; an inactive one should be    *)
(* refreshed, but _handle_update_subscription is called with an argument   *)
(* it does not have, and the TypeError ends the claim.                     *)
(***************************************************************************)
BotFound(c) ==
    LET s == claim[c].info
    IN  /\ claim[c].step = "found"
        /\ claim[c].entry = "bot"
        /\ Attach(s.name)
        /\ claim' = Finished(c, CASE s.status = "limited" -> "limited"
                                  [] s.status = "active" -> "already"
                                  [] s.status = "expired" -> "failed")
        /\ UNCHANGED <<panel, cache, verified, made, counters>>

\* Faulty variant: only the free squad is recognised.
FreeOnly(s) == s.plan = "free"

\* free_claim: an active paid profile, or any profile in the free squad.
HasAccess(s) == s.plan = "free" \/ (s.plan = "pro" /\ s.status = "active")

MiniappFound(c) ==
    LET s == claim[c].info
    IN  /\ claim[c].step = "found"
        /\ claim[c].entry = "miniapp"
        /\ IF HasAccess(s)
           THEN Attach(s.name) /\ claim' = Finished(c, "already")
           ELSE /\ claim' = [claim EXCEPT ![c].step = "refresh"]
                /\ UNCHANGED <<links, primary>>
        /\ UNCHANGED <<panel, cache, verified, made, counters>>

AndroidFound(c) ==
    LET s == claim[c].info
    IN  /\ claim[c].step = "found"
        /\ claim[c].entry = "android"
        /\ Attach(s.name)
        /\ claim' = IF s.status = "active" THEN Finished(c, "already")
                    ELSE [claim EXCEPT ![c].step = "refresh"]
        /\ UNCHANGED <<panel, cache, verified, made, counters>>

(***************************************************************************)
(* A write to the panel: carried out and answered ("ok"), carried out with *)
(* its answer lost, or refused.                                            *)
(***************************************************************************)
Outcome(outcome) ==
    IF outcome = "ok" THEN UNCHANGED mishaps
    ELSE mishaps < MaxMishaps /\ mishaps' = mishaps + 1

\* update_user_by_id or apply_update: the free plan, active; Android also
\* replaces the description.
Refresh(c, outcome) ==
    LET n == claim[c].info.name
    IN  /\ claim[c].step = "refresh"
        /\ Outcome(outcome)
        /\ panel' =
             IF outcome = "refused" THEN panel
             ELSE [panel EXCEPT
                     ![n].plan = "free", ![n].status = "active",
                     ![n].mark = IF claim[c].entry = "android"
                                 THEN "none" ELSE panel[n].mark]
        /\ claim' = CASE outcome # "ok" -> Finished(c, "failed")
                      [] outcome = "ok" /\ claim[c].entry = "android" ->
                           Finished(c, "granted")
                      [] outcome = "ok" /\ claim[c].entry = "miniapp" ->
                           [claim EXCEPT ![c].step = "attach"]
        /\ UNCHANGED <<links, primary, cache, verified, made, purchases, lapses>>

\* The bot and the Mini App count the subscriptions after the lookup.
Count(c) ==
    /\ claim[c].step = "count"
    /\ claim' = [claim EXCEPT ![c].step = "search",
                              ![c].next = Cardinality(links)]
    /\ UNCHANGED <<panel, links, primary, cache, verified, made, counters>>

\* Faulty variant: a profile created by an earlier claim is not recognised.
NeverOwn(c, n) == FALSE

\* The marker of this entry in the description of the profile.
Own(c, n) == panel[n].mark = Marker(claim[c].entry)

\* The name is free, carries the marker, or belongs to something else.
AtName(c, free) ==
    LET n == claim[c].next
    IN  claim' = CASE panel[n].plan = "none" -> free
                   [] panel[n].plan # "none" /\ Own(c, n) ->
                        [claim EXCEPT ![c].step = "attach", ![c].info.name = n]
                   [] panel[n].plan # "none" /\ ~Own(c, n) ->
                        [claim EXCEPT ![c].step = "search", ![c].next = n + 1]

Search(c) ==
    /\ claim[c].step = "search"
    /\ IF claim[c].next = MaxNames
       THEN claim' = Finished(c, "failed")
       ELSE AtName(c, [claim EXCEPT ![c].step = "create"])
    /\ UNCHANGED <<panel, links, primary, cache, verified, made, counters>>

(***************************************************************************)
(* create_user; the panel refuses a name that is taken.  The bot and the   *)
(* Mini App get None for any failure and read the name back; Android's     *)
(* strict call raises and ends the claim.                                  *)
(***************************************************************************)
Create(c, outcome) ==
    LET n == claim[c].next
        e == claim[c].entry
    IN  /\ claim[c].step = "create"
        /\ panel[n].plan # "none" => outcome = "refused"
        /\ IF panel[n].plan # "none" THEN UNCHANGED mishaps ELSE Outcome(outcome)
        /\ IF outcome = "refused" THEN UNCHANGED <<panel, made>>
           ELSE /\ panel' = [panel EXCEPT ![n] =
                              [plan |-> "free", status |-> "active",
                               mark |-> Marker(e), mail |-> e = "android"]]
                /\ made' = made \cup {<<n, Marker(e)>>}
        /\ claim' = IF e = "android" /\ outcome # "ok" THEN Finished(c, "failed")
                    ELSE [claim EXCEPT ![c].step = "readback"]
        /\ UNCHANGED <<links, primary, cache, verified, purchases, lapses>>

ReadBack(c) ==
    /\ claim[c].step = "readback"
    /\ AtName(c, Finished(c, "failed"))
    /\ UNCHANGED <<panel, links, primary, cache, verified, made, counters>>

AttachClaimed(c) ==
    /\ claim[c].step = "attach"
    /\ Attach(claim[c].info.name)
    /\ claim' = Finished(c, "granted")
    /\ UNCHANGED <<panel, cache, verified, made, counters>>

\* A process restarts: its claims and its cache are gone.
Restart(p) ==
    LET lost == {c \in Working : Process(claim[c].entry) = p}
    IN  /\ lost # {}
        /\ mishaps < MaxMishaps
        /\ mishaps' = mishaps + 1
        /\ claim' = [c \in Claims |->
                        IF c \in lost THEN [claim[c] EXCEPT !.step = "done",
                                                            !.result = "failed"]
                        ELSE claim[c]]
        /\ cache' = [cache EXCEPT ![p] = [k \in Names \cup {None} |-> {}]]
        /\ UNCHANGED <<panel, links, primary, verified, made, purchases, lapses>>

CacheExpires(p, k) ==
    /\ cache[p][k] # {}
    /\ cache' = [cache EXCEPT ![p][k] = {}]
    /\ UNCHANGED <<panel, links, primary, claim, verified, made, counters>>

(***************************************************************************)
(* A paid delivery: it extends the primary profile, or creates one under   *)
(* the first free name from the number of links on, and attaches it.       *)
(***************************************************************************)
PaidDelivery ==
    /\ purchases < MaxPurchases
    /\ Apart => Working = {} /\ \A p \in Processes, k \in Names \cup {None} :
                                    cache[p][k] = {}
    /\ \E n \in IF primary # None THEN {primary}
                ELSE {i \in Names : /\ i >= Cardinality(links)
                                    /\ panel[i].plan = "none"
                                    /\ \A j \in Cardinality(links)..(i - 1) :
                                         panel[j].plan # "none"} :
         /\ panel' = [panel EXCEPT ![n].plan = "pro", ![n].status = "active",
                                   ![n].mark = "paid"]
         /\ Attach(n)
    /\ purchases' = purchases + 1
    /\ UNCHANGED <<cache, claim, verified, made, lapses, mishaps>>

\* External: a period ends, or the traffic of the free plan is used up.
Lapse(n) ==
    /\ lapses < MaxLapses
    /\ panel[n].plan # "none"
    /\ panel[n].status = "active"
    /\ \E s \in IF panel[n].plan = "free" THEN {"limited", "expired"}
                ELSE {"expired"} :
         panel' = [panel EXCEPT ![n].status = s]
    /\ lapses' = lapses + 1
    /\ UNCHANGED <<links, primary, cache, claim, verified, made, purchases, mishaps>>

Next ==
    \/ \E c \in Claims :
         \/ \E e \in Entries : Start(c, e)
         \/ Resolve(c) \/ ResolveFails(c)
         \/ BotFound(c) \/ MiniappFound(c) \/ AndroidFound(c)
         \/ \E o \in {"ok", "lost", "refused"} : Refresh(c, o) \/ Create(c, o)
         \/ Count(c) \/ Search(c) \/ ReadBack(c) \/ AttachClaimed(c)
    \/ \E p \in Processes :
         Restart(p) \/ \E k \in Names \cup {None} : CacheExpires(p, k)
    \/ PaidDelivery
    \/ \E n \in Names : Lapse(n)

Spec == Init /\ [][Next]_vars

TypeOK ==
    /\ panel \in [Names -> Profile]
    /\ links \in SUBSET Names
    /\ primary \in links \cup {None}
    /\ cache \in [Processes -> [Names \cup {None} -> SUBSET Snapshot]]
    /\ claim \in [Claims -> Claim]
    /\ verified \in BOOLEAN
    /\ made \in SUBSET (Names \X {"free", "android"})
    /\ purchases \in 0..MaxPurchases
    /\ lapses \in 0..MaxLapses
    /\ mishaps \in 0..MaxMishaps

(***************************************************************************)
(* However often the account claims, and whatever calls fail or processes  *)
(* restart in between, at most one free profile is created under each      *)
(* marker.                                                                 *)
(***************************************************************************)
OneFreeProfile ==
    \A m \in {"free", "android"} : Cardinality({x \in made : x[2] = m}) <= 1

(***************************************************************************)
(* A claim never turns an active paid subscription into a free one, and    *)
(* never makes a second free profile.  The first is true while purchases   *)
(* and claims are kept apart; a purchase between the lookup, or its cached *)
(* answer, and the refresh is overwritten.                                 *)
(***************************************************************************)
FreeSound ==
    [][/\ OneFreeProfile'
       /\ \A n \in Names :
            panel[n].plan = "pro" /\ panel[n].status = "active"
              => panel'[n].plan = "pro"]_vars

(***************************************************************************)
(* "Inactive / limited / expired free user - refresh" (free_claim): an     *)
(* account told that it has its subscription has an active one.  False: a  *)
(* profile in the free squad is never refreshed, whatever its status.      *)
(***************************************************************************)
AlreadyIsActive ==
    \A c \in Claims :
      claim[c].result = "already" => claim[c].info.status = "active"
=============================================================================
