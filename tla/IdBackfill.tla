------------------------------ MODULE IdBackfill ------------------------------
(***************************************************************************)
(* The script that gives every local user the numeric id of its panel      *)
(* profile before the panel is upgraded to version 3.                      *)
(*                                                                         *)
(* Source: scripts/backfill_remnawave_ids.py, and                          *)
(* common_db/repo/subscriptions.py through which it writes.                *)
(*                                                                         *)
(* The script reads the panel once, audits the database, audits it again   *)
(* in the transaction that writes, applies what that audit planned and     *)
(* audits a last time.  Any blocker ends it with code 2 before it writes.  *)
(* The services are meant to be stopped meanwhile; one that is not may     *)
(* attach, detach or promote a profile between any two of these steps.     *)
(* An audit reads its three tables at one moment, and the writing          *)
(* transaction is one step: unique indexes decide between it and others.   *)
(***************************************************************************)
EXTENDS Naturals, FiniteSets

CONSTANTS
    Users, Profiles, NoUser, NoProfile,
    Keys,               \* uuids that users.vless_uuid may hold
    NoKey, Junk,        \* nothing stored, or a value that is no uuid
    Mails, NoMail,      \* e-mail addresses, compared case-insensitively
    Panels,             \* what the panel may answer: [profile -> its identifiers]
    Stored, Addresses,  \* what the users may have stored
    Repairs,            \* --repair-primary: sets of <<user, profile>>
    MaxRuns, MaxDisturbances

VARIABLES
    panel,      \* the items of GET /users, read when the script starts
    stored,     \* stored[u]: users.vless_uuid
    address,    \* address[u]: users.email
    paid,       \* users with a paid order that has not expired
    repairs,    \* the primaries the operator confirmed
    rwId,       \* rwId[u]: users.rw_id
    rowOwner,   \* rowOwner[p]: the account of p's row of user_subscriptions
    primaryRow, \* primaryRow[u]: the profile of u's primary row
    script,     \* where the script is, the plan of its audit, its exit code
    disturbed,  \* history: how often another service wrote while the script ran
    runs

backfillVars == <<panel, stored, address, paid, repairs, rwId, rowOwner, primaryRow, script,
                  disturbed, runs>>

found == <<panel, stored, address, paid, repairs>>
database == <<rwId, rowOwner, primaryRow>>

NotRun == [pc |-> "idle", apply |-> FALSE, plan |-> {}, code |-> 0]

\* Unique indexes: one row per profile, one primary row per user, one user per rw_id.
Unique(ids) ==
    \A u, v \in Users : u # v /\ ids[u] # NoProfile => ids[u] # ids[v]

\* An audited database is whatever years of older code left in it.
Init ==
    /\ panel \in Panels
    /\ stored \in Stored /\ address \in Addresses
    /\ paid \in {{}, Users}
    /\ repairs \in Repairs
    /\ rwId \in [Users -> Profiles \cup {NoProfile}] /\ Unique(rwId)
    /\ rowOwner \in [Profiles -> Users \cup {NoUser}]
    /\ primaryRow \in [Users -> Profiles \cup {NoProfile}]
    /\ \A u \in Users : primaryRow[u] # NoProfile => rowOwner[primaryRow[u]] = u
    /\ script = NotRun
    /\ disturbed = 0 /\ runs = 0

-----------------------------------------------------------------------------
(* The index of the panel's answer *)

ByLegacy(k) == {p \in DOMAIN panel : k # NoKey /\ panel[p].legacy = k}
ByProtocol(k) == {p \in DOMAIN panel : k # NoKey /\ panel[p].protocol = k}
ByEmail(m) == {p \in DOMAIN panel : m # NoMail /\ panel[p].email = m}

\* An identifier that several profiles share is in no mapping.
Single(S) == IF Cardinality(S) = 1 THEN S ELSE {}

\* One uuid, two kinds of identifier, two profiles.
Crosses(k) ==
    Cardinality(Single(ByLegacy(k)) \cup Single(ByProtocol(k))) > 1

PanelBlockers ==
    \E k \in Keys :
        Cardinality(ByLegacy(k)) > 1 \/ Cardinality(ByProtocol(k)) > 1 \/ Crosses(k)

-----------------------------------------------------------------------------
(* The audit *)

\* Who owns a profile: by a row or by the id of the user.
OwnersOf(p) == {u \in Users : rowOwner[p] = u \/ rwId[u] = p}

Searched == {u \in Users : rwId[u] = NoProfile /\ stored[u] \in Keys}

\* By the stored uuid of either kind, or else by an e-mail address only one profile has.
Matched(u) ==
    LET byKey == Single(ByLegacy(stored[u])) \cup Single(ByProtocol(stored[u]))
    IN IF byKey # {} THEN byKey ELSE Single(ByEmail(address[u]))

Kind(u) ==
    IF Single(ByLegacy(stored[u])) # {} THEN "resolve_legacy"
    ELSE IF Single(ByProtocol(stored[u])) # {} THEN "resolve_protocol_vless"
    ELSE "resolve_email"

\* Several candidates: by uuid, or by an address when no uuid was found.
Ambiguous(u) ==
    \/ Crosses(stored[u])
    \/ /\ Single(ByLegacy(stored[u])) \cup Single(ByProtocol(stored[u])) = {}
       /\ Cardinality(ByEmail(address[u])) > 1

\* A user without a profile is left alone unless there is a paid order to serve.
Unresolved(u) == ~Ambiguous(u) /\ Matched(u) = {} /\ u \in paid

\* A missing row, or rows of which none is primary.
Detached(u) ==
    /\ rwId[u] # NoProfile
    /\ rowOwner[rwId[u]] # u \/ primaryRow[u] = NoProfile

\* The profiles the audit wants to give to a user.
Wanted(u) ==
    IF u \in Searched /\ ~Ambiguous(u) THEN Matched(u)
    ELSE IF Detached(u) THEN {rwId[u]}
    ELSE {}

\* Another user has it, or is to be given it by the same plan.
Conflicting(u) ==
    \E p \in Wanted(u) :
        \/ OwnersOf(p) \ {u} # {}
        \/ \E v \in Searched \ {u} : u \in Searched /\ p \in Wanted(v)

Mismatched == {u \in Users : /\ rwId[u] # NoProfile /\ primaryRow[u] # NoProfile
                             /\ rwId[u] # primaryRow[u]}

Confirmed == {r \in repairs : primaryRow[r[1]] = r[2]}

Blocked ==
    \/ PanelBlockers
    \/ \E u \in Searched : Ambiguous(u) \/ Unresolved(u)
    \/ \E u \in Users : Conflicting(u)
    \/ \E p \in Profiles : \/ Cardinality(OwnersOf(p)) > 1
                           \/ OwnersOf(p) # {} /\ p \notin DOMAIN panel
    \/ \E u \in Mismatched : ~\E r \in Confirmed : r[1] = u
    \/ repairs # Confirmed

Action(u, p, kind) == [user |-> u, profile |-> p, kind |-> kind]

Actions ==
    UNION {{Action(u, p, IF u \in Searched THEN Kind(u) ELSE "attach_existing") :
              p \in Wanted(u)} : u \in Users}
    \cup {Action(r[1], r[2], "sync_primary_projection") :
            r \in {r \in Confirmed : rwId[r[1]] # r[2]}}

Ready == ~Blocked /\ Actions = {}

-----------------------------------------------------------------------------
(* The writes *)

Resolves(a) == a.kind \in {"resolve_legacy", "resolve_protocol_vless", "resolve_email"}
Syncs(a) == a.kind = "sync_primary_projection"

\* Somebody gave the user an id since the plan was made.
Served(a) == Resolves(a) /\ rwId[a.user] # NoProfile

Attaching == {a \in script.plan : ~Syncs(a) /\ ~Served(a)}

\* The profile becomes primary only where there is no primary yet.
Promotes(a) == primaryRow[a.user] = NoProfile

\* A faulty variant of Applicable, which a property refutes.
AttachMovesRows ==
    \A a \in script.plan : /\ Served(a) => rwId[a.user] = a.profile
                           /\ Syncs(a) => primaryRow[a.user] = a.profile

\* attach never moves a profile; a repair needs the primary that was confirmed, and a
\* user who was served needs the id that was planned.
Applicable ==
    /\ \A a \in Attaching : rowOwner[a.profile] \in {NoUser, a.user}
    /\ \A a \in script.plan :
         /\ Served(a) => rwId[a.user] = a.profile
         /\ Syncs(a) => primaryRow[a.user] = a.profile

PrimaryAfter ==
    [u \in Users |->
        IF \E a \in Attaching : a.user = u /\ Promotes(a)
        THEN (CHOOSE a \in Attaching : a.user = u).profile
        ELSE primaryRow[u]]

\* A user whose profile was recovered, or whose row is primary, gets the primary's id.
RwIdAfter ==
    [u \in Users |->
        IF \E a \in script.plan \ {b \in script.plan : Served(b)} :
              /\ a.user = u
              /\ Resolves(a) \/ Syncs(a) \/ PrimaryAfter[u] = a.profile
        THEN PrimaryAfter[u]
        ELSE rwId[u]]

OwnersAfter ==
    [p \in Profiles |->
        IF \E a \in Attaching : a.profile = p
        THEN (CHOOSE a \in Attaching : a.profile = p).user
        ELSE rowOwner[p]]

-----------------------------------------------------------------------------
(* The script *)

Goto(pc) == script' = [script EXCEPT !.pc = pc]
Exit(code) == script' = [script EXCEPT !.pc = "done", !.code = code]

\* The first audit: a dry run ends with its report.
Audit(apply) ==
    /\ script.pc \in {"idle", "done"} /\ runs < MaxRuns
    /\ runs' = runs + 1
    /\ disturbed' = 0
    /\ script' = IF Blocked \/ ~apply
                 THEN [pc |-> "done", apply |-> apply, plan |-> {},
                       code |-> IF Blocked THEN 2 ELSE 0]
                 ELSE [pc |-> "write", apply |-> TRUE, plan |-> {}, code |-> 0]
    /\ UNCHANGED <<found, database>>

\* The audit under the write transaction makes the plan that is applied.
AuditAgain ==
    /\ script.pc = "write"
    /\ IF Blocked THEN Exit(2)
       ELSE script' = [script EXCEPT !.pc = "apply", !.plan = Actions]
    /\ UNCHANGED <<found, database, disturbed, runs>>

\* All the writes or, after an exception, none: exit code 3.
Apply ==
    /\ script.pc = "apply"
    /\ Applicable /\ Unique(RwIdAfter)
    /\ rowOwner' = OwnersAfter
    /\ primaryRow' = PrimaryAfter
    /\ rwId' = RwIdAfter
    /\ Goto("verify")
    /\ UNCHANGED <<found, disturbed, runs>>

ApplyFails ==
    /\ script.pc = "apply"
    /\ ~(Applicable /\ Unique(RwIdAfter))
    /\ Exit(3)
    /\ UNCHANGED <<found, database, disturbed, runs>>

Verify ==
    /\ script.pc = "verify"
    /\ Exit(IF Ready THEN 0 ELSE 2)
    /\ UNCHANGED <<found, database, disturbed, runs>>

-----------------------------------------------------------------------------
(* Services that were not stopped *)

Disturb ==
    /\ script.pc \in {"write", "apply", "verify"}
    /\ disturbed < MaxDisturbances
    /\ disturbed' = disturbed + 1
    /\ UNCHANGED <<found, script, runs>>

\* attach: the first profile of a user is primary and its id the user's.
OtherAttaches(u, p) ==
    /\ Disturb
    /\ rowOwner[p] = NoUser
    /\ rowOwner' = [rowOwner EXCEPT ![p] = u]
    /\ IF u \notin {rowOwner[q] : q \in Profiles}
       THEN /\ primaryRow' = [primaryRow EXCEPT ![u] = p]
            /\ rwId' = [rwId EXCEPT ![u] = p] /\ Unique(rwId')
       ELSE UNCHANGED <<primaryRow, rwId>>

\* detach: the primary row goes only as the last one, and the id with it.
OtherDetaches(u, p) ==
    /\ Disturb
    /\ rowOwner[p] = u
    /\ rowOwner' = [rowOwner EXCEPT ![p] = NoUser]
    /\ IF \E q \in Profiles \ {p} : rowOwner[q] = u
       THEN primaryRow[u] # p /\ UNCHANGED <<primaryRow, rwId>>
       ELSE /\ primaryRow' = [primaryRow EXCEPT ![u] = NoProfile]
            /\ rwId' = [rwId EXCEPT ![u] = NoProfile]

\* set_primary
OtherPromotes(u, p) ==
    /\ Disturb
    /\ rowOwner[p] = u /\ primaryRow[u] # p
    /\ primaryRow' = [primaryRow EXCEPT ![u] = p]
    /\ rwId' = [rwId EXCEPT ![u] = p] /\ Unique(rwId')
    /\ UNCHANGED rowOwner

Script == (\E apply \in BOOLEAN : Audit(apply)) \/ AuditAgain \/ Apply \/ ApplyFails \/ Verify

Next ==
    \/ Script
    \/ \E u \in Users, p \in Profiles :
         OtherAttaches(u, p) \/ OtherDetaches(u, p) \/ OtherPromotes(u, p)

Spec == Init /\ [][Next]_backfillVars

-----------------------------------------------------------------------------
(* Properties *)

TypeOK ==
    /\ rwId \in [Users -> Profiles \cup {NoProfile}]
    /\ rowOwner \in [Profiles -> Users \cup {NoUser}]
    /\ primaryRow \in [Users -> Profiles \cup {NoProfile}]
    /\ script.pc \in {"idle", "write", "apply", "verify", "done"}
    /\ script.code \in {0, 2, 3}
    /\ Unique(rwId)

\* "Ownership cannot be silently moved" and "preserves an already-established primary":
\* whatever other services did after the audit, the writes move no row to another user
\* and take the primary row from nobody, and no two users end up with one profile.
KeepsWhatIsThere ==
    /\ \A p \in Profiles : rowOwner[p] # NoUser => rowOwner'[p] = rowOwner[p]
    /\ \A u \in Users : primaryRow[u] # NoProfile => primaryRow'[u] = primaryRow[u]
    /\ \A a \in script.plan : rowOwner'[a.profile] \in {NoUser, a.user}

\* A script nobody disturbed writes whatever its clean audit planned, and the next audit
\* finds nothing left to do: the plan and the writes agree in every case.
FinishesItsPlan ==
    disturbed = 0 => script'.pc # "done" \/ script'.code = 0

\* The writing transaction keeps what it finds, and the script finishes its plan.
BackfillIsSafe ==
    [][/\ script.pc = "apply" /\ script'.pc = "verify" => KeepsWhatIsThere
       /\ script.pc \in {"apply", "verify"} /\ script' # script => FinishesItsPlan]_backfillVars
=============================================================================
