--------------------------- MODULE SubscriptionImport ---------------------------
(***************************************************************************)
(* How an account comes by a panel profile that was sold outside it: the   *)
(* customer pastes a subscription link and names its mailbox (by_url), or  *)
(* the admin sets the account's address or attaches a profile by hand.     *)
(*                                                                         *)
(* Sources: packages/account_linking/account_linking/merge.py              *)
(* (import_subscription_by_uuid), miniapp/backend/android/link_router.py   *)
(* and dashboard/backend/routers/users.py, with the rows of                *)
(* common_db/repo/subscriptions.py.                                        *)
(*                                                                         *)
(* An import reads the account, asks the panel twice, and writes what the  *)
(* rows then allow; the account it read is not read again, and its rw_id   *)
(* is written only if it differs from the one that was read.  The          *)
(* transaction at the end is one step here: SubscriptionLinks has the      *)
(* overlaps of such transactions.                                          *)
(***************************************************************************)
EXTENDS Naturals

CONSTANTS
    Accounts,       \* they have confirmed their addresses
    Profiles, Mailboxes, Requests,
    NoOwner, NoProfile, NoMailbox,
    Gone,           \* the panel has no such profile any more
    MaxEvents       \* bound: requests, and what the panel's admin does

VARIABLES
    owner, primary, \* the rows of user_subscriptions
    mirror,         \* mirror[u]: users.rw_id
    address,        \* address[u]: users.email
    panel,          \* panel[p]: the mailbox the panel has for p
    request,
    proved,         \* history: who was shown to be entitled to which profile
    taken,          \* history: a row changed hands
    strayed,        \* history: accounts whose rw_id may name another row than the primary one
    events

importVars ==
    <<owner, primary, mirror, address, panel, request, proved, taken, strayed, events>>

rows == <<owner, primary, mirror>>

Idle == [at |-> "none", user |-> NoOwner, profile |-> NoProfile, loaded |-> NoProfile,
         mail |-> NoMailbox, own |-> NoProfile]

Owned(u) == {p \in Profiles : owner[p] = u}

Leads(u) == {p \in Owned(u) : primary[p]}

\* An account has nothing, a profile as before the rows were introduced, or a row,
\* primary or (after two changes crossed) not.
Init ==
    /\ owner \in [Profiles -> Accounts \cup {NoOwner}]
    /\ \A u \in Accounts : \A p, q \in Owned(u) : p = q
    /\ primary \in [Profiles -> BOOLEAN]
    /\ \A p \in Profiles : primary[p] => owner[p] # NoOwner
    /\ mirror \in [Accounts -> Profiles \cup {NoProfile}]
    /\ \A u \in Accounts :
         /\ mirror[u] # NoProfile =>
              owner[mirror[u]] \in {u, NoOwner} /\ \A v \in Accounts \ {u} : mirror[v] # mirror[u]
         /\ Leads(u) # {} => Leads(u) = {mirror[u]}
    /\ address \in [Accounts -> Mailboxes]
    /\ \A u, v \in Accounts : address[u] = address[v] => u = v
    /\ panel \in [Profiles -> Mailboxes \cup {NoMailbox}]
    /\ request = [r \in Requests |-> Idle]
    /\ proved = {e \in Accounts \X Profiles : owner[e[2]] = e[1] \/ mirror[e[1]] = e[2]}
    /\ taken = FALSE
    /\ strayed = {u \in Accounts : Owned(u) # {} /\ Leads(u) = {}}
    /\ events = 0

Event == events < MaxEvents /\ events' = events + 1

Ends(r) == request' = [request EXCEPT ![r] = Idle]

Beside(u) == \E r \in Requests : request[r].user = u

-----------------------------------------------------------------------------
(* attach *)

\* What attach makes of the rows: the first row of an account is its primary one.
Attached(own, pri, u, p, lead) ==
    LET none == \A q \in Profiles : own[q] # u
        asked == lead \/ none
    IN [owner |-> [own EXCEPT ![p] = u],
        primary |-> [q \in Profiles |->
                       IF q = p THEN asked \/ pri[q] ELSE pri[q] /\ ~(asked /\ own[q] = u)]]

\* Faulty variant: the row of another account is updated, too.
AnyFree(own, u, p) == TRUE

\* Ownership cannot be silently moved between accounts.
Attachable(own, u, p) == own[p] \in {u, NoOwner}

\* ux_users_rw_id
MirrorFree(u, p) == \A v \in Accounts \ {u} : mirror[v] # p

\* The history of a step that attaches.
HandsChanged ==
    taken' = (taken \/ \E p \in Profiles : owner[p] # NoOwner /\ owner'[p] # owner[p])

-----------------------------------------------------------------------------
(* link_by_url *)

\* The account is loaded and the profile of the link looked up.
ImportBegins(r, u, p) ==
    /\ Event
    /\ request[r].at = "none"
    /\ request' = [request EXCEPT ![r] =
         [Idle EXCEPT !.at = "asked", !.user = u, !.profile = p, !.loaded = mirror[u],
                      !.mail = address[u]]]
    /\ UNCHANGED <<rows, address, panel, proved, taken, strayed>>

\* Faulty variant: any mailbox will do.
AnyClaim(p, claimed) == panel[p] # Gone

\* A profile without a mailbox is never confirmed.
ClaimConfirmed(p, claimed) == panel[p] \in Mailboxes /\ panel[p] = claimed

\* The mailbox must be the one the customer named.  A link to one's
\* own profile needs no further question.
LinkAnswered(r, claimed) ==
    LET x == request[r] IN
    /\ x.at = "asked"
    /\ ClaimConfirmed(x.profile, claimed)
    /\ proved' = IF panel[x.profile] = claimed
                 THEN proved \cup {<<x.user, x.profile>>} ELSE proved
    /\ request' = [request EXCEPT ![r].at = IF x.loaded = x.profile THEN "self" ELSE "found"]
    /\ UNCHANGED <<rows, address, panel, taken, strayed, events>>

\* rw_not_found: no profile, or another mailbox.
LinkRefused(r) ==
    /\ request[r].at = "asked"
    /\ \E claimed \in Mailboxes : ~ClaimConfirmed(request[r].profile, claimed)
    /\ Ends(r)
    /\ UNCHANGED <<rows, address, panel, proved, taken, strayed, events>>

\* The account's own profile: by its number, else by its address.
OwnProfiles(x) ==
    IF x.loaded # NoProfile /\ panel[x.loaded] # Gone THEN {x.loaded}
    ELSE LET byMail == {p \in Profiles : panel[p] = x.mail}
         IN IF byMail = {} THEN {NoProfile} ELSE byMail

OwnAnswered(r) ==
    LET x == request[r] IN
    /\ x.at = "found"
    /\ \E p \in OwnProfiles(x) :
         /\ request' = [request EXCEPT ![r].at = "writes", ![r].own = p]
         /\ proved' = IF p # NoProfile /\ (panel[p] = x.mail \/ p = x.loaded)
                      THEN proved \cup {<<x.user, p>>} ELSE proved
    /\ UNCHANGED <<rows, address, panel, taken, strayed, events>>

\* _decide: whose profile is named when the account has no primary row.
Chosen(a, b, aTier, bTier) ==
    IF a = NoProfile THEN b
    ELSE IF aTier = "pro" /\ bTier = "free" THEN a ELSE b

\* The rows after the own profile is attached, and then the link's.
OwnAttached(x) ==
    IF x.own = NoProfile THEN [owner |-> owner, primary |-> primary]
    ELSE Attached(owner, primary, x.user, x.own, FALSE)
BothAttached(x) ==
    Attached(OwnAttached(x).owner, OwnAttached(x).primary, x.user, x.profile, FALSE)

LeadsOf(w, u) == {p \in Profiles : w.owner[p] = u /\ w.primary[p]}

\* What rw_id is set to on the way.
Passed(x) == (LeadsOf(OwnAttached(x), x.user) \cap {x.own})
                \cup (LeadsOf(BothAttached(x), x.user) \cap {x.profile})

\* What it is to be in the end.
Finals(x) ==
    LET leads == LeadsOf(BothAttached(x), x.user) IN
    IF leads # {} THEN leads
    ELSE {Chosen(x.own, x.profile, a, b) : a, b \in {"pro", "free"}}

\* Both are attached, the primary row stays the one it was, and rw_id names it.
ImportWrites(r) ==
    LET x == request[r] IN
    /\ x.at = "writes"
    /\ \A p \in {x.own, x.profile} \ {NoProfile} : Attachable(owner, x.user, p)
    /\ owner' = BothAttached(x).owner
    /\ primary' = BothAttached(x).primary
    /\ \E final \in Finals(x) :
         IF Passed(x) \cup {final} = {x.loaded} THEN mirror' = mirror
         ELSE /\ \A p \in Passed(x) \cup {final} : MirrorFree(x.user, p)
              /\ mirror' = [mirror EXCEPT ![x.user] = final]
    /\ Ends(r)
    /\ HandsChanged
    /\ UNCHANGED <<address, panel, proved, strayed, events>>

\* already_owned: the row is made if it was missing.
SelfWrites(r) ==
    LET x == request[r]
        after == Attached(owner, primary, x.user, x.profile, FALSE)
    IN
    /\ x.at = "self"
    /\ Attachable(owner, x.user, x.profile)
    /\ owner' = after.owner
    /\ primary' = after.primary
    /\ mirror' = mirror
    /\ Ends(r)
    /\ HandsChanged
    /\ UNCHANGED <<address, panel, proved, strayed, events>>

\* Anything else is rolled back: another account's profile, an index, the panel's silence.
ImportFails(r) ==
    /\ request[r].at # "none"
    /\ Ends(r)
    /\ UNCHANGED <<rows, address, panel, proved, taken, strayed, events>>

-----------------------------------------------------------------------------
(* The dashboard *)

\* update_email: the address, unless another account has it, is committed as it is typed.
UpdateEmail(r, u, m) ==
    /\ Event
    /\ request[r].at = "none"
    /\ \A v \in Accounts \ {u} : address[v] # m
    /\ address' = [address EXCEPT ![u] = m]
    /\ request' = [request EXCEPT ![r] = [Idle EXCEPT !.at = "mailed", !.user = u, !.mail = m]]
    /\ UNCHANGED <<rows, panel, proved, taken, strayed>>

\* Then the panel's profile of that mailbox becomes rw_id, and is attached unless
\* another account has it; it is the primary row only if it is the first one.
EmailAttaches(r) ==
    LET x == request[r] IN
    /\ x.at = "mailed"
    /\ \E p \in Profiles :
         LET after == Attached(owner, primary, x.user, p, FALSE) IN
         /\ panel[p] = x.mail
         /\ MirrorFree(x.user, p)
         /\ Attachable(owner, x.user, p)
         /\ owner' = after.owner
         /\ primary' = after.primary
         /\ mirror' = [mirror EXCEPT ![x.user] = p]
         /\ proved' = proved \cup {<<x.user, p>>}
         /\ strayed' = IF after.primary[p] THEN strayed ELSE strayed \cup {x.user}
    /\ Ends(r)
    /\ HandsChanged
    /\ UNCHANGED <<address, panel, events>>

\* attach_user_subscription, of a profile the panel has.
DashboardAttaches(u, p, lead) ==
    LET after == Attached(owner, primary, u, p, lead) IN
    /\ Event
    /\ panel[p] # Gone
    /\ Attachable(owner, u, p)
    /\ after.primary[p] => MirrorFree(u, p)
    /\ owner' = after.owner
    /\ primary' = after.primary
    /\ mirror' = IF after.primary[p] THEN [mirror EXCEPT ![u] = p] ELSE mirror
    /\ proved' = proved \cup {<<u, p>>}
    /\ HandsChanged
    /\ UNCHANGED <<address, panel, request, strayed>>

\* detach_user_subscription: the primary row goes last.  An import that has read rw_id
\* before does not write it again.
DashboardDetaches(u, p) ==
    /\ Event
    /\ p \in Owned(u)
    /\ primary[p] => Owned(u) = {p}
    /\ owner' = [owner EXCEPT ![p] = NoOwner]
    /\ primary' = [primary EXCEPT ![p] = FALSE]
    /\ mirror' = IF Owned(u) = {p} THEN [mirror EXCEPT ![u] = NoProfile] ELSE mirror
    /\ strayed' = IF Beside(u) THEN strayed \cup {u} ELSE strayed
    /\ UNCHANGED <<address, panel, request, proved, taken>>

\* The panel's admin gives a profile another mailbox, or deletes it.
PanelEdited(p, m) ==
    /\ Event
    /\ panel' = [panel EXCEPT ![p] = m]
    /\ UNCHANGED <<rows, address, request, proved, taken, strayed>>

Next ==
    \/ \E r \in Requests :
         \/ \E u \in Accounts, p \in Profiles : ImportBegins(r, u, p)
         \/ \E claimed \in Mailboxes : LinkAnswered(r, claimed)
         \/ LinkRefused(r) \/ OwnAnswered(r) \/ ImportWrites(r) \/ SelfWrites(r)
         \/ ImportFails(r)
         \/ \E u \in Accounts, m \in Mailboxes : UpdateEmail(r, u, m)
         \/ EmailAttaches(r)
    \/ \E u \in Accounts, p \in Profiles :
         \/ \E lead \in BOOLEAN : DashboardAttaches(u, p, lead)
         \/ DashboardDetaches(u, p)
    \/ \E p \in Profiles, m \in Mailboxes \cup {NoMailbox, Gone} : PanelEdited(p, m)

Spec == Init /\ [][Next]_importVars

-----------------------------------------------------------------------------
(* Properties *)

\* Types of all variables.
TypeOK ==
    /\ owner \in [Profiles -> Accounts \cup {NoOwner}]
    /\ primary \in [Profiles -> BOOLEAN]
    /\ mirror \in [Accounts -> Profiles \cup {NoProfile}]
    /\ address \in [Accounts -> Mailboxes]
    /\ panel \in [Profiles -> Mailboxes \cup {NoMailbox, Gone}]
    /\ request \in [Requests ->
         [at : {"none", "asked", "self", "found", "writes", "mailed"},
          user : Accounts \cup {NoOwner}, profile : Profiles \cup {NoProfile},
          loaded : Profiles \cup {NoProfile}, mail : Mailboxes \cup {NoMailbox},
          own : Profiles \cup {NoProfile}]]
    /\ proved \subseteq Accounts \X Profiles
    /\ taken \in BOOLEAN
    /\ strayed \subseteq Accounts
    /\ events \in 0..MaxEvents

\* Whatever the panel and other requests do meanwhile, an account has a profile only if
\* it was shown to be entitled to it: it had it, the admin attached it, it has the
\* account's own address, or its mailbox was the one named with the link.
Entitled == \A p \in Profiles : owner[p] # NoOwner => <<owner[p], p>> \in proved

\* No request moves a row from one account to another.
RowsStay == ~taken

\* However an import overlaps what else is attached, rw_id names the primary row; not so
\* after a detachment beside an import, or when the profile of an address the admin set
\* is the account's second one.
LeadIsMirrored ==
    \A u \in Accounts \ strayed : Owned(u) # {} => Leads(u) = {mirror[u]}

\* What an import may do to an account.
ImportSound == Entitled /\ RowsStay /\ LeadIsMirrored

\* The same of every account.
AlwaysMirrored ==
    \A u \in Accounts : Leads(u) # {} => Leads(u) = {mirror[u]}
=============================================================================
