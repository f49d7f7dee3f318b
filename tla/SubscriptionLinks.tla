--------------------------- MODULE SubscriptionLinks ---------------------------
(***************************************************************************)
(* Which panel profiles belong to which account: the rows of               *)
(* user_subscriptions, the primary one, its copy in users.rw_id, and the   *)
(* pending onboarding of an account.                                       *)
(*                                                                         *)
(* Sources: packages/common_db/common_db/repo (subscriptions.py,           *)
(* subscription_onboarding.py), models/users.py and the endpoints that     *)
(* call them: miniapp/backend (web/subscription_sso_router.py, android/    *)
(* email_router.py) and dashboard/backend/routers/users.py.                *)
(*                                                                         *)
(* Every operation reads its rows, then writes in the same transaction     *)
(* what it concluded from them.  Two unique indexes are the only guard:    *)
(* one row per profile, one primary row per account; only onboarding       *)
(* locks the account.                                                      *)
(***************************************************************************)
EXTENDS Naturals

CONSTANTS
    Owners, Profiles, Transactions,
    NoOwner, NoProfile,
    MaxChanges      \* bound: operations

VARIABLES
    owner,          \* owner[p]: the account of p's row, if there is one
    primary,        \* primary[p]: user_subscriptions.is_primary
    mirror,         \* mirror[u]: users.rw_id
    pending,        \* pending[u]: pending_subscription_onboarding, the profiles named in it
    change,         \* change[t]: a transaction
    raced,          \* history: two transactions were under way at the same time
    changes

linkVars == <<owner, primary, mirror, pending, change, raced, changes>>

Quiet == [op |-> "none", user |-> NoOwner, profile |-> NoProfile, known |-> FALSE,
          wasPrimary |-> FALSE, rows |-> {}, asked |-> FALSE]

Init ==
    /\ owner = [p \in Profiles |-> NoOwner]
    /\ primary = [p \in Profiles |-> FALSE]
    /\ mirror = [u \in Owners |-> NoProfile]
    /\ pending \in [Owners -> {{}} \cup {{p} : p \in Profiles \cup {NoProfile}}]
    /\ change = [t \in Transactions |-> Quiet]
    /\ raced = FALSE
    /\ changes = 0

Owned(u) == {p \in Profiles : owner[p] = u}

\* Onboarding reads the account FOR UPDATE.
Locked(u) ==
    \E t \in Transactions : change[t].user = u /\ change[t].op \in {"finalize", "initial"}

\* A transaction reads its rows and goes on with op.
Read(t, op, u, p, asked) ==
    /\ change[t].op = "none"
    /\ changes < MaxChanges
    /\ changes' = changes + 1
    /\ raced' = (raced \/ \E s \in Transactions \ {t} : change[s].op # "none")
    /\ change' = [change EXCEPT ![t] =
         [op |-> op, user |-> u, profile |-> p, known |-> p \in Owned(u),
          wasPrimary |-> p \in Owned(u) /\ primary[p], rows |-> Owned(u),
          asked |-> asked \/ Owned(u) = {}]]
    /\ UNCHANGED <<owner, primary, mirror, pending>>

\* attach: ownership is not moved silently.
ReadAttach(t, u, p, makePrimary) ==
    /\ owner[p] \in {u, NoOwner}
    /\ Read(t, "attach", u, p, makePrimary)

ReadSetPrimary(t, u, p) ==
    /\ p \in Owned(u)
    /\ Read(t, "primary", u, p, FALSE)

\* detach: the primary row goes last.
ReadDetach(t, u, p) ==
    /\ p \in Owned(u)
    /\ primary[p] => Owned(u) = {p}
    /\ Read(t, "detach", u, p, FALSE)

\* attach_initial: a free profile for an account that has none.
ReadInitial(t, u, p) ==
    /\ ~Locked(u)
    /\ owner[p] = NoOwner
    /\ Owned(u) = {}
    /\ Read(t, "initial", u, p, TRUE)

\* finalize_email_verification, of an account whose pending row names a profile.
ReadFinalize(t, u, p) ==
    /\ ~Locked(u)
    /\ p \in pending[u]
    /\ Owned(u) = {}
    /\ owner[p] = NoOwner
    /\ Read(t, "finalize", u, p, TRUE)

\* Nothing to attach: another account has the profile, this one has some already, or
\* the row has expired.
ClearPending(u) ==
    /\ ~Locked(u)
    /\ pending[u] # {}
    /\ pending' = [pending EXCEPT ![u] = {}]
    /\ UNCHANGED <<owner, primary, mirror, change, raced, changes>>

-----------------------------------------------------------------------------
(* The writes *)

Ends(t) == change' = [change EXCEPT ![t] = Quiet]

\* Faulty variant: no unique index on the primary rows.
AnyPrimary(own, pri) == TRUE

\* ux_user_subscriptions_primary
OnePrimaryEach(own, pri) ==
    \A p, q \in Profiles : pri[p] /\ pri[q] /\ own[p] = own[q] => p = q

\* ux_users_rw_id
MirrorFree(u, p) == \A v \in Owners \ {u} : mirror[v] # p

\* A new row needs a free profile, a known one must still be there.
RowAsRead(x) == IF x.known THEN owner[x.profile] = x.user ELSE owner[x.profile] = NoOwner

MakesPrimary(x) == x.asked

\* The other rows give way when the profile is to be the primary one: those that were
\* there when the update ran, some time between the read and the commit.  The flag of
\* a row that was read as primary is not written at all.
WriteAttach(t) ==
    LET x == change[t]
        own == [owner EXCEPT ![x.profile] = x.user]
        leads == MakesPrimary(x) \/ x.wasPrimary
    IN
    /\ x.op \in {"attach", "initial", "finalize"}
    /\ RowAsRead(x)
    /\ \E cleared \in {x.rows, Owned(x.user)} :
         primary' = IF MakesPrimary(x)
                    THEN [p \in Profiles |-> p = x.profile \/ (primary[p] /\ p \notin cleared)]
                    ELSE primary
    /\ OnePrimaryEach(own, primary')
    /\ leads => MirrorFree(x.user, x.profile)
    /\ owner' = own
    /\ mirror' = IF leads THEN [mirror EXCEPT ![x.user] = x.profile] ELSE mirror
    /\ pending' = IF x.op = "attach" THEN pending ELSE [pending EXCEPT ![x.user] = {}]
    /\ Ends(t)
    /\ UNCHANGED <<raced, changes>>

WriteSetPrimary(t) ==
    LET x == change[t]
        now == [p \in Profiles |-> IF owner[p] = x.user THEN p = x.profile ELSE primary[p]]
    IN
    /\ x.op = "primary"
    /\ RowAsRead(x)
    /\ MirrorFree(x.user, x.profile)
    /\ primary' = now
    /\ mirror' = [mirror EXCEPT ![x.user] = x.profile]
    /\ Ends(t)
    /\ UNCHANGED <<owner, pending, raced, changes>>

\* Faulty variant: the account keeps its rw_id.
MirrorKept(x) == mirror[x.user]

\* users.rw_id is emptied with the only row.
MirrorAfterDetach(x) == IF x.rows = {x.profile} THEN NoProfile ELSE mirror[x.user]

\* The row is deleted by its id, if it is still there.
WriteDetach(t) ==
    LET x == change[t]
        there == owner[x.profile] = x.user
    IN
    /\ x.op = "detach"
    /\ owner' = IF there THEN [owner EXCEPT ![x.profile] = NoOwner] ELSE owner
    /\ primary' = IF there THEN [primary EXCEPT ![x.profile] = FALSE] ELSE primary
    /\ mirror' = [mirror EXCEPT ![x.user] = MirrorAfterDetach(x)]
    /\ Ends(t)
    /\ UNCHANGED <<pending, raced, changes>>

\* A unique index, a row that is gone, or anything else: nothing is written.
WriteFails(t) ==
    /\ change[t].op # "none"
    /\ Ends(t)
    /\ UNCHANGED <<owner, primary, mirror, pending, raced, changes>>

Next ==
    \/ \E t \in Transactions, u \in Owners, p \in Profiles :
         \/ \E makePrimary \in BOOLEAN : ReadAttach(t, u, p, makePrimary)
         \/ ReadSetPrimary(t, u, p) \/ ReadDetach(t, u, p)
         \/ ReadInitial(t, u, p) \/ ReadFinalize(t, u, p)
    \/ \E u \in Owners : ClearPending(u)
    \/ \E t \in Transactions :
         WriteAttach(t) \/ WriteSetPrimary(t) \/ WriteDetach(t) \/ WriteFails(t)

Spec == Init /\ [][Next]_linkVars

-----------------------------------------------------------------------------
(* Properties *)

\* Types of all variables.
TypeOK ==
    /\ owner \in [Profiles -> Owners \cup {NoOwner}]
    /\ primary \in [Profiles -> BOOLEAN]
    /\ mirror \in [Owners -> Profiles \cup {NoProfile}]
    /\ \A u \in Owners : pending[u] \subseteq Profiles \cup {NoProfile}
    /\ change \in [Transactions ->
         [op : {"none", "attach", "primary", "detach", "initial", "finalize"},
          user : Owners \cup {NoOwner}, profile : Profiles \cup {NoProfile}, known : BOOLEAN,
          wasPrimary : BOOLEAN, rows : SUBSET Profiles, asked : BOOLEAN]]
    /\ raced \in BOOLEAN
    /\ changes \in Nat

\* While operations come one after another, whichever fail, the primary row of an
\* account is the one users.rw_id names, and an account with rows has one.
MirrorInStep ==
    ~raced =>
        \A u \in Owners :
            /\ Owned(u) = {} <=> mirror[u] = NoProfile
            /\ \A p \in Owned(u) : primary[p] <=> mirror[u] = p

\* However operations overlap, no account has two primary rows.
OnePrimary ==
    \A u \in Owners : \A p, q \in Owned(u) : primary[p] /\ primary[q] => p = q

\* The primary row is one, and the one users.rw_id names.
PrimaryTrue == MirrorInStep /\ OnePrimary

\* An account with rows has a primary one, as users.rw_id says, operations overlapping
\* or not.
AlwaysPrimary ==
    \A u \in Owners : Owned(u) # {} => \E p \in Owned(u) : primary[p] /\ mirror[u] = p
=============================================================================
