------------------------------- MODULE PageSession -------------------------------
(***************************************************************************)
(* The sign-in of the public subscription page: a signed context names the *)
(* profile, a person who is signed in to the portal authorises the page,   *)
(* the page exchanges the code for a session of its own, and with context  *)
(* and session the profile is attached.                                    *)
(*                                                                         *)
(* Sources: services/miniapp/backend/web/subscription_sso_router.py and    *)
(* android/security.py, the row web_authorization_codes                    *)
(* (common_db/models/auth.py), which a merge moves to the surviving        *)
(* account (account_linking/merge.py).                                     *)
(*                                                                         *)
(* Portal tokens, contexts and sessions are signed and kept nowhere: what  *)
(* ends them is their time, and what their account has become.  Only the   *)
(* code is a row.                                                          *)
(***************************************************************************)
EXTENDS Naturals

CONSTANTS
    People, Tabs,           \* accounts; open pages, each with its own verifier
    Profiles, Exchanges,    \* requests to /oauth/token
    MaxCodes,               \* bound: codes issued
    AccessTtl, CodeTtl, ContextTtl, SessionTtl,
    LastMoment, MaxEvents,  \* bounds: the clock; sign-ins, contexts and what the admin does
    Nobody

VARIABLES
    clock,
    human,          \* human[u]: the account's row
    access,         \* access[u]: when the portal's latest token of u expires; 0: none
    codes,          \* web_authorization_codes
    exchange,       \* exchange[e]: a request under way
    sessions,       \* subscription_session tokens that were issued
    context,        \* context[t]: the subscription_context token of a page
    holder,         \* holder[p]: the account the profile is attached to
    signedIn,       \* history: signedIn[u]: the latest sign-in of u, or of one merged into u
    agreed,         \* history: who authorised which page
    happened

pageVars == <<clock, human, access, codes, exchange, sessions, context, holder, signedIn,
              agreed, happened>>

Event == happened < MaxEvents /\ happened' = happened + 1

NoContext == [profile |-> 0, until |-> 0]

Idle == [at |-> "none", tab |-> 1, code |-> 0, user |-> Nobody]

Init ==
    /\ clock = 1
    /\ human \in [People -> [there : {TRUE}, banned : {FALSE}, verified : BOOLEAN]]
    /\ access = [u \in People |-> 0]
    /\ codes = {}
    /\ exchange = [e \in Exchanges |-> Idle]
    /\ sessions = {}
    /\ context = [t \in Tabs |-> NoContext]
    /\ holder = [p \in Profiles |-> Nobody]
    /\ signedIn = [u \in People |-> 0]
    /\ agreed = {}
    /\ happened = 0

\* What every request of a signed-in person asks of his account.
Welcome(u) == human[u].there /\ ~human[u].banned

\* Token and code lifetimes are minutes, requests take less.
Tick ==
    /\ clock < LastMoment
    /\ \A e \in Exchanges : exchange[e].at = "none"
    /\ clock' = clock + 1
    /\ UNCHANGED <<human, access, codes, exchange, sessions, context, holder, signedIn, agreed,
                   happened>>

\* issue_access_token: after a sign-in; a logout takes the refresh token back, not this one.
SignsIn(u) ==
    /\ Event
    /\ Welcome(u)
    /\ access' = [access EXCEPT ![u] = clock + AccessTtl]
    /\ signedIn' = [signedIn EXCEPT ![u] = clock]
    /\ UNCHANGED <<clock, human, codes, exchange, sessions, context, holder, agreed>>

\* create_subscription_context: the link's profile, as long as the panel has it.
OpensContext(t, p) ==
    /\ Event
    /\ context' = [context EXCEPT ![t] = [profile |-> p, until |-> clock + ContextTtl]]
    /\ UNCHANGED <<clock, human, access, codes, exchange, sessions, holder, signedIn, agreed>>

\* Faulty variant: a token is good at the moment it expires, too.
NotPast(until) == until >= clock

Fresh(until) == until > clock

\* authorize_subscription_page, for the page that sent its challenge.
Authorizes(u, t) ==
    /\ Fresh(access[u])
    /\ Welcome(u)
    /\ human[u].verified
    /\ \E i \in 1..MaxCodes :
         /\ \A c \in codes : c.id # i
         /\ codes' = codes \cup {[id |-> i, user |-> u, challenge |-> t, used |-> FALSE,
                                  until |-> clock + CodeTtl]}
    /\ agreed' = agreed \cup {<<u, t>>}
    /\ UNCHANGED <<clock, human, access, exchange, sessions, context, holder, signedIn, happened>>

-----------------------------------------------------------------------------
(* exchange_authorization_code *)

CodeOf(i) == CHOOSE c \in codes : c.id = i

\* The row is read, with the challenge the page's verifier answers.
ReadsCode(e, t, c) ==
    /\ exchange[e].at = "none"
    /\ ~c.used /\ Fresh(c.until) /\ c.challenge = t
    /\ exchange' = [exchange EXCEPT ![e] =
         [at |-> "read", tab |-> t, code |-> c.id, user |-> c.user]]
    /\ UNCHANGED <<clock, human, access, codes, sessions, context, holder, signedIn, agreed,
                   happened>>

\* Faulty variant: what was read is enough.
AsRead(c) == TRUE

\* The update's own condition.
StillUnused(c) == ~c.used /\ Fresh(c.until)

\* One row updated: the session is the account's that was read.
ConsumesCode(e) ==
    LET x == exchange[e]
        c == CodeOf(x.code)
    IN
    /\ x.at = "read"
    /\ StillUnused(c)
    /\ codes' = (codes \ {c}) \cup {[c EXCEPT !.used = TRUE]}
    /\ sessions' = sessions \cup
         {[code |-> x.code, by |-> e, tab |-> x.tab, user |-> x.user,
           until |-> clock + SessionTtl]}
    /\ exchange' = [exchange EXCEPT ![e] = Idle]
    /\ UNCHANGED <<clock, human, access, context, holder, signedIn, agreed, happened>>

\* invalid_grant, or the request is cut off before its commit.
ExchangeFails(e) ==
    /\ exchange[e].at = "read"
    /\ exchange' = [exchange EXCEPT ![e] = Idle]
    /\ UNCHANGED <<clock, human, access, codes, sessions, context, holder, signedIn, agreed,
                   happened>>

-----------------------------------------------------------------------------
(* The page acts *)

\* _subscription_session_user
Accepted(s) == Fresh(s.until) /\ Welcome(s.user)

\* attach_initial_subscription: verified by mail or Telegram at this moment, and the first
\* profile of the account.
AttachesInitial(s) ==
    LET x == context[s.tab] IN
    /\ Accepted(s)
    /\ human[s.user].verified
    /\ x.profile # 0 /\ Fresh(x.until)
    /\ holder[x.profile] = Nobody
    /\ \A p \in Profiles : holder[p] # s.user
    /\ holder' = [holder EXCEPT ![x.profile] = s.user]
    /\ UNCHANGED <<clock, human, access, codes, exchange, sessions, context, signedIn, agreed,
                   happened>>

\* attach_subscription: the same without the question for the address, for any number.
AttachesAnother(s) ==
    LET x == context[s.tab] IN
    /\ Accepted(s)
    /\ x.profile # 0 /\ Fresh(x.until)
    /\ holder[x.profile] = Nobody
    /\ holder' = [holder EXCEPT ![x.profile] = s.user]
    /\ UNCHANGED <<clock, human, access, codes, exchange, sessions, context, signedIn, agreed,
                   happened>>

-----------------------------------------------------------------------------
(* What happens to the accounts *)

\* ban_user and unban_user, the confirmation of an address and its loss.
AccountEdited(u, field) ==
    /\ Event
    /\ human[u].there
    /\ human' = [human EXCEPT ![u][field] = ~human[u][field]]
    /\ UNCHANGED <<clock, access, codes, exchange, sessions, context, holder, signedIn, agreed>>

\* _FK_TABLES_USER_ID: web_authorization_codes follow the survivor.
CodesMoved(u, v) ==
    {[c EXCEPT !.user = IF c.user = u THEN v ELSE c.user] : c \in codes}

\* _apply_merge_db: the rows of u become v's, u is deleted, and what one of them proved the
\* account has proved.
Merges(u, v) ==
    /\ Event
    /\ human[u].there /\ human[v].there
    /\ human' = [human EXCEPT ![u].there = FALSE,
                              ![v].verified = human[u].verified \/ human[v].verified]
    /\ codes' = CodesMoved(u, v)
    /\ holder' = [p \in Profiles |-> IF holder[p] = u THEN v ELSE holder[p]]
    /\ signedIn' = [signedIn EXCEPT ![v] = IF signedIn[u] > signedIn[v] THEN signedIn[u] ELSE signedIn[v]]
    /\ agreed' = agreed \cup {<<v, a[2]>> : a \in {b \in agreed : b[1] = u}}
    /\ UNCHANGED <<clock, access, exchange, sessions, context>>

Next ==
    \/ Tick
    \/ \E u \in People :
         \/ SignsIn(u)
         \/ \E t \in Tabs : Authorizes(u, t)
         \/ \E field \in {"banned", "verified"} : AccountEdited(u, field)
         \/ \E v \in People \ {u} : Merges(u, v)
    \/ \E t \in Tabs, p \in Profiles : OpensContext(t, p)
    \/ \E e \in Exchanges :
         \/ \E t \in Tabs, c \in codes : ReadsCode(e, t, c)
         \/ ConsumesCode(e) \/ ExchangeFails(e)
    \/ \E s \in sessions : AttachesInitial(s) \/ AttachesAnother(s)

Spec == Init /\ [][Next]_pageVars

-----------------------------------------------------------------------------
(* Properties *)

\* Types of all variables.
TypeOK ==
    /\ clock \in 1..LastMoment
    /\ human \in [People -> [there : BOOLEAN, banned : BOOLEAN, verified : BOOLEAN]]
    /\ access \in [People -> Nat]
    /\ codes \subseteq [id : 1..MaxCodes, user : People, challenge : Tabs, used : BOOLEAN,
                        until : Nat]
    /\ exchange \in [Exchanges -> [at : {"none", "read"}, tab : Tabs, code : 0..MaxCodes,
                                   user : People \cup {Nobody}]]
    /\ sessions \subseteq [code : 1..MaxCodes, by : Exchanges, tab : Tabs, user : People,
                           until : Nat]
    /\ context \in [Tabs -> [profile : Profiles \cup {0}, until : Nat]]
    /\ holder \in [Profiles -> People \cup {Nobody}]
    /\ signedIn \in [People -> 0..LastMoment]
    /\ agreed \subseteq People \X Tabs
    /\ happened \in 0..MaxEvents

\* However the exchanges of a code overlap, it gives one session.
OneSessionPerCode == \A s, z \in sessions : s.code = z.code => s = z

\* A session belongs to whoever authorised the very page that has it, or to the account
\* that person was merged into.
OfOwnPage == \A s \in sessions : <<s.user, s.tab>> \in agreed

\* No token can be taken back, so the chain must end by itself: whatever is done with the
\* page's session is done a known time after the account's last sign-in at most.
ChainEnds ==
    \A s \in sessions :
        s.until <= signedIn[s.user] + AccessTtl + CodeTtl + SessionTtl - 2

\* What signs a page in, and for how long.
PageSessionsSound == OneSessionPerCode /\ OfOwnPage /\ ChainEnds
=============================================================================
