----------------------------- MODULE AccountMerge -----------------------------
(***************************************************************************)
(* One person, two rows: an e-mail account and a Telegram account are      *)
(* joined, by a code confirmed in the bot or by e-mail and password in the *)
(* mini app.  Either the Telegram id is written to the e-mail row, or one  *)
(* row is merged into the other and deleted.                               *)
(*                                                                         *)
(* Sources: packages/account_linking/account_linking/merge.py,             *)
(* services/bot/app/handlers/android_link.py, services/miniapp/backend     *)
(* (routers/link_email.py, android/link_router.py, android/repo.py),       *)
(* common_db/models/users.py and repo/balance.py.                          *)
(*                                                                         *)
(* A merge reads both rows, asks the panel about both, and writes what it  *)
(* concluded from the rows it had read.                                    *)
(***************************************************************************)
EXTENDS Naturals

CONSTANTS
    EmailAccounts, TelegramAccounts,    \* rows that were created one way or the other
    TelegramIds, NoTelegram, NoAccountRow,
    Links,                              \* operations under way
    MaxEarned, MaxRows, MaxLinks        \* bounds: points, owned rows, operations

Rows == EmailAccounts \cup TelegramAccounts

VARIABLES
    account,        \* account[u]: users: exists, tg_id, has an e-mail address, points
    ledgerOf,       \* ledgerOf[u]: the sum of credit_ledger for user_id u
    code,           \* code[u]: a code to link Telegram that nobody has used
    owned,          \* rows of other tables, with the account they belong to
    link,           \* link[k]: an operation
    created,        \* history: the numbers of the rows that should still be there
    crossed,        \* history: points changed between a merge's read and its writes
    beside,         \* history: two operations were under way at the same time
    links

mergeVars == <<account, ledgerOf, code, owned, link, created, crossed, beside, links>>

Resting == [pc |-> "idle", path |-> "none", email |-> NoAccountRow, other |-> NoAccountRow,
            tg |-> NoTelegram, survivorHad |-> 0, loserHad |-> 0, taken |-> {}]

Init ==
    /\ account = [u \in Rows |-> [exists |-> u \in EmailAccounts, tg |-> NoTelegram,
                                  email |-> u \in EmailAccounts, points |-> 0]]
    /\ ledgerOf = [u \in Rows |-> 0]
    /\ code = [u \in EmailAccounts |-> FALSE]
    /\ owned = {}
    /\ link = [k \in Links |-> Resting]
    /\ created = {} /\ crossed = FALSE /\ beside = FALSE
    /\ links = 0

Exists(u) == account[u].exists
Holders(g) == {u \in Rows : Exists(u) /\ account[u].tg = g}

\* A merge keeps both rows locked from its first write on.
Writing(k) == link[k].pc = "delete"
RowLocked(u) == \E k \in Links : Writing(k) /\ u \in {link[k].email, link[k].other}

Survivor(x) == IF x.path = "bot" THEN x.other ELSE x.email
Loser(x) == IF x.path = "bot" THEN x.email ELSE x.other

\* A merge has read the row and not written it yet.
Crossing(u) == \E k \in Links : link[k].pc = "move" /\ u \in {link[k].email, link[k].other}

Rest(k) == link' = [link EXCEPT ![k] = Resting]

-----------------------------------------------------------------------------
(* Linking *)

\* start_link: an account without Telegram gets a code.
StartLink(u) ==
    /\ Exists(u) /\ account[u].tg = NoTelegram
    /\ ~code[u]
    /\ code' = [code EXCEPT ![u] = TRUE]
    /\ UNCHANGED <<account, ledgerOf, owned, link, created, crossed, beside, links>>

\* unlink_telegram
UnlinkTelegram(u) ==
    /\ Exists(u) /\ account[u].tg # NoTelegram
    /\ ~RowLocked(u)
    /\ account' = [account EXCEPT ![u].tg = NoTelegram]
    /\ UNCHANGED <<ledgerOf, code, owned, link, created, crossed, beside, links>>

\* The bot registers a Telegram user it does not know.
Register(u, g) ==
    /\ ~Exists(u)
    /\ Holders(g) = {}
    /\ \A k \in Links : u \notin {link[k].email, link[k].other}
    /\ u \notin {r.owner : r \in owned} /\ ledgerOf[u] = 0
    /\ account' = [account EXCEPT ![u] =
         [exists |-> TRUE, tg |-> g, email |-> FALSE, points |-> 0]]
    /\ beside' = (beside \/ \E k \in Links : link[k].pc # "idle")
    /\ UNCHANGED <<ledgerOf, code, owned, link, created, crossed, links>>

\* One of the rows with this Telegram id, if there is any.
Found(g) == IF Holders(g) = {} THEN {NoAccountRow} ELSE Holders(g)

\* The checks of consume_android_link_code and of link_email: the e-mail row has no
\* Telegram id; there is a code, or the Telegram row has no e-mail address.
BeginLink(k, path, e, g) ==
    \E other \in Found(g) :
        /\ link[k].pc = "idle"
        /\ links < MaxLinks
        /\ links' = links + 1
        /\ Exists(e) /\ account[e].tg = NoTelegram
        /\ path = "bot" => code[e]
        /\ path = "email" /\ other # NoAccountRow => ~account[other].email
        /\ other # e
        /\ link' = [link EXCEPT ![k] =
             [Resting EXCEPT !.pc = IF other = NoAccountRow THEN "bind" ELSE "look",
                             !.path = path, !.email = e, !.other = other, !.tg = g]]
        /\ beside' = (beside \/ \E j \in Links \ {k} : link[j].pc # "idle")
        /\ UNCHANGED <<account, ledgerOf, code, owned, created, crossed>>

\* The Telegram id is written to the e-mail row as it is by now.
Bind(k) ==
    LET x == link[k] IN
    /\ x.pc = "bind"
    /\ ~RowLocked(x.email)
    /\ IF Exists(x.email) THEN account' = [account EXCEPT ![x.email].tg = x.tg]
       ELSE UNCHANGED account
    /\ code' = IF x.path = "bot" THEN [code EXCEPT ![x.email] = FALSE] ELSE code
    /\ Rest(k)
    /\ UNCHANGED <<ledgerOf, owned, created, crossed, beside, links>>

\* The merge reads both rows and asks the panel about both profiles.
ReadRows(k) ==
    LET x == link[k] IN
    /\ x.pc = "look"
    /\ Exists(x.email) /\ Exists(x.other)
    /\ link' = [link EXCEPT ![k].pc = "move",
                            ![k].survivorHad = account[Survivor(x)].points,
                            ![k].loserHad = account[Loser(x)].points]
    /\ UNCHANGED <<account, ledgerOf, code, owned, created, crossed, beside, links>>

\* Faulty variant: one of the tables is forgotten.
OrdersOf(u) == {r \in owned : r.owner = u /\ r.kind = "order"}

\* _all_user_owned_tables and user_subscriptions
RowsOf(u) == {r \in owned : r.owner = u}

\* The rows that are there now will change hands; both accounts are locked.
MoveRows(k) ==
    LET x == link[k] IN
    /\ x.pc = "move"
    /\ ~RowLocked(x.email) /\ ~RowLocked(x.other)
    /\ Exists(x.email) /\ Exists(x.other)
    /\ link' = [link EXCEPT ![k].pc = "delete", ![k].taken = RowsOf(Loser(x))]
    /\ UNCHANGED <<account, ledgerOf, code, owned, created, crossed, beside, links>>

\* Faulty variant: the survivor keeps the points it had.
SurvivorsPoints(x) == account[Survivor(x)].points

\* The sum of what was read; a sum that equals what was read is not written.
MergedPoints(x) ==
    IF x.loserHad = 0 THEN account[Survivor(x)].points ELSE x.survivorHad + x.loserHad

\* The loser is deleted and its later rows with it, unless an order stands against it.
DeleteLoser(k) ==
    LET x == link[k]
        late == RowsOf(Loser(x)) \ x.taken
    IN
    /\ x.pc = "delete"
    /\ \A r \in late : r.kind # "order"
    /\ account' = [account EXCEPT
         ![Survivor(x)] = [exists |-> TRUE, tg |-> x.tg, email |-> TRUE, points |-> MergedPoints(x)],
         ![Loser(x)] = [exists |-> FALSE, tg |-> NoTelegram, email |-> FALSE, points |-> 0]]
    /\ ledgerOf' = [ledgerOf EXCEPT ![Survivor(x)] = @ + ledgerOf[Loser(x)], ![Loser(x)] = 0]
    /\ owned' = {IF r \in x.taken THEN [r EXCEPT !.owner = Survivor(x)] ELSE r : r \in owned \ late}
    /\ created' = created \ {r.id : r \in late}
    /\ code' = IF x.path = "bot" THEN [code EXCEPT ![x.email] = FALSE] ELSE code
    /\ crossed' = (crossed \/ Crossing(Survivor(x)))
    /\ Rest(k)
    /\ UNCHANGED <<beside, links>>

\* The panel is down, a row is gone, PostgreSQL finds a deadlock, an order was added:
\* nothing has happened.
LinkFails(k) ==
    /\ link[k].pc # "idle"
    /\ Rest(k)
    /\ UNCHANGED <<account, ledgerOf, code, owned, created, crossed, beside, links>>

-----------------------------------------------------------------------------
(* What else happens to the accounts *)

\* Points are credited under a lock of the row (balance.py).
Earn(u) ==
    /\ Exists(u) /\ ~RowLocked(u)
    /\ \A v \in Rows : ledgerOf[v] < MaxEarned
    /\ account' = [account EXCEPT ![u].points = @ + 1]
    /\ ledgerOf' = [ledgerOf EXCEPT ![u] = @ + 1]
    /\ crossed' = (crossed \/ Crossing(u))
    /\ UNCHANGED <<code, owned, link, created, beside, links>>

\* A row of another table; the lock of its foreign key and the merge's updates do not
\* exclude each other.
AddRow(u, kind, id) ==
    /\ Exists(u)
    /\ id \notin created /\ \A r \in owned : r.id # id
    /\ owned' = owned \cup {[id |-> id, owner |-> u, kind |-> kind]}
    /\ created' = created \cup {id}
    /\ UNCHANGED <<account, ledgerOf, code, link, crossed, beside, links>>

Next ==
    \/ \E u \in EmailAccounts : StartLink(u)
    \/ \E u \in Rows : UnlinkTelegram(u) \/ Earn(u)
    \/ \E u \in Rows, kind \in {"order", "session"}, id \in 1..MaxRows : AddRow(u, kind, id)
    \/ \E u \in TelegramAccounts, g \in TelegramIds : Register(u, g)
    \/ \E k \in Links :
         \/ \E path \in {"bot", "email"}, e \in EmailAccounts, g \in TelegramIds :
              BeginLink(k, path, e, g)
         \/ Bind(k) \/ ReadRows(k) \/ MoveRows(k) \/ DeleteLoser(k) \/ LinkFails(k)

Spec == Init /\ [][Next]_mergeVars

-----------------------------------------------------------------------------
(* Properties *)

\* Types of all variables.
TypeOK ==
    /\ account \in [Rows -> [exists : BOOLEAN, tg : TelegramIds \cup {NoTelegram},
                             email : BOOLEAN, points : Nat]]
    /\ ledgerOf \in [Rows -> Nat]
    /\ code \in [EmailAccounts -> BOOLEAN]
    /\ owned \subseteq [id : 1..MaxRows, owner : Rows, kind : {"order", "session"}]
    /\ \A k \in Links :
         /\ link[k].pc \in {"idle", "bind", "look", "move", "delete"}
         /\ link[k].path \in {"none", "bot", "email"}
         /\ link[k].email \in Rows \cup {NoAccountRow} /\ link[k].other \in Rows \cup {NoAccountRow}
         /\ link[k].tg \in TelegramIds \cup {NoTelegram}
         /\ link[k].taken \subseteq owned
    /\ created \subseteq 1..MaxRows
    /\ crossed \in BOOLEAN /\ beside \in BOOLEAN /\ links \in Nat

\* Unless points change between a merge's read and its writes, the points of every
\* account are the sum of its ledger, through any number of merges in either direction.
MergedBalance ==
    ~crossed => \A u \in Rows : account[u].points = ledgerOf[u]

\* Whatever is inserted while accounts are merged, the rows that survive belong to an
\* account that exists, and no row is lost that was there before the merge wrote.
RowsFollow ==
    /\ \A r \in owned : Exists(r.owner)
    /\ created = {r.id : r \in owned}

\* While links are made one after another, a Telegram id belongs to one account (no
\* unique key says so, models/users.py:26).
OneTelegramApart ==
    ~beside => \A g \in TelegramIds : \A u, v \in Holders(g) : u = v

\* A merge leaves whole accounts: all rows and one Telegram id each.
AccountsWhole == RowsFollow /\ OneTelegramApart

\* A merge loses neither points nor rows, nor gives a Telegram id away.
MergeKeeps == MergedBalance /\ AccountsWhole
=============================================================================
