-------------------------------- MODULE Wallet --------------------------------
(***************************************************************************)
(* The bonus wallet: users.bonus_credits, the credit_ledger beside it, the *)
(* redemption of promo codes and the points a referral code earns for its  *)
(* owner.                                                                  *)
(*                                                                         *)
(* Sources: packages/common_db/common_db/repo (balance, promos,            *)
(* credits_pay, referral_rewards), services/miniapp/backend/               *)
(* credits_delivery.py, services/dashboard/backend (users, crm_actions).   *)
(*                                                                         *)
(* A session is one database transaction under READ COMMITTED.  Its writes *)
(* are seen by the others when it commits; the rows it has written stay    *)
(* locked until then.  SELECT ... FOR UPDATE waits for the lock, but does  *)
(* not reload a users row the ORM session has already loaded: redemption,  *)
(* the owner's reward and the admin's adjustment compute the new balance   *)
(* from the row they read before the lock.                                 *)
(***************************************************************************)
EXTENDS Integers, Sequences

CONSTANTS
    Users, Codes, Sessions, NoUser, NoCode, NoJob,
    Jobs,             \* the requests that may come in
    Referral,         \* codes of promo_type "referral"
    Owner,            \* Owner[c]: the account with promos.tg_id, or NoUser
    Grant,            \* Grant[c]: points for redeeming c
    Period,           \* 30 days
    PointsPerPeriod,  \* promo_settings.points_reward_per_30
    RewardCap,        \* promo_settings.reward_cap_points
    StartBalance,     \* bonus_credits before the first request
    StartLinked,      \* accounts with a Telegram id
    StartRedemptions, \* promo_redemptions before the first request
    StartOwnCodes,    \* identities that have a row in promos
    MaxJobs,          \* bound: requests
    MaxFailures,      \* bound: sessions that fail and roll back
    Calm              \* whether requests that could disturb one another are kept apart

\* An account is known to the promo tables by its Telegram id or, without one, by
\* the synthetic id -users.id.
Identities == Users \X {"telegram", "synthetic"}

Job == [kind : {"redeem", "purchase", "adjust", "crm"}, user : Users,
        code : Codes \cup {NoCode}, points : Int, days : Nat]

\* What a request adds to the wallet of its user.
Amount(j) ==
    CASE j.kind = "redeem" -> Grant[j.code]
      [] j.kind = "purchase" -> -j.points
      [] OTHER -> j.points

\* can_redeem's rules for a table of redemptions.
ByRule(table) ==
    \A i, k \in DOMAIN table :
        i # k /\ table[i].ident = table[k].ident =>
            /\ table[i].code # table[k].code
            /\ ~({table[i].code, table[k].code} \subseteq Referral)

ASSUME WalletAssumption ==
    /\ NoUser \notin Users /\ NoCode \notin Codes /\ NoJob \notin Jobs
    /\ Users \cap Codes = {} /\ (Users \cup Codes) \cap Identities = {}
    /\ Jobs \subseteq Job
    /\ Referral \subseteq Codes
    /\ Owner \in [Codes -> Users \cup {NoUser}]
    /\ Grant \in [Codes -> Nat]
    /\ Period \in Nat \ {0} /\ PointsPerPeriod \in Nat /\ RewardCap \in Nat
    /\ StartBalance \in [Users -> Nat]
    /\ StartLinked \subseteq Users
    /\ \A c \in Codes : Owner[c] # NoUser =>
         Owner[c] \in StartLinked /\ <<Owner[c], "telegram">> \in StartOwnCodes
    /\ StartRedemptions \in Seq([ident : Identities, code : Codes])
    /\ \A i \in DOMAIN StartRedemptions :
         StartRedemptions[i].ident[1] # Owner[StartRedemptions[i].code]
    /\ ByRule(StartRedemptions)
    /\ StartOwnCodes \subseteq Identities
    /\ MaxJobs \in Nat /\ MaxFailures \in Nat /\ Calm \in BOOLEAN

ASSUME JobAssumption ==
    \A j \in Jobs :
        /\ j.kind = "redeem" => j.code \in Codes
        /\ j.kind \in {"purchase", "crm"} => j.points > 0
        /\ j.kind = "adjust" => j.points # 0
        /\ j.kind = "purchase" => j.days > 0

VARIABLES
    balance,      \* balance[u]: users.bonus_credits
    ledger,       \* ledger[u]: sum of the credit_ledger rows of u
    linked,       \* accounts with a Telegram id
    bought,       \* accounts with a row in transactions
    redemptions,  \* promo_redemptions, oldest first
    ownCodes,     \* identities with a referral code of their own
    promo,        \* promo[c]: days_purchased and points_rewarded
    paid,         \* paid[c]: sum of the ledger rows with reference referral:c
    invited,      \* history: days bought by those whom c referred
    session,      \* session[s]: a request at work
    begun, failures

vars == <<balance, ledger, linked, bought, redemptions, ownCodes, promo, paid, invited,
          session, begun, failures>>

database == <<balance, ledger, bought, redemptions, ownCodes, promo, paid, invited>>

NoCounters == [days |-> 0, points |-> 0]

Idle == [pc |-> "idle", job |-> NoJob, ident |-> <<>>, seen |-> 0, code |-> NoCode,
         counters |-> NoCounters, rows |-> {}, locks |-> {}]

Init ==
    /\ balance = StartBalance
    /\ ledger = [u \in Users |-> 0]
    /\ linked = StartLinked
    /\ bought = {}
    /\ redemptions = StartRedemptions
    /\ ownCodes = StartOwnCodes
    /\ promo = [c \in Codes |-> NoCounters]
    /\ paid = [c \in Codes |-> 0]
    /\ invited = [c \in Codes |-> 0]
    /\ session = [s \in Sessions |-> Idle]
    /\ begun = 0
    /\ failures = 0

-----------------------------------------------------------------------------
(* Requests *)

\* Wallets a request overwrites with a value computed from an earlier read.
StaleWallets(j) ==
    CASE j.kind \in {"redeem", "adjust"} -> {j.user}
      [] j.kind = "purchase" -> {Owner[c] : c \in Codes} \ {NoUser}
      [] j.kind = "crm" -> {}

Wallets(j) == StaleWallets(j) \cup {j.user}

\* Two requests that cannot disturb one another.
Separate(j, k) ==
    /\ StaleWallets(j) \cap Wallets(k) = {}
    /\ StaleWallets(k) \cap Wallets(j) = {}

Ident(u) == <<u, IF u \in linked THEN "telegram" ELSE "synthetic">>

Begin(s, j) ==
    /\ session[s].pc = "idle"
    /\ begun < MaxJobs
    /\ Calm => \A t \in Sessions : session[t].pc # "idle" => Separate(session[t].job, j)
    /\ begun' = begun + 1
    /\ session' = [session EXCEPT ![s] =
         [Idle EXCEPT !.job = j, !.ident = Ident(j.user),
                      !.pc = CASE j.kind = "redeem" -> "check"
                               [] j.kind = "adjust" -> "load"
                               [] OTHER -> "wallet"]]
    /\ UNCHANGED <<database, linked, failures>>

\* The Telegram account is bound to an account that had none.
LinkTelegram(u) ==
    /\ u \notin linked
    /\ linked' = linked \cup {u}
    /\ UNCHANGED <<database, session, begun, failures>>

-----------------------------------------------------------------------------
(* The steps of a session *)

\* A row or a unique key that no other session has written.
Free(s, r) == \A t \in Sessions \ {s} : r \notin session[t].locks

Move(s, t) ==
    /\ session' = [session EXCEPT ![s] = t]
    /\ UNCHANGED <<database, linked, begun, failures>>

Rollback(s) == Move(s, Idle)

\* Faulty variant: the audit log of redemptions is not consulted.
CanRedeemUnlogged(id, c) == id # <<Owner[c], "telegram">>

\* A synthetic id is never found among the owners of transactions.
CanRedeem(id, c) ==
    /\ id # <<Owner[c], "telegram">>
    /\ \A i \in DOMAIN redemptions :
         redemptions[i].ident = id =>
            /\ redemptions[i].code # c
            /\ c \in Referral => redemptions[i].code \notin Referral
    /\ c \in Referral => ~(id[2] = "telegram" /\ id[1] \in bought)

CheckRedeem(s) ==
    LET t == session[s] IN
    /\ t.pc = "check"
    /\ Move(s, IF CanRedeem(t.ident, t.job.code) THEN [t EXCEPT !.pc = "load"] ELSE Idle)

\* The users row enters the ORM session here, unlocked.
LoadUser(s) ==
    LET t == session[s] IN
    /\ t.pc = "load"
    /\ Move(s, [t EXCEPT !.seen = balance[t.job.user],
                         !.pc = IF t.job.kind = "redeem" THEN "own" ELSE "wallet"])

\* A redemption that grants nothing leaves the wallet alone.
AfterOwnCode(t) ==
    [t EXCEPT !.pc = IF Amount(t.job) > 0 THEN "wallet" ELSE "commit"]

FindOwnCode(s) ==
    LET t == session[s] IN
    /\ t.pc = "own"
    /\ Move(s, IF t.ident \in ownCodes THEN AfterOwnCode(t) ELSE [t EXCEPT !.pc = "create"])

\* promos.tg_id is unique: the second of two inserts waits for the first to commit
\* and then fails, and its request with it.
CreateOwnCode(s) ==
    LET t == session[s] IN
    /\ t.pc = "create"
    /\ Free(s, t.ident)
    /\ Move(s, IF t.ident \in ownCodes THEN Idle
               ELSE [AfterOwnCode(t) EXCEPT !.locks = t.locks \cup {t.ident}])

Row(u, base, amount) == [user |-> u, amount |-> amount, after |-> base + amount]

Write(t, row, pc) ==
    [t EXCEPT !.rows = t.rows \cup {row}, !.locks = t.locks \cup {row.user}, !.pc = pc]

\* Faulty variant: every path trusts the copy read before the lock.
BaseSeen(t) == t.seen

\* The balance the amount is added to: read under the lock by a purchase and by
\* the CRM, before it by a redemption and by the admin.
Base(t) ==
    IF t.job.kind \in {"purchase", "crm"} THEN balance[t.job.user] ELSE t.seen

\* Faulty variant: the balance is not checked.
NeverRefused(row) == FALSE

\* A debit the balance does not cover.
Refused(row) == row.after < 0

\* credit, debit_if_sufficient
ChangeWallet(s) ==
    LET t == session[s]
        row == Row(t.job.user, Base(t), Amount(t.job)) IN
    /\ t.pc = "wallet"
    /\ Free(s, t.job.user)
    /\ Move(s, IF Refused(row) THEN Idle
               ELSE Write(t, row, IF t.job.kind = "purchase" THEN "route" ELSE "commit"))

\* The newest redemption of the buyer, whatever its type.
Latest(id) ==
    LET mine == {i \in DOMAIN redemptions : redemptions[i].ident = id} IN
    IF mine = {} THEN NoCode
    ELSE redemptions[CHOOSE i \in mine : \A k \in mine : k <= i].code

\* The code and its owner enter the ORM session, unlocked.
RouteReward(s) ==
    LET t == session[s]
        c == Latest(t.ident) IN
    /\ t.pc = "route"
    /\ Move(s, IF c = NoCode \/ (c # NoCode /\ Owner[c] = NoUser)
               THEN [t EXCEPT !.pc = "commit"]
               ELSE [t EXCEPT !.code = c, !.counters = promo[c],
                              !.seen = balance[Owner[c]], !.pc = "count"])

DaysAfter(t) == t.counters.days + t.job.days

Earned(days) == (days \div Period) * PointsPerPeriod

UpToCap(points) == IF points <= RewardCap THEN points ELSE RewardCap

\* Faulty variant: the points paid before are not taken off.
RewardInFull(t) == Earned(DaysAfter(t))

\* max(0, min(earned - already, cap - already))
Reward(t) ==
    LET due == UpToCap(Earned(DaysAfter(t))) - t.counters.points IN
    IF due > 0 THEN due ELSE 0

\* The new days_purchased is flushed, which locks the row of the code.
CountDays(s) ==
    LET t == session[s] IN
    /\ t.pc = "count"
    /\ Free(s, t.code)
    /\ Move(s, [t EXCEPT !.locks = t.locks \cup {t.code},
                         !.pc = IF Reward(t) > 0 THEN "reward" ELSE "commit"])

PayOwner(s) ==
    LET t == session[s] IN
    /\ t.pc = "reward"
    /\ Free(s, Owner[t.code])
    /\ Move(s, Write(t, Row(Owner[t.code], t.seen, Reward(t)), "commit"))

\* Faulty variant: days_purchased is kept, points_rewarded is not written back.
CountersDaysOnly(t) == [promo[t.code] EXCEPT !.days = DaysAfter(t)]

\* The columns written: points_rewarded only when there is a reward.
CountersAfter(t) ==
    [days |-> DaysAfter(t),
     points |-> IF Reward(t) > 0 THEN t.counters.points + Reward(t)
                ELSE promo[t.code].points]

\* The ledger row a session has written for a user.
RowsOf(t, u) == {r \in t.rows : r.user = u}
TheRow(t, u) == CHOOSE r \in RowsOf(t, u) : TRUE

Commit(s) ==
    LET t == session[s]
        j == t.job IN
    /\ t.pc = "commit"
    /\ balance' = [u \in Users |->
                     IF RowsOf(t, u) = {} THEN balance[u] ELSE TheRow(t, u).after]
    /\ ledger' = [u \in Users |->
                    IF RowsOf(t, u) = {} THEN ledger[u] ELSE ledger[u] + TheRow(t, u).amount]
    /\ redemptions' = IF j.kind = "redeem"
                      THEN Append(redemptions, [ident |-> t.ident, code |-> j.code])
                      ELSE redemptions
    /\ ownCodes' = ownCodes \cup (t.locks \cap Identities)
    /\ bought' = IF j.kind = "purchase" THEN bought \cup {j.user} ELSE bought
    /\ IF t.code = NoCode
       THEN UNCHANGED <<promo, paid, invited>>
       ELSE /\ promo' = [promo EXCEPT ![t.code] = CountersAfter(t)]
            /\ paid' = [paid EXCEPT ![t.code] = @ + Reward(t)]
            /\ invited' = [invited EXCEPT ![t.code] = @ + j.days]
    /\ session' = [session EXCEPT ![s] = Idle]
    /\ UNCHANGED <<linked, begun, failures>>

\* A lost connection, an exception or a restart: nothing of the session remains.
Fail(s) ==
    /\ session[s].pc # "idle"
    /\ failures < MaxFailures
    /\ failures' = failures + 1
    /\ session' = [session EXCEPT ![s] = Idle]
    /\ UNCHANGED <<database, linked, begun>>

\* The row or key the session's next statement needs.
Wants(t) ==
    CASE t.pc = "create" -> {t.ident}
      [] t.pc = "wallet" -> {t.job.user}
      [] t.pc = "count" -> {t.code}
      [] t.pc = "reward" -> {Owner[t.code]}
      [] OTHER -> {}

WaitsFor(s, t) == s # t /\ Wants(session[s]) \cap session[t].locks # {}

\* Faulty variant: nobody looks for sessions that wait for one another.
NeverInRing(s) == FALSE

InRing(s) ==
    \E ring \in SUBSET Sessions :
        /\ s \in ring
        /\ \A t \in ring : (\E r \in ring : WaitsFor(t, r)) /\ (\E r \in ring : WaitsFor(r, t))

\* PostgreSQL breaks a ring of waiting sessions by failing one of them.
BreakDeadlock(s) == InRing(s) /\ Rollback(s)

-----------------------------------------------------------------------------
Proceed(s) ==
    \/ CheckRedeem(s)
    \/ LoadUser(s)
    \/ FindOwnCode(s)
    \/ CreateOwnCode(s)
    \/ ChangeWallet(s)
    \/ RouteReward(s)
    \/ CountDays(s)
    \/ PayOwner(s)
    \/ Commit(s)

Next ==
    \/ \E s \in Sessions, j \in Jobs : Begin(s, j)
    \/ \E u \in Users : LinkTelegram(u)
    \/ \E s \in Sessions : Proceed(s) \/ Fail(s) \/ BreakDeadlock(s)

Spec == Init /\ [][Next]_vars

\* A session goes on when the lock it waits for is free; the database breaks
\* rings.
FairSpec ==
    /\ Spec
    /\ \A s \in Sessions : WF_vars(Proceed(s))
    /\ WF_vars(\E s \in Sessions : BreakDeadlock(s))

-----------------------------------------------------------------------------
(* Properties *)

Session ==
    [pc : {"idle", "check", "load", "own", "create", "wallet", "route", "count", "reward",
           "commit"},
     job : Jobs \cup {NoJob}, ident : Identities \cup {<<>>}, seen : Nat,
     code : Codes \cup {NoCode}, counters : [days : Nat, points : Nat],
     rows : SUBSET [user : Users, amount : Int, after : Nat],
     locks : SUBSET (Users \cup Codes \cup Identities)]

\* Type invariant: in particular no request ever drives a wallet below zero.
TypeOK ==
    /\ balance \in [Users -> Nat]
    /\ ledger \in [Users -> Int]
    /\ linked \subseteq Users /\ bought \subseteq Users
    /\ redemptions \in Seq([ident : Identities, code : Codes])
    /\ ownCodes \subseteq Identities
    /\ promo \in [Codes -> [days : Nat, points : Nat]]
    /\ paid \in [Codes -> Nat] /\ invited \in [Codes -> Nat]
    /\ session \in [Sessions -> Session]
    /\ begun \in Nat /\ failures \in Nat

\* "Ledger-backed wallet": the balance is what the account started with plus the
\* ledger's rows.  Purchases and CRM credits of one account may overlap freely.
BalanceIsLedger == \A u \in Users : balance[u] = StartBalance[u] + ledger[u]

\* The owner of a code was paid what its invitees' days earn, up to the cap, and
\* the counters say so: no purchase is lost and none is rewarded twice.
RewardExact ==
    \A c \in Codes :
        /\ promo[c] = [days |-> invited[c], points |-> paid[c]]
        /\ paid[c] = UpToCap(Earned(invited[c]))

\* can_redeem's rules, per identity: no code twice, one referral code at most.
RedeemedByRule == ByRule(redemptions)

\* However purchases overlap, a code's counters never claim points that were not
\* paid, days that were not bought, or more points than the cap.
CountersBacked ==
    \A c \in Codes :
        /\ promo[c].points <= paid[c]
        /\ promo[c].days <= invited[c]
        /\ promo[c].points <= RewardCap

\* "The user can't redeem the same code twice", by whatever id the tables know
\* the account.
RedeemedOncePerUser ==
    \A i, k \in DOMAIN redemptions :
        i # k /\ redemptions[i].ident[1] = redemptions[k].ident[1] =>
            redemptions[i].code # redemptions[k].code

\* No session waits for ever: the buyers of two codes may wait for one another's
\* wallets, and one of them is then failed.
SessionEnds == \A s \in Sessions : session[s].pc # "idle" ~> session[s].pc = "idle"

=============================================================================
