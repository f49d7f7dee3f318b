----------------------------- MODULE Wallet_proofs -----------------------------
(***************************************************************************)
(* Proofs about Wallet, for any accounts, codes, requests and sessions.    *)
(*                                                                         *)
(* Two things keep the wallets right.  A session locks every row it        *)
(* writes, so no two sessions hold a ledger row for one account; this      *)
(* needs no assumption about the requests.  And what a session read before *)
(* it locked must still be so when it commits; that is true of requests    *)
(* which are kept apart (Calm).                                            *)
(***************************************************************************)
EXTENDS Wallet, WellFoundedInduction, TLAPS

(* The inductive invariant *)

\* What can be said of one session by itself.
Sound(t) ==
    /\ t.pc = "idle" => t = Idle
    /\ t.pc # "idle" =>
         /\ t.job \in Jobs
         /\ t.ident \in Identities /\ t.ident[1] = t.job.user
         /\ t.ident[2] = "synthetic" => t.job.user \notin StartLinked
    /\ t.pc \in {"check", "own", "create"} => t.job.kind = "redeem"
    /\ t.pc = "load" => t.job.kind \in {"redeem", "adjust"}
    /\ t.pc \in {"route", "count", "reward"} => t.job.kind = "purchase"
    /\ t.pc \in {"check", "load", "own", "create", "wallet"} => t.rows = {}
    /\ t.pc \in {"count", "reward"} => t.code # NoCode
    /\ t.code # NoCode =>
         /\ t.pc \in {"count", "reward", "commit"}
         /\ t.job.kind = "purchase"
         /\ Owner[t.code] \in Users \ {t.job.user}
    /\ t.job \in Jobs /\ t.job.kind = "redeem" /\ t.pc # "check" =>
         t.job.user # Owner[t.job.code]

\* The ledger rows of a session: one per account, on accounts it has locked, and only
\* the last one on the owner of a code.
RowsSound(t) ==
    /\ \A r \in t.rows :
         /\ r.user \in t.locks
         /\ r.user = t.job.user \/ (t.code # NoCode /\ r.user = Owner[t.code])
    /\ \A q, r \in t.rows : q.user = r.user => q = r
    /\ t.pc \in {"route", "count", "reward"} => \A r \in t.rows : r.user = t.job.user

\* The counters a session has read were backed then, and what backs them only grows.
SeenBacked(t) ==
    t.code # NoCode =>
        /\ t.counters.points <= paid[t.code]
        /\ t.counters.days <= invited[t.code]

\* No two sessions hold the lock of a row.
Exclusive ==
    \A s, t \in Sessions : s # t => session[s].locks \cap session[t].locks = {}

\* An owner has had Telegram from the start, and nobody has redeemed a code of his own.
NoneOwn ==
    /\ StartLinked \subseteq linked
    /\ \A i \in DOMAIN redemptions :
         redemptions[i].ident[1] # Owner[redemptions[i].code]

\* What holds however requests overlap.
Always ==
    /\ TypeOK
    /\ \A s \in Sessions : Sound(session[s]) /\ RowsSound(session[s]) /\ SeenBacked(session[s])
    /\ Exclusive /\ NoneOwn /\ CountersBacked

\* What a session has read is still so.
WalletFresh(t) ==
    /\ \A r \in t.rows : r.after = balance[r.user] + r.amount
    /\ t.job \in Jobs =>
         /\ t.job.kind = "redeem" /\ t.pc \in {"own", "create", "wallet"} =>
              t.seen = balance[t.job.user]
         /\ t.job.kind = "adjust" /\ t.pc = "wallet" => t.seen = balance[t.job.user]
    /\ t.pc \in {"count", "reward"} => t.seen = balance[Owner[t.code]]

CountersFresh(t) == t.code # NoCode => t.counters = promo[t.code]

MayRedeem(t) ==
    t.job \in Jobs /\ t.job.kind = "redeem" /\ t.pc # "check" =>
        \A i \in DOMAIN redemptions :
            redemptions[i].ident = t.ident =>
                /\ redemptions[i].code # t.job.code
                /\ t.job.code \in Referral => redemptions[i].code \notin Referral

\* Requests at work do not disturb one another.
KeptApart ==
    \A s, t \in Sessions :
        s # t /\ session[s].pc # "idle" /\ session[t].pc # "idle" =>
            Separate(session[s].job, session[t].job)

\* What holds of requests that are kept apart.
Quiet ==
    /\ KeptApart
    /\ \A s \in Sessions :
         WalletFresh(session[s]) /\ CountersFresh(session[s]) /\ MayRedeem(session[s])
    /\ BalanceIsLedger /\ RewardExact /\ RedeemedByRule

QuietWhenCalm == Calm => Quiet

-----------------------------------------------------------------------------
(* Lemmas about the operators *)

\* What a request carries.
LEMMA JobTypes ==
    ASSUME NEW j \in Jobs
    PROVE  /\ j \in Job /\ Amount(j) \in Int /\ j.user \in Users
           /\ j.kind = "redeem" => j.code \in Codes /\ Amount(j) = Grant[j.code]
           /\ j.kind \in {"redeem", "purchase", "adjust", "crm"}
           /\ j.points \in Int /\ j.days \in Nat
<1>1. j \in Job /\ (j.kind = "redeem" => j.code \in Codes)
  BY WalletAssumption, JobAssumption
<1>2. j.kind = "redeem" => Amount(j) = Grant[j.code] /\ Grant[j.code] \in Nat
  BY <1>1, WalletAssumption DEF Amount
<1>3. j.kind # "redeem" => Amount(j) \in {-j.points, j.points}
  BY DEF Amount
<1>. QED
  BY <1>1, <1>2, <1>3 DEF Job

\* A set of natural numbers that is not empty has a least one.
LEMMA LeastNatural ==
    ASSUME NEW S \in SUBSET Nat, S # {}
    PROVE  \E n \in S : \A m \in S : n <= m
<1>. DEFINE less == {ss \in Nat \X Nat : ss[1] < ss[2]}
<1>1. IsWellFoundedOn(less, Nat)
  BY NatLessThanWellFounded DEF OpToRel
<1>3. ASSUME NEW m \in Nat, NEW n \in Nat, m < n
      PROVE  <<m, n>> \in less
  <2>. DEFINE pair == <<m, n>>
  <2>1. pair \in Nat \X Nat /\ pair[1] = m /\ pair[2] = n
    OBVIOUS
  <2>. HIDE DEF pair
  <2>2. pair \in less
    BY <1>3, <2>1
  <2>. QED
    BY <2>2 DEF pair
<1>. HIDE DEF less
<1>2. PICK n \in S : \A m \in S : <<m, n>> \notin less
  BY <1>1, WFMin
<1>4. ASSUME NEW m \in S
      PROVE  n <= m
  <2>1. m \in Nat /\ n \in Nat /\ ~(m < n)
    BY <1>2, <1>3
  <2>. QED
    BY <2>1
<1>. QED
  BY <1>4

\* Every full period of days earns the same: points never go down with more days.
LEMMA EarnedGrows ==
    ASSUME NEW d \in Nat, NEW n \in Nat
    PROVE  /\ Earned(d) \in Nat /\ Earned(d + n) \in Nat
           /\ Earned(d) <= Earned(d + n)
<1>1. Period \in Nat \ {0} /\ PointsPerPeriod \in Nat
  BY WalletAssumption
<1>2. d \div Period \in Nat /\ (d + n) \div Period \in Nat
  BY <1>1
<1>3. d \div Period <= (d + n) \div Period
  BY <1>1
<1>4. ASSUME NEW a \in Nat, NEW b \in Nat, a <= b
      PROVE  a * PointsPerPeriod \in Nat /\ a * PointsPerPeriod <= b * PointsPerPeriod
  BY <1>1, <1>4
<1>. QED
  BY <1>2, <1>3, <1>4 DEF Earned

\* No days earn no points.
LEMMA NothingEarned == UpToCap(Earned(0)) = 0
<1>1. 0 \div Period = 0 /\ PointsPerPeriod \in Nat /\ RewardCap \in Nat
  BY WalletAssumption
<1>. QED
  BY <1>1 DEF Earned, UpToCap

\* What a reward is: never negative, never beyond the cap, and what is missing to the
\* capped earnings when fewer points were paid.
LEMMA RewardBounds ==
    ASSUME NEW t \in Session, t.job \in Jobs
    PROVE  /\ Reward(t) \in Nat /\ DaysAfter(t) \in Nat
           /\ DaysAfter(t) = t.counters.days + t.job.days
           /\ Reward(t) > 0 => t.counters.points + Reward(t) <= RewardCap
           /\ t.counters.points = UpToCap(Earned(t.counters.days))
              => t.counters.points + Reward(t) = UpToCap(Earned(DaysAfter(t)))
<1>1. t.counters.days \in Nat /\ t.counters.points \in Nat /\ t.job.days \in Nat
  BY JobTypes DEF Session
<1>. DEFINE before == Earned(t.counters.days)
            after == Earned(DaysAfter(t))
<1>2. before \in Nat /\ after \in Nat /\ before <= after
  BY <1>1, EarnedGrows DEF DaysAfter
<1>3. RewardCap \in Nat
  BY WalletAssumption
<1>4. DaysAfter(t) \in Nat /\ DaysAfter(t) = t.counters.days + t.job.days
  BY <1>1 DEF DaysAfter
<1>. HIDE DEF before, after
<1>5. Reward(t) = IF UpToCap(after) - t.counters.points > 0
                  THEN UpToCap(after) - t.counters.points ELSE 0
  BY DEF Reward, after
<1>6. UpToCap(after) \in Nat /\ UpToCap(after) <= RewardCap /\ UpToCap(before) <= UpToCap(after)
  BY <1>2, <1>3 DEF UpToCap
<1>7. t.counters.points = UpToCap(Earned(t.counters.days))
      => t.counters.points + Reward(t) = UpToCap(Earned(DaysAfter(t)))
  <2>. HAVE t.counters.points = UpToCap(Earned(t.counters.days))
  <2>1. t.counters.points <= UpToCap(after)
    BY <1>6 DEF before
  <2>2. t.counters.points + Reward(t) = UpToCap(after)
    BY <2>1, <1>1, <1>5, <1>6
  <2>. QED
    BY <2>2 DEF after
<1>8. Reward(t) \in Nat /\ (Reward(t) > 0 => t.counters.points + Reward(t) <= RewardCap)
  BY <1>1, <1>3, <1>5, <1>6
<1>. QED
  BY <1>4, <1>7, <1>8

-----------------------------------------------------------------------------
(* A step that leaves the tables alone *)

\* What a session's step changes beside its own record.
Beside(s, t) ==
    /\ session' = [session EXCEPT ![s] = t]
    /\ UNCHANGED database
    /\ linked \subseteq linked' /\ linked' \subseteq Users
    /\ begun' \in Nat /\ failures' \in Nat

\* A session moves beside wallets and tables that stay: what holds however sessions overlap.
LEMMA BesideKeepsAlways ==
    ASSUME Always, NEW s \in Sessions, NEW t \in Session, Beside(s, t),
           Sound(t), RowsSound(t), SeenBacked(t),
           \A r \in t.locks : r \in session[s].locks \/ Free(s, r)
    PROVE  Always'
<1>1. session' \in [Sessions -> Session] /\ session'[s] = t
      /\ \A r \in Sessions : r # s => session'[r] = session[r]
  BY DEF Always, TypeOK, Beside
<1>2. TypeOK'
  BY <1>1 DEF Always, TypeOK, Beside, database
<1>3. \A r \in Sessions :
         Sound(session'[r]) /\ RowsSound(session'[r]) /\ SeenBacked(session'[r])
  BY <1>1 DEF Always
<1>4. \A r \in Sessions :
         Sound(session[r])' /\ RowsSound(session[r])' /\ SeenBacked(session[r])'
  BY <1>3 DEF Sound, RowsSound, SeenBacked, Beside, database
<1>5. Exclusive'
  <2>1. \A r \in Sessions : r # s => t.locks \cap session[r].locks = {}
    BY DEF Always, Exclusive, Free
  <2>. QED
    BY <1>1, <2>1 DEF Always, Exclusive
<1>6. NoneOwn' /\ CountersBacked'
  BY DEF Always, NoneOwn, CountersBacked, Beside, database
<1>. QED
  BY <1>2, <1>4, <1>5, <1>6 DEF Always

\* The same of what needs the sessions to be kept apart.
LEMMA BesideKeepsQuiet ==
    ASSUME Always, Quiet, NEW s \in Sessions, NEW t \in Session, Beside(s, t),
           WalletFresh(t), CountersFresh(t), MayRedeem(t),
           t.pc = "idle"
           \/ (session[s].pc # "idle" /\ t.job = session[s].job)
           \/ \A r \in Sessions : session[r].pc # "idle" => Separate(session[r].job, t.job)
    PROVE  Quiet'
<1>1. session' \in [Sessions -> Session] /\ session'[s] = t
      /\ \A r \in Sessions : r # s => session'[r] = session[r]
  BY DEF Always, TypeOK, Beside
<1>2. \A j, k : Separate(j, k) <=> Separate(k, j)
  BY DEF Separate
<1>3. KeptApart'
  <2>1. \A r \in Sessions : r # s /\ session[r].pc # "idle" /\ t.pc # "idle"
                             => Separate(session[r].job, t.job)
    BY DEF Quiet, KeptApart
  <2>2. \A q, r \in Sessions :
           q # r /\ session'[q].pc # "idle" /\ session'[r].pc # "idle" =>
              Separate(session'[q].job, session'[r].job)
    BY <1>1, <1>2, <2>1 DEF Quiet, KeptApart
  <2>. QED
    BY <2>2 DEF KeptApart, Separate, StaleWallets, Wallets
<1>4. \A r \in Sessions :
         WalletFresh(session'[r]) /\ CountersFresh(session'[r]) /\ MayRedeem(session'[r])
  BY <1>1 DEF Quiet
<1>5. \A r \in Sessions :
         WalletFresh(session[r])' /\ CountersFresh(session[r])' /\ MayRedeem(session[r])'
  BY <1>4 DEF WalletFresh, CountersFresh, MayRedeem, Beside, database
<1>6. BalanceIsLedger' /\ RewardExact' /\ RedeemedByRule'
  BY DEF Quiet, BalanceIsLedger, RewardExact, RedeemedByRule, ByRule, Earned, UpToCap,
         Beside, database
<1>. QED
  BY <1>3, <1>5, <1>6 DEF Quiet

\* A session that has ended holds nothing.
LEMMA IdleSound ==
           /\ Idle \in Session /\ Sound(Idle) /\ RowsSound(Idle) /\ SeenBacked(Idle)
           /\ WalletFresh(Idle) /\ CountersFresh(Idle) /\ MayRedeem(Idle)
           /\ Idle.pc = "idle" /\ Idle.locks = {}
<1>1. NoJob \notin Jobs
  BY WalletAssumption
<1>. QED
  BY <1>1 DEF Idle, Session, NoCounters, Sound, RowsSound, SeenBacked, WalletFresh,
     CountersFresh, MayRedeem

\* The invariant proved below.
Inductive == Always /\ QuietWhenCalm

\* A session that ends without a trace.
LEMMA EndKeeps ==
    ASSUME Inductive, NEW s \in Sessions, Beside(s, Idle)
    PROVE  Inductive'
<1>1. Always'
  BY IdleSound, BesideKeepsAlways DEF Inductive
<1>2. Calm => Quiet'
  BY IdleSound, BesideKeepsQuiet DEF Inductive, QuietWhenCalm
<1>. QED
  BY <1>1, <1>2 DEF Inductive, QuietWhenCalm

\* A session that goes on.
LEMMA GoOnKeeps ==
    ASSUME Inductive, NEW s \in Sessions, NEW t \in Session, Beside(s, t),
           session[s].pc # "idle", t.job = session[s].job,
           Sound(t), RowsSound(t), SeenBacked(t),
           \A r \in t.locks : r \in session[s].locks \/ Free(s, r),
           Quiet => WalletFresh(t) /\ CountersFresh(t) /\ MayRedeem(t)
    PROVE  Inductive'
<1>1. Always'
  BY BesideKeepsAlways DEF Inductive
<1>2. Calm => Quiet'
  BY BesideKeepsQuiet DEF Inductive, QuietWhenCalm
<1>. QED
  BY <1>1, <1>2 DEF Inductive, QuietWhenCalm

-----------------------------------------------------------------------------
(* Requests, and the steps before the commit *)

\* What the invariant says of one session.
LEMMA SessionFacts ==
    ASSUME Inductive, NEW s \in Sessions
    PROVE  /\ session[s] \in Session
           /\ Sound(session[s]) /\ RowsSound(session[s]) /\ SeenBacked(session[s])
           /\ Quiet => /\ WalletFresh(session[s]) /\ CountersFresh(session[s])
                       /\ MayRedeem(session[s])
BY DEF Inductive, Always, TypeOK, Quiet

\* Every step of Move leaves the tables alone.
LEMMA MoveIsBeside ==
    ASSUME Inductive, NEW s \in Sessions, NEW t, Move(s, t)
    PROVE  Beside(s, t)
BY DEF Move, Beside, Inductive, Always, TypeOK

\* A request opens its session.
LEMMA BeginKeeps ==
    ASSUME Inductive, NEW s \in Sessions, NEW j \in Jobs, Begin(s, j)
    PROVE  Inductive'
<1>. DEFINE next == CASE j.kind = "redeem" -> "check"
                      [] j.kind = "adjust" -> "load"
                      [] OTHER -> "wallet"
            t == [Idle EXCEPT !.job = j, !.ident = Ident(j.user), !.pc = next]
<1>1. Beside(s, t)
  BY DEF Begin, Beside, Inductive, Always, TypeOK
<1>2. /\ j.kind = "redeem" => next = "check"
      /\ j.kind = "adjust" => next = "load"
      /\ j.kind \notin {"redeem", "adjust"} => next = "wallet"
  OBVIOUS
<1>3. Ident(j.user) \in Identities /\ Ident(j.user)[1] = j.user
      /\ (Ident(j.user)[2] = "synthetic" => j.user \notin StartLinked)
  BY JobTypes DEF Ident, Identities, Inductive, Always, NoneOwn
<1>. HIDE DEF next
<1>4. /\ t.pc = next /\ t.job = j /\ t.ident = Ident(j.user) /\ t.rows = {} /\ t.locks = {}
      /\ t.code = NoCode
  BY DEF Idle
<1>5. t \in Session
  BY <1>2, <1>3 DEF Session, Idle, NoCounters
<1>. HIDE DEF t
<1>6. Sound(t) /\ RowsSound(t) /\ SeenBacked(t)
  BY <1>2, <1>3, <1>4 DEF Sound, RowsSound, SeenBacked
<1>7. WalletFresh(t) /\ CountersFresh(t) /\ MayRedeem(t)
  BY <1>2, <1>4 DEF WalletFresh, CountersFresh, MayRedeem
<1>8. Always'
  BY <1>1, <1>4, <1>5, <1>6, BesideKeepsAlways DEF Inductive
<1>9. Calm => Quiet'
  BY <1>1, <1>4, <1>5, <1>7, BesideKeepsQuiet DEF Inductive, QuietWhenCalm, Begin
<1>. QED
  BY <1>8, <1>9 DEF Inductive, QuietWhenCalm

\* An account is bound to a Telegram id.
LEMMA LinkTelegramKeeps ==
    ASSUME Inductive, NEW u \in Users, LinkTelegram(u)
    PROVE  Inductive'
<1>1. Always'
  BY DEF LinkTelegram, database, Inductive, Always, TypeOK, SeenBacked, Exclusive, NoneOwn,
     CountersBacked
<1>2. QuietWhenCalm'
  BY DEF LinkTelegram, database, Inductive, QuietWhenCalm, Quiet, KeptApart, WalletFresh,
     CountersFresh, MayRedeem, BalanceIsLedger, RewardExact, RedeemedByRule, ByRule
<1>. QED
  BY <1>1, <1>2 DEF Inductive

\* A session fails and leaves nothing behind.
LEMMA FailKeeps ==
    ASSUME Inductive, NEW s \in Sessions, Fail(s)
    PROVE  Inductive'
<1>1. Beside(s, Idle)
  BY DEF Fail, Beside, Inductive, Always, TypeOK
<1>. QED
  BY <1>1, EndKeeps

\* A deadlock or a refusal rolls it back.
LEMMA RollbackKeeps ==
    ASSUME Inductive, NEW s \in Sessions, Rollback(s)
    PROVE  Inductive'
BY MoveIsBeside, EndKeeps DEF Rollback

\* Only who may redeem goes on, and owners never redeem their own.
LEMMA CheckRedeemKeeps ==
    ASSUME Inductive, NEW s \in Sessions, CheckRedeem(s)
    PROVE  Inductive'
<1>. DEFINE t == session[s]
            n == [t EXCEPT !.pc = "load"]
<1>1. t \in Session /\ Sound(t) /\ RowsSound(t) /\ t.pc = "check"
  BY SessionFacts DEF CheckRedeem
<1>2. CASE ~CanRedeem(t.ident, t.job.code)
  BY <1>2, MoveIsBeside, EndKeeps DEF CheckRedeem
<1>3. CASE CanRedeem(t.ident, t.job.code)
  <2>1. Beside(s, n)
    BY <1>3, MoveIsBeside DEF CheckRedeem
  <2>2. /\ n \in Session /\ n.pc = "load" /\ n.job = t.job /\ n.ident = t.ident
        /\ n.rows = t.rows /\ n.locks = t.locks /\ n.code = t.code
    BY <1>1 DEF Session
  <2>3. t.job \in Jobs /\ t.job.kind = "redeem" /\ t.job.code \in Codes /\ t.job.user \in Users
    BY <1>1, JobTypes DEF Sound
  <2>4. t.job.user # Owner[t.job.code]
    <3>. SUFFICES ASSUME t.job.user = Owner[t.job.code]
                  PROVE  FALSE
      OBVIOUS
    <3>1. t.job.user \in StartLinked
      BY <2>3, WalletAssumption
    <3>2. t.ident = <<t.job.user, "telegram">>
      BY <1>1, <3>1 DEF Sound, Identities
    <3>. QED
      BY <1>3, <3>2 DEF CanRedeem
  <2>. HIDE DEF n
  <2>5. Sound(n) /\ RowsSound(n) /\ SeenBacked(n)
    BY <1>1, <2>2, <2>3, <2>4 DEF Sound, RowsSound, SeenBacked
  <2>6. WalletFresh(n) /\ CountersFresh(n)
    BY <1>1, <2>2, <2>3, <2>5 DEF WalletFresh, CountersFresh, Sound
  <2>7. MayRedeem(n)
    BY <1>3, <2>2 DEF MayRedeem, CanRedeem
  <2>. QED
    BY <1>1, <2>1, <2>2, <2>5, <2>6, <2>7, GoOnKeeps
<1>. QED
  BY <1>2, <1>3

\* The user's row is read.
LEMMA LoadUserKeeps ==
    ASSUME Inductive, NEW s \in Sessions, LoadUser(s)
    PROVE  Inductive'
<1>. DEFINE t == session[s]
            next == IF t.job.kind = "redeem" THEN "own" ELSE "wallet"
            n == [t EXCEPT !.seen = balance[t.job.user], !.pc = next]
<1>1. t \in Session /\ Sound(t) /\ RowsSound(t) /\ t.pc = "load"
      /\ (Quiet => MayRedeem(t))
  BY SessionFacts DEF LoadUser
<1>2. Beside(s, n)
  BY MoveIsBeside DEF LoadUser
<1>3. t.job \in Jobs /\ t.job.kind \in {"redeem", "adjust"} /\ t.job.user \in Users
  BY <1>1, JobTypes DEF Sound
<1>4. balance[t.job.user] \in Nat
  BY <1>3 DEF Inductive, Always, TypeOK
<1>5. /\ n \in Session /\ n.pc = next /\ n.job = t.job /\ n.ident = t.ident
      /\ n.rows = t.rows /\ n.locks = t.locks /\ n.code = t.code
      /\ n.seen = balance[t.job.user]
  BY <1>1, <1>4 DEF Session
<1>. HIDE DEF n
<1>6. Sound(n) /\ RowsSound(n) /\ SeenBacked(n)
  BY <1>1, <1>3, <1>5 DEF Sound, RowsSound, SeenBacked
<1>7. Quiet => WalletFresh(n) /\ CountersFresh(n) /\ MayRedeem(n)
  BY <1>1, <1>3, <1>5, <1>6 DEF WalletFresh, CountersFresh, Sound, MayRedeem
<1>. QED
  BY <1>1, <1>2, <1>5, <1>6, <1>7, GoOnKeeps

\* The two ways on from "own" and "create".
LEMMA AfterOwnCodeKeeps ==
    ASSUME Inductive, NEW s \in Sessions, NEW held \in SUBSET (Users \cup Codes \cup Identities),
           session[s].pc \in {"own", "create"},
           session[s].locks \subseteq held,
           \A r \in held : r \in session[s].locks \/ Free(s, r),
           Beside(s, [AfterOwnCode(session[s]) EXCEPT !.locks = held])
    PROVE  Inductive'
<1>. DEFINE t == session[s]
            next == IF Amount(t.job) > 0 THEN "wallet" ELSE "commit"
            n == [AfterOwnCode(t) EXCEPT !.locks = held]
<1>1. t \in Session /\ Sound(t) /\ RowsSound(t)
      /\ (Quiet => WalletFresh(t) /\ MayRedeem(t))
  BY SessionFacts
<1>2. t.job \in Jobs /\ t.job.kind = "redeem"
  BY <1>1 DEF Sound
<1>3. AfterOwnCode(t) = [t EXCEPT !.pc = next]
  BY DEF AfterOwnCode
<1>4. next \in {"wallet", "commit"}
  OBVIOUS
<1>. HIDE DEF next
<1>5. /\ n \in Session /\ n.pc = next /\ n.job = t.job /\ n.ident = t.ident
      /\ n.rows = t.rows /\ n.locks = held /\ n.code = t.code /\ n.seen = t.seen
  BY <1>1, <1>3, <1>4 DEF Session
<1>. HIDE DEF n
<1>6. Sound(n) /\ RowsSound(n) /\ SeenBacked(n)
  BY <1>1, <1>2, <1>4, <1>5 DEF Sound, RowsSound, SeenBacked
<1>7. Quiet => WalletFresh(n) /\ CountersFresh(n) /\ MayRedeem(n)
  BY <1>1, <1>2, <1>4, <1>5, <1>6 DEF WalletFresh, CountersFresh, Sound, MayRedeem
<1>. QED
  BY <1>1, <1>5, <1>6, <1>7, GoOnKeeps DEF n

\* The user's own code is looked up.
LEMMA FindOwnCodeKeeps ==
    ASSUME Inductive, NEW s \in Sessions, FindOwnCode(s)
    PROVE  Inductive'
<1>. DEFINE t == session[s]
            n == [t EXCEPT !.pc = "create"]
<1>1. t \in Session /\ Sound(t) /\ RowsSound(t) /\ t.pc = "own"
      /\ (Quiet => WalletFresh(t) /\ MayRedeem(t))
  BY SessionFacts DEF FindOwnCode
<1>2. CASE t.ident \in ownCodes
  <2>1. AfterOwnCode(t) = [AfterOwnCode(t) EXCEPT !.locks = t.locks]
    BY <1>1 DEF AfterOwnCode, Session
  <2>2. Beside(s, [AfterOwnCode(t) EXCEPT !.locks = t.locks])
    BY <1>2, <2>1, MoveIsBeside DEF FindOwnCode
  <2>3. t.locks \in SUBSET (Users \cup Codes \cup Identities)
    BY <1>1 DEF Session
  <2>. QED
    BY <1>1, <2>2, <2>3, AfterOwnCodeKeeps
<1>3. CASE t.ident \notin ownCodes
  <2>1. Beside(s, n)
    BY <1>3, MoveIsBeside DEF FindOwnCode
  <2>2. t.job \in Jobs /\ t.job.kind = "redeem"
    BY <1>1 DEF Sound
  <2>3. /\ n \in Session /\ n.pc = "create" /\ n.job = t.job /\ n.ident = t.ident
        /\ n.rows = t.rows /\ n.locks = t.locks /\ n.code = t.code /\ n.seen = t.seen
    BY <1>1 DEF Session
  <2>. HIDE DEF n
  <2>4. Sound(n) /\ RowsSound(n) /\ SeenBacked(n)
    BY <1>1, <2>2, <2>3 DEF Sound, RowsSound, SeenBacked
  <2>5. Quiet => WalletFresh(n) /\ CountersFresh(n) /\ MayRedeem(n)
    BY <1>1, <2>2, <2>3, <2>4 DEF WalletFresh, CountersFresh, Sound, MayRedeem
  <2>. QED
    BY <1>1, <2>1, <2>3, <2>4, <2>5, GoOnKeeps
<1>. QED
  BY <1>2, <1>3

\* The user's own code is inserted.
LEMMA CreateOwnCodeKeeps ==
    ASSUME Inductive, NEW s \in Sessions, CreateOwnCode(s)
    PROVE  Inductive'
<1>. DEFINE t == session[s]
            held == t.locks \cup {t.ident}
<1>1. t \in Session /\ Sound(t) /\ t.pc = "create" /\ Free(s, t.ident)
  BY SessionFacts DEF CreateOwnCode
<1>2. CASE t.ident \in ownCodes
  BY <1>2, MoveIsBeside, EndKeeps DEF CreateOwnCode
<1>3. CASE t.ident \notin ownCodes
  <2>1. Beside(s, [AfterOwnCode(t) EXCEPT !.locks = held])
    BY <1>3, MoveIsBeside DEF CreateOwnCode
  <2>2. held \in SUBSET (Users \cup Codes \cup Identities)
    BY <1>1 DEF Sound, Session
  <2>. QED
    BY <1>1, <2>1, <2>2, AfterOwnCodeKeeps
<1>. QED
  BY <1>2, <1>3

-----------------------------------------------------------------------------
(* The steps that write ledger rows *)

\* A row more for an account that had none.
LEMMA WriteSound ==
    ASSUME NEW t \in Session, RowsSound(t), NEW u \in Users, NEW base \in Int,
           NEW amount \in Int, base + amount >= 0, NEW pc \in {"route", "commit"},
           \A r \in t.rows : r.user # u,
           u = t.job.user \/ (t.code # NoCode /\ u = Owner[t.code]),
           pc = "route" => u = t.job.user /\ t.rows = {}
    PROVE  LET n == Write(t, Row(u, base, amount), pc) IN
           /\ n \in Session /\ n.pc = pc /\ n.job = t.job /\ n.ident = t.ident
           /\ n.seen = t.seen /\ n.code = t.code /\ n.counters = t.counters
           /\ n.rows = t.rows \cup {Row(u, base, amount)} /\ n.locks = t.locks \cup {u}
           /\ RowsSound(n)
<1>. DEFINE row == Row(u, base, amount)
            n == Write(t, row, pc)
<1>1. row \in [user : Users, amount : Int, after : Nat] /\ row.user = u
  BY DEF Row
<1>. HIDE DEF row
<1>2. /\ n \in Session /\ n.pc = pc /\ n.job = t.job /\ n.ident = t.ident
      /\ n.seen = t.seen /\ n.code = t.code /\ n.counters = t.counters
      /\ n.rows = t.rows \cup {row} /\ n.locks = t.locks \cup {u}
  BY <1>1 DEF Write, Session
<1>3. RowsSound(n)
  BY <1>1, <1>2 DEF RowsSound
<1>. QED
  BY <1>2, <1>3 DEF row

\* A balance is written under its lock, with its ledger row.
LEMMA ChangeWalletKeeps ==
    ASSUME Inductive, NEW s \in Sessions, ChangeWallet(s)
    PROVE  Inductive'
<1>. DEFINE t == session[s]
            u == t.job.user
            row == Row(u, Base(t), Amount(t.job))
            next == IF t.job.kind = "purchase" THEN "route" ELSE "commit"
            n == Write(t, row, next)
<1>1. t \in Session /\ Sound(t) /\ RowsSound(t) /\ t.pc = "wallet" /\ Free(s, u)
      /\ (Quiet => WalletFresh(t) /\ MayRedeem(t))
  BY SessionFacts DEF ChangeWallet
<1>2. t.job \in Jobs /\ u \in Users /\ t.rows = {} /\ t.code = NoCode
      /\ t.job.kind \in {"redeem", "purchase", "adjust", "crm"} /\ Amount(t.job) \in Int
  BY <1>1, JobTypes DEF Sound
<1>3. Base(t) \in Nat
  BY <1>1, <1>2 DEF Base, Session, Inductive, Always, TypeOK
<1>4. Quiet => Base(t) = balance[u]
  BY <1>1, <1>2 DEF Base, WalletFresh
<1>5. CASE Refused(row)
  BY <1>5, MoveIsBeside, EndKeeps DEF ChangeWallet
<1>6. CASE ~Refused(row)
  <2>1. Beside(s, n)
    BY <1>6, MoveIsBeside DEF ChangeWallet
  <2>2. Base(t) + Amount(t.job) >= 0
    BY <1>2, <1>3, <1>6 DEF Refused, Row
  <2>3. next \in {"route", "commit"}
    OBVIOUS
  <2>4. /\ n \in Session /\ n.pc = next /\ n.job = t.job /\ n.ident = t.ident
        /\ n.code = t.code /\ n.rows = t.rows \cup {row} /\ n.locks = t.locks \cup {u}
        /\ RowsSound(n)
    BY <1>1, <1>2, <1>3, <2>2, <2>3, WriteSound
  <2>5. row.user = u /\ row.after = Base(t) + row.amount
    BY DEF Row
  <2>. HIDE DEF n, row
  <2>6. Sound(n) /\ SeenBacked(n)
    BY <1>1, <1>2, <2>4 DEF Sound, SeenBacked
  <2>7. Quiet => WalletFresh(n) /\ CountersFresh(n) /\ MayRedeem(n)
    BY <1>1, <1>2, <1>4, <2>4, <2>5 DEF WalletFresh, CountersFresh, MayRedeem
  <2>. QED
    BY <1>1, <2>1, <2>4, <2>6, <2>7, GoOnKeeps
<1>. QED
  BY <1>5, <1>6

\* A redemption names an identity and a code of somebody else.
LEMMA RedemptionTypes ==
    ASSUME Inductive, NEW i \in DOMAIN redemptions
    PROVE  /\ redemptions[i].ident \in Identities /\ redemptions[i].code \in Codes
           /\ redemptions[i].ident[1] # Owner[redemptions[i].code]
<1>. DEFINE Redemption == [ident : Identities, code : Codes]
<1>1. redemptions \in Seq(Redemption)
  BY DEF Inductive, Always, TypeOK
<1>2. redemptions[i] \in Redemption
  <2>. HIDE DEF Redemption
  <2>. QED
    BY <1>1
<1>. QED
  BY <1>2 DEF Inductive, Always, NoneOwn

\* The newest redemption of an identity is one of the table.
LEMMA LatestIsRedeemed ==
    ASSUME Inductive, NEW id, Latest(id) # NoCode
    PROVE  \E i \in DOMAIN redemptions :
              redemptions[i].ident = id /\ redemptions[i].code = Latest(id)
<1>. DEFINE mine == {i \in DOMAIN redemptions : redemptions[i].ident = id}
            top == CHOOSE i \in mine : \A k \in mine : k <= i
<1>1. DOMAIN redemptions = 1 .. Len(redemptions) /\ Len(redemptions) \in Nat
  BY DEF Inductive, Always, TypeOK
<1>2. mine # {} /\ Latest(id) = redemptions[top].code
  BY DEF Latest
<1>3. \E i \in mine : \A k \in mine : k <= i
  <2>. DEFINE above == {n \in Nat : \A k \in mine : k <= n}
  <2>1. above \in SUBSET Nat /\ Len(redemptions) \in above
    BY <1>1
  <2>2. PICK n \in above : \A m \in above : n <= m
    BY <2>1, LeastNatural
  <2>3. n \in mine
    <3>. SUFFICES ASSUME n \notin mine
                  PROVE  FALSE
      OBVIOUS
    <3>1. n \in Nat \ {0} /\ \A k \in mine : k \in Nat /\ k < n
      BY SMTT(30), <1>1, <1>2
    <3>2. n - 1 \in above
      BY <3>1
    <3>. QED
      BY <2>2, <3>1, <3>2
  <2>. QED
    BY <2>2, <2>3
<1>. QED
  BY <1>2, <1>3

\* A purchase finds the code whose owner it rewards.
LEMMA RouteRewardKeeps ==
    ASSUME Inductive, NEW s \in Sessions, RouteReward(s)
    PROVE  Inductive'
<1>. DEFINE t == session[s]
            c == Latest(t.ident)
            m == [t EXCEPT !.pc = "commit"]
            n == [t EXCEPT !.code = c, !.counters = promo[c], !.seen = balance[Owner[c]],
                           !.pc = "count"]
<1>1. t \in Session /\ Sound(t) /\ RowsSound(t) /\ t.pc = "route"
      /\ (Quiet => WalletFresh(t))
  BY SessionFacts DEF RouteReward
<1>2. t.job \in Jobs /\ t.job.kind = "purchase" /\ t.code = NoCode
  BY <1>1 DEF Sound
<1>3. CASE c = NoCode \/ (c # NoCode /\ Owner[c] = NoUser)
  <2>1. Beside(s, m)
    BY <1>3, MoveIsBeside DEF RouteReward
  <2>2. /\ m \in Session /\ m.pc = "commit" /\ m.job = t.job /\ m.ident = t.ident
        /\ m.rows = t.rows /\ m.locks = t.locks /\ m.code = t.code /\ m.seen = t.seen
    BY <1>1 DEF Session
  <2>. HIDE DEF m
  <2>3. Sound(m) /\ RowsSound(m) /\ SeenBacked(m)
    BY <1>1, <1>2, <2>2 DEF Sound, RowsSound, SeenBacked
  <2>4. Quiet => WalletFresh(m) /\ CountersFresh(m) /\ MayRedeem(m)
    BY <1>1, <1>2, <2>2 DEF WalletFresh, CountersFresh, MayRedeem
  <2>. QED
    BY <1>1, <2>1, <2>2, <2>3, <2>4, GoOnKeeps
<1>4. CASE c # NoCode /\ Owner[c] # NoUser
  <2>1. Beside(s, n)
    BY <1>4, MoveIsBeside DEF RouteReward
  <2>2. PICK i \in DOMAIN redemptions :
           redemptions[i].ident = t.ident /\ redemptions[i].code = c
    BY <1>4, LatestIsRedeemed
  <2>3. c \in Codes
    BY <2>2, RedemptionTypes
  <2>4. Owner[c] \in Users /\ Owner[c] # t.job.user
    <3>1. Owner[c] \in Users
      BY <1>4, <2>3, WalletAssumption
    <3>2. t.ident[1] = t.job.user /\ t.ident[1] # Owner[c]
      BY <1>1, <2>2, RedemptionTypes DEF Sound
    <3>. QED
      BY <3>1, <3>2
  <2>5. balance[Owner[c]] \in Nat /\ promo[c] \in [days : Nat, points : Nat]
        /\ promo[c].points <= paid[c] /\ promo[c].days <= invited[c]
    BY <2>3, <2>4 DEF Inductive, Always, TypeOK, CountersBacked
  <2>. HIDE DEF c
  <2>6. /\ n \in Session /\ n.pc = "count" /\ n.job = t.job /\ n.ident = t.ident
        /\ n.rows = t.rows /\ n.locks = t.locks /\ n.code = c
        /\ n.seen = balance[Owner[c]] /\ n.counters = promo[c]
    BY <1>1, <2>3, <2>5 DEF Session
  <2>. HIDE DEF n
  <2>7. Sound(n) /\ RowsSound(n) /\ SeenBacked(n)
    BY <1>1, <1>2, <1>4, <2>4, <2>5, <2>6 DEF Sound, RowsSound, SeenBacked
  <2>8. Quiet => WalletFresh(n) /\ CountersFresh(n) /\ MayRedeem(n)
    BY <1>1, <1>2, <2>6 DEF WalletFresh, CountersFresh, MayRedeem
  <2>. QED
    BY <1>1, <2>1, <2>6, <2>7, <2>8, GoOnKeeps
<1>. QED
  BY <1>3, <1>4

\* The days bought with a code are counted under the lock of its row.
LEMMA CountDaysKeeps ==
    ASSUME Inductive, NEW s \in Sessions, CountDays(s)
    PROVE  Inductive'
<1>. DEFINE t == session[s]
            next == IF Reward(t) > 0 THEN "reward" ELSE "commit"
            n == [t EXCEPT !.locks = t.locks \cup {t.code}, !.pc = next]
<1>1. t \in Session /\ Sound(t) /\ RowsSound(t) /\ SeenBacked(t) /\ t.pc = "count"
      /\ (Quiet => WalletFresh(t) /\ CountersFresh(t)) /\ Free(s, t.code)
  BY SessionFacts DEF CountDays
<1>2. t.job \in Jobs /\ t.job.kind = "purchase" /\ t.code \in Codes
  BY <1>1 DEF Sound, Session
<1>3. Beside(s, n)
  BY MoveIsBeside DEF CountDays
<1>4. next \in {"reward", "commit"}
  OBVIOUS
<1>. HIDE DEF next
<1>5. /\ n \in Session /\ n.pc = next /\ n.job = t.job /\ n.ident = t.ident
      /\ n.rows = t.rows /\ n.locks = t.locks \cup {t.code} /\ n.code = t.code
      /\ n.seen = t.seen /\ n.counters = t.counters
  BY <1>1, <1>2, <1>4 DEF Session
<1>. HIDE DEF n
<1>6. Sound(n) /\ RowsSound(n) /\ SeenBacked(n)
  BY <1>1, <1>2, <1>4, <1>5 DEF Sound, RowsSound, SeenBacked
<1>7. Quiet => WalletFresh(n) /\ CountersFresh(n) /\ MayRedeem(n)
  BY <1>1, <1>2, <1>4, <1>5 DEF WalletFresh, CountersFresh, MayRedeem
<1>. QED
  BY <1>1, <1>3, <1>5, <1>6, <1>7, GoOnKeeps

\* The owner of the code is paid.
LEMMA PayOwnerKeeps ==
    ASSUME Inductive, NEW s \in Sessions, PayOwner(s)
    PROVE  Inductive'
<1>. DEFINE t == session[s]
            u == Owner[t.code]
            row == Row(u, t.seen, Reward(t))
            n == Write(t, row, "commit")
<1>1. t \in Session /\ Sound(t) /\ RowsSound(t) /\ SeenBacked(t) /\ t.pc = "reward"
      /\ (Quiet => WalletFresh(t) /\ CountersFresh(t)) /\ Free(s, u)
  BY SessionFacts DEF PayOwner
<1>2. t.job \in Jobs /\ t.job.kind = "purchase" /\ u \in Users /\ u # t.job.user
      /\ t.code # NoCode /\ \A r \in t.rows : r.user # u
  BY <1>1 DEF Sound, RowsSound
<1>3. t.seen \in Nat /\ Reward(t) \in Nat
  BY <1>1, <1>2, RewardBounds DEF Session
<1>4. Beside(s, n)
  BY MoveIsBeside DEF PayOwner
<1>5. /\ n \in Session /\ n.pc = "commit" /\ n.job = t.job /\ n.ident = t.ident
      /\ n.seen = t.seen /\ n.code = t.code /\ n.counters = t.counters
      /\ n.rows = t.rows \cup {row} /\ n.locks = t.locks \cup {u}
      /\ RowsSound(n)
  BY <1>1, <1>2, <1>3, WriteSound
<1>6. row.user = u /\ row.after = t.seen + row.amount
  BY DEF Row
<1>. HIDE DEF n, row
<1>7. Sound(n) /\ SeenBacked(n)
  BY <1>1, <1>2, <1>5 DEF Sound, SeenBacked
<1>8. Quiet => WalletFresh(n) /\ CountersFresh(n) /\ MayRedeem(n)
  BY <1>1, <1>2, <1>5, <1>6 DEF WalletFresh, CountersFresh, MayRedeem
<1>. QED
  BY <1>1, <1>4, <1>5, <1>7, <1>8, GoOnKeeps

-----------------------------------------------------------------------------
(* The commit *)

\* The ledger row a session holds for a user is one of its rows.
LEMMA TheRowOfUser ==
    ASSUME NEW t \in Session, RowsSound(t), NEW u, RowsOf(t, u) # {}
    PROVE  /\ TheRow(t, u) \in t.rows /\ TheRow(t, u).user = u
           /\ TheRow(t, u).after \in Nat /\ TheRow(t, u).amount \in Int
<1>1. TheRow(t, u) \in RowsOf(t, u)
  BY DEF TheRow
<1>. QED
  BY <1>1 DEF RowsOf, Session

\* The rows of a table that has grown by one.
LEMMA GrownTable ==
    ASSUME NEW T, NEW table \in Seq(T), NEW x \in T, NEW i \in DOMAIN Append(table, x)
    PROVE  \/ i = Len(table) + 1 /\ Append(table, x)[i] = x
           \/ i \in DOMAIN table /\ Append(table, x)[i] = table[i]
OBVIOUS

\* The session that commits, and what becomes of the others.
LEMMA CommitFacts ==
    ASSUME Inductive, NEW s \in Sessions, Commit(s)
    PROVE  LET t == session[s] IN
           /\ t \in Session /\ t.pc = "commit" /\ t.job \in Jobs
           /\ t.ident \in Identities /\ t.ident[1] = t.job.user
           /\ Sound(t) /\ RowsSound(t) /\ SeenBacked(t)
           /\ session' \in [Sessions -> Session] /\ session'[s] = Idle
           /\ \A r \in Sessions : r # s => session'[r] = session[r]
           /\ UNCHANGED <<linked, begun, failures>>
<1>1. Idle \in Session
  BY IdleSound
<1>. QED
  BY <1>1, SessionFacts DEF Commit, Sound, Inductive, Always, TypeOK

\* A commit leaves a wallet alone, or writes the balance and the row that go together.
LEMMA CommitWallets ==
    ASSUME Inductive, NEW s \in Sessions, Commit(s)
    PROVE  /\ balance' \in [Users -> Nat] /\ ledger' \in [Users -> Int]
           /\ \A u \in Users :
                 \/ /\ balance'[u] = balance[u] /\ ledger'[u] = ledger[u]
                    /\ \A r \in session[s].rows : r.user # u
                 \/ \E r \in session[s].rows :
                       /\ r.user = u /\ balance'[u] = r.after
                       /\ ledger'[u] = ledger[u] + r.amount
                       /\ r.amount \in Int
<1>. DEFINE t == session[s]
<1>1. t \in Session /\ RowsSound(t)
  BY CommitFacts
<1>2. balance \in [Users -> Nat] /\ ledger \in [Users -> Int]
  BY DEF Inductive, Always, TypeOK
<1>3. /\ balance' = [u \in Users |->
                        IF RowsOf(t, u) = {} THEN balance[u] ELSE TheRow(t, u).after]
      /\ ledger' = [u \in Users |->
                        IF RowsOf(t, u) = {} THEN ledger[u] ELSE ledger[u] + TheRow(t, u).amount]
  BY DEF Commit
<1>. HIDE DEF t
<1>4. ASSUME NEW u \in Users
      PROVE  /\ balance'[u] \in Nat /\ ledger'[u] \in Int
             /\ \/ /\ balance'[u] = balance[u] /\ ledger'[u] = ledger[u]
                   /\ \A r \in t.rows : r.user # u
                \/ \E r \in t.rows :
                      /\ r.user = u /\ balance'[u] = r.after
                      /\ ledger'[u] = ledger[u] + r.amount
                      /\ r.amount \in Int
  <2>1. CASE RowsOf(t, u) = {}
    <3>1. \A r \in t.rows : r.user # u
      BY <2>1 DEF RowsOf
    <3>. QED
      BY <1>2, <1>3, <2>1, <3>1
  <2>2. CASE RowsOf(t, u) # {}
    BY <1>1, <1>2, <1>3, <2>2, TheRowOfUser
  <2>. QED
    BY <2>1, <2>2
<1>5. DOMAIN balance' = Users /\ DOMAIN ledger' = Users
      /\ balance' = [u \in Users |-> balance'[u]] /\ ledger' = [u \in Users |-> ledger'[u]]
  BY <1>3
<1>. QED
  BY <1>4, <1>5 DEF t

\* A commit adds the redemption of its session, if it is one.
LEMMA CommitRedemptions ==
    ASSUME Inductive, NEW s \in Sessions, Commit(s)
    PROVE  LET t == session[s] IN
           /\ redemptions' \in Seq([ident : Identities, code : Codes])
           /\ t.job.kind # "redeem" => redemptions' = redemptions
           /\ t.job.kind = "redeem" =>
                /\ redemptions' = Append(redemptions, [ident |-> t.ident, code |-> t.job.code])
                /\ \A i \in DOMAIN redemptions' :
                      \/ /\ i = Len(redemptions) + 1
                         /\ redemptions'[i] = [ident |-> t.ident, code |-> t.job.code]
                      \/ i \in DOMAIN redemptions /\ redemptions'[i] = redemptions[i]
                /\ t.job.code \in Codes /\ t.job.user # Owner[t.job.code]
<1>. DEFINE t == session[s]
            Redemption == [ident : Identities, code : Codes]
<1>1. redemptions \in Seq(Redemption)
  BY DEF Inductive, Always, TypeOK
<1>2. t.job.kind # "redeem" => redemptions' = redemptions
  BY DEF Commit
<1>3. t.job.kind = "redeem" =>
         redemptions' = Append(redemptions, [ident |-> t.ident, code |-> t.job.code])
  BY DEF Commit
<1>4. t.job.kind = "redeem" => t.job.code \in Codes /\ t.job.user # Owner[t.job.code]
  BY CommitFacts, JobTypes DEF Sound
<1>5. t.job.kind = "redeem" => [ident |-> t.ident, code |-> t.job.code] \in Redemption
  BY <1>4, CommitFacts
<1>6. redemptions' \in Seq(Redemption)
  <2>. HIDE DEF Redemption
  <2>. QED
    BY <1>1, <1>2, <1>3, <1>5
<1>7. t.job.kind = "redeem" =>
         \A i \in DOMAIN redemptions' :
            \/ /\ i = Len(redemptions) + 1
               /\ redemptions'[i] = [ident |-> t.ident, code |-> t.job.code]
            \/ i \in DOMAIN redemptions /\ redemptions'[i] = redemptions[i]
  <2>. HIDE DEF Redemption
  <2>. QED
    BY <1>1, <1>3, <1>5, GrownTable
<1>. QED
  BY <1>2, <1>3, <1>4, <1>6, <1>7

\* The counters of a code and the ledger rows behind them grow together.
LEMMA CommitCounters ==
    ASSUME Inductive, NEW s \in Sessions, Commit(s)
    PROVE  LET t == session[s] IN
           /\ promo' \in [Codes -> [days : Nat, points : Nat]]
           /\ paid' \in [Codes -> Nat] /\ invited' \in [Codes -> Nat]
           /\ t.code = NoCode => promo' = promo /\ paid' = paid /\ invited' = invited
           /\ t.code # NoCode =>
                /\ t.code \in Codes
                /\ promo'[t.code] = CountersAfter(t)
                /\ paid'[t.code] = paid[t.code] + Reward(t)
                /\ invited'[t.code] = invited[t.code] + t.job.days
           /\ \A c \in Codes \ {t.code} :
                 promo'[c] = promo[c] /\ paid'[c] = paid[c] /\ invited'[c] = invited[c]
<1>. DEFINE t == session[s]
<1>1. t \in Session /\ t.job \in Jobs
  BY CommitFacts
<1>2. t.job.days \in Nat /\ Reward(t) \in Nat /\ DaysAfter(t) \in Nat
      /\ t.counters.points \in Nat
  BY <1>1, JobTypes, RewardBounds DEF Session
<1>3. /\ promo \in [Codes -> [days : Nat, points : Nat]]
      /\ paid \in [Codes -> Nat] /\ invited \in [Codes -> Nat]
  BY DEF Inductive, Always, TypeOK
<1>4. t.code # NoCode => t.code \in Codes /\ CountersAfter(t) \in [days : Nat, points : Nat]
  BY <1>1, <1>2, <1>3 DEF Session, CountersAfter
<1>5. t.code = NoCode => promo' = promo /\ paid' = paid /\ invited' = invited
  BY DEF Commit
<1>6. t.code # NoCode =>
         /\ promo' = [promo EXCEPT ![t.code] = CountersAfter(t)]
         /\ paid' = [paid EXCEPT ![t.code] = @ + Reward(t)]
         /\ invited' = [invited EXCEPT ![t.code] = @ + t.job.days]
  BY DEF Commit
<1>. HIDE DEF t
<1>7. promo' \in [Codes -> [days : Nat, points : Nat]]
      /\ paid' \in [Codes -> Nat] /\ invited' \in [Codes -> Nat]
  BY <1>2, <1>3, <1>4, <1>5, <1>6
<1>8. t.code # NoCode =>
         /\ promo'[t.code] = CountersAfter(t)
         /\ paid'[t.code] = paid[t.code] + Reward(t)
         /\ invited'[t.code] = invited[t.code] + t.job.days
  BY <1>3, <1>4, <1>6
<1>9. \A c \in Codes \ {t.code} :
         promo'[c] = promo[c] /\ paid'[c] = paid[c] /\ invited'[c] = invited[c]
  BY <1>3, <1>5, <1>6
<1>. QED
  BY <1>4, <1>5, <1>7, <1>8, <1>9 DEF t

\* A commit keeps what holds however sessions overlap.
LEMMA CommitKeepsAlways ==
    ASSUME Inductive, NEW s \in Sessions, Commit(s)
    PROVE  Always'
<1>. DEFINE t == session[s]
<1>1. /\ promo \in [Codes -> [days : Nat, points : Nat]]
      /\ paid \in [Codes -> Nat] /\ invited \in [Codes -> Nat]
  BY DEF Inductive, Always, TypeOK
<1>2. TypeOK'
  <2>1. bought' \subseteq Users /\ ownCodes' \subseteq Identities
    BY ZenonT(30), CommitFacts, JobTypes DEF Commit, Inductive, Always, TypeOK
  <2>2. linked' \subseteq Users /\ begun' \in Nat /\ failures' \in Nat
    BY CommitFacts DEF Inductive, Always, TypeOK
  <2>. QED
    BY <2>1, <2>2, CommitFacts, CommitWallets, CommitRedemptions, CommitCounters DEF TypeOK
<1>3. t \in Session /\ t.job \in Jobs /\ SeenBacked(t)
  BY CommitFacts
<1>4. Reward(t) \in Nat /\ t.job.days \in Nat
  BY <1>3, JobTypes, RewardBounds
<1>5. \A c \in Codes : paid[c] <= paid'[c] /\ invited[c] <= invited'[c]
  BY <1>1, <1>4, CommitCounters
<1>6. \A r \in Sessions : Sound(session'[r]) /\ RowsSound(session'[r]) /\ SeenBacked(session'[r])
  BY CommitFacts, IdleSound DEF Inductive, Always
<1>7. \A r \in Sessions : Sound(session[r])' /\ RowsSound(session[r])'
  BY <1>6 DEF Sound, RowsSound
<1>8. ASSUME NEW r \in Sessions
      PROVE  SeenBacked(session[r])'
  <2>. DEFINE q == session'[r]
  <2>1. q \in Session /\ SeenBacked(q)
    BY <1>6, CommitFacts
  <2>2. q.code # NoCode => q.code \in Codes /\ q.counters.points \in Nat /\ q.counters.days \in Nat
    BY <2>1 DEF Session
  <2>3. q.code # NoCode => q.counters.points <= paid'[q.code] /\ q.counters.days <= invited'[q.code]
    <3>. HIDE DEF q
    <3>. QED
      BY SMTT(30), <1>1, <1>2, <1>5, <2>1, <2>2 DEF SeenBacked, TypeOK
  <2>. QED
    BY <2>3 DEF SeenBacked
<1>9. Exclusive'
  BY CommitFacts, IdleSound DEF Inductive, Always, Exclusive
<1>10. NoneOwn'
  <2>1. StartLinked \subseteq linked'
    BY CommitFacts DEF Inductive, Always, NoneOwn
  <2>2. ASSUME NEW i \in DOMAIN redemptions'
        PROVE  redemptions'[i].ident[1] # Owner[redemptions'[i].code]
    <3>1. CASE t.job.kind # "redeem"
      BY <3>1, CommitRedemptions, RedemptionTypes
    <3>2. CASE t.job.kind = "redeem"
      <4>. DEFINE new == [ident |-> t.ident, code |-> t.job.code]
      <4>1. new.ident[1] # Owner[new.code]
        BY <3>2, CommitRedemptions, CommitFacts
      <4>2. redemptions' = Append(redemptions, new)
        BY <3>2, CommitRedemptions
      <4>. HIDE DEF new
      <4>3. redemptions'[i] = new \/ (i \in DOMAIN redemptions /\ redemptions'[i] = redemptions[i])
        BY <4>2 DEF Inductive, Always, TypeOK
      <4>. QED
        BY <4>1, <4>3, RedemptionTypes
    <3>. QED
      BY <3>1, <3>2
  <2>. QED
    BY <2>1, <2>2 DEF NoneOwn
<1>11. CountersBacked'
  <2>. SUFFICES ASSUME NEW c \in Codes
                PROVE  /\ promo'[c].points <= paid'[c] /\ promo'[c].days <= invited'[c]
                       /\ promo'[c].points <= RewardCap
    BY DEF CountersBacked
  <2>1. /\ promo[c].points <= paid[c] /\ promo[c].days <= invited[c]
        /\ promo[c].points <= RewardCap
    BY DEF Inductive, Always, CountersBacked
  <2>2. CASE c # t.code
    BY <2>1, <2>2, CommitCounters
  <2>3. CASE c = t.code
    <3>1. c # NoCode
      BY WalletAssumption
    <3>2. /\ promo'[c] = CountersAfter(t) /\ paid'[c] = paid[c] + Reward(t)
          /\ invited'[c] = invited[c] + t.job.days
      BY <2>3, <3>1, CommitCounters
    <3>3. t.counters.points <= paid[c] /\ t.counters.days <= invited[c]
          /\ t.counters.points \in Nat /\ t.counters.days \in Nat
      BY <1>3, <2>3, <3>1 DEF SeenBacked, Session
    <3>4. CountersAfter(t).days = t.counters.days + t.job.days
          /\ CountersAfter(t).points = IF Reward(t) > 0 THEN t.counters.points + Reward(t)
                                       ELSE promo[c].points
      BY <2>3 DEF CountersAfter, DaysAfter
    <3>5. Reward(t) > 0 => t.counters.points + Reward(t) <= RewardCap
      BY <1>3, RewardBounds
    <3>6. paid[c] \in Nat /\ invited[c] \in Nat /\ promo[c].points \in Nat
      BY <1>1
    <3>. HIDE DEF t
    <3>. QED
      BY <1>4, <2>1, <3>2, <3>3, <3>4, <3>5, <3>6
  <2>. QED
    BY <2>2, <2>3
<1>. QED
  BY <1>2, <1>7, <1>8, <1>9, <1>10, <1>11 DEF Always

\* What another session at work has read or written stays as it is, and its code is no
\* code of this one.
LEMMA CommitDisturbsNone ==
    ASSUME Inductive, Quiet, NEW s \in Sessions, Commit(s), NEW r \in Sessions \ {s}
    PROVE  LET t == session[s]
               q == session[r] IN
           /\ \A row \in q.rows : balance'[row.user] = balance[row.user]
           /\ q.pc # "idle" => \A u \in StaleWallets(q.job) \cap Users : balance'[u] = balance[u]
           /\ q.code # NoCode => promo' = promo
           /\ q.job \in Jobs /\ q.job.kind = "redeem" /\ t.job.kind = "redeem" =>
                q.ident # t.ident
<1>. DEFINE t == session[s]
            q == session[r]
<1>1. /\ t \in Session /\ t.job \in Jobs /\ t.pc = "commit" /\ Sound(t) /\ RowsSound(t)
      /\ q \in Session /\ Sound(q) /\ RowsSound(q)
      /\ t.ident[1] = t.job.user
  BY CommitFacts, SessionFacts
<1>2. q.pc # "idle" => Separate(t.job, q.job)
  BY <1>1 DEF Quiet, KeptApart
<1>3. t.locks \cap q.locks = {}
  BY DEF Inductive, Always, Exclusive
<1>4. \A u \in Users : balance'[u] = balance[u] \/ \E row \in t.rows : row.user = u
  BY CommitWallets
<1>5. ASSUME NEW row \in q.rows
      PROVE  balance'[row.user] = balance[row.user]
  BY <1>1, <1>3, <1>4 DEF RowsSound, Session
<1>6. \A row \in t.rows : row.user \in Wallets(t.job)
  <2>. SUFFICES ASSUME NEW row \in t.rows, row.user # t.job.user
                PROVE  row.user \in StaleWallets(t.job)
    BY DEF Wallets
  <2>1. t.code \in Codes /\ row.user = Owner[t.code] /\ t.job.kind = "purchase"
        /\ Owner[t.code] \in Users
    BY <1>1 DEF RowsSound, Sound, Session
  <2>2. StaleWallets(t.job) = {Owner[c] : c \in Codes} \ {NoUser}
    BY <2>1 DEF StaleWallets
  <2>. QED
    BY <2>1, <2>2, WalletAssumption
<1>7. ASSUME q.pc # "idle", NEW u \in StaleWallets(q.job) \cap Users
      PROVE  balance'[u] = balance[u]
  BY <1>2, <1>4, <1>6, <1>7 DEF Separate
<1>8. q.code # NoCode => promo' = promo
  <2>. SUFFICES ASSUME q.code # NoCode, t.code # NoCode
                PROVE  FALSE
    BY CommitCounters
  <2>1. /\ q.pc # "idle" /\ q.code \in Codes /\ Owner[q.code] \in Users
        /\ q.job.kind = "purchase" /\ t.job.kind = "purchase"
    BY <1>1 DEF Sound, Session
  <2>2. /\ StaleWallets(q.job) = {Owner[c] : c \in Codes} \ {NoUser}
        /\ StaleWallets(t.job) = {Owner[c] : c \in Codes} \ {NoUser}
    BY <2>1 DEF StaleWallets
  <2>3. Owner[q.code] \in StaleWallets(q.job) \cap StaleWallets(t.job)
    BY <2>1, <2>2, WalletAssumption
  <2>. QED
    BY <1>2, <2>1, <2>3 DEF Separate, Wallets
<1>9. ASSUME q.job \in Jobs, q.job.kind = "redeem", t.job.kind = "redeem", q.ident = t.ident
      PROVE  FALSE
  <2>1. q.pc # "idle"
    BY <1>1, <1>9, WalletAssumption DEF Sound, Idle
  <2>2. q.job.user = t.job.user
    BY <1>1, <1>9, <2>1 DEF Sound
  <2>3. t.job.user \in StaleWallets(t.job) /\ q.job.user \in Wallets(q.job)
    BY <1>9 DEF StaleWallets, Wallets
  <2>. QED
    BY <1>2, <2>1, <2>2, <2>3 DEF Separate
<1>. QED
  BY <1>5, <1>7, <1>8, <1>9

\* A commit leaves what other sessions have read true, when they are kept apart.
LEMMA CommitKeepsOthers ==
    ASSUME Inductive, Quiet, NEW s \in Sessions, Commit(s), NEW r \in Sessions
    PROVE  (WalletFresh(session[r]) /\ CountersFresh(session[r]) /\ MayRedeem(session[r]))'
<1>1. CASE r = s
  <2>1. session'[r] = Idle
    BY <1>1, CommitFacts
  <2>2. NoJob \notin Jobs
    BY WalletAssumption
  <2>. QED
    BY <2>1, <2>2 DEF WalletFresh, CountersFresh, MayRedeem, Idle
<1>2. CASE r # s
  <2>. DEFINE t == session[s]
              q == session[r]
  <2>1. session'[r] = q /\ q \in Session /\ Sound(q)
        /\ WalletFresh(q) /\ CountersFresh(q) /\ MayRedeem(q)
    BY <1>2, CommitFacts, SessionFacts
  <2>2. WalletFresh(q)'
    <3>1. q.job \in Jobs /\ q.job.kind \in {"redeem", "adjust"} =>
            q.job.user \in StaleWallets(q.job) \cap Users /\ q.pc # "idle"
      BY <2>1, JobTypes, WalletAssumption DEF StaleWallets, Sound, Idle
    <3>2. q.pc \in {"count", "reward"} =>
            Owner[q.code] \in StaleWallets(q.job) \cap Users
      <4>. HAVE q.pc \in {"count", "reward"}
      <4>1. q.code \in Codes /\ q.job.kind = "purchase" /\ Owner[q.code] \in Users
        BY <2>1 DEF Sound, Session
      <4>2. StaleWallets(q.job) = {Owner[c] : c \in Codes} \ {NoUser}
        BY <4>1 DEF StaleWallets
      <4>. QED
        BY <4>1, <4>2, WalletAssumption
    <3>3. /\ \A row \in q.rows : balance'[row.user] = balance[row.user]
          /\ q.pc # "idle" => \A u \in StaleWallets(q.job) \cap Users : balance'[u] = balance[u]
      BY <1>2, CommitDisturbsNone
    <3>4. /\ \A row \in q.rows : row.after = balance'[row.user] + row.amount
          /\ q.job \in Jobs =>
               /\ q.job.kind = "redeem" /\ q.pc \in {"own", "create", "wallet"} =>
                    q.seen = balance'[q.job.user]
               /\ q.job.kind = "adjust" /\ q.pc = "wallet" => q.seen = balance'[q.job.user]
          /\ q.pc \in {"count", "reward"} => q.seen = balance'[Owner[q.code]]
      BY <2>1, <3>1, <3>2, <3>3 DEF WalletFresh
    <3>. QED
      BY <2>1, <3>4 DEF WalletFresh
  <2>3. CountersFresh(q)'
    <3>1. q.code # NoCode => promo' = promo
      BY <1>2, CommitDisturbsNone
    <3>. QED
      BY <2>1, <3>1 DEF CountersFresh
  <2>4. MayRedeem(q)'
    <3>. SUFFICES ASSUME q.job \in Jobs, q.job.kind = "redeem", q.pc # "check",
                         NEW i \in DOMAIN redemptions', redemptions'[i].ident = q.ident
                  PROVE  /\ redemptions'[i].code # q.job.code
                         /\ q.job.code \in Referral => redemptions'[i].code \notin Referral
      BY <2>1 DEF MayRedeem
    <3>1. t.job.kind = "redeem" => q.ident # t.ident
      BY <1>2, CommitDisturbsNone
    <3>2. i \in DOMAIN redemptions /\ redemptions'[i] = redemptions[i]
      <4>1. CASE t.job.kind # "redeem"
        BY <4>1, CommitRedemptions
      <4>2. CASE t.job.kind = "redeem"
        <5>. DEFINE new == [ident |-> t.ident, code |-> t.job.code]
        <5>1. \/ redemptions'[i] = new
              \/ i \in DOMAIN redemptions /\ redemptions'[i] = redemptions[i]
          BY <4>2, CommitRedemptions
        <5>2. new.ident = t.ident
          OBVIOUS
        <5>. HIDE DEF new
        <5>3. redemptions'[i].ident # t.ident
          BY <3>1, <4>2
        <5>. QED
          BY <5>1, <5>2, <5>3
      <4>. QED
        BY <4>1, <4>2
    <3>. QED
      BY <2>1, <3>2 DEF MayRedeem
  <2>. QED
    BY <2>1, <2>2, <2>3, <2>4 DEF WalletFresh, CountersFresh, MayRedeem
<1>. QED
  BY <1>1, <1>2

\* A commit keeps balance and ledger together, when sessions are kept apart.
LEMMA CommitKeepsQuiet ==
    ASSUME Inductive, Quiet, NEW s \in Sessions, Commit(s)
    PROVE  Quiet'
<1>. DEFINE t == session[s]
<1>1. /\ t \in Session /\ t.job \in Jobs /\ t.pc = "commit"
      /\ WalletFresh(t) /\ CountersFresh(t) /\ MayRedeem(t)
  BY CommitFacts, SessionFacts
<1>2. KeptApart'
  <2>1. \A q, r \in Sessions :
           q # r /\ session'[q].pc # "idle" /\ session'[r].pc # "idle" =>
              Separate(session'[q].job, session'[r].job)
    BY CommitFacts DEF Quiet, KeptApart, Idle
  <2>. QED
    BY <2>1 DEF KeptApart, Separate, StaleWallets, Wallets
<1>3. BalanceIsLedger'
  <2>. SUFFICES ASSUME NEW u \in Users
                PROVE  balance'[u] = StartBalance[u] + ledger'[u]
    BY DEF BalanceIsLedger
  <2>1. balance[u] = StartBalance[u] + ledger[u] /\ StartBalance[u] \in Nat
        /\ balance[u] \in Nat /\ ledger[u] \in Int
    BY WalletAssumption DEF Quiet, BalanceIsLedger, Inductive, Always, TypeOK
  <2>2. CASE balance'[u] = balance[u] /\ ledger'[u] = ledger[u]
    BY <2>1, <2>2
  <2>3. CASE \E r \in t.rows : r.user = u /\ balance'[u] = r.after
                              /\ ledger'[u] = ledger[u] + r.amount /\ r.amount \in Int
    <3>1. PICK r \in t.rows : r.user = u /\ balance'[u] = r.after
                              /\ ledger'[u] = ledger[u] + r.amount /\ r.amount \in Int
      BY <2>3
    <3>2. r.after = balance[u] + r.amount
      BY <1>1, <3>1 DEF WalletFresh
    <3>. QED
      BY <2>1, <3>1, <3>2
  <2>. QED
    BY <2>2, <2>3, CommitWallets
<1>4. RewardExact'
  <2>. SUFFICES ASSUME NEW c \in Codes
                PROVE  /\ promo'[c] = [days |-> invited'[c], points |-> paid'[c]]
                       /\ paid'[c] = UpToCap(Earned(invited'[c]))
    BY DEF RewardExact, UpToCap, Earned
  <2>1. /\ promo[c] = [days |-> invited[c], points |-> paid[c]]
        /\ paid[c] = UpToCap(Earned(invited[c]))
        /\ paid[c] \in Nat /\ invited[c] \in Nat
    BY DEF Quiet, RewardExact, Inductive, Always, TypeOK
  <2>2. CASE c # t.code
    BY <2>1, <2>2, CommitCounters
  <2>3. CASE c = t.code
    <3>1. c # NoCode
      BY WalletAssumption
    <3>2. /\ promo'[c] = CountersAfter(t) /\ paid'[c] = paid[c] + Reward(t)
          /\ invited'[c] = invited[c] + t.job.days
      BY <2>3, <3>1, CommitCounters
    <3>3. t.counters.days = invited[c] /\ t.counters.points = paid[c]
      BY <1>1, <2>1, <2>3, <3>1 DEF CountersFresh
    <3>4. /\ Reward(t) \in Nat /\ DaysAfter(t) = invited[c] + t.job.days
          /\ paid[c] + Reward(t) = UpToCap(Earned(DaysAfter(t)))
      BY <1>1, <2>1, <3>3, RewardBounds
    <3>5. CountersAfter(t).days = invited'[c] /\ CountersAfter(t).points = paid'[c]
      BY <2>1, <2>3, <3>2, <3>3, <3>4 DEF CountersAfter
    <3>6. CountersAfter(t) = [days |-> invited'[c], points |-> paid'[c]]
      BY <3>5 DEF CountersAfter
    <3>. QED
      BY <3>2, <3>4, <3>6
  <2>. QED
    BY <2>2, <2>3
<1>5. RedeemedByRule'
  <2>. DEFINE new == [ident |-> t.ident, code |-> t.job.code]
              Clash(x, y) ==
                  x.ident = y.ident /\ (x.code = y.code \/ {x.code, y.code} \subseteq Referral)
  <2>1. \A i, k \in DOMAIN redemptions : i # k => ~Clash(redemptions[i], redemptions[k])
    BY DEF Quiet, RedeemedByRule, ByRule
  <2>2. CASE t.job.kind # "redeem"
    <3>1. redemptions' = redemptions
      BY <2>2, CommitRedemptions
    <3>. QED
      BY <3>1 DEF Quiet, RedeemedByRule, ByRule
  <2>3. CASE t.job.kind = "redeem"
    <3>1. redemptions' = Append(redemptions, new)
      BY <2>3, CommitRedemptions
    <3>2. \A i \in DOMAIN redemptions : ~Clash(redemptions[i], new) /\ ~Clash(new, redemptions[i])
      BY <1>1, <2>3 DEF MayRedeem
    <3>3. \A i \in DOMAIN redemptions' :
             \/ i = Len(redemptions) + 1 /\ redemptions'[i] = new
             \/ i \in DOMAIN redemptions /\ redemptions'[i] = redemptions[i]
      BY <2>3, CommitRedemptions
    <3>. HIDE DEF new, Clash
    <3>4. \A i, k \in DOMAIN redemptions' : i # k => ~Clash(redemptions'[i], redemptions'[k])
      BY <2>1, <3>2, <3>3
    <3>. QED
      BY <3>4 DEF Clash, RedeemedByRule, ByRule
  <2>. QED
    BY <2>2, <2>3
<1>. QED
  BY <1>2, <1>3, <1>4, <1>5, CommitKeepsOthers DEF Quiet

-----------------------------------------------------------------------------
(* The theorems *)

\* The first step: balances are what the ledger says, nobody is under way.
LEMMA InductiveInit == Init => Inductive
<1>. SUFFICES ASSUME Init
              PROVE  Inductive
  OBVIOUS
<1>1. TypeOK
  BY WalletAssumption DEF Init, TypeOK, NoCounters, Idle, Session
<1>2. \A s \in Sessions : session[s] = Idle
  BY DEF Init
<1>4. \A s \in Sessions : Sound(session[s]) /\ RowsSound(session[s]) /\ SeenBacked(session[s])
  BY <1>2, IdleSound
<1>5. Exclusive /\ NoneOwn
  BY <1>2, WalletAssumption DEF Init, Exclusive, NoneOwn, Idle
<1>6. CountersBacked
  BY WalletAssumption DEF Init, CountersBacked, NoCounters
<1>7. KeptApart /\ \A s \in Sessions :
         WalletFresh(session[s]) /\ CountersFresh(session[s]) /\ MayRedeem(session[s])
  BY <1>2, IdleSound DEF KeptApart
<1>8. BalanceIsLedger
  <2>1. ASSUME NEW u \in Users
        PROVE  balance[u] = StartBalance[u] + ledger[u]
    <3>1. balance[u] = StartBalance[u] /\ ledger[u] = 0
      BY DEF Init
    <3>2. StartBalance[u] \in Nat
      BY WalletAssumption
    <3>. QED
      BY <3>1, <3>2
  <2>. QED
    BY <2>1 DEF BalanceIsLedger
<1>9. RewardExact
  BY NothingEarned DEF Init, RewardExact, NoCounters
<1>10. RedeemedByRule
  BY WalletAssumption DEF Init, RedeemedByRule
<1>. QED
  BY <1>1, <1>4, <1>5, <1>6, <1>7, <1>8, <1>9, <1>10 DEF Inductive, Always, QuietWhenCalm, Quiet

\* Nothing moves.
LEMMA StutterKeeps ==
    ASSUME Inductive, UNCHANGED vars
    PROVE  Inductive'
<1>1. Always'
  BY DEF vars, Inductive, Always, TypeOK, SeenBacked, Exclusive, NoneOwn, CountersBacked
<1>2. QuietWhenCalm'
  BY DEF vars, Inductive, QuietWhenCalm, Quiet, KeptApart, WalletFresh, CountersFresh,
     MayRedeem, BalanceIsLedger, RewardExact, RedeemedByRule, ByRule
<1>. QED
  BY <1>1, <1>2 DEF Inductive

\* Every step keeps the invariant.
LEMMA InductiveNext == Inductive /\ [Next]_vars => Inductive'
<1>. SUFFICES ASSUME Inductive, [Next]_vars
              PROVE  Inductive'
  OBVIOUS
<1>1. ASSUME NEW s \in Sessions, NEW j \in Jobs, Begin(s, j)
      PROVE  Inductive'
  BY <1>1, BeginKeeps
<1>2. ASSUME NEW u \in Users, LinkTelegram(u)
      PROVE  Inductive'
  BY <1>2, LinkTelegramKeeps
<1>3. ASSUME NEW s \in Sessions, Proceed(s)
      PROVE  Inductive'
  <2>1. CASE Commit(s)
    <3>1. Calm => Quiet'
      BY <2>1, CommitKeepsQuiet DEF Inductive, QuietWhenCalm
    <3>. QED
      BY <2>1, <3>1, CommitKeepsAlways DEF Inductive, QuietWhenCalm
  <2>. QED
    BY <1>3, <2>1, CheckRedeemKeeps, LoadUserKeeps, FindOwnCodeKeeps, CreateOwnCodeKeeps,
       ChangeWalletKeeps, RouteRewardKeeps, CountDaysKeeps, PayOwnerKeeps DEF Proceed
<1>4. ASSUME NEW s \in Sessions, Fail(s)
      PROVE  Inductive'
  BY <1>4, FailKeeps
<1>5. ASSUME NEW s \in Sessions, BreakDeadlock(s)
      PROVE  Inductive'
  BY <1>5, RollbackKeeps DEF BreakDeadlock
<1>6. CASE UNCHANGED vars
  BY <1>6, StutterKeeps
<1>. QED
  BY <1>1, <1>2, <1>3, <1>4, <1>5, <1>6 DEF Next

\* The invariant holds in every reachable state.
LEMMA InductiveAlways == Spec => []Inductive
BY InductiveInit, InductiveNext, PTL DEF Spec

\* However requests overlap, fail and deadlock, no wallet is driven below zero and no
\* session holds a row it cannot commit.
THEOREM TypeCorrect == Spec => []TypeOK
<1>1. Inductive => TypeOK
  BY DEF Inductive, Always
<1>. QED
  BY <1>1, InductiveAlways, PTL

\* However purchases overlap, the counters of a code never claim points that were not
\* paid, days that were not bought, or more than the cap.
THEOREM CountersAreBacked == Spec => []CountersBacked
<1>1. Inductive => CountersBacked
  BY DEF Inductive, Always
<1>. QED
  BY <1>1, InductiveAlways, PTL

\* Requests that are kept apart lose no update: the wallet is what the ledger says.
THEOREM WalletIsLedger ==
    ASSUME Calm
    PROVE  Spec => []BalanceIsLedger
<1>1. Inductive => BalanceIsLedger
  BY DEF Inductive, QuietWhenCalm, Quiet
<1>. QED
  BY <1>1, InductiveAlways, PTL

\* Requests that are kept apart pay the owner of a code exactly what the days bought by
\* those he referred earn, up to the cap: no purchase is lost, none is rewarded twice.
THEOREM OwnerPaidExactly ==
    ASSUME Calm
    PROVE  Spec => []RewardExact
<1>1. Inductive => RewardExact
  BY DEF Inductive, QuietWhenCalm, Quiet
<1>. QED
  BY <1>1, InductiveAlways, PTL

\* Requests that are kept apart leave can_redeem's rules intact, although they are checked
\* long before the redemption is written: no identity redeems a code twice, or a second
\* referral code.
THEOREM RedeemedOnce ==
    ASSUME Calm
    PROVE  Spec => []RedeemedByRule
<1>1. Inductive => RedeemedByRule
  BY DEF Inductive, QuietWhenCalm, Quiet
<1>. QED
  BY <1>1, InductiveAlways, PTL
=============================================================================
