------------------------ MODULE OrderDelivery_proofs ------------------------
(***************************************************************************)
(* Proofs about OrderDelivery, for any number of orders, users, profiles   *)
(* and concurrent handlers.  First why it is right under any overlap of    *)
(* webhooks, then that it keeps the promises of OrderContract.             *)
(***************************************************************************)
EXTENDS OrderAccounting, FiniteSetTheorems, TLAPS

(***************************************************************************)
(* I. Any overlap of webhooks: the inductive strengthening of the safety   *)
(* invariants.  The argument rests on the markers: a marker, on the panel  *)
(* or in a handler's copy, stands for a write that really happened, and a  *)
(* handler only ever works on a profile it was told to extend or on one    *)
(* its order already wrote to.                                             *)
(***************************************************************************)

\* The purchase named a profile and the panel had it.
Renewal(o) ==
    PurchaseTarget[o] # NoProfile /\ InitialPanel[PurchaseTarget[o]].exists

\* The profiles o may work on: the renewed one, or those it has written to.
Own(o, p) ==
    \/ <<o, p>> \in granted
    \/ Renewal(o) /\ p = PurchaseTarget[o]

\* The row names a profile that got the days.
Settled(o) == <<o, order[o].target>> \in granted

\* A renewal keeps its target; another row's target moves only to profiles
\* the order has written to.
TargetOK(o, p) ==
    IF Renewal(o) THEN p = PurchaseTarget[o]
    ELSE p = PurchaseTarget[o] \/ <<o, p>> \in granted

LookupSteps == {"lookup", "create", "verifyCreate", "readBack"}
ProfileSteps == {"attach", "apply", "verifyApply", "finish"}
LinkedSteps == {"apply", "verifyApply", "finish"}

RowOK(o) == TargetOK(o, order[o].target)

\* The rows of claimed orders are there to be written to.
HeldRow(t) ==
    t.pc \notin {"idle", "claim"} => order[t.order].status \in {"pending", "confirmed"}

\* What a handler that looks for a name knows of its order.
Searching(t) ==
    t.pc \in LookupSteps =>
        /\ ~Renewal(t.order)
        /\ t.pc = "readBack" => <<t.order, CandidateName(t)>> \in granted

\* What it knows of the profile it renews, found or created, once it has one.
Found(t) ==
    t.pc \in ProfileSteps =>
        /\ t.profile \in Profiles /\ Own(t.order, t.profile)
        /\ Renewal(t.order) => t.profile = PurchaseTarget[t.order]
        /\ AlreadyApplied(t) => <<t.order, t.profile>> \in granted
        /\ t.pc \in LinkedSteps => link[t.profile] = Buyer[t.order]
        /\ t.pc \in LinkedSteps /\ ~Renewal(t.order) => Settled(t.order)
        /\ t.pc = "finish" => <<t.order, t.profile>> \in granted

TaskOK(t) ==
    t.pc # "idle" =>
        /\ TargetOK(t.order, t.target)
        /\ t.created => t.pc \in ProfileSteps
        /\ HeldRow(t)
        /\ Searching(t)
        /\ Found(t)

\* A request still on its way has the sender's marker and stays within its reach.
InflightOK(w) ==
    /\ w.mark \in {Provisioning(w.order), Delivery(w.order)}
    /\ w.create => \E x \in DOMAIN Candidate : w.profile = Candidate[x]
    /\ ~w.create => Own(w.order, w.profile) /\ link[w.profile] = Buyer[w.order]

\* Markers tell the truth, profiles only appear under candidate names, and a
\* profile is linked only once it is there.
PanelOK(p) ==
    /\ panel[p].mark.kind # "none" => <<panel[p].mark.order, p>> \in granted
    /\ InitialPanel[p].exists => panel[p].exists
    /\ panel[p].exists =>
         InitialPanel[p].exists \/ \E x \in DOMAIN Candidate : p = Candidate[x]
    /\ ~panel[p].exists => link[p] = InitialLink[p]

\* Written profiles exist; the accounts that wrote to an unlinked one agree.
GrantOK(o, p) ==
    <<o, p>> \in granted =>
        /\ panel[p].exists
        /\ InitialPanel[p].exists => p = PurchaseTarget[o] /\ link[p] = Buyer[o]
        /\ link[p] \in {NoUser, Buyer[o]}
        /\ link[p] = NoUser =>
             \A o2 \in Orders : <<o2, p>> \in granted => Buyer[o2] = Buyer[o]

\* The inductive invariant, without the types.
Consistent ==
    /\ \A o \in Orders : RowOK(o)
    /\ \A h \in Handlers : TaskOK(task[h])
    /\ \A w \in inflight : InflightOK(w)
    /\ \A p \in Profiles : PanelOK(p)
    /\ \A o \in Orders, p \in Profiles : GrantOK(o, p)
    /\ DeliveredToTarget

\* The types need the bounds of the name search, and what each step relies on.
Bounded(t) ==
    /\ t.start <= Cardinality(Profiles)
    /\ t.ordinal <= t.start + MaxNames
    /\ t.pc \in LookupSteps \ {"lookup"} => t.ordinal < t.start + MaxNames
    /\ t.pc # "idle" => t.order \in Orders
    /\ t.pc \in {"owner", "fetch"} => t.target \in Profiles
    /\ t.pc \in ProfileSteps => t.profile \in Profiles

TypeInv == TypeOK /\ \A h \in Handlers : Bounded(task[h])

\* A claimed and undelivered row, and the handler that answers for it.
Stuck(row) == row.status = "confirmed" /\ row.delivered = 0
WorksOn(t, o) == t.pc \notin {"idle", "claim"} /\ t.order = o

\* The markers are well-formed.
LEMMA MarkTypes ==
    ASSUME NEW o \in Orders
    PROVE  Provisioning(o) \in Mark /\ Delivery(o) \in Mark
BY DEF Provisioning, Delivery, Mark

\* The first ordinal of a name search is a number of subscriptions.
LEMMA FirstOrdinal ==
    ASSUME NEW u
    PROVE  /\ Cardinality(Profiles) \in Nat
           /\ Cardinality(Links(u)) \in Nat
           /\ Cardinality(Links(u)) <= Cardinality(Profiles)
<1>1. Links(u) \subseteq Profiles
  BY DEF Links
<1>. QED
  BY <1>1, DataAssumption, FS_Subset, FS_CardinalityType

\* An idle handler is well-formed.
LEMMA IdleType == Idle \in Task /\ Bounded(Idle)
<1>1. Cardinality(Profiles) \in Nat /\ MaxNames \in Nat /\ MaxAttempts \in Nat
  BY DataAssumption, BoundAssumption, FS_CardinalityType
<1>. QED
  BY <1>1 DEF Idle, Task, Bounded, Steps, Ordinals, NoMark, Mark, LookupSteps, ProfileSteps

\* The first attempt is within the bound.
LEMMA FirstAttempt == 1 \in 0 .. MaxAttempts
BY BoundAssumption

\* The initial state is well-typed.
LEMMA TypeInit == Init => TypeInv
<1>. SUFFICES ASSUME Init PROVE TypeInv
  OBVIOUS
<1>1. order \in [Orders -> OrderRow]
  BY DataAssumption DEF Init, OrderRow
<1>2. panel \in [Profiles -> Profile]
  BY InitialAssumption DEF Init, Profile, NoMark, Mark
<1>3. link \in [Profiles -> Users \cup {NoUser}]
  BY InitialAssumption DEF Init
<1>4. task \in [Handlers -> Task] /\ \A h \in Handlers : Bounded(task[h])
  BY IdleType DEF Init
<1>5. /\ invoiced \subseteq Orders /\ inflight \subseteq PanelWrite
      /\ webhooks \in Nat /\ crashes \in Nat
      /\ granted \subseteq Orders \X Profiles /\ abandoned \subseteq Orders
  BY DEF Init
<1>. QED
  BY <1>1, <1>2, <1>3, <1>4, <1>5 DEF TypeInv, TypeOK

\* A handler that moves to a well-formed state keeps the tasks well-formed.
LEMMA TaskMoves ==
    ASSUME TypeInv, NEW h \in Handlers, NEW t \in Task, Bounded(t),
           task' = [task EXCEPT ![h] = t]
    PROVE  /\ task' \in [Handlers -> Task]
           /\ \A k \in Handlers : Bounded(task[k])'
<1>1. task \in [Handlers -> Task] /\ \A k \in Handlers : Bounded(task[k])
  BY DEF TypeInv, TypeOK
<1>2. \A k \in Handlers : task'[k] = IF k = h THEN t ELSE task[k]
  BY <1>1
<1>. QED
  BY <1>1, <1>2 DEF Bounded

\* The pieces the actions are made of keep the types.
LEMMA UpdateType ==
    ASSUME order \in [Orders -> OrderRow], NEW o \in Orders, NEW d \in {0, 1},
           NEW s \in {"created", "pending", "confirmed", "failed", "deleted"},
           Update(o, s, d)
    PROVE  order' \in [Orders -> OrderRow]
BY DEF Update, OrderRow

\* The row keeps its type when the linked profile is written back to it.
LEMMA UpdateTargetType ==
    ASSUME order \in [Orders -> OrderRow], NEW o \in Orders, NEW p \in Profiles,
           UpdateTarget(o, p)
    PROVE  order' \in [Orders -> OrderRow]
BY DEF UpdateTarget, OrderRow

\* A step that only moves a handler keeps the types.
LEMMA StepType ==
    ASSUME TypeInv, NEW h \in Handlers, NEW t \in Task, Bounded(t), Step(h, t)
    PROVE  TypeInv'
<1>1. task' \in [Handlers -> Task] /\ \A k \in Handlers : Bounded(task[k])'
  BY TaskMoves DEF Step
<1>. QED
  BY <1>1 DEF TypeInv, TypeOK, Step, database, history

\* The copy of a profile a handler goes on with is well-formed.
LEMMA SnapshotType ==
    ASSUME TypeInv, NEW t \in Task, Bounded(t), t.pc # "idle", NEW p \in Profiles
    PROVE  Snapshot(t, p) \in Task /\ Bounded(Snapshot(t, p))
<1>1. panel[p] \in Profile
  BY DEF TypeInv, TypeOK
<1>. QED
  BY <1>1 DEF Snapshot, Task, Profile, Bounded, Steps, LookupSteps, ProfileSteps

\* Handing the row back as "pending" keeps the types, retry or not.
LEMMA PendingType ==
    ASSUME TypeInv, NEW h \in Handlers, task[h].pc # "idle",
           NEW retryable \in BOOLEAN, Pending(h, retryable)
    PROVE  TypeInv'
<1>. DEFINE t == task[h]
            again == [Idle EXCEPT !.pc = "context", !.order = t.order, !.target = t.target,
                                  !.attempt = NextAttempt(t)]
            last == [Idle EXCEPT !.pc = "giveUp", !.order = t.order, !.target = t.target]
<1>1. t \in Task /\ Bounded(t) /\ t.order \in Orders
  BY DEF TypeInv, TypeOK, Bounded
<1>2. order' \in [Orders -> OrderRow]
  BY <1>1, UpdateType DEF Pending, TypeInv, TypeOK
<1>3. last \in Task /\ Bounded(last)
  <2>1. last \in Task
    BY <1>1, IdleType DEF Task, Steps
  <2>2. Bounded(last)
    BY <1>1, IdleType DEF Bounded, Idle, LookupSteps, ProfileSteps
  <2>. QED
    BY <2>1, <2>2
<1>4. ASSUME t.attempt < MaxAttempts PROVE again \in Task /\ Bounded(again)
  <2>1. NextAttempt(t) \in 0 .. MaxAttempts
    BY <1>1, <1>4, BoundAssumption DEF NextAttempt, Task
  <2>2. again \in Task
    BY <1>1, <2>1, IdleType DEF Task, Steps
  <2>3. Bounded(again)
    BY <1>1, IdleType DEF Bounded, Idle, LookupSteps, ProfileSteps
  <2>. QED
    BY <2>2, <2>3
<1>5. \E n \in Task : Bounded(n) /\ task' = [task EXCEPT ![h] = n]
  <2>1. CASE Channel[t.order] = "credits"
    BY <2>1, IdleType DEF Pending
  <2>2. CASE Channel[t.order] # "credits" /\ retryable /\ t.attempt < MaxAttempts
    BY <2>2, <1>4 DEF Pending
  <2>3. CASE Channel[t.order] # "credits" /\ ~(retryable /\ t.attempt < MaxAttempts)
    BY <2>3, <1>3 DEF Pending
  <2>. QED
    BY <2>1, <2>2, <2>3
<1>6. task' \in [Handlers -> Task] /\ \A k \in Handlers : Bounded(task[k])'
  BY <1>5, TaskMoves
<1>. QED
  BY <1>2, <1>6 DEF TypeInv, TypeOK, Pending, history

\* A write the panel carries out keeps its profiles well-formed.
LEMMA PanelApplyType ==
    ASSUME TypeInv, NEW w \in PanelWrite, PanelApply(w)
    PROVE  panel' \in [Profiles -> Profile] /\ granted' \subseteq Orders \X Profiles
BY DEF TypeInv, TypeOK, PanelApply, PanelWrite, Profile

\* A mutating call keeps the types, whatever becomes of it.
LEMMA PanelCallType ==
    ASSUME TypeInv, NEW h \in Handlers, NEW w \in PanelWrite,
           NEW answered \in Task, NEW failed \in Task,
           Bounded(answered), Bounded(failed), PanelCall(h, w, answered, failed)
    PROVE  TypeInv'
<1>1. task' \in [Handlers -> Task] /\ \A k \in Handlers : Bounded(task[k])'
  BY TaskMoves DEF PanelCall
<1>2. panel' \in [Profiles -> Profile] /\ granted' \subseteq Orders \X Profiles
  BY PanelApplyType DEF PanelCall, TypeInv, TypeOK
<1>3. inflight' \subseteq PanelWrite
  BY DEF PanelCall, TypeInv, TypeOK
<1>. QED
  BY <1>1, <1>2, <1>3 DEF TypeInv, TypeOK, PanelCall, database

\* The steps of the purchase and of the claim keep the types.
LEMMA PurchaseType ==
    ASSUME TypeInv, NEW o \in Orders, Purchase(o)
    PROVE  TypeInv'
<1>1. order' \in [Orders -> OrderRow] /\ invoiced' \subseteq Orders
  <2>. order[o] \in OrderRow
    BY DEF TypeInv, TypeOK
  <2>1. CASE CreateInvoice(o)
    BY <2>1 DEF CreateInvoice, database, TypeInv, TypeOK
  <2>2. CASE CreateTransaction(o)
    BY <2>2 DEF CreateTransaction, TypeInv, TypeOK, OrderRow
  <2>3. CASE SendStarsInvoice(o)
    BY <2>3, UpdateType DEF SendStarsInvoice, TypeInv, TypeOK, OrderRow
  <2>4. CASE CleanupStale(o)
    BY <2>4 DEF CleanupStale, TypeInv, TypeOK, OrderRow
  <2>. QED
    BY <2>1, <2>2, <2>3, <2>4 DEF Purchase
<1>2. UNCHANGED <<panel, link, inflight, task, webhooks, crashes, granted, abandoned>>
  BY DEF Purchase, CreateInvoice, CreateTransaction, SendStarsInvoice, CleanupStale,
         database, history
<1>. QED
  BY <1>1, <1>2 DEF TypeInv, TypeOK

\* So does a webhook that starts a handler.
LEMMA WebhookType ==
    ASSUME TypeInv, NEW h \in Handlers, NEW o \in Orders,
           ReceiveWebhook(h, o) \/ PayWithCredits(h, o)
    PROVE  TypeInv'
<1>. order[o] \in OrderRow
  BY DEF TypeInv, TypeOK
<1>1. CASE ReceiveWebhook(h, o)
  <2>. DEFINE t == [Idle EXCEPT !.pc = "claim", !.order = o, !.target = order[o].target]
  <2>1. t \in Task /\ Bounded(t)
    <3>1. t \in Task
      BY IdleType DEF Task, Steps, OrderRow
    <3>2. Bounded(t)
      BY IdleType DEF Bounded, Idle, LookupSteps, ProfileSteps
    <3>. QED
      BY <3>1, <3>2
  <2>2. task' \in [Handlers -> Task] /\ \A k \in Handlers : Bounded(task[k])'
    <3>1. CASE task' = task
      BY <3>1 DEF TypeInv, TypeOK, Bounded
    <3>2. CASE task' = [task EXCEPT ![h] = t]
      BY <3>2, <2>1, TaskMoves
    <3>. QED
      BY <1>1, <3>1, <3>2 DEF ReceiveWebhook
  <2>. QED
    BY <1>1, <2>2 DEF ReceiveWebhook, TypeInv, TypeOK, database, history
<1>2. CASE PayWithCredits(h, o)
  <2>. DEFINE t == [Idle EXCEPT !.pc = "context", !.order = o,
                                !.target = PurchaseTarget[o], !.attempt = 1]
  <2>1. t \in Task /\ Bounded(t)
    BY IdleType, DataAssumption, FirstAttempt
       DEF Idle, Task, Bounded, Steps, LookupSteps, ProfileSteps
  <2>2. task' \in [Handlers -> Task] /\ \A k \in Handlers : Bounded(task[k])'
    BY <1>2, <2>1, TaskMoves DEF PayWithCredits
  <2>3. order' \in [Orders -> OrderRow]
    BY <1>2 DEF PayWithCredits, TypeInv, TypeOK, OrderRow
  <2>. QED
    BY <1>2, <2>2, <2>3 DEF PayWithCredits, TypeInv, TypeOK, history
<1>. QED
  BY <1>1, <1>2

\* So do the claim, the alert and the purchase with bonus points.
LEMMA ClaimType ==
    ASSUME TypeInv, NEW h \in Handlers, Claim(h) \/ SendAlert(h)
    PROVE  TypeInv'
<1>. DEFINE t == task[h]
<1>1. t \in Task /\ Bounded(t)
  BY DEF TypeInv, TypeOK
<1>2. CASE Claim(h)
  <2>1. t.order \in Orders
    BY <1>1, <1>2 DEF Claim, Bounded
  <2>2. [t EXCEPT !.pc = "alert"] \in Task /\ Bounded([t EXCEPT !.pc = "alert"])
    BY <1>1, <2>1 DEF Task, Bounded, Steps, LookupSteps, ProfileSteps
  <2>3. task' \in [Handlers -> Task] /\ \A k \in Handlers : Bounded(task[k])'
    <3>1. CASE Claimable(t.order)
      <4>1. task' = [task EXCEPT ![h] = [t EXCEPT !.pc = "alert"]]
        BY <1>2, <3>1 DEF Claim, TypeInv, TypeOK
      <4>. QED
        BY <4>1, <2>2, TaskMoves
    <3>2. CASE ~Claimable(t.order)
      BY <1>2, <3>2, IdleType, TaskMoves DEF Claim
    <3>. QED
      BY <3>1, <3>2
  <2>4. order' \in [Orders -> OrderRow]
    BY SMTT(30), <1>2, <2>1 DEF Claim, TypeInv, TypeOK, OrderRow
  <2>5. /\ UNCHANGED <<invoiced, panel, link, inflight, webhooks, crashes, granted>>
        /\ abandoned' \subseteq Orders
    BY <1>2 DEF Claim, TypeInv, TypeOK
  <2>. QED
    BY <2>3, <2>4, <2>5 DEF TypeInv, TypeOK
<1>3. CASE SendAlert(h)
  <2>. DEFINE go == [t EXCEPT !.pc = "context", !.attempt = 1]
  <2>1. t.order \in Orders
    BY <1>1, <1>3 DEF SendAlert, Bounded
  <2>2. go \in Task /\ Bounded(go)
    BY <1>1, <2>1, FirstAttempt DEF Task, Bounded, Steps, LookupSteps, ProfileSteps
  <2>3. task' = [task EXCEPT ![h] = go] \/ task' = [task EXCEPT ![h] = Idle]
    BY <1>3 DEF SendAlert, TypeInv, TypeOK
  <2>4. task' \in [Handlers -> Task] /\ \A k \in Handlers : Bounded(task[k])'
    BY <2>2, <2>3, IdleType, TaskMoves
  <2>. QED
    BY <1>3, <2>1, <2>4 DEF SendAlert, TypeInv, TypeOK, database
<1>. QED
  BY <1>2, <1>3

\* A panel call that fails with an error keeps the types.
LEMMA PanelErrorType ==
    ASSUME TypeInv, NEW h \in Handlers, task[h].pc # "idle", PanelError(h)
    PROVE  TypeInv'
BY PendingType DEF PanelError

\* Ordinals and names of the search.
LEMMA SearchType ==
    ASSUME TypeInv, NEW t \in Task, Bounded(t), t.pc \in LookupSteps
    PROVE  /\ t.order \in Orders /\ Buyer[t.order] \in Users
           /\ CandidateName(t) \in Profiles
           /\ t.start \in Nat /\ t.ordinal \in Nat
           /\ t.ordinal < t.start + MaxNames =>
                NextName(t) \in Task /\ Bounded(NextName(t))
<1>1. t.order \in Orders /\ Buyer[t.order] \in Users
  BY DataAssumption DEF Bounded, LookupSteps
<1>2. CandidateName(t) \in Profiles
  BY <1>1, DataAssumption DEF CandidateName, Task
<1>3. Cardinality(Profiles) \in Nat /\ MaxNames \in Nat
  BY FirstOrdinal, BoundAssumption
<1>4. t.start \in Nat /\ t.ordinal \in Nat
  BY <1>3 DEF Task, Ordinals
<1>5. ASSUME t.ordinal < t.start + MaxNames
      PROVE  NextName(t) \in Task /\ Bounded(NextName(t))
  <2>1. t.ordinal + 1 <= t.start + MaxNames /\ t.start <= Cardinality(Profiles)
    BY <1>3, <1>4, <1>5 DEF Bounded
  <2>2. t.ordinal + 1 \in Ordinals
    BY <1>3, <1>4, <2>1 DEF Ordinals
  <2>. QED
    BY <1>1, <2>1, <2>2 DEF NextName, Task, Bounded, Steps, LookupSteps, ProfileSteps
<1>. QED
  BY <1>1, <1>2, <1>4, <1>5

\* The steps that look up the profile of a renewal keep the types.
LEMMA FindTargetType ==
    ASSUME TypeInv, NEW h \in Handlers,
           ReadContext(h) \/ CheckTargetOwner(h) \/ FetchTarget(h)
    PROVE  TypeInv'
<1>. DEFINE t == task[h]
<1>1. t \in Task /\ Bounded(t)
  BY DEF TypeInv, TypeOK
<1>2. t.pc # "idle" /\ t.order \in Orders
  BY <1>1 DEF ReadContext, CheckTargetOwner, FetchTarget, Bounded
<1>3. CASE ReadContext(h)
  <2>. DEFINE first == Cardinality(Links(Buyer[t.order]))
              next == [t EXCEPT !.start = first, !.ordinal = first,
                                !.pc = IF t.target = NoProfile THEN "lookup" ELSE "owner"]
  <2>1. first \in Nat /\ first <= Cardinality(Profiles)
    BY FirstOrdinal
  <2>2. first \in Ordinals /\ first <= first + MaxNames
    BY <2>1, FirstOrdinal, BoundAssumption DEF Ordinals
  <2>3. next \in Task /\ Bounded(next)
    BY <1>1, <1>2, <2>1, <2>2 DEF Task, Bounded, Steps, LookupSteps, ProfileSteps
  <2>4. CASE t.order \in Undeliverable
    BY <1>2, <1>3, <2>4, PendingType DEF ReadContext
  <2>5. CASE t.order \notin Undeliverable
    BY <1>3, <2>3, <2>5, StepType DEF ReadContext
  <2>. QED
    BY <2>4, <2>5
<1>4. CASE CheckTargetOwner(h)
  <2>1. [t EXCEPT !.pc = "fetch"] \in Task /\ Bounded([t EXCEPT !.pc = "fetch"])
    BY <1>1, <1>4 DEF CheckTargetOwner, Task, Bounded, Steps, LookupSteps, ProfileSteps
  <2>. QED
    BY <1>2, <1>4, <2>1, StepType, PendingType DEF CheckTargetOwner
<1>5. CASE FetchTarget(h)
  <2>1. t.target \in Profiles
    BY <1>1, <1>5 DEF FetchTarget, Bounded
  <2>2. [t EXCEPT !.pc = "lookup"] \in Task /\ Bounded([t EXCEPT !.pc = "lookup"])
    BY <1>1, <1>2 DEF Task, Bounded, Steps, LookupSteps, ProfileSteps
  <2>3. Snapshot(t, t.target) \in Task /\ Bounded(Snapshot(t, t.target))
    BY <1>1, <1>2, <2>1, SnapshotType
  <2>. QED
    BY <1>2, <1>5, <2>2, <2>3, StepType, PanelErrorType DEF FetchTarget
<1>. QED
  BY <1>3, <1>4, <1>5

\* The steps that search for a free name and create a profile keep the types.
LEMMA FindNameType ==
    ASSUME TypeInv, NEW h \in Handlers,
           LookupName(h) \/ CreateProfile(h) \/ VerifyCreate(h) \/ ReadBackCreated(h)
    PROVE  TypeInv'
<1>. DEFINE t == task[h]
            p == CandidateName(t)
<1>1. t \in Task /\ Bounded(t) /\ t.pc \in LookupSteps
  BY DEF TypeInv, TypeOK, LookupName, CreateProfile, VerifyCreate, ReadBackCreated,
         LookupSteps
<1>2. t.pc # "idle" /\ t.order \in Orders /\ p \in Profiles
  BY <1>1, SearchType DEF LookupSteps
<1>3. t.pc # "lookup" => t.ordinal < t.start + MaxNames
  BY <1>1 DEF Bounded
<1>4. t.ordinal < t.start + MaxNames => NextName(t) \in Task /\ Bounded(NextName(t))
  BY <1>1, SearchType
<1>5. Snapshot(t, p) \in Task /\ Bounded(Snapshot(t, p))
  BY <1>1, <1>2, SnapshotType
<1>6. CASE LookupName(h)
  <2>1. CASE t.ordinal >= t.start + MaxNames
    BY <1>2, <1>6, <2>1, PendingType DEF LookupName
  <2>2. CASE ~(t.ordinal >= t.start + MaxNames)
    <3>. DEFINE create == [t EXCEPT !.pc = "create"]
    <3>1. t.ordinal < t.start + MaxNames
      BY <1>1, <2>2, SearchType, BoundAssumption
    <3>2. create \in Task /\ Bounded(create)
      BY <1>1, <3>1 DEF Task, Bounded, Steps, LookupSteps, ProfileSteps
    <3>3. PanelError(h) \/ Step(h, create) \/ Step(h, Snapshot(t, p)) \/ Step(h, NextName(t))
      BY <1>6, <2>2 DEF LookupName
    <3>. QED
      BY <1>2, <1>4, <1>5, <3>1, <3>2, <3>3, StepType, PanelErrorType
  <2>. QED
    BY <2>1, <2>2
<1>7. CASE CreateProfile(h)
  <2>1. CreateWrite(t) \in PanelWrite
    BY <1>2, MarkTypes, DataAssumption DEF CreateWrite, PanelWrite
  <2>2. ASSUME NEW s \in {"readBack", "verifyCreate"}
        PROVE  [t EXCEPT !.pc = s] \in Task /\ Bounded([t EXCEPT !.pc = s])
    BY <1>1, <1>2, <1>3, <1>7
       DEF CreateProfile, Task, Bounded, Steps, LookupSteps, ProfileSteps
  <2>. QED
    BY <1>7, <2>1, <2>2, PanelCallType DEF CreateProfile
<1>8. CASE VerifyCreate(h)
  BY <1>2, <1>3, <1>4, <1>5, <1>8, StepType, PanelErrorType DEF VerifyCreate
<1>9. CASE ReadBackCreated(h)
  <2>. DEFINE answer == [t EXCEPT !.profile = p, !.mark = Provisioning(t.order),
                            !.days = DaysOrdered[t.order], !.capped = FALSE,
                            !.created = TRUE, !.pc = "attach"]
              seen == [Snapshot(t, p) EXCEPT !.created = TRUE]
  <2>1. answer \in Task /\ Bounded(answer)
    BY <1>1, <1>2, MarkTypes, DataAssumption
       DEF Task, Bounded, Steps, LookupSteps, ProfileSteps
  <2>2. seen \in Task /\ Bounded(seen)
    <3>1. seen \in Task
      BY <1>2, <1>5 DEF Task
    <3>2. Bounded(seen)
      BY <1>2, <1>5 DEF Task, Bounded
    <3>. QED
      BY <3>1, <3>2
  <2>3. Step(h, answer) \/ Step(h, seen) \/ Step(h, NextName(t))
    BY <1>9 DEF ReadBackCreated
  <2>. QED
    BY <1>3, <1>4, <1>9, <2>1, <2>2, <2>3, StepType DEF ReadBackCreated
<1>. QED
  BY <1>6, <1>7, <1>8, <1>9

\* The request that extends a profile is well-formed.
LEMMA ApplyWriteType ==
    ASSUME NEW t \in Task, t.order \in Orders, t.profile \in Profiles
    PROVE  ApplyWrite(t) \in PanelWrite
<1>1. DaysOrdered[t.order] \in Nat /\ t.days \in Nat
  BY DataAssumption DEF Task
<1>2. NewTotal(t) \in Nat
  BY <1>1 DEF NewTotal
<1>. QED
  BY <1>2, MarkTypes DEF ApplyWrite, PanelWrite

\* The steps that link, extend and verify a profile keep the types.
LEMMA ExtendType ==
    ASSUME TypeInv, NEW h \in Handlers,
           AttachSubscription(h) \/ ApplyDays(h) \/ VerifyApply(h)
    PROVE  TypeInv'
<1>. DEFINE t == task[h]
            at(s) == [t EXCEPT !.pc = s]
<1>1. t \in Task /\ Bounded(t) /\ t.pc \in ProfileSteps
  BY DEF TypeInv, TypeOK, AttachSubscription, ApplyDays, VerifyApply, ProfileSteps
<1>2. t.pc # "idle" /\ t.order \in Orders /\ t.profile \in Profiles
  BY <1>1 DEF Bounded, ProfileSteps
<1>3. ASSUME NEW s \in LinkedSteps PROVE at(s) \in Task /\ Bounded(at(s))
  BY <1>1, <1>2 DEF Task, Bounded, Steps, LookupSteps, ProfileSteps, LinkedSteps
<1>4. CASE AttachSubscription(h)
  <2>1. CASE link[t.profile] \notin {NoUser, Buyer[t.order]}
    BY <1>2, <1>4, <2>1, PendingType DEF AttachSubscription
  <2>2. CASE link[t.profile] \in {NoUser, Buyer[t.order]}
    <3>1. order' \in [Orders -> OrderRow]
      BY <1>2, <1>4, <2>2, UpdateTargetType DEF AttachSubscription, TypeInv, TypeOK
    <3>2. link' \in [Profiles -> Users \cup {NoUser}]
      <4>1. link' = [link EXCEPT ![t.profile] = Buyer[t.order]]
        BY <1>4, <2>2 DEF AttachSubscription
      <4>2. link \in [Profiles -> Users \cup {NoUser}] /\ Buyer[t.order] \in Users
        BY <1>2, DataAssumption DEF TypeInv, TypeOK
      <4>. QED
        BY <4>1, <4>2
    <3>3. \E s \in LinkedSteps : task' = [task EXCEPT ![h] = at(s)]
      BY <1>4, <2>2 DEF AttachSubscription, TypeInv, TypeOK, LinkedSteps
    <3>4. task' \in [Handlers -> Task] /\ \A k \in Handlers : Bounded(task[k])'
      BY <1>3, <3>3, TaskMoves
    <3>. QED
      BY <1>4, <2>2, <3>1, <3>2, <3>4 DEF AttachSubscription, TypeInv, TypeOK, history
  <2>. QED
    BY <2>1, <2>2
<1>5. CASE ApplyDays(h)
  <2>1. at("finish") \in Task /\ Bounded(at("finish"))
    BY <1>3 DEF LinkedSteps
  <2>2. at("verifyApply") \in Task /\ Bounded(at("verifyApply"))
    BY <1>3 DEF LinkedSteps
  <2>. QED
    BY <1>1, <1>2, <1>5, <2>1, <2>2, ApplyWriteType, PanelCallType DEF ApplyDays
<1>6. CASE VerifyApply(h)
  <2>1. at("finish") \in Task /\ Bounded(at("finish"))
    BY <1>3 DEF LinkedSteps
  <2>. QED
    BY <1>2, <1>6, <2>1, StepType, PanelErrorType DEF VerifyApply
<1>. QED
  BY <1>4, <1>5, <1>6

\* The last steps of a handler, and its death, keep the types.
LEMMA EndType ==
    ASSUME TypeInv, NEW h \in Handlers, FinishDelivery(h) \/ GiveUp(h) \/ Crash(h)
    PROVE  TypeInv'
<1>1. task[h] \in Task /\ Bounded(task[h]) /\ task[h].order \in Orders
  BY DEF TypeInv, TypeOK, Bounded, FinishDelivery, GiveUp, Crash
<1>2. task' = [task EXCEPT ![h] = Idle]
  BY DEF FinishDelivery, GiveUp, Crash
<1>3. task' \in [Handlers -> Task] /\ \A k \in Handlers : Bounded(task[k])'
  BY <1>2, IdleType, TaskMoves
<1>4. order[task[h].order].delivered \in {0, 1}
  BY <1>1 DEF TypeInv, TypeOK, OrderRow
<1>5. order' \in [Orders -> OrderRow]
  BY <1>1, <1>4, UpdateType DEF FinishDelivery, GiveUp, Crash, database, TypeInv, TypeOK
<1>. QED
  BY <1>1, <1>3, <1>5
     DEF FinishDelivery, GiveUp, Crash, TypeInv, TypeOK, database, history

\* A request that lands late keeps the types.
LEMMA LandType ==
    ASSUME TypeInv, NEW w \in inflight, Land(w)
    PROVE  TypeInv'
<1>1. w \in PanelWrite
  BY DEF TypeInv, TypeOK
<1>2. panel' \in [Profiles -> Profile] /\ granted' \subseteq Orders \X Profiles
  BY <1>1, PanelApplyType DEF Land, TypeInv, TypeOK
<1>. QED
  BY <1>2 DEF Land, TypeInv, TypeOK, database, Bounded

\* Every step keeps the types.
LEMMA TypeStep == TypeInv /\ [Next]_vars => TypeInv'
<1>. SUFFICES ASSUME TypeInv, [Next]_vars PROVE TypeInv'
  OBVIOUS
<1>1. ASSUME NEW o \in Orders, Purchase(o) PROVE TypeInv'
  BY <1>1, PurchaseType
<1>2. ASSUME NEW h \in Handlers, NEW o \in Orders, ReceiveWebhook(h, o) \/ PayWithCredits(h, o)
      PROVE  TypeInv'
  BY <1>2, WebhookType
<1>3. ASSUME NEW h \in Handlers, Proceed(h) PROVE TypeInv'
  BY <1>3, ClaimType, FindTargetType, FindNameType, ExtendType, EndType DEF Proceed
<1>4. ASSUME NEW h \in Handlers, Crash(h) PROVE TypeInv'
  BY <1>4, EndType
<1>5. ASSUME NEW w \in inflight, Land(w) PROVE TypeInv'
  BY <1>5, LandType
<1>6. CASE UNCHANGED vars
  BY <1>6 DEF vars, TypeInv, TypeOK, Bounded
<1>. QED
  BY <1>1, <1>2, <1>3, <1>4, <1>5, <1>6 DEF Next

\* Every variable keeps its type in every reachable state; in particular the
\* name search stays within its numbers, however the links of an account change
\* while handlers are at work.
THEOREM TypeCorrect == Spec => []TypeOK
<1>1. Spec => []TypeInv
  BY TypeInit, TypeStep, PTL DEF Spec
<1>. QED
  BY <1>1, PTL DEF TypeInv

-----------------------------------------------------------------------------
(* Consistency: markers, links, targets and grants *)

\* Before the first order nothing is granted, marked or on its way.
LEMMA ConsistentInit == Init => Consistent
<1>. SUFFICES ASSUME Init PROVE Consistent
  OBVIOUS
<1>1. \A o \in Orders : RowOK(o)
  BY DEF Init, RowOK, TargetOK
<1>2. \A h \in Handlers : TaskOK(task[h])
  BY DEF Init, Idle, TaskOK
<1>3. \A p \in Profiles : PanelOK(p)
  BY DEF Init, PanelOK, NoMark
<1>4. /\ \A w \in inflight : InflightOK(w)
      /\ \A o \in Orders, p \in Profiles : GrantOK(o, p)
      /\ DeliveredToTarget
  BY DEF Init, GrantOK, DeliveredToTarget
<1>. QED
  BY <1>1, <1>2, <1>3, <1>4 DEF Consistent

\* What no step ever takes back, for a handler that relies on it.
Monotone ==
    /\ granted \subseteq granted'
    /\ \A p \in Profiles : link[p] \in Users => link'[p] = link[p]
    /\ \A o \in Orders :
         /\ order[o].status \in {"pending", "confirmed"} =>
                order'[o].status \in {"pending", "confirmed"}
         /\ ~Renewal(o) /\ Settled(o) => Settled(o)'

\* What a handler that does not move knows survives a step of another one: markers,
\* grants and links only grow, and a settled row stays settled.
LEMMA TaskKept ==
    ASSUME TypeInv, Monotone, NEW k \in Handlers, TaskOK(task[k]), task'[k] = task[k]
    PROVE  TaskOK(task[k])'
<1>. SUFFICES ASSUME task[k].pc # "idle" PROVE TaskOK(task[k])'
  BY DEF TaskOK
<1>. DEFINE o == task[k].order
<1>1. o \in Orders /\ Buyer[o] \in Users
  BY DataAssumption DEF TypeInv, Bounded
<1>2. TargetOK(o, task[k].target)'
  BY <1>1 DEF TaskOK, TargetOK, Monotone, Renewal
<1>3. HeldRow(task[k])'
  BY <1>1 DEF TaskOK, HeldRow, Monotone
<1>4. Searching(task[k])'
  BY DEF TaskOK, Searching, Monotone, Renewal, CandidateName
<1>5. Found(task[k])'
  <2>. SUFFICES ASSUME task[k].pc \in ProfileSteps PROVE Found(task[k])'
    BY DEF Found
  <2>. DEFINE p == task[k].profile
  <2>1. /\ p \in Profiles /\ Own(o, p)
        /\ Renewal(o) => p = PurchaseTarget[o]
        /\ AlreadyApplied(task[k]) => <<o, p>> \in granted
        /\ task[k].pc \in LinkedSteps => link[p] = Buyer[o]
        /\ task[k].pc \in LinkedSteps /\ ~Renewal(o) => Settled(o)
        /\ task[k].pc = "finish" => <<o, p>> \in granted
    BY DEF TaskOK, Found
  <2>2. Own(o, p)'
    BY <2>1 DEF Own, Monotone, Renewal
  <2>3. Settled(o) /\ ~Renewal(o) => Settled(o)'
    BY <1>1 DEF Monotone
  <2>4. link[p] = Buyer[o] => link'[p] = Buyer[o]
    BY <1>1, <2>1 DEF Monotone
  <2>5. \A x : x \in granted => x \in granted'
    BY DEF Monotone
  <2>6. Renewal(o)' = Renewal(o) /\ AlreadyApplied(task[k])' = AlreadyApplied(task[k])
    BY DEF Renewal, AlreadyApplied, Provisioning, Delivery
  <2>. QED
    BY <2>1, <2>2, <2>3, <2>4, <2>5, <2>6 DEF Found
<1>. QED
  BY <1>2, <1>3, <1>4, <1>5 DEF TaskOK

\* A request on its way stays within its sender's reach.
LEMMA InflightKept ==
    ASSUME TypeInv, Monotone, NEW w \in PanelWrite, InflightOK(w)
    PROVE  InflightOK(w)'
<1>1. w.profile \in Profiles /\ Buyer[w.order] \in Users
  BY DataAssumption DEF PanelWrite
<1>2. Own(w.order, w.profile) => Own(w.order, w.profile)'
  BY DEF Own, Monotone, Renewal
<1>. QED
  BY <1>1, <1>2 DEF InflightOK, Monotone, Provisioning, Delivery

\* Steps that leave the panel and the links alone.
LEMMA QuietStep ==
    ASSUME TypeInv, Consistent, UNCHANGED <<panel, link, inflight, granted>>,
           \A o \in Orders :
              /\ order'[o].target = order[o].target
              /\ order'[o].delivered = 1 => order[o].delivered = 1 \/ Settled(o)
              /\ order[o].status \in {"pending", "confirmed"} =>
                     order'[o].status \in {"pending", "confirmed"},
           \A k \in Handlers : task'[k] = task[k] \/ TaskOK(task[k])'
    PROVE  Consistent'
<1>1. Monotone
  BY DEF Monotone, Settled
<1>2. \A o \in Orders : RowOK(o)'
  BY DEF Consistent, RowOK, TargetOK, Renewal
<1>3. \A k \in Handlers : TaskOK(task[k])'
  BY <1>1, TaskKept DEF Consistent
<1>4. \A w \in inflight' : InflightOK(w)'
  BY <1>1, InflightKept DEF Consistent, TypeInv, TypeOK
<1>5. \A p \in Profiles : PanelOK(p)'
  BY DEF Consistent, PanelOK
<1>6. \A o \in Orders, p \in Profiles : GrantOK(o, p)'
  BY DEF Consistent, GrantOK
<1>7. DeliveredToTarget'
  BY DEF Consistent, DeliveredToTarget, Settled
<1>. QED
  BY <1>2, <1>3, <1>4, <1>5, <1>6, <1>7 DEF Consistent

\* What the panel holds after a write, or after none.
LEMMA WriteOK ==
    ASSUME TypeInv, Consistent, NEW w \in PanelWrite, InflightOK(w),
           Accepted(w), PanelApply(w), UNCHANGED link
    PROVE  /\ \A p \in Profiles : PanelOK(p)'
           /\ \A o \in Orders, p \in Profiles : GrantOK(o, p)'
<1>. DEFINE q == w.profile
<1>1. /\ q \in Profiles /\ w.order \in Orders /\ w.create \in BOOLEAN
      /\ Buyer[w.order] \in Users /\ NoUser \notin Users
  BY DataAssumption DEF PanelWrite
<1>2. /\ \A p \in Profiles : panel'[p] = IF p = q
                                       THEN [exists |-> TRUE, days |-> w.days,
                                             capped |-> w.capped, mark |-> w.mark]
                                       ELSE panel[p]
      /\ granted' = granted \cup {<<w.order, q>>}
  BY DEF PanelApply, TypeInv, TypeOK
<1>3. PanelOK(q) /\ \A o \in Orders : GrantOK(o, q)
  BY <1>1 DEF Consistent
<1>4. w.mark.order = w.order
  BY DEF InflightOK, Provisioning, Delivery
<1>5. ASSUME NEW p \in Profiles PROVE PanelOK(p)'
  <2>1. PanelOK(p)
    BY DEF Consistent
  <2>2. CASE p # q
    BY <1>2, <2>1, <2>2 DEF PanelOK
  <2>3. CASE p = q
    <3>1. InitialPanel[q].exists \/ \E x \in DOMAIN Candidate : q = Candidate[x]
      BY <1>1, <1>3 DEF InflightOK, Accepted, PanelOK
    <3>. QED
      BY <1>2, <1>4, <2>3, <3>1 DEF PanelOK
  <2>. QED
    BY <2>2, <2>3
<1>6. ASSUME NEW o \in Orders, NEW p \in Profiles PROVE GrantOK(o, p)'
  <2>1. GrantOK(o, p)
    BY DEF Consistent
  <2>2. CASE p # q
    BY <1>2, <2>1, <2>2 DEF GrantOK
  <2>3. CASE p = q /\ w.create
    <3>1. ~panel[q].exists
      BY <2>3 DEF Accepted
    <3>2. \A o2 \in Orders : <<o2, q>> \notin granted
      BY <1>3, <3>1 DEF GrantOK
    <3>3. ~InitialPanel[q].exists /\ link[q] = NoUser
      BY <1>1, <1>3, <2>3, <3>1, InitialAssumption DEF InflightOK, PanelOK
    <3>. QED
      BY <1>1, <1>2, <2>3, <3>2, <3>3 DEF GrantOK
  <2>4. CASE p = q /\ ~w.create
    <3>1. panel'[q].exists
      BY <1>1, <1>2
    <3>2. Own(w.order, q) /\ link[q] = Buyer[w.order] /\ link[q] # NoUser
      BY <1>1, <2>4 DEF InflightOK
    <3>3. InitialPanel[q].exists => q = PurchaseTarget[w.order]
      BY <1>1, <1>3, <3>2 DEF Own, GrantOK
    <3>4. CASE o = w.order
      BY <2>4, <3>1, <3>2, <3>3, <3>4 DEF GrantOK
    <3>5. CASE o # w.order
      BY <1>2, <2>1, <2>4, <3>1, <3>2, <3>5 DEF GrantOK
    <3>. QED
      BY <3>4, <3>5
  <2>. QED
    BY <1>1, <2>2, <2>3, <2>4
<1>. QED
  BY <1>5, <1>6

\* Steps that send a request to the panel, or let a late one land.
LEMMA WriteStep ==
    ASSUME TypeInv, TypeInv', Consistent, NEW w \in PanelWrite, InflightOK(w),
           UNCHANGED <<order, link>>,
           \/ Accepted(w) /\ PanelApply(w)
           \/ UNCHANGED <<panel, granted>>,
           inflight' \subseteq inflight \cup {w},
           \A k \in Handlers : task'[k] = task[k] \/ TaskOK(task[k])'
    PROVE  Consistent'
<1>1. granted \subseteq granted'
  BY DEF PanelApply
<1>2. Monotone
  BY <1>1 DEF Monotone, Settled
<1>3. \A o \in Orders : RowOK(o)'
  BY <1>1 DEF Consistent, RowOK, TargetOK, Renewal
<1>4. \A k \in Handlers : TaskOK(task[k])'
  BY <1>2, TaskKept DEF Consistent
<1>5. \A v \in inflight' : InflightOK(v)'
  BY <1>2, InflightKept DEF Consistent, TypeInv, TypeOK
<1>6. /\ \A p \in Profiles : PanelOK(p)'
      /\ \A o \in Orders, p \in Profiles : GrantOK(o, p)'
  <2>1. CASE Accepted(w) /\ PanelApply(w)
    BY <2>1, WriteOK
  <2>2. CASE UNCHANGED <<panel, granted>>
    BY <2>2 DEF Consistent, PanelOK, GrantOK
  <2>. QED
    BY <2>1, <2>2
<1>7. DeliveredToTarget'
  BY <1>1 DEF Consistent, DeliveredToTarget
<1>. QED
  BY <1>3, <1>4, <1>5, <1>6, <1>7 DEF Consistent

\* The step that links the profile and writes it back to the row.
LEMMA AttachConsistent ==
    ASSUME TypeInv, Consistent, NEW h \in Handlers, AttachSubscription(h),
           link[task[h].profile] \in {NoUser, Buyer[task[h].order]}
    PROVE  Consistent'
<1>. DEFINE t == task[h]
            o == t.order
            q == t.profile
<1>1. /\ o \in Orders /\ q \in Profiles /\ t.pc = "attach"
      /\ Buyer[o] \in Users /\ NoUser \notin Users
  BY DataAssumption DEF AttachSubscription, TypeInv, Bounded, ProfileSteps
<1>2. /\ TargetOK(o, t.target) /\ order[o].status \in {"pending", "confirmed"}
      /\ Own(o, q)
      /\ Renewal(o) => q = PurchaseTarget[o]
      /\ AlreadyApplied(t) => <<o, q>> \in granted
  BY <1>1 DEF Consistent, TaskOK, HeldRow, Found, ProfileSteps
<1>3. /\ link' = [link EXCEPT ![q] = Buyer[o]]
      /\ order' = [order EXCEPT ![o].target = q]
      /\ UNCHANGED <<panel, inflight, granted>>
      /\ task' = [task EXCEPT ![h] =
                    [t EXCEPT !.pc = IF AlreadyApplied(t) THEN "finish" ELSE "apply"]]
  BY <1>2 DEF AttachSubscription, UpdateTarget, history, TypeInv, TypeOK
<1>4. /\ \A p \in Profiles : link'[p] = IF p = q THEN Buyer[o] ELSE link[p]
      /\ \A o2 \in Orders : order'[o2].target = IF o2 = o THEN q ELSE order[o2].target
      /\ \A o2 \in Orders : /\ order'[o2].status = order[o2].status
                           /\ order'[o2].delivered = order[o2].delivered
  BY <1>1, <1>3 DEF TypeInv, TypeOK, OrderRow
<1>5. panel[q].exists
  BY ZenonT(30), <1>1, <1>2 DEF Consistent, Own, Renewal, PanelOK, GrantOK
<1>6. ~Renewal(o) => <<o, q>> \in granted
  BY <1>2 DEF Own
<1>7. Monotone
  BY <1>1, <1>3, <1>4, <1>6 DEF Monotone, Settled
<1>8. \A o2 \in Orders : RowOK(o2)'
  BY <1>2, <1>3, <1>4, <1>6 DEF Consistent, RowOK, TargetOK, Renewal
<1>9. TaskOK(task[h])'
  <2>1. /\ task'[h].order = o /\ task'[h].profile = q /\ task'[h].target = t.target
        /\ task'[h].created = t.created /\ task'[h].mark = t.mark
        /\ task'[h].pc = IF AlreadyApplied(t) THEN "finish" ELSE "apply"
    BY <1>3 DEF TypeInv, TypeOK, Task
  <2>2. TargetOK(task[h].order, task[h].target)' /\ HeldRow(task[h])'
    BY <1>1, <1>2, <1>3, <1>4, <2>1 DEF TargetOK, HeldRow, Renewal
  <2>3. Found(task[h])'
    BY <1>1, <1>2, <1>3, <1>4, <1>6, <2>1
       DEF Found, ProfileSteps, LinkedSteps, Own, Renewal, Settled, AlreadyApplied,
           Provisioning, Delivery
  <2>4. Searching(task[h])' /\ task'[h].pc \in ProfileSteps
    BY <2>1 DEF Searching, LookupSteps, ProfileSteps
  <2>. QED
    BY <2>2, <2>3, <2>4 DEF TaskOK
<1>10. \A k \in Handlers : TaskOK(task[k])'
  <2>1. \A k \in Handlers : k = h \/ task'[k] = task[k]
    BY <1>3 DEF TypeInv, TypeOK
  <2>. QED
    BY <1>7, <1>9, <2>1, TaskKept DEF Consistent
<1>11. \A w \in inflight' : InflightOK(w)'
  BY <1>3, <1>7, InflightKept DEF Consistent, TypeInv, TypeOK
<1>12. \A p \in Profiles : PanelOK(p)'
  BY <1>3, <1>4, <1>5 DEF Consistent, PanelOK
<1>13. ASSUME NEW o2 \in Orders, NEW p \in Profiles PROVE GrantOK(o2, p)'
  <2>1. GrantOK(o2, p) /\ GrantOK(o2, q)
    BY <1>1, <1>13 DEF Consistent
  <2>2. CASE p # q
    BY <1>3, <1>4, <2>1, <2>2 DEF GrantOK
  <2>3. CASE p = q /\ link[q] = Buyer[o]
    BY <1>1, <1>3, <1>4, <2>1, <2>3 DEF GrantOK
  <2>4. CASE p = q /\ link[q] = NoUser
    <3>. SUFFICES ASSUME <<o2, q>> \in granted PROVE GrantOK(o2, p)'
      BY <1>3, <2>4 DEF GrantOK
    <3>1. ~InitialPanel[q].exists
      BY <1>1, <1>13, <2>1, <2>4, DataAssumption DEF GrantOK
    <3>2. <<o, q>> \in granted
      BY <1>2, <3>1 DEF Own, Renewal
    <3>3. Buyer[o2] = Buyer[o]
      BY <1>1, <2>1, <2>4, <3>2 DEF GrantOK
    <3>. QED
      BY <1>1, <1>3, <1>4, <1>5, <2>4, <3>1, <3>3 DEF GrantOK
  <2>. QED
    BY <2>2, <2>3, <2>4, DataAssumption
<1>14. DeliveredToTarget'
  <2>1. ASSUME Renewal(o) PROVE order[o].target = q
    BY <1>1, <1>2, <2>1 DEF Consistent, RowOK, TargetOK
  <2>. QED
    BY <1>3, <1>4, <1>6, <2>1 DEF Consistent, DeliveredToTarget
<1>. QED
  BY <1>8, <1>10, <1>11, <1>12, <1>13, <1>14 DEF Consistent

\* Steps before the claim, and those that only end a handler.
LEMMA PurchaseConsistent ==
    ASSUME TypeInv, Consistent, NEW o \in Orders, Purchase(o)
    PROVE  Consistent'
<1>1. UNCHANGED <<panel, link, inflight, task, granted>>
  BY DEF Purchase, CreateInvoice, CreateTransaction, SendStarsInvoice, CleanupStale,
         database, history
<1>2. \A x \in Orders :
        /\ order'[x].target = order[x].target
        /\ order'[x].delivered = order[x].delivered
        /\ order[x].status \in {"pending", "confirmed"} => order'[x].status = order[x].status
  BY DEF Purchase, CreateInvoice, CreateTransaction, SendStarsInvoice, CleanupStale,
         Update, database, TypeInv, TypeOK, OrderRow
<1>. QED
  BY <1>1, <1>2, QuietStep

\* A webhook that starts a handler keeps the system consistent.
LEMMA WebhookConsistent ==
    ASSUME TypeInv, Consistent, NEW h \in Handlers, NEW o \in Orders,
           ReceiveWebhook(h, o) \/ PayWithCredits(h, o)
    PROVE  Consistent'
<1>1. UNCHANGED <<panel, link, inflight, granted>>
  BY DEF ReceiveWebhook, PayWithCredits, database, history
<1>2. \A x \in Orders :
        /\ order'[x].target = order[x].target
        /\ order'[x].delivered = order[x].delivered
        /\ order[x].status \in {"pending", "confirmed"} => order'[x].status = order[x].status
  BY DEF ReceiveWebhook, PayWithCredits, database, TypeInv, TypeOK, OrderRow
<1>3. \A k \in Handlers : task'[k] = task[k] \/ TaskOK(task[k])'
  <2>1. CASE UNCHANGED task
    BY <2>1
  <2>2. CASE /\ UNCHANGED order
             /\ task' = [task EXCEPT ![h] = [Idle EXCEPT !.pc = "claim", !.order = o,
                                                      !.target = order[o].target]]
    <3>1. TargetOK(o, order[o].target)
      BY DEF Consistent, RowOK
    <3>. QED
      BY <1>1, <2>2, <3>1
         DEF Idle, TypeInv, TypeOK, TaskOK, TargetOK, Renewal, HeldRow, Searching, Found,
             LookupSteps, ProfileSteps
  <2>3. CASE PayWithCredits(h, o)
    BY <2>3 DEF PayWithCredits, Idle, TypeInv, TypeOK, OrderRow, TaskOK, TargetOK, Renewal,
                HeldRow, Searching, Found, LookupSteps, ProfileSteps
  <2>. QED
    BY <2>1, <2>2, <2>3 DEF ReceiveWebhook, database
<1>. QED
  BY <1>1, <1>2, <1>3, QuietStep

\* So do the claim, the alert and the purchase with bonus points.
LEMMA ClaimConsistent ==
    ASSUME TypeInv, Consistent, NEW h \in Handlers, Claim(h) \/ SendAlert(h)
    PROVE  Consistent'
<1>. DEFINE o == task[h].order
<1>1. /\ UNCHANGED <<panel, link, inflight, granted>>
      /\ o \in Orders /\ TaskOK(task[h])
  BY DEF Claim, SendAlert, database, history, TypeInv, Bounded, Consistent
<1>2. \A x \in Orders :
        /\ order'[x].target = order[x].target
        /\ order'[x].delivered = order[x].delivered
        /\ order'[x].status \in {order[x].status, "confirmed"}
  BY <1>1 DEF Claim, SendAlert, database, TypeInv, TypeOK, OrderRow
<1>3. \A k \in Handlers : task'[k] = task[k] \/ TaskOK(task[k])'
  <2>1. CASE task' = [task EXCEPT ![h] = Idle]
    BY <2>1 DEF Idle, TypeInv, TypeOK, TaskOK
  <2>2. CASE /\ task' = [task EXCEPT ![h].pc = "alert"]
             /\ order' = [order EXCEPT ![o].status = "confirmed"]
             /\ task[h].pc = "claim"
    BY <1>1, <2>2 DEF TypeInv, TypeOK, OrderRow, Task, TaskOK, TargetOK, Renewal, HeldRow,
                      Searching, Found, LookupSteps, ProfileSteps
  <2>3. CASE /\ task' = [task EXCEPT ![h].pc = "context", ![h].attempt = 1]
             /\ order' = order
             /\ task[h].pc = "alert"
    BY <1>1, <2>3 DEF TypeInv, TypeOK, OrderRow, Task, TaskOK, TargetOK, Renewal, HeldRow,
                      Searching, Found, LookupSteps, ProfileSteps
  <2>. QED
    BY <2>1, <2>2, <2>3 DEF Claim, SendAlert, database
<1>. QED
  BY <1>1, <1>2, <1>3, QuietStep

\* So does handing the row back as "pending".
LEMMA PendingConsistent ==
    ASSUME TypeInv, Consistent, NEW h \in Handlers, Holding(h),
           NEW retryable \in BOOLEAN, Pending(h, retryable)
    PROVE  Consistent'
<1>. DEFINE t == task[h]
            o == t.order
<1>1. /\ UNCHANGED <<panel, link, inflight, granted>>
      /\ o \in Orders /\ TargetOK(o, t.target)
      /\ order[o].status \in {"pending", "confirmed"}
  BY DEF Pending, Holding, history, TypeInv, Bounded, Consistent, TaskOK, HeldRow
<1>2. order' = [order EXCEPT ![o].status = "pending", ![o].delivered = 0]
  BY <1>1 DEF Pending, Update
<1>3. \A x \in Orders :
        /\ order'[x].target = order[x].target
        /\ order'[x].delivered \in {order[x].delivered, 0}
        /\ order'[x].status \in {order[x].status, "pending"}
  BY <1>1, <1>2 DEF TypeInv, TypeOK, OrderRow
<1>4. \E n : /\ task' = [task EXCEPT ![h] = n]
            /\ \/ n = Idle
               \/ /\ n.pc \in {"context", "giveUp"} /\ n.order = o
                  /\ n.target = t.target /\ ~n.created
  <2>. DEFINE again == [Idle EXCEPT !.pc = "context", !.order = o, !.target = t.target,
                                    !.attempt = NextAttempt(t)]
              last == [Idle EXCEPT !.pc = "giveUp", !.order = o, !.target = t.target]
  <2>1. \E n \in {Idle, again, last} : task' = [task EXCEPT ![h] = n]
    <3>1. CASE Channel[o] = "credits"
      BY <3>1 DEF Pending
    <3>2. CASE Channel[o] # "credits" /\ retryable /\ t.attempt < MaxAttempts
      BY <3>2 DEF Pending
    <3>3. CASE Channel[o] # "credits" /\ ~(retryable /\ t.attempt < MaxAttempts)
      BY <3>3 DEF Pending
    <3>. QED
      BY <3>1, <3>2, <3>3
  <2>. QED
    BY <2>1 DEF Idle
<1>5. \A k \in Handlers : task'[k] = task[k] \/ TaskOK(task[k])'
  <2>. PICK n : /\ task' = [task EXCEPT ![h] = n]
                /\ \/ n = Idle
                   \/ /\ n.pc \in {"context", "giveUp"} /\ n.order = o
                      /\ n.target = t.target /\ ~n.created
    BY <1>4
  <2>1. CASE n = Idle
    BY <2>1 DEF Idle, TypeInv, TypeOK, TaskOK
  <2>2. CASE /\ n.pc \in {"context", "giveUp"} /\ n.order = o
             /\ n.target = t.target /\ ~n.created
    <3>1. order'[o].status = "pending"
      BY <1>1, <1>2 DEF TypeInv, TypeOK, OrderRow
    <3>2. task'[h] = n
      BY DEF TypeInv, TypeOK
    <3>3. TaskOK(task[h])'
      BY <1>1, <2>2, <3>1, <3>2
         DEF TaskOK, TargetOK, Renewal, HeldRow, Searching, Found, LookupSteps, ProfileSteps
    <3>. QED
      BY <3>3 DEF TypeInv, TypeOK
  <2>. QED
    BY <2>1, <2>2
<1>. QED
  BY <1>1, <1>3, <1>5, QuietStep

\* So do the last steps of a handler and its death: "finish" is only reached
\* with the days granted to the profile the row names.
LEMMA EndConsistent ==
    ASSUME TypeInv, Consistent, NEW h \in Handlers,
           FinishDelivery(h) \/ GiveUp(h) \/ Crash(h)
    PROVE  Consistent'
<1>. DEFINE o == task[h].order
<1>1. /\ UNCHANGED <<panel, link, inflight, granted>>
      /\ task' = [task EXCEPT ![h] = Idle]
      /\ o \in Orders /\ TaskOK(task[h])
  BY DEF FinishDelivery, GiveUp, Crash, database, history, TypeInv, Bounded, Consistent
<1>2. FinishDelivery(h) => Settled(o)
  <2>. SUFFICES ASSUME FinishDelivery(h) PROVE Settled(o)
    OBVIOUS
  <2>1. /\ <<o, task[h].profile>> \in granted
        /\ Renewal(o) => task[h].profile = PurchaseTarget[o]
        /\ ~Renewal(o) => Settled(o)
    BY <1>1 DEF FinishDelivery, TaskOK, Found, ProfileSteps, LinkedSteps
  <2>2. Renewal(o) => order[o].target = PurchaseTarget[o]
    BY <1>1 DEF Consistent, RowOK, TargetOK
  <2>. QED
    BY <2>1, <2>2 DEF Settled
<1>3. \A x \in Orders :
        /\ order'[x].target = order[x].target
        /\ order'[x].delivered = 1 => order[x].delivered = 1 \/ Settled(x)
        /\ order[x].status \in {"pending", "confirmed"} =>
               order'[x].status \in {"pending", "confirmed"}
  BY <1>1, <1>2 DEF FinishDelivery, GiveUp, Crash, Update, database, TypeInv, TypeOK, OrderRow
<1>4. \A k \in Handlers : task'[k] = task[k] \/ TaskOK(task[k])'
  BY <1>1 DEF Idle, TypeInv, TypeOK, TaskOK
<1>. QED
  BY <1>1, <1>3, <1>4, QuietStep

\* Steps that only move a handler that holds its order.
LEMMA MoveConsistent ==
    ASSUME TypeInv, Consistent, NEW h \in Handlers, Holding(h), NEW n, Step(h, n),
           n.order = task[h].order, n.target = task[h].target,
           n.created => n.pc \in ProfileSteps, Searching(n), Found(n)
    PROVE  Consistent'
<1>. DEFINE o == task[h].order
<1>1. /\ UNCHANGED <<order, panel, link, inflight, granted>>
      /\ \A k \in Handlers : task'[k] = IF k = h THEN n ELSE task[k]
  BY DEF Step, database, history, TypeInv, TypeOK
<1>2. TargetOK(o, n.target) /\ order[o].status \in {"pending", "confirmed"}
  BY DEF Holding, Consistent, TaskOK, HeldRow
<1>3. TaskOK(n)
  BY <1>2 DEF TaskOK, HeldRow
<1>4. TaskOK(task[h])'
  BY <1>1, <1>3
     DEF TaskOK, TargetOK, Renewal, HeldRow, Searching, CandidateName, Found, Own, Settled,
         AlreadyApplied, Provisioning, Delivery
<1>. QED
  BY <1>1, <1>4, QuietStep

\* A profile on the panel that carries the order's marker, or that the handler
\* was sent to, is one it may go on with.
LEMMA SnapshotFound ==
    ASSUME TypeInv, Consistent, NEW t \in Task, t.order \in Orders, ~t.created,
           NEW p \in Profiles, Own(t.order, p), Renewal(t.order) => p = PurchaseTarget[t.order]
    PROVE  /\ Snapshot(t, p).order = t.order /\ Snapshot(t, p).target = t.target
           /\ ~Snapshot(t, p).created
           /\ Searching(Snapshot(t, p)) /\ Found(Snapshot(t, p))
<1>. DEFINE n == Snapshot(t, p)
<1>1. /\ n.order = t.order /\ n.target = t.target /\ n.created = t.created
      /\ n.profile = p /\ n.mark = panel[p].mark /\ n.pc = "attach"
  BY DEF Snapshot, Task
<1>2. AlreadyApplied(n) => <<t.order, p>> \in granted
  BY <1>1 DEF AlreadyApplied, Consistent, PanelOK, Provisioning, Delivery
<1>3. Found(n)
  BY <1>1, <1>2 DEF Found, LinkedSteps
<1>. QED
  BY <1>1, <1>3 DEF Searching, LookupSteps

\* Looking up the profile of a renewal keeps the system consistent.
LEMMA FindTargetConsistent ==
    ASSUME TypeInv, Consistent, NEW h \in Handlers,
           ReadContext(h) \/ CheckTargetOwner(h) \/ FetchTarget(h)
    PROVE  Consistent'
<1>. DEFINE t == task[h]
            o == t.order
<1>1. /\ t \in Task /\ o \in Orders /\ Holding(h) /\ ~t.created
      /\ TargetOK(o, t.target)
  BY DEF TypeInv, TypeOK, Bounded, Holding, Consistent, TaskOK, ProfileSteps,
         ReadContext, CheckTargetOwner, FetchTarget
<1>2. CASE ReadContext(h)
  <2>1. CASE o \in Undeliverable
    BY <1>1, <1>2, <2>1, PendingConsistent DEF ReadContext
  <2>2. CASE o \notin Undeliverable
    <3>. DEFINE first == Cardinality(Links(Buyer[o]))
                n == [t EXCEPT !.start = first, !.ordinal = first,
                               !.pc = IF t.target = NoProfile THEN "lookup" ELSE "owner"]
    <3>1. Step(h, n)
      BY <1>2, <2>2 DEF ReadContext
    <3>2. /\ n.order = o /\ n.target = t.target /\ ~n.created
          /\ n.pc = IF t.target = NoProfile THEN "lookup" ELSE "owner"
      BY <1>1 DEF Task
    <3>3. t.target = NoProfile => ~Renewal(o)
      BY <1>1 DEF TargetOK, Renewal
    <3>4. Searching(n) /\ Found(n)
      BY <3>2, <3>3 DEF Searching, Found, LookupSteps, ProfileSteps
    <3>. QED
      BY <1>1, <3>1, <3>2, <3>4, MoveConsistent
  <2>. QED
    BY <2>1, <2>2
<1>3. CASE CheckTargetOwner(h)
  <2>1. CASE link[t.target] \in {NoUser, Buyer[o]}
    <3>. DEFINE n == [t EXCEPT !.pc = "fetch"]
    <3>1. Step(h, n)
      BY <1>3, <2>1 DEF CheckTargetOwner
    <3>2. n.order = o /\ n.target = t.target /\ ~n.created /\ n.pc = "fetch"
      BY <1>1 DEF Task
    <3>3. Searching(n) /\ Found(n)
      BY <3>2 DEF Searching, Found, LookupSteps, ProfileSteps
    <3>. QED
      BY <1>1, <3>1, <3>2, <3>3, MoveConsistent
  <2>2. CASE link[t.target] \notin {NoUser, Buyer[o]}
    BY <1>1, <1>3, <2>2, PendingConsistent DEF CheckTargetOwner
  <2>. QED
    BY <2>1, <2>2
<1>4. CASE FetchTarget(h)
  <2>1. t.target \in Profiles
    BY <1>4 DEF FetchTarget, TypeInv, Bounded
  <2>2. CASE panel[t.target].exists /\ Step(h, Snapshot(t, t.target))
    <3>1. ASSUME ~Renewal(o) PROVE <<o, t.target>> \in granted
      <4>. SUFFICES ASSUME t.target = PurchaseTarget[o] PROVE FALSE
        BY <1>1, <3>1 DEF TargetOK
      <4>1. ~InitialPanel[t.target].exists
        BY <2>1, <3>1, DataAssumption DEF Renewal
      <4>2. PICK x \in DOMAIN Candidate : t.target = Candidate[x]
        BY <2>1, <2>2, <4>1 DEF Consistent, PanelOK
      <4>3. PurchaseTarget[o] = Candidate[x] => InitialPanel[Candidate[x]].exists
        BY <1>1, InitialAssumption
      <4>. QED
        BY <4>1, <4>2, <4>3
    <3>2. Own(o, t.target) /\ (Renewal(o) => t.target = PurchaseTarget[o])
      BY <1>1, <3>1 DEF Own, TargetOK
    <3>. QED
      BY <1>1, <2>1, <2>2, <3>2, SnapshotFound, MoveConsistent
  <2>3. CASE ~panel[t.target].exists /\ Step(h, [t EXCEPT !.pc = "lookup"])
    <3>. DEFINE n == [t EXCEPT !.pc = "lookup"]
    <3>1. n.order = o /\ n.target = t.target /\ ~n.created /\ n.pc = "lookup"
      BY <1>1 DEF Task
    <3>2. ~Renewal(o)
      BY <1>1, <2>1, <2>3 DEF TargetOK, Renewal, Consistent, PanelOK
    <3>3. Searching(n) /\ Found(n)
      BY <3>1, <3>2 DEF Searching, Found, LookupSteps, ProfileSteps
    <3>. QED
      BY <1>1, <2>3, <3>1, <3>3, MoveConsistent
  <2>4. CASE PanelError(h)
    BY <1>1, <2>4, PendingConsistent DEF PanelError
  <2>. QED
    BY <1>4, <2>2, <2>3, <2>4 DEF FetchTarget
<1>. QED
  BY <1>2, <1>3, <1>4

\* So do the search for a name and the creation of a profile.
LEMMA FindNameConsistent ==
    ASSUME TypeInv, TypeInv', Consistent, NEW h \in Handlers,
           LookupName(h) \/ CreateProfile(h) \/ VerifyCreate(h) \/ ReadBackCreated(h)
    PROVE  Consistent'
<1>. DEFINE t == task[h]
            o == t.order
            p == CandidateName(t)
<1>1. /\ t \in Task /\ o \in Orders /\ Holding(h) /\ ~t.created /\ TargetOK(o, t.target)
      /\ t.pc \in LookupSteps /\ p \in Profiles /\ ~Renewal(o)
      /\ t.pc = "readBack" => <<o, p>> \in granted
  <2>1. t \in Task /\ Bounded(t) /\ TaskOK(t) /\ t.pc \in LookupSteps
    BY DEF TypeInv, TypeOK, Consistent, LookupName, CreateProfile, VerifyCreate,
           ReadBackCreated, LookupSteps
  <2>2. o \in Orders /\ p \in Profiles
    BY <2>1, SearchType
  <2>. QED
    BY <2>1, <2>2 DEF TaskOK, Searching, Holding, LookupSteps, ProfileSteps
<1>2. ASSUME Step(h, NextName(t)) PROVE Consistent'
  <2>1. /\ NextName(t).order = o /\ NextName(t).target = t.target
        /\ ~NextName(t).created /\ NextName(t).pc = "lookup"
    BY <1>1 DEF NextName, Task
  <2>2. Searching(NextName(t)) /\ Found(NextName(t))
    BY <1>1, <2>1 DEF Searching, Found, ProfileSteps
  <2>. QED
    BY <1>1, <1>2, <2>1, <2>2, MoveConsistent
<1>3. ASSUME Adoptable(t, p), Step(h, Snapshot(t, p)) PROVE Consistent'
  <2>1. Own(o, p)
    BY <1>1, <1>3 DEF Adoptable, Own, Provisioning, Consistent, PanelOK
  <2>. QED
    BY <1>1, <1>3, <2>1, SnapshotFound, MoveConsistent
<1>4. PanelError(h) => Consistent'
  BY <1>1, PendingConsistent DEF PanelError
<1>5. CASE LookupName(h)
  <2>1. CASE t.ordinal >= t.start + MaxNames
    BY <1>1, <1>5, <2>1, PendingConsistent DEF LookupName
  <2>2. ASSUME Step(h, [t EXCEPT !.pc = "create"]) PROVE Consistent'
    <3>. DEFINE n == [t EXCEPT !.pc = "create"]
    <3>1. n.order = o /\ n.target = t.target /\ ~n.created /\ n.pc = "create"
      BY <1>1 DEF Task
    <3>2. Searching(n) /\ Found(n)
      BY <1>1, <3>1 DEF Searching, Found, ProfileSteps
    <3>. QED
      BY <1>1, <2>2, <3>1, <3>2, MoveConsistent
  <2>3. CASE ~(t.ordinal >= t.start + MaxNames)
    BY <1>2, <1>3, <1>4, <1>5, <2>2, <2>3 DEF LookupName
  <2>. QED
    BY <2>1, <2>3
<1>6. CASE CreateProfile(h)
  <2>. DEFINE w == CreateWrite(t)
              at(s) == [t EXCEPT !.pc = s]
  <2>1. /\ w.order = o /\ w.profile = p /\ w.create /\ w.mark = Provisioning(o)
        /\ w \in PanelWrite
    BY <1>1, MarkTypes, DataAssumption DEF CreateWrite, PanelWrite
  <2>2. \E x \in DOMAIN Candidate : p = Candidate[x]
    <3>1. <<Buyer[o], t.ordinal>> \in Users \X Ordinals
      BY <1>1, DataAssumption DEF Task
    <3>. QED
      BY <3>1, DataAssumption DEF CandidateName
  <2>3. InflightOK(w)
    BY <2>1, <2>2 DEF InflightOK
  <2>4. PanelCall(h, w, at("readBack"), at("verifyCreate"))
    BY <1>6 DEF CreateProfile
  <2>5. /\ UNCHANGED <<order, link>>
        /\ (Accepted(w) /\ PanelApply(w)) \/ UNCHANGED <<panel, granted>>
        /\ inflight' \subseteq inflight \cup {w}
    BY <2>4 DEF PanelCall, database
  <2>6. \/ task' = [task EXCEPT ![h] = at("verifyCreate")]
        \/ PanelApply(w) /\ task' = [task EXCEPT ![h] = at("readBack")]
    BY <2>4 DEF PanelCall
  <2>7. granted \subseteq granted'
    BY <2>5 DEF PanelApply
  <2>8. TaskOK(task[h])'
    <3>1. order[o].status \in {"pending", "confirmed"}
      BY <1>1 DEF Consistent, TaskOK, HeldRow, Holding
    <3>2. CASE task' = [task EXCEPT ![h] = at("verifyCreate")]
      BY <1>1, <2>5, <2>7, <3>1, <3>2
         DEF TypeInv, TypeOK, Task, TaskOK, TargetOK, Renewal, HeldRow, Searching, Found,
             LookupSteps, ProfileSteps
    <3>3. CASE PanelApply(w) /\ task' = [task EXCEPT ![h] = at("readBack")]
      <4>1. <<o, p>> \in granted'
        BY <2>1, <3>3 DEF PanelApply
      <4>. QED
        BY <1>1, <2>5, <2>7, <3>1, <3>3, <4>1
           DEF TypeInv, TypeOK, Task, TaskOK, TargetOK, Renewal, HeldRow, Searching,
               CandidateName, Found, LookupSteps, ProfileSteps
    <3>. QED
      BY <2>6, <3>2, <3>3
  <2>9. \A k \in Handlers : task'[k] = task[k] \/ TaskOK(task[k])'
    BY <2>6, <2>8 DEF TypeInv, TypeOK
  <2>. QED
    BY <2>1, <2>3, <2>5, <2>9, WriteStep
<1>7. CASE VerifyCreate(h)
  BY <1>2, <1>3, <1>4, <1>7 DEF VerifyCreate
<1>8. CASE ReadBackCreated(h)
  <2>. DEFINE answer == [t EXCEPT !.profile = p, !.mark = Provisioning(t.order),
                            !.days = DaysOrdered[t.order], !.capped = FALSE,
                            !.created = TRUE, !.pc = "attach"]
              seen == [Snapshot(t, p) EXCEPT !.created = TRUE]
  <2>1. <<o, p>> \in granted
    BY <1>1, <1>8 DEF ReadBackCreated
  <2>2. ASSUME NEW n, n \in {answer, seen}, Step(h, n) PROVE Consistent'
    <3>1. n.order = o /\ n.target = t.target /\ n.profile = p /\ n.pc = "attach"
      BY <1>1, <2>2 DEF Task, Snapshot
    <3>2. Searching(n) /\ Found(n)
      BY <1>1, <2>1, <3>1 DEF Searching, Found, Own, LookupSteps, LinkedSteps
    <3>. QED
      BY <1>1, <2>2, <3>1, <3>2, MoveConsistent DEF ProfileSteps
  <2>3. Step(h, answer) \/ Step(h, seen) \/ Step(h, NextName(t))
    BY <1>8 DEF ReadBackCreated
  <2>. QED
    BY <1>2, <2>2, <2>3
<1>. QED
  BY <1>5, <1>6, <1>7, <1>8

\* So do linking, extending and verifying a profile.
LEMMA ExtendConsistent ==
    ASSUME TypeInv, TypeInv', Consistent, NEW h \in Handlers,
           AttachSubscription(h) \/ ApplyDays(h) \/ VerifyApply(h)
    PROVE  Consistent'
<1>. DEFINE t == task[h]
            o == t.order
            p == t.profile
            at(s) == [t EXCEPT !.pc = s]
<1>1. /\ t \in Task /\ o \in Orders /\ Holding(h) /\ TargetOK(o, t.target)
      /\ t.pc \in ProfileSteps /\ p \in Profiles /\ Found(t)
      /\ order[o].status \in {"pending", "confirmed"}
  BY DEF TypeInv, TypeOK, Bounded, Consistent, TaskOK, HeldRow, Holding, ProfileSteps,
         AttachSubscription, ApplyDays, VerifyApply
<1>2. PanelError(h) => Consistent'
  BY <1>1, PendingConsistent DEF PanelError
<1>3. ASSUME NEW s \in ProfileSteps
      PROVE  /\ at(s).order = o /\ at(s).target = t.target /\ at(s).profile = p
             /\ at(s).created = t.created /\ at(s).mark = t.mark /\ at(s).pc = s
  BY <1>1 DEF Task
<1>4. CASE AttachSubscription(h)
  <2>1. CASE link[p] \in {NoUser, Buyer[o]}
    BY <1>4, <2>1, AttachConsistent
  <2>2. CASE link[p] \notin {NoUser, Buyer[o]}
    BY <1>1, <1>4, <2>2, PendingConsistent DEF AttachSubscription
  <2>. QED
    BY <2>1, <2>2
<1>5. CASE ApplyDays(h)
  <2>. DEFINE w == ApplyWrite(t)
  <2>1. /\ w.order = o /\ w.profile = p /\ ~w.create /\ w.mark = Delivery(o)
        /\ w \in PanelWrite
    BY <1>1, ApplyWriteType DEF ApplyWrite
  <2>2. t.pc = "apply" /\ Own(o, p) /\ link[p] = Buyer[o]
    BY <1>1, <1>5 DEF ApplyDays, Found, LinkedSteps
  <2>3. InflightOK(w)
    BY <2>1, <2>2 DEF InflightOK
  <2>4. PanelCall(h, w, at("finish"), at("verifyApply"))
    BY <1>5 DEF ApplyDays
  <2>5. /\ UNCHANGED <<order, link>>
        /\ (Accepted(w) /\ PanelApply(w)) \/ UNCHANGED <<panel, granted>>
        /\ inflight' \subseteq inflight \cup {w}
    BY <2>4 DEF PanelCall, database
  <2>6. \E s \in {"verifyApply", "finish"} :
           /\ task' = [task EXCEPT ![h] = at(s)]
           /\ s = "finish" => PanelApply(w)
    BY <2>4 DEF PanelCall
  <2>7. granted \subseteq granted'
    BY <2>5 DEF PanelApply
  <2>8. PICK s \in {"verifyApply", "finish"} :
           /\ task' = [task EXCEPT ![h] = at(s)]
           /\ s = "finish" => PanelApply(w)
    BY <2>6
  <2>9. s = "finish" => <<o, p>> \in granted'
    BY <2>1, <2>8 DEF PanelApply
  <2>10. /\ task'[h].order = o /\ task'[h].target = t.target /\ task'[h].profile = p
         /\ task'[h].created = t.created /\ task'[h].mark = t.mark /\ task'[h].pc = s
    BY <1>1, <2>8 DEF TypeInv, TypeOK, Task
  <2>11. Found(task[h])'
    BY <1>1, <2>2, <2>5, <2>7, <2>9, <2>10
       DEF Found, Own, Renewal, Settled, AlreadyApplied, Provisioning, Delivery, LinkedSteps,
           ProfileSteps
  <2>12. TaskOK(task[h])'
    BY <1>1, <2>5, <2>7, <2>10, <2>11
       DEF TaskOK, TargetOK, Renewal, HeldRow, Searching, LookupSteps, ProfileSteps
  <2>13. \A k \in Handlers : task'[k] = task[k] \/ TaskOK(task[k])'
    BY <2>8, <2>12 DEF TypeInv, TypeOK
  <2>. QED
    BY <2>1, <2>3, <2>5, <2>13, WriteStep
<1>6. CASE VerifyApply(h)
  <2>1. CASE Recovered(t) /\ Step(h, at("finish"))
    <3>1. <<o, p>> \in granted
      BY <1>1, <2>1 DEF Recovered, Delivery, Consistent, PanelOK
    <3>2. Searching(at("finish")) /\ Found(at("finish"))
      BY <1>1, <1>3, <1>6, <3>1
         DEF VerifyApply, Searching, Found, LookupSteps, ProfileSteps, LinkedSteps
    <3>3. "finish" \in ProfileSteps
      BY DEF ProfileSteps
    <3>. QED
      BY <1>1, <1>3, <2>1, <3>2, <3>3, MoveConsistent
  <2>. QED
    BY <1>2, <1>6, <2>1 DEF VerifyApply
<1>. QED
  BY <1>4, <1>5, <1>6

\* So does a request that lands late.
LEMMA LandConsistent ==
    ASSUME TypeInv, TypeInv', Consistent, NEW w \in inflight, Land(w)
    PROVE  Consistent'
<1>1. w \in PanelWrite /\ InflightOK(w)
  BY DEF TypeInv, TypeOK, Consistent
<1>2. /\ UNCHANGED <<order, link, task>> /\ inflight' \subseteq inflight \cup {w}
      /\ (Accepted(w) /\ PanelApply(w)) \/ UNCHANGED <<panel, granted>>
  BY DEF Land, database
<1>. QED
  BY <1>1, <1>2, WriteStep

\* Every step keeps the system consistent.
LEMMA ConsistentStep == TypeInv /\ Consistent /\ [Next]_vars => Consistent'
<1>. SUFFICES ASSUME TypeInv, Consistent, [Next]_vars PROVE Consistent'
  OBVIOUS
<1>0. TypeInv'
  BY TypeStep
<1>1. ASSUME NEW o \in Orders, Purchase(o) PROVE Consistent'
  BY <1>1, PurchaseConsistent
<1>2. ASSUME NEW h \in Handlers, NEW o \in Orders, ReceiveWebhook(h, o) \/ PayWithCredits(h, o)
      PROVE  Consistent'
  BY <1>2, WebhookConsistent
<1>3. ASSUME NEW h \in Handlers, Proceed(h) PROVE Consistent'
  BY <1>0, <1>3, ClaimConsistent, FindTargetConsistent, FindNameConsistent, ExtendConsistent,
     EndConsistent DEF Proceed
<1>4. ASSUME NEW h \in Handlers, Crash(h) PROVE Consistent'
  BY <1>4, EndConsistent
<1>5. ASSUME NEW w \in inflight, Land(w) PROVE Consistent'
  BY <1>0, <1>5, LandConsistent
<1>6. CASE UNCHANGED vars
  <2>1. UNCHANGED <<panel, link, inflight, granted, order, task>>
    BY <1>6 DEF vars
  <2>. QED
    BY <2>1, QuietStep
<1>. QED
  BY <1>1, <1>2, <1>3, <1>4, <1>5, <1>6 DEF Next

\* The markers tell the truth at all times: a marker on the panel or in a
\* handler's copy stands for a write of that order to that profile, every row
\* keeps naming a profile its order may extend, and requests that outlive their
\* caller carry the sender's marker.  This is what lets deliver_android_paid
\* recover from a lost answer by reading the description back.
THEOREM ConsistentAlways == Spec => [](TypeInv /\ Consistent)
<1>1. Init => TypeInv /\ Consistent
  BY TypeInit, ConsistentInit
<1>2. TypeInv /\ Consistent /\ [Next]_vars => (TypeInv /\ Consistent)'
  BY TypeStep, ConsistentStep
<1>. QED
  BY <1>1, <1>2, PTL DEF Spec

\* An order is shown as delivered only when its days are on the profile its row
\* names: for any number of duplicate webhooks, lost answers, late requests and
\* crashes, deliver_android_paid has no path to the final status that skips the
\* panel.
THEOREM DeliveredIsGranted == Spec => []DeliveredToTarget
<1>1. Consistent => DeliveredToTarget
  BY DEF Consistent
<1>. QED
  BY <1>1, ConsistentAlways, PTL

\* Days reach only the renewed profile or one the order created, and never a
\* profile that belongs to another account.
THEOREM NoForeignProfile == Spec => []OwnProfileOnly
<1>1. Consistent => OwnProfileOnly
  BY DEF Consistent, GrantOK, OwnProfileOnly
<1>. QED
  BY <1>1, ConsistentAlways, PTL

-----------------------------------------------------------------------------
(* Claimed orders *)

\* A step of one handler keeps every claimed order in somebody's hands when each
\* row that gets stuck is the handler's own, and the handler leaves its order
\* only when that is not stuck or is on record as abandoned.
LEMMA WorkerKept ==
    ASSUME TypeInv, ClaimHasWorker, NEW h \in Handlers, NEW n,
           task' = [task EXCEPT ![h] = n],
           \A o \in Orders : Stuck(order'[o]) => Stuck(order[o]) \/ WorksOn(n, o),
           \A o \in Orders : o \in abandoned => o \in abandoned' \/ WorksOn(n, o),
           \A o \in Orders : WorksOn(task[h], o) =>
              \/ WorksOn(n, o)
              \/ o \in abandoned'
              \/ ~Stuck(order'[o])
    PROVE  ClaimHasWorker'
<1>1. \A k \in Handlers : task'[k] = IF k = h THEN n ELSE task[k]
  BY DEF TypeInv, TypeOK
<1>. SUFFICES ASSUME NEW o \in Orders, Stuck(order'[o])
              PROVE  o \in abandoned' \/ \E k \in Handlers : WorksOn(task'[k], o)
  BY DEF ClaimHasWorker, Holding, Stuck, WorksOn
<1>2. CASE WorksOn(n, o)
  BY <1>1, <1>2
<1>3. CASE ~WorksOn(n, o)
  <2>1. o \in abandoned \/ \E k \in Handlers : WorksOn(task[k], o)
    BY <1>3 DEF ClaimHasWorker, Holding, Stuck, WorksOn
  <2>2. CASE o \in abandoned
    BY <1>3, <2>2
  <2>3. ASSUME NEW k \in Handlers, WorksOn(task[k], o)
        PROVE  o \in abandoned' \/ \E j \in Handlers : WorksOn(task'[j], o)
    BY <1>1, <1>3, <2>3
  <2>. QED
    BY <2>1, <2>2, <2>3
<1>. QED
  BY <1>2, <1>3

\* A step that touches neither handlers nor claimed rows.
LEMMA RowsKept ==
    ASSUME ClaimHasWorker, UNCHANGED <<task, abandoned>>,
           \A o \in Orders : Stuck(order'[o]) => Stuck(order[o])
    PROVE  ClaimHasWorker'
BY DEF ClaimHasWorker, Holding, Stuck

\* Handing the row back leaves no claimed order without a handler.
LEMMA PendingWorker ==
    ASSUME TypeInv, ClaimHasWorker, NEW h \in Handlers, task[h].pc # "idle",
           NEW retryable \in BOOLEAN, Pending(h, retryable)
    PROVE  ClaimHasWorker'
<1>. DEFINE o == task[h].order
<1>1. o \in Orders
  BY DEF TypeInv, Bounded
<1>2. PICK n : task' = [task EXCEPT ![h] = n]
  BY DEF Pending
<1>3. UNCHANGED abandoned /\ ~Stuck(order'[o])
  BY <1>1 DEF Pending, Update, Stuck, history, TypeInv, TypeOK, OrderRow
<1>4. \A x \in Orders : Stuck(order'[x]) => Stuck(order[x])
  BY <1>1 DEF Pending, Update, Stuck, TypeInv, TypeOK, OrderRow
<1>. QED
  BY <1>2, <1>3, <1>4, WorkerKept DEF WorksOn

\* Nor does a step that only moves a handler.
LEMMA StepWorker ==
    ASSUME TypeInv, ClaimHasWorker, NEW h \in Handlers, NEW n, Step(h, n),
           n.order = task[h].order, n.pc \notin {"idle", "claim"}
    PROVE  ClaimHasWorker'
BY WorkerKept DEF Step, database, history, WorksOn

\* Nor does a call of the panel.
LEMMA PanelCallWorker ==
    ASSUME TypeInv, ClaimHasWorker, NEW h \in Handlers, NEW w, NEW a, NEW f,
           PanelCall(h, w, a, f), a.order = task[h].order, a.pc \notin {"idle", "claim"},
           f.order = task[h].order, f.pc \notin {"idle", "claim"}
    PROVE  ClaimHasWorker'
<1>1. PICK n \in {a, f} : task' = [task EXCEPT ![h] = n]
  BY DEF PanelCall
<1>2. UNCHANGED <<order, abandoned>>
  BY DEF PanelCall, database
<1>. QED
  BY <1>1, <1>2, WorkerKept DEF WorksOn

\* Nor do the steps of the purchase.
LEMMA PurchaseWorker ==
    ASSUME TypeInv, ClaimHasWorker, NEW o \in Orders, Purchase(o)
    PROVE  ClaimHasWorker'
<1>1. UNCHANGED <<task, abandoned>>
  BY DEF Purchase, CreateInvoice, CreateTransaction, SendStarsInvoice, CleanupStale, history
<1>2. \A x \in Orders : Stuck(order'[x]) => Stuck(order[x])
  BY DEF Purchase, CreateInvoice, CreateTransaction, SendStarsInvoice, CleanupStale,
         Update, database, Stuck, TypeInv, TypeOK, OrderRow
<1>. QED
  BY <1>1, <1>2, RowsKept

\* Nor does a webhook.
LEMMA WebhookWorker ==
    ASSUME TypeInv, ClaimHasWorker, NEW h \in Handlers, NEW o \in Orders,
           ReceiveWebhook(h, o) \/ PayWithCredits(h, o)
    PROVE  ClaimHasWorker'
<1>1. CASE ReceiveWebhook(h, o)
  <2>1. UNCHANGED <<order, abandoned>> /\ task[h].pc = "idle"
    BY <1>1 DEF ReceiveWebhook, database, history
  <2>2. UNCHANGED task \/ \E n : task' = [task EXCEPT ![h] = n]
    BY <1>1 DEF ReceiveWebhook
  <2>. QED
    BY <2>1, <2>2, RowsKept, WorkerKept DEF WorksOn
<1>2. CASE PayWithCredits(h, o)
  <2>. DEFINE n == [Idle EXCEPT !.pc = "context", !.order = o,
                                !.target = PurchaseTarget[o], !.attempt = 1]
  <2>1. task' = [task EXCEPT ![h] = n] /\ task[h].pc = "idle" /\ UNCHANGED abandoned
    BY <1>2 DEF PayWithCredits, history
  <2>2. WorksOn(n, o)
    BY DEF WorksOn, Idle
  <2>3. \A x \in Orders : Stuck(order'[x]) => Stuck(order[x]) \/ x = o
    BY <1>2 DEF PayWithCredits, Stuck, TypeInv, TypeOK
  <2>. QED
    BY <2>1, <2>2, <2>3, WorkerKept DEF WorksOn
<1>. QED
  BY <1>1, <1>2

\* The claim takes the order in hand; a failed alert puts it on record.
LEMMA ClaimWorker ==
    ASSUME TypeInv, ClaimHasWorker, NEW h \in Handlers, Claim(h) \/ SendAlert(h)
    PROVE  ClaimHasWorker'
<1>. DEFINE o == task[h].order
<1>1. CASE Claim(h)
  <2>1. CASE Claimable(o)
    <3>. DEFINE n == [task[h] EXCEPT !.pc = "alert"]
    <3>1. /\ task' = [task EXCEPT ![h] = n]
          /\ order' = [order EXCEPT ![o].status = "confirmed"]
          /\ abandoned' = abandoned \ {o}
      BY <1>1, <2>1 DEF Claim, TypeInv, TypeOK
    <3>2. WorksOn(n, o) /\ task[h].pc = "claim"
      BY <1>1 DEF Claim, WorksOn, TypeInv, TypeOK, Task
    <3>3. \A x \in Orders : Stuck(order'[x]) => Stuck(order[x]) \/ x = o
      BY <3>1 DEF Stuck, TypeInv, TypeOK
    <3>. QED
      BY <3>1, <3>2, <3>3, WorkerKept DEF WorksOn
  <2>2. CASE ~Claimable(o)
    BY <1>1, <2>2, WorkerKept DEF Claim, WorksOn
  <2>. QED
    BY <2>1, <2>2
<1>2. CASE SendAlert(h)
  <2>1. UNCHANGED order /\ task[h].pc = "alert"
    BY <1>2 DEF SendAlert, database
  <2>2. CASE /\ task' = [task EXCEPT ![h].pc = "context", ![h].attempt = 1]
             /\ UNCHANGED abandoned
    <3>. DEFINE n == [task[h] EXCEPT !.pc = "context", !.attempt = 1]
    <3>1. task' = [task EXCEPT ![h] = n] /\ WorksOn(n, o)
      BY <2>2 DEF WorksOn, TypeInv, TypeOK, Task
    <3>2. \A x \in Orders : WorksOn(task[h], x) => WorksOn(n, x)
      BY <3>1 DEF WorksOn
    <3>. QED
      BY <2>1, <2>2, <3>1, <3>2, WorkerKept
  <2>3. CASE task' = [task EXCEPT ![h] = Idle] /\ abandoned' = abandoned \cup {o}
    BY <2>1, <2>3, WorkerKept DEF WorksOn
  <2>. QED
    BY <1>2, <2>2, <2>3 DEF SendAlert
<1>. QED
  BY <1>1, <1>2

\* A handler ends with its order delivered or pending, or dies on record.
LEMMA EndWorker ==
    ASSUME TypeInv, ClaimHasWorker, NEW h \in Handlers,
           FinishDelivery(h) \/ GiveUp(h) \/ Crash(h)
    PROVE  ClaimHasWorker'
<1>. DEFINE o == task[h].order
<1>1. o \in Orders /\ task' = [task EXCEPT ![h] = Idle]
  BY DEF FinishDelivery, GiveUp, Crash, TypeInv, Bounded
<1>2. CASE FinishDelivery(h) \/ GiveUp(h)
  <2>1. UNCHANGED abandoned
    BY <1>2 DEF FinishDelivery, GiveUp, history
  <2>2. \A x \in Orders : Stuck(order'[x]) => Stuck(order[x])
    BY <1>1, <1>2 DEF FinishDelivery, GiveUp, Update, Stuck, TypeInv, TypeOK, OrderRow
  <2>3. ~Stuck(order'[o])
    BY <1>1, <1>2 DEF FinishDelivery, GiveUp, Update, Stuck, TypeInv, TypeOK, OrderRow
  <2>. QED
    BY <1>1, <2>1, <2>2, <2>3, WorkerKept DEF WorksOn
<1>3. CASE Crash(h)
  <2>1. UNCHANGED order /\ (WorksOn(task[h], o) => o \in abandoned') /\ abandoned \subseteq abandoned'
    BY <1>3 DEF Crash, database, Holding, WorksOn
  <2>. QED
    BY <1>1, <2>1, WorkerKept DEF WorksOn
<1>. QED
  BY <1>2, <1>3

\* The steps of the delivery never let go of the order.
LEMMA DeliverWorker ==
    ASSUME TypeInv, ClaimHasWorker, NEW h \in Handlers,
           \/ ReadContext(h) \/ CheckTargetOwner(h) \/ FetchTarget(h)
           \/ LookupName(h) \/ CreateProfile(h) \/ VerifyCreate(h) \/ ReadBackCreated(h)
           \/ AttachSubscription(h) \/ ApplyDays(h) \/ VerifyApply(h)
    PROVE  ClaimHasWorker'
<1>. DEFINE t == task[h]
            o == t.order
            at(s) == [t EXCEPT !.pc = s]
<1>1. t \in Task /\ t.pc # "idle" /\ o \in Orders
  BY DEF TypeInv, TypeOK, Bounded, ReadContext, CheckTargetOwner, FetchTarget, LookupName,
         CreateProfile, VerifyCreate, ReadBackCreated, AttachSubscription, ApplyDays,
         VerifyApply
<1>2. ASSUME NEW retryable \in BOOLEAN, Pending(h, retryable) PROVE ClaimHasWorker'
  BY <1>1, <1>2, PendingWorker
<1>3. PanelError(h) => ClaimHasWorker'
  BY <1>2 DEF PanelError
<1>4. ASSUME NEW n, Step(h, n), n.order = o, n.pc \notin {"idle", "claim"}
      PROVE  ClaimHasWorker'
  BY <1>4, StepWorker
<1>5. ASSUME NEW s \in Steps \ {"idle", "claim"}, Step(h, at(s)) PROVE ClaimHasWorker'
  <2>1. at(s).order = o /\ at(s).pc = s
    BY <1>1 DEF Task
  <2>. QED
    BY <1>4, <1>5, <2>1
<1>6. ASSUME NEW p, Step(h, Snapshot(t, p)) PROVE ClaimHasWorker'
  <2>1. Snapshot(t, p).order = o /\ Snapshot(t, p).pc = "attach"
    BY <1>1 DEF Snapshot, Task
  <2>. QED
    BY <1>4, <1>6, <2>1
<1>7. ASSUME Step(h, NextName(t)) PROVE ClaimHasWorker'
  <2>1. NextName(t).order = o /\ NextName(t).pc = "lookup"
    BY <1>1 DEF NextName, Task
  <2>. QED
    BY <1>4, <1>7, <2>1
<1>8. CASE ReadContext(h)
  <2>. DEFINE first == Cardinality(Links(Buyer[o]))
              n == [t EXCEPT !.start = first, !.ordinal = first,
                             !.pc = IF t.target = NoProfile THEN "lookup" ELSE "owner"]
  <2>1. n.order = o /\ n.pc \notin {"idle", "claim"}
    BY <1>1 DEF Task
  <2>2. Pending(h, FALSE) \/ Step(h, n)
    BY <1>8 DEF ReadContext
  <2>. QED
    BY <1>2, <1>4, <2>1, <2>2
<1>9. CASE CheckTargetOwner(h)
  <2>1. Pending(h, FALSE) \/ Step(h, at("fetch"))
    BY <1>9 DEF CheckTargetOwner
  <2>. QED
    BY <1>2, <1>5, <2>1 DEF Steps
<1>10. CASE FetchTarget(h)
  <2>1. PanelError(h) \/ Step(h, at("lookup")) \/ Step(h, Snapshot(t, t.target))
    BY <1>10 DEF FetchTarget
  <2>. QED
    BY <1>3, <1>5, <1>6, <2>1 DEF Steps
<1>11. CASE LookupName(h)
  <2>1. \/ Pending(h, FALSE) \/ PanelError(h) \/ Step(h, at("create"))
        \/ Step(h, Snapshot(t, CandidateName(t))) \/ Step(h, NextName(t))
    BY <1>11 DEF LookupName
  <2>. QED
    BY <1>2, <1>3, <1>5, <1>6, <1>7, <2>1 DEF Steps
<1>12. CASE CreateProfile(h)
  <2>1. \A s \in Steps : at(s).order = o /\ at(s).pc = s
    BY <1>1 DEF Task
  <2>2. PanelCall(h, CreateWrite(t), at("readBack"), at("verifyCreate"))
    BY <1>12 DEF CreateProfile
  <2>. QED
    BY <2>1, <2>2, PanelCallWorker DEF Steps
<1>13. CASE VerifyCreate(h)
  BY <1>3, <1>6, <1>7, <1>13 DEF VerifyCreate
<1>14. CASE ReadBackCreated(h)
  <2>. DEFINE answer == [t EXCEPT !.profile = CandidateName(t), !.mark = Provisioning(t.order),
                            !.days = DaysOrdered[t.order], !.capped = FALSE,
                            !.created = TRUE, !.pc = "attach"]
              seen == [Snapshot(t, CandidateName(t)) EXCEPT !.created = TRUE]
  <2>1. answer.order = o /\ answer.pc = "attach" /\ seen.order = o /\ seen.pc = "attach"
    BY <1>1 DEF Task, Snapshot
  <2>2. Step(h, answer) \/ Step(h, seen) \/ Step(h, NextName(t))
    BY <1>14 DEF ReadBackCreated
  <2>. QED
    BY <1>4, <1>7, <2>1, <2>2
<1>15. CASE AttachSubscription(h)
  <2>1. CASE link[t.profile] \notin {NoUser, Buyer[o]}
    BY <1>2, <1>15, <2>1 DEF AttachSubscription
  <2>2. CASE link[t.profile] \in {NoUser, Buyer[o]}
    <3>1. UNCHANGED abandoned /\ \E s \in LinkedSteps : task' = [task EXCEPT ![h] = at(s)]
      BY <1>15, <2>2 DEF AttachSubscription, TypeInv, TypeOK, LinkedSteps, history
    <3>2. \A s \in LinkedSteps : WorksOn(at(s), o)
      BY <1>1 DEF WorksOn, LinkedSteps, Task
    <3>3. UNCHANGED order \/ order' = [order EXCEPT ![o].target = t.profile]
      BY <1>15, <2>2 DEF AttachSubscription, UpdateTarget
    <3>4. \A x \in Orders : Stuck(order'[x]) => Stuck(order[x])
      BY <3>3 DEF Stuck, TypeInv, TypeOK, OrderRow
    <3>5. PICK s \in LinkedSteps : task' = [task EXCEPT ![h] = at(s)]
      BY <3>1
    <3>6. \A x \in Orders : WorksOn(t, x) => WorksOn(at(s), x)
      BY <3>2 DEF WorksOn
    <3>. QED
      BY <3>1, <3>4, <3>5, <3>6, WorkerKept
  <2>. QED
    BY <2>1, <2>2
<1>16. CASE ApplyDays(h)
  <2>1. \A s \in Steps : at(s).order = o /\ at(s).pc = s
    BY <1>1 DEF Task
  <2>2. PanelCall(h, ApplyWrite(t), at("finish"), at("verifyApply"))
    BY <1>16 DEF ApplyDays
  <2>. QED
    BY <2>1, <2>2, PanelCallWorker DEF Steps
<1>17. CASE VerifyApply(h)
  BY <1>3, <1>5, <1>17 DEF VerifyApply, Steps
<1>. QED
  BY <1>8, <1>9, <1>10, <1>11, <1>12, <1>13, <1>14, <1>15, <1>16, <1>17

\* Every step keeps each claimed order with a handler or on record.
LEMMA WorkerStep == TypeInv /\ ClaimHasWorker /\ [Next]_vars => ClaimHasWorker'
<1>. SUFFICES ASSUME TypeInv, ClaimHasWorker, [Next]_vars PROVE ClaimHasWorker'
  OBVIOUS
<1>1. ASSUME NEW o \in Orders, Purchase(o) PROVE ClaimHasWorker'
  BY <1>1, PurchaseWorker
<1>2. ASSUME NEW h \in Handlers, NEW o \in Orders, ReceiveWebhook(h, o) \/ PayWithCredits(h, o)
      PROVE  ClaimHasWorker'
  BY <1>2, WebhookWorker
<1>3. ASSUME NEW h \in Handlers, Proceed(h) PROVE ClaimHasWorker'
  BY <1>3, ClaimWorker, DeliverWorker, EndWorker DEF Proceed
<1>4. ASSUME NEW h \in Handlers, Crash(h) PROVE ClaimHasWorker'
  BY <1>4, EndWorker
<1>5. ASSUME NEW w \in inflight, Land(w) PROVE ClaimHasWorker'
  <2>1. UNCHANGED <<order, task, abandoned>>
    BY <1>5 DEF Land, database
  <2>. QED
    BY <2>1, RowsKept
<1>6. CASE UNCHANGED vars
  BY <1>6, RowsKept DEF vars
<1>. QED
  BY <1>1, <1>2, <1>3, <1>4, <1>5, <1>6 DEF Next

\* A claim is never forgotten by the code itself: while a row is "confirmed" and
\* undelivered some handler still works on it, or one died holding it, also when
\* several handlers hold the same order and end in any sequence.
THEOREM ClaimNotForgotten == Spec => []ClaimHasWorker
<1>1. Init => TypeInv /\ ClaimHasWorker
  BY TypeInit DEF Init, ClaimHasWorker
<1>2. TypeInv /\ ClaimHasWorker /\ [Next]_vars => (TypeInv /\ ClaimHasWorker)'
  BY TypeStep, WorkerStep
<1>. QED
  BY <1>1, <1>2, PTL DEF Spec

-----------------------------------------------------------------------------
(***************************************************************************)
(* II. Delivery keeps the promises of OrderContract, for any number of     *)
(* orders, handlers, lost and late answers and crashes, as long as         *)
(*   - no two handlers work on one order at a time (OrdersApart), and      *)
(*   - two orders do not meet on one profile, nor does one of them change  *)
(*     the number the other's search for a name starts from                *)
(*     (OrdersDoNotMeet).                                                  *)
(* Without either, TLC has runs that break them (OrderDuplicateWebhook,    *)
(* OrderTwoRenewals).                                                      *)
(*                                                                         *)
(* The argument: an order that extends a profile can only ever write one   *)
(* value to it, and an order that provides one walks its names in one      *)
(* order: a name it has passed was taken by another and stays taken, so    *)
(* the one it reaches is the same in every attempt, and a request that     *)
(* lands late finds its name taken.                                        *)
(***************************************************************************)

\* No two handlers work on one order at a time.
OrdersApart ==
    \A g, h \in Handlers :
        g # h /\ task[g].pc # "idle" /\ task[h].pc # "idle" => task[g].order # task[h].order

\* A renewal of a profile that was linked to its buyer all along.
Steady(o) == Renewal(o) /\ InitialLink[PurchaseTarget[o]] = Buyer[o]

\* No two renewals of one profile, and of two orders of one buyer at most one gives
\* him another subscription.
OrdersDoNotMeet ==
    \A o, q \in Orders :
        o # q =>
            /\ Renewal(o) /\ Renewal(q) => PurchaseTarget[o] # PurchaseTarget[q]
            /\ Buyer[o] = Buyer[q] => Steady(o) \/ Steady(q)

(* What every order can write to the panel *)

\* A profile before any order touched it.
Untouched(p) ==
    [exists |-> InitialPanel[p].exists, days |-> InitialPanel[p].days,
     capped |-> InitialPanel[p].capped, mark |-> NoMark]

\* What a renewal writes.
Extended(o) ==
    LET before == InitialPanel[PurchaseTarget[o]] IN
    [exists |-> TRUE,
     days |-> IF before.days > 0 /\ ~before.capped THEN before.days + DaysOrdered[o]
              ELSE DaysOrdered[o],
     capped |-> o \in Capped, mark |-> Delivery(o)]

\* What an order for a new subscription writes.
Provided(o) ==
    [exists |-> TRUE, days |-> DaysOrdered[o], capped |-> o \in Capped,
     mark |-> Provisioning(o)]

Result(o) == IF Renewal(o) THEN Extended(o) ELSE Provided(o)

(* The walk along the names *)

FirstName(o) == Cardinality({p \in Profiles : InitialLink[p] = Buyer[o]})
NameOf(o, i) == Candidate[<<Buyer[o], i>>]

\* Another has the name p: it exists without the order's marker.
Taken(o, p) == panel[p].exists /\ panel[p].mark # Provisioning(o)

\* The names before number j are taken by others.
Passed(o, j) ==
    \A i \in Ordinals : FirstName(o) <= i /\ i < j => Taken(o, NameOf(o, i))

Reached(o, p) == \E j \in Ordinals : FirstName(o) <= j /\ p = NameOf(o, j) /\ Passed(o, j)

\* The only profile an order may write to.
Destined(o, p) == IF Renewal(o) THEN p = PurchaseTarget[o] ELSE Reached(o, p)

(* The invariant *)

\* Nobody works on a delivered order.
DoneIsLeft ==
    \A o \in Orders :
        order[o].delivered = 1 =>
            order[o].status = "confirmed" /\ \A h \in Handlers : ~WorksOn(task[h], o)

\* The subscription an order provided is linked to its buyer.
Attached(o) == \E p \in Profiles : <<o, p>> \in granted /\ link[p] = Buyer[o]

Underway(o) == order[o].status \in {"pending", "confirmed"}

\* Days come from rows in work, and a provisioned profile is on the row from the
\* moment it is linked.
RowApart(o) ==
    /\ (\E p \in Profiles : <<o, p>> \in granted) => Underway(o)
    /\ ~Renewal(o) /\ Attached(o) => order[o].target # PurchaseTarget[o]

\* A renewal works with the days the profile had before.
RenewsApart(t) ==
    LET before == InitialPanel[PurchaseTarget[t.order]] IN
    /\ ~t.created
    /\ t.pc \in {"apply", "verifyApply"} => ~AlreadyApplied(t)
    /\ t.pc \in ProfileSteps \ {"finish"} /\ ~AlreadyApplied(t) =>
         t.days = before.days /\ t.capped = before.capped

\* A provision looks for a name only as long as nothing is linked for it, starts at
\* the same name each time, and is extended by nobody.
ProvidesApart(t) ==
    LET o == t.order IN
    /\ Attached(o) => t.target # PurchaseTarget[o] \/ t.pc = "finish"
    /\ t.pc \in {"owner", "fetch"} /\ t.target = PurchaseTarget[o] =>
         t.ordinal = FirstName(o)
    /\ t.pc \in LookupSteps =>
         t.target = PurchaseTarget[o] /\ FirstName(o) <= t.ordinal /\ Passed(o, t.ordinal)
    /\ t.pc \in ProfileSteps => AlreadyApplied(t) /\ t.pc \in {"attach", "finish"}

TaskApart(t) ==
    t.pc # "idle" => IF Renewal(t.order) THEN RenewsApart(t) ELSE ProvidesApart(t)

\* A request on its way can only write what its order writes anyway, where it
\* writes it anyway.
WriteApart(w) ==
    /\ Underway(w.order) /\ Destined(w.order, w.profile)
    /\ w.create <=> ~Renewal(w.order)
    /\ [exists |-> TRUE, days |-> w.days, capped |-> w.capped, mark |-> w.mark]
         = Result(w.order)

\* A profile is as it was, or as the one order that reached it writes it; it is
\* linked as it was, or to the buyer of an order that works on it.
PanelApart(p) ==
    /\ InitialLink[p] # NoUser => link[p] = InitialLink[p]
    /\ link[p] # InitialLink[p] => \E o \in Orders : link[p] = Buyer[o] /\ Own(o, p)
    /\ (\A o \in Orders : <<o, p>> \notin granted) => panel[p] = Untouched(p)
    /\ \A o \in Orders : <<o, p>> \in granted => panel[p] = Result(o) /\ Destined(o, p)

Apart ==
    /\ \A o \in Orders : RowApart(o)
    /\ \A h \in Handlers : TaskApart(task[h])
    /\ \A w \in inflight : WriteApart(w)
    /\ \A p \in Profiles : PanelApart(p)

-----------------------------------------------------------------------------
(* What the orders can reach *)

\* The target of an order that renews nothing is not there, and never will be.
LEMMA TargetIsGone ==
    ASSUME Consistent, NEW o \in Orders, ~Renewal(o), PurchaseTarget[o] \in Profiles
    PROVE  ~panel[PurchaseTarget[o]].exists
<1>. DEFINE p == PurchaseTarget[o]
<1>1. ~InitialPanel[p].exists
  BY DataAssumption DEF Renewal
<1>2. ASSUME NEW x \in DOMAIN Candidate PROVE p # Candidate[x]
  BY <1>1, InitialAssumption
<1>. QED
  BY <1>1, <1>2 DEF Consistent, PanelOK

\* So it gets no days.
LEMMA TargetNotGranted ==
    ASSUME TypeInv, Consistent, NEW o \in Orders, ~Renewal(o)
    PROVE  <<o, PurchaseTarget[o]>> \notin granted
<1>. SUFFICES ASSUME <<o, PurchaseTarget[o]>> \in granted PROVE FALSE
  OBVIOUS
<1>1. PurchaseTarget[o] \in Profiles
  BY DEF TypeInv, TypeOK
<1>2. panel[PurchaseTarget[o]].exists
  BY <1>1 DEF Consistent, GrantOK
<1>. QED
  BY <1>1, <1>2, TargetIsGone

\* What an order writes names the order.
LEMMA ResultMark ==
    ASSUME NEW o \in Orders
    PROVE  /\ Result(o).exists /\ Result(o).mark.order = o
           /\ Result(o).mark = IF Renewal(o) THEN Delivery(o) ELSE Provisioning(o)
<1>1. Delivery(o).order = o /\ Provisioning(o).order = o
  BY DEF Delivery, Provisioning
<1>2. CASE Renewal(o)
  BY <1>1, <1>2 DEF Result, Extended
<1>3. CASE ~Renewal(o)
  BY <1>1, <1>3 DEF Result, Provided
<1>. QED
  BY <1>2, <1>3

\* Two orders never wrote to one profile.
LEMMA OneOrderPerProfile ==
    ASSUME NEW p \in Profiles, PanelApart(p), NEW o \in Orders, NEW q \in Orders,
           <<o, p>> \in granted, <<q, p>> \in granted
    PROVE  o = q
<1>1. panel[p] = Result(o) /\ panel[p] = Result(q)
  BY DEF PanelApart
<1>. QED
  BY ZenonT(30), <1>1, ResultMark

\* Of the names an order may reach only one is not taken.
LEMMA OneName ==
    ASSUME NEW o \in Orders, NEW p, NEW q, Reached(o, p), Reached(o, q),
           ~Taken(o, p), ~Taken(o, q)
    PROVE  p = q
<1>1. PICK i \in Ordinals : FirstName(o) <= i /\ p = NameOf(o, i) /\ Passed(o, i)
  BY DEF Reached
<1>2. PICK j \in Ordinals : FirstName(o) <= j /\ q = NameOf(o, j) /\ Passed(o, j)
  BY DEF Reached
<1>3. ~(i < j) /\ ~(j < i)
  BY <1>1, <1>2 DEF Passed
<1>4. i = j
  BY <1>3, FirstOrdinal, BoundAssumption DEF Ordinals
<1>. QED
  BY <1>1, <1>2, <1>4

\* Nor did one order write to two.
LEMMA OneProfile ==
    ASSUME NEW o \in Orders, NEW p \in Profiles, NEW q \in Profiles,
           PanelApart(p), PanelApart(q), <<o, p>> \in granted, <<o, q>> \in granted
    PROVE  p = q
<1>1. Destined(o, p) /\ Destined(o, q) /\ panel[p] = Result(o) /\ panel[q] = Result(o)
  BY DEF PanelApart
<1>2. CASE Renewal(o)
  BY <1>1, <1>2 DEF Destined
<1>3. CASE ~Renewal(o)
  BY <1>1, <1>3, ResultMark, OneName DEF Destined, Taken
<1>. QED
  BY <1>2, <1>3

\* A renewed profile is written to by its renewal only.
LEMMA RenewedByOne ==
    ASSUME OrdersDoNotMeet, Consistent, NEW o \in Orders, Renewal(o),
           PurchaseTarget[o] \in Profiles,
           NEW q \in Orders, <<q, PurchaseTarget[o]>> \in granted
    PROVE  q = o
<1>1. PurchaseTarget[o] = PurchaseTarget[q]
  BY DEF Consistent, GrantOK, Renewal
<1>2. Renewal(q)
  BY <1>1 DEF Renewal
<1>. QED
  BY <1>1, <1>2 DEF OrdersDoNotMeet

\* The profile a renewal is for.
LEMMA RenewalTarget ==
    ASSUME NEW o \in Orders, Renewal(o)
    PROVE  PurchaseTarget[o] \in Profiles
BY DataAssumption DEF Renewal

\* As long as nothing is linked for a provision, its buyer has the subscriptions he
\* had before, and the search starts at the same name.
LEMMA LinksStay ==
    ASSUME OrdersDoNotMeet, TypeInv, Apart, NEW o \in Orders, ~Renewal(o), ~Attached(o)
    PROVE  Cardinality(Links(Buyer[o])) = FirstName(o)
<1>1. Buyer[o] \in Users /\ NoUser \notin Users
  BY DataAssumption
<1>2. ASSUME NEW p \in Profiles, InitialLink[p] = Buyer[o] PROVE link[p] = Buyer[o]
  BY <1>1, <1>2 DEF Apart, PanelApart
<1>3. ASSUME NEW p \in Profiles, link[p] = Buyer[o] PROVE InitialLink[p] = Buyer[o]
  <2>. SUFFICES ASSUME InitialLink[p] # Buyer[o] PROVE FALSE
    OBVIOUS
  <2>1. PICK q \in Orders : link[p] = Buyer[q] /\ Own(q, p)
    BY <1>3 DEF Apart, PanelApart
  <2>2. CASE q = o
    BY <1>3, <2>1, <2>2 DEF Own, Attached
  <2>3. CASE q # o
    <3>1. Steady(q)
      BY <1>3, <2>1, <2>3 DEF OrdersDoNotMeet, Steady
    <3>2. p = PurchaseTarget[q]
      BY <2>1, <3>1 DEF Own, Steady, Apart, PanelApart, Destined
    <3>. QED
      BY <1>3, <2>1, <3>1, <3>2 DEF Steady
  <2>. QED
    BY <2>2, <2>3
<1>4. Links(Buyer[o]) = {p \in Profiles : InitialLink[p] = Buyer[o]}
  BY <1>2, <1>3 DEF Links
<1>. QED
  BY <1>4 DEF FirstName

\* The number the search starts from.
LEMMA FirstNameType ==
    ASSUME NEW o \in Orders
    PROVE  FirstName(o) \in Nat /\ FirstName(o) <= Cardinality(Profiles)
<1>1. {p \in Profiles : InitialLink[p] = Buyer[o]} \subseteq Profiles
  OBVIOUS
<1>. QED
  BY <1>1, DataAssumption, FS_Subset, FS_CardinalityType DEF FirstName

-----------------------------------------------------------------------------
(* Delivered orders *)

\* The handler goes on with the order it has, or with none.
Remains(h) ==
    \E n : /\ task' = [task EXCEPT ![h] = n]
           /\ \A o \in Orders : WorksOn(n, o) => WorksOn(task[h], o)

\* A handler stays with its order until it ends.
LEMMA StaysOn ==
    ASSUME TypeInv, NEW h \in Handlers, Proceed(h) \/ Crash(h)
    PROVE  Remains(h) \/ (Claim(h) /\ Claimable(task[h].order))
<1>. DEFINE t == task[h]
            at(s) == [t EXCEPT !.pc = s]
            same(n) == n.order = t.order
<1>1. t \in Task
  BY DEF TypeInv, TypeOK
<1>2. \A s : same(at(s))
  BY <1>1 DEF Task
<1>3. \A p : same(Snapshot(t, p)) /\ same([Snapshot(t, p) EXCEPT !.created = TRUE])
  BY <1>1 DEF Snapshot, Task
<1>4. same(NextName(t))
  BY <1>1 DEF NextName, Task
<1>5. ASSUME t.pc \notin {"idle", "claim"},
             \E n : task' = [task EXCEPT ![h] = n] /\ (n = Idle \/ same(n))
      PROVE  Remains(h)
  <2>1. PICK n : task' = [task EXCEPT ![h] = n] /\ (n = Idle \/ same(n))
    BY <1>5
  <2>2. \A o \in Orders : WorksOn(n, o) => WorksOn(t, o)
    BY <1>5, <2>1 DEF WorksOn, Idle
  <2>. QED
    BY <2>1, <2>2 DEF Remains
<1>6. ASSUME NEW r \in BOOLEAN, Pending(h, r)
      PROVE  \E n : task' = [task EXCEPT ![h] = n] /\ (n = Idle \/ same(n))
  <2>. DEFINE again == [Idle EXCEPT !.pc = "context", !.order = t.order, !.target = t.target,
                                    !.attempt = NextAttempt(t)]
              last == [Idle EXCEPT !.pc = "giveUp", !.order = t.order, !.target = t.target]
  <2>1. CASE Channel[t.order] = "credits"
    BY <1>6, <2>1 DEF Pending
  <2>2. CASE Channel[t.order] # "credits" /\ r /\ t.attempt < MaxAttempts
    <3>1. same(again)
      BY DEF Idle
    <3>. QED
      BY <1>6, <2>2, <3>1 DEF Pending
  <2>3. CASE Channel[t.order] # "credits" /\ ~(r /\ t.attempt < MaxAttempts)
    <3>1. same(last)
      BY DEF Idle
    <3>. QED
      BY <1>6, <2>3, <3>1 DEF Pending
  <2>. QED
    BY <2>1, <2>2, <2>3
<1>7. PanelError(h) => \E n : task' = [task EXCEPT ![h] = n] /\ (n = Idle \/ same(n))
  BY <1>6 DEF PanelError
<1>8. task' = [task EXCEPT ![h] = Idle] => Remains(h)
  <2>1. \A o \in Orders : ~WorksOn(Idle, o)
    BY DEF WorksOn, Idle
  <2>. QED
    BY <2>1 DEF Remains
<1>9. CASE SendAlert(h)
  <2>1. task' = [task EXCEPT ![h] = [t EXCEPT !.pc = "context", !.attempt = 1]]
        \/ task' = [task EXCEPT ![h] = Idle]
    BY <1>9 DEF SendAlert, TypeInv, TypeOK
  <2>2. same([t EXCEPT !.pc = "context", !.attempt = 1])
    BY <1>1 DEF Task
  <2>. QED
    BY <1>5, <1>8, <1>9, <2>1, <2>2 DEF SendAlert
<1>10. CASE ReadContext(h)
  <2>. DEFINE first == Cardinality(Links(Buyer[t.order]))
              n == [t EXCEPT !.start = first, !.ordinal = first,
                             !.pc = IF t.target = NoProfile THEN "lookup" ELSE "owner"]
  <2>1. same(n)
    BY <1>1 DEF Task
  <2>2. Pending(h, FALSE) \/ Step(h, n)
    BY <1>10 DEF ReadContext
  <2>. QED
    BY <1>5, <1>6, <1>10, <2>1, <2>2 DEF ReadContext, Step
<1>11. CASE CheckTargetOwner(h)
  <2>1. Pending(h, FALSE) \/ Step(h, at("fetch"))
    BY <1>11 DEF CheckTargetOwner
  <2>. QED
    BY <1>2, <1>5, <1>6, <1>11, <2>1 DEF CheckTargetOwner, Step
<1>12. CASE FetchTarget(h)
  <2>1. PanelError(h) \/ Step(h, at("lookup")) \/ Step(h, Snapshot(t, t.target))
    BY <1>12 DEF FetchTarget
  <2>. QED
    BY <1>2, <1>3, <1>5, <1>7, <1>12, <2>1 DEF FetchTarget, Step
<1>13. CASE LookupName(h)
  <2>1. \/ Pending(h, FALSE) \/ PanelError(h) \/ Step(h, at("create"))
        \/ Step(h, Snapshot(t, CandidateName(t))) \/ Step(h, NextName(t))
    BY <1>13 DEF LookupName
  <2>. QED
    BY <1>2, <1>3, <1>4, <1>5, <1>6, <1>7, <1>13, <2>1 DEF LookupName, Step
<1>14. CASE CreateProfile(h)
  <2>1. \E s \in Steps : task' = [task EXCEPT ![h] = at(s)]
    BY <1>14 DEF CreateProfile, PanelCall, Steps
  <2>. QED
    BY <1>2, <1>5, <1>14, <2>1 DEF CreateProfile
<1>15. CASE VerifyCreate(h)
  <2>1. PanelError(h) \/ Step(h, Snapshot(t, CandidateName(t))) \/ Step(h, NextName(t))
    BY <1>15 DEF VerifyCreate
  <2>. QED
    BY <1>3, <1>4, <1>5, <1>7, <1>15, <2>1 DEF VerifyCreate, Step
<1>16. CASE ReadBackCreated(h)
  <2>. DEFINE answer == [t EXCEPT !.profile = CandidateName(t), !.mark = Provisioning(t.order),
                            !.days = DaysOrdered[t.order], !.capped = FALSE,
                            !.created = TRUE, !.pc = "attach"]
  <2>1. same(answer)
    BY <1>1 DEF Task
  <2>2. \/ Step(h, answer) \/ Step(h, NextName(t))
        \/ Step(h, [Snapshot(t, CandidateName(t)) EXCEPT !.created = TRUE])
    BY <1>16 DEF ReadBackCreated
  <2>. QED
    BY <1>3, <1>4, <1>5, <1>16, <2>1, <2>2 DEF ReadBackCreated, Step
<1>17. CASE AttachSubscription(h)
  <2>1. Pending(h, FALSE) \/ \E s \in LinkedSteps : task' = [task EXCEPT ![h] = at(s)]
    BY <1>17 DEF AttachSubscription, TypeInv, TypeOK, LinkedSteps
  <2>. QED
    BY <1>2, <1>5, <1>6, <1>17, <2>1 DEF AttachSubscription
<1>18. CASE ApplyDays(h)
  <2>1. \E s \in Steps : task' = [task EXCEPT ![h] = at(s)]
    BY <1>18 DEF ApplyDays, PanelCall, Steps
  <2>. QED
    BY <1>2, <1>5, <1>18, <2>1 DEF ApplyDays
<1>19. CASE VerifyApply(h)
  <2>1. PanelError(h) \/ Step(h, at("finish"))
    BY <1>19 DEF VerifyApply
  <2>. QED
    BY <1>2, <1>5, <1>7, <1>19, <2>1 DEF VerifyApply, Step
<1>20. CASE FinishDelivery(h) \/ GiveUp(h) \/ Crash(h)
  BY <1>8, <1>20 DEF FinishDelivery, GiveUp, Crash
<1>21. CASE Claim(h)
  BY <1>8, <1>21 DEF Claim
<1>. QED
  BY <1>9, <1>10, <1>11, <1>12, <1>13, <1>14, <1>15, <1>16, <1>17, <1>18, <1>19, <1>20,
     <1>21 DEF Proceed

\* A step keeps delivered orders delivered, or takes the delivery back, but starts
\* nobody on them.
LEMMA DoneKept ==
    ASSUME DoneIsLeft,
           \A o \in Orders :
             order'[o].delivered = 1 =>
                 order[o].delivered = 1 /\ order'[o].status = order[o].status,
           \A k \in Handlers, o \in Orders :
             WorksOn(task'[k], o) => WorksOn(task[k], o) \/ order'[o].delivered # 1
    PROVE  DoneIsLeft'
BY DEF DoneIsLeft, WorksOn

\* A delivered order stays delivered, and nobody works on it.
LEMMA DoneStep == TypeInv /\ OrdersApart /\ DoneIsLeft /\ [Next]_vars => DoneIsLeft'
<1>. SUFFICES ASSUME TypeInv, OrdersApart, DoneIsLeft, [Next]_vars PROVE DoneIsLeft'
  OBVIOUS
<1>1. ASSUME NEW o \in Orders, Purchase(o) PROVE DoneIsLeft'
  <2>1. UNCHANGED task
    BY <1>1 DEF Purchase, CreateInvoice, CreateTransaction, SendStarsInvoice, CleanupStale
  <2>2. \A x \in Orders :
          /\ order'[x].delivered = order[x].delivered
          /\ order[x].status = "confirmed" => order'[x].status = "confirmed"
    BY <1>1 DEF Purchase, CreateInvoice, CreateTransaction, SendStarsInvoice, CleanupStale,
                Update, database, TypeInv, TypeOK, OrderRow
  <2>. QED
    BY <2>1, <2>2, DoneKept DEF DoneIsLeft
<1>2. ASSUME NEW h \in Handlers, NEW o \in Orders, ReceiveWebhook(h, o) PROVE DoneIsLeft'
  <2>1. UNCHANGED order
    BY <1>2 DEF ReceiveWebhook, database
  <2>2. \A k \in Handlers, x \in Orders : WorksOn(task'[k], x) => WorksOn(task[k], x)
    BY ZenonT(30), <1>2 DEF ReceiveWebhook, WorksOn, Idle, TypeInv, TypeOK
  <2>. QED
    BY <2>1, <2>2, DoneKept
<1>3. ASSUME NEW h \in Handlers, NEW o \in Orders, PayWithCredits(h, o) PROVE DoneIsLeft'
  <2>1. order[o].delivered # 1 /\ order' = [order EXCEPT ![o].status = "confirmed"]
    BY <1>3 DEF PayWithCredits, DoneIsLeft
  <2>2. \A x \in Orders : /\ order'[x].delivered = order[x].delivered
                          /\ x # o => order'[x].status = order[x].status
    BY <2>1 DEF TypeInv, TypeOK, OrderRow
  <2>3. \A k \in Handlers, x \in Orders : WorksOn(task'[k], x) => WorksOn(task[k], x) \/ x = o
    BY <1>3 DEF PayWithCredits, WorksOn, Idle, TypeInv, TypeOK
  <2>. QED
    BY <2>1, <2>2, <2>3, DoneKept
<1>4. ASSUME NEW h \in Handlers, Proceed(h) \/ Crash(h) PROVE DoneIsLeft'
  <2>. DEFINE t == task[h]
              o == t.order
  <2>1. CASE Claim(h) /\ Claimable(o)
    <3>1. /\ order[o].delivered # 1 /\ order' = [order EXCEPT ![o].status = "confirmed"]
          /\ task' = [task EXCEPT ![h].pc = "alert"]
      BY <2>1 DEF Claim, Claimable
    <3>2. \A x \in Orders : /\ order'[x].delivered = order[x].delivered
                            /\ x # o => order'[x].status = order[x].status
      BY <3>1 DEF TypeInv, TypeOK, OrderRow
    <3>3. \A k \in Handlers, x \in Orders : WorksOn(task'[k], x) => WorksOn(task[k], x) \/ x = o
      BY <3>1 DEF WorksOn, TypeInv, TypeOK, Task
    <3>. QED
      BY <3>1, <3>2, <3>3, DoneKept
  <2>2. CASE Remains(h)
    <3>1. \A k \in Handlers, x \in Orders : WorksOn(task'[k], x) => WorksOn(task[k], x)
      BY <2>2 DEF Remains, TypeInv, TypeOK
    <3>2. ASSUME NEW r \in BOOLEAN, Pending(h, r), t.pc \notin {"idle", "claim"}
          PROVE  DoneIsLeft'
      <4>1. o \in Orders
        BY <3>2 DEF TypeInv, Bounded
      <4>2. \A x \in Orders :
              \/ order'[x] = order[x]
              \/ x = o /\ order'[x].delivered = 0
        BY <3>2, <4>1 DEF Pending, Update, TypeInv, TypeOK, OrderRow
      <4>. QED
        BY <3>1, <4>2, DoneKept
    <3>3. t.pc \notin {"idle", "claim"} /\ PanelError(h) => DoneIsLeft'
      BY <3>2 DEF PanelError
    <3>4. UNCHANGED order => DoneIsLeft'
      BY <3>1, DoneKept
    <3>5. CASE Claim(h) \/ SendAlert(h) \/ Crash(h)
      <4>1. UNCHANGED order \/ (Claim(h) /\ Claimable(o))
        BY <3>5 DEF Claim, SendAlert, Crash, database
      <4>. QED
        BY <2>1, <3>4, <4>1
    <3>6. CASE \/ ReadContext(h) \/ CheckTargetOwner(h) \/ FetchTarget(h) \/ LookupName(h)
               \/ CreateProfile(h) \/ VerifyCreate(h) \/ ReadBackCreated(h)
               \/ ApplyDays(h) \/ VerifyApply(h)
      <4>1. t.pc \notin {"idle", "claim"}
        BY <3>6 DEF ReadContext, CheckTargetOwner, FetchTarget, LookupName, CreateProfile,
                    VerifyCreate, ReadBackCreated, ApplyDays, VerifyApply
      <4>2. UNCHANGED order \/ PanelError(h) \/ Pending(h, FALSE)
        BY <3>6 DEF ReadContext, CheckTargetOwner, FetchTarget, LookupName, CreateProfile,
                    VerifyCreate, ReadBackCreated, ApplyDays, VerifyApply, Step, PanelCall,
                    database
      <4>. QED
        BY <3>2, <3>3, <3>4, <4>1, <4>2
    <3>7. CASE AttachSubscription(h)
      <4>1. CASE Pending(h, FALSE)
        BY <3>2, <3>7, <4>1 DEF AttachSubscription
      <4>2. CASE UpdateTarget(o, t.profile)
        <5>1. \A x \in Orders : /\ order'[x].delivered = order[x].delivered
                                /\ order'[x].status = order[x].status
          BY <4>2 DEF UpdateTarget, TypeInv, TypeOK, OrderRow
        <5>. QED
          BY <3>1, <5>1, DoneKept
      <4>. QED
        BY <3>7, <4>1, <4>2 DEF AttachSubscription
    <3>8. CASE GiveUp(h)
      <4>1. o \in Orders /\ WorksOn(t, o)
        BY <3>8 DEF GiveUp, WorksOn, TypeInv, Bounded
      <4>2. order[o].delivered # 1
        BY <4>1 DEF DoneIsLeft
      <4>3. \A x \in Orders : /\ order'[x].delivered = order[x].delivered
                              /\ x # o => order'[x].status = order[x].status
        BY <3>8, <4>1 DEF GiveUp, Update, TypeInv, TypeOK, OrderRow
      <4>. QED
        BY <3>1, <4>2, <4>3, DoneKept
    <3>9. CASE FinishDelivery(h)
      <4>1. o \in Orders /\ WorksOn(t, o)
        BY <3>9 DEF FinishDelivery, WorksOn, TypeInv, Bounded
      <4>2. \A k \in Handlers : ~WorksOn(task'[k], o)
        <5>1. task'[h] = Idle
          BY <3>9 DEF FinishDelivery, TypeInv, TypeOK
        <5>2. \A k \in Handlers : k # h => ~WorksOn(task[k], o)
          BY <4>1 DEF OrdersApart, WorksOn
        <5>. QED
          BY <3>1, <4>1, <5>1, <5>2 DEF WorksOn, Idle
      <4>3. \A x \in Orders : x # o => order'[x] = order[x]
        BY <3>9, <4>1 DEF FinishDelivery, Update, TypeInv, TypeOK
      <4>4. order'[o].status = "confirmed" \/ order'[o] = order[o]
        BY <3>9, <4>1 DEF FinishDelivery, Update, TypeInv, TypeOK, OrderRow
      <4>5. order[o].delivered # 1
        BY <4>1 DEF DoneIsLeft
      <4>. QED
        BY <3>1, <4>2, <4>3, <4>4, <4>5 DEF DoneIsLeft
    <3>. QED
      BY <1>4, <3>5, <3>6, <3>7, <3>8, <3>9 DEF Proceed
  <2>. QED
    BY <1>4, <2>1, <2>2, StaysOn
<1>5. ASSUME NEW w \in inflight, Land(w) PROVE DoneIsLeft'
  <2>1. UNCHANGED <<order, task>>
    BY <1>5 DEF Land, database
  <2>. QED
    BY <2>1, DoneKept
<1>6. CASE UNCHANGED vars
  BY <1>6, DoneKept DEF vars
<1>. QED
  BY <1>1, <1>2, <1>3, <1>4, <1>5, <1>6 DEF Next

-----------------------------------------------------------------------------
(* Steps that leave the panel alone *)

\* Before the first order every profile is untouched.
LEMMA ApartInit == Init => Apart /\ DoneIsLeft
<1>. SUFFICES ASSUME Init PROVE Apart /\ DoneIsLeft
  OBVIOUS
<1>1. \A o \in Orders : RowApart(o)
  BY DEF Init, RowApart, Attached
<1>2. \A h \in Handlers : TaskApart(task[h])
  BY DEF Init, Idle, TaskApart
<1>3. \A p \in Profiles : PanelApart(p)
  BY DEF Init, PanelApart, Untouched
<1>4. DoneIsLeft
  BY DEF Init, DoneIsLeft
<1>. QED
  BY <1>1, <1>2, <1>3, <1>4 DEF Init, Apart

\* Names that are taken stay taken.
TakenStays == \A o \in Orders, p \in Profiles : Taken(o, p) => Taken(o, p)'

\* So a search never goes back.
LEMMA PassedKept ==
    ASSUME TakenStays, NEW o \in Orders, NEW j, Passed(o, j)
    PROVE  Passed(o, j)'
<1>1. \A i \in Ordinals : NameOf(o, i) \in Profiles
  BY DataAssumption DEF NameOf
<1>. QED
  BY <1>1 DEF Passed, TakenStays, FirstName, NameOf

\* And a profile an order could reach stays the one it can reach.
LEMMA DestinedKept ==
    ASSUME TakenStays, NEW o \in Orders, NEW p, Destined(o, p)
    PROVE  Destined(o, p)'
<1>1. CASE Renewal(o)
  BY <1>1 DEF Destined, Renewal
<1>2. CASE ~Renewal(o)
  <2>1. PICK j \in Ordinals : FirstName(o) <= j /\ p = NameOf(o, j) /\ Passed(o, j)
    BY <1>2 DEF Destined, Reached
  <2>2. Passed(o, j)'
    BY <2>1, PassedKept
  <2>. QED
    BY <1>2, <2>1, <2>2 DEF Destined, Reached, Renewal, FirstName, NameOf
<1>. QED
  BY <1>1, <1>2

\* A handler that does not move is not disturbed by names that get taken.
LEMMA TaskApartKept ==
    ASSUME TypeInv, TakenStays, NEW k \in Handlers, TaskApart(task[k]), task'[k] = task[k],
           task[k].pc # "idle" /\ ~Renewal(task[k].order) /\ Attached(task[k].order)' =>
             Attached(task[k].order)
    PROVE  TaskApart(task[k])'
<1>. SUFFICES ASSUME task[k].pc # "idle" PROVE TaskApart(task[k])'
  BY DEF TaskApart
<1>. DEFINE t == task[k]
            o == t.order
<1>1. o \in Orders
  BY DEF TypeInv, Bounded
<1>2. CASE Renewal(o)
  <2>1. RenewsApart(t)
    BY <1>2 DEF TaskApart
  <2>2. RenewsApart(t)'
    BY <2>1 DEF RenewsApart, AlreadyApplied, Provisioning, Delivery
  <2>. QED
    BY <1>2, <2>2 DEF TaskApart, Renewal
<1>3. CASE ~Renewal(o)
  <2>1. ProvidesApart(t)
    BY <1>3 DEF TaskApart
  <2>2. Passed(o, t.ordinal) => Passed(o, t.ordinal)'
    BY <1>1, PassedKept
  <2>3. ProvidesApart(t)'
    BY <1>3, <2>1, <2>2 DEF ProvidesApart, AlreadyApplied, Provisioning, Delivery, FirstName
  <2>. QED
    BY <1>3, <2>3 DEF TaskApart, Renewal
<1>. QED
  BY <1>2, <1>3

\* Nor is a request on its way.
LEMMA WriteApartKept ==
    ASSUME TakenStays, NEW w \in PanelWrite, WriteApart(w), Underway(w.order) => Underway(w.order)'
    PROVE  WriteApart(w)'
<1>1. w.order \in Orders
  BY DEF PanelWrite
<1>2. Destined(w.order, w.profile)'
  BY <1>1, DestinedKept DEF WriteApart
<1>3. Result(w.order)' = Result(w.order) /\ Renewal(w.order)' = Renewal(w.order)
  BY DEF Result, Renewal, Extended, Provided, Provisioning, Delivery
<1>. QED
  BY <1>2, <1>3 DEF WriteApart

\* Steps that touch neither the panel nor the links.
LEMMA QuietApart ==
    ASSUME TypeInv, Apart, UNCHANGED <<panel, link, inflight, granted>>,
           \A o \in Orders :
              /\ order'[o].target = order[o].target
              /\ Underway(o) => Underway(o)',
           \A k \in Handlers : task'[k] = task[k] \/ TaskApart(task[k])'
    PROVE  Apart'
<1>1. TakenStays /\ \A o \in Orders : Attached(o)' = Attached(o)
  BY DEF TakenStays, Taken, Provisioning, Attached
<1>2. \A o \in Orders : RowApart(o)'
  BY <1>1 DEF Apart, RowApart, Renewal
<1>3. \A k \in Handlers : TaskApart(task[k])'
  <2>. SUFFICES ASSUME NEW k \in Handlers, task'[k] = task[k] PROVE TaskApart(task[k])'
    OBVIOUS
  <2>1. task[k].pc # "idle" => task[k].order \in Orders
    BY DEF TypeInv, Bounded
  <2>. QED
    BY <1>1, <2>1, TaskApartKept DEF Apart
<1>4. \A w \in inflight' : WriteApart(w)'
  <2>. SUFFICES ASSUME NEW w \in inflight PROVE WriteApart(w)'
    OBVIOUS
  <2>1. w \in PanelWrite /\ w.order \in Orders /\ WriteApart(w)
    BY DEF TypeInv, TypeOK, PanelWrite, Apart
  <2>. QED
    BY <1>1, <2>1, WriteApartKept
<1>5. \A p \in Profiles : PanelApart(p)'
  <2>. SUFFICES ASSUME NEW p \in Profiles PROVE PanelApart(p)'
    OBVIOUS
  <2>1. PanelApart(p)
    BY DEF Apart
  <2>2. \A o \in Orders : Destined(o, p) => Destined(o, p)'
    BY <1>1, DestinedKept
  <2>3. \A o \in Orders : Own(o, p)' = Own(o, p) /\ Result(o)' = Result(o)
    BY DEF Own, Renewal, Result, Extended, Provided, Provisioning, Delivery
  <2>4. Untouched(p)' = Untouched(p)
    BY DEF Untouched, NoMark
  <2>. QED
    BY <2>1, <2>2, <2>3, <2>4 DEF PanelApart
<1>. QED
  BY <1>2, <1>3, <1>4, <1>5 DEF Apart

-----------------------------------------------------------------------------
(* Steps that reach the panel *)

\* What a request asks for is what its order writes.
LEMMA WrittenResult ==
    ASSUME TypeInv, NEW w \in PanelWrite, WriteApart(w), PanelApply(w)
    PROVE  /\ w.order \in Orders /\ w.profile \in Profiles
           /\ panel' = [panel EXCEPT ![w.profile] = Result(w.order)]
           /\ granted' = granted \cup {<<w.order, w.profile>>}
BY DEF PanelWrite, WriteApart, PanelApply

\* The first request of an order, on a profile no order has touched.
FirstWrite(o, p) ==
    /\ \A q \in Orders : <<q, p>> \notin granted
    /\ \A r \in Profiles : <<o, r>> \notin granted
    /\ panel' = [panel EXCEPT ![p] = Result(o)]
    /\ granted' = granted \cup {<<o, p>>}

\* A request that the panel carries out is a first one, or changes nothing.
LEMMA WriteOnce ==
    ASSUME OrdersDoNotMeet, TypeInv, Consistent, Apart, NEW w \in PanelWrite,
           WriteApart(w), Accepted(w), PanelApply(w)
    PROVE  UNCHANGED <<panel, granted>> \/ FirstWrite(w.order, w.profile)
<1>. DEFINE o == w.order
            p == w.profile
<1>1. /\ o \in Orders /\ p \in Profiles
      /\ panel' = [panel EXCEPT ![p] = Result(o)] /\ granted' = granted \cup {<<o, p>>}
  BY WrittenResult
<1>2. CASE <<o, p>> \in granted
  <2>1. panel[p] = Result(o)
    BY <1>1, <1>2 DEF Apart, PanelApart
  <2>. QED
    BY <1>1, <1>2, <2>1 DEF TypeInv, TypeOK
<1>3. CASE <<o, p>> \notin granted
  <2>1. ASSUME NEW q \in Orders, <<q, p>> \in granted PROVE FALSE
    <3>1. CASE Renewal(o)
      <4>1. p = PurchaseTarget[o]
        BY <3>1 DEF WriteApart, Destined
      <4>. QED
        BY <1>1, <1>3, <2>1, <3>1, <4>1, RenewedByOne
    <3>2. CASE ~Renewal(o)
      <4>1. ~panel[p].exists
        BY <3>2 DEF WriteApart, Accepted
      <4>. QED
        BY <1>1, <2>1, <4>1 DEF Consistent, GrantOK
    <3>. QED
      BY <3>1, <3>2
  <2>2. ASSUME NEW r \in Profiles, <<o, r>> \in granted PROVE FALSE
    <3>1. Destined(o, p) /\ Destined(o, r) /\ panel[r] = Result(o)
      BY <1>1, <2>2 DEF WriteApart, Apart, PanelApart
    <3>2. CASE Renewal(o)
      BY <1>3, <2>2, <3>1, <3>2 DEF Destined
    <3>3. CASE ~Renewal(o)
      <4>1. ~Taken(o, r)
        BY <1>1, <3>1, <3>3, ResultMark DEF Taken
      <4>2. ~Taken(o, p)
        BY <3>3 DEF WriteApart, Accepted, Taken
      <4>3. p = r
        BY <1>1, <3>1, <3>3, <4>1, <4>2, OneName DEF Destined
      <4>. QED
        BY <1>3, <2>2, <4>3
    <3>. QED
      BY <3>2, <3>3
  <2>. QED
    BY <1>1, <2>1, <2>2 DEF FirstWrite
<1>. QED
  BY <1>2, <1>3

\* No provision gets linked.
NothingAttached == \A q \in Orders : ~Renewal(q) /\ Attached(q)' => Attached(q)

\* What a handler that provides a profile knows outlives such steps.
LEMMA KnowledgeKept ==
    ASSUME TakenStays, NothingAttached, NEW h \in Handlers, NEW n, NEW o \in Orders,
           task'[h] = n, n.order = o, ~Renewal(o), ProvidesApart(n)
    PROVE  TaskApart(task[h])'
<1>1. Passed(o, n.ordinal) => Passed(o, n.ordinal)'
  BY PassedKept
<1>2. Attached(o)' => Attached(o)
  BY DEF NothingAttached
<1>3. ProvidesApart(task[h])'
  BY <1>1, <1>2 DEF ProvidesApart, AlreadyApplied, Provisioning, Delivery, FirstName
<1>. QED
  BY <1>3 DEF TaskApart, Renewal

\* A first write takes no name from anybody who passed it, and attaches nothing.
LEMMA FirstWriteKeeps ==
    ASSUME TypeInv, Consistent, Apart, NEW w \in PanelWrite, WriteApart(w), Accepted(w),
           FirstWrite(w.order, w.profile), UNCHANGED link
    PROVE  TakenStays /\ NothingAttached
<1>. DEFINE o == w.order
            p == w.profile
<1>1. /\ o \in Orders /\ p \in Profiles
      /\ \A r \in Profiles : panel'[r] = IF r = p THEN Result(o) ELSE panel[r]
  BY DEF PanelWrite, FirstWrite, TypeInv, TypeOK
<1>2. ASSUME NEW q \in Orders, NEW r \in Profiles, Taken(q, r) PROVE Taken(q, r)'
  <2>1. CASE r # p
    BY <1>1, <1>2, <2>1 DEF Taken, Provisioning
  <2>2. CASE r = p
    <3>1. Renewal(o)
      BY <1>2, <2>2 DEF WriteApart, Accepted, Taken
    <3>2. Result(o).exists /\ Result(o).mark = Delivery(o)
      BY <1>1, <3>1, ResultMark
    <3>3. Delivery(o) # Provisioning(q)
      BY DEF Delivery, Provisioning
    <3>. QED
      BY <1>1, <2>2, <3>2, <3>3 DEF Taken, Provisioning
  <2>. QED
    BY <2>1, <2>2
<1>3. ASSUME NEW q \in Orders, ~Renewal(q), Attached(q)' PROVE Attached(q)
  <2>1. PICK r \in Profiles : <<q, r>> \in granted' /\ link[r] = Buyer[q]
    BY <1>3 DEF Attached
  <2>2. CASE <<q, r>> \in granted
    BY <2>1, <2>2 DEF Attached
  <2>3. CASE <<q, r>> \notin granted
    <3>1. q = o /\ r = p
      BY <2>1, <2>3 DEF FirstWrite
    <3>2. ~panel[p].exists /\ Reached(o, p)
      BY <1>3, <3>1 DEF WriteApart, Accepted, Destined
    <3>3. \E x \in DOMAIN Candidate : p = Candidate[x]
      BY <1>1, <3>2, DataAssumption DEF Reached, NameOf
    <3>4. ~InitialPanel[p].exists /\ link[p] = InitialLink[p]
      BY <1>1, <3>2 DEF Consistent, PanelOK
    <3>5. link[p] = NoUser
      BY <1>1, <3>3, <3>4, InitialAssumption
    <3>. QED
      BY <2>1, <3>1, <3>5, DataAssumption
  <2>. QED
    BY <2>2, <2>3
<1>. QED
  BY <1>2, <1>3 DEF TakenStays, NothingAttached

\* Requests to the panel, sent now or landing late.
LEMMA WriteStepApart ==
    ASSUME OrdersDoNotMeet, TypeInv, Consistent, Apart, NEW w \in PanelWrite, WriteApart(w),
           UNCHANGED <<order, link>>,
           \/ Accepted(w) /\ PanelApply(w)
           \/ UNCHANGED <<panel, granted>>,
           inflight' \subseteq inflight \cup {w},
           TakenStays /\ NothingAttached =>
             \A k \in Handlers : task'[k] = task[k] \/ TaskApart(task[k])'
    PROVE  Apart'
<1>. DEFINE o == w.order
            p == w.profile
<1>1. o \in Orders /\ p \in Profiles
  BY DEF PanelWrite
<1>2. UNCHANGED <<panel, granted>> \/ (Accepted(w) /\ FirstWrite(o, p))
  BY WriteOnce
<1>3. TakenStays /\ NothingAttached
  <2>1. CASE UNCHANGED <<panel, granted>>
    BY <2>1 DEF TakenStays, NothingAttached, Taken, Provisioning, Attached
  <2>2. CASE Accepted(w) /\ FirstWrite(o, p)
    BY <2>2, FirstWriteKeeps
  <2>. QED
    BY <1>2, <2>1, <2>2
<1>4. \A q \in Orders : Underway(q)' = Underway(q)
  BY DEF Underway
<1>5. \A q \in Orders : RowApart(q)'
  <2>. SUFFICES ASSUME NEW q \in Orders PROVE RowApart(q)'
    OBVIOUS
  <2>1. RowApart(q) /\ (q = o => Underway(q))
    BY DEF Apart, WriteApart
  <2>2. \A r \in Profiles : <<q, r>> \in granted' => <<q, r>> \in granted \/ q = o
    BY <1>2 DEF FirstWrite
  <2>. QED
    BY <1>3, <1>4, <2>1, <2>2 DEF RowApart, Renewal, NothingAttached
<1>6. \A k \in Handlers : TaskApart(task[k])'
  <2>. SUFFICES ASSUME NEW k \in Handlers, task'[k] = task[k] PROVE TaskApart(task[k])'
    BY <1>3
  <2>1. task[k].pc # "idle" => task[k].order \in Orders
    BY DEF TypeInv, Bounded
  <2>. QED
    BY <1>3, <2>1, TaskApartKept DEF Apart, NothingAttached
<1>7. \A v \in inflight' : WriteApart(v)'
  <2>. SUFFICES ASSUME NEW v \in inflight \cup {w} PROVE WriteApart(v)'
    OBVIOUS
  <2>1. v \in PanelWrite /\ v.order \in Orders /\ WriteApart(v)
    BY DEF TypeInv, TypeOK, PanelWrite, Apart
  <2>. QED
    BY <1>3, <1>4, <2>1, WriteApartKept
<1>8. \A r \in Profiles : PanelApart(r)'
  <2>. SUFFICES ASSUME NEW r \in Profiles PROVE PanelApart(r)'
    OBVIOUS
  <2>1. PanelApart(r)
    BY DEF Apart
  <2>2. \A q \in Orders : Destined(q, r) => Destined(q, r)'
    BY <1>3, DestinedKept
  <2>3. \A q \in Orders : (Own(q, r) => Own(q, r)') /\ Result(q)' = Result(q)
    BY <1>2 DEF FirstWrite, Own, Renewal, Result, Extended, Provided, Provisioning, Delivery
  <2>4. Untouched(r)' = Untouched(r)
    BY DEF Untouched, NoMark
  <2>5. CASE UNCHANGED <<panel, granted>>
    BY <2>1, <2>2, <2>3, <2>4, <2>5 DEF PanelApart
  <2>6. CASE FirstWrite(o, p) /\ r # p
    <3>1. panel'[r] = panel[r] /\ \A q \in Orders : <<q, r>> \in granted' <=> <<q, r>> \in granted
      BY <1>1, <2>6 DEF FirstWrite, TypeInv, TypeOK
    <3>. QED
      BY <2>1, <2>2, <2>3, <2>4, <3>1 DEF PanelApart
  <2>7. CASE FirstWrite(o, p) /\ r = p
    <3>1. /\ panel'[p] = Result(o)
          /\ \A q \in Orders : <<q, p>> \in granted' <=> q = o
      BY <1>1, <2>7 DEF FirstWrite, TypeInv, TypeOK
    <3>2. Destined(o, p)'
      BY <1>1, <2>2, <2>7 DEF WriteApart
    <3>. QED
      BY <1>1, <2>1, <2>3, <2>7, <3>1, <3>2 DEF PanelApart
  <2>. QED
    BY <1>2, <2>5, <2>6, <2>7
<1>. QED
  BY <1>5, <1>6, <1>7, <1>8 DEF Apart

\* The step that links the profile.
LEMMA AttachApart ==
    ASSUME OrdersDoNotMeet, OrdersApart, TypeInv, Consistent, Apart,
           NEW h \in Handlers, AttachSubscription(h),
           link[task[h].profile] \in {NoUser, Buyer[task[h].order]}
    PROVE  Apart'
<1>. DEFINE t == task[h]
            o == t.order
            q == t.profile
<1>1. /\ t \in Task /\ o \in Orders /\ q \in Profiles /\ t.pc = "attach"
      /\ Buyer[o] \in Users /\ NoUser \notin Users
  BY DataAssumption DEF AttachSubscription, TypeInv, TypeOK, Bounded, ProfileSteps
<1>2. /\ order[o].status \in {"pending", "confirmed"} /\ Own(o, q)
      /\ Renewal(o) => q = PurchaseTarget[o]
  BY <1>1 DEF Consistent, TaskOK, HeldRow, Found, ProfileSteps
<1>3. TaskApart(t)
  BY DEF Apart
<1>4. /\ link' = [link EXCEPT ![q] = Buyer[o]]
      /\ order' = [order EXCEPT ![o].target = q]
      /\ UNCHANGED <<panel, inflight, granted>>
      /\ task' = [task EXCEPT ![h] =
                    [t EXCEPT !.pc = IF AlreadyApplied(t) THEN "finish" ELSE "apply"]]
  BY <1>2 DEF AttachSubscription, UpdateTarget, history, TypeInv, TypeOK
<1>5. /\ \A p \in Profiles : link'[p] = IF p = q THEN Buyer[o] ELSE link[p]
      /\ \A x \in Orders : order'[x].target = IF x = o THEN q ELSE order[x].target
      /\ \A x \in Orders : Underway(x)' = Underway(x)
  BY <1>1, <1>4 DEF TypeInv, TypeOK, OrderRow, Underway
<1>6. TakenStays
  BY <1>4 DEF TakenStays, Taken, Provisioning
<1>7. ASSUME NEW x \in Orders, x # o, ~Renewal(x), Attached(x)' PROVE Attached(x)
  <2>1. PICK p \in Profiles : <<x, p>> \in granted /\ link'[p] = Buyer[x]
    BY <1>4, <1>7 DEF Attached
  <2>2. CASE p # q
    BY <1>5, <2>1, <2>2 DEF Attached
  <2>3. CASE p = q
    <3>1. Steady(o)
      BY <1>1, <1>5, <1>7, <2>1, <2>3 DEF OrdersDoNotMeet, Steady
    <3>2. link[q] = Buyer[o]
      BY <1>1, <1>2, <3>1 DEF Steady, Apart, PanelApart
    <3>. QED
      BY <1>1, <1>5, <2>1, <2>3, <3>2 DEF Attached
  <2>. QED
    BY <2>2, <2>3
<1>8. \A x \in Orders : RowApart(x)'
  <2>. SUFFICES ASSUME NEW x \in Orders PROVE RowApart(x)'
    OBVIOUS
  <2>1. RowApart(x)
    BY DEF Apart
  <2>2. CASE x # o
    BY <1>4, <1>5, <1>7, <2>1, <2>2 DEF RowApart, Renewal
  <2>3. CASE x = o
    <3>1. ~Renewal(o) => q # PurchaseTarget[o]
      BY <1>1, <1>2, TargetNotGranted DEF Own
    <3>. QED
      BY <1>1, <1>4, <1>5, <2>1, <2>3, <3>1 DEF RowApart, Renewal
  <2>. QED
    BY <2>2, <2>3
<1>9. TaskApart(task[h])'
  <2>1. /\ task'[h].order = o /\ task'[h].target = t.target
        /\ task'[h].created = t.created /\ task'[h].mark = t.mark
        /\ task'[h].days = t.days /\ task'[h].capped = t.capped
        /\ task'[h].pc = IF AlreadyApplied(t) THEN "finish" ELSE "apply"
    BY <1>1, <1>4 DEF TypeInv, TypeOK, Task
  <2>2. AlreadyApplied(task[h])' <=> AlreadyApplied(t)
    BY <2>1 DEF AlreadyApplied, Provisioning, Delivery
  <2>3. CASE Renewal(o)
    <3>1. RenewsApart(t)
      BY <1>1, <1>3, <2>3 DEF TaskApart
    <3>2. RenewsApart(task[h])'
      BY <1>1, <2>1, <2>2, <3>1 DEF RenewsApart, ProfileSteps
    <3>. QED
      BY <2>1, <2>3, <3>2 DEF TaskApart, Renewal
  <2>4. CASE ~Renewal(o)
    <3>1. ProvidesApart(t)
      BY <1>1, <1>3, <2>4 DEF TaskApart
    <3>2. AlreadyApplied(t)
      BY <1>1, <3>1 DEF ProvidesApart, ProfileSteps
    <3>3. ProvidesApart(task[h])'
      BY <2>1, <2>2, <3>2 DEF ProvidesApart, LookupSteps
    <3>. QED
      BY <2>1, <2>4, <3>3 DEF TaskApart, Renewal
  <2>. QED
    BY <2>3, <2>4
<1>10. \A k \in Handlers : TaskApart(task[k])'
  <2>. SUFFICES ASSUME NEW k \in Handlers, k # h PROVE TaskApart(task[k])'
    BY <1>9
  <2>1. task'[k] = task[k] /\ TaskApart(task[k])
    BY <1>4 DEF TypeInv, TypeOK, Apart
  <2>2. task[k].pc # "idle" => task[k].order \in Orders /\ task[k].order # o
    BY <1>1 DEF OrdersApart, TypeInv, Bounded
  <2>. QED
    BY <1>6, <1>7, <2>1, <2>2, TaskApartKept
<1>11. \A w \in inflight' : WriteApart(w)'
  <2>. SUFFICES ASSUME NEW w \in inflight PROVE WriteApart(w)'
    BY <1>4
  <2>1. w \in PanelWrite /\ w.order \in Orders /\ WriteApart(w)
    BY DEF TypeInv, TypeOK, PanelWrite, Apart
  <2>. QED
    BY <1>5, <1>6, <2>1, WriteApartKept
<1>12. \A p \in Profiles : PanelApart(p)'
  <2>. SUFFICES ASSUME NEW p \in Profiles PROVE PanelApart(p)'
    OBVIOUS
  <2>1. PanelApart(p)
    BY DEF Apart
  <2>2. \A x \in Orders : Destined(x, p) => Destined(x, p)'
    BY <1>6, DestinedKept
  <2>3. \A x \in Orders : Own(x, p)' = Own(x, p) /\ Result(x)' = Result(x)
    BY <1>4 DEF Own, Renewal, Result, Extended, Provided, Provisioning, Delivery
  <2>4. Untouched(p)' = Untouched(p)
    BY DEF Untouched, NoMark
  <2>5. /\ InitialLink[p] # NoUser => link'[p] = InitialLink[p]
        /\ link'[p] # InitialLink[p] => \E x \in Orders : link'[p] = Buyer[x] /\ Own(x, p)
    <3>1. CASE p # q
      BY <1>5, <2>1, <3>1 DEF PanelApart
    <3>2. CASE p = q
      BY <1>1, <1>2, <1>5, <2>1, <3>2 DEF PanelApart
    <3>. QED
      BY <3>1, <3>2
  <2>. QED
    BY <1>4, <2>1, <2>2, <2>3, <2>4, <2>5 DEF PanelApart
<1>. QED
  BY <1>8, <1>10, <1>11, <1>12 DEF Apart

-----------------------------------------------------------------------------
(* Steps of one handler *)

\* A handler that moves to a state in which it keeps apart.
LEMMA MoveApart ==
    ASSUME TypeInv, Apart, NEW h \in Handlers, NEW n, Step(h, n), TaskApart(n)
    PROVE  Apart'
<1>1. /\ UNCHANGED <<order, panel, link, inflight, granted>>
      /\ \A k \in Handlers : task'[k] = IF k = h THEN n ELSE task[k]
  BY DEF Step, database, history, TypeInv, TypeOK
<1>2. TaskApart(task[h])'
  <2>1. task'[h] = n
    BY <1>1
  <2>2. n.pc # "idle" /\ Renewal(n.order) => RenewsApart(task[h])'
    BY <2>1 DEF TaskApart, RenewsApart, AlreadyApplied, Provisioning, Delivery
  <2>3. n.pc # "idle" /\ ~Renewal(n.order) => ProvidesApart(task[h])'
    BY <1>1, <2>1 DEF TaskApart, ProvidesApart, Attached, Passed, Taken, AlreadyApplied,
       Provisioning, Delivery, FirstName, NameOf
  <2>. QED
    BY <2>1, <2>2, <2>3 DEF TaskApart, Renewal
<1>. QED
  BY <1>1, <1>2, QuietApart DEF Underway

\* Handing the row back as "pending", to try again or not.
LEMMA PendingApart ==
    ASSUME TypeInv, Consistent, Apart, NEW h \in Handlers, Holding(h), task[h].pc # "finish",
           NEW retryable \in BOOLEAN, Pending(h, retryable)
    PROVE  Apart'
<1>. DEFINE t == task[h]
            o == t.order
<1>1. /\ UNCHANGED <<panel, link, inflight, granted>>
      /\ o \in Orders /\ order[o].status \in {"pending", "confirmed"}
  BY DEF Pending, Holding, history, TypeInv, Bounded, Consistent, TaskOK, HeldRow
<1>2. order' = [order EXCEPT ![o].status = "pending", ![o].delivered = 0]
  BY <1>1 DEF Pending, Update
<1>3. \A x \in Orders :
        /\ order'[x].target = order[x].target
        /\ Underway(x) => Underway(x)'
  BY <1>1, <1>2 DEF TypeInv, TypeOK, OrderRow, Underway
<1>4. \E n : /\ task' = [task EXCEPT ![h] = n]
            /\ \/ n = Idle
               \/ /\ n.pc \in {"context", "giveUp"} /\ n.order = o
                  /\ n.target = t.target /\ ~n.created
  <2>. DEFINE again == [Idle EXCEPT !.pc = "context", !.order = o, !.target = t.target,
                                    !.attempt = NextAttempt(t)]
              last == [Idle EXCEPT !.pc = "giveUp", !.order = o, !.target = t.target]
  <2>1. \E n \in {Idle, again, last} : task' = [task EXCEPT ![h] = n]
    <3>1. CASE Channel[o] = "credits"
      BY <3>1 DEF Pending
    <3>2. CASE Channel[o] # "credits" /\ retryable /\ t.attempt < MaxAttempts
      BY <3>2 DEF Pending
    <3>3. CASE Channel[o] # "credits" /\ ~(retryable /\ t.attempt < MaxAttempts)
      BY <3>3 DEF Pending
    <3>. QED
      BY <3>1, <3>2, <3>3
  <2>. QED
    BY <2>1 DEF Idle
<1>5. PICK n : /\ task' = [task EXCEPT ![h] = n]
               /\ \/ n = Idle
                  \/ /\ n.pc \in {"context", "giveUp"} /\ n.order = o
                     /\ n.target = t.target /\ ~n.created
  BY <1>4
<1>6. task'[h] = n /\ \A k \in Handlers : k # h => task'[k] = task[k]
  BY <1>5 DEF TypeInv, TypeOK
<1>7. TaskApart(task[h])'
  <2>1. CASE n = Idle
    BY <1>6, <2>1 DEF TaskApart, Idle
  <2>2. CASE /\ n.pc \in {"context", "giveUp"} /\ n.order = o
             /\ n.target = t.target /\ ~n.created
    <3>1. CASE Renewal(o)
      <4>1. RenewsApart(task[h])'
        BY <1>6, <2>2 DEF RenewsApart, ProfileSteps
      <4>. QED
        BY <1>6, <2>2, <3>1, <4>1 DEF TaskApart, Renewal
    <3>2. CASE ~Renewal(o)
      <4>1. \A x \in Orders : Attached(x)' = Attached(x)
        BY <1>1 DEF Attached
      <4>2. Attached(o) => t.target # PurchaseTarget[o]
        BY <3>2 DEF Apart, TaskApart, ProvidesApart, Holding
      <4>3. ProvidesApart(task[h])'
        BY <1>1, <1>6, <2>2, <4>1, <4>2 DEF ProvidesApart, ProfileSteps, LookupSteps
      <4>. QED
        BY <1>6, <2>2, <3>2, <4>3 DEF TaskApart, Renewal
    <3>. QED
      BY <3>1, <3>2
  <2>. QED
    BY <1>5, <2>1, <2>2
<1>. QED
  BY <1>1, <1>3, <1>6, <1>7, QuietApart

\* A renewal that reads its profile sees the days from before, or its own marker.
LEMMA SnapshotRenews ==
    ASSUME OrdersDoNotMeet, TypeInv, Consistent, Apart, NEW t \in Task, t.order \in Orders,
           Renewal(t.order), ~t.created
    PROVE  TaskApart(Snapshot(t, PurchaseTarget[t.order]))
<1>. DEFINE o == t.order
            p == PurchaseTarget[o]
            n == Snapshot(t, p)
<1>1. /\ n.order = o /\ n.created = t.created /\ n.mark = panel[p].mark /\ n.pc = "attach"
      /\ n.days = panel[p].days /\ n.capped = panel[p].capped
  BY DEF Snapshot, Task
<1>2. p \in Profiles
  BY RenewalTarget
<1>3. ~AlreadyApplied(n) => panel[p] = Untouched(p)
  <2>. SUFFICES ASSUME NEW q \in Orders, <<q, p>> \in granted PROVE AlreadyApplied(n)
    BY <1>2 DEF Apart, PanelApart
  <2>1. q = o
    BY <1>2, RenewedByOne
  <2>2. panel[p] = Result(o)
    BY <1>2, <2>1 DEF Apart, PanelApart
  <2>3. panel[p].mark = Delivery(o)
    BY <2>2, ResultMark
  <2>. QED
    BY <1>1, <2>3 DEF AlreadyApplied
<1>4. RenewsApart(n)
  BY <1>1, <1>3 DEF RenewsApart, Untouched
<1>. QED
  BY <1>1, <1>4 DEF TaskApart

\* A provision that finds its own profile has nothing left to apply.
LEMMA SnapshotProvides ==
    ASSUME NEW t \in Task, ~Renewal(t.order), NEW p \in Profiles,
           panel[p].mark = Provisioning(t.order),
           Attached(t.order) => t.target # PurchaseTarget[t.order]
    PROVE  /\ TaskApart(Snapshot(t, p))
           /\ TaskApart([Snapshot(t, p) EXCEPT !.created = TRUE])
<1>. DEFINE n == Snapshot(t, p)
            m == [n EXCEPT !.created = TRUE]
<1>1. /\ n.order = t.order /\ n.mark = panel[p].mark /\ n.pc = "attach" /\ n.target = t.target
      /\ m.order = t.order /\ m.mark = panel[p].mark /\ m.pc = "attach" /\ m.target = t.target
  BY DEF Snapshot, Task
<1>2. AlreadyApplied(n) /\ AlreadyApplied(m)
  BY <1>1 DEF AlreadyApplied
<1>3. ProvidesApart(n) /\ ProvidesApart(m)
  BY <1>1, <1>2 DEF ProvidesApart, LookupSteps
<1>. QED
  BY <1>1, <1>3 DEF TaskApart

\* A name that another has taken is passed.
LEMMA NextNameApart ==
    ASSUME TypeInv, NEW t \in Task, Bounded(t), t.pc \in LookupSteps, ~Renewal(t.order),
           TaskApart(t), Taken(t.order, CandidateName(t))
    PROVE  TaskApart(NextName(t))
<1>. DEFINE o == t.order
            n == NextName(t)
<1>1. /\ n.order = o /\ n.target = t.target /\ n.pc = "lookup" /\ n.ordinal = t.ordinal + 1
      /\ o \in Orders /\ t.ordinal \in Nat
  BY SearchType DEF NextName, Task
<1>2. /\ Attached(o) => t.target # PurchaseTarget[o]
      /\ t.target = PurchaseTarget[o] /\ FirstName(o) <= t.ordinal /\ Passed(o, t.ordinal)
  BY DEF TaskApart, ProvidesApart, LookupSteps
<1>3. FirstName(o) <= n.ordinal
  BY <1>1, <1>2, FirstNameType
<1>4. Passed(o, n.ordinal)
  <2>. SUFFICES ASSUME NEW i \in Ordinals, FirstName(o) <= i, i < n.ordinal
                PROVE  Taken(o, NameOf(o, i))
    BY DEF Passed
  <2>1. i \in Nat
    BY FirstOrdinal, BoundAssumption DEF Ordinals
  <2>2. CASE i < t.ordinal
    BY <1>2, <2>2 DEF Passed
  <2>3. CASE i = t.ordinal
    BY <2>3 DEF NameOf, CandidateName
  <2>. QED
    BY <1>1, <2>1, <2>2, <2>3
<1>5. ProvidesApart(n)
  BY <1>1, <1>2, <1>3, <1>4 DEF ProvidesApart, ProfileSteps
<1>. QED
  BY <1>1, <1>5 DEF TaskApart

-----------------------------------------------------------------------------
(* The actions *)

\* Before the claim, and at the end, nothing is known that could be wrong.
LEMMA PurchaseApart ==
    ASSUME TypeInv, Apart, NEW o \in Orders, Purchase(o)
    PROVE  Apart'
<1>1. UNCHANGED <<panel, link, inflight, task, granted>>
  BY DEF Purchase, CreateInvoice, CreateTransaction, SendStarsInvoice, CleanupStale,
         database, history
<1>2. \A x \in Orders :
        /\ order'[x].target = order[x].target
        /\ Underway(x) => Underway(x)'
  BY DEF Purchase, CreateInvoice, CreateTransaction, SendStarsInvoice, CleanupStale,
         Update, Underway, database, TypeInv, TypeOK, OrderRow
<1>. QED
  BY <1>1, <1>2, QuietApart

\* A handler starts with the target of the row.
LEMMA StartApart ==
    ASSUME Apart, NEW o \in Orders, NEW t, t.order = o, t.pc \in {"claim", "context"},
           t.target = order[o].target, ~t.created
    PROVE  TaskApart(t)
<1>1. CASE Renewal(o)
  BY <1>1 DEF TaskApart, RenewsApart, ProfileSteps
<1>2. CASE ~Renewal(o)
  <2>1. Attached(o) => t.target # PurchaseTarget[o]
    BY <1>2 DEF Apart, RowApart
  <2>. QED
    BY <1>2, <2>1 DEF TaskApart, ProvidesApart, ProfileSteps, LookupSteps
<1>. QED
  BY <1>1, <1>2

\* What a handler knows depends on the panel, the links and the grants only.
LEMMA SameKnowledge ==
    ASSUME UNCHANGED <<panel, link, granted>>, NEW h \in Handlers, NEW n,
           task'[h] = n, TaskApart(n)
    PROVE  TaskApart(task[h])'
BY DEF TaskApart, RenewsApart, ProvidesApart, Attached, Passed, Taken, Renewal,
       AlreadyApplied, Provisioning, Delivery, FirstName, NameOf

\* A webhook, or a purchase with points, starts a handler that keeps apart.
LEMMA WebhookApart ==
    ASSUME TypeInv, Apart, NEW h \in Handlers, NEW o \in Orders,
           ReceiveWebhook(h, o) \/ PayWithCredits(h, o)
    PROVE  Apart'
<1>1. CASE ReceiveWebhook(h, o)
  <2>. DEFINE n == [Idle EXCEPT !.pc = "claim", !.order = o, !.target = order[o].target]
  <2>1. UNCHANGED <<order, panel, link, inflight, granted>>
    BY <1>1 DEF ReceiveWebhook, database, history
  <2>2. n.order = o /\ n.pc = "claim" /\ n.target = order[o].target /\ ~n.created
    BY DEF Idle
  <2>3. TaskApart(n)
    BY <2>2, StartApart
  <2>4. \A k \in Handlers : task'[k] = task[k] \/ (k = h /\ task'[k] = n)
    BY <1>1 DEF ReceiveWebhook, TypeInv, TypeOK
  <2>5. \A k \in Handlers : task'[k] = task[k] \/ TaskApart(task[k])'
    BY <2>1, <2>3, <2>4, SameKnowledge
  <2>. QED
    BY <2>1, <2>5, QuietApart DEF Underway
<1>2. CASE PayWithCredits(h, o)
  <2>. DEFINE n == [Idle EXCEPT !.pc = "context", !.order = o,
                                !.target = PurchaseTarget[o], !.attempt = 1]
  <2>1. UNCHANGED <<panel, link, inflight, granted>>
    BY <1>2 DEF PayWithCredits, history
  <2>2. \A x \in Orders : order'[x].target = order[x].target /\ (Underway(x) => Underway(x)')
    BY <1>2 DEF PayWithCredits, Underway, TypeInv, TypeOK, OrderRow
  <2>3. n.order = o /\ n.pc = "context" /\ n.target = PurchaseTarget[o] /\ ~n.created
    BY DEF Idle
  <2>4. ~Attached(o)
    BY <1>2 DEF PayWithCredits, Apart, RowApart, Underway, Attached
  <2>5. TaskApart(n)
    BY <2>3, <2>4 DEF TaskApart, RenewsApart, ProvidesApart, ProfileSteps, LookupSteps
  <2>6. \A k \in Handlers : task'[k] = task[k] \/ (k = h /\ task'[k] = n)
    BY <1>2 DEF PayWithCredits, TypeInv, TypeOK
  <2>7. \A k \in Handlers : task'[k] = task[k] \/ TaskApart(task[k])'
    BY <2>1, <2>5, <2>6, SameKnowledge
  <2>. QED
    BY <2>1, <2>2, <2>7, QuietApart
<1>. QED
  BY <1>1, <1>2

\* What a handler knew before the delivery began it still knows after a step that
\* keeps the order and the target.
LEMMA EarlyApart ==
    ASSUME NEW t, NEW n, TaskApart(t), n.order = t.order, n.target = t.target, ~n.created,
           t.pc \in {"claim", "alert"}, n.pc \in {"alert", "context"}
    PROVE  TaskApart(n)
<1>1. CASE Renewal(t.order)
  BY <1>1 DEF TaskApart, RenewsApart, ProfileSteps
<1>2. CASE ~Renewal(t.order)
  BY <1>2 DEF TaskApart, ProvidesApart, ProfileSteps, LookupSteps
<1>. QED
  BY <1>1, <1>2

\* A handler without an order keeps apart.
LEMMA IdleApart == TaskApart(Idle)
BY DEF TaskApart, Idle

\* So does one that claims its order and reports it.
LEMMA ClaimApart ==
    ASSUME TypeInv, Consistent, Apart, NEW h \in Handlers, Claim(h) \/ SendAlert(h)
    PROVE  Apart'
<1>. DEFINE t == task[h]
            o == t.order
<1>1. /\ UNCHANGED <<panel, link, inflight, granted>>
      /\ t \in Task /\ o \in Orders /\ ~t.created /\ TaskApart(t)
  BY DEF Claim, SendAlert, database, history, TypeInv, TypeOK, Bounded, Consistent, TaskOK,
         ProfileSteps, Apart
<1>2. \A x \in Orders : order'[x].target = order[x].target /\ (Underway(x) => Underway(x)')
  BY <1>1 DEF Claim, SendAlert, database, Underway, TypeInv, TypeOK, OrderRow
<1>3. \E n : task' = [task EXCEPT ![h] = n] /\ TaskApart(n)
  <2>. DEFINE alert == [t EXCEPT !.pc = "alert"]
              go == [t EXCEPT !.pc = "context", !.attempt = 1]
  <2>1. /\ alert.order = o /\ alert.target = t.target /\ ~alert.created /\ alert.pc = "alert"
        /\ go.order = o /\ go.target = t.target /\ ~go.created /\ go.pc = "context"
    BY <1>1 DEF Task
  <2>2. t.pc \in {"claim", "alert"}
    BY DEF Claim, SendAlert
  <2>3. TaskApart(alert) /\ TaskApart(go)
    BY <1>1, <2>1, <2>2, EarlyApart
  <2>4. \E n \in {Idle, alert, go} : task' = [task EXCEPT ![h] = n]
    BY DEF Claim, SendAlert, TypeInv, TypeOK
  <2>. QED
    BY <2>3, <2>4, IdleApart
<1>4. PICK n : task' = [task EXCEPT ![h] = n] /\ TaskApart(n)
  BY <1>3
<1>5. task'[h] = n /\ \A k \in Handlers : k # h => task'[k] = task[k]
  BY <1>4 DEF TypeInv, TypeOK
<1>6. TaskApart(task[h])'
  BY <1>1, <1>4, <1>5, SameKnowledge
<1>. QED
  BY <1>1, <1>2, <1>5, <1>6, QuietApart

\* And one that ends, in whatever way.
LEMMA EndApart ==
    ASSUME TypeInv, Consistent, Apart, NEW h \in Handlers,
           FinishDelivery(h) \/ GiveUp(h) \/ Crash(h)
    PROVE  Apart'
<1>. DEFINE o == task[h].order
<1>1. /\ UNCHANGED <<panel, link, inflight, granted>> /\ o \in Orders
      /\ task' = [task EXCEPT ![h] = Idle]
  BY DEF FinishDelivery, GiveUp, Crash, database, history, TypeInv, Bounded
<1>2. \A x \in Orders : order'[x].target = order[x].target /\ (Underway(x) => Underway(x)')
  BY <1>1 DEF FinishDelivery, GiveUp, Crash, Update, database, Underway, TypeInv, TypeOK, OrderRow
<1>3. task'[h] = Idle /\ \A k \in Handlers : k # h => task'[k] = task[k]
  BY <1>1 DEF TypeInv, TypeOK
<1>4. TaskApart(task[h])'
  BY <1>1, <1>3, IdleApart, SameKnowledge
<1>. QED
  BY <1>1, <1>2, <1>3, <1>4, QuietApart

\* Looking for the profile of a renewal, or finding that there is none.
LEMMA FindTargetApart ==
    ASSUME OrdersDoNotMeet, TypeInv, Consistent, Apart, NEW h \in Handlers,
           ReadContext(h) \/ CheckTargetOwner(h) \/ FetchTarget(h)
    PROVE  Apart'
<1>. DEFINE t == task[h]
            o == t.order
<1>1. /\ t \in Task /\ Bounded(t) /\ o \in Orders /\ Holding(h) /\ ~t.created
      /\ TargetOK(o, t.target) /\ TaskApart(t) /\ t.pc \in {"context", "owner", "fetch"}
  BY DEF TypeInv, TypeOK, Bounded, Holding, Consistent, TaskOK, ProfileSteps, Apart,
         ReadContext, CheckTargetOwner, FetchTarget
<1>2. \A r \in BOOLEAN : Pending(h, r) => Apart'
  BY <1>1, PendingApart
<1>3. ~Renewal(o) => (Attached(o) => t.target # PurchaseTarget[o])
  BY <1>1 DEF TaskApart, ProvidesApart
<1>4. CASE ReadContext(h)
  <2>. DEFINE first == Cardinality(Links(Buyer[o]))
              n == [t EXCEPT !.start = first, !.ordinal = first,
                             !.pc = IF t.target = NoProfile THEN "lookup" ELSE "owner"]
  <2>1. CASE o \in Undeliverable
    BY <1>2, <1>4, <2>1 DEF ReadContext
  <2>2. CASE o \notin Undeliverable
    <3>1. Step(h, n)
      BY <1>4, <2>2 DEF ReadContext
    <3>2. /\ n.order = o /\ n.target = t.target /\ ~n.created /\ n.ordinal = first
          /\ n.pc = IF t.target = NoProfile THEN "lookup" ELSE "owner"
      BY <1>1 DEF Task
    <3>3. CASE Renewal(o)
      <4>1. t.target # NoProfile
        BY <1>1, <3>3 DEF TargetOK, Renewal
      <4>2. TaskApart(n)
        BY <3>2, <3>3, <4>1 DEF TaskApart, RenewsApart, ProfileSteps
      <4>. QED
        BY <3>1, <4>2, MoveApart
    <3>4. CASE ~Renewal(o)
      <4>1. t.target = PurchaseTarget[o] => first = FirstName(o)
        BY <1>1, <1>3, <3>4, LinksStay
      <4>2. t.target = NoProfile => t.target = PurchaseTarget[o]
        BY <1>1, <3>4, DataAssumption DEF TargetOK, TypeInv, TypeOK
      <4>3. Passed(o, FirstName(o)) /\ FirstName(o) <= FirstName(o)
        <5>1. \A i \in Ordinals : ~(FirstName(o) <= i /\ i < FirstName(o))
          BY <1>1, FirstNameType, FirstOrdinal, BoundAssumption DEF Ordinals
        <5>. QED
          BY <1>1, <5>1, FirstNameType DEF Passed
      <4>4. ProvidesApart(n)
        BY <1>3, <3>2, <3>4, <4>1, <4>2, <4>3 DEF ProvidesApart, ProfileSteps, LookupSteps
      <4>. QED
        BY <3>1, <3>2, <3>4, <4>4, MoveApart DEF TaskApart
    <3>. QED
      BY <3>3, <3>4
  <2>. QED
    BY <2>1, <2>2
<1>5. CASE CheckTargetOwner(h)
  <2>. DEFINE n == [t EXCEPT !.pc = "fetch"]
  <2>1. Step(h, n) \/ Pending(h, FALSE)
    BY <1>5 DEF CheckTargetOwner
  <2>2. /\ n.order = o /\ n.target = t.target /\ ~n.created /\ n.ordinal = t.ordinal
        /\ n.pc = "fetch" /\ t.pc = "owner"
    BY <1>1, <1>5 DEF CheckTargetOwner, Task
  <2>3. TaskApart(n)
    BY <1>1, <2>2 DEF TaskApart, RenewsApart, ProvidesApart, ProfileSteps, LookupSteps
  <2>. QED
    BY <1>2, <2>1, <2>3, MoveApart
<1>6. CASE FetchTarget(h)
  <2>1. t.target \in Profiles /\ t.pc = "fetch"
    BY <1>1, <1>6 DEF FetchTarget, Bounded
  <2>2. CASE panel[t.target].exists /\ Step(h, Snapshot(t, t.target))
    <3>1. CASE Renewal(o)
      BY <1>1, <2>2, <3>1, SnapshotRenews, MoveApart DEF TargetOK
    <3>2. CASE ~Renewal(o)
      <4>1. t.target # PurchaseTarget[o]
        BY <1>1, <2>1, <2>2, <3>2, TargetIsGone
      <4>2. <<o, t.target>> \in granted
        BY <1>1, <3>2, <4>1 DEF TargetOK
      <4>3. panel[t.target].mark = Provisioning(o)
        BY <1>1, <2>1, <3>2, <4>2, ResultMark DEF Apart, PanelApart
      <4>. QED
        BY <1>1, <2>1, <2>2, <3>2, <4>1, <4>3, SnapshotProvides, MoveApart
    <3>. QED
      BY <3>1, <3>2
  <2>3. CASE ~panel[t.target].exists /\ Step(h, [t EXCEPT !.pc = "lookup"])
    <3>. DEFINE n == [t EXCEPT !.pc = "lookup"]
    <3>1. /\ n.order = o /\ n.target = t.target /\ ~n.created /\ n.pc = "lookup"
          /\ n.ordinal = t.ordinal
      BY <1>1 DEF Task
    <3>2. ~Renewal(o)
      BY <1>1, <2>1, <2>3 DEF TargetOK, Renewal, Consistent, PanelOK
    <3>3. t.target = PurchaseTarget[o]
      BY <1>1, <2>1, <2>3, <3>2 DEF TargetOK, Consistent, GrantOK
    <3>4. t.ordinal = FirstName(o)
      BY <1>1, <2>1, <3>2, <3>3 DEF TaskApart, ProvidesApart
    <3>5. Passed(o, FirstName(o)) /\ FirstName(o) <= FirstName(o)
      <4>1. \A i \in Ordinals : ~(FirstName(o) <= i /\ i < FirstName(o))
        BY <1>1, FirstNameType, FirstOrdinal, BoundAssumption DEF Ordinals
      <4>. QED
        BY <1>1, <4>1, FirstNameType DEF Passed
    <3>6. ProvidesApart(n)
      BY <1>3, <3>1, <3>2, <3>3, <3>4, <3>5 DEF ProvidesApart, ProfileSteps
    <3>. QED
      BY <2>3, <3>1, <3>2, <3>6, MoveApart DEF TaskApart
  <2>. QED
    BY <1>2, <1>6, <2>2, <2>3 DEF FetchTarget, PanelError
<1>. QED
  BY <1>4, <1>5, <1>6

\* A provision asks for its own result under a name it may reach.
LEMMA CreateAsksForResult ==
    ASSUME TypeInv, Consistent, Apart, NEW h \in Handlers, task[h].pc = "create"
    PROVE  /\ CreateWrite(task[h]) \in PanelWrite /\ CreateWrite(task[h]).order = task[h].order
           /\ WriteApart(CreateWrite(task[h]))
<1>. DEFINE t == task[h]
            o == t.order
            p == CandidateName(t)
            w == CreateWrite(t)
<1>1. /\ t \in Task /\ Bounded(t) /\ t.pc \in LookupSteps /\ TaskOK(t) /\ TaskApart(t)
  BY DEF TypeInv, TypeOK, Consistent, Apart, LookupSteps
<1>2. o \in Orders /\ p \in Profiles /\ ~Renewal(o) /\ Underway(o)
  BY <1>1, SearchType DEF TaskOK, Searching, HeldRow, Underway, LookupSteps
<1>3. FirstName(o) <= t.ordinal /\ Passed(o, t.ordinal)
  BY <1>1, <1>2 DEF TaskApart, ProvidesApart, LookupSteps
<1>4. /\ w.order = o /\ w.profile = p /\ w.create /\ w.mark = Provisioning(o)
      /\ w.days = DaysOrdered[o] /\ w.capped = (o \in Capped) /\ w \in PanelWrite
  BY <1>2, MarkTypes, DataAssumption DEF CreateWrite, PanelWrite
<1>5. Reached(o, p)
  <2>1. t.ordinal \in Ordinals
    BY <1>1 DEF Task
  <2>. QED
    BY <1>3, <2>1 DEF Reached, CandidateName, NameOf
<1>. QED
  BY <1>2, <1>4, <1>5 DEF WriteApart, Destined, Result, Provided

\* Looking for a name and creating a profile under it.
LEMMA FindNameApart ==
    ASSUME OrdersDoNotMeet, TypeInv, Consistent, Apart, NEW h \in Handlers,
           LookupName(h) \/ CreateProfile(h) \/ VerifyCreate(h) \/ ReadBackCreated(h)
    PROVE  Apart'
<1>. DEFINE t == task[h]
            o == t.order
            p == CandidateName(t)
<1>1. /\ t \in Task /\ Bounded(t) /\ t.pc \in LookupSteps /\ TaskOK(t) /\ TaskApart(t)
  BY DEF TypeInv, TypeOK, Consistent, Apart, LookupName, CreateProfile, VerifyCreate,
         ReadBackCreated, LookupSteps
<1>2. /\ o \in Orders /\ p \in Profiles /\ Holding(h) /\ ~t.created /\ ~Renewal(o)
      /\ t.pc # "finish" /\ t.pc # "idle"
  BY <1>1, SearchType DEF TaskOK, Searching, Holding, LookupSteps, ProfileSteps
<1>3. /\ ~Attached(o) /\ t.target = PurchaseTarget[o]
      /\ FirstName(o) <= t.ordinal /\ Passed(o, t.ordinal)
  BY <1>1, <1>2 DEF TaskApart, ProvidesApart, LookupSteps
<1>4. \A r \in BOOLEAN : Pending(h, r) => Apart'
  BY <1>2, PendingApart
<1>5. Taken(o, p) /\ Step(h, NextName(t)) => Apart'
  BY <1>1, <1>2, NextNameApart, MoveApart
<1>6. /\ Adoptable(t, p) /\ Step(h, Snapshot(t, p)) => Apart'
      /\ Adoptable(t, p) /\ Step(h, [Snapshot(t, p) EXCEPT !.created = TRUE]) => Apart'
  BY <1>1, <1>2, <1>3, SnapshotProvides, MoveApart DEF Adoptable
<1>7. ASSUME NEW s \in LookupSteps
      PROVE  LET n == [t EXCEPT !.pc = s] IN
             /\ n.order = o /\ n.target = t.target /\ n.pc = s /\ n.ordinal = t.ordinal
             /\ ProvidesApart(n)
  <2>. DEFINE n == [t EXCEPT !.pc = s]
  <2>1. n.order = o /\ n.target = t.target /\ n.pc = s /\ n.ordinal = t.ordinal
    BY <1>1 DEF Task
  <2>. QED
    BY <1>3, <2>1 DEF ProvidesApart, LookupSteps, ProfileSteps
<1>8. CASE LookupName(h)
  <2>1. \/ \E r \in BOOLEAN : Pending(h, r)
        \/ Step(h, [t EXCEPT !.pc = "create"])
        \/ Adoptable(t, p) /\ Step(h, Snapshot(t, p))
        \/ panel[p].exists /\ ~Adoptable(t, p) /\ Step(h, NextName(t))
    BY <1>8 DEF LookupName, PanelError
  <2>2. Step(h, [t EXCEPT !.pc = "create"]) => Apart'
    <3>1. TaskApart([t EXCEPT !.pc = "create"])
      BY <1>2, <1>7 DEF TaskApart, LookupSteps
    <3>. QED
      BY <3>1, MoveApart
  <2>. QED
    BY <1>4, <1>5, <1>6, <2>1, <2>2 DEF Taken, Adoptable
<1>9. CASE VerifyCreate(h)
  <2>1. \/ \E r \in BOOLEAN : Pending(h, r)
        \/ Adoptable(t, p) /\ Step(h, Snapshot(t, p))
        \/ panel[p].exists /\ ~Adoptable(t, p) /\ Step(h, NextName(t))
    BY <1>9 DEF VerifyCreate, PanelError
  <2>. QED
    BY <1>4, <1>5, <1>6, <2>1 DEF Taken, Adoptable
<1>10. CASE ReadBackCreated(h)
  <2>. DEFINE n == [t EXCEPT !.profile = p, !.mark = Provisioning(t.order),
                            !.days = DaysOrdered[t.order], !.capped = FALSE,
                            !.created = TRUE, !.pc = "attach"]
  <2>1. \/ Step(h, n)
        \/ Adoptable(t, p) /\ Step(h, [Snapshot(t, p) EXCEPT !.created = TRUE])
        \/ panel[p].exists /\ ~Adoptable(t, p) /\ Step(h, NextName(t))
    BY <1>10 DEF ReadBackCreated
  <2>2. n.order = o /\ n.created /\ n.pc = "attach"
    BY <1>1 DEF Task
  <2>3. TaskApart(n)
    BY <1>2, <1>3, <2>2 DEF TaskApart, ProvidesApart, AlreadyApplied, LookupSteps
  <2>. QED
    BY <1>5, <1>6, <2>1, <2>3, MoveApart DEF Taken, Adoptable
<1>11. CASE CreateProfile(h)
  <2>. DEFINE w == CreateWrite(t)
              at(s) == [t EXCEPT !.pc = s]
  <2>1. w \in PanelWrite /\ WriteApart(w)
    BY <1>11, CreateAsksForResult DEF CreateProfile
  <2>5. PanelCall(h, w, at("readBack"), at("verifyCreate"))
    BY <1>11 DEF CreateProfile
  <2>6. /\ UNCHANGED <<order, link>>
        /\ (Accepted(w) /\ PanelApply(w)) \/ UNCHANGED <<panel, granted>>
        /\ inflight' \subseteq inflight \cup {w}
    BY <2>5 DEF PanelCall, database
  <2>7. PICK s \in {"readBack", "verifyCreate"} : task' = [task EXCEPT ![h] = at(s)]
    BY <2>5 DEF PanelCall
  <2>8. /\ at(s).order = o /\ at(s).target = t.target /\ at(s).pc = s
        /\ at(s).ordinal = t.ordinal
    BY <1>7 DEF LookupSteps
  <2>9. task'[h] = at(s) /\ \A k \in Handlers : k # h => task'[k] = task[k]
    BY <2>7 DEF TypeInv, TypeOK
  <2>10. PICK c \in Orders : c = o
    BY <1>2
  <2>11. ProvidesApart(at(s))
    BY <1>7 DEF LookupSteps
  <2>12. TakenStays /\ NothingAttached => TaskApart(task[h])'
    BY <1>2, <2>8, <2>9, <2>10, <2>11, KnowledgeKept
  <2>. QED
    BY <2>1, <2>6, <2>9, <2>12, WriteStepApart
<1>. QED
  BY <1>8, <1>9, <1>10, <1>11

\* A renewal asks for its own result on its profile.
LEMMA ApplyAsksForResult ==
    ASSUME TypeInv, Consistent, Apart, NEW h \in Handlers, task[h].pc = "apply"
    PROVE  /\ ApplyWrite(task[h]) \in PanelWrite /\ ApplyWrite(task[h]).order = task[h].order
           /\ WriteApart(ApplyWrite(task[h]))
<1>. DEFINE t == task[h]
            o == t.order
            p == t.profile
            w == ApplyWrite(t)
<1>1. /\ t \in Task /\ o \in Orders /\ p \in Profiles
      /\ Found(t) /\ TaskApart(t) /\ Underway(o)
  BY DEF TypeInv, TypeOK, Bounded, Consistent, TaskOK, HeldRow, ProfileSteps, Apart, Underway
<1>2. /\ Renewal(o) /\ p = PurchaseTarget[o]
      /\ t.days = InitialPanel[p].days /\ t.capped = InitialPanel[p].capped
  BY <1>1 DEF TaskApart, ProvidesApart, RenewsApart, Found, ProfileSteps
<1>3. /\ w.order = o /\ w.profile = p /\ ~w.create /\ w.mark = Delivery(o)
      /\ w.days = NewTotal(t) /\ w.capped = (o \in Capped) /\ w \in PanelWrite
  BY <1>1, ApplyWriteType DEF ApplyWrite
<1>4. WriteApart(w)
  BY <1>1, <1>2, <1>3 DEF WriteApart, Destined, Result, Extended, NewTotal
<1>. QED
  BY <1>3, <1>4

\* Linking the profile and extending it.
LEMMA ExtendApart ==
    ASSUME OrdersDoNotMeet, OrdersApart, TypeInv, Consistent, Apart, NEW h \in Handlers,
           AttachSubscription(h) \/ ApplyDays(h) \/ VerifyApply(h)
    PROVE  Apart'
<1>. DEFINE t == task[h]
            o == t.order
            p == t.profile
            at(s) == [t EXCEPT !.pc = s]
<1>1. /\ t \in Task /\ o \in Orders /\ Holding(h) /\ t.pc \in {"attach", "apply", "verifyApply"}
      /\ p \in Profiles /\ Found(t) /\ TaskApart(t) /\ Underway(o)
  BY DEF TypeInv, TypeOK, Bounded, Consistent, TaskOK, HeldRow, Holding, ProfileSteps, Apart,
         Underway, AttachSubscription, ApplyDays, VerifyApply
<1>2. \A r \in BOOLEAN : Pending(h, r) => Apart'
  BY <1>1, PendingApart
<1>3. t.pc # "attach" =>
        /\ Renewal(o) /\ RenewsApart(t) /\ p = PurchaseTarget[o]
        /\ t.days = InitialPanel[p].days /\ t.capped = InitialPanel[p].capped
  BY <1>1 DEF TaskApart, ProvidesApart, RenewsApart, Found, ProfileSteps
<1>4. ASSUME t.pc # "attach", NEW s \in {"verifyApply", "finish"}
      PROVE  at(s).order = o /\ RenewsApart(at(s))
  <2>1. /\ at(s).order = o /\ at(s).created = t.created /\ at(s).mark = t.mark
        /\ at(s).days = t.days /\ at(s).capped = t.capped /\ at(s).pc = s
    BY <1>1 DEF Task
  <2>2. AlreadyApplied(at(s)) <=> AlreadyApplied(t)
    BY <2>1 DEF AlreadyApplied
  <2>. QED
    BY <1>1, <1>3, <1>4, <2>1, <2>2 DEF RenewsApart, ProfileSteps
<1>5. CASE AttachSubscription(h)
  <2>1. CASE link[p] \in {NoUser, Buyer[o]}
    BY <1>5, <2>1, AttachApart
  <2>2. CASE link[p] \notin {NoUser, Buyer[o]}
    BY <1>2, <1>5, <2>2 DEF AttachSubscription
  <2>. QED
    BY <2>1, <2>2
<1>6. CASE VerifyApply(h)
  <2>1. CASE Step(h, at("finish"))
    <3>1. TaskApart(at("finish"))
      BY <1>3, <1>4, <1>6 DEF VerifyApply, TaskApart
    <3>. QED
      BY <2>1, <3>1, MoveApart
  <2>. QED
    BY <1>2, <1>6, <2>1 DEF VerifyApply, PanelError
<1>7. CASE ApplyDays(h)
  <2>. DEFINE w == ApplyWrite(t)
  <2>1. w \in PanelWrite /\ WriteApart(w) /\ Renewal(o)
    BY <1>3, <1>7, ApplyAsksForResult DEF ApplyDays
  <2>4. PanelCall(h, w, at("finish"), at("verifyApply"))
    BY <1>7 DEF ApplyDays
  <2>5. /\ UNCHANGED <<order, link>>
        /\ (Accepted(w) /\ PanelApply(w)) \/ UNCHANGED <<panel, granted>>
        /\ inflight' \subseteq inflight \cup {w}
    BY <2>4 DEF PanelCall, database
  <2>6. PICK s \in {"verifyApply", "finish"} : task' = [task EXCEPT ![h] = at(s)]
    BY <2>4 DEF PanelCall
  <2>7. task'[h] = at(s) /\ \A k \in Handlers : k # h => task'[k] = task[k]
    BY <2>6 DEF TypeInv, TypeOK
  <2>8. at(s).order = o /\ RenewsApart(at(s))
    BY <1>4, <1>7 DEF ApplyDays
  <2>9. TaskApart(task[h])'
    BY <2>1, <2>7, <2>8 DEF TaskApart, RenewsApart, Renewal, AlreadyApplied, Provisioning, Delivery
  <2>. QED
    BY <2>1, <2>5, <2>7, <2>9, WriteStepApart
<1>. QED
  BY <1>5, <1>6, <1>7

\* Every step keeps the orders apart, as long as no two handlers share one.
LEMMA ApartStep ==
    ASSUME OrdersDoNotMeet
    PROVE  TypeInv /\ Consistent /\ OrdersApart /\ Apart /\ [Next]_vars => Apart'
<1>. SUFFICES ASSUME TypeInv, Consistent, OrdersApart, Apart, [Next]_vars PROVE Apart'
  OBVIOUS
<1>1. ASSUME NEW o \in Orders, Purchase(o) PROVE Apart'
  BY <1>1, PurchaseApart
<1>2. ASSUME NEW h \in Handlers, NEW o \in Orders, ReceiveWebhook(h, o) \/ PayWithCredits(h, o)
      PROVE  Apart'
  BY <1>2, WebhookApart
<1>3. ASSUME NEW h \in Handlers, Proceed(h) PROVE Apart'
  BY <1>3, ClaimApart, FindTargetApart, FindNameApart, ExtendApart, EndApart DEF Proceed
<1>4. ASSUME NEW h \in Handlers, Crash(h) PROVE Apart'
  BY <1>4, EndApart
<1>5. ASSUME NEW w \in inflight, Land(w) PROVE Apart'
  <2>1. w \in PanelWrite /\ WriteApart(w)
    BY DEF TypeInv, TypeOK, Apart
  <2>2. /\ UNCHANGED <<order, link, task>> /\ inflight' \subseteq inflight \cup {w}
        /\ (Accepted(w) /\ PanelApply(w)) \/ UNCHANGED <<panel, granted>>
    BY <1>5 DEF Land, database
  <2>. QED
    BY <2>1, <2>2, WriteStepApart
<1>6. CASE UNCHANGED vars
  <2>1. UNCHANGED <<panel, link, inflight, granted, order, task>>
    BY <1>6 DEF vars
  <2>. QED
    BY <2>1, QuietApart DEF Underway
<1>. QED
  BY <1>1, <1>2, <1>3, <1>4, <1>5, <1>6 DEF Next

\* Whatever becomes of the requests and of the handlers, an order writes one thing to
\* one profile.
THEOREM OrdersStayApart ==
    ASSUME OrdersDoNotMeet
    PROVE  Spec /\ []OrdersApart => [](Apart /\ DoneIsLeft)
<1>1. Init => Apart /\ DoneIsLeft
  BY ApartInit
<1>2. TypeInv /\ Consistent /\ OrdersApart /\ Apart /\ [Next]_vars => Apart'
  BY ApartStep
<1>3. TypeInv /\ OrdersApart /\ DoneIsLeft /\ [Next]_vars => DoneIsLeft'
  BY DoneStep
<1>. QED
  BY <1>1, <1>2, <1>3, ConsistentAlways, PTL DEF Spec

\* One order never provisions two profiles, nor extends one and creates another:
\* a create whose answer was lost, or that lands after the retry, finds its name
\* taken, and a retry finds the marker.
THEOREM ProvidesOnce ==
    ASSUME OrdersDoNotMeet
    PROVE  Spec /\ []OrdersApart => []OneProfilePerOrder
<1>1. TypeInv /\ Apart => OneProfilePerOrder
  BY OneProfile DEF OneProfilePerOrder, Apart
<1>. QED
  BY <1>1, OrdersStayApart, ConsistentAlways, PTL

-----------------------------------------------------------------------------
(* The refinement *)

\* The state of the contract, as the mapping has it.
LEMMA PhaseOf ==
    ASSUME TypeInv, NEW o \in Orders
    PROVE  Phase(o) = IF order[o].delivered = 1 THEN "delivered"
                      ELSE IF order[o].status \in {"none", "created"} THEN "open"
                      ELSE IF order[o].status \in {"failed", "deleted"} THEN "dropped"
                      ELSE "accepted"
<1>1. order[o] \in OrderRow
  BY DEF TypeInv, TypeOK
<1>. QED
  BY <1>1 DEF Phase, OrderRow

\* A step that changes neither phases, nor grants, nor days.
LEMMA ContractStutters ==
    ASSUME \A o \in Orders : Phase(o)' = Phase(o), UNCHANGED granted,
           \A p \in Profiles : panel'[p].days = panel[p].days
    PROVE  UNCHANGED Contract!contractVars
<1>1. \A p \in Profiles : KeptDays(p)' = KeptDays(p)
  BY DEF KeptDays
<1>. QED
  BY <1>1 DEF Contract!contractVars

\* The purchase, the claim and the end of a delivery move one order.
LEMMA ContractMoves ==
    ASSUME NEW o \in Orders, \A x \in Orders : x # o => Phase(x)' = Phase(x),
           UNCHANGED granted, \A p \in Profiles : panel'[p].days = panel[p].days,
           \/ Phase(o) = "open" /\ Phase(o)' \in {"dropped", "accepted"}
           \/ /\ Phase(o) = "accepted" /\ Phase(o)' = "delivered"
              /\ \E p \in Profiles : <<o, p>> \in granted
    PROVE  Contract!Next
<1>. DEFINE ph == [x \in Orders |-> Phase(x)]
            ap == {x \in Orders : \E p \in Profiles : <<x, p>> \in granted}
            bo == [p \in Profiles |-> panel[p].days - KeptDays(p)]
<1>1. \A p \in Profiles : KeptDays(p)' = KeptDays(p)
  BY DEF KeptDays
<1>2. UNCHANGED <<ap, bo>>
  BY <1>1
<1>3. ph' = [ph EXCEPT ![o] = Phase(o)']
  OBVIOUS
<1>4. ph[o] = Phase(o)
  OBVIOUS
<1>5. CASE Phase(o) = "open" /\ Phase(o)' = "dropped"
  <2>1. Contract!Drop(o)
    BY <1>2, <1>3, <1>4, <1>5 DEF Contract!Drop
  <2>. QED
    BY <2>1 DEF Contract!Next
<1>6. CASE Phase(o) = "open" /\ Phase(o)' = "accepted"
  <2>1. Contract!Accept(o)
    BY <1>2, <1>3, <1>4, <1>6 DEF Contract!Accept
  <2>. QED
    BY <2>1 DEF Contract!Next
<1>7. CASE /\ Phase(o) = "accepted" /\ Phase(o)' = "delivered"
           /\ \E p \in Profiles : <<o, p>> \in granted
  <2>1. Contract!Deliver(o)
    BY <1>2, <1>3, <1>4, <1>7 DEF Contract!Deliver
  <2>. QED
    BY <2>1 DEF Contract!Next
<1>. QED
  BY <1>5, <1>6, <1>7

\* A request that the panel carries out applies the order's days, or is a repetition.
LEMMA ContractApplies ==
    ASSUME OrdersDoNotMeet, TypeInv, Consistent, Apart, NEW w \in PanelWrite, WriteApart(w),
           \/ Accepted(w) /\ PanelApply(w)
           \/ UNCHANGED <<panel, granted>>,
           UNCHANGED order
    PROVE  Contract!Next \/ UNCHANGED Contract!contractVars
<1>. DEFINE o == w.order
            p == w.profile
            ph == [x \in Orders |-> Phase(x)]
            ap == {x \in Orders : \E r \in Profiles : <<x, r>> \in granted}
            bo == [r \in Profiles |-> panel[r].days - KeptDays(r)]
<1>1. o \in Orders /\ p \in Profiles /\ DaysOrdered[o] \in Nat
  BY DataAssumption DEF PanelWrite
<1>2. \A x \in Orders : Phase(x)' = Phase(x)
  BY DEF Phase
<1>3. CASE UNCHANGED <<panel, granted>>
  BY <1>2, <1>3, ContractStutters
<1>4. CASE Accepted(w) /\ FirstWrite(o, p)
  <2>1. o \notin ap /\ ap' = ap \cup {o}
    BY <1>1, <1>4 DEF FirstWrite
  <2>2. ph[o] = "accepted" /\ UNCHANGED ph
    <3>1. order[o].delivered # 1
      <4>. SUFFICES ASSUME order[o].delivered = 1 PROVE FALSE
        OBVIOUS
      <4>1. <<o, order[o].target>> \in granted
        BY <1>1 DEF Consistent, DeliveredToTarget
      <4>2. order[o].target \in Profiles
        BY <4>1 DEF TypeInv, TypeOK
      <4>. QED
        BY <1>4, <4>1, <4>2 DEF FirstWrite
    <3>2. Phase(o) = "accepted"
      BY <1>1, <3>1, PhaseOf DEF WriteApart, Underway
    <3>. QED
      BY <1>1, <1>2, <3>2
  <2>3. \A r \in Profiles : /\ panel'[r] = IF r = p THEN Result(o) ELSE panel[r]
                            /\ r # p => KeptDays(r)' = KeptDays(r)
    BY <1>1, <1>4 DEF FirstWrite, TypeInv, TypeOK, KeptDays
  <2>4. panel[p] = Untouched(p) /\ KeptDays(p) = InitialPanel[p].days
    BY <1>1, <1>4 DEF FirstWrite, Apart, PanelApart, KeptDays
  <2>5. KeptDays(p)' = IF InitialPanel[p].capped THEN 0 ELSE InitialPanel[p].days
    BY <1>1, <1>4 DEF FirstWrite, KeptDays
  <2>6. InitialPanel[p].days \in Nat
    BY <1>1, InitialAssumption
  <2>7. Result(o).days - KeptDays(p)' = DaysOrdered[o]
    <3>1. CASE Renewal(o)
      <4>1. p = PurchaseTarget[o]
        BY <3>1 DEF WriteApart, Destined
      <4>2. Result(o).days = IF InitialPanel[p].days > 0 /\ ~InitialPanel[p].capped
                             THEN InitialPanel[p].days + DaysOrdered[o] ELSE DaysOrdered[o]
        BY <3>1, <4>1 DEF Result, Extended
      <4>. QED
        BY <1>1, <2>5, <2>6, <4>2
    <3>2. CASE ~Renewal(o)
      <4>1. ~InitialPanel[p].exists
        BY <1>1, <1>4, <3>2 DEF WriteApart, Accepted, Consistent, PanelOK
      <4>2. InitialPanel[p].days = 0 /\ Result(o).days = DaysOrdered[o]
        BY <1>1, <3>2, <4>1, InitialAssumption DEF Result, Provided
      <4>. QED
        BY <1>1, <2>5, <4>2
    <3>. QED
      BY <3>1, <3>2
  <2>8. bo[p] = 0
    BY <1>1, <2>4, <2>6 DEF Untouched
  <2>9. bo' = [bo EXCEPT ![p] = @ + DaysOrdered[o]]
    <3>1. \A r \in Profiles : r # p => panel'[r].days - KeptDays(r)' = panel[r].days - KeptDays(r)
      BY <2>3
    <3>2. panel'[p].days - KeptDays(p)' = bo[p] + DaysOrdered[o]
      BY <1>1, <2>3, <2>7, <2>8
    <3>. QED
      BY <3>1, <3>2
  <2>10. Contract!Apply(o, p)
    BY <2>1, <2>2, <2>9 DEF Contract!Apply
  <2>. QED
    BY <1>1, <2>10 DEF Contract!Next
<1>. QED
  BY <1>3, <1>4, WriteOnce

\* Initially nothing is bought.
LEMMA ContractInit == Init => Contract!Init
<1>. SUFFICES ASSUME Init PROVE Contract!Init
  OBVIOUS
<1>1. \A o \in Orders : Phase(o) = "open"
  BY DEF Init, Phase
<1>2. \A p \in Profiles : panel[p].days - KeptDays(p) = 0
  BY InitialAssumption DEF Init, KeptDays
<1>3. granted = {}
  BY DEF Init
<1>. QED
  BY <1>1, <1>2, <1>3 DEF Contract!Init

\* Steps that leave the panel alone and at most reword the row.
LEMMA RowsStutter ==
    ASSUME TypeInv, TypeInv', UNCHANGED <<panel, granted>>,
           \A x \in Orders :
             \/ order'[x].status = order[x].status /\ order'[x].delivered = order[x].delivered
             \/ /\ order[x].delivered # 1 /\ order'[x].delivered # 1
                /\ \/ Underway(x) /\ Underway(x)'
                   \/ {order[x].status, order'[x].status} = {"none", "created"}
    PROVE  UNCHANGED Contract!contractVars
<1>. SUFFICES ASSUME NEW x \in Orders PROVE Phase(x)' = Phase(x)
  BY ContractStutters
<1>1. Phase(x) = IF order[x].delivered = 1 THEN "delivered"
                 ELSE IF order[x].status \in {"none", "created"} THEN "open"
                 ELSE IF order[x].status \in {"failed", "deleted"} THEN "dropped"
                 ELSE "accepted"
  BY PhaseOf
<1>2. Phase(x)' = IF order'[x].delivered = 1 THEN "delivered"
                  ELSE IF order'[x].status \in {"none", "created"} THEN "open"
                  ELSE IF order'[x].status \in {"failed", "deleted"} THEN "dropped"
                  ELSE "accepted"
  <2>1. order'[x] \in OrderRow
    BY DEF TypeInv, TypeOK
  <2>. QED
    BY <2>1 DEF Phase, OrderRow
<1>. QED
  BY <1>1, <1>2 DEF Underway

\* Steps that move one row.
LEMMA RowMoves ==
    ASSUME TypeInv, TypeInv', UNCHANGED <<panel, granted>>, NEW o \in Orders,
           \A x \in Orders : x # o => order'[x] = order[x],
           \/ /\ order[o].status \in {"none", "created"} /\ order[o].delivered # 1
              /\ order'[o].status \in {"confirmed", "failed", "deleted"}
              /\ order'[o].delivered # 1
           \/ /\ Underway(o) /\ order[o].delivered # 1
              /\ order'[o].delivered = 1 /\ \E p \in Profiles : <<o, p>> \in granted
    PROVE  Contract!Next
<1>1. Phase(o) = IF order[o].delivered = 1 THEN "delivered"
                 ELSE IF order[o].status \in {"none", "created"} THEN "open"
                 ELSE IF order[o].status \in {"failed", "deleted"} THEN "dropped"
                 ELSE "accepted"
  BY PhaseOf
<1>2. Phase(o)' = IF order'[o].delivered = 1 THEN "delivered"
                  ELSE IF order'[o].status \in {"none", "created"} THEN "open"
                  ELSE IF order'[o].status \in {"failed", "deleted"} THEN "dropped"
                  ELSE "accepted"
  <2>1. order'[o] \in OrderRow
    BY DEF TypeInv, TypeOK
  <2>. QED
    BY <2>1 DEF Phase, OrderRow
<1>3. \A x \in Orders : x # o => Phase(x)' = Phase(x)
  BY DEF Phase
<1>. QED
  BY <1>1, <1>2, <1>3, ContractMoves DEF Underway

\* A handler of an order holds a row in work that was not delivered.
LEMMA HeldUndelivered ==
    ASSUME TypeInv, Consistent, DoneIsLeft, NEW h \in Handlers, Holding(h)
    PROVE  LET o == task[h].order IN
           o \in Orders /\ Underway(o) /\ order[o].delivered # 1
BY DEF TypeInv, Bounded, Holding, Consistent, TaskOK, HeldRow, Underway, DoneIsLeft, WorksOn

\* The steps of the purchase.
LEMMA PurchaseContract ==
    ASSUME TypeInv, TypeInv', DoneIsLeft, NEW o \in Orders, Purchase(o)
    PROVE  Contract!Next \/ UNCHANGED Contract!contractVars
<1>1. UNCHANGED <<panel, granted>>
  BY DEF Purchase, CreateInvoice, CreateTransaction, SendStarsInvoice, CleanupStale, history
<1>2. CASE UNCHANGED order
  BY <1>1, <1>2, RowsStutter
<1>3. CASE CreateTransaction(o)
  <2>1. \A x \in Orders :
          \/ order'[x] = order[x]
          \/ /\ order[x].delivered # 1 /\ order'[x].delivered # 1
             /\ {order[x].status, order'[x].status} = {"none", "created"}
    BY <1>3 DEF CreateTransaction, DoneIsLeft, TypeInv, TypeOK, OrderRow
  <2>. QED
    BY <1>1, <2>1, RowsStutter
<1>4. CASE order[o].status = "created" /\ ~UNCHANGED order
           /\ (SendStarsInvoice(o) \/ CleanupStale(o))
  <2>1. order[o].delivered # 1
    BY <1>4 DEF DoneIsLeft
  <2>2. /\ order'[o].status \in {"failed", "deleted"} /\ order'[o].delivered # 1
        /\ \A x \in Orders : x # o => order'[x] = order[x]
    BY <1>4, <2>1 DEF SendStarsInvoice, CleanupStale, Update, TypeInv, TypeOK, OrderRow
  <2>. QED
    BY <1>1, <1>4, <2>1, <2>2, RowMoves
<1>. QED
  BY <1>2, <1>3, <1>4 DEF Purchase, CreateInvoice, SendStarsInvoice, CleanupStale, database

\* The steps of a handler.
LEMMA ProceedContract ==
    ASSUME OrdersDoNotMeet, TypeInv, TypeInv', Consistent, Apart, DoneIsLeft,
           NEW h \in Handlers, Proceed(h)
    PROVE  Contract!Next \/ UNCHANGED Contract!contractVars
<1>. DEFINE t == task[h]
            o == t.order
            Goal == Contract!Next \/ UNCHANGED Contract!contractVars
<1>1. UNCHANGED <<order, panel, granted>> => Goal
  BY RowsStutter
<1>2. Holding(h) => o \in Orders /\ Underway(o) /\ order[o].delivered # 1
  BY HeldUndelivered
<1>3. ASSUME NEW r \in BOOLEAN, Pending(h, r), Holding(h) PROVE Goal
  <2>1. UNCHANGED <<panel, granted>>
    BY <1>3 DEF Pending, history
  <2>2. \A x \in Orders :
          \/ order'[x] = order[x]
          \/ x = o /\ order'[x].status = "pending" /\ order'[x].delivered # 1
    BY <1>2, <1>3 DEF Pending, Update, TypeInv, TypeOK, OrderRow
  <2>3. \A x \in Orders :
          \/ order'[x].status = order[x].status /\ order'[x].delivered = order[x].delivered
          \/ /\ order[x].delivered # 1 /\ order'[x].delivered # 1
             /\ Underway(x) /\ Underway(x)'
    BY <1>2, <1>3, <2>2 DEF Underway
  <2>. QED
    BY <2>1, <2>3, RowsStutter
<1>4. CASE Claim(h)
  <2>1. UNCHANGED <<panel, granted>> /\ o \in Orders
    BY <1>4 DEF Claim, TypeInv, Bounded
  <2>2. CASE Claimable(o)
    <3>1. /\ order'[o].status = "confirmed" /\ order'[o].delivered = order[o].delivered
          /\ order[o].delivered # 1
          /\ \A x \in Orders : x # o => order'[x] = order[x]
      BY <1>4, <2>1, <2>2 DEF Claim, Claimable, TypeInv, TypeOK, OrderRow
    <3>2. CASE order[o].status = "created"
      BY <2>1, <3>1, <3>2, RowMoves
    <3>3. CASE order[o].status = "pending"
      <4>1. \A x \in Orders :
              \/ order'[x].status = order[x].status /\ order'[x].delivered = order[x].delivered
              \/ /\ order[x].delivered # 1 /\ order'[x].delivered # 1
                 /\ Underway(x) /\ Underway(x)'
        BY <3>1, <3>3 DEF Underway
      <4>. QED
        BY <2>1, <4>1, RowsStutter
    <3>. QED
      BY <2>2, <3>2, <3>3 DEF Claimable
  <2>3. CASE ~Claimable(o)
    BY <1>1, <1>4, <2>1, <2>3 DEF Claim
  <2>. QED
    BY <2>2, <2>3
<1>5. CASE SendAlert(h)
  BY <1>1, <1>5 DEF SendAlert, database
<1>6. CASE \/ ReadContext(h) \/ CheckTargetOwner(h) \/ FetchTarget(h) \/ LookupName(h)
           \/ VerifyCreate(h) \/ ReadBackCreated(h) \/ VerifyApply(h)
  <2>1. Holding(h)
    BY <1>6 DEF ReadContext, CheckTargetOwner, FetchTarget, LookupName, VerifyCreate,
                ReadBackCreated, VerifyApply, Holding
  <2>2. UNCHANGED <<order, panel, granted>> \/ \E r \in BOOLEAN : Pending(h, r)
    BY <1>6 DEF ReadContext, CheckTargetOwner, FetchTarget, LookupName, VerifyCreate,
                ReadBackCreated, VerifyApply, PanelError, Step, database, history
  <2>. QED
    BY <1>1, <1>3, <2>1, <2>2
<1>7. CASE CreateProfile(h)
  <2>1. CreateWrite(t) \in PanelWrite /\ WriteApart(CreateWrite(t))
    BY <1>7, CreateAsksForResult DEF CreateProfile
  <2>2. /\ UNCHANGED order
        /\ (Accepted(CreateWrite(t)) /\ PanelApply(CreateWrite(t))) \/ UNCHANGED <<panel, granted>>
    BY <1>7 DEF CreateProfile, PanelCall, database
  <2>. QED
    BY <2>1, <2>2, ContractApplies
<1>8. CASE ApplyDays(h)
  <2>1. ApplyWrite(t) \in PanelWrite /\ WriteApart(ApplyWrite(t))
    BY <1>8, ApplyAsksForResult DEF ApplyDays
  <2>2. /\ UNCHANGED order
        /\ (Accepted(ApplyWrite(t)) /\ PanelApply(ApplyWrite(t))) \/ UNCHANGED <<panel, granted>>
    BY <1>8 DEF ApplyDays, PanelCall, database
  <2>. QED
    BY <2>1, <2>2, ContractApplies
<1>9. CASE AttachSubscription(h)
  <2>1. Holding(h)
    BY <1>9 DEF AttachSubscription, Holding
  <2>2. CASE Pending(h, FALSE)
    BY <1>3, <2>1, <2>2
  <2>3. CASE UpdateTarget(o, t.profile) /\ UNCHANGED <<panel, granted>>
    <3>1. \A x \in Orders : /\ order'[x].delivered = order[x].delivered
                            /\ order'[x].status = order[x].status
      BY <2>3 DEF UpdateTarget, TypeInv, TypeOK, OrderRow
    <3>. QED
      BY <2>3, <3>1, RowsStutter
  <2>. QED
    BY <1>9, <2>2, <2>3 DEF AttachSubscription, history
<1>10. CASE GiveUp(h)
  <2>1. Holding(h) /\ UNCHANGED <<panel, granted>>
    BY <1>10 DEF GiveUp, Holding, history
  <2>2. \A x \in Orders :
          \/ order'[x] = order[x]
          \/ x = o /\ order'[x].status = "pending" /\ order'[x].delivered = order[x].delivered
    BY <1>2, <1>10, <2>1 DEF GiveUp, Update, TypeInv, TypeOK, OrderRow
  <2>3. \A x \in Orders :
          \/ order'[x].status = order[x].status /\ order'[x].delivered = order[x].delivered
          \/ /\ order[x].delivered # 1 /\ order'[x].delivered # 1
             /\ Underway(x) /\ Underway(x)'
    BY <1>2, <2>1, <2>2 DEF Underway
  <2>. QED
    BY <2>1, <2>3, RowsStutter
<1>11. CASE FinishDelivery(h)
  <2>1. Holding(h) /\ UNCHANGED <<panel, granted>>
    BY <1>11 DEF FinishDelivery, Holding, history
  <2>2. \E p \in Profiles : <<o, p>> \in granted
    BY <1>11 DEF FinishDelivery, Consistent, TaskOK, Found, ProfileSteps
  <2>3. order'[o].delivered = 1 /\ \A x \in Orders : x # o => order'[x] = order[x]
    BY <1>2, <1>11, <2>1 DEF FinishDelivery, Update, Underway, TypeInv, TypeOK, OrderRow
  <2>. QED
    BY <1>2, <2>1, <2>2, <2>3, RowMoves
<1>12. Goal
  BY <1>4, <1>5, <1>6, <1>7, <1>8, <1>9, <1>10, <1>11 DEF Proceed
<1>. QED
  BY <1>12

\* Every step of the delivery is a step of the contract, or none.
LEMMA ContractStep ==
    ASSUME OrdersDoNotMeet
    PROVE  TypeInv /\ TypeInv' /\ Consistent /\ Apart /\ DoneIsLeft /\ [Next]_vars =>
             Contract!Next \/ UNCHANGED Contract!contractVars
<1>. SUFFICES ASSUME TypeInv, TypeInv', Consistent, Apart, DoneIsLeft, [Next]_vars
              PROVE  Contract!Next \/ UNCHANGED Contract!contractVars
  OBVIOUS
<1>. DEFINE Goal == Contract!Next \/ UNCHANGED Contract!contractVars
<1>1. UNCHANGED <<order, panel, granted>> => Goal
  BY RowsStutter
<1>2. ASSUME NEW o \in Orders, Purchase(o) PROVE Goal
  BY <1>2, PurchaseContract
<1>3. ASSUME NEW h \in Handlers, NEW o \in Orders, ReceiveWebhook(h, o) PROVE Goal
  BY <1>1, <1>3 DEF ReceiveWebhook, database, history
<1>4. ASSUME NEW h \in Handlers, NEW o \in Orders, PayWithCredits(h, o) PROVE Goal
  <2>1. /\ order[o].status = "none" /\ order[o].delivered # 1
        /\ order' = [order EXCEPT ![o].status = "confirmed"]
        /\ UNCHANGED <<panel, granted>>
    BY <1>4 DEF PayWithCredits, DoneIsLeft, history
  <2>2. /\ order'[o].status = "confirmed" /\ order'[o].delivered # 1
        /\ \A x \in Orders : x # o => order'[x] = order[x]
    BY <2>1 DEF TypeInv, TypeOK, OrderRow
  <2>. QED
    BY <2>1, <2>2, RowMoves
<1>5. ASSUME NEW h \in Handlers, Proceed(h) PROVE Goal
  BY <1>5, ProceedContract
<1>6. ASSUME NEW h \in Handlers, Crash(h) PROVE Goal
  BY <1>1, <1>6 DEF Crash, database
<1>7. ASSUME NEW w \in inflight, Land(w) PROVE Goal
  <2>1. w \in PanelWrite /\ WriteApart(w)
    BY DEF TypeInv, TypeOK, Apart
  <2>2. /\ UNCHANGED order
        /\ (Accepted(w) /\ PanelApply(w)) \/ UNCHANGED <<panel, granted>>
    BY <1>7 DEF Land, database
  <2>. QED
    BY <2>1, <2>2, ContractApplies
<1>8. CASE UNCHANGED vars
  BY <1>1, <1>8 DEF vars
<1>9. Goal
  BY <1>2, <1>3, <1>4, <1>5, <1>6, <1>7, <1>8 DEF Next
<1>. QED
  BY <1>9

\* Delivery implements the contract: seen from outside, a paid order's days are
\* applied at most once, whatever requests were lost, repeated or late and however
\* many handlers died, and it is reported delivered only after that.
THEOREM DeliveryImplementsContract ==
    ASSUME OrdersDoNotMeet
    PROVE  Spec /\ []OrdersApart => ImplementsContract
<1>1. Init => Contract!Init
  BY ContractInit
<1>2. TypeInv /\ TypeInv' /\ Consistent /\ Apart /\ DoneIsLeft /\ [Next]_vars =>
        [Contract!Next]_(Contract!contractVars)
  BY ContractStep
<1>. QED
  BY <1>1, <1>2, OrdersStayApart, ConsistentAlways, PTL DEF Spec, ImplementsContract, Contract!Spec

-----------------------------------------------------------------------------
(* The days *)

\* A sum over one element: the fold's function exists on the subsets of a set of one
\* element, and its value there is the element's.
LEMMA SumOfOne ==
    ASSUME NEW f, NEW x, f[x] \in Nat
    PROVE  MapThenSumSet(LAMBDA y : f[y], {x}) = f[x]
<1>. DEFINE Sums(g) == [s \in SUBSET {x} |->
                          IF s = {} THEN 0
                          ELSE LET y == CHOOSE z \in s : TRUE IN f[y] + g[s \ {y}]]
            Value(s) == IF s = {} THEN 0 ELSE f[x]
            sums == [s \in SUBSET {x} |-> Value(s)]
            chosen == CHOOSE g : g = Sums(g)
<1>1. ASSUME NEW s \in SUBSET {x}, s # {}
      PROVE  s = {x} /\ (CHOOSE z \in s : TRUE) = x /\ s \ {x} = {}
  <2>1. s = {x}
    BY <1>1
  <2>2. (CHOOSE z \in s : TRUE) \in s
    BY <1>1
  <2>. QED
    BY <2>1, <2>2
<1>2. sums = Sums(sums)
  <2>1. ASSUME NEW s \in SUBSET {x}
        PROVE  Value(s) = IF s = {} THEN 0
                          ELSE LET y == CHOOSE z \in s : TRUE IN f[y] + sums[s \ {y}]
    <3>1. CASE s = {}
      BY <3>1
    <3>2. CASE s # {}
      <4>1. sums[{}] = 0
        OBVIOUS
      <4>. QED
        BY <1>1, <3>2, <4>1
    <3>. QED
      BY <3>1, <3>2
  <2>. HIDE DEF Value
  <2>. QED
    BY <2>1
<1>3. chosen = Sums(chosen)
  <2>. HIDE DEF Sums, sums
  <2>. QED
    BY <1>2
<1>. HIDE DEF chosen
<1>4. chosen[{}] = 0
  BY <1>3
<1>5. chosen[{x}] = f[x]
  <2>1. (CHOOSE z \in {x} : TRUE) = x /\ {x} \ {x} = {}
    BY <1>1
  <2>2. chosen[{x}] = f[x] + chosen[{}]
    BY <1>3, <2>1
  <2>. QED
    BY <1>4, <2>2
<1>. QED
  BY <1>5 DEF MapThenSumSet, MapThenFoldSet, chosen

\* The one order that reached a profile has left its days on it, on top of those that stay.
LEMMA ApartCounts == TypeInv /\ Consistent /\ Apart => DaysExact
<1>. SUFFICES ASSUME TypeInv, Consistent, Apart, NEW p \in Profiles
              PROVE  panel[p].days = KeptDays(p) + BoughtFor(p)
  BY DEF DaysExact
<1>. DEFINE buyers == {o \in Orders : <<o, p>> \in granted}
<1>1. PanelApart(p) /\ InitialPanel[p].days \in Nat
  BY InitialAssumption DEF Apart
<1>2. CASE buyers = {}
  <2>1. BoughtFor(p) = 0
    BY <1>2 DEF BoughtFor, MapThenSumSet, MapThenFoldSet
  <2>2. \A o \in Orders : <<o, p>> \notin granted
    BY <1>2
  <2>3. panel[p] = Untouched(p)
    BY <1>1, <2>2 DEF PanelApart
  <2>4. panel[p].days = InitialPanel[p].days
    BY <2>3 DEF Untouched
  <2>5. KeptDays(p) = InitialPanel[p].days
    BY <2>2 DEF KeptDays
  <2>. QED
    BY <1>1, <2>1, <2>4, <2>5
<1>3. ASSUME NEW o \in Orders, <<o, p>> \in granted PROVE panel[p].days = KeptDays(p) + BoughtFor(p)
  <2>1. buyers = {o} /\ DaysOrdered[o] \in Nat
    BY <1>1, <1>3, OneOrderPerProfile, DataAssumption
  <2>2. BoughtFor(p) = DaysOrdered[o]
    BY <2>1, SumOfOne DEF BoughtFor
  <2>3. KeptDays(p) = IF InitialPanel[p].capped THEN 0 ELSE InitialPanel[p].days
    BY <1>3 DEF KeptDays
  <2>4. panel[p] = Result(o) /\ Destined(o, p)
    BY <1>1, <1>3 DEF PanelApart
  <2>5. CASE Renewal(o)
    BY <1>1, <2>1, <2>2, <2>3, <2>4, <2>5 DEF Destined, Result, Extended
  <2>6. CASE ~Renewal(o)
    <3>1. ~InitialPanel[p].exists
      BY <1>3, <2>6, DataAssumption DEF Consistent, GrantOK, Renewal
    <3>2. InitialPanel[p].days = 0
      BY <3>1, InitialAssumption
    <3>. QED
      BY <2>1, <2>2, <2>3, <2>4, <2>6, <3>2 DEF Result, Provided
  <2>. QED
    BY <2>5, <2>6
<1>. QED
  BY <1>2, <1>3

\* A profile holds exactly the days bought for it on top of those it keeps: no order is
\* applied twice after a lost answer, and none is overwritten by a stale total.
THEOREM DaysAreExact ==
    ASSUME OrdersDoNotMeet
    PROVE  Spec /\ []OrdersApart => []DaysExact
BY ApartCounts, OrdersStayApart, ConsistentAlways, PTL
=============================================================================
