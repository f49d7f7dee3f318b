---------------------------- MODULE OrderDelivery ----------------------------
(***************************************************************************)
(* Delivery of a paid order: from the invoice, through the payment         *)
(* webhook, the claim of the transactions row and the provisioning or      *)
(* extension of a profile on the external Remnawave panel, to the final    *)
(* delivery status.                                                        *)
(*                                                                         *)
(* Sources: services/bot/app/api/handlers.py (payment_process_background,  *)
(* _process_account_payment), services/bot/app/database/requests.py (the   *)
(* claim and the status writes), packages/subscription_delivery (deliver_  *)
(* android_paid), services/miniapp/backend (credits_delivery, invoices).   *)
(*                                                                         *)
(* A step is the code between two awaits that touch shared state: one      *)
(* database transaction, or one call of the panel.  A call of the panel    *)
(* that fails and the status write that follows it are one step, because   *)
(* the failed call itself changes nothing.                                 *)
(***************************************************************************)
EXTENDS Integers, FiniteSets

CONSTANTS
    Orders,          \* rows of the transactions table
    Users,           \* rows of the users table
    Profiles,        \* Remnawave profiles: those that exist and those that may be created
    Handlers,        \* concurrent background tasks (bot workers, request handlers)
    NoOrder, NoUser, NoProfile,
    Buyer,           \* Buyer[o]: transactions.user_id
    Channel,         \* Channel[o]: "gateway", "stars" or "credits"
    PurchaseTarget,  \* target_rw_id stored with the purchase, NoProfile for a new subscription
    DaysOrdered,     \* transactions.days_ordered
    Capped,          \* orders of a tariff with a traffic limit
    Undeliverable,   \* orders whose tariff resolves to no squad
    Candidate,       \* Candidate[<<u, k>>]: the profile named build_remnawave_username(u, k)
    InitialPanel,    \* the panel's profiles before the first order
    InitialLink,     \* user_subscriptions before the first order
    MaxNames,        \* _MAX_USERNAME_ATTEMPTS
    MaxAttempts,     \* attempts of one handler: 3 in the code
    MaxWebhooks,     \* bound: webhook deliveries, duplicates included
    MaxLate,         \* bound: panel requests that outlive the caller's timeout
    MaxCrashes,      \* bound: handlers that die half-way
    AlertMayFail     \* whether the Telegram alert after the claim may raise

Ordinals == 0 .. (Cardinality(Profiles) + MaxNames)

NoMark == [kind |-> "none", order |-> NoOrder]
Mark == [kind : {"none", "provisioning", "delivery"}, order : Orders \cup {NoOrder}]

Profile == [exists : BOOLEAN, days : Nat, capped : BOOLEAN, mark : Mark]

ASSUME DataAssumption ==
    /\ IsFiniteSet(Profiles)
    /\ NoOrder \notin Orders /\ NoUser \notin Users /\ NoProfile \notin Profiles
    /\ Buyer \in [Orders -> Users]
    /\ Channel \in [Orders -> {"gateway", "stars", "credits"}]
    /\ PurchaseTarget \in [Orders -> Profiles \cup {NoProfile}]
    /\ DaysOrdered \in [Orders -> Nat \ {0}]
    /\ Capped \subseteq Orders /\ Undeliverable \subseteq Orders
    /\ Candidate \in [Users \X Ordinals -> Profiles]
    /\ AlertMayFail \in BOOLEAN

ASSUME BoundAssumption ==
    /\ MaxNames \in Nat /\ MaxAttempts \in Nat \ {0}
    /\ MaxWebhooks \in Nat /\ MaxLate \in Nat /\ MaxCrashes \in Nat

\* Nothing on the panel carries a marker of an order that was not placed yet, a
\* profile that is not there has no days, and a panel id that is gone is never given
\* to a new profile.
ASSUME InitialAssumption ==
    /\ \A p \in Profiles :
         /\ InitialPanel[p].exists \in BOOLEAN
         /\ InitialPanel[p].days \in Nat
         /\ InitialPanel[p].capped \in BOOLEAN
         /\ InitialLink[p] \in Users \cup {NoUser}
         /\ ~InitialPanel[p].exists => InitialPanel[p].days = 0
    /\ \A o \in Orders : \A x \in DOMAIN Candidate :
         /\ PurchaseTarget[o] = Candidate[x] => InitialPanel[Candidate[x]].exists
         /\ ~InitialPanel[Candidate[x]].exists => InitialLink[Candidate[x]] = NoUser

VARIABLES
    order,     \* order[o]: the columns of the transactions row the delivery uses
    invoiced,  \* orders whose invoice exists at the payment provider
    panel,     \* panel[p]: the profile as the panel holds it
    link,      \* link[p]: owner in user_subscriptions, or users.rw_id
    inflight,  \* panel requests whose caller gave up on them and that may still land
    task,      \* task[h]: progress and local variables of a handler
    webhooks,  \* webhook deliveries so far
    crashes,   \* handlers that died so far
    granted,   \* history: <<o, p>> once the panel has applied days of o to p
    abandoned  \* history: orders whose handler died after the claim

vars == <<order, invoiced, panel, link, inflight, task, webhooks, crashes,
          granted, abandoned>>

database == <<order, link>>
history == <<granted, abandoned>>

OrderRow == [status : {"none", "created", "pending", "confirmed", "failed", "deleted"},
             delivered : {0, 1},
             target : Profiles \cup {NoProfile}]

PanelWrite == [order : Orders, profile : Profiles, create : BOOLEAN, days : Nat,
               capped : BOOLEAN, mark : Mark]

Idle == [pc |-> "idle", order |-> NoOrder, target |-> NoProfile, attempt |-> 0,
         start |-> 0, ordinal |-> 0, profile |-> NoProfile, mark |-> NoMark,
         days |-> 0, capped |-> FALSE, created |-> FALSE]

Steps == {"idle", "claim", "alert", "context", "owner", "fetch", "lookup", "create",
          "verifyCreate", "readBack", "attach", "apply", "verifyApply", "finish", "giveUp"}

Task == [pc : Steps, order : Orders \cup {NoOrder}, target : Profiles \cup {NoProfile},
         attempt : 0 .. MaxAttempts, start : Ordinals, ordinal : Ordinals,
         profile : Profiles \cup {NoProfile}, mark : Mark, days : Nat,
         capped : BOOLEAN, created : BOOLEAN]

\* The steps after the claim: the handler holds the order.
Holding(h) == task[h].pc \notin {"idle", "claim"}

Init ==
    /\ order = [o \in Orders |-> [status |-> "none", delivered |-> 0,
                                  target |-> PurchaseTarget[o]]]
    /\ invoiced = {}
    /\ panel = [p \in Profiles |-> [exists |-> InitialPanel[p].exists,
                                    days |-> InitialPanel[p].days,
                                    capped |-> InitialPanel[p].capped,
                                    mark |-> NoMark]]
    /\ link = [p \in Profiles |-> InitialLink[p]]
    /\ inflight = {}
    /\ task = [h \in Handlers |-> Idle]
    /\ webhooks = 0
    /\ crashes = 0
    /\ granted = {}
    /\ abandoned = {}

-----------------------------------------------------------------------------
(* The purchase *)

\* Faulty variant: the status column is left out of the UPDATE.
UpdateWithoutStatus(o, status, delivered) ==
    order' = [order EXCEPT ![o].delivered = delivered]

\* UPDATE transactions ... WHERE transaction_id = o: nothing when there is no row.
Update(o, status, delivered) ==
    IF order[o].status \in {"none", "deleted"}
    THEN UNCHANGED order
    ELSE order' = [order EXCEPT ![o].status = status, ![o].delivered = delivered]

\* Faulty variant: the profile is linked, but not written back to the row.
UpdateNoTarget(o, p) == UNCHANGED order

UpdateTarget(o, p) ==
    IF order[o].status \in {"none", "deleted"}
    THEN UNCHANGED order
    ELSE order' = [order EXCEPT ![o].target = p]

\* The gateway's invoice exists, and can be paid, before the row is committed.
CreateInvoice(o) ==
    /\ Channel[o] = "gateway"
    /\ o \notin invoiced
    /\ invoiced' = invoiced \cup {o}
    /\ UNCHANGED <<database, panel, inflight, task, webhooks, crashes, history>>

CreateTransaction(o) ==
    /\ order[o].status = "none"
    /\ \/ Channel[o] = "gateway" /\ o \in invoiced
       \/ Channel[o] = "stars"
    /\ order' = [order EXCEPT ![o].status = "created"]
    /\ UNCHANGED <<invoiced, panel, link, inflight, task, webhooks, crashes, history>>

\* Telegram Stars: the row first, then the invoice; a failed send ends the order.
SendStarsInvoice(o) ==
    /\ Channel[o] = "stars"
    /\ order[o].status = "created" /\ o \notin invoiced
    /\ \/ invoiced' = invoiced \cup {o} /\ UNCHANGED order
       \/ Update(o, "failed", order[o].delivered) /\ UNCHANGED invoiced
    /\ UNCHANGED <<panel, link, inflight, task, webhooks, crashes, history>>

\* Rows that stayed "created" for too long are deleted, paid or not.
CleanupStale(o) ==
    /\ order[o].status = "created"
    /\ order' = [order EXCEPT ![o].status = "deleted"]
    /\ UNCHANGED <<invoiced, panel, link, inflight, task, webhooks, crashes, history>>

-----------------------------------------------------------------------------
(* The webhook and the claim *)

\* The background task of a webhook reads the row; the read is what it works
\* with from then on, the target included.  Stars payments are validated against
\* a row that is still "created".
ReceiveWebhook(h, o) ==
    /\ task[h].pc = "idle"
    /\ o \in invoiced
    /\ webhooks < MaxWebhooks
    /\ webhooks' = webhooks + 1
    /\ IF order[o].status \in (IF Channel[o] = "stars" THEN {"created"}
                               ELSE {"created", "pending"})
       THEN task' = [task EXCEPT ![h] = [Idle EXCEPT !.pc = "claim", !.order = o,
                                                     !.target = order[o].target]]
       ELSE UNCHANGED task
    /\ UNCHANGED <<database, invoiced, panel, inflight, crashes, history>>

\* The WHERE clause of the claim.
Claimable(o) ==
    /\ order[o].status \in {"created", "pending"}
    /\ order[o].delivered # 1

Claim(h) ==
    LET o == task[h].order IN
    /\ task[h].pc = "claim"
    /\ IF Claimable(o)
       THEN /\ order' = [order EXCEPT ![o].status = "confirmed"]
            /\ task' = [task EXCEPT ![h].pc = "alert"]
            /\ abandoned' = abandoned \ {o}
       ELSE /\ task' = [task EXCEPT ![h] = Idle]
            /\ UNCHANGED <<order, abandoned>>
    /\ UNCHANGED <<invoiced, panel, link, inflight, webhooks, crashes, granted>>

\* The admin alert is sent between the claim and the first attempt; its exception
\* reaches the handler's outermost except, which leaves the row as it is.
SendAlert(h) ==
    /\ task[h].pc = "alert"
    /\ \/ /\ task' = [task EXCEPT ![h].pc = "context", ![h].attempt = 1]
          /\ UNCHANGED abandoned
       \/ /\ AlertMayFail
          /\ task' = [task EXCEPT ![h] = Idle]
          /\ abandoned' = abandoned \cup {task[h].order}
    /\ UNCHANGED <<database, invoiced, panel, inflight, webhooks, crashes, granted>>

\* Bonus points: the debit and a confirmed row in one transaction, then the same
\* delivery, called once.  Another account's target stops it before the debit.
PayWithCredits(h, o) ==
    LET p == PurchaseTarget[o] IN
    /\ task[h].pc = "idle"
    /\ Channel[o] = "credits"
    /\ order[o].status = "none"
    /\ p # NoProfile => link[p] \in {NoUser, Buyer[o]}
    /\ order' = [order EXCEPT ![o].status = "confirmed"]
    /\ task' = [task EXCEPT ![h] = [Idle EXCEPT !.pc = "context", !.order = o,
                                                !.target = p, !.attempt = 1]]
    /\ UNCHANGED <<invoiced, panel, link, inflight, webhooks, crashes, history>>

-----------------------------------------------------------------------------
(* deliver_android_paid *)

\* Faulty variant: a retry that is not counted.
SameAttempt(t) == t.attempt

NextAttempt(t) == t.attempt + 1

\* A pending result: the row is written back to "pending" and undelivered; the
\* handler of a payment webhook tries again after a transient failure, up to
\* MaxAttempts, while a credits purchase returns.
Pending(h, retryable) ==
    LET t == task[h] IN
    /\ Update(t.order, "pending", 0)
    /\ task' = [task EXCEPT ![h] =
         CASE Channel[t.order] = "credits" -> Idle
           [] Channel[t.order] # "credits" /\ retryable /\ t.attempt < MaxAttempts ->
                [Idle EXCEPT !.pc = "context", !.order = t.order, !.target = t.target,
                             !.attempt = NextAttempt(t)]
           [] OTHER -> [Idle EXCEPT !.pc = "giveUp", !.order = t.order, !.target = t.target]]
    /\ UNCHANGED <<invoiced, panel, link, inflight, webhooks, crashes, history>>

\* The panel answers a call with an error, transient or not.
PanelError(h) == \E retryable \in BOOLEAN : Pending(h, retryable)

\* A step that only moves the handler.
Step(h, t) ==
    /\ task' = [task EXCEPT ![h] = t]
    /\ UNCHANGED <<database, invoiced, panel, inflight, webhooks, crashes, history>>

Links(u) == {p \in Profiles : link[p] = u}

\* The first free-name candidate is numbered by the subscriptions linked now.
ReadContext(h) ==
    LET t == task[h]
        first == Cardinality(Links(Buyer[t.order])) IN
    /\ t.pc = "context"
    /\ IF t.order \in Undeliverable
       THEN Pending(h, FALSE)
       ELSE Step(h, [t EXCEPT !.start = first, !.ordinal = first,
                              !.pc = IF t.target = NoProfile THEN "lookup" ELSE "owner"])

CheckTargetOwner(h) ==
    LET t == task[h] IN
    /\ t.pc = "owner"
    /\ IF link[t.target] \in {NoUser, Buyer[t.order]}
       THEN Step(h, [t EXCEPT !.pc = "fetch"])
       ELSE Pending(h, FALSE)

\* The copy of a profile the rest of the attempt works with.
Snapshot(t, p) ==
    [t EXCEPT !.profile = p, !.mark = panel[p].mark, !.days = panel[p].days,
              !.capped = panel[p].capped, !.pc = "attach"]

FetchTarget(h) ==
    LET t == task[h] IN
    /\ t.pc = "fetch"
    /\ \/ IF panel[t.target].exists
          THEN Step(h, Snapshot(t, t.target))
          ELSE Step(h, [t EXCEPT !.pc = "lookup"])
       \/ PanelError(h)

CandidateName(t) == Candidate[<<Buyer[t.order], t.ordinal>>]
Provisioning(o) == [kind |-> "provisioning", order |-> o]
Delivery(o) == [kind |-> "delivery", order |-> o]
NextName(t) == [t EXCEPT !.ordinal = t.ordinal + 1, !.pc = "lookup"]

\* Faulty variants: any profile of that name is taken for the order's own; none is.
AdoptAny(t, p) == panel[p].exists
AdoptNone(t, p) == FALSE

\* A taken name is adopted only when this order's own marker is on it.
Adoptable(t, p) == panel[p].mark = Provisioning(t.order)

LookupName(h) ==
    LET t == task[h]
        p == CandidateName(t) IN
    /\ t.pc = "lookup"
    /\ IF t.ordinal >= t.start + MaxNames
       THEN Pending(h, FALSE)
       ELSE \/ Step(h, CASE ~panel[p].exists -> [t EXCEPT !.pc = "create"]
                         [] panel[p].exists /\ Adoptable(t, p) -> Snapshot(t, p)
                         [] OTHER -> NextName(t))
            \/ PanelError(h)

-----------------------------------------------------------------------------
(* Writing to the panel *)

\* The panel refuses a second profile of one name and an update of none.
Accepted(w) == w.create <=> ~panel[w.profile].exists

\* Days, limit and description are absolute values computed by the caller.
PanelApply(w) ==
    /\ panel' = [panel EXCEPT ![w.profile] = [exists |-> TRUE, days |-> w.days,
                                              capped |-> w.capped, mark |-> w.mark]]
    /\ granted' = granted \cup {<<w.order, w.profile>>}

\* A mutating call: applied and answered; applied, the answer lost; still on its
\* way when the caller times out; refused or never received.
PanelCall(h, w, answered, failed) ==
    /\ \/ /\ Accepted(w) /\ PanelApply(w)
          /\ \E t \in {answered, failed} : task' = [task EXCEPT ![h] = t]
          /\ UNCHANGED inflight
       \/ /\ Cardinality(inflight) < MaxLate
          /\ inflight' = inflight \cup {w}
          /\ task' = [task EXCEPT ![h] = failed]
          /\ UNCHANGED <<panel, granted>>
       \/ /\ task' = [task EXCEPT ![h] = failed]
          /\ UNCHANGED <<panel, granted, inflight>>
    /\ UNCHANGED <<database, invoiced, webhooks, crashes, abandoned>>

\* A late request reaches the panel after all.
Land(w) ==
    /\ w \in inflight
    /\ inflight' = inflight \ {w}
    /\ IF Accepted(w) THEN PanelApply(w) ELSE UNCHANGED <<panel, granted>>
    /\ UNCHANGED <<database, invoiced, task, webhooks, crashes, abandoned>>

CreateWrite(t) ==
    [order |-> t.order, profile |-> CandidateName(t), create |-> TRUE,
     days |-> DaysOrdered[t.order], capped |-> t.order \in Capped,
     mark |-> Provisioning(t.order)]

CreateProfile(h) ==
    LET t == task[h] IN
    /\ t.pc = "create"
    /\ PanelCall(h, CreateWrite(t), [t EXCEPT !.pc = "readBack"],
                                    [t EXCEPT !.pc = "verifyCreate"])

\* After a failed create the name decides: the order's marker means the lost
\* request did its work, another profile means the next name, none a failure.
VerifyCreate(h) ==
    LET t == task[h]
        p == CandidateName(t) IN
    /\ t.pc = "verifyCreate"
    /\ \/ /\ panel[p].exists
          /\ Step(h, IF Adoptable(t, p) THEN Snapshot(t, p) ELSE NextName(t))
       \/ PanelError(h)

\* After a successful create the read-back decides, and an outage of the read
\* falls back on the answer of the create.
ReadBackCreated(h) ==
    LET t == task[h]
        p == CandidateName(t)
        answer == [t EXCEPT !.profile = p, !.mark = Provisioning(t.order),
                            !.days = DaysOrdered[t.order], !.capped = FALSE,
                            !.created = TRUE, !.pc = "attach"] IN
    /\ t.pc = "readBack"
    /\ \/ Step(h, IF ~panel[p].exists THEN answer
                  ELSE IF Adoptable(t, p) THEN [Snapshot(t, p) EXCEPT !.created = TRUE]
                  ELSE NextName(t))
       \/ Step(h, answer)

\* Faulty variant: the markers are not looked at.
CreatedOnly(t) == t.created

\* Nothing is left to apply to a profile this order created or already extended.
AlreadyApplied(t) ==
    t.created \/ t.mark \in {Provisioning(t.order), Delivery(t.order)}

\* The link is inserted, or found, and the row remembers the profile.
AttachSubscription(h) ==
    LET t == task[h] IN
    /\ t.pc = "attach"
    /\ IF link[t.profile] \notin {NoUser, Buyer[t.order]}
       THEN Pending(h, FALSE)
       ELSE /\ link' = [link EXCEPT ![t.profile] = Buyer[t.order]]
            /\ UpdateTarget(t.order, t.profile)
            /\ task' = [task EXCEPT ![h].pc =
                          IF AlreadyApplied(t) THEN "finish" ELSE "apply"]
            /\ UNCHANGED <<invoiced, panel, inflight, webhooks, crashes, history>>

\* Faulty variant: the remaining days with the wrong sign.
NewTotalSubtracted(t) ==
    IF t.days > 0 /\ ~t.capped
    THEN DaysOrdered[t.order] - t.days
    ELSE DaysOrdered[t.order]

\* An active unlimited profile is extended by the days read earlier; any other
\* one is set to the days of the order.
NewTotal(t) ==
    IF t.days > 0 /\ ~t.capped
    THEN t.days + DaysOrdered[t.order]
    ELSE DaysOrdered[t.order]

ApplyWrite(t) ==
    [order |-> t.order, profile |-> t.profile, create |-> FALSE,
     days |-> NewTotal(t), capped |-> t.order \in Capped, mark |-> Delivery(t.order)]

ApplyDays(h) ==
    LET t == task[h] IN
    /\ t.pc = "apply"
    /\ PanelCall(h, ApplyWrite(t), [t EXCEPT !.pc = "finish"],
                                   [t EXCEPT !.pc = "verifyApply"])

\* Faulty variant: a profile that answers counts as a success.
RecoveredAnyway(t) == panel[t.profile].exists

\* Only this order's delivery marker turns a failed call into a success.
Recovered(t) ==
    /\ panel[t.profile].exists
    /\ panel[t.profile].mark = Delivery(t.order)

VerifyApply(h) ==
    LET t == task[h] IN
    /\ t.pc = "verifyApply"
    /\ \/ Recovered(t) /\ Step(h, [t EXCEPT !.pc = "finish"])
       \/ PanelError(h)

FinishDelivery(h) ==
    /\ task[h].pc = "finish"
    /\ Update(task[h].order, "confirmed", 1)
    /\ task' = [task EXCEPT ![h] = Idle]
    /\ UNCHANGED <<invoiced, panel, link, inflight, webhooks, crashes, history>>

\* update_order_status(..., 'pending') after the last attempt.
GiveUp(h) ==
    LET o == task[h].order IN
    /\ task[h].pc = "giveUp"
    /\ Update(o, "pending", order[o].delivered)
    /\ task' = [task EXCEPT ![h] = Idle]
    /\ UNCHANGED <<invoiced, panel, link, inflight, webhooks, crashes, history>>

\* A restart of the service, or an unexpected exception, ends a handler anywhere.
Crash(h) ==
    /\ task[h].pc # "idle"
    /\ crashes < MaxCrashes
    /\ crashes' = crashes + 1
    /\ task' = [task EXCEPT ![h] = Idle]
    /\ abandoned' = IF Holding(h) THEN abandoned \cup {task[h].order} ELSE abandoned
    /\ UNCHANGED <<database, invoiced, panel, inflight, webhooks, granted>>

-----------------------------------------------------------------------------
Purchase(o) ==
    \/ CreateInvoice(o)
    \/ CreateTransaction(o)
    \/ SendStarsInvoice(o)
    \/ CleanupStale(o)

\* The code of one handler once it runs.
Proceed(h) ==
    \/ Claim(h)
    \/ SendAlert(h)
    \/ ReadContext(h)
    \/ CheckTargetOwner(h)
    \/ FetchTarget(h)
    \/ LookupName(h)
    \/ CreateProfile(h)
    \/ VerifyCreate(h)
    \/ ReadBackCreated(h)
    \/ AttachSubscription(h)
    \/ ApplyDays(h)
    \/ VerifyApply(h)
    \/ FinishDelivery(h)
    \/ GiveUp(h)

Next ==
    \/ \E o \in Orders : Purchase(o)
    \/ \E h \in Handlers, o \in Orders : ReceiveWebhook(h, o) \/ PayWithCredits(h, o)
    \/ \E h \in Handlers : Proceed(h) \/ Crash(h)
    \/ \E w \in inflight : Land(w)

Spec == Init /\ [][Next]_vars

\* An event loop keeps running a started coroutine; gateways, users and the
\* panel owe nothing.
FairSpec == Spec /\ \A h \in Handlers : WF_vars(Proceed(h))

-----------------------------------------------------------------------------
(* Properties *)

\* Type invariant; a running handler works on an order.
TypeOK ==
    /\ order \in [Orders -> OrderRow]
    /\ invoiced \subseteq Orders
    /\ panel \in [Profiles -> Profile]
    /\ link \in [Profiles -> Users \cup {NoUser}]
    /\ inflight \subseteq PanelWrite
    /\ task \in [Handlers -> Task]
    /\ webhooks \in Nat /\ crashes \in Nat
    /\ granted \subseteq Orders \X Profiles
    /\ abandoned \subseteq Orders

\* An order shown as delivered really put its days on the profile its row
\* names: whatever duplicate handlers, lost answers and crashes there were, no
\* path of deliver_android_paid reaches the final status without a panel write.
DeliveredToTarget ==
    \A o \in Orders : order[o].delivered = 1 => <<o, order[o].target>> \in granted

\* Days never land on a profile of another account, nor on a profile somebody
\* else created under the same name ("never attach it"): only on the profile
\* the purchase named or on one this order created.
OwnProfileOnly ==
    \A o \in Orders, p \in Profiles :
        <<o, p>> \in granted =>
            /\ link[p] \in {NoUser, Buyer[o]}
            /\ InitialPanel[p].exists => p = PurchaseTarget[o]

\* A claimed order is delivered, handed back as "pending" or still in the hands
\* of a handler: it is never left "confirmed" and undelivered, where no webhook
\* can claim it again, except by a handler that died.
ClaimHasWorker ==
    \A o \in Orders :
        order[o].status = "confirmed" /\ order[o].delivered = 0 =>
            \/ \E h \in Handlers : Holding(h) /\ task[h].order = o
            \/ o \in abandoned

\* One order never provisions two profiles, nor extends one and creates another.
OneProfilePerOrder ==
    \A o \in Orders, p, q \in Profiles :
        <<o, p>> \in granted /\ <<o, q>> \in granted => p = q

\* The strict reading of "on failure: 3 retries, then pending": no order is ever
\* left claimed, undelivered and without a handler.
NeverStranded ==
    \A o \in Orders :
        order[o].status = "confirmed" /\ order[o].delivered = 0 =>
            \E h \in Handlers : Holding(h) /\ task[h].order = o

\* Every handler comes to an end: the retries are bounded whatever the panel does.
HandlerEnds == \A h \in Handlers : task[h].pc # "idle" ~> task[h].pc = "idle"

=============================================================================
