------------------------- MODULE SubscriptionTransfer -------------------------
(***************************************************************************)
(* Moving the remaining days of one panel profile to another profile of    *)
(* the account: a ledger row, two reads and two writes on the panel, a     *)
(* link.                                                                   *)
(*                                                                         *)
(* Sources: miniapp/backend/web/subscription_sso_router.py                 *)
(* (transfer_subscription_time), common_db/models/users.py                 *)
(* (SubscriptionTransfer), common_db/repo/subscriptions.py (attach),       *)
(* remnawave_client/client.py (update_user_by_id).                         *)
(*                                                                         *)
(* Days are what is left of a profile.  A disabled profile keeps them.     *)
(***************************************************************************)
EXTENDS Naturals, FiniteSets, FiniteSetsExt

CONSTANTS
    Customers, Subscriptions, Requests,
    NoCustomer, NoSubscription,
    InitialDays,    \* InitialDays[p]
    MaxRequests,    \* bound: transfers asked for
    MaxEvents       \* bound: crashes, extensions and attachments, together

VARIABLES
    profile,        \* profile[p]: the panel's status and remaining days
    linkedTo,       \* linkedTo[p]: user_subscriptions
    transferRow,    \* transferRow[p]: the row of subscription_transfers with source p
    request,        \* request[r]: a call of the endpoint
    moved,          \* history: moved[p], how often the days of p were added to a target
    bought,         \* history: days that were bought
    requests, events

transferVars == <<profile, linkedTo, transferRow, request, moved, bought, requests, events>>

NoRow == [status |-> "none", customer |-> NoCustomer, target |-> NoSubscription, days |-> 0]
NoRequest == [pc |-> "idle", customer |-> NoCustomer, source |-> NoSubscription,
              target |-> NoSubscription, read |-> {}, sourceDays |-> 0, targetDays |-> 0]

Init ==
    /\ profile = [p \in Subscriptions |-> [active |-> TRUE, days |-> InitialDays[p]]]
    /\ linkedTo \in [Subscriptions -> Customers \cup {NoCustomer}]
    /\ transferRow = [p \in Subscriptions |-> NoRow]
    /\ request = [r \in Requests |-> NoRequest]
    /\ moved = [p \in Subscriptions |-> 0]
    /\ bought = 0
    /\ requests = 0 /\ events = 0

Answer(r) == request' = [request EXCEPT ![r] = NoRequest]

\* The ledger row gets its verdict and the request is answered.
Settle(r, status, days) ==
    /\ transferRow' = [transferRow EXCEPT ![request[r].source].status = status,
                                          ![request[r].source].days = days]
    /\ Answer(r)

-----------------------------------------------------------------------------
(* transfer_subscription_time *)

\* The customer's own target, a source nobody else has, and no transfer of it yet.
\* (With a row there is nothing to do but to report it.)
CheckTransfer(r, c, source, target) ==
    /\ request[r].pc = "idle"
    /\ requests < MaxRequests
    /\ linkedTo[target] = c
    /\ source # target
    /\ linkedTo[source] \in {c, NoCustomer}
    /\ transferRow[source].status = "none"
    /\ requests' = requests + 1
    /\ request' = [request EXCEPT ![r] =
         [NoRequest EXCEPT !.pc = "open", !.customer = c, !.source = source, !.target = target]]
    /\ UNCHANGED <<profile, linkedTo, transferRow, moved, bought, events>>

\* Faulty variant: source_rw_id is not unique.
AnyTransfer(source) == TRUE

FirstTransfer(source) == transferRow[source].status = "none"

\* The row is committed, or another request's row is met.
OpenTransfer(r) ==
    LET x == request[r] IN
    /\ x.pc = "open"
    /\ IF FirstTransfer(x.source)
       THEN /\ transferRow' = [transferRow EXCEPT ![x.source] =
                 [status |-> "pending", customer |-> x.customer, target |-> x.target, days |-> 0]]
            /\ request' = [request EXCEPT ![r].pc = "read"]
       ELSE Answer(r) /\ UNCHANGED transferRow
    /\ UNCHANGED <<profile, linkedTo, moved, bought, requests, events>>

\* Both profiles are read, in either order.
ReadProfile(r, side) ==
    LET p == IF side = "source" THEN request[r].source ELSE request[r].target IN
    /\ request[r].pc = "read"
    /\ side \notin request[r].read
    /\ request' = [request EXCEPT
         ![r].read = @ \cup {side},
         ![r].sourceDays = IF side = "source" THEN profile[p].days ELSE @,
         ![r].targetDays = IF side = "target" THEN profile[p].days ELSE @]
    /\ UNCHANGED <<profile, linkedTo, transferRow, moved, bought, requests, events>>

BothRead(r) == request[r].pc = "read" /\ request[r].read = {"source", "target"}

\* A profile the panel does not know, or a source without time.
RejectTransfer(r) ==
    /\ BothRead(r)
    /\ Settle(r, "failed", 0)
    /\ UNCHANGED <<profile, linkedTo, moved, bought, requests, events>>

\* Faulty variant: the request goes on whatever the panel answered.
AlwaysDone(answered) == TRUE

Done(answered) == answered

\* The target is set to the sum of what was read; an answer that is lost or an error
\* leaves the case to a person.
ExtendTarget(r) ==
    LET x == request[r] IN
    /\ BothRead(r)
    /\ x.sourceDays > 0
    /\ \E landed, answered \in BOOLEAN :
         /\ answered => landed
         /\ profile' = IF landed
              THEN [profile EXCEPT ![x.target] =
                      [active |-> TRUE, days |-> x.sourceDays + x.targetDays]]
              ELSE profile
         /\ moved' = [moved EXCEPT ![x.source] = IF landed THEN @ + 1 ELSE @]
         /\ IF Done(answered)
            THEN request' = [request EXCEPT ![r].pc = "disable"] /\ UNCHANGED transferRow
            ELSE Settle(r, "manual_review", 0)
    /\ UNCHANGED <<linkedTo, bought, requests, events>>

Disabled(disabled) == disabled

DisableSource(r) ==
    LET x == request[r] IN
    /\ x.pc = "disable"
    /\ \E landed, answered \in BOOLEAN :
         /\ answered => landed
         /\ profile' = IF landed THEN [profile EXCEPT ![x.source].active = FALSE] ELSE profile
         /\ IF Disabled(answered)
            THEN request' = [request EXCEPT ![r].pc = "attach"] /\ UNCHANGED transferRow
            ELSE Settle(r, "manual_review", x.sourceDays)
    /\ UNCHANGED <<linkedTo, moved, bought, requests, events>>

\* The source is linked and the row completed; a source that has got another owner
\* meanwhile makes the request fail and leaves the row pending.
CompleteTransfer(r) ==
    LET x == request[r] IN
    /\ x.pc = "attach"
    /\ IF linkedTo[x.source] \in {x.customer, NoCustomer}
       THEN /\ linkedTo' = [linkedTo EXCEPT ![x.source] = x.customer]
            /\ Settle(r, "completed", x.sourceDays)
       ELSE Answer(r) /\ UNCHANGED <<linkedTo, transferRow>>
    /\ UNCHANGED <<profile, moved, bought, requests, events>>

-----------------------------------------------------------------------------
(* Surroundings *)

Event == events < MaxEvents /\ events' = events + 1

\* The process stops, or an exception other than those above: the row stays pending.
Interrupted(r) ==
    /\ request[r].pc # "idle"
    /\ Event
    /\ Answer(r)
    /\ UNCHANGED <<profile, linkedTo, transferRow, moved, bought, requests>>

\* A purchase extends a profile and activates it.
Purchase(p) ==
    /\ Event
    /\ profile' = [profile EXCEPT ![p] = [active |-> TRUE, days |-> @.days + 1]]
    /\ bought' = bought + 1
    /\ UNCHANGED <<linkedTo, transferRow, request, moved, requests>>

\* Somebody attaches a free profile.
AttachFree(c, p) ==
    /\ linkedTo[p] = NoCustomer
    /\ Event
    /\ linkedTo' = [linkedTo EXCEPT ![p] = c]
    /\ UNCHANGED <<profile, transferRow, request, moved, bought, requests>>

Next ==
    \/ \E r \in Requests :
         \/ \E c \in Customers, s, t \in Subscriptions : CheckTransfer(r, c, s, t)
         \/ \E side \in {"source", "target"} : ReadProfile(r, side)
         \/ OpenTransfer(r) \/ RejectTransfer(r) \/ ExtendTarget(r) \/ DisableSource(r)
         \/ CompleteTransfer(r) \/ Interrupted(r)
    \/ \E p \in Subscriptions : Purchase(p) \/ \E c \in Customers : AttachFree(c, p)

Spec == Init /\ [][Next]_transferVars

-----------------------------------------------------------------------------
(* Properties *)

\* Types of all variables.
TypeOK ==
    /\ profile \in [Subscriptions -> [active : BOOLEAN, days : Nat]]
    /\ linkedTo \in [Subscriptions -> Customers \cup {NoCustomer}]
    /\ transferRow \in [Subscriptions ->
         [status : {"none", "pending", "failed", "manual_review", "completed"},
          customer : Customers \cup {NoCustomer}, target : Subscriptions \cup {NoSubscription},
          days : Nat]]
    /\ request \in [Requests ->
         [pc : {"idle", "open", "read", "disable", "attach"},
          customer : Customers \cup {NoCustomer}, source : Subscriptions \cup {NoSubscription},
          target : Subscriptions \cup {NoSubscription}, read : SUBSET {"source", "target"},
          sourceDays : Nat, targetDays : Nat]]
    /\ moved \in [Subscriptions -> Nat]
    /\ bought \in Nat /\ requests \in Nat /\ events \in Nat

\* However often a transfer is clicked, to whatever targets, and wherever requests
\* break off, the days of a source are added to a target at most once ("The unique
\* source_rw_id ledger is the serialization point", subscription_sso_router.py:504).
MovedOnce == \A p \in Subscriptions : moved[p] <= 1

\* A completed transfer moved the days and the customer owns both profiles; nobody
\* bought time for the source: it is off, or is itself the target of a later transfer.
CompletedIsDone ==
    \A p \in Subscriptions :
        LET row == transferRow[p] IN
        row.status = "completed" =>
            /\ moved[p] > 0 /\ row.days > 0
            /\ linkedTo[p] = row.customer /\ linkedTo[row.target] = row.customer
            /\ bought = 0 =>
                 \/ ~profile[p].active
                 \/ \E q \in Subscriptions : transferRow[q].target = p

\* The ledger row of a source stands for one move, and for a finished one if it says so.
LedgerTrue == MovedOnce /\ CompletedIsDone

\* Every step leaves the ledger true, and a profile is switched off only when its days
\* have been added elsewhere.
TransfersSound ==
    [][/\ LedgerTrue'
       /\ \A p \in Subscriptions :
            profile[p].active /\ ~profile'[p].active => moved[p] > 0]_transferVars

\* When all transfers are completed, the running profiles have no more days than there
\* were and were bought.
NoDaysMinted ==
    (\A p \in Subscriptions : transferRow[p].status \in {"none", "completed"}) =>
        MapThenSumSet(LAMBDA p : IF profile[p].active THEN profile[p].days ELSE 0,
                      Subscriptions)
            <= bought + MapThenSumSet(LAMBDA p : InitialDays[p], Subscriptions)
=============================================================================
