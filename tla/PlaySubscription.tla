--------------------------- MODULE PlaySubscription ---------------------------
(***************************************************************************)
(* A subscription bought through Google Play: the app's verify calls, the  *)
(* store's notifications (RTDN), the purchase row, the delivery and the    *)
(* acknowledgement.                                                        *)
(*                                                                         *)
(* Sources: services/miniapp/backend/android (iap_router.py, iap_repo.py,  *)
(* google_play.py) and common_db/models/google_play.py.                    *)
(*                                                                         *)
(* The row says which period was seen last; it is read before it is        *)
(* written, and written before the period is delivered.  The delivery      *)
(* itself is OrderDelivery's, here one step with its outcomes.             *)
(***************************************************************************)
EXTENDS Naturals, FiniteSets

CONSTANTS
    Accounts, Calls,
    NoAccount,
    MaxPeriods,     \* bound: billing periods of the purchase
    MaxCalls,       \* bound: verify calls and notifications
    MaxMishaps      \* bound: calls cut short

VARIABLES
    play,           \* what the store says of the purchase
    purchase,       \* the row of google_play_purchases
    call,           \* call[c]: a verify request or a notification
    provided,       \* history: provided[a][p], how often account a was given period p
    overlapped,     \* history: two calls were under way at the same time
    begun, mishaps

playVars == <<play, purchase, call, provided, overlapped, begun, mishaps>>

Periods == 1..MaxPeriods
NoPurchase == [owner |-> NoAccount, expiry |-> 0, granted |-> FALSE]
IdleCall == [pc |-> "idle", user |-> NoAccount, answer |-> 0, granted |-> FALSE, acked |-> FALSE,
             seen |-> 0]

Init ==
    /\ play = [expiry |-> 1, granted |-> TRUE, ackedBy |-> "nobody"]
    /\ purchase = NoPurchase
    /\ call = [c \in Calls |-> IdleCall]
    /\ provided = [a \in Accounts |-> [p \in Periods |-> 0]]
    /\ overlapped = FALSE
    /\ begun = 0 /\ mishaps = 0

Found == purchase.owner # NoAccount
CallEnds(c) == call' = [call EXCEPT ![c] = IdleCall]

-----------------------------------------------------------------------------
(* A call *)

Begin(c, a) ==
    /\ call[c].pc = "idle"
    /\ begun < MaxCalls
    /\ begun' = begun + 1
    /\ call' = [call EXCEPT ![c].pc = "fetch", ![c].user = a]
    /\ overlapped' = (overlapped \/ \E d \in Calls \ {c} : call[d].pc # "idle")
    /\ UNCHANGED <<play, purchase, provided, mishaps>>

\* verify_purchase: whichever account holds the token.
VerifyPurchase(c, a) == Begin(c, a)

\* real_time_developer_notification: of a token that is known, for its owner.
Notify(c) == Found /\ Begin(c, purchase.owner)

\* get_subscription: the store's answer is kept for the rest of the call.
FetchSubscription(c) ==
    /\ call[c].pc = "fetch"
    /\ call' = [call EXCEPT ![c].pc = "find", ![c].answer = play.expiry,
                            ![c].granted = play.granted,
                            ![c].acked = (play.ackedBy # "nobody")]
    /\ UNCHANGED <<play, purchase, provided, overlapped, begun, mishaps>>

OwnerMismatch(a) == Found /\ purchase.owner # a

\* find_purchase_by_token; another account's purchase is refused.
FindPurchase(c) ==
    /\ call[c].pc = "find"
    /\ IF OwnerMismatch(call[c].user)
       THEN CallEnds(c)
       ELSE call' = [call EXCEPT ![c].pc = "store", ![c].seen = purchase.expiry]
    /\ UNCHANGED <<play, purchase, provided, overlapped, begun, mishaps>>

StoredOwner(a) == IF Found THEN purchase.owner ELSE a

\* Faulty variant: every active answer is delivered.
GrantedOnly(t) == t.granted

\* A granted state, and not the period that was stored when the row was read.
NewPeriod(t) == t.granted /\ t.seen # t.answer

\* upsert_purchase commits; an insert that meets the other's row fails.
StorePurchase(c) ==
    LET t == call[c] IN
    /\ t.pc = "store"
    /\ \/ /\ purchase' = [owner |-> StoredOwner(t.user), expiry |-> t.answer,
                          granted |-> t.granted]
          /\ IF NewPeriod(t) THEN call' = [call EXCEPT ![c].pc = "deliver"] ELSE CallEnds(c)
       \/ Found /\ t.seen = 0 /\ CallEnds(c) /\ UNCHANGED purchase
    /\ UNCHANGED <<play, provided, overlapped, begun, mishaps>>

\* Faulty variant: the purchase is acknowledged whatever became of its delivery.
AckRegardless(delivered, t) == ~t.acked

AckDue(delivered, t) == delivered /\ ~t.acked

\* _deliver_to_remnawave: done, done although the answer was lost, or not done (no
\* e-mail address, no panel).
Deliver(c) ==
    LET t == call[c] IN
    /\ t.pc = "deliver"
    /\ \E delivered, landed \in BOOLEAN :
         /\ delivered => landed
         /\ provided' = IF landed THEN [provided EXCEPT ![t.user][t.answer] = @ + 1] ELSE provided
         /\ IF AckDue(delivered, t) THEN call' = [call EXCEPT ![c].pc = "ack"] ELSE CallEnds(c)
    /\ UNCHANGED <<play, purchase, overlapped, begun, mishaps>>

\* acknowledge_subscription; an error is logged.
Acknowledge(c) ==
    /\ call[c].pc = "ack"
    /\ play' \in {play, [play EXCEPT !.ackedBy = IF @ = "nobody" THEN "server" ELSE @]}
    /\ CallEnds(c)
    /\ UNCHANGED <<purchase, provided, overlapped, begun, mishaps>>

\* The process stops, the store does not answer, or the client hangs up.
CutShort(c) ==
    /\ call[c].pc # "idle"
    /\ mishaps < MaxMishaps
    /\ mishaps' = mishaps + 1
    /\ CallEnds(c)
    /\ UNCHANGED <<play, purchase, provided, overlapped, begun>>

-----------------------------------------------------------------------------
(* The store *)

\* Another period is paid.
Renew ==
    /\ play.expiry < MaxPeriods
    /\ play' = [play EXCEPT !.expiry = @ + 1, !.granted = TRUE]
    /\ UNCHANGED <<purchase, call, provided, overlapped, begun, mishaps>>

\* Cancelled, on hold, or refunded for want of an acknowledgement.
Revoke ==
    /\ play.granted
    /\ play' = [play EXCEPT !.granted = FALSE]
    /\ UNCHANGED <<purchase, call, provided, overlapped, begun, mishaps>>

\* The billing client in the app acknowledges.
ClientAcknowledges ==
    /\ play.ackedBy = "nobody"
    /\ play' = [play EXCEPT !.ackedBy = "client"]
    /\ UNCHANGED <<purchase, call, provided, overlapped, begun, mishaps>>

Next ==
    \/ \E c \in Calls :
         \/ \E a \in Accounts : VerifyPurchase(c, a)
         \/ Notify(c) \/ FetchSubscription(c) \/ FindPurchase(c) \/ StorePurchase(c)
         \/ Deliver(c) \/ Acknowledge(c) \/ CutShort(c)
    \/ Renew \/ Revoke \/ ClientAcknowledges

Spec == Init /\ [][Next]_playVars

-----------------------------------------------------------------------------
(* Properties *)

\* Types of all variables.
TypeOK ==
    /\ play \in [expiry : Periods, granted : BOOLEAN, ackedBy : {"nobody", "client", "server"}]
    /\ purchase \in [owner : Accounts \cup {NoAccount}, expiry : 0..MaxPeriods, granted : BOOLEAN]
    /\ call \in [Calls -> [pc : {"idle", "fetch", "find", "store", "deliver", "ack"},
                           user : Accounts \cup {NoAccount}, answer : 0..MaxPeriods,
                           granted : BOOLEAN, acked : BOOLEAN, seen : 0..MaxPeriods]]
    /\ provided \in [Accounts -> [Periods -> Nat]]
    /\ overlapped \in BOOLEAN
    /\ begun \in Nat /\ mishaps \in Nat

\* While calls come one after another, whatever is cut short between them, a period is
\* given at most once and only to the account the purchase belongs to ("Only deliver
\* once per (token, expiry) pair", iap_router.py:123).
ProvidedOnceApart ==
    ~overlapped =>
        \A a \in Accounts, p \in Periods :
            provided[a][p] <= (IF a = purchase.owner THEN 1 ELSE 0)

\* The server acknowledges, and with that gives up the store's refund, only what was
\* delivered.
AcknowledgedWasProvided ==
    play.ackedBy = "server" => \E a \in Accounts, p \in Periods : provided[a][p] > 0

\* A period is given once, and not acknowledged unless it was.
PeriodsDelivered == ProvidedOnceApart /\ AcknowledgedWasProvided

\* Each period is given at most once, calls overlapping or not ("Only deliver once per
\* (token, expiry) pair", iap_router.py:123).
ProvidedOnce ==
    \A a \in Accounts, p \in Periods : provided[a][p] <= 1
=============================================================================
