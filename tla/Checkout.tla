------------------------------- MODULE Checkout -------------------------------
(***************************************************************************)
(* From the press on a tariff to the payment: the invoice at the payment   *)
(* provider, the order row, and the two questions Telegram asks about a    *)
(* payment in Stars.                                                       *)
(*                                                                         *)
(* Sources: bot_constructor/handlers/payments.py (bot); routers/payments.py*)
(* (Mini App); android/payments_router.py; web/web_router.py; create_      *)
(* transaction and update_order_status of bot/app/database/requests.py;    *)
(* payments/stars.py.                                                      *)
(*                                                                         *)
(* A press of the Mini App, Android or the web, and one in the bot for any *)
(* provider but Stars, has the provider make an invoice and shows its      *)
(* address when the row is there (way "link").  Stars in the bot put the   *)
(* row first and send the invoice into the chat (way "chat").  An invoice  *)
(* link of the Mini App may be in Stars too (way "starlink").  The tariff  *)
(* may be edited, hidden or shown again at any time.  Which nodes may be   *)
(* pressed is in TariffMenu, what a claimed order leads to in              *)
(* OrderDelivery.                                                          *)
(***************************************************************************)
EXTENDS Naturals, FiniteSets

CONSTANTS
    Orders,
    Terms, NoTerms,     \* price, period and delivery of a tariff
    MaxRevisions,       \* bound: changes of the tariff
    MaxFaults           \* bound: lost answers, crashes, late clean-ups

VARIABLES
    tariff,     \* the node's terms, or NoTerms while it is hidden
    press,      \* press[o]: the request that makes order o
    order,      \* order[o]: transactions
    invoice,    \* invoice[o]: what the provider or Telegram holds
    inquiry,    \* inquiry[o]: pre-checkout query or payment message to be handled
    seenTerms,  \* history: seenTerms[o], the node's terms since o was pressed
    late,       \* history: orders marked failed although their invoice was sent
    swept,      \* history: orders deleted as stale
    revisions, faults

checkoutVars == <<tariff, press, order, invoice, inquiry, seenTerms, late, swept, revisions,
                  faults>>

NoPress == [pc |-> "new", way |-> "link", terms |-> NoTerms]
NoOrder == [status |-> "none", terms |-> NoTerms]
NoInvoice == [state |-> "none", terms |-> NoTerms]

Init ==
    /\ tariff \in Terms
    /\ press = [o \in Orders |-> NoPress]
    /\ order = [o \in Orders |-> NoOrder]
    /\ invoice = [o \in Orders |-> NoInvoice]
    /\ inquiry = [o \in Orders |-> "none"]
    /\ seenTerms = [o \in Orders |-> {}]
    /\ late = {} /\ swept = {}
    /\ revisions = 0 /\ faults = 0

Pressing(o) == press[o].pc \notin {"new", "done"}

Goto(o, pc) == press' = [press EXCEPT ![o].pc = pc]

Mishap == faults < MaxFaults /\ faults' = faults + 1

\* The dashboard changes, hides or shows the node.
Revise(t) ==
    /\ t # tariff /\ revisions < MaxRevisions
    /\ tariff' = t
    /\ revisions' = revisions + 1
    /\ seenTerms' = [o \in Orders |-> IF Pressing(o) THEN seenTerms[o] \cup {t} ELSE seenTerms[o]]
    /\ UNCHANGED <<press, order, invoice, inquiry, late, swept, faults>>

-----------------------------------------------------------------------------
(* The press *)

\* The subscription to extend is looked up before the node is.
Press(o, way) ==
    /\ press[o] = NoPress
    /\ press' = [press EXCEPT ![o] = [pc |-> "read", way |-> way, terms |-> NoTerms]]
    /\ seenTerms' = [seenTerms EXCEPT ![o] = {tariff}]
    /\ UNCHANGED <<tariff, order, invoice, inquiry, late, swept, revisions, faults>>

\* The node as it is now; what the customer was shown does not count.
ReadNode(o) ==
    /\ press[o].pc = "read"
    /\ press' = [press EXCEPT ![o].terms = tariff,
                              ![o].pc = IF tariff = NoTerms THEN "done"
                                        ELSE IF press[o].way = "chat" THEN "row" ELSE "invoice"]
    /\ UNCHANGED <<tariff, order, invoice, inquiry, seenTerms, late, swept, revisions, faults>>

Made(o, state) ==
    invoice' = [invoice EXCEPT ![o] = [state |-> state, terms |-> press[o].terms]]

\* create_invoice of the provider
CreateInvoice(o) ==
    /\ press[o].pc = "invoice"
    /\ Made(o, "hidden")
    /\ Goto(o, "row")
    /\ UNCHANGED <<tariff, order, inquiry, seenTerms, late, swept, revisions, faults>>

\* PaymentError, or an answer that was lost: nobody is told the address.
InvoiceFails(o) ==
    /\ press[o].pc = "invoice"
    /\ Mishap
    /\ Made(o, "hidden") \/ UNCHANGED invoice
    /\ Goto(o, "done")
    /\ UNCHANGED <<tariff, order, inquiry, seenTerms, late, swept, revisions>>

\* A faulty variant of RowTerms, which a property refutes.
TermsAgain(o) == IF tariff = NoTerms THEN press[o].terms ELSE tariff

\* The row takes its terms from what was read, not from the node again.
RowTerms(o) == press[o].terms

CommitRow(o) ==
    /\ press[o].pc = "row"
    /\ order' = [order EXCEPT ![o] = [status |-> "created", terms |-> RowTerms(o)]]
    /\ Goto(o, IF press[o].way = "chat" THEN "send" ELSE "answer")
    /\ UNCHANGED <<tariff, invoice, inquiry, seenTerms, late, swept, revisions, faults>>

\* The address of the invoice goes to the customer.
Answer(o) ==
    /\ press[o].pc = "answer"
    /\ invoice' = [invoice EXCEPT ![o].state = "open"]
    /\ Goto(o, "done")
    /\ UNCHANGED <<tariff, order, inquiry, seenTerms, late, swept, revisions, faults>>

\* bot.send_invoice
SendInvoice(o) ==
    /\ press[o].pc = "send"
    /\ Made(o, "open")
    /\ Goto(o, "done")
    /\ UNCHANGED <<tariff, order, inquiry, seenTerms, late, swept, revisions, faults>>

\* It raises, and the invoice may be in the chat all the same.
SendFails(o) ==
    /\ press[o].pc = "send"
    /\ Mishap
    /\ \/ UNCHANGED <<invoice, late>>
       \/ Made(o, "open") /\ late' = late \cup {o}
    /\ Goto(o, "fail")
    /\ UNCHANGED <<tariff, order, inquiry, seenTerms, swept, revisions>>

\* update_order_status(..., "failed"), whatever the status is by now.
MarkFailed(o) ==
    /\ press[o].pc = "fail"
    /\ order' = [order EXCEPT ![o].status = IF @ = "none" THEN @ ELSE "failed"]
    /\ Goto(o, "done")
    /\ UNCHANGED <<tariff, invoice, inquiry, seenTerms, late, swept, revisions, faults>>

\* The process dies, or the insert fails (a user who is gone).
Abandon(o) ==
    /\ Pressing(o)
    /\ Mishap
    /\ Goto(o, "done")
    /\ UNCHANGED <<tariff, order, invoice, inquiry, seenTerms, late, swept, revisions>>

-----------------------------------------------------------------------------
(* The payment *)

\* Whoever was given the invoice may pay it.  Telegram asks first.
CanPay(o) == invoice[o].state = "open"

Pay(o) ==
    /\ CanPay(o) /\ press[o].way = "link"
    /\ invoice' = [invoice EXCEPT ![o].state = "paid"]
    /\ inquiry' = [inquiry EXCEPT ![o] = "webhook"]
    /\ UNCHANGED <<tariff, press, order, seenTerms, late, swept, revisions, faults>>

PreCheckout(o) ==
    /\ CanPay(o) /\ press[o].way # "link" /\ inquiry[o] = "none"
    /\ inquiry' = [inquiry EXCEPT ![o] = "query"]
    /\ UNCHANGED <<tariff, press, order, invoice, seenTerms, late, swept, revisions, faults>>

\* validate_stars_payment: the row is as it was created, and for this amount.
Valid(o) == order[o].status = "created" /\ order[o].terms = invoice[o].terms

\* pre_checkout_handler: only a yes lets Telegram take the Stars.
AnswerQuery(o) ==
    /\ inquiry[o] = "query"
    /\ IF Valid(o)
       THEN /\ invoice' = [invoice EXCEPT ![o].state = "paid"]
            /\ inquiry' = [inquiry EXCEPT ![o] = "payment"]
       ELSE /\ inquiry' = [inquiry EXCEPT ![o] = "none"]
            /\ UNCHANGED invoice
    /\ UNCHANGED <<tariff, press, order, seenTerms, late, swept, revisions, faults>>

\* A webhook names the order; a payment in Stars is validated once more.
Claimable(o) == order[o].status = "created" /\ (inquiry[o] = "payment" => Valid(o))

\* success_stars_payment_handler and the provider's webhook: the order is claimed.
\* Without a row, or for a row in another state, nothing happens.
Handle(o) ==
    /\ inquiry[o] \in {"webhook", "payment"}
    /\ IF Claimable(o)
       THEN /\ order' = [order EXCEPT ![o].status = "confirmed"]
            /\ inquiry' = [inquiry EXCEPT ![o] = "claimed"]
       ELSE /\ inquiry' = [inquiry EXCEPT ![o] = "dropped"]
            /\ UNCHANGED order
    /\ UNCHANGED <<tariff, press, invoice, seenTerms, late, swept, revisions, faults>>

\* cleanup_stale_transactions: a day after the press, which is long over.
Stale(o) == order[o].status = "created"

CleanUp(o) ==
    /\ Stale(o) /\ press[o].pc = "done"
    /\ Mishap
    /\ order' = [order EXCEPT ![o] = NoOrder]
    /\ swept' = swept \cup {o}
    /\ UNCHANGED <<tariff, press, invoice, inquiry, seenTerms, late, revisions>>

Next ==
    \/ \E t \in Terms \cup {NoTerms} : Revise(t)
    \/ \E o \in Orders :
         \/ \E way \in {"link", "starlink", "chat"} : Press(o, way)
         \/ ReadNode(o) \/ CreateInvoice(o) \/ InvoiceFails(o) \/ CommitRow(o) \/ Answer(o)
         \/ SendInvoice(o) \/ SendFails(o) \/ MarkFailed(o) \/ Abandon(o)
         \/ Pay(o) \/ PreCheckout(o) \/ AnswerQuery(o) \/ Handle(o) \/ CleanUp(o)

Spec == Init /\ [][Next]_checkoutVars

-----------------------------------------------------------------------------
(* Properties *)

TypeOK ==
    /\ tariff \in Terms \cup {NoTerms}
    /\ \A o \in Orders :
         /\ press[o].pc \in {"new", "read", "invoice", "row", "answer", "send", "fail", "done"}
         /\ order[o].status \in {"none", "created", "confirmed", "failed"}
         /\ invoice[o].state \in {"none", "hidden", "open", "paid"}
         /\ inquiry[o] \in {"none", "webhook", "query", "payment", "claimed", "dropped"}

\* Whoever pays is served: a payment finds the order row, at the terms that were charged,
\* which the node had at some moment of the press, and claims it.  Excepted are a row that
\* was deleted as stale before the payment came, and an invoice in Stars whose sending
\* raised although it arrived: the row may turn to failed after Telegram was told yes.
PaidIsServed ==
    \A o \in Orders : invoice[o].state = "paid" =>
        \/ o \in swept \cup late
        \/ /\ order[o].status \in {"created", "confirmed"}
           /\ order[o].terms = invoice[o].terms /\ order[o].terms \in seenTerms[o] \ {NoTerms}
           /\ inquiry[o] # "dropped"
=============================================================================
