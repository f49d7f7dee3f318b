--------------------------- MODULE OrderAccounting ---------------------------
(***************************************************************************)
(* What the buyers of OrderDelivery get for their orders, counted in days. *)
(***************************************************************************)
EXTENDS OrderDelivery, FiniteSetsExt

\* Days of the orders that were applied to p.
BoughtFor(p) ==
    MapThenSumSet(LAMBDA o : DaysOrdered[o], {o \in Orders : <<o, p>> \in granted})

\* Days p keeps from before: a purchase replaces what a limited profile had left.
KeptDays(p) ==
    IF InitialPanel[p].capped /\ (\E o \in Orders : <<o, p>> \in granted)
    THEN 0 ELSE InitialPanel[p].days

\* A profile holds exactly the days bought for it: each order applied once, none
\* applied twice after a lost answer, none overwritten by a stale total.  (For
\* unlimited tariffs: a limited one is replaced, not extended.)
DaysExact ==
    Capped = {} => \A p \in Profiles : panel[p].days = KeptDays(p) + BoughtFor(p)

\* The view of a buyer: a claim is the acceptance, "pending" included, and the
\* days counted are those on top of what a profile held before.
Phase(o) ==
    CASE order[o].delivered = 1 -> "delivered"
      [] order[o].delivered = 0 /\ order[o].status \in {"none", "created"} -> "open"
      [] order[o].delivered = 0 /\ order[o].status \in {"failed", "deleted"} -> "dropped"
      [] order[o].delivered = 0 /\ order[o].status \in {"confirmed", "pending"} -> "accepted"

Contract == INSTANCE OrderContract WITH
    phase <- [o \in Orders |-> Phase(o)],
    applied <- {o \in Orders : \E p \in Profiles : <<o, p>> \in granted},
    bought <- [p \in Profiles |-> panel[p].days - KeptDays(p)]

\* As long as the webhooks of an order do not overlap and two open orders do not
\* share a profile, delivery keeps the promises of OrderContract through lost and
\* late answers, retries and crashes.
ImplementsContract == Contract!Spec

=============================================================================
