---------------------------- MODULE OrderContract ----------------------------
(***************************************************************************)
(* What the shop promises about a paid order, without webhooks, handlers,  *)
(* attempts or a panel: its days are applied at most once, to one profile, *)
(* it is reported delivered only after they were, and a delivered order is *)
(* finished.                                                               *)
(***************************************************************************)
EXTENDS Integers

CONSTANTS Orders, Profiles, DaysOrdered

VARIABLES
    phase,    \* "open", "accepted", "delivered" or "dropped"
    applied,  \* orders whose days were applied
    bought    \* bought[p]: days on p beside those it keeps from before

contractVars == <<phase, applied, bought>>

Init ==
    /\ phase = [o \in Orders |-> "open"]
    /\ applied = {}
    /\ bought = [p \in Profiles |-> 0]

Drop(o) ==
    /\ phase[o] = "open"
    /\ phase' = [phase EXCEPT ![o] = "dropped"]
    /\ UNCHANGED <<applied, bought>>

Accept(o) ==
    /\ phase[o] = "open"
    /\ phase' = [phase EXCEPT ![o] = "accepted"]
    /\ UNCHANGED <<applied, bought>>

Apply(o, p) ==
    /\ phase[o] = "accepted" /\ o \notin applied
    /\ applied' = applied \cup {o}
    /\ bought' = [bought EXCEPT ![p] = @ + DaysOrdered[o]]
    /\ UNCHANGED phase

Deliver(o) ==
    /\ phase[o] = "accepted" /\ o \in applied
    /\ phase' = [phase EXCEPT ![o] = "delivered"]
    /\ UNCHANGED <<applied, bought>>

Next ==
    \/ \E o \in Orders : Drop(o) \/ Accept(o) \/ Deliver(o)
    \/ \E o \in Orders, p \in Profiles : Apply(o, p)

Spec == Init /\ [][Next]_contractVars

=============================================================================
