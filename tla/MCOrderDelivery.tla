--------------------------- MODULE MCOrderDelivery ---------------------------
(***************************************************************************)
(* Instances of OrderDelivery for TLC.                                     *)
(*                                                                         *)
(* Users u1 and u2.  u1 owns profile "own" with 15 days left.  "taken" has *)
(* a name both users will try, and was not created by the bot.  "orphan"   *)
(* lost its link after purchases of both users had named it as target.     *)
(* "fresh1" and "fresh2" do not exist yet, "gone" no longer does.          *)
(***************************************************************************)
EXTENDS OrderAccounting, TLC

CONSTANTS o1, o2, o3, h1, h2, u1, u2, own, taken, orphan, fresh1, fresh2, gone

MCCandidate ==
    [x \in Users \X Ordinals |->
        CASE x = <<u1, 0>> -> own
          [] x \in {<<u1, 1>>, <<u2, 0>>} -> taken
          [] x \in {<<u1, 2>>, <<u2, 1>>} -> fresh1
          [] OTHER -> fresh2]

\* No name of u1 is taken.
PlainCandidate ==
    [x \in Users \X Ordinals |->
        IF x[2] = 0 THEN own ELSE IF x[2] = 1 THEN fresh1 ELSE fresh2]

MCPanel ==
    [p \in Profiles |-> [exists |-> p \in {own, taken, orphan},
                         days |-> IF p = own THEN 15 ELSE IF p = orphan THEN 3 ELSE 0,
                         capped |-> p = orphan]]

MCLink == [p \in Profiles |-> IF p = own THEN u1 ELSE NoUser]

MCDays == [o \in Orders |-> IF o = o1 THEN 30 ELSE 10]

\* One handler: u1 renews "gone" with o1 and "own" with o2, o3 is a new
\* subscription that u2 buys with points.
SeqBuyer == [o \in Orders |-> IF o = o3 THEN u2 ELSE u1]
SeqChannel == [o \in Orders |-> IF o = o3 THEN "credits" ELSE "gateway"]
SeqTarget == [o \in Orders |-> CASE o = o1 -> gone [] o = o2 -> own [] OTHER -> NoProfile]

PlainTarget == [o \in Orders |-> NoProfile]

\* Two handlers: o1 is a new subscription of u1; o2, paid with points by u1, and
\* o3, paid with Stars by u2, both name the unlinked profile.
OverlapBuyer == [o \in Orders |-> IF o = o3 THEN u2 ELSE u1]
OverlapChannel ==
    [o \in Orders |-> CASE o = o1 -> "gateway" [] o = o2 -> "credits" [] OTHER -> "stars"]
OverlapTarget == [o \in Orders |-> IF o = o1 THEN NoProfile ELSE orphan]

\* The dead ends: o1 of a tariff without squads, o2 of u2 for a profile of u1, o3
\* of u2 without a free name.
DeadEndBuyer == [o \in Orders |-> IF o = o1 THEN u1 ELSE u2]
DeadEndTarget == [o \in Orders |-> IF o = o2 THEN own ELSE NoProfile]
DeadEndChannel == [o \in Orders |-> IF o = o3 THEN "stars" ELSE "gateway"]

\* Two renewals of one profile.
RenewalBuyer == [o \in Orders |-> u1]
RenewalChannel == [o \in Orders |-> "gateway"]
RenewalTarget == [o \in Orders |-> own]

=============================================================================
