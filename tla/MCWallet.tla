------------------------------- MODULE MCWallet -------------------------------
(***************************************************************************)
(* Instances of Wallet for TLC.  u1 owns the referral code "ref", u2 the   *)
(* referral code "back"; "sale" is a marketing code.                       *)
(***************************************************************************)
EXTENDS Wallet, TLC

CONSTANTS u1, u2, u3, s1, s2, s3, ref, back, sale

Redeem(u, c) == [kind |-> "redeem", user |-> u, code |-> c, points |-> 0, days |-> 0]
Buy(u, points, days) ==
    [kind |-> "purchase", user |-> u, code |-> NoCode, points |-> points, days |-> days]
Adjust(u, points) ==
    [kind |-> "adjust", user |-> u, code |-> NoCode, points |-> points, days |-> 0]
Crm(u, points) ==
    [kind |-> "crm", user |-> u, code |-> NoCode, points |-> points, days |-> 0]

MCOwner == [c \in Codes |-> CASE c = ref -> u1 [] c = back -> u2 [] OTHER -> NoUser]
MCGrant == [c \in Codes |-> IF c = back THEN 0 ELSE 2]
MCBalance == [u \in Users |-> IF u = u1 THEN 1 ELSE 8]

\* u2, at first without Telegram, redeems and buys, u1 earns; the admin and the
\* CRM change both wallets.
SeparateJobs ==
    {Redeem(u2, ref), Redeem(u2, sale), Buy(u2, 5, 20), Adjust(u1, -2), Crm(u2, 3),
     Redeem(u1, sale)}

\* u1 and u2 have redeemed each other's code; both buy, u1 is credited and u3, who
\* is new, redeems a code.
OverlapJobs ==
    {Buy(u1, 1, 30), Buy(u2, 5, 20), Buy(u2, 3, 30), Redeem(u3, sale), Crm(u1, 3)}
MutualRedemptions ==
    << [ident |-> <<u1, "telegram">>, code |-> back],
       [ident |-> <<u2, "telegram">>, code |-> ref] >>
OwnersCodes == {<<u1, "telegram">>, <<u2, "telegram">>}
FirstOwnerCode == {<<u1, "telegram">>}

\* A redemption beside a credit of the CRM.
LostUpdateJobs == {Redeem(u2, sale), Crm(u2, 3)}

RedeemTwiceJobs == {Redeem(u2, sale), Buy(u2, 5, 20)}

NoRedemptions == << >>

=============================================================================
