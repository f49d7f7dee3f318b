-------------------------------- MODULE SignIn --------------------------------
(***************************************************************************)
(* The sessions of one account and the codes that are mailed or handed     *)
(* over: refresh tokens in families, the one-time login of the app, and    *)
(* the confirmation of a password reset or a change of address.            *)
(*                                                                         *)
(* Sources: services/miniapp/backend/android (repo.py, auth_router.py,     *)
(* email_router.py), common_db/models/auth.py.                             *)
(*                                                                         *)
(* Every query is a transaction of its own: what a handler read may have   *)
(* changed when it writes.                                                 *)
(***************************************************************************)
EXTENDS Naturals, Sequences

CONSTANTS
    Handlers,           \* requests that are being handled
    MaxTokens,          \* bound: refresh tokens
    MaxCodes,           \* bound: codes
    MaxAttempts,        \* email_code_max_attempts
    MaxIssued,          \* bound: tokens and codes together
    MaxOutages          \* bound: handlers that break off

VARIABLES
    token,              \* refresh_tokens: the family and the state of each
    code,               \* email_verifications: purpose, state, attempts
    handler,            \* handler[h]: a request
    ended,              \* history: families that were revoked
    tangled,            \* history: families with a rotation beside a rotation or revocation
    paired,             \* history: paired[k], sessions issued for handoff k
    applied,            \* history: applied[k], how often code k took effect
    crowded,            \* history: codes that two confirmations looked at together
    outages

signInVars == <<token, code, handler, ended, tangled, paired, applied, crowded, outages>>

Tokens == DOMAIN token
Codes == DOMAIN code
Waiting == [pc |-> "idle", token |-> 0, code |-> 0]

Init ==
    /\ token = <<>> /\ code = <<>>
    /\ handler = [h \in Handlers |-> Waiting]
    /\ ended = {} /\ tangled = {} /\ crowded = {}
    /\ paired = [k \in 1..MaxCodes |-> 0]
    /\ applied = [k \in 1..MaxCodes |-> 0]
    /\ outages = 0

Goes(h, pc) == handler' = [handler EXCEPT ![h].pc = pc]
Returns(h) == handler' = [handler EXCEPT ![h] = Waiting]

IssuedLeft == Len(token) + Len(code) < MaxIssued
TokensLeft == Len(token) < MaxTokens /\ IssuedLeft
CodesLeft == Len(code) < MaxCodes /\ IssuedLeft
WithToken(tokens, family) == Append(tokens, [family |-> family, state |-> "live"])

\* revoke_family and revoke_all_user_tokens: the rows that are live now.
Revoked(families) ==
    [t \in Tokens |-> IF token[t].family \in families /\ token[t].state = "live"
                      THEN [token[t] EXCEPT !.state = "revoked"] ELSE token[t]]

Families == {token[t].family : t \in Tokens}
Live(families) == {t \in Tokens : token[t].family \in families /\ token[t].state = "live"}
Rotating(f) == {h \in Handlers : handler[h].pc = "rotate" /\ token[handler[h].token].family = f}

Revoke(families) ==
    /\ token' = Revoked(families)
    /\ ended' = ended \cup families
    /\ tangled' = tangled \cup {f \in families : Rotating(f) # {}}

-----------------------------------------------------------------------------
(* Refresh tokens *)

\* _issue_pair: a family is named after its first token.
IssuePair ==
    /\ TokensLeft
    /\ token' = WithToken(token, Len(token) + 1)

Login ==
    /\ IssuePair
    /\ UNCHANGED <<code, handler, ended, tangled, paired, applied, crowded, outages>>

\* refresh: a live token will be rotated.
BeginRefresh(h, t) ==
    /\ handler[h].pc = "idle"
    /\ token[t].state = "live"
    /\ handler' = [handler EXCEPT ![h] = [Waiting EXCEPT !.pc = "rotate", !.token = t]]
    /\ tangled' = IF Rotating(token[t].family) # {} THEN tangled \cup {token[t].family} ELSE tangled
    /\ UNCHANGED <<token, code, ended, paired, applied, crowded, outages>>

\* A token that was used or revoked ends its family.
RefuseReuse(t) ==
    /\ token[t].state # "live"
    /\ Revoke({token[t].family})
    /\ UNCHANGED <<code, handler, paired, applied, crowded, outages>>

\* Faulty variant: the old token stays as it is.
NotReplaced(t) == token[t]

Replaced(t) == [token[t] EXCEPT !.state = "replaced"]

\* rotate_refresh_token: the new row, and the old one replaced whatever it is by now.
Rotate(h) ==
    LET t == handler[h].token IN
    /\ handler[h].pc = "rotate"
    /\ TokensLeft
    /\ token' = WithToken([token EXCEPT ![t] = Replaced(t)], token[t].family)
    /\ Returns(h)
    /\ UNCHANGED <<code, ended, tangled, paired, applied, crowded, outages>>

Logout(t) ==
    /\ Live({token[t].family}) # {}
    /\ Revoke({token[t].family})
    /\ UNCHANGED <<code, handler, paired, applied, crowded, outages>>

\* logout_all, password_change
LogoutAll ==
    /\ Live(Families) # {}
    /\ Revoke(Families)
    /\ UNCHANGED <<code, handler, paired, applied, crowded, outages>>

-----------------------------------------------------------------------------
(* Codes *)

\* app_login_create and _send_code: older codes are used up, then there is a new one.
SupersedeCodes(h, purpose) ==
    /\ handler[h].pc = "idle"
    /\ CodesLeft
    /\ code' = [k \in Codes |->
         IF code[k].purpose = purpose /\ code[k].state = "new"
         THEN [code[k] EXCEPT !.state = "superseded"] ELSE code[k]]
    /\ Goes(h, purpose)
    /\ UNCHANGED <<token, ended, tangled, paired, applied, crowded, outages>>

StoreCode(h) ==
    /\ handler[h].pc \in {"app_login", "confirm"}
    /\ CodesLeft
    /\ code' = Append(code, [purpose |-> handler[h].pc, state |-> "new", attempts |-> 0])
    /\ Returns(h)
    /\ UNCHANGED <<token, ended, tangled, paired, applied, crowded, outages>>

\* consume_app_login_code: the row is read,
SelectHandoff(h, k) ==
    /\ handler[h].pc = "idle"
    /\ code[k].purpose = "app_login" /\ code[k].state = "new"
    /\ handler' = [handler EXCEPT ![h] = [Waiting EXCEPT !.pc = "consume", !.code = k]]
    /\ UNCHANGED <<token, code, ended, tangled, paired, applied, crowded, outages>>

\* Faulty variant: what was read is believed.
BelievedUnused(k) == TRUE

StillUnused(k) == code[k].state = "new"

\* and marked used if it still is not.
ConsumeHandoff(h) ==
    LET k == handler[h].code IN
    /\ handler[h].pc = "consume"
    /\ IF StillUnused(k)
       THEN code' = [code EXCEPT ![k].state = "used"] /\ Goes(h, "issue")
       ELSE UNCHANGED code /\ Returns(h)
    /\ UNCHANGED <<token, ended, tangled, paired, applied, crowded, outages>>

\* app_login_exchange
IssueHandoff(h) ==
    /\ handler[h].pc = "issue"
    /\ IssuePair
    /\ paired' = [paired EXCEPT ![handler[h].code] = @ + 1]
    /\ Goes(h, "publish")
    /\ UNCHANGED <<code, ended, tangled, applied, crowded, outages>>

PublishHandoff(h) ==
    /\ handler[h].pc = "publish"
    /\ code' = [code EXCEPT ![handler[h].code].state = "exchanged"]
    /\ Returns(h)
    /\ UNCHANGED <<token, ended, tangled, paired, applied, crowded, outages>>

Active(purpose) == {k \in Codes : code[k].purpose = purpose /\ code[k].state = "new"}
Newest(k) == k \in Active("confirm") /\ \A j \in Active("confirm") : j <= k

\* _consume_code finds the newest code; one with too many attempts is used up.
FindCode(h, k) ==
    /\ handler[h].pc = "idle"
    /\ Newest(k)
    /\ IF code[k].attempts >= MaxAttempts
       THEN code' = [code EXCEPT ![k].state = "used"] /\ UNCHANGED <<handler, crowded>>
       ELSE /\ \E pc \in {"right", "wrong"} :
                 handler' = [handler EXCEPT ![h] = [Waiting EXCEPT !.pc = pc, !.code = k]]
            /\ crowded' = IF \E g \in Handlers : handler[g].code = k THEN crowded \cup {k} ELSE crowded
            /\ UNCHANGED code
    /\ UNCHANGED <<token, ended, tangled, paired, applied, outages>>

\* A wrong code counts; the last attempt uses it up.
WrongCode(h) ==
    LET k == handler[h].code IN
    /\ handler[h].pc = "wrong"
    /\ code' = [code EXCEPT
         ![k].attempts = @ + 1,
         ![k].state = IF code[k].attempts + 1 >= MaxAttempts THEN "used" ELSE @]
    /\ Returns(h)
    /\ UNCHANGED <<token, ended, tangled, paired, applied, crowded, outages>>

UsedUp(k) == [code[k] EXCEPT !.state = "used"]

RightCode(h) ==
    LET k == handler[h].code IN
    /\ handler[h].pc = "right"
    /\ code' = [code EXCEPT ![k] = UsedUp(k)]
    /\ Goes(h, "apply")
    /\ UNCHANGED <<token, ended, tangled, paired, applied, crowded, outages>>

\* password_reset_confirm and email_change_confirm: the new password or address, then
\* every session ends.
ApplyCode(h) ==
    /\ handler[h].pc = "apply"
    /\ applied' = [applied EXCEPT ![handler[h].code] = @ + 1]
    /\ Revoke(Families)
    /\ Returns(h)
    /\ UNCHANGED <<code, paired, crowded, outages>>

\* The process stops, or the database does not answer.
BreaksOff(h) ==
    /\ handler[h].pc # "idle"
    /\ outages < MaxOutages
    /\ outages' = outages + 1
    /\ Returns(h)
    /\ UNCHANGED <<token, code, ended, tangled, paired, applied, crowded>>

Next ==
    \/ Login \/ LogoutAll
    \/ \E t \in Tokens : RefuseReuse(t) \/ Logout(t) \/ \E h \in Handlers : BeginRefresh(h, t)
    \/ \E h \in Handlers :
         \/ Rotate(h) \/ StoreCode(h) \/ ConsumeHandoff(h) \/ IssueHandoff(h) \/ PublishHandoff(h)
         \/ WrongCode(h) \/ RightCode(h) \/ ApplyCode(h) \/ BreaksOff(h)
         \/ \E purpose \in {"app_login", "confirm"} : SupersedeCodes(h, purpose)
         \/ \E k \in Codes : SelectHandoff(h, k) \/ FindCode(h, k)

Spec == Init /\ [][Next]_signInVars

-----------------------------------------------------------------------------
(* Properties *)

\* Types of all variables.
TypeOK ==
    /\ \A t \in Tokens : token[t] \in [family : 1..MaxTokens, state : {"live", "revoked", "replaced"}]
    /\ \A k \in Codes : code[k] \in
         [purpose : {"app_login", "confirm"}, state : {"new", "superseded", "used", "exchanged"},
          attempts : Nat]
    /\ handler \in [Handlers ->
         [pc : {"idle", "rotate", "app_login", "confirm", "consume", "issue", "publish", "right",
                "wrong", "apply"},
          token : 0..MaxTokens, code : 0..MaxCodes]]
    /\ ended \subseteq 1..MaxTokens /\ tangled \subseteq 1..MaxTokens
    /\ paired \in [1..MaxCodes -> Nat] /\ applied \in [1..MaxCodes -> Nat]
    /\ crowded \subseteq 1..MaxCodes /\ outages \in Nat

\* But for a rotation that overlaps another one or a revocation, a family has one live
\* token at most, and none any more once it was revoked.
FamilyChain ==
    \A f \in Families \ tangled :
        /\ \A t, u \in Live({f}) : t = u
        /\ f \in ended => Live({f}) = {}

\* However exchanges of one handoff overlap, break off or meet a newer one, it gives one
\* session at most, and is published as exchanged only when there is one ("only one can
\* change used_at from NULL", repo.py:652).
HandoffOnce ==
    /\ \A k \in 1..MaxCodes : paired[k] <= 1
    /\ \A k \in Codes : code[k].state = "exchanged" => paired[k] = 1

\* But for two confirmations that look at a code together, it takes effect once at most,
\* and not after it was tried too often.
CodeOnce ==
    \A k \in Codes \ crowded :
        /\ applied[k] <= 1
        /\ code[k].attempts <= MaxAttempts
        /\ code[k].attempts = MaxAttempts => applied[k] = 0

\* Both kinds of codes are good for one use.
SingleUse == HandoffOnce /\ CodeOnce

\* Refresh tokens and codes are each good for what they stand for, once.
SessionsSound == FamilyChain /\ SingleUse

\* A code takes effect once at most, confirmations overlapping or not.
CodeOnceAlways == \A k \in Codes : applied[k] <= 1
=============================================================================
