------------------------------ MODULE Credentials ------------------------------
(***************************************************************************)
(* How an account gets its e-mail address and password: registration,      *)
(* the claim and the migration of a subscription that is already paid for, *)
(* the set-up of credentials by a Telegram user, the confirmation and the  *)
(* change of the address, and the login through Telegram.                  *)
(*                                                                         *)
(* Sources: services/miniapp/backend: android (claim_router.py,            *)
(* subscription_router.py, email_router.py, auth_router.py, repo.py) and   *)
(* web/web_router.py.                                                      *)
(*                                                                         *)
(* Each query is a transaction of its own, passwords are hashed and mail   *)
(* is sent in between: a request writes by what it read at its start.      *)
(* What counts here of a code is the address it was mailed to; that it is  *)
(* used up and how often it may be tried is in SignIn.  One subscription   *)
(* is claimed; its panel profile names a mailbox or none.                  *)
(***************************************************************************)
EXTENDS Naturals, FiniteSets

CONSTANTS
    Accounts, NoAccount,
    Addresses, NoAddress,   \* normalised e-mail addresses
    Requests,               \* requests under way
    MaxRequests             \* bound: requests

VARIABLES
    account,    \* account[u]: users: exists, email, password, verified, telegram
    bound,      \* the account that owns the subscription (user_subscriptions, users.rw_id)
    panelMail,  \* the usable address of the subscription's panel profile
    code,       \* code[u][purpose]: the address the active code was mailed to
    request,    \* request[h]: what a request read, and what it will do next
    proven,     \* history: proven[u], addresses to which a code went that came back
    vouched,    \* history: accounts that logged in through Telegram
    carried,    \* history: accounts rewritten when they were verified or about to be
    overwritten,\* history: accounts whose verified credentials a claim rewrote
    beside,     \* history: accounts with two requests under way at once
    requests

credentialVars == <<account, bound, panelMail, code, request, proven, vouched, carried,
                    overwritten, beside, requests>>

Purposes == {"verify", "claim", "setup_email", "setup_password", "email_change"}

Absent == [exists |-> FALSE, email |-> NoAddress, password |-> FALSE, verified |-> FALSE,
           telegram |-> FALSE]
Bare == [Absent EXCEPT !.exists = TRUE]

Quiet == [pc |-> "idle", user |-> NoAccount, purpose |-> "none", address |-> NoAddress,
          acc |-> NoAddress, marks |-> FALSE]

\* At first there is at most one account: a Telegram user with or without an address.
Init ==
    /\ panelMail \in Addresses \cup {NoAddress}
    /\ \E first \in Accounts, row \in {Absent, [Bare EXCEPT !.telegram = TRUE],
                                       [Bare EXCEPT !.telegram = TRUE,
                                                    !.email = CHOOSE a \in Addresses : TRUE]} :
         /\ account = [u \in Accounts |-> IF u = first THEN row ELSE Absent]
         /\ bound \in IF row.exists THEN {first, NoAccount} ELSE {NoAccount}
    /\ code = [u \in Accounts |-> [p \in Purposes |-> NoAddress]]
    /\ request = [h \in Requests |-> Quiet]
    /\ proven = [u \in Accounts |-> {}]
    /\ vouched = {} /\ carried = {} /\ overwritten = {} /\ beside = {}
    /\ requests = 0

found == <<bound, panelMail>>
history == <<proven, vouched, carried, overwritten>>

Exists(u) == account[u].exists
Has(u, a) == Exists(u) /\ account[u].email = a
Taken(u, a) == \E v \in Accounts \ {u} : Has(v, a)
Busy(u) == {h \in Requests : request[h].user = u}

\* A request that is handled from now on, with what it read.
Begins(h, r) ==
    /\ request[h] = Quiet
    /\ requests < MaxRequests /\ requests' = requests + 1
    /\ request' = [request EXCEPT ![h] = r]
    /\ beside' = IF Busy(r.user) # {} THEN beside \cup {r.user} ELSE beside

Goes(h, pc) ==
    /\ request' = [request EXCEPT ![h].pc = pc]
    /\ UNCHANGED <<beside, requests>>

Ends(h) ==
    /\ request' = [request EXCEPT ![h] = Quiet]
    /\ UNCHANGED <<beside, requests>>

MarkOrEnd(h, marks) ==
    IF marks THEN Goes(h, "mark") ELSE Ends(h)

-----------------------------------------------------------------------------
(* Registration *)

\* The row is inserted or the unique index refuses; the invite is redeemed in Wallet and
\* the onboarding marker is in SubscriptionLinks.
Register(u, a) ==
    /\ requests < MaxRequests /\ requests' = requests + 1
    /\ ~Exists(u) /\ ~Taken(u, a)
    /\ account' = [account EXCEPT ![u] = [Bare EXCEPT !.email = a, !.password = TRUE]]
    /\ UNCHANGED <<found, code, request, history, beside>>

-----------------------------------------------------------------------------
(* Codes *)

Mails(h, u, purpose, a) ==
    Begins(h, [Quiet EXCEPT !.pc = "send", !.user = u, !.purpose = purpose, !.address = a])

\* email_send_code
AskVerification(h, u) ==
    /\ Exists(u) /\ ~account[u].verified /\ account[u].email # NoAddress
    /\ Mails(h, u, "verify", account[u].email)
    /\ UNCHANGED <<account, found, code, history>>

\* setup_email_request: the account has no address, and nobody has the new one.
AskSetupEmail(h, u, a) ==
    /\ Exists(u) /\ account[u].email = NoAddress /\ ~Taken(u, a)
    /\ Mails(h, u, "setup_email", a)
    /\ UNCHANGED <<account, found, code, history>>

\* setup_password_request
AskSetupPassword(h, u) ==
    /\ Exists(u) /\ account[u].email # NoAddress /\ ~account[u].password
    /\ Mails(h, u, "setup_password", account[u].email)
    /\ UNCHANGED <<account, found, code, history>>

\* email_change_request
AskEmailChange(h, u, a) ==
    /\ Exists(u) /\ account[u].verified
    /\ a # account[u].email /\ ~Taken(u, a)
    /\ Mails(h, u, "email_change", a)
    /\ UNCHANGED <<account, found, code, history>>

\* _send_code: the codes before it are used up.
StoreCode(h) ==
    LET r == request[h] IN
    /\ r.pc = "send"
    /\ code' = [code EXCEPT ![r.user][r.purpose] = r.address]
    /\ Ends(h)
    /\ UNCHANGED <<account, found, history>>

\* _consume_code: the code comes back, so its address was read by whoever sends it.
Consumes(u, purpose) ==
    /\ code[u][purpose] # NoAddress
    /\ code' = [code EXCEPT ![u][purpose] = NoAddress]
    /\ proven' = [proven EXCEPT ![u] = @ \cup {code[u][purpose]}]
    /\ UNCHANGED <<vouched, carried, overwritten>>

Confirms(h, u, purpose, pc, marks) ==
    /\ Consumes(u, purpose)
    /\ Begins(h, [Quiet EXCEPT !.pc = pc, !.user = u, !.purpose = purpose,
                               !.address = code[u][purpose], !.marks = marks])
    /\ UNCHANGED <<account, found>>

-----------------------------------------------------------------------------
(* Confirmation of an address *)

\* email_verify consumes the code of the account it loaded,
EmailVerify(h, u) ==
    /\ Exists(u) /\ ~account[u].verified /\ account[u].email # NoAddress
    /\ Confirms(h, u, "verify", "finalize", FALSE)

\* and finalize_email_verification marks the account that is there now.
Finalize(h) ==
    /\ request[h].pc = "finalize"
    /\ account' = [account EXCEPT ![request[h].user].verified = TRUE]
    /\ Ends(h)
    /\ UNCHANGED <<found, code, history>>

\* setup_email_confirm
SetupEmailConfirm(h, u) ==
    /\ Exists(u) /\ account[u].email = NoAddress
    /\ Confirms(h, u, "setup_email", "setup", FALSE)

\* set_email_with_password, after the last-second collision check
SetEmailWithPassword(h) ==
    LET r == request[h] IN
    /\ r.pc = "setup" /\ ~Taken(r.user, r.address)
    /\ account' = [account EXCEPT ![r.user].email = r.address, ![r.user].password = TRUE,
                                  ![r.user].verified = TRUE]
    /\ Ends(h)
    /\ UNCHANGED <<found, code, history>>

\* setup_password_confirm
SetupPasswordConfirm(h, u) ==
    /\ Exists(u) /\ account[u].email # NoAddress /\ ~account[u].password
    /\ Confirms(h, u, "setup_password", "password", ~account[u].verified)

\* set_password; mark_email_verified follows if the address was not verified when it was read
SetPassword(h) ==
    LET r == request[h] IN
    /\ r.pc = "password"
    /\ account' = [account EXCEPT ![r.user].password = TRUE]
    /\ MarkOrEnd(h, r.marks)
    /\ UNCHANGED <<found, code, history>>

MarkVerified(h) ==
    /\ request[h].pc = "mark"
    /\ account' = [account EXCEPT ![request[h].user].verified = TRUE]
    /\ Ends(h)
    /\ UNCHANGED <<found, code, history>>

\* email_change_confirm
EmailChangeConfirm(h, u) ==
    /\ Exists(u) /\ account[u].verified
    /\ Confirms(h, u, "email_change", "change", FALSE)

\* update_user_email
UpdateUserEmail(h) ==
    LET r == request[h] IN
    /\ r.pc = "change" /\ ~Taken(r.user, r.address)
    /\ account' = [account EXCEPT ![r.user].email = r.address, ![r.user].verified = TRUE]
    /\ Ends(h)
    /\ UNCHANGED <<found, code, history>>

\* The address was taken meanwhile: the request ends, the code stays used.
EmailTaken(h) ==
    LET r == request[h] IN
    /\ \/ r.pc \in {"setup", "change"} /\ Taken(r.user, r.address)
       \/ r.pc = "adopt" /\ Taken(r.user, r.acc)
    /\ Ends(h)
    /\ UNCHANGED <<account, found, code, history>>

-----------------------------------------------------------------------------
(* Claiming a subscription *)

\* _Resolved: what the client is to do, by the account that owns the subscription.
Status ==
    IF bound = NoAccount \/ account[bound].email = NoAddress THEN "rw_only"
    ELSE IF account[bound].password THEN "ready_login"
    ELSE "needs_password"

OwnerEmail == IF Status = "rw_only" THEN panelMail ELSE account[bound].email

\* create_bare_user_with_rw_id: the code needs an account to belong to.
Anchored(u) ==
    IF bound = NoAccount
    THEN /\ ~Exists(u)
         /\ account' = [account EXCEPT ![u] = Bare] /\ bound' = u
    ELSE u = bound /\ UNCHANGED <<account, bound>>

\* claim_otp_request
ClaimOtpRequest(h, u) ==
    /\ Status # "ready_login" /\ OwnerEmail # NoAddress
    /\ Anchored(u)
    /\ Mails(h, u, "claim", OwnerEmail)
    /\ UNCHANGED <<panelMail, code, history>>

\* claim_complete for an account with an address and no password
ClaimPassword(h, u) ==
    /\ Status = "needs_password" /\ u = bound
    /\ Confirms(h, u, "claim", "password", ~account[u].verified)

\* A faulty variant of ClaimMarks, which a property refutes.
MarksAnyAddress(acc, otp) == TRUE

\* claim_complete with the code that went to the profile's mailbox: the address is
\* verified if it is the one that got the code.
ClaimMarks(acc, otp) == acc = otp

ClaimWithCode(h, u, acc) ==
    /\ Status = "rw_only" /\ OwnerEmail # NoAddress /\ u = bound
    /\ Consumes(u, "claim")
    /\ Begins(h, [Quiet EXCEPT !.pc = "adopt", !.user = u, !.acc = acc,
                               !.marks = ClaimMarks(acc, code[u]["claim"])])
    /\ UNCHANGED <<account, found>>

Adopting(u, acc) == [Quiet EXCEPT !.pc = "adopt", !.user = u, !.acc = acc]

\* claim_complete where no mailbox is known
ClaimWithoutMailbox(h, u, acc) ==
    /\ Status = "rw_only" /\ OwnerEmail = NoAddress
    /\ Anchored(u)
    /\ Begins(h, Adopting(u, acc))
    /\ UNCHANGED <<panelMail, code, history>>

\* Credentials that were never confirmed may be replaced.
Replaceable(u) == ~account[u].verified

\* claim_complete for an abandoned registration
ClaimAgain(h, u, acc) ==
    /\ Status = "ready_login" /\ u = bound /\ Replaceable(u)
    /\ Begins(h, Adopting(u, acc))
    /\ UNCHANGED <<account, found, code, history>>

\* migrate: a new account with the subscription, or the owner if it lacks credentials
MigrateNew(u, acc) ==
    /\ requests < MaxRequests /\ requests' = requests + 1
    /\ bound = NoAccount /\ ~Exists(u) /\ ~Taken(u, acc)
    /\ account' = [account EXCEPT ![u] = [Bare EXCEPT !.email = acc, !.password = TRUE]]
    /\ bound' = u
    /\ UNCHANGED <<panelMail, code, request, history, beside>>

Migrate(h, u, acc) ==
    /\ u = bound
    /\ account[u].email = NoAddress \/ ~account[u].password
    /\ Begins(h, Adopting(u, acc))
    /\ UNCHANGED <<account, found, code, history>>

\* adopt_user_for_migration: the password was hashed since the account was read.
Adopt(h) ==
    LET r == request[h]
        u == r.user
    IN
    /\ r.pc = "adopt" /\ ~Taken(u, r.acc)
    /\ account' = [account EXCEPT ![u].email = r.acc, ![u].password = TRUE]
    /\ carried' = IF \/ account[u].verified
                     \/ code[u]["verify"] # NoAddress
                     \/ Busy(u) # {h}
                  THEN carried \cup {u} ELSE carried
    /\ overwritten' = IF account[u].verified /\ account[u].password
                      THEN overwritten \cup {u} ELSE overwritten
    /\ MarkOrEnd(h, r.marks)
    /\ UNCHANGED <<found, code, proven, vouched>>

-----------------------------------------------------------------------------
(* Login through Telegram *)

\* telegram_auth_exchange: the account of the Telegram id counts as verified.
TelegramLogin(h, u) ==
    /\ Exists(u) /\ account[u].telegram /\ ~account[u].verified
    /\ Begins(h, [Quiet EXCEPT !.pc = "mark", !.user = u])
    /\ vouched' = vouched \cup {u}
    /\ UNCHANGED <<account, found, code, proven, carried, overwritten>>

-----------------------------------------------------------------------------
\* A process that stops in the middle of a request; the timeout of a client.
Abandon(h) ==
    /\ request[h].pc # "idle"
    /\ Ends(h)
    /\ UNCHANGED <<account, found, code, history>>

Proceed(h) ==
    \/ StoreCode(h) \/ Finalize(h) \/ SetEmailWithPassword(h) \/ SetPassword(h)
    \/ MarkVerified(h) \/ UpdateUserEmail(h) \/ EmailTaken(h) \/ Adopt(h) \/ Abandon(h)

Next ==
    \/ \E h \in Requests : Proceed(h)
    \/ \E u \in Accounts, a \in Addresses : Register(u, a) \/ MigrateNew(u, a)
    \/ \E h \in Requests, u \in Accounts :
         \/ AskVerification(h, u) \/ AskSetupPassword(h, u) \/ ClaimOtpRequest(h, u)
         \/ EmailVerify(h, u) \/ SetupEmailConfirm(h, u) \/ SetupPasswordConfirm(h, u)
         \/ EmailChangeConfirm(h, u) \/ ClaimPassword(h, u) \/ TelegramLogin(h, u)
    \/ \E h \in Requests, u \in Accounts, a \in Addresses :
         \/ AskSetupEmail(h, u, a) \/ AskEmailChange(h, u, a)
         \/ ClaimWithCode(h, u, a) \/ ClaimWithoutMailbox(h, u, a)
         \/ ClaimAgain(h, u, a) \/ Migrate(h, u, a)

Spec == Init /\ [][Next]_credentialVars

-----------------------------------------------------------------------------
(* Properties *)

TypeOK ==
    /\ account \in [Accounts -> [exists : BOOLEAN, email : Addresses \cup {NoAddress},
                                 password : BOOLEAN, verified : BOOLEAN, telegram : BOOLEAN]]
    /\ bound \in {NoAccount} \cup {u \in Accounts : Exists(u)}
    /\ code \in [Accounts -> [Purposes -> Addresses \cup {NoAddress}]]
    /\ requests \in 0..MaxRequests

\* An address that counts as verified was read by whoever uses the account, or Telegram
\* vouched for the account.  Excepted is an account that a claim or a migration rewrote
\* when it was verified already or a code for its former address was still good: neither
\* takes the verification back.
ProvenMailbox ==
    \A u \in Accounts :
        Exists(u) /\ account[u].verified /\ account[u].email # NoAddress =>
            account[u].email \in proven[u] \/ u \in vouched \cup carried

\* A claim or a migration replaces the address and the password of an account whose
\* address was confirmed only if the confirmation fell between its read and its write:
\* the password is hashed in between.
OwnersKept == overwritten \subseteq beside

CredentialsSound == ProvenMailbox /\ OwnersKept
=============================================================================
