----------------------------- MODULE MCCustomers -----------------------------
(***************************************************************************)
(* The machines around one customer, checked side by side in one run:      *)
(* subscription rows, the transfer of remaining time, the merge of two     *)
(* accounts, sessions and codes, e-mail addresses and passwords, the       *)
(* guards against guessing, the checkout and its rates, the store's        *)
(* purchases, giveaways, the free subscription, the bot's screens, the     *)
(* scan for free users who left the channel, subscriptions imported by     *)
(* their link, the sign-in of the subscription page and the rows by which  *)
(* the bot knows people.                                                   *)
(* They share no state; part names the one that moves in a behaviour, the  *)
(* others rest in one of their initial states.  The guards are taken       *)
(* through the module of their proofs.  What the proofs assume of the      *)
(* constants is stated here, part by part.                                 *)
(***************************************************************************)
EXTENDS Naturals, Sequences, FiniteSets, TLC

CONSTANTS Requests, Accounts, NoAccount, Subscriptions, NoSubscription,
          Profiles, MaxChanges, MaxTransfers, MaxEvents,
          EmailAccounts, TelegramAccounts, TelegramIds, NoTelegram,
          MaxEarned, MaxRows, MaxLinks,
          MaxTokens, MaxCodes, MaxAttempts, MaxIssued, MaxOutages,
          MaxPeriods, MaxCalls, MaxInterrupted,
          Players, NoPlayer, NoHandler, WinnerCount, Selections, MaxTickets,
          Claims, MaxNames, MaxPurchases, MaxLapses, MaxMishaps,
          Addresses, NoAddress, MaxAsked,
          Orders, Terms, NoTerms, MaxRevisions, MaxFaults,
          FailureTtl, LiveTtl, LastRate, MaxAsks,
          Tabs, PageProfiles, MaxPageCodes, AccessTtl, CodeTtl, ContextTtl, SessionTtl,
          LastPageMoment, MaxPageEvents,
          Readers, MaxIncidents,
          Screens, System, Buttons, MenuEdits, MaxViews, MaxSwitches,
          Folk, Nicknames, NoNickname, Records, BotProfiles, NoBotProfile, HeldBy, PanelNames, Traced,
          Beginnings, MaxUpdates

VARIABLES part,
          owner, mainRow, mirror, pending, change, raced, changes,
          profile, linkedTo, transferRow, transfer, moved, bought, transfers, events,
          account, ledgerOf, linkCode, owned, link, created, crossed, beside, merges,
          token, code, handler, ended, tangled, paired, applied, crowded, outages,
          play, purchase, call, provided, overlapped, begun, interrupted,
          status, selection, participants, tickets, lastTicket, winners, lock,
          session, drawn,
          panel, links, primary, cache, claim, verified, made, purchases, lapses, mishaps,
          person, bound, panelMail, mailed, asking, proven, vouched, carried, overwritten,
          hurried, asked,
          tariff, press, order, invoice, inquiry, seenTerms, late, swept, revisions, faults,
          rateClock, quote, rateKnown, bank, asker, held, fetches, got, asks,
          guard, guardClock, counted, blockedUntil, streak, admitted, past, streakPast,
          screen, button, flag, version, edit, menuCache, known, mode, task, happened, reads,
          mixed, unannounced, outdated,
          reader, keptStatus, telegramDown, listed, doomed, cleaner, pressed, incidents, cut,
          hadStatus, exposed, hit, unlucky,
          rowOwner, rowLead, rowMirror, mailOf, panelMailbox, importing, entitled, taken,
          strayed, imported,
          pageClock, human, access, pageCodes, exchange, sessions, context, holder, signedIn,
          agreed, pageEvents,
          handle, botRow, dialog, absentees, fill, shown, names, mistaken, missed, overtaken,
          doubled, botEvents

OneOf(S) == CHOOSE x \in S : TRUE

Linked == INSTANCE SubscriptionLinks
         WITH Owners <- Accounts, Transactions <- Requests,
              NoOwner <- NoAccount, NoProfile <- NoSubscription, primary <- mainRow

LinkSizes == NoAccount \notin Accounts /\ NoSubscription \notin Profiles \cup Subscriptions

ASSUME LinkConstants == LinkSizes

\* Each profile starts with one unit of time.
Moves == INSTANCE SubscriptionTransfer
         WITH Customers <- Accounts, NoCustomer <- NoAccount, request <- transfer,
              requests <- transfers, MaxRequests <- MaxTransfers,
              InitialDays <- [p \in Subscriptions |-> 1]

TransferSizes == NoAccount \notin Accounts /\ NoSubscription \notin Subscriptions

ASSUME TransferConstants == TransferSizes

Merge == INSTANCE AccountMerge
         WITH NoAccountRow <- NoAccount, Links <- Requests, code <- linkCode, links <- merges

MergeSizes ==
    NoTelegram \notin TelegramIds /\ NoAccount \notin EmailAccounts \cup TelegramAccounts

ASSUME MergeConstants == MergeSizes

Access == INSTANCE SignIn WITH Handlers <- Requests

AccessSizes == MaxCodes \in Nat /\ MaxAttempts \in Nat

ASSUME AccessConstants == AccessSizes

Store == INSTANCE PlaySubscription
         WITH Calls <- Requests, MaxMishaps <- MaxInterrupted, mishaps <- interrupted

StoreSizes == MaxPeriods \in Nat \ {0} /\ NoAccount \notin Accounts

ASSUME StoreConstants == StoreSizes

Draw == INSTANCE Giveaway
        WITH Users <- Players, NoUser <- NoPlayer, Sessions <- Requests,
             NoSession <- NoHandler, Dynamic <- TRUE

DrawSizes ==
    /\ Players \subseteq Nat /\ IsFiniteSet(Players)
    /\ WinnerCount \in Nat /\ MaxTickets \in Nat
    /\ NoHandler \notin Requests

ASSUME DrawConstants == DrawSizes

Free == INSTANCE FreeAccess WITH Apart <- TRUE

FreeSizes == MaxNames \in Nat

ASSUME FreeConstants == FreeSizes

Claiming == INSTANCE Credentials
            WITH MaxRequests <- MaxAsked, account <- person, code <- mailed, request <- asking,
                 beside <- hurried, requests <- asked

CredentialSizes ==
    NoAccount \notin Accounts /\ Addresses # {} /\ NoAddress \notin Addresses

ASSUME CredentialConstants == CredentialSizes

\* Orders do not meet before they are claimed: the run has one.
Buy == INSTANCE Checkout

CheckoutSizes == NoTerms \notin Terms

ASSUME CheckoutConstants == CheckoutSizes

Rates == INSTANCE RubRates
         WITH Askers <- Requests, LastMoment <- LastRate, clock <- rateClock, known <- rateKnown

RateSizes ==
    /\ FailureTtl \in Nat /\ LiveTtl \in Nat /\ LastRate \in Nat
    /\ Rates!Nobody \notin Requests

ASSUME RateConstants == RateSizes

Guards == INSTANCE RateGuards_proofs
          WITH Slots <- Requests, Window <- 3, MaxFails <- 2, Block <- 3,
               HourWindow <- 2, HourMax <- 1, DayWindow <- 4, DayMax <- 2,
               StreakMax <- 2, StreakBlock <- 2, SendMax <- 3, SendBlock <- 5,
               LastMoment <- 6, MaxEvents <- 6, clock <- guardClock, events <- counted

ASSUME GuardSizes == Guards!Sizes

\* What the menu's pages of the dashboard send.
Sent(op, slug, name, set) == [op |-> op, screen |-> slug, button |-> name, set |-> set]

SentEdits ==
    {Sent("create_screen", "extra", "b1", [text |-> 1]),
     Sent("update_screen", "main", "b1", [text |-> 2]),
     Sent("delete_screen", "extra", "b1", [text |-> 0]),
     Sent("create_button", "main", "b2", [type |-> "tariff", callback |-> TRUE]),
     Sent("update_button", "main", "b1", [type |-> "url"]),
     Sent("update_button", "main", "b1", [url |-> FALSE]),
     Sent("delete_button", "main", "b1", [text |-> 0]),
     Sent("reorder_buttons", "main", "b1", [place |-> 2])}

Menu == INSTANCE BotMenu
        WITH Edits <- MenuEdits, Editors <- Requests, Tasks <- Claims, MaxReads <- MaxViews,
             MaxEvents <- MaxSwitches, cache <- menuCache, events <- happened

\* A request sets columns the pages have, and a reordering places only.
SentRight(e) ==
    /\ e.screen \in Screens /\ e.button \in Buttons
    /\ "exists" \notin DOMAIN e.set
    /\ \A k \in DOMAIN e.set :
         /\ k \in {"text", "place"} => e.set[k] \in Nat
         /\ k \in {"active", "callback", "url"} => e.set[k] \in BOOLEAN
         /\ k = "type" => e.set[k] \in Menu!Types
         /\ k = "screen" => e.set[k] \in Screens
    /\ e.op = "reorder_buttons" => DOMAIN e.set \subseteq {"place"}

MenuSizes == Screens # {} /\ System \subseteq Screens /\ \A e \in MenuEdits : SentRight(e)

ASSUME MenuConstants == MenuSizes

Cleaning == INSTANCE ChannelClean
            WITH Users <- Readers, MaxEvents <- MaxIncidents, user <- reader, kept <- keptStatus,
                 outage <- telegramDown, list <- listed, task <- cleaner, button <- pressed,
                 happened <- incidents, had <- hadStatus

Imports == INSTANCE SubscriptionImport
           WITH Profiles <- Subscriptions, Mailboxes <- {"m1", "m2"}, NoOwner <- NoAccount,
                NoProfile <- NoSubscription, NoMailbox <- "none", Gone <- "gone",
                MaxEvents <- 2, owner <- rowOwner, primary <- rowLead, mirror <- rowMirror,
                address <- mailOf, panel <- panelMailbox, request <- importing,
                proved <- entitled, events <- imported

Page == INSTANCE PageSession
        WITH People <- Accounts, Profiles <- PageProfiles, Exchanges <- Requests,
             MaxCodes <- MaxPageCodes, LastMoment <- LastPageMoment, MaxEvents <- MaxPageEvents,
             Nobody <- NoAccount, clock <- pageClock, codes <- pageCodes, happened <- pageEvents

PageSizes ==
    /\ NoAccount \notin Accounts /\ 1 \in Tabs /\ MaxPageCodes \in Nat
    /\ AccessTtl \in Nat /\ CodeTtl \in Nat /\ SessionTtl \in Nat

ASSUME PageConstants == PageSizes

\* Two people, two names, two profiles; the first profile carries the id of its person on
\* the panel.  A row may bear the name its person had before.
BotRow(tg, name, rw, mail) == [tg |-> tg, name |-> name, rw |-> rw, mail |-> mail]
TwoOf(ann, bob) == [p \in {"ann", "bob"} |-> IF p = "ann" THEN ann ELSE bob]
RowsAre(one, two) == [r \in {"x", "y", "z"} |-> IF r = "x" THEN one ELSE IF r = "y" THEN two
                                                ELSE BotRow("nobody", "none", "none", "none")]
OwnProfiles == [f \in {"f1", "f2"} |-> IF f = "f1" THEN "ann" ELSE "bob"]
OwnNames == [f \in {"f1", "f2"} |-> IF f = "f1" THEN "n1" ELSE "n2"]
PlainStarts ==
    {<<TwoOf("n1", "n2"), RowsAre(BotRow("ann", "n1", "f1", "none"),
                                  BotRow("bob", "n2", "none", "f2"))>>,
     <<TwoOf("none", "n1"), RowsAre(BotRow("ann", "n1", "none", "f1"),
                                    BotRow("nobody", "none", "none", "none"))>>,
     <<TwoOf("n1", "none"), RowsAre(BotRow("ann", "none", "f1", "none"),
                                    BotRow("nobody", "none", "none", "none"))>>}

Known == INSTANCE BotIdentity
         WITH People <- Folk, Names <- Nicknames, NoName <- NoNickname, RowIds <- Records,
              Profiles <- BotProfiles, NoProfile <- NoBotProfile, OwnerOf <- HeldBy,
              PanelName <- PanelNames, Bound <- Traced, Handlers <- Requests,
              Starts <- Beginnings, MaxEvents <- MaxUpdates,
              row <- botRow, handler <- dialog, listed <- absentees, had <- names,
              crossed <- mistaken, beside <- doubled

\* At first everybody has one row at most, with nobody's profile but his own.
BeginsRight(names0, rows0) ==
    /\ names0 \in [Folk -> Nicknames \cup {NoNickname}]
    /\ rows0 \in [Records -> Known!Row]
    /\ \A r \in Records : rows0[r] # Known!Absent =>
         /\ rows0[r].tg \in Folk
         /\ \A f \in {rows0[r].rw, rows0[r].mail} \ {NoBotProfile} : HeldBy[f] = rows0[r].tg
         /\ \A q \in Records : rows0[q].tg = rows0[r].tg => q = r

KnownSizes ==
    /\ "nobody" \notin Folk /\ "none" \notin Records /\ NoBotProfile \notin BotProfiles
    /\ \A s \in Beginnings : BeginsRight(s[1], s[2])

ASSUME KnownConstants == KnownSizes

linkVars == <<owner, mainRow, mirror, pending, change, raced, changes>>
transferVars == <<profile, linkedTo, transferRow, transfer, moved, bought, transfers, events>>
mergeVars == <<account, ledgerOf, linkCode, owned, link, created, crossed, beside, merges>>
signInVars == <<token, code, handler, ended, tangled, paired, applied, crowded, outages>>
playVars == <<play, purchase, call, provided, overlapped, begun, interrupted>>
giveawayVars == <<status, selection, participants, tickets, lastTicket, winners, lock,
                  session, drawn>>
freeVars == <<panel, links, primary, cache, claim, verified, made, purchases, lapses, mishaps>>
credentialVars == <<person, bound, panelMail, mailed, asking, proven, vouched, carried,
                    overwritten, hurried, asked>>
checkoutVars == <<tariff, press, order, invoice, inquiry, seenTerms, late, swept, revisions,
                  faults>>
rateVars == <<rateClock, quote, rateKnown, bank, asker, held, fetches, got, asks>>
guardVars == <<guard, guardClock, counted, blockedUntil, streak, admitted, past, streakPast>>
menuVars == <<screen, button, flag, version, edit, menuCache, known, mode, task, happened,
              reads, mixed, unannounced, outdated>>
cleanVars == <<reader, keptStatus, telegramDown, listed, doomed, cleaner, pressed, incidents,
               cut, hadStatus, exposed, hit, unlucky>>
importVars == <<rowOwner, rowLead, rowMirror, mailOf, panelMailbox, importing, entitled, taken,
                strayed, imported>>
pageVars == <<pageClock, human, access, pageCodes, exchange, sessions, context, holder,
              signedIn, agreed, pageEvents>>

identityVars == <<handle, botRow, dialog, absentees, fill, shown, names, mistaken, missed,
                  overtaken, doubled, botEvents>>

pageSide == <<importVars, pageVars, identityVars>>

\* The variables of what was here first, and of what follows it.
accountSide == <<linkVars, transferVars, mergeVars, signInVars, playVars, giveawayVars, freeVars>>
salesSide == <<credentialVars, checkoutVars, rateVars, guardVars, menuVars, cleanVars, pageSide>>

\* Where a part that does not move rests.
AtRest ==
    /\ part # "links" => pending = [u \in Accounts |-> {}]
    /\ part # "transfer" => linkedTo = [p \in Subscriptions |-> NoAccount]
    /\ part # "draw" => selection = OneOf(Selections)
    /\ part # "free" => panel = [n \in 0..(MaxNames - 1) |-> Free!NoProfile]
    /\ part # "credentials" =>
         /\ panelMail = NoAddress
         /\ person = [u \in Accounts |-> Claiming!Absent] /\ bound = NoAccount
    /\ part # "checkout" => tariff = OneOf(Terms)
    /\ part # "rates" => bank = TRUE
    /\ part # "guards" => guard = "fails"
    /\ part # "import" =>
         /\ rowOwner = [p \in Subscriptions |-> NoAccount]
         /\ rowMirror = [u \in Accounts |-> NoSubscription]
         /\ panelMailbox = [p \in Subscriptions |-> "none"]
    /\ part # "identity" => handle = TwoOf("n1", "n2")

\* The user the cleaners meet has a traffic limit that is used up; he may be free or VIP.
AsScanned ==
    \A u \in Readers :
        /\ reader[u].status = "limited"
        /\ part # "clean" => ~reader[u].vip /\ reader[u].paid = "never"

\* Whoever has a profile at first has the one of his address; the third is for sale by link.
AsSold ==
    \E m \in [Accounts -> {"m1", "m2"}], own \in [Accounts -> Subscriptions] :
        /\ mailOf = m
        /\ mailOf = OneOf({n \in [Accounts -> {"m1", "m2"}] :
                            \A u, v \in Accounts : n[u] = n[v] => u = v})
        /\ own = OneOf({o \in [Accounts -> Subscriptions] :
                          \A u, v \in Accounts : o[u] = o[v] => u = v})
        /\ \A u \in Accounts :
             /\ \A p \in Subscriptions : rowOwner[p] = u => p = own[u]
             /\ rowMirror[u] \in {own[u], NoSubscription}
             /\ part = "import" => panelMailbox[own[u]] = m[u]

\* Both people have confirmed their addresses.
AsConfirmed == \A u \in Accounts : human[u].verified

\* Of the two buttons, the edits are about this one.
FirstButton == button["b1"].exists

Init ==
    /\ part \in {"links", "transfer", "merge", "access", "store", "draw", "free",
                 "credentials", "checkout", "rates", "guards", "screens", "clean",
                 "import", "page", "identity"}
    /\ AtRest
    /\ Linked!Init /\ Moves!Init /\ Merge!Init /\ Access!Init
    /\ Store!Init /\ Draw!Init /\ Free!Init /\ Claiming!Init
    /\ Buy!Init /\ Rates!Init /\ Guards!Init /\ Menu!Init /\ FirstButton
    /\ Cleaning!Init /\ AsScanned
    /\ Imports!Init /\ AsSold
    /\ Page!Init /\ AsConfirmed
    /\ Known!Init

LinksNext ==
    /\ part = "links"
    /\ Linked!Next
    /\ UNCHANGED <<part, transferVars, mergeVars, signInVars, playVars, giveawayVars, freeVars, salesSide>>

TransferNext ==
    /\ part = "transfer"
    /\ Moves!Next
    /\ UNCHANGED <<part, linkVars, mergeVars, signInVars, playVars, giveawayVars, freeVars, salesSide>>

MergeNext ==
    /\ part = "merge"
    /\ Merge!Next
    /\ UNCHANGED <<part, linkVars, transferVars, signInVars, playVars, giveawayVars, freeVars, salesSide>>

AccessNext ==
    /\ part = "access"
    /\ Access!Next
    /\ UNCHANGED <<part, linkVars, transferVars, mergeVars, playVars, giveawayVars, freeVars, salesSide>>

StoreNext ==
    /\ part = "store"
    /\ Store!Next
    /\ UNCHANGED <<part, linkVars, transferVars, mergeVars, signInVars, giveawayVars, freeVars, salesSide>>

DrawNext ==
    /\ part = "draw"
    /\ Draw!Next
    /\ UNCHANGED <<part, linkVars, transferVars, mergeVars, signInVars, playVars, freeVars, salesSide>>

FreeNext ==
    /\ part = "free"
    /\ Free!Next
    /\ UNCHANGED <<part, linkVars, transferVars, mergeVars, signInVars, playVars, giveawayVars, salesSide>>

CredentialsNext ==
    /\ part = "credentials"
    /\ Claiming!Next
    /\ UNCHANGED <<part, checkoutVars, rateVars, guardVars, menuVars, cleanVars, pageSide,
                   accountSide>>

CheckoutNext ==
    /\ part = "checkout"
    /\ Buy!Next
    /\ UNCHANGED <<part, credentialVars, rateVars, guardVars, menuVars, cleanVars, pageSide,
                   accountSide>>

RatesNext ==
    /\ part = "rates"
    /\ Rates!Next
    /\ UNCHANGED <<part, credentialVars, checkoutVars, guardVars, menuVars, cleanVars, pageSide,
                   accountSide>>

GuardsNext ==
    /\ part = "guards"
    /\ Guards!Next
    /\ UNCHANGED <<part, credentialVars, checkoutVars, rateVars, menuVars, cleanVars, pageSide,
                   accountSide>>

ScreensNext ==
    /\ part = "screens"
    /\ Menu!Next
    /\ UNCHANGED <<part, credentialVars, checkoutVars, rateVars, guardVars, cleanVars, pageSide,
                   accountSide>>

CleanNext ==
    /\ part = "clean"
    /\ Cleaning!Next
    /\ UNCHANGED <<part, credentialVars, checkoutVars, rateVars, guardVars, menuVars, pageSide,
                   accountSide>>

ImportNext ==
    /\ part = "import"
    /\ Imports!Next
    /\ UNCHANGED <<part, credentialVars, checkoutVars, rateVars, guardVars, menuVars, cleanVars,
                   pageVars, identityVars, accountSide>>

PageNext ==
    /\ part = "page"
    /\ Page!Next
    /\ UNCHANGED <<part, credentialVars, checkoutVars, rateVars, guardVars, menuVars, cleanVars,
                   importVars, identityVars, accountSide>>

IdentityNext ==
    /\ part = "identity"
    /\ Known!Next
    /\ UNCHANGED <<part, credentialVars, checkoutVars, rateVars, guardVars, menuVars, cleanVars,
                   importVars, pageVars, accountSide>>

Next ==
    \/ LinksNext \/ TransferNext \/ MergeNext \/ AccessNext \/ StoreNext \/ DrawNext \/ FreeNext
    \/ CredentialsNext \/ CheckoutNext \/ RatesNext \/ GuardsNext \/ ScreensNext
    \/ CleanNext \/ ImportNext \/ PageNext \/ IdentityNext

allVars == <<part, accountSide, salesSide>>

Spec == Init /\ [][Next]_allVars

\* Handlers of requests are interchangeable.
Slots == Permutations(Requests)

(***************************************************************************)
(* The properties of the parts, named as in their modules.                 *)
(***************************************************************************)

\* The variables of the part that moves keep their types; the others do not change.
TypeOK ==
    CASE part = "links" -> Linked!TypeOK
      [] part = "transfer" -> Moves!TypeOK
      [] part = "merge" -> Merge!TypeOK
      [] part = "access" -> Access!TypeOK
      [] part = "store" -> Store!TypeOK
      [] part = "draw" -> Draw!TypeOK
      [] part = "free" -> Free!TypeOK
      [] part = "credentials" -> Claiming!TypeOK
      [] part = "checkout" -> Buy!TypeOK
      [] part = "rates" -> Rates!TypeOK
      [] part = "guards" -> Guards!TypeOK
      [] part = "screens" -> Menu!TypeOK
      [] part = "clean" -> Cleaning!TypeOK
      [] part = "import" -> Imports!TypeOK
      [] part = "page" -> Page!TypeOK
      [] part = "identity" -> Known!TypeOK

\* Unless operations overlap, the primary row is the one users.rw_id names, and no account
\* ever has two of them; an import takes only what its account was shown to be entitled to,
\* from nobody, and leaves rw_id naming the primary row.
LinksSound ==
    /\ part = "links" => Linked!PrimaryTrue
    /\ part = "import" => Imports!ImportSound

\* The days of a source are added to a target at most once, a completed row is true, and a
\* subscription is switched off only when its days were added elsewhere.
TransfersSound == Moves!TransfersSound

\* A merge, in either direction, loses neither points nor rows, and a Telegram id stays
\* with one account.
MergeKeeps == part = "merge" => Merge!MergeKeeps

\* A family of refresh tokens has one live token at most, a handoff gives one session and
\* a confirmation code takes effect once; the subscription page has one session per code, of
\* whoever authorised that page, and it ends a known time after the last sign-in.
SessionsSound ==
    /\ part = "access" => Access!SessionsSound
    /\ part = "page" => Page!PageSessionsSound

\* Calls one after another give a billing period once, to the purchase's account, and only
\* what was delivered is acknowledged to the store.
PeriodsDelivered == part = "store" => Store!PeriodsDelivered

\* One ticket per reason to have one, winners as the tickets and the rule say, and only a
\* complete set of other people replaces them.
GiveawayFair == Draw!GiveawayFair

\* At most one free profile is created under each marker, and a claim never turns an
\* active paid subscription into a free one.
FreeSound == Free!FreeSound

\* A verified address was read by whoever uses the account, and only a race lets a claim
\* rewrite an account that was verified.
CredentialsSound == part = "credentials" => Claiming!CredentialsSound

\* Whoever pays an invoice has an order at the terms that were charged; the bank is asked
\* for its rate seldom, and no rate is given up for an older one.
CheckoutSound ==
    /\ part = "checkout" => Buy!PaidIsServed
    /\ part = "rates" => Rates!RatesSound

\* No more failures, registrations and mails than the guards allow.
Throttled == part = "guards" => Guards!Throttled

\* The bot serves the menu and the mode the dashboard has left, and whoever opens it sees his
\* own profile in it, unless he bears a name that another's row still has.
MenuServed ==
    /\ part = "screens" => Menu!MenuServed
    /\ part = "identity" => Known!PeopleKnown

\* Only those who could be taken for free users outside the channel lose anything to a scan,
\* and they find the way back to a status of their own.
CleanSound == part = "clean" => Cleaning!CleanSound
=============================================================================
