----------------------------- MODULE ChannelClean -----------------------------
(***************************************************************************)
(* Free access is for those who read the channel.  The admin lets the bot  *)
(* or the dashboard scan for free users who left it and confirms the list: *)
(* their panel profile is disabled, and a row of disabled_users keeps the  *)
(* status it had; whoever comes back presses a button and gets it back.    *)
(* Accounts on the Telemt proxy are deleted in the same way and claimed    *)
(* anew.  The lists are confirmed at any later time and not checked again. *)
(***************************************************************************)
EXTENDS Naturals, FiniteSets

CONSTANTS Users,
          MaxEvents   \* bound: what users and admins do, and what fails

VARIABLES user,       \* the row, the profile on the panel, the channel, the proxy
          kept,       \* disabled_users: the status to give back
          outage,     \* Telegram answers requests about the channel with an error
          list,       \* cleaner -> the users it has listed, with the status it saw
          doomed,     \* cleaner -> the users whose proxy account it has listed
          task,       \* cleaner -> the user it works on and how far it is
          button,     \* user -> the answer to the button he pressed
          happened,
          cut,        \* ghost: users disabled by a cleaner and not given back
          had,        \* ghost: user -> statuses that no cleaner gave him
          exposed,    \* ghost: cleaner -> users it may have met outside the channel
          hit,        \* ghost: cleaner -> users it took something from
          unlucky     \* ghost: a request was cut off, or two crossed on this user

cleanVars == <<user, kept, outage, list, doomed, task, button, happened, cut, had, exposed,
               hit, unlucky>>

Cleaners == {"bot", "dashboard"}

Statuses == {"active", "limited", "expired", "disabled"}

NoStatus == "none"

Nothing == [u \in Users |-> NoStatus]

Resting == [at |-> "idle", todo |-> Nothing]

(***************************************************************************)
(* Who is listed                                                           *)
(***************************************************************************)

\* The bot takes an error for the answer that he left, the dashboard for that he stayed.
Subscribed(c, u) == IF outage THEN c = "dashboard" ELSE user[u].member

\* The bot spares everybody with an order, the dashboard those whose order runs.
Unpaid(c, u) == user[u].paid \in (IF c = "bot" THEN {"never"} ELSE {"never", "ended"})

\* A faulty variant: whoever is VIP is listed like everybody else.
AnyFreeUsers(c) == {u \in Users : user[u].row /\ ~user[u].banned /\ Unpaid(c, u)}

FreeUsers(c) ==
    {u \in Users : user[u].row /\ ~user[u].vip /\ ~user[u].banned /\ Unpaid(c, u)}

\* The bot asks the panel for the status at once and leaves out who is disabled already.
\* Where nobody is found an earlier list stays.
SubCleanScan(c) ==
    LET found == {u \in FreeUsers(c) :
                     /\ ~Subscribed(c, u)
                     /\ c = "bot" => user[u].status # "disabled"}
    IN  /\ found # {}
        /\ list' = [list EXCEPT ![c] = [u \in Users |-> IF u \in found THEN user[u].status
                                                        ELSE NoStatus]]
        /\ UNCHANGED <<user, kept, outage, doomed, task, button, happened, cut, had, hit, unlucky>>

Begins(c, todo) ==
    /\ task[c].at = "idle" /\ todo # Nothing
    /\ task' = [task EXCEPT ![c] = [at |-> "working", todo |-> todo]]
    /\ UNCHANGED <<user, kept, outage, doomed, button, happened, cut, had, hit, unlucky>>

\* The bot forgets the list, the admin's browser does not.
AdminConfirmSubClean ==
    /\ Begins("bot", list["bot"])
    /\ list' = [list EXCEPT !["bot"] = Nothing]

\* The dashboard reads the rows of the listed users once more.
SubCleanExecute ==
    /\ Begins("dashboard",
              [u \in Users |-> IF user[u].row THEN list["dashboard"][u] ELSE NoStatus])
    /\ UNCHANGED list

(***************************************************************************)
(* One user after another                                                  *)
(***************************************************************************)

\* Those a cleaner has still to do.
ToDo(c) == {u \in Users : task[c].todo[u] # NoStatus}

\* The user a cleaner is at: the one it has begun, and otherwise the next.
Turn(c) == CHOOSE u \in ToDo(c) : TRUE

Working(c, at) == task[c].at = at /\ task[c].todo # Nothing

\* Whoever comes to a user while another is at him crosses him.
Busy(u) == \/ button[u].at # "idle"
           \/ \E c \in Cleaners : task[c].at \in {"disabling", "recording"} /\ Turn(c) = u

Crossed(u) == unlucky' = IF Busy(u) THEN unlucky \cup {u} ELSE unlucky

\* The dashboard asks for the status now; without an answer it counts as active.
AskStatus(c) ==
    /\ Working(c, "working")
    /\ \E status \in (IF c = "bot" THEN {task[c].todo[Turn(c)]}
                       ELSE {user[Turn(c)].status, "active"}) :
        task' = [task EXCEPT ![c].at = "disabling", ![c].todo[Turn(c)] = status]
    /\ Crossed(Turn(c))
    /\ UNCHANGED <<user, kept, outage, list, doomed, button, happened, cut, had, hit>>

Done(c, t) == [at |-> IF [t EXCEPT ![Turn(c)] = NoStatus] = Nothing THEN "idle" ELSE "working",
               todo |-> [t EXCEPT ![Turn(c)] = NoStatus]]

\* The row is written when the panel has agreed.
Disable(c) ==
    LET u == Turn(c)
    IN  /\ Working(c, "disabling")
        /\ user' = [user EXCEPT ![u].status = "disabled"]
        /\ task' = [task EXCEPT ![c].at = "recording"]
        /\ cut' = cut \cup {u}
        /\ hit' = [hit EXCEPT ![c] = @ \cup {u}]
        /\ UNCHANGED <<kept, outage, list, doomed, button, happened, had, unlucky>>

\* A faulty variant: the last status wins, be it the one a cleaning gave itself.
KeptLast(c, u) == task[c].todo[u]

\* The bot writes over a row that is there, the dashboard leaves it.
Kept(c, u) ==
    IF c = "dashboard" /\ kept[u] # NoStatus THEN kept[u] ELSE task[c].todo[u]

CreateDisabledUser(c) ==
    LET u == Turn(c)
    IN  /\ Working(c, "recording")
        /\ kept' = [kept EXCEPT ![u] = Kept(c, u)]
        /\ task' = [task EXCEPT ![c] = Done(c, @.todo)]
        /\ UNCHANGED <<user, outage, list, doomed, button, happened, cut, had, hit, unlucky>>

Event == happened < MaxEvents /\ happened' = happened + 1

\* The panel refuses, or the database does after the panel agreed.
UserFails(c) ==
    /\ Event
    /\ Working(c, "disabling") \/ Working(c, "recording")
    /\ task' = [task EXCEPT ![c] = Done(c, @.todo)]
    /\ unlucky' = IF task[c].at = "recording" THEN unlucky \cup {Turn(c)} ELSE unlucky
    /\ UNCHANGED <<user, kept, outage, list, doomed, button, cut, had, hit>>

\* The process stops; the bot's lists go with it.
CutOff(c) ==
    /\ Event
    /\ task[c].at # "idle"
    /\ task' = [task EXCEPT ![c] = Resting]
    /\ unlucky' = IF task[c].at = "recording" THEN unlucky \cup {Turn(c)} ELSE unlucky
    /\ list' = IF c = "bot" THEN [list EXCEPT ![c] = Nothing] ELSE list
    /\ doomed' = IF c = "bot" THEN [doomed EXCEPT ![c] = {}] ELSE doomed
    /\ UNCHANGED <<user, kept, outage, button, cut, had, hit>>

(***************************************************************************)
(* The way back                                                            *)
(***************************************************************************)

\* The button reads the row of disabled_users, asks Telegram and looks for the profile.
SubcheckReactivate(u) ==
    /\ button[u].at = "idle"
    /\ kept[u] # NoStatus /\ Subscribed("bot", u) /\ user[u].row
    /\ button' = [button EXCEPT ![u] = [at |-> "restoring", status |-> kept[u]]]
    /\ Crossed(u)
    /\ UNCHANGED <<user, kept, outage, list, doomed, task, happened, cut, had, hit>>

GivenBack(u) == [at |-> "idle", status |-> NoStatus]

RestoreStatus(u) ==
    /\ button[u].at = "restoring"
    /\ user' = [user EXCEPT ![u].status = button[u].status]
    /\ cut' = cut \ {u}
    /\ button' = [button EXCEPT ![u].at = "deleting"]
    /\ UNCHANGED <<kept, outage, list, doomed, task, happened, had, hit, unlucky>>

DeleteDisabledUser(u) ==
    /\ button[u].at = "deleting"
    /\ kept' = [kept EXCEPT ![u] = NoStatus]
    /\ button' = [button EXCEPT ![u] = GivenBack(u)]
    /\ UNCHANGED <<user, outage, list, doomed, task, happened, cut, had, hit, unlucky>>

\* The panel refuses, or the bot stops before the row is deleted.
ReactivationFails(u) ==
    /\ Event
    /\ button[u].at # "idle"
    /\ button' = [button EXCEPT ![u] = GivenBack(u)]
    /\ UNCHANGED <<user, kept, outage, list, doomed, task, cut, had, hit, unlucky>>

(***************************************************************************)
(* The proxy                                                               *)
(***************************************************************************)

\* Accounts without a row are left alone; a ban does not matter here.
Doomed(c) ==
    {u \in Users : /\ user[u].proxy /\ user[u].row /\ ~user[u].vip
                   /\ Unpaid(c, u) /\ ~Subscribed(c, u)}

TelemtCleanScan(c) ==
    /\ Doomed(c) # {}
    /\ doomed' = [doomed EXCEPT ![c] = Doomed(c)]
    /\ UNCHANGED <<user, kept, outage, list, task, button, happened, cut, had, hit, unlucky>>

\* The listed accounts are deleted but for those the proxy does not answer about.
DeleteTelemtUsers(c) ==
    /\ doomed[c] # {}
    /\ \E gone \in SUBSET doomed[c] :
          /\ user' = [u \in Users |-> IF u \in gone THEN [user[u] EXCEPT !.proxy = FALSE]
                                     ELSE user[u]]
          /\ hit' = [hit EXCEPT ![c] = @ \cup gone]
    /\ UNCHANGED <<kept, outage, list, task, button, happened, cut, had, unlucky>>

AdminConfirmTelemtClean ==
    DeleteTelemtUsers("bot") /\ doomed' = [doomed EXCEPT !["bot"] = {}]

TelemtCleanExecute == DeleteTelemtUsers("dashboard") /\ UNCHANGED doomed

\* The Mini App asks for a row, the bot does not; both turn banned users away.
TelemtFreeBuy(u) ==
    /\ ~user[u].banned /\ Subscribed("bot", u) /\ ~user[u].proxy
    /\ user' = [user EXCEPT ![u].proxy = TRUE]
    /\ UNCHANGED <<kept, outage, list, doomed, task, button, happened, cut, had, hit, unlucky>>

TelemtClaim(u) == user[u].row /\ TelemtFreeBuy(u)

(***************************************************************************)
(* Users and admins                                                        *)
(***************************************************************************)

Becomes(u, row) ==
    /\ Event
    /\ user' = [user EXCEPT ![u] = row]
    /\ had' = [had EXCEPT ![u] = @ \cup ({row.status} \ {user[u].status})]
    /\ cut' = IF row.status = user[u].status THEN cut ELSE cut \ {u}
    /\ UNCHANGED <<kept, outage, list, doomed, task, button, hit, unlucky>>

\* He joins or leaves the channel.
ChannelChanges(u) == Becomes(u, [user[u] EXCEPT !.member = ~@])

SetBanned(u) == user[u].row /\ Becomes(u, [user[u] EXCEPT !.banned = ~@])

SetVip(u) == user[u].row /\ Becomes(u, [user[u] EXCEPT !.vip = ~@])

\* The row goes with its orders; the rows of disabled_users and the profile stay.
DeleteUser(u) ==
    /\ user[u].row
    /\ Becomes(u, [user[u] EXCEPT !.row = FALSE, !.vip = FALSE, !.banned = FALSE,
                                  !.paid = "never"])

\* A delivered order makes the profile active, and its time ends on the panel.
Pays(u) ==
    /\ user[u].row
    /\ Becomes(u, [user[u] EXCEPT !.paid = "active", !.status = "active"])

PeriodEnds(u) ==
    /\ user[u].status \in {"active", "limited"}
    /\ Becomes(u, [user[u] EXCEPT !.status = "expired",
                                  !.paid = IF @ = "active" THEN "ended" ELSE @])

TelegramFails ==
    /\ Event
    /\ outage' = ~outage
    /\ UNCHANGED <<user, kept, list, doomed, task, button, cut, had, hit, unlucky>>

Init ==
    /\ user \in [Users -> {[row |-> TRUE, vip |-> v, banned |-> FALSE, paid |-> p, status |-> s,
                            member |-> TRUE, proxy |-> TRUE] :
                              v \in BOOLEAN, p \in {"never", "active"}, s \in {"active", "limited"}}]
    /\ kept = Nothing /\ outage = FALSE
    /\ list = [c \in Cleaners |-> Nothing] /\ doomed = [c \in Cleaners |-> {}]
    /\ task = [c \in Cleaners |-> Resting] /\ button = [u \in Users |-> GivenBack(u)]
    /\ happened = 0
    /\ cut = {} /\ unlucky = {}
    /\ had = [u \in Users |-> {user[u].status}]
    /\ exposed = [c \in Cleaners |-> {}] /\ hit = [c \in Cleaners |-> {}]

\* Whom a cleaner could take for somebody who is free and left.
Open(c, u) == ~user[u].vip /\ Unpaid(c, u) /\ ~Subscribed(c, u)

Step ==
    \/ \E c \in Cleaners :
        \/ SubCleanScan(c) \/ AskStatus(c) \/ Disable(c) \/ CreateDisabledUser(c)
        \/ UserFails(c) \/ CutOff(c) \/ TelemtCleanScan(c)
    \/ AdminConfirmSubClean \/ SubCleanExecute
    \/ AdminConfirmTelemtClean \/ TelemtCleanExecute
    \/ \E u \in Users :
        \/ SubcheckReactivate(u) \/ RestoreStatus(u) \/ DeleteDisabledUser(u)
        \/ ReactivationFails(u)
        \/ TelemtFreeBuy(u) \/ TelemtClaim(u)
        \/ ChannelChanges(u) \/ SetBanned(u) \/ SetVip(u) \/ DeleteUser(u)
        \/ Pays(u) \/ PeriodEnds(u)
    \/ TelegramFails

Next ==
    /\ Step
    /\ exposed' = [c \in Cleaners |-> exposed[c] \cup {u \in Users : Open(c, u)'}]

Spec == Init /\ [][Next]_cleanVars

TypeOK ==
    /\ \A u \in Users : /\ user[u].row \in BOOLEAN
                      /\ user[u].status \in Statuses
                      /\ user[u].paid \in {"never", "active", "ended"}
    /\ kept \in [Users -> Statuses \cup {NoStatus}] /\ outage \in BOOLEAN
    /\ \A c \in Cleaners : /\ task[c].at \in {"idle", "working", "disabling", "recording"}
                           /\ list[c] \in [Users -> Statuses \cup {NoStatus}]
                           /\ doomed[c] \subseteq Users
    /\ \A u \in Users : button[u].at \in {"idle", "restoring", "deleting"}
    /\ happened \in 0..MaxEvents

\* Whoever pays, is VIP or stayed in the channel all the time (and for the bot: while
\* Telegram answered) loses neither profile nor proxy account.
OnlyExposed == \A c \in Cleaners : hit[c] \subseteq exposed[c]

\* Whoever a cleaner has disabled finds the button that gives his status back, and it is a
\* status he had (or active, where the panel did not answer the dashboard), not the one a
\* cleaner gave him - unless a request was cut off after the
\* panel had disabled him, or he pressed the button while the cleaner came to him again.
WayBack ==
    \A u \in cut \ unlucky :
        (\A c \in Cleaners : task[c].at = "recording" => Turn(c) # u) =>
            kept[u] \in had[u] \cup {"active"}

CleanSound == OnlyExposed /\ WayBack
=============================================================================
