----------------------------- MODULE BotIdentity -----------------------------
(***************************************************************************)
(* By what the bot knows a person.  Telegram numbers people; their         *)
(* @usernames come, go and change hands.  /start finds a row of users by   *)
(* the number, or inserts it, and keeps its username; the dialog that      *)
(* follows finds a row by the *username* instead (get_full_username_info), *)
(* asks the panel for the profile behind it, records the answer in the row *)
(* of the number and shows the menu.  Neither column is unique; only       *)
(* rw_id is.                                                               *)
(*                                                                         *)
(* One action is the code between two awaits that touch rows or the panel. *)
(* The panel is constant here; calls to it may fail.                       *)
(***************************************************************************)
EXTENDS Naturals, FiniteSets

CONSTANTS People,      \* Telegram ids
          Names, NoName,
          RowIds,      \* rows of users there may be
          Profiles, NoProfile,
          OwnerOf,     \* [Profiles -> People]
          PanelName,   \* [Profiles -> Names]: the name on the panel
          Bound,       \* profiles whose telegram_id is set on the panel
          Handlers,
          Starts,      \* initial <<handles, rows>>
          MaxEvents    \* bound: updates of Telegram, renames, failures, clean-ups

\* shown, had, crossed, missed, overtaken and beside are history: <<person, profile>> of the
\* last menu shown; <<person, name>> of all the names people have had; whether a handler looked
\* up a name that another person's row bears; whether a /start did not find the person's
\* profile by the name he came with and still has; whether a row got a name its person no
\* longer had; who pressed /start twice at the same time.
VARIABLES handle, row, handler, listed, fill, shown, had, crossed, missed,
          overtaken, beside, botEvents

vars == <<handle, row, handler, listed, fill, shown, had, crossed, missed,
          overtaken, beside, botEvents>>

Absent == [tg |-> "nobody", name |-> NoName, rw |-> NoProfile, mail |-> NoProfile]

Present == {r \in RowIds : row[r] # Absent}
RowsOf(p) == {r \in Present : row[r].tg = p}
\* get_user_by_username: nobody for no name, otherwise any row that bears it.
Named(n) == IF n = NoName THEN {} ELSE {r \in Present : row[r].name = n}

Idle == [step |-> "idle", who |-> "nobody", name |-> NoName, begun |-> FALSE, same |-> TRUE,
         at |-> "none",
         found |-> Absent, profile |-> NoProfile]

Init ==
    /\ \E s \in Starts : handle = s[1] /\ row = s[2]
    /\ handler = [h \in Handlers |-> Idle]
    /\ listed = {}
    /\ fill = [todo |-> {}, who |-> "nobody", name |-> NoName]
    /\ shown = <<"nobody", NoProfile>>
    /\ had = {<<p, handle[p]>> : p \in People} \cup {<<row[r].tg, row[r].name>> : r \in Present}
    /\ crossed = FALSE /\ missed = FALSE /\ overtaken = FALSE
    /\ beside = {}
    /\ botEvents = 0

Event == botEvents < MaxEvents /\ botEvents' = botEvents + 1

\* A person takes a name nobody has, or gives his up.
Rename(p, n) ==
    /\ Event
    /\ n # handle[p]
    /\ n = NoName \/ \A q \in People : handle[q] # n
    /\ had' = had \cup {<<p, n>>}
    /\ handle' = [handle EXCEPT ![p] = n]
    /\ handler' = [h \in Handlers |-> [handler[h] EXCEPT !.same = @ /\ handler[h].who # p]]
    /\ UNCHANGED <<row, listed, fill, shown, crossed, missed, overtaken, beside>>

Goes(h, to) == handler' = [handler EXCEPT ![h].step = to]
Ends(h) == handler' = [handler EXCEPT ![h] = Idle]

\* An update of Telegram carries the person's name of that moment.
Called(h, p, to, begun) ==
    /\ Event
    /\ handler[h].step = "idle"
    /\ handler' = [handler EXCEPT ![h] = [Idle EXCEPT !.step = to, !.who = p,
                                                      !.name = handle[p], !.begun = begun]]

\* cmd_start.
Start(h, p) ==
    /\ Called(h, p, "set", TRUE)
    /\ beside' = IF \E g \in Handlers : handler[g].begun /\ handler[g].who = p
                 THEN beside \cup {p} ELSE beside
    /\ UNCHANGED <<handle, row, listed, fill, shown, had, crossed, missed, overtaken>>

\* A button that opens the main menu (set_language, others).
Button(h, p) ==
    /\ Called(h, p, "look", FALSE)
    /\ UNCHANGED <<handle, row, listed, fill, shown, had, crossed, missed, overtaken, beside>>

\* Faulty variant: a known person keeps the name he came with.
AlwaysKnown(h, r) == TRUE

\* The row has the name already, or the person has none.
NameKnown(h, r) == handler[h].name \in {NoName, row[r].name}

\* set_user reads.  Before the dialog cmd_start may end: a language to choose, a link code.
SetUserReads(h) ==
    LET mine == RowsOf(handler[h].who)
    IN  /\ handler[h].step = "set"
        /\ \/ mine = {} /\ Goes(h, "insert")
           \/ \E r \in mine :
                IF NameKnown(h, r) THEN Goes(h, "look") \/ Ends(h)
                ELSE handler' = [handler EXCEPT ![h].step = "rename", ![h].at = r]
        /\ UNCHANGED <<handle, row, listed, fill, shown, had, crossed, missed, overtaken, beside,
                       botEvents>>

\* A row is given this name.
Stored(p, n) == overtaken' = (overtaken \/ n # handle[p])

\* set_user inserts the row; a person without a language is asked for it, and cmd_start ends.
SetUserInserts(h) ==
    /\ handler[h].step = "insert"
    /\ \E r \in RowIds \ Present :
         row' = [row EXCEPT ![r] = [Absent EXCEPT !.tg = handler[h].who,
                                                  !.name = handler[h].name]]
    /\ Stored(handler[h].who, handler[h].name)
    /\ Ends(h)
    /\ UNCHANGED <<handle, listed, fill, shown, had, crossed, missed, beside, botEvents>>

\* set_user writes the name; the row may have been deleted since.
SetUserRenames(h) ==
    LET r == handler[h].at
    IN  /\ handler[h].step = "rename"
        /\ IF r \in Present
           THEN /\ row' = [row EXCEPT ![r].name = handler[h].name]
                /\ Stored(row[r].tg, handler[h].name)
                /\ Goes(h, "look") \/ Ends(h)
           ELSE UNCHANGED <<row, overtaken>> /\ Ends(h)
        /\ UNCHANGED <<handle, listed, fill, shown, had, crossed, missed, beside, botEvents>>

ProfileHeld(p) == \E r \in RowsOf(p) : row[r].rw # NoProfile

\* get_full_username_info and get_user_email: a row of the name, and the address in a row of
\* that row's person.
Look(h) ==
    LET bearers == Named(handler[h].name)
        p == handler[h].who
    IN  /\ handler[h].step = "look"
        /\ \/ bearers = {} /\ Goes(h, "ask")
           \/ \E r \in bearers : \E s \in RowsOf(row[r].tg) :
                handler' = [handler EXCEPT ![h].step = "ask",
                                           ![h].found = [row[r] EXCEPT !.mail = row[s].mail]]
        /\ crossed' = (crossed \/ \E r \in bearers : row[r].tg # p)
        /\ missed' = (missed \/ (handler[h].begun /\ ProfileHeld(p) /\ bearers \cap RowsOf(p) = {}
                                 /\ handler[h].same /\ handle[p] # NoName))
        /\ UNCHANGED <<handle, row, listed, fill, shown, had, overtaken, beside, botEvents>>

\* Faulty variant: a profile of that name is taken for the person's.
NameIsEnough(f, p) == TRUE

\* A profile found by its name must carry the person's Telegram id.
NameIsProof(f, p) == f \in Bound /\ OwnerOf[f] = p

\* resolve_remnawave_user: by rw_id, by address (if that call is answered), by name.
Resolved(h, mailAnswered) ==
    LET found == handler[h].found
        byName == {f \in Profiles : found # Absent /\ PanelName[f] = handler[h].name
                                    /\ NameIsProof(f, found.tg)}
    IN  IF found.rw # NoProfile THEN {found.rw}
        ELSE IF found.mail # NoProfile /\ mailAnswered THEN {found.mail}
        ELSE byName

\* main_menu for somebody new.
ShowsNew(h) ==
    /\ Ends(h)
    /\ shown' = <<handler[h].who, NoProfile>>
    /\ UNCHANGED <<handle, row, listed, fill, had, crossed, missed, overtaken, beside>>

\* The panel answers: a profile to record, or somebody new.
Ask(h, mailAnswered) ==
    /\ handler[h].step = "ask"
    /\ IF mailAnswered THEN UNCHANGED botEvents ELSE handler[h].found.mail # NoProfile /\ Event
    /\ \/ \E f \in Resolved(h, mailAnswered) :
            /\ handler' = [handler EXCEPT ![h].step = "record", ![h].profile = f]
            /\ UNCHANGED <<handle, row, listed, fill, shown, had, crossed, missed, overtaken, beside>>
       \/ Resolved(h, mailAnswered) = {} /\ ShowsNew(h)

\* get_user_info takes an error of the panel for "not found".
AskFails(h) ==
    /\ handler[h].step = "ask"
    /\ Event
    /\ ShowsNew(h)

\* update_user_api_info for the person's own row, if there is one, then the menu.  A profile
\* that another row holds violates ux_users_rw_id: the handler ends without a menu.
Record(h) ==
    LET p == handler[h].who
        f == handler[h].profile
        Shows == shown' = <<p, f>>
    IN  /\ handler[h].step = "record"
        /\ \/ RowsOf(p) = {} /\ Shows /\ UNCHANGED <<row, overtaken>>
           \/ \E r \in RowsOf(p) :
                IF \E s \in Present \ {r} : row[s].rw = f
                THEN UNCHANGED <<row, shown, overtaken>>
                ELSE /\ row' = [row EXCEPT ![r].name = handler[h].name, ![r].rw = f]
                     /\ Stored(p, handler[h].name)
                     /\ Shows
        /\ Ends(h)
        /\ UNCHANGED <<handle, listed, fill, had, crossed, missed, beside, botEvents>>

\* admin_cleanup_scan: some of the people known have blocked the bot.
CleanupScans(gone) ==
    /\ Event
    /\ gone # {} /\ gone \subseteq {row[r].tg : r \in Present}
    /\ listed' = gone
    /\ UNCHANGED <<handle, row, handler, fill, shown, had, crossed, missed, overtaken, beside>>

\* admin_confirm_cleanup pops the list and deletes the rows of those on it, or none of them
\* when another table refers to one.  A handler does not find a deleted row again.
CleanupConfirmed(deleted) ==
    /\ listed # {}
    /\ listed' = {}
    /\ LET gone == {r \in Present : deleted /\ row[r].tg \in listed}
       IN  /\ row' = [r \in RowIds |-> IF r \in gone THEN Absent ELSE row[r]]
           /\ handler' = [h \in Handlers |->
                  IF handler[h].at \in gone THEN [handler[h] EXCEPT !.at = "none"] ELSE handler[h]]
    /\ UNCHANGED <<handle, fill, shown, had, crossed, missed, overtaken, beside, botEvents>>

\* admin_fill_usernames_scan: the rows without a name, one after the other.
FillScans ==
    /\ fill.todo = {} /\ fill.who = "nobody"
    /\ Event
    /\ fill' = [fill EXCEPT !.todo = {row[r].tg : r \in {s \in Present : row[s].name = NoName}}]
    /\ UNCHANGED <<handle, row, handler, listed, shown, had, crossed, missed, overtaken, beside>>

FillAsks(p) ==
    /\ fill.who = "nobody" /\ p \in fill.todo
    /\ fill' = IF handle[p] = NoName THEN [fill EXCEPT !.todo = @ \ {p}]
               ELSE [todo |-> fill.todo \ {p}, who |-> p, name |-> handle[p]]
    /\ UNCHANGED <<handle, row, handler, listed, shown, had, crossed, missed, overtaken, beside,
                   botEvents>>

FillWrites ==
    LET p == fill.who
    IN  /\ p # "nobody"
        /\ \/ RowsOf(p) = {} /\ UNCHANGED <<row, overtaken>>
           \/ \E r \in RowsOf(p) : row' = [row EXCEPT ![r].name = fill.name]
                                   /\ Stored(p, fill.name)
        /\ fill' = [fill EXCEPT !.who = "nobody", !.name = NoName]
        /\ UNCHANGED <<handle, handler, listed, shown, had, crossed, missed, beside, botEvents>>

Next ==
    \/ \E p \in People : FillAsks(p) \/ \E n \in Names \cup {NoName} : Rename(p, n)
    \/ \E h \in Handlers :
         \/ \E p \in People : Start(h, p) \/ Button(h, p)
         \/ SetUserReads(h) \/ SetUserInserts(h) \/ SetUserRenames(h)
         \/ Look(h) \/ AskFails(h) \/ Record(h)
         \/ \E answered \in BOOLEAN : Ask(h, answered)
    \/ \E gone \in SUBSET People : CleanupScans(gone)
    \/ \E deleted \in BOOLEAN : CleanupConfirmed(deleted)
    \/ FillScans \/ FillWrites

Spec == Init /\ [][Next]_vars

Row == [tg : People \cup {"nobody"}, name : Names \cup {NoName},
        rw : Profiles \cup {NoProfile}, mail : Profiles \cup {NoProfile}]

TypeOK ==
    /\ handle \in [People -> Names \cup {NoName}]
    /\ row \in [RowIds -> Row]
    /\ handler \in [Handlers ->
          [step : {"idle", "set", "insert", "rename", "look", "ask", "record"},
           who : People \cup {"nobody"}, name : Names \cup {NoName}, begun : BOOLEAN,
           same : BOOLEAN, at : RowIds \cup {"none"}, found : Row, profile : Profiles \cup {NoProfile}]]
    /\ listed \subseteq People
    /\ fill.todo \subseteq People /\ fill.name \in Names \cup {NoName}
    /\ shown \in (People \cup {"nobody"}) \X (Profiles \cup {NoProfile})
    /\ had \subseteq People \X (Names \cup {NoName})
    /\ beside \subseteq People
    /\ {crossed, missed, overtaken} \subseteq BOOLEAN
    /\ botEvents \in 0..MaxEvents

(***************************************************************************)
(* As long as no row bears a name that somebody else is called by, menus   *)
(* and rows have the profiles of their people, whatever names and profiles *)
(* look alike and whichever lookups fail; and that only happens to names   *)
(* that have had two holders.                                              *)
(***************************************************************************)
MenuIsOwn ==
    /\ ~crossed => /\ shown[2] # NoProfile => OwnerOf[shown[2]] = shown[1]
                   /\ \A r \in Present : row[r].rw # NoProfile => OwnerOf[row[r].rw] = row[r].tg
    /\ crossed => \E one, other \in had : one[2] = other[2] /\ one[1] # other[1]

\* After /start the row that holds a person's profile bears the name he came with, unless
\* a slower handler or the fill wrote an older name, or he has several rows.
StartFindsProfile == missed => overtaken \/ beside # {}

\* A person has one row, unless two /start overlapped: tg_id is not unique.
OneRowEach == \A p \in People : Cardinality(RowsOf(p)) > 1 => p \in beside

PeopleKnown == MenuIsOwn /\ StartFindsProfile /\ OneRowEach
=============================================================================
