------------------------------ MODULE BotMenu ------------------------------
(***************************************************************************)
(* The bot's own menu: screens and buttons the dashboard edits, the cache  *)
(* from which the bot serves them, and the switch between this menu and    *)
(* the Mini App.                                                           *)
(*                                                                         *)
(* Sources: dashboard/backend/routers/menus.py and settings.py,            *)
(* cache_utils.py, common_db/repo/system.py; the bot's                     *)
(* database/tariff_repository.py, bot_constructor/feature.py and           *)
(* bot_constructor/keyboards/dynamic.py.                                   *)
(*                                                                         *)
(* An edit of the menu commits first and raises cache_version in a second  *)
(* transaction; the switch and the version change together.  A task of the *)
(* bot looks at the version (at most every five seconds: a task may skip   *)
(* it), empties the cache when it has changed, and fills an empty cache by *)
(* two queries, screens and then buttons.  Tasks overlap at every await.   *)
(***************************************************************************)
EXTENDS Naturals, FiniteSets

CONSTANTS
    Screens, System,    \* slugs; those delete_screen refuses to delete
    Buttons,
    Edits,              \* requests of the dashboard: [op, screen, button, set]
    Editors, Tasks,
    MaxReads,           \* bound: menus and modes asked for
    MaxEvents           \* bound: edits, crashes and failed queries together

VARIABLES
    screen,     \* menu_screens: [exists, active, text]
    button,     \* menu_buttons: [exists, screen, type, callback, url, active, place]
    flag,       \* bot_feature_flags.legacy_bot_constructor
    version,    \* cache_version
    edit,       \* edit[e]: a request of the dashboard
    cache,      \* _menu_cache: the screens in it and what each shows
    known,      \* _known_version of the menu
    mode,       \* feature._value and feature._known_version
    task,       \* task[t]: where a task of the bot is, and what its queries gave
    events, reads,
    mixed,      \* history: two edits were under way at once
    unannounced,    \* history: a committed edit has not raised the version and will not
    outdated        \* history: what a task put into the cache had been read before the
                    \* cache was emptied

menuTables == <<screen, button, flag, version>>
botMemory == <<cache, known, mode, task>>
botMenuVars == <<menuTables, edit, botMemory, events, reads, mixed, unannounced,
                 outdated>>

Types == {"callback", "url", "webapp", "tariff"}

NoScreen == [exists |-> FALSE, active |-> FALSE, text |-> 0]
NoButton == [exists |-> FALSE, screen |-> CHOOSE s \in Screens : TRUE, type |-> "callback",
             callback |-> FALSE, url |-> FALSE, active |-> FALSE, place |-> 0]
NoEdit == [pc |-> "none"]
Asleep == [pc |-> "idle", version |-> 0, flag |-> FALSE, screens |-> {}, buttons |-> {},
           since |-> 0]

EmptyCache == [s \in {} |-> 0]

\* A menu of one system screen with a button, which has an address it does not use (the
\* columns of other types are kept); the bot has just started.
Init ==
    /\ screen = [s \in Screens |-> IF s \in System
                                   THEN [exists |-> TRUE, active |-> TRUE, text |-> 1]
                                   ELSE NoScreen]
    /\ \E first \in Buttons, s \in System :
         button = [b \in Buttons |-> IF b = first
                                     THEN [exists |-> TRUE, screen |-> s, type |-> "callback",
                                           callback |-> TRUE, url |-> TRUE, active |-> TRUE,
                                           place |-> 1]
                                     ELSE NoButton]
    /\ flag = FALSE /\ version = 1
    /\ edit = [e \in Editors |-> NoEdit]
    /\ cache = EmptyCache /\ known = 0 /\ mode = [value |-> FALSE, known |-> 0]
    /\ task = [t \in Tasks |-> Asleep]
    /\ events = 0 /\ reads = 0
    /\ mixed = FALSE /\ unannounced = FALSE /\ outdated = FALSE

-----------------------------------------------------------------------------
(* Edits of the dashboard *)

\* A row with some columns set.
With(row, set) == [k \in DOMAIN row |-> IF k \in DOMAIN set THEN set[k] ELSE row[k]]

\* _validate_button, which also clears the columns a type has no use for
Valid(b) ==
    CASE b.type = "tariff" -> TRUE
      [] b.type \in {"url", "webapp"} -> b.url
      [] OTHER -> b.callback

Cleaned(b) ==
    CASE b.type = "tariff" -> [b EXCEPT !.callback = FALSE, !.url = FALSE]
      [] b.type \in {"url", "webapp"} -> [b EXCEPT !.callback = FALSE]
      [] OTHER -> b

\* The columns of a row that a flush writes.
Changed(before, after) == {k \in DOMAIN before : before[k] # after[k]}
Written(row, before, after) ==
    [k \in DOMAIN row |-> IF k \in Changed(before, after) THEN after[k] ELSE row[k]]

\* create_screen, update_screen, delete_screen, create_button, update_button,
\* delete_button and reorder_buttons: what each reads, and its 404s and 400s.
Accepted(e) ==
    CASE e.op = "create_screen" -> ~screen[e.screen].exists
      [] e.op = "update_screen" -> screen[e.screen].exists
      [] e.op = "delete_screen" -> screen[e.screen].exists /\ e.screen \notin System
      [] e.op = "create_button" ->
           screen[e.screen].exists /\ ~button[e.button].exists /\ Valid(With(NoButton, e.set))
      [] e.op = "update_button" ->
           button[e.button].exists /\ Valid(With(button[e.button], e.set))
      [] e.op = "delete_button" -> button[e.button].exists
      [] e.op = "reorder_buttons" ->
           button[e.button].exists /\ button[e.button].screen = e.screen

OpenEdit(x) ==
    /\ edit[x].pc = "none" /\ events < MaxEvents
    /\ events' = events + 1
    /\ \E e \in Edits :
         /\ Accepted(e)
         /\ edit' = [edit EXCEPT ![x] =
                       [pc |-> "read", request |-> e,
                        row |-> IF e.op = "create_button" THEN NoButton ELSE button[e.button]]]
    /\ mixed' = (mixed \/ \E y \in Editors \ {x} : edit[y].pc = "read")
    /\ UNCHANGED <<menuTables, botMemory, reads, unannounced, outdated>>

\* The rows after a commit.  A flush writes what the request changed in the row it read;
\* an update of a row that is gone fails (500), a second deletion changes nothing.
ScreenAfter(e) ==
    CASE e.op = "create_screen" ->
           [screen EXCEPT ![e.screen] = With([exists |-> TRUE, active |-> TRUE, text |-> 0],
                                             e.set)]
      [] e.op = "update_screen" -> [screen EXCEPT ![e.screen] = With(@, e.set)]
      [] e.op = "delete_screen" -> [screen EXCEPT ![e.screen].active = FALSE]
      [] OTHER -> screen

ButtonAfter(e, row) ==
    CASE e.op = "create_button" ->
           [button EXCEPT ![e.button] = Cleaned(With([NoButton EXCEPT !.exists = TRUE,
                                                        !.screen = e.screen, !.active = TRUE],
                                                     e.set))]
      [] e.op = "update_button" ->
           [button EXCEPT ![e.button] = Written(@, row, Cleaned(With(row, e.set)))]
      [] e.op = "delete_button" -> [button EXCEPT ![e.button] = NoButton]
      [] e.op = "reorder_buttons" /\ button[e.button].exists ->
           [button EXCEPT ![e.button] = With(@, e.set)]
      [] OTHER -> button

Fails(e) ==
    \/ e.op \in {"update_button", "delete_button"} /\ ~button[e.button].exists
    \/ e.op = "create_button" /\ button[e.button].exists
    \/ e.op = "create_screen" /\ screen[e.screen].exists

CommitEdit(x) ==
    /\ edit[x].pc = "read"
    /\ LET e == edit[x].request IN
       IF Fails(e)
       THEN edit' = [edit EXCEPT ![x] = NoEdit] /\ UNCHANGED <<screen, button>>
       ELSE /\ edit' = [edit EXCEPT ![x].pc = "committed"]
            /\ screen' = ScreenAfter(e)
            /\ button' = ButtonAfter(e, edit[x].row)
    /\ UNCHANGED <<flag, version, botMemory, events, reads, mixed, unannounced,
                   outdated>>

\* bump_cache_version of cache_utils: its own session and commit
Bump(x) ==
    /\ edit[x].pc = "committed"
    /\ version' = version + 1
    /\ edit' = [edit EXCEPT ![x] = NoEdit]
    /\ unannounced' = FALSE
    /\ UNCHANGED <<screen, button, flag, botMemory, events, reads, mixed, outdated>>

\* The dashboard stops between the commit and the bump.
EditorStops(x) ==
    /\ edit[x].pc # "none" /\ events < MaxEvents
    /\ events' = events + 1
    /\ unannounced' = (unannounced \/ edit[x].pc = "committed")
    /\ edit' = [edit EXCEPT ![x] = NoEdit]
    /\ UNCHANGED <<menuTables, botMemory, reads, mixed, outdated>>

\* update_features: the switch and the version in one transaction
Switch ==
    /\ events < MaxEvents
    /\ events' = events + 1
    /\ flag' = ~flag
    /\ version' = version + 1
    /\ unannounced' = FALSE
    /\ UNCHANGED <<screen, button, edit, botMemory, reads, mixed, outdated>>

-----------------------------------------------------------------------------
(* Tasks of the bot *)

Becomes(t, r) == task' = [task EXCEPT ![t] = r]
At(t, pc) == task[t].pc = pc

\* get_screen_buttons and get_screen_text: a task may find the version looked at less than
\* five seconds ago; then it looks into the cache.
Ask(t) ==
    /\ At(t, "idle") /\ reads < MaxReads
    /\ reads' = reads + 1
    /\ \/ Becomes(t, [Asleep EXCEPT !.pc = "look"])
       \/ cache = EmptyCache /\ Becomes(t, [Asleep EXCEPT !.pc = "screens"])
    /\ UNCHANGED <<menuTables, edit, cache, known, mode, events, mixed, unannounced,
                   outdated>>

\* The variant that drops nothing: new pages are laid over the old ones.
NothingEmptied(new) == cache

\* _menu_cache.clear()
Emptied(new) == IF new THEN EmptyCache ELSE cache

\* _check_version: the query, and after it the comparison
Look(t) ==
    /\ At(t, "look")
    /\ Becomes(t, [task[t] EXCEPT !.pc = "compare", !.version = version])
    /\ UNCHANGED <<menuTables, edit, cache, known, mode, events, reads, mixed,
                   unannounced, outdated>>

Compare(t) ==
    /\ At(t, "compare")
    /\ LET new == task[t].version # known
           left == Emptied(new)
       IN /\ cache' = left
          /\ known' = task[t].version
          /\ outdated' = (outdated /\ ~new)
          /\ Becomes(t, IF left = EmptyCache THEN [Asleep EXCEPT !.pc = "screens"] ELSE Asleep)
    /\ UNCHANGED <<menuTables, edit, mode, events, reads, mixed, unannounced>>

\* _ensure_menu_cache: the active screens, then their buttons
QueryScreens(t) ==
    /\ At(t, "screens")
    /\ Becomes(t, [task[t] EXCEPT
                     !.pc = "buttons", !.since = known,
                     !.screens = {<<s, screen[s].text>> : s \in {s \in Screens :
                                     screen[s].exists /\ screen[s].active}}])
    /\ UNCHANGED <<menuTables, edit, cache, known, mode, events, reads, mixed,
                   unannounced, outdated>>

\* What a screen shows of a button: get_dynamic_keyboard
Face(b) == [button |-> b, screen |-> button[b].screen, type |-> button[b].type,
            callback |-> button[b].callback, url |-> button[b].url, place |-> button[b].place]
Faces == {Face(b) : b \in {b \in Buttons : button[b].exists /\ button[b].active}}

QueryButtons(t) ==
    /\ At(t, "buttons")
    /\ Becomes(t, [task[t] EXCEPT !.pc = "store", !.buttons = Faces])
    /\ UNCHANGED <<menuTables, edit, cache, known, mode, events, reads, mixed,
                   unannounced, outdated>>

\* A page of the menu: its text and the buttons on it.
Page(text, s, faces) == [text |-> text, buttons |-> {f \in faces : f.screen = s}]

\* The screens that were read replace those in the cache; others stay.
StoredIn(held, t) ==
    LET slugs == {x[1] : x \in task[t].screens} IN
    [s \in DOMAIN held \cup slugs |->
        IF s \in slugs
        THEN Page((CHOOSE x \in task[t].screens : x[1] = s)[2], s, task[t].buttons)
        ELSE held[s]]

Store(t) ==
    /\ At(t, "store")
    /\ cache' = StoredIn(cache, t)
    /\ outdated' = (outdated \/ task[t].since # known)
    /\ Becomes(t, Asleep)
    /\ UNCHANGED <<menuTables, edit, known, mode, events, reads, mixed, unannounced>>

\* A query fails: the task serves what there is.
QueryFails(t) ==
    /\ task[t].pc \in {"look", "screens", "buttons", "mode", "flag"}
    /\ events < MaxEvents
    /\ events' = events + 1
    /\ Becomes(t, Asleep)
    /\ UNCHANGED <<menuTables, edit, cache, known, mode, reads, mixed, unannounced,
                   outdated>>

\* feature.is_enabled: the version, then the switch if the version is another
AskMode(t) ==
    /\ At(t, "idle") /\ reads < MaxReads
    /\ reads' = reads + 1
    /\ Becomes(t, [Asleep EXCEPT !.pc = "mode"])
    /\ UNCHANGED <<menuTables, edit, cache, known, mode, events, mixed, unannounced,
                   outdated>>

LookAtMode(t) ==
    /\ At(t, "mode")
    /\ Becomes(t, IF version = mode.known THEN Asleep
                  ELSE [Asleep EXCEPT !.pc = "flag", !.version = version])
    /\ UNCHANGED <<menuTables, edit, cache, known, mode, events, reads, mixed,
                   unannounced, outdated>>

QueryFlag(t) ==
    /\ At(t, "flag")
    /\ Becomes(t, [task[t] EXCEPT !.pc = "set", !.flag = flag])
    /\ UNCHANGED <<menuTables, edit, cache, known, mode, events, reads, mixed,
                   unannounced, outdated>>

SetMode(t) ==
    /\ At(t, "set")
    /\ mode' = [value |-> task[t].flag, known |-> task[t].version]
    /\ Becomes(t, Asleep)
    /\ UNCHANGED <<menuTables, edit, cache, known, events, reads, mixed, unannounced,
                   outdated>>

Next ==
    \/ \E x \in Editors : OpenEdit(x) \/ CommitEdit(x) \/ Bump(x) \/ EditorStops(x)
    \/ Switch
    \/ \E t \in Tasks :
         \/ Ask(t) \/ Look(t) \/ Compare(t) \/ QueryScreens(t) \/ QueryButtons(t) \/ Store(t)
         \/ QueryFails(t) \/ AskMode(t) \/ LookAtMode(t) \/ QueryFlag(t) \/ SetMode(t)

-----------------------------------------------------------------------------
(* Properties *)

TypeOK ==
    /\ screen \in [Screens -> [exists : BOOLEAN, active : BOOLEAN, text : Nat]]
    /\ button \in [Buttons -> [exists : BOOLEAN, screen : Screens, type : Types,
                               callback : BOOLEAN, url : BOOLEAN, active : BOOLEAN,
                               place : Nat]]
    /\ flag \in BOOLEAN /\ version \in Nat
    /\ DOMAIN cache \subseteq Screens /\ known \in Nat
    /\ mode \in [value : BOOLEAN, known : Nat]
    /\ \A t \in Tasks :
         task[t].pc \in {"idle", "look", "compare", "screens", "buttons", "store", "mode",
                         "flag", "set"}
    /\ \A x \in Editors : edit[x].pc \in {"none", "read", "committed"}

\* The menu as the tables have it.
Current == [s \in {s \in Screens : screen[s].exists /\ screen[s].active} |->
               Page(screen[s].text, s, Faces)]

\* When the bot knows the latest version and no edit waits for its bump, a cache that is
\* not empty holds the menu as the dashboard has left it.  It may not when an edit was
\* never announced, or a slow task has put an old menu into the cache; the next bump ends
\* either.
MenuFresh ==
    /\ known = version
    /\ \A x \in Editors : edit[x].pc # "committed"
    /\ ~unannounced /\ ~outdated
    => cache \in {EmptyCache, Current}

\* A task that knows the latest version knows the switch ("The bot polls this flag with a
\* short TTL, so changes apply without restart", settings.py:6).
ModeFresh == mode.known = version => mode.value = flag

\* Telegram refuses a keyboard with a button that leads nowhere: no page in the cache has
\* one, unless two edits overlapped.
ButtonsLead ==
    ~mixed =>
        \A s \in DOMAIN cache : \A f \in cache[s].buttons :
            CASE f.type = "tariff" -> TRUE
              [] f.type \in {"url", "webapp"} -> f.url
              [] OTHER -> f.callback

MenuServed == MenuFresh /\ ModeFresh /\ ButtonsLead
=============================================================================
