--------------------------- MODULE RuntimeConfig ---------------------------
(***************************************************************************)
(* Configuration with two sources: the rows the dashboard edits, the       *)
(* config.yml of every process, and the overlay each process keeps in      *)
(* memory and refreshes when the version in the database has changed.      *)
(*                                                                         *)
(* Sources: common_db/repo/runtime.py and repo/system.py, runtime_config/  *)
(* (overlay.py, bootstrap.py, dual_source.py, validation.py), the routers  *)
(* runtime_settings.py, payment_integrations.py, app_integrations.py,      *)
(* branding.py and api_health.py of the dashboard.                         *)
(*                                                                         *)
(* The settings are one JSON document in one row: a save reads it, changes *)
(* its keys and writes it whole.  One payment gateway and the Android      *)
(* integration stand for the providers; a provider has one secret.  A      *)
(* refresh is four queries, between which others commit.                   *)
(***************************************************************************)
EXTENDS Naturals, FiniteSets

CONSTANTS
    Keys, Logo,         \* RUNTIME_KEYS; branding_logo_url is one of them
    Values, NoValue,    \* of settings; "" is the value of a cleared logo
    Good, Bad,          \* Android secrets android_jwt_secret_error accepts, and rejects
    Files,              \* config.yml: [settings, gateway, secret]
    Edits,              \* what the dashboard may send: [kind, set, enabled, field]
    Admins,             \* requests of the dashboard
    Processes,          \* of them, "dashboard" is told about its own saves
    Followed,           \* bound: those whose refreshes are followed; they share nothing
    MaxEvents           \* bound: saves, restarts and failed queries together

VARIABLES
    yaml,       \* the file all processes read
    settings,   \* app_runtime_settings: [key -> value or NoValue]
    asset,      \* dashboard_branding_assets: the address its picture is of
    gateway,    \* payment_integrations, one provider
    android,    \* app_integrations["android"]
    version,    \* cache_version
    form,       \* form[a]: a request of the dashboard and what it has read
    proc,       \* proc[p]: where a process is, what it has read and published
    events,
    meant,      \* history: what the last save or import meant to leave
    strayed     \* history: which excuses for a difference there are

database == <<yaml, settings, asset, gateway, android, version>>
history == <<meant, strayed>>
configVars == <<database, form, proc, events, history>>

Secrets == Good \cup Bad

NoRow == [exists |-> FALSE, managed |-> FALSE, enabled |-> FALSE, secret |-> NoValue]
Imported(s) == [exists |-> TRUE, managed |-> FALSE, enabled |-> TRUE, secret |-> s]

\* A process that has not booted has an empty overlay and knows no version (0 here).
NoOverlay == [settings |-> [k \in Keys |-> NoValue], gateway |-> NoRow, android |-> NoRow]
Down == [pc |-> "down", booted |-> FALSE, read |-> [k \in Keys |-> NoValue], seen |-> 0,
         next |-> NoOverlay, overlay |-> NoOverlay, known |-> 0]

Closed == [pc |-> "closed", edit |-> [kind |-> "none"], read |-> [k \in Keys |-> NoValue],
           row |-> NoRow]

\* A request of the settings pages carries some keys, the logo's page the address of a
\* picture that has been downloaded, a provider's page its switch and its secret field,
\* which is left blank, comes back masked or holds a new value.
EditsAre ==
    /\ Logo \in Keys
    /\ \A e \in Edits :
         \/ e.kind = "settings" /\ e.set \in UNION {[K -> Values] : K \in SUBSET Keys \ {{}}}
         \/ e.kind = "branding" /\ e.set \in [{Logo} -> Values]
         \/ /\ e.kind \in {"gateway", "android"}
            /\ e.enabled \in BOOLEAN /\ e.field \in {"blank", "masked"} \cup Good \cup Bad

\* At first nothing is stored, except perhaps an Android row with a secret that is no
\* longer accepted.
Init ==
    /\ yaml \in Files
    /\ settings = [k \in Keys |-> NoValue]
    /\ asset = NoValue /\ gateway = NoRow
    /\ android \in {NoRow} \cup {[exists |-> TRUE, managed |-> TRUE, enabled |-> TRUE,
                                  secret |-> s] : s \in Bad}
    /\ version = 1
    /\ form = [a \in Admins |-> Closed]
    /\ proc = [p \in Processes |-> Down]
    /\ events = 0
    /\ meant = [settings |-> settings, secret |-> android.secret]
    /\ strayed = {}

-----------------------------------------------------------------------------
(* What a process sees: merge_config, apply_payments_to_mapping and            *)
(* apply_integrations_to_mapping                                               *)

\* A row that is not managed leaves the YAML value; a disabled one empties it; an
\* enabled one wins if it has the field.
Field(row, fallback) ==
    CASE ~row.managed -> fallback
      [] row.managed /\ ~row.enabled -> NoValue
      [] OTHER -> IF row.secret = NoValue THEN fallback ELSE row.secret

AndroidSecret(p) == Field(proc[p].overlay.android, yaml.secret)

-----------------------------------------------------------------------------
(* Saves of the dashboard *)

Merged(document, set) == [k \in Keys |-> IF k \in DOMAIN set THEN set[k] ELSE document[k]]

\* put_runtime, api_health.put_settings and put_branding read the document in
\* save_runtime_config, update_provider of either router the row of the provider.
Open(a) ==
    /\ form[a].pc = "closed" /\ events < MaxEvents
    /\ events' = events + 1
    /\ \E e \in Edits :
         form' = [form EXCEPT ![a] =
            [pc |-> "read", edit |-> e,
             read |-> IF e.kind \in {"settings", "branding"} THEN settings ELSE Closed.read,
             row |-> CASE e.kind = "gateway" -> gateway
                       [] e.kind = "android" -> android
                       [] OTHER -> NoRow]]
    /\ UNCHANGED <<database, proc, history>>

Shut(a) == form' = [form EXCEPT ![a] = Closed]

\* invalidate_local: only the process of the dashboard forgets the version it knows.
Invalidated(p) == IF p = "dashboard" THEN [proc[p] EXCEPT !.known = 0] ELSE proc[p]
Committed ==
    /\ version' = version + 1
    /\ proc' = [p \in Processes |-> Invalidated(p)]

\* A document that equals the one read is not written.
Rewritten(read, merged) == IF merged = read THEN settings ELSE merged

\* save_runtime_config, the bump and the commit; put_branding replaces the picture in the
\* same transaction.
SaveSettings(a) ==
    LET f == form[a]
        set == f.edit.set
        merged == Merged(f.read, set)
    IN /\ f.pc = "read" /\ f.edit.kind \in {"settings", "branding"}
       /\ settings' = Rewritten(f.read, merged)
       /\ asset' = IF f.edit.kind # "branding" THEN asset
                   ELSE IF set[Logo] = "" THEN NoValue ELSE set[Logo]
       /\ Committed
       /\ meant' = [meant EXCEPT !.settings = Merged(meant.settings, set)]
       /\ strayed' = strayed \cup (IF f.read # settings THEN {"settings"} ELSE {})
                             \cup (IF f.edit.kind = "settings" /\ Logo \in DOMAIN set
                                   THEN {"logo"} ELSE {})
       /\ Shut(a)
       /\ UNCHANGED <<yaml, gateway, android, events>>

\* What a save leaves in a row: columns that equal what was read are not written, the
\* encrypted fields always are.
Written(row, f, secret) ==
    [exists |-> TRUE,
     managed |-> TRUE,
     enabled |-> IF f.row.exists /\ f.edit.enabled = f.row.enabled THEN row.enabled ELSE f.edit.enabled,
     secret |-> secret]

\* The first save of a provider inserts its row: the second of two fails on the key.
Collides(f, row) == ~f.row.exists /\ row.exists

\* upsert_payment_integration: a blank secret keeps the stored one.  The router drops a
\* masked field, and a field that is absent keeps nothing.
SaveGateway(a) ==
    LET f == form[a]
        secret == CASE f.edit.field = "blank" -> f.row.secret
                    [] f.edit.field = "masked" -> NoValue
                    [] OTHER -> f.edit.field
    IN /\ f.pc = "read" /\ f.edit.kind = "gateway"
       /\ Shut(a)
       /\ IF Collides(f, gateway)
          THEN UNCHANGED <<gateway, version, proc>>
          ELSE gateway' = Written(gateway, f, secret) /\ Committed
       /\ UNCHANGED <<yaml, settings, asset, android, events, history>>

\* resolve_android_jwt_secret
Resolved(f) ==
    CASE f.edit.field \in Secrets -> f.edit.field
      [] f.edit.field \notin Secrets /\ f.row.secret \in Good -> f.row.secret
      [] OTHER -> yaml.secret

\* update_provider and upsert_app_integration: blank and masked secrets keep the stored
\* one; to be enabled, Android needs a good secret (422 otherwise).
SaveAndroid(a) ==
    LET f == form[a]
        secret == IF f.edit.enabled THEN Resolved(f)
                  ELSE IF f.edit.field \in Secrets THEN f.edit.field ELSE f.row.secret
    IN /\ f.pc = "read" /\ f.edit.kind = "android"
       /\ Shut(a)
       /\ IF Collides(f, android) \/ (f.edit.enabled /\ secret \notin Good)
          THEN UNCHANGED <<android, version, proc, meant, strayed>>
          ELSE /\ android' = Written(android, f, secret)
               /\ Committed
               /\ meant' = [meant EXCEPT !.secret =
                              IF f.edit.enabled \/ f.edit.field \in Secrets THEN secret ELSE @]
               /\ strayed' = strayed \cup (IF f.row # android THEN {"secret"} ELSE {})
       /\ UNCHANGED <<yaml, settings, asset, gateway, events>>

-----------------------------------------------------------------------------
(* Boot: bootstrap_runtime_overlay *)

\* import_runtime_from_yaml reads the document
Boot(p) ==
    /\ proc[p].pc = "down"
    /\ proc' = [proc EXCEPT ![p] = [Down EXCEPT !.pc = "import", !.read = settings,
                                                !.next = [NoOverlay EXCEPT
                                                    !.gateway = gateway, !.android = android]]]
    /\ UNCHANGED <<database, form, events, history>>

\* Keys that only the file has are imported.
FromYaml(document) ==
    [k \in Keys |-> IF document[k] = NoValue THEN yaml.settings[k] ELSE document[k]]

\* The three imports and their commit.  Payments are imported into an empty table, an
\* integration when its row is missing and its secret is good; both count as unmanaged.
Import(p) ==
    LET r == proc[p].read
        document == FromYaml(r)
        newGateway == ~gateway.exists /\ yaml.gateway # NoValue
        newAndroid == ~android.exists /\ yaml.secret \in Good
        bumps == Cardinality({i \in 1..3 : \/ i = 1 /\ document # r
                                           \/ i = 2 /\ newGateway
                                           \/ i = 3 /\ newAndroid})
    IN /\ proc[p].pc = "import"
       /\ settings' = Rewritten(r, document)
       /\ gateway' = IF newGateway THEN Imported(yaml.gateway) ELSE gateway
       /\ android' = IF newAndroid THEN Imported(yaml.secret) ELSE android
       /\ version' = version + bumps
       /\ meant' = [settings |-> [k \in Keys |-> IF meant.settings[k] = NoValue
                                                 THEN yaml.settings[k]
                                                 ELSE meant.settings[k]],
                    secret |-> IF newAndroid THEN yaml.secret ELSE meant.secret]
       /\ strayed' = strayed \cup (IF document # r /\ r # settings THEN {"settings"} ELSE {})
                             \cup (IF document[Logo] # r[Logo] THEN {"logo"} ELSE {})
       /\ proc' = [proc EXCEPT ![p] = [Down EXCEPT !.pc = "version"]]
       /\ UNCHANGED <<yaml, asset, form, events>>

\* Two processes that boot insert the same row: one of them fails and boots again.
ImportCollides(p) ==
    /\ proc[p].pc = "import"
    /\ \/ ~proc[p].next.gateway.exists /\ gateway.exists /\ yaml.gateway # NoValue
       \/ ~proc[p].next.android.exists /\ android.exists /\ yaml.secret \in Good
    /\ proc' = [proc EXCEPT ![p] = Down]
    /\ UNCHANGED <<database, form, events, history>>

-----------------------------------------------------------------------------
(* Refresh: refresh_from_session, forced at the boot and then in the poll loop *)

\* get_cache_version; a poll that finds the version it knows reads no further.
ReadVersion(p) ==
    /\ p \in Followed
    /\ \/ proc[p].pc = "version"
       \/ proc[p].pc = "up" /\ version # proc[p].known
    /\ proc' = [proc EXCEPT ![p].pc = "settings", ![p].seen = version]
    /\ UNCHANGED <<database, form, events, history>>

QuerySettings(p) ==
    /\ proc[p].pc = "settings"
    /\ proc' = [proc EXCEPT ![p].pc = "gateway", ![p].next.settings = settings]
    /\ UNCHANGED <<database, form, events, history>>

QueryGateway(p) ==
    /\ proc[p].pc = "gateway"
    /\ proc' = [proc EXCEPT ![p].pc = "android", ![p].next.gateway = gateway]
    /\ UNCHANGED <<database, form, events, history>>

\* A bad secret of an enabled row does not take the place of what the process has.
Usable(row, previous) ==
    IF row.managed /\ row.enabled /\ row.secret \notin Good THEN previous ELSE row

\* The variant that looks the version up when the rows have been read.
LatestVersion(p) == version

\* The version that was read before the rows is the one the process then knows.
KnownAfter(p) == proc[p].seen

Publish(p) ==
    /\ proc[p].pc = "android"
    /\ LET next == [proc[p].next EXCEPT !.android = Usable(android, proc[p].overlay.android)]
       IN proc' = [proc EXCEPT ![p] = [Down EXCEPT !.pc = "up", !.booted = TRUE,
                                                   !.overlay = next,
                                                   !.known = KnownAfter(p)]]
    /\ UNCHANGED <<database, form, events, history>>

\* A query fails: a poll is logged and tried again, a boot ends.
RefreshFails(p) ==
    /\ events < MaxEvents
    /\ events' = events + 1
    /\ \/ /\ proc[p].pc \in {"settings", "gateway", "android"} /\ proc[p].booted
          /\ proc' = [proc EXCEPT ![p] = [Down EXCEPT !.pc = "up", !.booted = TRUE,
                                                      !.overlay = proc[p].overlay,
                                                      !.known = proc[p].known]]
       \/ /\ proc[p].pc \in {"import", "version", "settings", "gateway", "android"}
          /\ ~proc[p].booted
          /\ proc' = [proc EXCEPT ![p] = Down]
    /\ UNCHANGED <<database, form, history>>

\* A process stops; its overlay is gone.
Restart(p) ==
    /\ proc[p].pc # "down" /\ events < MaxEvents
    /\ events' = events + 1
    /\ proc' = [proc EXCEPT ![p] = Down]
    /\ UNCHANGED <<database, form, history>>

Next ==
    \/ \E a \in Admins : Open(a) \/ SaveSettings(a) \/ SaveGateway(a) \/ SaveAndroid(a)
    \/ \E p \in Processes :
         \/ Boot(p) \/ Import(p) \/ ImportCollides(p) \/ ReadVersion(p) \/ QuerySettings(p)
         \/ QueryGateway(p) \/ Publish(p) \/ RefreshFails(p) \/ Restart(p)

-----------------------------------------------------------------------------
(* Properties *)

Rows == [exists : BOOLEAN, managed : BOOLEAN, enabled : BOOLEAN,
         secret : Values \cup Secrets \cup {NoValue}]
Documents == [Keys -> Values \cup {NoValue}]
Overlays == [settings : Documents, gateway : Rows, android : Rows]

TypeOK ==
    /\ settings \in Documents /\ asset \in Values \cup {NoValue}
    /\ gateway \in Rows /\ android \in Rows /\ version \in Nat
    /\ \A a \in Admins :
         /\ form[a].pc \in {"closed", "read"}
         /\ form[a].edit \in Edits \cup {Closed.edit}
         /\ form[a].read \in Documents /\ form[a].row \in Rows
    /\ proc \in [Processes ->
         [pc : {"down", "import", "version", "settings", "gateway", "android", "up"},
          booted : BOOLEAN, read : Documents, seen : Nat, next : Overlays, overlay : Overlays, known : Nat]]
    /\ strayed \subseteq {"settings", "logo", "secret"}

\* A process that knows the latest version has published what the database holds: a save
\* between the queries of a refresh is not missed ("Services call refresh_from_session on
\* startup and on a short poll", overlay.py:3).
Synced ==
    \A p \in Processes :
        LET o == proc[p].overlay IN
        proc[p].known = version =>
            /\ o.settings = settings /\ o.gateway = gateway
            /\ o.android = Usable(android, o.android)

\* Android never loses its secret to a row in the database: if the file or the row had a
\* good one at first, a process that is up has a good one unless the dashboard has
\* disabled Android ("A bad live update must not take authentication down",
\* overlay.py:247).
AndroidStaysUp ==
    \A p \in Processes :
        yaml.secret \in Good /\ proc[p].booted =>
            \/ AndroidSecret(p) \in Good
            \/ proc[p].overlay.android.managed /\ ~proc[p].overlay.android.enabled

\* What was saved or imported last for a key is stored, and the secret that was accepted
\* last, unless two requests overlapped; a process that boots imports nothing over it.
SavesKept ==
    /\ "settings" \notin strayed => settings = meant.settings
    /\ "secret" \notin strayed => android.secret = meant.secret

\* The picture is the one the logo's address was saved with, unless the address was
\* changed in another way.
LogoMatches ==
    strayed \cap {"settings", "logo"} = {} =>
        asset = IF settings[Logo] \in {"", NoValue} THEN NoValue ELSE settings[Logo]

\* What is saved stays saved and reaches the processes, and never takes Android down.
ConfigSound == Synced /\ AndroidStaysUp /\ SavesKept /\ LogoMatches

\* A secret that comes back masked keeps the stored one (payment_integrations.py:146).
GatewayKept ==
    [][gateway.secret # NoValue => gateway'.secret # NoValue]_configVars
=============================================================================
