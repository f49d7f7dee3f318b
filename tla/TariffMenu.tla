------------------------------ MODULE TariffMenu ------------------------------
(***************************************************************************)
(* The tariff constructor: the tree of groups and priced nodes that the    *)
(* dashboard edits, what each surface shows of it, and what a press on a   *)
(* node is allowed to buy.                                                 *)
(*                                                                         *)
(* Sources: services/dashboard/backend/routers/webapp_menu.py,             *)
(* common_db/repo/webapp_menu.py, payments/registry.py; the surfaces: bot  *)
(* (bot_constructor/handlers/payments.py), Mini App (routers/menu.py and   *)
(* menu_invoice.py), Android (android/payments_router.py) and web          *)
(* (web/web_router.py).                                                    *)
(*                                                                         *)
(* An edit reads the tree and validates, then commits: edits overlap.  A   *)
(* menu is read in one query; a press reads the node and its ancestors     *)
(* again.  Order and texts of the nodes are left out.                      *)
(***************************************************************************)
EXTENDS Naturals, FiniteSets

CONSTANTS
    Nodes, NoNode,
    Terms,          \* invoices: [provider, currency, method, complete, whole]
    Providers,      \* [provider -> [surfaces, currencies, methods]]
    AndroidProviders,
    Editors,        \* requests of the dashboard
    MaxEdits        \* bound: edits

VARIABLES
    node,       \* node[n]: webapp_menu_nodes
    edit,       \* edit[e]: what a validated request will commit
    edits,
    overlapped  \* history: two edits were under way at once

menuVars == <<node, edit, edits, overlapped>>

Surfaces == {"bot", "miniapp", "web", "android"}

\* Terms of a node that is no invoice: every invoice_ column is NULL.
Unpriced == [provider |-> "none", currency |-> "none", method |-> "none",
             complete |-> FALSE, whole |-> FALSE]

Absent == [exists |-> FALSE, parent |-> NoNode, action |-> "buttons", active |-> FALSE,
           terms |-> Unpriced]

Resting == [kind |-> "none", node |-> NoNode, set |-> [k \in {} |-> NoNode], row |-> Absent]

Row(p, action, active, t) ==
    [exists |-> TRUE, parent |-> p, action |-> action, active |-> active,
     terms |-> IF action = "invoice" THEN t ELSE Unpriced]

Exists(n) == node[n].exists
ChildrenOf(n) == {c \in Nodes : Exists(c) /\ node[c].parent = n}
Depth == Cardinality(Nodes)

-----------------------------------------------------------------------------
(* Terms *)

\* invoice_target: the node's columns make a price, a period and a delivery; Stars come
\* in whole numbers.
Target(row) ==
    /\ row.action = "invoice"
    /\ row.terms.complete
    /\ row.terms.provider = "stars" => row.terms.currency = "XTR" /\ row.terms.whole

\* get_provider and what _validate_node asks of it
Payable(t) ==
    /\ t.provider \in DOMAIN Providers
    /\ t.currency \in Providers[t.provider].currencies
    /\ t.method \in Providers[t.provider].methods

\* validate_provider_invoice
ValidOn(t, surface) == Payable(t) /\ surface \in Providers[t.provider].surfaces

\* _target_for_bot, _valid_miniapp_target, _node_payload
OfferedOn(surface, row) ==
    /\ Target(row)
    /\ surface = "android" => row.terms.provider \in AndroidProviders
    /\ ValidOn(row.terms, surface)

\* _validate_node: an invoice that is active must be complete and payable.
ValidRow(row) ==
    row.action = "invoice" /\ row.active => Target(row) /\ Payable(row.terms)

\* At first there is nothing, or two groups one in the other with one tariff in them.
Init ==
    /\ \/ node = [n \in Nodes |-> Absent]
       \/ \E a, b, c \in Nodes, t \in {t \in Terms : t.complete} :
            /\ Cardinality({a, b, c}) = 3
            /\ node = [n \in Nodes |-> CASE n = a -> Row(NoNode, "buttons", TRUE, t)
                                         [] n = b -> Row(a, "buttons", TRUE, t)
                                         [] n = c -> Row(b, "invoice", TRUE, t)
                                         [] OTHER -> Absent]
            /\ ValidRow(node[c])
    /\ edit = [e \in Editors |-> Resting]
    /\ edits = 0 /\ overlapped = FALSE

-----------------------------------------------------------------------------
(* What is shown *)

\* build_tree, _build_tree and _build of the web: a group stays only with something in
\* it, an invoice only with valid terms.  kept[d] is right for nodes of height d.
KeptIn(surface) ==
    LET kept[d \in 0..Depth] ==
          LET below == IF d = 0 THEN {} ELSE kept[d - 1] IN
          {n \in Nodes :
             /\ Exists(n) /\ node[n].active
             /\ IF node[n].action = "invoice" THEN OfferedOn(surface, node[n])
                ELSE ChildrenOf(n) \cap below # {}}
    IN kept[Depth]

\* They are built from the root.
TreeOf(surface) ==
    LET kept == KeptIn(surface)
        shown[d \in 0..Depth] ==
          LET tops == IF d = 0 THEN {NoNode} ELSE {NoNode} \cup shown[d - 1]
          IN {n \in kept : node[n].parent \in tops}
    IN shown[Depth]

\* get_active_node: the node and all above it are active, all above it are groups, and
\* there is a top.
ActiveChain(n) ==
    LET good[d \in 0..Depth] ==
          LET groups == IF d = 0 THEN {}
                        ELSE {m \in good[d - 1] : node[m].action = "buttons"}
          IN {m \in Nodes : /\ Exists(m) /\ node[m].active
                            /\ node[m].parent \in groups \cup {NoNode}}
    IN n \in good[Depth]

\* _render_level: the buttons under a group that can be opened.  A group in it is shown
\* for a child of either kind, whatever that child holds itself.
BotLevel(parent) ==
    {n \in ChildrenOf(parent) :
       /\ node[n].active
       /\ IF node[n].action = "invoice" THEN OfferedOn("bot", node[n])
          ELSE \E c \in ChildrenOf(n) :
                 node[c].active /\ (node[c].action = "buttons" \/ OfferedOn("bot", node[c]))}

\* What a customer of the bot comes to by pressing button after button.
BotMenu ==
    LET reached[d \in 0..Depth] ==
          LET pressed == IF d = 0 THEN {} ELSE reached[d - 1]
          IN BotLevel(NoNode) \cup
             UNION {BotLevel(n) : n \in {m \in pressed :
                                            ActiveChain(m) /\ node[m].action = "buttons"}}
    IN reached[Depth]

Menu(surface) == IF surface = "bot" THEN BotMenu ELSE TreeOf(surface)

\* The nodes whose press creates an invoice: create_payment_invoice of each surface.
Sold(surface) == {n \in Nodes : ActiveChain(n) /\ OfferedOn(surface, node[n])}

-----------------------------------------------------------------------------
(* Edits *)

Busy == {e \in Editors : edit[e] # Resting}

\* A request that has read and validated, and commits next.
Validated(e, r) ==
    /\ edit[e] = Resting /\ edits < MaxEdits
    /\ edit' = [edit EXCEPT ![e] = r]
    /\ edits' = edits + 1
    /\ overlapped' = (overlapped \/ Busy # {})
    /\ UNCHANGED node

\* The parents of n above p, as the rows are now.
Above(p) ==
    LET up[d \in 0..Depth] ==
          LET near == IF d = 0 THEN {p} \ {NoNode} ELSE up[d - 1]
          IN near \cup ({node[m].parent : m \in near} \ {NoNode})
    IN up[Depth]

\* A faulty variant of ValidParent, which a property refutes.
AnyParent(n, p) == p # NoNode => Exists(p) /\ node[p].action = "buttons"

\* _validate_parent
ValidParent(n, p) ==
    p # NoNode => /\ Exists(p) /\ node[p].action = "buttons"
                  /\ n \notin Above(p)

\* create_node
CreateNode(e, n, p, action, active, t) ==
    /\ ~Exists(n) /\ \A f \in Editors : edit[f].node # n
    /\ ValidParent(n, p) /\ ValidRow(Row(p, action, active, t))
    /\ Validated(e, [Resting EXCEPT !.kind = "create", !.node = n,
                                    !.row = Row(p, action, active, t)])

\* update_node: the columns of the body that differ from the row that was read.  A group
\* loses its invoice columns, a node with children cannot become an invoice.
UpdateNode(e, n, p, action, active, t) ==
    LET row == Row(p, action, active, t) IN
    /\ Exists(n) /\ row # node[n]
    /\ action = "invoice" => ChildrenOf(n) = {}
    /\ ValidParent(n, p) /\ ValidRow(row)
    /\ Validated(e, [Resting EXCEPT
            !.kind = "update", !.node = n, !.row = row,
            !.set = [k \in {f \in {"parent", "action", "active", "terms"} :
                              row[f] # node[n][f]} |-> n]])

\* reorder: several nodes get their parents at once.
Proposed(moves, n) == IF n \in DOMAIN moves THEN moves[n] ELSE node[n].parent

AcyclicWith(moves) ==
    \A n \in DOMAIN moves :
        LET up[d \in 0..Depth] ==
              LET near == IF d = 0 THEN {moves[n]} \ {NoNode} ELSE up[d - 1]
              IN near \cup ({Proposed(moves, m) : m \in near} \ {NoNode})
        IN n \notin up[Depth]

Reorder(e, moves) ==
    /\ \A n \in DOMAIN moves :
         /\ Exists(n)
         /\ moves[n] # NoNode => Exists(moves[n]) /\ node[moves[n]].action = "buttons"
    /\ AcyclicWith(moves)
    /\ Validated(e, [Resting EXCEPT !.kind = "reorder", !.set = moves])

\* delete_node: what is below goes with it.
DeleteNode(e, n) ==
    /\ Exists(n)
    /\ Validated(e, [Resting EXCEPT !.kind = "delete", !.node = n])

Done(e) ==
    /\ edit' = [edit EXCEPT ![e] = Resting]
    /\ UNCHANGED <<edits, overlapped>>

\* The foreign key of a parent that is gone refuses the row.
ParentStays(p) == p \in {NoNode} \cup {n \in Nodes : Exists(n)}

CommitCreate(e) ==
    /\ edit[e].kind = "create" /\ ParentStays(edit[e].row.parent)
    /\ node' = [node EXCEPT ![edit[e].node] = edit[e].row]
    /\ Done(e)

\* Only the columns that changed are written.
CommitUpdate(e) ==
    LET r == edit[e] IN
    /\ r.kind = "update" /\ Exists(r.node)
    /\ "parent" \in DOMAIN r.set => ParentStays(r.row.parent)
    /\ node' = [node EXCEPT ![r.node] =
                   [f \in DOMAIN @ |-> IF f \in DOMAIN r.set THEN r.row[f] ELSE @[f]]]
    /\ Done(e)

CommitReorder(e) ==
    LET moves == edit[e].set IN
    /\ edit[e].kind = "reorder"
    /\ \A n \in DOMAIN moves : Exists(n) /\ ParentStays(moves[n])
    /\ node' = [n \in Nodes |-> IF n \in DOMAIN moves
                                THEN [node[n] EXCEPT !.parent = moves[n]] ELSE node[n]]
    /\ Done(e)

CommitDelete(e) ==
    /\ edit[e].kind = "delete" /\ Exists(edit[e].node)
    /\ node' = [n \in Nodes |-> IF n = edit[e].node \/ edit[e].node \in Above(n)
                                THEN Absent ELSE node[n]]
    /\ Done(e)

\* A row that is gone, a foreign key, a lost connection.
EditFails(e) ==
    /\ edit[e] # Resting
    /\ Done(e)
    /\ UNCHANGED node

Next ==
    \/ \E e \in Editors, n \in Nodes :
         \/ DeleteNode(e, n)
         \/ \E p \in Nodes \cup {NoNode}, action \in {"buttons", "invoice"}, active \in BOOLEAN,
               t \in Terms :
              CreateNode(e, n, p, action, active, t) \/ UpdateNode(e, n, p, action, active, t)
         \/ \E m \in Nodes, p, q \in Nodes \cup {NoNode} :
              Reorder(e, [k \in {n, m} |-> IF k = n THEN p ELSE q])
    \/ \E e \in Editors :
         \/ CommitCreate(e) \/ CommitUpdate(e) \/ CommitReorder(e) \/ CommitDelete(e)
         \/ EditFails(e)

Spec == Init /\ [][Next]_menuVars

-----------------------------------------------------------------------------
(* Properties *)

TypeOK ==
    /\ \A n \in Nodes : /\ node[n].parent \in Nodes \cup {NoNode}
                        /\ node[n].action \in {"buttons", "invoice"}
                        /\ node[n].terms \in Terms \cup {Unpriced}
    /\ edits \in 0..MaxEdits

\* Nothing hangs on itself or on what is gone.
IsTree == \A n \in Nodes : Exists(n) => /\ n \notin Above(node[n].parent)
                                        /\ ParentStays(node[n].parent)

\* However edits overlap, nothing is sold that the menus of its surface hide.  Unless they
\* did, the nodes form a tree, an active invoice can be paid, and on every surface the
\* invoices a customer can come to are those a press on which is accepted.
MenuSells ==
    /\ \A s \in Surfaces : Sold(s) \subseteq Menu(s)
    /\ ~overlapped =>
         /\ IsTree
         /\ \A n \in Nodes : Exists(n) => ValidRow(node[n])
         /\ \A s \in Surfaces : {n \in Menu(s) : node[n].action = "invoice"} \subseteq Sold(s)
=============================================================================
