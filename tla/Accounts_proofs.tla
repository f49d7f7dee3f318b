---------------------------- MODULE Accounts_proofs ----------------------------
(***************************************************************************)
(* Theorems about a customer's accounts, as the run checks them, each with *)
(* the argument for it: that an account's rows and rw_id agree and an      *)
(* import takes what is its own, that a merge loses nothing, that tokens,  *)
(* codes and the sessions of the subscription page are each good once, and *)
(* that an address that counts as verified was read by whoever has the     *)
(* account, and that the bot's menu is the dashboard's and shows a person  *)
(* a profile of his own.  What is sold to customers is in Customers_proofs.*)
(***************************************************************************)
EXTENDS MCCustomers, TLAPS, FiniteSetTheorems

(***************************************************************************)
(* Subscription rows.  As long as transactions come one after another,     *)
(* the only one under way has read what is still there, and users.rw_id    *)
(* names a row of its account.  Whatever overlaps, a primary row has an    *)
(* account.                                                                *)
(***************************************************************************)

ChangeRecord ==
    [op : {"none", "attach", "primary", "detach", "initial", "finalize"},
     user : Accounts \cup {NoAccount}, profile : Profiles \cup {NoSubscription},
     known : BOOLEAN, wasPrimary : BOOLEAN, rows : SUBSET Profiles, asked : BOOLEAN]

LinksTyped ==
    /\ owner \in [Profiles -> Accounts \cup {NoAccount}]
    /\ mainRow \in [Profiles -> BOOLEAN]
    /\ mirror \in [Accounts -> Profiles \cup {NoSubscription}]
    /\ change \in [Requests -> ChangeRecord]
    /\ raced \in BOOLEAN

\* Who writes names an account and a profile, and changes a row that was there.
ChangeNamed(t) ==
    LET x == change[t] IN
    x.op # "none" =>
        /\ x.user \in Accounts /\ x.profile \in Profiles
        /\ x.op \in {"primary", "detach"} => x.known

\* A primary row has an account.
PrimaryOwned == \A p \in Profiles : mainRow[p] => owner[p] \in Accounts

\* What the only transaction has read is so.
ReadIsSo(t) ==
    LET x == change[t] IN
    /\ \A s \in Requests : s # t => change[s].op = "none"
    /\ x.known <=> owner[x.profile] = x.user
    /\ x.wasPrimary <=> x.known /\ mainRow[x.profile]
    /\ x.rows = Linked!Owned(x.user)
    /\ x.rows = {} => x.asked
    /\ x.op \in {"initial", "finalize"} => x.asked
    /\ x.op = "detach" => (mainRow[x.profile] => x.rows = {x.profile})

\* users.rw_id names a row of the account.
MirrorOwned == \A u \in Accounts : mirror[u] # NoSubscription => owner[mirror[u]] = u

OneAfterAnother ==
    ~raced =>
        /\ Linked!MirrorInStep /\ MirrorOwned
        /\ \A t \in Requests : change[t].op # "none" => ReadIsSo(t)

LinksInductive ==
    /\ LinksTyped /\ PrimaryOwned /\ Linked!OnePrimary /\ OneAfterAnother
    /\ \A t \in Requests : ChangeNamed(t)

\* No row, and no transaction.
LEMMA LinksBegin == LinkSizes /\ Linked!Init => LinksInductive
<1>. SUFFICES ASSUME LinkSizes, Linked!Init PROVE LinksInductive
  OBVIOUS
<1>1. Linked!Quiet \in ChangeRecord /\ Linked!Quiet.op = "none"
  BY DEF Linked!Quiet, ChangeRecord
<1>2. change = [t \in Requests |-> Linked!Quiet] /\ \A t \in Requests : change[t].op = "none"
  BY <1>1 DEF Linked!Init
<1>3. LinksTyped
  BY <1>1, <1>2 DEF Linked!Init, LinksTyped
<1>4. PrimaryOwned /\ Linked!OnePrimary
  BY DEF Linked!Init, PrimaryOwned, Linked!OnePrimary, Linked!Owned
<1>5. Linked!MirrorInStep /\ MirrorOwned
  BY DEF Linked!Init, LinkSizes, Linked!MirrorInStep, Linked!Owned, MirrorOwned
<1>. QED
  BY <1>2, <1>3, <1>4, <1>5 DEF LinksInductive, OneAfterAnother, ChangeNamed

\* A transaction reads its rows.
LEMMA LinkReadKeeps ==
    ASSUME LinksInductive, NEW t \in Requests,
           NEW op \in {"attach", "primary", "detach", "initial", "finalize"},
           NEW u \in Accounts, NEW p \in Profiles, NEW lead \in BOOLEAN,
           Linked!Read(t, op, u, p, lead),
           op \in {"primary", "detach"} => p \in Linked!Owned(u),
           op \in {"initial", "finalize"} => lead,
           op = "detach" => (mainRow[p] => Linked!Owned(u) = {p})
    PROVE  LinksInductive'
<1>0. LinksTyped
  BY DEF LinksInductive
<1>1. PICK n \in ChangeRecord :
        n = [op |-> op, user |-> u, profile |-> p, known |-> p \in Linked!Owned(u),
             wasPrimary |-> p \in Linked!Owned(u) /\ mainRow[p], rows |-> Linked!Owned(u),
             asked |-> lead \/ Linked!Owned(u) = {}]
  <2>1. /\ (p \in Linked!Owned(u)) \in BOOLEAN /\ (p \in Linked!Owned(u) /\ mainRow[p]) \in BOOLEAN
        /\ (lead \/ Linked!Owned(u) = {}) \in BOOLEAN
    OBVIOUS
  <2>2. Linked!Owned(u) \in SUBSET Profiles
    BY DEF Linked!Owned
  <2>. QED
    BY <2>1, <2>2 DEF ChangeRecord
<1>2. /\ n.op = op /\ n.user = u /\ n.profile = p /\ n.known = (p \in Linked!Owned(u))
      /\ n.wasPrimary = (p \in Linked!Owned(u) /\ mainRow[p]) /\ n.rows = Linked!Owned(u)
      /\ n.asked = (lead \/ Linked!Owned(u) = {})
  BY <1>1
<1>3. /\ change' = [change EXCEPT ![t] = n] /\ UNCHANGED <<owner, mainRow, mirror, pending>>
      /\ raced' \in BOOLEAN
      /\ ~raced' => ~raced /\ \A s \in Requests : s # t => change[s].op = "none"
  BY <1>1 DEF Linked!Read
<1>4. change'[t] = n /\ \A s \in Requests : s # t => change'[s] = change[s]
  BY <1>0, <1>3 DEF LinksTyped
<1>5. LinksTyped'
  BY <1>0, <1>3 DEF LinksTyped
<1>6. PrimaryOwned' /\ Linked!OnePrimary'
  BY <1>3 DEF LinksInductive, PrimaryOwned, Linked!OnePrimary, Linked!Owned
<1>7. ASSUME NEW s \in Requests PROVE ChangeNamed(s)'
  <2>1. CASE s = t
    BY <1>2, <1>4, <2>1 DEF ChangeNamed
  <2>2. CASE s # t
    BY <1>4, <2>2 DEF LinksInductive, ChangeNamed
  <2>. QED
    BY <2>1, <2>2
<1>8. ASSUME ~raced' PROVE Linked!MirrorInStep' /\ MirrorOwned'
  BY <1>3, <1>8 DEF LinksInductive, OneAfterAnother, Linked!MirrorInStep, Linked!Owned, MirrorOwned
<1>9. ASSUME ~raced', NEW s \in Requests, change'[s].op # "none" PROVE ReadIsSo(s)'
  <2>1. s = t /\ \A q \in Requests : q # t => change'[q].op = "none"
    BY <1>3, <1>4, <1>9
  <2>2. Linked!Owned(u)' = Linked!Owned(u) /\ mainRow' = mainRow /\ owner' = owner
    BY <1>3 DEF Linked!Owned
  <2>3. p \in Linked!Owned(u) <=> owner[p] = u
    BY DEF Linked!Owned
  <2>. QED
    BY <1>2, <1>4, <2>1, <2>2, <2>3 DEF ReadIsSo, Linked!Owned
<1>. QED
  BY <1>5, <1>6, <1>7, <1>8, <1>9 DEF LinksInductive, OneAfterAnother

\* A transaction ends: nobody else's reading is touched if it was the only one.
LEMMA LinkWriteKeeps ==
    ASSUME LinkSizes, LinksInductive, NEW t \in Requests, Linked!Ends(t), change[t].op # "none",
           raced' = raced,
           owner' \in [Profiles -> Accounts \cup {NoAccount}],
           mainRow' \in [Profiles -> BOOLEAN],
           mirror' \in [Accounts -> Profiles \cup {NoSubscription}],
           PrimaryOwned', Linked!OnePrimary',
           ~raced => Linked!MirrorInStep' /\ MirrorOwned'
    PROVE  LinksInductive'
<1>0. LinksTyped
  BY DEF LinksInductive
<1>1. Linked!Quiet \in ChangeRecord /\ Linked!Quiet.op = "none"
  BY DEF Linked!Quiet, ChangeRecord
<1>2. change' = [change EXCEPT ![t] = Linked!Quiet]
  BY DEF Linked!Ends
<1>3. change'[t].op = "none" /\ \A s \in Requests : s # t => change'[s] = change[s]
  BY <1>0, <1>1, <1>2 DEF LinksTyped
<1>4. LinksTyped'
  BY <1>0, <1>1, <1>2 DEF LinksTyped
<1>5. \A s \in Requests : ChangeNamed(s)'
  BY <1>3 DEF LinksInductive, ChangeNamed
<1>6. ~raced' => \A s \in Requests : change'[s].op = "none"
  BY <1>3 DEF LinksInductive, OneAfterAnother, ReadIsSo
<1>. QED
  BY <1>4, <1>5, <1>6 DEF LinksInductive, OneAfterAnother

\* Nothing is written.
LEMMA LinkFailsKeeps ==
    ASSUME LinkSizes, LinksInductive, NEW t \in Requests, Linked!WriteFails(t)
    PROVE  LinksInductive'
<1>1. /\ Linked!Ends(t) /\ change[t].op # "none"
      /\ UNCHANGED <<owner, mainRow, mirror, pending, raced, changes>>
  BY DEF Linked!WriteFails
<1>2. PrimaryOwned' /\ Linked!OnePrimary'
  BY <1>1 DEF LinksInductive, PrimaryOwned, Linked!OnePrimary, Linked!Owned
<1>3. ~raced => Linked!MirrorInStep' /\ MirrorOwned'
  BY <1>1 DEF LinksInductive, OneAfterAnother, Linked!MirrorInStep, Linked!Owned, MirrorOwned
<1>. QED
  BY <1>1, <1>2, <1>3, LinkWriteKeeps DEF LinksInductive, LinksTyped

\* A row is written, as the primary one or not.
LEMMA WriteAttachKeeps ==
    ASSUME LinkSizes, LinksInductive, NEW t \in Requests, Linked!WriteAttach(t)
    PROVE  LinksInductive'
<1>a. LinksTyped /\ change[t].op # "none"
  BY DEF LinksInductive, Linked!WriteAttach
<1>b. PICK x \in ChangeRecord : x = change[t]
  BY <1>a DEF LinksTyped
<1>c. PICK u \in Accounts, p \in Profiles : u = x.user /\ p = x.profile
  BY <1>a, <1>b DEF LinksInductive, ChangeNamed
<1>. DEFINE leads == x.asked \/ x.wasPrimary
<1>0. LinksTyped
  BY <1>a
<1>1. PICK cleared \in {x.rows, Linked!Owned(u)} :
        mainRow' = IF x.asked THEN [q \in Profiles |-> q = p \/ (mainRow[q] /\ q \notin cleared)]
                   ELSE mainRow
  BY <1>b, <1>c DEF Linked!WriteAttach, Linked!MakesPrimary
<1>2. /\ owner' = [owner EXCEPT ![p] = u] /\ owner[p] \in {u, NoAccount}
      /\ Linked!OnePrimaryEach(owner', mainRow')
      /\ mirror' = IF leads THEN [mirror EXCEPT ![u] = p] ELSE mirror
      /\ Linked!Ends(t) /\ raced' = raced
  BY <1>b, <1>c DEF Linked!WriteAttach, Linked!MakesPrimary, Linked!RowAsRead
<1>3. /\ x.asked \in BOOLEAN /\ x.rows \subseteq Profiles /\ x.known \in BOOLEAN
      /\ x.wasPrimary \in BOOLEAN
  BY <1>0 DEF ChangeRecord
<1>4. /\ owner' \in [Profiles -> Accounts \cup {NoAccount}] /\ mainRow' \in [Profiles -> BOOLEAN]
      /\ mirror' \in [Accounts -> Profiles \cup {NoSubscription}]
  BY <1>0, <1>1, <1>2, <1>3 DEF LinksTyped
<1>5. owner'[p] = u /\ \A q \in Profiles : q # p => owner'[q] = owner[q]
  BY <1>0, <1>2 DEF LinksTyped
<1>6. PrimaryOwned'
  BY <1>0, <1>1, <1>5 DEF LinksInductive, PrimaryOwned, LinksTyped
<1>7. Linked!OnePrimary'
  BY <1>2 DEF Linked!OnePrimary, Linked!OnePrimaryEach, Linked!Owned
<1>8. ASSUME ~raced PROVE Linked!MirrorInStep' /\ MirrorOwned'
  <2>1. Linked!MirrorInStep /\ MirrorOwned /\ ReadIsSo(t)
    BY <1>a, <1>8 DEF LinksInductive, OneAfterAnother
  <2>2. /\ x.known <=> owner[p] = u
        /\ x.wasPrimary <=> x.known /\ mainRow[p]
        /\ x.rows = Linked!Owned(u) /\ cleared = Linked!Owned(u)
        /\ Linked!Owned(u) = {} => x.asked
    BY <1>b, <1>c, <2>1 DEF ReadIsSo
  <2>3. \A v \in Accounts : v # u => Linked!Owned(v)' = Linked!Owned(v) /\ mirror'[v] = mirror[v]
    BY <1>0, <1>2, <1>5 DEF Linked!Owned, LinkSizes, LinksTyped
  <2>4. \A q \in Profiles : q \in Linked!Owned(u)' <=> q = p \/ q \in Linked!Owned(u)
    BY <1>0, <1>5 DEF Linked!Owned
  <2>5. \A v \in Accounts : /\ Linked!Owned(v) = {} <=> mirror[v] = NoSubscription
                            /\ \A q \in Linked!Owned(v) : mainRow[q] <=> mirror[v] = q
                            /\ mirror[v] # NoSubscription => mirror[v] \in Linked!Owned(v)
    BY <1>0, <1>8, <2>1 DEF Linked!MirrorInStep, MirrorOwned, Linked!Owned, LinksTyped
  <2>6. ASSUME NEW v \in Accounts, v # u
        PROVE  /\ Linked!Owned(v)' = {} <=> mirror'[v] = NoSubscription
               /\ \A q \in Linked!Owned(v)' : mainRow'[q] <=> mirror'[v] = q
               /\ mirror'[v] # NoSubscription => mirror'[v] \in Linked!Owned(v)'
    <3>1. \A q \in Linked!Owned(v) : q # p /\ mainRow'[q] = mainRow[q]
      <4>1. \A q \in Linked!Owned(v) : q # p /\ q \notin Linked!Owned(u) /\ q \in Profiles
        BY <1>0, <1>2, <2>6 DEF Linked!Owned, LinkSizes
      <4>. QED
        BY <1>0, <1>1, <2>2, <4>1 DEF LinksTyped
    <3>. QED
      BY <2>3, <2>5, <2>6, <3>1
  <2>7. p \in Linked!Owned(u)' /\ p # NoSubscription
    BY <1>0, <2>4 DEF LinkSizes
  <2>8. CASE x.asked
    <3>1. mirror'[u] = p
      BY <1>0, <1>2, <2>8 DEF LinksTyped
    <3>2. \A q \in Linked!Owned(u)' : mainRow'[q] <=> q = p
      <4>1. \A q \in Linked!Owned(u)' : q \in Profiles /\ (q = p \/ q \in Linked!Owned(u))
        BY <2>4 DEF Linked!Owned
      <4>. QED
        BY <1>1, <2>2, <2>8, <4>1
    <3>. QED
      BY <2>6, <2>7, <3>1, <3>2 DEF Linked!MirrorInStep, MirrorOwned, Linked!Owned
  <2>9. CASE ~x.asked
    <3>1. mainRow' = mainRow
      BY <1>1, <2>9
    <3>2. mirror'[u] = mirror[u] /\ (mainRow[p] <=> mirror[u] = p)
      <4>1. CASE x.known
        <5>1. p \in Linked!Owned(u)
          BY <1>0, <2>2, <4>1 DEF Linked!Owned
        <5>. QED
          BY <1>0, <1>2, <2>2, <2>5, <2>9, <4>1, <5>1 DEF LinksTyped
      <4>2. CASE ~x.known
        <5>1. ~mainRow[p] /\ p \notin Linked!Owned(u)
          BY <1>0, <1>2, <2>2, <4>2 DEF LinksInductive, PrimaryOwned, LinkSizes, Linked!Owned
        <5>2. mirror[u] # p
          BY <1>0, <2>5, <2>7, <5>1
        <5>3. mirror' = mirror
          BY <1>2, <2>2, <2>9, <4>2
        <5>. QED
          BY <5>1, <5>2, <5>3
      <4>. QED
        BY <1>3, <4>1, <4>2
    <3>3. /\ mirror'[u] # NoSubscription /\ mirror'[u] \in Linked!Owned(u)
      BY <1>0, <2>2, <2>5, <2>9, <3>2
    <3>4. \A q \in Linked!Owned(u)' : mainRow'[q] <=> mirror'[u] = q
      BY <1>0, <2>4, <2>5, <3>1, <3>2 DEF Linked!Owned
    <3>5. mirror'[u] \in Linked!Owned(u)'
      BY <2>4, <3>3 DEF Linked!Owned
    <3>. QED
      BY <2>6, <2>7, <3>3, <3>4, <3>5 DEF Linked!MirrorInStep, MirrorOwned, Linked!Owned
  <2>. QED
    BY <1>3, <2>8, <2>9
<1>. QED
  BY <1>a, <1>2, <1>4, <1>6, <1>7, <1>8, LinkWriteKeeps

\* Another row becomes the primary one.
LEMMA WriteSetPrimaryKeeps ==
    ASSUME LinkSizes, LinksInductive, NEW t \in Requests, Linked!WriteSetPrimary(t)
    PROVE  LinksInductive'
<1>0. LinksTyped /\ change[t].op = "primary"
  BY DEF LinksInductive, Linked!WriteSetPrimary
<1>1. PICK x \in ChangeRecord : x = change[t]
  BY <1>0 DEF LinksTyped
<1>2. PICK u \in Accounts, p \in Profiles : u = x.user /\ p = x.profile
  BY <1>0, <1>1 DEF LinksInductive, ChangeNamed
<1>3. x.known
  BY <1>0, <1>1 DEF LinksInductive, ChangeNamed
<1>4. /\ mainRow' = [q \in Profiles |-> IF owner[q] = u THEN q = p ELSE mainRow[q]]
      /\ mirror' = [mirror EXCEPT ![u] = p] /\ owner[p] = u /\ owner' = owner
      /\ Linked!Ends(t) /\ raced' = raced
  BY <1>1, <1>2, <1>3 DEF Linked!WriteSetPrimary, Linked!RowAsRead
<1>5. /\ mainRow' \in [Profiles -> BOOLEAN] /\ owner' \in [Profiles -> Accounts \cup {NoAccount}]
      /\ mirror' \in [Accounts -> Profiles \cup {NoSubscription}]
  BY <1>0, <1>4 DEF LinksTyped
<1>6. PrimaryOwned'
  BY <1>4 DEF LinksInductive, PrimaryOwned
<1>7. Linked!OnePrimary'
  BY <1>4 DEF LinksInductive, Linked!OnePrimary, Linked!Owned
<1>8. ASSUME ~raced PROVE Linked!MirrorInStep' /\ MirrorOwned'
  <2>1. mirror'[u] = p /\ p # NoSubscription /\ \A v \in Accounts : v # u => mirror'[v] = mirror[v]
    BY <1>0, <1>4 DEF LinksTyped, LinkSizes
  <2>2. Linked!MirrorInStep /\ MirrorOwned
    BY <1>8 DEF LinksInductive, OneAfterAnother
  <2>3. MirrorOwned'
    BY <1>4, <2>1, <2>2 DEF MirrorOwned
  <2>4. ASSUME NEW v \in Accounts
        PROVE  /\ {q \in Profiles : owner[q] = v} = {} <=> mirror'[v] = NoSubscription
               /\ \A q \in Profiles : owner[q] = v => (mainRow'[q] <=> mirror'[v] = q)
    <3>1. CASE v = u
      BY <1>4, <2>1, <3>1
    <3>2. CASE v # u
      BY <1>4, <1>8, <2>1, <2>2, <3>2 DEF Linked!MirrorInStep, Linked!Owned
    <3>. QED
      BY <3>1, <3>2
  <2>. QED
    BY <1>4, <2>3, <2>4 DEF Linked!MirrorInStep, Linked!Owned
<1>. QED
  BY <1>0, <1>4, <1>5, <1>6, <1>7, <1>8, LinkWriteKeeps

\* A row is deleted, and users.rw_id emptied with the last one.
LEMMA WriteDetachKeeps ==
    ASSUME LinkSizes, LinksInductive, NEW t \in Requests, Linked!WriteDetach(t)
    PROVE  LinksInductive'
<1>0. LinksTyped /\ change[t].op = "detach"
  BY DEF LinksInductive, Linked!WriteDetach
<1>1. PICK x \in ChangeRecord : x = change[t]
  BY <1>0 DEF LinksTyped
<1>2. PICK u \in Accounts, p \in Profiles : u = x.user /\ p = x.profile
  BY <1>0, <1>1 DEF LinksInductive, ChangeNamed
<1>3. x.known
  BY <1>0, <1>1 DEF LinksInductive, ChangeNamed
<1>4. /\ owner' = IF owner[p] = u THEN [owner EXCEPT ![p] = NoAccount] ELSE owner
      /\ mainRow' = IF owner[p] = u THEN [mainRow EXCEPT ![p] = FALSE] ELSE mainRow
      /\ mirror' = [mirror EXCEPT ![u] = IF x.rows = {p} THEN NoSubscription ELSE mirror[u]]
      /\ Linked!Ends(t) /\ raced' = raced
  BY <1>1, <1>2 DEF Linked!WriteDetach, Linked!MirrorAfterDetach
<1>5. /\ mainRow' \in [Profiles -> BOOLEAN] /\ owner' \in [Profiles -> Accounts \cup {NoAccount}]
      /\ mirror' \in [Accounts -> Profiles \cup {NoSubscription}]
  BY <1>0, <1>4 DEF LinksTyped
<1>6. \A q \in Profiles : q # p => owner'[q] = owner[q] /\ mainRow'[q] = mainRow[q]
  BY <1>0, <1>4 DEF LinksTyped
<1>7. owner[p] = u => owner'[p] = NoAccount /\ mainRow'[p] = FALSE
  BY <1>0, <1>4 DEF LinksTyped
<1>8. PrimaryOwned'
  BY <1>4, <1>6, <1>7 DEF LinksInductive, PrimaryOwned
<1>9. Linked!OnePrimary'
  BY <1>4, <1>6, <1>7 DEF LinksInductive, Linked!OnePrimary, Linked!Owned
<1>10. ASSUME ~raced PROVE Linked!MirrorInStep' /\ MirrorOwned'
  <2>1. ReadIsSo(t) /\ Linked!MirrorInStep /\ MirrorOwned
    BY <1>0, <1>10 DEF LinksInductive, OneAfterAnother
  <2>2. owner[p] = u /\ x.rows = {q \in Profiles : owner[q] = u} /\ (mainRow[p] => x.rows = {p})
    BY <1>0, <1>1, <1>2, <1>3, <2>1 DEF ReadIsSo, Linked!Owned
  <2>3. owner'[p] = NoAccount /\ NoAccount \notin Accounts
    BY <1>7, <2>2 DEF LinkSizes
  <2>4. \A v \in Accounts : v # u => mirror'[v] = mirror[v]
    BY <1>0, <1>4 DEF LinksTyped
  <2>5. mirror'[u] = IF x.rows = {p} THEN NoSubscription ELSE mirror[u]
    BY <1>0, <1>4 DEF LinksTyped
  <2>6. \A v \in Accounts :
          /\ (\A q \in Profiles : owner[q] # v) <=> mirror[v] = NoSubscription
          /\ \A q \in Profiles : owner[q] = v => (mainRow[q] <=> mirror[v] = q)
          /\ mirror[v] # NoSubscription => mirror[v] \in Profiles /\ owner[mirror[v]] = v
    BY <1>0, <1>10, <2>1 DEF Linked!MirrorInStep, MirrorOwned, Linked!Owned, LinksTyped
  <2>7. ASSUME NEW v \in Accounts
        PROVE  /\ (\A q \in Profiles : owner'[q] # v) <=> mirror'[v] = NoSubscription
               /\ \A q \in Profiles : owner'[q] = v => (mainRow'[q] <=> mirror'[v] = q)
               /\ mirror'[v] # NoSubscription => owner'[mirror'[v]] = v
    <3>1. CASE v # u
      <4>1. \A q \in Profiles : owner'[q] = v <=> owner[q] = v
        BY <1>6, <2>2, <2>3, <3>1
      <4>2. \A q \in Profiles : owner[q] = v => mainRow'[q] = mainRow[q]
        BY <1>6, <2>2, <3>1
      <4>. QED
        BY <2>4, <2>6, <3>1, <4>1, <4>2
    <3>2. CASE v = u /\ x.rows = {p}
      <4>1. \A q \in Profiles : owner'[q] # u
        BY <1>6, <2>2, <2>3, <3>2
      <4>. QED
        BY <2>5, <3>2, <4>1
    <3>3. CASE v = u /\ x.rows # {p}
      <4>1. mirror'[u] = mirror[u] /\ mirror[u] # NoSubscription /\ mirror[u] # p
        BY <2>2, <2>5, <2>6, <3>3
      <4>2. mirror[u] \in Profiles /\ owner'[mirror[u]] = u
        BY <1>6, <2>6, <4>1
      <4>3. \A q \in Profiles : owner'[q] = u => q # p /\ owner[q] = u
        BY <1>6, <2>3
      <4>. QED
        BY <1>6, <2>6, <3>3, <4>1, <4>2, <4>3
    <3>. QED
      BY <3>1, <3>2, <3>3
  <2>. QED
    BY <2>7 DEF Linked!MirrorInStep, MirrorOwned, Linked!Owned
<1>. QED
  BY <1>0, <1>4, <1>5, <1>8, <1>9, <1>10, LinkWriteKeeps

\* Every step of the rows keeps the invariant.
LEMMA LinksSteps == LinkSizes /\ LinksInductive /\ [Linked!Next]_linkVars => LinksInductive'
<1>. SUFFICES ASSUME LinkSizes, LinksInductive, [Linked!Next]_linkVars PROVE LinksInductive'
  OBVIOUS
<1>1. ASSUME NEW t \in Requests, NEW u \in Accounts, NEW p \in Profiles,
             \/ \E lead \in BOOLEAN : Linked!ReadAttach(t, u, p, lead)
             \/ Linked!ReadSetPrimary(t, u, p) \/ Linked!ReadDetach(t, u, p)
             \/ Linked!ReadInitial(t, u, p) \/ Linked!ReadFinalize(t, u, p)
      PROVE  LinksInductive'
  <2>1. ASSUME NEW lead \in BOOLEAN, Linked!ReadAttach(t, u, p, lead) PROVE LinksInductive'
    BY <2>1, LinkReadKeeps DEF Linked!ReadAttach
  <2>2. CASE Linked!ReadSetPrimary(t, u, p)
    BY <2>2, LinkReadKeeps DEF Linked!ReadSetPrimary
  <2>3. CASE Linked!ReadDetach(t, u, p)
    BY <2>3, LinkReadKeeps DEF Linked!ReadDetach
  <2>4. CASE Linked!ReadInitial(t, u, p)
    BY <2>4, LinkReadKeeps DEF Linked!ReadInitial
  <2>5. CASE Linked!ReadFinalize(t, u, p)
    BY <2>5, LinkReadKeeps DEF Linked!ReadFinalize
  <2>. QED
    BY <1>1, <2>1, <2>2, <2>3, <2>4, <2>5
<1>2. CASE UNCHANGED <<owner, mainRow, mirror, change, raced>>
  BY <1>2 DEF LinksInductive, LinksTyped, PrimaryOwned, Linked!OnePrimary, Linked!Owned,
     OneAfterAnother, Linked!MirrorInStep, MirrorOwned, ReadIsSo, ChangeNamed
<1>3. ASSUME NEW u \in Accounts, Linked!ClearPending(u) PROVE LinksInductive'
  BY <1>2, <1>3 DEF Linked!ClearPending
<1>. QED
  BY <1>1, <1>2, <1>3, WriteAttachKeeps, WriteSetPrimaryKeeps, WriteDetachKeeps, LinkFailsKeeps
  DEF Linked!Next, linkVars

-----------------------------------------------------------------------------
(***************************************************************************)
(* Imports.  What a request is about to attach was shown to belong to its  *)
(* account; and while an account that has not strayed has no row, its      *)
(* rw_id is what every import under way has loaded.                        *)
(***************************************************************************)

ImportRecord ==
    [at : {"none", "asked", "self", "found", "writes", "mailed"},
     user : Accounts \cup {NoAccount}, profile : Subscriptions \cup {NoSubscription},
     loaded : Subscriptions \cup {NoSubscription}, mail : {"m1", "m2", "none"},
     own : Subscriptions \cup {NoSubscription}]

RowOwners == [Subscriptions -> Accounts \cup {NoAccount}]

ImportTyped ==
    /\ rowOwner \in RowOwners
    /\ rowLead \in [Subscriptions -> BOOLEAN]
    /\ rowMirror \in [Accounts -> Subscriptions \cup {NoSubscription}]
    /\ mailOf \in [Accounts -> {"m1", "m2"}]
    /\ importing \in [Requests -> ImportRecord]
    /\ taken \in BOOLEAN
    /\ strayed \subseteq Accounts

Importing(r) == importing[r].at \in {"asked", "self", "found", "writes"}

Bare(u) == \A p \in Subscriptions : rowOwner[p] # u

ImportOK(r) ==
    LET x == importing[r] IN
    /\ x.at # "none" => x.user \in Accounts
    /\ Importing(r) => x.profile \in Subscriptions
    /\ x.at \in {"self", "found", "writes"} => <<x.user, x.profile>> \in entitled
    /\ x.at = "writes" /\ x.own # NoSubscription => <<x.user, x.own>> \in entitled
    /\ x.at = "self" => x.loaded = x.profile
    /\ Importing(r) /\ x.user \notin strayed /\ Bare(x.user) => rowMirror[x.user] = x.loaded

\* The primary rows of u, in rows own with flags pri.
LeadsIn(own, pri, u) == {p \in Subscriptions : own[p] = u /\ pri[p]}

Led(own, pri) == \A p \in Subscriptions : pri[p] => own[p] \in Accounts

ImportInductive ==
    /\ ImportTyped /\ Led(rowOwner, rowLead) /\ ~taken /\ Imports!Entitled
    /\ \A u \in Accounts \ strayed : Bare(u) \/ LeadsIn(rowOwner, rowLead, u) = {rowMirror[u]}
    /\ \A r \in Requests : ImportOK(r)

\* A request that is over.
LEMMA NoImportIs == Imports!Idle \in ImportRecord /\ Imports!Idle.at = "none"
BY DEF Imports!Idle, ImportRecord

\* No request, and rows as they may be.
LEMMA ImportsBegin == LinkSizes /\ Imports!Init => ImportInductive
<1>. SUFFICES ASSUME LinkSizes, Imports!Init PROVE ImportInductive
  OBVIOUS
<1>1. Imports!Idle \in ImportRecord /\ Imports!Idle.at = "none"
  BY DEF Imports!Idle, ImportRecord
<1>2. importing = [r \in Requests |-> Imports!Idle] /\ \A r \in Requests : importing[r].at = "none"
  BY <1>1 DEF Imports!Init
<1>3. ImportTyped
  BY <1>1, <1>2, ZenonT(30) DEF Imports!Init, ImportTyped, RowOwners
<1>4. Led(rowOwner, rowLead)
  BY DEF Imports!Init, Led
<1>5. Imports!Entitled
  BY DEF Imports!Init, Imports!Entitled
<1>6. ASSUME NEW u \in Accounts \ strayed, ~Bare(u)
      PROVE  LeadsIn(rowOwner, rowLead, u) = {rowMirror[u]}
  BY <1>6 DEF Imports!Init, Bare, LeadsIn, Imports!Owned, Imports!Leads
<1>. QED
  BY <1>2, <1>3, <1>4, <1>5, <1>6 DEF ImportInductive, ImportOK, Importing, Imports!Init

\* w has the rows own and pri with p attached to u: the first row of an account is its
\* primary one, and so is the one that is asked for.
AttachedRows(w, own, pri, u, p, lead) ==
    /\ w.owner \in RowOwners /\ w.primary \in [Subscriptions -> BOOLEAN]
    /\ w.owner[p] = u /\ \A q \in Subscriptions : q # p => w.owner[q] = own[q]
    /\ Led(w.owner, w.primary)
    /\ \A v \in Accounts : v # u => LeadsIn(w.owner, w.primary, v) = LeadsIn(own, pri, v)
    /\ lead \/ (\A q \in Subscriptions : own[q] # u) => LeadsIn(w.owner, w.primary, u) = {p}
    /\ ~lead /\ (\E q \in Subscriptions : own[q] = u) =>
         LeadsIn(w.owner, w.primary, u) = LeadsIn(own, pri, u)

\* That is what attach does (common_db/repo/subscriptions.py).
LEMMA AttachedIs ==
    ASSUME LinkSizes, NEW own \in RowOwners, NEW pri \in [Subscriptions -> BOOLEAN],
           Led(own, pri), NEW u \in Accounts, NEW p \in Subscriptions, NEW lead \in BOOLEAN,
           own[p] \in {u, NoAccount}
    PROVE  AttachedRows(Imports!Attached(own, pri, u, p, lead), own, pri, u, p, lead)
<1>0. PICK w : w = Imports!Attached(own, pri, u, p, lead)
  OBVIOUS
<1>1. PICK now \in BOOLEAN : now <=> lead \/ \A q \in Subscriptions : own[q] # u
  OBVIOUS
<1>2. /\ w.owner = [own EXCEPT ![p] = u]
      /\ w.primary = [q \in Subscriptions |-> IF q = p THEN now \/ pri[q]
                                              ELSE pri[q] /\ ~(now /\ own[q] = u)]
  BY <1>0, <1>1 DEF Imports!Attached
<1>3. /\ w.owner \in RowOwners /\ w.owner[p] = u
      /\ \A q \in Subscriptions : q # p => w.owner[q] = own[q]
  BY <1>2 DEF RowOwners
<1>4. w.primary \in [Subscriptions -> BOOLEAN]
  BY <1>2
<1>5. Led(w.owner, w.primary)
  BY <1>2, <1>3 DEF Led
<1>6. ASSUME NEW v \in Accounts, v # u
      PROVE  LeadsIn(w.owner, w.primary, v) = LeadsIn(own, pri, v)
  BY <1>2, <1>3, <1>6 DEF LeadsIn, LinkSizes
<1>7. ASSUME now PROVE LeadsIn(w.owner, w.primary, u) = {p}
  BY <1>2, <1>3, <1>7 DEF LeadsIn
<1>8. ASSUME ~now PROVE LeadsIn(w.owner, w.primary, u) = LeadsIn(own, pri, u)
  <2>1. \A q \in Subscriptions : w.primary[q] <=> pri[q]
    BY <1>2, <1>8
  <2>2. pri[p] => own[p] = u
    BY DEF Led, LinkSizes
  <2>. QED
    BY <1>3, <2>1, <2>2 DEF LeadsIn
<1>. QED
  BY <1>0, <1>1, <1>3, <1>4, <1>5, <1>6, <1>7, <1>8 DEF AttachedRows

\* A request goes on, and the rows stay as they are.
LEMMA RequestKeeps ==
    ASSUME ImportInductive, NEW r \in Requests, NEW n \in ImportRecord,
           importing' = [importing EXCEPT ![r] = n],
           UNCHANGED <<rowOwner, rowLead, rowMirror, taken, strayed>>,
           mailOf' \in [Accounts -> {"m1", "m2"}], entitled \subseteq entitled',
           n.at # "none" => n.user \in Accounts,
           n.at \in {"asked", "self", "found", "writes"} =>
             /\ n.profile \in Subscriptions
             /\ n.user \notin strayed /\ Bare(n.user) => rowMirror[n.user] = n.loaded,
           n.at \in {"self", "found", "writes"} => <<n.user, n.profile>> \in entitled',
           n.at = "writes" /\ n.own # NoSubscription => <<n.user, n.own>> \in entitled',
           n.at = "self" => n.loaded = n.profile
    PROVE  ImportInductive'
<1>0. ImportTyped
  BY DEF ImportInductive
<1>1. importing'[r] = n /\ \A s \in Requests : s # r => importing'[s] = importing[s]
  BY <1>0 DEF ImportTyped
<1>2. ImportTyped'
  BY <1>0 DEF ImportTyped, RowOwners
<1>3. /\ Led(rowOwner, rowLead)' /\ Imports!Entitled'
      /\ \A u \in Accounts \ strayed' :
           Bare(u)' \/ LeadsIn(rowOwner', rowLead', u) = {rowMirror'[u]}
  BY DEF ImportInductive, Led, Imports!Entitled, Bare
<1>4. ASSUME NEW s \in Requests PROVE ImportOK(s)'
  <2>1. CASE s = r
    BY <1>1, <2>1 DEF ImportOK, Importing, Bare
  <2>2. CASE s # r
    BY <1>1, <2>2 DEF ImportInductive, ImportOK, Importing, Bare
  <2>. QED
    BY <2>1, <2>2
<1>. QED
  BY <1>2, <1>3, <1>4 DEF ImportInductive, LeadsIn

\* Rows of u are made or changed, from nobody's.
LEMMA RowsAttached ==
    ASSUME LinkSizes, ImportInductive, NEW u \in Accounts, NEW M \in SUBSET Subscriptions, M # {},
           rowOwner' \in RowOwners, rowLead' \in [Subscriptions -> BOOLEAN],
           rowMirror' \in [Accounts -> Subscriptions \cup {NoSubscription}],
           \A q \in M : /\ rowOwner[q] \in {u, NoAccount} /\ rowOwner'[q] = u
                        /\ <<u, q>> \in entitled',
           \A q \in Subscriptions \ M : rowOwner'[q] = rowOwner[q],
           entitled \subseteq entitled', strayed \subseteq strayed', strayed' \subseteq Accounts,
           Led(rowOwner', rowLead'), Imports!HandsChanged, UNCHANGED mailOf,
           \A v \in Accounts : v # u =>
             /\ LeadsIn(rowOwner', rowLead', v) = LeadsIn(rowOwner, rowLead, v)
             /\ rowMirror'[v] = rowMirror[v],
           u \notin strayed' => LeadsIn(rowOwner', rowLead', u) = {rowMirror'[u]},
           \/ importing' = importing
           \/ \E r \in Requests : importing' = [importing EXCEPT ![r] = Imports!Idle]
    PROVE  ImportInductive'
<1>0. ImportTyped
  BY DEF ImportInductive
<1>1. /\ importing' \in [Requests -> ImportRecord]
      /\ \A s \in Requests : importing'[s] = importing[s] \/ importing'[s].at = "none"
  BY <1>0, NoImportIs DEF ImportTyped
<1>2. taken' = FALSE
  BY <1>0 DEF ImportInductive, Imports!HandsChanged, ImportTyped
<1>3. ImportTyped'
  BY <1>0, <1>1, <1>2 DEF ImportTyped, RowOwners
<1>4. Imports!Entitled'
  BY DEF ImportInductive, Imports!Entitled
<1>5. \A v \in Accounts : v # u => (Bare(v)' <=> Bare(v))
  <2>1. ASSUME NEW v \in Accounts, v # u, NEW q \in Subscriptions
        PROVE  rowOwner'[q] = v <=> rowOwner[q] = v
    <3>1. CASE q \in M
      BY <2>1, <3>1 DEF LinkSizes
    <3>2. CASE q \notin M
      BY <2>1, <3>2
    <3>. QED
      BY <3>1, <3>2
  <2>. QED
    BY <2>1 DEF Bare
<1>6. ~Bare(u)'
  BY DEF Bare
<1>7. \A v \in Accounts \ strayed' : Bare(v)' \/ LeadsIn(rowOwner', rowLead', v) = {rowMirror'[v]}
  BY <1>5, <1>6 DEF ImportInductive
<1>8. ASSUME NEW s \in Requests PROVE ImportOK(s)'
  <2>1. CASE importing'[s].at = "none"
    BY <2>1 DEF ImportOK, Importing
  <2>2. CASE importing'[s].at # "none"
    <3>1. importing'[s] = importing[s] /\ ImportOK(s)
      BY <1>1, <2>2 DEF ImportInductive
    <3>2. PICK x \in ImportRecord : x = importing[s]
      BY <1>0 DEF ImportTyped
    <3>3. x.user \in Accounts
      BY <2>2, <3>1, <3>2 DEF ImportOK
    <3>4. ASSUME x.user \notin strayed', \A p \in Subscriptions : rowOwner'[p] # x.user,
                 x.at \in {"asked", "self", "found", "writes"}
          PROVE  rowMirror'[x.user] = x.loaded
      <4>1. x.user # u /\ x.user \notin strayed
        BY <1>6, <3>4 DEF Bare
      <4>2. Bare(x.user)
        BY <1>5, <3>3, <3>4, <4>1 DEF Bare
      <4>. QED
        BY <3>1, <3>2, <3>3, <3>4, <4>1, <4>2 DEF ImportOK, Importing
    <3>. QED
      BY <3>1, <3>2, <3>4 DEF ImportOK, Importing, Bare
  <2>. QED
    BY <2>1, <2>2
<1>. QED
  BY <1>2, <1>3, <1>4, <1>7, <1>8 DEF ImportInductive, Led, LeadsIn

\* A link is pasted, the panel is asked, and refuses.
LEMMA AsksKeeps ==
    ASSUME LinkSizes, ImportInductive, NEW r \in Requests,
           \/ \E u \in Accounts, p \in Subscriptions : Imports!ImportBegins(r, u, p)
           \/ \E u \in Accounts, m \in {"m1", "m2"} : Imports!UpdateEmail(r, u, m)
           \/ Imports!LinkRefused(r) \/ Imports!ImportFails(r)
    PROVE  ImportInductive'
<1>0. ImportTyped
  BY DEF ImportInductive
<1>1. ASSUME NEW u \in Accounts, NEW p \in Subscriptions, Imports!ImportBegins(r, u, p)
      PROVE  ImportInductive'
  <2>1. PICK n \in ImportRecord :
          n = [Imports!Idle EXCEPT !.at = "asked", !.user = u, !.profile = p,
                                   !.loaded = rowMirror[u], !.mail = mailOf[u]]
    BY <1>0, NoImportIs DEF ImportRecord, ImportTyped
  <2>2. /\ n.at = "asked" /\ n.user = u /\ n.profile = p /\ n.loaded = rowMirror[u]
    BY <2>1, NoImportIs DEF ImportRecord
  <2>3. /\ importing' = [importing EXCEPT ![r] = n]
        /\ UNCHANGED <<rowOwner, rowLead, rowMirror, mailOf, panelMailbox, entitled, taken, strayed>>
    BY <1>1, <2>1 DEF Imports!ImportBegins, Imports!rows
  <2>. QED
    BY <1>0, <2>2, <2>3, RequestKeeps DEF ImportTyped
<1>2. ASSUME NEW u \in Accounts, NEW m \in {"m1", "m2"}, Imports!UpdateEmail(r, u, m)
      PROVE  ImportInductive'
  <2>1. PICK n \in ImportRecord :
          n = [Imports!Idle EXCEPT !.at = "mailed", !.user = u, !.mail = m]
    BY NoImportIs DEF ImportRecord
  <2>2. n.at = "mailed" /\ n.user = u
    BY <2>1, NoImportIs DEF ImportRecord
  <2>3. /\ importing' = [importing EXCEPT ![r] = n] /\ mailOf' = [mailOf EXCEPT ![u] = m]
        /\ UNCHANGED <<rowOwner, rowLead, rowMirror, panelMailbox, entitled, taken, strayed>>
    BY <1>2, <2>1 DEF Imports!UpdateEmail, Imports!rows
  <2>. QED
    BY <1>0, <2>2, <2>3, RequestKeeps DEF ImportTyped
<1>3. ASSUME Imports!LinkRefused(r) \/ Imports!ImportFails(r) PROVE ImportInductive'
  <2>1. /\ importing' = [importing EXCEPT ![r] = Imports!Idle]
        /\ UNCHANGED <<rowOwner, rowLead, rowMirror, mailOf, panelMailbox, entitled, taken, strayed>>
    BY <1>3 DEF Imports!LinkRefused, Imports!ImportFails, Imports!Ends, Imports!rows
  <2>. QED
    BY <1>0, <2>1, NoImportIs, RequestKeeps DEF ImportTyped
<1>. QED
  BY <1>1, <1>2, <1>3

\* The panel confirms the link's mailbox.
LEMMA LinkAnsweredKeeps ==
    ASSUME ImportInductive, NEW r \in Requests, NEW claimed \in {"m1", "m2"},
           Imports!LinkAnswered(r, claimed)
    PROVE  ImportInductive'
<1>0. ImportTyped /\ ImportOK(r) /\ Importing(r) /\ importing[r].at = "asked"
  BY DEF ImportInductive, Importing, Imports!LinkAnswered
<1>1. PICK x \in ImportRecord : x = importing[r]
  BY <1>0 DEF ImportTyped
<1>2. PICK next \in {"self", "found"} : next = IF x.loaded = x.profile THEN "self" ELSE "found"
  OBVIOUS
<1>3. PICK n \in ImportRecord : n = [x EXCEPT !.at = next]
  BY DEF ImportRecord
<1>4. /\ n.at = next /\ n.user = x.user /\ n.profile = x.profile /\ n.loaded = x.loaded
  BY <1>3 DEF ImportRecord
<1>5. importing' = [importing EXCEPT ![r] = n]
  BY <1>0, <1>1, <1>2, <1>3 DEF Imports!LinkAnswered, ImportTyped
<1>6. /\ UNCHANGED <<rowOwner, rowLead, rowMirror, mailOf, panelMailbox, taken, strayed>>
      /\ entitled' = entitled \cup {<<x.user, x.profile>>}
  BY <1>1 DEF Imports!LinkAnswered, Imports!ClaimConfirmed, Imports!rows
<1>7. /\ x.user \in Accounts /\ x.profile \in Subscriptions
      /\ x.user \notin strayed /\ Bare(x.user) => rowMirror[x.user] = x.loaded
  BY <1>0, <1>1 DEF ImportOK
<1>8. n.at = "self" => n.loaded = n.profile
  BY <1>2, <1>4
<1>. QED
  BY <1>0, <1>2, <1>4, <1>5, <1>6, <1>7, <1>8, RequestKeeps DEF ImportTyped

\* The panel names the account's own profile.
LEMMA OwnAnsweredKeeps ==
    ASSUME LinkSizes, ImportInductive, NEW r \in Requests, Imports!OwnAnswered(r)
    PROVE  ImportInductive'
<1>0. ImportTyped /\ ImportOK(r) /\ Importing(r) /\ importing[r].at = "found"
  BY DEF ImportInductive, Importing, Imports!OwnAnswered
<1>1. PICK x \in ImportRecord : x = importing[r]
  BY <1>0 DEF ImportTyped
<1>2. PICK p \in Imports!OwnProfiles(x) :
        /\ importing' = [importing EXCEPT ![r].at = "writes", ![r].own = p]
        /\ entitled' = IF p # NoSubscription /\ (panelMailbox[p] = x.mail \/ p = x.loaded)
                       THEN entitled \cup {<<x.user, p>>} ELSE entitled
  BY <1>1 DEF Imports!OwnAnswered
<1>3. /\ p \in Subscriptions \cup {NoSubscription}
      /\ p # NoSubscription => panelMailbox[p] = x.mail \/ p = x.loaded
  BY <1>2 DEF Imports!OwnProfiles, ImportRecord
<1>4. PICK n \in ImportRecord : n = [x EXCEPT !.at = "writes", !.own = p]
  BY <1>3 DEF ImportRecord
<1>5. /\ n.at = "writes" /\ n.user = x.user /\ n.profile = x.profile /\ n.loaded = x.loaded
      /\ n.own = p
  BY <1>4 DEF ImportRecord
<1>6. importing' = [importing EXCEPT ![r] = n]
  BY <1>0, <1>1, <1>2, <1>4 DEF ImportTyped
<1>7. UNCHANGED <<rowOwner, rowLead, rowMirror, mailOf, panelMailbox, taken, strayed>>
  BY DEF Imports!OwnAnswered, Imports!rows
<1>8. entitled \subseteq entitled' /\ (p # NoSubscription => <<x.user, p>> \in entitled')
  BY <1>2, <1>3
<1>9. /\ x.user \in Accounts /\ x.profile \in Subscriptions /\ <<x.user, x.profile>> \in entitled
      /\ x.user \notin strayed /\ Bare(x.user) => rowMirror[x.user] = x.loaded
  BY <1>0, <1>1 DEF ImportOK
<1>. QED
  BY <1>0, <1>5, <1>6, <1>7, <1>8, <1>9, RequestKeeps DEF ImportTyped

\* An own profile is attached, if its row was missing.
LEMMA SelfWritesKeeps ==
    ASSUME LinkSizes, ImportInductive, NEW r \in Requests, Imports!SelfWrites(r)
    PROVE  ImportInductive'
<1>0. ImportTyped /\ ImportOK(r) /\ Importing(r) /\ importing[r].at = "self"
  BY DEF ImportInductive, Importing, Imports!SelfWrites
<1>1. PICK x \in ImportRecord : x = importing[r]
  BY <1>0 DEF ImportTyped
<1>2. PICK u \in Accounts, p \in Subscriptions : u = x.user /\ p = x.profile
  BY <1>0, <1>1 DEF ImportOK
<1>3. PICK w : w = Imports!Attached(rowOwner, rowLead, u, p, FALSE)
  OBVIOUS
<1>4. /\ rowOwner[p] \in {u, NoAccount} /\ rowOwner' = w.owner /\ rowLead' = w.primary
      /\ rowMirror' = rowMirror /\ Imports!HandsChanged
      /\ importing' = [importing EXCEPT ![r] = Imports!Idle]
      /\ UNCHANGED <<mailOf, panelMailbox, entitled, strayed>>
  BY <1>1, <1>2, <1>3 DEF Imports!SelfWrites, Imports!Attachable, Imports!Ends
<1>5. /\ <<u, p>> \in entitled
      /\ u \notin strayed /\ Bare(u) => rowMirror[u] = p
  BY <1>0, <1>1, <1>2 DEF ImportOK
<1>6. AttachedRows(w, rowOwner, rowLead, u, p, FALSE)
  BY <1>3, <1>4, AttachedIs DEF ImportInductive, ImportTyped
<1>7. u \notin strayed => LeadsIn(rowOwner', rowLead', u) = {rowMirror'[u]}
  BY <1>4, <1>5, <1>6 DEF Bare, ImportInductive, AttachedRows
<1>8. PICK M \in SUBSET Subscriptions : M = {p}
  OBVIOUS
<1>9. /\ \A q \in M : /\ rowOwner[q] \in {u, NoAccount} /\ rowOwner'[q] = u
                     /\ <<u, q>> \in entitled'
      /\ \A q \in Subscriptions \ M : rowOwner'[q] = rowOwner[q]
  BY <1>4, <1>5, <1>6, <1>8 DEF AttachedRows
<1>10. /\ strayed' \subseteq Accounts
       /\ rowMirror' \in [Accounts -> Subscriptions \cup {NoSubscription}]
  BY <1>0, <1>4 DEF ImportTyped
<1>. QED
  BY <1>4, <1>6, <1>7, <1>8, <1>9, <1>10, RowsAttached DEF AttachedRows

\* The import is committed: with its rows the account has a primary one, and rw_id names it
\* unless it did already.
LEMMA ImportWritesKeeps ==
    ASSUME LinkSizes, ImportInductive, NEW r \in Requests, Imports!ImportWrites(r)
    PROVE  ImportInductive'
<1>0. ImportTyped /\ ImportOK(r) /\ Importing(r) /\ importing[r].at = "writes"
  BY DEF ImportInductive, Importing, Imports!ImportWrites
<1>1. PICK x \in ImportRecord : x = importing[r]
  BY <1>0 DEF ImportTyped
<1>2. PICK u \in Accounts, p \in Subscriptions, o \in Subscriptions \cup {NoSubscription} :
        u = x.user /\ p = x.profile /\ o = x.own
  BY <1>0, <1>1 DEF ImportOK, ImportRecord
<1>3. PICK v : /\ v = Imports!OwnAttached(x)
               /\ v = IF o = NoSubscription THEN [owner |-> rowOwner, primary |-> rowLead]
                      ELSE Imports!Attached(rowOwner, rowLead, u, o, FALSE)
  BY <1>2 DEF Imports!OwnAttached
<1>4. PICK w : /\ w = Imports!BothAttached(x)
               /\ w = Imports!Attached(v.owner, v.primary, u, p, FALSE)
  BY <1>2, <1>3 DEF Imports!BothAttached
<1>5. /\ rowOwner' = w.owner /\ rowLead' = w.primary /\ Imports!HandsChanged
      /\ importing' = [importing EXCEPT ![r] = Imports!Idle]
      /\ UNCHANGED <<mailOf, panelMailbox, entitled, strayed>>
  BY <1>1, <1>4 DEF Imports!ImportWrites, Imports!Ends
<1>6. rowOwner[p] \in {u, NoAccount} /\ (o # NoSubscription => rowOwner[o] \in {u, NoAccount})
  BY <1>1, <1>2 DEF Imports!ImportWrites, Imports!Attachable, LinkSizes
<1>7. PICK final \in Subscriptions \cup {NoSubscription} :
        /\ LeadsIn(w.owner, w.primary, u) # {} => final \in LeadsIn(w.owner, w.primary, u)
        /\ \/ rowMirror' = rowMirror /\ final = x.loaded
           \/ rowMirror' = [rowMirror EXCEPT ![u] = final]
  <2>1. PICK final \in Imports!Finals(x) :
          \/ rowMirror' = rowMirror /\ Imports!Passed(x) \cup {final} = {x.loaded}
          \/ rowMirror' = [rowMirror EXCEPT ![u] = final]
    BY <1>1, <1>2 DEF Imports!ImportWrites
  <2>2. Imports!LeadsOf(w, u) = LeadsIn(w.owner, w.primary, u)
    BY DEF Imports!LeadsOf, LeadsIn
  <2>3. /\ LeadsIn(w.owner, w.primary, u) # {} => final \in LeadsIn(w.owner, w.primary, u)
        /\ final \in Subscriptions \cup {NoSubscription}
    <3>a. Imports!LeadsOf(Imports!BothAttached(x), x.user) = LeadsIn(w.owner, w.primary, u)
      BY <1>2, <1>4, <2>2
    <3>b. LeadsIn(w.owner, w.primary, u) \subseteq Subscriptions
      BY DEF LeadsIn
    <3>1. CASE LeadsIn(w.owner, w.primary, u) # {}
      <4>1. Imports!Finals(x) = LeadsIn(w.owner, w.primary, u)
        BY <3>a, <3>1 DEF Imports!Finals
      <4>. QED
        BY <2>1, <3>b, <4>1
    <3>2. CASE LeadsIn(w.owner, w.primary, u) = {}
      <4>0. Imports!Finals(x) = {Imports!Chosen(x.own, x.profile, a, b) : a, b \in {"pro", "free"}}
        BY <3>a, <3>2 DEF Imports!Finals
      <4>1. PICK a, b \in {"pro", "free"} : final = Imports!Chosen(o, p, a, b)
        BY <1>2, <2>1, <4>0
      <4>. QED
        BY <3>2, <4>1 DEF Imports!Chosen
    <3>. QED
      BY <3>1, <3>2
  <2>4. Imports!Passed(x) \cup {final} = {x.loaded} => final = x.loaded
    OBVIOUS
  <2>. QED
    BY <2>1, <2>3, <2>4
<1>8. /\ <<u, p>> \in entitled /\ (o # NoSubscription => <<u, o>> \in entitled)
      /\ u \notin strayed /\ Bare(u) => rowMirror[u] = x.loaded
  BY <1>0, <1>1, <1>2 DEF ImportOK
<1>9. /\ v.owner \in RowOwners /\ v.primary \in [Subscriptions -> BOOLEAN]
      /\ Led(v.owner, v.primary)
      /\ \A q \in Subscriptions : v.owner[q] = IF q = o THEN u ELSE rowOwner[q]
      /\ \A a \in Accounts : a # u => LeadsIn(v.owner, v.primary, a) = LeadsIn(rowOwner, rowLead, a)
      /\ Bare(u) => o = NoSubscription \/ LeadsIn(v.owner, v.primary, u) = {o}
      /\ ~Bare(u) => LeadsIn(v.owner, v.primary, u) = LeadsIn(rowOwner, rowLead, u)
  <2>1. CASE o = NoSubscription
    <3>1. v.owner = rowOwner /\ v.primary = rowLead
      BY <1>3, <2>1
    <3>. QED
      BY <2>1, <3>1 DEF ImportInductive, ImportTyped, LinkSizes
  <2>2. CASE o # NoSubscription
    <3>0. /\ o \in Subscriptions /\ rowOwner[o] \in {u, NoAccount}
          /\ v = Imports!Attached(rowOwner, rowLead, u, o, FALSE)
      BY <1>2, <1>3, <1>6, <2>2
    <3>a. /\ rowOwner \in RowOwners /\ rowLead \in [Subscriptions -> BOOLEAN]
          /\ Led(rowOwner, rowLead)
      BY DEF ImportInductive, ImportTyped
    <3>1. AttachedRows(v, rowOwner, rowLead, u, o, FALSE)
      BY ZenonT(30), <3>0, <3>a, AttachedIs
    <3>. QED
      BY <1>2, <2>2, <3>1 DEF AttachedRows, Bare
  <2>. QED
    BY <2>1, <2>2
<1>10. AttachedRows(w, v.owner, v.primary, u, p, FALSE)
  <2>1. v.owner[p] \in {u, NoAccount}
    BY <1>6, <1>9
  <2>. QED
    BY <1>4, <1>9, <2>1, AttachedIs
<1>11. PICK M \in SUBSET Subscriptions : M = {p, o} \ {NoSubscription}
  OBVIOUS
<1>12. /\ p \in M /\ \A q \in M : q = p \/ (q = o /\ o # NoSubscription)
       /\ \A q \in Subscriptions \ M : q # p /\ q # o
  BY <1>11 DEF LinkSizes
<1>13. /\ \A q \in M : /\ rowOwner[q] \in {u, NoAccount} /\ rowOwner'[q] = u
                      /\ <<u, q>> \in entitled'
       /\ \A q \in Subscriptions \ M : rowOwner'[q] = rowOwner[q]
  BY <1>5, <1>6, <1>8, <1>9, <1>10, <1>12 DEF AttachedRows
<1>14. /\ strayed' \subseteq Accounts
       /\ rowMirror' \in [Accounts -> Subscriptions \cup {NoSubscription}]
       /\ \A a \in Accounts : a # u => rowMirror'[a] = rowMirror[a]
  BY <1>0, <1>5, <1>7 DEF ImportTyped
<1>15. \A a \in Accounts : a # u =>
         LeadsIn(rowOwner', rowLead', a) = LeadsIn(rowOwner, rowLead, a)
  BY <1>5, <1>9, <1>10 DEF AttachedRows
<1>16. ASSUME u \notin strayed PROVE LeadsIn(rowOwner', rowLead', u) = {rowMirror'[u]}
  <2>0. \/ rowMirror'[u] = rowMirror[u] /\ final = x.loaded
        \/ rowMirror'[u] = final
    BY <1>0, <1>7 DEF ImportTyped
  <2>1. CASE Bare(u)
    <3>1. \E f : LeadsIn(w.owner, w.primary, u) = {f}
      <4>1. CASE o = NoSubscription
        <5>1. \A q \in Subscriptions : v.owner[q] # u
          BY <1>9, <2>1, <4>1 DEF Bare, LinkSizes
        <5>. QED
          BY <1>10, <5>1 DEF AttachedRows
      <4>2. CASE o # NoSubscription
        <5>1. v.owner[o] = u /\ o \in Subscriptions
          BY <1>9, <4>2
        <5>. QED
          BY <1>9, <1>10, <2>1, <4>2, <5>1 DEF AttachedRows
      <4>. QED
        BY <4>1, <4>2
    <3>2. LeadsIn(w.owner, w.primary, u) = {final}
      BY <1>7, <3>1
    <3>. QED
      BY <1>5, <1>8, <1>16, <2>0, <2>1, <3>2
  <2>2. CASE ~Bare(u)
    <3>1. \E q \in Subscriptions : v.owner[q] = u
      BY <1>9, <2>2 DEF Bare
    <3>2. LeadsIn(w.owner, w.primary, u) = {rowMirror[u]}
      BY <1>9, <1>10, <1>16, <2>2, <3>1 DEF AttachedRows, ImportInductive
    <3>. QED
      BY <1>5, <1>7, <2>0, <3>2
  <2>. QED
    BY <2>1, <2>2
<1>17. rowOwner' \in RowOwners /\ rowLead' \in [Subscriptions -> BOOLEAN] /\ Led(rowOwner', rowLead')
  BY <1>5, <1>10 DEF AttachedRows
<1>. QED
  BY <1>5, <1>12, <1>13, <1>14, <1>15, <1>16, <1>17, RowsAttached

\* The dashboard gives u the profile p.
LEMMA GivesKeeps ==
    ASSUME LinkSizes, ImportInductive, NEW u \in Accounts, NEW p \in Subscriptions,
           NEW lead \in BOOLEAN, rowOwner[p] \in {u, NoAccount},
           NEW w, w = Imports!Attached(rowOwner, rowLead, u, p, lead),
           rowOwner' = w.owner, rowLead' = w.primary,
           entitled' = entitled \cup {<<u, p>>}, Imports!HandsChanged, UNCHANGED mailOf,
           strayed \subseteq strayed', strayed' \subseteq Accounts,
           \/ rowMirror' = [rowMirror EXCEPT ![u] = p] /\ (w.primary[p] \/ u \in strayed')
           \/ rowMirror' = rowMirror /\ ~w.primary[p],
           \/ importing' = importing
           \/ \E r \in Requests : importing' = [importing EXCEPT ![r] = Imports!Idle]
    PROVE  ImportInductive'
<1>0. ImportTyped
  BY DEF ImportInductive
<1>3. AttachedRows(w, rowOwner, rowLead, u, p, lead)
  BY AttachedIs DEF ImportInductive, ImportTyped
<1>4. rowOwner' = w.owner /\ rowLead' = w.primary
  OBVIOUS
<1>5. PICK M \in SUBSET Subscriptions : M = {p}
  OBVIOUS
<1>6. /\ \A q \in M : /\ rowOwner[q] \in {u, NoAccount} /\ rowOwner'[q] = u
                     /\ <<u, q>> \in entitled'
      /\ \A q \in Subscriptions \ M : rowOwner'[q] = rowOwner[q]
  BY <1>3, <1>4, <1>5 DEF AttachedRows
<1>7. /\ rowMirror' \in [Accounts -> Subscriptions \cup {NoSubscription}]
      /\ \A a \in Accounts : a # u => rowMirror'[a] = rowMirror[a]
      /\ \/ rowMirror'[u] = p /\ (w.primary[p] \/ u \in strayed')
         \/ rowMirror'[u] = rowMirror[u] /\ ~w.primary[p]
  BY <1>0 DEF ImportTyped
<1>8. ASSUME u \notin strayed' PROVE LeadsIn(w.owner, w.primary, u) = {rowMirror'[u]}
  <2>1. w.primary[p] <=> p \in LeadsIn(w.owner, w.primary, u)
    BY <1>3 DEF AttachedRows, LeadsIn
  <2>2. CASE lead \/ Bare(u)
    <3>1. LeadsIn(w.owner, w.primary, u) = {p}
      BY <1>3, <2>2 DEF AttachedRows, Bare
    <3>. QED
      BY <1>7, <2>1, <3>1
  <2>3. CASE ~lead /\ ~Bare(u)
    <3>1. u \notin strayed
      BY <1>8
    <3>2. LeadsIn(w.owner, w.primary, u) = {rowMirror[u]}
      BY <1>3, <2>3, <3>1 DEF AttachedRows, Bare, ImportInductive
    <3>. QED
      BY <1>7, <1>8, <2>1, <3>2
  <2>. QED
    BY <2>2, <2>3
<1>9. /\ rowOwner' \in RowOwners /\ rowLead' \in [Subscriptions -> BOOLEAN]
      /\ Led(rowOwner', rowLead')
      /\ \A a \in Accounts : a # u =>
           LeadsIn(rowOwner', rowLead', a) = LeadsIn(rowOwner, rowLead, a)
      /\ u \notin strayed' => LeadsIn(rowOwner', rowLead', u) = {rowMirror'[u]}
  BY <1>3, <1>4, <1>8 DEF AttachedRows
<1>10. entitled \subseteq entitled'
  OBVIOUS
<1>. QED
  BY <1>5, <1>6, <1>7, <1>9, <1>10, RowsAttached

\* The dashboard attaches the profile of an address it has set.
LEMMA EmailAttachesKeeps ==
    ASSUME LinkSizes, ImportInductive, NEW r \in Requests, Imports!EmailAttaches(r)
    PROVE  ImportInductive'
<1>1. ImportOK(r) /\ importing[r].at = "mailed" /\ strayed \subseteq Accounts
  BY DEF ImportInductive, ImportTyped, Imports!EmailAttaches
<1>2. PICK u \in Accounts : u = importing[r].user
  BY <1>1 DEF ImportOK
<1>3. PICK p \in Subscriptions :
        LET w == Imports!Attached(rowOwner, rowLead, u, p, FALSE) IN
        /\ rowOwner[p] \in {u, NoAccount}
        /\ rowOwner' = w.owner /\ rowLead' = w.primary
        /\ rowMirror' = [rowMirror EXCEPT ![u] = p]
        /\ entitled' = entitled \cup {<<u, p>>}
        /\ strayed' = IF w.primary[p] THEN strayed ELSE strayed \cup {u}
  BY <1>2 DEF Imports!EmailAttaches, Imports!Attachable
<1>4. PICK w : w = Imports!Attached(rowOwner, rowLead, u, p, FALSE)
  OBVIOUS
<1>5. /\ Imports!HandsChanged /\ UNCHANGED mailOf
      /\ importing' = [importing EXCEPT ![r] = Imports!Idle]
  BY DEF Imports!EmailAttaches, Imports!Ends
<1>6. /\ strayed \subseteq strayed' /\ strayed' \subseteq Accounts
      /\ w.primary[p] \/ u \in strayed'
  BY <1>1, <1>3, <1>4
<1>. QED
  BY <1>3, <1>4, <1>5, <1>6, GivesKeeps

\* The dashboard attaches a profile.
LEMMA DashboardAttachesKeeps ==
    ASSUME LinkSizes, ImportInductive, NEW u \in Accounts, NEW p \in Subscriptions,
           NEW lead \in BOOLEAN, Imports!DashboardAttaches(u, p, lead)
    PROVE  ImportInductive'
<1>1. PICK w : w = Imports!Attached(rowOwner, rowLead, u, p, lead)
  OBVIOUS
<1>2. /\ rowOwner[p] \in {u, NoAccount} /\ rowOwner' = w.owner /\ rowLead' = w.primary
      /\ entitled' = entitled \cup {<<u, p>>} /\ Imports!HandsChanged /\ UNCHANGED mailOf
      /\ strayed' = strayed /\ importing' = importing
      /\ \/ rowMirror' = [rowMirror EXCEPT ![u] = p] /\ w.primary[p]
         \/ rowMirror' = rowMirror /\ ~w.primary[p]
  BY <1>1 DEF Imports!DashboardAttaches, Imports!Attachable
<1>. QED
  BY <1>1, <1>2, GivesKeeps DEF ImportInductive, ImportTyped

\* The dashboard detaches a profile, and beside an import the account strays.
LEMMA DashboardDetachesKeeps ==
    ASSUME LinkSizes, ImportInductive, NEW u \in Accounts, NEW p \in Subscriptions,
           Imports!DashboardDetaches(u, p)
    PROVE  ImportInductive'
<1>0. ImportTyped /\ rowOwner[p] = u /\ Led(rowOwner, rowLead)
  BY DEF ImportInductive, Imports!DashboardDetaches, Imports!Owned
<1>1. /\ rowOwner' = [rowOwner EXCEPT ![p] = NoAccount]
      /\ rowLead' = [rowLead EXCEPT ![p] = FALSE]
      /\ rowMirror' = IF Imports!Owned(u) = {p} THEN [rowMirror EXCEPT ![u] = NoSubscription]
                      ELSE rowMirror
      /\ strayed' = IF Imports!Beside(u) THEN strayed \cup {u} ELSE strayed
      /\ rowLead[p] => Imports!Owned(u) = {p}
      /\ UNCHANGED <<mailOf, panelMailbox, importing, entitled, taken>>
  BY DEF Imports!DashboardDetaches
<1>2. /\ rowOwner'[p] = NoAccount /\ ~rowLead'[p]
      /\ \A q \in Subscriptions : q # p => rowOwner'[q] = rowOwner[q] /\ rowLead'[q] = rowLead[q]
      /\ \A v \in Accounts : v # u => rowMirror'[v] = rowMirror[v]
  BY <1>0, <1>1 DEF ImportTyped, RowOwners
<1>3. ImportTyped'
  BY <1>0, <1>1 DEF ImportTyped, RowOwners
<1>4. Led(rowOwner', rowLead') /\ Imports!Entitled'
  BY <1>1, <1>2 DEF ImportInductive, Led, Imports!Entitled
<1>5. \A v \in Accounts : v # u =>
        (Bare(v)' <=> Bare(v)) /\ LeadsIn(rowOwner', rowLead', v) = LeadsIn(rowOwner, rowLead, v)
  <2>1. ASSUME NEW v \in Accounts, v # u, NEW q \in Subscriptions
        PROVE  /\ rowOwner'[q] = v <=> rowOwner[q] = v
               /\ rowOwner[q] = v => rowLead'[q] = rowLead[q]
    BY <1>0, <1>2, <2>1 DEF LinkSizes
  <2>. QED
    BY <2>1 DEF Bare, LeadsIn
<1>6. ASSUME u \notin strayed', ~Bare(u)' PROVE LeadsIn(rowOwner', rowLead', u) = {rowMirror'[u]}
  <2>1. Imports!Owned(u) # {p}
    BY <1>2, <1>6 DEF Bare, Imports!Owned, LinkSizes
  <2>2. ~rowLead[p] /\ rowMirror' = rowMirror
    BY <1>1, <2>1
  <2>3. LeadsIn(rowOwner', rowLead', u) = LeadsIn(rowOwner, rowLead, u)
    BY <1>2, <2>2 DEF LeadsIn
  <2>4. u \notin strayed /\ ~Bare(u)
    BY <1>0, <1>1, <1>6 DEF Bare
  <2>. QED
    BY <2>2, <2>3, <2>4 DEF ImportInductive
<1>7. \A v \in Accounts \ strayed' : Bare(v)' \/ LeadsIn(rowOwner', rowLead', v) = {rowMirror'[v]}
  <2>1. strayed \subseteq strayed'
    BY <1>1
  <2>. QED
    BY <1>2, <1>5, <1>6, <2>1 DEF ImportInductive
<1>8. ASSUME NEW s \in Requests PROVE ImportOK(s)'
  <2>1. importing'[s] = importing[s] /\ entitled' = entitled /\ ImportOK(s)
    BY <1>1 DEF ImportInductive
  <2>2. PICK x : x = importing[s]
    OBVIOUS
  <2>3. ASSUME x.at \in {"asked", "self", "found", "writes"}, x.user \notin strayed',
               \A q \in Subscriptions : rowOwner'[q] # x.user
        PROVE  rowMirror'[x.user] = x.loaded
    <3>1. x.user # u /\ x.user \notin strayed
      BY <1>1, <2>2, <2>3 DEF Imports!Beside
    <3>2. x.user \in Accounts
      BY <2>1, <2>2, <2>3 DEF ImportOK
    <3>. QED
      BY <1>2, <1>5, <2>1, <2>2, <2>3, <3>1, <3>2 DEF ImportOK, Importing, Bare
  <2>. QED
    BY <2>1, <2>2, <2>3 DEF ImportOK, Importing, Bare
<1>. QED
  BY <1>1, <1>3, <1>4, <1>7, <1>8 DEF ImportInductive, Led, LeadsIn

\* Every step of the imports keeps the invariant.
LEMMA ImportSteps == LinkSizes /\ ImportInductive /\ [Imports!Next]_importVars => ImportInductive'
<1>. SUFFICES ASSUME LinkSizes, ImportInductive, [Imports!Next]_importVars PROVE ImportInductive'
  OBVIOUS
<1>1. CASE UNCHANGED <<rowOwner, rowLead, rowMirror, mailOf, importing, entitled, taken, strayed>>
  BY <1>1 DEF ImportInductive, ImportTyped, RowOwners, Led, LeadsIn, Imports!Entitled, Bare,
     ImportOK, Importing
<1>2. ASSUME NEW p \in Subscriptions, NEW m, Imports!PanelEdited(p, m) PROVE ImportInductive'
  BY <1>1, <1>2 DEF Imports!PanelEdited, Imports!rows
<1>. QED
  BY <1>1, <1>2, AsksKeeps, LinkAnsweredKeeps, OwnAnsweredKeeps, SelfWritesKeeps,
     ImportWritesKeeps, EmailAttachesKeeps, DashboardAttachesKeeps, DashboardDetachesKeeps
  DEF Imports!Next, importVars

\* The invariant says what an import may do.
LEMMA ImportConcludes == ImportInductive => Imports!ImportSound
<1>. SUFFICES ASSUME ImportInductive PROVE Imports!ImportSound
  OBVIOUS
<1>1. ASSUME NEW u \in Accounts \ strayed, Imports!Owned(u) # {}
      PROVE  Imports!Leads(u) = {rowMirror[u]}
  BY <1>1 DEF ImportInductive, Bare, LeadsIn, Imports!Owned, Imports!Leads
<1>. QED
  BY <1>1 DEF ImportInductive, Imports!ImportSound, Imports!RowsStay, Imports!LeadIsMirrored

\* A behaviour of all machines is one of the rows and of the imports.
LEMMA RowSpecs == Spec => Linked!Spec /\ Imports!Spec
<1>1. Init => Linked!Init /\ Imports!Init
  BY DEF Init
<1>2. [Next]_allVars => [Linked!Next]_linkVars
  BY DEF Next, LinksNext, TransferNext, MergeNext, AccessNext, StoreNext, DrawNext, FreeNext,
     CredentialsNext, CheckoutNext, RatesNext, GuardsNext, ScreensNext, CleanNext, ImportNext,
     PageNext, IdentityNext, allVars, accountSide, linkVars
<1>3. [Next]_allVars => [Imports!Next]_importVars
  BY DEF Next, LinksNext, TransferNext, MergeNext, AccessNext, StoreNext, DrawNext, FreeNext,
     CredentialsNext, CheckoutNext, RatesNext, GuardsNext, ScreensNext, CleanNext, ImportNext,
     PageNext, IdentityNext, allVars, salesSide, pageSide, importVars
<1>. QED
  BY <1>1, <1>2, <1>3, PTL DEF Spec, Linked!Spec, Linked!linkVars, linkVars, Imports!Spec,
     Imports!importVars, importVars

\* For any number of accounts, profiles and requests: no account has two primary rows,
\* users.rw_id names the primary one unless transactions overlapped
\* (common_db/repo/subscriptions.py), and an import takes only what its account was shown
\* to be entitled to, from nobody (account_linking/merge.py).
THEOREM LinksAreSound == Spec => []LinksSound
<1>1. Linked!Init => LinksInductive
  BY LinksBegin, LinkConstants
<1>2. LinksInductive /\ [Linked!Next]_linkVars => LinksInductive'
  BY LinksSteps, LinkConstants
<1>3. LinksInductive => Linked!PrimaryTrue
  BY DEF LinksInductive, OneAfterAnother, Linked!PrimaryTrue, Linked!MirrorInStep
<1>4. Imports!Init => ImportInductive
  BY ImportsBegin, LinkConstants
<1>5. ImportInductive /\ [Imports!Next]_importVars => ImportInductive'
  BY ImportSteps, LinkConstants
<1>6. ImportInductive => Imports!ImportSound
  BY ImportConcludes
<1>. QED
  BY <1>1, <1>2, <1>3, <1>4, <1>5, <1>6, RowSpecs, PTL
  DEF Linked!Spec, Linked!linkVars, linkVars, Imports!Spec, Imports!importVars, importVars,
      LinksSound

-----------------------------------------------------------------------------
(***************************************************************************)
(* Merges.  Two merges that write hold different rows, so what a merge has *)
(* read is still so when it writes, unless it crossed something; rows have *)
(* numbers of their own; and a link that is alone finds its Telegram id    *)
(* where it has seen it.                                                   *)
(***************************************************************************)

People == EmailAccounts \cup TelegramAccounts

PersonRecord ==
    [exists : BOOLEAN, tg : TelegramIds \cup {NoTelegram}, email : BOOLEAN, points : Nat]

OwnedRecord == [id : Nat, owner : People, kind : {"order", "session"}]

LinkRecord ==
    [pc : {"idle", "bind", "look", "move", "delete"}, path : {"none", "bot", "email"},
     email : People \cup {NoAccount}, other : People \cup {NoAccount},
     tg : TelegramIds \cup {NoTelegram}, survivorHad : Nat, loserHad : Nat,
     taken : SUBSET OwnedRecord]

MergeTyped ==
    /\ account \in [People -> PersonRecord]
    /\ ledgerOf \in [People -> Nat]
    /\ owned \subseteq OwnedRecord
    /\ link \in [Requests -> LinkRecord]
    /\ crossed \in BOOLEAN /\ beside \in BOOLEAN

\* The rows x works on are there, and have the points it has read.
BothThere(x) == account[x.email].exists /\ account[x.other].exists
HadRight(x) ==
    /\ account[Merge!Survivor(x)].points = x.survivorHad
    /\ account[Merge!Loser(x)].points = x.loserHad

\* What a link relies on.
LinkRight(x) ==
    /\ x.pc # "idle" => x.email \in People /\ x.tg \in TelegramIds
    /\ x.pc \in {"look", "move", "delete"} => x.other \in People /\ x.other # x.email
    /\ x.pc = "delete" => BothThere(x)
    /\ x.pc \in {"move", "delete"} /\ ~crossed /\ BothThere(x) => HadRight(x)

\* The accounts of two merges that write.
Both(x) == {x.email, x.other}
Apart(x, y) == x.pc = "delete" /\ y.pc = "delete" => Both(x) \cap Both(y) = {}

\* Where a link that is alone finds its Telegram id.
AloneLinked(x) ==
    x.pc # "idle" => \A u \in People : account[u].exists /\ account[u].tg = x.tg =>
                        x.pc # "bind" /\ u = x.other

NoOverlap ==
    /\ \A j, k \in Requests : j # k => link[j].pc = "idle" \/ link[k].pc = "idle"
    /\ \A k \in Requests : AloneLinked(link[k])

PointsRight ==
    /\ ~crossed => \A u \in People : account[u].points = ledgerOf[u]
    /\ \A u \in People : ~account[u].exists => account[u].points = 0

RowsRight ==
    /\ \A r \in owned : account[r.owner].exists
    /\ \A r, s \in owned : r.id = s.id => r = s
    /\ created = {r.id : r \in owned}

OneEach ==
    \A u, v \in People :
        /\ account[u].exists /\ account[v].exists
        /\ account[u].tg = account[v].tg /\ account[u].tg \in TelegramIds
        => u = v

MergeInductive ==
    /\ MergeTyped /\ PointsRight /\ RowsRight
    /\ \A k \in Requests : LinkRight(link[k])
    /\ \A j, k \in Requests : j # k => Apart(link[j], link[k])
    /\ ~beside => OneEach /\ NoOverlap

\* A link that is over.
LEMMA RestingIs ==
    ASSUME MergeSizes
    PROVE  /\ Merge!Resting \in LinkRecord /\ Merge!Resting.pc = "idle"
           /\ LinkRight(Merge!Resting) /\ AloneLinked(Merge!Resting)
BY DEF Merge!Resting, LinkRecord, LinkRight, AloneLinked

\* E-mail accounts only, and no link.
LEMMA MergeBegins == MergeSizes /\ Merge!Init => MergeInductive
<1>. SUFFICES ASSUME MergeSizes, Merge!Init PROVE MergeInductive
  OBVIOUS
<1>1. PICK n \in LinkRecord : n = Merge!Resting /\ n.pc = "idle" /\ LinkRight(n) /\ AloneLinked(n)
  BY RestingIs
<1>2. link = [k \in Requests |-> n] /\ \A k \in Requests : link[k] = n
  BY <1>1 DEF Merge!Init
<1>3. account \in [People -> PersonRecord] /\ ledgerOf \in [People -> Nat]
  BY DEF Merge!Init, Merge!Rows, People, PersonRecord
<1>4. PointsRight /\ RowsRight /\ OneEach
  BY DEF Merge!Init, Merge!Rows, People, PointsRight, RowsRight, OneEach, MergeSizes
<1>5. owned \subseteq OwnedRecord /\ crossed \in BOOLEAN /\ beside \in BOOLEAN
  BY DEF Merge!Init
<1>. QED
  BY <1>1, <1>2, <1>3, <1>4, <1>5 DEF MergeInductive, MergeTyped, Apart, NoOverlap

\* A link goes on, and writes nothing yet.
LEMMA LinkBecomes ==
    ASSUME MergeInductive, NEW k \in Requests, NEW n \in LinkRecord,
           link' = [link EXCEPT ![k] = n],
           UNCHANGED <<account, ledgerOf, owned, created, crossed>>,
           beside' \in BOOLEAN, ~beside' => ~beside,
           LinkRight(n), \A j \in Requests : j # k => Apart(n, link[j]),
           ~beside' /\ n.pc # "idle" =>
             AloneLinked(n) /\ \A j \in Requests : j # k => link[j].pc = "idle"
    PROVE  MergeInductive'
<1>0. MergeTyped
  BY DEF MergeInductive
<1>1. link'[k] = n /\ \A j \in Requests : j # k => link'[j] = link[j]
  BY <1>0 DEF MergeTyped
<1>2. MergeTyped'
  BY <1>0 DEF MergeTyped
<1>3. PointsRight' /\ RowsRight'
  BY DEF MergeInductive, PointsRight, RowsRight
<1>4. OneEach <=> OneEach'
  BY DEF OneEach
<1>5. ASSUME NEW j \in Requests PROVE LinkRight(link[j])'
  <2>1. PICK x : x = link'[j] /\ LinkRight(x)
    BY <1>1 DEF MergeInductive
  <2>. QED
    BY <2>1 DEF LinkRight, BothThere, HadRight, Merge!Survivor, Merge!Loser
<1>6. ASSUME NEW i \in Requests, NEW j \in Requests, i # j PROVE Apart(link[i], link[j])'
  <2>1. Apart(link'[i], link'[j])
    BY <1>1, <1>6 DEF MergeInductive, Apart, Both
  <2>. QED
    BY <2>1 DEF Apart, Both
<1>7. ASSUME ~beside' PROVE NoOverlap'
  <2>1. NoOverlap
    BY <1>7 DEF MergeInductive
  <2>2. \A j \in Requests : AloneLinked(link'[j])
    BY <1>1, <1>7, <2>1 DEF NoOverlap, AloneLinked
  <2>3. ASSUME NEW j \in Requests PROVE AloneLinked(link[j])'
    BY <2>2 DEF AloneLinked
  <2>. QED
    BY <1>1, <1>7, <2>1, <2>3 DEF NoOverlap
<1>. QED
  BY <1>2, <1>3, <1>4, <1>5, <1>6, <1>7 DEF MergeInductive

\* A link is given up.
LEMMA LinkGivenUp ==
    ASSUME MergeSizes, MergeInductive, NEW k \in Requests, Merge!LinkFails(k)
    PROVE  MergeInductive'
<1>1. PICK n \in LinkRecord : n = Merge!Resting /\ n.pc = "idle" /\ LinkRight(n) /\ AloneLinked(n)
  BY RestingIs
<1>2. /\ link' = [link EXCEPT ![k] = n]
      /\ UNCHANGED <<account, ledgerOf, owned, created, crossed, beside>>
  BY <1>1 DEF Merge!LinkFails, Merge!Rest
<1>3. beside' \in BOOLEAN
  BY <1>2 DEF MergeInductive, MergeTyped
<1>4. \A j \in Requests : Apart(n, link[j])
  BY <1>1 DEF Apart
<1>. QED
  BY <1>1, <1>2, <1>3, <1>4, LinkBecomes

\* A link begins, with the account it has found.
LEMMA BeginLinkKeeps ==
    ASSUME MergeSizes, MergeInductive, NEW k \in Requests, NEW path \in {"bot", "email"},
           NEW e \in EmailAccounts, NEW g \in TelegramIds, Merge!BeginLink(k, path, e, g)
    PROVE  MergeInductive'
<1>0. MergeTyped
  BY DEF MergeInductive
<1>1. PICK other \in Merge!Found(g) :
        /\ other # e
        /\ link' = [link EXCEPT ![k] =
             [Merge!Resting EXCEPT !.pc = IF other = NoAccount THEN "bind" ELSE "look",
                !.path = path, !.email = e, !.other = other, !.tg = g]]
        /\ beside' = (beside \/ \E j \in Requests \ {k} : link[j].pc # "idle")
        /\ UNCHANGED <<account, ledgerOf, owned, created, crossed>>
  BY DEF Merge!BeginLink
<1>2. PICK n \in LinkRecord :
        n = [Merge!Resting EXCEPT !.pc = IF other = NoAccount THEN "bind" ELSE "look",
               !.path = path, !.email = e, !.other = other, !.tg = g]
  <2>1. other \in People \cup {NoAccount}
    BY DEF Merge!Found, Merge!Holders, Merge!Rows, People
  <2>. QED
    BY <2>1, RestingIs DEF LinkRecord, People
<1>3. /\ n.pc = IF other = NoAccount THEN "bind" ELSE "look"
      /\ n.email = e /\ n.other = other /\ n.tg = g
  BY <1>2, RestingIs DEF LinkRecord
<1>4. LinkRight(n)
  <2>1. other \in People \cup {NoAccount} /\ e \in People
    BY DEF Merge!Found, Merge!Holders, Merge!Rows, People
  <2>. QED
    BY <1>1, <1>3, <2>1 DEF LinkRight
<1>5. \A j \in Requests : Apart(n, link[j])
  BY <1>3 DEF Apart
<1>6. ASSUME ~beside'
      PROVE  AloneLinked(n) /\ \A j \in Requests : j # k => link[j].pc = "idle"
  <2>1. ~beside /\ \A j \in Requests : j # k => link[j].pc = "idle"
    BY <1>1, <1>6
  <2>2. \A u \in People : account[u].exists /\ account[u].tg = g <=> u \in Merge!Holders(g)
    BY DEF Merge!Holders, Merge!Exists, Merge!Rows, People
  <2>3. OneEach
    BY <2>1 DEF MergeInductive
  <2>4. ASSUME NEW u \in People, account[u].exists, account[u].tg = g
        PROVE  other # NoAccount /\ u = other
    <3>1. other \in Merge!Holders(g) /\ other \in People
      BY <2>2, <2>4 DEF Merge!Found, Merge!Holders, Merge!Rows, People
    <3>2. account[other].exists /\ account[other].tg = g
      BY <2>2, <3>1
    <3>. QED
      BY <2>3, <2>4, <3>1, <3>2 DEF OneEach, MergeSizes, People
  <2>. QED
    BY <1>3, <2>1, <2>4 DEF AloneLinked
<1>7. beside' \in BOOLEAN /\ (~beside' => ~beside)
  BY <1>0, <1>1 DEF MergeTyped
<1>8. link' = [link EXCEPT ![k] = n]
  BY <1>1, <1>2
<1>. QED
  BY <1>1, <1>4, <1>5, <1>6, <1>7, <1>8, LinkBecomes

\* Both rows are read.
LEMMA ReadRowsKeeps ==
    ASSUME MergeSizes, MergeInductive, NEW k \in Requests, Merge!ReadRows(k)
    PROVE  MergeInductive'
<1>0. MergeTyped
  BY DEF MergeInductive
<1>1. PICK x \in LinkRecord : x = link[k] /\ LinkRight(x) /\ x.pc = "look"
  BY <1>0 DEF MergeInductive, MergeTyped, Merge!ReadRows
<1>2. PICK a, b : a = account[Merge!Survivor(x)].points /\ b = account[Merge!Loser(x)].points
  OBVIOUS
<1>3. a \in Nat /\ b \in Nat
  <2>1. Merge!Survivor(x) \in People /\ Merge!Loser(x) \in People
    BY <1>1 DEF LinkRight, Merge!Survivor, Merge!Loser
  <2>. QED
    BY <1>0, <1>2, <2>1 DEF MergeTyped, PersonRecord
<1>4. PICK n \in LinkRecord : n = [x EXCEPT !.pc = "move", !.survivorHad = a, !.loserHad = b]
  BY <1>3 DEF LinkRecord
<1>5. /\ n.pc = "move" /\ n.email = x.email /\ n.other = x.other /\ n.tg = x.tg
      /\ n.path = x.path /\ n.survivorHad = a /\ n.loserHad = b
  BY <1>4 DEF LinkRecord
<1>6. /\ link' = [link EXCEPT ![k] = n]
      /\ UNCHANGED <<account, ledgerOf, owned, created, crossed, beside>>
  BY <1>0, <1>1, <1>2, <1>4 DEF Merge!ReadRows, MergeTyped
<1>7. Merge!Survivor(n) = Merge!Survivor(x) /\ Merge!Loser(n) = Merge!Loser(x)
  BY <1>5 DEF Merge!Survivor, Merge!Loser
<1>8. LinkRight(n)
  BY <1>1, <1>2, <1>5, <1>7 DEF LinkRight, HadRight
<1>9. \A j \in Requests : Apart(n, link[j])
  BY <1>5 DEF Apart
<1>10. ASSUME ~beside'
       PROVE  AloneLinked(n) /\ \A j \in Requests : j # k => link[j].pc = "idle"
  BY <1>1, <1>5, <1>6, <1>10 DEF MergeInductive, NoOverlap, AloneLinked
<1>11. beside' \in BOOLEAN
  BY <1>0, <1>6 DEF MergeTyped
<1>. QED
  BY <1>6, <1>8, <1>9, <1>10, <1>11, LinkBecomes

\* The first write locks both accounts.
LEMMA MoveRowsKeeps ==
    ASSUME MergeSizes, MergeInductive, NEW k \in Requests, Merge!MoveRows(k)
    PROVE  MergeInductive'
<1>0. MergeTyped
  BY DEF MergeInductive
<1>1. PICK x \in LinkRecord : x = link[k] /\ LinkRight(x) /\ x.pc = "move"
  BY <1>0 DEF MergeInductive, MergeTyped, Merge!MoveRows
<1>2. Merge!RowsOf(Merge!Loser(x)) \in SUBSET OwnedRecord
  BY <1>0 DEF MergeTyped, Merge!RowsOf
<1>3. PICK n \in LinkRecord :
        n = [x EXCEPT !.pc = "delete", !.taken = Merge!RowsOf(Merge!Loser(x))]
  BY <1>2 DEF LinkRecord
<1>4. /\ n.pc = "delete" /\ n.email = x.email /\ n.other = x.other /\ n.tg = x.tg
      /\ n.path = x.path /\ n.survivorHad = x.survivorHad /\ n.loserHad = x.loserHad
  BY <1>3 DEF LinkRecord
<1>5. /\ link' = [link EXCEPT ![k] = n]
      /\ UNCHANGED <<account, ledgerOf, owned, created, crossed, beside>>
      /\ BothThere(x)
      /\ ~Merge!RowLocked(x.email) /\ ~Merge!RowLocked(x.other)
  BY <1>0, <1>1, <1>3 DEF Merge!MoveRows, MergeTyped, BothThere, Merge!Exists
<1>6. Merge!Survivor(n) = Merge!Survivor(x) /\ Merge!Loser(n) = Merge!Loser(x)
  BY <1>4 DEF Merge!Survivor, Merge!Loser
<1>7. LinkRight(n)
  BY <1>1, <1>4, <1>5, <1>6 DEF LinkRight, HadRight, BothThere
<1>8. \A j \in Requests : Apart(n, link[j])
  BY <1>4, <1>5 DEF Apart, Both, Merge!RowLocked, Merge!Writing
<1>9. ASSUME ~beside'
      PROVE  AloneLinked(n) /\ \A j \in Requests : j # k => link[j].pc = "idle"
  BY <1>1, <1>4, <1>5, <1>9 DEF MergeInductive, NoOverlap, AloneLinked
<1>10. beside' \in BOOLEAN
  BY <1>0, <1>5 DEF MergeTyped
<1>. QED
  BY <1>5, <1>7, <1>8, <1>9, <1>10, LinkBecomes

\* A step after which u has the record n: points still follow the ledger, the rows that
\* merges work on are not touched, and a Telegram id is new only where no link is under way.
MayBecome(u, n) ==
    /\ account[u].exists => n.exists
    /\ ~n.exists => n.points = 0
    /\ ~crossed' =>
         /\ ~crossed
         /\ n.points = ledgerOf'[u]
         /\ \A v \in People : v # u => ledgerOf'[v] = ledgerOf[v]
         /\ \A k \in Requests : link[k].pc \in {"move", "delete"} /\ u \in Both(link[k]) =>
                                  account[u].exists /\ n.points = account[u].points
    /\ \/ n.tg \in {account[u].tg, NoTelegram} /\ account[u].exists
       \/ ~beside' => /\ \A k \in Requests : link'[k].pc = "idle"
                      /\ \A v \in People : account[v].exists => account[v].tg # n.tg

\* One account changes its record; links stay as they are or are over.
LEMMA AccountBecomes ==
    ASSUME MergeSizes, MergeInductive, NEW u \in People, NEW n \in PersonRecord,
           account' = [account EXCEPT ![u] = n],
           UNCHANGED <<owned, created>>,
           link' \in [Requests -> LinkRecord],
           \A k \in Requests : link'[k] = link[k] \/ link'[k].pc = "idle",
           ledgerOf' \in [People -> Nat], crossed' \in BOOLEAN, beside' \in BOOLEAN,
           ~beside' => ~beside, MayBecome(u, n)
    PROVE  MergeInductive'
<1>0. MergeTyped /\ account[u] \in PersonRecord
  BY DEF MergeInductive, MergeTyped
<1>1. account'[u] = n /\ \A v \in People : v # u => account'[v] = account[v]
  BY <1>0 DEF MergeTyped
<1>2. MergeTyped'
  BY <1>0 DEF MergeTyped
<1>3. PointsRight'
  BY <1>1 DEF MergeInductive, PointsRight, MayBecome
<1>4. RowsRight'
  <2>1. \A r \in owned : r.owner \in People
    BY <1>0 DEF MergeTyped, OwnedRecord
  <2>. QED
    BY <1>1, <2>1 DEF MergeInductive, RowsRight, MayBecome
<1>5. ASSUME NEW k \in Requests PROVE LinkRight(link[k])'
  <2>1. PICK x \in LinkRecord : x = link'[k] /\ (x.pc # "idle" => x = link[k])
    BY <1>2 DEF MergeTyped
  <2>2. x.pc # "idle" => LinkRight(x)
    BY <2>1 DEF MergeInductive
  <2>3. x.pc = "delete" => account'[x.email].exists /\ account'[x.other].exists
    BY <1>1, <2>2 DEF LinkRight, BothThere, MayBecome
  <2>4. ASSUME x.pc \in {"move", "delete"}, ~crossed', account'[x.email].exists,
               account'[x.other].exists
        PROVE  /\ account'[Merge!Survivor(x)].points = x.survivorHad
               /\ account'[Merge!Loser(x)].points = x.loserHad
    <3>1. x.email \in People /\ x.other \in People
      BY <2>2, <2>4 DEF LinkRight
    <3>2. \A v \in Both(x) : account'[v].points = account[v].points /\ account[v].exists
      BY <1>1, <2>1, <2>4, <3>1 DEF Both, MayBecome
    <3>3. HadRight(x)
      BY <2>2, <2>4, <3>2 DEF LinkRight, BothThere, Both, MayBecome
    <3>4. Merge!Survivor(x) \in Both(x) /\ Merge!Loser(x) \in Both(x)
      BY DEF Merge!Survivor, Merge!Loser, Both
    <3>. QED
      BY <3>2, <3>3, <3>4 DEF HadRight
  <2>. QED
    BY <2>1, <2>2, <2>3, <2>4 DEF LinkRight, BothThere, HadRight, Merge!Survivor, Merge!Loser
<1>6. ASSUME NEW i \in Requests, NEW j \in Requests, i # j PROVE Apart(link[i], link[j])'
  <2>1. PICK x, y : x = link'[i] /\ y = link'[j]
    OBVIOUS
  <2>2. Apart(x, y)
    BY <1>6, <2>1 DEF MergeInductive, Apart
  <2>. QED
    BY <2>1, <2>2 DEF Apart, Both
<1>7. ASSUME ~beside' PROVE OneEach' /\ NoOverlap'
  <2>1. OneEach /\ NoOverlap
    BY <1>7 DEF MergeInductive
  <2>2. CASE n.tg \in {account[u].tg, NoTelegram} /\ account[u].exists
    <3>1. \A v \in People : account'[v].exists /\ account'[v].tg \in TelegramIds =>
                              account[v].exists /\ account[v].tg = account'[v].tg
      BY <1>1, <2>2 DEF MergeSizes
    <3>2. OneEach'
      BY <2>1, <3>1 DEF OneEach
    <3>3. ASSUME NEW k \in Requests PROVE AloneLinked(link[k])'
      <4>1. PICK x : x = link'[k] /\ (x.pc # "idle" => AloneLinked(x) /\ x.tg \in TelegramIds)
        BY <2>1 DEF NoOverlap, MergeInductive, LinkRight
      <4>. QED
        BY <3>1, <4>1 DEF AloneLinked
    <3>. QED
      BY <2>1, <3>2, <3>3 DEF NoOverlap
  <2>3. CASE /\ \A k \in Requests : link'[k].pc = "idle"
             /\ \A v \in People : account[v].exists => account[v].tg # n.tg
    BY <1>1, <2>1, <2>3 DEF OneEach, NoOverlap, AloneLinked
  <2>. QED
    BY <1>7, <2>2, <2>3 DEF MayBecome
<1>. QED
  BY <1>2, <1>3, <1>4, <1>5, <1>6, <1>7 DEF MergeInductive

\* An account gives its Telegram id up.
LEMMA UnlinkTelegramKeeps ==
    ASSUME MergeSizes, MergeInductive, NEW u \in People, Merge!UnlinkTelegram(u)
    PROVE  MergeInductive'
<1>0. MergeTyped /\ account[u] \in PersonRecord
  BY DEF MergeInductive, MergeTyped
<1>1. PICK n \in PersonRecord : n = [account[u] EXCEPT !.tg = NoTelegram]
  BY <1>0 DEF PersonRecord
<1>2. n.exists = account[u].exists /\ n.points = account[u].points /\ n.tg = NoTelegram
  BY <1>0, <1>1 DEF PersonRecord
<1>3. /\ account' = [account EXCEPT ![u] = n] /\ account[u].exists
      /\ UNCHANGED <<ledgerOf, owned, link, created, crossed, beside>>
  BY <1>0, <1>1 DEF Merge!UnlinkTelegram, Merge!Exists, MergeTyped
<1>4. link' \in [Requests -> LinkRecord] /\ \A k \in Requests : link'[k] = link[k]
  BY <1>0, <1>3 DEF MergeTyped
<1>5. ledgerOf' \in [People -> Nat] /\ crossed' \in BOOLEAN /\ beside' \in BOOLEAN
  BY <1>0, <1>3 DEF MergeTyped
<1>6. ~crossed => account[u].points = ledgerOf[u]
  BY DEF MergeInductive, PointsRight
<1>7. MayBecome(u, n)
  BY <1>2, <1>3, <1>6 DEF MayBecome, MergeInductive, PointsRight
<1>. QED
  BY <1>3, <1>4, <1>5, <1>7, AccountBecomes

\* Points are credited to a row that nobody has locked.
LEMMA EarnKeeps ==
    ASSUME MergeSizes, MergeInductive, NEW u \in People, Merge!Earn(u)
    PROVE  MergeInductive'
<1>0. MergeTyped /\ account[u] \in PersonRecord /\ account[u].points \in Nat
  BY DEF MergeInductive, MergeTyped, PersonRecord
<1>1. PICK n \in PersonRecord : n = [account[u] EXCEPT !.points = account[u].points + 1]
  <2>1. account[u].points + 1 \in Nat
    BY <1>0
  <2>. QED
    BY <1>0, <2>1 DEF PersonRecord
<1>2. n.exists = account[u].exists /\ n.points = account[u].points + 1 /\ n.tg = account[u].tg
  BY <1>0, <1>1 DEF PersonRecord
<1>3. /\ account' = [account EXCEPT ![u] = n] /\ account[u].exists
      /\ ledgerOf' = [ledgerOf EXCEPT ![u] = @ + 1]
      /\ ~Merge!RowLocked(u) /\ crossed' = (crossed \/ Merge!Crossing(u))
      /\ UNCHANGED <<owned, link, created, beside>>
  BY <1>0, <1>1 DEF Merge!Earn, Merge!Exists, MergeTyped
<1>4. link' \in [Requests -> LinkRecord] /\ \A k \in Requests : link'[k] = link[k]
  BY <1>0, <1>3 DEF MergeTyped
<1>5. /\ ledgerOf' \in [People -> Nat] /\ crossed' \in BOOLEAN /\ beside' \in BOOLEAN
      /\ ledgerOf'[u] = ledgerOf[u] + 1
      /\ \A v \in People : v # u => ledgerOf'[v] = ledgerOf[v]
  BY <1>0, <1>3 DEF MergeTyped
<1>6. ~crossed => account[u].points = ledgerOf[u]
  BY DEF MergeInductive, PointsRight
<1>7. ~crossed' => ~crossed /\ ~Merge!Crossing(u)
  BY <1>3
<1>8. ~crossed' => \A k \in Requests :
        ~(link[k].pc \in {"move", "delete"} /\ u \in Both(link[k]))
  BY <1>3, <1>7 DEF Merge!Crossing, Merge!RowLocked, Merge!Writing, Both
<1>9. MayBecome(u, n)
  BY <1>2, <1>3, <1>5, <1>6, <1>7, <1>8 DEF MayBecome
<1>. QED
  BY <1>3, <1>4, <1>5, <1>9, AccountBecomes

\* The bot registers somebody under a Telegram id that no account has.
LEMMA RegisterKeeps ==
    ASSUME MergeSizes, MergeInductive, NEW u \in TelegramAccounts, NEW g \in TelegramIds,
           Merge!Register(u, g)
    PROVE  MergeInductive'
<1>0. MergeTyped /\ u \in People
  BY DEF MergeInductive, People
<1>1. PICK n \in PersonRecord : n = [exists |-> TRUE, tg |-> g, email |-> FALSE, points |-> 0]
  BY DEF PersonRecord
<1>2. n.exists /\ n.points = 0 /\ n.tg = g
  BY <1>1
<1>3. /\ account' = [account EXCEPT ![u] = n] /\ ~account[u].exists
      /\ ledgerOf[u] = 0 /\ Merge!Holders(g) = {}
      /\ \A k \in Requests : u \notin Both(link[k])
      /\ beside' = (beside \/ \E k \in Requests : link[k].pc # "idle")
      /\ UNCHANGED <<ledgerOf, owned, link, created, crossed>>
  BY <1>1 DEF Merge!Register, Merge!Exists, Both
<1>4. link' \in [Requests -> LinkRecord] /\ \A k \in Requests : link'[k] = link[k]
  BY <1>0, <1>3 DEF MergeTyped
<1>5. ledgerOf' \in [People -> Nat] /\ crossed' \in BOOLEAN /\ beside' \in BOOLEAN
  BY <1>0, <1>3 DEF MergeTyped
<1>6. \A v \in People : account[v].exists => account[v].tg # g
  BY <1>3 DEF Merge!Holders, Merge!Exists, Merge!Rows, People
<1>7. ~beside' => ~beside /\ \A k \in Requests : link[k].pc = "idle"
  BY <1>3
<1>8. MayBecome(u, n)
  BY <1>2, <1>3, <1>6, <1>7 DEF MayBecome
<1>. QED
  BY <1>0, <1>3, <1>4, <1>5, <1>7, <1>8, AccountBecomes

\* The Telegram id is written to the e-mail row, if that is still there.
LEMMA BindKeeps ==
    ASSUME MergeSizes, MergeInductive, NEW k \in Requests, Merge!Bind(k)
    PROVE  MergeInductive'
<1>0. MergeTyped
  BY DEF MergeInductive
<1>1. PICK x \in LinkRecord : x = link[k] /\ LinkRight(x) /\ x.pc = "bind"
  BY <1>0 DEF MergeInductive, MergeTyped, Merge!Bind
<1>2. PICK u \in People, g \in TelegramIds : u = x.email /\ g = x.tg
  BY <1>1 DEF LinkRight
<1>3. PICK r \in LinkRecord : r = Merge!Resting /\ r.pc = "idle" /\ LinkRight(r) /\ AloneLinked(r)
  BY RestingIs
<1>4. /\ link' = [link EXCEPT ![k] = r]
      /\ UNCHANGED <<ledgerOf, owned, created, crossed, beside>>
      /\ IF account[u].exists THEN account' = [account EXCEPT ![u].tg = g]
         ELSE UNCHANGED account
  BY <1>1, <1>2, <1>3 DEF Merge!Bind, Merge!Rest, Merge!Exists
<1>5. /\ link' \in [Requests -> LinkRecord] /\ link'[k] = r
      /\ \A j \in Requests : j # k => link'[j] = link[j]
  BY <1>0, <1>4 DEF MergeTyped
<1>6. ledgerOf' \in [People -> Nat] /\ crossed' \in BOOLEAN /\ beside' \in BOOLEAN
  BY <1>0, <1>4 DEF MergeTyped
<1>7. CASE ~account[u].exists
  <2>1. \A j \in Requests : Apart(r, link[j])
    BY <1>3 DEF Apart
  <2>. QED
    BY <1>3, <1>4, <1>6, <1>7, <2>1, LinkBecomes
<1>8. CASE account[u].exists
  <2>0. account[u] \in PersonRecord
    BY <1>0 DEF MergeTyped
  <2>1. PICK n \in PersonRecord : n = [account[u] EXCEPT !.tg = g]
    BY <2>0 DEF PersonRecord
  <2>2. n.exists = account[u].exists /\ n.points = account[u].points /\ n.tg = g
    BY <2>0, <2>1 DEF PersonRecord
  <2>3. account' = [account EXCEPT ![u] = n]
    BY <1>0, <1>4, <1>8, <2>1 DEF MergeTyped
  <2>4. ~crossed => account[u].points = ledgerOf[u]
    BY DEF MergeInductive, PointsRight
  <2>5. ASSUME ~beside'
        PROVE  /\ \A j \in Requests : link'[j].pc = "idle"
               /\ \A v \in People : account[v].exists => account[v].tg # g
    <3>1. NoOverlap
      BY <1>4, <2>5 DEF MergeInductive
    <3>. QED
      BY <1>1, <1>2, <1>3, <1>5, <3>1 DEF NoOverlap, AloneLinked
  <2>6. \A j \in Requests : link'[j] = link[j] \/ link'[j].pc = "idle"
    BY <1>3, <1>5
  <2>7. MayBecome(u, n)
    BY <1>4, <1>8, <2>2, <2>4, <2>5 DEF MayBecome
  <2>. QED
    BY <1>4, <1>5, <1>6, <2>3, <2>6, <2>7, AccountBecomes
<1>. QED
  BY <1>7, <1>8

\* A row is added to an account that is there.
LEMMA AddRowKeeps ==
    ASSUME MergeSizes, MergeInductive, NEW u \in People, NEW kind \in {"order", "session"},
           NEW id \in Nat, Merge!AddRow(u, kind, id)
    PROVE  MergeInductive'
<1>0. MergeTyped
  BY DEF MergeInductive
<1>1. PICK n \in OwnedRecord : n = [id |-> id, owner |-> u, kind |-> kind]
  BY DEF OwnedRecord
<1>2. /\ owned' = owned \cup {n} /\ created' = created \cup {id} /\ account[u].exists
      /\ \A r \in owned : r.id # id
      /\ UNCHANGED <<account, ledgerOf, link, crossed, beside>>
  BY <1>1 DEF Merge!AddRow, Merge!Exists
<1>3. n.id = id /\ n.owner = u
  BY <1>1
<1>4. MergeTyped'
  BY <1>0, <1>2 DEF MergeTyped
<1>5. RowsRight'
  BY <1>2, <1>3 DEF MergeInductive, RowsRight
<1>6. PointsRight' /\ (OneEach <=> OneEach')
  BY <1>2 DEF MergeInductive, PointsRight, OneEach
<1>7. \A k \in Requests : LinkRight(link[k])'
  BY <1>2 DEF MergeInductive, LinkRight, BothThere, HadRight, Merge!Survivor, Merge!Loser
<1>8. (\A j, k \in Requests : j # k => Apart(link[j], link[k]))'
  BY <1>2 DEF MergeInductive, Apart, Both
<1>9. ~beside => NoOverlap'
  BY <1>2 DEF MergeInductive, NoOverlap, AloneLinked
<1>. QED
  BY <1>2, <1>4, <1>5, <1>6, <1>7, <1>8, <1>9 DEF MergeInductive

\* The loser is deleted: its rows and its ledger are the survivor's now, with the points
\* that were read.
LEMMA DeleteLoserKeeps ==
    ASSUME MergeSizes, MergeInductive, NEW k \in Requests, Merge!DeleteLoser(k)
    PROVE  MergeInductive'
<1>0. MergeTyped
  BY DEF MergeInductive
<1>1. PICK x \in LinkRecord : x = link[k] /\ LinkRight(x) /\ x.pc = "delete"
  BY <1>0 DEF MergeInductive, MergeTyped, Merge!DeleteLoser
<1>2. PICK st \in People, ls \in People : st = Merge!Survivor(x) /\ ls = Merge!Loser(x)
  BY <1>1 DEF LinkRight, Merge!Survivor, Merge!Loser
<1>3. /\ st # ls /\ Both(x) = {st, ls} /\ x.other \in {st, ls} /\ x.tg \in TelegramIds
      /\ account[st].exists /\ account[ls].exists
      /\ ~crossed => account[st].points = x.survivorHad /\ account[ls].points = x.loserHad
  BY <1>1, <1>2 DEF LinkRight, BothThere, HadRight, Merge!Survivor, Merge!Loser, Both
<1>4. account[st] \in PersonRecord /\ account[ls] \in PersonRecord
  BY <1>0 DEF MergeTyped
<1>5. PICK m \in Nat : m = Merge!MergedPoints(x)
  BY <1>2, <1>4 DEF Merge!MergedPoints, LinkRecord, PersonRecord
<1>6. PICK a \in PersonRecord, b \in PersonRecord :
        /\ a = [exists |-> TRUE, tg |-> x.tg, email |-> TRUE, points |-> m]
        /\ b = [exists |-> FALSE, tg |-> NoTelegram, email |-> FALSE, points |-> 0]
  BY <1>3 DEF PersonRecord
<1>7. a.exists /\ a.tg = x.tg /\ a.points = m /\ ~b.exists /\ b.points = 0
  BY <1>6
<1>8. PICK r \in LinkRecord : r = Merge!Resting /\ r.pc = "idle" /\ LinkRight(r) /\ AloneLinked(r)
  BY RestingIs
<1>9. PICK extra : extra = Merge!RowsOf(ls) \ x.taken
  OBVIOUS
<1>10. /\ account' = [account EXCEPT ![st] = a, ![ls] = b]
       /\ ledgerOf' = [ledgerOf EXCEPT ![st] = @ + ledgerOf[ls], ![ls] = 0]
       /\ owned' = {IF w \in x.taken THEN [w EXCEPT !.owner = st] ELSE w : w \in owned \ extra}
       /\ created' = created \ {w.id : w \in extra}
       /\ crossed' = (crossed \/ Merge!Crossing(st))
       /\ link' = [link EXCEPT ![k] = r] /\ beside' = beside
  BY <1>1, <1>2, <1>5, <1>6, <1>8, <1>9 DEF Merge!DeleteLoser, Merge!Rest
<1>11. /\ account'[st] = a /\ account'[ls] = b
       /\ \A u \in People \ {st, ls} : account'[u] = account[u]
  BY <1>0, <1>3, <1>10 DEF MergeTyped
<1>12. /\ ledgerOf'[st] = ledgerOf[st] + ledgerOf[ls] /\ ledgerOf'[ls] = 0
       /\ \A u \in People \ {st, ls} : ledgerOf'[u] = ledgerOf[u]
       /\ ledgerOf' \in [People -> Nat]
  BY <1>0, <1>3, <1>10 DEF MergeTyped
<1>13. /\ link'[k] = r /\ \A j \in Requests : j # k => link'[j] = link[j]
       /\ link' \in [Requests -> LinkRecord]
  BY <1>0, <1>10 DEF MergeTyped
<1>14. PICK Passed : /\ DOMAIN Passed = owned
                     /\ \A w \in owned : Passed[w] = IF w \in x.taken THEN [w EXCEPT !.owner = st] ELSE w
  <2>1. PICK Passed : Passed = [w \in owned |-> IF w \in x.taken THEN [w EXCEPT !.owner = st] ELSE w]
    OBVIOUS
  <2>. QED
    BY <2>1
<1>15. ASSUME NEW w \in owned
       PROVE  /\ Passed[w] \in OwnedRecord /\ Passed[w].id = w.id
              /\ Passed[w].owner = IF w \in x.taken THEN st ELSE w.owner
              /\ w.owner \in People
  <2>1. w \in OwnedRecord
    BY <1>0 DEF MergeTyped
  <2>. QED
    BY <1>14, <2>1 DEF OwnedRecord
<1>16. owned' = {Passed[w] : w \in owned \ extra}
  BY <1>10, <1>14
<1>17. MergeTyped'
  <2>1. account' \in [People -> PersonRecord]
    BY <1>0, <1>10 DEF MergeTyped
  <2>2. owned' \subseteq OwnedRecord
    BY <1>15, <1>16
  <2>3. crossed' \in BOOLEAN /\ beside' \in BOOLEAN
    BY <1>0, <1>10 DEF MergeTyped
  <2>. QED
    BY <1>12, <1>13, <2>1, <2>2, <2>3 DEF MergeTyped
<1>18. ~crossed' => ~crossed /\ ~Merge!Crossing(st)
  BY <1>10
<1>19. PointsRight'
  <2>1. ASSUME ~crossed' PROVE \A u \in People : account'[u].points = ledgerOf'[u]
    <3>1. \A u \in People : account[u].points = ledgerOf[u]
      BY <1>18, <2>1 DEF MergeInductive, PointsRight
    <3>2. m = ledgerOf[st] + ledgerOf[ls]
      <4>1. ledgerOf[st] = x.survivorHad /\ ledgerOf[ls] = x.loserHad
        BY <1>3, <1>18, <2>1, <3>1
      <4>2. ledgerOf[st] \in Nat /\ ledgerOf[ls] \in Nat
        BY <1>0 DEF MergeTyped
      <4>3. m = IF x.loserHad = 0 THEN ledgerOf[st] ELSE x.survivorHad + x.loserHad
        BY <1>2, <1>5, <3>1 DEF Merge!MergedPoints
      <4>. QED
        BY <4>1, <4>2, <4>3
    <3>3. ASSUME NEW u \in People PROVE account'[u].points = ledgerOf'[u]
      BY <1>7, <1>11, <1>12, <3>1, <3>2
    <3>. QED
      BY <3>3
  <2>2. ASSUME NEW u \in People, ~account'[u].exists PROVE account'[u].points = 0
    BY <1>7, <1>11, <2>2 DEF MergeInductive, PointsRight
  <2>. QED
    BY <2>1, <2>2 DEF PointsRight
<1>20. RowsRight'
  <2>0. RowsRight
    BY DEF MergeInductive
  <2>1. ASSUME NEW w \in owned \ extra PROVE account'[Passed[w].owner].exists
    <3>1. CASE w \in x.taken
      BY <1>7, <1>11, <1>15, <3>1
    <3>2. CASE w \notin x.taken
      <4>1. w.owner # ls
        BY <1>9, <3>2 DEF Merge!RowsOf
      <4>2. Passed[w].owner = w.owner /\ w.owner \in People /\ account[w.owner].exists
        BY <1>15, <2>0, <3>2 DEF RowsRight
      <4>. QED
        BY <1>7, <1>11, <4>1, <4>2
    <3>. QED
      BY <3>1, <3>2
  <2>2. \A v, w \in owned \ extra : Passed[v].id = Passed[w].id => Passed[v] = Passed[w]
    BY <1>15, <2>0 DEF RowsRight
  <2>3. created' = {v.id : v \in owned'}
    <3>1. {v.id : v \in owned'} = {w.id : w \in owned \ extra}
      BY <1>15, <1>16
    <3>2. extra \subseteq owned
      BY <1>9 DEF Merge!RowsOf
    <3>3. created' = {w.id : w \in owned} \ {w.id : w \in extra}
      BY <1>10, <2>0 DEF RowsRight
    <3>4. \A v, w \in owned : v.id = w.id => v = w
      BY <2>0 DEF RowsRight
    <3>5. {w.id : w \in owned} \ {w.id : w \in extra} = {w.id : w \in owned \ extra}
      BY <3>2, <3>4
    <3>. QED
      BY <3>1, <3>3, <3>5
  <2>4. \A v \in owned' : \E w \in owned \ extra : v = Passed[w]
    BY <1>16
  <2>5. \A v \in owned' : account'[v.owner].exists
    BY <2>1, <2>4
  <2>6. \A v, w \in owned' : v.id = w.id => v = w
    BY <2>2, <2>4
  <2>. QED
    BY <2>3, <2>5, <2>6 DEF RowsRight
<1>21. ASSUME NEW j \in Requests PROVE LinkRight(link[j])'
  <2>1. CASE j = k
    BY <1>8, <1>13, <2>1 DEF LinkRight
  <2>2. CASE j # k
    <3>1. PICK y \in LinkRecord : y = link[j] /\ y = link'[j] /\ LinkRight(y) /\ Apart(x, y)
      BY <1>0, <1>1, <1>13, <2>2 DEF MergeInductive, MergeTyped
    <3>2. ASSUME y.pc = "delete" PROVE account'[y.email].exists /\ account'[y.other].exists
      <4>1. y.email \in People \ {st, ls} /\ y.other \in People \ {st, ls}
        BY <1>1, <1>3, <3>1, <3>2 DEF Apart, LinkRight, Both
      <4>. QED
        BY <1>11, <3>1, <3>2, <4>1 DEF LinkRight, BothThere
    <3>3. ASSUME y.pc \in {"move", "delete"}, ~crossed', account'[y.email].exists,
                 account'[y.other].exists
          PROVE  /\ account'[Merge!Survivor(y)].points = y.survivorHad
                 /\ account'[Merge!Loser(y)].points = y.loserHad
      <4>1. y.email # ls /\ y.other # ls
        BY <1>7, <1>11, <3>3
      <4>2. y.email # st /\ y.other # st
        <5>1. CASE y.pc = "move"
          BY <1>18, <3>1, <3>3, <5>1 DEF Merge!Crossing
        <5>2. CASE y.pc = "delete"
          BY <1>1, <1>3, <3>1, <5>2 DEF Apart, Both
        <5>. QED
          BY <3>3, <5>1, <5>2
      <4>3. y.email \in People /\ y.other \in People
        BY <3>1, <3>3 DEF LinkRight
      <4>4. account'[y.email] = account[y.email] /\ account'[y.other] = account[y.other]
        BY <1>11, <4>1, <4>2, <4>3
      <4>5. HadRight(y)
        BY <1>18, <3>1, <3>3, <4>4 DEF LinkRight, BothThere
      <4>. QED
        BY <4>4, <4>5 DEF HadRight, Merge!Survivor, Merge!Loser
    <3>. QED
      BY <3>1, <3>2, <3>3 DEF LinkRight, BothThere, HadRight, Merge!Survivor, Merge!Loser
  <2>. QED
    BY <2>1, <2>2
<1>22. ASSUME NEW i \in Requests, NEW j \in Requests, i # j PROVE Apart(link[i], link[j])'
  <2>1. PICK y, z : y = link'[i] /\ z = link'[j]
    OBVIOUS
  <2>2. Apart(y, z)
    BY <1>8, <1>13, <1>22, <2>1 DEF MergeInductive, Apart
  <2>. QED
    BY <2>1, <2>2 DEF Apart, Both
<1>23. ASSUME ~beside' PROVE OneEach' /\ NoOverlap'
  <2>1. OneEach /\ NoOverlap /\ AloneLinked(x)
    BY <1>1, <1>10, <1>23 DEF MergeInductive, NoOverlap
  <2>2. \A j \in Requests : link'[j].pc = "idle"
    BY <1>1, <1>8, <1>13, <2>1 DEF NoOverlap
  <2>3. ASSUME NEW u \in People \ {st, ls}, account[u].exists PROVE account[u].tg # x.tg
    BY <1>1, <1>3, <2>1, <2>3 DEF AloneLinked
  <2>4. OneEach'
    BY <1>7, <1>11, <2>1, <2>3 DEF OneEach
  <2>5. NoOverlap'
    BY <2>2 DEF NoOverlap, AloneLinked
  <2>. QED
    BY <2>4, <2>5
<1>. QED
  BY <1>17, <1>19, <1>20, <1>21, <1>22, <1>23 DEF MergeInductive

\* Every step of the merges keeps the invariant.
LEMMA MergeSteps == MergeSizes /\ MergeInductive /\ [Merge!Next]_mergeVars => MergeInductive'
<1>. SUFFICES ASSUME MergeSizes, MergeInductive, [Merge!Next]_mergeVars PROVE MergeInductive'
  OBVIOUS
<1>1. CASE UNCHANGED <<account, ledgerOf, owned, link, created, crossed, beside>>
  BY <1>1 DEF MergeInductive, MergeTyped, PointsRight, RowsRight, LinkRight, BothThere, HadRight,
     Merge!Survivor, Merge!Loser, Apart, Both, OneEach, NoOverlap, AloneLinked
<1>2. ASSUME NEW u \in EmailAccounts, Merge!StartLink(u) PROVE MergeInductive'
  BY <1>1, <1>2 DEF Merge!StartLink
<1>3. ASSUME NEW u \in Merge!Rows, NEW kind \in {"order", "session"}, NEW id \in 1..MaxRows,
             Merge!AddRow(u, kind, id)
      PROVE  MergeInductive'
  <2>1. u \in People /\ id \in Nat
    BY DEF Merge!Rows, People
  <2>. QED
    BY <1>3, <2>1, AddRowKeeps
<1>4. ASSUME NEW u \in Merge!Rows, Merge!UnlinkTelegram(u) \/ Merge!Earn(u)
      PROVE  MergeInductive'
  BY <1>4, UnlinkTelegramKeeps, EarnKeeps DEF Merge!Rows, People
<1>. QED
  BY <1>1, <1>2, <1>3, <1>4, RegisterKeeps, BeginLinkKeeps, BindKeeps, ReadRowsKeeps,
     MoveRowsKeeps, DeleteLoserKeeps, LinkGivenUp
  DEF Merge!Next, mergeVars

\* The invariant says that nothing is lost.
LEMMA MergeConcludes == MergeInductive => Merge!MergeKeeps
<1>. SUFFICES ASSUME MergeInductive PROVE Merge!MergeKeeps
  OBVIOUS
<1>1. Merge!MergedBalance
  BY DEF MergeInductive, PointsRight, Merge!MergedBalance, Merge!Rows, People
<1>2. Merge!RowsFollow
  BY DEF MergeInductive, RowsRight, Merge!RowsFollow, Merge!Exists
<1>3. Merge!OneTelegramApart
  BY DEF MergeInductive, OneEach, Merge!OneTelegramApart, Merge!Holders, Merge!Exists,
     Merge!Rows, People
<1>. QED
  BY <1>1, <1>2, <1>3 DEF Merge!MergeKeeps, Merge!AccountsWhole

\* A behaviour of all machines is one of the merges.
LEMMA MergeSpec == Spec => Merge!Spec
<1>1. Init => Merge!Init
  BY DEF Init
<1>2. [Next]_allVars => [Merge!Next]_mergeVars
  BY DEF Next, LinksNext, TransferNext, MergeNext, AccessNext, StoreNext, DrawNext, FreeNext,
     CredentialsNext, CheckoutNext, RatesNext, GuardsNext, ScreensNext, CleanNext, ImportNext,
     PageNext, IdentityNext, allVars, accountSide, mergeVars
<1>. QED
  BY <1>1, <1>2, PTL DEF Spec, Merge!Spec, Merge!mergeVars, mergeVars

\* For any number of accounts, Telegram ids and operations under way: unless points change
\* between a merge's read and its writes every balance is the sum of its ledger, the rows
\* that survive a merge belong to an account that exists and none is lost that was there
\* before it wrote, and links made one after another leave a Telegram id with one account
\* (account_linking/merge.py).
THEOREM MergesAreSound == Spec => []MergeKeeps
<1>1. Merge!Init => MergeInductive
  BY MergeBegins, MergeConstants
<1>2. MergeInductive /\ [Merge!Next]_mergeVars => MergeInductive'
  BY MergeSteps, MergeConstants
<1>3. MergeInductive => Merge!MergeKeeps
  BY MergeConcludes
<1>. QED
  BY <1>1, <1>2, <1>3, MergeSpec, PTL DEF Merge!Spec, Merge!mergeVars, mergeVars, MergeKeeps

-----------------------------------------------------------------------------
(***************************************************************************)
(* Sign-in.  A family that nothing overlapped in has one token that can be *)
(* rotated, and one request that rotates it; who has marked a handoff used *)
(* is the only one to issue its session; and who looks at a code alone     *)
(* finds it as he has read it.                                             *)
(***************************************************************************)

\* What is known of a sequence.
LEMMA SeqIs ==
    ASSUME NEW S, NEW s \in Seq(S)
    PROVE  /\ Len(s) \in Nat /\ DOMAIN s = 1..Len(s) /\ s \in [1..Len(s) -> S]
           /\ \A i \in 1..Len(s) : s[i] \in S
OBVIOUS

\* What makes a sequence.
LEMMA SeqOf ==
    ASSUME NEW S, NEW n \in Nat, NEW f \in [1..n -> S]
    PROVE  f \in Seq(S) /\ Len(f) = n
<1>1. f \in Seq(S)
  OBVIOUS
<1>2. DOMAIN f = 1..Len(f) /\ Len(f) \in Nat
  BY <1>1
<1>3. DOMAIN f = 1..n
  OBVIOUS
<1>. QED
  BY <1>1, <1>2, <1>3

\* A sequence with one more element.
LEMMA AppendIs ==
    ASSUME NEW S, NEW s \in Seq(S), NEW e \in S
    PROVE  /\ Append(s, e) \in Seq(S) /\ Len(Append(s, e)) = Len(s) + 1
           /\ \A i \in 1..Len(s) : Append(s, e)[i] = s[i]
           /\ Append(s, e)[Len(s) + 1] = e
OBVIOUS

TokenRecord == [family : Nat, state : {"live", "revoked", "replaced"}]
CodeRecord ==
    [purpose : {"app_login", "confirm"}, state : {"new", "superseded", "used", "exchanged"},
     attempts : Nat]
HandlerRecord ==
    [pc : {"idle", "rotate", "app_login", "confirm", "consume", "issue", "publish", "right",
           "wrong", "apply"},
     token : Nat, code : Nat]

HandlersTyped == handler \in [Requests -> HandlerRecord]

Handing(x) == x.pc \in {"issue", "publish"}
Confirming(x) == x.pc \in {"right", "wrong", "apply"}
Using(x) == x.pc = "consume" \/ Handing(x) \/ Confirming(x)

\* Families are named after their first token; one that nothing overlapped in has one live
\* token at most, and none after it has ended.
TokensRight ==
    /\ \A t \in 1..Len(token) : token[t].family \in 1..t
    /\ \A t, u \in 1..Len(token) :
         /\ token[t].state = "live" /\ token[u].state = "live"
         /\ token[t].family = token[u].family /\ token[t].family \notin tangled
         => t = u
    /\ \A t \in 1..Len(token) :
         token[t].state = "live" /\ token[t].family \notin tangled => token[t].family \notin ended

\* A rotation has its family to itself.
RotatesRight(x) ==
    x.pc = "rotate" =>
        /\ x.token \in 1..Len(token)
        /\ token[x.token].family \notin tangled => token[x.token].state = "live"
RotatesApart(x, y) ==
    x.pc = "rotate" /\ y.pc = "rotate" =>
        token[x.token].family # token[y.token].family \/ token[x.token].family \in tangled

TokenSide ==
    /\ token \in Seq(TokenRecord)
    /\ ended \subseteq 1..Len(token) /\ tangled \subseteq 1..Len(token)
    /\ TokensRight
    /\ \A h \in Requests : RotatesRight(handler[h])
    /\ \A g, h \in Requests : g # h => RotatesApart(handler[g], handler[h])

\* What the state c of code k says about its use.
CodeRight(k, c) ==
    /\ paired[k] <= 1
    /\ paired[k] > 0 => c.state # "new"
    /\ c.state = "exchanged" => paired[k] = 1
    /\ k \notin crowded =>
         /\ applied[k] <= 1 /\ c.attempts <= MaxAttempts
         /\ applied[k] > 0 => c.state # "new" /\ c.attempts < MaxAttempts

\* Who uses code c.
UseRight(x, c) ==
    /\ Handing(x) => c.state = "used" /\ paired[x.code] = IF x.pc = "issue" THEN 0 ELSE 1
    /\ Confirming(x) /\ x.code \notin crowded =>
         /\ c.attempts < MaxAttempts /\ applied[x.code] = 0
         /\ x.pc = "apply" => c.state # "new"
UsesRight(x) == Using(x) => x.code \in 1..Len(code) /\ UseRight(x, code[x.code])
UsesApart(x, y) ==
    /\ Handing(x) /\ Handing(y) => x.code # y.code
    /\ Confirming(x) /\ Confirming(y) => x.code # y.code \/ x.code \in crowded

CodeSide ==
    /\ code \in Seq(CodeRecord) /\ Len(code) <= MaxCodes
    /\ paired \in [1..MaxCodes -> Nat] /\ applied \in [1..MaxCodes -> Nat]
    /\ \A k \in 1..Len(code) : CodeRight(k, code[k])
    /\ \A k \in 1..MaxCodes : k > Len(code) => paired[k] = 0 /\ applied[k] = 0
    /\ \A h \in Requests : UsesRight(handler[h])
    /\ \A g, h \in Requests : g # h => UsesApart(handler[g], handler[h])

AccessInductive == HandlersTyped /\ TokenSide /\ CodeSide

\* A request that is over.
LEMMA WaitingIs ==
    /\ Access!Waiting \in HandlerRecord
    /\ Access!Waiting.pc = "idle" /\ Access!Waiting.token = 0 /\ Access!Waiting.code = 0
BY DEF Access!Waiting, HandlerRecord

\* Nothing was issued.
LEMMA AccessBegins == AccessSizes /\ Access!Init => AccessInductive
<1>. SUFFICES ASSUME AccessSizes, Access!Init PROVE AccessInductive
  OBVIOUS
<1>1. PICK n \in HandlerRecord : n = Access!Waiting /\ n.pc = "idle"
  BY WaitingIs
<1>2. handler = [h \in Requests |-> n] /\ \A h \in Requests : handler[h].pc = "idle"
  BY <1>1 DEF Access!Init
<1>3. token = <<>> /\ code = <<>> /\ ended = {} /\ tangled = {}
  BY DEF Access!Init
<1>4. token \in Seq(TokenRecord) /\ Len(token) = 0 /\ code \in Seq(CodeRecord) /\ Len(code) = 0
  BY <1>3
<1>5. HandlersTyped
  BY <1>2 DEF HandlersTyped
<1>6. TokenSide
  BY <1>2, <1>3, <1>4 DEF TokenSide, TokensRight, RotatesRight, RotatesApart
<1>7. /\ paired \in [1..MaxCodes -> Nat] /\ applied \in [1..MaxCodes -> Nat]
      /\ \A k \in 1..MaxCodes : paired[k] = 0 /\ applied[k] = 0
  BY DEF Access!Init
<1>8. Len(code) <= MaxCodes
  BY <1>4 DEF AccessSizes
<1>9. \A h \in Requests : ~Using(handler[h])
  BY <1>2 DEF Using, Handing, Confirming
<1>10. CodeSide
  BY <1>4, <1>7, <1>8, <1>9 DEF CodeSide, UsesRight, UsesApart, Using
<1>. QED
  BY <1>5, <1>6, <1>10 DEF AccessInductive

-----------------------------------------------------------------------------

\* Requests go on, and none of them begins to rotate.
NoneRotates == \A h \in Requests : handler'[h] = handler[h] \/ handler'[h].pc # "rotate"

\* The tokens stay as they are.
LEMMA TokensStay ==
    ASSUME TokenSide, NoneRotates, UNCHANGED <<token, ended, tangled>>
    PROVE  TokenSide'
<1>1. ASSUME NEW h \in Requests PROVE RotatesRight(handler[h])'
  <2>1. PICK x : x = handler'[h]
    OBVIOUS
  <2>2. RotatesRight(x)
    BY <2>1 DEF TokenSide, NoneRotates, RotatesRight
  <2>. QED
    BY <2>1, <2>2 DEF RotatesRight
<1>2. ASSUME NEW g \in Requests, NEW h \in Requests, g # h
      PROVE  RotatesApart(handler[g], handler[h])'
  <2>1. PICK x, y : x = handler'[g] /\ y = handler'[h]
    OBVIOUS
  <2>2. RotatesApart(x, y)
    BY <1>2, <2>1 DEF TokenSide, NoneRotates, RotatesApart
  <2>. QED
    BY <2>1, <2>2 DEF RotatesApart
<1>. QED
  BY <1>1, <1>2 DEF TokenSide, TokensRight

\* A new family.
LEMMA IssuePairKeeps ==
    ASSUME TokenSide, NoneRotates, Access!IssuePair, UNCHANGED <<ended, tangled>>
    PROVE  TokenSide'
<1>1. PICK len \in Nat : len = Len(token) /\ \A t \in 1..len : token[t] \in TokenRecord
  BY SeqIs DEF TokenSide
<1>2. PICK e \in TokenRecord : e = [family |-> len + 1, state |-> "live"]
  <2>1. len + 1 \in Nat
    OBVIOUS
  <2>. QED
    BY <2>1 DEF TokenRecord
<1>3. e.family = len + 1 /\ e.state = "live"
  BY <1>2
<1>4. token' = Append(token, e)
  BY <1>1, <1>2 DEF Access!IssuePair, Access!WithToken
<1>5. /\ token' \in Seq(TokenRecord) /\ Len(token') = len + 1
      /\ \A t \in 1..len : token'[t] = token[t]
      /\ token'[len + 1] = e
  BY <1>1, <1>4, AppendIs DEF TokenSide
<1>6. ended' \subseteq 1..Len(token') /\ tangled' \subseteq 1..Len(token')
  BY <1>1, <1>5 DEF TokenSide
<1>7. \A t \in 1..len : token[t].family \in 1..len
  <2>1. \A t \in 1..len : token[t].family \in 1..t
    BY <1>1 DEF TokenSide, TokensRight
  <2>. QED
    BY <2>1
<1>8. len + 1 \notin ended /\ len + 1 \notin tangled
  BY <1>1 DEF TokenSide
<1>9. TokensRight'
  <2>1. ASSUME NEW t \in 1..Len(token') PROVE token'[t].family \in 1..t
    BY <1>1, <1>3, <1>5 DEF TokenSide, TokensRight
  <2>2. ASSUME NEW t \in 1..Len(token'), NEW u \in 1..Len(token'),
               token'[t].state = "live", token'[u].state = "live",
               token'[t].family = token'[u].family, token'[t].family \notin tangled
        PROVE  t = u
    <3>1. (t \in 1..len \/ t = len + 1) /\ (u \in 1..len \/ u = len + 1)
      BY <1>5
    <3>2. (t \in 1..len /\ u \in 1..len) \/ t = u
      BY <1>3, <1>5, <1>7, <2>2, <3>1
    <3>. QED
      BY <1>1, <1>5, <2>2, <3>2 DEF TokenSide, TokensRight
  <2>3. ASSUME NEW t \in 1..Len(token'), token'[t].state = "live",
               token'[t].family \notin tangled
        PROVE  token'[t].family \notin ended
    <3>1. CASE t \in 1..len
      BY <1>1, <1>5, <2>3, <3>1 DEF TokenSide, TokensRight
    <3>2. CASE t = len + 1
      BY <1>3, <1>5, <1>8, <3>2
    <3>. QED
      BY <1>5, <3>1, <3>2
  <2>. QED
    BY <2>1, <2>2, <2>3 DEF TokensRight
<1>10. ASSUME NEW h \in Requests PROVE RotatesRight(handler[h])'
  <2>1. PICK x : x = handler'[h] /\ RotatesRight(x)
    BY DEF TokenSide, NoneRotates, RotatesRight
  <2>2. x.pc = "rotate" => x.token \in 1..len /\ x.token \in 1..Len(token')
    BY <1>1, <1>5, <2>1 DEF RotatesRight
  <2>. QED
    BY <1>5, <2>1, <2>2 DEF RotatesRight
<1>11. ASSUME NEW g \in Requests, NEW h \in Requests, g # h
       PROVE  RotatesApart(handler[g], handler[h])'
  <2>1. PICK x, y : x = handler'[g] /\ y = handler'[h] /\ RotatesRight(x) /\ RotatesRight(y)
    BY DEF TokenSide, NoneRotates, RotatesRight
  <2>2. RotatesApart(x, y)
    BY <1>11, <2>1 DEF TokenSide, NoneRotates, RotatesApart
  <2>3. x.pc = "rotate" /\ y.pc = "rotate" => x.token \in 1..len /\ y.token \in 1..len
    BY <1>1, <2>1 DEF RotatesRight
  <2>. QED
    BY <1>5, <2>1, <2>2, <2>3 DEF RotatesApart
<1>. QED
  BY <1>5, <1>6, <1>9, <1>10, <1>11 DEF TokenSide

\* Families end; where a rotation is under way the family is tangled from now on.
LEMMA RevokeKeeps ==
    ASSUME TokenSide, NoneRotates, NEW F \in SUBSET (1..Len(token)), Access!Revoke(F)
    PROVE  TokenSide'
<1>1. PICK len \in Nat : len = Len(token) /\ DOMAIN token = 1..len
                         /\ \A t \in 1..len : token[t] \in TokenRecord
  BY SeqIs DEF TokenSide
<1>2. token' = [t \in 1..len |-> IF token[t].family \in F /\ token[t].state = "live"
                                 THEN [token[t] EXCEPT !.state = "revoked"] ELSE token[t]]
  BY <1>1 DEF Access!Revoke, Access!Revoked, Access!Tokens
<1>3. ASSUME NEW t \in 1..len
      PROVE  /\ token'[t] \in TokenRecord /\ token'[t].family = token[t].family
             /\ token'[t].state = "live" <=> token[t].state = "live" /\ token[t].family \notin F
  <2>1. token[t] \in TokenRecord
    BY <1>1
  <2>. QED
    BY <1>2, <2>1 DEF TokenRecord
<1>4. token' \in [1..len -> TokenRecord]
  BY <1>2, <1>3
<1>5. token' \in Seq(TokenRecord) /\ Len(token') = len
  BY <1>4, SeqOf
<1>6. /\ ended' = ended \cup F
      /\ tangled' = tangled \cup {f \in F : Access!Rotating(f) # {}}
  BY DEF Access!Revoke
<1>7. ended' \subseteq 1..Len(token') /\ tangled' \subseteq 1..Len(token') /\ tangled \subseteq tangled'
  BY <1>1, <1>5, <1>6 DEF TokenSide
<1>8. TokensRight'
  BY <1>1, <1>3, <1>5, <1>6, <1>7 DEF TokenSide, TokensRight
<1>9. ASSUME NEW h \in Requests PROVE RotatesRight(handler[h])'
  <2>1. PICK x : x = handler'[h]
    OBVIOUS
  <2>2. CASE x.pc = "rotate"
    <3>1. x = handler[h] /\ x.token \in 1..len /\ RotatesRight(x)
      BY <1>1, <2>1, <2>2 DEF TokenSide, NoneRotates, RotatesRight
    <3>2. token[x.token].family \in F => token[x.token].family \in tangled'
      BY <1>6, <2>2, <3>1 DEF Access!Rotating
    <3>. QED
      BY <1>3, <1>5, <1>7, <2>1, <2>2, <3>1, <3>2 DEF RotatesRight
  <2>. QED
    BY <2>1, <2>2 DEF RotatesRight
<1>10. ASSUME NEW g \in Requests, NEW h \in Requests, g # h
       PROVE  RotatesApart(handler[g], handler[h])'
  <2>1. PICK x, y : x = handler'[g] /\ y = handler'[h] /\ RotatesRight(x) /\ RotatesRight(y)
    BY DEF TokenSide, NoneRotates, RotatesRight
  <2>2. RotatesApart(x, y)
    BY <1>10, <2>1 DEF TokenSide, NoneRotates, RotatesApart
  <2>3. x.pc = "rotate" /\ y.pc = "rotate" => x.token \in 1..len /\ y.token \in 1..len
    BY <1>1, <2>1 DEF RotatesRight
  <2>. QED
    BY <1>3, <1>7, <2>1, <2>2, <2>3 DEF RotatesApart
<1>. QED
  BY <1>5, <1>7, <1>8, <1>9, <1>10 DEF TokenSide

\* A request has found its token live.
LEMMA BeginRefreshKeeps ==
    ASSUME HandlersTyped, TokenSide, NEW h \in Requests, NEW t \in DOMAIN token,
           Access!BeginRefresh(h, t)
    PROVE  TokenSide'
<1>1. PICK len \in Nat : len = Len(token) /\ DOMAIN token = 1..len
  BY SeqIs DEF TokenSide
<1>2. PICK n \in HandlerRecord : n = [Access!Waiting EXCEPT !.pc = "rotate", !.token = t]
  <2>1. t \in Nat
    BY <1>1
  <2>. QED
    BY <2>1, WaitingIs DEF HandlerRecord
<1>3. n.pc = "rotate" /\ n.token = t
  BY <1>2, WaitingIs DEF HandlerRecord
<1>4. PICK f : f = token[t].family
  OBVIOUS
<1>5. /\ handler' = [handler EXCEPT ![h] = n] /\ handler[h].pc = "idle"
      /\ token[t].state = "live" /\ t \in 1..Len(token)
      /\ tangled' = IF Access!Rotating(f) # {} THEN tangled \cup {f} ELSE tangled
      /\ UNCHANGED <<token, ended>>
  BY <1>1, <1>2, <1>4 DEF Access!BeginRefresh
<1>6. handler'[h] = n /\ \A g \in Requests : g # h => handler'[g] = handler[g]
  BY <1>5 DEF HandlersTyped
<1>7. tangled \subseteq tangled' /\ tangled' \subseteq 1..Len(token)
  <2>1. f \in 1..t /\ 1..t \subseteq 1..Len(token)
    BY <1>1, <1>4, <1>5 DEF TokenSide, TokensRight
  <2>. QED
    BY <1>5, <2>1 DEF TokenSide
<1>8. TokensRight'
  BY <1>5, <1>7 DEF TokenSide, TokensRight
<1>9. ASSUME NEW g \in Requests PROVE RotatesRight(handler[g])'
  <2>1. PICK x : x = handler'[g] /\ RotatesRight(x)
    BY <1>3, <1>5, <1>6 DEF TokenSide, RotatesRight
  <2>. QED
    BY <1>5, <1>7, <2>1 DEF RotatesRight
<1>10. ASSUME NEW g \in Requests, g # h, handler[g].pc = "rotate",
              token[handler[g].token].family = f
       PROVE  f \in tangled'
  BY <1>5, <1>10 DEF Access!Rotating
<1>11. ASSUME NEW i \in Requests, NEW j \in Requests, i # j
       PROVE  RotatesApart(handler[i], handler[j])'
  <2>1. PICK x, y : x = handler'[i] /\ y = handler'[j]
    OBVIOUS
  <2>2. ASSUME x.pc = "rotate", y.pc = "rotate",
               token[x.token].family = token[y.token].family
        PROVE  token[x.token].family \in tangled'
    <3>1. CASE i = h
      BY <1>3, <1>4, <1>6, <1>10, <1>11, <2>1, <2>2, <3>1
    <3>2. CASE j = h
      BY <1>3, <1>4, <1>6, <1>10, <1>11, <2>1, <2>2, <3>2
    <3>3. CASE i # h /\ j # h
      <4>1. RotatesApart(x, y)
        BY <1>6, <1>11, <2>1, <3>3 DEF TokenSide
      <4>. QED
        BY <1>7, <2>2, <4>1 DEF RotatesApart
    <3>. QED
      BY <3>1, <3>2, <3>3
  <2>. QED
    BY <1>5, <2>1, <2>2 DEF RotatesApart
<1>. QED
  BY <1>5, <1>7, <1>8, <1>9, <1>11 DEF TokenSide

\* The old token is replaced by a new one of its family.
LEMMA RotateKeeps ==
    ASSUME HandlersTyped, TokenSide, NEW h \in Requests, Access!Rotate(h)
    PROVE  TokenSide'
<1>1. PICK len \in Nat : len = Len(token) /\ DOMAIN token = 1..len
                         /\ \A i \in 1..len : token[i] \in TokenRecord
  BY SeqIs DEF TokenSide
<1>2. PICK x \in HandlerRecord : x = handler[h] /\ RotatesRight(x) /\ x.pc = "rotate"
  BY DEF HandlersTyped, TokenSide, Access!Rotate
<1>3. PICK t \in 1..len : t = x.token
  BY <1>1, <1>2 DEF RotatesRight
<1>4. PICK f \in Nat : f = token[t].family /\ token[t] \in TokenRecord /\ f \in 1..t
  BY <1>1 DEF TokenRecord, TokenSide, TokensRight
<1>5. PICK old \in TokenRecord : old = [token[t] EXCEPT !.state = "replaced"]
  BY <1>4 DEF TokenRecord
<1>6. old.family = f /\ old.state = "replaced"
  BY <1>4, <1>5 DEF TokenRecord
<1>7. PICK e \in TokenRecord : e = [family |-> f, state |-> "live"]
  BY DEF TokenRecord
<1>8. e.family = f /\ e.state = "live"
  BY <1>7
<1>9. PICK mid : mid = [token EXCEPT ![t] = old]
  OBVIOUS
<1>10. /\ token' = Append(mid, e) /\ handler' = [handler EXCEPT ![h] = Access!Waiting]
       /\ UNCHANGED <<ended, tangled>>
  BY <1>2, <1>3, <1>4, <1>5, <1>7, <1>9
  DEF Access!Rotate, Access!WithToken, Access!Replaced, Access!Returns
<1>11. mid \in [1..len -> TokenRecord] /\ mid[t] = old /\ \A i \in 1..len : i # t => mid[i] = token[i]
  <2>1. token \in [1..len -> TokenRecord]
    BY <1>1, SeqIs DEF TokenSide
  <2>. QED
    BY <1>9, <2>1
<1>12. mid \in Seq(TokenRecord) /\ Len(mid) = len
  BY <1>11, SeqOf
<1>13. /\ token' \in Seq(TokenRecord) /\ Len(token') = len + 1 /\ token'[t] = old
       /\ \A i \in 1..len : i # t => token'[i] = token[i]
       /\ token'[len + 1] = e
  BY <1>10, <1>11, <1>12, AppendIs
<1>14. ended' \subseteq 1..Len(token') /\ tangled' \subseteq 1..Len(token')
  BY <1>1, <1>10, <1>13 DEF TokenSide
<1>15. \A i \in 1..len : token'[i].family = token[i].family
  BY <1>4, <1>6, <1>13
<1>16. ASSUME f \notin tangled
       PROVE  /\ f \notin ended
              /\ \A i \in 1..len : token[i].family = f /\ token[i].state = "live" => i = t
  BY <1>1, <1>2, <1>3, <1>4, <1>16 DEF RotatesRight, TokenSide, TokensRight
<1>17. TokensRight'
  <2>1. ASSUME NEW i \in 1..Len(token') PROVE token'[i].family \in 1..i
    <3>1. CASE i \in 1..len
      BY <1>1, <1>15, <3>1 DEF TokenSide, TokensRight
    <3>2. CASE i = len + 1
      BY <1>4, <1>8, <1>13, <3>2
    <3>. QED
      BY <1>13, <3>1, <3>2
  <2>2. ASSUME NEW i \in 1..len, token'[i].state = "live", token'[i].family \notin tangled
        PROVE  /\ token[i].state = "live" /\ i # t /\ token[i].family \notin ended
               /\ token[i].family # f
    <3>1. i # t /\ token[i].state = "live"
      BY <1>6, <1>13, <2>2
    <3>. QED
      BY <1>1, <1>15, <1>16, <2>2, <3>1 DEF TokenSide, TokensRight
  <2>3. ASSUME NEW i \in 1..Len(token'), NEW u \in 1..Len(token'),
               token'[i].state = "live", token'[u].state = "live",
               token'[i].family = token'[u].family, token'[i].family \notin tangled
        PROVE  i = u
    <3>1. (i \in 1..len \/ i = len + 1) /\ (u \in 1..len \/ u = len + 1)
      BY <1>13
    <3>2. CASE i \in 1..len /\ u \in 1..len
      BY <1>1, <1>15, <2>2, <2>3, <3>2 DEF TokenSide, TokensRight
    <3>3. CASE i = len + 1 /\ u \in 1..len
      BY <1>8, <1>13, <1>15, <2>2, <2>3, <3>3
    <3>4. CASE i \in 1..len /\ u = len + 1
      BY <1>8, <1>13, <1>15, <2>2, <2>3, <3>4
    <3>. QED
      BY <3>1, <3>2, <3>3, <3>4
  <2>4. ASSUME NEW i \in 1..Len(token'), token'[i].state = "live",
               token'[i].family \notin tangled
        PROVE  token'[i].family \notin ended
    <3>1. CASE i \in 1..len
      BY <1>15, <2>2, <2>4, <3>1
    <3>2. CASE i = len + 1
      BY <1>8, <1>13, <1>16, <2>4, <3>2
    <3>. QED
      BY <1>13, <3>1, <3>2
  <2>. QED
    BY <1>10, <2>1, <2>3, <2>4 DEF TokensRight
<1>18. handler'[h].pc = "idle" /\ \A g \in Requests : g # h => handler'[g] = handler[g]
  BY <1>10, WaitingIs DEF HandlersTyped
<1>19. ASSUME NEW g \in Requests PROVE RotatesRight(handler[g])'
  <2>1. PICK y : y = handler'[g]
    OBVIOUS
  <2>2. CASE y.pc = "rotate"
    <3>1. g # h /\ y = handler[g] /\ RotatesRight(y) /\ RotatesApart(x, y)
      BY <1>2, <1>18, <2>1, <2>2 DEF TokenSide
    <3>2. y.token \in 1..len /\ y.token \in 1..Len(token')
      BY <1>1, <1>13, <2>2, <3>1 DEF RotatesRight
    <3>3. token[y.token].family \notin tangled =>
            y.token # t /\ token'[y.token].state = "live"
      BY <1>2, <1>3, <1>13, <2>2, <3>1, <3>2 DEF RotatesRight, RotatesApart
    <3>. QED
      BY <1>10, <1>15, <2>1, <2>2, <3>2, <3>3 DEF RotatesRight
  <2>. QED
    BY <2>1, <2>2 DEF RotatesRight
<1>20. ASSUME NEW i \in Requests, NEW j \in Requests, i # j
       PROVE  RotatesApart(handler[i], handler[j])'
  <2>1. PICK y, z : y = handler'[i] /\ z = handler'[j]
    OBVIOUS
  <2>2. CASE y.pc = "rotate" /\ z.pc = "rotate"
    <3>1. y = handler[i] /\ z = handler[j] /\ RotatesApart(y, z) /\ RotatesRight(y) /\ RotatesRight(z)
      BY <1>18, <1>20, <2>1, <2>2 DEF TokenSide
    <3>2. y.token \in 1..len /\ z.token \in 1..len
      BY <1>1, <2>2, <3>1 DEF RotatesRight
    <3>3. /\ token'[y.token].family = token[y.token].family
          /\ token'[z.token].family = token[z.token].family /\ tangled' = tangled
      BY <1>10, <1>15, <3>2
    <3>. QED
      BY <2>1, <2>2, <3>1, <3>3 DEF RotatesApart
  <2>. QED
    BY <2>1, <2>2 DEF RotatesApart
<1>. QED
  BY <1>13, <1>14, <1>17, <1>19, <1>20 DEF TokenSide

-----------------------------------------------------------------------------

\* One request goes on, and the codes stay.
LEMMA UserBecomes ==
    ASSUME HandlersTyped, CodeSide, NEW h \in Requests, NEW n \in HandlerRecord,
           handler' = [handler EXCEPT ![h] = n], code' = code, crowded \subseteq crowded',
           paired' \in [1..MaxCodes -> Nat], applied' \in [1..MaxCodes -> Nat],
           (\A k \in 1..Len(code) : CodeRight(k, code[k]))',
           \A k \in 1..MaxCodes : k > Len(code) => paired'[k] = 0 /\ applied'[k] = 0,
           UsesRight(n)',
           \A j \in Requests : j # h /\ Using(handler[j]) =>
             /\ Handing(handler[j]) => paired'[handler[j].code] = paired[handler[j].code]
             /\ Confirming(handler[j]) /\ handler[j].code \notin crowded' =>
                  applied'[handler[j].code] = applied[handler[j].code]
             /\ Handing(handler[j]) /\ Handing(n) => handler[j].code # n.code
             /\ Confirming(handler[j]) /\ Confirming(n) =>
                  handler[j].code # n.code \/ n.code \in crowded'
    PROVE  CodeSide'
<1>1. handler'[h] = n /\ \A j \in Requests : j # h => handler'[j] = handler[j]
  BY DEF HandlersTyped
<1>2. ASSUME NEW j \in Requests PROVE UsesRight(handler[j])'
  <2>1. CASE j = h
    <3>1. PICK y : y = handler'[j] /\ y = n
      BY <1>1, <2>1
    <3>. QED
      BY <3>1 DEF UsesRight, UseRight
  <2>2. CASE j # h
    <3>1. PICK y : y = handler'[j] /\ y = handler[j] /\ UsesRight(y)
      BY <1>1, <2>2 DEF CodeSide
    <3>2. Handing(y) => paired'[y.code] = paired[y.code]
      BY <2>2, <3>1 DEF Using
    <3>3. Confirming(y) /\ y.code \notin crowded' => applied'[y.code] = applied[y.code]
      BY <2>2, <3>1 DEF Using
    <3>. QED
      BY <3>1, <3>2, <3>3 DEF UsesRight, UseRight
  <2>. QED
    BY <2>1, <2>2
<1>3. ASSUME NEW i \in Requests, NEW j \in Requests, i # j
      PROVE  UsesApart(handler[i], handler[j])'
  <2>1. PICK y, z : y = handler'[i] /\ z = handler'[j]
    OBVIOUS
  <2>2. /\ Handing(y) /\ Handing(z) => y.code # z.code
        /\ Confirming(y) /\ Confirming(z) => y.code # z.code \/ y.code \in crowded'
    <3>1. CASE i = h
      BY <1>1, <1>3, <2>1, <3>1 DEF Using
    <3>2. CASE j = h
      BY <1>1, <1>3, <2>1, <3>2 DEF Using
    <3>3. CASE i # h /\ j # h
      BY <1>1, <1>3, <2>1, <3>3 DEF CodeSide, UsesApart
    <3>. QED
      BY <3>1, <3>2, <3>3
  <2>. QED
    BY <2>1, <2>2 DEF UsesApart, Handing, Confirming
<1>. QED
  BY <1>2, <1>3 DEF CodeSide

\* A request that uses no code goes on, or ends.
LEMMA CodesStay ==
    ASSUME HandlersTyped, CodeSide, NEW h \in Requests, NEW n \in HandlerRecord, ~Using(n),
           handler' = [handler EXCEPT ![h] = n], UNCHANGED <<code, paired, applied, crowded>>
    PROVE  CodeSide'
<1>1. (\A k \in 1..Len(code) : CodeRight(k, code[k]))'
  BY DEF CodeSide, CodeRight
<1>2. UsesRight(n)'
  BY DEF UsesRight, Using, Handing, Confirming
<1>3. ~Handing(n) /\ ~Confirming(n)
  BY DEF Using
<1>4. /\ paired' \in [1..MaxCodes -> Nat] /\ applied' \in [1..MaxCodes -> Nat]
      /\ \A k \in 1..MaxCodes : k > Len(code) => paired'[k] = 0 /\ applied'[k] = 0
  BY DEF CodeSide
<1>. QED
  BY <1>1, <1>2, <1>3, <1>4, UserBecomes

\* A code takes another state, or another number of attempts, together with the request
\* that does it; n is what becomes of that request.
MayChange(h, n, k, c) ==
    /\ CodeRight(k, c)
    /\ Using(n) => n.code = k /\ UseRight(n, c)
    /\ \A j \in Requests : j # h /\ handler[j].code = k =>
         /\ Handing(handler[j]) => c.state = "used" /\ ~Handing(n)
         /\ Confirming(handler[j]) /\ k \notin crowded =>
              /\ ~Confirming(n) /\ c.attempts < MaxAttempts
              /\ handler[j].pc = "apply" => c.state # "new"

LEMMA CodeBecomes ==
    ASSUME HandlersTyped, CodeSide, NEW h \in Requests, NEW n \in HandlerRecord,
           NEW k \in 1..Len(code), NEW c \in CodeRecord,
           handler' = [handler EXCEPT ![h] = n], code' = [code EXCEPT ![k] = c],
           UNCHANGED <<paired, applied, crowded>>, MayChange(h, n, k, c)
    PROVE  CodeSide'
<1>1. handler'[h] = n /\ \A j \in Requests : j # h => handler'[j] = handler[j]
  BY DEF HandlersTyped
<1>2. PICK len \in Nat : len = Len(code) /\ code \in [1..len -> CodeRecord]
  BY SeqIs DEF CodeSide
<1>3. /\ code' \in [1..len -> CodeRecord] /\ code'[k] = c
      /\ \A i \in 1..len : i # k => code'[i] = code[i]
  BY <1>2
<1>4. code' \in Seq(CodeRecord) /\ Len(code') = len
  BY <1>3, SeqOf
<1>5. ASSUME NEW i \in 1..len PROVE CodeRight(i, code[i])'
  <2>1. PICK d : d = code'[i] /\ CodeRight(i, d)
    BY <1>2, <1>3 DEF CodeSide, MayChange
  <2>. QED
    BY <2>1 DEF CodeRight
<1>6. ASSUME NEW j \in Requests PROVE UsesRight(handler[j])'
  <2>1. PICK y : y = handler'[j]
    OBVIOUS
  <2>2. ASSUME Using(y) PROVE y.code \in 1..len /\ UseRight(y, code'[y.code])
    <3>1. CASE j = h
      BY <1>1, <1>2, <1>3, <2>1, <2>2, <3>1 DEF MayChange
    <3>2. CASE j # h
      <4>1. y = handler[j] /\ y.code \in 1..len /\ UseRight(y, code[y.code])
        BY <1>1, <1>2, <2>1, <2>2, <3>2 DEF CodeSide, UsesRight
      <4>2. CASE y.code # k
        BY <1>3, <4>1, <4>2
      <4>3. CASE y.code = k
        <5>1. /\ Handing(y) => c.state = "used"
              /\ Confirming(y) /\ k \notin crowded =>
                   c.attempts < MaxAttempts /\ (y.pc = "apply" => c.state # "new")
          BY <3>2, <4>1, <4>3 DEF MayChange
        <5>. QED
          BY <1>3, <4>1, <4>3, <5>1 DEF UseRight
      <4>. QED
        BY <4>2, <4>3
    <3>. QED
      BY <3>1, <3>2
  <2>. QED
    BY <1>4, <2>1, <2>2 DEF UsesRight, UseRight, Using, Handing, Confirming
<1>7. ASSUME NEW i \in Requests, NEW j \in Requests, i # j
      PROVE  UsesApart(handler[i], handler[j])'
  <2>1. PICK y, z : y = handler'[i] /\ z = handler'[j]
    OBVIOUS
  <2>2. UsesApart(y, z)
    <3>1. CASE i = h
      BY <1>1, <1>7, <2>1, <3>1 DEF MayChange, UsesApart, Using
    <3>2. CASE j = h
      BY <1>1, <1>7, <2>1, <3>2 DEF MayChange, UsesApart, Using
    <3>3. CASE i # h /\ j # h
      BY <1>1, <1>7, <2>1, <3>3 DEF CodeSide
    <3>. QED
      BY <3>1, <3>2, <3>3
  <2>. QED
    BY <2>1, <2>2 DEF UsesApart, Handing, Confirming
<1>. QED
  BY <1>2, <1>4, <1>5, <1>6, <1>7 DEF CodeSide

\* A code that somebody uses, as it was before.
LEMMA UsedCode ==
    ASSUME AccessSizes, HandlersTyped, CodeSide, NEW h \in Requests, Using(handler[h])
    PROVE  \E k \in 1..Len(code), c \in CodeRecord :
             /\ k = handler[h].code /\ c = code[k] /\ k \in 1..MaxCodes
             /\ CodeRight(k, c) /\ UseRight(handler[h], c)
<1>1. PICK len \in Nat : len = Len(code) /\ code \in [1..len -> CodeRecord] /\ len <= MaxCodes
  BY SeqIs DEF CodeSide
<1>2. handler[h].code \in 1..len /\ UseRight(handler[h], code[handler[h].code])
  BY <1>1 DEF CodeSide, UsesRight
<1>3. \A i \in 1..len : code[i] \in CodeRecord /\ CodeRight(i, code[i]) /\ i \in 1..MaxCodes
  BY <1>1 DEF CodeSide, AccessSizes
<1>. QED
  BY <1>1, <1>2, <1>3

\* A handoff that still is unused is marked, and its session will be issued.
LEMMA ConsumeHandoffKeeps ==
    ASSUME AccessSizes, HandlersTyped, CodeSide, NEW h \in Requests, Access!ConsumeHandoff(h)
    PROVE  CodeSide'
<1>0. handler[h] \in HandlerRecord /\ handler[h].pc = "consume" /\ Using(handler[h])
  BY DEF HandlersTyped, Access!ConsumeHandoff, Using
<1>1. PICK k \in 1..Len(code), c \in CodeRecord :
        k = handler[h].code /\ c = code[k] /\ CodeRight(k, c) /\ k \in 1..MaxCodes
  BY <1>0, UsedCode
<1>2. CASE c.state = "new"
  <2>1. PICK d \in CodeRecord : d = [c EXCEPT !.state = "used"]
    BY DEF CodeRecord
  <2>2. d.state = "used" /\ d.attempts = c.attempts
    BY <2>1 DEF CodeRecord
  <2>3. PICK n \in HandlerRecord : n = [handler[h] EXCEPT !.pc = "issue"]
    BY <1>0 DEF HandlerRecord
  <2>4. n.pc = "issue" /\ n.code = k
    BY <1>0, <1>1, <2>3 DEF HandlerRecord
  <2>5. /\ handler' = [handler EXCEPT ![h] = n] /\ code' = [code EXCEPT ![k] = d]
        /\ UNCHANGED <<paired, applied, crowded>>
    BY <1>1, <1>2, <2>1, <2>3
    DEF Access!ConsumeHandoff, Access!StillUnused, Access!Goes, CodeSide, HandlersTyped
  <2>6. paired[k] = 0
    BY <1>1, <1>2 DEF CodeRight, CodeSide
  <2>7. ASSUME NEW j \in Requests, j # h, handler[j].code = k
        PROVE  /\ ~Handing(handler[j])
               /\ Confirming(handler[j]) /\ k \notin crowded => c.attempts < MaxAttempts
    BY <1>1, <1>2, <2>7 DEF CodeSide, UsesRight, UseRight, Using
  <2>8. MayChange(h, n, k, d)
    BY <1>1, <1>2, <2>2, <2>4, <2>6, <2>7
    DEF MayChange, CodeRight, UseRight, Handing, Confirming
  <2>. QED
    BY <2>5, <2>8, CodeBecomes
<1>3. CASE c.state # "new"
  <2>1. PICK n \in HandlerRecord : n = Access!Waiting /\ n.pc = "idle"
    BY WaitingIs
  <2>2. /\ handler' = [handler EXCEPT ![h] = n]
        /\ UNCHANGED <<code, paired, applied, crowded>>
    BY <1>1, <1>3, <2>1 DEF Access!ConsumeHandoff, Access!StillUnused, Access!Returns
  <2>3. ~Using(n)
    BY <2>1 DEF Using, Handing, Confirming
  <2>. QED
    BY <2>2, <2>3, CodesStay
<1>. QED
  BY <1>2, <1>3

\* The session of a handoff is issued, by the only one who has marked it.
LEMMA IssueHandoffKeeps ==
    ASSUME AccessSizes, HandlersTyped, CodeSide, NEW h \in Requests, Access!IssueHandoff(h)
    PROVE  CodeSide'
<1>0. handler[h] \in HandlerRecord /\ handler[h].pc = "issue" /\ Using(handler[h]) /\ Handing(handler[h])
  BY DEF HandlersTyped, Access!IssueHandoff, Using, Handing
<1>1. PICK k \in 1..Len(code), c \in CodeRecord :
        /\ k = handler[h].code /\ c = code[k] /\ CodeRight(k, c) /\ k \in 1..MaxCodes
        /\ UseRight(handler[h], c)
  BY <1>0, UsedCode
<1>2. c.state = "used" /\ paired[k] = 0
  BY <1>0, <1>1 DEF UseRight
<1>3. PICK n \in HandlerRecord : n = [handler[h] EXCEPT !.pc = "publish"]
  BY <1>0 DEF HandlerRecord
<1>4. n.pc = "publish" /\ n.code = k /\ Handing(n) /\ ~Confirming(n)
  BY <1>0, <1>1, <1>3 DEF HandlerRecord, Handing, Confirming
<1>5. /\ handler' = [handler EXCEPT ![h] = n]
      /\ paired' = [paired EXCEPT ![k] = @ + 1]
      /\ UNCHANGED <<code, applied, crowded>>
  BY <1>1, <1>3 DEF Access!IssueHandoff, Access!Goes, HandlersTyped
<1>6. /\ paired' \in [1..MaxCodes -> Nat] /\ paired'[k] = 1
      /\ \A i \in 1..MaxCodes : i # k => paired'[i] = paired[i]
  BY <1>1, <1>2, <1>5 DEF CodeSide
<1>7. \A i \in 1..Len(code) : i \in 1..MaxCodes
  <2>1. Len(code) \in Nat
    BY SeqIs DEF CodeSide
  <2>. QED
    BY <2>1 DEF CodeSide, AccessSizes
<1>8. (\A i \in 1..Len(code) : CodeRight(i, code[i]))'
  <2>1. ASSUME NEW i \in 1..Len(code) PROVE CodeRight(i, code[i])'
    <3>1. CASE i = k
      BY <1>1, <1>2, <1>5, <1>6, <3>1 DEF CodeRight
    <3>2. CASE i # k
      BY <1>5, <1>6, <1>7, <3>2 DEF CodeSide, CodeRight
    <3>. QED
      BY <3>1, <3>2
  <2>. QED
    BY <1>5, <2>1
<1>9. UsesRight(n)'
  BY <1>1, <1>2, <1>4, <1>5, <1>6 DEF UsesRight, UseRight, Using, Handing, Confirming
<1>10. ASSUME NEW j \in Requests, j # h, Using(handler[j])
       PROVE  Handing(handler[j]) => handler[j].code # k /\ paired'[handler[j].code] = paired[handler[j].code]
  <2>1. handler[j].code \in 1..MaxCodes
    BY <1>7, <1>10 DEF CodeSide, UsesRight
  <2>2. Handing(handler[j]) => handler[j].code # k
    BY <1>0, <1>1, <1>10 DEF CodeSide, UsesApart
  <2>. QED
    BY <1>6, <2>1, <2>2
<1>11. \A i \in 1..MaxCodes : i > Len(code) => paired'[i] = 0 /\ applied'[i] = 0
  BY <1>1, <1>5, <1>6 DEF CodeSide
<1>12. applied' \in [1..MaxCodes -> Nat]
  BY <1>5 DEF CodeSide
<1>. QED
  BY <1>4, <1>5, <1>6, <1>8, <1>9, <1>10, <1>11, <1>12, UserBecomes, ZenonT(30)

\* The exchange is published.
LEMMA PublishHandoffKeeps ==
    ASSUME AccessSizes, HandlersTyped, CodeSide, NEW h \in Requests, Access!PublishHandoff(h)
    PROVE  CodeSide'
<1>0. handler[h].pc = "publish" /\ Using(handler[h]) /\ Handing(handler[h])
  BY DEF Access!PublishHandoff, Using, Handing
<1>1. PICK k \in 1..Len(code), c \in CodeRecord :
        /\ k = handler[h].code /\ c = code[k] /\ CodeRight(k, c) /\ UseRight(handler[h], c)
  BY <1>0, UsedCode
<1>2. paired[k] = 1
  BY <1>0, <1>1 DEF UseRight
<1>3. PICK d \in CodeRecord : d = [c EXCEPT !.state = "exchanged"]
  BY DEF CodeRecord
<1>4. d.state = "exchanged" /\ d.attempts = c.attempts
  BY <1>3 DEF CodeRecord
<1>5. PICK n \in HandlerRecord : n = Access!Waiting /\ n.pc = "idle"
  BY WaitingIs
<1>6. /\ handler' = [handler EXCEPT ![h] = n] /\ code' = [code EXCEPT ![k] = d]
      /\ UNCHANGED <<paired, applied, crowded>>
  BY <1>1, <1>3, <1>5 DEF Access!PublishHandoff, Access!Returns, CodeSide
<1>7. ASSUME NEW j \in Requests, j # h, handler[j].code = k
      PROVE  /\ ~Handing(handler[j])
             /\ Confirming(handler[j]) /\ k \notin crowded => c.attempts < MaxAttempts
  BY <1>0, <1>1, <1>7 DEF CodeSide, UsesRight, UseRight, UsesApart, Using
<1>8. MayChange(h, n, k, d)
  BY <1>1, <1>2, <1>4, <1>5, <1>7 DEF MayChange, CodeRight, Using, Handing, Confirming
<1>. QED
  BY <1>6, <1>8, CodeBecomes

\* A wrong code counts.
LEMMA WrongCodeKeeps ==
    ASSUME AccessSizes, HandlersTyped, CodeSide, NEW h \in Requests, Access!WrongCode(h)
    PROVE  CodeSide'
<1>0. handler[h].pc = "wrong" /\ Using(handler[h]) /\ Confirming(handler[h])
  BY DEF Access!WrongCode, Using, Confirming
<1>1. PICK k \in 1..Len(code), c \in CodeRecord :
        /\ k = handler[h].code /\ c = code[k] /\ CodeRight(k, c) /\ UseRight(handler[h], c)
  BY <1>0, UsedCode
<1>2. PICK a \in Nat : a = c.attempts
  BY DEF CodeRecord
<1>3. PICK d \in CodeRecord :
        d = [c EXCEPT !.attempts = a + 1, !.state = IF a + 1 >= MaxAttempts THEN "used" ELSE c.state]
  <2>1. a + 1 \in Nat
    OBVIOUS
  <2>2. c.state \in {"new", "superseded", "used", "exchanged"}
    BY DEF CodeRecord
  <2>. QED
    BY <2>1, <2>2 DEF CodeRecord
<1>4. d.attempts = a + 1 /\ d.state \in {"used", c.state}
  BY <1>3 DEF CodeRecord
<1>5. PICK n \in HandlerRecord : n = Access!Waiting /\ n.pc = "idle"
  BY WaitingIs
<1>6. /\ handler' = [handler EXCEPT ![h] = n] /\ code' = [code EXCEPT ![k] = d]
      /\ UNCHANGED <<paired, applied, crowded>>
  <2>1. code[k] = c /\ k \in DOMAIN code
    BY <1>1, SeqIs DEF CodeSide
  <2>. QED
    BY <1>1, <1>2, <1>3, <1>5, <2>1 DEF Access!WrongCode, Access!Returns
<1>7. k \notin crowded => applied[k] = 0 /\ a < MaxAttempts
  BY <1>0, <1>1, <1>2 DEF UseRight
<1>8. ASSUME NEW j \in Requests, j # h, handler[j].code = k
      PROVE  /\ Handing(handler[j]) => d.state = "used"
             /\ Confirming(handler[j]) => k \in crowded
  BY <1>0, <1>1, <1>4, <1>8 DEF CodeSide, UsesRight, UseRight, UsesApart, Using
<1>9. CodeRight(k, d)
  BY <1>1, <1>4, <1>7 DEF CodeRight, AccessSizes
<1>10. MayChange(h, n, k, d)
  BY <1>5, <1>8, <1>9 DEF MayChange, Using, Handing, Confirming
<1>. QED
  BY <1>6, <1>10, CodeBecomes

\* The right code is used up, and will take effect.
LEMMA RightCodeKeeps ==
    ASSUME AccessSizes, HandlersTyped, CodeSide, NEW h \in Requests, Access!RightCode(h)
    PROVE  CodeSide'
<1>0. handler[h] \in HandlerRecord /\ handler[h].pc = "right" /\ Using(handler[h]) /\ Confirming(handler[h])
  BY DEF HandlersTyped, Access!RightCode, Using, Confirming
<1>1. PICK k \in 1..Len(code), c \in CodeRecord :
        /\ k = handler[h].code /\ c = code[k] /\ CodeRight(k, c) /\ UseRight(handler[h], c)
  BY <1>0, UsedCode
<1>2. PICK d \in CodeRecord : d = [c EXCEPT !.state = "used"]
  BY DEF CodeRecord
<1>3. d.state = "used" /\ d.attempts = c.attempts
  BY <1>2 DEF CodeRecord
<1>4. PICK n \in HandlerRecord : n = [handler[h] EXCEPT !.pc = "apply"]
  BY <1>0 DEF HandlerRecord
<1>5. n.pc = "apply" /\ n.code = k
  BY <1>0, <1>1, <1>4 DEF HandlerRecord
<1>6. /\ handler' = [handler EXCEPT ![h] = n] /\ code' = [code EXCEPT ![k] = d]
      /\ UNCHANGED <<paired, applied, crowded>>
  BY <1>1, <1>2, <1>4 DEF Access!RightCode, Access!UsedUp, Access!Goes, HandlersTyped
<1>7. k \notin crowded => applied[k] = 0 /\ c.attempts < MaxAttempts
  BY <1>0, <1>1 DEF UseRight
<1>8. ASSUME NEW j \in Requests, j # h, handler[j].code = k
      PROVE  Confirming(handler[j]) => k \in crowded
  BY <1>0, <1>1, <1>8 DEF CodeSide, UsesApart
<1>9. CodeRight(k, d) /\ UseRight(n, d)
  BY <1>1, <1>3, <1>5, <1>7 DEF CodeRight, UseRight, Handing, Confirming
<1>10. ~Handing(n)
  BY <1>5 DEF Handing
<1>11. MayChange(h, n, k, d)
  BY <1>3, <1>5, <1>8, <1>9, <1>10 DEF MayChange
<1>. QED
  BY <1>6, <1>11, CodeBecomes

\* The new password or address is written.
LEMMA ApplyCodeKeeps ==
    ASSUME AccessSizes, HandlersTyped, CodeSide, NEW h \in Requests, Access!ApplyCode(h)
    PROVE  CodeSide'
<1>0. handler[h].pc = "apply" /\ Using(handler[h]) /\ Confirming(handler[h])
  BY DEF Access!ApplyCode, Using, Confirming
<1>1. PICK k \in 1..Len(code), c \in CodeRecord :
        /\ k = handler[h].code /\ c = code[k] /\ CodeRight(k, c) /\ k \in 1..MaxCodes
        /\ UseRight(handler[h], c)
  BY <1>0, UsedCode
<1>2. k \notin crowded => applied[k] = 0 /\ c.attempts < MaxAttempts /\ c.state # "new"
  BY <1>0, <1>1 DEF UseRight
<1>3. PICK n \in HandlerRecord : n = Access!Waiting /\ n.pc = "idle"
  BY WaitingIs
<1>4. ~Using(n) /\ ~Handing(n) /\ ~Confirming(n)
  BY <1>3 DEF Using, Handing, Confirming
<1>5. /\ handler' = [handler EXCEPT ![h] = n]
      /\ applied' = [applied EXCEPT ![k] = @ + 1]
      /\ UNCHANGED <<code, paired, crowded>>
  BY <1>1, <1>3 DEF Access!ApplyCode, Access!Returns
<1>6. /\ applied' \in [1..MaxCodes -> Nat] /\ applied'[k] = applied[k] + 1
      /\ \A i \in 1..MaxCodes : i # k => applied'[i] = applied[i]
  BY <1>1, <1>5 DEF CodeSide
<1>7. \A i \in 1..Len(code) : i \in 1..MaxCodes
  <2>1. Len(code) \in Nat
    BY SeqIs DEF CodeSide
  <2>. QED
    BY <2>1 DEF CodeSide, AccessSizes
<1>8. (\A i \in 1..Len(code) : CodeRight(i, code[i]))'
  <2>1. ASSUME NEW i \in 1..Len(code) PROVE CodeRight(i, code[i])'
    <3>1. CASE i = k
      BY <1>1, <1>2, <1>5, <1>6, <3>1 DEF CodeRight
    <3>2. CASE i # k
      BY <1>5, <1>6, <1>7, <3>2 DEF CodeSide, CodeRight
    <3>. QED
      BY <3>1, <3>2
  <2>. QED
    BY <1>5, <2>1
<1>9. UsesRight(n)'
  BY <1>3 DEF UsesRight, Using, Handing, Confirming
<1>10. ASSUME NEW j \in Requests, j # h, Using(handler[j]), Confirming(handler[j]),
              handler[j].code \notin crowded
       PROVE  applied'[handler[j].code] = applied[handler[j].code]
  <2>1. handler[j].code \in 1..MaxCodes
    BY <1>7, <1>10 DEF CodeSide, UsesRight
  <2>2. handler[j].code # k
    BY <1>0, <1>1, <1>10 DEF CodeSide, UsesApart
  <2>. QED
    BY <1>6, <2>1, <2>2
<1>11. \A i \in 1..MaxCodes : i > Len(code) => paired'[i] = 0 /\ applied'[i] = 0
  BY <1>1, <1>5, <1>6 DEF CodeSide
<1>12. paired' \in [1..MaxCodes -> Nat]
  BY <1>5 DEF CodeSide
<1>. QED
  BY <1>4, <1>5, <1>6, <1>8, <1>9, <1>10, <1>11, <1>12, UserBecomes, ZenonT(30)

\* A request that begins to use a code which is new, as its only user or not.
StartsToUse(n, k) ==
    /\ n.code = k /\ n.pc \in {"consume", "right", "wrong"}
    /\ crowded' = crowded \/ crowded' = crowded \cup {k}
    /\ Confirming(n) =>
         /\ code[k].attempts < MaxAttempts
         /\ (\E g \in Requests : handler[g].code = k) => k \in crowded'

LEMMA UserStarts ==
    ASSUME AccessSizes, HandlersTyped, CodeSide, NEW h \in Requests, NEW n \in HandlerRecord,
           NEW k \in 1..Len(code), code[k].state = "new",
           handler' = [handler EXCEPT ![h] = n], UNCHANGED <<code, paired, applied>>,
           StartsToUse(n, k)
    PROVE  CodeSide'
<1>1. n.code = k /\ ~Handing(n) /\ crowded \subseteq crowded'
  BY DEF StartsToUse, Handing
<1>2. ASSUME NEW i \in 1..Len(code) PROVE CodeRight(i, code[i])'
  BY <1>1 DEF CodeSide, CodeRight
<1>3. UsesRight(n)'
  <2>1. Confirming(n) /\ k \notin crowded' =>
          code[k].attempts < MaxAttempts /\ applied[k] = 0 /\ n.pc # "apply"
    <3>1. CodeRight(k, code[k]) /\ k \in 1..MaxCodes /\ applied[k] \in Nat
      <4>1. Len(code) \in Nat
        BY SeqIs DEF CodeSide
      <4>. QED
        BY <4>1 DEF CodeSide, AccessSizes
    <3>. QED
      BY <1>1, <3>1 DEF CodeRight, StartsToUse
  <2>. QED
    BY <1>1, <2>1 DEF UsesRight, UseRight, Handing, Confirming
<1>4. /\ paired' \in [1..MaxCodes -> Nat] /\ applied' \in [1..MaxCodes -> Nat]
      /\ \A i \in 1..MaxCodes : i > Len(code) => paired'[i] = 0 /\ applied'[i] = 0
  BY DEF CodeSide
<1>5. \A j \in Requests : Confirming(n) => handler[j].code # k \/ k \in crowded'
  BY DEF StartsToUse
<1>6. (\A i \in 1..Len(code) : CodeRight(i, code[i]))'
  BY <1>2
<1>. QED
  BY <1>1, <1>3, <1>4, <1>5, <1>6, UserBecomes

\* A handoff is read.
LEMMA SelectHandoffKeeps ==
    ASSUME AccessSizes, HandlersTyped, CodeSide, NEW h \in Requests, NEW k \in DOMAIN code,
           Access!SelectHandoff(h, k)
    PROVE  CodeSide'
<1>1. k \in 1..Len(code) /\ k \in Nat
  BY SeqIs DEF CodeSide
<1>2. PICK n \in HandlerRecord : n = [Access!Waiting EXCEPT !.pc = "consume", !.code = k]
  BY <1>1, WaitingIs DEF HandlerRecord
<1>3. n.pc = "consume" /\ n.code = k
  BY <1>2, WaitingIs DEF HandlerRecord
<1>4. /\ handler' = [handler EXCEPT ![h] = n] /\ code[k].state = "new"
      /\ UNCHANGED <<code, paired, applied, crowded>>
  BY <1>2 DEF Access!SelectHandoff
<1>5. StartsToUse(n, k)
  BY <1>3, <1>4 DEF StartsToUse, Confirming
<1>. QED
  BY <1>1, <1>4, <1>5, UserStarts

\* The newest code is looked at, or used up because it was tried too often.
LEMMA FindCodeKeeps ==
    ASSUME AccessSizes, HandlersTyped, CodeSide, NEW h \in Requests, NEW k \in DOMAIN code,
           Access!FindCode(h, k)
    PROVE  CodeSide'
<1>1. k \in 1..Len(code) /\ k \in Nat /\ code[k] \in CodeRecord
  BY SeqIs DEF CodeSide
<1>2. PICK c \in CodeRecord, a \in Nat : c = code[k] /\ a = c.attempts
  BY <1>1 DEF CodeRecord
<1>3. c.state = "new" /\ handler[h].pc = "idle" /\ UNCHANGED <<paired, applied>>
  BY <1>2 DEF Access!FindCode, Access!Newest, Access!Active
<1>4. CASE a >= MaxAttempts
  <2>1. PICK d \in CodeRecord : d = [c EXCEPT !.state = "used"]
    BY DEF CodeRecord
  <2>2. d.state = "used" /\ d.attempts = a
    BY <1>2, <2>1 DEF CodeRecord
  <2>3. PICK n \in HandlerRecord : n = handler[h] /\ n.pc = "idle"
    BY <1>3 DEF HandlersTyped
  <2>4. /\ handler' = [handler EXCEPT ![h] = n] /\ code' = [code EXCEPT ![k] = d]
        /\ UNCHANGED <<crowded>>
    BY <1>2, <1>4, <2>1, <2>3 DEF Access!FindCode, HandlersTyped
  <2>5. ASSUME NEW j \in Requests, j # h, handler[j].code = k, Confirming(handler[j])
        PROVE  k \in crowded
    <3>1. Using(handler[j])
      BY <2>5 DEF Using
    <3>2. k \notin crowded => code[k].attempts < MaxAttempts
      BY <2>5, <3>1 DEF CodeSide, UsesRight, UseRight
    <3>. QED
      BY <1>2, <1>4, <3>2 DEF AccessSizes
  <2>6. ~Using(n) /\ ~Handing(n) /\ ~Confirming(n)
    BY <2>3 DEF Using, Handing, Confirming
  <2>7. CodeRight(k, d)
    <3>1. CodeRight(k, c)
      BY <1>1, <1>2 DEF CodeSide
    <3>. QED
      BY <1>2, <2>2, <3>1 DEF CodeRight
  <2>8. MayChange(h, n, k, d)
    BY <2>2, <2>5, <2>6, <2>7 DEF MayChange
  <2>. QED
    BY <1>1, <1>3, <2>4, <2>8, CodeBecomes
<1>5. CASE ~(a >= MaxAttempts)
  <2>1. PICK pc \in {"right", "wrong"} :
          /\ handler' = [handler EXCEPT ![h] = [Access!Waiting EXCEPT !.pc = pc, !.code = k]]
          /\ crowded' = IF \E g \in Requests : handler[g].code = k THEN crowded \cup {k}
                        ELSE crowded
          /\ UNCHANGED code
    BY <1>2, <1>5 DEF Access!FindCode
  <2>2. PICK n \in HandlerRecord : n = [Access!Waiting EXCEPT !.pc = pc, !.code = k]
    BY <1>1, WaitingIs DEF HandlerRecord
  <2>3. n.pc = pc /\ n.code = k
    BY <2>2, WaitingIs DEF HandlerRecord
  <2>4. handler' = [handler EXCEPT ![h] = n]
    BY <2>1, <2>2
  <2>5. a < MaxAttempts
    BY <1>5 DEF AccessSizes
  <2>6. StartsToUse(n, k)
    BY <1>2, <2>1, <2>3, <2>5 DEF StartsToUse, Confirming
  <2>. QED
    BY <1>1, <1>2, <1>3, <2>1, <2>4, <2>6, UserStarts
<1>. QED
  BY <1>4, <1>5

\* Older codes of a purpose are used up.
LEMMA SupersedeCodesKeeps ==
    ASSUME AccessSizes, HandlersTyped, CodeSide, NEW h \in Requests,
           NEW purpose \in {"app_login", "confirm"}, Access!SupersedeCodes(h, purpose)
    PROVE  CodeSide'
<1>1. PICK len \in Nat : len = Len(code) /\ DOMAIN code = 1..len
                         /\ \A k \in 1..len : code[k] \in CodeRecord
  BY SeqIs DEF CodeSide
<1>2. /\ code' = [k \in 1..len |->
            IF code[k].purpose = purpose /\ code[k].state = "new"
            THEN [code[k] EXCEPT !.state = "superseded"] ELSE code[k]]
      /\ UNCHANGED <<paired, applied, crowded>>
  BY <1>1 DEF Access!SupersedeCodes, Access!Codes
<1>3. ASSUME NEW k \in 1..len
      PROVE  /\ code'[k] \in CodeRecord /\ code'[k].attempts = code[k].attempts
             /\ \/ code'[k].state = code[k].state
                \/ code[k].state = "new" /\ code'[k].state = "superseded"
  <2>1. code[k] \in CodeRecord
    BY <1>1
  <2>2. CASE code[k].purpose = purpose /\ code[k].state = "new"
    <3>1. code'[k] = [code[k] EXCEPT !.state = "superseded"]
      BY <1>2, <2>2
    <3>. QED
      BY <2>1, <2>2, <3>1 DEF CodeRecord
  <2>3. CASE ~(code[k].purpose = purpose /\ code[k].state = "new")
    <3>1. code'[k] = code[k]
      BY <1>2, <2>3
    <3>. QED
      BY <2>1, <3>1
  <2>. QED
    BY <2>2, <2>3
<1>4. code' \in Seq(CodeRecord) /\ Len(code') = len
  <2>1. code' \in [1..len -> CodeRecord]
    BY <1>2, <1>3
  <2>. QED
    BY <2>1, SeqOf
<1>5. \A j \in Requests : handler'[j] = handler[j] \/ ~Using(handler'[j])
  <2>1. /\ handler' = [handler EXCEPT ![h].pc = purpose] /\ handler[h] \in HandlerRecord
        /\ \A j \in Requests : j # h => handler'[j] = handler[j]
    BY DEF Access!SupersedeCodes, Access!Goes, HandlersTyped
  <2>2. handler'[h].pc = purpose
    BY <2>1 DEF HandlersTyped, HandlerRecord
  <2>. QED
    BY <2>1, <2>2 DEF Using, Handing, Confirming
<1>6. ASSUME NEW k \in 1..len PROVE CodeRight(k, code[k])'
  <2>1. PICK c, d : c = code[k] /\ d = code'[k]
    OBVIOUS
  <2>2. CodeRight(k, c) /\ d.attempts = c.attempts
        /\ (d.state = c.state \/ (c.state = "new" /\ d.state = "superseded"))
    BY <1>1, <1>3, <2>1 DEF CodeSide
  <2>. QED
    BY <1>2, <2>1, <2>2 DEF CodeRight
<1>7. ASSUME NEW j \in Requests PROVE UsesRight(handler[j])'
  <2>1. PICK y : y = handler'[j]
    OBVIOUS
  <2>2. CASE Using(y)
    <3>1. y = handler[j] /\ y.code \in 1..len /\ UseRight(y, code[y.code])
      BY <1>1, <1>5, <2>1, <2>2 DEF CodeSide, UsesRight
    <3>2. UseRight(y, code'[y.code])
      BY <1>3, <3>1 DEF UseRight, Handing, Confirming
    <3>. QED
      BY <1>2, <1>4, <2>1, <3>1, <3>2 DEF UsesRight, UseRight
  <2>3. CASE ~Using(y)
    BY <2>1, <2>3 DEF UsesRight, Using, Handing, Confirming
  <2>. QED
    BY <2>2, <2>3
<1>8. ASSUME NEW i \in Requests, NEW j \in Requests, i # j
      PROVE  UsesApart(handler[i], handler[j])'
  <2>1. PICK y, z : y = handler'[i] /\ z = handler'[j]
    OBVIOUS
  <2>2. UsesApart(y, z)
    BY <1>5, <1>8, <2>1 DEF CodeSide, UsesApart, Using
  <2>. QED
    BY <1>2, <2>1, <2>2 DEF UsesApart, Handing, Confirming
<1>. QED
  BY <1>1, <1>2, <1>4, <1>6, <1>7, <1>8 DEF CodeSide

\* A new code is stored.
LEMMA StoreCodeKeeps ==
    ASSUME AccessSizes, HandlersTyped, CodeSide, NEW h \in Requests, Access!StoreCode(h)
    PROVE  CodeSide'
<1>1. PICK len \in Nat : /\ len = Len(code) /\ \A k \in 1..len : code[k] \in CodeRecord
                         /\ len < MaxCodes
  BY SeqIs DEF CodeSide, Access!StoreCode, Access!CodesLeft
<1>2. PICK e \in CodeRecord : e = [purpose |-> handler[h].pc, state |-> "new", attempts |-> 0]
  BY DEF CodeRecord, Access!StoreCode
<1>3. e.state = "new" /\ e.attempts = 0
  BY <1>2
<1>4. code' = Append(code, e) /\ UNCHANGED <<paired, applied, crowded>>
  BY <1>2 DEF Access!StoreCode
<1>5. /\ code' \in Seq(CodeRecord) /\ Len(code') = len + 1
      /\ \A k \in 1..len : code'[k] = code[k]
      /\ code'[len + 1] = e
  BY <1>1, <1>4, AppendIs DEF CodeSide
<1>6. len + 1 <= MaxCodes /\ len + 1 \in 1..MaxCodes
  BY <1>1 DEF AccessSizes
<1>7. paired[len + 1] = 0 /\ applied[len + 1] = 0
  BY <1>1, <1>6 DEF CodeSide
<1>8. ASSUME NEW k \in 1..(len + 1) PROVE CodeRight(k, code[k])'
  <2>1. PICK d : d = code'[k]
    OBVIOUS
  <2>2. CodeRight(k, d)
    <3>1. CASE k = len + 1
      BY <1>3, <1>5, <1>7, <2>1, <3>1 DEF CodeRight, AccessSizes
    <3>2. CASE k \in 1..len
      BY <1>1, <1>5, <2>1, <3>2 DEF CodeSide
    <3>. QED
      BY <3>1, <3>2
  <2>. QED
    BY <1>4, <2>1, <2>2 DEF CodeRight
<1>9. \A j \in Requests : handler'[j] = handler[j] \/ ~Using(handler'[j])
  <2>1. handler' = [handler EXCEPT ![h] = Access!Waiting]
    BY DEF Access!StoreCode, Access!Returns
  <2>. QED
    BY <2>1, WaitingIs DEF HandlersTyped, Using, Handing, Confirming
<1>10. ASSUME NEW j \in Requests PROVE UsesRight(handler[j])'
  <2>1. PICK y : y = handler'[j]
    OBVIOUS
  <2>2. CASE Using(y)
    <3>1. y = handler[j] /\ y.code \in 1..len /\ UseRight(y, code[y.code])
      BY <1>1, <1>9, <2>1, <2>2 DEF CodeSide, UsesRight
    <3>2. code'[y.code] = code[y.code] /\ y.code \in 1..(len + 1)
      BY <1>5, <3>1
    <3>. QED
      BY <1>4, <1>5, <2>1, <3>1, <3>2 DEF UsesRight, UseRight
  <2>3. CASE ~Using(y)
    BY <2>1, <2>3 DEF UsesRight, Using, Handing, Confirming
  <2>. QED
    BY <2>2, <2>3
<1>11. ASSUME NEW i \in Requests, NEW j \in Requests, i # j
       PROVE  UsesApart(handler[i], handler[j])'
  <2>1. PICK y, z : y = handler'[i] /\ z = handler'[j]
    OBVIOUS
  <2>2. UsesApart(y, z)
    BY <1>9, <1>11, <2>1 DEF CodeSide, UsesApart, Using
  <2>. QED
    BY <1>4, <2>1, <2>2 DEF UsesApart, Handing, Confirming
<1>12. \A k \in 1..MaxCodes : k > len + 1 => paired[k] = 0 /\ applied[k] = 0
  <2>1. ASSUME NEW k \in 1..MaxCodes, k > len + 1 PROVE k > len
    BY <1>1, <2>1
  <2>. QED
    BY <1>1, <2>1 DEF CodeSide
<1>13. \A k \in 1..MaxCodes : k > Len(code') => paired'[k] = 0 /\ applied'[k] = 0
  BY <1>4, <1>5, <1>12
<1>14. \A k \in 1..Len(code') : CodeRight(k, code[k])'
  BY <1>5, <1>8
<1>15. /\ paired' \in [1..MaxCodes -> Nat] /\ applied' \in [1..MaxCodes -> Nat]
       /\ Len(code') <= MaxCodes
  BY <1>4, <1>5, <1>6 DEF CodeSide
<1>. QED
  BY <1>5, <1>10, <1>11, <1>13, <1>14, <1>15 DEF CodeSide

-----------------------------------------------------------------------------

\* Nobody waits for anything but what the record can say.
LEMMA HandlersKeep ==
    ASSUME HandlersTyped, TokenSide, CodeSide, Access!Next
    PROVE  HandlersTyped'
<1>1. /\ \A t \in DOMAIN token : t \in Nat
      /\ \A k \in DOMAIN code : k \in Nat
  <2>1. DOMAIN token = 1..Len(token) /\ DOMAIN code = 1..Len(code)
    BY SeqIs DEF TokenSide, CodeSide
  <2>. QED
    BY <2>1
<1>2. ASSUME NEW h \in Requests,
             \E n \in HandlerRecord : handler' = [handler EXCEPT ![h] = n]
      PROVE  HandlersTyped'
  BY <1>2 DEF HandlersTyped
<1>3. ASSUME NEW h \in Requests, NEW pc, Access!Goes(h, pc),
             pc \in {"app_login", "confirm", "issue", "publish", "apply"}
      PROVE  HandlersTyped'
  <2>1. handler[h] \in HandlerRecord
    BY DEF HandlersTyped
  <2>2. PICK n \in HandlerRecord : n = [handler[h] EXCEPT !.pc = pc]
    BY <1>3, <2>1 DEF HandlerRecord
  <2>3. handler' = [handler EXCEPT ![h] = n]
    BY <1>3, <2>2 DEF Access!Goes, HandlersTyped
  <2>. QED
    BY <1>2, <2>3
<1>4. ASSUME NEW h \in Requests, Access!Returns(h) PROVE HandlersTyped'
  BY <1>2, <1>4, WaitingIs DEF Access!Returns
<1>5. ASSUME NEW h \in Requests, NEW pc \in {"consume", "right", "wrong"}, NEW k \in DOMAIN code,
             handler' = [handler EXCEPT ![h] = [Access!Waiting EXCEPT !.pc = pc, !.code = k]]
      PROVE  HandlersTyped'
  <2>1. [Access!Waiting EXCEPT !.pc = pc, !.code = k] \in HandlerRecord
    BY <1>1, WaitingIs DEF HandlerRecord
  <2>. QED
    BY <1>2, <1>5, <2>1
<1>6. ASSUME NEW h \in Requests, NEW t \in DOMAIN token, Access!BeginRefresh(h, t)
      PROVE  HandlersTyped'
  <2>1. [Access!Waiting EXCEPT !.pc = "rotate", !.token = t] \in HandlerRecord
    BY <1>1, WaitingIs DEF HandlerRecord
  <2>. QED
    BY <1>2, <1>6, <2>1 DEF Access!BeginRefresh
<1>7. CASE handler' = handler
  BY <1>7 DEF HandlersTyped
<1>8. ASSUME NEW h \in Requests,
             \/ Access!Rotate(h) \/ Access!StoreCode(h) \/ Access!ConsumeHandoff(h)
             \/ Access!IssueHandoff(h) \/ Access!PublishHandoff(h)
             \/ Access!WrongCode(h) \/ Access!RightCode(h) \/ Access!ApplyCode(h)
             \/ Access!BreaksOff(h)
      PROVE  HandlersTyped'
  BY <1>3, <1>4, <1>8 DEF Access!Rotate, Access!StoreCode, Access!ConsumeHandoff,
     Access!IssueHandoff, Access!PublishHandoff, Access!WrongCode, Access!RightCode,
     Access!ApplyCode, Access!BreaksOff
<1>9. ASSUME NEW h \in Requests, NEW k \in DOMAIN code,
             Access!SelectHandoff(h, k) \/ Access!FindCode(h, k)
      PROVE  HandlersTyped'
  BY <1>5, <1>7, <1>9 DEF Access!SelectHandoff, Access!FindCode
<1>10. ASSUME NEW h \in Requests, NEW purpose \in {"app_login", "confirm"},
              Access!SupersedeCodes(h, purpose)
       PROVE  HandlersTyped'
  BY <1>3, <1>10 DEF Access!SupersedeCodes
<1>11. ASSUME Access!Login \/ Access!LogoutAll
              \/ \E t \in DOMAIN token : Access!RefuseReuse(t) \/ Access!Logout(t)
       PROVE  HandlersTyped'
  BY <1>7, <1>11 DEF Access!Login, Access!LogoutAll, Access!RefuseReuse, Access!Logout
<1>. QED
  BY <1>6, <1>8, <1>9, <1>10, <1>11 DEF Access!Next, Access!Tokens, Access!Codes

\* Who does not begin to rotate.
LEMMA NoneRotatesWhen ==
    ASSUME HandlersTyped, NEW h \in Requests
    PROVE  /\ Access!Returns(h) => NoneRotates
           /\ \A pc \in {"app_login", "confirm", "issue", "publish", "apply"} :
                Access!Goes(h, pc) => NoneRotates
           /\ \A pc \in {"consume", "right", "wrong"}, k \in Nat :
                handler' = [handler EXCEPT ![h] = [Access!Waiting EXCEPT !.pc = pc, !.code = k]]
                => NoneRotates
<1>1. ASSUME Access!Returns(h) PROVE NoneRotates
  BY <1>1, WaitingIs DEF Access!Returns, HandlersTyped, NoneRotates
<1>2. ASSUME NEW pc \in {"app_login", "confirm", "issue", "publish", "apply"}, Access!Goes(h, pc)
      PROVE  NoneRotates
  BY <1>2 DEF Access!Goes, HandlersTyped, HandlerRecord, NoneRotates
<1>3. ASSUME NEW pc \in {"consume", "right", "wrong"}, NEW k \in Nat,
             handler' = [handler EXCEPT ![h] = [Access!Waiting EXCEPT !.pc = pc, !.code = k]]
      PROVE  NoneRotates
  <2>1. PICK n \in HandlerRecord : n = [Access!Waiting EXCEPT !.pc = pc, !.code = k]
    BY <1>3, WaitingIs DEF HandlerRecord
  <2>2. n.pc = pc
    BY <2>1, WaitingIs DEF HandlerRecord
  <2>. QED
    BY <1>3, <2>1, <2>2 DEF HandlersTyped, NoneRotates
<1>. QED
  BY <1>1, <1>2, <1>3

\* The families there are.
LEMMA FamiliesAre ==
    ASSUME TokenSide
    PROVE  /\ Access!Families \in SUBSET (1..Len(token))
           /\ \A t \in DOMAIN token : {token[t].family} \in SUBSET (1..Len(token))
<1>1. PICK len \in Nat : len = Len(token) /\ DOMAIN token = 1..len
  BY SeqIs DEF TokenSide
<1>2. ASSUME NEW t \in 1..len PROVE token[t].family \in 1..len
  <2>1. token[t].family \in 1..t
    BY <1>1 DEF TokenSide, TokensRight
  <2>. QED
    BY <1>1, <2>1
<1>. QED
  BY <1>1, <1>2 DEF Access!Families, Access!Tokens

\* What a step does to the tokens.
LEMMA TokensKeep ==
    ASSUME HandlersTyped, TokenSide, CodeSide, Access!Next
    PROVE  TokenSide'
<1>1. \A k \in DOMAIN code : k \in Nat
  <2>1. DOMAIN code = 1..Len(code)
    BY SeqIs DEF CodeSide
  <2>. QED
    BY <2>1
<1>2. handler' = handler => NoneRotates
  BY DEF NoneRotates
<1>3. CASE Access!Login
  BY <1>2, <1>3, IssuePairKeeps DEF Access!Login
<1>4. CASE Access!LogoutAll
  BY <1>2, <1>4, FamiliesAre, RevokeKeeps DEF Access!LogoutAll
<1>5. ASSUME NEW t \in DOMAIN token, Access!RefuseReuse(t) \/ Access!Logout(t)
      PROVE  TokenSide'
  BY <1>2, <1>5, FamiliesAre, RevokeKeeps DEF Access!RefuseReuse, Access!Logout
<1>6. ASSUME NEW t \in DOMAIN token, NEW h \in Requests, Access!BeginRefresh(h, t)
      PROVE  TokenSide'
  BY <1>6, BeginRefreshKeeps
<1>7. ASSUME NEW h \in Requests, Access!Rotate(h) PROVE TokenSide'
  BY <1>7, RotateKeeps
<1>8. ASSUME NEW h \in Requests, Access!IssueHandoff(h) PROVE TokenSide'
  <2>1. NoneRotates
    BY <1>8, NoneRotatesWhen DEF Access!IssueHandoff
  <2>. QED
    BY <1>8, <2>1, IssuePairKeeps DEF Access!IssueHandoff
<1>9. ASSUME NEW h \in Requests, Access!ApplyCode(h) PROVE TokenSide'
  <2>1. NoneRotates
    BY <1>9, NoneRotatesWhen DEF Access!ApplyCode
  <2>. QED
    BY <1>9, <2>1, FamiliesAre, RevokeKeeps DEF Access!ApplyCode
<1>10. ASSUME NEW h \in Requests,
              \/ Access!StoreCode(h) \/ Access!ConsumeHandoff(h) \/ Access!PublishHandoff(h)
              \/ Access!WrongCode(h) \/ Access!RightCode(h) \/ Access!BreaksOff(h)
       PROVE  TokenSide'
  <2>1. NoneRotates
    BY <1>10, NoneRotatesWhen DEF Access!StoreCode, Access!ConsumeHandoff,
       Access!PublishHandoff, Access!WrongCode, Access!RightCode, Access!BreaksOff
  <2>2. UNCHANGED <<token, ended, tangled>>
    BY <1>10 DEF Access!StoreCode, Access!ConsumeHandoff,
       Access!PublishHandoff, Access!WrongCode, Access!RightCode, Access!BreaksOff
  <2>. QED
    BY <2>1, <2>2, TokensStay
<1>11. ASSUME NEW h \in Requests, NEW purpose \in {"app_login", "confirm"},
              Access!SupersedeCodes(h, purpose)
       PROVE  TokenSide'
  BY <1>11, NoneRotatesWhen, TokensStay DEF Access!SupersedeCodes
<1>12. ASSUME NEW h \in Requests, NEW k \in DOMAIN code,
              Access!SelectHandoff(h, k) \/ Access!FindCode(h, k)
       PROVE  TokenSide'
  <2>1. NoneRotates
    BY <1>1, <1>2, <1>12, NoneRotatesWhen DEF Access!SelectHandoff, Access!FindCode
  <2>2. UNCHANGED <<token, ended, tangled>>
    BY <1>12 DEF Access!SelectHandoff, Access!FindCode
  <2>. QED
    BY <2>1, <2>2, TokensStay
<1>. QED
  BY <1>3, <1>4, <1>5, <1>6, <1>7, <1>8, <1>9, <1>10, <1>11, <1>12
  DEF Access!Next, Access!Tokens, Access!Codes

\* What a step does to the codes.
LEMMA CodesKeep ==
    ASSUME AccessSizes, HandlersTyped, TokenSide, CodeSide, Access!Next
    PROVE  CodeSide'
<1>1. CASE UNCHANGED <<handler, code, paired, applied, crowded>>
  BY <1>1 DEF CodeSide, CodeRight, UsesRight, UsesApart, UseRight
<1>2. CASE \/ Access!Login \/ Access!LogoutAll
           \/ \E t \in DOMAIN token : Access!RefuseReuse(t) \/ Access!Logout(t)
  BY <1>1, <1>2 DEF Access!Login, Access!LogoutAll, Access!RefuseReuse, Access!Logout
<1>3. ASSUME NEW h \in Requests, NEW t \in DOMAIN token, Access!BeginRefresh(h, t)
      PROVE  CodeSide'
  <2>1. t \in Nat
    <3>1. DOMAIN token = 1..Len(token)
      BY SeqIs DEF TokenSide
    <3>. QED
      BY <3>1
  <2>2. PICK n \in HandlerRecord : n = [Access!Waiting EXCEPT !.pc = "rotate", !.token = t]
    BY <2>1, WaitingIs DEF HandlerRecord
  <2>3. n.pc = "rotate"
    BY <2>2, WaitingIs DEF HandlerRecord
  <2>4. ~Using(n)
    BY <2>3 DEF Using, Handing, Confirming
  <2>. QED
    BY <1>3, <2>2, <2>4, CodesStay DEF Access!BeginRefresh
<1>4. ASSUME NEW h \in Requests, Access!Rotate(h) \/ Access!BreaksOff(h) PROVE CodeSide'
  <2>1. PICK n \in HandlerRecord : n = Access!Waiting /\ n.pc = "idle"
    BY WaitingIs
  <2>2. ~Using(n)
    BY <2>1 DEF Using, Handing, Confirming
  <2>. QED
    BY <1>4, <2>1, <2>2, CodesStay DEF Access!Rotate, Access!BreaksOff, Access!Returns
<1>5. ASSUME NEW h \in Requests,
             \/ Access!StoreCode(h) \/ Access!ConsumeHandoff(h) \/ Access!IssueHandoff(h)
             \/ Access!PublishHandoff(h) \/ Access!WrongCode(h) \/ Access!RightCode(h)
             \/ Access!ApplyCode(h)
      PROVE  CodeSide'
  BY <1>5, StoreCodeKeeps, ConsumeHandoffKeeps, IssueHandoffKeeps, PublishHandoffKeeps,
     WrongCodeKeeps, RightCodeKeeps, ApplyCodeKeeps
<1>6. ASSUME NEW h \in Requests, NEW purpose \in {"app_login", "confirm"},
             Access!SupersedeCodes(h, purpose)
      PROVE  CodeSide'
  BY <1>6, SupersedeCodesKeeps
<1>7. ASSUME NEW h \in Requests, NEW k \in DOMAIN code,
             Access!SelectHandoff(h, k) \/ Access!FindCode(h, k)
      PROVE  CodeSide'
  BY <1>7, SelectHandoffKeeps, FindCodeKeeps
<1>. QED
  BY <1>2, <1>3, <1>4, <1>5, <1>6, <1>7 DEF Access!Next, Access!Tokens, Access!Codes

\* No step breaks the invariant.
LEMMA AccessSteps ==
    AccessSizes /\ AccessInductive /\ [Access!Next]_signInVars => AccessInductive'
<1>. SUFFICES ASSUME AccessSizes, AccessInductive, [Access!Next]_signInVars
              PROVE  AccessInductive'
  OBVIOUS
<1>1. CASE Access!Next
  BY <1>1, HandlersKeep, TokensKeep, CodesKeep DEF AccessInductive
<1>2. CASE UNCHANGED signInVars
  BY <1>2 DEF signInVars, AccessInductive, HandlersTyped, TokenSide, TokensRight, RotatesRight,
     RotatesApart, CodeSide, CodeRight, UsesRight, UsesApart, UseRight
<1>. QED
  BY <1>1, <1>2

\* The invariant says that tokens and codes are good once.
LEMMA AccessConcludes == AccessSizes /\ AccessInductive => Access!SessionsSound
<1>. SUFFICES ASSUME AccessSizes, AccessInductive PROVE Access!SessionsSound
  OBVIOUS
<1>1. DOMAIN token = 1..Len(token) /\ DOMAIN code = 1..Len(code)
      /\ (\A k \in 1..Len(code) : code[k] \in CodeRecord) /\ Len(code) \in Nat
  BY SeqIs DEF AccessInductive, TokenSide, CodeSide
<1>2. Access!FamilyChain
  BY <1>1 DEF AccessInductive, TokenSide, TokensRight, Access!FamilyChain, Access!Live,
     Access!Families, Access!Tokens
<1>3. Access!HandoffOnce
  <2>1. ASSUME NEW k \in 1..MaxCodes PROVE paired[k] <= 1
    <3>1. CASE k \in 1..Len(code)
      BY <3>1 DEF AccessInductive, CodeSide, CodeRight
    <3>2. CASE k > Len(code)
      BY <3>2 DEF AccessInductive, CodeSide
    <3>. QED
      BY <1>1, <3>1, <3>2 DEF AccessSizes
  <2>2. \A k \in 1..Len(code) : code[k].state = "exchanged" => paired[k] = 1
    BY DEF AccessInductive, CodeSide, CodeRight
  <2>. QED
    BY <1>1, <2>1, <2>2 DEF Access!HandoffOnce, Access!Codes
<1>4. Access!CodeOnce
  <2>1. ASSUME NEW k \in 1..Len(code), k \notin crowded
        PROVE  /\ applied[k] <= 1 /\ code[k].attempts <= MaxAttempts
               /\ code[k].attempts = MaxAttempts => applied[k] = 0
    <3>1. /\ CodeRight(k, code[k]) /\ code[k].attempts \in Nat /\ applied[k] \in Nat
      <4>1. k \in 1..MaxCodes /\ code[k] \in CodeRecord
        BY <1>1 DEF AccessInductive, CodeSide, AccessSizes
      <4>. QED
        BY <4>1 DEF AccessInductive, CodeSide, CodeRecord
    <3>. QED
      BY <2>1, <3>1 DEF CodeRight, AccessSizes
  <2>. QED
    BY <1>1, <2>1 DEF Access!CodeOnce, Access!Codes
<1>. QED
  BY <1>2, <1>3, <1>4 DEF Access!SessionsSound, Access!SingleUse

-----------------------------------------------------------------------------
(***************************************************************************)
(* The subscription page.  A code follows its account: whoever it belongs  *)
(* to by now has agreed, or was merged with one who has, and has signed in *)
(* late enough for its time; that stays true of whoever an exchange has    *)
(* read.  A session goes with a code that is used, and a code that is used *)
(* gives none.                                                             *)
(***************************************************************************)

PageCode == [id : Nat, user : Accounts, challenge : Tabs, used : BOOLEAN, until : Nat]
PageExchange ==
    [at : {"none", "read"}, tab : Tabs, code : Nat, user : Accounts \cup {NoAccount}]
PageSessionToken == [code : Nat, by : Requests, tab : Tabs, user : Accounts, until : Nat]

PageTyped ==
    /\ pageClock \in Nat
    /\ access \in [Accounts -> Nat] /\ signedIn \in [Accounts -> Nat]
    /\ pageCodes \subseteq PageCode
    /\ exchange \in [Requests -> PageExchange]
    /\ sessions \subseteq PageSessionToken

\* Person u agreed to page t, after a sign-in that is good for a code until then.
Agreed(u, t, until) ==
    /\ u \in Accounts /\ <<u, t>> \in agreed
    /\ until + 1 <= signedIn[u] + AccessTtl + CodeTtl

\* What was read of a code is still true, but for who it belongs to and whether it is used.
ReadRight(x) ==
    x.at = "read" => \E c \in pageCodes : c.id = x.code /\ Agreed(x.user, x.tab, c.until)

SessionRight(s) ==
    /\ <<s.user, s.tab>> \in agreed
    /\ s.until + 2 <= signedIn[s.user] + AccessTtl + CodeTtl + SessionTtl
    /\ \E c \in pageCodes : c.id = s.code /\ c.used

PageInductive ==
    /\ PageTyped
    /\ \A u \in Accounts : signedIn[u] <= pageClock /\ access[u] <= signedIn[u] + AccessTtl
    /\ \A c, d \in pageCodes : c.id = d.id => c = d
    /\ \A c \in pageCodes : Agreed(c.user, c.challenge, c.until)
    /\ \A e \in Requests : ReadRight(exchange[e])
    /\ \A s \in sessions : SessionRight(s)
    /\ Page!OneSessionPerCode

\* An exchange that is over.
LEMMA ExchangeOver == PageSizes => Page!Idle \in PageExchange /\ Page!Idle.at = "none"
BY DEF Page!Idle, PageExchange, PageSizes

\* Nobody has signed in yet.
LEMMA PageBegins == PageSizes /\ Page!Init => PageInductive
<1>. SUFFICES ASSUME PageSizes, Page!Init PROVE PageInductive
  OBVIOUS
<1>1. Page!Idle \in PageExchange /\ Page!Idle.at = "none"
  BY ExchangeOver
<1>2. /\ pageClock = 1 /\ pageCodes = {} /\ sessions = {}
      /\ access = [u \in Accounts |-> 0] /\ signedIn = [u \in Accounts |-> 0]
      /\ exchange = [e \in Requests |-> Page!Idle]
  BY DEF Page!Init
<1>3. PageTyped
  BY <1>1, <1>2 DEF PageTyped
<1>4. \A e \in Requests : ReadRight(exchange[e])
  BY <1>1, <1>2 DEF ReadRight
<1>5. \A u \in Accounts : signedIn[u] <= pageClock /\ access[u] <= signedIn[u] + AccessTtl
  BY <1>2 DEF PageSizes
<1>. QED
  BY <1>2, <1>3, <1>4, <1>5 DEF PageInductive, Page!OneSessionPerCode

\* Sign-ins and agreements are not forgotten.
Remembered ==
    /\ agreed \subseteq agreed' /\ signedIn' \in [Accounts -> Nat]
    /\ \A u \in Accounts : signedIn[u] <= signedIn'[u]

\* Whoever agreed has agreed.
LEMMA AgreedStays ==
    ASSUME PageSizes, PageTyped, Remembered, NEW u, NEW t, NEW until \in Nat,
           Agreed(u, t, until)
    PROVE  Agreed(u, t, until)'
<1>1. PICK a \in Nat, b \in Nat : a = signedIn[u] /\ b = signedIn'[u] /\ a <= b
  BY DEF PageTyped, Remembered, Agreed
<1>. QED
  BY <1>1 DEF PageSizes, Agreed, Remembered

\* So does what a session shows of who agreed.
LEMMA SessionStays ==
    ASSUME PageSizes, PageTyped, Remembered, NEW s \in PageSessionToken, SessionRight(s),
           \A c \in pageCodes : c.used => \E d \in pageCodes' : d.id = c.id /\ d.used
    PROVE  SessionRight(s)'
<1>1. PICK a \in Nat, b \in Nat, z \in Nat :
        a = signedIn[s.user] /\ b = signedIn'[s.user] /\ a <= b /\ z = s.until
  BY DEF PageTyped, Remembered, PageSessionToken
<1>2. /\ <<s.user, s.tab>> \in agreed'
      /\ z + 2 <= b + AccessTtl + CodeTtl + SessionTtl
  BY <1>1 DEF SessionRight, Remembered, PageSizes
<1>. QED
  BY <1>1, <1>2 DEF SessionRight

\* The codes stay, or are replaced by others of the same id and time.
LEMMA ReadStays ==
    ASSUME PageSizes, PageTyped, Remembered, NEW x, ReadRight(x),
           \A c \in pageCodes : \E d \in pageCodes' : d.id = c.id /\ d.until = c.until
    PROVE  ReadRight(x)'
<1>1. CASE x.at = "read"
  <2>1. PICK c \in pageCodes : c.id = x.code /\ Agreed(x.user, x.tab, c.until)
    BY <1>1 DEF ReadRight
  <2>2. c.until \in Nat
    BY DEF PageTyped, PageCode
  <2>3. Agreed(x.user, x.tab, c.until)'
    BY <2>1, <2>2, AgreedStays
  <2>4. PICK d \in pageCodes' : d.id = x.code /\ d.until = c.until
    BY <2>1
  <2>. QED
    BY <2>3, <2>4 DEF ReadRight, Agreed
<1>. QED
  BY <1>1 DEF ReadRight

\* Time passes, contexts are opened, profiles attached, accounts edited.
LEMMA OthersKeep ==
    ASSUME PageInductive, UNCHANGED <<access, pageCodes, exchange, sessions, signedIn, agreed>>,
           pageClock' \in Nat, pageClock <= pageClock'
    PROVE  PageInductive'
<1>1. \A u \in Accounts : signedIn'[u] <= pageClock' /\ access'[u] <= signedIn'[u] + AccessTtl
  BY DEF PageInductive, PageTyped
<1>2. PageTyped'
  BY DEF PageInductive, PageTyped
<1>. QED
  BY <1>1, <1>2 DEF PageInductive, Agreed, ReadRight, SessionRight, Page!OneSessionPerCode

\* A person signs in.
LEMMA SignsInKeeps ==
    ASSUME PageSizes, PageInductive, NEW u \in Accounts, Page!SignsIn(u)
    PROVE  PageInductive'
<1>1. PICK now \in Nat : now = pageClock
  BY DEF PageInductive, PageTyped
<1>2. /\ access' = [access EXCEPT ![u] = now + AccessTtl]
      /\ signedIn' = [signedIn EXCEPT ![u] = now]
      /\ UNCHANGED <<pageClock, pageCodes, exchange, sessions, agreed>>
  BY <1>1 DEF Page!SignsIn
<1>3. now + AccessTtl \in Nat
  BY DEF PageSizes
<1>4. PageTyped'
  BY <1>2, <1>3 DEF PageInductive, PageTyped
<1>5. PageTyped /\ Remembered
  BY <1>1, <1>2 DEF PageInductive, PageTyped, Remembered
<1>6. \A v \in Accounts : signedIn'[v] <= pageClock' /\ access'[v] <= signedIn'[v] + AccessTtl
  BY <1>1, <1>2 DEF PageInductive, PageTyped, PageSizes
<1>7. \A c \in pageCodes' : Agreed(c.user, c.challenge, c.until)'
  <2>1. \A c \in pageCodes : c.until \in Nat /\ Agreed(c.user, c.challenge, c.until)
    BY DEF PageInductive, PageTyped, PageCode
  <2>. QED
    BY <1>2, <1>5, <2>1, AgreedStays
<1>8. \A e \in Requests : ReadRight(exchange[e])'
  <2>1. \A e \in Requests : ReadRight(exchange[e])
    BY DEF PageInductive
  <2>2. ASSUME NEW x, ReadRight(x) PROVE ReadRight(x)'
    BY <1>2, <1>5, <2>2, ReadStays
  <2>. QED
    BY <1>2, <2>1, <2>2 DEF ReadRight
<1>9. \A s \in sessions' : SessionRight(s)'
  <2>1. \A s \in sessions : s \in PageSessionToken /\ SessionRight(s)
    BY DEF PageInductive, PageTyped
  <2>. QED
    BY <1>2, <1>5, <2>1, SessionStays
<1>. QED
  BY <1>2, <1>4, <1>6, <1>7, <1>8, <1>9 DEF PageInductive, Page!OneSessionPerCode

\* A person authorises a page: there is a new code.
LEMMA AuthorizesKeeps ==
    ASSUME PageSizes, PageInductive, NEW u \in Accounts, NEW t \in Tabs, Page!Authorizes(u, t)
    PROVE  PageInductive'
<1>1. PICK now \in Nat : now = pageClock
  BY DEF PageInductive, PageTyped
<1>2. /\ access[u] > now /\ agreed' = agreed \cup {<<u, t>>}
      /\ UNCHANGED <<pageClock, access, exchange, sessions, signedIn>>
  BY <1>1 DEF Page!Authorizes, Page!Fresh
<1>3. PICK i \in 1..MaxPageCodes :
        /\ \A c \in pageCodes : c.id # i
        /\ pageCodes' = pageCodes \cup {[id |-> i, user |-> u, challenge |-> t, used |-> FALSE,
                                         until |-> now + CodeTtl]}
  BY <1>1 DEF Page!Authorizes
<1>4. PICK n \in PageCode :
        n = [id |-> i, user |-> u, challenge |-> t, used |-> FALSE, until |-> now + CodeTtl]
  <2>1. i \in Nat /\ now + CodeTtl \in Nat
    BY DEF PageSizes
  <2>. QED
    BY <2>1 DEF PageCode
<1>5. n.id = i /\ n.user = u /\ n.challenge = t /\ n.until = now + CodeTtl
  BY <1>4
<1>6. pageCodes' = pageCodes \cup {n}
  BY <1>3, <1>4
<1>7. PageTyped' /\ PageTyped
  BY <1>2, <1>6 DEF PageInductive, PageTyped
<1>8. Remembered
  BY <1>2, <1>7 DEF PageTyped, Remembered
<1>9. Agreed(n.user, n.challenge, n.until)'
  <2>1. PICK a \in Nat, b \in Nat : a = signedIn[u] /\ b = access[u] /\ b <= a + AccessTtl /\ b > now
    BY <1>1, <1>2 DEF PageInductive, PageTyped
  <2>2. now + CodeTtl + 1 <= a + AccessTtl + CodeTtl
    BY <2>1 DEF PageSizes
  <2>. QED
    BY <1>2, <1>5, <2>1, <2>2 DEF Agreed
<1>10. \A c \in pageCodes' : Agreed(c.user, c.challenge, c.until)'
  <2>1. \A c \in pageCodes : c.until \in Nat /\ Agreed(c.user, c.challenge, c.until)
    BY DEF PageInductive, PageTyped, PageCode
  <2>2. \A c \in pageCodes : Agreed(c.user, c.challenge, c.until)'
    BY <1>7, <1>8, <2>1, AgreedStays
  <2>. QED
    BY <1>6, <1>9, <2>2
<1>11. \A c, d \in pageCodes' : c.id = d.id => c = d
  BY <1>3, <1>5, <1>6 DEF PageInductive
<1>12. \A e \in Requests : ReadRight(exchange[e])'
  <2>1. \A e \in Requests : ReadRight(exchange[e])
    BY DEF PageInductive
  <2>2. ASSUME NEW x, ReadRight(x) PROVE ReadRight(x)'
    BY <1>6, <1>7, <1>8, <2>2, ReadStays
  <2>. QED
    BY <1>2, <2>1, <2>2 DEF ReadRight
<1>13. \A s \in sessions' : SessionRight(s)'
  <2>1. \A s \in sessions : s \in PageSessionToken /\ SessionRight(s)
    BY DEF PageInductive, PageTyped
  <2>. QED
    BY <1>2, <1>6, <1>7, <1>8, <2>1, SessionStays
<1>. QED
  BY <1>2, <1>7, <1>10, <1>11, <1>12, <1>13 DEF PageInductive, Page!OneSessionPerCode

\* An exchange reads a code, or is over.
LEMMA ExchangesKeep ==
    ASSUME PageInductive, NEW e \in Requests, NEW n \in PageExchange,
           exchange' = [exchange EXCEPT ![e] = n], ReadRight(n),
           UNCHANGED <<pageClock, access, pageCodes, sessions, signedIn, agreed>>
    PROVE  PageInductive'
<1>1. \A d \in Requests : ReadRight(exchange'[d])
  BY DEF PageInductive, PageTyped
<1>2. \A d \in Requests : ReadRight(exchange[d])'
  BY <1>1 DEF ReadRight, Agreed
<1>3. PageTyped'
  BY DEF PageInductive, PageTyped
<1>. QED
  BY <1>2, <1>3 DEF PageInductive, Agreed, SessionRight, Page!OneSessionPerCode

\* An exchange reads a code.
LEMMA ReadsCodeKeeps ==
    ASSUME PageInductive, NEW e \in Requests, NEW t \in Tabs, NEW c \in pageCodes,
           Page!ReadsCode(e, t, c)
    PROVE  PageInductive'
<1>1. c \in PageCode /\ Agreed(c.user, t, c.until)
  BY DEF PageInductive, PageTyped, Page!ReadsCode
<1>2. PICK n \in PageExchange : n = [at |-> "read", tab |-> t, code |-> c.id, user |-> c.user]
  BY <1>1 DEF PageExchange, PageCode
<1>3. ReadRight(n)
  BY <1>1, <1>2 DEF ReadRight
<1>. QED
  BY <1>2, <1>3, ExchangesKeep DEF Page!ReadsCode

\* The code is used, and there is a session.
LEMMA ConsumesCodeKeeps ==
    ASSUME PageSizes, PageInductive, NEW e \in Requests, Page!ConsumesCode(e)
    PROVE  PageInductive'
<1>1. PICK now \in Nat : now = pageClock
  BY DEF PageInductive, PageTyped
<1>2. PICK x \in PageExchange : x = exchange[e] /\ x.at = "read" /\ ReadRight(x)
  BY DEF PageInductive, PageTyped, Page!ConsumesCode
<1>3. PICK c \in pageCodes :
        c = Page!CodeOf(x.code) /\ c.id = x.code /\ Agreed(x.user, x.tab, c.until) /\ c \in PageCode
  BY <1>2 DEF ReadRight, PageInductive, PageTyped, Page!CodeOf
<1>4. PICK d \in PageCode : d = [c EXCEPT !.used = TRUE]
  BY <1>3 DEF PageCode
<1>5. d.id = c.id /\ d.user = c.user /\ d.challenge = c.challenge /\ d.until = c.until /\ d.used
  BY <1>3, <1>4 DEF PageCode
<1>6. PICK z \in PageSessionToken :
        z = [code |-> x.code, by |-> e, tab |-> x.tab, user |-> x.user, until |-> now + SessionTtl]
  <2>1. x.user \in Accounts /\ x.code \in Nat /\ now + SessionTtl \in Nat
    BY <1>2, <1>3 DEF Agreed, PageExchange, PageSizes
  <2>. QED
    BY <1>2, <2>1 DEF PageSessionToken, PageExchange
<1>7. z.code = x.code /\ z.tab = x.tab /\ z.user = x.user /\ z.until = now + SessionTtl
  BY <1>6
<1>8. PICK n \in PageExchange : n = Page!Idle /\ n.at = "none"
  BY ExchangeOver
<1>9. /\ ~c.used /\ c.until > now
      /\ pageCodes' = (pageCodes \ {c}) \cup {d} /\ sessions' = sessions \cup {z}
      /\ exchange' = [exchange EXCEPT ![e] = n]
      /\ UNCHANGED <<pageClock, access, signedIn, agreed>>
  BY <1>1, <1>2, <1>3, <1>4, <1>6, <1>8 DEF Page!ConsumesCode, Page!StillUnused, Page!Fresh
<1>10. PageTyped' /\ PageTyped
  BY <1>9 DEF PageInductive, PageTyped
<1>11. Remembered
  BY <1>9, <1>10 DEF PageTyped, Remembered
<1>12. /\ \A i, j \in pageCodes : i.id = j.id => i = j
       /\ \A i \in pageCodes : Agreed(i.user, i.challenge, i.until)
       /\ \A s \in sessions : SessionRight(s)
  BY DEF PageInductive
<1>13. \A i, j \in pageCodes' : i.id = j.id => i = j
  BY <1>5, <1>9, <1>12
<1>14. \A i \in pageCodes' : Agreed(i.user, i.challenge, i.until)'
  <2>1. \A i \in pageCodes' : Agreed(i.user, i.challenge, i.until)
    BY <1>5, <1>9, <1>12
  <2>. QED
    BY <1>9, <2>1 DEF Agreed
<1>15. \A i \in pageCodes : \E j \in pageCodes' :
         j.id = i.id /\ j.until = i.until /\ (i.used => j.used)
  BY <1>5, <1>9
<1>16. \A g \in Requests : ReadRight(exchange[g])'
  <2>1. \A g \in Requests : ReadRight(exchange'[g])
    BY <1>8, <1>9 DEF PageInductive, PageTyped, ReadRight
  <2>2. ASSUME NEW y, ReadRight(y) PROVE ReadRight(y)'
    BY <1>10, <1>11, <1>15, <2>2, ReadStays
  <2>. QED
    BY <2>1, <2>2 DEF ReadRight
<1>17. SessionRight(z)'
  <2>1. PICK a \in Nat, u \in Nat :
          a = signedIn[x.user] /\ u = c.until /\ u + 1 <= a + AccessTtl + CodeTtl /\ u > now
    BY <1>3, <1>9, <1>10 DEF Agreed, PageTyped, PageCode
  <2>2. z.until + 2 <= a + AccessTtl + CodeTtl + SessionTtl
    BY <1>7, <2>1 DEF PageSizes
  <2>3. <<z.user, z.tab>> \in agreed
    BY <1>3, <1>7 DEF Agreed
  <2>. QED
    BY <1>3, <1>5, <1>7, <1>9, <2>1, <2>2, <2>3 DEF SessionRight
<1>18. \A s \in sessions' : SessionRight(s)'
  <2>1. \A s \in sessions : s \in PageSessionToken /\ SessionRight(s)
    BY <1>10, <1>12 DEF PageTyped
  <2>2. \A s \in sessions : SessionRight(s)'
    BY <1>10, <1>11, <1>15, <2>1, SessionStays
  <2>. QED
    BY <1>9, <1>17, <2>2
<1>19. Page!OneSessionPerCode'
  <2>1. \A s \in sessions : s.code # z.code
    BY <1>3, <1>7, <1>9, <1>12 DEF SessionRight
  <2>. QED
    BY <1>9, <2>1 DEF PageInductive, Page!OneSessionPerCode
<1>. QED
  BY <1>9, <1>10, <1>13, <1>14, <1>16, <1>18, <1>19 DEF PageInductive

\* Code c, as it is when the rows of u have become v's.
MovedCode(c, u, v) == [c EXCEPT !.user = IF c.user = u THEN v ELSE c.user]

\* Two accounts become one: its codes, sign-in and agreements are of both.
LEMMA PageMergesKeep ==
    ASSUME PageSizes, PageInductive, NEW u \in Accounts, NEW v \in Accounts, Page!Merges(u, v)
    PROVE  PageInductive'
<1>1. PICK a \in Nat, b \in Nat : a = signedIn[u] /\ b = signedIn[v]
  BY DEF PageInductive, PageTyped
<1>2. PICK m \in Nat : /\ m = IF a > b THEN a ELSE b
                       /\ a <= m /\ b <= m
  OBVIOUS
<1>3. /\ signedIn' = [signedIn EXCEPT ![v] = m]
      /\ agreed' = agreed \cup {<<v, p[2]>> : p \in {q \in agreed : q[1] = u}}
      /\ pageCodes' = Page!CodesMoved(u, v)
      /\ UNCHANGED <<pageClock, access, exchange, sessions>>
  BY <1>1, <1>2 DEF Page!Merges
<1>4. Remembered /\ PageTyped
  BY <1>1, <1>2, <1>3 DEF Remembered, PageInductive, PageTyped
<1>5. ASSUME NEW c \in pageCodes
      PROVE  /\ MovedCode(c, u, v) \in PageCode
             /\ MovedCode(c, u, v).id = c.id /\ MovedCode(c, u, v).used = c.used
             /\ MovedCode(c, u, v).until = c.until
             /\ MovedCode(c, u, v).challenge = c.challenge
             /\ MovedCode(c, u, v).user = IF c.user = u THEN v ELSE c.user
  <2>1. c \in PageCode
    BY DEF PageInductive, PageTyped
  <2>. QED
    BY <2>1 DEF PageCode, MovedCode
<1>6. /\ \A d \in pageCodes' : \E c \in pageCodes :
           /\ d \in PageCode /\ d.id = c.id /\ d.used = c.used /\ d.until = c.until
           /\ d.challenge = c.challenge /\ d.user = IF c.user = u THEN v ELSE c.user
           /\ d = MovedCode(c, u, v)
      /\ \A c \in pageCodes : \E d \in pageCodes' :
           d.id = c.id /\ d.until = c.until /\ d.used = c.used
  <2>1. pageCodes' = {MovedCode(c, u, v) : c \in pageCodes}
    BY <1>3 DEF Page!CodesMoved, MovedCode
  <2>. QED
    BY <1>5, <2>1
<1>7. PageTyped'
  BY <1>2, <1>3, <1>4, <1>6 DEF PageTyped
<1>8. \A w \in Accounts : signedIn'[w] <= pageClock' /\ access'[w] <= signedIn'[w] + AccessTtl
  BY <1>1, <1>2, <1>3, <1>4 DEF PageInductive, PageTyped, PageSizes
<1>9. \A c, d \in pageCodes' : c.id = d.id => c = d
  BY <1>6 DEF PageInductive
<1>10. ASSUME NEW d \in pageCodes' PROVE Agreed(d.user, d.challenge, d.until)'
  <2>1. PICK c \in pageCodes :
          /\ d.until = c.until /\ d.challenge = c.challenge
          /\ d.user = IF c.user = u THEN v ELSE c.user
    BY <1>6
  <2>2. PICK until \in Nat, t \in Tabs : until = c.until /\ t = c.challenge /\ Agreed(c.user, t, until)
    BY <1>4 DEF PageInductive, PageTyped, PageCode
  <2>3. CASE c.user = u
    <3>1. <<u, t>> \in agreed /\ until + 1 <= a + AccessTtl + CodeTtl
      BY <1>1, <2>2, <2>3 DEF Agreed
    <3>2. <<v, t>> \in agreed'
      BY <1>3, <3>1
    <3>3. signedIn'[v] = m /\ until + 1 <= m + AccessTtl + CodeTtl
      BY <1>2, <1>3, <1>4, <3>1 DEF PageTyped, PageSizes
    <3>. QED
      BY <2>1, <2>2, <2>3, <3>2, <3>3 DEF Agreed
  <2>4. CASE c.user # u
    BY <1>4, <2>1, <2>2, <2>4, AgreedStays DEF Agreed
  <2>. QED
    BY <2>3, <2>4
<1>11. \A e \in Requests : ReadRight(exchange[e])'
  <2>1. \A e \in Requests : ReadRight(exchange[e])
    BY DEF PageInductive
  <2>2. ASSUME NEW x, ReadRight(x) PROVE ReadRight(x)'
    BY <1>4, <1>6, <2>2, ReadStays
  <2>. QED
    BY <1>3, <2>1, <2>2 DEF ReadRight
<1>12. \A s \in sessions' : SessionRight(s)'
  <2>1. \A s \in sessions : s \in PageSessionToken /\ SessionRight(s)
    BY DEF PageInductive, PageTyped
  <2>. QED
    BY <1>3, <1>4, <1>6, <2>1, SessionStays
<1>. QED
  BY <1>3, <1>7, <1>8, <1>9, <1>10, <1>11, <1>12 DEF PageInductive, Page!OneSessionPerCode

\* No step breaks the invariant.
LEMMA PageSteps == PageSizes /\ PageInductive /\ [Page!Next]_pageVars => PageInductive'
<1>. SUFFICES ASSUME PageSizes, PageInductive, [Page!Next]_pageVars PROVE PageInductive'
  OBVIOUS
<1>0. pageClock \in Nat
  BY DEF PageInductive, PageTyped
<1>1. CASE UNCHANGED pageVars
  BY <1>0, <1>1, OthersKeep DEF pageVars
<1>2. CASE Page!Tick
  BY <1>0, <1>2, OthersKeep DEF Page!Tick
<1>3. ASSUME NEW u \in Accounts,
             \/ Page!SignsIn(u)
             \/ \E t \in Tabs : Page!Authorizes(u, t)
             \/ \E v \in Accounts \ {u} : Page!Merges(u, v)
      PROVE  PageInductive'
  BY <1>3, SignsInKeeps, AuthorizesKeeps, PageMergesKeep
<1>4. ASSUME NEW u \in Accounts, NEW field \in {"banned", "verified"},
             Page!AccountEdited(u, field)
      PROVE  PageInductive'
  BY <1>0, <1>4, OthersKeep DEF Page!AccountEdited
<1>5. ASSUME NEW t \in Tabs, NEW p \in PageProfiles, Page!OpensContext(t, p)
      PROVE  PageInductive'
  BY <1>0, <1>5, OthersKeep DEF Page!OpensContext
<1>6. ASSUME NEW e \in Requests,
             \/ \E t \in Tabs, c \in pageCodes : Page!ReadsCode(e, t, c)
             \/ Page!ConsumesCode(e)
      PROVE  PageInductive'
  BY <1>6, ReadsCodeKeeps, ConsumesCodeKeeps
<1>7. ASSUME NEW e \in Requests, Page!ExchangeFails(e) PROVE PageInductive'
  <2>1. PICK n \in PageExchange : n = Page!Idle /\ n.at = "none"
    BY ExchangeOver
  <2>2. ReadRight(n)
    BY <2>1 DEF ReadRight
  <2>. QED
    BY <1>7, <2>1, <2>2, ExchangesKeep DEF Page!ExchangeFails
<1>8. ASSUME NEW s \in sessions, Page!AttachesInitial(s) \/ Page!AttachesAnother(s)
      PROVE  PageInductive'
  BY <1>0, <1>8, OthersKeep DEF Page!AttachesInitial, Page!AttachesAnother
<1>. QED
  BY <1>1, <1>2, <1>3, <1>4, <1>5, <1>6, <1>7, <1>8 DEF Page!Next

\* The invariant says who a page's session is of, and that its time ends.
LEMMA PageConcludes == PageSizes /\ PageInductive => Page!PageSessionsSound
<1>. SUFFICES ASSUME PageSizes, PageInductive PROVE Page!PageSessionsSound
  OBVIOUS
<1>1. ASSUME NEW s \in sessions
      PROVE  s.until <= signedIn[s.user] + AccessTtl + CodeTtl + SessionTtl - 2
  <2>1. PICK z \in Nat, a \in Nat : z = s.until /\ a = signedIn[s.user] /\ SessionRight(s)
    BY DEF PageInductive, PageTyped, PageSessionToken
  <2>. QED
    BY <2>1 DEF SessionRight, PageSizes
<1>. QED
  BY <1>1 DEF PageInductive, SessionRight, Page!PageSessionsSound, Page!OfOwnPage, Page!ChainEnds

\* A behaviour of all machines is one of the sign-in, and one of the page.
LEMMA SessionSpecs == Spec => Access!Spec /\ Page!Spec
<1>1. Init => Access!Init /\ Page!Init
  BY DEF Init
<1>2. [Next]_allVars => [Access!Next]_signInVars
  BY DEF Next, LinksNext, TransferNext, MergeNext, AccessNext, StoreNext, DrawNext, FreeNext,
     CredentialsNext, CheckoutNext, RatesNext, GuardsNext, ScreensNext, CleanNext, ImportNext,
     PageNext, IdentityNext, allVars, accountSide, signInVars
<1>3. [Next]_allVars => [Page!Next]_pageVars
  BY DEF Next, LinksNext, TransferNext, MergeNext, AccessNext, StoreNext, DrawNext, FreeNext,
     CredentialsNext, CheckoutNext, RatesNext, GuardsNext, ScreensNext, CleanNext, ImportNext,
     PageNext, IdentityNext, allVars, salesSide, pageSide, pageVars
<1>. QED
  BY <1>1, <1>2, <1>3, PTL DEF Spec, Access!Spec, Access!signInVars, signInVars, Page!Spec,
     Page!pageVars, pageVars

\* For any number of requests, people and open pages, however requests overlap, break off
\* or meet a merge, and whatever the lifetimes are: a family of refresh tokens that nothing
\* overlapped in has one live token at most and none once it was revoked; a handoff gives
\* one session at most and is published only when there is one; a code that was not looked
\* at by two takes effect once at most and never after its attempts are used up
\* (android/repo.py).  A code of the subscription page gives one session, of whoever agreed
\* to that very page or was merged with him, and the session ends a known time after his
\* sign-in (web/subscription_sso_router.py).
THEOREM SessionsAreSound == Spec => []SessionsSound
<1>1. Access!Init => AccessInductive
  BY AccessBegins, AccessConstants
<1>2. AccessInductive /\ [Access!Next]_signInVars => AccessInductive'
  BY AccessSteps, AccessConstants
<1>3. AccessInductive => Access!SessionsSound
  BY AccessConcludes, AccessConstants
<1>4. Page!Init => PageInductive
  BY PageBegins, PageConstants
<1>5. PageInductive /\ [Page!Next]_pageVars => PageInductive'
  BY PageSteps, PageConstants
<1>6. PageInductive => Page!PageSessionsSound
  BY PageConcludes, PageConstants
<1>7. Spec => []Access!SessionsSound
  BY <1>1, <1>2, <1>3, SessionSpecs, PTL DEF Access!Spec, Access!signInVars, signInVars
<1>8. Spec => []Page!PageSessionsSound
  BY <1>4, <1>5, <1>6, SessionSpecs, PTL DEF Page!Spec, Page!pageVars, pageVars
<1>9. Access!SessionsSound /\ Page!PageSessionsSound => SessionsSound
  BY DEF SessionsSound
<1>. QED
  BY <1>7, <1>8, <1>9, PTL

-----------------------------------------------------------------------------
(***************************************************************************)
(* Credentials.  Unless Telegram vouched for an account or a claim rewrote *)
(* it beside something, what is verified was read, and so was what is      *)
(* about to be: a code went to the address the account has, or had before  *)
(* it was given one that was read.  Who is alone with an account writes    *)
(* what he read of it.                                                     *)
(***************************************************************************)

Mailed == Addresses \cup {NoAddress}
CredentialRow ==
    [exists : BOOLEAN, email : Mailed, password : BOOLEAN, verified : BOOLEAN, telegram : BOOLEAN]
AskRecord ==
    [pc : {"idle", "send", "finalize", "setup", "password", "mark", "change", "adopt"},
     user : Accounts \cup {NoAccount}, purpose : Claiming!Purposes \cup {"none"},
     address : Mailed, acc : Mailed, marks : BOOLEAN]

CredentialsTyped ==
    /\ person \in [Accounts -> CredentialRow]
    /\ bound # NoAccount => bound \in Accounts /\ person[bound].exists
    /\ panelMail \in Mailed
    /\ mailed \in [Accounts -> [Claiming!Purposes -> Mailed]]
    /\ asking \in [Requests -> AskRecord]
    /\ proven \in [Accounts -> SUBSET Addresses]

Excused(u) == u \in vouched \cup carried

\* The address of the account was read; or a code went to it, so that it will have been.
Proven(u) == person[u].email \in proven[u]
Reached(u, a) == a # NoAddress => a = person[u].email \/ Proven(u)

PersonRight(u) ==
    /\ ~person[u].exists =>
         /\ ~person[u].password /\ ~person[u].verified /\ person[u].email = NoAddress
         /\ \A p \in Claiming!Purposes : mailed[u][p] = NoAddress
    /\ person[u].password => person[u].email # NoAddress
    /\ ~Excused(u) =>
         /\ person[u].verified => Proven(u)
         /\ Reached(u, mailed[u]["verify"])
         /\ ~person[u].password => Reached(u, mailed[u]["setup_password"])
         /\ ~person[u].password /\ person[u].email # NoAddress => Reached(u, mailed[u]["claim"])

AskRight(x) ==
    x.pc # "idle" =>
        /\ x.user \in Accounts /\ person[x.user].exists
        /\ x.pc = "send" => x.purpose \in Claiming!Purposes /\ x.address \in Addresses
        /\ x.pc \in {"setup", "change"} => x.address \in proven[x.user]
        /\ x.pc = "password" => person[x.user].email # NoAddress
        /\ x.pc = "adopt" =>
             /\ x.acc \in Addresses /\ (x.marks => x.acc \in proven[x.user])
             /\ x.user \notin hurried => ~(person[x.user].verified /\ person[x.user].password)
        /\ ~Excused(x.user) =>
             /\ x.pc = "send" /\ x.purpose = "verify" => Reached(x.user, x.address)
             /\ x.pc = "send" /\ x.purpose = "setup_password" /\ ~person[x.user].password =>
                  Reached(x.user, x.address)
             /\ x.pc = "send" /\ x.purpose = "claim" /\ ~person[x.user].password
                  /\ person[x.user].email # NoAddress => Reached(x.user, x.address)
             /\ x.pc \in {"finalize", "mark", "change"} => Proven(x.user)
             /\ x.pc = "password" /\ x.marks => Proven(x.user)
             /\ x.pc = "setup" => person[x.user].email = NoAddress \/ Proven(x.user)

AskApart(x, y) ==
    x.pc # "idle" /\ y.pc # "idle" /\ x.user = y.user => x.user \in hurried

CredentialsInductive ==
    /\ CredentialsTyped
    /\ \A u \in Accounts : PersonRight(u)
    /\ \A h \in Requests : AskRight(asking[h])
    /\ \A g, h \in Requests : g # h => AskApart(asking[g], asking[h])
    /\ overwritten \subseteq hurried

\* A request that is over.
LEMMA QuietIs == Claiming!Quiet \in AskRecord /\ Claiming!Quiet.pc = "idle"
BY DEF Claiming!Quiet, AskRecord, Mailed

\* At most one account, with no request and no code.
LEMMA CredentialsBegin == CredentialSizes /\ Claiming!Init => CredentialsInductive
<1>. SUFFICES ASSUME CredentialSizes, Claiming!Init PROVE CredentialsInductive
  OBVIOUS
<1>1. PICK first \in Accounts, row \in {Claiming!Absent,
             [Claiming!Bare EXCEPT !.telegram = TRUE],
             [Claiming!Bare EXCEPT !.telegram = TRUE, !.email = CHOOSE a \in Addresses : TRUE]} :
        /\ person = [u \in Accounts |-> IF u = first THEN row ELSE Claiming!Absent]
        /\ bound \in IF row.exists THEN {first, NoAccount} ELSE {NoAccount}
  BY DEF Claiming!Init
<1>2. (CHOOSE a \in Addresses : TRUE) \in Addresses
  BY DEF CredentialSizes
<1>3. /\ Claiming!Absent \in CredentialRow /\ ~Claiming!Absent.exists
      /\ ~Claiming!Absent.password /\ ~Claiming!Absent.verified
      /\ Claiming!Absent.email = NoAddress
  BY DEF Claiming!Absent, CredentialRow, Mailed
<1>4. row \in CredentialRow /\ ~row.password /\ ~row.verified
      /\ (~row.exists => row.email = NoAddress)
  BY <1>1, <1>2, <1>3 DEF Claiming!Bare, Claiming!Absent, CredentialRow, Mailed
<1>5. /\ asking = [h \in Requests |-> Claiming!Quiet]
      /\ mailed = [u \in Accounts |-> [p \in Claiming!Purposes |-> NoAddress]]
      /\ panelMail \in Mailed /\ proven = [u \in Accounts |-> {}] /\ overwritten = {}
  BY DEF Claiming!Init, Mailed
<1>6. CredentialsTyped
  BY <1>1, <1>3, <1>4, <1>5, QuietIs DEF CredentialsTyped, Mailed
<1>7. ASSUME NEW u \in Accounts PROVE PersonRight(u)
  BY <1>1, <1>3, <1>4, <1>5 DEF PersonRight, Reached, Claiming!Purposes
<1>8. \A h \in Requests : asking[h].pc = "idle"
  BY <1>5, QuietIs
<1>. QED
  BY <1>5, <1>6, <1>7, <1>8 DEF CredentialsInductive, AskRight, AskApart

-----------------------------------------------------------------------------

\* The histories only grow.
Later == vouched \subseteq vouched' /\ carried \subseteq carried' /\ hurried \subseteq hurried'

\* A step is about account u.
AboutOne(u) ==
    /\ Later
    /\ \A w \in Accounts : w # u =>
         person'[w] = person[w] /\ mailed'[w] = mailed[w] /\ proven'[w] = proven[w]

\* Some other request is for account u.
Meets(h, u) == \E j \in Requests : j # h /\ asking[j].pc # "idle" /\ asking[j].user = u

\* Request h goes on as n, for account u.
GoesOn(h, u, n) ==
    /\ asking' = [asking EXCEPT ![h] = n]
    /\ n.pc # "idle" => n.user = u /\ (Meets(h, u) => u \in hurried')

\* The other requests for u are as right as before.
OthersRight(h, u) ==
    \A j \in Requests : \A x \in AskRecord :
        j # h /\ x = asking[j] /\ x.pc # "idle" /\ x.user = u => AskRight(x)'

\* A step of one request about one account.
LEMMA OneAccount ==
    ASSUME CredentialsInductive, CredentialsTyped', NEW u \in Accounts, AboutOne(u),
           PersonRight(u)', NEW h \in Requests, NEW n \in AskRecord, GoesOn(h, u, n),
           AskRight(n)', OthersRight(h, u), overwritten' \subseteq hurried'
    PROVE  CredentialsInductive'
<1>1. ASSUME NEW w \in Accounts PROVE PersonRight(w)'
  <2>1. CASE w = u
    BY <2>1
  <2>2. CASE w # u
    BY <2>2 DEF CredentialsInductive, PersonRight, AboutOne, Later, Excused, Reached, Proven
  <2>. QED
    BY <2>1, <2>2
<1>2. asking'[h] = n /\ \A j \in Requests : j # h => asking'[j] = asking[j] /\ asking[j] \in AskRecord
  BY DEF CredentialsInductive, CredentialsTyped, GoesOn
<1>3. ASSUME NEW j \in Requests PROVE AskRight(asking[j])'
  <2>1. PICK x : x = asking'[j]
    OBVIOUS
  <2>2. CASE j = h \/ x.pc = "idle"
    BY <1>2, <2>1, <2>2 DEF AskRight
  <2>3. CASE j # h /\ x.pc # "idle" /\ x.user = u
    <3>1. AskRight(x)'
      BY <1>2, <2>1, <2>3 DEF OthersRight
    <3>. QED
      BY <2>1, <3>1 DEF AskRight
  <2>4. CASE j # h /\ x.pc # "idle" /\ x.user # u
    <3>1. AskRight(x)
      BY <1>2, <2>1, <2>4 DEF CredentialsInductive
    <3>2. AskRight(x)'
      BY <2>4, <3>1 DEF AskRight, AboutOne, Later, Excused, Reached, Proven
    <3>. QED
      BY <2>1, <3>2 DEF AskRight
  <2>. QED
    BY <2>2, <2>3, <2>4
<1>4. ASSUME NEW g \in Requests, NEW j \in Requests, g # j
      PROVE  AskApart(asking[g], asking[j])'
  <2>1. PICK x, y : x = asking'[g] /\ y = asking'[j]
    OBVIOUS
  <2>2. CASE g # h /\ j # h
    <3>1. AskApart(x, y)
      BY <1>2, <1>4, <2>1, <2>2 DEF CredentialsInductive
    <3>. QED
      BY <2>1, <3>1 DEF AskApart, AboutOne, Later
  <2>3. CASE g = h
    BY <1>2, <1>4, <2>1, <2>3 DEF AskApart, GoesOn, Meets
  <2>4. CASE j = h
    BY <1>2, <1>4, <2>1, <2>4 DEF AskApart, GoesOn, Meets
  <2>. QED
    BY <2>2, <2>3, <2>4
<1>. QED
  BY <1>1, <1>3, <1>4 DEF CredentialsInductive

\* What is read and mailed of account u only grows and shrinks.
Grows(u) ==
    /\ AboutOne(u) /\ person'[u] = person[u] /\ proven[u] \subseteq proven'[u]
    /\ \A p \in Claiming!Purposes : mailed'[u][p] \in {mailed[u][p], NoAddress}

\* Then what was right is right.
LEMMA GrowingKeeps ==
    ASSUME CredentialsInductive, NEW u \in Accounts, Grows(u), NEW h \in Requests
    PROVE  PersonRight(u)' /\ OthersRight(h, u)
<1>1. PersonRight(u)'
  BY DEF CredentialsInductive, PersonRight, Grows, AboutOne, Later, Excused, Reached, Proven,
     Claiming!Purposes
<1>2. ASSUME NEW x \in AskRecord, x.pc # "idle", x.user = u, AskRight(x) PROVE AskRight(x)'
  BY <1>2 DEF AskRight, Grows, AboutOne, Later, Excused, Reached, Proven
<1>3. \A j \in Requests : AskRight(asking[j])
  BY DEF CredentialsInductive
<1>. QED
  BY <1>1, <1>2, <1>3 DEF OthersRight

\* A request begins or goes on, and the account stays as it is.
LEMMA GrowthKeeps ==
    ASSUME CredentialsInductive, CredentialsTyped', NEW u \in Accounts, Grows(u),
           NEW h \in Requests, NEW n \in AskRecord, GoesOn(h, u, n), AskRight(n)',
           overwritten' = overwritten
    PROVE  CredentialsInductive'
<1>1. PersonRight(u)' /\ OthersRight(h, u)
  BY GrowingKeeps
<1>2. AboutOne(u)
  BY DEF Grows
<1>3. overwritten' \subseteq hurried'
  BY <1>2 DEF CredentialsInductive, AboutOne, Later
<1>. QED
  BY <1>1, <1>2, <1>3, OneAccount

\* What begins meets whoever is under way.
LEMMA BeginsIs ==
    ASSUME CredentialSizes, CredentialsInductive, NEW h \in Requests, NEW n \in AskRecord,
           NEW u \in Accounts, n.user = u, n.pc # "idle", Claiming!Begins(h, n)
    PROVE  GoesOn(h, u, n) /\ hurried \subseteq hurried'
<1>1. /\ asking' = [asking EXCEPT ![h] = n]
      /\ hurried' = IF Claiming!Busy(u) # {} THEN hurried \cup {u} ELSE hurried
  BY DEF Claiming!Begins
<1>2. Meets(h, u) => Claiming!Busy(u) # {}
  BY DEF Meets, Claiming!Busy
<1>. QED
  BY <1>1, <1>2 DEF GoesOn

-----------------------------------------------------------------------------

\* The account stays as it is; a code of it may be used up and its address read.
Steady(u) ==
    /\ person' = person /\ bound' = bound /\ panelMail' = panelMail
    /\ mailed' \in [Accounts -> [Claiming!Purposes -> Mailed]]
    /\ proven' \in [Accounts -> SUBSET Addresses]
    /\ vouched \subseteq vouched' /\ carried \subseteq carried' /\ overwritten' = overwritten
    /\ proven[u] \subseteq proven'[u]
    /\ \A p \in Claiming!Purposes : mailed'[u][p] \in {mailed[u][p], NoAddress}
    /\ \A w \in Accounts : w # u => mailed'[w] = mailed[w] /\ proven'[w] = proven[w]

\* A request begins, and the account stays as it is.
LEMMA AskBeginKeeps ==
    ASSUME CredentialSizes, CredentialsInductive, NEW u \in Accounts, Steady(u),
           NEW h \in Requests, NEW n \in AskRecord, n.user = u, n.pc # "idle",
           Claiming!Begins(h, n), AskRight(n)'
    PROVE  CredentialsInductive'
<1>1. GoesOn(h, u, n) /\ hurried \subseteq hurried'
  BY BeginsIs
<1>2. Grows(u)
  BY <1>1 DEF Grows, AboutOne, Later, Steady
<1>3. CredentialsTyped'
  BY <1>1 DEF CredentialsTyped, CredentialsInductive, GoesOn, Steady
<1>4. overwritten' = overwritten
  BY DEF Steady
<1>. QED
  BY <1>1, <1>2, <1>3, <1>4, GrowthKeeps

\* Nothing but the request is written.
LEMMA StillIs ==
    ASSUME CredentialsInductive, NEW u \in Accounts,
           UNCHANGED <<person, bound, panelMail, mailed, proven, carried, overwritten>>,
           vouched \subseteq vouched'
    PROVE  Steady(u)
BY DEF Steady, CredentialsInductive, CredentialsTyped

\* What is known of an account.
LEMMA PersonIs ==
    ASSUME CredentialsInductive, NEW u \in Accounts
    PROVE  /\ person[u] \in CredentialRow /\ mailed[u] \in [Claiming!Purposes -> Mailed]
           /\ PersonRight(u) /\ (person[u].email # NoAddress => person[u].email \in Addresses)
           /\ (bound # NoAccount => bound \in Accounts /\ person[bound].exists)
BY DEF CredentialsInductive, CredentialsTyped, CredentialRow, Mailed

\* A code is asked for.
LEMMA MailsKeeps ==
    ASSUME CredentialSizes, CredentialsInductive, NEW h \in Requests, NEW u \in Accounts,
           NEW p \in Claiming!Purposes, NEW a \in Addresses, Claiming!Mails(h, u, p, a),
           person[u].exists,
           \/ p \in {"setup_email", "email_change"}
           \/ p = "claim" /\ person[u].email = NoAddress
           \/ a = person[u].email,
           UNCHANGED <<person, bound, panelMail, mailed, proven, vouched, carried, overwritten>>
    PROVE  CredentialsInductive'
<1>1. PICK n : n = [Claiming!Quiet EXCEPT !.pc = "send", !.user = u, !.purpose = p, !.address = a]
  OBVIOUS
<1>2. n \in AskRecord /\ n.user = u /\ n.pc = "send" /\ n.purpose = p /\ n.address = a
  BY <1>1 DEF Claiming!Quiet, AskRecord, Mailed
<1>3. Claiming!Begins(h, n)
  BY <1>1 DEF Claiming!Mails
<1>4. AskRight(n)'
  BY <1>2 DEF AskRight, Reached, Proven, Claiming!Purposes
<1>. QED
  BY <1>2, <1>3, <1>4, StillIs, AskBeginKeeps

\* The four codes that are mailed to an account.
LEMMA AsksKeep ==
    ASSUME CredentialSizes, CredentialsInductive, NEW h \in Requests, NEW u \in Accounts,
           NEW a \in Addresses,
           \/ Claiming!AskVerification(h, u) \/ Claiming!AskSetupPassword(h, u)
           \/ Claiming!AskSetupEmail(h, u, a) \/ Claiming!AskEmailChange(h, u, a)
    PROVE  CredentialsInductive'
<1>1. PersonRight(u) /\ (person[u].email # NoAddress => person[u].email \in Addresses)
  BY PersonIs
<1>2. CASE Claiming!AskVerification(h, u)
  <2>1. PICK e \in Addresses : e = person[u].email
    BY <1>1, <1>2 DEF Claiming!AskVerification
  <2>. QED
    BY <1>2, <2>1, MailsKeeps DEF Claiming!AskVerification, Claiming!Exists, Claiming!Purposes,
       Claiming!found, Claiming!history
<1>3. CASE Claiming!AskSetupPassword(h, u)
  <2>1. PICK e \in Addresses : e = person[u].email
    BY <1>1, <1>3 DEF Claiming!AskSetupPassword
  <2>. QED
    BY <1>3, <2>1, MailsKeeps DEF Claiming!AskSetupPassword, Claiming!Exists, Claiming!Purposes,
       Claiming!found, Claiming!history
<1>4. CASE Claiming!AskSetupEmail(h, u, a)
  BY <1>4, MailsKeeps DEF Claiming!AskSetupEmail, Claiming!Exists, Claiming!Purposes,
     Claiming!found, Claiming!history
<1>5. CASE Claiming!AskEmailChange(h, u, a)
  BY <1>5, MailsKeeps DEF Claiming!AskEmailChange, Claiming!Exists, Claiming!Purposes,
     Claiming!found, Claiming!history
<1>. QED
  BY <1>2, <1>3, <1>4, <1>5

\* A code comes back: its address was read.
LEMMA ConsumesIs ==
    ASSUME CredentialsInductive, NEW u \in Accounts, NEW p \in Claiming!Purposes,
           Claiming!Consumes(u, p), UNCHANGED <<person, bound, panelMail>>
    PROVE  /\ Steady(u) /\ person[u].exists
           /\ mailed[u][p] \in Addresses /\ mailed[u][p] \in proven'[u]
           /\ (Reached(u, mailed[u][p]) => Proven(u)')
<1>1. /\ mailed[u][p] \in Mailed /\ mailed[u][p] # NoAddress
      /\ mailed' = [mailed EXCEPT ![u][p] = NoAddress]
      /\ proven' = [proven EXCEPT ![u] = @ \cup {mailed[u][p]}]
      /\ UNCHANGED <<vouched, carried, overwritten>>
  BY DEF Claiming!Consumes, CredentialsInductive, CredentialsTyped
<1>2. /\ mailed \in [Accounts -> [Claiming!Purposes -> Mailed]]
      /\ proven \in [Accounts -> SUBSET Addresses]
  BY DEF CredentialsInductive, CredentialsTyped
<1>3. mailed[u][p] \in Addresses /\ mailed[u][p] \in proven'[u] /\ proven[u] \subseteq proven'[u]
  BY <1>1, <1>2 DEF Mailed
<1>4. Steady(u)
  BY <1>1, <1>2, <1>3 DEF Steady, Mailed
<1>5. person[u].exists
  BY <1>1, PersonIs DEF PersonRight
<1>6. Reached(u, mailed[u][p]) => Proven(u)'
  BY <1>1, <1>3 DEF Reached, Proven
<1>. QED
  BY <1>3, <1>4, <1>5, <1>6

\* A confirmation of account u goes on as r.
LEMMA ConfirmsKeeps ==
    ASSUME CredentialSizes, CredentialsInductive, NEW h \in Requests, NEW u \in Accounts,
           NEW p \in Claiming!Purposes, NEW pc \in {"finalize", "setup", "password", "change"},
           NEW marks \in BOOLEAN, Claiming!Confirms(h, u, p, pc, marks),
           pc = "password" => person[u].email # NoAddress,
           pc = "change" => person[u].verified,
           pc = "setup" => person[u].email = NoAddress,
           pc = "finalize" \/ (pc = "password" /\ marks) =>
             Excused(u) \/ Reached(u, mailed[u][p])
    PROVE  CredentialsInductive'
<1>1. Steady(u) /\ person[u].exists /\ person' = person
      /\ mailed[u][p] \in Addresses /\ mailed[u][p] \in proven'[u]
      /\ (Reached(u, mailed[u][p]) => Proven(u)')
  <2>1. Claiming!Consumes(u, p) /\ UNCHANGED <<person, bound, panelMail>>
    BY DEF Claiming!Confirms, Claiming!found
  <2>. QED
    BY <2>1, ConsumesIs
<1>2. PICK n : n = [Claiming!Quiet EXCEPT !.pc = pc, !.user = u, !.purpose = p,
                                          !.address = mailed[u][p], !.marks = marks]
  OBVIOUS
<1>3. n \in AskRecord /\ n.user = u /\ n.pc = pc /\ n.address = mailed[u][p] /\ n.marks = marks
  BY <1>1, <1>2 DEF Claiming!Quiet, AskRecord, Mailed
<1>4. Claiming!Begins(h, n)
  BY <1>2 DEF Claiming!Confirms
<1>5. person[u].verified => Excused(u) \/ Proven(u)
  BY PersonIs DEF PersonRight
<1>6. (Excused(u) => Excused(u)') /\ (Proven(u) => Proven(u)')
  BY <1>1 DEF Excused, Steady, Proven
<1>7. AskRight(n)'
  <2>1. /\ n.pc \notin {"idle", "send", "adopt", "mark"}
        /\ n.user \in Accounts /\ person'[n.user].exists
        /\ n.address \in proven'[n.user]
    BY <1>1, <1>3
  <2>2. n.pc = "password" => person'[n.user].email # NoAddress
    BY <1>1, <1>3
  <2>3. ~Excused(u)' =>
        /\ n.pc \in {"finalize", "change"} => Proven(u)'
        /\ n.pc = "password" /\ n.marks => Proven(u)'
        /\ n.pc = "setup" => person'[u].email = NoAddress
    BY <1>1, <1>3, <1>5, <1>6
  <2>4. ~Excused(n.user)' =>
        /\ n.pc \in {"finalize", "mark", "change"} => Proven(n.user)'
        /\ n.pc = "password" /\ n.marks => Proven(n.user)'
        /\ n.pc = "setup" => person'[n.user].email = NoAddress
    BY <1>3, <2>1, <2>3
  <2>. QED
    BY <2>1, <2>2, <2>4 DEF AskRight
<1>. QED
  BY <1>1, <1>3, <1>4, <1>7, AskBeginKeeps

\* The confirmations of an address.
LEMMA ConfirmKeeps ==
    ASSUME CredentialSizes, CredentialsInductive, NEW h \in Requests, NEW u \in Accounts,
           \/ Claiming!EmailVerify(h, u) \/ Claiming!SetupEmailConfirm(h, u)
           \/ Claiming!SetupPasswordConfirm(h, u) \/ Claiming!EmailChangeConfirm(h, u)
           \/ Claiming!ClaimPassword(h, u)
    PROVE  CredentialsInductive'
<1>1. PersonRight(u) /\ person[u] \in CredentialRow
      /\ (bound # NoAccount => bound \in Accounts /\ person[bound].exists)
  BY PersonIs
<1>2. {"verify", "claim", "setup_email", "setup_password", "email_change"} = Claiming!Purposes
  BY DEF Claiming!Purposes
<1>3. CASE Claiming!EmailVerify(h, u)
  <2>1. Excused(u) \/ Reached(u, mailed[u]["verify"])
    BY <1>1 DEF PersonRight
  <2>. QED
    BY <1>2, <1>3, <2>1, ConfirmsKeeps DEF Claiming!EmailVerify
<1>4. CASE Claiming!SetupEmailConfirm(h, u)
  BY <1>2, <1>4, ConfirmsKeeps DEF Claiming!SetupEmailConfirm
<1>5. CASE Claiming!SetupPasswordConfirm(h, u)
  <2>1. Excused(u) \/ Reached(u, mailed[u]["setup_password"])
    BY <1>1, <1>5 DEF PersonRight, Claiming!SetupPasswordConfirm
  <2>2. PICK m \in BOOLEAN : m = ~person[u].verified
    BY <1>1 DEF CredentialRow
  <2>. QED
    BY <1>2, <1>5, <2>1, <2>2, ConfirmsKeeps DEF Claiming!SetupPasswordConfirm
<1>6. CASE Claiming!EmailChangeConfirm(h, u)
  BY <1>2, <1>6, ConfirmsKeeps DEF Claiming!EmailChangeConfirm
<1>7. CASE Claiming!ClaimPassword(h, u)
  <2>1. u = bound /\ person[u].email # NoAddress /\ ~person[u].password
    BY <1>1, <1>7 DEF Claiming!ClaimPassword, Claiming!Status
  <2>2. Excused(u) \/ Reached(u, mailed[u]["claim"])
    BY <1>1, <2>1 DEF PersonRight
  <2>3. PICK m \in BOOLEAN : m = ~person[u].verified
    BY <1>1 DEF CredentialRow
  <2>. QED
    BY <1>2, <1>7, <2>1, <2>2, <2>3, ConfirmsKeeps DEF Claiming!ClaimPassword
<1>. QED
  BY <1>3, <1>4, <1>5, <1>6, <1>7

\* A request to rewrite account u begins; the claim's code may be used up.
LEMMA AdoptingKeeps ==
    ASSUME CredentialSizes, CredentialsInductive, NEW h \in Requests, NEW u \in Accounts,
           NEW acc \in Addresses, NEW n, n = Claiming!Adopting(u, acc),
           Claiming!Begins(h, n), Steady(u), person[u].exists,
           ~(person[u].verified /\ person[u].password)
    PROVE  CredentialsInductive'
<1>1. n \in AskRecord /\ n.user = u /\ n.pc = "adopt" /\ n.acc = acc /\ n.marks = FALSE
  BY DEF Claiming!Adopting, Claiming!Quiet, AskRecord, Mailed
<1>2. AskRight(n)'
  BY <1>1 DEF AskRight, Steady
<1>. QED
  BY <1>1, <1>2, AskBeginKeeps

\* claim_complete with the code of the profile's mailbox marks the address that got it.
LEMMA ClaimCodeKeeps ==
    ASSUME CredentialSizes, CredentialsInductive, NEW h \in Requests, NEW u \in Accounts,
           NEW acc \in Addresses, Claiming!ClaimWithCode(h, u, acc)
    PROVE  CredentialsInductive'
<1>1. "claim" \in Claiming!Purposes
  BY DEF Claiming!Purposes
<1>2. /\ u = bound /\ Claiming!Status = "rw_only" /\ Claiming!Consumes(u, "claim")
      /\ UNCHANGED <<person, bound, panelMail>>
  BY DEF Claiming!ClaimWithCode, Claiming!found
<1>3. Steady(u) /\ person[u].exists /\ mailed[u]["claim"] \in proven'[u]
  BY <1>1, <1>2, ConsumesIs
<1>4. person[u].email = NoAddress /\ PersonRight(u)
  BY <1>2, PersonIs DEF Claiming!Status, CredentialSizes
<1>5. PICK n : n = [Claiming!Quiet EXCEPT !.pc = "adopt", !.user = u, !.acc = acc,
                      !.marks = Claiming!ClaimMarks(acc, mailed[u]["claim"])]
  OBVIOUS
<1>6. /\ n \in AskRecord /\ n.user = u /\ n.pc = "adopt" /\ n.acc = acc
      /\ n.marks = (acc = mailed[u]["claim"])
  BY <1>5 DEF Claiming!Quiet, Claiming!ClaimMarks, AskRecord, Mailed
<1>7. Claiming!Begins(h, n)
  BY <1>5 DEF Claiming!ClaimWithCode
<1>8. AskRight(n)'
  BY <1>3, <1>4, <1>6 DEF AskRight, Steady, PersonRight
<1>. QED
  BY <1>3, <1>6, <1>7, <1>8, AskBeginKeeps

\* claim_complete for an abandoned registration, and migrate.
LEMMA AdoptsKeep ==
    ASSUME CredentialSizes, CredentialsInductive, NEW h \in Requests, NEW u \in Accounts,
           NEW acc \in Addresses,
           Claiming!ClaimAgain(h, u, acc) \/ Claiming!Migrate(h, u, acc)
    PROVE  CredentialsInductive'
<1>1. u = bound /\ person[u].exists /\ PersonRight(u)
  BY PersonIs DEF Claiming!ClaimAgain, Claiming!Migrate, CredentialSizes
<1>2. ~(person[u].verified /\ person[u].password)
  BY <1>1 DEF Claiming!ClaimAgain, Claiming!Replaceable, Claiming!Migrate, PersonRight
<1>3. Steady(u)
  BY StillIs DEF Claiming!ClaimAgain, Claiming!Migrate, Claiming!found, Claiming!history
<1>4. PICK n : n = Claiming!Adopting(u, acc)
  OBVIOUS
<1>5. Claiming!Begins(h, n)
  BY <1>4 DEF Claiming!ClaimAgain, Claiming!Migrate
<1>. QED
  BY <1>1, <1>2, <1>3, <1>4, <1>5, AdoptingKeeps

\* telegram_auth_exchange: Telegram vouches for the account.
LEMMA TelegramKeeps ==
    ASSUME CredentialSizes, CredentialsInductive, NEW h \in Requests, NEW u \in Accounts,
           Claiming!TelegramLogin(h, u)
    PROVE  CredentialsInductive'
<1>1. PICK n : n = [Claiming!Quiet EXCEPT !.pc = "mark", !.user = u]
  OBVIOUS
<1>2. n \in AskRecord /\ n.user = u /\ n.pc = "mark"
  BY <1>1 DEF Claiming!Quiet, AskRecord, Mailed
<1>3. Claiming!Begins(h, n) /\ person[u].exists /\ person' = person /\ vouched' = vouched \cup {u}
  BY <1>1 DEF Claiming!TelegramLogin, Claiming!Exists
<1>4. Steady(u)
  BY <1>3, StillIs DEF Claiming!TelegramLogin, Claiming!found
<1>5. AskRight(n)'
  BY <1>2, <1>3 DEF AskRight, Excused
<1>. QED
  BY <1>2, <1>3, <1>4, <1>5, AskBeginKeeps

\* Of an account that does not exist there is neither a request nor a code.
LEMMA NobodyIs ==
    ASSUME CredentialsInductive, NEW u \in Accounts, ~person[u].exists
    PROVE  /\ \A j \in Requests : asking[j].pc # "idle" => asking[j].user # u
           /\ \A p \in Claiming!Purposes : mailed[u][p] = NoAddress
BY PersonIs DEF CredentialsInductive, AskRight, PersonRight

\* An account is written, and one request goes on.
LEMMA WriteKeeps ==
    ASSUME CredentialSizes, CredentialsInductive, NEW u \in Accounts,
           NEW row \in CredentialRow, row.exists, person' = [person EXCEPT ![u] = row],
           bound' \in {bound, u}, UNCHANGED <<panelMail, mailed, proven, vouched>>,
           carried \subseteq carried', hurried \subseteq hurried',
           NEW h \in Requests, NEW n \in AskRecord, GoesOn(h, u, n), AskRight(n)',
           PersonRight(u)', OthersRight(h, u), overwritten' \subseteq hurried'
    PROVE  CredentialsInductive'
<1>1. AboutOne(u)
  BY DEF AboutOne, Later, CredentialsInductive, CredentialsTyped
<1>2. person' \in [Accounts -> CredentialRow] /\ asking' \in [Requests -> AskRecord]
  BY DEF CredentialsInductive, CredentialsTyped, GoesOn
<1>3. bound' # NoAccount => bound' \in Accounts /\ person'[bound'].exists
  BY DEF CredentialsInductive, CredentialsTyped
<1>4. CredentialsTyped'
  BY <1>2, <1>3 DEF CredentialsInductive, CredentialsTyped
<1>. QED
  BY <1>1, <1>4, OneAccount

\* A new account has nothing that could be wrong.
LEMMA NewIsRight ==
    ASSUME CredentialsInductive, NEW u \in Accounts, NEW row \in CredentialRow,
           ~person[u].exists, person' = [person EXCEPT ![u] = row], mailed' = mailed,
           row.exists, ~row.verified, row.password => row.email # NoAddress
    PROVE  PersonRight(u)' /\ \A h \in Requests : OthersRight(h, u)
<1>1. \A p \in Claiming!Purposes : mailed'[u][p] = NoAddress
  BY NobodyIs
<1>2. person'[u] = row
  BY DEF CredentialsInductive, CredentialsTyped
<1>3. PersonRight(u)'
  BY <1>1, <1>2 DEF PersonRight, Reached, Claiming!Purposes
<1>4. \A h \in Requests : OthersRight(h, u)
  BY NobodyIs DEF OthersRight
<1>. QED
  BY <1>3, <1>4

\* Registration, and migrate with a new account: no request is under way for it.
LEMMA NewKeeps ==
    ASSUME CredentialSizes, CredentialsInductive, NEW u \in Accounts, NEW a \in Addresses,
           Claiming!Register(u, a) \/ Claiming!MigrateNew(u, a)
    PROVE  CredentialsInductive'
<1>1. PICK row : row = [Claiming!Bare EXCEPT !.email = a, !.password = TRUE]
  OBVIOUS
<1>2. row \in CredentialRow /\ row.exists /\ ~row.verified /\ row.email # NoAddress
  BY <1>1 DEF Claiming!Bare, Claiming!Absent, CredentialRow, Mailed, CredentialSizes
<1>3. /\ ~person[u].exists /\ person' = [person EXCEPT ![u] = row] /\ bound' \in {bound, u}
      /\ UNCHANGED <<panelMail, mailed, asking, proven, vouched, carried, overwritten, hurried>>
  BY <1>1 DEF Claiming!Register, Claiming!MigrateNew, Claiming!Exists, Claiming!found,
     Claiming!history
<1>4. PersonRight(u)' /\ \A h \in Requests : OthersRight(h, u)
  BY <1>2, <1>3, NewIsRight
<1>5. \A j \in Requests : asking[j].pc # "idle" => asking[j].user # u
  BY <1>3, NobodyIs
<1>6. AboutOne(u)
  BY <1>3 DEF AboutOne, Later, CredentialsInductive, CredentialsTyped
<1>7. CredentialsTyped'
  BY <1>2, <1>3 DEF CredentialsInductive, CredentialsTyped
<1>8. ASSUME NEW w \in Accounts PROVE PersonRight(w)'
  <2>1. CASE w = u
    BY <1>4, <2>1
  <2>2. CASE w # u
    BY <1>6, <2>2 DEF CredentialsInductive, PersonRight, AboutOne, Later, Excused, Reached, Proven
  <2>. QED
    BY <2>1, <2>2
<1>9. ASSUME NEW j \in Requests PROVE AskRight(asking[j])'
  <2>1. PICK x : x = asking[j]
    OBVIOUS
  <2>2. AskRight(x) /\ (x.pc # "idle" => x.user # u)
    BY <1>5, <2>1 DEF CredentialsInductive
  <2>3. AskRight(x)'
    BY <1>6, <2>2 DEF AskRight, AboutOne, Later, Excused, Reached, Proven
  <2>. QED
    BY <1>3, <2>1, <2>3 DEF AskRight
<1>10. \A g, h \in Requests : g # h => AskApart(asking[g], asking[h])'
  BY <1>3 DEF CredentialsInductive, AskApart
<1>. QED
  BY <1>3, <1>7, <1>8, <1>9, <1>10 DEF CredentialsInductive

\* A bare account is made for the subscription, and a request begins for it.
LEMMA AnchorKeeps ==
    ASSUME CredentialSizes, CredentialsInductive, NEW u \in Accounts, ~person[u].exists,
           person' = [person EXCEPT ![u] = Claiming!Bare], bound' = u,
           UNCHANGED <<panelMail, mailed, proven, vouched, carried, overwritten>>,
           NEW h \in Requests, NEW n \in AskRecord, n.user = u, n.pc # "idle",
           Claiming!Begins(h, n), AskRight(n)'
    PROVE  CredentialsInductive'
<1>1. PICK row : row = Claiming!Bare
  OBVIOUS
<1>2. /\ row \in CredentialRow /\ row.exists /\ ~row.verified /\ ~row.password
  BY <1>1 DEF Claiming!Bare, Claiming!Absent, CredentialRow, Mailed
<1>3. person' = [person EXCEPT ![u] = row]
  BY <1>1
<1>4. PersonRight(u)' /\ OthersRight(h, u)
  BY <1>2, <1>3, NewIsRight
<1>5. GoesOn(h, u, n) /\ hurried \subseteq hurried'
  BY BeginsIs
<1>6. overwritten' \subseteq hurried'
  BY <1>5 DEF CredentialsInductive
<1>. QED
  BY <1>2, <1>3, <1>4, <1>5, <1>6, WriteKeeps

\* claim_otp_request: the code goes to the owner's address, or to the profile's if he has none.
LEMMA ClaimOtpKeeps ==
    ASSUME CredentialSizes, CredentialsInductive, NEW h \in Requests, NEW u \in Accounts,
           Claiming!ClaimOtpRequest(h, u)
    PROVE  CredentialsInductive'
<1>1. "claim" \in Claiming!Purposes /\ panelMail \in Mailed
      /\ (bound # NoAccount => bound \in Accounts /\ person[bound].email \in Mailed)
  BY DEF Claiming!Purposes, CredentialsInductive, CredentialsTyped, CredentialRow
<1>2. /\ Claiming!Status # "ready_login" /\ Claiming!OwnerEmail # NoAddress
      /\ Claiming!Anchored(u) /\ Claiming!Mails(h, u, "claim", Claiming!OwnerEmail)
      /\ UNCHANGED <<panelMail, mailed, proven, vouched, carried, overwritten>>
  BY DEF Claiming!ClaimOtpRequest, Claiming!history
<1>3. PICK a \in Addresses : a = Claiming!OwnerEmail
  BY <1>1, <1>2 DEF Claiming!OwnerEmail, Claiming!Status, Mailed
<1>4. Claiming!Mails(h, u, "claim", a)
  BY <1>2, <1>3
<1>5. CASE bound = NoAccount
  <2>1. PICK n : n = [Claiming!Quiet EXCEPT !.pc = "send", !.user = u, !.purpose = "claim",
                                            !.address = a]
    OBVIOUS
  <2>2. n \in AskRecord /\ n.user = u /\ n.pc = "send" /\ n.purpose = "claim" /\ n.address = a
    BY <2>1 DEF Claiming!Quiet, AskRecord, Mailed, Claiming!Purposes
  <2>3. Claiming!Begins(h, n)
    BY <1>4, <2>1 DEF Claiming!Mails
  <2>4. ~person[u].exists /\ person' = [person EXCEPT ![u] = Claiming!Bare] /\ bound' = u
    BY <1>2, <1>5 DEF Claiming!Anchored, Claiming!Exists
  <2>5. person'[u].exists /\ person'[u].email = NoAddress
    BY <2>4 DEF CredentialsInductive, CredentialsTyped, Claiming!Bare, Claiming!Absent
  <2>6. AskRight(n)'
    BY <1>1, <2>2, <2>5 DEF AskRight, Reached, Proven
  <2>. QED
    BY <1>2, <2>2, <2>3, <2>4, <2>6, AnchorKeeps
<1>6. CASE bound # NoAccount
  <2>1. u = bound /\ UNCHANGED <<person, bound>> /\ person[u].exists
    BY <1>2, <1>6, PersonIs DEF Claiming!Anchored
  <2>2. person[u].email = NoAddress \/ a = person[u].email
    BY <1>2, <1>3, <1>6, <2>1 DEF Claiming!OwnerEmail, Claiming!Status
  <2>. QED
    BY <1>1, <1>2, <1>4, <2>1, <2>2, MailsKeeps
<1>. QED
  BY <1>5, <1>6

\* claim_complete where no mailbox is known.
LEMMA ClaimPlainKeeps ==
    ASSUME CredentialSizes, CredentialsInductive, NEW h \in Requests, NEW u \in Accounts,
           NEW acc \in Addresses, Claiming!ClaimWithoutMailbox(h, u, acc)
    PROVE  CredentialsInductive'
<1>1. PICK n : n = Claiming!Adopting(u, acc)
  OBVIOUS
<1>2. n \in AskRecord /\ n.user = u /\ n.pc = "adopt" /\ n.acc = acc /\ n.marks = FALSE
  BY <1>1 DEF Claiming!Adopting, Claiming!Quiet, AskRecord, Mailed
<1>3. /\ Claiming!Status = "rw_only" /\ Claiming!Anchored(u) /\ Claiming!Begins(h, n)
      /\ UNCHANGED <<panelMail, mailed, proven, vouched, carried, overwritten>>
  BY <1>1 DEF Claiming!ClaimWithoutMailbox, Claiming!history
<1>4. CASE bound = NoAccount
  <2>1. ~person[u].exists /\ person' = [person EXCEPT ![u] = Claiming!Bare] /\ bound' = u
    BY <1>3, <1>4 DEF Claiming!Anchored, Claiming!Exists
  <2>2. person'[u].exists /\ ~person'[u].password
    BY <2>1 DEF CredentialsInductive, CredentialsTyped, Claiming!Bare, Claiming!Absent
  <2>3. AskRight(n)'
    BY <1>2, <2>2 DEF AskRight
  <2>. QED
    BY <1>2, <1>3, <2>1, <2>3, AnchorKeeps
<1>5. CASE bound # NoAccount
  <2>1. u = bound /\ UNCHANGED <<person, bound>> /\ person[u].exists /\ PersonRight(u)
    BY <1>3, <1>5, PersonIs DEF Claiming!Anchored
  <2>2. ~(person[u].verified /\ person[u].password)
    BY <1>3, <1>5, <2>1 DEF Claiming!Status, PersonRight
  <2>3. Steady(u)
    BY <1>3, <2>1, StillIs
  <2>. QED
    BY <1>1, <1>3, <2>1, <2>2, <2>3, AdoptingKeeps
<1>. QED
  BY <1>4, <1>5

-----------------------------------------------------------------------------

\* A request that is under way.
LEMMA AskIs ==
    ASSUME CredentialsInductive, NEW h \in Requests
    PROVE  /\ asking[h] \in AskRecord /\ AskRight(asking[h])
           /\ (asking[h].pc # "idle" =>
                 /\ asking[h].user \in Accounts
                 /\ (Meets(h, asking[h].user) => asking[h].user \in hurried))
BY DEF CredentialsInductive, CredentialsTyped, AskRight, AskApart, Meets

\* A request ends.
LEMMA EndsIs ==
    ASSUME NEW h \in Requests, Claiming!Ends(h), NEW u \in Accounts, NEW n, n = Claiming!Quiet
    PROVE  n \in AskRecord /\ GoesOn(h, u, n) /\ AskRight(n)' /\ hurried' = hurried
BY QuietIs DEF Claiming!Ends, GoesOn, AskRight

\* A request goes on to its last write.
LEMMA GoesIs ==
    ASSUME CredentialsInductive, NEW h \in Requests, asking[h].pc # "idle",
           Claiming!Goes(h, "mark"), NEW n, n = [asking[h] EXCEPT !.pc = "mark"]
    PROVE  /\ n \in AskRecord /\ n.pc = "mark" /\ n.user = asking[h].user
           /\ GoesOn(h, n.user, n) /\ hurried' = hurried
<1>1. asking[h] \in AskRecord /\ asking' = [asking EXCEPT ![h] = n] /\ hurried' = hurried
  BY DEF Claiming!Goes, CredentialsInductive, CredentialsTyped
<1>2. n \in AskRecord /\ n.pc = "mark" /\ n.user = asking[h].user
  BY <1>1 DEF AskRecord
<1>. QED
  BY <1>1, <1>2, AskIs DEF GoesOn

\* A request ends without a write, or stores the code it has mailed.
LEMMA EndKeeps ==
    ASSUME CredentialsInductive, NEW h \in Requests, Claiming!Ends(h), asking[h].pc # "idle",
           UNCHANGED <<person, bound, panelMail, mailed, proven, vouched, carried, overwritten>>
    PROVE  CredentialsInductive'
<1>1. PICK u \in Accounts : u = asking[h].user
  BY AskIs
<1>2. PICK n : n = Claiming!Quiet
  OBVIOUS
<1>3. n \in AskRecord /\ GoesOn(h, u, n) /\ AskRight(n)' /\ hurried' = hurried
  BY <1>2, EndsIs
<1>4. Grows(u) /\ CredentialsTyped'
  BY <1>3 DEF Grows, AboutOne, Later, GoesOn, CredentialsInductive, CredentialsTyped
<1>. QED
  BY <1>3, <1>4, GrowthKeeps

\* The code goes to the address the request was made for.
LEMMA CodeMailedKeeps ==
    ASSUME CredentialsInductive, NEW h \in Requests, Claiming!StoreCode(h)
    PROVE  CredentialsInductive'
<1>1. PICK x \in AskRecord : x = asking[h] /\ AskRight(x) /\ x.pc = "send"
  BY AskIs DEF Claiming!StoreCode
<1>2. PICK u \in Accounts : u = x.user
  BY <1>1 DEF AskRight
<1>3. PICK p \in Claiming!Purposes : p = x.purpose
  BY <1>1 DEF AskRight
<1>4. PICK a \in Addresses : a = x.address
  BY <1>1 DEF AskRight
<1>5. /\ mailed' = [mailed EXCEPT ![u][p] = a] /\ Claiming!Ends(h)
      /\ UNCHANGED <<person, bound, panelMail, proven, vouched, carried, overwritten>>
  BY <1>1, <1>2, <1>3, <1>4 DEF Claiming!StoreCode, Claiming!found, Claiming!history
<1>6. PICK n : n = Claiming!Quiet
  OBVIOUS
<1>7. n \in AskRecord /\ GoesOn(h, u, n) /\ AskRight(n)' /\ hurried' = hurried
  BY <1>5, <1>6, EndsIs
<1>8. AboutOne(u) /\ CredentialsTyped'
  BY <1>5, <1>7 DEF AboutOne, Later, GoesOn, CredentialsInductive, CredentialsTyped, Mailed
<1>9. /\ mailed'[u][p] = a
      /\ \A q \in Claiming!Purposes : q # p => mailed'[u][q] = mailed[u][q]
  BY <1>5 DEF CredentialsInductive, CredentialsTyped
<1>10. PersonRight(u)'
  <2>1. PersonRight(u) /\ person[u].exists
    BY <1>1, <1>2, PersonIs DEF AskRight
  <2>2. ~Excused(u) =>
        /\ p = "verify" => Reached(u, a)
        /\ p = "setup_password" /\ ~person[u].password => Reached(u, a)
        /\ p = "claim" /\ ~person[u].password /\ person[u].email # NoAddress => Reached(u, a)
    BY <1>1, <1>2, <1>3, <1>4 DEF AskRight
  <2>. QED
    BY <1>5, <1>9, <2>1, <2>2 DEF PersonRight, Excused, Reached, Proven, Claiming!Purposes
<1>11. OthersRight(h, u)
  <2>1. ASSUME NEW y \in AskRecord, AskRight(y) PROVE AskRight(y)'
    BY <1>5, <1>7, <2>1 DEF AskRight, Excused, Reached, Proven
  <2>. QED
    BY <2>1, AskIs DEF OthersRight
<1>12. overwritten' \subseteq hurried'
  BY <1>5, <1>7 DEF CredentialsInductive
<1>. QED
  BY <1>7, <1>8, <1>10, <1>11, <1>12, OneAccount

\* An account is written, and the request ends or goes on to its last write.
Writing(h, u, row) ==
    /\ person' = [person EXCEPT ![u] = row]
    /\ UNCHANGED <<bound, panelMail, mailed, proven, vouched>>
    /\ \/ Claiming!Ends(h)
       \/ Claiming!Goes(h, "mark") /\ (u \in vouched \cup carried' \/ row.email \in proven[u])

LEMMA WritingKeeps ==
    ASSUME CredentialSizes, CredentialsInductive, NEW h \in Requests, asking[h].pc # "idle",
           NEW u \in Accounts, u = asking[h].user, NEW row \in CredentialRow, row.exists,
           Writing(h, u, row), carried \subseteq carried', overwritten' \subseteq hurried',
           PersonRight(u)', OthersRight(h, u)
    PROVE  CredentialsInductive'
<1>1. \E n \in AskRecord : GoesOn(h, u, n) /\ AskRight(n)' /\ hurried' = hurried
  <2>1. CASE Claiming!Ends(h)
    BY <2>1, EndsIs
  <2>2. CASE /\ Claiming!Goes(h, "mark")
             /\ u \in vouched \cup carried' \/ row.email \in proven[u]
    <3>1. PICK n : n = [asking[h] EXCEPT !.pc = "mark"]
      OBVIOUS
    <3>2. n \in AskRecord /\ n.pc = "mark" /\ n.user = u /\ GoesOn(h, u, n) /\ hurried' = hurried
      BY <2>2, <3>1, GoesIs
    <3>3. person'[u] = row /\ proven' = proven /\ vouched' = vouched
      BY DEF Writing, CredentialsInductive, CredentialsTyped
    <3>4. AskRight(n)'
      BY <2>2, <3>2, <3>3 DEF AskRight, Excused, Proven
    <3>. QED
      BY <3>2, <3>4
  <2>. QED
    BY <2>1, <2>2 DEF Writing
<1>2. PICK n \in AskRecord : GoesOn(h, u, n) /\ AskRight(n)' /\ hurried' = hurried
  BY <1>1
<1>3. /\ person' = [person EXCEPT ![u] = row]
      /\ bound' \in {bound, u} /\ UNCHANGED <<panelMail, mailed, proven, vouched>>
      /\ hurried \subseteq hurried'
  BY <1>2 DEF Writing
<1>. QED
  BY <1>2, <1>3, WriteKeeps

\* What is right of a request stays so if the account keeps its address, or gets one that
\* was read, and somebody else's request for it is known to be beside this one.
LEMMA OthersStayRight ==
    ASSUME CredentialsInductive, NEW h \in Requests, asking[h].pc # "idle",
           NEW u \in Accounts, u = asking[h].user, NEW row \in CredentialRow, row.exists,
           Writing(h, u, row), carried \subseteq carried',
           \/ row.email = person[u].email
           \/ row.email \in Addresses
                /\ (row.email \in proven[u] \/ (Meets(h, u) => u \in carried')),
           person[u].password => row.password, CredentialSizes
    PROVE  OthersRight(h, u)
<1>1. person'[u] = row /\ UNCHANGED <<proven, vouched>> /\ hurried' = hurried
  BY DEF Writing, Claiming!Ends, Claiming!Goes, CredentialsInductive, CredentialsTyped
<1>2. Meets(h, u) => u \in hurried
  BY AskIs
<1>3. SUFFICES ASSUME NEW j \in Requests, NEW x \in AskRecord, j # h, x = asking[j],
                      x.pc # "idle", x.user = u
               PROVE  AskRight(x)'
  BY DEF OthersRight
<1>4. Meets(h, u) /\ AskRight(x)
  BY <1>3, AskIs DEF Meets
<1>5. u \in hurried' /\ u \in Accounts
  BY <1>1, <1>2, <1>4
<1>6. CASE row.email = person[u].email
  BY <1>1, <1>3, <1>4, <1>5, <1>6 DEF AskRight, Excused, Reached, Proven
<1>7. CASE row.email \in Addresses /\ row.email \in proven[u]
  <2>1. row.email # NoAddress
    BY <1>7 DEF CredentialSizes
  <2>. QED
    BY <1>1, <1>3, <1>4, <1>5, <1>7, <2>1 DEF AskRight, Excused, Reached, Proven
<1>8. CASE row.email \in Addresses /\ u \in carried'
  <2>1. row.email # NoAddress
    BY <1>8 DEF CredentialSizes
  <2>. QED
    BY <1>1, <1>3, <1>4, <1>5, <1>8, <2>1 DEF AskRight, Excused
<1>. QED
  BY <1>4, <1>6, <1>7, <1>8

\* finalize_email_verification and mark_email_verified: the address there is now was read.
LEMMA MarkKeeps ==
    ASSUME CredentialSizes, CredentialsInductive, NEW h \in Requests,
           Claiming!Finalize(h) \/ Claiming!MarkVerified(h)
    PROVE  CredentialsInductive'
<1>1. PICK x \in AskRecord : x = asking[h] /\ AskRight(x) /\ x.pc \in {"finalize", "mark"}
  BY AskIs DEF Claiming!Finalize, Claiming!MarkVerified
<1>2. PICK u \in Accounts : u = x.user
  BY <1>1 DEF AskRight
<1>3. PersonRight(u) /\ person[u] \in CredentialRow /\ person[u].exists
      /\ (Excused(u) \/ Proven(u))
  BY <1>1, <1>2, PersonIs DEF AskRight
<1>4. PICK row : row = [person[u] EXCEPT !.verified = TRUE]
  OBVIOUS
<1>5. row \in CredentialRow /\ row.exists /\ row.email = person[u].email
      /\ row.password = person[u].password
  BY <1>3, <1>4 DEF CredentialRow
<1>6. /\ Writing(h, u, row) /\ carried' = carried /\ overwritten' = overwritten
      /\ hurried' = hurried
  BY <1>1, <1>2, <1>4 DEF Writing, Claiming!Finalize, Claiming!MarkVerified, Claiming!Ends,
     Claiming!found, Claiming!history
<1>7. OthersRight(h, u)
  BY <1>1, <1>2, <1>5, <1>6, OthersStayRight
<1>8. person'[u] = row /\ UNCHANGED <<mailed, proven, vouched>>
  BY <1>6 DEF Writing, CredentialsInductive, CredentialsTyped
<1>9. PersonRight(u)'
  BY <1>3, <1>5, <1>6, <1>8 DEF PersonRight, Excused, Reached, Proven
<1>10. overwritten' \subseteq hurried'
  BY <1>6 DEF CredentialsInductive
<1>. QED
  BY <1>1, <1>2, <1>5, <1>6, <1>7, <1>9, <1>10, WritingKeeps

\* set_email_with_password and update_user_email: the new address was read.
LEMMA ReadAddressKeeps ==
    ASSUME CredentialSizes, CredentialsInductive, NEW h \in Requests,
           Claiming!SetEmailWithPassword(h) \/ Claiming!UpdateUserEmail(h)
    PROVE  CredentialsInductive'
<1>1. PICK x \in AskRecord : x = asking[h] /\ AskRight(x) /\ x.pc \in {"setup", "change"}
  BY AskIs DEF Claiming!SetEmailWithPassword, Claiming!UpdateUserEmail
<1>2. PICK u \in Accounts : u = x.user
  BY <1>1 DEF AskRight
<1>3. PICK a : a = x.address
  OBVIOUS
<1>4. /\ PersonRight(u) /\ person[u] \in CredentialRow /\ person[u].exists
      /\ a \in proven[u] /\ a \in Addresses /\ a # NoAddress
  BY <1>1, <1>2, <1>3, PersonIs DEF AskRight, CredentialsInductive, CredentialsTyped, CredentialSizes
<1>5. PICK row \in {[person[u] EXCEPT !.email = a, !.password = TRUE, !.verified = TRUE],
                    [person[u] EXCEPT !.email = a, !.verified = TRUE]} :
        person' = [person EXCEPT ![u] = row]
  BY <1>1, <1>2, <1>3, <1>4 DEF Claiming!SetEmailWithPassword, Claiming!UpdateUserEmail,
     CredentialsInductive, CredentialsTyped, CredentialRow
<1>6. row \in CredentialRow /\ row.exists /\ row.email = a
      /\ (person[u].password => row.password)
  BY <1>4, <1>5 DEF CredentialRow, Mailed
<1>7. /\ Writing(h, u, row) /\ carried' = carried /\ overwritten' = overwritten
      /\ hurried' = hurried
  BY <1>5 DEF Writing, Claiming!SetEmailWithPassword, Claiming!UpdateUserEmail, Claiming!Ends,
     Claiming!found, Claiming!history
<1>8. OthersRight(h, u)
  BY <1>1, <1>2, <1>4, <1>6, <1>7, OthersStayRight
<1>9. person'[u] = row /\ UNCHANGED <<mailed, proven, vouched>>
  BY <1>7 DEF Writing, CredentialsInductive, CredentialsTyped
<1>10. PersonRight(u)'
  BY <1>4, <1>6, <1>9 DEF PersonRight, Excused, Reached, Proven
<1>11. overwritten' \subseteq hurried'
  BY <1>7 DEF CredentialsInductive
<1>. QED
  BY <1>1, <1>2, <1>6, <1>7, <1>8, <1>10, <1>11, WritingKeeps

\* set_password; what is marked afterwards is an address that was read.
LEMMA PasswordKeeps ==
    ASSUME CredentialSizes, CredentialsInductive, NEW h \in Requests, Claiming!SetPassword(h)
    PROVE  CredentialsInductive'
<1>1. PICK x \in AskRecord : x = asking[h] /\ AskRight(x) /\ x.pc = "password"
  BY AskIs DEF Claiming!SetPassword
<1>2. PICK u \in Accounts : u = x.user
  BY <1>1 DEF AskRight
<1>3. /\ PersonRight(u) /\ person[u] \in CredentialRow /\ person[u].exists
      /\ person[u].email # NoAddress /\ (x.marks => Excused(u) \/ Proven(u))
  BY <1>1, <1>2, PersonIs DEF AskRight
<1>4. PICK row : row = [person[u] EXCEPT !.password = TRUE]
  OBVIOUS
<1>5. /\ row \in CredentialRow /\ row.exists /\ row.email = person[u].email /\ row.password
      /\ row.verified = person[u].verified
  BY <1>3, <1>4 DEF CredentialRow
<1>6. /\ person' = [person EXCEPT ![u] = row] /\ Claiming!MarkOrEnd(h, x.marks)
      /\ UNCHANGED <<bound, panelMail, mailed, proven, vouched, carried, overwritten>>
  BY <1>1, <1>2, <1>4 DEF Claiming!SetPassword, Claiming!found, Claiming!history
<1>7. Writing(h, u, row) /\ hurried' = hurried
  BY <1>3, <1>5, <1>6 DEF Writing, Claiming!MarkOrEnd, Claiming!Ends, Claiming!Goes, Excused, Proven
<1>8. OthersRight(h, u)
  BY <1>1, <1>2, <1>5, <1>6, <1>7, OthersStayRight
<1>9. person'[u] = row
  BY <1>6 DEF CredentialsInductive, CredentialsTyped
<1>10. PersonRight(u)'
  BY <1>3, <1>5, <1>6, <1>9 DEF PersonRight, Excused, Reached, Proven
<1>11. overwritten' \subseteq hurried'
  BY <1>6, <1>7 DEF CredentialsInductive
<1>. QED
  BY <1>1, <1>2, <1>5, <1>6, <1>7, <1>8, <1>10, <1>11, WritingKeeps

\* adopt_user_for_migration: who is alone replaces nothing that was verified or is about to be.
LEMMA AdoptKeeps ==
    ASSUME CredentialSizes, CredentialsInductive, NEW h \in Requests, Claiming!Adopt(h)
    PROVE  CredentialsInductive'
<1>1. PICK x \in AskRecord : x = asking[h] /\ AskRight(x) /\ x.pc = "adopt"
  BY AskIs DEF Claiming!Adopt
<1>2. PICK u \in Accounts : u = x.user
  BY <1>1 DEF AskRight
<1>3. PICK a \in Addresses : a = x.acc
  BY <1>1 DEF AskRight
<1>4. /\ PersonRight(u) /\ person[u] \in CredentialRow /\ person[u].exists /\ a # NoAddress
      /\ (x.marks => a \in proven[u])
      /\ (person[u].verified /\ person[u].password => u \in hurried)
  BY <1>1, <1>2, <1>3, PersonIs DEF AskRight, CredentialSizes
<1>5. PICK row : row = [person[u] EXCEPT !.email = a, !.password = TRUE]
  OBVIOUS
<1>6. /\ row \in CredentialRow /\ row.exists /\ row.email = a /\ row.password
      /\ row.verified = person[u].verified
  BY <1>4, <1>5 DEF CredentialRow, Mailed
<1>7. /\ person' = [person EXCEPT ![u] = row] /\ Claiming!MarkOrEnd(h, x.marks)
      /\ UNCHANGED <<bound, panelMail, mailed, proven, vouched>>
      /\ carried' = IF \/ person[u].verified \/ mailed[u]["verify"] # NoAddress
                       \/ Claiming!Busy(u) # {h}
                    THEN carried \cup {u} ELSE carried
      /\ overwritten' = IF person[u].verified /\ person[u].password
                        THEN overwritten \cup {u} ELSE overwritten
  BY <1>1, <1>2, <1>3, <1>4, <1>5 DEF Claiming!Adopt, Claiming!found,
     CredentialsInductive, CredentialsTyped, CredentialRow
<1>8. Meets(h, u) => u \in carried'
  BY <1>7 DEF Meets, Claiming!Busy
<1>9. Writing(h, u, row) /\ carried \subseteq carried' /\ hurried' = hurried
  BY <1>4, <1>6, <1>7 DEF Writing, Claiming!MarkOrEnd, Claiming!Ends, Claiming!Goes
<1>10. OthersRight(h, u)
  BY <1>1, <1>2, <1>6, <1>8, <1>9, OthersStayRight
<1>11. person'[u] = row
  BY <1>7 DEF CredentialsInductive, CredentialsTyped
<1>12. PersonRight(u)'
  BY <1>4, <1>6, <1>7, <1>9, <1>11 DEF PersonRight, Excused, Reached, Proven
<1>13. overwritten' \subseteq hurried'
  BY <1>4, <1>7, <1>9 DEF CredentialsInductive
<1>. QED
  BY <1>1, <1>2, <1>6, <1>9, <1>10, <1>12, <1>13, WritingKeeps

-----------------------------------------------------------------------------

\* Every step of the credentials keeps the invariant, and so does a step of another part.
LEMMA CredentialsSteps ==
    CredentialSizes /\ CredentialsInductive /\ [Claiming!Next]_credentialVars
        => CredentialsInductive'
<1>. SUFFICES ASSUME CredentialSizes, CredentialsInductive, [Claiming!Next]_credentialVars
              PROVE  CredentialsInductive'
  OBVIOUS
<1>1. CASE UNCHANGED credentialVars
  <2>1. UNCHANGED <<person, bound, panelMail, mailed, asking, proven, vouched, carried,
                    overwritten, hurried>>
    BY <1>1 DEF credentialVars
  <2>2. ASSUME NEW u \in Accounts PROVE PersonRight(u)'
    BY <2>1 DEF CredentialsInductive, PersonRight, Excused, Reached, Proven
  <2>3. ASSUME NEW h \in Requests PROVE AskRight(asking[h])'
    BY <2>1 DEF CredentialsInductive, AskRight, Excused, Reached, Proven
  <2>4. \A g, h \in Requests : g # h => AskApart(asking[g], asking[h])'
    BY <2>1 DEF CredentialsInductive, AskApart
  <2>. QED
    BY <2>1, <2>2, <2>3, <2>4 DEF CredentialsInductive, CredentialsTyped
<1>2. ASSUME NEW h \in Requests, Claiming!Proceed(h) PROVE CredentialsInductive'
  <2>1. CASE Claiming!EmailTaken(h) \/ Claiming!Abandon(h)
    BY <2>1, EndKeeps DEF Claiming!EmailTaken, Claiming!Abandon, Claiming!found, Claiming!history
  <2>2. CASE Claiming!StoreCode(h)
    BY <2>2, CodeMailedKeeps
  <2>3. CASE Claiming!Finalize(h) \/ Claiming!MarkVerified(h)
    BY <2>3, MarkKeeps
  <2>4. CASE Claiming!SetEmailWithPassword(h) \/ Claiming!UpdateUserEmail(h)
    BY <2>4, ReadAddressKeeps
  <2>5. CASE Claiming!SetPassword(h)
    BY <2>5, PasswordKeeps
  <2>6. CASE Claiming!Adopt(h)
    BY <2>6, AdoptKeeps
  <2>. QED
    BY <1>2, <2>1, <2>2, <2>3, <2>4, <2>5, <2>6 DEF Claiming!Proceed
<1>3. ASSUME NEW u \in Accounts, NEW a \in Addresses,
             Claiming!Register(u, a) \/ Claiming!MigrateNew(u, a)
      PROVE  CredentialsInductive'
  BY <1>3, NewKeeps
<1>4. ASSUME NEW h \in Requests, NEW u \in Accounts,
             \/ Claiming!AskVerification(h, u) \/ Claiming!AskSetupPassword(h, u)
             \/ Claiming!ClaimOtpRequest(h, u)
             \/ Claiming!EmailVerify(h, u) \/ Claiming!SetupEmailConfirm(h, u)
             \/ Claiming!SetupPasswordConfirm(h, u) \/ Claiming!EmailChangeConfirm(h, u)
             \/ Claiming!ClaimPassword(h, u) \/ Claiming!TelegramLogin(h, u)
      PROVE  CredentialsInductive'
  <2>1. CASE Claiming!AskVerification(h, u) \/ Claiming!AskSetupPassword(h, u)
    <3>1. PICK a : a \in Addresses
      BY DEF CredentialSizes
    <3>. QED
      BY <2>1, <3>1, AsksKeep
  <2>2. CASE Claiming!ClaimOtpRequest(h, u)
    BY <2>2, ClaimOtpKeeps
  <2>3. CASE \/ Claiming!EmailVerify(h, u) \/ Claiming!SetupEmailConfirm(h, u)
             \/ Claiming!SetupPasswordConfirm(h, u) \/ Claiming!EmailChangeConfirm(h, u)
             \/ Claiming!ClaimPassword(h, u)
    BY <2>3, ConfirmKeeps
  <2>4. CASE Claiming!TelegramLogin(h, u)
    BY <2>4, TelegramKeeps
  <2>. QED
    BY <1>4, <2>1, <2>2, <2>3, <2>4
<1>5. ASSUME NEW h \in Requests, NEW u \in Accounts, NEW a \in Addresses,
             \/ Claiming!AskSetupEmail(h, u, a) \/ Claiming!AskEmailChange(h, u, a)
             \/ Claiming!ClaimWithCode(h, u, a) \/ Claiming!ClaimWithoutMailbox(h, u, a)
             \/ Claiming!ClaimAgain(h, u, a) \/ Claiming!Migrate(h, u, a)
      PROVE  CredentialsInductive'
  BY <1>5, AsksKeep, ClaimCodeKeeps, ClaimPlainKeeps, AdoptsKeep
<1>. QED
  BY <1>1, <1>2, <1>3, <1>4, <1>5 DEF Claiming!Next

\* Who is excused has logged in through Telegram or was rewritten by a claim.
LEMMA CredentialsConclude == CredentialsInductive => Claiming!CredentialsSound
<1>. SUFFICES ASSUME CredentialsInductive PROVE Claiming!CredentialsSound
  OBVIOUS
<1>1. \A u \in Accounts : PersonRight(u)
  BY DEF CredentialsInductive
<1>2. Claiming!ProvenMailbox
  BY <1>1 DEF Claiming!ProvenMailbox, PersonRight, Excused, Proven
<1>3. Claiming!OwnersKept
  BY DEF CredentialsInductive, Claiming!OwnersKept
<1>. QED
  BY <1>2, <1>3 DEF Claiming!CredentialsSound

\* The accounts' part of the system behaves as Credentials says.
LEMMA CredentialsSpec == Spec => Claiming!Spec
<1>1. Init => Claiming!Init
  BY DEF Init
<1>2. [Next]_allVars => [Claiming!Next]_credentialVars
  BY DEF Next, LinksNext, TransferNext, MergeNext, AccessNext, StoreNext, DrawNext, FreeNext,
     CredentialsNext, CheckoutNext, RatesNext, GuardsNext, ScreensNext, CleanNext, ImportNext,
     PageNext, IdentityNext, allVars, salesSide, credentialVars
<1>. QED
  BY <1>1, <1>2, PTL DEF Spec, Claiming!Spec, Claiming!credentialVars, credentialVars

\* For any number of accounts, addresses and requests under way: an address that counts as
\* verified was read by whoever uses the account, unless Telegram vouched for it or a claim
\* rewrote it beside a confirmation; and a claim rewrites an account that was verified only
\* beside another request for it (android/claim_router.py, email_router.py, auth_router.py,
\* web/web_router.py).
THEOREM CredentialsAreSound == Spec => []CredentialsSound
<1>1. Claiming!Init => CredentialsInductive
  BY CredentialsBegin, CredentialConstants
<1>2. CredentialsInductive /\ [Claiming!Next]_credentialVars => CredentialsInductive'
  BY CredentialsSteps, CredentialConstants
<1>3. CredentialsInductive => Claiming!CredentialsSound
  BY CredentialsConclude
<1>. QED
  BY <1>1, <1>2, <1>3, CredentialsSpec, PTL DEF Claiming!Spec, Claiming!credentialVars,
     credentialVars, CredentialsSound

-----------------------------------------------------------------------------
(***************************************************************************)
(* The bot's menu.  What a task has read under the latest version is what  *)
(* the tables hold, as long as every committed edit has raised the         *)
(* version: an edit moves it after its commit, and the switch with it.  A  *)
(* button leads somewhere because only one edit at a time reads and        *)
(* writes it.                                                              *)
(***************************************************************************)

MenuRow == [exists : BOOLEAN, active : BOOLEAN, text : Nat]
ButtonRow == [exists : BOOLEAN, screen : Screens, type : Menu!Types, callback : BOOLEAN,
              url : BOOLEAN, active : BOOLEAN, place : Nat]
FaceRow == [button : Buttons, screen : Screens, type : Menu!Types, callback : BOOLEAN,
            url : BOOLEAN, place : Nat]
MenuEditState == {[pc |-> "none"]} \cup
                 [pc : {"read", "committed"}, request : MenuEdits, row : ButtonRow]
MenuTask == [pc : {"idle", "look", "compare", "screens", "buttons", "store", "mode", "flag",
                   "set"},
             version : Nat, flag : BOOLEAN, screens : SUBSET (Screens \X Nat),
             buttons : SUBSET FaceRow, since : Nat]

MenuTyped ==
    /\ screen \in [Screens -> MenuRow] /\ button \in [Buttons -> ButtonRow]
    /\ flag \in BOOLEAN /\ version \in Nat /\ known \in Nat
    /\ mode \in [value : BOOLEAN, known : Nat]
    /\ edit \in [Requests -> MenuEditState]
    /\ task \in [Claims -> MenuTask]

\* Whatever was committed has raised the version.
MenuQuiet == ~unannounced /\ \A x \in Requests : edit[x].pc # "committed"

ShownScreens ==
    {<<s, screen[s].text>> : s \in {s \in Screens : screen[s].exists /\ screen[s].active}}

\* What a task has read under the latest version is what there is.
ReadsInStep(t) ==
    /\ t.version <= version /\ t.since <= version
    /\ t.pc \in {"buttons", "store"} /\ t.since = version /\ MenuQuiet =>
         t.screens = ShownScreens
    /\ t.pc = "store" /\ t.since = version /\ MenuQuiet => t.buttons = Menu!Faces
    /\ t.pc = "set" /\ t.version = version => t.flag = flag

MenuInStep ==
    /\ known <= version /\ mode.known <= version
    /\ \A t \in Claims : ReadsInStep(task[t])
    /\ known = version /\ MenuQuiet /\ ~outdated =>
         menuCache \in {Menu!EmptyCache, Menu!Current}
    /\ mode.known = version => mode.value = flag

FaceLeads(f) ==
    CASE f.type = "tariff" -> TRUE
      [] f.type \in {"url", "webapp"} -> f.url
      [] OTHER -> f.callback

PagesLead(c) == \A s \in DOMAIN c : \A f \in c[s].buttons : FaceLeads(f)

\* The one edit under way writes what it has checked.
EditLeads(x) ==
    LET e == edit[x].request IN
    /\ \A y \in Requests \ {x} : edit[y].pc # "read"
    /\ e.op = "create_button" => Menu!Valid(Menu!With(Menu!NoButton, e.set))
    /\ e.op = "update_button" =>
         edit[x].row = button[e.button] /\ Menu!Valid(Menu!With(button[e.button], e.set))

RowsLead == \A b \in Buttons : button[b].exists => Menu!Valid(button[b])
TasksLead == \A t \in Claims : \A f \in task[t].buttons : FaceLeads(f)

MenuLeads ==
    ~mixed =>
        /\ RowsLead /\ TasksLead /\ PagesLead(menuCache)
        /\ \A x \in Requests : edit[x].pc = "read" => EditLeads(x)

MenuInductive == MenuTyped /\ MenuInStep /\ MenuLeads

LEMMA NoButtonIs ==
    ASSUME MenuSizes
    PROVE  Menu!NoButton \in ButtonRow /\ ~Menu!NoButton.exists
<1>1. (CHOOSE s \in Screens : TRUE) \in Screens
  BY DEF MenuSizes
<1>. QED
  BY <1>1 DEF Menu!NoButton, ButtonRow, Menu!Types

LEMMA AsleepIs ==
    /\ Menu!Asleep \in MenuTask /\ Menu!Asleep.pc = "idle" /\ Menu!Asleep.version = 0
    /\ Menu!Asleep.since = 0 /\ Menu!Asleep.buttons = {}
BY DEF Menu!Asleep, MenuTask

\* A task that has just been given something to do has read nothing.
LEMMA AwakeIs ==
    ASSUME NEW pc \in {"look", "screens", "mode"}
    PROVE  /\ [Menu!Asleep EXCEPT !.pc = pc] \in MenuTask
           /\ [Menu!Asleep EXCEPT !.pc = pc].pc = pc
           /\ [Menu!Asleep EXCEPT !.pc = pc].version = 0
           /\ [Menu!Asleep EXCEPT !.pc = pc].since = 0
           /\ [Menu!Asleep EXCEPT !.pc = pc].buttons = {}
BY DEF Menu!Asleep, MenuTask

LEMMA NoPages == DOMAIN Menu!EmptyCache = {} /\ PagesLead(Menu!EmptyCache)
BY DEF Menu!EmptyCache, PagesLead

\* Setting columns leaves a row a row.
LEMMA WithRow ==
    ASSUME NEW e \in MenuEdits, MenuSizes
    PROVE  /\ \A row \in MenuRow : Menu!With(row, e.set) \in MenuRow
           /\ \A row \in ButtonRow : Menu!With(row, e.set) \in ButtonRow
<1>1. SentRight(e)
  BY DEF MenuSizes
<1>2. ASSUME NEW row \in MenuRow PROVE Menu!With(row, e.set) \in MenuRow
  BY <1>1, <1>2 DEF SentRight, MenuRow, Menu!With
<1>3. ASSUME NEW row \in ButtonRow PROVE Menu!With(row, e.set) \in ButtonRow
  <2>1. DOMAIN row = {"exists", "screen", "type", "callback", "url", "active", "place"}
    BY DEF ButtonRow
  <2>. DEFINE new == [k \in {"exists", "screen", "type", "callback", "url", "active", "place"} |->
                        IF k \in DOMAIN e.set THEN e.set[k] ELSE row[k]]
  <2>2. Menu!With(row, e.set) = new
    BY <2>1 DEF Menu!With
  <2>3. /\ new["exists"] \in BOOLEAN /\ new["screen"] \in Screens /\ new["type"] \in Menu!Types
        /\ new["callback"] \in BOOLEAN /\ new["url"] \in BOOLEAN /\ new["active"] \in BOOLEAN
        /\ new["place"] \in Nat
    BY <1>1 DEF SentRight, ButtonRow
  <2>4. new = [exists |-> new["exists"], screen |-> new["screen"], type |-> new["type"],
               callback |-> new["callback"], url |-> new["url"], active |-> new["active"],
               place |-> new["place"]]
    OBVIOUS
  <2>. QED
    BY <2>2, <2>3, <2>4 DEF ButtonRow
<1>. QED
  BY <1>2, <1>3

LEMMA CleanedRow ==
    ASSUME NEW b \in ButtonRow
    PROVE  /\ Menu!Cleaned(b) \in ButtonRow
           /\ Menu!Valid(b) => Menu!Valid(Menu!Cleaned(b))
           /\ Menu!Cleaned(b).exists = b.exists
BY DEF ButtonRow, Menu!Cleaned, Menu!Valid, Menu!Types

\* A flush of what changed in the row as it is writes the new row.
LEMMA WrittenRow ==
    ASSUME NEW row \in ButtonRow, NEW before \in ButtonRow, NEW after \in ButtonRow
    PROVE  /\ Menu!Written(row, before, after) \in ButtonRow
           /\ row = before => Menu!Written(row, before, after) = after
<1>. DEFINE columns == {"exists", "screen", "type", "callback", "url", "active", "place"}
            new == [k \in columns |-> IF before[k] # after[k] THEN after[k] ELSE row[k]]
<1>1. DOMAIN row = columns /\ DOMAIN before = columns /\ DOMAIN after = columns
  BY DEF ButtonRow
<1>2. Menu!Written(row, before, after) = new
  BY <1>1 DEF Menu!Written, Menu!Changed
<1>3. /\ new["exists"] \in BOOLEAN /\ new["screen"] \in Screens /\ new["type"] \in Menu!Types
      /\ new["callback"] \in BOOLEAN /\ new["url"] \in BOOLEAN /\ new["active"] \in BOOLEAN
      /\ new["place"] \in Nat
  BY DEF ButtonRow
<1>4. new = [exists |-> new["exists"], screen |-> new["screen"], type |-> new["type"],
             callback |-> new["callback"], url |-> new["url"], active |-> new["active"],
             place |-> new["place"]]
  OBVIOUS
<1>5. new \in ButtonRow
  BY <1>3, <1>4 DEF ButtonRow
<1>6. ASSUME row = before PROVE new = after
  <2>1. after = [k \in columns |-> after[k]]
    BY <1>1 DEF ButtonRow
  <2>. QED
    BY <1>6, <2>1
<1>. QED
  BY <1>2, <1>5, <1>6

LEMMA MenuBegins ==
    ASSUME MenuSizes, Menu!Init
    PROVE  MenuInductive
<1>1. Menu!NoScreen \in MenuRow
  BY DEF Menu!NoScreen, MenuRow
<1>2. screen \in [Screens -> MenuRow]
  BY <1>1 DEF Menu!Init, MenuRow
<1>3. button \in [Buttons -> ButtonRow] /\ RowsLead
  <2>1. PICK first \in Buttons, s \in System :
           button = [b \in Buttons |-> IF b = first
                                       THEN [exists |-> TRUE, screen |-> s, type |-> "callback",
                                             callback |-> TRUE, url |-> TRUE, active |-> TRUE,
                                             place |-> 1]
                                       ELSE Menu!NoButton]
    BY DEF Menu!Init
  <2>2. s \in Screens
    BY DEF MenuSizes
  <2>3. [exists |-> TRUE, screen |-> s, type |-> "callback", callback |-> TRUE, url |-> TRUE,
         active |-> TRUE, place |-> 1] \in ButtonRow
    BY <2>2 DEF ButtonRow, Menu!Types
  <2>4. button \in [Buttons -> ButtonRow]
    BY <2>1, <2>3, NoButtonIs
  <2>5. ASSUME NEW b \in Buttons, button[b].exists PROVE Menu!Valid(button[b])
    BY <2>1, <2>5, NoButtonIs DEF Menu!Valid
  <2>. QED
    BY <2>4, <2>5 DEF RowsLead
<1>4. edit \in [Requests -> MenuEditState] /\ \A x \in Requests : edit[x].pc = "none"
  BY DEF Menu!Init, Menu!NoEdit, MenuEditState
<1>5. task \in [Claims -> MenuTask] /\ \A t \in Claims : task[t] = Menu!Asleep
  BY AsleepIs DEF Menu!Init
<1>6. MenuTyped
  BY <1>2, <1>3, <1>4, <1>5 DEF MenuTyped, Menu!Init
<1>7. MenuInStep
  BY <1>5, AsleepIs DEF MenuInStep, ReadsInStep, Menu!Init
<1>8. MenuLeads
  BY <1>3, <1>4, <1>5, AsleepIs, NoPages DEF MenuLeads, TasksLead, Menu!Init
<1>. QED
  BY <1>6, <1>7, <1>8 DEF MenuInductive

\* An edit begins: what it reads is what it has checked.
LEMMA OpenEditKeeps ==
    ASSUME MenuSizes, MenuInductive, NEW x \in Requests, Menu!OpenEdit(x)
    PROVE  MenuInductive'
<1>1. PICK e \in MenuEdits :
         /\ Menu!Accepted(e)
         /\ edit' = [edit EXCEPT ![x] =
              [pc |-> "read", request |-> e,
               row |-> IF e.op = "create_button" THEN Menu!NoButton ELSE button[e.button]]]
  BY DEF Menu!OpenEdit
<1>2. /\ edit[x].pc = "none" /\ mixed' = (mixed \/ \E y \in Requests \ {x} : edit[y].pc = "read")
      /\ UNCHANGED <<screen, button, flag, version, menuCache, known, mode, task, unannounced,
                     outdated>>
  BY DEF Menu!OpenEdit, Menu!menuTables, Menu!botMemory
<1>3. e.button \in Buttons
  BY DEF MenuSizes, SentRight
<1>4. edit' \in [Requests -> MenuEditState]
  BY <1>1, <1>3, NoButtonIs DEF MenuInductive, MenuTyped, MenuEditState
<1>5. MenuTyped'
  BY <1>2, <1>4 DEF MenuInductive, MenuTyped
<1>6. \A y \in Requests : (edit'[y].pc = "committed") = (edit[y].pc = "committed")
  BY <1>1, <1>2 DEF MenuInductive, MenuTyped
<1>7. MenuQuiet' = MenuQuiet
  BY <1>2, <1>6 DEF MenuQuiet
<1>8. MenuInStep'
  BY <1>2, <1>7 DEF MenuInductive, MenuInStep, ReadsInStep, ShownScreens, Menu!Faces, Menu!Face,
     Menu!Current, Menu!Page
<1>9. ASSUME ~mixed' PROVE (RowsLead /\ TasksLead /\ PagesLead(menuCache))'
  BY <1>2, <1>9 DEF MenuInductive, MenuLeads, RowsLead, TasksLead, PagesLead
<1>10. ASSUME ~mixed', NEW y \in Requests, edit'[y].pc = "read" PROVE EditLeads(y)'
  <2>1. \A z \in Requests \ {x} : edit[z].pc # "read" /\ edit'[z] = edit[z]
    BY <1>1, <1>2, <1>10 DEF MenuInductive, MenuTyped
  <2>2. y = x
    BY <1>10, <2>1
  <2>3. /\ edit'[x].request = e
        /\ edit'[x].row = IF e.op = "create_button" THEN Menu!NoButton ELSE button[e.button]
    BY <1>1 DEF MenuInductive, MenuTyped
  <2>4. e.op = "create_button" => Menu!Valid(Menu!With(Menu!NoButton, e.set))
    BY <1>1 DEF Menu!Accepted
  <2>5. e.op = "update_button" => Menu!Valid(Menu!With(button[e.button], e.set))
    BY <1>1 DEF Menu!Accepted
  <2>. QED
    BY <1>2, <2>1, <2>2, <2>3, <2>4, <2>5 DEF EditLeads
<1>. QED
  BY <1>5, <1>8, <1>9, <1>10 DEF MenuInductive, MenuLeads

\* The rows after a commit are rows, and lead where they did or where the edit has checked.
LEMMA CommittedRows ==
    ASSUME MenuSizes, MenuTyped, NEW e \in MenuEdits, NEW row \in ButtonRow
    PROVE  /\ Menu!ScreenAfter(e) \in [Screens -> MenuRow]
           /\ Menu!ButtonAfter(e, row) \in [Buttons -> ButtonRow]
<1>. DEFINE fresh == [Menu!NoButton EXCEPT !.exists = TRUE, !.screen = e.screen, !.active = TRUE]
<1>1. e.screen \in Screens /\ e.button \in Buttons
  BY DEF MenuSizes, SentRight
<1>2. Menu!ScreenAfter(e) \in [Screens -> MenuRow]
  <2>1. [exists |-> TRUE, active |-> TRUE, text |-> 0] \in MenuRow
    BY DEF MenuRow
  <2>2. Menu!With([exists |-> TRUE, active |-> TRUE, text |-> 0], e.set) \in MenuRow
    BY <2>1, WithRow
  <2>3. screen[e.screen] \in MenuRow /\ Menu!With(screen[e.screen], e.set) \in MenuRow
    BY <1>1, WithRow DEF MenuTyped
  <2>4. [screen[e.screen] EXCEPT !.active = FALSE] \in MenuRow
    BY <2>3 DEF MenuRow
  <2>. QED
    BY <1>1, <2>2, <2>3, <2>4 DEF MenuTyped, Menu!ScreenAfter
<1>3. Menu!ButtonAfter(e, row) \in [Buttons -> ButtonRow]
  <2>1. fresh \in ButtonRow
    BY <1>1, NoButtonIs DEF ButtonRow
  <2>2. Menu!Cleaned(Menu!With(fresh, e.set)) \in ButtonRow
    BY <2>1, WithRow, CleanedRow
  <2>3. Menu!Cleaned(Menu!With(row, e.set)) \in ButtonRow
    BY WithRow, CleanedRow
  <2>4. button[e.button] \in ButtonRow
    BY <1>1 DEF MenuTyped
  <2>5. Menu!Written(button[e.button], row, Menu!Cleaned(Menu!With(row, e.set))) \in ButtonRow
    BY <2>3, <2>4, WrittenRow
  <2>6. Menu!With(button[e.button], e.set) \in ButtonRow
    BY <2>4, WithRow
  <2>. QED
    BY <1>1, <2>2, <2>5, <2>6, NoButtonIs DEF MenuTyped, Menu!ButtonAfter
<1>. QED
  BY <1>2, <1>3

\* What a row leads to is told by three columns.
LEMMA LeadsByColumns ==
    ASSUME NEW a, NEW b, a.type = b.type, a.url = b.url, a.callback = b.callback
    PROVE  Menu!Valid(a) <=> Menu!Valid(b)
BY DEF Menu!Valid

LEMMA CommittedLead ==
    ASSUME MenuSizes, MenuTyped, RowsLead, NEW x \in Requests, edit[x].pc = "read",
           EditLeads(x), NEW b \in Buttons,
           Menu!ButtonAfter(edit[x].request, edit[x].row)[b].exists
    PROVE  Menu!Valid(Menu!ButtonAfter(edit[x].request, edit[x].row)[b])
<1>. DEFINE e == edit[x].request
            row == edit[x].row
            after == Menu!ButtonAfter(e, row)
            fresh == [Menu!NoButton EXCEPT !.exists = TRUE, !.screen = e.screen, !.active = TRUE]
            columns == {"exists", "screen", "type", "callback", "url", "active", "place"}
<1>1. e \in MenuEdits /\ row \in ButtonRow
  BY DEF MenuTyped, MenuEditState
<1>2. SentRight(e)
  BY <1>1 DEF MenuSizes
<1>3. e.screen \in Screens /\ e.button \in Buttons /\ button[e.button] \in ButtonRow
  BY <1>2 DEF SentRight, MenuTyped
<1>4. CASE e.op = "create_button" /\ b = e.button
  <2>1. fresh \in ButtonRow
    BY <1>3, NoButtonIs DEF ButtonRow
  <2>2. DOMAIN fresh = columns /\ DOMAIN Menu!NoButton = columns
    BY <2>1, NoButtonIs DEF ButtonRow
  <2>3. /\ fresh.type = Menu!NoButton.type /\ fresh.url = Menu!NoButton.url
        /\ fresh.callback = Menu!NoButton.callback
    BY NoButtonIs DEF ButtonRow
  <2>4. Menu!Valid(Menu!With(fresh, e.set)) <=> Menu!Valid(Menu!With(Menu!NoButton, e.set))
    <3>1. \A k \in {"type", "url", "callback"} :
             Menu!With(fresh, e.set)[k] = Menu!With(Menu!NoButton, e.set)[k]
      BY <2>2, <2>3 DEF Menu!With
    <3>. QED
      BY <3>1, LeadsByColumns
  <2>5. Menu!Valid(Menu!With(fresh, e.set))
    BY <1>4, <2>4 DEF EditLeads
  <2>6. Menu!Valid(Menu!Cleaned(Menu!With(fresh, e.set)))
    BY <1>1, <2>1, <2>5, WithRow, CleanedRow
  <2>7. after[b] = Menu!Cleaned(Menu!With(fresh, e.set))
    BY <1>3, <1>4 DEF Menu!ButtonAfter, MenuTyped
  <2>. QED
    BY <2>6, <2>7
<1>5. CASE e.op = "update_button" /\ b = e.button
  <2>. DEFINE new == Menu!Cleaned(Menu!With(row, e.set))
  <2>1. row = button[b] /\ Menu!Valid(Menu!With(row, e.set))
    BY <1>5 DEF EditLeads
  <2>2. new \in ButtonRow /\ Menu!Valid(new)
    BY <1>1, <2>1, WithRow, CleanedRow
  <2>3. after[b] = Menu!Written(button[b], row, new)
    BY <1>3, <1>5 DEF Menu!ButtonAfter, MenuTyped
  <2>4. after[b] = new
    BY <1>3, <1>5, <2>1, <2>2, <2>3, WrittenRow
  <2>. QED
    BY <2>2, <2>4
<1>6. CASE e.op = "delete_button" /\ b = e.button
  BY <1>3, <1>6, NoButtonIs DEF Menu!ButtonAfter, MenuTyped
<1>7. CASE e.op = "reorder_buttons" /\ button[e.button].exists /\ b = e.button
  <2>1. after[b] = Menu!With(button[b], e.set)
    BY <1>3, <1>7 DEF Menu!ButtonAfter, MenuTyped
  <2>2. \A k \in {"type", "url", "callback"} : after[b][k] = button[b][k]
    BY <1>2, <1>3, <1>7, <2>1 DEF Menu!With, SentRight, ButtonRow
  <2>3. Menu!Valid(button[b])
    BY <1>7 DEF RowsLead
  <2>. QED
    BY <2>2, <2>3, LeadsByColumns
<1>8. CASE after[b] = button[b]
  BY <1>8 DEF RowsLead
<1>9. \/ e.op \in {"create_button", "update_button", "delete_button"} /\ b = e.button
      \/ e.op = "reorder_buttons" /\ button[e.button].exists /\ b = e.button
      \/ after[b] = button[b]
  BY <1>3 DEF Menu!ButtonAfter, MenuTyped
<1>. QED
  BY <1>4, <1>5, <1>6, <1>7, <1>8, <1>9

LEMMA CommitEditKeeps ==
    ASSUME MenuSizes, MenuInductive, NEW x \in Requests, Menu!CommitEdit(x)
    PROVE  MenuInductive'
<1>. DEFINE e == edit[x].request
            row == edit[x].row
<1>0. /\ edit[x].pc = "read"
      /\ UNCHANGED <<flag, version, menuCache, known, mode, task, mixed, unannounced, outdated>>
  BY DEF Menu!CommitEdit, Menu!botMemory
<1>1. e \in MenuEdits /\ row \in ButtonRow /\ edit[x] \in MenuEditState
  BY <1>0 DEF MenuInductive, MenuTyped, MenuEditState
<1>2. \/ edit' = [edit EXCEPT ![x] = Menu!NoEdit] /\ UNCHANGED <<screen, button>>
      \/ /\ edit' = [edit EXCEPT ![x].pc = "committed"]
         /\ screen' = Menu!ScreenAfter(e) /\ button' = Menu!ButtonAfter(e, row)
  BY DEF Menu!CommitEdit
<1>3. /\ edit' \in [Requests -> MenuEditState] /\ edit'[x].pc # "read"
      /\ \A y \in Requests \ {x} : edit'[y] = edit[y]
  BY <1>0, <1>1, <1>2 DEF MenuInductive, MenuTyped, MenuEditState, Menu!NoEdit
<1>4. MenuTyped'
  BY <1>0, <1>1, <1>2, <1>3, CommittedRows DEF MenuInductive, MenuTyped
<1>5. MenuInStep'
  <2>1. CASE edit'[x].pc = "committed"
    <3>1. ~MenuQuiet'
      BY <2>1 DEF MenuQuiet
    <3>. QED
      BY <1>0, <3>1 DEF MenuInductive, MenuInStep, ReadsInStep
  <2>2. CASE UNCHANGED <<screen, button>>
    <3>1. MenuQuiet' => MenuQuiet
      BY <1>0, <1>3 DEF MenuQuiet
    <3>. QED
      BY <1>0, <2>2, <3>1 DEF MenuInductive, MenuInStep, ReadsInStep, ShownScreens, Menu!Faces,
         Menu!Face, Menu!Current, Menu!Page
  <2>3. edit'[x].pc = "committed" \/ UNCHANGED <<screen, button>>
    BY <1>0, <1>1, <1>2 DEF MenuInductive, MenuTyped, MenuEditState
  <2>. QED
    BY <2>1, <2>2, <2>3
<1>6. ASSUME ~mixed' PROVE (RowsLead /\ TasksLead /\ PagesLead(menuCache))'
  <2>1. RowsLead /\ TasksLead /\ PagesLead(menuCache) /\ EditLeads(x)
    BY <1>0, <1>6 DEF MenuInductive, MenuLeads
  <2>2. RowsLead'
    BY <1>0, <1>2, <2>1, CommittedLead DEF MenuInductive, RowsLead
  <2>. QED
    BY <1>0, <2>1, <2>2 DEF TasksLead, PagesLead
<1>7. ASSUME ~mixed', NEW y \in Requests PROVE edit'[y].pc # "read"
  BY <1>0, <1>3, <1>7 DEF MenuInductive, MenuLeads, EditLeads
<1>. QED
  BY <1>4, <1>5, <1>6, <1>7 DEF MenuInductive, MenuLeads

\* The version moves: nothing that was read is of the latest any more.
LEMMA VersionKeeps ==
    ASSUME MenuSizes, MenuInductive,
           (\E x \in Requests : Menu!Bump(x)) \/ Menu!Switch
    PROVE  MenuInductive'
<1>1. /\ version' = version + 1
      /\ UNCHANGED <<screen, button, menuCache, known, mode, task, mixed, outdated>>
      /\ flag' \in BOOLEAN
  BY DEF Menu!Bump, Menu!Switch, Menu!botMemory, MenuInductive, MenuTyped
<1>2. edit' \in [Requests -> MenuEditState] /\ \A y \in Requests :
        edit'[y].pc = "read" => edit'[y] = edit[y]
  BY DEF Menu!Bump, Menu!Switch, MenuInductive, MenuTyped, MenuEditState, Menu!NoEdit
<1>3. MenuTyped'
  BY <1>1, <1>2 DEF MenuInductive, MenuTyped
<1>4. MenuInStep'
  <2>1. \A t \in Claims : task[t].version \in Nat /\ task[t].since \in Nat
    BY DEF MenuInductive, MenuTyped, MenuTask
  <2>2. ASSUME NEW t \in Claims PROVE ReadsInStep(task[t])'
    BY <1>1, <2>1 DEF MenuInductive, MenuTyped, MenuInStep, ReadsInStep
  <2>3. known' <= version' /\ known' # version' /\ mode'.known <= version' /\ mode'.known # version'
    BY <1>1 DEF MenuInductive, MenuTyped, MenuInStep
  <2>. QED
    BY <2>2, <2>3 DEF MenuInStep
<1>5. MenuLeads'
  <2>1. ASSUME ~mixed', NEW x \in Requests, edit'[x].pc = "read" PROVE EditLeads(x)'
    <3>1. edit[x].pc = "read" /\ EditLeads(x) /\ edit'[x] = edit[x]
      BY <1>1, <1>2, <2>1 DEF MenuInductive, MenuLeads
    <3>2. \A y \in Requests : edit[y].pc # "read" => edit'[y].pc # "read"
      BY <1>2
    <3>. QED
      BY <1>1, <3>1, <3>2 DEF EditLeads
  <2>. QED
    BY <1>1, <2>1 DEF MenuInductive, MenuLeads, RowsLead, TasksLead, PagesLead
<1>. QED
  BY <1>3, <1>4, <1>5 DEF MenuInductive

\* An edit that was committed and never raises the version is excused from here on.
LEMMA EditorStopsKeeps ==
    ASSUME MenuSizes, MenuInductive, NEW x \in Requests, Menu!EditorStops(x)
    PROVE  MenuInductive'
<1>1. /\ UNCHANGED <<screen, button, flag, version, menuCache, known, mode, task, mixed, outdated>>
      /\ unannounced' = (unannounced \/ edit[x].pc = "committed")
      /\ edit' = [edit EXCEPT ![x] = Menu!NoEdit]
  BY DEF Menu!EditorStops, Menu!menuTables, Menu!botMemory
<1>2. edit' \in [Requests -> MenuEditState] /\ \A y \in Requests :
        edit'[y].pc = "read" => edit'[y] = edit[y]
  BY <1>1 DEF MenuInductive, MenuTyped, MenuEditState, Menu!NoEdit
<1>3. MenuTyped'
  BY <1>1, <1>2 DEF MenuInductive, MenuTyped
<1>4. MenuQuiet' => MenuQuiet
  BY <1>1 DEF MenuInductive, MenuTyped, MenuQuiet
<1>5. MenuInStep'
  BY <1>1, <1>4 DEF MenuInductive, MenuInStep, ReadsInStep, ShownScreens, Menu!Faces,
     Menu!Face, Menu!Current, Menu!Page
<1>6. MenuLeads'
  <2>1. ASSUME ~mixed', NEW y \in Requests, edit'[y].pc = "read" PROVE EditLeads(y)'
    <3>1. edit[y].pc = "read" /\ EditLeads(y) /\ edit'[y] = edit[y]
      BY <1>1, <1>2, <2>1 DEF MenuInductive, MenuLeads
    <3>2. \A z \in Requests : edit[z].pc # "read" => edit'[z].pc # "read"
      BY <1>2
    <3>. QED
      BY <1>1, <3>1, <3>2 DEF EditLeads
  <2>. QED
    BY <1>1, <2>1 DEF MenuInductive, MenuLeads, RowsLead, TasksLead, PagesLead
<1>. QED
  BY <1>3, <1>5, <1>6 DEF MenuInductive

\* What a step of a task leaves alone, and what is to be shown of it.
LEMMA TaskFrame ==
    ASSUME MenuInductive, NEW t \in Claims, NEW new \in MenuTask,
           UNCHANGED <<screen, button, flag, version, edit, mixed, unannounced>>,
           task' = [task EXCEPT ![t] = new],
           ReadsInStep(new), \A f \in new.buttons : ~mixed => FaceLeads(f),
           known' \in Nat, known' <= version,
           mode' \in [value : BOOLEAN, known : Nat], mode'.known <= version,
           mode'.known = version => mode'.value = flag,
           known' = version /\ MenuQuiet /\ ~outdated' =>
             menuCache' \in {Menu!EmptyCache, Menu!Current},
           ~mixed => PagesLead(menuCache')
    PROVE  MenuInductive'
<1>1. MenuTyped'
  BY DEF MenuInductive, MenuTyped
<1>2. MenuQuiet' = MenuQuiet /\ Menu!Current' = Menu!Current
  BY DEF MenuQuiet, Menu!Current, Menu!Page, Menu!Faces, Menu!Face
<1>3. \A s \in Claims : task'[s] = new \/ task'[s] = task[s]
  BY DEF MenuInductive, MenuTyped
<1>4. \A s \in Claims : ReadsInStep(task[s])
  BY DEF MenuInductive, MenuInStep
<1>5. ASSUME NEW s \in Claims PROVE ReadsInStep(task[s])'
  BY <1>2, <1>3, <1>4 DEF ReadsInStep, ShownScreens, Menu!Faces, Menu!Face
<1>6. MenuInStep'
  BY <1>2, <1>5 DEF MenuInStep
<1>7. MenuLeads'
  BY <1>3 DEF MenuInductive, MenuLeads, RowsLead, TasksLead, PagesLead, EditLeads
<1>. QED
  BY <1>1, <1>6, <1>7 DEF MenuInductive

\* Steps that only move the task, to a state where it has read nothing of the tables.
LEMMA PlainTaskKeeps ==
    ASSUME MenuSizes, MenuInductive, NEW t \in Claims,
           \/ Menu!Ask(t) \/ Menu!Look(t) \/ Menu!QueryFails(t) \/ Menu!AskMode(t)
           \/ Menu!LookAtMode(t)
    PROVE  MenuInductive'
<1>1. UNCHANGED <<screen, button, flag, version, edit, menuCache, known, mode, mixed,
                  unannounced, outdated>>
  BY DEF Menu!Ask, Menu!Look, Menu!QueryFails, Menu!AskMode, Menu!LookAtMode, Menu!menuTables
<1>2. PICK new \in MenuTask :
        /\ task' = [task EXCEPT ![t] = new]
        /\ new.pc \notin {"buttons", "store", "set"} /\ new.version <= version
        /\ new.since <= version /\ new.buttons \subseteq task[t].buttons
  <2>1. task[t] \in MenuTask /\ ReadsInStep(task[t]) /\ version \in Nat
    BY DEF MenuInductive, MenuTyped, MenuInStep
  <2>2. CASE Menu!Ask(t) \/ Menu!AskMode(t) \/ Menu!QueryFails(t)
    <3>1. PICK pc \in {"look", "screens", "mode"} :
            \/ task' = [task EXCEPT ![t] = [Menu!Asleep EXCEPT !.pc = pc]]
            \/ task' = [task EXCEPT ![t] = Menu!Asleep]
      BY <2>2 DEF Menu!Ask, Menu!AskMode, Menu!QueryFails, Menu!Becomes
    <3>2. CASE task' = [task EXCEPT ![t] = Menu!Asleep]
      <4>1. /\ Menu!Asleep \in MenuTask /\ Menu!Asleep.pc \notin {"buttons", "store", "set"}
            /\ Menu!Asleep.version <= version /\ Menu!Asleep.since <= version
            /\ Menu!Asleep.buttons \subseteq task[t].buttons
        BY <2>1, AsleepIs
      <4>. QED
        BY <3>2, <4>1
    <3>3. CASE task' = [task EXCEPT ![t] = [Menu!Asleep EXCEPT !.pc = pc]]
      <4>. DEFINE new == [Menu!Asleep EXCEPT !.pc = pc]
      <4>1. /\ new \in MenuTask /\ new.pc = pc /\ new.version = 0 /\ new.since = 0
            /\ new.buttons = {}
        BY AwakeIs
      <4>2. task' = [task EXCEPT ![t] = new]
        BY <3>3
      <4>. HIDE DEF new
      <4>3. /\ new.pc \notin {"buttons", "store", "set"} /\ new.version <= version
            /\ new.since <= version /\ new.buttons \subseteq task[t].buttons
        BY <2>1, <4>1
      <4>. QED
        BY <4>1, <4>2, <4>3
    <3>. QED
      BY <3>1, <3>2, <3>3
  <2>3. CASE Menu!Look(t)
    <3>. DEFINE new == [task[t] EXCEPT !.pc = "compare", !.version = version]
    <3>1. task' = [task EXCEPT ![t] = new]
      BY <2>3 DEF Menu!Look, Menu!Becomes
    <3>2. /\ new \in MenuTask /\ new.pc = "compare" /\ new.version = version
          /\ new.since = task[t].since /\ new.buttons = task[t].buttons
      BY <2>1 DEF MenuTask
    <3>. HIDE DEF new
    <3>3. new.since <= version /\ new.version <= version
      BY <2>1, <3>2 DEF ReadsInStep
    <3>. QED
      BY <3>1, <3>2, <3>3
  <2>4. CASE Menu!LookAtMode(t)
    <3>1. \/ task' = [task EXCEPT ![t] = Menu!Asleep]
          \/ task' = [task EXCEPT ![t] = [Menu!Asleep EXCEPT !.pc = "flag", !.version = version]]
      BY <2>4 DEF Menu!LookAtMode, Menu!Becomes
    <3>2. CASE task' = [task EXCEPT ![t] = Menu!Asleep]
      <4>1. /\ Menu!Asleep \in MenuTask /\ Menu!Asleep.pc \notin {"buttons", "store", "set"}
            /\ Menu!Asleep.version <= version /\ Menu!Asleep.since <= version
            /\ Menu!Asleep.buttons \subseteq task[t].buttons
        BY <2>1, AsleepIs
      <4>. QED
        BY <3>2, <4>1
    <3>3. CASE task' = [task EXCEPT ![t] = [Menu!Asleep EXCEPT !.pc = "flag", !.version = version]]
      <4>. DEFINE new == [Menu!Asleep EXCEPT !.pc = "flag", !.version = version]
      <4>1. /\ new \in MenuTask /\ new.pc = "flag" /\ new.version = version /\ new.since = 0
            /\ new.buttons = {}
        BY <2>1 DEF Menu!Asleep, MenuTask
      <4>2. task' = [task EXCEPT ![t] = new]
        BY <3>3
      <4>. HIDE DEF new
      <4>3. /\ new.pc \notin {"buttons", "store", "set"} /\ new.version <= version
            /\ new.since <= version /\ new.buttons \subseteq task[t].buttons
        BY <2>1, <4>1
      <4>. QED
        BY <4>1, <4>2, <4>3
    <3>. QED
      BY <3>1, <3>2, <3>3
  <2>. QED
    BY <2>2, <2>3, <2>4
<1>3. ReadsInStep(new)
  BY <1>2 DEF ReadsInStep
<1>4. ~mixed => \A f \in new.buttons : FaceLeads(f)
  BY <1>2 DEF MenuInductive, MenuLeads, TasksLead
<1>5. /\ known' \in Nat /\ known' <= version /\ mode' \in [value : BOOLEAN, known : Nat]
      /\ mode'.known <= version /\ (mode'.known = version => mode'.value = flag)
      /\ known' = version /\ MenuQuiet /\ ~outdated' =>
           menuCache' \in {Menu!EmptyCache, Menu!Current}
      /\ ~mixed => PagesLead(menuCache')
  BY <1>1 DEF MenuInductive, MenuTyped, MenuInStep, MenuLeads
<1>. QED
  BY <1>1, <1>2, <1>3, <1>4, <1>5, TaskFrame

LEMMA CompareKeeps ==
    ASSUME MenuSizes, MenuInductive, NEW t \in Claims, Menu!Compare(t)
    PROVE  MenuInductive'
<1>. DEFINE new == task[t].version # known
            left == IF new THEN Menu!EmptyCache ELSE menuCache
<1>1. /\ UNCHANGED <<screen, button, flag, version, edit, mode, mixed, unannounced>>
      /\ menuCache' = left /\ known' = task[t].version /\ outdated' = (outdated /\ ~new)
  BY DEF Menu!Compare, Menu!menuTables, Menu!Emptied
<1>2. task[t] \in MenuTask /\ ReadsInStep(task[t]) /\ version \in Nat
  BY DEF MenuInductive, MenuTyped, MenuInStep
<1>3. PICK next \in MenuTask :
        /\ task' = [task EXCEPT ![t] = next]
        /\ next.pc \in {"screens", "idle"} /\ next.version = 0 /\ next.since = 0
        /\ next.buttons = {}
  <2>1. \/ task' = [task EXCEPT ![t] = [Menu!Asleep EXCEPT !.pc = "screens"]]
        \/ task' = [task EXCEPT ![t] = Menu!Asleep]
    BY DEF Menu!Compare, Menu!Becomes
  <2>. QED
    BY <2>1, AwakeIs, AsleepIs
<1>4. ReadsInStep(next)
  BY <1>2, <1>3 DEF ReadsInStep
<1>5. known' \in Nat /\ known' <= version
  BY <1>1, <1>2 DEF MenuTask, ReadsInStep
<1>6. /\ mode' \in [value : BOOLEAN, known : Nat] /\ mode'.known <= version
      /\ mode'.known = version => mode'.value = flag
  BY <1>1 DEF MenuInductive, MenuTyped, MenuInStep
<1>7. known' = version /\ MenuQuiet /\ ~outdated' =>
        menuCache' \in {Menu!EmptyCache, Menu!Current}
  BY <1>1 DEF MenuInductive, MenuInStep
<1>8. ~mixed => PagesLead(menuCache')
  BY <1>1, NoPages DEF MenuInductive, MenuLeads
<1>. QED
  BY <1>1, <1>3, <1>4, <1>5, <1>6, <1>7, <1>8, TaskFrame

\* The two queries of the menu, and the one of the switch.
LEMMA QueryScreensKeeps ==
    ASSUME MenuSizes, MenuInductive, NEW t \in Claims, Menu!QueryScreens(t)
    PROVE  MenuInductive'
<1>. DEFINE next == [task[t] EXCEPT !.pc = "buttons", !.since = known, !.screens = ShownScreens]
<1>1. /\ UNCHANGED <<screen, button, flag, version, edit, menuCache, known, mode, mixed,
                     unannounced, outdated>>
      /\ task' = [task EXCEPT ![t] = next]
  BY DEF Menu!QueryScreens, Menu!menuTables, Menu!Becomes, ShownScreens
<1>2. ShownScreens \subseteq Screens \X Nat
  BY DEF ShownScreens, MenuInductive, MenuTyped, MenuRow
<1>3. next \in MenuTask
  BY <1>2 DEF MenuInductive, MenuTyped, MenuTask
<1>4. ReadsInStep(next)
  BY DEF MenuInductive, MenuTyped, MenuInStep, ReadsInStep, MenuTask
<1>5. ~mixed => \A f \in next.buttons : FaceLeads(f)
  BY DEF MenuInductive, MenuTyped, MenuTask, MenuLeads, TasksLead
<1>6. /\ known' \in Nat /\ known' <= version /\ mode' \in [value : BOOLEAN, known : Nat]
      /\ mode'.known <= version /\ (mode'.known = version => mode'.value = flag)
      /\ known' = version /\ MenuQuiet /\ ~outdated' =>
           menuCache' \in {Menu!EmptyCache, Menu!Current}
      /\ ~mixed => PagesLead(menuCache')
  BY <1>1 DEF MenuInductive, MenuTyped, MenuInStep, MenuLeads
<1>. HIDE DEF next
<1>. QED
  BY <1>1, <1>3, <1>4, <1>5, <1>6, TaskFrame

LEMMA QueryButtonsKeeps ==
    ASSUME MenuSizes, MenuInductive, NEW t \in Claims, Menu!QueryButtons(t)
    PROVE  MenuInductive'
<1>. DEFINE next == [task[t] EXCEPT !.pc = "store", !.buttons = Menu!Faces]
<1>1. /\ UNCHANGED <<screen, button, flag, version, edit, menuCache, known, mode, mixed,
                     unannounced, outdated>>
      /\ task' = [task EXCEPT ![t] = next] /\ task[t].pc = "buttons"
  BY DEF Menu!QueryButtons, Menu!menuTables, Menu!Becomes, Menu!At
<1>2. Menu!Faces \subseteq FaceRow
  BY DEF Menu!Faces, Menu!Face, FaceRow, MenuInductive, MenuTyped, ButtonRow
<1>3. next \in MenuTask
  BY <1>2 DEF MenuInductive, MenuTyped, MenuTask
<1>4. ReadsInStep(next)
  <2>1. ReadsInStep(task[t]) /\ task[t] \in MenuTask
    BY DEF MenuInductive, MenuTyped, MenuInStep
  <2>2. /\ next.version = task[t].version /\ next.since = task[t].since
        /\ next.screens = task[t].screens /\ next.buttons = Menu!Faces /\ next.pc = "store"
    BY <2>1 DEF MenuTask
  <2>. HIDE DEF next
  <2>. QED
    BY <1>1, <2>1, <2>2 DEF ReadsInStep
<1>5. ~mixed => \A f \in next.buttons : FaceLeads(f)
  <2>1. ASSUME ~mixed, NEW f \in Menu!Faces PROVE FaceLeads(f)
    <3>1. PICK b \in Buttons : button[b].exists /\ f = Menu!Face(b)
      BY DEF Menu!Faces
    <3>2. Menu!Valid(button[b])
      BY <2>1, <3>1 DEF MenuInductive, MenuLeads, RowsLead
    <3>3. f.type = button[b].type /\ f.url = button[b].url /\ f.callback = button[b].callback
      BY <3>1 DEF Menu!Face
    <3>. QED
      BY <3>2, <3>3 DEF FaceLeads, Menu!Valid
  <2>2. next.buttons = Menu!Faces
    BY DEF MenuInductive, MenuTyped, MenuTask
  <2>. QED
    BY <2>1, <2>2
<1>6. /\ known' \in Nat /\ known' <= version /\ mode' \in [value : BOOLEAN, known : Nat]
      /\ mode'.known <= version /\ (mode'.known = version => mode'.value = flag)
      /\ known' = version /\ MenuQuiet /\ ~outdated' =>
           menuCache' \in {Menu!EmptyCache, Menu!Current}
      /\ ~mixed => PagesLead(menuCache')
  BY <1>1 DEF MenuInductive, MenuTyped, MenuInStep, MenuLeads
<1>. HIDE DEF next
<1>. QED
  BY <1>1, <1>3, <1>4, <1>5, <1>6, TaskFrame

LEMMA FlagKeeps ==
    ASSUME MenuSizes, MenuInductive, NEW t \in Claims, Menu!QueryFlag(t) \/ Menu!SetMode(t)
    PROVE  MenuInductive'
<1>1. UNCHANGED <<screen, button, flag, version, edit, menuCache, known, mixed, unannounced,
                  outdated>>
  BY DEF Menu!QueryFlag, Menu!SetMode, Menu!menuTables
<1>2. task[t] \in MenuTask /\ ReadsInStep(task[t]) /\ flag \in BOOLEAN /\ version \in Nat
  BY DEF MenuInductive, MenuTyped, MenuInStep
<1>3. PICK next \in MenuTask :
        /\ task' = [task EXCEPT ![t] = next]
        /\ next.pc \in {"set", "idle"} /\ next.version <= version /\ next.since <= version
        /\ next.pc = "set" => next.flag = flag
        /\ next.buttons \subseteq task[t].buttons
  <2>1. CASE Menu!QueryFlag(t)
    <3>. DEFINE next == [task[t] EXCEPT !.pc = "set", !.flag = flag]
    <3>1. task' = [task EXCEPT ![t] = next]
      BY <2>1 DEF Menu!QueryFlag, Menu!Becomes
    <3>2. /\ next \in MenuTask /\ next.pc = "set" /\ next.flag = flag
          /\ next.version = task[t].version /\ next.since = task[t].since
          /\ next.buttons = task[t].buttons
      BY <1>2 DEF MenuTask
    <3>. HIDE DEF next
    <3>3. next.since <= version /\ next.version <= version
      BY <1>2, <3>2 DEF ReadsInStep
    <3>. QED
      BY <3>1, <3>2, <3>3
  <2>2. CASE Menu!SetMode(t)
    <3>1. task' = [task EXCEPT ![t] = Menu!Asleep] /\ 0 <= version
      BY <1>2, <2>2 DEF Menu!SetMode, Menu!Becomes
    <3>. QED
      BY <3>1, AsleepIs
  <2>. QED
    BY <2>1, <2>2
<1>4. ReadsInStep(next)
  BY <1>3 DEF ReadsInStep
<1>5. ~mixed => \A f \in next.buttons : FaceLeads(f)
  BY <1>3 DEF MenuInductive, MenuLeads, TasksLead
<1>6. /\ mode' \in [value : BOOLEAN, known : Nat] /\ mode'.known <= version
      /\ mode'.known = version => mode'.value = flag
  <2>1. CASE Menu!QueryFlag(t)
    BY <2>1 DEF Menu!QueryFlag, MenuInductive, MenuTyped, MenuInStep
  <2>2. CASE Menu!SetMode(t)
    BY <1>2, <2>2 DEF Menu!SetMode, Menu!At, MenuTask, ReadsInStep
  <2>. QED
    BY <2>1, <2>2
<1>7. /\ known' \in Nat /\ known' <= version
      /\ known' = version /\ MenuQuiet /\ ~outdated' =>
           menuCache' \in {Menu!EmptyCache, Menu!Current}
      /\ ~mixed => PagesLead(menuCache')
  BY <1>1 DEF MenuInductive, MenuTyped, MenuInStep, MenuLeads
<1>. QED
  BY <1>1, <1>3, <1>4, <1>5, <1>6, <1>7, TaskFrame

\* The pages that were read under the latest version make an empty or current cache current.
LEMMA StoreKeeps ==
    ASSUME MenuSizes, MenuInductive, NEW t \in Claims, Menu!Store(t)
    PROVE  MenuInductive'
<1>1. /\ UNCHANGED <<screen, button, flag, version, edit, known, mode, mixed, unannounced>>
      /\ task' = [task EXCEPT ![t] = Menu!Asleep] /\ task[t].pc = "store"
      /\ menuCache' = Menu!StoredIn(menuCache, t)
      /\ outdated' = (outdated \/ task[t].since # known)
  BY DEF Menu!Store, Menu!menuTables, Menu!Becomes, Menu!At
<1>2. ReadsInStep(Menu!Asleep)
  BY AsleepIs DEF ReadsInStep, MenuInductive, MenuTyped
<1>3. /\ known' \in Nat /\ known' <= version /\ mode' \in [value : BOOLEAN, known : Nat]
      /\ mode'.known <= version /\ (mode'.known = version => mode'.value = flag)
  BY <1>1 DEF MenuInductive, MenuTyped, MenuInStep
<1>4. ASSUME known' = version, MenuQuiet, ~outdated' PROVE menuCache' = Menu!Current
  <2>. DEFINE active == {s \in Screens : screen[s].exists /\ screen[s].active}
              slugs == {x[1] : x \in ShownScreens}
  <2>1. task[t].screens = ShownScreens /\ task[t].buttons = Menu!Faces
    BY <1>1, <1>4 DEF MenuInductive, MenuInStep, ReadsInStep
  <2>2. menuCache \in {Menu!EmptyCache, Menu!Current}
    BY <1>1, <1>4 DEF MenuInductive, MenuInStep
  <2>3. slugs = active
    <3>1. ASSUME NEW s \in active PROVE s \in slugs
      <4>1. <<s, screen[s].text>> \in ShownScreens /\ <<s, screen[s].text>>[1] = s
        BY DEF ShownScreens
      <4>. QED
        BY <4>1
    <3>2. ASSUME NEW s \in slugs PROVE s \in active
      <4>1. PICK x \in ShownScreens : s = x[1]
        OBVIOUS
      <4>2. PICK q \in active : x = <<q, screen[q].text>>
        BY DEF ShownScreens
      <4>. QED
        BY <4>1, <4>2
    <3>. QED
      BY <3>1, <3>2
  <2>4. DOMAIN menuCache \cup slugs = active
    BY <2>2, <2>3, NoPages DEF Menu!Current
  <2>5. ASSUME NEW s \in active
        PROVE  (CHOOSE x \in ShownScreens : x[1] = s)[2] = screen[s].text
    <3>1. <<s, screen[s].text>> \in ShownScreens
      BY <2>5 DEF ShownScreens
    <3>2. \A x \in ShownScreens : x[1] = s => x[2] = screen[s].text
      BY DEF ShownScreens
    <3>3. (CHOOSE x \in ShownScreens : x[1] = s) \in ShownScreens
          /\ (CHOOSE x \in ShownScreens : x[1] = s)[1] = s
      <4>1. \E x \in ShownScreens : x[1] = s
        BY <3>1
      <4>. QED
        BY <4>1
    <3>. QED
      BY <3>2, <3>3
  <2>6. menuCache' = [s \in active |->
                        Menu!Page((CHOOSE x \in ShownScreens : x[1] = s)[2], s, Menu!Faces)]
    BY <1>1, <2>1, <2>3, <2>4 DEF Menu!StoredIn
  <2>. QED
    BY <2>5, <2>6 DEF Menu!Current
<1>5. ASSUME ~mixed PROVE PagesLead(menuCache')
  <2>1. PagesLead(menuCache) /\ \A f \in task[t].buttons : FaceLeads(f)
    BY <1>5 DEF MenuInductive, MenuLeads, TasksLead
  <2>2. ASSUME NEW s \in DOMAIN menuCache', NEW f \in menuCache'[s].buttons PROVE FaceLeads(f)
    <3>1. \/ f \in task[t].buttons
          \/ s \in DOMAIN menuCache /\ f \in menuCache[s].buttons
      BY <1>1, <2>2 DEF Menu!StoredIn, Menu!Page
    <3>. QED
      BY <2>1, <3>1 DEF PagesLead
  <2>. QED
    BY <2>2 DEF PagesLead
<1>. QED
  BY <1>1, <1>2, <1>3, <1>4, <1>5, AsleepIs, TaskFrame

LEMMA MenuSteps ==
    ASSUME MenuSizes, MenuInductive, [Menu!Next]_(Menu!botMenuVars)
    PROVE  MenuInductive'
<1>1. CASE UNCHANGED Menu!botMenuVars
  BY <1>1 DEF Menu!botMenuVars, Menu!menuTables, Menu!botMemory, MenuInductive, MenuTyped,
     MenuInStep, ReadsInStep, MenuQuiet, ShownScreens, Menu!Faces, Menu!Face, Menu!Current,
     Menu!Page, MenuLeads, RowsLead, TasksLead, PagesLead, EditLeads
<1>2. ASSUME NEW x \in Requests,
             Menu!OpenEdit(x) \/ Menu!CommitEdit(x) \/ Menu!Bump(x) \/ Menu!EditorStops(x)
      PROVE  MenuInductive'
  BY <1>2, OpenEditKeeps, CommitEditKeeps, VersionKeeps, EditorStopsKeeps
<1>3. CASE Menu!Switch
  BY <1>3, VersionKeeps
<1>4. ASSUME NEW t \in Claims,
             \/ Menu!Ask(t) \/ Menu!Look(t) \/ Menu!Compare(t) \/ Menu!QueryScreens(t)
             \/ Menu!QueryButtons(t) \/ Menu!Store(t) \/ Menu!QueryFails(t) \/ Menu!AskMode(t)
             \/ Menu!LookAtMode(t) \/ Menu!QueryFlag(t) \/ Menu!SetMode(t)
      PROVE  MenuInductive'
  BY <1>4, PlainTaskKeeps, CompareKeeps, QueryScreensKeeps, QueryButtonsKeeps, StoreKeeps,
     FlagKeeps
<1>. QED
  BY <1>1, <1>2, <1>3, <1>4 DEF Menu!Next

LEMMA MenuConcludes == MenuInductive => Menu!MenuServed
<1>. SUFFICES ASSUME MenuInductive PROVE Menu!MenuServed
  OBVIOUS
<1>1. Menu!MenuFresh
  BY DEF MenuInductive, MenuInStep, MenuQuiet, Menu!MenuFresh
<1>2. Menu!ModeFresh
  BY DEF MenuInductive, MenuInStep, Menu!ModeFresh
<1>3. Menu!ButtonsLead
  BY DEF MenuInductive, MenuLeads, PagesLead, FaceLeads, Menu!ButtonsLead
<1>. QED
  BY <1>1, <1>2, <1>3 DEF Menu!MenuServed

-----------------------------------------------------------------------------
(***************************************************************************)
(* What the bot knows people by.  A row's number never changes, and every  *)
(* name in a row or in a dialog is one its person has had.  So a row found *)
(* by a name is the person's own unless that name has had two holders; and *)
(* what a dialog then asks for and records is the person's.                *)
(***************************************************************************)

Nickname == Nicknames \cup {NoNickname}
Dialog ==
    [step : {"idle", "set", "insert", "rename", "look", "ask", "record"},
     who : Folk \cup {"nobody"}, name : Nickname, begun : BOOLEAN, same : BOOLEAN,
     at : Records \cup {"none"}, found : Known!Row, profile : BotProfiles \cup {NoBotProfile}]

KnownTyped ==
    /\ handle \in [Folk -> Nickname]
    /\ botRow \in [Records -> Known!Row]
    /\ dialog \in [Requests -> Dialog]
    /\ fill \in [todo : SUBSET Folk, who : Folk \cup {"nobody"}, name : Nickname]
    /\ {mistaken, missed, overtaken} \subseteq BOOLEAN
    /\ doubled \subseteq Folk

\* A row is of somebody who has had its name; the mail in it is his.
RowFits(x) ==
    x # Known!Absent =>
        /\ x.tg \in Folk /\ <<x.tg, x.name>> \in names
        /\ x.mail # NoBotProfile => HeldBy[x.mail] = x.tg

RowOwn(x) == x # Known!Absent /\ x.rw # NoBotProfile => HeldBy[x.rw] = x.tg

\* A dialog is with somebody who has had the name in it, and still has if nothing changed.
DialogFits(d) ==
    /\ d.step = "idle" => ~d.begun
    /\ d.step # "idle" =>
         d.who \in Folk /\ <<d.who, d.name>> \in names /\ (d.same => d.name = handle[d.who])
    /\ d.step \in {"set", "insert", "rename"} => d.begun
    /\ d.step \in {"set", "insert", "rename", "look"} => d.found = Known!Absent
    /\ d.step = "rename" /\ d.at # "none" =>
         botRow[d.at] # Known!Absent /\ botRow[d.at].tg = d.who

\* What it has found is the person's.
DialogOwn(d) ==
    /\ d.step = "ask" =>
         /\ d.found # Known!Absent => d.found.tg = d.who
         /\ d.found.rw # NoBotProfile => HeldBy[d.found.rw] = d.who
         /\ d.found.mail # NoBotProfile => HeldBy[d.found.mail] = d.who
    /\ d.step = "record" => HeldBy[d.profile] = d.who

ShownOwn == shown[2] # NoBotProfile => HeldBy[shown[2]] = shown[1]

\* After /start the person's row has the name he came with.
DialogFinds(d) ==
    d.step = "look" /\ d.begun /\ d.same /\ handle[d.who] # NoNickname =>
        \A r \in Records :
            botRow[r] # Known!Absent /\ botRow[r].tg = d.who => botRow[r].name = handle[d.who]

Rowless(p) == \A r \in Records : botRow[r] # Known!Absent => botRow[r].tg # p

\* Who did not press /start twice at a time has one row and one dialog that began with it.
OnceEach(p) ==
    /\ \A r, q \in Records :
         botRow[r] # Known!Absent /\ botRow[r].tg = p /\ botRow[q] # Known!Absent
         /\ botRow[q].tg = p => r = q
    /\ \A g, h \in Requests :
         dialog[g].begun /\ dialog[g].who = p /\ dialog[h].begun /\ dialog[h].who = p => g = h
    /\ \A h \in Requests : dialog[h].step = "insert" /\ dialog[h].who = p => Rowless(p)

NamesFit ==
    /\ \A p \in Folk : <<p, handle[p]>> \in names
    /\ fill.who # "nobody" => <<fill.who, fill.name>> \in names

SharedName == \E one, other \in names : one[2] = other[2] /\ one[1] # other[1]

KnownInductive ==
    /\ KnownTyped /\ NamesFit
    /\ \A r \in Records : RowFits(botRow[r])
    /\ \A h \in Requests : DialogFits(dialog[h])
    /\ \A p \in Folk \ doubled : OnceEach(p)
    /\ ~mistaken => /\ ShownOwn
                    /\ \A r \in Records : RowOwn(botRow[r])
                    /\ \A h \in Requests : DialogOwn(dialog[h])
    /\ mistaken => SharedName
    /\ ~overtaken /\ doubled = {} => /\ ~missed
                                     /\ \A h \in Requests : DialogFinds(dialog[h])

LEMMA AbsentIs ==
    /\ Known!Absent \in Known!Row /\ Known!Absent.tg = "nobody"
    /\ Known!Absent.rw = NoBotProfile /\ Known!Absent.mail = NoBotProfile
BY DEF Known!Absent, Known!Row

LEMMA IdleIs ==
    /\ Known!Idle \in Dialog /\ Known!Idle.step = "idle" /\ ~Known!Idle.begun
    /\ Known!Idle.found = Known!Absent /\ Known!Idle.same
BY AbsentIs DEF Known!Idle, Dialog, Nickname

LEMMA IdleFits ==
    /\ DialogFits(Known!Idle) /\ DialogOwn(Known!Idle) /\ DialogFinds(Known!Idle)
BY IdleIs DEF DialogFits, DialogOwn, DialogFinds

LEMMA KnownBegins ==
    ASSUME KnownSizes, Known!Init
    PROVE  KnownInductive
<1>1. PICK s \in Beginnings : handle = s[1] /\ botRow = s[2]
  BY DEF Known!Init
<1>2. BeginsRight(handle, botRow)
  BY <1>1 DEF KnownSizes
<1>3. dialog \in [Requests -> Dialog] /\ \A h \in Requests : dialog[h] = Known!Idle
  BY IdleIs DEF Known!Init
<1>4. KnownTyped
  BY <1>2, <1>3 DEF KnownTyped, BeginsRight, Known!Init, Nickname
<1>5. \A r \in Records : RowFits(botRow[r]) /\ RowOwn(botRow[r])
  <2>. SUFFICES ASSUME NEW r \in Records, botRow[r] # Known!Absent
                PROVE  RowFits(botRow[r]) /\ RowOwn(botRow[r])
    BY DEF RowFits, RowOwn
  <2>1. botRow[r].tg \in Folk
    BY <1>2 DEF BeginsRight
  <2>2. <<botRow[r].tg, botRow[r].name>> \in names
    BY DEF Known!Init, Known!Present
  <2>3. \A f \in {botRow[r].rw, botRow[r].mail} \ {NoBotProfile} : HeldBy[f] = botRow[r].tg
    BY <1>2 DEF BeginsRight
  <2>. QED
    BY <2>1, <2>2, <2>3 DEF RowFits, RowOwn
<1>6. \A p \in Folk : OnceEach(p)
  <2>1. \A r, q \in Records :
          botRow[r] # Known!Absent /\ botRow[q].tg = botRow[r].tg => q = r
    BY <1>2 DEF BeginsRight
  <2>2. \A h \in Requests : ~dialog[h].begun /\ dialog[h].step # "insert"
    BY <1>3, IdleIs
  <2>3. ASSUME NEW p \in Folk PROVE OnceEach(p)
    <3>1. \A r, q \in Records :
            botRow[r] # Known!Absent /\ botRow[r].tg = p /\ botRow[q] # Known!Absent
            /\ botRow[q].tg = p => r = q
      BY <2>1
    <3>. QED
      BY <2>2, <3>1, Zenon DEF OnceEach
  <2>. QED
    BY <2>3
<1>7. NamesFit
  BY DEF NamesFit, Known!Init
<1>8. ShownOwn
  BY DEF ShownOwn, Known!Init
<1>9. ~mistaken /\ ~missed
  BY DEF Known!Init
<1>. QED
  BY <1>3, <1>4, <1>5, <1>6, <1>7, <1>8, <1>9, IdleFits DEF KnownInductive

\* Steps that insert and delete no row and rename nobody: what they write to rows and
\* dialogs is right.
LEMMA KnownFrame ==
    ASSUME KnownInductive, KnownTyped',
           handle' = handle, names' = names, doubled' = doubled,
           mistaken => mistaken', overtaken => overtaken', NamesFit',
           mistaken' => SharedName, ~mistaken' => ShownOwn',
           ~overtaken' /\ doubled = {} => ~missed',
           \A r \in Records : botRow'[r] = botRow[r] \/
              /\ botRow[r] # Known!Absent /\ botRow'[r] # Known!Absent
              /\ botRow'[r].tg = botRow[r].tg /\ botRow'[r].mail = botRow[r].mail
              /\ <<botRow[r].tg, botRow'[r].name>> \in names
              /\ ~mistaken' => RowOwn(botRow'[r])
              /\ overtaken' \/ botRow'[r].name = handle[botRow[r].tg],
           \A h \in Requests : dialog'[h] = dialog[h] \/
              /\ DialogFits(dialog'[h])
              /\ dialog'[h].begun => dialog[h].begun /\ dialog'[h].who = dialog[h].who
              /\ dialog'[h].step = "insert" /\ dialog'[h].who \notin doubled =>
                   Rowless(dialog'[h].who)
              /\ ~mistaken' => DialogOwn(dialog'[h])
              /\ ~overtaken' /\ doubled = {} => DialogFinds(dialog[h])'
    PROVE  KnownInductive'
<1>1. \A r \in Records :
        /\ (botRow'[r] # Known!Absent) <=> (botRow[r] # Known!Absent)
        /\ botRow[r] # Known!Absent => botRow'[r].tg = botRow[r].tg
  OBVIOUS
<1>2. ASSUME NEW r \in Records PROVE RowFits(botRow[r])'
  BY <1>1 DEF KnownInductive, RowFits
<1>3. ASSUME NEW h \in Requests PROVE DialogFits(dialog[h])'
  <2>1. DialogFits(dialog'[h]) /\ dialog'[h] \in Dialog
    BY DEF KnownInductive, KnownTyped
  <2>2. dialog'[h].at # "none" => dialog'[h].at \in Records
    BY <2>1 DEF Dialog
  <2>. QED
    BY <1>1, <2>1, <2>2 DEF DialogFits
<1>4. ASSUME NEW p \in Folk \ doubled PROVE OnceEach(p)'
  <2>1. OnceEach(p)
    BY DEF KnownInductive
  <2>2. Rowless(p)' <=> Rowless(p)
    BY <1>1 DEF Rowless
  <2>3. \A h \in Requests : dialog'[h].begun => dialog[h].begun /\ dialog'[h].who = dialog[h].who
    OBVIOUS
  <2>4. \A h \in Requests : dialog'[h].step = "insert" /\ dialog'[h].who = p => Rowless(p)
    BY <2>1 DEF OnceEach
  <2>. QED
    BY <1>1, <2>1, <2>2, <2>3, <2>4 DEF OnceEach
<1>5. ASSUME ~mistaken'
      PROVE  ShownOwn' /\ (\A r \in Records : RowOwn(botRow'[r])) /\ \A h \in Requests : DialogOwn(dialog'[h])
  BY <1>5 DEF KnownInductive
<1>6. ASSUME ~overtaken', doubled = {}, NEW h \in Requests PROVE DialogFinds(dialog[h])'
  <2>1. CASE dialog'[h] = dialog[h]
    <3>1. DialogFinds(dialog[h])
      BY <1>6 DEF KnownInductive
    <3>2. \A r \in Records : botRow'[r] # Known!Absent =>
            /\ botRow[r] # Known!Absent /\ botRow'[r].tg = botRow[r].tg
            /\ botRow'[r].name \in {botRow[r].name, handle[botRow[r].tg]}
      BY <1>1, <1>6
    <3>. QED
      BY <2>1, <3>1, <3>2 DEF DialogFinds
  <2>. QED
    BY <1>6, <2>1
<1>7. \A p \in Folk \ doubled' : OnceEach(p)'
  BY <1>4
<1>8. mistaken' => SharedName'
  BY DEF SharedName
<1>9. (~mistaken => /\ ShownOwn
                    /\ \A r \in Records : RowOwn(botRow[r])
                    /\ \A h \in Requests : DialogOwn(dialog[h]))'
  BY <1>5 DEF RowOwn, DialogOwn
<1>10. (~overtaken /\ doubled = {} => /\ ~missed
                                      /\ \A h \in Requests : DialogFinds(dialog[h]))'
  BY <1>6
<1>. QED
  BY <1>2, <1>3, <1>7, <1>8, <1>9, <1>10 DEF KnownInductive

\* An update of Telegram: a dialog begins, with the name of now.
LEMMA CalledKeeps ==
    ASSUME KnownSizes, KnownInductive, NEW h \in Requests, NEW p \in Folk,
           Known!Start(h, p) \/ Known!Button(h, p)
    PROVE  KnownInductive'
<1>1. /\ dialog[h].step = "idle"
      /\ UNCHANGED <<handle, botRow, fill, shown, names, mistaken, missed, overtaken>>
  BY DEF Known!Start, Known!Button, Known!Called
<1>2. PICK d \in Dialog :
        /\ dialog' = [dialog EXCEPT ![h] = d]
        /\ d.step \in {"set", "look"} /\ d.who = p /\ d.name = handle[p]
        /\ d.begun <=> d.step = "set"
        /\ d.found = Known!Absent
        /\ ~d.begun => doubled' = doubled
        /\ d.begun => doubled' = IF \E g \in Requests : dialog[g].begun /\ dialog[g].who = p
                                 THEN doubled \cup {p} ELSE doubled
  <2>1. handle[p] \in Nickname
    BY DEF KnownInductive, KnownTyped
  <2>2. CASE Known!Start(h, p)
    <3>. DEFINE d == [Known!Idle EXCEPT !.step = "set", !.who = p, !.name = handle[p],
                                        !.begun = TRUE]
    <3>1. /\ d \in Dialog /\ d.step = "set" /\ d.who = p /\ d.name = handle[p] /\ d.begun
          /\ d.found = Known!Absent
      BY <2>1, IdleIs DEF Dialog
    <3>2. /\ dialog' = [dialog EXCEPT ![h] = d]
          /\ doubled' = IF \E g \in Requests : dialog[g].begun /\ dialog[g].who = p
                        THEN doubled \cup {p} ELSE doubled
      BY <2>2 DEF Known!Start, Known!Called
    <3>. HIDE DEF d
    <3>. QED
      BY <3>1, <3>2
  <2>3. CASE Known!Button(h, p)
    <3>. DEFINE d == [Known!Idle EXCEPT !.step = "look", !.who = p, !.name = handle[p],
                                        !.begun = FALSE]
    <3>1. /\ d \in Dialog /\ d.step = "look" /\ d.who = p /\ d.name = handle[p] /\ ~d.begun
          /\ d.found = Known!Absent
      BY <2>1, IdleIs DEF Dialog
    <3>2. dialog' = [dialog EXCEPT ![h] = d] /\ doubled' = doubled
      BY <2>3 DEF Known!Button, Known!Called
    <3>. HIDE DEF d
    <3>. QED
      BY <3>1, <3>2
  <2>. QED
    BY <2>2, <2>3
<1>3. /\ dialog' \in [Requests -> Dialog] /\ dialog'[h] = d
      /\ \A g \in Requests \ {h} : dialog'[g] = dialog[g]
  BY <1>2 DEF KnownInductive, KnownTyped
<1>4. doubled \subseteq doubled' /\ doubled' \subseteq Folk
  BY <1>2 DEF KnownInductive, KnownTyped
<1>5. KnownTyped'
  BY <1>1, <1>3, <1>4 DEF KnownInductive, KnownTyped
<1>6. DialogFits(d) /\ DialogOwn(d) /\ DialogFinds(d)
  BY <1>2 DEF KnownInductive, NamesFit, DialogFits, DialogOwn, DialogFinds
<1>7. ASSUME NEW g \in Requests
      PROVE  /\ DialogFits(dialog[g])'
             /\ ~mistaken' => DialogOwn(dialog'[g])
             /\ ~overtaken' /\ doubled' = {} => DialogFinds(dialog[g])'
  <2>1. \/ dialog'[g] = d
        \/ dialog'[g] = dialog[g]
    BY <1>3
  <2>2. CASE dialog'[g] = d
    BY <1>1, <1>6, <2>2 DEF DialogFits, DialogOwn, DialogFinds
  <2>3. CASE dialog'[g] = dialog[g]
    <3>1. DialogFits(dialog[g]) /\ (~mistaken => DialogOwn(dialog[g]))
          /\ (~overtaken /\ doubled = {} => DialogFinds(dialog[g]))
      BY DEF KnownInductive
    <3>2. doubled' = {} => doubled = {}
      BY <1>4
    <3>. QED
      BY <1>1, <2>3, <3>1, <3>2 DEF DialogFits, DialogOwn, DialogFinds
  <2>. QED
    BY <2>1, <2>2, <2>3
<1>8. ASSUME NEW q \in Folk \ doubled' PROVE OnceEach(q)'
  <2>1. OnceEach(q)
    BY <1>4 DEF KnownInductive
  <2>2. d.begun /\ q = p => \A g \in Requests : ~(dialog[g].begun /\ dialog[g].who = p)
    BY <1>2, <1>8
  <2>3. Rowless(q)' <=> Rowless(q)
    BY <1>1 DEF Rowless
  <2>4. \A f, g \in Requests :
          dialog'[f].begun /\ dialog'[f].who = q /\ dialog'[g].begun /\ dialog'[g].who = q => f = g
    BY <1>2, <1>3, <2>1, <2>2 DEF OnceEach
  <2>5. \A g \in Requests : dialog'[g].step = "insert" /\ dialog'[g].who = q => Rowless(q)
    BY <1>2, <1>3, <2>1 DEF OnceEach
  <2>. QED
    BY <1>1, <2>1, <2>3, <2>4, <2>5 DEF OnceEach
<1>9. NamesFit'
  BY <1>1 DEF KnownInductive, NamesFit
<1>10. /\ \A r \in Records : RowFits(botRow[r])' /\ (~mistaken' => RowOwn(botRow'[r]))
       /\ ~mistaken' => ShownOwn'
       /\ mistaken' => SharedName'
       /\ ~overtaken' /\ doubled' = {} => ~missed'
  BY <1>1, <1>4 DEF KnownInductive, RowFits, ShownOwn, SharedName
<1>11. ~mistaken' => (\A r \in Records : RowOwn(botRow[r])') /\ \A g \in Requests : DialogOwn(dialog[g])'
  BY <1>7, <1>10 DEF RowOwn, DialogOwn
<1>. QED
  BY <1>5, <1>7, <1>8, <1>9, <1>10, <1>11 DEF KnownInductive

\* Somebody changes his name: no dialog with him has it any more.
LEMMA RenameKeeps ==
    ASSUME KnownSizes, KnownInductive, NEW p \in Folk, NEW n \in Nickname, Known!Rename(p, n)
    PROVE  KnownInductive'
<1>1. /\ handle' = [handle EXCEPT ![p] = n] /\ names' = names \cup {<<p, n>>}
      /\ dialog' = [h \in Requests |-> [dialog[h] EXCEPT !.same = @ /\ dialog[h].who # p]]
      /\ UNCHANGED <<botRow, fill, shown, mistaken, missed, overtaken, doubled>>
  BY DEF Known!Rename
<1>2. \A h \in Requests :
        /\ dialog'[h] \in Dialog
        /\ dialog'[h].step = dialog[h].step /\ dialog'[h].who = dialog[h].who
        /\ dialog'[h].name = dialog[h].name /\ dialog'[h].begun = dialog[h].begun
        /\ dialog'[h].at = dialog[h].at /\ dialog'[h].found = dialog[h].found
        /\ dialog'[h].profile = dialog[h].profile
        /\ dialog'[h].same <=> dialog[h].same /\ dialog[h].who # p
  <2>. SUFFICES ASSUME NEW h \in Requests
                PROVE  LET e == [dialog[h] EXCEPT !.same = @ /\ dialog[h].who # p] IN
                       /\ e \in Dialog
                       /\ e.step = dialog[h].step /\ e.who = dialog[h].who
                       /\ e.name = dialog[h].name /\ e.begun = dialog[h].begun
                       /\ e.at = dialog[h].at /\ e.found = dialog[h].found
                       /\ e.profile = dialog[h].profile
                       /\ e.same <=> dialog[h].same /\ dialog[h].who # p
    BY <1>1
  <2>1. dialog[h] \in Dialog
    BY DEF KnownInductive, KnownTyped
  <2>2. (dialog[h].same /\ dialog[h].who # p) \in BOOLEAN
    OBVIOUS
  <2>. QED
    BY <2>1, <2>2 DEF Dialog
<1>3. KnownTyped'
  <2>1. dialog' \in [Requests -> Dialog]
    BY <1>1, <1>2
  <2>2. handle' \in [Folk -> Nickname]
    BY <1>1 DEF KnownInductive, KnownTyped
  <2>. QED
    BY <1>1, <2>1, <2>2 DEF KnownInductive, KnownTyped
<1>4. ASSUME NEW q \in Folk PROVE handle'[q] = IF q = p THEN n ELSE handle[q]
  BY <1>1 DEF KnownInductive, KnownTyped
<1>5. NamesFit'
  BY <1>1, <1>4 DEF KnownInductive, NamesFit
<1>6. \A r \in Records : RowFits(botRow[r])'
  BY <1>1 DEF KnownInductive, RowFits
<1>7. ASSUME NEW h \in Requests PROVE DialogFits(dialog[h])'
  <2>1. DialogFits(dialog[h])
    BY DEF KnownInductive
  <2>. QED
    BY <1>1, <1>2, <1>4, <2>1 DEF DialogFits
<1>8. ASSUME NEW q \in Folk \ doubled' PROVE OnceEach(q)'
  <2>1. OnceEach(q) /\ (Rowless(q)' <=> Rowless(q))
    BY <1>1, <1>8 DEF KnownInductive, Rowless
  <2>2. \A h \in Requests :
          /\ dialog'[h].begun = dialog[h].begun /\ dialog'[h].who = dialog[h].who
          /\ dialog'[h].step = dialog[h].step
    BY <1>2
  <2>3. botRow' = botRow
    BY <1>1
  <2>. QED
    BY <2>1, <2>2, <2>3 DEF OnceEach
<1>9. ASSUME ~mistaken'
      PROVE  (/\ ShownOwn
              /\ \A r \in Records : RowOwn(botRow[r])
              /\ \A h \in Requests : DialogOwn(dialog[h]))'
  BY <1>1, <1>2, <1>9 DEF KnownInductive, ShownOwn, RowOwn, DialogOwn
<1>10. mistaken' => SharedName'
  BY <1>1 DEF KnownInductive, SharedName
<1>11. ASSUME ~overtaken', doubled' = {}
       PROVE  (/\ ~missed
               /\ \A h \in Requests : DialogFinds(dialog[h]))'
  <2>1. ~missed' /\ \A h \in Requests : DialogFinds(dialog[h]) /\ DialogFits(dialog[h])
    BY <1>1, <1>11 DEF KnownInductive
  <2>2. ASSUME NEW h \in Requests PROVE DialogFinds(dialog[h])'
    <3>1. CASE dialog[h].who = p
      BY <1>2, <3>1 DEF DialogFinds
    <3>2. CASE dialog[h].who # p
      <4>1. dialog[h].step = "look" => handle'[dialog[h].who] = handle[dialog[h].who]
        BY <1>4, <2>1, <3>2 DEF DialogFits
      <4>2. botRow' = botRow
        BY <1>1
      <4>. QED
        BY <1>2, <2>1, <4>1, <4>2 DEF DialogFinds
    <3>. QED
      BY <3>1, <3>2
  <2>. QED
    BY <2>1, <2>2
<1>12. (~overtaken /\ doubled = {} => /\ ~missed
                                      /\ \A h \in Requests : DialogFinds(dialog[h]))'
  BY <1>11
<1>13. (~mistaken => /\ ShownOwn
                     /\ \A r \in Records : RowOwn(botRow[r])
                     /\ \A h \in Requests : DialogOwn(dialog[h]))'
  BY <1>9
<1>14. (\A q \in Folk \ doubled : OnceEach(q))'
  BY <1>8
<1>15. (mistaken => SharedName)'
  BY <1>10
<1>. QED
  BY <1>3, <1>5, <1>6, <1>7, <1>12, <1>13, <1>14, <1>15 DEF KnownInductive

\* Steps of one dialog that touch no row: set_user reads, the lookup by name, the panel.
LEMMA OneDialog ==
    ASSUME KnownInductive, NEW h \in Requests, NEW d \in Dialog,
           dialog' = [dialog EXCEPT ![h] = d],
           UNCHANGED <<handle, botRow, fill, names, overtaken, doubled>>,
           mistaken' \in BOOLEAN, missed' \in BOOLEAN, mistaken => mistaken',
           mistaken' => SharedName, ~mistaken' => ShownOwn',
           ~overtaken /\ doubled = {} => ~missed',
           DialogFits(d), d.begun => dialog[h].begun, d.begun => d.who = dialog[h].who,
           d.step = "insert" /\ d.who \notin doubled => Rowless(d.who),
           ~mistaken' => DialogOwn(d),
           ~overtaken /\ doubled = {} => DialogFinds(d)
    PROVE  KnownInductive'
<1>1. KnownTyped' /\ NamesFit'
  <2>1. dialog' \in [Requests -> Dialog]
    BY DEF KnownInductive, KnownTyped
  <2>2. {mistaken', missed', overtaken'} \subseteq BOOLEAN
    BY DEF KnownInductive, KnownTyped
  <2>3. KnownTyped'
    BY <2>1, <2>2 DEF KnownInductive, KnownTyped
  <2>4. NamesFit /\ handle' = handle /\ names' = names /\ fill' = fill
    BY DEF KnownInductive
  <2>5. NamesFit'
    BY <2>4 DEF NamesFit
  <2>. QED
    BY <2>3, <2>5
<1>2. \A g \in Requests : dialog'[g] = dialog[g] \/ (g = h /\ dialog'[g] = d)
  BY DEF KnownInductive, KnownTyped
<1>3. ASSUME NEW g \in Requests, g = h, dialog'[g] = d PROVE DialogFinds(d) => DialogFinds(dialog[g])'
  BY <1>3 DEF DialogFinds
<1>4. \A g \in Requests : dialog'[g] = dialog[g] \/
        /\ DialogFits(dialog'[g])
        /\ dialog'[g].begun => dialog[g].begun /\ dialog'[g].who = dialog[g].who
        /\ dialog'[g].step = "insert" /\ dialog'[g].who \notin doubled =>
             Rowless(dialog'[g].who)
        /\ ~mistaken' => DialogOwn(dialog'[g])
        /\ ~overtaken' /\ doubled = {} => DialogFinds(dialog[g])'
  BY <1>2, <1>3
<1>. QED
  BY <1>1, <1>4, KnownFrame

\* A dialog goes to another step and keeps the rest, or ends.
LEMMA GoesTo ==
    ASSUME NEW d \in Dialog,
           NEW to \in {"idle", "set", "insert", "rename", "look", "ask", "record"}
    PROVE  LET e == [d EXCEPT !.step = to] IN
           /\ e \in Dialog /\ e.step = to /\ e.who = d.who /\ e.name = d.name
           /\ e.begun = d.begun /\ e.same = d.same /\ e.at = d.at /\ e.found = d.found
           /\ e.profile = d.profile
BY DEF Dialog

LEMMA EndsIsRight ==
    ASSUME KnownInductive
    PROVE  /\ DialogFits(Known!Idle) /\ DialogOwn(Known!Idle) /\ DialogFinds(Known!Idle)
           /\ Known!Idle \in Dialog /\ ~Known!Idle.begun /\ Known!Idle.step # "insert"
BY IdleIs, IdleFits

LEMMA SetUserReadsKeeps ==
    ASSUME KnownSizes, KnownInductive, NEW h \in Requests, Known!SetUserReads(h)
    PROVE  KnownInductive'
<1>. DEFINE old == dialog[h]
<1>1. /\ old.step = "set"
      /\ UNCHANGED <<handle, botRow, fill, shown, names, mistaken, missed, overtaken, doubled>>
  BY DEF Known!SetUserReads
<1>2. old \in Dialog /\ DialogFits(old) /\ old.begun /\ old.who \in Folk /\ old.found = Known!Absent
      /\ (old.same => old.name = handle[old.who]) /\ <<old.who, old.name>> \in names
  BY <1>1 DEF KnownInductive, KnownTyped, DialogFits
<1>3. /\ mistaken' \in BOOLEAN /\ missed' \in BOOLEAN /\ (mistaken => mistaken')
      /\ (mistaken' => SharedName) /\ (~mistaken' => ShownOwn')
      /\ (~overtaken /\ doubled = {} => ~missed')
  BY <1>1 DEF KnownInductive, KnownTyped, ShownOwn
<1>4. \/ /\ Known!RowsOf(old.who) = {}
         /\ dialog' = [dialog EXCEPT ![h] = [old EXCEPT !.step = "insert"]]
      \/ dialog' = [dialog EXCEPT ![h] = Known!Idle]
      \/ \E r \in Known!RowsOf(old.who) :
           \/ /\ old.name \in {NoNickname, botRow[r].name}
              /\ dialog' = [dialog EXCEPT ![h] = [old EXCEPT !.step = "look"]]
           \/ dialog' = [dialog EXCEPT ![h] = [old EXCEPT !.step = "rename", !.at = r]]
  <2>1. \/ Known!RowsOf(old.who) = {} /\ Known!Goes(h, "insert")
        \/ \E r \in Known!RowsOf(old.who) :
             IF Known!NameKnown(h, r) THEN Known!Goes(h, "look") \/ Known!Ends(h)
             ELSE dialog' = [dialog EXCEPT ![h].step = "rename", ![h].at = r]
    BY DEF Known!SetUserReads
  <2>2. \A r : [dialog EXCEPT ![h].step = "rename", ![h].at = r]
                 = [dialog EXCEPT ![h] = [old EXCEPT !.step = "rename", !.at = r]]
    BY DEF KnownInductive, KnownTyped
  <2>3. \A to : [dialog EXCEPT ![h].step = to] = [dialog EXCEPT ![h] = [old EXCEPT !.step = to]]
    BY DEF KnownInductive, KnownTyped
  <2>. QED
    BY <2>1, <2>2, <2>3 DEF Known!Goes, Known!Ends, Known!NameKnown
<1>5. CASE /\ Known!RowsOf(old.who) = {}
           /\ dialog' = [dialog EXCEPT ![h] = [old EXCEPT !.step = "insert"]]
  <2>. DEFINE d == [old EXCEPT !.step = "insert"]
  <2>1. /\ d \in Dialog /\ d.step = "insert" /\ d.who = old.who /\ d.name = old.name
        /\ d.begun = old.begun /\ d.same = old.same /\ d.found = old.found
    BY <1>2, GoesTo
  <2>2. dialog' = [dialog EXCEPT ![h] = d]
    BY <1>5
  <2>. HIDE DEF d
  <2>3. DialogFits(d) /\ DialogOwn(d) /\ DialogFinds(d)
    BY <1>2, <2>1 DEF DialogFits, DialogOwn, DialogFinds
  <2>4. Rowless(d.who)
    BY <1>5, <2>1 DEF Rowless, Known!RowsOf, Known!Present
  <2>. QED
    BY <1>1, <1>2, <1>3, <2>1, <2>2, <2>3, <2>4, OneDialog
<1>6. CASE dialog' = [dialog EXCEPT ![h] = Known!Idle]
  BY <1>1, <1>3, <1>6, EndsIsRight, OneDialog
<1>7. ASSUME NEW r \in Known!RowsOf(old.who), old.name \in {NoNickname, botRow[r].name},
             dialog' = [dialog EXCEPT ![h] = [old EXCEPT !.step = "look"]]
      PROVE  KnownInductive'
  <2>. DEFINE d == [old EXCEPT !.step = "look"]
  <2>1. /\ d \in Dialog /\ d.step = "look" /\ d.who = old.who /\ d.name = old.name
        /\ d.begun = old.begun /\ d.same = old.same /\ d.found = old.found
    BY <1>2, GoesTo
  <2>2. dialog' = [dialog EXCEPT ![h] = d]
    BY <1>7
  <2>. HIDE DEF d
  <2>3. DialogFits(d) /\ DialogOwn(d)
    BY <1>2, <2>1 DEF DialogFits, DialogOwn
  <2>4. ASSUME doubled = {} PROVE DialogFinds(d)
    <3>1. r \in Records /\ botRow[r] # Known!Absent /\ botRow[r].tg = old.who
      BY <1>7 DEF Known!RowsOf, Known!Present
    <3>2. OnceEach(old.who)
      BY <1>2, <2>4 DEF KnownInductive
    <3>3. \A q \in Records : botRow[q] # Known!Absent /\ botRow[q].tg = old.who => q = r
      BY <3>1, <3>2 DEF OnceEach
    <3>. QED
      BY <1>2, <1>7, <2>1, <3>3 DEF DialogFinds
  <2>. QED
    BY <1>1, <1>2, <1>3, <2>1, <2>2, <2>3, <2>4, OneDialog
<1>8. ASSUME NEW r \in Known!RowsOf(old.who),
             dialog' = [dialog EXCEPT ![h] = [old EXCEPT !.step = "rename", !.at = r]]
      PROVE  KnownInductive'
  <2>. DEFINE d == [old EXCEPT !.step = "rename", !.at = r]
  <2>0. r \in Records /\ botRow[r] # Known!Absent /\ botRow[r].tg = old.who
    BY <1>8 DEF Known!RowsOf, Known!Present
  <2>1. /\ d \in Dialog /\ d.step = "rename" /\ d.who = old.who /\ d.name = old.name
        /\ d.begun = old.begun /\ d.same = old.same /\ d.found = old.found /\ d.at = r
    BY <1>2, <2>0 DEF Dialog
  <2>2. dialog' = [dialog EXCEPT ![h] = d]
    BY <1>8
  <2>. HIDE DEF d
  <2>3. DialogFits(d) /\ DialogOwn(d) /\ DialogFinds(d)
    BY <1>2, <2>0, <2>1 DEF DialogFits, DialogOwn, DialogFinds
  <2>. QED
    BY <1>1, <1>2, <1>3, <2>1, <2>2, <2>3, OneDialog
<1>. QED
  BY <1>4, <1>5, <1>6, <1>7, <1>8

LEMMA LookKeeps ==
    ASSUME KnownSizes, KnownInductive, NEW h \in Requests, Known!Look(h)
    PROVE  KnownInductive'
<1>. DEFINE old == dialog[h]
            p == old.who
            bearers == Known!Named(old.name)
<1>1. /\ old.step = "look"
      /\ UNCHANGED <<handle, botRow, fill, shown, names, overtaken, doubled>>
      /\ mistaken' = (mistaken \/ \E r \in bearers : botRow[r].tg # p)
      /\ missed' = (missed \/ (old.begun /\ Known!ProfileHeld(p)
                               /\ bearers \cap Known!RowsOf(p) = {}
                               /\ old.same /\ handle[p] # NoNickname))
  BY DEF Known!Look
<1>2. old \in Dialog /\ DialogFits(old) /\ p \in Folk /\ old.found = Known!Absent
      /\ (old.same => old.name = handle[p]) /\ <<p, old.name>> \in names
  BY <1>1 DEF KnownInductive, KnownTyped, DialogFits
<1>3. \A r \in bearers : r \in Records /\ botRow[r] # Known!Absent /\ botRow[r].name = old.name
                         /\ old.name # NoNickname
  BY DEF Known!Named, Known!Present
<1>4. mistaken' => SharedName
  <2>1. ASSUME NEW r \in bearers, botRow[r].tg # p PROVE SharedName
    <3>1. RowFits(botRow[r]) /\ botRow[r].name = old.name /\ botRow[r] # Known!Absent
      BY <1>3, <2>1 DEF KnownInductive
    <3>2. <<botRow[r].tg, old.name>> \in names
      BY <3>1 DEF RowFits
    <3>. QED
      BY <1>2, <2>1, <3>2 DEF SharedName
  <2>. QED
    BY <1>1, <2>1 DEF KnownInductive
<1>5. ~overtaken /\ doubled = {} => ~missed'
  <2>1. ASSUME ~overtaken, doubled = {}, old.begun, old.same, handle[p] # NoNickname,
               NEW r \in Known!RowsOf(p)
        PROVE  r \in bearers
    <3>1. DialogFinds(old)
      BY <2>1 DEF KnownInductive
    <3>2. r \in Records /\ botRow[r] # Known!Absent /\ botRow[r].tg = p
      BY DEF Known!RowsOf, Known!Present
    <3>3. botRow[r].name = handle[p]
      BY <1>1, <2>1, <3>1, <3>2 DEF DialogFinds
    <3>. QED
      BY <1>2, <2>1, <3>2, <3>3 DEF Known!Named, Known!Present
  <2>2. Known!ProfileHeld(p) => \E r : r \in Known!RowsOf(p)
    BY DEF Known!ProfileHeld
  <2>. QED
    BY <1>1, <2>1, <2>2 DEF KnownInductive
<1>6. PICK x \in Known!Row :
        /\ dialog' = [dialog EXCEPT ![h] = [old EXCEPT !.step = "ask", !.found = x]]
        /\ ~mistaken' => /\ x # Known!Absent => x.tg = p
                         /\ x.rw # NoBotProfile => HeldBy[x.rw] = p
                         /\ x.mail # NoBotProfile => HeldBy[x.mail] = p
  <2>1. CASE bearers = {} /\ Known!Goes(h, "ask")
    <3>1. [dialog EXCEPT ![h].step = "ask"]
            = [dialog EXCEPT ![h] = [old EXCEPT !.step = "ask", !.found = Known!Absent]]
      <4>1. [old EXCEPT !.step = "ask"] = [old EXCEPT !.step = "ask", !.found = Known!Absent]
        BY <1>2 DEF Dialog
      <4>. QED
        BY <4>1 DEF KnownInductive, KnownTyped
    <3>. QED
      BY <2>1, <3>1, AbsentIs DEF Known!Goes
  <2>2. ASSUME NEW r \in bearers, NEW s \in Known!RowsOf(botRow[r].tg),
               dialog' = [dialog EXCEPT ![h].step = "ask",
                                        ![h].found = [botRow[r] EXCEPT !.mail = botRow[s].mail]]
        PROVE  \E x \in Known!Row :
                 /\ dialog' = [dialog EXCEPT ![h] = [old EXCEPT !.step = "ask", !.found = x]]
                 /\ ~mistaken' => /\ x # Known!Absent => x.tg = p
                                  /\ x.rw # NoBotProfile => HeldBy[x.rw] = p
                                  /\ x.mail # NoBotProfile => HeldBy[x.mail] = p
    <3>. DEFINE x == [botRow[r] EXCEPT !.mail = botRow[s].mail]
    <3>1. s \in Records /\ botRow[s] # Known!Absent /\ botRow[s].tg = botRow[r].tg
      BY DEF Known!RowsOf, Known!Present
    <3>2. r \in Records /\ botRow[r] # Known!Absent
      BY <1>3
    <3>3. botRow[r] \in Known!Row /\ botRow[s] \in Known!Row
      BY <3>1, <3>2 DEF KnownInductive, KnownTyped
    <3>4. x \in Known!Row /\ x.tg = botRow[r].tg /\ x.rw = botRow[r].rw /\ x.mail = botRow[s].mail
      BY <3>3 DEF Known!Row
    <3>5. dialog' = [dialog EXCEPT ![h] = [old EXCEPT !.step = "ask", !.found = x]]
      BY <2>2 DEF KnownInductive, KnownTyped
    <3>6. ASSUME ~mistaken'
          PROVE  /\ botRow[r].tg = p
                 /\ botRow[r].rw # NoBotProfile => HeldBy[botRow[r].rw] = p
                 /\ botRow[s].mail # NoBotProfile => HeldBy[botRow[s].mail] = p
      <4>1. botRow[r].tg = p
        BY <1>1, <3>6
      <4>2. RowOwn(botRow[r]) /\ RowFits(botRow[s])
        BY <1>1, <3>1, <3>2, <3>6 DEF KnownInductive
      <4>. QED
        BY <3>1, <3>2, <4>1, <4>2 DEF RowOwn, RowFits
    <3>. HIDE DEF x
    <3>. QED
      BY <3>4, <3>5, <3>6
  <2>3. \/ bearers = {} /\ Known!Goes(h, "ask")
        \/ \E r \in bearers : \E s \in Known!RowsOf(botRow[r].tg) :
             dialog' = [dialog EXCEPT ![h].step = "ask",
                                      ![h].found = [botRow[r] EXCEPT !.mail = botRow[s].mail]]
    BY DEF Known!Look
  <2>. QED
    BY <2>1, <2>2, <2>3
<1>7. /\ mistaken' \in BOOLEAN /\ missed' \in BOOLEAN /\ (mistaken => mistaken')
      /\ (~mistaken' => ShownOwn')
  BY <1>1 DEF KnownInductive, KnownTyped, ShownOwn
<1>. DEFINE d == [old EXCEPT !.step = "ask", !.found = x]
<1>8. /\ d \in Dialog /\ d.step = "ask" /\ d.who = p /\ d.name = old.name
      /\ d.begun = old.begun /\ d.same = old.same /\ d.found = x
  BY <1>2, <1>6 DEF Dialog
<1>9. dialog' = [dialog EXCEPT ![h] = d]
  BY <1>6
<1>. HIDE DEF d
<1>10. DialogFits(d) /\ DialogFinds(d)
  BY <1>2, <1>8 DEF DialogFits, DialogFinds
<1>11. ~mistaken' => DialogOwn(d)
  BY <1>6, <1>8 DEF DialogOwn
<1>. QED
  BY <1>1, <1>4, <1>5, <1>7, <1>8, <1>9, <1>10, <1>11, OneDialog

LEMMA AskKeeps ==
    ASSUME KnownSizes, KnownInductive, NEW h \in Requests,
           Known!AskFails(h) \/ \E answered \in BOOLEAN : Known!Ask(h, answered)
    PROVE  KnownInductive'
<1>. DEFINE old == dialog[h]
            p == old.who
<1>1. /\ old.step = "ask"
      /\ UNCHANGED <<handle, botRow, fill, names, mistaken, missed, overtaken, doubled>>
      /\ \/ Known!ShowsNew(h)
         \/ \E answered \in BOOLEAN : \E f \in Known!Resolved(h, answered) :
              /\ dialog' = [dialog EXCEPT ![h].step = "record", ![h].profile = f]
              /\ shown' = shown
  BY DEF Known!AskFails, Known!Ask, Known!ShowsNew
<1>2. old \in Dialog /\ DialogFits(old) /\ p \in Folk /\ (~mistaken => DialogOwn(old))
  BY <1>1 DEF KnownInductive, KnownTyped, DialogFits
<1>3. /\ mistaken' \in BOOLEAN /\ missed' \in BOOLEAN /\ (mistaken => mistaken')
      /\ (mistaken' => SharedName) /\ (~overtaken /\ doubled = {} => ~missed')
  BY <1>1 DEF KnownInductive, KnownTyped
<1>4. CASE Known!ShowsNew(h)
  <2>1. dialog' = [dialog EXCEPT ![h] = Known!Idle] /\ shown' = <<p, NoBotProfile>>
    BY <1>4 DEF Known!ShowsNew, Known!Ends
  <2>2. ShownOwn'
    BY <2>1 DEF ShownOwn
  <2>. QED
    BY <1>1, <1>3, <2>1, <2>2, EndsIsRight, OneDialog
<1>5. ASSUME NEW answered \in BOOLEAN, NEW f \in Known!Resolved(h, answered),
             dialog' = [dialog EXCEPT ![h].step = "record", ![h].profile = f], shown' = shown
      PROVE  KnownInductive'
  <2>1. old.found \in Known!Row
    BY <1>2 DEF Dialog
  <2>2. /\ f \in BotProfiles \cup {NoBotProfile}
        /\ ~mistaken => HeldBy[f] = p
    <3>1. \/ old.found.rw # NoBotProfile /\ f = old.found.rw
          \/ old.found.mail # NoBotProfile /\ f = old.found.mail
          \/ f \in BotProfiles /\ old.found # Known!Absent /\ HeldBy[f] = old.found.tg
      BY <1>5 DEF Known!Resolved, Known!NameIsProof
    <3>2. old.found.rw \in BotProfiles \cup {NoBotProfile} /\ old.found.mail \in BotProfiles \cup {NoBotProfile}
      BY <2>1 DEF Known!Row
    <3>. QED
      BY <1>1, <1>2, <3>1, <3>2 DEF DialogOwn
  <2>. DEFINE d == [old EXCEPT !.step = "record", !.profile = f]
  <2>3. /\ d \in Dialog /\ d.step = "record" /\ d.who = p /\ d.name = old.name
        /\ d.begun = old.begun /\ d.same = old.same /\ d.profile = f
    BY <1>2, <2>2 DEF Dialog
  <2>4. dialog' = [dialog EXCEPT ![h] = d]
    BY <1>5 DEF KnownInductive, KnownTyped
  <2>. HIDE DEF d
  <2>5. DialogFits(d) /\ DialogFinds(d) /\ (~mistaken => DialogOwn(d))
    BY <1>1, <1>2, <2>2, <2>3 DEF DialogFits, DialogFinds, DialogOwn
  <2>6. ~mistaken' => ShownOwn'
    BY <1>1, <1>5 DEF KnownInductive, ShownOwn
  <2>. QED
    BY <1>1, <1>2, <1>3, <2>3, <2>4, <2>5, <2>6, OneDialog
<1>. QED
  BY <1>1, <1>4, <1>5

\* set_user and the menu write a name and a profile to the row of the person, and go on.
LEMMA OneRow ==
    ASSUME KnownInductive, NEW h \in Requests, NEW d \in Dialog, NEW r \in Records,
           NEW x \in Known!Row,
           dialog' = [dialog EXCEPT ![h] = d], botRow' = [botRow EXCEPT ![r] = x],
           botRow[r] # Known!Absent, x # Known!Absent, x.tg = botRow[r].tg,
           x.mail = botRow[r].mail, <<x.tg, x.name>> \in names,
           UNCHANGED <<handle, fill, names, mistaken, missed, doubled>>,
           overtaken' = (overtaken \/ x.name # handle[x.tg]),
           ~mistaken => RowOwn(x), ~mistaken => ShownOwn',
           DialogFits(d), d.begun => dialog[h].begun, d.begun => d.who = dialog[h].who,
           d.step # "insert", ~mistaken => DialogOwn(d),
           d.step = "look" => d.who = x.tg
    PROVE  KnownInductive'
<1>1. dialog' \in [Requests -> Dialog] /\ botRow' \in [Records -> Known!Row]
  BY DEF KnownInductive, KnownTyped
<1>2. {mistaken', missed', overtaken'} \subseteq BOOLEAN
  BY DEF KnownInductive, KnownTyped
<1>3. KnownTyped' /\ NamesFit'
  <2>1. KnownTyped'
    BY <1>1, <1>2 DEF KnownInductive, KnownTyped
  <2>2. NamesFit /\ handle' = handle /\ names' = names /\ fill' = fill
    BY DEF KnownInductive
  <2>. QED
    BY <2>1, <2>2 DEF NamesFit
<1>4. \A g \in Requests : dialog'[g] = dialog[g] \/ (g = h /\ dialog'[g] = d)
  <2>1. dialog \in [Requests -> Dialog]
    BY DEF KnownInductive, KnownTyped
  <2>. QED
    BY <2>1
<1>5. \A q \in Records : botRow'[q] = botRow[q] \/ (q = r /\ botRow'[q] = x)
  BY DEF KnownInductive, KnownTyped
<1>6. botRow'[r] = x
  BY DEF KnownInductive, KnownTyped
<1>7. \A q \in Records : botRow'[q] = botRow[q] \/
        /\ botRow[q] # Known!Absent /\ botRow'[q] # Known!Absent
        /\ botRow'[q].tg = botRow[q].tg /\ botRow'[q].mail = botRow[q].mail
        /\ <<botRow[q].tg, botRow'[q].name>> \in names
        /\ ~mistaken' => RowOwn(botRow'[q])
        /\ overtaken' \/ botRow'[q].name = handle[botRow[q].tg]
  BY <1>5
<1>8. ASSUME ~overtaken', doubled = {}, NEW g \in Requests, g = h, dialog'[g] = d
      PROVE  DialogFinds(dialog[g])'
  <2>. SUFFICES ASSUME d.step = "look", handle[d.who] # NoNickname, NEW q \in Records,
                       botRow'[q] # Known!Absent, botRow'[q].tg = d.who
                PROVE  botRow'[q].name = handle[d.who]
    BY <1>8 DEF DialogFinds
  <2>1. OnceEach(d.who)
    <3>1. RowFits(botRow[r])
      BY DEF KnownInductive
    <3>2. d.who \in Folk
      BY <3>1 DEF RowFits
    <3>. QED
      BY <1>8, <3>2 DEF KnownInductive
  <2>2. botRow[q] # Known!Absent /\ botRow[q].tg = d.who
    BY <1>5
  <2>3. q = r
    BY <2>1, <2>2 DEF OnceEach
  <2>. QED
    BY <1>6, <1>8, <2>3
<1>9. \A g \in Requests : dialog'[g] = dialog[g] \/
        /\ DialogFits(dialog'[g])
        /\ dialog'[g].begun => dialog[g].begun /\ dialog'[g].who = dialog[g].who
        /\ dialog'[g].step = "insert" /\ dialog'[g].who \notin doubled =>
             Rowless(dialog'[g].who)
        /\ ~mistaken' => DialogOwn(dialog'[g])
        /\ ~overtaken' /\ doubled = {} => DialogFinds(dialog[g])'
  BY <1>4, <1>8
<1>10. /\ mistaken => mistaken'
       /\ overtaken => overtaken'
       /\ mistaken' => SharedName
       /\ ~mistaken' => ShownOwn'
       /\ ~overtaken' /\ doubled = {} => ~missed'
  BY DEF KnownInductive
<1>. QED
  BY <1>3, <1>7, <1>9, <1>10, KnownFrame

LEMMA SetUserRenamesKeeps ==
    ASSUME KnownSizes, KnownInductive, NEW h \in Requests, Known!SetUserRenames(h)
    PROVE  KnownInductive'
<1>. DEFINE old == dialog[h]
            r == old.at
<1>1. /\ old.step = "rename"
      /\ UNCHANGED <<handle, fill, shown, names, mistaken, missed, doubled>>
  BY DEF Known!SetUserRenames
<1>2. old \in Dialog /\ DialogFits(old) /\ old.who \in Folk /\ old.begun
      /\ old.found = Known!Absent /\ (old.same => old.name = handle[old.who])
      /\ <<old.who, old.name>> \in names
  BY <1>1 DEF KnownInductive, KnownTyped, DialogFits
<1>3. ~mistaken => ShownOwn'
  BY <1>1 DEF KnownInductive, ShownOwn
<1>4. CASE r \in Known!Present
  <2>. DEFINE x == [botRow[r] EXCEPT !.name = old.name]
              d == [old EXCEPT !.step = "look"]
  <2>1. /\ botRow' = [botRow EXCEPT ![r].name = old.name]
        /\ overtaken' = (overtaken \/ old.name # handle[botRow[r].tg])
        /\ Known!Goes(h, "look") \/ Known!Ends(h)
    BY <1>4 DEF Known!SetUserRenames, Known!Stored
  <2>2. r \in Records /\ botRow[r] # Known!Absent /\ botRow[r] \in Known!Row
        /\ botRow[r].tg = old.who
    <3>1. r \in Records /\ botRow[r] # Known!Absent
      BY <1>4 DEF Known!Present
    <3>2. r # "none"
      BY <3>1 DEF KnownSizes
    <3>. QED
      BY <1>1, <1>2, <3>1, <3>2 DEF KnownInductive, KnownTyped, DialogFits
  <2>3. /\ x \in Known!Row /\ x.tg = old.who /\ x.name = old.name /\ x.rw = botRow[r].rw
        /\ x.mail = botRow[r].mail
    BY <1>2, <2>2 DEF Known!Row, Dialog, Nickname
  <2>4. x # Known!Absent
    BY <1>2, <2>3, AbsentIs DEF KnownSizes
  <2>5. botRow' = [botRow EXCEPT ![r] = x]
    BY <2>1, <2>2 DEF KnownInductive, KnownTyped
  <2>6. ~mistaken => RowOwn(x)
    BY <2>2, <2>3 DEF KnownInductive, RowOwn
  <2>7. /\ d \in Dialog /\ d.step = "look" /\ d.who = old.who /\ d.name = old.name
        /\ d.begun = old.begun /\ d.same = old.same /\ d.found = old.found
    BY <1>2, GoesTo
  <2>8. dialog' = [dialog EXCEPT ![h] = d] \/ dialog' = [dialog EXCEPT ![h] = Known!Idle]
    BY <2>1 DEF Known!Goes, Known!Ends, KnownInductive, KnownTyped
  <2>. HIDE DEF x, d
  <2>9. DialogFits(d) /\ DialogOwn(d)
    BY <1>2, <2>7 DEF DialogFits, DialogOwn
  <2>10. overtaken' = (overtaken \/ x.name # handle[x.tg]) /\ <<x.tg, x.name>> \in names
    BY <1>2, <2>1, <2>2, <2>3
  <2>11. CASE dialog' = [dialog EXCEPT ![h] = d]
    BY <1>1, <1>2, <1>3, <2>2, <2>3, <2>4, <2>5, <2>6, <2>7, <2>9, <2>10, <2>11, OneRow
  <2>12. CASE dialog' = [dialog EXCEPT ![h] = Known!Idle]
    BY <1>1, <1>3, <2>2, <2>3, <2>4, <2>5, <2>6, <2>10, <2>12, EndsIsRight, IdleIs, OneRow
  <2>. QED
    BY <2>8, <2>11, <2>12
<1>5. CASE r \notin Known!Present
  <2>1. dialog' = [dialog EXCEPT ![h] = Known!Idle] /\ UNCHANGED <<botRow, overtaken>>
    BY <1>5 DEF Known!SetUserRenames, Known!Ends
  <2>2. /\ mistaken' \in BOOLEAN /\ missed' \in BOOLEAN /\ (mistaken => mistaken')
        /\ (mistaken' => SharedName) /\ (~overtaken /\ doubled = {} => ~missed')
    BY <1>1 DEF KnownInductive, KnownTyped
  <2>. QED
    BY <1>1, <1>3, <2>1, <2>2, EndsIsRight, OneDialog
<1>. QED
  BY <1>4, <1>5

LEMMA RecordKeeps ==
    ASSUME KnownSizes, KnownInductive, NEW h \in Requests, Known!Record(h)
    PROVE  KnownInductive'
<1>. DEFINE old == dialog[h]
            p == old.who
            f == old.profile
<1>1. /\ old.step = "record" /\ dialog' = [dialog EXCEPT ![h] = Known!Idle]
      /\ UNCHANGED <<handle, fill, names, mistaken, missed, doubled>>
  BY DEF Known!Record, Known!Ends
<1>2. old \in Dialog /\ DialogFits(old) /\ p \in Folk /\ <<p, old.name>> \in names
      /\ (~mistaken => HeldBy[f] = p)
  BY <1>1 DEF KnownInductive, KnownTyped, DialogFits, DialogOwn
<1>3. /\ mistaken' \in BOOLEAN /\ missed' \in BOOLEAN /\ (mistaken => mistaken')
      /\ (mistaken' => SharedName) /\ (~overtaken /\ doubled = {} => ~missed')
  BY <1>1 DEF KnownInductive, KnownTyped
<1>4. (shown' = shown \/ shown' = <<p, f>>) => (~mistaken => ShownOwn')
  BY <1>2 DEF KnownInductive, ShownOwn
<1>5. CASE UNCHANGED <<botRow, overtaken>> /\ (shown' = shown \/ shown' = <<p, f>>)
  BY <1>1, <1>3, <1>4, <1>5, EndsIsRight, OneDialog
<1>6. ASSUME NEW r \in Known!RowsOf(p),
             botRow' = [botRow EXCEPT ![r].name = old.name, ![r].rw = f],
             Known!Stored(p, old.name), shown' = <<p, f>>
      PROVE  KnownInductive'
  <2>. DEFINE x == [botRow[r] EXCEPT !.name = old.name, !.rw = f]
  <2>1. r \in Records /\ botRow[r] # Known!Absent /\ botRow[r] \in Known!Row /\ botRow[r].tg = p
    BY DEF Known!RowsOf, Known!Present, KnownInductive, KnownTyped
  <2>2. /\ x \in Known!Row /\ x.tg = p /\ x.name = old.name /\ x.rw = f
        /\ x.mail = botRow[r].mail
    BY <1>2, <2>1 DEF Known!Row, Dialog, Nickname
  <2>3. x # Known!Absent
    BY <1>2, <2>2, AbsentIs DEF KnownSizes
  <2>4. botRow' = [botRow EXCEPT ![r] = x]
    BY <1>6, <2>1 DEF KnownInductive, KnownTyped
  <2>5. overtaken' = (overtaken \/ x.name # handle[x.tg]) /\ <<x.tg, x.name>> \in names
    BY <1>2, <1>6, <2>2 DEF Known!Stored
  <2>6. ~mistaken => RowOwn(x)
    BY <1>2, <2>2 DEF RowOwn
  <2>. HIDE DEF x
  <2>. QED
    BY <1>1, <1>4, <1>6, <2>1, <2>2, <2>3, <2>4, <2>5, <2>6, EndsIsRight, IdleIs, OneRow
<1>7. \/ UNCHANGED <<botRow, overtaken>> /\ (shown' = shown \/ shown' = <<p, f>>)
      \/ \E r \in Known!RowsOf(p) :
           /\ botRow' = [botRow EXCEPT ![r].name = old.name, ![r].rw = f]
           /\ Known!Stored(p, old.name) /\ shown' = <<p, f>>
  BY DEF Known!Record
<1>. QED
  BY <1>5, <1>6, <1>7

\* set_user inserts the row of somebody who has none.
LEMMA SetUserInsertsKeeps ==
    ASSUME KnownSizes, KnownInductive, NEW h \in Requests, Known!SetUserInserts(h)
    PROVE  KnownInductive'
<1>. DEFINE old == dialog[h]
            p == old.who
<1>1. /\ old.step = "insert" /\ dialog' = [dialog EXCEPT ![h] = Known!Idle]
      /\ overtaken' = (overtaken \/ old.name # handle[p])
      /\ UNCHANGED <<handle, fill, shown, names, mistaken, missed, doubled>>
  BY DEF Known!SetUserInserts, Known!Ends, Known!Stored
<1>2. /\ dialog \in [Requests -> Dialog] /\ botRow \in [Records -> Known!Row]
      /\ old \in Dialog /\ DialogFits(old) /\ p \in Folk /\ <<p, old.name>> \in names /\ old.begun
  BY <1>1 DEF KnownInductive, KnownTyped, DialogFits
<1>. DEFINE x == [Known!Absent EXCEPT !.tg = p, !.name = old.name]
<1>3. /\ x \in Known!Row /\ x.tg = p /\ x.name = old.name /\ x.rw = NoBotProfile /\ x.mail = NoBotProfile
      /\ x # Known!Absent
  <2>1. old.name \in Nickname /\ p # "nobody"
    BY <1>2 DEF Dialog, KnownSizes
  <2>2. x \in Known!Row /\ x.tg = p /\ x.name = old.name /\ x.rw = NoBotProfile /\ x.mail = NoBotProfile
    BY <1>2, <2>1, AbsentIs DEF Known!Row, Nickname
  <2>. QED
    BY <2>1, <2>2, AbsentIs
<1>4. PICK r \in Records : botRow[r] = Known!Absent /\ botRow' = [botRow EXCEPT ![r] = x]
  BY DEF Known!SetUserInserts, Known!Present
<1>. HIDE DEF x
<1>5. /\ botRow' \in [Records -> Known!Row] /\ botRow'[r] = x
      /\ \A q \in Records \ {r} : botRow'[q] = botRow[q]
  BY <1>2, <1>3, <1>4
<1>6. /\ dialog' \in [Requests -> Dialog] /\ dialog'[h] = Known!Idle
      /\ \A g \in Requests \ {h} : dialog'[g] = dialog[g]
  BY <1>1, <1>2, IdleIs
<1>7. KnownTyped' /\ NamesFit'
  <2>1. {mistaken', missed', overtaken'} \subseteq BOOLEAN
    BY <1>1 DEF KnownInductive, KnownTyped
  <2>2. KnownTyped'
    BY <1>1, <1>5, <1>6, <2>1 DEF KnownInductive, KnownTyped
  <2>3. NamesFit /\ handle' = handle /\ names' = names /\ fill' = fill
    BY <1>1 DEF KnownInductive
  <2>. QED
    BY <2>2, <2>3 DEF NamesFit
<1>8. ASSUME NEW q \in Records PROVE RowFits(botRow[q])' /\ (~mistaken' => RowOwn(botRow[q])')
  <2>1. RowFits(botRow[q]) /\ (~mistaken => RowOwn(botRow[q]))
    BY DEF KnownInductive
  <2>2. botRow'[q] = botRow[q] \/ botRow'[q] = x
    BY <1>5
  <2>. QED
    BY <1>1, <1>2, <1>3, <2>1, <2>2 DEF RowFits, RowOwn
<1>9. ASSUME NEW g \in Requests
      PROVE  /\ DialogFits(dialog[g])'
             /\ ~mistaken' => DialogOwn(dialog[g])'
             /\ ~overtaken' /\ doubled' = {} => DialogFinds(dialog[g])'
  <2>1. CASE g = h
    BY <1>6, <2>1, IdleIs DEF DialogFits, DialogOwn, DialogFinds
  <2>2. CASE g # h
    <3>1. /\ dialog'[g] = dialog[g] /\ DialogFits(dialog[g])
          /\ ~mistaken => DialogOwn(dialog[g])
          /\ ~overtaken /\ doubled = {} => DialogFinds(dialog[g])
      BY <1>6, <2>2 DEF KnownInductive
    <3>2. dialog[g].at \in Records \cup {"none"}
      BY <1>2 DEF Dialog
    <3>3. DialogFits(dialog[g])'
      BY <1>1, <1>4, <1>5, <3>1, <3>2 DEF DialogFits
    <3>4. ~mistaken' => DialogOwn(dialog[g])'
      BY <1>1, <3>1 DEF DialogOwn
    <3>5. ASSUME ~overtaken', doubled' = {} PROVE DialogFinds(dialog[g])'
      <4>1. DialogFinds(dialog[g]) /\ old.name = handle[p] /\ handle' = handle
        BY <1>1, <3>1, <3>5
      <4>2. \A q \in Records : botRow'[q] = botRow[q] \/ botRow'[q] = x
        BY <1>5
      <4>. QED
        BY <1>3, <3>1, <4>1, <4>2 DEF DialogFinds
    <3>. QED
      BY <3>3, <3>4, <3>5
  <2>. QED
    BY <2>1, <2>2
<1>10. ASSUME NEW q \in Folk \ doubled' PROVE OnceEach(q)'
  <2>1. OnceEach(q)
    BY <1>1, <1>10 DEF KnownInductive
  <2>2. q = p => Rowless(p)
    BY <1>1, <2>1 DEF OnceEach
  <2>3. \A a, b \in Records :
          botRow'[a] # Known!Absent /\ botRow'[a].tg = q /\ botRow'[b] # Known!Absent
          /\ botRow'[b].tg = q => a = b
    BY <1>3, <1>5, <2>1, <2>2 DEF OnceEach, Rowless
  <2>4. \A f, g \in Requests :
          dialog'[f].begun /\ dialog'[f].who = q /\ dialog'[g].begun /\ dialog'[g].who = q => f = g
    BY <1>6, <2>1, IdleIs DEF OnceEach
  <2>5. ASSUME NEW g \in Requests, dialog'[g].step = "insert", dialog'[g].who = q
        PROVE  Rowless(q)'
    <3>1. g # h /\ dialog'[g] = dialog[g]
      BY <1>6, <2>5, IdleIs
    <3>2. dialog[g].begun
      BY <2>5, <3>1 DEF KnownInductive, DialogFits
    <3>3. q # p
      BY <1>2, <2>1, <2>5, <3>1, <3>2 DEF OnceEach
    <3>4. Rowless(q)
      BY <2>1, <2>5, <3>1 DEF OnceEach
    <3>. QED
      BY <1>3, <1>5, <3>3, <3>4 DEF Rowless
  <2>. QED
    BY <2>3, <2>4, <2>5 DEF OnceEach
<1>11. /\ ~mistaken' => ShownOwn'
       /\ mistaken' => SharedName'
       /\ ~overtaken' /\ doubled' = {} => ~missed'
  BY <1>1 DEF KnownInductive, ShownOwn, SharedName
<1>12. (~mistaken => /\ ShownOwn
                     /\ \A q \in Records : RowOwn(botRow[q])
                     /\ \A g \in Requests : DialogOwn(dialog[g]))'
  BY <1>8, <1>9, <1>11
<1>13. (~overtaken /\ doubled = {} => /\ ~missed
                                      /\ \A g \in Requests : DialogFinds(dialog[g]))'
  BY <1>9, <1>11
<1>14. (\A q \in Folk \ doubled : OnceEach(q))'
  BY <1>10
<1>. QED
  BY <1>7, <1>8, <1>9, <1>11, <1>12, <1>13, <1>14 DEF KnownInductive

\* The clean-up deletes rows; a dialog that had read one writes to none.
LEMMA CleanupConfirmedKeeps ==
    ASSUME KnownSizes, KnownInductive, NEW all \in BOOLEAN, Known!CleanupConfirmed(all)
    PROVE  KnownInductive'
<1>. DEFINE gone == {r \in Known!Present : all /\ botRow[r].tg \in absentees}
<1>1. /\ botRow' = [r \in Records |-> IF r \in gone THEN Known!Absent ELSE botRow[r]]
      /\ dialog' = [h \in Requests |-> IF dialog[h].at \in gone
                                       THEN [dialog[h] EXCEPT !.at = "none"] ELSE dialog[h]]
      /\ UNCHANGED <<handle, fill, shown, names, mistaken, missed, overtaken, doubled>>
  BY DEF Known!CleanupConfirmed
<1>. HIDE DEF gone
<1>2. \A r \in Records : botRow'[r] = Known!Absent \/ (botRow'[r] = botRow[r] /\ r \notin gone)
  BY <1>1
<1>3. \A h \in Requests :
        /\ dialog'[h] \in Dialog
        /\ dialog'[h].step = dialog[h].step /\ dialog'[h].who = dialog[h].who
        /\ dialog'[h].name = dialog[h].name /\ dialog'[h].begun = dialog[h].begun
        /\ dialog'[h].same = dialog[h].same /\ dialog'[h].found = dialog[h].found
        /\ dialog'[h].profile = dialog[h].profile
        /\ dialog'[h].at = "none" \/ (dialog'[h].at = dialog[h].at /\ dialog[h].at \notin gone)
  <2>. SUFFICES ASSUME NEW h \in Requests
                PROVE  LET e == [dialog[h] EXCEPT !.at = "none"] IN
                       /\ e \in Dialog
                       /\ e.step = dialog[h].step /\ e.who = dialog[h].who
                       /\ e.name = dialog[h].name /\ e.begun = dialog[h].begun
                       /\ e.same = dialog[h].same /\ e.found = dialog[h].found
                       /\ e.profile = dialog[h].profile /\ e.at = "none"
                       /\ dialog[h] \in Dialog
    BY <1>1
  <2>. QED
    BY DEF KnownInductive, KnownTyped, Dialog
<1>4. KnownTyped' /\ NamesFit'
  <2>1. dialog' \in [Requests -> Dialog]
    BY <1>1, <1>3
  <2>2. botRow' \in [Records -> Known!Row]
    BY <1>1, AbsentIs DEF KnownInductive, KnownTyped
  <2>3. KnownTyped'
    BY <1>1, <2>1, <2>2 DEF KnownInductive, KnownTyped
  <2>4. NamesFit /\ handle' = handle /\ names' = names /\ fill' = fill
    BY <1>1 DEF KnownInductive
  <2>. QED
    BY <2>3, <2>4 DEF NamesFit
<1>5. \A r \in Records : RowFits(botRow[r])' /\ (~mistaken' => RowOwn(botRow[r])')
  BY <1>1, <1>2 DEF KnownInductive, RowFits, RowOwn
<1>6. ASSUME NEW h \in Requests
      PROVE  /\ DialogFits(dialog[h])'
             /\ ~mistaken' => DialogOwn(dialog[h])'
             /\ ~overtaken' /\ doubled' = {} => DialogFinds(dialog[h])'
  <2>1. /\ DialogFits(dialog[h])
        /\ ~mistaken => DialogOwn(dialog[h])
        /\ ~overtaken /\ doubled = {} => DialogFinds(dialog[h])
    BY DEF KnownInductive
  <2>2. dialog[h].at \in Records \cup {"none"}
    BY DEF KnownInductive, KnownTyped, Dialog
  <2>3. dialog'[h].at # "none" => dialog'[h].at = dialog[h].at /\ botRow'[dialog[h].at] = botRow[dialog[h].at]
    BY <1>1, <1>3, <2>2
  <2>4. DialogFits(dialog[h])'
    BY <1>1, <1>3, <2>1, <2>3 DEF DialogFits
  <2>5. ~mistaken' => DialogOwn(dialog[h])'
    BY <1>1, <1>3, <2>1 DEF DialogOwn
  <2>6. ~overtaken' /\ doubled' = {} => DialogFinds(dialog[h])'
    BY <1>1, <1>2, <1>3, <2>1 DEF DialogFinds
  <2>. QED
    BY <2>4, <2>5, <2>6
<1>7. ASSUME NEW q \in Folk \ doubled' PROVE OnceEach(q)'
  <2>1. OnceEach(q)
    BY <1>1, <1>7 DEF KnownInductive
  <2>2. Rowless(q) => Rowless(q)'
    BY <1>2 DEF Rowless
  <2>3. \A a, b \in Records :
          botRow'[a] # Known!Absent /\ botRow'[a].tg = q /\ botRow'[b] # Known!Absent
          /\ botRow'[b].tg = q => a = b
    BY <1>2, <2>1 DEF OnceEach
  <2>4. \A h \in Requests :
          /\ dialog'[h].begun = dialog[h].begun /\ dialog'[h].who = dialog[h].who
          /\ dialog'[h].step = dialog[h].step
    BY <1>3
  <2>. QED
    BY <2>1, <2>2, <2>3, <2>4 DEF OnceEach
<1>8. /\ ~mistaken' => ShownOwn'
      /\ mistaken' => SharedName'
      /\ ~overtaken' /\ doubled' = {} => ~missed'
  BY <1>1 DEF KnownInductive, ShownOwn, SharedName
<1>9. (~mistaken => /\ ShownOwn
                    /\ \A q \in Records : RowOwn(botRow[q])
                    /\ \A g \in Requests : DialogOwn(dialog[g]))'
  BY <1>5, <1>6, <1>8
<1>10. (~overtaken /\ doubled = {} => /\ ~missed
                                      /\ \A g \in Requests : DialogFinds(dialog[g]))'
  BY <1>6, <1>8
<1>11. (\A q \in Folk \ doubled : OnceEach(q))'
  BY <1>7
<1>. QED
  BY <1>4, <1>5, <1>6, <1>8, <1>9, <1>10, <1>11 DEF KnownInductive

\* admin_fill_usernames_scan and admin_cleanup_scan read, and the fill asks for a name of now.
LEMMA ScansKeep ==
    ASSUME KnownInductive,
           \/ Known!FillScans
           \/ \E p \in Folk : Known!FillAsks(p)
           \/ \E gone \in SUBSET Folk : Known!CleanupScans(gone)
    PROVE  KnownInductive'
<1>1. UNCHANGED <<handle, botRow, dialog, shown, names, mistaken, missed, overtaken, doubled>>
  BY DEF Known!FillScans, Known!FillAsks, Known!CleanupScans
<1>2. /\ fill' \in [todo : SUBSET Folk, who : Folk \cup {"nobody"}, name : Nickname]
      /\ fill'.who # "nobody" => <<fill'.who, fill'.name>> \in names
  <2>0. /\ fill \in [todo : SUBSET Folk, who : Folk \cup {"nobody"}, name : Nickname]
        /\ fill.who # "nobody" => <<fill.who, fill.name>> \in names
    BY DEF KnownInductive, KnownTyped, NamesFit
  <2>1. CASE Known!FillScans
    <3>. DEFINE nameless == {botRow[r].tg : r \in {s \in Known!Present : botRow[s].name = NoNickname}}
    <3>1. nameless \subseteq Folk
      BY DEF Known!Present, KnownInductive, RowFits
    <3>2. fill' = [fill EXCEPT !.todo = nameless]
      BY <2>1 DEF Known!FillScans
    <3>. HIDE DEF nameless
    <3>. QED
      BY <2>0, <3>1, <3>2
  <2>2. ASSUME NEW p \in Folk, Known!FillAsks(p)
        PROVE  /\ fill' \in [todo : SUBSET Folk, who : Folk \cup {"nobody"}, name : Nickname]
               /\ fill'.who # "nobody" => <<fill'.who, fill'.name>> \in names
    <3>1. handle[p] \in Nickname /\ <<p, handle[p]>> \in names
      BY DEF KnownInductive, KnownTyped, NamesFit
    <3>2. \/ fill' = [fill EXCEPT !.todo = fill.todo \ {p}]
          \/ fill' = [todo |-> fill.todo \ {p}, who |-> p, name |-> handle[p]]
      BY <2>2 DEF Known!FillAsks
    <3>. QED
      BY <2>0, <3>1, <3>2
  <2>3. CASE \E gone \in SUBSET Folk : Known!CleanupScans(gone)
    BY <2>0, <2>3 DEF Known!CleanupScans
  <2>. QED
    BY <2>1, <2>2, <2>3
<1>3. KnownTyped' /\ NamesFit'
  <2>1. KnownTyped'
    BY <1>1, <1>2 DEF KnownInductive, KnownTyped
  <2>2. NamesFit /\ handle' = handle /\ names' = names
    BY <1>1 DEF KnownInductive
  <2>. QED
    BY <1>2, <2>1, <2>2 DEF NamesFit
<1>4. /\ mistaken' => SharedName
      /\ ~mistaken' => ShownOwn'
      /\ ~overtaken' /\ doubled = {} => ~missed'
  BY <1>1 DEF KnownInductive, ShownOwn
<1>. QED
  BY <1>1, <1>3, <1>4, KnownFrame

\* The fill writes the name Telegram had when it asked.
LEMMA FillWritesKeeps ==
    ASSUME KnownSizes, KnownInductive, Known!FillWrites
    PROVE  KnownInductive'
<1>. DEFINE p == fill.who
            named == \A r \in Records : botRow'[r] = botRow[r] \/
                       /\ botRow[r] # Known!Absent /\ botRow'[r] # Known!Absent
                       /\ botRow'[r].tg = botRow[r].tg /\ botRow'[r].mail = botRow[r].mail
                       /\ <<botRow[r].tg, botRow'[r].name>> \in names
                       /\ ~mistaken' => RowOwn(botRow'[r])
                       /\ overtaken' \/ botRow'[r].name = handle[botRow[r].tg]
<1>1. /\ p # "nobody" /\ fill' = [fill EXCEPT !.who = "nobody", !.name = NoNickname]
      /\ UNCHANGED <<handle, dialog, shown, names, mistaken, missed, doubled>>
      /\ \/ UNCHANGED <<botRow, overtaken>>
         \/ \E r \in Known!RowsOf(p) : /\ botRow' = [botRow EXCEPT ![r].name = fill.name]
                                       /\ overtaken' = (overtaken \/ fill.name # handle[p])
  BY DEF Known!FillWrites, Known!Stored
<1>2. /\ fill \in [todo : SUBSET Folk, who : Folk \cup {"nobody"}, name : Nickname]
      /\ p \in Folk /\ <<p, fill.name>> \in names
      /\ botRow \in [Records -> Known!Row]
  BY <1>1 DEF KnownInductive, KnownTyped, NamesFit
<1>3. /\ fill' \in [todo : SUBSET Folk, who : Folk \cup {"nobody"}, name : Nickname]
      /\ fill'.who = "nobody"
  BY <1>1, <1>2 DEF Nickname
<1>4. /\ botRow' \in [Records -> Known!Row] /\ overtaken' \in BOOLEAN
      /\ overtaken => overtaken'
      /\ named
  <2>1. CASE UNCHANGED <<botRow, overtaken>>
    BY <1>2, <2>1 DEF KnownInductive, KnownTyped
  <2>2. ASSUME NEW r \in Known!RowsOf(p), botRow' = [botRow EXCEPT ![r].name = fill.name],
               overtaken' = (overtaken \/ fill.name # handle[p])
        PROVE  /\ botRow' \in [Records -> Known!Row] /\ overtaken' \in BOOLEAN
               /\ (overtaken => overtaken') /\ named
    <3>. DEFINE x == [botRow[r] EXCEPT !.name = fill.name]
    <3>1. r \in Records /\ botRow[r] # Known!Absent /\ botRow[r] \in Known!Row /\ botRow[r].tg = p
      BY <1>2 DEF Known!RowsOf, Known!Present
    <3>2. /\ x \in Known!Row /\ x.tg = p /\ x.name = fill.name /\ x.rw = botRow[r].rw
          /\ x.mail = botRow[r].mail
      BY <1>2, <3>1 DEF Known!Row, Nickname
    <3>3. x # Known!Absent
      BY <1>2, <3>2, AbsentIs DEF KnownSizes
    <3>4. botRow' = [botRow EXCEPT ![r] = x]
      BY <1>2, <2>2, <3>1
    <3>5. ~mistaken => RowOwn(x)
      BY <3>1, <3>2 DEF KnownInductive, RowOwn
    <3>. HIDE DEF x
    <3>6. botRow' \in [Records -> Known!Row] /\ overtaken' \in BOOLEAN /\ (overtaken => overtaken')
      BY <1>2, <2>2, <3>2, <3>4 DEF KnownInductive, KnownTyped
    <3>7. \A q \in Records : botRow'[q] = botRow[q] \/ (q = r /\ botRow'[q] = x)
      BY <1>2, <3>4
    <3>. QED
      BY <1>1, <1>2, <2>2, <3>1, <3>2, <3>3, <3>5, <3>6, <3>7
  <2>. QED
    BY <1>1, <2>1, <2>2
<1>5. KnownTyped' /\ NamesFit'
  <2>1. KnownTyped'
    BY <1>1, <1>3, <1>4 DEF KnownInductive, KnownTyped
  <2>2. NamesFit /\ handle' = handle /\ names' = names
    BY <1>1 DEF KnownInductive
  <2>. QED
    BY <1>3, <2>1, <2>2 DEF NamesFit
<1>6. /\ mistaken' => SharedName
      /\ ~mistaken' => ShownOwn'
      /\ ~overtaken' /\ doubled = {} => ~missed'
  BY <1>1, <1>4 DEF KnownInductive, ShownOwn
<1>. QED
  BY <1>1, <1>4, <1>5, <1>6, KnownFrame

LEMMA KnownSteps ==
    ASSUME KnownSizes, KnownInductive, [Known!Next]_(Known!vars)
    PROVE  KnownInductive'
<1>1. CASE UNCHANGED Known!vars
  <2>1. UNCHANGED <<handle, botRow, dialog, fill, shown, names, mistaken, missed, overtaken, doubled>>
    BY <1>1 DEF Known!vars
  <2>2. KnownTyped' /\ NamesFit'
    BY <2>1 DEF KnownInductive, KnownTyped, NamesFit
  <2>3. /\ mistaken' => SharedName
        /\ ~mistaken' => ShownOwn'
        /\ ~overtaken' /\ doubled = {} => ~missed'
    BY <2>1 DEF KnownInductive, ShownOwn
  <2>. QED
    BY <2>1, <2>2, <2>3, KnownFrame
<1>2. ASSUME NEW h \in Requests, NEW p \in Folk, Known!Start(h, p) \/ Known!Button(h, p)
      PROVE  KnownInductive'
  BY <1>2, CalledKeeps
<1>3. ASSUME NEW h \in Requests,
             \/ Known!SetUserReads(h) \/ Known!SetUserInserts(h) \/ Known!SetUserRenames(h)
             \/ Known!Look(h) \/ Known!AskFails(h) \/ Known!Record(h)
             \/ \E answered \in BOOLEAN : Known!Ask(h, answered)
      PROVE  KnownInductive'
  BY <1>3, SetUserReadsKeeps, SetUserInsertsKeeps, SetUserRenamesKeeps, LookKeeps, AskKeeps,
     RecordKeeps
<1>4. ASSUME NEW p \in Folk, NEW n \in Nickname, Known!Rename(p, n)
      PROVE  KnownInductive'
  BY <1>4, RenameKeeps
<1>5. ASSUME NEW all \in BOOLEAN, Known!CleanupConfirmed(all) PROVE KnownInductive'
  BY <1>5, CleanupConfirmedKeeps
<1>. QED
  BY <1>1, <1>2, <1>3, <1>4, <1>5, ScansKeep, FillWritesKeeps DEF Known!Next, Nickname

LEMMA KnownCounts == ASSUME NEW S PROVE Known!Cardinality(S) = Cardinality(S)
BY DEF Known!Cardinality, Cardinality

LEMMA KnownConcludes == KnownInductive => Known!PeopleKnown
<1>. SUFFICES ASSUME KnownInductive PROVE Known!PeopleKnown
  OBVIOUS
<1>1. Known!MenuIsOwn
  BY DEF Known!MenuIsOwn, Known!Present, KnownInductive, ShownOwn, RowOwn, SharedName
<1>2. Known!StartFindsProfile
  BY DEF Known!StartFindsProfile, KnownInductive
<1>3. ASSUME NEW p \in Folk, p \notin doubled PROVE ~(Cardinality(Known!RowsOf(p)) > 1)
  <2>1. OnceEach(p)
    BY <1>3 DEF KnownInductive
  <2>2. \A r, q \in Known!RowsOf(p) : r = q
    BY <2>1 DEF OnceEach, Known!RowsOf, Known!Present
  <2>3. Known!RowsOf(p) = {} \/ \E r : Known!RowsOf(p) = {r}
    BY <2>2
  <2>4. CASE Known!RowsOf(p) = {}
    BY <2>4, FS_EmptySet
  <2>5. ASSUME NEW r, Known!RowsOf(p) = {r} PROVE ~(Cardinality(Known!RowsOf(p)) > 1)
    <3>1. Cardinality({r}) = 1
      BY FS_Singleton
    <3>. QED
      BY <2>5, <3>1
  <2>. QED
    BY <2>3, <2>4, <2>5
<1>. QED
  <2>1. \A p \in Folk : Known!Cardinality(Known!RowsOf(p)) > 1 => p \in doubled
    BY <1>3, KnownCounts
  <2>. QED
    BY <1>1, <1>2, <2>1 DEF Known!PeopleKnown, Known!OneRowEach

LEMMA MenuSpecs == Spec => Menu!Init /\ [][Menu!Next]_menuVars /\ Known!Spec
<1>1. Init => Menu!Init /\ Known!Init
  BY DEF Init
<1>2. [Next]_allVars => [Menu!Next]_menuVars
  BY DEF Next, LinksNext, TransferNext, MergeNext, AccessNext, StoreNext, DrawNext, FreeNext,
     CredentialsNext, CheckoutNext, RatesNext, GuardsNext, ScreensNext, CleanNext, ImportNext,
     PageNext, IdentityNext, allVars, salesSide, menuVars
<1>3. [Next]_allVars => [Known!Next]_identityVars
  BY DEF Next, LinksNext, TransferNext, MergeNext, AccessNext, StoreNext, DrawNext, FreeNext,
     CredentialsNext, CheckoutNext, RatesNext, GuardsNext, ScreensNext, CleanNext, ImportNext,
     PageNext, IdentityNext, allVars, salesSide, pageSide, identityVars
<1>. QED
  BY <1>1, <1>2, <1>3, PTL
  DEF Spec, Known!Spec, Known!vars, identityVars

\* For any number of screens, buttons, editors, tasks and people: once every committed edit
\* has been announced, the bot serves the menu and the mode the dashboard has left; unless
\* two edits overlapped, every button it shows has what it needs to lead somewhere; and as
\* long as no row bears a name somebody else is called by, menus and rows have the profiles
\* of their people (routers/menus.py, bot_constructor/keyboards/dynamic.py, handlers/base.py,
\* handlers/tools.py).
THEOREM MenuIsServed == Spec => []MenuServed
<1>1. Menu!Init => MenuInductive
  BY MenuBegins, MenuConstants
<1>2. MenuInductive /\ [Menu!Next]_menuVars => MenuInductive'
  BY MenuSteps, MenuConstants DEF Menu!botMenuVars, Menu!menuTables, Menu!botMemory, menuVars
<1>3. MenuInductive => Menu!MenuServed
  BY MenuConcludes
<1>4. Known!Init => KnownInductive
  BY KnownBegins, KnownConstants
<1>5. KnownInductive /\ [Known!Next]_identityVars => KnownInductive'
  BY KnownSteps, KnownConstants DEF Known!vars, identityVars
<1>6. KnownInductive => Known!PeopleKnown
  BY KnownConcludes
<1>. QED
  BY <1>1, <1>2, <1>3, <1>4, <1>5, <1>6, MenuSpecs, PTL
  DEF Known!Spec, Known!vars, identityVars, MenuServed
=============================================================================
