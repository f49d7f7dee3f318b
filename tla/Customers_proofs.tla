--------------------------- MODULE Customers_proofs ---------------------------
(***************************************************************************)
(* Theorems about what customers are sold, as the run checks it: what      *)
(* RateGuards_proofs shows of the guards, carried over to a behaviour of   *)
(* all machines; and, each with the argument for it, that the periods of a *)
(* store subscription are given once, that a paid order is one at the      *)
(* terms charged, that the rate is fetched seldom and handed out in order, *)
(* that a transfer moves the days of a profile once, that claims of the    *)
(* free subscription make one profile and spoil no paid one, and that a    *)
(* clean of the channel spares who stayed and leaves the others a way      *)
(* back; and that a giveaway is drawn as its tickets and its rule say.     *)
(* Accounts themselves are in Accounts_proofs.                             *)
(***************************************************************************)
EXTENDS MCCustomers, FiniteSetTheorems, WellFoundedInduction, TLAPS

\* A behaviour of all machines is one of the guards.
LEMMA GuardsSpec == Spec => Guards!Spec
<1>1. Init => Guards!Init
  BY DEF Init
<1>2. [Next]_allVars => [Guards!Next]_guardVars
  BY DEF Next, LinksNext, TransferNext, MergeNext, AccessNext, StoreNext, DrawNext, FreeNext,
     CredentialsNext, CheckoutNext, RatesNext, GuardsNext, ScreensNext, CleanNext, ImportNext,
     PageNext, IdentityNext, allVars, salesSide, guardVars
<1>. QED
  BY <1>1, <1>2, PTL DEF Spec, Guards!Spec, Guards!guardVars, guardVars

\* For any number of requests at a time, however they overlap with the window and the
\* block: no more failed sign-ins, registrations and mails than the guards' limits say.
THEOREM LimitsAreKept == Spec => []Throttled
BY GuardsSpec, GuardSizes, Guards!AlwaysThrottled, PTL DEF Throttled

-----------------------------------------------------------------------------
(***************************************************************************)
(* The store.  While calls come one after another, only the one under way  *)
(* moves, and what it has read of the row is still there: a period that is *)
(* about to be delivered was stored by this call, over an older one, and   *)
(* no period above the row's was ever provided.  The call that delivers a  *)
(* period ends before the next begins, and the next finds it stored.       *)
(***************************************************************************)

StoreCall == [pc : {"idle", "fetch", "find", "store", "deliver", "ack"},
              user : Accounts \cup {NoAccount}, answer : 0..MaxPeriods,
              granted : BOOLEAN, acked : BOOLEAN, seen : 0..MaxPeriods]

StoreTyped ==
    /\ play \in [expiry : Store!Periods, granted : BOOLEAN, ackedBy : {"nobody", "client", "server"}]
    /\ purchase \in [owner : Accounts \cup {NoAccount}, expiry : 0..MaxPeriods, granted : BOOLEAN]
    /\ call \in [Requests -> StoreCall]
    /\ provided \in [Accounts -> [Store!Periods -> Nat]]
    /\ overlapped \in BOOLEAN
    /\ \A c \in Requests : call[c].pc # "idle" => call[c].user \in Accounts
    /\ \A c \in Requests : call[c].pc \notin {"idle", "fetch"} => call[c].answer \in Store!Periods

\* Something was provided.
Given == \E a \in Accounts, p \in Store!Periods : provided[a][p] > 0

AckedIsGiven ==
    /\ play.ackedBy = "server" => Given
    /\ \A c \in Requests : call[c].pc = "ack" => Given

\* No other call is under way.
Alone(c) == \A d \in Requests : d # c => call[d].pc = "idle"

\* What call c has read is what the row says: it can only have been stored by c.
Fresh(c) ==
    /\ call[c].pc \notin {"idle", "fetch"} =>
          purchase.expiry <= call[c].answer /\ call[c].answer <= play.expiry
    /\ call[c].pc = "store" =>
          /\ call[c].seen = purchase.expiry
          /\ Store!Found => purchase.owner = call[c].user
    /\ call[c].pc = "deliver" =>
          /\ call[c].answer = purchase.expiry /\ purchase.owner = call[c].user
          /\ \A a \in Accounts : provided[a][call[c].answer] = 0

\* Only periods up to the row's were provided, to its owner and once.
RowTells ==
    /\ purchase.expiry <= play.expiry
    /\ ~Store!Found => purchase.expiry = 0
    /\ \A a \in Accounts, p \in Store!Periods :
          /\ provided[a][p] <= 1
          /\ provided[a][p] = 1 => a = purchase.owner /\ p <= purchase.expiry

OneByOne == ~overlapped => RowTells /\ \A c \in Requests : Fresh(c) /\ (call[c].pc # "idle" => Alone(c))

StoreInductive == StoreTyped /\ AckedIsGiven /\ OneByOne

\* The first step: nothing was bought, nobody calls.
LEMMA StoreBegins == StoreSizes /\ Store!Init => StoreInductive
<1>. SUFFICES ASSUME StoreSizes, Store!Init PROVE StoreInductive
  OBVIOUS
<1>1. Store!IdleCall \in StoreCall
  BY DEF Store!IdleCall, StoreCall, StoreSizes
<1>2. /\ play \in [expiry : Store!Periods, granted : BOOLEAN, ackedBy : {"nobody", "client", "server"}]
      /\ purchase \in [owner : Accounts \cup {NoAccount}, expiry : 0..MaxPeriods, granted : BOOLEAN]
  BY DEF Store!Init, Store!NoPurchase, Store!Periods, StoreSizes
<1>5. /\ call \in [Requests -> StoreCall] /\ \A c \in Requests : call[c].pc = "idle"
  BY <1>1 DEF Store!Init, Store!IdleCall
<1>6. provided \in [Accounts -> [Store!Periods -> Nat]]
  BY DEF Store!Init
<1>7. StoreTyped
  BY <1>2, <1>5, <1>6 DEF Store!Init, StoreTyped
<1>3. AckedIsGiven
  BY DEF Store!Init, AckedIsGiven, Store!IdleCall
<1>4. OneByOne
  BY DEF Store!Init, OneByOne, RowTells, Fresh, Alone, Store!IdleCall, Store!NoPurchase, Store!Found, StoreSizes, Store!Periods
<1>. QED
  BY <1>3, <1>4, <1>7 DEF StoreInductive

\* Call c moves on, everybody else stays.
LEMMA CallMoves ==
    ASSUME StoreSizes, StoreTyped, NEW c \in Requests, NEW n \in StoreCall,
           call' = [call EXCEPT ![c] = n],
           n.pc # "idle" => n.user \in Accounts,
           n.pc \notin {"idle", "fetch"} => n.answer \in Store!Periods
    PROVE  /\ call' \in [Requests -> StoreCall] /\ call'[c] = n
           /\ \A d \in Requests : d # c => call'[d] = call[d]
           /\ \A d \in Requests : call'[d].pc # "idle" => call'[d].user \in Accounts
           /\ \A d \in Requests : call'[d].pc \notin {"idle", "fetch"} => call'[d].answer \in Store!Periods
<1>1. /\ call' \in [Requests -> StoreCall] /\ call'[c] = n
      /\ \A d \in Requests : d # c => call'[d] = call[d]
  BY DEF StoreTyped
<1>. QED
  BY <1>1 DEF StoreTyped

\* Of calls that come one after another, the one that moves is the only one under way.
LEMMA OnlyOneMoves ==
    ASSUME OneByOne, NEW c \in Requests, \A d \in Requests : d # c => call'[d] = call[d],
           ~overlapped' => ~overlapped /\ (call[c].pc # "idle" \/ Alone(c)),
           ~overlapped' => RowTells' /\ Fresh(c)'
    PROVE  OneByOne'
<1>. SUFFICES ASSUME ~overlapped'
              PROVE  \A d \in Requests : Fresh(d)' /\ (call'[d].pc # "idle" => Alone(d)')
  BY DEF OneByOne
<1>1. \A d \in Requests : d # c => call'[d].pc = "idle"
  BY DEF OneByOne, Alone
<1>2. \A d \in Requests : d # c => Fresh(d)'
  BY <1>1 DEF Fresh
<1>3. \A d \in Requests : call'[d].pc # "idle" => d = c /\ Alone(d)'
  BY <1>1 DEF Alone
<1>. QED
  BY <1>2, <1>3

\* A call that has ended.
LEMMA IdleCallIs ==
    ASSUME StoreSizes
    PROVE  Store!IdleCall \in StoreCall /\ Store!IdleCall.pc = "idle"
BY DEF Store!IdleCall, StoreCall, StoreSizes

\* A call ends, and leaves the row, the store and what was provided behind.
LEMMA CallEndsKeeps ==
    ASSUME StoreSizes, StoreInductive, NEW c \in Requests, call[c].pc # "idle", Store!CallEnds(c),
           UNCHANGED <<play, purchase, provided, overlapped>>
    PROVE  StoreInductive'
<1>1. call' = [call EXCEPT ![c] = Store!IdleCall]
  BY DEF Store!CallEnds
<1>2. /\ call' \in [Requests -> StoreCall] /\ call'[c] = Store!IdleCall
      /\ \A d \in Requests : d # c => call'[d] = call[d]
      /\ \A d \in Requests : call'[d].pc # "idle" => call'[d].user \in Accounts
      /\ \A d \in Requests : call'[d].pc \notin {"idle", "fetch"} => call'[d].answer \in Store!Periods
  BY <1>1, IdleCallIs, CallMoves DEF StoreInductive
<1>3. StoreTyped'
  BY <1>2 DEF StoreInductive, StoreTyped
<1>4. AckedIsGiven'
  BY <1>2, IdleCallIs DEF StoreInductive, AckedIsGiven, Given
<1>5. ~overlapped' => RowTells' /\ Fresh(c)'
  BY <1>2, IdleCallIs DEF StoreInductive, OneByOne, RowTells, Store!Found, Fresh
<1>6. OneByOne'
  BY <1>2, <1>5, OnlyOneMoves DEF StoreInductive
<1>. QED
  BY <1>3, <1>4, <1>6 DEF StoreInductive

\* A verify request or a notification begins; another beside it ends the promise.
LEMMA BeginKeeps ==
    ASSUME StoreSizes, StoreInductive, NEW c \in Requests, NEW a \in Accounts, Store!Begin(c, a)
    PROVE  StoreInductive'
<1>. DEFINE n == [call[c] EXCEPT !.pc = "fetch", !.user = a]
<1>0. call[c] \in StoreCall
  BY DEF StoreInductive, StoreTyped
<1>1. n \in StoreCall /\ n.pc = "fetch" /\ n.user = a
  BY <1>0 DEF StoreCall
<1>2. call' = [call EXCEPT ![c] = n] /\ UNCHANGED <<play, purchase, provided>>
      /\ call[c].pc = "idle"
      /\ overlapped' = (overlapped \/ \E d \in Requests \ {c} : call[d].pc # "idle")
  BY DEF Store!Begin
<1>. HIDE DEF n
<1>3. /\ call' \in [Requests -> StoreCall] /\ call'[c] = n
      /\ \A d \in Requests : d # c => call'[d] = call[d]
      /\ \A d \in Requests : call'[d].pc # "idle" => call'[d].user \in Accounts
      /\ \A d \in Requests : call'[d].pc \notin {"idle", "fetch"} => call'[d].answer \in Store!Periods
  BY <1>1, <1>2, CallMoves DEF StoreInductive
<1>4. StoreTyped'
  BY <1>2, <1>3 DEF StoreInductive, StoreTyped
<1>5. AckedIsGiven'
  BY <1>1, <1>2, <1>3 DEF StoreInductive, AckedIsGiven, Given
<1>6. ~overlapped' => RowTells' /\ Fresh(c)' /\ ~overlapped /\ Alone(c)
  BY <1>1, <1>2, <1>3 DEF StoreInductive, OneByOne, RowTells, Store!Found, Fresh, Alone
<1>7. OneByOne'
  BY <1>3, <1>6, OnlyOneMoves DEF StoreInductive
<1>. QED
  BY <1>4, <1>5, <1>7 DEF StoreInductive

\* The store's answer names a period the row has at most reached.
LEMMA FetchKeeps ==
    ASSUME StoreSizes, StoreInductive, NEW c \in Requests, Store!FetchSubscription(c)
    PROVE  StoreInductive'
<1>. DEFINE n == [call[c] EXCEPT !.pc = "find", !.answer = play.expiry, !.granted = play.granted,
                                 !.acked = (play.ackedBy # "nobody")]
<1>0. /\ call[c] \in StoreCall /\ play.expiry \in Store!Periods /\ play.granted \in BOOLEAN
      /\ Store!Periods \subseteq 0..MaxPeriods
      /\ call[c].pc = "fetch" /\ call[c].user \in Accounts
  BY DEF StoreInductive, StoreTyped, Store!FetchSubscription, Store!Periods, StoreSizes
<1>1. n \in StoreCall /\ n.pc = "find" /\ n.user = call[c].user /\ n.answer = play.expiry
  BY <1>0 DEF StoreCall
<1>2. call' = [call EXCEPT ![c] = n] /\ UNCHANGED <<play, purchase, provided, overlapped>>
  BY DEF Store!FetchSubscription
<1>. HIDE DEF n
<1>3. /\ call' \in [Requests -> StoreCall] /\ call'[c] = n
      /\ \A d \in Requests : d # c => call'[d] = call[d]
      /\ \A d \in Requests : call'[d].pc # "idle" => call'[d].user \in Accounts
      /\ \A d \in Requests : call'[d].pc \notin {"idle", "fetch"} => call'[d].answer \in Store!Periods
  BY <1>0, <1>1, <1>2, CallMoves DEF StoreInductive
<1>4. StoreTyped'
  BY <1>2, <1>3 DEF StoreInductive, StoreTyped
<1>5. AckedIsGiven'
  BY <1>1, <1>2, <1>3 DEF StoreInductive, AckedIsGiven, Given
<1>6. ~overlapped' => RowTells' /\ Fresh(c)'
  BY <1>0, <1>1, <1>2, <1>3 DEF StoreInductive, OneByOne, RowTells, Store!Found, Fresh, Store!Periods
<1>7. OneByOne'
  BY <1>0, <1>2, <1>3, <1>6, OnlyOneMoves DEF StoreInductive
<1>. QED
  BY <1>4, <1>5, <1>7 DEF StoreInductive

\* The row as it is found is the row as long as the call is alone.
LEMMA FindKeeps ==
    ASSUME StoreSizes, StoreInductive, NEW c \in Requests, Store!FindPurchase(c)
    PROVE  StoreInductive'
<1>1. CASE Store!OwnerMismatch(call[c].user)
  BY <1>1, CallEndsKeeps DEF Store!FindPurchase
<1>2. CASE ~Store!OwnerMismatch(call[c].user)
  <2>. DEFINE n == [call[c] EXCEPT !.pc = "store", !.seen = purchase.expiry]
  <2>0. /\ call[c] \in StoreCall /\ purchase.expiry \in 0..MaxPeriods
        /\ call[c].pc = "find" /\ call[c].user \in Accounts /\ call[c].answer \in Store!Periods
        /\ Store!Found => purchase.owner = call[c].user
    BY <1>2 DEF StoreInductive, StoreTyped, Store!FindPurchase, Store!OwnerMismatch
  <2>1. /\ n \in StoreCall /\ n.pc = "store" /\ n.user = call[c].user
        /\ n.answer = call[c].answer /\ n.seen = purchase.expiry
    BY <2>0 DEF StoreCall
  <2>2. call' = [call EXCEPT ![c] = n] /\ UNCHANGED <<play, purchase, provided, overlapped>>
    BY <1>2 DEF Store!FindPurchase
  <2>. HIDE DEF n
  <2>3. /\ call' \in [Requests -> StoreCall] /\ call'[c] = n
        /\ \A d \in Requests : d # c => call'[d] = call[d]
        /\ \A d \in Requests : call'[d].pc # "idle" => call'[d].user \in Accounts
        /\ \A d \in Requests : call'[d].pc \notin {"idle", "fetch"} => call'[d].answer \in Store!Periods
    BY <2>0, <2>1, <2>2, CallMoves DEF StoreInductive
  <2>4. StoreTyped'
    BY <2>2, <2>3 DEF StoreInductive, StoreTyped
  <2>5. AckedIsGiven'
    BY <2>1, <2>2, <2>3 DEF StoreInductive, AckedIsGiven, Given
  <2>6. ~overlapped' => RowTells' /\ Fresh(c)'
    BY <2>0, <2>1, <2>2, <2>3 DEF StoreInductive, OneByOne, RowTells, Store!Found, Fresh
  <2>7. OneByOne'
    BY <2>0, <2>2, <2>3, <2>6, OnlyOneMoves DEF StoreInductive
  <2>. QED
    BY <2>4, <2>5, <2>7 DEF StoreInductive
<1>. QED
  BY <1>1, <1>2

\* A period later than the row's is stored before it is provided.
LEMMA StorePurchaseKeeps ==
    ASSUME StoreSizes, StoreInductive, NEW c \in Requests, Store!StorePurchase(c)
    PROVE  StoreInductive'
<1>0. /\ call[c] \in StoreCall /\ call[c].pc = "store"
      /\ call[c].user \in Accounts /\ call[c].answer \in Store!Periods
      /\ Store!Periods \subseteq 0..MaxPeriods
  BY DEF StoreInductive, StoreTyped, Store!StorePurchase, Store!Periods
<1>1. CASE UNCHANGED purchase /\ Store!CallEnds(c)
  BY <1>0, <1>1, CallEndsKeeps DEF Store!StorePurchase
<1>2. CASE /\ purchase' = [owner |-> Store!StoredOwner(call[c].user), expiry |-> call[c].answer,
                           granted |-> call[c].granted]
           /\ IF Store!NewPeriod(call[c]) THEN call' = [call EXCEPT ![c].pc = "deliver"]
              ELSE Store!CallEnds(c)
  <2>1. PICK n \in StoreCall :
          /\ call' = [call EXCEPT ![c] = n]
          /\ \/ n = Store!IdleCall
             \/ /\ n.pc = "deliver" /\ n.user = call[c].user /\ n.answer = call[c].answer
                /\ call[c].seen # call[c].answer
    <3>. DEFINE t == [call[c] EXCEPT !.pc = "deliver"]
    <3>1. t \in StoreCall /\ t.pc = "deliver" /\ t.user = call[c].user /\ t.answer = call[c].answer
      BY <1>0 DEF StoreCall
    <3>2. [call EXCEPT ![c].pc = "deliver"] = [call EXCEPT ![c] = t]
      OBVIOUS
    <3>. HIDE DEF t
    <3>3. CASE Store!NewPeriod(call[c])
      BY <1>2, <3>1, <3>2, <3>3 DEF Store!NewPeriod
    <3>4. CASE ~Store!NewPeriod(call[c])
      BY <1>2, <3>4, IdleCallIs DEF Store!CallEnds
    <3>. QED
      BY <3>3, <3>4
  <2>2. /\ purchase'.owner = Store!StoredOwner(call[c].user) /\ purchase'.expiry = call[c].answer
        /\ UNCHANGED <<play, provided, overlapped>>
    BY <1>2 DEF Store!StorePurchase
  <2>3. /\ Store!StoredOwner(call[c].user) \in Accounts
        /\ Store!Found => Store!StoredOwner(call[c].user) = purchase.owner
    BY <1>0 DEF Store!StoredOwner, Store!Found, StoreInductive, StoreTyped
  <2>4. purchase' \in [owner : Accounts \cup {NoAccount}, expiry : 0..MaxPeriods, granted : BOOLEAN]
    BY <1>0, <1>2, <2>3 DEF StoreCall
  <2>5. /\ call' \in [Requests -> StoreCall] /\ call'[c] = n
        /\ \A d \in Requests : d # c => call'[d] = call[d]
        /\ \A d \in Requests : call'[d].pc # "idle" => call'[d].user \in Accounts
        /\ \A d \in Requests : call'[d].pc \notin {"idle", "fetch"} => call'[d].answer \in Store!Periods
    BY <1>0, <2>1, IdleCallIs, CallMoves DEF StoreInductive
  <2>6. StoreTyped'
    BY <2>2, <2>4, <2>5 DEF StoreInductive, StoreTyped
  <2>7. AckedIsGiven'
    BY <2>1, <2>2, <2>5, IdleCallIs DEF StoreInductive, AckedIsGiven, Given
  <2>8. ASSUME ~overlapped PROVE RowTells' /\ Fresh(c)'
    <3>1. /\ RowTells /\ purchase.expiry <= call[c].answer /\ call[c].answer <= play.expiry
          /\ call[c].seen = purchase.expiry /\ (Store!Found => purchase.owner = call[c].user)
      BY <1>0, <2>8 DEF StoreInductive, OneByOne, Fresh
    <3>2. Store!StoredOwner(call[c].user) = call[c].user /\ Store!Found'
      BY <1>0, <2>2, <2>3, <3>1 DEF Store!StoredOwner, Store!Found, StoreSizes
    <3>3. /\ purchase.expiry \in Nat /\ call[c].answer \in Nat /\ call[c].answer \in Store!Periods
          /\ Store!Periods \subseteq Nat
      BY <1>0 DEF StoreInductive, StoreTyped, Store!Periods
    <3>4. ASSUME NEW a \in Accounts, NEW p \in Store!Periods
          PROVE  /\ provided[a][p] \in Nat /\ provided[a][p] <= 1
                 /\ provided[a][p] = 1 => Store!Found /\ a = purchase.owner /\ p <= purchase.expiry
      BY <3>1 DEF RowTells, StoreInductive, StoreTyped, Store!Found, StoreSizes
    <3>5. RowTells'
      BY <2>2, <3>1, <3>2, <3>3, <3>4, <2>3 DEF RowTells
    <3>6. call[c].seen # call[c].answer => \A a \in Accounts : provided[a][call[c].answer] = 0
      BY <3>1, <3>3, <3>4
    <3>7. Fresh(c)'
      BY <2>1, <2>2, <2>5, <3>1, <3>2, <3>3, <3>6, IdleCallIs DEF Fresh
    <3>. QED
      BY <3>5, <3>7
  <2>9. OneByOne'
    BY <1>0, <2>2, <2>5, <2>8, OnlyOneMoves DEF StoreInductive
  <2>. QED
    BY <2>6, <2>7, <2>9 DEF StoreInductive
<1>. QED
  BY <1>1, <1>2 DEF Store!StorePurchase

\* The period that was just stored is provided, once, or not.
LEMMA DeliverKeeps ==
    ASSUME StoreSizes, StoreInductive, NEW c \in Requests, Store!Deliver(c)
    PROVE  StoreInductive'
<1>0. /\ call[c] \in StoreCall /\ call[c].pc = "deliver"
      /\ call[c].user \in Accounts /\ call[c].answer \in Store!Periods
  BY DEF StoreInductive, StoreTyped, Store!Deliver
<1>1. PICK delivered \in BOOLEAN, landed \in BOOLEAN :
        /\ delivered => landed
        /\ provided' = IF landed THEN [provided EXCEPT ![call[c].user][call[c].answer] = @ + 1]
                       ELSE provided
        /\ IF Store!AckDue(delivered, call[c]) THEN call' = [call EXCEPT ![c].pc = "ack"]
           ELSE Store!CallEnds(c)
  BY DEF Store!Deliver
<1>2. UNCHANGED <<play, purchase, overlapped>>
  BY DEF Store!Deliver
<1>3. PICK n \in StoreCall :
        /\ call' = [call EXCEPT ![c] = n]
        /\ \/ n = Store!IdleCall
           \/ n.pc = "ack" /\ n.user = call[c].user /\ n.answer = call[c].answer /\ landed
  <2>. DEFINE t == [call[c] EXCEPT !.pc = "ack"]
  <2>1. t \in StoreCall /\ t.pc = "ack" /\ t.user = call[c].user /\ t.answer = call[c].answer
    BY <1>0 DEF StoreCall
  <2>2. [call EXCEPT ![c].pc = "ack"] = [call EXCEPT ![c] = t]
    OBVIOUS
  <2>. HIDE DEF t
  <2>3. CASE Store!AckDue(delivered, call[c])
    BY <1>1, <2>1, <2>2, <2>3 DEF Store!AckDue
  <2>4. CASE ~Store!AckDue(delivered, call[c])
    BY <1>1, <2>4, IdleCallIs DEF Store!CallEnds
  <2>. QED
    BY <2>3, <2>4
<1>4. /\ call' \in [Requests -> StoreCall] /\ call'[c] = n
      /\ \A d \in Requests : d # c => call'[d] = call[d]
      /\ \A d \in Requests : call'[d].pc # "idle" => call'[d].user \in Accounts
      /\ \A d \in Requests : call'[d].pc \notin {"idle", "fetch"} => call'[d].answer \in Store!Periods
  BY <1>0, <1>3, IdleCallIs, CallMoves DEF StoreInductive
<1>5. /\ provided' \in [Accounts -> [Store!Periods -> Nat]]
      /\ \A a \in Accounts, p \in Store!Periods :
            provided'[a][p] = IF landed /\ a = call[c].user /\ p = call[c].answer
                              THEN provided[a][p] + 1 ELSE provided[a][p]
  <2>1. PICK u \in Accounts, q \in Store!Periods : u = call[c].user /\ q = call[c].answer
    BY <1>0
  <2>2. \A a \in Accounts, p \in Store!Periods : provided[a][p] \in Nat /\ provided[a] \in [Store!Periods -> Nat]
    BY DEF StoreInductive, StoreTyped
  <2>3. provided \in [Accounts -> [Store!Periods -> Nat]]
    BY DEF StoreInductive, StoreTyped
  <2>. QED
    BY <1>1, <2>1, <2>2, <2>3
<1>6. StoreTyped'
  BY <1>2, <1>4, <1>5 DEF StoreInductive, StoreTyped
<1>7. AckedIsGiven'
  <2>1. landed => Given'
    <3>1. provided[call[c].user][call[c].answer] \in Nat
      BY <1>0 DEF StoreInductive, StoreTyped
    <3>. QED
      BY <1>0, <1>5, <3>1 DEF Given
  <2>2. ASSUME NEW a \in Accounts, NEW p \in Store!Periods, provided[a][p] > 0 PROVE provided'[a][p] > 0
    <3>1. provided[a][p] \in Nat
      BY DEF StoreInductive, StoreTyped
    <3>. QED
      BY <1>5, <2>2, <3>1
  <2>3. Given => Given'
    BY <2>2 DEF Given
  <2>. QED
    BY <1>2, <1>3, <1>4, <2>1, <2>3, IdleCallIs DEF StoreInductive, AckedIsGiven
<1>8. ASSUME ~overlapped PROVE RowTells' /\ Fresh(c)'
  <2>1. /\ RowTells /\ call[c].answer <= play.expiry /\ purchase.expiry <= call[c].answer
        /\ call[c].answer = purchase.expiry /\ purchase.owner = call[c].user
        /\ \A a \in Accounts : provided[a][call[c].answer] = 0
    BY <1>0, <1>8 DEF StoreInductive, OneByOne, Fresh
  <2>2. /\ purchase.expiry \in Nat /\ play.expiry \in Nat /\ Store!Periods \subseteq Nat
        /\ \A a \in Accounts, p \in Store!Periods : provided[a][p] \in Nat
    <3>1. \A a \in Accounts, p \in Store!Periods : provided[a][p] \in Nat
      BY DEF StoreInductive, StoreTyped
    <3>. QED
      BY <3>1 DEF StoreInductive, StoreTyped, Store!Periods
  <2>3. RowTells'
    BY <1>0, <1>2, <1>5, <2>1, <2>2 DEF RowTells, Store!Found
  <2>4. Fresh(c)'
    BY <1>2, <1>3, <1>4, <2>1, <2>2, IdleCallIs DEF Fresh
  <2>. QED
    BY <2>3, <2>4
<1>9. OneByOne'
  BY <1>0, <1>2, <1>4, <1>8, OnlyOneMoves DEF StoreInductive
<1>. QED
  BY <1>6, <1>7, <1>9 DEF StoreInductive

\* Only a call that provided something acknowledges.
LEMMA AcknowledgeKeeps ==
    ASSUME StoreSizes, StoreInductive, NEW c \in Requests, Store!Acknowledge(c)
    PROVE  StoreInductive'
<1>0. /\ call[c].pc = "ack" /\ Given /\ Store!CallEnds(c) /\ UNCHANGED <<purchase, provided, overlapped>>
  BY DEF StoreInductive, AckedIsGiven, Store!Acknowledge
<1>1. /\ play' \in [expiry : Store!Periods, granted : BOOLEAN, ackedBy : {"nobody", "client", "server"}]
      /\ play'.expiry = play.expiry
  BY DEF StoreInductive, StoreTyped, Store!Acknowledge
<1>2. call' = [call EXCEPT ![c] = Store!IdleCall]
  BY <1>0 DEF Store!CallEnds
<1>3. /\ call' \in [Requests -> StoreCall] /\ call'[c] = Store!IdleCall
      /\ \A d \in Requests : d # c => call'[d] = call[d]
      /\ \A d \in Requests : call'[d].pc # "idle" => call'[d].user \in Accounts
      /\ \A d \in Requests : call'[d].pc \notin {"idle", "fetch"} => call'[d].answer \in Store!Periods
  BY <1>2, IdleCallIs, CallMoves DEF StoreInductive
<1>4. StoreTyped'
  BY <1>0, <1>1, <1>3 DEF StoreInductive, StoreTyped
<1>5. AckedIsGiven'
  BY <1>0 DEF AckedIsGiven, Given
<1>6. ~overlapped' => RowTells' /\ Fresh(c)'
  BY <1>0, <1>1, <1>3, IdleCallIs DEF StoreInductive, OneByOne, RowTells, Store!Found, Fresh
<1>7. OneByOne'
  BY <1>0, <1>3, <1>6, OnlyOneMoves DEF StoreInductive
<1>. QED
  BY <1>4, <1>5, <1>7 DEF StoreInductive

\* The store's own steps: no call moves, no period is taken back.
LEMMA StoreMovesKeeps ==
    ASSUME StoreSizes, StoreInductive, Store!Renew \/ Store!Revoke \/ Store!ClientAcknowledges
    PROVE  StoreInductive'
<1>0. /\ play \in [expiry : Store!Periods, granted : BOOLEAN, ackedBy : {"nobody", "client", "server"}]
      /\ play.expiry \in Store!Periods /\ Store!Periods \subseteq Nat /\ MaxPeriods \in Nat
  BY DEF StoreInductive, StoreTyped, Store!Periods, StoreSizes
<1>1. /\ play' \in [expiry : Store!Periods, granted : BOOLEAN, ackedBy : {"nobody", "client", "server"}]
      /\ play'.expiry \in Nat /\ play.expiry \in Nat /\ play'.expiry >= play.expiry
      /\ play'.ackedBy = "server" => play.ackedBy = "server"
      /\ UNCHANGED <<purchase, call, provided, overlapped>>
  <2>1. CASE Store!Renew
    <3>1. play.expiry + 1 \in Store!Periods
      BY <1>0, <2>1 DEF Store!Renew, Store!Periods
    <3>2. play' = [play EXCEPT !.expiry = play.expiry + 1, !.granted = TRUE]
      BY <2>1 DEF Store!Renew
    <3>3. play' \in [expiry : Store!Periods, granted : BOOLEAN, ackedBy : {"nobody", "client", "server"}]
          /\ play'.expiry = play.expiry + 1 /\ play'.ackedBy = play.ackedBy
      BY <1>0, <3>1, <3>2
    <3>. QED
      BY <1>0, <2>1, <3>3 DEF Store!Renew
  <2>2. CASE Store!Revoke
    <3>1. play' = [play EXCEPT !.granted = FALSE]
      BY <2>2 DEF Store!Revoke
    <3>2. play' \in [expiry : Store!Periods, granted : BOOLEAN, ackedBy : {"nobody", "client", "server"}]
      BY <1>0, <3>1
    <3>3. play'.expiry = play.expiry /\ play'.ackedBy = play.ackedBy
      BY <1>0, <3>1
    <3>4. UNCHANGED <<purchase, call, provided, overlapped>>
      BY <2>2 DEF Store!Revoke
    <3>5. play.expiry \in Nat /\ play.expiry >= play.expiry
      <4>1. PICK e \in Nat : e = play.expiry
        BY <1>0
      <4>2. e >= e
        OBVIOUS
      <4>. QED
        BY <4>1, <4>2
    <3>. QED
      BY <3>2, <3>3, <3>4, <3>5
  <2>3. CASE Store!ClientAcknowledges
    <3>1. play' = [play EXCEPT !.ackedBy = "client"]
      BY <2>3 DEF Store!ClientAcknowledges
    <3>. QED
      BY <1>0, <2>3, <3>1 DEF Store!ClientAcknowledges
  <2>. QED
    BY <2>1, <2>2, <2>3
<1>2. StoreTyped' /\ AckedIsGiven'
  BY <1>1 DEF StoreInductive, StoreTyped, AckedIsGiven, Given
<1>3. \A c \in Requests : Fresh(c) => Fresh(c)'
  <2>. SUFFICES ASSUME NEW c \in Requests, Fresh(c) PROVE Fresh(c)'
    OBVIOUS
  <2>1. call[c].answer \in Nat
    BY DEF StoreInductive, StoreTyped, StoreCall
  <2>. QED
    BY <1>1, <2>1 DEF Fresh, Store!Found
<1>4. RowTells => RowTells'
  <2>1. purchase.expiry \in Nat
    BY DEF StoreInductive, StoreTyped
  <2>. QED
    BY <1>1, <2>1 DEF RowTells, Store!Found
<1>5. OneByOne'
  BY <1>1, <1>3, <1>4 DEF StoreInductive, OneByOne, Alone
<1>. QED
  BY <1>2, <1>5 DEF StoreInductive

\* Every step keeps the invariant.
LEMMA StoreSteps == StoreSizes /\ StoreInductive /\ [Store!Next]_playVars => StoreInductive'
<1>. SUFFICES ASSUME StoreSizes, StoreInductive, [Store!Next]_playVars PROVE StoreInductive'
  OBVIOUS
<1>1. CASE UNCHANGED playVars
  BY <1>1 DEF playVars, StoreInductive, StoreTyped, AckedIsGiven, Given, OneByOne, RowTells, Store!Found,
              Fresh, Alone
<1>2. ASSUME NEW c \in Requests, NEW a \in Accounts, Store!VerifyPurchase(c, a) PROVE StoreInductive'
  BY <1>2, BeginKeeps DEF Store!VerifyPurchase
<1>3. ASSUME NEW c \in Requests, Store!Notify(c) PROVE StoreInductive'
  <2>1. purchase.owner \in Accounts
    BY <1>3 DEF Store!Notify, Store!Found, StoreInductive, StoreTyped
  <2>. QED
    BY <1>3, <2>1, BeginKeeps DEF Store!Notify
<1>4. ASSUME NEW c \in Requests, Store!CutShort(c) PROVE StoreInductive'
  BY <1>4, CallEndsKeeps DEF Store!CutShort
<1>. QED
  BY <1>1, <1>2, <1>3, <1>4, FetchKeeps, FindKeeps, StorePurchaseKeeps, DeliverKeeps,
     AcknowledgeKeeps, StoreMovesKeeps DEF Store!Next

\* The invariant says what the run checks.
LEMMA StoreConcludes == StoreSizes /\ StoreInductive => Store!PeriodsDelivered
<1>. SUFFICES ASSUME StoreSizes, StoreInductive PROVE Store!PeriodsDelivered
  OBVIOUS
<1>1. Store!AcknowledgedWasProvided
  BY DEF StoreInductive, AckedIsGiven, Given, Store!AcknowledgedWasProvided
<1>2. ASSUME ~overlapped, NEW a \in Accounts, NEW p \in Store!Periods
      PROVE  provided[a][p] <= (IF a = purchase.owner THEN 1 ELSE 0)
  <2>1. provided[a][p] \in Nat
    BY DEF StoreInductive, StoreTyped
  <2>2. provided[a][p] <= 1 /\ (provided[a][p] = 1 => a = purchase.owner)
    BY <1>2 DEF StoreInductive, OneByOne, RowTells
  <2>. QED
    BY <2>1, <2>2
<1>. QED
  BY <1>1, <1>2 DEF Store!PeriodsDelivered, Store!ProvidedOnceApart

\* A behaviour of all machines is one of the store's purchase.
LEMMA StoreSpec == Spec => Store!Spec
<1>1. Init => Store!Init
  BY DEF Init
<1>2. [Next]_allVars => [Store!Next]_playVars
  BY DEF Next, LinksNext, TransferNext, MergeNext, AccessNext, StoreNext, DrawNext, FreeNext,
     CredentialsNext, CheckoutNext, RatesNext, GuardsNext, ScreensNext, CleanNext, ImportNext,
     PageNext, IdentityNext, allVars, accountSide, playVars
<1>. QED
  BY <1>1, <1>2, PTL DEF Spec, Store!Spec, Store!playVars, playVars

\* For any number of calls, periods, renewals and interruptions: calls one after another
\* give a billing period once, to the account the purchase belongs to, and what the server
\* acknowledges was delivered (iap_router.py).
THEOREM PeriodsAreDelivered == Spec => []PeriodsDelivered
<1>1. Store!Init => StoreInductive
  BY StoreBegins, StoreConstants
<1>2. StoreInductive /\ [Store!Next]_playVars => StoreInductive'
  BY StoreSteps, StoreConstants
<1>3. StoreInductive => Store!PeriodsDelivered
  BY StoreConcludes, StoreConstants
<1>. QED
  BY <1>1, <1>2, <1>3, StoreSpec, PTL DEF Store!Spec, Store!playVars, playVars, PeriodsDelivered

-----------------------------------------------------------------------------
(***************************************************************************)
(* The checkout.  An order's terms are those its press has read, in the    *)
(* row as in the invoice; whoever can pay has an invoice that was shown or *)
(* sent, and that happens after the row is there.  From then on only the   *)
(* payment changes the row, or what the theorem excepts.                   *)
(***************************************************************************)

NodeTerms == Terms \cup {NoTerms}

PressSteps == {"new", "read", "invoice", "row", "answer", "send", "fail", "done"}
PressRecord == [pc : PressSteps,
                way : {"link", "starlink", "chat"}, terms : NodeTerms]
OrderRecord == [status : {"none", "created", "confirmed", "failed"}, terms : NodeTerms]
InvoiceRecord == [state : {"none", "hidden", "open", "paid"}, terms : NodeTerms]

BuyTyped ==
    /\ tariff \in NodeTerms
    /\ press \in [Orders -> PressRecord]
    /\ order \in [Orders -> OrderRecord]
    /\ invoice \in [Orders -> InvoiceRecord]
    /\ inquiry \in [Orders -> {"none", "webhook", "query", "payment", "claimed", "dropped"}]
    /\ seenTerms \in [Orders -> SUBSET NodeTerms]

\* The terms are the ones the node had at some moment of the press.
TermsAreOne(o) ==
    /\ press[o].pc = "read" => tariff \in seenTerms[o]
    /\ press[o].pc \in {"new", "read"} => press[o].terms = NoTerms
    /\ press[o].pc \notin {"new", "read"} => press[o].terms \in seenTerms[o] \cup {NoTerms}
    /\ press[o].pc \in {"invoice", "row", "answer", "send", "fail"} => press[o].terms # NoTerms
    /\ order[o].status # "none" => order[o].terms = press[o].terms /\ press[o].terms # NoTerms
    /\ invoice[o].state # "none" => invoice[o].terms = press[o].terms /\ press[o].terms # NoTerms

\* How far the press has come, and what there is by then.
RowComesFirst(o) ==
    /\ press[o].pc \in {"new", "read", "invoice", "row"} => order[o].status = "none"
    /\ press[o].pc \in {"new", "read", "invoice", "send"} => invoice[o].state = "none"
    /\ press[o].pc = "invoice" => press[o].way # "chat"
    /\ press[o].pc = "row" => invoice[o].state = IF press[o].way = "chat" THEN "none" ELSE "hidden"
    /\ press[o].pc = "answer" => invoice[o].state = "hidden"
    /\ press[o].pc \in {"answer", "send"} => order[o].status = "created"
    /\ press[o].pc = "fail" => invoice[o].state = "none" \/ o \in late
    /\ inquiry[o] = "none" \/ inquiry[o] = "query" \/ invoice[o].state = "paid"

\* An invoice that can be paid, or was.
PaymentFindsRow(o) ==
    /\ invoice[o].state = "open" => inquiry[o] \in {"none", "query"}
    /\ invoice[o].state = "open" => order[o].status = "created" \/ o \in swept \cup late
    /\ invoice[o].state = "paid" =>
          \/ o \in swept \cup late
          \/ order[o].status = "created" /\ inquiry[o] \in {"webhook", "payment"}
          \/ order[o].status = "confirmed" /\ inquiry[o] = "claimed"
    /\ inquiry[o] = "query" => invoice[o].state = "open"

BuyInductive ==
    /\ BuyTyped
    /\ \A o \in Orders : TermsAreOne(o) /\ RowComesFirst(o) /\ PaymentFindsRow(o)


\* Everything about orders other than o, and the node, stays.
OthersStay(o) ==
    /\ tariff' = tariff
    /\ \A x \in Orders \ {o} :
         /\ press'[x] = press[x] /\ order'[x] = order[x] /\ invoice'[x] = invoice[x]
         /\ inquiry'[x] = inquiry[x] /\ seenTerms'[x] = seenTerms[x]
         /\ x \in late => x \in late'
         /\ x \in swept => x \in swept'

\* Nothing has been ordered yet.
LEMMA BuyBegins == CheckoutSizes /\ Buy!Init => BuyInductive
<1>. SUFFICES ASSUME CheckoutSizes, Buy!Init PROVE BuyInductive
  OBVIOUS
<1>1. Buy!NoPress \in PressRecord /\ Buy!NoOrder \in OrderRecord /\ Buy!NoInvoice \in InvoiceRecord
  BY DEF Buy!NoPress, Buy!NoOrder, Buy!NoInvoice, PressRecord, PressSteps, OrderRecord,
     InvoiceRecord, NodeTerms
<1>2. BuyTyped
  BY <1>1 DEF Buy!Init, BuyTyped, NodeTerms
<1>. QED
  BY <1>2 DEF Buy!Init, BuyInductive, Buy!NoPress, Buy!NoOrder, Buy!NoInvoice, TermsAreOne,
     RowComesFirst, PaymentFindsRow

\* It is enough to look at the order that moves.
LEMMA OneOrderMoves ==
    ASSUME BuyInductive, NEW o \in Orders, OthersStay(o), BuyTyped', TermsAreOne(o)',
           RowComesFirst(o)', PaymentFindsRow(o)'
    PROVE  BuyInductive'
<1>1. ASSUME NEW x \in Orders, x # o
      PROVE  TermsAreOne(x)' /\ RowComesFirst(x)' /\ PaymentFindsRow(x)'
  <2>1. /\ tariff' = tariff /\ press'[x] = press[x] /\ order'[x] = order[x]
        /\ invoice'[x] = invoice[x] /\ inquiry'[x] = inquiry[x] /\ seenTerms'[x] = seenTerms[x]
        /\ (x \in late => x \in late') /\ (x \in swept => x \in swept')
    BY <1>1 DEF OthersStay
  <2>2. TermsAreOne(x) /\ RowComesFirst(x) /\ PaymentFindsRow(x)
    BY DEF BuyInductive
  <2>3. TermsAreOne(x)'
    BY <2>1, <2>2 DEF TermsAreOne
  <2>4. RowComesFirst(x)'
    BY <2>1, <2>2 DEF RowComesFirst
  <2>5. PaymentFindsRow(x)'
    BY <2>1, <2>2 DEF PaymentFindsRow
  <2>. QED
    BY <2>3, <2>4, <2>5
<1>. QED
  BY <1>1 DEF BuyInductive

\* What each of the model's writes makes of a record.
LEMMA PressGoesTo ==
    ASSUME BuyTyped, NEW o \in Orders, NEW pc \in PressSteps, Buy!Goto(o, pc)
    PROVE  /\ press' \in [Orders -> PressRecord]
           /\ press'[o].pc = pc /\ press'[o].way = press[o].way /\ press'[o].terms = press[o].terms
           /\ \A x \in Orders \ {o} : press'[x] = press[x]
<1>1. press[o] \in PressRecord
  BY DEF BuyTyped
<1>2. PICK n \in PressRecord : n = [press[o] EXCEPT !.pc = pc]
  BY <1>1 DEF PressRecord
<1>3. n.pc = pc /\ n.way = press[o].way /\ n.terms = press[o].terms
  BY <1>1, <1>2 DEF PressRecord
<1>4. press' = [press EXCEPT ![o] = n]
  BY <1>2 DEF Buy!Goto
<1>. QED
  BY <1>3, <1>4 DEF BuyTyped

\* A new invoice is hidden from the customer, at the terms its press has read.
LEMMA InvoiceMade ==
    ASSUME BuyTyped, NEW o \in Orders, NEW state \in {"none", "hidden", "open", "paid"},
           Buy!Made(o, state)
    PROVE  /\ invoice' \in [Orders -> InvoiceRecord]
           /\ invoice'[o].state = state /\ invoice'[o].terms = press[o].terms
           /\ \A x \in Orders \ {o} : invoice'[x] = invoice[x]
<1>1. press[o].terms \in NodeTerms
  BY DEF BuyTyped, PressRecord
<1>2. PICK n \in InvoiceRecord : n = [state |-> state, terms |-> press[o].terms]
  BY <1>1 DEF InvoiceRecord
<1>3. invoice' = [invoice EXCEPT ![o] = n] /\ n.state = state /\ n.terms = press[o].terms
  BY <1>2 DEF Buy!Made
<1>. QED
  BY <1>3 DEF BuyTyped

\* A step that changes only the state of an invoice.
LEMMA InvoiceBecomes ==
    ASSUME BuyTyped, NEW o \in Orders, NEW state \in {"none", "hidden", "open", "paid"},
           invoice' = [invoice EXCEPT ![o].state = state]
    PROVE  /\ invoice' \in [Orders -> InvoiceRecord]
           /\ invoice'[o].state = state /\ invoice'[o].terms = invoice[o].terms
           /\ \A x \in Orders \ {o} : invoice'[x] = invoice[x]
<1>1. invoice[o] \in InvoiceRecord
  BY DEF BuyTyped
<1>2. PICK n \in InvoiceRecord : n = [invoice[o] EXCEPT !.state = state]
  BY <1>1 DEF InvoiceRecord
<1>3. n.state = state /\ n.terms = invoice[o].terms
  BY <1>1, <1>2 DEF InvoiceRecord
<1>4. invoice' = [invoice EXCEPT ![o] = n]
  BY <1>2
<1>. QED
  BY <1>3, <1>4 DEF BuyTyped

\* A step that changes only the row of an order.
LEMMA OrderBecomes ==
    ASSUME BuyTyped, NEW o \in Orders, NEW becomes \in {"none", "created", "confirmed", "failed"},
           order' = [order EXCEPT ![o].status = becomes]
    PROVE  /\ order' \in [Orders -> OrderRecord]
           /\ order'[o].status = becomes /\ order'[o].terms = order[o].terms
           /\ \A x \in Orders \ {o} : order'[x] = order[x]
<1>1. order[o] \in OrderRecord
  BY DEF BuyTyped
<1>2. PICK n \in OrderRecord : n = [order[o] EXCEPT !.status = becomes]
  BY <1>1 DEF OrderRecord
<1>3. n.status = becomes /\ n.terms = order[o].terms
  BY <1>1, <1>2 DEF OrderRecord
<1>4. order' = [order EXCEPT ![o] = n]
  BY <1>2
<1>. QED
  BY <1>3, <1>4 DEF BuyTyped

\* The dashboard edits the node: presses under way remember its terms.
LEMMA ReviseKeeps ==
    ASSUME BuyInductive, NEW t \in NodeTerms, Buy!Revise(t) PROVE BuyInductive'
<1>1. /\ tariff' = t /\ UNCHANGED <<press, order, invoice, inquiry, late, swept>>
      /\ seenTerms' = [o \in Orders |-> IF Buy!Pressing(o) THEN seenTerms[o] \cup {t}
                                        ELSE seenTerms[o]]
  BY DEF Buy!Revise
<1>2. BuyTyped'
  BY <1>1 DEF BuyInductive, BuyTyped
<1>3. ASSUME NEW o \in Orders PROVE TermsAreOne(o)' /\ RowComesFirst(o)' /\ PaymentFindsRow(o)'
  BY <1>1 DEF BuyInductive, TermsAreOne, RowComesFirst, PaymentFindsRow, Buy!Pressing
<1>. QED
  BY <1>2, <1>3 DEF BuyInductive

\* The customer presses a button.
LEMMA PressKeeps ==
    ASSUME BuyInductive, NEW o \in Orders, NEW way \in {"link", "starlink", "chat"},
           Buy!Press(o, way)
    PROVE  BuyInductive'
<1>1. PICK n \in PressRecord : n = [pc |-> "read", way |-> way, terms |-> NoTerms]
  BY DEF PressRecord, PressSteps, NodeTerms
<1>2. /\ press' = [press EXCEPT ![o] = n] /\ n.pc = "read" /\ n.terms = NoTerms /\ press[o].pc = "new"
      /\ seenTerms' = [seenTerms EXCEPT ![o] = {tariff}]
      /\ UNCHANGED <<tariff, order, invoice, inquiry, late, swept>>
  BY <1>1 DEF Buy!Press, Buy!NoPress
<1>3. BuyTyped' /\ OthersStay(o) /\ press'[o] = n /\ seenTerms'[o] = {tariff}
  BY <1>2 DEF BuyInductive, BuyTyped, OthersStay
<1>4. TermsAreOne(o)' /\ RowComesFirst(o)' /\ PaymentFindsRow(o)'
  BY <1>2, <1>3 DEF BuyInductive, TermsAreOne, RowComesFirst, PaymentFindsRow
<1>. QED
  BY <1>3, <1>4, OneOrderMoves

\* The handler reads the node of the menu.
LEMMA ReadNodeKeeps ==
    ASSUME BuyInductive, NEW o \in Orders, Buy!ReadNode(o) PROVE BuyInductive'
<1>0. press[o] \in PressRecord /\ tariff \in NodeTerms
  BY DEF BuyInductive, BuyTyped
<1>1. PICK next \in {"done", "row", "invoice"} :
        next = IF tariff = NoTerms THEN "done" ELSE IF press[o].way = "chat" THEN "row" ELSE "invoice"
  OBVIOUS
<1>2. PICK n \in PressRecord : n = [press[o] EXCEPT !.terms = tariff, !.pc = next]
  BY <1>0 DEF PressRecord, PressSteps
<1>3. /\ press' = [press EXCEPT ![o] = n] /\ press[o].pc = "read"
      /\ UNCHANGED <<tariff, order, invoice, inquiry, seenTerms, late, swept>>
  BY <1>1, <1>2 DEF Buy!ReadNode
<1>4. n.pc = next /\ n.terms = tariff /\ n.way = press[o].way
  BY <1>0, <1>2 DEF PressRecord
<1>5. BuyTyped' /\ OthersStay(o) /\ press'[o] = n
  BY <1>3 DEF BuyInductive, BuyTyped, OthersStay
<1>6. TermsAreOne(o) /\ RowComesFirst(o) /\ PaymentFindsRow(o)
  BY DEF BuyInductive
<1>7. TermsAreOne(o)'
  BY <1>1, <1>3, <1>4, <1>5, <1>6 DEF TermsAreOne, RowComesFirst
<1>8. RowComesFirst(o)'
  BY <1>1, <1>3, <1>4, <1>5, <1>6 DEF RowComesFirst
<1>9. PaymentFindsRow(o)'
  BY <1>1, <1>3, <1>4, <1>5, <1>6 DEF RowComesFirst, PaymentFindsRow
<1>. QED
  BY <1>5, <1>7, <1>8, <1>9, OneOrderMoves

\* The provider makes the invoice, or fails to answer.
LEMMA InvoiceKeeps ==
    ASSUME BuyInductive, NEW o \in Orders, Buy!CreateInvoice(o) \/ Buy!InvoiceFails(o)
    PROVE  BuyInductive'
<1>1. PICK next \in PressSteps :
        /\ next \in {"row", "done"} /\ Buy!Goto(o, next)
        /\ next = "row" => Buy!Made(o, "hidden")
  BY DEF Buy!CreateInvoice, Buy!InvoiceFails, PressSteps
<1>2. /\ press[o].pc = "invoice" /\ (Buy!Made(o, "hidden") \/ UNCHANGED invoice)
      /\ UNCHANGED <<tariff, order, inquiry, seenTerms, late, swept>>
  BY DEF Buy!CreateInvoice, Buy!InvoiceFails
<1>3. /\ press' \in [Orders -> PressRecord] /\ press'[o].pc = next
      /\ press'[o].way = press[o].way /\ press'[o].terms = press[o].terms
      /\ \A x \in Orders \ {o} : press'[x] = press[x]
  BY <1>1, PressGoesTo DEF BuyInductive
<1>4. /\ invoice' \in [Orders -> InvoiceRecord]
      /\ \A x \in Orders \ {o} : invoice'[x] = invoice[x]
      /\ \/ invoice'[o].state = "hidden" /\ invoice'[o].terms = press[o].terms
         \/ invoice'[o] = invoice[o] /\ next = "done"
  BY <1>1, <1>2, InvoiceMade DEF BuyInductive, BuyTyped
<1>5. BuyTyped' /\ OthersStay(o)
  BY <1>2, <1>3, <1>4 DEF BuyInductive, BuyTyped, OthersStay
<1>6. TermsAreOne(o) /\ RowComesFirst(o) /\ PaymentFindsRow(o)
  BY DEF BuyInductive
<1>7. TermsAreOne(o)'
  BY <1>1, <1>2, <1>3, <1>4, <1>6 DEF TermsAreOne, RowComesFirst
<1>8. RowComesFirst(o)' /\ PaymentFindsRow(o)'
  BY <1>1, <1>2, <1>3, <1>4, <1>6 DEF RowComesFirst, PaymentFindsRow
<1>. QED
  BY <1>5, <1>7, <1>8, OneOrderMoves

\* The row is committed, at the terms of the invoice that is already there.
LEMMA CommitRowKeeps ==
    ASSUME BuyInductive, NEW o \in Orders, Buy!CommitRow(o) PROVE BuyInductive'
<1>0. press[o] \in PressRecord
  BY DEF BuyInductive, BuyTyped
<1>1. PICK next \in PressSteps :
        /\ next = IF press[o].way = "chat" THEN "send" ELSE "answer"
        /\ Buy!Goto(o, next)
  BY DEF Buy!CommitRow, PressSteps
<1>2. PICK n \in OrderRecord : n = [status |-> "created", terms |-> press[o].terms]
  BY <1>0 DEF OrderRecord, PressRecord
<1>3. /\ press[o].pc = "row" /\ order' = [order EXCEPT ![o] = n]
      /\ n.status = "created" /\ n.terms = press[o].terms
      /\ UNCHANGED <<tariff, invoice, inquiry, seenTerms, late, swept>>
  BY <1>2 DEF Buy!CommitRow, Buy!RowTerms
<1>4. /\ press' \in [Orders -> PressRecord] /\ press'[o].pc = next
      /\ press'[o].way = press[o].way /\ press'[o].terms = press[o].terms
      /\ \A x \in Orders \ {o} : press'[x] = press[x]
  BY <1>1, PressGoesTo DEF BuyInductive
<1>5. BuyTyped' /\ OthersStay(o) /\ order'[o] = n
  BY <1>3, <1>4 DEF BuyInductive, BuyTyped, OthersStay
<1>6. TermsAreOne(o) /\ RowComesFirst(o) /\ PaymentFindsRow(o)
  BY DEF BuyInductive
<1>7. TermsAreOne(o)'
  BY <1>1, <1>3, <1>4, <1>5, <1>6 DEF TermsAreOne, RowComesFirst
<1>8. RowComesFirst(o)'
  BY <1>1, <1>3, <1>4, <1>5, <1>6 DEF RowComesFirst
<1>9. PaymentFindsRow(o)'
  BY <1>1, <1>3, <1>4, <1>5, <1>6 DEF RowComesFirst, PaymentFindsRow
<1>. QED
  BY <1>5, <1>7, <1>8, <1>9, OneOrderMoves

\* The customer is given the address, or the invoice arrives in the chat, or perhaps.
LEMMA ShowsKeeps ==
    ASSUME BuyInductive, NEW o \in Orders,
           Buy!Answer(o) \/ Buy!SendInvoice(o) \/ Buy!SendFails(o)
    PROVE  BuyInductive'
<1>0. press[o].pc \in {"answer", "send"} /\ UNCHANGED <<tariff, order, inquiry, seenTerms, swept>>
  BY DEF Buy!Answer, Buy!SendInvoice, Buy!SendFails
<1>1. PICK next \in PressSteps :
        /\ Buy!Goto(o, next) /\ next \in {"done", "fail"}
        /\ late' \in {late, late \cup {o}}
        /\ next = "fail" => o \in late' \/ UNCHANGED <<invoice, late>>
  BY DEF Buy!Answer, Buy!SendInvoice, Buy!SendFails, PressSteps
<1>2. \/ press[o].pc = "answer" /\ invoice' = [invoice EXCEPT ![o].state = "open"]
      \/ press[o].pc = "send" /\ Buy!Made(o, "open")
      \/ press[o].pc = "send" /\ UNCHANGED invoice
  BY DEF Buy!Answer, Buy!SendInvoice, Buy!SendFails
<1>3. /\ press' \in [Orders -> PressRecord] /\ press'[o].pc = next
      /\ press'[o].way = press[o].way /\ press'[o].terms = press[o].terms
      /\ \A x \in Orders \ {o} : press'[x] = press[x]
  BY <1>1, PressGoesTo DEF BuyInductive
<1>4. /\ TermsAreOne(o) /\ RowComesFirst(o) /\ PaymentFindsRow(o) /\ BuyTyped
      /\ inquiry[o] \in {"none", "query"} /\ order[o].status = "created"
      /\ press[o].pc = "send" => invoice[o].state = "none"
  BY <1>0 DEF BuyInductive, RowComesFirst
<1>5. /\ invoice' \in [Orders -> InvoiceRecord]
      /\ \A x \in Orders \ {o} : invoice'[x] = invoice[x]
      /\ \/ invoice'[o].state = "open" /\ invoice'[o].terms = press[o].terms
         \/ invoice'[o] = invoice[o] /\ press[o].pc = "send"
  <2>1. CASE press[o].pc = "answer" /\ invoice' = [invoice EXCEPT ![o].state = "open"]
    <3>1. invoice[o].terms = press[o].terms
      BY <1>4, <2>1 DEF RowComesFirst, TermsAreOne
    <3>. QED
      BY <1>4, <2>1, <3>1, InvoiceBecomes
  <2>2. CASE press[o].pc = "send" /\ Buy!Made(o, "open")
    BY <1>4, <2>2, InvoiceMade
  <2>3. CASE press[o].pc = "send" /\ UNCHANGED invoice
    BY <1>4, <2>3 DEF BuyTyped
  <2>. QED
    BY <1>2, <2>1, <2>2, <2>3
<1>6. BuyTyped' /\ OthersStay(o)
  BY <1>0, <1>1, <1>3, <1>4, <1>5 DEF BuyTyped, OthersStay
<1>7. TermsAreOne(o)'
  BY <1>0, <1>1, <1>3, <1>4, <1>5 DEF TermsAreOne
<1>8. RowComesFirst(o)'
  BY <1>0, <1>1, <1>3, <1>4, <1>5 DEF RowComesFirst
<1>9. PaymentFindsRow(o)'
  BY <1>0, <1>1, <1>3, <1>4, <1>5 DEF PaymentFindsRow
<1>. QED
  BY <1>6, <1>7, <1>8, <1>9, OneOrderMoves

\* The send failed, as far as the handler knows.
LEMMA MarkFailedKeeps ==
    ASSUME BuyInductive, NEW o \in Orders, Buy!MarkFailed(o) PROVE BuyInductive'
<1>0. /\ press[o].pc = "fail" /\ Buy!Goto(o, "done") /\ "done" \in PressSteps
      /\ UNCHANGED <<tariff, invoice, inquiry, seenTerms, late, swept>>
      /\ BuyTyped /\ order[o] \in OrderRecord
  BY DEF Buy!MarkFailed, BuyInductive, BuyTyped, PressSteps
<1>1. PICK next \in {"none", "created", "confirmed", "failed"} :
        /\ next = IF order[o].status = "none" THEN "none" ELSE "failed"
        /\ order' = [order EXCEPT ![o].status = next]
  BY <1>0 DEF Buy!MarkFailed
<1>2. /\ press' \in [Orders -> PressRecord] /\ press'[o].pc = "done"
      /\ press'[o].way = press[o].way /\ press'[o].terms = press[o].terms
      /\ \A x \in Orders \ {o} : press'[x] = press[x]
  BY <1>0, PressGoesTo
<1>3. /\ order' \in [Orders -> OrderRecord] /\ order'[o].status = next
      /\ order'[o].terms = order[o].terms /\ \A x \in Orders \ {o} : order'[x] = order[x]
  BY <1>0, <1>1, OrderBecomes
<1>4. BuyTyped' /\ OthersStay(o)
  BY <1>0, <1>2, <1>3 DEF BuyTyped, OthersStay
<1>5. TermsAreOne(o)' /\ RowComesFirst(o)' /\ PaymentFindsRow(o)'
  BY <1>0, <1>1, <1>2, <1>3 DEF BuyInductive, TermsAreOne, RowComesFirst, PaymentFindsRow
<1>. QED
  BY <1>4, <1>5, OneOrderMoves

\* A handler dies, or gives up, and leaves what it has made.
LEMMA AbandonKeeps ==
    ASSUME BuyInductive, NEW o \in Orders, Buy!Abandon(o) PROVE BuyInductive'
<1>0. /\ Buy!Pressing(o) /\ Buy!Goto(o, "done") /\ "done" \in PressSteps /\ BuyTyped
      /\ UNCHANGED <<tariff, order, invoice, inquiry, seenTerms, late, swept>>
  BY DEF Buy!Abandon, BuyInductive, PressSteps
<1>1. /\ press' \in [Orders -> PressRecord] /\ press'[o].pc = "done"
      /\ press'[o].way = press[o].way /\ press'[o].terms = press[o].terms
      /\ \A x \in Orders \ {o} : press'[x] = press[x]
  BY <1>0, PressGoesTo
<1>2. BuyTyped' /\ OthersStay(o)
  BY <1>0, <1>1 DEF BuyTyped, OthersStay
<1>3. TermsAreOne(o) /\ RowComesFirst(o) /\ PaymentFindsRow(o) /\ press[o].pc \notin {"new", "done"}
  BY <1>0 DEF BuyInductive, Buy!Pressing
<1>4. TermsAreOne(o)'
  BY <1>0, <1>1, <1>3 DEF TermsAreOne
<1>5. RowComesFirst(o)' /\ PaymentFindsRow(o)'
  BY <1>0, <1>1, <1>3 DEF RowComesFirst, PaymentFindsRow
<1>. QED
  BY <1>2, <1>4, <1>5, OneOrderMoves

\* Paying, and Telegram's question before it.
LEMMA PayKeeps ==
    ASSUME BuyInductive, NEW o \in Orders, Buy!Pay(o) \/ Buy!PreCheckout(o) \/ Buy!AnswerQuery(o)
    PROVE  BuyInductive'
<1>0. /\ BuyTyped /\ UNCHANGED <<tariff, press, order, seenTerms, late, swept>>
      /\ TermsAreOne(o) /\ RowComesFirst(o) /\ PaymentFindsRow(o)
  BY DEF Buy!Pay, Buy!PreCheckout, Buy!AnswerQuery, BuyInductive
<1>1. invoice[o].state = "open"
  BY <1>0 DEF Buy!Pay, Buy!PreCheckout, Buy!AnswerQuery, Buy!CanPay, PaymentFindsRow
<1>2. PICK q \in {"none", "webhook", "query", "payment"} :
        /\ inquiry' = [inquiry EXCEPT ![o] = q]
        /\ \/ q \in {"webhook", "payment"} /\ invoice' = [invoice EXCEPT ![o].state = "paid"]
           \/ q \in {"none", "query"} /\ UNCHANGED invoice
  BY DEF Buy!Pay, Buy!PreCheckout, Buy!AnswerQuery
<1>3. inquiry'[o] = q /\ \A x \in Orders \ {o} : inquiry'[x] = inquiry[x]
  BY <1>0, <1>2 DEF BuyTyped
<1>4. /\ invoice' \in [Orders -> InvoiceRecord] /\ invoice'[o].terms = invoice[o].terms
      /\ invoice'[o].state = (IF q \in {"webhook", "payment"} THEN "paid" ELSE "open")
      /\ \A x \in Orders \ {o} : invoice'[x] = invoice[x]
  <2>1. CASE q \in {"webhook", "payment"}
    BY <1>0, <1>2, <2>1, InvoiceBecomes
  <2>2. CASE q \in {"none", "query"}
    BY <1>0, <1>1, <1>2, <2>2 DEF BuyTyped
  <2>. QED
    BY <2>1, <2>2
<1>5. BuyTyped' /\ OthersStay(o)
  BY <1>0, <1>2, <1>3, <1>4 DEF BuyTyped, OthersStay
<1>6. TermsAreOne(o)' /\ RowComesFirst(o)'
  BY <1>0, <1>1, <1>3, <1>4 DEF TermsAreOne, RowComesFirst
<1>7. PaymentFindsRow(o)'
  BY <1>0, <1>1, <1>3, <1>4 DEF PaymentFindsRow
<1>. QED
  BY <1>5, <1>6, <1>7, OneOrderMoves

\* The payment claims the order, or finds none.
LEMMA HandleKeeps ==
    ASSUME BuyInductive, NEW o \in Orders, Buy!Handle(o) PROVE BuyInductive'
<1>0. /\ BuyTyped /\ UNCHANGED <<tariff, press, invoice, seenTerms, late, swept>>
      /\ TermsAreOne(o) /\ RowComesFirst(o) /\ PaymentFindsRow(o)
      /\ inquiry[o] \in {"webhook", "payment"} /\ order[o] \in OrderRecord
  BY DEF Buy!Handle, BuyInductive, BuyTyped
<1>1. CASE Buy!Claimable(o)
  <2>1. /\ order' = [order EXCEPT ![o].status = "confirmed"]
        /\ inquiry' = [inquiry EXCEPT ![o] = "claimed"] /\ order[o].status = "created"
    BY <1>1 DEF Buy!Handle, Buy!Claimable
  <2>2. /\ order' \in [Orders -> OrderRecord] /\ order'[o].status = "confirmed"
        /\ order'[o].terms = order[o].terms /\ \A x \in Orders \ {o} : order'[x] = order[x]
    BY <1>0, <2>1, OrderBecomes
  <2>3. BuyTyped' /\ OthersStay(o) /\ inquiry'[o] = "claimed"
    BY <1>0, <2>1, <2>2 DEF BuyTyped, OthersStay
  <2>4. TermsAreOne(o)' /\ RowComesFirst(o)'
    BY <1>0, <2>1, <2>2, <2>3 DEF TermsAreOne, RowComesFirst
  <2>5. PaymentFindsRow(o)'
    BY <1>0, <2>1, <2>2, <2>3 DEF PaymentFindsRow, RowComesFirst
  <2>. QED
    BY <2>3, <2>4, <2>5, OneOrderMoves
<1>2. CASE ~Buy!Claimable(o)
  <2>1. inquiry' = [inquiry EXCEPT ![o] = "dropped"] /\ UNCHANGED order
    BY <1>2 DEF Buy!Handle
  <2>2. BuyTyped' /\ OthersStay(o) /\ inquiry'[o] = "dropped"
    BY <1>0, <2>1 DEF BuyTyped, OthersStay
  <2>3. invoice[o].state = "paid" /\ invoice[o].terms = press[o].terms
    BY <1>0 DEF RowComesFirst, TermsAreOne
  <2>4. o \in swept \cup late
    BY <1>0, <1>2, <2>3 DEF PaymentFindsRow, Buy!Claimable, Buy!Valid, TermsAreOne
  <2>5. TermsAreOne(o)' /\ RowComesFirst(o)' /\ PaymentFindsRow(o)'
    BY <1>0, <2>1, <2>2, <2>3, <2>4 DEF TermsAreOne, RowComesFirst, PaymentFindsRow
  <2>. QED
    BY <2>2, <2>5, OneOrderMoves
<1>. QED
  BY <1>1, <1>2

\* The sweep deletes a stale row.
LEMMA CleanUpKeeps ==
    ASSUME BuyInductive, NEW o \in Orders, Buy!CleanUp(o) PROVE BuyInductive'
<1>0. /\ BuyTyped /\ UNCHANGED <<tariff, press, invoice, inquiry, seenTerms, late>>
      /\ TermsAreOne(o) /\ RowComesFirst(o) /\ PaymentFindsRow(o)
      /\ press[o].pc = "done" /\ swept' = swept \cup {o}
      /\ order' = [order EXCEPT ![o] = Buy!NoOrder]
  BY DEF Buy!CleanUp, BuyInductive
<1>1. Buy!NoOrder \in OrderRecord /\ Buy!NoOrder.status = "none"
  BY DEF Buy!NoOrder, OrderRecord, NodeTerms
<1>2. BuyTyped' /\ OthersStay(o) /\ order'[o].status = "none" /\ o \in swept'
  BY <1>0, <1>1 DEF BuyTyped, OthersStay
<1>3. TermsAreOne(o)' /\ RowComesFirst(o)' /\ PaymentFindsRow(o)'
  BY <1>0, <1>2 DEF TermsAreOne, RowComesFirst, PaymentFindsRow
<1>. QED
  BY <1>2, <1>3, OneOrderMoves

\* Every step of the checkout keeps the invariant.
LEMMA BuySteps == BuyInductive /\ [Buy!Next]_checkoutVars => BuyInductive'
<1>. SUFFICES ASSUME BuyInductive, [Buy!Next]_checkoutVars PROVE BuyInductive'
  OBVIOUS
<1>1. CASE UNCHANGED checkoutVars
  BY <1>1 DEF checkoutVars, BuyInductive, BuyTyped, TermsAreOne, RowComesFirst, PaymentFindsRow
<1>2. ASSUME NEW t \in Terms \cup {NoTerms}, Buy!Revise(t) PROVE BuyInductive'
  BY <1>2, ReviseKeeps DEF NodeTerms
<1>. QED
  BY <1>1, <1>2, PressKeeps, ReadNodeKeeps, InvoiceKeeps, CommitRowKeeps, ShowsKeeps,
     MarkFailedKeeps, AbandonKeeps, PayKeeps, HandleKeeps, CleanUpKeeps DEF Buy!Next

\* The invariant says what is promised to whoever has paid.
LEMMA BuyConcludes == BuyInductive => Buy!PaidIsServed
<1>. SUFFICES ASSUME BuyInductive, NEW o \in Orders, invoice[o].state = "paid", o \notin swept \cup late
              PROVE  /\ order[o].status \in {"created", "confirmed"}
                     /\ order[o].terms = invoice[o].terms
                     /\ order[o].terms \in seenTerms[o] \ {NoTerms} /\ inquiry[o] # "dropped"
  BY DEF Buy!PaidIsServed
<1>1. TermsAreOne(o) /\ RowComesFirst(o) /\ PaymentFindsRow(o)
  BY DEF BuyInductive
<1>2. /\ order[o].status \in {"created", "confirmed"} /\ inquiry[o] # "dropped"
  BY <1>1 DEF PaymentFindsRow
<1>. QED
  BY <1>1, <1>2 DEF TermsAreOne, RowComesFirst

-----------------------------------------------------------------------------
\* A behaviour of all machines is one of the checkout, and one of the rate's cache.
LEMMA SalesSpecs == Spec => Buy!Spec /\ Rates!Spec
<1>1. Init => Buy!Init /\ Rates!Init
  BY DEF Init
<1>2. [Next]_allVars => [Buy!Next]_checkoutVars
  BY DEF Next, LinksNext, TransferNext, MergeNext, AccessNext, StoreNext, DrawNext, FreeNext,
     CredentialsNext, CheckoutNext, RatesNext, GuardsNext, ScreensNext, CleanNext, ImportNext,
     PageNext, IdentityNext, allVars, salesSide, checkoutVars
<1>3. [Next]_allVars => [Rates!Next]_rateVars
  BY DEF Next, LinksNext, TransferNext, MergeNext, AccessNext, StoreNext, DrawNext, FreeNext,
     CredentialsNext, CheckoutNext, RatesNext, GuardsNext, ScreensNext, CleanNext, ImportNext,
     PageNext, IdentityNext, allVars, salesSide, rateVars
<1>. QED
  BY <1>1, <1>2, <1>3, PTL DEF Spec, Buy!Spec, Buy!checkoutVars, checkoutVars, Rates!Spec,
     Rates!rateVars, rateVars

-----------------------------------------------------------------------------
(***************************************************************************)
(* The rate.  Whoever fetches holds the lock, and no fetch ends meanwhile, *)
(* so that the moment it began is still as far from every earlier fetch as *)
(* it was when the cached value was found stale under the lock.            *)
(***************************************************************************)

\* How long the outcome of a fetch is kept.
KeptFor(f) == IF f.live THEN LiveTtl ELSE FailureTtl

Fetch == [at : Nat, live : BOOLEAN]

RateTyped ==
    /\ rateClock \in Nat
    /\ quote \in [rate : Nat, ts : Nat, live : BOOLEAN]
    /\ rateKnown \in BOOLEAN
    /\ asker \in [Requests -> [pc : {"idle", "waits", "fetches"}, since : Nat]]
    /\ held \in Requests \cup {Rates!Nobody}
    /\ fetches \in Seq(Fetch)
    /\ \A g \in got : g.at \in Nat /\ g.rate \in Nat

\* What was handed out is no newer than what is cached.
NoneNewer ==
    /\ quote.rate <= rateClock + 1 /\ quote.ts <= rateClock
    /\ \A g \in got : g.at <= rateClock /\ g.rate <= quote.rate

\* The cached value is that of the last fetch.
LastIsCached ==
    /\ rateKnown <=> Len(fetches) > 0
    /\ rateKnown => fetches[Len(fetches)] = [at |-> quote.ts, live |-> quote.live]

\* The fetch under way began late enough.
BeganLate ==
    \A a \in Requests : asker[a].pc = "fetches" =>
        /\ held = a /\ asker[a].since <= rateClock
        /\ \A i \in 1..Len(fetches) : asker[a].since >= fetches[i].at + KeptFor(fetches[i])

RateInductive ==
    /\ RateTyped /\ NoneNewer /\ LastIsCached /\ BeganLate
    /\ \A i \in 1..Len(fetches) : fetches[i].at <= quote.ts
    /\ Rates!Spares /\ Rates!NeverBack

\* No rate is known and nobody asks.
LEMMA RateBegins == RateSizes /\ Rates!Init => RateInductive
<1>. SUFFICES ASSUME RateSizes, Rates!Init PROVE RateInductive
  OBVIOUS
<1>0. fetches \in Seq(Fetch)
  BY DEF Rates!Init
<1>1. RateTyped
  BY <1>0 DEF Rates!Init, Rates!Idle, RateTyped
<1>. QED
  BY <1>1 DEF Rates!Init, Rates!Idle, RateInductive, NoneNewer, LastIsCached, BeganLate,
     Rates!Spares, Rates!NeverBack

\* The cached rate is handed out.
LEMMA HandsOut ==
    ASSUME RateInductive, NEW r \in Nat, Rates!HandOut(r), quote.rate <= r, quote'.rate = r,
           UNCHANGED rateClock
    PROVE  /\ \A g \in got' : g.at \in Nat /\ g.rate \in Nat /\ g.at <= rateClock /\ g.rate <= r
           /\ Rates!NeverBack'
<1>1. /\ rateClock \in Nat /\ quote.rate \in Nat
      /\ \A g \in got : g.at \in Nat /\ g.rate \in Nat /\ g.at <= rateClock /\ g.rate <= quote.rate
  BY DEF RateInductive, RateTyped, NoneNewer
<1>2. PICK n : n = [at |-> rateClock, rate |-> r]
  OBVIOUS
<1>3. n.at = rateClock /\ n.rate = r /\ got' = got \cup {n}
  BY <1>2 DEF Rates!HandOut
<1>4. \A g \in got' : g.at \in Nat /\ g.rate \in Nat /\ g.at <= rateClock /\ g.rate <= r
  BY <1>1, <1>3
<1>5. ASSUME NEW f \in got', NEW g \in got', f.at < g.at PROVE f.rate <= g.rate
  <2>1. CASE f \in got /\ g \in got
    BY <1>5, <2>1 DEF RateInductive, Rates!NeverBack
  <2>2. CASE g = n
    BY <1>3, <1>4, <2>2
  <2>3. CASE f = n
    BY <1>3, <1>4, <1>5, <1>1, <2>3
  <2>. QED
    BY <1>3, <2>1, <2>2, <2>3
<1>. QED
  BY <1>4, <1>5 DEF Rates!NeverBack

\* A caller looks at the cache, and takes the value or goes for the lock.
LEMMA AskKeeps ==
    ASSUME RateSizes, RateInductive, NEW a \in Requests, Rates!Ask(a) PROVE RateInductive'
<1>1. /\ UNCHANGED <<rateClock, quote, rateKnown, bank, held, fetches>>
      /\ asker[a] = Rates!Idle
  BY DEF Rates!Ask
<1>2. /\ quote.rate \in Nat /\ quote.rate <= quote.rate
      /\ \A b \in Requests : asker'[b].pc = "fetches" => asker'[b] = asker[b]
      /\ asker' \in [Requests -> [pc : {"idle", "waits", "fetches"}, since : Nat]]
  <2>1. quote.rate \in Nat /\ quote.rate <= quote.rate
    BY DEF RateInductive, RateTyped
  <2>2. asker[a] \in [pc : {"idle", "waits", "fetches"}, since : Nat]
    BY DEF RateInductive, RateTyped
  <2>3. asker' = asker \/ asker' = [asker EXCEPT ![a].pc = "waits"]
    BY DEF Rates!Ask
  <2>. QED
    BY <2>1, <2>2, <2>3 DEF RateInductive, RateTyped
<1>3. /\ \A g \in got' : g.at \in Nat /\ g.rate \in Nat /\ g.at <= rateClock /\ g.rate <= quote.rate
      /\ Rates!NeverBack'
  <2>1. CASE Rates!Fresh
    BY <1>1, <1>2, <2>1, HandsOut DEF Rates!Ask
  <2>2. CASE ~Rates!Fresh
    BY <2>2 DEF Rates!Ask, RateInductive, RateTyped, NoneNewer, Rates!NeverBack
  <2>. QED
    BY <2>1, <2>2
<1>. QED
  BY <1>1, <1>2, <1>3 DEF RateInductive, RateTyped, NoneNewer, LastIsCached, BeganLate, KeptFor,
     Rates!Spares

\* Under the lock the cache is looked at again.
LEMMA EnterKeeps ==
    ASSUME RateSizes, RateInductive, NEW a \in Requests, Rates!Enter(a) PROVE RateInductive'
<1>1. /\ UNCHANGED <<rateClock, quote, rateKnown, bank, fetches>>
      /\ held = Rates!Nobody /\ Rates!Nobody \notin Requests
  BY DEF Rates!Enter, RateSizes
<1>2. /\ rateClock \in Nat /\ quote.rate \in Nat /\ quote.rate <= quote.rate
      /\ quote.ts \in Nat /\ quote.live \in BOOLEAN
      /\ \A b \in Requests : asker[b].pc # "fetches"
  BY <1>1 DEF RateInductive, RateTyped, BeganLate
<1>3. CASE Rates!Fresh
  <2>1. /\ \A g \in got' : g.at \in Nat /\ g.rate \in Nat /\ g.at <= rateClock /\ g.rate <= quote.rate
        /\ Rates!NeverBack'
    BY <1>1, <1>2, <1>3, HandsOut DEF Rates!Enter, Rates!LooksAgain
  <2>2. asker' = [asker EXCEPT ![a] = Rates!Idle] /\ held' = held
    BY <1>3 DEF Rates!Enter, Rates!LooksAgain
  <2>3. /\ asker' \in [Requests -> [pc : {"idle", "waits", "fetches"}, since : Nat]]
        /\ \A b \in Requests : asker'[b].pc # "fetches"
    BY <1>2, <2>2 DEF RateInductive, RateTyped, Rates!Idle
  <2>. QED
    BY <1>1, <2>1, <2>2, <2>3 DEF RateInductive, RateTyped, NoneNewer, LastIsCached, BeganLate,
       Rates!Spares
<1>4. CASE ~Rates!Fresh
  <2>1. /\ asker' = [asker EXCEPT ![a] = [pc |-> "fetches", since |-> rateClock]]
        /\ held' = a /\ UNCHANGED got
    BY <1>4 DEF Rates!Enter, Rates!LooksAgain
  <2>2. /\ asker' \in [Requests -> [pc : {"idle", "waits", "fetches"}, since : Nat]]
        /\ \A b \in Requests : asker'[b].pc = "fetches" => b = a /\ asker'[b].since = rateClock
    BY <1>2, <2>1 DEF RateInductive, RateTyped
  <2>3. ASSUME NEW i \in 1..Len(fetches) PROVE rateClock >= fetches[i].at + KeptFor(fetches[i])
    <3>0. fetches \in Seq(Fetch)
      BY DEF RateInductive, RateTyped
    <3>1. Len(fetches) \in Nat /\ fetches[i] \in Fetch
      BY <3>0
    <3>2. rateKnown /\ fetches[Len(fetches)] = [at |-> quote.ts, live |-> quote.live]
      BY <3>1 DEF RateInductive, LastIsCached
    <3>3. rateClock - quote.ts >= (IF quote.live THEN LiveTtl ELSE FailureTtl)
      BY <1>2, <1>4, <3>2 DEF Rates!Fresh, Rates!Ttl, RateSizes
    <3>4. CASE i = Len(fetches)
      BY <1>2, <3>2, <3>3, <3>4 DEF KeptFor, RateSizes
    <3>5. CASE i # Len(fetches)
      <4>1. Len(fetches) \in DOMAIN fetches /\ i \in 1..(Len(fetches) - 1)
        BY <3>0, <3>1, <3>5
      <4>2. fetches[Len(fetches)].at - fetches[i].at >= KeptFor(fetches[i])
        BY <4>1 DEF RateInductive, Rates!Spares, KeptFor
      <4>3. fetches[Len(fetches)].at = quote.ts
        BY <3>2
      <4>4. fetches[i].at \in Nat /\ KeptFor(fetches[i]) \in Nat
            /\ (IF quote.live THEN LiveTtl ELSE FailureTtl) \in Nat
        BY <3>1 DEF Fetch, KeptFor, RateSizes
      <4>. QED
        BY <1>2, <3>3, <4>2, <4>3, <4>4
    <3>. QED
      BY <3>4, <3>5
  <2>4. BeganLate'
    BY <1>1, <1>2, <2>1, <2>2, <2>3 DEF BeganLate, KeptFor
  <2>. QED
    BY <1>1, <2>1, <2>2, <2>4 DEF RateInductive, RateTyped, NoneNewer, LastIsCached, Rates!Spares,
       Rates!NeverBack
<1>. QED
  BY <1>3, <1>4

\* A fetch ends, with the bank's rate or the one before.
LEMMA StoreKeeps ==
    ASSUME RateSizes, RateInductive, NEW a \in Requests, asker[a].pc = "fetches",
           NEW r \in Nat, NEW live \in BOOLEAN, quote.rate <= r, r <= rateClock + 1,
           Rates!Store(a, r, live)
    PROVE  RateInductive'
<1>1. /\ UNCHANGED <<rateClock, bank, asks>>
      /\ rateKnown' = TRUE /\ Rates!HandOut(r) /\ held' = Rates!Nobody
      /\ asker' = [asker EXCEPT ![a] = Rates!Idle]
      /\ quote' = [rate |-> r, ts |-> asker[a].since, live |-> live]
      /\ fetches' = Append(fetches, [at |-> asker[a].since, live |-> live])
  BY DEF Rates!Store
<1>2. /\ asker[a].since \in Nat /\ asker[a].since <= rateClock
      /\ fetches \in Seq(Fetch)
      /\ \A b \in Requests : b # a => asker[b].pc # "fetches"
      /\ \A i \in 1..Len(fetches) : asker[a].since >= fetches[i].at + KeptFor(fetches[i])
  BY DEF RateInductive, RateTyped, BeganLate
<1>3. PICK n \in Fetch : n.at = asker[a].since /\ n.live = live
  /\ fetches' = Append(fetches, n) /\ n = [at |-> asker[a].since, live |-> live]
  BY <1>1, <1>2 DEF Fetch
<1>4. /\ quote' \in [rate : Nat, ts : Nat, live : BOOLEAN]
      /\ quote'.rate = r /\ quote'.ts = n.at /\ quote'.live = n.live
  BY <1>1, <1>2, <1>3
<1>5. /\ fetches' \in Seq(Fetch) /\ Len(fetches') = Len(fetches) + 1
      /\ Len(fetches) \in Nat /\ fetches'[Len(fetches) + 1] = n
      /\ \A i \in 1..Len(fetches) : fetches'[i] = fetches[i] /\ fetches[i] \in Fetch
  BY <1>2, <1>3
<1>6. /\ \A g \in got' : g.at \in Nat /\ g.rate \in Nat /\ g.at <= rateClock /\ g.rate <= r
      /\ Rates!NeverBack'
  BY <1>1, <1>4, HandsOut
<1>7. /\ asker' \in [Requests -> [pc : {"idle", "waits", "fetches"}, since : Nat]]
      /\ \A b \in Requests : asker'[b].pc # "fetches"
  BY <1>1, <1>2 DEF RateInductive, RateTyped, Rates!Idle
<1>8. RateTyped'
  BY <1>1, <1>4, <1>5, <1>6, <1>7 DEF RateInductive, RateTyped
<1>9. NoneNewer' /\ BeganLate'
  BY <1>1, <1>2, <1>3, <1>4, <1>6, <1>7 DEF NoneNewer, BeganLate
<1>10. LastIsCached'
  BY <1>1, <1>3, <1>4, <1>5 DEF LastIsCached
<1>11. ASSUME NEW i \in 1..Len(fetches) PROVE fetches[i].at <= n.at /\ n.at - fetches[i].at >= KeptFor(fetches[i])
  <2>1. fetches[i].at \in Nat /\ KeptFor(fetches[i]) \in Nat
    BY <1>5 DEF Fetch, KeptFor, RateSizes
  <2>. QED
    BY <1>2, <1>3, <2>1
<1>12. \A i \in 1..Len(fetches') : fetches'[i].at <= quote'.ts
  BY <1>2, <1>3, <1>4, <1>5, <1>11
<1>13. ASSUME NEW j \in DOMAIN fetches', NEW i \in 1..(j - 1)
       PROVE  fetches'[j].at - fetches'[i].at >= KeptFor(fetches'[i])
  <2>1. j \in 1..Len(fetches) \/ j = Len(fetches) + 1
    BY <1>5
  <2>2. CASE j \in 1..Len(fetches)
    <3>1. i \in 1..Len(fetches) /\ j \in DOMAIN fetches
      BY <1>2, <1>5, <2>2
    <3>. QED
      BY <1>5, <2>2, <3>1 DEF RateInductive, Rates!Spares, KeptFor
  <2>3. CASE j = Len(fetches) + 1
    <3>1. i \in 1..Len(fetches)
      BY <1>5, <2>3
    <3>. QED
      BY <1>5, <1>11, <2>3, <3>1
  <2>. QED
    BY <2>1, <2>2, <2>3
<1>14. Rates!Spares'
  BY <1>13 DEF Rates!Spares, KeptFor
<1>. QED
  BY <1>6, <1>8, <1>9, <1>10, <1>12, <1>14 DEF RateInductive

\* A fetch that is cancelled lets the lock go and stores nothing.
LEMMA CancelledKeeps ==
    ASSUME RateSizes, RateInductive, NEW a \in Requests, Rates!Cancelled(a) PROVE RateInductive'
<1>1. /\ UNCHANGED <<rateClock, quote, rateKnown, fetches, got>>
      /\ asker' = [asker EXCEPT ![a] = Rates!Idle]
      /\ held' = IF held = a THEN Rates!Nobody ELSE held
  BY DEF Rates!Cancelled
<1>2. /\ asker' \in [Requests -> [pc : {"idle", "waits", "fetches"}, since : Nat]]
      /\ \A b \in Requests : asker'[b].pc = "fetches" => b # a /\ asker'[b] = asker[b]
  BY <1>1 DEF RateInductive, RateTyped, Rates!Idle
<1>3. BeganLate'
  BY <1>1, <1>2 DEF RateInductive, BeganLate, KeptFor
<1>. QED
  BY <1>1, <1>2, <1>3 DEF RateInductive, RateTyped, NoneNewer, LastIsCached, Rates!Spares,
     Rates!NeverBack

\* Time passes, and the bank may change its rate.
LEMMA RateTickKeeps == ASSUME RateSizes, RateInductive, Rates!Tick PROVE RateInductive'
<1>1. /\ rateClock' = rateClock + 1 /\ rateClock \in Nat /\ quote.rate \in Nat /\ quote.ts \in Nat
      /\ UNCHANGED <<quote, rateKnown, asker, held, fetches, got>>
  BY DEF Rates!Tick, RateInductive, RateTyped
<1>2. \A g \in got : g.at \in Nat
  BY DEF RateInductive, RateTyped
<1>3. \A a \in Requests : asker[a].since \in Nat
  BY DEF RateInductive, RateTyped
<1>4. NoneNewer' /\ BeganLate'
  BY <1>1, <1>2, <1>3 DEF RateInductive, NoneNewer, BeganLate, KeptFor
<1>. QED
  BY <1>1, <1>4 DEF RateInductive, RateTyped, LastIsCached, Rates!Spares, Rates!NeverBack

\* Every step around the rate keeps the invariant.
LEMMA RateSteps == RateSizes /\ RateInductive /\ [Rates!Next]_rateVars => RateInductive'
<1>. SUFFICES ASSUME RateSizes, RateInductive, [Rates!Next]_rateVars PROVE RateInductive'
  OBVIOUS
<1>0. rateClock \in Nat /\ quote.rate \in Nat /\ quote.rate <= rateClock + 1 /\ quote.rate <= quote.rate
  BY DEF RateInductive, RateTyped, NoneNewer
<1>1. CASE UNCHANGED rateVars
  BY <1>1 DEF rateVars, RateInductive, RateTyped, NoneNewer, LastIsCached, BeganLate, KeptFor,
     Rates!Spares, Rates!NeverBack
<1>2. ASSUME NEW a \in Requests, Rates!Answered(a) PROVE RateInductive'
  <2>1. rateClock + 1 \in Nat /\ rateClock + 1 <= rateClock + 1
    BY <1>0
  <2>. QED
    BY <1>0, <1>2, <2>1, StoreKeeps DEF Rates!Answered
<1>3. ASSUME NEW a \in Requests, Rates!Failed(a) PROVE RateInductive'
  BY <1>0, <1>3, StoreKeeps DEF Rates!Failed
<1>. QED
  BY <1>1, <1>2, <1>3, AskKeeps, EnterKeeps, CancelledKeeps, RateTickKeeps DEF Rates!Next

\* For any number of orders, revisions of the menu, moments and interruptions: a paid
\* order is one at the terms the customer was charged, the bank is asked for its rate only
\* when the last answer has run out, and nobody is handed an older rate than another
\* before him (menu_invoice.py, payments.py, rub_pricing.py).
THEOREM CheckoutIsSound == Spec => []CheckoutSound
<1>1. Buy!Init => BuyInductive
  BY BuyBegins, CheckoutConstants
<1>2. BuyInductive /\ [Buy!Next]_checkoutVars => BuyInductive'
  BY BuySteps
<1>3. BuyInductive => Buy!PaidIsServed
  BY BuyConcludes
<1>4. Rates!Init => RateInductive
  BY RateBegins, RateConstants
<1>5. RateInductive /\ [Rates!Next]_rateVars => RateInductive'
  BY RateSteps, RateConstants
<1>6. RateInductive => Rates!RatesSound
  BY DEF RateInductive, Rates!RatesSound
<1>. QED
  BY <1>1, <1>2, <1>3, <1>4, <1>5, <1>6, SalesSpecs, PTL
  DEF Buy!Spec, Buy!checkoutVars, checkoutVars, Rates!Spec, Rates!rateVars, rateVars,
      CheckoutSound

-----------------------------------------------------------------------------
(***************************************************************************)
(* Transfers.  The row of a source is opened once, and only the request    *)
(* that has opened it reads, extends and disables: one request under way   *)
(* per pending row, and none for the others.  Links only ever go from      *)
(* nobody to an account, so both profiles stay with the customer.          *)
(***************************************************************************)

TransferRecord ==
    [pc : {"idle", "open", "read", "disable", "attach"},
     customer : Accounts \cup {NoAccount}, source : Subscriptions \cup {NoSubscription},
     target : Subscriptions \cup {NoSubscription}, read : SUBSET {"source", "target"},
     sourceDays : Nat, targetDays : Nat]
LedgerRecord ==
    [status : {"none", "pending", "failed", "manual_review", "completed"},
     customer : Accounts \cup {NoAccount}, target : Subscriptions \cup {NoSubscription},
     days : Nat]
PanelRecord == [active : BOOLEAN, days : Nat]

MovesTyped ==
    /\ profile \in [Subscriptions -> PanelRecord]
    /\ linkedTo \in [Subscriptions -> Accounts \cup {NoAccount}]
    /\ transferRow \in [Subscriptions -> LedgerRecord]
    /\ transfer \in [Requests -> TransferRecord]
    /\ moved \in [Subscriptions -> Nat]
    /\ bought \in Nat

\* A request past the ledger.
Moving(r) == transfer[r].pc \in {"read", "disable", "attach"}

\* A later transfer has p as its target.
Reused(p) == \E q \in Subscriptions : transferRow[q].target = p

\* What a request under way relies on.
MoveOK(r) ==
    LET x == transfer[r] IN
    /\ x.pc # "idle" =>
         /\ x.customer \in Accounts /\ x.source \in Subscriptions /\ x.target \in Subscriptions
         /\ linkedTo[x.target] = x.customer
    /\ Moving(r) =>
         /\ transferRow[x.source].status = "pending"
         /\ transferRow[x.source].customer = x.customer
         /\ transferRow[x.source].target = x.target
    /\ x.pc = "read" => moved[x.source] = 0
    /\ x.pc \in {"disable", "attach"} => moved[x.source] = 1 /\ x.sourceDays > 0
    /\ x.pc = "attach" => (bought = 0 => ~profile[x.source].active \/ Reused(x.source))

\* One request moves the days of a source.
OneMover == \A r, s \in Requests : Moving(r) /\ Moving(s) /\ transfer[r].source = transfer[s].source => r = s

RowOK(p) ==
    /\ moved[p] <= 1
    /\ transferRow[p].status = "none" =>
         moved[p] = 0 /\ transferRow[p].target \notin Subscriptions
    /\ transferRow[p].status = "completed" =>
         /\ moved[p] = 1 /\ transferRow[p].days > 0
         /\ transferRow[p].customer \in Accounts /\ transferRow[p].target \in Subscriptions
         /\ linkedTo[p] = transferRow[p].customer
         /\ linkedTo[transferRow[p].target] = transferRow[p].customer
         /\ bought = 0 => ~profile[p].active \/ Reused(p)

MovesInductive ==
    /\ MovesTyped /\ OneMover
    /\ \A r \in Requests : MoveOK(r)
    /\ \A p \in Subscriptions : RowOK(p)


\* What no step takes back: a link, a target, and what may have switched a profile on.
Onward ==
    /\ \A p \in Subscriptions : linkedTo[p] \in Accounts => linkedTo'[p] = linkedTo[p]
    /\ \A q \in Subscriptions :
         transferRow[q].target \in Subscriptions => transferRow'[q].target = transferRow[q].target
    /\ bought' = 0 =>
         /\ bought = 0
         /\ \A p \in Subscriptions : ~profile[p].active => ~profile'[p].active \/ Reused(p)'

\* A row never loses its target.
LEMMA ReusedStays == ASSUME Onward, NEW p \in Subscriptions, Reused(p) PROVE Reused(p)'
BY DEF Onward, Reused

\* What a request relies on survives whatever leaves its row alone.
LEMMA MoveStays ==
    ASSUME MovesTyped, Onward, NEW s \in Requests, MoveOK(s), transfer'[s] = transfer[s],
           Moving(s) => /\ transferRow'[transfer[s].source] = transferRow[transfer[s].source]
                        /\ moved'[transfer[s].source] = moved[transfer[s].source]
    PROVE  MoveOK(s)'
<1>1. transfer[s].pc # "idle" => linkedTo'[transfer[s].target] = transfer[s].customer
  BY DEF MoveOK, Onward
<1>2. ASSUME transfer[s].pc = "attach", bought' = 0
      PROVE  ~profile'[transfer[s].source].active \/ Reused(transfer[s].source)'
  BY <1>2, ReusedStays DEF MoveOK, Onward
<1>3. PICK x : x = transfer[s]
  OBVIOUS
<1>4. transfer[s].pc \in {"idle", "open", "read", "disable", "attach"}
  BY DEF MovesTyped, TransferRecord
<1>. QED
  BY <1>1, <1>2, <1>4 DEF MoveOK, Moving

\* A row that does not change stays right.
LEMMA RowStays ==
    ASSUME Onward, NEW p \in Subscriptions, RowOK(p), transferRow'[p] = transferRow[p],
           moved'[p] = moved[p]
    PROVE  RowOK(p)'
<1>1. transferRow[p].status = "completed" =>
        /\ linkedTo'[p] = linkedTo[p]
        /\ linkedTo'[transferRow[p].target] = linkedTo[transferRow[p].target]
  BY DEF RowOK, Onward
<1>2. ASSUME transferRow[p].status = "completed", bought' = 0 PROVE ~profile'[p].active \/ Reused(p)'
  BY <1>2, ReusedStays DEF RowOK, Onward
<1>. QED
  BY <1>1, <1>2 DEF RowOK

\* Request r goes on; the others, and the rows that are not its source's, are left alone.
LEMMA OneRequestMoves ==
    ASSUME MovesInductive, NEW r \in Requests, Onward, MovesTyped',
           \A s \in Requests : s # r => transfer'[s] = transfer[s],
           Moving(r)' => Moving(r) /\ transfer'[r].source = transfer[r].source,
           \A p \in Subscriptions : ~Moving(r) \/ p # transfer[r].source =>
               transferRow'[p] = transferRow[p] /\ moved'[p] = moved[p],
           MoveOK(r)',
           \A p \in Subscriptions : Moving(r) /\ p = transfer[r].source => RowOK(p)'
    PROVE  MovesInductive'
<1>1. OneMover'
  BY DEF MovesInductive, OneMover, Moving
<1>2. ASSUME NEW s \in Requests, s # r PROVE MoveOK(s)'
  <2>1. MoveOK(s) /\ MoveOK(r) /\ MovesTyped
    BY DEF MovesInductive
  <2>2. Moving(s) => transfer[s].source \in Subscriptions
    BY <2>1 DEF MoveOK, Moving
  <2>3. Moving(s) /\ Moving(r) => transfer[s].source # transfer[r].source
    BY <1>2 DEF MovesInductive, OneMover
  <2>. QED
    BY <1>2, <2>1, <2>2, <2>3, MoveStays
<1>3. ASSUME NEW p \in Subscriptions PROVE RowOK(p)'
  <2>1. CASE Moving(r) /\ p = transfer[r].source
    BY <2>1
  <2>2. CASE ~Moving(r) \/ p # transfer[r].source
    BY <2>2, RowStays DEF MovesInductive
  <2>. QED
    BY <2>1, <2>2
<1>. QED
  BY <1>1, <1>2, <1>3 DEF MovesInductive

\* A request that has ended.
LEMMA NoTransferIs == Moves!NoRequest \in TransferRecord /\ Moves!NoRequest.pc = "idle"
BY DEF Moves!NoRequest, TransferRecord

\* No transfer has begun.
LEMMA MovesBegin == TransferSizes /\ Moves!Init => MovesInductive
<1>. SUFFICES ASSUME TransferSizes, Moves!Init PROVE MovesInductive
  OBVIOUS
<1>1. Moves!NoRow \in LedgerRecord /\ Moves!NoRow.status = "none" /\ Moves!NoRow.target \notin Subscriptions
  BY DEF Moves!NoRow, LedgerRecord, TransferSizes
<1>2. MovesTyped
  BY <1>1, NoTransferIs DEF Moves!Init, MovesTyped, PanelRecord
<1>3. \A p \in Subscriptions : transferRow[p] = Moves!NoRow /\ moved[p] = 0
  BY DEF Moves!Init
<1>4. \A r \in Requests : transfer[r].pc = "idle"
  BY NoTransferIs DEF Moves!Init
<1>5. \A p \in Subscriptions : RowOK(p)
  BY <1>1, <1>3 DEF RowOK
<1>6. OneMover /\ \A r \in Requests : MoveOK(r)
  BY <1>4 DEF OneMover, Moving, MoveOK
<1>. QED
  BY <1>2, <1>5, <1>6 DEF MovesInductive

\* A request is given up or answered; its source's row keeps its state, or gets a verdict
\* other than "completed".
LEMMA AnswerKeeps ==
    ASSUME MovesInductive, NEW r \in Requests, Moves!Answer(r), transfer[r].pc # "idle",
           UNCHANGED <<profile, linkedTo, moved, bought, transferRow>>
    PROVE  MovesInductive'
<1>1. /\ transfer' = [transfer EXCEPT ![r] = Moves!NoRequest] /\ MovesTyped /\ MoveOK(r)
  BY DEF Moves!Answer, MovesInductive
<1>2. /\ transfer' \in [Requests -> TransferRecord] /\ transfer'[r].pc = "idle"
      /\ \A s \in Requests : s # r => transfer'[s] = transfer[s]
  BY <1>1, NoTransferIs DEF MovesTyped
<1>3. MovesTyped' /\ Onward /\ MoveOK(r)'
  BY <1>1, <1>2 DEF MovesTyped, Onward, MoveOK, Moving
<1>4. \A p \in Subscriptions : RowOK(p)'
  BY <1>3, RowStays DEF MovesInductive
<1>. QED
  BY <1>2, <1>3, <1>4, OneRequestMoves DEF Moving

\* What the settling of a row does to it.
LEMMA SettleIs ==
    ASSUME MovesInductive, NEW r \in Requests, Moving(r), NEW d \in Nat,
           NEW becomes \in {"failed", "manual_review", "completed"}, Moves!Settle(r, becomes, d)
    PROVE  /\ transferRow' \in [Subscriptions -> LedgerRecord]
           /\ transferRow'[transfer[r].source].status = becomes
           /\ transferRow'[transfer[r].source].days = d
           /\ transferRow'[transfer[r].source].customer = transfer[r].customer
           /\ transferRow'[transfer[r].source].target = transfer[r].target
           /\ \A p \in Subscriptions : p # transfer[r].source => transferRow'[p] = transferRow[p]
           /\ transfer' \in [Requests -> TransferRecord] /\ transfer'[r].pc = "idle"
           /\ \A s \in Requests : s # r => transfer'[s] = transfer[s]
           /\ MoveOK(r)'
<1>1. MovesTyped /\ MoveOK(r) /\ transfer[r].source \in Subscriptions
  BY DEF MovesInductive, MoveOK, Moving
<1>2. PICK p \in Subscriptions : p = transfer[r].source
  BY <1>1
<1>3. transferRow[p] \in LedgerRecord
  BY <1>1 DEF MovesTyped
<1>4. PICK n \in LedgerRecord : n = [transferRow[p] EXCEPT !.status = becomes, !.days = d]
  BY <1>3 DEF LedgerRecord
<1>5. /\ n.status = becomes /\ n.days = d /\ n.customer = transferRow[p].customer
      /\ n.target = transferRow[p].target
  BY <1>3, <1>4 DEF LedgerRecord
<1>6. transferRow' = [transferRow EXCEPT ![p] = n]
  BY <1>2, <1>4 DEF Moves!Settle
<1>7. transferRow[p].customer = transfer[r].customer /\ transferRow[p].target = transfer[r].target
  BY <1>1, <1>2 DEF MoveOK
<1>8. /\ transferRow' \in [Subscriptions -> LedgerRecord] /\ transferRow'[p] = n
      /\ \A q \in Subscriptions : q # p => transferRow'[q] = transferRow[q]
  BY <1>1, <1>6 DEF MovesTyped
<1>9. /\ transfer' \in [Requests -> TransferRecord] /\ transfer'[r].pc = "idle"
      /\ \A s \in Requests : s # r => transfer'[s] = transfer[s]
  BY <1>1, NoTransferIs DEF MovesTyped, Moves!Settle, Moves!Answer
<1>10. MoveOK(r)'
  BY <1>9 DEF MoveOK, Moving
<1>. QED
  BY <1>2, <1>5, <1>7, <1>8, <1>9, <1>10

\* A request passes the checks before the ledger.
LEMMA CheckKeeps ==
    ASSUME TransferSizes, MovesInductive, NEW r \in Requests, NEW c \in Accounts,
           NEW s \in Subscriptions, NEW t \in Subscriptions, Moves!CheckTransfer(r, c, s, t)
    PROVE  MovesInductive'
<1>1. PICK n \in TransferRecord :
        n = [Moves!NoRequest EXCEPT !.pc = "open", !.customer = c, !.source = s, !.target = t]
  BY NoTransferIs DEF TransferRecord
<1>2. n.pc = "open" /\ n.customer = c /\ n.source = s /\ n.target = t
  BY <1>1, NoTransferIs DEF TransferRecord
<1>3. /\ transfer' = [transfer EXCEPT ![r] = n] /\ transfer[r].pc = "idle" /\ linkedTo[t] = c
      /\ UNCHANGED <<profile, linkedTo, transferRow, moved, bought>> /\ MovesTyped
  BY <1>1 DEF Moves!CheckTransfer, MovesInductive
<1>4. MovesTyped' /\ Onward /\ transfer'[r] = n /\ \A q \in Requests : q # r => transfer'[q] = transfer[q]
  BY <1>3 DEF MovesTyped, Onward
<1>5. MoveOK(r)'
  BY <1>2, <1>3, <1>4 DEF MoveOK, Moving
<1>. QED
  BY <1>2, <1>3, <1>4, <1>5, OneRequestMoves DEF Moving

\* The row of the source is opened by the first request that gets there.
LEMMA OpenKeeps ==
    ASSUME TransferSizes, MovesInductive, NEW r \in Requests, Moves!OpenTransfer(r)
    PROVE  MovesInductive'
<1>0. /\ MovesTyped /\ MoveOK(r) /\ transfer[r].pc = "open" /\ transfer[r] \in TransferRecord
      /\ transfer[r].source \in Subscriptions /\ transfer[r].target \in Subscriptions
      /\ transfer[r].customer \in Accounts
      /\ UNCHANGED <<profile, linkedTo, moved, bought>>
  BY DEF Moves!OpenTransfer, MovesInductive, MoveOK, MovesTyped
<1>1. CASE ~Moves!FirstTransfer(transfer[r].source)
  BY <1>0, <1>1, AnswerKeeps DEF Moves!OpenTransfer
<1>2. CASE Moves!FirstTransfer(transfer[r].source)
  <2>1. PICK p \in Subscriptions : p = transfer[r].source
    BY <1>0
  <2>2. PICK row \in LedgerRecord : row = [status |-> "pending", customer |-> transfer[r].customer,
                                           target |-> transfer[r].target, days |-> 0]
    BY <1>0 DEF LedgerRecord
  <2>3. PICK n \in TransferRecord : n = [transfer[r] EXCEPT !.pc = "read"]
    BY <1>0 DEF TransferRecord
  <2>4. /\ n.pc = "read" /\ n.customer = transfer[r].customer /\ n.source = p
        /\ n.target = transfer[r].target
        /\ row.status = "pending" /\ row.customer = transfer[r].customer /\ row.target = transfer[r].target
    BY <1>0, <2>1, <2>2, <2>3 DEF TransferRecord
  <2>5. /\ transferRow' = [transferRow EXCEPT ![p] = row] /\ transfer' = [transfer EXCEPT ![r] = n]
        /\ transferRow[p].status = "none"
    BY <1>2, <2>1, <2>2, <2>3 DEF Moves!OpenTransfer, Moves!FirstTransfer
  <2>6. /\ MovesTyped' /\ transfer'[r] = n /\ transferRow'[p] = row
        /\ \A q \in Subscriptions : q # p => transferRow'[q] = transferRow[q]
        /\ \A s \in Requests : s # r => transfer'[s] = transfer[s]
    BY <1>0, <2>5 DEF MovesTyped
  <2>7. transferRow[p].target \notin Subscriptions /\ moved[p] = 0
    BY <2>5 DEF MovesInductive, RowOK
  <2>8. Onward
    BY <1>0, <2>6, <2>7 DEF Onward
  <2>9. \A s \in Requests : Moving(s) => transfer[s].source # p
    BY <2>5 DEF MovesInductive, MoveOK
  <2>10. OneMover'
    BY <2>4, <2>6, <2>9 DEF MovesInductive, OneMover, Moving
  <2>11. MoveOK(r)'
    BY <1>0, <2>1, <2>4, <2>6, <2>7 DEF MoveOK, Moving
  <2>12. ASSUME NEW s \in Requests, s # r PROVE MoveOK(s)'
    <3>1. MoveOK(s) /\ (Moving(s) => transfer[s].source \in Subscriptions)
      BY DEF MovesInductive, MoveOK, Moving
    <3>. QED
      BY <1>0, <2>6, <2>8, <2>9, <2>12, <3>1, MoveStays
  <2>13. ASSUME NEW q \in Subscriptions PROVE RowOK(q)'
    <3>1. CASE q = p
      BY <1>0, <2>4, <2>6, <2>7, <3>1 DEF RowOK
    <3>2. CASE q # p
      BY <1>0, <2>6, <2>8, <3>2, RowStays DEF MovesInductive
    <3>. QED
      BY <3>1, <3>2
  <2>. QED
    BY <2>6, <2>10, <2>11, <2>12, <2>13 DEF MovesInductive
<1>. QED
  BY <1>1, <1>2

\* One of the two profiles is read.
LEMMA ReadKeeps ==
    ASSUME MovesInductive, NEW r \in Requests, NEW side \in {"source", "target"},
           Moves!ReadProfile(r, side)
    PROVE  MovesInductive'
<1>0. /\ MovesTyped /\ MoveOK(r) /\ transfer[r].pc = "read" /\ transfer[r] \in TransferRecord
      /\ transfer[r].source \in Subscriptions /\ transfer[r].target \in Subscriptions
      /\ UNCHANGED <<profile, linkedTo, transferRow, moved, bought>>
  BY DEF Moves!ReadProfile, MovesInductive, MoveOK, MovesTyped
<1>1. PICK d \in Nat : d = profile[IF side = "source" THEN transfer[r].source ELSE transfer[r].target].days
  <2>1. \A p \in Subscriptions : profile[p].days \in Nat
    BY <1>0 DEF MovesTyped, PanelRecord
  <2>. QED
    BY <1>0, <2>1
<1>2. PICK n \in TransferRecord :
        n = [transfer[r] EXCEPT !.read = transfer[r].read \cup {side},
               !.sourceDays = IF side = "source" THEN d ELSE transfer[r].sourceDays,
               !.targetDays = IF side = "target" THEN d ELSE transfer[r].targetDays]
  <2>1. PICK e \in Nat : e = IF side = "source" THEN d ELSE transfer[r].sourceDays
    BY <1>0 DEF TransferRecord
  <2>2. PICK f \in Nat : f = IF side = "target" THEN d ELSE transfer[r].targetDays
    BY <1>0 DEF TransferRecord
  <2>3. PICK g \in SUBSET {"source", "target"} : g = transfer[r].read \cup {side}
    BY <1>0 DEF TransferRecord
  <2>4. [transfer[r] EXCEPT !.read = g, !.sourceDays = e, !.targetDays = f] \in TransferRecord
    BY <1>0 DEF TransferRecord
  <2>. QED
    BY <2>1, <2>2, <2>3, <2>4
<1>3. /\ n.pc = "read" /\ n.customer = transfer[r].customer /\ n.source = transfer[r].source
      /\ n.target = transfer[r].target
  BY <1>0, <1>2 DEF TransferRecord
<1>4. transfer' = [transfer EXCEPT ![r] = n]
  BY <1>1, <1>2 DEF Moves!ReadProfile
<1>5. /\ MovesTyped' /\ Onward /\ transfer'[r] = n
      /\ \A s \in Requests : s # r => transfer'[s] = transfer[s]
  BY <1>0, <1>4 DEF MovesTyped, Onward
<1>6. MoveOK(r)'
  BY <1>0, <1>3, <1>5 DEF MoveOK, Moving
<1>7. \A p \in Subscriptions : RowOK(p)'
  BY <1>0, <1>5, RowStays DEF MovesInductive
<1>. QED
  BY <1>0, <1>3, <1>5, <1>6, <1>7, OneRequestMoves DEF Moving

\* A transfer that cannot be made is settled as failed.
LEMMA RejectKeeps ==
    ASSUME MovesInductive, NEW r \in Requests, Moves!RejectTransfer(r) PROVE MovesInductive'
<1>0. /\ MovesTyped /\ MoveOK(r) /\ Moving(r) /\ transfer[r].source \in Subscriptions
      /\ Moves!Settle(r, "failed", 0)
      /\ UNCHANGED <<profile, linkedTo, moved, bought>>
  BY DEF Moves!RejectTransfer, Moves!BothRead, MovesInductive, MoveOK, Moving
<1>1. PICK p \in Subscriptions : p = transfer[r].source
  BY <1>0
<1>2. /\ transferRow' \in [Subscriptions -> LedgerRecord]
      /\ transferRow'[p].status = "failed" /\ transferRow'[p].target = transfer[r].target
      /\ \A q \in Subscriptions : q # p => transferRow'[q] = transferRow[q]
      /\ transfer' \in [Requests -> TransferRecord] /\ transfer'[r].pc = "idle"
      /\ \A s \in Requests : s # r => transfer'[s] = transfer[s]
      /\ MoveOK(r)'
  BY <1>0, <1>1, SettleIs
<1>3. MovesTyped'
  BY <1>0, <1>2 DEF MovesTyped
<1>4. transferRow[p].target = transfer[r].target
  BY <1>0, <1>1 DEF MoveOK
<1>5. Onward
  BY <1>0, <1>2, <1>4 DEF Onward
<1>6. RowOK(p)'
  <2>1. moved[p] <= 1
    BY DEF MovesInductive, RowOK
  <2>. QED
    BY <1>0, <1>2, <2>1 DEF RowOK
<1>. QED
  BY <1>0, <1>1, <1>2, <1>3, <1>5, <1>6, OneRequestMoves DEF Moving

\* The target is set to the sum of both, if the call lands.
LEMMA ExtendKeeps ==
    ASSUME MovesInductive, NEW r \in Requests, Moves!ExtendTarget(r) PROVE MovesInductive'
<1>0. /\ MovesTyped /\ MoveOK(r) /\ transfer[r].pc = "read" /\ Moving(r)
      /\ transfer[r] \in TransferRecord
      /\ transfer[r].source \in Subscriptions /\ transfer[r].target \in Subscriptions
      /\ transferRow[transfer[r].source].target = transfer[r].target
      /\ transferRow[transfer[r].source].status = "pending"
      /\ moved[transfer[r].source] = 0 /\ transfer[r].sourceDays > 0
      /\ UNCHANGED <<linkedTo, bought>>
  BY DEF Moves!ExtendTarget, Moves!BothRead, MovesInductive, MoveOK, MovesTyped, Moving
<1>1. PICK landed \in BOOLEAN, answered \in BOOLEAN :
        /\ answered => landed
        /\ profile' = IF landed
             THEN [profile EXCEPT ![transfer[r].target] =
                     [active |-> TRUE, days |-> transfer[r].sourceDays + transfer[r].targetDays]]
             ELSE profile
        /\ moved' = [moved EXCEPT ![transfer[r].source] = IF landed THEN @ + 1 ELSE @]
        /\ IF answered
           THEN transfer' = [transfer EXCEPT ![r].pc = "disable"] /\ UNCHANGED transferRow
           ELSE Moves!Settle(r, "manual_review", 0)
  BY DEF Moves!ExtendTarget, Moves!Done
<1>2. PICK p \in Subscriptions : p = transfer[r].source
  BY <1>0
<1>3. PICK t \in Subscriptions : t = transfer[r].target
  BY <1>0
<1>4. /\ moved' \in [Subscriptions -> Nat] /\ moved'[p] = (IF landed THEN 1 ELSE 0)
      /\ \A q \in Subscriptions : q # p => moved'[q] = moved[q]
  <2>1. moved' = [moved EXCEPT ![p] = IF landed THEN 1 ELSE 0]
    BY <1>0, <1>1, <1>2
  <2>. QED
    BY <1>0, <2>1 DEF MovesTyped
<1>5. /\ profile' \in [Subscriptions -> PanelRecord]
      /\ \A q \in Subscriptions : q # t => profile'[q] = profile[q]
  <2>0. PICK d \in Nat : d = transfer[r].sourceDays + transfer[r].targetDays
    <3>1. PICK a \in Nat, b \in Nat : a = transfer[r].sourceDays /\ b = transfer[r].targetDays
      BY <1>0 DEF TransferRecord
    <3>2. a + b \in Nat
      OBVIOUS
    <3>. QED
      BY <3>1, <3>2
  <2>1. PICK n \in PanelRecord :
          n = [active |-> TRUE, days |-> transfer[r].sourceDays + transfer[r].targetDays]
    <3>1. [active |-> TRUE, days |-> d] \in PanelRecord
      BY DEF PanelRecord
    <3>. QED
      BY <2>0, <3>1
  <2>2. profile' = IF landed THEN [profile EXCEPT ![t] = n] ELSE profile
    BY <1>1, <1>3, <2>1
  <2>. QED
    BY <1>0, <2>2 DEF MovesTyped
<1>6. CASE answered
  <2>1. PICK n \in TransferRecord : n = [transfer[r] EXCEPT !.pc = "disable"]
    BY <1>0 DEF TransferRecord
  <2>2. /\ n.pc = "disable" /\ n.customer = transfer[r].customer /\ n.source = p
        /\ n.target = t /\ n.sourceDays = transfer[r].sourceDays
    BY <1>0, <1>2, <1>3, <2>1 DEF TransferRecord
  <2>3. transfer' = [transfer EXCEPT ![r] = n] /\ UNCHANGED transferRow /\ landed
    BY <1>1, <1>6, <2>1
  <2>4. /\ MovesTyped' /\ transfer'[r] = n /\ \A s \in Requests : s # r => transfer'[s] = transfer[s]
    BY <1>0, <1>4, <1>5, <2>3 DEF MovesTyped
  <2>5. Reused(t)'
    BY <1>0, <1>2, <1>3, <2>3 DEF Reused
  <2>6. Onward
    BY <1>0, <1>5, <2>3, <2>5 DEF Onward
  <2>7. MoveOK(r)'
    BY <1>0, <1>2, <1>3, <1>4, <2>2, <2>3, <2>4 DEF MoveOK, Moving
  <2>8. RowOK(p)'
    BY <1>0, <1>2, <1>4, <2>3 DEF RowOK
  <2>. QED
    BY <1>0, <1>2, <1>4, <2>2, <2>3, <2>4, <2>6, <2>7, <2>8, OneRequestMoves DEF Moving
<1>7. CASE ~answered
  <2>1. Moves!Settle(r, "manual_review", 0)
    BY <1>1, <1>7
  <2>2. /\ transferRow' \in [Subscriptions -> LedgerRecord]
        /\ transferRow'[p].status = "manual_review" /\ transferRow'[p].target = t
        /\ \A q \in Subscriptions : q # p => transferRow'[q] = transferRow[q]
        /\ transfer' \in [Requests -> TransferRecord] /\ transfer'[r].pc = "idle"
        /\ \A s \in Requests : s # r => transfer'[s] = transfer[s]
        /\ MoveOK(r)'
    BY <1>0, <1>2, <1>3, <2>1, SettleIs
  <2>3. MovesTyped'
    BY <1>0, <1>4, <1>5, <2>2 DEF MovesTyped
  <2>4. Reused(t)'
    BY <2>2 DEF Reused
  <2>5. Onward
    BY <1>0, <1>2, <1>3, <1>5, <2>2, <2>4 DEF Onward
  <2>6. RowOK(p)'
    BY <1>4, <2>2 DEF RowOK
  <2>. QED
    BY <1>0, <1>2, <1>4, <2>2, <2>3, <2>5, <2>6, OneRequestMoves DEF Moving
<1>. QED
  BY <1>6, <1>7

\* The source is disabled, or the panel refuses.
LEMMA DisableKeeps ==
    ASSUME MovesInductive, NEW r \in Requests, Moves!DisableSource(r) PROVE MovesInductive'
<1>0. /\ MovesTyped /\ MoveOK(r) /\ transfer[r].pc = "disable" /\ Moving(r)
      /\ transfer[r] \in TransferRecord
      /\ transfer[r].source \in Subscriptions /\ transfer[r].target \in Subscriptions
      /\ transferRow[transfer[r].source].target = transfer[r].target
      /\ transferRow[transfer[r].source].status = "pending"
      /\ moved[transfer[r].source] = 1 /\ transfer[r].sourceDays > 0
      /\ UNCHANGED <<linkedTo, moved, bought>>
  BY DEF Moves!DisableSource, MovesInductive, MoveOK, MovesTyped, Moving
<1>1. PICK landed \in BOOLEAN, answered \in BOOLEAN :
        /\ answered => landed
        /\ profile' = IF landed THEN [profile EXCEPT ![transfer[r].source].active = FALSE] ELSE profile
        /\ IF answered
           THEN transfer' = [transfer EXCEPT ![r].pc = "attach"] /\ UNCHANGED transferRow
           ELSE Moves!Settle(r, "manual_review", transfer[r].sourceDays)
  BY DEF Moves!DisableSource, Moves!Disabled
<1>2. PICK p \in Subscriptions : p = transfer[r].source
  BY <1>0
<1>3. /\ profile' \in [Subscriptions -> PanelRecord]
      /\ \A q \in Subscriptions : q # p => profile'[q] = profile[q]
      /\ landed => ~profile'[p].active
      /\ ~profile[p].active => ~profile'[p].active
  <2>0. profile[p] \in PanelRecord
    BY <1>0 DEF MovesTyped
  <2>1. PICK n \in PanelRecord : n = [profile[p] EXCEPT !.active = FALSE]
    BY <2>0 DEF PanelRecord
  <2>2. n.active = FALSE
    BY <2>0, <2>1 DEF PanelRecord
  <2>3. profile' = IF landed THEN [profile EXCEPT ![p] = n] ELSE profile
    BY <1>1, <1>2, <2>1
  <2>. QED
    BY <1>0, <2>2, <2>3 DEF MovesTyped
<1>4. CASE answered
  <2>1. PICK n \in TransferRecord : n = [transfer[r] EXCEPT !.pc = "attach"]
    BY <1>0 DEF TransferRecord
  <2>2. /\ n.pc = "attach" /\ n.customer = transfer[r].customer /\ n.source = p
        /\ n.target = transfer[r].target /\ n.sourceDays = transfer[r].sourceDays
    BY <1>0, <1>2, <2>1 DEF TransferRecord
  <2>3. transfer' = [transfer EXCEPT ![r] = n] /\ UNCHANGED transferRow /\ landed
    BY <1>1, <1>4, <2>1
  <2>4. /\ MovesTyped' /\ transfer'[r] = n /\ \A s \in Requests : s # r => transfer'[s] = transfer[s]
    BY <1>0, <1>3, <2>3 DEF MovesTyped
  <2>5. Onward
    BY <1>0, <1>3, <2>3 DEF Onward
  <2>6. MoveOK(r)'
    BY <1>0, <1>2, <1>3, <2>2, <2>3, <2>4 DEF MoveOK, Moving
  <2>7. RowOK(p)'
    BY <1>0, <1>2, <2>3 DEF RowOK
  <2>. QED
    BY <1>0, <1>2, <2>2, <2>3, <2>4, <2>5, <2>6, <2>7, OneRequestMoves DEF Moving
<1>5. CASE ~answered
  <2>1. Moves!Settle(r, "manual_review", transfer[r].sourceDays) /\ transfer[r].sourceDays \in Nat
    BY <1>0, <1>1, <1>5 DEF TransferRecord
  <2>2. /\ transferRow' \in [Subscriptions -> LedgerRecord]
        /\ transferRow'[p].status = "manual_review" /\ transferRow'[p].target = transfer[r].target
        /\ \A q \in Subscriptions : q # p => transferRow'[q] = transferRow[q]
        /\ transfer' \in [Requests -> TransferRecord] /\ transfer'[r].pc = "idle"
        /\ \A s \in Requests : s # r => transfer'[s] = transfer[s]
        /\ MoveOK(r)'
    BY <1>0, <1>2, <2>1, SettleIs
  <2>3. MovesTyped'
    BY <1>0, <1>3, <2>2 DEF MovesTyped
  <2>4. Onward
    BY <1>0, <1>2, <1>3, <2>2 DEF Onward
  <2>5. RowOK(p)'
    BY <1>0, <1>2, <2>2 DEF RowOK
  <2>. QED
    BY <1>0, <1>2, <2>2, <2>3, <2>4, <2>5, OneRequestMoves DEF Moving
<1>. QED
  BY <1>4, <1>5

\* The target is attached and the row is completed.
LEMMA CompleteKeeps ==
    ASSUME TransferSizes, MovesInductive, NEW r \in Requests, Moves!CompleteTransfer(r)
    PROVE  MovesInductive'
<1>0. /\ MovesTyped /\ MoveOK(r) /\ transfer[r].pc = "attach" /\ Moving(r)
      /\ transfer[r] \in TransferRecord
      /\ transfer[r].source \in Subscriptions /\ transfer[r].target \in Subscriptions
      /\ transfer[r].customer \in Accounts /\ linkedTo[transfer[r].target] = transfer[r].customer
      /\ transferRow[transfer[r].source].target = transfer[r].target
      /\ moved[transfer[r].source] = 1 /\ transfer[r].sourceDays > 0
      /\ bought = 0 => ~profile[transfer[r].source].active \/ Reused(transfer[r].source)
      /\ UNCHANGED <<profile, moved, bought>>
  BY DEF Moves!CompleteTransfer, MovesInductive, MoveOK, MovesTyped, Moving
<1>1. CASE linkedTo[transfer[r].source] \notin {transfer[r].customer, NoAccount}
  BY <1>0, <1>1, AnswerKeeps DEF Moves!CompleteTransfer
<1>2. CASE linkedTo[transfer[r].source] \in {transfer[r].customer, NoAccount}
  <2>1. PICK p \in Subscriptions : p = transfer[r].source
    BY <1>0
  <2>2. /\ linkedTo' = [linkedTo EXCEPT ![p] = transfer[r].customer]
        /\ Moves!Settle(r, "completed", transfer[r].sourceDays) /\ transfer[r].sourceDays \in Nat
    BY <1>0, <1>2, <2>1 DEF Moves!CompleteTransfer, TransferRecord
  <2>3. /\ transferRow' \in [Subscriptions -> LedgerRecord]
        /\ transferRow'[p].status = "completed" /\ transferRow'[p].target = transfer[r].target
        /\ transferRow'[p].customer = transfer[r].customer
        /\ transferRow'[p].days = transfer[r].sourceDays
        /\ \A q \in Subscriptions : q # p => transferRow'[q] = transferRow[q]
        /\ transfer' \in [Requests -> TransferRecord] /\ transfer'[r].pc = "idle"
        /\ \A s \in Requests : s # r => transfer'[s] = transfer[s]
        /\ MoveOK(r)'
    BY <1>0, <2>1, <2>2, SettleIs
  <2>4. /\ MovesTyped' /\ linkedTo'[p] = transfer[r].customer
        /\ \A q \in Subscriptions : q # p => linkedTo'[q] = linkedTo[q]
    BY <1>0, <2>2, <2>3 DEF MovesTyped
  <2>5. Onward
    BY <1>0, <1>2, <2>1, <2>3, <2>4 DEF Onward, TransferSizes
  <2>6. linkedTo'[transfer[r].target] = transfer[r].customer
    BY <1>0, <2>4
  <2>7. bought = 0 => ~profile[p].active \/ Reused(p)'
    BY <1>0, <2>1, <2>5, ReusedStays
  <2>8. RowOK(p)'
    BY <1>0, <2>1, <2>3, <2>4, <2>6, <2>7 DEF RowOK
  <2>. QED
    BY <1>0, <2>1, <2>3, <2>4, <2>5, <2>8, OneRequestMoves DEF Moving
<1>. QED
  BY <1>1, <1>2

\* A purchase, or a link made elsewhere: no request moves.
LEMMA BesideKeeps ==
    ASSUME TransferSizes, MovesInductive,
           (\E p \in Subscriptions : Moves!Purchase(p))
             \/ \E p \in Subscriptions, c \in Accounts : Moves!AttachFree(c, p)
    PROVE  MovesInductive'
<1>0. MovesTyped /\ UNCHANGED <<transfer, transferRow, moved>>
  BY DEF Moves!Purchase, Moves!AttachFree, MovesInductive
<1>1. MovesTyped' /\ Onward
  <2>1. ASSUME NEW p \in Subscriptions, Moves!Purchase(p) PROVE MovesTyped' /\ Onward
    <3>1. PICK n \in PanelRecord : n = [active |-> TRUE, days |-> profile[p].days + 1]
      <4>1. PICK d \in Nat : d = profile[p].days
        BY <1>0 DEF MovesTyped, PanelRecord
      <4>2. d + 1 \in Nat
        OBVIOUS
      <4>3. [active |-> TRUE, days |-> d + 1] \in PanelRecord
        BY <4>2 DEF PanelRecord
      <4>. QED
        BY <4>1, <4>3
    <3>2. profile' = [profile EXCEPT ![p] = n] /\ bought' = bought + 1 /\ UNCHANGED linkedTo
      BY <2>1, <3>1 DEF Moves!Purchase
    <3>3. bought' # 0 /\ bought' \in Nat
      BY <1>0, <3>2 DEF MovesTyped
    <3>. QED
      BY <1>0, <3>2, <3>3 DEF MovesTyped, Onward
  <2>2. ASSUME NEW p \in Subscriptions, NEW c \in Accounts, Moves!AttachFree(c, p)
        PROVE  MovesTyped' /\ Onward
    BY <1>0, <2>2 DEF Moves!AttachFree, MovesTyped, Onward, TransferSizes
  <2>. QED
    BY <2>1, <2>2
<1>2. OneMover'
  BY <1>0 DEF MovesInductive, OneMover, Moving
<1>3. \A r \in Requests : MoveOK(r)'
  BY <1>0, <1>1, MoveStays DEF MovesInductive
<1>4. \A p \in Subscriptions : RowOK(p)'
  BY <1>0, <1>1, RowStays DEF MovesInductive
<1>. QED
  BY <1>1, <1>2, <1>3, <1>4 DEF MovesInductive

\* Every step of a transfer keeps the invariant.
LEMMA MovesSteps == TransferSizes /\ MovesInductive /\ [Moves!Next]_transferVars => MovesInductive'
<1>. SUFFICES ASSUME TransferSizes, MovesInductive, [Moves!Next]_transferVars PROVE MovesInductive'
  OBVIOUS
<1>1. CASE UNCHANGED transferVars
  BY <1>1 DEF transferVars, MovesInductive, MovesTyped, OneMover, Moving, MoveOK, RowOK, Reused
<1>2. ASSUME NEW r \in Requests, Moves!Interrupted(r) PROVE MovesInductive'
  BY <1>2, AnswerKeeps DEF Moves!Interrupted
<1>. QED
  BY <1>1, <1>2, CheckKeeps, OpenKeeps, ReadKeeps, RejectKeeps, ExtendKeeps, DisableKeeps,
     CompleteKeeps, BesideKeeps DEF Moves!Next

\* What the invariant says of the ledger.
LEMMA MovesConclude == MovesInductive => Moves!LedgerTrue
<1>. SUFFICES ASSUME MovesInductive PROVE Moves!LedgerTrue
  OBVIOUS
<1>1. Moves!MovedOnce
  BY DEF MovesInductive, RowOK, Moves!MovedOnce
<1>2. ASSUME NEW p \in Subscriptions, transferRow[p].status = "completed"
      PROVE  /\ moved[p] > 0 /\ transferRow[p].days > 0
             /\ linkedTo[p] = transferRow[p].customer
             /\ linkedTo[transferRow[p].target] = transferRow[p].customer
             /\ bought = 0 => ~profile[p].active \/ \E q \in Subscriptions : transferRow[q].target = p
  <2>1. RowOK(p)
    BY DEF MovesInductive
  <2>2. moved[p] = 1
    BY <1>2, <2>1 DEF RowOK
  <2>. QED
    BY <1>2, <2>1, <2>2 DEF RowOK, Reused
<1>3. Moves!CompletedIsDone
  BY <1>2 DEF Moves!CompletedIsDone
<1>. QED
  BY <1>1, <1>3 DEF Moves!LedgerTrue

\* Only the disabling of a source whose days were added switches a profile off.
LEMMA SwitchedOffLater ==
    ASSUME MovesInductive, [Moves!Next]_transferVars, NEW p \in Subscriptions,
           profile[p].active, ~profile'[p].active
    PROVE  moved[p] > 0
<1>0. MovesTyped
  BY DEF MovesInductive
<1>1. ASSUME NEW r \in Requests, Moves!DisableSource(r) PROVE moved[p] > 0
  <2>1. moved[transfer[r].source] = 1 /\ transfer[r].source \in Subscriptions
    BY <1>1 DEF Moves!DisableSource, MovesInductive, MoveOK
  <2>2. profile' \in {profile, [profile EXCEPT ![transfer[r].source].active = FALSE]}
    BY <1>1 DEF Moves!DisableSource
  <2>3. p = transfer[r].source
    BY <1>0, <2>1, <2>2 DEF MovesTyped
  <2>. QED
    BY <2>1, <2>3
<1>2. ASSUME NEW r \in Requests, Moves!ExtendTarget(r) PROVE FALSE
  <2>1. \E n : n.active /\ profile' \in {profile, [profile EXCEPT ![transfer[r].target] = n]}
    <3>1. PICK n : n = [active |-> TRUE, days |-> transfer[r].sourceDays + transfer[r].targetDays]
      OBVIOUS
    <3>2. profile' \in {profile, [profile EXCEPT ![transfer[r].target] = n]}
      BY <1>2, <3>1 DEF Moves!ExtendTarget
    <3>. QED
      BY <3>1, <3>2
  <2>. QED
    BY <1>0, <2>1 DEF MovesTyped
<1>3. ASSUME NEW q \in Subscriptions, Moves!Purchase(q) PROVE FALSE
  <2>1. \E n : n.active /\ profile' = [profile EXCEPT ![q] = n]
    <3>1. PICK n : n = [active |-> TRUE, days |-> profile[q].days + 1]
      OBVIOUS
    <3>2. profile' = [profile EXCEPT ![q] = n]
      BY <1>3, <3>1 DEF Moves!Purchase
    <3>. QED
      BY <3>1, <3>2
  <2>. QED
    BY <1>0, <2>1 DEF MovesTyped
<1>4. profile' # profile
  OBVIOUS
<1>. QED
  BY <1>1, <1>2, <1>3, <1>4 DEF Moves!Next, transferVars, Moves!CheckTransfer, Moves!OpenTransfer,
     Moves!ReadProfile, Moves!RejectTransfer, Moves!CompleteTransfer, Moves!Interrupted,
     Moves!AttachFree

\* A behaviour of all machines is one of the transfers.
LEMMA MovesSpec == Spec => Moves!Spec
<1>1. Init => Moves!Init
  BY DEF Init
<1>2. [Next]_allVars => [Moves!Next]_transferVars
  BY DEF Next, LinksNext, TransferNext, MergeNext, AccessNext, StoreNext, DrawNext, FreeNext,
     CredentialsNext, CheckoutNext, RatesNext, GuardsNext, ScreensNext, CleanNext, ImportNext,
     PageNext, IdentityNext, allVars, accountSide, transferVars
<1>. QED
  BY <1>1, <1>2, PTL DEF Spec, Moves!Spec, Moves!transferVars, transferVars

\* For any number of requests, profiles and interruptions: the days of a source are added
\* to a target at most once, a completed row is true, and no profile is switched off
\* before its days have been added elsewhere (subscription_sso_router.py).
THEOREM TransfersAreSound == Spec => TransfersSound
<1>1. Moves!Init => MovesInductive
  BY MovesBegin, TransferConstants
<1>2. MovesInductive /\ [Moves!Next]_transferVars => MovesInductive'
  BY MovesSteps, TransferConstants
<1>3. MovesInductive => Moves!LedgerTrue
  BY MovesConclude
<1>4. MovesInductive /\ [Moves!Next]_transferVars =>
        [\A p \in Subscriptions :
            profile[p].active /\ ~profile'[p].active => moved[p] > 0]_transferVars
  BY SwitchedOffLater
<1>. QED
  BY <1>1, <1>2, <1>3, <1>4, MovesSpec, PTL DEF Moves!Spec, Moves!transferVars, transferVars,
     TransfersSound, Moves!TransfersSound

-----------------------------------------------------------------------------
(***************************************************************************)
(* The free subscription, while claims and purchases come one after        *)
(* another.  Until the account has a link, a profile that was made carries *)
(* the marker it was made with, and no name before it is free; so a search *)
(* that starts at the first name meets it before a free one.  And whatever *)
(* a claim or a cache has seen of a profile, it has not become a paid and  *)
(* active one since.                                                       *)
(***************************************************************************)

ClaimRecord ==
    [step : {"idle", "resolve", "found", "refresh", "count", "search", "create", "readback",
             "attach", "done"},
     entry : Free!Entries, key : Free!Names \cup {Free!None}, info : Free!Snapshot,
     next : Nat, result : {"none", "granted", "already", "limited", "failed"}]

AccessTyped ==
    /\ panel \in [Free!Names -> Free!Profile]
    /\ links \subseteq Free!Names
    /\ primary \in Free!Names \cup {Free!None}
    /\ primary = Free!None <=> links = {}
    /\ cache \in [Free!Processes -> [Free!Names \cup {Free!None} -> SUBSET Free!Snapshot]]
    /\ made \subseteq Free!Names \X {"free", "android"}

Paid(n) == panel[n].plan = "pro" /\ panel[n].status = "active"

SeenPaid(s) == s.plan = "pro" /\ s.status = "active"

\* If the profile of snapshot s is paid and active, the snapshot shows it.
Current(s) == s.name \in Free!Names /\ Paid(s.name) => SeenPaid(s)

CacheRight ==
    \A p \in Free!Processes : \A k \in Free!Names \cup {Free!None} : \A s \in cache[p][k] :
        Current(s) /\ (k # Free!None => s.name = k)

TakenName(n) == panel[n].plan # "none"

MadeRight ==
    /\ \A x, y \in made : x[2] = y[2] => x = y
    /\ \A x \in made : \A i \in Free!Names : i <= x[1] => TakenName(i)
    /\ links = {} => \A x \in made : panel[x[1]].mark = x[2]

\* The names before the next one are taken, by none of this entry's profiles.
Passed(x) ==
    \A i \in Free!Names : i < x.next => TakenName(i) /\ <<i, Free!Marker(x.entry)>> \notin made

ClaimRight(x) ==
    /\ x.step = "resolve" => x.key = primary /\ (x.entry = "android" => x.next = 0)
    /\ x.step \in {"count", "search", "create", "readback"} => links = {}
    /\ x.step \in {"search", "create", "readback"} => Passed(x) /\ x.next <= MaxNames
    /\ x.step \in {"create", "readback"} => x.next \in Free!Names
    /\ x.step = "create" => ~TakenName(x.next)
    /\ x.step \in {"found", "refresh", "attach"} => x.info.name \in Free!Names
    /\ x.step \in {"found", "refresh"} => Current(x.info)
    /\ x.step = "refresh" => ~SeenPaid(x.info) /\ x.entry # "bot"
    /\ x.step = "refresh" /\ x.entry = "android" => links # {}

Resting(x) == x.step \in {"idle", "done"}

FreeInductive ==
    /\ AccessTyped
    /\ claim \in [Claims -> ClaimRecord]
    /\ CacheRight /\ MadeRight
    /\ \A c, d \in Claims : Resting(claim[c]) \/ Resting(claim[d]) \/ c = d
    /\ \A c \in Claims : ClaimRight(claim[c])

\* "No profile" is none of the names.
LEMMA NoneIsNoName == FreeSizes => Free!None \notin Free!Names
BY DEF FreeSizes, Free!None, Free!Names

\* Who rests has nothing to keep.
LEMMA RestingRight == ASSUME NEW x, Resting(x) PROVE ClaimRight(x)
BY DEF ClaimRight, Resting

\* Nobody has claimed; an older profile carries no marker.
LEMMA FreeBegins == FreeSizes /\ Free!Init => FreeInductive
<1>. SUFFICES ASSUME FreeSizes, Free!Init PROVE FreeInductive
  OBVIOUS
<1>1. PICK older \in Free!Legacy \cup {Free!NoProfile} :
        panel = [n \in Free!Names |-> IF n = MaxNames - 1 THEN older ELSE Free!NoProfile]
  BY DEF Free!Init
<1>2. older \in Free!Profile /\ Free!NoProfile \in Free!Profile
  <2>1. Free!NoProfile \in Free!Profile
    BY DEF Free!NoProfile, Free!Profile
  <2>2. Free!Legacy \subseteq Free!Profile
    BY DEF Free!Legacy, Free!Profile
  <2>. QED
    BY <2>1, <2>2
<1>3. PICK n : n = [step |-> "idle", entry |-> "bot", key |-> Free!None,
                    info |-> Free!NoSnapshot, next |-> 0, result |-> "none"]
  OBVIOUS
<1>4. Free!NoSnapshot \in Free!Snapshot
  BY DEF Free!NoSnapshot, Free!Snapshot
<1>5. n \in ClaimRecord /\ n.step = "idle"
  BY <1>3, <1>4 DEF ClaimRecord, Free!Entries
<1>6. claim = [c \in Claims |-> n]
  BY <1>3 DEF Free!Init
<1>7. AccessTyped
  BY <1>1, <1>2 DEF AccessTyped, Free!Init
<1>8. CacheRight /\ MadeRight
  BY DEF CacheRight, MadeRight, Free!Init
<1>. QED
  BY <1>5, <1>6, <1>7, <1>8, RestingRight DEF FreeInductive, Resting

\* One claim goes on as n; the others rest.
LEMMA ClaimMoves ==
    ASSUME FreeInductive, NEW c \in Claims, NEW n \in ClaimRecord,
           claim' = [claim EXCEPT ![c] = n],
           ~Resting(claim[c]) \/ \A d \in Claims : Resting(claim[d]),
           AccessTyped', CacheRight', MadeRight', ClaimRight(n)'
    PROVE  FreeInductive'
<1>1. /\ claim' \in [Claims -> ClaimRecord] /\ claim'[c] = n
      /\ \A d \in Claims : d # c => claim'[d] = claim[d] /\ Resting(claim'[d])
  BY DEF FreeInductive
<1>2. ASSUME NEW d \in Claims PROVE ClaimRight(claim[d])'
  <2>1. CASE d = c
    BY <1>1, <2>1 DEF ClaimRight, Passed, Current, Paid, TakenName
  <2>2. CASE d # c
    BY <1>1, <2>2 DEF ClaimRight, Resting
  <2>. QED
    BY <2>1, <2>2
<1>3. \A d, e \in Claims : Resting(claim'[d]) \/ Resting(claim'[e]) \/ d = e
  BY <1>1
<1>. QED
  BY <1>1, <1>2, <1>3 DEF FreeInductive, Resting

\* What was seen of a profile stays current as long as none becomes a paid one.
LEMMA StaysCurrent ==
    ASSUME \A n \in Free!Names : Paid(n)' => Paid(n), NEW s, Current(s)
    PROVE  Current(s)'
BY DEF Current

\* The caches, too.
LEMMA CacheStays ==
    ASSUME CacheRight, cache' = cache, \A n \in Free!Names : Paid(n)' => Paid(n)
    PROVE  CacheRight'
BY StaysCurrent DEF CacheRight

\* A step of a claim by which no profile and no link changes.
LEMMA ClaimOnly ==
    ASSUME FreeInductive, NEW c \in Claims, NEW n \in ClaimRecord,
           claim' = [claim EXCEPT ![c] = n],
           ~Resting(claim[c]) \/ \A d \in Claims : Resting(claim[d]),
           panel' = panel, links' = links, primary' = primary, made' = made,
           AccessTyped', CacheRight', ClaimRight(n)
    PROVE  FreeInductive'
<1>1. MadeRight'
  BY DEF FreeInductive, MadeRight, TakenName
<1>2. ClaimRight(n)'
  BY DEF ClaimRight, Passed, Current, Paid, TakenName
<1>. QED
  BY <1>1, <1>2, ClaimMoves

\* A claim that attaches profile i goes on, without searching, as n.
LEMMA AttachMoves ==
    ASSUME FreeSizes, FreeInductive, NEW c \in Claims, NEW n \in ClaimRecord, NEW i \in Free!Names,
           claim' = [claim EXCEPT ![c] = n], ~Resting(claim[c]),
           Free!Attach(i), panel' = panel, cache' = cache, made' = made,
           \/ Resting(n)
           \/ /\ n.step = "refresh" /\ n.entry # "bot"
              /\ n.info.name \in Free!Names /\ Current(n.info) /\ ~SeenPaid(n.info)
    PROVE  FreeInductive'
<1>1. links' = links \cup {i} /\ primary' = IF links = {} THEN i ELSE primary
  BY DEF Free!Attach
<1>2. AccessTyped'
  BY <1>1, NoneIsNoName DEF AccessTyped, FreeInductive
<1>3. MadeRight'
  BY <1>1 DEF FreeInductive, MadeRight, TakenName
<1>4. CacheRight'
  BY CacheStays DEF FreeInductive, Paid
<1>5. ClaimRight(n)'
  BY <1>1 DEF ClaimRight, Resting, Current, Paid
<1>. QED
  BY <1>2, <1>3, <1>4, <1>5, ClaimMoves

\* The instance counts like everybody else.
LEMMA FreeCounts == ASSUME NEW S PROVE Free!Cardinality(S) = Cardinality(S)
BY DEF Free!Cardinality, Cardinality

\* The links are names, of which there are finitely many.
LEMMA LinksCounted ==
    ASSUME FreeSizes, AccessTyped
    PROVE  Free!Cardinality(links) \in Nat /\ (links = {} => Free!Cardinality(links) = 0)
<1>1. IsFiniteSet(0..(MaxNames - 1))
  BY FS_Interval DEF FreeSizes
<1>2. IsFiniteSet(links)
  BY <1>1, FS_Subset DEF AccessTyped, Free!Names
<1>. QED
  BY <1>2, FS_CardinalityType, FS_EmptySet, FreeCounts

\* What an ended claim is.
LEMMA FinishedIs ==
    ASSUME FreeInductive, NEW c \in Claims,
           NEW result \in {"none", "granted", "already", "limited", "failed"},
           claim' = Free!Finished(c, result)
    PROVE  \E n \in ClaimRecord : Resting(n) /\ claim' = [claim EXCEPT ![c] = n]
<1>1. PICK n : n = [claim[c] EXCEPT !.step = "done", !.result = result]
  OBVIOUS
<1>2. n \in ClaimRecord /\ n.step = "done"
  BY <1>1 DEF FreeInductive, ClaimRecord
<1>3. claim' = [claim EXCEPT ![c] = n]
  BY <1>1 DEF FreeInductive, Free!Finished
<1>. QED
  BY <1>2, <1>3 DEF Resting

\* A claim begins with what it reads of the account.
LEMMA StartKeeps ==
    ASSUME FreeSizes, FreeInductive, NEW c \in Claims, NEW entry \in Free!Entries,
           Free!Start(c, entry)
    PROVE  FreeInductive'
<1>1. PICK n : n = [step |-> "resolve", entry |-> entry, key |-> primary,
                    info |-> Free!NoSnapshot, next |-> Free!Cardinality(links), result |-> "none"]
  OBVIOUS
<1>2. /\ claim' = [claim EXCEPT ![c] = n] /\ panel' = panel /\ links' = links
      /\ primary' = primary /\ cache' = cache /\ made' = made
      /\ Free!Working = {} /\ (entry = "android" => links = {})
  BY <1>1 DEF Free!Start
<1>3. Free!NoSnapshot \in Free!Snapshot
  BY DEF Free!NoSnapshot, Free!Snapshot
<1>4. AccessTyped
  BY DEF FreeInductive
<1>5. n \in ClaimRecord
  BY <1>1, <1>3, <1>4, LinksCounted DEF ClaimRecord, AccessTyped
<1>6. \A d \in Claims : Resting(claim[d])
  BY <1>2 DEF Free!Working, Resting
<1>7. ClaimRight(n)
  BY <1>1, <1>2, <1>4, LinksCounted DEF ClaimRight
<1>8. AccessTyped' /\ CacheRight'
  BY <1>2 DEF FreeInductive, AccessTyped, CacheRight, Current, Paid
<1>. QED
  BY <1>2, <1>5, <1>6, <1>7, <1>8, ClaimOnly

\* The answer of a lookup, from the panel or from the cache.
LEMMA AnswersRight ==
    ASSUME FreeSizes, FreeInductive, NEW k \in Free!Names \cup {Free!None},
           NEW p \in Free!Processes,
           NEW s \in IF cache[p][k] = {} THEN Free!Lookup(k) ELSE cache[p][k]
    PROVE  s \in Free!Snapshot /\ Current(s) /\ (k # Free!None => s.name = k)
<1>1. CASE cache[p][k] # {}
  BY <1>1 DEF FreeInductive, AccessTyped, CacheRight
<1>2. CASE cache[p][k] = {}
  <2>1. CASE s = Free!NoSnapshot /\ k = Free!None
    BY <2>1, NoneIsNoName DEF Free!NoSnapshot, Free!Snapshot, Current
  <2>2. CASE \E n \in Free!Names :
               /\ s = [name |-> n, plan |-> panel[n].plan, status |-> panel[n].status]
               /\ k # Free!None => n = k
    BY <2>2 DEF Free!Snapshot, Current, Paid, SeenPaid, FreeInductive, AccessTyped, Free!Profile
  <2>. QED
    BY <1>2, <2>1, <2>2 DEF Free!Lookup
<1>. QED
  BY <1>1, <1>2

\* A claim takes the answer, and the cache keeps it.
LEMMA ResolveKeeps ==
    ASSUME FreeSizes, FreeInductive, NEW c \in Claims, Free!Resolve(c)
    PROVE  FreeInductive'
<1>1. PICK k, p : k = claim[c].key /\ p = Free!Process(claim[c].entry)
  OBVIOUS
<1>2. claim[c] \in ClaimRecord /\ k \in Free!Names \cup {Free!None} /\ p \in Free!Processes
  BY <1>1 DEF FreeInductive, ClaimRecord, Free!Process, Free!Processes
<1>3. PICK s \in IF cache[p][k] = {} THEN Free!Lookup(k) ELSE cache[p][k] :
        /\ cache' = [cache EXCEPT ![p][k] = {s}]
        /\ claim' = [claim EXCEPT ![c].info = s,
                       ![c].step = IF s.name # Free!None THEN "found"
                                   ELSE IF claim[c].entry = "android" THEN "search" ELSE "count"]
  BY <1>1 DEF Free!Resolve
<1>4. s \in Free!Snapshot /\ Current(s) /\ (k # Free!None => s.name = k)
  BY <1>2, AnswersRight
<1>5. /\ claim[c].step = "resolve" /\ panel' = panel /\ links' = links
      /\ primary' = primary /\ made' = made
  BY DEF Free!Resolve
<1>6. PICK n : n = [claim[c] EXCEPT !.info = s,
                      !.step = IF s.name # Free!None THEN "found"
                               ELSE IF claim[c].entry = "android" THEN "search" ELSE "count"]
  OBVIOUS
<1>7. /\ n \in ClaimRecord /\ n.info = s /\ n.entry = claim[c].entry /\ n.next = claim[c].next
      /\ n.step = IF s.name # Free!None THEN "found"
                  ELSE IF claim[c].entry = "android" THEN "search" ELSE "count"
  BY <1>2, <1>4, <1>6 DEF ClaimRecord
<1>8. claim' = [claim EXCEPT ![c] = n]
  BY <1>3, <1>6 DEF FreeInductive
<1>9. claim[c].key = primary /\ (claim[c].entry = "android" => claim[c].next = 0)
  BY <1>5 DEF FreeInductive, ClaimRight
<1>10. s.name = Free!None => links = {}
  BY <1>1, <1>4, <1>9, NoneIsNoName DEF FreeInductive, AccessTyped
<1>11. n.step = "search" => Passed(n) /\ n.next <= MaxNames
  BY <1>7, <1>9 DEF Passed, Free!Names, FreeSizes
<1>12. n.step = "found" => s.name \in Free!Names
  BY <1>4, <1>7 DEF Free!Snapshot
<1>13. ClaimRight(n)
  BY <1>4, <1>7, <1>10, <1>11, <1>12 DEF ClaimRight
<1>14. cache' \in [Free!Processes -> [Free!Names \cup {Free!None} -> SUBSET Free!Snapshot]]
       /\ cache'[p][k] = {s}
       /\ \A q \in Free!Processes : \A j \in Free!Names \cup {Free!None} :
            cache'[q][j] = cache[q][j] \/ (q = p /\ j = k)
  BY <1>2, <1>3, <1>4 DEF FreeInductive, AccessTyped
<1>15. AccessTyped'
  BY <1>5, <1>14 DEF FreeInductive, AccessTyped
<1>16. CacheRight'
  BY <1>4, <1>5, <1>14 DEF FreeInductive, CacheRight, Current, Paid
<1>. QED
  BY <1>5, <1>7, <1>8, <1>13, <1>15, <1>16, ClaimOnly DEF Resting

\* The lookup raises.
LEMMA ResolveFailsKeeps ==
    ASSUME FreeSizes, FreeInductive, NEW c \in Claims, Free!ResolveFails(c)
    PROVE  FreeInductive'
<1>1. PICK n \in ClaimRecord : Resting(n) /\ claim' = [claim EXCEPT ![c] = n]
  BY FinishedIs DEF Free!ResolveFails
<1>2. /\ ~Resting(claim[c]) /\ panel' = panel /\ links' = links /\ primary' = primary
      /\ cache' = cache /\ made' = made
  BY DEF Free!ResolveFails, Resting
<1>3. AccessTyped' /\ CacheRight'
  BY <1>2 DEF FreeInductive, AccessTyped, CacheRight, Current, Paid
<1>. QED
  BY <1>1, <1>2, <1>3, RestingRight, ClaimOnly

\* What a claim has found, it attaches, leaves alone or refreshes.
LEMMA FoundKeeps ==
    ASSUME FreeSizes, FreeInductive, NEW c \in Claims,
           Free!BotFound(c) \/ Free!MiniappFound(c) \/ Free!AndroidFound(c)
    PROVE  FreeInductive'
<1>0. PICK s : s = claim[c].info
  OBVIOUS
<1>1. /\ claim[c].step = "found" /\ claim[c] \in ClaimRecord /\ ClaimRight(claim[c])
      /\ panel' = panel /\ cache' = cache /\ made' = made
  BY DEF FreeInductive, Free!BotFound, Free!MiniappFound, Free!AndroidFound
<1>2. /\ s.name \in Free!Names /\ Current(s) /\ s \in Free!Snapshot /\ ~Resting(claim[c])
  BY <1>0, <1>1 DEF ClaimRight, ClaimRecord, Resting
<1>3. ASSUME NEW result \in {"none", "granted", "already", "limited", "failed"},
             claim' = Free!Finished(c, result), Free!Attach(s.name)
      PROVE  FreeInductive'
  <2>1. PICK n \in ClaimRecord : Resting(n) /\ claim' = [claim EXCEPT ![c] = n]
    BY <1>3, FinishedIs
  <2>2. Free!Attach(s.name) /\ s.name \in Free!Names /\ ~Resting(claim[c])
    BY <1>2, <1>3
  <2>3. panel' = panel /\ cache' = cache /\ made' = made
    BY <1>1
  <2>. QED
    BY <2>1, <2>2, <2>3, AttachMoves
<1>4. PICK n : n = [claim[c] EXCEPT !.step = "refresh"]
  OBVIOUS
<1>5. n \in ClaimRecord /\ n.step = "refresh" /\ n.info = s /\ n.entry = claim[c].entry
  BY <1>0, <1>1, <1>4 DEF ClaimRecord
<1>6. ASSUME ~SeenPaid(s), n.entry = "miniapp" PROVE ClaimRight(n)
  BY <1>2, <1>5, <1>6 DEF ClaimRight
<1>7. CASE Free!BotFound(c)
  <2>1. s.status \in {"active", "limited", "expired"}
    BY <1>2 DEF Free!Snapshot
  <2>2. \E result \in {"none", "granted", "already", "limited", "failed"} :
          claim' = Free!Finished(c, result)
    BY <1>0, <1>7, <2>1 DEF Free!BotFound
  <2>. QED
    BY <1>0, <1>3, <1>7, <2>2 DEF Free!BotFound
<1>8. CASE Free!MiniappFound(c)
  <2>1. CASE Free!HasAccess(s)
    BY <1>0, <1>3, <1>8, <2>1 DEF Free!MiniappFound
  <2>2. CASE ~Free!HasAccess(s)
    <3>1. /\ claim' = [claim EXCEPT ![c] = n] /\ links' = links /\ primary' = primary
          /\ n.entry = "miniapp" /\ ~SeenPaid(s)
      BY <1>0, <1>4, <1>5, <1>8, <2>2 DEF Free!MiniappFound, FreeInductive, Free!HasAccess, SeenPaid
    <3>2. AccessTyped' /\ CacheRight'
      BY <1>1, <3>1 DEF FreeInductive, AccessTyped, CacheRight, Current, Paid
    <3>. QED
      BY <1>1, <1>2, <1>5, <1>6, <3>1, <3>2, ClaimOnly
  <2>. QED
    BY <2>1, <2>2
<1>9. CASE Free!AndroidFound(c)
  <2>1. CASE s.status = "active"
    BY <1>0, <1>3, <1>9, <2>1 DEF Free!AndroidFound
  <2>2. CASE s.status # "active"
    <3>1. claim' = [claim EXCEPT ![c] = n] /\ n.entry # "bot" /\ ~SeenPaid(s)
      BY <1>0, <1>4, <1>5, <1>9, <2>2 DEF Free!AndroidFound, FreeInductive, SeenPaid
    <3>2. Free!Attach(s.name)
      BY <1>0, <1>9 DEF Free!AndroidFound
    <3>. QED
      BY <1>1, <1>2, <1>5, <3>1, <3>2, AttachMoves
  <2>. QED
    BY <2>1, <2>2
<1>. QED
  BY <1>7, <1>8, <1>9

\* A refresh makes free what was not a paid and active one.
LEMMA RefreshKeeps ==
    ASSUME FreeSizes, FreeInductive, NEW c \in Claims, NEW outcome \in {"ok", "lost", "refused"},
           Free!Refresh(c, outcome)
    PROVE  /\ FreeInductive'
           /\ \A n \in Free!Names : Paid(n) => panel'[n].plan = "pro"
<1>0. PICK i : i = claim[c].info.name
  OBVIOUS
<1>1. /\ claim[c].step = "refresh" /\ claim[c] \in ClaimRecord /\ ~Resting(claim[c])
      /\ i \in Free!Names /\ ~Paid(i) /\ claim[c].entry \in {"miniapp", "android"}
      /\ links' = links /\ primary' = primary /\ cache' = cache /\ made' = made
  BY <1>0 DEF FreeInductive, Free!Refresh, ClaimRight, Current, ClaimRecord, Resting, Free!Entries
<1>2. PICK w \in Free!Profile :
        /\ panel' = [panel EXCEPT ![i] = w]
        /\ w = panel[i] \/ w.plan = "free"
        /\ w.mark = panel[i].mark \/ claim[c].entry = "android"
  <2>1. panel \in [Free!Names -> Free!Profile] /\ panel[i] \in Free!Profile
    BY <1>1 DEF FreeInductive, AccessTyped
  <2>2. CASE outcome = "refused"
    BY <1>0, <1>1, <2>1, <2>2 DEF Free!Refresh
  <2>3. CASE outcome # "refused"
    <3>1. PICK w : w = [panel[i] EXCEPT !.plan = "free", !.status = "active",
                          !.mark = IF claim[c].entry = "android" THEN "none" ELSE panel[i].mark]
      OBVIOUS
    <3>2. /\ w \in Free!Profile /\ w.plan = "free"
          /\ w.mark = panel[i].mark \/ claim[c].entry = "android"
      BY <2>1, <3>1 DEF Free!Profile
    <3>3. panel' = [panel EXCEPT ![i] = w]
      BY <1>0, <1>1, <2>1, <2>3, <3>1 DEF Free!Refresh
    <3>. QED
      BY <3>2, <3>3
  <2>. QED
    BY <2>2, <2>3
<1>3. PICK n \in ClaimRecord :
        claim' = [claim EXCEPT ![c] = n] /\ (Resting(n) \/ (n.step = "attach" /\ n.info.name = i))
  <2>1. CASE outcome # "ok"
    <3>1. claim' = Free!Finished(c, "failed")
      BY <2>1 DEF Free!Refresh
    <3>2. PICK x \in ClaimRecord : Resting(x) /\ claim' = [claim EXCEPT ![c] = x]
      BY <3>1, FinishedIs
    <3>. QED
      BY <3>2
  <2>2. CASE outcome = "ok" /\ claim[c].entry = "android"
    <3>1. claim' = Free!Finished(c, "granted")
      BY <2>2 DEF Free!Refresh
    <3>2. PICK x \in ClaimRecord : Resting(x) /\ claim' = [claim EXCEPT ![c] = x]
      BY <3>1, FinishedIs
    <3>. QED
      BY <3>2
  <2>3. CASE outcome = "ok" /\ claim[c].entry = "miniapp"
    <3>1. PICK n : n = [claim[c] EXCEPT !.step = "attach"]
      OBVIOUS
    <3>2. n \in ClaimRecord /\ n.step = "attach" /\ n.info.name = i
      BY <1>0, <1>1, <3>1 DEF ClaimRecord
    <3>3. claim' = [claim EXCEPT ![c] = n]
      BY <2>3, <3>1 DEF Free!Refresh, FreeInductive
    <3>. QED
      BY <3>2, <3>3
  <2>. QED
    BY <1>1, <2>1, <2>2, <2>3
<1>4. /\ panel' \in [Free!Names -> Free!Profile] /\ panel'[i] = w
      /\ \A j \in Free!Names : j # i => panel'[j] = panel[j]
  BY <1>1, <1>2 DEF FreeInductive, AccessTyped
<1>5. \A j \in Free!Names : Paid(j)' => Paid(j)
  BY <1>1, <1>2, <1>4 DEF Paid
<1>6. AccessTyped' /\ CacheRight'
  BY <1>1, <1>4, <1>5, CacheStays DEF FreeInductive, AccessTyped
<1>7. MadeRight'
  <2>1. \A j \in Free!Names : TakenName(j) => TakenName(j)'
    BY <1>2, <1>4 DEF TakenName
  <2>2. links = {} => \A j \in Free!Names : panel'[j].mark = panel[j].mark
    BY <1>1, <1>2, <1>4 DEF FreeInductive, ClaimRight
  <2>3. \A x \in made : x[1] \in Free!Names
    BY DEF FreeInductive, AccessTyped
  <2>. QED
    BY <1>1, <2>1, <2>2, <2>3 DEF FreeInductive, MadeRight
<1>8. ClaimRight(n)'
  BY <1>1, <1>3 DEF ClaimRight, Resting
<1>9. \A j \in Free!Names : Paid(j) => panel'[j].plan = "pro"
  BY <1>1, <1>4 DEF Paid
<1>. QED
  BY <1>1, <1>3, <1>6, <1>7, <1>8, <1>9, ClaimMoves

\* The count of the links, which are none.
LEMMA CountKeeps ==
    ASSUME FreeSizes, FreeInductive, NEW c \in Claims, Free!Count(c)
    PROVE  FreeInductive'
<1>1. PICK n : n = [claim[c] EXCEPT !.step = "search", !.next = Free!Cardinality(links)]
  OBVIOUS
<1>2. /\ claim[c].step = "count" /\ claim[c] \in ClaimRecord /\ links = {}
      /\ claim' = [claim EXCEPT ![c] = n] /\ panel' = panel /\ links' = links
      /\ primary' = primary /\ cache' = cache /\ made' = made
  BY <1>1 DEF Free!Count, FreeInductive, ClaimRight
<1>3. n.step = "search" /\ n.next = 0 /\ n \in ClaimRecord
  BY <1>1, <1>2, LinksCounted DEF FreeInductive, ClaimRecord
<1>4. ClaimRight(n)
  BY <1>2, <1>3 DEF ClaimRight, Passed, Free!Names, FreeSizes
<1>5. AccessTyped' /\ CacheRight'
  BY <1>2 DEF FreeInductive, AccessTyped, CacheRight, Current, Paid
<1>. QED
  BY <1>2, <1>3, <1>4, <1>5, ClaimOnly DEF Resting

\* At a name: a free one ends the search or makes it create; its own one is attached; past
\* another's it goes on.
LEMMA AtNameKeeps ==
    ASSUME FreeSizes, FreeInductive, NEW c \in Claims, NEW free,
           claim[c].step \in {"search", "readback"}, claim[c].next \in Free!Names,
           Free!AtName(c, free),
           ~TakenName(claim[c].next) =>
             \E n \in ClaimRecord :
                /\ free = [claim EXCEPT ![c] = n]
                /\ Resting(n) \/ n = [claim[c] EXCEPT !.step = "create"],
           panel' = panel, links' = links, primary' = primary, cache' = cache, made' = made
    PROVE  FreeInductive'
<1>0. PICK i, x : i = claim[c].next /\ x = claim[c]
  OBVIOUS
<1>1. /\ x \in ClaimRecord /\ ClaimRight(x) /\ ~Resting(x) /\ links = {} /\ Passed(x)
      /\ i \in Free!Names /\ i \in Nat
  BY <1>0 DEF FreeInductive, ClaimRight, Resting, ClaimRecord
<1>2. AccessTyped' /\ CacheRight'
  BY DEF FreeInductive, AccessTyped, CacheRight, Current, Paid
<1>3. CASE ~TakenName(i)
  <2>1. PICK n \in ClaimRecord :
          /\ free = [claim EXCEPT ![c] = n]
          /\ Resting(n) \/ n = [claim[c] EXCEPT !.step = "create"]
    BY <1>0, <1>3
  <2>2. claim' = [claim EXCEPT ![c] = n]
    BY <1>0, <1>3, <2>1 DEF Free!AtName, TakenName
  <2>3. ClaimRight(n)
    <3>1. CASE Resting(n)
      BY <3>1, RestingRight
    <3>2. CASE n = [x EXCEPT !.step = "create"]
      <4>1. n.next = i /\ n.entry = x.entry /\ n.step = "create"
        BY <1>0, <1>1, <3>2 DEF ClaimRecord
      <4>. QED
        BY <1>0, <1>1, <1>3, <3>2, <4>1 DEF ClaimRight, Passed
    <3>. QED
      BY <1>0, <2>1, <3>1, <3>2
  <2>. QED
    BY <1>0, <1>1, <1>2, <2>2, <2>3, ClaimOnly
<1>4. CASE TakenName(i) /\ Free!Own(c, i)
  <2>1. PICK n : n = [x EXCEPT !.step = "attach", !.info.name = i]
    OBVIOUS
  <2>2. claim' = [claim EXCEPT ![c] = n]
    <3>1. claim' = [claim EXCEPT ![c].step = "attach", ![c].info.name = i]
      BY <1>0, <1>4 DEF Free!AtName, TakenName
    <3>. QED
      BY <1>0, <1>1, <2>1, <3>1 DEF FreeInductive, ClaimRecord, Free!Snapshot
  <2>3. n \in ClaimRecord /\ n.step = "attach" /\ n.info.name = i
    BY <1>1, <2>1 DEF ClaimRecord, Free!Snapshot
  <2>4. ClaimRight(n)
    BY <1>1, <2>3 DEF ClaimRight
  <2>. QED
    BY <1>0, <1>1, <1>2, <2>2, <2>3, <2>4, ClaimOnly
<1>5. CASE TakenName(i) /\ ~Free!Own(c, i)
  <2>1. PICK n : n = [x EXCEPT !.step = "search", !.next = i + 1]
    OBVIOUS
  <2>2. claim' = [claim EXCEPT ![c] = n]
    BY <1>0, <1>5, <2>1 DEF Free!AtName, TakenName, FreeInductive
  <2>3. n \in ClaimRecord /\ n.step = "search" /\ n.next = i + 1 /\ n.entry = x.entry
    <3>1. i + 1 \in Nat
      BY <1>1
    <3>. QED
      BY <1>1, <2>1, <3>1 DEF ClaimRecord
  <2>7. n.next <= MaxNames
    BY <1>1, <2>3 DEF Free!Names, FreeSizes
  <2>4. <<i, Free!Marker(x.entry)>> \notin made
    BY <1>0, <1>1, <1>5 DEF FreeInductive, MadeRight, Free!Own
  <2>5. ASSUME NEW j \in Free!Names, j < n.next
        PROVE  TakenName(j) /\ <<j, Free!Marker(n.entry)>> \notin made
    <3>1. j \in Int
      BY DEF Free!Names
    <3>2. j = i \/ j < i
      BY <1>1, <2>3, <2>5, <3>1
    <3>. QED
      BY <1>0, <1>1, <1>5, <2>3, <2>4, <3>2 DEF Passed
  <2>6. ClaimRight(n)
    BY <1>1, <2>3, <2>5, <2>7 DEF ClaimRight, Passed
  <2>. QED
    BY <1>0, <1>1, <1>2, <2>2, <2>3, <2>6, ClaimOnly
<1>. QED
  BY <1>3, <1>4, <1>5

\* The search looks at one name.
LEMMA SearchKeeps ==
    ASSUME FreeSizes, FreeInductive, NEW c \in Claims, Free!Search(c)
    PROVE  FreeInductive'
<1>1. /\ claim[c].step = "search" /\ claim[c] \in ClaimRecord /\ ~Resting(claim[c])
      /\ panel' = panel /\ links' = links /\ primary' = primary /\ cache' = cache /\ made' = made
  BY DEF FreeInductive, Free!Search, Resting
<1>2. AccessTyped' /\ CacheRight'
  BY <1>1 DEF FreeInductive, AccessTyped, CacheRight, Current, Paid
<1>3. CASE claim[c].next = MaxNames
  <2>1. claim' = Free!Finished(c, "failed")
    BY <1>3 DEF Free!Search
  <2>2. PICK n \in ClaimRecord : Resting(n) /\ claim' = [claim EXCEPT ![c] = n]
    BY <2>1, FinishedIs
  <2>. QED
    BY <1>1, <1>2, <2>2, RestingRight, ClaimOnly
<1>4. CASE claim[c].next # MaxNames
  <2>1. claim[c].next \in Free!Names
    BY <1>1, <1>4 DEF ClaimRecord, FreeInductive, ClaimRight, Free!Names, FreeSizes
  <2>2. PICK n : n = [claim[c] EXCEPT !.step = "create"]
    OBVIOUS
  <2>3. n \in ClaimRecord
    BY <1>1, <2>2 DEF ClaimRecord
  <2>4. [claim EXCEPT ![c].step = "create"] = [claim EXCEPT ![c] = n]
    BY <2>2 DEF FreeInductive
  <2>5. Free!AtName(c, [claim EXCEPT ![c].step = "create"])
    BY <1>4 DEF Free!Search
  <2>. QED
    BY <1>1, <2>1, <2>2, <2>3, <2>4, <2>5, AtNameKeeps
<1>. QED
  BY <1>3, <1>4

\* A name that could not be created is looked at once more.
LEMMA ReadBackKeeps ==
    ASSUME FreeSizes, FreeInductive, NEW c \in Claims, Free!ReadBack(c)
    PROVE  FreeInductive'
<1>1. PICK n : n = [claim[c] EXCEPT !.step = "done", !.result = "failed"]
  OBVIOUS
<1>2. /\ claim[c].step = "readback" /\ claim[c] \in ClaimRecord /\ claim[c].next \in Free!Names
      /\ Free!AtName(c, Free!Finished(c, "failed"))
      /\ panel' = panel /\ links' = links /\ primary' = primary /\ cache' = cache /\ made' = made
  BY DEF FreeInductive, ClaimRight, Free!ReadBack
<1>3. n \in ClaimRecord /\ Resting(n)
  BY <1>1, <1>2 DEF ClaimRecord, Resting
<1>4. Free!Finished(c, "failed") = [claim EXCEPT ![c] = n]
  BY <1>1 DEF FreeInductive, Free!Finished
<1>. QED
  BY <1>2, <1>3, <1>4, AtNameKeeps

\* A profile is made under the first free name, past all that this entry has made.
LEMMA CreateKeeps ==
    ASSUME FreeSizes, FreeInductive, NEW c \in Claims, NEW outcome \in {"ok", "lost", "refused"},
           Free!Create(c, outcome)
    PROVE  /\ FreeInductive'
           /\ \A n \in Free!Names : Paid(n) => panel'[n].plan = "pro"
<1>0. PICK i, m : i = claim[c].next /\ m = Free!Marker(claim[c].entry)
  OBVIOUS
<1>1. /\ claim[c].step = "create" /\ claim[c] \in ClaimRecord /\ ~Resting(claim[c])
      /\ i \in Free!Names /\ ~TakenName(i) /\ links = {} /\ Passed(claim[c])
      /\ i <= MaxNames
      /\ links' = links /\ primary' = primary /\ cache' = cache
  BY <1>0 DEF FreeInductive, Free!Create, ClaimRight, Resting
<1>2. m \in {"free", "android"}
  BY <1>0 DEF Free!Marker
<1>3. PICK n \in ClaimRecord :
        /\ claim' = [claim EXCEPT ![c] = n]
        /\ \/ Resting(n)
           \/ n = [claim[c] EXCEPT !.step = "readback"]
  <2>1. CASE claim[c].entry = "android" /\ outcome # "ok"
    <3>1. claim' = Free!Finished(c, "failed")
      BY <2>1 DEF Free!Create
    <3>. QED
      BY <3>1, FinishedIs
  <2>2. CASE ~(claim[c].entry = "android" /\ outcome # "ok")
    <3>1. PICK n : n = [claim[c] EXCEPT !.step = "readback"]
      OBVIOUS
    <3>2. n \in ClaimRecord
      BY <1>1, <3>1 DEF ClaimRecord
    <3>3. claim' = [claim EXCEPT ![c] = n]
      BY <2>2, <3>1 DEF Free!Create, FreeInductive
    <3>. QED
      BY <3>1, <3>2, <3>3
  <2>. QED
    BY <2>1, <2>2
<1>4. PICK w \in Free!Profile :
        \/ panel' = panel /\ made' = made
        \/ /\ panel' = [panel EXCEPT ![i] = w] /\ made' = made \cup {<<i, m>>}
           /\ w.plan = "free" /\ w.mark = m
  <2>1. PICK w : w = [plan |-> "free", status |-> "active", mark |-> m,
                      mail |-> claim[c].entry = "android"]
    OBVIOUS
  <2>2. w \in Free!Profile
    BY <1>2, <2>1 DEF Free!Profile
  <2>3. panel \in [Free!Names -> Free!Profile]
    BY DEF FreeInductive, AccessTyped
  <2>. QED
    BY <1>0, <2>1, <2>2, <2>3 DEF Free!Create
<1>5. CASE panel' = panel /\ made' = made
  <2>1. AccessTyped' /\ CacheRight'
    BY <1>1, <1>5 DEF FreeInductive, AccessTyped, CacheRight, Current, Paid
  <2>2. ClaimRight(n)
    BY <1>0, <1>1, <1>3 DEF ClaimRight, Resting, Passed, ClaimRecord
  <2>. QED
    BY <1>1, <1>3, <1>5, <2>1, <2>2, ClaimOnly DEF FreeInductive, AccessTyped, Paid
<1>6. CASE /\ panel' = [panel EXCEPT ![i] = w] /\ made' = made \cup {<<i, m>>}
           /\ w.plan = "free" /\ w.mark = m
  <2>1. /\ panel' \in [Free!Names -> Free!Profile] /\ panel'[i] = w
        /\ \A j \in Free!Names : j # i => panel'[j] = panel[j]
    BY <1>1, <1>6 DEF FreeInductive, AccessTyped
  <2>2. \A j \in Free!Names : Paid(j)' => Paid(j)
    BY <1>1, <1>6, <2>1 DEF Paid
  <2>3. AccessTyped' /\ CacheRight'
    <3>1. made' \subseteq Free!Names \X {"free", "android"}
      BY <1>1, <1>2, <1>6 DEF FreeInductive, AccessTyped
    <3>2. AccessTyped'
      BY <1>1, <2>1, <3>1 DEF FreeInductive, AccessTyped
    <3>3. CacheRight'
      BY <1>1, <2>2, CacheStays DEF FreeInductive
    <3>. QED
      BY <3>2, <3>3
  <2>4. \A j \in Free!Names : TakenName(j)' <=> TakenName(j) \/ j = i
    BY <1>1, <1>6, <2>1 DEF TakenName
  <2>5. \A x \in made : x[1] \in Free!Names /\ x[1] \in Int /\ x = <<x[1], x[2]>>
    BY DEF FreeInductive, AccessTyped, Free!Names
  <2>6. ASSUME NEW x \in made PROVE x[1] < i /\ x[2] # m
    <3>1. ~(i <= x[1])
      BY <1>1, <2>5 DEF FreeInductive, MadeRight
    <3>2. x[1] < i
      BY <1>1, <2>5, <3>1 DEF Free!Names
    <3>. QED
      BY <1>0, <1>1, <2>5, <3>2 DEF Passed
  <2>7. \A j \in Free!Names : j <= i => TakenName(j)'
    <3>1. \A j \in Free!Names : j <= i => j < i \/ j = i
      BY <1>1 DEF Free!Names
    <3>. QED
      BY <1>0, <1>1, <2>4, <3>1 DEF Passed
  <2>8. MadeRight'
    <3>1. \A x, y \in made' : x[2] = y[2] => x = y
      BY <1>6, <2>6 DEF FreeInductive, MadeRight
    <3>2. ASSUME NEW x \in made', NEW j \in Free!Names, j <= x[1] PROVE TakenName(j)'
      BY <1>6, <2>4, <2>7, <3>2 DEF FreeInductive, MadeRight
    <3>3. \A x \in made' : panel'[x[1]].mark = x[2]
      BY <1>1, <1>6, <2>1, <2>5, <2>6 DEF FreeInductive, MadeRight
    <3>. QED
      BY <3>1, <3>2, <3>3 DEF MadeRight
  <2>9. ClaimRight(n)'
    <3>1. CASE Resting(n)
      BY <3>1 DEF ClaimRight, Resting
    <3>2. CASE n = [claim[c] EXCEPT !.step = "readback"]
      <4>1. n.step = "readback" /\ n.next = i /\ n.entry = claim[c].entry
        BY <1>0, <1>1, <3>2 DEF ClaimRecord
      <4>2. ASSUME NEW j \in Free!Names, j < i
            PROVE  TakenName(j)' /\ <<j, m>> \notin made'
        <5>1. j # i
          BY <4>2 DEF Free!Names
        <5>. QED
          BY <1>0, <1>1, <1>6, <2>4, <4>2, <5>1 DEF Passed
      <4>. QED
        BY <1>0, <1>1, <4>1, <4>2 DEF ClaimRight, Passed
    <3>. QED
      BY <1>3, <3>1, <3>2
  <2>10. \A j \in Free!Names : Paid(j) => panel'[j].plan = "pro"
    BY <1>1, <2>1 DEF Paid, TakenName
  <2>. QED
    BY <1>1, <1>3, <2>3, <2>8, <2>9, <2>10, ClaimMoves
<1>. QED
  BY <1>4, <1>5, <1>6

\* The profile that was made, refreshed or recognised is attached.
LEMMA AttachKeeps ==
    ASSUME FreeSizes, FreeInductive, NEW c \in Claims, Free!AttachClaimed(c)
    PROVE  FreeInductive'
<1>1. /\ claim[c].step = "attach" /\ claim[c].info.name \in Free!Names /\ ~Resting(claim[c])
      /\ Free!Attach(claim[c].info.name) /\ panel' = panel /\ cache' = cache /\ made' = made
      /\ claim' = Free!Finished(c, "granted")
  BY DEF FreeInductive, ClaimRight, Free!AttachClaimed, Resting
<1>2. PICK n \in ClaimRecord : Resting(n) /\ claim' = [claim EXCEPT ![c] = n]
  BY <1>1, FinishedIs
<1>. QED
  BY <1>1, <1>2, AttachMoves

\* A process loses its claims and its cache.
LEMMA RestartKeeps ==
    ASSUME FreeSizes, FreeInductive, NEW p \in Free!Processes, Free!Restart(p)
    PROVE  FreeInductive'
<1>1. /\ panel' = panel /\ links' = links /\ primary' = primary /\ made' = made
      /\ cache' = [cache EXCEPT ![p] = [k \in Free!Names \cup {Free!None} |-> {}]]
  BY DEF Free!Restart
<1>2. ASSUME NEW c \in Claims
      PROVE  claim'[c] = claim[c] \/ (claim'[c] \in ClaimRecord /\ Resting(claim'[c]))
  <2>1. PICK n : n = [claim[c] EXCEPT !.step = "done", !.result = "failed"]
    OBVIOUS
  <2>2. n \in ClaimRecord /\ Resting(n)
    BY <2>1 DEF FreeInductive, ClaimRecord, Resting
  <2>. QED
    BY <2>1, <2>2 DEF Free!Restart
<1>3. claim' \in [Claims -> ClaimRecord]
  BY <1>2 DEF FreeInductive, Free!Restart
<1>4. AccessTyped'
  BY <1>1 DEF FreeInductive, AccessTyped
<1>5. CacheRight'
  BY <1>1 DEF FreeInductive, AccessTyped, CacheRight, Current, Paid
<1>6. MadeRight'
  BY <1>1 DEF FreeInductive, MadeRight, TakenName
<1>7. \A c \in Claims : ClaimRight(claim[c])'
  BY <1>1, <1>2, RestingRight
     DEF FreeInductive, ClaimRight, Passed, Current, Paid, TakenName, Resting
<1>8. \A c, d \in Claims : Resting(claim'[c]) \/ Resting(claim'[d]) \/ c = d
  BY <1>2 DEF FreeInductive
<1>. QED
  BY <1>3, <1>4, <1>5, <1>6, <1>7, <1>8 DEF FreeInductive, Resting

\* An answer leaves the cache.
LEMMA CacheExpiresKeeps ==
    ASSUME FreeSizes, FreeInductive, NEW p \in Free!Processes,
           NEW k \in Free!Names \cup {Free!None}, Free!CacheExpires(p, k)
    PROVE  FreeInductive'
<1>1. /\ panel' = panel /\ links' = links /\ primary' = primary /\ made' = made
      /\ claim' = claim /\ cache' = [cache EXCEPT ![p][k] = {}]
  BY DEF Free!CacheExpires
<1>2. AccessTyped'
  BY <1>1 DEF FreeInductive, AccessTyped
<1>3. CacheRight'
  BY <1>1 DEF FreeInductive, AccessTyped, CacheRight, Current, Paid
<1>. QED
  BY <1>1, <1>2, <1>3 DEF FreeInductive, MadeRight, ClaimRight, Passed, Current, Paid, TakenName

\* A purchase meets no claim under way and no cached answer.
LEMMA PaidDeliveryKeeps ==
    ASSUME FreeSizes, FreeInductive, Free!PaidDelivery
    PROVE  /\ FreeInductive'
           /\ \A n \in Free!Names : Paid(n) => panel'[n].plan = "pro"
<1>1. /\ \A c \in Claims : Resting(claim[c])
      /\ \A p \in Free!Processes : \A k \in Free!Names \cup {Free!None} : cache[p][k] = {}
      /\ claim' = claim /\ cache' = cache /\ made' = made
  BY DEF Free!PaidDelivery, Free!Working, Resting
<1>2. PICK i \in Free!Names :
        /\ panel' = [panel EXCEPT ![i].plan = "pro", ![i].status = "active", ![i].mark = "paid"]
        /\ Free!Attach(i)
  BY DEF Free!PaidDelivery, FreeInductive, AccessTyped
<1>3. PICK w : w = [panel[i] EXCEPT !.plan = "pro", !.status = "active", !.mark = "paid"]
  OBVIOUS
<1>4. w \in Free!Profile /\ w.plan = "pro"
  BY <1>3 DEF FreeInductive, AccessTyped, Free!Profile
<1>5. panel' = [panel EXCEPT ![i] = w]
  BY <1>2, <1>3 DEF FreeInductive, AccessTyped, Free!Profile
<1>6. /\ panel' \in [Free!Names -> Free!Profile] /\ panel'[i] = w
      /\ \A j \in Free!Names : j # i => panel'[j] = panel[j]
  BY <1>4, <1>5 DEF FreeInductive, AccessTyped
<1>7. links' = links \cup {i} /\ primary' = IF links = {} THEN i ELSE primary
  BY <1>2 DEF Free!Attach
<1>8. AccessTyped'
  BY <1>1, <1>6, <1>7, NoneIsNoName DEF FreeInductive, AccessTyped
<1>9. CacheRight'
  BY <1>1 DEF CacheRight
<1>10. MadeRight'
  BY <1>1, <1>4, <1>6, <1>7 DEF FreeInductive, MadeRight, TakenName
<1>11. \A c \in Claims : ClaimRight(claim[c])'
  BY <1>1 DEF ClaimRight, Resting
<1>12. \A j \in Free!Names : Paid(j) => panel'[j].plan = "pro"
  BY <1>4, <1>6 DEF Paid
<1>. QED
  BY <1>1, <1>8, <1>9, <1>10, <1>11, <1>12 DEF FreeInductive, Resting

\* What runs out was active.
LEMMA LapseKeeps ==
    ASSUME FreeSizes, FreeInductive, NEW i \in Free!Names, Free!Lapse(i)
    PROVE  /\ FreeInductive'
           /\ \A n \in Free!Names : Paid(n) => panel'[n].plan = "pro"
<1>1. /\ links' = links /\ primary' = primary /\ cache' = cache /\ claim' = claim
      /\ made' = made /\ panel \in [Free!Names -> Free!Profile]
  BY DEF Free!Lapse, FreeInductive, AccessTyped
<1>2. PICK s \in {"limited", "expired"} : panel' = [panel EXCEPT ![i].status = s]
  BY DEF Free!Lapse
<1>3. PICK w : w = [panel[i] EXCEPT !.status = s]
  OBVIOUS
<1>4. /\ w \in Free!Profile /\ w.plan = panel[i].plan /\ w.mark = panel[i].mark
      /\ w.status # "active"
  BY <1>1, <1>3 DEF Free!Profile
<1>5. /\ panel' \in [Free!Names -> Free!Profile] /\ panel'[i] = w
      /\ \A j \in Free!Names : j # i => panel'[j] = panel[j]
  BY <1>1, <1>2, <1>3, <1>4
<1>6. \A j \in Free!Names : (Paid(j)' => Paid(j)) /\ (TakenName(j)' <=> TakenName(j))
                             /\ panel'[j].mark = panel[j].mark
  BY <1>4, <1>5 DEF Paid, TakenName
<1>7. AccessTyped' /\ CacheRight'
  BY <1>1, <1>5, <1>6, CacheStays DEF FreeInductive, AccessTyped
<1>8. MadeRight'
  <2>1. \A x \in made : x[1] \in Free!Names
    BY DEF FreeInductive, AccessTyped
  <2>. QED
    BY <1>1, <1>6, <2>1 DEF FreeInductive, MadeRight
<1>9. ASSUME NEW c \in Claims PROVE ClaimRight(claim[c])'
  <2>1. ClaimRight(claim[c]) /\ (Current(claim[c].info) => Current(claim[c].info)')
    BY <1>1, <1>6 DEF FreeInductive, Current
  <2>. QED
    BY <1>1, <1>6, <2>1 DEF ClaimRight, Passed
<1>10. \A j \in Free!Names : Paid(j) => panel'[j].plan = "pro"
  BY <1>1, <1>4, <1>5 DEF Paid
<1>. QED
  BY <1>1, <1>7, <1>8, <1>9, <1>10 DEF FreeInductive, Resting

\* Every step, and what it does to a paid and active profile.
LEMMA FreeSteps ==
    ASSUME FreeSizes, FreeInductive, [Free!Next]_freeVars
    PROVE  /\ FreeInductive'
           /\ \A n \in Free!Names : Paid(n) => panel'[n].plan = "pro"
<1>1. CASE panel' = panel
  <2>1. \A n \in Free!Names : Paid(n) => panel'[n].plan = "pro"
    BY <1>1 DEF Paid
  <2>2. CASE UNCHANGED freeVars
    <3>1. AccessTyped' /\ CacheRight' /\ MadeRight'
      BY <2>2 DEF freeVars, FreeInductive, AccessTyped, CacheRight, MadeRight, Current, Paid,
                  TakenName
    <3>2. \A c \in Claims : ClaimRight(claim[c])'
      BY <2>2 DEF freeVars, FreeInductive, ClaimRight, Passed, Current, Paid, TakenName
    <3>. QED
      BY <2>1, <2>2, <3>1, <3>2 DEF freeVars, FreeInductive, Resting
  <2>. QED
    BY <2>1, <2>2, StartKeeps, ResolveKeeps, ResolveFailsKeeps, FoundKeeps, RefreshKeeps,
       CountKeeps, SearchKeeps, CreateKeeps, ReadBackKeeps, AttachKeeps, RestartKeeps,
       CacheExpiresKeeps, PaidDeliveryKeeps, LapseKeeps DEF Free!Next
<1>2. CASE panel' # panel
  BY <1>2, RefreshKeeps, CreateKeeps, PaidDeliveryKeeps, LapseKeeps
     DEF freeVars, Free!Next, Free!Start, Free!Resolve, Free!ResolveFails, Free!BotFound,
         Free!MiniappFound, Free!AndroidFound, Free!Count, Free!Search, Free!ReadBack,
         Free!AttachClaimed, Free!Restart, Free!CacheExpires
<1>. QED
  BY <1>1, <1>2

\* Of each marker there is one profile at most.
LEMMA FreeConcludes == FreeInductive => Free!OneFreeProfile
<1>. SUFFICES ASSUME FreeInductive, NEW m \in {"free", "android"}
              PROVE  Free!Cardinality({x \in made : x[2] = m}) <= 1
  BY DEF Free!OneFreeProfile
<1>1. CASE \A x \in made : x[2] # m
  <2>1. {x \in made : x[2] = m} = {}
    BY <1>1
  <2>. QED
    BY <2>1, FS_EmptySet, FreeCounts
<1>2. ASSUME NEW y \in made, y[2] = m PROVE Free!Cardinality({x \in made : x[2] = m}) <= 1
  <2>1. {x \in made : x[2] = m} = {y}
    BY <1>2 DEF FreeInductive, MadeRight
  <2>2. Cardinality({y}) = 1
    BY FS_Singleton
  <2>3. Free!Cardinality({y}) = Cardinality({y})
    BY FreeCounts
  <2>. QED
    BY <2>1, <2>2, <2>3
<1>. QED
  BY <1>1, <1>2

\* While claims and purchases of an account come one after another, whatever calls fail,
\* answers are lost, caches are old or processes restart: at most one profile is created
\* under each marker, and no paid and active profile becomes a free one (free_claim,
\* deliver_subscription, ensure_free_subscription).
THEOREM FreeIsSound == Spec => FreeSound
<1>1. Init => Free!Init
  BY DEF Init
<1>2. [Next]_allVars => [Free!Next]_freeVars
  BY DEF Next, LinksNext, TransferNext, MergeNext, AccessNext, StoreNext, DrawNext, FreeNext,
     CredentialsNext, CheckoutNext, RatesNext, GuardsNext, ScreensNext, CleanNext, ImportNext,
     PageNext, IdentityNext, allVars, accountSide, freeVars
<1>3. FreeInductive /\ [Free!Next]_freeVars => FreeInductive'
  BY FreeSteps, FreeConstants
<1>4. FreeInductive /\ [Free!Next]_freeVars =>
        [/\ Free!OneFreeProfile'
         /\ \A n \in Free!Names :
              panel[n].plan = "pro" /\ panel[n].status = "active"
                => panel'[n].plan = "pro"]_freeVars
  <2>1. FreeInductive' => Free!OneFreeProfile'
    BY FreeConcludes, PTL
  <2>. QED
    BY <2>1, FreeSteps, FreeConstants DEF Paid
<1>. QED
  BY <1>1, <1>2, <1>3, <1>4, FreeConstants, FreeBegins, PTL
     DEF Spec, Free!vars, freeVars, Free!counters, FreeSound, Free!FreeSound

-----------------------------------------------------------------------------
(***************************************************************************)
(* The channel clean.  Whoever is listed, to be done, or taken from, could *)
(* have been met outside the channel.  And as long as nothing crossed on a *)
(* user: his status is his own, or a cleaner has cut him off; what is kept *)
(* for him, listed of him by the bot or about to be given back is his own; *)
(* one cleaner at most is at him, and not while he presses the button; and *)
(* once he is cut off there is something to give back.                     *)
(***************************************************************************)

ReaderRecord ==
    [row : BOOLEAN, vip : BOOLEAN, banned : BOOLEAN, paid : {"never", "active", "ended"},
     status : Cleaning!Statuses, member : BOOLEAN, proxy : BOOLEAN]

Lists == [Readers -> Cleaning!Statuses \cup {Cleaning!NoStatus}]

CleanerRecord ==
    [at : {"idle", "working", "disabling", "recording"}, todo : Lists]

ReturnRecord ==
    [at : {"idle", "restoring", "deleting"}, status : Cleaning!Statuses \cup {Cleaning!NoStatus}]

CleanTyped ==
    /\ reader \in [Readers -> ReaderRecord]
    /\ keptStatus \in Lists
    /\ listed \in [Cleaning!Cleaners -> Lists]
    /\ doomed \in [Cleaning!Cleaners -> SUBSET Readers]
    /\ cleaner \in [Cleaning!Cleaners -> CleanerRecord]
    /\ pressed \in [Readers -> ReturnRecord]
    /\ hadStatus \in [Readers -> SUBSET Cleaning!Statuses]
    /\ hit \in [Cleaning!Cleaners -> SUBSET Readers]
    /\ exposed \in [Cleaning!Cleaners -> SUBSET Readers]
    /\ cut \subseteq Readers
    /\ \A u \in cut : reader[u].status = "disabled"
    /\ \A u \in Readers : pressed[u].at # "idle" => pressed[u].status # Cleaning!NoStatus

\* Whom cleaner c lists, has still to do or took from, was exposed to it.
Found(c) ==
    /\ hit[c] \subseteq exposed[c] /\ doomed[c] \subseteq exposed[c]
    /\ Cleaning!ToDo(c) \subseteq exposed[c]
    /\ \A u \in Readers : listed[c][u] # Cleaning!NoStatus => u \in exposed[c]
    /\ \A u \in Readers : Cleaning!Open(c, u) => u \in exposed[c]
    /\ cleaner[c].at \in {"disabling", "recording"} => Cleaning!ToDo(c) # {}

AtUser(c, u) == cleaner[c].at \in {"disabling", "recording"} /\ Cleaning!Turn(c) = u

Recording(c, u) == cleaner[c].at = "recording" /\ Cleaning!Turn(c) = u

\* A status of user u that no cleaner gave him.
Own(u, s) == s \in hadStatus[u] \cup {"active"}

OwnOrNone(u, s) == s = Cleaning!NoStatus \/ Own(u, s)

Returns(u) ==
    u \notin unlucky =>
        /\ u \in cut \/ Own(u, reader[u].status)
        /\ OwnOrNone(u, keptStatus[u])
        /\ OwnOrNone(u, listed["bot"][u]) /\ OwnOrNone(u, cleaner["bot"].todo[u])
        /\ pressed[u].at # "idle" => Own(u, pressed[u].status)
        /\ pressed[u].at = "deleting" => u \notin cut
        /\ \A c \in Cleaning!Cleaners : AtUser(c, u) =>
             /\ pressed[u].at = "idle"
             /\ Own(u, cleaner[c].todo[u])
                  \/ (c = "dashboard" /\ keptStatus[u] # Cleaning!NoStatus)
             /\ \A d \in Cleaning!Cleaners : AtUser(d, u) => c = d
        /\ u \in cut /\ (\A c \in Cleaning!Cleaners : ~Recording(c, u)) =>
             keptStatus[u] # Cleaning!NoStatus

CleanInductive ==
    /\ CleanTyped
    /\ \A c \in Cleaning!Cleaners : Found(c)
    /\ \A u \in Readers : Returns(u)

\* It holds where nothing was listed or taken yet.
LEMMA CleanBegins == Cleaning!Init => CleanInductive
<1>. SUFFICES ASSUME Cleaning!Init PROVE CleanInductive
  OBVIOUS
<1>1. Cleaning!Nothing \in Lists /\ \A u \in Readers : Cleaning!Nothing[u] = Cleaning!NoStatus
  BY DEF Cleaning!Nothing, Lists
<1>2. /\ Cleaning!Resting \in CleanerRecord /\ Cleaning!Resting.at = "idle"
      /\ \A u \in Readers : Cleaning!Resting.todo[u] = Cleaning!NoStatus
  BY <1>1 DEF Cleaning!Resting, CleanerRecord
<1>3. \A u \in Readers : Cleaning!GivenBack(u) \in ReturnRecord /\ Cleaning!GivenBack(u).at = "idle"
  BY DEF Cleaning!GivenBack, ReturnRecord
<1>4. /\ reader \in [Readers -> ReaderRecord]
      /\ \A u \in Readers : reader[u].member /\ reader[u].status \in Cleaning!Statuses
  <2>. DEFINE first == {[row |-> TRUE, vip |-> v, banned |-> FALSE, paid |-> p, status |-> s,
                         member |-> TRUE, proxy |-> TRUE] :
                           v \in BOOLEAN, p \in {"never", "active"}, s \in {"active", "limited"}}
  <2>1. \A r \in first : r \in ReaderRecord /\ r.member /\ r.status \in Cleaning!Statuses
    <3>1. ASSUME NEW v \in BOOLEAN, NEW p \in {"never", "active"}, NEW s \in {"active", "limited"},
                 NEW r, r = [row |-> TRUE, vip |-> v, banned |-> FALSE, paid |-> p, status |-> s,
                             member |-> TRUE, proxy |-> TRUE]
          PROVE  r \in ReaderRecord /\ r.member /\ r.status \in Cleaning!Statuses
      BY <3>1 DEF ReaderRecord, Cleaning!Statuses
    <3>. QED
      BY <3>1
  <2>2. reader \in [Readers -> first]
    BY DEF Cleaning!Init
  <2>. QED
    BY <2>1, <2>2
<1>5. CleanTyped
  BY <1>1, <1>2, <1>3, <1>4 DEF Cleaning!Init, CleanTyped, Lists
<1>6. ASSUME NEW c \in Cleaning!Cleaners PROVE Found(c)
  <2>1. Cleaning!ToDo(c) = {} /\ cleaner[c].at = "idle"
    BY <1>2 DEF Cleaning!Init, Cleaning!ToDo
  <2>2. \A u \in Readers : ~Cleaning!Open(c, u)
    BY <1>4 DEF Cleaning!Open, Cleaning!Subscribed, Cleaning!Init
  <2>. QED
    BY <1>1, <2>1, <2>2 DEF Found, Cleaning!Init
<1>7. ASSUME NEW u \in Readers PROVE Returns(u)
  <2>1. \A c \in Cleaning!Cleaners : cleaner[c] = Cleaning!Resting /\ listed[c] = Cleaning!Nothing
    BY DEF Cleaning!Init
  <2>2. /\ hadStatus[u] = {reader[u].status} /\ keptStatus[u] = Cleaning!NoStatus
        /\ pressed[u].at = "idle" /\ cut = {}
    BY <1>1, <1>3 DEF Cleaning!Init
  <2>. QED
    BY <1>1, <1>2, <2>1, <2>2 DEF Returns, AtUser, Own, OwnOrNone, Cleaning!Cleaners
<1>. QED
  BY <1>5, <1>6, <1>7 DEF CleanInductive

\* The ghost of exposure grows to whoever is open after the step.
Exposes == exposed' = [c \in Cleaning!Cleaners |->
                         exposed[c] \cup {u \in Readers : Cleaning!Open(c, u)'}]

\* What cleaner c finds stays exposed while it finds nobody new.
LEMMA FoundStays ==
    ASSUME CleanInductive, Exposes, NEW c \in Cleaning!Cleaners,
           hit'[c] \subseteq hit[c] \cup exposed[c], doomed'[c] \subseteq exposed[c],
           Cleaning!ToDo(c)' \subseteq exposed[c],
           \A u \in Readers : listed'[c][u] # Cleaning!NoStatus => u \in exposed[c],
           cleaner'[c].at \in {"disabling", "recording"} => Cleaning!ToDo(c)' # {}
    PROVE  Found(c)'
<1>1. exposed[c] \subseteq exposed'[c] /\ \A u \in Readers : Cleaning!Open(c, u)' => u \in exposed'[c]
  BY DEF Exposes
<1>2. hit[c] \subseteq exposed[c]
  BY DEF CleanInductive, Found
<1>. QED
  BY <1>1, <1>2 DEF Found

\* Nothing changes for user u, but for lists that are forgotten or taken up.
LEMMA ReturnsStays ==
    ASSUME CleanInductive, NEW u \in Readers,
           reader'[u].status = reader[u].status, u \in cut' <=> u \in cut,
           keptStatus'[u] = keptStatus[u],
           pressed'[u] = pressed[u] \/ pressed'[u].at = "idle",
           listed'["bot"][u] \in {listed["bot"][u], Cleaning!NoStatus},
           cleaner'["bot"].todo[u]
             \in {cleaner["bot"].todo[u], listed["bot"][u], Cleaning!NoStatus},
           \A c \in Cleaning!Cleaners :
              AtUser(c, u)' => AtUser(c, u) /\ cleaner'[c].todo[u] = cleaner[c].todo[u],
           \A c \in Cleaning!Cleaners : Recording(c, u) => Recording(c, u)' \/ u \in unlucky',
           hadStatus[u] \subseteq hadStatus'[u], unlucky \subseteq unlucky'
    PROVE  Returns(u)'
BY DEF CleanInductive, Returns, Own, OwnOrNone, Cleaning!Cleaners

-----------------------------------------------------------------------------

\* Whom a scan lists is exposed, and a status the bot saw on him is his own.
LEMMA ScanKeeps ==
    ASSUME CleanInductive, Exposes, NEW c \in Cleaning!Cleaners, Cleaning!SubCleanScan(c)
    PROVE  CleanInductive'
<1>1. PICK seen : seen = {u \in Cleaning!FreeUsers(c) :
                            /\ ~Cleaning!Subscribed(c, u)
                            /\ c = "bot" => reader[u].status # "disabled"}
  OBVIOUS
<1>2. PICK l : l = [u \in Readers |-> IF u \in seen THEN reader[u].status ELSE Cleaning!NoStatus]
  OBVIOUS
<1>3. /\ listed' = [listed EXCEPT ![c] = l]
      /\ UNCHANGED <<reader, keptStatus, telegramDown, doomed, cleaner, pressed, incidents, cut,
                     hadStatus, hit, unlucky>>
  BY <1>1, <1>2 DEF Cleaning!SubCleanScan
<1>4. CleanTyped
  BY DEF CleanInductive
<1>5. l \in Lists /\ \A u \in Readers : l[u] # Cleaning!NoStatus => u \in seen
  BY <1>2, <1>4 DEF CleanTyped, ReaderRecord, Lists
<1>6. \A u \in seen : Cleaning!Open(c, u) /\ u \in Readers
  BY <1>1 DEF Cleaning!FreeUsers, Cleaning!Open
<1>7. CleanTyped'
  <2>1. listed' \in [Cleaning!Cleaners -> Lists]
    BY <1>3, <1>4, <1>5 DEF CleanTyped
  <2>2. exposed' \in [Cleaning!Cleaners -> SUBSET Readers]
    BY <1>4 DEF Exposes, CleanTyped
  <2>. QED
    BY <1>3, <1>4, <2>1, <2>2 DEF CleanTyped
<1>8. ASSUME NEW d \in Cleaning!Cleaners PROVE Found(d)'
  <2>1. \A u \in Readers : listed'[d][u] # Cleaning!NoStatus => u \in exposed[d]
    BY <1>3, <1>4, <1>5, <1>6 DEF CleanTyped, CleanInductive, Found
  <2>2. Cleaning!ToDo(d)' = Cleaning!ToDo(d)
    BY <1>3 DEF Cleaning!ToDo
  <2>3. hit'[d] = hit[d] /\ doomed'[d] = doomed[d] /\ cleaner'[d] = cleaner[d]
    BY <1>3
  <2>. QED
    BY <2>1, <2>2, <2>3, FoundStays DEF CleanInductive, Found
<1>9. ASSUME NEW u \in Readers PROVE Returns(u)'
  <2>1. OwnOrNone(u, listed'["bot"][u]) \/ u \in unlucky
    <3>1. CASE c # "bot"
      BY <1>3, <1>4, <3>1 DEF CleanTyped, CleanInductive, Returns
    <3>2. CASE c = "bot"
      <4>1. listed'["bot"] = l
        BY <1>3, <1>4, <3>2 DEF CleanTyped
      <4>2. l[u] = Cleaning!NoStatus \/ (l[u] = reader[u].status /\ reader[u].status # "disabled")
        BY <1>1, <1>2, <3>2
      <4>. QED
        BY <1>4, <4>1, <4>2 DEF CleanInductive, Returns, OwnOrNone, CleanTyped
    <3>. QED
      BY <3>1, <3>2
  <2>. QED
    BY <1>3, <2>1 DEF CleanInductive, Returns, Own, OwnOrNone, AtUser, Recording, Cleaning!Turn,
       Cleaning!ToDo
<1>. QED
  BY <1>7, <1>8, <1>9 DEF CleanInductive

\* A cleaner takes up a list, or is done with a user: what it has recorded of him is his
\* own, unless something crossed or was cut off.
LEMMA TurnsToNext ==
    ASSUME CleanInductive, Exposes, NEW c \in Cleaning!Cleaners, NEW n \in CleanerRecord,
           n.at \in {"idle", "working"}, cleaner' = [cleaner EXCEPT ![c] = n],
           \A u \in Readers :
              n.todo[u] \in {cleaner[c].todo[u], listed[c][u], Cleaning!NoStatus},
           reader' = reader, pressed' = pressed, cut' = cut, hadStatus' = hadStatus, hit' = hit,
           listed' \in [Cleaning!Cleaners -> Lists],
           doomed' \in [Cleaning!Cleaners -> SUBSET Readers],
           \A d \in Cleaning!Cleaners :
              /\ doomed'[d] \subseteq doomed[d]
              /\ \A u \in Readers : listed'[d][u] \in {listed[d][u], Cleaning!NoStatus},
           keptStatus' \in Lists, unlucky \subseteq unlucky',
           \A u \in Readers :
              \/ u \in unlucky'
              \/ keptStatus'[u] = keptStatus[u] /\ ~Recording(c, u)
              \/ AtUser(c, u) /\ Own(u, keptStatus'[u]) /\ keptStatus'[u] # Cleaning!NoStatus
    PROVE  CleanInductive'
<1>1. CleanTyped
  BY DEF CleanInductive
<1>2. /\ cleaner' \in [Cleaning!Cleaners -> CleanerRecord] /\ cleaner'[c] = n
      /\ \A d \in Cleaning!Cleaners : d # c => cleaner'[d] = cleaner[d]
  BY <1>1 DEF CleanTyped
<1>3. CleanTyped'
  <2>1. exposed' \in [Cleaning!Cleaners -> SUBSET Readers]
    BY <1>1 DEF Exposes, CleanTyped
  <2>. QED
    BY <1>1, <1>2, <2>1 DEF CleanTyped
<1>4. \A d \in Cleaning!Cleaners : d # c => Cleaning!ToDo(d)' = Cleaning!ToDo(d)
  BY <1>2 DEF Cleaning!ToDo
<1>5. \A d \in Cleaning!Cleaners, u \in Readers :
        /\ AtUser(d, u)' => d # c /\ AtUser(d, u) /\ cleaner'[d] = cleaner[d]
        /\ Recording(d, u) => d = c \/ Recording(d, u)'
  BY <1>2, <1>4 DEF AtUser, Recording, Cleaning!Turn
<1>6. ASSUME NEW d \in Cleaning!Cleaners PROVE Found(d)'
  <2>0. Found(d)
    BY DEF CleanInductive
  <2>1. CASE d = c
    <3>1. Cleaning!ToDo(c)' \subseteq exposed[c]
      BY <1>2, <2>0, <2>1 DEF Cleaning!ToDo, Found
    <3>2. \A u \in Readers : listed'[c][u] # Cleaning!NoStatus => u \in exposed[c]
      BY <2>0, <2>1 DEF Found
    <3>. QED
      BY <1>2, <2>0, <2>1, <3>1, <3>2, FoundStays DEF Found
  <2>2. CASE d # c
    <3>1. \A u \in Readers : listed'[d][u] # Cleaning!NoStatus => u \in exposed[d]
      BY <2>0 DEF Found
    <3>. QED
      BY <1>2, <1>4, <2>0, <2>2, <3>1, FoundStays DEF Found
  <2>. QED
    BY <2>1, <2>2
<1>7. ASSUME NEW u \in Readers PROVE Returns(u)'
  <2>1. /\ listed'["bot"][u] \in {listed["bot"][u], Cleaning!NoStatus}
        /\ cleaner'["bot"].todo[u]
             \in {cleaner["bot"].todo[u], listed["bot"][u], Cleaning!NoStatus}
    BY <1>2 DEF Cleaning!Cleaners
  <2>2. CASE u \in unlucky'
    BY <2>2 DEF Returns
  <2>3. CASE keptStatus'[u] = keptStatus[u] /\ ~Recording(c, u)
    BY <1>5, <2>1, <2>3, ReturnsStays
  <2>4. CASE /\ AtUser(c, u) /\ Own(u, keptStatus'[u]) /\ keptStatus'[u] # Cleaning!NoStatus
             /\ u \notin unlucky'
    <3>1. Returns(u) /\ u \notin unlucky
      BY <2>4 DEF CleanInductive
    <3>2. \A d \in Cleaning!Cleaners : ~AtUser(d, u)'
      BY <1>5, <2>4, <3>1 DEF Returns
    <3>. QED
      BY <2>1, <2>4, <3>1, <3>2 DEF Returns, Own, OwnOrNone
  <2>. QED
    BY <2>2, <2>3, <2>4
<1>. QED
  BY <1>3, <1>6, <1>7 DEF CleanInductive

\* A list is taken up when it is confirmed.
LEMMA BeginsKeeps ==
    ASSUME CleanInductive, Exposes, Cleaning!AdminConfirmSubClean \/ Cleaning!SubCleanExecute
    PROVE  CleanInductive'
<1>1. CleanTyped
  BY DEF CleanInductive
<1>2. ASSUME NEW c \in Cleaning!Cleaners, NEW t \in Lists, Cleaning!Begins(c, t),
             \A u \in Readers : t[u] \in {listed[c][u], Cleaning!NoStatus},
             listed' = listed \/ (c = "bot" /\ listed' = [listed EXCEPT !["bot"] = Cleaning!Nothing])
      PROVE  CleanInductive'
  <2>1. PICK n : n = [at |-> "working", todo |-> t]
    OBVIOUS
  <2>2. n \in CleanerRecord /\ n.at = "working" /\ n.todo = t
    BY <2>1 DEF CleanerRecord
  <2>3. /\ cleaner' = [cleaner EXCEPT ![c] = n] /\ cleaner[c].at = "idle"
        /\ UNCHANGED <<reader, keptStatus, doomed, pressed, cut, hadStatus, hit, unlucky>>
    BY <1>2, <2>1 DEF Cleaning!Begins
  <2>4. Cleaning!Nothing \in Lists /\ \A u \in Readers : Cleaning!Nothing[u] = Cleaning!NoStatus
    BY DEF Cleaning!Nothing, Lists
  <2>5. /\ listed' \in [Cleaning!Cleaners -> Lists]
        /\ \A d \in Cleaning!Cleaners :
              \A u \in Readers : listed'[d][u] \in {listed[d][u], Cleaning!NoStatus}
    BY <1>1, <1>2, <2>4 DEF CleanTyped
  <2>6. \A u \in Readers : ~Recording(c, u)
    BY <2>3 DEF Recording
  <2>7. keptStatus' \in Lists /\ doomed' \in [Cleaning!Cleaners -> SUBSET Readers]
    BY <1>1, <2>3 DEF CleanTyped
  <2>8. \A u \in Readers :
          /\ n.todo[u] \in {cleaner[c].todo[u], listed[c][u], Cleaning!NoStatus}
          /\ keptStatus'[u] = keptStatus[u] /\ ~Recording(c, u)
    BY <1>2, <2>2, <2>3, <2>6
  <2>9. /\ reader' = reader /\ pressed' = pressed /\ cut' = cut /\ hadStatus' = hadStatus
        /\ hit' = hit /\ unlucky \subseteq unlucky'
        /\ \A d \in Cleaning!Cleaners : doomed'[d] \subseteq doomed[d]
    BY <2>3
  <2>10. n.at \in {"idle", "working"} /\ cleaner' = [cleaner EXCEPT ![c] = n]
    BY <2>2, <2>3
  <2>. QED
    BY <2>2, <2>5, <2>7, <2>8, <2>9, <2>10, TurnsToNext
<1>3. CASE Cleaning!AdminConfirmSubClean
  <2>1. "bot" \in Cleaning!Cleaners /\ listed["bot"] \in Lists
    BY <1>1 DEF CleanTyped, Cleaning!Cleaners
  <2>. QED
    BY <1>2, <1>3, <2>1 DEF Cleaning!AdminConfirmSubClean
<1>4. CASE Cleaning!SubCleanExecute
  <2>1. PICK t : t = [u \in Readers |-> IF reader[u].row THEN listed["dashboard"][u]
                                        ELSE Cleaning!NoStatus]
    OBVIOUS
  <2>2. /\ "dashboard" \in Cleaning!Cleaners /\ t \in Lists
        /\ \A u \in Readers : t[u] \in {listed["dashboard"][u], Cleaning!NoStatus}
    BY <1>1, <2>1 DEF CleanTyped, Cleaning!Cleaners, Lists
  <2>. QED
    BY <1>2, <1>4, <2>1, <2>2 DEF Cleaning!SubCleanExecute
<1>. QED
  BY <1>3, <1>4

\* The user a cleaner is at is one it has to do.
LEMMA TurnIs ==
    ASSUME NEW c, Cleaning!ToDo(c) # {}
    PROVE  /\ Cleaning!Turn(c) \in Readers
           /\ cleaner[c].todo[Cleaning!Turn(c)] # Cleaning!NoStatus
BY DEF Cleaning!Turn, Cleaning!ToDo

\* What is left when a user is done.
LEMMA DoneIs ==
    ASSUME NEW c \in Cleaning!Cleaners, CleanTyped
    PROVE  \E n \in CleanerRecord :
             /\ n = Cleaning!Done(c, cleaner[c].todo) /\ n.at \in {"idle", "working"}
             /\ \A u \in Readers : n.todo[u] \in {cleaner[c].todo[u], Cleaning!NoStatus}
<1>1. PICK t : t = [cleaner[c].todo EXCEPT ![Cleaning!Turn(c)] = Cleaning!NoStatus]
  OBVIOUS
<1>2. t \in Lists /\ \A u \in Readers : t[u] \in {cleaner[c].todo[u], Cleaning!NoStatus}
  BY <1>1 DEF CleanTyped, CleanerRecord, Lists
<1>3. PICK n : n = Cleaning!Done(c, cleaner[c].todo)
  OBVIOUS
<1>4. n = [at |-> IF t = Cleaning!Nothing THEN "idle" ELSE "working", todo |-> t]
  BY <1>1, <1>3 DEF Cleaning!Done
<1>. QED
  BY <1>2, <1>3, <1>4 DEF CleanerRecord

\* Neither a status, nor a list, nor what a cleaner or a button is at changes.
LEMMA QuietKeeps ==
    ASSUME CleanInductive, Exposes,
           reader' \in [Readers -> ReaderRecord],
           \A u \in Readers : reader'[u].status = reader[u].status,
           keptStatus' = keptStatus, listed' = listed, cleaner' = cleaner, pressed' = pressed,
           cut' = cut, hadStatus' = hadStatus, unlucky' = unlucky,
           doomed' \in [Cleaning!Cleaners -> SUBSET Readers],
           hit' \in [Cleaning!Cleaners -> SUBSET Readers],
           \A c \in Cleaning!Cleaners :
              doomed'[c] \subseteq exposed[c] /\ hit'[c] \subseteq hit[c] \cup exposed[c]
    PROVE  CleanInductive'
<1>1. CleanTyped
  BY DEF CleanInductive
<1>2. CleanTyped'
  <2>1. exposed' \in [Cleaning!Cleaners -> SUBSET Readers]
    BY <1>1 DEF Exposes, CleanTyped
  <2>2. \A u \in cut : u \in Readers /\ reader'[u].status = "disabled"
    BY <1>1 DEF CleanTyped
  <2>. QED
    BY <1>1, <2>1, <2>2 DEF CleanTyped
<1>3. \A c \in Cleaning!Cleaners : Cleaning!ToDo(c)' = Cleaning!ToDo(c)
  BY DEF Cleaning!ToDo
<1>4. \A c \in Cleaning!Cleaners, u \in Readers :
        (AtUser(c, u)' <=> AtUser(c, u)) /\ (Recording(c, u)' <=> Recording(c, u))
  BY <1>3 DEF AtUser, Recording, Cleaning!Turn
<1>5. ASSUME NEW c \in Cleaning!Cleaners PROVE Found(c)'
  BY <1>3, FoundStays DEF CleanInductive, Found
<1>6. ASSUME NEW u \in Readers PROVE Returns(u)'
  BY <1>4, ReturnsStays
<1>. QED
  BY <1>2, <1>5, <1>6 DEF CleanInductive

-----------------------------------------------------------------------------

\* A scan of the proxy lists whom it could take for free and gone.
LEMMA TelemtScanKeeps ==
    ASSUME CleanInductive, Exposes, NEW c \in Cleaning!Cleaners, Cleaning!TelemtCleanScan(c)
    PROVE  CleanInductive'
<1>1. CleanTyped /\ \A d \in Cleaning!Cleaners : Found(d)
  BY DEF CleanInductive
<1>2. Cleaning!Doomed(c) \subseteq exposed[c] /\ Cleaning!Doomed(c) \subseteq Readers
  BY <1>1 DEF Cleaning!Doomed, Cleaning!Open, Found
<1>3. /\ doomed' = [doomed EXCEPT ![c] = Cleaning!Doomed(c)]
      /\ reader' = reader /\ keptStatus' = keptStatus /\ listed' = listed /\ cleaner' = cleaner
      /\ pressed' = pressed /\ cut' = cut /\ hadStatus' = hadStatus /\ unlucky' = unlucky
      /\ hit' = hit
  BY DEF Cleaning!TelemtCleanScan
<1>4. /\ doomed' \in [Cleaning!Cleaners -> SUBSET Readers]
      /\ \A d \in Cleaning!Cleaners : doomed'[d] \subseteq exposed[d]
  BY <1>1, <1>2, <1>3 DEF CleanTyped, Found
<1>5. reader' \in [Readers -> ReaderRecord] /\ hit' \in [Cleaning!Cleaners -> SUBSET Readers]
  BY <1>1, <1>3 DEF CleanTyped
<1>. QED
  BY <1>3, <1>4, <1>5, QuietKeeps

\* A proxy account comes or goes.
LEMMA ProxyRow ==
    ASSUME NEW r \in ReaderRecord, NEW b \in BOOLEAN
    PROVE  [r EXCEPT !.proxy = b] \in ReaderRecord /\ [r EXCEPT !.proxy = b].status = r.status
BY DEF ReaderRecord

\* Of the listed proxy accounts some are deleted.
LEMMA TelemtExecuteKeeps ==
    ASSUME CleanInductive, Exposes,
           Cleaning!AdminConfirmTelemtClean \/ Cleaning!TelemtCleanExecute
    PROVE  CleanInductive'
<1>1. CleanTyped /\ \A d \in Cleaning!Cleaners : Found(d)
  BY DEF CleanInductive
<1>2. PICK c \in Cleaning!Cleaners :
        /\ Cleaning!DeleteTelemtUsers(c)
        /\ doomed' = doomed \/ doomed' = [doomed EXCEPT ![c] = {}]
  BY DEF Cleaning!AdminConfirmTelemtClean, Cleaning!TelemtCleanExecute, Cleaning!Cleaners
<1>3. PICK gone \in SUBSET doomed[c] :
        /\ reader' = [u \in Readers |-> IF u \in gone THEN [reader[u] EXCEPT !.proxy = FALSE]
                                       ELSE reader[u]]
        /\ hit' = [hit EXCEPT ![c] = @ \cup gone]
  BY <1>2 DEF Cleaning!DeleteTelemtUsers
<1>4. /\ keptStatus' = keptStatus /\ listed' = listed /\ cleaner' = cleaner
      /\ pressed' = pressed /\ cut' = cut /\ hadStatus' = hadStatus /\ unlucky' = unlucky
  BY <1>2 DEF Cleaning!DeleteTelemtUsers
<1>5. reader' \in [Readers -> ReaderRecord] /\ \A u \in Readers : reader'[u].status = reader[u].status
  <2>1. \A u \in Readers : reader[u] \in ReaderRecord
    BY <1>1 DEF CleanTyped
  <2>2. \A u \in Readers : reader'[u] = IF u \in gone THEN [reader[u] EXCEPT !.proxy = FALSE]
                                       ELSE reader[u]
    BY <1>3
  <2>3. \A u \in Readers : reader'[u] \in ReaderRecord /\ reader'[u].status = reader[u].status
    BY <2>1, <2>2, ProxyRow
  <2>. QED
    BY <1>3, <2>3
<1>6. gone \subseteq Readers /\ gone \subseteq exposed[c]
  BY <1>1, <1>3 DEF CleanTyped, Found
<1>7. /\ hit' \in [Cleaning!Cleaners -> SUBSET Readers]
      /\ \A d \in Cleaning!Cleaners : hit'[d] \subseteq hit[d] \cup exposed[d]
  BY <1>1, <1>3, <1>6 DEF CleanTyped
<1>8. /\ doomed' \in [Cleaning!Cleaners -> SUBSET Readers]
      /\ \A d \in Cleaning!Cleaners : doomed'[d] \subseteq exposed[d]
  BY <1>1, <1>2 DEF CleanTyped, Found
<1>. QED
  BY <1>4, <1>5, <1>7, <1>8, QuietKeeps

\* A proxy account is claimed.
LEMMA TelemtClaimKeeps ==
    ASSUME CleanInductive, Exposes, NEW u \in Readers, Cleaning!TelemtFreeBuy(u)
    PROVE  CleanInductive'
<1>1. CleanTyped /\ \A d \in Cleaning!Cleaners : Found(d)
  BY DEF CleanInductive
<1>2. /\ reader' = [reader EXCEPT ![u].proxy = TRUE]
      /\ keptStatus' = keptStatus /\ listed' = listed /\ cleaner' = cleaner
      /\ pressed' = pressed /\ cut' = cut /\ hadStatus' = hadStatus /\ unlucky' = unlucky
      /\ hit' = hit /\ doomed' = doomed
  BY DEF Cleaning!TelemtFreeBuy
<1>3. reader' \in [Readers -> ReaderRecord] /\ \A w \in Readers : reader'[w].status = reader[w].status
  <2>1. reader[u] \in ReaderRecord /\ [reader[u] EXCEPT !.proxy = TRUE] \in ReaderRecord
    BY <1>1, ProxyRow DEF CleanTyped
  <2>2. [reader[u] EXCEPT !.proxy = TRUE].status = reader[u].status
    BY <2>1, ProxyRow
  <2>. QED
    BY <1>1, <1>2, <2>1, <2>2 DEF CleanTyped
<1>4. /\ hit' \in [Cleaning!Cleaners -> SUBSET Readers]
      /\ doomed' \in [Cleaning!Cleaners -> SUBSET Readers]
      /\ \A d \in Cleaning!Cleaners :
            doomed'[d] \subseteq exposed[d] /\ hit'[d] \subseteq hit[d] \cup exposed[d]
  BY <1>1, <1>2 DEF CleanTyped, Found
<1>. QED
  BY <1>2, <1>3, <1>4, QuietKeeps

\* Telegram fails, or answers again.
LEMMA OutageKeeps == ASSUME CleanInductive, Exposes, Cleaning!TelegramFails PROVE CleanInductive'
<1>1. CleanTyped /\ \A d \in Cleaning!Cleaners : Found(d)
  BY DEF CleanInductive
<1>2. /\ reader' = reader
      /\ keptStatus' = keptStatus /\ listed' = listed /\ cleaner' = cleaner
      /\ pressed' = pressed /\ cut' = cut /\ hadStatus' = hadStatus /\ unlucky' = unlucky
      /\ hit' = hit /\ doomed' = doomed
  BY DEF Cleaning!TelegramFails
<1>3. /\ hit' \in [Cleaning!Cleaners -> SUBSET Readers] /\ reader' \in [Readers -> ReaderRecord]
      /\ doomed' \in [Cleaning!Cleaners -> SUBSET Readers]
      /\ \A d \in Cleaning!Cleaners :
            doomed'[d] \subseteq exposed[d] /\ hit'[d] \subseteq hit[d] \cup exposed[d]
  BY <1>1, <1>2 DEF CleanTyped, Found
<1>. QED
  BY <1>2, <1>3, QuietKeeps

\* A user joins or leaves the channel, is banned or made VIP, is deleted, pays, or his
\* period ends: a status he gets so is his own.
LEMMA BecomesKeeps ==
    ASSUME CleanInductive, Exposes, NEW u \in Readers, NEW row \in ReaderRecord,
           Cleaning!Becomes(u, row)
    PROVE  CleanInductive'
<1>1. CleanTyped /\ \A d \in Cleaning!Cleaners : Found(d)
  BY DEF CleanInductive
<1>2. /\ reader' = [reader EXCEPT ![u] = row]
      /\ hadStatus' = [hadStatus EXCEPT ![u] = @ \cup ({row.status} \ {reader[u].status})]
      /\ cut' = IF row.status = reader[u].status THEN cut ELSE cut \ {u}
      /\ keptStatus' = keptStatus /\ listed' = listed /\ cleaner' = cleaner
      /\ pressed' = pressed /\ unlucky' = unlucky /\ hit' = hit /\ doomed' = doomed
  BY DEF Cleaning!Becomes
<1>3. reader' \in [Readers -> ReaderRecord] /\ \A w \in Readers : w # u => reader'[w] = reader[w]
  BY <1>1, <1>2 DEF CleanTyped
<1>4. /\ hadStatus' \in [Readers -> SUBSET Cleaning!Statuses]
      /\ \A w \in Readers : hadStatus[w] \subseteq hadStatus'[w]
  BY <1>1, <1>2 DEF CleanTyped, ReaderRecord
<1>5. CleanTyped'
  <2>1. exposed' \in [Cleaning!Cleaners -> SUBSET Readers]
    BY <1>1 DEF Exposes, CleanTyped
  <2>2. cut' \subseteq Readers /\ \A w \in cut' : reader'[w].status = "disabled"
    BY <1>1, <1>2 DEF CleanTyped
  <2>. QED
    BY <1>1, <1>2, <1>3, <1>4, <2>1, <2>2 DEF CleanTyped
<1>6. \A c \in Cleaning!Cleaners : Cleaning!ToDo(c)' = Cleaning!ToDo(c)
  BY <1>2 DEF Cleaning!ToDo
<1>7. \A c \in Cleaning!Cleaners, w \in Readers :
        (AtUser(c, w)' <=> AtUser(c, w)) /\ (Recording(c, w)' <=> Recording(c, w))
  BY <1>2, <1>6 DEF AtUser, Recording, Cleaning!Turn
<1>8. ASSUME NEW c \in Cleaning!Cleaners PROVE Found(c)'
  BY <1>2, <1>6, FoundStays DEF CleanInductive, Found
<1>9. ASSUME NEW w \in Readers PROVE Returns(w)'
  <2>1. CASE w # u \/ row.status = reader[u].status
    <3>1. reader'[w].status = reader[w].status /\ (w \in cut' <=> w \in cut)
      BY <1>1, <1>2, <2>1 DEF CleanTyped
    <3>. QED
      BY <1>2, <1>4, <1>7, <3>1, ReturnsStays
  <2>2. CASE w = u /\ row.status # reader[u].status
    <3>1. w \notin cut' /\ Own(w, reader[w].status)'
      BY <1>1, <1>2, <2>2 DEF CleanTyped, Own
    <3>2. Returns(w)
      BY DEF CleanInductive
    <3>. QED
      BY <1>2, <1>4, <1>7, <3>1, <3>2 DEF Returns, Own, OwnOrNone
  <2>. QED
    BY <2>1, <2>2
<1>. QED
  BY <1>5, <1>8, <1>9 DEF CleanInductive

-----------------------------------------------------------------------------

\* A cleaner at work has somebody to do.
LEMMA WorkingHasTurn ==
    ASSUME CleanTyped, NEW c \in Cleaning!Cleaners, NEW at, Cleaning!Working(c, at)
    PROVE  Cleaning!ToDo(c) # {} /\ cleaner[c].at = at
<1>1. cleaner[c].todo \in Lists
  BY DEF CleanTyped, CleanerRecord
<1>2. cleaner[c].todo # Cleaning!Nothing
  BY DEF Cleaning!Working
<1>3. PICK u \in Readers : cleaner[c].todo[u] # Cleaning!NoStatus
  BY <1>1, <1>2 DEF Lists, Cleaning!Nothing
<1>. QED
  BY <1>3 DEF Cleaning!ToDo, Cleaning!Working

\* A cleaner comes nearer to its user u, in the way the step at hand says.
LEMMA CleanerMoves ==
    ASSUME CleanInductive, Exposes, NEW c \in Cleaning!Cleaners, NEW n \in CleanerRecord,
           NEW u \in Readers, u = Cleaning!Turn(c), Cleaning!ToDo(c) # {},
           n.todo[u] # Cleaning!NoStatus,
           \A w \in Readers : w # u => n.todo[w] = cleaner[c].todo[w],
           cleaner' = [cleaner EXCEPT ![c] = n],
           reader' \in [Readers -> ReaderRecord],
           \A w \in Readers : w # u => reader'[w] = reader[w] /\ (w \in cut' <=> w \in cut)
                                       /\ (w \in unlucky => w \in unlucky'),
           keptStatus' = keptStatus, listed' = listed, doomed' = doomed, pressed' = pressed,
           hadStatus' = hadStatus, cut' \subseteq Readers,
           u \in cut' => reader'[u].status = "disabled",
           hit' \in [Cleaning!Cleaners -> SUBSET Readers],
           \A d \in Cleaning!Cleaners : hit'[d] \subseteq hit[d] \cup exposed[d],
           Returns(u)'
    PROVE  CleanInductive'
<1>1. CleanTyped /\ \A d \in Cleaning!Cleaners : Found(d)
  BY DEF CleanInductive
<1>2. /\ cleaner' \in [Cleaning!Cleaners -> CleanerRecord] /\ cleaner'[c] = n
      /\ \A d \in Cleaning!Cleaners : d # c => cleaner'[d] = cleaner[d]
  BY <1>1 DEF CleanTyped
<1>3. CleanTyped'
  <2>1. exposed' \in [Cleaning!Cleaners -> SUBSET Readers]
    BY <1>1 DEF Exposes, CleanTyped
  <2>2. \A w \in cut' : w \in Readers /\ reader'[w].status = "disabled"
    BY <1>1 DEF CleanTyped
  <2>. QED
    BY <1>1, <1>2, <2>1, <2>2 DEF CleanTyped
<1>4. \A d \in Cleaning!Cleaners : Cleaning!ToDo(d)' = Cleaning!ToDo(d)
  <2>1. u \in Cleaning!ToDo(c)
    BY TurnIs DEF Cleaning!ToDo
  <2>2. Cleaning!ToDo(c)' = Cleaning!ToDo(c)
    BY <1>2, <2>1 DEF Cleaning!ToDo
  <2>3. ASSUME NEW d \in Cleaning!Cleaners, d # c PROVE Cleaning!ToDo(d)' = Cleaning!ToDo(d)
    BY <1>2, <2>3 DEF Cleaning!ToDo
  <2>. QED
    BY <2>2, <2>3
<1>5. \A d \in Cleaning!Cleaners : Cleaning!Turn(d)' = Cleaning!Turn(d)
  BY <1>4 DEF Cleaning!Turn
<1>6. ASSUME NEW d \in Cleaning!Cleaners PROVE Found(d)'
  <2>1. Cleaning!ToDo(d)' # {} \/ cleaner'[d] = cleaner[d]
    BY <1>2, <1>4
  <2>2. Found(d)
    BY <1>1
  <2>. QED
    BY <1>4, <2>1, <2>2, FoundStays DEF Found
<1>7. ASSUME NEW w \in Readers, w # u PROVE Returns(w)'
  <2>1. Returns(w)
    BY DEF CleanInductive
  <2>2. \A d \in Cleaning!Cleaners :
          /\ AtUser(d, w)' => AtUser(d, w) /\ cleaner'[d].todo[w] = cleaner[d].todo[w]
          /\ Recording(d, w) <=> Recording(d, w)'
    BY <1>2, <1>5, <1>7 DEF AtUser, Recording
  <2>3. cleaner'["bot"].todo[w] = cleaner["bot"].todo[w]
    BY <1>2, <1>7 DEF Cleaning!Cleaners
  <2>4. /\ reader'[w].status = reader[w].status /\ (w \in cut' <=> w \in cut)
        /\ (w \in unlucky => w \in unlucky')
    BY <1>7
  <2>. QED
    BY <2>1, <2>2, <2>3, <2>4 DEF Returns, Own, OwnOrNone
<1>. QED
  BY <1>3, <1>6, <1>7 DEF CleanInductive

\* The status to keep is the user's own; the button was not pressed, and nobody else is at
\* him, or the two crossed.
LEMMA AskStatusKeeps ==
    ASSUME CleanInductive, Exposes, NEW c \in Cleaning!Cleaners, Cleaning!AskStatus(c)
    PROVE  CleanInductive'
<1>1. CleanTyped
  BY DEF CleanInductive
<1>2. Cleaning!ToDo(c) # {} /\ cleaner[c].at = "working"
  BY <1>1, WorkingHasTurn DEF Cleaning!AskStatus
<1>3. PICK u \in Readers : u = Cleaning!Turn(c) /\ cleaner[c].todo[u] # Cleaning!NoStatus
  BY <1>2, TurnIs
<1>4. PICK answered \in (IF c = "bot" THEN {cleaner[c].todo[u]} ELSE {reader[u].status, "active"}) :
        cleaner' = [cleaner EXCEPT ![c].at = "disabling", ![c].todo[u] = answered]
  BY <1>3 DEF Cleaning!AskStatus
<1>5. /\ unlucky' = IF Cleaning!Busy(u) THEN unlucky \cup {u} ELSE unlucky
      /\ reader' = reader /\ keptStatus' = keptStatus /\ listed' = listed /\ doomed' = doomed
      /\ pressed' = pressed /\ cut' = cut /\ hadStatus' = hadStatus /\ hit' = hit
  BY <1>3 DEF Cleaning!AskStatus, Cleaning!Crossed
<1>6. cleaner[c] \in CleanerRecord /\ cleaner[c].todo \in Lists /\ reader[u] \in ReaderRecord
  BY <1>1 DEF CleanTyped, CleanerRecord
<1>7. answered \in Cleaning!Statuses
  <2>1. cleaner[c].todo[u] \in Cleaning!Statuses /\ reader[u].status \in Cleaning!Statuses
    BY <1>3, <1>6 DEF Lists, ReaderRecord
  <2>. QED
    BY <1>4, <2>1 DEF Cleaning!Statuses
<1>8. PICK t : t = [cleaner[c].todo EXCEPT ![u] = answered]
  OBVIOUS
<1>9. /\ t \in Lists /\ t[u] = answered /\ \A w \in Readers : w # u => t[w] = cleaner[c].todo[w]
  BY <1>6, <1>7, <1>8 DEF Lists
<1>10. PICK n : n = [at |-> "disabling", todo |-> t]
  OBVIOUS
<1>11. n \in CleanerRecord /\ n.at = "disabling" /\ n.todo = t
  BY <1>9, <1>10 DEF CleanerRecord
<1>12. cleaner' = [cleaner EXCEPT ![c] = n]
  <2>1. /\ DOMAIN cleaner = Cleaning!Cleaners /\ DOMAIN cleaner' = Cleaning!Cleaners
        /\ cleaner = [d \in Cleaning!Cleaners |-> cleaner[d]]
        /\ cleaner' = [d \in Cleaning!Cleaners |-> cleaner'[d]]
    BY <1>1, <1>4 DEF CleanTyped
  <2>2. \A d \in Cleaning!Cleaners : d # c => cleaner'[d] = cleaner[d]
    BY <1>1, <1>4 DEF CleanTyped
  <2>3. cleaner'[c] = n
    <3>1. PICK r : r = [cleaner[c] EXCEPT !.at = "disabling"]
      OBVIOUS
    <3>2. r = [at |-> "disabling", todo |-> cleaner[c].todo]
      BY <1>6, <3>1 DEF CleanerRecord
    <3>3. cleaner'[c] = [r EXCEPT !.todo[u] = answered]
      BY <1>1, <1>4, <3>1 DEF CleanTyped
    <3>4. [r EXCEPT !.todo[u] = answered] = [at |-> "disabling", todo |-> t]
      BY <1>8, <3>2
    <3>. QED
      BY <1>10, <3>3, <3>4
  <2>. QED
    BY <2>1, <2>2, <2>3
<1>13. answered # Cleaning!NoStatus
  BY <1>7 DEF Cleaning!Statuses, Cleaning!NoStatus
<1>14. cleaner' \in [Cleaning!Cleaners -> CleanerRecord] /\ cleaner'[c] = n
       /\ \A d \in Cleaning!Cleaners : d # c => cleaner'[d] = cleaner[d]
  BY <1>1, <1>11, <1>12 DEF CleanTyped
<1>15. Returns(u)'
  <2>1. CASE u \in unlucky'
    BY <2>1 DEF Returns
  <2>2. CASE u \notin unlucky'
    <3>1. Returns(u) /\ u \notin unlucky /\ ~Cleaning!Busy(u)
      BY <1>5, <2>2 DEF CleanInductive
    <3>2. pressed[u].at = "idle" /\ \A d \in Cleaning!Cleaners : ~AtUser(d, u)
      BY <3>1 DEF Cleaning!Busy, AtUser
    <3>3. \A d \in Cleaning!Cleaners : ~Recording(d, u)
      BY <3>2 DEF Recording, AtUser
    <3>4. \A d \in Cleaning!Cleaners : AtUser(d, u)' => d = c
      <4>1. ASSUME NEW d \in Cleaning!Cleaners, d # c PROVE Cleaning!ToDo(d)' = Cleaning!ToDo(d)
        BY <1>14, <4>1 DEF Cleaning!ToDo
      <4>. QED
        BY <1>14, <3>2, <4>1 DEF AtUser, Cleaning!Turn
    <3>5. \/ Own(u, answered)
          \/ c = "dashboard" /\ keptStatus[u] # Cleaning!NoStatus
      <4>1. CASE c = "bot"
        BY <1>3, <1>4, <3>1, <4>1 DEF Returns, OwnOrNone
      <4>2. CASE c # "bot"
        BY <1>4, <3>1, <3>3, <4>2 DEF Returns, Own, Cleaning!Cleaners
      <4>. QED
        BY <4>1, <4>2
    <3>6. OwnOrNone(u, cleaner'["bot"].todo[u])
      <4>1. CASE c = "bot"
        BY <1>9, <1>11, <1>14, <3>5, <4>1 DEF OwnOrNone
      <4>2. CASE c # "bot"
        BY <1>14, <3>1, <4>2 DEF Returns, Cleaning!Cleaners
      <4>. QED
        BY <4>1, <4>2
    <3>7. cleaner'[c].todo[u] = answered
      BY <1>9, <1>11, <1>14
    <3>8. u \in cut => keptStatus[u] # Cleaning!NoStatus
      BY <3>1, <3>3 DEF Returns
    <3>. QED
      BY <1>5, <3>1, <3>2, <3>4, <3>5, <3>6, <3>7, <3>8 DEF Returns, Own, OwnOrNone
  <2>. QED
    BY <2>1, <2>2
<1>16. \A w \in Readers : w \in unlucky => w \in unlucky'
  BY <1>5
<1>17. /\ reader' \in [Readers -> ReaderRecord] /\ cut' \subseteq Readers
       /\ u \in cut' => reader'[u].status = "disabled"
       /\ hit' \in [Cleaning!Cleaners -> SUBSET Readers]
  BY <1>1, <1>5 DEF CleanTyped
<1>18. /\ n.todo[u] # Cleaning!NoStatus
       /\ \A w \in Readers : w # u => n.todo[w] = cleaner[c].todo[w]
  BY <1>9, <1>11, <1>13
<1>19. /\ keptStatus' = keptStatus /\ listed' = listed /\ doomed' = doomed /\ pressed' = pressed
       /\ hadStatus' = hadStatus
  BY <1>5
<1>20. /\ \A w \in Readers : w # u => reader'[w] = reader[w] /\ (w \in cut' <=> w \in cut)
                                  /\ (w \in unlucky => w \in unlucky')
       /\ \A d \in Cleaning!Cleaners : hit'[d] \subseteq hit[d] \cup exposed[d]
  BY <1>5, <1>16
<1>21. u = Cleaning!Turn(c) /\ Cleaning!ToDo(c) # {}
  BY <1>2, <1>3
<1>. QED
  BY <1>11, <1>12, <1>15, <1>17, <1>18, <1>19, <1>20, <1>21, CleanerMoves

\* The panel disables the user: he is cut off until his row is written.
LEMMA DisableUserKeeps ==
    ASSUME CleanInductive, Exposes, NEW c \in Cleaning!Cleaners, Cleaning!Disable(c)
    PROVE  CleanInductive'
<1>1. CleanTyped /\ Found(c)
  BY DEF CleanInductive
<1>2. Cleaning!ToDo(c) # {} /\ cleaner[c].at = "disabling"
  BY <1>1, WorkingHasTurn DEF Cleaning!Disable
<1>3. PICK u \in Readers : u = Cleaning!Turn(c) /\ cleaner[c].todo[u] # Cleaning!NoStatus
  BY <1>2, TurnIs
<1>4. /\ reader' = [reader EXCEPT ![u].status = "disabled"]
      /\ cleaner' = [cleaner EXCEPT ![c].at = "recording"]
      /\ cut' = cut \cup {u} /\ hit' = [hit EXCEPT ![c] = @ \cup {u}]
      /\ keptStatus' = keptStatus /\ listed' = listed /\ doomed' = doomed /\ pressed' = pressed
      /\ hadStatus' = hadStatus /\ unlucky' = unlucky
  BY <1>3 DEF Cleaning!Disable
<1>5. PICK n : n = [at |-> "recording", todo |-> cleaner[c].todo]
  OBVIOUS
<1>6. n \in CleanerRecord /\ n.at = "recording" /\ n.todo = cleaner[c].todo
  BY <1>1, <1>5 DEF CleanerRecord, CleanTyped
<1>7. cleaner' = [cleaner EXCEPT ![c] = n]
  <2>1. [cleaner[c] EXCEPT !.at = "recording"] = n
    BY <1>1, <1>5 DEF CleanTyped, CleanerRecord
  <2>. QED
    BY <1>4, <2>1
<1>8. reader' \in [Readers -> ReaderRecord] /\ reader'[u].status = "disabled"
  <2>1. PICK r : r = [reader[u] EXCEPT !.status = "disabled"]
    OBVIOUS
  <2>2. reader[u] \in ReaderRecord
    BY <1>1 DEF CleanTyped
  <2>3. r \in ReaderRecord /\ r.status = "disabled"
    BY <2>1, <2>2 DEF ReaderRecord, Cleaning!Statuses
  <2>4. reader' = [reader EXCEPT ![u] = r]
    BY <1>4, <2>1
  <2>. QED
    BY <1>1, <2>3, <2>4 DEF CleanTyped
<1>9. \A w \in Readers : w # u => reader'[w] = reader[w] /\ (w \in cut' <=> w \in cut)
                                 /\ (w \in unlucky => w \in unlucky')
  BY <1>1, <1>4 DEF CleanTyped
<1>10. /\ cut' \subseteq Readers /\ hit' \in [Cleaning!Cleaners -> SUBSET Readers]
       /\ \A d \in Cleaning!Cleaners : hit'[d] \subseteq hit[d] \cup exposed[d]
  <2>1. u \in exposed[c]
    BY <1>1, <1>3 DEF Found, Cleaning!ToDo
  <2>. QED
    BY <1>1, <1>4, <2>1 DEF CleanTyped
<1>11. Returns(u)'
  <2>1. CASE u \in unlucky'
    BY <2>1 DEF Returns
  <2>2. CASE u \notin unlucky'
    <3>1. Returns(u) /\ u \notin unlucky /\ AtUser(c, u)
      BY <1>2, <1>3, <1>4, <2>2 DEF CleanInductive, AtUser
    <3>2. /\ cleaner'[c] = n /\ \A d \in Cleaning!Cleaners : d # c => cleaner'[d] = cleaner[d]
      BY <1>1, <1>7 DEF CleanTyped
    <3>3. \A d \in Cleaning!Cleaners : cleaner'[d].todo = cleaner[d].todo
      BY <1>6, <3>2
    <3>4. \A d \in Cleaning!Cleaners : Cleaning!ToDo(d)' = Cleaning!ToDo(d)
      BY <3>3 DEF Cleaning!ToDo
    <3>5. \A d \in Cleaning!Cleaners : Cleaning!Turn(d)' = Cleaning!Turn(d)
      BY <3>4 DEF Cleaning!Turn
    <3>6. \A d \in Cleaning!Cleaners : AtUser(d, u)' <=> AtUser(d, u)
      BY <1>2, <1>6, <3>2, <3>5 DEF AtUser
    <3>7. Recording(c, u)' /\ u \in cut'
      BY <1>3, <1>4, <1>6, <3>2, <3>5 DEF Recording
    <3>8. pressed[u].at = "idle"
      BY <3>1 DEF Returns
    <3>9. cleaner'["bot"].todo[u] = cleaner["bot"].todo[u]
      BY <3>3 DEF Cleaning!Cleaners
    <3>. QED
      BY <1>4, <3>1, <3>3, <3>6, <3>7, <3>8, <3>9 DEF Returns, Own, OwnOrNone
  <2>. QED
    BY <2>1, <2>2
<1>12. /\ u = Cleaning!Turn(c) /\ n.todo[u] # Cleaning!NoStatus
       /\ \A w \in Readers : w # u => n.todo[w] = cleaner[c].todo[w]
  BY <1>3, <1>6
<1>13. /\ keptStatus' = keptStatus /\ listed' = listed /\ doomed' = doomed /\ pressed' = pressed
       /\ hadStatus' = hadStatus
  BY <1>4
<1>14. reader' \in [Readers -> ReaderRecord] /\ (u \in cut' => reader'[u].status = "disabled")
  BY <1>8
<1>. QED
  BY <1>2, <1>6, <1>7, <1>9, <1>10, <1>11, <1>12, <1>13, <1>14, CleanerMoves

\* The row is written, and there is something to give back.
LEMMA RecordKeeps ==
    ASSUME CleanInductive, Exposes, NEW c \in Cleaning!Cleaners, Cleaning!CreateDisabledUser(c)
    PROVE  CleanInductive'
<1>1. CleanTyped
  BY DEF CleanInductive
<1>2. Cleaning!ToDo(c) # {} /\ cleaner[c].at = "recording"
  BY <1>1, WorkingHasTurn DEF Cleaning!CreateDisabledUser
<1>3. PICK u \in Readers : u = Cleaning!Turn(c) /\ cleaner[c].todo[u] # Cleaning!NoStatus
  BY <1>2, TurnIs
<1>4. PICK n \in CleanerRecord :
        /\ n = Cleaning!Done(c, cleaner[c].todo) /\ n.at \in {"idle", "working"}
        /\ \A w \in Readers : n.todo[w] \in {cleaner[c].todo[w], Cleaning!NoStatus}
  BY <1>1, DoneIs
<1>5. /\ keptStatus' = [keptStatus EXCEPT ![u] = Cleaning!Kept(c, u)]
      /\ reader' = reader /\ listed' = listed /\ doomed' = doomed /\ pressed' = pressed
      /\ cut' = cut /\ hadStatus' = hadStatus /\ hit' = hit /\ unlucky' = unlucky
  BY <1>3 DEF Cleaning!CreateDisabledUser
<1>6. cleaner' = [cleaner EXCEPT ![c] = n]
  BY <1>1, <1>4 DEF Cleaning!CreateDisabledUser, CleanTyped
<1>7. /\ Cleaning!Kept(c, u) \in Cleaning!Statuses
      /\ Cleaning!Kept(c, u) # Cleaning!NoStatus
  <2>1. keptStatus[u] \in Cleaning!Statuses \cup {Cleaning!NoStatus}
    BY <1>1 DEF CleanTyped, Lists
  <2>2. cleaner[c].todo[u] \in Cleaning!Statuses
    BY <1>1, <1>3 DEF CleanTyped, CleanerRecord, Lists
  <2>3. Cleaning!NoStatus \notin Cleaning!Statuses
    BY DEF Cleaning!Statuses, Cleaning!NoStatus
  <2>. QED
    BY <2>1, <2>2, <2>3 DEF Cleaning!Kept
<1>8. keptStatus' \in Lists /\ keptStatus'[u] = Cleaning!Kept(c, u)
      /\ \A w \in Readers : w # u => keptStatus'[w] = keptStatus[w]
  BY <1>1, <1>5, <1>7 DEF CleanTyped, Lists
<1>9. u \in unlucky \/ Own(u, Cleaning!Kept(c, u))
  <2>1. AtUser(c, u)
    BY <1>2, <1>3 DEF AtUser
  <2>2. CASE u \notin unlucky
    <3>1. /\ OwnOrNone(u, keptStatus[u])
          /\ Own(u, cleaner[c].todo[u])
               \/ (c = "dashboard" /\ keptStatus[u] # Cleaning!NoStatus)
      BY <2>1, <2>2 DEF CleanInductive, Returns
    <3>. QED
      BY <3>1 DEF Cleaning!Kept, OwnOrNone
  <2>. QED
    BY <2>2
<1>10. ASSUME NEW w \in Readers
       PROVE  \/ w \in unlucky'
              \/ keptStatus'[w] = keptStatus[w] /\ ~Recording(c, w)
              \/ AtUser(c, w) /\ Own(w, keptStatus'[w]) /\ keptStatus'[w] # Cleaning!NoStatus
  <2>1. CASE w = u
    BY <1>2, <1>3, <1>5, <1>7, <1>8, <1>9, <2>1 DEF AtUser
  <2>2. CASE w # u
    BY <1>3, <1>8, <2>2 DEF Recording
  <2>. QED
    BY <2>1, <2>2
<1>11. /\ listed' \in [Cleaning!Cleaners -> Lists]
       /\ doomed' \in [Cleaning!Cleaners -> SUBSET Readers]
       /\ \A d \in Cleaning!Cleaners :
            /\ doomed'[d] \subseteq doomed[d]
            /\ \A w \in Readers : listed'[d][w] \in {listed[d][w], Cleaning!NoStatus}
       /\ unlucky \subseteq unlucky'
  BY <1>1, <1>5 DEF CleanTyped
<1>12. \A w \in Readers : n.todo[w] \in {cleaner[c].todo[w], listed[c][w], Cleaning!NoStatus}
  BY <1>4
<1>. QED
  BY <1>4, <1>5, <1>6, <1>8, <1>10, <1>11, <1>12, TurnsToNext

\* Whoever the panel has disabled already is out of luck.
LEMMA UserFailsKeeps ==
    ASSUME CleanInductive, Exposes, NEW c \in Cleaning!Cleaners, Cleaning!UserFails(c)
    PROVE  CleanInductive'
<1>1. CleanTyped
  BY DEF CleanInductive
<1>2. PICK n \in CleanerRecord :
        /\ n = Cleaning!Done(c, cleaner[c].todo) /\ n.at \in {"idle", "working"}
        /\ \A w \in Readers : n.todo[w] \in {cleaner[c].todo[w], Cleaning!NoStatus}
  BY <1>1, DoneIs
<1>3. /\ unlucky' = IF cleaner[c].at = "recording" THEN unlucky \cup {Cleaning!Turn(c)} ELSE unlucky
      /\ reader' = reader /\ listed' = listed /\ doomed' = doomed /\ pressed' = pressed
      /\ cut' = cut /\ hadStatus' = hadStatus /\ hit' = hit /\ keptStatus' = keptStatus
  BY DEF Cleaning!UserFails
<1>4. cleaner' = [cleaner EXCEPT ![c] = n]
  BY <1>1, <1>2 DEF Cleaning!UserFails, CleanTyped
<1>5. \A w \in Readers : w \in unlucky' \/ (keptStatus'[w] = keptStatus[w] /\ ~Recording(c, w))
  BY <1>3 DEF Recording
<1>6. /\ listed' \in [Cleaning!Cleaners -> Lists] /\ keptStatus' \in Lists
      /\ doomed' \in [Cleaning!Cleaners -> SUBSET Readers]
      /\ \A d \in Cleaning!Cleaners :
            /\ doomed'[d] \subseteq doomed[d]
            /\ \A w \in Readers : listed'[d][w] \in {listed[d][w], Cleaning!NoStatus}
      /\ unlucky \subseteq unlucky'
  BY <1>1, <1>3 DEF CleanTyped
<1>7. \A w \in Readers : n.todo[w] \in {cleaner[c].todo[w], listed[c][w], Cleaning!NoStatus}
  BY <1>2
<1>. QED
  BY <1>2, <1>3, <1>4, <1>5, <1>6, <1>7, TurnsToNext

\* So is he when the process stops, and the bot's lists are forgotten.
LEMMA CutOffKeeps ==
    ASSUME CleanInductive, Exposes, NEW c \in Cleaning!Cleaners, Cleaning!CutOff(c)
    PROVE  CleanInductive'
<1>1. CleanTyped
  BY DEF CleanInductive
<1>2. Cleaning!Nothing \in Lists /\ \A u \in Readers : Cleaning!Nothing[u] = Cleaning!NoStatus
  BY DEF Cleaning!Nothing, Lists
<1>3. PICK n : n = Cleaning!Resting
  OBVIOUS
<1>4. n \in CleanerRecord /\ n.at = "idle" /\ \A w \in Readers : n.todo[w] = Cleaning!NoStatus
  BY <1>2, <1>3 DEF Cleaning!Resting, CleanerRecord
<1>5. /\ unlucky' = IF cleaner[c].at = "recording" THEN unlucky \cup {Cleaning!Turn(c)} ELSE unlucky
      /\ reader' = reader /\ pressed' = pressed /\ cut' = cut /\ hadStatus' = hadStatus
      /\ hit' = hit /\ keptStatus' = keptStatus /\ cleaner' = [cleaner EXCEPT ![c] = n]
  BY <1>3 DEF Cleaning!CutOff
<1>6. /\ listed' = IF c = "bot" THEN [listed EXCEPT ![c] = Cleaning!Nothing] ELSE listed
      /\ doomed' = IF c = "bot" THEN [doomed EXCEPT ![c] = {}] ELSE doomed
  BY DEF Cleaning!CutOff
<1>7. /\ listed' \in [Cleaning!Cleaners -> Lists]
      /\ \A d \in Cleaning!Cleaners :
            \A w \in Readers : listed'[d][w] \in {listed[d][w], Cleaning!NoStatus}
  BY <1>1, <1>2, <1>6 DEF CleanTyped
<1>8. /\ doomed' \in [Cleaning!Cleaners -> SUBSET Readers]
      /\ \A d \in Cleaning!Cleaners : doomed'[d] \subseteq doomed[d]
  BY <1>1, <1>6 DEF CleanTyped
<1>9. \A w \in Readers : w \in unlucky' \/ (keptStatus'[w] = keptStatus[w] /\ ~Recording(c, w))
  BY <1>5 DEF Recording
<1>10. keptStatus' \in Lists /\ unlucky \subseteq unlucky'
  BY <1>1, <1>5 DEF CleanTyped
<1>11. \A w \in Readers : n.todo[w] \in {cleaner[c].todo[w], listed[c][w], Cleaning!NoStatus}
  BY <1>4
<1>. QED
  BY <1>4, <1>5, <1>7, <1>8, <1>9, <1>10, <1>11, TurnsToNext

-----------------------------------------------------------------------------

\* User u presses the button, or it goes on, in the way the step at hand says.
LEMMA ButtonMoves ==
    ASSUME CleanInductive, Exposes, NEW u \in Readers, NEW b \in ReturnRecord,
           b.at # "idle" => b.status # Cleaning!NoStatus,
           pressed' = [pressed EXCEPT ![u] = b],
           cleaner' = cleaner, listed' = listed, doomed' = doomed, hit' = hit,
           hadStatus' = hadStatus,
           reader' \in [Readers -> ReaderRecord], keptStatus' \in Lists, cut' \subseteq cut,
           u \in cut' => reader'[u].status = "disabled",
           \A w \in Readers : w # u => /\ reader'[w] = reader[w] /\ keptStatus'[w] = keptStatus[w]
                                       /\ (w \in cut' <=> w \in cut)
                                       /\ (w \in unlucky => w \in unlucky'),
           u \in unlucky' \/
             (/\ u \in cut' \/ Own(u, reader'[u].status)
              /\ OwnOrNone(u, keptStatus'[u])
              /\ b.at # "idle" => Own(u, b.status)
              /\ b.at = "deleting" => u \notin cut'
              /\ u \notin unlucky
              /\ \A c \in Cleaning!Cleaners : ~AtUser(c, u)
              /\ u \in cut' => keptStatus'[u] # Cleaning!NoStatus)
    PROVE  CleanInductive'
<1>1. CleanTyped /\ \A d \in Cleaning!Cleaners : Found(d)
  BY DEF CleanInductive
<1>2. /\ pressed' \in [Readers -> ReturnRecord] /\ pressed'[u] = b
      /\ \A w \in Readers : w # u => pressed'[w] = pressed[w]
  BY <1>1 DEF CleanTyped
<1>3. CleanTyped'
  <2>1. exposed' \in [Cleaning!Cleaners -> SUBSET Readers]
    BY <1>1 DEF Exposes, CleanTyped
  <2>2. \A w \in cut' : w \in Readers /\ reader'[w].status = "disabled"
    BY <1>1 DEF CleanTyped
  <2>3. \A w \in Readers : pressed'[w].at # "idle" => pressed'[w].status # Cleaning!NoStatus
    BY <1>1, <1>2 DEF CleanTyped
  <2>. QED
    BY <1>1, <1>2, <2>1, <2>2, <2>3 DEF CleanTyped
<1>4. \A c \in Cleaning!Cleaners : Cleaning!ToDo(c)' = Cleaning!ToDo(c)
  BY DEF Cleaning!ToDo
<1>5. \A c \in Cleaning!Cleaners, w \in Readers :
        (AtUser(c, w)' <=> AtUser(c, w)) /\ (Recording(c, w)' <=> Recording(c, w))
  BY <1>4 DEF AtUser, Recording, Cleaning!Turn
<1>6. ASSUME NEW c \in Cleaning!Cleaners PROVE Found(c)'
  BY <1>1, <1>4, FoundStays DEF Found
<1>7. ASSUME NEW w \in Readers PROVE Returns(w)'
  <2>1. Returns(w)
    BY DEF CleanInductive
  <2>2. CASE w # u
    BY <1>2, <1>5, <2>1, <2>2 DEF Returns, Own, OwnOrNone
  <2>3. CASE w = u /\ u \in unlucky'
    BY <2>3 DEF Returns
  <2>4. CASE w = u /\ u \notin unlucky'
    BY <1>2, <1>5, <2>1, <2>4 DEF Returns, Own, OwnOrNone
  <2>. QED
    BY <2>2, <2>3, <2>4
<1>. QED
  BY <1>3, <1>6, <1>7 DEF CleanInductive

\* What is kept for him is his own, and no cleaner is at him, or the two crossed.
LEMMA ReactivateKeeps ==
    ASSUME CleanInductive, Exposes, NEW u \in Readers, Cleaning!SubcheckReactivate(u)
    PROVE  CleanInductive'
<1>1. CleanTyped /\ Returns(u)
  BY DEF CleanInductive
<1>2. PICK b : b = [at |-> "restoring", status |-> keptStatus[u]]
  OBVIOUS
<1>3. /\ pressed' = [pressed EXCEPT ![u] = b] /\ keptStatus[u] # Cleaning!NoStatus
      /\ unlucky' = IF Cleaning!Busy(u) THEN unlucky \cup {u} ELSE unlucky
      /\ cleaner' = cleaner /\ listed' = listed /\ doomed' = doomed /\ hit' = hit
      /\ hadStatus' = hadStatus /\ reader' = reader /\ keptStatus' = keptStatus /\ cut' = cut
  BY <1>2 DEF Cleaning!SubcheckReactivate, Cleaning!Crossed
<1>4. b \in ReturnRecord /\ b.at = "restoring" /\ b.status = keptStatus[u]
  BY <1>1, <1>2 DEF ReturnRecord, CleanTyped, Lists
<1>5. u \in unlucky' \/
        (/\ u \in cut' \/ Own(u, reader'[u].status)
         /\ OwnOrNone(u, keptStatus'[u]) /\ Own(u, b.status)
         /\ u \notin unlucky /\ \A c \in Cleaning!Cleaners : ~AtUser(c, u))
  <2>1. CASE u \notin unlucky'
    <3>1. u \notin unlucky /\ ~Cleaning!Busy(u)
      BY <1>3, <2>1
    <3>2. \A c \in Cleaning!Cleaners : ~AtUser(c, u)
      BY <3>1 DEF AtUser, Cleaning!Busy
    <3>. QED
      BY <1>1, <1>3, <1>4, <3>1, <3>2 DEF Returns, OwnOrNone
  <2>. QED
    BY <2>1
<1>6. /\ reader' \in [Readers -> ReaderRecord] /\ keptStatus' \in Lists /\ cut' \subseteq cut
      /\ u \in cut' => reader'[u].status = "disabled"
  BY <1>1, <1>3 DEF CleanTyped
<1>7. \A w \in Readers : w # u => /\ reader'[w] = reader[w] /\ keptStatus'[w] = keptStatus[w]
                                  /\ (w \in cut' <=> w \in cut)
                                  /\ (w \in unlucky => w \in unlucky')
  BY <1>3
<1>8. /\ b.at # "deleting" /\ b.status # Cleaning!NoStatus /\ keptStatus'[u] # Cleaning!NoStatus
      /\ cleaner' = cleaner /\ listed' = listed /\ doomed' = doomed /\ hit' = hit
      /\ hadStatus' = hadStatus
  BY <1>3, <1>4
<1>. QED
  BY <1>3, <1>4, <1>5, <1>6, <1>7, <1>8, ButtonMoves

\* Pressed, no cleaner is at him.
LEMMA PressedAlone ==
    ASSUME CleanInductive, NEW u \in Readers, pressed[u].at # "idle", u \notin unlucky
    PROVE  \A c \in Cleaning!Cleaners : ~AtUser(c, u)
BY DEF CleanInductive, Returns

\* The panel gives the status back: it is his own.
LEMMA RestoreKeeps ==
    ASSUME CleanInductive, Exposes, NEW u \in Readers, Cleaning!RestoreStatus(u)
    PROVE  CleanInductive'
<1>1. CleanTyped /\ Returns(u)
  BY DEF CleanInductive
<1>2. /\ reader[u] \in ReaderRecord /\ pressed[u] \in ReturnRecord
      /\ pressed[u].status \in Cleaning!Statuses /\ pressed[u].at = "restoring"
  BY <1>1 DEF CleanTyped, ReturnRecord, Cleaning!RestoreStatus
<1>3. PICK b : b = [pressed[u] EXCEPT !.at = "deleting"]
  OBVIOUS
<1>4. b \in ReturnRecord /\ b.at = "deleting" /\ b.status = pressed[u].status
  BY <1>2, <1>3 DEF ReturnRecord
<1>5. PICK r : r = [reader[u] EXCEPT !.status = pressed[u].status]
  OBVIOUS
<1>6. r \in ReaderRecord /\ r.status = pressed[u].status
  BY <1>2, <1>5 DEF ReaderRecord
<1>7. /\ pressed' = [pressed EXCEPT ![u] = b] /\ reader' = [reader EXCEPT ![u] = r]
      /\ cut' = cut \ {u}
      /\ cleaner' = cleaner /\ listed' = listed /\ doomed' = doomed /\ hit' = hit
      /\ hadStatus' = hadStatus /\ keptStatus' = keptStatus /\ unlucky' = unlucky
  BY <1>3, <1>5 DEF Cleaning!RestoreStatus
<1>8. /\ reader' \in [Readers -> ReaderRecord] /\ reader'[u] = r
      /\ \A w \in Readers : w # u => /\ reader'[w] = reader[w] /\ keptStatus'[w] = keptStatus[w]
                                     /\ (w \in cut' <=> w \in cut)
                                     /\ (w \in unlucky => w \in unlucky')
  BY <1>1, <1>6, <1>7 DEF CleanTyped
<1>9. u \in unlucky' \/
        (/\ Own(u, reader'[u].status) /\ OwnOrNone(u, keptStatus'[u]) /\ Own(u, b.status)
         /\ u \notin unlucky /\ \A c \in Cleaning!Cleaners : ~AtUser(c, u))
  BY <1>1, <1>2, <1>4, <1>6, <1>7, <1>8, PressedAlone DEF Returns
<1>10. /\ keptStatus' \in Lists /\ cut' \subseteq cut /\ u \notin cut'
       /\ b.status # Cleaning!NoStatus
  BY <1>1, <1>2, <1>4, <1>7 DEF CleanTyped, Cleaning!Statuses, Cleaning!NoStatus
<1>. QED
  BY <1>4, <1>7, <1>8, <1>9, <1>10, ButtonMoves

\* The row is deleted: he is not cut off any more.
LEMMA DeleteRowKeeps ==
    ASSUME CleanInductive, Exposes, NEW u \in Readers, Cleaning!DeleteDisabledUser(u)
    PROVE  CleanInductive'
<1>1. CleanTyped /\ Returns(u)
  BY DEF CleanInductive
<1>2. PICK b : b = Cleaning!GivenBack(u)
  OBVIOUS
<1>3. b \in ReturnRecord /\ b.at = "idle"
  BY <1>2 DEF ReturnRecord, Cleaning!GivenBack
<1>4. /\ pressed' = [pressed EXCEPT ![u] = b]
      /\ keptStatus' = [keptStatus EXCEPT ![u] = Cleaning!NoStatus]
      /\ pressed[u].at = "deleting" /\ reader' = reader /\ cut' = cut
      /\ cleaner' = cleaner /\ listed' = listed /\ doomed' = doomed /\ hit' = hit
      /\ hadStatus' = hadStatus /\ unlucky' = unlucky
  BY <1>2 DEF Cleaning!DeleteDisabledUser
<1>5. /\ keptStatus' \in Lists /\ keptStatus'[u] = Cleaning!NoStatus
      /\ \A w \in Readers : w # u => keptStatus'[w] = keptStatus[w]
  BY <1>1, <1>4 DEF CleanTyped, Lists
<1>6. u \in unlucky' \/
        (/\ u \in cut' \/ Own(u, reader'[u].status)
         /\ u \notin cut'
         /\ OwnOrNone(u, keptStatus'[u])
         /\ u \notin unlucky /\ \A c \in Cleaning!Cleaners : ~AtUser(c, u))
  BY <1>1, <1>4, <1>5, PressedAlone DEF Returns, OwnOrNone
<1>7. /\ reader' \in [Readers -> ReaderRecord] /\ cut' \subseteq cut
      /\ u \in cut' => reader'[u].status = "disabled"
      /\ \A w \in Readers : w # u => /\ reader'[w] = reader[w] /\ keptStatus'[w] = keptStatus[w]
                                     /\ (w \in cut' <=> w \in cut)
                                     /\ (w \in unlucky => w \in unlucky')
  BY <1>1, <1>4, <1>5 DEF CleanTyped
<1>. QED
  BY <1>3, <1>4, <1>5, <1>6, <1>7, ButtonMoves

\* The button is forgotten, and whoever was restored stays so.
LEMMA PressFailsKeeps ==
    ASSUME CleanInductive, Exposes, NEW u \in Readers, Cleaning!ReactivationFails(u)
    PROVE  CleanInductive'
<1>1. CleanTyped /\ Returns(u)
  BY DEF CleanInductive
<1>2. PICK b : b = Cleaning!GivenBack(u)
  OBVIOUS
<1>3. b \in ReturnRecord /\ b.at = "idle"
  BY <1>2 DEF ReturnRecord, Cleaning!GivenBack
<1>4. /\ pressed' = [pressed EXCEPT ![u] = b] /\ keptStatus' = keptStatus
      /\ pressed[u].at # "idle" /\ reader' = reader /\ cut' = cut
      /\ cleaner' = cleaner /\ listed' = listed /\ doomed' = doomed /\ hit' = hit
      /\ hadStatus' = hadStatus /\ unlucky' = unlucky
  BY <1>2 DEF Cleaning!ReactivationFails
<1>5. \A c \in Cleaning!Cleaners : u \in unlucky \/ (~AtUser(c, u) /\ ~Recording(c, u))
  BY <1>4, PressedAlone DEF AtUser, Recording
<1>6. u \in unlucky' \/
        (/\ u \in cut' \/ Own(u, reader'[u].status)
         /\ OwnOrNone(u, keptStatus'[u]) /\ (u \in cut' => keptStatus'[u] # Cleaning!NoStatus)
         /\ u \notin unlucky /\ \A c \in Cleaning!Cleaners : ~AtUser(c, u))
  BY <1>1, <1>4, <1>5 DEF Returns
<1>7. /\ reader' \in [Readers -> ReaderRecord] /\ cut' \subseteq cut /\ keptStatus' \in Lists
      /\ u \in cut' => reader'[u].status = "disabled"
      /\ \A w \in Readers : w # u => /\ reader'[w] = reader[w] /\ keptStatus'[w] = keptStatus[w]
                                     /\ (w \in cut' <=> w \in cut)
                                     /\ (w \in unlucky => w \in unlucky')
  BY <1>1, <1>4 DEF CleanTyped
<1>. QED
  BY <1>3, <1>4, <1>6, <1>7, ButtonMoves

-----------------------------------------------------------------------------

\* Whatever becomes of a row, it stays one.
LEMMA RowChanges ==
    ASSUME NEW r \in ReaderRecord
    PROVE  /\ [r EXCEPT !.member = ~@] \in ReaderRecord
           /\ [r EXCEPT !.banned = ~@] \in ReaderRecord
           /\ [r EXCEPT !.vip = ~@] \in ReaderRecord
           /\ [r EXCEPT !.row = FALSE, !.vip = FALSE, !.banned = FALSE, !.paid = "never"]
                \in ReaderRecord
           /\ [r EXCEPT !.paid = "active", !.status = "active"] \in ReaderRecord
           /\ [r EXCEPT !.status = "expired",
                        !.paid = IF @ = "active" THEN "ended" ELSE @] \in ReaderRecord
<1>1. /\ [r EXCEPT !.member = ~@] \in ReaderRecord
      /\ [r EXCEPT !.banned = ~@] \in ReaderRecord
      /\ [r EXCEPT !.vip = ~@] \in ReaderRecord
  BY DEF ReaderRecord
<1>2. [r EXCEPT !.row = FALSE, !.vip = FALSE, !.banned = FALSE, !.paid = "never"]
        \in ReaderRecord
  BY DEF ReaderRecord
<1>3. [r EXCEPT !.paid = "active", !.status = "active"] \in ReaderRecord
  BY DEF ReaderRecord, Cleaning!Statuses
<1>4. [r EXCEPT !.status = "expired", !.paid = IF @ = "active" THEN "ended" ELSE @]
        \in ReaderRecord
  BY DEF ReaderRecord, Cleaning!Statuses
<1>. QED
  BY <1>1, <1>2, <1>3, <1>4

\* What users and admins do.
LEMMA PeopleKeep ==
    ASSUME CleanInductive, Exposes, NEW u \in Readers,
           \/ Cleaning!ChannelChanges(u) \/ Cleaning!SetBanned(u) \/ Cleaning!SetVip(u)
           \/ Cleaning!DeleteUser(u) \/ Cleaning!Pays(u) \/ Cleaning!PeriodEnds(u)
    PROVE  CleanInductive'
<1>1. reader[u] \in ReaderRecord
  BY DEF CleanInductive, CleanTyped
<1>2. \E row \in ReaderRecord : Cleaning!Becomes(u, row)
  BY <1>1, RowChanges DEF Cleaning!ChannelChanges, Cleaning!SetBanned, Cleaning!SetVip,
     Cleaning!DeleteUser, Cleaning!Pays, Cleaning!PeriodEnds
<1>. QED
  BY <1>2, BecomesKeeps

\* Every step of the channel clean keeps it.
LEMMA CleanSteps == CleanInductive /\ [Cleaning!Next]_cleanVars => CleanInductive'
<1>. SUFFICES ASSUME CleanInductive, [Cleaning!Next]_cleanVars PROVE CleanInductive'
  OBVIOUS
<1>1. CASE Cleaning!Next
  <2>1. Exposes
    BY <1>1 DEF Cleaning!Next, Exposes
  <2>2. Cleaning!Step
    BY <1>1 DEF Cleaning!Next
  <2>3. ASSUME NEW c \in Cleaning!Cleaners,
               \/ Cleaning!SubCleanScan(c) \/ Cleaning!AskStatus(c) \/ Cleaning!Disable(c)
               \/ Cleaning!CreateDisabledUser(c) \/ Cleaning!UserFails(c) \/ Cleaning!CutOff(c)
               \/ Cleaning!TelemtCleanScan(c)
        PROVE  CleanInductive'
    BY <2>1, <2>3, ScanKeeps, AskStatusKeeps, DisableUserKeeps, RecordKeeps, UserFailsKeeps,
       CutOffKeeps, TelemtScanKeeps
  <2>4. ASSUME NEW u \in Readers,
               \/ Cleaning!SubcheckReactivate(u) \/ Cleaning!RestoreStatus(u)
               \/ Cleaning!DeleteDisabledUser(u) \/ Cleaning!ReactivationFails(u)
               \/ Cleaning!TelemtFreeBuy(u) \/ Cleaning!TelemtClaim(u)
        PROVE  CleanInductive'
    BY <2>1, <2>4, ReactivateKeeps, RestoreKeeps, DeleteRowKeeps, PressFailsKeeps, TelemtClaimKeeps
       DEF Cleaning!TelemtClaim
  <2>5. \/ \E c \in Cleaning!Cleaners :
             \/ Cleaning!SubCleanScan(c) \/ Cleaning!AskStatus(c) \/ Cleaning!Disable(c)
             \/ Cleaning!CreateDisabledUser(c) \/ Cleaning!UserFails(c) \/ Cleaning!CutOff(c)
             \/ Cleaning!TelemtCleanScan(c)
        \/ Cleaning!AdminConfirmSubClean \/ Cleaning!SubCleanExecute
        \/ Cleaning!AdminConfirmTelemtClean \/ Cleaning!TelemtCleanExecute
        \/ \E u \in Readers :
             \/ Cleaning!SubcheckReactivate(u) \/ Cleaning!RestoreStatus(u)
             \/ Cleaning!DeleteDisabledUser(u) \/ Cleaning!ReactivationFails(u)
             \/ Cleaning!TelemtFreeBuy(u) \/ Cleaning!TelemtClaim(u)
        \/ \E u \in Readers :
             \/ Cleaning!ChannelChanges(u) \/ Cleaning!SetBanned(u) \/ Cleaning!SetVip(u)
             \/ Cleaning!DeleteUser(u) \/ Cleaning!Pays(u) \/ Cleaning!PeriodEnds(u)
        \/ Cleaning!TelegramFails
    BY <2>2 DEF Cleaning!Step
  <2>. QED
    BY <2>1, <2>3, <2>4, <2>5, BeginsKeeps, TelemtExecuteKeeps, PeopleKeep, OutageKeeps
<1>2. CASE UNCHANGED cleanVars
  <2>1. /\ reader' = reader /\ keptStatus' = keptStatus /\ telegramDown' = telegramDown
        /\ listed' = listed /\ doomed' = doomed /\ cleaner' = cleaner /\ pressed' = pressed
        /\ cut' = cut /\ hadStatus' = hadStatus /\ exposed' = exposed /\ hit' = hit
        /\ unlucky' = unlucky
    BY <1>2 DEF cleanVars
  <2>2. CleanTyped'
    BY <2>1 DEF CleanInductive, CleanTyped
  <2>3. \A c \in Cleaning!Cleaners : Found(c)'
    BY <2>1 DEF CleanInductive, Found, Cleaning!ToDo, Cleaning!Open, Cleaning!Unpaid,
       Cleaning!Subscribed
  <2>4. \A u \in Readers : Returns(u)'
    BY <2>1 DEF CleanInductive, Returns, Own, OwnOrNone, AtUser, Recording, Cleaning!Turn,
       Cleaning!ToDo
  <2>. QED
    BY <2>2, <2>3, <2>4 DEF CleanInductive
<1>. QED
  BY <1>1, <1>2

\* Whoever lost something was exposed, and whoever is cut off finds a status of his own.
LEMMA CleanConcludes == CleanInductive => Cleaning!CleanSound
<1>. SUFFICES ASSUME CleanInductive PROVE Cleaning!CleanSound
  OBVIOUS
<1>1. Cleaning!OnlyExposed
  BY DEF Cleaning!OnlyExposed, CleanInductive, Found
<1>2. ASSUME NEW u \in cut \ unlucky,
             \A c \in Cleaning!Cleaners : cleaner[c].at = "recording" => Cleaning!Turn(c) # u
      PROVE  keptStatus[u] \in hadStatus[u] \cup {"active"}
  <2>1. u \in Readers /\ Returns(u)
    BY DEF CleanInductive, CleanTyped
  <2>. QED
    BY <1>2, <2>1 DEF Returns, Recording, OwnOrNone, Own
<1>. QED
  BY <1>1, <1>2 DEF Cleaning!CleanSound, Cleaning!WayBack

\* For any number of users, and whatever the bot, the dashboard, users and admins do at the
\* same time, fails or is cut off: a cleaner takes profile or proxy account only from those it
\* could have met outside the channel, and whoever is disabled finds a status of his own to
\* come back to, unless two crossed on him or a request was cut off after the panel had
\* disabled him (sub_clean, telemt_clean, subcheck_reactivate).
THEOREM CleanIsSound == Spec => []CleanSound
<1>1. Init => Cleaning!Init
  BY DEF Init
<1>2. [Next]_allVars => [Cleaning!Next]_cleanVars
  BY DEF Next, LinksNext, TransferNext, MergeNext, AccessNext, StoreNext, DrawNext, FreeNext,
     CredentialsNext, CheckoutNext, RatesNext, GuardsNext, ScreensNext, CleanNext, ImportNext,
     PageNext, IdentityNext, allVars, salesSide, cleanVars
<1>3. CleanInductive => CleanSound
  BY CleanConcludes DEF CleanSound
<1>. QED
  BY <1>1, <1>2, <1>3, CleanBegins, CleanSteps, PTL DEF Spec

-----------------------------------------------------------------------------
(***************************************************************************)
(* Ranking.  People with tickets are ordered by how many they hold and, of *)
(* equally many, by id; the first k of them are those fewer than k others  *)
(* are ahead of.                                                           *)
(***************************************************************************)

Ahead(h, v, u) == h[v] > h[u] \/ (h[v] = h[u] /\ v < u)

AheadOf(E, h, u) == {v \in E : Ahead(h, v, u)}

First(E, h, k) == {u \in E : Cardinality(AheadOf(E, h, u)) < k}

\* Whoever is ahead of somebody has fewer ahead of him.
LEMMA AheadIsLess ==
    ASSUME NEW E, IsFiniteSet(E), E \subseteq Nat, NEW h \in [E -> Nat],
           NEW u \in E, NEW v \in E, Ahead(h, v, u)
    PROVE  /\ AheadOf(E, h, v) \subseteq AheadOf(E, h, u)
           /\ AheadOf(E, h, v) # AheadOf(E, h, u)
           /\ Cardinality(AheadOf(E, h, v)) < Cardinality(AheadOf(E, h, u))
<1>1. AheadOf(E, h, v) \subseteq AheadOf(E, h, u)
  <2>1. ASSUME NEW w \in E, Ahead(h, w, v) PROVE Ahead(h, w, u)
    <3>1. /\ h[w] \in Nat /\ h[v] \in Nat /\ h[u] \in Nat
          /\ w \in Nat /\ v \in Nat /\ u \in Nat
      OBVIOUS
    <3>. QED
      BY <2>1, <3>1 DEF Ahead
  <2>. QED
    BY <2>1 DEF AheadOf
<1>2. v \in AheadOf(E, h, u) /\ v \notin AheadOf(E, h, v)
  BY DEF AheadOf, Ahead
<1>3. IsFiniteSet(AheadOf(E, h, u)) /\ IsFiniteSet(AheadOf(E, h, v))
  BY FS_Subset DEF AheadOf
<1>4. /\ Cardinality(AheadOf(E, h, v)) \in Nat /\ Cardinality(AheadOf(E, h, u)) \in Nat
      /\ Cardinality(AheadOf(E, h, v)) <= Cardinality(AheadOf(E, h, u))
      /\ Cardinality(AheadOf(E, h, u)) # Cardinality(AheadOf(E, h, v))
  BY <1>1, <1>2, <1>3, FS_Subset, FS_CardinalityType
<1>. QED
  BY <1>1, <1>2, <1>4

\* Of any group somebody has nobody of the group ahead of him, and somebody is last.
LEMMA FirstAndLast ==
    ASSUME NEW E, IsFiniteSet(E), E \subseteq Nat, NEW h \in [E -> Nat],
           NEW G, G \subseteq E, G # {}
    PROVE  /\ \E e \in G : \A v \in G : ~Ahead(h, v, e)
           /\ \E e \in G : \A v \in G : ~Ahead(h, e, v)
<1>1. IsWellFoundedOn(StrictSubsetOrdering(E), SUBSET E)
  BY FS_StrictSubsetOrderingWellFounded, FS_FiniteSubsetsOfFinite
<1>2. \E e \in G : \A v \in G : ~Ahead(h, v, e)
  <2>1. PICK T : T = {AheadOf(E, h, u) : u \in G}
    OBVIOUS
  <2>2. T \subseteq SUBSET E /\ T # {}
    BY <2>1 DEF AheadOf
  <2>3. PICK x \in T : \A y \in T : <<y, x>> \notin StrictSubsetOrdering(E)
    BY <1>1, <2>2, WFMin
  <2>4. PICK e \in G : x = AheadOf(E, h, e)
    BY <2>1, <2>3
  <2>5. ASSUME NEW v \in G, Ahead(h, v, e) PROVE FALSE
    <3>1. /\ AheadOf(E, h, v) \subseteq x /\ AheadOf(E, h, v) # x
          /\ AheadOf(E, h, v) \in T /\ AheadOf(E, h, v) \in SUBSET E /\ x \in SUBSET E
      BY <2>1, <2>2, <2>4, <2>5, AheadIsLess
    <3>. QED
      BY <2>3, <3>1 DEF StrictSubsetOrdering
  <2>. QED
    BY <2>4, <2>5
<1>3. \E e \in G : \A v \in G : ~Ahead(h, e, v)
  <2>1. PICK T : T = {E \ AheadOf(E, h, u) : u \in G}
    OBVIOUS
  <2>2. T \subseteq SUBSET E /\ T # {}
    BY <2>1
  <2>3. PICK x \in T : \A y \in T : <<y, x>> \notin StrictSubsetOrdering(E)
    BY <1>1, <2>2, WFMin
  <2>4. PICK e \in G : x = E \ AheadOf(E, h, e)
    BY <2>1, <2>3
  <2>5. ASSUME NEW v \in G, Ahead(h, e, v) PROVE FALSE
    <3>1. AheadOf(E, h, e) \subseteq AheadOf(E, h, v) /\ AheadOf(E, h, e) # AheadOf(E, h, v)
      BY <2>5, AheadIsLess
    <3>2. PICK y : y = E \ AheadOf(E, h, v)
      OBVIOUS
    <3>3. AheadOf(E, h, e) \subseteq E /\ AheadOf(E, h, v) \subseteq E
      BY DEF AheadOf
    <3>4. y \subseteq x /\ y # x /\ y \in T /\ y \in SUBSET E /\ x \in SUBSET E
      BY <2>1, <2>4, <3>1, <3>2, <3>3
    <3>. QED
      BY <2>3, <3>4 DEF StrictSubsetOrdering
  <2>. QED
    BY <2>4, <2>5
<1>. QED
  BY <1>2, <1>3

\* There are k first, or everybody.
LEMMA FirstCount ==
    ASSUME NEW E, IsFiniteSet(E), E \subseteq Nat, NEW h \in [E -> Nat], NEW k \in Nat
    PROVE  Cardinality(First(E, h, k)) = IF Cardinality(E) < k THEN Cardinality(E) ELSE k
<1>1. PICK W : W = First(E, h, k)
  OBVIOUS
<1>2. W \subseteq E /\ IsFiniteSet(W) /\ Cardinality(W) \in Nat /\ Cardinality(E) \in Nat
  BY <1>1, FS_Subset, FS_CardinalityType DEF First
<1>3. ASSUME NEW u \in E PROVE IsFiniteSet(AheadOf(E, h, u)) /\ Cardinality(AheadOf(E, h, u)) \in Nat
  BY FS_Subset, FS_CardinalityType DEF AheadOf
<1>4. Cardinality(W) <= k
  <2>1. CASE W = {}
    BY <2>1, FS_EmptySet
  <2>2. CASE W # {}
    <3>1. PICK e \in W : \A v \in W : ~Ahead(h, e, v)
      BY <1>2, <2>2, FirstAndLast
    <3>2. ASSUME NEW v \in W, v # e PROVE v \in AheadOf(E, h, e)
      <4>1. h[v] \in Nat /\ h[e] \in Nat /\ v \in Nat /\ e \in Nat /\ v \in E
        BY <1>2
      <4>2. ~Ahead(h, e, v)
        BY <3>1
      <4>. QED
        BY <3>2, <4>1, <4>2 DEF AheadOf, Ahead
    <3>3. /\ IsFiniteSet(AheadOf(E, h, e) \cup {e})
          /\ Cardinality(AheadOf(E, h, e) \cup {e}) <= Cardinality(AheadOf(E, h, e)) + 1
      <4>1. e \in E
        BY <1>2
      <4>2. IsFiniteSet(AheadOf(E, h, e)) /\ Cardinality(AheadOf(E, h, e)) \in Nat
        BY <1>3, <4>1
      <4>3. /\ IsFiniteSet(AheadOf(E, h, e) \cup {e})
            /\ Cardinality(AheadOf(E, h, e) \cup {e})
                 = IF e \in AheadOf(E, h, e) THEN Cardinality(AheadOf(E, h, e))
                   ELSE Cardinality(AheadOf(E, h, e)) + 1
        BY <4>2, FS_AddElement
      <4>. QED
        BY <4>2, <4>3
    <3>4. Cardinality(W) <= Cardinality(AheadOf(E, h, e) \cup {e})
      BY <3>2, <3>3, FS_Subset
    <3>5. Cardinality(AheadOf(E, h, e)) < k /\ Cardinality(AheadOf(E, h, e)) \in Nat
      BY <1>1, <1>2, <1>3 DEF First
    <3>6. Cardinality(AheadOf(E, h, e) \cup {e}) \in Nat
      BY <3>3, FS_CardinalityType
    <3>. QED
      BY <1>2, <3>3, <3>4, <3>5, <3>6
  <2>. QED
    BY <2>1, <2>2
<1>5. CASE W = E
  BY <1>1, <1>2, <1>4, <1>5
<1>6. CASE W # E
  <2>1. E \ W # {} /\ E \ W \subseteq E
    BY <1>2, <1>6
  <2>2. PICK e \in E \ W : \A v \in E \ W : ~Ahead(h, v, e)
    BY <2>1, FirstAndLast
  <2>3. AheadOf(E, h, e) \subseteq W /\ Cardinality(AheadOf(E, h, e)) >= k
    <3>1. AheadOf(E, h, e) \subseteq W
      BY <2>2 DEF AheadOf
    <3>2. ~(Cardinality(AheadOf(E, h, e)) < k) /\ Cardinality(AheadOf(E, h, e)) \in Nat
      BY <1>1, <1>3, <2>2 DEF First
    <3>. QED
      BY <3>1, <3>2
  <2>4. Cardinality(AheadOf(E, h, e)) <= Cardinality(W) /\ Cardinality(W) <= Cardinality(E)
    BY <1>2, <2>3, FS_Subset
  <2>. QED
    BY <1>1, <1>2, <1>3, <1>4, <2>2, <2>3, <2>4
<1>. QED
  BY <1>5, <1>6

\* None of the first has less than anybody who is not among them.
LEMMA FirstHaveMost ==
    ASSUME NEW E, IsFiniteSet(E), E \subseteq Nat, NEW h \in [E -> Nat], NEW k \in Nat,
           NEW x \in First(E, h, k), NEW y \in E \ First(E, h, k)
    PROVE  h[x] >= h[y]
<1>. SUFFICES ASSUME h[x] < h[y] PROVE FALSE
  BY DEF First
<1>1. Ahead(h, y, x) /\ x \in E /\ y \in E
  BY DEF Ahead, First
<1>2. Cardinality(AheadOf(E, h, y)) < Cardinality(AheadOf(E, h, x))
  BY <1>1, AheadIsLess
<1>3. /\ Cardinality(AheadOf(E, h, y)) \in Nat /\ Cardinality(AheadOf(E, h, x)) \in Nat
  BY FS_Subset, FS_CardinalityType DEF AheadOf
<1>. QED
  BY <1>1, <1>2, <1>3 DEF First

-----------------------------------------------------------------------------
(***************************************************************************)
(* Giveaways.                                                              *)
(***************************************************************************)

\* Cardinality in the instance is cardinality.
LEMMA DrawCounts == ASSUME NEW S PROVE Draw!Cardinality(S) = Cardinality(S)
BY DEF Draw!Cardinality, Cardinality

\* A row of the tickets, and what a session has in hand.
TicketRow ==
    [id : 1..MaxTickets, user : Players, source : {"join"} \cup Draw!Sources,
     from : Players \cup {NoPlayer}]

AnyTicket ==
    [id : 0..MaxTickets, user : Players \cup {NoPlayer},
     source : {"join", "none"} \cup Draw!Sources, from : Players \cup {NoPlayer}]

DrawRecord ==
    [pc : {"idle", "join", "joined", "grant", "granted", "status", "draw", "redraw"},
     user : Players \cup {NoPlayer}, ticket : AnyTicket, to : {"none", "active", "closed"},
     pick : SUBSET Players, pool : SUBSET (Players \X Nat)]

DrawTyped ==
    /\ participants \subseteq Players
    /\ tickets \subseteq TicketRow /\ IsFiniteSet(tickets)
    /\ lastTicket \in 0..MaxTickets
    /\ session \in [Requests -> DrawRecord]

\* Each ticket has an id of its own.
IdsDiffer == \A t, v \in tickets : t.id = v.id => t = v

\* W won among those of whom P says how many tickets they held.
Ranked(W, P) ==
    /\ Cardinality(W) = IF Cardinality(P) < WinnerCount THEN Cardinality(P) ELSE WinnerCount
    /\ \A w \in W : \E n \in 1..MaxTickets : <<w, n>> \in P
    /\ selection = "most_tickets" =>
         \A x, y \in P : x[1] \in W /\ y[1] \notin W => x[2] >= y[2]

\* Nobody holds more tickets than there are.
LEMMA HeldBounded ==
    ASSUME DrawTyped, IdsDiffer, DrawSizes, NEW u
    PROVE  Draw!Held(u) \in 0..MaxTickets
<1>1. PICK S : S = {t \in tickets : t.user = u}
  OBVIOUS
<1>2. [t \in S |-> t.id] \in Injection(S, 1..MaxTickets)
  <2>1. \A t \in S : t.id \in 1..MaxTickets
    BY <1>1 DEF DrawTyped, TicketRow
  <2>. QED
    BY <1>1, <2>1 DEF IdsDiffer, Injection, IsInjective
<1>3. IsFiniteSet(1..MaxTickets) /\ Cardinality(1..MaxTickets) = MaxTickets
  BY FS_Interval DEF DrawSizes
<1>4. IsFiniteSet(S) /\ Cardinality(S) <= MaxTickets /\ Cardinality(S) \in Nat
  BY <1>2, <1>3, FS_Injection, FS_CardinalityType
<1>5. Draw!Held(u) = Cardinality(S)
  BY <1>1, DrawCounts DEF Draw!Held
<1>. QED
  BY <1>4, <1>5 DEF DrawSizes

\* How many entries are counted is how many entrants there are.
LEMMA PoolCount ==
    ASSUME NEW E, IsFiniteSet(E), NEW h \in [E -> Nat]
    PROVE  /\ IsFiniteSet({<<u, h[u]>> : u \in E})
           /\ Cardinality({<<u, h[u]>> : u \in E}) = Cardinality(E)
<1>1. PICK P : P = {<<u, h[u]>> : u \in E}
  OBVIOUS
<1>2. [u \in E |-> <<u, h[u]>>] \in Bijection(E, P)
  BY <1>1 DEF Bijection, Injection, Surjection, IsInjective
<1>3. ExistsBijection(E, P)
  BY <1>2 DEF ExistsBijection
<1>. QED
  BY <1>1, <1>3, FS_Bijection

\* Those who have the most.
Most(E, h) == {u \in E : \A v \in E : h[v] <= h[u]}

\* All of T, and of the others those fewer than k are ahead of.
Leading(E, h, k, T) ==
    T \cup {u \in E \ T : Cardinality({v \in E : Ahead(h, v, u) \/ v \in T}) < k}

\* Whoever has the most is among the first, unless these are too many, and the others that
\* are taken are the first of them.
LEMMA TopFirst ==
    ASSUME NEW E, IsFiniteSet(E), E \subseteq Nat, NEW h \in [E -> Nat], NEW k \in Nat,
           ~(Cardinality(Most(E, h)) > k)
    PROVE  First(E, h, k) = Leading(E, h, k, Most(E, h))
<1>0. PICK T : T = Most(E, h)
  OBVIOUS
<1>1. ASSUME NEW u \in T PROVE Cardinality(AheadOf(E, h, u)) < k
  <2>1. AheadOf(E, h, u) \subseteq T \ {u}
    <3>1. ASSUME NEW v \in E, Ahead(h, v, u) PROVE v \in T /\ v # u
      <4>1. /\ u \in E /\ h[u] \in Nat /\ h[v] \in Nat /\ u \in Nat /\ v \in Nat
            /\ \A w \in E : h[w] <= h[u] /\ h[w] \in Nat
        BY <1>0 DEF Most
      <4>2. h[v] = h[u] /\ v # u
        BY <3>1, <4>1 DEF Ahead
      <4>. QED
        BY <1>0, <4>1, <4>2 DEF Most
    <3>. QED
      BY <3>1 DEF AheadOf
  <2>2. IsFiniteSet(T) /\ Cardinality(T) \in Nat /\ Cardinality(T) <= k
    <3>1. IsFiniteSet(T)
      BY <1>0, FS_Subset DEF Most
    <3>. QED
      BY <1>0, <3>1, FS_CardinalityType
  <2>3. IsFiniteSet(T \ {u}) /\ Cardinality(T \ {u}) = Cardinality(T) - 1
    BY <2>2, FS_RemoveElement
  <2>4. /\ IsFiniteSet(AheadOf(E, h, u)) /\ Cardinality(AheadOf(E, h, u)) <= Cardinality(T \ {u})
        /\ Cardinality(AheadOf(E, h, u)) \in Nat
    BY <2>1, <2>3, FS_Subset, FS_CardinalityType
  <2>. QED
    BY <2>2, <2>3, <2>4
<1>2. ASSUME NEW u \in E \ T
      PROVE  {v \in E : Ahead(h, v, u) \/ v \in T} = AheadOf(E, h, u)
  <2>1. ASSUME NEW v \in T PROVE Ahead(h, v, u)
    <3>1. PICK w \in E : ~(h[w] <= h[u])
      BY <1>0 DEF Most
    <3>2. h[w] \in Nat /\ h[u] \in Nat /\ h[v] \in Nat /\ h[w] <= h[v]
      BY <1>0 DEF Most
    <3>. QED
      BY <3>1, <3>2 DEF Ahead
  <2>. QED
    BY <2>1 DEF AheadOf
<1>3. T \subseteq E
  BY <1>0 DEF Most
<1>4. \A u \in E \ T : Cardinality({v \in E : Ahead(h, v, u) \/ v \in T})
                        = Cardinality(AheadOf(E, h, u))
  BY <1>2
<1>. QED
  BY <1>0, <1>1, <1>3, <1>4 DEF First, Leading

\* The winners picked are ranked as the rule of the giveaway says.
LEMMA PicksAreRanked ==
    ASSUME DrawTyped, IdsDiffer, DrawSizes, NEW X, NEW W \in Draw!Picks(Draw!Entries(X))
    PROVE  /\ W \subseteq Draw!Entries(X) /\ Draw!Entries(X) \subseteq Players
           /\ Ranked(W, {<<u, Draw!Held(u)>> : u \in Draw!Entries(X)})
<1>1. PICK E : E = Draw!Entries(X)
  OBVIOUS
<1>2. PICK h : h = [u \in E |-> Draw!Held(u)]
  OBVIOUS
<1>3. /\ E \subseteq Players /\ E \subseteq Nat /\ IsFiniteSet(E) /\ h \in [E -> Nat]
      /\ \A u \in E : h[u] = Draw!Held(u) /\ h[u] \in 1..MaxTickets
  <2>1. E \subseteq Players /\ \A u \in E : Draw!Held(u) > 0
    BY <1>1 DEF Draw!Entries
  <2>2. \A u \in E : h[u] = Draw!Held(u) /\ Draw!Held(u) \in 0..MaxTickets
    BY <1>2, HeldBounded
  <2>3. E \subseteq Nat /\ IsFiniteSet(E)
    BY <2>1, FS_Subset DEF DrawSizes
  <2>4. h \in [E -> Nat]
    BY <1>2, <2>2
  <2>. QED
    BY <2>1, <2>2, <2>3, <2>4 DEF DrawSizes
<1>4. PICK P : P = {<<u, Draw!Held(u)>> : u \in E}
  OBVIOUS
<1>5. /\ Cardinality(P) = Cardinality(E) /\ Cardinality(E) \in Nat
      /\ \A x \in P : x[1] \in E /\ x[2] = h[x[1]]
  <2>1. P = {<<u, h[u]>> : u \in E}
    BY <1>3, <1>4
  <2>. QED
    <3>1. Cardinality(P) = Cardinality(E)
      BY <1>3, <2>1, PoolCount
    <3>2. Cardinality(E) \in Nat
      BY <1>3, FS_CardinalityType
    <3>3. \A x \in P : x[1] \in E /\ x[2] = h[x[1]]
      BY <2>1
    <3>. QED
      BY <3>1, <3>2, <3>3
<1>6. WinnerCount \in Nat
  BY DEF DrawSizes
<1>7. ASSUME W \subseteq E,
             Cardinality(W) = IF Cardinality(E) < WinnerCount THEN Cardinality(E) ELSE WinnerCount,
             selection = "most_tickets" => \A x \in W, y \in E \ W : h[x] >= h[y]
      PROVE  Ranked(W, P)
  <2>1. \A w \in W : \E n \in 1..MaxTickets : <<w, n>> \in P
    BY <1>3, <1>4, <1>7
  <2>. QED
    BY <1>5, <1>7, <2>1 DEF Ranked
<1>8. CASE selection = "random"
  <2>1. W \subseteq E /\ Cardinality(W) = IF Cardinality(E) < WinnerCount THEN Cardinality(E)
                                          ELSE WinnerCount
    BY <1>1, <1>8, DrawCounts DEF Draw!Picks, Draw!RandomPicks, Draw!Fewer
  <2>. QED
    BY <1>1, <1>3, <1>4, <1>7, <1>8, <2>1
<1>9. CASE selection # "random"
  <2>1. PICK T : T = {u \in E : \A v \in E : h[v] <= h[u]}
    OBVIOUS
  <2>2. T = {u \in E : \A v \in E : Draw!Held(v) <= Draw!Held(u)} /\ T \subseteq E
    BY <1>3, <2>1
  <2>3. W \in Draw!MostTicketsPicks(E)
    BY <1>1, <1>9 DEF Draw!Picks
  <2>4. IsFiniteSet(T) /\ Cardinality(T) \in Nat /\ Cardinality(T) <= Cardinality(E)
    BY <1>3, <2>2, FS_Subset, FS_CardinalityType
  <2>5. CASE Cardinality(T) > WinnerCount
    <3>1. W \subseteq T /\ Cardinality(W) = WinnerCount
      BY <2>2, <2>3, <2>5, DrawCounts DEF Draw!MostTicketsPicks
    <3>2. \A x \in W, y \in E : h[x] >= h[y]
      <4>1. ASSUME NEW x \in W, NEW y \in E PROVE h[x] >= h[y]
        <5>1. x \in E /\ h[y] <= h[x] /\ h[x] \in Nat /\ h[y] \in Nat
          BY <1>3, <2>1, <3>1
        <5>. QED
          BY <5>1
      <4>. QED
        BY <4>1
    <3>3. ~(Cardinality(E) < WinnerCount)
      BY <1>5, <1>6, <2>4, <2>5
    <3>. QED
      BY <1>1, <1>3, <1>4, <1>7, <2>2, <3>1, <3>2, <3>3
  <2>6. CASE ~(Cardinality(T) > WinnerCount)
    <3>1. W = T \cup {u \in E \ T :
                Cardinality({v \in E : Draw!Before(v, u) \/ v \in T}) < WinnerCount}
      BY <2>2, <2>3, <2>6, DrawCounts DEF Draw!MostTicketsPicks
    <3>2. \A u, v \in E : Draw!Before(v, u) <=> Ahead(h, v, u)
      BY <1>3 DEF Draw!Before, Ahead
    <3>3. \A u \in E : {v \in E : Draw!Before(v, u) \/ v \in T} = {v \in E : Ahead(h, v, u) \/ v \in T}
      BY <3>2
    <3>4. W = First(E, h, WinnerCount)
      <4>1. T = Most(E, h)
        BY <2>1 DEF Most
      <4>2. First(E, h, WinnerCount) = Leading(E, h, WinnerCount, T)
        BY <1>3, <1>6, <2>6, <4>1, TopFirst
      <4>. QED
        BY <2>2, <3>1, <3>3, <4>2 DEF Leading
    <3>5. /\ W \subseteq E
          /\ Cardinality(W) = IF Cardinality(E) < WinnerCount THEN Cardinality(E)
                              ELSE WinnerCount
      <4>1. First(E, h, WinnerCount) \subseteq E
        BY DEF First
      <4>2. Cardinality(First(E, h, WinnerCount))
              = IF Cardinality(E) < WinnerCount THEN Cardinality(E) ELSE WinnerCount
        BY <1>3, <1>6, FirstCount
      <4>. QED
        BY <3>4, <4>1, <4>2
    <3>6. \A x \in W, y \in E \ W : h[x] >= h[y]
      BY <1>3, <1>6, <3>4, FirstHaveMost
    <3>. QED
      BY <1>1, <1>3, <1>4, <1>7, <3>5, <3>6
  <2>. QED
    BY <2>5, <2>6
<1>. QED
  BY <1>8, <1>9

\* Neither two rows nor two inserts of one reason, and a ticket for everybody who takes part.
TicketsRight ==
    /\ IdsDiffer
    /\ \A t, v \in tickets : Draw!Same(t, v) => t = v
    /\ \A t \in tickets :
         /\ t.user \in participants /\ t.id <= lastTicket
         /\ t.source = "join" => t.from = NoPlayer
    /\ \A u \in participants : \E t \in tickets : t.user = u /\ t.source = "join"

\* What session s is about to insert is not there yet.
InsertRight(s) ==
    /\ session[s].pc = "join" => session[s].user \in Players
    /\ session[s].pc = "joined" =>
         /\ session[s].ticket.user = session[s].user /\ session[s].user \notin participants
         /\ session[s].ticket.source = "join" /\ session[s].ticket.from = NoPlayer
    /\ session[s].pc \in {"grant", "granted"} =>
         session[s].ticket.user \in participants /\ session[s].ticket.source \in Draw!Sources
    /\ session[s].pc = "granted" => \A t \in tickets : ~Draw!Same(t, session[s].ticket)
    /\ Draw!Inserting(s) =>
         /\ session[s].ticket \in TicketRow /\ session[s].ticket.id <= lastTicket
         /\ \A t \in tickets : t.id # session[s].ticket.id

\* Nor do two sessions insert the same.
InsertsDiffer(s, r) ==
    s # r /\ Draw!Inserting(s) /\ Draw!Inserting(r) =>
        /\ session[s].ticket.id # session[r].ticket.id
        /\ ~Draw!Same(session[s].ticket, session[r].ticket)

Drawing(s) == session[s].pc \in {"draw", "redraw"}

\* Whoever draws holds the lock, so the winners are still those he replaces.
DrawRight(s) ==
    /\ lock = s <=> Drawing(s)
    /\ session[s].pc = "draw" => winners = {}
    /\ session[s].pc = "redraw" =>
         session[s].pick \cap winners = {} /\ Cardinality(session[s].pick) = WinnerCount
    /\ Drawing(s) => Ranked(session[s].pick, session[s].pool)

DrawInductive ==
    /\ DrawTyped /\ TicketsRight
    /\ \A s \in Requests : InsertRight(s) /\ DrawRight(s)
    /\ \A s, r \in Requests : InsertsDiffer(s, r)
    /\ winners # {} => Ranked(winners, drawn)

\* An idle session is a session.
LEMMA IdleIs == ASSUME DrawSizes PROVE Draw!Idle \in DrawRecord /\ Draw!Idle.pc = "idle"
<1>1. PICK t : t = Draw!NoTicket
  OBVIOUS
<1>2. t \in AnyTicket
  BY <1>1 DEF Draw!NoTicket, AnyTicket, DrawSizes
<1>3. PICK i : i = Draw!Idle
  OBVIOUS
<1>4. i = [pc |-> "idle", user |-> NoPlayer, ticket |-> t, to |-> "none", pick |-> {}, pool |-> {}]
  BY <1>1, <1>3 DEF Draw!Idle
<1>. QED
  BY <1>2, <1>3, <1>4 DEF DrawRecord

\* A step of session s that inserts nothing and does not change what is there.
LEMMA InsertsStay ==
    ASSUME DrawInductive, NEW s \in Requests, NEW d \in DrawRecord,
           session' = [session EXCEPT ![s] = d], d.pc \notin {"joined", "granted"},
           d.pc = "join" => d.user \in Players,
           d.pc = "grant" => d.ticket.user \in participants /\ d.ticket.source \in Draw!Sources,
           tickets' = tickets, participants' = participants, lastTicket' = lastTicket
    PROVE  /\ DrawTyped' /\ TicketsRight'
           /\ \A r \in Requests : InsertRight(r)'
           /\ \A r, q \in Requests : InsertsDiffer(r, q)'
<1>1. DrawTyped /\ TicketsRight
  BY DEF DrawInductive
<1>2. /\ session' \in [Requests -> DrawRecord] /\ session'[s] = d
      /\ \A r \in Requests : r # s => session'[r] = session[r]
  BY <1>1 DEF DrawTyped
<1>3. DrawTyped'
  BY <1>1, <1>2 DEF DrawTyped
<1>4. TicketsRight'
  BY <1>1 DEF TicketsRight, IdsDiffer, Draw!Same
<1>5. ASSUME NEW r \in Requests PROVE InsertRight(r)'
  <2>1. CASE r = s
    BY <1>2, <2>1 DEF InsertRight, Draw!Inserting
  <2>2. CASE r # s
    <3>1. InsertRight(r) /\ session'[r] = session[r]
      BY <1>2, <2>2 DEF DrawInductive
    <3>. QED
      BY <3>1 DEF InsertRight, Draw!Inserting, Draw!Same
  <2>. QED
    BY <2>1, <2>2
<1>6. ASSUME NEW r \in Requests, NEW q \in Requests PROVE InsertsDiffer(r, q)'
  <2>1. CASE r = s \/ q = s
    BY <1>2, <2>1 DEF InsertsDiffer, Draw!Inserting
  <2>2. CASE r # s /\ q # s
    <3>1. InsertsDiffer(r, q) /\ session'[r] = session[r] /\ session'[q] = session[q]
      BY <1>2, <2>2 DEF DrawInductive
    <3>. QED
      BY <3>1 DEF InsertsDiffer, Draw!Inserting, Draw!Same
  <2>. QED
    BY <2>1, <2>2
<1>. QED
  BY <1>3, <1>4, <1>5, <1>6

\* A step of session s that does not draw.
LEMMA DrawsStay ==
    ASSUME DrawInductive, NEW s \in Requests, NEW d \in DrawRecord,
           session' = [session EXCEPT ![s] = d], ~Drawing(s), d.pc \notin {"draw", "redraw"},
           lock' = lock, winners' = winners, drawn' = drawn, selection' = selection
    PROVE  /\ \A r \in Requests : DrawRight(r)'
           /\ winners' # {} => Ranked(winners, drawn)'
<1>1. /\ session'[s] = d /\ \A r \in Requests : r # s => session'[r] = session[r]
  BY DEF DrawInductive, DrawTyped
<1>2. ASSUME NEW r \in Requests PROVE DrawRight(r)'
  <2>1. DrawRight(r)
    BY DEF DrawInductive
  <2>2. CASE r = s
    BY <1>1, <2>1, <2>2 DEF DrawRight, Drawing
  <2>3. CASE r # s
    <3>1. session'[r] = session[r]
      BY <1>1, <2>3
    <3>. QED
      BY <2>1, <3>1 DEF DrawRight, Drawing, Ranked
  <2>. QED
    BY <2>2, <2>3
<1>3. winners' # {} => Ranked(winners, drawn)'
  BY DEF DrawInductive, Ranked
<1>. QED
  BY <1>2, <1>3

\* A session begins or ends something that is neither an insert nor a draw.
LEMMA QuietSession ==
    ASSUME DrawInductive, NEW s \in Requests, NEW d \in DrawRecord,
           session' = [session EXCEPT ![s] = d], ~Drawing(s),
           d.pc \in {"idle", "join", "grant", "status"},
           d.pc = "join" => d.user \in Players,
           d.pc = "grant" => d.ticket.user \in participants /\ d.ticket.source \in Draw!Sources,
           tickets' = tickets, participants' = participants, lastTicket' = lastTicket,
           lock' = lock, winners' = winners, drawn' = drawn, selection' = selection
    PROVE  DrawInductive'
<1>1. /\ DrawTyped' /\ TicketsRight'
      /\ \A r \in Requests : InsertRight(r)'
      /\ \A r, q \in Requests : InsertsDiffer(r, q)'
  BY InsertsStay
<1>2. /\ \A r \in Requests : DrawRight(r)'
      /\ winners' # {} => Ranked(winners, drawn)'
  BY DrawsStay
<1>. QED
  BY <1>1, <1>2 DEF DrawInductive

-----------------------------------------------------------------------------

\* Joining, granting and changing the status begin.
LEMMA BeginsQuietly ==
    ASSUME DrawInductive, DrawSizes, NEW s \in Requests,
           \/ \E u \in Players : Draw!BeginJoin(s, u)
           \/ \E u, v \in Players, source \in Draw!Sources : Draw!BeginGrant(s, u, source, v)
           \/ Draw!Activate(s) \/ Draw!CloseGiveaway(s)
    PROVE  DrawInductive'
<1>1. PICK i : i = Draw!Idle
  OBVIOUS
<1>2. i \in DrawRecord /\ i.pc = "idle"
  BY <1>1, IdleIs
<1>3. CASE \E u \in Players : Draw!BeginJoin(s, u)
  <2>1. PICK u \in Players : Draw!BeginJoin(s, u)
    BY <1>3
  <2>2. PICK d : d = [i EXCEPT !.pc = "join", !.user = u]
    OBVIOUS
  <2>3. d \in DrawRecord /\ d.pc = "join" /\ d.user = u
    BY <1>2, <2>2 DEF DrawRecord
  <2>4. /\ session' = [session EXCEPT ![s] = d] /\ ~Drawing(s)
        /\ tickets' = tickets /\ participants' = participants /\ lastTicket' = lastTicket
        /\ lock' = lock /\ winners' = winners /\ drawn' = drawn /\ selection' = selection
    BY <1>1, <2>1, <2>2 DEF Draw!BeginJoin, Draw!Open, Drawing
  <2>. QED
    BY <2>3, <2>4, QuietSession
<1>4. CASE \E u, v \in Players, source \in Draw!Sources : Draw!BeginGrant(s, u, source, v)
  <2>1. PICK u \in Players, v \in Players, source \in Draw!Sources : Draw!BeginGrant(s, u, source, v)
    BY <1>4
  <2>2. PICK t : t = [id |-> 0, user |-> u, source |-> source, from |-> v]
    OBVIOUS
  <2>3. t \in AnyTicket /\ t.user = u /\ t.source = source
    BY <2>2 DEF AnyTicket, DrawSizes
  <2>4. PICK d : d = [i EXCEPT !.pc = "grant", !.ticket = t]
    OBVIOUS
  <2>5. d \in DrawRecord /\ d.pc = "grant" /\ d.ticket = t
    BY <1>2, <2>3, <2>4 DEF DrawRecord
  <2>6. /\ session' = [session EXCEPT ![s] = d] /\ ~Drawing(s) /\ u \in participants
        /\ tickets' = tickets /\ participants' = participants /\ lastTicket' = lastTicket
        /\ lock' = lock /\ winners' = winners /\ drawn' = drawn /\ selection' = selection
    BY <1>1, <2>1, <2>2, <2>4 DEF Draw!BeginGrant, Draw!Open, Drawing
  <2>. QED
    BY <2>3, <2>5, <2>6, QuietSession
<1>5. CASE Draw!Activate(s) \/ Draw!CloseGiveaway(s)
  <2>1. PICK to \in {"active", "closed"}, from \in {"draft", "active"} : Draw!BeginStatus(s, from, to)
    BY <1>5 DEF Draw!Activate, Draw!CloseGiveaway
  <2>2. PICK d : d = [i EXCEPT !.pc = "status", !.to = to]
    OBVIOUS
  <2>3. d \in DrawRecord /\ d.pc = "status"
    BY <1>2, <2>2 DEF DrawRecord
  <2>4. /\ session' = [session EXCEPT ![s] = d] /\ ~Drawing(s)
        /\ tickets' = tickets /\ participants' = participants /\ lastTicket' = lastTicket
        /\ lock' = lock /\ winners' = winners /\ drawn' = drawn /\ selection' = selection
    BY <1>1, <2>1, <2>2 DEF Draw!BeginStatus, Draw!Open, Drawing
  <2>. QED
    BY <2>3, <2>4, QuietSession
<1>. QED
  BY <1>3, <1>4, <1>5

\* They fail, or the status is written.
LEMMA EndsQuietly ==
    ASSUME DrawInductive, DrawSizes, NEW s \in Requests,
           Draw!JoinFails(s) \/ Draw!GrantFails(s) \/ Draw!WriteStatus(s)
    PROVE  DrawInductive'
<1>1. PICK d : d = Draw!Idle
  OBVIOUS
<1>2. d \in DrawRecord /\ d.pc = "idle"
  BY <1>1, IdleIs
<1>3. /\ session' = [session EXCEPT ![s] = d] /\ ~Drawing(s)
      /\ tickets' = tickets /\ participants' = participants /\ lastTicket' = lastTicket
      /\ lock' = lock /\ winners' = winners /\ drawn' = drawn /\ selection' = selection
  BY <1>1 DEF Draw!JoinFails, Draw!GrantFails, Draw!WriteStatus, Draw!Close, Drawing
<1>. QED
  BY <1>2, <1>3, QuietSession

\* A session inserts a ticket: the next id is nobody else's.
LEMMA InsertKeeps ==
    ASSUME DrawInductive, DrawSizes, NEW s \in Requests, NEW d \in DrawRecord,
           lastTicket < MaxTickets, lastTicket' = lastTicket + 1,
           session' = [session EXCEPT ![s] = d], ~Drawing(s),
           d.ticket \in TicketRow, d.ticket.id = lastTicket + 1,
           \/ /\ d.pc = "joined" /\ d.ticket.user = d.user /\ d.user \notin participants
              /\ d.ticket.source = "join" /\ d.ticket.from = NoPlayer
              /\ \A r \in Requests : session[r].pc = "joined" => session[r].user # d.user
           \/ /\ d.pc = "granted" /\ d.ticket.user \in participants
              /\ d.ticket.source \in Draw!Sources
              /\ \A t \in tickets : ~Draw!Same(t, d.ticket)
              /\ \A r \in Requests : session[r].pc = "granted" => ~Draw!Same(session[r].ticket, d.ticket),
           tickets' = tickets, participants' = participants,
           lock' = lock, winners' = winners, drawn' = drawn, selection' = selection
    PROVE  DrawInductive'
<1>1. DrawTyped /\ TicketsRight
  BY DEF DrawInductive
<1>2. /\ session' \in [Requests -> DrawRecord] /\ session'[s] = d
      /\ \A r \in Requests : r # s => session'[r] = session[r]
  BY <1>1 DEF DrawTyped
<1>3. lastTicket \in Nat /\ lastTicket' \in 0..MaxTickets /\ lastTicket < lastTicket'
  BY <1>1 DEF DrawTyped, DrawSizes
<1>4. DrawTyped'
  BY <1>1, <1>2, <1>3 DEF DrawTyped
<1>5. \A t \in tickets : t.id \in Nat /\ t.id <= lastTicket
  BY <1>1 DEF DrawTyped, TicketRow, TicketsRight
<1>6. TicketsRight'
  <2>1. \A t \in tickets : t.id <= lastTicket'
    BY <1>3, <1>5
  <2>. QED
    BY <1>1, <2>1 DEF TicketsRight, IdsDiffer, Draw!Same
<1>7. ASSUME NEW r \in Requests PROVE InsertRight(r)'
  <2>1. CASE r = s
    <3>1. \A t \in tickets : t.id # d.ticket.id
      BY <1>3, <1>5
    <3>2. d.ticket.id <= lastTicket'
      BY <1>3
    <3>. QED
      BY <1>2, <2>1, <3>1, <3>2 DEF InsertRight, Draw!Inserting, Draw!Same
  <2>2. CASE r # s
    <3>1. InsertRight(r) /\ session'[r] = session[r]
      BY <1>2, <2>2 DEF DrawInductive
    <3>2. Draw!Inserting(r) => session[r].ticket.id <= lastTicket'
      BY <1>3, <3>1 DEF InsertRight, TicketRow
    <3>. QED
      BY <3>1, <3>2 DEF InsertRight, Draw!Inserting, Draw!Same
  <2>. QED
    BY <2>1, <2>2
<1>8. ASSUME NEW r \in Requests, r # s, Draw!Inserting(r)
      PROVE  session[r].ticket.id # d.ticket.id /\ ~Draw!Same(session[r].ticket, d.ticket)
  <2>1. InsertRight(r)
    BY DEF DrawInductive
  <2>2. session[r].ticket.id # d.ticket.id
    BY <1>3, <1>8, <2>1 DEF InsertRight, TicketRow
  <2>3. "join" \notin Draw!Sources
    BY DEF Draw!Sources
  <2>4. ~Draw!Same(session[r].ticket, d.ticket)
    BY <1>8, <2>1, <2>3 DEF InsertRight, Draw!Inserting, Draw!Same
  <2>. QED
    BY <2>2, <2>4
<1>9. ASSUME NEW r \in Requests, NEW q \in Requests PROVE InsertsDiffer(r, q)'
  <2>1. CASE r = s /\ q # s
    BY <1>2, <1>8, <2>1 DEF InsertsDiffer, Draw!Inserting, Draw!Same
  <2>2. CASE r # s /\ q = s
    BY <1>2, <1>8, <2>2 DEF InsertsDiffer, Draw!Inserting, Draw!Same
  <2>3. CASE r # s /\ q # s
    <3>1. InsertsDiffer(r, q) /\ session'[r] = session[r] /\ session'[q] = session[q]
      BY <1>2, <2>3 DEF DrawInductive
    <3>. QED
      BY <3>1 DEF InsertsDiffer, Draw!Inserting, Draw!Same
  <2>4. CASE r = s /\ q = s
    BY <2>4 DEF InsertsDiffer
  <2>. QED
    BY <2>1, <2>2, <2>3, <2>4
<1>10. /\ \A r \in Requests : DrawRight(r)'
       /\ winners' # {} => Ranked(winners, drawn)'
  BY DrawsStay
<1>. QED
  BY <1>4, <1>6, <1>7, <1>9, <1>10 DEF DrawInductive

\* The participant's ticket.
LEMMA InsertParticipantKeeps ==
    ASSUME DrawInductive, DrawSizes, NEW s \in Requests, Draw!InsertParticipant(s)
    PROVE  DrawInductive'
<1>1. DrawTyped /\ session[s] \in DrawRecord /\ session[s].pc = "join"
  BY DEF DrawInductive, DrawTyped, Draw!InsertParticipant
<1>2. PICK u \in Players : u = session[s].user
  BY <1>1 DEF DrawInductive, InsertRight
<1>3. PICK t : t = [id |-> lastTicket + 1, user |-> u, source |-> "join", from |-> NoPlayer]
  OBVIOUS
<1>4. /\ lastTicket < MaxTickets /\ lastTicket' = lastTicket + 1 /\ u \notin participants
      /\ \A r \in Requests : session[r].pc = "joined" => session[r].user # u
      /\ tickets' = tickets /\ participants' = participants
      /\ lock' = lock /\ winners' = winners /\ drawn' = drawn /\ selection' = selection
  BY <1>2 DEF Draw!InsertParticipant, Draw!ParticipantKey
<1>5. lastTicket + 1 \in 1..MaxTickets /\ lastTicket + 1 \in 0..MaxTickets
  BY <1>1, <1>4 DEF DrawTyped, DrawSizes
<1>6. t \in TicketRow /\ t \in AnyTicket /\ t.id = lastTicket + 1 /\ t.user = u
      /\ t.source = "join" /\ t.from = NoPlayer
  BY <1>3, <1>5 DEF TicketRow, AnyTicket
<1>7. PICK d : d = [session[s] EXCEPT !.pc = "joined", !.ticket = t]
  OBVIOUS
<1>8. d \in DrawRecord /\ d.pc = "joined" /\ d.ticket = t /\ d.user = u
  BY <1>1, <1>2, <1>6, <1>7 DEF DrawRecord
<1>9. session' = [session EXCEPT ![s] = d]
  <2>1. session' = [session EXCEPT ![s].pc = "joined", ![s].ticket = t]
    BY <1>2, <1>3, <1>4 DEF Draw!InsertParticipant
  <2>2. /\ session = [r \in Requests |-> session[r]] /\ session' = [r \in Requests |-> session'[r]]
        /\ \A r \in Requests : r # s => session'[r] = session[r]
    BY <1>1, <2>1 DEF DrawTyped
  <2>3. session'[s] = d
    BY <1>1, <1>7, <2>1 DEF DrawTyped, DrawRecord
  <2>. QED
    BY <1>1, <2>2, <2>3 DEF DrawTyped
<1>10. ~Drawing(s)
  BY <1>1 DEF Drawing
<1>. QED
  BY <1>4, <1>6, <1>8, <1>9, <1>10, InsertKeeps

\* The invitee's ticket.
LEMMA InsertTicketKeeps ==
    ASSUME DrawInductive, DrawSizes, NEW s \in Requests, Draw!InsertTicket(s)
    PROVE  DrawInductive'
<1>1. DrawTyped /\ session[s] \in DrawRecord /\ session[s].pc = "grant" /\ InsertRight(s)
  BY DEF DrawInductive, DrawTyped, Draw!InsertTicket
<1>2. PICK o : o = session[s].ticket
  OBVIOUS
<1>3. o \in AnyTicket /\ o.user \in participants /\ o.source \in Draw!Sources /\ o.user \in Players
  BY <1>1, <1>2 DEF DrawRecord, InsertRight, DrawTyped
<1>4. PICK t : t = [o EXCEPT !.id = lastTicket + 1]
  OBVIOUS
<1>5. /\ lastTicket < MaxTickets /\ lastTicket' = lastTicket + 1
      /\ \A r \in Requests : session[r].pc = "granted" => ~Draw!Same(session[r].ticket, o)
      /\ \A v \in tickets : ~Draw!Same(v, o)
      /\ tickets' = tickets /\ participants' = participants
      /\ lock' = lock /\ winners' = winners /\ drawn' = drawn /\ selection' = selection
  BY <1>2 DEF Draw!InsertTicket, Draw!TicketKey, Draw!Granted
<1>6. lastTicket + 1 \in 1..MaxTickets /\ lastTicket + 1 \in 0..MaxTickets
  BY <1>1, <1>5 DEF DrawTyped, DrawSizes
<1>7. t \in TicketRow /\ t \in AnyTicket /\ t.id = lastTicket + 1 /\ t.user = o.user
      /\ t.source = o.source /\ t.from = o.from
  BY <1>3, <1>4, <1>6 DEF TicketRow, AnyTicket
<1>8. PICK d : d = [session[s] EXCEPT !.pc = "granted", !.ticket = t]
  OBVIOUS
<1>9. d \in DrawRecord /\ d.pc = "granted" /\ d.ticket = t
  BY <1>1, <1>7, <1>8 DEF DrawRecord
<1>10. session' = [session EXCEPT ![s] = d]
  <2>1. session' = [session EXCEPT ![s].pc = "granted", ![s].ticket.id = lastTicket + 1]
    BY <1>5 DEF Draw!InsertTicket
  <2>2. /\ session = [r \in Requests |-> session[r]] /\ session' = [r \in Requests |-> session'[r]]
        /\ \A r \in Requests : r # s => session'[r] = session[r]
    BY <1>1, <2>1 DEF DrawTyped
  <2>3. session'[s] = d
    <3>1. PICK e : e = [session[s] EXCEPT !.pc = "granted"]
      OBVIOUS
    <3>2. e.ticket = o /\ e = [pc |-> "granted", user |-> session[s].user, ticket |-> o,
                              to |-> session[s].to, pick |-> session[s].pick,
                              pool |-> session[s].pool]
      BY <1>1, <1>2, <3>1 DEF DrawRecord
    <3>3. session'[s] = [e EXCEPT !.ticket.id = lastTicket + 1]
      BY <1>1, <2>1, <3>1 DEF DrawTyped
    <3>4. [e EXCEPT !.ticket.id = lastTicket + 1] = [e EXCEPT !.ticket = t]
      BY <1>4, <3>2
    <3>5. [e EXCEPT !.ticket = t] = d
      BY <1>1, <1>8, <3>1, <3>2 DEF DrawRecord
    <3>. QED
      BY <3>3, <3>4, <3>5
  <2>. QED
    BY <1>1, <2>2, <2>3 DEF DrawTyped
<1>11. /\ \A v \in tickets : ~Draw!Same(v, d.ticket)
       /\ \A r \in Requests : session[r].pc = "granted" => ~Draw!Same(session[r].ticket, d.ticket)
  BY <1>5, <1>7, <1>9 DEF Draw!Same
<1>12. ~Drawing(s)
  BY <1>1 DEF Drawing
<1>. QED
  BY <1>3, <1>5, <1>7, <1>9, <1>10, <1>11, <1>12, InsertKeeps

\* The commit makes the ticket a row, and whoever joined a participant; or nothing.
LEMMA CommitKeeps ==
    ASSUME DrawInductive, DrawSizes, NEW s \in Requests, Draw!CommitInsert(s)
    PROVE  DrawInductive'
<1>1. PICK d : d = Draw!Idle
  OBVIOUS
<1>2. d \in DrawRecord /\ d.pc = "idle"
  BY <1>1, IdleIs
<1>3. /\ session' = [session EXCEPT ![s] = d] /\ ~Drawing(s) /\ Draw!Inserting(s)
      /\ lastTicket' = lastTicket
      /\ lock' = lock /\ winners' = winners /\ drawn' = drawn /\ selection' = selection
  BY <1>1 DEF Draw!CommitInsert, Draw!Close, Drawing, Draw!Inserting
<1>4. CASE tickets' = tickets /\ participants' = participants
  BY <1>2, <1>3, <1>4, QuietSession
<1>5. CASE /\ tickets' = tickets \cup {session[s].ticket}
           /\ participants' = IF session[s].pc = "joined" THEN participants \cup {session[s].user}
                              ELSE participants
  <2>1. DrawTyped /\ TicketsRight /\ InsertRight(s)
    BY DEF DrawInductive
  <2>2. PICK n \in TicketRow : n = session[s].ticket
    BY <1>3, <2>1 DEF InsertRight
  <2>3. /\ session' \in [Requests -> DrawRecord] /\ session'[s] = d
        /\ \A r \in Requests : r # s => session'[r] = session[r]
    BY <1>2, <1>3, <2>1 DEF DrawTyped
  <2>4. /\ n.id <= lastTicket /\ \A t \in tickets : t.id # n.id
        /\ n.user \in participants' /\ participants \subseteq participants'
        /\ participants' \subseteq participants \cup {n.user}
        /\ n.source = "join" => n.from = NoPlayer
    <3>1. "join" \notin Draw!Sources
      BY DEF Draw!Sources
    <3>. QED
      BY <1>3, <1>5, <2>1, <2>2, <3>1 DEF InsertRight, Draw!Inserting
  <2>5. \A t \in tickets : ~Draw!Same(t, n) /\ ~Draw!Same(n, t)
    <3>1. CASE session[s].pc = "granted"
      BY <2>1, <2>2, <3>1 DEF InsertRight, Draw!Same
    <3>2. CASE session[s].pc = "joined"
      <4>1. n.user \notin participants
        BY <2>1, <2>2, <3>2 DEF InsertRight
      <4>. QED
        BY <2>1, <4>1 DEF TicketsRight, Draw!Same
    <3>. QED
      BY <1>3, <3>1, <3>2 DEF Draw!Inserting
  <2>6. DrawTyped'
    <3>1. IsFiniteSet(tickets')
      BY <1>5, <2>1, FS_AddElement DEF DrawTyped
    <3>2. tickets' \subseteq TicketRow /\ participants' \subseteq Players
      BY <1>5, <2>1, <2>2, <2>4 DEF DrawTyped, TicketRow
    <3>. QED
      BY <1>3, <2>1, <2>3, <3>1, <3>2 DEF DrawTyped
  <2>7. TicketsRight'
    <3>1. tickets' = tickets \cup {n}
      BY <1>5, <2>2
    <3>2. /\ \A t, v \in tickets' : t.id = v.id => t = v
          /\ \A t, v \in tickets' : Draw!Same(t, v) => t = v
      BY <2>1, <2>4, <2>5, <3>1 DEF TicketsRight, IdsDiffer
    <3>3. \A t \in tickets' : /\ t.user \in participants' /\ t.id <= lastTicket'
                              /\ t.source = "join" => t.from = NoPlayer
      BY <1>3, <2>1, <2>4, <3>1 DEF TicketsRight
    <3>4. ASSUME NEW u \in participants'
          PROVE  \E t \in tickets' : t.user = u /\ t.source = "join"
      <4>1. CASE u \in participants
        BY <2>1, <3>1, <4>1 DEF TicketsRight
      <4>2. CASE u \notin participants
        <5>1. session[s].pc = "joined" /\ u = session[s].user
          BY <1>5, <4>2
        <5>2. n.user = u /\ n.source = "join"
          BY <2>1, <2>2, <5>1 DEF InsertRight
        <5>. QED
          BY <3>1, <5>2
      <4>. QED
        BY <4>1, <4>2
    <3>. QED
      BY <3>2, <3>3, <3>4 DEF TicketsRight, IdsDiffer, Draw!Same
  <2>8. ASSUME NEW r \in Requests PROVE InsertRight(r)'
    <3>1. CASE r = s
      BY <1>2, <2>3, <3>1 DEF InsertRight, Draw!Inserting
    <3>2. CASE r # s
      <4>1. InsertRight(r) /\ InsertsDiffer(r, s) /\ session'[r] = session[r]
        BY <2>3, <3>2 DEF DrawInductive
      <4>2. Draw!Inserting(r) =>
              session[r].ticket.id # n.id /\ ~Draw!Same(n, session[r].ticket)
        BY <1>3, <2>2, <3>2, <4>1 DEF InsertsDiffer, Draw!Same
      <4>3. session[r].pc = "joined" => session[r].user \notin participants'
        <5>1. CASE session[s].pc = "joined" /\ session[r].pc = "joined"
          <6>1. session[r].user # session[s].user
            BY <1>3, <2>1, <3>2, <4>1, <5>1 DEF InsertRight, InsertsDiffer, Draw!Inserting, Draw!Same
          <6>. QED
            BY <1>5, <4>1, <5>1, <6>1 DEF InsertRight
        <5>2. CASE session[s].pc # "joined"
          BY <1>5, <4>1, <5>2 DEF InsertRight
        <5>. QED
          BY <5>1, <5>2
      <4>4. tickets' = tickets \cup {n}
        BY <1>5, <2>2
      <4>. QED
        BY <1>3, <2>4, <4>1, <4>2, <4>3, <4>4 DEF InsertRight, Draw!Inserting, Draw!Same
    <3>. QED
      BY <3>1, <3>2
  <2>9. ASSUME NEW r \in Requests, NEW q \in Requests PROVE InsertsDiffer(r, q)'
    <3>1. CASE r = s \/ q = s
      BY <1>2, <2>3, <3>1 DEF InsertsDiffer, Draw!Inserting
    <3>2. CASE r # s /\ q # s
      <4>1. InsertsDiffer(r, q) /\ session'[r] = session[r] /\ session'[q] = session[q]
        BY <2>3, <3>2 DEF DrawInductive
      <4>. QED
        BY <4>1 DEF InsertsDiffer, Draw!Inserting, Draw!Same
    <3>. QED
      BY <3>1, <3>2
  <2>10. /\ \A r \in Requests : DrawRight(r)'
         /\ winners' # {} => Ranked(winners, drawn)'
    BY <1>2, <1>3, DrawsStay
  <2>. QED
    BY <2>6, <2>7, <2>8, <2>9, <2>10 DEF DrawInductive
<1>. QED
  BY <1>4, <1>5 DEF Draw!CommitInsert

-----------------------------------------------------------------------------

\* The lock is taken, and the winners are picked as the tickets and the rule say.
LEMMA PickKeeps ==
    ASSUME DrawInductive, DrawSizes, NEW s \in Requests, NEW W \in SUBSET Players,
           Draw!Draw(s, W) \/ Draw!Redraw(s, W)
    PROVE  DrawInductive'
<1>1. PICK X \in {{}, winners}, pc \in {"draw", "redraw"} :
        /\ Draw!PickWinners(s, pc, X, W)
        /\ pc = "draw" => winners = {}
        /\ pc = "redraw" => X = winners /\ Draw!Cardinality(W) = WinnerCount
  <2>1. CASE Draw!Draw(s, W)
    <3>1. Draw!PickWinners(s, "draw", {}, W) /\ winners = {}
      BY <2>1 DEF Draw!Draw
    <3>. QED
      BY <3>1
  <2>2. CASE Draw!Redraw(s, W)
    <3>1. Draw!PickWinners(s, "redraw", winners, W) /\ Draw!Cardinality(W) = WinnerCount
      BY <2>2 DEF Draw!Redraw, Draw!Excluded
    <3>. QED
      BY <3>1
  <2>. QED
    BY <2>1, <2>2
<1>2. PICK E : E = Draw!Entries(X)
  OBVIOUS
<1>3. PICK P : P = {<<u, Draw!Held(u)>> : u \in E}
  OBVIOUS
<1>4. DrawTyped /\ TicketsRight /\ IdsDiffer
  BY DEF DrawInductive, TicketsRight
<1>5. W \in Draw!Picks(Draw!Entries(X)) /\ lock = NoHandler
  BY <1>1 DEF Draw!PickWinners
<1>6. W \subseteq E /\ E \subseteq Players /\ Ranked(W, P)
  BY <1>2, <1>3, <1>4, <1>5, PicksAreRanked
<1>7. P \subseteq Players \X Nat
  <2>1. \A u \in E : Draw!Held(u) \in Nat
    BY <1>4, HeldBounded DEF DrawSizes
  <2>. QED
    BY <1>3, <1>6, <2>1
<1>8. PICK i : i = Draw!Idle
  OBVIOUS
<1>9. i \in DrawRecord
  BY <1>8, IdleIs
<1>10. PICK d : d = [i EXCEPT !.pc = pc, !.pick = W, !.pool = P]
  OBVIOUS
<1>11. d \in DrawRecord /\ d.pc = pc /\ d.pick = W /\ d.pool = P
  BY <1>7, <1>9, <1>10 DEF DrawRecord
<1>12. /\ session' = [session EXCEPT ![s] = d] /\ lock' = s
       /\ tickets' = tickets /\ participants' = participants /\ lastTicket' = lastTicket
       /\ winners' = winners /\ drawn' = drawn /\ selection' = selection
  BY <1>1, <1>2, <1>3, <1>8, <1>10 DEF Draw!PickWinners
<1>13. /\ DrawTyped' /\ TicketsRight'
       /\ \A r \in Requests : InsertRight(r)'
       /\ \A r, q \in Requests : InsertsDiffer(r, q)'
  BY <1>11, <1>12, InsertsStay
<1>14. session'[s] = d /\ \A r \in Requests : r # s => session'[r] = session[r]
  BY <1>4, <1>12 DEF DrawTyped
<1>15. ASSUME NEW r \in Requests PROVE DrawRight(r)'
  <2>1. CASE r = s
    <3>1. pc = "redraw" => W \cap winners = {} /\ Cardinality(W) = WinnerCount
      BY <1>1, <1>2, <1>6, DrawCounts DEF Draw!Entries
    <3>. QED
      BY <1>1, <1>6, <1>11, <1>12, <1>14, <2>1, <3>1 DEF DrawRight, Drawing, Ranked
  <2>2. CASE r # s
    <3>1. DrawRight(r) /\ r # NoHandler
      BY DEF DrawInductive, DrawSizes
    <3>2. ~Drawing(r) /\ session'[r] = session[r]
      BY <1>5, <1>14, <2>2, <3>1 DEF DrawRight
    <3>. QED
      BY <1>12, <2>2, <3>2 DEF DrawRight, Drawing
  <2>. QED
    BY <2>1, <2>2
<1>16. winners' # {} => Ranked(winners, drawn)'
  BY <1>12 DEF DrawInductive, Ranked
<1>. QED
  BY <1>13, <1>15, <1>16 DEF DrawInductive

\* The winners are stored, or not, and the lock is released.
LEMMA StoreWinnersKeeps ==
    ASSUME DrawInductive, DrawSizes, NEW s \in Requests, Draw!StoreWinners(s)
    PROVE  DrawInductive'
<1>1. PICK d : d = Draw!Idle
  OBVIOUS
<1>2. d \in DrawRecord /\ d.pc = "idle"
  BY <1>1, IdleIs
<1>3. /\ session' = [session EXCEPT ![s] = d] /\ Drawing(s) /\ lock' = NoHandler
      /\ tickets' = tickets /\ participants' = participants /\ lastTicket' = lastTicket
      /\ selection' = selection
  BY <1>1 DEF Draw!StoreWinners, Draw!Close, Drawing
<1>4. \/ winners' = session[s].pick /\ drawn' = session[s].pool
      \/ winners' = winners /\ drawn' = drawn
  BY DEF Draw!StoreWinners
<1>5. /\ DrawTyped' /\ TicketsRight'
      /\ \A r \in Requests : InsertRight(r)'
      /\ \A r, q \in Requests : InsertsDiffer(r, q)'
  BY <1>2, <1>3, InsertsStay
<1>6. session'[s] = d /\ \A r \in Requests : r # s => session'[r] = session[r]
  BY <1>3 DEF DrawInductive, DrawTyped
<1>7. DrawRight(s) /\ lock = s
  BY <1>3 DEF DrawInductive, DrawRight
<1>8. ASSUME NEW r \in Requests PROVE DrawRight(r)'
  <2>1. DrawRight(r) /\ r # NoHandler
    BY DEF DrawInductive, DrawSizes
  <2>2. ~Drawing(r)'
    BY <1>2, <1>6, <1>7, <2>1 DEF DrawRight, Drawing
  <2>. QED
    BY <1>3, <2>1, <2>2 DEF DrawRight, Drawing
<1>9. winners' # {} => Ranked(winners, drawn)'
  BY <1>3, <1>4, <1>7 DEF DrawInductive, DrawRight, Ranked
<1>. QED
  BY <1>5, <1>8, <1>9 DEF DrawInductive

\* It holds where nobody has joined.
LEMMA DrawBegins == DrawSizes /\ Draw!Init => DrawInductive
<1>. SUFFICES ASSUME DrawSizes, Draw!Init PROVE DrawInductive
  OBVIOUS
<1>1. /\ participants = {} /\ tickets = {} /\ lastTicket = 0 /\ winners = {} /\ lock = NoHandler
      /\ session = [r \in Requests |-> Draw!Idle]
  BY DEF Draw!Init
<1>2. \A r \in Requests : session[r] \in DrawRecord /\ session[r].pc = "idle"
  BY <1>1, IdleIs
<1>3. DrawTyped
  BY <1>1, <1>2, FS_EmptySet DEF DrawTyped, DrawSizes
<1>4. TicketsRight
  BY <1>1 DEF TicketsRight, IdsDiffer
<1>5. \A r \in Requests : InsertRight(r) /\ DrawRight(r)
  BY <1>1, <1>2 DEF InsertRight, DrawRight, Draw!Inserting, Drawing, DrawSizes
<1>6. \A r, q \in Requests : InsertsDiffer(r, q)
  BY <1>2 DEF InsertsDiffer, Draw!Inserting
<1>. QED
  BY <1>1, <1>3, <1>4, <1>5, <1>6 DEF DrawInductive

\* Every step of a giveaway keeps it.
LEMMA DrawSteps == DrawSizes /\ DrawInductive /\ [Draw!Next]_giveawayVars => DrawInductive'
<1>. SUFFICES ASSUME DrawSizes, DrawInductive, [Draw!Next]_giveawayVars PROVE DrawInductive'
  OBVIOUS
<1>1. CASE Draw!Next
  <2>1. PICK s \in Requests :
          \/ \E u \in Players : Draw!BeginJoin(s, u)
          \/ Draw!InsertParticipant(s) \/ Draw!JoinFails(s)
          \/ \E u, v \in Players, source \in Draw!Sources : Draw!BeginGrant(s, u, source, v)
          \/ Draw!InsertTicket(s) \/ Draw!GrantFails(s) \/ Draw!CommitInsert(s)
          \/ Draw!Activate(s) \/ Draw!CloseGiveaway(s) \/ Draw!WriteStatus(s)
          \/ \E W \in SUBSET Players : Draw!Draw(s, W) \/ Draw!Redraw(s, W)
          \/ Draw!StoreWinners(s)
    BY <1>1 DEF Draw!Next
  <2>. QED
    BY <2>1, BeginsQuietly, EndsQuietly, InsertParticipantKeeps, InsertTicketKeeps, CommitKeeps,
       PickKeeps, StoreWinnersKeeps
<1>2. CASE UNCHANGED giveawayVars
  <2>1. /\ selection' = selection /\ participants' = participants
        /\ tickets' = tickets /\ lastTicket' = lastTicket /\ winners' = winners /\ lock' = lock
        /\ session' = session /\ drawn' = drawn
    BY <1>2 DEF giveawayVars
  <2>2. DrawTyped' /\ TicketsRight'
    BY <2>1 DEF DrawInductive, DrawTyped, TicketsRight, IdsDiffer, Draw!Same
  <2>3. \A s \in Requests : InsertRight(s)' /\ DrawRight(s)'
    BY <2>1 DEF DrawInductive, InsertRight, DrawRight, Draw!Inserting, Draw!Same, Drawing, Ranked
  <2>4. \A s, r \in Requests : InsertsDiffer(s, r)'
    BY <2>1 DEF DrawInductive, InsertsDiffer, Draw!Inserting, Draw!Same
  <2>5. winners' # {} => Ranked(winners, drawn)'
    BY <2>1 DEF DrawInductive, Ranked
  <2>. QED
    BY <2>2, <2>3, <2>4, <2>5 DEF DrawInductive
<1>. QED
  BY <1>1, <1>2

\* Tickets and winners are right where it holds.
LEMMA DrawConcludes == DrawSizes /\ DrawInductive => Draw!FairDraw
<1>. SUFFICES ASSUME DrawSizes, DrawInductive PROVE Draw!FairDraw
  OBVIOUS
<1>1. TicketsRight
  BY DEF DrawInductive
<1>2. ASSUME NEW u \in participants
      PROVE  Draw!Cardinality({t \in tickets : t.user = u /\ t.source = "join"}) = 1
  <2>1. PICK n \in tickets : n.user = u /\ n.source = "join"
    BY <1>1 DEF TicketsRight
  <2>2. {t \in tickets : t.user = u /\ t.source = "join"} = {n}
    BY <1>1, <2>1 DEF TicketsRight, Draw!Same
  <2>. QED
    BY <2>2, FS_Singleton, DrawCounts
<1>3. Draw!TicketsUnique
  BY <1>1, <1>2 DEF Draw!TicketsUnique, TicketsRight
<1>4. Draw!WinnersRanked
  BY DrawCounts DEF Draw!WinnersRanked, DrawInductive, Ranked, Draw!Fewer
<1>. QED
  BY <1>3, <1>4 DEF Draw!FairDraw

\* Whoever holds the lock replaces the winners he has seen.
LEMMA DrawReplaces ==
    ASSUME DrawInductive, Draw!Next, winners # {}, winners' # winners
    PROVE  winners' \cap winners = {} /\ Draw!Cardinality(winners') = WinnerCount
<1>1. PICK s \in Requests : Draw!StoreWinners(s)
  BY DEF Draw!Next, Draw!BeginJoin, Draw!InsertParticipant, Draw!JoinFails, Draw!BeginGrant,
     Draw!InsertTicket, Draw!GrantFails, Draw!CommitInsert, Draw!Activate, Draw!CloseGiveaway,
     Draw!BeginStatus, Draw!WriteStatus, Draw!Draw, Draw!Redraw, Draw!PickWinners
<1>2. winners' = session[s].pick /\ session[s].pc \in {"draw", "redraw"}
  BY <1>1 DEF Draw!StoreWinners
<1>. QED
  BY <1>2, DrawCounts DEF DrawInductive, DrawRight

\* For any number of players, tickets, winners and overlapping requests: one ticket per
\* reason to have one, winners as the tickets and the rule say, and only a complete set of
\* other people replaces them (join_participant, try_grant_invitee_ticket, draw_winners,
\* redraw_winners).
THEOREM GiveawayIsFair == Spec => GiveawayFair
<1>1. Init => Draw!Init
  BY DEF Init
<1>2. [Next]_allVars => [Draw!Next]_giveawayVars
  BY DEF Next, LinksNext, TransferNext, MergeNext, AccessNext, StoreNext, DrawNext, FreeNext,
     CredentialsNext, CheckoutNext, RatesNext, GuardsNext, ScreensNext, CleanNext, ImportNext,
     PageNext, IdentityNext, allVars, accountSide, giveawayVars
<1>3. DrawInductive /\ [Draw!Next]_giveawayVars => DrawInductive'
  BY DrawSteps, DrawConstants
<1>4. DrawInductive /\ [Draw!Next]_giveawayVars =>
        [/\ Draw!FairDraw'
         /\ \A s \in Requests :
              session[s].pc = "redraw" => session[s].pick \cap winners = {}
         /\ winners # {} /\ winners' # winners =>
              /\ winners' \cap winners = {}
              /\ Draw!Cardinality(winners') = WinnerCount]_giveawayVars
  <2>1. DrawInductive' => Draw!FairDraw'
    BY DrawConcludes, DrawConstants, PTL
  <2>2. DrawInductive => \A s \in Requests :
          session[s].pc = "redraw" => session[s].pick \cap winners = {}
    BY DEF DrawInductive, DrawRight
  <2>. QED
    BY <1>3, <2>1, <2>2, DrawReplaces
<1>. QED
  BY <1>1, <1>2, <1>3, <1>4, DrawConstants, DrawBegins, PTL
     DEF Spec, giveawayVars, Draw!giveawayVars, GiveawayFair, Draw!GiveawayFair
=============================================================================
