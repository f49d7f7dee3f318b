------------------------------ MODULE Giveaway ------------------------------
(***************************************************************************)
(* One giveaway: joining, tickets for invitees, the admin's status         *)
(* changes, the draw and the redraw, as transactions that overlap.         *)
(*                                                                         *)
(* Sources: packages/common_db/common_db/repo/giveaways.py, models/        *)
(* giveaways.py, services/dashboard/backend/routers/giveaways.py,          *)
(* services/bot/app/handlers/giveaways.py, and the callers of              *)
(* try_grant_invitee_ticket in repo/promos.py and referral_rewards.py.     *)
(*                                                                         *)
(* A draw and a redraw lock the giveaway; joining, granting and closing do *)
(* not.  A ticket's number is its rank among the tickets one can see.      *)
(***************************************************************************)
EXTENDS Naturals, FiniteSets

CONSTANTS
    Users,          \* Telegram users, as numbers: the id breaks ties
    Sessions,
    WinnerCount,
    Selections,     \* winner_selection: the values to consider
    Dynamic,        \* chance_mode and ticket_sources: invitees earn tickets
    NoUser, NoSession,
    MaxTickets      \* bound: inserts of tickets

Sources == {"invitee_ref_activation", "invitee_purchase"}

VARIABLES
    status,         \* giveaways.status
    selection,      \* giveaways.config_json: winner_selection
    participants,   \* giveaway_participants
    tickets,        \* giveaway_tickets: committed rows
    lastTicket,     \* the sequence of ticket ids
    winners,        \* giveaway_winners: committed rows
    lock,           \* the session that holds the giveaway's row
    session,        \* session[s]: a transaction
    drawn           \* history: participants and tickets the present winners were drawn from

giveawayVars == <<status, selection, participants, tickets, lastTicket, winners, lock, session,
                  drawn>>

NoTicket == [id |-> 0, user |-> NoUser, source |-> "none", from |-> NoUser]
Idle == [pc |-> "idle", user |-> NoUser, ticket |-> NoTicket, to |-> "none", pick |-> {},
         pool |-> {}]

Init ==
    /\ status = "draft"
    /\ selection \in Selections
    /\ participants = {} /\ tickets = {} /\ lastTicket = 0
    /\ winners = {}
    /\ lock = NoSession
    /\ session = [s \in Sessions |-> Idle]
    /\ drawn = {}

Open(s) == session[s].pc = "idle"
Close(s) == session' = [session EXCEPT ![s] = Idle]

-----------------------------------------------------------------------------
(* Joining and tickets *)

\* join_participant: an active giveaway that the user is not in yet.
BeginJoin(s, u) ==
    /\ Open(s)
    /\ status = "active"
    /\ u \notin participants
    /\ session' = [session EXCEPT ![s] = [Idle EXCEPT !.pc = "join", !.user = u]]
    /\ UNCHANGED <<status, selection, participants, tickets, lastTicket, winners, lock, drawn>>

\* The two unique keys make an insert wait for another transaction with the same row.
Same(t, v) == t.user = v.user /\ t.source = v.source /\ t.from = v.from

Inserting(s) == session[s].pc \in {"joined", "granted"}

\* Faulty variant: no unique key on the participants.
AnyParticipant(s) == TRUE

ParticipantKey(s) ==
    \A t \in Sessions : session[t].pc = "joined" => session[t].user # session[s].user

\* The participant, then the ticket.
InsertParticipant(s) ==
    LET u == session[s].user IN
    /\ session[s].pc = "join"
    /\ ParticipantKey(s)
    /\ u \notin participants
    /\ lastTicket < MaxTickets
    /\ lastTicket' = lastTicket + 1
    /\ session' = [session EXCEPT
         ![s].pc = "joined",
         ![s].ticket = [id |-> lastTicket', user |-> u, source |-> "join", from |-> NoUser]]
    /\ UNCHANGED <<status, selection, participants, tickets, winners, lock, drawn>>

\* A participant already: the failed flush leaves a transaction in which the handler's
\* own queries fail as well.
JoinFails(s) ==
    /\ session[s].pc = "join"
    /\ session[s].user \in participants
    /\ Close(s)
    /\ UNCHANGED <<status, selection, participants, tickets, lastTicket, winners, lock, drawn>>

\* try_grant_invitee_ticket, in the transaction of a redemption or a purchase.
Granted(row) == \E t \in tickets : Same(t, row)

BeginGrant(s, u, source, invitee) ==
    LET row == [id |-> 0, user |-> u, source |-> source, from |-> invitee] IN
    /\ Open(s)
    /\ Dynamic
    /\ status = "active"
    /\ u \in participants /\ u # invitee
    /\ ~Granted(row)
    /\ session' = [session EXCEPT ![s] = [Idle EXCEPT !.pc = "grant", !.ticket = row]]
    /\ UNCHANGED <<status, selection, participants, tickets, lastTicket, winners, lock, drawn>>

TicketKey(s) ==
    \A t \in Sessions : session[t].pc = "granted" => ~Same(session[t].ticket, session[s].ticket)

InsertTicket(s) ==
    /\ session[s].pc = "grant"
    /\ TicketKey(s)
    /\ ~Granted(session[s].ticket)
    /\ lastTicket < MaxTickets
    /\ lastTicket' = lastTicket + 1
    /\ session' = [session EXCEPT ![s].pc = "granted", ![s].ticket.id = lastTicket']
    /\ UNCHANGED <<status, selection, participants, tickets, winners, lock, drawn>>

\* The key is taken: redemption or purchase fails with it.
GrantFails(s) ==
    /\ session[s].pc = "grant"
    /\ Granted(session[s].ticket)
    /\ Close(s)
    /\ UNCHANGED <<status, selection, participants, tickets, lastTicket, winners, lock, drawn>>

\* Commit, or roll back with whatever else fails in the transaction.
CommitInsert(s) ==
    /\ Inserting(s)
    /\ \/ /\ tickets' = tickets \cup {session[s].ticket}
          /\ participants' = IF session[s].pc = "joined"
                             THEN participants \cup {session[s].user} ELSE participants
       \/ UNCHANGED <<tickets, participants>>
    /\ Close(s)
    /\ UNCHANGED <<status, selection, lastTicket, winners, lock, drawn>>

-----------------------------------------------------------------------------
(* The admin *)

\* activate and close read the status and write it later, without a lock.
BeginStatus(s, from, to) ==
    /\ Open(s)
    /\ status = from
    /\ session' = [session EXCEPT ![s] = [Idle EXCEPT !.pc = "status", !.to = to]]
    /\ UNCHANGED <<status, selection, participants, tickets, lastTicket, winners, lock, drawn>>

Activate(s) == BeginStatus(s, "draft", "active")
CloseGiveaway(s) == BeginStatus(s, "active", "closed")

WriteStatus(s) ==
    /\ session[s].pc = "status"
    /\ lock = NoSession
    /\ status' = session[s].to
    /\ Close(s)
    /\ UNCHANGED <<selection, participants, tickets, lastTicket, winners, lock, drawn>>

Held(u) == Cardinality({t \in tickets : t.user = u})
Entries(excluded) == {u \in Users : Held(u) > 0} \ excluded

Fewer(m, n) == IF m < n THEN m ELSE n
Before(u, v) == Held(u) > Held(v) \/ (Held(u) = Held(v) /\ u < v)

\* _weighted_random_winners: any of them.
RandomPicks(E) == {W \in SUBSET E : Cardinality(W) = Fewer(Cardinality(E), WinnerCount)}

\* _most_tickets_winners: a sample of the first if they are too many, otherwise all of
\* them and the next ones in order.
MostTicketsPicks(E) ==
    LET top == {u \in E : \A v \in E : Held(v) <= Held(u)} IN
    IF Cardinality(top) > WinnerCount
    THEN {W \in SUBSET top : Cardinality(W) = WinnerCount}
    ELSE {top \cup {u \in E \ top :
            Cardinality({v \in E : Before(v, u) \/ v \in top}) < WinnerCount}}

Picks(E) == IF selection = "random" THEN RandomPicks(E) ELSE MostTicketsPicks(E)

\* The lock is taken, the giveaway read, and the winners picked from the tickets
\* committed by now.
PickWinners(s, pc, excluded, W) ==
    /\ Open(s)
    /\ lock = NoSession
    /\ W \in Picks(Entries(excluded))
    /\ lock' = s
    /\ session' = [session EXCEPT ![s] =
         [Idle EXCEPT !.pc = pc, !.pick = W, !.pool = {<<u, Held(u)>> : u \in Entries(excluded)}]]
    /\ UNCHANGED <<status, selection, participants, tickets, lastTicket, winners, drawn>>

Draw(s, W) ==
    /\ status \in {"active", "closed"}
    /\ winners = {}
    /\ PickWinners(s, "draw", {}, W)

\* Faulty variant: the winners that are replaced stay in the pool.
NobodyExcluded == {}

Excluded == winners

Redraw(s, W) ==
    /\ status = "drawn"
    /\ Cardinality(W) = WinnerCount
    /\ PickWinners(s, "redraw", Excluded, W)

\* _store_winners, in place of the previous ones, or an exception on the way.
StoreWinners(s) ==
    /\ session[s].pc \in {"draw", "redraw"}
    /\ \/ /\ winners' = session[s].pick
          /\ status' = "drawn"
          /\ drawn' = session[s].pool
       \/ UNCHANGED <<winners, status, drawn>>
    /\ lock' = NoSession
    /\ Close(s)
    /\ UNCHANGED <<selection, participants, tickets, lastTicket>>

Next ==
    \E s \in Sessions :
        \/ \E u \in Users : BeginJoin(s, u)
        \/ InsertParticipant(s) \/ JoinFails(s)
        \/ \E u, v \in Users, source \in Sources : BeginGrant(s, u, source, v)
        \/ InsertTicket(s) \/ GrantFails(s) \/ CommitInsert(s)
        \/ Activate(s) \/ CloseGiveaway(s) \/ WriteStatus(s)
        \/ \E W \in SUBSET Users : Draw(s, W) \/ Redraw(s, W)
        \/ StoreWinners(s)

Spec == Init /\ [][Next]_giveawayVars

-----------------------------------------------------------------------------
(* Properties *)

Rows ==
    [id : Nat, user : Users \cup {NoUser}, source : Sources \cup {"none", "join"},
     from : Users \cup {NoUser}]

\* Types of all variables.
TypeOK ==
    /\ status \in {"draft", "active", "closed", "drawn"}
    /\ selection \in Selections
    /\ participants \subseteq Users
    /\ tickets \subseteq Rows
    /\ lastTicket \in Nat
    /\ winners \subseteq Users
    /\ lock \in Sessions \cup {NoSession}
    /\ \A s \in Sessions :
         /\ session[s].pc \in {"idle", "join", "joined", "grant", "granted", "status", "draw",
                               "redraw"}
         /\ session[s].user \in Users \cup {NoUser}
         /\ session[s].ticket \in Rows
         /\ session[s].pick \subseteq Users
         /\ session[s].pool \subseteq Users \X Nat

\* Every participant has one ticket for joining, for which no unique key exists (its
\* source_tg_id is NULL), and one per invitee and source; nobody else has any.
TicketsUnique ==
    /\ \A u \in participants :
         Cardinality({t \in tickets : t.user = u /\ t.source = "join"}) = 1
    /\ \A t, v \in tickets : Same(t, v) => t = v
    /\ \A t \in tickets : t.user \in participants

\* Whoever wins by the number of tickets had at least as many as anybody who lost,
\* and as many win as the giveaway promises or can have.
WinnersRanked ==
    winners # {} =>
        /\ Cardinality(winners) = Fewer(Cardinality(drawn), WinnerCount)
        /\ \A w \in winners : \E n \in 1..MaxTickets : <<w, n>> \in drawn
        /\ selection = "most_tickets" =>
             \A x, y \in drawn :
                 x[1] \in winners /\ y[1] \notin winners => x[2] >= y[2]

\* The tickets are right, and the winners are those the tickets and the rule of the
\* giveaway allow.
FairDraw == TicketsUnique /\ WinnersRanked

\* Every step leaves the tickets and the winners right, and once there are winners only a
\* complete set of other people replaces them: a second draw does not, nor do two redraws
\* that overlap (docs/giveaways.md:81).
GiveawayFair ==
    [][/\ FairDraw'
       /\ \A s \in Sessions :
            session[s].pc = "redraw" => session[s].pick \cap winners = {}
       /\ winners # {} /\ winners' # winners =>
            /\ winners' \cap winners = {}
            /\ Cardinality(winners') = WinnerCount]_giveawayVars

\* A giveaway with winners is drawn (only drawn giveaways can be redrawn).
DrawnStaysDrawn == winners # {} => status = "drawn"
=============================================================================
