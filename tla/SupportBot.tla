------------------------------ MODULE SupportBot ------------------------------
(***************************************************************************)
(* The support bot: it forwards what users write to the admin, each        *)
(* message with a button; the button opens an answer, and what the admin   *)
(* writes next goes to the user of the button.                             *)
(*                                                                         *)
(* Sources: services/support_bot/support.py and support_db.py.             *)
(*                                                                         *)
(* Updates are handled as tasks of one event loop, so they overlap at      *)
(* every call of Telegram.  The four kinds of content (text, photo,        *)
(* document, video) have a handler each, all of one shape.  The state of   *)
(* the admin's chat is in memory: a restart forgets it.                    *)
(***************************************************************************)
EXTENDS Naturals

CONSTANTS
    Writers, NoWriter,  \* users of the bot
    Tasks,              \* handlers under way
    MaxUpdates,         \* bound: updates
    MaxFailures         \* bound: calls that fail, restarts

VARIABLES
    target,     \* the state of the admin's chat: ADMIN_REPLY with target_user, or none
    task,       \* task[t]: a handler and where it is
    knownUsers, \* support_users
    log,        \* support_messages: [user, from, update]
    forwarded,  \* messages of users that reached the admin
    delivered,  \* answers that reached a user: [user, update]
    prompt,     \* the user of the last prompt the admin saw and has not answered
    typed,      \* history: [update, prompt] of what the admin wrote
    crossed,    \* history: two handlers for the admin were under way at once
    updates, failures

botVars == <<target, task, knownUsers, log, forwarded, delivered, prompt, typed, crossed,
             updates, failures>>

Free == [pc |-> "free", user |-> NoWriter, update |-> 0]

Init ==
    /\ target = NoWriter
    /\ task = [t \in Tasks |-> Free]
    /\ knownUsers = {} /\ log = {} /\ forwarded = {} /\ delivered = {} /\ typed = {}
    /\ prompt = NoWriter /\ crossed = FALSE
    /\ updates = 0 /\ failures = 0

Starts(t, pc, u) ==
    /\ task[t] = Free /\ updates < MaxUpdates
    /\ updates' = updates + 1
    /\ task' = [task EXCEPT ![t] = [pc |-> pc, user |-> u, update |-> updates']]

\* A handler for the admin that starts beside another one.
Crosses ==
    crossed' = (crossed \/ \E t \in Tasks : task[t].pc \in {"reply", "prompt", "answer", "confirm"})

Goes(t, pc) == task' = [task EXCEPT ![t].pc = pc] /\ UNCHANGED updates
Ends(t) == task' = [task EXCEPT ![t] = Free] /\ UNCHANGED updates

Fails == failures < MaxFailures /\ failures' = failures + 1

-----------------------------------------------------------------------------
(* A user writes *)

\* handle_user_..._message: the user and the message are stored, then forwarded.
UserWrites(t, u) ==
    /\ Starts(t, "forward", u)
    /\ knownUsers' = knownUsers \cup {u}
    /\ log' = log \cup {[user |-> u, from |-> "user", update |-> updates']}
    /\ UNCHANGED <<target, forwarded, delivered, prompt, typed, crossed, failures>>

Forward(t) ==
    /\ task[t].pc = "forward"
    /\ forwarded' = forwarded \cup {[user |-> task[t].user, update |-> task[t].update]}
    /\ Ends(t)
    /\ UNCHANGED <<target, knownUsers, log, delivered, prompt, typed, crossed, failures>>

-----------------------------------------------------------------------------
(* The admin answers *)

\* process_callback_reply answers the callback first,
PressReply(t, u) ==
    /\ \E f \in forwarded : f.user = u
    /\ Starts(t, "reply", u)
    /\ Crosses
    /\ UNCHANGED <<target, knownUsers, log, forwarded, delivered, prompt, typed, failures>>

\* then sets the state (nothing else runs until the prompt is sent).
SetTarget(t) ==
    /\ task[t].pc = "reply"
    /\ IF task[t].user \in knownUsers
       THEN target' = task[t].user /\ Goes(t, "prompt")
       ELSE target' = NoWriter /\ Ends(t)
    /\ UNCHANGED <<knownUsers, log, forwarded, delivered, prompt, typed, crossed, failures>>

Prompt(t) ==
    /\ task[t].pc = "prompt"
    /\ prompt' = task[t].user
    /\ Ends(t)
    /\ UNCHANGED <<target, knownUsers, log, forwarded, delivered, typed, crossed, failures>>

\* admin_..._reply takes what the admin wrote only in ADMIN_REPLY, with the target of
\* that moment; in no state nobody handles it.
AdminWrites(t) ==
    /\ IF target # NoWriter THEN Starts(t, "answer", target)
       ELSE /\ updates < MaxUpdates /\ updates' = updates + 1
            /\ UNCHANGED task
    /\ typed' = typed \cup {[update |-> updates', prompt |-> prompt]}
    /\ prompt' = NoWriter
    /\ Crosses
    /\ UNCHANGED <<target, knownUsers, log, forwarded, delivered, failures>>

\* The answer goes out and is stored; the confirmation is another call.
Deliver(t) ==
    LET r == task[t] IN
    /\ r.pc = "answer"
    /\ delivered' = delivered \cup {[user |-> r.user, update |-> r.update]}
    /\ log' = log \cup {[user |-> r.user, from |-> "admin", update |-> r.update]}
    /\ Goes(t, "confirm")
    /\ UNCHANGED <<target, knownUsers, forwarded, prompt, typed, crossed, failures>>

\* A faulty variant of AfterAnswer, which a property refutes.
StateKept(t) == target

\* state.clear()
AfterAnswer(t) == NoWriter

Confirm(t) ==
    /\ task[t].pc = "confirm"
    /\ target' = AfterAnswer(t)
    /\ Ends(t)
    /\ UNCHANGED <<knownUsers, log, forwarded, delivered, prompt, typed, crossed, failures>>

-----------------------------------------------------------------------------
(* Failures *)

\* A call of Telegram that raises ends the handler.
CallFails(t) ==
    /\ task[t].pc \in {"forward", "reply", "prompt"}
    /\ Fails
    /\ Ends(t)
    /\ UNCHANGED <<target, knownUsers, log, forwarded, delivered, prompt, typed, crossed>>

\* Only an answer is tried: one that failed is reported, not stored, and the state is
\* cleared all the same.  It may have arrived.
AnswerFails(t) ==
    /\ task[t].pc = "answer"
    /\ Fails
    /\ \/ UNCHANGED delivered
       \/ delivered' = delivered \cup {[user |-> task[t].user, update |-> task[t].update]}
    /\ Goes(t, "confirm")
    /\ UNCHANGED <<target, knownUsers, log, forwarded, prompt, typed, crossed>>

\* The bot is started again.
Restart ==
    /\ Fails
    /\ target' = NoWriter
    /\ task' = [t \in Tasks |-> Free]
    /\ UNCHANGED <<knownUsers, log, forwarded, delivered, prompt, typed, crossed, updates>>

Next ==
    \/ \E t \in Tasks, u \in Writers : UserWrites(t, u) \/ PressReply(t, u)
    \/ \E t \in Tasks :
         \/ Forward(t) \/ SetTarget(t) \/ Prompt(t) \/ AdminWrites(t) \/ Deliver(t)
         \/ Confirm(t) \/ CallFails(t) \/ AnswerFails(t)
    \/ Restart

Spec == Init /\ [][Next]_botVars

-----------------------------------------------------------------------------
(* Properties *)

TypeOK ==
    /\ target \in Writers \cup {NoWriter}
    /\ \A t \in Tasks :
         /\ task[t].pc \in {"free", "forward", "reply", "prompt", "answer", "confirm"}
         /\ task[t].user \in Writers \cup {NoWriter}

Answers == {[user |-> r.user, update |-> r.update] : r \in {r \in log : r.from = "admin"}}

\* An answer is in the log only if the user got it, and nobody gets one that is not there
\* unless a call failed.
LogTrue == Answers \subseteq delivered /\ (failures = 0 => Answers = delivered)

\* Each prompt is good for one answer.  While the admin's handlers do not overlap and no
\* call fails, what the admin writes reaches the user of the last prompt, and after the
\* answer nobody until the next prompt.
AnswersAsPrompted ==
    ~crossed /\ failures = 0 =>
        \A w \in typed :
            LET got == {d.user : d \in {d \in delivered : d.update = w.update}} IN
            /\ got \subseteq {w.prompt}
            /\ (w.prompt # NoWriter /\ \A t \in Tasks : task[t].update # w.update) => got # {}

AnswersArrive == LogTrue /\ AnswersAsPrompted
=============================================================================
