----------------------------- MODULE PanelCache -----------------------------
(***************************************************************************)
(* The in-process cache in front of the Remnawave panel (_TTLCache of      *)
(* remnawave_client/api.py), for one key.  All callers run on one asyncio  *)
(* event loop, so that what stands between two awaits is one action.  A    *)
(* caller hits the stored value, or joins the computation under way by     *)
(* awaiting its future, or becomes the leader that computes.               *)
(*                                                                         *)
(* A caller may be cancelled at its await.  Cancelling the task of a       *)
(* follower cancels the very future it awaits, and with it everybody who   *)
(* shares that future; CancelledError is no Exception, so that a cancelled *)
(* leader leaves its future unresolved.                                    *)
(***************************************************************************)
EXTENDS Naturals, FiniteSets

CONSTANTS Callers,      \* requests that ask for the key, each once
          MaxCancels    \* bound: cancelled callers

VARIABLES stored, inflight, future, caller, cancels

vars == <<stored, inflight, future, caller, cancels>>

(***************************************************************************)
(* stored says that a value is cached and not expired.  inflight is empty  *)
(* or holds the leader whose future callers may join, and future[c] is the *)
(* state of the future that leader c created.                              *)
(***************************************************************************)
Futures == {"none", "pending", "result", "exception", "cancelled"}

Steps == {"idle", "computing", "waiting", "done"}

Answers == {"none", "value", "error", "cancelled"}

Caller == [step : Steps, joined : Callers, answer : Answers]

Init ==
    /\ stored = FALSE
    /\ inflight = {}
    /\ future = [c \in Callers |-> "none"]
    /\ caller = [c \in Callers |->
                    [step |-> "idle", joined |-> c, answer |-> "none"]]
    /\ cancels = 0

Answered(c, answer) == [caller EXCEPT ![c].step = "done", ![c].answer = answer]

(***************************************************************************)
(* get_or_compute up to its first await: the stored value, the future of   *)
(* the computation under way, or a future of its own.                      *)
(***************************************************************************)
Hit(c) ==
    /\ caller[c].step = "idle"
    /\ stored
    /\ caller' = Answered(c, "value")
    /\ UNCHANGED <<stored, inflight, future, cancels>>

Join(c) ==
    /\ caller[c].step = "idle"
    /\ ~stored
    /\ \E leader \in inflight :
         caller' = [caller EXCEPT ![c].step = "waiting", ![c].joined = leader]
    /\ UNCHANGED <<stored, inflight, future, cancels>>

Lead(c) ==
    /\ caller[c].step = "idle"
    /\ ~stored
    /\ inflight = {}
    /\ inflight' = {c}
    /\ future' = [future EXCEPT ![c] = "pending"]
    /\ caller' = [caller EXCEPT ![c].step = "computing"]
    /\ UNCHANGED <<stored, cancels>>

(***************************************************************************)
(* compute() returns: the value is stored and the future resolved.  When a *)
(* follower has cancelled the future meanwhile, set_result raises, the     *)
(* handler's set_exception raises again, and the leader fails although the *)
(* value is there.                                                         *)
(***************************************************************************)
Computed(c) ==
    /\ caller[c].step = "computing"
    /\ stored' = TRUE
    /\ inflight' = inflight \ {c}
    /\ IF future[c] = "pending"
       THEN /\ future' = [future EXCEPT ![c] = "result"]
            /\ caller' = Answered(c, "value")
       ELSE /\ caller' = Answered(c, "error")
            /\ UNCHANGED future
    /\ UNCHANGED cancels

\* Faulty variant: the exception is re-raised without being handed on.
OnlyRaised(c) == future[c]

\* What the leader's future becomes when compute() raises.
AfterException(c) == IF future[c] = "pending" THEN "exception" ELSE future[c]

Failed(c) ==
    /\ caller[c].step = "computing"
    /\ inflight' = inflight \ {c}
    /\ future' = [future EXCEPT ![c] = AfterException(c)]
    /\ caller' = Answered(c, "error")
    /\ UNCHANGED <<stored, cancels>>

\* A follower resumes once the future it awaits is done.
Resume(c) ==
    LET f == future[caller[c].joined]
    IN  /\ caller[c].step = "waiting"
        /\ f # "pending"
        /\ caller' = Answered(c, CASE f = "result" -> "value"
                                   [] f = "exception" -> "error"
                                   [] f = "cancelled" -> "cancelled")
        /\ UNCHANGED <<stored, inflight, future, cancels>>

(***************************************************************************)
(* Cancellation: a leader unregisters in finally and leaves its future as  *)
(* it is; a follower's await cancels the shared future.                    *)
(***************************************************************************)
CancelLeader(c) ==
    /\ cancels < MaxCancels
    /\ caller[c].step = "computing"
    /\ inflight' = inflight \ {c}
    /\ caller' = Answered(c, "cancelled")
    /\ cancels' = cancels + 1
    /\ UNCHANGED <<stored, future>>

CancelFollower(c) ==
    /\ cancels < MaxCancels
    /\ caller[c].step = "waiting"
    /\ future[caller[c].joined] = "pending"
    /\ future' = [future EXCEPT ![caller[c].joined] = "cancelled"]
    /\ caller' = Answered(c, "cancelled")
    /\ cancels' = cancels + 1
    /\ UNCHANGED <<stored, inflight>>

\* The stored value outlives its time to live.
Expire ==
    /\ stored
    /\ stored' = FALSE
    /\ UNCHANGED <<inflight, future, caller, cancels>>

Next ==
    \/ \E c \in Callers :
         \/ Hit(c) \/ Join(c) \/ Lead(c)
         \/ Computed(c) \/ Failed(c) \/ Resume(c)
         \/ CancelLeader(c) \/ CancelFollower(c)
    \/ Expire

Spec == Init /\ [][Next]_vars

TypeOK ==
    /\ stored \in BOOLEAN
    /\ inflight \in SUBSET Callers /\ Cardinality(inflight) <= 1
    /\ future \in [Callers -> Futures]
    /\ caller \in [Callers -> Caller]
    /\ cancels \in 0..MaxCancels

(***************************************************************************)
(* A request that waits for somebody else's computation waits for one that *)
(* is still running, or finds its future done, unless the computing        *)
(* request was cancelled: failures of the panel never strand the waiting.  *)
(***************************************************************************)
WaitersAnswered ==
    \A c \in Callers :
      caller[c].step = "waiting" =>
        LET leader == caller[c].joined
        IN  \/ future[leader] # "pending"
            \/ caller[leader].step = "computing"
            \/ caller[leader].answer = "cancelled"

(***************************************************************************)
(* The same without the exception, as the single-flight comment of the     *)
(* code has it.  False: a cancelled leader leaves its followers waiting    *)
(* for ever.                                                               *)
(***************************************************************************)
NobodyStranded ==
    \A c \in Callers :
      caller[c].step = "waiting" =>
        LET leader == caller[c].joined
        IN  future[leader] # "pending" \/ caller[leader].step = "computing"
=============================================================================
