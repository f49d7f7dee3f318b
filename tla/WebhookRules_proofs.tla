---------------------- MODULE WebhookRules_proofs ----------------------
(***************************************************************************)
(* Proofs about WebhookRules, for any number of rules, users and jobs.     *)
(***************************************************************************)
EXTENDS WebhookRules, FiniteSetTheorems, TLAPS

\* What the proofs assume of the constants.
Sizes == NoJob \notin Jobs /\ IsFiniteSet(Rules)

\* What an arq job holds.
Job == [pc : {"idle", "list", "bump", "check", "commit"}, user : Users \cup {NoUser},
            rules : Seq(Rules), at : Nat, seen : [Rules -> Nat], rows : SUBSET Rules]

Typed ==
    /\ rule \in [Rules -> [exists : BOOLEAN, enabled : BOOLEAN, received : Nat]]
    /\ holder \in [Rules -> Jobs \cup {NoJob}]
    /\ logged \in [Rules -> SUBSET Users]
    /\ job \in [Jobs -> Job]
    /\ heard \in [Rules -> [Users -> Nat]]
    /\ excused \in [Rules -> [Users -> Nat]]

\* A job that checks its rules has the locks of all of them, one that still bumps them
\* those of the rules before; the rows it has added are of rules it has locked.
Holds(j) ==
    /\ job[j].pc \in {"bump", "check"} => job[j].at \in 1..Len(job[j].rules)
    /\ job[j].pc = "bump" => \A i \in 1..(job[j].at - 1) : holder[job[j].rules[i]] = j
    /\ job[j].pc = "check" => \A i \in 1..Len(job[j].rules) : holder[job[j].rules[i]] = j
    /\ job[j].pc \in {"idle", "list", "bump"} => job[j].rows = {}
    /\ \A r \in job[j].rows : holder[r] = j
    /\ job[j].pc # "idle" => job[j].user \in Users
    /\ job[j].pc = "list" => job[j].at = 1

LocksHeld == \A j \in Jobs : Holds(j)

\* The run of rule r for user u that its transaction has not committed.
Uncommitted(r, u) ==
    holder[r] # NoJob /\ r \in job[holder[r]].rows /\ job[holder[r]].user = u

\* What is heard is excused, logged or about to be: while the rule exists, a run leaves
\* a mark that the next check finds.
Marked(r, u) ==
    /\ heard[r][u] <= 1 + excused[r][u]
    /\ rule[r].exists /\ u \notin logged[r] /\ ~Uncommitted(r, u)
          => heard[r][u] <= excused[r][u]
    /\ Uncommitted(r, u) => u \notin logged[r]

AllMarked == \A r \in Rules : (holder[r] # NoJob => rule[r].exists) /\ \A u \in Users : Marked(r, u)

Inductive == Typed /\ LocksHeld /\ AllMarked


\* The first step: no rule has run, no job holds a lock.
LEMMA InductiveInit == Sizes /\ Init => Inductive
<1>. SUFFICES ASSUME Sizes, Init PROVE Inductive
  OBVIOUS
<1>. USE DEF Init, Idle
<1>1. << >> \in Seq(Rules)
  OBVIOUS
<1>2. Typed
  BY <1>1 DEF Sizes, Typed, Job
<1>3. LocksHeld
  BY DEF LocksHeld, Holds
<1>4. AllMarked
  BY DEF AllMarked, Marked, Uncommitted
<1>. QED
  BY <1>2, <1>3, <1>4 DEF Inductive

\* A listing of a set of rules is a sequence as long as the set is large.
LEMMA ListingIsSequence ==
    ASSUME Sizes, NEW S \in SUBSET Rules, NEW s \in Listings(S)
    PROVE  s \in Seq(Rules) /\ (S # {} => Len(s) \in Nat \ {0})
<1>1. IsFiniteSet(S) /\ Cardinality(S) \in Nat
  BY FS_Subset, FS_CardinalityType DEF Sizes
<1>2. S # {} => Cardinality(S) # 0
  BY <1>1, FS_EmptySet
<1>3. s \in [1..Cardinality(S) -> S]
  BY DEF Listings
<1>. QED
  BY <1>1, <1>2, <1>3

\* A count of one user goes up.
LEMMA OneMore ==
    ASSUME NEW f \in [Users -> Nat], NEW u PROVE [f EXCEPT ![u] = @ + 1] \in [Users -> Nat]
<1>1. u \in Users => f[u] \in Nat /\ f[u] + 1 \in Nat
  OBVIOUS
<1>. QED
  BY <1>1

\* Every step keeps the types the argument needs.
LEMMA StayTyped ==
    ASSUME Sizes, Typed, LocksHeld, [Next]_hookVars PROVE Typed'
<1>. USE DEF Typed
<1>0. \A j \in Jobs : job[j] \in Job
  OBVIOUS
<1>a. ASSUME NEW j \in Jobs, job[j].pc \in {"bump", "check"}
      PROVE  job[j].at \in Nat /\ Current(j) \in Rules
  <2>1. job[j].rules \in Seq(Rules) /\ job[j].at \in 1..Len(job[j].rules)
    BY <1>a, <1>0 DEF LocksHeld, Holds, Job
  <2>. QED
    BY <2>1 DEF Current
<1>b. Idle \in Job
  <2>1. << >> \in Seq(Rules)
    OBVIOUS
  <2>. QED
    BY <2>1 DEF Idle, Job
<1>c. ASSUME NEW t \in Job PROVE Advance(t) \in Job
  <2>1. t.at \in Nat /\ t.at + 1 \in Nat
    BY DEF Job
  <2>2. [t EXCEPT !.pc = "commit"] \in Job
    BY DEF Job
  <2>3. [t EXCEPT !.at = t.at + 1, !.pc = "check"] \in Job
    BY <2>1 DEF Job
  <2>. QED
    BY <2>2, <2>3 DEF Advance
<1>1. CASE UNCHANGED hookVars
  BY <1>1 DEF hookVars
<1>2. ASSUME NEW j \in Jobs, NEW u \in Users, Receive(j, u)
      PROVE Typed'
  <2>1. PICK n : n = [Idle EXCEPT !.pc = "list", !.user = u]
    OBVIOUS
  <2>2. n \in Job
    BY <2>1, <1>b DEF Job
  <2>3. job' = [job EXCEPT ![j] = n]
    BY <1>2, <2>1 DEF Receive
  <2>. QED
    BY <1>2, <2>2, <2>3 DEF Receive
<1>3. ASSUME NEW j \in Jobs, ListRules(j) PROVE Typed'
  <2>1. PICK S \in SUBSET Rules :
          S = {r \in Rules : rule[r].exists /\ rule[r].enabled}
    OBVIOUS
  <2>2. PICK s \in Listings(S) :
          job' = [job EXCEPT ![j].pc = IF S = {} THEN "commit" ELSE "bump", ![j].rules = s,
                             ![j].seen = [r \in Rules |-> rule[r].received]]
    BY <1>3, <2>1 DEF ListRules
  <2> DEFINE n == [job[j] EXCEPT !.pc = IF S = {} THEN "commit" ELSE "bump", !.rules = s,
                                 !.seen = [r \in Rules |-> rule[r].received]]
  <2>3. n \in Job
    BY ZenonT(30), <1>0, <2>2, ListingIsSequence DEF Job
  <2>4. job' = [job EXCEPT ![j] = n]
    BY <2>2
  <2>. HIDE DEF n
  <2>. QED
    BY <1>3, <2>3, <2>4 DEF ListRules
<1>4. ASSUME NEW j \in Jobs, Bump(j) PROVE Typed'
  <2>1. Current(j) \in Rules /\ job[j].at \in Nat
    BY <1>4, <1>a DEF Bump
  <2>2. PICK pc \in {"bump", "check", "commit"}, at \in Nat :
          job' = [job EXCEPT ![j].at = at, ![j].pc = pc]
    <3>1. (IF job[j].at = Len(job[j].rules) THEN 1 ELSE job[j].at + 1) \in Nat
      BY <2>1
    <3>. QED
      BY <1>4, <2>1, <3>1 DEF Bump
  <2> DEFINE n == [job[j] EXCEPT !.at = at, !.pc = pc]
  <2>3. n \in Job
    BY <1>0 DEF Job
  <2>4. job' = [job EXCEPT ![j] = n]
    BY <2>2
  <2>. HIDE DEF n
  <2>. QED
    BY ZenonT(30), <1>4, <2>1, <2>3, <2>4 DEF Bump
<1>5. ASSUME NEW j \in Jobs, SkipRule(j) PROVE Typed'
  BY <1>0, <1>c, <1>5 DEF SkipRule
<1>6. ASSUME NEW j \in Jobs, RunActions(j) PROVE Typed'
  <2>1. Current(j) \in Rules
    BY <1>6, <1>a DEF RunActions
  <2>2. Noted(job[j], Current(j)) \in Job
    BY <1>0, <2>1 DEF Noted, Job
  <2>3. PICK n \in Job : job' = [job EXCEPT ![j] = n]
    BY <1>0, <1>6, <1>c, <2>2 DEF RunActions
  <2>4. heard' \in [Rules -> [Users -> Nat]]
    <3>1. PICK r \in Rules : r = Current(j)
      BY <2>1
    <3>2. heard[r] \in [Users -> Nat]
      OBVIOUS
    <3>3. PICK h \in [Users -> Nat] : h = [heard[r] EXCEPT ![job[j].user] = @ + 1]
      BY <3>2, OneMore
    <3>4. heard' = heard \/ heard' = [heard EXCEPT ![r] = h]
      BY <1>6, <3>1, <3>3 DEF RunActions
    <3>. QED
      BY <3>3, <3>4
  <2>. QED
    BY <1>6, <2>3, <2>4 DEF RunActions
<1>d. ASSUME NEW j \in Jobs PROVE Released(j) \in [Rules -> Jobs \cup {NoJob}]
  BY DEF Released
<1>7. ASSUME NEW j \in Jobs, Commit(j) PROVE Typed'
  <2>1. rule' \in [Rules -> [exists : BOOLEAN, enabled : BOOLEAN, received : Nat]]
    <3>1. job[j].seen \in [Rules -> Nat]
      BY <1>0 DEF Job
    <3>2. ASSUME NEW r \in Rules
          PROVE [rule[r] EXCEPT !.received = job[j].seen[r] + 1]
                   \in [exists : BOOLEAN, enabled : BOOLEAN, received : Nat]
      <4>1. rule[r] \in [exists : BOOLEAN, enabled : BOOLEAN, received : Nat]
        OBVIOUS
      <4>2. job[j].seen[r] + 1 \in Nat
        BY <3>1
      <4>. QED
        BY <4>1, <4>2
    <3>. QED
      BY <1>7, <3>2 DEF Commit
  <2>2. logged' \in [Rules -> SUBSET Users]
    <3>1. ASSUME NEW r \in Rules, r \in job[j].rows PROVE job[j].user \in Users
      BY <3>1, <1>7 DEF Commit, LocksHeld, Holds
    <3>. QED
      BY <1>7, <3>1 DEF Commit
  <2>. QED
    BY <1>7, <1>b, <1>d, <2>1, <2>2 DEF Commit
<1>8. ASSUME NEW j \in Jobs, Rollback(j) PROVE Typed'
  <2>1. excused' \in [Rules -> [Users -> Nat]]
    <3>1. \A r \in Rules : excused[r] \in [Users -> Nat]
      OBVIOUS
    <3>2. ASSUME NEW r \in Rules
          PROVE  [excused[r] EXCEPT ![job[j].user] = @ + 1] \in [Users -> Nat]
      BY <3>1, OneMore
    <3>. QED
      BY <1>8, <3>1, <3>2 DEF Rollback
  <2>. QED
    BY <1>8, <1>b, <1>d, <2>1 DEF Rollback
<1>9. ASSUME NEW r \in Rules, ToggleRule(r) PROVE Typed'
  BY <1>9 DEF ToggleRule
<1>10. ASSUME NEW r \in Rules, DeleteRule(r) PROVE Typed'
  BY <1>10 DEF DeleteRule
<1>11. ASSUME NEW r \in Rules, CooldownPasses(r) PROVE Typed'
  BY <1>11 DEF CooldownPasses
<1>. QED
  BY <1>1, <1>2, <1>3, <1>4, <1>5, <1>6, <1>7, <1>8, <1>9, <1>10, <1>11
     DEF Next, Step, RuleGone, DeadlockVictim, JobDies

\* One job moves and takes no lock from another.
LEMMA OthersHold ==
    ASSUME Sizes, Typed, LocksHeld, Typed', NEW j \in Jobs,
           \A k \in Jobs : k # j => job'[k] = job[k],
           \A k \in Jobs, r \in Rules : k # j /\ holder[r] = k => holder'[r] = k,
           Holds(j)'
    PROVE  LocksHeld'
<1>. SUFFICES ASSUME NEW k \in Jobs, k # j PROVE Holds(k)'
  BY DEF LocksHeld
<1>1. job'[k] = job[k] /\ Holds(k)
  BY DEF LocksHeld
<1>2. /\ job[k].rules \in Seq(Rules) /\ job[k].at \in Nat /\ job[k].rows \subseteq Rules
  BY DEF Typed, Job
<1>3. \A i \in 1..Len(job[k].rules) : job[k].rules[i] \in Rules
  BY <1>2
<1>. QED
  BY <1>1, <1>2, <1>3 DEF Holds

\* Every step leaves the rules a job has come to locked by it.
LEMMA LocksStay ==
    ASSUME Sizes, Typed, LocksHeld, Typed', [Next]_hookVars PROVE LocksHeld'
<1>0. ASSUME NEW j \in Jobs
      PROVE  job[j] \in Job /\ job[j].rules \in Seq(Rules) /\ job[j].at \in Nat /\ Holds(j)
  BY DEF Typed, Job, LocksHeld
<1>1. CASE UNCHANGED <<job, holder>>
  BY <1>1 DEF LocksHeld, Holds
<1>2. ASSUME NEW j \in Jobs, NEW u \in Users, Receive(j, u) PROVE LocksHeld'
  <2>1. /\ job'[j] = [Idle EXCEPT !.pc = "list", !.user = u]
        /\ \A k \in Jobs : k # j => job'[k] = job[k]
    BY <1>2 DEF Receive, Typed
  <2>2. Holds(j)'
    BY <2>1 DEF Holds, Idle
  <2>. QED
    BY <1>2, <2>1, <2>2, OthersHold DEF Receive
<1>3. ASSUME NEW j \in Jobs, ListRules(j) PROVE LocksHeld'
  <2>1. PICK S \in SUBSET Rules :
          S = {r \in Rules : rule[r].exists /\ rule[r].enabled}
    OBVIOUS
  <2>2. PICK s \in Listings(S) :
          job' = [job EXCEPT ![j].pc = IF S = {} THEN "commit" ELSE "bump", ![j].rules = s,
                             ![j].seen = [r \in Rules |-> rule[r].received]]
    BY <1>3, <2>1 DEF ListRules
  <2> DEFINE n == [job[j] EXCEPT !.pc = IF S = {} THEN "commit" ELSE "bump", !.rules = s,
                                 !.seen = [r \in Rules |-> rule[r].received]]
  <2>3. job' = [job EXCEPT ![j] = n]
    BY <2>2
  <2>4. /\ n.pc = IF S = {} THEN "commit" ELSE "bump"
        /\ n.rules = s /\ n.at = job[j].at /\ n.rows = job[j].rows /\ n.user = job[j].user
    BY <1>0 DEF Job
  <2>. HIDE DEF n
  <2>5. job'[j] = n /\ \A k \in Jobs : k # j => job'[k] = job[k]
    BY <2>3 DEF Typed
  <2>6. job[j].rows = {} /\ job[j].at = 1 /\ job[j].user \in Users
    BY <1>0, <1>3 DEF ListRules, Holds
  <2>7. S # {} => Len(s) \in Nat \ {0}
    BY ListingIsSequence
  <2>8. Holds(j)'
    BY <2>4, <2>5, <2>6, <2>7 DEF Holds
  <2>. QED
    BY <1>3, <2>5, <2>8, OthersHold DEF ListRules
<1>4. ASSUME NEW j \in Jobs, Bump(j) PROVE LocksHeld'
  <2>1. PICK r \in Rules : r = Current(j)
    BY <1>0, <1>4 DEF Bump, Current, Holds
  <2>2. PICK last \in BOOLEAN : last = (job[j].at = Len(job[j].rules))
    OBVIOUS
  <2>3. PICK pc \in {"bump", "check", "commit"}, at \in Nat :
          /\ job' = [job EXCEPT ![j].at = at, ![j].pc = pc]
          /\ at = IF last THEN 1 ELSE job[j].at + 1
          /\ last <=> pc # "bump"
    <3>1. (IF last THEN 1 ELSE job[j].at + 1) \in Nat
      BY <1>0
    <3>. QED
      BY <1>4, <2>2, <3>1 DEF Bump
  <2> DEFINE n == [job[j] EXCEPT !.at = at, !.pc = pc]
  <2>4. job' = [job EXCEPT ![j] = n]
    BY <2>3
  <2>5. /\ n.pc = pc /\ n.at = at /\ n.rules = job[j].rules /\ n.rows = job[j].rows
        /\ n.user = job[j].user
    BY <1>0 DEF Job
  <2>. HIDE DEF n
  <2>6. job'[j] = n /\ \A k \in Jobs : k # j => job'[k] = job[k]
    BY <2>4 DEF Typed
  <2>7. /\ holder[r] = NoJob /\ holder'[r] = j
        /\ \A q \in Rules : q # r => holder'[q] = holder[q]
    BY <1>4, <2>1 DEF Bump, Free, Typed
  <2>8. /\ job[j].pc = "bump" /\ job[j].at \in 1..Len(job[j].rules)
        /\ job[j].rows = {} /\ job[j].user \in Users
        /\ \A i \in 1..(job[j].at - 1) : holder[job[j].rules[i]] = j
        /\ r = job[j].rules[job[j].at]
    BY <1>0, <1>4, <2>1 DEF Bump, Holds, Current
  <2>9. \A i \in 1..Len(job[j].rules) : job[j].rules[i] \in Rules
    BY <1>0
  <2>10. \A i \in 1..job[j].at : holder'[job[j].rules[i]] = j
    BY <1>0, <2>7, <2>8, <2>9
  <2>11. Holds(j)'
    <3>1. Len(job[j].rules) \in Nat /\ job'[j].rules = job[j].rules /\ job'[j].rows = {}
      BY <1>0, <2>5, <2>6, <2>8
    <3>2. CASE last
      <4>1. at = 1 /\ pc \in {"check", "commit"} /\ job[j].at = Len(job[j].rules)
        BY <2>2, <2>3, <3>2
      <4>. QED
        BY <2>5, <2>6, <2>8, <2>10, <3>1, <4>1 DEF Holds
    <3>3. CASE ~last
      <4>1. at = job[j].at + 1 /\ pc = "bump" /\ at \in 1..Len(job[j].rules) /\ at - 1 = job[j].at
        <5>1. at = job[j].at + 1 /\ pc = "bump"
          BY <2>3, <3>3
        <5>2. job[j].at # Len(job[j].rules)
          BY <2>2, <3>3
        <5>. QED
          BY <1>0, <2>8, <3>1, <5>1, <5>2
      <4>. QED
        BY <2>5, <2>6, <2>8, <2>10, <3>1, <4>1 DEF Holds
    <3>. QED
      BY <3>2, <3>3
  <2>12. \A k \in Jobs, q \in Rules : k # j /\ holder[q] = k => holder'[q] = k
    BY <2>7 DEF Sizes
  <2>. QED
    BY <2>6, <2>11, <2>12, OthersHold
<1>a. ASSUME NEW j \in Jobs, NEW t \in Job, job' = [job EXCEPT ![j] = Advance(t)],
             job[j].pc = "check", t.pc = "check", t.at = job[j].at, t.rules = job[j].rules,
             t.user = job[j].user, \A r \in t.rows : holder[r] = j, UNCHANGED holder
      PROVE  LocksHeld'
  <2>1. PICK n : n = Advance(t)
    OBVIOUS
  <2>2. job'[j] = n /\ \A k \in Jobs : k # j => job'[k] = job[k]
    BY <1>a, <2>1 DEF Typed
  <2>3. /\ job[j].at \in 1..Len(job[j].rules) /\ job[j].user \in Users
        /\ \A i \in 1..Len(job[j].rules) : holder[job[j].rules[i]] = j
    BY <1>0, <1>a DEF Holds
  <2>4. /\ n.rules = t.rules /\ n.rows = t.rows /\ n.user = t.user
        /\ \/ n.pc = "commit"
           \/ n.pc = "check" /\ n.at = t.at + 1 /\ t.at # Len(t.rules)
    BY <2>1 DEF Advance, Job
  <2>5. Holds(j)'
    BY <1>0, <1>a, <2>2, <2>3, <2>4 DEF Holds
  <2>. QED
    BY <1>a, <2>2, <2>5, OthersHold
<1>5. ASSUME NEW j \in Jobs, SkipRule(j) PROVE LocksHeld'
  BY <1>0, <1>5, <1>a DEF SkipRule, Holds
<1>6. ASSUME NEW j \in Jobs, RunActions(j) PROVE LocksHeld'
  <2>1. Current(j) \in Rules /\ holder[Current(j)] = j
    BY SMTT(30), <1>0, <1>6 DEF RunActions, Current, Holds
  <2>2. PICK t : t = Noted(job[j], Current(j))
    OBVIOUS
  <2>3. /\ t \in Job /\ t.pc = job[j].pc /\ t.at = job[j].at /\ t.rules = job[j].rules
        /\ t.user = job[j].user /\ t.rows = job[j].rows \cup {Current(j)}
    BY <1>0, <2>1, <2>2 DEF Noted, Job
  <2>4. \A r \in t.rows : holder[r] = j
    BY <1>0, <2>1, <2>3 DEF Holds
  <2>5. CASE job' = [job EXCEPT ![j] = Advance(t)]
    BY <1>6, <1>a, <2>3, <2>4, <2>5 DEF RunActions
  <2>6. CASE job' = [job EXCEPT ![j] = Advance(job[j])]
    BY <1>0, <1>6, <1>a, <2>6 DEF RunActions, Holds
  <2>. QED
    BY <1>6, <2>2, <2>5, <2>6 DEF RunActions
<1>b. ASSUME NEW j \in Jobs, job' = [job EXCEPT ![j] = Idle], holder' = Released(j)
      PROVE  LocksHeld'
  <2>1. job'[j] = Idle /\ \A k \in Jobs : k # j => job'[k] = job[k]
    BY <1>b DEF Typed
  <2>2. Holds(j)'
    BY <2>1 DEF Holds, Idle
  <2>. QED
    BY <1>b, <2>1, <2>2, OthersHold DEF Released
<1>7. ASSUME NEW j \in Jobs, Commit(j) \/ Rollback(j) PROVE LocksHeld'
  BY <1>7, <1>b DEF Commit, Rollback
<1>. QED
  BY <1>1, <1>2, <1>3, <1>4, <1>5, <1>6, <1>7
     DEF Next, Step, RuleGone, DeadlockVictim, JobDies, ToggleRule, DeleteRule, CooldownPasses,
         hookVars

\* A job that is idle leaves no run behind; what another has added stays its own.
LEMMA MarksStay ==
    ASSUME Sizes, Typed, LocksHeld, AllMarked, Typed', LocksHeld', [Next]_hookVars
    PROVE  AllMarked'
<1>0. ASSUME NEW j \in Jobs
      PROVE  job[j] \in Job /\ job[j].rules \in Seq(Rules) /\ job[j].at \in Nat /\ Holds(j)
  BY DEF Typed, Job, LocksHeld
<1>t. ASSUME NEW r \in Rules, NEW u \in Users
      PROVE  heard[r][u] \in Nat /\ excused[r][u] \in Nat /\ logged[r] \subseteq Users
  BY DEF Typed
<1>m. ASSUME NEW r \in Rules, NEW u \in Users PROVE Marked(r, u)
  BY DEF AllMarked
<1>e. \A r \in Rules : holder[r] # NoJob => rule[r].exists /\ holder[r] \in Jobs
  BY DEF AllMarked, Typed
\* Steps that leave the rules' histories and what is not committed as they are.
<1>a. ASSUME UNCHANGED <<logged, heard, excused>>,
             \A r \in Rules : rule'[r].exists = rule[r].exists,
             \A r \in Rules : holder'[r] # NoJob => rule[r].exists,
             \A r \in Rules, u \in Users : Uncommitted(r, u)' <=> Uncommitted(r, u)
      PROVE  AllMarked'
  <2>1. ASSUME NEW r \in Rules, NEW u \in Users PROVE Marked(r, u)'
    BY <1>a, <1>m DEF Marked
  <2>. QED
    BY <1>a, <2>1 DEF AllMarked
\* One job moves on and its rows stay.
<1>b. ASSUME NEW j \in Jobs, \A k \in Jobs : k # j => job'[k] = job[k],
             job'[j].rows = job[j].rows,
             job'[j].rows = {} \/ job'[j].user = job[j].user,
             \A r \in Rules :
                \/ holder'[r] = holder[r]
                \/ r \notin job[j].rows /\ holder'[r] = j /\ holder[r] = NoJob
      PROVE  \A r \in Rules, u \in Users : Uncommitted(r, u)' <=> Uncommitted(r, u)
  <2>. SUFFICES ASSUME NEW r \in Rules, NEW u \in Users
                PROVE  Uncommitted(r, u)' <=> Uncommitted(r, u)
    OBVIOUS
  <2>1. CASE holder[r] = NoJob
    BY <1>b, <2>1 DEF Uncommitted, Sizes
  <2>2. CASE holder[r] # NoJob
    <3>1. holder'[r] = holder[r] /\ holder[r] \in Jobs
      BY <1>b, <1>e, <2>2
    <3>2. CASE holder[r] = j
      BY <1>b, <3>1, <3>2 DEF Uncommitted
    <3>3. CASE holder[r] # j
      BY <1>b, <3>1, <3>3 DEF Uncommitted
    <3>. QED
      BY <3>2, <3>3
  <2>. QED
    BY <2>1, <2>2
<1>1. CASE UNCHANGED hookVars
  BY <1>1 DEF hookVars, AllMarked, Marked, Uncommitted
<1>2. ASSUME NEW j \in Jobs, NEW u \in Users, Receive(j, u) PROVE AllMarked'
  <2>1. /\ job'[j].rows = {} /\ job[j].rows = {}
        /\ \A k \in Jobs : k # j => job'[k] = job[k]
    BY <1>0, <1>2 DEF Receive, Typed, Idle, Holds
  <2>2. \A r \in Rules, v \in Users : Uncommitted(r, v)' <=> Uncommitted(r, v)
    BY <1>2, <1>b, <2>1 DEF Receive
  <2>. QED
    BY <1>2, <1>a, <1>e, <2>2 DEF Receive
<1>3. ASSUME NEW j \in Jobs, ListRules(j) PROVE AllMarked'
  <2>1. PICK s \in Listings({r \in Rules : rule[r].exists /\ rule[r].enabled}),
             pc \in {"commit", "bump"} :
          job' = [job EXCEPT ![j].pc = pc, ![j].rules = s,
                             ![j].seen = [r \in Rules |-> rule[r].received]]
    BY <1>3 DEF ListRules
  <2>2. /\ job'[j].rows = job[j].rows /\ job'[j].user = job[j].user
        /\ \A k \in Jobs : k # j => job'[k] = job[k]
    BY <1>0, <2>1 DEF Typed, Job
  <2>3. \A r \in Rules, v \in Users : Uncommitted(r, v)' <=> Uncommitted(r, v)
    BY <1>3, <1>b, <2>2 DEF ListRules
  <2>. QED
    BY <1>3, <1>a, <1>e, <2>3 DEF ListRules
<1>4. ASSUME NEW j \in Jobs, Bump(j) PROVE AllMarked'
  <2>1. PICK r \in Rules : r = Current(j)
    BY <1>0, <1>4 DEF Bump, Current, Holds
  <2>2. /\ job'[j].rows = job[j].rows /\ job'[j].user = job[j].user /\ job[j].rows = {}
        /\ \A k \in Jobs : k # j => job'[k] = job[k]
    <3>1. PICK pc, at : job' = [job EXCEPT ![j].at = at, ![j].pc = pc]
      BY <1>4 DEF Bump
    <3>. QED
      BY SMTT(30), <1>0, <1>4, <3>1 DEF Bump, Typed, Job, Holds
  <2>3. /\ holder[r] = NoJob /\ holder'[r] = j /\ rule[r].exists
        /\ \A q \in Rules : q # r => holder'[q] = holder[q]
    BY <1>4, <2>1 DEF Bump, Free, Typed
  <2>4. \A q \in Rules, v \in Users : Uncommitted(q, v)' <=> Uncommitted(q, v)
    BY <1>b, <2>2, <2>3
  <2>. QED
    BY <1>4, <1>a, <1>e, <2>3, <2>4 DEF Bump
<1>c. ASSUME NEW j \in Jobs, NEW t \in Job, job' = [job EXCEPT ![j] = Advance(t)]
      PROVE  /\ job'[j].rows = t.rows /\ job'[j].user = t.user
             /\ \A k \in Jobs : k # j => job'[k] = job[k]
  <2>1. Advance(t).rows = t.rows /\ Advance(t).user = t.user
    BY DEF Advance, Job
  <2>. QED
    BY <1>c, <2>1 DEF Typed
<1>5. ASSUME NEW j \in Jobs, SkipRule(j) PROVE AllMarked'
  <2>1. \A r \in Rules, v \in Users : Uncommitted(r, v)' <=> Uncommitted(r, v)
    <3>1. job' = [job EXCEPT ![j] = Advance(job[j])] /\ UNCHANGED holder
      BY <1>5 DEF SkipRule
    <3>2. /\ job'[j].rows = job[j].rows /\ job'[j].user = job[j].user
          /\ \A k \in Jobs : k # j => job'[k] = job[k]
      BY <1>0, <1>c, <3>1
    <3>. QED
      BY <1>b, <3>1, <3>2
  <2>. QED
    BY <1>5, <1>a, <1>e, <2>1 DEF SkipRule
<1>6. ASSUME NEW j \in Jobs, RunActions(j) PROVE AllMarked'
  <2>1. PICK r \in Rules : r = Current(j) /\ holder[r] = j
    BY SMTT(30), <1>0, <1>6 DEF RunActions, Current, Holds
  <2>2. CASE UNCHANGED heard /\ job' = [job EXCEPT ![j] = Advance(job[j])]
    <3>1. \A q \in Rules, v \in Users : Uncommitted(q, v)' <=> Uncommitted(q, v)
      <4>1. UNCHANGED holder
        BY <1>6 DEF RunActions
      <4>2. /\ job'[j].rows = job[j].rows /\ job'[j].user = job[j].user
            /\ \A k \in Jobs : k # j => job'[k] = job[k]
        BY <1>0, <1>c, <2>2
      <4>. QED
        BY <1>b, <4>1, <4>2
    <3>. QED
      BY <1>6, <1>a, <1>e, <2>2, <3>1 DEF RunActions
  <2>3. CASE /\ heard' = [heard EXCEPT ![r][job[j].user] = @ + 1]
             /\ job' = [job EXCEPT ![j] = Advance(Noted(job[j], r))]
    <3>1. PICK w \in Users : w = job[j].user
      BY <1>0, <1>6 DEF RunActions, Holds
    <3>2. Noted(job[j], r) \in Job /\ Noted(job[j], r).rows = job[j].rows \cup {r}
          /\ Noted(job[j], r).user = w
      BY <1>0, <3>1 DEF Noted, Job
    <3>3. /\ job'[j].rows = job[j].rows \cup {r} /\ job'[j].user = w
          /\ \A k \in Jobs : k # j => job'[k] = job[k]
      BY <1>c, <2>3, <3>2
    <3>4. /\ heard'[r][w] = heard[r][w] + 1
          /\ \A q \in Rules, v \in Users : q # r \/ v # w => heard'[q][v] = heard[q][v]
      BY <2>3, <3>1 DEF Typed
    <3>5. w \notin logged[r] /\ ~Uncommitted(r, w) /\ rule[r].exists
      BY <1>e, <1>6, <2>1, <3>1 DEF RunActions, Recent, Uncommitted, Sizes
    <3>6. heard[r][w] <= excused[r][w]
      BY <1>m, <3>5 DEF Marked
    <3>7. UNCHANGED <<rule, holder, logged, excused>>
      BY <1>6 DEF RunActions
    <3>8. ASSUME NEW q \in Rules, NEW v \in Users
          PROVE  Uncommitted(q, v)' <=> Uncommitted(q, v) \/ (q = r /\ v = w)
      BY <1>e, <2>1, <3>1, <3>3, <3>7 DEF Uncommitted, Sizes
    <3>9. ASSUME NEW q \in Rules, NEW v \in Users PROVE Marked(q, v)'
      <4>1. CASE q = r /\ v = w
        BY <1>t, <3>4, <3>5, <3>6, <3>7, <3>8, <4>1 DEF Marked
      <4>2. CASE q # r \/ v # w
        BY <1>m, <3>4, <3>7, <3>8, <4>2 DEF Marked
      <4>. QED
        BY <4>1, <4>2
    <3>. QED
      BY <1>e, <3>7, <3>9 DEF AllMarked
  <2>. QED
    BY <1>6, <2>1, <2>2, <2>3 DEF RunActions
\* The transaction of job j ends.
<1>d. ASSUME NEW j \in Jobs, job' = [job EXCEPT ![j] = Idle], holder' = Released(j)
      PROVE  /\ \A r \in Rules, u \in Users :
                  Uncommitted(r, u)' <=> Uncommitted(r, u) /\ holder[r] # j
             /\ \A r \in job[j].rows, u \in Users : Uncommitted(r, u) <=> u = job[j].user
             /\ \A r \in Rules, u \in Users :
                  holder[r] = j /\ r \notin job[j].rows => ~Uncommitted(r, u)
             /\ \A r \in job[j].rows : holder[r] = j
             /\ \A r \in Rules : holder'[r] # NoJob => holder[r] # NoJob
  <2>1. \A k \in Jobs : k # j => job'[k] = job[k]
    BY <1>d DEF Typed
  <2>2. \A r \in Rules : holder'[r] = IF holder[r] = j THEN NoJob ELSE holder[r]
    BY <1>d DEF Released
  <2>3. \A r \in job[j].rows : holder[r] = j
    BY <1>0 DEF Holds
  <2>. QED
    BY <1>e, <2>1, <2>2, <2>3 DEF Uncommitted, Sizes
<1>7. ASSUME NEW j \in Jobs, Commit(j) PROVE AllMarked'
  <2>1. job' = [job EXCEPT ![j] = Idle] /\ holder' = Released(j) /\ UNCHANGED <<heard, excused>>
    BY <1>7 DEF Commit
  <2>2. \A r \in Rules : rule'[r].exists = rule[r].exists
    BY <1>7 DEF Commit, Typed
  <2>3. \A r \in Rules :
          logged'[r] = IF r \in job[j].rows THEN logged[r] \cup {job[j].user} ELSE logged[r]
    BY <1>7 DEF Commit
  <2>4. ASSUME NEW r \in Rules, NEW u \in Users PROVE Marked(r, u)'
    <3>1. CASE r \in job[j].rows
      <4>1. holder[r] = j /\ ~Uncommitted(r, u)' /\ (Uncommitted(r, u) <=> u = job[j].user)
        BY <1>d, <2>1, <3>1
      <4>. QED
        BY <1>m, <2>1, <2>2, <2>3, <3>1, <4>1 DEF Marked
    <3>2. CASE r \notin job[j].rows
      BY <1>d, <1>m, <2>1, <2>2, <2>3, <3>2 DEF Marked
    <3>. QED
      BY <3>1, <3>2
  <2>. QED
    BY <1>d, <1>e, <2>1, <2>2, <2>4 DEF AllMarked
<1>8. ASSUME NEW j \in Jobs, Rollback(j) PROVE AllMarked'
  <2>1. /\ job' = [job EXCEPT ![j] = Idle] /\ holder' = Released(j)
        /\ UNCHANGED <<rule, heard, logged>>
    BY <1>8 DEF Rollback
  <2>2. \A r \in Rules, u \in Users :
          excused'[r][u] = IF r \in job[j].rows /\ u = job[j].user THEN excused[r][u] + 1
                           ELSE excused[r][u]
    BY <1>8 DEF Rollback, Typed
  <2>4. ASSUME NEW r \in Rules, NEW u \in Users PROVE Marked(r, u)'
    <3>1. CASE r \in job[j].rows
      <4>1. holder[r] = j /\ ~Uncommitted(r, u)' /\ (Uncommitted(r, u) <=> u = job[j].user)
        BY <1>d, <2>1, <3>1
      <4>. QED
        BY <1>m, <1>t, <2>1, <2>2, <3>1, <4>1 DEF Marked
    <3>2. CASE r \notin job[j].rows
      BY <1>d, <1>m, <2>1, <2>2, <3>2 DEF Marked
    <3>. QED
      BY <3>1, <3>2
  <2>. QED
    BY <1>d, <1>e, <2>1, <2>4 DEF AllMarked
<1>9. ASSUME NEW r \in Rules, ToggleRule(r) PROVE AllMarked'
  <2>1. \A q \in Rules : rule'[q].exists = rule[q].exists
    BY <1>9 DEF ToggleRule, Typed
  <2>2. \A q \in Rules, v \in Users : Uncommitted(q, v)' <=> Uncommitted(q, v)
    BY <1>9 DEF ToggleRule, Uncommitted
  <2>. QED
    BY <1>9, <1>a, <1>e, <2>1, <2>2 DEF ToggleRule
<1>10. ASSUME NEW r \in Rules, DeleteRule(r) PROVE AllMarked'
  <2>1. /\ rule'[r].exists = FALSE /\ logged'[r] = {} /\ holder[r] = NoJob
        /\ \A q \in Rules : q # r => rule'[q] = rule[q] /\ logged'[q] = logged[q]
        /\ UNCHANGED <<holder, job, heard, excused>>
    BY <1>10 DEF DeleteRule, Free, Typed
  <2>2. ASSUME NEW q \in Rules, NEW u \in Users PROVE Marked(q, u)'
    <3>1. Uncommitted(q, u)' <=> Uncommitted(q, u)
      BY <2>1 DEF Uncommitted
    <3>. QED
      BY <1>m, <2>1, <3>1 DEF Marked
  <2>. QED
    BY <1>e, <2>1, <2>2 DEF AllMarked
<1>11. ASSUME NEW r \in Rules, CooldownPasses(r) PROVE AllMarked'
  <2>1. /\ logged'[r] = {} /\ UNCHANGED <<rule, holder, job, excused>>
        /\ \A q \in Rules : q # r => heard'[q] = heard[q] /\ logged'[q] = logged[q]
        /\ \A u \in Users : heard'[r][u] = IF u \in logged[r] THEN 0 ELSE heard[r][u]
    BY <1>11 DEF CooldownPasses, Typed
  <2>2. ASSUME NEW q \in Rules, NEW u \in Users PROVE Marked(q, u)'
    <3>1. Uncommitted(q, u)' <=> Uncommitted(q, u)
      BY <2>1 DEF Uncommitted
    <3>2. CASE q = r /\ u \in logged[r]
      BY <1>t, <2>1, <3>2 DEF Marked
    <3>3. CASE ~(q = r /\ u \in logged[r])
      BY <1>m, <2>1, <3>1, <3>3 DEF Marked
    <3>. QED
      BY <3>2, <3>3
  <2>. QED
    BY <1>e, <2>1, <2>2 DEF AllMarked
<1>. QED
  BY <1>1, <1>2, <1>3, <1>4, <1>5, <1>6, <1>7, <1>8, <1>9, <1>10, <1>11
     DEF Next, Step, RuleGone, DeadlockVictim, JobDies

\* However webhooks, jobs, crashes, deadlocks and the admin interleave, a rule reaches a
\* user once per cooldown, but for the runs whose row was lost with its transaction.
THEOREM OncePerCooldown == ASSUME Sizes PROVE Spec => []CooldownKept
<1>1. Init => Inductive
  BY InductiveInit
<1>2. Inductive /\ [Next]_hookVars => Inductive'
  BY StayTyped, LocksStay, MarksStay DEF Inductive
<1>3. Inductive => CooldownKept
  BY DEF Inductive, AllMarked, Marked, CooldownKept
<1>. QED
  BY <1>1, <1>2, <1>3, PTL DEF Spec
====
