--------------------------- MODULE RateGuards_proofs ---------------------------
(***************************************************************************)
(* Proofs about RateGuards, for any limits and windows and any number of   *)
(* requests that overlap.                                                  *)
(*                                                                         *)
(* The argument, the same for every limit: a request passes only when      *)
(* fewer than the limit are remembered, so with n slots, of which a hold   *)
(* an admitted request, of the last limit + n - a times the first has left *)
(* the window.  An end records a time and frees a slot, which keeps that.  *)
(* The streak of mails is measured by its block instead: nobody passes     *)
(* before the block set by the last mail that filled a streak has ended.   *)
(***************************************************************************)
EXTENDS RateGuards, Integers, WellFoundedInduction, FiniteSetTheorems, TLAPS

\* What the proofs assume of the constants.
Sizes ==
    /\ IsFiniteSet(Slots)
    /\ Window \in Nat /\ HourWindow \in Nat /\ DayWindow \in Nat /\ HourWindow <= DayWindow
    /\ MaxFails \in Nat \ {0} /\ HourMax \in Nat \ {0} /\ DayMax \in Nat \ {0}
    /\ SendMax \in Nat \ {0} /\ StreakMax \in Nat \ {0}
    /\ Block \in Nat \ {0} /\ SendBlock \in Nat \ {0}
    /\ StreakBlock \in Nat /\ StreakBlock <= SendBlock

\* Times recorded one after another, none of them after moment c.
Ordered(times, c) ==
    \A i \in 1..Len(times) : times[i] <= c /\ \A j \in i..Len(times) : times[i] <= times[j]

\* A guard's list is the end of what was recorded; what it has lost is out of the window.
Remembers(list, times, window, c) ==
    \E d \in 0..Len(times) :
        /\ Len(list) = Len(times) - d
        /\ \A i \in 1..Len(list) : list[i] = times[d + i]
        /\ \A i \in 1..d : c - times[i] >= window

\* The requests in A may all be recorded now.
Room(times, limit, window, c, A) ==
    LET m == limit + Cardinality(Slots) - 1 - Cardinality(A)
    IN Len(times) > m => c - times[Len(times) - m] >= window

\* A limit that holds, and goes on to hold when those who were admitted are recorded.
Held(times, limit, window, c, A) ==
    Spread(times, limit, window) /\ Room(times, limit, window, c, A)

Typed ==
    /\ guard \in {"fails", "register", "send"}
    /\ clock \in Nat /\ blockedUntil \in Nat /\ streak \in Nat
    /\ events \in Seq(Nat) /\ past \in Seq(Nat) /\ streakPast \in Seq(Nat)
    /\ admitted \in SUBSET Slots

Remembered ==
    /\ Ordered(past, clock) /\ Ordered(streakPast, clock)
    /\ Remembers(events, past, Span, clock)

\* The last mail that filled a streak has set a block.
LastBlock ==
    /\ streak < StreakMax
    /\ Len(streakPast) > streak =>
          blockedUntil >= streakPast[Len(streakPast) - streak] + StreakBlock

LimitsHeld ==
    /\ guard = "fails" => Held(past, MaxFails, Window, clock, admitted)
    /\ guard = "register" => /\ Held(past, HourMax, HourWindow, clock, admitted)
                             /\ Held(past, DayMax, DayWindow, clock, admitted)
    /\ guard = "send" => /\ Held(past, SendMax, DayWindow, clock, admitted)
                         /\ Held(streakPast, StreakMax, StreakBlock, clock, admitted)

Inductive == Typed /\ Remembered /\ LastBlock /\ LimitsHeld

-----------------------------------------------------------------------------
(* Lists of times *)

\* The sets of slots that are counted are finite.
LEMMA Sets ==
    ASSUME Sizes, NEW A \in SUBSET Slots
    PROVE  /\ Cardinality(Slots) \in Nat /\ Cardinality(A) \in Nat
           /\ Cardinality(A) <= Cardinality(Slots) /\ IsFiniteSet(A)
BY FS_Subset, FS_CardinalityType DEF Sizes

\* A set of numbers has a least one.
LEMMA Least == ASSUME NEW T \in SUBSET Nat, T # {} PROVE \E m \in T : \A k \in T : m <= k
<1>1. PICK m \in T : \A k \in T : <<k, m>> \notin OpToRel(<, Nat)
  BY WFMin, NatLessThanWellFounded
<1>2. ASSUME NEW k \in T PROVE m <= k
  <2>1. k \in Nat /\ m \in Nat
    OBVIOUS
  <2>2. ~ (k < m)
    BY <1>1, <2>1 DEF OpToRel
  <2>. QED
    BY <2>1, <2>2
<1>. QED
  BY <1>2

\* An ordered list loses its first elements, those out of the window.
LEMMA WithinIsEnd ==
    ASSUME NEW list \in Seq(Nat), NEW window \in Nat, clock \in Nat, Ordered(list, clock)
    PROVE  \E n \in 0..Len(list) :
              /\ Within(list, window) = SubSeq(list, n + 1, Len(list))
              /\ \A i \in 1..n : clock - list[i] >= window
<1>1. PICK old : old = {i \in 1..Len(list) : clock - list[i] >= window}
  OBVIOUS
<1>. DEFINE T == {m \in 1..(Len(list) + 1) : m \notin old}
<1>2. T \in SUBSET Nat /\ \A m \in T : m \in 1..(Len(list) + 1) /\ m \notin old
  OBVIOUS
<1>3. Len(list) + 1 \in T
  BY <1>1
<1>a. \A i \in 1..Len(list) : i \notin old => i \in T
  OBVIOUS
<1>. HIDE DEF T
<1>4. PICK m \in T : \A k \in T : m <= k
  BY <1>2, <1>3, Least
<1>5. PICK n \in 0..Len(list) : n = m - 1
  BY <1>2
<1>6. old = 1..n
  <2>1. ASSUME NEW i \in 1..n PROVE i \in old
    BY <1>2, <1>4, <1>5, <1>a
  <2>2. ASSUME NEW i \in old PROVE i \in 1..n
    <3>1. i \in 1..Len(list) /\ clock - list[i] >= window
      BY <1>1
    <3>2. CASE m = Len(list) + 1
      BY <1>5, <3>1, <3>2
    <3>3. CASE m \in 1..Len(list)
      <4>1. list[m] \in Nat /\ list[i] \in Nat /\ ~(clock - list[m] >= window)
        BY SMTT(30), <1>1, <1>2, <3>1, <3>3
      <4>2. m <= i => list[m] <= list[i]
        BY <3>1, <3>3 DEF Ordered
      <4>. QED
        BY SMTT(30), <1>5, <3>1, <3>3, <4>1, <4>2
    <3>. QED
      BY <1>2, <3>2, <3>3
  <2>. QED
    BY <2>1, <2>2
<1>7. Cardinality(old) = n
  BY <1>5, <1>6, FS_Interval
<1>. QED
  BY <1>1, <1>6, <1>7 DEF Within

\* Asking drops times out of the window only.
LEMMA StillRemembers ==
    ASSUME NEW times \in Seq(Nat), NEW list \in Seq(Nat), NEW window \in Nat, clock \in Nat,
           NEW w \in Nat, w <= window,
           Ordered(times, clock), Remembers(list, times, window, clock)
    PROVE  /\ Remembers(Within(list, w), times, w, clock)
           /\ Within(list, w) \in Seq(Nat)
           /\ Ordered(list, clock)
<1>1. PICK d \in 0..Len(times) :
        /\ Len(list) = Len(times) - d
        /\ \A i \in 1..Len(list) : list[i] = times[d + i]
        /\ \A i \in 1..d : clock - times[i] >= window
  BY DEF Remembers
<1>2. Len(list) = Len(times) - d /\ \A i \in 1..Len(list) : list[i] = times[d + i]
  BY <1>1
<1>3. Ordered(list, clock)
  <2>. SUFFICES ASSUME NEW i \in 1..Len(list)
                PROVE  list[i] <= clock /\ \A j \in i..Len(list) : list[i] <= list[j]
    BY DEF Ordered
  <2>1. d + i \in 1..Len(times) /\ list[i] = times[d + i]
    BY <1>2
  <2>2. ASSUME NEW j \in i..Len(list) PROVE list[i] <= list[j]
    <3>1. d + j \in (d + i)..Len(times) /\ j \in 1..Len(list)
      BY <1>2
    <3>. QED
      BY <1>2, <2>1, <3>1 DEF Ordered
  <2>. QED
    BY <2>1, <2>2 DEF Ordered
<1>4. PICK n \in 0..Len(list) :
        /\ Within(list, w) = SubSeq(list, n + 1, Len(list))
        /\ \A i \in 1..n : clock - list[i] >= w
  BY <1>3, WithinIsEnd
<1>5. PICK e \in 0..Len(times) : e = d + n
  BY <1>2
<1>6. /\ Within(list, w) \in Seq(Nat)
      /\ Len(Within(list, w)) = Len(times) - e
      /\ \A i \in 1..Len(Within(list, w)) : Within(list, w)[i] = times[e + i]
  <2>1. PICK young : young = Within(list, w)
    OBVIOUS
  <2>2. young \in Seq(Nat) /\ Len(young) = Len(list) - n
    BY <1>4, <2>1
  <2>3. ASSUME NEW i \in 1..Len(young) PROVE young[i] = times[e + i]
    <3>1. young[i] = list[n + i] /\ n + i \in 1..Len(list)
      BY <1>4, <2>1, <2>2
    <3>2. list[n + i] = times[d + (n + i)] /\ d + (n + i) = e + i
      BY <1>2, <1>5, <3>1
    <3>. QED
      BY <3>1, <3>2
  <2>. QED
    BY <1>2, <1>5, <2>1, <2>2, <2>3
<1>7. \A i \in 1..e : clock - times[i] >= w
  <2>. SUFFICES ASSUME NEW i \in 1..e PROVE clock - times[i] >= w
    OBVIOUS
  <2>0. times[i] \in Nat
    BY <1>5
  <2>1. CASE i <= d
    <3>1. i \in 1..d
      BY <2>1
    <3>2. clock - times[i] >= window
      BY <1>1, <3>1
    <3>. QED
      BY <2>0, <3>2
  <2>2. CASE i > d
    <3>1. PICK k \in 1..n : i = d + k
      <4>1. i - d \in 1..n /\ i = d + (i - d)
        BY <1>5, <2>2
      <4>. QED
        BY <4>1
    <3>2. k \in 1..Len(list)
      BY <1>4
    <3>3. list[k] = times[i] /\ clock - list[k] >= w
      BY <1>2, <1>4, <3>1, <3>2
    <3>. QED
      BY <3>3
  <2>. QED
    BY <2>1, <2>2
<1>. QED
  BY <1>3, <1>5, <1>6, <1>7 DEF Remembers

\* Whoever is let in finds fewer times than the limit, and all others have left the window.
LEMMA LetIn ==
    ASSUME Sizes, clock \in Nat,
           NEW times \in Seq(Nat), Ordered(times, clock),
           NEW limit \in Nat \ {0}, NEW window \in Nat,
           NEW kept \in Seq(Nat), Remembers(kept, times, window, clock), Len(kept) < limit,
           NEW A \in SUBSET Slots
    PROVE  Room(times, limit, window, clock, A)
<1>1. PICK d \in 0..Len(times) :
        /\ Len(kept) = Len(times) - d
        /\ \A i \in 1..d : clock - times[i] >= window
  BY DEF Remembers
<1>2. Len(kept) = Len(times) - d
  BY <1>1
<1>a. /\ Cardinality(Slots) \in Nat /\ Cardinality(A) \in Nat
      /\ Cardinality(A) <= Cardinality(Slots)
  BY Sets
<1>3. PICK m \in Nat : m = limit + Cardinality(Slots) - 1 - Cardinality(A) /\ m >= limit - 1
  BY <1>a
<1>4. Len(times) > m => Len(times) - m \in 1..d
  BY SMTT(30), <1>2, <1>3
<1>. QED
  BY <1>1, <1>3, <1>4 DEF Room

\* Time passes.
LEMMA TimePasses ==
    ASSUME Sizes, NEW c \in Nat, NEW b \in Nat, c <= b, NEW times \in Seq(Nat),
           NEW limit \in Nat \ {0}, NEW window \in Nat, NEW A \in SUBSET Slots,
           Held(times, limit, window, c, A)
    PROVE  Held(times, limit, window, b, A)
<1>1. PICK m \in Nat : m = limit + Cardinality(Slots) - 1 - Cardinality(A)
  BY Sets
<1>2. Len(times) > m => Len(times) - m \in 1..Len(times)
  BY <1>1
<1>3. Len(times) > m => times[Len(times) - m] \in Nat
  BY <1>2
<1>. QED
  BY SMTT(30), <1>1, <1>3 DEF Held, Room

\* A slot is given back.
LEMMA SlotFreed ==
    ASSUME Sizes, NEW c \in Nat, NEW times \in Seq(Nat), Ordered(times, c),
           NEW limit \in Nat \ {0}, NEW window \in Nat, NEW A \in SUBSET Slots, NEW s \in A,
           Held(times, limit, window, c, A)
    PROVE  Held(times, limit, window, c, A \ {s})
<1>1. Cardinality(A \ {s}) = Cardinality(A) - 1
  BY Sets, FS_RemoveElement
<1>2. PICK m \in Nat : m = limit + Cardinality(Slots) - 1 - Cardinality(A)
  BY Sets
<1>3. m + 1 = limit + Cardinality(Slots) - 1 - Cardinality(A \ {s})
  BY SMTT(30), <1>1, <1>2, Sets
<1>4. ASSUME Len(times) > m + 1 PROVE c - times[Len(times) - (m + 1)] >= window
  <2>1. /\ Len(times) - (m + 1) \in 1..Len(times)
        /\ Len(times) - m \in (Len(times) - (m + 1))..Len(times)
        /\ Len(times) - m \in 1..Len(times)
    BY <1>2, <1>4
  <2>2. times[Len(times) - (m + 1)] <= times[Len(times) - m]
    BY <2>1 DEF Ordered
  <2>3. c - times[Len(times) - m] >= window
    BY <1>2, <1>4 DEF Held, Room
  <2>. QED
    BY SMTT(30), <2>1, <2>2, <2>3
<1>. QED
  BY <1>3, <1>4 DEF Held, Room

\* An admitted request is recorded.
LEMMA Recorded ==
    ASSUME Sizes, NEW c \in Nat, NEW times \in Seq(Nat), Ordered(times, c),
           NEW limit \in Nat \ {0}, NEW window \in Nat, NEW A \in SUBSET Slots, NEW s \in A,
           Held(times, limit, window, c, A)
    PROVE  /\ Held(Append(times, c), limit, window, c, A \ {s})
           /\ Ordered(Append(times, c), c)
<1>a. /\ Cardinality(Slots) \in Nat /\ Cardinality(A) \in Nat
      /\ Cardinality(A) <= Cardinality(Slots)
  BY Sets
<1>1. Cardinality(A \ {s}) = Cardinality(A) - 1 /\ Cardinality(A) >= 1
  <2>1. IsFiniteSet(A) /\ A # {}
    BY Sets
  <2>2. Cardinality(A \ {s}) = Cardinality(A) - 1
    BY <2>1, FS_RemoveElement
  <2>3. Cardinality(A) # 0
    BY <2>1, FS_EmptySet
  <2>. QED
    BY <1>a, <2>2, <2>3
<1>2. PICK m \in Nat : m = limit + Cardinality(Slots) - 1 - Cardinality(A)
  BY <1>a
<1>3. m + 1 = limit + Cardinality(Slots) - 1 - Cardinality(A \ {s})
  BY <1>1, <1>2, <1>a
<1>b. Append(times, c) \in Seq(Nat)
  OBVIOUS
<1>4. PICK more \in Seq(Nat) : more = Append(times, c)
  BY <1>b
<1>5. /\ Len(more) = Len(times) + 1 /\ more[Len(times) + 1] = c
      /\ \A i \in 1..Len(times) : more[i] = times[i] /\ times[i] \in Nat
  BY <1>4
<1>c. Len(times) \in Nat /\ Len(more) \in Nat
  OBVIOUS
<1>6. Room(more, limit, window, c, A \ {s})
  <2>1. ASSUME Len(more) > m + 1 PROVE c - more[Len(more) - (m + 1)] >= window
    <3>a. m \in Nat /\ Len(times) \in Nat /\ Len(more) = Len(times) + 1
      BY <1>2, <1>5
    <3>b. Len(times) > m
      BY <2>1, <3>a
    <3>1. Len(times) > m /\ Len(more) - (m + 1) = Len(times) - m /\ Len(times) - m \in 1..Len(times)
      BY <3>a, <3>b
    <3>2. c - times[Len(times) - m] >= window
      BY <1>2, <3>1 DEF Held, Room
    <3>. QED
      BY <1>5, <3>1, <3>2
  <2>. QED
    BY <1>3, <2>1 DEF Room
<1>7. Spread(more, limit, window)
  <2>b. PICK k : k = limit + Cardinality(Slots) - 1
    OBVIOUS
  <2>c. k \in Nat
    BY <1>1, <1>a, <2>b
  <2>d. m <= k - 1
    BY SMTT(30), <1>1, <1>2, <1>a, <2>b
  <2>1. k \in Nat /\ k = limit + Cardinality(Slots) - 1 /\ m <= k - 1
    BY <2>b, <2>c, <2>d
  <2>2. ASSUME NEW i \in 1..Len(more), i + k <= Len(more)
        PROVE  more[i + k] - more[i] >= window
    <3>1. CASE i + k <= Len(times)
      <4>1. i \in 1..Len(times) /\ i + k \in 1..Len(times)
        BY SMTT(30), <2>1, <3>1
      <4>. QED
        BY <1>5, <2>1, <3>1, <4>1 DEF Held, Spread
    <3>2. CASE i + k = Len(times) + 1
      <4>a. /\ i \in Nat /\ i >= 1 /\ m \in Nat /\ k \in Nat /\ m <= k - 1
            /\ Len(times) \in Nat /\ i + k = Len(times) + 1
        BY <1>2, <1>c, <2>1, <3>2
      <4>1. /\ i \in 1..Len(times) /\ Len(times) > m
            /\ Len(times) - m \in i..Len(times) /\ Len(times) - m \in 1..Len(times)
        BY <4>a
      <4>2. times[i] <= times[Len(times) - m]
        BY <4>1 DEF Ordered
      <4>3. c - times[Len(times) - m] >= window
        BY <1>2, <4>1 DEF Held, Room
      <4>4. /\ times[i] \in Nat /\ times[Len(times) - m] \in Nat
            /\ more[i] = times[i] /\ more[i + k] = c
        BY <1>5, <3>2, <4>1
      <4>5. PICK a \in Nat, b \in Nat : a = times[i] /\ b = times[Len(times) - m]
        BY <4>4
      <4>6. a <= b /\ c - b >= window
        BY <4>2, <4>3, <4>5
      <4>7. c - a >= window
        BY <4>6
      <4>. QED
        BY <4>4, <4>5, <4>7
    <3>3. /\ i \in Nat /\ k \in Nat /\ Len(times) \in Nat /\ Len(more) = Len(times) + 1
          /\ i + k <= Len(more)
      BY <1>5, <1>c, <2>1, <2>2
    <3>4. i + k <= Len(times) \/ i + k = Len(times) + 1
      BY <3>3
    <3>. QED
      BY <3>1, <3>2, <3>4
  <2>. QED
    BY <2>1, <2>2 DEF Spread
<1>8. Ordered(more, c)
  <2>. SUFFICES ASSUME NEW i \in 1..Len(more)
                PROVE  more[i] <= c /\ \A j \in i..Len(more) : more[i] <= more[j]
    BY DEF Ordered
  <2>1. CASE i = Len(times) + 1
    BY <1>5, <2>1
  <2>2. CASE i \in 1..Len(times)
    <3>1. more[i] = times[i] /\ times[i] <= c
      BY <1>5, <2>2 DEF Ordered
    <3>2. ASSUME NEW j \in i..Len(more) PROVE more[i] <= more[j]
      <4>1. CASE j = Len(times) + 1
        BY <1>5, <3>1, <4>1
      <4>2. CASE j \in i..Len(times)
        BY <1>5, <2>2, <3>1, <4>2 DEF Ordered
      <4>. QED
        BY <1>5, <4>1, <4>2
    <3>. QED
      BY <3>1, <3>2
  <2>. QED
    BY <1>5, <2>1, <2>2
<1>. QED
  BY <1>4, <1>6, <1>7, <1>8 DEF Held

\* The list of the guard grows with the list of what was recorded.
LEMMA StillEnd ==
    ASSUME NEW times \in Seq(Nat), NEW list \in Seq(Nat), NEW window \in Nat, NEW c \in Nat,
           Remembers(list, times, window, c)
    PROVE  Remembers(Append(list, c), Append(times, c), window, c)
<1>1. PICK d \in 0..Len(times) :
        /\ Len(list) = Len(times) - d
        /\ \A i \in 1..Len(list) : list[i] = times[d + i]
        /\ \A i \in 1..d : c - times[i] >= window
  BY DEF Remembers
<1>2. PICK more, longer : more = Append(times, c) /\ longer = Append(list, c)
  OBVIOUS
<1>3. /\ Len(more) = Len(times) + 1 /\ more[Len(times) + 1] = c
      /\ \A i \in 1..Len(times) : more[i] = times[i]
      /\ Len(longer) = Len(list) + 1 /\ longer[Len(list) + 1] = c
      /\ \A i \in 1..Len(list) : longer[i] = list[i]
  BY <1>2
<1>4. ASSUME NEW i \in 1..Len(longer) PROVE longer[i] = more[d + i]
  <2>1. CASE i \in 1..Len(list)
    BY <1>1, <1>3, <2>1
  <2>2. CASE i = Len(list) + 1
    BY <1>1, <1>3, <2>2
  <2>. QED
    BY <1>3, <2>1, <2>2
<1>5. d \in 0..Len(more) /\ Len(longer) = Len(more) - d
  BY <1>1, <1>3
<1>6. ASSUME NEW i \in 1..d PROVE c - more[i] >= window
  <2>1. i \in 1..Len(times)
    BY <1>1
  <2>. QED
    BY <1>1, <1>3, <2>1
<1>. QED
  BY <1>2, <1>4, <1>5, <1>6 DEF Remembers

\* Nothing recorded keeps every limit.
LEMMA NothingHeld ==
    ASSUME Sizes, NEW c \in Nat, NEW limit \in Nat \ {0}, NEW window \in Nat, NEW A \in SUBSET Slots
    PROVE  Held(<< >>, limit, window, c, A) /\ Ordered(<< >>, c)
<1>1. limit + Cardinality(Slots) - 1 - Cardinality(A) \in Nat
  BY Sets
<1>2. Len(<< >>) = 0
  OBVIOUS
<1>3. Room(<< >>, limit, window, c, A)
  BY <1>1, <1>2 DEF Room
<1>4. Spread(<< >>, limit, window)
  BY <1>2 DEF Spread
<1>. QED
  BY <1>2, <1>3, <1>4 DEF Held, Ordered

-----------------------------------------------------------------------------
(* The steps *)

\* The primes of an invariant's operators, pushed to their arguments.
LEMMA Primes ==
    /\ Typed' <=> /\ guard' \in {"fails", "register", "send"}
                  /\ clock' \in Nat /\ blockedUntil' \in Nat /\ streak' \in Nat
                  /\ events' \in Seq(Nat) /\ past' \in Seq(Nat) /\ streakPast' \in Seq(Nat)
                  /\ admitted' \in SUBSET Slots
    /\ guard' = guard =>
          (Remembered' <=> /\ Ordered(past', clock') /\ Ordered(streakPast', clock')
                           /\ Remembers(events', past', Span, clock'))
    /\ guard' = guard =>
          (LimitsHeld' <=>
              /\ guard = "fails" => Held(past', MaxFails, Window, clock', admitted')
              /\ guard = "register" => /\ Held(past', HourMax, HourWindow, clock', admitted')
                                       /\ Held(past', DayMax, DayWindow, clock', admitted')
              /\ guard = "send" =>
                    /\ Held(past', SendMax, DayWindow, clock', admitted')
                    /\ Held(streakPast', StreakMax, StreakBlock, clock', admitted'))
BY DEF Typed, Remembered, LimitsHeld, Ordered, Remembers, Span, Held, Room, Spread

\* Nothing was recorded.
LEMMA InductiveInit == Sizes /\ Init => Inductive
<1>. SUFFICES ASSUME Sizes, Init PROVE Inductive
  OBVIOUS
<1>1. << >> \in Seq(Nat) /\ Len(<< >>) = 0
  OBVIOUS
<1>2. Typed
  BY <1>1 DEF Init, Typed
<1>3. Remembers(<< >>, << >>, Span, clock)
  BY <1>1 DEF Remembers
<1>4. Remembered
  BY <1>3, <1>1 DEF Init, Remembered, Ordered
<1>5. LastBlock
  BY <1>1 DEF Init, LastBlock, Sizes
<1>6. LimitsHeld
  BY NothingHeld DEF Init, LimitsHeld, Sizes
<1>. QED
  BY <1>2, <1>4, <1>5, <1>6 DEF Inductive

\* Time passes: what was remembered may leave the window.
LEMMA TickKeeps == ASSUME Sizes, Inductive, Tick PROVE Inductive'
<1>1. clock \in Nat /\ clock' \in Nat /\ clock <= clock' /\ clock' = clock + 1
  BY DEF Inductive, Typed, Tick
<1>2. UNCHANGED <<guard, events, blockedUntil, streak, admitted, past, streakPast>>
  BY DEF Tick
<1>3. Typed'
  BY <1>1, <1>2, Primes DEF Inductive, Typed
<1>4. ASSUME NEW times \in Seq(Nat), Ordered(times, clock) PROVE Ordered(times, clock')
  <2>1. \A i \in 1..Len(times) : times[i] \in Nat
    OBVIOUS
  <2>. QED
    BY <1>1, <1>4, <2>1 DEF Ordered
<1>5. Remembers(events, past, Span, clock')
  <2>1. PICK d \in 0..Len(past) :
          /\ Len(events) = Len(past) - d
          /\ \A i \in 1..Len(events) : events[i] = past[d + i]
          /\ \A i \in 1..d : clock - past[i] >= Span
    BY DEF Inductive, Remembered, Remembers
  <2>2. Span \in Nat
    BY DEF Span, Sizes
  <2>3. ASSUME NEW i \in 1..d PROVE clock' - past[i] >= Span
    <3>1. past[i] \in Nat
      BY DEF Inductive, Typed
    <3>. QED
      BY <1>1, <2>1, <2>2, <3>1
  <2>. QED
    BY <2>1, <2>3 DEF Remembers
<1>6. Remembered'
  BY <1>2, <1>4, <1>5, Primes DEF Inductive, Typed, Remembered
<1>7. LastBlock'
  BY <1>2 DEF Inductive, LastBlock
<1>8. LimitsHeld'
  BY <1>1, <1>2, TimePasses, Primes DEF Inductive, Typed, LimitsHeld, Sizes
<1>. QED
  BY <1>3, <1>6, <1>7, <1>8 DEF Inductive

\* A request is let through when what is remembered leaves room for it.
LEMMA AskKeeps == ASSUME Sizes, Inductive, NEW s \in Slots, Ask(s) PROVE Inductive'
<1>. USE DEF Inductive
<1>1. CASE UNCHANGED <<guard, clock, events, blockedUntil, streak, admitted, past, streakPast>>
  BY <1>1, Primes DEF Typed, Remembered, LastBlock, LimitsHeld
<1>2. CASE ~(blockedUntil > clock)
  <2>1. PICK kept : kept = Within(events, Span)
    OBVIOUS
  <2>2. Span \in Nat
    BY DEF Span, Sizes
  <2>3. /\ kept \in Seq(Nat) /\ Remembers(kept, past, Span, clock)
        /\ Ordered(kept, clock)
    <3>1. Ordered(events, clock)
      BY <2>2, StillRemembers DEF Typed, Remembered
    <3>2. PICK n \in 0..Len(events) : kept = SubSeq(events, n + 1, Len(events))
      BY <2>1, <2>2, <3>1, WithinIsEnd DEF Typed
    <3>3. kept \in Seq(Nat) /\ Remembers(kept, past, Span, clock)
      BY <2>1, <2>2, StillRemembers DEF Typed, Remembered
    <3>4. Ordered(kept, clock)
      BY <2>2, <3>3, StillRemembers DEF Typed, Remembered
    <3>. QED
      BY <3>3, <3>4
  <2>4. /\ events' = kept /\ UNCHANGED <<guard, clock, streak, past, streakPast>>
        /\ blockedUntil' \in Nat /\ blockedUntil' >= blockedUntil
        /\ admitted' \in SUBSET Slots
    <3>1. Punished(kept) \in Nat /\ (Punished(kept) > 0 => Punished(kept) >= clock)
      BY DEF Punished, Sizes, Typed
    <3>2. blockedUntil \in Nat /\ clock \in Nat /\ blockedUntil <= clock
      BY <1>2 DEF Typed
    <3>3. /\ events' = kept /\ UNCHANGED <<guard, clock, streak, past, streakPast>>
          /\ IF Punished(kept) > 0
             THEN blockedUntil' = Punished(kept) /\ UNCHANGED admitted
             ELSE /\ admitted' = IF Full(kept) THEN admitted ELSE admitted \cup {s}
                  /\ UNCHANGED blockedUntil
      BY <1>2, <2>1 DEF Ask
    <3>4. admitted' \in SUBSET Slots
      BY <3>3 DEF Typed
    <3>. QED
      BY <3>1, <3>2, <3>3, <3>4
  <2>5. Typed' /\ Remembered'
    BY <2>3, <2>4, Primes DEF Typed, Remembered
  <2>6. LastBlock'
    <3>1. CASE Len(streakPast) > streak
      <4>1. streakPast[Len(streakPast) - streak] \in Nat
        BY <3>1 DEF Typed
      <4>. QED
        BY <2>4, <3>1, <4>1 DEF LastBlock, Typed, Sizes
    <3>2. CASE ~(Len(streakPast) > streak)
      BY <2>4, <3>2 DEF LastBlock
    <3>. QED
      BY <3>1, <3>2
  <2>7. LimitsHeld'
    <3>1. CASE UNCHANGED admitted
      BY <2>4, <3>1, Primes DEF LimitsHeld
    <3>2. CASE admitted' # admitted
      <4>1. ~(Punished(kept) > 0) /\ ~Full(kept)
        BY <1>2, <2>1, <3>2 DEF Ask
      <4>2. guard = "fails" => Held(past, MaxFails, Window, clock, admitted')
        <5>1. SUFFICES ASSUME guard = "fails" PROVE Held(past, MaxFails, Window, clock, admitted')
          OBVIOUS
        <5>2. Len(kept) < MaxFails /\ Span = Window
          BY <2>3, <4>1, <5>1 DEF Punished, Span, Sizes, Typed
        <5>3. Room(past, MaxFails, Window, clock, admitted')
          BY <2>3, <2>4, <5>2, LetIn DEF Sizes, Typed, Remembered
        <5>. QED
          BY <5>1, <5>3 DEF LimitsHeld, Held
      <4>3. guard = "register" => /\ Held(past, HourMax, HourWindow, clock, admitted')
                                  /\ Held(past, DayMax, DayWindow, clock, admitted')
        <5>1. SUFFICES ASSUME guard = "register"
                       PROVE  /\ Held(past, HourMax, HourWindow, clock, admitted')
                              /\ Held(past, DayMax, DayWindow, clock, admitted')
          OBVIOUS
        <5>2. Span = DayWindow /\ Len(kept) \in Nat
          BY <2>3, <5>1 DEF Span
        <5>3. Len(kept) < DayMax
          BY <4>1, <5>1, <5>2 DEF Full, Sizes
        <5>4. PICK hour : hour = Within(kept, HourWindow)
          OBVIOUS
        <5>5. hour \in Seq(Nat) /\ Remembers(hour, past, HourWindow, clock)
          BY <2>3, <5>2, <5>4, StillRemembers DEF Sizes, Typed, Remembered
        <5>6. Len(hour) < HourMax
          BY <4>1, <5>1, <5>4, <5>5 DEF Full, Sizes
        <5>7. Room(past, HourMax, HourWindow, clock, admitted')
          BY <2>4, <5>5, <5>6, LetIn DEF Sizes, Typed, Remembered
        <5>8. Room(past, DayMax, DayWindow, clock, admitted')
          BY <2>3, <2>4, <5>2, <5>3, LetIn DEF Sizes, Typed, Remembered
        <5>. QED
          BY <5>1, <5>7, <5>8 DEF LimitsHeld, Held
      <4>4. guard = "send" => /\ Held(past, SendMax, DayWindow, clock, admitted')
                              /\ Held(streakPast, StreakMax, StreakBlock, clock, admitted')
        <5>1. SUFFICES ASSUME guard = "send"
                       PROVE  /\ Held(past, SendMax, DayWindow, clock, admitted')
                              /\ Held(streakPast, StreakMax, StreakBlock, clock, admitted')
          OBVIOUS
        <5>2. Len(kept) < SendMax /\ Span = DayWindow
          BY <2>3, <4>1, <5>1 DEF Punished, Span, Sizes, Typed
        <5>3. Room(past, SendMax, DayWindow, clock, admitted')
          BY <2>3, <2>4, <5>2, LetIn DEF Sizes, Typed, Remembered
        <5>4. Room(streakPast, StreakMax, StreakBlock, clock, admitted')
          <6>0. /\ Cardinality(Slots) \in Nat /\ Cardinality(admitted') \in Nat
                /\ Cardinality(admitted') <= Cardinality(Slots)
            BY <2>4, Sets
          <6>1. PICK m : m = StreakMax + Cardinality(Slots) - 1 - Cardinality(admitted')
            OBVIOUS
          <6>2. m \in Nat /\ m >= StreakMax - 1
            BY <6>0, <6>1 DEF Sizes
          <6>3. ASSUME Len(streakPast) > m
                PROVE  clock - streakPast[Len(streakPast) - m] >= StreakBlock
            <7>1. PICK n \in Nat : n = Len(streakPast)
              BY DEF Typed
            <7>2. /\ streak \in Nat /\ streak <= m /\ n > streak
                  /\ n - m \in 1..n /\ n - streak \in (n - m)..n /\ n - streak \in 1..n
              BY SMTT(30), <6>2, <6>3, <7>1 DEF LastBlock, Typed, Sizes
            <7>3. /\ streakPast[n - m] \in Nat /\ streakPast[n - streak] \in Nat
                  /\ streakPast[n - m] <= streakPast[n - streak]
              <8>1. PICK i, j : i = n - m /\ j = n - streak
                OBVIOUS
              <8>2. i \in 1..Len(streakPast) /\ j \in 1..Len(streakPast) /\ j \in i..Len(streakPast)
                BY <7>1, <7>2, <8>1
              <8>3. streakPast[i] \in Nat /\ streakPast[j] \in Nat /\ streakPast[i] <= streakPast[j]
                BY <8>2 DEF Typed, Remembered, Ordered
              <8>. QED
                BY <8>1, <8>3
            <7>4. blockedUntil >= streakPast[n - streak] + StreakBlock
              BY <7>1, <7>2 DEF LastBlock
            <7>5. blockedUntil \in Nat /\ clock \in Nat /\ StreakBlock \in Nat /\ blockedUntil <= clock
              BY <1>2 DEF Typed, Sizes
            <7>6. clock - streakPast[n - m] >= StreakBlock
              BY <7>3, <7>4, <7>5
            <7>. QED
              BY <7>1, <7>6
          <6>. QED
            BY <6>1, <6>3 DEF Room
        <5>. QED
          BY <5>1, <5>3, <5>4 DEF LimitsHeld, Held
      <4>. QED
        BY <2>4, <4>2, <4>3, <4>4, Primes
    <3>. QED
      BY <3>1, <3>2
  <2>. QED
    BY <2>5, <2>6, <2>7
<1>. QED
  BY <1>1, <1>2 DEF Ask

\* The slot that was held becomes a recorded time.
LEMMA RecordKeeps == ASSUME Sizes, Inductive, NEW s \in Slots, Record(s) PROVE Inductive'
<1>. USE DEF Inductive
<1>1. /\ s \in admitted /\ guard # "send"
      /\ events' = Append(events, clock) /\ past' = Append(past, clock)
      /\ admitted' = admitted \ {s}
      /\ UNCHANGED <<guard, clock, blockedUntil, streak, streakPast>>
  BY DEF Record
<1>2. Typed'
  BY <1>1, Primes DEF Typed
<1>3. Span \in Nat
  BY DEF Span, Sizes
<1>4. Remembers(events', past', Span, clock)
  BY <1>1, <1>3, StillEnd DEF Typed, Remembered
<1>5. guard = "fails" => Held(past', MaxFails, Window, clock, admitted') /\ Ordered(past', clock)
  BY <1>1, Recorded DEF Typed, Remembered, LimitsHeld, Sizes
<1>6. guard = "register" => /\ Held(past', HourMax, HourWindow, clock, admitted')
                            /\ Held(past', DayMax, DayWindow, clock, admitted')
                            /\ Ordered(past', clock)
  BY <1>1, Recorded DEF Typed, Remembered, LimitsHeld, Sizes
<1>7. Ordered(past', clock)
  BY <1>1, <1>5, <1>6 DEF Typed
<1>8. Remembered'
  BY <1>1, <1>4, <1>7, Primes DEF Remembered
<1>9. LastBlock'
  BY <1>1 DEF LastBlock
<1>10. LimitsHeld'
  BY <1>1, <1>5, <1>6, Primes
<1>. QED
  BY <1>2, <1>8, <1>9, <1>10

\* A mail is recorded, and may end in a block, the long one or the short one.
LEMMA RecordMailKeeps == ASSUME Sizes, Inductive, NEW s \in Slots, RecordMail(s) PROVE Inductive'
<1>. USE DEF Inductive
<1>1. PICK kept, list : kept = Within(events, Span) /\ list = Append(kept, clock)
  OBVIOUS
<1>2. /\ s \in admitted /\ guard = "send"
      /\ events' = list /\ past' = Append(past, clock) /\ streakPast' = Append(streakPast, clock)
      /\ admitted' = admitted \ {s}
      /\ blockedUntil' = IF LongBlock(list) THEN Latest(blockedUntil, clock + SendBlock)
                         ELSE IF ShortBlock THEN Latest(blockedUntil, clock + StreakBlock)
                         ELSE blockedUntil
      /\ streak' = IF LongBlock(list) \/ ShortBlock THEN 0 ELSE streak + 1
      /\ UNCHANGED <<guard, clock>>
  BY <1>1 DEF RecordMail
<1>3. Span \in Nat
  BY DEF Span, Sizes
<1>4. kept \in Seq(Nat) /\ Remembers(kept, past, Span, clock)
  BY <1>1, <1>3, StillRemembers DEF Typed, Remembered
<1>5. list \in Seq(Nat) /\ Remembers(events', past', Span, clock)
  BY <1>1, <1>2, <1>3, <1>4, StillEnd DEF Typed
<1>6. \A a, b \in Nat : Latest(a, b) \in Nat /\ Latest(a, b) >= a /\ Latest(a, b) >= b
  BY DEF Latest
<1>7. /\ blockedUntil' \in Nat /\ blockedUntil' >= blockedUntil
      /\ LongBlock(list) \/ ShortBlock => blockedUntil' >= clock + StreakBlock
  <2>1. /\ blockedUntil \in Nat /\ clock + SendBlock \in Nat /\ clock + StreakBlock \in Nat
        /\ clock + StreakBlock <= clock + SendBlock
    BY DEF Typed, Sizes
  <2>2. CASE LongBlock(list)
    <3>1. blockedUntil' = Latest(blockedUntil, clock + SendBlock)
      BY <1>2, <2>2
    <3>. QED
      BY <1>6, <2>1, <3>1
  <2>3. CASE ~LongBlock(list) /\ ShortBlock
    BY <1>2, <1>6, <2>1, <2>3
  <2>4. CASE ~LongBlock(list) /\ ~ShortBlock
    BY <1>2, <2>1, <2>4
  <2>. QED
    BY <2>2, <2>3, <2>4
<1>8. streak' \in Nat
  BY <1>2 DEF Typed
<1>9. Typed'
  BY <1>2, <1>5, <1>7, <1>8, Primes DEF Typed
<1>10. /\ Held(past', SendMax, DayWindow, clock, admitted') /\ Ordered(past', clock)
       /\ Held(streakPast', StreakMax, StreakBlock, clock, admitted')
       /\ Ordered(streakPast', clock)
  BY <1>2, Recorded DEF Typed, Remembered, LimitsHeld, Sizes
<1>11. Remembered' /\ LimitsHeld'
  BY <1>2, <1>5, <1>10, Primes
<1>12. LastBlock'
  <2>1. PICK n \in Nat : n = Len(streakPast)
    BY DEF Typed
  <2>2. /\ Len(streakPast') = n + 1 /\ streakPast'[n + 1] = clock
        /\ \A i \in 1..n : streakPast'[i] = streakPast[i] /\ streakPast[i] \in Nat
    BY <1>2, <2>1 DEF Typed
  <2>3. CASE LongBlock(list) \/ ShortBlock
    <3>1. streak' = 0 /\ Len(streakPast') - streak' = n + 1
      BY <1>2, <2>2, <2>3
    <3>. QED
      BY <1>7, <2>2, <2>3, <3>1 DEF LastBlock, Sizes
  <2>4. CASE ~LongBlock(list) /\ ~ShortBlock
    <3>1. streak' = streak + 1 /\ streak \in Nat /\ streak' < StreakMax
      BY <1>2, <2>4 DEF ShortBlock, Typed, Sizes
    <3>2. ASSUME Len(streakPast') > streak'
          PROVE  blockedUntil' >= streakPast'[Len(streakPast') - streak'] + StreakBlock
      <4>1. /\ n > streak /\ n - streak \in 1..n /\ Len(streakPast') - streak' = n - streak
        BY <2>2, <3>1, <3>2
      <4>2. streakPast'[n - streak] = streakPast[n - streak] /\ streakPast[n - streak] \in Nat
        BY <2>2, <4>1
      <4>3. blockedUntil >= streakPast[n - streak] + StreakBlock
        BY <2>1, <4>1 DEF LastBlock
      <4>4. blockedUntil \in Nat /\ StreakBlock \in Nat
        BY DEF Typed, Sizes
      <4>5. blockedUntil' >= streakPast[n - streak] + StreakBlock
        BY <1>7, <4>2, <4>3, <4>4
      <4>. QED
        BY <4>1, <4>2, <4>5
    <3>. QED
      BY <3>1, <3>2 DEF LastBlock
  <2>. QED
    BY <2>3, <2>4
<1>. QED
  BY <1>9, <1>11, <1>12

\* A request leaves without a record; a success forgets the failures.
LEMMA LeaveKeeps == ASSUME Sizes, Inductive, NEW s \in Slots, Leave(s) PROVE Inductive'
<1>. USE DEF Inductive
<1>1. /\ s \in admitted /\ admitted' = admitted \ {s} /\ admitted' \in SUBSET Slots
      /\ UNCHANGED <<guard, clock, blockedUntil, streak, streakPast>>
  BY DEF Leave, Typed
<1>2. LastBlock'
  BY <1>1 DEF LastBlock
<1>3. CASE guard = "fails"
  <2>1. events' = << >> /\ past' = << >> /\ << >> \in Seq(Nat)
    BY <1>3 DEF Leave
  <2>2. Remembers(events', past', Span, clock')
    BY <2>1 DEF Remembers
  <2>3. Held(past', MaxFails, Window, clock', admitted') /\ Ordered(past', clock')
    BY <1>1, <2>1, NothingHeld DEF Typed, Sizes
  <2>. QED
    BY <1>1, <1>2, <1>3, <2>1, <2>2, <2>3, Primes DEF Typed, Remembered
<1>4. CASE guard # "fails"
  <2>1. UNCHANGED <<events, past>>
    BY <1>4 DEF Leave
  <2>2. Typed' /\ Remembered'
    BY <1>1, <2>1, Primes DEF Typed, Remembered
  <2>3. LimitsHeld'
    BY <1>1, <1>4, <2>1, SlotFreed, Primes DEF Typed, Remembered, LimitsHeld, Sizes
  <2>. QED
    BY <1>2, <2>2, <2>3
<1>. QED
  BY <1>3, <1>4

\* A code that was used ends the streak.
LEMMA UseCodeKeeps == ASSUME Sizes, Inductive, UseCode PROVE Inductive'
<1>. USE DEF Inductive
<1>1. /\ guard = "send" /\ streak' = 0 /\ streakPast' = << >>
      /\ UNCHANGED <<guard, clock, events, blockedUntil, admitted, past>>
  BY DEF UseCode
<1>2. << >> \in Seq(Nat) /\ Len(<< >>) = 0
  OBVIOUS
<1>3. LastBlock'
  BY <1>1, <1>2 DEF LastBlock, Sizes
<1>4. /\ Held(streakPast', StreakMax, StreakBlock, clock, admitted)
      /\ Ordered(streakPast', clock)
  BY <1>1, NothingHeld DEF Typed, Sizes
<1>5. Typed' /\ Remembered' /\ LimitsHeld'
  BY <1>1, <1>2, <1>4, Primes DEF Typed, Remembered, LimitsHeld
<1>. QED
  BY <1>3, <1>5

\* Every step keeps the invariant.
LEMMA InductiveStep == Sizes /\ Inductive /\ [Next]_guardVars => Inductive'
<1>. SUFFICES ASSUME Sizes, Inductive, [Next]_guardVars PROVE Inductive'
  OBVIOUS
<1>1. CASE UNCHANGED guardVars
  BY <1>1, Primes DEF guardVars, Inductive, Typed, Remembered, LastBlock, LimitsHeld
<1>. QED
  BY <1>1, TickKeeps, AskKeeps, RecordKeeps, RecordMailKeeps, LeaveKeeps, UseCodeKeeps DEF Next

\* Whatever the limits, windows and blocks, and however requests overlap with them and with
\* each other: of limit + slots successive failures, registrations or mails, the first and
\* the last lie a window apart.
THEOREM AlwaysThrottled == ASSUME Sizes PROVE Spec => []Throttled
<1>1. Init => Inductive
  BY InductiveInit
<1>2. Inductive /\ [Next]_guardVars => Inductive'
  BY InductiveStep
<1>3. Inductive => Throttled
  BY DEF Inductive, LimitsHeld, Held, Throttled
<1>. QED
  BY <1>1, <1>2, <1>3, PTL DEF Spec
================================================================================
