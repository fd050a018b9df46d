------------------------ MODULE GenerationSchedulerProofs ------------------------
(***************************************************************************)
(* Proofs about GenerationScheduler for any number of jobs, calls and      *)
(* closing threads and any value of its bounds.                            *)
(***************************************************************************)
EXTENDS GenerationScheduler, FiniteSetTheorems, SequenceTheorems, TLAPS

Work == Requests \cup {Sentinel}
Queued == ToSet(queue) \cap Requests
Seated == hand \cup ToSet(slots)
Taken == deferred \cup calling
Replied(r) == status[r] \in Answers

-----------------------------------------------------------------------------
(* The inductive invariant.                                                *)

\* What the worker finds at each point of its loop.
Phases ==
    /\ pc \notin {"popped", "step", "dead"} => hand = {}
    /\ hand # {} => Len(slots) < Parallel
    /\ pc \in {"fill", "pop"} => slots # <<>>
    /\ pc \in {"idle", "take", "drop", "call", "running", "answer", "exited"} => slots = <<>>
    /\ pc \notin {"drop", "call", "running", "answer"} => calling = {}
    /\ pc \in {"call", "running", "answer"} => deferred = {}
    /\ pc = "drop" => deferred \subseteq calling

\* Whoever waits is in one place; in the queue and in a slot everybody waits.
Places ==
    /\ \A r \in Requests : Waiting(r) => r \in Queued \cup Seated \cup Taken
    /\ \A r \in Queued \cup Seated : Waiting(r)
    /\ \A c \in Taken : Waiting(c) \/ Replied(c)
    /\ hand \cap ToSet(slots) = {}
    /\ Queued \cap (Seated \cup Taken) = {}

\* Nobody is queued twice, and a call that a queued job came after is out of the
\* queue or nearer to its head.
Line ==
    /\ \A m, n \in 1 .. Len(queue) : queue[m] = queue[n] /\ queue[m] # Sentinel => m = n
    /\ \A n \in 1 .. Len(queue) : queue[n] \in Jobs =>
          \A c \in behind[queue[n]] : Waiting(c) => c \in Taken \/ \E m \in 1 .. n - 1 : queue[m] = c

\* The calls a job came after have been accepted; when it has a slot, all are answered.
Behind ==
    /\ \A j \in Seated : \A c \in behind[j] : ~Waiting(c)
    /\ \A j \in Jobs : \A c \in behind[j] : Waiting(c) \/ Replied(c)

\* The jobs with an iterator are in slots, and no other iterator is open.
Opens ==
    /\ started \subseteq Seated
    /\ \A j \in Jobs : open[j] = IF j \in started THEN 1 ELSE 0

\* A close that is about to forget the deferred call has answered it, and is the
\* only one: the call is still there, or the worker has it, or has died of it.
Forgets ==
    \A k \in Closers : At(k, "forget") =>
        /\ (\E c \in Taken : ~Waiting(c)) \/ (pc = "dead" /\ deferred = {})
        /\ \A l \in Closers : At(l, "forget") => l = k

GInv == TypeOK /\ Phases /\ Places /\ Line /\ Behind /\ Opens /\ Forgets

-----------------------------------------------------------------------------
(* The queue and the slots, with one element more or less.                 *)

LEMMA TailIs ==
  ASSUME NEW S, NEW s \in Seq(S), s # <<>>
  PROVE  /\ Tail(s) \in Seq(S) /\ Len(Tail(s)) = Len(s) - 1 /\ Len(s) \in Nat \ {0}
         /\ \A i \in 1 .. Len(Tail(s)) : i + 1 \in 1 .. Len(s) /\ Tail(s)[i] = s[i + 1]
         /\ Head(s) = s[1] /\ Head(s) \in S
         /\ ToSet(s) = {Head(s)} \cup ToSet(Tail(s))
<1>. DEFINE t == Tail(s)
<1>1. /\ t \in Seq(S) /\ Len(t) = Len(s) - 1 /\ Len(s) \in Nat \ {0}
      /\ \A i \in 1 .. Len(t) : i + 1 \in 1 .. Len(s) /\ t[i] = s[i + 1]
      /\ Head(s) = s[1] /\ Head(s) \in S
  OBVIOUS
<1>. HIDE DEF t
<1>2. ASSUME NEW x \in ToSet(s) PROVE x \in {Head(s)} \cup ToSet(t)
  <2>1. PICK i \in 1 .. Len(s) : x = s[i]
    BY <1>2 DEF ToSet
  <2>2. CASE i = 1
    BY <1>1, <2>1, <2>2
  <2>3. CASE i # 1
    <3>1. i - 1 \in 1 .. Len(t) /\ (i - 1) + 1 = i
      BY <1>1, <2>1, <2>3
    <3>2. t[i - 1] = x
      BY <1>1, <2>1, <3>1
    <3>. QED
      BY <1>1, <3>1, <3>2 DEF ToSet
  <2>. QED
    BY <2>2, <2>3
<1>3. ASSUME NEW x \in {Head(s)} \cup ToSet(t) PROVE x \in ToSet(s)
  <2>1. 1 \in 1 .. Len(s)
    BY <1>1
  <2>. QED
    BY <1>1, <1>3, <2>1 DEF ToSet
<1>4. ToSet(s) = {Head(s)} \cup ToSet(t)
  BY <1>2, <1>3
<1>. QED
  BY <1>1, <1>4 DEF t

LEMMA AppendIs ==
  ASSUME NEW S, NEW s \in Seq(S), NEW e \in S
  PROVE  /\ Append(s, e) \in Seq(S) /\ Len(Append(s, e)) = Len(s) + 1 /\ Len(s) \in Nat
         /\ Append(s, e)[Len(s) + 1] = e
         /\ \A i \in 1 .. Len(s) : Append(s, e)[i] = s[i]
         /\ ToSet(Append(s, e)) = ToSet(s) \cup {e}
         /\ IsInjective(s) /\ e \notin ToSet(s) => IsInjective(Append(s, e))
<1>. DEFINE t == Append(s, e)
<1>1. /\ t \in Seq(S) /\ Len(t) = Len(s) + 1 /\ t[Len(s) + 1] = e /\ Len(s) \in Nat
      /\ \A i \in 1 .. Len(s) : t[i] = s[i]
  OBVIOUS
<1>2. ToSet(t) = ToSet(s) \cup {e}
  BY <1>1 DEF ToSet
<1>3. ASSUME IsInjective(s), e \notin ToSet(s) PROVE IsInjective(t)
  BY <1>1, <1>3 DEF IsInjective, ToSet
<1>. QED
  BY <1>1, <1>2, <1>3

\* One request leaves the head of the queue.
LEMMA TailLine ==
  ASSUME TypeOK, Line, queue # <<>>, queue' = Tail(queue), UNCHANGED behind,
         \A c \in Calls : Waiting(c)' => Waiting(c),
         \A c \in Taken : Waiting(c)' => c \in Taken',
         \A c \in Calls : c = Head(queue) /\ Waiting(c)' => c \in Taken'
  PROVE  /\ Line'
         /\ queue' \in Seq(Work) /\ Len(queue') <= MaxPending
         /\ Head(queue) \in Work /\ Queued' = Queued \ {Head(queue)}
         /\ Head(queue) # Sentinel => Head(queue) \in Queued
<1>. DEFINE h == Head(queue)
<1>. USE GenerationSchedulerAssumption
<1>1. /\ queue' \in Seq(Work) /\ Len(queue') = Len(queue) - 1 /\ Len(queue) \in Nat \ {0}
      /\ \A i \in 1 .. Len(queue') : i + 1 \in 1 .. Len(queue) /\ queue'[i] = queue[i + 1]
      /\ h = queue[1] /\ h \in Work /\ ToSet(queue) = {h} \cup ToSet(queue')
  BY TailIs DEF TypeOK, Work
<1>0. \A c \in Calls : c = h /\ Waiting(c)' => c \in Taken'
  OBVIOUS
<1>. HIDE DEF h
<1>2. h # Sentinel => h \notin ToSet(queue')
  <2>. SUFFICES ASSUME NEW i \in 1 .. Len(queue'), queue'[i] = h, h # Sentinel
                PROVE  FALSE
    BY <1>1 DEF ToSet
  <2>1. i + 1 \in 1 .. Len(queue) /\ 1 \in 1 .. Len(queue) /\ queue[i + 1] = queue[1]
    BY <1>1
  <2>2. i + 1 = 1
    BY <1>1, <2>1 DEF Line
  <2>. QED
    BY <2>2
<1>3. Queued' = Queued \ {h}
  BY <1>1, <1>2 DEF Queued, Requests
<1>4. \A m, n \in 1 .. Len(queue') : queue'[m] = queue'[n] /\ queue'[m] # Sentinel => m = n
  <2>. SUFFICES ASSUME NEW m \in 1 .. Len(queue'), NEW n \in 1 .. Len(queue'),
                       queue'[m] = queue'[n], queue'[m] # Sentinel
                PROVE  m = n
    OBVIOUS
  <2>1. m + 1 = n + 1
    BY <1>1 DEF Line
  <2>. QED
    BY <2>1
<1>5. ASSUME NEW n \in 1 .. Len(queue'), queue'[n] \in Jobs, NEW c \in behind'[queue'[n]],
             Waiting(c)'
      PROVE  c \in Taken' \/ \E m \in 1 .. n - 1 : queue'[m] = c
  <2>1. n + 1 \in 1 .. Len(queue) /\ queue[n + 1] = queue'[n] /\ c \in behind[queue[n + 1]]
    BY <1>1, <1>5
  <2>2. c \in Calls /\ Waiting(c)
    BY <1>5, <2>1 DEF TypeOK
  <2>3. c \in Taken \/ \E m \in 1 .. (n + 1) - 1 : queue[m] = c
    BY <1>5, <2>1, <2>2 DEF Line
  <2>4. CASE c \in Taken
    BY <1>5, <2>4
  <2>5. CASE \E m \in 1 .. (n + 1) - 1 : queue[m] = c
    <3>1. PICK m \in 1 .. n : queue[m] = c
      BY <2>5
    <3>2. CASE m = 1
      BY <1>0, <1>1, <1>5, <2>2, <3>1, <3>2
    <3>3. CASE m # 1
      <4>1. m - 1 \in 1 .. n - 1 /\ m - 1 \in 1 .. Len(queue') /\ (m - 1) + 1 = m
        BY <1>1, <3>3
      <4>2. queue'[m - 1] = c
        BY <1>1, <3>1, <4>1
      <4>. QED
        BY <4>1, <4>2
    <3>. QED
      BY <3>2, <3>3
  <2>. QED
    BY <2>3, <2>4, <2>5
<1>6. Len(queue') <= MaxPending
  BY <1>1 DEF TypeOK
<1>. QED
  BY <1>1, <1>3, <1>4, <1>5, <1>6 DEF h, Line, Queued, Work, ToSet

\* A request, or the sentinel, enters the queue.
LEMMA AppendLine ==
  ASSUME TypeOK, Line, NEW e \in Work, queue' = Append(queue, e), Len(queue) < MaxPending,
         e # Sentinel => e \notin Queued,
         \A j \in Jobs \ {e} : behind'[j] = behind[j],
         \A c \in Calls : Waiting(c)' /\ Waiting(c) => (c \in Taken => c \in Taken'),
         \A j \in Jobs \ {e} : \A c \in behind[j] : Waiting(c)' => Waiting(c),
         e \in Jobs => \A c \in behind'[e] : Waiting(c)' => c \in Taken' \/ c \in Queued
  PROVE  /\ Line'
         /\ queue' \in Seq(Work) /\ Len(queue') <= MaxPending
         /\ Queued' = Queued \cup ({e} \cap Requests)
<1>. USE GenerationSchedulerAssumption
<1>1. /\ queue \in Seq(Work) /\ queue' \in Seq(Work) /\ Len(queue') = Len(queue) + 1
      /\ queue'[Len(queue) + 1] = e /\ ToSet(queue') = ToSet(queue) \cup {e} /\ Len(queue) \in Nat
      /\ \A i \in 1 .. Len(queue) : queue'[i] = queue[i]
  <2>1. queue \in Seq(Work)
    BY DEF TypeOK, Work
  <2>. QED
    BY <2>1, AppendIs
<1>2. Queued' = Queued \cup ({e} \cap Requests)
  BY <1>1 DEF Queued
<1>3. e # Sentinel => \A i \in 1 .. Len(queue) : queue[i] # e
  BY <1>1 DEF Queued, Work, ToSet
<1>4. \A m, n \in 1 .. Len(queue') : queue'[m] = queue'[n] /\ queue'[m] # Sentinel => m = n
  <2>1. \A i \in 1 .. Len(queue') : i \in 1 .. Len(queue) \/ i = Len(queue) + 1
    BY <1>1
  <2>. QED
    BY <1>1, <1>3, <2>1 DEF Line
<1>5. ASSUME NEW n \in 1 .. Len(queue'), queue'[n] \in Jobs, NEW c \in behind'[queue'[n]],
             Waiting(c)'
      PROVE  c \in Taken' \/ \E m \in 1 .. n - 1 : queue'[m] = c
  <2>1. CASE n = Len(queue) + 1
    <3>1. queue'[n] = e
      BY <1>1, <2>1
    <3>2. CASE c \in Queued
      <4>1. PICK m \in 1 .. Len(queue) : queue[m] = c
        BY <3>2, <1>1 DEF Queued, ToSet
      <4>2. m \in 1 .. n - 1 /\ queue'[m] = c
        BY <1>1, <2>1, <4>1
      <4>. QED
        BY <4>2
    <3>. QED
      BY <1>5, <3>1, <3>2
  <2>2. CASE n # Len(queue) + 1
    <3>1. n \in 1 .. Len(queue) /\ queue'[n] = queue[n] /\ queue[n] \in Jobs
      BY <1>1, <1>5, <2>2
    <3>2. queue[n] # e
      BY <1>3, <3>1
    <3>3. c \in behind[queue[n]] /\ c \in Calls
      BY <1>5, <3>1, <3>2 DEF TypeOK
    <3>4. Waiting(c)
      BY <1>5, <3>1, <3>2, <3>3
    <3>5. c \in Taken \/ \E m \in 1 .. n - 1 : queue[m] = c
      BY <3>1, <3>3, <3>4 DEF Line
    <3>6. \A m \in 1 .. n - 1 : queue'[m] = queue[m]
      BY <1>1, <3>1
    <3>. QED
      BY <1>5, <3>3, <3>4, <3>5, <3>6
  <2>. QED
    BY <2>1, <2>2
<1>6. Len(queue') <= MaxPending
  BY <1>1
<1>. QED
  BY <1>1, <1>2, <1>4, <1>5, <1>6 DEF Line

\* The queue stays as it is.
LEMMA SameLine ==
  ASSUME TypeOK, Line, UNCHANGED <<queue, behind>>,
         \A c \in Calls : Waiting(c)' => Waiting(c),
         \A c \in Taken : Waiting(c)' => c \in Taken'
  PROVE  Line' /\ Queued' = Queued
<1>1. \A n \in 1 .. Len(queue) : queue[n] \in Jobs => behind[queue[n]] \subseteq Calls
  BY DEF TypeOK
<1>. QED
  BY <1>1 DEF Line, Queued

LEMMA IntervalsAre ==
  ASSUME NEW n \in Nat
  PROVE  /\ IsFiniteSet(1 .. n) /\ Cardinality(1 .. n) = n
         /\ IsFiniteSet(0 .. n - 1) /\ Cardinality(0 .. n - 1) = n
         /\ IsFiniteSet(0 .. n) /\ Cardinality(0 .. n) = n + 1
<1>1. IsFiniteSet(1 .. n) /\ Cardinality(1 .. n) = IF 1 > n THEN 0 ELSE n - 1 + 1
  BY FS_Interval
<1>2. IsFiniteSet(0 .. n) /\ Cardinality(0 .. n) = IF 0 > n THEN 0 ELSE n - 0 + 1
  BY FS_Interval
<1>3. IsFiniteSet(0 .. n - 1) /\ Cardinality(0 .. n - 1) = IF 0 > n - 1 THEN 0 ELSE n - 1 - 0 + 1
  BY FS_Interval
<1>. QED
  BY <1>1, <1>2, <1>3

\* There is a free slot, and the lowest one is taken: the slots in use from 0 on
\* without a gap are as many as the first number that is free.
LEMMA FreeSlotIs ==
  ASSUME TypeOK, Len(slots) < Parallel
  PROVE  /\ FreeSlot \in 0 .. Parallel - 1
         /\ \A j \in ToSet(slots) : slot[j] # FreeSlot
<1>. USE GenerationSchedulerAssumption
<1>. DEFINE All == 0 .. Parallel - 1
            N == 1 .. Len(slots)
            f == [n \in N |-> slot[slots[n]]]
            Used == {slot[slots[n]] : n \in N}
            P == {k \in All : \A i \in 0 .. k : i \in Used}
            m == Cardinality(P)
            Lowest(i) == /\ \A n \in N : slot[slots[n]] # i
                         /\ \A k \in 0 .. i - 1 : \E n \in N : slot[slots[n]] = k
<1>1. Len(slots) \in Nat /\ N = DOMAIN slots
  BY DEF TypeOK
<1>2. IsFiniteSet(Used) /\ Cardinality(Used) <= Len(slots) /\ Cardinality(Used) \in Nat
  <2>1. f \in Surjection(N, Used)
    BY DEF Surjection
  <2>2. IsFiniteSet(N) /\ Cardinality(N) = Len(slots)
    <3>. HIDE DEF f
    <3>. QED
      BY <1>1, IntervalsAre
  <2>. HIDE DEF f, N, Used
  <2>. QED
    BY <2>1, <2>2, FS_Surjection, FS_CardinalityType
<1>3. IsFiniteSet(P) /\ m \in Nat /\ m < Parallel
  <2>1. P \in SUBSET Used
    OBVIOUS
  <2>. HIDE DEF Used, P
  <2>. QED
    BY <1>1, <1>2, <2>1, FS_Subset, FS_CardinalityType
<1>4. \A i \in 0 .. m - 1 : i \in P
  <2>. SUFFICES ASSUME NEW i \in 0 .. m - 1, i \notin P PROVE FALSE
    OBVIOUS
  <2>1. P \in SUBSET (0 .. i - 1)
    <3>1. i \in Nat /\ i \in All
      BY <1>3
    <3>2. ASSUME NEW k \in P, i <= k PROVE FALSE
      <4>1. 0 .. i \in SUBSET Used
        <5>1. k \in Nat /\ \A l \in 0 .. k : l \in Used
          BY <3>2
        <5>. HIDE DEF Used, P
        <5>. QED
          BY <3>1, <3>2, <5>1
      <4>. QED
        BY <3>1, <4>1
    <3>3. P \in SUBSET Nat
      OBVIOUS
    <3>. HIDE DEF P
    <3>. QED
      BY <3>1, <3>2, <3>3
  <2>2. IsFiniteSet(0 .. i - 1) /\ Cardinality(0 .. i - 1) = i
    BY <1>3, IntervalsAre
  <2>3. m <= i
    <3>. DEFINE I == 0 .. i - 1
    <3>1. P \in SUBSET I /\ IsFiniteSet(I) /\ Cardinality(I) = i
      BY <2>1, <2>2
    <3>. HIDE DEF P, I
    <3>. QED
      BY <3>1, FS_Subset
  <2>. QED
    BY <1>3, <2>3
<1>5. m \notin P
  <2>. SUFFICES ASSUME m \in P PROVE FALSE
    OBVIOUS
  <2>1. 0 .. m \in SUBSET P
    <3>. HIDE DEF P
    <3>. QED
      BY <1>3, <1>4
  <2>2. Cardinality(0 .. m) = m + 1
    BY <1>3, IntervalsAre
  <2>3. m + 1 <= m
    <3>. HIDE DEF P
    <3>. QED
      BY <1>3, <2>1, <2>2, FS_Subset
  <2>. QED
    BY <1>3, <2>3
<1>6. m \in All /\ Lowest(m)
  <2>. HIDE DEF m
  <2>1. m \in All /\ \A k \in 0 .. m - 1 : k \in Used
    BY <1>3, <1>4
  <2>2. m \notin Used
    BY <1>3, <1>5, <2>1
  <2>. QED
    BY <2>1, <2>2
<1>7. FreeSlot = CHOOSE i \in All : Lowest(i)
  BY <1>1 DEF FreeSlot
<1>8. FreeSlot \in All /\ Lowest(FreeSlot)
  <2>. HIDE DEF All, Lowest
  <2>. QED
    BY <1>6, <1>7
<1>. QED
  BY <1>1, <1>8 DEF ToSet

-----------------------------------------------------------------------------
(* Steps that move no request.                                             *)

LEMMA QuietIs ==
  ASSUME GInv,
         UNCHANGED <<queue, slots, hand, deferred, calling, status, started, open, behind>>
  PROVE  Places' /\ Line' /\ Behind' /\ Opens'
<1>1. Line'
  BY SameLine DEF GInv, Waiting, Taken
<1>. QED
  BY <1>1 DEF GInv, Places, Behind, Opens, Queued, Seated, Taken, Waiting, Replied

\* Flags, the worker's place in its loop and a close's.
LEMMA QuietType ==
  ASSUME TypeOK, UNCHANGED <<queue, slots, hand, deferred, calling, status, jobs, behind>>,
         closed' \in BOOLEAN,
         pc' \in {"loop", "fill", "pop", "popped", "step", "idle", "take", "drop", "call", "running",
                  "answer", "exited", "dead"},
         closer' \in [Closers -> {"out", "begin", "active", "cancel", "slots", "deferred", "stop",
                                  "forget", "drain", "mark", "joined", "raised"}],
         cancel' \subseteq Jobs, late' \subseteq Requests
  PROVE  TypeOK'
<1>. QED
  BY DEF TypeOK, AtMostOne, IsInjective, ToSet, jobs

LEMMA ExpireStep ==
  ASSUME GInv, NEW r \in Requests, Expire(r)
  PROVE  GInv'
<1>1. UNCHANGED <<queue, slots, hand, deferred, calling, status, started, open, behind>>
  BY DEF Expire, work, jobs
<1>2. TypeOK'
  BY QuietType DEF GInv, TypeOK, Expire, work, jobs
<1>3. Phases'
  BY DEF GInv, Phases, TypeOK, Expire, work, jobs
<1>4. Forgets'
  BY DEF GInv, Forgets, TypeOK, Phases, Taken, Waiting, At, Expire, work, jobs
<1>. QED
  BY <1>1, <1>2, <1>3, <1>4, QuietIs DEF GInv

LEMMA AbandonStep ==
  ASSUME GInv, NEW j \in Jobs, Abandon(j)
  PROVE  GInv'
<1>1. UNCHANGED <<queue, slots, hand, deferred, calling, status, started, open, behind>>
  BY DEF Abandon, work, jobs
<1>2. TypeOK'
  BY QuietType DEF GInv, TypeOK, Abandon, work, jobs
<1>3. Phases'
  BY DEF GInv, Phases, TypeOK, Abandon, work, jobs
<1>4. Forgets'
  BY DEF GInv, Forgets, TypeOK, Phases, Taken, Waiting, At, Abandon, work, jobs
<1>. QED
  BY <1>1, <1>2, <1>3, <1>4, QuietIs DEF GInv

LEMMA BeginStep ==
  ASSUME GInv, Begin
  PROVE  GInv'
<1>1. UNCHANGED <<queue, slots, hand, deferred, calling, status, started, open, behind>>
  BY DEF Begin, Goto, Apart, flags, jobs
<1>2. TypeOK'
  BY QuietType DEF GInv, TypeOK, Begin, Goto, Apart, flags
<1>3. Phases'
  BY DEF GInv, Phases, TypeOK, Begin, Goto, Apart, flags
<1>4. Forgets'
  BY DEF GInv, Forgets, TypeOK, Phases, Taken, Waiting, At, Begin, Goto, Apart, flags
<1>. QED
  BY <1>1, <1>2, <1>3, <1>4, QuietIs DEF GInv

LEMMA ShowStep ==
  ASSUME GInv, Show
  PROVE  GInv'
<1>1. UNCHANGED <<queue, slots, hand, deferred, calling, status, started, open, behind>>
  BY DEF Show, Goto, Apart, flags, jobs
<1>2. TypeOK'
  BY QuietType DEF GInv, TypeOK, Show, Goto, Apart, flags
<1>3. Phases'
  BY DEF GInv, Phases, TypeOK, Show, Goto, Apart, flags
<1>4. Forgets'
  BY DEF GInv, Forgets, TypeOK, Phases, Taken, Waiting, At, Show, Goto, Apart, flags
<1>. QED
  BY <1>1, <1>2, <1>3, <1>4, QuietIs DEF GInv

LEMMA BreakStep ==
  ASSUME GInv, NEW j \in Jobs, Break(j)
  PROVE  GInv'
<1>1. UNCHANGED <<queue, slots, hand, deferred, calling, status, started, open, behind>>
  BY DEF Break, Turn, Goto, Apart, flags, jobs
<1>2. TypeOK'
  BY QuietType DEF GInv, TypeOK, Break, Turn, Goto, Apart, flags
<1>3. Phases'
  BY DEF GInv, Phases, TypeOK, Break, Turn, Goto, Apart, flags
<1>4. Forgets'
  BY DEF GInv, Forgets, TypeOK, Phases, Taken, Waiting, At, Break, Turn, Goto, Apart, flags
<1>. QED
  BY <1>1, <1>2, <1>3, <1>4, QuietIs DEF GInv

LEMMA LeaveStep ==
  ASSUME GInv, Leave
  PROVE  GInv'
<1>1. UNCHANGED <<queue, slots, hand, deferred, calling, status, started, open, behind>>
  BY DEF Leave, Idle, Goto, Apart, flags, jobs
<1>2. TypeOK'
  BY QuietType DEF GInv, TypeOK, Leave, Idle, Goto, Apart, flags
<1>3. Phases'
  BY DEF GInv, Phases, TypeOK, Leave, Idle, Goto, Apart, flags
<1>4. Forgets'
  BY DEF GInv, Forgets, TypeOK, Phases, Taken, Waiting, At, Leave, Idle, Goto, Apart, flags
<1>. QED
  BY <1>1, <1>2, <1>3, <1>4, QuietIs DEF GInv

LEMMA StayStep ==
  ASSUME GInv, Stay
  PROVE  GInv'
<1>1. UNCHANGED <<queue, slots, hand, deferred, calling, status, started, open, behind>>
  BY DEF Stay, Idle, Goto, Apart, flags, jobs
<1>2. TypeOK'
  BY QuietType DEF GInv, TypeOK, Stay, Idle, Goto, Apart, flags
<1>3. Phases'
  BY DEF GInv, Phases, TypeOK, Stay, Idle, Goto, Apart, flags
<1>4. Forgets'
  BY DEF GInv, Forgets, TypeOK, Phases, Taken, Waiting, At, Stay, Idle, Goto, Apart, flags
<1>. QED
  BY <1>1, <1>2, <1>3, <1>4, QuietIs DEF GInv

LEMMA BeginCallStep ==
  ASSUME GInv, BeginCall
  PROVE  GInv'
<1>1. UNCHANGED <<queue, slots, hand, deferred, calling, status, started, open, behind>>
  BY DEF BeginCall, Goto, Apart, flags, jobs
<1>2. TypeOK'
  BY QuietType DEF GInv, TypeOK, BeginCall, Goto, Apart, flags
<1>3. Phases'
  BY DEF GInv, Phases, TypeOK, BeginCall, Goto, Apart, flags
<1>4. Forgets'
  BY DEF GInv, Forgets, TypeOK, Phases, Taken, Waiting, At, BeginCall, Goto, Apart, flags
<1>. QED
  BY <1>1, <1>2, <1>3, <1>4, QuietIs DEF GInv

LEMMA BeginCloseStep ==
  ASSUME GInv, NEW k \in Closers, BeginClose(k)
  PROVE  GInv'
<1>1. UNCHANGED <<queue, slots, hand, deferred, calling, status, started, open, behind>>
  BY DEF BeginClose, At, Moves, Shown, jobs
<1>2. TypeOK'
  BY QuietType DEF GInv, TypeOK, BeginClose, At, Moves, Shown
<1>3. Phases'
  BY DEF GInv, Phases, TypeOK, BeginClose, At, Moves, Shown
<1>4. Forgets'
  BY DEF GInv, Forgets, TypeOK, Phases, Taken, Waiting, At, BeginClose, Moves, Shown
<1>. QED
  BY <1>1, <1>2, <1>3, <1>4, QuietIs DEF GInv

LEMMA SetClosedStep ==
  ASSUME GInv, NEW k \in Closers, SetClosed(k)
  PROVE  GInv'
<1>1. UNCHANGED <<queue, slots, hand, deferred, calling, status, started, open, behind>>
  BY DEF SetClosed, At, Moves, Shown, jobs
<1>2. TypeOK'
  BY QuietType DEF GInv, TypeOK, SetClosed, At, Moves, Shown
<1>3. Phases'
  BY DEF GInv, Phases, TypeOK, SetClosed, At, Moves, Shown
<1>4. Forgets'
  BY DEF GInv, Forgets, TypeOK, Phases, Taken, Waiting, At, SetClosed, Moves, Shown
<1>. QED
  BY <1>1, <1>2, <1>3, <1>4, QuietIs DEF GInv

LEMMA LookActiveStep ==
  ASSUME GInv, NEW k \in Closers, LookActive(k)
  PROVE  GInv'
<1>1. UNCHANGED <<queue, slots, hand, deferred, calling, status, started, open, behind>>
  BY DEF LookActive, At, Moves, Shown, jobs
<1>2. TypeOK'
  BY QuietType DEF GInv, TypeOK, LookActive, At, Moves, Shown
<1>3. Phases'
  BY DEF GInv, Phases, TypeOK, LookActive, At, Moves, Shown
<1>4. Forgets'
  BY DEF GInv, Forgets, TypeOK, Phases, Taken, Waiting, At, LookActive, Moves, Shown
<1>. QED
  BY <1>1, <1>2, <1>3, <1>4, QuietIs DEF GInv

LEMMA CancelActiveStep ==
  ASSUME GInv, NEW k \in Closers, CancelActive(k)
  PROVE  GInv'
<1>1. UNCHANGED <<queue, slots, hand, deferred, calling, status, started, open, behind>>
  BY DEF CancelActive, At, Moves, Shown, jobs
<1>2. TypeOK'
  BY QuietType DEF GInv, TypeOK, CancelActive, At, Moves, Shown
<1>3. Phases'
  BY DEF GInv, Phases, TypeOK, CancelActive, At, Moves, Shown
<1>4. Forgets'
  <2>1. closer' = [closer EXCEPT ![k] = "slots"] \/ closer' = [closer EXCEPT ![k] = "raised"]
    BY DEF CancelActive, Moves
  <2>2. \A l \in Closers : At(l, "forget")' => At(l, "forget")
    BY <2>1 DEF At, GInv, TypeOK
  <2>3. UNCHANGED <<Taken, deferred, pc, status>>
    BY DEF CancelActive, Moves, Taken
  <2>. QED
    BY <2>2, <2>3 DEF GInv, Forgets, Waiting
<1>. QED
  BY <1>1, <1>2, <1>3, <1>4, QuietIs DEF GInv

LEMMA CancelSlotsStep ==
  ASSUME GInv, NEW k \in Closers, CancelSlots(k)
  PROVE  GInv'
<1>1. UNCHANGED <<queue, slots, hand, deferred, calling, status, started, open, behind>>
  BY DEF CancelSlots, At, Moves, Shown, jobs
<1>2. TypeOK'
  <2>1. ToSet(slots) \subseteq Jobs
    BY DEF GInv, TypeOK, ToSet
  <2>. QED
    BY <2>1, QuietType DEF GInv, TypeOK, CancelSlots, At, Moves, Shown
<1>3. Phases'
  BY DEF GInv, Phases, TypeOK, CancelSlots, At, Moves, Shown
<1>4. Forgets'
  BY DEF GInv, Forgets, TypeOK, Phases, Taken, Waiting, At, CancelSlots, Moves, Shown
<1>. QED
  BY <1>1, <1>2, <1>3, <1>4, QuietIs DEF GInv

LEMMA LookDeferredStep ==
  ASSUME GInv, NEW k \in Closers, LookDeferred(k)
  PROVE  GInv'
<1>1. UNCHANGED <<queue, slots, hand, deferred, calling, status, started, open, behind>>
  BY DEF LookDeferred, At, Moves, Shown, jobs
<1>2. TypeOK'
  BY QuietType DEF GInv, TypeOK, LookDeferred, At, Moves, Shown
<1>3. Phases'
  BY DEF GInv, Phases, TypeOK, LookDeferred, At, Moves, Shown
<1>4. Forgets'
  BY DEF GInv, Forgets, TypeOK, Phases, Taken, Waiting, At, LookDeferred, Moves, Shown
<1>. QED
  BY <1>1, <1>2, <1>3, <1>4, QuietIs DEF GInv

LEMMA DrainedStep ==
  ASSUME GInv, NEW k \in Closers, Drained(k)
  PROVE  GInv'
<1>1. UNCHANGED <<queue, slots, hand, deferred, calling, status, started, open, behind>>
  BY DEF Drained, At, Moves, Shown, jobs
<1>2. TypeOK'
  BY QuietType DEF GInv, TypeOK, Drained, At, Moves, Shown
<1>3. Phases'
  BY DEF GInv, Phases, TypeOK, Drained, At, Moves, Shown
<1>4. Forgets'
  BY DEF GInv, Forgets, TypeOK, Phases, Taken, Waiting, At, Drained, Moves, Shown
<1>. QED
  BY <1>1, <1>2, <1>3, <1>4, QuietIs DEF GInv

-----------------------------------------------------------------------------
(* Clients.                                                                *)

Statuses == Answers \cup {"new", "checked", "refused", "waiting"}

LEMMA AnswerIs ==
  ASSUME TypeOK, NEW r \in Requests, NEW a \in Statuses, Answer(r, a)
  PROVE  /\ status' \in [Requests -> Statuses] /\ status'[r] = a
         /\ \A q \in Requests : q # r => status'[q] = status[q]
  BY DEF TypeOK, Answer, Statuses

\* Everything but the statuses, the queue and the history has its type.
LEMMA ClientType ==
  ASSUME TypeOK, UNCHANGED <<work, closed, closer, jobs, flags>>,
         queue' \in Seq(Requests \cup {Sentinel}), Len(queue') <= MaxPending,
         status' \in [Requests -> Statuses], behind' \in [Jobs -> SUBSET Calls]
  PROVE  TypeOK'
  BY DEF TypeOK, Statuses, AtMostOne, IsInjective, ToSet, work, jobs, flags

LEMMA CheckStep ==
  ASSUME GInv, NEW r \in Requests, Check(r)
  PROVE  GInv'
<1>. USE DEF GInv
<1>1. /\ status[r] = "new" /\ status' \in [Requests -> Statuses]
      /\ status'[r] \in {"refused", "checked"}
      /\ \A q \in Requests : q # r => status'[q] = status[q]
  BY AnswerIs DEF Check, Statuses
<1>2. UNCHANGED <<queue, work, closed, closer, jobs, flags, behind>>
  BY DEF Check
<1>3. TypeOK'
  <2>1. /\ queue' \in Seq(Requests \cup {Sentinel}) /\ Len(queue') <= MaxPending
        /\ behind' \in [Jobs -> SUBSET Calls]
    BY <1>2 DEF TypeOK
  <2>. QED
    BY <1>1, <1>2, <2>1, ClientType
<1>4. \A q \in Requests : (Waiting(q)' <=> Waiting(q)) /\ (Replied(q)' <=> Replied(q))
  BY <1>1 DEF Waiting, Replied, Answers
<1>5. Seated \subseteq Jobs /\ Taken \subseteq Calls /\ Queued \subseteq Requests
      /\ \A j \in Jobs : behind[j] \subseteq Calls
  BY DEF TypeOK, Seated, Taken, Queued, ToSet
<1>6. UNCHANGED <<Seated, Taken, Queued>>
  BY <1>2 DEF Seated, Taken, Queued, work
<1>7. Phases' /\ Opens'
  BY <1>2, <1>6 DEF Phases, Opens, work, jobs
<1>8. Places'
  BY <1>2, <1>4, <1>5, <1>6 DEF Places, work, Requests
<1>9. Line'
  BY <1>2, <1>4, <1>6, SameLine DEF Requests
<1>10. Behind'
  BY <1>2, <1>4, <1>5, <1>6 DEF Behind, Requests
<1>11. Forgets'
  BY <1>2, <1>4, <1>5, <1>6 DEF Forgets, At, work, Requests
<1>. QED
  BY <1>3, <1>7, <1>8, <1>9, <1>10, <1>11

LEMMA PutStep ==
  ASSUME GInv, NEW r \in Requests, Put(r)
  PROVE  GInv'
<1>. USE GenerationSchedulerAssumption DEF GInv
<1>1. /\ status[r] = "checked" /\ status' \in [Requests -> Statuses]
      /\ status'[r] \in {"refused", "waiting"}
      /\ \A q \in Requests : q # r => status'[q] = status[q]
  BY AnswerIs DEF Put, Statuses
<1>2. UNCHANGED <<work, closed, closer, jobs, flags>>
  BY DEF Put
<1>3. /\ \A q \in Requests : q # r => (Waiting(q)' <=> Waiting(q)) /\ (Replied(q)' <=> Replied(q))
      /\ ~Waiting(r) /\ ~Replied(r)
  BY <1>1 DEF Waiting, Replied, Answers
<1>4. /\ Seated \subseteq Jobs /\ Taken \subseteq Calls /\ Queued \subseteq Requests
      /\ \A j \in Jobs : behind[j] \subseteq Calls /\ r \notin behind[j]
      /\ r \notin Queued \cup Seated \cup Taken
  BY <1>3 DEF TypeOK, Seated, Taken, Queued, ToSet, Places, Behind
<1>5. UNCHANGED <<Seated, Taken>>
  BY <1>2 DEF Seated, Taken, work
<1>6. /\ \A c \in Calls : Waiting(c)' /\ Waiting(c) => (c \in Taken => c \in Taken')
      /\ \A j \in Jobs \ {r} : behind'[j] = behind[j]
      /\ behind' \in [Jobs -> SUBSET Calls]
  <2>. DEFINE S == {c \in Calls : Waiting(c)}
  <2>1. S \in SUBSET Calls
    OBVIOUS
  <2>2. behind' = behind \/ behind' = [behind EXCEPT ![r] = S]
    BY DEF Put
  <2>. HIDE DEF S
  <2>. QED
    BY <1>5, <2>1, <2>2 DEF TypeOK
<1>7. CASE Len(queue) < MaxPending
  <2>1. queue' = Append(queue, r) /\ status'[r] = "waiting"
    BY <1>7, AnswerIs DEF Put, Statuses
  <2>2. r \in Jobs => behind'[r] = {c \in Calls : Waiting(c)}
    BY <1>7 DEF Put, TypeOK
  <2>3. \A j \in Jobs \ {r} : \A c \in behind[j] : Waiting(c)' => Waiting(c)
    BY <1>3, <1>4 DEF Requests
  <2>4. r \in Jobs => \A c \in behind'[r] : Waiting(c)' => c \in Taken' \/ c \in Queued
    <3>. SUFFICES ASSUME r \in Jobs, NEW c \in behind'[r] PROVE c \in Taken \/ c \in Queued
      BY <1>5
    <3>1. c \in Calls /\ Waiting(c)
      BY <2>2
    <3>2. c \notin Seated
      BY <1>4, <3>1
    <3>. QED
      BY <3>1, <3>2 DEF Places, Requests
  <2>5. r \in Work /\ r # Sentinel
    BY DEF Work, Requests
  <2>6. /\ Line' /\ queue' \in Seq(Work) /\ Len(queue') <= MaxPending /\ Queued' = Queued \cup {r}
    BY <1>4, <1>6, <1>7, <2>1, <2>3, <2>4, <2>5, AppendLine
  <2>7. TypeOK'
    BY <1>1, <1>2, <1>6, <2>6, ClientType DEF Work
  <2>8. Waiting(r)'
    BY <2>1 DEF Waiting
  <2>9. Places'
    BY <1>2, <1>3, <1>4, <1>5, <2>6, <2>8 DEF Places, work, Requests
  <2>10. Behind'
    <3>1. \A j \in Seated : j # r /\ j \in Jobs /\ behind'[j] = behind[j]
      BY <1>4, <1>6
    <3>2. \A j \in Jobs : \A c \in behind'[j] : c \in Calls /\ (Waiting(c)' \/ Replied(c)')
      <4>. SUFFICES ASSUME NEW j \in Jobs, NEW c \in behind'[j]
                    PROVE  c \in Calls /\ (Waiting(c)' \/ Replied(c)')
        OBVIOUS
      <4>1. CASE j = r
        BY <1>3, <2>2, <4>1 DEF Requests
      <4>2. CASE j # r
        BY <1>3, <1>4, <1>6, <4>2 DEF Behind, Requests
      <4>. QED
        BY <4>1, <4>2
    <3>. QED
      BY <1>3, <1>4, <1>5, <3>1, <3>2 DEF Behind, Requests
  <2>11. Phases' /\ Opens' /\ Forgets'
    BY <1>2, <1>3, <1>4, <1>5 DEF Phases, Opens, Forgets, At, work, jobs, Requests
  <2>. QED
    BY <2>6, <2>7, <2>9, <2>10, <2>11
<1>8. CASE ~(Len(queue) < MaxPending)
  <2>1. UNCHANGED <<queue, behind>> /\ status'[r] = "refused"
    BY <1>8, AnswerIs DEF Put, Statuses
  <2>2. ~Waiting(r)'
    BY <2>1 DEF Waiting
  <2>3. TypeOK'
    <3>1. queue' \in Seq(Requests \cup {Sentinel}) /\ Len(queue') <= MaxPending
      BY <2>1 DEF TypeOK
    <3>. QED
      BY <1>1, <1>2, <1>6, <3>1, ClientType
  <2>4. Line' /\ Queued' = Queued
    BY <1>3, <1>5, <2>1, <2>2, SameLine DEF Requests
  <2>5. Places'
    BY <1>2, <1>3, <1>4, <1>5, <2>2, <2>4 DEF Places, work, Requests
  <2>6. Phases' /\ Opens' /\ Forgets' /\ Behind'
    BY <1>2, <1>3, <1>4, <1>5, <2>1, <2>2 DEF Phases, Opens, Forgets, Behind, At, work, jobs, Requests
  <2>. QED
    BY <2>3, <2>4, <2>5, <2>6
<1>. QED
  BY <1>7, <1>8

-----------------------------------------------------------------------------
(* The worker takes the head of the queue.                                 *)

LEMMA HeadIs ==
  ASSUME GInv, queue # <<>>
  PROVE  /\ Head(queue) \in Work
         /\ Head(queue) # Sentinel => Head(queue) \in Queued /\ Waiting(Head(queue))
         /\ Head(queue) \notin Seated \cup Taken
         /\ Head(queue) \in Jobs /\ Taken = {} => \A c \in behind[Head(queue)] : ~Waiting(c)
<1>. USE GenerationSchedulerAssumption DEF GInv
<1>1. /\ Head(queue) = queue[1] /\ Head(queue) \in Work /\ 1 \in 1 .. Len(queue)
      /\ ToSet(queue) = {Head(queue)} \cup ToSet(Tail(queue))
  BY TailIs DEF TypeOK, Work
<1>2. Head(queue) # Sentinel => Head(queue) \in Queued /\ Waiting(Head(queue))
  BY <1>1 DEF Queued, Work, Places
<1>3. Head(queue) \notin Seated \cup Taken
  BY <1>1, <1>2 DEF Places, Seated, Taken, TypeOK, ToSet
<1>4. ASSUME Head(queue) \in Jobs, Taken = {}, NEW c \in behind[Head(queue)] PROVE ~Waiting(c)
  <2>1. queue[1] \in Jobs /\ c \in behind[queue[1]]
    BY <1>1, <1>4
  <2>2. Waiting(c) => \E m \in 1 .. 1 - 1 : queue[m] = c
    BY <1>1, <1>4, <2>1 DEF Line
  <2>. QED
    BY <2>2
<1>. QED
  BY <1>1, <1>2, <1>3, <1>4

LEMMA SeatIs ==
  ASSUME TypeOK, NEW j \in Jobs, j \notin ToSet(slots), hand = {}, hand' = {}, Seat(j),
         Len(slots) < Parallel
  PROVE  /\ slots' \in Seq(Jobs) /\ Len(slots') <= Parallel /\ IsInjective(slots')
         /\ slot' \in [Jobs -> 0 .. Parallel - 1]
         /\ \A i, k \in hand' \cup ToSet(slots') : i # k => slot'[i] # slot'[k]
         /\ ToSet(slots') = ToSet(slots) \cup {j} /\ Len(slots') > 0
<1>. USE GenerationSchedulerAssumption
<1>1. FreeSlot \in 0 .. Parallel - 1 /\ \A i \in ToSet(slots) : slot[i] # FreeSlot
  BY FreeSlotIs
<1>2. slots' = Append(slots, j) /\ slot' = [slot EXCEPT ![j] = FreeSlot]
  BY DEF Seat
<1>3. slots \in Seq(Jobs) /\ IsInjective(slots) /\ ToSet(slots) \subseteq Jobs
  BY DEF TypeOK, ToSet
<1>4. /\ slots' \in Seq(Jobs) /\ IsInjective(slots') /\ Len(slots') = Len(slots) + 1
      /\ ToSet(slots') = ToSet(slots) \cup {j} /\ Len(slots) \in Nat
  BY <1>2, <1>3, AppendIs
<1>5. slot' \in [Jobs -> 0 .. Parallel - 1] /\ slot'[j] = FreeSlot
      /\ \A i \in ToSet(slots) : slot'[i] = slot[i]
  BY <1>1, <1>2, <1>3 DEF TypeOK
<1>6. \A i, k \in hand' \cup ToSet(slots') : i # k => slot'[i] # slot'[k]
  <2>1. \A i, k \in ToSet(slots) : i # k => slot[i] # slot[k]
    BY DEF TypeOK
  <2>. QED
    BY <1>1, <1>4, <1>5, <2>1
<1>. QED
  BY <1>4, <1>5, <1>6

\* A job takes a slot: whatever call it came after has been answered.
LEMMA TakeJob ==
  ASSUME GInv, queue # <<>>, queue' = Tail(queue), NEW r \in Jobs, r = Head(queue),
         Taken = {}, Taken' = {}, hand = {}, hand' = {},
         ToSet(slots') = ToSet(slots) \cup {r},
         UNCHANGED <<deferred, calling, status, started, open, behind>>
  PROVE  /\ Places' /\ Line' /\ Behind' /\ Opens'
         /\ queue' \in Seq(Requests \cup {Sentinel}) /\ Len(queue') <= MaxPending
<1>. USE GenerationSchedulerAssumption DEF GInv
<1>1. /\ Line' /\ queue' \in Seq(Work) /\ Len(queue') <= MaxPending /\ Queued' = Queued \ {r}
      /\ r \in Queued
  <2>1. \A c \in Calls : c = Head(queue) /\ Waiting(c)' => c \in Taken'
    OBVIOUS
  <2>2. \A c \in Calls : Waiting(c)' => Waiting(c)
    BY DEF Waiting
  <2>3. r # Sentinel
    OBVIOUS
  <2>. QED
    BY <2>1, <2>2, <2>3, TailLine
<1>2. Seated' = Seated \cup {r} /\ r \notin Seated
  BY HeadIs DEF Seated
<1>3. \A c \in behind[r] : ~Waiting(c)
  BY HeadIs
<1>4. Places'
  BY <1>1, <1>2 DEF Places, Seated, Queued, Waiting, Replied
<1>5. Behind'
  BY <1>2, <1>3 DEF Behind, Waiting, Replied
<1>6. Opens'
  BY <1>2 DEF Opens
<1>. QED
  BY <1>1, <1>4, <1>5, <1>6 DEF Work

\* The worker takes a call, to run it or to keep it until the slots are empty.
LEMMA TakeCall ==
  ASSUME GInv, queue # <<>>, queue' = Tail(queue), NEW r \in Calls, r = Head(queue),
         Taken = {}, Taken' = {r},
         UNCHANGED <<slots, hand, status, started, open, behind>>
  PROVE  /\ Places' /\ Line' /\ Behind' /\ Opens'
         /\ queue' \in Seq(Requests \cup {Sentinel}) /\ Len(queue') <= MaxPending
<1>. USE GenerationSchedulerAssumption DEF GInv
<1>1. /\ Line' /\ queue' \in Seq(Work) /\ Len(queue') <= MaxPending /\ Queued' = Queued \ {r}
      /\ r \in Queued
  <2>1. \A c \in Calls : c = Head(queue) /\ Waiting(c)' => c \in Taken'
    OBVIOUS
  <2>2. \A c \in Calls : Waiting(c)' => Waiting(c)
    BY DEF Waiting
  <2>3. r # Sentinel
    OBVIOUS
  <2>. QED
    BY <2>1, <2>2, <2>3, TailLine
<1>2. Seated' = Seated /\ r \notin Seated /\ Waiting(r)
  BY <1>1, HeadIs DEF Seated, Places
<1>4. Places'
  BY <1>1, <1>2 DEF Places, Seated, Queued, Waiting, Replied
<1>5. Behind'
  BY <1>2 DEF Behind, Waiting, Replied
<1>6. Opens'
  BY <1>2 DEF Opens
<1>. QED
  BY <1>1, <1>4, <1>5, <1>6 DEF Work

LEMMA TakeSentinel ==
  ASSUME GInv, queue # <<>>, queue' = Tail(queue), Head(queue) = Sentinel,
         UNCHANGED <<deferred, calling, slots, hand, status, started, open, behind>>
  PROVE  /\ Places' /\ Line' /\ Behind' /\ Opens'
         /\ queue' \in Seq(Requests \cup {Sentinel}) /\ Len(queue') <= MaxPending
<1>. USE GenerationSchedulerAssumption DEF GInv
<1>1. /\ Line' /\ queue' \in Seq(Work) /\ Len(queue') <= MaxPending
      /\ Queued' = Queued \ {Sentinel}
  <2>1. \A c \in Calls : c = Head(queue) /\ Waiting(c)' => c \in Taken'
    OBVIOUS
  <2>2. \A c \in Calls : Waiting(c)' => Waiting(c)
    BY DEF Waiting
  <2>3. Taken' = Taken
    BY DEF Taken
  <2>. QED
    BY <2>1, <2>2, <2>3, TailLine
<1>2. UNCHANGED <<Seated, Taken>> /\ Queued' = Queued
  BY <1>1 DEF Seated, Taken, Queued, Requests
<1>4. Places'
  BY <1>2 DEF Places, Waiting, Replied
<1>5. Behind'
  BY <1>2 DEF Behind, Waiting, Replied
<1>6. Opens'
  BY <1>2 DEF Opens
<1>. QED
  BY <1>1, <1>4, <1>5, <1>6 DEF Work

LEMMA FillStep ==
  ASSUME GInv, Fill
  PROVE  GInv'
<1>. USE GenerationSchedulerAssumption DEF GInv
<1>. DEFINE r == Head(queue)
<1>1. /\ pc = "fill" /\ deferred = {} /\ Len(slots) < Parallel /\ queue # <<>>
      /\ queue' = Tail(queue) /\ hand = {} /\ calling = {} /\ Taken = {}
      /\ UNCHANGED <<hand, calling, status, closer, cancel, late, behind>>
  BY DEF Fill, MayFill, Phases, Apart, flags, Taken
<1>2. /\ r \in Work /\ r \notin Seated \cup Taken
  BY <1>1, HeadIs
<1>3. Forgets'
  <2>1. \A k \in Closers : ~At(k, "forget")
    BY <1>1 DEF Forgets
  <2>. QED
    BY <1>1, <2>1 DEF Forgets, At
<1>4. CASE r \in Jobs
  <2>1. Seat(r) /\ UNCHANGED <<pc, deferred, closed>>
    BY <1>4 DEF Fill, Requests
  <2>2. r \notin ToSet(slots)
    BY <1>2 DEF Seated
  <2>3. /\ slots' \in Seq(Jobs) /\ Len(slots') <= Parallel /\ IsInjective(slots')
        /\ slot' \in [Jobs -> 0 .. Parallel - 1]
        /\ \A i, k \in hand' \cup ToSet(slots') : i # k => slot'[i] # slot'[k]
        /\ ToSet(slots') = ToSet(slots) \cup {r} /\ Len(slots') > 0
    <3>. HIDE DEF r
    <3>. QED
      BY <1>1, <1>4, <2>1, <2>2, SeatIs
  <2>4. UNCHANGED <<started, open, admitted, items, retries>> /\ Taken' = {}
    BY <1>1, <2>1 DEF Seat, Taken
  <2>5. /\ Places' /\ Line' /\ Behind' /\ Opens'
        /\ queue' \in Seq(Requests \cup {Sentinel}) /\ Len(queue') <= MaxPending
    BY <1>1, <1>4, <2>1, <2>3, <2>4, TakeJob
  <2>6. Phases'
    BY <1>1, <2>1, <2>3 DEF Phases
  <2>7. TypeOK'
    BY <1>1, <2>1, <2>3, <2>4, <2>5 DEF TypeOK, AtMostOne
  <2>. QED
    BY <1>3, <2>5, <2>6, <2>7
<1>5. CASE r \in Calls
  <2>1. deferred' = {r} /\ pc' = "pop" /\ UNCHANGED <<slots, closed, jobs>>
    BY <1>5 DEF Fill, Goto, Requests
  <2>2. Taken' = {r}
    BY <1>1, <2>1 DEF Taken
  <2>3. /\ Places' /\ Line' /\ Behind' /\ Opens'
        /\ queue' \in Seq(Requests \cup {Sentinel}) /\ Len(queue') <= MaxPending
    BY <1>1, <1>5, <2>1, <2>2, TakeCall DEF jobs
  <2>4. Phases'
    BY <1>1, <2>1 DEF Phases
  <2>5. TypeOK'
    <3>. HIDE DEF r
    <3>. QED
      BY <1>1, <1>5, <2>1, <2>3 DEF TypeOK, AtMostOne, jobs, IsInjective, ToSet
  <2>. QED
    BY <1>3, <2>3, <2>4, <2>5
<1>6. CASE r = Sentinel
  <2>1. pc' = "pop" /\ closed' = TRUE /\ UNCHANGED <<slots, deferred, jobs>>
    BY <1>6 DEF Fill, Goto, Requests
  <2>3. /\ Places' /\ Line' /\ Behind' /\ Opens'
        /\ queue' \in Seq(Requests \cup {Sentinel}) /\ Len(queue') <= MaxPending
    BY <1>1, <1>6, <2>1, TakeSentinel DEF jobs
  <2>4. Phases'
    BY <1>1, <2>1 DEF Phases
  <2>5. TypeOK'
    <3>. HIDE DEF r
    <3>. QED
      BY <1>1, <2>1, <2>3 DEF TypeOK, AtMostOne, jobs, IsInjective, ToSet
  <2>. QED
    BY <1>3, <2>3, <2>4, <2>5
<1>. QED
  BY <1>2, <1>4, <1>5, <1>6 DEF Work, Requests

LEMMA GetStep ==
  ASSUME GInv, Get
  PROVE  GInv'
<1>. USE GenerationSchedulerAssumption DEF GInv
<1>. DEFINE r == Head(queue)
<1>1. /\ pc = "idle" /\ deferred = {} /\ queue # <<>> /\ slots = <<>>
      /\ queue' = Tail(queue) /\ hand = {} /\ calling = {} /\ Taken = {}
      /\ UNCHANGED <<hand, deferred, closed, status, closer, cancel, late, behind>>
  BY DEF Get, Phases, Apart, flags, Taken
<1>2. /\ r \in Work /\ r \notin Seated \cup Taken
  BY <1>1, HeadIs
<1>3. Forgets'
  <2>1. \A k \in Closers : ~At(k, "forget")
    BY <1>1 DEF Forgets
  <2>. QED
    BY <1>1, <2>1 DEF Forgets, At
<1>4. CASE r \in Jobs
  <2>1. Seat(r) /\ pc' = "loop" /\ calling' = calling
    BY <1>4 DEF Get, Requests, Goto
  <2>2. r \notin ToSet(slots) /\ Len(slots) < Parallel
    BY <1>1, <1>2 DEF Seated
  <2>3. /\ slots' \in Seq(Jobs) /\ Len(slots') <= Parallel /\ IsInjective(slots')
        /\ slot' \in [Jobs -> 0 .. Parallel - 1]
        /\ \A i, k \in hand' \cup ToSet(slots') : i # k => slot'[i] # slot'[k]
        /\ ToSet(slots') = ToSet(slots) \cup {r} /\ Len(slots') > 0
    <3>. HIDE DEF r
    <3>. QED
      BY <1>1, <1>4, <2>1, <2>2, SeatIs
  <2>4. UNCHANGED <<started, open, admitted, items, retries>> /\ Taken' = {}
    BY <1>1, <2>1 DEF Seat, Taken
  <2>5. /\ Places' /\ Line' /\ Behind' /\ Opens'
        /\ queue' \in Seq(Requests \cup {Sentinel}) /\ Len(queue') <= MaxPending
    BY <1>1, <1>4, <2>1, <2>3, <2>4, TakeJob
  <2>6. Phases'
    BY <1>1, <2>1, <2>3 DEF Phases
  <2>7. TypeOK'
    BY <1>1, <2>1, <2>3, <2>4, <2>5 DEF TypeOK, AtMostOne
  <2>. QED
    BY <1>3, <2>5, <2>6, <2>7
<1>5. CASE r \in Calls
  <2>1. calling' = {r} /\ pc' = "call" /\ UNCHANGED <<slots, jobs>>
    BY <1>5 DEF Get, Goto, Requests
  <2>2. Taken' = {r}
    BY <1>1, <2>1 DEF Taken
  <2>3. /\ Places' /\ Line' /\ Behind' /\ Opens'
        /\ queue' \in Seq(Requests \cup {Sentinel}) /\ Len(queue') <= MaxPending
    BY <1>1, <1>5, <2>1, <2>2, TakeCall DEF jobs
  <2>4. Phases'
    BY <1>1, <2>1 DEF Phases
  <2>5. TypeOK'
    <3>. HIDE DEF r
    <3>. QED
      BY <1>1, <1>5, <2>1, <2>3 DEF TypeOK, AtMostOne, jobs, IsInjective, ToSet
  <2>. QED
    BY <1>3, <2>3, <2>4, <2>5
<1>6. CASE r = Sentinel
  <2>1. pc' = "exited" /\ UNCHANGED <<slots, jobs, calling>>
    BY <1>6 DEF Get, Goto, Requests
  <2>3. /\ Places' /\ Line' /\ Behind' /\ Opens'
        /\ queue' \in Seq(Requests \cup {Sentinel}) /\ Len(queue') <= MaxPending
    BY <1>1, <1>6, <2>1, TakeSentinel DEF jobs
  <2>4. Phases'
    BY <1>1, <2>1 DEF Phases
  <2>5. TypeOK'
    <3>. HIDE DEF r
    <3>. QED
      BY <1>1, <2>1, <2>3 DEF TypeOK, AtMostOne, jobs, IsInjective, ToSet
  <2>. QED
    BY <1>3, <2>3, <2>4, <2>5
<1>. QED
  BY <1>2, <1>4, <1>5, <1>6 DEF Work, Requests

-----------------------------------------------------------------------------
(* A turn of a job.                                                        *)

\* What a turn leaves has its type, if the slots, the hand and the job's data have.
LEMMA TurnType ==
  ASSUME TypeOK, UNCHANGED <<queue, deferred, calling, closed, slot, closer, flags, behind>>,
         slots' \in Seq(Jobs), Len(slots') <= Parallel, IsInjective(slots'),
         hand' \subseteq Jobs, AtMostOne(hand'),
         \A i, k \in hand' \cup ToSet(slots') : i # k => slot'[i] # slot'[k],
         pc' \in {"popped", "loop"}, status' \in [Requests -> Statuses],
         started' \subseteq Jobs, admitted' \subseteq Jobs, open' \in [Jobs -> Nat],
         items' \in [Jobs -> 0 .. MaxItems], retries' \in [Jobs -> 0 .. MaxRetries]
  PROVE  TypeOK'
<1>1. /\ queue' \in Seq(Requests \cup {Sentinel}) /\ Len(queue') <= MaxPending
      /\ deferred' \subseteq Calls /\ AtMostOne(deferred')
      /\ calling' \subseteq Calls /\ AtMostOne(calling')
      /\ closed' \in BOOLEAN /\ slot' \in [Jobs -> 0 .. Parallel - 1]
      /\ cancel' \subseteq Jobs /\ late' \subseteq Requests /\ behind' \in [Jobs -> SUBSET Calls]
  BY DEF TypeOK, AtMostOne, flags
<1>2. closer' \in [Closers -> {"out", "begin", "active", "cancel", "slots", "deferred", "stop",
                               "forget", "drain", "mark", "joined", "raised"}]
  BY DEF TypeOK
<1>. QED
  BY <1>1, <1>2 DEF TypeOK, Statuses

LEMMA PopStep ==
  ASSUME GInv, Pop
  PROVE  GInv'
<1>. USE GenerationSchedulerAssumption DEF GInv
<1>1. /\ slots # <<>> /\ slots' = Tail(slots) /\ hand = {} /\ hand' = {Head(slots)}
      /\ pc' = "popped" /\ calling = {} /\ pc \in {"pop", "fill"}
      /\ UNCHANGED <<queue, deferred, calling, closed, status, jobs, closer, flags, behind>>
  BY DEF Pop, Phases, Goto, Apart
<1>2. /\ slots' \in Seq(Jobs) /\ Len(slots') = Len(slots) - 1 /\ Len(slots) \in Nat \ {0}
      /\ \A i \in 1 .. Len(slots') : i + 1 \in 1 .. Len(slots) /\ slots'[i] = slots[i + 1]
      /\ Head(slots) = slots[1] /\ Head(slots) \in Jobs
      /\ ToSet(slots) = {Head(slots)} \cup ToSet(slots')
  <2>1. slots \in Seq(Jobs)
    BY DEF TypeOK
  <2>. QED
    BY <1>1, <2>1, TailIs
<1>3. /\ \A m, n \in 1 .. Len(slots) : slots[m] = slots[n] => m = n
      /\ Len(slots) <= Parallel
  <2>1. slots \in Seq(Jobs) /\ IsInjective(slots) /\ Len(slots) <= Parallel
    BY DEF TypeOK
  <2>. QED
    BY <2>1 DEF IsInjective
<1>4. IsInjective(slots') /\ Len(slots') < Parallel
  <2>1. ASSUME NEW m \in 1 .. Len(slots'), NEW n \in 1 .. Len(slots'), slots'[m] = slots'[n]
        PROVE  m = n
    <3>1. m + 1 = n + 1
      BY <1>2, <1>3, <2>1
    <3>. QED
      BY <3>1
  <2>. QED
    BY <1>2, <1>3, <2>1 DEF IsInjective
<1>5. Head(slots) \notin ToSet(slots')
  <2>. SUFFICES ASSUME NEW m \in 1 .. Len(slots'), slots'[m] = slots[1] PROVE FALSE
    BY <1>2 DEF ToSet
  <2>1. m + 1 = 1
    BY <1>2, <1>3
  <2>. QED
    BY <2>1
<1>6. Seated' = Seated /\ UNCHANGED <<Taken, Queued>>
  BY <1>1, <1>2 DEF Seated, Taken, Queued
<1>7. TypeOK'
  <2>1. \A i, k \in hand' \cup ToSet(slots') : i # k => slot'[i] # slot'[k]
    BY <1>1, <1>2 DEF TypeOK, jobs
  <2>2. hand' \subseteq Jobs /\ AtMostOne(hand') /\ Len(slots') <= Parallel
    BY <1>1, <1>2, <1>4 DEF AtMostOne
  <2>3. /\ status' \in [Requests -> Statuses] /\ slot' = slot
        /\ started' \subseteq Jobs /\ admitted' \subseteq Jobs /\ open' \in [Jobs -> Nat]
        /\ items' \in [Jobs -> 0 .. MaxItems] /\ retries' \in [Jobs -> 0 .. MaxRetries]
    BY <1>1 DEF TypeOK, Statuses, jobs
  <2>. QED
    BY <1>1, <1>2, <1>4, <2>1, <2>2, <2>3, TurnType
<1>8. Phases'
  BY <1>1, <1>4 DEF Phases
<1>9. Places'
  BY <1>1, <1>5, <1>6 DEF Places, Waiting, Replied
<1>10. Line'
  BY <1>1, <1>6, SameLine DEF Waiting
<1>11. Behind' /\ Opens' /\ Forgets'
  BY <1>1, <1>6 DEF Behind, Opens, Forgets, Waiting, Replied, At, jobs
<1>. QED
  BY <1>7, <1>8, <1>9, <1>10, <1>11

LEMMA EndsStep ==
  ASSUME GInv, NEW j \in Jobs, Turn(j), NEW a \in Answers, Ends(j, a)
  PROVE  GInv'
<1>. USE GenerationSchedulerAssumption DEF GInv
<1>1. /\ pc = "step" /\ hand = {j} /\ hand' = {} /\ pc' = "loop" /\ calling = {}
      /\ started' = started \ {j}
      /\ UNCHANGED <<queue, slots, deferred, calling, closed, slot, admitted, items, retries, closer,
                     flags, behind>>
  BY DEF Turn, Ends, Unhand, Goto, Apart, Phases
<1>2. /\ status' \in [Requests -> Statuses] /\ status'[j] = a
      /\ \A q \in Requests : q # j => status'[q] = status[q]
  BY AnswerIs DEF Ends, Statuses, Requests
<1>3. /\ \A q \in Requests : q # j => (Waiting(q)' <=> Waiting(q)) /\ (Replied(q)' <=> Replied(q))
      /\ ~Waiting(j)' /\ j \in Requests /\ Replied(j)'
  BY <1>2 DEF Waiting, Replied, Answers, Requests
<1>4. /\ Seated \subseteq Jobs /\ Taken \subseteq Calls /\ Queued \subseteq Requests
      /\ \A i \in Jobs : behind[i] \subseteq Calls
      /\ j \in Seated /\ j \notin ToSet(slots)
  BY <1>1 DEF TypeOK, Seated, Taken, Queued, ToSet, Places
<1>5. Seated' = Seated \ {j} /\ UNCHANGED <<Taken, Queued>> /\ j \notin Taken
  BY <1>1, <1>4 DEF Seated, Taken, Queued
<1>6. /\ open' \in [Jobs -> Nat] /\ open'[j] = 0 /\ \A i \in Jobs \ {j} : open'[i] = open[i]
  <2>1. open' = [open EXCEPT ![j] = IF j \in started THEN open[j] - 1 ELSE open[j]]
    BY DEF Ends
  <2>2. (IF j \in started THEN open[j] - 1 ELSE open[j]) = 0
    BY DEF Opens
  <2>. QED
    BY <2>1, <2>2 DEF TypeOK
<1>7. TypeOK'
  <2>1. /\ slots' \in Seq(Jobs) /\ Len(slots') <= Parallel /\ IsInjective(slots')
        /\ hand' \subseteq Jobs /\ AtMostOne(hand')
    BY <1>1 DEF TypeOK, AtMostOne
  <2>2. \A i, k \in hand' \cup ToSet(slots') : i # k => slot'[i] # slot'[k]
    BY <1>1 DEF TypeOK
  <2>3. /\ started' \subseteq Jobs /\ admitted' \subseteq Jobs
        /\ items' \in [Jobs -> 0 .. MaxItems] /\ retries' \in [Jobs -> 0 .. MaxRetries]
    BY <1>1 DEF TypeOK
  <2>. QED
    BY <1>1, <1>2, <1>6, <2>1, <2>2, <2>3, TurnType
<1>8. Phases'
  BY <1>1 DEF Phases
<1>9. Places'
  BY <1>1, <1>3, <1>4, <1>5 DEF Places, Requests
<1>10. Line'
  BY <1>1, <1>3, <1>5, SameLine DEF Requests
<1>11. Behind'
  BY <1>1, <1>3, <1>4, <1>5 DEF Behind, Requests
<1>12. Opens'
  BY <1>1, <1>5, <1>6 DEF Opens
<1>13. Forgets'
  BY <1>1, <1>3, <1>4, <1>5 DEF Forgets, At, Requests
<1>. QED
  BY <1>7, <1>8, <1>9, <1>10, <1>11, <1>12, <1>13

\* A job that stays goes behind the others.
LEMMA StaysIs ==
  ASSUME GInv, NEW j \in Jobs, Turn(j), Stays(j),
         started' \subseteq Jobs, admitted' \subseteq Jobs,
         items' \in [Jobs -> 0 .. MaxItems], retries' \in [Jobs -> 0 .. MaxRetries],
         open' \in [Jobs -> Nat], started' \subseteq started \cup {j},
         open'[j] = IF j \in started' THEN 1 ELSE 0,
         \A i \in Jobs \ {j} : open'[i] = open[i] /\ (i \in started' <=> i \in started)
  PROVE  GInv'
<1>. USE GenerationSchedulerAssumption DEF GInv
<1>1. /\ pc = "step" /\ hand = {j} /\ hand' = {} /\ pc' = "loop" /\ calling = {}
      /\ slots' = Append(slots, j) /\ Len(slots) < Parallel
      /\ UNCHANGED <<queue, deferred, calling, closed, status, slot, closer, flags, behind>>
  BY DEF Turn, Stays, Kept, Unhand, Goto, Apart, Phases
<1>2. j \notin ToSet(slots) /\ ToSet(slots) \subseteq Jobs
  BY <1>1 DEF Places, TypeOK, ToSet
<1>3. /\ slots' \in Seq(Jobs) /\ IsInjective(slots') /\ Len(slots') = Len(slots) + 1
      /\ ToSet(slots') = ToSet(slots) \cup {j} /\ Len(slots) \in Nat
  <2>1. slots \in Seq(Jobs) /\ IsInjective(slots)
    BY DEF TypeOK
  <2>. QED
    BY <1>1, <1>2, <2>1, AppendIs
<1>4. Seated' = Seated /\ UNCHANGED <<Taken, Queued>>
  BY <1>1, <1>3 DEF Seated, Taken, Queued
<1>5. TypeOK'
  <2>1. \A i, k \in hand' \cup ToSet(slots') : i # k => slot'[i] # slot'[k]
    BY <1>1, <1>3 DEF TypeOK
  <2>2. Len(slots') <= Parallel /\ hand' \subseteq Jobs /\ AtMostOne(hand')
    BY <1>1, <1>3 DEF AtMostOne
  <2>3. status' \in [Requests -> Statuses]
    BY <1>1 DEF TypeOK, Statuses
  <2>. QED
    BY <1>1, <1>3, <2>1, <2>2, <2>3, TurnType
<1>6. Phases'
  BY <1>1 DEF Phases
<1>7. Places'
  BY <1>1, <1>4 DEF Places, Waiting, Replied
<1>8. Line'
  BY <1>1, <1>4, SameLine DEF Waiting
<1>9. Behind' /\ Forgets'
  BY <1>1, <1>4 DEF Behind, Forgets, Waiting, Replied, At
<1>10. Opens'
  <2>1. j \in Seated
    BY <1>1 DEF Seated
  <2>. QED
    BY <1>4, <2>1 DEF Opens
<1>. QED
  BY <1>5, <1>6, <1>7, <1>8, <1>9, <1>10

LEMMA PostponeStep ==
  ASSUME GInv, NEW j \in Jobs, Postpone(j)
  PROVE  GInv'
<1>1. /\ Turn(j) /\ Stays(j) /\ UNCHANGED <<started, open, admitted, items>>
      /\ retries' = [retries EXCEPT ![j] = @ + 1] /\ retries[j] < MaxRetries
  BY DEF Postpone
<1>2. retries' \in [Jobs -> 0 .. MaxRetries]
  <2>1. retries \in [Jobs -> 0 .. MaxRetries] /\ MaxRetries \in Nat
    BY GenerationSchedulerAssumption DEF GInv, TypeOK
  <2>. QED
    BY <1>1, <2>1
<1>3. started' \subseteq Jobs /\ admitted' \subseteq Jobs /\ items' \in [Jobs -> 0 .. MaxItems]
      /\ open' \in [Jobs -> Nat]
  BY <1>1 DEF GInv, TypeOK
<1>4. /\ open'[j] = IF j \in started' THEN 1 ELSE 0
      /\ \A i \in Jobs \ {j} : open'[i] = open[i] /\ (i \in started' <=> i \in started)
  BY <1>1 DEF GInv, Opens
<1>. QED
  BY <1>1, <1>2, <1>3, <1>4, StaysIs

LEMMA YieldStep ==
  ASSUME GInv, NEW j \in Jobs, Yield(j)
  PROVE  GInv'
<1>1. /\ Turn(j) /\ Stays(j) /\ admitted' = admitted \cup {j} /\ started' = started \cup {j}
      /\ open' = [open EXCEPT ![j] = IF j \in started THEN @ ELSE @ + 1]
      /\ items' = [items EXCEPT ![j] = @ + 1] /\ items[j] < MaxItems /\ retries' = retries
  BY DEF Yield
<1>2. items' \in [Jobs -> 0 .. MaxItems]
  <2>1. items \in [Jobs -> 0 .. MaxItems] /\ MaxItems \in Nat
    BY GenerationSchedulerAssumption DEF GInv, TypeOK
  <2>. QED
    BY <1>1, <2>1
<1>3. /\ started' \subseteq Jobs /\ admitted' \subseteq Jobs
      /\ retries' \in [Jobs -> 0 .. MaxRetries]
  BY <1>1 DEF GInv, TypeOK
<1>4. /\ open' \in [Jobs -> Nat] /\ open'[j] = 1
      /\ \A i \in Jobs \ {j} : open'[i] = open[i] /\ (i \in started' <=> i \in started)
  BY <1>1 DEF GInv, Opens, TypeOK
<1>. QED
  BY <1>1, <1>2, <1>3, <1>4, StaysIs

LEMMA StartOverStep ==
  ASSUME GInv, NEW j \in Jobs, StartOver(j)
  PROVE  GInv'
<1>1. /\ Turn(j) /\ Stays(j) /\ admitted' = admitted \cup {j} /\ started' = started \ {j}
      /\ open' = [open EXCEPT ![j] = Reset(j)] /\ items' = items
      /\ retries' = [retries EXCEPT ![j] = @ + 1] /\ retries[j] < MaxRetries
  BY DEF StartOver
<1>2. retries' \in [Jobs -> 0 .. MaxRetries]
  <2>1. retries \in [Jobs -> 0 .. MaxRetries] /\ MaxRetries \in Nat
    BY GenerationSchedulerAssumption DEF GInv, TypeOK
  <2>. QED
    BY <1>1, <2>1
<1>3. /\ started' \subseteq Jobs /\ admitted' \subseteq Jobs /\ items' \in [Jobs -> 0 .. MaxItems]
  BY <1>1 DEF GInv, TypeOK
<1>4. Reset(j) = 0
  BY DEF GInv, Opens, Reset
<1>5. /\ open' \in [Jobs -> Nat] /\ open'[j] = 0
      /\ \A i \in Jobs \ {j} : open'[i] = open[i] /\ (i \in started' <=> i \in started)
  BY <1>1, <1>4 DEF GInv, TypeOK
<1>. QED
  BY <1>1, <1>2, <1>3, <1>5, StaysIs


-----------------------------------------------------------------------------
(* The deferred call, and what close does to the queue.                    *)

LEMMA FindDeferredStep ==
  ASSUME GInv, FindDeferred
  PROVE  GInv'
<1>1. UNCHANGED <<queue, slots, hand, deferred, calling, status, started, open, behind>>
  BY DEF FindDeferred, Goto, Apart, flags, jobs
<1>2. TypeOK'
  BY QuietType DEF GInv, TypeOK, FindDeferred, Goto, Apart, flags
<1>3. Phases'
  BY DEF GInv, Phases, TypeOK, FindDeferred, Goto, Apart, flags
<1>4. Forgets'
  BY DEF GInv, Forgets, TypeOK, Phases, Taken, Waiting, At, FindDeferred, Goto, Apart, flags
<1>. QED
  BY <1>1, <1>2, <1>3, <1>4, QuietIs DEF GInv

\* The call the worker has taken is the deferred one, until it is reset.
LEMMA TakeDeferredStep ==
  ASSUME GInv, TakeDeferred \/ DropDeferred
  PROVE  GInv'
<1>. USE GenerationSchedulerAssumption DEF GInv
<1>1. /\ hand = {} /\ slots = <<>> /\ Taken' = Taken
      /\ calling' \in {calling, deferred} /\ deferred' \in {deferred, {}}
      /\ \/ pc' = "dead" /\ deferred' = {} /\ calling' = {}
         \/ pc' = "drop" /\ deferred' = calling'
         \/ pc' = "call" /\ deferred' = {}
      /\ UNCHANGED <<queue, slots, hand, closed, status, jobs, closer, flags, behind>>
  <2>1. CASE TakeDeferred
    BY <2>1 DEF TakeDeferred, Goto, Apart, Phases, Taken
  <2>2. CASE DropDeferred
    BY <2>2 DEF DropDeferred, Goto, Apart, Phases, Taken
  <2>. QED
    BY <2>1, <2>2
<1>2. UNCHANGED <<Seated, Taken, Queued>>
  BY <1>1 DEF Seated, Queued
<1>3. TypeOK'
  <2>1. /\ deferred' \subseteq Calls /\ AtMostOne(deferred')
        /\ calling' \subseteq Calls /\ AtMostOne(calling')
    BY <1>1 DEF TypeOK, AtMostOne
  <2>. QED
    BY <1>1, <2>1 DEF TypeOK, AtMostOne, IsInjective, ToSet, jobs, flags
<1>4. Phases'
  BY <1>1 DEF Phases
<1>5. Places'
  BY <1>1, <1>2 DEF Places, Waiting, Replied
<1>6. Line'
  BY <1>1, <1>2, SameLine DEF Waiting
<1>7. Behind' /\ Opens'
  BY <1>1, <1>2 DEF Behind, Opens, Waiting, Replied, At, jobs
<1>8. Forgets'
  <2>1. pc # "dead"
    BY DEF TakeDeferred, DropDeferred
  <2>. QED
    BY <1>1, <2>1 DEF Forgets, Waiting, At
<1>. QED
  BY <1>3, <1>4, <1>5, <1>6, <1>7, <1>8

LEMMA EndCallStep ==
  ASSUME GInv, EndCall
  PROVE  GInv'
<1>. USE GenerationSchedulerAssumption DEF GInv
<1>1. /\ pc \in {"running", "answer"} /\ pc' \in {"loop", "dead"}
      /\ calling' = {} /\ deferred = {} /\ hand = {} /\ slots = <<>>
      /\ UNCHANGED <<queue, slots, hand, deferred, closed, jobs, closer, flags, behind>>
  BY DEF EndCall, Goto, Apart, Phases
<1>2. PICK c \in calling :
        \/ /\ Waiting(c) /\ pc' = "loop"
           /\ \E a \in {"done", "failed"} : Answer(c, a)
        \/ ~Waiting(c) /\ pc' = "dead" /\ UNCHANGED status
  BY DEF EndCall, Goto
<1>3. /\ Taken = {c} /\ Taken' = {} /\ UNCHANGED <<Seated, Queued>> /\ c \in Calls
      /\ c \in Requests /\ c \notin Queued \cup Seated
  <2>1. calling = {c} /\ c \in Calls /\ Seated \subseteq Jobs /\ Calls \subseteq Requests
    BY <1>2 DEF TypeOK, AtMostOne, Seated, ToSet, Requests
  <2>2. Taken = {c} /\ Taken' = {} /\ UNCHANGED <<Seated, Queued>>
    BY <1>1, <2>1 DEF Taken, Seated, Queued
  <2>3. c \notin Queued \cup Seated
    BY <2>1, <2>2 DEF Places
  <2>. QED
    BY <2>1, <2>2, <2>3
<1>4. /\ status' \in [Requests -> Statuses]
      /\ \A q \in Requests : q # c => status'[q] = status[q]
      /\ ~Waiting(c)'
  <2>1. CASE \E a \in {"done", "failed"} : Answer(c, a)
    <3>1. PICK a \in {"done", "failed"} : Answer(c, a)
      BY <2>1
    <3>. QED
      BY <1>3, <3>1, AnswerIs DEF Waiting, Statuses, Answers
  <2>2. CASE ~Waiting(c) /\ UNCHANGED status
    BY <2>2 DEF TypeOK, Waiting, Statuses
  <2>. QED
    BY <1>2, <2>1, <2>2
<1>5. /\ \A q \in Requests : q # c => (Waiting(q)' <=> Waiting(q)) /\ (Replied(q)' <=> Replied(q))
      /\ Replied(c)'
  <2>1. Waiting(c) \/ Replied(c)
    BY <1>3 DEF Places
  <2>2. CASE Waiting(c)
    <3>1. PICK a \in {"done", "failed"} : Answer(c, a)
      BY <1>2, <2>2
    <3>2. status'[c] = a
      BY <1>3, <3>1, AnswerIs DEF Statuses, Answers
    <3>. QED
      BY <1>4, <3>2 DEF Waiting, Replied, Answers
  <2>3. CASE ~Waiting(c)
    BY <1>2, <1>4, <2>1, <2>3 DEF Waiting, Replied
  <2>. QED
    BY <2>2, <2>3
<1>6. /\ Seated \subseteq Jobs /\ Queued \subseteq Requests
      /\ \A i \in Jobs : behind[i] \subseteq Calls
  BY DEF TypeOK, Seated, Queued, ToSet
<1>7. TypeOK'
  <2>1. \A i, k \in hand' \cup ToSet(slots') : i # k => slot'[i] # slot'[k]
    BY <1>1 DEF TypeOK, jobs
  <2>. QED
    BY <1>1, <1>4, <2>1 DEF TypeOK, AtMostOne, Statuses, jobs, flags
<1>8. Phases'
  BY <1>1 DEF Phases
<1>9. Places'
  BY <1>1, <1>3, <1>4, <1>5, <1>6 DEF Places, Requests
<1>10. Line'
  BY <1>1, <1>3, <1>4, <1>5, SameLine DEF Requests
<1>11. Behind'
  BY <1>1, <1>3, <1>4, <1>5, <1>6 DEF Behind, Requests
<1>12. Opens'
  BY <1>1, <1>3 DEF Opens, jobs
<1>13. Forgets'
  BY <1>1, <1>2, <1>3 DEF Forgets, At
<1>. QED
  BY <1>7, <1>8, <1>9, <1>10, <1>11, <1>12, <1>13

\* What a step of close moves: the queue, the deferred call, statuses and flags.
LEMMA CloseType ==
  ASSUME TypeOK, UNCHANGED <<slots, hand, calling, pc, jobs, late, behind>>,
         queue' \in Seq(Requests \cup {Sentinel}), Len(queue') <= MaxPending,
         deferred' \subseteq deferred, closed' \in BOOLEAN, status' \in [Requests -> Statuses],
         closer' \in [Closers -> {"out", "begin", "active", "cancel", "slots", "deferred", "stop",
                                  "forget", "drain", "mark", "joined", "raised"}],
         cancel' \subseteq Jobs
  PROVE  TypeOK'
<1>1. deferred' \subseteq Calls /\ AtMostOne(deferred')
  BY DEF TypeOK, AtMostOne
<1>. QED
  BY <1>1 DEF TypeOK, Statuses, AtMostOne, IsInjective, ToSet, jobs

LEMMA MovesIs ==
  ASSUME TypeOK, NEW k \in Closers,
         NEW l \in {"out", "begin", "active", "cancel", "slots", "deferred", "stop",
                    "forget", "drain", "mark", "joined", "raised"}, Moves(k, l)
  PROVE  /\ closer' \in [Closers -> {"out", "begin", "active", "cancel", "slots", "deferred", "stop",
                                     "forget", "drain", "mark", "joined", "raised"}]
         /\ At(k, l)'
         /\ \A m \in Closers \ {k} : \A p : At(m, p)' <=> At(m, p)
         /\ UNCHANGED <<slots, hand, calling, pc, jobs, late, behind>>
  BY DEF TypeOK, Moves, At

LEMMA StopDeferredStep ==
  ASSUME GInv, NEW k \in Closers, StopDeferred(k)
  PROVE  GInv'
<1>. USE GenerationSchedulerAssumption DEF GInv
<1>1. /\ At(k, "stop") /\ UNCHANGED <<queue, deferred, closed, cancel>>
      /\ UNCHANGED <<slots, hand, calling, pc, jobs, late, behind>>
  BY DEF StopDeferred, Moves
<1>2. UNCHANGED <<Seated, Taken, Queued>>
  BY <1>1 DEF Seated, Taken, Queued
<1>3. queue' \in Seq(Requests \cup {Sentinel}) /\ Len(queue') <= MaxPending /\ cancel' \subseteq Jobs
      /\ deferred' \subseteq deferred /\ closed' \in BOOLEAN
  BY <1>1 DEF TypeOK
<1>4. Phases' /\ Opens'
  BY <1>1, <1>2 DEF Phases, Opens, jobs
<1>5. CASE \E c \in deferred : Waiting(c) /\ Answer(c, "stopped") /\ Moves(k, "forget")
  <2>1. PICK c \in deferred : Waiting(c) /\ Answer(c, "stopped") /\ Moves(k, "forget")
    BY <1>5
  <2>2. c \in Calls /\ c \in Requests /\ Taken = {c} /\ c \notin Queued \cup Seated
    <3>1. c \in Calls /\ deferred = {c}
      BY DEF TypeOK, AtMostOne
    <3>2. calling = {} \/ calling = {c}
      BY <3>1 DEF Phases, TypeOK, AtMostOne
    <3>3. Taken = {c}
      BY <3>1, <3>2 DEF Taken
    <3>. QED
      BY <3>1, <3>3 DEF Requests, Places, Seated, TypeOK, ToSet
  <2>3. /\ status' \in [Requests -> Statuses] /\ status'[c] = "stopped"
        /\ \A q \in Requests : q # c => status'[q] = status[q]
    BY <2>1, <2>2, AnswerIs DEF Statuses, Answers
  <2>4. /\ ~Waiting(c)' /\ Replied(c)'
        /\ \A q \in Requests : q # c => (Waiting(q)' <=> Waiting(q)) /\ (Replied(q)' <=> Replied(q))
    BY <2>3 DEF Waiting, Replied, Answers
  <2>5. /\ closer' \in [Closers -> {"out", "begin", "active", "cancel", "slots", "deferred", "stop",
                                    "forget", "drain", "mark", "joined", "raised"}]
        /\ \A m \in Closers \ {k} : At(m, "forget")' <=> At(m, "forget")
    BY <2>1, MovesIs
  <2>6. TypeOK'
    BY <1>1, <1>3, <2>3, <2>5, CloseType
  <2>7. /\ Seated \subseteq Jobs /\ Queued \subseteq Requests /\ Taken \subseteq Calls
        /\ \A i \in Jobs : behind[i] \subseteq Calls
    BY <2>2 DEF TypeOK, Seated, Queued, ToSet
  <2>8. Places'
    BY <1>1, <1>2, <2>2, <2>4, <2>7 DEF Places, Requests
  <2>9. Line'
    BY <1>1, <1>2, <2>4, SameLine DEF Requests
  <2>10. Behind'
    BY <1>1, <1>2, <2>4, <2>7 DEF Behind, Requests
  <2>11. \A m \in Closers : ~At(m, "forget")
    BY <2>1, <2>2 DEF Forgets
  <2>12. Forgets'
    BY <1>2, <2>2, <2>4, <2>5, <2>11 DEF Forgets
  <2>. QED
    BY <1>4, <2>6, <2>8, <2>9, <2>10, <2>12
<1>6. CASE Moves(k, "raised") /\ UNCHANGED status
  <2>1. /\ closer' \in [Closers -> {"out", "begin", "active", "cancel", "slots", "deferred", "stop",
                                    "forget", "drain", "mark", "joined", "raised"}]
        /\ \A m \in Closers : At(m, "forget")' => At(m, "forget")
    <3>1. At(k, "raised")' /\ \A m \in Closers \ {k} : At(m, "forget")' <=> At(m, "forget")
      BY <1>6, MovesIs
    <3>. QED
      BY <1>6, <3>1, MovesIs DEF At
  <2>2. status' \in [Requests -> Statuses]
    BY <1>6 DEF TypeOK, Statuses
  <2>3. TypeOK'
    BY <1>1, <1>3, <2>1, <2>2, CloseType
  <2>4. Places' /\ Line' /\ Behind'
    BY <1>1, <1>6, QuietIs DEF jobs
  <2>5. Forgets'
    BY <1>1, <1>2, <1>6, <2>1 DEF Forgets, Waiting
  <2>. QED
    BY <1>4, <2>3, <2>4, <2>5
<1>. QED
  BY <1>5, <1>6 DEF StopDeferred

LEMMA ForgetDeferredStep ==
  ASSUME GInv, NEW k \in Closers, ForgetDeferred(k)
  PROVE  GInv'
<1>. USE GenerationSchedulerAssumption DEF GInv
<1>1. /\ At(k, "forget") /\ deferred' = {} /\ UNCHANGED <<queue, closed, status, cancel>>
      /\ UNCHANGED <<slots, hand, calling, pc, jobs, late, behind>>
  BY DEF ForgetDeferred, Moves
<1>2. \A c \in deferred : ~Waiting(c)
  <2>. SUFFICES ASSUME NEW c \in deferred PROVE ~Waiting(c)
    OBVIOUS
  <2>1. deferred = {c} /\ (calling = {} \/ calling = {c})
    BY DEF TypeOK, AtMostOne, Phases
  <2>2. Taken = {c}
    BY <2>1 DEF Taken
  <2>. QED
    BY <1>1, <2>1, <2>2 DEF Forgets
<1>3. /\ UNCHANGED <<Seated, Queued>> /\ Taken' \subseteq Taken
      /\ \A c \in Taken : Waiting(c) => c \in Taken'
  BY <1>1, <1>2 DEF Seated, Taken, Queued
<1>4. /\ closer' \in [Closers -> {"out", "begin", "active", "cancel", "slots", "deferred", "stop",
                                  "forget", "drain", "mark", "joined", "raised"}]
      /\ \A m \in Closers : ~At(m, "forget")'
  <2>1. /\ closer' \in [Closers -> {"out", "begin", "active", "cancel", "slots", "deferred", "stop",
                                    "forget", "drain", "mark", "joined", "raised"}]
        /\ At(k, "drain")' /\ \A m \in Closers \ {k} : At(m, "forget")' <=> At(m, "forget")
    BY MovesIs DEF ForgetDeferred
  <2>2. \A m \in Closers \ {k} : ~At(m, "forget")
    BY <1>1 DEF Forgets
  <2>3. ~At(k, "forget")'
    BY <2>1 DEF At
  <2>. QED
    BY <2>1, <2>2, <2>3
<1>5. TypeOK'
  <2>1. queue' \in Seq(Requests \cup {Sentinel}) /\ Len(queue') <= MaxPending /\ cancel' \subseteq Jobs
        /\ closed' \in BOOLEAN /\ status' \in [Requests -> Statuses] /\ deferred' \subseteq deferred
    BY <1>1 DEF TypeOK, Statuses
  <2>. QED
    BY <1>1, <1>4, <2>1, CloseType
<1>6. Phases' /\ Opens'
  BY <1>1, <1>3 DEF Phases, Opens, jobs
<1>7. Places'
  BY <1>1, <1>3 DEF Places, Waiting, Replied
<1>8. Line'
  BY <1>1, <1>3, SameLine DEF Waiting
<1>9. Behind' /\ Forgets'
  BY <1>1, <1>3, <1>4 DEF Behind, Forgets, Waiting, Replied
<1>. QED
  BY <1>5, <1>6, <1>7, <1>8, <1>9

LEMMA DrainStep ==
  ASSUME GInv, NEW k \in Closers, Drain(k)
  PROVE  GInv'
<1>. USE GenerationSchedulerAssumption DEF GInv
<1>. DEFINE r == Head(queue)
<1>1. /\ queue # <<>> /\ queue' = Tail(queue) /\ UNCHANGED <<deferred, closed>>
      /\ cancel' = cancel \cup ({r} \cap Jobs)
      /\ UNCHANGED <<slots, hand, calling, pc, jobs, late, behind>>
  BY DEF Drain, Moves
<1>2. /\ r \in Work /\ r \notin Seated \cup Taken
      /\ r # Sentinel => r \in Queued /\ r \in Requests /\ Waiting(r)
  BY <1>1, HeadIs DEF Work
<1>3. UNCHANGED <<Seated, Taken>>
  BY <1>1 DEF Seated, Taken
<1>4. /\ status' \in [Requests -> Statuses]
      /\ \A q \in Requests : q # r => status'[q] = status[q]
      /\ r # Sentinel => status'[r] = "stopped"
  <2>1. IF r = Sentinel THEN UNCHANGED status ELSE Answer(r, "stopped")
    BY DEF Drain
  <2>. HIDE DEF r
  <2>2. CASE r = Sentinel
    BY <2>1, <2>2 DEF TypeOK, Statuses
  <2>3. CASE r # Sentinel
    BY <1>2, <2>1, <2>3, AnswerIs DEF Statuses, Answers
  <2>. QED
    BY <2>2, <2>3
<1>5. /\ \A q \in Requests : q # r => (Waiting(q)' <=> Waiting(q)) /\ (Replied(q)' <=> Replied(q))
      /\ \A q \in Requests : Waiting(q)' => Waiting(q) /\ q # r
      /\ \A q \in Requests : Replied(q) => Replied(q)'
      /\ \A q \in Requests : Waiting(q) => Waiting(q)' \/ Replied(q)'
  <2>. HIDE DEF r
  <2>1. \A q \in Requests : q = r => r # Sentinel
    BY DEF Requests
  <2>. QED
    BY <1>2, <1>4, <2>1 DEF Waiting, Replied, Answers
<1>6. /\ Seated \subseteq Jobs /\ Taken \subseteq Calls /\ Queued \subseteq Requests
      /\ \A i \in Jobs : behind[i] \subseteq Calls
  BY DEF TypeOK, Seated, Taken, Queued, ToSet
<1>7. /\ Line' /\ queue' \in Seq(Work) /\ Len(queue') <= MaxPending /\ Queued' = Queued \ {r}
  <2>1. \A c \in Calls : c = Head(queue) /\ Waiting(c)' => c \in Taken'
    BY <1>5 DEF Requests
  <2>2. \A c \in Calls : Waiting(c)' => Waiting(c)
    BY <1>5 DEF Requests
  <2>3. \A c \in Taken : Waiting(c)' => c \in Taken'
    BY <1>3
  <2>. QED
    BY <1>1, <2>1, <2>2, <2>3, TailLine
<1>. HIDE DEF r
<1>8. Moves(k, "drain") /\ At(k, "drain")
  BY DEF Drain
<1>9. /\ closer' \in [Closers -> {"out", "begin", "active", "cancel", "slots", "deferred", "stop",
                                  "forget", "drain", "mark", "joined", "raised"}]
      /\ \A m \in Closers : At(m, "forget")' <=> At(m, "forget")
  <2>1. At(k, "drain")' /\ \A m \in Closers \ {k} : At(m, "forget")' <=> At(m, "forget")
    BY <1>8, MovesIs
  <2>2. ~At(k, "forget") /\ ~At(k, "forget")'
    BY <1>8, <2>1 DEF At
  <2>. QED
    BY <1>8, <2>1, <2>2, MovesIs
<1>10. TypeOK'
  <2>1. cancel' \subseteq Jobs /\ deferred' \subseteq deferred /\ closed' \in BOOLEAN
    BY <1>1 DEF TypeOK
  <2>. QED
    BY <1>1, <1>4, <1>7, <1>9, <2>1, CloseType DEF Work
<1>11. Phases' /\ Opens'
  BY <1>1, <1>3 DEF Phases, Opens, jobs
<1>12. Places'
  <2>1. ASSUME NEW q \in Requests, Waiting(q)' PROVE q \in Queued' \cup Seated' \cup Taken'
    BY <1>3, <1>5, <1>7, <2>1 DEF Places
  <2>2. ASSUME NEW q \in Queued' \cup Seated' PROVE Waiting(q)'
    BY <1>2, <1>3, <1>5, <1>6, <1>7, <2>2 DEF Places, Requests
  <2>3. ASSUME NEW c \in Taken' PROVE Waiting(c)' \/ Replied(c)'
    BY <1>3, <1>5, <1>6, <2>3 DEF Places, Requests
  <2>4. /\ hand' \cap ToSet(slots') = {}
        /\ Queued' \cap (Seated' \cup Taken') = {}
    BY <1>1, <1>3, <1>7 DEF Places
  <2>. QED
    BY <2>1, <2>2, <2>3, <2>4 DEF Places
<1>13. Behind'
  BY <1>1, <1>3, <1>5, <1>6 DEF Behind, Requests
<1>14. Forgets'
  BY <1>1, <1>3, <1>5, <1>6, <1>9 DEF Forgets, Requests
<1>. QED
  BY <1>7, <1>10, <1>11, <1>12, <1>13, <1>14

LEMMA PutSentinelStep ==
  ASSUME GInv, NEW k \in Closers, PutSentinel(k)
  PROVE  GInv'
<1>. USE GenerationSchedulerAssumption DEF GInv
<1>1. /\ At(k, "mark") /\ Moves(k, "joined") /\ UNCHANGED <<deferred, closed, status, cancel>>
      /\ UNCHANGED <<slots, hand, calling, pc, jobs, late, behind>>
  BY DEF PutSentinel, Moves
<1>2. UNCHANGED <<Seated, Taken>>
  BY <1>1 DEF Seated, Taken
<1>3. /\ Line' /\ queue' \in Seq(Work) /\ Len(queue') <= MaxPending /\ Queued' = Queued
  <2>1. CASE Len(queue) < MaxPending
    <3>1. queue' = Append(queue, Sentinel) /\ Sentinel \in Work /\ Sentinel \notin Jobs
          /\ Sentinel \notin Requests
      BY <2>1 DEF PutSentinel, Mark, Work, Requests
    <3>2. /\ \A j \in Jobs \ {Sentinel} : behind'[j] = behind[j]
          /\ \A c \in Calls : Waiting(c)' /\ Waiting(c) => (c \in Taken => c \in Taken')
          /\ \A j \in Jobs \ {Sentinel} : \A c \in behind[j] : Waiting(c)' => Waiting(c)
      BY <1>1, <1>2 DEF Waiting
    <3>3. Line' /\ queue' \in Seq(Work) /\ Len(queue') <= MaxPending
          /\ Queued' = Queued \cup ({Sentinel} \cap Requests)
      BY <2>1, <3>1, <3>2, AppendLine
    <3>. QED
      BY <3>1, <3>3
  <2>2. CASE ~(Len(queue) < MaxPending)
    <3>1. queue' = queue
      BY <2>2 DEF PutSentinel, Mark
    <3>2. Line' /\ Queued' = Queued
      BY <1>1, <1>2, <3>1, SameLine DEF Waiting
    <3>. QED
      BY <3>1, <3>2 DEF TypeOK, Work
  <2>. QED
    BY <2>1, <2>2
<1>4. /\ closer' \in [Closers -> {"out", "begin", "active", "cancel", "slots", "deferred", "stop",
                                  "forget", "drain", "mark", "joined", "raised"}]
      /\ \A m \in Closers : At(m, "forget")' <=> At(m, "forget")
  <2>1. At(k, "joined")' /\ \A m \in Closers \ {k} : At(m, "forget")' <=> At(m, "forget")
    BY <1>1, MovesIs
  <2>2. ~At(k, "forget") /\ ~At(k, "forget")'
    BY <1>1, <2>1 DEF At
  <2>. QED
    BY <1>1, <2>1, <2>2, MovesIs
<1>5. TypeOK'
  <2>1. cancel' \subseteq Jobs /\ deferred' \subseteq deferred /\ closed' \in BOOLEAN
        /\ status' \in [Requests -> Statuses]
    BY <1>1 DEF TypeOK, Statuses
  <2>. QED
    BY <1>1, <1>3, <1>4, <2>1, CloseType DEF Work
<1>6. Phases' /\ Opens'
  BY <1>1, <1>2 DEF Phases, Opens, jobs
<1>7. Places'
  BY <1>1, <1>2, <1>3 DEF Places, Waiting, Replied
<1>8. Behind' /\ Forgets'
  BY <1>1, <1>2, <1>4 DEF Behind, Forgets, Waiting, Replied
<1>. QED
  BY <1>3, <1>5, <1>6, <1>7, <1>8

-----------------------------------------------------------------------------
(* The theorems.                                                           *)

LEMMA InitInv ==
  ASSUME Init
  PROVE  GInv
<1>. USE GenerationSchedulerAssumption DEF Init
<1>1. TypeOK
  <2>1. queue = <<>> /\ slots = <<>> /\ IsInjective(slots) /\ ToSet(slots) = {}
    BY DEF IsInjective, ToSet
  <2>2. /\ AtMostOne(hand) /\ AtMostOne(deferred) /\ AtMostOne(calling)
        /\ queue \in Seq(Requests \cup {Sentinel}) /\ slots \in Seq(Jobs)
        /\ Len(queue) <= MaxPending /\ Len(slots) <= Parallel
    BY <2>1 DEF AtMostOne
  <2>3. /\ closer \in [Closers -> {"out", "begin", "active", "cancel", "slots", "deferred", "stop",
                                   "forget", "drain", "mark", "joined", "raised"}]
        /\ status \in [Requests -> Answers \cup {"new", "checked", "refused", "waiting"}]
        /\ slot \in [Jobs -> 0 .. Parallel - 1] /\ open \in [Jobs -> Nat]
        /\ items \in [Jobs -> 0 .. MaxItems] /\ retries \in [Jobs -> 0 .. MaxRetries]
        /\ behind \in [Jobs -> SUBSET Calls]
    OBVIOUS
  <2>. QED
    BY <2>1, <2>2, <2>3 DEF TypeOK
<1>2. /\ Queued = {} /\ Seated = {} /\ Taken = {} /\ Len(queue) = 0
      /\ \A r \in Requests : ~Waiting(r) /\ ~Replied(r)
  BY DEF Queued, Seated, Taken, ToSet, Waiting, Replied, Answers
<1>3. Phases /\ Places
  BY <1>2 DEF Phases, Places
<1>4. Line /\ Behind /\ Opens
  BY <1>2 DEF Line, Behind, Opens
<1>5. Forgets
  BY DEF Forgets, At
<1>. QED
  BY <1>1, <1>3, <1>4, <1>5 DEF GInv

LEMMA StutterStep ==
  ASSUME GInv, UNCHANGED vars
  PROVE  GInv'
<1>1. TypeOK' /\ Phases'
  BY DEF GInv, TypeOK, Phases, AtMostOne, IsInjective, ToSet, vars, work, jobs, flags
<1>2. Places' /\ Line' /\ Behind' /\ Opens'
  BY QuietIs DEF vars, work, jobs
<1>3. Forgets'
  BY DEF GInv, Forgets, Taken, Waiting, At, vars, work
<1>. QED
  BY <1>1, <1>2, <1>3 DEF GInv

LEMMA TurnStep ==
  ASSUME GInv, NEW j \in Jobs, Step(j)
  PROVE  GInv'
<1>1. CASE Cancelled(j) \/ TimesOut(j) \/ Complete(j)
  <2>1. Turn(j) /\ \E a \in Answers : Ends(j, a)
    BY <1>1 DEF Cancelled, TimesOut, Complete, Answers
  <2>. QED
    BY <2>1, EndsStep
<1>2. CASE Postpone(j) \/ Yield(j) \/ StartOver(j) \/ Break(j)
  BY <1>2, PostponeStep, YieldStep, StartOverStep, BreakStep
<1>. QED
  BY <1>1, <1>2 DEF Step

LEMMA NextInv ==
  ASSUME GInv, [Next]_vars
  PROVE  GInv'
<1>1. ASSUME NEW r \in Requests, Check(r) \/ Put(r) \/ Expire(r) PROVE GInv'
  BY <1>1, CheckStep, PutStep, ExpireStep
<1>2. ASSUME NEW j \in Jobs, Abandon(j) PROVE GInv'
  BY <1>2, AbandonStep
<1>3. ASSUME Worker PROVE GInv'
  BY <1>3, BeginStep, FillStep, PopStep, ShowStep, TurnStep, LeaveStep, StayStep,
     FindDeferredStep, TakeDeferredStep, GetStep, BeginCallStep, EndCallStep DEF Worker
<1>4. ASSUME NEW k \in Closers, BeginClose(k) \/ Goes(k) PROVE GInv'
  BY <1>4, BeginCloseStep, SetClosedStep, LookActiveStep, CancelActiveStep, CancelSlotsStep,
     LookDeferredStep, StopDeferredStep, ForgetDeferredStep, DrainStep, DrainedStep,
     PutSentinelStep DEF Goes
<1>5. CASE UNCHANGED vars
  BY <1>5, StutterStep
<1>. QED
  BY <1>1, <1>2, <1>3, <1>4, <1>5 DEF Next

THEOREM Invariance == Spec => []GInv
<1>1. Init => GInv
  BY InitInv
<1>2. GInv /\ [Next]_vars => GInv'
  BY NextInv
<1>. QED
  BY <1>1, <1>2, PTL DEF Spec

\* Every variable of the scheduler keeps its type; the jobs in slots have slot numbers
\* of their own, whichever free slot _fill_active finds for the next one.
THEOREM TypeCorrect == Spec => []TypeOK
<1>1. GInv => TypeOK
  BY DEF GInv
<1>. QED
  BY <1>1, Invariance, PTL

LEMMA InOnePlace ==
  ASSUME GInv
  PROVE  NoneLost
<1>. USE GenerationSchedulerAssumption DEF GInv
<1>. SUFFICES ASSUME NEW r \in Requests, Waiting(r)
              PROVE  Cardinality({p \in {"queue", "slot", "hand", "deferred", "call"} :
                                     \/ p = "queue" /\ r \in ToSet(queue)
                                     \/ p = "slot" /\ r \in ToSet(slots)
                                     \/ p = "hand" /\ r \in hand
                                     \/ p = "deferred" /\ r \in deferred \ calling
                                     \/ p = "call" /\ r \in calling}) = 1
  BY DEF NoneLost
<1>. DEFINE Where == {p \in {"queue", "slot", "hand", "deferred", "call"} :
                          \/ p = "queue" /\ r \in ToSet(queue)
                          \/ p = "slot" /\ r \in ToSet(slots)
                          \/ p = "hand" /\ r \in hand
                          \/ p = "deferred" /\ r \in deferred \ calling
                          \/ p = "call" /\ r \in calling}
<1>1. r \in Queued \cup Seated \cup Taken /\ (r \in ToSet(queue) <=> r \in Queued)
  BY DEF Places, Queued
<1>2. Seated \subseteq Jobs /\ Taken \subseteq Calls
  BY DEF TypeOK, Seated, Taken, ToSet
<1>3. \E p : Where = {p}
  <2>1. CASE r \in Queued
    <3>1. r \notin Seated \cup Taken
      BY <2>1 DEF Places
    <3>2. Where = {"queue"}
      BY <1>1, <2>1, <3>1 DEF Seated, Taken
    <3>. QED
      BY <3>2
  <2>2. CASE r \in Seated
    <3>1. r \notin Queued /\ r \notin Taken
      BY <1>2, <2>2 DEF Places
    <3>2. Where = {"slot"} \/ Where = {"hand"}
      BY <1>1, <2>2, <3>1 DEF Seated, Taken, Places
    <3>. QED
      BY <3>2
  <2>3. CASE r \in Taken
    <3>1. r \notin Queued /\ r \notin Seated
      BY <1>2, <2>3 DEF Places
    <3>2. Where = {"deferred"} \/ Where = {"call"}
      BY <1>1, <2>3, <3>1 DEF Seated, Taken, Places
    <3>. QED
      BY <3>2
  <2>. QED
    BY <1>1, <2>1, <2>2, <2>3
<1>. HIDE DEF Where
<1>4. Cardinality(Where) = 1
  BY <1>3, FS_Singleton
<1>. QED
  BY <1>4 DEF Where

\* Whatever close does between the worker's steps, a request that waits for its answer
\* is in exactly one place of the scheduler (scheduler.py: _run, _fill_active, close).
THEOREM NothingLost == Spec => []NoneLost
<1>1. GInv => NoneLost
  BY InOnePlace
<1>. QED
  BY <1>1, Invariance, PTL

\* A lifecycle call runs while no generation has an iterator: the worker takes one
\* when its slots are empty, and a job it has dropped has had its iterator closed.
THEOREM CallsExclusive == Spec => []CallExclusive
<1>1. GInv => CallExclusive
  BY DEF GInv, Phases, Opens, Seated, ToSet, CallExclusive
<1>. QED
  BY <1>1, Invariance, PTL

\* A job accepted while a call waits starts when the call has been answered: the
\* queue is first in first out, and _fill_active does not pass a deferred call.
THEOREM CallsInOrder == Spec => []CallOrder
<1>1. GInv => CallOrder
  BY DEF GInv, Behind, Opens, CallOrder
<1>. QED
  BY <1>1, Invariance, PTL

\* An answered job leaves no iterator open, and none is open when the worker's
\* finalizer unloads the model: _step closes before it answers and _run leaves its
\* loop with empty slots.
THEOREM IteratorsAreClosed == Spec => []IteratorsClosed
<1>1. GInv => IteratorsClosed
  <2>. SUFFICES ASSUME GInv, NEW j \in Jobs, status[j] \in Answers \/ pc = "exited"
                PROVE  open[j] = 0
    BY DEF IteratorsClosed
  <2>1. j \notin Seated
    BY DEF GInv, Phases, Places, Seated, ToSet, Waiting, Answers
  <2>. QED
    BY <2>1 DEF GInv, Opens
<1>. QED
  BY <1>1, Invariance, PTL
=============================================================================
