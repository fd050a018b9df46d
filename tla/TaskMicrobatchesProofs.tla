----------------------- MODULE TaskMicrobatchesProofs -----------------------
(***************************************************************************)
(* Proofs about the task thread and the device it shares with other        *)
(* threads, for any number of tasks, operations and models and any limits. *)
(*                                                                         *)
(* The device keeps its promises although the task thread uses the name of *)
(* a call again and again: a call whose answer the thread has read is in   *)
(* no queue.  The inductive invariant of the thread says what it has in    *)
(* its hands at each of its steps, and that a call of its is on its way    *)
(* only while it waits for one.                                            *)
(***************************************************************************)
EXTENDS TaskMicrobatches, DeviceExecutorProofs

Places == {"idle", "check", "wait", "close", "closing", "settle", "ended"}
Phases == {"new", "refused", "queued", "running", "finished", "failed", "dropped"}

TTyped ==
    /\ tasked \in BOOLEAN /\ retired \in BOOLEAN /\ open \in BOOLEAN /\ left \in BOOLEAN
    /\ waiting \in Seq(Tasks) /\ group \in Seq(Tasks) /\ todo \in Seq(Tasks) /\ live \in Seq(Tasks)
    /\ step \in Places /\ phase \in [Tasks -> Phases]

\* Without a task thread nothing is submitted to it.
Absent == ~tasked => waiting = <<>> /\ step = "idle" /\ ~retired

\* What the thread has not looked at yet is queued, once, here or there.
Queued ==
    /\ IsInjective(waiting) /\ \A j \in ToSet(waiting) : phase[j] = "queued"
    /\ step = "check" =>
        IsInjective(todo) /\ \A j \in ToSet(todo) : phase[j] = "queued" /\ j \notin ToSet(waiting)

\* A group has one key, and the thread visits and uses its tasks only.
OneKey ==
    /\ step \in {"idle", "ended"} <=> group = <<>>
    /\ group = <<>> => live = <<>>
    /\ \A j \in ToSet(group) : ModelOf[j] = GroupKey
    /\ ToSet(todo) \subseteq ToSet(group) /\ ToSet(live) \subseteq ToSet(group)

\* From the first task that is found wanted until the group is settled, what its calls
\* use is running.
InUse ==
    /\ step \in {"check", "wait", "close", "closing"} => \A j \in ToSet(live) : phase[j] = "running"
    /\ step \in {"wait", "close", "closing"} => live # <<>> /\ todo = <<>>
    /\ open /\ ~left => /\ step \in {"check", "wait", "close", "closing"}
                        /\ live # <<>> /\ todo = <<>> /\ GroupKey \in Staged
    /\ step = "settle" /\ Steps /\ open => failing
    /\ step = "settle" => \A j \in ToSet(todo) : phase[j] \notin {"new", "queued"}

\* A call of the thread is on its way, or answered, only while the thread waits for it.
Called ==
    tasked => \A k \in Keys :
        status[CallOf[k]] # "new" => step \in {"wait", "closing"} /\ k = GroupKey

\* Where nothing is withdrawn, what waits or has been taken is still to be answered.
Unanswering ==
    tasked => \A o \in Ops : /\ Waits(o) \/ o \in taken => status[o] = "queued"
                             /\ o \in taken => ~Waits(o)

Hands == TTyped /\ Absent /\ Queued /\ OneKey /\ InUse

TInv == DInv /\ Hands /\ Called /\ Unanswering

-----------------------------------------------------------------------------
(* Sequences of tasks.                                                     *)

LEMMA AppendTask ==
  ASSUME NEW s \in Seq(Tasks), NEW j \in Tasks
  PROVE  /\ Append(s, j) \in Seq(Tasks) /\ ToSet(Append(s, j)) = ToSet(s) \cup {j}
         /\ Append(s, j) # <<>>
         /\ IsInjective(s) /\ j \notin ToSet(s) => IsInjective(Append(s, j))
<1>. DEFINE t == Append(s, j)
<1>1. /\ t \in Seq(Tasks) /\ Len(t) = Len(s) + 1 /\ t # <<>> /\ t[Len(t)] = j
      /\ DOMAIN s = 1 .. Len(s) /\ DOMAIN t = 1 .. Len(t) /\ Len(s) \in Nat
  OBVIOUS
<1>2. \A i \in DOMAIN t : (i \in DOMAIN s /\ t[i] = s[i]) \/ i = Len(t)
  BY <1>1
<1>3. \A i \in DOMAIN s : i \in DOMAIN t /\ t[i] = s[i]
  BY <1>1
<1>4. ToSet(t) = ToSet(s) \cup {j}
  BY <1>1, <1>2, <1>3 DEF ToSet
<1>5. IsInjective(s) /\ j \notin ToSet(s) => IsInjective(t)
  BY <1>1, <1>2 DEF IsInjective, ToSet
<1>. QED
  BY <1>1, <1>4, <1>5

LEMMA TailTask ==
  ASSUME NEW s \in Seq(Tasks), s # <<>>
  PROVE  /\ Tail(s) \in Seq(Tasks) /\ ToSet(Tail(s)) \subseteq ToSet(s) /\ Head(s) \in ToSet(s)
         /\ IsInjective(s) => IsInjective(Tail(s)) /\ Head(s) \notin ToSet(Tail(s))
<1>. DEFINE t == Tail(s)
<1>1. /\ t \in Seq(Tasks) /\ Len(t) = Len(s) - 1 /\ Len(s) \in Nat \ {0} /\ Head(s) = s[1]
      /\ DOMAIN s = 1 .. Len(s) /\ DOMAIN t = 1 .. Len(t)
  OBVIOUS
<1>2. \A i \in DOMAIN t : i + 1 \in DOMAIN s /\ t[i] = s[i + 1] /\ i # 0 /\ i \in Nat
  BY <1>1
<1>3. ToSet(t) \subseteq ToSet(s) /\ Head(s) \in ToSet(s)
  BY <1>1, <1>2 DEF ToSet
<1>4. ASSUME IsInjective(s) PROVE IsInjective(t) /\ Head(s) \notin ToSet(t)
  <2>1. \A i, k \in DOMAIN t : t[i] = t[k] => i + 1 = k + 1
    BY <1>2, <1>4 DEF IsInjective
  <2>2. IsInjective(t)
    BY <1>2, <2>1 DEF IsInjective
  <2>3. \A i \in DOMAIN t : t[i] = s[1] => i + 1 = 1
    BY <1>1, <1>2, <1>4 DEF IsInjective
  <2>. QED
    BY <1>1, <1>2, <2>2, <2>3 DEF ToSet
<1>. QED
  BY <1>1, <1>3, <1>4

\* The places of a selection, numbered in their order: every number up to theirs is
\* taken once.
LEMMA Numbered ==
  ASSUME NEW I, IsFiniteSet(I), I \subseteq Nat
  PROVE  LET N == Cardinality(I)
             nth == [n \in 1 .. N |-> CHOOSE i \in I : Cardinality({k \in I : k <= i}) = n] IN
         /\ N \in Nat
         /\ \A n \in 1 .. N : nth[n] \in I
         /\ \A n, m \in 1 .. N : nth[n] = nth[m] => n = m
         /\ \A i \in I : \E n \in 1 .. N : nth[n] = i
<1>. DEFINE N == Cardinality(I)
            U(i) == {k \in I : k <= i}
            rank == [i \in I |-> Cardinality(U(i))]
            nth == [n \in 1 .. N |-> CHOOSE i \in I : Cardinality(U(i)) = n]
<1>1. N \in Nat /\ IsFiniteSet(1 .. N) /\ Cardinality(1 .. N) = N
  BY FS_CardinalityType, FS_Interval
<1>2. \A i \in I : /\ U(i) \in SUBSET I /\ i \in U(i) /\ IsFiniteSet(U(i))
                   /\ Cardinality(U(i)) \in 1 .. N
  <2>. SUFFICES ASSUME NEW i \in I
                PROVE  /\ U(i) \in SUBSET I /\ i \in U(i) /\ IsFiniteSet(U(i))
                       /\ Cardinality(U(i)) \in 1 .. N
    OBVIOUS
  <2>1. U(i) \in SUBSET I /\ i \in U(i)
    OBVIOUS
  <2>2. IsFiniteSet(U(i)) /\ Cardinality(U(i)) <= N
    BY <2>1, FS_Subset
  <2>3. Cardinality(U(i)) \in Nat /\ Cardinality(U(i)) # 0
    BY <2>1, <2>2, FS_CardinalityType, FS_EmptySet
  <2>. QED
    BY <1>1, <2>1, <2>2, <2>3
<1>3. ASSUME NEW i \in I, NEW k \in I, i < k PROVE Cardinality(U(i)) # Cardinality(U(k))
  <2>0. i \in Nat /\ k \in Nat /\ \A m \in I : m \in Nat
    OBVIOUS
  <2>1. U(i) \in SUBSET U(k) /\ k \notin U(i)
    <3>1. \A m \in I : m <= i => m <= k
      BY <1>3, <2>0
    <3>2. ~(k <= i)
      BY <1>3, <2>0
    <3>. QED
      BY <3>1, <3>2
  <2>2. Cardinality(U(i)) = Cardinality(U(k)) => U(i) = U(k)
    BY <1>2, <2>1, FS_Subset
  <2>. QED
    BY <1>2, <2>1, <2>2
<1>4. \A i, k \in I : rank[i] = rank[k] => i = k
  BY <1>3
<1>5. rank \in Injection(I, 1 .. N)
  BY <1>2, <1>4 DEF Injection, IsInjective
<1>6. rank \in Surjection(I, 1 .. N)
  BY <1>1, <1>5, FS_Injection
<1>7. \A n \in 1 .. N : \E i \in I : Cardinality(U(i)) = n
  BY <1>6 DEF Surjection
<1>8. \A n \in 1 .. N : nth[n] \in I /\ rank[nth[n]] = n
  BY <1>7
<1>9. \A i \in I : rank[i] \in 1 .. N /\ nth[rank[i]] = i
  BY <1>2, <1>4, <1>8
<1>. HIDE DEF N, rank, nth
<1>10. \A n, m \in 1 .. N : nth[n] = nth[m] => n = m
  BY <1>8
<1>11. \A i \in I : \E n \in 1 .. N : nth[n] = i
  BY <1>9
<1>. QED
  BY <1>1, <1>8, <1>10, <1>11 DEF N, nth

LEMMA WaitingAtIs ==
  ASSUME waiting \in Seq(Tasks), IsInjective(waiting), NEW I \in SUBSET DOMAIN waiting
  PROVE  /\ WaitingAt(I) \in Seq(Tasks) /\ IsInjective(WaitingAt(I))
         /\ ToSet(WaitingAt(I)) = {waiting[i] : i \in I}
<1>. DEFINE N == Cardinality(I)
            nth == [n \in 1 .. N |-> CHOOSE i \in I : Cardinality({k \in I : k <= i}) = n]
            s == WaitingAt(I)
<1>1. DOMAIN waiting = 1 .. Len(waiting) /\ \A i \in DOMAIN waiting : waiting[i] \in Tasks
  OBVIOUS
<1>2. IsFiniteSet(I) /\ I \subseteq Nat
  BY <1>1, FS_Interval, FS_Subset
<1>3. /\ N \in Nat /\ \A n \in 1 .. N : nth[n] \in I
      /\ \A n, m \in 1 .. N : nth[n] = nth[m] => n = m
      /\ \A i \in I : \E n \in 1 .. N : nth[n] = i
  BY <1>2, Numbered
<1>4. s = [n \in 1 .. N |-> waiting[nth[n]]]
  BY DEF WaitingAt
<1>. HIDE DEF N, nth, s
<1>5. s \in Seq(Tasks) /\ DOMAIN s = 1 .. N
  BY <1>1, <1>3, <1>4
<1>6. IsInjective(s)
  BY <1>3, <1>4, <1>5 DEF IsInjective
<1>7. ToSet(s) = {waiting[i] : i \in I}
  <2>1. \A x \in ToSet(s) : x \in {waiting[i] : i \in I}
    BY <1>3, <1>4, <1>5 DEF ToSet
  <2>2. \A i \in I : waiting[i] \in ToSet(s)
    BY <1>3, <1>4, <1>5 DEF ToSet
  <2>. QED
    BY <2>1, <2>2
<1>. QED
  BY <1>5, <1>6, <1>7 DEF s

-----------------------------------------------------------------------------
(* The device, when the task thread uses it.                               *)

\* Unanswering, for one operation.
Open(o) == (Waits(o) \/ o \in taken => status[o] = "queued") /\ (o \in taken => ~Waits(o))

\* Steps after which nothing waits or is taken that did not before.
LEMMA OpenSame ==
  ASSUME UNCHANGED queues, taken' \subseteq taken, NEW o \in Ops, Open(o),
         status'[o] = status[o] \/ (~Waits(o) /\ o \notin taken')
  PROVE  Open(o)'
<1>1. Waits(o)' <=> Waits(o)
  BY DEF Waits
<1>. QED
  BY <1>1 DEF Open

LEMMA OpenSubmit ==
  ASSUME DInv, NEW o \in Ops, Submit(o), NEW p \in Ops, Open(p)
  PROVE  Open(p)'
<1>. USE DeviceExecutorAssumption
<1>1. Typed /\ QueuesInv /\ status[o] = "new" /\ taken' = taken
  BY DEF DInv, Submit
<1>2. status'[p] = status[p] \/ p = o
  BY <1>1 DEF Submit, Becomes, Typed
<1>3. CASE closed \/ pending >= QueueSize
  <2>1. UNCHANGED queues
    BY <1>3 DEF Submit
  <2>2. p = o => ~Waits(p) /\ p \notin taken
    BY <1>1 DEF Open
  <2>. QED
    BY <1>1, <1>2, <2>1, <2>2, OpenSame
<1>4. CASE ~(closed \/ pending >= QueueSize)
  <2>1. /\ queues' = [queues EXCEPT ![KeyOf[o]] = Append(@, o)]
        /\ status' = [status EXCEPT ![o] = "queued"]
    BY <1>4 DEF Submit, Becomes
  <2>2. Waiting' = Waiting \cup {o}
    BY <1>1, <2>1, Joins
  <2>3. Waits(p)' <=> Waits(p) \/ p = o
    BY <2>2 DEF Waiting
  <2>4. status'[o] = "queued" /\ o \notin taken'
    BY <1>1, <2>1 DEF Typed, QueuesInv
  <2>. QED
    BY <1>1, <1>2, <2>3, <2>4 DEF Open
<1>. QED
  BY <1>3, <1>4

LEMMA OpenTake ==
  ASSUME DInv, Take, \A o \in Ops : Open(o), NEW p \in Ops
  PROVE  Open(p)'
<1>. DEFINE k == Head(order)
            o == Head(queues[k])
<1>1. /\ k \in Keys /\ queues[k] # <<>> /\ queues' = [queues EXCEPT ![k] = Tail(@)]
      /\ status' = status /\ taken' = {o}
  BY TakeShape
<1>2. Waiting' = Waiting \ {o} /\ o \in Waiting
  BY <1>1, Leaves DEF DInv
<1>3. (Waits(p)' <=> Waits(p) /\ p # o) /\ Waits(o) /\ o \in Ops
  BY <1>2 DEF Waiting
<1>. QED
  BY <1>1, <1>3 DEF Open

\* Whatever the device or another thread does, beside the task thread.
LEMMA OpenStep ==
  ASSUME DInv, tasked, DeviceGoes \/ Others, \A o \in Ops : Open(o), NEW p \in Ops
  PROVE  Open(p)'
<1>0. Typed
  BY DEF DInv
<1>1. CASE Take
  BY <1>1, OpenTake
<1>2. ASSUME NEW o \in Ops, Start(o) PROVE Open(p)'
  <2>1. UNCHANGED queues /\ taken' = {} /\ o \in taken
    BY <1>2 DEF Start
  <2>2. status'[p] = status[p] \/ p = o
    BY <1>0, <1>2 DEF Start, Becomes, Typed
  <2>3. ~Waits(o)
    BY <2>1 DEF Open
  <2>. QED
    BY <2>1, <2>2, <2>3, OpenSame
<1>3. CASE Finish
  <2>1. UNCHANGED <<queues, taken>> /\ (status'[p] = status[p] \/ status[p] = "running")
    BY <1>0, <1>3 DEF Finish, Becomes, Typed
  <2>2. status[p] = "running" => ~Waits(p) /\ p \notin taken
    BY DEF Open
  <2>. QED
    BY <2>1, <2>2, OpenSame
<1>4. CASE Stop \/ Close
  <2>1. UNCHANGED <<queues, taken, status>>
    BY <1>4 DEF Stop, Close
  <2>. QED
    BY <2>1, OpenSame
<1>5. ASSUME NEW o \in Few, Submit(o) PROVE Open(p)'
  BY <1>5, TaskMicrobatchesAssumption, OpenSubmit
<1>. QED
  BY <1>1, <1>2, <1>3, <1>4, <1>5 DEF DeviceGoes, Others

\* No step of the device touches an operation that is new.
LEMMA NewStays ==
  ASSUME DInv, tasked, DeviceGoes \/ Others, \A o \in Ops : Open(o),
         NEW p \in Ops \ Few, status[p] = "new"
  PROVE  status'[p] = "new"
<1>0. Typed /\ QueuesInv
  BY DEF DInv
<1>1. ASSUME NEW o \in Ops, Start(o) PROVE status'[p] = status[p]
  <2>1. o # p
    BY <1>0, <1>1 DEF Start, QueuesInv
  <2>. QED
    BY <1>0, <1>1, <2>1 DEF Start, Becomes, Typed
<1>2. ASSUME NEW o \in Few, Submit(o) PROVE status'[p] = status[p]
  BY <1>0, <1>2 DEF Submit, Becomes, Typed
<1>3. CASE Take \/ Stop \/ Close
  BY <1>3 DEF Take, Stop, Close
<1>4. CASE Finish
  BY <1>0, <1>4 DEF Finish, Becomes, Typed
<1>. QED
  BY <1>1, <1>2, <1>3, <1>4 DEF DeviceGoes, Others

\* The name of a call whose answer has been read can be used again: it is in no queue.
LEMMA RenewKeeps ==
  ASSUME DInv, PlaceInv, \A p \in Ops : Open(p), NEW o \in Ops, Renew(o)
  PROVE  DInv' /\ PlaceInv' /\ \A p \in Ops : Open(p)'
<1>0. Typed /\ QueuesInv /\ OrderInv /\ DeviceExecutorAssumption
  BY DeviceExecutorAssumption DEF DInv
<1>1. /\ UNCHANGED <<queues, order, pending, closed, taken, running, stopped, cancel, passed>>
      /\ status' = [status EXCEPT ![o] = "new"] /\ status[o] \in Answers
      /\ earlier' = [p \in Ops |-> IF p = o THEN {} ELSE earlier[p] \ {o}]
  BY DEF Renew
<1>2. \A p \in Ops : status'[p] = IF p = o THEN "new" ELSE status[p]
  BY <1>0, <1>1 DEF Typed
<1>3. ~Waits(o) /\ o \notin taken
  BY <1>1 DEF Open, Answers
<1>4. \A p \in Ops : Waits(p)' <=> Waits(p)
  BY <1>1 DEF Waits
<1>5. \A p \in Ops : Open(p)'
  BY <1>1, <1>2, <1>3, OpenSame
<1>6. Typed'
  <2>1. status' \in [Ops -> Answers \cup {"new", "refused", "queued", "running"}]
    BY <1>0, <1>1 DEF Typed
  <2>2. earlier' \in [Ops -> SUBSET Ops]
    BY <1>0, <1>1 DEF Typed
  <2>. QED
    BY <1>0, <1>1, <2>1, <2>2 DEF Typed
<1>7. QueuesInv'
  <2>1. ASSUME NEW k \in Keys, NEW i \in 1 .. Len(queues[k])
        PROVE  queues[k][i] \in Ops \ {o}
    <3>1. queues[k][i] \in Ops /\ KeyOf[queues[k][i]] = k /\ i \in DOMAIN queues[k]
      BY <1>0 DEF Typed, QueuesInv
    <3>2. Waits(queues[k][i])
      BY <3>1 DEF Waits, ToSet
    <3>. QED
      BY <1>3, <3>1, <3>2
  <2>2. \A k \in Keys : \A i \in 1 .. Len(queues[k]) :
            KeyOf[queues[k][i]] = k /\ status'[queues[k][i]] # "new"
    BY <1>0, <1>2, <2>1 DEF QueuesInv
  <2>3. \A p \in taken : status'[p] # "new"
    BY <1>0, <1>2, <1>3 DEF QueuesInv, Typed
  <2>. QED
    BY <1>0, <1>1, <2>2, <2>3 DEF QueuesInv
<1>8. OrderInv'
  <2>1. Waiting' = Waiting
    BY <1>4 DEF Waiting
  <2>. QED
    BY <1>0, <1>1, <2>1 DEF OrderInv
<1>9. \A p \in Ops : earlier'[p] = IF p = o THEN {} ELSE earlier[p] \ {o}
  BY <1>1
<1>10. earlier \in [Ops -> SUBSET Ops] /\ queues \in [Keys -> Seq(Ops)]
  BY <1>0 DEF Typed
<1>11. PlaceInv'
  <2>1. \A p \in Ops : status'[p] = "new" => earlier'[p] = {}
    BY <1>2, <1>9 DEF PlaceInv
  <2>2. ASSUME NEW p \in Ops, NEW q \in earlier'[p] PROVE KeyOf[q] = KeyOf[p] /\ status'[q] # "new"
    <3>1. q \in earlier[p] /\ q # o /\ q \in Ops
      BY <1>9, <1>10
    <3>2. KeyOf[q] = KeyOf[p] /\ status[q] # "new"
      BY <3>1 DEF PlaceInv
    <3>. QED
      BY <1>2, <3>1, <3>2
  <2>3. \A k \in Keys : \A i, j \in 1 .. Len(queues[k]) :
            queues[k][j] \in earlier'[queues[k][i]] => j < i
    <3>1. \A k \in Keys : \A i \in 1 .. Len(queues[k]) : queues[k][i] \in Ops
      BY <1>10
    <3>2. \A p \in Ops : earlier'[p] \subseteq earlier[p]
      BY <1>9
    <3>. QED
      BY <3>1, <3>2 DEF PlaceInv
  <2>4. KeyOrder'
    <3>. SUFFICES ASSUME NEW p \in Ops, status'[p] # "new", ~Waits(p), NEW q \in earlier'[p]
                  PROVE  ~Waits(q)'
      BY <1>4 DEF KeyOrder
    <3>1. p # o /\ status[p] # "new" /\ q \in earlier[p] /\ q \in Ops
      BY <1>2, <1>9, <1>10
    <3>. QED
      BY <1>4, <3>1 DEF PlaceInv, KeyOrder
  <2>. QED
    BY <1>1, <2>1, <2>2, <2>3, <2>4 DEF PlaceInv
<1>. QED
  BY <1>5, <1>6, <1>7, <1>8, <1>11 DEF DInv

-----------------------------------------------------------------------------
(* What the task thread has in its hands.                                  *)

\* A group is of one model, whose calls have one name.
LEMMA GroupIs ==
  ASSUME Hands, group # <<>>
  PROVE  /\ tasked /\ GroupKey \in Keys /\ Call \in Ops \ Few
         /\ \A k \in Keys : CallOf[k] = Call => k = GroupKey
<1>. USE TaskMicrobatchesAssumption
<1>1. tasked
  BY DEF Hands, TTyped, Absent, OneKey
<1>2. Head(group) \in Tasks
  BY DEF Hands, TTyped
<1>3. GroupKey \in Keys
  BY <1>2 DEF GroupKey
<1>. QED
  BY <1>1, <1>3 DEF Call

LEMMA HandsSame ==
  ASSUME Hands, UNCHANGED <<tasked, waiting, group, todo, step, live, iterator, failing, phase>>,
         retired' = retired \/ (retired' = TRUE /\ tasked)
  PROVE  Hands'
<1>0. TTyped /\ Absent /\ Queued /\ OneKey /\ InUse
  BY DEF Hands
<1>1. GroupKey' = GroupKey /\ open' = open /\ left' = left
  BY DEF GroupKey, iterator
<1>2. TTyped' /\ Absent'
  <2>1. CASE retired' = retired
    BY <1>0, <1>1, <2>1 DEF TTyped, Absent
  <2>2. CASE retired' = TRUE /\ tasked
    <3>1. TTyped'
      BY <1>0, <1>1, <2>2 DEF TTyped
    <3>2. Absent'
      BY <1>0, <2>2 DEF Absent
    <3>. QED
      BY <3>1, <3>2
  <2>. QED
    BY <2>1, <2>2
<1>3. Queued' /\ OneKey'
  BY <1>0, <1>1 DEF Queued, OneKey
<1>4. InUse'
  BY <1>0, <1>1 DEF InUse, Steps
<1>. QED
  BY <1>2, <1>3, <1>4 DEF Hands

LEMMA HandsSubmit ==
  ASSUME Hands, NEW j \in Tasks, SubmitTask(j)
  PROVE  Hands'
<1>. USE DEF Hands
<1>1. /\ tasked /\ phase[j] = "new" /\ phase \in [Tasks -> Phases]
      /\ UNCHANGED <<tasked, group, todo, live, step, open, left, failing, retired>>
  BY DEF SubmitTask, TTyped, iterator
<1>2. GroupKey' = GroupKey
  BY <1>1 DEF GroupKey
<1>3. /\ phase'[j] \in {"queued", "refused"} /\ phase' \in [Tasks -> Phases]
      /\ \A i \in Tasks \ {j} : phase'[i] = phase[i]
  BY <1>1 DEF SubmitTask, Phase, Phases
<1>4. \/ waiting' = waiting
      \/ phase'[j] = "queued" /\ waiting' = Append(waiting, j)
  BY <1>1 DEF SubmitTask, Phase
<1>5. \A s \in Seq(Tasks) : ToSet(s) \subseteq Tasks
  BY DEF ToSet
<1>6. ToSet(waiting) \subseteq Tasks \ {j}
  BY <1>1, <1>5 DEF TTyped, Queued
<1>7. /\ waiting' \in Seq(Tasks) /\ IsInjective(waiting')
      /\ \A i \in ToSet(waiting') : i \in ToSet(waiting) \/ (i = j /\ phase'[j] = "queued")
  <2>1. waiting \in Seq(Tasks) /\ IsInjective(waiting)
    BY DEF TTyped, Queued
  <2>2. CASE waiting' = waiting
    BY <2>1, <2>2
  <2>3. CASE phase'[j] = "queued" /\ waiting' = Append(waiting, j)
    <3>1. /\ waiting' \in Seq(Tasks) /\ ToSet(waiting') = ToSet(waiting) \cup {j}
          /\ IsInjective(waiting')
      BY <1>6, <2>1, <2>3, AppendTask
    <3>. QED
      BY <2>3, <3>1
  <2>. QED
    BY <1>4, <2>2, <2>3
<1>8. TTyped' /\ Absent' /\ OneKey'
  BY <1>1, <1>2, <1>3, <1>7 DEF TTyped, Absent, OneKey
<1>9. Queued'
  <2>1. step = "check" => ToSet(todo) \subseteq Tasks \ {j}
    BY <1>1, <1>5 DEF TTyped, Queued
  <2>. QED
    BY <1>1, <1>3, <1>6, <1>7, <2>1 DEF Queued
<1>10. InUse'
  <2>1. step \in {"check", "wait", "close", "closing"} => ToSet(live) \subseteq Tasks \ {j}
    BY <1>1, <1>5 DEF TTyped, InUse
  <2>2. step = "settle" => ToSet(todo) \subseteq Tasks \ {j}
    BY <1>1, <1>5 DEF TTyped, InUse
  <2>. QED
    BY <1>1, <1>2, <1>3, <2>1, <2>2 DEF InUse, Steps
<1>. QED
  BY <1>8, <1>9, <1>10

\* The group is of one key, by the choice, and disjoint from what goes on waiting.
LEMMA HandsPick ==
  ASSUME Hands, Pick
  PROVE  Hands'
<1>. USE DEF Hands
<1>1. PICK I \in SUBSET DOMAIN waiting :
        /\ Grouped(I) /\ group' = WaitingAt(I) /\ todo' = group'
        /\ waiting' = WaitingAt(DOMAIN waiting \ I)
  BY DEF Pick
<1>2. /\ step = "idle" /\ waiting # <<>> /\ step' = "check"
      /\ UNCHANGED <<tasked, live, open, left, phase, retired>>
  BY DEF Pick, iterator
<1>3. /\ waiting \in Seq(Tasks) /\ IsInjective(waiting) /\ DOMAIN waiting = 1 .. Len(waiting)
      /\ 1 \in DOMAIN waiting /\ Head(waiting) = waiting[1] /\ tasked
  BY <1>2 DEF TTyped, Queued, Absent
<1>4. /\ group' \in Seq(Tasks) /\ IsInjective(group') /\ ToSet(group') = {waiting[i] : i \in I}
      /\ waiting' \in Seq(Tasks) /\ IsInjective(waiting')
      /\ ToSet(waiting') = {waiting[i] : i \in DOMAIN waiting \ I}
  BY <1>1, <1>3, WaitingAtIs
<1>5. ASSUME NEW i \in I PROVE ModelOf[waiting[i]] = ModelOf[Head(waiting)]
  <2>1. i \in DOMAIN waiting
    OBVIOUS
  <2>2. i = 1 \/ ModelOf[waiting[i]] = ModelOf[Head(waiting)]
    BY <1>1, <2>1 DEF Grouped
  <2>. QED
    BY <1>3, <2>2
<1>6. 1 \in I
  BY <1>1, <1>3 DEF Grouped
<1>7. group' # <<>> /\ GroupKey' = ModelOf[Head(waiting)]
  <2>1. waiting[1] \in ToSet(group')
    <3>1. waiting[1] \in {waiting[i] : i \in I}
      BY <1>6
    <3>. QED
      BY <1>4, <3>1
  <2>2. group' # <<>>
    BY <2>1 DEF ToSet
  <2>3. Head(group') \in ToSet(group')
    BY <1>4, <2>2, TailTask
  <2>. QED
    BY <1>4, <1>5, <2>2, <2>3 DEF GroupKey
<1>8. \A i \in DOMAIN waiting : waiting[i] \in ToSet(waiting)
  BY DEF ToSet
<1>9. ToSet(group') \subseteq ToSet(waiting) /\ ToSet(waiting') \subseteq ToSet(waiting)
  BY <1>4, <1>8
<1>10. ToSet(group') \cap ToSet(waiting') = {}
  BY <1>3, <1>4 DEF IsInjective
<1>11. live = <<>> /\ ToSet(live) = {} /\ ~(open /\ ~left)
  BY <1>2 DEF OneKey, InUse, TTyped, ToSet
<1>12. TTyped' /\ Absent'
  BY <1>1, <1>2, <1>3, <1>4 DEF TTyped, Absent, Places
<1>13. Queued'
  BY <1>1, <1>2, <1>4, <1>9, <1>10 DEF Queued
<1>14. OneKey'
  BY <1>1, <1>2, <1>4, <1>5, <1>7, <1>11 DEF OneKey
<1>15. InUse'
  BY <1>2, <1>11 DEF InUse
<1>. QED
  BY <1>12, <1>13, <1>14, <1>15

\* A task that is wanted joins those in use; one that is not leaves the group.
LEMMA HandsCheck ==
  ASSUME Hands, NEW j \in Tasks, Check(j)
  PROVE  Hands'
<1>. USE DEF Hands
<1>1. /\ step = "check" /\ todo # <<>> /\ j = Head(todo) /\ todo' = Tail(todo)
      /\ UNCHANGED <<tasked, waiting, group, step, open, left, retired>>
  BY DEF Check, Look, iterator
<1>2. \/ phase' = [phase EXCEPT ![j] = "dropped"] /\ live' = live
      \/ phase' = [phase EXCEPT ![j] = "running"] /\ live' = Append(live, j)
  BY DEF Check, End, Phase
<1>3. /\ GroupKey' = GroupKey /\ ~(open /\ ~left)
      /\ todo \in Seq(Tasks) /\ live \in Seq(Tasks) /\ phase \in [Tasks -> Phases]
  BY <1>1 DEF GroupKey, InUse, TTyped
<1>4. /\ todo' \in Seq(Tasks) /\ ToSet(todo') \subseteq ToSet(todo) /\ j \in ToSet(todo)
      /\ IsInjective(todo') /\ j \notin ToSet(todo')
  BY <1>1, <1>3, TailTask DEF Queued
<1>5. live' \in Seq(Tasks) /\ ToSet(live') \subseteq ToSet(live) \cup {j}
  BY <1>2, <1>3, AppendTask
<1>6. phase[j] = "queued" /\ j \notin ToSet(waiting) /\ j \notin ToSet(live)
  BY <1>1, <1>4 DEF Queued, InUse
<1>7. phase' \in [Tasks -> Phases] /\ \A i \in Tasks \ {j} : phase'[i] = phase[i]
  BY <1>2, <1>3 DEF Phases
<1>8. \A s \in Seq(Tasks) : ToSet(s) \subseteq Tasks
  BY DEF ToSet
<1>9. TTyped' /\ Absent'
  BY <1>1, <1>4, <1>5, <1>7 DEF TTyped, Absent
<1>10. Queued'
  <2>1. ToSet(waiting) \subseteq Tasks \ {j} /\ ToSet(todo') \subseteq Tasks \ {j}
    BY <1>4, <1>6, <1>8 DEF TTyped
  <2>. QED
    BY <1>1, <1>4, <1>7, <2>1 DEF Queued
<1>11. OneKey'
  <2>1. group # <<>> /\ ToSet(todo) \subseteq ToSet(group) /\ ToSet(live) \subseteq ToSet(group)
    BY <1>1 DEF OneKey
  <2>2. ToSet(todo') \subseteq ToSet(group) /\ ToSet(live') \subseteq ToSet(group)
    BY <1>4, <1>5, <2>1
  <2>. QED
    BY <1>1, <1>3, <2>1, <2>2 DEF OneKey
<1>12. InUse'
  <2>1. \A i \in ToSet(live) : phase[i] = "running" /\ i \in Tasks \ {j}
    BY <1>1, <1>3, <1>6, <1>8 DEF InUse
  <2>2. \A i \in ToSet(live') : phase'[i] = "running"
    <3>1. CASE live' = live
      BY <1>7, <2>1, <3>1
    <3>2. CASE phase' = [phase EXCEPT ![j] = "running"] /\ live' = Append(live, j)
      BY <1>3, <1>5, <1>7, <2>1, <3>2
    <3>. QED
      BY <1>2, <3>1, <3>2
  <2>. QED
    BY <1>1, <1>3, <2>2 DEF InUse
<1>. QED
  BY <1>9, <1>10, <1>11, <1>12

LEMMA HandsSettle ==
  ASSUME Hands, NEW j \in Tasks, Settle(j)
  PROVE  Hands'
<1>. USE DEF Hands
<1>1. /\ step = "settle" /\ todo # <<>> /\ j = Head(todo) /\ todo' = Tail(todo)
      /\ UNCHANGED <<tasked, waiting, group, live, step, open, left, failing, retired>>
  BY DEF Settle, Look, iterator
<1>2. \E p \in {"failed", "dropped", "finished"} : phase' = [phase EXCEPT ![j] = p]
  BY DEF Settle, End, Phase
<1>3. /\ GroupKey' = GroupKey /\ ~(open /\ ~left)
      /\ todo \in Seq(Tasks) /\ phase \in [Tasks -> Phases]
  BY <1>1 DEF GroupKey, InUse, TTyped
<1>4. /\ todo' \in Seq(Tasks) /\ ToSet(todo') \subseteq ToSet(todo) /\ j \in ToSet(todo)
  BY <1>1, <1>3, TailTask
<1>5. /\ phase' \in [Tasks -> Phases] /\ \A i \in Tasks \ {j} : phase'[i] = phase[i]
      /\ phase'[j] \notin {"new", "queued"}
  BY <1>2, <1>3 DEF Phases
<1>6. phase[j] # "queued"
  BY <1>1, <1>4 DEF InUse
<1>7. \A s \in Seq(Tasks) : ToSet(s) \subseteq Tasks
  BY DEF ToSet
<1>8. TTyped' /\ Absent'
  BY <1>1, <1>4, <1>5 DEF TTyped, Absent
<1>9. Queued'
  <2>1. ToSet(waiting) \subseteq Tasks \ {j}
    BY <1>6, <1>7 DEF TTyped, Queued
  <2>. QED
    BY <1>1, <1>5, <2>1 DEF Queued
<1>10. OneKey'
  BY <1>1, <1>3, <1>4 DEF OneKey
<1>11. InUse'
  <2>1. \A i \in ToSet(todo) : i \in Tasks /\ phase[i] \notin {"new", "queued"}
    BY <1>1, <1>3, <1>7 DEF InUse
  <2>2. \A i \in ToSet(todo') : phase'[i] \notin {"new", "queued"}
    BY <1>4, <1>5, <2>1
  <2>. QED
    BY <1>1, <1>3, <2>2 DEF InUse, Steps
<1>. QED
  BY <1>8, <1>9, <1>10, <1>11

\* From one call of the group to the next, and to its answers.
LEMMA HandsRuns ==
  ASSUME Hands, step \in {"check", "wait", "close", "closing"}, todo = <<>>, live # <<>>,
         UNCHANGED <<tasked, waiting, group, live, phase, retired>>,
         step' \in {"check", "wait", "close", "closing", "settle"},
         todo' = IF step' = "settle" THEN live ELSE todo,
         open' \in BOOLEAN, left' \in BOOLEAN,
         open' /\ ~left' => step' # "settle" /\ GroupKey \in Staged,
         step' = "settle" /\ Steps /\ open' => failing'
  PROVE  Hands'
<1>. USE DEF Hands
<1>1. /\ GroupKey' = GroupKey /\ ToSet(<<>>) = {}
      /\ ToSet(live) \subseteq ToSet(group) /\ group # <<>>
      /\ \A j \in ToSet(live) : phase[j] = "running"
  <2>1. ToSet(<<>>) = {}
    BY DEF ToSet
  <2>2. ToSet(live) \subseteq ToSet(group) /\ group # <<>>
    BY DEF OneKey
  <2>3. \A j \in ToSet(live) : phase[j] = "running"
    BY DEF InUse
  <2>. QED
    BY <2>1, <2>2, <2>3 DEF GroupKey
<1>2. tasked /\ IsInjective(<<>>)
  BY <1>1, GroupIs DEF IsInjective
<1>3. ToSet(todo') \subseteq ToSet(live) /\ (step' # "settle" => todo' = <<>>)
  BY <1>1
<1>4. TTyped' /\ Absent'
  BY <1>2 DEF TTyped, Absent, Places
<1>5. Queued'
  BY <1>1, <1>2, <1>3 DEF Queued
<1>6. OneKey'
  BY <1>1, <1>3 DEF OneKey
<1>7. InUse'
  BY <1>1, <1>3 DEF InUse, Steps
<1>. QED
  BY <1>4, <1>5, <1>6, <1>7

LEMMA HandsDone ==
  ASSUME Hands, GroupDone \/ ThreadEnds
  PROVE  Hands'
<1>. USE DEF Hands
<1>1. \A s : s = <<>> => ToSet(s) = {} /\ IsInjective(s)
  BY DEF ToSet, IsInjective
<1>2. CASE GroupDone
  <2>1. /\ group' = <<>> /\ live' = <<>> /\ step' = "idle" /\ todo' = <<>> /\ todo = <<>>
        /\ UNCHANGED <<tasked, waiting, open, left, phase, retired>>
    BY <1>2 DEF GroupDone, iterator
  <2>2. ~(open /\ ~left)
    BY <1>2, <2>1 DEF GroupDone, Emptied, InUse
  <2>. QED
    BY <1>1, <2>1, <2>2 DEF TTyped, Absent, Queued, OneKey, InUse, Places
<1>3. CASE ThreadEnds
  <2>1. /\ step = "idle" /\ step' = "ended" /\ retired
        /\ UNCHANGED <<tasked, waiting, group, todo, live, open, left, phase, retired>>
    BY <1>3 DEF ThreadEnds, MayEnd, iterator
  <2>2. GroupKey' = GroupKey
    BY <2>1 DEF GroupKey
  <2>. QED
    BY <2>1, <2>2 DEF TTyped, Absent, Queued, OneKey, InUse, Places
<1>. QED
  BY <1>2, <1>3

-----------------------------------------------------------------------------
(* Every step.                                                             *)

\* While the thread waits for no call, the names of its calls are free.
Free == \A k \in Keys : status[CallOf[k]] = "new"

LEMMA CalledIs ==
  ASSUME Hands, Called
  PROVE  /\ group # <<>> /\ step \notin {"wait", "closing"} => Free
         /\ group # <<>> => \A k \in Keys : status[CallOf[k]] # "new" => CallOf[k] = Call
<1>1. group # <<>> => tasked
  BY GroupIs
<1>. QED
  BY <1>1 DEF Called, Free, Call

\* What a step of the thread that asks for a call, or does not get it, does.
LEMMA AskDoes ==
  ASSUME TInv, group # <<>>, step \notin {"wait", "closing"}, UNCHANGED group,
         (Submit(Call) /\ step' \in {"wait", "closing"}) \/ UNCHANGED vars
  PROVE  DInv' /\ Called' /\ (tasked => \A p \in Ops : Open(p)')
<1>. USE TaskMicrobatchesAssumption
<1>1. /\ tasked /\ GroupKey \in Keys /\ Call \in Ops \ Few
      /\ \A k \in Keys : CallOf[k] = Call => k = GroupKey
  BY GroupIs DEF TInv
<1>2. GroupKey' = GroupKey /\ Free
  BY <1>1, CalledIs DEF TInv, GroupKey
<1>3. \A p \in Ops : Open(p)
  BY <1>1 DEF TInv, Unanswering, Open
<1>4. CASE Submit(Call) /\ step' \in {"wait", "closing"}
  <2>1. DInv'
    BY <1>1, <1>4, SubmitInv DEF TInv
  <2>2. \A p \in Ops : Open(p)'
    BY <1>1, <1>3, <1>4, OpenSubmit DEF TInv
  <2>3. \A k \in Keys : CallOf[k] # Call => status'[CallOf[k]] = "new"
    BY <1>1, <1>2, <1>4 DEF Submit, Becomes, Free, TInv, DInv, Typed
  <2>4. Called'
    BY <1>1, <1>2, <1>4, <2>3 DEF Called
  <2>. QED
    BY <2>1, <2>2, <2>4
<1>5. CASE UNCHANGED vars
  <2>1. DInv'
    BY <1>5, DStep DEF TInv
  <2>2. \A p \in Ops : Open(p)'
    BY <1>3, <1>5, OpenSame DEF vars
  <2>3. Called'
    BY <1>2, <1>5 DEF Called, Free, vars
  <2>. QED
    BY <2>1, <2>2, <2>3
<1>. QED
  BY <1>4, <1>5

LEMMA RenewDoes ==
  ASSUME TInv, PlaceInv, group # <<>>, Renew(Call)
  PROVE  DInv' /\ Called' /\ (tasked => \A p \in Ops : Open(p)')
<1>. USE TaskMicrobatchesAssumption
<1>1. tasked /\ Call \in Ops
  BY GroupIs DEF TInv
<1>2. \A p \in Ops : Open(p)
  BY <1>1 DEF TInv, Unanswering, Open
<1>3. DInv' /\ \A p \in Ops : Open(p)'
  BY <1>1, <1>2, RenewKeeps DEF TInv
<1>4. Free'
  <2>1. \A k \in Keys : status[CallOf[k]] # "new" => CallOf[k] = Call
    BY CalledIs DEF TInv
  <2>2. \A k \in Keys : status'[CallOf[k]] = IF CallOf[k] = Call THEN "new" ELSE status[CallOf[k]]
    BY DEF Renew, TInv, DInv, Typed
  <2>. QED
    BY <2>1, <2>2 DEF Free
<1>. QED
  BY <1>3, <1>4 DEF Called, Free

\* A step of the thread that leaves the device alone.
LEMMA ApartDoes ==
  ASSUME TInv, UNCHANGED vars, tasked' = tasked,
         UNCHANGED <<group, step>> \/ step \notin {"wait", "closing"}
  PROVE  DInv' /\ Called' /\ (tasked => \A p \in Ops : Open(p)')
<1>1. DInv'
  BY DStep DEF TInv
<1>2. tasked => \A p \in Ops : Open(p)'
  BY OpenSame DEF TInv, Unanswering, Open, vars
<1>3. Called'
  BY DEF TInv, Called, vars, GroupKey
<1>. QED
  BY <1>1, <1>2, <1>3

\* The steps of the task thread.
LEMMA ThreadStep ==
  ASSUME TInv, PlaceInv, ThreadGoes
  PROVE  Hands' /\ DInv' /\ Called' /\ (tasked => \A p \in Ops : Open(p)') /\ tasked' = tasked
<1>0. Hands /\ TTyped /\ OneKey /\ InUse
  BY DEF TInv, Hands
<1>1. CASE Pick
  <2>1. UNCHANGED vars /\ tasked' = tasked /\ step = "idle"
    BY <1>1 DEF Pick
  <2>. QED
    BY <1>0, <1>1, <2>1, HandsPick, ApartDoes
<1>2. ASSUME NEW j \in Tasks, Check(j)
      PROVE  Hands' /\ DInv' /\ Called' /\ (tasked => \A p \in Ops : Open(p)') /\ tasked' = tasked
  <2>1. UNCHANGED vars /\ tasked' = tasked /\ UNCHANGED <<group, step>>
    BY <1>2 DEF Check
  <2>. QED
    BY <1>0, <1>2, <2>1, HandsCheck, ApartDoes
<1>3. ASSUME NEW j \in Tasks, Settle(j)
      PROVE  Hands' /\ DInv' /\ Called' /\ (tasked => \A p \in Ops : Open(p)') /\ tasked' = tasked
  <2>1. UNCHANGED vars /\ tasked' = tasked /\ UNCHANGED <<group, step>>
    BY <1>3 DEF Settle
  <2>. QED
    BY <1>0, <1>3, <2>1, HandsSettle, ApartDoes
<1>4. CASE Run
  <2>1. /\ step = "check" /\ todo = <<>> /\ live # <<>>
        /\ open' = (open \/ Steps) /\ left' = (left /\ ~Steps)
        /\ UNCHANGED <<tasked, waiting, group, live, phase, retired>>
    BY <1>4 DEF Run
  <2>2. group # <<>>
    BY <1>0, <2>1 DEF OneKey
  <2>3. \/ Submit(Call) /\ step' = "wait"
        \/ UNCHANGED vars /\ step' = IF Steps THEN "close" ELSE "settle"
    BY <1>4 DEF Run, Ask, Refusal, After, Then
  <2>4. todo' = IF step' = "settle" THEN live ELSE todo
    BY <1>4 DEF Run, Ask, Refusal, After, Then
  <2>5. /\ open' \in BOOLEAN /\ left' \in BOOLEAN
        /\ open' /\ ~left' => step' # "settle" /\ GroupKey \in Staged
        /\ step' = "settle" => ~Steps
    <3>1. open \in BOOLEAN /\ left \in BOOLEAN /\ Steps \in BOOLEAN
      BY <1>0 DEF TTyped, Steps
    <3>2. step' = "settle" => ~Steps
      BY <2>3
    <3>3. open /\ ~left => Steps
      BY <1>0 DEF InUse, Steps
    <3>4. open' /\ ~left' => Steps
      BY <2>1, <3>3
    <3>. QED
      BY <2>1, <3>1, <3>2, <3>4 DEF Steps
  <2>6. Hands'
    BY <1>0, <2>1, <2>3, <2>4, <2>5, HandsRuns
  <2>. QED
    BY <2>1, <2>2, <2>3, <2>6, AskDoes
<1>5. CASE Returned
  <2>1. /\ step = "wait" /\ Renew(Call)
        /\ UNCHANGED <<tasked, waiting, group, live, phase, retired, open, left>>
    BY <1>5 DEF Returned, iterator
  <2>2. group # <<>> /\ live # <<>> /\ todo = <<>>
    BY <1>0, <2>1 DEF OneKey, InUse
  <2>3. step' = "check" \/ step' = IF Steps THEN "close" ELSE "settle"
    BY <1>5 DEF Returned, After, Then
  <2>4. todo' = IF step' = "settle" THEN live ELSE todo
    BY <1>5 DEF Returned, After, Then
  <2>5. /\ open' \in BOOLEAN /\ left' \in BOOLEAN
        /\ open' /\ ~left' => step' # "settle" /\ GroupKey \in Staged
        /\ step' = "settle" => ~Steps
    <3>1. step' = "settle" => ~Steps
      BY <2>3
    <3>2. open /\ ~left => Steps
      BY <1>0 DEF InUse, Steps
    <3>. QED
      BY <1>0, <2>1, <3>1, <3>2 DEF TTyped, Steps
  <2>6. Hands'
    BY <1>0, <2>1, <2>2, <2>3, <2>4, <2>5, HandsRuns
  <2>. QED
    BY <2>1, <2>2, <2>6, RenewDoes
<1>6. CASE CloseIterator
  <2>1. step = "close" /\ UNCHANGED <<tasked, waiting, group, live, phase, retired>>
    BY <1>6 DEF CloseIterator
  <2>2. group # <<>> /\ live # <<>> /\ todo = <<>>
    BY <1>0, <2>1 DEF OneKey, InUse
  <2>3. /\ open' = open
        /\ \/ Submit(Call) /\ step' = "closing" /\ left' = left
           \/ UNCHANGED vars /\ step' = "settle" /\ left' = TRUE /\ failing' = TRUE
    BY <1>6 DEF CloseIterator, Ask, Refusal, Then
  <2>4. todo' = IF step' = "settle" THEN live ELSE todo
    BY <1>6 DEF CloseIterator, Ask, Refusal, Then
  <2>5. /\ open' \in BOOLEAN /\ left' \in BOOLEAN
        /\ open' /\ ~left' => step' # "settle" /\ GroupKey \in Staged
        /\ step' = "settle" => failing'
    <3>1. open \in BOOLEAN /\ left \in BOOLEAN /\ (open /\ ~left => GroupKey \in Staged)
      BY <1>0 DEF InUse, TTyped
    <3>2. CASE step' = "closing" /\ left' = left
      BY <2>3, <3>1, <3>2
    <3>3. CASE step' = "settle" /\ left' = TRUE /\ failing' = TRUE
      BY <2>3, <3>1, <3>3
    <3>. QED
      BY <2>3, <3>2, <3>3
  <2>6. Hands'
    BY <1>0, <2>1, <2>2, <2>3, <2>4, <2>5, HandsRuns
  <2>. QED
    BY <2>1, <2>2, <2>3, <2>6, AskDoes
<1>7. CASE IteratorClosed
  <2>1. /\ step = "closing" /\ Renew(Call) /\ open' = FALSE /\ left' = left
        /\ UNCHANGED <<tasked, waiting, group, live, phase, retired>>
    BY <1>7 DEF IteratorClosed
  <2>2. group # <<>> /\ live # <<>> /\ todo = <<>>
    BY <1>0, <2>1 DEF OneKey, InUse
  <2>3. step' = "settle" /\ todo' = live
    BY <1>7 DEF IteratorClosed, Then
  <2>4. Hands'
    BY <1>0, <2>1, <2>2, <2>3, HandsRuns DEF TTyped
  <2>. QED
    BY <2>1, <2>2, <2>4, RenewDoes
<1>8. CASE GroupDone \/ ThreadEnds
  <2>1. UNCHANGED vars /\ tasked' = tasked /\ step \notin {"wait", "closing"}
    BY <1>8 DEF GroupDone, ThreadEnds, Emptied
  <2>. QED
    BY <1>0, <1>8, <2>1, HandsDone, ApartDoes
<1>. QED
  BY <1>1, <1>2, <1>3, <1>4, <1>5, <1>6, <1>7, <1>8 DEF ThreadGoes

\* The steps of submitters, and of whoever closes or cancels.
LEMMA ClientStep ==
  ASSUME TInv, Retire \/ \E j \in Tasks : SubmitTask(j) \/ Unwant(j)
  PROVE  Hands' /\ DInv' /\ Called' /\ (tasked => \A p \in Ops : Open(p)') /\ tasked' = tasked
<1>0. Hands
  BY DEF TInv
<1>1. ASSUME NEW j \in Tasks, SubmitTask(j)
      PROVE  Hands' /\ UNCHANGED <<vars, tasked, group, step>>
  BY <1>0, <1>1, HandsSubmit DEF SubmitTask
<1>2. ASSUME NEW j \in Tasks, Unwant(j)
      PROVE  Hands' /\ UNCHANGED <<vars, tasked, group, step>>
  <2>1. UNCHANGED <<tasked, waiting, group, todo, step, live, iterator, failing, phase,
                    retired, vars>>
    BY <1>2 DEF Unwant, thread
  <2>. QED
    BY <1>0, <2>1, HandsSame
<1>3. ASSUME Retire
      PROVE  Hands' /\ UNCHANGED <<vars, tasked, group, step>>
  <2>1. /\ UNCHANGED <<tasked, waiting, group, todo, step, live, iterator, failing, phase, vars>>
        /\ retired' = TRUE /\ tasked
    BY <1>3 DEF Retire, thread
  <2>. QED
    BY <1>0, <2>1, HandsSame
<1>4. Hands' /\ UNCHANGED <<vars, tasked, group, step>>
  BY <1>1, <1>2, <1>3
<1>. QED
  BY <1>4, ApartDoes

\* The device, and the other threads' use of it.
LEMMA DeviceStep ==
  ASSUME TInv, (DeviceGoes \/ Others) /\ UNCHANGED tasks
  PROVE  Hands' /\ DInv' /\ Called' /\ (tasked => \A p \in Ops : Open(p)') /\ tasked' = tasked
<1>. USE TaskMicrobatchesAssumption
<1>0. Hands /\ DInv
  BY DEF TInv
<1>1. UNCHANGED <<tasked, waiting, group, todo, step, live, iterator, failing, phase, retired>>
  BY DEF tasks, thread
<1>2. Hands'
  BY <1>0, <1>1, HandsSame
<1>3. Next
  BY DEF DeviceGoes, Others, Next, Device
<1>4. DInv'
  BY <1>0, <1>3, DStep
<1>5. ASSUME tasked PROVE \A p \in Ops : Open(p)'
  BY <1>0, <1>5, OpenStep DEF TInv, Unanswering, Open
<1>6. Called'
  <2>. SUFFICES ASSUME tasked, NEW k \in Keys, status'[CallOf[k]] # "new"
                PROVE  step \in {"wait", "closing"} /\ k = GroupKey
    BY <1>1 DEF Called, GroupKey
  <2>1. CallOf[k] \in Ops \ Few /\ \A p \in Ops : Open(p)
    BY DEF TInv, Unanswering, Open
  <2>2. status[CallOf[k]] # "new"
    BY <1>0, <2>1, NewStays
  <2>. QED
    BY <2>2 DEF TInv, Called
<1>. QED
  BY <1>1, <1>2, <1>4, <1>5, <1>6

LEMMA TStep ==
  ASSUME TInv, PlaceInv, [TaskNext]_tvars
  PROVE  TInv'
<1>1. CASE UNCHANGED tvars
  <2>1. /\ UNCHANGED <<tasked, waiting, group, todo, step, live, iterator, failing, phase, retired>>
        /\ UNCHANGED vars
    BY <1>1 DEF tvars, tasks, thread
  <2>2. Hands'
    BY <2>1, HandsSame DEF TInv
  <2>3. DInv' /\ Called' /\ (tasked => \A p \in Ops : Open(p)')
    BY <2>1, ApartDoes
  <2>. QED
    BY <2>1, <2>2, <2>3 DEF TInv, Unanswering, Open
<1>2. CASE TaskNext
  <2>1. Hands' /\ DInv' /\ Called' /\ (tasked => \A p \in Ops : Open(p)') /\ tasked' = tasked
    BY <1>2, DeviceStep, ThreadStep, ClientStep DEF TaskNext
  <2>. QED
    BY <2>1 DEF TInv, Unanswering, Open
<1>. QED
  BY <1>1, <1>2

\* For the device, a step is one of its own, or an answered call gives back its name.
LEMMA DeviceSees ==
  ASSUME TInv, [TaskNext]_tvars
  PROVE  [Next]_vars \/ (tasked /\ \E o \in Ops : Renew(o))
<1>. USE TaskMicrobatchesAssumption
<1>1. CASE UNCHANGED tvars
  BY <1>1 DEF tvars
<1>2. CASE DeviceGoes \/ Others
  BY <1>2 DEF DeviceGoes, Others, Next, Device
<1>3. CASE Retire \/ \E j \in Tasks : SubmitTask(j) \/ Unwant(j) \/ Check(j) \/ Settle(j)
  BY <1>3 DEF Retire, SubmitTask, Unwant, Check, Settle
<1>4. CASE Pick \/ GroupDone \/ ThreadEnds
  BY <1>4 DEF Pick, GroupDone, ThreadEnds
<1>5. CASE Run \/ CloseIterator \/ Returned \/ IteratorClosed
  <2>1. Submit(Call) \/ UNCHANGED vars \/ Renew(Call)
    BY <1>5 DEF Run, CloseIterator, Returned, IteratorClosed, Ask, Refusal
  <2>2. step \notin {"idle", "ended"}
    BY <1>5 DEF Run, CloseIterator, Returned, IteratorClosed
  <2>3. group # <<>>
    BY <2>2 DEF TInv, Hands, OneKey
  <2>4. tasked /\ Call \in Ops
    BY <2>3, GroupIs DEF TInv
  <2>. QED
    BY <2>1, <2>4 DEF Next
<1>. QED
  BY <1>1, <1>2, <1>3, <1>4, <1>5 DEF TaskNext, ThreadGoes

LEMMA PlaceKept ==
  ASSUME TInv, PlaceInv, [TaskNext]_tvars
  PROVE  PlaceInv'
<1>1. CASE [Next]_vars
  BY <1>1, PlaceStep DEF TInv
<1>2. ASSUME tasked, NEW o \in Ops, Renew(o) PROVE PlaceInv'
  BY <1>2, RenewKeeps DEF TInv, Unanswering, Open
<1>. QED
  BY <1>1, <1>2, DeviceSees

LEMMA BypassKept ==
  ASSUME TInv, BypassInv, [TaskNext]_tvars
  PROVE  BypassInv'
<1>1. CASE [Next]_vars
  BY <1>1, BypassStep DEF TInv
<1>2. ASSUME tasked, NEW o \in Ops, Renew(o) PROVE BypassInv'
  <2>1. UNCHANGED <<queues, order, passed>>
    BY <1>2 DEF Renew
  <2>. QED
    BY <2>1 DEF BypassInv, BypassOnce
<1>. QED
  BY <1>1, <1>2, DeviceSees

LEMMA TInit ==
  ASSUME TaskInit
  PROVE  TInv /\ PlaceInv /\ BypassInv
<1>1. DInv /\ PlaceInv /\ BypassInv
  BY DInit, PlaceInit, BypassInit DEF TaskInit
<1>2. \A s : s = <<>> => ToSet(s) = {} /\ IsInjective(s)
  BY DEF ToSet, IsInjective
<1>3. TTyped
  <2>1. <<>> \in Seq(Tasks) /\ [j \in Tasks |-> "new"] \in [Tasks -> Phases]
    BY DEF Phases
  <2>2. phase \in [Tasks -> Phases]
    BY <2>1 DEF TaskInit
  <2>3. /\ tasked \in BOOLEAN /\ retired \in BOOLEAN /\ open \in BOOLEAN /\ left \in BOOLEAN
        /\ step \in Places
    BY DEF TaskInit, Places
  <2>. QED
    BY <2>1, <2>2, <2>3 DEF TaskInit, TTyped
<1>4. Absent /\ Queued /\ OneKey /\ InUse
  BY <1>2 DEF TaskInit, Absent, Queued, OneKey, InUse
<1>5. \A o \in Ops : ~Waits(o) /\ o \notin taken
  BY DeviceExecutorAssumption DEF TaskInit, Init, Waits, ToSet
<1>6. Called
  <2>1. \A k \in Keys : CallOf[k] \in Ops
    BY TaskMicrobatchesAssumption
  <2>. QED
    BY <2>1 DEF TaskInit, Init, Called
<1>. QED
  BY <1>1, <1>3, <1>4, <1>5, <1>6 DEF TInv, Hands, Unanswering

\* The task thread is where its variables say, and no call of its is on its way but the
\* one it waits for; the device keeps its order meanwhile (_run of TaskMicrobatches as
\* a caller of DeviceExecutor.call).
THEOREM TaskInvariance == TaskSpec => [](TInv /\ PlaceInv)
<1>1. TaskInit => TInv /\ PlaceInv
  BY TInit
<1>2. TInv /\ PlaceInv /\ [TaskNext]_tvars => (TInv /\ PlaceInv)'
  BY TStep, PlaceKept
<1>. QED
  BY <1>1, <1>2, PTL DEF TaskSpec

\* While a call of the task thread waits for the device or runs there, and while an
\* iterator is open that the device has not refused to close, no task whose inputs it
\* uses has been answered, so that its inputs and the lease of the model are held; and
\* a group whose iterator the device refused to close only fails ("Completion includes
\* cleanup", _finish).
THEOREM TasksHoldTheirLease == TaskSpec => []LeasedWhileUsed
<1>1. TInv => LeasedWhileUsed
  <2>. SUFFICES ASSUME TInv PROVE LeasedWhileUsed
    OBVIOUS
  <2>0. Hands /\ OneKey /\ InUse /\ Called
    BY DEF TInv, Hands
  <2>1. ASSUME tasked, NEW k \in Keys, Uses(k)
        PROVE  live # <<>> /\ \A j \in ToSet(live) : phase[j] = "running" /\ ModelOf[j] = k
    <3>1. /\ GroupKey = k /\ live # <<>>
          /\ step \in {"check", "wait", "close", "closing"}
      BY <2>0, <2>1 DEF Called, InUse, Uses
    <3>2. \A j \in ToSet(live) : phase[j] = "running" /\ j \in ToSet(group)
      BY <2>0, <3>1 DEF InUse, OneKey
    <3>. QED
      BY <2>0, <3>1, <3>2 DEF OneKey
  <2>2. step = "settle" /\ Steps /\ open => failing
    BY <2>0 DEF InUse
  <2>. QED
    BY <2>1, <2>2 DEF LeasedWhileUsed
<1>. QED
  BY <1>1, TaskInvariance, PTL

\* What the device promises holds in the composition too: types and counts, the order
\* of a model's operations, and fairness between models (submit and _run of
\* DeviceExecutor, called by the task thread and by others).
THEOREM DeviceServesTasks == TaskSpec => [](TypeOK /\ KeyOrder /\ BypassOnce)
<1>1. TaskInit => BypassInv
  BY TInit
<1>2. TInv /\ BypassInv /\ [TaskNext]_tvars => BypassInv'
  BY BypassKept
<1>3. TInv => TypeOK
  BY DTypeOK DEF TInv
<1>4. PlaceInv => KeyOrder
  BY DEF PlaceInv
<1>5. BypassInv => BypassOnce
  BY DEF BypassInv
<1>. QED
  BY <1>1, <1>2, <1>3, <1>4, <1>5, TaskInvariance, PTL DEF TaskSpec
=============================================================================
