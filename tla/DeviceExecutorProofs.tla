------------------------ MODULE DeviceExecutorProofs ------------------------
(***************************************************************************)
(* Proofs about DeviceExecutor for any number of models and operations and *)
(* any queue size.                                                         *)
(*                                                                         *)
(* The inductive invariant ties the three things the executor keeps of     *)
(* what is waiting: the queues, the dictionary of their keys and the       *)
(* count; and says where in its queue an operation is.                     *)
(***************************************************************************)
EXTENDS DeviceExecutor, FiniteSetTheorems, TLAPS

Waiting == {o \in Ops : Waits(o)}

\* An operation is in the queue of its own key, once, and has been submitted.
QueuesInv ==
    /\ \A k \in Keys : \A i \in 1 .. Len(queues[k]) :
        KeyOf[queues[k][i]] = k /\ status[queues[k][i]] # "new"
    /\ \A k \in Keys : \A i, j \in 1 .. Len(queues[k]) : queues[k][i] = queues[k][j] => i = j
    /\ \A o \in taken : status[o] # "new"

\* The dictionary and the count agree with the queues.
OrderInv ==
    /\ \A i, j \in 1 .. Len(order) : order[i] = order[j] => i = j
    /\ \A k \in Keys : queues[k] # <<>> <=> \E i \in 1 .. Len(order) : order[i] = k
    /\ pending = Cardinality(Waiting) /\ pending <= QueueSize

Typed ==
    /\ queues \in [Keys -> Seq(Ops)] /\ order \in Seq(Keys) /\ pending \in Nat
    /\ closed \in BOOLEAN /\ stopped \in BOOLEAN
    /\ taken \subseteq Ops /\ running \in Seq(Ops)
    /\ status \in [Ops -> Answers \cup {"new", "refused", "queued", "running"}]
    /\ cancel \subseteq Ops
    /\ earlier \in [Ops -> SUBSET Ops] /\ passed \in [Keys -> [Keys -> Nat]]

DInv == Typed /\ QueuesInv /\ OrderInv

-----------------------------------------------------------------------------
(* What waits.                                                             *)

LEMMA WaitingFinite == IsFiniteSet(Waiting)
  BY DeviceExecutorAssumption, FS_Subset DEF Waiting

\* An operation that joins a queue was in none.
LEMMA Joins ==
  ASSUME Typed, QueuesInv, NEW o \in Ops, status[o] = "new",
         queues' = [queues EXCEPT ![KeyOf[o]] = Append(@, o)]
  PROVE  Waiting' = Waiting \cup {o} /\ o \notin Waiting
<1>. USE DeviceExecutorAssumption
<1>. DEFINE k == KeyOf[o]
<1>1. k \in Keys /\ queues[k] \in Seq(Ops)
  BY DEF Typed
<1>2. queues'[k] = Append(queues[k], o) /\ \A m \in Keys \ {k} : queues'[m] = queues[m]
  BY <1>1 DEF Typed
<1>3. ToSet(queues'[k]) = ToSet(queues[k]) \cup {o}
  BY <1>1, <1>2 DEF ToSet
<1>4. o \notin ToSet(queues[k])
  BY <1>1 DEF QueuesInv, ToSet
<1>5. \A p \in Ops : Waits(p)' <=> Waits(p) \/ p = o
  BY <1>2, <1>3 DEF Waits
<1>. QED
  BY <1>4, <1>5 DEF Waiting, Waits

\* The operation at the head of a queue leaves it, and no other does.
LEMMA Leaves ==
  ASSUME Typed, QueuesInv, NEW k \in Keys, queues[k] # <<>>,
         queues' = [queues EXCEPT ![k] = Tail(@)]
  PROVE  Waiting' = Waiting \ {Head(queues[k])} /\ Head(queues[k]) \in Waiting
<1>. USE DeviceExecutorAssumption
<1>. DEFINE o == Head(queues[k])
<1>1. queues[k] \in Seq(Ops) /\ Len(queues[k]) > 0 /\ o \in Ops /\ o = queues[k][1] /\ KeyOf[o] = k
  <2>1. queues[k] \in Seq(Ops)
    BY DEF Typed
  <2>2. Len(queues[k]) > 0 /\ o \in Ops /\ o = queues[k][1] /\ 1 \in 1 .. Len(queues[k])
    BY <2>1
  <2>3. KeyOf[queues[k][1]] = k
    BY <2>2 DEF QueuesInv
  <2>. QED
    BY <2>1, <2>2, <2>3
<1>2. queues'[k] = Tail(queues[k]) /\ \A m \in Keys \ {k} : queues'[m] = queues[m]
  BY DEF Typed
<1>3. ToSet(Tail(queues[k])) = ToSet(queues[k]) \ {o}
  <2>1. ASSUME NEW p \in ToSet(Tail(queues[k])) PROVE p \in ToSet(queues[k]) /\ p # o
    <3>1. PICK i \in 1 .. Len(queues[k]) - 1 : p = queues[k][i + 1]
      BY <1>1, <2>1 DEF ToSet
    <3>. QED
      BY <1>1, <3>1 DEF ToSet, QueuesInv
  <2>2. ASSUME NEW p \in ToSet(queues[k]), p # o PROVE p \in ToSet(Tail(queues[k]))
    <3>1. PICK i \in 1 .. Len(queues[k]) : p = queues[k][i]
      BY <1>1, <2>2 DEF ToSet
    <3>2. i - 1 \in 1 .. Len(Tail(queues[k])) /\ Tail(queues[k])[i - 1] = p
      BY <1>1, <2>2, <3>1
    <3>3. i - 1 \in DOMAIN Tail(queues[k])
      BY <1>1, <3>2
    <3>. QED
      BY <3>2, <3>3 DEF ToSet
  <2>. QED
    BY <2>1, <2>2
<1>4. \A p \in Ops : Waits(p)' <=> Waits(p) /\ p # o
  BY <1>1, <1>2, <1>3 DEF Waits
<1>5. Waits(o)
  BY <1>1 DEF Waits, ToSet
<1>. QED
  BY <1>1, <1>4, <1>5 DEF Waiting

-----------------------------------------------------------------------------
(* The inductive invariant.                                                *)

\* Steps that leave the queues, the dictionary and the count alone.
LEMMA InvSame ==
  ASSUME DInv, UNCHANGED <<queues, order, pending>>, Typed',
         \A o \in Ops : status'[o] = "new" => status[o] = "new",
         taken' \subseteq taken
  PROVE  DInv'
<1>1. QueuesInv'
  BY DEF DInv, Typed, QueuesInv
<1>2. Waiting' = Waiting
  BY DEF Waiting, Waits
<1>. QED
  BY <1>1, <1>2 DEF DInv, OrderInv

LEMMA SubmitInv ==
  ASSUME DInv, NEW o \in Ops, Submit(o)
  PROVE  DInv'
<1>. USE DeviceExecutorAssumption
<1>. DEFINE k == KeyOf[o]
<1>0. Typed /\ k \in Keys /\ queues[k] \in Seq(Ops) /\ Append(queues[k], o) \in Seq(Ops)
  BY DEF DInv, Typed
<1>1. Typed'
  <2>1. queues' \in [Keys -> Seq(Ops)]
    BY <1>0 DEF Submit, Typed
  <2>2. order' \in Seq(Keys) /\ pending' \in Nat
    <3>1. AddKey(k) \in Seq(Keys) /\ pending + 1 \in Nat
      BY <1>0 DEF Typed, AddKey
    <3>. QED
      BY <1>0, <3>1 DEF Submit, Typed
  <2>3. status' \in [Ops -> Answers \cup {"new", "refused", "queued", "running"}]
    BY <1>0 DEF Submit, Typed, Becomes
  <2>4. earlier' \in [Ops -> SUBSET Ops]
    <3>1. ToSet(queues[k]) \in SUBSET Ops
      BY <1>0 DEF ToSet
    <3>. QED
      BY <1>0, <3>1 DEF Submit, Typed, history
  <2>5. passed' \in [Keys -> [Keys -> Nat]]
    <3>1. [passed EXCEPT ![k] = [m \in Keys |-> 0]] \in [Keys -> [Keys -> Nat]]
      BY <1>0 DEF Typed
    <3>2. passed' = passed \/ passed' = [passed EXCEPT ![k] = [m \in Keys |-> 0]]
      BY DEF Submit, history
    <3>. QED
      BY <1>0, <3>1, <3>2 DEF Typed
  <2>. QED
    BY <1>0, <2>1, <2>2, <2>3, <2>4, <2>5 DEF Submit, Typed
<1>2. CASE closed \/ pending >= QueueSize
  BY <1>1, <1>2, InvSame DEF Submit, Becomes, DInv, Typed
<1>3. CASE ~(closed \/ pending >= QueueSize)
  <2>1. /\ status[o] = "new" /\ k \in Keys
        /\ queues' = [queues EXCEPT ![k] = Append(@, o)]
        /\ order' = AddKey(k) /\ pending' = pending + 1
        /\ status' = [status EXCEPT ![o] = "queued"] /\ taken' = taken
    BY <1>3 DEF Submit, Becomes
  <2>2. QueuesInv'
    <3>1. queues'[k] = Append(queues[k], o) /\ \A m \in Keys \ {k} : queues'[m] = queues[m]
      BY <2>1 DEF DInv, Typed
    <3>2. \A p \in Ops : status[p] # "new" => status'[p] # "new"
      BY <2>1 DEF DInv, Typed
    <3>3. status'[o] # "new"
      BY <2>1 DEF DInv, Typed
    <3>4. queues[k] \in Seq(Ops) /\ \A i \in 1 .. Len(queues[k]) : queues[k][i] # o
      BY ZenonT(60), <2>1 DEF DInv, Typed, QueuesInv
    <3>5. \A m \in Keys : \A i \in 1 .. Len(queues[m]) : queues[m][i] \in Ops
      BY DEF DInv, Typed
    <3>6. \A i \in 1 .. Len(queues'[k]) :
             \/ i \in 1 .. Len(queues[k]) /\ queues'[k][i] = queues[k][i]
             \/ i = Len(queues[k]) + 1 /\ queues'[k][i] = o
      BY <3>1, <3>4
    <3>7. \A m \in Keys : \A i \in 1 .. Len(queues'[m]) :
             KeyOf[queues'[m][i]] = m /\ status'[queues'[m][i]] # "new"
      <4>. SUFFICES ASSUME NEW m \in Keys, NEW i \in 1 .. Len(queues'[m])
                    PROVE  KeyOf[queues'[m][i]] = m /\ status'[queues'[m][i]] # "new"
        OBVIOUS
      <4>1. CASE m = k /\ i = Len(queues[k]) + 1 /\ queues'[k][i] = o
        BY <3>3, <4>1
      <4>2. CASE i \in 1 .. Len(queues[m]) /\ queues'[m][i] = queues[m][i]
        <5>1. KeyOf[queues[m][i]] = m /\ status[queues[m][i]] # "new" /\ queues[m][i] \in Ops
          BY <3>5, <4>2 DEF DInv, QueuesInv
        <5>. QED
          BY <3>2, <4>2, <5>1
      <4>. QED
        BY <3>1, <3>6, <4>1, <4>2
    <3>8. \A m \in Keys : \A i, j \in 1 .. Len(queues'[m]) : queues'[m][i] = queues'[m][j] => i = j
      <4>. SUFFICES ASSUME NEW m \in Keys, NEW i \in 1 .. Len(queues'[m]),
                           NEW j \in 1 .. Len(queues'[m]), queues'[m][i] = queues'[m][j]
                    PROVE  i = j
        OBVIOUS
      <4>1. CASE m # k
        <5>1. queues'[m] = queues[m]
          BY <3>1, <4>1
        <5>. QED
          BY <5>1 DEF DInv, QueuesInv
      <4>2. CASE m = k
        <5>1. \A n, l \in 1 .. Len(queues[k]) : queues[k][n] = queues[k][l] => n = l
          BY <2>1 DEF DInv, QueuesInv
        <5>. QED
          BY <3>4, <3>6, <4>2, <5>1
      <4>. QED
        BY <4>1, <4>2
    <3>. QED
      BY <2>1, <3>2, <3>7, <3>8 DEF DInv, Typed, QueuesInv
  <2>3. pending' = Cardinality(Waiting') /\ pending' <= QueueSize
    <3>1. Waiting' = Waiting \cup {o} /\ o \notin Waiting
      BY <2>1, Joins DEF DInv
    <3>2. Cardinality(Waiting') = Cardinality(Waiting) + 1
      BY <3>1, WaitingFinite, FS_AddElement
    <3>. QED
      BY <1>0, <1>3, <2>1, <3>2 DEF DInv, OrderInv, Typed
  <2>6. queues'[k] # <<>> /\ \A m \in Keys \ {k} : queues'[m] = queues[m]
    BY SMTT(30), <1>0, <2>1 DEF Typed
  <2>4. CASE k \in ToSet(order)
    <3>1. order' = order
      BY <2>1, <2>4 DEF AddKey
    <3>2. PICK i \in DOMAIN order : order[i] = k
      BY <2>4 DEF ToSet
    <3>3. queues[k] # <<>>
      BY <1>0, <3>2 DEF DInv, OrderInv, Typed
    <3>4. \A m \in Keys : queues'[m] # <<>> <=> queues[m] # <<>>
      BY <3>3, <2>6
    <3>. QED
      BY <1>1, <2>2, <2>3, <3>1, <3>4 DEF DInv, OrderInv
  <2>5. CASE k \notin ToSet(order)
    <3>1. order' = Append(order, k) /\ order \in Seq(Keys)
      BY <2>1, <2>5 DEF AddKey, DInv, Typed
    <3>2. \A i \in 1 .. Len(order) : order[i] # k
      BY <2>5, <3>1 DEF ToSet
    <3>3. \A m \in Keys : queues'[m] # <<>> <=> queues[m] # <<>> \/ m = k
      BY <2>6
    <3>4. \A i, j \in 1 .. Len(order') : order'[i] = order'[j] => i = j
      BY <3>1, <3>2 DEF DInv, OrderInv
    <3>5. \A m \in Keys : (\E i \in 1 .. Len(order') : order'[i] = m)
                              <=> m = k \/ \E i \in 1 .. Len(order) : order[i] = m
      BY <3>1
    <3>. QED
      BY <1>1, <2>2, <2>3, <3>3, <3>4, <3>5 DEF DInv, OrderInv
  <2>. QED
    BY <2>4, <2>5
<1>. QED
  BY <1>2, <1>3

\* While the count is positive there is a key at the head of the dictionary, and an
\* operation waits under it.
LEMMA HeadWaits ==
  ASSUME DInv, pending > 0
  PROVE  /\ order # <<>> /\ Head(order) = order[1] /\ Head(order) \in Keys
         /\ queues[Head(order)] # <<>>
<1>. USE DeviceExecutorAssumption
<1>1. Waiting # {}
  <2>1. Cardinality(Waiting) # 0
    BY DEF DInv, OrderInv
  <2>. QED
    BY <2>1, FS_EmptySet
<1>2. PICK o \in Ops : Waits(o)
  BY <1>1 DEF Waiting
<1>3. queues[KeyOf[o]] # <<>>
  BY <1>2 DEF Waits, ToSet
<1>4. order # <<>> /\ order \in Seq(Keys)
  BY <1>3 DEF DInv, OrderInv, Typed
<1>. QED
  BY <1>4 DEF DInv, OrderInv

\* What Take does, with its head and tails written out.
LEMMA TakeShape ==
  ASSUME DInv, Take
  PROVE  LET k == Head(order) IN
         /\ order # <<>> /\ k = order[1] /\ k \in Keys /\ queues[k] # <<>>
         /\ queues' = [queues EXCEPT ![k] = Tail(@)]
         /\ order' = IF Tail(queues[k]) = <<>> THEN Tail(order) ELSE Append(Tail(order), k)
         /\ taken' = {Head(queues[k])} /\ pending' = pending - 1
         /\ status' = status /\ earlier' = earlier
  BY HeadWaits DEF Take, Popped, Served, DInv, Typed

LEMMA TakeInv ==
  ASSUME DInv, Take
  PROVE  DInv'
<1>. USE DeviceExecutorAssumption
<1>. DEFINE k == Head(order)
<1>1. /\ order # <<>> /\ k = order[1] /\ k \in Keys /\ queues[k] # <<>>
      /\ queues' = [queues EXCEPT ![k] = Tail(@)]
      /\ order' = IF Tail(queues[k]) = <<>> THEN Tail(order) ELSE Append(Tail(order), k)
      /\ taken' = {Head(queues[k])} /\ pending' = pending - 1 /\ status' = status
  BY TakeShape
<1>2. queues[k] \in Seq(Ops) /\ Len(queues[k]) > 0 /\ order \in Seq(Keys) /\ Len(order) > 0
  <2>1. queues[k] \in Seq(Ops) /\ order \in Seq(Keys)
    BY <1>1 DEF DInv, Typed
  <2>. QED
    BY <1>1, <2>1
<1>4. queues'[k] = Tail(queues[k]) /\ \A m \in Keys \ {k} : queues'[m] = queues[m]
  <2>1. queues \in [Keys -> Seq(Ops)]
    BY DEF DInv, Typed
  <2>. QED
    BY <1>1, <2>1
<1>3. Typed'
  <2>0. Typed /\ Tail(queues[k]) \in Seq(Ops) /\ Tail(order) \in Seq(Keys) /\ Head(queues[k]) \in Ops
    BY <1>2 DEF DInv
  <2>1. queues' \in [Keys -> Seq(Ops)]
    BY <1>1, <2>0 DEF Typed
  <2>2. order' \in Seq(Keys) /\ taken' \subseteq Ops
    BY <1>1, <2>0
  <2>3. pending' \in Nat
    BY <1>1, <2>0 DEF Take, Typed
  <2>4. passed' \in [Keys -> [Keys -> Nat]]
    <3>1. \A m \in Keys : passed[m] \in [Keys -> Nat] /\ \A n \in Keys : passed[m][n] + 1 \in Nat
      <4>1. passed \in [Keys -> [Keys -> Nat]]
        BY <2>0 DEF Typed
      <4>. QED
        BY <4>1
    <3>2. passed' = [m \in Keys |-> IF m = k THEN [n \in Keys |-> 0]
                                     ELSE IF queues[m] # <<>> THEN [passed[m] EXCEPT ![k] = @ + 1]
                                     ELSE passed[m]]
      BY DEF Take
    <3>. QED
      BY <1>1, <3>1, <3>2
  <2>. QED
    BY <2>0, <2>1, <2>2, <2>3, <2>4 DEF Take, Typed
<1>5. QueuesInv'
  <2>1. \A i \in 1 .. Len(Tail(queues[k])) : i + 1 \in 1 .. Len(queues[k]) /\ Tail(queues[k])[i] = queues[k][i + 1]
    BY <1>2
  <2>2. Head(queues[k]) = queues[k][1] /\ 1 \in 1 .. Len(queues[k])
    BY <1>2
  <2>. QED
    BY <1>1, <1>4, <2>1, <2>2 DEF DInv, QueuesInv
<1>6. pending' = Cardinality(Waiting') /\ pending' <= QueueSize
  <2>1. Waiting' = Waiting \ {Head(queues[k])} /\ Head(queues[k]) \in Waiting
    BY <1>1, Leaves DEF DInv
  <2>2. Cardinality(Waiting') = Cardinality(Waiting) - 1
    BY <2>1, WaitingFinite, FS_RemoveElement
  <2>. QED
    BY <1>1, <2>2 DEF DInv, OrderInv, Typed
<1>7. \A i \in 1 .. Len(Tail(order)) : i + 1 \in 1 .. Len(order) /\ Tail(order)[i] = order[i + 1]
  BY <1>2
<1>8. \A i \in 1 .. Len(Tail(order)) : Tail(order)[i] # k
  BY <1>1, <1>2, <1>7 DEF DInv, OrderInv
<1>9. \A m \in Keys \ {k} : (\E i \in 1 .. Len(order) : order[i] = m)
                                <=> \E i \in 1 .. Len(Tail(order)) : Tail(order)[i] = m
  <2>. SUFFICES ASSUME NEW m \in Keys \ {k}, NEW i \in 1 .. Len(order), order[i] = m
                PROVE  \E j \in 1 .. Len(Tail(order)) : Tail(order)[j] = m
    BY <1>7
  <2>1. i - 1 \in 1 .. Len(Tail(order)) /\ Tail(order)[i - 1] = m
    BY <1>1, <1>2
  <2>. QED
    BY <2>1
<1>10. CASE Tail(queues[k]) = <<>>
  <2>1. order' = Tail(order)
    BY <1>1, <1>10
  <2>2. \A i, j \in 1 .. Len(order') : order'[i] = order'[j] => i = j
    BY <1>7, <2>1 DEF DInv, OrderInv
  <2>3. \A m \in Keys : queues'[m] # <<>> <=> \E i \in 1 .. Len(order') : order'[i] = m
    <3>. SUFFICES ASSUME NEW m \in Keys
                  PROVE  queues'[m] # <<>> <=> \E i \in 1 .. Len(Tail(order)) : Tail(order)[i] = m
      BY <2>1
    <3>1. CASE m = k
      BY <1>4, <1>8, <1>10, <3>1
    <3>2. CASE m # k
      <4>1. queues[m] # <<>> <=> \E i \in 1 .. Len(order) : order[i] = m
        BY DEF DInv, OrderInv
      <4>2. queues'[m] = queues[m] /\ m \in Keys \ {k}
        BY <1>4, <3>2
      <4>. QED
        BY <1>9, <4>1, <4>2
    <3>. QED
      BY <3>1, <3>2
  <2>. QED
    BY <1>3, <1>5, <1>6, <2>2, <2>3 DEF DInv, OrderInv
<1>11. CASE Tail(queues[k]) # <<>>
  <2>1. order' = Append(Tail(order), k) /\ Tail(order) \in Seq(Keys)
    BY <1>1, <1>2, <1>11
  <2>2. \A i, j \in 1 .. Len(Tail(order)) : Tail(order)[i] = Tail(order)[j] => i = j
    BY <1>7 DEF DInv, OrderInv
  <2>3. \A i, j \in 1 .. Len(order') : order'[i] = order'[j] => i = j
    BY <1>8, <2>1, <2>2
  <2>4. \A m \in Keys : (\E i \in 1 .. Len(order') : order'[i] = m)
                            <=> m = k \/ \E i \in 1 .. Len(Tail(order)) : Tail(order)[i] = m
    <3>1. PICK s \in Seq(Keys) : s = Tail(order)
      BY <2>1
    <3>2. order' = Append(s, k)
      BY <2>1, <3>1
    <3>3. \A m \in Keys : (\E i \in 1 .. Len(order') : order'[i] = m)
                              <=> m = k \/ \E i \in 1 .. Len(s) : s[i] = m
      <4>1. PICK e \in Keys : e = k
        BY <1>1
      <4>2. order' = Append(s, e)
        BY <3>2, <4>1
      <4>3. /\ Len(s) \in Nat /\ Len(order') = Len(s) + 1 /\ order'[Len(s) + 1] = e
            /\ \A i \in 1 .. Len(s) : order'[i] = s[i]
        BY <4>2
      <4>. HIDE DEF k
      <4>. QED
        BY <4>1, <4>3
    <3>. QED
      BY <3>1, <3>3
  <2>5. \A m \in Keys : queues'[m] # <<>> <=> \E i \in 1 .. Len(order') : order'[i] = m
    BY <1>1, <1>4, <1>9, <1>11, <2>4 DEF DInv, OrderInv
  <2>. QED
    BY <1>3, <1>5, <1>6, <2>3, <2>5 DEF DInv, OrderInv
<1>. QED
  BY <1>10, <1>11

LEMMA DStep ==
  ASSUME DInv, [Next]_vars
  PROVE  DInv'
<1>. USE DeviceExecutorAssumption
<1>0. Typed
  BY DEF DInv
<1>1. ASSUME NEW o \in Ops, Submit(o) PROVE DInv'
  BY <1>1, SubmitInv
<1>2. ASSUME NEW o \in Ops, Cancel(o) PROVE DInv'
  <2>1. Typed'
    BY <1>0, <1>2 DEF Typed, Cancel, history
  <2>. QED
    BY <1>2, <2>1, InvSame DEF Cancel
<1>3. ASSUME NEW o \in Ops, Withdraw(o) PROVE DInv'
  <2>1. Typed'
    BY <1>0, <1>3 DEF Typed, Withdraw, Becomes, Answers, history
  <2>. QED
    BY <1>0, <1>3, <2>1, InvSame DEF Withdraw, Becomes, Typed
<1>4. ASSUME Close PROVE DInv'
  <2>1. Typed'
    BY <1>0, <1>4 DEF Typed, Close, history
  <2>. QED
    BY <1>4, <2>1, InvSame DEF Close
<1>5. ASSUME Take PROVE DInv'
  BY <1>5, TakeInv
<1>6. ASSUME NEW o \in Ops, Start(o) PROVE DInv'
  <2>1. Typed'
    <3>1. <<o>> \in Seq(Ops) /\ o \in Ops
      OBVIOUS
    <3>2. status' \in [Ops -> Answers \cup {"new", "refused", "queued", "running"}]
      BY <1>0, <1>6 DEF Typed, Start, Becomes, Answers
    <3>3. running' \in Seq(Ops)
      BY <1>0, <1>6, <3>1 DEF Typed, Start
    <3>. QED
      BY <1>0, <1>6, <3>2, <3>3 DEF Typed, Start, history
  <2>. QED
    BY <1>0, <1>6, <2>1, InvSame DEF Start, Becomes, Typed
<1>7. ASSUME NEW o \in Ops, Nest(o) PROVE DInv'
  <2>1. Typed'
    <3>1. Append(running, o) \in Seq(Ops)
      BY <1>0 DEF Typed
    <3>2. status' \in [Ops -> Answers \cup {"new", "refused", "queued", "running"}]
      BY <1>0, <1>7 DEF Typed, Nest, Nested, Becomes, Answers
    <3>3. running' \in Seq(Ops)
      BY <1>0, <1>7, <3>1 DEF Typed, Nest, Nested
    <3>. QED
      BY <1>0, <1>7, <3>2, <3>3 DEF Typed, Nest, Nested, history
  <2>. QED
    BY <1>0, <1>7, <2>1, InvSame DEF Nest, Nested, Becomes, Typed
<1>8. ASSUME Finish PROVE DInv'
  <2>1. Typed'
    BY SMTT(30), <1>0, <1>8 DEF Typed, Finish, Becomes, Answers, Front, Last, history
  <2>. QED
    BY <1>0, <1>8, <2>1, InvSame DEF Finish, Becomes, Typed
<1>9. ASSUME Stop PROVE DInv'
  <2>1. Typed'
    BY <1>0, <1>9 DEF Typed, Stop, history
  <2>. QED
    BY <1>9, <2>1, InvSame DEF Stop
<1>10. ASSUME UNCHANGED vars PROVE DInv'
  <2>1. Typed'
    BY <1>0, <1>10 DEF Typed, vars
  <2>. QED
    BY <1>10, <2>1, InvSame DEF vars
<1>. QED
  BY <1>1, <1>2, <1>3, <1>4, <1>5, <1>6, <1>7, <1>8, <1>9, <1>10 DEF Next, Device

LEMMA DInit == Init => DInv
<1>. SUFFICES ASSUME Init PROVE DInv
  OBVIOUS
<1>1. Typed
  <2>1. queues \in [Keys -> Seq(Ops)] /\ order \in Seq(Keys) /\ running \in Seq(Ops)
    BY DEF Init
  <2>2. status \in [Ops -> Answers \cup {"new", "refused", "queued", "running"}]
    BY DEF Init
  <2>3. earlier \in [Ops -> SUBSET Ops] /\ passed \in [Keys -> [Keys -> Nat]]
    BY DEF Init
  <2>. QED
    BY <2>1, <2>2, <2>3 DEF Init, Typed
<1>2. QueuesInv
  BY DEF Init, QueuesInv
<1>3. Waiting = {}
  BY DeviceExecutorAssumption DEF Init, Waiting, Waits, ToSet
<1>4. OrderInv
  BY <1>3, FS_EmptySet, DeviceExecutorAssumption DEF Init, OrderInv
<1>. QED
  BY <1>1, <1>2, <1>4 DEF DInv

\* Queues, dictionary and count agree in every state, and what is queued is in the queue
\* of its own key, once (submit and the thread of the executor, under one lock).
THEOREM DInvariance == Spec => []DInv
  BY DInit, DStep, PTL DEF Spec

LEMMA DTypeOK == DInv => TypeOK
<1>. SUFFICES ASSUME DInv PROVE TypeOK
  OBVIOUS
<1>0. order \in Seq(Keys) /\ DOMAIN order = 1 .. Len(order)
  BY DEF DInv, Typed
<1>1. IsInjective(order)
  BY <1>0 DEF DInv, OrderInv, IsInjective
<1>2. ToSet(order) = {k \in Keys : queues[k] # <<>>}
  BY <1>0 DEF DInv, OrderInv, ToSet
<1>. QED
  BY <1>1, <1>2 DEF DInv, OrderInv, Typed, TypeOK, Waiting

\* Every variable has its type; the dictionary holds the keys with operations
\* waiting, once each, and _pending is the number of operations that wait, within
\* queue_size (submit, _run).
THEOREM TypeCorrect == Spec => []TypeOK
  BY DTypeOK, DInvariance, PTL

-----------------------------------------------------------------------------
(* Fairness between models.                                                *)

\* A key has not been served since whatever stands behind it began to wait.
BypassInv ==
    /\ BypassOnce
    /\ \A i, j \in 1 .. Len(order) : i <= j => passed[order[j]][order[i]] = 0

LEMMA BypassSubmit ==
  ASSUME DInv, BypassInv, NEW o \in Ops, Submit(o)
  PROVE  BypassInv'
<1>. USE DeviceExecutorAssumption
<1>. DEFINE k == KeyOf[o]
<1>1. Typed /\ k \in Keys /\ order \in Seq(Keys) /\ passed \in [Keys -> [Keys -> Nat]]
  BY DEF DInv, Typed
<1>2. CASE closed \/ pending >= QueueSize
  BY <1>2 DEF Submit, BypassInv, BypassOnce, history
<1>3. CASE ~(closed \/ pending >= QueueSize)
  <2>1. /\ queues' = [queues EXCEPT ![k] = Append(@, o)] /\ order' = AddKey(k)
        /\ passed' = IF queues[k] = <<>> THEN [passed EXCEPT ![k] = [m \in Keys |-> 0]] ELSE passed
    BY <1>3 DEF Submit
  <2>2. queues[k] # <<>> <=> \E i \in 1 .. Len(order) : order[i] = k
    BY <1>1 DEF DInv, OrderInv
  <2>3. k \in ToSet(order) <=> \E i \in 1 .. Len(order) : order[i] = k
    <3>1. DOMAIN order = 1 .. Len(order)
      BY <1>1
    <3>. QED
      BY <3>1 DEF ToSet
  <2>4. \A m \in Keys \ {k} : queues'[m] = queues[m]
    BY <1>1, <2>1 DEF Typed
  <2>5. CASE queues[k] # <<>>
    <3>1. order' = order /\ passed' = passed
      BY <2>1, <2>2, <2>3, <2>5 DEF AddKey
    <3>. QED
      BY <2>4, <2>5, <3>1 DEF BypassInv, BypassOnce
  <2>6. CASE queues[k] = <<>>
    <3>1. order' = Append(order, k) /\ passed' = [passed EXCEPT ![k] = [m \in Keys |-> 0]]
      BY <2>1, <2>2, <2>3, <2>6 DEF AddKey
    <3>2. \A m \in Keys : passed'[k][m] = 0
      BY <1>1, <3>1
    <3>3. \A m \in Keys \ {k} : passed'[m] = passed[m]
      BY <1>1, <3>1
    <3>4. BypassOnce'
      BY <2>4, <3>2, <3>3 DEF BypassInv, BypassOnce
    <3>5. \A i \in 1 .. Len(order) : order[i] \in Keys \ {k}
      BY SMTT(30), <1>1, <2>2, <2>6
    <3>6. /\ Len(order) \in Nat /\ Len(order') = Len(order) + 1 /\ order'[Len(order) + 1] = k
          /\ \A i \in 1 .. Len(order) : order'[i] = order[i]
      BY <1>1, <3>1
    <3>7. ASSUME NEW i \in 1 .. Len(order'), NEW j \in 1 .. Len(order'), i <= j
          PROVE  passed'[order'[j]][order'[i]] = 0
      <4>1. CASE j = Len(order) + 1
        <5>1. order'[i] \in Keys
          <6>1. i \in 1 .. Len(order) \/ i = Len(order) + 1
            BY <3>6
          <6>. QED
            BY <1>1, <3>5, <3>6, <6>1
        <5>. QED
          BY <3>2, <3>6, <4>1, <5>1
      <4>2. CASE j # Len(order) + 1
        <5>1. i \in 1 .. Len(order) /\ j \in 1 .. Len(order)
          BY <3>6, <3>7, <4>2
        <5>. QED
          BY <3>3, <3>5, <3>6, <3>7, <5>1 DEF BypassInv
      <4>. QED
        BY <4>1, <4>2
    <3>. QED
      BY <3>4, <3>7 DEF BypassInv
  <2>. QED
    BY <2>5, <2>6
<1>. QED
  BY <1>2, <1>3

LEMMA BypassTake ==
  ASSUME DInv, BypassInv, Take
  PROVE  BypassInv'
<1>. DEFINE k == Head(order)
<1>1. /\ order # <<>> /\ k = order[1] /\ k \in Keys /\ queues[k] # <<>>
      /\ queues' = [queues EXCEPT ![k] = Tail(@)]
      /\ order' = IF Tail(queues[k]) = <<>> THEN Tail(order) ELSE Append(Tail(order), k)
  BY TakeShape
<1>2. Typed /\ order \in Seq(Keys) /\ Len(order) > 0 /\ Len(order) \in Nat
  BY SMTT(30), <1>1 DEF DInv, Typed
<1>3. passed \in [Keys -> [Keys -> Nat]] /\ queues \in [Keys -> Seq(Ops)]
  BY <1>2 DEF Typed
<1>4. passed' = [m \in Keys |-> IF m = k THEN [n \in Keys |-> 0]
                                ELSE IF queues[m] # <<>> THEN [passed[m] EXCEPT ![k] = @ + 1]
                                ELSE passed[m]]
  BY DEF Take
<1>5. \A m \in Keys : passed'[k][m] = 0
  BY <1>1, <1>4
<1>6. \A m \in Keys \ {k} : queues[m] # <<>> => passed'[m][k] = passed[m][k] + 1
  BY <1>1, <1>3, <1>4
<1>7. \A m, n \in Keys \ {k} : passed'[m][n] = passed[m][n]
  BY <1>1, <1>3, <1>4
<1>8. \A m \in Keys \ {k} : queues'[m] = queues[m]
  BY <1>1, <1>3
<1>9. \A m \in Keys : queues[m] # <<>> => passed[m][k] = 0
  <2>1. ASSUME NEW j \in 1 .. Len(order) PROVE passed[order[j]][order[1]] = 0
    BY <1>2 DEF BypassInv
  <2>. QED
    BY <1>1, <2>1 DEF DInv, OrderInv
<1>10. BypassOnce'
  BY <1>5, <1>6, <1>7, <1>8, <1>9 DEF BypassInv, BypassOnce
<1>11. PICK s \in Seq(Keys) : s = Tail(order)
  <2>1. Tail(order) \in Seq(Keys)
    BY <1>1, <1>2
  <2>. QED
    BY <2>1
<1>12. /\ Len(s) = Len(order) - 1
       /\ \A i \in 1 .. Len(s) : i + 1 \in 1 .. Len(order) /\ s[i] = order[i + 1]
  BY <1>1, <1>2, <1>11
<1>13. \A i \in 1 .. Len(s) : s[i] \in Keys \ {k}
  BY <1>1, <1>2, <1>12 DEF DInv, OrderInv
<1>14. \A i, j \in 1 .. Len(s) : i <= j => passed'[s[j]][s[i]] = 0
  <2>. SUFFICES ASSUME NEW i \in 1 .. Len(s), NEW j \in 1 .. Len(s), i <= j
                PROVE  passed'[s[j]][s[i]] = 0
    OBVIOUS
  <2>1. passed[order[j + 1]][order[i + 1]] = 0
    BY <1>2, <1>12 DEF BypassInv
  <2>. QED
    BY <1>7, <1>12, <1>13, <2>1
<1>15. CASE order' = s
  BY <1>10, <1>14, <1>15 DEF BypassInv
<1>16. CASE order' = Append(s, k)
  <2>1. PICK e \in Keys : e = k
    BY <1>1
  <2>2. /\ Len(s) \in Nat /\ Len(order') = Len(s) + 1 /\ order'[Len(s) + 1] = e
        /\ \A i \in 1 .. Len(s) : order'[i] = s[i]
    BY <1>16, <2>1
  <2>3. ASSUME NEW i \in 1 .. Len(order'), NEW j \in 1 .. Len(order'), i <= j
        PROVE  passed'[order'[j]][order'[i]] = 0
    <3>1. CASE j = Len(s) + 1
      <4>1. order'[i] \in Keys
        BY <1>13, <2>2
      <4>. QED
        BY <1>5, <2>1, <2>2, <3>1, <4>1
    <3>2. CASE j # Len(s) + 1
      <4>1. i \in 1 .. Len(s) /\ j \in 1 .. Len(s)
        BY <2>2, <2>3, <3>2
      <4>. QED
        BY <1>14, <2>2, <2>3, <4>1
    <3>. QED
      BY <3>1, <3>2
  <2>. QED
    BY <1>10, <2>3 DEF BypassInv
<1>. QED
  BY <1>1, <1>11, <1>15, <1>16

LEMMA BypassStep ==
  ASSUME DInv, BypassInv, [Next]_vars
  PROVE  BypassInv'
<1>1. \/ \E o \in Ops : Submit(o)
      \/ Take
      \/ UNCHANGED <<queues, order, passed>>
  BY DEF Next, Device, Cancel, Withdraw, Close, Start, Nest, Nested, Finish, Stop, vars, history
<1>2. CASE UNCHANGED <<queues, order, passed>>
  BY <1>2 DEF BypassInv, BypassOnce
<1>. QED
  BY <1>1, <1>2, BypassSubmit, BypassTake

LEMMA BypassInit == Init => BypassInv
  BY DEF Init, BypassInv, BypassOnce

\* While a model waits for the device, every other model is served once at most
\* (the thread of the executor takes the first key and puts it back at the end).
THEOREM BypassedOnce == Spec => []BypassOnce
<1>1. BypassInv => BypassOnce
  BY DEF BypassInv
<1>. QED
  BY <1>1, BypassInit, BypassStep, DInvariance, PTL DEF Spec

-----------------------------------------------------------------------------
(* Order within a model.                                                   *)

\* What was submitted earlier stands nearer to the head of the queue, or has left it.
PlaceInv ==
    /\ \A o \in Ops : status[o] = "new" => earlier[o] = {}
    /\ \A o \in Ops : \A p \in earlier[o] : KeyOf[p] = KeyOf[o] /\ status[p] # "new"
    /\ \A k \in Keys : \A i, j \in 1 .. Len(queues[k]) :
        queues[k][j] \in earlier[queues[k][i]] => j < i
    /\ KeyOrder

\* Where an operation waits.
LEMMA WaitsAt ==
  ASSUME Typed, NEW o \in Ops
  PROVE  Waits(o) <=> \E i \in 1 .. Len(queues[KeyOf[o]]) : queues[KeyOf[o]][i] = o
<1>1. DOMAIN queues[KeyOf[o]] = 1 .. Len(queues[KeyOf[o]])
  BY DeviceExecutorAssumption DEF Typed
<1>. QED
  BY <1>1 DEF Waits, ToSet

LEMMA PlaceSubmit ==
  ASSUME DInv, PlaceInv, NEW o \in Ops, Submit(o)
  PROVE  PlaceInv'
<1>. USE DeviceExecutorAssumption
<1>. DEFINE k == KeyOf[o]
<1>1. Typed /\ QueuesInv /\ k \in Keys /\ queues[k] \in Seq(Ops) /\ status[o] = "new"
  BY DEF DInv, Typed, Submit
<1>2. \A p \in Ops : status'[p] = IF p = o THEN status'[o] ELSE status[p]
  BY <1>1 DEF Submit, Becomes, Typed
<1>3. status'[o] # "new"
  BY <1>1 DEF Submit, Becomes, Typed
<1>4. CASE closed \/ pending >= QueueSize
  <2>1. queues' = queues /\ earlier' = earlier
    BY <1>4 DEF Submit, history
  <2>2. \A p \in Ops : Waits(p)' <=> Waits(p)
    BY <2>1 DEF Waits
  <2>3. earlier[o] = {} /\ earlier \in [Ops -> SUBSET Ops]
    BY <1>1 DEF PlaceInv, Typed
  <2>. QED
    BY <1>2, <1>3, <2>1, <2>2, <2>3 DEF PlaceInv, KeyOrder
<1>5. CASE ~(closed \/ pending >= QueueSize)
  <2>1. /\ queues' = [queues EXCEPT ![k] = Append(@, o)]
        /\ earlier' = [earlier EXCEPT ![o] = ToSet(queues[k])]
    BY <1>5 DEF Submit
  <2>2. queues'[k] = Append(queues[k], o) /\ \A m \in Keys \ {k} : queues'[m] = queues[m]
    BY <1>1, <2>1 DEF Typed
  <2>3. earlier'[o] = ToSet(queues[k]) /\ \A p \in Ops \ {o} : earlier'[p] = earlier[p]
    BY <1>1, <2>1 DEF Typed
  <2>4. Waiting' = Waiting \cup {o} /\ o \notin Waiting
    BY <1>1, <2>1, Joins
  <2>5. \A p \in ToSet(queues[k]) : p \in Ops /\ KeyOf[p] = k /\ status[p] # "new"
    <3>1. DOMAIN queues[k] = 1 .. Len(queues[k])
      BY <1>1
    <3>. QED
      BY <1>1, <3>1 DEF ToSet, QueuesInv
  <2>6. \A p \in Ops \ {o} : o \notin earlier[p]
    BY <1>1 DEF PlaceInv
  <2>7. \A p \in Ops : status'[p] = "new" => earlier'[p] = {}
    BY <1>2, <1>3, <2>3 DEF PlaceInv
  <2>8. \A q \in Ops : \A p \in earlier'[q] : KeyOf[p] = KeyOf[q] /\ status'[p] # "new"
    <3>1. earlier \in [Ops -> SUBSET Ops]
      BY <1>1 DEF Typed
    <3>. QED
      BY <1>2, <1>3, <2>3, <2>5, <3>1 DEF PlaceInv
  <2>9. \A i \in 1 .. Len(queues'[k]) :
            \/ i \in 1 .. Len(queues[k]) /\ queues'[k][i] = queues[k][i] /\ queues[k][i] \in Ops \ {o}
            \/ i = Len(queues[k]) + 1 /\ queues'[k][i] = o
    <3>1. \A i \in 1 .. Len(queues[k]) : queues[k][i] \in Ops \ {o}
      BY <1>1 DEF QueuesInv
    <3>. QED
      BY <1>1, <2>2, <3>1
  <2>10. ASSUME NEW m \in Keys, NEW i \in 1 .. Len(queues'[m]), NEW j \in 1 .. Len(queues'[m]),
                queues'[m][j] \in earlier'[queues'[m][i]]
         PROVE  j < i
    <3>1. CASE m # k
      <4>1. queues'[m] = queues[m] /\ queues[m] \in Seq(Ops)
        BY <1>1, <2>2, <3>1 DEF Typed
      <4>2. queues[m][i] \in Ops \ {o}
        BY <1>1, <3>1, <4>1 DEF QueuesInv
      <4>. QED
        BY <2>3, <2>10, <4>1, <4>2 DEF PlaceInv
    <3>2. CASE m = k /\ i = Len(queues[k]) + 1
      <4>1. o \notin earlier'[o]
        BY <1>1, <2>3, <2>5
      <4>. QED
        BY <1>1, <2>9, <2>10, <3>2, <4>1
    <3>3. CASE m = k /\ i # Len(queues[k]) + 1
      <4>1. i \in 1 .. Len(queues[k]) /\ queues'[k][i] = queues[k][i] /\ queues[k][i] \in Ops \ {o}
        BY <2>9, <3>3
      <4>2. queues'[k][j] \in earlier[queues[k][i]]
        BY <2>3, <2>10, <3>3, <4>1
      <4>3. queues'[k][j] # o
        BY <2>6, <4>1, <4>2
      <4>4. j \in 1 .. Len(queues[k]) /\ queues'[k][j] = queues[k][j]
        BY <2>9, <3>3, <4>3
      <4>. QED
        BY <4>1, <4>2, <4>4 DEF PlaceInv
    <3>. QED
      BY <3>1, <3>2, <3>3
  <2>11. KeyOrder'
    <3>. SUFFICES ASSUME NEW q \in Ops, status'[q] # "new", ~Waits(q)', NEW p \in earlier'[q]
                  PROVE  ~Waits(p)'
      BY DEF KeyOrder
    <3>1. q # o /\ ~Waits(q)
      BY <2>4 DEF Waiting
    <3>2. p \in earlier[q] /\ status[q] # "new" /\ p # o /\ p \in Ops
      BY <1>1, <1>2, <2>3, <2>6, <3>1 DEF Typed
    <3>3. ~Waits(p)
      BY <3>1, <3>2 DEF PlaceInv, KeyOrder
    <3>. QED
      BY <2>4, <3>2, <3>3 DEF Waiting
  <2>. QED
    BY <2>7, <2>8, <2>10, <2>11 DEF PlaceInv
<1>. QED
  BY <1>4, <1>5

LEMMA PlaceTake ==
  ASSUME DInv, PlaceInv, Take
  PROVE  PlaceInv'
<1>. USE DeviceExecutorAssumption
<1>. DEFINE k == Head(order)
            o == Head(queues[k])
<1>1. /\ k \in Keys /\ queues[k] # <<>> /\ queues' = [queues EXCEPT ![k] = Tail(@)]
      /\ status' = status /\ earlier' = earlier
  BY TakeShape
<1>2. Typed /\ QueuesInv /\ queues \in [Keys -> Seq(Ops)]
  BY DEF DInv, Typed
<1>3. queues'[k] = Tail(queues[k]) /\ \A m \in Keys \ {k} : queues'[m] = queues[m]
  BY <1>1, <1>2
<1>4. Waiting' = Waiting \ {o} /\ o \in Waiting
  BY <1>1, <1>2, Leaves
<1>5. queues[k] \in Seq(Ops) /\ Len(queues[k]) > 0
  BY <1>1, <1>2
<1>6. o = queues[k][1] /\ 1 \in 1 .. Len(queues[k]) /\ o \in Ops /\ KeyOf[o] = k
  <2>1. o = queues[k][1] /\ 1 \in 1 .. Len(queues[k]) /\ queues[k][1] \in Ops
    BY <1>5
  <2>2. KeyOf[queues[k][1]] = k
    BY <1>1, <1>2, <2>1 DEF QueuesInv
  <2>. QED
    BY <2>1, <2>2
<1>7. \A i \in 1 .. Len(queues'[k]) : i + 1 \in 1 .. Len(queues[k]) /\ queues'[k][i] = queues[k][i + 1]
  BY <1>3, <1>5
<1>8. \A m \in Keys : \A i, j \in 1 .. Len(queues'[m]) :
        queues'[m][j] \in earlier'[queues'[m][i]] => j < i
  <2>1. \A i, j \in 1 .. Len(queues'[k]) : queues'[k][j] \in earlier[queues'[k][i]] => j + 1 < i + 1
    BY <1>1, <1>7 DEF PlaceInv
  <2>2. \A i, j \in 1 .. Len(queues'[k]) : j + 1 < i + 1 => j < i
    OBVIOUS
  <2>. QED
    BY <1>1, <1>3, <2>1, <2>2 DEF PlaceInv
<1>9. KeyOrder'
  <2>. SUFFICES ASSUME NEW q \in Ops, status[q] # "new", ~Waits(q)', NEW p \in earlier[q]
                PROVE  ~Waits(p)'
    BY <1>1 DEF KeyOrder
  <2>1. p \in Ops /\ KeyOf[p] = KeyOf[q]
    BY <1>2 DEF Typed, PlaceInv
  <2>2. CASE q # o
    <3>1. ~Waits(q)
      BY <1>4, <2>2 DEF Waiting
    <3>. QED
      BY <1>4, <2>1, <3>1 DEF PlaceInv, KeyOrder, Waiting
  <2>3. CASE q = o
    <3>1. ASSUME NEW j \in 1 .. Len(queues[k]), queues[k][j] = p PROVE FALSE
      <4>1. j < 1
        BY <1>1, <1>6, <2>3, <3>1 DEF PlaceInv
      <4>. QED
        BY <4>1
    <3>2. ~Waits(p)
      BY SMTT(30), <1>2, <1>6, <2>1, <2>3, <3>1, WaitsAt
    <3>. QED
      BY <1>4, <2>1, <3>2 DEF Waiting
  <2>. QED
    BY <2>2, <2>3
<1>. QED
  BY <1>1, <1>8, <1>9 DEF PlaceInv

LEMMA PlaceStep ==
  ASSUME DInv, PlaceInv, [Next]_vars
  PROVE  PlaceInv'
<1>1. \/ \E o \in Ops : Submit(o)
      \/ Take
      \/ /\ UNCHANGED <<queues, earlier>>
         /\ \A o \in Ops : status'[o] = "new" => status[o] = "new"
         /\ \A o \in Ops : status'[o] # "new" /\ status[o] = "new" => earlier[o] = {}
  <2>1. ASSUME NEW o \in Ops, Cancel(o) \/ Withdraw(o) \/ Start(o) \/ Nest(o)
        PROVE  /\ UNCHANGED <<queues, earlier>>
               /\ \A p \in Ops : status'[p] = "new" => status[p] = "new"
    BY <2>1 DEF Cancel, Withdraw, Start, Nest, Nested, Becomes, history, DInv, Typed
  <2>2. ASSUME Close \/ Finish \/ Stop \/ UNCHANGED vars
        PROVE  /\ UNCHANGED <<queues, earlier>>
               /\ \A p \in Ops : status'[p] = "new" => status[p] = "new"
    BY <2>2 DEF Close, Finish, Stop, vars, Becomes, history, DInv, Typed
  <2>3. \A p \in Ops : status[p] = "new" => earlier[p] = {}
    BY DEF PlaceInv
  <2>. QED
    BY <2>1, <2>2, <2>3 DEF Next, Device
<1>2. ASSUME UNCHANGED <<queues, earlier>>,
             \A o \in Ops : status'[o] = "new" => status[o] = "new",
             \A o \in Ops : status'[o] # "new" /\ status[o] = "new" => earlier[o] = {}
      PROVE  PlaceInv'
  <2>1. \A p \in Ops : Waits(p)' <=> Waits(p)
    BY <1>2 DEF Waits
  <2>2. earlier \in [Ops -> SUBSET Ops]
    BY DEF DInv, Typed
  <2>3. KeyOrder'
    BY <1>2, <2>1, <2>2 DEF PlaceInv, KeyOrder
  <2>. QED
    BY <1>2, <2>2, <2>3 DEF PlaceInv
<1>. QED
  BY <1>1, <1>2, PlaceSubmit, PlaceTake

LEMMA PlaceInit == Init => PlaceInv
  BY DEF Init, PlaceInv, KeyOrder

\* Operations of one model leave their queue in the order they were submitted in
\* (submit appends, the thread of the executor takes the head).
THEOREM OrderIsKept == Spec => []KeyOrder
<1>1. PlaceInv => KeyOrder
  BY DEF PlaceInv
<1>. QED
  BY <1>1, PlaceInit, PlaceStep, DInvariance, PTL DEF Spec
=============================================================================
