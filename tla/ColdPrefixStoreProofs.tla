------------------------- MODULE ColdPrefixStoreProofs -------------------------
(***************************************************************************)
(* Proofs about ColdPrefixStore for any number of keys, generations and    *)
(* clients and any limits: what the index names is on disk, nothing else   *)
(* stays, and the store with its crashes implements PrefixStore.           *)
(***************************************************************************)
EXTENDS ColdPrefixStore, SequenceTheorems, WellFoundedInduction, TLAPS

Value(c) == mine[c].value

-----------------------------------------------------------------------------
(* The inductive invariant.                                                *)

Putting == {"put", "save", "saved", "replace", "sync", "undo"}

Typed ==
    /\ index = None \/ index \in Seq(Records)
    /\ disk \in [Gens -> {"none", "part", "full"}]
    /\ pc \in [Clients -> {"idle", "read"} \cup Writing]
    /\ mine \in [Clients -> Records \cup {NoRecord}]
    /\ \A c \in Clients : pc[c] \in Putting \cup {"read"} => mine[c] \in Records
    /\ got \in [Clients -> Gens \cup {None}]

\* The file lock: a writer is alone.
Locked == \A c, d \in Clients : pc[c] \in Writing /\ d # c => pc[d] = "idle"

\* A key has one entry at most.
KeysOnce == \A m, n \in 1 .. Len(Entries) : Entries[m].key = Entries[n].key => m = n

\* What the index names is complete, and what is being put is not yet named: a put
\* that is undone afterwards has been recorded in torn.
Backed ==
    /\ \A g \in Live : g \in torn \/ disk[g] = "full"
    /\ \A c \in Clients :
        /\ pc[c] \in {"put", "save", "saved", "replace"} => Value(c) \notin Live
        /\ pc[c] \in {"saved", "replace"} => disk[Value(c)] = "full"
        /\ pc[c] = "replace" => mine[c].size <= Budget
        /\ pc[c] = "undo" => Value(c) \notin Live \/ Value(c) \in torn
        /\ pc[c] = "read" => \E n \in 1 .. Len(Entries) : mine[c] = Entries[n]

\* Until a writer has replaced the index, it adds its own generation and no more.
Clean ==
    ~dirty =>
        /\ \A c \in Clients : pc[c] \in {"put", "save", "saved", "replace", "undo"} =>
              Value(c) \in torn \/ OnDisk \subseteq Live \cup {Value(c)}
        /\ (\A c \in Clients : pc[c] \in {"idle", "read", "empty"}) => OnDisk \subseteq Live

SInv == Typed /\ Locked /\ KeysOnce /\ Backed /\ Clean

-----------------------------------------------------------------------------
(* Lists of entries.                                                       *)

LEMMA LeastIs ==
  ASSUME NEW T \in SUBSET Nat, T # {}
  PROVE  Min(T) \in T /\ \A t \in T : Min(T) <= t
<1>. DEFINE R == OpToRel(<, Nat)
<1>1. IsWellFoundedOn(R, Nat)
  BY NatLessThanWellFounded
<1>2. \A x, y \in Nat : x < y => <<x, y>> \in R
  BY DEF OpToRel
<1>. HIDE DEF R
<1>3. \E x \in T : \A y \in T : ~(<<y, x>> \in R)
  BY <1>1, WFMin
<1>4. \E x \in T : \A y \in T : x <= y
  <2>1. PICK x \in T : \A y \in T : ~(<<y, x>> \in R)
    BY <1>3
  <2>2. \A y \in T : ~(y < x)
    BY <1>2, <2>1
  <2>. QED
    BY <2>2
<1>. QED
  BY <1>4 DEF Min

\* The size of one entry: the sum over its one position.
LEMMA OneIs ==
  ASSUME NEW r \in Records
  PROVE  SizeOf(<<r>>) = r.size
<1>. DEFINE f(i) == <<r>>[i].size
            Sum(g) == [s \in SUBSET {1} |->
                         IF s = {} THEN 0
                         ELSE f(CHOOSE x \in s : TRUE) + g[s \ {CHOOSE x \in s : TRUE}]]
            h == [s \in SUBSET {1} |-> IF s = {} THEN 0 ELSE r.size]
            iter == CHOOSE g : g = Sum(g)
<1>1. SizeOf(<<r>>) = iter[{1}]
  <2>1. DOMAIN <<r>> = {1}
    OBVIOUS
  <2>. QED
    BY <2>1 DEF SizeOf, MapThenSumSet, MapThenFoldSet
<1>2. \A s \in SUBSET {1} : s = {} \/ s = {1}
  OBVIOUS
<1>3. (CHOOSE x \in {1} : TRUE) = 1 /\ f(1) = r.size /\ r.size \in Nat
  BY ColdPrefixAssumption DEF Records
<1>4. h = Sum(h)
  <2>. SUFFICES ASSUME NEW s \in SUBSET {1}
                PROVE  h[s] = IF s = {} THEN 0
                              ELSE f(CHOOSE x \in s : TRUE) + h[s \ {CHOOSE x \in s : TRUE}]
    OBVIOUS
  <2>1. CASE s = {}
    BY <2>1
  <2>2. CASE s = {1}
    <3>1. s \ {1} = {} /\ h[{}] = 0 /\ h[s] = r.size
      BY <2>2
    <3>. QED
      BY <1>3, <2>2, <3>1
  <2>. QED
    BY <1>2, <2>1, <2>2
<1>5. iter = Sum(iter)
  <2>. HIDE DEF h, Sum
  <2>. QED
    BY <1>4
<1>6. iter[{1}] = r.size
  <2>. HIDE DEF iter
  <2>1. iter[{}] = 0 /\ iter[{1}] = f(1) + iter[{1} \ {1}]
    BY <1>3, <1>5
  <2>. QED
    BY <1>3, <2>1
<1>. QED
  BY <1>1, <1>6

Once(s) == \A m, n \in 1 .. Len(s) : s[m].key = s[n].key => m = n

Without(s, k) == RemoveFirstMatch(s, LAMBDA e : e.key = k)

\* Without the entry of a key.
LEMMA RemoveIs ==
  ASSUME NEW s \in Seq(Records), NEW k, Once(s), NEW t, t = Without(s, k)
  PROVE  /\ t \in Seq(Records) /\ Once(t)
         /\ \A n \in 1 .. Len(t) : t[n].key # k /\ \E m \in 1 .. Len(s) : t[n] = s[m]
<1>. DEFINE I == {i \in 1 .. Len(s) : s[i].key = k}
<1>1. CASE I = {}
  <2>1. t = s
    BY <1>1 DEF Without, RemoveFirstMatch
  <2>. QED
    BY <1>1, <2>1
<1>2. CASE I # {}
  <2>. DEFINE i == Min(I)
  <2>1. i \in I
    <3>1. I \in SUBSET Nat
      OBVIOUS
    <3>. HIDE DEF I
    <3>. QED
      BY <1>2, <3>1, LeastIs
  <2>2. t = SubSeq(s, 1, i - 1) \o SubSeq(s, i + 1, Len(s))
    BY <1>2 DEF Without, RemoveFirstMatch, SelectInSeq, RemoveAt
  <2>. HIDE DEF i
  <2>3. i \in 1 .. Len(s) /\ s[i].key = k /\ Len(s) \in Nat
    BY <2>1
  <2>4. /\ t \in Seq(Records) /\ Len(t) = Len(s) - 1
        /\ \A n \in 1 .. Len(t) : /\ n < i => n \in 1 .. Len(s) /\ t[n] = s[n]
                                  /\ n >= i => n + 1 \in 1 .. Len(s) /\ t[n] = s[n + 1]
    <3>. DEFINE a == SubSeq(s, 1, i - 1)
                b == SubSeq(s, i + 1, Len(s))
    <3>1. /\ a \in Seq(Records) /\ Len(a) = i - 1 /\ \A n \in 1 .. i - 1 : a[n] = s[n]
          /\ b \in Seq(Records) /\ Len(b) = Len(s) - i
          /\ \A n \in 1 .. Len(s) - i : b[n] = s[i + n]
      BY <2>3
    <3>5. t = a \o b
      BY <2>2
    <3>. HIDE DEF a, b
    <3>2. /\ t \in Seq(Records) /\ Len(t) = Len(a) + Len(b)
          /\ \A n \in 1 .. Len(t) : t[n] = IF n <= Len(a) THEN a[n] ELSE b[n - Len(a)]
      <4>. DEFINE u == a \o b
      <4>1. /\ u \in Seq(Records) /\ Len(u) = Len(a) + Len(b)
            /\ \A n \in 1 .. Len(a) + Len(b) : u[n] = IF n <= Len(a) THEN a[n] ELSE b[n - Len(a)]
        BY <3>1, ConcatProperties, Zenon
      <4>. HIDE DEF u
      <4>. QED
        BY <4>1, <3>5 DEF u
    <3>3. ASSUME NEW n \in 1 .. Len(t)
          PROVE  /\ n < i => n \in 1 .. Len(s) /\ t[n] = s[n]
                 /\ n >= i => n + 1 \in 1 .. Len(s) /\ t[n] = s[n + 1]
      <4>4. Len(t) = Len(s) - 1 /\ Len(a) = i - 1
        BY <2>3, <3>1, <3>2
      <4>3. Len(a) = i - 1 /\ n \in Nat /\ i \in Nat /\ n >= 1 /\ n <= Len(s) - 1
        BY <2>3, <4>4
      <4>1. n < i => n <= Len(a) /\ n \in 1 .. i - 1 /\ n \in 1 .. Len(s)
        BY <2>3, <4>3
      <4>2. n >= i => /\ ~(n <= Len(a)) /\ n - Len(a) \in 1 .. Len(s) - i
                      /\ i + (n - Len(a)) = n + 1 /\ n + 1 \in 1 .. Len(s)
        BY <2>3, <4>3
      <4>. QED
        BY <3>1, <3>2, <4>1, <4>2
    <3>4. Len(t) = Len(s) - 1
      BY <2>3, <3>1, <3>2
    <3>. QED
      BY <3>2, <3>3, <3>4
  <2>5. ASSUME NEW n \in 1 .. Len(t)
        PROVE  \E p \in {n, n + 1} : p \in 1 .. Len(s) /\ t[n] = s[p] /\ p # i /\ (p = n <=> n < i)
    <3>1. n \in Nat /\ i \in Nat
      BY <2>3, <2>4
    <3>2. CASE n < i
      <4>1. n \in 1 .. Len(s) /\ t[n] = s[n]
        BY <2>4, <3>2
      <4>2. n # i
        BY <3>1, <3>2
      <4>. QED
        BY <3>2, <4>1, <4>2
    <3>3. CASE n >= i
      <4>1. n + 1 \in 1 .. Len(s) /\ t[n] = s[n + 1]
        BY <2>4, <3>3
      <4>2. n + 1 # i /\ n + 1 # n /\ ~(n < i)
        BY <3>1, <3>3
      <4>. QED
        BY <4>1, <4>2
    <3>. QED
      BY <3>1, <3>2, <3>3
  <2>6. ASSUME NEW m \in 1 .. Len(t), NEW n \in 1 .. Len(t), t[m].key = t[n].key
        PROVE  m = n
    <3>1. PICK p \in {m, m + 1} : p \in 1 .. Len(s) /\ t[m] = s[p] /\ (p = m <=> m < i)
      BY <2>5
    <3>2. PICK q \in {n, n + 1} : q \in 1 .. Len(s) /\ t[n] = s[q] /\ (q = n <=> n < i)
      BY <2>5
    <3>3. p = q
      BY <2>6, <3>1, <3>2 DEF Once
    <3>. QED
      BY <2>3, <3>1, <3>2, <3>3
  <2>7. ASSUME NEW n \in 1 .. Len(t)
        PROVE  t[n].key # k /\ \E m \in 1 .. Len(s) : t[n] = s[m]
    <3>1. PICK p \in {n, n + 1} : p \in 1 .. Len(s) /\ t[n] = s[p] /\ p # i
      BY <2>5
    <3>2. s[p].key # k
      BY <2>3, <3>1 DEF Once
    <3>. QED
      BY <3>1, <3>2
  <2>. QED
    BY <2>4, <2>6, <2>7 DEF Once
<1>. QED
  BY <1>1, <1>2

\* The oldest entries go, and no more of them than necessary.
LEMMA EvictedIs ==
  ASSUME NEW all \in Seq(Records), all # <<>>, all[Len(all)].size <= Budget, Once(all)
  PROVE  \E m \in 1 .. Len(all) :
            /\ Evicted(all) = SubSeq(all, m, Len(all)) /\ Within(Evicted(all))
            /\ m > 1 => ~Within(SubSeq(all, m - 1, Len(all)))
            /\ Evicted(all) \in Seq(Records) /\ Once(Evicted(all))
            /\ \A n \in 1 .. Len(Evicted(all)) : \E p \in 1 .. Len(all) : Evicted(all)[n] = all[p]
<1>. DEFINE l == Len(all)
            T == {m \in DOMAIN all : Within(SubSeq(all, m, l))}
            m == Min(T)
            s == SubSeq(all, m, l)
<1>1. l \in Nat \ {0} /\ DOMAIN all = 1 .. l /\ all[l] \in Records
  OBVIOUS
<1>2. l \in T
  <2>1. SubSeq(all, l, l) = <<all[l]>>
    <3>. DEFINE u == SubSeq(all, l, l)
    <3>1. u \in Seq(Records) /\ Len(u) = 1 /\ u[1] = all[l]
      BY <1>1
    <3>. HIDE DEF u
    <3>2. u = <<u[1]>>
      BY <3>1
    <3>. QED
      BY <3>1, <3>2 DEF u
  <2>2. SizeOf(<<all[l]>>) <= Budget
    BY <1>1, OneIs
  <2>3. Within(<<all[l]>>)
    BY <2>2, ColdPrefixAssumption DEF Within
  <2>4. l \in DOMAIN all
    BY <1>1
  <2>. QED
    BY <2>1, <2>3, <2>4
<1>3. m \in T /\ \A t \in T : m <= t
  <2>1. T \in SUBSET Nat
    BY <1>1
  <2>. HIDE DEF T
  <2>. QED
    BY <1>2, <2>1, LeastIs
<1>4. Evicted(all) = s
  BY DEF Evicted
<1>5. m \in 1 .. l /\ Within(s)
  BY <1>1, <1>3
<1>6. m > 1 => ~Within(SubSeq(all, m - 1, l))
  <2>. HIDE DEF m
  <2>. SUFFICES ASSUME m > 1, Within(SubSeq(all, m - 1, l)) PROVE FALSE
    OBVIOUS
  <2>1. m - 1 \in T
    BY <1>1, <1>5
  <2>. QED
    BY <1>3, <1>5, <2>1
<1>. HIDE DEF m
<1>7. /\ s \in Seq(Records) /\ Len(s) = l - m + 1
      /\ \A n \in 1 .. Len(s) : s[n] = all[m + n - 1] /\ m + n - 1 \in 1 .. l
  BY <1>1, <1>5
<1>8. Once(s)
  <2>. HIDE DEF s, l
  <2>. SUFFICES ASSUME NEW i \in 1 .. Len(s), NEW n \in 1 .. Len(s), s[i].key = s[n].key
                PROVE  i = n
    BY DEF Once
  <2>1. /\ m + i - 1 \in 1 .. l /\ m + n - 1 \in 1 .. l
        /\ all[m + i - 1].key = all[m + n - 1].key
    BY <1>7
  <2>2. \A x, y \in 1 .. l : all[x].key = all[y].key => x = y
    BY DEF Once, l
  <2>3. m + i - 1 = m + n - 1
    BY <2>1, <2>2
  <2>. QED
    BY <1>1, <1>5, <1>7, <2>3
<1>9. \A n \in 1 .. Len(s) : \E p \in 1 .. l : s[n] = all[p]
  <2>. HIDE DEF s, l
  <2>. QED
    BY <1>7
<1>. QED
  BY <1>4, <1>5, <1>6, <1>7, <1>8, <1>9

Named(s) == {s[n].value : n \in DOMAIN s}

\* The list after a put: the new entry is its last, the others were there.
LEMMA RetainedIs ==
  ASSUME NEW r \in Records, r.size <= Budget, Entries \in Seq(Records), KeysOnce
  PROVE  LET all == Append(RemoveFirstMatch(Entries, LAMBDA e : e.key = r.key), r) IN
         /\ all \in Seq(Records)
         /\ \E m \in DOMAIN all :
               /\ Retained(r) = SubSeq(all, m, Len(all)) /\ Within(Retained(r))
               /\ m > 1 => ~Within(SubSeq(all, m - 1, Len(all)))
         /\ Retained(r) \in Seq(Records) /\ Once(Retained(r))
         /\ Named(Retained(r)) \subseteq Live \cup {r.value}
<1>. DEFINE kept == RemoveFirstMatch(Entries, LAMBDA e : e.key = r.key)
            all == Append(kept, r)
<1>1. /\ kept \in Seq(Records) /\ Once(kept)
      /\ \A n \in 1 .. Len(kept) : /\ kept[n].key # r.key
                                   /\ \E m \in 1 .. Len(Entries) : kept[n] = Entries[m]
  <2>1. Once(Entries) /\ kept = Without(Entries, r.key)
    BY DEF KeysOnce, Once, Without
  <2>. HIDE DEF kept
  <2>. QED
    BY <2>1, RemoveIs
<1>2. Retained(r) = Evicted(all)
  BY DEF Retained
<1>. HIDE DEF kept
<1>3. /\ all \in Seq(Records) /\ Len(all) = Len(kept) + 1 /\ all[Len(all)] = r
      /\ \A n \in 1 .. Len(kept) : all[n] = kept[n]
      /\ DOMAIN all = 1 .. Len(all) /\ Len(kept) \in Nat /\ all # <<>>
  BY <1>1
<1>. HIDE DEF all
<1>4. Once(all)
  <2>. SUFFICES ASSUME NEW m \in 1 .. Len(all), NEW n \in 1 .. Len(all), all[m].key = all[n].key
                PROVE  m = n
    BY DEF Once
  <2>1. \A i \in 1 .. Len(all) : i \in 1 .. Len(kept) \/ i = Len(all)
    BY <1>3
  <2>. QED
    BY <1>1, <1>3, <2>1 DEF Once
<1>5. PICK m \in 1 .. Len(all) :
        /\ Evicted(all) = SubSeq(all, m, Len(all)) /\ Within(Evicted(all))
        /\ m > 1 => ~Within(SubSeq(all, m - 1, Len(all)))
        /\ Evicted(all) \in Seq(Records) /\ Once(Evicted(all))
        /\ \A n \in 1 .. Len(Evicted(all)) : \E p \in 1 .. Len(all) : Evicted(all)[n] = all[p]
  BY <1>3, <1>4, EvictedIs
<1>6. Named(Evicted(all)) \subseteq Live \cup {r.value}
  <2>. SUFFICES ASSUME NEW n \in DOMAIN Evicted(all), Evicted(all)[n].value # r.value
                PROVE  Evicted(all)[n].value \in Live
    BY DEF Named
  <2>1. n \in 1 .. Len(Evicted(all))
    BY <1>5
  <2>2. PICK p \in 1 .. Len(all) : Evicted(all)[n] = all[p]
    BY <1>5, <2>1
  <2>3. p \in 1 .. Len(kept)
    BY <1>3, <2>2
  <2>4. PICK q \in 1 .. Len(Entries) : Evicted(all)[n] = Entries[q]
    BY <1>1, <1>3, <2>2, <2>3
  <2>5. q \in DOMAIN Entries
    BY <2>4
  <2>. QED
    BY <2>4, <2>5 DEF Live
<1>. QED
  BY <1>2, <1>3, <1>5, <1>6 DEF all, kept

-----------------------------------------------------------------------------
(* Steps that leave the index alone.                                       *)

LEMMA ListIs ==
  ASSUME Typed
  PROVE  /\ Entries \in Seq(Records) /\ Live = {Entries[n].value : n \in 1 .. Len(Entries)}
         /\ Live \subseteq Gens
<1>1. Entries \in Seq(Records)
  BY DEF Typed, Entries
<1>2. DOMAIN Entries = 1 .. Len(Entries)
  BY <1>1
<1>3. \A n \in 1 .. Len(Entries) : Entries[n].value \in Gens
  <2>1. \A n \in 1 .. Len(Entries) : Entries[n] \in Records
    BY <1>1
  <2>. QED
    BY <2>1 DEF Records
<1>. QED
  BY <1>1, <1>2, <1>3 DEF Live

\* The index is the same; so are the list and what it names.
LEMMA SameIndex ==
  ASSUME Typed, KeysOnce, UNCHANGED index
  PROVE  /\ UNCHANGED <<Entries, Live>> /\ KeysOnce'
         /\ index' = None \/ index' \in Seq(Records)
  BY DEF Typed, Entries, Live, KeysOnce

\* Where a client of the store goes.
LEMMA GotoIs ==
  ASSUME Typed, NEW c \in Clients, NEW l \in {"idle", "read"} \cup Writing, Goto(c, l)
  PROVE  /\ pc' \in [Clients -> {"idle", "read"} \cup Writing] /\ pc'[c] = l
         /\ \A d \in Clients : d # c => pc'[d] = pc[d]
  BY DEF Typed, Goto

LEMMA EndsIs ==
  ASSUME Typed, NEW c \in Clients, Ends(c)
  PROVE  /\ pc' \in [Clients -> {"idle", "read"} \cup Writing] /\ pc'[c] = "idle"
         /\ \A d \in Clients : d # c => pc'[d] = pc[d] /\ mine'[d] = mine[d]
         /\ mine' \in [Clients -> Records \cup {NoRecord}]
<1>1. Goto(c, "idle") /\ mine' = [mine EXCEPT ![c] = NoRecord]
  BY DEF Ends
<1>. QED
  BY <1>1, GotoIs DEF Typed

\* Nobody else is in the store while a client writes: what its step must keep is
\* about the disk, the index and its own place.
LEMMA WriterStep ==
  ASSUME SInv, NEW c \in Clients, pc[c] \in Writing \/ Exclusive,
         pc' \in [Clients -> {"idle", "read"} \cup Writing], pc'[c] # "read",
         \A d \in Clients : d # c => pc'[d] = pc[d],
         mine' \in [Clients -> Records \cup {NoRecord}], pc'[c] \in Putting => mine'[c] \in Records,
         index' = None \/ index' \in Seq(Records), disk' \in [Gens -> {"none", "part", "full"}],
         got' = got, KeysOnce',
         \A g \in Live' : g \in torn' \/ disk'[g] = "full",
         pc'[c] \in {"put", "save", "saved", "replace"} => Value(c)' \notin Live',
         pc'[c] \in {"saved", "replace"} => disk'[Value(c)'] = "full",
         pc'[c] = "replace" => mine'[c].size <= Budget,
         pc'[c] = "undo" => Value(c)' \notin Live' \/ Value(c)' \in torn',
         ~dirty' /\ pc'[c] \in {"put", "save", "saved", "replace", "undo"} =>
            Value(c)' \in torn' \/ OnDisk' \subseteq Live' \cup {Value(c)'},
         ~dirty' /\ pc'[c] \in {"idle", "empty"} => OnDisk' \subseteq Live'
  PROVE  SInv'
<1>1. \A d \in Clients : d # c => pc[d] = "idle" /\ pc'[d] = "idle"
  BY DEF SInv, Locked, Exclusive
<1>2. Typed'
  BY <1>1 DEF SInv, Typed, Putting
<1>3. Locked'
  BY <1>1 DEF Locked, Writing
<1>4. Backed'
  BY <1>1 DEF Backed
<1>5. Clean'
  <2>1. ASSUME ~dirty', NEW d \in Clients, pc'[d] \in {"put", "save", "saved", "replace", "undo"}
        PROVE  Value(d)' \in torn' \/ OnDisk' \subseteq Live' \cup {Value(d)'}
    BY <1>1, <2>1
  <2>2. ASSUME ~dirty', \A d \in Clients : pc'[d] \in {"idle", "read", "empty"}
        PROVE  OnDisk' \subseteq Live'
    BY <2>2
  <2>. QED
    BY <2>1, <2>2 DEF Clean
<1>. QED
  BY <1>2, <1>3, <1>4, <1>5 DEF SInv

LEMMA BeginPutStep ==
  ASSUME SInv, NEW c \in Clients, NEW r \in Records, BeginPut(c, r)
  PROVE  SInv'
<1>1. /\ Exclusive /\ Fresh(r.value) /\ mine' = [mine EXCEPT ![c] = r] /\ torn' = torn \ {r.value}
      /\ UNCHANGED <<index, disk, junk, got, dirty>>
  BY DEF BeginPut
<1>2. /\ pc' \in [Clients -> {"idle", "read"} \cup Writing] /\ pc'[c] = "put"
      /\ \A d \in Clients : d # c => pc'[d] = pc[d]
  BY GotoIs DEF SInv, BeginPut, Writing
<1>3. /\ UNCHANGED <<Entries, Live>> /\ KeysOnce' /\ (index' = None \/ index' \in Seq(Records))
  BY <1>1, SameIndex DEF SInv
<1>4. mine' \in [Clients -> Records \cup {NoRecord}] /\ mine'[c] = r /\ Value(c)' = r.value
  BY <1>1 DEF SInv, Typed, Value
<1>5. disk' \in [Gens -> {"none", "part", "full"}] /\ OnDisk' = OnDisk
  BY <1>1 DEF SInv, Typed, OnDisk
<1>6. r.value \notin Live
  BY <1>1 DEF Fresh
<1>7. \A g \in Live' : g \in torn' \/ disk'[g] = "full"
  BY <1>1, <1>3, <1>6 DEF SInv, Backed
<1>8. ~dirty => OnDisk \subseteq Live
  BY <1>1 DEF SInv, Clean, Exclusive
<1>. QED
  BY <1>1, <1>2, <1>3, <1>4, <1>5, <1>6, <1>7, <1>8, WriterStep

LEMMA SaveStep ==
  ASSUME SInv, NEW c \in Clients, Save(c)
  PROVE  SInv'
<1>1. UNCHANGED <<index, junk, mine, got, torn, dirty>> /\ pc[c] \in {"put", "save"}
  BY DEF Save
<1>2. PICK l \in {"save", "saved"}, s \in {"part", "full"} :
         /\ Goto(c, l) /\ disk' = [disk EXCEPT ![Value(c)] = s]
         /\ l = "saved" => s = "full"
  BY DEF Save, Value
<1>3. /\ pc' \in [Clients -> {"idle", "read"} \cup Writing] /\ pc'[c] = l
      /\ \A d \in Clients : d # c => pc'[d] = pc[d]
  BY <1>2, GotoIs DEF SInv, Writing
<1>4. /\ UNCHANGED <<Entries, Live>> /\ KeysOnce' /\ (index' = None \/ index' \in Seq(Records))
  BY <1>1, SameIndex DEF SInv
<1>5. /\ mine' \in [Clients -> Records \cup {NoRecord}] /\ mine'[c] \in Records
      /\ Value(c)' = Value(c) /\ Value(c) \in Gens
  BY <1>1 DEF SInv, Typed, Value, Records, Putting
<1>6. /\ disk' \in [Gens -> {"none", "part", "full"}] /\ disk'[Value(c)] = s
      /\ \A g \in Gens : g # Value(c) => disk'[g] = disk[g]
  BY <1>2, <1>5 DEF SInv, Typed
<1>7. Value(c) \notin Live /\ Live \subseteq Gens
  BY <1>1, ListIs DEF SInv, Backed
<1>8. \A g \in Live' : g \in torn' \/ disk'[g] = "full"
  BY <1>1, <1>4, <1>6, <1>7 DEF SInv, Backed
<1>9. ~dirty => Value(c) \in torn \/ OnDisk' \subseteq Live \cup {Value(c)}
  BY <1>1, <1>6 DEF SInv, Clean, OnDisk
<1>10. pc[c] \in Writing
  BY <1>1 DEF Writing
<1>. QED
  BY <1>1, <1>2, <1>3, <1>4, <1>5, <1>6, <1>7, <1>8, <1>9, <1>10, WriterStep

LEMMA DeclinesStep ==
  ASSUME SInv, NEW c \in Clients, Declines(c)
  PROVE  SInv'
<1>1. /\ UNCHANGED <<index, disk, junk, mine, got, torn, dirty>>
      /\ pc[c] \in {"put", "save", "saved", "replace"} /\ Goto(c, "undo")
  BY DEF Declines
<1>2. /\ pc' \in [Clients -> {"idle", "read"} \cup Writing] /\ pc'[c] = "undo"
      /\ \A d \in Clients : d # c => pc'[d] = pc[d]
  BY <1>1, GotoIs DEF SInv, Writing
<1>3. /\ UNCHANGED <<Entries, Live>> /\ KeysOnce' /\ (index' = None \/ index' \in Seq(Records))
  BY <1>1, SameIndex DEF SInv
<1>4. /\ mine' \in [Clients -> Records \cup {NoRecord}] /\ mine'[c] \in Records
      /\ Value(c)' = Value(c) /\ disk' \in [Gens -> {"none", "part", "full"}] /\ OnDisk' = OnDisk
  BY <1>1 DEF SInv, Typed, Value, Putting, OnDisk
<1>5. /\ Value(c) \notin Live /\ \A g \in Live : g \in torn \/ disk[g] = "full"
      /\ ~dirty => Value(c) \in torn \/ OnDisk \subseteq Live \cup {Value(c)}
  BY <1>1 DEF SInv, Backed, Clean
<1>6. pc[c] \in Writing
  BY <1>1 DEF Writing
<1>. QED
  BY <1>1, <1>2, <1>3, <1>4, <1>5, <1>6, WriterStep

LEMMA WriteIndexStep ==
  ASSUME SInv, NEW c \in Clients, WriteIndex(c)
  PROVE  SInv'
<1>1. /\ UNCHANGED <<index, disk, junk, mine, got, torn, dirty>>
      /\ pc[c] = "saved" /\ mine[c].size <= Budget /\ Goto(c, "replace")
  BY DEF WriteIndex
<1>2. /\ pc' \in [Clients -> {"idle", "read"} \cup Writing] /\ pc'[c] = "replace"
      /\ \A d \in Clients : d # c => pc'[d] = pc[d]
  BY <1>1, GotoIs DEF SInv, Writing
<1>3. /\ UNCHANGED <<Entries, Live>> /\ KeysOnce' /\ (index' = None \/ index' \in Seq(Records))
  BY <1>1, SameIndex DEF SInv
<1>4. /\ mine' \in [Clients -> Records \cup {NoRecord}] /\ mine'[c] \in Records
      /\ Value(c)' = Value(c) /\ disk' \in [Gens -> {"none", "part", "full"}] /\ OnDisk' = OnDisk
  BY <1>1 DEF SInv, Typed, Value, Putting, OnDisk
<1>5. /\ Value(c) \notin Live /\ disk[Value(c)] = "full"
      /\ \A g \in Live : g \in torn \/ disk[g] = "full"
      /\ ~dirty => Value(c) \in torn \/ OnDisk \subseteq Live \cup {Value(c)}
  BY <1>1 DEF SInv, Backed, Clean
<1>6. pc[c] \in Writing
  BY <1>1 DEF Writing
<1>. QED
  BY <1>1, <1>2, <1>3, <1>4, <1>5, <1>6, WriterStep

LEMMA ReplaceStep ==
  ASSUME SInv, NEW c \in Clients, Replace(c)
  PROVE  SInv'
<1>1. /\ pc[c] = "replace" /\ index' = Retained(mine[c]) /\ Goto(c, "sync")
      /\ UNCHANGED <<disk, junk, mine, got, torn, dirty>>
  BY DEF Replace
<1>2. /\ pc' \in [Clients -> {"idle", "read"} \cup Writing] /\ pc'[c] = "sync"
      /\ \A d \in Clients : d # c => pc'[d] = pc[d]
  BY <1>1, GotoIs DEF SInv, Writing
<1>3. /\ mine[c] \in Records /\ mine[c].size <= Budget /\ disk[Value(c)] = "full"
      /\ KeysOnce /\ \A g \in Live : g \in torn \/ disk[g] = "full"
  BY <1>1 DEF SInv, Typed, Putting, Backed
<1>4. /\ Retained(mine[c]) \in Seq(Records) /\ Once(Retained(mine[c]))
      /\ Named(Retained(mine[c])) \subseteq Live \cup {Value(c)}
  BY <1>3, ListIs, RetainedIs DEF SInv, Value
<1>5. Entries' = Retained(mine[c])
  BY <1>1, <1>4, ColdPrefixAssumption DEF Entries, Records
<1>6. KeysOnce' /\ Live' \subseteq Live \cup {Value(c)}
  BY <1>4, <1>5 DEF KeysOnce, Once, Live, Named
<1>7. /\ mine' \in [Clients -> Records \cup {NoRecord}] /\ mine'[c] \in Records
      /\ disk' \in [Gens -> {"none", "part", "full"}]
  BY <1>1, <1>3 DEF SInv, Typed
<1>8. \A g \in Live' : g \in torn' \/ disk'[g] = "full"
  BY <1>1, <1>3, <1>6
<1>9. pc[c] \in Writing
  BY <1>1 DEF Writing
<1>. QED
  BY <1>1, <1>2, <1>4, <1>6, <1>7, <1>8, <1>9, WriterStep

LEMMA SyncStep ==
  ASSUME SInv, NEW c \in Clients, Sync(c)
  PROVE  SInv'
<1>1. pc[c] = "sync" /\ UNCHANGED <<index, disk, junk, mine, got, dirty>>
  BY DEF Sync
<1>2. PICK l \in {"collect", "undo"} :
         /\ Goto(c, l) /\ torn \subseteq torn'
         /\ l = "undo" => Value(c) \in torn'
  BY DEF Sync, Value
<1>3. /\ pc' \in [Clients -> {"idle", "read"} \cup Writing] /\ pc'[c] = l
      /\ \A d \in Clients : d # c => pc'[d] = pc[d]
  BY <1>2, GotoIs DEF SInv, Writing
<1>4. /\ UNCHANGED <<Entries, Live>> /\ KeysOnce' /\ (index' = None \/ index' \in Seq(Records))
  BY <1>1, SameIndex DEF SInv
<1>5. /\ mine' \in [Clients -> Records \cup {NoRecord}] /\ mine'[c] \in Records
      /\ Value(c)' = Value(c) /\ disk' \in [Gens -> {"none", "part", "full"}]
  BY <1>1 DEF SInv, Typed, Value, Putting
<1>6. \A g \in Live' : g \in torn' \/ disk'[g] = "full"
  BY <1>1, <1>2, <1>4 DEF SInv, Backed
<1>7. pc[c] \in Writing
  BY <1>1 DEF Writing
<1>. QED
  BY <1>1, <1>2, <1>3, <1>4, <1>5, <1>6, <1>7, WriterStep

LEMMA UndoStep ==
  ASSUME SInv, NEW c \in Clients, Undo(c)
  PROVE  SInv'
<1>1. pc[c] = "undo" /\ Ends(c) /\ UNCHANGED <<index, junk, got, torn>>
  BY DEF Undo
<1>2. /\ pc' \in [Clients -> {"idle", "read"} \cup Writing] /\ pc'[c] = "idle"
      /\ \A d \in Clients : d # c => pc'[d] = pc[d]
      /\ mine' \in [Clients -> Records \cup {NoRecord}]
  BY <1>1, EndsIs DEF SInv
<1>3. /\ UNCHANGED <<Entries, Live>> /\ KeysOnce' /\ (index' = None \/ index' \in Seq(Records))
  BY <1>1, SameIndex DEF SInv
<1>4. Value(c) \in Gens /\ Live \subseteq Gens
  BY <1>1, ListIs DEF SInv, Typed, Putting, Value, Records
<1>5. PICK s \in {"none", "part", "full"} :
         /\ disk' = [disk EXCEPT ![Value(c)] = s]
         /\ ~dirty' => ~dirty /\ s = "none" /\ Value(c) \notin torn
  BY <1>4 DEF Undo, Value, SInv, Typed
<1>6. /\ disk' \in [Gens -> {"none", "part", "full"}] /\ disk'[Value(c)] = s
      /\ \A g \in Gens : g # Value(c) => disk'[g] = disk[g]
  BY <1>4, <1>5 DEF SInv, Typed
<1>7. Value(c) \notin Live \/ Value(c) \in torn
  BY <1>1 DEF SInv, Backed
<1>8. \A g \in Live' : g \in torn' \/ disk'[g] = "full"
  BY <1>1, <1>3, <1>4, <1>6, <1>7 DEF SInv, Backed
<1>9. ~dirty' => OnDisk' \subseteq Live'
  <2>. SUFFICES ASSUME ~dirty' PROVE OnDisk' \subseteq Live
    BY <1>3
  <2>1. OnDisk \subseteq Live \cup {Value(c)}
    BY <1>1, <1>5 DEF SInv, Clean
  <2>2. disk'[Value(c)] = "none"
    BY <1>5, <1>6
  <2>. QED
    BY <1>6, <2>1, <2>2 DEF OnDisk
<1>10. pc[c] \in Writing
  BY <1>1 DEF Writing
<1>. QED
  BY <1>1, <1>2, <1>3, <1>6, <1>8, <1>9, <1>10, WriterStep DEF Putting

LEMMA CollectStep ==
  ASSUME SInv, NEW c \in Clients, Collect(c)
  PROVE  SInv'
<1>1. pc[c] = "collect" /\ UNCHANGED <<index, junk, pc, mine, got, torn, dirty>>
  BY DEF Collect
<1>2. PICK g \in Obsolete : disk' = [disk EXCEPT ![g] = IF disk[g] = "full" THEN "part" ELSE "none"]
  BY DEF Collect
<1>3. /\ UNCHANGED <<Entries, Live>> /\ KeysOnce' /\ (index' = None \/ index' \in Seq(Records))
  BY <1>1, SameIndex DEF SInv
<1>4. g \in Gens /\ g \notin Live /\ Live \subseteq Gens
  BY ListIs DEF SInv, Obsolete, OnDisk
<1>5. /\ disk' \in [Gens -> {"none", "part", "full"}]
      /\ \A h \in Gens : h # g => disk'[h] = disk[h]
  BY <1>2, <1>4 DEF SInv, Typed
<1>6. \A h \in Live' : h \in torn' \/ disk'[h] = "full"
  BY <1>1, <1>3, <1>4, <1>5 DEF SInv, Backed
<1>7. pc[c] \in Writing /\ pc' = pc /\ mine' = mine
  BY <1>1 DEF Writing
<1>8. /\ pc' \in [Clients -> {"idle", "read"} \cup Writing]
      /\ mine' \in [Clients -> Records \cup {NoRecord}]
  BY <1>7 DEF SInv, Typed
<1>. QED
  BY <1>1, <1>3, <1>5, <1>6, <1>7, <1>8, WriterStep DEF Putting

LEMMA CollectedStep ==
  ASSUME SInv, NEW c \in Clients, Collected(c)
  PROVE  SInv'
<1>1. /\ pc[c] = "collect" /\ Ends(c) /\ UNCHANGED <<index, disk, junk, got, torn>>
      /\ ~dirty' => Obsolete = {}
  BY DEF Collected
<1>2. /\ pc' \in [Clients -> {"idle", "read"} \cup Writing] /\ pc'[c] = "idle"
      /\ \A d \in Clients : d # c => pc'[d] = pc[d]
      /\ mine' \in [Clients -> Records \cup {NoRecord}]
  BY <1>1, EndsIs DEF SInv
<1>3. /\ UNCHANGED <<Entries, Live>> /\ KeysOnce' /\ (index' = None \/ index' \in Seq(Records))
  BY <1>1, SameIndex DEF SInv
<1>4. /\ disk' \in [Gens -> {"none", "part", "full"}] /\ OnDisk' = OnDisk
      /\ \A g \in Live' : g \in torn' \/ disk'[g] = "full"
  BY <1>1, <1>3 DEF SInv, Typed, Backed, OnDisk
<1>5. ~dirty' => OnDisk' \subseteq Live'
  BY <1>1, <1>3, <1>4 DEF Obsolete
<1>6. pc[c] \in Writing
  BY <1>1 DEF Writing
<1>. QED
  BY <1>1, <1>2, <1>3, <1>4, <1>5, <1>6, WriterStep DEF Putting

LEMMA BeginClearStep ==
  ASSUME SInv, NEW c \in Clients, BeginClear(c)
  PROVE  SInv'
<1>1. Exclusive /\ Goto(c, "empty") /\ UNCHANGED <<index, disk, junk, mine, got, torn, dirty>>
  BY DEF BeginClear
<1>2. /\ pc' \in [Clients -> {"idle", "read"} \cup Writing] /\ pc'[c] = "empty"
      /\ \A d \in Clients : d # c => pc'[d] = pc[d]
  BY <1>1, GotoIs DEF SInv, Writing
<1>3. /\ UNCHANGED <<Entries, Live>> /\ KeysOnce' /\ (index' = None \/ index' \in Seq(Records))
  BY <1>1, SameIndex DEF SInv
<1>4. /\ mine' \in [Clients -> Records \cup {NoRecord}]
      /\ disk' \in [Gens -> {"none", "part", "full"}] /\ OnDisk' = OnDisk
      /\ \A g \in Live' : g \in torn' \/ disk'[g] = "full"
  BY <1>1, <1>3 DEF SInv, Typed, Backed, OnDisk
<1>5. ~dirty => OnDisk \subseteq Live
  BY <1>1 DEF SInv, Clean, Exclusive
<1>. QED
  BY <1>1, <1>2, <1>3, <1>4, <1>5, WriterStep DEF Putting

LEMMA EmptyStep ==
  ASSUME SInv, NEW c \in Clients, Empty(c)
  PROVE  SInv'
<1>1. pc[c] = "empty" /\ UNCHANGED <<disk, junk, mine, got, torn>>
  BY DEF Empty
<1>2. PICK l \in {"collect", "idle"} :
         /\ Goto(c, l)
         /\ index' = <<>> \/ UNCHANGED index
         /\ ~dirty' => ~dirty /\ (l = "idle" => UNCHANGED index)
  BY DEF Empty
<1>3. /\ pc' \in [Clients -> {"idle", "read"} \cup Writing] /\ pc'[c] = l
      /\ \A d \in Clients : d # c => pc'[d] = pc[d]
  BY <1>2, GotoIs DEF SInv, Writing
<1>4. /\ Live' \subseteq Live /\ KeysOnce' /\ (index' = None \/ index' \in Seq(Records))
      /\ UNCHANGED index => Live' = Live
  <2>1. CASE UNCHANGED index
    BY <2>1, SameIndex DEF SInv
  <2>2. CASE index' = <<>>
    <3>1. Entries' = <<>> /\ index' \in Seq(Records)
      BY <2>2 DEF Entries
    <3>2. Live' = {} /\ KeysOnce'
      BY <3>1 DEF Live, KeysOnce
    <3>3. UNCHANGED index => Live' = Live
      BY SameIndex DEF SInv
    <3>. QED
      BY <3>1, <3>2, <3>3
  <2>. QED
    BY <1>2, <2>1, <2>2
<1>5. /\ mine' \in [Clients -> Records \cup {NoRecord}]
      /\ disk' \in [Gens -> {"none", "part", "full"}] /\ OnDisk' = OnDisk
      /\ \A g \in Live' : g \in torn' \/ disk'[g] = "full"
  BY <1>1, <1>4 DEF SInv, Typed, Backed, OnDisk
<1>6. ~dirty' /\ l = "idle" => OnDisk' \subseteq Live'
  <2>1. \A d \in Clients : pc[d] \in {"idle", "read", "empty"}
    BY <1>1 DEF SInv, Locked, Writing
  <2>. QED
    BY <1>2, <1>4, <1>5, <2>1 DEF SInv, Clean
<1>7. pc[c] \in Writing
  BY <1>1 DEF Writing
<1>. QED
  BY <1>1, <1>2, <1>3, <1>4, <1>5, <1>6, <1>7, WriterStep DEF Putting

\* A reader leaves the directory as it is, and there may be others.
LEMMA ReaderStep ==
  ASSUME SInv, NEW c \in Clients, UNCHANGED <<index, disk, torn>>, ~dirty' => ~dirty,
         pc' \in [Clients -> {"idle", "read"} \cup Writing], pc'[c] \in {"idle", "read"},
         pc[c] \in {"idle", "read"}, pc'[c] = "read" => Shared,
         pc'[c] = "read" => \E n \in 1 .. Len(Entries) : mine'[c] = Entries[n],
         \A d \in Clients : d # c => pc'[d] = pc[d] /\ mine'[d] = mine[d],
         mine' \in [Clients -> Records \cup {NoRecord}], got' \in [Clients -> Gens \cup {None}]
  PROVE  SInv'
<1>1. UNCHANGED <<Entries, Live, OnDisk>> /\ KeysOnce' /\ (index' = None \/ index' \in Seq(Records))
  BY SameIndex DEF SInv, OnDisk
<1>2. \A d \in Clients : pc'[d] \in Writing => d # c /\ pc[d] \in Writing
  BY DEF Writing
<1>3. Typed'
  <2>1. disk' \in [Gens -> {"none", "part", "full"}]
    BY DEF SInv, Typed
  <2>2. ASSUME NEW d \in Clients, pc'[d] \in Putting \cup {"read"} PROVE mine'[d] \in Records
    <3>1. CASE d = c
      <4>1. Entries \in Seq(Records)
        BY ListIs DEF SInv
      <4>. QED
        BY <2>2, <3>1, <4>1 DEF Putting
    <3>2. CASE d # c
      BY <2>2, <3>2 DEF SInv, Typed
    <3>. QED
      BY <3>1, <3>2
  <2>. QED
    BY <1>1, <2>1, <2>2 DEF Typed
<1>4. Locked'
  BY <1>2 DEF SInv, Locked, Shared, Writing
<1>5. Backed'
  <2>1. \A g \in Live' : g \in torn' \/ disk'[g] = "full"
    BY <1>1 DEF SInv, Backed
  <2>2. ASSUME NEW d \in Clients
        PROVE  /\ pc'[d] \in {"put", "save", "saved", "replace"} => Value(d)' \notin Live'
               /\ pc'[d] \in {"saved", "replace"} => disk'[Value(d)'] = "full"
               /\ pc'[d] = "replace" => mine'[d].size <= Budget
               /\ pc'[d] = "undo" => Value(d)' \notin Live' \/ Value(d)' \in torn'
               /\ pc'[d] = "read" => \E n \in 1 .. Len(Entries') : mine'[d] = Entries'[n]
    <3>1. CASE d = c
      BY <1>1, <3>1
    <3>2. CASE d # c
      BY <1>1, <3>2 DEF SInv, Backed, Value
    <3>. QED
      BY <3>1, <3>2
  <2>. QED
    BY <2>1, <2>2 DEF Backed
<1>6. Clean'
  <2>1. ASSUME ~dirty', NEW d \in Clients, pc'[d] \in {"put", "save", "saved", "replace", "undo"}
        PROVE  Value(d)' \in torn' \/ OnDisk' \subseteq Live' \cup {Value(d)'}
    BY <1>1, <2>1 DEF SInv, Clean, Value
  <2>2. ASSUME ~dirty', \A d \in Clients : pc'[d] \in {"idle", "read", "empty"}
        PROVE  OnDisk' \subseteq Live'
    <3>1. \A d \in Clients : pc[d] \in {"idle", "read", "empty"}
      BY <2>2
    <3>. QED
      BY <1>1, <2>2, <3>1 DEF SInv, Clean
  <2>. QED
    BY <2>1, <2>2 DEF Clean
<1>. QED
  BY <1>1, <1>3, <1>4, <1>5, <1>6 DEF SInv

LEMMA BeginLookupStep ==
  ASSUME SInv, NEW c \in Clients, BeginLookup(c)
  PROVE  SInv'
<1>1. /\ pc[c] = "idle" /\ Shared /\ Goto(c, "read")
      /\ UNCHANGED <<index, disk, junk, got, torn, dirty>>
  BY DEF BeginLookup
<1>2. PICK n \in DOMAIN Entries : mine' = [mine EXCEPT ![c] = Entries[n]]
  BY DEF BeginLookup
<1>3. Entries \in Seq(Records)
  BY ListIs DEF SInv
<1>4. n \in 1 .. Len(Entries) /\ Entries[n] \in Records
  BY <1>3
<1>5. /\ pc' \in [Clients -> {"idle", "read"} \cup Writing] /\ pc'[c] = "read"
      /\ \A d \in Clients : d # c => pc'[d] = pc[d]
  BY <1>1, GotoIs DEF SInv
<1>6. /\ mine' \in [Clients -> Records \cup {NoRecord}] /\ mine'[c] = Entries[n]
      /\ \A d \in Clients : d # c => mine'[d] = mine[d]
      /\ got' \in [Clients -> Gens \cup {None}]
  BY <1>1, <1>2, <1>4 DEF SInv, Typed
<1>. QED
  BY <1>1, <1>4, <1>5, <1>6, ReaderStep

LEMMA ReadStep ==
  ASSUME SInv, NEW c \in Clients, Read(c)
  PROVE  SInv'
<1>1. /\ pc[c] = "read" /\ Ends(c) /\ UNCHANGED <<index, disk, junk, torn, dirty>>
      /\ got' = [got EXCEPT ![c] = Value(c)] \/ got' = got
  BY DEF Read, Value
<1>2. Value(c) \in Gens
  BY <1>1 DEF SInv, Typed, Value, Records
<1>3. got' \in [Clients -> Gens \cup {None}]
  BY <1>1, <1>2 DEF SInv, Typed
<1>4. /\ pc' \in [Clients -> {"idle", "read"} \cup Writing] /\ pc'[c] = "idle"
      /\ \A d \in Clients : d # c => pc'[d] = pc[d] /\ mine'[d] = mine[d]
      /\ mine' \in [Clients -> Records \cup {NoRecord}]
  BY <1>1, EndsIs DEF SInv
<1>. QED
  BY <1>1, <1>3, <1>4, ReaderStep

LEMMA CrashStep ==
  ASSUME SInv, NEW c \in Clients, Crash(c)
  PROVE  SInv'
<1>1. /\ pc[c] # "idle" /\ Ends(c) /\ UNCHANGED <<index, disk, got, torn>>
      /\ dirty' = (dirty \/ pc[c] \in Writing)
  BY DEF Crash
<1>2. /\ pc' \in [Clients -> {"idle", "read"} \cup Writing] /\ pc'[c] = "idle"
      /\ \A d \in Clients : d # c => pc'[d] = pc[d] /\ mine'[d] = mine[d]
      /\ mine' \in [Clients -> Records \cup {NoRecord}]
  BY <1>1, EndsIs DEF SInv
<1>3. pc[c] \in Writing \/ pc[c] = "read"
  BY <1>1 DEF SInv, Typed
<1>4. CASE pc[c] \in Writing
  <2>1. /\ UNCHANGED <<Entries, Live>> /\ KeysOnce' /\ (index' = None \/ index' \in Seq(Records))
    BY <1>1, SameIndex DEF SInv
  <2>2. /\ disk' \in [Gens -> {"none", "part", "full"}]
        /\ \A g \in Live' : g \in torn' \/ disk'[g] = "full"
    BY <1>1, <2>1 DEF SInv, Typed, Backed
  <2>. QED
    BY <1>1, <1>2, <1>4, <2>1, <2>2, WriterStep DEF Putting
<1>5. CASE pc[c] = "read"
  <2>1. ~dirty' => ~dirty
    BY <1>1, <1>5 DEF Writing
  <2>2. got' \in [Clients -> Gens \cup {None}]
    BY <1>1 DEF SInv, Typed
  <2>. QED
    BY <1>1, <1>2, <1>5, <2>1, <2>2, ReaderStep
<1>. QED
  BY <1>3, <1>4, <1>5

-----------------------------------------------------------------------------
(* The theorems.                                                           *)

LEMMA InitInv ==
  ASSUME Init
  PROVE  SInv
<1>. USE DEF Init
<1>1. Entries = <<>> /\ Live = {} /\ OnDisk = {} /\ Len(Entries) = 0
  BY DEF Entries, Live, OnDisk
<1>2. Typed
  BY DEF Typed, Putting
<1>3. Locked /\ KeysOnce
  BY <1>1 DEF Locked, KeysOnce, Writing
<1>4. Backed /\ Clean
  BY <1>1 DEF Backed, Clean
<1>. QED
  BY <1>2, <1>3, <1>4 DEF SInv

LEMMA NextInv ==
  ASSUME SInv, [Next]_vars
  PROVE  SInv'
<1>1. CASE UNCHANGED vars
  BY <1>1 DEF SInv, Typed, Locked, KeysOnce, Backed, Clean, Entries, Live, OnDisk, Value, vars
<1>2. ASSUME NEW c \in Clients, \E r \in Records : BeginPut(c, r) PROVE SInv'
  BY <1>2, BeginPutStep
<1>3. ASSUME NEW c \in Clients,
             \/ Save(c) \/ Declines(c) \/ WriteIndex(c) \/ Replace(c) \/ Sync(c) \/ Undo(c)
             \/ Collect(c) \/ Collected(c)
             \/ BeginClear(c) \/ Empty(c) \/ BeginLookup(c) \/ Read(c) \/ Crash(c)
      PROVE  SInv'
  BY <1>3, SaveStep, DeclinesStep, WriteIndexStep, ReplaceStep, SyncStep, UndoStep, CollectStep,
     CollectedStep, BeginClearStep, EmptyStep, BeginLookupStep, ReadStep, CrashStep
<1>. QED
  BY <1>1, <1>2, <1>3 DEF Next

THEOREM Invariance == Spec => []SInv
<1>1. Init => SInv
  BY InitInv
<1>2. SInv /\ [Next]_vars => SInv'
  BY NextInv
<1>. QED
  BY <1>1, <1>2, PTL DEF Spec

\* The index never has two entries for one fingerprint and token list: put leaves
\* out the old one (cold_prefix.py: put).
THEOREM KeysAreUnique == Spec => []KeysOnce
<1>1. SInv => KeysOnce
  BY DEF SInv
<1>. QED
  BY <1>1, Invariance, PTL

\* Wherever a put, a clear or a collection is cut off, what the index names and what
\* a reader is reading is complete on disk: the file lock keeps writers from readers,
\* and a generation is saved in full before os.replace names it.
THEOREM IndexIsBacked == Spec => []IndexBacked
<1>1. ASSUME SInv PROVE IndexBacked
  <2>1. ASSUME NEW c \in Clients, pc[c] = "read" PROVE Value(c) \in Live
    <3>1. PICK n \in 1 .. Len(Entries) : mine[c] = Entries[n]
      BY <1>1, <2>1 DEF SInv, Backed
    <3>. QED
      BY <1>1, <3>1, ListIs DEF SInv, Value
  <2>. QED
    BY <1>1, <2>1 DEF SInv, Backed, IndexBacked, Value
<1>. QED
  BY <1>1, Invariance, PTL

\* A put or a clear that ran to its end leaves no generation on disk but those that the
\* index names, whatever crashes had left before (the collecting loops of put and
\* clear; they pass over the temporary index files of a crash).
THEOREM GenerationsAreCollected == Spec => []GenerationsCollected
<1>1. SInv => GenerationsCollected
  BY DEF SInv, Clean, GenerationsCollected, Exclusive
<1>. QED
  BY <1>1, Invariance, PTL

-----------------------------------------------------------------------------
(* The refinement of PrefixStore.                                          *)

LEMMA InitImplements ==
  ASSUME Init
  PROVE  Promise!Init
<1>. QED
  BY DEF Init, Promise!Init, Entries

\* The replacement of the index is the put.
LEMMA ReplaceImplements ==
  ASSUME SInv, NEW c \in Clients, Replace(c)
  PROVE  Promise!Put(mine[c]) /\ mine[c] \in Promise!Entries
<1>. DEFINE r == mine[c]
            all == Append(RemoveFirstMatch(Entries, LAMBDA e : e.key = r.key), r)
<1>1. pc[c] = "replace" /\ index' = Retained(r) /\ got' = got
  BY DEF Replace
<1>2. /\ r \in Records /\ r.size <= Budget /\ Entries \in Seq(Records) /\ KeysOnce
      /\ r.value \notin Live
  BY <1>1, ListIs DEF SInv, Typed, Putting, Backed, Value
<1>3. /\ Retained(r) \in Seq(Records)
      /\ \E m \in DOMAIN all :
            /\ Retained(r) = SubSeq(all, m, Len(all)) /\ Within(Retained(r))
            /\ m > 1 => ~Within(SubSeq(all, m - 1, Len(all)))
  BY <1>2, RetainedIs
<1>4. Entries' = Retained(r)
  BY <1>1, <1>3, ColdPrefixAssumption DEF Entries, Records
<1>5. all = Append(Promise!Others(r.key), r)
  BY DEF Promise!Others, RemoveFirstMatch, SelectInSeq, RemoveAt, Min, Promise!RemoveFirstMatch,
         Promise!SelectInSeq, Promise!RemoveAt, Promise!Min
<1>6. \A s : Within(s) <=> Promise!Within(s)
  BY DEF Within, SizeOf, MapThenSumSet, MapThenFoldSet, Promise!Within, Promise!SizeOf,
         Promise!MapThenSumSet, Promise!MapThenFoldSet
<1>7. \A i \in DOMAIN Entries : Entries[i].value # r.value
  BY <1>2 DEF Live
<1>. HIDE DEF all
<1>. QED
  BY <1>1, <1>2, <1>3, <1>4, <1>5, <1>6, <1>7 DEF Promise!Put, Promise!Entries, Records

LEMMA StepImplements ==
  ASSUME SInv, [Next]_vars
  PROVE  [Promise!Next]_<<Entries, got>>
<1>1. ASSUME UNCHANGED <<index, got>> PROVE UNCHANGED <<Entries, got>>
  BY <1>1 DEF Entries
<1>2. ASSUME NEW c \in Clients, Replace(c) PROVE Promise!Next
  BY <1>2, ReplaceImplements DEF Promise!Next
<1>3. ASSUME NEW c \in Clients, Empty(c) PROVE [Promise!Next]_<<Entries, got>>
  <2>1. CASE index' = <<>> /\ got' = got
    <3>1. Entries' = <<>>
      BY <2>1 DEF Entries
    <3>. QED
      BY <2>1, <3>1 DEF Promise!Next, Promise!Clear
  <2>2. CASE UNCHANGED <<index, got>>
    BY <1>1, <2>2
  <2>. QED
    BY <1>3, <2>1, <2>2 DEF Empty
<1>4. ASSUME NEW c \in Clients, Read(c) PROVE [Promise!Next]_<<Entries, got>>
  <2>1. CASE got' = [got EXCEPT ![c] = mine[c].value]
    <3>1. PICK n \in 1 .. Len(Entries) : mine[c] = Entries[n]
      BY <1>4 DEF SInv, Backed, Read
    <3>2. Entries \in Seq(Records) /\ UNCHANGED Entries
      BY <1>4, ListIs DEF SInv, Read, Entries
    <3>3. n \in DOMAIN Entries
      BY <3>1, <3>2
    <3>. QED
      BY <2>1, <3>1, <3>2, <3>3 DEF Promise!Next, Promise!Read
  <2>2. CASE UNCHANGED <<index, got>>
    BY <1>1, <2>2
  <2>. QED
    BY <1>4, <2>1, <2>2 DEF Read
<1>5. ASSUME NEW c \in Clients,
             \/ \E r \in Records : BeginPut(c, r)
             \/ Save(c) \/ Declines(c) \/ WriteIndex(c) \/ Sync(c) \/ Undo(c)
             \/ Collect(c) \/ Collected(c) \/ BeginClear(c) \/ BeginLookup(c) \/ Crash(c)
      PROVE  UNCHANGED <<index, got>>
  BY <1>5 DEF BeginPut, Save, Declines, WriteIndex, Sync, Undo, Collect, Collected, BeginClear,
              BeginLookup, Crash
<1>6. CASE UNCHANGED vars
  BY <1>1, <1>6 DEF vars
<1>. QED
  BY <1>1, <1>2, <1>3, <1>4, <1>5, <1>6 DEF Next

\* The directory with its locks and crashes implements the list: every put takes
\* place when its index replaces the old one, every clear when its empty one does.
THEOREM StoreImplements == Spec => Implements
<1>1. Init => Promise!Init
  BY InitImplements
<1>2. SInv /\ [Next]_vars => [Promise!Next]_<<Entries, got>>
  BY StepImplements
<1>. QED
  BY <1>1, <1>2, Invariance, PTL DEF Spec, Implements, Promise!Spec
=============================================================================
